------------------------------- MODULE FwUpg -------------------------------
(***************************************************************************)
(* The firmware-upgrade core, src/fw/fw_upg.c: one upgrade session shared  *)
(* by the UDP, CAN and WebSocket channels.  Image bytes are collected in a *)
(* RAM page and programmed page by page into flash slot 1; finishing the   *)
(* session reads the slot back and verifies it.                            *)
(*                                                                         *)
(* Every fw_upg_* call runs from lock_take to lock_give, so each is one    *)
(* step here; the parameter rc of such an action is the value the call     *)
(* returns, which is how the channel modules see its outcome.  fw_upg_     *)
(* active and fw_upg_failed read their flag without the lock.              *)
(*                                                                         *)
(* The slot is an array of cells, each Erased, one byte, or Corrupt (a NOR *)
(* cell programmed twice without an erase holds the AND of both bytes).    *)
(* The CRC and the keyhash TLV are parameters: the session uses only their *)
(* values, and the instances choose a checksum that has collisions.        *)
(***************************************************************************)
EXTENDS Integers, Sequences

CONSTANTS
  Byte,            \* the values of an image byte
  Erased,          \* content of an erased cell
  Corrupt,         \* content of a cell programmed twice, or of a foreign image
  PageSz,          \* PAGE_SZ, the flash programming page
  SlotSize,        \* SLOT1_SIZE in cells
  TrailerOff,      \* first cell of the MCUboot trailer at the end of the slot
  MinTotal,        \* smallest accepted image (64 bytes)
  Totals,          \* the sizes a START may name
  Chunks,          \* the data blocks a channel may pass to fw_upg_write
  CrcValues,       \* the checksums an END may carry
  Crc16(_, _),     \* crc16_ccitt(seed, bytes)
  TlvKeyOk(_),     \* the slot's MCUboot TLV carries the compiled-in keyhash
  FlashFaults,     \* whether erase, program and read may fail
  NoImage          \* no verified image in the slot

Cells == 0 .. SlotSize - 1
KeyHash == {"none", "good", "bad"}

ASSUME FwUpgAssumption ==
  /\ PageSz \in Nat \ {0}
  /\ SlotSize \in Nat \ {0}
  /\ TrailerOff \in 0 .. SlotSize
  /\ MinTotal \in Nat \ {0}
  /\ Totals \subseteq Nat
  /\ Chunks \subseteq Seq(Byte)
  /\ Erased \notin Byte
  /\ Corrupt \notin Byte
  /\ Corrupt # Erased
  /\ NoImage \notin Seq(Byte)
  /\ FlashFaults \in BOOLEAN

VARIABLES
  active,    \* s.active: a session is open
  failed,    \* s.failed: a write of this session failed
  total,     \* s.total: announced image size
  written,   \* s.written: bytes handed to flash
  page,      \* s.page[0 .. s.page_len - 1]
  slot1,     \* content of flash slot 1
  trailer,   \* the MCUboot trailer of slot 1
  stream,    \* history: bytes the session accepted since its START
  verified   \* history: what the last successful finish found in the slot,
             \* until the slot is erased or programmed again

session == <<active, failed, total, written, page>>
vars == <<active, failed, total, written, page, slot1, trailer, stream, verified>>

-----------------------------------------------------------------------------
(* Flash (io_flash.erase / io_flash.write on slot 1)                       *)

\* Programming a cell that is not erased leaves neither value.
Program(old, byte) == IF old = Erased THEN byte ELSE Corrupt

\* Slot 1 after the first n bytes of data were programmed from cell off on.
Programmed(off, data, n) ==
  [c \in Cells |-> IF c \in off .. off + n - 1
                   THEN Program(slot1[c], data[c - off + 1]) ELSE slot1[c]]

\* Image bytes that reach the trailer leave no valid trailer there.
TrailerAfter(off, n) == IF off + n > TrailerOff /\ n > 0 THEN "bad" ELSE trailer

FlashWrite(off, data, n) ==
  /\ slot1' = Programmed(off, data, n)
  /\ trailer' = TrailerAfter(off, n)
  /\ verified' = IF n = 0 THEN verified ELSE NoImage

\* Variant with a fault: the erase reaches one cell past the slot.
FlashEraseBeyond(n) ==
  /\ slot1' = [c \in 0 .. SlotSize |-> IF c < n \/ c = SlotSize THEN Erased ELSE slot1[c]]
  /\ UNCHANGED <<trailer, verified>>

\* An erase that fails has erased some prefix of the slot.
FlashErase(n) ==
  /\ slot1' = [c \in Cells |-> IF c < n THEN Erased ELSE slot1[c]]
  /\ trailer' = IF n = SlotSize THEN "unset"
                ELSE IF n > TrailerOff /\ trailer # "unset" THEN "bad" ELSE trailer
  /\ verified' = IF n = 0 THEN verified ELSE NoImage

-----------------------------------------------------------------------------
(* fw_upg_start                                                            *)

StartRejected(tot, kh, rc) ==
  /\ rc = IF active THEN -3
          ELSE IF tot < MinTotal \/ tot > SlotSize THEN -1 ELSE -2
  /\ active \/ tot < MinTotal \/ tot > SlotSize \/ kh = "bad"
  /\ UNCHANGED vars

StartAdmissible(tot, kh) ==
  ~active /\ tot \in MinTotal .. SlotSize /\ kh # "bad"

\* Variant with a fault: page_len is not reset.
StartOpensKeepsPage(tot, kh, rc) ==
  /\ StartAdmissible(tot, kh)
  /\ rc = 0
  /\ FlashErase(SlotSize)
  /\ active' = TRUE
  /\ failed' = FALSE
  /\ total' = tot
  /\ written' = 0
  /\ stream' = <<>>
  /\ UNCHANGED page

\* The whole slot is erased, whatever the size of the image.
StartOpens(tot, kh, rc) ==
  /\ StartAdmissible(tot, kh)
  /\ rc = 0
  /\ FlashErase(SlotSize)
  /\ active' = TRUE
  /\ failed' = FALSE
  /\ total' = tot
  /\ written' = 0
  /\ page' = <<>>
  /\ stream' = <<>>

StartEraseFails(tot, kh, rc) ==
  /\ FlashFaults
  /\ StartAdmissible(tot, kh)
  /\ rc = -1
  /\ \E n \in 0 .. SlotSize - 1 : FlashErase(n)
  /\ UNCHANGED <<session, stream>>

FwUpgStart(tot, kh, rc) ==
  \/ StartRejected(tot, kh, rc)
  \/ StartOpens(tot, kh, rc)
  \/ StartEraseFails(tot, kh, rc)

-----------------------------------------------------------------------------
(* fw_upg_write                                                            *)

received == written + Len(page)

WriteRejected(rc) ==
  /\ ~active \/ failed
  /\ rc = -1
  /\ UNCHANGED vars

WriteOverflows(data, rc) ==
  /\ active /\ ~failed
  /\ received + Len(data) > total
  /\ rc = -1
  /\ failed' = TRUE
  /\ UNCHANGED <<active, total, written, page, slot1, trailer, stream, verified>>

WriteFits(data) == active /\ ~failed /\ received + Len(data) <= total

\* Variant with a fault: the buffered bytes are not counted.
FullPagesOfData(data) == Len(data) \div PageSz

\* The bytes of the buffered page and the new data that fill whole pages.
FullPages(data) == (Len(page) + Len(data)) \div PageSz

\* page_flush runs for every page that fills up; the rest stays buffered.
WriteStores(data, rc) ==
  LET buf == page \o data
      n == FullPages(data) * PageSz
  IN /\ WriteFits(data)
     /\ rc = 0
     /\ FlashWrite(written, buf, n)
     /\ written' = written + n
     /\ page' = SubSeq(buf, n + 1, Len(buf))
     /\ stream' = stream \o data
     /\ UNCHANGED <<active, failed, total>>

\* The flush of page k fails after programming part of it: the page counts as
\* written all the same and the remaining data are dropped.
WriteFlushFails(data, rc) ==
  LET buf == page \o data
  IN /\ FlashFaults
     /\ WriteFits(data)
     /\ rc = -1
     /\ \E k \in 1 .. FullPages(data) :
          /\ \E n \in (k - 1) * PageSz .. k * PageSz : FlashWrite(written, buf, n)
          /\ written' = written + k * PageSz
     /\ page' = <<>>
     /\ failed' = TRUE
     /\ UNCHANGED <<active, total, stream>>

FwUpgWrite(data, rc) ==
  \/ WriteRejected(rc)
  \/ WriteOverflows(data, rc)
  \/ WriteStores(data, rc)
  \/ WriteFlushFails(data, rc)

-----------------------------------------------------------------------------
(* fw_upg_abort, fw_upg_finish, fw_upg_finish_ex                           *)

FwUpgAbort ==
  /\ active' = FALSE
  /\ failed' = FALSE
  /\ page' = <<>>
  /\ written' = 0
  /\ UNCHANGED <<total, slot1, trailer, stream, verified>>

\* What every exit of finish_ex leaves behind (label out); page_len is not
\* among the fields it resets.
FinishCloses ==
  /\ active' = FALSE
  /\ failed' = FALSE
  /\ written' = 0
  /\ UNCHANGED <<total, stream>>

FinishRejected(rc) ==
  /\ ~active
  /\ rc = -1
  /\ UNCHANGED vars

\* Variant with a fault: a failed session is judged by its size and key alone.
FinishFailedSessionJudged(rc) ==
  /\ active /\ failed /\ received = total /\ TlvKeyOk(slot1)
  /\ rc = 0
  /\ FinishCloses
  /\ verified' = stream
  /\ UNCHANGED <<page, slot1, trailer>>

\* s.failed short-circuits the flush: the page keeps its bytes.
FinishFailedSession(rc) ==
  /\ active /\ failed
  /\ rc = -1
  /\ FinishCloses
  /\ UNCHANGED <<page, slot1, trailer, verified>>

FinishFlushFails(rc) ==
  /\ FlashFaults
  /\ active /\ ~failed /\ page # <<>>
  /\ rc = -1
  /\ FinishCloses
  /\ page' = <<>>
  /\ \E n \in 0 .. Len(page) : FlashWrite(written, page, n)

\* The image as read back from a slot.
Content(slot, n) == [i \in 1 .. n |-> slot[i - 1]]

\* Variants with a fault: size and CRC are not compared, or only the CRC.
ReadBackOkKeyOnly(slot, crc, check) == TlvKeyOk(slot)
ReadBackOkNoCrc(slot, crc, check) == received = total /\ TlvKeyOk(slot)

ReadBackOk(slot, crc, check) ==
  /\ received = total
  /\ check => Crc16(0, Content(slot, total)) = crc
  /\ TlvKeyOk(slot)

\* The tail page is flushed, then size, CRC (unless the channel has none) and
\* keyhash decide.
FinishVerifies(crc, check, rc) ==
  LET slot == Programmed(written, page, Len(page))
  IN /\ active /\ ~failed
     /\ FinishCloses
     /\ page' = <<>>
     /\ slot1' = slot
     /\ trailer' = TrailerAfter(written, Len(page))
     /\ \/ /\ ReadBackOk(slot, crc, check)
           /\ rc = 0
           /\ verified' = stream
        \/ /\ FlashFaults \/ ~ReadBackOk(slot, crc, check)
           /\ rc = -1
           /\ verified' = NoImage

FwUpgFinishEx(crc, check, rc) ==
  \/ FinishRejected(rc)
  \/ FinishFailedSession(rc)
  \/ FinishFlushFails(rc)
  \/ FinishVerifies(crc, check, rc)

FwUpgFinish(crc, rc) == FwUpgFinishEx(crc, TRUE, rc)

\* fw_upg_total
announced == IF active THEN total ELSE 0

-----------------------------------------------------------------------------
(* External: bootutil and the boot loader, as the channels use them        *)

Pending == {"test", "perm"}

\* boot_set_pending writes the trailer.  A request that is already there stays;
\* over image data it cannot be written.
BootSetPending(perm, rc) ==
  /\ \/ /\ trailer = "unset" /\ rc = 0
        /\ trailer' = IF perm THEN "perm" ELSE "test"
     \/ /\ trailer \in Pending /\ rc = 0
        /\ UNCHANGED trailer
     \/ /\ trailer = "bad" /\ rc = -1
        /\ UNCHANGED trailer
     \/ /\ FlashFaults /\ trailer = "unset" /\ rc = -1
        /\ trailer' \in {"unset", "bad"}
  /\ UNCHANGED <<session, slot1, stream, verified>>

\* A reset loses the RAM state.  MCUboot swaps a pending slot 1 with slot 0,
\* so that slot 1 holds the replaced image and no request.
Reboot ==
  /\ active' = FALSE
  /\ failed' = FALSE
  /\ total' = 0
  /\ written' = 0
  /\ page' = <<>>
  /\ stream' = <<>>
  /\ IF trailer \in Pending
     THEN /\ slot1' = [c \in Cells |-> Corrupt]
          /\ trailer' = "bad"
          /\ verified' = NoImage
     ELSE UNCHANGED <<slot1, trailer, verified>>

-----------------------------------------------------------------------------
Init ==
  /\ active = FALSE
  /\ failed = FALSE
  /\ total = 0
  /\ written = 0
  /\ page = <<>>
  /\ slot1 \in {[c \in Cells |-> Erased], [c \in Cells |-> Corrupt]}
  /\ trailer = "unset"
  /\ stream = <<>>
  /\ verified = NoImage

RC == -3 .. 0

Next ==
  \/ \E tot \in Totals, kh \in KeyHash, rc \in RC : FwUpgStart(tot, kh, rc)
  \/ \E data \in Chunks, rc \in RC : FwUpgWrite(data, rc)
  \/ FwUpgAbort
  \/ \E crc \in CrcValues, check \in BOOLEAN, rc \in RC : FwUpgFinishEx(crc, check, rc)
  \/ \E perm \in BOOLEAN, rc \in RC : BootSetPending(perm, rc)
  \/ Reboot

Spec == Init /\ [][Next]_vars

-----------------------------------------------------------------------------
(* Properties                                                              *)

\* Every call keeps the session, the slot and its trailer within their types:
\* offsets never negative, nothing but bytes accepted.
TypeOK ==
  /\ active \in BOOLEAN
  /\ failed \in BOOLEAN
  /\ total \in Nat
  /\ written \in Nat
  /\ page \in Seq(Byte)
  /\ slot1 \in [Cells -> Byte \cup {Erased, Corrupt}]
  /\ trailer \in {"unset", "bad"} \cup Pending
  /\ stream \in Seq(Byte)
  /\ verified \in Seq(Byte) \cup {NoImage}

\* Flash and page buffer together hold exactly the bytes fw_upg_write accepted,
\* in order, for as long as no write failed.
SlotMatchesStream ==
  active /\ ~failed =>
    /\ received = Len(stream)
    /\ \A i \in 1 .. written : slot1[i - 1] = stream[i]
    /\ \A i \in 1 .. Len(page) : page[i] = stream[written + i]

\* Every page is programmed at a page boundary, into cells the START erased,
\* also after a flush that failed half way: no cell is programmed twice.
AheadErased ==
  active => /\ written % PageSz = 0
            /\ Len(page) < PageSz
            /\ written + Len(page) <= total
            /\ total \in MinTotal .. SlotSize
            /\ \A c \in Cells : c >= written => slot1[c] = Erased

\* A finish that returned 0 vouches for an image that is in the slot byte for
\* byte as it was received, and for nothing after the slot changed again.
VerifiedInSlot ==
  verified # NoImage =>
    /\ ~active
    /\ Len(verified) \in MinTotal .. SlotSize
    /\ \A i \in 1 .. Len(verified) : slot1[i - 1] = verified[i]
    /\ \A c \in Cells : c >= Len(verified) => slot1[c] = Erased
    /\ TlvKeyOk(slot1)

=============================================================================
