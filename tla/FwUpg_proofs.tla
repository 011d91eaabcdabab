--------------------------- MODULE FwUpg_proofs ---------------------------
(***************************************************************************)
(* Proofs about the upgrade core, for every page and slot size, every set  *)
(* of blocks and image sizes, every checksum, with and without flash       *)
(* faults.                                                                 *)
(***************************************************************************)
EXTENDS FwUpg, SequenceTheorems, TLAPS

-----------------------------------------------------------------------------
(* Arithmetic of pages                                                     *)

\* The whole pages of x bytes are at most x bytes, and less than a page remains.
LEMMA DivBounds ==
  ASSUME NEW P \in Nat \ {0}, NEW x \in Nat
  PROVE  /\ x \div P \in Nat
         /\ (x \div P) * P \in Nat
         /\ (x \div P) * P <= x
         /\ x - (x \div P) * P < P
OBVIOUS

\* The first k of q pages.
LEMMA PagesBelow ==
  ASSUME NEW P \in Nat \ {0}, NEW q \in Nat, NEW k \in 1 .. q
  PROVE  /\ k * P \in Nat
         /\ (k - 1) * P \in Nat
         /\ k * P <= q * P
<1>1. PICK j \in Nat : q = k + j
  BY q - k \in Nat, q = k + (q - k)
<1>2. q * P = k * P + j * P /\ j * P \in Nat /\ k * P \in Nat
  BY <1>1
<1>. QED BY <1>1, <1>2

\* Whole pages after a page boundary end at a page boundary.
LEMMA ModAdd ==
  ASSUME NEW P \in Nat \ {0}, NEW w \in Nat, NEW k \in Nat, w % P = 0
  PROVE  (w + k * P) % P = 0
<1>. DEFINE j == w \div P
<1>1. w = j * P /\ j \in Nat /\ j + k \in Nat
  OBVIOUS
<1>2. w + k * P = (j + k) * P
  BY <1>1
<1>3. ((j + k) * P) % P = 0
  BY <1>1
<1>. QED BY <1>2, <1>3

-----------------------------------------------------------------------------
(* Flash contents                                                          *)

Content1 == Byte \cup {Erased, Corrupt}

\* Programming bytes leaves a slot of the right type.
LEMMA ProgrammedType ==
  ASSUME slot1 \in [Cells -> Content1],
         NEW off \in Nat, NEW data \in Seq(Byte), NEW n \in 0 .. Len(data)
  PROVE  Programmed(off, data, n) \in [Cells -> Content1]
<1>. SUFFICES ASSUME NEW c \in Cells, c \in off .. off + n - 1
              PROVE  Program(slot1[c], data[c - off + 1]) \in Content1
  BY DEF Programmed
<1>1. c - off + 1 \in 1 .. Len(data)
  BY FwUpgAssumption DEF Cells
<1>2. data[c - off + 1] \in Byte
  BY <1>1, ElementOfSeq
<1>. QED BY <1>2 DEF Program, Content1

\* The number of buffered bytes fw_upg_write flushes.
LEMMA FlushBounds ==
  ASSUME TypeOK, NEW data \in Seq(Byte)
  PROVE  /\ page \o data \in Seq(Byte)
         /\ Len(page \o data) = Len(page) + Len(data)
         /\ Len(page) \in Nat /\ Len(data) \in Nat
         /\ FullPages(data) \in Nat
         /\ FullPages(data) * PageSz \in 0 .. Len(page \o data)
         /\ Len(page) + Len(data) - FullPages(data) * PageSz < PageSz
<1>1. /\ page \o data \in Seq(Byte)
      /\ Len(page \o data) = Len(page) + Len(data)
      /\ Len(page) \in Nat /\ Len(data) \in Nat
  BY ConcatProperties, LenProperties DEF TypeOK
<1>. DEFINE x == Len(page) + Len(data)
<1>2. x \in Nat
  BY <1>1
<1>3. /\ x \div PageSz \in Nat
      /\ (x \div PageSz) * PageSz \in Nat
      /\ (x \div PageSz) * PageSz <= x
      /\ x - (x \div PageSz) * PageSz < PageSz
  BY <1>2, DivBounds, FwUpgAssumption
<1>. QED BY <1>1, <1>2, <1>3 DEF FullPages

\* What is left in the page buffer after the whole pages were flushed.
LEMMA RestOfPage ==
  ASSUME NEW buf \in Seq(Byte), NEW n \in 0 .. Len(buf)
  PROVE  /\ SubSeq(buf, n + 1, Len(buf)) \in Seq(Byte)
         /\ Len(SubSeq(buf, n + 1, Len(buf))) = Len(buf) - n
         /\ \A i \in 1 .. Len(buf) - n : SubSeq(buf, n + 1, Len(buf))[i] = buf[n + i]
<1>1. Len(buf) \in Nat /\ n + 1 \in Int /\ Len(buf) \in Int
  BY LenProperties
<1>2. \A i \in n + 1 .. Len(buf) : buf[i] \in Byte
  BY <1>1, ElementOfSeq
<1>3. /\ SubSeq(buf, n + 1, Len(buf)) \in Seq(Byte)
      /\ Len(SubSeq(buf, n + 1, Len(buf)))
           = IF n + 1 <= Len(buf) THEN Len(buf) - (n + 1) + 1 ELSE 0
      /\ \A i \in 1 .. Len(buf) - (n + 1) + 1 :
            SubSeq(buf, n + 1, Len(buf))[i] = buf[n + 1 + i - 1]
  BY <1>1, <1>2, SubSeqProperties
<1>. QED BY <1>1, <1>3

-----------------------------------------------------------------------------
(* Type correctness                                                        *)

\* An erase, complete or not, leaves a slot and a trailer of the right type.
LEMMA EraseType ==
  ASSUME TypeOK, NEW n \in 0 .. SlotSize, FlashErase(n)
  PROVE  /\ slot1' \in [Cells -> Content1]
         /\ trailer' \in {"unset", "bad"} \cup Pending
         /\ verified' \in Seq(Byte) \cup {NoImage}
BY DEF TypeOK, FlashErase, Content1

\* Programming part of a buffer keeps slot and trailer typed.
LEMMA WriteType ==
  ASSUME TypeOK, NEW off \in Nat, NEW data \in Seq(Byte), NEW n \in 0 .. Len(data),
         FlashWrite(off, data, n)
  PROVE  /\ slot1' \in [Cells -> Content1]
         /\ trailer' \in {"unset", "bad"} \cup Pending
         /\ verified' \in Seq(Byte) \cup {NoImage}
<1>1. slot1' \in [Cells -> Content1]
  BY ProgrammedType DEF TypeOK, FlashWrite, Content1
<1>2. trailer' \in {"unset", "bad"} \cup Pending
  BY DEF TypeOK, FlashWrite, TrailerAfter
<1>3. verified' \in Seq(Byte) \cup {NoImage}
  BY DEF TypeOK, FlashWrite
<1>. QED BY <1>1, <1>2, <1>3

\* fw_upg_start keeps the types.
LEMMA StartType ==
  ASSUME TypeOK, NEW tot \in Nat, NEW kh \in KeyHash, NEW rc \in RC,
         FwUpgStart(tot, kh, rc)
  PROVE  TypeOK'
<1>1. CASE StartRejected(tot, kh, rc)
  BY <1>1 DEF StartRejected, TypeOK, vars
<1>2. CASE StartOpens(tot, kh, rc)
  <2>1. SlotSize \in 0 .. SlotSize /\ tot \in Nat
    BY FwUpgAssumption
  <2>2. /\ slot1' \in [Cells -> Content1]
        /\ trailer' \in {"unset", "bad"} \cup Pending
        /\ verified' \in Seq(Byte) \cup {NoImage}
    BY <1>2, <2>1, EraseType DEF StartOpens
  <2>3. <<>> \in Seq(Byte)
    BY EmptySeq
  <2>. QED BY <1>2, <2>1, <2>2, <2>3 DEF StartOpens, TypeOK, Content1
<1>3. CASE StartEraseFails(tot, kh, rc)
  <2>1. PICK n \in 0 .. SlotSize - 1 : FlashErase(n)
    BY <1>3 DEF StartEraseFails
  <2>2. n \in 0 .. SlotSize
    BY FwUpgAssumption
  <2>3. /\ slot1' \in [Cells -> Content1]
        /\ trailer' \in {"unset", "bad"} \cup Pending
        /\ verified' \in Seq(Byte) \cup {NoImage}
    BY <2>1, <2>2, EraseType
  <2>. QED BY <1>3, <2>3 DEF StartEraseFails, TypeOK, Content1, session
<1>. QED BY <1>1, <1>2, <1>3 DEF FwUpgStart

\* fw_upg_write keeps the types.
LEMMA WriteCallType ==
  ASSUME TypeOK, NEW data \in Seq(Byte), NEW rc \in RC, FwUpgWrite(data, rc)
  PROVE  TypeOK'
<1>. DEFINE buf == page \o data
            n == FullPages(data) * PageSz
<1>0. data \in Seq(Byte) /\ written \in Nat
  BY FwUpgAssumption DEF TypeOK
<1>f. /\ buf \in Seq(Byte)
      /\ FullPages(data) \in Nat
      /\ n \in 0 .. Len(buf)
      /\ Len(buf) \in Nat
  BY <1>0, FlushBounds
<1>1. CASE WriteRejected(rc)
  BY <1>1 DEF WriteRejected, TypeOK, vars
<1>2. CASE WriteOverflows(data, rc)
  BY <1>2 DEF WriteOverflows, TypeOK
<1>3. CASE WriteStores(data, rc)
  <2>1. /\ slot1' \in [Cells -> Content1]
        /\ trailer' \in {"unset", "bad"} \cup Pending
        /\ verified' \in Seq(Byte) \cup {NoImage}
    BY <1>0, <1>f, <1>3, WriteType DEF WriteStores
  <2>2. page' \in Seq(Byte)
    BY <1>f, <1>3, RestOfPage DEF WriteStores
  <2>3. stream' \in Seq(Byte)
    BY <1>0, <1>3, ConcatProperties DEF WriteStores, TypeOK
  <2>4. written' \in Nat
    BY <1>0, <1>f, <1>3 DEF WriteStores
  <2>. QED BY <1>3, <2>1, <2>2, <2>3, <2>4 DEF WriteStores, TypeOK, Content1
<1>4. CASE WriteFlushFails(data, rc)
  <2>1. PICK k \in 1 .. FullPages(data) :
          /\ \E m \in (k - 1) * PageSz .. k * PageSz : FlashWrite(written, buf, m)
          /\ written' = written + k * PageSz
    BY <1>4 DEF WriteFlushFails
  <2>2. PICK m \in (k - 1) * PageSz .. k * PageSz : FlashWrite(written, buf, m)
    BY <2>1
  <2>3. k * PageSz \in Nat /\ (k - 1) * PageSz \in Nat /\ k * PageSz <= n
    BY <1>f, PagesBelow, FwUpgAssumption
  <2>4. m \in 0 .. Len(buf)
    BY <1>f, <2>3
  <2>5. /\ slot1' \in [Cells -> Content1]
        /\ trailer' \in {"unset", "bad"} \cup Pending
        /\ verified' \in Seq(Byte) \cup {NoImage}
    BY <1>0, <1>f, <2>2, <2>4, WriteType
  <2>6. written' \in Nat
    BY <1>0, <2>1, <2>3
  <2>7. <<>> \in Seq(Byte)
    BY EmptySeq
  <2>. QED BY <1>4, <2>5, <2>6, <2>7 DEF WriteFlushFails, TypeOK, Content1
<1>. QED BY <1>1, <1>2, <1>3, <1>4 DEF FwUpgWrite

\* fw_upg_finish_ex keeps the types.
LEMMA FinishType ==
  ASSUME TypeOK, NEW crc, NEW check, NEW rc, FwUpgFinishEx(crc, check, rc)
  PROVE  TypeOK'
<1>0. Len(page) \in Nat /\ <<>> \in Seq(Byte) /\ page \in Seq(Byte) /\ written \in Nat
  BY LenProperties, EmptySeq DEF TypeOK
<1>1. CASE FinishRejected(rc)
  BY <1>1 DEF FinishRejected, TypeOK, vars
<1>2. CASE FinishFailedSession(rc)
  BY <1>2 DEF FinishFailedSession, FinishCloses, TypeOK
<1>3. CASE FinishFlushFails(rc)
  <2>1. PICK n \in 0 .. Len(page) : FlashWrite(written, page, n)
    BY <1>3 DEF FinishFlushFails
  <2>2. /\ slot1' \in [Cells -> Content1]
        /\ trailer' \in {"unset", "bad"} \cup Pending
        /\ verified' \in Seq(Byte) \cup {NoImage}
    BY <1>0, <2>1, WriteType
  <2>. QED BY <1>0, <1>3, <2>2 DEF FinishFlushFails, FinishCloses, TypeOK, Content1
<1>4. CASE FinishVerifies(crc, check, rc)
  <2>1. slot1' \in [Cells -> Content1]
    <3>1. Len(page) \in 0 .. Len(page)
      BY <1>0
    <3>. QED BY <1>0, <1>4, <3>1, ProgrammedType DEF FinishVerifies, TypeOK, Content1
  <2>2. trailer' \in {"unset", "bad"} \cup Pending
    BY <1>4 DEF FinishVerifies, TrailerAfter, TypeOK
  <2>3. verified' \in Seq(Byte) \cup {NoImage}
    BY <1>4 DEF FinishVerifies, TypeOK
  <2>. QED BY <1>0, <1>4, <2>1, <2>2, <2>3 DEF FinishVerifies, FinishCloses, TypeOK, Content1
<1>. QED BY <1>1, <1>2, <1>3, <1>4 DEF FwUpgFinishEx

\* The calls of bootutil and the reset.
LEMMA OtherType ==
  ASSUME TypeOK, FwUpgAbort \/ (\E perm \in BOOLEAN, rc \in RC : BootSetPending(perm, rc)) \/ Reboot
  PROVE  TypeOK'
<1>0. <<>> \in Seq(Byte)
  BY EmptySeq
<1>1. CASE FwUpgAbort
  BY <1>0, <1>1 DEF FwUpgAbort, TypeOK
<1>2. CASE \E perm \in BOOLEAN, rc \in RC : BootSetPending(perm, rc)
  BY <1>2 DEF BootSetPending, TypeOK, session, Pending
<1>3. CASE Reboot
  BY <1>0, <1>3 DEF Reboot, TypeOK
<1>. QED BY <1>1, <1>2, <1>3

\* No call leaves the types.
LEMMA TypeStep == TypeOK /\ [Next]_vars => TypeOK'
<1>. SUFFICES ASSUME TypeOK, [Next]_vars PROVE TypeOK'
  OBVIOUS
<1>1. CASE UNCHANGED vars
  BY <1>1 DEF TypeOK, vars
<1>2. CASE Next
  <2>1. Chunks \subseteq Seq(Byte) /\ Totals \subseteq Nat
    BY FwUpgAssumption
  <2>. QED BY <1>2, <2>1, StartType, WriteCallType, FinishType, OtherType DEF Next
<1>. QED BY <1>1, <1>2

\* A device after reset is of the right type.
LEMMA InitType == Init => TypeOK
<1>. SUFFICES ASSUME Init PROVE TypeOK
  OBVIOUS
<1>1. <<>> \in Seq(Byte)
  BY EmptySeq
<1>2. slot1 \in [Cells -> Byte \cup {Erased, Corrupt}]
  <2>1. /\ [c \in Cells |-> Erased] \in [Cells -> Byte \cup {Erased, Corrupt}]
        /\ [c \in Cells |-> Corrupt] \in [Cells -> Byte \cup {Erased, Corrupt}]
    OBVIOUS
  <2>. QED BY <2>1 DEF Init
<1>. QED BY <1>1, <1>2 DEF Init, TypeOK

\* Every call of the core, by any channel and with any flash fault, keeps its
\* state within its type: slot, page buffer, offsets and trailer.
THEOREM TypeCorrect == Spec => []TypeOK
BY InitType, TypeStep, PTL DEF Spec

-----------------------------------------------------------------------------
(* The inductive invariant: the three safety properties support each other *)

IInv == TypeOK /\ SlotMatchesStream /\ AheadErased /\ VerifiedInSlot

\* While a session is open nothing is verified.
LEMMA ActiveUnverified ==
  ASSUME IInv, active
  PROVE  verified = NoImage
BY DEF IInv, VerifiedInSlot

\* A cell after programming, where the cells programmed were erased before.
LEMMA ProgrammedCell ==
  ASSUME TypeOK, NEW off \in Nat, NEW data \in Seq(Byte), NEW n \in 0 .. Len(data),
         \A c \in Cells : c >= off => slot1[c] = Erased,
         NEW d \in Cells
  PROVE  /\ d < off => Programmed(off, data, n)[d] = slot1[d]
         /\ d \in off .. off + n - 1 => Programmed(off, data, n)[d] = data[d - off + 1]
         /\ d >= off + n => Programmed(off, data, n)[d] = Erased
<1>1. Len(data) \in Nat /\ d \in Nat /\ n \in Nat
  BY LenProperties, FwUpgAssumption DEF Cells
<1>2. Programmed(off, data, n)[d]
        = IF d \in off .. off + n - 1 THEN Program(slot1[d], data[d - off + 1]) ELSE slot1[d]
  BY DEF Programmed
<1>3. d < off => d \notin off .. off + n - 1
  BY <1>1
<1>4. d >= off + n => d \notin off .. off + n - 1 /\ d >= off
  BY <1>1
<1>5. d \in off .. off + n - 1 => Program(slot1[d], data[d - off + 1]) = data[d - off + 1]
  BY <1>1 DEF Program
<1>. QED BY <1>2, <1>3, <1>4, <1>5

\* fw_upg_start establishes the invariant for the session it opens.
LEMMA StartInv ==
  ASSUME IInv, TypeOK', NEW tot \in Nat, NEW kh \in KeyHash, NEW rc \in RC,
         FwUpgStart(tot, kh, rc)
  PROVE  IInv'
<1>1. CASE StartRejected(tot, kh, rc)
  BY <1>1 DEF StartRejected, IInv, TypeOK, SlotMatchesStream, AheadErased, VerifiedInSlot,
              received, vars
<1>2. CASE StartOpens(tot, kh, rc)
  <2>1. /\ slot1' = [c \in Cells |-> IF c < SlotSize THEN Erased ELSE slot1[c]]
        /\ verified' = NoImage
    BY <1>2, FwUpgAssumption DEF StartOpens, FlashErase
  <2>2. \A c \in Cells : slot1'[c] = Erased
    BY <2>1, FwUpgAssumption DEF Cells
  <2>3. SlotMatchesStream'
    BY <1>2, EmptySeq DEF StartOpens, SlotMatchesStream, received
  <2>4. AheadErased'
    <3>1. 0 % PageSz = 0 /\ 0 < PageSz
      BY FwUpgAssumption
    <3>2. /\ tot \in MinTotal .. SlotSize /\ tot \in Nat
          /\ written' = 0 /\ page' = <<>> /\ total' = tot /\ Len(page') = 0
      BY <1>2, EmptySeq, FwUpgAssumption DEF StartOpens, StartAdmissible
    <3>. QED BY <2>2, <3>1, <3>2 DEF AheadErased
  <2>. QED BY <2>1, <2>3, <2>4 DEF IInv, VerifiedInSlot
<1>3. CASE StartEraseFails(tot, kh, rc)
  <2>1. PICK n \in 0 .. SlotSize - 1 : FlashErase(n)
    BY <1>3 DEF StartEraseFails
  <2>2. ~active /\ ~active'
    BY <1>3 DEF StartEraseFails, StartAdmissible, session
  <2>3. VerifiedInSlot'
    <3>1. CASE n = 0
      <4>1. slot1' = slot1 /\ verified' = verified
        BY <2>1, <3>1, FwUpgAssumption DEF FlashErase, IInv, TypeOK, Cells
      <4>. QED BY <2>2, <4>1 DEF IInv, VerifiedInSlot
    <3>2. CASE n # 0
      BY <2>1, <3>2 DEF FlashErase, VerifiedInSlot
    <3>. QED BY <3>1, <3>2
  <2>. QED BY <2>2, <2>3 DEF IInv, SlotMatchesStream, AheadErased
<1>. QED BY <1>1, <1>2, <1>3 DEF FwUpgStart

\* The case that matters: whole pages go to flash, the rest stays buffered.
LEMMA StoreInv ==
  ASSUME IInv, TypeOK', NEW data \in Seq(Byte), NEW rc \in RC, WriteStores(data, rc)
  PROVE  IInv'
<1>. DEFINE buf == page \o data
            n == FullPages(data) * PageSz
<1>0. /\ data \in Seq(Byte) /\ TypeOK
      /\ written \in Nat /\ total \in Nat
      /\ page \in Seq(Byte) /\ stream \in Seq(Byte)
  BY FwUpgAssumption DEF IInv, TypeOK
<1>1. /\ buf \in Seq(Byte)
      /\ Len(buf) = Len(page) + Len(data)
      /\ Len(page) \in Nat /\ Len(data) \in Nat
      /\ FullPages(data) \in Nat
      /\ n \in 0 .. Len(buf)
      /\ Len(page) + Len(data) - n < PageSz
  BY <1>0, FlushBounds
<1>2. /\ active /\ ~failed /\ active' = active /\ failed' = failed /\ total' = total
      /\ written + Len(page) + Len(data) <= total
      /\ slot1' = Programmed(written, buf, n)
      /\ written' = written + n
      /\ page' = SubSeq(buf, n + 1, Len(buf))
      /\ stream' = stream \o data
  BY DEF WriteStores, WriteFits, FlashWrite, received
<1>3. verified' = NoImage
  BY <1>2, ActiveUnverified DEF WriteStores, FlashWrite
<1>4. /\ Len(page') = Len(buf) - n
      /\ \A i \in 1 .. Len(buf) - n : page'[i] = buf[n + i]
  BY <1>1, <1>2, RestOfPage
<1>5. /\ Len(stream') = Len(stream) + Len(data)
      /\ Len(stream) \in Nat
      /\ \A i \in 1 .. Len(stream) + Len(data) :
            stream'[i] = IF i <= Len(stream) THEN stream[i] ELSE data[i - Len(stream)]
  BY <1>0, <1>2, ConcatProperties, LenProperties
<1>6. \A i \in 1 .. Len(page) + Len(data) :
         buf[i] = IF i <= Len(page) THEN page[i] ELSE data[i - Len(page)]
  BY <1>0, ConcatProperties
<1>. HIDE DEF buf, n
<1>7. /\ written + Len(page) = Len(stream)
      /\ \A i \in 1 .. written : slot1[i - 1] = stream[i]
      /\ \A i \in 1 .. Len(page) : page[i] = stream[written + i]
  BY <1>2 DEF IInv, SlotMatchesStream, received
<1>a. /\ written \in Nat /\ Len(page) \in Nat /\ Len(data) \in Nat /\ Len(stream) \in Nat
      /\ written + Len(page) = Len(stream)
  BY <1>0, <1>1, <1>5, <1>7
<1>8. /\ written % PageSz = 0
      /\ total \in MinTotal .. SlotSize
      /\ \A c \in Cells : c >= written => slot1[c] = Erased
  BY <1>2 DEF IInv, AheadErased
<1>9. \A i \in 1 .. Len(page) + Len(data) : buf[i] = stream'[written + i]
  <2>. SUFFICES ASSUME NEW i \in 1 .. Len(page) + Len(data)
                PROVE  buf[i] = stream'[written + i]
    OBVIOUS
  <2>1. written + i \in 1 .. Len(stream) + Len(data)
    BY <1>0, <1>1, <1>7
  <2>2. CASE i <= Len(page)
    <3>1. i \in 1 .. Len(page) /\ written + i <= Len(stream)
      BY <1>0, <1>1, <1>7, <2>2
    <3>. QED BY <1>5, <1>6, <1>7, <2>1, <2>2, <3>1
  <2>3. CASE ~(i <= Len(page))
    <3>1. ~(written + i <= Len(stream)) /\ (written + i) - Len(stream) = i - Len(page)
      BY <1>a, <2>3
    <3>2. stream'[written + i] = data[(written + i) - Len(stream)]
      BY <1>5, <2>1, <3>1
    <3>3. buf[i] = data[i - Len(page)]
      BY <1>6, <2>3
    <3>. QED BY <3>1, <3>2, <3>3
  <2>. QED BY <2>2, <2>3
<1>10. \A c \in Cells :
          /\ c < written => slot1'[c] = slot1[c]
          /\ c \in written .. written + n - 1 => slot1'[c] = buf[c - written + 1]
          /\ c >= written + n => slot1'[c] = Erased
  <2>1. /\ TypeOK /\ written \in Nat /\ buf \in Seq(Byte) /\ n \in 0 .. Len(buf)
        /\ \A c \in Cells : c >= written => slot1[c] = Erased
        /\ slot1' = Programmed(written, buf, n)
    BY <1>0, <1>1, <1>2, <1>8
  <2>. QED BY <2>1, ProgrammedCell
<1>11. SlotMatchesStream'
  <2>1. received' = Len(stream')
    <3>1. /\ n \in Nat /\ Len(page') = Len(page) + Len(data) - n
          /\ written' = written + n /\ Len(stream') = Len(stream) + Len(data)
      BY <1>1, <1>2, <1>4, <1>5
    <3>. QED BY <1>a, <3>1 DEF received
  <2>2. \A i \in 1 .. written' : slot1'[i - 1] = stream'[i]
    <3>. SUFFICES ASSUME NEW i \in 1 .. written' PROVE slot1'[i - 1] = stream'[i]
      OBVIOUS
    <3>1. i - 1 \in Cells /\ i \in 1 .. Len(stream) + Len(data) /\ i - 1 \in Nat
      BY <1>0, <1>1, <1>2, <1>7, <1>8, FwUpgAssumption DEF Cells
    <3>2. CASE i <= written
      <4>1. i - 1 < written /\ i \in 1 .. written /\ i <= Len(stream)
        BY <1>0, <1>1, <1>7, <3>1, <3>2
      <4>. QED BY <1>5, <1>7, <1>10, <3>1, <4>1
    <3>3. CASE ~(i <= written)
      <4>1. /\ i - 1 \in written .. written + n - 1
            /\ i - written \in 1 .. Len(page) + Len(data)
            /\ i - 1 - written + 1 = i - written
            /\ written + (i - written) = i
        BY <1>0, <1>1, <1>2, <3>1, <3>3
      <4>2. slot1'[i - 1] = buf[i - written]
        BY <1>10, <3>1, <4>1
      <4>3. buf[i - written] = stream'[written + (i - written)]
        BY <1>9, <4>1
      <4>. QED BY <4>1, <4>2, <4>3
    <3>. QED BY <3>2, <3>3
  <2>3. \A i \in 1 .. Len(page') : page'[i] = stream'[written' + i]
    <3>. SUFFICES ASSUME NEW i \in 1 .. Len(page') PROVE page'[i] = stream'[written' + i]
      OBVIOUS
    <3>1. /\ i \in 1 .. Len(buf) - n
          /\ n + i \in 1 .. Len(page) + Len(data)
          /\ written + (n + i) = written' + i
      BY <1>0, <1>1, <1>2, <1>4
    <3>2. page'[i] = buf[n + i] /\ buf[n + i] = stream'[written + (n + i)]
      BY <1>4, <1>9, <3>1
    <3>. QED BY <3>1, <3>2
  <2>. QED BY <2>1, <2>2, <2>3 DEF SlotMatchesStream
<1>12. AheadErased'
  <2>1. written' % PageSz = 0
    BY <1>0, <1>1, <1>2, <1>8, ModAdd, FwUpgAssumption DEF n
  <2>2. Len(page') < PageSz /\ written' + Len(page') <= total'
    <3>1. Len(page') = Len(page) + Len(data) - n
      BY <1>1, <1>4
    <3>2. /\ written' = written + n /\ total' = total /\ n \in Nat
          /\ written + Len(page) + Len(data) <= total
          /\ Len(page) + Len(data) - n < PageSz
      BY <1>1, <1>2
    <3>3. written' + Len(page') = written + Len(page) + Len(data)
      BY <1>a, <3>1, <3>2
    <3>. QED BY <3>1, <3>2, <3>3
  <2>. QED BY <1>2, <1>8, <1>10, <2>1, <2>2 DEF AheadErased
<1>. QED BY <1>3, <1>11, <1>12 DEF IInv, VerifiedInSlot

\* A flush that fails inside fw_upg_write keeps the cells ahead erased.
LEMMA FlushFailInv ==
  ASSUME IInv, TypeOK', NEW data \in Seq(Byte), NEW rc \in RC, WriteFlushFails(data, rc)
  PROVE  IInv'
<1>. DEFINE buf == page \o data
<1>0. /\ data \in Seq(Byte) /\ TypeOK /\ written \in Nat /\ total \in Nat
  BY FwUpgAssumption DEF IInv, TypeOK
<1>1. /\ buf \in Seq(Byte)
      /\ Len(buf) = Len(page) + Len(data)
      /\ Len(page) \in Nat /\ Len(data) \in Nat
      /\ FullPages(data) \in Nat
      /\ FullPages(data) * PageSz \in 0 .. Len(buf)
  BY <1>0, FlushBounds
<1>2. /\ active /\ ~failed /\ active' = active /\ failed' = TRUE /\ total' = total
      /\ written + Len(page) + Len(data) <= total
      /\ page' = <<>>
  BY DEF WriteFlushFails, WriteFits, received
<1>3. PICK k \in 1 .. FullPages(data) :
         /\ \E m \in (k - 1) * PageSz .. k * PageSz : FlashWrite(written, buf, m)
         /\ written' = written + k * PageSz
  BY DEF WriteFlushFails
<1>4. PICK m \in (k - 1) * PageSz .. k * PageSz : FlashWrite(written, buf, m)
  BY <1>3
<1>5. /\ k * PageSz \in Nat /\ (k - 1) * PageSz \in Nat
      /\ k * PageSz <= FullPages(data) * PageSz
  BY <1>1, PagesBelow, FwUpgAssumption
<1>6. m \in 0 .. Len(buf) /\ m <= k * PageSz
  BY <1>1, <1>5
<1>7. /\ written % PageSz = 0
      /\ total \in MinTotal .. SlotSize
      /\ \A c \in Cells : c >= written => slot1[c] = Erased
  BY <1>2 DEF IInv, AheadErased
<1>8. AheadErased'
  <2>1. written' % PageSz = 0
    <3>1. k \in Nat
      BY <1>1
    <3>. QED BY <1>0, <1>3, <1>7, <3>1, ModAdd, FwUpgAssumption
  <2>2. Len(page') = 0 /\ 0 < PageSz
    BY <1>2, EmptySeq, FwUpgAssumption
  <2>3. written' + 0 <= total'
    BY <1>0, <1>1, <1>2, <1>3, <1>5
  <2>4. \A c \in Cells : c >= written' => slot1'[c] = Erased
    <3>. SUFFICES ASSUME NEW c \in Cells, c >= written' PROVE slot1'[c] = Erased
      OBVIOUS
    <3>1. c >= written + m
      BY <1>0, <1>3, <1>5, <1>6, FwUpgAssumption DEF Cells
    <3>2. slot1' = Programmed(written, buf, m)
      BY <1>4 DEF FlashWrite
    <3>. QED BY <1>0, <1>1, <1>6, <1>7, <3>1, <3>2, ProgrammedCell
  <2>. QED BY <1>2, <1>7, <2>1, <2>2, <2>3, <2>4 DEF AheadErased
<1>9. verified' = NoImage
  BY <1>2, <1>4, ActiveUnverified DEF FlashWrite
<1>. QED BY <1>2, <1>8, <1>9 DEF IInv, SlotMatchesStream, VerifiedInSlot

\* fw_upg_write keeps the invariant, whatever it returns.
LEMMA WriteInv ==
  ASSUME IInv, TypeOK', NEW data \in Seq(Byte), NEW rc \in RC, FwUpgWrite(data, rc)
  PROVE  IInv'
<1>1. CASE WriteRejected(rc)
  BY <1>1 DEF WriteRejected, IInv, SlotMatchesStream, AheadErased, VerifiedInSlot,
              received, vars
<1>2. CASE WriteOverflows(data, rc)
  BY <1>2 DEF WriteOverflows, IInv, SlotMatchesStream, AheadErased, VerifiedInSlot
<1>. QED BY <1>1, <1>2, StoreInv, FlushFailInv DEF FwUpgWrite

\* The tail page goes to flash; what was received is then in the slot.
LEMMA VerifyInv ==
  ASSUME IInv, TypeOK', NEW crc, NEW check, NEW rc, FinishVerifies(crc, check, rc)
  PROVE  IInv'
<1>0. /\ TypeOK /\ written \in Nat /\ total \in Nat
      /\ page \in Seq(Byte) /\ stream \in Seq(Byte)
      /\ Len(page) \in Nat /\ Len(stream) \in Nat
  BY LenProperties DEF IInv, TypeOK
<1>1. /\ active /\ ~failed /\ ~active'
      /\ slot1' = Programmed(written, page, Len(page))
  BY DEF FinishVerifies, FinishCloses
<1>2. /\ written + Len(page) = Len(stream)
      /\ \A i \in 1 .. written : slot1[i - 1] = stream[i]
      /\ \A i \in 1 .. Len(page) : page[i] = stream[written + i]
  BY <1>1 DEF IInv, SlotMatchesStream, received
<1>3. /\ total \in MinTotal .. SlotSize
      /\ \A c \in Cells : c >= written => slot1[c] = Erased
  BY <1>1 DEF IInv, AheadErased
<1>4. \A c \in Cells :
         /\ c < written => slot1'[c] = slot1[c]
         /\ c \in written .. written + Len(page) - 1 => slot1'[c] = page[c - written + 1]
         /\ c >= written + Len(page) => slot1'[c] = Erased
  <2>1. Len(page) \in 0 .. Len(page)
    BY <1>0
  <2>. QED BY <1>0, <1>1, <1>3, <2>1, ProgrammedCell
<1>5. CASE verified' = NoImage
  BY <1>1, <1>5 DEF IInv, SlotMatchesStream, AheadErased, VerifiedInSlot
<1>6. CASE verified' = stream /\ ReadBackOk(slot1', crc, check)
  <2>1. Len(stream) = total /\ TlvKeyOk(slot1')
    BY <1>2, <1>6 DEF ReadBackOk, received
  <2>2. \A i \in 1 .. Len(stream) : slot1'[i - 1] = stream[i]
    <3>. SUFFICES ASSUME NEW i \in 1 .. Len(stream) PROVE slot1'[i - 1] = stream[i]
      OBVIOUS
    <3>1. i - 1 \in Cells
      BY <1>0, <1>3, <2>1, FwUpgAssumption DEF Cells
    <3>2. CASE i <= written
      <4>1. i - 1 < written /\ i \in 1 .. written
        BY <1>0, <3>2
      <4>. QED BY <1>2, <1>4, <3>1, <4>1
    <3>3. CASE ~(i <= written)
      <4>1. /\ i - 1 \in written .. written + Len(page) - 1
            /\ i - written \in 1 .. Len(page)
            /\ (i - 1) - written + 1 = i - written
            /\ written + (i - written) = i
        BY <1>0, <1>2, <3>3
      <4>2. slot1'[i - 1] = page[i - written]
        BY <1>4, <3>1, <4>1
      <4>. QED BY <1>2, <4>1, <4>2
    <3>. QED BY <3>2, <3>3
  <2>3. \A c \in Cells : c >= Len(stream) => slot1'[c] = Erased
    BY <1>2, <1>4
  <2>4. VerifiedInSlot'
    BY <1>1, <1>3, <1>6, <2>1, <2>2, <2>3 DEF VerifiedInSlot
  <2>. QED BY <1>1, <2>4 DEF IInv, SlotMatchesStream, AheadErased
<1>. QED BY <1>1, <1>5, <1>6 DEF FinishVerifies

\* fw_upg_finish_ex keeps the invariant, whatever it returns.
LEMMA FinishInv ==
  ASSUME IInv, TypeOK', NEW crc, NEW check, NEW rc, FwUpgFinishEx(crc, check, rc)
  PROVE  IInv'
<1>1. CASE FinishRejected(rc)
  BY <1>1 DEF FinishRejected, IInv, SlotMatchesStream, AheadErased, VerifiedInSlot,
              received, vars
<1>2. CASE FinishFailedSession(rc)
  <2>1. verified' = NoImage /\ ~active'
    BY <1>2, ActiveUnverified DEF FinishFailedSession, FinishCloses
  <2>. QED BY <2>1 DEF IInv, SlotMatchesStream, AheadErased, VerifiedInSlot
<1>3. CASE FinishFlushFails(rc)
  <2>1. verified' = NoImage /\ ~active'
    BY <1>3, ActiveUnverified DEF FinishFlushFails, FinishCloses, FlashWrite
  <2>. QED BY <2>1 DEF IInv, SlotMatchesStream, AheadErased, VerifiedInSlot
<1>. QED BY <1>1, <1>2, <1>3, VerifyInv DEF FwUpgFinishEx

\* Abort, boot_set_pending and a reset keep the invariant.
LEMMA OtherInv ==
  ASSUME IInv, TypeOK',
         FwUpgAbort \/ (\E perm \in BOOLEAN, rc \in RC : BootSetPending(perm, rc)) \/ Reboot
  PROVE  IInv'
<1>1. CASE FwUpgAbort
  BY <1>1 DEF FwUpgAbort, IInv, SlotMatchesStream, AheadErased, VerifiedInSlot
<1>2. CASE \E perm \in BOOLEAN, rc \in RC : BootSetPending(perm, rc)
  <2>1. UNCHANGED <<active, failed, total, written, page, slot1, stream, verified>>
    BY <1>2 DEF BootSetPending, session
  <2>. QED BY <2>1 DEF IInv, SlotMatchesStream, AheadErased, VerifiedInSlot, received
<1>3. CASE Reboot
  <2>1. ~active' /\ (verified' = NoImage \/ (verified' = verified /\ slot1' = slot1))
    BY <1>3 DEF Reboot
  <2>. QED BY <2>1 DEF IInv, SlotMatchesStream, AheadErased, VerifiedInSlot
<1>. QED BY <1>1, <1>2, <1>3

\* No call leaves the inductive invariant.
LEMMA InvStep == IInv /\ [Next]_vars => IInv'
<1>. SUFFICES ASSUME IInv, [Next]_vars PROVE IInv'
  OBVIOUS
<1>0. TypeOK'
  BY TypeStep DEF IInv
<1>1. CASE UNCHANGED vars
  BY <1>0, <1>1 DEF IInv, SlotMatchesStream, AheadErased, VerifiedInSlot, received, vars
<1>2. CASE Next
  <2>1. Chunks \subseteq Seq(Byte) /\ Totals \subseteq Nat
    BY FwUpgAssumption
  <2>. QED BY <1>0, <1>2, <2>1, StartInv, WriteInv, FinishInv, OtherInv DEF Next
<1>. QED BY <1>1, <1>2

\* The inductive invariant holds in every behaviour.
LEMMA Inductive == Spec => []IInv
<1>1. Init => IInv
  BY InitType DEF Init, IInv, SlotMatchesStream, AheadErased, VerifiedInSlot
<1>. QED BY <1>1, InvStep, PTL DEF Spec

\* As long as no write of the session failed, flash and page buffer hold exactly
\* the bytes fw_upg_write accepted, in order.
THEOREM SlotMatches == Spec => []SlotMatchesStream
<1>1. IInv => SlotMatchesStream
  BY DEF IInv
<1>. QED BY <1>1, Inductive, PTL

\* fw_upg.c programs whole pages at page boundaries into erased flash only, also
\* after a flush that failed half way.
THEOREM NeverReprogrammed == Spec => []AheadErased
<1>1. IInv => AheadErased
  BY DEF IInv
<1>. QED BY <1>1, Inductive, PTL

\* When fw_upg_finish_ex returned 0 the slot holds the image byte for byte as it
\* was received, until the slot is erased, programmed or swapped.
THEOREM VerifiedImage == Spec => []VerifiedInSlot
<1>1. IInv => VerifiedInSlot
  BY DEF IInv
<1>. QED BY <1>1, Inductive, PTL

=============================================================================
