------------------------- MODULE FwTransfer_proofs -------------------------
(***************************************************************************)
(* Proofs about an upgrade over UDP from end to end, for every image,      *)
(* block size, window, queue depth and number of retries, over a network   *)
(* that loses, duplicates, delays and reorders datagrams.                  *)
(***************************************************************************)
EXTENDS FwTransfer, FwUpg_proofs, TLAPS

-----------------------------------------------------------------------------
(* What is under way                                                       *)

\* The datagrams of one upgrade.
StartMsg == [cmd |-> "START", size |-> ImgLen, kh |-> "good"]
EndMsg == [cmd |-> "END", test |-> FALSE, crc |-> Crc16(0, Image)]
BlockMsg(legacy, w) ==
  IF legacy THEN [cmd |-> "DATA", data |-> Block(w)]
  ELSE [cmd |-> "DATA_V2", off |-> w, data |-> Block(w)]

\* The tool has not come to its END.
Unended == host.at \in {"start", "waitStart", "send", "collect", "waitBlock"}

Sent ==
  {StartMsg} \cup {BlockMsg(host.legacy, w) : w \in 0 .. ImgLen - 1}
             \cup (IF Unended THEN {} ELSE {EndMsg})

HostType ==
  host \in [at : {"start", "waitStart", "send", "collect", "waitBlock", "waitEnd"} \cup Exits,
            legacy : BOOLEAN, off : Nat, confirmed : Nat, retries : Nat]

\* Legacy data are sent one block at a time, the others in windows.
LegacyWaits ==
  /\ host.at = "waitBlock" => host.legacy
  /\ host.at = "collect" => ~host.legacy

\* The network, the queue and the worker hold nothing but those datagrams.
Messages ==
  /\ net \subseteq Sent
  /\ udpQ \in Seq(Sent)
  /\ udp = UdpIdle \/ udp \in [at : {"run", "v2write", "ack", "pend"}, m : Sent]

\* Where the worker is and what it relies on: the offset it compared is still the
\* one the session expects when it writes, and a request follows a verified image.
WorkerOK ==
  /\ udp.at = "v2write" => udp.m.cmd = "DATA_V2" /\ udp.m.off = received
  /\ udp.at = "pend" => udp.m.cmd = "END" /\ ~active /\ verified # NoImage

\* The session is that of the image; one that is open has no upgrade request.
SessionOK ==
  /\ active => total = ImgLen /\ trailer \notin Pending
  /\ verified # NoImage /\ ~host.legacy => verified = Image
  /\ ~FlashFaults /\ trailer \in Pending => verified # NoImage

\* A byte count that is not ahead of the session.
Bound(n) == failed \/ n <= Len(stream)
ReplyOK(r) ==
  /\ r \in [cmd : {"START", "DATA", "DATA_V2", "END"}, arg : Nat]
  /\ r.cmd = "DATA_V2" => Bound(r.arg)

RingType ==
  /\ replies = [i \in 0 .. 1 |-> replies[i]]
  /\ replyIdx \in 0 .. 1
  /\ udpCb \in Seq(0 .. 1)

\* Until the END nothing the host was told or will be told is ahead of the session,
\* which is not closed once it was opened.
Acks ==
  Unended =>
    /\ \A r \in hostRx : ReplyOK(r)
    /\ \A i \in Range(udpCb) : ReplyOK(replies[i])
    /\ ~host.legacy => Bound(host.off) /\ Bound(host.confirmed)
    /\ ~active => stream = <<>> /\ written = 0 /\ page = <<>> /\ ~failed

XferInv ==
  /\ IInv /\ HostType /\ LegacyWaits /\ RingType /\ Messages /\ WorkerOK /\ SessionOK /\ Acks
  /\ V2Prefix /\ VerifiedAgrees

-----------------------------------------------------------------------------
(* The host tool                                                           *)

\* A block is the part of the image at its offset.
LEMMA BlockBytes ==
  ASSUME NEW w \in 0 .. ImgLen - 1
  PROVE  /\ Block(w) \in Seq(Byte)
         /\ ImgLen \in Nat /\ Len(Block(w)) \in Nat /\ w + Len(Block(w)) <= ImgLen
         /\ \A i \in 1 .. Len(Block(w)) : Block(w)[i] = Image[w + i]
<1>. DEFINE e == Smaller(w + ChunkSz, ImgLen)
<1>1. Image \in Seq(Byte) /\ ImgLen \in Nat /\ ImgLen = Len(Image) /\ ChunkSz \in Nat \ {0}
  BY FwTransferAssumption, LenProperties DEF ImgLen
<1>2. e \in Nat /\ w < e /\ e <= ImgLen
  BY <1>1 DEF Smaller
<1>. HIDE DEF e
<1>3. w + 1 \in Int /\ e \in Int /\ \A i \in w + 1 .. e : i \in 1 .. Len(Image)
  BY <1>1, <1>2
<1>4. \A i \in w + 1 .. e : Image[i] \in Byte
  BY <1>1, <1>3, ElementOfSeq
<1>5. /\ SubSeq(Image, w + 1, e) \in Seq(Byte)
      /\ Len(SubSeq(Image, w + 1, e)) = IF w + 1 <= e THEN e - (w + 1) + 1 ELSE 0
      /\ \A i \in 1 .. e - (w + 1) + 1 : SubSeq(Image, w + 1, e)[i] = Image[(w + 1) + i - 1]
  BY <1>1, <1>3, <1>4, SubSeqProperties
<1>. DEFINE b == SubSeq(Image, w + 1, e)
<1>. HIDE DEF b
<1>6. b \in Seq(Byte) /\ Len(b) = e - w /\ \A i \in 1 .. e - w : b[i] = Image[w + i]
  <2>1. b \in Seq(Byte) /\ Len(b) = e - w
    BY <1>2, <1>5 DEF b
  <2>2. ASSUME NEW i \in 1 .. e - w PROVE b[i] = Image[w + i]
    <3>1. (w + 1) + i - 1 = w + i /\ i \in 1 .. e - (w + 1) + 1
      BY <1>2
    <3>2. b[i] = Image[(w + 1) + i - 1]
      BY <1>5, <3>1 DEF b
    <3>. QED BY <3>1, <3>2
  <2>. QED BY <2>1, <2>2
<1>7. Block(w) = b
  BY DEF Block, b, e
<1>. QED BY <1>1, <1>2, <1>6, <1>7

\* What a step of the tool may do, as far as the rest is concerned.
HostMoves ==
  /\ HostType' /\ LegacyWaits' /\ host'.legacy = host.legacy /\ (Unended' => Unended)
  /\ net' \subseteq Sent'
  /\ hostRx' \subseteq hostRx
  /\ Unended' /\ ~host.legacy => Bound(host'.off) /\ Bound(host'.confirmed)

\* What was sent stays sent.
LEMMA SentGrows ==
  ASSUME host'.legacy = host.legacy, Unended' => Unended PROVE Sent \subseteq Sent'
BY DEF Sent, BlockMsg, StartMsg, EndMsg, Block, ImgLen

\* A step of the tool leaves the device alone, and the invariant with it.
LEMMA HostKeeps == ASSUME XferInv, HostMoves, HostKeepsDevice PROVE XferInv'
<1>0. UNCHANGED <<vars, udpVars, ringVars>>
  BY DEF HostKeepsDevice
<1>1. Sent \subseteq Sent'
  BY SentGrows DEF HostMoves, LegacyWaits
<1>2. IInv' /\ VerifiedAgrees'
  BY <1>0 DEF vars, XferInv, IInv, TypeOK, SlotMatchesStream, AheadErased, VerifiedInSlot,
              received, VerifiedAgrees
<1>3. RingType'
  BY <1>0 DEF ringVars, XferInv, RingType
<1>4. Messages'
  <2>1. udpQ' \in Seq(Sent')
    BY <1>0, <1>1 DEF udpVars, XferInv, Messages
  <2>2. udp' = UdpIdle \/ udp' \in [at : {"run", "v2write", "ack", "pend"}, m : Sent']
    BY <1>0, <1>1 DEF udpVars, XferInv, Messages
  <2>. QED BY <2>1, <2>2 DEF Messages, HostMoves
<1>5. WorkerOK' /\ SessionOK' /\ V2Prefix'
  BY <1>0 DEF vars, udpVars, XferInv, WorkerOK, SessionOK, V2Prefix, HostMoves, received,
              IsPrefixOfImage
<1>6. Acks'
  <2>. SUFFICES ASSUME Unended' PROVE Acks'
    BY DEF Acks
  <2>1. Unended
    BY DEF HostMoves, LegacyWaits
  <2>2. \A r : ReplyOK(r)' <=> ReplyOK(r)
    BY <1>0 DEF ReplyOK, Bound, vars
  <2>3. \A r \in hostRx' : ReplyOK(r)'
    BY <2>1, <2>2 DEF HostMoves, LegacyWaits, XferInv, Acks
  <2>4. \A i \in Range(udpCb') : ReplyOK(replies[i])'
    BY <1>0, <2>1 DEF ringVars, vars, XferInv, Acks, ReplyOK, Bound
  <2>5. ~host'.legacy => Bound(host.off)' /\ Bound(host.confirmed)'
    BY <1>0 DEF HostMoves, LegacyWaits, Bound, vars
  <2>6. ~active' => stream' = <<>> /\ written' = 0 /\ page' = <<>> /\ ~failed'
    BY <1>0, <2>1 DEF vars, XferInv, Acks
  <2>. QED BY <2>3, <2>4, <2>5, <2>6 DEF Acks
<1>. QED BY <1>2, <1>3, <1>4, <1>5, <1>6 DEF XferInv, HostMoves

\* The tool goes on, its counts unchanged, and sends datagrams of the upgrade.
LEMMA HostGoesMoves ==
  ASSUME XferInv, NEW label,
         label \in {"waitStart", "send", "waitBlock", "waitEnd"},
         label # "waitEnd" => Unended, label = "waitBlock" => host.legacy,
         HostGoes(label), net' \subseteq Sent'
  PROVE  HostMoves
<1>1. /\ HostType' /\ host'.at = label /\ host'.legacy = host.legacy
      /\ host'.off = host.off /\ host'.confirmed = host.confirmed
  BY DEF HostGoes, XferInv, HostType
<1>2. Unended' => Unended
  BY <1>1 DEF Unended
<1>. QED BY <1>1, <1>2 DEF HostGoes, HostMoves, XferInv, Acks, LegacyWaits

\* The tool ends.
LEMMA HostExitMoves ==
  ASSUME XferInv, NEW label \in Exits, HostExits(label), net' = net PROVE HostMoves
<1>1. HostType' /\ host'.at = label /\ host'.legacy = host.legacy
  BY DEF HostExits, HostLocals, XferInv, HostType
<1>2. ~Unended'
  BY <1>1 DEF Unended, Exits
<1>3. Sent \subseteq Sent'
  BY <1>1, <1>2, SentGrows
<1>. QED BY <1>1, <1>2, <1>3 DEF HostMoves, LegacyWaits, HostExits, XferInv, Messages, Exits

\* What was sent before is still of the upgrade.
LEMMA NetKept ==
  ASSUME XferInv, host'.legacy = host.legacy, Unended' => Unended PROVE net \subseteq Sent'
BY SentGrows DEF XferInv, Messages

\* START is sent.
LEMMA StartMoves == ASSUME XferInv, HostStart PROVE HostMoves
<1>1. host'.at = "waitStart" /\ host'.legacy = host.legacy /\ host.at = "start"
  BY DEF HostStart, HostAt, HostGoes, XferInv, HostType
<1>2. Unended /\ Unended'
  BY <1>1 DEF Unended
<1>3. net' \subseteq Sent'
  <2>1. net' = net \cup {StartMsg}
    BY DEF HostStart, StartMsg
  <2>2. StartMsg \in Sent'
    BY DEF Sent, StartMsg, ImgLen
  <2>. QED BY <1>1, <1>2, <2>1, <2>2, NetKept
<1>. QED BY <1>2, <1>3, HostGoesMoves DEF HostStart

\* The answer to START.
LEMMA StartedMoves == ASSUME XferInv, HostStarted PROVE HostMoves
<1>1. HostGoes("send") \/ HostExits("failed")
  BY DEF HostStarted
<1>2. Unended /\ net' = net
  BY DEF HostStarted, HostAt, Unended
<1>3. CASE HostGoes("send")
  <2>1. host'.at = "send" /\ host'.legacy = host.legacy
    BY <1>3 DEF HostGoes, XferInv, HostType
  <2>2. net' \subseteq Sent'
    BY <1>2, <2>1, NetKept
  <2>. QED BY <1>2, <1>3, <2>2, HostGoesMoves
<1>4. CASE HostExits("failed")
  BY <1>2, <1>4, HostExitMoves DEF Exits
<1>. QED BY <1>1, <1>3, <1>4

\* A window of DATA_V2.
LEMMA WindowMoves == ASSUME XferInv, HostSendWindow PROVE HostMoves
<1>1. /\ host.at = "send" /\ ~host.legacy /\ hostRx' = hostRx
      /\ host' = [host EXCEPT !.at = "collect", !.confirmed = host.off]
  BY DEF HostSendWindow, HostAt
<1>2. /\ HostType' /\ host'.at = "collect" /\ host'.legacy = host.legacy
      /\ host'.off = host.off /\ host'.confirmed = host.off
  BY <1>1 DEF XferInv, HostType
<1>3. Unended /\ Unended'
  BY <1>1, <1>2 DEF Unended
<1>4. net' \subseteq Sent'
  <2>1. ASSUME NEW w \in {host.off + i * ChunkSz : i \in 0 .. Window - 1} \cap 0 .. WinEnd - 1
        PROVE  [cmd |-> "DATA_V2", off |-> w, data |-> Block(w)] \in Sent'
    <3>1. w \in 0 .. ImgLen - 1
      <4>1. /\ ImgLen \in Nat /\ host.off \in Nat /\ Window * ChunkSz \in Nat
        BY FwTransferAssumption, LenProperties DEF ImgLen, XferInv, HostType
      <4>2. WinEnd \in Nat /\ WinEnd <= ImgLen
        BY <4>1 DEF WinEnd, Smaller
      <4>. QED BY <4>1, <4>2
    <3>2. BlockMsg(FALSE, w) \in {BlockMsg(host'.legacy, v) : v \in 0 .. ImgLen - 1}
      BY <1>1, <1>2, <3>1 DEF BlockMsg
    <3>3. BlockMsg(FALSE, w) \in Sent'
      BY <3>2 DEF Sent, BlockMsg, Block, ImgLen
    <3>. QED BY <3>3 DEF BlockMsg
  <2>2. net \subseteq Sent'
    BY <1>2, <1>3, NetKept
  <2>. QED BY <2>1, <2>2 DEF HostSendWindow
<1>. QED BY <1>1, <1>2, <1>3, <1>4 DEF HostMoves, LegacyWaits, XferInv, Acks

\* An acknowledgement: the host takes no more for delivered than it was told.
LEMMA CollectMoves == ASSUME XferInv, HostCollect PROVE HostMoves
<1>1. PICK r \in hostRx :
        LET new == IF r.cmd = "DATA_V2" /\ r.arg > host.confirmed
                   THEN Smaller(r.arg, ImgLen) ELSE host.confirmed
        IN host' = [host EXCEPT
                      !.confirmed = new,
                      !.retries = IF new > host.confirmed THEN 0 ELSE @,
                      !.off = IF new >= WinEnd THEN new ELSE @,
                      !.at = IF new >= WinEnd THEN "send" ELSE @]
  BY DEF HostCollect
<1>. DEFINE new == IF r.cmd = "DATA_V2" /\ r.arg > host.confirmed
                   THEN Smaller(r.arg, ImgLen) ELSE host.confirmed
<1>2. host.at = "collect" /\ Unended /\ net' = net /\ hostRx' = hostRx
  BY DEF HostCollect, HostAt, Unended
<1>3. ReplyOK(r)
  BY <1>1, <1>2 DEF XferInv, Acks
<1>4. /\ r.arg \in Nat /\ host.confirmed \in Nat /\ host.off \in Nat /\ ImgLen \in Nat
      /\ host.retries \in Nat
  BY <1>3, FwTransferAssumption, LenProperties DEF ReplyOK, XferInv, HostType, ImgLen
<1>5. new \in Nat
  BY <1>4 DEF Smaller
<1>6. ~host.legacy => Bound(new) /\ Bound(host.off)
  <2>1. ~host.legacy => Bound(host.confirmed) /\ Bound(host.off)
    BY <1>2 DEF XferInv, Acks
  <2>2. Len(stream) \in Nat
    BY LenProperties DEF XferInv, IInv, TypeOK
  <2>3. CASE r.cmd = "DATA_V2" /\ r.arg > host.confirmed
    BY <1>3, <1>4, <2>1, <2>2, <2>3 DEF ReplyOK, Bound, Smaller
  <2>4. CASE ~(r.cmd = "DATA_V2" /\ r.arg > host.confirmed)
    BY <2>1, <2>4
  <2>. QED BY <2>3, <2>4
<1>. HIDE DEF new
<1>7. host' = [host EXCEPT !.confirmed = new,
                           !.retries = IF new > host.confirmed THEN 0 ELSE host.retries,
                           !.off = IF new >= WinEnd THEN new ELSE host.off,
                           !.at = IF new >= WinEnd THEN "send" ELSE host.at]
  BY <1>1 DEF new
<1>8. /\ HostType' /\ host'.legacy = host.legacy /\ host'.at \in {"send", "collect"}
      /\ host'.off \in {new, host.off} /\ host'.confirmed = new
  BY <1>2, <1>4, <1>5, <1>7 DEF XferInv, HostType
<1>9. Unended'
  BY <1>8 DEF Unended
<1>10. net' \subseteq Sent'
  BY <1>2, <1>8, <1>9, NetKept
<1>. QED BY <1>2, <1>6, <1>8, <1>9, <1>10 DEF HostMoves, LegacyWaits, XferInv

\* A window that is not acknowledged in time.
LEMMA WindowTimeoutMoves == ASSUME XferInv, HostWindowTimeout PROVE HostMoves
<1>1. host.at = "collect" /\ Unended /\ net' = net
  BY DEF HostWindowTimeout, HostAt, Unended
<1>2. CASE HostExits("failed")
  BY <1>1, <1>2, HostExitMoves DEF Exits
<1>3. CASE ~HostExits("failed")
  <2>1. /\ host' = [host EXCEPT !.at = "send", !.off = host.confirmed,
                                !.retries = host.retries + 1]
        /\ hostRx' = hostRx
    BY <1>3 DEF HostWindowTimeout
  <2>n. PICK n \in Nat : n = host.retries + 1
    BY DEF XferInv, HostType
  <2>2. /\ HostType' /\ host'.at = "send" /\ host'.legacy = host.legacy
        /\ host'.off = host.confirmed /\ host'.confirmed = host.confirmed
    <3>1. host' = [host EXCEPT !.at = "send", !.off = host.confirmed, !.retries = n]
      BY <2>1, <2>n
    <3>2. host.confirmed \in Nat
      BY DEF XferInv, HostType
    <3>. QED BY <3>1, <3>2 DEF XferInv, HostType
  <2>3. Unended'
    BY <2>2 DEF Unended
  <2>4. net' \subseteq Sent'
    BY <1>1, <2>2, <2>3, NetKept
  <2>. QED BY <1>1, <2>1, <2>2, <2>3, <2>4 DEF HostMoves, LegacyWaits, XferInv, Acks
<1>. QED BY <1>2, <1>3

\* A legacy block and its answer.
LEMMA BlockMoves == ASSUME XferInv, HostSendBlock \/ HostBlockAnswered PROVE HostMoves
<1>0. ImgLen \in Nat /\ host.off \in Nat /\ ChunkSz \in Nat
  BY FwTransferAssumption, LenProperties DEF ImgLen, XferInv, HostType
<1>1. CASE HostSendBlock
  <2>1. /\ host.at = "send" /\ host.legacy /\ host.off < ImgLen /\ HostGoes("waitBlock")
        /\ net' = net \cup {[cmd |-> "DATA", data |-> Block(host.off)]}
    BY <1>1 DEF HostSendBlock, HostAt
  <2>2. host'.at = "waitBlock" /\ host'.legacy = host.legacy
    BY <2>1 DEF HostGoes, XferInv, HostType
  <2>3. Unended /\ Unended'
    BY <2>1, <2>2 DEF Unended
  <2>4. net' \subseteq Sent'
    <3>1. PICK w \in 0 .. ImgLen - 1 : w = host.off
      BY <1>0, <2>1
    <3>2. BlockMsg(TRUE, w) \in {BlockMsg(host'.legacy, v) : v \in 0 .. ImgLen - 1}
      BY <2>1, <2>2 DEF BlockMsg
    <3>3. BlockMsg(TRUE, w) \in Sent'
      BY <3>2 DEF Sent, BlockMsg, Block, ImgLen
    <3>4. net' = net \cup {BlockMsg(TRUE, w)}
      BY <2>1, <3>1 DEF BlockMsg
    <3>5. net \subseteq Sent'
      BY <2>2, <2>3, NetKept
    <3>. QED BY <3>3, <3>4, <3>5
  <2>. QED BY <2>1, <2>3, <2>4, HostGoesMoves
<1>2. CASE HostBlockAnswered
  <2>. DEFINE next == Smaller(host.off + ChunkSz, ImgLen)
  <2>1. /\ Unended /\ net' = net
        /\ \/ host' = [host EXCEPT !.at = "send", !.off = next] /\ hostRx' = hostRx
           \/ HostExits("failed")
    BY <1>2 DEF HostBlockAnswered, HostAt, Unended
  <2>2. next \in Nat
    BY <1>0 DEF Smaller
  <2>. HIDE DEF next
  <2>3. CASE HostExits("failed")
    BY <2>1, <2>3, HostExitMoves DEF Exits
  <2>4. CASE host' = [host EXCEPT !.at = "send", !.off = next] /\ hostRx' = hostRx
    <3>1. /\ HostType' /\ host'.at = "send" /\ host'.legacy = host.legacy
          /\ host'.off = next /\ host'.confirmed = host.confirmed
      BY <2>2, <2>4 DEF XferInv, HostType
    <3>2. Unended' /\ net' \subseteq Sent'
      BY <2>1, <3>1, NetKept DEF Unended
    <3>3. host.legacy
      BY <1>2 DEF HostBlockAnswered, HostAt, XferInv, LegacyWaits
    <3>. QED BY <2>1, <2>4, <3>1, <3>2, <3>3 DEF HostMoves, LegacyWaits
  <2>. QED BY <2>1, <2>3, <2>4
<1>. QED BY <1>1, <1>2

\* END and its answer, and the time-outs of the other answers.
LEMMA EndMoves == ASSUME XferInv, HostEnd \/ HostEnded \/ HostTimeout PROVE HostMoves
<1>1. CASE HostEnd
  <2>1. /\ host.at = "send" /\ HostGoes("waitEnd") /\ net' = net \cup {EndMsg}
    BY <1>1 DEF HostEnd, HostAt, EndMsg
  <2>2. host'.at = "waitEnd" /\ host'.legacy = host.legacy
    BY <2>1 DEF HostGoes, XferInv, HostType
  <2>3. ~Unended'
    BY <2>2 DEF Unended
  <2>4. EndMsg \in Sent'
    BY <2>3 DEF Sent, EndMsg
  <2>5. net' \subseteq Sent'
    BY <2>1, <2>2, <2>3, <2>4, NetKept
  <2>. QED BY <2>1, <2>5, HostGoesMoves
<1>2. CASE HostEnded
  <2>1. net' = net /\ (HostExits("done") \/ HostExits("failed"))
    BY <1>2 DEF HostEnded
  <2>. QED BY <2>1, HostExitMoves DEF Exits
<1>3. CASE HostTimeout
  BY <1>3, HostExitMoves DEF HostTimeout, Exits
<1>. QED BY <1>1, <1>2, <1>3

\* A step of the tool keeps the invariant.
LEMMA HostInv == ASSUME XferInv, HostNext PROVE XferInv'
<1>1. HostMoves
  BY StartMoves, StartedMoves, WindowMoves, CollectMoves, WindowTimeoutMoves, BlockMoves,
     EndMoves DEF HostNext
<1>2. HostKeepsDevice
  BY DEF HostNext, HostStart, HostStarted, HostSendWindow, HostCollect, HostWindowTimeout,
         HostSendBlock, HostBlockAnswered, HostEnd, HostEnded, HostTimeout
<1>. QED BY <1>1, <1>2, HostKeeps

-----------------------------------------------------------------------------
(* The session                                                             *)

\* What the datagrams of the upgrade say.
LEMMA SentKinds ==
  ASSUME NEW m \in Sent
  PROVE  /\ m.cmd = "START" => m.size = ImgLen /\ m.kh = "good"
         /\ m.cmd = "DATA" => host.legacy /\ \E w \in 0 .. ImgLen - 1 : m.data = Block(w)
         /\ m.cmd = "DATA_V2" => ~host.legacy /\ \E w \in 0 .. ImgLen - 1 :
                                    m.off = w /\ m.data = Block(w)
         /\ m.cmd = "END" => ~Unended /\ m.crc = Crc16(0, Image) /\ ~m.test
         /\ m.cmd \in {"START", "DATA", "DATA_V2", "END"}
<1>1. CASE m = StartMsg
  BY <1>1 DEF StartMsg
<1>2. CASE m = EndMsg /\ ~Unended
  BY <1>2 DEF EndMsg
<1>3. CASE \E w \in 0 .. ImgLen - 1 : m = BlockMsg(host.legacy, w)
  <2>1. PICK w \in 0 .. ImgLen - 1 : m = BlockMsg(host.legacy, w)
    BY <1>3
  <2>2. CASE host.legacy
    <3>1. m.cmd = "DATA" /\ m.data = Block(w)
      BY <2>1, <2>2 DEF BlockMsg
    <3>. QED BY <2>2, <3>1
  <2>3. CASE ~host.legacy
    <3>1. m.cmd = "DATA_V2" /\ m.data = Block(w) /\ m.off = w
      BY <2>1, <2>3 DEF BlockMsg
    <3>. QED BY <2>3, <3>1
  <2>. QED BY <2>2, <2>3
<1>. QED BY <1>1, <1>2, <1>3 DEF Sent

\* What a call of the core may do during the upgrade: until the END the session is
\* not closed, and loses nothing unless it fails.
SessionMoves ==
  /\ IInv' /\ SessionOK' /\ V2Prefix' /\ VerifiedAgrees'
  /\ Unended => /\ failed => failed'
                /\ ~failed' => Len(stream) <= Len(stream')
                /\ ~active' => stream' = <<>> /\ written' = 0 /\ page' = <<>> /\ ~failed'

\* The core is not called.
LEMMA NoCall == ASSUME XferInv, UNCHANGED <<vars, host>> PROVE SessionMoves
<1>1. IInv' /\ VerifiedAgrees'
  BY DEF vars, XferInv, IInv, TypeOK, SlotMatchesStream, AheadErased, VerifiedInSlot,
         received, VerifiedAgrees
<1>2. SessionOK' /\ V2Prefix'
  BY DEF vars, XferInv, SessionOK, V2Prefix, IsPrefixOfImage
<1>3. Len(stream) \in Nat
  BY LenProperties DEF XferInv, IInv, TypeOK
<1>4. Len(stream) <= Len(stream')
  BY <1>3 DEF vars
<1>. QED BY <1>1, <1>2, <1>4 DEF SessionMoves, vars, XferInv, Acks

\* fw_upg_start with the size of the image.
LEMMA StartSession ==
  ASSUME XferInv, NEW rc \in RC, FwUpgStart(ImgLen, "good", rc), UNCHANGED host
  PROVE  SessionMoves
<1>0. ImgLen \in Nat /\ "good" \in KeyHash
  BY FwTransferAssumption, LenProperties DEF ImgLen, KeyHash
<1>1. IInv'
  BY <1>0, StartType, StartInv DEF XferInv, IInv
<1>2. CASE StartRejected(ImgLen, "good", rc)
  BY <1>2, NoCall DEF StartRejected
<1>3. CASE StartOpens(ImgLen, "good", rc)
  <2>1. /\ ~active /\ active' /\ ~failed' /\ total' = ImgLen /\ stream' = <<>>
        /\ trailer' = "unset" /\ verified' = NoImage
    BY <1>3, FwUpgAssumption DEF StartOpens, StartAdmissible, FlashErase
  <2>2. SessionOK' /\ VerifiedAgrees'
    BY <2>1 DEF SessionOK, VerifiedAgrees, Pending, ImgLen
  <2>3. V2Prefix'
    BY <1>0, <2>1, EmptySeq DEF V2Prefix, IsPrefixOfImage, ImgLen
  <2>4. Unended => stream = <<>> /\ ~failed
    BY <2>1 DEF XferInv, Acks
  <2>5. Len(<<>>) <= Len(<<>>)
    BY EmptySeq
  <2>. QED BY <1>1, <2>1, <2>2, <2>3, <2>4, <2>5 DEF SessionMoves
<1>4. CASE StartEraseFails(ImgLen, "good", rc)
  <2>1. PICK n \in 0 .. SlotSize - 1 : FlashErase(n)
    BY <1>4 DEF StartEraseFails
  <2>2. /\ FlashFaults /\ ~active' /\ ~active
        /\ UNCHANGED <<active, failed, total, written, page, stream>>
        /\ verified' \in {verified, NoImage}
    BY <1>4, <2>1 DEF StartEraseFails, StartAdmissible, FlashErase, session
  <2>3. SessionOK' /\ VerifiedAgrees' /\ V2Prefix'
    BY <2>2 DEF XferInv, SessionOK, VerifiedAgrees, V2Prefix, IsPrefixOfImage, ImgLen
  <2>4. Len(stream) <= Len(stream')
    BY <2>2, LenProperties DEF XferInv, IInv, TypeOK
  <2>. QED BY <1>1, <2>2, <2>3, <2>4 DEF SessionMoves, XferInv, Acks
<1>. QED BY <1>2, <1>3, <1>4 DEF FwUpgStart

\* fw_upg_write of a block; with DATA_V2 the one that comes next.
LEMMA WriteSession ==
  ASSUME XferInv, NEW data \in Seq(Byte), NEW rc \in RC, FwUpgWrite(data, rc), UNCHANGED host,
         ~host.legacy /\ active /\ ~failed => IsPrefixOfImage(stream \o data)
  PROVE  SessionMoves
<1>0. stream \in Seq(Byte) /\ Len(stream) \in Nat /\ Len(data) \in Nat
  BY LenProperties DEF XferInv, IInv, TypeOK
<1>1. IInv'
  BY WriteCallType, WriteInv DEF XferInv, IInv
<1>2. active => verified = NoImage /\ trailer \notin Pending /\ total = ImgLen
  BY ActiveUnverified DEF XferInv, SessionOK
<1>3. CASE WriteRejected(rc)
  BY <1>3, NoCall DEF WriteRejected
<1>4. CASE WriteOverflows(data, rc)
  <2>1. /\ active /\ active' /\ failed'
        /\ UNCHANGED <<total, trailer, stream, verified>>
    BY <1>4 DEF WriteOverflows
  <2>2. SessionOK' /\ VerifiedAgrees' /\ V2Prefix'
    BY <2>1 DEF XferInv, SessionOK, VerifiedAgrees, V2Prefix, IsPrefixOfImage, ImgLen
  <2>. QED BY <1>1, <2>1, <2>2 DEF SessionMoves
<1>5. CASE WriteStores(data, rc)
  <2>1. /\ active /\ ~failed /\ active' /\ failed' = failed /\ total' = total
        /\ stream' = stream \o data /\ trailer' \in {trailer, "bad"}
        /\ verified' \in {verified, NoImage}
    BY <1>5 DEF WriteStores, WriteFits, FlashWrite, TrailerAfter
  <2>2. SessionOK' /\ VerifiedAgrees'
    BY <1>2, <2>1 DEF SessionOK, VerifiedAgrees, Pending, ImgLen
  <2>3. V2Prefix'
    BY <2>1 DEF V2Prefix, IsPrefixOfImage, ImgLen
  <2>4. Len(stream') = Len(stream) + Len(data)
    BY <1>0, <2>1, ConcatProperties
  <2>. QED BY <1>0, <1>1, <2>1, <2>2, <2>3, <2>4 DEF SessionMoves
<1>6. CASE WriteFlushFails(data, rc)
  <2>1. /\ active /\ active' /\ failed' /\ total' = total /\ stream' = stream
        /\ trailer' \in {trailer, "bad"} /\ verified' \in {verified, NoImage}
    BY <1>6 DEF WriteFlushFails, WriteFits, FlashWrite, TrailerAfter
  <2>2. SessionOK' /\ VerifiedAgrees'
    BY <1>2, <2>1 DEF SessionOK, VerifiedAgrees, Pending, ImgLen
  <2>3. V2Prefix'
    BY <2>1 DEF XferInv, V2Prefix, IsPrefixOfImage, ImgLen
  <2>. QED BY <1>1, <2>1, <2>2, <2>3 DEF SessionMoves
<1>. QED BY <1>3, <1>4, <1>5, <1>6 DEF FwUpgWrite

\* A prefix of the image that is as long as the image is the image.
LEMMA WholePrefix ==
  ASSUME NEW s \in Seq(Byte), IsPrefixOfImage(s), Len(s) = ImgLen PROVE s = Image
<1>1. Image \in Seq(Byte) /\ Len(s) = Len(Image) /\ \A i \in 1 .. Len(s) : s[i] = Image[i]
  BY FwTransferAssumption DEF IsPrefixOfImage, ImgLen
<1>. QED BY <1>1, SeqEqual

\* fw_upg_finish with the checksum of the image, after the host sent END.
LEMMA FinishSession ==
  ASSUME XferInv, NEW rc \in RC, FwUpgFinish(Crc16(0, Image), rc), ~Unended, UNCHANGED host
  PROVE  /\ SessionMoves
         /\ rc = 0 => ~active' /\ verified' # NoImage
<1>0. /\ stream \in Seq(Byte) /\ NoImage \notin Seq(Byte)
      /\ FwUpgFinishEx(Crc16(0, Image), TRUE, rc)
  BY FwUpgAssumption DEF XferInv, IInv, TypeOK, FwUpgFinish
<1>1. IInv'
  BY <1>0, FinishType, FinishInv DEF XferInv, IInv
<1>2. active => verified = NoImage /\ trailer \notin Pending /\ total = ImgLen
  BY ActiveUnverified DEF XferInv, SessionOK
<1>3. CASE FinishRejected(rc)
  BY <1>3, NoCall DEF FinishRejected
<1>4. ASSUME active, ~active', stream' = stream, trailer' \in {trailer, "bad"}, verified' = NoImage
      PROVE  SessionMoves
  <2>1. SessionOK' /\ VerifiedAgrees' /\ V2Prefix'
    BY <1>2, <1>4 DEF XferInv, SessionOK, VerifiedAgrees, V2Prefix, IsPrefixOfImage, ImgLen, Pending
  <2>. QED BY <1>1, <2>1 DEF SessionMoves
<1>5. CASE FinishFailedSession(rc)
  <2>1. /\ active /\ ~active' /\ stream' = stream /\ trailer' \in {trailer, "bad"}
        /\ verified' = NoImage /\ rc = -1
    BY <1>2, <1>5 DEF FinishFailedSession, FinishCloses
  <2>. QED BY <1>4, <2>1
<1>6. CASE FinishFlushFails(rc)
  <2>1. /\ active /\ ~active' /\ stream' = stream /\ trailer' \in {trailer, "bad"}
        /\ verified' = NoImage /\ rc = -1
    BY <1>2, <1>6 DEF FinishFlushFails, FinishCloses, FlashWrite, TrailerAfter
  <2>. QED BY <1>4, <2>1
<1>7. CASE FinishVerifies(Crc16(0, Image), TRUE, rc)
  <2>1. /\ active /\ ~failed /\ ~active' /\ stream' = stream /\ trailer' \in {trailer, "bad"}
        /\ slot1' = Programmed(written, page, Len(page))
    BY <1>7 DEF FinishVerifies, FinishCloses, TrailerAfter
  <2>2. \/ rc = 0 /\ verified' = stream /\ ReadBackOk(slot1', Crc16(0, Image), TRUE)
        \/ rc = -1 /\ verified' = NoImage
    BY <1>7, <2>1 DEF FinishVerifies
  <2>3. CASE rc = -1 /\ verified' = NoImage
    BY <1>4, <2>1, <2>3
  <2>4. CASE rc = 0 /\ verified' = stream /\ ReadBackOk(slot1', Crc16(0, Image), TRUE)
    <3>1. Len(stream) = ImgLen
      <4>1. received = total /\ received = Len(stream)
        BY <2>1, <2>4 DEF ReadBackOk, XferInv, IInv, SlotMatchesStream
      <4>. QED BY <1>2, <2>1, <4>1
    <3>2. Content(slot1', ImgLen) = stream
      <4>1. \A i \in 1 .. Len(stream) : slot1'[i - 1] = stream[i]
        BY <1>0, <1>1, <2>4 DEF IInv, VerifiedInSlot
      <4>2. stream = [i \in 1 .. Len(stream) |-> stream[i]]
        BY <1>0, LenProperties
      <4>3. [i \in 1 .. Len(stream) |-> slot1'[i - 1]] = [i \in 1 .. Len(stream) |-> stream[i]]
        BY <4>1
      <4>. QED BY <3>1, <4>2, <4>3 DEF Content
    <3>3. Crc16(0, stream) = Crc16(0, Image)
      BY <1>2, <2>1, <2>4, <3>2 DEF ReadBackOk
    <3>4. ~host.legacy => stream = Image
      BY <1>0, <3>1, WholePrefix DEF XferInv, V2Prefix
    <3>5. SessionOK' /\ VerifiedAgrees' /\ V2Prefix'
      BY <1>0, <1>2, <2>1, <2>4, <3>1, <3>3, <3>4
         DEF XferInv, SessionOK, VerifiedAgrees, V2Prefix, IsPrefixOfImage, ImgLen, Pending
    <3>. QED BY <1>0, <1>1, <2>1, <2>4, <3>5 DEF SessionMoves
  <2>. QED BY <2>2, <2>3, <2>4
<1>8. FinishRejected(rc) => rc # 0
  BY DEF FinishRejected
<1>. QED BY <1>0, <1>3, <1>5, <1>6, <1>7, <1>8 DEF FwUpgFinishEx

\* boot_set_pending follows a finish that verified the image.
LEMMA PendSession ==
  ASSUME XferInv, NEW perm \in BOOLEAN, NEW rc \in RC, BootSetPending(perm, rc),
         ~active, verified # NoImage, UNCHANGED host
  PROVE  SessionMoves
<1>1. IInv'
  BY OtherType, OtherInv DEF XferInv, IInv
<1>2. UNCHANGED <<active, failed, total, written, page, slot1, stream, verified>>
  BY DEF BootSetPending, session
<1>3. SessionOK' /\ VerifiedAgrees' /\ V2Prefix'
  BY <1>2 DEF XferInv, SessionOK, VerifiedAgrees, V2Prefix, IsPrefixOfImage, ImgLen
<1>4. Len(stream) <= Len(stream')
  BY <1>2, LenProperties DEF XferInv, IInv, TypeOK
<1>. QED BY <1>1, <1>2, <1>3, <1>4 DEF SessionMoves, XferInv, Acks

\* The block at the offset the session expects continues the prefix.
LEMMA BlockContinues ==
  ASSUME XferInv, NEW w \in 0 .. ImgLen - 1, ~host.legacy, active, ~failed, w = received
  PROVE  IsPrefixOfImage(stream \o Block(w))
<1>. DEFINE b == Block(w)
<1>1. /\ b \in Seq(Byte) /\ ImgLen \in Nat /\ Len(b) \in Nat /\ w + Len(b) <= ImgLen
      /\ \A i \in 1 .. Len(b) : b[i] = Image[w + i]
  BY BlockBytes
<1>. HIDE DEF b
<1>2. /\ stream \in Seq(Byte) /\ Len(stream) = w /\ Len(stream) \in Nat
      /\ \A i \in 1 .. Len(stream) : stream[i] = Image[i]
  BY LenProperties DEF XferInv, IInv, TypeOK, SlotMatchesStream, V2Prefix, IsPrefixOfImage
<1>3. /\ Len(stream \o b) = Len(stream) + Len(b)
      /\ \A i \in 1 .. Len(stream) + Len(b) :
           (stream \o b)[i] = IF i <= Len(stream) THEN stream[i] ELSE b[i - Len(stream)]
  BY <1>1, <1>2, ConcatProperties
<1>4. ASSUME NEW i \in 1 .. Len(stream) + Len(b) PROVE (stream \o b)[i] = Image[i]
  <2>1. CASE i <= Len(stream)
    BY <1>2, <1>3, <2>1
  <2>2. CASE ~(i <= Len(stream))
    <3>1. i - w \in 1 .. Len(b) /\ w + (i - w) = i
      BY <1>1, <1>2, <2>2
    <3>2. (stream \o b)[i] = b[i - w]
      BY <1>2, <1>3, <2>2
    <3>. QED BY <1>1, <3>1, <3>2
  <2>. QED BY <2>1, <2>2
<1>. QED BY <1>1, <1>2, <1>3, <1>4 DEF IsPrefixOfImage, b

-----------------------------------------------------------------------------
(* The device                                                              *)

\* What the host was told stays within the session.
LEMMA BoundGrows ==
  ASSUME XferInv, SessionMoves, Unended, NEW n \in Nat, Bound(n) PROVE failed' \/ n <= Len(stream')
<1>1. Len(stream) \in Nat /\ Len(stream') \in Nat
  BY LenProperties DEF XferInv, SessionMoves, IInv, TypeOK
<1>. QED BY <1>1 DEF SessionMoves, Bound

\* So do the answers on their way.
LEMMA ReplyGrows ==
  ASSUME XferInv, SessionMoves, Unended, NEW r, ReplyOK(r)
  PROVE  /\ r \in [cmd : {"START", "DATA", "DATA_V2", "END"}, arg : Nat]
         /\ r.cmd = "DATA_V2" => failed' \/ r.arg <= Len(stream')
BY BoundGrows DEF ReplyOK

\* fw_reply: a context that is overwritten holds the later answer, one that is read
\* holds an answer.
LEMMA PostKeeps ==
  ASSUME XferInv, SessionMoves, UNCHANGED host, NEW reply, PostReply(reply),
         Unended /\ reply # NoReply => ReplyOK(reply)'
  PROVE  RingType' /\ (Unended => \A i \in Range(udpCb') : ReplyOK(replies[i])')
<1>0. /\ replies = [i \in 0 .. 1 |-> replies[i]] /\ replyIdx \in 0 .. 1 /\ udpCb \in Seq(0 .. 1)
      /\ Unended => \A i \in Range(udpCb) : ReplyOK(replies[i])
  BY DEF XferInv, RingType, Acks
<1>1. CASE reply = NoReply
  <2>1. UNCHANGED <<replies, replyIdx, udpCb>>
    BY <1>1 DEF PostReply, ringVars
  <2>2. ASSUME Unended, NEW i \in Range(udpCb') PROVE ReplyOK(replies[i])'
    <3>1. ReplyOK(replies[i])
      BY <1>0, <2>1, <2>2
    <3>. QED BY <2>1, <2>2, <3>1, ReplyGrows DEF ReplyOK, Bound
  <2>. QED BY <1>0, <2>1, <2>2 DEF RingType
<1>2. CASE reply # NoReply
  <2>1. /\ udpCb' = IF Len(udpCb) < CbDepth THEN Append(udpCb, replyIdx) ELSE udpCb
        /\ replies' = [replies EXCEPT ![replyIdx] =
                         IF replyIdx \in Range(udpCb') THEN reply ELSE NoReply]
        /\ replyIdx' = 1 - replyIdx
    BY <1>2 DEF PostReply
  <2>2. udpCb' \in Seq(0 .. 1) /\ Range(udpCb') \subseteq Range(udpCb) \cup {replyIdx}
    <3>1. CASE Len(udpCb) < CbDepth
      <4>1. udpCb' = Append(udpCb, replyIdx)
        BY <2>1, <3>1
      <4>2. /\ udpCb' \in Seq(0 .. 1) /\ Len(udpCb') = Len(udpCb) + 1 /\ Len(udpCb) \in Nat
            /\ \A i \in 1 .. Len(udpCb) : udpCb'[i] = udpCb[i]
            /\ udpCb'[Len(udpCb) + 1] = replyIdx
        BY <1>0, <4>1, AppendProperties, LenProperties
      <4>3. DOMAIN udpCb' = 1 .. Len(udpCb) + 1 /\ DOMAIN udpCb = 1 .. Len(udpCb)
        BY <1>0, <4>2, LenProperties
      <4>4. ASSUME NEW k \in DOMAIN udpCb' PROVE udpCb'[k] \in Range(udpCb) \cup {replyIdx}
        <5>1. CASE k \in 1 .. Len(udpCb)
          BY <4>2, <4>3, <5>1 DEF Range
        <5>2. CASE k = Len(udpCb) + 1
          BY <4>2, <5>2
        <5>. QED BY <4>2, <4>3, <5>1, <5>2
      <4>. QED BY <4>2, <4>4 DEF Range
    <3>2. CASE ~(Len(udpCb) < CbDepth)
      BY <1>0, <2>1, <3>2
    <3>. QED BY <3>1, <3>2
  <2>3. /\ replies' = [i \in 0 .. 1 |-> replies'[i]] /\ replyIdx' \in 0 .. 1
        /\ \A i \in 0 .. 1 : replies'[i] = IF i = replyIdx
              THEN IF replyIdx \in Range(udpCb') THEN reply ELSE NoReply ELSE replies[i]
    <3>. DEFINE v == IF replyIdx \in Range(udpCb') THEN reply ELSE NoReply
    <3>1. replies' = [replies EXCEPT ![replyIdx] = v] /\ replyIdx' \in 0 .. 1
      BY <1>0, <2>1
    <3>. HIDE DEF v
    <3>2. DOMAIN replies = 0 .. 1
      BY <1>0
    <3>3. replies' = [i \in 0 .. 1 |-> IF i = replyIdx THEN v ELSE replies[i]]
      BY <3>1, <3>2
    <3>4. /\ \A i \in 0 .. 1 : replies'[i] = IF i = replyIdx THEN v ELSE replies[i]
          /\ replies' = [i \in 0 .. 1 |-> replies'[i]]
      BY <3>3
    <3>. QED BY <3>1, <3>4 DEF v
  <2>4. ASSUME Unended, NEW i \in Range(udpCb') PROVE ReplyOK(replies[i])'
    <3>1. i \in 0 .. 1
      BY <2>2 DEF Range
    <3>2. CASE i = replyIdx
      <4>1. replies'[i] = reply
        BY <2>3, <2>4, <3>1, <3>2
      <4>. QED BY <1>2, <2>4, <4>1 DEF ReplyOK, Bound
    <3>3. CASE i # replyIdx
      <4>1. replies'[i] = replies[i] /\ ReplyOK(replies[i])
        BY <1>0, <2>2, <2>3, <2>4, <3>1, <3>3
      <4>. QED BY <2>4, <4>1, ReplyGrows DEF ReplyOK, Bound
    <3>. QED BY <3>2, <3>3
  <2>. QED BY <2>2, <2>3, <2>4 DEF RingType
<1>. QED BY <1>1, <1>2

\* A step of the device that keeps the session and its own state keeps the invariant.
LEMMA DeviceKeeps ==
  ASSUME XferInv, SessionMoves, UNCHANGED hostVars, RingType', WorkerOK',
         udpQ' \in Seq(Sent),
         udp' = UdpIdle \/ udp' \in [at : {"run", "v2write", "ack", "pend"}, m : Sent],
         Unended => \A i \in Range(udpCb') : ReplyOK(replies[i])',
         Unended => \A r \in hostRx' : ReplyOK(r)'
  PROVE  XferInv'
<1>0. host' = host /\ net' = net
  BY DEF hostVars
<1>1. Sent' = Sent /\ (Unended' <=> Unended)
  BY <1>0 DEF Sent, Unended, BlockMsg, StartMsg, EndMsg, Block, ImgLen
<1>2. Messages'
  BY <1>0, <1>1 DEF Messages, XferInv
<1>3. HostType' /\ LegacyWaits'
  BY <1>0 DEF XferInv, HostType, LegacyWaits
<1>4. Acks'
  <2>. SUFFICES ASSUME Unended PROVE Acks'
    BY <1>1 DEF Acks
  <2>1. ~host'.legacy => Bound(host.off)' /\ Bound(host.confirmed)'
    <3>1. host.off \in Nat /\ host.confirmed \in Nat
      BY DEF XferInv, HostType
    <3>2. ~host.legacy => Bound(host.off) /\ Bound(host.confirmed)
      BY DEF XferInv, Acks
    <3>. QED BY <1>0, <3>1, <3>2, BoundGrows DEF Bound
  <2>. QED BY <1>0, <2>1 DEF Acks, SessionMoves
<1>. QED BY <1>2, <1>3, <1>4 DEF XferInv, SessionMoves

\* A command reaches the queue, or is dropped.
LEMMA DeliverInv == ASSUME XferInv, Deliver PROVE XferInv'
<1>1. PICK m \in net : UdpCmd(m)
  BY DEF Deliver
<1>2. UNCHANGED <<vars, udp, host, net, hostRx, replies, replyIdx, udpCb>>
  BY <1>1 DEF UdpCmd, Deliver, hostVars, ringVars
<1>3. SessionMoves
  BY <1>2, NoCall
<1>4. udpQ' \in Seq(Sent)
  <2>1. m \in Sent /\ udpQ \in Seq(Sent)
    BY DEF XferInv, Messages
  <2>2. Append(udpQ, m) \in Seq(Sent)
    BY <2>1, AppendProperties
  <2>. QED BY <1>1, <2>1, <2>2 DEF UdpCmd
<1>5. RingType' /\ WorkerOK'
  BY <1>2 DEF XferInv, RingType, WorkerOK, vars, received
<1>6. udp' = UdpIdle \/ udp' \in [at : {"run", "v2write", "ack", "pend"}, m : Sent]
  BY <1>2 DEF XferInv, Messages
<1>7. Unended => /\ \A i \in Range(udpCb') : ReplyOK(replies[i])'
                 /\ \A r \in hostRx' : ReplyOK(r)'
  BY <1>2 DEF XferInv, Acks, ReplyOK, Bound, vars
<1>. QED BY <1>2, <1>3, <1>4, <1>5, <1>6, <1>7, DeviceKeeps DEF hostVars

\* The tcpip thread sends what the context holds.
LEMMA SendInv == ASSUME XferInv, SendReply PROVE XferInv'
<1>1. /\ UNCHANGED <<vars, udpQ, udp, host, net, replyIdx>> /\ udpCb # <<>> /\ udpCb' = Tail(udpCb)
      /\ hostRx' \subseteq hostRx \cup {replies[Head(udpCb)]}
      /\ replies' = [i \in 0 .. 1 |-> IF i \in Range(udpCb') THEN replies[i] ELSE NoReply]
  BY DEF SendReply, hostVars, udpVars
<1>2. SessionMoves
  BY <1>1, NoCall
<1>3. /\ udpCb' \in Seq(0 .. 1) /\ Range(udpCb') \subseteq Range(udpCb)
      /\ Head(udpCb) \in Range(udpCb) /\ Range(udpCb) \subseteq 0 .. 1
  <2>1. udpCb \in Seq(0 .. 1)
    BY DEF XferInv, RingType
  <2>2. /\ Tail(udpCb) \in Seq(0 .. 1) /\ Len(udpCb) \in Nat /\ Len(udpCb) # 0
        /\ Len(Tail(udpCb)) = Len(udpCb) - 1
        /\ \A i \in 1 .. Len(Tail(udpCb)) : Tail(udpCb)[i] = udpCb[i + 1]
        /\ Head(udpCb) = udpCb[1]
    BY <1>1, <2>1, HeadTailProperties, EmptySeq, LenProperties
  <2>3. DOMAIN Tail(udpCb) = 1 .. Len(udpCb) - 1 /\ DOMAIN udpCb = 1 .. Len(udpCb)
    BY <2>1, <2>2, LenProperties
  <2>4. ASSUME NEW k \in DOMAIN Tail(udpCb) PROVE Tail(udpCb)[k] \in Range(udpCb)
    <3>1. k + 1 \in DOMAIN udpCb /\ Tail(udpCb)[k] = udpCb[k + 1]
      BY <2>2, <2>3
    <3>. QED BY <3>1 DEF Range
  <2>5. 1 \in DOMAIN udpCb
    BY <2>2, <2>3
  <2>6. Range(udpCb) \subseteq 0 .. 1
    BY <2>1, <2>3, ElementOfSeq DEF Range
  <2>. QED BY <1>1, <2>2, <2>4, <2>5, <2>6 DEF Range
<1>4. RingType'
  <2>1. replies' = [i \in 0 .. 1 |-> replies'[i]]
    BY <1>1
  <2>. QED BY <1>1, <1>3, <2>1 DEF RingType, XferInv
<1>5. WorkerOK' /\ udpQ' \in Seq(Sent)
  BY <1>1 DEF XferInv, WorkerOK, vars, received, Messages
<1>6. udp' = UdpIdle \/ udp' \in [at : {"run", "v2write", "ack", "pend"}, m : Sent]
  BY <1>1 DEF XferInv, Messages
<1>7. ASSUME Unended, NEW i \in Range(udpCb') PROVE ReplyOK(replies[i])'
  <2>1. replies'[i] = replies[i] /\ ReplyOK(replies[i])
    BY <1>1, <1>3, <1>7 DEF XferInv, Acks
  <2>. QED BY <1>7, <1>2, <2>1, ReplyGrows DEF ReplyOK, Bound
<1>8. ASSUME Unended, NEW r \in hostRx' PROVE ReplyOK(r)'
  <2>1. ReplyOK(r)
    BY <1>1, <1>3, <1>8 DEF XferInv, Acks
  <2>. QED BY <1>8, <1>2, <2>1, ReplyGrows DEF ReplyOK, Bound
<1>. QED BY <1>1, <1>2, <1>4, <1>5, <1>6, <1>7, <1>8, DeviceKeeps DEF hostVars

\* What a step of the worker does to the session, to itself and what it answers.
WorkerMoves(reply) ==
  /\ SessionMoves
  /\ udpQ' \in Seq(Sent)
  /\ udp' = UdpIdle \/ udp' \in [at : {"run", "v2write", "ack", "pend"}, m : Sent]
  /\ WorkerOK'
  /\ Unended /\ reply # NoReply =>
       /\ reply \in [cmd : {"START", "DATA", "DATA_V2", "END"}, arg : Nat]
       /\ reply.cmd = "DATA_V2" => failed' \/ reply.arg <= Len(stream')

\* A step of the worker that does so keeps the invariant.
LEMMA WorkerKeeps ==
  ASSUME XferInv, NEW reply, WorkerMoves(reply), PostReply(reply), UNCHANGED <<host, net, hostRx>>
  PROVE  XferInv'
<1>1. SessionMoves /\ (Unended /\ reply # NoReply => ReplyOK(reply)')
  BY DEF WorkerMoves, ReplyOK, Bound
<1>2. RingType' /\ (Unended => \A i \in Range(udpCb') : ReplyOK(replies[i])')
  BY <1>1, PostKeeps
<1>3. Unended => \A r \in hostRx' : ReplyOK(r)'
  BY <1>1, ReplyGrows DEF XferInv, Acks, ReplyOK, Bound
<1>. QED BY <1>1, <1>2, <1>3, DeviceKeeps DEF WorkerMoves, hostVars

\* The message the worker holds.
LEMMA Holding ==
  ASSUME XferInv, udp.at # "idle"
  PROVE  udp.m \in Sent /\ udp.at \in {"run", "v2write", "ack", "pend"}
BY DEF XferInv, Messages, UdpIdle

\* The worker takes a command from its queue, or compares its offset.
LEMMA TakeMoves ==
  ASSUME XferInv, UNCHANGED host, NEW reply, UdpReceive(reply) \/ UdpDataV2(reply)
  PROVE  WorkerMoves(reply)
<1>1. UNCHANGED vars /\ reply = NoReply /\ SessionMoves
  BY NoCall DEF UdpReceive, UdpDataV2
<1>2. CASE UdpReceive(reply)
  <2>1. udpQ \in Seq(Sent) /\ udpQ # <<>>
    BY <1>2 DEF UdpReceive, XferInv, Messages
  <2>2. Head(udpQ) \in Sent /\ Tail(udpQ) \in Seq(Sent)
    BY <2>1, HeadTailProperties
  <2>3. udp' \in [at : {"run", "v2write", "ack", "pend"}, m : Sent] /\ udp'.at = "run"
    BY <1>2, <2>2 DEF UdpReceive, UdpAt
  <2>. QED BY <1>1, <1>2, <2>2, <2>3 DEF WorkerMoves, WorkerOK, UdpReceive
<1>3. CASE UdpDataV2(reply)
  <2>1. udp.m \in Sent /\ udp.m.cmd = "DATA_V2"
    BY <1>3, Holding DEF UdpDataV2, UdpRuns
  <2>2. /\ udp' \in [at : {"run", "v2write", "ack", "pend"}, m : Sent] /\ udp'.m = udp.m
        /\ udp'.at \in {"v2write", "ack"} /\ (udp'.at = "v2write" => udp.m.off = received)
    BY <1>3, <2>1 DEF UdpDataV2, UdpAt
  <2>3. received' = received
    BY <1>1 DEF vars, received
  <2>4. udpQ' \in Seq(Sent)
    BY <1>3 DEF UdpDataV2, XferInv, Messages
  <2>. QED BY <1>1, <2>1, <2>2, <2>3, <2>4 DEF WorkerMoves, WorkerOK
<1>. QED BY <1>2, <1>3

\* START.
LEMMA UdpStartMoves ==
  ASSUME XferInv, UNCHANGED host, NEW reply, UdpStart(reply) PROVE WorkerMoves(reply)
<1>1. udp.m.size = ImgLen /\ udp.m.kh = "good"
  BY Holding, SentKinds DEF UdpStart, UdpRuns
<1>2. PICK rc \in RC :
        /\ FwUpgStart(udp.m.size, udp.m.kh, rc)
        /\ reply = [cmd |-> "START", arg |-> IF rc = 0 THEN 1 ELSE IF rc = -2 THEN 2 ELSE 0]
  BY DEF UdpStart
<1>3. SessionMoves
  BY <1>1, <1>2, StartSession
<1>4. reply.cmd = "START" /\ reply \in [cmd : {"START", "DATA", "DATA_V2", "END"}, arg : Nat]
  BY <1>2
<1>5. udp' = UdpIdle /\ udpQ' \in Seq(Sent) /\ WorkerOK'
  BY DEF UdpStart, XferInv, Messages, WorkerOK, UdpIdle
<1>. QED BY <1>3, <1>4, <1>5 DEF WorkerMoves

\* DATA, and DATA_V2 at the offset that was compared.
LEMMA UdpWriteMoves ==
  ASSUME XferInv, UNCHANGED host, NEW reply, UdpData(reply) \/ UdpDataV2Write(reply)
  PROVE  WorkerMoves(reply)
<1>1. /\ udp.m \in Sent /\ udp' = UdpAt("ack", udp.m) /\ reply = NoReply /\ udpQ' = udpQ
      /\ \E rc \in RC : FwUpgWrite(udp.m.data, rc)
      /\ \/ udp.at = "run" /\ udp.m.cmd = "DATA"
         \/ udp.at = "v2write" /\ udp.m.cmd = "DATA_V2" /\ udp.m.off = received
  BY Holding DEF UdpData, UdpDataV2Write, UdpRuns, XferInv, WorkerOK
<1>2. PICK w \in 0 .. ImgLen - 1 :
        udp.m.data = Block(w) /\ (~host.legacy => w = received)
  BY <1>1, SentKinds
<1>3. PICK rc \in RC : FwUpgWrite(Block(w), rc)
  BY <1>1, <1>2
<1>4. Block(w) \in Seq(Byte)
  BY BlockBytes
<1>5. ~host.legacy /\ active /\ ~failed => IsPrefixOfImage(stream \o Block(w))
  BY <1>2, BlockContinues
<1>6. SessionMoves
  BY <1>3, <1>4, <1>5, WriteSession
<1>7. udp' \in [at : {"run", "v2write", "ack", "pend"}, m : Sent] /\ udp'.at = "ack"
  BY <1>1 DEF UdpAt
<1>8. WorkerOK' /\ udpQ' \in Seq(Sent)
  BY <1>1, <1>7 DEF WorkerOK, XferInv, Messages
<1>. QED BY <1>1, <1>6, <1>7, <1>8 DEF WorkerMoves

\* The answer to data counts no more than the session holds.
LEMMA UdpAckMoves ==
  ASSUME XferInv, UNCHANGED host, NEW reply, UdpAck(reply) PROVE WorkerMoves(reply)
<1>1. UNCHANGED <<vars, udpQ>> /\ udp' = UdpIdle /\ reply = [cmd |-> udp.m.cmd, arg |-> received]
  BY DEF UdpAck
<1>2. SessionMoves
  BY <1>1, NoCall
<1>3. udp.m.cmd \in {"START", "DATA", "DATA_V2", "END"}
  BY Holding, SentKinds DEF UdpAck
<1>4. received \in Nat /\ Len(stream) \in Nat
  BY LenProperties DEF XferInv, IInv, TypeOK, received
<1>5. Unended => failed \/ received <= Len(stream)
  <2>1. CASE active /\ ~failed
    BY <1>4, <2>1 DEF XferInv, IInv, SlotMatchesStream
  <2>2. CASE Unended /\ ~active
    <3>1. written = 0 /\ page = <<>> /\ stream = <<>>
      BY <2>2 DEF XferInv, Acks
    <3>. QED BY <1>4, <3>1, EmptySeq DEF received
  <2>. QED BY <2>1, <2>2
<1>6. failed' = failed /\ stream' = stream
  BY <1>1 DEF vars
<1>7. udpQ' \in Seq(Sent) /\ WorkerOK'
  BY <1>1 DEF XferInv, Messages, WorkerOK, UdpIdle
<1>8. reply \in [cmd : {"START", "DATA", "DATA_V2", "END"}, arg : Nat] /\ reply.arg = received
  BY <1>1, <1>3, <1>4
<1>. QED BY <1>1, <1>2, <1>5, <1>6, <1>7, <1>8 DEF WorkerMoves

\* END, and the upgrade request after it.
LEMMA UdpEndMoves ==
  ASSUME XferInv, UNCHANGED host, NEW reply, UdpEnd(reply) \/ UdpSetPending(reply)
  PROVE  WorkerMoves(reply)
<1>1. udp.m \in Sent /\ udp.m.cmd = "END"
  BY Holding DEF UdpEnd, UdpSetPending, UdpRuns, XferInv, WorkerOK
<1>2. ~Unended /\ udp.m.crc = Crc16(0, Image) /\ ~udp.m.test
  BY <1>1, SentKinds
<1>3. udpQ' \in Seq(Sent)
  BY DEF UdpEnd, UdpSetPending, XferInv, Messages
<1>4. CASE UdpEnd(reply)
  <2>1. PICK rc \in RC :
          /\ FwUpgFinish(udp.m.crc, rc)
          /\ IF rc = 0 THEN udp' = UdpAt("pend", udp.m) ELSE udp' = UdpIdle
    BY <1>4 DEF UdpEnd
  <2>2. SessionMoves /\ (rc = 0 => ~active' /\ verified' # NoImage)
    BY <1>2, <2>1, FinishSession
  <2>3. CASE rc = 0
    <3>1. /\ udp' \in [at : {"run", "v2write", "ack", "pend"}, m : Sent]
          /\ udp'.at = "pend" /\ udp'.m = udp.m
      BY <1>1, <2>1, <2>3 DEF UdpAt
    <3>. QED BY <1>1, <1>2, <1>3, <2>2, <2>3, <3>1 DEF WorkerMoves, WorkerOK
  <2>4. CASE rc # 0
    <3>1. udp' = UdpIdle
      BY <2>1, <2>4
    <3>. QED BY <1>2, <1>3, <2>2, <3>1 DEF WorkerMoves, WorkerOK, UdpIdle
  <2>. QED BY <2>3, <2>4
<1>5. CASE UdpSetPending(reply)
  <2>1. PICK rc \in RC : BootSetPending(~udp.m.test, rc)
    BY <1>5 DEF UdpSetPending
  <2>2. BootSetPending(TRUE, rc)
    BY <1>2, <2>1 DEF BootSetPending
  <2>3. ~active /\ verified # NoImage
    BY <1>5 DEF UdpSetPending, XferInv, WorkerOK
  <2>4. SessionMoves
    BY <2>2, <2>3, PendSession
  <2>5. udp' = UdpIdle
    BY <1>5 DEF UdpSetPending
  <2>. QED BY <1>2, <1>3, <2>4, <2>5 DEF WorkerMoves, WorkerOK, UdpIdle
<1>. QED BY <1>4, <1>5

\* Every step of the worker keeps the invariant.
LEMMA WorkerInv == ASSUME XferInv, DeviceWorker PROVE XferInv'
<1>1. PICK reply \in UdpReplies : UdpWorker(reply) /\ PostReply(reply)
  BY DEF DeviceWorker
<1>2. UNCHANGED <<host, net, hostRx>>
  BY DEF DeviceWorker, hostVars
<1>3. WorkerMoves(reply)
  BY <1>1, <1>2, TakeMoves, UdpStartMoves, UdpWriteMoves, UdpAckMoves, UdpEndMoves DEF UdpWorker
<1>. QED BY <1>1, <1>2, <1>3, WorkerKeeps

-----------------------------------------------------------------------------
(* The theorems                                                            *)

\* Before the first datagram.
LEMMA XferStarts == XferInit => XferInv
<1>. SUFFICES ASSUME XferInit PROVE XferInv
  OBVIOUS
<1>0. /\ Len(<<>>) = 0 /\ ImgLen \in Nat /\ <<>> \in Seq(Sent) /\ <<>> \in Seq(0 .. 1)
      /\ Range(<<>>) = {}
  BY EmptySeq, FwTransferAssumption, LenProperties DEF ImgLen, Range
<1>1. IInv
  BY InitType DEF XferInit, Init, IInv, SlotMatchesStream, AheadErased, VerifiedInSlot
<1>2. PICK legacy \in BOOLEAN : host = HostLocals("start", legacy)
  BY DEF XferInit
<1>3. HostType /\ LegacyWaits /\ host.off = 0 /\ host.confirmed = 0
  BY <1>2 DEF HostLocals, HostType, LegacyWaits
<1>4. RingType
  BY <1>0 DEF XferInit, RingType
<1>5. Messages /\ WorkerOK
  BY <1>0 DEF XferInit, Messages, WorkerOK, UdpInit, UdpIdle
<1>6. SessionOK /\ VerifiedAgrees
  BY DEF XferInit, Init, SessionOK, VerifiedAgrees, Pending
<1>7. V2Prefix
  BY <1>0 DEF XferInit, Init, V2Prefix, IsPrefixOfImage
<1>8. Acks
  BY <1>0, <1>3 DEF XferInit, Init, Acks, Bound
<1>. QED BY <1>1, <1>3, <1>4, <1>5, <1>6, <1>7, <1>8 DEF XferInv

\* No step of host, network or device leaves the invariant.
LEMMA XferStep == XferInv /\ [XferNext]_xferVars => XferInv'
<1>. SUFFICES ASSUME XferInv, [XferNext]_xferVars PROVE XferInv'
  OBVIOUS
<1>1. CASE XferNext
  BY <1>1, HostInv, DeliverInv, WorkerInv, SendInv DEF XferNext
<1>2. CASE UNCHANGED xferVars
  <2>1. HostKeepsDevice /\ host' = host /\ net' = net /\ hostRx' = hostRx
    BY <1>2 DEF xferVars, HostKeepsDevice, hostVars
  <2>2. HostMoves
    <3>1. Unended' <=> Unended
      BY <2>1 DEF Unended
    <3>2. net' \subseteq Sent'
      BY <2>1, <3>1, NetKept
    <3>. QED BY <2>1, <3>1, <3>2 DEF HostMoves, XferInv, HostType, LegacyWaits, Acks
  <2>. QED BY <2>1, <2>2, HostKeeps
<1>. QED BY <1>1, <1>2

\* The inductive invariant holds in every behaviour.
LEMMA XferInductive == XferSpec => []XferInv
BY XferStarts, XferStep, PTL DEF XferSpec

\* Whatever the network loses, repeats or reorders, the session of fw_upg.c holds a
\* prefix of the image when the tool sends DATA_V2: no gap, no repetition.
THEOREM SessionHoldsPrefix == XferSpec => []V2Prefix
<1>1. XferInv => V2Prefix
  BY DEF XferInv
<1>. QED BY <1>1, XferInductive, PTL

\* send_v2 never takes more bytes for delivered than the session holds, also when
\* the worker overwrites one of its two reply contexts before it was sent.
THEOREM ConfirmedNeverAhead == XferSpec => []ConfirmedIsReceived
<1>1. XferInv => ConfirmedIsReceived
  BY DEF XferInv, ConfirmedIsReceived, Acks, Unended, LegacyWaits, Bound
<1>. QED BY <1>1, XferInductive, PTL

\* What fw_upg_finish accepts has the size and the checksum of the image the host
\* holds, also with legacy DATA, which carries no offset.
THEOREM AcceptedAgrees == XferSpec => []VerifiedAgrees
<1>1. XferInv => VerifiedAgrees
  BY DEF XferInv
<1>. QED BY <1>1, XferInductive, PTL

\* With DATA_V2 and a flash that does not fail, an upgrade request in the trailer is
\* one for the whole image the host holds.
THEOREM RequestIsForImage == ASSUME ~FlashFaults PROVE XferSpec => []PendingIsImage
<1>1. XferInv => PendingIsImage
  BY DEF XferInv, SessionOK, PendingIsImage
<1>. QED BY <1>1, XferInductive, PTL

=============================================================================
