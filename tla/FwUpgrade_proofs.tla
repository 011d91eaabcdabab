-------------------------- MODULE FwUpgrade_proofs --------------------------
(***************************************************************************)
(* Proofs about the three upgrade channels side by side, for every set of  *)
(* channels in use, every message, queue depth and slot, with flash faults *)
(* and resets at any time.                                                 *)
(***************************************************************************)
EXTENDS FwUpgrade, FwUpg_proofs, FiniteSetTheorems, TLAPS

-----------------------------------------------------------------------------
(* The state of the channels                                               *)

WsOps ==
  [kind : {"START"}, total : Totals, kh : KeyHash] \cup [kind : {"END"}, crc : CrcValues]

\* Queues and workers hold messages the hosts may send; a worker past its first
\* call holds one of the command it is executing.  A channel not in use is idle.
UdpState ==
  /\ udpQ \in Seq(UdpMsgs(channels))
  /\ udp.at # "idle" => udp.m \in UdpMsgs(channels) /\ "udp" \in channels
  /\ udp.at = "v2write" => udp.m.cmd = "DATA_V2"
  /\ udp.at = "pend" => udp.m.cmd = "END"

CanState ==
  /\ canQ \in Seq(CanMsgs(channels))
  /\ can.at # "idle" => can.m \in CanMsgs(channels) /\ "can" \in channels
  /\ can.at = "start" => can.m.id = "cmd" /\ can.m.dlc = 8 /\ can.m.cmd = "START"
  /\ can.at = "write" => can.m.id = "data"

WsState ==
  /\ wsQ \in Seq(WsOps)
  /\ wsCrc \in CrcValues
  /\ ws.at # "idle" => ws.op \in WsOps /\ "ws" \in channels
  /\ ws.at \notin {"idle", "run"} => ws.op.kind = "END"

\* With one channel in use nothing comes between the finish and the request.
RequestFollows ==
  Cardinality(channels) = 1 /\ "pend" \in {udp.at, can.at, ws.at}
    => ~active /\ verified # NoImage

ChanInv ==
  /\ IInv /\ channels \in ChannelSets
  /\ UdpState /\ CanState /\ WsState /\ RequestFollows

-----------------------------------------------------------------------------
(* Each step calls the core as FwUpg allows                                *)

\* A call of the core other than the request, and the request.
Call ==
  \/ \E tot \in Totals, kh \in KeyHash, rc \in RC : FwUpgStart(tot, kh, rc)
  \/ \E data \in Chunks, rc \in RC : FwUpgWrite(data, rc)
  \/ FwUpgAbort
  \/ \E crc \in CrcValues, check \in BOOLEAN, rc \in RC : FwUpgFinishEx(crc, check, rc)
  \/ Reboot
Request == \E perm \in BOOLEAN, rc \in RC : BootSetPending(perm, rc)

\* Together they are the steps of FwUpg.
LEMMA CallOrRequest == Call \/ Request \/ UNCHANGED vars <=> [Next]_vars
BY DEF Call, Request, Next

\* No call but the request makes a request.
LEMMA CallMakesNoRequest ==
  ASSUME Call \/ UNCHANGED vars, trailer' \in Pending PROVE trailer \in Pending
<1>1. CASE UNCHANGED vars
  BY <1>1 DEF vars
<1>2. ASSUME NEW tot, NEW kh, NEW rc, FwUpgStart(tot, kh, rc) PROVE trailer \in Pending
  BY <1>2 DEF FwUpgStart, StartRejected, StartOpens, StartEraseFails, FlashErase, vars, Pending
<1>3. ASSUME NEW data, NEW rc, FwUpgWrite(data, rc) PROVE trailer \in Pending
  <2>1. trailer' \in {trailer, "bad"}
    BY <1>3 DEF FwUpgWrite, WriteRejected, WriteOverflows, WriteStores, WriteFlushFails,
                FlashWrite, TrailerAfter, vars
  <2>. QED BY <2>1 DEF Pending
<1>4. ASSUME NEW crc, NEW check, NEW rc, FwUpgFinishEx(crc, check, rc) PROVE trailer \in Pending
  <2>1. trailer' \in {trailer, "bad"}
    BY <1>4 DEF FwUpgFinishEx, FinishRejected, FinishFailedSession, FinishFlushFails,
                FinishVerifies, FlashWrite, TrailerAfter, vars
  <2>. QED BY <2>1 DEF Pending
<1>5. CASE FwUpgAbort \/ Reboot
  BY <1>5 DEF FwUpgAbort, Reboot, Pending
<1>. QED BY <1>1, <1>2, <1>3, <1>4, <1>5 DEF Call

\* The UDP worker.
LEMMA UdpCalls ==
  ASSUME ChanInv, NEW reply, UdpWorker(reply)
  PROVE  Call \/ UNCHANGED vars \/ (udp.at = "pend" /\ Request)
<1>0. udp.at # "idle" =>
        /\ udp.m.cmd = "START" => udp.m.size \in Totals /\ udp.m.kh \in KeyHash
        /\ udp.m.cmd \in {"DATA", "DATA_V2"} => udp.m.data \in Chunks
        /\ udp.m.cmd = "END" => udp.m.crc \in CrcValues /\ udp.m.test \in BOOLEAN
  BY FwUpgradeAssumption DEF ChanInv, UdpState
<1>1. CASE UdpReceive(reply) \/ UdpDataV2(reply) \/ UdpAck(reply)
  BY <1>1 DEF UdpReceive, UdpDataV2, UdpAck
<1>2. CASE UdpStart(reply)
  BY <1>0, <1>2 DEF UdpStart, UdpRuns, Call
<1>3. CASE UdpData(reply) \/ UdpDataV2Write(reply)
  <2>1. udp.m.data \in Chunks /\ \E rc \in RC : FwUpgWrite(udp.m.data, rc)
    BY <1>0, <1>3 DEF UdpData, UdpDataV2Write, UdpRuns, ChanInv, UdpState
  <2>. QED BY <2>1 DEF Call
<1>4. CASE UdpEnd(reply)
  <2>1. udp.m.crc \in CrcValues /\ \E rc \in RC : FwUpgFinishEx(udp.m.crc, TRUE, rc)
    BY <1>0, <1>4 DEF UdpEnd, UdpRuns, FwUpgFinish
  <2>. QED BY <2>1 DEF Call
<1>5. CASE UdpSetPending(reply)
  <2>1. /\ udp.at = "pend" /\ (~udp.m.test) \in BOOLEAN
        /\ \E rc \in RC : BootSetPending(~udp.m.test, rc)
    BY <1>5 DEF UdpSetPending
  <2>. QED BY <2>1 DEF Request
<1>. QED BY <1>1, <1>2, <1>3, <1>4, <1>5 DEF UdpWorker

\* The CAN task.
LEMMA CanCalls ==
  ASSUME ChanInv, NEW reply, CanWorker(reply)
  PROVE  Call \/ UNCHANGED vars \/ (can.at = "pend" /\ Request)
<1>0. can.at # "idle" =>
        /\ can.m.id = "data" => can.m.data \in Chunks
        /\ can.m.id = "cmd" /\ can.m.dlc = 8 /\ can.m.cmd = "START" => can.m.arg \in Totals
  BY FwUpgradeAssumption DEF ChanInv, CanState
<1>1. CASE \/ CanReceive(reply) \/ CanShortCmd(reply) \/ CanConfirm(reply) \/ CanVersion(reply)
           \/ CanUnknownCmd(reply) \/ CanData(reply) \/ CanDataGot(reply)
           \/ CanDataTotal(reply) \/ CanKeyhash(reply) \/ CanOther(reply)
  BY <1>1 DEF CanReceive, CanShortCmd, CanConfirm, CanVersion, CanUnknownCmd, CanData,
              CanDataGot, CanDataTotal, CanKeyhash, CanOther
<1>2. CASE CanStartAbort(reply)
  BY <1>2 DEF CanStartAbort, Call
<1>3. CASE CanStartOpen(reply)
  <2>1. can.m.arg \in Totals
    BY <1>0, <1>3 DEF CanStartOpen, ChanInv, CanState
  <2>2. PICK kh \in KeyHash : \E rc \in RC : FwUpgStart(can.m.arg, kh, rc)
    BY <1>3 DEF CanStartOpen, KeyHash
  <2>. QED BY <2>1, <2>2 DEF Call
<1>4. CASE CanConfirmFinish(reply)
  <2>1. \E rc \in RC : FwUpgFinishEx(0, FALSE, rc)
    BY <1>4 DEF CanConfirmFinish
  <2>. QED BY <2>1, FwUpgradeAssumption DEF Call
<1>5. CASE CanSetPending(reply)
  <2>1. /\ can.at = "pend" /\ (can.m.arg # 0) \in BOOLEAN
        /\ \E rc \in RC : BootSetPending(can.m.arg # 0, rc)
    BY <1>5 DEF CanSetPending
  <2>. QED BY <2>1 DEF Request
<1>6. CASE CanDataWrite(reply)
  <2>1. can.m.data \in Chunks /\ \E rc \in RC : FwUpgWrite(can.m.data, rc)
    BY <1>0, <1>6 DEF CanDataWrite, ChanInv, CanState
  <2>. QED BY <2>1 DEF Call
<1>. QED BY <1>1, <1>2, <1>3, <1>4, <1>5, <1>6 DEF CanWorker

\* The WebSocket worker.
LEMMA WsCalls ==
  ASSUME ChanInv, WsWorker
  PROVE  Call \/ UNCHANGED vars \/ (ws.at = "pend" /\ Request)
<1>0. ws.at # "idle" =>
        /\ ws.op.kind = "START" => ws.op.total \in Totals /\ ws.op.kh \in KeyHash
        /\ ws.op.kind = "END" => ws.op.crc \in CrcValues
  BY DEF ChanInv, WsState, WsOps
<1>1. CASE WsReceive \/ WsEnd \/ WsEndSize \/ WsRequestReboot
  BY <1>1 DEF WsReceive, WsEnd, WsEndSize, WsRequestReboot
<1>2. CASE WsStart
  BY <1>0, <1>2 DEF WsStart, Call
<1>3. CASE WsEndAbort
  BY <1>3 DEF WsEndAbort, Call
<1>4. CASE WsEndFinish
  <2>1. ws.op.crc \in CrcValues /\ \E rc \in RC : FwUpgFinishEx(ws.op.crc, TRUE, rc)
    BY <1>0, <1>4 DEF WsEndFinish, FwUpgFinish, ChanInv, WsState
  <2>. QED BY <2>1 DEF Call
<1>5. CASE WsSetPending
  BY <1>5 DEF WsSetPending, Request
<1>. QED BY <1>1, <1>2, <1>3, <1>4, <1>5 DEF WsWorker

\* The WebSocket in the tcpip thread.
LEMMA WsThreadCalls == ASSUME WsThread \/ WsConnection PROVE Call \/ UNCHANGED vars
<1>1. CASE \E data \in WsBlocks : WsBinary(data)
  <2>1. PICK data \in WsBlocks : \E rc \in RC : FwUpgWrite(data, rc)
    BY <1>1 DEF WsBinary
  <2>2. data \in Chunks
    BY FwUpgradeAssumption
  <2>. QED BY <2>1, <2>2 DEF Call
<1>2. CASE ~\E data \in WsBlocks : WsBinary(data)
  BY <1>2 DEF WsThread, WsConnection, WsFwStart, WsFwEnd, WsAttach, WsClose
<1>. QED BY <1>1, <1>2

\* Every step of the composition.
LEMMA StepCalls ==
  ASSUME ChanInv, [UpgNext]_allVars
  PROVE  Call \/ UNCHANGED vars \/ ("pend" \in {udp.at, can.at, ws.at} /\ Request)
<1>1. CASE UNCHANGED allVars
  BY <1>1 DEF allVars
<1>2. CASE UdpSide
  BY <1>2, UdpCalls DEF UdpSide, UdpCmd
<1>3. CASE CanIsr
  BY <1>3 DEF CanIsr, CanFrameIsr
<1>4. CASE CanTask
  BY <1>4, CanCalls DEF CanTask
<1>5. CASE WsConnection \/ WsThread
  BY <1>5, WsThreadCalls
<1>6. CASE WsTask
  BY <1>6, WsCalls DEF WsTask
<1>7. CASE Restart \/ PowerLoss
  BY <1>7 DEF Restart, PowerLoss, Restarts, Call
<1>. QED BY <1>1, <1>2, <1>3, <1>4, <1>5, <1>6, <1>7 DEF UpgNext

\* Each step is a step of FwUpg or leaves the core alone.
LEMMA StepRefines == ChanInv /\ [UpgNext]_allVars => [Next]_vars
BY StepCalls, CallOrRequest

-----------------------------------------------------------------------------
(* The state of the channels is kept                                       *)

\* A finish that returned 0 closed the session and vouches for an image.
LEMMA FinishVouches ==
  ASSUME IInv, NEW crc, NEW check, FwUpgFinishEx(crc, check, 0)
  PROVE  ~active' /\ verified' # NoImage
<1>1. FinishVerifies(crc, check, 0) /\ verified' = stream
  BY DEF FwUpgFinishEx, FinishRejected, FinishFailedSession, FinishFlushFails, FinishVerifies
<1>2. stream \in Seq(Byte)
  BY DEF IInv, TypeOK
<1>. QED BY <1>1, <1>2, FwUpgAssumption DEF FinishVerifies, FinishCloses

\* One channel in use is the only one.
LEMMA OnlyOne ==
  ASSUME ChanInv, Cardinality(channels) = 1, NEW c \in channels PROVE channels = {c}
<1>1. IsFiniteSet(AllChannels)
  <2>1. IsFiniteSet({"udp"})
    BY FS_Singleton
  <2>2. IsFiniteSet({"udp"} \cup {"can"})
    BY <2>1, FS_AddElement
  <2>3. IsFiniteSet(({"udp"} \cup {"can"}) \cup {"ws"})
    BY <2>2, FS_AddElement
  <2>4. AllChannels = ({"udp"} \cup {"can"}) \cup {"ws"}
    BY DEF AllChannels
  <2>. QED BY <2>3, <2>4
<1>2. channels \in SUBSET AllChannels
  BY FwUpgradeAssumption DEF ChanInv
<1>3. IsFiniteSet(channels)
  BY <1>1, <1>2, FS_Subset
<1>4. \E x : channels = {x}
  BY <1>3, FS_Singleton
<1>. QED BY <1>4

\* What the other channels' variables say is kept by a step that leaves them.
LEMMA UdpRests == ASSUME ChanInv, UNCHANGED <<udpQ, udp, channels>> PROVE UdpState'
BY DEF ChanInv, UdpState
LEMMA CanRests == ASSUME ChanInv, UNCHANGED <<canQ, can, channels>> PROVE CanState'
BY DEF ChanInv, CanState
LEMMA WsRests == ASSUME ChanInv, UNCHANGED <<wsQ, wsCrc, ws, channels>> PROVE WsState'
BY DEF ChanInv, WsState

\* A request on the way stays good, with one channel, when the core is left alone.
LEMMA CoreRests ==
  ASSUME ChanInv, UNCHANGED <<vars, channels>>,
         udp'.at = "pend" => udp.at = "pend", can'.at = "pend" => can.at = "pend",
         ws'.at = "pend" => ws.at = "pend"
  PROVE  RequestFollows'
<1>1. active' = active /\ verified' = verified /\ channels' = channels
  BY DEF vars
<1>. QED BY <1>1 DEF ChanInv, RequestFollows

\* UDP.
LEMMA UdpKeeps ==
  ASSUME ChanInv, UdpSide, channels' = channels
  PROVE  UdpState' /\ CanState' /\ WsState' /\ RequestFollows'
<1>0. "udp" \in channels /\ UNCHANGED <<canQ, can, canKey, wsActive, wsCrc, wsQ, ws>>
  BY DEF UdpSide, canVars, wsVars
<1>1. CanState' /\ WsState'
  BY <1>0, CanRests, WsRests
<1>3. CASE \E m \in UdpMsgs(channels) : UdpCmd(m)
  <2>1. PICK m \in UdpMsgs(channels) : UdpCmd(m)
    BY <1>3
  <2>2. UNCHANGED <<vars, udp>>
    BY <2>1 DEF UdpCmd
  <2>3. udpQ' \in Seq(UdpMsgs(channels))
    <3>1. udpQ \in Seq(UdpMsgs(channels))
      BY DEF ChanInv, UdpState
    <3>2. Append(udpQ, m) \in Seq(UdpMsgs(channels))
      BY <3>1, AppendProperties
    <3>. QED BY <2>1, <3>1, <3>2 DEF UdpCmd
  <2>4. UdpState'
    BY <2>2, <2>3 DEF ChanInv, UdpState
  <2>5. RequestFollows'
    BY <1>0, <2>2, CoreRests
  <2>. QED BY <1>1, <2>4, <2>5
<1>4. CASE \E reply \in UdpReplies : UdpWorker(reply)
  <2>1. PICK reply \in UdpReplies : UdpWorker(reply)
    BY <1>4
  <2>2. UdpState'
    <3>1. CASE UdpReceive(reply)
      <4>1. udpQ \in Seq(UdpMsgs(channels)) /\ udpQ # <<>>
        BY <3>1 DEF UdpReceive, ChanInv, UdpState
      <4>2. Head(udpQ) \in UdpMsgs(channels) /\ Tail(udpQ) \in Seq(UdpMsgs(channels))
        BY <4>1, HeadTailProperties
      <4>. QED BY <1>0, <3>1, <4>2 DEF UdpReceive, UdpAt, UdpState
    <3>2. CASE UdpStart(reply) \/ UdpAck(reply) \/ UdpSetPending(reply)
      BY <3>2 DEF UdpStart, UdpAck, UdpSetPending, UdpIdle, UdpState, ChanInv
    <3>3. CASE UdpData(reply) \/ UdpDataV2(reply) \/ UdpDataV2Write(reply)
      BY <1>0, <3>3 DEF UdpData, UdpDataV2, UdpDataV2Write, UdpRuns, UdpAt, UdpState, ChanInv
    <3>4. CASE UdpEnd(reply)
      <4>1. /\ udp.at = "run" /\ udp.m.cmd = "END" /\ udpQ' = udpQ
            /\ udp' = UdpAt("pend", udp.m) \/ udp' = UdpIdle
        BY <3>4 DEF UdpEnd, UdpRuns
      <4>2. \/ udp'.at = "pend" /\ udp'.m = udp.m
            \/ udp'.at = "idle"
        BY <4>1 DEF UdpAt, UdpIdle
      <4>. QED BY <1>0, <4>1, <4>2 DEF UdpState, ChanInv
    <3>. QED BY <2>1, <3>1, <3>2, <3>3, <3>4 DEF UdpWorker
  <2>3. RequestFollows'
    <3>. SUFFICES ASSUME Cardinality(channels) = 1, "pend" \in {udp'.at, can'.at, ws'.at}
                  PROVE  ~active' /\ verified' # NoImage
      BY DEF RequestFollows
    <3>1. channels = {"udp"}
      BY <1>0, OnlyOne
    <3>2. can'.at = "idle" /\ ws'.at = "idle"
      BY <1>0, <3>1 DEF ChanInv, CanState, WsState
    <3>3. UdpEnd(reply)
      BY <2>1, <3>2 DEF UdpWorker, UdpReceive, UdpStart, UdpData, UdpDataV2, UdpDataV2Write,
                        UdpAck, UdpSetPending, UdpAt, UdpIdle
    <3>4. FwUpgFinish(udp.m.crc, 0)
      <4>1. PICK rc \in RC : FwUpgFinish(udp.m.crc, rc) /\ (rc # 0 => udp' = UdpIdle)
        BY <3>3 DEF UdpEnd
      <4>2. rc = 0
        BY <3>2, <4>1 DEF UdpIdle
      <4>. QED BY <4>1, <4>2
    <3>. QED BY <3>4, FinishVouches DEF FwUpgFinish, ChanInv
  <2>. QED BY <1>1, <2>2, <2>3
<1>. QED BY <1>3, <1>4 DEF UdpSide

\* The CAN interrupt.
LEMMA CanIsrKeeps ==
  ASSUME ChanInv, CanIsr, channels' = channels
  PROVE  UdpState' /\ CanState' /\ WsState' /\ RequestFollows'
<1>0. UNCHANGED <<udpQ, udp, wsActive, wsCrc, wsQ, ws, vars, can>>
  BY DEF CanIsr, CanFrameIsr, udpVars, wsVars
<1>1. UdpState' /\ WsState' /\ RequestFollows'
  BY <1>0, UdpRests, WsRests, CoreRests
<1>2. CanState'
  <2>1. PICK m \in CanMsgs(channels) : CanFrameIsr(m)
    BY DEF CanIsr
  <2>2. canQ \in Seq(CanMsgs(channels))
    BY DEF ChanInv, CanState
  <2>3. Append(canQ, m) \in Seq(CanMsgs(channels))
    BY <2>2, AppendProperties
  <2>4. canQ' \in Seq(CanMsgs(channels))
    BY <2>1, <2>2, <2>3 DEF CanFrameIsr
  <2>. QED BY <1>0, <2>4 DEF CanState, ChanInv
<1>. QED BY <1>1, <1>2

\* The frame the CAN task holds.
LEMMA CanTaskState ==
  ASSUME ChanInv, "can" \in channels, channels' = channels, NEW reply, CanWorker(reply)
  PROVE  CanState'
<1>0. /\ canQ \in Seq(CanMsgs(channels)) /\ <<>> \in Seq(CanMsgs(channels))
      /\ can.at # "idle" => can.m \in CanMsgs(channels)
  BY EmptySeq DEF ChanInv, CanState
<1>1. CASE CanReceive(reply)
  <2>1. Head(canQ) \in CanMsgs(channels) /\ Tail(canQ) \in Seq(CanMsgs(channels))
    BY <1>0, <1>1, HeadTailProperties DEF CanReceive
  <2>. QED BY <1>1, <2>1 DEF CanReceive, CanAt, CanState
<1>2. CASE \/ CanShortCmd(reply) \/ CanVersion(reply) \/ CanUnknownCmd(reply)
           \/ CanSetPending(reply)
           \/ CanDataTotal(reply) \/ CanKeyhash(reply) \/ CanOther(reply)
  <2>1. can' = CanIdle /\ canQ' = canQ
    BY <1>2 DEF CanShortCmd, CanVersion, CanUnknownCmd, CanSetPending, CanDataTotal, CanKeyhash,
                CanOther, CanDone
  <2>. QED BY <1>0, <2>1 DEF CanIdle, CanState
<1>3. CASE CanStartAbort(reply)
  <2>1. /\ can' = CanAt("start", can.m, 0) /\ canQ' = canQ /\ can.at = "run"
        /\ can.m.id = "cmd" /\ can.m.dlc = 8 /\ can.m.cmd = "START"
    BY <1>3 DEF CanStartAbort, CanContinue, CanRunsCmd, CanRuns
  <2>. QED BY <1>0, <2>1 DEF CanAt, CanState
<1>4. CASE CanStartOpen(reply)
  <2>1. can' = CanIdle /\ canQ' \in {canQ, <<>>}
    BY <1>4 DEF CanStartOpen, CanDone
  <2>. QED BY <1>0, <2>1 DEF CanIdle, CanState
<1>5. CASE CanConfirm(reply)
  <2>1. /\ can' = CanAt("finish", can.m, 0) \/ can' = CanIdle
        /\ canQ' \in {canQ, <<>>} /\ can.at = "run"
    BY <1>5 DEF CanConfirm, CanContinue, CanDone, CanRunsCmd, CanRuns
  <2>2. (can'.at = "finish" /\ can'.m = can.m) \/ can'.at = "idle"
    BY <2>1 DEF CanAt, CanIdle
  <2>. QED BY <1>0, <2>1, <2>2 DEF CanState
<1>6. CASE CanConfirmFinish(reply)
  <2>1. /\ can' = CanAt("pend", can.m, 0) \/ can' = CanIdle
        /\ canQ' = canQ /\ can.at = "finish"
    BY <1>6 DEF CanConfirmFinish, CanContinue, CanDone
  <2>2. (can'.at = "pend" /\ can'.m = can.m) \/ can'.at = "idle"
    BY <2>1 DEF CanAt, CanIdle
  <2>. QED BY <1>0, <2>1, <2>2 DEF CanState
<1>7. CASE CanData(reply)
  <2>1. /\ can' = CanAt("write", can.m, 0) \/ can' = CanIdle
        /\ canQ' = canQ /\ can.at = "run" /\ can.m.id = "data"
    BY <1>7 DEF CanData, CanContinue, CanDone, CanRuns
  <2>2. (can'.at = "write" /\ can'.m = can.m) \/ can'.at = "idle"
    BY <2>1 DEF CanAt, CanIdle
  <2>. QED BY <1>0, <2>1, <2>2 DEF CanState
<1>8. CASE CanDataWrite(reply)
  <2>1. /\ can' = CanAt("got", can.m, 0) \/ can' = CanIdle
        /\ canQ' = canQ /\ can.at = "write"
    BY <1>8 DEF CanDataWrite, CanContinue, CanDone
  <2>2. (can'.at = "got" /\ can'.m = can.m) \/ can'.at = "idle"
    BY <2>1 DEF CanAt, CanIdle
  <2>. QED BY <1>0, <2>1, <2>2 DEF CanState
<1>9. CASE CanDataGot(reply)
  <2>1. can' = CanAt("total", can.m, received) /\ canQ' = canQ /\ can.at = "got"
    BY <1>9 DEF CanDataGot, CanContinue
  <2>. QED BY <1>0, <2>1 DEF CanAt, CanState
<1>. QED BY <1>1, <1>2, <1>3, <1>4, <1>5, <1>6, <1>7, <1>8, <1>9 DEF CanWorker

\* Where its steps lead.
LEMMA CanLabels ==
  ASSUME NEW reply, CanWorker(reply)
  PROVE  \/ can'.at \in {"idle", "run", "start", "finish", "write"}
         \/ CanConfirmFinish(reply) /\ can'.at = "pend"
         \/ CanDataWrite(reply) /\ can'.at = "got"
         \/ CanDataGot(reply) /\ can'.at = "total"
<1>1. CASE CanReceive(reply) \/ CanStartAbort(reply)
  BY <1>1 DEF CanReceive, CanStartAbort, CanContinue, CanAt
<1>2. CASE CanStartOpen(reply)
  BY <1>2 DEF CanStartOpen, CanDone, CanIdle
<1>3. CASE \/ CanShortCmd(reply) \/ CanVersion(reply) \/ CanUnknownCmd(reply)
           \/ CanSetPending(reply)
           \/ CanDataTotal(reply) \/ CanKeyhash(reply) \/ CanOther(reply)
  BY <1>3 DEF CanShortCmd, CanVersion, CanUnknownCmd, CanSetPending, CanDataTotal, CanKeyhash,
              CanOther, CanDone, CanIdle
<1>4. CASE CanConfirm(reply) \/ CanData(reply)
  BY <1>4 DEF CanConfirm, CanData, CanContinue, CanDone, CanAt, CanIdle
<1>5. CASE CanConfirmFinish(reply)
  <2>1. can' = CanAt("pend", can.m, 0) \/ can' = CanIdle
    BY <1>5 DEF CanConfirmFinish, CanContinue, CanDone
  <2>. QED BY <1>5, <2>1 DEF CanAt, CanIdle
<1>6. CASE CanDataWrite(reply)
  BY <1>6 DEF CanDataWrite, CanContinue, CanDone, CanAt, CanIdle
<1>7. CASE CanDataGot(reply)
  BY <1>7 DEF CanDataGot, CanContinue, CanAt
<1>. QED BY <1>1, <1>2, <1>3, <1>4, <1>5, <1>6, <1>7 DEF CanWorker

\* The CAN task.
LEMMA CanKeeps ==
  ASSUME ChanInv, CanTask, channels' = channels
  PROVE  UdpState' /\ CanState' /\ WsState' /\ RequestFollows'
<1>0. "can" \in channels /\ UNCHANGED <<udpQ, udp, wsActive, wsCrc, wsQ, ws>>
  BY DEF CanTask, udpVars, wsVars
<1>r. PICK reply \in CanReplies : CanWorker(reply)
  BY DEF CanTask
<1>1. UdpState' /\ WsState' /\ CanState'
  BY <1>0, <1>r, UdpRests, WsRests, CanTaskState
<1>2. RequestFollows'
  <2>. SUFFICES ASSUME Cardinality(channels) = 1, "pend" \in {udp'.at, can'.at, ws'.at}
                PROVE  ~active' /\ verified' # NoImage
    BY DEF RequestFollows
  <2>1. channels = {"can"}
    BY <1>0, OnlyOne
  <2>2. can'.at = "pend"
    BY <1>0, <2>1 DEF ChanInv, UdpState, WsState
  <2>3. CanConfirmFinish(reply)
    BY <1>r, <2>2, CanLabels
  <2>4. FwUpgFinishEx(0, FALSE, 0)
    <3>1. PICK rc \in RC : FwUpgFinishEx(0, FALSE, rc) /\ (rc # 0 => can' = CanIdle)
      BY <2>3 DEF CanConfirmFinish, CanDone
    <3>2. rc = 0
      BY <2>2, <3>1 DEF CanIdle
    <3>. QED BY <3>1, <3>2
  <2>. QED BY <2>4, FinishVouches DEF ChanInv
<1>. QED BY <1>1, <1>2

\* The WebSocket in the tcpip thread: with no other channel a frame is not written
\* between the finish, which closed the session, and the request.
LEMMA WsThreadKeeps ==
  ASSUME ChanInv, WsThread \/ WsConnection, channels' = channels
  PROVE  UdpState' /\ CanState' /\ WsState' /\ RequestFollows'
<1>0. "ws" \in channels /\ UNCHANGED <<udpQ, udp, canQ, can, canKey, ws>>
  BY DEF WsThread, WsConnection, WsAttach, WsClose, WsFwStart, WsFwEnd, WsBinary, udpVars, canVars
<1>1. UdpState' /\ CanState'
  BY <1>0, UdpRests, CanRests
<1>3. wsQ \in Seq(WsOps) /\ wsCrc \in CrcValues /\ 0 \in CrcValues
  BY FwUpgradeAssumption DEF ChanInv, WsState
<1>4. wsQ' \in Seq(WsOps) /\ wsCrc' \in CrcValues
  <2>1. CASE WsAttach \/ WsClose
    BY <1>3, <2>1 DEF WsAttach, WsClose
  <2>2. CASE \E size \in WsSizes, kh \in WsKeys : WsFwStart(size, kh)
    <3>1. PICK size \in WsSizes, kh \in WsKeys : WsFwStart(size, kh)
      BY <2>2
    <3>. DEFINE op == [kind |-> "START", total |-> size, kh |-> kh]
    <3>2. op \in WsOps
      BY FwUpgradeAssumption DEF WsOps
    <3>3. Append(wsQ, op) \in Seq(WsOps)
      BY <1>3, <3>2, AppendProperties
    <3>. QED BY <1>3, <3>1, <3>3 DEF WsFwStart, WsQueue
  <2>3. CASE WsFwEnd
    <3>. DEFINE op == [kind |-> "END", crc |-> wsCrc]
    <3>1. op \in WsOps
      BY <1>3 DEF WsOps
    <3>2. Append(wsQ, op) \in Seq(WsOps)
      BY <1>3, <3>1, AppendProperties
    <3>. QED BY <1>3, <2>3, <3>2 DEF WsFwEnd, WsQueue
  <2>4. CASE \E data \in WsBlocks : WsBinary(data)
    <3>1. PICK data \in WsBlocks : WsBinary(data)
      BY <2>4
    <3>2. Crc16(wsCrc, data) \in CrcValues
      BY <1>3, FwUpgradeAssumption
    <3>. QED BY <1>3, <3>1, <3>2 DEF WsBinary
  <2>. QED BY <2>1, <2>2, <2>3, <2>4 DEF WsThread, WsConnection
<1>5. WsState'
  BY <1>0, <1>4 DEF WsState, ChanInv
<1>6. RequestFollows'
  <2>1. CASE UNCHANGED vars
    BY <1>0, <2>1, CoreRests
  <2>2. CASE ~UNCHANGED vars
    <3>1. active
      BY <2>2 DEF WsThread, WsConnection, WsAttach, WsClose, WsFwStart, WsFwEnd, WsBinary
    <3>. QED BY <1>0, <3>1 DEF RequestFollows, ChanInv
  <2>. QED BY <2>1, <2>2
<1>. QED BY <1>1, <1>5, <1>6

\* The WebSocket worker.
LEMMA WsKeeps ==
  ASSUME ChanInv, WsTask, channels' = channels
  PROVE  UdpState' /\ CanState' /\ WsState' /\ RequestFollows'
<1>0. "ws" \in channels /\ UNCHANGED <<udpQ, udp, canQ, can, canKey>> /\ WsWorker
  BY DEF WsTask, udpVars, canVars
<1>1. UdpState' /\ CanState'
  BY <1>0, UdpRests, CanRests
<1>3. wsQ \in Seq(WsOps) /\ wsCrc \in CrcValues /\ (ws.at # "idle" => ws.op \in WsOps)
  BY DEF ChanInv, WsState
<1>4. wsCrc' = wsCrc
  BY <1>0 DEF WsWorker, WsReceive, WsStart, WsEnd, WsEndSize, WsEndAbort, WsEndFinish,
              WsSetPending, WsRequestReboot, WsKeepsThread
<1>5. WsState'
  <2>1. CASE WsReceive
    <3>1. Head(wsQ) \in WsOps /\ Tail(wsQ) \in Seq(WsOps)
      BY <1>3, <2>1, HeadTailProperties DEF WsReceive
    <3>. QED BY <1>0, <1>3, <1>4, <2>1, <3>1 DEF WsReceive, WsAt, WsState
  <2>2. CASE WsStart \/ WsEndAbort \/ WsRequestReboot
    BY <1>3, <1>4, <2>2 DEF WsStart, WsEndAbort, WsRequestReboot, WsKeepsThread, WsIdle, WsState
  <2>3. CASE WsEnd
    BY <1>0, <1>3, <1>4, <2>3 DEF WsEnd, WsKeepsThread, WsAt, WsState
  <2>4. CASE WsEndSize
    BY <1>0, <1>3, <1>4, <2>4 DEF WsEndSize, WsKeepsThread, WsAt, WsState, ChanInv
  <2>5. CASE WsEndFinish \/ WsSetPending
    <3>1. /\ ws.at \in {"finish", "pend"} /\ wsQ' = wsQ
          /\ ws' = WsIdle \/ ws' = WsAt("pend", ws.op) \/ ws' = WsAt("reboot", ws.op)
      BY <2>5 DEF WsEndFinish, WsSetPending, WsKeepsThread
    <3>2. ws'.at = "idle" \/ (ws'.at \in {"pend", "reboot"} /\ ws'.op = ws.op)
      BY <3>1 DEF WsAt, WsIdle
    <3>. QED BY <1>0, <1>3, <1>4, <3>1, <3>2 DEF WsState, ChanInv
  <2>. QED BY <1>0, <2>1, <2>2, <2>3, <2>4, <2>5 DEF WsWorker
<1>6. RequestFollows'
  <2>. SUFFICES ASSUME Cardinality(channels) = 1, "pend" \in {udp'.at, can'.at, ws'.at}
                PROVE  ~active' /\ verified' # NoImage
    BY DEF RequestFollows
  <2>1. channels = {"ws"}
    BY <1>0, OnlyOne
  <2>2. ws'.at = "pend"
    BY <1>0, <2>1 DEF ChanInv, UdpState, CanState
  <2>3. WsEndFinish
    <3>1. WsReceive => ws'.at = "run"
      BY DEF WsReceive, WsAt
    <3>2. WsStart \/ WsEndAbort \/ WsRequestReboot => ws'.at = "idle"
      BY DEF WsStart, WsEndAbort, WsRequestReboot, WsIdle
    <3>3. WsEnd \/ WsEndSize => ws'.at \in {"abort", "size", "finish"}
      BY DEF WsEnd, WsEndSize, WsAt
    <3>4. WsSetPending => ws'.at \in {"reboot", "idle"}
      <4>1. WsSetPending => ws' = WsAt("reboot", ws.op) \/ ws' = WsIdle
        BY DEF WsSetPending
      <4>. QED BY <4>1 DEF WsAt, WsIdle
    <3>. QED BY <1>0, <2>2, <3>1, <3>2, <3>3, <3>4 DEF WsWorker
  <2>4. FwUpgFinish(ws.op.crc, 0)
    <3>1. PICK rc \in RC : FwUpgFinish(ws.op.crc, rc) /\ (rc # 0 => ws' = WsIdle)
      BY <2>3 DEF WsEndFinish
    <3>2. rc = 0
      BY <2>2, <3>1 DEF WsIdle
    <3>. QED BY <3>1, <3>2
  <2>. QED BY <2>4, FinishVouches DEF FwUpgFinish, ChanInv
<1>. QED BY <1>1, <1>5, <1>6

\* A reset.
LEMMA RestartKeeps ==
  ASSUME ChanInv, Restarts, channels' = channels
  PROVE  UdpState' /\ CanState' /\ WsState' /\ RequestFollows'
<1>1. /\ udpQ' = <<>> /\ canQ' = <<>> /\ wsQ' = <<>> /\ wsCrc' = 0
      /\ udp'.at = "idle" /\ can'.at = "idle" /\ ws'.at = "idle"
  BY DEF Restarts, UdpReset, CanReset, WsReset, UdpIdle, CanIdle, WsIdle
<1>2. /\ <<>> \in Seq(UdpMsgs(channels)) /\ <<>> \in Seq(CanMsgs(channels)) /\ <<>> \in Seq(WsOps)
      /\ 0 \in CrcValues
  BY EmptySeq, FwUpgradeAssumption
<1>. QED BY <1>1, <1>2 DEF UdpState, CanState, WsState, RequestFollows

\* No step of the composition leaves the invariant.
LEMMA ChanStep == ChanInv /\ [UpgNext]_allVars => ChanInv'
<1>. SUFFICES ASSUME ChanInv, [UpgNext]_allVars PROVE ChanInv'
  OBVIOUS
<1>1. IInv'
  BY StepRefines, InvStep DEF ChanInv
<1>2. channels' = channels
  BY DEF UpgNext, allVars
<1>3. UdpState' /\ CanState' /\ WsState' /\ RequestFollows'
  <2>1. CASE UNCHANGED allVars
    <3>1. UNCHANGED <<vars, udpQ, udp, canQ, can, wsQ, wsCrc, ws>>
      BY <2>1 DEF allVars, udpVars, canVars, wsVars
    <3>. QED BY <1>2, <3>1, UdpRests, CanRests, WsRests, CoreRests
  <2>2. CASE UdpSide
    BY <1>2, <2>2, UdpKeeps
  <2>3. CASE CanIsr
    BY <1>2, <2>3, CanIsrKeeps
  <2>4. CASE CanTask
    BY <1>2, <2>4, CanKeeps
  <2>5. CASE WsConnection \/ WsThread
    BY <1>2, <2>5, WsThreadKeeps
  <2>6. CASE WsTask
    BY <1>2, <2>6, WsKeeps
  <2>7. CASE Restart \/ PowerLoss
    BY <1>2, <2>7, RestartKeeps DEF Restart, PowerLoss
  <2>. QED BY <2>1, <2>2, <2>3, <2>4, <2>5, <2>6, <2>7 DEF UpgNext
<1>. QED BY <1>1, <1>2, <1>3 DEF ChanInv

\* After power-on.
LEMMA ChanStart == UpgInit => ChanInv
<1>. SUFFICES ASSUME UpgInit PROVE ChanInv
  OBVIOUS
<1>1. IInv
  BY InitType DEF UpgInit, Init, IInv, SlotMatchesStream, AheadErased, VerifiedInSlot
<1>2. /\ <<>> \in Seq(UdpMsgs(channels)) /\ <<>> \in Seq(CanMsgs(channels)) /\ <<>> \in Seq(WsOps)
      /\ 0 \in CrcValues
  BY EmptySeq, FwUpgradeAssumption
<1>3. /\ udpQ = <<>> /\ canQ = <<>> /\ wsQ = <<>> /\ wsCrc = 0 /\ channels \in ChannelSets
      /\ udp.at = "idle" /\ can.at = "idle" /\ ws.at = "idle"
  BY DEF UpgInit, UdpInit, CanInit, WsInit, UdpIdle, CanIdle, WsIdle
<1>. QED BY <1>1, <1>2, <1>3
         DEF ChanInv, UdpState, CanState, WsState, RequestFollows

\* It holds in every behaviour.
LEMMA ChanInductive == UpgSpec => []ChanInv
BY ChanStart, ChanStep, PTL DEF UpgSpec

-----------------------------------------------------------------------------
(* The theorems                                                            *)

\* However the tasks of the three channels interleave, the core sees its own calls.
LEMMA ChannelsCallCore == UpgSpec => Spec
<1>1. UpgInit => Init
  BY DEF UpgInit
<1>. QED BY <1>1, StepRefines, ChanInductive, PTL DEF UpgSpec, Spec

\* So what is proved of the core holds for the device with all its channels: the
\* slot holds what was accepted, nothing is programmed twice, and success is
\* reported only for what is in the slot.
THEOREM DeviceKeepsImage == UpgSpec => [](SlotMatchesStream /\ AheadErased /\ VerifiedInSlot)
<1>1. IInv => SlotMatchesStream /\ AheadErased /\ VerifiedInSlot
  BY DEF IInv
<1>. QED BY <1>1, ChannelsCallCore, Inductive, PTL

\* With hosts on one channel the trailer is written only while the slot holds the
\* image the finish before it verified: nothing of that channel comes between
\* fw_upg_finish and boot_set_pending, though the lock is free.
THEOREM RequestIsVerified == UpgSpec => PendingVerifiedAlone
<1>1. ChanInv /\ [UpgNext]_allVars => [Cardinality(channels) = 1 => RequestVerified]_allVars
  <2>. SUFFICES ASSUME ChanInv, [UpgNext]_allVars, Cardinality(channels) = 1,
                       trailer' \in Pending, trailer \notin Pending
                PROVE  verified # NoImage
    BY DEF RequestVerified
  <2>1. "pend" \in {udp.at, can.at, ws.at}
    BY StepCalls, CallMakesNoRequest
  <2>. QED BY <2>1 DEF ChanInv, RequestFollows
<1>. QED BY <1>1, ChanInductive, PTL DEF UpgSpec, PendingVerifiedAlone

=============================================================================
