------------------------------- MODULE FwUdp -------------------------------
(***************************************************************************)
(* The UDP upgrade channel, src/fw/fw_udp.c.  fw_udp_cmd runs in the       *)
(* tcpip thread and queues a command; the worker task executes it with     *)
(* calls of the upgrade core.  Between two of those calls the core's lock  *)
(* is free, so each call is a step of its own.                             *)
(*                                                                         *)
(* A datagram is a record; those fw_udp_cmd refuses by their length change *)
(* nothing and are left out.  The parameter reply of a worker step is the  *)
(* datagram it answers with, or NoReply.                                   *)
(***************************************************************************)
EXTENDS FwUpg

CONSTANTS
  UdpQDepth,    \* FW_Q_DEPTH
  NoReply

ASSUME FwUdpAssumption == UdpQDepth \in Nat \ {0}

VARIABLES
  udpQ,         \* fw_q
  udp           \* the worker: where it is in fw_task and the message m

udpVars == <<udpQ, udp>>

UdpIdle == [at |-> "idle"]
UdpAt(label, m) == [at |-> label, m |-> m]

UdpInit == udpQ = <<>> /\ udp = UdpIdle

-----------------------------------------------------------------------------
\* fw_udp_cmd: queue the command, or drop it when the queue is full.
UdpCmd(m) ==
  /\ udpQ' = IF Len(udpQ) < UdpQDepth THEN Append(udpQ, m) ELSE udpQ
  /\ UNCHANGED <<vars, udp>>

UdpReceive(reply) ==
  /\ udp.at = "idle" /\ udpQ # <<>>
  /\ udp' = UdpAt("run", Head(udpQ))
  /\ udpQ' = Tail(udpQ)
  /\ reply = NoReply
  /\ UNCHANGED vars

UdpRuns(cmd) == udp.at = "run" /\ udp.m.cmd = cmd

\* [01][status]: 1 open, 2 keyhash mismatch, 0 any other refusal.
UdpStart(reply) ==
  /\ UdpRuns("START")
  /\ \E rc \in RC :
       /\ FwUpgStart(udp.m.size, udp.m.kh, rc)
       /\ reply = [cmd |-> "START", arg |-> IF rc = 0 THEN 1 ELSE IF rc = -2 THEN 2 ELSE 0]
  /\ udp' = UdpIdle
  /\ UNCHANGED udpQ

\* Legacy DATA is written as it comes; the result of the write is ignored.
UdpData(reply) ==
  /\ UdpRuns("DATA")
  /\ \E rc \in RC : FwUpgWrite(udp.m.data, rc)
  /\ udp' = UdpAt("ack", udp.m)
  /\ reply = NoReply
  /\ UNCHANGED udpQ

\* Variant with a fault: the offset is not compared.
UdpDataV2AnyOffset(reply) ==
  /\ UdpRuns("DATA_V2")
  /\ udp' = UdpAt("v2write", udp.m)
  /\ reply = NoReply
  /\ UNCHANGED <<vars, udpQ>>

\* DATA_V2 is written only at the offset the session expects.
UdpDataV2(reply) ==
  /\ UdpRuns("DATA_V2")
  /\ udp' = UdpAt(IF udp.m.off = received THEN "v2write" ELSE "ack", udp.m)
  /\ reply = NoReply
  /\ UNCHANGED <<vars, udpQ>>

UdpDataV2Write(reply) ==
  /\ udp.at = "v2write"
  /\ \E rc \in RC : FwUpgWrite(udp.m.data, rc)
  /\ udp' = UdpAt("ack", udp.m)
  /\ reply = NoReply
  /\ UNCHANGED udpQ

\* Variant with a fault: the end of the block is acknowledged, written or not.
UdpAckOfBlock(reply) ==
  /\ udp.at = "ack"
  /\ reply = [cmd |-> udp.m.cmd,
              arg |-> IF udp.m.cmd = "DATA_V2" THEN udp.m.off + Len(udp.m.data)
                                               ELSE received]
  /\ udp' = UdpIdle
  /\ UNCHANGED <<vars, udpQ>>

\* Both data commands answer with the bytes received by now.
UdpAck(reply) ==
  /\ udp.at = "ack"
  /\ reply = [cmd |-> udp.m.cmd, arg |-> received]
  /\ udp' = UdpIdle
  /\ UNCHANGED <<vars, udpQ>>

UdpEndReply(ok) == [cmd |-> "END", arg |-> IF ok THEN 1 ELSE 0]

UdpEnd(reply) ==
  /\ UdpRuns("END")
  /\ \E rc \in RC :
       /\ FwUpgFinish(udp.m.crc, rc)
       /\ IF rc = 0
          THEN udp' = UdpAt("pend", udp.m) /\ reply = NoReply
          ELSE udp' = UdpIdle /\ reply = UdpEndReply(FALSE)
  /\ UNCHANGED udpQ

\* After the lock is released: permanent unless the host asked for a test.
UdpSetPending(reply) ==
  /\ udp.at = "pend"
  /\ \E rc \in RC :
       /\ BootSetPending(~udp.m.test, rc)
       /\ reply = UdpEndReply(rc = 0)
  /\ udp' = UdpIdle
  /\ UNCHANGED udpQ

UdpWorker(reply) ==
  \/ UdpReceive(reply)
  \/ UdpStart(reply)
  \/ UdpData(reply)
  \/ UdpDataV2(reply)
  \/ UdpDataV2Write(reply)
  \/ UdpAck(reply)
  \/ UdpEnd(reply)
  \/ UdpSetPending(reply)

UdpReset == udpQ' = <<>> /\ udp' = UdpIdle

\* The answers a worker step can give.
UdpReplies ==
  {NoReply} \cup [cmd : {"START", "END"}, arg : 0 .. 2]
            \cup [cmd : {"DATA", "DATA_V2"}, arg : 0 .. SlotSize]

=============================================================================
