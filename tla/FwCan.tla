------------------------------- MODULE FwCan -------------------------------
(***************************************************************************)
(* The CAN upgrade channel, src/fw/fw_can.c.  The receive interrupt queues *)
(* a frame; the task executes it with calls of the upgrade core, each a    *)
(* step of its own.  Frames are records: a command (id 0x101), image data  *)
(* (0x103) or one chunk of the keyhash (0x104).                            *)
(***************************************************************************)
EXTENDS FwUpg

CONSTANTS
  CanQDepth,    \* FW_Q_DEPTH
  KeyChunks,    \* the sequence numbers of the keyhash frames
  AckInterval,  \* ACK_INTERVAL
  NoCanReply

ASSUME FwCanAssumption ==
  /\ CanQDepth \in Nat \ {0}
  /\ AckInterval \in Nat \ {0}

VARIABLES
  canQ,         \* fw_q
  can,          \* the task: where it is, the frame m, a local value
  canKey        \* rx_keybuf and key_chunk_mask: per chunk missing, good or bad

canVars == <<canQ, can, canKey>>

CanIdle == [at |-> "idle"]
CanAt(label, m, val) == [at |-> label, m |-> m, val |-> val]
NoKey == [k \in KeyChunks |-> "none"]

CanInit == canQ = <<>> /\ can = CanIdle /\ canKey = NoKey

\* The frame is handled and answered with a code; the offset an OFFSET or
\* UPDATE_SUCCESS carries is can.val.
CanDone(reply, code) == can' = CanIdle /\ reply = code
CanContinue(reply, label, val) == can' = CanAt(label, can.m, val) /\ reply = NoCanReply

-----------------------------------------------------------------------------
\* fw_can_frame_isr: queue the frame, or drop it when the queue is full.
CanFrameIsr(m) ==
  /\ canQ' = IF Len(canQ) < CanQDepth THEN Append(canQ, m) ELSE canQ
  /\ UNCHANGED <<vars, can, canKey>>

CanReceive(reply) ==
  /\ can.at = "idle" /\ canQ # <<>>
  /\ can' = CanAt("run", Head(canQ), 0)
  /\ canQ' = Tail(canQ)
  /\ reply = NoCanReply
  /\ UNCHANGED <<vars, canKey>>

CanRuns(id) == can.at = "run" /\ can.m.id = id
CanRunsCmd(cmd) == CanRuns("cmd") /\ can.m.dlc = 8 /\ can.m.cmd = cmd

\* A command frame must have eight bytes.
CanShortCmd(reply) ==
  /\ CanRuns("cmd") /\ can.m.dlc # 8
  /\ CanDone(reply, "FLASH_ERROR")
  /\ UNCHANGED <<vars, canQ, canKey>>

\* START aborts whatever session is open, its own or another channel's ...
CanStartAbort(reply) ==
  /\ CanRunsCmd("START")
  /\ FwUpgAbort
  /\ CanContinue(reply, "start", 0)
  /\ UNCHANGED <<canQ, canKey>>

\* ... and opens a new one.  A keyhash that arrived completely is compared and
\* used up.  After a successful start the queued frames are discarded.
CanStartOpen(reply) ==
  LET complete == \A k \in KeyChunks : canKey[k] # "none"
      kh == IF ~complete THEN "none"
            ELSE IF \A k \in KeyChunks : canKey[k] = "good" THEN "good" ELSE "bad"
  IN /\ can.at = "start"
     /\ canKey' = IF complete THEN NoKey ELSE canKey
     /\ \E rc \in RC :
          /\ FwUpgStart(can.m.arg, kh, rc)
          /\ CASE rc = 0  -> CanDone(reply, "OFFSET") /\ canQ' = <<>>
               [] rc = -2 -> CanDone(reply, "KEYHASH_ERROR") /\ UNCHANGED canQ
               [] OTHER   -> CanDone(reply, "FLASH_ERROR") /\ UNCHANGED canQ

\* CONFIRM: with a session open (read without the lock) discard the queued
\* frames, then finish it without a CRC.
CanConfirm(reply) ==
  /\ CanRunsCmd("CONFIRM")
  /\ IF active
     THEN CanContinue(reply, "finish", 0) /\ canQ' = <<>>
     ELSE CanDone(reply, "TRANSFER_ERROR") /\ UNCHANGED canQ
  /\ UNCHANGED <<vars, canKey>>

\* Variant with a fault: the result of the finish is not looked at.
CanConfirmFinishIgnoresRc(reply) ==
  /\ can.at = "finish"
  /\ \E rc \in RC : FwUpgFinishEx(0, FALSE, rc)
  /\ CanContinue(reply, "pend", 0)
  /\ UNCHANGED <<canQ, canKey>>

CanConfirmFinish(reply) ==
  /\ can.at = "finish"
  /\ \E rc \in RC :
       /\ FwUpgFinishEx(0, FALSE, rc)
       /\ IF rc = 0 THEN CanContinue(reply, "pend", 0)
                    ELSE CanDone(reply, "TRANSFER_ERROR")
  /\ UNCHANGED <<canQ, canKey>>

CanSetPending(reply) ==
  /\ can.at = "pend"
  /\ \E rc \in RC :
       /\ BootSetPending(can.m.arg # 0, rc)
       /\ CanDone(reply, IF rc = 0 THEN "CONFIRM" ELSE "TRANSFER_ERROR")
  /\ UNCHANGED <<canQ, canKey>>

CanVersion(reply) ==
  /\ CanRunsCmd("VERSION")
  /\ CanDone(reply, "VERSION")
  /\ UNCHANGED <<vars, canQ, canKey>>

\* A command without a case of its own is not answered.
CanUnknownCmd(reply) ==
  /\ CanRuns("cmd") /\ can.m.dlc = 8
  /\ can.m.cmd \notin {"START", "CONFIRM", "VERSION", "REBOOT"}
  /\ CanDone(reply, NoCanReply)
  /\ UNCHANGED <<vars, canQ, canKey>>

\* The task itself resets the device: the composition resets everything.
CanReboots == CanRunsCmd("REBOOT")

\* Image data, accepted for whatever session is open.
CanData(reply) ==
  /\ CanRuns("data")
  /\ IF active THEN CanContinue(reply, "write", 0)
               ELSE CanDone(reply, "TRANSFER_ERROR")
  /\ UNCHANGED <<vars, canQ, canKey>>

CanDataWrite(reply) ==
  /\ can.at = "write"
  /\ \E rc \in RC :
       /\ FwUpgWrite(can.m.data, rc)
       /\ IF rc = 0 THEN CanContinue(reply, "got", 0)
                    ELSE CanDone(reply, "FLASH_ERROR")
  /\ UNCHANGED <<canQ, canKey>>

\* got = fw_upg_received(), then fw_upg_total() under the lock again.
CanDataGot(reply) ==
  /\ can.at = "got"
  /\ CanContinue(reply, "total", received)
  /\ UNCHANGED <<vars, canQ, canKey>>

CanDataTotal(reply) ==
  /\ can.at = "total"
  /\ can' = CanIdle
  /\ reply = CASE can.val = announced -> "UPDATE_SUCCESS"
               [] can.val # announced /\ can.val % AckInterval = 0 -> "OFFSET"
               [] OTHER -> NoCanReply
  /\ UNCHANGED <<vars, canQ, canKey>>

\* A keyhash chunk; one out of range or too short is ignored.
CanKeyhash(reply) ==
  /\ CanRuns("key")
  /\ canKey' = IF can.m.seq \in KeyChunks /\ can.m.fits
               THEN [canKey EXCEPT ![can.m.seq] = can.m.val] ELSE canKey
  /\ can' = CanIdle
  /\ reply = NoCanReply
  /\ UNCHANGED <<vars, canQ>>

\* Frames of other identifiers pass the filter too; they are dropped here.
CanOther(reply) ==
  /\ CanRuns("other")
  /\ CanDone(reply, NoCanReply)
  /\ UNCHANGED <<vars, canQ, canKey>>

CanWorker(reply) ==
  \/ CanReceive(reply) \/ CanShortCmd(reply)
  \/ CanStartAbort(reply) \/ CanStartOpen(reply)
  \/ CanConfirm(reply) \/ CanConfirmFinish(reply) \/ CanSetPending(reply)
  \/ CanVersion(reply) \/ CanUnknownCmd(reply)
  \/ CanData(reply) \/ CanDataWrite(reply) \/ CanDataGot(reply) \/ CanDataTotal(reply)
  \/ CanKeyhash(reply) \/ CanOther(reply)

CanReset == canQ' = <<>> /\ can' = CanIdle /\ canKey' = NoKey

CanReplies ==
  {NoCanReply, "OFFSET", "UPDATE_SUCCESS", "VERSION", "CONFIRM", "FLASH_ERROR",
   "TRANSFER_ERROR", "KEYHASH_ERROR"}

=============================================================================
