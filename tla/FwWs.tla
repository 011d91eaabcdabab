-------------------------------- MODULE FwWs --------------------------------
(***************************************************************************)
(* The WebSocket upgrade channel, src/web/ws.c: the commands fw_start and  *)
(* fw_end and the binary frames, in the tcpip thread, and the worker that  *)
(* executes start and end.  Binary frames are written by the tcpip thread  *)
(* itself, so the two run side by side.  Answers go to the page and change *)
(* no state.                                                               *)
(***************************************************************************)
EXTENDS FwUpg

CONSTANTS WsQDepth    \* depth of fw_op_q

ASSUME FwWsAssumption == WsQDepth \in Nat \ {0}

VARIABLES
  wsActive,     \* ws.active: a connection is attached
  wsCrc,        \* ws.fw_crc: CRC of the binary frames that were written
  wsQ,          \* fw_op_q
  ws,           \* the worker: where it is in ws_fw_task, its op
  rebootPending \* the flag the heartbeat task polls (reboot.c)

wsVars == <<wsActive, wsCrc, wsQ, ws, rebootPending>>

WsIdle == [at |-> "idle"]
WsAt(label, op) == [at |-> label, op |-> op]

WsInit ==
  /\ wsActive = FALSE /\ wsCrc = 0
  /\ wsQ = <<>> /\ ws = WsIdle /\ rebootPending = FALSE

-----------------------------------------------------------------------------
(* tcpip thread                                                            *)

\* ws_attach: the only place that resets the CRC.
WsAttach ==
  /\ ~wsActive
  /\ wsActive' = TRUE
  /\ wsCrc' = 0
  /\ UNCHANGED <<vars, wsQ, ws, rebootPending>>

\* ws_close_session, ws_detach: the upgrade session is left as it is.
WsClose ==
  /\ wsActive
  /\ wsActive' = FALSE
  /\ UNCHANGED <<vars, wsCrc, wsQ, ws, rebootPending>>

WsQueue(op) == wsQ' = IF Len(wsQ) < WsQDepth THEN Append(wsQ, op) ELSE wsQ

WsFwStart(size, kh) ==
  /\ wsActive
  /\ size > 0
  /\ WsQueue([kind |-> "START", total |-> size, kh |-> kh])
  /\ UNCHANGED <<vars, wsActive, wsCrc, ws, rebootPending>>

\* fw_end is queued with the CRC as it is now, if any session is open.
WsFwEnd ==
  /\ wsActive
  /\ active
  /\ WsQueue([kind |-> "END", crc |-> wsCrc])
  /\ UNCHANGED <<vars, wsActive, wsCrc, ws, rebootPending>>

\* A binary frame is dropped unless a session is open, anybody's.  That flag is
\* read without the lock; fw_upg_write tests it again under the lock, so only
\* its value then matters.  Only what was written counts in the CRC.
WsBinary(data) ==
  /\ wsActive
  /\ active
  /\ \E rc \in RC :
       /\ FwUpgWrite(data, rc)
       /\ wsCrc' = IF rc = 0 THEN Crc16(wsCrc, data) ELSE wsCrc
  /\ UNCHANGED <<wsActive, wsQ, ws, rebootPending>>

-----------------------------------------------------------------------------
(* ws_fw_task                                                              *)

WsReceive ==
  /\ ws.at = "idle" /\ wsQ # <<>>
  /\ ws' = WsAt("run", Head(wsQ))
  /\ wsQ' = Tail(wsQ)
  /\ UNCHANGED <<vars, wsActive, wsCrc, rebootPending>>

WsKeepsThread == UNCHANGED <<wsActive, wsCrc, wsQ, rebootPending>>

WsStart ==
  /\ ws.at = "run" /\ ws.op.kind = "START"
  /\ \E rc \in RC : FwUpgStart(ws.op.total, ws.op.kh, rc)
  /\ ws' = WsIdle
  /\ WsKeepsThread

\* END checks the size first: got = fw_upg_received(), then fw_upg_total().
WsEnd ==
  /\ ws.at = "run" /\ ws.op.kind = "END"
  /\ ws' = IF received = 0 THEN WsAt("abort", ws.op)
           ELSE [at |-> "size", op |-> ws.op, got |-> received]
  /\ UNCHANGED vars /\ WsKeepsThread

WsEndSize ==
  /\ ws.at = "size"
  /\ ws' = WsAt(IF ws.got # announced THEN "abort" ELSE "finish", ws.op)
  /\ UNCHANGED vars /\ WsKeepsThread

WsEndAbort ==
  /\ ws.at = "abort"
  /\ FwUpgAbort
  /\ ws' = WsIdle
  /\ WsKeepsThread

WsEndFinish ==
  /\ ws.at = "finish"
  /\ \E rc \in RC :
       /\ FwUpgFinish(ws.op.crc, rc)
       /\ ws' = IF rc = 0 THEN WsAt("pend", ws.op) ELSE WsIdle
  /\ WsKeepsThread

WsSetPending ==
  /\ ws.at = "pend"
  /\ \E rc \in RC :
       /\ BootSetPending(TRUE, rc)
       /\ ws' = IF rc = 0 THEN WsAt("reboot", ws.op) ELSE WsIdle
  /\ WsKeepsThread

\* 300 ms later: set_reboot_status(true).  The worker goes on with its queue.
WsRequestReboot ==
  /\ ws.at = "reboot"
  /\ rebootPending' = TRUE
  /\ ws' = WsIdle
  /\ UNCHANGED <<vars, wsActive, wsCrc, wsQ>>

WsWorker ==
  \/ WsReceive \/ WsStart
  \/ WsEnd \/ WsEndSize \/ WsEndAbort \/ WsEndFinish \/ WsSetPending
  \/ WsRequestReboot

WsReset ==
  /\ wsActive' = FALSE /\ wsCrc' = 0
  /\ wsQ' = <<>> /\ ws' = WsIdle /\ rebootPending' = FALSE

=============================================================================
