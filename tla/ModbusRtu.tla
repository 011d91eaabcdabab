----------------------------- MODULE ModbusRtu -----------------------------
(***************************************************************************)
(* Modbus over RS-485: the framing by silence of src/modbus/rtu_frame.c    *)
(* and the half-duplex driver of src/modbus/rtu.c.  Three actors share the *)
(* flags: the UART interrupts, the timer service task (priority 4) and the *)
(* RTU task (priority 5), which the timer can overtake only while it       *)
(* waits, for a frame or, in the server, for the flash or a lock.          *)
(*                                                                         *)
(* The receiver hands over chunks: what came in up to an idle line.  A     *)
(* transmission in interrupt mode has no error of its own, and the error   *)
(* interrupts are off while the receiver is.                               *)
(***************************************************************************)
EXTENDS MbServer

CONSTANTS
  Chunks,       \* chunks the line may carry, sequences of bytes
  RtuChunks,    \* bound: up to how many chunks in all each of them may come
  RtuMax,       \* RTU_FRAME_MAX
  RtuMin,       \* RTU_FRAME_MIN
  SrvUnit,      \* srv_unit
  CrcOk(_),     \* the last bytes of a frame are its CRC
  RtuSays(_)    \* what the server makes of a frame: "reply", "exc", "silent" or "clear"

ASSUME RtuAssumption ==
  RtuMax \in Nat /\ Chunks \subseteq Seq(Nat) /\ RtuChunks \in [Chunks -> Nat]

VARIABLES
  armed,        \* ReceiveToIdle_IT is under way
  framePending, \* frame_pending
  txBusy,       \* tx_busy
  de,           \* the driver enable pin
  txing,        \* Transmit_IT is under way
  t35,          \* the t3.5 timer: "off", "running", "due" when its callback comes
                \* next, "due_running" when it was started again before that
  notified,     \* the task notification
  rtuPc,        \* where rtu_task is
  rxBuf,        \* rx_buf: what is in it, valid or left over
  rxLen,        \* rx_len
  rxOverflow,   \* rx_overflow
  snap,         \* the copies of len and overflow, with heard at that time
  chunksCame,   \* chunks received
  heard,        \* history: bytes fed since the last reset
  raced,        \* history: a chunk was fed while the timer's callback was due, and
                \* the rounds of the task that follow from it are not over
  handed        \* history: the frame last given to the server and what was heard

rtuVars == <<armed, framePending, txBusy, de, txing, t35, notified, rtuPc, rxBuf,
             rxLen, rxOverflow, snap, chunksCame, heard, raced, handed>>

uart == <<armed, txBusy, de, txing>>
buffer == <<rxBuf, rxLen, rxOverflow, chunksCame, heard>>

-----------------------------------------------------------------------------
(* UART interrupts                                                         *)

\* Variant with a fault: the bytes that fit are taken for the frame.
RtuRxFeedCut(b) ==
  LET take == SubSeq(b, 1, Min({Len(b), RtuMax - rxLen}))
  IN /\ rxBuf' = SubSeq(rxBuf, 1, rxLen) \o take \o SubSeq(rxBuf, rxLen + Len(take) + 1, Len(rxBuf))
     /\ rxLen' = rxLen + Len(take) /\ heard' = heard \o b
     /\ raced' = (raced \/ t35 \in {"due", "due_running"}) /\ UNCHANGED rxOverflow
     /\ t35' = IF t35 \in {"due", "due_running"} THEN "due_running" ELSE "running"

\* rtu_rx_feed and rtu_t35_kick.
RtuRxFeed(b) ==
  LET take == IF rxOverflow THEN <<>> ELSE SubSeq(b, 1, Min({Len(b), RtuMax - rxLen}))
  IN /\ rxBuf' = SubSeq(rxBuf, 1, rxLen) \o take \o SubSeq(rxBuf, rxLen + Len(take) + 1, Len(rxBuf))
     /\ rxLen' = rxLen + Len(take) /\ heard' = heard \o b
     /\ rxOverflow' = (rxOverflow \/ Len(take) < Len(b))
     /\ raced' = (raced \/ t35 \in {"due", "due_running"})
     /\ t35' = IF t35 \in {"due", "due_running"} THEN "due_running" ELSE "running"

\* HAL_UARTEx_RxEventCallback: fed unless a frame is at work, then armed again.
\* A chunk takes longer than the instructions from tx_busy to Transmit_IT.
RxEvent(b) ==
  /\ armed /\ rtuPc \notin {"abort", "drive", "transmit"} /\ chunksCame < RtuChunks[b] /\ chunksCame' = chunksCame + 1
  /\ IF framePending THEN UNCHANGED <<rxBuf, rxLen, rxOverflow, heard, raced, t35>>
     ELSE RtuRxFeed(b)
  /\ UNCHANGED <<uart, framePending, notified, rtuPc, snap, handed, diag, served>>

\* rtu_tx_finish.
TxFinish == de' = FALSE /\ txBusy' = FALSE /\ armed' = TRUE /\ framePending' = FALSE

\* Variant with a fault: the receiver the error ended is not started again.
UartErrorDead ==
  /\ armed
  /\ IF txBusy THEN TxFinish ELSE armed' = FALSE /\ UNCHANGED <<de, txBusy, framePending>>
  /\ UNCHANGED <<txing, t35, notified, rtuPc, buffer, snap, raced, handed, diag, served>>

\* HAL_UART_ErrorCallback: noise ended the reception; the answer on its way ends too.
UartError ==
  /\ armed
  /\ IF txBusy THEN TxFinish ELSE armed' = TRUE /\ UNCHANGED <<de, txBusy, framePending>>
  /\ UNCHANGED <<txing, t35, notified, rtuPc, buffer, snap, raced, handed, diag, served>>

\* HAL_UART_TxCpltCallback.
TxCplt ==
  /\ txing /\ txing' = FALSE /\ TxFinish
  /\ UNCHANGED <<t35, notified, rtuPc, buffer, snap, raced, handed, diag, served>>

-----------------------------------------------------------------------------
(* Timer                                                                   *)

\* t3.5 have passed; the callback waits for the timer service task.
T35Elapses ==
  /\ t35 = "running" /\ t35' = "due"
  /\ UNCHANGED <<uart, framePending, notified, rtuPc, buffer, snap, raced, handed, diag, served>>

\* rtu_t35_timer_cb.
T35TimerCb ==
  /\ t35 \in {"due", "due_running"} /\ rtuPc \in {"wait", "server"}
  /\ t35' = IF t35 = "due" THEN "off" ELSE "running"
  /\ framePending' = TRUE /\ notified' = TRUE
  /\ UNCHANGED <<uart, rtuPc, buffer, snap, raced, handed, diag, served>>

-----------------------------------------------------------------------------
(* rtu_task                                                                *)

\* ulTaskNotifyTake, and the copies at the start of rtu_t35_expired.
TakeFrame ==
  /\ rtuPc = "wait" /\ notified /\ notified' = FALSE
  /\ snap' = [len |-> rxLen, overflow |-> rxOverflow, heard |-> heard]
  /\ rtuPc' = "reset"
  /\ UNCHANGED <<uart, framePending, t35, buffer, raced, handed, diag, served>>

\* What rtu_t35_expired makes of the frame f before the server sees it.
FrameVerdict(f) ==
  CASE snap.len = 0 -> "nothing"
    [] snap.len # 0 /\ (snap.overflow \/ snap.len < RtuMin) -> "length"
    [] snap.len >= RtuMin /\ ~snap.overflow /\ ~CrcOk(f) -> "crc"
    [] snap.len >= RtuMin /\ ~snap.overflow /\ CrcOk(f) /\ f[1] \notin {0, SrvUnit} -> "other"
    [] OTHER -> "server"

RtuCounts(v) ==
  CASE v = "length" -> {"BUS", "NO_RESP"}
    [] v = "other" -> {"BUS", "NO_RESP"}
    [] v = "crc" -> {"BUS", "CRC", "NO_RESP"}
    [] OTHER -> {}

\* The buffer is free again; the checks of rtu_t35_expired.
ResetAndCheck ==
  /\ rtuPc = "reset"
  /\ rxLen' = 0 /\ rxOverflow' = FALSE /\ heard' = <<>>
  /\ LET f == SubSeq(rxBuf, 1, snap.len)
         v == FrameVerdict(f)
     IN /\ diag' = Counted(diag, RtuCounts(v))
        /\ rtuPc' = IF v = "server" THEN "server" ELSE "check"
  /\ UNCHANGED <<uart, framePending, t35, notified, rxBuf, chunksCame, snap, raced, handed, served>>

\* mb_server_process, which may block, and what follows it.
ServeFrame ==
  /\ rtuPc = "server"
  /\ LET f == SubSeq(rxBuf, 1, snap.len)
         says == RtuSays(f)
         quiet == says = "silent" \/ f[1] = 0
     IN /\ handed' = [f |-> f, heard |-> snap.heard, raced |-> raced]
        /\ diag' = Counted(Processed(diag, says), IF quiet THEN {"NO_RESP"} ELSE {})
        /\ served' = ServedAfter(says, quiet)
        /\ txBusy' = (txBusy \/ ~quiet)
        /\ rtuPc' = IF quiet THEN "check" ELSE "abort"
  /\ UNCHANGED <<armed, de, txing, framePending, t35, notified, buffer, snap, raced>>

\* Variant with a fault: the receiver stays on during the answer.
AbortReceiveNot ==
  /\ rtuPc = "abort" /\ rtuPc' = "drive"
  /\ UNCHANGED <<uart, framePending, t35, notified, buffer, snap, raced, handed, diag, served>>

\* rtu_tx_frame after tx_busy: AbortReceive.
AbortReceive ==
  /\ rtuPc = "abort" /\ armed' = FALSE /\ rtuPc' = "drive"
  /\ UNCHANGED <<de, txBusy, txing, framePending, t35, notified, buffer, snap, raced, handed, diag, served>>

\* The driver is enabled and given its time.
DriveBus ==
  /\ rtuPc = "drive" /\ de' = TRUE /\ rtuPc' = "transmit"
  /\ UNCHANGED <<armed, txBusy, txing, framePending, t35, notified, buffer, snap, raced, handed, diag, served>>

\* Transmit_IT starts the answer or fails, as it does while one is going out.
Transmit ==
  /\ rtuPc = "transmit" /\ rtuPc' = "check"
  /\ \/ ~txing /\ txing' = TRUE /\ UNCHANGED <<armed, txBusy, de, framePending>>
     \/ TxFinish /\ UNCHANGED txing
  /\ UNCHANGED <<t35, notified, buffer, snap, raced, handed, diag, served>>

\* The end of the loop of rtu_task.
CheckBusy ==
  /\ rtuPc = "check" /\ rtuPc' = "wait"
  /\ framePending' = (framePending /\ txBusy)
  /\ raced' = (raced /\ (t35 # "off" \/ notified \/ (txing /\ armed)))
  /\ UNCHANGED <<uart, t35, notified, buffer, snap, handed, diag, served>>

RtuTask ==
  TakeFrame \/ ResetAndCheck \/ ServeFrame \/ AbortReceive \/ DriveBus \/ Transmit
    \/ CheckBusy

RtuInit ==
  /\ armed = TRUE /\ framePending = FALSE /\ txBusy = FALSE /\ de = FALSE /\ txing = FALSE
  /\ t35 = "off" /\ notified = FALSE /\ rtuPc = "wait"
  /\ rxBuf = <<>> /\ rxLen = 0 /\ rxOverflow = FALSE
  /\ snap = [len |-> 0, overflow |-> FALSE, heard |-> <<>>]
  /\ chunksCame = 0 /\ heard = <<>> /\ raced = FALSE
  /\ handed = [f |-> <<>>, heard |-> <<>>, raced |-> FALSE]

RtuNext ==
  \/ \E b \in Chunks : RxEvent(b)
  \/ UartError \/ TxCplt
  \/ T35Elapses \/ T35TimerCb
  \/ RtuTask

\* The task and the timer service task run, a transmission that began ends.
RtuFairness == WF_rtuVars(RtuTask) /\ WF_rtuVars(T35TimerCb) /\ WF_rtuVars(TxCplt)

-----------------------------------------------------------------------------
(* Properties                                                              *)

\* The receiver is on while the bus is driven only in the rounds that follow a
\* chunk fed when the timer's callback was due: there an earlier answer may end
\* between AbortReceive and the driver's enabling, and rtu_tx_finish starts the
\* receiver that AbortReceive had ended.
EchoNeedsRace == de /\ armed => raced

\* What the server is given is what was heard between two silences: nothing cut
\* off at the end of the buffer, nothing of a frame that came in meanwhile.  The
\* exception is a chunk fed when the timer's callback is due already: the timer
\* fires once more, and that round runs with frame_pending cleared; its answer may
\* meet the one before it still going out, whose end clears frame_pending again.
FrameIsHeard == ~handed.raced => handed.f = handed.heard

=============================================================================
