--------------------------- MODULE Modbus_proofs ---------------------------
(***************************************************************************)
(* Proofs about the Modbus server and its transports, for every number of  *)
(* connections, frames, chunks and registers.                              *)
(***************************************************************************)
EXTENDS Modbus, SequenceLemmas, TLAPS

-----------------------------------------------------------------------------
(* The serial side                                                         *)

RtuTypeOK ==
  /\ armed \in BOOLEAN /\ framePending \in BOOLEAN /\ txBusy \in BOOLEAN
  /\ de \in BOOLEAN /\ txing \in BOOLEAN /\ notified \in BOOLEAN /\ raced \in BOOLEAN
  /\ t35 \in {"off", "running", "due", "due_running"}
  /\ rtuPc \in {"wait", "reset", "server", "abort", "drive", "transmit", "check"}
  /\ rxBuf \in Seq(Nat) /\ heard \in Seq(Nat)
  /\ rxLen \in 0 .. RtuMax /\ rxLen <= Len(rxBuf) /\ rxOverflow \in BOOLEAN
  /\ snap \in [len : Nat, overflow : BOOLEAN, heard : Seq(Nat)]
  /\ handed \in [f : Seq(Nat), heard : Seq(Nat), raced : BOOLEAN]

\* rx_buf holds what was heard since the last reset, unless it overflowed.
BufferIsHeard == ~rxOverflow => SubSeq(rxBuf, 1, rxLen) = heard

\* tx_busy says that an answer is about to go out or is going out.
BusyMeansTx == txBusy => txing \/ rtuPc \in {"abort", "drive", "transmit"}

\* The receiver is on while the bus is driven only with an answer going out.
EchoIsSent == de /\ armed => txing \/ rtuPc = "transmit"

\* Without the race, frame_pending keeps the line closed from the silence to the
\* end of the round, and nothing is timed or notified meanwhile.
Undisturbed ==
  ~raced =>
    /\ t35 # "due_running"
    /\ t35 # "off" => ~framePending
    /\ notified => framePending /\ t35 = "off"
    /\ rtuPc # "wait" => ~notified
    /\ rtuPc \in {"reset", "server"} => framePending
    /\ rtuPc \in {"reset", "server", "abort", "drive", "transmit"} => t35 = "off" /\ ~txing
    /\ rtuPc \in {"drive", "transmit"} => ~armed
    /\ txing => t35 = "off" /\ ~notified /\ ~armed

\* The frame copied by rtu_t35_expired is still in the buffer it is read from.
SnapIsHeard ==
  /\ rtuPc \in {"reset", "server"} => snap.len <= Len(rxBuf)
  /\ rtuPc \in {"reset", "server"} /\ ~raced /\ ~snap.overflow =>
       SubSeq(rxBuf, 1, snap.len) = snap.heard
  /\ rtuPc = "server" => ~snap.overflow

RtuInv == RtuTypeOK /\ BufferIsHeard /\ BusyMeansTx /\ Undisturbed /\ SnapIsHeard
            /\ FrameIsHeard /\ EchoIsSent /\ EchoNeedsRace

\* rtu_rx_feed copies the bytes behind those it has and leaves the rest alone.
LEMMA Fed ==
  ASSUME NEW buf \in Seq(Nat), NEW n \in 0 .. Len(buf), NEW take \in Seq(Nat)
  PROVE  \A new : new = SubSeq(buf, 1, n) \o take \o SubSeq(buf, n + Len(take) + 1, Len(buf)) =>
           /\ new \in Seq(Nat) /\ Len(new) >= Len(buf) /\ Len(new) >= n + Len(take)
           /\ SubSeq(new, 1, n + Len(take)) = SubSeq(buf, 1, n) \o take
<1>0. SUFFICES
        ASSUME NEW new,
               new = SubSeq(buf, 1, n) \o take \o SubSeq(buf, n + Len(take) + 1, Len(buf))
        PROVE  /\ new \in Seq(Nat) /\ Len(new) >= Len(buf) /\ Len(new) >= n + Len(take)
               /\ SubSeq(new, 1, n + Len(take)) = SubSeq(buf, 1, n) \o take
  OBVIOUS
<1>1. Len(buf) \in Nat /\ Len(take) \in Nat /\ n + Len(take) \in Nat
  BY LenProperties
<1>2. SubSeq(buf, 1, n) \in Seq(Nat) /\ Len(SubSeq(buf, 1, n)) = n
  BY PrefixProperties
<1>3. PICK z \in Seq(Nat) : /\ z = SubSeq(buf, n + Len(take) + 1, Len(buf))
                            /\ Len(z) = IF n + Len(take) <= Len(buf)
                                        THEN Len(buf) - (n + Len(take)) ELSE 0
  BY <1>1, SuffixProperties
<1>4. PICK x \in Seq(Nat) : x = SubSeq(buf, 1, n) \o take /\ Len(x) = n + Len(take)
  <2>1. /\ SubSeq(buf, 1, n) \o take \in Seq(Nat)
        /\ Len(SubSeq(buf, 1, n) \o take) = Len(SubSeq(buf, 1, n)) + Len(take)
    BY <1>2, ConcatProperties
  <2>. QED BY <1>2, <2>1
<1>5. new = x \o z
  BY <1>0, <1>3, <1>4
<1>6. x \o z \in Seq(Nat) /\ Len(x \o z) = Len(x) + Len(z)
  BY ConcatProperties
<1>7. SubSeq(x \o z, 1, Len(x)) = x
  BY PrefixOfConcat
<1>8. Len(new) >= Len(buf) /\ Len(new) >= n + Len(take) /\ new \in Seq(Nat)
  <2>1. Len(new) = n + Len(take) + Len(z) /\ new \in Seq(Nat)
    BY <1>4, <1>5, <1>6
  <2>2. Len(z) \in Nat
    BY LenProperties
  <2>3. Len(z) = IF n + Len(take) <= Len(buf) THEN Len(buf) - (n + Len(take)) ELSE 0
    BY <1>3
  <2>4. Len(new) >= n + Len(take)
    BY <1>1, <2>1, <2>2
  <2>5. Len(new) >= Len(buf)
    <3>1. CASE n + Len(take) <= Len(buf)
      BY <1>1, <2>1, <2>3, <3>1
    <3>2. CASE ~(n + Len(take) <= Len(buf))
      BY <1>1, <2>1, <2>2, <3>2
    <3>. QED BY <3>1, <3>2
  <2>. QED BY <2>1, <2>4, <2>5
<1>9. SubSeq(new, 1, n + Len(take)) = x
  BY <1>4, <1>5, <1>7
<1>. QED BY <1>4, <1>8, <1>9

\* The part of a chunk that fits.
LEMMA Taken ==
  ASSUME NEW b \in Seq(Nat), NEW n \in Nat
  PROVE  \A t : t = SubSeq(b, 1, Min({Len(b), n})) =>
           t \in Seq(Nat) /\ Len(t) <= n /\ (Len(t) < Len(b) \/ t = b)
<1>0. SUFFICES ASSUME NEW t, t = SubSeq(b, 1, Min({Len(b), n}))
               PROVE  t \in Seq(Nat) /\ Len(t) <= n /\ (Len(t) < Len(b) \/ t = b)
  OBVIOUS
<1>1. Len(b) \in Nat
  BY LenProperties
<1>2. PICK m \in 0 .. Len(b) : m = Min({Len(b), n}) /\ m <= n
  BY <1>1, MinPair
<1>3. SubSeq(b, 1, m) \in Seq(Nat) /\ Len(SubSeq(b, 1, m)) = m
  BY PrefixProperties
<1>4. m = Len(b) => SubSeq(b, 1, m) = b
  BY SubSeqFull
<1>5. t = SubSeq(b, 1, m)
  BY <1>0, <1>2
<1>6. t \in Seq(Nat) /\ Len(t) = m /\ (m = Len(b) => t = b)
  BY <1>3, <1>4, <1>5
<1>. QED BY <1>1, <1>2, <1>6

\* The receive interrupt keeps the invariant: a chunk is dropped while a frame is
\* at work, and otherwise joins what was heard or overflows.
LEMMA RxEventInv ==
  ASSUME RtuInv, NEW b \in Chunks, RxEvent(b)
  PROVE  RtuInv'
<1>. USE DEF uart
<1>0. /\ b \in Seq(Nat) /\ RtuMax \in Nat
      /\ RtuTypeOK /\ Len(rxBuf) \in Nat
  BY RtuAssumption, LenProperties DEF RtuInv, RtuTypeOK
<1>1. CASE framePending
  BY <1>0, <1>1 DEF RxEvent, RtuInv, RtuTypeOK, BufferIsHeard, BusyMeansTx, Undisturbed,
     SnapIsHeard, FrameIsHeard, EchoIsSent, EchoNeedsRace
<1>2. CASE ~framePending
  <2>. DEFINE take == IF rxOverflow THEN <<>> ELSE SubSeq(b, 1, Min({Len(b), RtuMax - rxLen}))
  <2>1. RtuRxFeed(b)
    BY <1>2 DEF RxEvent
  <2>2. RtuMax - rxLen \in Nat /\ rxLen \in 0 .. Len(rxBuf)
    BY <1>0 DEF RtuTypeOK
  <2>3. /\ take \in Seq(Nat) /\ Len(take) <= RtuMax - rxLen
        /\ Len(take) \in Nat /\ Len(b) \in Nat
        /\ ~rxOverflow => Len(take) < Len(b) \/ take = b
    <3>1. CASE rxOverflow
      BY <1>0, <2>2, <3>1, EmptySeq, LenProperties
    <3>2. CASE ~rxOverflow
      <4>1. take = SubSeq(b, 1, Min({Len(b), RtuMax - rxLen}))
        BY <3>2
      <4>2. take \in Seq(Nat) /\ Len(take) <= RtuMax - rxLen /\ (Len(take) < Len(b) \/ take = b)
        BY <1>0, <2>2, <4>1, Taken
      <4>. QED BY <1>0, <4>2, LenProperties
    <3>. QED BY <1>0, <3>1, <3>2 DEF RtuTypeOK
  <2>. HIDE DEF take
  <2>4. /\ rxBuf' \in Seq(Nat) /\ Len(rxBuf') >= Len(rxBuf) /\ Len(rxBuf') >= rxLen + Len(take)
        /\ SubSeq(rxBuf', 1, rxLen + Len(take)) = SubSeq(rxBuf, 1, rxLen) \o take
    <3>1. rxBuf' = SubSeq(rxBuf, 1, rxLen) \o take \o SubSeq(rxBuf, rxLen + Len(take) + 1, Len(rxBuf))
      BY <2>1 DEF RtuRxFeed, take
    <3>2. rxBuf \in Seq(Nat)
      BY <1>0 DEF RtuTypeOK
    <3>. QED BY <2>2, <2>3, <3>1, <3>2, Fed
  <2>5. /\ rxLen' = rxLen + Len(take) /\ heard' = heard \o b
        /\ rxOverflow' = (rxOverflow \/ Len(take) < Len(b))
    BY <2>1 DEF RtuRxFeed, take
  <2>6. heard' \in Seq(Nat)
    BY <1>0, <2>5, ConcatProperties DEF RtuTypeOK
  <2>7. Len(rxBuf') \in Nat
    BY <2>4, LenProperties
  <2>8. RtuTypeOK'
    <3>1. /\ raced' \in BOOLEAN /\ t35' \in {"running", "due_running"}
          /\ rxOverflow' \in BOOLEAN
      BY <1>0, <2>1, <2>5 DEF RtuRxFeed, RtuTypeOK
    <3>2. rxLen' \in 0 .. RtuMax /\ rxLen' <= Len(rxBuf')
      BY <1>0, <2>3, <2>4, <2>5, <2>7 DEF RtuTypeOK
    <3>. QED BY <1>0, <2>4, <2>6, <3>1, <3>2 DEF RxEvent, RtuTypeOK
  <2>9. BufferIsHeard'
    BY <1>0, <2>3, <2>4, <2>5 DEF RtuInv, BufferIsHeard, RtuTypeOK
  <2>10. (BusyMeansTx /\ FrameIsHeard /\ EchoIsSent /\ EchoNeedsRace)'
    <3>1. raced => raced'
      BY <2>1 DEF RtuRxFeed
    <3>. QED BY <3>1 DEF RxEvent, RtuInv, BusyMeansTx, FrameIsHeard, EchoIsSent, EchoNeedsRace
  <2>11. Undisturbed' /\ SnapIsHeard'
    <3>1. /\ raced' = (raced \/ t35 \in {"due", "due_running"})
          /\ t35' = IF t35 \in {"due", "due_running"} THEN "due_running" ELSE "running"
      BY <2>1 DEF RtuRxFeed
    <3>2. Undisturbed /\ SnapIsHeard /\ BusyMeansTx
      BY DEF RtuInv
    <3>3. Undisturbed'
      BY <1>0, <1>2, <3>1, <3>2 DEF RxEvent, Undisturbed, RtuTypeOK, BusyMeansTx
    <3>4. SnapIsHeard'
      <4>1. ~raced => rtuPc \notin {"reset", "server"}
        BY <1>2, <3>2 DEF Undisturbed
      <4>2. snap' = snap /\ rtuPc' = rtuPc /\ snap.len \in Nat
        BY <1>0 DEF RxEvent, RtuTypeOK
      <4>. QED BY <1>0, <2>4, <2>7, <3>1, <3>2, <4>1, <4>2 DEF SnapIsHeard, RtuTypeOK
    <3>. QED BY <3>3, <3>4
  <2>. QED BY <2>8, <2>9, <2>10, <2>11 DEF RtuInv
<1>. QED BY <1>0, <1>1, <1>2 DEF RtuTypeOK

\* The error interrupt, the end of a transmission and the timer keep it.
LEMMA InterruptInv ==
  ASSUME RtuInv, UartError \/ TxCplt \/ T35Elapses \/ T35TimerCb
  PROVE  RtuInv'
<1>. USE DEF uart, buffer, RtuInv, RtuTypeOK, BufferIsHeard, BusyMeansTx, Undisturbed,
             SnapIsHeard, FrameIsHeard, EchoIsSent, EchoNeedsRace
<1>1. CASE UartError
  <2>1. CASE txBusy
    <3>1. (RtuTypeOK /\ BufferIsHeard)'
      BY <1>1, <2>1 DEF UartError, TxFinish
    <3>2. (BusyMeansTx /\ EchoIsSent /\ EchoNeedsRace)'
      BY <1>1, <2>1 DEF UartError, TxFinish
    <3>3. Undisturbed'
      BY <1>1, <2>1 DEF UartError, TxFinish
    <3>4. (SnapIsHeard /\ FrameIsHeard)'
      BY <1>1, <2>1 DEF UartError, TxFinish
    <3>. QED BY <3>1, <3>2, <3>3, <3>4
  <2>2. CASE ~txBusy
    BY <1>1, <2>2 DEF UartError
  <2>. QED BY <2>1, <2>2
<1>2. CASE TxCplt
  <2>1. (RtuTypeOK /\ BufferIsHeard)'
    BY <1>2 DEF TxCplt, TxFinish
  <2>2. (BusyMeansTx /\ EchoIsSent /\ EchoNeedsRace)'
    BY <1>2 DEF TxCplt, TxFinish
  <2>3. Undisturbed'
    BY <1>2 DEF TxCplt, TxFinish
  <2>4. (SnapIsHeard /\ FrameIsHeard)'
    BY <1>2 DEF TxCplt, TxFinish
  <2>. QED BY <2>1, <2>2, <2>3, <2>4
<1>3. CASE T35Elapses
  BY <1>3 DEF T35Elapses
<1>4. CASE T35TimerCb
  BY <1>4 DEF T35TimerCb
<1>. QED BY <1>1, <1>2, <1>3, <1>4

\* The task keeps it: a frame is copied, checked and served while the line is
\* closed, and the end of the round opens the line again.
LEMMA TaskInv ==
  ASSUME RtuInv, RtuTask
  PROVE  RtuInv'
<1>. USE DEF uart, buffer, RtuInv, RtuTypeOK, BufferIsHeard, BusyMeansTx, Undisturbed,
             SnapIsHeard, FrameIsHeard, EchoIsSent, EchoNeedsRace
<1>1. CASE TakeFrame
  <2>1. rxLen \in Nat
    BY RtuAssumption
  <2>. QED BY <1>1, <2>1 DEF TakeFrame
<1>2. CASE ResetAndCheck
  <2>1. /\ rxLen' = 0 /\ rxOverflow' = FALSE /\ heard' = <<>> /\ rxBuf' = rxBuf
        /\ rtuPc = "reset" /\ rtuPc' \in {"server", "check"}
    BY <1>2 DEF ResetAndCheck
  <2>2. <<>> \in Seq(Nat) /\ SubSeq(rxBuf, 1, 0) = <<>> /\ Len(rxBuf) \in Nat
    BY EmptySeq, SubSeqEmpty, LenProperties
  <2>3. rtuPc' = "server" => ~snap.overflow
    BY <1>2 DEF ResetAndCheck, FrameVerdict
  <2>4. BufferIsHeard' /\ 0 \in 0 .. RtuMax
    BY <2>1, <2>2, RtuAssumption
  <2>5. (SnapIsHeard /\ Undisturbed)'
    BY <1>2, <2>1, <2>3 DEF ResetAndCheck
  <2>6. RtuTypeOK'
    <3>1. rxLen' <= Len(rxBuf') /\ heard' \in Seq(Nat) /\ rxLen' \in 0 .. RtuMax
      BY <2>1, <2>2, <2>4
    <3>2. rxOverflow' \in BOOLEAN /\ rtuPc' \in {"wait", "reset", "server", "abort", "drive", "transmit", "check"}
      BY <2>1
    <3>3. UNCHANGED <<armed, framePending, txBusy, de, txing, t35, notified, rxBuf, snap, raced, handed>>
      BY <1>2 DEF ResetAndCheck
    <3>. QED BY <3>1, <3>2, <3>3
  <2>7. (BusyMeansTx /\ FrameIsHeard /\ EchoIsSent /\ EchoNeedsRace)'
    BY <1>2 DEF ResetAndCheck
  <2>. QED BY <2>4, <2>5, <2>6, <2>7
<1>3. CASE ServeFrame
  <2>. DEFINE f == SubSeq(rxBuf, 1, snap.len)
  <2>1. f \in Seq(Nat)
    <3>1. snap.len \in 0 .. Len(rxBuf)
      BY <1>3, LenProperties DEF ServeFrame
    <3>. QED BY <3>1, PrefixProperties
  <2>2. ~raced => f = snap.heard
    BY <1>3 DEF ServeFrame
  <2>3. handed' = [f |-> f, heard |-> snap.heard, raced |-> raced]
    BY <1>3 DEF ServeFrame
  <2>. HIDE DEF f
  <2>4. FrameIsHeard' /\ handed' \in [f : Seq(Nat), heard : Seq(Nat), raced : BOOLEAN]
    BY <2>1, <2>2, <2>3
  <2>5. txBusy' \in BOOLEAN /\ rtuPc' \in {"check", "abort"} /\ (txBusy' => txBusy \/ rtuPc' = "abort")
    BY <1>3 DEF ServeFrame
  <2>6. /\ rtuPc = "server"
        /\ UNCHANGED <<armed, de, txing, framePending, t35, notified, rxBuf, rxLen, rxOverflow>>
        /\ UNCHANGED <<heard, snap, raced>>
    BY <1>3 DEF ServeFrame
  <2>7. (RtuTypeOK /\ BufferIsHeard)'
    BY <2>4, <2>5, <2>6
  <2>8. (BusyMeansTx /\ EchoIsSent /\ EchoNeedsRace)'
    BY <2>5, <2>6
  <2>9. (Undisturbed /\ SnapIsHeard)'
    BY <2>5, <2>6
  <2>. QED BY <2>4, <2>7, <2>8, <2>9
<1>4. CASE AbortReceive
  <2>0. /\ rtuPc = "abort" /\ rtuPc' = "drive" /\ armed' = FALSE
        /\ UNCHANGED <<de, txBusy, txing, framePending, t35, notified, rxBuf, rxLen, rxOverflow>>
        /\ UNCHANGED <<heard, snap, raced, handed>>
    BY <1>4 DEF AbortReceive
  <2>1. (RtuTypeOK /\ BufferIsHeard)'
    BY <2>0
  <2>2. (BusyMeansTx /\ EchoIsSent /\ EchoNeedsRace)'
    BY <2>0
  <2>3. Undisturbed'
    BY <2>0
  <2>4. (SnapIsHeard /\ FrameIsHeard)'
    BY <2>0
  <2>. QED BY <2>1, <2>2, <2>3, <2>4
<1>5. CASE DriveBus
  <2>0. /\ rtuPc = "drive" /\ rtuPc' = "transmit" /\ de' = TRUE
        /\ UNCHANGED <<armed, txBusy, txing, framePending, t35, notified, rxBuf, rxLen, rxOverflow>>
        /\ UNCHANGED <<heard, snap, raced, handed>>
    BY <1>5 DEF DriveBus
  <2>1. (RtuTypeOK /\ BufferIsHeard)'
    BY <2>0
  <2>2. (BusyMeansTx /\ EchoIsSent /\ EchoNeedsRace)'
    BY <2>0
  <2>3. Undisturbed'
    BY <2>0
  <2>4. (SnapIsHeard /\ FrameIsHeard)'
    BY <2>0
  <2>. QED BY <2>1, <2>2, <2>3, <2>4
<1>6. CASE Transmit
  <2>1. CASE ~txing /\ txing' = TRUE /\ UNCHANGED <<armed, txBusy, de, framePending>>
    BY <1>6, <2>1 DEF Transmit
  <2>2. CASE TxFinish /\ UNCHANGED txing
    BY <1>6, <2>2 DEF Transmit, TxFinish
  <2>. QED BY <1>6, <2>1, <2>2 DEF Transmit
<1>7. CASE CheckBusy
  BY <1>7 DEF CheckBusy
<1>. QED BY <1>1, <1>2, <1>3, <1>4, <1>5, <1>6, <1>7 DEF RtuTask

\* The invariant holds when the serial side starts.
LEMMA RtuInitInv == RtuInit => RtuInv
<1>1. <<>> \in Seq(Nat) /\ SubSeq(<<>>, 1, 0) = <<>> /\ Len(<<>>) = 0
  BY EmptySeq, SubSeqEmpty
<1>2. RtuInit => RtuTypeOK
  <2>1. 0 \in 0 .. RtuMax /\ 0 <= Len(<<>>)
    BY <1>1, RtuAssumption
  <2>2. /\ [len |-> 0, overflow |-> FALSE, heard |-> <<>>] \in
             [len : Nat, overflow : BOOLEAN, heard : Seq(Nat)]
        /\ [f |-> <<>>, heard |-> <<>>, raced |-> FALSE] \in
             [f : Seq(Nat), heard : Seq(Nat), raced : BOOLEAN]
    BY <1>1
  <2>. QED BY <1>1, <2>1, <2>2 DEF RtuInit, RtuTypeOK
<1>3. RtuInit => BufferIsHeard /\ BusyMeansTx /\ Undisturbed /\ SnapIsHeard /\ FrameIsHeard /\ EchoIsSent /\ EchoNeedsRace
  BY <1>1 DEF RtuInit, BufferIsHeard, BusyMeansTx, Undisturbed, SnapIsHeard, FrameIsHeard, EchoIsSent, EchoNeedsRace
<1>. QED BY <1>2, <1>3 DEF RtuInv

\* Every step of the system keeps it; the other parts do not touch the serial side.
LEMMA RtuStepInv == RtuInv /\ [ModbusNext]_modbusVars => RtuInv'
<1>. SUFFICES ASSUME RtuInv, [ModbusNext]_modbusVars PROVE RtuInv'
  OBVIOUS
<1>1. CASE UNCHANGED rtuVars
  BY <1>1 DEF rtuVars, RtuInv, RtuTypeOK, BufferIsHeard, BusyMeansTx, Undisturbed,
     SnapIsHeard, FrameIsHeard, EchoIsSent, EchoNeedsRace
<1>2. CASE RtuNext
  BY <1>2, RxEventInv, InterruptInv, TaskInv DEF RtuNext
<1>. QED BY <1>1, <1>2 DEF ModbusNext, modbusVars

\* For every order of errors, interrupts and refused transmissions, also one that
\* falls between AbortReceive and the driver's enabling (rtu.c:135, 137), the
\* device can hear its own answer only after the race of rtu_t35_timer_cb.
THEOREM EchoesFollowRace == ModbusSpec => []EchoNeedsRace
<1>1. ModbusInit => RtuInv
  BY RtuInitInv DEF ModbusInit
<1>2. RtuInv => EchoNeedsRace
  BY DEF RtuInv
<1>. QED BY <1>1, <1>2, RtuStepInv, PTL DEF ModbusSpec

\* For every line traffic, buffer size and timing, the frame mb_server_process gets
\* is what was heard between two silences, but for the race of rtu_t35_timer_cb.
THEOREM FramesAreHeard == ModbusSpec => []FrameIsHeard
<1>1. ModbusInit => RtuInv
  BY RtuInitInv DEF ModbusInit
<1>2. RtuInv => FrameIsHeard
  BY DEF RtuInv
<1>. QED BY <1>1, <1>2, RtuStepInv, PTL DEF ModbusSpec

-----------------------------------------------------------------------------
(* The counters of the transports                                          *)

Balanced(d, n) == (n + d["NO_RESP"]) % CountMod = d["BUS"]

CountInv ==
  /\ diag \in [Counters -> Nat] /\ served \in Nat
  /\ part # "server" => Balanced(diag, served)

\* Counting keeps the counters natural numbers, and a frame that is counted as
\* seen and either as unanswered or as served keeps the balance.
LEMMA CountedBalance ==
  ASSUME NEW d \in [Counters -> Nat], NEW n \in Nat, NEW cs, NEW m \in Nat
  PROVE  /\ Counted(d, cs) \in [Counters -> Nat]
         /\ Balanced(d, n) /\ "BUS" \notin cs /\ "NO_RESP" \notin cs /\ m = n
              => Balanced(Counted(d, cs), m)
         /\ Balanced(d, n) /\ "BUS" \in cs /\ "NO_RESP" \in cs /\ m = n
              => Balanced(Counted(d, cs), m)
         /\ Balanced(d, n) /\ "BUS" \in cs /\ "NO_RESP" \notin cs /\ m = (n + 1) % CountMod
              => Balanced(Counted(d, cs), m)
<1>. USE DEF Counters
<1>0. CountMod \in Nat \ {0}
  BY MbServerAssumption
<1>1. \A x \in Nat : x % CountMod \in Nat
  BY <1>0, DivMod
<1>2. Counted(d, cs) \in [Counters -> Nat]
  BY <1>1 DEF Counted
<1>. DEFINE a == d["NO_RESP"]
            b == d["BUS"]
<1>3. a \in Nat /\ b \in Nat
  OBVIOUS
<1>. HIDE DEF a, b
<1>4. ASSUME (n + a) % CountMod = b
      PROVE  /\ (n + ((a + 1) % CountMod)) % CountMod = (b + 1) % CountMod
             /\ (((n + 1) % CountMod) + a) % CountMod = (b + 1) % CountMod
  <2>0. /\ \A x, y \in Nat : ((x % CountMod) + y) % CountMod = (x + y) % CountMod
        /\ n + a \in Nat /\ a + 1 \in Nat /\ n + 1 \in Nat /\ 1 \in Nat
    <3>1. \A x, y \in Nat : ((x % CountMod) + y) % CountMod = (x + y) % CountMod
      BY <1>0, ModPlus, Zenon
    <3>2. n + a \in Nat /\ a + 1 \in Nat /\ n + 1 \in Nat /\ 1 \in Nat
      BY <1>3
    <3>. QED BY <3>1, <3>2, Zenon
  <2>1. (((n + a) % CountMod) + 1) % CountMod = (n + a + 1) % CountMod
    BY <2>0, Zenon
  <2>2. (((a + 1) % CountMod) + n) % CountMod = (a + 1 + n) % CountMod
    BY <2>0, Zenon
  <2>3. (((n + 1) % CountMod) + a) % CountMod = (n + 1 + a) % CountMod
    BY <1>3, <2>0, Zenon
  <2>4. /\ a + 1 + n = n + a + 1 /\ n + 1 + a = n + a + 1
        /\ (n + ((a + 1) % CountMod)) = (((a + 1) % CountMod) + n)
    BY <1>1, <1>3
  <2>. QED BY <1>4, <2>1, <2>2, <2>3, <2>4
<1>5. /\ Counted(d, cs)["NO_RESP"] = IF "NO_RESP" \in cs THEN (a + 1) % CountMod ELSE a
      /\ Counted(d, cs)["BUS"] = IF "BUS" \in cs THEN (b + 1) % CountMod ELSE b
  BY DEF Counted, a, b
<1>6. Balanced(d, n) <=> (n + a) % CountMod = b
  BY DEF Balanced, a, b
<1>. QED BY <1>2, <1>4, <1>5, <1>6 DEF Balanced

\* What mb_server_process counts, and behind it the transport for a request that
\* is left unanswered, keeps the balance; FC08 clear starts a new one.
LEMMA ProcessedBalance ==
  ASSUME NEW d \in [Counters -> Nat], served \in Nat, Balanced(d, served),
         NEW says, NEW quiet \in BOOLEAN, NEW e,
         e = IF quiet THEN Counted(Processed(d, says), {"NO_RESP"}) ELSE Processed(d, says)
  PROVE  /\ e \in [Counters -> Nat] /\ ServedAfter(says, quiet) \in Nat
         /\ Balanced(e, ServedAfter(says, quiet))
<1>0. CountMod \in Nat \ {0}
  BY MbServerAssumption
<1>1. CASE says = "clear"
  <2>. DEFINE zero == [c \in Counters |-> 0]
  <2>0. Processed(d, says) = zero /\ zero \in [Counters -> Nat]
    BY <1>1 DEF Processed
  <2>1. 0 % CountMod = 0 /\ CountMod % CountMod = 0
    <3>1. 0 \in Nat /\ 1 \in Nat /\ 0 \in 0 .. CountMod - 1
          /\ 0 * CountMod + 0 = 0 /\ 1 * CountMod + 0 = CountMod
      BY <1>0
    <3>2. (0 * CountMod + 0) % CountMod = 0 /\ (1 * CountMod + 0) % CountMod = 0
      BY <1>0, <3>1, ModUnique
    <3>. QED BY <3>1, <3>2
  <2>2. CASE ~quiet
    <3>1. e = zero /\ ServedAfter(says, quiet) = 0
      BY <1>1, <2>0, <2>2 DEF ServedAfter
    <3>. QED BY <2>0, <2>1, <3>1 DEF Balanced, Counters
  <2>3. CASE quiet
    <3>1. e = Counted(zero, {"NO_RESP"}) /\ ServedAfter(says, quiet) = CountMod - 1
      BY <1>1, <2>0, <2>3 DEF ServedAfter
    <3>2. e \in [Counters -> Nat]
      BY <2>0, <3>1, CountedBalance
    <3>3. e["BUS"] = 0 /\ e["NO_RESP"] = 1 % CountMod
      BY <3>1 DEF Counted, Counters
    <3>4. ((1 % CountMod) + (CountMod - 1)) % CountMod = (1 + (CountMod - 1)) % CountMod
      <4>1. 1 \in Nat /\ CountMod - 1 \in Nat
        BY <1>0
      <4>. QED BY <1>0, <4>1, ModPlus, Zenon
    <3>5. (CountMod - 1) + (1 % CountMod) = (1 % CountMod) + (CountMod - 1)
          /\ 1 + (CountMod - 1) = CountMod /\ CountMod - 1 \in Nat
      <4>1. 1 % CountMod \in Nat
        BY <1>0, DivMod
      <4>. QED BY <1>0, <4>1
    <3>. QED BY <2>1, <3>1, <3>2, <3>3, <3>4, <3>5 DEF Balanced
  <2>. QED BY <2>2, <2>3
<1>2. CASE says # "clear"
  <2>. DEFINE cs == {"BUS", "SRV"} \cup (IF says = "exc" THEN {"EXC"} ELSE {})
  <2>0. /\ Processed(d, says) = Counted(d, cs)
        /\ "BUS" \in cs /\ "NO_RESP" \notin cs /\ "BUS" \in cs \cup {"NO_RESP"}
        /\ ServedAfter(says, quiet) = IF quiet THEN served ELSE (served + 1) % CountMod
    BY <1>2 DEF Processed, ServedAfter
  <2>. HIDE DEF cs
  <2>1. (served + 1) % CountMod \in Nat
    BY <1>0, DivMod
  <2>2. CASE ~quiet
    BY <2>0, <2>1, <2>2, CountedBalance
  <2>3. CASE quiet
    <3>1. e = Counted(d, cs \cup {"NO_RESP"})
      BY <2>0, <2>3 DEF Counted
    <3>. QED BY <2>0, <2>3, <3>1, CountedBalance
  <2>. QED BY <2>2, <2>3
<1>. QED BY <1>1, <1>2

\* mb_recv_cb counts a frame it processes by the outcome of mbtcp_adu_process.
LEMMA TcpCounts ==
  ASSUME CountInv, part # "server", TcpNext
  PROVE  diag' \in [Counters -> Nat] /\ served' \in Nat /\ Balanced(diag', served')
<1>0. diag \in [Counters -> Nat] /\ served \in Nat /\ Balanced(diag, served)
  BY DEF CountInv
<1>1. CASE UNCHANGED <<diag, served>>
  BY <1>0, <1>1
<1>2. CASE \E c, f, rest : ProcessFrame(c, f, rest)
  <2>1. PICK f : /\ diag' = AduCounts(diag, f)
                 /\ served' = IF AduVerdict(f) = "failure" THEN served
                              ELSE ServedAfter(AduSays(f), AduVerdict(f) \notin Answers)
    BY <1>2 DEF ProcessFrame
  <2>. DEFINE quiet == AduVerdict(f) \notin Answers
              says == AduSays(f)
  <2>2. CASE AduVerdict(f) = "failure"
    BY <1>0, <2>1, <2>2 DEF AduCounts
  <2>3. CASE AduVerdict(f) # "failure"
    <3>1. quiet \in BOOLEAN /\ served' = ServedAfter(says, quiet)
      BY <2>1, <2>3
    <3>2. diag' = IF quiet THEN Counted(Processed(diag, says), {"NO_RESP"})
                  ELSE Processed(diag, says)
      BY <2>1, <2>3 DEF AduCounts
    <3>. HIDE DEF quiet, says
    <3>. QED BY <1>0, <3>1, <3>2, ProcessedBalance
  <2>. QED BY <2>2, <2>3
<1>3. RecvStep => UNCHANGED <<diag, served>> \/ \E c, f, rest : ProcessFrame(c, f, rest)
  BY DEF RecvStep
<1>. QED BY <1>1, <1>2, <1>3 DEF TcpNext, MbAccept, MbRecv, MbGone, MbPoll, FrameTimeout, MasterSends

\* rtu_t35_expired counts a frame when it refuses it or when the server is done.
LEMMA RtuCountsInv ==
  ASSUME CountInv, part # "server", RtuNext
  PROVE  diag' \in [Counters -> Nat] /\ served' \in Nat /\ Balanced(diag', served')
<1>0. diag \in [Counters -> Nat] /\ served \in Nat /\ Balanced(diag, served)
  BY DEF CountInv
<1>1. CASE UNCHANGED <<diag, served>>
  BY <1>0, <1>1
<1>2. CASE ResetAndCheck
  <2>1. PICK v : diag' = Counted(diag, RtuCounts(v)) /\ served' = served
    BY <1>2 DEF ResetAndCheck
  <2>2. \/ "BUS" \in RtuCounts(v) /\ "NO_RESP" \in RtuCounts(v)
        \/ RtuCounts(v) = {}
    BY DEF RtuCounts
  <2>. QED BY <1>0, <2>1, <2>2, CountedBalance
<1>3. CASE ServeFrame
  <2>. DEFINE f == SubSeq(rxBuf, 1, snap.len)
              says == RtuSays(f)
              quiet == says = "silent" \/ f[1] = 0
  <2>1. /\ diag' = Counted(Processed(diag, says), IF quiet THEN {"NO_RESP"} ELSE {})
        /\ served' = ServedAfter(says, quiet) /\ quiet \in BOOLEAN
    BY <1>3 DEF ServeFrame
  <2>. HIDE DEF quiet, says
  <2>2. Processed(diag, says) \in [Counters -> Nat]
    <3>1. [c \in Counters |-> 0] \in [Counters -> Nat]
      OBVIOUS
    <3>2. \A cs : Counted(diag, cs) \in [Counters -> Nat]
      BY <1>0, CountedBalance
    <3>. QED BY <3>1, <3>2 DEF Processed
  <2>3. Counted(Processed(diag, says), {}) = Processed(diag, says)
    <3>. DEFINE p == Processed(diag, says)
    <3>1. Counted(p, {}) = [c \in Counters |-> p[c]]
      BY DEF Counted
    <3>. HIDE DEF p
    <3>. QED BY <2>2, <3>1 DEF p
  <2>4. diag' = IF quiet THEN Counted(Processed(diag, says), {"NO_RESP"}) ELSE Processed(diag, says)
    BY <2>1, <2>3
  <2>. QED BY <1>0, <2>1, <2>4, ProcessedBalance
<1>. QED BY <1>1, <1>2, <1>3 DEF RtuNext, RtuTask, RxEvent, UartError, TxCplt, T35Elapses,
            T35TimerCb, TakeFrame, AbortReceive, DriveBus, Transmit, CheckBusy

\* A request of a master leaves the counters natural numbers.
LEMMA MbCounts ==
  ASSUME CountInv, MbNext
  PROVE  diag' \in [Counters -> Nat] /\ served' \in Nat
<1>0. diag \in [Counters -> Nat] /\ served \in Nat
  BY DEF CountInv
<1>1. \A cs : Counted(diag, cs) \in [Counters -> Nat]
  BY <1>0, CountedBalance
<1>2. [c \in Counters |-> 0] \in [Counters -> Nat]
  OBVIOUS
<1>3. ASSUME NEW q, MbProcess(q)
      PROVE  (diag' = [c \in Counters |-> 0] \/ \E cs : diag' = Counted(diag, cs)) /\ served' = served
  <2>1. PICK says : diag' = Processed(diag, says)
    BY <1>3 DEF MbProcess
  <2>2. served' = served
    BY <1>3 DEF MbProcess
  <2>. QED BY <2>1, <2>2 DEF Processed
<1>. QED BY <1>0, <1>1, <1>2, <1>3 DEF MbNext, MbSample, MbTick

\* Every request a transport counts as seen is answered or counted as unanswered
\* (mbtcp_adu.c:100, rtu_frame.c:93), across the wrap-around of the counters and
\* from each FC08 clear to the next (mb_server.c:428).
THEOREM CountersAgree == ModbusSpec => []CountersBalance
<1>1. ModbusInit => CountInv
  <2>1. CountMod \in Nat \ {0} /\ 0 % CountMod = 0
    BY MbServerAssumption
  <2>. QED BY <2>1 DEF ModbusInit, MbInit, CountInv, Balanced, Counters
<1>2. CountInv /\ [ModbusNext]_modbusVars => CountInv'
  <2>. SUFFICES ASSUME CountInv, [ModbusNext]_modbusVars PROVE CountInv'
    OBVIOUS
  <2>1. CASE UNCHANGED modbusVars
    BY <2>1 DEF modbusVars, mbVars, CountInv
  <2>2. CASE part = "server" /\ MbNext /\ part' = part
    BY <2>2, MbCounts DEF CountInv
  <2>3. CASE part = "tcp" /\ TcpNext /\ part' = part
    BY <2>3, TcpCounts DEF CountInv
  <2>4. CASE part = "rtu" /\ RtuNext /\ part' = part
    BY <2>4, RtuCountsInv DEF CountInv
  <2>. QED BY <2>1, <2>2, <2>3, <2>4 DEF ModbusNext
<1>3. CountInv => CountersBalance
  BY DEF CountInv, CountersBalance, Balanced
<1>. QED BY <1>1, <1>2, <1>3, PTL DEF ModbusSpec

-----------------------------------------------------------------------------
(* The byte streams of the TCP masters                                     *)

\* The length of the frame that begins with r, and a buffer that is not one yet.
FrameLen(r) == IF FrameNeed(r) < Header THEN Header ELSE FrameNeed(r)
Incomplete(r) == Len(r) < Header \/ Len(r) < FrameLen(r)

\* x holds the frame f and the bytes y behind it.
CutsOff(x, f, y) ==
  /\ Len(x) >= Header /\ Len(x) >= FrameLen(x)
  /\ f = SubSeq(x, 1, FrameLen(x)) /\ y = SubSeq(x, FrameLen(x) + 1, Len(x))

\* s is the frames fs and the beginning r of the next: R[k] is what follows the
\* k-th frame.
ChainBy(R, s, fs, r) ==
  /\ R \in [0 .. Len(fs) -> Seq(Nat)] /\ R[0] = s /\ R[Len(fs)] = r
  /\ \A k \in 1 .. Len(fs) : CutsOff(R[k - 1], fs[k], R[k])
  /\ \A k \in 0 .. Len(fs) : k + Len(R[k]) <= Len(s)

Chain(s, fs, r) == Incomplete(r) /\ \E R : ChainBy(R, s, fs, r)

\* frame_need depends on the header only, and is a number.
LEMMA NeedType ==
  ASSUME NEW x \in Seq(Nat), Len(x) >= Header
  PROVE  /\ FrameNeed(x) \in Nat /\ FrameLen(x) \in Nat /\ FrameLen(x) >= Header
         /\ \A t \in Seq(Nat) : /\ FrameNeed(x \o t) = FrameNeed(x)
                               /\ FrameLen(x \o t) = FrameLen(x)
<1>1. Len(x) \in Nat /\ 2 \in 1 .. Len(x) /\ x[2] \in Nat
  BY LenProperties, ElementOfSeq DEF Header
<1>2. FrameNeed(x) \in Nat
  BY <1>1, TcpAssumption DEF FrameNeed, MinOf, Prefix
<1>3. ASSUME NEW t \in Seq(Nat) PROVE FrameNeed(x \o t) = FrameNeed(x)
  <2>1. Len(t) \in Nat /\ 2 \in 1 .. Len(x) + Len(t) /\ 2 <= Len(x)
    BY <1>1, LenProperties DEF Header
  <2>2. (x \o t)[2] = x[2]
    BY <2>1, ConcatProperties
  <2>. QED BY <2>2 DEF FrameNeed
<1>. QED BY <1>2, <1>3 DEF FrameLen, Header

\* Bytes that arrive later do not change how a complete frame is cut off.
LEMMA CutsOffExtends ==
  ASSUME NEW x \in Seq(Nat), NEW f, NEW y, CutsOff(x, f, y), NEW t \in Seq(Nat)
  PROVE  CutsOff(x \o t, f, y \o t)
<1>1. Len(x) >= Header /\ Len(x) >= FrameLen(x) /\ Len(x) \in Nat /\ Len(t) \in Nat
  BY LenProperties DEF CutsOff
<1>2. FrameLen(x) \in 0 .. Len(x) /\ FrameLen(x \o t) = FrameLen(x)
  BY <1>1, NeedType DEF Header
<1>3. Len(x \o t) = Len(x) + Len(t)
  BY ConcatProperties
<1>4. /\ SubSeq(x \o t, 1, FrameLen(x)) = SubSeq(x, 1, FrameLen(x))
      /\ SubSeq(x \o t, FrameLen(x) + 1, Len(x \o t))
           = SubSeq(x, FrameLen(x) + 1, Len(x)) \o t
  BY <1>2, CutConcat
<1>5. Len(x \o t) >= Header /\ Len(x \o t) >= FrameLen(x \o t)
  <2>1. FrameLen(x) \in Nat
    BY <1>1, NeedType
  <2>. QED BY <1>1, <1>2, <1>3, <2>1 DEF Header
<1>6. f = SubSeq(x, 1, FrameLen(x)) /\ y = SubSeq(x, FrameLen(x) + 1, Len(x))
  BY DEF CutsOff
<1>. QED BY <1>2, <1>4, <1>5, <1>6 DEF CutsOff

\* More bytes lengthen every rest of the stream.
LEMMA ChainExtends ==
  ASSUME NEW s \in Seq(Nat), NEW fs \in Seq(Seq(Nat)), NEW r, NEW R, ChainBy(R, s, fs, r),
         NEW t \in Seq(Nat)
  PROVE  ChainBy([k \in 0 .. Len(fs) |-> R[k] \o t], s \o t, fs, r \o t)
<1>. DEFINE Q == [k \in 0 .. Len(fs) |-> R[k] \o t]
<1>0. /\ Len(fs) \in Nat /\ Len(t) \in Nat /\ Len(s) \in Nat
      /\ R \in [0 .. Len(fs) -> Seq(Nat)]
      /\ Len(s \o t) = Len(s) + Len(t)
  BY LenProperties, ConcatProperties DEF ChainBy
<1>1. \A k \in 0 .. Len(fs) : Q[k] = R[k] \o t /\ Q[k] \in Seq(Nat) /\ Len(Q[k]) = Len(R[k]) + Len(t)
  <2>1. ASSUME NEW k \in 0 .. Len(fs)
        PROVE  R[k] \o t \in Seq(Nat) /\ Len(R[k] \o t) = Len(R[k]) + Len(t)
    <3>1. R[k] \in Seq(Nat)
      BY <1>0
    <3>. QED BY <3>1, ConcatProperties
  <2>. QED BY <2>1
<1>2. Q \in [0 .. Len(fs) -> Seq(Nat)]
  BY <1>0, ConcatProperties
<1>. HIDE DEF Q
<1>3. Q[0] = s \o t /\ Q[Len(fs)] = r \o t
  <2>1. 0 \in 0 .. Len(fs) /\ Len(fs) \in 0 .. Len(fs)
    BY <1>0
  <2>2. R[0] = s /\ R[Len(fs)] = r
    BY DEF ChainBy
  <2>. QED BY <1>1, <2>1, <2>2
<1>4. ASSUME NEW k \in 1 .. Len(fs) PROVE CutsOff(Q[k - 1], fs[k], Q[k])
  <2>1. k - 1 \in 0 .. Len(fs) /\ k \in 0 .. Len(fs)
    BY <1>0
  <2>2. CutsOff(R[k - 1], fs[k], R[k]) /\ R[k - 1] \in Seq(Nat)
    BY <1>0, <2>1 DEF ChainBy
  <2>3. CutsOff(R[k - 1] \o t, fs[k], R[k] \o t)
    BY <2>2, CutsOffExtends
  <2>. QED BY <1>1, <2>1, <2>3
<1>5. ASSUME NEW k \in 0 .. Len(fs) PROVE k + Len(Q[k]) <= Len(s \o t)
  <2>1. k + Len(R[k]) <= Len(s) /\ R[k] \in Seq(Nat)
    BY <1>0 DEF ChainBy
  <2>2. Len(R[k]) \in Nat
    BY <2>1, LenProperties
  <2>. QED BY <1>0, <1>1, <2>1, <2>2
<1>6. ChainBy(Q, s \o t, fs, r \o t)
  BY <1>2, <1>3, <1>4, <1>5 DEF ChainBy
<1>. QED BY <1>6 DEF Q

\* mb_recv_cb took in bytes and the frame is not complete.
LEMMA ChainGrows ==
  ASSUME NEW s \in Seq(Nat), NEW fs \in Seq(Seq(Nat)), NEW r, Chain(s, fs, r),
         NEW t \in Seq(Nat), Incomplete(r \o t)
  PROVE  Chain(s \o t, fs, r \o t)
BY ChainExtends DEF Chain

\* mb_recv_cb took in the last bytes of a frame.
LEMMA ChainFrame ==
  ASSUME NEW s \in Seq(Nat), NEW fs \in Seq(Seq(Nat)), NEW r \in Seq(Nat), Chain(s, fs, r),
         NEW t \in Seq(Nat),
         Len(r \o t) >= Header, Len(r \o t) = FrameLen(r \o t)
  PROVE  Chain(s \o t, Append(fs, r \o t), <<>>)
<1>. DEFINE x == r \o t
            n == Len(fs)
            gs == Append(fs, x)
<1>1. PICK R : ChainBy(R, s \o t, fs, x)
  BY ChainExtends DEF Chain
<1>2. x \in Seq(Nat)
  BY ConcatProperties
<1>3. Len(x) >= Header /\ Len(x) = FrameLen(x) /\ n \in Nat /\ Len(x) \in Nat
  BY <1>2, LenProperties
<1>. HIDE DEF x
<1>4. /\ gs \in Seq(Seq(Nat)) /\ Len(gs) = n + 1
      /\ \A k \in 1 .. n : gs[k] = fs[k]
      /\ gs[n + 1] = x
  BY <1>2, AppendProperties
<1>. DEFINE Q == [k \in 0 .. n + 1 |-> IF k <= n THEN R[k] ELSE <<>>]
<1>. HIDE DEF gs
<1>5. <<>> \in Seq(Nat) /\ Len(<<>>) = 0 /\ R \in [0 .. n -> Seq(Nat)] /\ R[n] = x /\ R[0] = s \o t
  BY <1>1, EmptySeq DEF ChainBy
<1>6. /\ Q \in [0 .. Len(gs) -> Seq(Nat)]
      /\ \A k \in 0 .. n : Q[k] = R[k]
      /\ Q[n + 1] = <<>>
  BY <1>3, <1>4, <1>5
<1>. HIDE DEF Q
<1>7. CutsOff(x, x, <<>>)
  <2>1. SubSeq(x, 1, Len(x)) = x
    BY <1>2, SubSeqFull
  <2>2. SubSeq(x, Len(x) + 1, Len(x)) = <<>>
    BY <1>3, SubSeqEmpty
  <2>. QED BY <1>3, <2>1, <2>2 DEF CutsOff
<1>8. ASSUME NEW k \in 1 .. Len(gs) PROVE CutsOff(Q[k - 1], gs[k], Q[k])
  <2>1. CASE k \in 1 .. n
    <3>1. CutsOff(R[k - 1], fs[k], R[k])
      BY <1>1, <2>1 DEF ChainBy
    <3>2. k - 1 \in 0 .. n /\ k \in 0 .. n
      BY <1>3, <2>1
    <3>. QED BY <1>4, <1>6, <2>1, <3>1, <3>2
  <2>2. CASE k = n + 1
    <3>1. k - 1 = n /\ n \in 0 .. n
      BY <1>3, <2>2
    <3>. QED BY <1>4, <1>5, <1>6, <1>7, <2>2, <3>1
  <2>. QED BY <1>3, <1>4, <2>1, <2>2
<1>9. ASSUME NEW k \in 0 .. Len(gs) PROVE k + Len(Q[k]) <= Len(s \o t)
  <2>1. CASE k \in 0 .. n
    BY <1>1, <1>6, <2>1 DEF ChainBy
  <2>2. CASE k = n + 1
    <3>1. n + Len(x) <= Len(s \o t) /\ Len(s \o t) \in Nat
      <4>1. n \in 0 .. n /\ s \o t \in Seq(Nat)
        BY <1>3, ConcatProperties
      <4>. QED BY <1>1, <1>5, <4>1, LenProperties DEF ChainBy
    <3>. QED BY <1>3, <1>5, <1>6, <2>2, <3>1 DEF Header
  <2>. QED BY <1>3, <1>4, <2>1, <2>2
<1>10. ChainBy(Q, s \o t, gs, <<>>)
  <2>1. Q[0] = s \o t /\ Q[Len(gs)] = <<>>
    <3>1. 0 \in 0 .. n
      BY <1>3
    <3>. QED BY <1>4, <1>5, <1>6, <3>1
  <2>. QED BY <1>6, <1>8, <1>9, <2>1 DEF ChainBy
<1>11. Incomplete(<<>>)
  BY <1>5 DEF Incomplete, Header
<1>. QED BY <1>10, <1>11 DEF Chain, gs, x

\* One turn of the reference on a stream of N bytes: the next frame, if it is there.
SplitLen(x, N) ==
  IF Len(x) < Header THEN N + 1 ELSE Max({Header, Prefix + Min({x[2], LenClamp})})
SplitStep(p, N) ==
  IF Len(p.rest) < SplitLen(p.rest, N) THEN p
  ELSE [done |-> Append(p.done, SubSeq(p.rest, 1, SplitLen(p.rest, N))),
        rest |-> SubSeq(p.rest, SplitLen(p.rest, N) + 1, Len(p.rest))]

\* The reference cuts where frame_need does.
LEMMA SplitLenIs ==
  ASSUME NEW x \in Seq(Nat), NEW N
  PROVE  Len(x) >= Header => SplitLen(x, N) = FrameLen(x)
<1>. SUFFICES ASSUME Len(x) >= Header PROVE SplitLen(x, N) = FrameLen(x)
  OBVIOUS
<1>1. Len(x) \in Nat /\ 2 \in 1 .. Len(x) /\ x[2] \in Nat /\ LenClamp \in Nat
  BY LenProperties, ElementOfSeq, TcpAssumption DEF Header
<1>2. Min({x[2], LenClamp}) = IF x[2] <= LenClamp THEN x[2] ELSE LenClamp
  BY <1>1, MinPair
<1>3. FrameNeed(x) = Prefix + Min({x[2], LenClamp})
  <2>1. MinOf(x[2], LenClamp) = Min({x[2], LenClamp})
    BY <1>1, <1>2 DEF MinOf
  <2>. QED BY <2>1 DEF FrameNeed
<1>4. Max({Header, FrameNeed(x)}) = IF Header >= FrameNeed(x) THEN Header ELSE FrameNeed(x)
  <2>1. FrameNeed(x) \in Int /\ Header \in Int
    BY NeedType DEF Header
  <2>. QED BY <2>1, MaxPair
<1>5. SplitLen(x, N) = Max({Header, FrameNeed(x)})
  BY <1>1, <1>3 DEF SplitLen, Header
<1>6. FrameNeed(x) \in Int
  BY NeedType
<1>. QED BY <1>4, <1>5, <1>6 DEF FrameLen, Header

\* The reference is determined by its turns: where they can be followed, by p, it
\* ends where p does.
LEMMA SplitFollows ==
  ASSUME NEW s \in Seq(Nat), NEW p,
         p = [k \in 0 .. Len(s) |-> IF k = 0 THEN [done |-> <<>>, rest |-> s]
                                   ELSE SplitStep(p[k - 1], Len(s))]
  PROVE  Split(s) = p[Len(s)]
<1>. DEFINE N == Len(s)
            Turns(f) == f = [k \in 0 .. N |-> IF k = 0 THEN [done |-> <<>>, rest |-> s]
                                             ELSE SplitStep(f[k - 1], N)]
            g == CHOOSE f : Turns(f)
<1>0. N \in Nat
  BY LenProperties
<1>1. Split(s) = g[N]
  BY DEF Split, SplitStep, SplitLen
<1>2. Turns(p)
  OBVIOUS
<1>3. Turns(g)
  BY <1>2
<1>. HIDE DEF g, N
<1>. DEFINE S == {k \in Nat : k <= N => g[k] = p[k]}
<1>4. 0 \in S
  BY <1>0, <1>2, <1>3
<1>5. ASSUME NEW k \in S PROVE k + 1 \in S
  <2>. SUFFICES ASSUME k + 1 <= N PROVE g[k + 1] = p[k + 1]
    OBVIOUS
  <2>1. k \in Nat /\ k + 1 \in 0 .. N /\ k + 1 # 0 /\ (k + 1) - 1 = k /\ g[k] = p[k]
    BY <1>0
  <2>2. g[k + 1] = SplitStep(g[(k + 1) - 1], N)
    BY <1>3, <2>1
  <2>3. p[k + 1] = SplitStep(p[(k + 1) - 1], N)
    BY <1>2, <2>1
  <2>. QED BY <2>1, <2>2, <2>3
<1>6. S = Nat
  <2>1. S \subseteq Nat
    OBVIOUS
  <2>. HIDE DEF S
  <2>. QED BY <1>4, <1>5, <2>1, SetInduction
<1>7. N \in S
  BY <1>0, <1>6
<1>. QED BY <1>0, <1>1, <1>7 DEF N

\* A stream with the frames fs and the rest r is split into just these.
LEMMA SplitOfChain ==
  ASSUME NEW s \in Seq(Nat), NEW fs \in Seq(Seq(Nat)), NEW r, Chain(s, fs, r)
  PROVE  Split(s) = [done |-> fs, rest |-> r]
<1>. DEFINE n == Len(fs)
            N == Len(s)
<1>1. PICK R : ChainBy(R, s, fs, r)
  BY DEF Chain
<1>2. /\ n \in Nat /\ N \in Nat /\ R \in [0 .. n -> Seq(Nat)] /\ r \in Seq(Nat)
      /\ R[0] = s /\ R[n] = r
  BY <1>1, LenProperties DEF ChainBy
<1>3. n <= N
  <2>1. n \in 0 .. n /\ R[n] \in Seq(Nat)
    BY <1>2
  <2>2. n + Len(R[n]) <= N /\ Len(R[n]) \in Nat
    BY <1>1, <2>1, LenProperties DEF ChainBy
  <2>. QED BY <1>2, <2>2
<1>. HIDE DEF N
<1>. DEFINE last == [done |-> fs, rest |-> r]
            p == [k \in 0 .. N |-> IF k <= n THEN [done |-> SubSeq(fs, 1, k), rest |-> R[k]]
                                   ELSE last]
<1>4. SubSeq(fs, 1, 0) = <<>> /\ SubSeq(fs, 1, n) = fs
  BY SubSeqEmpty, SubSeqFull
<1>5. SplitStep(last, N) = last
  <2>1. Len(r) < SplitLen(r, N)
    <3>1. CASE Len(r) < Header
      <4>1. 0 + Len(R[n]) <= n + Len(R[n]) /\ n + Len(R[n]) <= N /\ Len(r) \in Nat
        <5>1. n \in 0 .. n /\ Len(r) \in Nat
          BY <1>2, LenProperties
        <5>. QED BY <1>1, <1>2, <5>1 DEF ChainBy, N
      <4>. QED BY <1>2, <3>1, <4>1 DEF SplitLen
    <3>2. CASE ~(Len(r) < Header)
      <4>1. Len(r) >= Header /\ Len(r) < FrameLen(r)
        BY <1>2, <3>2, LenProperties DEF Chain, Incomplete, Header
      <4>. QED BY <1>2, <4>1, SplitLenIs
    <3>. QED BY <3>1, <3>2
  <2>. QED BY <2>1 DEF SplitStep
<1>6. ASSUME NEW k \in 1 .. n
      PROVE  SplitStep([done |-> SubSeq(fs, 1, k - 1), rest |-> R[k - 1]], N)
               = [done |-> SubSeq(fs, 1, k), rest |-> R[k]]
  <2>. DEFINE x == R[k - 1]
  <2>1. x \in Seq(Nat) /\ CutsOff(x, fs[k], R[k])
    <3>1. k - 1 \in 0 .. n
      BY <1>2
    <3>. QED BY <1>1, <1>2, <3>1 DEF ChainBy
  <2>. HIDE DEF x
  <2>2. /\ Len(x) >= Header /\ Len(x) >= FrameLen(x) /\ SplitLen(x, N) = FrameLen(x)
        /\ SubSeq(x, 1, FrameLen(x)) = fs[k] /\ SubSeq(x, FrameLen(x) + 1, Len(x)) = R[k]
    BY <2>1, SplitLenIs DEF CutsOff
  <2>3. ~(Len(x) < SplitLen(x, N))
    BY <2>1, <2>2, NeedType, LenProperties
  <2>4. SubSeq(fs, 1, k) = Append(SubSeq(fs, 1, k - 1), fs[k])
    <3>1. k \in 1 .. Len(fs) /\ 1 \in 1 .. Len(fs) /\ k \in 1 .. Len(fs) /\ k - 1 \in 0 .. Len(fs)
      BY <1>2
    <3>2. SubSeq(fs, 1, k) = SubSeq(fs, 1, k - 1) \o <<fs[k]>>
      BY <3>1, SubSeqRecursiveSecond
    <3>3. SubSeq(fs, 1, k - 1) \in Seq(Seq(Nat)) /\ fs[k] \in Seq(Nat)
      BY <3>1, PrefixProperties, ElementOfSeq
    <3>. QED BY <3>2, <3>3, AppendIsConcat
  <2>. QED BY <2>2, <2>3, <2>4 DEF SplitStep, x
<1>7. p = [k \in 0 .. N |-> IF k = 0 THEN [done |-> <<>>, rest |-> s] ELSE SplitStep(p[k - 1], N)]
  <2>. SUFFICES ASSUME NEW k \in 0 .. N
                PROVE  p[k] = IF k = 0 THEN [done |-> <<>>, rest |-> s] ELSE SplitStep(p[k - 1], N)
    OBVIOUS
  <2>1. CASE k = 0
    BY <1>2, <1>4, <2>1
  <2>2. CASE k \in 1 .. n
    <3>1. /\ k - 1 \in 0 .. N /\ k - 1 <= n /\ k <= n /\ k # 0
      BY <1>2, <1>3, <2>2
    <3>2. p[k - 1] = [done |-> SubSeq(fs, 1, k - 1), rest |-> R[k - 1]]
      BY <3>1
    <3>3. p[k] = [done |-> SubSeq(fs, 1, k), rest |-> R[k]]
      BY <3>1
    <3>. HIDE DEF p
    <3>. QED BY <1>6, <2>2, <3>1, <3>2, <3>3
  <2>3. CASE k > n
    <3>1. k - 1 \in 0 .. N /\ k - 1 >= n /\ k # 0 /\ ~(k <= n) /\ k \in Int
      BY <1>2, <1>3, <2>3
    <3>2. p[k] = last
      BY <3>1
    <3>3. p[k - 1] = last
      <4>1. CASE k - 1 = n
        BY <1>2, <1>4, <3>1, <4>1
      <4>2. CASE k - 1 # n
        <5>1. ~(k - 1 <= n)
          BY <1>2, <3>1, <4>2
        <5>. QED BY <3>1, <5>1
      <4>. QED BY <4>1, <4>2
    <3>. HIDE DEF p, last
    <3>. QED BY <1>5, <3>1, <3>2, <3>3
  <2>. QED BY <1>2, <2>1, <2>2, <2>3
<1>8. p[N] = last
  <2>1. N \in 0 .. N
    BY <1>2
  <2>2. CASE N = n
    BY <1>2, <1>4, <2>1, <2>2
  <2>3. CASE N # n
    BY <1>2, <1>3, <2>1, <2>3
  <2>. QED BY <2>2, <2>3
<1>. HIDE DEF p, last
<1>9. Split(s) = p[N]
  BY <1>7, SplitFollows DEF N
<1>. QED BY <1>8, <1>9 DEF last

-----------------------------------------------------------------------------
(* The connections of the TCP masters                                      *)

Slot == [up : BOOLEAN, rx : Seq(Nat), pending : Nat, stale : BOOLEAN]

TcpTypeOK ==
  /\ mconn \in [Conns -> Slot]
  /\ callback \in [conn : Conns \cup {0}, rest : Seq(Nat)]
  /\ callback # Idle => callback.conn \in Conns /\ mconn[callback.conn].up
  /\ wire \in [Conns -> Seq(Nat)] /\ got \in [Conns -> Seq(Nat)]
  /\ frames \in [Conns -> Seq(Seq(Nat))] /\ sent \in [Conns -> Seq(Nat)]

\* The slot of c is consistent with the history of the connection.
Wanted(F, k) == k \in 1 .. Len(F) /\ AduVerdict(F[k]) \in Answers

SlotReplies(c) ==
  /\ \A i \in 1 .. Len(sent[c]) : Wanted(frames[c], sent[c][i]) /\ sent[c][i] # mconn[c].pending
  /\ mconn[c].pending # 0 => Wanted(frames[c], mconn[c].pending)
  /\ \A i, j \in 1 .. Len(sent[c]) : sent[c][i] = sent[c][j] => i = j

SlotStream(c) == mconn[c].up => Chain(got[c], frames[c], mconn[c].rx)

TcpInv == TcpTypeOK /\ \A c \in Conns : SlotReplies(c) /\ SlotStream(c)

\* While the connection lives an answer, or a later one, is sent or waits.
Answered(c, k) == mconn[c].pending >= k \/ \E i \in 1 .. Len(sent[c]) : sent[c][i] >= k
SlotKeeps(c) == mconn[c].up => \A k : Wanted(frames[c], k) => Answered(c, k)

AnswersKept == \A c \in Conns : SlotKeeps(c)

\* What a step leaves alone stays consistent.
LEMMA SlotUnchanged ==
  ASSUME NEW c \in Conns, SlotReplies(c), SlotStream(c),
         mconn'[c] = mconn[c], got'[c] = got[c], frames'[c] = frames[c], sent'[c] = sent[c]
  PROVE  SlotReplies(c)' /\ SlotStream(c)'
BY DEF SlotReplies, SlotStream, Wanted

\* A slot that is given up drops its pending answer; what was sent stays right.
LEMMA SlotFreed ==
  ASSUME NEW c \in Conns, SlotReplies(c), mconn'[c] = Free,
         \A k : Wanted(frames[c], k) => Wanted(frames'[c], k), sent'[c] = sent[c]
  PROVE  SlotReplies(c)' /\ SlotStream(c)'
<1>1. mconn'[c].pending = 0 /\ mconn'[c].up = FALSE
  BY DEF Free
<1>2. \A i \in 1 .. Len(sent[c]) : sent[c][i] # 0
  BY DEF SlotReplies, Wanted
<1>3. SlotStream(c)'
  BY <1>1 DEF SlotStream
<1>4. SlotReplies(c)'
  BY <1>1, <1>2 DEF SlotReplies
<1>. QED BY <1>3, <1>4

\* An empty stream has no frames.
LEMMA EmptyChain == Chain(<<>>, <<>>, <<>>)
<1>. DEFINE R == [k \in 0 .. 0 |-> <<>>]
<1>0. <<>> \in Seq(Nat) /\ Len(<<>>) = 0
  BY EmptySeq
<1>1. ChainBy(R, <<>>, <<>>, <<>>)
  BY <1>0 DEF ChainBy
<1>. QED BY <1>0, <1>1 DEF Chain, Incomplete, Header

\* An answer that goes out later than the frames after it is still the only one.
LEMMA PollReplies ==
  ASSUME NEW c \in Conns, TcpTypeOK, SlotReplies(c), mconn[c].pending # 0,
         sent'[c] = Append(sent[c], mconn[c].pending), frames'[c] = frames[c],
         mconn'[c].pending = 0
  PROVE  SlotReplies(c)'
<1>. DEFINE s == sent[c]
            p == mconn[c].pending
<1>1. s \in Seq(Nat) /\ p \in Nat /\ Len(s) \in Nat
  BY LenProperties DEF TcpTypeOK, Slot
<1>2. Wanted(frames[c], p) /\ \A i \in 1 .. Len(s) : Wanted(frames[c], s[i]) /\ s[i] # p
  BY DEF SlotReplies
<1>3. /\ Len(Append(s, p)) = Len(s) + 1 /\ Append(s, p)[Len(s) + 1] = p
      /\ \A i \in 1 .. Len(s) : Append(s, p)[i] = s[i]
  BY <1>1, AppendProperties
<1>. DEFINE t == sent'[c]
<1>4. Len(t) = Len(s) + 1 /\ t[Len(s) + 1] = p /\ \A i \in 1 .. Len(s) : t[i] = s[i]
  BY <1>3
<1>5. \A i, j \in 1 .. Len(s) : s[i] = s[j] => i = j
  BY DEF SlotReplies
<1>6. \A k : Wanted(frames'[c], k) <=> Wanted(frames[c], k)
  BY DEF Wanted
<1>7. \A k : Wanted(frames[c], k) => k # 0
  BY DEF Wanted
<1>. HIDE DEF s, p, t
<1>8. \A i \in 1 .. Len(t) : Wanted(frames[c], t[i])
  <2>1. \A i \in 1 .. Len(t) : i \in 1 .. Len(s) \/ i = Len(s) + 1
    BY <1>1, <1>4
  <2>. QED BY <1>2, <1>4, <2>1
<1>9. ASSUME NEW i \in 1 .. Len(t), NEW j \in 1 .. Len(t), t[i] = t[j] PROVE i = j
  <2>1. i \in 1 .. Len(s) \/ i = Len(s) + 1
    BY <1>1, <1>4
  <2>2. j \in 1 .. Len(s) \/ j = Len(s) + 1
    BY <1>1, <1>4
  <2>. QED BY <1>2, <1>4, <1>5, <1>9, <2>1, <2>2
<1>. QED BY <1>6, <1>7, <1>8, <1>9 DEF SlotReplies, t

\* The frame just processed is wanted if it has an answer, and it is a new number.
LEMMA NewFrame ==
  ASSUME NEW c \in Conns, TcpTypeOK, NEW f \in Seq(Nat), frames'[c] = Append(frames[c], f)
  PROVE  /\ \A k : Wanted(frames[c], k) => Wanted(frames'[c], k)
         /\ AduVerdict(f) \in Answers => Wanted(frames'[c], Len(frames[c]) + 1)
         /\ ~Wanted(frames[c], Len(frames[c]) + 1)
         /\ Len(frames[c]) + 1 \in Nat \ {0}
<1>. DEFINE F == frames[c]
<1>1. F \in Seq(Seq(Nat)) /\ Len(F) \in Nat
  BY LenProperties DEF TcpTypeOK
<1>2. /\ Len(Append(F, f)) = Len(F) + 1 /\ Append(F, f)[Len(F) + 1] = f
      /\ \A i \in 1 .. Len(F) : Append(F, f)[i] = F[i]
  BY <1>1, AppendProperties
<1>. DEFINE G == frames'[c]
<1>3. Len(G) = Len(F) + 1 /\ G[Len(F) + 1] = f /\ \A i \in 1 .. Len(F) : G[i] = F[i]
  BY <1>2
<1>. HIDE DEF F, G
<1>5. ASSUME NEW k, Wanted(F, k) PROVE Wanted(G, k)
  <2>1. k \in 1 .. Len(F) /\ AduVerdict(F[k]) \in Answers
    BY <1>5 DEF Wanted
  <2>2. k \in 1 .. Len(G) /\ G[k] = F[k]
    BY <1>1, <1>3, <2>1
  <2>. QED BY <2>1, <2>2 DEF Wanted
<1>6. AduVerdict(f) \in Answers => Wanted(G, Len(F) + 1)
  <2>1. Len(F) + 1 \in 1 .. Len(G)
    BY <1>1, <1>3
  <2>. QED BY <1>3, <2>1 DEF Wanted
<1>7. ~Wanted(F, Len(F) + 1)
  <2>1. Len(F) + 1 \notin 1 .. Len(F)
    BY <1>1
  <2>. QED BY <2>1 DEF Wanted
<1>8. Len(F) + 1 \in Nat \ {0}
  BY <1>1
<1>. QED BY <1>5, <1>6, <1>7, <1>8 DEF F, G

\* The answer to a new frame goes out while an older one waits, or waits itself.
LEMMA NewReply ==
  ASSUME NEW c \in Conns, TcpTypeOK, SlotReplies(c), NEW f \in Seq(Nat),
         frames'[c] = Append(frames[c], f)
  PROVE  LET n == Len(frames[c]) + 1
         IN (\/ UNCHANGED <<sent[c], mconn[c].pending>>
             \/ /\ AduVerdict(f) \in Answers
                /\ sent'[c] = Append(sent[c], n) /\ UNCHANGED mconn[c].pending
             \/ AduVerdict(f) \in Answers /\ sent'[c] = sent[c] /\ mconn'[c].pending = n)
            => SlotReplies(c)'
<1>. DEFINE n == Len(frames[c]) + 1
<1>0. /\ \A k : Wanted(frames[c], k) => Wanted(frames'[c], k)
      /\ AduVerdict(f) \in Answers => Wanted(frames'[c], n)
      /\ ~Wanted(frames[c], n) /\ n \in Nat \ {0}
  BY NewFrame
<1>. HIDE DEF n
<1>. DEFINE s == sent[c]
            p == mconn[c].pending
            t == sent'[c]
            q == mconn'[c].pending
<1>1. s \in Seq(Nat) /\ p \in Nat /\ Len(s) \in Nat
  BY LenProperties DEF TcpTypeOK, Slot
<1>2. /\ \A i \in 1 .. Len(s) : Wanted(frames[c], s[i]) /\ s[i] # p
      /\ p # 0 => Wanted(frames[c], p)
      /\ \A i, j \in 1 .. Len(s) : s[i] = s[j] => i = j
  BY DEF SlotReplies
<1>3. CASE UNCHANGED <<sent[c], mconn[c].pending>>
  BY <1>0, <1>2, <1>3 DEF SlotReplies
<1>4. CASE AduVerdict(f) \in Answers /\ t = Append(s, n) /\ q = p
  <2>1. Len(t) = Len(s) + 1 /\ t[Len(s) + 1] = n /\ \A i \in 1 .. Len(s) : t[i] = s[i]
    <3>1. Append(s, n) = t /\ n \in Nat /\ s \in Seq(Nat)
      BY <1>0, <1>1, <1>4
    <3>. HIDE DEF s, t
    <3>2. /\ Len(Append(s, n)) = Len(s) + 1 /\ Append(s, n)[Len(s) + 1] = n
          /\ \A i \in 1 .. Len(s) : Append(s, n)[i] = s[i]
      BY <3>1, AppendProperties
    <3>. QED BY <3>1, <3>2
  <2>2. n # p /\ (p # 0 => Wanted(frames'[c], p)) /\ Wanted(frames'[c], n)
    BY <1>0, <1>2, <1>4
  <2>. HIDE DEF s, p, t, q
  <2>3. \A i \in 1 .. Len(t) : i \in 1 .. Len(s) \/ i = Len(s) + 1
    BY <1>1, <2>1
  <2>4. \A i \in 1 .. Len(t) : Wanted(frames'[c], t[i]) /\ t[i] # p
    BY <1>0, <1>2, <2>1, <2>2, <2>3
  <2>5. \A i, j \in 1 .. Len(t) : t[i] = t[j] => i = j
    BY <1>0, <1>2, <2>1, <2>3
  <2>. QED BY <1>4, <2>2, <2>4, <2>5 DEF SlotReplies, t, q
<1>5. CASE AduVerdict(f) \in Answers /\ t = s /\ q = n
  BY <1>0, <1>2, <1>5 DEF SlotReplies
<1>. QED BY <1>3, <1>4, <1>5 DEF n

\* What a step leaves alone, or closes, keeps its answers.
LEMMA KeptUnchanged ==
  ASSUME NEW c \in Conns, SlotKeeps(c),
         mconn'[c].up => /\ mconn[c].up /\ mconn'[c].pending = mconn[c].pending
                         /\ frames'[c] = frames[c] /\ sent'[c] = sent[c]
  PROVE  SlotKeeps(c)'
BY DEF SlotKeeps, Answered, Wanted

\* The answer that waited goes out.
LEMMA KeptByPoll ==
  ASSUME NEW c \in Conns, TcpTypeOK, SlotKeeps(c), mconn[c].up, frames'[c] = frames[c],
         sent'[c] = Append(sent[c], mconn[c].pending)
  PROVE  SlotKeeps(c)'
<1>. DEFINE s == sent[c]
            p == mconn[c].pending
            t == sent'[c]
<1>1. s \in Seq(Nat) /\ p \in Nat /\ Len(s) \in Nat
  BY LenProperties DEF TcpTypeOK, Slot
<1>2. /\ Len(Append(s, p)) = Len(s) + 1 /\ Append(s, p)[Len(s) + 1] = p
      /\ \A i \in 1 .. Len(s) : Append(s, p)[i] = s[i]
  BY <1>1, AppendProperties
<1>3. Len(t) = Len(s) + 1 /\ t[Len(s) + 1] = p /\ \A i \in 1 .. Len(s) : t[i] = s[i]
  BY <1>2
<1>4. ASSUME NEW k, Wanted(frames'[c], k) PROVE \E i \in 1 .. Len(t) : t[i] >= k
  <2>1. p >= k \/ \E i \in 1 .. Len(s) : s[i] >= k
    BY <1>4 DEF SlotKeeps, Answered, Wanted
  <2>. HIDE DEF s, p, t
  <2>2. CASE p >= k
    <3>1. Len(s) + 1 \in 1 .. Len(t)
      BY <1>1, <1>3
    <3>. QED BY <1>3, <2>2, <3>1
  <2>3. CASE \E i \in 1 .. Len(s) : s[i] >= k
    <3>1. PICK i \in 1 .. Len(s) : s[i] >= k
      BY <2>3
    <3>2. i \in 1 .. Len(t)
      BY <1>1, <1>3
    <3>. QED BY <1>3, <3>1, <3>2
  <2>. QED BY <2>1, <2>2, <2>3
<1>. QED BY <1>4 DEF SlotKeeps, Answered, t

\* The answer to the newest frame is sent, or waits in the place of an older one.
LEMMA KeptByFrame ==
  ASSUME NEW c \in Conns, TcpTypeOK, SlotKeeps(c), mconn[c].up, NEW f \in Seq(Nat),
         frames'[c] = Append(frames[c], f),
         LET n == Len(frames[c]) + 1
         IN \/ AduVerdict(f) \notin Answers /\ UNCHANGED <<sent[c], mconn[c].pending>>
            \/ sent'[c] = Append(sent[c], n)
            \/ mconn'[c].pending = n
  PROVE  SlotKeeps(c)'
<1>. DEFINE F == frames[c]
            G == frames'[c]
            n == Len(F) + 1
<1>1. F \in Seq(Seq(Nat)) /\ Len(F) \in Nat /\ sent[c] \in Seq(Nat)
  BY LenProperties DEF TcpTypeOK
<1>2. /\ Len(Append(F, f)) = n /\ Append(F, f)[n] = f
      /\ \A i \in 1 .. Len(F) : Append(F, f)[i] = F[i]
  BY <1>1, AppendProperties
<1>3. Len(G) = n /\ G[n] = f /\ \A i \in 1 .. Len(F) : G[i] = F[i]
  BY <1>2
<1>4. ASSUME NEW k, Wanted(G, k)
      PROVE  k \in 1 .. n /\ (k = n => AduVerdict(f) \in Answers) /\ (k # n => Wanted(F, k))
  <2>. HIDE DEF F, G
  <2>1. k \in 1 .. n /\ AduVerdict(G[k]) \in Answers
    BY <1>3, <1>4 DEF Wanted
  <2>2. k # n => k \in 1 .. Len(F)
    BY <1>1, <2>1
  <2>. QED BY <1>3, <2>1, <2>2 DEF Wanted
<1>5. CASE AduVerdict(f) \notin Answers /\ UNCHANGED <<sent[c], mconn[c].pending>>
  <2>1. ASSUME NEW k, Wanted(G, k) PROVE Answered(c, k)
    BY <1>4, <1>5, <2>1 DEF SlotKeeps
  <2>2. \A k : Answered(c, k)' <=> Answered(c, k)
    BY <1>5 DEF Answered
  <2>. QED BY <2>1, <2>2 DEF SlotKeeps
<1>6. CASE sent'[c] = Append(sent[c], n)
  <2>1. Len(sent[c]) \in Nat /\ n \in Nat
    BY <1>1, LenProperties
  <2>2. Len(sent'[c]) = Len(sent[c]) + 1 /\ sent'[c][Len(sent[c]) + 1] = n
    <3>. HIDE DEF n
    <3>. QED BY <1>1, <1>6, <2>1, AppendProperties
  <2>3. \A k : Wanted(G, k) => n >= k
    BY <1>1, <1>4
  <2>4. Len(sent[c]) + 1 \in 1 .. Len(sent'[c])
    BY <2>1, <2>2
  <2>. QED BY <2>2, <2>3, <2>4 DEF SlotKeeps, Answered
<1>7. CASE mconn'[c].pending = n
  BY <1>1, <1>4, <1>7 DEF SlotKeeps, Answered
<1>. QED BY <1>5, <1>6, <1>7

\* process_frame: the slot is empty again, and the answer sent, kept or lost with
\* the connection.
LEMMA ProcessFrameInv ==
  ASSUME TcpInv, NEW c \in Conns, mconn[c].up, NEW f \in Seq(Nat), NEW rest \in Seq(Nat),
         ProcessFrame(c, f, rest), UNCHANGED wire,
         got' \in [Conns -> Seq(Nat)], \A d \in Conns : d # c => got'[d] = got[d],
         Chain(got'[c], Append(frames[c], f), <<>>)
  PROVE  TcpInv' /\ (AnswersKept => AnswersKept')
<1>. DEFINE n == Len(frames[c]) + 1
            empty == [mconn[c] EXCEPT !.rx = <<>>, !.stale = FALSE]
<1>0. /\ TcpTypeOK /\ mconn[c] \in Slot /\ <<>> \in Seq(Nat)
      /\ frames \in [Conns -> Seq(Seq(Nat))] /\ sent \in [Conns -> Seq(Nat)]
      /\ mconn \in [Conns -> Slot]
  BY EmptySeq DEF TcpInv, TcpTypeOK
<1>1. /\ frames' = [frames EXCEPT ![c] = Append(@, f)]
      /\ frames'[c] = Append(frames[c], f)
      /\ frames' \in [Conns -> Seq(Seq(Nat))]
  BY <1>0, AppendProperties DEF ProcessFrame
<1>2. n \in Nat
  BY <1>0, LenProperties
<1>3. /\ empty \in Slot /\ empty.up /\ empty.rx = <<>> /\ empty.pending = mconn[c].pending
      /\ [empty EXCEPT !.pending = n] \in Slot /\ [empty EXCEPT !.pending = n].up
      /\ [empty EXCEPT !.pending = n].rx = <<>> /\ [empty EXCEPT !.pending = n].pending = n
      /\ Free \in Slot
  BY <1>0, <1>2 DEF Slot, Free
<1>4. \/ /\ AduVerdict(f) \notin Answers
         /\ mconn' = [mconn EXCEPT ![c] = empty] /\ sent' = sent
         /\ callback' = [conn |-> IF rest = <<>> THEN 0 ELSE c, rest |-> rest]
      \/ /\ AduVerdict(f) \in Answers
         /\ mconn' = [mconn EXCEPT ![c] = empty] /\ sent' = [sent EXCEPT ![c] = Append(@, n)]
         /\ callback' = [conn |-> IF rest = <<>> THEN 0 ELSE c, rest |-> rest]
      \/ /\ AduVerdict(f) \in Answers
         /\ mconn' = [mconn EXCEPT ![c] = [empty EXCEPT !.pending = n]] /\ sent' = sent
         /\ callback' = [conn |-> IF rest = <<>> THEN 0 ELSE c, rest |-> rest]
      \/ mconn' = [mconn EXCEPT ![c] = Free] /\ sent' = sent /\ callback' = Idle
  BY DEF ProcessFrame, Closes
<1>. HIDE DEF n, empty
<1>5. /\ mconn' \in [Conns -> Slot] /\ sent' \in [Conns -> Seq(Nat)]
      /\ \A d \in Conns : d # c => mconn'[d] = mconn[d] /\ sent'[d] = sent[d] /\ frames'[d] = frames[d]
  <2>1. Append(sent[c], n) \in Seq(Nat)
    BY <1>0, <1>2, AppendProperties
  <2>. QED BY <1>0, <1>1, <1>3, <1>4, <2>1
<1>6. /\ callback' \in [conn : Conns \cup {0}, rest : Seq(Nat)]
      /\ callback' # Idle => callback'.conn \in Conns /\ mconn'[callback'.conn].up
  <2>1. CASE callback' = Idle
    BY <1>0, <2>1 DEF Idle
  <2>2. CASE callback' # Idle
    <3>1. /\ callback' = [conn |-> IF rest = <<>> THEN 0 ELSE c, rest |-> rest]
          /\ mconn'[c].up
      BY <1>0, <1>3, <1>4, <2>2
    <3>2. rest # <<>>
      BY <2>2, <3>1 DEF Idle
    <3>. QED BY <3>1, <3>2
  <2>. QED BY <2>1, <2>2
<1>7. TcpTypeOK'
  BY <1>0, <1>1, <1>5, <1>6 DEF TcpTypeOK
<1>8. SlotReplies(c)' /\ SlotStream(c)'
  <2>0. SlotReplies(c)
    BY DEF TcpInv
  <2>1. CASE mconn'[c] = Free /\ sent'[c] = sent[c]
    <3>1. \A k : Wanted(frames[c], k) => Wanted(frames'[c], k)
      BY <1>0, <1>1, NewFrame
    <3>. QED BY <2>0, <2>1, <3>1, SlotFreed
  <2>2. CASE /\ mconn'[c].rx = <<>>
             /\ \/ UNCHANGED <<sent[c], mconn[c].pending>>
                \/ /\ AduVerdict(f) \in Answers
                   /\ sent'[c] = Append(sent[c], n) /\ UNCHANGED mconn[c].pending
                \/ AduVerdict(f) \in Answers /\ sent'[c] = sent[c] /\ mconn'[c].pending = n
    <3>1. SlotReplies(c)'
      BY <1>0, <1>1, <2>0, <2>2, NewReply DEF n
    <3>2. SlotStream(c)'
      BY <1>1, <2>2 DEF SlotStream
    <3>. QED BY <3>1, <3>2
  <2>. QED BY <1>0, <1>3, <1>4, <2>1, <2>2
<1>9. \A d \in Conns : SlotReplies(d)' /\ SlotStream(d)'
  <2>1. ASSUME NEW d \in Conns, d # c PROVE SlotReplies(d)' /\ SlotStream(d)'
    <3>1. /\ mconn'[d] = mconn[d] /\ sent'[d] = sent[d] /\ frames'[d] = frames[d]
          /\ got'[d] = got[d] /\ SlotReplies(d) /\ SlotStream(d)
      BY <1>5, <2>1 DEF TcpInv
    <3>. QED BY <3>1, SlotUnchanged
  <2>. QED BY <1>8, <2>1
<1>10. ASSUME AnswersKept, NEW d \in Conns PROVE SlotKeeps(d)'
  <2>1. SlotKeeps(d) /\ mconn[c].up
    BY <1>10 DEF AnswersKept
  <2>2. CASE d # c
    BY <1>5, <2>1, <2>2, KeptUnchanged
  <2>3. CASE d = c /\ mconn'[c] = Free
    BY <2>3 DEF SlotKeeps, Free
  <2>4. CASE d = c /\ (\/ AduVerdict(f) \notin Answers /\ UNCHANGED <<sent[c], mconn[c].pending>>
                       \/ sent'[c] = Append(sent[c], n)
                       \/ mconn'[c].pending = n)
    BY <1>0, <1>1, <2>1, <2>4, KeptByFrame DEF n
  <2>. QED BY <1>0, <1>3, <1>4, <2>2, <2>3, <2>4
<1>. QED BY <1>7, <1>9, <1>10 DEF TcpInv, AnswersKept

\* The loop of mb_recv_cb takes bytes up to the header, then up to the end of the
\* frame, and never one too many.
LEMMA RecvStepInv ==
  ASSUME TcpInv, RecvStep
  PROVE  TcpInv' /\ (AnswersKept => AnswersKept')
<1>c. PICK c \in Conns : c = callback.conn
  BY DEF RecvStep, TcpInv, TcpTypeOK
<1>. DEFINE rx == mconn[c].rx
            want == IF Len(rx) < Header THEN Header ELSE FrameNeed(rx)
            n == MinOf(Len(callback.rest), want - Len(rx))
            t == SubSeq(callback.rest, 1, n)
            more == rx \o t
            rest == SubSeq(callback.rest, n + 1, Len(callback.rest))
<1>0. /\ TcpTypeOK /\ c \in Conns /\ mconn[c].up /\ mconn[c] \in Slot /\ rx \in Seq(Nat)
      /\ callback.rest \in Seq(Nat) /\ got \in [Conns -> Seq(Nat)]
      /\ frames \in [Conns -> Seq(Seq(Nat))] /\ mconn \in [Conns -> Slot]
      /\ Chain(got[c], frames[c], rx) /\ UNCHANGED wire
  BY <1>c DEF RecvStep, TcpInv, TcpTypeOK, Slot, SlotStream
<1>1. Len(rx) \in Nat /\ Len(callback.rest) \in Nat /\ Incomplete(rx)
  BY <1>0, LenProperties DEF Chain
<1>2. want \in Nat /\ want > Len(rx)
  <2>1. CASE Len(rx) < Header
    BY <1>1, <2>1 DEF Header
  <2>2. CASE ~(Len(rx) < Header)
    <3>1. Len(rx) >= Header /\ Len(rx) < FrameLen(rx) /\ want = FrameNeed(rx)
      BY <1>1, <2>2 DEF Incomplete, Header
    <3>2. FrameNeed(rx) \in Nat
      BY <1>0, <3>1, NeedType
    <3>. QED BY <1>1, <3>1, <3>2 DEF FrameLen, Header
  <2>. QED BY <2>1, <2>2
<1>3. n \in 0 .. Len(callback.rest) /\ n <= want - Len(rx)
  <2>. HIDE DEF want, rx
  <2>. QED BY <1>1, <1>2 DEF MinOf
<1>4. t \in Seq(Nat) /\ Len(t) = n /\ rest \in Seq(Nat)
  <2>. HIDE DEF n
  <2>1. n \in Nat
    BY <1>1, <1>3
  <2>2. t \in Seq(Nat) /\ Len(t) = n
    BY <1>0, <1>3, PrefixProperties
  <2>3. rest \in Seq(Nat)
    BY <1>0, <2>1, SuffixProperties
  <2>. QED BY <2>2, <2>3
<1>5. more \in Seq(Nat) /\ Len(more) = Len(rx) + n /\ Len(more) \in Nat
  <2>. HIDE DEF t, rx, n
  <2>. QED BY <1>0, <1>1, <1>3, <1>4, ConcatProperties, LenProperties
<1>6. /\ got' = [got EXCEPT ![c] = @ \o t] /\ got'[c] = got[c] \o t
      /\ got[c] \o t \in Seq(Nat)
      /\ got' \in [Conns -> Seq(Nat)] /\ \A d \in Conns : d # c => got'[d] = got[d]
  <2>1. got' = [got EXCEPT ![c] = @ \o t]
    BY <1>c DEF RecvStep
  <2>. HIDE DEF t
  <2>2. got[c] \o t \in Seq(Nat)
    BY <1>0, <1>4, ConcatProperties
  <2>. QED BY <1>0, <2>1, <2>2
<1>7. Len(more) <= want
  <2>. HIDE DEF want, n, rx, more
  <2>. QED BY <1>1, <1>2, <1>3, <1>5
<1>8. Len(more) >= Header => Len(more) <= FrameLen(more)
  <2>. SUFFICES ASSUME Len(more) >= Header PROVE Len(more) <= FrameLen(more)
    OBVIOUS
  <2>1. FrameLen(more) \in Nat /\ FrameLen(more) >= Header
    BY <1>5, NeedType
  <2>2. CASE Len(rx) < Header
    <3>1. want = Header
      BY <2>2
    <3>. HIDE DEF want, more
    <3>. QED BY <1>5, <1>7, <2>1, <3>1 DEF Header
  <2>3. CASE ~(Len(rx) < Header)
    <3>1. want = FrameNeed(rx) /\ Len(rx) >= Header
      BY <1>1, <2>3 DEF Header
    <3>2. FrameNeed(more) = FrameNeed(rx)
      <4>. HIDE DEF t, rx
      <4>. QED BY <1>0, <1>4, <3>1, NeedType
    <3>3. FrameNeed(rx) \in Nat
      BY <1>0, <3>1, NeedType
    <3>. HIDE DEF want, more, rx
    <3>. QED BY <1>5, <1>7, <2>1, <3>1, <3>2, <3>3 DEF FrameLen, Header
  <2>. QED BY <2>2, <2>3
<1>9. CASE Len(more) >= Header /\ Len(more) >= FrameNeed(more)
  <2>1. ProcessFrame(c, more, rest)
    BY <1>c, <1>9 DEF RecvStep
  <2>2. Len(more) = FrameLen(more)
    <3>1. FrameNeed(more) \in Nat
      BY <1>5, <1>9, NeedType
    <3>. HIDE DEF more
    <3>. QED BY <1>5, <1>8, <1>9, <3>1 DEF FrameLen, Header
  <2>3. Chain(got'[c], Append(frames[c], more), <<>>)
    <3>1. got[c] \in Seq(Nat) /\ frames[c] \in Seq(Seq(Nat))
      BY <1>0
    <3>. HIDE DEF rx, t
    <3>. QED BY <1>0, <1>4, <1>6, <1>9, <2>2, <3>1, ChainFrame
  <2>. HIDE DEF more, rest
  <2>. QED BY <1>0, <1>4, <1>5, <1>6, <2>1, <2>3, ProcessFrameInv
<1>10. CASE ~(Len(more) >= Header /\ Len(more) >= FrameNeed(more))
  <2>1. /\ mconn' = [mconn EXCEPT ![c].rx = more, ![c].stale = FALSE]
        /\ callback' = [conn |-> IF rest = <<>> THEN 0 ELSE c, rest |-> rest]
        /\ UNCHANGED <<frames, sent, served, diag>>
    <3>1. IF Len(more) >= Header /\ Len(more) >= FrameNeed(more) THEN ProcessFrame(c, more, rest)
          ELSE /\ mconn' = [mconn EXCEPT ![c].rx = more, ![c].stale = FALSE]
               /\ callback' = [conn |-> IF rest = <<>> THEN 0 ELSE c, rest |-> rest]
               /\ UNCHANGED <<frames, sent, served, diag>>
      BY <1>c, Zenon DEF RecvStep
    <3>. HIDE DEF more, rest
    <3>. QED BY <1>10, <3>1
  <2>2. Incomplete(more)
    <3>1. CASE Len(more) < Header
      BY <3>1 DEF Incomplete
    <3>2. CASE ~(Len(more) < Header)
      <4>1. Len(more) >= Header
        BY <1>5, <3>2 DEF Header
      <4>2. FrameNeed(more) \in Nat /\ ~(Len(more) >= FrameNeed(more))
        BY <1>5, <1>10, <4>1, NeedType
      <4>. HIDE DEF more
      <4>. QED BY <1>5, <4>1, <4>2 DEF Incomplete, FrameLen, Header
    <3>. QED BY <3>1, <3>2
  <2>3. Chain(got'[c], frames[c], more)
    <3>1. got[c] \in Seq(Nat) /\ frames[c] \in Seq(Seq(Nat))
      BY <1>0
    <3>. HIDE DEF rx, t
    <3>. QED BY <1>0, <1>4, <1>6, <2>2, <3>1, ChainGrows
  <2>. HIDE DEF more, rest
  <2>4. /\ mconn' \in [Conns -> Slot] /\ mconn'[c].up /\ mconn'[c].rx = more
        /\ mconn'[c].pending = mconn[c].pending
        /\ \A d \in Conns : d # c => mconn'[d] = mconn[d]
    BY <1>0, <1>5, <2>1 DEF Slot
  <2>5. /\ callback' \in [conn : Conns \cup {0}, rest : Seq(Nat)]
        /\ callback' # Idle => callback'.conn \in Conns /\ mconn'[callback'.conn].up
    <3>1. CASE rest = <<>>
      BY <1>4, <2>1, <3>1 DEF Idle
    <3>2. CASE rest # <<>>
      BY <1>0, <1>4, <2>1, <2>4, <3>2
    <3>. QED BY <3>1, <3>2
  <2>6. TcpTypeOK'
    BY <1>0, <1>6, <2>1, <2>4, <2>5 DEF TcpTypeOK
  <2>7. SlotReplies(c)' /\ SlotStream(c)'
    BY <1>0, <2>1, <2>3, <2>4 DEF TcpInv, SlotReplies, SlotStream
  <2>8. ASSUME NEW d \in Conns, d # c PROVE SlotReplies(d)' /\ SlotStream(d)'
    <3>1. /\ mconn'[d] = mconn[d] /\ sent'[d] = sent[d] /\ frames'[d] = frames[d]
          /\ got'[d] = got[d] /\ SlotReplies(d) /\ SlotStream(d)
      BY <1>6, <2>1, <2>4, <2>8 DEF TcpInv
    <3>. QED BY <3>1, SlotUnchanged
  <2>9. ASSUME AnswersKept, NEW d \in Conns PROVE SlotKeeps(d)'
    BY <1>0, <2>1, <2>4, <2>9, KeptUnchanged DEF AnswersKept
  <2>. QED BY <2>6, <2>7, <2>8, <2>9 DEF TcpInv, AnswersKept
<1>. QED BY <1>9, <1>10

\* mb_accept_cb takes a free slot and starts its history anew.
LEMMA AcceptInv ==
  ASSUME TcpInv, MbAccept
  PROVE  TcpInv'
<1>0. TcpTypeOK /\ <<>> \in Seq(Nat) /\ <<>> \in Seq(Seq(Nat)) /\ callback' = callback /\ callback = Idle
  BY EmptySeq DEF TcpInv, MbAccept
<1>1. CASE UNCHANGED <<mconn, wire, got, frames, sent>>
  <2>1. TcpTypeOK'
    BY <1>0, <1>1 DEF TcpTypeOK
  <2>2. \A d \in Conns : SlotReplies(d)' /\ SlotStream(d)'
    BY <1>1, SlotUnchanged DEF TcpInv
  <2>. QED BY <2>1, <2>2 DEF TcpInv
<1>2. ASSUME NEW c \in Conns,
             mconn' = [mconn EXCEPT ![c] = [Free EXCEPT !.up = TRUE]],
             wire' = [wire EXCEPT ![c] = <<>>], got' = [got EXCEPT ![c] = <<>>],
             frames' = [frames EXCEPT ![c] = <<>>], sent' = [sent EXCEPT ![c] = <<>>]
      PROVE  TcpInv'
  <2>1. [Free EXCEPT !.up = TRUE] \in Slot /\ [Free EXCEPT !.up = TRUE].rx = <<>>
        /\ [Free EXCEPT !.up = TRUE].pending = 0
    BY <1>0 DEF Free, Slot
  <2>2. /\ mconn'[c].rx = <<>> /\ mconn'[c].pending = 0
        /\ got'[c] = <<>> /\ frames'[c] = <<>> /\ sent'[c] = <<>>
    BY <1>0, <1>2, <2>1 DEF TcpTypeOK
  <2>3. TcpTypeOK'
    BY <1>0, <1>2, <2>1 DEF TcpTypeOK
  <2>4. SlotReplies(c)' /\ SlotStream(c)'
    <3>1. SlotStream(c)'
      BY <2>2, EmptyChain DEF SlotStream
    <3>2. Len(sent'[c]) = 0
      BY <2>2, EmptySeq
    <3>3. SlotReplies(c)'
      BY <2>2, <3>2 DEF SlotReplies
    <3>. QED BY <3>1, <3>3
  <2>5. ASSUME NEW d \in Conns, d # c PROVE SlotReplies(d)' /\ SlotStream(d)'
    <3>1. /\ mconn'[d] = mconn[d] /\ sent'[d] = sent[d] /\ frames'[d] = frames[d]
          /\ got'[d] = got[d] /\ SlotReplies(d) /\ SlotStream(d)
      BY <1>0, <1>2, <2>5 DEF TcpInv, TcpTypeOK
    <3>. QED BY <3>1, SlotUnchanged
  <2>. QED BY <2>3, <2>4, <2>5 DEF TcpInv
<1>. DEFINE free == {c \in Conns : ~mconn[c].up}
<1>3. CASE free = {}
  BY <1>1, <1>3 DEF MbAccept
<1>4. CASE free # {}
  <2>. DEFINE c == CHOOSE d \in free : \A e \in free : d <= e
  <2>1. /\ mconn' = [mconn EXCEPT ![c] = [Free EXCEPT !.up = TRUE]]
        /\ wire' = [wire EXCEPT ![c] = <<>>] /\ got' = [got EXCEPT ![c] = <<>>]
        /\ frames' = [frames EXCEPT ![c] = <<>>] /\ sent' = [sent EXCEPT ![c] = <<>>]
    BY <1>4 DEF MbAccept
  <2>2. c \in Conns
    <3>1. free \subseteq Nat /\ free # {}
      BY <1>4, TcpAssumption
    <3>2. \E d \in free : \A e \in free : d <= e
      <4>. HIDE DEF free
      <4>. QED BY <3>1, LeastNatural
    <3>. QED BY <3>2
  <2>3. PICK d \in Conns : d = c
    BY <2>2
  <2>. HIDE DEF c
  <2>. QED BY <1>2, <2>1, <2>3
<1>. QED BY <1>3, <1>4

\* Callbacks that touch one slot or none: segments, polls, masters that leave.
LEMMA SlotStepInv ==
  ASSUME TcpInv, NEW c \in Conns,
         \/ \E n \in 1 .. Len(wire[c]) : MbRecv(c, n)
         \/ MbGone(c) \/ MbPoll(c) \/ FrameTimeout(c)
         \/ \E f \in TcpFrames : MasterSends(c, f)
  PROVE  TcpInv'
<1>0. /\ TcpTypeOK /\ mconn[c] \in Slot /\ sent[c] \in Seq(Nat) /\ wire[c] \in Seq(Nat)
      /\ mconn[c].pending \in Nat /\ mconn \in [Conns -> Slot] /\ sent \in [Conns -> Seq(Nat)]
      /\ SlotReplies(c) /\ SlotStream(c) /\ Free \in Slot
  BY EmptySeq DEF TcpInv, TcpTypeOK, Slot, Free
<1>1. CASE \E n \in 1 .. Len(wire[c]) : MbRecv(c, n)
  <2>1. PICK n \in 1 .. Len(wire[c]) : MbRecv(c, n)
    BY <1>1
  <2>2. n \in 0 .. Len(wire[c]) /\ n \in Nat
    BY <1>0, LenProperties
  <2>3. SubSeq(wire[c], 1, n) \in Seq(Nat) /\ SubSeq(wire[c], n + 1, Len(wire[c])) \in Seq(Nat)
    BY <1>0, <2>2, PrefixProperties, SuffixProperties
  <2>4. /\ callback' = [conn |-> c, rest |-> SubSeq(wire[c], 1, n)] /\ mconn[c].up
        /\ wire' = [wire EXCEPT ![c] = SubSeq(wire[c], n + 1, Len(wire[c]))]
        /\ UNCHANGED <<mconn, got, frames, sent>>
    BY <2>1 DEF MbRecv
  <2>5. TcpTypeOK'
    BY <1>0, <2>3, <2>4 DEF TcpTypeOK
  <2>6. \A d \in Conns : SlotReplies(d)' /\ SlotStream(d)'
    BY <2>4, SlotUnchanged DEF TcpInv
  <2>. QED BY <2>5, <2>6 DEF TcpInv
<1>2. CASE \E f \in TcpFrames : MasterSends(c, f)
  <2>1. PICK f \in TcpFrames : MasterSends(c, f)
    BY <1>2
  <2>2. wire[c] \o f \in Seq(Nat)
    BY <1>0, TcpAssumption, ConcatProperties
  <2>3. TcpTypeOK'
    BY <1>0, <2>1, <2>2 DEF TcpTypeOK, MasterSends
  <2>4. \A d \in Conns : SlotReplies(d)' /\ SlotStream(d)'
    BY <2>1, SlotUnchanged DEF TcpInv, MasterSends
  <2>. QED BY <2>3, <2>4 DEF TcpInv
<1>3. CASE /\ callback = Idle /\ UNCHANGED <<callback, wire, got, frames>>
           /\ mconn' \in [Conns -> Slot] /\ sent' \in [Conns -> Seq(Nat)]
           /\ \A d \in Conns : d # c => mconn'[d] = mconn[d] /\ sent'[d] = sent[d]
           /\ SlotReplies(c)' /\ SlotStream(c)'
  <2>1. TcpTypeOK'
    BY <1>0, <1>3 DEF TcpTypeOK
  <2>2. ASSUME NEW d \in Conns, d # c PROVE SlotReplies(d)' /\ SlotStream(d)'
    <3>1. /\ mconn'[d] = mconn[d] /\ sent'[d] = sent[d] /\ frames'[d] = frames[d]
          /\ got'[d] = got[d] /\ SlotReplies(d) /\ SlotStream(d)
      BY <1>3, <2>2 DEF TcpInv
    <3>. QED BY <3>1, SlotUnchanged
  <2>. QED BY <1>3, <2>1, <2>2 DEF TcpInv
<1>4. CASE Closes(c) /\ UNCHANGED <<callback, wire, got, frames, sent>> /\ callback = Idle
  <2>1. SlotReplies(c)' /\ SlotStream(c)'
    <3>1. mconn'[c] = Free
      BY <1>0, <1>4 DEF Closes
    <3>2. \A k : Wanted(frames[c], k) => Wanted(frames'[c], k)
      BY <1>4
    <3>. QED BY <1>0, <1>4, <3>1, <3>2, SlotFreed
  <2>. QED BY <1>0, <1>3, <1>4, <2>1 DEF Closes
<1>5. CASE FrameTimeout(c)
  <2>1. mconn' = [mconn EXCEPT ![c].stale = TRUE] /\ UNCHANGED <<callback, wire, got, frames, sent>>
        /\ callback = Idle
    BY <1>5 DEF FrameTimeout
  <2>2. /\ mconn' \in [Conns -> Slot] /\ \A d \in Conns : d # c => mconn'[d] = mconn[d]
        /\ mconn'[c].pending = mconn[c].pending /\ mconn'[c].rx = mconn[c].rx
        /\ mconn'[c].up = mconn[c].up
    BY <1>0, <2>1 DEF Slot
  <2>3. SlotReplies(c)' /\ SlotStream(c)'
    BY <1>0, <2>1, <2>2 DEF SlotReplies, SlotStream
  <2>. QED BY <1>0, <1>3, <2>1, <2>2, <2>3
<1>6. CASE /\ mconn[c].pending # 0 /\ callback = Idle /\ mconn[c].up
           /\ sent' = [sent EXCEPT ![c] = Append(@, mconn[c].pending)]
           /\ Closes(c) \/ mconn' = [mconn EXCEPT ![c].pending = 0]
           /\ UNCHANGED <<callback, wire, got, frames>>
  <2>1. Append(sent[c], mconn[c].pending) \in Seq(Nat)
    BY <1>0, AppendProperties
  <2>2. /\ sent' \in [Conns -> Seq(Nat)] /\ sent'[c] = Append(sent[c], mconn[c].pending)
        /\ \A d \in Conns : d # c => sent'[d] = sent[d]
    BY <1>0, <1>6, <2>1
  <2>3. /\ mconn' \in [Conns -> Slot] /\ \A d \in Conns : d # c => mconn'[d] = mconn[d]
        /\ mconn'[c].pending = 0
        /\ mconn'[c].up => mconn'[c].rx = mconn[c].rx
    <3>1. CASE Closes(c)
      <4>1. Free.pending = 0 /\ Free.up = FALSE
        BY DEF Free
      <4>. QED BY <1>0, <3>1, <4>1 DEF Closes
    <3>2. CASE mconn' = [mconn EXCEPT ![c].pending = 0]
      BY <1>0, <3>2 DEF Slot
    <3>. QED BY <1>6, <3>1, <3>2
  <2>4. SlotReplies(c)'
    BY <1>0, <1>6, <2>2, <2>3, PollReplies
  <2>5. SlotStream(c)'
    BY <1>0, <1>6, <2>3 DEF SlotStream
  <2>. QED BY <1>3, <1>6, <2>2, <2>3, <2>4, <2>5
<1>7. MbGone(c) => Closes(c) /\ UNCHANGED <<callback, wire, got, frames, sent>> /\ callback = Idle
  BY DEF MbGone
<1>8. CASE MbPoll(c)
  BY <1>4, <1>6, <1>8 DEF MbPoll
<1>. QED BY <1>1, <1>2, <1>4, <1>5, <1>7, <1>8

\* Every step of the system keeps the invariant of the connections.
LEMMA TcpStepInv == TcpInv /\ [ModbusNext]_modbusVars => TcpInv'
<1>. SUFFICES ASSUME TcpInv, [ModbusNext]_modbusVars PROVE TcpInv'
  OBVIOUS
<1>1. CASE UNCHANGED tcpVars
  <2>1. TcpTypeOK'
    BY <1>1 DEF tcpVars, TcpInv, TcpTypeOK
  <2>2. \A d \in Conns : SlotReplies(d)' /\ SlotStream(d)'
    BY <1>1, SlotUnchanged DEF TcpInv, tcpVars
  <2>. QED BY <2>1, <2>2 DEF TcpInv
<1>2. CASE TcpNext
  BY <1>2, AcceptInv, RecvStepInv, SlotStepInv DEF TcpNext
<1>. QED BY <1>1, <1>2 DEF ModbusNext, modbusVars

\* It holds when the server starts listening.
LEMMA TcpInitInv == TcpInit => TcpInv
<1>. SUFFICES ASSUME TcpInit PROVE TcpInv
  OBVIOUS
<1>1. <<>> \in Seq(Nat) /\ <<>> \in Seq(Seq(Nat)) /\ Len(<<>>) = 0
  BY EmptySeq
<1>2. Free \in Slot /\ Free.up = FALSE /\ Free.pending = 0
  BY <1>1 DEF Free, Slot
<1>3. TcpTypeOK
  BY <1>1, <1>2 DEF TcpInit, TcpTypeOK, Idle
<1>4. ASSUME NEW c \in Conns PROVE SlotReplies(c) /\ SlotStream(c)
  BY <1>1, <1>2 DEF TcpInit, SlotReplies, SlotStream
<1>. QED BY <1>3, <1>4 DEF TcpInv

\* However the network cuts the stream, mb_recv_cb processes the frames that the
\* length fields delimit and keeps the rest, for every stream of any length.
THEOREM SegmentsDoNotMatter == ModbusSpec => []SegmentationIrrelevant
<1>1. ModbusInit => TcpInv
  BY TcpInitInv DEF ModbusInit
<1>2. TcpInv => SegmentationIrrelevant
  <2>. SUFFICES ASSUME TcpInv, NEW c \in Conns, mconn[c].up
                PROVE  frames[c] = Split(got[c]).done /\ mconn[c].rx = Split(got[c]).rest
    BY DEF SegmentationIrrelevant
  <2>1. /\ got[c] \in Seq(Nat) /\ frames[c] \in Seq(Seq(Nat))
        /\ Chain(got[c], frames[c], mconn[c].rx)
    BY DEF TcpInv, TcpTypeOK, SlotStream
  <2>2. Split(got[c]) = [done |-> frames[c], rest |-> mconn[c].rx]
    BY <2>1, SplitOfChain
  <2>. QED BY <2>2
<1>. QED BY <1>1, <1>2, TcpStepInv, PTL DEF ModbusSpec

\* A new connection owes no answer.
LEMMA KeptByAccept ==
  ASSUME TcpInv, AnswersKept, MbAccept PROVE AnswersKept'
<1>. SUFFICES ASSUME NEW d \in Conns PROVE SlotKeeps(d)'
  BY DEF AnswersKept
<1>1. SlotKeeps(d) /\ TcpTypeOK
  BY DEF AnswersKept, TcpInv
<1>2. CASE mconn'[d] = mconn[d] /\ frames'[d] = frames[d] /\ sent'[d] = sent[d]
  BY <1>1, <1>2, KeptUnchanged
<1>3. CASE frames'[d] = <<>>
  <2>1. Len(frames'[d]) = 0
    BY <1>3, EmptySeq
  <2>2. \A k : ~Wanted(frames'[d], k)
    BY <2>1 DEF Wanted
  <2>. QED BY <2>2 DEF SlotKeeps
<1>. DEFINE free == {c \in Conns : ~mconn[c].up}
<1>4. CASE free = {}
  BY <1>2, <1>4 DEF MbAccept
<1>5. CASE free # {}
  <2>. DEFINE c == CHOOSE e \in free : \A g \in free : e <= g
  <2>1. /\ mconn' = [mconn EXCEPT ![c] = [Free EXCEPT !.up = TRUE]]
        /\ frames' = [frames EXCEPT ![c] = <<>>] /\ sent' = [sent EXCEPT ![c] = <<>>]
    BY <1>5 DEF MbAccept
  <2>. HIDE DEF c
  <2>2. CASE d = c
    BY <1>1, <1>3, <2>1, <2>2 DEF TcpTypeOK
  <2>3. CASE d # c
    BY <1>1, <1>2, <2>1, <2>3 DEF TcpTypeOK
  <2>. QED BY <2>2, <2>3
<1>. QED BY <1>4, <1>5

\* Segments, polls and masters that leave: an answer goes out or stays, or the
\* connection ends.
LEMMA KeptBySlotStep ==
  ASSUME TcpInv, AnswersKept, NEW c \in Conns,
         \/ \E n \in 1 .. Len(wire[c]) : MbRecv(c, n)
         \/ MbGone(c) \/ MbPoll(c) \/ FrameTimeout(c)
         \/ \E f \in TcpFrames : MasterSends(c, f)
  PROVE  AnswersKept'
<1>. SUFFICES ASSUME NEW d \in Conns PROVE SlotKeeps(d)'
  BY DEF AnswersKept
<1>0. /\ SlotKeeps(d) /\ TcpTypeOK /\ mconn \in [Conns -> Slot] /\ sent \in [Conns -> Seq(Nat)]
      /\ mconn[c] \in Slot
  BY DEF AnswersKept, TcpInv, TcpTypeOK
<1>1. CASE UNCHANGED <<mconn, frames, sent>>
  BY <1>0, <1>1, KeptUnchanged
<1>2. CASE mconn' = [mconn EXCEPT ![c] = Free] /\ frames' = frames /\ (d # c => sent'[d] = sent[d])
  <2>1. CASE d = c
    BY <1>0, <1>2, <2>1 DEF SlotKeeps, Free
  <2>2. CASE d # c
    BY <1>0, <1>2, <2>2, KeptUnchanged
  <2>. QED BY <2>1, <2>2
<1>3. CASE mconn' = [mconn EXCEPT ![c].stale = TRUE] /\ UNCHANGED <<frames, sent>>
  BY <1>0, <1>3, KeptUnchanged DEF Slot
<1>4. CASE /\ mconn[c].up /\ mconn' = [mconn EXCEPT ![c].pending = 0] /\ frames' = frames
           /\ sent' = [sent EXCEPT ![c] = Append(@, mconn[c].pending)]
  <2>1. CASE d = c
    BY <1>0, <1>4, <2>1, KeptByPoll
  <2>2. CASE d # c
    BY <1>0, <1>4, <2>2, KeptUnchanged
  <2>. QED BY <2>1, <2>2
<1>5. CASE MbPoll(c)
  <2>1. \/ mconn' = [mconn EXCEPT ![c] = Free] /\ frames' = frames /\ sent' = sent
        \/ /\ mconn' = [mconn EXCEPT ![c] = Free] /\ frames' = frames
           /\ sent' = [sent EXCEPT ![c] = Append(@, mconn[c].pending)]
        \/ /\ mconn[c].up /\ mconn' = [mconn EXCEPT ![c].pending = 0] /\ frames' = frames
           /\ sent' = [sent EXCEPT ![c] = Append(@, mconn[c].pending)]
    BY <1>5 DEF MbPoll, Closes
  <2>. QED BY <1>0, <1>2, <1>4, <2>1
<1>. QED BY <1>1, <1>2, <1>3, <1>5 DEF MbRecv, MbGone, FrameTimeout, MasterSends, Closes

\* Every step keeps the answers.
LEMMA KeptStep == TcpInv /\ AnswersKept /\ [ModbusNext]_modbusVars => AnswersKept'
<1>. SUFFICES ASSUME TcpInv, AnswersKept, [ModbusNext]_modbusVars PROVE AnswersKept'
  OBVIOUS
<1>1. CASE UNCHANGED tcpVars
  BY <1>1, KeptUnchanged DEF tcpVars, AnswersKept
<1>2. CASE TcpNext
  BY <1>2, KeptByAccept, RecvStepInv, KeptBySlotStep DEF TcpNext
<1>. QED BY <1>1, <1>2 DEF ModbusNext, modbusVars

\* An answer goes out at most once and for a frame of its own connection that wants
\* one, although mb_poll_cb may send it after later ones; and it is lost only with the
\* connection or to a later one.
THEOREM AnswersOnce == ModbusSpec => []RepliesOnce
<1>1. ModbusInit => TcpInv /\ AnswersKept
  <2>1. ModbusInit => TcpInv
    BY TcpInitInv DEF ModbusInit
  <2>2. ModbusInit => AnswersKept
    BY DEF ModbusInit, TcpInit, AnswersKept, SlotKeeps, Free
  <2>. QED BY <2>1, <2>2
<1>2. TcpInv /\ AnswersKept => RepliesOnce
  <2>. DEFINE All(c) == IF mconn[c].pending = 0 THEN sent[c] ELSE Append(sent[c], mconn[c].pending)
  <2>. SUFFICES ASSUME TcpInv, AnswersKept, NEW c \in Conns
                PROVE  /\ IsInjective(All(c))
                       /\ \A i \in DOMAIN All(c) : /\ All(c)[i] <= Len(frames[c])
                                                  /\ AduVerdict(frames[c][All(c)[i]]) \in Answers
                       /\ \A n \in DOMAIN frames[c] :
                            mconn[c].up /\ AduVerdict(frames[c][n]) \in Answers =>
                              \E i \in DOMAIN All(c) : All(c)[i] >= n
    BY DEF RepliesOnce
  <2>. DEFINE s == sent[c]
              p == mconn[c].pending
              a == All(c)
  <2>1. /\ s \in Seq(Nat) /\ p \in Nat /\ Len(s) \in Nat /\ DOMAIN s = 1 .. Len(s)
        /\ frames[c] \in Seq(Seq(Nat)) /\ Len(frames[c]) \in Nat
    BY LenProperties DEF TcpInv, TcpTypeOK, Slot
  <2>2. /\ \A i \in 1 .. Len(s) : Wanted(frames[c], s[i]) /\ s[i] # p
        /\ p # 0 => Wanted(frames[c], p)
        /\ \A i, j \in 1 .. Len(s) : s[i] = s[j] => i = j
    BY DEF TcpInv, SlotReplies
  <2>5. ASSUME NEW n \in DOMAIN frames[c], mconn[c].up, AduVerdict(frames[c][n]) \in Answers
        PROVE  n \in Nat \ {0} /\ (p >= n \/ \E i \in 1 .. Len(s) : s[i] >= n)
    <3>1. Wanted(frames[c], n) /\ n \in Nat \ {0}
      BY <2>1, <2>5, LenProperties DEF Wanted
    <3>2. Answered(c, n)
      BY <2>5, <3>1 DEF AnswersKept, SlotKeeps
    <3>. QED BY <3>1, <3>2 DEF Answered
  <2>3. CASE p = 0
    <3>1. a = s
      BY <2>3
    <3>. HIDE DEF a, s, p
    <3>2. IsInjective(a)
      BY <2>1, <2>2, <3>1 DEF IsInjective
    <3>3. \A i \in DOMAIN a : Wanted(frames[c], a[i])
      BY <2>1, <2>2, <3>1
    <3>4. \A i \in DOMAIN a : a[i] <= Len(frames[c]) /\ AduVerdict(frames[c][a[i]]) \in Answers
      BY <2>1, <3>3 DEF Wanted
    <3>5. ASSUME NEW n \in DOMAIN frames[c], mconn[c].up, AduVerdict(frames[c][n]) \in Answers
          PROVE  \E i \in DOMAIN a : a[i] >= n
      <4>1. n \in Nat \ {0} /\ \E i \in 1 .. Len(s) : s[i] >= n
        BY <2>3, <2>5, <3>5
      <4>. QED BY <2>1, <3>1, <4>1
    <3>. QED BY <3>2, <3>4, <3>5 DEF a
  <2>4. CASE p # 0
    <3>1. /\ Append(s, p) \in Seq(Nat) /\ Len(Append(s, p)) = Len(s) + 1
          /\ Append(s, p)[Len(s) + 1] = p /\ \A i \in 1 .. Len(s) : Append(s, p)[i] = s[i]
      BY <2>1, AppendProperties
    <3>2. a = Append(s, p)
      BY <2>4
    <3>. HIDE DEF a, s, p
    <3>3. DOMAIN a = 1 .. Len(s) + 1
      BY <3>1, <3>2, LenProperties
    <3>4. \A i \in 1 .. Len(s) + 1 : i \in 1 .. Len(s) \/ i = Len(s) + 1
      BY <2>1
    <3>5. a[Len(s) + 1] = p /\ \A i \in 1 .. Len(s) : a[i] = s[i]
      BY <3>1, <3>2
    <3>6. \A i \in DOMAIN a : Wanted(frames[c], a[i])
      BY <2>2, <2>4, <3>3, <3>4, <3>5
    <3>7. IsInjective(a)
      BY <2>2, <3>3, <3>4, <3>5 DEF IsInjective
    <3>8. \A i \in DOMAIN a : a[i] <= Len(frames[c]) /\ AduVerdict(frames[c][a[i]]) \in Answers
      BY <2>1, <3>6 DEF Wanted
    <3>9. ASSUME NEW n \in DOMAIN frames[c], mconn[c].up, AduVerdict(frames[c][n]) \in Answers
          PROVE  \E i \in DOMAIN a : a[i] >= n
      <4>1. p >= n \/ \E i \in 1 .. Len(s) : s[i] >= n
        BY <2>5, <3>9
      <4>2. Len(s) + 1 \in DOMAIN a /\ \A i \in 1 .. Len(s) : i \in DOMAIN a
        BY <2>1, <3>3
      <4>. QED BY <3>5, <4>1, <4>2
    <3>. QED BY <3>7, <3>8, <3>9 DEF a
  <2>. QED BY <2>3, <2>4
<1>. QED BY <1>1, <1>2, TcpStepInv, KeptStep, PTL DEF ModbusSpec

-----------------------------------------------------------------------------
(* Bits of a word                                                          *)

\* The powers of two.
LEMMA BitValue ==
  /\ BIT[0] = 1
  /\ \A n \in Nat : BIT[n] \in Nat \ {0} /\ BIT[n + 1] = 2 * BIT[n]
<1>. DEFINE Is(f) == f = [n \in Nat |-> IF n = 0 THEN 1 ELSE 2 * f[n - 1]]
            T == Nat \ {0}
            F == [p \in Nat \X T |-> 2 * p[2]]
<1>1. F \in [Nat \X T -> T] /\ 1 \in T
  OBVIOUS
<1>a. \E g : Recursive(g, T, 1, F)
  <2>. HIDE DEF F, T
  <2>. QED BY <1>1, Recursion, Zenon
<1>2. PICK g : g \in [Nat -> T] /\ g[0] = 1 /\ \A i \in Nat : g[i + 1] = F[<<i + 1, g[i]>>]
  BY <1>a DEF Recursive
<1>3. \A i \in Nat : g[i + 1] = 2 * g[i]
  <2>. SUFFICES ASSUME NEW i \in Nat PROVE g[i + 1] = 2 * g[i]
    OBVIOUS
  <2>1. g[i] \in T /\ i + 1 \in Nat
    BY <1>2
  <2>2. F[<<i + 1, g[i]>>] = 2 * g[i]
    <3>. HIDE DEF T
    <3>. QED BY <2>1
  <2>. QED BY <1>2, <2>2
<1>4. Is(g)
  <2>1. ASSUME NEW n \in Nat PROVE g[n] = IF n = 0 THEN 1 ELSE 2 * g[n - 1]
    <3>1. CASE n = 0
      BY <1>2, <3>1
    <3>2. CASE n # 0
      <4>1. n - 1 \in Nat /\ (n - 1) + 1 = n
        BY <3>2
      <4>2. g[(n - 1) + 1] = 2 * g[n - 1]
        BY <1>3, <4>1
      <4>. QED BY <3>2, <4>1, <4>2
    <3>. QED BY <3>1, <3>2
  <2>. QED BY <2>1, <1>2
<1>5. Is(BIT)
  <2>1. BIT = CHOOSE f : Is(f)
    BY DEF BIT
  <2>. HIDE DEF Is
  <2>. QED BY <1>4, <2>1
<1>6. \A n \in Nat : BIT[n] = IF n = 0 THEN 1 ELSE 2 * BIT[n - 1]
  BY <1>5
<1>7. BIT[0] = 1
  BY <1>6
<1>8. \A n \in Nat : BIT[n + 1] = 2 * BIT[n]
  <2>. SUFFICES ASSUME NEW n \in Nat PROVE BIT[n + 1] = 2 * BIT[n]
    OBVIOUS
  <2>1. n + 1 \in Nat /\ n + 1 # 0 /\ (n + 1) - 1 = n
    OBVIOUS
  <2>2. BIT[n + 1] = 2 * BIT[(n + 1) - 1]
    BY <1>6, <2>1
  <2>. QED BY <2>1, <2>2
<1>. DEFINE S == {n \in Nat : BIT[n] \in Nat \ {0}}
<1>9. S = Nat
  <2>1. 0 \in S
    BY <1>7
  <2>2. ASSUME NEW n \in S PROVE n + 1 \in S
    BY <1>8
  <2>3. S \subseteq Nat
    OBVIOUS
  <2>. HIDE DEF S
  <2>. QED BY <2>1, <2>2, <2>3, SetInduction
<1>10. \A n \in Nat : BIT[n] \in Nat \ {0}
  BY <1>9
<1>. QED BY <1>7, <1>8, <1>10

\* A higher power of two is an even multiple of a lower one.
LEMMA BitMultiple ==
  ASSUME NEW j \in Nat, NEW i \in Nat, j < i
  PROVE  \E k \in Nat \ {0} : BIT[i] = k * (2 * BIT[j])
<1>. DEFINE S == {n \in Nat : \E k \in Nat \ {0} : BIT[j + n + 1] = k * (2 * BIT[j])}
<1>0. BIT[j] \in Nat \ {0}
  BY BitValue
<1>1. 0 \in S
  <2>1. BIT[j + 0 + 1] = 1 * (2 * BIT[j])
    BY BitValue
  <2>. QED BY <2>1
<1>2. ASSUME NEW n \in S PROVE n + 1 \in S
  <2>1. PICK k \in Nat \ {0} : BIT[j + n + 1] = k * (2 * BIT[j])
    OBVIOUS
  <2>2. n \in Nat /\ j + n + 1 \in Nat /\ (j + n + 1) + 1 = j + (n + 1) + 1
    OBVIOUS
  <2>3. BIT[j + (n + 1) + 1] = 2 * BIT[j + n + 1]
    BY <2>2, BitValue
  <2>4. 2 * (k * (2 * BIT[j])) = (2 * k) * (2 * BIT[j]) /\ 2 * k \in Nat \ {0}
    BY <1>0
  <2>. QED BY <2>1, <2>2, <2>3, <2>4
<1>3. S = Nat
  <2>1. S \subseteq Nat
    OBVIOUS
  <2>. HIDE DEF S
  <2>. QED BY <1>1, <1>2, <2>1, SetInduction
<1>4. i - j - 1 \in Nat /\ j + (i - j - 1) + 1 = i
  OBVIOUS
<1>5. \A n \in Nat : n \in S
  BY <1>3
<1>. QED BY <1>4, <1>5

\* The bits of a number and those above and below bit i.
LEMMA BitParts ==
  ASSUME NEW n \in Nat, NEW i \in Nat
  PROVE  \E a \in Nat, b \in {0, 1}, c \in 0 .. BIT[i] - 1 :
           n = a * (2 * BIT[i]) + b * BIT[i] + c
<1>. DEFINE P == BIT[i]
<1>0. P \in Nat \ {0}
  BY BitValue
<1>. HIDE DEF P
<1>1. PICK d \in Nat, c \in 0 .. P - 1 : n = d * P + c
  BY <1>0, DivMod
<1>2. PICK a \in Nat, b \in 0 .. 1 : d = a * 2 + b
  <2>1. 2 \in Nat \ {0} /\ 2 - 1 = 1
    OBVIOUS
  <2>2. d \div 2 \in Nat /\ d % 2 \in 0 .. 2 - 1 /\ d = (d \div 2) * 2 + (d % 2)
    BY <2>1, DivMod
  <2>. QED BY <2>1, <2>2
<1>3. d * P = a * (2 * P) + b * P
  <2>1. d * P = (a * 2) * P + b * P
    BY <1>0, <1>2
  <2>2. (a * 2) * P = a * (2 * P)
    BY <1>0, <1>2
  <2>. QED BY <2>1, <2>2
<1>4. n = a * (2 * P) + b * P + c /\ b \in {0, 1}
  BY <1>0, <1>1, <1>2, <1>3
<1>. QED BY <1>1, <1>4 DEF P

\* Bit reads the middle one of these parts.
LEMMA BitOfParts ==
  ASSUME NEW i \in Nat, NEW a \in Nat, NEW b \in {0, 1}, NEW c \in 0 .. BIT[i] - 1
  PROVE  Bit(a * (2 * BIT[i]) + b * BIT[i] + c, i) <=> b = 1
<1>. DEFINE P == BIT[i]
            n == a * (2 * P) + b * P + c
<1>0. P \in Nat \ {0}
  BY BitValue
<1>. HIDE DEF P
<1>a. c \in 0 .. P - 1
  BY DEF P
<1>1. a * 2 + b \in Nat /\ n = (a * 2 + b) * P + c /\ n \in Nat
  BY <1>0, <1>a
<1>. DEFINE d == n \div P
<1>2. d \in Nat /\ n % P \in 0 .. P - 1 /\ n = d * P + (n % P)
  <2>. HIDE DEF n
  <2>. QED BY <1>0, <1>1, DivMod
<1>3. n % P = c
  <2>. DEFINE q == a * 2 + b
  <2>1. q \in Nat /\ n = q * P + c
    BY <1>1
  <2>2. (q * P + c) % P = c
    <3>. HIDE DEF q
    <3>. QED BY <1>0, <1>a, <2>1, ModUnique
  <2>. QED BY <2>1, <2>2
<1>4. d * P = (a * 2 + b) * P
  <2>. DEFINE u == d * P
              v == (a * 2 + b) * P
  <2>1. u \in Nat /\ v \in Nat /\ n = u + c /\ n = v + c
    BY <1>0, <1>a, <1>1, <1>2, <1>3
  <2>. HIDE DEF u, v, n
  <2>. QED BY <1>a, <2>1 DEF u, v
<1>. HIDE DEF d
<1>5. d = a * 2 + b
  BY <1>0, <1>1, <1>2, <1>4
<1>6. (a * 2 + b) % 2 = b
  <2>1. 2 \in Nat \ {0} /\ b \in 0 .. 2 - 1
    OBVIOUS
  <2>. QED BY <2>1, ModUnique
<1>. QED BY <1>5, <1>6 DEF Bit, d, P
\* Even multiples of a power of two do not change its bit.
LEMMA BitShift ==
  ASSUME NEW n \in Nat, NEW j \in Nat, NEW k \in Nat
  PROVE  Bit(n + k * (2 * BIT[j]), j) <=> Bit(n, j)
<1>1. PICK a \in Nat, b \in {0, 1}, c \in 0 .. BIT[j] - 1 :
        n = a * (2 * BIT[j]) + b * BIT[j] + c
  BY BitParts
<1>2. BIT[j] \in Nat \ {0} /\ a + k \in Nat
  BY BitValue
<1>3. n + k * (2 * BIT[j]) = (a + k) * (2 * BIT[j]) + b * BIT[j] + c
  <2>. DEFINE R == 2 * BIT[j]
              y == b * BIT[j]
  <2>a. n = a * R + y + c
    BY <1>1
  <2>b. \A P \in Nat : 2 * P \in Nat /\ 0 * P \in Nat /\ 1 * P \in Nat
    OBVIOUS
  <2>1. R \in Nat /\ y \in Nat /\ c \in Nat /\ n = a * R + y + c
    BY <1>1, <1>2, <2>a, <2>b
  <2>. HIDE DEF R, y
  <2>2. (a + k) * R = a * R + k * R /\ a * R \in Nat /\ k * R \in Nat
    BY <2>1
  <2>3. n + k * R = (a + k) * R + y + c
    BY <2>1, <2>2
  <2>. QED BY <2>3 DEF R, y
<1>4. Bit((a + k) * (2 * BIT[j]) + b * BIT[j] + c, j) <=> b = 1
  BY <1>2, BitOfParts
<1>5. Bit(a * (2 * BIT[j]) + b * BIT[j] + c, j) <=> b = 1
  BY BitOfParts
<1>. QED BY <1>1, <1>3, <1>4, <1>5

\* Cutting a word off at D bits leaves the bits below.
LEMMA BitOfMod ==
  ASSUME NEW n \in Nat, NEW j \in Nat, NEW D \in Nat, j < D
  PROVE  Bit(n % BIT[D], j) <=> Bit(n, j)
<1>0. BIT[j] \in Nat \ {0} /\ BIT[D] \in Nat \ {0}
  BY BitValue
<1>1. PICK q \in Nat, r \in Nat : n = q * BIT[D] + r /\ r = n % BIT[D]
  <2>. DEFINE M == BIT[D]
  <2>1. M \in Nat \ {0}
    BY <1>0
  <2>. HIDE DEF M
  <2>2. n \div M \in Nat /\ n % M \in Nat /\ n = (n \div M) * M + (n % M)
    BY <2>1, DivMod
  <2>. QED BY <2>2 DEF M
<1>2. PICK k \in Nat \ {0} : BIT[D] = k * (2 * BIT[j])
  BY BitMultiple
<1>3. q * BIT[D] = (q * k) * (2 * BIT[j]) /\ q * k \in Nat
  BY <1>0, <1>1, <1>2
<1>. DEFINE e == q * k
<1>4. e \in Nat /\ n = r + e * (2 * BIT[j])
  BY <1>0, <1>1, <1>3
<1>. HIDE DEF e
<1>5. Bit(r + e * (2 * BIT[j]), j) <=> Bit(r, j)
  BY <1>1, <1>4, BitShift
<1>. QED BY <1>1, <1>4, <1>5

\* WithBit replaces the middle part.
LEMMA WithBitParts ==
  ASSUME NEW i \in Nat, NEW a \in Nat, NEW b \in {0, 1}, NEW c \in 0 .. BIT[i] - 1,
         NEW on \in BOOLEAN
  PROVE  WithBit(a * (2 * BIT[i]) + b * BIT[i] + c, i, on)
           = a * (2 * BIT[i]) + (IF on THEN 1 ELSE 0) * BIT[i] + c
<1>. DEFINE P == BIT[i]
            x == a * (2 * P)
            n == x + b * P + c
<1>1. Bit(n, i) <=> b = 1
  BY BitOfParts
<1>2. P \in Nat \ {0} /\ x \in Nat
  BY BitValue
<1>3. /\ on /\ ~Bit(n, i) => WithBit(n, i, on) = n + P
      /\ ~on /\ Bit(n, i) => WithBit(n, i, on) = n - P
      /\ (on <=> Bit(n, i)) => WithBit(n, i, on) = n
  BY DEF WithBit
<1>. HIDE DEF x
<1>4. /\ b = 0 => n = x + c
      /\ b = 1 => n = x + P + c
  <2>. HIDE DEF P
  <2>1. 0 * P = 0 /\ 1 * P = P
    BY <1>2
  <2>. QED BY <1>2, <2>1
<1>. DEFINE m == x + (IF on THEN 1 ELSE 0) * P + c
<1>5. /\ on => m = x + P + c
      /\ ~on => m = x + c
  <2>. HIDE DEF P
  <2>1. 0 * P = 0 /\ 1 * P = P
    BY <1>2
  <2>. QED BY <1>2, <2>1
<1>6. WithBit(n, i, on) = m
  <2>a. c \in Nat /\ P \in Nat
    BY <1>2
  <2>. HIDE DEF m, n, P
  <2>1. CASE on /\ b = 0
    <3>1. n = x + c /\ m = x + P + c
      BY <1>4, <1>5, <2>1, Zenon
    <3>2. ~Bit(n, i)
      BY <1>1, <2>1
    <3>3. WithBit(n, i, on) = n + P
      BY <1>3, <2>1, <3>2, Zenon
    <3>. QED BY <1>2, <2>a, <3>1, <3>3
  <2>2. CASE ~on /\ b = 1
    BY <1>1, <1>2, <1>3, <1>4, <1>5, <2>2, <2>a
  <2>3. CASE on /\ b = 1
    BY <1>1, <1>2, <1>3, <1>4, <1>5, <2>3, <2>a
  <2>4. CASE ~on /\ b = 0
    BY <1>1, <1>2, <1>3, <1>4, <1>5, <2>4, <2>a
  <2>. QED BY <2>1, <2>2, <2>3, <2>4
<1>. QED BY <1>6 DEF x

\* A word of D bits stays one.
LEMMA WithBitBelow ==
  ASSUME NEW D \in Nat, NEW i \in Nat, i < D, NEW n \in 0 .. BIT[D] - 1, NEW on \in BOOLEAN
  PROVE  WithBit(n, i, on) \in 0 .. BIT[D] - 1
<1>. DEFINE P == BIT[i]
            Q == BIT[D]
            u == IF on THEN 1 ELSE 0
<1>0. P \in Nat \ {0} /\ Q \in Nat \ {0} /\ n \in Nat
  BY BitValue
<1>1. PICK a \in Nat, b \in {0, 1}, c \in 0 .. P - 1 : n = a * (2 * P) + b * P + c
  BY <1>0, BitParts
<1>2. PICK k \in Nat \ {0} : Q = k * (2 * P)
  BY BitMultiple
<1>3. WithBit(n, i, on) = a * (2 * P) + u * P + c
  BY <1>1, WithBitParts
<1>. HIDE DEF P, Q
<1>4. a * (2 * P) \in Nat /\ b * P \in Nat /\ u * P \in 0 .. P
  <2>1. 0 * P = 0 /\ 1 * P = P
    BY <1>0
  <2>. QED BY <1>0, <1>1, <2>1
<1>5. a < k
  <2>. SUFFICES ASSUME a >= k PROVE FALSE
    BY <1>1, <1>2
  <2>1. a * (2 * P) >= k * (2 * P)
    BY <1>0, <1>1, <1>2
  <2>2. n < Q
    BY <1>0 DEF Q
  <2>. QED BY <1>0, <1>1, <1>2, <1>4, <2>1, <2>2
<1>6. a * (2 * P) + 2 * P <= k * (2 * P)
  <2>1. PICK m \in Nat : k = a + 1 + m
    BY <1>1, <1>2, <1>5, k - a - 1 \in Nat, k = a + 1 + (k - a - 1)
  <2>2. k * (2 * P) = a * (2 * P) + 2 * P + m * (2 * P) /\ m * (2 * P) \in Nat
    BY <1>0, <1>1, <2>1
  <2>. QED BY <1>0, <1>4, <2>2
<1>7. WithBit(n, i, on) \in 0 .. Q - 1
  <2>. DEFINE x == a * (2 * P)
              y == u * P
  <2>1. x \in Nat /\ y \in 0 .. P /\ x + 2 * P <= Q /\ WithBit(n, i, on) = x + y + c
    BY <1>2, <1>3, <1>4, <1>6
  <2>. HIDE DEF x, y
  <2>. QED BY <1>0, <1>1, <2>1
<1>. QED BY <1>7 DEF Q

\* WithBit sets one bit and leaves the others.
LEMMA WithBitSets ==
  ASSUME NEW n \in Nat, NEW i \in Nat, NEW on \in BOOLEAN
  PROVE  /\ WithBit(n, i, on) \in Nat
         /\ \A j \in Nat : Bit(WithBit(n, i, on), j) <=> IF j = i THEN on ELSE Bit(n, j)
<1>. DEFINE P == BIT[i]
            u == IF on THEN 1 ELSE 0
            w == WithBit(n, i, on)
<1>0. P \in Nat \ {0} /\ u \in {0, 1} /\ (u = 1 <=> on)
  BY BitValue
<1>1. PICK a \in Nat, b \in {0, 1}, c \in 0 .. P - 1 : n = a * (2 * P) + b * P + c
  BY BitParts
<1>2. w = a * (2 * P) + u * P + c
  BY <1>1, WithBitParts
<1>. HIDE DEF u
<1>3. w \in Nat
  <2>. HIDE DEF w, P
  <2>. QED BY <1>0, <1>1, <1>2
<1>4. Bit(w, i) <=> on
  <2>1. Bit(a * (2 * P) + u * P + c, i) <=> u = 1
    BY <1>0, BitOfParts
  <2>. QED BY <1>0, <1>2, <2>1
<1>. HIDE DEF w
<1>5. ASSUME NEW j \in Nat, j < i PROVE Bit(w, j) <=> Bit(n, j)
  <2>. DEFINE R == 2 * BIT[j]
              m == a * (2 * P) + c
  <2>1. PICK k \in Nat \ {0} : P = k * R
    BY <1>5, BitMultiple
  <2>2. R \in Nat /\ m \in Nat
    <3>1. R \in Nat
      BY BitValue
    <3>2. P \in Nat /\ c \in Nat
      BY <1>0, <1>1
    <3>. HIDE DEF P
    <3>3. a * (2 * P) \in Nat
      BY <3>2
    <3>. QED BY <3>1, <3>2, <3>3
  <2>3. b * P = (b * k) * R /\ b * k \in Nat /\ u * P = (u * k) * R /\ u * k \in Nat
    <3>. HIDE DEF R, P
    <3>1. b \in Nat /\ u \in Nat
      BY <1>0, <1>1
    <3>. QED BY <2>1, <2>2, <3>1
  <2>4. n = m + (b * k) * R /\ w = m + (u * k) * R
    <3>. DEFINE x == a * (2 * P)
                y == b * P
                z == u * P
    <3>1. x \in Nat /\ y \in Nat /\ z \in Nat
      <4>. HIDE DEF P
      <4>. QED BY <1>0, <1>1
    <3>2. n = x + y + c /\ w = x + z + c /\ m = x + c
      BY <1>1, <1>2
    <3>3. n = m + y /\ w = m + z
      <4>. HIDE DEF x, y, z, m
      <4>. QED BY <1>1, <3>1, <3>2
    <3>. QED BY <2>3, <3>3
  <2>. HIDE DEF m
  <2>5. \A e \in Nat : Bit(m + e * R, j) <=> Bit(m, j)
    BY <2>2, BitShift
  <2>. HIDE DEF R
  <2>. QED BY <2>3, <2>4, <2>5
<1>6. ASSUME NEW j \in Nat, i < j PROVE Bit(w, j) <=> Bit(n, j)
  <2>. DEFINE Q == BIT[j]
  <2>0. Q \in Nat \ {0}
    BY BitValue
  <2>1. PICK A \in Nat, B \in {0, 1}, C \in 0 .. Q - 1 : n = A * (2 * Q) + B * Q + C
    BY BitParts
  <2>2. PICK k \in Nat \ {0} : Q = k * (2 * P)
    BY <1>6, BitMultiple
  <2>3. PICK a1 \in Nat, b1 \in {0, 1}, c1 \in 0 .. P - 1 : C = a1 * (2 * P) + b1 * P + c1
    BY BitParts
  <2>. DEFINE e == (2 * A + B) * k
              V == WithBit(C, i, on)
  <2>4. V \in 0 .. Q - 1
    BY <1>6, WithBitBelow
  <2>5. V = a1 * (2 * P) + u * P + c1
    BY <2>3, WithBitParts DEF u
  <2>6. A * (2 * Q) + B * Q = e * (2 * P) /\ e \in Nat
    <3>1. A * (2 * Q) + B * Q = (2 * A + B) * Q /\ 2 * A + B \in Nat
      <4>. HIDE DEF Q
      <4>. QED BY <2>0, <2>1
    <3>. DEFINE d == 2 * A + B
    <3>2. d * Q = (d * k) * (2 * P) /\ d * k \in Nat
      <4>1. d \in Nat
        BY <3>1
      <4>. HIDE DEF d, P, Q
      <4>. QED BY <1>0, <2>2, <4>1
    <3>. QED BY <3>1, <3>2
  <2>7. n = (e + a1) * (2 * P) + b1 * P + c1 /\ e + a1 \in Nat
    <3>1. (e + a1) * (2 * P) = e * (2 * P) + a1 * (2 * P)
      <4>. HIDE DEF e, P
      <4>. QED BY <1>0, <2>3, <2>6
    <3>. DEFINE x == A * (2 * Q)
                y == B * Q
                z == e * (2 * P)
                v == a1 * (2 * P)
                t == b1 * P
    <3>2. x \in Nat /\ y \in Nat /\ z \in Nat /\ v \in Nat /\ t \in Nat
      <4>. HIDE DEF e, P, Q
      <4>. QED BY <1>0, <2>0, <2>1, <2>3, <2>6
    <3>3. n = x + y + C /\ C = v + t + c1 /\ x + y = z
      BY <2>1, <2>3, <2>6
    <3>4. n = (z + v) + t + c1
      <4>1. C \in Nat /\ c1 \in Nat
        BY <1>0, <2>0, <2>1, <2>3
      <4>. HIDE DEF x, y, z, v, t, e, P, Q
      <4>. QED BY <3>2, <3>3, <4>1
    <3>. QED BY <2>3, <2>6, <3>1, <3>4
  <2>8. w = (e + a1) * (2 * P) + u * P + c1
    <3>. HIDE DEF e
    <3>. QED BY <2>3, <2>7, WithBitParts DEF w, u
  <2>9. w = A * (2 * Q) + B * Q + V
    <3>1. (e + a1) * (2 * P) = e * (2 * P) + a1 * (2 * P)
      <4>. HIDE DEF e, P
      <4>. QED BY <1>0, <2>3, <2>6
    <3>. DEFINE x == A * (2 * Q) + B * Q
                z == e * (2 * P)
                v == a1 * (2 * P)
                t == u * P
    <3>2. x \in Nat /\ z \in Nat /\ v \in Nat /\ t \in Nat
      <4>. HIDE DEF e, P, Q
      <4>. QED BY <1>0, <2>0, <2>1, <2>3, <2>6
    <3>3. w = (z + v) + t + c1 /\ V = v + t + c1 /\ x = z
      BY <2>5, <2>6, <2>8, <3>1
    <3>4. w = x + V
      <4>. HIDE DEF x, z, v, t, V
      <4>. QED BY <2>3, <3>2, <3>3
    <3>. QED BY <3>4
  <2>. HIDE DEF V
  <2>10. Bit(A * (2 * Q) + B * Q + V, j) <=> B = 1
    BY <2>1, <2>4, BitOfParts
  <2>11. Bit(A * (2 * Q) + B * Q + C, j) <=> B = 1
    BY <2>1, BitOfParts
  <2>. QED BY <2>1, <2>9, <2>10, <2>11
<1>7. \A j \in Nat : Bit(w, j) <=> IF j = i THEN on ELSE Bit(n, j)
  <2>. SUFFICES ASSUME NEW j \in Nat PROVE Bit(w, j) <=> IF j = i THEN on ELSE Bit(n, j)
    OBVIOUS
  <2>1. j = i \/ j < i \/ i < j
    OBVIOUS
  <2>. QED BY <1>4, <1>5, <1>6, <2>1
<1>. QED BY <1>3, <1>7 DEF w

-----------------------------------------------------------------------------
(* The server on the register map                                          *)

\* Registers, pins and clock; the pins show the register of the outputs.
RegSet == [h : [0 .. HoldNum - 1 -> Nat], o : Nat, t : Nat \X Nat]
Pins(r) == r.o = r.h[DoIdx] % BIT[DoNum]

ServerInv ==
  Regs \in RegSet /\ Pins(Regs) /\ inputs \in [0 .. InNum - 1 -> Nat]

\* A number cut off at the width of the outputs.
LEMMA OutputsOf ==
  ASSUME NEW n \in Nat
  PROVE  n % BIT[DoNum] \in 0 .. BIT[DoNum] - 1 /\ n % BIT[DoNum] \in Nat
<1>. DEFINE M == BIT[DoNum]
<1>1. M \in Nat \ {0}
  BY MbServerAssumption, BitValue
<1>. HIDE DEF M
<1>2. n % M \in 0 .. M - 1
  BY <1>1, DivMod
<1>. QED BY <1>1, <1>2 DEF M

\* What io_write_holding does to the registers.
LEMMA WriteHoldingSets ==
  ASSUME NEW r \in RegSet, NEW addr \in 0 .. HoldNum - 1, NEW val \in Nat
  PROVE  /\ WriteHolding(r, addr, val) \in RegSet
         /\ Pins(r) => Pins(WriteHolding(r, addr, val))
         /\ \A a \in 0 .. HoldNum - 1 : a # addr => WriteHolding(r, addr, val).h[a] = r.h[a]
         /\ addr \notin ActIdx => WriteHolding(r, addr, val).h[addr] = val
<1>. DEFINE v == IF addr \in ActIdx THEN 0 ELSE val
            w == [r EXCEPT !.h[addr] = v]
            x == WriteHolding(r, addr, val)
<1>0. /\ DoIdx \in 0 .. HoldNum - 1 /\ HiIdx \in 0 .. HoldNum - 1 /\ DoIdx \notin ActIdx /\ DoIdx # LoIdx
      /\ BIT[DoNum] \in Nat \ {0}
  BY MbServerAssumption, BitValue
<1>1. v \in Nat /\ (addr \notin ActIdx => v = val)
  OBVIOUS
<1>2. /\ w \in RegSet /\ w.o = r.o /\ w.h[addr] = v
      /\ \A a \in 0 .. HoldNum - 1 : a # addr => w.h[a] = r.h[a]
  <2>. HIDE DEF v
  <2>. QED BY <1>1 DEF RegSet
<1>3. CASE r.h[addr] = val
  <2>1. x = r
    BY <1>3 DEF WriteHolding
  <2>. QED BY <1>3, <2>1
<1>4. CASE r.h[addr] # val /\ addr = DoIdx
  <2>1. x = [w EXCEPT !.o = val % BIT[DoNum]]
    BY <1>0, <1>4 DEF WriteHolding
  <2>2. val % BIT[DoNum] \in Nat
    BY OutputsOf
  <2>. HIDE DEF w
  <2>3. x \in RegSet /\ x.h = w.h /\ x.o = val % BIT[DoNum]
    BY <1>2, <2>1, <2>2 DEF RegSet
  <2>. QED BY <1>0, <1>1, <1>2, <1>4, <2>3 DEF Pins
<1>5. CASE r.h[addr] # val /\ addr # DoIdx
  <2>1. x = w \/ x = [w EXCEPT !.t = <<r.h[HiIdx], val>>]
    BY <1>5 DEF WriteHolding
  <2>2. <<r.h[HiIdx], val>> \in Nat \X Nat
    BY <1>0 DEF RegSet
  <2>. HIDE DEF w
  <2>3. x \in RegSet /\ x.h = w.h /\ x.o = w.o
    BY <1>2, <2>1, <2>2 DEF RegSet
  <2>. QED BY <1>0, <1>1, <1>2, <1>5, <2>3 DEF Pins
<1>. QED BY <1>3, <1>4, <1>5

\* What io_write_do_bit does to them.
LEMMA WriteCoilSets ==
  ASSUME NEW r \in RegSet, NEW bit \in 0 .. DoNum - 1, NEW on \in BOOLEAN
  PROVE  /\ WriteCoil(r, bit, on) \in RegSet /\ Pins(WriteCoil(r, bit, on))
         /\ \A a \in 0 .. HoldNum - 1 : a # DoIdx => WriteCoil(r, bit, on).h[a] = r.h[a]
         /\ \A j \in 0 .. DoNum - 1 :
              Bit(WriteCoil(r, bit, on).h[DoIdx], j) <=> IF j = bit THEN on ELSE Bit(r.h[DoIdx], j)
<1>. DEFINE n == r.h[DoIdx]
            w == WithBit(n, bit, on)
            v == w % BIT[DoNum]
<1>a. DoIdx \in 0 .. HoldNum - 1 /\ DoNum \in Nat
  BY MbServerAssumption
<1>0. /\ DoIdx \in 0 .. HoldNum - 1 /\ DoNum \in Nat /\ bit \in Nat
      /\ BIT[DoNum] \in Nat \ {0} /\ n \in Nat
  <2>1. n \in Nat
    BY <1>a DEF RegSet
  <2>. QED BY <1>a, <2>1, BitValue
<1>. HIDE DEF n
<1>1. w \in Nat /\ \A j \in Nat : Bit(w, j) <=> IF j = bit THEN on ELSE Bit(n, j)
  BY <1>0, WithBitSets
<1>. HIDE DEF w
<1>2. v \in 0 .. BIT[DoNum] - 1 /\ v \in Nat
  BY <1>1, OutputsOf
<1>3. v % BIT[DoNum] = v
  <2>1. (0 * BIT[DoNum] + v) % BIT[DoNum] = v
    <3>. HIDE DEF v
    <3>. QED BY <1>0, <1>2, ModUnique
  <2>2. 0 * BIT[DoNum] + v = v
    BY <1>0, <1>2
  <2>. QED BY <2>1, <2>2
<1>4. \A j \in 0 .. DoNum - 1 : Bit(v, j) <=> IF j = bit THEN on ELSE Bit(n, j)
  <2>. SUFFICES ASSUME NEW j \in 0 .. DoNum - 1
                PROVE  Bit(v, j) <=> IF j = bit THEN on ELSE Bit(n, j)
    OBVIOUS
  <2>1. j \in Nat /\ j < DoNum
    BY <1>0
  <2>2. Bit(v, j) <=> Bit(w, j)
    BY <1>0, <1>1, <2>1, BitOfMod
  <2>. QED BY <1>1, <2>1, <2>2
<1>5. WriteCoil(r, bit, on) = [r EXCEPT !.h[DoIdx] = v, !.o = v]
  BY DEF WriteCoil, w, n
<1>. HIDE DEF v
<1>6. /\ WriteCoil(r, bit, on) \in RegSet
      /\ WriteCoil(r, bit, on).o = v /\ WriteCoil(r, bit, on).h[DoIdx] = v
      /\ \A a \in 0 .. HoldNum - 1 : a # DoIdx => WriteCoil(r, bit, on).h[a] = r.h[a]
  <2>. DEFINE g == [r.h EXCEPT ![DoIdx] = v]
  <2>1. WriteCoil(r, bit, on) = [h |-> g, o |-> v, t |-> r.t]
    BY <1>5 DEF RegSet
  <2>2. r.h \in [0 .. HoldNum - 1 -> Nat] /\ r.t \in Nat \X Nat
    BY DEF RegSet
  <2>3. /\ g \in [0 .. HoldNum - 1 -> Nat] /\ g[DoIdx] = v
        /\ \A a \in 0 .. HoldNum - 1 : a # DoIdx => g[a] = r.h[a]
    BY <1>a, <1>2, <2>2
  <2>. HIDE DEF g
  <2>. QED BY <1>2, <2>1, <2>2, <2>3 DEF RegSet
<1>. QED BY <1>3, <1>4, <1>6 DEF Pins, n

\* A request whose form fc15_coils_write or fc16_hregs_write has accepted, and the
\* number of items it may name.
Accepted(q, num) ==
  /\ q.addr \in Nat /\ q.qty \in Nat \ {0} /\ num \in Nat
  /\ \/ q.fc = 15 /\ num = DoNum
     \/ q.fc = 16 /\ num = HoldNum /\ \A i \in 1 .. q.qty : q.data[i] \in Nat

\* One turn of their loops.
Turn(q, num, r, i) == IF q.addr + i - 1 >= num THEN r ELSE ItemWritten(q, r, i)

\* The loop by its turns: f[i] are the registers after the first i items.
Loop(f, q, num) ==
  /\ f \in [0 .. q.qty -> RegSet] /\ f[0] = Regs
  /\ \A i \in 0 .. q.qty - 1 : f[i + 1] = Turn(q, num, f[i], i + 1)

LEMMA TurnType ==
  ASSUME NEW q, NEW num, Accepted(q, num), NEW r \in RegSet, NEW i \in 1 .. q.qty
  PROVE  /\ Turn(q, num, r, i) \in RegSet
         /\ Pins(r) => Pins(Turn(q, num, r, i))
<1>1. CASE q.addr + i - 1 >= num
  BY <1>1 DEF Turn
<1>2. CASE ~(q.addr + i - 1 >= num)
  <2>1. q.addr + i - 1 \in 0 .. num - 1 /\ Turn(q, num, r, i) = ItemWritten(q, r, i)
    BY <1>2 DEF Accepted, Turn
  <2>. DEFINE b == q.addr + i - 1
  <2>2. CASE q.fc = 15 /\ num = DoNum
    <3>1. CoilOf(q, i) \in BOOLEAN
      BY DEF CoilOf, Bit
    <3>2. ItemWritten(q, r, i) = WriteCoil(r, b, CoilOf(q, i))
      BY <2>2 DEF ItemWritten
    <3>3. b \in 0 .. DoNum - 1
      BY <2>1, <2>2
    <3>. DEFINE c == CoilOf(q, i)
    <3>. HIDE DEF b, c
    <3>4. WriteCoil(r, b, c) \in RegSet /\ (Pins(r) => Pins(WriteCoil(r, b, c)))
      BY <3>1, <3>3, WriteCoilSets DEF c
    <3>. QED BY <2>1, <3>2, <3>4 DEF c
  <2>3. CASE q.fc = 16 /\ num = HoldNum /\ q.data[i] \in Nat
    <3>1. ItemWritten(q, r, i) = WriteHolding(r, b, q.data[i])
      BY <2>3 DEF ItemWritten
    <3>2. b \in 0 .. HoldNum - 1
      BY <2>1, <2>3
    <3>. DEFINE d == q.data[i]
    <3>3. d \in Nat
      BY <2>3
    <3>. HIDE DEF b, d
    <3>4. WriteHolding(r, b, d) \in RegSet /\ (Pins(r) => Pins(WriteHolding(r, b, d)))
      BY <3>2, <3>3, WriteHoldingSets
    <3>. QED BY <2>1, <3>1, <3>4 DEF d
  <2>. QED BY <2>2, <2>3 DEF Accepted
<1>. QED BY <1>1, <1>2

\* WriteMany is the loop.
LEMMA ManyIsLoop ==
  ASSUME NEW q, NEW num, Accepted(q, num), Regs \in RegSet
  PROVE  \E f : Loop(f, q, num) /\ WriteMany(q, num) =
           Result(f[q.qty], IF q.addr + q.qty > num THEN [fc |-> q.fc, exc |-> 2]
                            ELSE [fc |-> q.fc, data |-> <<q.addr, q.qty>>])
<1>. DEFINE N == q.qty
            Is(f) == f = [i \in 0 .. N |->
              IF i = 0 \/ q.addr + i - 1 >= num THEN IF i = 0 THEN Regs ELSE f[i - 1]
              ELSE ItemWritten(q, f[i - 1], i)]
            f0 == CHOOSE f : Is(f)
            F == [p \in Nat \X RegSet |-> IF p[1] \in 1 .. N THEN Turn(q, num, p[2], p[1]) ELSE p[2]]
<1>0. N \in Nat
  BY DEF Accepted
<1>1. F \in [Nat \X RegSet -> RegSet]
  <2>1. ASSUME NEW p \in Nat \X RegSet
        PROVE  (IF p[1] \in 1 .. N THEN Turn(q, num, p[2], p[1]) ELSE p[2]) \in RegSet
    <3>1. p[2] \in RegSet
      OBVIOUS
    <3>. QED BY <3>1, TurnType
  <2>. QED BY <2>1
<1>2. \E g : Recursive(g, RegSet, Regs, F)
  <2>. HIDE DEF F
  <2>. QED BY <1>1, Recursion, Zenon
<1>3. PICK g : g \in [Nat -> RegSet] /\ g[0] = Regs /\ \A i \in Nat : g[i + 1] = F[<<i + 1, g[i]>>]
  BY <1>2 DEF Recursive
<1>4. ASSUME NEW i \in Nat, i + 1 <= N PROVE g[i + 1] = Turn(q, num, g[i], i + 1)
  <2>1. g[i] \in RegSet /\ i + 1 \in Nat /\ i + 1 \in 1 .. N
    BY <1>0, <1>3, <1>4
  <2>2. F[<<i + 1, g[i]>>] = Turn(q, num, g[i], i + 1)
    <3>1. <<i + 1, g[i]>> \in Nat \X RegSet
      BY <2>1
    <3>. HIDE DEF N
    <3>. QED BY <2>1, <3>1
  <2>. QED BY <1>3, <2>2
<1>. DEFINE e == [i \in 0 .. N |-> g[i]]
<1>5. Is(e)
  <2>1. ASSUME NEW i \in 0 .. N
        PROVE  e[i] = IF i = 0 \/ q.addr + i - 1 >= num THEN IF i = 0 THEN Regs ELSE e[i - 1]
                      ELSE ItemWritten(q, e[i - 1], i)
    <3>1. CASE i = 0
      BY <1>0, <1>3, <3>1
    <3>2. CASE i # 0
      <4>1. i - 1 \in Nat /\ (i - 1) + 1 = i /\ i - 1 \in 0 .. N
        BY <1>0, <3>2
      <4>2. e[i] = g[i] /\ e[i - 1] = g[i - 1]
        BY <4>1
      <4>3. (i - 1) + 1 <= N
        BY <1>0, <4>1
      <4>4. g[(i - 1) + 1] = Turn(q, num, g[i - 1], (i - 1) + 1)
        BY <1>4, <4>1, <4>3
      <4>5. e[i] = Turn(q, num, e[i - 1], i)
        BY <4>1, <4>2, <4>4
      <4>. HIDE DEF e
      <4>. QED BY <3>2, <4>5 DEF Turn
    <3>. QED BY <3>1, <3>2
  <2>. QED BY <2>1
<1>6. Is(f0)
  <2>. HIDE DEF Is
  <2>. QED BY <1>5
<1>7. WriteMany(q, num) = Result(f0[q.qty], IF q.addr + q.qty > num THEN [fc |-> q.fc, exc |-> 2]
                                           ELSE [fc |-> q.fc, data |-> <<q.addr, q.qty>>])
  BY DEF WriteMany
<1>. HIDE DEF f0
<1>8. f0[0] = Regs /\ DOMAIN f0 = 0 .. N /\ f0 = [i \in 0 .. N |-> f0[i]]
  BY <1>0, <1>6
<1>9. ASSUME NEW i \in 0 .. N - 1 PROVE f0[i + 1] = Turn(q, num, f0[i], i + 1)
  <2>1. i + 1 \in 0 .. N /\ i + 1 # 0 /\ (i + 1) - 1 = i
    BY <1>0
  <2>2. f0[i + 1] = IF q.addr + (i + 1) - 1 >= num THEN f0[(i + 1) - 1]
                    ELSE ItemWritten(q, f0[(i + 1) - 1], i + 1)
    BY <1>6, <2>1
  <2>. QED BY <2>1, <2>2 DEF Turn
<1>. DEFINE S == {i \in Nat : i <= N => f0[i] \in RegSet}
<1>10. S = Nat
  <2>1. 0 \in S
    BY <1>8
  <2>2. ASSUME NEW i \in S PROVE i + 1 \in S
    <3>. SUFFICES ASSUME i + 1 <= N PROVE f0[i + 1] \in RegSet
      OBVIOUS
    <3>1. i \in 0 .. N - 1 /\ i + 1 \in 1 .. q.qty /\ f0[i] \in RegSet
      BY <1>0
    <3>. QED BY <1>9, <3>1, TurnType
  <2>3. S \subseteq Nat
    OBVIOUS
  <2>. HIDE DEF S
  <2>. QED BY <2>1, <2>2, <2>3, SetInduction
<1>11. f0 \in [0 .. N -> RegSet]
  <2>1. \A i \in 0 .. N : f0[i] \in RegSet
    BY <1>0, <1>10
  <2>. QED BY <1>8, <2>1
<1>12. Loop(f0, q, num)
  BY <1>8, <1>9, <1>11 DEF Loop
<1>. QED BY <1>7, <1>12

\* The pins follow through the loop.
LEMMA LoopPins ==
  ASSUME NEW q, NEW num, Accepted(q, num), NEW f, Loop(f, q, num), Pins(Regs)
  PROVE  \A i \in 0 .. q.qty : f[i] \in RegSet /\ Pins(f[i])
<1>. DEFINE S == {i \in Nat : i <= q.qty => Pins(f[i])}
<1>0. q.qty \in Nat /\ f \in [0 .. q.qty -> RegSet]
  BY DEF Accepted, Loop
<1>1. S = Nat
  <2>1. 0 \in S
    BY DEF Loop
  <2>2. ASSUME NEW i \in S PROVE i + 1 \in S
    <3>. SUFFICES ASSUME i + 1 <= q.qty PROVE Pins(f[i + 1])
      OBVIOUS
    <3>1. i \in 0 .. q.qty - 1 /\ i \in 0 .. q.qty /\ i + 1 \in 1 .. q.qty /\ Pins(f[i])
      BY <1>0
    <3>2. f[i] \in RegSet /\ f[i + 1] = Turn(q, num, f[i], i + 1)
      BY <1>0, <3>1 DEF Loop
    <3>. QED BY <3>1, <3>2, TurnType
  <2>3. S \subseteq Nat
    OBVIOUS
  <2>. HIDE DEF S
  <2>. QED BY <2>1, <2>2, <2>3, SetInduction
<1>. QED BY <1>0, <1>1

\* FC16 writes the registers it names, as far as they exist, and no other.
LEMMA LoopRegs ==
  ASSUME NEW q, Accepted(q, HoldNum), q.fc = 16, NEW f, Loop(f, q, HoldNum)
  PROVE  \A a \in 0 .. HoldNum - 1 :
           /\ a \notin q.addr .. q.addr + q.qty - 1 => f[q.qty].h[a] = holding[a]
           /\ a \in q.addr .. q.addr + q.qty - 1 /\ a \notin ActIdx =>
                f[q.qty].h[a] = q.data[a - q.addr + 1]
<1>. DEFINE Done(i, a) ==
              /\ a \notin q.addr .. q.addr + i - 1 => f[i].h[a] = holding[a]
              /\ a \in q.addr .. q.addr + i - 1 /\ a \notin ActIdx =>
                   f[i].h[a] = q.data[a - q.addr + 1]
            S == {i \in Nat : i <= q.qty => \A a \in 0 .. HoldNum - 1 : Done(i, a)}
<1>0. /\ q.qty \in Nat /\ q.addr \in Nat /\ HoldNum \in Nat /\ f \in [0 .. q.qty -> RegSet]
      /\ \A i \in 1 .. q.qty : q.data[i] \in Nat
  BY MbServerAssumption DEF Accepted, Loop
<1>1. 0 \in S
  <2>1. f[0].h = holding
    BY DEF Loop, Regs
  <2>. QED BY <1>0, <2>1
<1>2. ASSUME NEW i \in S PROVE i + 1 \in S
  <2>. SUFFICES ASSUME i + 1 <= q.qty, NEW a \in 0 .. HoldNum - 1 PROVE Done(i + 1, a)
    OBVIOUS
  <2>1. /\ i \in Nat /\ i \in 0 .. q.qty - 1 /\ i \in 0 .. q.qty /\ i + 1 \in 1 .. q.qty
        /\ Done(i, a)
    BY <1>0
  <2>2. /\ f[i] \in RegSet /\ f[i + 1] = Turn(q, HoldNum, f[i], i + 1)
        /\ q.data[i + 1] \in Nat
    BY <1>0, <2>1 DEF Loop
  <2>. DEFINE b == q.addr + i
  <2>a. i \in Nat /\ q.addr \in Nat
    BY <1>0, <2>1
  <2>3. q.addr + (i + 1) - 1 = b /\ b \in Nat
    BY <2>a
  <2>4. CASE b >= HoldNum
    <3>1. f[i + 1] = f[i]
      BY <2>2, <2>3, <2>4 DEF Turn
    <3>2. a # b
      BY <1>0, <2>3, <2>4
    <3>3. a \in q.addr .. q.addr + (i + 1) - 1 <=> a \in q.addr .. q.addr + i - 1
      <4>1. a \in Int /\ q.addr + (i + 1) - 1 = q.addr + i /\ a # q.addr + i
        BY <2>a, <3>2
      <4>. HIDE DEF b
      <4>. QED BY <2>a, <4>1
    <3>. QED BY <2>1, <3>1, <3>3
  <2>5. CASE b < HoldNum
    <3>1. f[i + 1] = WriteHolding(f[i], b, q.data[i + 1])
      <4>1. ~(b >= HoldNum)
        BY <1>0, <2>3, <2>5
      <4>2. f[i + 1] = ItemWritten(q, f[i], i + 1)
        BY <2>2, <2>3, <4>1 DEF Turn
      <4>. QED BY <2>3, <4>2 DEF ItemWritten
    <3>2. b \in 0 .. HoldNum - 1
      BY <1>0, <2>3, <2>5
    <3>3. /\ a # b => f[i + 1].h[a] = f[i].h[a]
          /\ b \notin ActIdx => f[i + 1].h[b] = q.data[i + 1]
      <4>. DEFINE d == q.data[i + 1]
                  w == WriteHolding(f[i], b, d)
      <4>1. d \in Nat /\ f[i + 1] = w
        BY <2>2, <3>1
      <4>. HIDE DEF b, d
      <4>2. /\ \A c \in 0 .. HoldNum - 1 : c # b => w.h[c] = f[i].h[c]
            /\ b \notin ActIdx => w.h[b] = d
        BY <2>2, <3>2, <4>1, WriteHoldingSets
      <4>. HIDE DEF w
      <4>. QED BY <4>1, <4>2 DEF d
    <3>4. CASE a = b
      <4>1. a - q.addr + 1 = i + 1 /\ a \in q.addr .. q.addr + (i + 1) - 1
        BY <1>0, <2>1, <3>4
      <4>. QED BY <3>3, <3>4, <4>1
    <3>5. CASE a # b
      <4>1. a \in q.addr .. q.addr + (i + 1) - 1 <=> a \in q.addr .. q.addr + i - 1
        <5>. DEFINE e == q.addr
        <5>1. e \in Nat /\ i \in Nat /\ a \in Int /\ a # e + i
          BY <1>0, <2>1, <3>5
        <5>. HIDE DEF e, b
        <5>2. a \in e .. e + (i + 1) - 1 <=> a \in e .. e + i - 1
          BY <5>1
        <5>. QED BY <5>2 DEF e
      <4>. QED BY <2>1, <3>3, <3>5, <4>1
    <3>. QED BY <3>4, <3>5
  <2>. QED BY <1>0, <2>3, <2>4, <2>5
<1>3. S = Nat
  <2>1. S \subseteq Nat
    OBVIOUS
  <2>. HIDE DEF S
  <2>. QED BY <1>1, <1>2, <2>1, SetInduction
<1>4. \A a \in 0 .. HoldNum - 1 : Done(q.qty, a)
  BY <1>0, <1>3
<1>. QED BY <1>4

\* FC15 writes the coils it names, as far as they exist, and no other register.
LEMMA LoopCoils ==
  ASSUME NEW q, Accepted(q, DoNum), q.fc = 15, NEW f, Loop(f, q, DoNum)
  PROVE  /\ \A a \in 0 .. HoldNum - 1 : a # DoIdx => f[q.qty].h[a] = holding[a]
         /\ \A k \in 1 .. q.qty : q.addr + k - 1 < DoNum =>
              (Bit(f[q.qty].h[DoIdx], q.addr + k - 1) <=> CoilOf(q, k))
         /\ \A j \in 0 .. DoNum - 1 : j \notin q.addr .. q.addr + q.qty - 1 =>
              (Bit(f[q.qty].h[DoIdx], j) <=> Bit(holding[DoIdx], j))
<1>. DEFINE Same(i) == \A a \in 0 .. HoldNum - 1 : a # DoIdx => f[i].h[a] = holding[a]
            Set(i) == \A k \in 1 .. i : q.addr + k - 1 < DoNum =>
                        (Bit(f[i].h[DoIdx], q.addr + k - 1) <=> CoilOf(q, k))
            Kept(i) == \A j \in 0 .. DoNum - 1 : j \notin q.addr .. q.addr + q.qty - 1 =>
                         (Bit(f[i].h[DoIdx], j) <=> Bit(holding[DoIdx], j))
            S == {i \in Nat : i <= q.qty => Same(i) /\ Set(i) /\ Kept(i)}
<1>0. q.qty \in Nat /\ q.addr \in Nat /\ DoNum \in Nat /\ f \in [0 .. q.qty -> RegSet]
  BY MbServerAssumption DEF Accepted, Loop
<1>1. 0 \in S
  <2>1. f[0].h = holding
    BY DEF Loop, Regs
  <2>. QED BY <1>0, <2>1
<1>2. ASSUME NEW i \in S PROVE i + 1 \in S
  <2>. SUFFICES ASSUME i + 1 <= q.qty PROVE Same(i + 1) /\ Set(i + 1) /\ Kept(i + 1)
    OBVIOUS
  <2>1. /\ i \in Nat /\ i \in 0 .. q.qty - 1 /\ i \in 0 .. q.qty
        /\ Same(i) /\ Set(i) /\ Kept(i)
    BY <1>0
  <2>2. f[i] \in RegSet /\ f[i + 1] = Turn(q, DoNum, f[i], i + 1)
    BY <1>0, <2>1 DEF Loop
  <2>. DEFINE b == q.addr + i
              on == CoilOf(q, i + 1)
  <2>3. q.addr + (i + 1) - 1 = b /\ b \in Nat
    BY <1>0, <2>1
  <2>. HIDE DEF Same, Kept
  <2>4. CASE b >= DoNum
    <3>1. f[i + 1] = f[i]
      BY <2>2, <2>3, <2>4 DEF Turn
    <3>2. Same(i + 1)
      BY <2>1, <3>1 DEF Same
    <3>3. ASSUME NEW k \in 1 .. i + 1, q.addr + k - 1 < DoNum
          PROVE  Bit(f[i + 1].h[DoIdx], q.addr + k - 1) <=> CoilOf(q, k)
      <4>1. k \in 1 .. i
        BY <1>0, <2>1, <2>4, <3>3
      <4>. QED BY <2>1, <3>1, <3>3, <4>1
    <3>4. Kept(i + 1)
      BY <2>1, <3>1 DEF Kept
    <3>. QED BY <3>2, <3>3, <3>4
  <2>5. CASE b < DoNum
    <3>1. f[i + 1] = WriteCoil(f[i], b, on)
      <4>1. ~(b >= DoNum)
        BY <1>0, <2>3, <2>5
      <4>2. f[i + 1] = ItemWritten(q, f[i], i + 1)
        BY <2>2, <2>3, <4>1 DEF Turn
      <4>. QED BY <2>3, <4>2 DEF ItemWritten
    <3>2. b \in 0 .. DoNum - 1 /\ on \in BOOLEAN
      BY <1>0, <2>3, <2>5 DEF CoilOf, Bit
    <3>3. /\ \A a \in 0 .. HoldNum - 1 : a # DoIdx => f[i + 1].h[a] = f[i].h[a]
          /\ \A j \in 0 .. DoNum - 1 :
               Bit(f[i + 1].h[DoIdx], j) <=> IF j = b THEN on ELSE Bit(f[i].h[DoIdx], j)
      <4>. HIDE DEF b, on
      <4>. QED BY <2>2, <3>1, <3>2, WriteCoilSets
    <3>4. Same(i + 1)
      BY <2>1, <3>3 DEF Same
    <3>5. ASSUME NEW k \in 1 .. i + 1, q.addr + k - 1 < DoNum
          PROVE  Bit(f[i + 1].h[DoIdx], q.addr + k - 1) <=> CoilOf(q, k)
      <4>1. CASE k = i + 1
        <5>1. q.addr + k - 1 = b
          BY <2>3, <4>1
        <5>. HIDE DEF b
        <5>. QED BY <3>2, <3>3, <4>1, <5>1
      <4>2. CASE k # i + 1
        <5>1. k \in 1 .. i /\ q.addr + k - 1 # b /\ q.addr + k - 1 \in 0 .. DoNum - 1
          BY <1>0, <2>1, <3>5, <4>2
        <5>2. Bit(f[i].h[DoIdx], q.addr + k - 1) <=> CoilOf(q, k)
          BY <2>1, <3>5, <5>1
        <5>. HIDE DEF b
        <5>. QED BY <3>3, <5>1, <5>2
      <4>. QED BY <4>1, <4>2
    <3>6. Kept(i + 1)
      <4>1. b \in q.addr .. q.addr + q.qty - 1
        BY <1>0, <2>1
      <4>. HIDE DEF b
      <4>. QED BY <2>1, <3>3, <4>1 DEF Kept
    <3>. QED BY <3>4, <3>5, <3>6
  <2>. QED BY <1>0, <2>3, <2>4, <2>5
<1>3. S = Nat
  <2>1. S \subseteq Nat
    OBVIOUS
  <2>. HIDE DEF S
  <2>. QED BY <1>1, <1>2, <2>1, SetInduction
<1>4. Same(q.qty) /\ Set(q.qty) /\ Kept(q.qty)
  BY <1>0, <1>3
<1>. QED BY <1>4

\* An answer with data, one with an exception and none are told apart.
Refused(rsp) == rsp = NoResponse \/ (IsException(rsp) /\ rsp.exc # 2)

LEMMA Responses ==
  /\ \A x, y : ~Refused([fc |-> x, data |-> y]) /\ "data" \in DOMAIN [fc |-> x, data |-> y]
  /\ \A x : ~Refused([fc |-> x, exc |-> 2]) /\ "data" \notin DOMAIN [fc |-> x, exc |-> 2]
  /\ Refused(NoResponse) /\ "data" \notin DOMAIN NoResponse
  /\ \A x, c : /\ c # 2 => Refused([fc |-> x, exc |-> c])
               /\ "data" \notin DOMAIN [fc |-> x, exc |-> c]
<1>1. ASSUME NEW x, NEW y
      PROVE  ~Refused([fc |-> x, data |-> y]) /\ "data" \in DOMAIN [fc |-> x, data |-> y]
  <2>. DEFINE r == [fc |-> x, data |-> y]
  <2>1. DOMAIN r = {"fc", "data"} /\ DOMAIN NoResponse = {"fc"}
    BY DEF NoResponse
  <2>2. r # NoResponse /\ ~IsException(r)
    BY <2>1 DEF IsException
  <2>. QED BY <2>1, <2>2 DEF Refused
<1>2. ASSUME NEW x, NEW c
      PROVE  /\ "data" \notin DOMAIN [fc |-> x, exc |-> c]
             /\ c = 2 => ~Refused([fc |-> x, exc |-> c])
             /\ c # 2 => Refused([fc |-> x, exc |-> c])
  <2>. DEFINE r == [fc |-> x, exc |-> c]
  <2>1. DOMAIN r = {"fc", "exc"} /\ DOMAIN NoResponse = {"fc"} /\ r.exc = c
    BY DEF NoResponse
  <2>. HIDE DEF r
  <2>2. r # NoResponse /\ IsException(r) /\ "data" \notin DOMAIN r
    BY <2>1 DEF IsException
  <2>3. /\ c = 2 => ~Refused(r)
        /\ c # 2 => Refused(r)
    BY <2>1, <2>2 DEF Refused
  <2>. QED BY <2>2, <2>3 DEF r
<1>3. Refused(NoResponse) /\ "data" \notin DOMAIN NoResponse
  BY DEF Refused, NoResponse
<1>. QED BY <1>1, <1>2, <1>3

\* A request that has no effect on the registers.
Quiet(q) == Decoded(q).regs = Regs /\ (q.fc = 16 => Refused(Decoded(q).rsp))
            /\ (q.fc \in {5, 15} => "data" \notin DOMAIN Decoded(q).rsp)

\* The answers to refused requests.
LEMMA NoEffect ==
  /\ Silence.regs = Regs /\ Silence.rsp = NoResponse
  /\ \A fc, c : Exception(fc, c).regs = Regs /\ Exception(fc, c).rsp = [fc |-> fc, exc |-> c]
  /\ \A r, rsp : Result(r, rsp).regs = r /\ Result(r, rsp).rsp = rsp
BY DEF Silence, Exception, Result

\* Function codes that only read.
LEMMA ReadsAreQuiet ==
  ASSUME NEW q, q.fc \notin {5, 6, 15, 16}
  PROVE  Quiet(q)
<1>. SUFFICES Decoded(q).regs = Regs
  BY DEF Quiet
<1>1. ASSUME NEW num, NEW bits PROVE ReadBits(q, num, bits).regs = Regs
  BY NoEffect DEF ReadBits
<1>2. ASSUME NEW num, NEW regs PROVE ReadRegs(q, num, regs).regs = Regs
  BY NoEffect DEF ReadRegs
<1>3. ASSUME NEW d PROVE Diagnostics(q, d).regs = Regs
  BY NoEffect DEF Diagnostics
<1>4. CASE q.fc = 1
  BY <1>1, <1>4 DEF Decoded
<1>5. CASE q.fc = 2
  BY <1>1, <1>5 DEF Decoded
<1>6. CASE q.fc = 3
  BY <1>2, <1>6 DEF Decoded
<1>7. CASE q.fc = 4
  BY <1>2, <1>7 DEF Decoded
<1>8. CASE q.fc = 8
  BY <1>3, <1>8 DEF Decoded
<1>9. CASE q.fc \notin {1, 2, 3, 4, 8}
  <2>1. Decoded(q) = Exception(q.fc, 1)
    BY <1>9 DEF Decoded
  <2>. QED BY <2>1, NoEffect
<1>. QED BY <1>4, <1>5, <1>6, <1>7, <1>8, <1>9

\* FC05 and FC06: without effect, or one write.
LEMMA SingleWrites ==
  ASSUME NEW q \in MbRequests, q.fc \in {5, 6}
  PROVE  \/ Quiet(q)
         \/ /\ ~Refused(Decoded(q).rsp) /\ q.addr \in Nat /\ q.val \in Nat
            /\ \/ /\ q.fc = 5 /\ q.addr \in 0 .. DoNum - 1
                  /\ Decoded(q).regs = WriteCoil(Regs, q.addr, q.val # 0)
               \/ /\ q.fc = 6 /\ q.addr \in 0 .. HoldNum - 1
                  /\ Decoded(q).regs = WriteHolding(Regs, q.addr, q.val)
<1>. DEFINE num == IF q.fc = 5 THEN DoNum ELSE HoldNum
            w == IF q.fc = 5 THEN WriteCoil(Regs, q.addr, q.val # 0)
                 ELSE WriteHolding(Regs, q.addr, q.val)
<1>1. Decoded(q) = WriteOne(q, num, w)
  <2>1. CASE q.fc = 5
    BY <2>1 DEF Decoded
  <2>2. CASE q.fc = 6
    BY <2>2 DEF Decoded
  <2>. QED BY <2>1, <2>2
<1>2. num \in Nat
  BY MbServerAssumption
<1>. HIDE DEF num, w
<1>3. CASE q.dlen # 4
  <2>1. Decoded(q) = Silence
    BY <1>1, <1>3 DEF WriteOne
  <2>. QED BY <2>1, NoEffect, Responses DEF Quiet
<1>4. CASE q.dlen = 4 /\ q.addr >= num
  <2>1. Decoded(q) = Exception(q.fc, 2)
    BY <1>1, <1>4 DEF WriteOne
  <2>2. Decoded(q).regs = Regs /\ Decoded(q).rsp = [fc |-> q.fc, exc |-> 2]
    BY <2>1, NoEffect
  <2>3. "data" \notin DOMAIN [fc |-> q.fc, exc |-> 2]
    BY Responses, Zenon
  <2>. QED BY <2>2, <2>3 DEF Quiet
<1>5. CASE q.dlen = 4 /\ ~(q.addr >= num)
  <2>1. Decoded(q) = Result(w, [fc |-> q.fc, data |-> <<q.addr, q.val>>])
    BY <1>1, <1>5 DEF WriteOne
  <2>2. q.addr \in Nat /\ q.val \in Nat
    BY <1>5, MbServerAssumption DEF Request
  <2>3. q.addr \in 0 .. num - 1
    BY <1>2, <1>5, <2>2
  <2>4. Decoded(q).regs = w /\ ~Refused(Decoded(q).rsp)
    BY <2>1, NoEffect, Responses
  <2>. QED BY <2>2, <2>3, <2>4 DEF num, w
<1>. QED BY <1>3, <1>4, <1>5

\* FC15 and FC16: without effect, or the loop.
LEMMA MultipleWrites ==
  ASSUME NEW q \in MbRequests, q.fc \in {15, 16}
  PROVE  \/ Quiet(q)
         \/ q.fc = 15 /\ Accepted(q, DoNum) /\ Decoded(q) = WriteMany(q, DoNum)
         \/ q.fc = 16 /\ Accepted(q, HoldNum) /\ Decoded(q) = WriteMany(q, HoldNum)
<1>0. q.dlen \in Nat /\ Request(q) /\ DoNum \in Nat /\ HoldNum \in Nat
  BY MbServerAssumption DEF Request
<1>1. Decoded(q) = Silence => Quiet(q)
  BY NoEffect, Responses DEF Quiet
<1>2. ASSUME NEW c, c # 2, Decoded(q) = Exception(q.fc, c) PROVE Quiet(q)
  <2>1. Decoded(q).regs = Regs /\ Decoded(q).rsp = [fc |-> q.fc, exc |-> c]
    BY <1>2, NoEffect
  <2>2. Refused([fc |-> q.fc, exc |-> c]) /\ "data" \notin DOMAIN [fc |-> q.fc, exc |-> c]
    BY <1>2, Responses, Zenon
  <2>. QED BY <2>1, <2>2, Zenon DEF Quiet
<1>3. CASE q.fc = 15
  <2>1. Decoded(q) = WriteCoils(q)
    BY <1>3 DEF Decoded
  <2>. DEFINE bad == \/ q.qty \notin 1 .. BitLimit
                     \/ (q.qty - 1) \div ByteBits + 1 # q.nb
                     \/ q.dlen # q.nb + 5
  <2>2. CASE q.dlen < 6
    <3>1. Decoded(q) = Silence
      BY <1>0, <2>1, <2>2 DEF WriteCoils
    <3>. QED BY <1>1, <3>1
  <2>3. CASE q.dlen >= 6 /\ bad
    <3>1. ~(q.dlen < 6)
      BY <1>0, <2>3
    <3>2. Decoded(q) = Exception(q.fc, 3)
      BY <2>1, <2>3, <3>1 DEF WriteCoils
    <3>. QED BY <1>2, <3>2
  <2>4. CASE q.dlen >= 6 /\ ~bad
    <3>1. ~(q.dlen < 6)
      BY <1>0, <2>4
    <3>2. Decoded(q) = WriteMany(q, DoNum)
      BY <2>1, <2>4, <3>1 DEF WriteCoils
    <3>3. q.addr \in Nat /\ q.qty \in Nat /\ q.qty \in 1 .. BitLimit
      BY <1>0, <1>3, <2>4 DEF Request
    <3>4. q.qty # 0
      BY <3>3, MbServerAssumption
    <3>. QED BY <1>0, <1>3, <3>2, <3>3, <3>4 DEF Accepted
  <2>5. q.dlen < 6 \/ q.dlen >= 6
    BY <1>0
  <2>. QED BY <2>2, <2>3, <2>4, <2>5
<1>4. CASE q.fc = 16
  <2>1. Decoded(q) = WriteRegs(q)
    BY <1>4 DEF Decoded
  <2>2. CASE q.dlen < 6
    <3>1. Decoded(q) = Silence
      BY <1>0, <2>1, <2>2 DEF WriteRegs
    <3>. QED BY <1>1, <3>1
  <2>3. CASE q.dlen >= 6 /\ q.qty \notin 1 .. RegLimit
    <3>1. ~(q.dlen < 6)
      BY <1>0, <2>3
    <3>2. Decoded(q) = Exception(q.fc, 3)
      BY <2>1, <2>3, <3>1 DEF WriteRegs
    <3>. QED BY <1>2, <3>2
  <2>4. CASE q.dlen >= 6 /\ q.qty \in 1 .. RegLimit
    <3>1. ~(q.dlen < 6)
      BY <1>0, <2>4
    <3>2. q.addr \in Nat /\ q.qty \in Nat \ {0} /\ q.nb \in Nat /\ FpAddr \in Nat
      <4>1. q.addr \in Nat /\ q.qty \in Nat /\ q.nb \in Nat
        BY <1>0, <1>4, <2>4 DEF Request
      <4>. QED BY <2>4, <4>1, MbServerAssumption
    <3>. DEFINE bad == q.dlen - 5 # q.nb \/ q.nb \div q.qty # 2
    <3>3. CASE q.addr >= FpAddr
      <4>1. ~(q.addr < FpAddr)
        BY <3>2, <3>3
      <4>2. Decoded(q) = Exception(q.fc, 1)
        BY <2>1, <2>4, <3>1, <3>3, <4>1 DEF WriteRegs
      <4>. QED BY <1>2, <4>2
    <3>4. CASE q.addr < FpAddr /\ bad
      <4>1. ~(q.addr >= FpAddr)
        BY <3>2, <3>4
      <4>2. Decoded(q) = Exception(q.fc, 3)
        BY <2>1, <2>4, <3>1, <3>4, <4>1 DEF WriteRegs
      <4>. QED BY <1>2, <4>2
    <3>5. CASE q.addr < FpAddr /\ ~bad
      <4>1. ~(q.addr >= FpAddr)
        BY <3>2, <3>5
      <4>2. Decoded(q) = WriteMany(q, HoldNum)
        BY <2>1, <2>4, <3>1, <3>5, <4>1 DEF WriteRegs
      <4>. DEFINE nb == q.nb
                  n == q.qty
                  m == nb \div 2
      <4>3. nb = q.dlen - 5 /\ nb \in Nat /\ n \in Nat \ {0} /\ nb \div n = 2
        BY <3>2, <3>5
      <4>4. n <= m
        <5>1. (nb \div n) * n + (nb % n) = nb /\ nb % n \in Nat
          <6>. HIDE DEF nb, n
          <6>1. nb % n \in 0 .. n - 1 /\ nb = (nb \div n) * n + (nb % n)
            BY <4>3, DivMod, Zenon
          <6>. QED BY <4>3, <6>1
        <5>2. m * 2 + (nb % 2) = nb /\ nb % 2 \in 0 .. 1 /\ m \in Nat
          <6>. HIDE DEF nb, n
          <6>. QED BY <4>3
        <5>3. nb >= 2 * n
          <6>. HIDE DEF nb, n
          <6>. QED BY <4>3, <5>1
        <5>. HIDE DEF nb, n, m
        <5>. QED BY <4>3, <5>2, <5>3
      <4>5. q.data \in [1 .. m -> Nat]
        BY <1>0, <1>4, <2>4, <4>3 DEF Request
      <4>6. m \in Int
        <5>. HIDE DEF nb
        <5>. QED BY <4>3
      <4>7. \A i \in 1 .. n : q.data[i] \in Nat
        <5>. HIDE DEF m
        <5>. QED BY <4>3, <4>4, <4>5, <4>6
      <4>. QED BY <1>0, <1>4, <3>2, <4>2, <4>7 DEF Accepted
    <3>6. q.addr >= FpAddr \/ q.addr < FpAddr
      BY <3>2
    <3>. QED BY <3>3, <3>4, <3>5, <3>6
  <2>5. q.dlen < 6 \/ q.dlen >= 6
    BY <1>0
  <2>. QED BY <2>2, <2>3, <2>4, <2>5
<1>. QED BY <1>3, <1>4

\* Whatever is asked, the registers stay numbers and the pins follow.
LEMMA OutcomeKeeps ==
  ASSUME ServerInv, NEW q \in MbRequests
  PROVE  Decoded(q).regs \in RegSet /\ Pins(Decoded(q).regs)
<1>0. Regs \in RegSet /\ Pins(Regs)
  BY DEF ServerInv
<1>1. CASE Quiet(q)
  BY <1>0, <1>1 DEF Quiet
<1>2. CASE q.fc \in {5, 6} /\ ~Quiet(q)
  <2>0. (q.val # 0) \in BOOLEAN
    OBVIOUS
  <2>1. CASE /\ q.addr \in 0 .. DoNum - 1
             /\ Decoded(q).regs = WriteCoil(Regs, q.addr, q.val # 0)
    <3>. DEFINE on == q.val # 0
    <3>1. on \in BOOLEAN /\ Decoded(q).regs = WriteCoil(Regs, q.addr, on)
      BY <2>0, <2>1
    <3>. HIDE DEF on
    <3>. QED BY <1>0, <2>1, <3>1, WriteCoilSets
  <2>2. CASE /\ q.addr \in 0 .. HoldNum - 1 /\ q.val \in Nat
             /\ Decoded(q).regs = WriteHolding(Regs, q.addr, q.val)
    BY <1>0, <2>2, WriteHoldingSets
  <2>. QED BY <1>2, <2>1, <2>2, SingleWrites
<1>3. CASE q.fc \in {15, 16} /\ ~Quiet(q)
  <2>1. PICK num : Accepted(q, num) /\ Decoded(q) = WriteMany(q, num)
    BY <1>3, MultipleWrites
  <2>2. PICK f : Loop(f, q, num) /\ Decoded(q).regs = f[q.qty]
    <3>1. PICK f : Loop(f, q, num) /\ WriteMany(q, num) =
            Result(f[q.qty], IF q.addr + q.qty > num THEN [fc |-> q.fc, exc |-> 2]
                             ELSE [fc |-> q.fc, data |-> <<q.addr, q.qty>>])
      BY <1>0, <2>1, ManyIsLoop
    <3>2. WriteMany(q, num).regs = f[q.qty]
      BY <3>1, NoEffect
    <3>. QED BY <2>1, <3>1, <3>2
  <2>3. q.qty \in 0 .. q.qty
    BY <2>1 DEF Accepted
  <2>. QED BY <1>0, <2>1, <2>2, <2>3, LoopPins
<1>. QED BY <1>1, <1>2, <1>3, ReadsAreQuiet

LEMMA ServerStart == ModbusInit => ServerInv
<1>. SUFFICES ASSUME MbInit PROVE ServerInv
  BY DEF ModbusInit
<1>1. /\ DoIdx \in 0 .. HoldNum - 1 /\ DoNum \in Nat /\ InNum \in Nat \ {0}
      /\ HoldNum \in Nat
  BY MbServerAssumption
<1>2. 0 % BIT[DoNum] = 0
  <2>. DEFINE M == BIT[DoNum]
  <2>1. M \in Nat \ {0}
    BY <1>1, BitValue
  <2>. HIDE DEF M
  <2>2. (0 * M + 0) % M = 0 /\ 0 * M + 0 = 0
    <3>1. 0 \in Nat /\ 0 \in 0 .. M - 1 /\ 0 * M + 0 = 0
      BY <2>1
    <3>. QED BY <2>1, <3>1, ModUnique
  <2>. QED BY <2>2 DEF M
<1>3. holding[DoIdx] = 0 /\ holding \in [0 .. HoldNum - 1 -> Nat]
  BY <1>1 DEF MbInit
<1>4. inputs \in [0 .. InNum - 1 -> Nat]
  BY <1>1 DEF MbInit
<1>5. Regs = [h |-> holding, o |-> 0, t |-> <<0, 0>>]
  BY DEF MbInit, Regs
<1>. QED BY <1>2, <1>3, <1>4, <1>5 DEF ServerInv, RegSet, Pins

LEMMA ServerStep == ServerInv /\ [ModbusNext]_modbusVars => ServerInv'
<1>. SUFFICES ASSUME ServerInv, [ModbusNext]_modbusVars PROVE ServerInv'
  OBVIOUS
<1>1. CASE UNCHANGED registers
  BY <1>1 DEF registers, ServerInv, Regs, Pins
<1>2. CASE MbNext
  <2>1. ASSUME NEW q \in MbRequests, MbProcess(q) PROVE ServerInv'
    <3>. DEFINE p == Decoded(q)
    <3>1. p.regs \in RegSet /\ Pins(p.regs)
      BY OutcomeKeeps
    <3>. HIDE DEF p
    <3>2. holding' = p.regs.h /\ outs' = p.regs.o /\ clock' = p.regs.t /\ inputs' = inputs
      BY <2>1 DEF MbProcess, p
    <3>3. Regs' = p.regs
      BY <3>1, <3>2 DEF Regs, RegSet
    <3>. QED BY <3>1, <3>2, <3>3 DEF ServerInv, Pins
  <2>2. ASSUME NEW v \in 0 .. BIT[DiNum] - 1, MbSample(v) PROVE ServerInv'
    <3>1. v \in Nat /\ 0 \in 0 .. InNum - 1
      BY MbServerAssumption, BitValue
    <3>2. inputs' \in [0 .. InNum - 1 -> Nat]
      BY <2>2, <3>1 DEF MbSample, ServerInv
    <3>. QED BY <2>2, <3>2 DEF MbSample, ServerInv, Regs, Pins
  <2>3. ASSUME NEW t \in ClockTimes, MbTick(t) PROVE ServerInv'
    <3>1. t \in Nat \X Nat
      BY MbServerAssumption
    <3>2. UNCHANGED <<holding, inputs, outs>> /\ clock' = t
      BY <2>3 DEF MbTick
    <3>3. Regs' = [h |-> holding, o |-> outs, t |-> t] /\ Regs = [h |-> holding, o |-> outs, t |-> clock]
      BY <3>2 DEF Regs
    <3>. QED BY <3>1, <3>2, <3>3 DEF ServerInv, RegSet, Pins
  <2>. QED BY <1>2, <2>1, <2>2, <2>3 DEF MbNext
<1>3. UNCHANGED modbusVars => UNCHANGED registers
  BY DEF modbusVars, mbVars, registers
<1>. QED BY <1>1, <1>2, <1>3 DEF ModbusNext

\* A request of any form changes only the registers it names, multiple writes that
\* run past the last register included, and the pins show the output register
\* whichever function code wrote it (mb_server.c:469, 529; regmap.c:133).
THEOREM RequestsKeepToNamed == ModbusSpec => []WritesOnlyNamed
<1>1. ServerInv => WritesOnlyNamed
  <2>. SUFFICES ASSUME ServerInv, NEW q \in MbRequests
                PROVE  LET p == Decoded(q)
                           refused == p.rsp = NoResponse \/ (IsException(p.rsp) /\ p.rsp.exc # 2)
                           named == CASE refused -> {}
                                      [] ~refused /\ q.fc \in {5, 15} -> {DoIdx}
                                      [] ~refused /\ q.fc = 6 -> {q.addr}
                                      [] ~refused /\ q.fc = 16 -> q.addr .. q.addr + q.qty - 1
                                      [] OTHER -> {}
                       IN /\ p.regs.o = p.regs.h[DoIdx] % BIT[DoNum]
                          /\ \A a \in 0 .. HoldNum - 1 :
                               /\ a \notin named => p.regs.h[a] = holding[a]
                               /\ a \in named /\ q.fc = 16 /\ a \notin ActIdx =>
                                    p.regs.h[a] = q.data[a - q.addr + 1]
    BY DEF WritesOnlyNamed
  <2>. DEFINE p == Decoded(q)
              refused == Refused(p.rsp)
              named == CASE refused -> {}
                         [] ~refused /\ q.fc \in {5, 15} -> {DoIdx}
                         [] ~refused /\ q.fc = 6 -> {q.addr}
                         [] ~refused /\ q.fc = 16 -> q.addr .. q.addr + q.qty - 1
                         [] OTHER -> {}
              Good(a) == /\ a \notin named => p.regs.h[a] = holding[a]
                         /\ a \in named /\ q.fc = 16 /\ a \notin ActIdx =>
                              p.regs.h[a] = q.data[a - q.addr + 1]
  <2>1. p.regs.o = p.regs.h[DoIdx] % BIT[DoNum]
    BY OutcomeKeeps DEF Pins
  <2>2. ASSUME NEW a \in 0 .. HoldNum - 1 PROVE Good(a)
    <3>0. Regs \in RegSet /\ Regs.h = holding /\ Pins(Regs)
      BY DEF ServerInv, Regs
    <3>. HIDE DEF p, refused
    <3>1. CASE Quiet(q)
      <4>1. p.regs.h = holding /\ (q.fc = 16 => refused)
        BY <3>0, <3>1 DEF Quiet, p, refused
      <4>2. refused => named = {}
        OBVIOUS
      <4>. HIDE DEF named
      <4>. QED BY <4>1, <4>2
    <3>2. CASE q.fc \in {5, 6} /\ ~Quiet(q)
      <4>0. (q.val # 0) \in BOOLEAN
        OBVIOUS
      <4>1. CASE /\ q.fc = 5 /\ q.addr \in 0 .. DoNum - 1 /\ ~refused
                 /\ p.regs = WriteCoil(Regs, q.addr, q.val # 0)
        <5>1. named = {DoIdx}
          BY <4>1
        <5>2. a # DoIdx => p.regs.h[a] = holding[a]
          <6>. DEFINE on == q.val # 0
          <6>1. on \in BOOLEAN /\ p.regs = WriteCoil(Regs, q.addr, on)
            BY <4>0, <4>1
          <6>. HIDE DEF on
          <6>2. \A c \in 0 .. HoldNum - 1 : c # DoIdx => WriteCoil(Regs, q.addr, on).h[c] = Regs.h[c]
            BY <3>0, <4>1, <6>1, WriteCoilSets
          <6>. QED BY <3>0, <6>1, <6>2
        <5>. HIDE DEF named
        <5>. QED BY <4>1, <5>1, <5>2
      <4>2. CASE /\ q.fc = 6 /\ q.addr \in 0 .. HoldNum - 1 /\ q.val \in Nat /\ ~refused
                 /\ p.regs = WriteHolding(Regs, q.addr, q.val)
        <5>1. named = {q.addr}
          BY <4>2
        <5>2. a # q.addr => p.regs.h[a] = holding[a]
          <6>1. \A c \in 0 .. HoldNum - 1 : c # q.addr => WriteHolding(Regs, q.addr, q.val).h[c] = Regs.h[c]
            BY <3>0, <4>2, WriteHoldingSets
          <6>. QED BY <3>0, <4>2, <6>1
        <5>. HIDE DEF named
        <5>. QED BY <4>2, <5>1, <5>2
      <4>. QED BY <3>2, <4>1, <4>2, SingleWrites DEF p, refused
    <3>3. CASE q.fc \in {15, 16} /\ ~Quiet(q)
      <4>1. PICK num : /\ Accepted(q, num) /\ p = WriteMany(q, num)
                       /\ q.fc = 15 => num = DoNum
                       /\ q.fc = 16 => num = HoldNum
        BY <3>3, MultipleWrites DEF p
      <4>2. PICK f : Loop(f, q, num) /\ WriteMany(q, num) =
              Result(f[q.qty], IF q.addr + q.qty > num THEN [fc |-> q.fc, exc |-> 2]
                               ELSE [fc |-> q.fc, data |-> <<q.addr, q.qty>>])
        BY <3>0, <4>1, ManyIsLoop
      <4>3. p.regs = f[q.qty] /\ ~refused
        <5>1. /\ p.regs = f[q.qty]
              /\ p.rsp = IF q.addr + q.qty > num THEN [fc |-> q.fc, exc |-> 2]
                         ELSE [fc |-> q.fc, data |-> <<q.addr, q.qty>>]
          BY <4>1, <4>2, NoEffect
        <5>. QED BY <5>1, Responses DEF refused
      <4>4. CASE q.fc = 15
        <5>1. named = {DoIdx}
          BY <4>3, <4>4
        <5>2. a # DoIdx => p.regs.h[a] = holding[a]
          BY <4>1, <4>2, <4>3, <4>4, LoopCoils
        <5>. HIDE DEF named
        <5>. QED BY <4>4, <5>1, <5>2
      <4>5. CASE q.fc = 16
        <5>1. named = q.addr .. q.addr + q.qty - 1
          BY <4>3, <4>5
        <5>2. /\ a \notin q.addr .. q.addr + q.qty - 1 => p.regs.h[a] = holding[a]
              /\ a \in q.addr .. q.addr + q.qty - 1 /\ a \notin ActIdx =>
                   p.regs.h[a] = q.data[a - q.addr + 1]
          BY <4>1, <4>2, <4>3, <4>5, LoopRegs
        <5>. HIDE DEF named
        <5>. QED BY <5>1, <5>2
      <4>. QED BY <3>3, <4>4, <4>5
    <3>. QED BY <3>1, <3>2, <3>3, ReadsAreQuiet
  <2>. QED BY <2>1, <2>2 DEF Refused
<1>. QED BY <1>1, ServerStart, ServerStep, PTL DEF ModbusSpec

-----------------------------------------------------------------------------
(* Bits in bytes                                                           *)

\* Byte and bit of the coil at position n, and the position of a bit of a byte.
ByteOf(n) == n \div ByteBits + 1
BitOf(n) == n % ByteBits
Position(j, k) == (j - 1) * ByteBits + k

\* Positions and places in bytes are the same.
LEMMA Places ==
  ASSUME NEW n \in Nat
  PROVE  /\ ByteOf(n) \in Nat \ {0} /\ BitOf(n) \in 0 .. ByteBits - 1
         /\ Position(ByteOf(n), BitOf(n)) = n
         /\ \A j \in Nat \ {0}, k \in 0 .. ByteBits - 1 :
              Position(j, k) = n => j = ByteOf(n) /\ k = BitOf(n)
         /\ \A m \in Nat : n <= m => ByteOf(n) <= ByteOf(m)
<1>0. ByteBits \in Nat \ {0}
  BY MbServerAssumption
<1>1. \A x \in Nat : /\ x \div ByteBits \in Nat /\ x % ByteBits \in 0 .. ByteBits - 1
                     /\ x = (x \div ByteBits) * ByteBits + (x % ByteBits)
  BY <1>0, DivMod
<1>2. /\ ByteOf(n) \in Nat \ {0} /\ BitOf(n) \in 0 .. ByteBits - 1
      /\ Position(ByteOf(n), BitOf(n)) = n
  <2>. DEFINE d == n \div ByteBits
  <2>1. d \in Nat /\ d + 1 - 1 = d
    BY <1>1
  <2>. QED BY <1>1, <2>1 DEF ByteOf, BitOf, Position
<1>3. ASSUME NEW j \in Nat \ {0}, NEW k \in 0 .. ByteBits - 1, Position(j, k) = n
      PROVE  j = ByteOf(n) /\ k = BitOf(n)
  <2>1. j - 1 \in Nat /\ n = (j - 1) * ByteBits + k
    BY <1>3 DEF Position
  <2>2. k = n % ByteBits
    <3>1. ((j - 1) * ByteBits + k) % ByteBits = k
      BY <1>0, <2>1, ModUnique
    <3>. QED BY <2>1, <3>1
  <2>. DEFINE d == n \div ByteBits
              e == j - 1
  <2>3. d \in Nat /\ e \in Nat /\ n = d * ByteBits + k /\ n = e * ByteBits + k
    BY <1>1, <2>1, <2>2
  <2>4. d = e
    <3>. HIDE DEF d, e
    <3>1. d * ByteBits = e * ByteBits
      <4>. DEFINE u == d * ByteBits
                  v == e * ByteBits
      <4>1. u \in Nat /\ v \in Nat /\ k \in Nat /\ u + k = v + k
        BY <1>0, <2>3
      <4>. HIDE DEF u, v
      <4>2. u = v
        BY <4>1
      <4>. QED BY <4>2 DEF u, v
    <3>. QED BY <1>0, <2>3, <3>1
  <2>. QED BY <2>2, <2>4 DEF ByteOf, BitOf
<1>4. ASSUME NEW m \in Nat, n <= m PROVE ByteOf(n) <= ByteOf(m)
  <2>. DEFINE d == n \div ByteBits
              e == m \div ByteBits
              r == n % ByteBits
              s == m % ByteBits
  <2>1. /\ d \in Nat /\ e \in Nat /\ r \in 0 .. ByteBits - 1 /\ s \in 0 .. ByteBits - 1
        /\ n = d * ByteBits + r /\ m = e * ByteBits + s
    BY <1>1
  <2>. HIDE DEF d, e, r, s
  <2>2. d <= e
    <3>. SUFFICES ASSUME d > e PROVE FALSE
      BY <2>1
    <3>1. PICK t \in Nat : d = e + 1 + t
      BY <2>1, d - e - 1 \in Nat, d = e + 1 + (d - e - 1)
    <3>2. d * ByteBits = e * ByteBits + ByteBits + t * ByteBits /\ t * ByteBits \in Nat
      BY <1>0, <2>1, <3>1
    <3>3. e * ByteBits \in Nat
      BY <1>0, <2>1
    <3>. QED BY <1>0, <1>4, <2>1, <3>2, <3>3
  <2>. QED BY <2>1, <2>2 DEF ByteOf, d, e
<1>. QED BY <1>2, <1>3, <1>4

\* One turn of the loop of FC01 and FC02, and the loop by its turns.
PackTurn(q, bits, g, i) ==
  [g EXCEPT ![ByteOf(i - 1)] =
     IF Bit(bits, q.addr + i - 1) THEN @ + BIT[BitOf(i - 1)] ELSE @]

Packing(f, q, bits) ==
  /\ f \in [0 .. q.qty -> [1 .. ByteOf(q.qty - 1) -> Nat]]
  /\ f[0] = [j \in 1 .. ByteOf(q.qty - 1) |-> 0]
  /\ \A i \in 0 .. q.qty - 1 : f[i + 1] = PackTurn(q, bits, f[i], i + 1)

LEMMA PackedIsLoop ==
  ASSUME NEW q, NEW bits, q.addr \in Nat, q.qty \in Nat \ {0}
  PROVE  \E f : Packing(f, q, bits) /\ Packed(bits, q) = f[q.qty]
<1>. DEFINE N == q.qty
            T == [1 .. ByteOf(N - 1) -> Nat]
            zero == [j \in 1 .. ByteOf(N - 1) |-> 0]
            Is(f) == f = [i \in 0 .. N |-> IF i = 0 THEN zero ELSE PackTurn(q, bits, f[i - 1], i)]
            f0 == CHOOSE f : Is(f)
            F == [p \in Nat \X T |-> IF p[1] \in 1 .. N THEN PackTurn(q, bits, p[2], p[1]) ELSE p[2]]
<1>0. N \in Nat \ {0} /\ zero \in T
  OBVIOUS
<1>1. ASSUME NEW g \in T, NEW i \in 1 .. N PROVE PackTurn(q, bits, g, i) \in T
  <2>1. i - 1 \in Nat /\ N - 1 \in Nat /\ i - 1 <= N - 1
    BY <1>0
  <2>. DEFINE J == ByteOf(i - 1)
              B == BIT[BitOf(i - 1)]
  <2>2. J \in 1 .. ByteOf(N - 1) /\ BitOf(i - 1) \in Nat
    <3>1. /\ J \in Nat \ {0} /\ ByteOf(N - 1) \in Nat /\ J <= ByteOf(N - 1)
          /\ BitOf(i - 1) \in 0 .. ByteBits - 1
      <4>. HIDE DEF N
      <4>. QED BY <2>1, Places
    <3>. QED BY <3>1, MbServerAssumption
  <2>3. B \in Nat /\ g[J] \in Nat
    BY <2>2, BitValue
  <2>. DEFINE v == IF Bit(bits, q.addr + i - 1) THEN g[J] + B ELSE g[J]
  <2>4. PackTurn(q, bits, g, i) = [g EXCEPT ![J] = v]
    BY DEF PackTurn
  <2>5. v \in Nat
    <3>. HIDE DEF J, B
    <3>. QED BY <2>3
  <2>. HIDE DEF J, v
  <2>. QED BY <2>4, <2>5
<1>2. F \in [Nat \X T -> T]
  <2>1. ASSUME NEW p \in Nat \X T
        PROVE  (IF p[1] \in 1 .. N THEN PackTurn(q, bits, p[2], p[1]) ELSE p[2]) \in T
    <3>1. p[2] \in T
      OBVIOUS
    <3>. HIDE DEF T, N
    <3>. QED BY <1>1, <3>1
  <2>. HIDE DEF T
  <2>. QED BY <2>1
<1>3. \E g : Recursive(g, T, zero, F)
  <2>. HIDE DEF F, T, zero
  <2>. QED BY <1>0, <1>2, Recursion, Zenon
<1>4. PICK g : g \in [Nat -> T] /\ g[0] = zero /\ \A i \in Nat : g[i + 1] = F[<<i + 1, g[i]>>]
  BY <1>3 DEF Recursive
<1>. HIDE DEF T
<1>5. ASSUME NEW i \in Nat, i + 1 <= N PROVE g[i + 1] = PackTurn(q, bits, g[i], i + 1)
  <2>1. g[i] \in T /\ i + 1 \in Nat /\ i + 1 \in 1 .. N
    BY <1>0, <1>4, <1>5
  <2>2. F[<<i + 1, g[i]>>] = PackTurn(q, bits, g[i], i + 1)
    <3>1. <<i + 1, g[i]>> \in Nat \X T
      BY <2>1
    <3>. HIDE DEF N
    <3>. QED BY <2>1, <3>1
  <2>. QED BY <1>4, <2>2
<1>. DEFINE e == [i \in 0 .. N |-> g[i]]
<1>. HIDE DEF zero
<1>6. Is(e)
  <2>1. ASSUME NEW i \in 0 .. N
        PROVE  e[i] = IF i = 0 THEN zero ELSE PackTurn(q, bits, e[i - 1], i)
    <3>1. CASE i = 0
      BY <1>0, <1>4, <3>1
    <3>2. CASE i # 0
      <4>1. i - 1 \in Nat /\ (i - 1) + 1 = i /\ i - 1 \in 0 .. N
        BY <1>0, <3>2
      <4>2. e[i] = g[i] /\ e[i - 1] = g[i - 1]
        BY <4>1
      <4>3. (i - 1) + 1 <= N
        BY <1>0, <4>1
      <4>4. g[(i - 1) + 1] = PackTurn(q, bits, g[i - 1], (i - 1) + 1)
        BY <1>5, <4>1, <4>3
      <4>. HIDE DEF e
      <4>. QED BY <3>2, <4>1, <4>2, <4>4
    <3>. QED BY <3>1, <3>2
  <2>. QED BY <2>1
<1>7. Is(f0)
  <2>. HIDE DEF Is
  <2>. QED BY <1>6
<1>8. Packed(bits, q) = f0[q.qty]
  BY DEF Packed, PackTurn, ByteOf, BitOf, zero
<1>. HIDE DEF f0
<1>9. f0[0] = zero /\ DOMAIN f0 = 0 .. N /\ f0 = [i \in 0 .. N |-> f0[i]]
  BY <1>0, <1>7
<1>10. ASSUME NEW i \in 0 .. N - 1 PROVE f0[i + 1] = PackTurn(q, bits, f0[i], i + 1)
  <2>1. i + 1 \in 0 .. N /\ i + 1 # 0 /\ (i + 1) - 1 = i
    BY <1>0
  <2>2. f0[i + 1] = PackTurn(q, bits, f0[(i + 1) - 1], i + 1)
    BY <1>7, <2>1
  <2>. QED BY <2>1, <2>2
<1>. DEFINE S == {i \in Nat : i <= N => f0[i] \in T}
<1>11. S = Nat
  <2>1. 0 \in S
    BY <1>0, <1>9
  <2>2. ASSUME NEW i \in S PROVE i + 1 \in S
    <3>. SUFFICES ASSUME i + 1 <= N PROVE f0[i + 1] \in T
      OBVIOUS
    <3>1. i \in 0 .. N - 1 /\ i + 1 \in 1 .. N /\ f0[i] \in T
      BY <1>0
    <3>. QED BY <1>1, <1>10, <3>1
  <2>3. S \subseteq Nat
    OBVIOUS
  <2>. HIDE DEF S
  <2>. QED BY <2>1, <2>2, <2>3, SetInduction
<1>12. f0 \in [0 .. N -> T]
  <2>1. \A i \in 0 .. N : f0[i] \in T
    BY <1>0, <1>11
  <2>. QED BY <1>9, <2>1
<1>13. Packing(f0, q, bits)
  BY <1>9, <1>10, <1>12 DEF Packing, T, zero
<1>. QED BY <1>8, <1>13

\* After i turns the bytes hold the first i bits, each at its place, and no other.
LEMMA PackingPlaces ==
  ASSUME NEW q, NEW bits, q.addr \in Nat, q.qty \in Nat \ {0}, NEW f, Packing(f, q, bits)
  PROVE  /\ f[q.qty] \in [1 .. ByteOf(q.qty - 1) -> 0 .. BIT[ByteBits] - 1]
         /\ \A n \in 0 .. q.qty - 1 :
              Bit(f[q.qty][ByteOf(n)], BitOf(n)) <=> Bit(bits, q.addr + n)
<1>. DEFINE N == q.qty
            L == ByteOf(N - 1)
            Holds(i, x, j, k) == Bit(x, k) <=> Position(j, k) < i /\ Bit(bits, q.addr + Position(j, k))
            Good(i, g) == \A j \in 1 .. L : /\ g[j] \in 0 .. BIT[ByteBits] - 1
                                            /\ \A k \in 0 .. ByteBits - 1 : Holds(i, g[j], j, k)
            S == {i \in Nat : i <= N => Good(i, f[i])}
<1>0. /\ N \in Nat \ {0} /\ N - 1 \in Nat /\ L \in Nat \ {0}
      /\ ByteBits \in Nat \ {0} /\ BIT[ByteBits] \in Nat \ {0}
      /\ f \in [0 .. N -> [1 .. L -> Nat]]
  <2>1. N \in Nat \ {0} /\ N - 1 \in Nat /\ ByteBits \in Nat \ {0}
    BY MbServerAssumption
  <2>2. L \in Nat \ {0}
    <3>. HIDE DEF N
    <3>. QED BY <2>1, Places
  <2>. QED BY <2>1, <2>2, BitValue DEF Packing
<1>a. \A j \in 1 .. L, k \in 0 .. ByteBits - 1 : Position(j, k) \in Nat
  <2>. SUFFICES ASSUME NEW j \in 1 .. L, NEW k \in 0 .. ByteBits - 1 PROVE Position(j, k) \in Nat
    OBVIOUS
  <2>. HIDE DEF L
  <2>1. j - 1 \in Nat /\ k \in Nat
    BY <1>0
  <2>. DEFINE e == j - 1
  <2>2. e * ByteBits \in Nat
    <3>1. e \in Nat
      BY <2>1
    <3>. HIDE DEF e
    <3>. QED BY <1>0, <3>1
  <2>. QED BY <2>1, <2>2 DEF Position
<1>1. 0 \in S
  <2>1. f[0] = [j \in 1 .. L |-> 0]
    BY DEF Packing
  <2>2. ASSUME NEW k \in 0 .. ByteBits - 1 PROVE ~Bit(0, k)
    <3>1. k \in Nat /\ BIT[k] \in Nat \ {0}
      BY <1>0, BitValue
    <3>2. Bit(0 * (2 * BIT[k]) + 0 * BIT[k] + 0, k) <=> 0 = 1
      <4>1. 0 \in Nat /\ 0 \in {0, 1} /\ 0 \in 0 .. BIT[k] - 1
        BY <3>1
      <4>. QED BY <3>1, <4>1, BitOfParts
    <3>3. 0 * (2 * BIT[k]) + 0 * BIT[k] + 0 = 0
      <4>1. \A P \in Nat : 0 * (2 * P) + 0 * P + 0 = 0
        OBVIOUS
      <4>. QED BY <3>1, <4>1
    <3>. QED BY <3>2, <3>3
  <2>3. ASSUME NEW j \in 1 .. L, NEW k \in 0 .. ByteBits - 1 PROVE ~(Position(j, k) < 0)
    BY <1>a
  <2>4. \A j \in 1 .. L : f[0][j] = 0
    BY <2>1
  <2>5. 0 \in 0 .. BIT[ByteBits] - 1
    BY <1>0
  <2>. HIDE DEF L
  <2>. QED BY <2>2, <2>3, <2>4, <2>5
<1>2. ASSUME NEW i \in S PROVE i + 1 \in S
  <2>. SUFFICES ASSUME i + 1 <= N, NEW j \in 1 .. L
                PROVE  /\ f[i + 1][j] \in 0 .. BIT[ByteBits] - 1
                       /\ \A k \in 0 .. ByteBits - 1 : Holds(i + 1, f[i + 1][j], j, k)
    OBVIOUS
  <2>. DEFINE J == ByteOf(i)
              K == BitOf(i)
              g == f[i]
              on == Bit(bits, q.addr + i)
  <2>1. i \in Nat /\ i \in 0 .. N - 1 /\ i \in 0 .. N /\ Good(i, g) /\ i + 1 - 1 = i
    BY <1>0
  <2>. HIDE DEF S
  <2>2. g \in [1 .. L -> Nat] /\ f[i + 1] = PackTurn(q, bits, g, i + 1)
    BY <1>0, <2>1 DEF Packing
  <2>3. f[i + 1] = [g EXCEPT ![J] = IF on THEN g[J] + BIT[K] ELSE g[J]]
    <3>1. q.addr + (i + 1) - 1 = q.addr + i
      BY <2>1
    <3>. QED BY <2>1, <2>2, <3>1 DEF PackTurn
  <2>4. /\ J \in Nat \ {0} /\ K \in 0 .. ByteBits - 1 /\ Position(J, K) = i
        /\ \A b \in Nat \ {0}, c \in 0 .. ByteBits - 1 : Position(b, c) = i => b = J /\ c = K
        /\ K \in Nat /\ K < ByteBits
    <3>1. /\ J \in Nat \ {0} /\ K \in 0 .. ByteBits - 1 /\ Position(J, K) = i
          /\ \A b \in Nat \ {0}, c \in 0 .. ByteBits - 1 : Position(b, c) = i => b = J /\ c = K
      BY <2>1, Places
    <3>. QED BY <1>0, <3>1
  <2>. HIDE DEF J, K, L, g
  <2>5. ASSUME NEW k \in 0 .. ByteBits - 1, ~(j = J /\ k = K), NEW x, Holds(i, x, j, k)
        PROVE  Holds(i + 1, x, j, k)
    <3>1. Position(j, k) \in Nat /\ j \in Nat \ {0}
      BY <1>0, <1>a
    <3>2. Position(j, k) # i
      BY <2>4, <2>5, <3>1
    <3>3. Position(j, k) < i + 1 <=> Position(j, k) < i
      BY <2>1, <3>1, <3>2
    <3>. QED BY <2>5, <3>3
  <2>6. CASE j # J
    <3>1. f[i + 1][j] = g[j]
      BY <2>2, <2>3, <2>6
    <3>2. g[j] \in 0 .. BIT[ByteBits] - 1 /\ \A k \in 0 .. ByteBits - 1 : Holds(i, g[j], j, k)
      BY <2>1
    <3>. HIDE DEF Holds, Good
    <3>. QED BY <2>5, <2>6, <3>1, <3>2
  <2>7. CASE j = J
    <3>. DEFINE n == g[J]
                w == IF on THEN n + BIT[K] ELSE n
    <3>1. f[i + 1][j] = w
      BY <2>2, <2>3, <2>7
    <3>2. n \in 0 .. BIT[ByteBits] - 1 /\ \A k \in 0 .. ByteBits - 1 : Holds(i, n, j, k)
      BY <2>1, <2>7
    <3>3. n \in Nat
      BY <1>0, <3>2
    <3>. HIDE DEF n
    <3>4. ~Bit(n, K)
      <4>1. ~(Position(J, K) < i) /\ Holds(i, n, j, K)
        BY <2>1, <2>4, <3>2
      <4>. QED BY <2>7, <4>1
    <3>5. CASE ~on
      <4>1. w = n
        BY <3>5
      <4>2. ASSUME NEW k \in 0 .. ByteBits - 1 PROVE Holds(i + 1, n, j, k)
        <5>1. CASE k = K
          BY <2>4, <2>7, <3>4, <3>5, <5>1
        <5>2. CASE k # K
          <6>. HIDE DEF Holds
          <6>. QED BY <2>5, <3>2, <5>2
        <5>. QED BY <5>1, <5>2
      <4>. HIDE DEF Holds
      <4>. QED BY <3>1, <3>2, <4>1, <4>2
    <3>6. CASE on
      <4>. DEFINE y == TRUE
      <4>0. y \in BOOLEAN /\ y
        OBVIOUS
      <4>1. w = WithBit(n, K, y)
        BY <3>4, <3>6 DEF WithBit
      <4>. HIDE DEF y, w
      <4>2. w \in 0 .. BIT[ByteBits] - 1
        BY <1>0, <2>4, <3>2, <4>0, <4>1, WithBitBelow
      <4>3. \A k \in Nat : Bit(w, k) <=> IF k = K THEN y ELSE Bit(n, k)
        BY <2>4, <3>3, <4>0, <4>1, WithBitSets
      <4>4. ASSUME NEW k \in 0 .. ByteBits - 1 PROVE Holds(i + 1, w, j, k)
        <5>0. k \in Nat
          BY <1>0
        <5>1. CASE k = K
          <6>1. Position(j, k) = i /\ i < i + 1 /\ Bit(w, k)
            BY <2>1, <2>4, <2>7, <4>0, <4>3, <5>0, <5>1
          <6>. QED BY <3>6, <6>1
        <5>2. CASE k # K
          <6>1. Bit(w, k) <=> Bit(n, k)
            BY <4>3, <5>0, <5>2
          <6>2. Holds(i + 1, n, j, k)
            <7>. HIDE DEF Holds
            <7>. QED BY <2>5, <3>2, <5>2
          <6>. QED BY <6>1, <6>2
        <5>. QED BY <5>1, <5>2
      <4>. HIDE DEF Holds
      <4>. QED BY <3>1, <4>2, <4>4
    <3>. QED BY <3>5, <3>6
  <2>. QED BY <2>6, <2>7
<1>3. S = Nat
  <2>1. S \subseteq Nat
    OBVIOUS
  <2>. HIDE DEF S
  <2>. QED BY <1>1, <1>2, <2>1, SetInduction
<1>4. Good(N, f[N])
  BY <1>0, <1>3
<1>5. f[N] \in [1 .. L -> 0 .. BIT[ByteBits] - 1]
  <2>1. f[N] \in [1 .. L -> Nat] /\ \A j \in 1 .. L : f[N][j] \in 0 .. BIT[ByteBits] - 1
    <3>. HIDE DEF L
    <3>. QED BY <1>0, <1>4
  <2>. HIDE DEF L, N
  <2>. QED BY <2>1
<1>6. ASSUME NEW n \in 0 .. N - 1 PROVE Bit(f[N][ByteOf(n)], BitOf(n)) <=> Bit(bits, q.addr + n)
  <2>1. n \in Nat /\ n <= N - 1 /\ n < N
    BY <1>0
  <2>2. /\ ByteOf(n) \in Nat \ {0} /\ BitOf(n) \in 0 .. ByteBits - 1
        /\ Position(ByteOf(n), BitOf(n)) = n /\ ByteOf(n) <= L
    <3>. HIDE DEF N
    <3>. QED BY <1>0, <2>1, Places
  <2>3. ByteOf(n) \in 1 .. L
    <3>. HIDE DEF L
    <3>. QED BY <1>0, <2>2
  <2>4. Holds(N, f[N][ByteOf(n)], ByteOf(n), BitOf(n))
    <3>. HIDE DEF L, Holds, N
    <3>. QED BY <1>4, <2>2, <2>3
  <2>. QED BY <2>1, <2>2, <2>4
<1>. QED BY <1>5, <1>6

\* FC01 and FC02: an answer with data is the packed bits.
LEMMA BitsAnswered ==
  ASSUME NEW q \in MbRequests, q.fc \in {1, 2}, "data" \in DOMAIN Decoded(q).rsp
  PROVE  /\ q.addr \in Nat /\ q.qty \in Nat \ {0}
         /\ Decoded(q).rsp.data = Packed(IF q.fc = 1 THEN holding[DoIdx] ELSE inputs[0], q)
<1>. DEFINE num == IF q.fc = 1 THEN DoNum ELSE DiNum
            bits == IF q.fc = 1 THEN holding[DoIdx] ELSE inputs[0]
<1>1. Decoded(q) = ReadBits(q, num, bits)
  <2>1. CASE q.fc = 1
    BY <2>1 DEF Decoded
  <2>2. CASE q.fc = 2
    BY <2>2 DEF Decoded
  <2>. QED BY <2>1, <2>2
<1>. HIDE DEF num, bits
<1>2. Decoded(q) # Silence
  BY NoEffect, Responses
<1>3. \A c : Decoded(q) # Exception(q.fc, c)
  <2>. SUFFICES ASSUME NEW c, Decoded(q) = Exception(q.fc, c) PROVE FALSE
    OBVIOUS
  <2>1. Decoded(q).rsp = [fc |-> q.fc, exc |-> c]
    BY NoEffect
  <2>. QED BY <2>1, Responses, Zenon
<1>4. q.dlen = 4
  BY <1>1, <1>2 DEF ReadBits
<1>5. q.qty \in 1 .. BitLimit
  BY <1>1, <1>3, <1>4 DEF ReadBits
<1>6. ~(q.addr + q.qty > num)
  BY <1>1, <1>3, <1>4, <1>5 DEF ReadBits
<1>7. Decoded(q) = Result(Regs, [fc |-> q.fc, data |-> Packed(bits, q)])
  BY <1>1, <1>4, <1>5, <1>6 DEF ReadBits
<1>8. Decoded(q).rsp.data = Packed(bits, q)
  BY <1>7, NoEffect
<1>9. q.addr \in Nat /\ q.qty \in Nat
  BY <1>4, MbServerAssumption DEF Request
<1>10. q.qty # 0
  BY <1>5, MbServerAssumption
<1>. QED BY <1>8, <1>9, <1>10 DEF bits

\* FC15: an answer with data is given when all coils exist and were written.
LEMMA CoilsAnswered ==
  ASSUME ServerInv, NEW q \in MbRequests, q.fc = 15, "data" \in DOMAIN Decoded(q).rsp
  PROVE  /\ q.addr \in Nat /\ q.qty \in Nat
         /\ \A k \in 1 .. q.qty : q.addr + k - 1 < DoNum =>
              (Bit(Decoded(q).regs.h[DoIdx], q.addr + k - 1) <=> CoilOf(q, k))
         /\ \A j \in 0 .. DoNum - 1 : j \notin q.addr .. q.addr + q.qty - 1 =>
              (Bit(Decoded(q).regs.h[DoIdx], j) <=> Bit(holding[DoIdx], j))
<1>0. Regs \in RegSet
  BY DEF ServerInv
<1>1. Accepted(q, DoNum) /\ Decoded(q) = WriteMany(q, DoNum)
  BY MultipleWrites DEF Quiet
<1>2. PICK f : Loop(f, q, DoNum) /\ WriteMany(q, DoNum) =
        Result(f[q.qty], IF q.addr + q.qty > DoNum THEN [fc |-> q.fc, exc |-> 2]
                         ELSE [fc |-> q.fc, data |-> <<q.addr, q.qty>>])
  BY <1>0, <1>1, ManyIsLoop
<1>3. Decoded(q).regs = f[q.qty]
  BY <1>1, <1>2, NoEffect
<1>5. q.addr \in Nat /\ q.qty \in Nat
  BY <1>1 DEF Accepted
<1>. QED BY <1>1, <1>2, <1>3, <1>5, LoopCoils

\* FC05: an answer with data is given when the coil exists and was written.
LEMMA CoilAnswered ==
  ASSUME ServerInv, NEW q \in MbRequests, q.fc = 5, "data" \in DOMAIN Decoded(q).rsp
  PROVE  \A j \in 0 .. DoNum - 1 :
           Bit(Decoded(q).regs.h[DoIdx], j) <=> IF j = q.addr THEN q.val # 0 ELSE Bit(holding[DoIdx], j)
<1>. DEFINE on == q.val # 0
<1>0. Regs \in RegSet /\ Regs.h = holding /\ on \in BOOLEAN
  BY DEF ServerInv, Regs
<1>1. q.addr \in 0 .. DoNum - 1 /\ Decoded(q).regs = WriteCoil(Regs, q.addr, on)
  BY SingleWrites DEF Quiet
<1>. HIDE DEF on
<1>2. \A j \in 0 .. DoNum - 1 :
        Bit(WriteCoil(Regs, q.addr, on).h[DoIdx], j)
          <=> IF j = q.addr THEN on ELSE Bit(Regs.h[DoIdx], j)
  BY <1>0, <1>1, WriteCoilSets
<1>. QED BY <1>0, <1>1, <1>2 DEF on

\* For any width of a byte and number of coils, FC01 and FC02 answer with the bits
\* of the outputs and inputs in order, and what FC05 and FC15 answered for is what
\* the output register then holds, bit by bit, the other coils as before
\* (mb_server.c:153, 343, 497; regmap.c:168).
THEOREM CoilsAreRead == ModbusSpec => []CoilsReadBack
<1>1. ServerInv => CoilsReadBack
  <2>. SUFFICES
         ASSUME ServerInv, NEW q \in MbRequests
         PROVE  LET p == Decoded(q)
                    bit(m, k) == Bit(m.data[k \div ByteBits + 1], k % ByteBits)
                IN /\ q.fc \in {1, 2} /\ "data" \in DOMAIN p.rsp =>
                        /\ \A k \in 0 .. q.qty - 1 :
                             bit(p.rsp, k) <=>
                               Bit(IF q.fc = 1 THEN holding[DoIdx] ELSE inputs[0], q.addr + k)
                        /\ \A j \in DOMAIN p.rsp.data : p.rsp.data[j] < BIT[ByteBits]
                   /\ q.fc \in {5, 15} /\ "data" \in DOMAIN p.rsp =>
                        \A i \in 0 .. DoNum - 1 :
                          Bit(p.regs.h[DoIdx], i) <=>
                            CASE q.fc = 5 /\ i = q.addr -> q.val # 0
                              [] q.fc = 15 /\ i \in q.addr .. q.addr + q.qty - 1 -> bit(q, i - q.addr)
                              [] OTHER -> Bit(holding[DoIdx], i)
    BY DEF CoilsReadBack
  <2>. DEFINE p == Decoded(q)
              bit(m, k) == Bit(m.data[k \div ByteBits + 1], k % ByteBits)
  <2>1. ASSUME q.fc \in {1, 2}, "data" \in DOMAIN p.rsp
        PROVE  /\ \A k \in 0 .. q.qty - 1 :
                    bit(p.rsp, k) <=> Bit(IF q.fc = 1 THEN holding[DoIdx] ELSE inputs[0], q.addr + k)
               /\ \A j \in DOMAIN p.rsp.data : p.rsp.data[j] < BIT[ByteBits]
    <3>. DEFINE bits == IF q.fc = 1 THEN holding[DoIdx] ELSE inputs[0]
                d == p.rsp.data
    <3>1. q.addr \in Nat /\ q.qty \in Nat \ {0} /\ d = Packed(bits, q)
      BY <2>1, BitsAnswered
    <3>. HIDE DEF bits, d
    <3>2. PICK f : Packing(f, q, bits) /\ d = f[q.qty]
      BY <3>1, PackedIsLoop
    <3>3. /\ d \in [1 .. ByteOf(q.qty - 1) -> 0 .. BIT[ByteBits] - 1]
          /\ \A n \in 0 .. q.qty - 1 : Bit(d[ByteOf(n)], BitOf(n)) <=> Bit(bits, q.addr + n)
      BY <3>1, <3>2, PackingPlaces
    <3>4. \A j \in DOMAIN d : d[j] < BIT[ByteBits]
      <4>1. BIT[ByteBits] \in Nat
        BY MbServerAssumption, BitValue
      <4>. QED BY <3>3, <4>1
    <3>5. \A k \in 0 .. q.qty - 1 :
            Bit(d[k \div ByteBits + 1], k % ByteBits) <=> Bit(bits, q.addr + k)
      BY <3>3 DEF ByteOf, BitOf
    <3>. QED BY <3>4, <3>5 DEF d, bits
  <2>2. ASSUME q.fc = 5, "data" \in DOMAIN p.rsp, NEW i \in 0 .. DoNum - 1
        PROVE  Bit(p.regs.h[DoIdx], i) <=>
                 IF i = q.addr THEN q.val # 0 ELSE Bit(holding[DoIdx], i)
    BY <2>2, CoilAnswered
  <2>3. ASSUME q.fc = 15, "data" \in DOMAIN p.rsp, NEW i \in 0 .. DoNum - 1
        PROVE  Bit(p.regs.h[DoIdx], i) <=>
                 IF i \in q.addr .. q.addr + q.qty - 1 THEN bit(q, i - q.addr)
                 ELSE Bit(holding[DoIdx], i)
    <3>0. /\ q.addr \in Nat /\ q.qty \in Nat /\ DoNum \in Nat
          /\ \A k \in 1 .. q.qty : q.addr + k - 1 < DoNum =>
               (Bit(p.regs.h[DoIdx], q.addr + k - 1) <=> CoilOf(q, k))
          /\ \A j \in 0 .. DoNum - 1 : j \notin q.addr .. q.addr + q.qty - 1 =>
               (Bit(p.regs.h[DoIdx], j) <=> Bit(holding[DoIdx], j))
      BY <2>3, CoilsAnswered, MbServerAssumption
    <3>. HIDE DEF p
    <3>1. CASE i \in q.addr .. q.addr + q.qty - 1
      <4>. DEFINE k == i - q.addr + 1
      <4>1. k \in 1 .. q.qty /\ q.addr + k - 1 = i /\ i < DoNum /\ k - 1 = i - q.addr
        BY <3>0, <3>1
      <4>. HIDE DEF k
      <4>2. Bit(p.regs.h[DoIdx], i) <=> CoilOf(q, k)
        BY <3>0, <4>1
      <4>3. CoilOf(q, k) <=> bit(q, i - q.addr)
        BY <4>1 DEF CoilOf
      <4>. QED BY <3>1, <4>2, <4>3
    <3>2. CASE i \notin q.addr .. q.addr + q.qty - 1
      BY <3>0, <3>2
    <3>. QED BY <3>1, <3>2
  <2>4. ASSUME q.fc \in {5, 15}, "data" \in DOMAIN p.rsp, NEW i \in 0 .. DoNum - 1
        PROVE  Bit(p.regs.h[DoIdx], i) <=>
                 CASE q.fc = 5 /\ i = q.addr -> q.val # 0
                   [] q.fc = 15 /\ i \in q.addr .. q.addr + q.qty - 1 -> bit(q, i - q.addr)
                   [] OTHER -> Bit(holding[DoIdx], i)
    <3>. HIDE DEF p, bit
    <3>1. CASE q.fc = 5
      BY <2>2, <2>4, <3>1
    <3>2. CASE q.fc = 15
      BY <2>3, <2>4, <3>2
    <3>. QED BY <2>4, <3>1, <3>2
  <2>. QED BY <2>1, <2>4
<1>. QED BY <1>1, ServerStart, ServerStep, PTL DEF ModbusSpec

=============================================================================
