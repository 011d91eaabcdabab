------------------------------ MODULE MbServer ------------------------------
(***************************************************************************)
(* The Modbus server, src/modbus/mb_server.c, over the register map: one   *)
(* request at a time is decoded, checked, carried out register by register *)
(* and answered.  How two threads interleave on the registers is the       *)
(* subject of RegMap.                                                      *)
(*                                                                         *)
(* A request is a record: fc, dlen (bytes behind the function code) and    *)
(* the fields of its function code: addr, qty, val, nb (byte count), data  *)
(* (bytes of coils or words), sub.  A byte of coils is the number of its   *)
(* bits.  A response is [fc, exc], [fc, data] or NoResponse.               *)
(***************************************************************************)
EXTENDS Integers, Sequences, FiniteSetsExt

CONSTANTS
  ByteBits,     \* bits in a byte of coils
  DoNum, DiNum, \* number of coils and of discrete inputs
  HoldNum,      \* number of holding registers
  InNum,        \* number of input registers
  DoIdx,        \* holding register of the outputs
  HiIdx, LoIdx, \* holding registers of the time
  ActIdx,       \* holding registers that trigger an action: save, reboot
  BitLimit,     \* coils one request may name
  RegLimit,     \* registers one request may name
  FpAddr,       \* start of the floating point extension
  CountMod,     \* diag_ctr counts modulo 2^16
  ClockTimes,   \* times the clock may come to show, <<high, low>>
  MbRequests    \* the requests of masters

\* BIT(n) of regmap.c.
BIT[n \in Nat] == IF n = 0 THEN 1 ELSE 2 * BIT[n - 1]

\* What a frame of dlen bytes can hold: numbers, behind a byte count as many bytes
\* of coils or words as there is room for.
Request(q) ==
  /\ q.dlen \in Nat
  /\ q.dlen = 4 /\ q.fc \in 1 .. 4 => q.addr \in Nat /\ q.qty \in Nat
  /\ q.dlen = 4 /\ q.fc \in {5, 6} => q.addr \in Nat /\ q.val \in Nat
  /\ q.dlen >= 6 /\ q.fc \in {15, 16} => q.addr \in Nat /\ q.qty \in Nat /\ q.nb \in Nat
  /\ q.dlen >= 6 /\ q.fc = 15 => q.data \in [1 .. q.dlen - 5 -> 0 .. BIT[ByteBits] - 1]
  /\ q.dlen >= 6 /\ q.fc = 16 => q.data \in [1 .. (q.dlen - 5) \div 2 -> Nat]

ASSUME MbServerAssumption ==
  /\ ByteBits \in Nat \ {0}
  /\ HoldNum \in Nat /\ {DoIdx, HiIdx, LoIdx} \cup ActIdx \subseteq 0 .. HoldNum - 1
  /\ DoIdx \notin ActIdx \cup {LoIdx} /\ DoNum \in Nat /\ DiNum \in Nat /\ InNum \in Nat \ {0}
  /\ {BitLimit, RegLimit, FpAddr} \subseteq Nat /\ CountMod \in Nat \ {0}
  /\ ClockTimes \subseteq Nat \X Nat
  /\ \A q \in MbRequests : Request(q)

VARIABLES
  holding,      \* holding_reg
  inputs,       \* input_reg; the first holds the discrete inputs
  outs,         \* the output pins
  clock,        \* the time of the clock, <<high, low>>
  diag,         \* diag_ctr
  served        \* history: answers the transports sent since the counters were
                \* cleared, less one if a broadcast cleared them, modulo CountMod

mbVars == <<holding, inputs, outs, clock, diag, served>>

NoResponse == [fc |-> 0]
Counters == {"BUS", "CRC", "EXC", "SRV", "NO_RESP"}
Counted(d, cs) == [c \in Counters |-> IF c \in cs THEN (d[c] + 1) % CountMod ELSE d[c]]

\* What mb_server_process counts when it says "reply", "exc", "silent" or "clear":
\* FC08 clear zeroes the counters after the request was counted.
Processed(d, says) ==
  IF says = "clear" THEN [c \in Counters |-> 0]
  ELSE Counted(d, {"BUS", "SRV"} \cup (IF says = "exc" THEN {"EXC"} ELSE {}))

\* The history served after a request, quiet if no answer goes out.  A broadcast
\* that clears is counted as unanswered when it is no more counted as seen.
ServedAfter(says, quiet) ==
  CASE says = "clear" /\ ~quiet -> 0
    [] says = "clear" /\ quiet -> CountMod - 1
    [] says # "clear" /\ ~quiet -> (served + 1) % CountMod
    [] OTHER -> served

Bit(n, i) == (n \div BIT[i]) % 2 = 1
WithBit(n, i, b) == CASE b /\ ~Bit(n, i) -> n + BIT[i] [] ~b /\ Bit(n, i) -> n - BIT[i] [] OTHER -> n

-----------------------------------------------------------------------------
(* Register callbacks: registers, pins and clock as one record             *)

Regs == [h |-> holding, o |-> outs, t |-> clock]

\* io_write_holding: a value the register holds already has no effect at all.
WriteHolding(r, addr, val) ==
  LET w == [r EXCEPT !.h[addr] = IF addr \in ActIdx THEN 0 ELSE val]
  IN CASE r.h[addr] = val -> r
       [] r.h[addr] # val /\ addr = DoIdx -> [w EXCEPT !.o = val % BIT[DoNum]]
       [] r.h[addr] # val /\ addr = LoIdx -> [w EXCEPT !.t = <<r.h[HiIdx], val>>]
       [] OTHER -> w

\* io_write_do_bit.
WriteCoil(r, bit, on) ==
  LET v == WithBit(r.h[DoIdx], bit, on) % BIT[DoNum] IN [r EXCEPT !.h[DoIdx] = v, !.o = v]

-----------------------------------------------------------------------------
(* Function codes: each yields the registers and the response              *)

Result(r, rsp) == [regs |-> r, rsp |-> rsp]
Exception(fc, code) == Result(Regs, [fc |-> fc, exc |-> code])
Silence == Result(Regs, NoResponse)

\* Variant with a fault: the mask is not reset at the start of a byte.
PackedDrifting(bits, q) ==
  LET f[i \in 0 .. q.qty] ==
        IF i = 0 THEN [j \in 1 .. (q.qty - 1) \div ByteBits + 1 |-> 0]
        ELSE [f[i - 1] EXCEPT ![(i - 1) \div ByteBits + 1] =
                IF Bit(bits, q.addr + i - 1) THEN @ + BIT[(i - 1) % (ByteBits + 1)] ELSE @]
  IN f[q.qty]

\* The loop of FC01 and FC02: bit by bit into bytes that were cleared before.
Packed(bits, q) ==
  LET f[i \in 0 .. q.qty] ==
        IF i = 0 THEN [j \in 1 .. (q.qty - 1) \div ByteBits + 1 |-> 0]
        ELSE [f[i - 1] EXCEPT ![(i - 1) \div ByteBits + 1] =
                IF Bit(bits, q.addr + i - 1) THEN @ + BIT[(i - 1) % ByteBits] ELSE @]
  IN f[q.qty]

ReadBits(q, num, bits) ==
  CASE q.dlen # 4 -> Silence
    [] q.dlen = 4 /\ q.qty \notin 1 .. BitLimit -> Exception(q.fc, 3)
    [] q.dlen = 4 /\ q.qty \in 1 .. BitLimit /\ q.addr + q.qty > num -> Exception(q.fc, 2)
    [] OTHER -> Result(Regs, [fc |-> q.fc, data |-> Packed(bits, q)])

\* io_read_holding: the registers of the time show the clock, not what was written.
Shown == [holding EXCEPT ![HiIdx] = clock[1], ![LoIdx] = clock[2]]

ReadRegs(q, num, regs) ==
  CASE q.dlen # 4 -> Silence
    [] q.dlen = 4 /\ q.qty \notin 1 .. RegLimit -> Exception(q.fc, 3)
    [] q.dlen = 4 /\ q.qty \in 1 .. RegLimit /\ q.addr >= FpAddr -> Exception(q.fc, 1)
    [] q.dlen = 4 /\ q.qty \in 1 .. RegLimit /\ q.addr < FpAddr /\ q.addr + q.qty > num ->
         Exception(q.fc, 2)
    [] OTHER -> Result(Regs, [fc |-> q.fc, data |-> [i \in 1 .. q.qty |-> regs[q.addr + i - 1]]])

WriteOne(q, num, written) ==
  CASE q.dlen # 4 -> Silence
    [] q.dlen = 4 /\ q.addr >= num -> Exception(q.fc, 2)
    [] OTHER -> Result(written, [fc |-> q.fc, data |-> <<q.addr, q.val>>])

\* The i-th coil of a FC15 request: the bytes are shifted out bit by bit.
CoilOf(q, i) == Bit(q.data[(i - 1) \div ByteBits + 1], (i - 1) % ByteBits)

\* The i-th coil or register of a FC15 or FC16 request is written.
ItemWritten(q, r, i) ==
  IF q.fc = 15 THEN WriteCoil(r, q.addr + i - 1, CoilOf(q, i))
  ELSE WriteHolding(r, q.addr + i - 1, q.data[i])

\* The loops of FC15 and FC16: the registers are written one by one up to the
\* first that does not exist; what was written before it stays.
WriteMany(q, num) ==
  LET f[i \in 0 .. q.qty] ==
        IF i = 0 \/ q.addr + i - 1 >= num THEN IF i = 0 THEN Regs ELSE f[i - 1]
        ELSE ItemWritten(q, f[i - 1], i)
  IN Result(f[q.qty], IF q.addr + q.qty > num THEN [fc |-> q.fc, exc |-> 2]
                      ELSE [fc |-> q.fc, data |-> <<q.addr, q.qty>>])

WriteCoils(q) ==
  CASE q.dlen < 6 -> Silence
    [] q.dlen >= 6 /\ (\/ q.qty \notin 1 .. BitLimit
                       \/ (q.qty - 1) \div ByteBits + 1 # q.nb
                       \/ q.dlen # q.nb + 5) -> Exception(q.fc, 3)
    [] OTHER -> WriteMany(q, DoNum)

\* Variant with a fault: the words that came are written before the byte count is
\* checked.
WriteRegsEarly(q) ==
  CASE q.dlen < 6 -> Silence
    [] q.dlen >= 6 /\ q.qty \notin 1 .. RegLimit -> Exception(q.fc, 3)
    [] q.dlen >= 6 /\ q.qty \in 1 .. RegLimit /\ q.addr >= FpAddr -> Exception(q.fc, 1)
    [] OTHER ->
         LET w == WriteMany([q EXCEPT !.qty = (q.dlen - 5) \div 2], HoldNum)
         IN IF q.dlen - 5 # q.nb THEN Result(w.regs, [fc |-> q.fc, exc |-> 3]) ELSE w

\* The byte count is compared by an integer division: a trailing byte passes.
WriteRegs(q) ==
  CASE q.dlen < 6 -> Silence
    [] q.dlen >= 6 /\ q.qty \notin 1 .. RegLimit -> Exception(q.fc, 3)
    [] q.dlen >= 6 /\ q.qty \in 1 .. RegLimit /\ q.addr >= FpAddr -> Exception(q.fc, 1)
    [] q.dlen >= 6 /\ q.qty \in 1 .. RegLimit /\ q.addr < FpAddr
         /\ (q.dlen - 5 # q.nb \/ q.nb \div q.qty # 2) -> Exception(q.fc, 3)
    [] OTHER -> WriteMany(q, HoldNum)

Diagnostics(q, d) ==
  CASE q.dlen # 4 -> Silence
    [] q.dlen = 4 /\ q.sub \in {"query", "clear"} -> Result(Regs, [fc |-> 8, data |-> q.val])
    [] q.dlen = 4 /\ q.sub \in Counters -> Result(Regs, [fc |-> 8, data |-> d[q.sub]])
    [] OTHER -> Exception(8, 1)

-----------------------------------------------------------------------------
(* mb_server_process                                                       *)

Decoded(q) ==
  CASE q.fc = 1 -> ReadBits(q, DoNum, holding[DoIdx])
    [] q.fc = 2 -> ReadBits(q, DiNum, inputs[0])
    [] q.fc = 3 -> ReadRegs(q, HoldNum, Shown)
    [] q.fc = 4 -> ReadRegs(q, InNum, inputs)
    [] q.fc = 5 -> WriteOne(q, DoNum, WriteCoil(Regs, q.addr, q.val # 0))
    [] q.fc = 6 -> WriteOne(q, HoldNum, WriteHolding(Regs, q.addr, q.val))
    [] q.fc = 8 -> Diagnostics(q, Counted(diag, {"BUS", "SRV"}))
    [] q.fc = 15 -> WriteCoils(q)
    [] q.fc = 16 -> WriteRegs(q)
    [] OTHER -> Exception(q.fc, 1)

IsException(rsp) == "exc" \in DOMAIN rsp

MbProcess(q) ==
  LET p == Decoded(q)
  IN /\ holding' = p.regs.h /\ outs' = p.regs.o /\ clock' = p.regs.t
     /\ diag' = Processed(diag, CASE q.fc = 8 /\ q.dlen = 4 /\ q.sub = "clear" -> "clear"
                                  [] IsException(p.rsp) -> "exc"
                                  [] OTHER -> "reply")
     /\ UNCHANGED <<inputs, served>>

\* di_task stores a new sample of the inputs, those switched off as 0.
MbSample(v) ==
  inputs' = [inputs EXCEPT ![0] = v] /\ UNCHANGED <<holding, outs, clock, diag, served>>

\* Time passes.
MbTick(t) == clock' = t /\ UNCHANGED <<holding, inputs, outs, diag, served>>

MbInit ==
  /\ holding = [a \in 0 .. HoldNum - 1 |-> 0]
  /\ inputs = [a \in 0 .. InNum - 1 |-> a]
  /\ outs = 0 /\ clock = <<0, 0>>
  /\ diag = [c \in Counters |-> 0] /\ served = 0

MbNext ==
  \/ \E q \in MbRequests : MbProcess(q)
  \/ \E v \in 0 .. BIT[DiNum] - 1 : MbSample(v)
  \/ \E t \in ClockTimes : MbTick(t)

=============================================================================
