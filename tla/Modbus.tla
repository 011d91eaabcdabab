------------------------------- MODULE Modbus -------------------------------
(***************************************************************************)
(* The Modbus server and its two transports.  A behaviour exercises one of *)
(* them, and part says which: requests of masters over all function codes, *)
(* the byte streams of TCP masters, or the serial line.  The server keeps  *)
(* nothing between requests but registers and counters, and the transports *)
(* keep nothing in common but the counters.                                *)
(***************************************************************************)
EXTENDS ModbusTcp, ModbusRtu

VARIABLE part   \* "server", "tcp" or "rtu"

modbusVars == <<part, mbVars, tcpVars, rtuVars>>
registers == <<holding, inputs, outs, clock>>

ModbusInit ==
  /\ part \in {"server", "tcp", "rtu"}
  /\ MbInit /\ TcpInit /\ RtuInit

ModbusNext ==
  /\ UNCHANGED part
  /\ \/ part = "server" /\ MbNext /\ UNCHANGED <<tcpVars, rtuVars>>
     \/ part = "tcp" /\ TcpNext /\ UNCHANGED <<registers, rtuVars>>
     \/ part = "rtu" /\ RtuNext /\ UNCHANGED <<registers, tcpVars>>

\* Only the part at work has enabled actions, so fairness binds no other.
ModbusSpec == ModbusInit /\ [][ModbusNext]_modbusVars /\ TcpFairness /\ RtuFairness

-----------------------------------------------------------------------------
(* Properties                                                              *)

\* What a single (FC05) or multiple (FC15) write of coils answered for is what the
\* outputs then hold, the other coils as before, and FC01 reads them bit for bit
\* over the byte boundaries, FC02 the inputs in the same order: bit k of the
\* response is the coil at addr + k.
CoilsReadBack ==
  part = "server" => \A q \in MbRequests :
    LET p == Decoded(q)
        bit(m, k) == Bit(m.data[k \div ByteBits + 1], k % ByteBits)
    IN /\ q.fc \in {1, 2} /\ "data" \in DOMAIN p.rsp =>
            /\ \A k \in 0 .. q.qty - 1 :
                 bit(p.rsp, k) <=> Bit(IF q.fc = 1 THEN holding[DoIdx] ELSE inputs[0], q.addr + k)
            /\ \A j \in DOMAIN p.rsp.data : p.rsp.data[j] < BIT[ByteBits]
       /\ q.fc \in {5, 15} /\ "data" \in DOMAIN p.rsp =>
            \A i \in 0 .. DoNum - 1 :
              Bit(p.regs.h[DoIdx], i) <=>
                CASE q.fc = 5 /\ i = q.addr -> q.val # 0
                  [] q.fc = 15 /\ i \in q.addr .. q.addr + q.qty - 1 -> bit(q, i - q.addr)
                  [] OTHER -> Bit(holding[DoIdx], i)

\* A request changes only the registers it names: one that is refused for its
\* form or left unanswered changes nothing, one that runs past the last register
\* changes those before it and is refused.  The pins show what the output register
\* then holds, whichever of FC05, FC06, FC15 and FC16 wrote it (regmap.c:133).
WritesOnlyNamed ==
  part = "server" => \A q \in MbRequests :
    LET p == Decoded(q)
        refused == p.rsp = NoResponse \/ (IsException(p.rsp) /\ p.rsp.exc # 2)
        named == CASE refused -> {}
                   [] ~refused /\ q.fc \in {5, 15} -> {DoIdx}
                   [] ~refused /\ q.fc = 6 -> {q.addr}
                   [] ~refused /\ q.fc = 16 -> q.addr .. q.addr + q.qty - 1
                   [] OTHER -> {}
    IN /\ p.regs.o = p.regs.h[DoIdx] % BIT[DoNum]
       /\ \A a \in 0 .. HoldNum - 1 :
            /\ a \notin named => p.regs.h[a] = holding[a]
            /\ a \in named /\ q.fc = 16 /\ a \notin ActIdx =>
                 p.regs.h[a] = q.data[a - q.addr + 1]

\* Every request a transport counted as seen since FC08 last cleared the counters
\* was answered or counted as unanswered (mbtcp_adu.c:100, rtu_frame.c:93).  The
\* request that clears is forgotten itself (mb_server.c:428), but for a broadcast
\* of it, which is counted as unanswered after that; a TCP frame of another
\* protocol is answered uncounted.
CountersBalance == part # "server" => (served + diag["NO_RESP"]) % CountMod = diag["BUS"]

\* A TCP master that stops in the middle of a frame does not hold its slot: the
\* frame is completed or the connection closed (tcp.c:181).
HalfFrameEnds == \A c \in Conns : part = "tcp" /\ mconn[c].rx # <<>> ~> mconn[c].rx = <<>>

\* The serial side listens again and again: no order of noise, failed
\* transmissions and late interrupts leaves the receiver off, the bus driven or
\* frame_pending set for ever (the silent death rtu.c:170 speaks of).
RtuListens == part = "rtu" => []<>(armed /\ ~framePending /\ ~de)

=============================================================================
