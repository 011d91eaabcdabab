------------------------------- MODULE RegMap -------------------------------
(***************************************************************************)
(* The register map, src/modbus/regmap.c, with the outputs (io/dio.c), the *)
(* link monitor (net/w5500.c) and the commands that set and save the       *)
(* address (net/udp_cfg.c, sys/shell.c, web/web_cmds.c).                   *)
(*                                                                         *)
(* Several threads use the registers: the tcpip thread (Modbus TCP, UDP,   *)
(* web), the Modbus RTU task and the shell; the link monitor clears the    *)
(* outputs.  io_lock covers a coil write and a save; every other access is *)
(* a single word or a sequence of single words without the lock.  A thread *)
(* is a record with a label and its locals, and every access to a shared   *)
(* word is a step.                                                         *)
(*                                                                         *)
(* The address stands for the parameters that take several registers; the  *)
(* one-word parameters are exported and loaded like one octet.  The        *)
(* configuration store is taken as the single value it keeps (ConfigStore  *)
(* models how).                                                            *)
(***************************************************************************)
EXTENDS Integers, Sequences

CONSTANTS
  Threads,      \* the threads that execute commands
  NBits,        \* DO_NUM
  NOctets,      \* octets of an address
  Octet,        \* values of an octet
  BadFirst,     \* first octets ip_addr_valid refuses (0, 127, 224 and above)
  BadLast,      \* last octets it refuses (0, 255)
  DefaultIp,    \* the address of the factory defaults
  Ips,          \* addresses the commands name
  OctetWrites,  \* single octets a Modbus master may write
  DoValues,     \* values a Modbus master may write to the DO register
  Nobody,       \* io_lock is free
  NoIp

Bits == 0 .. NBits - 1
Octets == 1 .. NOctets
Address == [Octets -> Octet]

\* ip_addr_valid
IpValid(ip) == ip[1] \notin BadFirst /\ ip[NOctets] \notin BadLast

ASSUME RegMapAssumption ==
  /\ NBits \in Nat \ {0} /\ NOctets \in Nat \ {0}
  /\ DefaultIp \in Address /\ IpValid(DefaultIp)
  /\ Ips \subseteq Address
  /\ OctetWrites \subseteq Octets \X Octet
  /\ DoValues \subseteq SUBSET Bits
  /\ Nobody \notin Threads /\ NoIp \notin Address

VARIABLES
  th,           \* where each thread is
  mon,          \* where the link monitor is
  linkUp,       \* prev_up of the link monitor
  lock,         \* the holder of io_lock
  doReg,        \* holding_reg[HOLDING_DO_IDX], as the set of its bits
  outs,         \* the output pins that are on
  ipReg,        \* holding_reg[HOLDING_IP_OCTET1_IDX ...]
  stored,       \* the address in the configuration store
  coil,         \* history: per bit, the last coil write
  rawDo,        \* history: somebody wrote the DO register without the lock
  disturbed,    \* history: the address changed while this thread set it
  answered      \* history: the address last set and saved, until it is changed

doVars == <<doReg, outs, coil, rawDo>>
ipVars == <<ipReg, stored, disturbed, answered>>
vars == <<th, mon, linkUp, lock, doReg, outs, ipReg, stored, coil, rawDo, disturbed,
          answered>>

Idle == [at |-> "idle"]
IsIdle(t) == th[t] = Idle
Goes(t, state) == th' = [th EXCEPT ![t] = state]
Free == lock = Nobody

-----------------------------------------------------------------------------
(* Outputs                                                                 *)

\* mb_set_do writes the pins one after the other.
Pins(val, then) == [at |-> "pins", bit |-> 0, val |-> val, then |-> then]

WritesPin(p) == outs' = IF p.bit \in p.val THEN outs \cup {p.bit} ELSE outs \ {p.bit}

\* Variant with a fault: one pin too many.
NextPinBeyond(p) ==
  IF p.bit < NBits THEN [p EXCEPT !.bit = @ + 1]
  ELSE IF p.then = "store" THEN [at |-> "coilStore", val |-> p.val] ELSE Idle

NextPin(p) ==
  IF p.bit + 1 < NBits THEN [p EXCEPT !.bit = @ + 1]
  ELSE IF p.then = "store" THEN [at |-> "coilStore", val |-> p.val] ELSE Idle

PinStep(t) ==
  /\ th[t].at = "pins"
  /\ WritesPin(th[t])
  /\ Goes(t, NextPin(th[t]))
  /\ UNCHANGED <<mon, linkUp, lock, doReg, coil, rawDo, ipVars>>

\* Variant with a fault: the lock is not taken.
CoilBeginUnlocked(t, b, on) ==
  /\ IsIdle(t)
  /\ lock' = lock
  /\ Goes(t, Pins(IF on THEN doReg \cup {b} ELSE doReg \ {b}, "store"))
  /\ coil' = [coil EXCEPT ![b] = on]
  /\ UNCHANGED <<mon, linkUp, doReg, outs, rawDo, ipVars>>

\* io_write_do_bit: lock, read, drive the pins, store, unlock.
CoilBegin(t, b, on) ==
  /\ IsIdle(t)
  /\ Free /\ lock' = t
  /\ Goes(t, Pins(IF on THEN doReg \cup {b} ELSE doReg \ {b}, "store"))
  /\ coil' = [coil EXCEPT ![b] = on]
  /\ UNCHANGED <<mon, linkUp, doReg, outs, rawDo, ipVars>>

CoilStore(t) ==
  /\ th[t].at = "coilStore"
  /\ doReg' = th[t].val
  /\ lock' = Nobody
  /\ Goes(t, Idle)
  /\ UNCHANGED <<mon, linkUp, outs, coil, rawDo, ipVars>>

\* io_write_holding of the DO register: compare, store, drive the pins, all
\* without the lock.  Writing the value it holds does nothing.
WriteDo(t, val) ==
  /\ IsIdle(t)
  /\ doReg # val
  /\ Goes(t, [at |-> "doStore", val |-> val])
  /\ UNCHANGED <<mon, linkUp, lock, doVars, ipVars>>

WriteDoStore(t) ==
  /\ th[t].at = "doStore"
  /\ doReg' = th[t].val
  /\ rawDo' = TRUE
  /\ Goes(t, Pins(th[t].val, "done"))
  /\ UNCHANGED <<mon, linkUp, lock, outs, coil, ipVars>>

\* net_mon_task: on the falling edge clear the register, then the pins.
LinkComesUp ==
  /\ mon = Idle /\ ~linkUp
  /\ linkUp' = TRUE
  /\ UNCHANGED <<th, mon, lock, doVars, ipVars>>

LinkGoesDown ==
  /\ mon = Idle /\ linkUp
  /\ linkUp' = FALSE
  /\ doReg' = {}
  /\ rawDo' = TRUE
  /\ mon' = Pins({}, "done")
  /\ UNCHANGED <<th, lock, outs, coil, ipVars>>

MonitorPin ==
  /\ mon # Idle
  /\ WritesPin(mon)
  /\ mon' = NextPin(mon)
  /\ UNCHANGED <<th, linkUp, lock, doReg, coil, rawDo, ipVars>>

-----------------------------------------------------------------------------
(* The address                                                             *)

\* The address registers change under everybody else.
Disturbs(t) ==
  /\ disturbed' = [u \in Threads |-> disturbed[u] \/ u # t]
  /\ answered' = NoIp

\* SET_IP of the UDP protocol and the shell: the octets, then a save.  The web
\* page writes the octets only.
SetIp(t, ip, saves) ==
  /\ IsIdle(t)
  /\ IpValid(ip)
  /\ Goes(t, [at |-> "octet", i |-> 1, ip |-> ip, saves |-> saves])
  /\ disturbed' = [disturbed EXCEPT ![t] = FALSE]
  /\ UNCHANGED <<mon, linkUp, lock, doVars, ipReg, stored, answered>>

SetOctet(t) ==
  LET i == th[t].i
  IN /\ th[t].at = "octet"
     /\ ipReg' = [ipReg EXCEPT ![i] = th[t].ip[i]]
     /\ Goes(t, IF i < NOctets THEN [th[t] EXCEPT !.i = @ + 1]
                ELSE IF th[t].saves THEN [at |-> "save", ip |-> th[t].ip] ELSE Idle)
     /\ Disturbs(t)
     /\ UNCHANGED <<mon, linkUp, lock, doVars, stored>>

\* io_write_holding of one octet: no check, no other effect.
WriteOctet(t, i, v) ==
  /\ IsIdle(t)
  /\ ipReg' = [ipReg EXCEPT ![i] = v]
  /\ Disturbs(t)
  /\ UNCHANGED <<th, mon, linkUp, lock, doVars, stored>>

-----------------------------------------------------------------------------
(* holding_reg_save                                                        *)

\* CFG_SAVE, the save command of the web page or of the shell.
Save(t) ==
  /\ IsIdle(t)
  /\ Goes(t, [at |-> "save", ip |-> NoIp])
  /\ UNCHANGED <<mon, linkUp, lock, doVars, ipVars>>

\* Variant with a fault: the lock is not taken.
SaveBeginUnlocked(t) ==
  /\ th[t].at = "save"
  /\ lock' = lock
  /\ Goes(t, [at |-> "first", ip |-> th[t].ip, cfg |-> stored, i |-> 1])
  /\ UNCHANGED <<mon, linkUp, doVars, ipVars>>

\* Under the lock; the address kept so far is the fallback.
SaveBegin(t) ==
  /\ th[t].at = "save"
  /\ Free /\ lock' = t
  /\ Goes(t, [at |-> "first", ip |-> th[t].ip, cfg |-> stored, i |-> 1])
  /\ UNCHANGED <<mon, linkUp, doVars, ipVars>>

\* ip_is_valid_for_export reads the first and the last octet; an address that is
\* not valid is not exported.
SaveChecks(t) ==
  /\ th[t].at \in {"first", "last"}
  /\ Goes(t, [th[t] EXCEPT !.at =
                IF th[t].at = "first"
                THEN IF ipReg[1] \notin BadFirst THEN "last" ELSE "store"
                ELSE IF ipReg[NOctets] \notin BadLast THEN "copy" ELSE "store"])
  /\ UNCHANGED <<mon, linkUp, lock, doVars, ipVars>>

SaveCopies(t) ==
  LET i == th[t].i
  IN /\ th[t].at = "copy"
     /\ Goes(t, [th[t] EXCEPT !.cfg[i] = ipReg[i],
                              !.i = IF i < NOctets THEN i + 1 ELSE 1,
                              !.at = IF i < NOctets THEN "copy" ELSE "store"])
     /\ UNCHANGED <<mon, linkUp, lock, doVars, ipVars>>

\* config_store_save, unlock, and the answer of the command.  The result of the
\* save is dropped: the answer is the same when it failed.
SaveStores(t) ==
  /\ th[t].at = "store"
  /\ \/ /\ stored' = th[t].cfg
        /\ answered' = IF th[t].ip # NoIp /\ ~disturbed[t] THEN th[t].ip ELSE answered
     \/ UNCHANGED <<stored, answered>>
  /\ lock' = IF lock = t THEN Nobody ELSE lock
  /\ Goes(t, Idle)
  /\ UNCHANGED <<mon, linkUp, doVars, ipReg, disturbed>>

\* config_store_erase_all: the store only, and without the lock.
FactoryReset(t) ==
  /\ IsIdle(t)
  /\ stored' = DefaultIp
  /\ Disturbs(t)
  /\ UNCHANGED <<th, mon, linkUp, lock, doVars, ipReg>>

-----------------------------------------------------------------------------
\* holding_reg_load: an address that is not valid leaves the default.
Loaded == IF IpValid(stored) THEN stored ELSE DefaultIp

\* Power loss or reset at any time, and the start of the firmware after it.
Restart ==
  /\ th' = [t \in Threads |-> Idle]
  /\ mon' = Idle /\ linkUp' = FALSE
  /\ lock' = Nobody
  /\ doReg' = {} /\ outs' = {}
  /\ coil' = [b \in Bits |-> FALSE] /\ rawDo' = FALSE
  /\ ipReg' = Loaded
  /\ disturbed' = [t \in Threads |-> FALSE]
  /\ UNCHANGED <<stored, answered>>

Init ==
  /\ th = [t \in Threads |-> Idle]
  /\ mon = Idle /\ linkUp = FALSE
  /\ lock = Nobody
  /\ doReg = {} /\ outs = {}
  /\ coil = [b \in Bits |-> FALSE] /\ rawDo = FALSE
  /\ stored = DefaultIp
  /\ ipReg = DefaultIp
  /\ disturbed = [t \in Threads |-> FALSE]
  /\ answered = NoIp

Monitor == LinkComesUp \/ LinkGoesDown \/ MonitorPin

ThreadStep(t) ==
  \/ PinStep(t) \/ CoilStore(t) \/ WriteDoStore(t)
  \/ SetOctet(t)
  \/ SaveBegin(t) \/ SaveChecks(t) \/ SaveCopies(t) \/ SaveStores(t)

Command(t) ==
  \/ \E b \in Bits, on \in BOOLEAN : CoilBegin(t, b, on)
  \/ \E val \in DoValues : WriteDo(t, val)
  \/ \E ip \in Ips, saves \in BOOLEAN : SetIp(t, ip, saves)
  \/ \E w \in OctetWrites : WriteOctet(t, w[1], w[2])
  \/ Save(t)
  \/ FactoryReset(t)

Next ==
  \/ \E t \in Threads : Command(t) \/ ThreadStep(t)
  \/ Monitor
  \/ Restart

Spec == Init /\ [][Next]_vars

-----------------------------------------------------------------------------
(* Properties                                                              *)

PinStates ==
  [at : {"pins"}, bit : Bits, val : SUBSET Bits, then : {"store", "done"}]
MonitorStates == [at : {"pins"}, bit : Bits, val : {{}}, then : {"done"}]

ThreadStates ==
  {Idle} \cup PinStates
  \cup [at : {"coilStore", "doStore"}, val : SUBSET Bits]
  \cup [at : {"octet"}, i : Octets, ip : Address, saves : BOOLEAN]
  \cup [at : {"save"}, ip : Address \cup {NoIp}]
  \cup [at : {"first", "last", "copy", "store"}, ip : Address \cup {NoIp},
        cfg : Address, i : Octets]

\* The loops over pins and octets stay within their arrays, and registers, pins
\* and the store keep their types.
TypeOK ==
  /\ th \in [Threads -> ThreadStates]
  /\ mon \in {Idle} \cup MonitorStates
  /\ linkUp \in BOOLEAN
  /\ lock \in Threads \cup {Nobody}
  /\ doReg \subseteq Bits /\ outs \subseteq Bits
  /\ ipReg \in Address /\ stored \in Address
  /\ coil \in [Bits -> BOOLEAN] /\ rawDo \in BOOLEAN
  /\ disturbed \in [Threads -> BOOLEAN]
  /\ answered \in Address \cup {NoIp}

CoilInProgress == \E t \in Threads : th[t].at \in {"pins", "coilStore"}

\* Coil writes of several masters lose nothing: as long as only coil writes
\* drive the outputs, register and pins show the last write of every bit once
\* no write is under way (io_lock around io_write_do_bit).
CoilsKept ==
  ~rawDo /\ ~CoilInProgress => doReg = {b \in Bits : coil[b]} /\ outs = doReg

\* An address that was set and saved stays in the store, whatever saves and power
\* losses follow, until somebody changes it; saves of other threads that were
\* under way when it was set do not bring an older one back.
SetIpSurvives == answered # NoIp => stored = answered /\ ipReg = answered

\* regmap.c:43: the lock keeps an address of which only some octets are written
\* out of the store.  (For instances in which nobody writes single octets.)
StoredWhole == stored \in Ips \cup {DefaultIp}

=============================================================================
