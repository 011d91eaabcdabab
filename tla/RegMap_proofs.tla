--------------------------- MODULE RegMap_proofs ---------------------------
(* Theorems about RegMap.                                                  *)
EXTENDS RegMap, TLAPS

-----------------------------------------------------------------------------
(* Types                                                                   *)

CoilStates == [at : {"coilStore", "doStore"}, val : SUBSET Bits]
OctetStates == [at : {"octet"}, i : Octets, ip : Address, saves : BOOLEAN]
SaveStates == [at : {"save"}, ip : Address \cup {NoIp}]
ExportStates ==
  [at : {"first", "last", "copy", "store"}, ip : Address \cup {NoIp},
   cfg : Address, i : Octets]

\* The label of a thread says which locals it has.
LEMMA Shapes ==
  ASSUME TypeOK, NEW t \in Threads
  PROVE  /\ th[t].at = "pins" => th[t] \in PinStates
         /\ th[t].at \in {"coilStore", "doStore"} => th[t] \in CoilStates
         /\ th[t].at = "octet" => th[t] \in OctetStates
         /\ th[t].at = "save" => th[t] \in SaveStates
         /\ th[t].at \in {"first", "last", "copy", "store"} => th[t] \in ExportStates
<1>1. th[t] \in ThreadStates
  BY DEF TypeOK
<1>2. \/ th[t] = Idle \/ th[t] \in PinStates \/ th[t] \in CoilStates
      \/ th[t] \in OctetStates \/ th[t] \in SaveStates \/ th[t] \in ExportStates
  BY <1>1 DEF ThreadStates, CoilStates, OctetStates, SaveStates, ExportStates
<1>. QED
  BY <1>2 DEF Idle, PinStates, CoilStates, OctetStates, SaveStates, ExportStates

\* A thread that changes its state to one of the type leaves th of its type.
LEMMA Moves ==
  ASSUME TypeOK, NEW t \in Threads, NEW state \in ThreadStates, Goes(t, state)
  PROVE  th' \in [Threads -> ThreadStates] /\ th'[t] = state
         /\ \A u \in Threads : u # t => th'[u] = th[u]
  BY DEF TypeOK, Goes

\* The pin after a pin is within the outputs.
LEMMA NextPinType ==
  ASSUME NEW p \in PinStates
  PROVE  /\ NextPin(p) \in ThreadStates
         /\ p \in MonitorStates => NextPin(p) \in {Idle} \cup MonitorStates
<1>1. p.bit \in Bits /\ p.val \in SUBSET Bits
  BY DEF PinStates
<1>2. CASE p.bit + 1 < NBits
  <2>1. p.bit + 1 \in Bits
    BY <1>1, <1>2, RegMapAssumption DEF Bits
  <2>2. /\ [p EXCEPT !.bit = @ + 1] \in PinStates
        /\ p \in MonitorStates => [p EXCEPT !.bit = @ + 1] \in MonitorStates
    BY <2>1 DEF PinStates, MonitorStates
  <2>. QED BY <1>2, <2>2 DEF NextPin, ThreadStates
<1>3. CASE ~(p.bit + 1 < NBits)
  BY <1>1, <1>3 DEF NextPin, ThreadStates, MonitorStates
<1>. QED BY <1>2, <1>3

\* Writing a pin keeps the outputs within their range.
LEMMA OutsType ==
  ASSUME NEW p \in PinStates, outs \subseteq Bits, WritesPin(p)
  PROVE  outs' \subseteq Bits
  BY DEF WritesPin, PinStates

\* The first pin is one.
LEMMA FirstPins ==
  ASSUME NEW val \in SUBSET Bits, NEW then \in {"store", "done"}
  PROVE  /\ Pins(val, then) \in PinStates /\ Pins(val, then) \in ThreadStates
         /\ val = {} /\ then = "done" => Pins(val, then) \in MonitorStates
<1>1. 0 \in Bits
  BY RegMapAssumption DEF Bits
<1>. QED BY <1>1 DEF Pins, PinStates, ThreadStates, MonitorStates

\* The initial state has its type.
LEMMA InitType == Init => TypeOK
<1>1. Init => th \in [Threads -> ThreadStates]
  BY DEF Init, ThreadStates
<1>. QED BY <1>1, RegMapAssumption DEF Init, TypeOK

\* The commands.
LEMMA CommandType ==
  ASSUME TypeOK, NEW t \in Threads, Command(t)
  PROVE  TypeOK'
<1>1. ASSUME NEW b \in Bits, NEW on \in BOOLEAN, CoilBegin(t, b, on) PROVE TypeOK'
  <2>1. (IF on THEN doReg \cup {b} ELSE doReg \ {b}) \in SUBSET Bits
    BY DEF TypeOK
  <2>2. th' \in [Threads -> ThreadStates]
    BY <1>1, <2>1, FirstPins, Moves DEF CoilBegin
  <2>. QED BY <1>1, <2>2 DEF CoilBegin, TypeOK, ipVars
<1>2. ASSUME NEW val \in DoValues, WriteDo(t, val) PROVE TypeOK'
  <2>1. [at |-> "doStore", val |-> val] \in ThreadStates
    BY RegMapAssumption DEF ThreadStates
  <2>2. th' \in [Threads -> ThreadStates]
    BY <1>2, <2>1, Moves DEF WriteDo
  <2>. QED BY <1>2, <2>2 DEF WriteDo, TypeOK, ipVars, doVars
<1>3. ASSUME NEW ip \in Ips, NEW saves \in BOOLEAN, SetIp(t, ip, saves) PROVE TypeOK'
  <2>1. [at |-> "octet", i |-> 1, ip |-> ip, saves |-> saves] \in ThreadStates
    BY RegMapAssumption DEF ThreadStates, Octets
  <2>2. th' \in [Threads -> ThreadStates]
    BY <1>3, <2>1, Moves DEF SetIp
  <2>. QED BY <1>3, <2>2 DEF SetIp, TypeOK, doVars
<1>4. ASSUME NEW w \in OctetWrites, WriteOctet(t, w[1], w[2]) PROVE TypeOK'
  <2>1. w[1] \in Octets /\ w[2] \in Octet
    BY RegMapAssumption
  <2>. QED BY <1>4, <2>1 DEF WriteOctet, TypeOK, doVars, Disturbs, Address
<1>5. ASSUME Save(t) PROVE TypeOK'
  <2>1. [at |-> "save", ip |-> NoIp] \in ThreadStates
    BY DEF ThreadStates
  <2>2. th' \in [Threads -> ThreadStates]
    BY <1>5, <2>1, Moves DEF Save
  <2>. QED BY <1>5, <2>2 DEF Save, TypeOK, ipVars, doVars
<1>6. ASSUME FactoryReset(t) PROVE TypeOK'
  BY <1>6, RegMapAssumption DEF FactoryReset, TypeOK, doVars, Disturbs
<1>. QED BY <1>1, <1>2, <1>3, <1>4, <1>5, <1>6 DEF Command

\* The steps of a command.
LEMMA ThreadStepType ==
  ASSUME TypeOK, NEW t \in Threads, ThreadStep(t)
  PROVE  TypeOK'
<1>1. CASE PinStep(t)
  <2>1. th[t] \in PinStates
    BY <1>1, Shapes DEF PinStep
  <2>2. th' \in [Threads -> ThreadStates]
    BY <1>1, <2>1, NextPinType, Moves DEF PinStep
  <2>3. outs' \subseteq Bits
    BY <1>1, <2>1, OutsType DEF PinStep, TypeOK
  <2>. QED BY <1>1, <2>2, <2>3 DEF PinStep, TypeOK, ipVars
<1>2. CASE CoilStore(t)
  <2>1. th[t] \in CoilStates
    BY <1>2, Shapes DEF CoilStore
  <2>2. th' \in [Threads -> ThreadStates]
    BY <1>2, Moves DEF CoilStore, ThreadStates
  <2>. QED BY <1>2, <2>1, <2>2 DEF CoilStore, TypeOK, ipVars, CoilStates
<1>3. CASE WriteDoStore(t)
  <2>1. th[t] \in CoilStates
    BY <1>3, Shapes DEF WriteDoStore
  <2>2. th[t].val \in SUBSET Bits
    BY <2>1 DEF CoilStates
  <2>3. th' \in [Threads -> ThreadStates]
    BY <1>3, <2>2, FirstPins, Moves DEF WriteDoStore
  <2>. QED BY <1>3, <2>2, <2>3 DEF WriteDoStore, TypeOK, ipVars
<1>4. CASE SetOctet(t)
  <2>. DEFINE i == th[t].i
  <2>1. th[t] \in OctetStates
    BY <1>4, Shapes DEF SetOctet
  <2>2. i \in Octets /\ th[t].ip \in Address /\ th[t].ip[i] \in Octet
    BY <2>1 DEF OctetStates, Address
  <2>3. i < NOctets => [th[t] EXCEPT !.i = @ + 1] \in OctetStates
    BY <2>1, <2>2, RegMapAssumption DEF OctetStates, Octets
  <2>4. [at |-> "save", ip |-> th[t].ip] \in SaveStates
    BY <2>2 DEF SaveStates
  <2>5. th' \in [Threads -> ThreadStates]
    <3>. DEFINE state == IF i < NOctets THEN [th[t] EXCEPT !.i = @ + 1]
                         ELSE IF th[t].saves THEN [at |-> "save", ip |-> th[t].ip] ELSE Idle
    <3>1. state \in ThreadStates
      BY <2>3, <2>4 DEF ThreadStates, OctetStates, SaveStates
    <3>2. Goes(t, state)
      BY <1>4 DEF SetOctet
    <3>. QED BY <3>1, <3>2, Moves
  <2>6. ipReg' \in Address
    BY <1>4, <2>2 DEF SetOctet, TypeOK, Address
  <2>. QED BY <1>4, <2>5, <2>6 DEF SetOctet, TypeOK, doVars, Disturbs
<1>5. CASE SaveBegin(t)
  <2>1. th[t] \in SaveStates
    BY <1>5, Shapes DEF SaveBegin
  <2>2. [at |-> "first", ip |-> th[t].ip, cfg |-> stored, i |-> 1] \in ExportStates
    BY <2>1, RegMapAssumption DEF SaveStates, ExportStates, Octets, TypeOK
  <2>3. th' \in [Threads -> ThreadStates]
    BY <1>5, <2>2, Moves DEF SaveBegin, ThreadStates, ExportStates
  <2>. QED BY <1>5, <2>3 DEF SaveBegin, TypeOK, doVars, ipVars
<1>6. CASE SaveChecks(t)
  <2>1. th[t] \in ExportStates
    BY <1>6, Shapes DEF SaveChecks
  <2>2. \A l \in {"last", "copy", "store"} : [th[t] EXCEPT !.at = l] \in ExportStates
    BY <2>1 DEF ExportStates
  <2>3. PICK l \in {"last", "copy", "store"} : Goes(t, [th[t] EXCEPT !.at = l])
    BY <1>6 DEF SaveChecks
  <2>4. th' \in [Threads -> ThreadStates]
    BY <2>2, <2>3, Moves DEF ThreadStates, ExportStates
  <2>. QED BY <1>6, <2>4 DEF SaveChecks, TypeOK, doVars, ipVars
<1>7. CASE SaveCopies(t)
  <2>. DEFINE i == th[t].i
              state == [th[t] EXCEPT !.cfg[i] = ipReg[i],
                                     !.i = IF i < NOctets THEN i + 1 ELSE 1,
                                     !.at = IF i < NOctets THEN "copy" ELSE "store"]
  <2>1. th[t] \in ExportStates
    BY <1>7, Shapes DEF SaveCopies
  <2>2. i \in Octets /\ ipReg[i] \in Octet /\ th[t].cfg \in Address
    BY <2>1 DEF ExportStates, TypeOK, Address
  <2>3. [th[t].cfg EXCEPT ![i] = ipReg[i]] \in Address
    BY <2>2 DEF Address
  <2>4. (IF i < NOctets THEN i + 1 ELSE 1) \in Octets
    BY <2>2, RegMapAssumption DEF Octets
  <2>5. state \in ExportStates
    BY <2>1, <2>3, <2>4 DEF ExportStates
  <2>6. Goes(t, state)
    BY <1>7 DEF SaveCopies
  <2>7. th' \in [Threads -> ThreadStates]
    BY <2>5, <2>6, Moves DEF ThreadStates, ExportStates
  <2>. QED BY <1>7, <2>7 DEF SaveCopies, TypeOK, doVars, ipVars
<1>8. CASE SaveStores(t)
  <2>1. th[t] \in ExportStates
    BY <1>8, Shapes DEF SaveStores
  <2>2. th' \in [Threads -> ThreadStates]
    BY <1>8, Moves DEF SaveStores, ThreadStates
  <2>. QED BY <1>8, <2>1, <2>2 DEF SaveStores, TypeOK, doVars, ExportStates
<1>. QED BY <1>1, <1>2, <1>3, <1>4, <1>5, <1>6, <1>7, <1>8 DEF ThreadStep

\* The link monitor, the restart, and a stuttering step.
LEMMA OtherType ==
  ASSUME TypeOK, Monitor \/ Restart \/ UNCHANGED vars
  PROVE  TypeOK'
<1>1. CASE LinkComesUp
  BY <1>1 DEF LinkComesUp, TypeOK, doVars, ipVars
<1>2. CASE LinkGoesDown
  <2>1. Pins({}, "done") \in MonitorStates
    BY FirstPins
  <2>. QED BY <1>2, <2>1 DEF LinkGoesDown, TypeOK, ipVars
<1>3. CASE MonitorPin
  <2>1. mon \in MonitorStates /\ mon \in PinStates
    BY <1>3 DEF MonitorPin, TypeOK, MonitorStates, PinStates
  <2>2. outs' \subseteq Bits
    BY <1>3, <2>1, OutsType DEF MonitorPin, TypeOK
  <2>3. mon' \in {Idle} \cup MonitorStates
    BY <1>3, <2>1, NextPinType DEF MonitorPin
  <2>. QED BY <1>3, <2>2, <2>3 DEF MonitorPin, TypeOK, ipVars
<1>4. CASE Restart
  <2>1. th' \in [Threads -> ThreadStates]
    BY <1>4 DEF Restart, ThreadStates
  <2>. QED BY <1>4, <2>1, RegMapAssumption DEF Restart, TypeOK, Loaded
<1>5. CASE UNCHANGED vars
  BY <1>5 DEF vars, TypeOK
<1>. QED BY <1>1, <1>2, <1>3, <1>4, <1>5 DEF Monitor

\* Every step keeps the types.
LEMMA TypeStep == TypeOK /\ [Next]_vars => TypeOK'
  BY CommandType, ThreadStepType, OtherType DEF Next

\* Registers, pins, the store and the locals of every thread keep their types;
\* the loops over pins and octets stay within their arrays (mb_set_do,
\* holding_reg_save), for any number of threads, outputs and octets.
THEOREM TypeCorrect == Spec => []TypeOK
  BY InitType, TypeStep, PTL DEF Spec

-----------------------------------------------------------------------------
(* Coil writes                                                             *)

\* What the masters asked for.
Commanded == {b \in Bits : coil[b]}

InCoil(t) == \/ th[t].at = "pins" /\ th[t].then = "store"
             \/ th[t].at = "coilStore"
InSave(t) == th[t].at \in {"first", "last", "copy", "store"}

\* A thread between lock and unlock holds the lock, so at most one is there.
Locked == \A t \in Threads : InCoil(t) \/ InSave(t) => lock = t

\* Pins are driven without the lock only after the register was.
RawMarked ==
  /\ \A t \in Threads : th[t].at = "pins" /\ th[t].then # "store" => rawDo
  /\ mon # Idle => rawDo

\* How far a coil write got: the pins before its bit show the new value, the
\* others still the register.
CoilProgress(t) ==
  /\ th[t].val = Commanded
  /\ th[t].at = "coilStore" => outs = Commanded
  /\ th[t].at = "pins" =>
       \A b \in Bits : b \in outs <=> IF b < th[t].bit THEN b \in Commanded ELSE b \in doReg

CoilInv ==
  /\ TypeOK
  /\ Locked
  /\ RawMarked
  /\ CoilsKept
  /\ ~rawDo => \A t \in Threads : InCoil(t) => CoilProgress(t)

\* Without unlocked writers a coil write under way is one under the lock.
LEMMA InProgress ==
  ASSUME CoilInv, ~rawDo
  PROVE  CoilInProgress <=> \E t \in Threads : InCoil(t)
  BY DEF CoilInv, RawMarked, CoilInProgress, InCoil

\* Initially nothing is under way and everything is off.
LEMMA InitCoil == Init => CoilInv
<1>. SUFFICES ASSUME Init PROVE CoilInv
  OBVIOUS
<1>1. TypeOK
  BY InitType
<1>2. mon = Idle /\ \A t \in Threads : th[t].at = "idle"
  BY DEF Init, Idle
<1>3. Commanded = {} /\ doReg = {} /\ outs = {}
  BY DEF Init, Commanded
<1>4. \A t \in Threads : ~InCoil(t) /\ ~InSave(t) /\ th[t].at # "pins"
  BY <1>2 DEF InCoil, InSave
<1>5. Locked /\ RawMarked
  BY <1>2, <1>4 DEF Locked, RawMarked
<1>6. CoilsKept
  BY <1>3 DEF CoilsKept, Commanded
<1>. QED BY <1>1, <1>4, <1>5, <1>6 DEF CoilInv

\* A step of one thread leaves the others where they are.
LEMMA OneMoves ==
  ASSUME TypeOK, NEW t \in Threads, NEW state, Goes(t, state)
  PROVE  th'[t] = state /\ \A u \in Threads : u # t => th'[u] = th[u]
  BY DEF TypeOK, Goes

\* The lock stays with its holder, ...
LEMMA LockKept ==
  ASSUME CoilInv, NEW t \in Threads, lock' = lock,
         \A u \in Threads : u # t => th'[u] = th[u],
         (InCoil(t) \/ InSave(t))' => InCoil(t) \/ InSave(t)
  PROVE  Locked'
  BY DEF CoilInv, Locked, InCoil, InSave

\* ... is taken when it is free, ...
LEMMA LockTaken ==
  ASSUME CoilInv, NEW t \in Threads, Free, lock' = t,
         \A u \in Threads : u # t => th'[u] = th[u]
  PROVE  Locked'
  BY RegMapAssumption DEF CoilInv, Locked, InCoil, InSave, Free

\* ... and is given back by its holder.
LEMMA LockReleased ==
  ASSUME CoilInv, NEW t \in Threads, InCoil(t) \/ InSave(t),
         \A u \in Threads : u # t => th'[u] = th[u],
         ~(InCoil(t) \/ InSave(t))'
  PROVE  Locked' /\ lock = t
  BY DEF CoilInv, Locked, InCoil, InSave

\* Steps of a thread outside the outputs keep what is known of the outputs.
LEMMA Quiet ==
  ASSUME CoilInv, TypeOK', Locked', NEW t \in Threads, UNCHANGED <<mon, doVars>>,
         \A u \in Threads : u # t => th'[u] = th[u],
         th[t].at \notin {"pins", "coilStore"}, th'[t].at \notin {"pins", "coilStore"}
  PROVE  CoilInv'
<1>1. RawMarked'
  BY DEF CoilInv, RawMarked, doVars
<1>2. CoilInProgress' <=> CoilInProgress
  BY DEF CoilInProgress
<1>3. CoilsKept'
  BY <1>2 DEF CoilInv, CoilsKept, doVars
<1>4. ASSUME ~rawDo', NEW u \in Threads, InCoil(u)' PROVE CoilProgress(u)'
  <2>1. u # t /\ th'[u] = th[u] /\ InCoil(u)
    BY <1>4 DEF InCoil
  <2>2. CoilProgress(u)
    BY <1>4, <2>1 DEF CoilInv, doVars
  <2>. QED BY <2>1, <2>2 DEF CoilProgress, Commanded, doVars
<1>. QED BY <1>1, <1>3, <1>4 DEF CoilInv

\* Once somebody wrote without the lock, only the lock is left to keep.
LEMMA Raw ==
  ASSUME TypeOK', Locked', rawDo'
  PROVE  CoilInv'
  BY DEF CoilInv, RawMarked, CoilsKept

-----------------------------------------------------------------------------
\* A coil write under the lock: nobody else is in one, and what the masters
\* asked for is in register and pins.
LEMMA CoilBeginKeeps ==
  ASSUME CoilInv, TypeOK', NEW t \in Threads, NEW b \in Bits, NEW on \in BOOLEAN,
         CoilBegin(t, b, on)
  PROVE  CoilInv'
<1>. DEFINE val == IF on THEN doReg \cup {b} ELSE doReg \ {b}
<1>1. /\ th'[t] = Pins(val, "store")
      /\ \A u \in Threads : u # t => th'[u] = th[u]
  BY OneMoves DEF CoilBegin, CoilInv
<1>2. Locked'
  BY <1>1, LockTaken DEF CoilBegin
<1>3. \A u \in Threads : ~InCoil(u)
  BY RegMapAssumption DEF CoilBegin, CoilInv, Locked, Free
<1>4. RawMarked'
  BY <1>1 DEF CoilBegin, CoilInv, RawMarked, Pins
<1>5. CoilInProgress'
  BY <1>1 DEF CoilInProgress, Pins
<1>6. ASSUME ~rawDo' PROVE CoilProgress(t)'
  <2>1. ~rawDo /\ ~CoilInProgress
    BY <1>3, <1>6, InProgress DEF CoilBegin
  <2>2. doReg = Commanded /\ outs = doReg
    BY <2>1 DEF CoilInv, CoilsKept, Commanded
  <2>3. val = Commanded'
    BY <2>2 DEF Commanded, CoilBegin, CoilInv, TypeOK
  <2>4. \A c \in Bits : ~(c < 0)
    BY RegMapAssumption DEF Bits
  <2>. QED BY <1>1, <2>2, <2>3, <2>4 DEF CoilProgress, Pins, CoilBegin
<1>7. \A u \in Threads : InCoil(u)' => u = t
  BY <1>1, <1>3 DEF InCoil
<1>. QED BY <1>2, <1>4, <1>5, <1>6, <1>7 DEF CoilInv, CoilsKept

\* The next pin of a coil write.
LEMMA PinStepKeeps ==
  ASSUME CoilInv, TypeOK', NEW t \in Threads, PinStep(t)
  PROVE  CoilInv'
<1>1. th[t] \in PinStates
  BY Shapes DEF PinStep, CoilInv
<1>2. /\ th'[t] = NextPin(th[t])
      /\ \A u \in Threads : u # t => th'[u] = th[u]
  BY OneMoves DEF PinStep, CoilInv
<1>3. CASE th[t].then # "store"
  <2>1. rawDo'
    BY <1>3 DEF PinStep, CoilInv, RawMarked
  <2>2. ~(InCoil(t) \/ InSave(t))'
    BY <1>1, <1>2, <1>3 DEF NextPin, InCoil, InSave, Idle, PinStates
  <2>3. Locked'
    BY <1>2, <2>2, LockKept DEF PinStep
  <2>. QED BY <2>1, <2>3, Raw
<1>4. CASE th[t].then = "store"
  <2>1. InCoil(t)
    BY <1>4 DEF InCoil, PinStep
  <2>2. Locked'
    BY <1>2, <2>1, LockKept DEF PinStep
  <2>3. /\ InCoil(t)' /\ th'[t].val = th[t].val
        /\ th'[t].at \in {"pins", "coilStore"}
        /\ th'[t].at = "pins" => /\ th'[t].then = "store"
                                 /\ th'[t].bit = th[t].bit + 1
        /\ th'[t].at = "coilStore" => ~(th[t].bit + 1 < NBits)
    BY <1>1, <1>2, <1>4 DEF NextPin, InCoil, PinStates
  <2>4. RawMarked'
    BY <1>2, <2>3 DEF PinStep, CoilInv, RawMarked
  <2>5. CoilInProgress'
    BY <2>3 DEF CoilInProgress
  <2>6. \A u \in Threads : InCoil(u)' => u = t
    BY <1>2, <2>1 DEF InCoil, InSave, CoilInv, Locked
  <2>7. ASSUME ~rawDo' PROVE CoilProgress(t)'
    <3>1. ~rawDo /\ CoilProgress(t) /\ Commanded' = Commanded /\ doReg' = doReg
      BY <2>1, <2>7 DEF PinStep, CoilInv, Commanded
    <3>2. th[t].bit \in Int /\ \A b \in Bits : b \in Int
      BY <1>1, RegMapAssumption DEF PinStates, Bits
    <3>3. \A b \in Bits : b \in outs' <=>
            IF b < th[t].bit + 1 THEN b \in Commanded ELSE b \in doReg
      <4>. TAKE b \in Bits
      <4>1. b \in outs' <=> IF b = th[t].bit THEN b \in th[t].val ELSE b \in outs
        BY DEF PinStep, WritesPin
      <4>2. b < th[t].bit + 1 <=> b < th[t].bit \/ b = th[t].bit
        BY <3>2, SMT
      <4>3. b \in outs <=> IF b < th[t].bit THEN b \in Commanded ELSE b \in doReg
        BY <3>1 DEF CoilProgress, PinStep
      <4>4. th[t].val = Commanded /\ ~(th[t].bit < th[t].bit)
        BY <3>1, <3>2 DEF CoilProgress
      <4>. QED BY <4>1, <4>2, <4>3, <4>4
    <3>4. ASSUME th'[t].at = "coilStore" PROVE outs' = Commanded
      <4>1. \A b \in Bits : b < th[t].bit + 1
        BY <2>3, <3>2, <3>4, RegMapAssumption DEF Bits
      <4>2. outs' \subseteq Bits /\ Commanded \subseteq Bits
        BY DEF TypeOK, Commanded
      <4>. QED BY <3>3, <4>1, <4>2
    <3>. QED BY <2>3, <3>1, <3>3, <3>4 DEF CoilProgress
  <2>. QED BY <2>2, <2>4, <2>5, <2>6, <2>7 DEF CoilInv, CoilsKept
<1>. QED BY <1>3, <1>4

\* The end of a coil write.
LEMMA CoilStoreKeeps ==
  ASSUME CoilInv, TypeOK', NEW t \in Threads, CoilStore(t)
  PROVE  CoilInv'
<1>1. th'[t] = Idle /\ \A u \in Threads : u # t => th'[u] = th[u]
  BY OneMoves DEF CoilStore, CoilInv
<1>2. InCoil(t) /\ ~(InCoil(t) \/ InSave(t))'
  BY <1>1 DEF InCoil, InSave, CoilStore, Idle
<1>3. Locked'
  BY <1>1, <1>2, LockReleased
<1>4. RawMarked'
  BY <1>1 DEF CoilStore, CoilInv, RawMarked, Idle
<1>5. \A u \in Threads : ~InCoil(u)'
  BY <1>1, <1>2 DEF InCoil, InSave, CoilInv, Locked
<1>6. CoilsKept'
  <2>. SUFFICES ASSUME ~rawDo' PROVE doReg' = Commanded' /\ outs' = doReg'
    BY DEF CoilsKept, Commanded
  <2>1. CoilProgress(t)
    BY <1>2 DEF CoilStore, CoilInv
  <2>. QED BY <2>1 DEF CoilProgress, CoilStore, Commanded
<1>. QED BY <1>3, <1>4, <1>5, <1>6 DEF CoilInv

\* The Modbus write of the DO register.
LEMMA WriteDoStoreKeeps ==
  ASSUME CoilInv, TypeOK', NEW t \in Threads, WriteDoStore(t)
  PROVE  CoilInv'
<1>1. /\ th'[t] = Pins(th[t].val, "done")
      /\ \A u \in Threads : u # t => th'[u] = th[u]
  BY OneMoves DEF WriteDoStore, CoilInv
<1>2. ~(InCoil(t) \/ InSave(t))'
  BY <1>1 DEF InCoil, InSave, Pins
<1>3. Locked'
  BY <1>1, <1>2, LockKept DEF WriteDoStore
<1>. QED BY <1>3, Raw DEF WriteDoStore

\* The steps outside the outputs.
LEMMA QuietStepKeeps ==
  ASSUME CoilInv, TypeOK', NEW t \in Threads,
         \/ \E val \in DoValues : WriteDo(t, val)
         \/ \E ip \in Ips, saves \in BOOLEAN : SetIp(t, ip, saves)
         \/ \E w \in OctetWrites : WriteOctet(t, w[1], w[2])
         \/ Save(t) \/ FactoryReset(t) \/ SetOctet(t)
  PROVE  CoilInv'
<1>1. /\ UNCHANGED <<mon, doVars, lock>>
      /\ th[t].at \in {"idle", "octet"} /\ th'[t].at \in {"idle", "doStore", "octet", "save"}
      /\ \A u \in Threads : u # t => th'[u] = th[u]
  <2>1. CASE \E val \in DoValues : WriteDo(t, val)
    BY <2>1, OneMoves DEF WriteDo, IsIdle, Idle, CoilInv
  <2>2. CASE \E ip \in Ips, saves \in BOOLEAN : SetIp(t, ip, saves)
    BY <2>2, OneMoves DEF SetIp, IsIdle, Idle, CoilInv
  <2>3. CASE \/ \E w \in OctetWrites : WriteOctet(t, w[1], w[2])
             \/ FactoryReset(t)
    BY <2>3 DEF WriteOctet, FactoryReset, IsIdle, Idle
  <2>4. CASE Save(t)
    BY <2>4, OneMoves DEF Save, IsIdle, Idle, CoilInv
  <2>5. CASE SetOctet(t)
    <3>1. th[t] \in OctetStates
      BY <2>5, Shapes DEF SetOctet, CoilInv
    <3>2. [th[t] EXCEPT !.i = @ + 1].at = "octet"
      BY <3>1 DEF OctetStates
    <3>. DEFINE state ==
           IF th[t].i < NOctets THEN [th[t] EXCEPT !.i = @ + 1]
           ELSE IF th[t].saves THEN [at |-> "save", ip |-> th[t].ip] ELSE Idle
    <3>3. state.at \in {"octet", "save", "idle"}
      BY <3>2 DEF Idle
    <3>4. Goes(t, state)
      BY <2>5 DEF SetOctet
    <3>. HIDE DEF state
    <3>5. th'[t] = state /\ \A u \in Threads : u # t => th'[u] = th[u]
      BY <3>4, OneMoves DEF CoilInv
    <3>. QED BY <2>5, <3>3, <3>5 DEF SetOctet
  <2>. QED BY <2>1, <2>2, <2>3, <2>4, <2>5
<1>2. ~(InCoil(t) \/ InSave(t))'
  BY <1>1 DEF InCoil, InSave
<1>3. Locked'
  BY <1>1, <1>2, LockKept
<1>. QED BY <1>1, <1>3, Quiet

\* The steps of a save, from lock to unlock.
LEMMA SaveStepKeeps ==
  ASSUME CoilInv, TypeOK', NEW t \in Threads,
         SaveBegin(t) \/ SaveChecks(t) \/ SaveCopies(t) \/ SaveStores(t)
  PROVE  CoilInv'
<1>1. CASE SaveBegin(t)
  <2>1. /\ th'[t].at = "first"
        /\ \A u \in Threads : u # t => th'[u] = th[u]
    BY <1>1, OneMoves DEF SaveBegin, CoilInv
  <2>2. Locked'
    BY <1>1, <2>1, LockTaken DEF SaveBegin
  <2>. QED BY <1>1, <2>1, <2>2, Quiet DEF SaveBegin
<1>2. CASE SaveChecks(t) \/ SaveCopies(t)
  <2>1. th[t] \in ExportStates
    BY <1>2, Shapes DEF SaveChecks, SaveCopies, CoilInv
  <2>. DEFINE checked == [th[t] EXCEPT !.at =
                IF th[t].at = "first"
                THEN IF ipReg[1] \notin BadFirst THEN "last" ELSE "store"
                ELSE IF ipReg[NOctets] \notin BadLast THEN "copy" ELSE "store"]
              copied == [th[t] EXCEPT !.cfg[th[t].i] = ipReg[th[t].i],
                              !.i = IF th[t].i < NOctets THEN th[t].i + 1 ELSE 1,
                              !.at = IF th[t].i < NOctets THEN "copy" ELSE "store"]
  <2>2. checked.at \in {"last", "copy", "store"} /\ copied.at \in {"copy", "store"}
    BY <2>1 DEF ExportStates
  <2>3. Goes(t, checked) \/ Goes(t, copied)
    BY <1>2 DEF SaveChecks, SaveCopies
  <2>. HIDE DEF checked, copied
  <2>4. /\ th'[t].at \in {"last", "copy", "store"}
        /\ \A u \in Threads : u # t => th'[u] = th[u]
    BY <2>2, <2>3, OneMoves DEF CoilInv
  <2>5. InSave(t)
    BY <1>2 DEF SaveChecks, SaveCopies, InSave
  <2>6. Locked'
    BY <1>2, <2>4, <2>5, LockKept DEF SaveChecks, SaveCopies
  <2>7. th[t].at \notin {"pins", "coilStore"}
    BY <2>5 DEF InSave
  <2>. QED BY <1>2, <2>4, <2>6, <2>7, Quiet DEF SaveChecks, SaveCopies
<1>3. CASE SaveStores(t)
  <2>1. th'[t] = Idle /\ \A u \in Threads : u # t => th'[u] = th[u]
    BY <1>3, OneMoves DEF SaveStores, CoilInv
  <2>2. InSave(t) /\ ~(InCoil(t) \/ InSave(t))'
    BY <1>3, <2>1 DEF SaveStores, InSave, InCoil, Idle
  <2>3. Locked'
    BY <2>1, <2>2, LockReleased
  <2>4. th[t].at \notin {"pins", "coilStore"} /\ th'[t].at \notin {"pins", "coilStore"}
    BY <2>1, <2>2 DEF InSave, Idle
  <2>. QED BY <1>3, <2>1, <2>3, <2>4, Quiet DEF SaveStores
<1>. QED BY <1>1, <1>2, <1>3

\* The link monitor marks the outputs before it touches them.
LEMMA MonitorKeeps ==
  ASSUME CoilInv, TypeOK', Monitor
  PROVE  CoilInv'
<1>1. th' = th /\ lock' = lock
  BY DEF Monitor, LinkComesUp, LinkGoesDown, MonitorPin
<1>2. Locked'
  BY <1>1 DEF CoilInv, Locked, InCoil, InSave
<1>3. CASE LinkGoesDown \/ MonitorPin
  <2>1. rawDo'
    BY <1>3 DEF LinkGoesDown, MonitorPin, CoilInv, RawMarked
  <2>. QED BY <1>2, <2>1, Raw
<1>4. CASE LinkComesUp
  <2>1. UNCHANGED <<th, mon, doVars>>
    BY <1>4 DEF LinkComesUp
  <2>. QED BY <1>2, <2>1 DEF CoilInv, RawMarked, CoilsKept, CoilInProgress, InCoil,
              CoilProgress, Commanded, doVars
<1>. QED BY <1>3, <1>4 DEF Monitor

\* After a restart everything is off and nothing is under way.
LEMMA RestartKeeps ==
  ASSUME TypeOK', Restart
  PROVE  CoilInv'
<1>1. mon' = Idle /\ \A t \in Threads : th'[t].at = "idle"
  BY DEF Restart, Idle
<1>2. \A t \in Threads : ~InCoil(t)' /\ ~InSave(t)' /\ th'[t].at # "pins"
  BY <1>1 DEF InCoil, InSave
<1>3. Locked' /\ RawMarked'
  BY <1>1, <1>2 DEF Locked, RawMarked
<1>4. CoilsKept'
  BY DEF Restart, CoilsKept
<1>. QED BY <1>2, <1>3, <1>4 DEF CoilInv

\* Every step keeps the invariant.
LEMMA CoilStep == CoilInv /\ [Next]_vars => CoilInv'
<1>. SUFFICES ASSUME CoilInv, [Next]_vars PROVE CoilInv'
  OBVIOUS
<1>1. TypeOK'
  BY TypeStep DEF CoilInv
<1>2. ASSUME NEW t \in Threads, Command(t) PROVE CoilInv'
  BY <1>1, <1>2, CoilBeginKeeps, QuietStepKeeps DEF Command
<1>3. ASSUME NEW t \in Threads, ThreadStep(t) PROVE CoilInv'
  BY <1>1, <1>3, PinStepKeeps, CoilStoreKeeps, WriteDoStoreKeeps, QuietStepKeeps,
     SaveStepKeeps DEF ThreadStep
<1>4. CASE Monitor \/ Restart
  BY <1>1, <1>4, MonitorKeeps, RestartKeeps
<1>5. CASE UNCHANGED vars
  BY <1>1, <1>5 DEF vars, CoilInv, Locked, RawMarked, CoilsKept, CoilInProgress, InCoil,
     InSave, CoilProgress, Commanded
<1>. QED BY <1>2, <1>3, <1>4, <1>5 DEF Next

\* Coil writes of any number of threads lose no bit: io_lock makes the sequence
\* of io_write_do_bit (read, drive the pins, store) one step for the other
\* coil writes, and a save under the same lock does not come between.
THEOREM CoilsSerial == Spec => []CoilsKept
<1>1. CoilInv => CoilsKept
  BY DEF CoilInv
<1>. QED BY <1>1, InitCoil, CoilStep, PTL DEF Spec

-----------------------------------------------------------------------------
(* The address                                                             *)

\* A thread that sets the address and was not disturbed finds its octets.
Setting(t) ==
  th[t].at = "octet" =>
    /\ IpValid(th[t].ip)
    /\ ~disturbed[t] => \A j \in Octets : j < th[t].i => ipReg[j] = th[t].ip[j]

\* One that saves what it set finds all of them, ...
Saving(t) ==
  (th[t].at = "save" \/ InSave(t)) /\ th[t].ip # NoIp =>
    /\ IpValid(th[t].ip)
    /\ ~disturbed[t] => ipReg = th[t].ip

\* ... passes the checks and copies them.
Copying(t) ==
  InSave(t) /\ th[t].ip # NoIp /\ ~disturbed[t] =>
    /\ th[t].at \in {"first", "last"} => th[t].i = 1
    /\ th[t].at = "copy" => \A j \in Octets : j < th[t].i => th[t].cfg[j] = th[t].ip[j]
    /\ th[t].at = "store" => th[t].cfg = th[t].ip

\* A save of anybody that is under way while an answered address stands is
\* about to store that address.
Following(t) == InSave(t) /\ answered # NoIp => th[t].cfg = answered

IpInv ==
  /\ SetIpSurvives
  /\ answered # NoIp => IpValid(answered)
  /\ \A t \in Threads : Setting(t) /\ Saving(t) /\ Copying(t) /\ Following(t)

\* Initially nothing was answered.
LEMMA InitIp == Init => IpInv
<1>. SUFFICES ASSUME Init PROVE IpInv
  OBVIOUS
<1>1. answered = NoIp /\ \A t \in Threads : th[t].at = "idle"
  BY DEF Init, Idle
<1>. QED BY <1>1 DEF IpInv, SetIpSurvives, Setting, Saving, Copying, Following, InSave

\* Steps that leave the address, the store and the history alone, and move one
\* thread to a state in which nothing is claimed.
LEMMA IpQuiet ==
  ASSUME IpInv, NEW t \in Threads, UNCHANGED ipVars,
         \A u \in Threads : u # t => th'[u] = th[u],
         th'[t].at \in {"idle", "pins", "coilStore", "doStore"}
  PROVE  IpInv'
<1>1. SetIpSurvives' /\ (answered # NoIp => IpValid(answered))'
  BY DEF IpInv, SetIpSurvives, ipVars, IpValid
<1>2. ASSUME NEW u \in Threads
      PROVE  (Setting(u) /\ Saving(u) /\ Copying(u) /\ Following(u))'
  <2>1. CASE u = t
    BY <2>1 DEF Setting, Saving, Copying, Following, InSave
  <2>2. CASE u # t
    BY <2>2 DEF IpInv, ipVars, Setting, Saving, Copying, Following, InSave
  <2>. QED BY <2>1, <2>2
<1>. QED BY <1>1, <1>2 DEF IpInv

\* A change of the address: nothing is answered, and everybody else is disturbed.
LEMMA IpDisturbed ==
  ASSUME IpInv, NEW t \in Threads, Disturbs(t),
         \A u \in Threads : u # t => th'[u] = th[u],
         (Setting(t) /\ Saving(t) /\ Copying(t))'
  PROVE  IpInv'
<1>1. answered' = NoIp /\ \A u \in Threads : u # t => disturbed'[u] = TRUE
  BY DEF Disturbs
<1>2. ASSUME NEW u \in Threads, u # t
      PROVE  (Setting(u) /\ Saving(u) /\ Copying(u))'
  BY <1>1, <1>2 DEF IpInv, Setting, Saving, Copying, InSave, IpValid
<1>. QED BY <1>1, <1>2 DEF IpInv, SetIpSurvives, Following

\* The commands.
LEMMA CommandIp ==
  ASSUME TypeOK, IpInv, NEW t \in Threads, Command(t)
  PROVE  IpInv'
<1>1. CASE \/ \E b \in Bits, on \in BOOLEAN : CoilBegin(t, b, on)
           \/ \E val \in DoValues : WriteDo(t, val)
  <2>1. UNCHANGED ipVars
    BY <1>1 DEF CoilBegin, WriteDo
  <2>2. /\ th'[t].at \in {"pins", "doStore"}
        /\ \A u \in Threads : u # t => th'[u] = th[u]
    <3>1. ASSUME NEW b \in Bits, NEW on \in BOOLEAN, CoilBegin(t, b, on)
          PROVE  /\ th'[t].at = "pins"
                 /\ \A u \in Threads : u # t => th'[u] = th[u]
      BY <3>1, OneMoves DEF CoilBegin, Pins
    <3>2. ASSUME NEW val \in DoValues, WriteDo(t, val)
          PROVE  /\ th'[t].at = "doStore"
                 /\ \A u \in Threads : u # t => th'[u] = th[u]
      BY <3>2, OneMoves DEF WriteDo
    <3>. QED BY <1>1, <3>1, <3>2
  <2>. QED BY <2>1, <2>2, IpQuiet
<1>2. ASSUME NEW ip \in Ips, NEW saves \in BOOLEAN, SetIp(t, ip, saves) PROVE IpInv'
  <2>1. /\ th'[t] = [at |-> "octet", i |-> 1, ip |-> ip, saves |-> saves]
        /\ \A u \in Threads : u # t => th'[u] = th[u]
    BY <1>2, OneMoves DEF SetIp
  <2>2. UNCHANGED <<ipReg, stored, answered>>
        /\ \A u \in Threads : u # t => disturbed'[u] = disturbed[u]
    BY <1>2 DEF SetIp, TypeOK
  <2>3. SetIpSurvives' /\ (answered # NoIp => IpValid(answered))'
    BY <2>2 DEF IpInv, SetIpSurvives, IpValid
  <2>4. (Setting(t) /\ Saving(t) /\ Copying(t) /\ Following(t))'
    <3>1. \A j \in Octets : ~(j < 1)
      BY DEF Octets
    <3>. QED BY <1>2, <2>1, <3>1
             DEF SetIp, Setting, Saving, Copying, Following, InSave, IpValid
  <2>5. ASSUME NEW u \in Threads, u # t
        PROVE  (Setting(u) /\ Saving(u) /\ Copying(u) /\ Following(u))'
    BY <2>1, <2>2, <2>5 DEF IpInv, Setting, Saving, Copying, Following, InSave, IpValid
  <2>. QED BY <2>3, <2>4, <2>5 DEF IpInv
<1>3. ASSUME NEW w \in OctetWrites, WriteOctet(t, w[1], w[2]) PROVE IpInv'
  BY <1>3, IpDisturbed DEF WriteOctet, IsIdle, Idle, Setting, Saving, Copying, InSave
<1>4. CASE FactoryReset(t)
  BY <1>4, IpDisturbed DEF FactoryReset, IsIdle, Idle, Setting, Saving, Copying, InSave
<1>5. CASE Save(t)
  <2>1. /\ th'[t] = [at |-> "save", ip |-> NoIp]
        /\ \A u \in Threads : u # t => th'[u] = th[u]
    BY <1>5, OneMoves DEF Save
  <2>2. UNCHANGED ipVars
    BY <1>5 DEF Save
  <2>3. SetIpSurvives' /\ (answered # NoIp => IpValid(answered))'
    BY <2>2 DEF IpInv, SetIpSurvives, ipVars, IpValid
  <2>4. (Setting(t) /\ Saving(t) /\ Copying(t) /\ Following(t))'
    BY <2>1 DEF Setting, Saving, Copying, Following, InSave
  <2>5. ASSUME NEW u \in Threads, u # t
        PROVE  (Setting(u) /\ Saving(u) /\ Copying(u) /\ Following(u))'
    BY <2>1, <2>2, <2>5 DEF IpInv, ipVars, Setting, Saving, Copying, Following, InSave
  <2>. QED BY <2>3, <2>4, <2>5 DEF IpInv
<1>. QED BY <1>1, <1>2, <1>3, <1>4, <1>5 DEF Command

\* Writing the outputs.
LEMMA OutputsIp ==
  ASSUME TypeOK, IpInv, NEW t \in Threads, PinStep(t) \/ CoilStore(t) \/ WriteDoStore(t)
  PROVE  IpInv'
<1>1. UNCHANGED ipVars
  BY DEF PinStep, CoilStore, WriteDoStore
<1>2. CASE PinStep(t)
  <2>1. th[t] \in PinStates
    BY <1>2, Shapes DEF PinStep
  <2>2. NextPin(th[t]).at \in {"pins", "coilStore", "idle"}
    BY <2>1 DEF NextPin, Idle, PinStates
  <2>3. /\ th'[t] = NextPin(th[t])
        /\ \A u \in Threads : u # t => th'[u] = th[u]
    BY <1>2, OneMoves DEF PinStep
  <2>. QED BY <1>1, <2>2, <2>3, IpQuiet
<1>3. CASE CoilStore(t) \/ WriteDoStore(t)
  <2>1. /\ th'[t].at \in {"idle", "pins"}
        /\ \A u \in Threads : u # t => th'[u] = th[u]
    <3>1. ASSUME CoilStore(t)
          PROVE  th'[t] = Idle /\ \A u \in Threads : u # t => th'[u] = th[u]
      BY <3>1, OneMoves DEF CoilStore
    <3>2. ASSUME WriteDoStore(t)
          PROVE  /\ th'[t] = Pins(th[t].val, "done")
                 /\ \A u \in Threads : u # t => th'[u] = th[u]
      BY <3>2, OneMoves DEF WriteDoStore
    <3>. QED BY <1>3, <3>1, <3>2 DEF Idle, Pins
  <2>. QED BY <1>1, <2>1, IpQuiet
<1>. QED BY <1>2, <1>3

\* Writing the octets of an address.
LEMMA SetOctetIp ==
  ASSUME TypeOK, IpInv, NEW t \in Threads, SetOctet(t)
  PROVE  IpInv'
<1>. DEFINE i == th[t].i
            state == IF i < NOctets THEN [th[t] EXCEPT !.i = @ + 1]
                     ELSE IF th[t].saves THEN [at |-> "save", ip |-> th[t].ip] ELSE Idle
<1>1. th[t] \in OctetStates /\ th[t].at = "octet"
  BY Shapes DEF SetOctet
<1>2. i \in Octets /\ th[t].ip \in Address /\ ipReg \in Address
  BY <1>1 DEF OctetStates, TypeOK
<1>3. Goes(t, state)
  BY DEF SetOctet
<1>4. th'[t] = state /\ \A u \in Threads : u # t => th'[u] = th[u]
  <2>. HIDE DEF state
  <2>. QED BY <1>3, OneMoves
<1>5. IpValid(th[t].ip) /\ (~disturbed[t] => \A j \in Octets : j < i => ipReg[j] = th[t].ip[j])
  BY <1>1 DEF IpInv, Setting
<1>6. ipReg' = [ipReg EXCEPT ![i] = th[t].ip[i]] /\ disturbed'[t] = disturbed[t]
  BY DEF SetOctet, Disturbs, TypeOK
<1>7. ~disturbed'[t] => \A j \in Octets : j < i + 1 => ipReg'[j] = th[t].ip[j]
  <2>. SUFFICES ASSUME ~disturbed[t], NEW j \in Octets, j < i + 1
                PROVE  ipReg'[j] = th[t].ip[j]
    BY <1>6
  <2>1. j < i \/ j = i
    BY <1>2 DEF Octets
  <2>. QED BY <1>2, <1>5, <1>6, <2>1 DEF Address
<1>8. (Setting(t) /\ Saving(t) /\ Copying(t))'
  <2>1. CASE i < NOctets
    <3>1. /\ th'[t].at = "octet" /\ th'[t].ip = th[t].ip /\ th'[t].i = i + 1
      BY <1>1, <1>4, <2>1 DEF OctetStates
    <3>. QED BY <1>5, <1>7, <3>1 DEF Setting, Saving, Copying, InSave, IpValid
  <2>2. CASE ~(i < NOctets) /\ th[t].saves
    <3>1. th'[t] = [at |-> "save", ip |-> th[t].ip]
      BY <1>4, <2>2
    <3>2. \A j \in Octets : j < i + 1
      BY <1>2, <2>2, RegMapAssumption DEF Octets
    <3>3. ~disturbed'[t] => ipReg' = th[t].ip
      BY <1>2, <1>6, <1>7, <3>2 DEF Address
    <3>. QED BY <1>5, <3>1, <3>3 DEF Setting, Saving, Copying, InSave, IpValid
  <2>3. CASE ~(i < NOctets) /\ ~th[t].saves
    <3>1. th'[t].at = "idle"
      BY <1>4, <2>3 DEF Idle
    <3>. QED BY <3>1 DEF Setting, Saving, Copying, InSave
  <2>. QED BY <2>1, <2>2, <2>3
<1>9. Disturbs(t)
  BY DEF SetOctet
<1>. QED BY <1>4, <1>8, <1>9, IpDisturbed

\* Steps of a save before it stores.
LEMMA ExportIp ==
  ASSUME TypeOK, IpInv, NEW t \in Threads,
         SaveBegin(t) \/ SaveChecks(t) \/ SaveCopies(t)
  PROVE  IpInv'
<1>1. UNCHANGED ipVars
  BY DEF SaveBegin, SaveChecks, SaveCopies
<1>2. SetIpSurvives' /\ (answered # NoIp => IpValid(answered))'
  BY <1>1 DEF IpInv, SetIpSurvives, ipVars, IpValid
<1>3. (Setting(t) /\ Saving(t) /\ Copying(t) /\ Following(t))'
      /\ \A u \in Threads : u # t => th'[u] = th[u]
  <2>1. CASE SaveBegin(t)
    <3>1. /\ th'[t] = [at |-> "first", ip |-> th[t].ip, cfg |-> stored, i |-> 1]
          /\ \A u \in Threads : u # t => th'[u] = th[u]
      BY <2>1, OneMoves DEF SaveBegin
    <3>2. Saving(t) /\ th[t].at = "save"
      BY <2>1 DEF IpInv, SaveBegin
    <3>. QED BY <1>1, <3>1, <3>2
             DEF IpInv, SetIpSurvives, ipVars, Setting, Saving, Copying, Following, InSave,
                 IpValid
  <2>2. CASE SaveChecks(t)
    <3>. DEFINE to == IF th[t].at = "first"
                      THEN IF ipReg[1] \notin BadFirst THEN "last" ELSE "store"
                      ELSE IF ipReg[NOctets] \notin BadLast THEN "copy" ELSE "store"
    <3>1. th[t] \in ExportStates /\ InSave(t) /\ th[t].at \in {"first", "last"}
      BY <2>2, Shapes DEF SaveChecks, InSave
    <3>2. /\ th'[t] = [th[t] EXCEPT !.at = to]
          /\ \A u \in Threads : u # t => th'[u] = th[u]
      BY <2>2, OneMoves DEF SaveChecks
    <3>3. /\ th'[t].at = to /\ th'[t].ip = th[t].ip /\ th'[t].cfg = th[t].cfg
          /\ th'[t].i = th[t].i
      BY <3>1, <3>2 DEF ExportStates
    <3>4. th[t].ip # NoIp /\ ~disturbed[t] => to \in {"last", "copy"} /\ th[t].i = 1
      BY <3>1 DEF IpInv, Saving, Copying, IpValid
    <3>5. Setting(t)' /\ Saving(t)' /\ Following(t)'
      BY <1>1, <3>1, <3>3
         DEF IpInv, ipVars, Setting, Saving, Following, InSave, IpValid
    <3>6. \A j \in Octets : ~(j < 1)
      BY DEF Octets
    <3>7. Copying(t)'
      BY <1>1, <3>3, <3>4, <3>6 DEF ipVars, Copying
    <3>. QED BY <3>2, <3>5, <3>7
  <2>3. CASE SaveCopies(t)
    <3>. DEFINE i == th[t].i
                state == [th[t] EXCEPT !.cfg[i] = ipReg[i],
                                       !.i = IF i < NOctets THEN i + 1 ELSE 1,
                                       !.at = IF i < NOctets THEN "copy" ELSE "store"]
    <3>1. th[t] \in ExportStates /\ InSave(t) /\ th[t].at = "copy"
      BY <2>3, Shapes DEF SaveCopies, InSave
    <3>2. Goes(t, state)
      BY <2>3 DEF SaveCopies
    <3>3. th'[t] = state /\ \A u \in Threads : u # t => th'[u] = th[u]
      <4>. HIDE DEF state
      <4>. QED BY <3>2, OneMoves
    <3>4. /\ th'[t].ip = th[t].ip /\ th'[t].cfg = [th[t].cfg EXCEPT ![i] = ipReg[i]]
          /\ i < NOctets => th'[t].at = "copy" /\ th'[t].i = i + 1
          /\ ~(i < NOctets) => th'[t].at = "store"
      BY <3>1, <3>3 DEF ExportStates
    <3>5. /\ i \in Octets /\ th[t].cfg \in Address /\ ipReg \in Address
          /\ th[t].ip \in Address \cup {NoIp}
      BY <3>1 DEF ExportStates, TypeOK
    <3>6. InSave(t)' /\ th'[t].at \in {"copy", "store"}
      BY <3>4 DEF InSave
    <3>7. Setting(t)' /\ Saving(t)'
      BY <1>1, <3>1, <3>4, <3>6 DEF IpInv, ipVars, Setting, Saving, IpValid
    <3>8. Following(t)'
      <4>. SUFFICES ASSUME answered # NoIp PROVE th'[t].cfg = answered
        BY <1>1 DEF Following, ipVars
      <4>1. th[t].cfg = answered /\ ipReg = answered
        BY <3>1 DEF IpInv, Following, SetIpSurvives
      <4>. QED BY <3>4, <3>5, <4>1 DEF Address
    <3>9. Copying(t)'
      <4>. SUFFICES ASSUME th[t].ip # NoIp, ~disturbed[t]
                    PROVE  /\ i < NOctets => \A j \in Octets : j < i + 1 =>
                                               th'[t].cfg[j] = th[t].ip[j]
                           /\ ~(i < NOctets) => th'[t].cfg = th[t].ip
        BY <1>1, <3>4 DEF Copying, ipVars
      <4>1. /\ ipReg = th[t].ip
            /\ \A j \in Octets : j < i => th[t].cfg[j] = th[t].ip[j]
        BY <3>1 DEF IpInv, Saving, Copying
      <4>2. \A j \in Octets : j < i + 1 => th'[t].cfg[j] = th[t].ip[j]
        <5>. SUFFICES ASSUME NEW j \in Octets, j < i + 1 PROVE th'[t].cfg[j] = th[t].ip[j]
          OBVIOUS
        <5>1. j < i \/ j = i
          BY <3>5 DEF Octets
        <5>. QED BY <3>4, <3>5, <4>1, <5>1 DEF Address
      <4>3. ASSUME ~(i < NOctets) PROVE th'[t].cfg = th[t].ip
        <5>1. \A j \in Octets : j < i + 1
          BY <3>5, <4>3, RegMapAssumption DEF Octets
        <5>. QED BY <3>4, <3>5, <4>1, <4>2, <5>1 DEF Address
      <4>. QED BY <4>2, <4>3
    <3>. QED BY <3>3, <3>7, <3>8, <3>9
  <2>. QED BY <2>1, <2>2, <2>3
<1>4. ASSUME NEW u \in Threads, u # t
      PROVE  (Setting(u) /\ Saving(u) /\ Copying(u) /\ Following(u))'
  BY <1>1, <1>3, <1>4 DEF IpInv, ipVars, Setting, Saving, Copying, Following, InSave
<1>. QED BY <1>2, <1>3, <1>4 DEF IpInv

\* The end of a save.  The lock excludes that another save is under way.
LEMMA SaveStoresIp ==
  ASSUME TypeOK, Locked, IpInv, NEW t \in Threads, SaveStores(t)
  PROVE  IpInv'
<1>1. th'[t] = Idle /\ \A u \in Threads : u # t => th'[u] = th[u]
  BY OneMoves DEF SaveStores
<1>2. InSave(t) /\ th[t].at = "store" /\ ipReg' = ipReg /\ disturbed' = disturbed
  BY DEF SaveStores, InSave
<1>3. \A u \in Threads : u # t => ~InSave(u)
  BY <1>2 DEF Locked
<1>4. ASSUME NEW u \in Threads
      PROVE  (Setting(u) /\ Saving(u) /\ Copying(u) /\ Following(u))'
  <2>1. CASE u = t
    BY <1>1, <2>1 DEF Setting, Saving, Copying, Following, InSave, Idle
  <2>2. CASE u # t
    BY <1>1, <1>2, <1>3, <2>2
       DEF IpInv, Setting, Saving, Copying, Following, InSave, IpValid
  <2>. QED BY <2>1, <2>2
<1>5. SetIpSurvives' /\ (answered # NoIp => IpValid(answered))'
  <2>1. CASE UNCHANGED <<stored, answered>>
    BY <1>2, <2>1 DEF IpInv, SetIpSurvives, IpValid
  <2>2. CASE stored' = th[t].cfg /\ th[t].ip # NoIp /\ ~disturbed[t] /\ answered' = th[t].ip
    <3>1. th[t].cfg = th[t].ip /\ ipReg = th[t].ip /\ IpValid(th[t].ip)
      BY <1>2, <2>2 DEF IpInv, Saving, Copying
    <3>. QED BY <1>2, <2>2, <3>1 DEF SetIpSurvives, IpValid
  <2>3. CASE stored' = th[t].cfg /\ answered' = answered
    <3>1. answered # NoIp => th[t].cfg = answered
      BY <1>2 DEF IpInv, Following
    <3>. QED BY <1>2, <2>3, <3>1 DEF IpInv, SetIpSurvives, IpValid
  <2>. QED BY <2>1, <2>2, <2>3 DEF SaveStores
<1>. QED BY <1>4, <1>5 DEF IpInv

\* The link monitor, the restart, and a stuttering step.
LEMMA OtherIp ==
  ASSUME IpInv, Monitor \/ Restart \/ UNCHANGED vars
  PROVE  IpInv'
<1>1. CASE Monitor \/ UNCHANGED vars
  <2>1. UNCHANGED <<th, ipVars>>
    BY <1>1 DEF Monitor, LinkComesUp, LinkGoesDown, MonitorPin, vars, ipVars
  <2>2. SetIpSurvives' /\ (answered # NoIp => IpValid(answered))'
    BY <2>1 DEF IpInv, SetIpSurvives, ipVars, IpValid
  <2>3. ASSUME NEW u \in Threads
        PROVE  (Setting(u) /\ Saving(u) /\ Copying(u) /\ Following(u))'
    BY <2>1 DEF IpInv, ipVars, Setting, Saving, Copying, Following, InSave
  <2>. QED BY <2>2, <2>3 DEF IpInv
<1>2. CASE Restart
  <2>1. \A t \in Threads : th'[t].at = "idle"
    BY <1>2 DEF Restart, Idle
  <2>2. UNCHANGED <<stored, answered>> /\ ipReg' = Loaded
    BY <1>2 DEF Restart
  <2>3. SetIpSurvives' /\ (answered # NoIp => IpValid(answered))'
    BY <2>2 DEF IpInv, SetIpSurvives, IpValid, Loaded
  <2>. QED BY <2>1, <2>3 DEF IpInv, Setting, Saving, Copying, Following, InSave
<1>. QED BY <1>1, <1>2

\* Every step keeps the invariant.
LEMMA IpStep == CoilInv /\ IpInv /\ [Next]_vars => IpInv'
<1>. SUFFICES ASSUME CoilInv, IpInv, [Next]_vars PROVE IpInv'
  OBVIOUS
<1>1. TypeOK /\ Locked
  BY DEF CoilInv
<1>2. ASSUME NEW t \in Threads, ThreadStep(t) PROVE IpInv'
  BY <1>1, <1>2, OutputsIp, SetOctetIp, ExportIp, SaveStoresIp DEF ThreadStep
<1>. QED BY <1>1, <1>2, CommandIp, OtherIp DEF Next

\* An address that was set and saved without anybody else changing it survives:
\* in the store and in the registers, whatever saves of other threads end after
\* it, through power losses at any time, until somebody changes it.  Saves are
\* serial under io_lock, and the checks on export and on load let through what
\* the check of the command let through.
THEOREM AddressSurvives == Spec => []SetIpSurvives
<1>1. Init => CoilInv /\ IpInv
  BY InitCoil, InitIp
<1>2. CoilInv /\ IpInv /\ [Next]_vars => (CoilInv /\ IpInv)'
  BY CoilStep, IpStep
<1>3. IpInv => SetIpSurvives
  BY DEF IpInv
<1>. QED BY <1>1, <1>2, <1>3, PTL DEF Spec

=============================================================================
