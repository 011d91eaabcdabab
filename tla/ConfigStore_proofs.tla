------------------------- MODULE ConfigStore_proofs -------------------------
(***************************************************************************)
(* Proofs about the configuration store, for every set of configurations   *)
(* and every number of saves.                                              *)
(***************************************************************************)
EXTENDS ConfigStore, TLAPS

Gen == 1 .. MaxGen

-----------------------------------------------------------------------------
(* Type correctness, whatever the environment does                         *)

\* Flash operations of a save, complete or not, turn records into records.
LEMMA RecordTypes ==
  ASSUME NEW r \in Records, NEW gen \in Gen, NEW cfg \in Config
  PROVE  /\ BlankRec \in Records /\ TornRec \in Records
         /\ HdrOutcomes(r, gen) \subseteq Records
         /\ BodyOutcomes(r, cfg) \subseteq Records
         /\ CrcOutcomes(r, gen, cfg) \subseteq Records
<1>1. BlankRec \in Records /\ TornRec \in Records
  BY DEF BlankRec, TornRec, Records
<1>2. /\ ProgramHdr(r, gen) \in Records
      /\ [r EXCEPT !.hdr = Torn] \in Records
  BY DEF ProgramHdr, Program, Records, Gen
<1>3. /\ ProgramBody(r, cfg) \in Records
      /\ [r EXCEPT !.body = Torn] \in Records
  BY DEF ProgramBody, Program, Records
<1>4. /\ ProgramCrc(r, gen, cfg) \in Records
      /\ [r EXCEPT !.crc = <<Torn, Torn>>] \in Records
  BY DEF ProgramCrc, Program, Records, Gen
<1>. QED BY <1>1, <1>2, <1>3, <1>4 DEF HdrOutcomes, BodyOutcomes, CrcOutcomes

\* The operation of a save leaves a record, whether it completes or not.
LEMMA OutcomeTypes ==
  ASSUME TypeOK, saver # SaverIdle
  PROVE  /\ saver.tgt \in Slots /\ saver.cfg \in Config
         /\ saver.at # "gen" => saver.gen \in Gen
         /\ slots[saver.tgt] \in Records
         /\ SaveOutcomes \subseteq Records
<1>1. /\ saver.tgt \in Slots /\ saver.cfg \in Config /\ slots[saver.tgt] \in Records
      /\ saver.at # "gen" => saver.gen \in Gen
  BY DEF TypeOK, SaverStates, Gen
<1>. DEFINE r == slots[saver.tgt]
<1>2. CASE saver.at = "gen"
  BY <1>1, <1>2 DEF SaveOutcomes
<1>3. CASE saver.at # "gen"
  <2>1. /\ EraseOutcomes(r) \subseteq Records
        /\ HdrOutcomes(r, saver.gen) \subseteq Records
        /\ BodyOutcomes(r, saver.cfg) \subseteq Records
        /\ CrcOutcomes(r, saver.gen, saver.cfg) \subseteq Records
    BY <1>1, <1>3, RecordTypes DEF EraseOutcomes
  <2>. QED BY <1>1, <2>1 DEF SaveOutcomes
<1>. QED BY <1>1, <1>2, <1>3

\* A saver that is at one of its operations is not idle.
LEMMA Busy ==
  ASSUME TypeOK, saver.at \in {"gen", "erase", "hdr", "body", "crc", "cur", "cur_gen", "cur_slot"}
  PROVE  saver # SaverIdle
BY DEF SaverIdle

\* config_store_init sets the RAM state to a loaded record or the defaults.
LEMMA BootType == TypeOK /\ (Boot \/ BootReadFails) => TypeOK'
<1>. SUFFICES ASSUME TypeOK, Boot \/ BootReadFails PROVE TypeOK'
  OBVIOUS
<1>1. CASE Boot
  <2>1. Newest \in Slots \cup {NoSlot}
    BY DEF Newest, Slots
  <2>2. Newest # NoSlot => Valid(slots[Newest]) /\ slots[Newest] \in Records
    BY DEF Newest, TypeOK, Slots, NoSlot
  <2>3. cur' \in Config
    BY <1>1, <2>2, ConfigStoreAssumption DEF Boot, Loads, Valid
  <2>4. curGen' \in 0 .. MaxGen
    <3>1. CASE Newest = NoSlot
      BY <1>1, <3>1, ConfigStoreAssumption DEF Boot
    <3>2. CASE Newest # NoSlot
      <4>1. slots[Newest].hdr \in 1 .. MaxGen
        BY <2>2, <3>2, ConfigStoreAssumption DEF Valid, Records
      <4>. QED BY <1>1, <3>2, <4>1, ConfigStoreAssumption DEF Boot
    <3>. QED BY <3>1, <3>2
  <2>. QED BY <1>1, <2>1, <2>3, <2>4 DEF Boot, TypeOK
<1>2. CASE BootReadFails
  BY <1>2, ConfigStoreAssumption DEF BootReadFails, TypeOK
<1>. QED BY <1>1, <1>2

\* Every step of config_store_save keeps the types.
LEMMA SaveType ==
  ASSUME TypeOK,
         \/ \E cfg \in Config : SaveStart(cfg)
         \/ SaveGen \/ SaveErase \/ SaveHdr \/ SaveBody \/ SaveCrc
         \/ SaveCur \/ SaveCurGen \/ SaveCurSlot \/ SaveFails
  PROVE  TypeOK'
<1>1. ASSUME NEW cfg \in Config, SaveStart(cfg) PROVE TypeOK'
  <2>1. saver' \in SaverStates
    BY <1>1 DEF SaveStart, SaverStates, Slots, Target, Other
  <2>. QED BY <1>1, <2>1 DEF SaveStart, TypeOK, ram
<1>a. CASE SaveGen
  <2>1. curGen + 1 \in 1 .. MaxGen
    BY <1>a, ConfigStoreAssumption DEF SaveGen, TypeOK
  <2>2. saver # SaverIdle
    BY <1>a, Busy DEF SaveGen
  <2>3. saver' \in SaverStates
    BY <1>a, <2>1, <2>2 DEF SaveGen, SaverStates, TypeOK
  <2>. QED BY <1>a, <2>3 DEF SaveGen, TypeOK, ram
<1>2. ASSUME NEW at \in {"erase", "hdr", "body", "crc"}, NEW rec \in Records,
             NEW next \in {"hdr", "body", "crc", "cur"}, SaverWrites(at, rec, next)
      PROVE  TypeOK'
  <2>1. saver # SaverIdle
    BY <1>2, Busy DEF SaverWrites
  <2>2. saver' \in SaverStates
    BY <1>2, <2>1 DEF SaverWrites, TypeOK, SaverStates
  <2>3. slots' \in [Slots -> Records]
    BY <1>2 DEF SaverWrites, TypeOK
  <2>. QED BY <1>2, <2>2, <2>3 DEF SaverWrites, TypeOK, ram
<1>3. CASE SaveErase
  BY <1>2, <1>3, RecordTypes, OutcomeTypes, Busy DEF SaveErase, SaverWrites
<1>4. CASE SaveHdr
  <2>1. saver # SaverIdle /\ saver.at # "gen"
    BY <1>4, Busy DEF SaveHdr, SaverWrites
  <2>2. ProgramHdr(slots[saver.tgt], saver.gen) \in Records
    BY <2>1, OutcomeTypes, RecordTypes DEF HdrOutcomes
  <2>. QED BY <1>2, <1>4, <2>2 DEF SaveHdr
<1>5. CASE SaveBody
  <2>1. saver # SaverIdle /\ saver.at # "gen"
    BY <1>5, Busy DEF SaveBody, SaverWrites
  <2>2. ProgramBody(slots[saver.tgt], saver.cfg) \in Records
    BY <2>1, OutcomeTypes, RecordTypes DEF BodyOutcomes
  <2>. QED BY <1>2, <1>5, <2>2 DEF SaveBody
<1>6. CASE SaveCrc
  <2>1. saver # SaverIdle /\ saver.at # "gen"
    BY <1>6, Busy DEF SaveCrc, SaverWrites
  <2>2. ProgramCrc(slots[saver.tgt], saver.gen, saver.cfg) \in Records
    BY <2>1, OutcomeTypes, RecordTypes DEF CrcOutcomes
  <2>. QED BY <1>2, <1>6, <2>2 DEF SaveCrc
<1>7. CASE SaveCur \/ SaveCurGen
  <2>1. saver # SaverIdle
    BY <1>7, Busy DEF SaveCur, SaveCurGen
  <2>2. saver.gen \in 0 .. MaxGen /\ saver.cfg \in Config
    BY <1>7, <2>1, OutcomeTypes, ConfigStoreAssumption DEF Gen, SaveCur, SaveCurGen
  <2>3. saver' \in SaverStates
    BY <1>7, <2>1 DEF SaveCur, SaveCurGen, SaverStates, TypeOK
  <2>. QED BY <1>7, <2>2, <2>3 DEF SaveCur, SaveCurGen, TypeOK
<1>b. CASE SaveCurSlot
  <2>1. saver # SaverIdle
    BY <1>b, Busy DEF SaveCurSlot
  <2>2. saver.tgt \in Slots
    BY <2>1, OutcomeTypes
  <2>. QED BY <1>b, <2>2 DEF SaveCurSlot, TypeOK, SaverStates
<1>8. CASE SaveFails
  <2>1. saver # SaverIdle
    BY <1>8, Busy DEF SaveFails
  <2>2. slots' \in [Slots -> Records]
    BY <1>8, <2>1, OutcomeTypes DEF SaveFails, TypeOK
  <2>. QED BY <1>8, <2>2 DEF SaveFails, TypeOK, SaverStates, ram
<1>. QED BY <1>1, <1>a, <1>3, <1>4, <1>5, <1>6, <1>7, <1>b, <1>8

\* Every step of config_store_erase_all, and a power loss, keep the types.
LEMMA ResetType ==
  ASSUME TypeOK,
         \/ ResetStart \/ ResetEraseA \/ ResetEraseB \/ ResetCur \/ ResetCurGen \/ ResetCurSlot
         \/ PowerLoss
  PROVE  TypeOK'
<1>0. BlankRec \in Records /\ TornRec \in Records
  BY DEF BlankRec, TornRec, Records
<1>1. CASE ResetStart
  BY <1>1, ConfigStoreAssumption DEF ResetStart, TypeOK, ram
<1>2. ASSUME NEW s \in Slots, NEW next \in {"B", "cur"}, ResetErases(s, next) PROVE TypeOK'
  <2>1. slots' \in [Slots -> Records]
    BY <1>0, <1>2 DEF ResetErases, EraseOutcomes, TypeOK
  <2>. QED BY <1>2, <2>1 DEF ResetErases, TypeOK, ram
<1>3. CASE ResetCur \/ ResetCurGen \/ ResetCurSlot
  BY <1>3, ConfigStoreAssumption DEF ResetCur, ResetCurGen, ResetCurSlot, TypeOK
<1>4. CASE PowerLoss
  <2>1. slots' \in [Slots -> Records]
    BY <1>0, <1>4, OutcomeTypes DEF PowerLoss, EraseOutcomes, TypeOK
  <2>. QED BY <1>4, <2>1 DEF PowerLoss, TypeOK, ram, SaverStates
<1>. QED BY <1>1, <1>2, <1>3, <1>4 DEF ResetEraseA, ResetEraseB, Slots

\* No step leaves the types.
LEMMA TypeStep == TypeOK /\ [Next]_vars => TypeOK'
<1>. SUFFICES ASSUME TypeOK, [Next]_vars PROVE TypeOK'
  OBVIOUS
<1>1. CASE UNCHANGED vars
  BY <1>1 DEF TypeOK, vars
<1>2. CASE Next
  BY <1>2, BootType, SaveType, ResetType DEF Next
<1>. QED BY <1>1, <1>2

\* An unconfigured device is of the right type.
LEMMA InitType == Init => TypeOK
<1>. SUFFICES ASSUME Init PROVE TypeOK
  OBVIOUS
<1>1. BlankRec \in Records /\ TornRec \in Records
  BY DEF BlankRec, TornRec, Records
<1>2. slots \in [Slots -> Records]
  BY <1>1 DEF Init
<1>3. curGen \in 0 .. MaxGen
  BY ConfigStoreAssumption DEF Init
<1>4. saver \in SaverStates
  BY DEF Init, SaverStates
<1>5. /\ up \in BOOLEAN /\ cur \in Config /\ acked \in Config /\ tried \subseteq Config
      /\ curSlot \in Slots \cup {NoSlot} /\ reset \in {ResetIdle, "A", "B", "cur", "cur_gen", "cur_slot"}
  BY ConfigStoreAssumption DEF Init
<1>. QED BY <1>2, <1>3, <1>4, <1>5 DEF TypeOK

\* Whatever fails, is interrupted or overlaps, the store keeps its state within
\* its type; in particular a boot never loads a torn configuration.
THEOREM TypeCorrect == Spec => []TypeOK
BY InitType, TypeStep, PTL DEF Spec

-----------------------------------------------------------------------------
(* Generations, if no save overlaps a factory reset: slot A only ever gets *)
(* odd ones and slot B even ones, since a save adds one and changes the    *)
(* slot, and "no slot" counts as zero.                                     *)

GenOf(s, gen) == gen % 2 = IF s = "A" THEN 1 ELSE 0

NoRace == "reset_race" \notin env

\* A save and a reset, and a device without power, exclude each other.
Alone ==
  /\ reset # ResetIdle => saver = SaverIdle
  /\ ~up => saver = SaverIdle /\ reset = ResetIdle

SaverParity ==
  saver # SaverIdle =>
    /\ saver.at = "gen" => saver.tgt = Target
    /\ saver.at # "gen" => GenOf(saver.tgt, saver.gen)
    /\ saver.at = "cur_slot" => curGen = saver.gen

Parity ==
  /\ Alone /\ SaverParity
  /\ up /\ ~SaveStores /\ ~ResetStores =>
       /\ curSlot = NoSlot => curGen = 0
       /\ curSlot \in Slots => GenOf(curSlot, curGen)
  /\ reset = "cur_slot" => curGen = 0
  /\ \A s \in Slots : slots[s].hdr \in Nat => GenOf(s, slots[s].hdr)

\* A write of a save leaves in its slot no generation or the save's own.
LEMMA HdrOfOutcome ==
  ASSUME TypeOK, saver # SaverIdle, saver.at # "gen",
         NEW r \in SaveOutcomes \cup {BlankRec}
                  \cup {ProgramHdr(slots[saver.tgt], saver.gen),
                        ProgramBody(slots[saver.tgt], saver.cfg),
                        ProgramCrc(slots[saver.tgt], saver.gen, saver.cfg)}
  PROVE  r.hdr \notin Nat \/ r.hdr = slots[saver.tgt].hdr \/ r.hdr = saver.gen
<1>. DEFINE q == slots[saver.tgt]
<1>1. q \in Records
  BY OutcomeTypes
<1>2. BlankRec.hdr \notin Nat /\ TornRec.hdr \notin Nat
  BY ConfigStoreAssumption DEF BlankRec, TornRec
<1>3. /\ ProgramHdr(q, saver.gen).hdr \in {saver.gen, Torn}
      /\ [q EXCEPT !.hdr = Torn].hdr = Torn
  BY <1>1 DEF ProgramHdr, Program, Records
<1>4. /\ ProgramBody(q, saver.cfg).hdr = q.hdr
      /\ [q EXCEPT !.body = Torn].hdr = q.hdr
  BY <1>1 DEF ProgramBody, Records
<1>5. /\ ProgramCrc(q, saver.gen, saver.cfg).hdr = q.hdr
      /\ [q EXCEPT !.crc = <<Torn, Torn>>].hdr = q.hdr
  BY <1>1 DEF ProgramCrc, Records
<1>6. r \in {q, BlankRec, TornRec, ProgramHdr(q, saver.gen), [q EXCEPT !.hdr = Torn],
             ProgramBody(q, saver.cfg), [q EXCEPT !.body = Torn],
             ProgramCrc(q, saver.gen, saver.cfg), [q EXCEPT !.crc = <<Torn, Torn>>]}
  BY DEF SaveOutcomes, EraseOutcomes, HdrOutcomes, BodyOutcomes, CrcOutcomes
<1>. QED BY <1>2, <1>3, <1>4, <1>5, <1>6, ConfigStoreAssumption

\* A step that leaves such a record in the slot of the save keeps the parity.
LEMMA ParityOfSlots ==
  ASSUME TypeOK, Parity, saver # SaverIdle, saver.at # "gen",
         NEW r, r.hdr \notin Nat \/ r.hdr = slots[saver.tgt].hdr \/ r.hdr = saver.gen,
         slots' = [slots EXCEPT ![saver.tgt] = r]
  PROVE  \A s \in Slots : slots'[s].hdr \in Nat => GenOf(s, slots'[s].hdr)
BY OutcomeTypes DEF Parity, SaverParity, TypeOK

\* Slot A keeps odd and slot B even generations in every step.
LEMMA ParityStep == TypeOK /\ Parity /\ NoRace /\ [Next]_vars => Parity'
<1>. SUFFICES ASSUME TypeOK, Parity, NoRace, [Next]_vars PROVE Parity'
  OBVIOUS
<1>0. 0 % 2 = 0 /\ NoSlot \notin Slots /\ BlankRec.hdr \notin Nat /\ TornRec.hdr \notin Nat
  BY ConfigStoreAssumption DEF NoSlot, Slots, BlankRec, TornRec
<1>1. CASE UNCHANGED vars
  BY <1>1 DEF Parity, Alone, SaverParity, SaveStores, ResetStores, Target, vars
<1>2. CASE Boot
  <2>1. Newest # NoSlot => Newest \in Slots /\ slots[Newest].hdr \in Nat
    BY DEF Newest, Slots, Valid
  <2>2. saver' = SaverIdle /\ reset' = ResetIdle
    BY <1>2 DEF Boot, Parity, Alone
  <2>. QED BY <1>0, <1>2, <2>1, <2>2 DEF Boot, Parity, Alone, SaverParity, ResetIdle
<1>3. CASE BootReadFails
  <2>1. saver' = SaverIdle /\ reset' = ResetIdle
    BY <1>3 DEF BootReadFails, Parity, Alone
  <2>. QED BY <1>0, <1>3, <2>1 DEF BootReadFails, Parity, Alone, SaverParity, ResetIdle
<1>4. ASSUME NEW cfg \in Config, SaveStart(cfg) PROVE Parity'
  <2>1. /\ saver = SaverIdle /\ saver'.at = "gen" /\ saver'.tgt = Target /\ reset = ResetIdle
        /\ UNCHANGED <<slots, up, cur, curGen, curSlot, reset>> /\ up
    BY <1>4 DEF SaveStart, NoRace, ram
  <2>2. Target' = Target /\ ~SaveStores /\ ~SaveStores' /\ ResetStores' = ResetStores
    BY <2>1 DEF Target, SaveStores, ResetStores, SaverIdle
  <2>. QED BY <2>1, <2>2 DEF Parity, Alone, SaverParity
<1>a. CASE SaveGen
  <2>1. /\ saver # SaverIdle /\ saver.at = "gen" /\ saver'.at = "erase"
        /\ saver'.gen = curGen + 1 /\ saver'.tgt = saver.tgt /\ up
        /\ UNCHANGED <<slots, up, cur, curGen, curSlot, reset>>
    BY <1>a, Busy DEF SaveGen, ram, TypeOK, SaverStates
  <2>2. saver.tgt = Target /\ reset = ResetIdle
    BY <2>1 DEF Parity, Alone, SaverParity
  <2>3. ~SaveStores /\ ~ResetStores /\ ~SaveStores' /\ ~ResetStores'
    BY <2>1, <2>2 DEF SaveStores, ResetStores, ResetIdle
  <2>4. curGen \in Nat /\ curSlot \in Slots \cup {NoSlot}
    BY ConfigStoreAssumption DEF TypeOK
  <2>5. GenOf(saver'.tgt, saver'.gen)
    BY <2>1, <2>2, <2>3, <2>4 DEF Parity, GenOf, Slots, NoSlot, Target, Other
  <2>. QED BY <2>1, <2>2, <2>3, <2>5 DEF Parity, Alone, SaverParity
<1>5. ASSUME NEW at \in {"erase", "hdr", "body", "crc"}, NEW next \in {"hdr", "body", "crc", "cur"},
             NEW r \in {BlankRec, ProgramHdr(slots[saver.tgt], saver.gen),
                        ProgramBody(slots[saver.tgt], saver.cfg),
                        ProgramCrc(slots[saver.tgt], saver.gen, saver.cfg)},
             SaverWrites(at, r, next)
      PROVE  Parity'
  <2>1. saver # SaverIdle /\ saver.at = at /\ saver.at # "gen"
    BY <1>5, Busy DEF SaverWrites
  <2>2. r.hdr \notin Nat \/ r.hdr = slots[saver.tgt].hdr \/ r.hdr = saver.gen
    BY <2>1, HdrOfOutcome
  <2>3. \A s \in Slots : slots'[s].hdr \in Nat => GenOf(s, slots'[s].hdr)
    BY <1>5, <2>1, <2>2, ParityOfSlots DEF SaverWrites
  <2>4. /\ saver'.tgt = saver.tgt /\ saver'.gen = saver.gen /\ saver'.at = next
        /\ UNCHANGED <<up, cur, curGen, curSlot, reset>> /\ up
    BY <1>5, <2>1 DEF SaverWrites, TypeOK, SaverStates, ram
  <2>5. ~SaveStores /\ ~SaveStores' /\ ResetStores' = ResetStores
    BY <2>1, <2>4 DEF SaveStores, ResetStores
  <2>. QED BY <2>1, <2>3, <2>4, <2>5 DEF Parity, Alone, SaverParity
<1>6. CASE SaveErase \/ SaveHdr \/ SaveBody \/ SaveCrc
  BY <1>5, <1>6 DEF SaveErase, SaveHdr, SaveBody, SaveCrc
<1>7. CASE SaveCur \/ SaveCurGen
  <2>1. /\ saver # SaverIdle /\ saver.at # "gen" /\ saver'.at \in {"cur_gen", "cur_slot"} /\ up
        /\ saver'.tgt = saver.tgt /\ saver'.gen = saver.gen /\ UNCHANGED <<slots, up, reset>>
        /\ saver'.at = "cur_slot" => curGen' = saver'.gen
    BY <1>7, Busy DEF SaveCur, SaveCurGen, TypeOK, SaverStates
  <2>2. SaveStores' /\ reset = ResetIdle
    BY <2>1 DEF SaveStores, Parity, Alone
  <2>. QED BY <2>1, <2>2 DEF Parity, Alone, SaverParity, ResetIdle
<1>b. CASE SaveCurSlot
  <2>1. /\ saver # SaverIdle /\ saver.at = "cur_slot" /\ saver' = SaverIdle /\ curSlot' = saver.tgt
        /\ UNCHANGED <<slots, up, curGen, reset>> /\ up
    BY <1>b, Busy DEF SaveCurSlot
  <2>2. curGen' = saver.gen /\ GenOf(saver.tgt, saver.gen) /\ reset = ResetIdle
    BY <2>1 DEF Parity, SaverParity, Alone
  <2>3. saver.tgt \in Slots
    BY <2>1, OutcomeTypes
  <2>. QED BY <1>0, <2>1, <2>2, <2>3 DEF Parity, Alone, SaverParity, ResetIdle
<1>8. CASE SaveFails
  <2>1. saver # SaverIdle /\ saver.at # "gen" /\ ~SaveStores
    BY <1>8, Busy DEF SaveFails, SaveStores
  <2>2. PICK r \in SaveOutcomes : slots' = [slots EXCEPT ![saver.tgt] = r]
    BY <1>8 DEF SaveFails
  <2>3. r.hdr \notin Nat \/ r.hdr = slots[saver.tgt].hdr \/ r.hdr = saver.gen
    BY <2>1, HdrOfOutcome
  <2>4. \A s \in Slots : slots'[s].hdr \in Nat => GenOf(s, slots'[s].hdr)
    BY <2>1, <2>2, <2>3, ParityOfSlots
  <2>5. saver' = SaverIdle /\ UNCHANGED <<up, curGen, curSlot, reset>> /\ up
    BY <1>8 DEF SaveFails, ram
  <2>. QED BY <2>1, <2>4, <2>5 DEF Parity, Alone, SaverParity, ResetStores
<1>9. CASE ResetStart
  <2>1. /\ saver = SaverIdle /\ UNCHANGED <<slots, up, curGen, curSlot, saver>> /\ up
        /\ reset = ResetIdle /\ reset' = "A"
    BY <1>9 DEF ResetStart, NoRace, ram
  <2>. QED BY <2>1 DEF Parity, Alone, SaverParity, SaveStores, ResetStores, ResetIdle
<1>10. ASSUME NEW t \in Slots, NEW next \in {"B", "cur"}, ResetErases(t, next) PROVE Parity'
  <2>1. \A s \in Slots : slots'[s].hdr \in Nat => GenOf(s, slots'[s].hdr)
    BY <1>0, <1>10 DEF ResetErases, EraseOutcomes, Parity, TypeOK
  <2>2. /\ UNCHANGED <<up, curGen, curSlot, saver>> /\ reset = t /\ reset' = next /\ up
    BY <1>10 DEF ResetErases, ram
  <2>3. saver = SaverIdle /\ ~ResetStores /\ ~ResetStores'
    BY <2>2 DEF Parity, Alone, ResetStores, ResetIdle, Slots
  <2>. QED BY <2>1, <2>2, <2>3 DEF Parity, Alone, SaverParity, SaveStores
<1>11. CASE ResetCur \/ ResetCurGen \/ ResetCurSlot
  <2>1. saver = SaverIdle /\ saver' = SaverIdle /\ UNCHANGED <<slots, up>> /\ up
    BY <1>11 DEF ResetCur, ResetCurGen, ResetCurSlot, Parity, Alone, ResetIdle
  <2>2. reset' = "cur_slot" => curGen' = 0
    BY <1>11 DEF ResetCur, ResetCurGen, ResetCurSlot, ResetIdle
  <2>3. ResetStores' \/ (curSlot' = NoSlot /\ curGen' = 0)
    BY <1>11 DEF ResetCur, ResetCurGen, ResetCurSlot, ResetStores, Parity
  <2>. QED BY <1>0, <2>1, <2>2, <2>3 DEF Parity, Alone, SaverParity
<1>12. CASE PowerLoss
  <2>0. up' = FALSE /\ saver' = SaverIdle /\ reset' = ResetIdle /\ UNCHANGED <<curGen, curSlot>>
    BY <1>12 DEF PowerLoss, ram
  <2>1. \A s \in Slots : slots'[s].hdr \in Nat => GenOf(s, slots'[s].hdr)
    <3>1. CASE saver # SaverIdle /\ \E r \in SaveOutcomes : slots' = [slots EXCEPT ![saver.tgt] = r]
      <4>1. PICK r \in SaveOutcomes : slots' = [slots EXCEPT ![saver.tgt] = r]
        BY <3>1
      <4>2. CASE saver.at # "gen"
        <5>1. r.hdr \notin Nat \/ r.hdr = slots[saver.tgt].hdr \/ r.hdr = saver.gen
          BY <3>1, <4>2, HdrOfOutcome
        <5>. QED BY <3>1, <4>1, <4>2, <5>1, ParityOfSlots
      <4>3. CASE saver.at = "gen"
        <5>1. r = slots[saver.tgt] /\ saver.tgt \in Slots
          BY <3>1, <4>1, <4>3, OutcomeTypes DEF SaveOutcomes
        <5>. QED BY <4>1, <5>1 DEF Parity, TypeOK
      <4>. QED BY <4>2, <4>3
    <3>2. CASE reset \in Slots /\ \E r \in EraseOutcomes(slots[reset]) :
                                     slots' = [slots EXCEPT ![reset] = r]
      BY <1>0, <3>2 DEF EraseOutcomes, Parity, TypeOK
    <3>3. CASE UNCHANGED slots
      BY <3>3 DEF Parity
    <3>. QED BY <1>12, <3>1, <3>2, <3>3 DEF PowerLoss
  <2>. QED BY <2>0, <2>1 DEF Parity, Alone, SaverParity, ResetIdle
<1>. QED
  BY <1>1, <1>2, <1>3, <1>4, <1>a, <1>6, <1>7, <1>b, <1>8, <1>9, <1>10, <1>11, <1>12
     DEF Next, ResetEraseA, ResetEraseB, Slots

\* config_store_init never has to choose between two valid records of the same
\* generation, whatever failed or was interrupted before, if no save overlapped a
\* factory reset.
THEOREM GenerationsDiffer == Spec => []NoTie
<1>1. Init => Parity
  BY ConfigStoreAssumption
     DEF Init, Parity, Alone, SaverParity, NoSlot, Slots, BlankRec, TornRec, ResetIdle
<1>2. (NoRace => Parity) => NoTie
  BY DEF Parity, NoTie, NoRace, Valid, GenOf, Slots
<1>3. TypeOK /\ (NoRace => Parity) /\ [Next]_vars => (NoRace => Parity)'
  <2>1. [Next]_vars => NoRace' = NoRace
    BY DEF Next, vars, NoRace
  <2>. QED BY <2>1, ParityStep
<1>. QED BY <1>1, <1>2, <1>3, InitType, TypeStep, PTL DEF Spec

-----------------------------------------------------------------------------
(* Durability, in a benign environment                                     *)

\* slot_read accepts neither an erased nor a torn record.
LEMMA BlankInvalid ==
  /\ ~Valid(BlankRec) /\ ~Valid(TornRec)
  /\ \A r : r.crc \in {<<Blank, Blank>>, <<Torn, Torn>>} => ~Valid(r)
BY ConfigStoreAssumption DEF Valid, BlankRec, TornRec

\* What the operation a save is at may leave in its slot: nothing a boot would
\* load, the record that was there, or the complete new one.
LEMMA OutcomeValid ==
  ASSUME TypeOK, saver # SaverIdle, SaveProgress, NEW r \in SaveOutcomes, Valid(r)
  PROVE  r = slots[saver.tgt] \/ r.body = saver.cfg
<1>. DEFINE q == slots[saver.tgt]
<1>0. q \in Records /\ saver.at \in {"gen", "erase", "hdr", "body", "crc", "cur", "cur_gen", "cur_slot"}
  BY OutcomeTypes DEF TypeOK, SaverStates
<1>1. CASE saver.at = "erase"
  BY <1>0, <1>1, BlankInvalid DEF SaveOutcomes, EraseOutcomes
<1>2. CASE saver.at = "hdr"
  <2>1. q = BlankRec /\ r \in HdrOutcomes(q, saver.gen)
    BY <1>0, <1>2 DEF SaveOutcomes, SaveProgress
  <2>2. r.crc = <<Blank, Blank>>
    BY <2>1 DEF HdrOutcomes, ProgramHdr, BlankRec
  <2>. QED BY <2>2, BlankInvalid
<1>3. CASE saver.at = "body"
  <2>1. q = [BlankRec EXCEPT !.hdr = saver.gen] /\ r \in BodyOutcomes(q, saver.cfg)
    BY <1>0, <1>3 DEF SaveOutcomes, SaveProgress
  <2>2. r.crc = <<Blank, Blank>>
    BY <2>1 DEF BodyOutcomes, ProgramBody, BlankRec
  <2>. QED BY <2>2, BlankInvalid
<1>4. CASE saver.at = "crc"
  <2>1. /\ q = [BlankRec EXCEPT !.hdr = saver.gen, !.body = saver.cfg]
        /\ r \in CrcOutcomes(q, saver.gen, saver.cfg)
    BY <1>0, <1>4 DEF SaveOutcomes, SaveProgress
  <2>2. r.body = saver.cfg
    BY <2>1 DEF CrcOutcomes, ProgramCrc, BlankRec
  <2>. QED BY <2>2
<1>5. CASE saver.at \in {"gen", "cur", "cur_gen", "cur_slot"}
  BY <1>0, <1>5 DEF SaveOutcomes
<1>. QED BY <1>0, <1>1, <1>2, <1>3, <1>4, <1>5

LEMMA ActiveType ==
  ASSUME TypeOK
  PROVE  ActiveGen \in Nat /\ ActiveSlot \in Slots \cup {NoSlot} /\ Spare \in Slots /\ Spare # ActiveSlot
<1>1. SaveStores => saver.tgt \in Slots /\ saver.gen \in Nat
  BY OutcomeTypes, Busy, ConfigStoreAssumption DEF SaveStores, Gen
<1>2. curGen \in Nat /\ curSlot \in Slots \cup {NoSlot}
  BY ConfigStoreAssumption DEF TypeOK
<1>. QED BY <1>1, <1>2 DEF ActiveGen, ActiveSlot, Spare, Other, Slots, NoSlot

\* When the other slot holds such a record, what a boot loads is acknowledged or
\* was begun.
LEMMA LoadsKnown ==
  ASSUME TypeOK, NEW S \in [Slots -> Records],
         ActiveIntact, acked = cur,
         \A s \in Slots : s # Spare => S[s] = slots[s],
         Valid(S[Spare]) =>
           \/ S[Spare].body \in tried
           \/ IF Spare = "B" THEN S[Spare].hdr <= ActiveGen ELSE S[Spare].hdr < ActiveGen,
         slots' = S, acked' = acked, tried' = tried
  PROVE  Loads' \in {acked'} \cup tried'
<1>0. /\ ActiveGen \in Nat /\ ActiveSlot \in Slots \cup {NoSlot}
      /\ Spare \in Slots /\ "A" \in Slots /\ "B" \in Slots
  BY ActiveType DEF Slots
<1>1. CASE ActiveSlot = "A"
  <2>1. Spare = "B" /\ S["A"] = slots["A"] /\ ActiveSlot # NoSlot
    BY <1>0, <1>1 DEF Spare, Other, NoSlot
  <2>2. Valid(S["A"]) /\ S["A"].hdr = ActiveGen /\ S["A"].body = acked
    BY <1>1, <2>1 DEF ActiveIntact
  <2>3. S["B"].hdr \in Nat \/ ~Valid(S["B"])
    BY DEF Valid
  <2>4. Valid(S["B"]) => S["B"].body \in tried \/ S["A"].hdr >= S["B"].hdr
    BY <1>0, <2>1, <2>2, <2>3
  <2>. QED BY <2>2, <2>4 DEF Loads, Newest, NoSlot
<1>2. CASE ActiveSlot = "B"
  <2>1. Spare = "A" /\ S["B"] = slots["B"] /\ ActiveSlot # NoSlot
    BY <1>0, <1>2 DEF Spare, Other, NoSlot
  <2>2. Valid(S["B"]) /\ S["B"].hdr = ActiveGen /\ S["B"].body = acked
    BY <1>2, <2>1 DEF ActiveIntact
  <2>3. S["A"].hdr \in Nat \/ ~Valid(S["A"])
    BY DEF Valid
  <2>4. Valid(S["A"]) => S["A"].body \in tried \/ ~(S["A"].hdr >= S["B"].hdr)
    BY <1>0, <2>1, <2>2, <2>3
  <2>. QED BY <2>2, <2>4 DEF Loads, Newest, NoSlot
<1>3. CASE ActiveSlot = NoSlot
  <2>1. Spare = "A" /\ S["B"] = slots["B"]
    BY <1>0, <1>3 DEF Spare, Other, NoSlot
  <2>2. ~Valid(S["B"]) /\ acked = Defaults /\ ActiveGen = 0
    BY <1>3, <2>1 DEF ActiveIntact
  <2>3. Valid(S["A"]) => S["A"].body \in tried
    BY <2>1, <2>2 DEF Valid
  <2>. QED BY <2>2, <2>3 DEF Loads, Newest, NoSlot
<1>. QED BY <1>0, <1>1, <1>2, <1>3 DEF Slots

\* Outside the last stores the active slot is the one the statics name.
LEMMA ActiveIs ==
  ASSUME ~SaveStores, ~ResetStores
  PROVE  ActiveSlot = curSlot /\ ActiveGen = curGen /\ Spare = Target
BY DEF ActiveSlot, ActiveGen, Spare, Target

\* A save: from its start over its four operations to the copy to RAM.
LEMMA SaveRecoverable ==
  ASSUME TypeOK, TypeOK', Loadable, Benign,
         \/ \E cfg \in Config : SaveStart(cfg)
         \/ SaveGen \/ SaveErase \/ SaveHdr \/ SaveBody \/ SaveCrc \/ SaveCur \/ SaveFails
  PROVE  Loadable'
<1>0. up /\ up' /\ reset = ResetIdle /\ reset' = ResetIdle
  <2>1. up /\ up' /\ UNCHANGED reset
    BY DEF SaveStart, SaveErase, SaveHdr, SaveBody, SaveCrc, SaveGen, SaveCur, SaveFails, SaverWrites
  <2>2. reset # ResetIdle => saver = SaverIdle
    BY DEF Loadable
  <2>3. saver = SaverIdle => \E cfg \in Config : SaveStart(cfg)
    BY Busy DEF SaveErase, SaveHdr, SaveBody, SaveCrc, SaveGen, SaveCur, SaveFails, SaverWrites
  <2>4. "reset_race" \notin env
    BY DEF Benign
  <2>. QED BY <2>1, <2>2, <2>3, <2>4 DEF SaveStart
<1>1. acked = cur /\ ActiveIntact /\ SpareHarmless /\ SaveProgress
  BY <1>0 DEF Loadable
<1>. SUFFICES acked' = cur' /\ ActiveIntact' /\ SpareHarmless' /\ SaveProgress'
  BY <1>0 DEF Loadable
<1>r. ~ResetStores /\ ~ResetStores'
  BY <1>0 DEF ResetStores, ResetIdle
<1>s. ~SaveStores
  BY DEF SaveStart, SaveErase, SaveHdr, SaveBody, SaveCrc, SaveGen, SaveCur, SaveFails, SaverWrites,
         SaverIdle, SaveStores
<1>a. ActiveSlot = curSlot /\ ActiveGen = curGen /\ Spare = Target
  BY <1>r, <1>s, ActiveIs
<1>t. Target \in Slots /\ Target # curSlot /\ slots \in [Slots -> Records] /\ curGen \in Nat
  BY ConfigStoreAssumption DEF TypeOK, Target, Other, Slots
\* Before the copy the statics are what they were.
<1>u. ASSUME ~SaveStores', UNCHANGED <<curGen, curSlot>>
      PROVE  ActiveSlot' = curSlot /\ ActiveGen' = curGen /\ Spare' = Target /\ Target' = Target
  BY <1>r, <1>u DEF ActiveSlot, ActiveGen, Spare, Target
<1>2. ASSUME NEW cfg \in Config, SaveStart(cfg)
      PROVE  acked' = cur' /\ ActiveIntact' /\ SpareHarmless' /\ SaveProgress'
  <2>1. /\ saver' = [at |-> "gen", cfg |-> cfg, gen |-> 0, tgt |-> Target]
        /\ tried' = tried \cup {cfg}
        /\ UNCHANGED <<slots, up, cur, curGen, curSlot, reset, acked>>
    BY <1>2 DEF SaveStart, ram
  <2>2. ~SaveStores'
    BY <2>1 DEF SaveStores
  <2>3. ActiveIntact' /\ SpareHarmless'
    BY <1>1, <1>a, <1>u, <2>1, <2>2 DEF ActiveIntact, SpareHarmless
  <2>4. SaveProgress'
    BY <1>u, <2>1, <2>2 DEF SaveProgress
  <2>. QED BY <1>1, <2>1, <2>3, <2>4
<1>g. CASE SaveGen
  <2>1. /\ saver # SaverIdle /\ saver.at = "gen" /\ saver'.at = "erase" /\ saver'.cfg = saver.cfg
        /\ saver'.gen = curGen + 1 /\ saver'.tgt = saver.tgt
        /\ UNCHANGED <<slots, up, cur, curGen, curSlot, reset, acked, tried>>
    BY <1>g, Busy DEF SaveGen, ram, TypeOK, SaverStates
  <2>2. ~SaveStores'
    BY <2>1 DEF SaveStores
  <2>3. saver.tgt = Target /\ saver.cfg \in tried
    BY <1>1, <1>a, <1>s, <2>1 DEF SaveProgress
  <2>4. ActiveIntact' /\ SpareHarmless'
    BY <1>1, <1>a, <1>u, <2>1, <2>2 DEF ActiveIntact, SpareHarmless
  <2>5. SaveProgress'
    BY <1>u, <2>1, <2>2, <2>3 DEF SaveProgress
  <2>. QED BY <1>1, <2>1, <2>4, <2>5
\* A step that changes only the slot of the save and leaves nothing valid there,
\* or the save's own record.
<1>3. ASSUME saver # SaverIdle, NEW r,
             slots' = [slots EXCEPT ![saver.tgt] = r], ~SaveStores',
             UNCHANGED <<cur, curGen, curSlot, acked, tried>>,
             Valid(r) => r = slots[saver.tgt] \/ r.body = saver.cfg
      PROVE  acked' = cur' /\ ActiveIntact' /\ SpareHarmless'
  <2>1. saver.tgt = Target /\ saver.cfg \in tried
    BY <1>1, <1>3, <1>a, <1>s DEF SaveProgress
  <2>2. slots'[Target] = r /\ \A s \in Slots : s # Target => slots'[s] = slots[s]
    BY <1>t, <1>3, <2>1
  <2>u. ActiveSlot' = curSlot /\ ActiveGen' = curGen /\ Spare' = Target
    BY <1>3, <1>u
  <2>3. ActiveIntact'
    <3>1. CASE curSlot = NoSlot
      <4>1. slots'["B"] = slots["B"]
        BY <2>2, <3>1 DEF Target, Other, Slots, NoSlot
      <4>. QED BY <1>1, <1>3, <1>a, <2>u, <3>1, <4>1 DEF ActiveIntact
    <3>2. CASE curSlot # NoSlot
      <4>1. slots'[curSlot] = slots[curSlot]
        BY <1>t, <2>2, <3>2 DEF TypeOK
      <4>. QED BY <1>1, <1>3, <1>a, <2>u, <3>2, <4>1 DEF ActiveIntact
    <3>. QED BY <3>1, <3>2
  <2>4. SpareHarmless'
    BY <1>1, <1>3, <1>a, <2>1, <2>2, <2>u DEF SpareHarmless
  <2>. QED BY <1>1, <1>3, <2>3, <2>4
<1>4. ASSUME NEW at \in {"erase", "hdr", "body", "crc"}, NEW r, NEW next \in {"hdr", "body", "crc", "cur"},
             SaverWrites(at, r, next)
      PROVE  /\ saver # SaverIdle /\ saver.tgt = Target /\ saver.cfg \in tried
             /\ saver.gen = curGen + 1 /\ saver.at = at
             /\ slots' = [slots EXCEPT ![saver.tgt] = r] /\ slots'[saver'.tgt] = r
             /\ UNCHANGED <<cur, curGen, curSlot, acked, tried>>
             /\ saver'.at = next /\ saver'.cfg = saver.cfg /\ saver'.gen = saver.gen
             /\ saver'.tgt = saver.tgt
             /\ ~SaveStores' /\ saver'.tgt = Spare'
  <2>1. saver # SaverIdle /\ saver.at = at
    BY <1>4, Busy DEF SaverWrites
  <2>2. saver.tgt = Target /\ saver.cfg \in tried /\ saver.gen = curGen + 1
    BY <1>1, <1>a, <1>s, <2>1 DEF SaveProgress
  <2>3. saver' = [saver EXCEPT !.at = next] /\ saver \in SaverStates
    BY <1>4 DEF SaverWrites, TypeOK
  <2>4. /\ saver'.at = next /\ saver'.cfg = saver.cfg /\ saver'.gen = saver.gen
        /\ saver'.tgt = saver.tgt
    BY <2>1, <2>3 DEF SaverStates
  <2>5. ~SaveStores'
    BY <2>4 DEF SaveStores
  <2>6. UNCHANGED <<cur, curGen, curSlot, acked, tried>> /\ slots' = [slots EXCEPT ![saver.tgt] = r]
    BY <1>4 DEF SaverWrites, ram
  <2>. QED BY <1>t, <1>u, <2>1, <2>2, <2>4, <2>5, <2>6
<1>5. CASE SaveErase
  <2>1. SaverWrites("erase", BlankRec, "hdr")
    BY <1>5 DEF SaveErase
  <2>2. SaveProgress'
    BY <1>4, <2>1 DEF SaveProgress
  <2>3. acked' = cur' /\ ActiveIntact' /\ SpareHarmless'
    BY <1>3, <1>4, <2>1, BlankInvalid
  <2>. QED BY <2>2, <2>3
<1>6. CASE SaveHdr
  <2>. DEFINE r == ProgramHdr(slots[saver.tgt], saver.gen)
  <2>1. SaverWrites("hdr", r, "body")
    BY <1>6 DEF SaveHdr
  <2>2. slots[saver.tgt] = BlankRec
    BY <1>1, <1>4, <2>1 DEF SaveProgress
  <2>3. r = [BlankRec EXCEPT !.hdr = saver.gen] /\ r.crc = <<Blank, Blank>>
    BY <2>2 DEF ProgramHdr, Program, BlankRec
  <2>. HIDE DEF r
  <2>4. SaveProgress'
    BY <1>4, <2>1, <2>3 DEF SaveProgress
  <2>5. acked' = cur' /\ ActiveIntact' /\ SpareHarmless'
    <3>0. r.crc = <<Blank, Blank>>
      BY <2>3
    <3>1. ~Valid(r)
      BY ONLY <3>0, BlankInvalid
    <3>. QED BY <1>3, <1>4, <2>1, <3>1
  <2>. QED BY <2>4, <2>5
<1>7. CASE SaveBody
  <2>. DEFINE r == ProgramBody(slots[saver.tgt], saver.cfg)
  <2>1. SaverWrites("body", r, "crc")
    BY <1>7 DEF SaveBody
  <2>2. slots[saver.tgt] = [BlankRec EXCEPT !.hdr = saver.gen]
    BY <1>1, <1>4, <2>1 DEF SaveProgress
  <2>3. /\ r = [BlankRec EXCEPT !.hdr = saver.gen, !.body = saver.cfg]
        /\ r.crc = <<Blank, Blank>>
    BY <2>2 DEF ProgramBody, Program, BlankRec
  <2>. HIDE DEF r
  <2>4. SaveProgress'
    <3>1. slots'[saver'.tgt] = [BlankRec EXCEPT !.hdr = saver'.gen, !.body = saver'.cfg]
      <4>1. slots'[saver'.tgt] = r /\ saver'.gen = saver.gen /\ saver'.cfg = saver.cfg
        BY <1>4, <2>1
      <4>. QED BY <2>3, <4>1, Zenon
    <3>2. /\ saver'.at = "crc" /\ saver'.tgt = Spare'
          /\ saver'.gen = curGen' + 1 /\ saver'.cfg \in tried'
      BY <1>4, <2>1
    <3>. QED BY <3>1, <3>2 DEF SaveProgress
  <2>5. acked' = cur' /\ ActiveIntact' /\ SpareHarmless'
    <3>0. r.crc = <<Blank, Blank>>
      BY <2>3
    <3>1. ~Valid(r)
      BY ONLY <3>0, BlankInvalid
    <3>. QED BY <1>3, <1>4, <2>1, <3>1
  <2>. QED BY <2>4, <2>5
<1>8. CASE SaveCrc
  <2>. DEFINE r == ProgramCrc(slots[saver.tgt], saver.gen, saver.cfg)
  <2>1. SaverWrites("crc", r, "cur")
    BY <1>8 DEF SaveCrc
  <2>2. slots[saver.tgt] = [BlankRec EXCEPT !.hdr = saver.gen, !.body = saver.cfg]
    BY <1>1, <1>4, <2>1 DEF SaveProgress
  <2>3. /\ r = [hdr |-> saver.gen, body |-> saver.cfg, crc |-> <<saver.gen, saver.cfg>>]
        /\ r.body = saver.cfg
    <3>1. slots[saver.tgt]
            = [hdr |-> saver.gen, body |-> saver.cfg, crc |-> <<Blank, Blank>>]
      BY <2>2 DEF BlankRec
    <3>. QED BY <3>1 DEF ProgramCrc, Program
  <2>. HIDE DEF r
  <2>4. SaveProgress'
    BY <1>4, <2>1, <2>3 DEF SaveProgress
  <2>5. acked' = cur' /\ ActiveIntact' /\ SpareHarmless'
    BY <1>3, <1>4, <2>1, <2>3
  <2>. QED BY <2>4, <2>5
<1>9. CASE SaveFails
  <2>1. saver # SaverIdle /\ saver' = SaverIdle /\ ~SaveStores'
    BY <1>9, Busy DEF SaveFails, SaveStores, SaverIdle
  <2>2. PICK r \in SaveOutcomes : slots' = [slots EXCEPT ![saver.tgt] = r]
    BY <1>9 DEF SaveFails
  <2>3. Valid(r) => r = slots[saver.tgt] \/ r.body = saver.cfg
    BY <1>1, <2>1, OutcomeValid
  <2>4. acked' = cur' /\ ActiveIntact' /\ SpareHarmless'
    BY <1>3, <1>9, <2>1, <2>2, <2>3 DEF SaveFails, ram
  <2>. QED BY <2>1, <2>4 DEF SaveProgress
<1>10. CASE SaveCur
  <2>1. /\ saver # SaverIdle /\ saver.at = "cur" /\ saver.gen \in Nat /\ saver.cfg \in Config
    BY <1>10, Busy, OutcomeTypes, ConfigStoreAssumption DEF SaveCur, Gen
  <2>2. /\ saver.tgt = Target /\ saver.gen = curGen + 1
        /\ slots[Target] = [hdr |-> saver.gen, body |-> saver.cfg,
                            crc |-> <<saver.gen, saver.cfg>>]
    BY <1>1, <1>a, <1>s, <2>1 DEF SaveProgress
  <2>3. /\ cur' = saver.cfg /\ acked' = saver.cfg /\ slots' = slots /\ saver'.at = "cur_gen"
        /\ saver'.gen = saver.gen /\ saver'.tgt = Target
    BY <1>10, <2>1, <2>2 DEF SaveCur, TypeOK, SaverStates
  <2>4. SaveStores' /\ ActiveSlot' = Target /\ ActiveGen' = saver.gen /\ Spare' = Other(Target)
    BY <2>3 DEF SaveStores, ActiveSlot, ActiveGen, Spare
  <2>. HIDE <1>10
  <2>5. ActiveIntact'
    <3>1. Target # NoSlot
      BY DEF Target, Other, NoSlot
    <3>2. Valid(slots[Target])
      BY <2>1, <2>2 DEF Valid
    <3>. QED BY <2>2, <2>3, <2>4, <3>1, <3>2 DEF ActiveIntact
  <2>6. SpareHarmless'
    <3>2. CASE curSlot = NoSlot
      <4>1. Spare' = "B" /\ ~Valid(slots["B"])
        BY <1>1, <1>a, <2>4, <3>2 DEF Target, Other, NoSlot, ActiveIntact
      <4>. QED BY <2>3, <4>1 DEF SpareHarmless
    <3>3. CASE curSlot # NoSlot
      <4>1. Spare' = curSlot
        BY <2>4, <3>3 DEF Target, Other, TypeOK, Slots
      <4>2. slots[curSlot].hdr = curGen
        BY <1>1, <1>a, <3>3 DEF ActiveIntact
      <4>3. slots'[Spare'].hdr < ActiveGen' /\ slots'[Spare'].hdr <= ActiveGen'
        BY <1>t, <2>2, <2>3, <2>4, <4>1, <4>2
      <4>. QED BY <4>3 DEF SpareHarmless
    <3>. QED BY <3>2, <3>3
  <2>7. SaveProgress'
    BY <2>3, <2>4 DEF SaveProgress
  <2>. QED BY <2>3, <2>5, <2>6, <2>7
<1>. QED BY <1>2, <1>g, <1>5, <1>6, <1>7, <1>8, <1>9, <1>10

\* The last two stores of a save or a reset bring the statics to the active slot.
LEMMA StoresRecoverable ==
  ASSUME TypeOK, TypeOK', Loadable, SaveCurGen \/ SaveCurSlot \/ ResetCurGen \/ ResetCurSlot
  PROVE  Loadable'
<1>1. up /\ up' /\ UNCHANGED <<slots, cur, acked, tried>>
  BY DEF SaveCurGen, SaveCurSlot, ResetCurGen, ResetCurSlot
<1>2. CASE SaveCurGen \/ SaveCurSlot
  <2>1. saver # SaverIdle /\ SaveStores /\ UNCHANGED reset
    BY <1>2, Busy DEF SaveCurGen, SaveCurSlot, SaveStores
  <2>2. reset = ResetIdle /\ reset' = ResetIdle /\ ~ResetStores /\ ~ResetStores'
    BY <2>1 DEF Loadable, ResetStores, ResetIdle
  <2>3. acked = cur /\ ActiveIntact /\ SpareHarmless /\ SaveProgress
    BY <1>1, <2>2 DEF Loadable
  <2>4. ActiveSlot' = ActiveSlot /\ ActiveGen' = ActiveGen /\ SaveProgress'
    <3>1. CASE SaveCurGen
      <4>1. /\ saver'.at = "cur_slot" /\ saver'.tgt = saver.tgt /\ saver'.gen = saver.gen
            /\ curGen' = saver.gen
        BY <2>1, <3>1 DEF SaveCurGen, TypeOK, SaverStates
      <4>. QED BY <2>1, <4>1 DEF SaveStores, ActiveSlot, ActiveGen, SaveProgress
    <3>2. CASE SaveCurSlot
      <4>1. saver' = SaverIdle /\ curSlot' = saver.tgt /\ curGen' = saver.gen
        BY <2>1, <2>3, <3>2 DEF SaveCurSlot, SaveProgress
      <4>2. ~SaveStores'
        BY <4>1 DEF SaveStores, SaverIdle
      <4>. QED BY <2>1, <2>2, <4>1, <4>2 DEF ActiveSlot, ActiveGen, SaveProgress
    <3>. QED BY <1>2, <3>1, <3>2
  <2>5. ActiveIntact' /\ SpareHarmless'
    BY <1>1, <2>3, <2>4 DEF ActiveIntact, SpareHarmless, Spare
  <2>. QED BY <1>1, <2>2, <2>3, <2>4, <2>5 DEF Loadable
<1>3. CASE ResetCurGen \/ ResetCurSlot
  <2>1. ResetStores /\ reset # ResetIdle /\ UNCHANGED saver
    BY <1>3 DEF ResetCurGen, ResetCurSlot, ResetStores, ResetIdle
  <2>2. saver = SaverIdle /\ saver' = SaverIdle /\ ~SaveStores /\ ~SaveStores'
    BY <2>1 DEF Loadable, SaveStores, SaverIdle
  <2>3. acked = cur /\ ActiveIntact /\ SpareHarmless /\ SaveProgress'
    BY <1>1, <2>1, <2>2 DEF Loadable, SaveProgress
  <2>4. ActiveSlot = NoSlot /\ ActiveGen = 0 /\ ActiveSlot' = NoSlot /\ ActiveGen' = 0
    <3>1. CASE ResetCurGen
      BY <2>1, <2>2, <3>1 DEF ResetCurGen, ResetStores, ActiveSlot, ActiveGen
    <3>2. CASE ResetCurSlot
      <4>1. curGen = 0
        BY <2>1, <3>2 DEF Loadable, ResetCurSlot
      <4>. QED BY <2>1, <2>2, <3>2, <4>1 DEF ResetCurSlot, ResetStores, ActiveSlot, ActiveGen, ResetIdle
    <3>. QED BY <1>3, <3>1, <3>2
  <2>5. ActiveIntact' /\ SpareHarmless'
    BY <1>1, <2>3, <2>4 DEF ActiveIntact, SpareHarmless, Spare
  <2>6. reset' \in {ResetIdle, "cur_slot"} /\ (reset' = "cur_slot" => curGen' = 0)
    BY <1>3 DEF ResetCurGen, ResetCurSlot, ResetIdle
  <2>. QED BY <1>1, <2>2, <2>3, <2>5, <2>6 DEF Loadable, ResetStores, ResetIdle
<1>. QED BY <1>2, <1>3

\* A boot establishes the invariant for what it loaded.
LEMMA BootRecoverable ==
  ASSUME TypeOK, Loadable, Boot
  PROVE  Loadable'
<1>1. /\ ~up /\ up' = TRUE /\ saver = SaverIdle /\ reset = ResetIdle
      /\ UNCHANGED <<slots, saver, reset>>
      /\ curSlot' = Newest /\ cur' = Loads /\ acked' = cur' /\ tried' = {}
      /\ curGen' = IF Newest = NoSlot THEN 0 ELSE slots[Newest].hdr
  BY DEF Boot, Loadable
<1>a. ActiveSlot' = Newest /\ ActiveGen' = curGen' /\ Spare' = Other(Newest)
  BY <1>1 DEF ActiveSlot, ActiveGen, Spare, SaveStores, ResetStores, SaverIdle, ResetIdle
<1>2. ActiveIntact'
  <2>1. CASE Newest = NoSlot
    <3>1. ~Valid(slots["B"])
      BY <2>1 DEF Newest, NoSlot
    <3>. QED BY <1>1, <1>a, <2>1, <3>1 DEF ActiveIntact, Loads
  <2>2. CASE Newest # NoSlot
    <3>1. Valid(slots[Newest])
      BY <2>2 DEF Newest
    <3>. QED BY <1>1, <1>a, <2>2, <3>1 DEF ActiveIntact, Loads
  <2>. QED BY <2>1, <2>2
<1>3. SpareHarmless'
  <2>0. \A s \in Slots : Valid(slots[s]) => slots[s].hdr \in Nat
    BY DEF Valid
  <2>1. CASE Newest = "A"
    <3>1. Spare' = "B"
      BY <1>a, <2>1 DEF Other
    <3>2. Valid(slots["A"]) /\ (Valid(slots["B"]) => slots["A"].hdr >= slots["B"].hdr)
      BY <2>1 DEF Newest, NoSlot
    <3>3. curGen' = slots["A"].hdr
      BY <1>1, <2>1 DEF NoSlot
    <3>4. Valid(slots["B"]) => slots["B"].hdr <= slots["A"].hdr
      BY <2>0, <3>2 DEF Slots
    <3>. QED BY <1>1, <1>a, <3>1, <3>3, <3>4 DEF SpareHarmless
  <2>2. CASE Newest = "B"
    <3>1. Spare' = "A"
      BY <1>a, <2>2 DEF Other
    <3>2. Valid(slots["B"]) /\ (Valid(slots["A"]) => ~(slots["A"].hdr >= slots["B"].hdr))
      BY <2>2 DEF Newest, NoSlot
    <3>3. curGen' = slots["B"].hdr
      BY <1>1, <2>2 DEF NoSlot
    <3>4. Valid(slots["A"]) => slots["A"].hdr < slots["B"].hdr
      BY <2>0, <3>2 DEF Slots
    <3>. QED BY <1>1, <1>a, <3>1, <3>3, <3>4 DEF SpareHarmless
  <2>3. CASE Newest = NoSlot
    <3>1. Spare' = "A" /\ ~Valid(slots["A"])
      BY <1>a, <2>3 DEF Other, Newest, NoSlot
    <3>. QED BY <1>1, <3>1 DEF SpareHarmless
  <2>. QED BY <2>1, <2>2, <2>3 DEF Newest
<1>. QED BY <1>1, <1>2, <1>3 DEF Loadable, SaveProgress, ResetIdle

\* A factory reset that is not disturbed ends on the defaults.
LEMMA ResetRecoverable ==
  ASSUME TypeOK, Loadable, Benign,
         ResetStart \/ ResetEraseA \/ ResetEraseB \/ ResetCur
  PROVE  Loadable'
<1>0. "reset_race" \notin env /\ "reset_fault" \notin env
  BY DEF Benign
<1>1. CASE ResetStart
  BY <1>0, <1>1 DEF ResetStart, Loadable, ResetIdle, ResetStores, ram
<1>2. CASE ResetEraseA
  <2>1. slots'["A"] = BlankRec
    BY <1>0, <1>2 DEF ResetEraseA, ResetErases, TypeOK, Slots
  <2>. QED BY <1>2, <2>1 DEF ResetEraseA, ResetErases, Loadable, ResetIdle, ResetStores
<1>3. CASE ResetEraseB
  <2>1. slots'["B"] = BlankRec /\ slots'["A"] = slots["A"]
    BY <1>0, <1>3 DEF ResetEraseB, ResetErases, TypeOK, Slots
  <2>. QED BY <1>3, <2>1 DEF ResetEraseB, ResetErases, Loadable, ResetIdle, ResetStores
<1>4. CASE ResetCur
  <2>1. slots["A"] = BlankRec /\ slots["B"] = BlankRec /\ saver = SaverIdle /\ up
    BY <1>4 DEF ResetCur, Loadable, ResetIdle
  <2>2. /\ UNCHANGED <<slots, saver, up>> /\ cur' = Defaults /\ acked' = Defaults /\ reset' = "cur_gen"
    BY <1>4 DEF ResetCur
  <2>3. ResetStores' /\ ~SaveStores' /\ ActiveSlot' = NoSlot /\ ActiveGen' = 0 /\ Spare' = "A"
    BY <2>1, <2>2 DEF ResetStores, SaveStores, ActiveSlot, ActiveGen, Spare, Other, NoSlot, SaverIdle
  <2>4. ActiveIntact' /\ SpareHarmless'
    BY <2>1, <2>2, <2>3, BlankInvalid DEF ActiveIntact, SpareHarmless
  <2>. QED BY <2>1, <2>2, <2>3, <2>4 DEF Loadable, SaveProgress, ResetIdle
<1>. QED BY <1>1, <1>2, <1>3, <1>4

\* A power loss in any operation of a save leaves a loadable configuration.
LEMMA PowerLossRecoverable ==
  ASSUME TypeOK, TypeOK', Loadable, Benign, PowerLoss
  PROVE  Loadable'
<1>1. up /\ reset = ResetIdle /\ ResetIdle \notin Slots
  BY DEF PowerLoss, Benign, ResetIdle, Slots
<1>2. acked = cur /\ ActiveIntact /\ SpareHarmless /\ SaveProgress
  BY <1>1 DEF Loadable
<1>3. /\ up' = FALSE /\ saver' = SaverIdle /\ reset' = ResetIdle
      /\ UNCHANGED <<cur, curGen, curSlot, acked, tried>>
  BY DEF PowerLoss, ram
<1>4. Spare \in Slots /\ slots \in [Slots -> Records]
  BY ActiveType DEF TypeOK
<1>5. /\ \A s \in Slots : s # Spare => slots'[s] = slots[s]
      /\ Valid(slots'[Spare]) =>
           \/ slots'[Spare].body \in tried
           \/ IF Spare = "B" THEN slots'[Spare].hdr <= ActiveGen
                             ELSE slots'[Spare].hdr < ActiveGen
  <2>1. CASE UNCHANGED slots
    BY <1>2, <2>1 DEF SpareHarmless
  <2>2. CASE saver # SaverIdle /\ \E r \in SaveOutcomes : slots' = [slots EXCEPT ![saver.tgt] = r]
    <3>1. PICK r \in SaveOutcomes : slots' = [slots EXCEPT ![saver.tgt] = r]
      BY <2>2
    <3>2. CASE SaveStores
      <4>1. r = slots[saver.tgt] /\ saver.tgt \in Slots
        BY <2>2, <3>1, <3>2, OutcomeTypes DEF SaveOutcomes, SaveStores
      <4>2. UNCHANGED slots
        BY <1>4, <3>1, <4>1
      <4>. QED BY <2>1, <4>2
    <3>3. CASE ~SaveStores
      <4>1. saver.tgt = Spare /\ saver.cfg \in tried
        BY <1>2, <2>2, <3>3 DEF SaveProgress
      <4>2. slots'[Spare] = r /\ \A s \in Slots : s # Spare => slots'[s] = slots[s]
        BY <1>4, <3>1, <4>1
      <4>3. Valid(r) => r = slots[Spare] \/ r.body = saver.cfg
        BY <1>2, <2>2, <4>1, OutcomeValid
      <4>. QED BY <1>2, <4>1, <4>2, <4>3 DEF SpareHarmless
    <3>. QED BY <3>2, <3>3
  <2>. QED BY <1>1, <2>1, <2>2 DEF PowerLoss
<1>6. Loads' \in {acked'} \cup tried'
  <2>1. slots' \in [Slots -> Records]
    BY DEF TypeOK
  <2>. QED BY <1>2, <1>3, <1>5, <2>1, LoadsKnown
<1>. QED BY <1>3, <1>6 DEF Loadable

\* No step of a benign environment leaves the invariant.
LEMMA RecoverableStep == TypeOK /\ Recoverable /\ [Next]_vars => Recoverable'
<1>. SUFFICES ASSUME TypeOK, Recoverable, [Next]_vars, Benign' PROVE Loadable'
  BY DEF Recoverable
<1>0. TypeOK' /\ Benign /\ Loadable
  BY TypeStep DEF Benign, Recoverable, Next, vars
<1>1. CASE UNCHANGED vars
  BY <1>0, <1>1 DEF Loadable, ActiveIntact, SpareHarmless, SaveProgress, ActiveSlot, ActiveGen, Spare,
                    SaveStores, ResetStores, Loads, Newest, vars
<1>2. CASE BootReadFails
  BY <1>0, <1>2 DEF BootReadFails, Benign
<1>. QED
  BY <1>0, <1>1, <1>2, BootRecoverable, SaveRecoverable, StoresRecoverable, ResetRecoverable,
     PowerLossRecoverable DEF Next

\* An unconfigured device loads the defaults.
LEMMA InitRecoverable == Init => Loadable
<1>. SUFFICES ASSUME Init PROVE Loadable
  OBVIOUS
<1>1. ~Valid(slots["A"]) /\ ~Valid(slots["B"])
  BY BlankInvalid DEF Init, Slots
<1>. QED BY <1>1 DEF Init, Loadable, Loads, Newest, NoSlot

\* In a benign environment a power loss between any two flash operations leaves
\* the acknowledged configuration loadable, or one whose save was begun since.
THEOREM CrashSafe == Spec => []Recoverable
<1>1. Init => Recoverable
  BY InitRecoverable DEF Recoverable
<1>. QED BY <1>1, InitType, TypeStep, RecoverableStep, PTL DEF Spec

\* Every step of the store in a benign environment is one of the promise, or
\* none of its business.
LEMMA BenignStep ==
  ASSUME TypeOK, Loadable, Benign, Benign', [Next]_vars
  PROVE  Abstract!Next \/ UNCHANGED <<up, cur, acked, tried>>
<1>1. CASE UNCHANGED vars
  BY <1>1 DEF vars
<1>2. CASE Boot
  BY <1>2 DEF Boot, Loadable, Abstract!Next, Abstract!Boot
<1>3. CASE BootReadFails
  BY <1>3 DEF BootReadFails, Benign
<1>4. ASSUME NEW cfg \in Config, SaveStart(cfg) PROVE Abstract!Next
  BY <1>4 DEF SaveStart, ram, Abstract!Next, Abstract!Begin
<1>5. CASE SaveErase \/ SaveHdr \/ SaveBody \/ SaveCrc
  BY <1>5 DEF SaveErase, SaveHdr, SaveBody, SaveCrc, SaverWrites, ram
<1>6. CASE SaveFails
  BY <1>6 DEF SaveFails, ram
<1>7. CASE SaveCur
  <2>1. saver # SaverIdle /\ saver.cfg \in Config /\ ~SaveStores
    BY <1>7, Busy, OutcomeTypes DEF SaveCur, SaveStores
  <2>2. up /\ reset = ResetIdle
    BY <1>7, <2>1 DEF SaveCur, Loadable
  <2>3. saver.cfg \in tried
    BY <2>1, <2>2 DEF Loadable, SaveProgress
  <2>4. Abstract!Complete(saver.cfg)
    BY <1>7, <2>3 DEF SaveCur, Abstract!Complete
  <2>. QED BY <2>1, <2>4 DEF Abstract!Next
<1>a. CASE SaveGen \/ SaveCurGen \/ SaveCurSlot \/ ResetCurGen \/ ResetCurSlot
  BY <1>a DEF SaveGen, SaveCurGen, SaveCurSlot, ResetCurGen, ResetCurSlot, ram
<1>8. CASE ResetStart
  <2>1. Abstract!Begin(Defaults)
    BY <1>8 DEF ResetStart, ram, Abstract!Begin
  <2>. QED BY <2>1, ConfigStoreAssumption DEF Abstract!Next
<1>9. CASE ResetEraseA \/ ResetEraseB
  BY <1>9 DEF ResetEraseA, ResetEraseB, ResetErases, ram
<1>10. CASE ResetCur
  <2>1. Abstract!Complete(Defaults)
    BY <1>10 DEF ResetCur, Loadable, ResetIdle, ResetStores, Abstract!Complete
  <2>. QED BY <2>1, ConfigStoreAssumption DEF Abstract!Next
<1>11. CASE PowerLoss
  BY <1>11 DEF PowerLoss, ram, Abstract!Next, Abstract!PowerLoss
<1>. QED BY <1>1, <1>2, <1>3, <1>4, <1>5, <1>6, <1>7, <1>a, <1>8, <1>9, <1>10, <1>11 DEF Next

\* The store implements DurableConfig: a save or reset that returned is what
\* every later boot loads, one that failed or was cut short took effect
\* completely or not at all.
THEOREM Durability == Spec => DurableSpec
<1>1. Init => Abstract!Init
  BY DEF Init, Abstract!Init
<1>2. TypeOK /\ Recoverable /\ [Next]_vars => [Abstract!Next]_Abstract!durable
  <2>. SUFFICES ASSUME TypeOK, Recoverable, [Next]_vars
                PROVE  [Abstract!Next]_Abstract!durable
    OBVIOUS
  <2>1. Benign' = Benign
    BY DEF Benign, Next, vars
  <2>2. CASE Benign
    BY <2>1, <2>2, BenignStep DEF Recoverable, Abstract!durable
  <2>3. CASE ~Benign
    BY <2>1, <2>3 DEF Abstract!durable
  <2>. QED BY <2>2, <2>3
<1>. QED BY <1>1, <1>2, TypeCorrect, CrashSafe, PTL DEF Spec, DurableSpec, Abstract!Spec

-----------------------------------------------------------------------------
(* A save keeps off the active slot, in every environment: its target is   *)
(* chosen when it begins, and only its own end or a factory reset changes  *)
(* the active slot before it ends.                                         *)

SaverApart ==
  /\ ~up => saver = SaverIdle
  /\ saver # SaverIdle => saver.tgt # curSlot

\* No step of either task, no failure and no power loss brings a save to the
\* active slot.
LEMMA ApartStep == TypeOK /\ SaverApart /\ [Next]_vars => SaverApart'
<1>. SUFFICES ASSUME TypeOK, SaverApart, [Next]_vars PROVE SaverApart'
  OBVIOUS
<1>1. CASE UNCHANGED vars
  BY <1>1 DEF SaverApart, vars
<1>2. CASE Boot \/ BootReadFails
  BY <1>2 DEF SaverApart, Boot, BootReadFails
<1>3. ASSUME NEW cfg \in Config, SaveStart(cfg) PROVE SaverApart'
  BY <1>3 DEF SaverApart, SaveStart, Target, Other, ram
<1>a. CASE SaveGen \/ SaveCur \/ SaveCurGen
  <2>1. /\ saver # SaverIdle /\ up' = up /\ up /\ curSlot' = curSlot /\ saver'.tgt = saver.tgt
    BY <1>a, Busy DEF SaveGen, SaveCur, SaveCurGen, ram, TypeOK, SaverStates
  <2>. QED BY <2>1 DEF SaverApart
<1>4. CASE SaveErase \/ SaveHdr \/ SaveBody \/ SaveCrc
  <2>1. /\ saver # SaverIdle /\ up' = up /\ up /\ curSlot' = curSlot
        /\ saver'.tgt = saver.tgt
    BY <1>4, Busy
       DEF SaveErase, SaveHdr, SaveBody, SaveCrc, SaverWrites, ram, TypeOK, SaverStates
  <2>. QED BY <2>1 DEF SaverApart
<1>5. CASE SaveCurSlot \/ SaveFails \/ PowerLoss
  BY <1>5 DEF SaverApart, SaveCurSlot, SaveFails, PowerLoss
<1>6. CASE ResetStart \/ ResetEraseA \/ ResetEraseB \/ ResetCur \/ ResetCurGen
  BY <1>6 DEF SaverApart, ResetStart, ResetEraseA, ResetEraseB, ResetErases, ResetCur, ResetCurGen, ram
<1>7. CASE ResetCurSlot
  <2>1. saver # SaverIdle => saver.tgt \in Slots
    BY OutcomeTypes
  <2>. QED BY <1>7, <2>1 DEF SaverApart, ResetCurSlot, Slots, NoSlot
<1>. QED BY <1>1, <1>2, <1>3, <1>a, <1>4, <1>5, <1>6, <1>7 DEF Next

\* A step of a save changes no slot but its target.
LEMMA SaveStepSpares ==
  ASSUME TypeOK, SaverApart, [Next]_vars, saver' # saver, up', curSlot \in Slots
  PROVE  slots'[curSlot] = slots[curSlot]
<1>1. CASE Boot \/ BootReadFails
  BY <1>1 DEF Boot, BootReadFails
<1>2. ASSUME NEW cfg \in Config, SaveStart(cfg) PROVE slots' = slots
  BY <1>2 DEF SaveStart
<1>3. CASE SaveErase \/ SaveHdr \/ SaveBody \/ SaveCrc
  <2>1. saver # SaverIdle
    BY <1>3, Busy DEF SaveErase, SaveHdr, SaveBody, SaveCrc, SaverWrites
  <2>2. \E r : slots' = [slots EXCEPT ![saver.tgt] = r]
    BY <1>3 DEF SaveErase, SaveHdr, SaveBody, SaveCrc, SaverWrites
  <2>. QED BY <2>1, <2>2 DEF SaverApart, TypeOK
<1>4. CASE SaveFails
  <2>1. saver # SaverIdle
    BY <1>4, Busy DEF SaveFails
  <2>2. \E r : slots' = [slots EXCEPT ![saver.tgt] = r]
    BY <1>4 DEF SaveFails
  <2>. QED BY <2>1, <2>2 DEF SaverApart, TypeOK
<1>5. CASE SaveGen \/ SaveCur \/ SaveCurGen \/ SaveCurSlot
  BY <1>5 DEF SaveGen, SaveCur, SaveCurGen, SaveCurSlot
<1>6. CASE ResetStart \/ ResetEraseA \/ ResetEraseB \/ ResetCur \/ ResetCurGen \/ ResetCurSlot
  BY <1>6 DEF ResetStart, ResetEraseA, ResetEraseB, ResetErases, ResetCur, ResetCurGen, ResetCurSlot
<1>7. CASE PowerLoss
  BY <1>7 DEF PowerLoss
<1>8. CASE UNCHANGED vars
  BY <1>8 DEF vars
<1>. QED BY <1>1, <1>2, <1>3, <1>4, <1>5, <1>6, <1>7, <1>8 DEF Next

\* Also when a factory reset overlaps it and however operations fail, a save
\* never erases or programs the record the configuration in RAM came from.
THEOREM SavesSpareActive == Spec => SaveSparesActive
<1>1. Init => SaverApart
  BY DEF Init, SaverApart
<1>2. TypeOK /\ SaverApart /\ [Next]_vars =>
        [saver' # saver /\ up' /\ curSlot \in Slots => slots'[curSlot] = slots[curSlot]]_vars
  BY SaveStepSpares
<1>. QED BY <1>1, <1>2, ApartStep, TypeCorrect, PTL DEF Spec, SaveSparesActive

=============================================================================
