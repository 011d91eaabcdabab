---------------------------- MODULE ConfigStore ----------------------------
(***************************************************************************)
(* The configuration store, src/storage/config_store.c: two flash slots A  *)
(* and B, each holding one record with a generation and a CRC.  A save     *)
(* writes the slot that is not active; a boot loads the valid record with  *)
(* the higher generation.                                                  *)
(*                                                                         *)
(* Every flash operation and every read or store of a static variable is a *)
(* step of its own, so that a power loss, a failing operation or the other *)
(* task may come between any two.  Saves run one at a time                 *)
(* (holding_reg_save holds io_lock around them); a factory reset takes no  *)
(* lock.  The copy of the configuration into cur is one step: nothing read *)
(* from cur decides where or what a save writes.                           *)
(*                                                                         *)
(* A record is its header (generation), body (configuration) and CRC.  The *)
(* CRC is the pair it was computed over: two records never share one.      *)
(***************************************************************************)
EXTENDS Integers

CONSTANTS
  Config,       \* the configurations
  Defaults,     \* the factory defaults
  Blank,        \* an erased field
  Torn,         \* a field erased or programmed in part, or twice
  MaxGen,       \* bound: the highest generation
  Environments  \* the environments, each a set of the events it lets happen

Slots == {"A", "B"}
NoSlot == "none"

Events ==
  {"flash_fault",   \* an erase or write of a save fails
   "read_fault",    \* a slot cannot be read at boot
   "reset_fault",   \* an erase of a factory reset fails
   "reset_crash",   \* the power fails during a factory reset
   "reset_race"}    \* a factory reset and a save overlap

ASSUME ConfigStoreAssumption ==
  /\ Defaults \in Config
  /\ MaxGen \in Nat
  /\ Environments \subseteq SUBSET Events
  /\ Blank \notin Nat /\ Blank \notin Config
  /\ Torn \notin Nat /\ Torn \notin Config
  /\ Blank # Torn

VARIABLES
  slots,        \* the records in flash
  up,           \* the application runs
  cur,          \* cur
  curGen,       \* cur_gen
  curSlot,      \* cur_slot
  saver,        \* config_store_save: its next operation and its locals
  reset,        \* config_store_erase_all: its next operation
  acked,        \* history: what the last completed operation established
  tried,        \* history: what operations begun since then may leave behind
  env           \* the environment the device is in, fixed at the start

ram == <<cur, curGen, curSlot>>
vars == <<slots, up, cur, curGen, curSlot, saver, reset, acked, tried, env>>

-----------------------------------------------------------------------------
(* Flash                                                                   *)

BlankRec == [hdr |-> Blank, body |-> Blank, crc |-> <<Blank, Blank>>]
TornRec == [hdr |-> Torn, body |-> Torn, crc |-> <<Torn, Torn>>]

Program(old, blank, new, torn) == IF old = blank THEN new ELSE torn
ProgramHdr(r, gen) == [r EXCEPT !.hdr = Program(r.hdr, Blank, gen, Torn)]
ProgramBody(r, cfg) == [r EXCEPT !.body = Program(r.body, Blank, cfg, Torn)]
ProgramCrc(r, gen, cfg) ==
  [r EXCEPT !.crc = Program(r.crc, <<Blank, Blank>>, <<gen, cfg>>, <<Torn, Torn>>)]

\* What an operation that fails or is interrupted may leave of the record.
EraseOutcomes(r) == {r, BlankRec, TornRec}
HdrOutcomes(r, gen) == {r, ProgramHdr(r, gen), [r EXCEPT !.hdr = Torn]}
BodyOutcomes(r, cfg) == {r, ProgramBody(r, cfg), [r EXCEPT !.body = Torn]}
CrcOutcomes(r, gen, cfg) ==
  {r, ProgramCrc(r, gen, cfg), [r EXCEPT !.crc = <<Torn, Torn>>]}

\* Variant with a fault: the CRC is not compared.
ValidNoCrc(r) == r.hdr \in Nat

\* slot_read: magic, length and CRC agree.
Valid(r) == r.hdr \in Nat /\ r.body \in Config /\ r.crc = <<r.hdr, r.body>>

-----------------------------------------------------------------------------
(* config_store_init, at boot before any other task runs                   *)

\* Variant with a fault: the generations are not compared.
NewestPrefersA ==
  IF Valid(slots["A"]) THEN "A" ELSE IF Valid(slots["B"]) THEN "B" ELSE NoSlot

\* The slot that is loaded: the valid one with the higher generation, A on a tie.
Newest ==
  IF Valid(slots["A"]) /\ (Valid(slots["B"]) => slots["A"].hdr >= slots["B"].hdr)
  THEN "A"
  ELSE IF Valid(slots["B"]) THEN "B" ELSE NoSlot

Loads == IF Newest = NoSlot THEN Defaults ELSE slots[Newest].body

Boot ==
  /\ ~up /\ up' = TRUE
  /\ curSlot' = Newest
  /\ cur' = Loads
  /\ curGen' = IF Newest = NoSlot THEN 0 ELSE slots[Newest].hdr
  /\ acked' = cur'
  /\ tried' = {}
  /\ UNCHANGED <<slots, saver, reset>>

\* A read error: the caller logs it and runs on the defaults.
BootReadFails ==
  /\ "read_fault" \in env
  /\ ~up /\ up' = TRUE
  /\ cur' = Defaults /\ curGen' = 0 /\ curSlot' = NoSlot
  /\ UNCHANGED <<slots, saver, reset, acked, tried>>

-----------------------------------------------------------------------------
(* config_store_save                                                       *)

SaverIdle == [at |-> "idle"]
ResetIdle == "idle"

\* Variants with a fault: always slot A, or the active slot.
TargetFixed == "A"
TargetActive == IF curSlot = "B" THEN "B" ELSE "A"

Other(s) == IF s = "A" THEN "B" ELSE "A"

\* The slot a save writes: the one that is not active.
Target == Other(curSlot)

\* The save reads cur_slot, and then cur_gen.
SaveStart(cfg) ==
  /\ up /\ saver = SaverIdle
  /\ reset = ResetIdle \/ "reset_race" \in env
  /\ saver' = [at |-> "gen", cfg |-> cfg, gen |-> 0, tgt |-> Target]
  /\ tried' = tried \cup {cfg}
  /\ UNCHANGED <<slots, up, ram, reset, acked>>

\* Variant with a fault: the generation is not counted up.
SaveGenKeeps ==
  /\ up /\ saver.at = "gen" /\ curGen < MaxGen
  /\ saver' = [saver EXCEPT !.at = "erase", !.gen = curGen]
  /\ UNCHANGED <<slots, up, ram, reset, acked, tried>>

SaveGen ==
  /\ up /\ saver.at = "gen" /\ curGen < MaxGen
  /\ saver' = [saver EXCEPT !.at = "erase", !.gen = curGen + 1]
  /\ UNCHANGED <<slots, up, ram, reset, acked, tried>>

SaverWrites(at, rec, next) ==
  /\ up /\ saver.at = at
  /\ slots' = [slots EXCEPT ![saver.tgt] = rec]
  /\ saver' = [saver EXCEPT !.at = next]
  /\ UNCHANGED <<up, ram, reset, acked, tried>>

SaveErase == SaverWrites("erase", BlankRec, "hdr")
SaveHdr == SaverWrites("hdr", ProgramHdr(slots[saver.tgt], saver.gen), "body")
SaveBody == SaverWrites("body", ProgramBody(slots[saver.tgt], saver.cfg), "crc")
SaveCrc == SaverWrites("crc", ProgramCrc(slots[saver.tgt], saver.gen, saver.cfg), "cur")

\* The record is complete and RAM follows: cur, from where on the save counts as
\* acknowledged, cur_gen and cur_slot.
SaveCur ==
  /\ up /\ saver.at = "cur"
  /\ cur' = saver.cfg
  /\ saver' = [saver EXCEPT !.at = "cur_gen"]
  /\ acked' = saver.cfg /\ tried' = {}
  /\ UNCHANGED <<slots, up, curGen, curSlot, reset>>

SaveCurGen ==
  /\ up /\ saver.at = "cur_gen"
  /\ curGen' = saver.gen
  /\ saver' = [saver EXCEPT !.at = "cur_slot"]
  /\ UNCHANGED <<slots, up, cur, curSlot, reset, acked, tried>>

SaveCurSlot ==
  /\ up /\ saver.at = "cur_slot"
  /\ curSlot' = saver.tgt
  /\ saver' = SaverIdle
  /\ UNCHANGED <<slots, up, cur, curGen, reset, acked, tried>>

\* What the operation the save is at may leave in its slot when it does not
\* complete.
SaveOutcomes ==
  LET r == slots[saver.tgt]
  IN CASE saver.at = "erase" -> EraseOutcomes(r)
       [] saver.at = "hdr" -> HdrOutcomes(r, saver.gen)
       [] saver.at = "body" -> BodyOutcomes(r, saver.cfg)
       [] saver.at = "crc" -> CrcOutcomes(r, saver.gen, saver.cfg)
       [] OTHER -> {r}

\* The operation reports an error and the save returns -1.
SaveFails ==
  /\ "flash_fault" \in env
  /\ up /\ saver.at \in {"erase", "hdr", "body", "crc"}
  /\ \E r \in SaveOutcomes : slots' = [slots EXCEPT ![saver.tgt] = r]
  /\ saver' = SaverIdle
  /\ UNCHANGED <<up, ram, reset, acked, tried>>

-----------------------------------------------------------------------------
(* config_store_erase_all: no lock, no error path                          *)

ResetStart ==
  /\ up /\ reset = ResetIdle
  /\ saver = SaverIdle \/ "reset_race" \in env
  /\ reset' = "A"
  /\ tried' = tried \cup {Defaults}
  /\ UNCHANGED <<slots, up, ram, saver, acked>>

ResetErases(s, next) ==
  /\ up /\ reset = s
  /\ \/ slots' = [slots EXCEPT ![s] = BlankRec]
     \/ /\ "reset_fault" \in env
        /\ \E r \in EraseOutcomes(slots[s]) : slots' = [slots EXCEPT ![s] = r]
  /\ reset' = next
  /\ UNCHANGED <<up, ram, saver, acked, tried>>

ResetEraseA == ResetErases("A", "B")
ResetEraseB == ResetErases("B", "cur")

ResetCur ==
  /\ up /\ reset = "cur"
  /\ cur' = Defaults
  /\ reset' = "cur_gen"
  /\ acked' = Defaults /\ tried' = {}
  /\ UNCHANGED <<slots, up, curGen, curSlot, saver>>

ResetCurGen ==
  /\ up /\ reset = "cur_gen"
  /\ curGen' = 0
  /\ reset' = "cur_slot"
  /\ UNCHANGED <<slots, up, cur, curSlot, saver, acked, tried>>

ResetCurSlot ==
  /\ up /\ reset = "cur_slot"
  /\ curSlot' = NoSlot
  /\ reset' = ResetIdle
  /\ UNCHANGED <<slots, up, cur, curGen, saver, acked, tried>>

-----------------------------------------------------------------------------
\* Power loss or reset.  The chip runs one operation at a time, the one of the
\* save or the one of the factory reset, and it is interrupted.
PowerLoss ==
  /\ up /\ up' = FALSE
  /\ reset = ResetIdle \/ "reset_crash" \in env
  /\ \/ /\ saver # SaverIdle
        /\ \E r \in SaveOutcomes : slots' = [slots EXCEPT ![saver.tgt] = r]
     \/ /\ reset \in Slots
        /\ \E r \in EraseOutcomes(slots[reset]) : slots' = [slots EXCEPT ![reset] = r]
     \/ UNCHANGED slots
  /\ saver' = SaverIdle
  /\ reset' = ResetIdle
  /\ UNCHANGED <<ram, acked, tried>>

\* A device that was never configured: erased flash, or foreign data.
Init ==
  /\ slots \in [Slots -> {BlankRec, TornRec}]
  /\ up = FALSE
  /\ cur = Defaults /\ curGen = 0 /\ curSlot = NoSlot
  /\ saver = SaverIdle
  /\ reset = ResetIdle
  /\ acked = Defaults
  /\ tried = {}
  /\ env \in Environments

Next ==
  /\ \/ Boot
     \/ BootReadFails
     \/ \E cfg \in Config : SaveStart(cfg)
     \/ SaveGen \/ SaveErase \/ SaveHdr \/ SaveBody \/ SaveCrc
     \/ SaveCur \/ SaveCurGen \/ SaveCurSlot
     \/ SaveFails
     \/ ResetStart \/ ResetEraseA \/ ResetEraseB \/ ResetCur \/ ResetCurGen \/ ResetCurSlot
     \/ PowerLoss
  /\ UNCHANGED env

Spec == Init /\ [][Next]_vars

-----------------------------------------------------------------------------
(* Properties                                                              *)

SaverStates ==
  {SaverIdle} \cup
  [at : {"gen"}, cfg : Config, gen : {0}, tgt : Slots] \cup
  [at : {"erase", "hdr", "body", "crc", "cur", "cur_gen", "cur_slot"}, cfg : Config,
   gen : 1 .. MaxGen, tgt : Slots]

Records ==
  [hdr : (1 .. MaxGen) \cup {Blank, Torn}, body : Config \cup {Blank, Torn},
   crc : ((1 .. MaxGen) \X Config) \cup {<<Blank, Blank>>, <<Torn, Torn>>}]

\* The state keeps its type in every environment; in particular no boot loads a
\* torn configuration or generation into RAM.
TypeOK ==
  /\ slots \in [Slots -> Records]
  /\ up \in BOOLEAN
  /\ cur \in Config
  /\ curGen \in 0 .. MaxGen
  /\ curSlot \in Slots \cup {NoSlot}
  /\ saver \in SaverStates
  /\ reset \in {ResetIdle, "A", "B", "cur", "cur_gen", "cur_slot"}
  /\ acked \in Config
  /\ tried \subseteq Config

\* The active slot and its generation: those of a save or reset that has reached
\* cur and has still to store them, and otherwise cur_slot and cur_gen.
SaveStores == saver.at \in {"cur_gen", "cur_slot"}
ResetStores == reset \in {"cur_gen", "cur_slot"}
ActiveSlot == CASE SaveStores -> saver.tgt [] ~SaveStores /\ ResetStores -> NoSlot [] OTHER -> curSlot
ActiveGen == CASE SaveStores -> saver.gen [] ~SaveStores /\ ResetStores -> 0 [] OTHER -> curGen
Spare == Other(ActiveSlot)

\* How far a save got is what its slot holds.
SaveProgress ==
  saver # SaverIdle =>
    LET r == slots[saver.tgt]
    IN /\ ~SaveStores => saver.tgt = Spare /\ saver.cfg \in tried
       /\ ~SaveStores /\ saver.at # "gen" => saver.gen = curGen + 1
       /\ saver.at = "hdr" => r = BlankRec
       /\ saver.at = "body" => r = [BlankRec EXCEPT !.hdr = saver.gen]
       /\ saver.at = "crc" => r = [BlankRec EXCEPT !.hdr = saver.gen, !.body = saver.cfg]
       /\ saver.at = "cur" => r = [hdr |-> saver.gen, body |-> saver.cfg,
                                  crc |-> <<saver.gen, saver.cfg>>]
       /\ saver.at = "cur_slot" => curGen = saver.gen

\* The configuration in RAM is in the active slot.
ActiveIntact ==
  IF ActiveSlot = NoSlot
  THEN cur = Defaults /\ ActiveGen = 0 /\ ~Valid(slots["B"])
  ELSE Valid(slots[ActiveSlot]) /\ slots[ActiveSlot].hdr = ActiveGen /\ slots[ActiveSlot].body = cur

\* A boot would prefer the other slot only for a save that was begun.
SpareHarmless ==
  Valid(slots[Spare]) =>
    \/ slots[Spare].body \in tried
    \/ IF Spare = "B" THEN slots[Spare].hdr <= ActiveGen ELSE slots[Spare].hdr < ActiveGen

\* What is in flash, in RAM and in progress agree, and a boot loads the
\* acknowledged configuration or one whose operation was begun since.
Loadable ==
  /\ up /\ (reset = ResetIdle \/ ResetStores) =>
       acked = cur /\ ActiveIntact /\ SpareHarmless /\ SaveProgress
  /\ reset # ResetIdle =>
       /\ up /\ saver = SaverIdle
       /\ ~ResetStores => Defaults \in tried
       /\ reset \in {"B", "cur"} => slots["A"] = BlankRec
       /\ reset = "cur" => slots["B"] = BlankRec
       /\ reset = "cur_slot" => curGen = 0
  /\ ~up => saver = SaverIdle /\ Loads \in {acked} \cup tried

\* A factory reset is neither cut short, nor failing, nor overlapped by a save,
\* and the flash can be read at boot.
Benign == env \subseteq {"flash_fault"}

\* In a benign environment, at every instant and between any two flash
\* operations, a power loss would leave the acknowledged configuration loadable,
\* or one whose save was begun since: the peer slot stays loadable
\* (config_store.c:14).
Recoverable == Benign => Loadable

\* In a benign environment the store keeps the promise of DurableConfig.
Abstract ==
  INSTANCE DurableConfig
    WITH up <- Benign /\ up,
         cur <- IF Benign THEN cur ELSE Defaults,
         acked <- IF Benign THEN acked ELSE Defaults,
         tried <- IF Benign THEN tried ELSE {}
DurableSpec == Abstract!Spec

\* However operations fail or are cut short, and also after a boot that could not
\* read, two valid records never carry the same generation, if no save overlaps a
\* factory reset: the comparison in config_store_init never has to choose between
\* equals.
NoTie ==
  "reset_race" \notin env /\ Valid(slots["A"]) /\ Valid(slots["B"])
    => slots["A"].hdr # slots["B"].hdr

\* A save never erases or programs the record the configuration in RAM came from.
SaveSparesActive ==
  [][saver' # saver /\ up' /\ curSlot \in Slots => slots'[curSlot] = slots[curSlot]]_vars

\* config_store.h:30: a save that returned 0 is what the next boot loads, unless
\* another operation was begun after it.
AckedSurvives == [][Boot => cur' \in {acked} \cup tried]_vars

=============================================================================
