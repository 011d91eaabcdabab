SPECIFICATION Spec
CONSTANTS
  Defaults = d
  Config = {d, x, y}
  Blank = Blank
  Torn = Torn
  MaxGen = 3
  Environments = {{"flash_fault"},
                  {"flash_fault", "read_fault", "reset_fault", "reset_crash"},
                  {"flash_fault", "read_fault", "reset_fault", "reset_crash", "reset_race"}}
INVARIANTS
  TypeOK
  NoTie
  Recoverable
PROPERTIES
  DurableSpec
  SaveSparesActive
