SPECIFICATION Spec
CONSTANTS
  Defaults = d
  Config = {d, x, y}
  Blank = Blank
  Torn = Torn
  MaxGen = 3
  Environments = {{"read_fault"}}
PROPERTIES
  AckedSurvives
