SPECIFICATION Spec
CONSTANTS
  Threads = {t1, t2}
  NBits = 2
  NOctets = 2
  Octet = {0, 1, 2}
  BadFirst = {0}
  BadLast = {0}
  DefaultIp <- MCDefaultIp
  Ips <- MCIps
  OctetWrites <- MCOctetWrites
  DoValues = {{0, 1}}
  Nobody = Nobody
  NoIp = NoIp
SYMMETRY MCSymmetry
INVARIANTS
  TypeOK
  CoilsKept
  SetIpSurvives
