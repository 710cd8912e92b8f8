\* Two dinds, room for one, and daemons that never hang.
CONSTANTS
  A = A
  B = B
  C = C
  x = x
  y = y
  s = s
  t = t
  u = u
  Dinds = {A, B}
  Clients = {x}
  Timer = Timer
  Subnets = {s, t}
  NoSubnet = NoSubnet
  Nobody = Nobody
  Unseen = Unseen
  Unmeasured = Unmeasured
  MaxDinds = 1
  Floor = 1
  Newcomer = 1
  Grace = 1
  IdlePeriod = 1
  Total = 4
  Holds <- OneEach
  Requested = {"ensure", "reset", "purge"}
  Faults = {"dies"}
  BuildsInTime = TRUE
SPECIFICATION FairSpec
PROPERTIES EveryWorkEnds IdleDindsAreReaped
