\* A daemon that binds its socket and never answers.  The event loop waits for
\* it for ever, so this system does stop.
CONSTANTS
  A = A
  B = B
  C = C
  x = x
  y = y
  s = s
  t = t
  u = u
  Dinds = {A, B}
  Clients = {x}
  Timer = Timer
  Subnets = {s, t, u}
  NoSubnet = NoSubnet
  Nobody = Nobody
  Unseen = Unseen
  Unmeasured = Unmeasured
  MaxDinds = 2
  Floor = 1
  Newcomer = 1
  Grace = 1
  IdlePeriod = 1
  Total = 4
  Holds <- OneEach
  Requested = {"ensure", "reset"}
  Faults = {"hangs"}
  BuildsInTime = TRUE
SPECIFICATION FairSpec
PROPERTY EveryWorkEnds
CHECK_DEADLOCK FALSE
