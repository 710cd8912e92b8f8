\* Two dinds, every request and everything that can go wrong.
CONSTANTS
  A = A
  B = B
  C = C
  x = x
  y = y
  s = s
  t = t
  u = u
  Dinds = {A, B}
  Clients = {x}
  Timer = Timer
  Subnets = {s, t, u}
  NoSubnet = NoSubnet
  Nobody = Nobody
  Unseen = Unseen
  Unmeasured = Unmeasured
  MaxDinds = 2
  Floor = 1
  Newcomer = 1
  Grace = 0
  IdlePeriod = 1
  Total = 4
  Holds <- OneEach
  Requested = {"ensure", "reset", "stop", "purge"}
  Faults = {"crash", "down", "dies", "hangs", "refuses", "survives", "holdout"}
  BuildsInTime = TRUE
SPECIFICATION Spec
INVARIANT EntriesNameNoOtherDind
SYMMETRY SubnetSymmetry
