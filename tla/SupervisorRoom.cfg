\* Three dinds, of which any two fit and A and another fill the memory.
CONSTANTS
  A = A
  B = B
  C = C
  x = x
  y = y
  s = s
  t = t
  u = u
  Dinds = {A, B, C}
  Clients = {x, y}
  Timer = Timer
  Subnets = {s, t, u}
  NoSubnet = NoSubnet
  Nobody = Nobody
  Unseen = Unseen
  Unmeasured = Unmeasured
  MaxDinds = 2
  Floor = 1
  Newcomer = 1
  Grace = 1
  IdlePeriod = 2
  Total = 4
  Holds <- ABigOne
  Requested = {"ensure"}
  Faults = {}
  BuildsInTime = TRUE
SPECIFICATION Spec
INVARIANT NoneLost
PROPERTY EnsureStartsWithRoom
SYMMETRY RoomSymmetry
