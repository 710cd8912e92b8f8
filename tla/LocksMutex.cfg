\* Two runners are enough to break what the file's first line says.
CONSTANTS
  r1 = r1
  r2 = r2
  r3 = r3
  p1 = p1
  p2 = p2
  p3 = p3
  Runners <- TwoRunners
  Pids <- TwoPids
  Nobody = Nobody
  Empty = Empty
SPECIFICATION Spec
INVARIANT MutualExclusion
CHECK_DEADLOCK FALSE
