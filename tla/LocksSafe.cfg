\* Three runners, any of them killed at any system call.  The pid of any killed or exited runner may go to a later runner, or to an unrelated process.
CONSTANTS
  r1 = r1
  r2 = r2
  r3 = r3
  p1 = p1
  p2 = p2
  p3 = p3
  Runners <- ThreeRunners
  Pids <- ThreePids
  Nobody = Nobody
  Empty = Empty
SPECIFICATION FairSpec
INVARIANTS TypeOK ExclusiveUnlessStolen RefusedOnlyBySomeone
PROPERTY EveryTryEnds
\* Runners run one command each: when all are over, nothing is left to do.
CHECK_DEADLOCK FALSE
