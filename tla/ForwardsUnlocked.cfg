\* The same targets, where stop --all and ports --move run beside the command
\* that holds the target's lock.
CONSTANTS
  A = A
  B = B
  x = x
  y = y
  editor = editor
  app = app
  Targets <- TwoTargets
  Issued <- AnyCommand
  Declares <- EditorsOnly
  OwnDaemon = {A}
  Runners <- TwoRunners
  HostPorts = {8080, 8081}
  Base = 8080
  Labels <- TwoLabels
  Editor = editor
  Rank <- EditorFirst
  NoPort = NoPort
  Free = Free
  NoTarget = NoTarget
  ClaimAttempts = 2
  OneAtATime = FALSE
SPECIFICATION Spec
INVARIANT ReleaseRemovesWhatItRead
SYMMETRY RunnerSymmetry
