\* Two targets, A on a dind of its own, with an editor's port each, two runners,
\* one port to allocate and one below the base to move to.  Every command but
\* stop --all, each alone on its target.
CONSTANTS
  A = A
  B = B
  x = x
  y = y
  editor = editor
  app = app
  Targets <- TwoTargets
  Issued <- AllButStopAll
  Declares <- EditorsOnly
  OwnDaemon = {A}
  Runners <- TwoRunners
  HostPorts = {8079, 8080}
  Base = 8080
  Labels <- OneLabel
  Editor = editor
  Rank <- EditorOnly
  NoPort = NoPort
  Free = Free
  NoTarget = NoTarget
  ClaimAttempts = 2
  OneAtATime = TRUE
SPECIFICATION Spec
INVARIANTS TypeOK ServedIsForwarded ReleaseRemovesWhatItRead
PROPERTY OnlyItsOwnerTakesAForward
SYMMETRY RunnerSymmetry
