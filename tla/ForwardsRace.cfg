\* Two targets of one daemon, with two labels each, and two ports: whoever
\* starts beside the other loses a claim.
CONSTANTS
  A = A
  B = B
  x = x
  y = y
  editor = editor
  app = app
  Targets <- TwoTargets
  Issued <- StartsOnly
  Declares <- BothHaveAnApp
  OwnDaemon = {}
  Runners <- TwoRunners
  HostPorts = {8080, 8081}
  Base = 8080
  Labels <- TwoLabels
  Editor = editor
  Rank <- EditorFirst
  NoPort = NoPort
  Free = Free
  NoTarget = NoTarget
  ClaimAttempts = 2
  OneAtATime = TRUE
SPECIFICATION FairSpec
INVARIANT GivesBackWhatItTook
PROPERTY EveryCommandEnds
