\* Each part with the smallest instance at which all of it happens.
CONSTANTS
  Scenes = {"keyring", "starts", "transfer", "worktrees", "ingress", "admission", "names", "ports", "views", "policy", "panel", "egress", "proposals", "calls", "reviews"}
  Nothing = Nothing
  k = k
  AtOnce = 1
  MayOvertake = FALSE
  Encoding = FALSE
  ForKeyring <- TheKeyring
  ForStarts <- TheStarts
  ForTransfer <- TheTransfer
  ForWorktrees <- TheWorktrees
  ForIngress <- TheIngress
  ForNames <- TheNames
  ForPorts <- ThePorts
  ForViews <- TheViews
  ForPolicy <- ThePolicy
  ForPanel <- ThePanel
  ForEgress <- TheEgress
  ForProposals <- TheProposals
  ForCalls <- TheCalls
  ForReviews <- TheReviews
  Resting <- TheFirst
SPECIFICATION Spec
INVARIANTS
  TypeOK KeysAreKept
  RunsWhereSaved NothingBeyondDeclared InflightIsCounted OriginIsWhole OneUnlessStolen
  NothingMisdirected CloseReachesAll
  MoveOutlivesARestart
  NothingOldShadows
  DerivedStillPasses NothingReachesPast
  ValuesAreKept HeldWhileSteady
  NothingLostOnTheWay
  ReviewIsWhole
PROPERTIES RunsOnePassed CommitsGoWhereSaid
  PrunesNoneThatWasOpen WorkGoesOnlyIfSaid
  QuietPollSettles
  TakenOnlyByALongerName
  PushedIsWhatWasAsked
  ProposesWhatWasBuilt
VIEW Moving
CHECK_DEADLOCK FALSE
