\* A project that builds from a Dockerfile, wherever in it that lies.
CONSTANTS
  Scenes = {"policy"}
  Nothing = Nothing
  k = k
  AtOnce = 1
  MayOvertake = FALSE
  Encoding = FALSE
  ForKeyring <- TheKeyring
  ForStarts <- TheStarts
  ForTransfer <- TheTransfer
  ForWorktrees <- TheWorktrees
  ForIngress <- TheIngress
  ForNames <- TheNames
  ForPorts <- ThePorts
  ForViews <- TheViews
  ForPolicy <- ThePolicy
  ForPanel <- ThePanel
  ForEgress <- TheEgress
  ForProposals <- TheProposals
  ForCalls <- TheCalls
  ForReviews <- TheReviews
  Resting <- TheFirst
SPECIFICATION Spec
INVARIANT DockerfileIsTheOneJudged
CHECK_DEADLOCK FALSE
