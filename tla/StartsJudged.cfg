\* Two starts of one target from the editor, the second while the first goes on.
CONSTANTS
  Scenes = {"starts"}
  Nothing = Nothing
  k = k
  AtOnce = 2
  MayOvertake = TRUE
  Encoding = FALSE
  ForKeyring <- TheKeyring
  ForStarts <- TheStarts
  ForTransfer <- TheTransfer
  ForWorktrees <- TheWorktrees
  ForIngress <- TheIngress
  ForNames <- TheNames
  ForPorts <- ThePorts
  ForViews <- TheViews
  ForPolicy <- ThePolicy
  ForPanel <- ThePanel
  ForEgress <- TheEgress
  ForProposals <- TheProposals
  ForCalls <- TheCalls
  ForReviews <- TheReviews
  Resting <- TheFirst
SPECIFICATION Spec
INVARIANT RunsWhatWasJudged
CHECK_DEADLOCK FALSE
