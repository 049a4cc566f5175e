SPECIFICATION Spec
CONSTANTS
  Published <- MCTwoApps
  OfflineTicks = 1
  KeyQueueLength = 1
  RenderMayFail = TRUE
INVARIANT OverlayLeavesPanel
