SPECIFICATION FairSpec
CONSTANTS
  Published <- MCTwoApps
  OfflineTicks = 1
  KeyQueueLength = 1
  RenderMayFail = FALSE
PROPERTIES
  BindingReachesFlash
  TimerEnds
