SPECIFICATION Spec
CONSTANTS
  Published <- MCPublished
  OfflineTicks = 1
  KeyQueueLength = 2
  RenderMayFail = FALSE
INVARIANTS
  TypeOK
  CleanMeansStored
  TimerOfBoundApp
  GestureWithinApp
  PanelShowsState
PROPERTIES
  NoDowngrade
