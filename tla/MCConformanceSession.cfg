SPECIFICATION Spec
CONSTANTS
  UnitsPerSecond = 2
  MaxRevision = 4
  TimerApp = TimerApp
  ActionApp = ActionApp
  DefaultSeconds = 1
  ResponseCapacity = 3
  MaxEvents = 1
  MaxPauses = 1
  MaxResets = 1
  MaxLate = 1
  ReplySizes = {2, 5}
INVARIANTS
  TimerKeepsTime
  EventsAcceptable
  ViewCountsEachOnce
  OnlyWholeReplies
