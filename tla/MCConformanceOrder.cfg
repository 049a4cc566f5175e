\* Two events: their order, and each accepted once.
SPECIFICATION Spec
CONSTANTS
  UnitsPerSecond = 1
  MaxRevision = 4
  TimerApp = TimerApp
  ActionApp = ActionApp
  DefaultSeconds = 1
  ResponseCapacity = 3
  MaxEvents = 2
  MaxPauses = 0
  MaxResets = 1
  MaxLate = 1
  ReplySizes = {2, 5}
PROPERTY
  ImplementsOutbox
