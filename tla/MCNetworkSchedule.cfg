SPECIFICATION Spec
CONSTANTS
  TickRange = 8
  PollInterval = 2
  RetryInterval = 1
  ShortDelay = 1
  MaxLag = 1
INVARIANTS
  DecidesByTrueTime
  LossRemembered
