\* The event path, with power failures and failing flash writes.  The liveness
\* properties name what must hold of the power, the connection and the flash.
SPECIFICATION FairSpec
CONSTANTS
  MaxEvents = 3
  Capacity = 2
  QueueLength = 2
  Refused = {3}
INVARIANTS
  OnceInOrder
  NoOvertaking
  NoEventLost
  PipeAgrees
  NoBackpressure
  FlashTracksRam
PROPERTIES
  RemovedOnlyAfterAccepted
  ImplementsOutbox
  AttemptEnds
  EveryEventDelivered
  QueueDrains
