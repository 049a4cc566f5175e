SPECIFICATION FairSpec
CONSTANTS
  Interval = 2
  MaxDelay = 1
  Presentations <- MCPresentations
INVARIANTS
  TypeOK
  AppliedMeansShown
PROPERTIES
  PhaseHolds
  SeenAgain
