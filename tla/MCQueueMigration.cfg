\* All properties of the start; the initial states choose whether two sources
\* share a key, whether reads may fail and whether the partition may be erased.
SPECIFICATION FairSpec
CONSTANTS
  Sources = {SrcA, SrcB}
  SrcA = SrcA
  SrcB = SrcB
  LegacyOwner = SrcA
  None = None
  MaxEvents = 1
  Disturbances = {"read_error", "erase"}
INVARIANTS
  SourceIsolation
  LegacySettled
PROPERTIES
  QuarantineFinal
  DeliveredStayGone
  KeptWithReadableFlash
  ComesUp
