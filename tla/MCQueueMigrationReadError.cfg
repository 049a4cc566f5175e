SPECIFICATION Spec
CONSTANTS
  Sources = {SrcA, SrcB}
  SrcA = SrcA
  SrcB = SrcB
  LegacyOwner = SrcA
  None = None
  MaxEvents = 1
  Disturbances = {"read_error"}
PROPERTY KeptUntilDelivered
