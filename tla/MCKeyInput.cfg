SPECIFICATION Spec
CONSTANTS
  Keys = {0, 1}
  NoKey = NoKey
  Primary = 0
  StableSamples = 3
  KeyQueueLength = 2
  MaxScans = 13
  LongPress = 4
INVARIANTS
  TypeOK
  LastEventIsState
  GestureTrue
PROPERTY Debounced
