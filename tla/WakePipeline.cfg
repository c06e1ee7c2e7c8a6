SPECIFICATION Spec
CONSTANTS
  Block = 2
  RingCap = 5
  ChunkSizes = {1, 2, 3}
  MaxOwed = 6
INVARIANTS
  TypeOK
  NoBlockOverlooked
  NoLostWakeup
  FreshLevel
PROPERTIES
  StopCompletes
  BlocksAreRead
  HandleSpec
  LatchSpec
