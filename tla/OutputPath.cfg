SPECIFICATION Spec
CONSTANTS
  Slices = {1, 2}
  Block = 2
  RingCapacity = 4
  TsCapacity = 2
  Frames = {1, 2}
  MaxSlices = 5
  MaxPlays = 6
INVARIANTS WholeBlocks MeterNotInflated
PROPERTIES LevelKeepsUp
