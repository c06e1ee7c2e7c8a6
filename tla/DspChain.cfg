SPECIFICATION Spec
CONSTANTS
  Levels = {0, 1, 2, 4}
  OpenAt = 2
  CloseAt = 1
  HoldOpen = 10
  Block = 2
  F0Interval = 13
  F0Window = 4
  Width = 8
  Left = 3
  Right = 5
  LastLeft = 1
  Seed = {}
  DefaultSeed = {3, 4, 5, 6}
INVARIANTS VoicingRecent NoiseNeverDies
PROPERTY GateHolds
