SPECIFICATION Spec
CONSTANTS
  Block = 2
  Target = 48
  Ranges <- MCRanges
  MaxRanges = 1
  AnySize = {1, 2, 3, 33}
  MaxCount = 2
INVARIANT CallerChunks
