CONSTANTS
  Hotness = {1, 2, 3, 4, 5, 6, 7}
  MaxSize = 1
  MaxWeight = 2
  Ratios <- MCRatios
SPECIFICATION Spec
INVARIANTS TreeSound FindCovers
PROPERTY BagSpec
