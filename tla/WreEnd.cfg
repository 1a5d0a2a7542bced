CONSTANTS
  Hotness = {1, 2, 3}
  MaxSize = 1
  MaxWeight = 2
  Ratios <- MCHalf
SPECIFICATION Spec
INVARIANT RightNodeAbsent
