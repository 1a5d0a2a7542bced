SPECIFICATION Spec
CONSTANTS
  Keys = {0, 1, 3}
  Readers = {r1}
  Queries <- AllQueries
  SLICE = 1  Slices = 2
  DELETED_LIFE = 2
  MaxNodes = 3  MaxLeaves = 4
  MaxWrites = 5
INVARIANTS TreeIsMap ElementsKept
PROPERTIES GetCurrent FindBounded
CHECK_DEADLOCK FALSE
