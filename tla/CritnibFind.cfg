SPECIFICATION Spec
CONSTANTS
  Keys = {0, 1, 2}
  Readers = {r1}
  Queries <- Downwards
  SLICE = 1  Slices = 2
  DELETED_LIFE = 3
  MaxNodes = 3  MaxLeaves = 4
  MaxWrites = 4
PROPERTIES FindCurrent
CHECK_DEADLOCK FALSE
