SPECIFICATION EditorSpec
CONSTANTS
  EndDigit = 3
  Boundary = 2
  Char = {a, b}
  MaxInsert = 4
  MAX_LENGTH = 2
  MaxHeight = 4
  DeletableLeaves = 10
INVARIANT TreeOrdered
