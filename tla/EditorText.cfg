SPECIFICATION EditorSpec
CONSTANTS
  EndDigit = 3
  Boundary = 2
  Char = {a, b}
  MaxInsert = 4
  MAX_LENGTH = 3
  MaxHeight = 4
  DeletableLeaves = 2
CHECK_DEADLOCK FALSE
INVARIANTS TypeOK AtomsOrdered TreeHoldsAtoms
PROPERTIES RefinesTextBuffer EditsAsLseq
