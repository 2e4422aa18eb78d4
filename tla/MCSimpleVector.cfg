SPECIFICATION Spec
CONSTANTS
  v1 = v1
  v2 = v2
  b1 = b1
  b2 = b2
  b3 = b3
  x = x
  y = y
  Vectors = {v1, v2}
  Blocks = {b1, b2, b3}
  Values = {x, y}
  Raw = Raw
  Broken = Broken
  Moved = Moved
  Null = Null
  Align = 2
  MaxSize = 7
  MaxLength = 4
SYMMETRY Interchangeable
INVARIANTS
  MemoryClean
  ElementsKept
CHECK_DEADLOCK FALSE
