SPECIFICATION Spec
CONSTANTS
  Objects = {e1, e2, e3}
  Blocks = {b1, b2, b3}
  Infos = {i1}
  Places = {here}
  Thrown = {"filesystem_error"}
  None = None
  MaxInfos = 2
SYMMETRY Symmetry
INVARIANTS TypeOK BlocksCounted RethrownAsNearest
PROPERTY ImplementsValues
CHECK_DEADLOCK FALSE
