SPECIFICATION Spec
CONSTANTS
  Objects = {o1, o2, o3}
  Pointers = {p1, p2, p3}
  Descriptors = {1, 2, 3}
  StdOut = 1
  Addresses = {a1, a2}
  Invalid = Invalid
  Null = Null
  MaxSize = 2
  MaxLive = 3
  MaxLost = 1
  MaxCalls = 1
SYMMETRY Symmetry
INVARIANTS
  DescriptorsOwned
  MappingsOwned
CHECK_DEADLOCK FALSE
