SPECIFICATION Spec
CONSTANTS
  x1 = x1
  x2 = x2
  x3 = x3
  x4 = x4
  k1 = k1
  k2 = k2
  k3 = k3
  Maps = {m1, m2}
  Items <- SomeItems
  Keys <- SomeKeys
  Null = Null
  NoIndex = NoIndex
SYMMETRY Interchangeable
INVARIANTS
  RepresentationsAgree
  LookupsExact
PROPERTIES
  ImplementsKeyedSequences
