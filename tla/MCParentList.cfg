SPECIFICATION FairSpec
CONSTANTS
  n1 = n1
  n2 = n2
  n3 = n3
  n4 = n4
  Lists = {l1, l2}
  Nodes = {n1, n2, n3, n4}
  Null = Null
  Key <- TwoKeys
  Unhookable = {n4}
INVARIANTS
  ListsWhole
  LifetimeBalanced
PROPERTIES
  OrderStable
  LoopsEnd
  ImplementsSequences
