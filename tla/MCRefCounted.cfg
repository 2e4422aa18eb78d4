SPECIFICATION FairSpec
CONSTANTS
  Threads = {t1, t2}
  Objects = {a, b}
  Handles = {h1, h2, h3}
  Contained = {a}
  Null = Null
INVARIANTS
  TypeOK
  CountsMatch
  NothingDangles
  OneDestroyer
PROPERTIES
  LocksHonest
  ImplementsSharedOwnership
  UnreferencedIsFreed
CHECK_DEADLOCK FALSE
