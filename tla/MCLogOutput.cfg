SPECIFICATION FairSpec
CONSTANTS
  t1 = t1
  t2 = t2
  Threads = {t1, t2}
  Flushers = {t2}
  NameSizes = {8, 17}
  FirstMaxName = 16
  Texts <- TwoTexts
  MaxInsertions <- TwoAndOne
  MaxBlocks = 1
INVARIANTS
  BlocksUnbroken
  LinesIntact
PROPERTIES
  InsertionReturns
CHECK_DEADLOCK FALSE
