SPECIFICATION ParserSpec
CONSTANTS
  short_name = short_name
  other_short_name = other_short_name
  long_name = long_name
  Names = {short_name, other_short_name, long_name}
  Short = {short_name, other_short_name}
  Levels = {0, 1}
  NoName = NoName
  BadLevel = BadLevel
  Idle = Idle
  Words <- TheWords
  Tokens <- TheTokens
  WholeTokens <- TheWholeTokens
  Letters = {1, 2, 3, 4, 5}
  Equals = 9
  Groups = {"g0", "g1", "g2"}
  FirstGroup = "g0"
  Options <- TheOptions
  Group <- TheGroup
  Name <- TheName
  ShortName <- TheShort
  ArgsCount <- TheCount
  Kind <- TheKind
  AddedGroup <- TheAdded
  Optional = {"all"}
  None = None
  AllArgs = AllArgs
  Argv0 = "argv0"
  MaxWords = 3
INVARIANTS
  WordsOnce
  LongNamesAnswered
PROPERTIES
  OptionsResolved
CHECK_DEADLOCK FALSE
