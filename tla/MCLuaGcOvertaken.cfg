SPECIFICATION OvertakenSpec
CONSTANTS
  Tables = {}
  Userdata = {u1, u2}
  Strings = {}
  Closures = {}
  Threads = {main}
  UpVals = {}
  Main = main
  Number = Number
  Nil = Nil
  Dead = Dead
  Weak = {}
  Keys = {}
  Values = {}
  UserValues = {}
  Locals = {}
  Finalizable = {u1, u2}
INVARIANTS
  AllWhiteAfterSweep
CHECK_DEADLOCK FALSE
