SPECIFICATION Spec
CONSTANTS
  Tables = {}
  Userdata = {}
  Strings = {s1}
  Closures = {f1}
  Threads = {main, co}
  UpVals = {v1}
  Main = main
  Number = Number
  Nil = Nil
  Dead = Dead
  Weak = {}
  Keys = {}
  Values = {}
  UserValues = {}
  Locals = {s1}
  Finalizable = {}
INVARIANTS
  NothingDangles
  ColoursSound
CHECK_DEADLOCK FALSE
