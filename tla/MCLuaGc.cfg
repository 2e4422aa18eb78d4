SPECIFICATION Spec
CONSTANTS
  Tables = {t1}
  Userdata = {u1}
  Strings = {}
  Closures = {}
  Threads = {main}
  UpVals = {}
  Main = main
  Number = Number
  Nil = Nil
  Dead = Dead
  Weak = {t1}
  Keys = {u1}
  Values = {u1}
  UserValues = {t1}
  Locals = {}
  Finalizable = {t1, u1}
INVARIANTS
  NothingDangles
  ColoursSound
PROPERTIES
  AtomicExact
  FinalizersKept
CHECK_DEADLOCK FALSE
