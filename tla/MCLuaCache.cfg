SPECIFICATION FairSpec
CONSTANTS
  foo = foo
  smart = smart
  Objects = {foo}
  Pointers = {foo, smart}
  Userdata = {u1, u2}
  Ctrl <- FooForAll
  Null = Null
  MaxHeld = 2
  MaxDepth = 2
INVARIANTS
  TypeOK
  HeldExactly
  PushedAlive
  
PROPERTIES
  CloseReleases
CHECK_DEADLOCK FALSE
