------------------------------ MODULE MCLuaCache ------------------------------
(* LuaCacheProps with an object that has a member which is pushed with the counter *)
(* of the object (Foo::smart in test/lua/user_type.cpp).                           *)
EXTENDS LuaCacheProps

CONSTANTS foo, smart

FooForAll == [p \in Pointers |-> foo]
=============================================================================
