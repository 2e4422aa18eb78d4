------------------------------- MODULE MCLuaGc -------------------------------
(* One instance with tables and userdata, one with coroutines and closures. *)
EXTENDS LuaGcProps
=============================================================================
