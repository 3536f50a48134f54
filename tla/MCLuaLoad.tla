----------------------------- MODULE MCLuaLoad -----------------------------
(* Instances of LuaLoad over the engines of MCEngines. *)
EXTENDS LuaLoad, MCEngines

(* Engines, two engines stripped of one function, and a module that is not Lua. *)
MCExports == [lua50 |-> Api50, lua51 |-> Api51, lua52 |-> Api52, lua53 |-> Api53,
  luajit |-> ApiJit, lua51_stripped |-> Api51 \ {"lua_pcall"}, plain |-> {"DllGetVersion"},
  lua53_stripped |-> Api53 \ {"lua_pushthread"}]
MCModules == DOMAIN MCExports

MCSpecified == <<"lua51", "lua52", "lua53", "lua53_stripped">>
=============================================================================
