----------------------------- MODULE MCEngines -----------------------------
(* External: what the engines that the loader's comments name export, of   *)
(* the functions the loader looks up.                                      *)
EXTENDS LuaApi

(* External: the functions every engine exports, from the lookups the plan *)
(* makes mandatory without a fallback.                                     *)
CommonApi ==
  {FinishLoadPlan[i].fn : i \in {j \in DOMAIN FinishLoadPlan :
      FinishLoadPlan[j].since = 0 /\ FinishLoadPlan[j].unless = NoName}}
    \cup {"lua_load", "lua_rawseti", "lua_pushlightuserdata", "luaL_ref", "luaL_unref",
          "lua_concat", "luaL_where", "luaL_newstate"}

Api51 == CommonApi \cup {"lua_newstate", "lua_remove", "lua_insert", "lua_pushinteger",
  "lua_tointeger", "lua_tolstring", "lua_tonumber", "lua_call", "lua_pcall",
  "lua_createtable", "lua_getfenv", "lua_setfenv", "lua_cpcall", "luaL_register",
  "luaI_openlib", "luaL_loadbuffer", "luaL_loadfile", "lua_pushthread"}
ApiJit == (Api51 \ {"luaI_openlib"}) \cup {"luaL_openlib", "lua_loadx",
  "luaL_loadbufferx", "luaL_loadfilex"}
Api53 == CommonApi \cup {"lua_newstate", "lua_absindex", "lua_rotate", "lua_getglobal",
  "lua_setglobal", "lua_pushinteger", "lua_tointegerx", "lua_tolstring",
  "lua_tonumberx", "lua_callk", "lua_pcallk", "lua_createtable", "luaL_loadbufferx",
  "luaL_loadfilex", "lua_pushthread", "lua_isinteger"}
Api52 == (Api53 \ {"lua_rotate", "lua_isinteger"}) \cup {"lua_remove", "lua_insert"}
Api50 == (Api51 \ {"lua_newstate", "luaL_newstate", "lua_pushthread", "luaI_openlib"})
  \cup {"lua_open", "lua_tostring", "lua_newtable", "luaL_openlib"}

Api == [lua50 |-> Api50, lua51 |-> Api51, lua52 |-> Api52, lua53 |-> Api53,
        luajit |-> ApiJit]
Engines == DOMAIN Api
=============================================================================
