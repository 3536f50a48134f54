----------------------------- MODULE MCLuaHook -----------------------------
(* Instances of LuaHook over the engines of MCEngines. *)
EXTENDS LuaHook, MCEngines

(* The lookups whose pointers the hooks read; the others bind pointers that *)
(* no detour uses.  lua_pushthread stays, for the load that breaks off.     *)
HookedPlan ==
  SelectSeq(FinishLoadPlan, LAMBDA s :
    \/ s.fn \in {InstallPlan[i].fn : i \in DOMAIN InstallPlan}
    \/ s.fn \in {"lua_loadx", "lua_pushthread"})
HookedPointers == {HookedPlan[i].fn : i \in DOMAIN HookedPlan}

MCExports == [lua50 |-> Api50, lua51 |-> Api51, lua52 |-> Api52, lua53 |-> Api53,
  luajit |-> ApiJit, plain |-> {"DllGetVersion"},
  lua53_stripped |-> Api53 \ {"lua_pushthread"}]
MCModules == DOMAIN MCExports

MCSpecified == <<"lua51", "lua52", "lua53">>

(* External: which API functions the engines call through their own entries. *)
CommonCalls == {<<"luaL_newstate", "lua_newstate">>, <<"lua_open", "lua_newstate">>,
  <<"luaL_openlibs", "luaopen_base">>, <<"luaL_loadfile", "luaL_loadfilex">>,
  <<"luaL_loadbuffer", "luaL_loadbufferx">>, <<"lua_pcall", "luaL_loadbuffer">>,
  <<"lua_pcallk", "luaL_loadbufferx">>}
MCCalls == [m \in MCModules |-> CommonCalls \cup
  IF m = "luajit"
    THEN {<<"lua_load", "lua_loadx">>, <<"luaL_loadbufferx", "lua_loadx">>,
          <<"luaL_loadfilex", "lua_loadx">>}
    ELSE {<<f, "lua_load">> : f \in {"luaL_loadbuffer", "luaL_loadbufferx",
                                     "luaL_loadfile", "luaL_loadfilex"}}]
MCEntryPoints == {"luaL_newstate", "lua_open", "luaL_openlibs", "luaI_openlib",
  "luaL_openlib", "lua_load", "lua_loadx", "luaL_loadbuffer", "luaL_loadbufferx",
  "luaL_loadfile", "lua_pcall", "lua_pcallk"}
MCExtended == {<<m, f>> \in MCModules \X {"lua_load", "lua_loadx"} :
  /\ f \in MCExports[m]
  /\ f = "lua_loadx" \/ m \in {"lua52", "lua53", "lua53_stripped"}}

(* One engine, for the runs that show a single defect. *)
Only51 == {"lua51"}
Only53 == {"lua53"}
OnlyJit == {"luajit"}
OnlyStripped == {"lua53_stripped"}
NoneSpecifiedHere == <<>>
=============================================================================
