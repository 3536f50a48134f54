--------------------------- MODULE MCDllLifecycle ---------------------------
(* An instance of DllLifecycle: the DLL comes twice, and installs are made  *)
(* of different engines - a complete load, one through aliases and          *)
(* relocations, one that breaks off - or of the same engine again.          *)
EXTENDS DllLifecycle, MCEngines

LifePlan ==
  SelectSeq(FinishLoadPlan, LAMBDA s :
    \/ s.fn \in {InstallPlan[i].fn : i \in DOMAIN InstallPlan}
    \/ s.fn \in {"lua_loadx", "lua_pushthread"})
LifePointers == {LifePlan[i].fn : i \in DOMAIN LifePlan}

LifeExports == [lua50 |-> Api50, luajit |-> ApiJit,
  lua53_stripped |-> Api53 \ {"lua_pushthread"}]
LifeModules == DOMAIN LifeExports
LifeSpecified == <<"luajit">>
LifeEntryPoints == {"lua_open", "luaL_openlib", "lua_load", "luaL_loadbuffer"}

(* External: which API functions the engines call through their own entries. *)
LifeCalls == [m \in LifeModules |->
  {<<"lua_open", "lua_newstate">>, <<"luaL_loadbuffer", "luaL_loadbufferx">>} \cup
  IF m = "luajit" THEN {<<"luaL_loadbufferx", "lua_loadx">>}
                  ELSE {<<f, "lua_load">> : f \in {"luaL_loadbuffer", "luaL_loadbufferx"}}]

(* What the proofs of ImplementsInterception and ReportedOnce ask of the    *)
(* program's tables and of the engines.                                    *)
ASSUME LifeDetoursOwn == DetoursOwn
ASSUME LifeCallsOnward == CallsOnward
=============================================================================
