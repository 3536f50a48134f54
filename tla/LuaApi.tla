------------------------------- MODULE LuaApi -------------------------------
(***************************************************************************)
(* The tables of the program: which Lua API pointers the debugger keeps,   *)
(* in which order odbk_lua_finish_load looks them up and which of them it  *)
(* cannot do without, which of them odbk_install_lua_hooks intercepts, and *)
(* which pointers each detour goes through.  The state machines that read  *)
(* these tables (LuaLoad, LuaHook) take them as constants.                 *)
(***************************************************************************)
EXTENDS Sequences, Integers

NoName == ""

(* A version no engine has: a lookup required "since" it is optional.      *)
Never == 9999

(***************************************************************************)
(* One lookup: pointer fn is assigned the address of symbol sym (NULL if   *)
(* there is none).  It is skipped when pointer unless is already set.  A   *)
(* NULL result ends the load when the engine's version is at least since.  *)
(***************************************************************************)
Lookup(ptr, sym, since, unless) ==
  [fn |-> ptr, sym |-> sym, since |-> since, unless |-> unless]

(* The GET_FUNCTION macros, and the tests around them, by what they leave.  *)
Required(f)          == Lookup(f, f, 0, NoName)
Optional(f)          == Lookup(f, f, Never, NoName)
Fallback(f, g)       == Lookup(g, g, 0, f)           \* only while f is NULL
Alias(f, alias)      == Lookup(f, alias, Never, f)
Relocate(f, alias)   == Lookup(f, alias, Never, NoName)
RequiredSince(v, f)  == Lookup(f, f, v, NoName)

FinishLoadPlan == <<
  Optional("lua_open"), Fallback("lua_open", "lua_newstate"),
  Required("lua_newthread"), Required("lua_close"), Required("lua_error"),
  Required("luaopen_base"), Optional("lua_absindex"), Required("lua_sethook"),
  Required("lua_getinfo"), Optional("lua_remove"), Optional("lua_rotate"),
  Required("lua_settable"), Required("lua_gettable"), Required("lua_rawget"),
  Required("lua_rawgeti"), Required("lua_rawset"), Required("lua_pushstring"),
  Required("lua_pushlstring"), Required("lua_type"), Required("lua_typename"),
  Required("lua_settop"), Required("lua_gettop"), Required("lua_getlocal"),
  Required("lua_setlocal"), Required("lua_getstack"), Optional("lua_insert"),
  Required("lua_pushnil"), Required("lua_pushvalue"), Required("lua_pushcclosure"),
  Required("lua_pushnumber"), Required("lua_checkstack"), Required("lua_gethookmask"),
  Required("lua_pushboolean"), Optional("lua_concat"), Optional("luaL_where"),
  Optional("lua_getglobal"), Optional("lua_setglobal"), Optional("lua_pushinteger"),
  Optional("lua_tointeger"), Optional("lua_tointegerx"), Optional("lua_tostring"),
  Fallback("lua_tostring", "lua_tolstring"), Optional("lua_tonumberx"),
  Fallback("lua_tonumberx", "lua_tonumber"), Required("lua_toboolean"),
  Required("lua_tocfunction"), Required("lua_touserdata"), Optional("lua_callk"),
  Fallback("lua_callk", "lua_call"), Optional("lua_pcallk"),
  Fallback("lua_pcallk", "lua_pcall"), Optional("lua_newtable"),
  Fallback("lua_newtable", "lua_createtable"), Optional("lua_load"),
  Required("lua_next"), Required("lua_rawequal"), Required("lua_getmetatable"),
  Required("lua_setmetatable"), Optional("luaL_ref"), Optional("luaL_unref"),
  Required("luaL_newmetatable"), Required("lua_getupvalue"),
  Required("lua_setupvalue"), Required("luaL_openlibs"), Optional("lua_getfenv"),
  Optional("lua_setfenv"), Optional("lua_cpcall"), Required("lua_newuserdata"),
  Optional("luaL_newstate"), Optional("luaL_register"), Optional("luaI_openlib"),
  Alias("luaI_openlib", "luaL_openlib"), Optional("luaL_loadbuffer"),
  Optional("luaL_loadbufferx"), Optional("luaL_loadfile"), Optional("luaL_loadfilex"),
  Optional("lua_towstring"), Optional("lua_iswstring"),
  RequiredSince(510, "lua_pushthread"), Optional("lua_isinteger"),
  Optional("lua_loadx"), Relocate("lua_load", "lua_loadx") >>

(* The pointers of odbk_lload.cpp; the last three are never looked up.     *)
DeclaredPointers ==
  {FinishLoadPlan[i].fn : i \in DOMAIN FinishLoadPlan}
    \cup {"lua_rawseti", "lua_pushlightuserdata", "lua_load_510"}

-----------------------------------------------------------------------------
(* The plain and the x functions do the same: the plain one calls the other. *)
Variants == {{"luaL_loadbuffer", "luaL_loadbufferx"}, {"luaL_loadfile", "luaL_loadfilex"},
             {"lua_load", "lua_loadx"}, {"luaI_openlib", "luaL_openlib"}}
SameFunction(f, g) == f = g \/ {f, g} \in Variants

(***************************************************************************)
(* One __HOOKFN / __HOOKFN_ALIAS: the function behind pointer fn is        *)
(* hooked with detour (the name of the C function without its suffix       *)
(* _hook), when the engine's version lies in from..to.                     *)
(***************************************************************************)
Hook(ptr, detour, from, to) == [fn |-> ptr, detour |-> detour, from |-> from, to |-> to]
HookAny(f) == Hook(f, f, 0, Never)

InstallPlan == <<
  HookAny("lua_open"), HookAny("lua_newstate"), HookAny("luaL_newstate"),
  HookAny("luaopen_base"), HookAny("lua_close"), HookAny("lua_newthread"),
  HookAny("lua_pcall"), HookAny("lua_pcallk"), HookAny("lua_call"),
  HookAny("lua_callk"), HookAny("luaL_newmetatable"), HookAny("lua_sethook"),
  HookAny("luaL_loadbufferx"), HookAny("luaL_loadbuffer"), HookAny("luaL_loadfilex"),
  HookAny("luaL_loadfile"), Hook("lua_load", "lua_load", 511, Never),
  Hook("lua_load", "lua_load_510", 0, 510), HookAny("luaL_newstate"),
  HookAny("luaL_openlibs"), Hook("luaI_openlib", "luaI_openlib", 0, 529) >>

(***************************************************************************)
(* The pointers a detour calls through, in the order it tries them.  Only  *)
(* the loadbuffer and loadfile detours test a pointer before they use it.  *)
(***************************************************************************)
LoadFilePointers == <<"luaL_loadfilex", "luaL_loadfile">>

(* Mutant: the plain function is tried first. *)
LoadBufferPlainFirst == <<"luaL_loadbuffer", "luaL_loadbufferx">>

LoadBufferPointers == <<"luaL_loadbufferx", "luaL_loadbuffer">>

(* Mutant: luaL_newstate_hook calls lua_newstate. *)
OwnPointerMixedUp(f) == IF f = "luaL_newstate" THEN <<"lua_newstate">> ELSE <<f>>

OwnPointer(f) == <<f>>

DetourPointers(detour) ==
  CASE detour \in {"luaL_loadbuffer", "luaL_loadbufferx"} -> LoadBufferPointers
    [] detour \in {"luaL_loadfile", "luaL_loadfilex"}     -> LoadFilePointers
    [] detour = "lua_load_510"                            -> OwnPointer("lua_load")
    [] OTHER                                              -> OwnPointer(detour)

Detours == {InstallPlan[i].detour : i \in DOMAIN InstallPlan}
ForwardPlan == [d \in Detours |-> DetourPointers(d)]
=============================================================================
