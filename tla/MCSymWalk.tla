------------------------------ MODULE MCSymWalk ------------------------------
(* An instance of SymWalk: an application that imports a plug-in and two    *)
(* DLLs with Lua in them; the plug-in and the first DLL import each other,  *)
(* and both import the second; all import the debugger.                     *)
EXTENDS SymWalk

WalkModules == {"exe", "plugin", "lua", "lualib", "odbk"}
WalkImports == [m \in WalkModules |->
  CASE m = "exe"    -> {"plugin", "lua", "odbk"}
    [] m = "plugin" -> {"lua", "lualib", "odbk"}
    [] m = "lua"    -> {"plugin", "lualib"}
    [] OTHER        -> {}]

(* The application links some of Lua statically. *)
WalkNames == [m \in WalkModules |->
  CASE m = "exe"    -> {"lua_pcall", "lua_app"}
    [] m = "lua"    -> {"lua_pcall", "lua_call"}
    [] m = "lualib" -> {"lua_call", "luaL_ref"}
    [] OTHER        -> {}]
WalkRestricts == {"lua_pcall", "lua_call", "luaL_ref"}
=============================================================================
