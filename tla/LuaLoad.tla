------------------------------- MODULE LuaLoad -------------------------------
(***************************************************************************)
(* The Lua loader (odbk_lload.cpp): odbk_load_lua finds the engine's       *)
(* symbols, odbk_lua_finish_load recognises the version and fills the      *)
(* table of API pointers one lookup at a time.  The pointers are globals:  *)
(* they survive from one load to the next, and a load that fails leaves    *)
(* the table as far as it got.                                             *)
(*                                                                         *)
(* A load is a sequence of steps because the pointers are read, without a  *)
(* lock, by the threads of the host that run Lua (module LuaHook).         *)
(***************************************************************************)
EXTENDS Integers, Sequences, FiniteSets

CONSTANTS
  Modules,           \* the DLLs the host may bring into the process
  NoModule,          \* nullptr given for an HMODULE
  Exports,           \* Exports[m]: the names module m exports
  SpecifiedModules,  \* the modules with a built-in file name, in list order
  Pointers,          \* the API pointers the debugger declares
  NoPointer,         \* no pointer is named
  NULL,              \* nullptr as a function address
  LoadPlan,          \* the lookups of odbk_lua_finish_load, in order
  MaxLoads,          \* bound: calls of odbk_load_lua
  MaxPresent         \* bound: modules in the process

ASSUME ModulesAssumption ==
  /\ NoModule \notin Modules
  /\ \A m \in Modules : Exports[m] \subseteq STRING
  /\ SpecifiedModules \in Seq(Modules)
  /\ \A i \in DOMAIN SpecifiedModules : Exports[SpecifiedModules[i]] # {}

ASSUME PlanAssumption ==
  /\ NoPointer \notin Pointers
  /\ LoadPlan \in Seq([fn : Pointers, sym : STRING, since : Int,
                       unless : Pointers \cup {NoPointer}])

(* What the plan makes mandatory, for a version the loader knows, is not    *)
(* assigned again further down, nor is the pointer that makes it            *)
(* unnecessary (lua_load is: it is optional).                               *)
ASSUME PlanOrder ==
  \A i, j \in DOMAIN LoadPlan :
    i < j /\ LoadPlan[i].since <= 530 =>
      LoadPlan[j].fn \notin {LoadPlan[i].fn, LoadPlan[i].unless}

(* A pointer that makes a lookup unnecessary was looked up before, under    *)
(* its own name and in any case, and nothing but that lookup assigns it     *)
(* afterwards.                                                              *)
ASSUME PlanPreferred ==
  \A i \in DOMAIN LoadPlan : LoadPlan[i].unless # NoPointer =>
    \E j \in DOMAIN LoadPlan :
      /\ j < i
      /\ LoadPlan[j].fn = LoadPlan[i].unless
      /\ LoadPlan[j].sym = LoadPlan[i].unless
      /\ LoadPlan[j].unless = NoPointer
      /\ \A k \in DOMAIN LoadPlan : k > j /\ LoadPlan[k].fn = LoadPlan[i].unless => k = i

(***************************************************************************)
(* A code address: function sym of module mod, or, for depth > 0, the      *)
(* trampoline that stands for the address of depth - 1 once that is hooked *)
(* (the loader itself only stores addresses of depth 0).                   *)
(***************************************************************************)
Address == [mod : Modules, sym : STRING, depth : Nat]

ASSUME NullAssumption == NULL \notin Address

VARIABLES
  present,  \* the modules in the process
  symbols,  \* s_ctx->symbols: exported name -> module, of the names found
  version,  \* s_ctx->version; the registry and globals indices follow it
  fn,       \* the API pointers
  hLua,     \* the argument of the last odbk_load_lua
  loaded,   \* its result
  idx,      \* the next lookup of the plan
  loads,    \* how many loads were started
  pc,       \* where the thread inside odbk_load_lua is
  fault     \* what killed the process, if anything did

loadVars == <<present, symbols, version, fn, hLua, loaded, idx, loads, pc, fault>>

Alive == fault = "none"
NoSymbols == [f \in {} |-> NoModule]

(* Mutant: a digit is lost. *)
SignaturesTypo == <<
  [sym |-> "lua_open",   version |-> 50],
  [sym |-> "lua_rotate", version |-> 530],
  [sym |-> "lua_callk",  version |-> 520],
  [sym |-> "lua_gettop", version |-> 510] >>

(* How finish_load tells the versions apart: the first name found decides. *)
Signatures == <<
  [sym |-> "lua_open",   version |-> 500],
  [sym |-> "lua_rotate", version |-> 530],
  [sym |-> "lua_callk",  version |-> 520],
  [sym |-> "lua_gettop", version |-> 510] >>

Versions == {500, 510, 520, 530}

LoadInit ==
  /\ present = {}
  /\ symbols = NoSymbols
  /\ version = 510
  /\ fn = [p \in Pointers |-> NULL]
  /\ hLua = NoModule
  /\ loaded = FALSE
  /\ idx = 1
  /\ loads = 0
  /\ pc = "idle"
  /\ fault = "none"

-----------------------------------------------------------------------------
(* odbk_get_exports emplaces: a name that is already known keeps its address. *)
AddExports(s, m) ==
  [f \in DOMAIN s \cup Exports[m] |-> IF f \in DOMAIN s THEN s[f] ELSE m]

(* get_lua_fn *)
Resolve(f) ==
  IF f \in DOMAIN symbols THEN [mod |-> symbols[f], sym |-> f, depth |-> 0] ELSE NULL

(* GetModuleHandleA succeeds for the i-th specified module and no earlier one. *)
FirstSpecified(i) ==
  /\ SpecifiedModules[i] \in present
  /\ \A j \in 1 .. i - 1 : SpecifiedModules[j] \notin present

NoneSpecified == \A i \in DOMAIN SpecifiedModules : SpecifiedModules[i] \notin present

(* External: the host brings in one more DLL. *)
HostLoads(m) ==
  /\ Alive
  /\ m \notin present
  /\ Cardinality(present) < MaxPresent
  /\ present' = present \cup {m}
  /\ UNCHANGED <<symbols, version, fn, hLua, loaded, idx, loads, pc, fault>>

-----------------------------------------------------------------------------
(* odbk_load_lua_internal up to the call of odbk_lua_finish_load.           *)

BeginLoad(h) ==
  /\ Alive
  /\ pc = "idle"
  /\ loads < MaxLoads
  /\ loads' = loads + 1
  /\ hLua' = h

(* Mutant: s_ctx->symbols.clear() is missing. *)
Kept == symbols

(* s_ctx->symbols.clear() *)
Cleared == NoSymbols

(* The delay load: the host names the engine's module. *)
LoadFromHandle(h) ==
  /\ h \in present
  /\ BeginLoad(h)
  /\ symbols' = AddExports(Cleared, h)
  /\ pc' = "detect"
  /\ UNCHANGED <<present, version, fn, loaded, idx, fault>>

(* No module named: the first specified module in the process is added to *)
(* the symbols there are, which are used even when there is none.         *)
LoadFromSpecified ==
  /\ BeginLoad(NoModule)
  /\ \/ \E i \in DOMAIN SpecifiedModules :
          /\ FirstSpecified(i)
          /\ symbols' = AddExports(symbols, SpecifiedModules[i])
     \/ NoneSpecified /\ DOMAIN symbols # {} /\ UNCHANGED symbols
  /\ pc' = "detect"
  /\ UNCHANGED <<present, version, fn, loaded, idx, fault>>

(***************************************************************************)
(* No symbol at all: the cache is a stub, load_sym_restricts returns at    *)
(* once, and load_sym_from_app_modules calls odbk::LdrLockLoaderLock.      *)
(* Only load_dbghelp sets that pointer and nothing calls load_dbghelp.     *)
(***************************************************************************)
LoadFromAppModules ==
  /\ BeginLoad(NoModule)
  /\ NoneSpecified
  /\ DOMAIN symbols = {}
  /\ fault' = "null loader lock"
  /\ UNCHANGED <<present, symbols, version, fn, loaded, idx, pc>>

-----------------------------------------------------------------------------
(* odbk_lua_finish_load *)

DetectVersion ==
  /\ Alive
  /\ pc = "detect"
  /\ \E i \in DOMAIN Signatures :
        /\ Signatures[i].sym \in DOMAIN symbols
        /\ \A j \in 1 .. i - 1 : Signatures[j].sym \notin DOMAIN symbols
        /\ version' = Signatures[i].version
  /\ idx' = 1
  /\ pc' = "bind"
  /\ UNCHANGED <<present, symbols, fn, hLua, loaded, loads, fault>>

NotLua ==
  /\ Alive
  /\ pc = "detect"
  /\ \A i \in DOMAIN Signatures : Signatures[i].sym \notin DOMAIN symbols
  /\ loaded' = FALSE
  /\ pc' = "returned"
  /\ UNCHANGED <<present, symbols, version, fn, hLua, idx, loads, fault>>

(* A fallback is looked up only while the preferred pointer is NULL. *)
Skipped(step) == step.unless # NoPointer /\ fn[step.unless] # NULL

Looking == Alive /\ pc = "bind" /\ idx \in DOMAIN LoadPlan

SkipLookup ==
  /\ Looking
  /\ Skipped(LoadPlan[idx])
  /\ idx' = idx + 1
  /\ UNCHANGED <<present, symbols, version, fn, hLua, loaded, loads, pc, fault>>

(* Mutant: a pointer is assigned only when the symbol is found. *)
FoundKeepsOld(step) == IF Resolve(step.sym) = NULL THEN fn[step.fn] ELSE Resolve(step.sym)

Found(step) == Resolve(step.sym)

(* Mutant: the return on a missing mandatory function is left out. *)
MissedNever(step) == FALSE

Missed(step) == Resolve(step.sym) = NULL /\ version >= step.since

(* GET_FUNCTION: a missing mandatory function ends the load. *)
GetFunction ==
  /\ Looking
  /\ ~Skipped(LoadPlan[idx])
  /\ fn' = [fn EXCEPT ![LoadPlan[idx].fn] = Found(LoadPlan[idx])]
  /\ \/ Missed(LoadPlan[idx]) /\ loaded' = FALSE /\ pc' = "returned" /\ UNCHANGED idx
     \/ ~Missed(LoadPlan[idx]) /\ idx' = idx + 1 /\ UNCHANGED <<loaded, pc>>
  /\ UNCHANGED <<present, symbols, version, hLua, loads, fault>>

FinishLoad ==
  /\ Alive
  /\ pc = "bind"
  /\ idx \notin DOMAIN LoadPlan
  /\ loaded' = TRUE
  /\ pc' = "returned"
  /\ UNCHANGED <<present, symbols, version, fn, hLua, idx, loads, fault>>

LoaderStep ==
  \/ \E h \in Modules : LoadFromHandle(h)
  \/ LoadFromSpecified
  \/ LoadFromAppModules
  \/ DetectVersion
  \/ NotLua
  \/ SkipLookup
  \/ GetFunction
  \/ FinishLoad

(* The caller gets the result back (odbk_install goes on in LuaHook). *)
LoadReturns ==
  /\ Alive
  /\ pc = "returned"
  /\ pc' = "idle"
  /\ UNCHANGED <<present, symbols, version, fn, hLua, loaded, idx, loads, fault>>

LoadNext ==
  \/ \E m \in Modules : HostLoads(m)
  \/ LoaderStep
  \/ LoadReturns

LoadSpec == LoadInit /\ [][LoadNext]_loadVars

-----------------------------------------------------------------------------
IsSymbolTable(s) == DOMAIN s \subseteq STRING /\ \A f \in DOMAIN s : s[f] \in Modules

(***************************************************************************)
(* Type correctness of the loader's state: odbk_lua_context and the API    *)
(* pointers (pc "hook" and the last three faults belong to LuaHook and     *)
(* DllLifecycle).                                                          *)
(***************************************************************************)
LoadTypeOK ==
  /\ present \subseteq Modules
  /\ IsSymbolTable(symbols)
  /\ version \in Versions
  /\ fn \in [Pointers -> Address \cup {NULL}]
  /\ hLua \in Modules \cup {NoModule}
  /\ loaded \in BOOLEAN
  /\ idx \in Nat \ {0}
  /\ loads \in Nat
  /\ pc \in {"idle", "detect", "bind", "returned", "hook"}
  /\ fault \in {"none", "null loader lock", "null forward", "stack overflow",
                "unmapped code"}

(* What a lookup of the plan asks for is there: the pointer itself, or the *)
(* preferred one it stands in for.                                         *)
Satisfied(step) ==
  \/ fn[step.fn] # NULL
  \/ Skipped(step)

(***************************************************************************)
(* A load that reports success has every function the plan makes mandatory *)
(* for the detected version, or the one that replaces it - whatever the    *)
(* module exports and whatever earlier loads, complete or broken off, left *)
(* in the table (the GET_FUNCTION sequence of odbk_lua_finish_load).       *)
(***************************************************************************)
SuccessIsComplete ==
  pc = "returned" /\ loaded =>
    \A i \in DOMAIN LoadPlan : LoadPlan[i].since <= version => Satisfied(LoadPlan[i])

(* Pointer p is at a function of module m. *)
PointsInto(p, m) == fn[p] # NULL /\ fn[p].mod = m

(***************************************************************************)
(* After a successful delay load of an engine a pointer into another one   *)
(* can only be a fallback that was not looked up because its preferred     *)
(* function is there, in the engine just loaded: a stale pointer is never  *)
(* the one to use.  (A load by name promises less, see ApiFromSpecified.)  *)
(***************************************************************************)
StalePointersShadowed ==
  pc = "returned" /\ loaded /\ hLua # NoModule =>
    \A p \in Pointers :
      \/ fn[p] = NULL
      \/ PointsInto(p, hLua)
      \/ \E i \in DOMAIN LoadPlan : /\ LoadPlan[i].fn = p
                                   /\ LoadPlan[i].unless # NoPointer
                                   /\ PointsInto(LoadPlan[i].unless, hLua)

(* What a delay load of module m must come to, from its exports alone: every *)
(* mandatory function is exported, or the one that makes it unnecessary is.  *)
VersionOf(m) ==
  IF "lua_open" \in Exports[m] THEN 500
  ELSE IF "lua_rotate" \in Exports[m] THEN 530
  ELSE IF "lua_callk" \in Exports[m] THEN 520 ELSE 510

Loadable(m) ==
  /\ \E i \in DOMAIN Signatures : Signatures[i].sym \in Exports[m]
  /\ \A i \in DOMAIN LoadPlan : LoadPlan[i].since <= VersionOf(m) =>
        \/ LoadPlan[i].sym \in Exports[m]
        \/ LoadPlan[i].unless \in Exports[m] \ {NoPointer}

(***************************************************************************)
(* The result of a delay load, which names the module, depends on that     *)
(* module alone: not on pointers or symbols an earlier load, complete or   *)
(* broken off, left behind, which the fallback tests of                    *)
(* odbk_lua_finish_load read.  (A load by name does depend on them.)       *)
(***************************************************************************)
OutcomeHistoryFree ==
  pc = "returned" /\ hLua # NoModule => (loaded <=> Loadable(hLua))

-----------------------------------------------------------------------------
(* Statements of the sources that the program does not keep.               *)

(* odbk_lload.cpp:238: without a Lua DLL the start is slow - it is not fatal. *)
SlowStartSurvives == fault # "null loader lock"

(* odbk_lload.cpp:268: "try load lua api from specified modules": once one  *)
(* of them is used, the API a load by name binds is theirs.                 *)
ApiFromSpecified ==
  LET specified == {SpecifiedModules[i] : i \in DOMAIN SpecifiedModules} IN
    /\ pc = "returned" /\ loaded /\ hLua = NoModule
    /\ \E f \in DOMAIN symbols : symbols[f] \in specified
    => \A p \in Pointers : fn[p] # NULL => fn[p].mod \in specified
=============================================================================
