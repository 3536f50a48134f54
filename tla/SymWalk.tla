------------------------------- MODULE SymWalk -------------------------------
(***************************************************************************)
(* The symbol walk of the Lua loader (load_sym_from_app_modules): when no  *)
(* Lua DLL is known by name, every module of the process is searched for   *)
(* symbols named lua..., its imports before its neighbours, under the      *)
(* loader lock.                                                            *)
(*                                                                         *)
(* The walk is modelled as a component: what it does once load_dbghelp has *)
(* set the pointers it calls through, and for any names and any module of  *)
(* the application (today the program leaves all three empty, and LuaLoad  *)
(* models what becomes of it).                                             *)
(*                                                                         *)
(* External: the debug help library (what it finds in a module is a choice *)
(* or a constant), and the host, whose threads load and free DLLs whenever *)
(* the loader lock is free.                                                *)
(***************************************************************************)
EXTENDS Integers, Sequences, FiniteSets

CONSTANTS
  Modules,    \* the modules there may be in the process
  NoModule,   \* nullptr given for an HMODULE
  Imports,    \* Imports[m]: the modules that m names in its import table
  Names,      \* Names[m]: the symbols lua... of m
  Restricts,  \* s_ctx->restricts: the names that are of interest
  Debugger,   \* core->app_inst_: the debugger's own DLL
  AppModule,  \* core->app_module_
  Buffer,     \* the address of the array moduleFileName
  Enough,     \* so many symbols are all there are (166)
  MaxWalks    \* bound: calls of load_sym_from_app_modules

ASSUME WalkAssumption ==
  /\ NoModule \notin Modules
  /\ Buffer \notin Modules
  /\ \A m \in Modules : Imports[m] \subseteq Modules
  /\ MaxWalks \in Nat

VARIABLES
  inProcess,  \* the modules that are loaded
  lock,       \* does the walk hold the loader lock
  snapshot,   \* the modules of the snapshot that are still to come
  calls,      \* the calls of load_sym_from_module, outermost first
  loadedModules,  \* context.loaded_modules
  warnedModules,  \* context.warned_modules
  symbols,    \* s_ctx->symbols: name -> module
  keyModule,  \* s_ctx->key_module
  pc,         \* "idle", "locked", "walk"
  walks,      \* history: how many walks were started
  visits,     \* history: how often this walk loaded the symbols of a module
  checks      \* history: how often it looked for a module's symbol file

vars == <<inProcess, lock, snapshot, calls, loadedModules, warnedModules, symbols,
          keyModule, pc, walks, visits, checks>>

Frame == [mod : Modules, imports : SUBSET Modules]
NoSymbols == [f \in {} |-> NoModule]
Never == [m \in Modules |-> 0]

Init ==
  /\ inProcess = {}
  /\ lock = FALSE
  /\ snapshot = {}
  /\ calls = <<>>
  /\ loadedModules = {}
  /\ warnedModules = {}
  /\ symbols = NoSymbols
  /\ keyModule = NoModule
  /\ pc = "idle"
  /\ walks = 0
  /\ visits = Never
  /\ checks = Never

-----------------------------------------------------------------------------
(* External: a thread of the host loads or frees a DLL. *)
HostChanges(present) ==
  /\ ~lock
  /\ inProcess' = present
  /\ UNCHANGED <<lock, snapshot, calls, loadedModules, warnedModules, symbols,
                 keyModule, pc, walks, visits, checks>>

HostLoads(m) == m \notin inProcess /\ HostChanges(inProcess \cup {m})
HostFrees(m) == m \in inProcess /\ HostChanges(inProcess \ {m})

(* Mutant: the loader lock is not taken. *)
NoLock == FALSE

LdrLockLoaderLock == TRUE

(* A walk is started only while no symbol is known, with a fresh context.  *)
(* (Left out: a delay load of a module without exports empties the symbols *)
(* between two walks, and key_module stays.)                               *)
LockLoader ==
  /\ pc = "idle"
  /\ walks < MaxWalks
  /\ DOMAIN symbols = {}
  /\ lock' = LdrLockLoaderLock
  /\ pc' = "locked"
  /\ walks' = walks + 1
  /\ loadedModules' = {}
  /\ warnedModules' = {}
  /\ visits' = Never
  /\ checks' = Never
  /\ UNCHANGED <<inProcess, snapshot, calls, symbols, keyModule>>

(* CreateToolhelp32Snapshot *)
TakeSnapshot ==
  /\ pc = "locked"
  /\ snapshot' = inProcess
  /\ pc' = "walk"
  /\ UNCHANGED <<inProcess, lock, calls, loadedModules, warnedModules, symbols,
                 keyModule, walks, visits, checks>>

(* A failure is INVALID_HANDLE_VALUE, not nullptr: the loop finds nothing,  *)
(* and the walk from app_module_ alone is never taken.                      *)
SnapshotFails ==
  /\ pc = "locked"
  /\ lock' = FALSE
  /\ pc' = "idle"
  /\ UNCHANGED <<inProcess, snapshot, calls, loadedModules, warnedModules, symbols,
                 keyModule, walks, visits, checks>>

-----------------------------------------------------------------------------
(* load_sym_from_module                                                    *)

(* What SymLoadModule64 comes to, for the module or, when it has no symbols *)
(* and a .pdb of its name is there, for that file instead.                  *)
Kinds == {"failed", "none", "export", "symbols"}

(* Mutant: the test of restricts is left out. *)
AllNames(m) == Names[m]

Relevant(m) == Names[m] \cap Restricts

(* gather_symbols_callback, for every symbol of m *)
SymbolsGathered(m) ==
  [f \in DOMAIN symbols \cup Relevant(m) |-> IF f \in DOMAIN symbols THEN symbols[f] ELSE m]

(* Mutant: the module that contributed first stays the key module. *)
KeyFirst(m) == IF keyModule = NoModule THEN m ELSE keyModule

(* if (key_module == nullptr || hModule != app_module_) *)
KeyAfter(m) == IF keyModule = NoModule \/ m # AppModule THEN m ELSE keyModule

(* odbk_get_imports and GetModuleHandleA: an import may not be there yet. *)
ImportsPresent(m) == Imports[m] \cap inProcess

(* The test of warned_modules: what it is filled with is the address of the *)
(* file name, never a handle.                                               *)
CheckSymbolFile(m, kind) ==
  \/ /\ kind \in {"export", "none"}
     /\ m \notin warnedModules
     /\ warnedModules' = warnedModules \cup {Buffer}
     /\ checks' = [checks EXCEPT ![m] = @ + 1]
  \/ UNCHANGED <<warnedModules, checks>>  \* or there is no CodeView record

(* Mutant: only circles are looked for. *)
PassedCircle(m) == m = Debugger \/ \E i \in DOMAIN calls : calls[i].mod = m

Passed(m) == m = Debugger \/ m \in loadedModules

(* The call for module m, up to the loop over its imports. *)
LoadSymbols(m, callers) ==
  \/ /\ Passed(m)
     /\ calls' = callers
     /\ UNCHANGED <<loadedModules, warnedModules, symbols, keyModule, visits, checks>>
  \/ /\ ~Passed(m)
     /\ loadedModules' = loadedModules \cup {m}
     /\ visits' = [visits EXCEPT ![m] = @ + 1]
     /\ \E kind \in Kinds :
          /\ CheckSymbolFile(m, kind)
          /\ symbols' = IF kind \in {"export", "symbols"} THEN SymbolsGathered(m) ELSE symbols
     /\ IF DOMAIN symbols' # DOMAIN symbols
          THEN /\ keyModule' = KeyAfter(m)
               /\ calls' = IF Cardinality(DOMAIN symbols') >= Enough THEN callers
                           ELSE Append(callers, [mod |-> m, imports |-> ImportsPresent(m)])
          ELSE /\ keyModule' = keyModule
               /\ calls' = Append(callers, [mod |-> m, imports |-> ImportsPresent(m)])

-----------------------------------------------------------------------------
(* The loops that make these calls.                                        *)

Walking == pc = "walk"
Current == calls[Len(calls)]

(* Mutant: the loop does not go on to the next element. *)
Again(rest, m) == rest

Later(rest, m) == rest \ {m}

(* Module32First, Module32Next *)
NextModule ==
  /\ Walking
  /\ calls = <<>>
  /\ \E m \in snapshot :
       /\ snapshot' = Later(snapshot, m)
       /\ LoadSymbols(m, <<>>)
  /\ UNCHANGED <<inProcess, lock, pc, walks>>

NextImport ==
  /\ Walking
  /\ calls # <<>>
  /\ \E m \in Current.imports :
       LoadSymbols(m, [calls EXCEPT ![Len(calls)].imports = Later(@, m)])
  /\ UNCHANGED <<inProcess, lock, snapshot, pc, walks>>

Return ==
  /\ Walking
  /\ calls # <<>>
  /\ Current.imports = {}
  /\ calls' = SubSeq(calls, 1, Len(calls) - 1)
  /\ UNCHANGED <<inProcess, lock, snapshot, loadedModules, warnedModules, symbols,
                 keyModule, pc, walks, visits, checks>>

(* CloseHandle, LdrUnlockLoaderLock *)
UnlockLoader ==
  /\ Walking
  /\ calls = <<>>
  /\ snapshot = {}
  /\ lock' = FALSE
  /\ pc' = "idle"
  /\ UNCHANGED <<inProcess, snapshot, calls, loadedModules, warnedModules, symbols,
                 keyModule, walks, visits, checks>>

WalkStep == TakeSnapshot \/ SnapshotFails \/ NextModule \/ NextImport \/ Return \/ UnlockLoader

Next ==
  \/ \E m \in Modules : HostLoads(m) \/ HostFrees(m)
  \/ LockLoader
  \/ WalkStep

Spec == Init /\ [][Next]_vars

(* The walking thread keeps running: it waits for nothing but the lock.    *)
FairSpec == Spec /\ WF_vars(WalkStep)

-----------------------------------------------------------------------------
(* Type correctness of the walk's state. *)
WalkTypeOK ==
  /\ inProcess \subseteq Modules
  /\ lock \in BOOLEAN
  /\ snapshot \subseteq Modules
  /\ calls \in Seq(Frame)
  /\ loadedModules \subseteq Modules
  /\ warnedModules \subseteq {Buffer}
  /\ DOMAIN symbols \subseteq Restricts
  /\ \A f \in DOMAIN symbols : symbols[f] \in Modules
  /\ keyModule \in Modules \cup {NoModule}
  /\ pc \in {"idle", "locked", "walk"}
  /\ walks \in Nat
  /\ visits \in [Modules -> Nat]
  /\ checks \in [Modules -> Nat]

(***************************************************************************)
(* No handle goes stale under the walk: whatever module it still holds -   *)
(* of the snapshot, of a call that has not returned, of an import table -  *)
(* is in the process when the walk comes to read it (LdrLockLoaderLock).   *)
(***************************************************************************)
HandlesValid ==
  /\ snapshot \subseteq inProcess
  /\ \A i \in DOMAIN calls : calls[i].mod \in inProcess /\ calls[i].imports \subseteq inProcess

(***************************************************************************)
(* However modules import one another, in circles or along several paths,  *)
(* a walk loads the symbols of each at most once (context.loaded_modules), *)
(* and looks for its symbol file at most once - although what              *)
(* context.warned_modules is asked for was never put there.                *)
(***************************************************************************)
VisitedOnce == \A m \in Modules : visits[m] <= 1 /\ checks[m] <= visits[m]

(***************************************************************************)
(* The key module, the DLL of the Lua VM, is one that symbols were taken   *)
(* from, and the application itself only when nothing else had any         *)
(* (key_module in load_sym_from_module).                                   *)
(***************************************************************************)
KeyIsOwner ==
  /\ DOMAIN symbols # {} => \E f \in DOMAIN symbols : symbols[f] = keyModule
  /\ keyModule = AppModule => \A f \in DOMAIN symbols : symbols[f] = AppModule

(* A walk ends, whatever circles the imports make. *)
WalkEnds == pc # "idle" ~> pc = "idle"

-----------------------------------------------------------------------------
(* A statement of the sources that the program does not keep.              *)

(* odbk_lload.cpp:707: "Load lua symbols only required, skip all other     *)
(* module!": with all symbols found no other module is searched.           *)
SkipsOtherModules ==
  [][Cardinality(DOMAIN symbols) >= Enough => loadedModules' = loadedModules]_vars
=============================================================================
