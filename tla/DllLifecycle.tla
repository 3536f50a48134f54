---------------------------- MODULE DllLifecycle ----------------------------
(***************************************************************************)
(* The DLL in the process: DllMain (odbk_entry.cpp) around everything in   *)
(* LuaHook.  Attach prepares MinHook and starts the core's service; detach *)
(* destroys the core, then takes the hooks away; then the DLL's code is    *)
(* gone, and a later attach starts from fresh globals.                     *)
(*                                                                         *)
(* The host keeps one promise: it does not unload the DLL during a call of *)
(* odbk_install, nor call it before LoadLibrary or after FreeLibrary has   *)
(* begun.  Its threads run Lua all the time.                               *)
(*                                                                         *)
(* External: ~odbk_core destroys its io_service, which ends the service    *)
(* thread; MH_Uninitialize restores the entry of every hooked function.    *)
(***************************************************************************)
EXTENDS LuaHook

CONSTANT MaxAttaches  \* bound: how often the DLL is loaded

ASSUME LifeAssumption == MaxAttaches \in Nat

VARIABLES
  dll,       \* "out", "in", or "detaching": the core is destroyed
  service,   \* does the core's service thread run
  attaches,  \* history: how often the DLL was loaded
  left       \* left[t]: the frames of t that were in detours when the DLL went

dllVars == <<dll, service, attaches, left>>
lifeVars == <<vars, dllVars>>

LifeInit ==
  /\ Init
  /\ dll = "out"
  /\ service = FALSE
  /\ attaches = 0
  /\ left = [t \in Threads |-> {}]

DetourFrames(t) == {i \in DOMAIN stack[t] : stack[t][i].detour # NoDetour}

-----------------------------------------------------------------------------
(* DLL_PROCESS_ATTACH: odbk_hook_init, then odbk_core::init. *)
Attach ==
  /\ Alive
  /\ dll = "out"
  /\ attaches < MaxAttaches
  /\ dll' = "in"
  /\ service' = TRUE
  /\ attaches' = attaches + 1
  /\ UNCHANGED <<vars, left>>

(* Mutant: the singleton is not destroyed. *)
CoreKept == service

CoreDestroyed == FALSE

(* DLL_PROCESS_DETACH, the first half: the service ends with the core. *)
DestroyCore ==
  /\ Alive
  /\ dll = "in"
  /\ pc = "idle"
  /\ dll' = "detaching"
  /\ service' = CoreDestroyed
  /\ UNCHANGED <<vars, attaches, left>>

(* Mutant: odbk_hook_uninit is not called. *)
HooksLeft == enabled

HooksRemoved == {}

(* The second half: odbk_hook_uninit.  Then the DLL is unmapped, and what  *)
(* its globals held is gone with it.                                       *)
RemoveHooks ==
  /\ Alive
  /\ dll = "detaching"
  /\ dll' = "out"
  /\ enabled' = HooksRemoved
  /\ hooks' = [a \in HooksRemoved |-> hooks[a]]
  /\ refused' = {}
  /\ left' = [t \in Threads |-> DetourFrames(t)]
  /\ fn' = [p \in Pointers |-> NULL]
  /\ symbols' = NoSymbols
  /\ version' = 510
  /\ hLua' = NoModule
  /\ loaded' = FALSE
  /\ idx' = 1
  /\ hidx' = 1
  /\ served' = {}
  /\ UNCHANGED <<present, loads, pc, fault, again, stack, service, attaches>>

-----------------------------------------------------------------------------
(* A thread goes on as long as it does not run a detour that went with the *)
(* DLL, nor return into one.                                               *)
HostRuns(t) ==
  /\ HostThread(t)
  /\ \A i \in left[t] : i < Len(stack[t]) /\ i <= Len(stack'[t])
  /\ UNCHANGED dllVars

(* Thread t runs, or returns into, code that is unmapped. *)
RunsUnmapped(t) ==
  \/ left[t] \cap {Len(stack[t]), Len(stack[t]) - 1} # {}
  \/ dll = "out" /\ InDetour(t)

ServiceUnmapped == service /\ dll = "out"

(* The process dies of it. *)
CrashUnmapped ==
  /\ Alive
  /\ ServiceUnmapped \/ \E t \in Threads : RunsUnmapped(t)
  /\ fault' = "unmapped code"
  /\ UNCHANGED <<present, symbols, version, fn, hLua, loaded, idx, loads, pc>>
  /\ UNCHANGED <<hookVars, dllVars>>

LifeNext ==
  \/ Attach
  \/ DestroyCore
  \/ RemoveHooks
  \/ \E m \in Modules : HostLoads(m) /\ UNCHANGED <<hookVars, dllVars>>
  \/ dll = "in" /\ LoadLua /\ UNCHANGED dllVars
  \/ HookStep /\ UNCHANGED dllVars
  \/ \E t \in Threads : HostRuns(t)
  \/ CrashUnmapped

LifeSpec == LifeInit /\ [][LifeNext]_lifeVars

-----------------------------------------------------------------------------
(* Type correctness of the life cycle and of all below it; an install is   *)
(* only under way while the DLL is in, and the service only then runs.     *)
LifeTypeOK ==
  /\ HookTypeOK
  /\ dll \in {"out", "in", "detaching"}
  /\ service = (dll = "in")
  /\ attaches \in 0 .. MaxAttaches
  /\ left \in [Threads -> SUBSET Nat]
  /\ pc # "idle" => dll = "in"

(***************************************************************************)
(* Unloading hurts no thread but those that were inside a detour when the  *)
(* hooks were removed: whenever a thread is about to run unmapped code it  *)
(* was one of them.  What calls a hooked function before, during or after  *)
(* that goes on in the engine, and nothing of the core runs on (DllMain:   *)
(* the core first, then the hooks).                                        *)
(***************************************************************************)
UnloadSparesOthers ==
  /\ ~ServiceUnmapped
  /\ \A t \in Threads : RunsUnmapped(t) => left[t] # {}

(***************************************************************************)
(* An unloaded DLL leaves no trace: no function of an engine is            *)
(* intercepted, and a thread that is still in a detour was in it when the  *)
(* DLL went - none has entered since, however often the DLL came back.     *)
(***************************************************************************)
NothingLeft ==
  dll = "out" => enabled = {} /\ \A t \in Threads : DetourFrames(t) = left[t]
=============================================================================
