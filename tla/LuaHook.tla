------------------------------- MODULE LuaHook -------------------------------
(***************************************************************************)
(* odbk_install and what follows: the Lua loader (LuaLoad), the hooks that *)
(* odbk_install_lua_hooks creates and enables (odbk_lhook.cpp,             *)
(* odbk_hook.cpp), and the threads of the host that run Lua meanwhile, in  *)
(* the engine's own code and in the detours.                               *)
(*                                                                         *)
(* MinHook is external.  MH_CreateHook(target, detour, ppOriginal) fails   *)
(* when target has a hook already, and may fail for reasons of its own (no *)
(* memory, code that it cannot move, MH_Initialize has failed); else it    *)
(* leaves in *ppOriginal the trampoline that stands for the unhooked       *)
(* target.  MH_EnableHook(NULL) makes every hook created so far effective  *)
(* at once; that it fails is left out.  odbk_hook.cpp looks at no result.  *)
(***************************************************************************)
EXTENDS LuaLoad, LuaApi

CONSTANTS
  HookPlan,    \* the hooks of odbk_install_lua_hooks, in order
  Forward,     \* Forward[d]: the pointers detour d calls through, in order
  NoDetour,    \* no detour: the engine's own code
  Threads,     \* the threads of the host
  EntryPoints, \* the functions the host calls
  Calls,       \* Calls[m]: pairs <<f, g>>, the code of f in m calls m's g
  Extended,    \* pairs <<m, f>>: f in m has the parameter mode
  Refusable,   \* bound: the functions that MinHook may refuse to hook
  StackLimit   \* bound: frames on a thread's stack

HookPointers == {HookPlan[i].fn : i \in DOMAIN HookPlan}

ASSUME HookAssumption ==
  /\ HookPlan \in Seq([fn : Pointers, detour : DOMAIN Forward, from : Int, to : Int])
  /\ \A d \in DOMAIN Forward : Forward[d] \in Seq(HookPointers) /\ Forward[d] # <<>>
  /\ NoDetour \notin DOMAIN Forward
  /\ StackLimit \in Nat \ {0}

(* Two pointers that are hooked are never looked up under the same name. *)
ASSUME SymbolsApart ==
  \A i, j \in DOMAIN LoadPlan :
    /\ LoadPlan[i].fn \in HookPointers
    /\ LoadPlan[j].fn \in HookPointers
    /\ LoadPlan[i].sym = LoadPlan[j].sym
    => LoadPlan[i].fn = LoadPlan[j].fn

(* A detour goes on through the pointers of the function it stands for, the *)
(* one whose target it was put on among them (for the refinement below).   *)
DetoursOwn ==
  \A h \in DOMAIN HookPlan :
    LET forward == Forward[HookPlan[h].detour] IN
      /\ \E i \in DOMAIN forward : forward[i] = HookPlan[h].fn
      /\ \A i \in DOMAIN forward, j, k \in DOMAIN LoadPlan :
           LoadPlan[j].fn = HookPlan[h].fn /\ LoadPlan[k].fn = forward[i] =>
             SameFunction(LoadPlan[j].sym, LoadPlan[k].sym)

(* When the code of a function calls another variant of it, that one calls *)
(* no further one, and a detour that can go on to the caller has tested    *)
(* the hooked pointers of the called one first (for ReportedOnce).         *)
CallsOnward ==
  \A m \in Modules : \A c \in Calls[m] : SameFunction(c[1], c[2]) =>
    /\ \A e \in Calls[m] : e[1] = c[2] => ~SameFunction(e[1], e[2])
    /\ \A k \in DOMAIN LoadPlan :
         LoadPlan[k].sym = c[2] /\ LoadPlan[k].fn \in HookPointers =>
           \A j \in DOMAIN LoadPlan : LoadPlan[j].sym = c[1] =>
             \A d \in DOMAIN Forward : \A i \in DOMAIN Forward[d] :
               Forward[d][i] = LoadPlan[j].fn =>
                 \E l \in 1 .. i : Forward[d][l] = LoadPlan[k].fn

VARIABLES
  hooks,    \* MinHook: hooked address -> detour
  enabled,  \* MinHook: the hooks that are effective
  refused,  \* history: the addresses MinHook has refused to hook
  hidx,     \* the next hook of the plan
  served,   \* history: the modules whose symbols an install has used
  again,    \* history: a load has used symbols of a served module
  stack     \* stack[t]: the frames of thread t

hookVars == <<hooks, enabled, refused, hidx, served, again, stack>>
vars == <<loadVars, hookVars>>

Init ==
  /\ LoadInit
  /\ hooks = [a \in {} |-> NoDetour]
  /\ enabled = {}
  /\ refused = {}
  /\ hidx = 1
  /\ served = {}
  /\ again = FALSE
  /\ stack = [t \in Threads |-> <<>>]

-----------------------------------------------------------------------------
(* odbk_install: odbk_load_lua, then odbk_install_lua_hooks.               *)

SymbolModules(s) == {s[f] : f \in DOMAIN s}

LoadLua ==
  /\ LoaderStep
  /\ again' = (again \/ SymbolModules(symbols') \cap served # {})
  /\ UNCHANGED <<hooks, enabled, refused, hidx, served, stack>>

(* odbk_install does not look at the result of odbk_load_lua. *)
BeginHooks ==
  /\ Alive
  /\ pc = "returned"
  /\ pc' = "hook"
  /\ hidx' = 1
  /\ UNCHANGED <<present, symbols, version, fn, hLua, loaded, idx, loads, fault>>
  /\ UNCHANGED <<hooks, enabled, refused, served, again, stack>>

Hooking == Alive /\ pc = "hook" /\ hidx \in DOMAIN HookPlan

ForVersion(h) == h.from <= version /\ version <= h.to

Trampoline(a) == [a EXCEPT !.depth = @ + 1]

(* Mutant: odbk_hook passes a copy of the pointer as ppOriginal. *)
LeftInCopy(target) == target

(* odbk_hook: MH_CreateHook puts it where the target was read from. *)
LeftInPointer(target) == Trampoline(target)

(* The last case is MH_ERROR_ALREADY_CREATED, which is ignored: the pointer *)
(* stays at the hooked code.                                               *)
SkipHook ==
  /\ Hooking
  /\ \/ ~ForVersion(HookPlan[hidx])
     \/ fn[HookPlan[hidx].fn] = NULL
     \/ fn[HookPlan[hidx].fn] \in DOMAIN hooks
  /\ hidx' = hidx + 1
  /\ UNCHANGED <<loadVars, hooks, enabled, refused, served, again, stack>>

(* MinHook refuses for a reason of its own: the pointer stays where it was. *)
RefuseHook ==
  /\ Hooking
  /\ LET h == HookPlan[hidx]
         target == fn[h.fn]
     IN /\ ForVersion(h)
        /\ target # NULL
        /\ target \notin DOMAIN hooks
        /\ target.sym \in Refusable
        /\ refused' = refused \cup {target}
  /\ hidx' = hidx + 1
  /\ UNCHANGED <<loadVars, hooks, enabled, served, again, stack>>

(* Mutant: every hook becomes effective when it is created. *)
EffectiveAtOnce(target) == enabled \cup {target}

(* A hook that is created is not effective yet. *)
Effective(target) == enabled

CreateHook ==
  /\ Hooking
  /\ LET h == HookPlan[hidx]
         target == fn[h.fn]
     IN /\ ForVersion(h)
        /\ target # NULL
        /\ target \notin DOMAIN hooks
        /\ hooks' = [a \in DOMAIN hooks \cup {target} |->
                       IF a = target THEN h.detour ELSE hooks[a]]
        /\ enabled' = Effective(target)
        /\ fn' = [fn EXCEPT ![h.fn] = LeftInPointer(target)]
  /\ hidx' = hidx + 1
  /\ UNCHANGED <<present, symbols, version, hLua, loaded, idx, loads, pc, fault>>
  /\ UNCHANGED <<refused, served, again, stack>>

(* Mutant: odbk_enable_hook is not called. *)
NoneEffective == enabled

(* odbk_enable_hook: MH_EnableHook(nullptr) *)
AllEffective == DOMAIN hooks

EnableHooks ==
  /\ Alive
  /\ pc = "hook"
  /\ hidx \notin DOMAIN HookPlan
  /\ enabled' = AllEffective
  /\ served' = served \cup SymbolModules(symbols)
  /\ pc' = "idle"
  /\ UNCHANGED <<present, symbols, version, fn, hLua, loaded, idx, loads, fault>>
  /\ UNCHANGED <<hooks, refused, hidx, again, stack>>

HookStep == BeginHooks \/ SkipHook \/ RefuseHook \/ CreateHook \/ EnableHooks

-----------------------------------------------------------------------------
(* The threads of the host.  A frame is a call that has not returned: of a *)
(* detour, or (detour = NoDetour) of the engine's code.                    *)

Frame == [detour : DOMAIN Forward \cup {NoDetour},
          at     : Address,                       \* the address called
          via    : Pointers \cup {NoPointer},     \* the pointer it goes on through
          seen   : Nat,                           \* pointers it found NULL
          mode   : BOOLEAN]                       \* has it all its arguments

Top(t) == stack[t][Len(stack[t])]
InDetour(t) == stack[t] # <<>> /\ Top(t).detour # NoDetour
InEngine(t) == stack[t] # <<>> /\ Top(t).detour = NoDetour

(* Control arrives at address a.  Only a detour with a choice tests its    *)
(* pointers; the others call through theirs at once.                       *)
Arrive(a, mode) ==
  IF a \in enabled
    THEN [detour |-> hooks[a], at |-> a, seen |-> 0, mode |-> mode,
          via |-> IF Len(Forward[hooks[a]]) = 1 THEN Forward[hooks[a]][1] ELSE NoPointer]
    ELSE [detour |-> NoDetour, at |-> a, seen |-> 0, mode |-> mode, via |-> NoPointer]

Push(t, frame) == stack' = [stack EXCEPT ![t] = Append(@, frame)]
SetTop(t, frame) == stack' = [stack EXCEPT ![t][Len(stack[t])] = frame]

HostUnchanged == UNCHANGED <<present, symbols, version, fn, hLua, loaded, idx, loads, pc,
                             hooks, enabled, refused, hidx, served, again>>

Function(m, f) == [mod |-> m, sym |-> f, depth |-> 0]

(* External: the host calls the engine, and the engine calls itself. *)
HostCall(t, m, f) ==
  /\ Alive
  /\ stack[t] = <<>>
  /\ m \in present
  /\ f \in EntryPoints \cap Exports[m]
  /\ Push(t, Arrive(Function(m, f), TRUE))
  /\ HostUnchanged /\ UNCHANGED fault

EngineCall(t, f) ==
  /\ Alive
  /\ InEngine(t)
  /\ f \in Exports[Top(t).at.mod]
  /\ <<Top(t).at.sym, f>> \in Calls[Top(t).at.mod]
  /\ Len(stack[t]) < StackLimit
  /\ Push(t, Arrive(Function(Top(t).at.mod, f), TRUE))
  /\ HostUnchanged /\ UNCHANGED fault

(* "if (luaL_loadbufferx) ... else if (luaL_loadbuffer)": one test. *)
TestPointer(t) ==
  /\ Alive
  /\ InDetour(t)
  /\ Top(t).via = NoPointer
  /\ Top(t).seen < Len(Forward[Top(t).detour])
  /\ LET p == Forward[Top(t).detour][Top(t).seen + 1] IN
       SetTop(t, IF fn[p] # NULL THEN [Top(t) EXCEPT !.via = p]
                                 ELSE [Top(t) EXCEPT !.seen = @ + 1])
  /\ HostUnchanged /\ UNCHANGED fault

(* The detour of lua_load leaves mode out for the versions that lack it. *)
Complete(p) == p # "lua_load" \/ version > 510

CallArrives(t) ==
  /\ fn[Top(t).via] # NULL
  /\ Len(stack[t]) < StackLimit
  /\ Push(t, Arrive(fn[Top(t).via], Complete(Top(t).via)))
  /\ UNCHANGED fault

(* The process dies: a call through a NULL pointer, or of itself for ever. *)
CallCrashes(t) ==
  /\ \/ fn[Top(t).via] = NULL /\ fault' = "null forward"
     \/ fn[Top(t).via] # NULL /\ Len(stack[t]) >= StackLimit /\ fault' = "stack overflow"
  /\ UNCHANGED stack

CallOriginal(t) ==
  /\ Alive
  /\ InDetour(t)
  /\ Top(t).via # NoPointer
  /\ CallArrives(t) \/ CallCrashes(t)
  /\ HostUnchanged

(* A function returns, and so do the detours that only pass its result on. *)
Return(t) ==
  /\ Alive
  /\ \/ InEngine(t)
     \/ InDetour(t) /\ Top(t).seen = Len(Forward[Top(t).detour])  \* nothing to call: -1
  /\ \E k \in 0 .. Len(stack[t]) - 1 :
        /\ k > 0 => stack[t][k].detour = NoDetour
        /\ \A j \in k + 1 .. Len(stack[t]) - 1 : stack[t][j].detour # NoDetour
        /\ stack' = [stack EXCEPT ![t] = SubSeq(@, 1, k)]
  /\ HostUnchanged /\ UNCHANGED fault

DetourStep(t) ==
  TestPointer(t) \/ CallOriginal(t) \/ (InDetour(t) /\ Return(t))

HostThread(t) ==
  \/ \E m \in Modules, f \in EntryPoints : HostCall(t, m, f)
  \/ \E m \in Modules : \E c \in Calls[m] : EngineCall(t, c[2])
  \/ TestPointer(t)
  \/ CallOriginal(t)
  \/ Return(t)

Next ==
  \/ \E m \in Modules : HostLoads(m) /\ UNCHANGED hookVars
  \/ LoadLua
  \/ HookStep
  \/ \E t \in Threads : HostThread(t)

Spec == Init /\ [][Next]_vars

(* A thread inside a detour keeps running; there is no lock anywhere.  The  *)
(* host's own code need not go on, nor the installing thread.              *)
FairSpec ==
  /\ Spec
  /\ \A t \in Threads : WF_vars(DetourStep(t))

-----------------------------------------------------------------------------
(* Outside an install every hook is effective (odbk_enable_hook). *)
AllEnabled == pc # "hook" => enabled = DOMAIN hooks

(* Type correctness of the pointers, of MinHook's table, which has no hook  *)
(* that waits to be made effective but during an install, and of the stacks. *)
HookTypeOK ==
  /\ LoadTypeOK
  /\ DOMAIN hooks \subseteq Address
  /\ \A a \in DOMAIN hooks : hooks[a] \in DOMAIN Forward
  /\ enabled \subseteq DOMAIN hooks
  /\ AllEnabled
  /\ refused \subseteq Address
  /\ hidx \in Nat \ {0}
  /\ served \subseteq Modules
  /\ again \in BOOLEAN
  /\ stack \in [Threads -> Seq(Frame)]

(***************************************************************************)
(* While no engine is installed again, no pointer a detour calls through   *)
(* is the address of hooked code, at any moment of any number of installs, *)
(* so that a detour cannot call itself (odbk_hook passes the pointer       *)
(* itself as ppOriginal; luaL_newstate is hooked twice).                   *)
(***************************************************************************)
ForwardNotHooked == ~again => \A p \in HookPointers : fn[p] \notin DOMAIN hooks

(***************************************************************************)
(* The same for a host that may install an engine again: a pointer is at   *)
(* hooked code only when its module went through an install before.        *)
(***************************************************************************)
RecursionNeedsReinstall ==
  \A p \in HookPointers : fn[p] \in DOMAIN hooks => fn[p].mod \in served

(***************************************************************************)
(* What a detour calls is the engine's code, never a detour: the forwards  *)
(* of odbk_lhook.cpp leave the debugger, also while another install moves  *)
(* the pointers under a running detour - as long as no engine is installed *)
(* again.                                                                  *)
(***************************************************************************)
ForwardReachesEngine ==
  ~again => \A t \in Threads : \A i \in DOMAIN stack[t] :
    stack[t][i].detour # NoDetour =>
      \A j \in DOMAIN stack[t] : j = i + 1 => stack[t][j].detour = NoDetour

(***************************************************************************)
(* One call of the host is seen once: on its way through the variants of   *)
(* one function a call enters one detour.  The detours of loadbuffer and   *)
(* loadfile go on to the x function even when the host called the plain    *)
(* one, for the plain one calls the x one (the note in                     *)
(* luaL_loadbufferx_hook), and luaL_newstate is hooked twice.              *)
(***************************************************************************)
ReportedOnce ==
  \A t \in Threads : \A i, j \in DOMAIN stack[t] :
    LET first == stack[t][i]
        later == stack[t][j]
    IN i < j /\ first.detour # NoDetour /\ later.detour # NoDetour
         /\ SameFunction(first.at.sym, later.at.sym) =>
       \E k \in i + 1 .. j - 1 : ~SameFunction(stack[t][k].at.sym, first.at.sym)

(***************************************************************************)
(* After an install every pointer of the hooks for this version leads past *)
(* the debugger to a function whose entry is intercepted, whether the load *)
(* succeeded or broke off - unless MinHook has refused that very function, *)
(* which nobody is told (odbk_hook drops the result): then the pointer     *)
(* still is at the function itself (odbk_install_lua_hooks).               *)
(***************************************************************************)
BoundIntercepted ==
  pc = "idle" /\ loads > 0 /\ ~again =>
    \A i \in DOMAIN HookPlan :
      LET a == fn[HookPlan[i].fn] IN
        ForVersion(HookPlan[i]) /\ a # NULL =>
          /\ a.depth = 0 => a \in refused
          /\ a.depth > 0 => [a EXCEPT !.depth = 0] \in enabled

(***************************************************************************)
(* The debugger only watches: what its detours do between a call of the    *)
(* host and its answer implements Interception.  A call is a frame the     *)
(* host or an engine put on the stack; it runs once an engine's frame      *)
(* stands on it, whatever detours stand between.                           *)
(***************************************************************************)
Asked(frames) == {i \in DOMAIN frames : i = 1 \/ frames[i - 1].detour = NoDetour}
EngineCode == UNION {{m} \X Exports[m] : m \in Modules}
Code(address) == <<address.mod, address.sym>>
RunsIn(frames, i) == {j \in i .. Len(frames) : frames[j].detour = NoDetour}
NotYet == <<NoModule, NoPointer>>

OpenCall(frames, i) ==
  LET runs == RunsIn(frames, i) IN
    [asked |-> Code(frames[i].at),
     ran   |-> IF runs = {} THEN NotYet
               ELSE Code(frames[CHOOSE j \in runs : \A k \in runs : j <= k].at)]

CallsOf(frames) == [i \in Asked(frames) |-> OpenCall(frames, i)]

Promise == INSTANCE Interception WITH
  calls     <- [t \in Threads |-> CallsOf(stack[t])],
  Functions <- EngineCode,
  Same      <- LAMBDA f, g : f[1] = g[1] /\ SameFunction(f[2], g[2]),
  Depths    <- 1 .. StackLimit

ImplementsInterception == Promise!Spec

(***************************************************************************)
(* A pointer never changes while a thread is in a detour that may still    *)
(* read it: the first install creates all hooks and only then enables them *)
(* (odbk_enable_hook at the end of odbk_install_lua_hooks); nothing else   *)
(* orders the installing thread and the threads of the host.               *)
(***************************************************************************)
PointersQuiet ==
  [][\A p \in Pointers : fn'[p] # fn[p] =>
       \A t \in Threads : InDetour(t) =>
         \A i \in DOMAIN Forward[Top(t).detour] : Forward[Top(t).detour][i] # p]_vars

(* A thread inside a detour gets to the engine's code, or back to the host *)
(* with -1: no detour spins, recurses or dies (odbk_lhook.cpp).            *)
DetourAnswers == \A t \in Threads : InDetour(t) ~> ~InDetour(t)

-----------------------------------------------------------------------------
(* Statements of the sources that the program does not keep.               *)

(* odbk_lhook.cpp:127: lua_load is hooked in Lua 5.2 and 5.3. *)
LoadHookedOnModernLua ==
  pc = "idle" /\ loads > 0 /\ loaded /\ version >= 520 /\ "lua_load" \in DOMAIN symbols =>
    Function(symbols["lua_load"], "lua_load") \in enabled

(* odbk_lhook.cpp:127: LuaJIT's function is lua_loadx; it gets its arguments. *)
AllArgumentsPassed ==
  \A t \in Threads : InEngine(t) /\ <<Top(t).at.mod, Top(t).at.sym>> \in Extended => Top(t).mode

(* odbk_lload.h:432: the debugger can debug a target whose Lua it loaded,  *)
(* here: again, for the same engine.                                       *)
NoStackOverflow == fault # "stack overflow"
=============================================================================
