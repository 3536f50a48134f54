------------------------- MODULE DllLifecycle_proof -------------------------
(***************************************************************************)
(* What holds of the DLL's coming and going for every hook plan, every     *)
(* engine, any number of attaches, installs and host threads.              *)
(***************************************************************************)
EXTENDS DllLifecycle, LuaHook_proof

LifeInv == LifeTypeOK /\ StackInv /\ NothingLeft

LEMMA LifeInitInv == LifeInit => LifeInv
<1> SUFFICES ASSUME LifeInit PROVE LifeInv
  OBVIOUS
<1>1. HookTypeOK /\ StackInv /\ fault = "none" /\ pc = "idle" /\ enabled = {}
  BY HookInitType, StackInit DEF LifeInit, Init, LoadInit
<1>2. dll = "out" /\ service = FALSE /\ attaches = 0 /\ left = [t \in Threads |-> {}]
  BY DEF LifeInit
<1>3. LifeTypeOK
  <2>1. attaches \in 0 .. MaxAttaches
    BY <1>2, LifeAssumption
  <2>3. service = (dll = "in")
    BY <1>2
  <2>2. left \in [Threads -> SUBSET Nat]
    BY <1>2
  <2> QED
    BY <1>1, <1>2, <2>1, <2>2, <2>3 DEF LifeTypeOK
<1>4. \A t \in Threads : DetourFrames(t) = left[t]
  <2>1. \A t \in Threads : DOMAIN stack[t] = {}
    BY DEF LifeInit, Init
  <2> QED
    BY <1>2, <2>1 DEF DetourFrames
<1> QED
  BY <1>1, <1>2, <1>3, <1>4 DEF LifeInv, NothingLeft

(* What the hooks see of a step of the life cycle. *)
LEMMA LifeNextCases ==
  ASSUME LifeNext
  PROVE  [Next]_vars \/ RemoveHooks \/ CrashUnmapped
BY DEF LifeNext, Attach, DestroyCore, HostRuns, Next

(* Detach takes the pointers and the hooks away, and no frame of a stack. *)
LEMMA RemoveHooksInv ==
  ASSUME LifeInv, RemoveHooks
  PROVE  LifeTypeOK' /\ StackInv'
<1>1. /\ enabled' = {} /\ DOMAIN hooks' = {} /\ refused' = {} /\ served' = {}
      /\ hidx' = 1 /\ idx' = 1
      /\ symbols' = NoSymbols /\ version' = 510 /\ hLua' = NoModule /\ loaded' = FALSE
      /\ UNCHANGED <<present, loads, pc, fault, again, stack, service, attaches>>
      /\ dll' = "out" /\ left' = [t \in Threads |-> DetourFrames(t)]
  BY DEF RemoveHooks, HooksRemoved
<1>2. fn' = [p \in Pointers |-> NULL]
  BY DEF RemoveHooks
<1>3. LoadTypeOK'
  <2>1. IsSymbolTable(symbols')
    BY <1>1, NoSymbolsType
  <2>2. 510 \in Versions /\ fn' \in [Pointers -> Address \cup {NULL}]
    BY <1>2 DEF Versions
  <2>3. loaded' \in BOOLEAN
    BY <1>1, Zenon
  <2>4. idx' \in Nat \ {0} /\ version' \in Versions
    BY <1>1, <2>2
  <2>5. UNCHANGED <<present, loads, pc, fault>> /\ hLua' = NoModule
    BY <1>1
  <2>6. LoadTypeOK
    BY DEF HookTypeOK, LifeTypeOK, LifeInv
  <2> QED
    BY <2>1, <2>2, <2>3, <2>4, <2>5, <2>6 DEF LoadTypeOK
<1>4. HookTypeOK'
  BY <1>1, <1>3 DEF HookTypeOK, AllEnabled, LifeTypeOK, LifeInv
<1>5. left' \in [Threads -> SUBSET Nat]
  <2>1. \A t \in Threads : DOMAIN stack[t] \subseteq Nat
    <3>1. \A t \in Threads : stack[t] \in Seq(Frame)
      BY DEF HookTypeOK, LifeTypeOK, LifeInv
    <3> QED
      BY <3>1, LenProperties
  <2>2. \A t \in Threads : DetourFrames(t) \in SUBSET Nat
    BY <2>1 DEF DetourFrames
  <2>3. left' = [t \in Threads |-> DetourFrames(t)]
    BY <1>1
  <2> QED
    BY <2>2, <2>3
<1>6. pc' = "idle" /\ service' = FALSE /\ attaches' \in 0 .. MaxAttaches
  BY <1>1 DEF RemoveHooks, LifeTypeOK, LifeInv
<1>7. PointerInv'
  <2>1. \A p \in Pointers : fn'[p] = NULL
    BY <1>2
  <2> QED
    BY <1>1, <1>4, <1>6, <2>1, HookPointersDeclared
       DEF PointerInv, OwnSymbol, KnownModule, KnownHook, Fresh, Below
<1>8. OwnVia' /\ (again' \/ Leads')
  BY <1>1 DEF LifeInv, StackInv, OwnVia, Leads
<1> QED
  BY <1>1, <1>4, <1>5, <1>6, <1>7, <1>8 DEF StackInv, LifeTypeOK, LifeInv

LEMMA CrashUnmappedInv ==
  ASSUME LifeInv, CrashUnmapped
  PROVE  LifeInv'
<1>1. /\ fault' = "unmapped code"
      /\ UNCHANGED <<present, symbols, version, fn, hLua, loaded, idx, loads, pc>>
      /\ UNCHANGED <<hooks, enabled, refused, hidx, served, again, stack>>
      /\ UNCHANGED <<dll, service, attaches, left>>
  BY DEF CrashUnmapped, hookVars, dllVars
<1>2. LoadTypeOK'
  BY <1>1 DEF LoadTypeOK, HookTypeOK, LifeTypeOK, LifeInv
<1>3. HookTypeOK'
  BY <1>1, <1>2 DEF HookTypeOK, AllEnabled, LifeTypeOK, LifeInv
<1>4. PointerInv'
  BY <1>1, <1>3, PointersUnchanged DEF LifeInv, StackInv
<1>5. StackInv'
  BY <1>1, <1>4 DEF LifeInv, StackInv, OwnVia, Leads
<1>6. LifeTypeOK' /\ NothingLeft'
  BY <1>1, <1>3 DEF LifeInv, LifeTypeOK, NothingLeft, DetourFrames
<1> QED
  BY <1>5, <1>6 DEF LifeInv

(* What is about to run unmapped code was in a detour when the DLL went. *)
LEMMA LifeInvSpares == LifeInv => UnloadSparesOthers
<1> SUFFICES ASSUME LifeInv PROVE UnloadSparesOthers
  OBVIOUS
<1>1. ASSUME NEW t \in Threads, dll = "out", InDetour(t) PROVE left[t] # {}
  <2>1. stack[t] \in Seq(Frame)
    BY DEF LifeInv, LifeTypeOK, HookTypeOK
  <2>2. Len(stack[t]) \in DOMAIN stack[t]
    BY <1>1, <2>1, EmptySeq, LenProperties DEF InDetour
  <2>3. Len(stack[t]) \in DetourFrames(t)
    BY <1>1, <2>2 DEF InDetour, Top, DetourFrames
  <2> QED
    BY <1>1, <2>3 DEF LifeInv, NothingLeft
<1>2. ~ServiceUnmapped
  BY DEF LifeInv, LifeTypeOK, ServiceUnmapped
<1> QED
  BY <1>1, <1>2 DEF UnloadSparesOthers, RunsUnmapped

(* While the DLL is out, no thread gets into a detour or out of one. *)
LEMMA HostRunsOutside ==
  ASSUME LifeTypeOK, NothingLeft, dll = "out", NEW t \in Threads, HostRuns(t),
         NEW u \in Threads
  PROVE  DetourFrames(u)' = left[u]
<1>0. HookTypeOK /\ stack \in Stacks /\ enabled = {} /\ DetourFrames(u) = left[u]
  BY DEF LifeTypeOK, HookTypeOK, Stacks, NothingLeft
<1>1. stack[t] \in Seq(Frame) /\ stack[u] \in Seq(Frame)
  BY <1>0 DEF Stacks
<1>2. ~InDetour(t)
  <2> SUFFICES ASSUME InDetour(t) PROVE FALSE
    OBVIOUS
  <2>1. Len(stack[t]) \in DOMAIN stack[t] /\ Len(stack[t]) \in Nat
    BY <1>1, EmptySeq, LenProperties DEF InDetour
  <2>2. Len(stack[t]) \in left[t]
    BY <2>1 DEF InDetour, Top, DetourFrames, NothingLeft
  <2> QED
    BY <2>1, <2>2 DEF HostRuns
<1>3. ASSUME NEW a \in Address, Push(t, Arrive(a, TRUE))
      PROVE  DetourFrames(u)' = left[u]
  <2>1. Arrive(a, TRUE) \in Frame
    BY <1>0, ArriveType
  <2>2. Arrive(a, TRUE).detour = NoDetour
    BY <1>0 DEF Arrive
  <2>3. CASE u # t
    BY <1>0, <1>3, <2>1, <2>3, PushFrames DEF DetourFrames
  <2>4. CASE u = t
    <3> DEFINE n == Len(stack[t]) + 1
    <3>1. /\ DOMAIN stack'[t] = 1 .. n /\ DOMAIN stack[t] = 1 .. Len(stack[t])
          /\ Len(stack[t]) \in Nat
          /\ \A i \in DOMAIN stack[t] : stack'[t][i] = stack[t][i]
          /\ stack'[t][n].detour = NoDetour
      BY <1>0, <1>3, <2>1, <2>2, PushFrames
    <3>2. DOMAIN stack'[t] = DOMAIN stack[t] \cup {n}
      BY <3>1
    <3> HIDE DEF n
    <3> QED
      BY <1>0, <2>4, <3>1, <3>2 DEF DetourFrames
  <2> QED
    BY <2>3, <2>4
<1>f. \A m \in Modules : \A f \in Exports[m] : Function(m, f) \in Address
  BY ModulesAssumption DEF Function, Address
<1>4. ASSUME NEW m \in Modules, NEW f \in EntryPoints, HostCall(t, m, f)
      PROVE  DetourFrames(u)' = left[u]
  BY <1>3, <1>4, <1>f DEF HostCall
<1>5. ASSUME NEW f, EngineCall(t, f) PROVE DetourFrames(u)' = left[u]
  <2>1. Top(t).at.mod \in Modules
    BY <1>0, <1>5, TopType DEF EngineCall, InEngine, Frame, Address
  <2> QED
    BY <1>3, <1>5, <1>f, <2>1 DEF EngineCall
<1>6. ASSUME Return(t) PROVE DetourFrames(u)' = left[u]
  <2>1. CASE u # t
    BY <1>0, <1>6, <2>1, ReturnFrames DEF DetourFrames
  <2>2. CASE u = t
    <3>1. /\ DOMAIN stack'[t] = 1 .. Len(stack'[t]) /\ Len(stack'[t]) \in Nat
          /\ DOMAIN stack'[t] \subseteq DOMAIN stack[t]
          /\ \A i \in DOMAIN stack'[t] : stack'[t][i] = stack[t][i]
      BY <1>0, <1>6, ReturnFrames
    <3>2. \A i \in left[t] : i <= Len(stack'[t])
      BY DEF HostRuns
    <3>3. \A i \in left[t] : i \in 1 .. Len(stack[t])
      BY <1>0, <1>1, <2>2, LenProperties DEF DetourFrames
    <3>4. left[t] \subseteq DOMAIN stack'[t]
      <4>1. Len(stack[t]) \in Nat
        BY <1>1, LenProperties
      <4> QED
        BY <3>1, <3>2, <3>3, <4>1
    <3> QED
      BY <1>0, <2>2, <3>1, <3>4 DEF DetourFrames
  <2> QED
    BY <2>1, <2>2
<1>7. HostThread(t)
  BY DEF HostRuns
<1> QED
  BY <1>2, <1>4, <1>5, <1>6, <1>7
     DEF HostThread, TestPointer, CallOriginal, CallArrives, CallCrashes

LEMMA HookStepInside ==
  ASSUME LifeTypeOK, HookStep
  PROVE  dll = "in"
BY DEF LifeTypeOK, HookStep, BeginHooks, SkipHook, RefuseHook, CreateHook, Hooking,
       EnableHooks

(* The variables of the life cycle itself. *)
LEMMA LifeNextType ==
  ASSUME LifeInv, LifeNext, HookTypeOK'
  PROVE  LifeTypeOK'
<1>1. CASE Attach
  <2>1. attaches' \in 0 .. MaxAttaches
    <3>1. attaches \in 0 .. MaxAttaches /\ attaches < MaxAttaches /\ attaches' = attaches + 1
      BY <1>1 DEF Attach, LifeInv, LifeTypeOK
    <3> QED
      BY <3>1, LifeAssumption
  <2> QED
    BY <1>1, <2>1 DEF Attach, LifeInv, LifeTypeOK
<1>2. CASE DestroyCore
  <2>1. pc' = pc /\ pc = "idle" /\ service' = FALSE
    BY <1>2 DEF DestroyCore, CoreDestroyed, vars, loadVars
  <2> QED
    BY <1>2, <2>1 DEF DestroyCore, LifeInv, LifeTypeOK
<1>3. CASE RemoveHooks
  BY <1>3, RemoveHooksInv DEF RemoveHooks, LifeInv
<1>4. CASE CrashUnmapped
  BY <1>4, CrashUnmappedInv DEF LifeInv
<1>5. CASE UNCHANGED dllVars /\ (pc' = pc \/ dll = "in")
  BY <1>5 DEF dllVars, LifeInv, LifeTypeOK
<1>6. ASSUME NEW m \in Modules, HostLoads(m) PROVE pc' = pc
  BY <1>6 DEF HostLoads
<1>7. ASSUME NEW t \in Threads, HostRuns(t) PROVE pc' = pc
  BY <1>7, HostThreadFrame DEF HostRuns, HostUnchanged
<1>8. HookStep => dll = "in"
  BY HookStepInside DEF LifeInv
<1> QED
  BY <1>1, <1>2, <1>3, <1>4, <1>5, <1>6, <1>7, <1>8 DEF LifeNext, HostRuns

LEMMA LifeNextNothingLeft ==
  ASSUME LifeInv, LifeNext
  PROVE  NothingLeft'
<1>1. CASE Attach \/ DestroyCore
  BY <1>1 DEF Attach, DestroyCore, NothingLeft
<1>2. CASE RemoveHooks
  <2>1. enabled' = {} /\ stack' = stack /\ left' = [t \in Threads |-> DetourFrames(t)]
    BY <1>2 DEF RemoveHooks, HooksRemoved
  <2> QED
    BY <2>1 DEF NothingLeft, DetourFrames
<1>3. CASE CrashUnmapped
  BY <1>3, CrashUnmappedInv DEF LifeInv
<1>4. ASSUME NEW m \in Modules, HostLoads(m), UNCHANGED <<hookVars, dllVars>>
      PROVE  NothingLeft'
  BY <1>4 DEF hookVars, dllVars, LifeInv, NothingLeft, DetourFrames
<1>5. CASE dll = "in" /\ UNCHANGED dllVars
  BY <1>5 DEF dllVars, NothingLeft
<1>6. HookStep => dll = "in"
  BY HookStepInside DEF LifeInv
<1>7. ASSUME NEW t \in Threads, HostRuns(t) PROVE NothingLeft'
  <2>1. UNCHANGED dllVars /\ enabled' = enabled
    BY <1>7, HostThreadFrame DEF HostRuns, HostUnchanged
  <2>2. CASE dll = "out"
    BY <1>7, <2>1, <2>2, HostRunsOutside DEF dllVars, LifeInv, NothingLeft
  <2>3. CASE dll # "out"
    BY <2>1, <2>3 DEF dllVars, NothingLeft
  <2> QED
    BY <2>2, <2>3
<1> QED
  BY <1>1, <1>2, <1>3, <1>4, <1>5, <1>6, <1>7 DEF LifeNext

LEMMA LifeNextInv == LifeInv /\ [LifeNext]_lifeVars => LifeInv'
<1>1. ASSUME LifeInv, LifeNext PROVE LifeInv'
  <2>1. StackInv' /\ HookTypeOK'
    <3>1. CASE [Next]_vars
      BY <1>1, <3>1, StackNext DEF LifeInv, StackInv, PointerInv
    <3>2. CASE RemoveHooks
      BY <1>1, <3>2, RemoveHooksInv DEF StackInv, PointerInv
    <3>3. CASE CrashUnmapped
      BY <1>1, <3>3, CrashUnmappedInv DEF LifeInv, StackInv, PointerInv
    <3> QED
      BY <1>1, <3>1, <3>2, <3>3, LifeNextCases
  <2>2. LifeTypeOK'
    BY <1>1, <2>1, LifeNextType
  <2>3. NothingLeft'
    BY <1>1, LifeNextNothingLeft
  <2> QED
    BY <2>1, <2>2, <2>3 DEF LifeInv
<1>2. ASSUME LifeInv, UNCHANGED lifeVars PROVE LifeInv'
  <2>1. [Next]_vars /\ UNCHANGED <<dll, service, attaches, left>>
        /\ UNCHANGED <<pc, fault, enabled, stack>>
    BY <1>2 DEF lifeVars, dllVars, vars, loadVars, hookVars
  <2>2. StackInv' /\ HookTypeOK'
    BY <1>2, <2>1, StackNext DEF LifeInv, StackInv, PointerInv
  <2> QED
    BY <1>2, <2>1, <2>2
       DEF LifeInv, LifeTypeOK, NothingLeft, DetourFrames
<1> QED
  BY <1>1, <1>2

LEMMA LifeCorrect == LifeSpec => []LifeInv
<1> QED
  BY LifeInitInv, LifeNextInv, PTL DEF LifeSpec

(* Everything keeps its type, and installs happen inside the DLL's life,   *)
(* however often the DLL comes and goes (odbk_entry.cpp).                  *)
THEOREM LifeTypeCorrect == LifeSpec => []LifeTypeOK
<1>1. LifeInv => LifeTypeOK
  BY DEF LifeInv
<1> QED
  BY <1>1, LifeCorrect, PTL

(* Once the DLL is out, nothing of an engine is intercepted, and no thread *)
(* has got into a detour since (DllMain, odbk_hook_uninit).                *)
THEOREM NothingLeftCorrect == LifeSpec => []NothingLeft
<1>1. LifeInv => NothingLeft
  BY DEF LifeInv
<1> QED
  BY <1>1, LifeCorrect, PTL

(* Only a thread that was in a detour when the hooks went can run code     *)
(* that is gone: not one that comes later, and not the service thread.     *)
THEOREM UnloadCorrect == LifeSpec => []UnloadSparesOthers
<1> QED
  BY LifeInvSpares, LifeCorrect, PTL

(* That detours call the engine, never a detour, holds across unloads too: *)
(* a DLL that comes back starts with no pointers and no hooks.             *)
THEOREM LifeReachesCorrect ==
  LifeSpec => [](ForwardNotHooked /\ ForwardReachesEngine /\ RecursionNeedsReinstall)
<1>1. LifeInv => ForwardNotHooked /\ RecursionNeedsReinstall
  BY BelowNotHooked
     DEF LifeInv, StackInv, ForwardNotHooked, RecursionNeedsReinstall
<1>2. LifeInv => ForwardReachesEngine
  BY DEF LifeInv, StackInv, Leads, ForwardReachesEngine
<1> QED
  BY <1>1, <1>2, LifeCorrect, PTL

LEMMA LifeBoundNext ==
  ASSUME LifeInv, LifeInv', BoundInv, [LifeNext]_lifeVars
  PROVE  BoundInv'
<1>1. CASE [Next]_vars
  BY <1>1, BoundNext
<1>2. CASE RemoveHooks
  <2>1. /\ enabled' = {} /\ DOMAIN hooks' = {}
        /\ \A p \in Pointers : fn'[p] = NULL
    BY <1>2 DEF RemoveHooks, HooksRemoved
  <2>2. Based' /\ Moved'
    BY <2>1, HookPointersDeclared, HookStepPlan DEF Based, Moved, MovedAt
  <2> QED
    BY <2>2 DEF BoundInv, LifeInv, StackInv
<1>3. CASE CrashUnmapped
  <2>1. UNCHANGED <<fn, hooks, refused, version, hidx, pc, again>>
    BY <1>3 DEF CrashUnmapped, hookVars
  <2> QED
    BY <2>1, BoundUnchanged DEF LifeInv, StackInv
<1>4. CASE UNCHANGED lifeVars
  BY <1>1, <1>4 DEF lifeVars
<1> QED
  BY <1>1, <1>2, <1>3, <1>4, LifeNextCases

(* Whichever engine a DLL that came back is installed in, every pointer it *)
(* has bound for that version leads past the debugger to an intercepted    *)
(* function, or is at one that MinHook has refused since the DLL came back *)
(* (odbk_install_lua_hooks after odbk_hook_uninit).                        *)
THEOREM LifeBoundCorrect == LifeSpec => []BoundIntercepted
<1>1. LifeInit => BoundInv
  BY BoundInit DEF LifeInit
<1>2. BoundInv => BoundIntercepted
  BY BoundGoal
<1> QED
  BY <1>1, <1>2, LifeBoundNext, LifeCorrect, PTL DEF LifeSpec
=============================================================================
