---------------------------- MODULE LuaHook_proof ----------------------------
(***************************************************************************)
(* What holds of the hooks for every hook plan, every engine, every number *)
(* of installs and of host threads.                                        *)
(***************************************************************************)
EXTENDS LuaHook, LuaLoad_proof, SequenceTheorems

Stacks == [Threads -> Seq(Frame)]

LEMMA HookStepPlan ==
  ASSUME NEW i \in DOMAIN HookPlan
  PROVE  HookPlan[i].fn \in Pointers /\ HookPlan[i].detour \in DOMAIN Forward
<1> DEFINE Hooks == [fn : Pointers, detour : DOMAIN Forward, from : Int, to : Int]
<1>1. HookPlan \in Seq(Hooks) => HookPlan[i] \in Hooks
  <2> HIDE DEF Hooks
  <2> QED OBVIOUS
<1> QED
  BY <1>1, HookAssumption

LEMMA HookPlanDomain ==
  /\ DOMAIN HookPlan = 1 .. Len(HookPlan) /\ Len(HookPlan) \in Nat
  /\ DOMAIN HookPlan \subseteq Nat
<1> DEFINE Hooks == [fn : Pointers, detour : DOMAIN Forward, from : Int, to : Int]
<1>1. HookPlan \in Seq(Hooks)
  BY HookAssumption
<1> HIDE DEF Hooks
<1>2. DOMAIN HookPlan = 1 .. Len(HookPlan) /\ Len(HookPlan) \in Nat
  BY <1>1, LenProperties
<1> QED
  BY <1>2

LEMMA HookPointersDeclared == HookPointers \subseteq Pointers
BY HookStepPlan DEF HookPointers

(* A detour goes through hooked pointers only, and through one at least. *)
LEMMA ForwardType ==
  ASSUME NEW d \in DOMAIN Forward
  PROVE  /\ Forward[d] \in Seq(HookPointers)
         /\ Len(Forward[d]) \in Nat \ {0}
         /\ \A i \in 1 .. Len(Forward[d]) : Forward[d][i] \in HookPointers
<1>1. Forward[d] \in Seq(HookPointers) /\ Forward[d] # <<>>
  BY HookAssumption
<1> HIDE DEF HookPointers
<1> QED
  BY <1>1, EmptySeq, ElementOfSeq

LEMMA PushType ==
  ASSUME stack \in Stacks, NEW t \in Threads, NEW frame \in Frame, Push(t, frame)
  PROVE  stack' \in Stacks
<1>1. Append(stack[t], frame) \in Seq(Frame)
  BY AppendProperties DEF Stacks
<1> QED
  BY <1>1 DEF Push, Stacks

LEMMA SetTopType ==
  ASSUME stack \in Stacks, NEW t \in Threads, stack[t] # <<>>, NEW frame \in Frame,
         SetTop(t, frame)
  PROVE  stack' \in Stacks
<1>1. [stack[t] EXCEPT ![Len(stack[t])] = frame] \in Seq(Frame)
  <2>1. stack[t] \in Seq(Frame) /\ Len(stack[t]) \in 1 .. Len(stack[t])
    BY EmptySeq DEF Stacks
  <2> QED
    BY <2>1, ExceptSeq
<1>2. stack' = [stack EXCEPT ![t] = [stack[t] EXCEPT ![Len(stack[t])] = frame]]
  BY DEF SetTop, Stacks
<1> QED
  BY <1>1, <1>2 DEF Stacks

LEMMA TopType ==
  ASSUME stack \in Stacks, NEW t \in Threads, stack[t] # <<>>
  PROVE  Top(t) \in Frame
<1>1. stack[t] \in Seq(Frame) /\ Len(stack[t]) \in 1 .. Len(stack[t])
  BY EmptySeq DEF Stacks
<1> QED
  BY <1>1, ElementOfSeq DEF Top

LEMMA ArriveType ==
  ASSUME HookTypeOK, NEW a \in Address, NEW mode \in BOOLEAN
  PROVE  Arrive(a, mode) \in Frame
<1>1. CASE a \in enabled
  <2>1. hooks[a] \in DOMAIN Forward
    BY <1>1 DEF HookTypeOK
  <2> DEFINE via == IF Len(Forward[hooks[a]]) = 1 THEN Forward[hooks[a]][1] ELSE NoPointer
  <2>2. via \in Pointers \cup {NoPointer}
    BY <2>1, ForwardType, HookPointersDeclared
  <2>3. Arrive(a, mode) = [detour |-> hooks[a], at |-> a, seen |-> 0, mode |-> mode, via |-> via]
    BY <1>1 DEF Arrive
  <2> HIDE DEF via
  <2> QED
    BY <2>1, <2>2, <2>3 DEF Frame
<1>2. CASE a \notin enabled
  <2>1. Arrive(a, mode) = [detour |-> NoDetour, at |-> a, seen |-> 0, mode |-> mode,
                           via |-> NoPointer]
    BY <1>2 DEF Arrive
  <2> QED
    BY <2>1 DEF Frame
<1> QED
  BY <1>1, <1>2

(* The stack of a thread keeps its type in every step of the thread. *)
LEMMA HostThreadStacks ==
  ASSUME HookTypeOK, NEW t \in Threads, HostThread(t)
  PROVE  stack' \in Stacks
<1>0. stack \in Stacks
  BY DEF HookTypeOK, Stacks
<1>f. \A m \in Modules : \A f \in Exports[m] : Function(m, f) \in Address
  BY ModulesAssumption DEF Function, Address
<1>1. ASSUME NEW m \in Modules, NEW f \in EntryPoints, HostCall(t, m, f)
      PROVE  stack' \in Stacks
  <2>1. f \in Exports[m]
    BY <1>1 DEF HostCall
  <2>2. Arrive(Function(m, f), TRUE) \in Frame
    BY <2>1, <1>f, ArriveType
  <2> QED
    BY <1>0, <1>1, <2>2, PushType DEF HostCall
<1>2. ASSUME NEW f, EngineCall(t, f) PROVE stack' \in Stacks
  <2>1. Top(t) \in Frame
    BY <1>0, <1>2, TopType DEF EngineCall, InEngine
  <2>2. Top(t).at.mod \in Modules
    BY <2>1 DEF Frame, Address
  <2>3. Arrive(Function(Top(t).at.mod, f), TRUE) \in Frame
    BY <1>2, <2>2, <1>f, ArriveType DEF EngineCall
  <2> QED
    BY <1>0, <1>2, <2>3, PushType DEF EngineCall
<1>3. ASSUME TestPointer(t) PROVE stack' \in Stacks
  <2> DEFINE p == Forward[Top(t).detour][Top(t).seen + 1]
  <2>1. stack[t] # <<>> /\ Top(t).detour # NoDetour
    BY <1>3 DEF TestPointer, InDetour
  <2>2. Top(t) \in Frame
    BY <1>0, <2>1, TopType
  <2>3. Top(t).detour \in DOMAIN Forward /\ Top(t).seen \in Nat
    BY <2>1, <2>2 DEF Frame
  <2>4. p \in Pointers
    <3>1. Top(t).seen < Len(Forward[Top(t).detour])
      BY <1>3 DEF TestPointer
    <3> QED
      BY <2>3, <3>1, ForwardType, HookPointersDeclared
  <2>5. [Top(t) EXCEPT !.via = p] \in Frame /\ [Top(t) EXCEPT !.seen = @ + 1] \in Frame
    <3> HIDE DEF p
    <3> QED
      BY <2>2, <2>3, <2>4 DEF Frame
  <2>6. SetTop(t, IF fn[p] # NULL THEN [Top(t) EXCEPT !.via = p]
                                  ELSE [Top(t) EXCEPT !.seen = @ + 1])
    BY <1>3 DEF TestPointer
  <2> HIDE DEF p
  <2> QED
    BY <1>0, <2>1, <2>5, <2>6, SetTopType
<1>4. ASSUME CallOriginal(t), CallArrives(t) PROVE stack' \in Stacks
  <2>1. stack[t] # <<>>
    BY <1>4 DEF CallOriginal, InDetour
  <2>2. Top(t) \in Frame
    BY <1>0, <2>1, TopType
  <2>3. fn[Top(t).via] \in Address
    BY <1>4, <2>2 DEF CallOriginal, CallArrives, Frame, HookTypeOK, LoadTypeOK
  <2>4. Complete(Top(t).via) \in BOOLEAN
    BY DEF Complete
  <2>5. Arrive(fn[Top(t).via], Complete(Top(t).via)) \in Frame
    BY <2>3, <2>4, ArriveType
  <2> QED
    BY <1>0, <1>4, <2>5, PushType DEF CallArrives
<1>5. ASSUME CallCrashes(t) PROVE stack' \in Stacks
  BY <1>0, <1>5 DEF CallCrashes
<1>6. ASSUME Return(t) PROVE stack' \in Stacks
  <2>1. PICK k \in 0 .. Len(stack[t]) - 1 : stack' = [stack EXCEPT ![t] = SubSeq(@, 1, k)]
    BY <1>6 DEF Return
  <2>2. stack[t] \in Seq(Frame)
    BY <1>0 DEF Stacks
  <2>3. SubSeq(stack[t], 1, k) \in Seq(Frame)
    <3>1. \A i \in 1 .. k : stack[t][i] \in Frame
      BY <2>2, LenProperties, ElementOfSeq
    <3> QED
      BY <3>1, SubSeqProperties
  <2> QED
    BY <1>0, <2>1, <2>3 DEF Stacks
<1> QED
  BY <1>1, <1>2, <1>3, <1>4, <1>5, <1>6 DEF HostThread, CallOriginal

(* No thread of the host touches the loader's or MinHook's state. *)
LEMMA HostThreadFrame ==
  ASSUME NEW t \in Threads, HostThread(t)
  PROVE  HostUnchanged /\ fault' \in {fault, "null forward", "stack overflow"}
BY Zenon DEF HostThread, HostCall, EngineCall, TestPointer, CallOriginal, CallArrives, CallCrashes, Return

LEMMA HostThreadType == HookTypeOK /\ (\E t \in Threads : HostThread(t)) => HookTypeOK'
<1> SUFFICES ASSUME HookTypeOK, NEW t \in Threads, HostThread(t) PROVE HookTypeOK'
  OBVIOUS
<1>1. stack' \in Stacks
  BY HostThreadStacks
<1>2. HostUnchanged /\ fault' \in {fault, "null forward", "stack overflow"}
  BY HostThreadFrame
<1>3. LoadTypeOK'
  BY <1>2 DEF HostUnchanged, HookTypeOK, LoadTypeOK
<1> QED
  BY <1>1, <1>2, <1>3 DEF HostUnchanged, HookTypeOK, AllEnabled, Stacks

(* One lemma for what CreateHook does: the target is hooked, and the       *)
(* pointer goes on from it one trampoline deeper.                          *)
LEMMA CreateHookEffect ==
  ASSUME HookTypeOK, CreateHook
  PROVE  \E p \in HookPointers :
           /\ p \in Pointers /\ p = HookPlan[hidx].fn
           /\ fn[p] \in Address \ DOMAIN hooks
           /\ LeftInPointer(fn[p]) \in Address
           /\ LeftInPointer(fn[p]).mod = fn[p].mod
           /\ LeftInPointer(fn[p]).sym = fn[p].sym
           /\ LeftInPointer(fn[p]).depth = fn[p].depth + 1
           /\ fn' = [fn EXCEPT ![p] = LeftInPointer(fn[p])]
           /\ DOMAIN hooks' = DOMAIN hooks \cup {fn[p]}
           /\ \A a \in DOMAIN hooks' : hooks'[a] \in DOMAIN Forward
           /\ UNCHANGED <<enabled, refused, pc, symbols, served, again, stack>>
           /\ pc = "hook" /\ hidx' = hidx + 1
<1>1. hidx \in DOMAIN HookPlan
  BY DEF CreateHook, Hooking
<1> DEFINE h == HookPlan[hidx]
<1>2. h.fn \in Pointers /\ h.fn \in HookPointers /\ h.detour \in DOMAIN Forward
  BY <1>1, HookStepPlan DEF HookPointers
<1>3. /\ fn[h.fn] # NULL
      /\ fn[h.fn] \notin DOMAIN hooks
      /\ hooks' = [a \in DOMAIN hooks \cup {fn[h.fn]} |->
                     IF a = fn[h.fn] THEN h.detour ELSE hooks[a]]
      /\ fn' = [fn EXCEPT ![h.fn] = LeftInPointer(fn[h.fn])]
  BY DEF CreateHook
<1>4. fn[h.fn] \in Address
  BY <1>2, <1>3 DEF HookTypeOK, LoadTypeOK
<1>9. h.fn = HookPlan[hidx].fn
  OBVIOUS
<1> HIDE DEF h
<1>5. /\ LeftInPointer(fn[h.fn]) \in Address
      /\ LeftInPointer(fn[h.fn]).mod = fn[h.fn].mod
      /\ LeftInPointer(fn[h.fn]).sym = fn[h.fn].sym
      /\ LeftInPointer(fn[h.fn]).depth = fn[h.fn].depth + 1
  BY <1>4 DEF LeftInPointer, Trampoline, Address
<1>6. \A a \in DOMAIN hooks : hooks[a] \in DOMAIN Forward
  BY DEF HookTypeOK
<1>7. /\ DOMAIN hooks' = DOMAIN hooks \cup {fn[h.fn]}
      /\ \A a \in DOMAIN hooks' : hooks'[a] \in DOMAIN Forward
  BY <1>2, <1>3, <1>6
<1>8. /\ UNCHANGED <<enabled, refused, pc, symbols, served, again, stack>>
      /\ pc = "hook" /\ hidx' = hidx + 1
  BY DEF CreateHook, Effective, Hooking
<1> QED
  BY <1>2, <1>3, <1>4, <1>5, <1>7, <1>8, <1>9

(* A hook of the plan that is not created. *)
LEMMA NextHookType ==
  ASSUME HookTypeOK, UNCHANGED <<loadVars, hooks, enabled, served, again, stack>>,
         refused' \subseteq Address, hidx' = hidx + 1
  PROVE  HookTypeOK'
<1>1. hidx' \in Nat \ {0}
  BY DEF HookTypeOK
<1>2. LoadTypeOK' /\ AllEnabled'
  BY DEF loadVars, LoadTypeOK, AllEnabled, HookTypeOK
<1> QED
  BY <1>1, <1>2 DEF HookTypeOK

LEMMA HookStepType == HookTypeOK /\ HookStep => HookTypeOK'
<1> SUFFICES ASSUME HookTypeOK, HookStep PROVE HookTypeOK'
  OBVIOUS
<1>0. hidx \in Nat \ {0}
  BY DEF HookTypeOK
<1>1. CASE BeginHooks
  <2>1. LoadTypeOK'
    BY <1>1 DEF BeginHooks, HookTypeOK, LoadTypeOK
  <2>2. hidx' \in Nat \ {0}
    BY <1>1 DEF BeginHooks
  <2>3. AllEnabled'
    BY <1>1 DEF BeginHooks, AllEnabled
  <2> QED
    BY <1>1, <2>1, <2>2, <2>3 DEF BeginHooks, HookTypeOK
<1>2. CASE SkipHook
  <2>1. UNCHANGED <<loadVars, hooks, enabled, served, again, stack>> /\ hidx' = hidx + 1
    BY <1>2 DEF SkipHook
  <2>2. refused' \subseteq Address
    BY <1>2 DEF SkipHook, HookTypeOK
  <2> QED
    BY <2>1, <2>2, NextHookType
<1>5. CASE RefuseHook
  <2>1. /\ UNCHANGED <<loadVars, hooks, enabled, served, again, stack>> /\ hidx' = hidx + 1
        /\ hidx \in DOMAIN HookPlan /\ fn[HookPlan[hidx].fn] # NULL
        /\ refused' = refused \cup {fn[HookPlan[hidx].fn]}
    BY <1>5 DEF RefuseHook, Hooking
  <2>2. fn[HookPlan[hidx].fn] \in Address
    BY <2>1, HookStepPlan DEF HookTypeOK, LoadTypeOK
  <2>3. refused' \subseteq Address
    BY <2>1, <2>2 DEF HookTypeOK
  <2> QED
    BY <2>1, <2>3, NextHookType
<1>3. CASE CreateHook
  <2>1. PICK p \in HookPointers :
           /\ p \in Pointers
           /\ fn[p] \in Address
           /\ LeftInPointer(fn[p]) \in Address
           /\ fn' = [fn EXCEPT ![p] = LeftInPointer(fn[p])]
           /\ DOMAIN hooks' = DOMAIN hooks \cup {fn[p]}
           /\ \A a \in DOMAIN hooks' : hooks'[a] \in DOMAIN Forward
           /\ UNCHANGED <<enabled, refused, served, again, stack, pc>>
           /\ pc = "hook" /\ hidx' = hidx + 1
    BY <1>3, CreateHookEffect
  <2>2. fn' \in [Pointers -> Address \cup {NULL}]
    <3>1. fn \in [Pointers -> Address \cup {NULL}]
      BY DEF HookTypeOK, LoadTypeOK
    <3> QED
      BY <2>1, <3>1
  <2>3. LoadTypeOK'
    BY <1>3, <2>2 DEF CreateHook, HookTypeOK, LoadTypeOK
  <2>4. hidx' \in Nat \ {0}
    BY <1>0, <2>1
  <2>5. AllEnabled'
    BY <2>1 DEF AllEnabled
  <2> QED
    BY <2>1, <2>3, <2>4, <2>5 DEF HookTypeOK
<1>4. CASE EnableHooks
  <2>1. LoadTypeOK'
    BY <1>4 DEF EnableHooks, HookTypeOK, LoadTypeOK
  <2>2. SymbolModules(symbols) \subseteq Modules
    BY DEF SymbolModules, HookTypeOK, LoadTypeOK, IsSymbolTable
  <2>3. AllEnabled'
    BY <1>4 DEF EnableHooks, AllEffective, AllEnabled
  <2> QED
    BY <1>4, <2>1, <2>2, <2>3 DEF EnableHooks, AllEffective, HookTypeOK
<1> QED
  BY <1>1, <1>2, <1>3, <1>4, <1>5 DEF HookStep

LEMMA HookInitType == Init => HookTypeOK
<1> SUFFICES ASSUME Init PROVE HookTypeOK
  OBVIOUS
<1>1. LoadTypeOK
  BY LoadInitType DEF Init
<1>2. stack \in [Threads -> Seq(Frame)]
  <2>1. <<>> \in Seq(Frame)
    BY EmptySeq
  <2> QED
    BY <2>1 DEF Init
<1>3. again \in BOOLEAN
  BY Zenon DEF Init
<1>4. hidx \in Nat \ {0}
  BY DEF Init
<1>5. DOMAIN hooks = {} /\ enabled = {} /\ refused = {} /\ served = {}
  BY DEF Init
<1> QED
  BY <1>1, <1>2, <1>3, <1>4, <1>5 DEF HookTypeOK, AllEnabled

(* A load does not run beside the hooking, and ends in a call of           *)
(* odbk_install_lua_hooks or in the loader's death.                        *)
LEMMA LoaderGoesOn ==
  ASSUME LoaderStep
  PROVE  \/ UNCHANGED <<fn, pc, version>> /\ pc = "idle"
         \/ pc # "hook" /\ pc' \notin {"hook", "idle"}
BY DEF LoaderStep, LoadFromHandle, LoadFromSpecified, LoadFromAppModules, BeginLoad,
       DetectVersion, NotLua, SkipLookup, GetFunction, Looking, FinishLoad

LEMMA HookNextType == HookTypeOK /\ [Next]_vars => HookTypeOK'
<1> SUFFICES ASSUME HookTypeOK, [Next]_vars PROVE HookTypeOK'
  OBVIOUS
<1>1. ASSUME NEW m \in Modules, HostLoads(m), UNCHANGED hookVars PROVE HookTypeOK'
  BY <1>1, HostLoadsType DEF HostLoads, hookVars, HookTypeOK, AllEnabled
<1>2. CASE LoadLua
  <2>1. again' \in BOOLEAN
    BY <1>2, Zenon DEF LoadLua, HookTypeOK
  <2>2. AllEnabled'
    BY <1>2, LoaderGoesOn DEF LoadLua, HookTypeOK, AllEnabled
  <2> QED
    BY <1>2, <2>1, <2>2, LoaderStepType DEF LoadLua, HookTypeOK
<1>3. CASE HookStep
  BY <1>3, HookStepType
<1>4. CASE \E t \in Threads : HostThread(t)
  BY <1>4, HostThreadType
<1>5. CASE UNCHANGED vars
  <2>1. LoadTypeOK'
    BY <1>5 DEF vars, loadVars, HookTypeOK, LoadTypeOK
  <2> QED
    BY <1>5, <2>1 DEF vars, loadVars, hookVars, HookTypeOK, AllEnabled
<1> QED
  BY <1>1, <1>2, <1>3, <1>4, <1>5 DEF Next

(* Pointers, MinHook's table and the stacks of the host's threads keep     *)
(* their types over any number of installs.                                *)
THEOREM HookTypeCorrect == Spec => []HookTypeOK
<1> QED
  BY HookInitType, HookNextType, PTL DEF Spec

-----------------------------------------------------------------------------
(***************************************************************************)
(* Why no detour can call itself.  A pointer holds the address of a symbol *)
(* the plan looks up for it (OwnSymbol), in a module of this load or of an *)
(* earlier install (KnownModule); so is what is hooked (KnownHook).  All   *)
(* the hooks on the function of a pointer are shallower than the pointer   *)
(* (Below) - unless the pointer was set again for a module whose hooks     *)
(* were already there, which takes a second install of it (Fresh).         *)
(***************************************************************************)
OwnSymbol ==
  \A p \in Pointers : fn[p] # NULL =>
    \E i \in DOMAIN LoadPlan : LoadPlan[i].fn = p /\ LoadPlan[i].sym = fn[p].sym

KnownModule ==
  \A p \in Pointers : fn[p] # NULL =>
    \/ fn[p].mod \in served
    \/ pc # "idle" /\ fn[p].mod \in SymbolModules(symbols)

KnownHook ==
  \A a \in DOMAIN hooks :
    \/ a.mod \in served
    \/ pc = "hook" /\ a.mod \in SymbolModules(symbols)

Fresh == again \/ pc = "idle" \/ SymbolModules(symbols) \cap served = {}

Below ==
  \A p \in HookPointers : fn[p] # NULL =>
    \/ again /\ fn[p].mod \in served
    \/ \A a \in DOMAIN hooks : a.mod = fn[p].mod /\ a.sym = fn[p].sym => a.depth < fn[p].depth

PointerInv == HookTypeOK /\ OwnSymbol /\ KnownModule /\ KnownHook /\ Fresh /\ Below

LEMMA PointerInit == Init => PointerInv
<1> SUFFICES ASSUME Init PROVE PointerInv
  OBVIOUS
<1>1. HookTypeOK
  BY HookInitType
<1>2. \A p \in Pointers : fn[p] = NULL
  BY DEF Init, LoadInit
<1>3. DOMAIN hooks = {} /\ pc = "idle"
  BY DEF Init, LoadInit
<1> QED
  BY <1>1, <1>2, <1>3, HookPointersDeclared
     DEF PointerInv, OwnSymbol, KnownModule, KnownHook, Fresh, Below

(* A step that leaves pointers and hooks alone. *)
LEMMA PointersUnchanged ==
  ASSUME PointerInv, HookTypeOK', UNCHANGED <<fn, hooks, symbols, served, again>>,
         pc' = pc \/ (pc = "returned" /\ pc' = "hook")
  PROVE  PointerInv'
BY DEF PointerInv, OwnSymbol, KnownModule, KnownHook, Fresh, Below, SymbolModules

(* A step of the loader other than an assignment of a pointer. *)
LEMMA LoaderEffect ==
  ASSUME LoaderStep
  PROVE  \/ GetFunction
         \/ /\ UNCHANGED fn
            /\ pc # "hook" /\ pc' # "hook"
            /\ pc = "idle" \/ (UNCHANGED symbols /\ pc' # "idle")
BY DEF LoaderStep, LoadFromHandle, LoadFromSpecified, LoadFromAppModules, BeginLoad,
       DetectVersion, NotLua, SkipLookup, Looking, FinishLoad

LEMMA ResolvedPointer ==
  ASSUME IsSymbolTable(symbols), NEW f \in STRING, Resolve(f) # NULL
  PROVE  Resolve(f).mod \in SymbolModules(symbols) /\ Resolve(f).sym = f /\ Resolve(f).depth = 0
BY DEF IsSymbolTable, Resolve, SymbolModules

(* A lookup sets a pointer to the engine's own code, of a module that has  *)
(* no hooks unless it is installed again.                                  *)
LEMMA GetFunctionPointers ==
  ASSUME PointerInv, HookTypeOK', GetFunction, LoadLua
  PROVE  PointerInv'
<1> DEFINE q == LoadPlan[idx].fn
           found == Resolve(LoadPlan[idx].sym)
<1>1. idx \in DOMAIN LoadPlan /\ pc = "bind"
  BY DEF GetFunction, Looking
<1>2. q \in Pointers /\ LoadPlan[idx].sym \in STRING
  BY <1>1, PlanStepType
<1>3. /\ fn'[q] = found
      /\ \A p \in Pointers : p # q => fn'[p] = fn[p]
  BY <1>2 DEF GetFunction, Found, PointerInv, HookTypeOK, LoadTypeOK
<1>4. found # NULL => /\ found.mod \in SymbolModules(symbols)
                      /\ found.sym = LoadPlan[idx].sym
                      /\ found.depth = 0
  BY <1>2, ResolvedPointer DEF PointerInv, HookTypeOK, LoadTypeOK
<1>5. /\ pc' \in {"bind", "returned"} /\ UNCHANGED <<symbols, hooks, served>>
      /\ again' = (again \/ SymbolModules(symbols) \cap served # {})
  BY <1>1 DEF GetFunction, LoadLua
<1> HIDE DEF q, found
<1>6. OwnSymbol'
  BY <1>1, <1>3, <1>4 DEF PointerInv, OwnSymbol, q
<1>7. KnownModule'
  BY <1>1, <1>3, <1>4, <1>5 DEF PointerInv, KnownModule, SymbolModules
<1>8. KnownHook' /\ Fresh'
  BY <1>1, <1>5 DEF PointerInv, KnownHook, Fresh, SymbolModules
<1>9. Below'
  <2> SUFFICES ASSUME NEW p \in HookPointers, fn'[p] # NULL
               PROVE  \/ again' /\ fn'[p].mod \in served
                      \/ \A a \in DOMAIN hooks :
                           a.mod = fn'[p].mod /\ a.sym = fn'[p].sym => a.depth < fn'[p].depth
    BY <1>5 DEF Below
  <2>1. CASE p # q
    BY <1>3, <1>5, <2>1, HookPointersDeclared DEF PointerInv, Below
  <2>2. CASE p = q
    <3>1. found # NULL /\ fn'[p] = found
      BY <1>3, <2>2
    <3>2. \A a \in DOMAIN hooks : a.mod \in served
      BY <1>1 DEF PointerInv, KnownHook
    <3>3. found.mod \in served => again'
      BY <1>4, <1>5, <3>1
    <3> QED
      BY <3>1, <3>2, <3>3
  <2> QED
    BY <2>1, <2>2
<1> QED
  BY <1>6, <1>7, <1>8, <1>9 DEF PointerInv

LEMMA LoadLuaPointers ==
  ASSUME PointerInv, HookTypeOK', LoadLua
  PROVE  PointerInv'
<1>1. /\ LoaderStep
      /\ UNCHANGED <<hooks, served>>
      /\ again' = (again \/ SymbolModules(symbols') \cap served # {})
  BY DEF LoadLua
<1>2. CASE GetFunction
  BY <1>1, <1>2, GetFunctionPointers
<1>3. CASE ~GetFunction
  <2>1. /\ UNCHANGED <<fn, hooks, served>>
        /\ pc # "hook" /\ pc' # "hook"
        /\ pc = "idle" \/ (UNCHANGED symbols /\ pc' # "idle")
    BY <1>1, <1>3, LoaderEffect
  <2>2. OwnSymbol' /\ Below'
    BY <1>1, <2>1 DEF PointerInv, OwnSymbol, Below
  <2>3. KnownModule'
    BY <2>1 DEF PointerInv, KnownModule, SymbolModules
  <2>4. KnownHook'
    BY <2>1 DEF PointerInv, KnownHook
  <2>5. Fresh'
    BY <1>1, <2>1 DEF Fresh, SymbolModules
  <2> QED
    BY <2>2, <2>3, <2>4, <2>5 DEF PointerInv
<1> QED
  BY <1>2, <1>3

(* Two hooked pointers never hold the same function. *)
LEMMA FunctionsApart ==
  ASSUME OwnSymbol, NEW p \in HookPointers, NEW q \in HookPointers, p # q,
         fn[p] # NULL, fn[q] # NULL
  PROVE  fn[p].sym # fn[q].sym
<1>1. PICK i \in DOMAIN LoadPlan : LoadPlan[i].fn = p /\ LoadPlan[i].sym = fn[p].sym
  BY HookPointersDeclared DEF OwnSymbol
<1>2. PICK j \in DOMAIN LoadPlan : LoadPlan[j].fn = q /\ LoadPlan[j].sym = fn[q].sym
  BY HookPointersDeclared DEF OwnSymbol
<1> QED
  BY <1>1, <1>2, SymbolsApart

LEMMA CreateHookPointers ==
  ASSUME PointerInv, HookTypeOK', CreateHook
  PROVE  PointerInv'
<1>1. PICK p \in HookPointers :
           /\ p \in Pointers
           /\ fn[p] \in Address \ DOMAIN hooks
           /\ LeftInPointer(fn[p]) \in Address
           /\ LeftInPointer(fn[p]).mod = fn[p].mod
           /\ LeftInPointer(fn[p]).sym = fn[p].sym
           /\ LeftInPointer(fn[p]).depth = fn[p].depth + 1
           /\ fn' = [fn EXCEPT ![p] = LeftInPointer(fn[p])]
           /\ DOMAIN hooks' = DOMAIN hooks \cup {fn[p]}
  BY CreateHookEffect DEF PointerInv
<1>2. pc = "hook" /\ UNCHANGED <<pc, symbols, served, again>>
  BY DEF CreateHook, Hooking
<1>3. fn[p] # NULL
  BY <1>1, NullAssumption
<1>4. /\ fn'[p] = LeftInPointer(fn[p])
      /\ \A q \in Pointers : q # p => fn'[q] = fn[q]
  BY <1>1 DEF PointerInv, HookTypeOK, LoadTypeOK
<1>5. OwnSymbol'
  BY <1>1, <1>3, <1>4 DEF PointerInv, OwnSymbol
<1>6. KnownModule'
  BY <1>1, <1>2, <1>3, <1>4 DEF PointerInv, KnownModule, SymbolModules
<1>7. KnownHook'
  BY <1>1, <1>2, <1>3 DEF PointerInv, KnownHook, KnownModule, SymbolModules
<1>8. Fresh'
  BY <1>2 DEF PointerInv, Fresh, SymbolModules
<1>9. Below'
  <2> SUFFICES ASSUME NEW q \in HookPointers, fn'[q] # NULL,
                      ~(again /\ fn'[q].mod \in served),
                      NEW a \in DOMAIN hooks \cup {fn[p]},
                      a.mod = fn'[q].mod, a.sym = fn'[q].sym
               PROVE  a.depth < fn'[q].depth
    BY <1>1, <1>2 DEF Below
  <2>1. CASE q # p
    <3>1. fn'[q] = fn[q]
      BY <1>4, <2>1, HookPointersDeclared
    <3>2. fn[p].sym # fn[q].sym
      BY <1>3, <2>1, <3>1, FunctionsApart DEF PointerInv
    <3>3. a \in DOMAIN hooks
      BY <3>1, <3>2
    <3> QED
      BY <3>1, <3>3 DEF PointerInv, Below
  <2>2. CASE q = p
    <3>1. fn[p].depth \in Nat /\ fn'[q].depth = fn[p].depth + 1
      BY <1>1, <1>4, <2>2 DEF Address
    <3>2. CASE a = fn[p]
      BY <3>1, <3>2
    <3>3. CASE a \in DOMAIN hooks
      <4>1. a.depth \in Nat
        BY <3>3 DEF PointerInv, HookTypeOK, Address
      <4>2. a.depth < fn[p].depth
        BY <1>1, <1>3, <1>4, <2>2, <3>3 DEF PointerInv, Below
      <4> QED
        BY <3>1, <4>1, <4>2
    <3> QED
      BY <3>2, <3>3
  <2> QED
    BY <2>1, <2>2
<1> QED
  BY <1>5, <1>6, <1>7, <1>8, <1>9 DEF PointerInv

LEMMA EnableHooksPointers ==
  ASSUME PointerInv, HookTypeOK', EnableHooks
  PROVE  PointerInv'
<1>1. /\ pc = "hook" /\ pc' = "idle"
      /\ UNCHANGED <<fn, hooks, symbols, again>>
      /\ served' = served \cup SymbolModules(symbols)
  BY DEF EnableHooks
<1> QED
  BY <1>1 DEF PointerInv, OwnSymbol, KnownModule, KnownHook, Fresh, Below

LEMMA PointerNext == PointerInv /\ [Next]_vars => PointerInv'
<1> SUFFICES ASSUME PointerInv, [Next]_vars PROVE PointerInv'
  OBVIOUS
<1>0. HookTypeOK'
  BY HookNextType DEF PointerInv
<1>1. ASSUME NEW m \in Modules, HostLoads(m), UNCHANGED hookVars PROVE PointerInv'
  BY <1>0, <1>1, PointersUnchanged DEF HostLoads, hookVars
<1>2. CASE LoadLua
  BY <1>0, <1>2, LoadLuaPointers
<1>3. CASE BeginHooks
  BY <1>0, <1>3, PointersUnchanged DEF BeginHooks
<1>4. CASE SkipHook
  BY <1>0, <1>4, PointersUnchanged DEF SkipHook, loadVars
<1>9. CASE RefuseHook
  BY <1>0, <1>9, PointersUnchanged DEF RefuseHook, loadVars
<1>5. CASE CreateHook
  BY <1>0, <1>5, CreateHookPointers
<1>6. CASE EnableHooks
  BY <1>0, <1>6, EnableHooksPointers
<1>7. ASSUME NEW t \in Threads, HostThread(t) PROVE PointerInv'
  BY <1>0, <1>7, HostThreadFrame, PointersUnchanged DEF HostUnchanged
<1>8. CASE UNCHANGED vars
  BY <1>0, <1>8, PointersUnchanged DEF vars, loadVars, hookVars
<1> QED
  BY <1>1, <1>2, <1>3, <1>4, <1>5, <1>6, <1>7, <1>8, <1>9 DEF Next, HookStep

LEMMA PointerCorrect == Spec => []PointerInv
BY PointerInit, PointerNext, PTL DEF Spec

(* What Below comes to: a pointer at hooked code was set by a reinstall. *)
LEMMA BelowNotHooked ==
  ASSUME PointerInv, NEW p \in HookPointers, fn[p] \in DOMAIN hooks
  PROVE  again /\ fn[p].mod \in served
<1>1. fn[p] \in Address
  BY DEF PointerInv, HookTypeOK
<1>2. fn[p] # NULL /\ fn[p].depth \in Nat
  BY <1>1, NullAssumption DEF Address
<1>3. ~(fn[p].depth < fn[p].depth)
  BY <1>2
<1> QED
  BY <1>2, <1>3 DEF PointerInv, Below

(* A pointer of the debugger is at hooked code only when its module went   *)
(* through an install before (odbk_hook, GET_FUNCTION).                    *)
THEOREM RecursionCorrect == Spec => []RecursionNeedsReinstall
<1>1. PointerInv => RecursionNeedsReinstall
  BY BelowNotHooked DEF RecursionNeedsReinstall
<1> QED
  BY <1>1, PointerCorrect, PTL

(* While no engine is installed again, no pointer a detour calls through   *)
(* is at hooked code, however many engines there are.                      *)
THEOREM ForwardCorrect == Spec => []ForwardNotHooked
<1>1. PointerInv => ForwardNotHooked
  BY BelowNotHooked DEF ForwardNotHooked
<1> QED
  BY <1>1, PointerCorrect, PTL

-----------------------------------------------------------------------------
(***************************************************************************)
(* Why a detour reaches the engine: the pointer it goes on through is one  *)
(* of its own, hence hooked and, by ForwardNotHooked, at unhooked code; and *)
(* only a detour at the top of a stack puts a frame on a detour.           *)
(***************************************************************************)
OwnVia ==
  \A t \in Threads : \A i \in DOMAIN stack[t] :
    stack[t][i].via \in HookPointers \cup {NoPointer}

Leads ==
  \A t \in Threads : \A i \in DOMAIN stack[t] :
    stack[t][i].detour # NoDetour =>
      \A j \in DOMAIN stack[t] : j = i + 1 => stack[t][j].detour = NoDetour

StackInv == PointerInv /\ OwnVia /\ (again \/ Leads)

(* Frame by frame: what a push, a change of the top and a return leave. *)
LEMMA PushFrames ==
  ASSUME stack \in Stacks, NEW t \in Threads, NEW frame \in Frame, Push(t, frame)
  PROVE  /\ \A u \in Threads : u # t => stack'[u] = stack[u]
         /\ DOMAIN stack'[t] = 1 .. Len(stack[t]) + 1
         /\ DOMAIN stack[t] = 1 .. Len(stack[t]) /\ Len(stack[t]) \in Nat
         /\ \A i \in DOMAIN stack[t] : stack'[t][i] = stack[t][i]
         /\ stack'[t][Len(stack[t]) + 1] = frame
<1>1. stack[t] \in Seq(Frame)
  BY DEF Stacks
<1>2. stack'[t] = Append(stack[t], frame) /\ \A u \in Threads : u # t => stack'[u] = stack[u]
  BY DEF Push, Stacks
<1> QED
  BY <1>1, <1>2, AppendProperties, LenProperties

LEMMA PushKeeps ==
  ASSUME stack \in Stacks, OwnVia,
         NEW t \in Threads, NEW frame \in Frame, Push(t, frame),
         frame.via \in HookPointers \cup {NoPointer}
  PROVE  OwnVia' /\ (Leads /\ (InDetour(t) => frame.detour = NoDetour) => Leads')
<1>1. /\ \A u \in Threads : u # t => stack'[u] = stack[u]
      /\ DOMAIN stack'[t] = 1 .. Len(stack[t]) + 1
      /\ DOMAIN stack[t] = 1 .. Len(stack[t]) /\ Len(stack[t]) \in Nat
      /\ \A i \in DOMAIN stack[t] : stack'[t][i] = stack[t][i]
      /\ stack'[t][Len(stack[t]) + 1] = frame
  BY PushFrames
<1>2. OwnVia'
  <2> SUFFICES ASSUME NEW u \in Threads, NEW i \in DOMAIN stack'[u]
               PROVE  stack'[u][i].via \in HookPointers \cup {NoPointer}
    BY DEF OwnVia
  <2>1. CASE u # t
    BY <1>1, <2>1 DEF OwnVia
  <2>2. CASE u = t
    <3>1. i = Len(stack[t]) + 1 \/ i \in DOMAIN stack[t]
      BY <1>1, <2>2
    <3> QED
      BY <1>1, <2>2, <3>1 DEF OwnVia
  <2> QED
    BY <2>1, <2>2
<1>3. ASSUME Leads, InDetour(t) => frame.detour = NoDetour PROVE Leads'
  <2> SUFFICES ASSUME NEW u \in Threads, NEW i \in DOMAIN stack'[u],
                      stack'[u][i].detour # NoDetour,
                      i + 1 \in DOMAIN stack'[u]
               PROVE  stack'[u][i + 1].detour = NoDetour
    BY DEF Leads
  <2>1. CASE u # t
    BY <1>1, <1>3, <2>1 DEF Leads
  <2>2. CASE u = t
    <3>1. i \in DOMAIN stack[t] /\ stack[t][i].detour # NoDetour
      BY <1>1, <2>2
    <3>2. CASE i + 1 \in DOMAIN stack[t]
      BY <1>1, <1>3, <2>2, <3>1, <3>2 DEF Leads
    <3>3. CASE i + 1 = Len(stack[t]) + 1
      <4>1. i = Len(stack[t]) /\ stack[t] # <<>>
        BY <1>1, <3>1, <3>3
      <4> QED
        BY <1>1, <1>3, <2>2, <3>1, <3>3, <4>1 DEF InDetour, Top
    <3> QED
      BY <1>1, <2>2, <3>2, <3>3
  <2> QED
    BY <2>1, <2>2
<1> QED
  BY <1>2, <1>3

LEMMA SetTopKeeps ==
  ASSUME stack \in Stacks, OwnVia,
         NEW t \in Threads, stack[t] # <<>>, NEW frame \in Frame, SetTop(t, frame),
         frame.via \in HookPointers \cup {NoPointer},
         frame.detour = Top(t).detour
  PROVE  OwnVia' /\ (Leads => Leads')
<1>1. stack[t] \in Seq(Frame)
  BY DEF Stacks
<1>2. /\ \A u \in Threads : u # t => stack'[u] = stack[u]
      /\ stack'[t] = [stack[t] EXCEPT ![Len(stack[t])] = frame]
  BY DEF SetTop, Stacks
<1>3. /\ DOMAIN stack'[t] = DOMAIN stack[t]
      /\ \A i \in DOMAIN stack[t] : i # Len(stack[t]) => stack'[t][i] = stack[t][i]
      /\ Len(stack[t]) \in DOMAIN stack[t] => stack'[t][Len(stack[t])] = frame
  BY <1>1, <1>2
<1>4. \A i \in DOMAIN stack[t] :
         /\ stack'[t][i].detour = stack[t][i].detour
         /\ stack'[t][i].via \in HookPointers \cup {NoPointer}
  BY <1>3 DEF OwnVia, Top
<1>5. OwnVia'
  BY <1>2, <1>3, <1>4 DEF OwnVia
<1>6. Leads => Leads'
  BY <1>2, <1>3, <1>4 DEF Leads
<1> QED
  BY <1>5, <1>6

LEMMA ReturnFrames ==
  ASSUME stack \in Stacks, NEW t \in Threads, Return(t)
  PROVE  /\ \A u \in Threads : u # t => stack'[u] = stack[u]
         /\ DOMAIN stack'[t] = 1 .. Len(stack'[t]) /\ Len(stack'[t]) \in Nat
         /\ DOMAIN stack'[t] \subseteq DOMAIN stack[t]
         /\ \A i \in DOMAIN stack'[t] : stack'[t][i] = stack[t][i]
<1>1. PICK k \in 0 .. Len(stack[t]) - 1 : stack' = [stack EXCEPT ![t] = SubSeq(@, 1, k)]
  BY DEF Return
<1>2. stack[t] \in Seq(Frame) /\ Len(stack[t]) \in Nat /\ DOMAIN stack[t] = 1 .. Len(stack[t])
  <2>1. stack[t] \in Seq(Frame)
    BY DEF Stacks
  <2> QED
    BY <2>1, LenProperties
<1>3. \A i \in 1 .. k : stack[t][i] \in Frame
  BY <1>2, ElementOfSeq
<1>4. /\ SubSeq(stack[t], 1, k) \in Seq(Frame)
      /\ Len(SubSeq(stack[t], 1, k)) = k
      /\ \A i \in 1 .. k : SubSeq(stack[t], 1, k)[i] = stack[t][i]
  BY <1>3, SubSeqProperties
<1>5. /\ \A u \in Threads : u # t => stack'[u] = stack[u]
      /\ stack'[t] = SubSeq(stack[t], 1, k)
  BY <1>1 DEF Stacks
<1> QED
  BY <1>2, <1>4, <1>5, LenProperties

LEMMA ReturnKeeps ==
  ASSUME stack \in Stacks, OwnVia, NEW t \in Threads, Return(t)
  PROVE  OwnVia' /\ (Leads => Leads')
<1>1. /\ \A u \in Threads : u # t => stack'[u] = stack[u]
      /\ DOMAIN stack'[t] \subseteq DOMAIN stack[t]
      /\ \A i \in DOMAIN stack'[t] : stack'[t][i] = stack[t][i]
  BY ReturnFrames
<1>2. OwnVia'
  BY <1>1 DEF OwnVia
<1>3. Leads => Leads'
  BY <1>1 DEF Leads
<1> QED
  BY <1>2, <1>3

LEMMA ArriveVia ==
  ASSUME HookTypeOK, NEW a, NEW mode
  PROVE  Arrive(a, mode).via \in HookPointers \cup {NoPointer}
<1>1. CASE a \in enabled
  <2>1. hooks[a] \in DOMAIN Forward
    BY <1>1 DEF HookTypeOK
  <2> QED
    BY <1>1, <2>1, ForwardType DEF Arrive
<1>2. CASE a \notin enabled
  BY <1>2 DEF Arrive
<1> QED
  BY <1>1, <1>2

LEMMA HostThreadReaches ==
  ASSUME StackInv, NEW t \in Threads, HostThread(t)
  PROVE  OwnVia' /\ (~again /\ Leads => Leads')
<1>0. HookTypeOK /\ stack \in Stacks /\ OwnVia
  BY DEF StackInv, PointerInv, HookTypeOK, Stacks
<1>f. \A m \in Modules : \A f \in Exports[m] : Function(m, f) \in Address
  BY ModulesAssumption DEF Function, Address
<1>1. ASSUME NEW m \in Modules, NEW f \in EntryPoints, HostCall(t, m, f)
      PROVE  OwnVia' /\ (~again /\ Leads => Leads')
  <2>1. f \in Exports[m] /\ ~InDetour(t) /\ Push(t, Arrive(Function(m, f), TRUE))
    BY <1>1 DEF HostCall, InDetour
  <2>2. Arrive(Function(m, f), TRUE) \in Frame
    BY <1>0, <2>1, <1>f, ArriveType
  <2> QED
    BY <1>0, <2>1, <2>2, ArriveVia, PushKeeps
<1>2. ASSUME NEW f, EngineCall(t, f) PROVE OwnVia' /\ (~again /\ Leads => Leads')
  <2>1. ~InDetour(t) /\ Push(t, Arrive(Function(Top(t).at.mod, f), TRUE))
    BY <1>2 DEF EngineCall, InEngine, InDetour
  <2>2. Top(t) \in Frame
    BY <1>0, <1>2, TopType DEF EngineCall, InEngine
  <2>3. Top(t).at.mod \in Modules
    BY <2>2 DEF Frame, Address
  <2>4. Arrive(Function(Top(t).at.mod, f), TRUE) \in Frame
    BY <1>0, <1>2, <2>3, <1>f, ArriveType DEF EngineCall
  <2> QED
    BY <1>0, <2>1, <2>4, ArriveVia, PushKeeps
<1>3. ASSUME TestPointer(t) PROVE OwnVia' /\ (~again /\ Leads => Leads')
  <2> DEFINE p == Forward[Top(t).detour][Top(t).seen + 1]
             top == IF fn[p] # NULL THEN [Top(t) EXCEPT !.via = p]
                                    ELSE [Top(t) EXCEPT !.seen = @ + 1]
  <2>1. stack[t] # <<>> /\ Top(t).detour # NoDetour /\ Top(t).via = NoPointer /\ SetTop(t, top)
    BY <1>3 DEF TestPointer, InDetour
  <2>2. Top(t) \in Frame
    BY <1>0, <2>1, TopType
  <2>3. Top(t).detour \in DOMAIN Forward /\ Top(t).seen \in Nat
    BY <2>1, <2>2 DEF Frame
  <2>4. p \in HookPointers /\ p \in Pointers
    <3>1. Top(t).seen < Len(Forward[Top(t).detour])
      BY <1>3 DEF TestPointer
    <3> QED
      BY <2>3, <3>1, ForwardType, HookPointersDeclared
  <2>5. /\ top \in Frame
        /\ top.via \in HookPointers \cup {NoPointer}
        /\ top.detour = Top(t).detour
    <3> HIDE DEF p
    <3> QED
      BY <2>1, <2>2, <2>3, <2>4 DEF Frame
  <2> HIDE DEF top
  <2> QED
    BY <1>0, <2>1, <2>5, SetTopKeeps
<1>4. ASSUME CallOriginal(t), CallArrives(t) PROVE OwnVia' /\ (~again /\ Leads => Leads')
  <2> DEFINE a == fn[Top(t).via]
  <2>1. /\ stack[t] # <<>>
        /\ Top(t).via # NoPointer
        /\ a # NULL
        /\ Push(t, Arrive(a, Complete(Top(t).via)))
    BY <1>4 DEF CallOriginal, CallArrives, InDetour
  <2>2. Top(t) \in Frame
    BY <1>0, <2>1, TopType
  <2>3. a \in Address
    BY <2>1, <2>2 DEF Frame, HookTypeOK, LoadTypeOK, StackInv, PointerInv
  <2>4. Top(t).via \in HookPointers
    <3>1. stack[t] \in Seq(Frame) /\ Len(stack[t]) \in DOMAIN stack[t]
      BY <1>0, <2>1, EmptySeq, LenProperties DEF Stacks
    <3> QED
      BY <1>0, <2>1, <3>1 DEF OwnVia, Top
  <2>5. ~again => a \notin enabled
    BY <2>4, BelowNotHooked DEF StackInv, PointerInv, HookTypeOK
  <2>6. Complete(Top(t).via) \in BOOLEAN
    BY DEF Complete
  <2> HIDE DEF a
  <2>7. Arrive(a, Complete(Top(t).via)) \in Frame
    BY <1>0, <2>3, <2>6, ArriveType
  <2>8. ~again => Arrive(a, Complete(Top(t).via)).detour = NoDetour
    BY <2>5 DEF Arrive
  <2> QED
    BY <1>0, <2>1, <2>7, <2>8, ArriveVia, PushKeeps
<1>5. ASSUME CallCrashes(t) PROVE OwnVia' /\ (~again /\ Leads => Leads')
  BY <1>0, <1>5 DEF CallCrashes, OwnVia, Leads
<1>6. ASSUME Return(t) PROVE OwnVia' /\ (~again /\ Leads => Leads')
  BY <1>0, <1>6, ReturnKeeps
<1> QED
  BY <1>1, <1>2, <1>3, <1>4, <1>5, <1>6 DEF HostThread, CallOriginal

LEMMA StackInit == Init => StackInv
<1> SUFFICES ASSUME Init PROVE OwnVia /\ Leads
  BY PointerInit DEF StackInv
<1> QED
  BY DEF Init, OwnVia, Leads

LEMMA StackNext == StackInv /\ [Next]_vars => StackInv'
<1> SUFFICES ASSUME StackInv, [Next]_vars PROVE OwnVia' /\ (again' \/ Leads')
  BY PointerNext DEF StackInv
<1>1. ASSUME NEW t \in Threads, HostThread(t) PROVE OwnVia' /\ (again' \/ Leads')
  <2>1. again' = again
    BY <1>1, HostThreadFrame DEF HostUnchanged
  <2> QED
    BY <1>1, <2>1, HostThreadReaches DEF StackInv
<1>2. CASE UNCHANGED stack /\ (again => again')
  BY <1>2 DEF StackInv, OwnVia, Leads
<1>3. ASSUME NEW m \in Modules, HostLoads(m), UNCHANGED hookVars
      PROVE  UNCHANGED stack /\ (again => again')
  BY <1>3 DEF hookVars
<1>4. LoadLua => UNCHANGED stack /\ (again => again')
  BY DEF LoadLua
<1>6. HookStep => UNCHANGED stack /\ (again => again')
  BY DEF HookStep, BeginHooks, SkipHook, RefuseHook, CreateHook, EnableHooks
<1>5. UNCHANGED vars => UNCHANGED stack /\ (again => again')
  BY DEF vars, hookVars
<1> QED
  BY <1>1, <1>2, <1>3, <1>4, <1>5, <1>6 DEF Next

(* While no engine is installed again, what a detour calls is the engine's *)
(* code, never a detour, on every thread and at every moment of any number *)
(* of installs (odbk_lhook.cpp).                                           *)
THEOREM ReachesCorrect == Spec => []ForwardReachesEngine
<1>1. Init => StackInv
  BY StackInit
<1>2. StackInv /\ [Next]_vars => StackInv'
  BY StackNext
<1>3. StackInv => ForwardReachesEngine
  BY DEF StackInv, Leads, ForwardReachesEngine
<1> QED
  BY <1>1, <1>2, <1>3, PTL DEF Spec

-----------------------------------------------------------------------------
(***************************************************************************)
(* Why an install leaves no bound pointer unhooked.  Under a trampoline    *)
(* there is always a hook on the engine's own code (Based); every hook of  *)
(* the plan passed so far has moved its pointer to a trampoline or been    *)
(* refused by MinHook (Moved), and so have all once the install is over;   *)
(* hooks wait to be enabled only while an install creates them             *)
(* (AllEnabled, a part of HookTypeOK).                                     *)
(***************************************************************************)
Entry(a) == [a EXCEPT !.depth = 0]

Based ==
  \A p \in HookPointers : fn[p] # NULL /\ fn[p].depth > 0 => Entry(fn[p]) \in DOMAIN hooks

MovedAt(i) ==
  LET p == HookPlan[i].fn IN
    ForVersion(HookPlan[i]) /\ fn[p] # NULL => fn[p].depth > 0 \/ fn[p] \in refused

Moved ==
  /\ pc = "hook" => \A i \in DOMAIN HookPlan : i < hidx => MovedAt(i)
  /\ pc = "idle" => \A i \in DOMAIN HookPlan : MovedAt(i)

BoundInv == PointerInv /\ Based /\ (again \/ Moved)

LEMMA BoundInit == Init => BoundInv
<1> SUFFICES ASSUME Init PROVE BoundInv
  OBVIOUS
<1>1. PointerInv
  BY PointerInit
<1>2. \A p \in HookPointers : fn[p] = NULL
  BY HookPointersDeclared DEF Init, LoadInit
<1> QED
  BY <1>1, <1>2 DEF BoundInv, Based, Moved, MovedAt, HookPointers

(* A step that leaves pointers, hooks and the version alone. *)
LEMMA BoundUnchanged ==
  ASSUME BoundInv, PointerInv', UNCHANGED <<fn, hooks, refused, version, hidx, pc>>,
         again => again'
  PROVE  BoundInv'
<1>1. Based'
  BY DEF BoundInv, Based
<1>2. Moved => Moved'
  BY DEF Moved, MovedAt, ForVersion
<1> QED
  BY <1>1, <1>2 DEF BoundInv

(* A load: what it finds is the engine's own code.                         *)
LEMMA LoadLuaBound ==
  ASSUME BoundInv, PointerInv', LoadLua
  PROVE  BoundInv'
<1>1. LoaderStep /\ UNCHANGED <<hooks, refused, hidx>> /\ (again => again')
  BY DEF LoadLua
<1>2. Based'
  <2>1. CASE GetFunction
    <3> DEFINE q == LoadPlan[idx].fn
               found == Resolve(LoadPlan[idx].sym)
    <3>1. q \in Pointers /\ LoadPlan[idx].sym \in STRING
      BY <2>1, PlanStepType DEF GetFunction, Looking
    <3>2. fn'[q] = found /\ \A p \in Pointers : p # q => fn'[p] = fn[p]
      BY <2>1, <3>1 DEF GetFunction, Found, BoundInv, PointerInv, HookTypeOK, LoadTypeOK
    <3>3. found # NULL => found.depth = 0
      BY <3>1, ResolvedPointer DEF BoundInv, PointerInv, HookTypeOK, LoadTypeOK
    <3> HIDE DEF q, found
    <3> SUFFICES ASSUME NEW p \in HookPointers, fn'[p] # NULL, fn'[p].depth > 0
                 PROVE  Entry(fn'[p]) \in DOMAIN hooks
      BY <1>1 DEF Based, Entry
    <3>4. fn'[p] = fn[p]
      BY <3>2, <3>3, HookPointersDeclared
    <3> QED
      BY <3>4 DEF BoundInv, Based
  <2>2. CASE ~GetFunction
    BY <1>1, <2>2, LoaderEffect DEF BoundInv, Based
  <2> QED
    BY <2>1, <2>2
<1>3. CASE UNCHANGED <<fn, pc, version>> /\ pc = "idle"
  BY <1>1, <1>3, BoundUnchanged
<1>4. CASE pc # "hook" /\ pc' \notin {"hook", "idle"}
  BY <1>1, <1>2, <1>4 DEF BoundInv, Moved
<1> QED
  BY <1>1, <1>3, <1>4, LoaderGoesOn

LEMMA SkipHookBound ==
  ASSUME BoundInv, PointerInv', SkipHook
  PROVE  BoundInv'
<1>1. /\ hidx \in DOMAIN HookPlan /\ hidx' = hidx + 1
      /\ pc = "hook" /\ UNCHANGED <<fn, hooks, refused, version, pc, again>>
      /\ \/ ~ForVersion(HookPlan[hidx])
         \/ fn[HookPlan[hidx].fn] = NULL
         \/ fn[HookPlan[hidx].fn] \in DOMAIN hooks
  BY DEF SkipHook, Hooking, loadVars
<1>2. Based'
  BY <1>1 DEF BoundInv, Based
<1>3. CASE again
  BY <1>1, <1>2, <1>3 DEF BoundInv
<1>4. CASE ~again
  <2>1. MovedAt(hidx)
    <3>1. HookPlan[hidx].fn \in HookPointers
      BY <1>1 DEF HookPointers
    <3>2. fn[HookPlan[hidx].fn] \notin DOMAIN hooks
      BY <1>4, <3>1, BelowNotHooked DEF BoundInv
    <3> QED
      BY <1>1, <3>2 DEF MovedAt
  <2>2. \A i \in DOMAIN HookPlan : i < hidx + 1 => MovedAt(i)
    <3>1. DOMAIN HookPlan \subseteq Nat
      BY HookPlanDomain
    <3>2. \A i \in DOMAIN HookPlan : i < hidx + 1 => i < hidx \/ i = hidx
      BY <1>1, <3>1
    <3> QED
      BY <1>1, <1>4, <2>1, <3>2 DEF BoundInv, Moved
  <2>3. Moved'
    BY <1>1, <2>2 DEF Moved, MovedAt, ForVersion
  <2> QED
    BY <1>2, <2>3 DEF BoundInv
<1> QED
  BY <1>3, <1>4

LEMMA RefuseHookBound ==
  ASSUME BoundInv, PointerInv', RefuseHook
  PROVE  BoundInv'
<1>1. /\ hidx \in DOMAIN HookPlan /\ hidx' = hidx + 1
      /\ pc = "hook" /\ UNCHANGED <<fn, hooks, version, pc, again>>
      /\ refused' = refused \cup {fn[HookPlan[hidx].fn]}
  BY DEF RefuseHook, Hooking, loadVars
<1> DEFINE MovesAt(i) == LET p == HookPlan[i].fn IN
             ForVersion(HookPlan[i]) /\ fn[p] # NULL => fn[p].depth > 0 \/ fn[p] \in refused'
<1>2. Based'
  BY <1>1 DEF BoundInv, Based
<1>3. ASSUME Moved PROVE Moved'
  <2>1. DOMAIN HookPlan \subseteq Nat /\ hidx \in Nat
    BY <1>1, HookPlanDomain
  <2>2. \A i \in DOMAIN HookPlan : i < hidx + 1 => i < hidx \/ i = hidx
    BY <2>1
  <2>3. \A i \in DOMAIN HookPlan : i < hidx => MovesAt(i)
    BY <1>1, <1>3 DEF Moved, MovedAt
  <2>4. MovesAt(hidx)
    BY <1>1
  <2>5. \A i \in DOMAIN HookPlan : i < hidx + 1 => MovesAt(i)
    <3> HIDE DEF MovesAt
    <3> QED
      BY <2>2, <2>3, <2>4
  <2> QED
    BY <1>1, <2>5 DEF Moved, MovedAt, ForVersion
<1> QED
  BY <1>1, <1>2, <1>3 DEF BoundInv

LEMMA CreateHookBound ==
  ASSUME BoundInv, PointerInv', CreateHook
  PROVE  BoundInv'
<1>1. PICK p \in HookPointers :
           /\ p \in Pointers /\ p = HookPlan[hidx].fn
           /\ fn[p] \in Address \ DOMAIN hooks
           /\ LeftInPointer(fn[p]) \in Address
           /\ LeftInPointer(fn[p]).mod = fn[p].mod
           /\ LeftInPointer(fn[p]).sym = fn[p].sym
           /\ LeftInPointer(fn[p]).depth = fn[p].depth + 1
           /\ fn' = [fn EXCEPT ![p] = LeftInPointer(fn[p])]
           /\ DOMAIN hooks' = DOMAIN hooks \cup {fn[p]}
  BY CreateHookEffect DEF BoundInv, PointerInv
<1>2. /\ hidx \in DOMAIN HookPlan /\ hidx' = hidx + 1
      /\ pc = "hook" /\ UNCHANGED <<version, refused, pc, again>>
  BY DEF CreateHook, Hooking
<1>3. /\ fn'[p] = LeftInPointer(fn[p])
      /\ \A q \in Pointers : q # p => fn'[q] = fn[q]
  BY <1>1 DEF BoundInv, PointerInv, HookTypeOK, LoadTypeOK
<1>4. fn[p] # NULL /\ fn[p].depth \in Nat /\ fn'[p].depth > 0
  BY <1>1, <1>3, NullAssumption DEF Address
<1>5. Based'
  <2> SUFFICES ASSUME NEW q \in HookPointers, fn'[q] # NULL, fn'[q].depth > 0
               PROVE  Entry(fn'[q]) \in DOMAIN hooks \cup {fn[p]}
    BY <1>1 DEF Based, Entry
  <2>1. CASE q # p
    <3>1. fn'[q] = fn[q]
      BY <1>3, <2>1, HookPointersDeclared
    <3> QED
      BY <3>1 DEF BoundInv, Based
  <2>2. CASE q = p
    <3>1. Entry(fn'[p]) = Entry(fn[p])
      BY <1>1, <1>3 DEF Entry, LeftInPointer, Trampoline, Address
    <3>2. CASE fn[p].depth = 0
      <4>1. Entry(fn[p]) = fn[p]
        BY <1>1, <3>2 DEF Entry, Address
      <4> QED
        BY <2>2, <3>1, <4>1
    <3>3. CASE fn[p].depth > 0
      BY <1>4, <2>2, <3>1, <3>3 DEF BoundInv, Based
    <3> QED
      BY <1>4, <3>2, <3>3
  <2> QED
    BY <2>1, <2>2
<1>7. Moved => Moved'
  <2> SUFFICES ASSUME Moved, NEW i \in DOMAIN HookPlan, i < hidx + 1,
                      ForVersion(HookPlan[i]), fn'[HookPlan[i].fn] # NULL
               PROVE  fn'[HookPlan[i].fn].depth > 0 \/ fn'[HookPlan[i].fn] \in refused
    BY <1>2 DEF Moved, MovedAt, ForVersion
  <2>1. CASE HookPlan[i].fn = p
    BY <1>4, <2>1
  <2>2. CASE HookPlan[i].fn # p
    <3>1. DOMAIN HookPlan \subseteq Nat
      BY HookPlanDomain
    <3>2. i < hidx
      <4>1. i \in Nat /\ hidx \in Nat /\ i # hidx
        BY <1>1, <1>2, <2>2, <3>1
      <4> QED
        BY <4>1
    <3>3. fn'[HookPlan[i].fn] = fn[HookPlan[i].fn]
      BY <1>3, <2>2, HookStepPlan
    <3> QED
      BY <1>2, <3>2, <3>3 DEF Moved, MovedAt
  <2> QED
    BY <2>1, <2>2
<1> QED
  BY <1>2, <1>5, <1>7 DEF BoundInv

LEMMA EnableHooksBound ==
  ASSUME BoundInv, PointerInv', EnableHooks
  PROVE  BoundInv'
<1>1. /\ pc = "hook" /\ pc' = "idle" /\ hidx \notin DOMAIN HookPlan
      /\ UNCHANGED <<fn, hooks, refused, version, again>>
  BY DEF EnableHooks
<1>2. Based'
  BY <1>1 DEF BoundInv, Based
<1>3. Moved => Moved'
  <2>1. \A i \in DOMAIN HookPlan : i < hidx
    <3>1. hidx \in Nat \ {0}
      BY DEF BoundInv, PointerInv, HookTypeOK
    <3>2. Len(HookPlan) \in Nat /\ DOMAIN HookPlan = 1 .. Len(HookPlan)
      BY HookPlanDomain
    <3> QED
      BY <1>1, <3>1, <3>2
  <2> QED
    BY <1>1, <2>1 DEF Moved, MovedAt, ForVersion
<1> QED
  BY <1>1, <1>2, <1>3 DEF BoundInv

LEMMA BoundNext == BoundInv /\ [Next]_vars => BoundInv'
<1> SUFFICES ASSUME BoundInv, [Next]_vars PROVE BoundInv'
  OBVIOUS
<1>0. PointerInv'
  BY PointerNext DEF BoundInv
<1>1. ASSUME NEW m \in Modules, HostLoads(m), UNCHANGED hookVars PROVE BoundInv'
  BY <1>0, <1>1, BoundUnchanged DEF HostLoads, hookVars
<1>2. CASE LoadLua
  BY <1>0, <1>2, LoadLuaBound
<1>3. CASE BeginHooks
  <2>1. /\ pc = "returned" /\ pc' = "hook" /\ hidx' = 1
        /\ UNCHANGED <<fn, hooks, refused, version, again>>
    BY <1>3 DEF BeginHooks
  <2>2. \A i \in DOMAIN HookPlan : ~(i < 1)
    BY HookPlanDomain
  <2> QED
    BY <1>0, <2>1, <2>2 DEF BoundInv, Based, Moved
<1>4. CASE SkipHook
  BY <1>0, <1>4, SkipHookBound
<1>5. CASE CreateHook
  BY <1>0, <1>5, CreateHookBound
<1>9. CASE RefuseHook
  BY <1>0, <1>9, RefuseHookBound
<1>6. CASE EnableHooks
  BY <1>0, <1>6, EnableHooksBound
<1>7. ASSUME NEW t \in Threads, HostThread(t) PROVE BoundInv'
  BY <1>0, <1>7, HostThreadFrame, BoundUnchanged DEF HostUnchanged
<1>8. CASE UNCHANGED vars
  BY <1>0, <1>8, BoundUnchanged DEF vars, loadVars, hookVars
<1> QED
  BY <1>1, <1>2, <1>3, <1>4, <1>5, <1>6, <1>7, <1>8, <1>9 DEF Next, HookStep

LEMMA BoundGoal ==
  ASSUME BoundInv
  PROVE  BoundIntercepted
<1> SUFFICES ASSUME pc = "idle", ~again, NEW i \in DOMAIN HookPlan,
                    ForVersion(HookPlan[i]), fn[HookPlan[i].fn] # NULL
             PROVE  /\ fn[HookPlan[i].fn].depth = 0 => fn[HookPlan[i].fn] \in refused
                    /\ fn[HookPlan[i].fn].depth > 0 => Entry(fn[HookPlan[i].fn]) \in enabled
  BY DEF BoundIntercepted, Entry
<1>1. fn[HookPlan[i].fn].depth > 0 \/ fn[HookPlan[i].fn] \in refused
  BY DEF BoundInv, Moved, MovedAt
<1>2. fn[HookPlan[i].fn].depth > 0 => Entry(fn[HookPlan[i].fn]) \in enabled
  BY DEF BoundInv, Based, PointerInv, HookTypeOK, AllEnabled, HookPointers
<1> QED
  BY <1>1, <1>2

(* However many engines were installed, whether their loads succeeded or   *)
(* broke off, whatever hooks MinHook refused: every bound pointer of the   *)
(* hooks for this version leads past the debugger to an intercepted        *)
(* function, or still is at a function that MinHook refused to hook        *)
(* (odbk_install_lua_hooks), as long as no engine is installed again.      *)
THEOREM BoundCorrect == Spec => []BoundIntercepted
BY BoundGoal, BoundInit, BoundNext, PTL DEF Spec

-----------------------------------------------------------------------------
(***************************************************************************)
(* Why no pointer moves under a running detour while there is one install: *)
(* pointers change before the hooks are enabled, and until then no call    *)
(* gets into a detour.                                                     *)
(***************************************************************************)
NoneInDetour == \A t \in Threads : \A i \in DOMAIN stack[t] : stack[t][i].detour = NoDetour

QuietInv ==
  /\ HookTypeOK
  /\ pc # "idle" => loads >= 1
  /\ \/ pc = "idle" /\ loads >= 1
     \/ enabled = {} /\ NoneInDetour

LEMMA HostThreadNone ==
  ASSUME HookTypeOK, enabled = {}, NoneInDetour, NEW t \in Threads, HostThread(t)
  PROVE  NoneInDetour'
<1>0. stack \in Stacks
  BY DEF HookTypeOK, Stacks
<1>1. ~InDetour(t)
  <2> SUFFICES ASSUME stack[t] # <<>> PROVE Top(t).detour = NoDetour
    BY DEF InDetour
  <2>1. Len(stack[t]) \in DOMAIN stack[t]
    BY <1>0, EmptySeq, LenProperties DEF Stacks
  <2> QED
    BY <2>1 DEF NoneInDetour, Top
<1>2. ASSUME NEW m \in Modules, NEW f \in STRING, Push(t, Arrive(Function(m, f), TRUE))
      PROVE  NoneInDetour'
  <2>1. Function(m, f) \in Address
    BY DEF Function, Address
  <2>2. Arrive(Function(m, f), TRUE) \in Frame
    BY <1>0, <2>1, ArriveType
  <2>3. Arrive(Function(m, f), TRUE).detour = NoDetour
    BY DEF Arrive
  <2> HIDE DEF Function
  <2>4. /\ \A u \in Threads : u # t => stack'[u] = stack[u]
        /\ DOMAIN stack'[t] = 1 .. Len(stack[t]) + 1
        /\ DOMAIN stack[t] = 1 .. Len(stack[t]) /\ Len(stack[t]) \in Nat
        /\ \A i \in DOMAIN stack[t] : stack'[t][i] = stack[t][i]
        /\ stack'[t][Len(stack[t]) + 1] = Arrive(Function(m, f), TRUE)
    BY <1>0, <1>2, <2>2, PushFrames
  <2>5. \A i \in DOMAIN stack'[t] : i \in DOMAIN stack[t] \/ i = Len(stack[t]) + 1
    BY <2>4
  <2>6. \A i \in DOMAIN stack'[t] : stack'[t][i].detour = NoDetour
    BY <2>3, <2>4, <2>5 DEF NoneInDetour
  <2> QED
    BY <2>4, <2>6 DEF NoneInDetour
<1>3. ASSUME NEW m \in Modules, NEW f \in EntryPoints, HostCall(t, m, f) PROVE NoneInDetour'
  BY <1>2, <1>3, ModulesAssumption DEF HostCall
<1>4. ASSUME NEW m \in Modules, NEW c \in Calls[m], EngineCall(t, c[2]) PROVE NoneInDetour'
  <2>1. Top(t) \in Frame
    BY <1>0, <1>4, TopType DEF EngineCall, InEngine
  <2>2. Top(t).at.mod \in Modules
    BY <2>1 DEF Frame, Address
  <2>3. c[2] \in STRING
    BY <1>4, <2>2, ModulesAssumption DEF EngineCall
  <2> QED
    BY <1>2, <1>4, <2>2, <2>3 DEF EngineCall
<1>5. ~TestPointer(t) /\ ~CallOriginal(t)
  BY <1>1 DEF TestPointer, CallOriginal
<1>6. ASSUME Return(t) PROVE NoneInDetour'
  <2>1. /\ \A u \in Threads : u # t => stack'[u] = stack[u]
        /\ DOMAIN stack'[t] \subseteq DOMAIN stack[t]
        /\ \A i \in DOMAIN stack'[t] : stack'[t][i] = stack[t][i]
    BY <1>0, <1>6, ReturnFrames
  <2> QED
    BY <2>1 DEF NoneInDetour
<1> QED
  BY <1>3, <1>4, <1>5, <1>6 DEF HostThread

(* The only load there may be has begun: no other begins. *)
LEMMA LoadsOnce ==
  ASSUME MaxLoads = 1, QuietInv, LoadLua
  PROVE  ~(pc = "idle" /\ loads >= 1) /\ (pc' # "idle" => loads' >= 1)
<1>1. LoaderStep /\ loads \in Nat
  BY DEF LoadLua, QuietInv, HookTypeOK, LoadTypeOK
<1>2. CASE pc = "idle"
  <2>1. loads < 1 /\ loads' = loads + 1
    BY <1>1, <1>2 DEF LoaderStep, LoadFromHandle, LoadFromSpecified, LoadFromAppModules,
                      BeginLoad, DetectVersion, NotLua, SkipLookup, GetFunction, Looking,
                      FinishLoad
  <2> QED
    BY <1>1, <2>1
<1>3. CASE pc # "idle"
  <2>1. loads' = loads
    BY <1>1, <1>3 DEF LoaderStep, LoadFromHandle, LoadFromSpecified, LoadFromAppModules,
                      BeginLoad, DetectVersion, NotLua, SkipLookup, GetFunction, FinishLoad
  <2> QED
    BY <1>3, <2>1 DEF QuietInv
<1> QED
  BY <1>2, <1>3

LEMMA QuietNext ==
  ASSUME MaxLoads = 1, QuietInv, [Next]_vars
  PROVE  QuietInv'
<1>0. HookTypeOK'
  BY HookNextType DEF QuietInv
<1>1. ASSUME NEW m \in Modules, HostLoads(m), UNCHANGED hookVars PROVE QuietInv'
  BY <1>0, <1>1 DEF HostLoads, hookVars, QuietInv, NoneInDetour
<1>2. CASE LoadLua
  BY <1>0, <1>2, LoadsOnce DEF LoadLua, QuietInv, NoneInDetour
<1>3. CASE BeginHooks
  BY <1>0, <1>3 DEF BeginHooks, QuietInv, NoneInDetour
<1>4. CASE SkipHook
  BY <1>0, <1>4 DEF SkipHook, Hooking, loadVars, QuietInv, NoneInDetour
<1>9. CASE RefuseHook
  BY <1>0, <1>9 DEF RefuseHook, Hooking, loadVars, QuietInv, NoneInDetour
<1>5. CASE CreateHook
  BY <1>0, <1>5 DEF CreateHook, Hooking, Effective, QuietInv, NoneInDetour
<1>6. CASE EnableHooks
  <2>1. pc = "hook" /\ pc' = "idle" /\ loads' = loads
    BY <1>6 DEF EnableHooks
  <2>2. loads' >= 1
    BY <2>1 DEF QuietInv
  <2> QED
    BY <1>0, <2>1, <2>2 DEF QuietInv
<1>7. ASSUME NEW t \in Threads, HostThread(t) PROVE QuietInv'
  <2>1. pc' = pc /\ loads' = loads /\ enabled' = enabled
    BY <1>7, HostThreadFrame DEF HostUnchanged
  <2>2. pc # "idle" => loads >= 1
    BY DEF QuietInv
  <2>3. CASE pc = "idle" /\ loads >= 1
    BY <1>0, <2>1, <2>3 DEF QuietInv
  <2>4. CASE enabled = {} /\ NoneInDetour
    <3>1. HookTypeOK
      BY DEF QuietInv
    <3>2. NoneInDetour'
      BY <1>7, <2>4, <3>1, HostThreadNone
    <3> QED
      BY <1>0, <2>1, <2>2, <2>4, <3>2 DEF QuietInv
  <2> QED
    BY <2>3, <2>4 DEF QuietInv
<1>8. CASE UNCHANGED vars
  BY <1>0, <1>8 DEF vars, loadVars, hookVars, QuietInv, NoneInDetour
<1> QED
  BY <1>1, <1>2, <1>3, <1>4, <1>5, <1>6, <1>7, <1>8, <1>9 DEF Next, HookStep

(* A step that moves a pointer is one of the install, before its end. *)
LEMMA QuietStep ==
  ASSUME MaxLoads = 1, QuietInv, [Next]_vars, NEW p \in Pointers, fn'[p] # fn[p],
         NEW t \in Threads
  PROVE  ~InDetour(t)
<1>1. ASSUME NoneInDetour PROVE ~InDetour(t)
  <2> SUFFICES ASSUME stack[t] # <<>> PROVE Top(t).detour = NoDetour
    BY DEF InDetour
  <2>1. Len(stack[t]) \in DOMAIN stack[t]
    BY EmptySeq, LenProperties DEF QuietInv, HookTypeOK
  <2> QED
    BY <1>1, <2>1 DEF NoneInDetour, Top
<1>2. LoadLua \/ CreateHook
  <2>1. ASSUME NEW m \in Modules, HostLoads(m) PROVE fn' = fn
    BY <2>1 DEF HostLoads
  <2>2. ASSUME NEW u \in Threads, HostThread(u) PROVE fn' = fn
    BY <2>2, HostThreadFrame DEF HostUnchanged
  <2>3. BeginHooks \/ SkipHook \/ RefuseHook \/ EnableHooks \/ UNCHANGED vars => fn' = fn
    BY DEF BeginHooks, SkipHook, RefuseHook, EnableHooks, vars, loadVars
  <2> QED
    BY <2>1, <2>2, <2>3 DEF Next, HookStep
<1>3. ~(pc = "idle" /\ loads >= 1)
  BY <1>2, LoadsOnce DEF CreateHook, Hooking
<1> QED
  BY <1>1, <1>3 DEF QuietInv

(* While there is one install, the pointers a detour of any thread may     *)
(* still read stay as they are (odbk_install_lua_hooks enables the hooks   *)
(* last).                                                                  *)
THEOREM QuietCorrect ==
  ASSUME MaxLoads = 1
  PROVE  Spec => PointersQuiet
<1>1. Init => QuietInv
  BY HookInitType DEF Init, LoadInit, QuietInv, NoneInDetour
<1>2. QuietInv /\ [Next]_vars => QuietInv'
  BY QuietNext
<1>3. QuietInv /\ [Next]_vars =>
        [\A p \in Pointers : fn'[p] # fn[p] =>
           \A t \in Threads : InDetour(t) =>
             \A i \in DOMAIN Forward[Top(t).detour] : Forward[Top(t).detour][i] # p]_vars
  BY QuietStep
<1> QED
  BY <1>1, <1>2, <1>3, PTL DEF Spec, PointersQuiet

-----------------------------------------------------------------------------
(***************************************************************************)
(* Hooks, pointers and detours keep the promise of Interception: for every *)
(* engine, every set of host threads and every plan of lookups and hooks   *)
(* in which a detour goes on through the pointers of its own function, as  *)
(* long as there is one install.                                           *)
(***************************************************************************)

-----------------------------------------------------------------------------
(* The calls that are open on a stack.                                     *)

(* Only a detour at the top has nothing of the engine on it. *)
Alternating(s) ==
  \A i \in DOMAIN s : s[i].detour # NoDetour =>
    \A j \in DOMAIN s : j = i + 1 => s[j].detour = NoDetour

RanBy(s, i) ==
  IF s[i].detour = NoDetour THEN Code(s[i].at)
  ELSE IF i + 1 \in DOMAIN s THEN Code(s[i + 1].at)
  ELSE NotYet

(* No step is needed to find what ran: it is the call's frame or the next. *)
LEMMA OpenCallIs ==
  ASSUME NEW s \in Seq(Frame), Alternating(s), NEW i \in DOMAIN s
  PROVE  OpenCall(s, i) = [asked |-> Code(s[i].at), ran |-> RanBy(s, i)]
<1> DEFINE runs == RunsIn(s, i)
           first == CHOOSE j \in runs : \A k \in runs : j <= k
<1>1. DOMAIN s = 1 .. Len(s) /\ Len(s) \in Nat /\ i \in 1 .. Len(s)
  BY LenProperties
<1>2. \A j : j \in runs <=> j \in i .. Len(s) /\ s[j].detour = NoDetour
  BY DEF RunsIn
<1>a. OpenCall(s, i) = [asked |-> Code(s[i].at),
                        ran |-> IF runs = {} THEN NotYet ELSE Code(s[first].at)]
  BY DEF OpenCall
<1>b. \A k \in runs : (\A j \in runs : k <= j) /\ (\A j \in runs : (\A l \in runs : j <= l) => j = k)
                     => first = k
  OBVIOUS
<1> HIDE DEF runs, first
<1>3. CASE s[i].detour = NoDetour
  <2>1. i \in runs /\ \A k \in runs : i <= k
    BY <1>1, <1>2, <1>3
  <2>2. \A j \in runs : (\A k \in runs : j <= k) => j = i
    BY <1>1, <1>2, <2>1
  <2>3. first = i /\ runs # {}
    BY <2>1, <2>2, <1>b
  <2> QED
    BY <1>3, <1>a, <2>3 DEF RanBy
<1>4. CASE s[i].detour # NoDetour /\ i + 1 \in DOMAIN s
  <2>1. s[i + 1].detour = NoDetour
    BY <1>4 DEF Alternating
  <2>2. i + 1 \in runs /\ \A k \in runs : i + 1 <= k
    BY <1>1, <1>2, <1>4, <2>1
  <2>3. \A j \in runs : (\A k \in runs : j <= k) => j = i + 1
    BY <1>1, <1>2, <2>2
  <2>4. first = i + 1 /\ runs # {}
    BY <2>2, <2>3, <1>b
  <2> QED
    BY <1>4, <1>a, <2>4 DEF RanBy
<1>5. CASE s[i].detour # NoDetour /\ i + 1 \notin DOMAIN s
  <2>1. runs = {}
    BY <1>1, <1>2, <1>5
  <2> QED
    BY <1>5, <1>a, <2>1 DEF RanBy
<1> QED
  BY <1>3, <1>4, <1>5

LEMMA CallsAre ==
  ASSUME NEW s \in Seq(Frame), Alternating(s)
  PROVE  CallsOf(s) = [i \in Asked(s) |-> [asked |-> Code(s[i].at), ran |-> RanBy(s, i)]]
<1>1. \A i \in Asked(s) : i \in DOMAIN s
  BY DEF Asked
<1>2. \A i \in Asked(s) : OpenCall(s, i) = [asked |-> Code(s[i].at), ran |-> RanBy(s, i)]
  BY <1>1, OpenCallIs
<1> QED
  BY <1>2 DEF CallsOf

(* The index that Interception takes for the innermost call. *)
LEMMA LastOf ==
  ASSUME NEW A, NEW d \in A, A \subseteq Nat, \A e \in A : e <= d
  PROVE  (CHOOSE x \in A : \A e \in A : e <= x) = d
<1>1. \A x \in A : (\A e \in A : e <= x) => x = d
  OBVIOUS
<1> QED
  BY <1>1

(* Where the code of an engine runs, the innermost call has got to it. *)
LEMMA EngineRuns ==
  ASSUME NEW s \in Seq(Frame), Alternating(s), s # <<>>, s[Len(s)].detour = NoDetour
  PROVE  \E d \in Asked(s) :
           /\ \A e \in Asked(s) : e <= d
           /\ RanBy(s, d) = Code(s[Len(s)].at)
           /\ d = Len(s) \/ (d = Len(s) - 1 /\ s[d].detour # NoDetour)
<1>1. DOMAIN s = 1 .. Len(s) /\ Len(s) \in Nat /\ Len(s) \in DOMAIN s
  BY EmptySeq, LenProperties
<1>2. Asked(s) \subseteq 1 .. Len(s)
  BY <1>1 DEF Asked
<1>3. CASE Len(s) \in Asked(s)
  BY <1>1, <1>2, <1>3 DEF RanBy
<1>4. CASE Len(s) \notin Asked(s)
  <2>1. Len(s) - 1 \in DOMAIN s /\ s[Len(s) - 1].detour # NoDetour
    BY <1>1, <1>4 DEF Asked
  <2>2. Len(s) - 1 \in Asked(s)
    <3> SUFFICES ASSUME Len(s) - 1 # 1 PROVE s[Len(s) - 1 - 1].detour = NoDetour
      BY <2>1 DEF Asked
    <3>1. Len(s) - 1 - 1 \in DOMAIN s /\ Len(s) - 1 = Len(s) - 1 - 1 + 1
      BY <1>1, <2>1
    <3> QED
      BY <2>1, <3>1 DEF Alternating
  <2>3. \A e \in Asked(s) : e <= Len(s) - 1
    BY <1>1, <1>2, <1>4
  <2>4. RanBy(s, Len(s) - 1) = Code(s[Len(s)].at)
    BY <1>1, <2>1 DEF RanBy
  <2> QED
    BY <2>1, <2>2, <2>3, <2>4
<1> QED
  BY <1>3, <1>4

(* Where a detour runs, the innermost call is its own, and waits. *)
LEMMA DetourWaits ==
  ASSUME NEW s \in Seq(Frame), Alternating(s), s # <<>>, s[Len(s)].detour # NoDetour
  PROVE  /\ Len(s) \in Asked(s)
         /\ \A e \in Asked(s) : e <= Len(s)
         /\ RanBy(s, Len(s)) = NotYet
<1>1. DOMAIN s = 1 .. Len(s) /\ Len(s) \in Nat /\ Len(s) \in DOMAIN s
  BY EmptySeq, LenProperties
<1>2. Len(s) \in Asked(s)
  <2> SUFFICES ASSUME Len(s) # 1 PROVE s[Len(s) - 1].detour = NoDetour
    BY <1>1 DEF Asked
  <2>1. Len(s) - 1 \in DOMAIN s /\ Len(s) = Len(s) - 1 + 1
    BY <1>1
  <2> QED
    BY <1>1, <2>1 DEF Alternating
<1>3. Len(s) + 1 \notin DOMAIN s
  BY <1>1
<1> QED
  BY <1>1, <1>2, <1>3 DEF Asked, RanBy

(* A frame on an engine's frame, or on none, is one more call. *)
LEMMA AskFrames ==
  ASSUME NEW s \in Seq(Frame), Alternating(s), NEW f \in Frame,
         s = <<>> \/ s[Len(s)].detour = NoDetour
  PROVE  LET s1 == Append(s, f)
             n  == Len(s) + 1
         IN /\ Alternating(s1)
            /\ Asked(s1) = Asked(s) \cup {n}
            /\ \A i \in Asked(s) : i < n /\ s1[i] = s[i] /\ RanBy(s1, i) = RanBy(s, i)
            /\ s1[n] = f
            /\ RanBy(s1, n) = IF f.detour = NoDetour THEN Code(f.at) ELSE NotYet
<1> DEFINE s1 == Append(s, f)
           n  == Len(s) + 1
<1>1. DOMAIN s = 1 .. Len(s) /\ Len(s) \in Nat /\ (s # <<>> => Len(s) \in DOMAIN s)
  BY EmptySeq, LenProperties
<1>2. /\ DOMAIN s1 = 1 .. n
      /\ \A i \in 1 .. Len(s) : s1[i] = s[i]
      /\ s1[n] = f
  <2>1. /\ s1 \in Seq(Frame)
        /\ Len(s1) = n
        /\ \A i \in 1 .. Len(s) : s1[i] = s[i]
        /\ s1[n] = f
    BY AppendProperties
  <2> QED
    BY <2>1, LenProperties
<1> HIDE DEF s1
<1>3. Len(s) > 0 => s[Len(s)].detour = NoDetour
  BY <1>1, EmptySeq
<1>4. Alternating(s1)
  <2> SUFFICES ASSUME NEW i \in DOMAIN s1, s1[i].detour # NoDetour, i + 1 \in DOMAIN s1
               PROVE  s1[i + 1].detour = NoDetour
    BY DEF Alternating
  <2>1. i \in DOMAIN s /\ s[i].detour # NoDetour /\ i # Len(s)
    BY <1>1, <1>2, <1>3
  <2>2. i + 1 \in DOMAIN s
    BY <1>1, <2>1
  <2> QED
    BY <1>1, <1>2, <2>1, <2>2 DEF Alternating
<1>5. Asked(s1) = Asked(s) \cup {n}
  <2>1. n \in Asked(s1)
    BY <1>1, <1>2, <1>3 DEF Asked
  <2>2. ASSUME NEW i \in 1 .. Len(s) PROVE i \in Asked(s1) <=> i \in Asked(s)
    <3>1. i # 1 => i - 1 \in 1 .. Len(s)
      BY <1>1
    <3> QED
      BY <1>1, <1>2, <3>1 DEF Asked
  <2> QED
    BY <1>1, <1>2, <2>1, <2>2 DEF Asked
<1>6. ASSUME NEW i \in Asked(s)
      PROVE  i < n /\ s1[i] = s[i] /\ RanBy(s1, i) = RanBy(s, i)
  <2>1. i \in 1 .. Len(s)
    BY <1>1 DEF Asked
  <2>2. s[i].detour # NoDetour => i + 1 \in DOMAIN s /\ i + 1 \in 1 .. Len(s)
    BY <1>1, <1>3, <2>1
  <2>3. i + 1 \in DOMAIN s => i + 1 \in DOMAIN s1 /\ s1[i + 1] = s[i + 1]
    BY <1>1, <1>2
  <2> QED
    BY <1>1, <1>2, <2>1, <2>2, <2>3 DEF RanBy
<1>7. RanBy(s1, n) = IF f.detour = NoDetour THEN Code(f.at) ELSE NotYet
  BY <1>1, <1>2 DEF RanBy
<1> QED
  BY <1>2, <1>4, <1>5, <1>6, <1>7 DEF s1

(* An engine's frame on a detour is where the detour's call runs. *)
LEMMA RunFrames ==
  ASSUME NEW s \in Seq(Frame), Alternating(s), NEW f \in Frame,
         s # <<>>, s[Len(s)].detour # NoDetour, f.detour = NoDetour
  PROVE  LET s1 == Append(s, f)
             n  == Len(s)
         IN /\ Alternating(s1)
            /\ Asked(s1) = Asked(s)
            /\ \A i \in Asked(s) : s1[i] = s[i] /\ (i # n => RanBy(s1, i) = RanBy(s, i))
            /\ RanBy(s1, n) = Code(f.at)
<1> DEFINE s1 == Append(s, f)
           n  == Len(s)
<1>1. DOMAIN s = 1 .. n /\ n \in Nat /\ n \in DOMAIN s
  BY EmptySeq, LenProperties
<1>2. /\ DOMAIN s1 = 1 .. n + 1
      /\ \A i \in 1 .. n : s1[i] = s[i]
      /\ s1[n + 1] = f
  <2>1. /\ s1 \in Seq(Frame)
        /\ Len(s1) = n + 1
        /\ \A i \in 1 .. n : s1[i] = s[i]
        /\ s1[n + 1] = f
    BY AppendProperties
  <2> QED
    BY <2>1, LenProperties
<1> HIDE DEF s1, n
<1>3. Alternating(s1)
  <2> SUFFICES ASSUME NEW i \in DOMAIN s1, s1[i].detour # NoDetour, i + 1 \in DOMAIN s1
               PROVE  s1[i + 1].detour = NoDetour
    BY DEF Alternating
  <2>1. CASE i = n
    BY <1>2, <2>1
  <2>2. CASE i # n
    <3>1. i \in DOMAIN s /\ i + 1 \in DOMAIN s /\ s[i].detour # NoDetour
      BY <1>1, <1>2, <2>2
    <3> QED
      BY <1>1, <1>2, <3>1 DEF Alternating
  <2> QED
    BY <2>1, <2>2
<1>4. Asked(s1) = Asked(s)
  <2>1. n + 1 \notin Asked(s1)
    BY <1>1, <1>2 DEF Asked
  <2>2. ASSUME NEW i \in 1 .. n PROVE i \in Asked(s1) <=> i \in Asked(s)
    <3>1. i # 1 => i - 1 \in 1 .. n
      BY <1>1
    <3> QED
      BY <1>1, <1>2, <3>1 DEF Asked
  <2> QED
    BY <1>1, <1>2, <2>1, <2>2 DEF Asked
<1>5. ASSUME NEW i \in Asked(s)
      PROVE  s1[i] = s[i] /\ (i # n => RanBy(s1, i) = RanBy(s, i))
  <2>1. i \in 1 .. n
    BY <1>1 DEF Asked
  <2>2. i # n => i + 1 \in 1 .. n
    BY <1>1, <2>1
  <2>3. i # n => i + 1 \in DOMAIN s /\ i + 1 \in DOMAIN s1 /\ s1[i + 1] = s[i + 1]
    BY <1>1, <1>2, <2>2
  <2> QED
    BY <1>2, <2>1, <2>3 DEF RanBy
<1>6. RanBy(s1, n) = Code(f.at)
  BY <1>1, <1>2 DEF RanBy
<1> QED
  BY <1>3, <1>4, <1>5, <1>6 DEF s1, n

(* What a return leaves is every call but the innermost. *)
LEMMA AnswerFrames ==
  ASSUME NEW s \in Seq(Frame), Alternating(s), s # <<>>, s[Len(s)].detour = NoDetour,
         NEW k \in 0 .. Len(s) - 1,
         k > 0 => s[k].detour = NoDetour,
         \A j \in k + 1 .. Len(s) - 1 : s[j].detour # NoDetour
  PROVE  LET s1 == SubSeq(s, 1, k)
         IN /\ k + 1 \in Asked(s)
            /\ \A e \in Asked(s) : e <= k + 1
            /\ RanBy(s, k + 1) = Code(s[Len(s)].at)
            /\ Asked(s1) = Asked(s) \ {k + 1}
            /\ \A i \in Asked(s1) : s1[i] = s[i] /\ RanBy(s1, i) = RanBy(s, i)
<1> DEFINE s1 == SubSeq(s, 1, k)
           n  == Len(s)
<1>1. DOMAIN s = 1 .. n /\ n \in Nat /\ k \in 0 .. n - 1 /\ n \in DOMAIN s
  BY EmptySeq, LenProperties
<1>2. DOMAIN s1 = 1 .. k /\ \A i \in 1 .. k : s1[i] = s[i]
  <2>1. \A i \in 1 .. k : s[i] \in Frame
    BY <1>1, ElementOfSeq
  <2>2. /\ s1 \in Seq(Frame)
        /\ Len(s1) = k
        /\ \A i \in 1 .. k : s1[i] = s[i]
    BY <1>1, <2>1, SubSeqProperties
  <2> QED
    BY <2>2, LenProperties
<1>3. s[n].detour = NoDetour /\ \A j \in k + 1 .. n - 1 : s[j].detour # NoDetour
  OBVIOUS
<1> HIDE DEF s1, n
<1>4. n = k + 1 \/ (n = k + 2 /\ s[k + 1].detour # NoDetour)
  <2> SUFFICES ASSUME n # k + 1 PROVE n = k + 2 /\ s[k + 1].detour # NoDetour
    OBVIOUS
  <2>1. k + 1 \in k + 1 .. n - 1 /\ k + 1 \in DOMAIN s
    BY <1>1
  <2>2. s[k + 1].detour # NoDetour
    BY <1>3, <2>1
  <2>3. k + 2 \in DOMAIN s /\ k + 2 = (k + 1) + 1
    BY <1>1, <2>1
  <2>4. s[k + 2].detour = NoDetour
    BY <2>1, <2>2, <2>3 DEF Alternating
  <2>5. k + 2 \notin k + 1 .. n - 1
    BY <1>3, <2>4
  <2> QED
    BY <1>1, <2>2, <2>3, <2>5
<1>5. k + 1 \in Asked(s)
  <2>1. k + 1 \in DOMAIN s /\ (k + 1 # 1 => k > 0) /\ k + 1 - 1 = k
    BY <1>1
  <2> QED
    BY <2>1 DEF Asked
<1>6. \A e \in Asked(s) : e <= k + 1
  <2> SUFFICES ASSUME NEW e \in Asked(s), ~(e <= k + 1) PROVE FALSE
    OBVIOUS
  <2>1. e \in 1 .. n
    BY <1>1 DEF Asked
  <2>2. e = k + 2 /\ s[k + 1].detour # NoDetour
    BY <1>1, <1>4, <2>1
  <2>3. e # 1 /\ e - 1 = k + 1
    BY <1>1, <2>2
  <2> QED
    BY <2>2, <2>3 DEF Asked
<1>7. RanBy(s, k + 1) = Code(s[n].at)
  <2>1. CASE n = k + 1
    BY <1>3, <2>1 DEF RanBy
  <2>2. CASE n = k + 2 /\ s[k + 1].detour # NoDetour
    <3>1. n = (k + 1) + 1 /\ (k + 1) + 1 \in DOMAIN s
      BY <1>1, <2>2
    <3> QED
      BY <2>2, <3>1 DEF RanBy
  <2> QED
    BY <1>4, <2>1, <2>2
<1>8. Asked(s1) = Asked(s) \ {k + 1}
  <2>1. ASSUME NEW i \in 1 .. k PROVE i \in Asked(s1) <=> i \in Asked(s)
    <3>1. i # 1 => i - 1 \in 1 .. k
      BY <1>1
    <3>2. i \in DOMAIN s
      BY <1>1
    <3> QED
      BY <1>2, <3>1, <3>2 DEF Asked
  <2>2. \A i \in Asked(s) : i # k + 1 => i \in 1 .. k
    <3>1. \A i \in Asked(s) : i \in 1 .. n
      BY <1>1 DEF Asked
    <3> QED
      BY <1>1, <1>6, <3>1
  <2>3. \A i \in Asked(s1) : i \in 1 .. k /\ i # k + 1
    BY <1>1, <1>2 DEF Asked
  <2> QED
    BY <2>1, <2>2, <2>3
<1>9. ASSUME NEW i \in Asked(s1) PROVE s1[i] = s[i] /\ RanBy(s1, i) = RanBy(s, i)
  <2>1. i \in 1 .. k
    BY <1>2 DEF Asked
  <2>2. s[i].detour # NoDetour => i # k
    BY <1>1, <2>1
  <2>3. i # k => i + 1 \in 1 .. k /\ i + 1 \in DOMAIN s
    BY <1>1, <2>1
  <2>4. i # k => i + 1 \in DOMAIN s1 /\ s1[i + 1] = s[i + 1]
    BY <1>2, <2>3
  <2> QED
    BY <1>2, <2>1, <2>2, <2>3, <2>4 DEF RanBy
<1> QED
  BY <1>5, <1>6, <1>7, <1>8, <1>9 DEF s1, n

(* A frame that changes neither address nor detour changes no call. *)
LEMMA SameFrames ==
  ASSUME NEW s \in Seq(Frame), NEW s1 \in Seq(Frame), Alternating(s), Alternating(s1),
         DOMAIN s1 = DOMAIN s,
         \A i \in DOMAIN s : s1[i].detour = s[i].detour /\ s1[i].at = s[i].at
  PROVE  CallsOf(s1) = CallsOf(s)
<1>1. Asked(s1) = Asked(s)
  <2>1. \A i \in DOMAIN s : i # 1 => i - 1 \in DOMAIN s
    <3>1. DOMAIN s = 1 .. Len(s) /\ Len(s) \in Nat
      BY LenProperties
    <3> QED
      BY <3>1
  <2> QED
    BY <2>1 DEF Asked
<1>2. \A i \in Asked(s) : s1[i].at = s[i].at /\ RanBy(s1, i) = RanBy(s, i)
  BY DEF Asked, RanBy
<1> QED
  BY <1>1, <1>2, CallsAre

-----------------------------------------------------------------------------
(***************************************************************************)
(* Why the call gets to the function it was made for.  One install uses    *)
(* the symbols of one module (OneEngine); what is hooked is the function   *)
(* of a pointer that was looked up there (HookedFor); a detour's frame     *)
(* stands where its hook was put, goes on through a pointer of its own and *)
(* has passed over those before it, which are NULL (OwnFrames).            *)
(***************************************************************************)
OneEngine ==
  /\ ~again
  /\ served # {} => pc = "idle" /\ loads >= 1
  /\ \A f, g \in DOMAIN symbols : symbols[f] = symbols[g]
  /\ \A f \in DOMAIN symbols : f \in Exports[symbols[f]]
  /\ loads = 0 => DOMAIN symbols = {} /\ \A p \in Pointers : fn[p] = NULL
  /\ \A p \in Pointers : fn[p] # NULL =>
       fn[p].sym \in DOMAIN symbols /\ symbols[fn[p].sym] = fn[p].mod

StandsFor(p, a) == fn[p] # NULL /\ fn[p].mod = a.mod /\ fn[p].sym = a.sym

HookedFor ==
  \A a \in DOMAIN hooks : \E i \in DOMAIN HookPlan :
    HookPlan[i].detour = hooks[a] /\ StandsFor(HookPlan[i].fn, a)

FrameOwn(f) ==
  f.detour # NoDetour =>
    /\ f.at \in DOMAIN hooks /\ hooks[f.at] = f.detour
    /\ f.via # NoPointer =>
         f.seen + 1 \in DOMAIN Forward[f.detour] /\ Forward[f.detour][f.seen + 1] = f.via
    /\ \A k \in 1 .. f.seen : fn[Forward[f.detour][k]] = NULL

OwnFrames == \A t \in Threads : \A i \in DOMAIN stack[t] : FrameOwn(stack[t][i])

SimInv == StackInv /\ BoundInv /\ QuietInv /\ OneEngine /\ HookedFor /\ OwnFrames

LEMMA SimInit == Init => SimInv
<1> SUFFICES ASSUME Init PROVE SimInv
  OBVIOUS
<1>1. StackInv /\ BoundInv
  BY StackInit, BoundInit
<1>2. QuietInv
  BY HookInitType DEF Init, LoadInit, QuietInv, NoneInDetour
<1>3. ~again /\ served = {} /\ DOMAIN symbols = {} /\ DOMAIN hooks = {}
  BY DEF Init, LoadInit, NoSymbols
<1>4. \A p \in Pointers : fn[p] = NULL
  BY DEF Init, LoadInit
<1>5. \A t \in Threads : DOMAIN stack[t] = {}
  BY DEF Init
<1> QED
  BY <1>1, <1>2, <1>3, <1>4, <1>5 DEF SimInv, OneEngine, HookedFor, OwnFrames

(* A load of the only install: it starts from nothing. *)
LEMMA LoadOneEngine ==
  ASSUME MaxLoads = 1, SimInv, LoadLua
  PROVE  OneEngine'
<1>0. LoaderStep /\ loads \in Nat /\ DOMAIN symbols \subseteq STRING
  BY DEF LoadLua, SimInv, QuietInv, HookTypeOK, LoadTypeOK, IsSymbolTable
<1>1. ~(pc = "idle" /\ loads >= 1)
  BY LoadsOnce DEF SimInv
<1>2. served = {} /\ served' = {} /\ ~again'
  BY <1>1 DEF LoadLua, SimInv, OneEngine
<1>3. CASE pc = "idle"
  <2>1. loads = 0
    BY <1>0, <1>1, <1>3
  <2>2. DOMAIN symbols = {} /\ \A p \in Pointers : fn[p] = NULL
    BY <2>1 DEF SimInv, OneEngine
  <2>3. fn' = fn /\ loads' = loads + 1
    BY <1>0, <1>3 DEF LoaderStep, LoadFromHandle, LoadFromSpecified, LoadFromAppModules,
                      BeginLoad, DetectVersion, NotLua, SkipLookup, GetFunction, Looking,
                      FinishLoad
  <2>4. \/ UNCHANGED symbols
        \/ \E m \in Modules, s \in {symbols, Cleared} : symbols' = AddExports(s, m)
    <3>1. \A i \in DOMAIN SpecifiedModules : SpecifiedModules[i] \in Modules
      BY ModulesAssumption, ElementOfSeq, LenProperties
    <3> QED
      BY <1>0, <1>3, <3>1 DEF LoaderStep, LoadFromHandle, LoadFromSpecified,
           LoadFromAppModules, BeginLoad, DetectVersion, NotLua, SkipLookup, GetFunction,
           Looking, FinishLoad
  <2>5. ASSUME NEW m \in Modules, NEW s \in {symbols, Cleared}, symbols' = AddExports(s, m)
        PROVE  DOMAIN symbols' = Exports[m] /\ \A f \in Exports[m] : symbols'[f] = m
    <3>1. DOMAIN s = {}
      BY <2>2 DEF Cleared, NoSymbols
    <3> QED
      BY <2>5, <3>1 DEF AddExports
  <2>6. /\ \A f, g \in DOMAIN symbols' : symbols'[f] = symbols'[g]
        /\ \A f \in DOMAIN symbols' : f \in Exports[symbols'[f]]
    BY <2>2, <2>4, <2>5
  <2>7. loads' # 0
    BY <2>1, <2>3
  <2> QED
    BY <1>2, <2>2, <2>3, <2>6, <2>7 DEF OneEngine
<1>4. CASE pc # "idle"
  <2>1. UNCHANGED <<symbols, loads>> /\ loads # 0
    <3>1. loads >= 1
      BY <1>4 DEF SimInv, QuietInv
    <3>2. loads # 0
      BY <1>0, <3>1
    <3>3. loads' = loads
      BY <1>0, <1>4 DEF LoaderStep, LoadFromHandle, LoadFromSpecified, LoadFromAppModules,
           BeginLoad, DetectVersion, NotLua, SkipLookup, GetFunction, FinishLoad
    <3>4. symbols' = symbols
      BY <1>0, <1>4, LoaderEffect DEF GetFunction
    <3> QED
      BY <3>2, <3>3, <3>4
  <2>2. \A p \in Pointers : fn'[p] # NULL =>
          fn'[p].sym \in DOMAIN symbols /\ symbols[fn'[p].sym] = fn'[p].mod
    <3>1. CASE GetFunction
      <4> DEFINE q == LoadPlan[idx].fn
                 found == Resolve(LoadPlan[idx].sym)
      <4>1. q \in Pointers /\ LoadPlan[idx].sym \in STRING
        BY <3>1, PlanStepType DEF GetFunction, Looking
      <4>2. fn'[q] = found /\ \A p \in Pointers : p # q => fn'[p] = fn[p]
        BY <3>1, <4>1 DEF GetFunction, Found, SimInv, QuietInv, HookTypeOK, LoadTypeOK
      <4>3. found # NULL => found.sym \in DOMAIN symbols /\ symbols[found.sym] = found.mod
        BY DEF Resolve
      <4> HIDE DEF q, found
      <4> QED
        BY <4>2, <4>3 DEF SimInv, OneEngine
    <3>2. CASE ~GetFunction
      BY <1>0, <3>2, LoaderEffect DEF SimInv, OneEngine
    <3> QED
      BY <3>1, <3>2
  <2> QED
    BY <1>2, <2>1, <2>2 DEF SimInv, OneEngine
<1> QED
  BY <1>3, <1>4

(* Until the hooks are enabled nothing is hooked, or an install is hooking. *)
LEMMA NoHooksYet ==
  ASSUME BoundInv, QuietInv, pc # "hook", ~(pc = "idle" /\ loads >= 1)
  PROVE  DOMAIN hooks = {}
BY DEF BoundInv, PointerInv, HookTypeOK, AllEnabled, QuietInv

(* Before an install has enabled its hooks no frame is a detour's. *)
LEMMA NoneOwn == NoneInDetour => OwnFrames
BY DEF NoneInDetour, OwnFrames, FrameOwn

LEMMA CreateHookSim ==
  ASSUME SimInv, CreateHook
  PROVE  OneEngine' /\ HookedFor'
<1>1. PICK p \in HookPointers :
           /\ p \in Pointers /\ p = HookPlan[hidx].fn
           /\ fn[p] \in Address \ DOMAIN hooks
           /\ LeftInPointer(fn[p]) \in Address
           /\ LeftInPointer(fn[p]).mod = fn[p].mod
           /\ LeftInPointer(fn[p]).sym = fn[p].sym
           /\ fn' = [fn EXCEPT ![p] = LeftInPointer(fn[p])]
           /\ DOMAIN hooks' = DOMAIN hooks \cup {fn[p]}
           /\ UNCHANGED <<pc, symbols, served, again>>
  BY CreateHookEffect DEF SimInv, QuietInv
<1>2. /\ hidx \in DOMAIN HookPlan /\ UNCHANGED loads
      /\ hooks' = [a \in DOMAIN hooks \cup {fn[p]} |->
                     IF a = fn[p] THEN HookPlan[hidx].detour ELSE hooks[a]]
  BY <1>1 DEF CreateHook, Hooking
<1>3. /\ fn'[p] = LeftInPointer(fn[p])
      /\ \A q \in Pointers : q # p => fn'[q] = fn[q]
  BY <1>1 DEF SimInv, QuietInv, HookTypeOK, LoadTypeOK
<1>4. \A q \in Pointers : /\ fn'[q] = NULL <=> fn[q] = NULL
                          /\ fn'[q].mod = fn[q].mod
                          /\ fn'[q].sym = fn[q].sym
  BY <1>1, <1>3, NullAssumption
<1>5. OneEngine'
  BY <1>1, <1>2, <1>4 DEF SimInv, OneEngine
<1>6. HookedFor'
  <2> SUFFICES ASSUME NEW a \in DOMAIN hooks \cup {fn[p]}
               PROVE  \E i \in DOMAIN HookPlan :
                        /\ HookPlan[i].detour = hooks'[a]
                        /\ fn'[HookPlan[i].fn] # NULL
                        /\ fn'[HookPlan[i].fn].mod = a.mod
                        /\ fn'[HookPlan[i].fn].sym = a.sym
    BY <1>1 DEF HookedFor, StandsFor
  <2>1. CASE a = fn[p]
    <3>1. HookPlan[hidx].detour = hooks'[a] /\ fn[p] # NULL
      BY <1>1, <1>2, <2>1, NullAssumption
    <3> QED
      BY <1>1, <1>2, <1>4, <2>1, <3>1
  <2>2. CASE a # fn[p]
    <3>1. PICK i \in DOMAIN HookPlan :
            HookPlan[i].detour = hooks[a] /\ StandsFor(HookPlan[i].fn, a)
      BY <2>2 DEF SimInv, HookedFor
    <3>2. hooks'[a] = hooks[a] /\ HookPlan[i].fn \in Pointers
      BY <1>2, <2>2, HookStepPlan
    <3> QED
      BY <1>4, <3>1, <3>2 DEF StandsFor
  <2> QED
    BY <2>1, <2>2
<1> QED
  BY <1>5, <1>6

LEMMA EnableHooksSim ==
  ASSUME SimInv, EnableHooks
  PROVE  OneEngine' /\ HookedFor'
<1>1. /\ UNCHANGED <<fn, hooks, symbols, loads, again>>
      /\ pc = "hook" /\ pc' = "idle"
  BY DEF EnableHooks
<1>2. loads' >= 1
  BY <1>1 DEF SimInv, QuietInv
<1> QED
  BY <1>1, <1>2 DEF SimInv, OneEngine, HookedFor, StandsFor

LEMMA PointersSim ==
  ASSUME SimInv, UNCHANGED <<fn, hooks, symbols, loads, again, served>>,
         pc' = pc \/ (pc = "returned" /\ pc' = "hook")
  PROVE  OneEngine' /\ HookedFor'
BY DEF SimInv, OneEngine, HookedFor, StandsFor

LEMMA EngineNext ==
  ASSUME MaxLoads = 1, SimInv, [Next]_vars
  PROVE  OneEngine' /\ HookedFor'
<1>1. ASSUME NEW m \in Modules, HostLoads(m), UNCHANGED hookVars
      PROVE  OneEngine' /\ HookedFor'
  BY <1>1, PointersSim DEF HostLoads, hookVars
<1>2. CASE LoadLua
  <2>1. DOMAIN hooks = {}
    <3>1. ~(pc = "idle" /\ loads >= 1)
      BY <1>2, LoadsOnce DEF SimInv
    <3>2. pc # "hook"
      BY <1>2, LoaderGoesOn DEF LoadLua
    <3> QED
      BY <3>1, <3>2, NoHooksYet DEF SimInv
  <2>2. hooks' = hooks
    BY <1>2 DEF LoadLua
  <2> QED
    BY <1>2, <2>1, <2>2, LoadOneEngine DEF HookedFor
<1>3. CASE BeginHooks
  BY <1>3, PointersSim DEF BeginHooks
<1>4. CASE SkipHook
  BY <1>4, PointersSim DEF SkipHook, loadVars
<1>9. CASE RefuseHook
  BY <1>9, PointersSim DEF RefuseHook, loadVars
<1>5. CASE CreateHook
  BY <1>5, CreateHookSim
<1>6. CASE EnableHooks
  BY <1>6, EnableHooksSim
<1>7. ASSUME NEW t \in Threads, HostThread(t) PROVE OneEngine' /\ HookedFor'
  BY <1>7, HostThreadFrame, PointersSim DEF HostUnchanged
<1>8. CASE UNCHANGED vars
  BY <1>8, PointersSim DEF vars, loadVars, hookVars
<1> QED
  BY <1>1, <1>2, <1>3, <1>4, <1>5, <1>6, <1>7, <1>8, <1>9 DEF Next, HookStep

LEMMA ArriveOwn ==
  ASSUME HookTypeOK, NEW a, NEW mode
  PROVE  FrameOwn(Arrive(a, mode))
<1>1. CASE a \in enabled
  <2>1. a \in DOMAIN hooks /\ hooks[a] \in DOMAIN Forward
    BY <1>1 DEF HookTypeOK
  <2> DEFINE forward == Forward[hooks[a]]
             via == IF Len(forward) = 1 THEN forward[1] ELSE NoPointer
  <2>2. Arrive(a, mode) = [detour |-> hooks[a], at |-> a, seen |-> 0, mode |-> mode, via |-> via]
    BY <1>1 DEF Arrive
  <2>3. via # NoPointer => 0 + 1 \in DOMAIN forward /\ forward[0 + 1] = via
    <3>1. DOMAIN forward = 1 .. Len(forward)
      BY <2>1, ForwardType, LenProperties
    <3> QED
      BY <3>1
  <2>4. 1 .. 0 = {}
    OBVIOUS
  <2> HIDE DEF via
  <2> QED
    BY <2>1, <2>2, <2>3, <2>4 DEF FrameOwn
<1>2. CASE a \notin enabled
  BY <1>2 DEF Arrive, FrameOwn
<1> QED
  BY <1>1, <1>2

(* One frame is pushed, and it is its own. *)
LEMMA PushOwn ==
  ASSUME stack \in Stacks, OwnFrames, UNCHANGED <<fn, hooks>>,
         NEW t \in Threads, NEW frame \in Frame, Push(t, frame), FrameOwn(frame)
  PROVE  OwnFrames'
<1>1. /\ \A u \in Threads : u # t => stack'[u] = stack[u]
      /\ DOMAIN stack'[t] = 1 .. Len(stack[t]) + 1
      /\ DOMAIN stack[t] = 1 .. Len(stack[t]) /\ Len(stack[t]) \in Nat
      /\ \A i \in DOMAIN stack[t] : stack'[t][i] = stack[t][i]
      /\ stack'[t][Len(stack[t]) + 1] = frame
  BY PushFrames
<1>2. \A i \in DOMAIN stack'[t] : i \in DOMAIN stack[t] \/ i = Len(stack[t]) + 1
  BY <1>1
<1>3. \A u \in Threads : \A i \in DOMAIN stack'[u] : FrameOwn(stack'[u][i])
  BY <1>1, <1>2 DEF OwnFrames
<1> QED
  BY <1>3 DEF OwnFrames, FrameOwn

(* Testing a pointer: a NULL one is passed over, another one is taken. *)
LEMMA TestOwn ==
  ASSUME SimInv, NEW t \in Threads, TestPointer(t)
  PROVE  OwnFrames'
<1> DEFINE p == Forward[Top(t).detour][Top(t).seen + 1]
           top == IF fn[p] # NULL THEN [Top(t) EXCEPT !.via = p]
                                  ELSE [Top(t) EXCEPT !.seen = @ + 1]
<1>0. stack \in Stacks
  BY DEF SimInv, QuietInv, HookTypeOK, Stacks
<1>1. /\ stack[t] # <<>> /\ Top(t).detour # NoDetour /\ SetTop(t, top)
      /\ Top(t).via = NoPointer
      /\ Top(t).seen < Len(Forward[Top(t).detour])
      /\ UNCHANGED <<fn, hooks>>
  BY DEF TestPointer, InDetour, HostUnchanged
<1>2. Top(t) \in Frame
  BY <1>0, <1>1, TopType
<1>3. Top(t).detour \in DOMAIN Forward /\ Top(t).seen \in Nat
  BY <1>1, <1>2 DEF Frame
<1>4. Len(stack[t]) \in DOMAIN stack[t] /\ stack[t] \in Seq(Frame)
  BY <1>0, <1>1, EmptySeq, LenProperties DEF Stacks
<1>5. FrameOwn(Top(t))
  BY <1>4 DEF SimInv, OwnFrames, Top
<1>6. Top(t).seen + 1 \in DOMAIN Forward[Top(t).detour]
  BY <1>1, <1>3, ForwardType, LenProperties
<1>7. FrameOwn(top)
  <2>1. CASE fn[p] # NULL
    <3>1. /\ top.detour = Top(t).detour /\ top.at = Top(t).at
          /\ top.via = p /\ top.seen = Top(t).seen
      <4> HIDE DEF p
      <4> QED
        BY <1>2, <2>1 DEF Frame
    <3>2. Forward[top.detour][Top(t).seen + 1] = top.via
      BY <3>1
    <3> HIDE DEF top, p
    <3> QED
      BY <1>5, <1>6, <3>1, <3>2 DEF FrameOwn
  <2>2. CASE fn[p] = NULL
    <3>1. /\ top.detour = Top(t).detour /\ top.at = Top(t).at
          /\ top.via = Top(t).via /\ top.seen = Top(t).seen + 1
      <4> HIDE DEF p
      <4> QED
        BY <1>2, <2>2 DEF Frame
    <3>2. \A k \in 1 .. Top(t).seen + 1 : k \in 1 .. Top(t).seen \/ k = Top(t).seen + 1
      BY <1>3
    <3>3. fn[Forward[top.detour][Top(t).seen + 1]] = NULL
      BY <2>2, <3>1
    <3> HIDE DEF top, p
    <3> QED
      BY <1>1, <1>5, <3>1, <3>2, <3>3 DEF FrameOwn
  <2> QED
    BY <2>1, <2>2
<1> HIDE DEF top
<1>8. /\ \A u \in Threads : u # t => stack'[u] = stack[u]
      /\ DOMAIN stack'[t] = DOMAIN stack[t]
      /\ \A i \in DOMAIN stack[t] :
           stack'[t][i] = IF i = Len(stack[t]) THEN top ELSE stack[t][i]
  <2>1. stack' = [stack EXCEPT ![t] = [stack[t] EXCEPT ![Len(stack[t])] = top]]
    BY <1>0, <1>1 DEF SetTop, Stacks
  <2>2. /\ \A u \in Threads : u # t => stack'[u] = stack[u]
        /\ stack'[t] = [stack[t] EXCEPT ![Len(stack[t])] = top]
    BY <1>0, <2>1 DEF Stacks
  <2> QED
    BY <1>4, <2>2
<1>9. \A u \in Threads : \A i \in DOMAIN stack'[u] : FrameOwn(stack'[u][i])
  BY <1>7, <1>8 DEF SimInv, OwnFrames
<1> QED
  BY <1>1, <1>9 DEF OwnFrames, FrameOwn

LEMMA HostThreadOwn ==
  ASSUME SimInv, NEW t \in Threads, HostThread(t)
  PROVE  OwnFrames'
<1>0. HookTypeOK /\ stack \in Stacks /\ OwnFrames
  BY DEF SimInv, QuietInv, HookTypeOK, Stacks
<1>u. UNCHANGED <<fn, hooks>>
  BY HostThreadFrame DEF HostUnchanged
<1>f. \A m \in Modules : \A f \in Exports[m] : Function(m, f) \in Address
  BY ModulesAssumption DEF Function, Address
<1>1. ASSUME NEW m \in Modules, NEW f \in EntryPoints, HostCall(t, m, f) PROVE OwnFrames'
  <2>1. f \in Exports[m] /\ Push(t, Arrive(Function(m, f), TRUE))
    BY <1>1 DEF HostCall
  <2>2. Arrive(Function(m, f), TRUE) \in Frame
    BY <1>0, <2>1, <1>f, ArriveType
  <2> QED
    BY <1>0, <1>u, <2>1, <2>2, ArriveOwn, PushOwn
<1>2. ASSUME NEW f, EngineCall(t, f) PROVE OwnFrames'
  <2>1. Push(t, Arrive(Function(Top(t).at.mod, f), TRUE))
    BY <1>2 DEF EngineCall
  <2>2. Top(t) \in Frame
    BY <1>0, <1>2, TopType DEF EngineCall, InEngine
  <2>3. Top(t).at.mod \in Modules
    BY <2>2 DEF Frame, Address
  <2>4. Arrive(Function(Top(t).at.mod, f), TRUE) \in Frame
    BY <1>0, <1>2, <2>3, <1>f, ArriveType DEF EngineCall
  <2> QED
    BY <1>0, <1>u, <2>1, <2>4, ArriveOwn, PushOwn
<1>3. ASSUME TestPointer(t) PROVE OwnFrames'
  BY <1>3, TestOwn
<1>4. ASSUME CallOriginal(t), CallArrives(t) PROVE OwnFrames'
  <2> DEFINE a == fn[Top(t).via]
  <2>1. /\ stack[t] # <<>> /\ Top(t).via # NoPointer /\ a # NULL
        /\ Push(t, Arrive(a, Complete(Top(t).via)))
    BY <1>4 DEF CallOriginal, CallArrives, InDetour
  <2>2. Top(t) \in Frame
    BY <1>0, <2>1, TopType
  <2>3. a \in Address
    BY <1>0, <2>1, <2>2 DEF Frame, HookTypeOK, LoadTypeOK
  <2>4. Complete(Top(t).via) \in BOOLEAN
    BY DEF Complete
  <2> HIDE DEF a
  <2>5. Arrive(a, Complete(Top(t).via)) \in Frame
    BY <1>0, <2>3, <2>4, ArriveType
  <2> QED
    BY <1>0, <1>u, <2>1, <2>5, ArriveOwn, PushOwn
<1>5. ASSUME CallCrashes(t) PROVE OwnFrames'
  BY <1>0, <1>5, <1>u DEF CallCrashes, OwnFrames, FrameOwn
<1>6. ASSUME Return(t) PROVE OwnFrames'
  <2>1. /\ \A u \in Threads : u # t => stack'[u] = stack[u]
        /\ DOMAIN stack'[t] \subseteq DOMAIN stack[t]
        /\ \A i \in DOMAIN stack'[t] : stack'[t][i] = stack[t][i]
    BY <1>0, <1>6, ReturnFrames
  <2>2. \A u \in Threads : \A i \in DOMAIN stack'[u] : FrameOwn(stack'[u][i])
    BY <1>0, <2>1 DEF OwnFrames
  <2> QED
    BY <1>u, <2>2 DEF OwnFrames, FrameOwn
<1> QED
  BY <1>1, <1>2, <1>3, <1>4, <1>5, <1>6 DEF HostThread, CallOriginal

LEMMA OwnNext ==
  ASSUME MaxLoads = 1, SimInv, [Next]_vars
  PROVE  OwnFrames'
<1>1. ASSUME NEW t \in Threads, HostThread(t) PROVE OwnFrames'
  BY <1>1, HostThreadOwn
<1>2. CASE UNCHANGED stack /\ ~(pc = "idle" /\ loads >= 1)
  <2>1. NoneInDetour'
    BY <1>2 DEF SimInv, QuietInv, NoneInDetour
  <2>2. NoneInDetour' => OwnFrames'
    BY DEF NoneInDetour, OwnFrames, FrameOwn
  <2> QED
    BY <2>1, <2>2
<1>3. CASE UNCHANGED <<stack, fn, hooks>>
  BY <1>3 DEF SimInv, OwnFrames, FrameOwn
<1>4. ASSUME NEW m \in Modules, HostLoads(m), UNCHANGED hookVars
      PROVE  UNCHANGED <<stack, fn, hooks>>
  BY <1>4 DEF HostLoads, hookVars
<1>5. LoadLua => UNCHANGED stack /\ ~(pc = "idle" /\ loads >= 1)
  BY LoadsOnce DEF LoadLua, SimInv
<1>6. HookStep => UNCHANGED stack /\ ~(pc = "idle" /\ loads >= 1)
  BY DEF HookStep, BeginHooks, SkipHook, RefuseHook, CreateHook, EnableHooks, Hooking
<1>7. UNCHANGED vars => UNCHANGED <<stack, fn, hooks>>
  BY DEF vars, loadVars, hookVars
<1> QED
  BY <1>1, <1>2, <1>3, <1>4, <1>5, <1>6, <1>7 DEF Next

LEMMA SimNext ==
  ASSUME MaxLoads = 1, SimInv, [Next]_vars
  PROVE  SimInv'
<1>1. StackInv' /\ BoundInv'
  BY StackNext, BoundNext DEF SimInv
<1>2. QuietInv'
  BY QuietNext DEF SimInv
<1> QED
  BY <1>1, <1>2, EngineNext, OwnNext DEF SimInv

-----------------------------------------------------------------------------
(* Every step of the program is a step of Interception, or changes no call. *)

LEMMA AlternatingStacks ==
  ASSUME SimInv, NEW t \in Threads
  PROVE  stack[t] \in Seq(Frame) /\ Alternating(stack[t])
<1>1. stack[t] \in Seq(Frame)
  BY DEF SimInv, QuietInv, HookTypeOK
<1>2. Leads
  BY DEF SimInv, StackInv, OneEngine
<1> QED
  BY <1>1, <1>2 DEF Leads, Alternating

LEMMA CodeNotNotYet ==
  ASSUME NEW a \in Address
  PROVE  Code(a) # NotYet
<1>1. a.mod \in Modules
  BY DEF Address
<1>2. a.mod # NoModule
  BY <1>1, ModulesAssumption
<1> QED
  BY <1>2 DEF Code, NotYet

LEMMA EngineCodeIs ==
  ASSUME NEW m \in Modules, NEW f \in Exports[m]
  PROVE  <<m, f>> \in EngineCode
BY DEF EngineCode

(* Where an engine runs, or nothing does, no call waits. *)
LEMMA NoneWaits ==
  ASSUME SimInv, NEW t \in Threads, stack[t] = <<>> \/ Top(t).detour = NoDetour
  PROVE  ~Promise!Waits(t)
<1> DEFINE s == stack[t]
           c == CallsOf(s)
<1>1. s \in Seq(Frame) /\ Alternating(s)
  BY AlternatingStacks
<1>2. c = [i \in Asked(s) |-> [asked |-> Code(s[i].at), ran |-> RanBy(s, i)]]
  BY <1>1, CallsAre
<1>3. ~(DOMAIN c # {} /\ c[CHOOSE d \in DOMAIN c : \A e \in DOMAIN c : e <= d].ran = NotYet)
  <2>1. CASE s = <<>>
    <3>1. DOMAIN c = {}
      BY <1>2, <2>1 DEF Asked
    <3> QED
      BY <3>1
  <2>2. CASE s # <<>>
    <3>1. s[Len(s)].detour = NoDetour
      BY <2>2 DEF Top
    <3>2. PICK d \in Asked(s) : (\A e \in Asked(s) : e <= d) /\ RanBy(s, d) = Code(s[Len(s)].at)
      BY <1>1, <2>2, <3>1, EngineRuns
    <3>3. Len(s) \in 1 .. Len(s) /\ DOMAIN s \subseteq Nat
      BY <1>1, <2>2, EmptySeq, LenProperties
    <3>4. s[Len(s)] \in Frame
      BY <1>1, <3>3, ElementOfSeq
    <3>5. RanBy(s, d) # NotYet
      BY <3>2, <3>4, CodeNotNotYet DEF Frame
    <3>6. Asked(s) \subseteq Nat
      BY <3>3 DEF Asked
    <3>7. (CHOOSE x \in Asked(s) : \A e \in Asked(s) : e <= x) = d
      BY <3>2, <3>6, LastOf
    <3>8. DOMAIN c = Asked(s) /\ c[d].ran = RanBy(s, d)
      BY <1>2
    <3> HIDE DEF c, s
    <3> QED
      BY <3>5, <3>7, <3>8
  <2> QED
    BY <2>1, <2>2
<1> QED
  BY <1>3 DEF Promise!Waits, Promise!Open, Promise!Innermost

(* The calls of one thread change, by what its stack comes to. *)
LEMMA CallsChange ==
  ASSUME NEW t \in Threads, NEW c, NEW s, NEW s1,
         \A u \in Threads : u # t => s1[u] = s[u],
         CallsOf(s1[t]) = c
  PROVE  [u \in Threads |-> CallsOf(s1[u])] = [[u \in Threads |-> CallsOf(s[u])] EXCEPT ![t] = c]
<1>1. \A u \in Threads : u # t => CallsOf(s1[u]) = CallsOf(s[u])
  OBVIOUS
<1> QED
  BY <1>1

LEMMA PushAsks ==
  ASSUME SimInv, SimInv', NEW t \in Threads, NEW f \in Frame, Push(t, f),
         stack[t] = <<>> \/ Top(t).detour = NoDetour,
         Len(stack[t]) < StackLimit, Code(f.at) \in EngineCode
  PROVE  Promise!Ask(t)
<1> DEFINE s  == stack[t]
           s1 == stack'[t]
           n  == Len(s) + 1
           c  == CallsOf(s)
           c1 == CallsOf(s1)
           before == [u \in Threads |-> CallsOf(stack[u])]
           after  == [u \in Threads |-> CallsOf(stack'[u])]
<1>1. s \in Seq(Frame) /\ Alternating(s) /\ Len(s) \in Nat
  BY AlternatingStacks, LenProperties
<1>2. s1 = Append(s, f) /\ \A u \in Threads : u # t => stack'[u] = stack[u]
  <2>1. stack \in Stacks
    BY DEF SimInv, QuietInv, HookTypeOK, Stacks
  <2> QED
    BY <2>1 DEF Push, Stacks
<1>3. s1 \in Seq(Frame)
  BY <1>1, <1>2, AppendProperties
<1>4. s = <<>> \/ s[Len(s)].detour = NoDetour
  BY DEF Top
<1>5. /\ Alternating(s1)
      /\ Asked(s1) = Asked(s) \cup {n}
      /\ \A i \in Asked(s) : i < n /\ s1[i] = s[i] /\ RanBy(s1, i) = RanBy(s, i)
      /\ s1[n] = f
      /\ RanBy(s1, n) \in {Code(f.at), NotYet}
  <2> HIDE DEF s, s1
  <2> QED
    BY <1>1, <1>2, <1>4, AskFrames
<1>6. /\ c = [i \in Asked(s) |-> [asked |-> Code(s[i].at), ran |-> RanBy(s, i)]]
      /\ c1 = [i \in Asked(s1) |-> [asked |-> Code(s1[i].at), ran |-> RanBy(s1, i)]]
  BY <1>1, <1>3, <1>5, CallsAre
<1>7. /\ DOMAIN c = Asked(s) /\ DOMAIN c1 = DOMAIN c \cup {n}
      /\ \A e \in DOMAIN c : e < n /\ c1[e] = c[e]
      /\ c1[n] \in [asked : EngineCode, ran : EngineCode \cup {NotYet}]
      /\ c1[n].ran \in {c1[n].asked, NotYet}
  BY <1>5, <1>6
<1>8. c1 = [e \in DOMAIN c \cup {n} |-> IF e = n THEN c1[n] ELSE c[e]]
  <2>1. c1 = [e \in DOMAIN c1 |-> c1[e]]
    BY <1>6
  <2> HIDE DEF c, c1
  <2> QED
    BY <1>1, <1>7, <2>1
<1>9. n \in 1 .. StackLimit
  <2>1. StackLimit \in Nat
    BY HookAssumption
  <2> QED
    BY <1>1, <2>1
<1>10. ~Promise!Waits(t)
  BY NoneWaits
<1>11. after = [before EXCEPT ![t] =
                  [e \in DOMAIN c \cup {n} |-> IF e = n THEN c1[n] ELSE c[e]]]
  BY <1>2, <1>8, CallsChange
<1>12. before[t] = c /\ after[t] = c1
  OBVIOUS
<1>13. c1[n] \in Promise!NewCall
  <2> HIDE DEF c1, n
  <2> QED
    BY <1>7 DEF Promise!NewCall
<1> HIDE DEF n, c, c1
<1>14. n \in 1 .. StackLimit \cap DOMAIN c1 /\ \A e \in DOMAIN c : e < n
  BY <1>7, <1>9
<1>15. SUFFICES \E d \in 1 .. StackLimit \cap DOMAIN after[t] :
                  /\ \A e \in DOMAIN before[t] : e < d
                  /\ after[t][d] \in Promise!NewCall
                  /\ after = [before EXCEPT ![t] =
                               [e \in DOMAIN before[t] \cup {d} |->
                                  IF e = d THEN after[t][d] ELSE before[t][e]]]
  BY <1>10, Zenon DEF Promise!Ask, Promise!Open
<1> HIDE DEF before, after
<1> QED
  BY <1>11, <1>12, <1>13, <1>14

(* A detour goes on in the module and in the function it was called for. *)
LEMMA DetourGoesOn ==
  ASSUME SimInv, DetoursOwn, NEW t \in Threads, InDetour(t), Top(t).via # NoPointer,
         fn[Top(t).via] # NULL
  PROVE  /\ fn[Top(t).via] \in Address \ enabled
         /\ Code(fn[Top(t).via]) \in EngineCode
         /\ fn[Top(t).via].mod = Top(t).at.mod
         /\ SameFunction(Top(t).at.sym, fn[Top(t).via].sym)
<1> DEFINE top == Top(t)
           a == fn[top.via]
<1>0. HookTypeOK /\ PointerInv /\ OneEngine /\ HookedFor /\ OwnVia
  BY DEF SimInv, QuietInv, StackInv
<1>1. stack[t] # <<>> /\ top.detour # NoDetour /\ stack \in Stacks
  BY <1>0 DEF InDetour, HookTypeOK, Stacks
<1>2. Len(stack[t]) \in DOMAIN stack[t] /\ top \in Frame
  BY <1>1, TopType, EmptySeq, LenProperties DEF Stacks
<1>3. FrameOwn(top) /\ top.via \in HookPointers
  BY <1>0, <1>2 DEF SimInv, OwnFrames, OwnVia, Top
<1> HIDE DEF top
<1>4. a \in Address
  BY <1>0, <1>3, HookPointersDeclared DEF top, HookTypeOK, LoadTypeOK
<1>5. a \notin enabled
  BY <1>0, <1>3, BelowNotHooked DEF OneEngine, HookTypeOK
<1>6. a.sym \in DOMAIN symbols /\ symbols[a.sym] = a.mod /\ a.sym \in Exports[a.mod]
  BY <1>0, <1>3, HookPointersDeclared DEF OneEngine, top
<1>7. Code(a) \in EngineCode
  BY <1>4, <1>6, EngineCodeIs DEF Code, Address
<1>8. PICK i \in DOMAIN HookPlan :
        HookPlan[i].detour = top.detour /\ StandsFor(HookPlan[i].fn, top.at)
  BY <1>0, <1>1, <1>3 DEF HookedFor, FrameOwn, top
<1>9. HookPlan[i].fn \in Pointers /\ HookPlan[i].fn \in HookPointers
  BY HookStepPlan DEF HookPointers
<1>10. top.at.mod = a.mod
  BY <1>0, <1>6, <1>8, <1>9 DEF OneEngine, StandsFor
<1>11. SameFunction(top.at.sym, a.sym)
  <2>1. PICK j \in DOMAIN LoadPlan :
          LoadPlan[j].fn = HookPlan[i].fn /\ LoadPlan[j].sym = top.at.sym
    BY <1>0, <1>8, <1>9 DEF PointerInv, OwnSymbol, StandsFor
  <2>2. PICK k \in DOMAIN LoadPlan : LoadPlan[k].fn = top.via /\ LoadPlan[k].sym = a.sym
    BY <1>0, <1>3, HookPointersDeclared DEF PointerInv, OwnSymbol, top
  <2>3. PICK l \in DOMAIN Forward[top.detour] : Forward[top.detour][l] = top.via
    BY <1>1, <1>3 DEF FrameOwn, top
  <2> QED
    BY <1>8, <2>1, <2>2, <2>3 DEF DetoursOwn
<1> QED
  BY <1>4, <1>5, <1>7, <1>10, <1>11 DEF top

LEMMA CallRuns ==
  ASSUME SimInv, SimInv', DetoursOwn, NEW t \in Threads, CallOriginal(t), CallArrives(t)
  PROVE  Promise!Run(t)
<1> DEFINE a  == fn[Top(t).via]
           f  == Arrive(a, Complete(Top(t).via))
           s  == stack[t]
           s1 == stack'[t]
           n  == Len(s)
           c  == CallsOf(s)
           c1 == CallsOf(s1)
           before == [u \in Threads |-> CallsOf(stack[u])]
           after  == [u \in Threads |-> CallsOf(stack'[u])]
<1>0. HookTypeOK /\ stack \in Stacks
  BY DEF SimInv, QuietInv, HookTypeOK, Stacks
<1>1. s \in Seq(Frame) /\ Alternating(s) /\ n \in Nat
  BY AlternatingStacks, LenProperties
<1>2. InDetour(t) /\ Top(t).via # NoPointer /\ a # NULL /\ Push(t, f)
  BY DEF CallOriginal, CallArrives
<1>3. s # <<>> /\ s[n].detour # NoDetour /\ Top(t) = s[n]
  BY <1>2 DEF InDetour, Top
<1>4. /\ a \in Address \ enabled
      /\ Code(a) \in EngineCode
      /\ a.mod = s[n].at.mod
      /\ SameFunction(s[n].at.sym, a.sym)
  BY <1>2, <1>3, DetourGoesOn
<1>5. f \in Frame /\ f.detour = NoDetour /\ f.at = a
  <2>1. Complete(Top(t).via) \in BOOLEAN
    BY DEF Complete
  <2> HIDE DEF a
  <2> QED
    BY <1>0, <1>4, <2>1, ArriveType DEF Arrive
<1>6. s1 = Append(s, f) /\ \A u \in Threads : u # t => stack'[u] = stack[u]
  BY <1>0, <1>2 DEF Push, Stacks
<1> HIDE DEF f, a
<1>7. s1 \in Seq(Frame)
  BY <1>1, <1>5, <1>6, AppendProperties
<1>8. /\ Alternating(s1)
      /\ Asked(s1) = Asked(s)
      /\ \A i \in Asked(s) : s1[i] = s[i] /\ (i # n => RanBy(s1, i) = RanBy(s, i))
      /\ RanBy(s1, n) = Code(a)
  <2> HIDE DEF s, s1
  <2> QED
    BY <1>1, <1>3, <1>5, <1>6, RunFrames
<1>9. n \in Asked(s) /\ (\A e \in Asked(s) : e <= n) /\ RanBy(s, n) = NotYet
  BY <1>1, <1>3, DetourWaits
<1>10. /\ c = [i \in Asked(s) |-> [asked |-> Code(s[i].at), ran |-> RanBy(s, i)]]
       /\ c1 = [i \in Asked(s) |-> [asked |-> Code(s1[i].at), ran |-> RanBy(s1, i)]]
  BY <1>1, <1>7, <1>8, CallsAre
<1>11. /\ DOMAIN c = Asked(s) /\ DOMAIN c1 = Asked(s)
       /\ \A e \in DOMAIN c : e # n => c1[e] = c[e]
       /\ c[n] = [asked |-> Code(s[n].at), ran |-> NotYet]
       /\ c1[n] = [asked |-> Code(s[n].at), ran |-> Code(a)]
  BY <1>8, <1>9, <1>10
<1>12. c1 = [c EXCEPT ![n] = [c[n] EXCEPT !.ran = Code(a)]]
  <2>1. [c[n] EXCEPT !.ran = Code(a)] = c1[n]
    BY <1>11
  <2>2. /\ c = [e \in DOMAIN c |-> c[e]] /\ c1 = [e \in DOMAIN c1 |-> c1[e]]
    BY <1>10
  <2> HIDE DEF c, c1
  <2> QED
    BY <1>9, <1>11, <2>1, <2>2
<1>13. after = [before EXCEPT ![t] = [c EXCEPT ![n] = [c[n] EXCEPT !.ran = Code(a)]]]
  BY <1>6, <1>12, CallsChange
<1>14. before[t] = c /\ after[t] = c1
  OBVIOUS
<1>15. (CHOOSE d \in DOMAIN c : \A e \in DOMAIN c : e <= d) = n
  <2>1. Asked(s) \subseteq Nat
    BY <1>1, LenProperties DEF Asked
  <2> HIDE DEF c, s
  <2> QED
    BY <1>9, <1>11, <2>1, LastOf
<1> HIDE DEF n, c, c1, before, after
<1>16. Promise!Innermost(t) = n
  BY <1>14, <1>15 DEF Promise!Innermost, Promise!Open, before
<1>17. Promise!Waits(t)
  BY <1>9, <1>11, <1>14, <1>16 DEF Promise!Waits, Promise!Open, before
<1>18. /\ Code(s[n].at)[1] = Code(a)[1]
       /\ SameFunction(Code(s[n].at)[2], Code(a)[2])
  BY <1>4 DEF Code
<1>19. /\ n \in DOMAIN after[t]
       /\ after[t][n].ran = Code(a)
       /\ before[t][n].asked = Code(s[n].at)
  BY <1>9, <1>11, <1>14
<1>20. after = [before EXCEPT ![t][n] = [before[t][n] EXCEPT !.ran = Code(a)]]
  BY <1>13, <1>14
<1> QED
  BY <1>4, <1>16, <1>17, <1>18, <1>19, <1>20 DEF Promise!Run, before, after

(* A detour never answers by itself: its own pointer is there. *)
LEMMA DetourHasPointer ==
  ASSUME SimInv, DetoursOwn, NEW t \in Threads, InDetour(t)
  PROVE  Top(t).seen # Len(Forward[Top(t).detour])
<1> DEFINE top == Top(t)
<1>0. HookedFor /\ stack \in Stacks
  BY DEF SimInv, QuietInv, HookTypeOK, Stacks
<1>1. stack[t] # <<>> /\ top.detour # NoDetour
  BY DEF InDetour
<1>2. Len(stack[t]) \in DOMAIN stack[t] /\ top \in Frame
  BY <1>0, <1>1, TopType, EmptySeq, LenProperties DEF Stacks
<1>3. FrameOwn(top)
  BY <1>2 DEF SimInv, OwnFrames, Top
<1> HIDE DEF top
<1>4. PICK i \in DOMAIN HookPlan :
        HookPlan[i].detour = top.detour /\ StandsFor(HookPlan[i].fn, top.at)
  BY <1>0, <1>1, <1>3 DEF HookedFor, FrameOwn, top
<1>5. PICK k \in DOMAIN Forward[top.detour] : Forward[top.detour][k] = HookPlan[i].fn
  BY <1>4 DEF DetoursOwn
<1>6. DOMAIN Forward[top.detour] = 1 .. Len(Forward[top.detour])
  BY <1>4, HookStepPlan, ForwardType, LenProperties
<1> QED
  BY <1>1, <1>3, <1>4, <1>5, <1>6 DEF FrameOwn, StandsFor, top

LEMMA ReturnAnswers ==
  ASSUME SimInv, SimInv', DetoursOwn, NEW t \in Threads, Return(t)
  PROVE  Promise!Answer(t)
<1> DEFINE s  == stack[t]
           s1 == stack'[t]
           c  == CallsOf(s)
           c1 == CallsOf(s1)
           before == [u \in Threads |-> CallsOf(stack[u])]
           after  == [u \in Threads |-> CallsOf(stack'[u])]
<1>0. HookTypeOK /\ stack \in Stacks
  BY DEF SimInv, QuietInv, HookTypeOK, Stacks
<1>1. s \in Seq(Frame) /\ Alternating(s)
  BY AlternatingStacks
<1>2. InEngine(t)
  BY DetourHasPointer DEF Return
<1>3. s # <<>> /\ s[Len(s)].detour = NoDetour
  BY <1>2 DEF InEngine, Top
<1>4. PICK k \in 0 .. Len(s) - 1 :
        /\ k > 0 => s[k].detour = NoDetour
        /\ \A j \in k + 1 .. Len(s) - 1 : s[j].detour # NoDetour
        /\ stack' = [stack EXCEPT ![t] = SubSeq(s, 1, k)]
  BY DEF Return
<1>5. s1 = SubSeq(s, 1, k) /\ \A u \in Threads : u # t => stack'[u] = stack[u]
  BY <1>0, <1>4 DEF Stacks
<1>6. s1 \in Seq(Frame) /\ Alternating(s1)
  <2>1. stack'[t] \in Seq(Frame)
    BY DEF SimInv, QuietInv, HookTypeOK
  <2>2. Leads'
    BY DEF SimInv, StackInv, OneEngine
  <2> QED
    BY <2>1, <2>2 DEF Leads, Alternating
<1>7. /\ k + 1 \in Asked(s)
      /\ \A e \in Asked(s) : e <= k + 1
      /\ RanBy(s, k + 1) = Code(s[Len(s)].at)
      /\ Asked(s1) = Asked(s) \ {k + 1}
      /\ \A i \in Asked(s1) : s1[i] = s[i] /\ RanBy(s1, i) = RanBy(s, i)
  <2> HIDE DEF s, s1
  <2> QED
    BY <1>1, <1>3, <1>4, <1>5, AnswerFrames
<1>8. /\ c = [i \in Asked(s) |-> [asked |-> Code(s[i].at), ran |-> RanBy(s, i)]]
      /\ c1 = [i \in Asked(s1) |-> [asked |-> Code(s1[i].at), ran |-> RanBy(s1, i)]]
  BY <1>1, <1>6, CallsAre
<1>9. /\ DOMAIN c = Asked(s) /\ DOMAIN c1 = DOMAIN c \ {k + 1}
      /\ \A e \in DOMAIN c1 : c1[e] = c[e]
  BY <1>7, <1>8
<1>10. c1 = [e \in DOMAIN c \ {k + 1} |-> c[e]]
  <2>1. c1 = [e \in DOMAIN c1 |-> c1[e]]
    BY <1>8
  <2> HIDE DEF c, c1
  <2> QED
    BY <1>9, <2>1
<1>11. after = [before EXCEPT ![t] = [e \in DOMAIN c \ {k + 1} |-> c[e]]]
  BY <1>5, <1>10, CallsChange
<1>12. before[t] = c
  OBVIOUS
<1>13. (CHOOSE d \in DOMAIN c : \A e \in DOMAIN c : e <= d) = k + 1
  <2>1. Asked(s) \subseteq Nat
    BY <1>1, LenProperties DEF Asked
  <2> HIDE DEF c, s
  <2> QED
    BY <1>7, <1>9, <2>1, LastOf
<1>14. ~Promise!Waits(t)
  BY <1>2, NoneWaits DEF InEngine
<1>15. DOMAIN c # {}
  BY <1>7, <1>9
<1> HIDE DEF c, before, after
<1>16. Promise!Innermost(t) = k + 1
  BY <1>12, <1>13 DEF Promise!Innermost, Promise!Open, before
<1> QED
  BY <1>11, <1>12, <1>14, <1>15, <1>16 DEF Promise!Answer, Promise!Open, before, after

(* A step of one thread that changes no call of it changes none. *)
LEMMA CallsSame ==
  ASSUME NEW t \in Threads, \A u \in Threads : u # t => stack'[u] = stack[u],
         CallsOf(stack'[t]) = CallsOf(stack[t])
  PROVE  [u \in Threads |-> CallsOf(stack'[u])] = [u \in Threads |-> CallsOf(stack[u])]
<1>1. \A u \in Threads : CallsOf(stack'[u]) = CallsOf(stack[u])
  OBVIOUS
<1> QED
  BY <1>1

LEMMA TestStutters ==
  ASSUME SimInv, SimInv', NEW t \in Threads, TestPointer(t)
  PROVE  [u \in Threads |-> CallsOf(stack'[u])] = [u \in Threads |-> CallsOf(stack[u])]
<1> DEFINE p == Forward[Top(t).detour][Top(t).seen + 1]
           top == IF fn[p] # NULL THEN [Top(t) EXCEPT !.via = p]
                                  ELSE [Top(t) EXCEPT !.seen = @ + 1]
<1>0. stack \in Stacks /\ stack[t] # <<>> /\ SetTop(t, top)
  BY DEF SimInv, QuietInv, HookTypeOK, Stacks, TestPointer, InDetour
<1>1. Top(t) \in Frame /\ Len(stack[t]) \in DOMAIN stack[t]
  BY <1>0, TopType, EmptySeq, LenProperties DEF Stacks
<1>2. top.detour = Top(t).detour /\ top.at = Top(t).at
  <2> HIDE DEF p
  <2> QED
    BY <1>1 DEF Frame
<1> HIDE DEF top
<1>3. /\ \A u \in Threads : u # t => stack'[u] = stack[u]
      /\ DOMAIN stack'[t] = DOMAIN stack[t]
      /\ \A i \in DOMAIN stack[t] :
           stack'[t][i] = IF i = Len(stack[t]) THEN top ELSE stack[t][i]
  <2>1. stack' = [stack EXCEPT ![t] = [stack[t] EXCEPT ![Len(stack[t])] = top]]
    BY <1>0 DEF SetTop, Stacks
  <2>2. /\ \A u \in Threads : u # t => stack'[u] = stack[u]
        /\ stack'[t] = [stack[t] EXCEPT ![Len(stack[t])] = top]
    BY <1>0, <2>1 DEF Stacks
  <2> QED
    BY <1>1, <2>2
<1>4. \A i \in DOMAIN stack[t] : /\ stack'[t][i].detour = stack[t][i].detour
                                 /\ stack'[t][i].at = stack[t][i].at
  BY <1>2, <1>3 DEF Top
<1>5. stack[t] \in Seq(Frame) /\ Alternating(stack[t])
  BY AlternatingStacks
<1>6. stack'[t] \in Seq(Frame) /\ Alternating(stack'[t])
  <2>1. stack'[t] \in Seq(Frame)
    BY DEF SimInv, QuietInv, HookTypeOK
  <2> QED
    BY <1>3, <1>4, <1>5, <2>1 DEF Alternating
<1>7. CallsOf(stack'[t]) = CallsOf(stack[t])
  BY <1>3, <1>4, <1>5, <1>6, SameFrames
<1> QED
  BY <1>3, <1>7, CallsSame

LEMMA HostThreadPromise ==
  ASSUME SimInv, SimInv', DetoursOwn, NEW t \in Threads, HostThread(t)
  PROVE  \/ Promise!Next
         \/ [u \in Threads |-> CallsOf(stack'[u])] = [u \in Threads |-> CallsOf(stack[u])]
<1>0. HookTypeOK /\ stack \in Stacks
  BY DEF SimInv, QuietInv, HookTypeOK, Stacks
<1>a. ASSUME NEW m \in Modules, NEW f \in Exports[m], Push(t, Arrive(Function(m, f), TRUE)),
             stack[t] = <<>> \/ Top(t).detour = NoDetour, Len(stack[t]) < StackLimit
      PROVE  Promise!Ask(t)
  <2>1. Function(m, f) \in Address
    BY ModulesAssumption DEF Function, Address
  <2>2. Arrive(Function(m, f), TRUE) \in Frame
    BY <1>0, <2>1, ArriveType
  <2>3. Arrive(Function(m, f), TRUE).at = Function(m, f)
    BY DEF Arrive
  <2>4. Code(Function(m, f)) \in EngineCode
    BY EngineCodeIs DEF Code, Function
  <2> QED
    BY <1>a, <2>2, <2>3, <2>4, PushAsks
<1>1. ASSUME NEW m \in Modules, NEW f \in EntryPoints, HostCall(t, m, f) PROVE Promise!Ask(t)
  <2>1. Len(<<>>) = 0 /\ 0 < StackLimit
    BY HookAssumption
  <2> QED
    BY <1>1, <1>a, <2>1 DEF HostCall
<1>2. ASSUME NEW f, EngineCall(t, f) PROVE Promise!Ask(t)
  <2>1. Top(t) \in Frame
    BY <1>0, <1>2, TopType DEF EngineCall, InEngine
  <2>2. Top(t).at.mod \in Modules
    BY <2>1 DEF Frame, Address
  <2> QED
    BY <1>2, <1>a, <2>2 DEF EngineCall, InEngine
<1>3. CallOriginal(t) /\ CallArrives(t) => Promise!Run(t)
  BY CallRuns
<1>4. Return(t) => Promise!Answer(t)
  BY ReturnAnswers
<1>5. CallCrashes(t) => stack' = stack
  BY DEF CallCrashes
<1>6. TestPointer(t) =>
        [u \in Threads |-> CallsOf(stack'[u])] = [u \in Threads |-> CallsOf(stack[u])]
  BY TestStutters
<1> QED
  BY <1>1, <1>2, <1>3, <1>4, <1>5, <1>6 DEF HostThread, CallOriginal, Promise!Next

LEMMA PromiseStep ==
  ASSUME DetoursOwn, SimInv, SimInv', [Next]_vars
  PROVE  \/ Promise!Next
         \/ [u \in Threads |-> CallsOf(stack'[u])] = [u \in Threads |-> CallsOf(stack[u])]
<1>1. ASSUME NEW t \in Threads, HostThread(t)
      PROVE  \/ Promise!Next
             \/ [u \in Threads |-> CallsOf(stack'[u])] = [u \in Threads |-> CallsOf(stack[u])]
  BY <1>1, HostThreadPromise
<1>2. (\E m \in Modules : HostLoads(m) /\ UNCHANGED hookVars) => stack' = stack
  BY DEF hookVars
<1>3. LoadLua \/ HookStep => stack' = stack
  BY DEF LoadLua, HookStep, BeginHooks, SkipHook, RefuseHook, CreateHook, EnableHooks
<1>4. UNCHANGED vars => stack' = stack
  BY DEF vars, hookVars
<1> QED
  BY <1>1, <1>2, <1>3, <1>4 DEF Next

LEMMA PromiseInit == Init => Promise!Init
<1> SUFFICES ASSUME Init PROVE Promise!Init
  OBVIOUS
<1>1. \A t \in Threads : stack[t] = <<>>
  BY DEF Init
<1>2. Asked(<<>>) = {}
  BY DEF Asked
<1>3. CallsOf(<<>>) = [d \in {} |-> NotYet]
  BY <1>2 DEF CallsOf
<1> QED
  BY <1>1, <1>3 DEF Promise!Init

(* Through hooks, trampolines, pointers that move and detours that choose, *)
(* every call of the host and of the engines is served by the function it  *)
(* was made for, in the module it was made for, once and before it is      *)
(* answered: LuaHook implements Interception while there is one install.   *)
THEOREM PromiseCorrect ==
  ASSUME MaxLoads = 1, DetoursOwn
  PROVE  Spec => ImplementsInterception
<1>1. Init => Promise!Init
  BY PromiseInit
<1>2. SimInv /\ [Next]_vars => SimInv'
  BY SimNext
<1>3. SimInv /\ SimInv' /\ [Next]_vars =>
        [Promise!Next]_([t \in Threads |-> CallsOf(stack[t])])
  BY PromiseStep
<1> QED
  BY <1>1, <1>2, <1>3, SimInit, PTL DEF Spec, ImplementsInterception, Promise!Spec
-----------------------------------------------------------------------------
(***************************************************************************)
(* Why one call is seen once.  The frames of a stack follow on each other: *)
(* the code of an engine calls its own module, and a detour the function   *)
(* of the pointer it goes on through (CallChain).  So a second detour for  *)
(* the same call would stand on the code of another variant, and the first *)
(* one would have gone on to it: it tests that pointer first.              *)
(***************************************************************************)
Follows(f, g) ==
  IF f.detour = NoDetour
    THEN <<f.at.sym, g.at.sym>> \in Calls[f.at.mod] /\ g.at.mod = f.at.mod
    ELSE f.via # NoPointer /\ fn[f.via] # NULL /\ fn[f.via].sym = g.at.sym

CallChain ==
  \A t \in Threads : \A i, j \in DOMAIN stack[t] :
    j = i + 1 => Follows(stack[t][i], stack[t][j])

ChainInv == SimInv /\ CallChain

LEMMA ChainUnchanged ==
  ASSUME CallChain, UNCHANGED <<stack, fn>>
  PROVE  CallChain'
<1>1. \A t \in Threads : \A i, j \in DOMAIN stack'[t] :
        j = i + 1 => Follows(stack'[t][i], stack'[t][j])
  BY DEF CallChain
<1> QED
  BY <1>1 DEF CallChain, Follows

LEMMA PushChain ==
  ASSUME stack \in Stacks, CallChain, fn' = fn,
         NEW t \in Threads, NEW frame \in Frame, Push(t, frame),
         stack[t] # <<>> => Follows(Top(t), frame)
  PROVE  CallChain'
<1>1. /\ \A u \in Threads : u # t => stack'[u] = stack[u]
      /\ DOMAIN stack'[t] = 1 .. Len(stack[t]) + 1
      /\ DOMAIN stack[t] = 1 .. Len(stack[t]) /\ Len(stack[t]) \in Nat
      /\ \A i \in DOMAIN stack[t] : stack'[t][i] = stack[t][i]
      /\ stack'[t][Len(stack[t]) + 1] = frame
  BY PushFrames
<1>2. ASSUME NEW i \in DOMAIN stack'[t], NEW j \in DOMAIN stack'[t], j = i + 1
      PROVE  Follows(stack'[t][i], stack'[t][j])
  <2>1. CASE j \in DOMAIN stack[t]
    <3>1. i \in DOMAIN stack[t]
      BY <1>1, <1>2, <2>1
    <3> QED
      BY <1>1, <1>2, <2>1, <3>1 DEF CallChain
  <2>2. CASE j \notin DOMAIN stack[t]
    <3>1. j = Len(stack[t]) + 1 /\ i = Len(stack[t]) /\ i \in DOMAIN stack[t]
      BY <1>1, <1>2, <2>2
    <3>2. stack[t] # <<>>
      BY <3>1
    <3> QED
      BY <1>1, <3>1, <3>2 DEF Top
  <2> QED
    BY <2>1, <2>2
<1>3. \A u \in Threads : \A i, j \in DOMAIN stack'[u] :
        j = i + 1 => Follows(stack'[u][i], stack'[u][j])
  BY <1>1, <1>2 DEF CallChain
<1> QED
  BY <1>3 DEF CallChain, Follows

(* A test changes neither the address nor the detour of its frame. *)
LEMMA TestChain ==
  ASSUME ChainInv, NEW t \in Threads, TestPointer(t)
  PROVE  CallChain'
<1> DEFINE p == Forward[Top(t).detour][Top(t).seen + 1]
           top == IF fn[p] # NULL THEN [Top(t) EXCEPT !.via = p]
                                  ELSE [Top(t) EXCEPT !.seen = @ + 1]
<1>0. stack \in Stacks
  BY DEF ChainInv, SimInv, QuietInv, HookTypeOK, Stacks
<1>1. stack[t] # <<>> /\ SetTop(t, top) /\ fn' = fn
  BY DEF TestPointer, InDetour, HostUnchanged
<1>2. Top(t) \in Frame
  BY <1>0, <1>1, TopType
<1>3. top.at = Top(t).at
  <2> HIDE DEF p
  <2> QED
    BY <1>2 DEF Frame
<1>4. Len(stack[t]) \in Nat /\ DOMAIN stack[t] = 1 .. Len(stack[t]) /\ stack[t] \in Seq(Frame)
  BY <1>0, <1>1, LenProperties DEF Stacks
<1> HIDE DEF top
<1>5. /\ \A u \in Threads : u # t => stack'[u] = stack[u]
      /\ DOMAIN stack'[t] = DOMAIN stack[t]
      /\ \A i \in DOMAIN stack[t] :
           stack'[t][i] = IF i = Len(stack[t]) THEN top ELSE stack[t][i]
  <2>1. stack' = [stack EXCEPT ![t] = [stack[t] EXCEPT ![Len(stack[t])] = top]]
    BY <1>0, <1>1 DEF SetTop, Stacks
  <2>2. /\ \A u \in Threads : u # t => stack'[u] = stack[u]
        /\ stack'[t] = [stack[t] EXCEPT ![Len(stack[t])] = top]
    BY <1>0, <2>1 DEF Stacks
  <2> QED
    BY <1>4, <2>2
<1>6. ASSUME NEW i \in DOMAIN stack'[t], NEW j \in DOMAIN stack'[t], j = i + 1
      PROVE  Follows(stack'[t][i], stack'[t][j])
  <2>1. i \in DOMAIN stack[t] /\ j \in DOMAIN stack[t] /\ i # Len(stack[t])
    BY <1>4, <1>5, <1>6
  <2>2. stack'[t][i] = stack[t][i] /\ stack'[t][j].at = stack[t][j].at
    BY <1>3, <1>5, <2>1 DEF Top
  <2>3. Follows(stack[t][i], stack[t][j])
    BY <1>6, <2>1 DEF ChainInv, CallChain
  <2> QED
    BY <2>2, <2>3 DEF Follows
<1>7. \A u \in Threads : \A i, j \in DOMAIN stack'[u] :
        j = i + 1 => Follows(stack'[u][i], stack'[u][j])
  BY <1>5, <1>6 DEF ChainInv, CallChain
<1> QED
  BY <1>1, <1>7 DEF CallChain, Follows

LEMMA ArriveAt ==
  ASSUME NEW a, NEW mode
  PROVE  Arrive(a, mode).at = a
BY DEF Arrive

LEMMA HostThreadChain ==
  ASSUME ChainInv, NEW t \in Threads, HostThread(t)
  PROVE  CallChain'
<1>0. HookTypeOK /\ stack \in Stacks /\ CallChain
  BY DEF ChainInv, SimInv, QuietInv, HookTypeOK, Stacks
<1>1. fn' = fn
  BY HostThreadFrame DEF HostUnchanged
<1>2. \A m \in Modules : \A f \in Exports[m] : Function(m, f) \in Address
  BY ModulesAssumption DEF Function, Address
<1>3. ASSUME NEW m \in Modules, NEW f \in EntryPoints, HostCall(t, m, f) PROVE CallChain'
  <2>1. f \in Exports[m] /\ Push(t, Arrive(Function(m, f), TRUE)) /\ stack[t] = <<>>
    BY <1>3 DEF HostCall
  <2>2. Arrive(Function(m, f), TRUE) \in Frame
    BY <1>0, <1>2, <2>1, ArriveType
  <2> QED
    BY <1>0, <1>1, <2>1, <2>2, PushChain
<1>4. ASSUME NEW f, EngineCall(t, f) PROVE CallChain'
  <2> DEFINE frame == Arrive(Function(Top(t).at.mod, f), TRUE)
  <2>1. /\ Push(t, frame) /\ stack[t] # <<>> /\ Top(t).detour = NoDetour
        /\ f \in Exports[Top(t).at.mod]
        /\ <<Top(t).at.sym, f>> \in Calls[Top(t).at.mod]
    BY <1>4 DEF EngineCall, InEngine
  <2>2. Top(t).at.mod \in Modules
    <3>1. Top(t) \in Frame
      BY <1>0, <2>1, TopType
    <3> QED
      BY <3>1 DEF Frame, Address
  <2>3. frame \in Frame
    BY <1>0, <1>2, <2>1, <2>2, ArriveType
  <2>4. frame.at.sym = f /\ frame.at.mod = Top(t).at.mod
    <3>1. frame.at = Function(Top(t).at.mod, f)
      BY ArriveAt
    <3> HIDE DEF frame
    <3> QED
      BY <3>1 DEF Function
  <2> HIDE DEF frame
  <2>5. Follows(Top(t), frame)
    BY <2>1, <2>4 DEF Follows
  <2> QED
    BY <1>0, <1>1, <2>1, <2>3, <2>5, PushChain
<1>5. ASSUME TestPointer(t) PROVE CallChain'
  BY <1>5, TestChain
<1>6. ASSUME CallOriginal(t), CallArrives(t) PROVE CallChain'
  <2> DEFINE a == fn[Top(t).via]
             frame == Arrive(a, Complete(Top(t).via))
  <2>1. /\ stack[t] # <<>> /\ Top(t).via # NoPointer /\ a # NULL
        /\ Top(t).detour # NoDetour /\ Push(t, frame)
    BY <1>6 DEF CallOriginal, CallArrives, InDetour
  <2>2. Top(t) \in Frame
    BY <1>0, <2>1, TopType
  <2>3. a \in Address
    BY <1>0, <2>1, <2>2 DEF Frame, HookTypeOK, LoadTypeOK
  <2>4. Complete(Top(t).via) \in BOOLEAN
    BY DEF Complete
  <2>5. frame \in Frame
    <3> HIDE DEF a
    <3> QED
      BY <1>0, <2>3, <2>4, ArriveType
  <2>6. frame.at = a
    BY ArriveAt
  <2>7. Follows(Top(t), frame)
    <3> HIDE DEF frame
    <3> QED
      BY <2>1, <2>6 DEF Follows
  <2> HIDE DEF frame
  <2> QED
    BY <1>0, <1>1, <2>1, <2>5, <2>7, PushChain
<1>7. ASSUME CallCrashes(t) PROVE CallChain'
  BY <1>0, <1>1, <1>7, ChainUnchanged DEF CallCrashes
<1>8. ASSUME Return(t) PROVE CallChain'
  <2>1. /\ \A u \in Threads : u # t => stack'[u] = stack[u]
        /\ DOMAIN stack'[t] \subseteq DOMAIN stack[t]
        /\ \A i \in DOMAIN stack'[t] : stack'[t][i] = stack[t][i]
    BY <1>0, <1>8, ReturnFrames
  <2>2. \A u \in Threads : \A i, j \in DOMAIN stack'[u] :
          j = i + 1 => Follows(stack'[u][i], stack'[u][j])
    BY <1>0, <2>1 DEF CallChain
  <2> QED
    BY <1>1, <2>2 DEF CallChain, Follows
<1> QED
  BY <1>3, <1>4, <1>5, <1>6, <1>7, <1>8 DEF HostThread, CallOriginal

LEMMA ChainNext ==
  ASSUME MaxLoads = 1, ChainInv, [Next]_vars
  PROVE  ChainInv'
<1>1. ASSUME NEW t \in Threads, HostThread(t) PROVE CallChain'
  BY <1>1, HostThreadChain
<1>2. ASSUME UNCHANGED stack /\ ~(pc = "idle" /\ loads >= 1) PROVE CallChain'
  <2>1. NoneInDetour
    BY <1>2 DEF ChainInv, SimInv, QuietInv
  <2>2. \A t \in Threads : \A i, j \in DOMAIN stack'[t] :
          j = i + 1 => /\ stack'[t][i].detour = NoDetour
                       /\ Follows(stack'[t][i], stack'[t][j])
    BY <1>2, <2>1 DEF ChainInv, CallChain, NoneInDetour
  <2> QED
    BY <2>2 DEF CallChain, Follows
<1>3. ASSUME UNCHANGED <<stack, fn, hooks>> PROVE CallChain'
  BY <1>3, ChainUnchanged DEF ChainInv
<1>4. ASSUME NEW m \in Modules, HostLoads(m), UNCHANGED hookVars
      PROVE  UNCHANGED <<stack, fn, hooks>>
  BY <1>4 DEF HostLoads, hookVars
<1>5. LoadLua => UNCHANGED stack /\ ~(pc = "idle" /\ loads >= 1)
  BY LoadsOnce DEF LoadLua, ChainInv, SimInv
<1>6. HookStep => UNCHANGED stack /\ ~(pc = "idle" /\ loads >= 1)
  BY DEF HookStep, BeginHooks, SkipHook, RefuseHook, CreateHook, EnableHooks, Hooking
<1>7. UNCHANGED vars => UNCHANGED <<stack, fn, hooks>>
  BY DEF vars, loadVars, hookVars
<1>8. CallChain'
  BY <1>1, <1>2, <1>3, <1>4, <1>5, <1>6, <1>7 DEF Next
<1> QED
  BY <1>8, SimNext DEF ChainInv

(* The variants of one function: every function is of one pair at most. *)
LEMMA SameTogether ==
  ASSUME NEW f, NEW g, NEW h, SameFunction(f, g), SameFunction(h, g)
  PROVE  SameFunction(f, h)
<1>1. \A x, y, a, b : {x, y} = {a, b} => (x = a /\ y = b) \/ (x = b /\ y = a)
  OBVIOUS
<1>2. \A x, y : SameFunction(x, y) <=>
        \/ x = y
        \/ x = "luaL_loadbuffer" /\ y = "luaL_loadbufferx"
        \/ x = "luaL_loadbufferx" /\ y = "luaL_loadbuffer"
        \/ x = "luaL_loadfile" /\ y = "luaL_loadfilex"
        \/ x = "luaL_loadfilex" /\ y = "luaL_loadfile"
        \/ x = "lua_load" /\ y = "lua_loadx"
        \/ x = "lua_loadx" /\ y = "lua_load"
        \/ x = "luaI_openlib" /\ y = "luaL_openlib"
        \/ x = "luaL_openlib" /\ y = "luaI_openlib"
  <2> SUFFICES ASSUME NEW x, NEW y
      PROVE  SameFunction(x, y) <=>
        \/ x = y
        \/ x = "luaL_loadbuffer" /\ y = "luaL_loadbufferx"
        \/ x = "luaL_loadbufferx" /\ y = "luaL_loadbuffer"
        \/ x = "luaL_loadfile" /\ y = "luaL_loadfilex"
        \/ x = "luaL_loadfilex" /\ y = "luaL_loadfile"
        \/ x = "lua_load" /\ y = "lua_loadx"
        \/ x = "lua_loadx" /\ y = "lua_load"
        \/ x = "luaI_openlib" /\ y = "luaL_openlib"
        \/ x = "luaL_openlib" /\ y = "luaI_openlib"
    OBVIOUS
  <2>1. SameFunction(x, y) <=>
          \/ x = y
          \/ {x, y} = {"luaL_loadbuffer", "luaL_loadbufferx"}
          \/ {x, y} = {"luaL_loadfile", "luaL_loadfilex"}
          \/ {x, y} = {"lua_load", "lua_loadx"}
          \/ {x, y} = {"luaI_openlib", "luaL_openlib"}
    BY DEF SameFunction, Variants
  <2> QED
    BY <1>1, <2>1
<1> QED
  BY <1>2

(* No two detours stand for one call: with frames of one function only     *)
(* between them, the later one's pointer would have served the earlier.    *)
LEMMA OnceInChain ==
  ASSUME ChainInv, CallsOnward, NEW t \in Threads,
         NEW i \in DOMAIN stack[t], NEW j \in DOMAIN stack[t], i < j,
         stack[t][i].detour # NoDetour, stack[t][j].detour # NoDetour,
         \A k \in i + 1 .. j : SameFunction(stack[t][k].at.sym, stack[t][i].at.sym)
  PROVE  FALSE
<1> DEFINE first == stack[t][i]
           code  == stack[t][i + 1]
           next  == stack[t][i + 2]
<1>0. /\ HookTypeOK /\ PointerInv /\ OwnFrames /\ OwnVia /\ HookedFor /\ CallChain
      /\ stack[t] \in Seq(Frame)
  BY DEF ChainInv, SimInv, StackInv, QuietInv, HookTypeOK
<1>1. DOMAIN stack[t] = 1 .. Len(stack[t]) /\ Len(stack[t]) \in Nat
  BY <1>0, LenProperties
<1>2. i + 1 \in DOMAIN stack[t] /\ i + 1 \in i + 1 .. j /\ i \in Nat /\ j \in Nat
  BY <1>1
<1>3. code.detour = NoDetour /\ j # i + 1
  <2>1. Alternating(stack[t])
    BY AlternatingStacks DEF ChainInv
  <2> QED
    BY <1>2, <2>1 DEF Alternating
<1>4. /\ i + 2 \in DOMAIN stack[t] /\ i + 2 \in i + 1 .. j /\ i + 2 = (i + 1) + 1
      /\ j # i + 2 => i + 3 \in DOMAIN stack[t] /\ i + 3 \in i + 1 .. j /\ i + 3 = (i + 2) + 1
  BY <1>1, <1>2, <1>3
<1>5. /\ first.via # NoPointer /\ fn[first.via] # NULL
      /\ fn[first.via].sym = code.at.sym
  BY <1>0, <1>2 DEF CallChain, Follows
<1>6. /\ <<code.at.sym, next.at.sym>> \in Calls[code.at.mod]
      /\ next.at.mod = code.at.mod
  BY <1>0, <1>2, <1>3, <1>4 DEF CallChain, Follows
<1>7. code.at.mod \in Modules
  <2>1. code \in Frame
    BY <1>0, <1>1, <1>2, ElementOfSeq
  <2> QED
    BY <2>1 DEF Frame, Address
<1>8. SameFunction(code.at.sym, next.at.sym)
  <2>1. SameFunction(code.at.sym, first.at.sym) /\ SameFunction(next.at.sym, first.at.sym)
    BY <1>2, <1>4
  <2> QED
    BY <2>1, SameTogether
<1>9. \A e \in Calls[code.at.mod] : e[1] = next.at.sym => ~SameFunction(e[1], e[2])
  BY <1>6, <1>7, <1>8 DEF CallsOnward
<1>10. next.detour # NoDetour
  <2> SUFFICES ASSUME next.detour = NoDetour PROVE FALSE
    OBVIOUS
  <2> DEFINE last == stack[t][i + 3]
  <2>1. i + 3 \in DOMAIN stack[t] /\ i + 3 \in i + 1 .. j /\ i + 3 = (i + 2) + 1
    BY <1>4
  <2>2. <<next.at.sym, last.at.sym>> \in Calls[next.at.mod]
    BY <1>0, <1>4, <2>1 DEF CallChain, Follows
  <2>3. SameFunction(next.at.sym, last.at.sym)
    <3>1. SameFunction(last.at.sym, first.at.sym) /\ SameFunction(next.at.sym, first.at.sym)
      BY <1>4, <2>1
    <3> QED
      BY <3>1, SameTogether
  <2>4. <<next.at.sym, last.at.sym>> \in Calls[code.at.mod]
    BY <1>6, <2>2
  <2> HIDE DEF code, next, last
  <2>5. ~SameFunction(next.at.sym, last.at.sym)
    BY <1>9, <2>4
  <2> QED
    BY <2>3, <2>5
<1>11. next.at \in DOMAIN hooks
  BY <1>0, <1>4, <1>10 DEF OwnFrames, FrameOwn
<1>12. PICK h \in DOMAIN HookPlan : StandsFor(HookPlan[h].fn, next.at)
  BY <1>0, <1>11 DEF HookedFor
<1> DEFINE p == HookPlan[h].fn
<1>13. p \in HookPointers /\ fn[p] # NULL /\ fn[p].sym = next.at.sym
  BY <1>12 DEF StandsFor, HookPointers
<1>14. /\ first.detour \in DOMAIN Forward
       /\ first.seen \in Nat
       /\ first.seen + 1 \in DOMAIN Forward[first.detour]
       /\ Forward[first.detour][first.seen + 1] = first.via
       /\ \A k \in 1 .. first.seen : fn[Forward[first.detour][k]] = NULL
  <2>1. first \in Frame
    BY <1>0, <1>1, ElementOfSeq
  <2> QED
    BY <1>0, <1>5, <2>1 DEF OwnFrames, FrameOwn, Frame
<1>15. PICK a \in DOMAIN LoadPlan : LoadPlan[a].fn = first.via /\ LoadPlan[a].sym = code.at.sym
  <2>1. first.via \in Pointers
    BY <1>0, <1>5, HookPointersDeclared DEF OwnVia
  <2> QED
    BY <1>0, <1>5, <2>1 DEF PointerInv, OwnSymbol
<1>16. PICK b \in DOMAIN LoadPlan : LoadPlan[b].fn = p /\ LoadPlan[b].sym = next.at.sym
  <2>1. p \in Pointers
    BY <1>13, HookPointersDeclared
  <2> QED
    BY <1>0, <1>13, <2>1 DEF PointerInv, OwnSymbol
<1> HIDE DEF first, code, next, p
<1>17. PICK l \in 1 .. first.seen + 1 : Forward[first.detour][l] = p
  BY <1>6, <1>7, <1>8, <1>13, <1>14, <1>15, <1>16 DEF CallsOnward
<1>18. l = first.seen + 1
  <2>1. l \notin 1 .. first.seen
    BY <1>13, <1>14, <1>17
  <2> QED
    BY <1>14, <2>1
<1>19. code.at.sym = next.at.sym
  BY <1>5, <1>13, <1>14, <1>17, <1>18
<1> QED
  BY <1>6, <1>8, <1>9, <1>19

(* One call is reported once: on its way through the variants of one       *)
(* function, through detours that choose between them and two hooks on one *)
(* function, a call enters one detour - for every engine whose variants    *)
(* call each other in one direction, and every order of tests that keeps   *)
(* to it, while there is one install (luaL_loadbufferx_hook).              *)
THEOREM ReportedCorrect ==
  ASSUME MaxLoads = 1, CallsOnward
  PROVE  Spec => []ReportedOnce
<1>1. Init => ChainInv
  <2>1. Init => CallChain
    BY DEF Init, CallChain
  <2> QED
    BY <2>1, SimInit DEF ChainInv
<1>2. ChainInv /\ [Next]_vars => ChainInv'
  BY ChainNext
<1>3. ChainInv => ReportedOnce
  <2> SUFFICES ASSUME ChainInv, NEW t \in Threads,
                      NEW i \in DOMAIN stack[t], NEW j \in DOMAIN stack[t], i < j,
                      stack[t][i].detour # NoDetour, stack[t][j].detour # NoDetour,
                      SameFunction(stack[t][i].at.sym, stack[t][j].at.sym),
                      \A k \in i + 1 .. j - 1 :
                        SameFunction(stack[t][k].at.sym, stack[t][i].at.sym)
               PROVE  FALSE
    BY DEF ReportedOnce
  <2>1. DOMAIN stack[t] \subseteq Nat
    <3>1. stack[t] \in Seq(Frame)
      BY DEF ChainInv, SimInv, QuietInv, HookTypeOK
    <3> QED
      BY <3>1, LenProperties
  <2>2. \A k \in i + 1 .. j : k = j \/ k \in i + 1 .. j - 1
    BY <2>1
  <2>3. SameFunction(stack[t][i].at.sym, stack[t][i].at.sym)
    BY DEF SameFunction
  <2>4. SameFunction(stack[t][j].at.sym, stack[t][i].at.sym)
    BY <2>3, SameTogether DEF SameFunction
  <2>5. \A k \in i + 1 .. j : SameFunction(stack[t][k].at.sym, stack[t][i].at.sym)
    BY <2>2, <2>4
  <2> QED
    BY <2>5, OnceInChain
<1> QED
  BY <1>1, <1>2, <1>3, PTL DEF Spec
-----------------------------------------------------------------------------
(***************************************************************************)
(* Why a detour comes to its end: the part of DetourAnswers that needs no  *)
(* fairness.  The pointer a detour has taken was found by a load, and it   *)
(* is not lost again while the detour runs (FoundVia).                     *)
(***************************************************************************)
FrameFound(f) == f.detour # NoDetour /\ f.via # NoPointer => fn[f.via] # NULL

FoundVia == \A t \in Threads : \A i \in DOMAIN stack[t] : FrameFound(stack[t][i])

FoundInv == SimInv /\ FoundVia /\ fault # "null forward"

LEMMA PushFound ==
  ASSUME stack \in Stacks, FoundVia, fn' = fn,
         NEW t \in Threads, NEW frame \in Frame, Push(t, frame), FrameFound(frame)
  PROVE  FoundVia'
<1>1. /\ \A u \in Threads : u # t => stack'[u] = stack[u]
      /\ DOMAIN stack'[t] = 1 .. Len(stack[t]) + 1
      /\ DOMAIN stack[t] = 1 .. Len(stack[t]) /\ Len(stack[t]) \in Nat
      /\ \A i \in DOMAIN stack[t] : stack'[t][i] = stack[t][i]
      /\ stack'[t][Len(stack[t]) + 1] = frame
  BY PushFrames
<1>2. \A i \in DOMAIN stack'[t] : i \in DOMAIN stack[t] \/ i = Len(stack[t]) + 1
  BY <1>1
<1>3. \A u \in Threads : \A i \in DOMAIN stack'[u] : FrameFound(stack'[u][i])
  BY <1>1, <1>2 DEF FoundVia
<1> QED
  BY <1>3 DEF FoundVia, FrameFound

(* The effect of a test on the top frame. *)
LEMMA TestEffect ==
  ASSUME stack \in Stacks, NEW t \in Threads, TestPointer(t)
  PROVE  LET p == Forward[Top(t).detour][Top(t).seen + 1] IN
         /\ \A u \in Threads : u # t => stack'[u] = stack[u]
         /\ Len(stack'[t]) = Len(stack[t]) /\ DOMAIN stack'[t] = DOMAIN stack[t]
         /\ \A i \in DOMAIN stack[t] : i # Len(stack[t]) => stack'[t][i] = stack[t][i]
         /\ Top(t)' = stack'[t][Len(stack[t])]
         /\ Top(t)'.detour = Top(t).detour
         /\ \/ fn[p] # NULL /\ Top(t)'.via = p
            \/ /\ fn[p] = NULL /\ Top(t)'.via = Top(t).via
               /\ Top(t)'.seen = Top(t).seen + 1
<1> DEFINE p == Forward[Top(t).detour][Top(t).seen + 1]
           top == IF fn[p] # NULL THEN [Top(t) EXCEPT !.via = p]
                                  ELSE [Top(t) EXCEPT !.seen = @ + 1]
<1>1. stack[t] # <<>> /\ SetTop(t, top)
  BY DEF TestPointer, InDetour
<1>2. Top(t) \in Frame
  BY <1>1, TopType
<1>3. Len(stack[t]) \in DOMAIN stack[t] /\ stack[t] \in Seq(Frame)
  BY <1>1, EmptySeq, LenProperties DEF Stacks
<1>4. /\ top.detour = Top(t).detour
      /\ \/ fn[p] # NULL /\ top.via = p
         \/ fn[p] = NULL /\ top.via = Top(t).via /\ top.seen = Top(t).seen + 1
  <2> HIDE DEF p
  <2> QED
    BY <1>2 DEF Frame
<1> HIDE DEF top
<1>5. stack' = [stack EXCEPT ![t] = [stack[t] EXCEPT ![Len(stack[t])] = top]]
  BY <1>1 DEF SetTop, Stacks
<1>6. /\ \A u \in Threads : u # t => stack'[u] = stack[u]
      /\ stack'[t] = [stack[t] EXCEPT ![Len(stack[t])] = top]
  BY <1>5 DEF Stacks
<1>7. /\ DOMAIN stack'[t] = DOMAIN stack[t]
      /\ \A i \in DOMAIN stack[t] :
           stack'[t][i] = IF i = Len(stack[t]) THEN top ELSE stack[t][i]
  BY <1>6
<1>8. Len(stack'[t]) = Len(stack[t])
  <2>1. \A s : [s EXCEPT ![Len(s)] = top] = [i \in DOMAIN s |-> IF i = Len(s) THEN top ELSE s[i]]
    OBVIOUS
  <2>2. DOMAIN stack[t] = 1 .. Len(stack[t]) /\ Len(stack[t]) \in Nat
    BY <1>3, LenProperties
  <2> QED
    BY <1>6, <2>1, <2>2
<1>9. Top(t)' = top
  BY <1>3, <1>7, <1>8 DEF Top
<1> QED
  BY <1>3, <1>4, <1>6, <1>7, <1>8, <1>9

(* A detour without a choice calls through its own pointer, which led here. *)
LEMMA ArriveFound ==
  ASSUME SimInv, DetoursOwn, NEW a \in Address, NEW mode
  PROVE  FrameFound(Arrive(a, mode))
<1> DEFINE f == Arrive(a, mode)
<1> SUFFICES ASSUME f.detour # NoDetour, f.via # NoPointer PROVE fn[f.via] # NULL
  BY DEF FrameFound
<1>0. HookTypeOK /\ HookedFor
  BY DEF SimInv, QuietInv
<1>1. /\ a \in enabled
      /\ Len(Forward[hooks[a]]) = 1
      /\ f.via = Forward[hooks[a]][1]
  BY DEF Arrive
<1> HIDE DEF f
<1>2. PICK h \in DOMAIN HookPlan :
        HookPlan[h].detour = hooks[a] /\ StandsFor(HookPlan[h].fn, a)
  BY <1>0, <1>1 DEF HookedFor, HookTypeOK
<1>3. PICK i \in DOMAIN Forward[hooks[a]] : Forward[hooks[a]][i] = HookPlan[h].fn
  BY <1>2 DEF DetoursOwn
<1>4. i = 1
  <2>1. hooks[a] \in DOMAIN Forward
    BY <1>2, HookStepPlan
  <2> QED
    BY <1>1, <1>3, <2>1, ForwardType, LenProperties
<1> QED
  BY <1>1, <1>2, <1>3, <1>4 DEF StandsFor

(* The top frame of a detour, and what FoundInv knows of it. *)
LEMMA TopFound ==
  ASSUME FoundInv, NEW t \in Threads, InDetour(t)
  PROVE  Top(t).via # NoPointer => fn[Top(t).via] # NULL
<1>1. stack \in Stacks /\ stack[t] # <<>> /\ Top(t).detour # NoDetour
  BY DEF FoundInv, SimInv, QuietInv, HookTypeOK, Stacks, InDetour
<1>2. Len(stack[t]) \in DOMAIN stack[t]
  BY <1>1, EmptySeq, LenProperties DEF Stacks
<1> QED
  BY <1>1, <1>2 DEF FoundInv, FoundVia, FrameFound, Top

LEMMA HostThreadFound ==
  ASSUME FoundInv, DetoursOwn, NEW t \in Threads, HostThread(t)
  PROVE  FoundVia' /\ fault' # "null forward"
<1>0. HookTypeOK /\ stack \in Stacks /\ FoundVia /\ SimInv /\ fault # "null forward"
  BY DEF FoundInv, SimInv, QuietInv, HookTypeOK, Stacks
<1>1. fn' = fn
  BY HostThreadFrame DEF HostUnchanged
<1>2. \A m \in Modules : \A f \in Exports[m] : Function(m, f) \in Address
  BY ModulesAssumption DEF Function, Address
<1>3. ASSUME NEW a \in Address, NEW mode \in BOOLEAN, Push(t, Arrive(a, mode))
      PROVE  FoundVia'
  <2>1. Arrive(a, mode) \in Frame /\ FrameFound(Arrive(a, mode))
    BY <1>0, ArriveType, ArriveFound
  <2> QED
    BY <1>0, <1>1, <1>3, <2>1, PushFound
<1>4. ASSUME NEW m \in Modules, NEW f \in EntryPoints, HostCall(t, m, f)
      PROVE  FoundVia' /\ fault' = fault
  BY <1>2, <1>3, <1>4 DEF HostCall
<1>5. ASSUME NEW f, EngineCall(t, f) PROVE FoundVia' /\ fault' = fault
  <2>1. Top(t) \in Frame
    BY <1>0, <1>5, TopType DEF EngineCall, InEngine
  <2>2. Function(Top(t).at.mod, f) \in Address
    BY <1>2, <1>5, <2>1 DEF EngineCall, Frame, Address
  <2> QED
    BY <1>3, <1>5, <2>2 DEF EngineCall
<1>6. ASSUME TestPointer(t) PROVE FoundVia' /\ fault' = fault
  <2> DEFINE p == Forward[Top(t).detour][Top(t).seen + 1]
  <2>1. /\ \A u \in Threads : u # t => stack'[u] = stack[u]
        /\ Len(stack'[t]) = Len(stack[t]) /\ DOMAIN stack'[t] = DOMAIN stack[t]
        /\ \A i \in DOMAIN stack[t] : i # Len(stack[t]) => stack'[t][i] = stack[t][i]
        /\ Top(t)' = stack'[t][Len(stack[t])]
        /\ \/ fn[p] # NULL /\ Top(t)'.via = p
           \/ Top(t)'.via = Top(t).via
    BY <1>0, <1>6, TestEffect
  <2> HIDE DEF p
  <2>2. Top(t).via = NoPointer
    BY <1>6 DEF TestPointer
  <2>3. ASSUME NEW i \in DOMAIN stack'[t] PROVE FrameFound(stack'[t][i])
    <3>1. i \in DOMAIN stack[t] /\ FrameFound(stack[t][i])
      BY <1>0, <2>1 DEF FoundVia
    <3>2. CASE i # Len(stack[t])
      BY <2>1, <3>1, <3>2
    <3>3. CASE i = Len(stack[t])
      BY <2>1, <2>2, <3>3 DEF FrameFound
    <3> QED
      BY <3>2, <3>3
  <2>4. ASSUME NEW u \in Threads PROVE \A i \in DOMAIN stack'[u] : FrameFound(stack'[u][i])
    <3>1. CASE u = t
      BY <2>3, <3>1
    <3>2. CASE u # t
      BY <1>0, <2>1, <3>2 DEF FoundVia
    <3> QED
      BY <3>1, <3>2
  <2> QED
    BY <1>1, <1>6, <2>4 DEF FoundVia, FrameFound, TestPointer
<1>7. ASSUME CallOriginal(t) PROVE FoundVia' /\ fault' # "null forward"
  <2>1. InDetour(t) /\ Top(t).via # NoPointer /\ fn[Top(t).via] # NULL
    BY <1>7, TopFound DEF CallOriginal
  <2>2. ASSUME CallArrives(t) PROVE FoundVia' /\ fault' = fault
    <3>1. Complete(Top(t).via) \in BOOLEAN
      BY DEF Complete
    <3>2. fn[Top(t).via] \in Address
      BY <1>0, <2>1, DetourGoesOn
    <3> QED
      BY <1>3, <2>2, <3>1, <3>2 DEF CallArrives
  <2>3. ASSUME CallCrashes(t) PROVE FoundVia' /\ fault' = "stack overflow"
    BY <1>0, <1>1, <2>1, <2>3 DEF CallCrashes, FoundVia, FrameFound
  <2> QED
    BY <1>0, <1>7, <2>2, <2>3 DEF CallOriginal
<1>8. ASSUME Return(t) PROVE FoundVia' /\ fault' = fault
  <2>1. /\ \A u \in Threads : u # t => stack'[u] = stack[u]
        /\ DOMAIN stack'[t] \subseteq DOMAIN stack[t]
        /\ \A i \in DOMAIN stack'[t] : stack'[t][i] = stack[t][i]
    BY <1>0, <1>8, ReturnFrames
  <2>2. \A u \in Threads : \A i \in DOMAIN stack'[u] : FrameFound(stack'[u][i])
    BY <1>0, <2>1 DEF FoundVia
  <2> QED
    BY <1>1, <1>8, <2>2 DEF FoundVia, FrameFound, Return
<1> QED
  BY <1>0, <1>4, <1>5, <1>6, <1>7, <1>8 DEF HostThread

LEMMA FoundNext ==
  ASSUME MaxLoads = 1, DetoursOwn, FoundInv, [Next]_vars
  PROVE  FoundInv'
<1>1. ASSUME NEW t \in Threads, HostThread(t) PROVE FoundVia' /\ fault' # "null forward"
  BY <1>1, HostThreadFound
<1>2. ASSUME UNCHANGED stack, ~(pc = "idle" /\ loads >= 1) PROVE FoundVia'
  <2>1. NoneInDetour
    BY <1>2 DEF FoundInv, SimInv, QuietInv
  <2>2. \A t \in Threads : \A i \in DOMAIN stack'[t] : stack'[t][i].detour = NoDetour
    BY <1>2, <2>1 DEF NoneInDetour
  <2> QED
    BY <2>2 DEF FoundVia, FrameFound
<1>3. ASSUME UNCHANGED <<stack, fn>> PROVE FoundVia'
  <2>1. \A t \in Threads : \A i \in DOMAIN stack'[t] : FrameFound(stack'[t][i])
    BY <1>3 DEF FoundInv, FoundVia
  <2> QED
    BY <1>3, <2>1 DEF FoundVia, FrameFound
<1>4. ASSUME NEW m \in Modules, HostLoads(m), UNCHANGED hookVars
      PROVE  UNCHANGED <<stack, fn, fault>>
  BY <1>4 DEF HostLoads, hookVars
<1>5. LoadLua => /\ UNCHANGED stack /\ ~(pc = "idle" /\ loads >= 1)
                 /\ fault' = fault \/ fault' = "null loader lock"
  BY LoadsOnce DEF LoadLua, FoundInv, SimInv, LoaderStep, LoadFromHandle, LoadFromSpecified,
     LoadFromAppModules, DetectVersion, NotLua, SkipLookup, GetFunction, FinishLoad
<1>6. HookStep => UNCHANGED <<stack, fault>> /\ ~(pc = "idle" /\ loads >= 1)
  BY DEF HookStep, BeginHooks, SkipHook, RefuseHook, CreateHook, EnableHooks, Hooking, loadVars
<1>7. UNCHANGED vars => UNCHANGED <<stack, fn, fault>>
  BY DEF vars, loadVars, hookVars
<1>8. FoundVia' /\ fault' # "null forward"
  BY <1>1, <1>2, <1>3, <1>4, <1>5, <1>6, <1>7 DEF Next, FoundInv
<1> QED
  BY <1>8, SimNext DEF FoundInv

LEMMA FoundCorrect ==
  ASSUME MaxLoads = 1, DetoursOwn
  PROVE  Spec => []FoundInv
<1>1. Init => FoundInv
  <2>1. Init => FoundVia /\ fault # "null forward"
    BY DEF Init, LoadInit, FoundVia
  <2> QED
    BY <2>1, SimInit DEF FoundInv
<1> QED
  BY <1>1, FoundNext, PTL DEF Spec

(* The own pointer of a detour is among those that it has not passed over. *)
LEMMA OwnPointerAhead ==
  ASSUME SimInv, DetoursOwn, NEW t \in Threads, InDetour(t)
  PROVE  /\ Top(t).seen \in Nat
         /\ Len(Forward[Top(t).detour]) \in Nat
         /\ \E k \in 1 .. Len(Forward[Top(t).detour]) :
              k \notin 1 .. Top(t).seen /\ fn[Forward[Top(t).detour][k]] # NULL
<1> DEFINE top == Top(t)
<1>0. HookedFor /\ stack \in Stacks
  BY DEF SimInv, QuietInv, HookTypeOK, Stacks
<1>1. stack[t] # <<>> /\ top.detour # NoDetour
  BY DEF InDetour
<1>2. Len(stack[t]) \in DOMAIN stack[t] /\ top \in Frame
  BY <1>0, <1>1, TopType, EmptySeq, LenProperties DEF Stacks
<1>3. FrameOwn(top)
  BY <1>2 DEF SimInv, OwnFrames, Top
<1> HIDE DEF top
<1>4. PICK i \in DOMAIN HookPlan :
        HookPlan[i].detour = top.detour /\ StandsFor(HookPlan[i].fn, top.at)
  BY <1>0, <1>1, <1>3 DEF HookedFor, FrameOwn, top
<1>5. PICK k \in DOMAIN Forward[top.detour] : Forward[top.detour][k] = HookPlan[i].fn
  BY <1>4 DEF DetoursOwn
<1>6. /\ DOMAIN Forward[top.detour] = 1 .. Len(Forward[top.detour])
      /\ Len(Forward[top.detour]) \in Nat
  BY <1>4, HookStepPlan, ForwardType, LenProperties
<1>7. fn[Forward[top.detour][k]] # NULL
  BY <1>4, <1>5 DEF StandsFor
<1>8. k \notin 1 .. top.seen
  BY <1>1, <1>3, <1>7 DEF FrameOwn
<1>9. top.seen \in Nat
  BY <1>2 DEF Frame
<1> QED
  BY <1>5, <1>6, <1>7, <1>8, <1>9 DEF top

(* A thread moves its own stack only. *)
LEMMA OthersKeep ==
  ASSUME stack \in Stacks, NEW u \in Threads, HostThread(u)
  PROVE  \A t \in Threads : t # u => stack'[t] = stack[t]
<1>1. \A frame : Push(u, frame) => \A t \in Threads : t # u => stack'[t] = stack[t]
  BY DEF Push, Stacks
<1>2. \A frame : SetTop(u, frame) => \A t \in Threads : t # u => stack'[t] = stack[t]
  BY DEF SetTop, Stacks
<1>3. Return(u) => \A t \in Threads : t # u => stack'[t] = stack[t]
  BY ReturnFrames
<1> QED
  BY <1>1, <1>2, <1>3
     DEF HostThread, HostCall, EngineCall, TestPointer, CallOriginal, CallArrives, CallCrashes

DetourGetsOn ==
  \A t \in Threads : InDetour(t) =>
    IF Top(t).via # NoPointer
      THEN fn[Top(t).via] # NULL /\ fn[Top(t).via] \notin enabled
      ELSE \E i \in Top(t).seen + 1 .. Len(Forward[Top(t).detour]) :
             fn[Forward[Top(t).detour][i]] # NULL

(* A detour is never at a loss: it has a pointer of the engine's code to   *)
(* call through, or one still to find among those it has not tested, so    *)
(* that no detour answers -1 and none calls through NULL, on any thread,   *)
(* while there is one install (odbk_lhook.cpp).                            *)
THEOREM GetsOnCorrect ==
  ASSUME MaxLoads = 1, DetoursOwn
  PROVE  Spec => [](DetourGetsOn /\ fault # "null forward")
<1>1. FoundInv => DetourGetsOn /\ fault # "null forward"
  <2> SUFFICES ASSUME FoundInv, NEW t \in Threads, InDetour(t)
      PROVE IF Top(t).via # NoPointer
              THEN fn[Top(t).via] # NULL /\ fn[Top(t).via] \notin enabled
              ELSE \E i \in Top(t).seen + 1 .. Len(Forward[Top(t).detour]) :
                     fn[Forward[Top(t).detour][i]] # NULL
    BY DEF FoundInv, DetourGetsOn
  <2>0. SimInv
    BY DEF FoundInv
  <2>1. CASE Top(t).via # NoPointer
    <3>1. fn[Top(t).via] # NULL
      BY <2>1, TopFound
    <3> QED
      BY <2>0, <2>1, <3>1, DetourGoesOn
  <2>2. CASE Top(t).via = NoPointer
    <3>1. PICK k \in 1 .. Len(Forward[Top(t).detour]) :
             k \notin 1 .. Top(t).seen /\ fn[Forward[Top(t).detour][k]] # NULL
      BY <2>0, OwnPointerAhead
    <3>2. Top(t).seen \in Nat
      BY <2>0, OwnPointerAhead
    <3> QED
      BY <2>2, <3>1, <3>2
  <2> QED
    BY <2>1, <2>2
<1> QED
  BY <1>1, FoundCorrect, PTL

(* The tests a detour may still make. *)
Remaining(t) ==
  IF Top(t).via # NoPointer THEN 0 ELSE Len(Forward[Top(t).detour]) - Top(t).seen

DetourAdvances ==
  [][\A t \in Threads : InDetour(t) /\ stack'[t] # stack[t] =>
       /\ Remaining(t) \in Nat
       /\ InDetour(t)' => Remaining(t)' \in Nat /\ Remaining(t)' < Remaining(t)]_vars

(* A detour is left after as many steps of its thread as it has pointers,  *)
(* and one more: each takes it out, or leaves fewer pointers to test.      *)
THEOREM AdvancesCorrect ==
  ASSUME MaxLoads = 1, DetoursOwn
  PROVE  Spec => DetourAdvances
<1>1. FoundInv /\ [Next]_vars =>
        [\A t \in Threads : InDetour(t) /\ stack'[t] # stack[t] =>
           /\ Remaining(t) \in Nat
           /\ InDetour(t)' => Remaining(t)' \in Nat /\ Remaining(t)' < Remaining(t)]_vars
  <2> SUFFICES ASSUME FoundInv, Next, NEW t \in Threads, InDetour(t), stack'[t] # stack[t]
               PROVE  /\ Remaining(t) \in Nat
                      /\ InDetour(t)' => Remaining(t)' \in Nat /\ Remaining(t)' < Remaining(t)
    OBVIOUS
  <2>0. SimInv /\ HookTypeOK /\ stack \in Stacks
    BY DEF FoundInv, SimInv, QuietInv, HookTypeOK, Stacks
  <2>1. /\ stack[t] # <<>> /\ Top(t).detour # NoDetour
        /\ Top(t).seen \in Nat /\ Top(t).seen < Len(Forward[Top(t).detour])
        /\ Len(Forward[Top(t).detour]) \in Nat
    <3>1. PICK k \in 1 .. Len(Forward[Top(t).detour]) : k \notin 1 .. Top(t).seen
      BY <2>0, OwnPointerAhead
    <3>2. Top(t).seen \in Nat /\ Len(Forward[Top(t).detour]) \in Nat
      BY <2>0, OwnPointerAhead
    <3> QED
      BY <3>1, <3>2 DEF InDetour
  <2>2. Remaining(t) \in Nat
    BY <2>1 DEF Remaining
  <2>3. TestPointer(t) \/ (CallOriginal(t) /\ CallArrives(t))
    <3>1. PICK u \in Threads : HostThread(u)
      BY DEF Next, hookVars, LoadLua, HookStep, BeginHooks, SkipHook, RefuseHook, CreateHook, EnableHooks
    <3>2. u # t => stack'[t] = stack[t]
      BY <2>0, <3>1, OthersKeep
    <3>3. HostThread(t)
      BY <3>1, <3>2
    <3>4. ~InEngine(t)
      BY <2>1 DEF InEngine
    <3>5. ~Return(t)
      BY <2>0, <3>4, DetourHasPointer DEF Return
    <3>6. ~CallCrashes(t)
      BY DEF CallCrashes
    <3> QED
      BY <2>1, <3>3, <3>4, <3>5, <3>6 DEF HostThread, HostCall, EngineCall, CallOriginal
  <2>4. ASSUME TestPointer(t), InDetour(t)'
        PROVE  Remaining(t)' \in Nat /\ Remaining(t)' < Remaining(t)
    <3> DEFINE p == Forward[Top(t).detour][Top(t).seen + 1]
    <3>1. /\ Top(t)'.detour = Top(t).detour
          /\ \/ Top(t)'.via = p
             \/ Top(t)'.via = Top(t).via /\ Top(t)'.seen = Top(t).seen + 1
      BY <2>0, <2>4, TestEffect
    <3>2. Top(t).via = NoPointer
      BY <2>4 DEF TestPointer
    <3>3. Remaining(t) = Len(Forward[Top(t).detour]) - Top(t).seen
      BY <3>2 DEF Remaining
    <3>4. Remaining(t)' = IF Top(t)'.via # NoPointer THEN 0
                          ELSE Len(Forward[Top(t)'.detour]) - Top(t)'.seen
      BY DEF Remaining
    <3>5. p # NoPointer
      <4>1. Top(t) \in Frame
        BY <2>0, <2>1, TopType
      <4>2. p \in HookPointers
        BY <2>1, <4>1, ForwardType DEF Frame
      <4> QED
        BY <4>2, HookPointersDeclared, PlanAssumption
    <3> HIDE DEF p
    <3> QED
      BY <2>1, <3>1, <3>2, <3>3, <3>4, <3>5
  <2>5. ASSUME CallOriginal(t), CallArrives(t) PROVE ~InDetour(t)'
    <3> DEFINE frame == Arrive(fn[Top(t).via], Complete(Top(t).via))
    <3>1. fn[Top(t).via] \in Address \ enabled
      BY <2>0, <2>5, DetourGoesOn DEF CallOriginal, CallArrives
    <3>2. frame.detour = NoDetour
      BY <3>1 DEF Arrive
    <3>3. Complete(Top(t).via) \in BOOLEAN
      BY DEF Complete
    <3>4. frame \in Frame
      BY <2>0, <3>1, <3>3, ArriveType
    <3>5. Push(t, frame)
      BY <2>5 DEF CallArrives
    <3> HIDE DEF frame
    <3>6. Top(t)' = frame
      <4>1. stack[t] \in Seq(Frame) /\ stack'[t] = Append(stack[t], frame)
        BY <2>0, <3>5 DEF Push, Stacks
      <4> QED
        BY <3>4, <4>1, AppendProperties DEF Top
    <3> QED
      BY <3>2, <3>6 DEF InDetour
  <2> QED
    BY <2>2, <2>3, <2>4, <2>5
<1> QED
  BY <1>1, FoundCorrect, PTL DEF Spec, DetourAdvances
=============================================================================
