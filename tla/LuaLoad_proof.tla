---------------------------- MODULE LuaLoad_proof ----------------------------
(***************************************************************************)
(* What holds of the Lua loader for every table of lookups, every set of   *)
(* modules and every number of loads.                                      *)
(***************************************************************************)
EXTENDS LuaLoad, TLAPS

(* The tables are sequences. *)
LEMMA PlanDomain == DOMAIN LoadPlan = 1 .. Len(LoadPlan) /\ Len(LoadPlan) \in Nat
<1> DEFINE Steps == [fn : Pointers, sym : STRING, since : Int,
                     unless : Pointers \cup {NoPointer}]
<1>1. LoadPlan \in Seq(Steps) => /\ DOMAIN LoadPlan = 1 .. Len(LoadPlan)
                                 /\ Len(LoadPlan) \in Nat
  <2> HIDE DEF Steps
  <2> QED OBVIOUS
<1> QED
  BY <1>1, PlanAssumption

(* A step of the plan names a declared pointer and a symbol. *)
LEMMA PlanStepType ==
  ASSUME NEW i \in DOMAIN LoadPlan
  PROVE  /\ LoadPlan[i].fn \in Pointers
         /\ LoadPlan[i].sym \in STRING
         /\ LoadPlan[i].since \in Int
         /\ LoadPlan[i].unless \in Pointers \cup {NoPointer}
<1> DEFINE Steps == [fn : Pointers, sym : STRING, since : Int,
                     unless : Pointers \cup {NoPointer}]
<1>1. LoadPlan \in Seq(Steps) => LoadPlan[i] \in Steps
  <2> HIDE DEF Steps
  <2> QED OBVIOUS
<1> QED
  BY <1>1, PlanAssumption

LEMMA SpecifiedType ==
  ASSUME NEW i \in DOMAIN SpecifiedModules PROVE SpecifiedModules[i] \in Modules
<1>1. SpecifiedModules \in Seq(Modules)
  BY ModulesAssumption
<1> QED
  BY <1>1

(* A symbol that is found has an address, in the module it was found in. *)
LEMMA ResolveType ==
  ASSUME IsSymbolTable(symbols), NEW f \in STRING
  PROVE  Resolve(f) \in Address \cup {NULL}
BY DEF IsSymbolTable, Resolve, Address

LEMMA NoSymbolsType == IsSymbolTable(NoSymbols)
BY DEF IsSymbolTable, NoSymbols

(* Adding a module's exports to the symbols keeps their type. *)
LEMMA AddExportsType ==
  ASSUME NEW s, NEW m \in Modules, IsSymbolTable(s)
  PROVE  IsSymbolTable(AddExports(s, m))
<1>1. Exports[m] \subseteq STRING
  BY ModulesAssumption
<1> QED
  BY <1>1 DEF AddExports, IsSymbolTable

LEMMA LoadInitType == LoadInit => LoadTypeOK
<1> SUFFICES ASSUME LoadInit PROVE LoadTypeOK
  OBVIOUS
<1>1. fn \in [Pointers -> Address \cup {NULL}]
  BY DEF LoadInit
<1>2. IsSymbolTable(symbols)
  BY NoSymbolsType DEF LoadInit
<1>3. loaded \in BOOLEAN
  BY Zenon DEF LoadInit
<1>4. present \subseteq Modules /\ version \in Versions /\ hLua \in Modules \cup {NoModule}
  BY DEF LoadInit, Versions
<1>5. idx \in Nat \ {0} /\ loads \in Nat
  BY DEF LoadInit
<1> QED
  BY <1>1, <1>2, <1>3, <1>4, <1>5 DEF LoadInit, LoadTypeOK

LEMMA LoaderStepType == LoadTypeOK /\ LoaderStep => LoadTypeOK'
<1> SUFFICES ASSUME LoadTypeOK, LoaderStep PROVE LoadTypeOK'
  OBVIOUS
<1>0. idx \in Nat \ {0} /\ loads \in Nat
  BY DEF LoadTypeOK
<1>1. ASSUME NEW h \in Modules, LoadFromHandle(h) PROVE LoadTypeOK'
  <2>1. IsSymbolTable(symbols')
    <3>1. symbols' = AddExports(NoSymbols, h)
      BY <1>1 DEF LoadFromHandle, Cleared
    <3>2. IsSymbolTable(AddExports(NoSymbols, h))
      BY NoSymbolsType, AddExportsType
    <3> QED
      BY <3>1, <3>2
  <2>2. hLua' \in Modules \cup {NoModule} /\ loads' \in Nat
    BY <1>0, <1>1 DEF LoadFromHandle, BeginLoad
  <2> QED
    BY <1>1, <2>1, <2>2 DEF LoadFromHandle, LoadTypeOK
<1>2. ASSUME LoadFromSpecified PROVE LoadTypeOK'
  <2>1. IsSymbolTable(symbols')
    <3>1. CASE UNCHANGED symbols
      BY <3>1 DEF LoadTypeOK
    <3>2. ASSUME NEW i \in DOMAIN SpecifiedModules,
                 symbols' = AddExports(symbols, SpecifiedModules[i])
          PROVE  IsSymbolTable(symbols')
      BY <3>2, SpecifiedType, AddExportsType DEF LoadTypeOK
    <3> QED
      BY <1>2, <3>1, <3>2 DEF LoadFromSpecified
  <2>2. hLua' \in Modules \cup {NoModule} /\ loads' \in Nat
    BY <1>0, <1>2 DEF LoadFromSpecified, BeginLoad
  <2> QED
    BY <1>2, <2>1, <2>2 DEF LoadFromSpecified, LoadTypeOK
<1>3. ASSUME LoadFromAppModules PROVE LoadTypeOK'
  <2>1. hLua' \in Modules \cup {NoModule} /\ loads' \in Nat
    <3>1. BeginLoad(NoModule)
      BY <1>3 DEF LoadFromAppModules
    <3> QED
      BY <1>0, <3>1 DEF BeginLoad
  <2> QED
    BY <1>3, <2>1 DEF LoadFromAppModules, LoadTypeOK
<1>4. ASSUME DetectVersion PROVE LoadTypeOK'
  <2>1. \A i \in DOMAIN Signatures : Signatures[i].version \in Versions
    BY DEF Signatures, Versions
  <2>2. version' \in Versions /\ idx' \in Nat \ {0}
    BY <1>4, <2>1 DEF DetectVersion
  <2> QED
    BY <1>4, <2>2 DEF DetectVersion, LoadTypeOK
<1>5. ASSUME NotLua PROVE LoadTypeOK'
  BY <1>5 DEF NotLua, LoadTypeOK
<1>6. ASSUME SkipLookup PROVE LoadTypeOK'
  <2>1. idx' \in Nat \ {0}
    BY <1>0, <1>6 DEF SkipLookup
  <2> QED
    BY <1>6, <2>1 DEF SkipLookup, LoadTypeOK
<1>7. ASSUME GetFunction PROVE LoadTypeOK'
  <2>1. idx \in DOMAIN LoadPlan
    BY <1>7 DEF GetFunction, Looking
  <2>2. fn' \in [Pointers -> Address \cup {NULL}]
    <3>1. Found(LoadPlan[idx]) \in Address \cup {NULL}
      BY <2>1, PlanStepType, ResolveType DEF Found, LoadTypeOK
    <3>2. fn \in [Pointers -> Address \cup {NULL}]
      BY DEF LoadTypeOK
    <3>3. fn' = [fn EXCEPT ![LoadPlan[idx].fn] = Found(LoadPlan[idx])]
      BY <1>7 DEF GetFunction
    <3> QED
      BY <3>1, <3>2, <3>3
  <2>3. idx' \in Nat \ {0}
    BY <1>0, <1>7 DEF GetFunction
  <2>4. loaded' \in BOOLEAN /\ pc' \in {"idle", "detect", "bind", "returned", "hook"}
    BY <1>7, Zenon DEF GetFunction, LoadTypeOK
  <2> QED
    BY <1>7, <2>2, <2>3, <2>4 DEF GetFunction, LoadTypeOK
<1>8. ASSUME FinishLoad PROVE LoadTypeOK'
  BY <1>8 DEF FinishLoad, LoadTypeOK
<1> QED
  BY <1>1, <1>2, <1>3, <1>4, <1>5, <1>6, <1>7, <1>8 DEF LoaderStep

LEMMA HostLoadsType == \A m \in Modules : LoadTypeOK /\ HostLoads(m) => LoadTypeOK'
BY DEF HostLoads, LoadTypeOK

(* The loader's state keeps its type: odbk_lua_context and the table of    *)
(* pointers, whatever is loaded how often.                                 *)
THEOREM LoadTypeCorrect == LoadSpec => []LoadTypeOK
<1>1. LoadInit => LoadTypeOK
  BY LoadInitType
<1>2. LoadTypeOK /\ [LoadNext]_loadVars => LoadTypeOK'
  <2> SUFFICES ASSUME LoadTypeOK, [LoadNext]_loadVars PROVE LoadTypeOK'
    OBVIOUS
  <2>1. CASE LoaderStep
    BY <2>1, LoaderStepType
  <2>2. ASSUME NEW m \in Modules, HostLoads(m) PROVE LoadTypeOK'
    BY <2>2, HostLoadsType
  <2>3. CASE LoadReturns
    BY <2>3 DEF LoadReturns, LoadTypeOK
  <2>4. CASE UNCHANGED loadVars
    BY <2>4 DEF loadVars, LoadTypeOK
  <2> QED
    BY <2>1, <2>2, <2>3, <2>4 DEF LoadNext
<1> QED
  BY <1>1, <1>2, PTL DEF LoadSpec

-----------------------------------------------------------------------------
(***************************************************************************)
(* Why a successful load is complete: the lookups done so far hold what is *)
(* mandatory, and by PlanOrder no later one takes it away.                 *)
(***************************************************************************)
Mandatory(i) == LoadPlan[i].since <= version

DoneSoFar ==
  pc = "bind" =>
    \A i \in DOMAIN LoadPlan : i < idx /\ Mandatory(i) => Satisfied(LoadPlan[i])

CompleteInv == LoadTypeOK /\ DoneSoFar /\ SuccessIsComplete

LEMMA GetFunctionKeeps ==
  ASSUME LoadTypeOK, GetFunction,
         NEW i \in DOMAIN LoadPlan, i < idx, Mandatory(i), Satisfied(LoadPlan[i])
  PROVE  Satisfied(LoadPlan[i])'
<1>1. idx \in DOMAIN LoadPlan
  BY DEF GetFunction, Looking
<1>2. LoadPlan[i].since <= 530
  <2>1. version \in Versions
    BY DEF LoadTypeOK
  <2>2. LoadPlan[i].since \in Int /\ LoadPlan[i].since <= version
    BY PlanStepType DEF Mandatory
  <2> QED
    BY <2>1, <2>2 DEF Versions
<1>3. LoadPlan[idx].fn \notin {LoadPlan[i].fn, LoadPlan[i].unless}
  BY <1>1, <1>2, PlanOrder
<1>4. \A p \in Pointers : p # LoadPlan[idx].fn => fn'[p] = fn[p]
  BY <1>1, PlanStepType DEF GetFunction, LoadTypeOK
<1> QED
  BY <1>3, <1>4, PlanStepType DEF Satisfied, Skipped

LEMMA GetFunctionSatisfies ==
  ASSUME LoadTypeOK, GetFunction, pc' = "bind", NEW i \in DOMAIN LoadPlan, i = idx, Mandatory(i)
  PROVE  Satisfied(LoadPlan[i])'
<1>1. idx \in DOMAIN LoadPlan /\ pc = "bind"
  BY DEF GetFunction, Looking
<1>2. ~Missed(LoadPlan[i])
  BY <1>1 DEF GetFunction
<1>3. Resolve(LoadPlan[i].sym) # NULL
  BY <1>2 DEF Missed, Mandatory
<1>4. fn'[LoadPlan[i].fn] # NULL
  BY <1>1, <1>3, PlanStepType DEF GetFunction, Found, LoadTypeOK
<1> QED
  BY <1>4 DEF Satisfied

LEMMA LoaderStepComplete == CompleteInv /\ LoaderStep => CompleteInv'
<1> SUFFICES ASSUME CompleteInv, LoaderStep PROVE DoneSoFar' /\ SuccessIsComplete'
  BY LoaderStepType DEF CompleteInv
<1> USE DEF CompleteInv
<1>1. ASSUME NEW h \in Modules, LoadFromHandle(h) PROVE DoneSoFar' /\ SuccessIsComplete'
  BY <1>1 DEF LoadFromHandle, DoneSoFar, SuccessIsComplete
<1>2. ASSUME LoadFromSpecified PROVE DoneSoFar' /\ SuccessIsComplete'
  BY <1>2 DEF LoadFromSpecified, DoneSoFar, SuccessIsComplete
<1>3. ASSUME LoadFromAppModules PROVE DoneSoFar' /\ SuccessIsComplete'
  BY <1>3 DEF LoadFromAppModules, BeginLoad, DoneSoFar, SuccessIsComplete
<1>4. ASSUME DetectVersion PROVE DoneSoFar' /\ SuccessIsComplete'
  <2>1. \A i \in DOMAIN LoadPlan : ~(i < 1)
    BY PlanDomain
  <2> QED
    BY <1>4, <2>1 DEF DetectVersion, DoneSoFar, SuccessIsComplete
<1>5. ASSUME NotLua PROVE DoneSoFar' /\ SuccessIsComplete'
  BY <1>5 DEF NotLua, DoneSoFar, SuccessIsComplete
<1>6. ASSUME SkipLookup PROVE DoneSoFar' /\ SuccessIsComplete'
  <2>1. SuccessIsComplete'
    BY <1>6 DEF SkipLookup, Looking, SuccessIsComplete
  <2>2. ASSUME NEW i \in DOMAIN LoadPlan, i < idx', Mandatory(i)'
        PROVE  Satisfied(LoadPlan[i])'
    <3>1. Mandatory(i) /\ fn' = fn /\ idx' = idx + 1 /\ pc = "bind"
      BY <1>6, <2>2 DEF SkipLookup, Looking, Mandatory
    <3>2. CASE i < idx
      BY <3>1, <3>2 DEF DoneSoFar, Satisfied, Skipped
    <3>3. CASE i = idx
      BY <1>6, <3>1, <3>3 DEF SkipLookup, Satisfied, Skipped
    <3>4. idx \in Nat /\ i \in Nat
      <4>1. idx \in Nat
        BY DEF LoadTypeOK
      <4> QED
        BY <4>1, PlanDomain
    <3>5. i < idx \/ i = idx
      BY <2>2, <3>1, <3>4
    <3> QED
      BY <3>2, <3>3, <3>5
  <2> QED
    BY <2>1, <2>2 DEF DoneSoFar
<1>7. ASSUME GetFunction PROVE DoneSoFar' /\ SuccessIsComplete'
  <2>1. SuccessIsComplete'
    BY <1>7 DEF GetFunction, Looking, SuccessIsComplete
  <2>2. ASSUME pc' = "bind", NEW i \in DOMAIN LoadPlan, i < idx', Mandatory(i)'
        PROVE  Satisfied(LoadPlan[i])'
    <3>1. Mandatory(i) /\ idx' = idx + 1 /\ pc = "bind"
      BY <1>7, <2>2 DEF GetFunction, Looking, Mandatory
    <3>2. CASE i < idx
      BY <1>7, <3>1, <3>2, GetFunctionKeeps DEF DoneSoFar
    <3>3. CASE i = idx
      BY <1>7, <2>2, <3>1, <3>3, GetFunctionSatisfies
    <3>4. idx \in Nat /\ i \in Nat
      <4>1. idx \in Nat
        BY DEF LoadTypeOK
      <4> QED
        BY <4>1, PlanDomain
    <3>5. i < idx \/ i = idx
      BY <2>2, <3>1, <3>4
    <3> QED
      BY <3>2, <3>3, <3>5
  <2> QED
    BY <2>1, <2>2 DEF DoneSoFar
<1>8. ASSUME FinishLoad PROVE DoneSoFar' /\ SuccessIsComplete'
  <2>1. idx \in Nat \ {0}
    BY DEF LoadTypeOK
  <2>2. \A i \in DOMAIN LoadPlan : i < idx
    BY <1>8, <2>1, PlanDomain DEF FinishLoad
  <2> QED
    BY <1>8, <2>2 DEF FinishLoad, DoneSoFar, SuccessIsComplete, Mandatory, Satisfied, Skipped
<1> QED
  BY <1>1, <1>2, <1>3, <1>4, <1>5, <1>6, <1>7, <1>8 DEF LoaderStep

(* odbk_load_lua says true only when every mandatory function, or what     *)
(* stands in for it, is in the table.                                      *)
THEOREM SuccessCorrect == LoadSpec => []SuccessIsComplete
<1>1. LoadInit => CompleteInv
  BY LoadInitType DEF LoadInit, CompleteInv, DoneSoFar, SuccessIsComplete
<1>2. CompleteInv /\ [LoadNext]_loadVars => CompleteInv'
  <2> SUFFICES ASSUME CompleteInv, [LoadNext]_loadVars PROVE CompleteInv'
    OBVIOUS
  <2> USE DEF CompleteInv, DoneSoFar, SuccessIsComplete, Mandatory, Satisfied, Skipped
  <2>1. CASE LoaderStep
    BY <2>1, LoaderStepComplete
  <2>2. ASSUME NEW m \in Modules, HostLoads(m) PROVE CompleteInv'
    BY <2>2, HostLoadsType DEF HostLoads
  <2>3. CASE LoadReturns
    BY <2>3 DEF LoadReturns, LoadTypeOK
  <2>4. CASE UNCHANGED loadVars
    BY <2>4 DEF loadVars, LoadTypeOK
  <2> QED
    BY <2>1, <2>2, <2>3, <2>4 DEF LoadNext
<1>3. CompleteInv => SuccessIsComplete
  BY DEF CompleteInv
<1> QED
  BY <1>1, <1>2, <1>3, PTL DEF LoadSpec

-----------------------------------------------------------------------------
(***************************************************************************)
(* Why what an earlier load left behind does not matter: every pointer the *)
(* plan tests was set by this load before (Latest, by PlanPreferred), so   *)
(* that the lookups done so far depend on the symbols alone (Judged), and  *)
(* a pointer that was passed over has a preferred one that is what the     *)
(* symbols say (Done).  A delay load has cleared the symbols, so that they *)
(* are those of its module (OwnExports); a load by name has not.           *)
(***************************************************************************)
(* Pointer p is what the current symbols say. *)
Current(p) ==
  /\ fn[p] # NULL
  /\ fn[p].sym \in DOMAIN symbols
  /\ fn[p].mod = symbols[fn[p].sym]

Latest ==
  \A j \in DOMAIN LoadPlan :
    /\ j < idx
    /\ LoadPlan[j].unless = NoPointer
    /\ \A k \in DOMAIN LoadPlan : k > j /\ k < idx => LoadPlan[k].fn # LoadPlan[j].fn
    => fn[LoadPlan[j].fn] = Resolve(LoadPlan[j].sym)

Shadowed(p) ==
  \/ fn[p] = NULL
  \/ Current(p)
  \/ \E i \in DOMAIN LoadPlan :
       i < idx /\ LoadPlan[i].fn = p /\ LoadPlan[i].unless # NoPointer /\ Current(LoadPlan[i].unless)

Done == \A i \in DOMAIN LoadPlan : i < idx => Shadowed(LoadPlan[i].fn)

Unplanned == \A p \in Pointers : (\A i \in DOMAIN LoadPlan : LoadPlan[i].fn # p) => fn[p] = NULL

OwnExports ==
  pc \in {"detect", "bind", "returned"} /\ hLua # NoModule =>
    DOMAIN symbols = Exports[hLua] /\ \A f \in DOMAIN symbols : symbols[f] = hLua

Recognised(m) ==
  \E i \in DOMAIN Signatures :
    /\ Signatures[i].sym \in Exports[m]
    /\ \A j \in 1 .. i - 1 : Signatures[j].sym \notin Exports[m]
    /\ version = Signatures[i].version

Provided(m, step) == step.sym \in Exports[m] \/ step.unless \in Exports[m] \ {NoPointer}

Judged ==
  hLua # NoModule =>
    /\ Recognised(hLua)
    /\ \A i \in DOMAIN LoadPlan : i < idx /\ Mandatory(i) => Provided(hLua, LoadPlan[i])

AllShadowed ==
  pc = "returned" /\ loaded =>
    \A p \in Pointers :
      \/ fn[p] = NULL
      \/ Current(p)
      \/ \E i \in DOMAIN LoadPlan : /\ LoadPlan[i].fn = p
                                   /\ LoadPlan[i].unless # NoPointer
                                   /\ Current(LoadPlan[i].unless)

HistoryInv ==
  /\ LoadTypeOK
  /\ Unplanned
  /\ OwnExports
  /\ pc = "bind" => Latest /\ Done /\ Judged
  /\ AllShadowed
  /\ OutcomeHistoryFree

(* The signature that comes first decides, as VersionOf says. *)
LEMMA RecognisedVersion ==
  ASSUME NEW m, Recognised(m)
  PROVE  version = VersionOf(m) /\ \E i \in DOMAIN Signatures : Signatures[i].sym \in Exports[m]
<1>1. PICK i \in DOMAIN Signatures :
         /\ Signatures[i].sym \in Exports[m]
         /\ \A j \in 1 .. i - 1 : Signatures[j].sym \notin Exports[m]
         /\ version = Signatures[i].version
  BY DEF Recognised
<1>2. i \in 1 .. 4
  BY DEF Signatures
<1>3. /\ Signatures[1].sym = "lua_open" /\ Signatures[1].version = 500
      /\ Signatures[2].sym = "lua_rotate" /\ Signatures[2].version = 530
      /\ Signatures[3].sym = "lua_callk" /\ Signatures[3].version = 520
      /\ Signatures[4].sym = "lua_gettop" /\ Signatures[4].version = 510
  BY DEF Signatures
<1>4. CASE i = 1
  BY <1>1, <1>3, <1>4 DEF VersionOf
<1>5. CASE i = 2
  <2>1. 1 \in 1 .. i - 1
    BY <1>5
  <2> QED
    BY <1>1, <1>3, <1>5, <2>1 DEF VersionOf
<1>6. CASE i = 3
  <2>1. 1 \in 1 .. i - 1 /\ 2 \in 1 .. i - 1
    BY <1>6
  <2> QED
    BY <1>1, <1>3, <1>6, <2>1 DEF VersionOf
<1>7. CASE i = 4
  <2>1. 1 \in 1 .. i - 1 /\ 2 \in 1 .. i - 1 /\ 3 \in 1 .. i - 1
    BY <1>7
  <2> QED
    BY <1>1, <1>3, <1>7, <2>1 DEF VersionOf
<1> QED
  BY <1>1, <1>2, <1>4, <1>5, <1>6, <1>7

(* A symbol that is found makes a pointer current, and only such a one. *)
LEMMA ResolveFound ==
  ASSUME IsSymbolTable(symbols), NEW f \in STRING
  PROVE  /\ Resolve(f) # NULL <=> f \in DOMAIN symbols
         /\ Resolve(f) # NULL => Resolve(f).sym = f /\ Resolve(f).mod = symbols[f]
<1>1. f \in DOMAIN symbols => [mod |-> symbols[f], sym |-> f, depth |-> 0] \in Address
  BY DEF IsSymbolTable, Address
<1> QED
  BY <1>1, NullAssumption DEF Resolve

(* What a test of the plan reads was looked up by this load. *)
LEMMA PreferredLookup ==
  ASSUME LoadTypeOK, Latest, idx \in DOMAIN LoadPlan, LoadPlan[idx].unless # NoPointer
  PROVE  /\ LoadPlan[idx].unless \in STRING
         /\ fn[LoadPlan[idx].unless] = Resolve(LoadPlan[idx].unless)
<1>1. PICK j \in DOMAIN LoadPlan :
         /\ j < idx
         /\ LoadPlan[j].fn = LoadPlan[idx].unless
         /\ LoadPlan[j].sym = LoadPlan[idx].unless
         /\ LoadPlan[j].unless = NoPointer
         /\ \A k \in DOMAIN LoadPlan : k > j /\ LoadPlan[k].fn = LoadPlan[idx].unless => k = idx
  BY PlanPreferred
<1>2. \A k \in DOMAIN LoadPlan : k > j /\ k < idx => LoadPlan[k].fn # LoadPlan[j].fn
  <2>1. \A k \in DOMAIN LoadPlan : k < idx => k # idx
    BY PlanDomain
  <2> QED
    BY <1>1, <2>1
<1> QED
  BY <1>1, <1>2, PlanStepType DEF Latest

LEMMA SkippedPreferred ==
  ASSUME LoadTypeOK, Latest, idx \in DOMAIN LoadPlan, Skipped(LoadPlan[idx])
  PROVE  /\ LoadPlan[idx].unless # NoPointer
         /\ LoadPlan[idx].unless \in DOMAIN symbols
         /\ Current(LoadPlan[idx].unless)
<1>1. LoadPlan[idx].unless # NoPointer /\ fn[LoadPlan[idx].unless] # NULL
  BY DEF Skipped
<1>2. /\ LoadPlan[idx].unless \in STRING
      /\ fn[LoadPlan[idx].unless] = Resolve(LoadPlan[idx].unless)
  BY <1>1, PreferredLookup
<1>3. IsSymbolTable(symbols)
  BY DEF LoadTypeOK
<1>4. Resolve(LoadPlan[idx].unless) # NULL
  BY <1>1, <1>2
<1>5. /\ LoadPlan[idx].unless \in DOMAIN symbols
      /\ Resolve(LoadPlan[idx].unless).sym = LoadPlan[idx].unless
      /\ Resolve(LoadPlan[idx].unless).mod = symbols[LoadPlan[idx].unless]
  BY <1>2, <1>3, <1>4, ResolveFound
<1> QED
  BY <1>1, <1>2, <1>5 DEF Current

LEMMA BeforeNext ==
  ASSUME LoadTypeOK, idx' = idx + 1, NEW i \in DOMAIN LoadPlan
  PROVE  i < idx' <=> i < idx \/ i = idx
<1>1. idx \in Nat
  BY DEF LoadTypeOK
<1>2. i \in Nat
  BY PlanDomain
<1> QED
  BY <1>1, <1>2

LEMMA SkipLookupHistory ==
  ASSUME HistoryInv, SkipLookup
  PROVE  HistoryInv'
<1>1. /\ idx \in DOMAIN LoadPlan /\ pc = "bind" /\ Skipped(LoadPlan[idx]) /\ idx' = idx + 1
      /\ UNCHANGED <<present, symbols, version, fn, hLua, loaded, loads, pc, fault>>
  BY DEF SkipLookup, Looking
<1>2. LoadTypeOK /\ Latest /\ Done /\ Judged
  BY <1>1 DEF HistoryInv
<1>3. /\ LoadPlan[idx].unless # NoPointer
      /\ LoadPlan[idx].unless \in DOMAIN symbols
      /\ Current(LoadPlan[idx].unless)
  BY <1>1, <1>2, SkippedPreferred
<1>4. LoadTypeOK'
  BY <1>2, LoaderStepType DEF LoaderStep
<1>5. \A i \in DOMAIN LoadPlan : i < idx' <=> i < idx \/ i = idx
  BY <1>1, <1>2, BeforeNext
<1>6. Latest'
  BY <1>1, <1>2, <1>3, <1>5 DEF Latest, Resolve
<1>7. Done'
  <2> SUFFICES ASSUME NEW i \in DOMAIN LoadPlan, i < idx' PROVE Shadowed(LoadPlan[i].fn)'
    BY DEF Done
  <2>1. CASE i < idx
    BY <1>1, <1>2, <1>5, <2>1 DEF Done, Shadowed, Current
  <2>2. CASE i = idx
    BY <1>1, <1>3, <1>5, <2>2 DEF Shadowed, Current
  <2> QED
    BY <1>5, <2>1, <2>2
<1>8. Judged'
  <2> SUFFICES ASSUME hLua # NoModule PROVE Judged'
    BY <1>1 DEF Judged
  <2>1. DOMAIN symbols = Exports[hLua]
    BY <1>1 DEF HistoryInv, OwnExports
  <2>2. Provided(hLua, LoadPlan[idx])
    BY <1>3, <2>1 DEF Provided
  <2> QED
    BY <1>1, <1>2, <1>5, <2>2 DEF Judged, Recognised, Mandatory
<1>9. Unplanned' /\ OwnExports'
  BY <1>1 DEF HistoryInv, Unplanned, OwnExports
<1> QED
  BY <1>1, <1>4, <1>6, <1>7, <1>8, <1>9
     DEF HistoryInv, AllShadowed, OutcomeHistoryFree

(* The pointers after a lookup. *)
LEMMA GetFunctionEffect ==
  ASSUME LoadTypeOK, GetFunction, NEW q, q = LoadPlan[idx].fn
  PROVE  /\ ~Skipped(LoadPlan[idx])
         /\ fn'[q] = Resolve(LoadPlan[idx].sym)
         /\ \A p \in Pointers : p # q => fn'[p] = fn[p]
         /\ UNCHANGED <<symbols, version, hLua>>
         /\ (Resolve(LoadPlan[idx].sym) # NULL <=> LoadPlan[idx].sym \in DOMAIN symbols)
         /\ Current(q)' \/ fn'[q] = NULL
<1>1. idx \in DOMAIN LoadPlan /\ pc = "bind" /\ ~Skipped(LoadPlan[idx])
  BY DEF GetFunction, Looking
<1>2. LoadPlan[idx].fn \in Pointers /\ LoadPlan[idx].sym \in STRING
  BY <1>1, PlanStepType
<1>3. /\ fn'[q] = Resolve(LoadPlan[idx].sym)
      /\ \A p \in Pointers : p # q => fn'[p] = fn[p]
      /\ UNCHANGED <<symbols, version, hLua>>
  BY <1>2 DEF GetFunction, Found, LoadTypeOK
<1>4. /\ (Resolve(LoadPlan[idx].sym) # NULL <=> LoadPlan[idx].sym \in DOMAIN symbols)
      /\ Resolve(LoadPlan[idx].sym) # NULL =>
           /\ Resolve(LoadPlan[idx].sym).sym = LoadPlan[idx].sym
           /\ Resolve(LoadPlan[idx].sym).mod = symbols[LoadPlan[idx].sym]
  BY <1>2, ResolveFound DEF LoadTypeOK
<1> QED
  BY <1>1, <1>3, <1>4 DEF Current

LEMMA GetFunctionHistory ==
  ASSUME HistoryInv, GetFunction
  PROVE  HistoryInv'
<1>0. PICK q : q = LoadPlan[idx].fn
  OBVIOUS
<1>1. LoadTypeOK /\ pc = "bind" /\ idx \in DOMAIN LoadPlan /\ Latest /\ Done /\ Judged
  BY DEF HistoryInv, GetFunction, Looking
<1>2. /\ ~Skipped(LoadPlan[idx])
      /\ fn'[q] = Resolve(LoadPlan[idx].sym)
      /\ \A p \in Pointers : p # q => fn'[p] = fn[p]
      /\ UNCHANGED <<symbols, version, hLua>>
      /\ (Resolve(LoadPlan[idx].sym) # NULL <=> LoadPlan[idx].sym \in DOMAIN symbols)
      /\ Current(q)' \/ fn'[q] = NULL
  BY <1>0, <1>1, GetFunctionEffect
<1>3. LoadTypeOK'
  BY <1>1, LoaderStepType DEF LoaderStep
<1>4. q \in Pointers
  BY <1>0, <1>1, PlanStepType
<1>5. Unplanned'
  BY <1>0, <1>1, <1>2 DEF HistoryInv, Unplanned
<1>6. OwnExports'
  BY <1>1, <1>2 DEF HistoryInv, OwnExports
<1>7. \/ pc' = "returned" /\ loaded' = FALSE /\ Missed(LoadPlan[idx])
      \/ pc' = "bind" /\ idx' = idx + 1 /\ ~Missed(LoadPlan[idx])
  BY <1>1 DEF GetFunction
<1>8. CASE pc' = "returned" /\ loaded' = FALSE /\ Missed(LoadPlan[idx])
  <2>1. ASSUME hLua' # NoModule PROVE ~Loadable(hLua')
    <3>1. DOMAIN symbols = Exports[hLua] /\ version = VersionOf(hLua)
      BY <1>1, <1>2, <2>1, RecognisedVersion DEF HistoryInv, OwnExports, Judged
    <3>2. /\ LoadPlan[idx].sym \notin Exports[hLua]
          /\ LoadPlan[idx].since <= VersionOf(hLua)
      <4>1. LoadPlan[idx].since \in Int
        BY <1>1, PlanStepType
      <4>2. version \in {500, 510, 520, 530}
        BY <1>1, ZenonT(30) DEF LoadTypeOK, Versions
      <4>3. version >= LoadPlan[idx].since /\ Resolve(LoadPlan[idx].sym) = NULL
        BY <1>8 DEF Missed
      <4>4. LoadPlan[idx].since <= version
        BY <4>1, <4>2, <4>3
      <4> QED
        BY <1>2, <3>1, <4>3, <4>4
    <3>3. LoadPlan[idx].unless \notin Exports[hLua] \ {NoPointer}
      <4> SUFFICES ASSUME LoadPlan[idx].unless # NoPointer
                   PROVE  LoadPlan[idx].unless \notin Exports[hLua]
        OBVIOUS
      <4>1. /\ LoadPlan[idx].unless \in STRING
            /\ fn[LoadPlan[idx].unless] = Resolve(LoadPlan[idx].unless)
        BY <1>1, PreferredLookup
      <4>2. Resolve(LoadPlan[idx].unless) = NULL
        BY <1>2, <4>1 DEF Skipped
      <4> QED
        BY <1>1, <3>1, <4>1, <4>2, ResolveFound DEF LoadTypeOK
    <3> QED
      BY <1>1, <1>2, <3>2, <3>3 DEF Loadable
  <2> QED
    BY <1>3, <1>5, <1>6, <1>8, <2>1
       DEF HistoryInv, AllShadowed, OutcomeHistoryFree
<1>9. CASE pc' = "bind" /\ idx' = idx + 1 /\ ~Missed(LoadPlan[idx])
  <2>1. \A i \in DOMAIN LoadPlan : i < idx' <=> i < idx \/ i = idx
    BY <1>1, <1>9, BeforeNext
  <2>2. \A i \in DOMAIN LoadPlan : i < idx => i # idx /\ idx > i
    BY PlanDomain, <1>1
  <2>3. Latest'
    <3> SUFFICES ASSUME NEW j \in DOMAIN LoadPlan, j < idx', LoadPlan[j].unless = NoPointer,
                        \A k \in DOMAIN LoadPlan :
                           k > j /\ k < idx' => LoadPlan[k].fn # LoadPlan[j].fn
                 PROVE  fn'[LoadPlan[j].fn] = Resolve(LoadPlan[j].sym)
      BY <1>2 DEF Latest, Resolve
    <3>1. CASE j = idx
      BY <1>0, <1>2, <3>1
    <3>2. CASE j < idx
      <4>1. LoadPlan[j].fn # q /\ LoadPlan[j].fn \in Pointers
        BY <1>0, <1>1, <2>1, <2>2, <3>2, PlanStepType
      <4>2. fn[LoadPlan[j].fn] = Resolve(LoadPlan[j].sym)
        BY <1>1, <2>1, <3>2 DEF Latest
      <4> QED
        BY <1>2, <4>1, <4>2
    <3> QED
      BY <2>1, <3>1, <3>2
  <2>4. Done'
    <3> SUFFICES ASSUME NEW i \in DOMAIN LoadPlan, i < idx' PROVE Shadowed(LoadPlan[i].fn)'
      BY DEF Done
    <3> DEFINE p == LoadPlan[i].fn
    <3>1. CASE p = q
      BY <1>2, <3>1 DEF Shadowed
    <3>2. CASE p # q
      <4>1. i < idx /\ p \in Pointers /\ fn'[p] = fn[p]
        BY <1>0, <1>2, <2>1, <3>2, PlanStepType
      <4>2. CASE fn[p] = NULL
        BY <4>1, <4>2 DEF Shadowed
      <4>3. CASE Current(p)
        BY <1>2, <4>1, <4>3 DEF Shadowed, Current
      <4>4. ASSUME NEW h \in DOMAIN LoadPlan, h < idx, LoadPlan[h].fn = p,
                   LoadPlan[h].unless # NoPointer, Current(LoadPlan[h].unless)
            PROVE  Shadowed(p)'
        <5>1. LoadPlan[h].unless # q
          <6>1. PICK j \in DOMAIN LoadPlan :
                   /\ j < h
                   /\ \A k \in DOMAIN LoadPlan :
                        k > j /\ LoadPlan[k].fn = LoadPlan[h].unless => k = h
            BY <4>4, PlanPreferred
          <6>2. idx > j
            BY <1>1, <4>4, <6>1, PlanDomain
          <6> QED
            BY <1>0, <1>1, <2>2, <4>4, <6>1, <6>2
        <5>2. LoadPlan[h].unless \in Pointers
          BY <4>4, PlanStepType
        <5>3. Current(LoadPlan[h].unless)'
          BY <1>2, <4>4, <5>1, <5>2 DEF Current
        <5> QED
          BY <2>1, <4>4, <5>3 DEF Shadowed
      <4> QED
        BY <1>1, <4>1, <4>2, <4>3, <4>4 DEF Done, Shadowed
    <3> QED
      BY <3>1, <3>2
  <2>5. Judged'
    <3> SUFFICES ASSUME hLua # NoModule PROVE Judged'
      BY <1>2 DEF Judged
    <3>1. DOMAIN symbols = Exports[hLua]
      BY <1>1 DEF HistoryInv, OwnExports
    <3>2. Mandatory(idx) => Provided(hLua, LoadPlan[idx])
      BY <1>2, <1>9, <3>1 DEF Mandatory, Missed, Provided
    <3> QED
      BY <1>1, <1>2, <2>1, <3>2 DEF Judged, Recognised, Mandatory
  <2> QED
    BY <1>3, <1>5, <1>6, <1>9, <2>3, <2>4, <2>5
       DEF HistoryInv, AllShadowed, OutcomeHistoryFree
<1> QED
  BY <1>7, <1>8, <1>9

LEMMA FinishLoadHistory ==
  ASSUME HistoryInv, FinishLoad
  PROVE  HistoryInv'
<1>1. /\ pc = "bind" /\ idx \notin DOMAIN LoadPlan /\ loaded' = TRUE /\ pc' = "returned"
      /\ UNCHANGED <<present, symbols, version, fn, hLua, idx, loads, fault>>
  BY DEF FinishLoad
<1>2. LoadTypeOK /\ Latest /\ Done /\ Judged /\ Unplanned
  BY <1>1 DEF HistoryInv
<1>3. \A i \in DOMAIN LoadPlan : i < idx
  <2>1. idx \in Nat \ {0}
    BY <1>2 DEF LoadTypeOK
  <2> QED
    BY <1>1, <2>1, PlanDomain
<1>4. LoadTypeOK' /\ Unplanned' /\ OwnExports'
  BY <1>1, <1>2, LoaderStepType DEF LoaderStep, HistoryInv, Unplanned, OwnExports
<1>5. AllShadowed'
  <2> SUFFICES ASSUME NEW p \in Pointers, fn[p] # NULL
               PROVE  \/ Current(p)
                      \/ \E i \in DOMAIN LoadPlan : /\ LoadPlan[i].fn = p
                                                    /\ LoadPlan[i].unless # NoPointer
                                                    /\ Current(LoadPlan[i].unless)
    BY <1>1 DEF AllShadowed, Current
  <2>1. PICK i \in DOMAIN LoadPlan : LoadPlan[i].fn = p
    BY <1>2 DEF Unplanned
  <2>2. Shadowed(p)
    BY <1>2, <1>3, <2>1 DEF Done
  <2> QED
    BY <2>2 DEF Shadowed
<1>6. OutcomeHistoryFree'
  <2> SUFFICES ASSUME hLua # NoModule PROVE Loadable(hLua)
    BY <1>1 DEF OutcomeHistoryFree, Loadable, VersionOf
  <2>1. Recognised(hLua) /\ version = VersionOf(hLua)
    BY <1>2, RecognisedVersion DEF Judged
  <2> QED
    BY <1>2, <1>3, <2>1, RecognisedVersion DEF Judged, Loadable, Mandatory, Provided
<1> QED
  BY <1>1, <1>4, <1>5, <1>6 DEF HistoryInv

LEMMA BeginHistory ==
  ASSUME HistoryInv,
         \/ \E h \in Modules : LoadFromHandle(h)
         \/ LoadFromSpecified
         \/ LoadFromAppModules
  PROVE  HistoryInv'
<1>1. LoadTypeOK' /\ fn' = fn
  BY LoaderStepType
     DEF LoaderStep, HistoryInv, LoadFromHandle, LoadFromSpecified, LoadFromAppModules
<1>2. pc' \in {"idle", "detect"}
  BY DEF LoadFromHandle, LoadFromSpecified, LoadFromAppModules, BeginLoad
<1>3. OwnExports'
  <2>1. ASSUME NEW h \in Modules, LoadFromHandle(h) PROVE OwnExports'
    BY <2>1 DEF LoadFromHandle, BeginLoad, OwnExports, AddExports, Cleared, NoSymbols
  <2>2. CASE LoadFromSpecified \/ LoadFromAppModules
    BY <2>2 DEF LoadFromSpecified, LoadFromAppModules, BeginLoad, OwnExports
  <2> QED
    BY <2>1, <2>2
<1> QED
  BY <1>1, <1>2, <1>3
     DEF HistoryInv, Unplanned, AllShadowed, OutcomeHistoryFree

LEMMA DetectHistory ==
  ASSUME HistoryInv, DetectVersion
  PROVE  HistoryInv'
<1>1. /\ pc = "detect" /\ pc' = "bind" /\ idx' = 1
      /\ UNCHANGED <<present, symbols, fn, hLua, loaded, loads, fault>>
  BY DEF DetectVersion
<1>2. PICK i \in DOMAIN Signatures :
        /\ Signatures[i].sym \in DOMAIN symbols
        /\ \A j \in 1 .. i - 1 : Signatures[j].sym \notin DOMAIN symbols
        /\ version' = Signatures[i].version
  BY DEF DetectVersion
<1>3. \A k \in DOMAIN LoadPlan : ~(k < idx')
  BY <1>1, PlanDomain
<1>4. hLua # NoModule => Recognised(hLua)'
  BY <1>1, <1>2 DEF HistoryInv, OwnExports, Recognised
<1>5. Latest' /\ Done' /\ Judged'
  BY <1>1, <1>3, <1>4 DEF Latest, Done, Judged
<1>6. LoadTypeOK' /\ Unplanned' /\ OwnExports'
  BY <1>1, LoaderStepType DEF LoaderStep, HistoryInv, Unplanned, OwnExports
<1> QED
  BY <1>1, <1>5, <1>6 DEF HistoryInv, AllShadowed, OutcomeHistoryFree

LEMMA NotLuaHistory ==
  ASSUME HistoryInv, NotLua
  PROVE  HistoryInv'
<1>1. /\ pc = "detect" /\ pc' = "returned" /\ loaded' = FALSE
      /\ UNCHANGED <<symbols, fn, hLua>>
      /\ \A i \in DOMAIN Signatures : Signatures[i].sym \notin DOMAIN symbols
  BY DEF NotLua
<1>2. LoadTypeOK' /\ Unplanned' /\ OwnExports'
  BY <1>1, LoaderStepType DEF LoaderStep, HistoryInv, Unplanned, OwnExports
<1>3. hLua # NoModule => ~Loadable(hLua)
  BY <1>1 DEF HistoryInv, OwnExports, Loadable
<1> QED
  BY <1>1, <1>2, <1>3 DEF HistoryInv, AllShadowed, OutcomeHistoryFree

LEMMA HistoryCorrect == LoadSpec => []HistoryInv
<1>1. LoadInit => HistoryInv
  BY LoadInitType
     DEF LoadInit, HistoryInv, Unplanned, OwnExports, AllShadowed, OutcomeHistoryFree
<1>2. HistoryInv /\ [LoadNext]_loadVars => HistoryInv'
  <2> SUFFICES ASSUME HistoryInv, [LoadNext]_loadVars PROVE HistoryInv'
    OBVIOUS
  <2>1. CASE LoaderStep
    BY <2>1, SkipLookupHistory, GetFunctionHistory, FinishLoadHistory, BeginHistory,
       DetectHistory, NotLuaHistory DEF LoaderStep
  <2>2. ASSUME LoadTypeOK', UNCHANGED <<symbols, version, fn, hLua, loaded, idx, pc>>
        PROVE  HistoryInv'
    BY <2>2 DEF HistoryInv, Unplanned, OwnExports, Latest, Resolve, Done, Shadowed, Current,
         Judged, Recognised, Mandatory, AllShadowed, OutcomeHistoryFree
  <2>3. ASSUME NEW m \in Modules, HostLoads(m) PROVE HistoryInv'
    BY <2>2, <2>3, HostLoadsType DEF HostLoads, HistoryInv
  <2>4. CASE UNCHANGED loadVars
    BY <2>2, <2>4 DEF loadVars, HistoryInv, LoadTypeOK
  <2>5. CASE LoadReturns
    <3>1. LoadTypeOK'
      BY <2>5 DEF LoadReturns, HistoryInv, LoadTypeOK
    <3> QED
      BY <2>5, <3>1 DEF LoadReturns, HistoryInv, Unplanned, OwnExports,
                        AllShadowed, OutcomeHistoryFree
  <2> QED
    BY <2>1, <2>3, <2>4, <2>5 DEF LoadNext
<1> QED
  BY <1>1, <1>2, PTL DEF LoadSpec

(* What a delay load comes to depends on the exports of its module alone   *)
(* (the fallback tests of odbk_lua_finish_load read pointers an earlier    *)
(* load may have left).  It says nothing of a load by name.                *)
THEOREM HistoryFreeCorrect == LoadSpec => []OutcomeHistoryFree
<1>1. HistoryInv => OutcomeHistoryFree
  BY DEF HistoryInv
<1> QED
  BY <1>1, HistoryCorrect, PTL

(* After a delay load that succeeds, a pointer into another engine has a   *)
(* preferred one next to it that is in the engine just loaded.             *)
THEOREM StaleCorrect == LoadSpec => []StalePointersShadowed
<1>1. HistoryInv => StalePointersShadowed
  <2> SUFFICES ASSUME HistoryInv, pc = "returned", hLua # NoModule,
                      NEW p, Current(p)
               PROVE  PointsInto(p, hLua)
    BY DEF HistoryInv, AllShadowed, StalePointersShadowed
  <2> QED
    BY DEF HistoryInv, OwnExports, Current, PointsInto
<1> QED
  BY <1>1, HistoryCorrect, PTL
=============================================================================
