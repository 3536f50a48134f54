---------------------------- MODULE SymWalk_proof ----------------------------
(***************************************************************************)
(* What holds of the symbol walk for every set of modules and every graph  *)
(* of imports.                                                             *)
(***************************************************************************)
EXTENDS SymWalk, SequenceTheorems, FiniteSetTheorems, TLAPS

Calls == Seq(Frame)

(* Outside a walk nothing is held; a walk holds the loader lock. *)
Phases ==
  /\ pc \in {"idle", "locked"} => snapshot = {} /\ calls = <<>>
  /\ pc \in {"locked", "walk"} => lock
  /\ pc = "locked" => loadedModules = {}

Counts ==
  \A m \in Modules :
    /\ visits[m] = IF m \in loadedModules THEN 1 ELSE 0
    /\ checks[m] <= visits[m]

(* What is in the process was searched, or is still to come. *)
Covered ==
  pc = "walk" =>
    /\ loadedModules \subseteq inProcess \ {Debugger}
    /\ inProcess \subseteq loadedModules \cup snapshot \cup {Debugger}

KeyKnown == keyModule # NoModule <=> DOMAIN symbols # {}

WalkInv ==
  WalkTypeOK /\ Phases /\ HandlesValid /\ Counts /\ Covered /\ KeyKnown /\ KeyIsOwner

LEMMA WalkInit == Init => WalkInv
<1> SUFFICES ASSUME Init PROVE WalkInv
  OBVIOUS
<1>1. calls \in Calls /\ DOMAIN calls = {}
  BY EmptySeq DEF Init, Calls
<1>2. visits \in [Modules -> Nat] /\ checks \in [Modules -> Nat]
  BY DEF Init, Never
<1>3. DOMAIN symbols = {}
  BY DEF Init, NoSymbols
<1>4. lock \in BOOLEAN
  BY Zenon DEF Init
<1>5. walks \in Nat
  BY DEF Init
<1>6. WalkTypeOK
  BY <1>1, <1>2, <1>3, <1>4, <1>5 DEF Init, WalkTypeOK, Calls
<1>7. Counts
  BY DEF Init, Never, Counts
<1> QED
  BY <1>1, <1>3, <1>6, <1>7
     DEF Init, WalkInv, Phases, HandlesValid, Covered, KeyKnown, KeyIsOwner

(* One more call, of a module that is in the process. *)
LEMMA PushCall ==
  ASSUME NEW s \in Calls, NEW frame \in Frame, NEW longer, longer = Append(s, frame)
  PROVE  /\ longer \in Calls
         /\ \A i \in DOMAIN longer : longer[i] = frame \/ (i \in DOMAIN s /\ longer[i] = s[i])
<1>1. /\ longer \in Seq(Frame)
      /\ Len(longer) = Len(s) + 1
      /\ \A i \in 1 .. Len(s) : longer[i] = s[i]
      /\ longer[Len(s) + 1] = frame
  BY AppendProperties DEF Calls
<1>2. Len(s) \in Nat /\ DOMAIN s = 1 .. Len(s) /\ DOMAIN longer = 1 .. Len(s) + 1
  BY <1>1, LenProperties DEF Calls
<1>3. \A i \in 1 .. Len(s) + 1 : i \in 1 .. Len(s) \/ i = Len(s) + 1
  BY <1>2
<1> HIDE DEF Calls
<1> QED
  BY <1>1, <1>2, <1>3 DEF Calls

(* What every call of load_sym_from_module keeps, on whatever callers. *)
LEMMA LoadSymbolsInv ==
  ASSUME WalkInv, pc = "walk", NEW m \in inProcess, NEW callers \in Calls,
         LoadSymbols(m, callers),
         \A i \in DOMAIN callers :
            callers[i].mod \in inProcess /\ callers[i].imports \subseteq inProcess
  PROVE  /\ calls' \in Calls
         /\ \A i \in DOMAIN calls' :
              calls'[i].mod \in inProcess /\ calls'[i].imports \subseteq inProcess
         /\ loadedModules' = loadedModules \cup ({m} \ {Debugger})
         /\ warnedModules' \subseteq {Buffer}
         /\ visits' \in [Modules -> Nat] /\ checks' \in [Modules -> Nat]
         /\ Counts'
<1>0. WalkTypeOK /\ Counts /\ m \in Modules
  BY DEF WalkInv, WalkTypeOK
<1>1. CASE Passed(m)
  <2>1. calls' = callers /\ UNCHANGED <<loadedModules, warnedModules, visits, checks>>
    BY <1>1 DEF LoadSymbols
  <2>2. loadedModules = loadedModules \cup ({m} \ {Debugger})
    BY <1>1 DEF Passed
  <2> QED
    BY <1>0, <2>1, <2>2 DEF WalkTypeOK, Counts
<1>2. CASE ~Passed(m)
  <2> DEFINE frame == [mod |-> m, imports |-> ImportsPresent(m)]
  <2>1. /\ loadedModules' = loadedModules \cup {m}
        /\ visits' = [visits EXCEPT ![m] = @ + 1]
        /\ \E kind \in Kinds : CheckSymbolFile(m, kind)
        /\ calls' = callers \/ calls' = Append(callers, frame)
    BY <1>2 DEF LoadSymbols
  <2>2. frame \in Frame /\ frame.mod \in inProcess /\ frame.imports \subseteq inProcess
    BY <1>0, WalkAssumption DEF ImportsPresent, Frame, WalkTypeOK
  <2>3. /\ calls' \in Calls
        /\ \A i \in DOMAIN calls' :
              calls'[i].mod \in inProcess /\ calls'[i].imports \subseteq inProcess
    <3> HIDE DEF frame
    <3>1. CASE calls' = callers
      BY <3>1
    <3>2. CASE calls' = Append(callers, frame)
      <4>1. PICK longer : longer = Append(callers, frame)
        OBVIOUS
      <4>2. /\ longer \in Calls
            /\ \A i \in DOMAIN longer :
                 longer[i] = frame \/ (i \in DOMAIN callers /\ longer[i] = callers[i])
        BY <2>2, <4>1, PushCall, ZenonT(30)
      <4>3. \A i \in DOMAIN longer :
               longer[i].mod \in inProcess /\ longer[i].imports \subseteq inProcess
        BY <2>2, <4>2
      <4> QED
        BY <3>2, <4>1, <4>2, <4>3
    <3> QED
      BY <2>1, <3>1, <3>2
  <2>4. m # Debugger /\ m \notin loadedModules
    BY <1>2 DEF Passed
  <2>5. visits' \in [Modules -> Nat]
    BY <1>0, <2>1 DEF WalkTypeOK
  <2>6. /\ warnedModules' \subseteq {Buffer}
        /\ checks' = [checks EXCEPT ![m] = @ + 1] \/ checks' = checks
    BY <1>0, <2>1 DEF CheckSymbolFile, WalkTypeOK
  <2>7. checks' \in [Modules -> Nat]
    BY <1>0, <2>6 DEF WalkTypeOK
  <2>8. Counts'
    <3> SUFFICES ASSUME NEW n \in Modules
                 PROVE  /\ visits'[n] = IF n \in loadedModules' THEN 1 ELSE 0
                        /\ checks'[n] <= visits'[n]
      BY DEF Counts
    <3>1. /\ visits[n] = IF n \in loadedModules THEN 1 ELSE 0
          /\ checks[n] <= visits[n] /\ checks[n] \in Nat
      BY <1>0 DEF Counts, WalkTypeOK
    <3>2. CASE n = m
      <4>1. visits'[n] = visits[n] + 1 /\ (checks'[n] = checks[n] + 1 \/ checks'[n] = checks[n])
        BY <1>0, <2>1, <2>6, <3>2 DEF WalkTypeOK
      <4> QED
        BY <2>1, <2>4, <3>1, <3>2, <4>1
    <3>3. CASE n # m
      <4>1. visits'[n] = visits[n] /\ checks'[n] = checks[n]
        BY <1>0, <2>1, <2>6, <3>3 DEF WalkTypeOK
      <4> QED
        BY <2>1, <3>1, <3>3, <4>1
    <3> QED
      BY <3>2, <3>3
  <2> QED
    BY <2>1, <2>3, <2>4, <2>5, <2>6, <2>7, <2>8
<1> QED
  BY <1>1, <1>2

(* The symbols and the key module after such a call. *)
LEMMA LoadSymbolsOwners ==
  ASSUME WalkInv, NEW m \in Modules, NEW callers, LoadSymbols(m, callers)
  PROVE  /\ DOMAIN symbols' \subseteq Restricts
         /\ \A f \in DOMAIN symbols' : symbols'[f] \in Modules
         /\ \A f \in DOMAIN symbols : f \in DOMAIN symbols' /\ symbols'[f] = symbols[f]
         /\ keyModule' \in Modules \cup {NoModule}
         /\ KeyKnown' /\ KeyIsOwner'
<1>0. /\ DOMAIN symbols \subseteq Restricts
      /\ \A f \in DOMAIN symbols : symbols[f] \in Modules
      /\ keyModule \in Modules \cup {NoModule}
      /\ KeyKnown /\ KeyIsOwner
  BY DEF WalkInv, WalkTypeOK
<1>1. CASE UNCHANGED <<symbols, keyModule>>
  BY <1>0, <1>1 DEF KeyKnown, KeyIsOwner
<1>2. CASE /\ symbols' = symbols \/ symbols' = SymbolsGathered(m)
           /\ DOMAIN symbols' # DOMAIN symbols
           /\ keyModule' = KeyAfter(m)
  <2>1. /\ DOMAIN symbols' = DOMAIN symbols \cup Relevant(m)
        /\ \A f \in DOMAIN symbols' :
             symbols'[f] = IF f \in DOMAIN symbols THEN symbols[f] ELSE m
    BY <1>2 DEF SymbolsGathered
  <2>2. PICK f \in DOMAIN symbols' : f \notin DOMAIN symbols /\ symbols'[f] = m
    BY <1>2, <2>1
  <2>3. Relevant(m) \subseteq Restricts
    BY DEF Relevant
  <2>4. KeyKnown'
    BY <1>0, <1>2, <2>2, WalkAssumption DEF KeyAfter, KeyKnown
  <2>5. KeyIsOwner'
    <3>1. CASE keyModule = NoModule
      BY <1>0, <1>2, <2>1, <2>2, <3>1 DEF KeyAfter, KeyKnown, KeyIsOwner
    <3>2. CASE keyModule # NoModule /\ m # AppModule
      BY <1>2, <2>2, <3>2 DEF KeyAfter, KeyIsOwner
    <3>3. CASE keyModule # NoModule /\ m = AppModule
      BY <1>0, <1>2, <2>1, <3>3 DEF KeyAfter, KeyKnown, KeyIsOwner
    <3> QED
      BY <3>1, <3>2, <3>3
  <2> QED
    BY <1>0, <1>2, <2>1, <2>3, <2>4, <2>5 DEF KeyAfter
<1>3. CASE symbols' = SymbolsGathered(m) /\ DOMAIN symbols' = DOMAIN symbols
           /\ keyModule' = keyModule
  <2>1. \A f \in DOMAIN symbols : symbols'[f] = symbols[f]
    BY <1>3 DEF SymbolsGathered
  <2> QED
    BY <1>0, <1>3, <2>1 DEF KeyKnown, KeyIsOwner
<1> QED
  BY <1>1, <1>2, <1>3 DEF LoadSymbols

LEMMA NextModuleInv ==
  ASSUME WalkInv, NextModule
  PROVE  WalkInv'
<1>1. PICK m \in snapshot : snapshot' = snapshot \ {m} /\ LoadSymbols(m, <<>>)
  BY DEF NextModule, Later
<1>2. /\ pc = "walk" /\ UNCHANGED <<inProcess, lock, pc, walks>>
      /\ <<>> \in Calls /\ DOMAIN <<>> = {}
  BY EmptySeq DEF NextModule, Walking, Calls
<1>3. m \in inProcess /\ m \in Modules
  BY <1>1 DEF WalkInv, HandlesValid, WalkTypeOK
<1>4. /\ calls' \in Calls
      /\ \A i \in DOMAIN calls' :
           calls'[i].mod \in inProcess /\ calls'[i].imports \subseteq inProcess
      /\ loadedModules' = loadedModules \cup ({m} \ {Debugger})
      /\ warnedModules' \subseteq {Buffer}
      /\ visits' \in [Modules -> Nat] /\ checks' \in [Modules -> Nat]
      /\ Counts'
  BY <1>1, <1>2, <1>3, LoadSymbolsInv
<1>5. /\ DOMAIN symbols' \subseteq Restricts
      /\ \A f \in DOMAIN symbols' : symbols'[f] \in Modules
      /\ keyModule' \in Modules \cup {NoModule}
      /\ KeyKnown' /\ KeyIsOwner'
  BY <1>1, <1>3, LoadSymbolsOwners
<1>6. WalkTypeOK'
  BY <1>1, <1>2, <1>3, <1>4, <1>5 DEF WalkInv, WalkTypeOK, Calls
<1>7. HandlesValid' /\ Covered'
  BY <1>1, <1>2, <1>3, <1>4 DEF WalkInv, HandlesValid, Covered
<1>8. Phases'
  BY <1>2 DEF WalkInv, Phases
<1> QED
  BY <1>4, <1>5, <1>6, <1>7, <1>8 DEF WalkInv

LEMMA NextImportInv ==
  ASSUME WalkInv, NextImport
  PROVE  WalkInv'
<1> DEFINE n == Len(calls)
<1>0. calls \in Calls /\ calls # <<>> /\ pc = "walk"
  BY DEF WalkInv, WalkTypeOK, Calls, NextImport, Walking
<1>1. PICK m \in Current.imports :
         LoadSymbols(m, [calls EXCEPT ![n].imports = @ \ {m}])
  BY DEF NextImport, Later
<1>2. UNCHANGED <<inProcess, lock, snapshot, pc, walks>>
  BY DEF NextImport
<1>3. n \in 1 .. n /\ n \in Nat /\ DOMAIN calls = 1 .. n /\ calls[n] \in Frame
  BY <1>0, EmptySeq, LenProperties, ElementOfSeq DEF Calls
<1>4. m \in inProcess /\ m \in Modules
  BY <1>1, <1>3 DEF WalkInv, HandlesValid, WalkTypeOK, Current
<1> DEFINE rest == [calls[n] EXCEPT !.imports = @ \ {m}]
           callers == [calls EXCEPT ![n] = rest]
<1>5. rest \in Frame /\ rest.mod = calls[n].mod /\ rest.imports \subseteq calls[n].imports
  BY <1>3 DEF Frame
<1>6. [calls EXCEPT ![n].imports = @ \ {m}] = callers
  BY <1>3
<1>7. callers \in Calls /\ DOMAIN callers = DOMAIN calls
  <2> HIDE DEF rest
  <2> QED
    BY <1>0, <1>3, <1>5, ExceptSeq DEF Calls
<1>8. \A i \in DOMAIN callers :
        callers[i].mod \in inProcess /\ callers[i].imports \subseteq inProcess
  <2>1. \A i \in DOMAIN calls : calls[i].mod \in inProcess /\ calls[i].imports \subseteq inProcess
    BY DEF WalkInv, HandlesValid
  <2> HIDE DEF rest
  <2>2. \A i \in DOMAIN calls : callers[i] = IF i = n THEN rest ELSE calls[i]
    BY <1>3
  <2> HIDE DEF callers
  <2> QED
    BY <1>3, <1>5, <1>7, <2>1, <2>2
<1>9. LoadSymbols(m, callers)
  BY <1>1, <1>6
<1> HIDE DEF rest, callers, n
<1>10. /\ calls' \in Calls
       /\ \A i \in DOMAIN calls' :
            calls'[i].mod \in inProcess /\ calls'[i].imports \subseteq inProcess
       /\ loadedModules' = loadedModules \cup ({m} \ {Debugger})
       /\ warnedModules' \subseteq {Buffer}
       /\ visits' \in [Modules -> Nat] /\ checks' \in [Modules -> Nat]
       /\ Counts'
  BY <1>0, <1>4, <1>7, <1>8, <1>9, LoadSymbolsInv
<1>11. /\ DOMAIN symbols' \subseteq Restricts
       /\ \A f \in DOMAIN symbols' : symbols'[f] \in Modules
       /\ keyModule' \in Modules \cup {NoModule}
       /\ KeyKnown' /\ KeyIsOwner'
  BY <1>4, <1>9, LoadSymbolsOwners
<1>12. WalkTypeOK'
  BY <1>2, <1>4, <1>10, <1>11 DEF WalkInv, WalkTypeOK, Calls
<1>13. HandlesValid' /\ Covered'
  BY <1>2, <1>4, <1>10 DEF WalkInv, HandlesValid, Covered
<1>14. Phases'
  BY <1>0, <1>2 DEF WalkInv, Phases
<1> QED
  BY <1>10, <1>11, <1>12, <1>13, <1>14 DEF WalkInv

LEMMA ReturnInv ==
  ASSUME WalkInv, Return
  PROVE  WalkInv'
<1>1. /\ pc = "walk" /\ calls # <<>>
      /\ calls' = SubSeq(calls, 1, Len(calls) - 1)
      /\ UNCHANGED <<inProcess, lock, snapshot, loadedModules, warnedModules, symbols,
                     keyModule, pc, walks, visits, checks>>
  BY DEF Return, Walking
<1>2. calls \in Seq(Frame) /\ Len(calls) \in Nat \ {0} /\ DOMAIN calls = 1 .. Len(calls)
  BY <1>1, EmptySeq, LenProperties DEF WalkInv, WalkTypeOK
<1>3. \A i \in 1 .. Len(calls) - 1 : calls[i] \in Frame
  BY <1>2, ElementOfSeq
<1>4. /\ calls' \in Seq(Frame)
      /\ Len(calls') = Len(calls) - 1
      /\ \A i \in 1 .. Len(calls) - 1 : calls'[i] = calls[i]
  BY <1>1, <1>2, <1>3, SubSeqProperties
<1>5. \A i \in DOMAIN calls' : i \in DOMAIN calls /\ calls'[i] = calls[i]
  BY <1>2, <1>4, LenProperties
<1>6. WalkTypeOK'
  BY <1>1, <1>4 DEF WalkInv, WalkTypeOK
<1>7. HandlesValid'
  BY <1>1, <1>5 DEF WalkInv, HandlesValid
<1> QED
  BY <1>1, <1>6, <1>7 DEF WalkInv, Phases, Counts, Covered, KeyKnown, KeyIsOwner

LEMMA LockLoaderInv ==
  ASSUME WalkInv, LockLoader
  PROVE  WalkInv'
<1>1. /\ pc = "idle" /\ pc' = "locked" /\ lock' = TRUE /\ walks' = walks + 1
      /\ loadedModules' = {} /\ warnedModules' = {} /\ visits' = Never /\ checks' = Never
      /\ UNCHANGED <<inProcess, snapshot, calls, symbols, keyModule>>
  BY DEF LockLoader, LdrLockLoaderLock
<1>2. visits' \in [Modules -> Nat] /\ checks' \in [Modules -> Nat] /\ Counts'
  BY <1>1 DEF Never, Counts
<1>3. walks' \in Nat
  BY <1>1 DEF WalkInv, WalkTypeOK
<1>4. lock' \in BOOLEAN
  BY <1>1, Zenon
<1>5. WalkTypeOK'
  BY <1>1, <1>2, <1>3, <1>4 DEF WalkInv, WalkTypeOK
<1>6. lock'
  BY <1>1, Zenon
<1> QED
  BY <1>1, <1>2, <1>5, <1>6 DEF WalkInv, Phases, HandlesValid, Covered, KeyKnown, KeyIsOwner

LEMMA UnlockInv ==
  ASSUME WalkInv, SnapshotFails \/ UnlockLoader
  PROVE  WalkInv'
<1>1. /\ pc' = "idle" /\ lock' = FALSE
      /\ snapshot = {} /\ calls = <<>>
      /\ UNCHANGED <<inProcess, snapshot, calls, loadedModules, warnedModules, symbols,
                     keyModule, walks, visits, checks>>
  BY DEF SnapshotFails, UnlockLoader, WalkInv, Phases
<1>2. lock' \in BOOLEAN
  BY <1>1, Zenon
<1>3. WalkTypeOK'
  BY <1>1, <1>2 DEF WalkInv, WalkTypeOK
<1> QED
  BY <1>1, <1>3 DEF WalkInv, Phases, HandlesValid, Counts, Covered, KeyKnown, KeyIsOwner

LEMMA SnapshotInv ==
  ASSUME WalkInv, TakeSnapshot
  PROVE  WalkInv'
<1>1. /\ pc = "locked" /\ pc' = "walk" /\ snapshot' = inProcess
      /\ UNCHANGED <<inProcess, lock, calls, loadedModules, warnedModules, symbols,
                     keyModule, walks, visits, checks>>
  BY DEF TakeSnapshot
<1>2. WalkTypeOK'
  BY <1>1 DEF WalkInv, WalkTypeOK
<1>3. Phases' /\ Covered' /\ HandlesValid'
  BY <1>1 DEF WalkInv, Phases, Covered, HandlesValid
<1> QED
  BY <1>1, <1>2, <1>3 DEF WalkInv, Counts, KeyKnown, KeyIsOwner

LEMMA HostInv ==
  ASSUME WalkInv, NEW m \in Modules, HostLoads(m) \/ HostFrees(m)
  PROVE  WalkInv'
<1>1. /\ ~lock /\ inProcess' \subseteq Modules
      /\ UNCHANGED <<lock, snapshot, calls, loadedModules, warnedModules, symbols,
                     keyModule, pc, walks, visits, checks>>
  BY DEF HostLoads, HostFrees, HostChanges, WalkInv, WalkTypeOK
<1>2. pc = "idle" /\ snapshot = {} /\ calls = <<>>
  BY <1>1 DEF WalkInv, Phases, WalkTypeOK
<1>3. WalkTypeOK'
  BY <1>1 DEF WalkInv, WalkTypeOK
<1> QED
  BY <1>1, <1>2, <1>3 DEF WalkInv, Phases, HandlesValid, Counts, Covered, KeyKnown, KeyIsOwner

LEMMA WalkNext == WalkInv /\ [Next]_vars => WalkInv'
<1> SUFFICES ASSUME WalkInv, [Next]_vars PROVE WalkInv'
  OBVIOUS
<1>1. CASE UNCHANGED vars
  <2>1. WalkTypeOK'
    BY <1>1 DEF vars, WalkInv, WalkTypeOK
  <2> QED
    BY <1>1, <2>1
       DEF vars, WalkInv, Phases, HandlesValid, Counts, Covered, KeyKnown, KeyIsOwner
<1> QED
  BY <1>1, HostInv, LockLoaderInv, SnapshotInv, UnlockInv, NextModuleInv, NextImportInv,
     ReturnInv DEF Next, WalkStep

LEMMA WalkCorrect == Spec => []WalkInv
<1> QED
  BY WalkInit, WalkNext, PTL DEF Spec

(* The walk is type correct for every graph of imports: what it searches,  *)
(* counts and searches next are modules (load_sym_from_module).            *)
THEOREM WalkTypeCorrect == Spec => []WalkTypeOK
<1>1. WalkInv => WalkTypeOK
  BY DEF WalkInv
<1> QED
  BY <1>1, WalkCorrect, PTL

(* The walk reads no module that has left the process (LdrLockLoaderLock). *)
THEOREM HandlesCorrect == Spec => []HandlesValid
<1>1. WalkInv => HandlesValid
  BY DEF WalkInv
<1> QED
  BY <1>1, WalkCorrect, PTL

(* No module is searched twice in a walk, nor its symbol file looked for,  *)
(* for every graph of imports (load_sym_from_module).                      *)
THEOREM VisitedCorrect == Spec => []VisitedOnce
<1>1. WalkInv => VisitedOnce
  BY DEF WalkInv, Counts, VisitedOnce
<1> QED
  BY <1>1, WalkCorrect, PTL

SearchesAllOrNone ==
  [][/\ UnlockLoader => loadedModules = inProcess \ {Debugger}
     /\ SnapshotFails => loadedModules = {} /\ UNCHANGED symbols]_vars

(* There is nothing between two ends of a walk: one that got its snapshot  *)
(* has searched every module but the debugger's own when it ends, also the *)
(* modules that the message of odbk_lload.cpp:707 says are skipped; one    *)
(* whose snapshot failed has searched none, not even the application's     *)
(* module (load_sym_from_app_modules).                                     *)
THEOREM WholeWalkCorrect == Spec => SearchesAllOrNone
<1>1. WalkInv /\ [Next]_vars =>
        [/\ UnlockLoader => loadedModules = inProcess \ {Debugger}
         /\ SnapshotFails => loadedModules = {} /\ UNCHANGED symbols]_vars
  <2>1. ASSUME WalkInv, UnlockLoader PROVE loadedModules = inProcess \ {Debugger}
    <3>1. pc = "walk" /\ snapshot = {}
      BY <2>1 DEF UnlockLoader, Walking
    <3> QED
      BY <2>1, <3>1 DEF WalkInv, Covered
  <2>2. ASSUME WalkInv, SnapshotFails PROVE loadedModules = {} /\ UNCHANGED symbols
    BY <2>2 DEF SnapshotFails, WalkInv, Phases
  <2> QED
    BY <2>1, <2>2
<1> QED
  BY <1>1, WalkCorrect, PTL DEF Spec, SearchesAllOrNone

(* The key module is one the symbols came from, and the application only   *)
(* when no other module had any (load_sym_from_module).                    *)
THEOREM KeyCorrect == Spec => []KeyIsOwner
<1>1. WalkInv => KeyIsOwner
  BY DEF WalkInv
<1> QED
  BY <1>1, WalkCorrect, PTL

-----------------------------------------------------------------------------
(***************************************************************************)
(* How deep the recursion gets.  A call is made for a module that was not  *)
(* searched before, and notes it at once: no module has two calls.         *)
(***************************************************************************)
OneEach(s, searched) ==
  /\ \A i, j \in DOMAIN s : s[i].mod = s[j].mod => i = j
  /\ \A i \in DOMAIN s : s[i].mod \in searched \ {Debugger}

OneCallEach == OneEach(calls, loadedModules)

DepthInv == WalkInv /\ OneCallEach

(* Seen frame by frame: one more call, and one call less to make. *)
LEMMA PushOne ==
  ASSUME NEW s \in Calls, NEW searched, OneEach(s, searched),
         NEW frame \in Frame, frame.mod \notin searched, frame.mod # Debugger
  PROVE  OneEach(Append(s, frame), searched \cup {frame.mod})
<1> DEFINE longer == Append(s, frame)
           n == Len(s)
<1>1. /\ n \in Nat /\ DOMAIN s = 1 .. n /\ DOMAIN longer = 1 .. n + 1
      /\ \A i \in 1 .. n : longer[i] = s[i]
      /\ longer[n + 1] = frame
  BY AppendProperties, LenProperties DEF Calls
<1>2. \A i \in 1 .. n + 1 : i \in 1 .. n \/ i = n + 1
  BY <1>1
<1> HIDE DEF longer, n
<1>3. /\ \A i \in 1 .. n : longer[i].mod \in searched \ {Debugger}
      /\ \A i, j \in 1 .. n : longer[i].mod = longer[j].mod => i = j
  BY <1>1 DEF OneEach
<1>4. \A i, j \in 1 .. n + 1 : longer[i].mod = longer[j].mod => i = j
  BY <1>1, <1>2, <1>3
<1>5. \A i \in 1 .. n + 1 : longer[i].mod \in (searched \cup {frame.mod}) \ {Debugger}
  BY <1>1, <1>2, <1>3
<1> QED
  BY <1>1, <1>4, <1>5 DEF OneEach, longer

LEMMA LoadSymbolsDepth ==
  ASSUME WalkTypeOK, NEW m \in Modules, NEW callers \in Calls, LoadSymbols(m, callers),
         OneEach(callers, loadedModules)
  PROVE  OneCallEach'
<1>1. CASE Passed(m)
  <2>1. calls' = callers /\ loadedModules' = loadedModules
    BY <1>1 DEF LoadSymbols
  <2> QED
    BY <2>1 DEF OneCallEach
<1>2. CASE ~Passed(m)
  <2> DEFINE frame == [mod |-> m, imports |-> ImportsPresent(m)]
  <2>1. /\ loadedModules' = loadedModules \cup {m}
        /\ calls' = callers \/ calls' = Append(callers, frame)
    BY <1>2 DEF LoadSymbols
  <2>2. m # Debugger /\ m \notin loadedModules
    BY <1>2 DEF Passed
  <2>3. frame \in Frame /\ frame.mod = m
    BY WalkAssumption DEF ImportsPresent, Frame, WalkTypeOK
  <2> HIDE DEF frame
  <2>4. OneEach(callers, loadedModules \cup {m})
    BY DEF OneEach
  <2>5. OneEach(Append(callers, frame), loadedModules \cup {m})
    BY <2>2, <2>3, PushOne
  <2> QED
    BY <2>1, <2>4, <2>5 DEF OneCallEach
<1> QED
  BY <1>1, <1>2

(* The loop over the imports of the innermost call: what it leaves of them. *)
LEMMA NextImportCall ==
  ASSUME WalkInv, NextImport
  PROVE  \E m \in Current.imports, callers \in Calls :
           /\ LoadSymbols(m, callers)
           /\ DOMAIN callers = DOMAIN calls /\ Len(callers) = Len(calls)
           /\ \A i \in DOMAIN calls : callers[i].mod = calls[i].mod
           /\ callers[Len(calls)].imports = Current.imports \ {m}
<1> DEFINE n == Len(calls)
<1>0. calls \in Calls /\ calls # <<>>
  BY DEF WalkInv, WalkTypeOK, Calls, NextImport
<1>1. PICK m \in Current.imports :
         LoadSymbols(m, [calls EXCEPT ![n].imports = @ \ {m}])
  BY DEF NextImport, Later
<1>2. n \in 1 .. n /\ n \in Nat /\ DOMAIN calls = 1 .. n /\ calls[n] \in Frame
  BY <1>0, EmptySeq, LenProperties, ElementOfSeq DEF Calls
<1> DEFINE rest == [calls[n] EXCEPT !.imports = @ \ {m}]
           callers == [calls EXCEPT ![n] = rest]
<1>3. rest \in Frame /\ rest.mod = calls[n].mod /\ rest.imports = Current.imports \ {m}
  BY <1>2 DEF Frame, Current
<1>4. [calls EXCEPT ![n].imports = @ \ {m}] = callers
  BY <1>2
<1> HIDE DEF rest
<1>5. callers \in Calls /\ DOMAIN callers = DOMAIN calls
  BY <1>0, <1>2, <1>3, ExceptSeq DEF Calls
<1>6. \A i \in DOMAIN calls : callers[i] = IF i = n THEN rest ELSE calls[i]
  BY <1>2
<1> HIDE DEF callers
<1>7. Len(callers) = n
  BY <1>2, <1>5, LenProperties DEF Calls
<1> QED
  BY <1>1, <1>2, <1>3, <1>4, <1>5, <1>6, <1>7

(* One call less: the loop over the imports is over. *)
LEMMA ReturnCall ==
  ASSUME WalkInv, Return
  PROVE  /\ Len(calls) \in Nat \ {0} /\ Len(calls') = Len(calls) - 1
         /\ \A i \in DOMAIN calls' : i \in DOMAIN calls /\ calls'[i] = calls[i]
         /\ loadedModules' = loadedModules
<1>1. /\ calls # <<>> /\ calls' = SubSeq(calls, 1, Len(calls) - 1)
      /\ loadedModules' = loadedModules
  BY DEF Return
<1>2. calls \in Seq(Frame) /\ Len(calls) \in Nat \ {0} /\ DOMAIN calls = 1 .. Len(calls)
  BY <1>1, EmptySeq, LenProperties DEF WalkInv, WalkTypeOK
<1>3. \A i \in 1 .. Len(calls) - 1 : calls[i] \in Frame
  BY <1>2, ElementOfSeq
<1>4. /\ calls' \in Seq(Frame)
      /\ Len(calls') = Len(calls) - 1
      /\ \A i \in 1 .. Len(calls) - 1 : calls'[i] = calls[i]
  BY <1>1, <1>2, <1>3, SubSeqProperties
<1> QED
  BY <1>1, <1>2, <1>4, LenProperties

LEMMA DepthNext ==
  ASSUME DepthInv, [Next]_vars
  PROVE  DepthInv'
<1>0. WalkInv /\ WalkTypeOK /\ OneEach(calls, loadedModules)
  BY DEF DepthInv, WalkInv, OneCallEach
<1>1. ASSUME UNCHANGED <<calls, loadedModules>> PROVE OneCallEach'
  BY <1>0, <1>1 DEF OneCallEach, OneEach
<1>2. ASSUME LockLoader PROVE OneCallEach'
  <2>1. calls' = <<>>
    BY <1>0, <1>2 DEF LockLoader, WalkInv, Phases
  <2> QED
    BY <2>1 DEF OneCallEach, OneEach
<1>3. ASSUME NextModule PROVE OneCallEach'
  <2>1. PICK m \in snapshot : LoadSymbols(m, <<>>)
    BY <1>3 DEF NextModule
  <2>2. m \in Modules /\ <<>> \in Calls /\ OneEach(<<>>, loadedModules)
    BY <1>0, <2>1, EmptySeq DEF WalkTypeOK, Calls, OneEach
  <2> QED
    BY <1>0, <2>1, <2>2, LoadSymbolsDepth
<1>4. ASSUME NextImport PROVE OneCallEach'
  <2>1. PICK m \in Current.imports, callers \in Calls :
          /\ LoadSymbols(m, callers)
          /\ DOMAIN callers = DOMAIN calls
          /\ \A i \in DOMAIN calls : callers[i].mod = calls[i].mod
    BY <1>0, <1>4, NextImportCall
  <2>2. OneEach(callers, loadedModules)
    BY <1>0, <2>1 DEF OneEach
  <2>3. m \in Modules
    <3>1. calls # <<>> /\ calls \in Seq(Frame)
      BY <1>0, <1>4 DEF NextImport, WalkTypeOK
    <3>2. Len(calls) \in DOMAIN calls
      BY <3>1, EmptySeq, LenProperties
    <3> QED
      BY <1>0, <2>1, <3>2 DEF WalkInv, HandlesValid, WalkTypeOK, Current
  <2> QED
    BY <1>0, <2>1, <2>2, <2>3, LoadSymbolsDepth
<1>5. ASSUME Return PROVE OneCallEach'
  <2>1. /\ \A i \in DOMAIN calls' : i \in DOMAIN calls /\ calls'[i] = calls[i]
        /\ loadedModules' = loadedModules
    BY <1>0, <1>5, ReturnCall
  <2> QED
    BY <1>0, <2>1 DEF OneCallEach, OneEach
<1>6. \A m \in Modules : HostLoads(m) \/ HostFrees(m) => UNCHANGED <<calls, loadedModules>>
  BY DEF HostLoads, HostFrees, HostChanges
<1>7. TakeSnapshot \/ SnapshotFails \/ UnlockLoader \/ UNCHANGED vars
        => UNCHANGED <<calls, loadedModules>>
  BY DEF TakeSnapshot, SnapshotFails, UnlockLoader, vars
<1>8. OneCallEach'
  BY <1>1, <1>2, <1>3, <1>4, <1>5, <1>6, <1>7 DEF Next, WalkStep
<1> QED
  BY <1>0, <1>8, WalkNext DEF DepthInv

(* However modules import one another, load_sym_from_module is never more  *)
(* calls deep than there are modules beside the debugger's own: circles of *)
(* imports do not use up the stack.                                        *)
THEOREM DepthCorrect ==
  ASSUME IsFiniteSet(Modules)
  PROVE  Spec => [](Len(calls) <= Cardinality(Modules \ {Debugger}))
<1>1. Init => DepthInv
  <2>1. Init => calls = <<>>
    BY DEF Init
  <2> QED
    BY <2>1, WalkInit DEF DepthInv, OneCallEach, OneEach
<1>2. DepthInv => Len(calls) <= Cardinality(Modules \ {Debugger})
  <2> SUFFICES ASSUME DepthInv PROVE Len(calls) <= Cardinality(Modules \ {Debugger})
    OBVIOUS
  <2> DEFINE Others == Modules \ {Debugger}
             module == [i \in 1 .. Len(calls) |-> calls[i].mod]
  <2>1. Len(calls) \in Nat /\ DOMAIN calls = 1 .. Len(calls)
    BY LenProperties DEF DepthInv, WalkInv, WalkTypeOK
  <2>2. module \in Injection(1 .. Len(calls), Others)
    BY <2>1 DEF DepthInv, WalkInv, WalkTypeOK, OneCallEach, OneEach, Injection, IsInjective
  <2>3. IsFiniteSet(Others)
    BY FS_Subset
  <2> HIDE DEF Others, module
  <2>4. Cardinality(1 .. Len(calls)) <= Cardinality(Others)
    BY <2>2, <2>3, FS_Injection
  <2>5. Cardinality(1 .. Len(calls)) = Len(calls)
    <3>1. \A n \in Int : Cardinality(1 .. n) = IF 1 > n THEN 0 ELSE n - 1 + 1
      BY FS_Interval
    <3> QED
      BY <2>1, <3>1
  <2> QED
    BY <2>4, <2>5 DEF Others
<1> QED
  BY <1>1, <1>2, DepthNext, PTL DEF Spec

-----------------------------------------------------------------------------
(* Why a walk comes to its end: the part of WalkEnds that needs no         *)
(* fairness.  What it has still to do gets less in an order in which a new *)
(* module counts most, then a call, then a module to look at.              *)
Fewer(S, T) == T \subseteq S /\ T # S

WalkAdvances ==
  [][pc = "walk" =>
       \/ pc' = "idle" /\ calls = <<>> /\ snapshot = {}
       \/ Fewer(Modules \ loadedModules, Modules \ loadedModules')
       \/ /\ loadedModules' = loadedModules
          /\ \/ Len(calls') < Len(calls)
             \/ /\ Len(calls') = Len(calls) /\ calls # <<>>
                /\ Fewer(Current.imports, Current'.imports)
             \/ calls = <<>> /\ calls' = calls /\ Fewer(snapshot, snapshot')]_vars

(* A call is for a new module, or leaves its callers as they are. *)
LEMMA LoadSymbolsProgress ==
  ASSUME WalkTypeOK, NEW m \in Modules, NEW callers, LoadSymbols(m, callers)
  PROVE  \/ Fewer(Modules \ loadedModules, Modules \ loadedModules')
         \/ loadedModules' = loadedModules /\ calls' = callers
<1>1. CASE Passed(m)
  BY <1>1 DEF LoadSymbols
<1>2. CASE ~Passed(m)
  <2>1. loadedModules' = loadedModules \cup {m} /\ m \notin loadedModules
    BY <1>2 DEF LoadSymbols, Passed
  <2>2. m \in Modules \ loadedModules /\ m \notin Modules \ loadedModules'
    BY <2>1
  <2>3. Modules \ loadedModules' \subseteq Modules \ loadedModules
    BY <2>1
  <2> QED
    BY <2>2, <2>3 DEF Fewer
<1> QED
  BY <1>1, <1>2

(* Every step while the walk is on brings it nearer to its end, whatever   *)
(* circles the imports make, however many modules have all the symbols,    *)
(* and no thread of the host can lengthen it: the walk holds the loader    *)
(* lock (load_sym_from_app_modules, load_sym_from_module).                 *)
THEOREM WalkShrinks == Spec => WalkAdvances
<1>1. WalkInv /\ [Next]_vars =>
        [pc = "walk" =>
           \/ pc' = "idle" /\ calls = <<>> /\ snapshot = {}
           \/ Fewer(Modules \ loadedModules, Modules \ loadedModules')
           \/ /\ loadedModules' = loadedModules
              /\ \/ Len(calls') < Len(calls)
                 \/ /\ Len(calls') = Len(calls) /\ calls # <<>>
                    /\ Fewer(Current.imports, Current'.imports)
                 \/ calls = <<>> /\ calls' = calls /\ Fewer(snapshot, snapshot')]_vars
  <2> SUFFICES ASSUME WalkInv, Next, pc = "walk"
               PROVE  \/ pc' = "idle" /\ calls = <<>> /\ snapshot = {}
                      \/ Fewer(Modules \ loadedModules, Modules \ loadedModules')
                      \/ /\ loadedModules' = loadedModules
                         /\ \/ Len(calls') < Len(calls)
                            \/ /\ Len(calls') = Len(calls) /\ calls # <<>>
                               /\ Fewer(Current.imports, Current'.imports)
                            \/ calls = <<>> /\ calls' = calls /\ Fewer(snapshot, snapshot')
    OBVIOUS
  <2>0. WalkTypeOK /\ lock
    BY DEF WalkInv, Phases
  <2>1. NextModule \/ NextImport \/ Return \/ UnlockLoader
    BY <2>0 DEF Next, WalkStep, HostLoads, HostFrees, HostChanges, LockLoader, TakeSnapshot,
       SnapshotFails
  <2>2. CASE NextModule
    <3>1. PICK m \in snapshot : snapshot' = snapshot \ {m} /\ LoadSymbols(m, <<>>)
      BY <2>2 DEF NextModule, Later
    <3>2. calls = <<>>
      BY <2>2 DEF NextModule
    <3>3. Fewer(snapshot, snapshot')
      BY <3>1 DEF Fewer
    <3>4. m \in Modules
      BY <2>0, <3>1 DEF WalkTypeOK
    <3> QED
      BY <2>0, <3>1, <3>2, <3>3, <3>4, LoadSymbolsProgress
  <2>3. CASE NextImport
    <3>1. PICK m \in Current.imports, callers \in Calls :
            /\ LoadSymbols(m, callers)
            /\ Len(callers) = Len(calls)
            /\ callers[Len(calls)].imports = Current.imports \ {m}
      BY <2>3, NextImportCall
    <3>2. calls # <<>> /\ calls \in Seq(Frame)
      BY <2>0, <2>3 DEF NextImport, WalkTypeOK
    <3>3. m \in Modules
      <4>1. Len(calls) \in DOMAIN calls
        BY <3>2, EmptySeq, LenProperties
      <4> QED
        BY <2>0, <3>1, <4>1 DEF WalkInv, HandlesValid, WalkTypeOK, Current
    <3>4. calls' = callers => Fewer(Current.imports, Current'.imports)
      BY <3>1 DEF Fewer, Current
    <3> QED
      BY <2>0, <3>1, <3>2, <3>3, <3>4, LoadSymbolsProgress
  <2>4. CASE Return
    <3>1. /\ Len(calls) \in Nat \ {0} /\ Len(calls') = Len(calls) - 1
          /\ loadedModules' = loadedModules
      BY <2>4, ReturnCall
    <3> QED
      BY <3>1
  <2>5. CASE UnlockLoader
    BY <2>5 DEF UnlockLoader
  <2> QED
    BY <2>1, <2>2, <2>3, <2>4, <2>5
<1> QED
  BY <1>1, WalkCorrect, PTL DEF Spec, WalkAdvances
=============================================================================
