---------------------------- MODULE Interception ----------------------------
(***************************************************************************)
(* What the debugger promises to the program it is loaded into: it may     *)
(* watch the calls of the engine's functions, but each call is served by   *)
(* the function it was made for, in the module it was made for, once and   *)
(* before it is answered.  LuaHook implements it with hooks and pointers.  *)
(***************************************************************************)
EXTENDS Integers

CONSTANTS
  Threads,
  Functions,    \* what can be called
  Same(_, _),   \* do two functions do the same
  NotYet,       \* the call has not got to a function
  Depths        \* how deep calls can nest

VARIABLE calls  \* calls[t]: the open calls of t, by how deep they are

Open(t) == DOMAIN calls[t]
Innermost(t) == CHOOSE d \in Open(t) : \A e \in Open(t) : e <= d
Waits(t) == Open(t) # {} /\ calls[t][Innermost(t)].ran = NotYet

Init == calls = [t \in Threads |-> [d \in {} |-> NotYet]]

(* A call that was just made: the function runs at once, or is watched. *)
NewCall ==
  {c \in [asked : Functions, ran : Functions \cup {NotYet}] : c.ran \in {c.asked, NotYet}}

(* Code that runs, of the program or of an engine, calls a function. *)
Ask(t) ==
  /\ ~Waits(t)
  /\ \E d \in Depths \cap DOMAIN calls'[t] :
       /\ \A e \in Open(t) : e < d
       /\ calls'[t][d] \in NewCall
       /\ calls' = [calls EXCEPT ![t] =
                      [e \in Open(t) \cup {d} |-> IF e = d THEN calls'[t][d] ELSE calls[t][e]]]

(* The watcher lets the call go on: it gets to the function asked for. *)
Run(t) ==
  /\ Waits(t)
  /\ LET d == Innermost(t)
         c == calls[t][d]
         g == calls'[t][d].ran
     IN /\ d \in DOMAIN calls'[t]
        /\ g \in Functions
        /\ Same(c.asked, g)
        /\ calls' = [calls EXCEPT ![t][d] = [c EXCEPT !.ran = g]]

Answer(t) ==
  /\ Open(t) # {}
  /\ ~Waits(t)
  /\ calls' = [calls EXCEPT ![t] = [d \in Open(t) \ {Innermost(t)} |-> calls[t][d]]]

Next == \E t \in Threads : Ask(t) \/ Run(t) \/ Answer(t)

Spec == Init /\ [][Next]_calls
=============================================================================
