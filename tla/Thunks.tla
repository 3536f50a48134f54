------------------------------- MODULE Thunks -------------------------------
(***************************************************************************)
(* The thunks of 32-bit builds (odbk_lload.cpp, ODBK_BITS == 32): the      *)
(* debugger's lua_Integer always has two words, the engine's has one       *)
(* before Lua 5.3.  A thunk pushes the arguments for the engine's version, *)
(* calls through the pointer, takes the arguments off the stack again      *)
(* (cdecl: the caller does) and puts the result together.                  *)
(*                                                                         *)
(* A word is a number below Base (2^32 in the code).  The version is that  *)
(* of the engine that is called: the loader has determined both.           *)
(***************************************************************************)
EXTENDS Integers, Sequences

CONSTANTS
  Base,      \* the number of values of a word
  Versions,  \* s_ctx->version
  Bound,     \* Bound[v]: the pointers a load of version v leaves not NULL
  L, Idx, IsNum, \* the words of the other parameters
  None,      \* no word
  Host,      \* what is on the stack when the thunk is called
  Arguments, \* the integers the debugger passes
  Values     \* the integers the engine returns

Signed(bits) == -(bits \div 2) .. (bits \div 2) - 1
Word == 0 .. Base - 1

ASSUME ThunkAssumption ==
  /\ Base \in Nat \ {0} /\ Base % 2 = 0
  /\ Versions \subseteq Nat
  /\ Arguments \subseteq Signed(Base * Base)
  /\ Values \subseteq Signed(Base * Base)
  /\ Host \in Seq({Host[i] : i \in DOMAIN Host})

Thunked == {"lua_rawgeti", "lua_rawseti", "lua_pushinteger", "lua_tointegerx"}

VARIABLES
  version,  \* s_ctx->version
  fn,       \* the pointer the thunk is for
  n,        \* its parameter n
  stack,    \* the words on the stack, the top one last
  got,      \* what the engine's function found in its parameters
  value,    \* external: what it returned
  eax, edx, \* the registers results come back in
  result,   \* what the thunk returned: li.QuadPart
  thunkPc   \* "push", "call", "clean", "done" or "dead"

thunkVars == <<version, fn, n, stack, got, value, eax, edx, result, thunkPc>>

NoCall == [state |-> None, idx |-> None, n |-> 0]

ThunkInit ==
  /\ version \in Versions
  /\ fn \in Thunked
  /\ n \in Arguments
  /\ stack = Host
  /\ got = NoCall
  /\ value = 0
  /\ eax \in Word /\ edx = 0
  /\ result = 0
  /\ thunkPc = "push"

(* cmp lua_version, 530; jge *)
TwoWords == version >= 530

LowPart(i) == i % Base
HighPart(i) == (i \div Base) % Base

(* Mutant: the parts are put together without a sign. *)
UnsignedPart(low, high) == high * Base + low

(* lua_LargeInteger: QuadPart is signed. *)
QuadPart(low, high) ==
  IF high < Base \div 2 THEN high * Base + low ELSE (high - Base) * Base + low

-----------------------------------------------------------------------------
(* Mutant: LowPart is pushed first. *)
PushedLowFirst(i) == IF TwoWords THEN <<LowPart(i), HighPart(i)>> ELSE <<LowPart(i)>>

Pushed(i) == IF TwoWords THEN <<HighPart(i), LowPart(i)>> ELSE <<LowPart(i)>>

(* The arguments in the order of the push instructions. *)
Pushes ==
  CASE fn \in {"lua_rawgeti", "lua_rawseti"} -> Pushed(n) \o <<Idx, L>>
    [] fn = "lua_pushinteger" -> Pushed(n) \o <<L>>
    [] fn = "lua_tointegerx" -> <<IsNum, Idx, L>>

Push ==
  /\ thunkPc = "push"
  /\ stack' = stack \o Pushes
  /\ thunkPc' = "call"
  /\ UNCHANGED <<version, fn, n, got, value, eax, edx, result>>

-----------------------------------------------------------------------------
(* External: the engine's function, as Lua declares it for its version.    *)

FromTop(i) == stack[Len(stack) + 1 - i]

(* The integer that begins at the i-th word from the top. *)
IntegerAt(i) ==
  IF TwoWords THEN QuadPart(FromTop(i), FromTop(i + 1))
  ELSE IF FromTop(i) < Base \div 2 THEN FromTop(i) ELSE FromTop(i) - Base

Found ==
  CASE fn \in {"lua_rawgeti", "lua_rawseti"} ->
         [state |-> FromTop(1), idx |-> FromTop(2), n |-> IntegerAt(3)]
    [] fn = "lua_pushinteger" -> [state |-> FromTop(1), idx |-> None, n |-> IntegerAt(2)]
    [] fn = "lua_tointegerx" -> [state |-> FromTop(1), idx |-> FromTop(2), n |-> 0]

EngineIntegers == IF TwoWords THEN Values ELSE Values \cap Signed(Base)

(* A result of one word leaves something in edx. *)
Call ==
  /\ thunkPc = "call"
  /\ fn \in Bound[version]
  /\ got' = Found
  /\ \E v \in EngineIntegers, rest \in Word :
       /\ value' = v
       /\ eax' = LowPart(v)
       /\ edx' = IF TwoWords THEN HighPart(v) ELSE rest
  /\ thunkPc' = "clean"
  /\ UNCHANGED <<version, fn, n, stack, result>>

(* The pointer is NULL: the process dies. *)
CallNull ==
  /\ thunkPc = "call"
  /\ fn \notin Bound[version]
  /\ thunkPc' = "dead"
  /\ UNCHANGED <<version, fn, n, stack, got, value, eax, edx, result>>

-----------------------------------------------------------------------------
(* Mutant: what is taken off does not depend on the version. *)
WordsTakenOne == IF fn \in {"lua_rawgeti", "lua_rawseti", "lua_tointegerx"} THEN 3 ELSE 2

(* add esp: the words that are taken off the stack. *)
WordsTaken ==
  CASE fn \in {"lua_rawgeti", "lua_rawseti"} -> IF TwoWords THEN 4 ELSE 3
    [] fn = "lua_pushinteger" -> IF TwoWords THEN 3 ELSE 2
    [] fn = "lua_tointegerx" -> 3

(* Mutant: edx is taken for every version. *)
ResultBothWords == QuadPart(eax, edx)

(* li.HighPart stays 0 for the versions before 5.3. *)
Result == QuadPart(eax, IF TwoWords THEN edx ELSE 0)

Clean ==
  /\ thunkPc = "clean"
  /\ stack' = SubSeq(stack, 1, Len(stack) - WordsTaken)
  /\ result' = IF fn = "lua_tointegerx" THEN Result ELSE result
  /\ thunkPc' = "done"
  /\ UNCHANGED <<version, fn, n, got, value, eax, edx>>

ThunkNext == Push \/ Call \/ CallNull \/ Clean

ThunkSpec == ThunkInit /\ [][ThunkNext]_thunkVars

-----------------------------------------------------------------------------
(* Type correctness of the stack, of what passes over it and of the result. *)
ThunkTypeOK ==
  /\ stack \in Seq(Word \cup {L, Idx, IsNum} \cup {Host[i] : i \in DOMAIN Host})
  /\ got \in [state : {None, L}, idx : {None, Idx}, n : Signed(Base * Base)]
  /\ eax \in Word /\ edx \in Word
  /\ result \in Signed(Base * Base)
  /\ thunkPc \in {"push", "call", "clean", "done", "dead"}

(***************************************************************************)
(* With every version the engine's function finds its parameters where it  *)
(* looks for them, and the integer the debugger passed if it has such an   *)
(* integer: also a negative one, whose upper word is not 0.                *)
(***************************************************************************)
EngineGetsCall ==
  thunkPc \in {"clean", "done"} =>
    /\ got.state = L
    /\ got.idx = IF fn = "lua_pushinteger" THEN None ELSE Idx
    /\ fn # "lua_tointegerx" /\ (TwoWords \/ n \in Signed(Base)) => got.n = n

(***************************************************************************)
(* After a call the stack is what it was before: what is taken off is what *)
(* was pushed, for each version (the two branches of every thunk).         *)
(***************************************************************************)
StackRestored == thunkPc = "done" => stack = Host

(***************************************************************************)
(* The integer the engine returned arrives, whatever is left in edx        *)
(* (__lua_tointegerx__thunk) - but a negative one of an engine before 5.3  *)
(* as the number of the same lower word: the thunk does not extend its     *)
(* sign, and what is stated here is what it does, not what it should.      *)
(***************************************************************************)
ResultArrives ==
  thunkPc = "done" /\ fn = "lua_tointegerx" =>
    /\ TwoWords \/ value >= 0 => result = value
    /\ ~TwoWords => result = LowPart(value)
=============================================================================
