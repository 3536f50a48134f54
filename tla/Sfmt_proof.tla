----------------------------- MODULE Sfmt_proof -----------------------------
(***************************************************************************)
(* Theorems about odbk_sfmt, for every initial length of the buffer, every *)
(* text and every runtime of Sfmt.                                         *)
(***************************************************************************)
EXTENDS Sfmt, TLAPS

(* The last vsnprintf was given the whole buffer and its terminator's slot. *)
LastPass == good = Written(size + 1) /\ nret = Returned(size + 1)

(* SfmtTypeOK, and what each branch knows of the last pass. *)
Inv ==
  /\ SfmtTypeOK
  /\ sfmtPc = "start" => good = 0
  /\ sfmtPc = "test" => LastPass
  /\ sfmtPc = "grow" => runtime # "c99"
  /\ sfmtPc = "trim" => LastPass /\ nret >= 0 /\ runtime # "c99"
  /\ sfmtPc = "done" =>
       size = want /\ good >= want - 1 /\ (runtime # "msvc2013" => good = want)

(* One pass of vsnprintf over a buffer of n characters. *)
LEMMA PassEffect ==
  ASSUME SfmtTypeOK, NEW n \in Nat
  PROVE  /\ Written(n + 1) \in 0 .. n + 1
         /\ Written(n + 1) <= want
         /\ runtime # "msvc2013" => Written(n + 1) <= n
         /\ Returned(n + 1) \in Nat \cup {-1}
         /\ Returned(n + 1) >= 0 /\ runtime # "c99" =>
              Returned(n + 1) = want /\ Written(n + 1) = want
         /\ runtime = "c99" => Returned(n + 1) = want
         /\ n >= want => Written(n + 1) = want
  BY SfmtAssumption DEF SfmtTypeOK, Written, Returned, Room, Smaller

LEMMA InitInv == SfmtInit => Inv
  BY SfmtAssumption DEF SfmtInit, Inv, SfmtTypeOK

(* Each branch of the function keeps Inv. *)
LEMMA NextInv ==
  ASSUME Inv, [SfmtNext]_sfmtVars
  PROVE  Inv'
<1>1. SfmtTypeOK /\ want \in Nat /\ size \in Nat /\ nret \in Nat \cup {-1}
  BY SfmtAssumption DEF Inv, SfmtTypeOK
<1>2. CASE First
  <2>1. /\ size' = size
        /\ good' = Written(size + 1)
        /\ nret' = Returned(size + 1)
    BY <1>2 DEF First, Format
  <2>2. SfmtTypeOK'
    BY <1>1, <1>2, <2>1, PassEffect DEF First, SfmtTypeOK
  <2>3. LastPass'
    BY <1>2, <2>1 DEF First, LastPass, Written, Returned, Room
  <2> QED
    BY <1>2, <2>2, <2>3 DEF First, Inv
<1>3. CASE Fits
  <2>1. good = Written(size + 1) /\ nret = Returned(size + 1) /\ nret < size /\ nret >= 0
    BY <1>3 DEF Fits, Inv, LastPass
  <2>2. nret = want
    BY <1>1, <2>1, PassEffect
  <2>3. good = want
    BY <1>1, <2>1, <2>2, PassEffect
  <2>4. size' = want /\ good' = want
    BY <1>1, <1>3, <2>1, <2>2, <2>3 DEF Fits, Resize, Smaller
  <2> QED
    BY <1>1, <1>3, <2>4 DEF Fits, Inv, SfmtTypeOK
<1>4. CASE Exact
  <2>1. good = Written(size + 1) /\ nret = Returned(size + 1) /\ nret = size
    BY <1>4 DEF Exact, Inv, LastPass
  <2>2. nret = want /\ good = want
    BY <1>1, <2>1, PassEffect
  <2> QED
    BY <1>1, <1>4, <2>1, <2>2 DEF Exact, Inv, SfmtTypeOK
<1>5. CASE Again
  <2>1. nret = Returned(size + 1) /\ nret > size
    BY <1>5 DEF Again, Inv, LastPass
  <2>2. nret = want
    BY <1>1, <2>1, PassEffect
  <2>3. /\ size' = want
        /\ good' = Written(want + 1)
        /\ nret' = Returned(want + 1)
    BY <1>5, <2>2 DEF Again, Format
  <2>4. good' = want /\ nret' \in Nat \cup {-1}
    BY <1>1, <2>3, PassEffect
  <2> QED
    BY <1>1, <1>5, <2>3, <2>4 DEF Again, Inv, SfmtTypeOK
<1>6. CASE TooLong
  <2>1. nret = Returned(size + 1) /\ nret < 0
    BY <1>6 DEF TooLong, Inv, LastPass
  <2>2. runtime # "c99"
    BY <1>1, <2>1, SMT DEF Returned
  <2> QED
    BY <1>6, <2>2 DEF TooLong, Inv, SfmtTypeOK
<1>7. CASE Grow
  <2> DEFINE longer == (size * 3) \div 2
  <2>1. longer \in Nat
    BY <1>1
  <2>2. /\ size' = longer
        /\ good' = Written(longer + 1)
        /\ nret' = Returned(longer + 1)
    BY <1>7 DEF Grow, Format
  <2>3. SfmtTypeOK'
    BY <1>1, <1>7, <2>1, <2>2, PassEffect DEF Grow, SfmtTypeOK
  <2>4. LastPass'
    BY <1>7, <2>2 DEF Grow, LastPass, Written, Returned, Room
  <2>5. runtime' # "c99" /\ sfmtPc' \in {"grow", "trim"} /\ (sfmtPc' = "trim" => nret' >= 0)
    BY <1>1, <1>7, <2>3 DEF Grow, Inv, SfmtTypeOK
  <2> QED
    BY <1>7, <2>3, <2>4, <2>5 DEF Inv
<1>8. CASE Trim
  <2>1. good = Written(size + 1) /\ nret = Returned(size + 1) /\ nret >= 0 /\ runtime # "c99"
    BY <1>8 DEF Trim, Inv, LastPass
  <2>2. nret = want /\ good = want
    BY <1>1, <2>1, PassEffect
  <2>3. good <= size + 1 /\ (runtime # "msvc2013" => good <= size)
    BY <1>1, <2>1, PassEffect
  <2>4. /\ size' = want
        /\ good' = Smaller(want, Smaller(size, want))
    BY <1>8, <2>2 DEF Trim, Resize
  <2>5. good' \in 0 .. want /\ good' >= want - 1 /\ (runtime # "msvc2013" => good' = want)
    BY <1>1, <2>2, <2>3, <2>4 DEF Smaller
  <2> QED
    BY <1>1, <1>8, <2>4, <2>5 DEF Trim, Inv, SfmtTypeOK
<1>9. CASE UNCHANGED sfmtVars
  BY <1>9 DEF sfmtVars, Inv, SfmtTypeOK, LastPass, Written, Returned, Room
<1> QED
  BY <1>2, <1>3, <1>4, <1>5, <1>6, <1>7, <1>8, <1>9 DEF SfmtNext

(* Every run of odbk_sfmt keeps Inv. *)
LEMMA InvAlways == SfmtSpec => []Inv
  BY InitInv, NextInv, PTL DEF SfmtSpec

(* No pass writes behind the buffer's terminator (odbk_utils.cpp:103-129). *)
THEOREM SfmtTypeCorrect == SfmtSpec => []SfmtTypeOK
<1>1. Inv => SfmtTypeOK
  BY DEF Inv
<1> QED
  BY <1>1, InvAlways, PTL

(* The string returned is the text, except with the runtime of VS 2013. *)
THEOREM TextCorrect == SfmtSpec => []TextExact
<1>1. Inv => TextExact
  BY DEF Inv, TextExact
<1> QED
  BY <1>1, InvAlways, PTL

(* The string has the text's length, and at most its last character is lost. *)
THEOREM LengthCorrect == SfmtSpec => []LengthExact
<1>1. Inv => LengthExact
  BY DEF Inv, LengthExact
<1> QED
  BY <1>1, InvAlways, PTL

-----------------------------------------------------------------------------
(***************************************************************************)
(* Why odbk_sfmt comes to its end: the part of Terminates that needs no    *)
(* fairness.  While the loop goes on, the buffer is shorter than the text  *)
(* (GrowInv), and each pass makes it longer.                               *)
(***************************************************************************)
StepsLeft ==
  CASE sfmtPc = "start" -> want + 4
    [] sfmtPc = "test"  -> want + 3
    [] sfmtPc = "grow"  -> (want - size) + 1
    [] sfmtPc = "trim"  -> 1
    [] sfmtPc = "done"  -> 0

BufferBounded == size <= Initial \/ 2 * size <= 3 * want

GrowInv ==
  /\ Inv
  /\ sfmtPc = "grow" => size < want
  /\ size >= Initial \/ sfmtPc = "done"
  /\ BufferBounded

(* A pass returns -1 only for a text that is longer than its buffer. *)
LEMMA TooLongReturned ==
  ASSUME SfmtTypeOK, NEW n \in Nat, Returned(n + 1) < 0
  PROVE  n < want
BY SfmtAssumption DEF SfmtTypeOK, Returned, Room

LEMMA GrowNext ==
  ASSUME GrowInv, [SfmtNext]_sfmtVars
  PROVE  /\ GrowInv'
         /\ SfmtNext => StepsLeft' < StepsLeft
<1>1. /\ SfmtTypeOK /\ want \in Nat /\ size \in Nat /\ nret \in Nat \cup {-1}
      /\ Initial \in Nat \ {0, 1} /\ Inv'
  BY SfmtAssumption, NextInv DEF GrowInv, Inv, SfmtTypeOK
<1>2. /\ sfmtPc = "grow" => size < want
      /\ size >= Initial \/ sfmtPc = "done"
      /\ size <= Initial \/ 2 * size <= 3 * want
  BY DEF GrowInv, BufferBounded
<1> DEFINE Kept == GrowInv' /\ StepsLeft' < StepsLeft
<1>3. ASSUME First PROVE Kept
  <2>1. sfmtPc = "start" /\ sfmtPc' = "test" /\ UNCHANGED <<want, size>>
    BY <1>3 DEF First, Format
  <2>2. StepsLeft' = want + 3 /\ StepsLeft = want + 4
    BY <2>1 DEF StepsLeft
  <2> QED
    BY <1>1, <1>2, <2>1, <2>2 DEF GrowInv, BufferBounded
<1>4. ASSUME Fits \/ Exact \/ Again \/ Trim PROVE Kept
  <2>1. sfmtPc \in {"test", "trim"} /\ sfmtPc' = "done" /\ want' = want
    BY <1>4 DEF Fits, Exact, Again, Trim
  <2>2. size' = want
    BY <1>1, <2>1 DEF Inv
  <2>3. StepsLeft' = 0 /\ (StepsLeft = want + 3 \/ StepsLeft = 1)
    BY <2>1 DEF StepsLeft
  <2> QED
    BY <1>1, <2>1, <2>2, <2>3 DEF GrowInv, BufferBounded
<1>5. ASSUME TooLong PROVE Kept
  <2>1. sfmtPc = "test" /\ sfmtPc' = "grow" /\ nret < 0 /\ UNCHANGED <<want, size>>
    BY <1>5 DEF TooLong
  <2>2. nret = Returned(size + 1)
    BY <2>1 DEF GrowInv, Inv, LastPass
  <2>3. size < want
    BY <1>1, <2>1, <2>2, TooLongReturned
  <2>4. StepsLeft' = (want - size) + 1 /\ StepsLeft = want + 3
    BY <2>1 DEF StepsLeft
  <2> QED
    BY <1>1, <1>2, <2>1, <2>3, <2>4 DEF GrowInv, BufferBounded
<1>6. ASSUME Grow PROVE Kept
  <2> DEFINE longer == (size * 3) \div 2
  <2>1. /\ sfmtPc = "grow" /\ want' = want /\ size' = longer
        /\ nret' = Returned(longer + 1)
        /\ sfmtPc' = IF nret' < 0 THEN "grow" ELSE "trim"
    BY <1>6 DEF Grow, Format
  <2>2. longer \in Nat /\ longer > size /\ 2 * longer <= 3 * size
    BY <1>1, <1>2, <2>1
  <2> HIDE DEF longer
  <2>3. sfmtPc' = "grow" => longer < want
    BY <1>1, <2>1, <2>2, TooLongReturned
  <2>4. /\ StepsLeft = (want - size) + 1
        /\ sfmtPc' = "grow" => StepsLeft' = (want - longer) + 1
        /\ sfmtPc' = "trim" => StepsLeft' = 1
    BY <2>1 DEF StepsLeft
  <2>5. size < want
    BY <1>2, <2>1
  <2>6. StepsLeft' < StepsLeft
    BY <1>1, <2>1, <2>2, <2>4, <2>5
  <2> QED
    BY <1>1, <1>2, <2>1, <2>2, <2>3, <2>5, <2>6 DEF GrowInv, BufferBounded
<1>7. ASSUME UNCHANGED sfmtVars PROVE GrowInv'
  BY <1>1, <1>2, <1>7 DEF sfmtVars, GrowInv, BufferBounded
<1>8. SfmtNext => Kept
  BY <1>3, <1>4, <1>5, <1>6 DEF SfmtNext
<1> QED
  BY <1>7, <1>8

LEMMA GrowCorrect == SfmtSpec => []GrowInv
<1>1. SfmtInit => GrowInv
  <2>1. SfmtInit => size = Initial /\ sfmtPc = "start" /\ Initial \in Nat
    BY SfmtAssumption DEF SfmtInit
  <2> QED
    BY <2>1, InitInv DEF GrowInv, BufferBounded
<1> QED
  BY <1>1, GrowNext, PTL DEF SfmtSpec

(* However long the text, the buffer grows to half as much again at most.  *)
THEOREM BufferCorrect == SfmtSpec => []BufferBounded
<1>1. GrowInv => BufferBounded
  BY DEF GrowInv
<1> QED
  BY <1>1, GrowCorrect, PTL

(* Each pass and each branch brings odbk_sfmt nearer to its end, for every *)
(* text, every buffer and every runtime: the loop runs want passes at most *)
(* (odbk_utils.cpp:115-124).                                               *)
THEOREM SfmtShrinks == SfmtSpec => [](StepsLeft \in Nat) /\ [][StepsLeft' < StepsLeft]_sfmtVars
<1>1. GrowInv => StepsLeft \in Nat
  <2> SUFFICES ASSUME GrowInv PROVE StepsLeft \in Nat
    OBVIOUS
  <2>1. want \in Nat /\ size \in Nat /\ sfmtPc \in {"start", "test", "grow", "trim", "done"}
    BY SfmtAssumption DEF GrowInv, Inv, SfmtTypeOK
  <2>2. sfmtPc = "grow" => size < want
    BY DEF GrowInv
  <2> QED
    BY <2>1, <2>2 DEF StepsLeft
<1>2. GrowInv /\ [SfmtNext]_sfmtVars => [StepsLeft' < StepsLeft]_sfmtVars
  BY GrowNext
<1> QED
  BY <1>1, <1>2, GrowCorrect, PTL DEF SfmtSpec
=============================================================================
