-------------------------------- MODULE Sfmt --------------------------------
(***************************************************************************)
(* odbk_sfmt (odbk_utils.cpp): the text of a log message, formatted into a *)
(* std::string that grows until the text fits.  What vsnprintf does with a *)
(* text that does not fit depends on the C runtime; the code is written    *)
(* for all of them (odbk_utils.h:11, "pitfall").                           *)
(*                                                                         *)
(* Of the text only its length is kept, and of the string how long it is   *)
(* and how many characters, from the front, are those of the text.         *)
(***************************************************************************)
EXTENDS Integers

CONSTANTS
  Initial,  \* YASIO_VSNPRINTF_BUFFER_LENGTH
  Texts,    \* the lengths of the texts to format
  Runtimes  \* of "c99", "glibc" and "msvc2013"

ASSUME SfmtAssumption ==
  /\ Initial \in Nat \ {0, 1}
  /\ Texts \subseteq Nat
  /\ Runtimes \subseteq {"c99", "glibc", "msvc2013"}

VARIABLES
  runtime,  \* the C runtime
  want,     \* the length of the text
  size,     \* buffer.length()
  good,     \* the characters in place; one may stand in the terminator's slot
  nret,     \* what vsnprintf returned
  sfmtPc    \* "start", "test", "grow", "trim" or "done"

sfmtVars == <<runtime, want, size, good, nret, sfmtPc>>

Smaller(m, n) == IF m <= n THEN m ELSE n

SfmtInit ==
  /\ runtime \in Runtimes
  /\ want \in Texts
  /\ size = Initial
  /\ good = 0
  /\ nret = 0
  /\ sfmtPc = "start"

(***************************************************************************)
(* External: vsnprintf into a space of count characters.  All but the      *)
(* runtime of Visual Studio 2013 keep one for the terminator.  If the text *)
(* does not fit, C99 returns its length, the others return -1.  A failure  *)
(* for another reason (a character that cannot be encoded, a length above  *)
(* INT_MAX) is not modelled: it would come back with every pass, and the   *)
(* do loop would not end.                                                  *)
(***************************************************************************)
Room(count) == IF runtime = "msvc2013" THEN count ELSE count - 1
Written(count) == Smaller(want, Room(count))
Returned(count) == IF runtime = "c99" \/ want <= Room(count) THEN want ELSE -1

(* Mutant: the space is counted with one terminator too many. *)
FormatPastEnd(n) ==
  /\ size' = n
  /\ good' = Written(n + 2)
  /\ nret' = Returned(n + 2)

(* vsnprintf(&buffer.front(), buffer.length() + 1, ...) with length n. *)
Format(n) ==
  /\ size' = n
  /\ good' = Written(n + 1)
  /\ nret' = Returned(n + 1)

(* std::string::resize: new characters are '\0', from the old length on. *)
Resize(n) ==
  /\ size' = n
  /\ good' = Smaller(good, Smaller(size, n))

First ==
  /\ sfmtPc = "start"
  /\ Format(size)
  /\ sfmtPc' = "test"
  /\ UNCHANGED <<runtime, want>>

(* Shorter than the buffer. *)
Fits ==
  /\ sfmtPc = "test"
  /\ nret >= 0
  /\ nret < size
  /\ Resize(nret)
  /\ sfmtPc' = "done"
  /\ UNCHANGED <<runtime, want, nret>>

(* Mutant: a text of the buffer's length goes the way of a longer one, *)
(* but the buffer is not made longer.                                  *)
ExactTruncates ==
  /\ sfmtPc = "test"
  /\ nret >= size
  /\ sfmtPc' = "done"
  /\ UNCHANGED <<runtime, want, size, good, nret>>

(* "else equals, do nothing." *)
Exact ==
  /\ sfmtPc = "test"
  /\ nret = size
  /\ sfmtPc' = "done"
  /\ UNCHANGED <<runtime, want, size, good, nret>>

(* Longer, and the length is known: once more into a string of that length. *)
Again ==
  /\ sfmtPc = "test"
  /\ nret > size
  /\ Format(nret)
  /\ sfmtPc' = "done"
  /\ UNCHANGED <<runtime, want>>

TooLong ==
  /\ sfmtPc = "test"
  /\ nret < 0
  /\ sfmtPc' = "grow"
  /\ UNCHANGED <<runtime, want, size, good, nret>>

(* Mutant: the buffer is formatted into again without growing. *)
GrowNot ==
  /\ sfmtPc = "grow"
  /\ Format(size)
  /\ sfmtPc' = IF nret' < 0 THEN "grow" ELSE "trim"
  /\ UNCHANGED <<runtime, want>>

(* The body of the do loop. *)
Grow ==
  /\ sfmtPc = "grow"
  /\ Format((size * 3) \div 2)
  /\ sfmtPc' = IF nret' < 0 THEN "grow" ELSE "trim"
  /\ UNCHANGED <<runtime, want>>

(* Mutant: the buffer is returned as it is. *)
TrimNot ==
  /\ sfmtPc = "trim"
  /\ sfmtPc' = "done"
  /\ UNCHANGED <<runtime, want, size, good, nret>>

Trim ==
  /\ sfmtPc = "trim"
  /\ Resize(nret)
  /\ sfmtPc' = "done"
  /\ UNCHANGED <<runtime, want, nret>>

SfmtNext == First \/ Fits \/ Exact \/ Again \/ TooLong \/ Grow \/ Trim

SfmtSpec == SfmtInit /\ [][SfmtNext]_sfmtVars

(* odbk_sfmt is straight code on one thread. *)
SfmtFairSpec == SfmtSpec /\ WF_sfmtVars(SfmtNext)

-----------------------------------------------------------------------------
(* Type correctness; no call writes behind the terminator's slot. *)
SfmtTypeOK ==
  /\ runtime \in Runtimes
  /\ want \in Texts
  /\ size \in Nat
  /\ good \in 0 .. size + 1
  /\ nret \in Nat \cup {-1}
  /\ sfmtPc \in {"start", "test", "grow", "trim", "done"}

(***************************************************************************)
(* The string that odbk_sfmt returns is the text, for every length: also   *)
(* the lengths next to the buffer's, where the first pass has cut the text *)
(* and must be repeated, or has not and need not.  The runtime of Visual   *)
(* Studio 2013 is left out: it may cost the last character (LengthExact).  *)
(***************************************************************************)
TextExact ==
  sfmtPc = "done" /\ runtime # "msvc2013" => size = want /\ good = want

(***************************************************************************)
(* With every runtime the string has the length of the text, and all of    *)
(* it but possibly the last character.                                     *)
(***************************************************************************)
LengthExact ==
  sfmtPc = "done" => size = want /\ good >= want - 1

(* The do loop ends, where vsnprintf fails for want of room only: the     *)
(* buffer outgrows every text.                                            *)
Terminates == <>(sfmtPc = "done")
=============================================================================
