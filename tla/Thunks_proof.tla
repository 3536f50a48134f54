---------------------------- MODULE Thunks_proof ----------------------------
(***************************************************************************)
(* Theorems about the thunks, for words of any size (the code's have 32    *)
(* bits, those of the model checker four), any integers and any stack.     *)
(***************************************************************************)
EXTENDS Thunks, SequenceTheorems, TLAPS

Item == Word \cup {L, Idx, IsNum} \cup {Host[i] : i \in DOMAIN Host}

(* The integer the engine makes of n: n, if it has as many words. *)
Understood == IF TwoWords \/ n \in Signed(Base)
                THEN n
                ELSE IF LowPart(n) < Base \div 2 THEN LowPart(n) ELSE LowPart(n) - Base

Returned ==
  /\ value \in EngineIntegers
  /\ eax = LowPart(value)
  /\ TwoWords => edx = HighPart(value)

Inv ==
  /\ n \in Arguments
  /\ fn \in Thunked
  /\ ThunkTypeOK
  /\ thunkPc \in {"push", "done"} => stack = Host
  /\ thunkPc \in {"call", "clean"} => stack = Host \o Pushes
  /\ thunkPc \in {"clean", "done"} => Returned
  /\ EngineGetsCall
  /\ thunkPc = "done" /\ fn = "lua_tointegerx" => result = Result

-----------------------------------------------------------------------------
(* Words and the integers they make up.                                    *)

LEMMA Even ==
  ASSUME NEW B \in Nat \ {0}, B % 2 = 0
  PROVE  \E h \in Nat \ {0} : B = 2 * h /\ B \div 2 = h /\ (B * B) \div 2 = B * h
BY Z3

LEMMA Halves ==
  \E h \in Nat \ {0} : Base = 2 * h /\ Base \div 2 = h /\ (Base * Base) \div 2 = Base * h
<1>1. Base \in Nat \ {0} /\ Base % 2 = 0
  BY ThunkAssumption
<1> QED
  BY <1>1, Even

LEMMA DivMod ==
  ASSUME NEW B \in Nat \ {0}, NEW i \in Int
  PROVE  i \div B \in Int /\ i % B \in 0 .. B - 1 /\ i = B * (i \div B) + (i % B)
BY Z3

LEMMA ModUnique ==
  ASSUME NEW B \in Nat \ {0}, NEW k \in Int, NEW r \in 0 .. B - 1, NEW i \in Int, i = B * k + r
  PROVE  i % B = r
BY Z3

LEMMA ModBelow ==
  ASSUME NEW B \in Nat \ {0}, NEW r \in 0 .. B - 1, NEW i \in Int, i = r - B
  PROVE  i % B = r
BY Z3

LEMMA TimesMonotonic ==
  ASSUME NEW B \in Nat \ {0}, NEW x \in Int, NEW y \in Int, x <= y
  PROVE  B * x \in Int /\ B * y \in Int /\ B * x <= B * y
BY Z3

LEMMA PartsType ==
  ASSUME NEW i \in Int
  PROVE  LowPart(i) \in Word /\ HighPart(i) \in Word
<1>1. Base \in Nat \ {0}
  BY ThunkAssumption
<1> QED
  BY <1>1, DivMod DEF LowPart, HighPart, Word

(* Two words hold an integer of that width, whatever its sign. *)
LEMMA QuadOfParts ==
  ASSUME NEW i \in Signed(Base * Base)
  PROVE  QuadPart(LowPart(i), HighPart(i)) = i
<1>1. Base \in Nat \ {0} /\ i \in Int
  BY ThunkAssumption DEF Signed
<1>2. PICK h \in Nat \ {0} :
        Base = 2 * h /\ Base \div 2 = h /\ (Base * Base) \div 2 = Base * h
  BY Halves
<1> DEFINE q == i \div Base
           r == i % Base
<1>3. q \in Int /\ r \in 0 .. Base - 1 /\ i = Base * q + r
  BY <1>1, DivMod
<1>4. Base * h \in Int /\ -(Base * h) <= i /\ i <= Base * h - 1
  BY <1>1, <1>2 DEF Signed
<1> HIDE DEF q, r
<1>5. q <= h - 1
  <2> SUFFICES ASSUME h <= q PROVE FALSE
    BY <1>2, <1>3
  <2>1. Base * h <= Base * q /\ Base * q \in Int
    BY <1>1, <1>2, <1>3, TimesMonotonic
  <2> QED
    BY <1>1, <1>3, <1>4, <2>1
<1>6. -h <= q
  <2> SUFFICES ASSUME q <= -h - 1 PROVE FALSE
    BY <1>2, <1>3
  <2>1. Base * q <= Base * (-h - 1) /\ Base * q \in Int
    BY <1>1, <1>2, <1>3, TimesMonotonic
  <2>2. Base * (-h - 1) = -(Base * h) - Base
    BY <1>1, <1>2
  <2> QED
    BY <1>1, <1>3, <1>4, <2>1, <2>2
<1>7. LowPart(i) = r /\ HighPart(i) = q % Base
  BY DEF LowPart, HighPart, q, r
<1>8. CASE q >= 0
  <2>1. q = Base * 0 + q /\ q \in 0 .. Base - 1
    BY <1>1, <1>2, <1>3, <1>5, <1>8
  <2>2. q % Base = q
    BY <1>1, <2>1, ModUnique
  <2>3. QuadPart(r, q) = q * Base + r
    BY <1>2, <1>3, <1>5 DEF QuadPart
  <2>4. q * Base = Base * q
    BY <1>1, <1>3
  <2> QED
    BY <1>3, <1>7, <2>2, <2>3, <2>4
<1>9. CASE q < 0
  <2> DEFINE high == q + Base
  <2>1. high \in 0 .. Base - 1 /\ q = high - Base /\ ~(high < h)
    BY <1>1, <1>2, <1>3, <1>6, <1>9
  <2> HIDE DEF high
  <2>2. q % Base = high
    BY <1>1, <1>3, <2>1, ModBelow
  <2>3. QuadPart(r, high) = (high - Base) * Base + r
    BY <1>2, <2>1 DEF QuadPart
  <2>4. QuadPart(r, high) = q * Base + r
    BY <2>1, <2>3
  <2>5. q * Base = Base * q
    BY <1>1, <1>3
  <2> QED
    BY <1>3, <1>7, <2>2, <2>4, <2>5
<1> QED
  BY <1>3, <1>8, <1>9

(* What two words make up is an integer of that width. *)
LEMMA QuadType ==
  ASSUME NEW low \in Word, NEW high \in Word
  PROVE  QuadPart(low, high) \in Signed(Base * Base)
<1>1. PICK h \in Nat \ {0} :
        Base = 2 * h /\ Base \div 2 = h /\ (Base * Base) \div 2 = Base * h
  BY Halves
<1> DEFINE q == IF high < h THEN high ELSE high - Base
<1>2. Base \in Nat \ {0} /\ low \in 0 .. Base - 1 /\ high \in 0 .. Base - 1
  BY ThunkAssumption DEF Word
<1>3. q \in Int /\ -h <= q /\ q <= h - 1
  BY <1>1, <1>2
<1>4. QuadPart(low, high) = q * Base + low
  BY <1>1 DEF QuadPart
<1> HIDE DEF q
<1>5. q * Base = Base * q /\ Base * q \in Int
  BY <1>2, <1>3
<1>6. Base * q <= Base * (h - 1)
  BY <1>1, <1>2, <1>3, TimesMonotonic
<1>7. Base * (-h) <= Base * q
  BY <1>1, <1>2, <1>3, TimesMonotonic
<1>8. Base * (-h) = -(Base * h) /\ Base * (h - 1) = Base * h - Base /\ Base * h \in Int
  BY <1>1, <1>2
<1>9. QuadPart(low, high) \in -(Base * h) .. Base * h - 1
  BY <1>2, <1>4, <1>5, <1>6, <1>7, <1>8
<1> QED
  BY <1>1, <1>9 DEF Signed

(* One word holds an integer of its width. *)
LEMMA LowSigned ==
  ASSUME NEW i \in Signed(Base)
  PROVE  (IF LowPart(i) < Base \div 2 THEN LowPart(i) ELSE LowPart(i) - Base) = i
<1>1. PICK h \in Nat \ {0} :
        Base = 2 * h /\ Base \div 2 = h /\ (Base * Base) \div 2 = Base * h
  BY Halves
<1>2. Base \in Nat \ {0} /\ i \in Int /\ -h <= i /\ i <= h - 1
  BY <1>1, ThunkAssumption DEF Signed
<1>3. CASE i >= 0
  <2>1. i \in 0 .. Base - 1 /\ i = Base * 0 + i
    BY <1>1, <1>2, <1>3
  <2>2. i % Base = i
    BY <1>2, <2>1, ModUnique
  <2> QED
    BY <1>1, <1>2, <2>2 DEF LowPart
<1>4. CASE i < 0
  <2> DEFINE low == i + Base
  <2>1. low \in 0 .. Base - 1 /\ i = low - Base /\ ~(low < h)
    BY <1>1, <1>2, <1>4
  <2> HIDE DEF low
  <2>2. i % Base = low
    BY <1>2, <2>1, ModBelow
  <2> QED
    BY <1>1, <1>2, <2>1, <2>2 DEF LowPart
<1> QED
  BY <1>2, <1>3, <1>4

LEMMA LowNonNegative ==
  ASSUME NEW i \in Signed(Base), i >= 0
  PROVE  LowPart(i) = i
<1>1. PICK h \in Nat \ {0} :
        Base = 2 * h /\ Base \div 2 = h /\ (Base * Base) \div 2 = Base * h
  BY Halves
<1>2. Base \in Nat \ {0} /\ i \in 0 .. Base - 1 /\ i = Base * 0 + i
  BY <1>1, ThunkAssumption DEF Signed
<1> QED
  BY <1>2, ModUnique DEF LowPart

(* A word of an engine before 5.3, read as an integer, is one of two words. *)
LEMMA WordType ==
  ASSUME NEW w \in Word
  PROVE  (IF w < Base \div 2 THEN w ELSE w - Base) \in Signed(Base * Base)
<1>1. PICK h \in Nat \ {0} :
        Base = 2 * h /\ Base \div 2 = h /\ (Base * Base) \div 2 = Base * h
  BY Halves
<1>2. Base \in Nat \ {0} /\ w \in 0 .. Base - 1
  BY ThunkAssumption DEF Word
<1>3. Base * 1 <= Base * h /\ Base * h \in Int /\ Base * 1 = Base
  BY <1>1, <1>2, TimesMonotonic
<1>4. (IF w < Base \div 2 THEN w ELSE w - Base) \in -(Base * h) .. Base * h - 1
  BY <1>1, <1>2, <1>3
<1> QED
  BY <1>1, <1>4 DEF Signed

-----------------------------------------------------------------------------
(* Words on the stack.                                                     *)

LEMMA OnTop ==
  ASSUME NEW S, NEW s \in Seq(S), NEW w \in Seq(S)
  PROVE  /\ s \o w \in Seq(S)
         /\ \A i \in 1 .. Len(w) :
              (s \o w)[Len(s \o w) + 1 - i] = w[Len(w) + 1 - i]
         /\ SubSeq(s \o w, 1, Len(s \o w) - Len(w)) = s
<1>1. Len(s) \in Nat /\ Len(w) \in Nat
  BY LenProperties
<1>2. /\ s \o w \in Seq(S)
      /\ Len(s \o w) = Len(s) + Len(w)
      /\ \A i \in 1 .. Len(s) + Len(w) :
           (s \o w)[i] = IF i <= Len(s) THEN s[i] ELSE w[i - Len(s)]
  BY ConcatProperties
<1>3. ASSUME NEW i \in 1 .. Len(w)
      PROVE  (s \o w)[Len(s \o w) + 1 - i] = w[Len(w) + 1 - i]
  <2>1. /\ Len(s) + Len(w) + 1 - i \in 1 .. Len(s) + Len(w)
        /\ ~(Len(s) + Len(w) + 1 - i <= Len(s))
        /\ Len(s) + Len(w) + 1 - i - Len(s) = Len(w) + 1 - i
    BY <1>1
  <2> QED
    BY <1>2, <2>1
<1>4. SubSeq(s \o w, 1, Len(s)) = s
  <2>1. \A i \in 1 .. Len(s) : (s \o w)[i] = s[i] /\ s[i] \in S
    BY <1>1, <1>2, ElementOfSeq
  <2>2. /\ SubSeq(s \o w, 1, Len(s)) \in Seq(S)
        /\ Len(SubSeq(s \o w, 1, Len(s))) = Len(s)
        /\ \A i \in 1 .. Len(s) : SubSeq(s \o w, 1, Len(s))[i] = (s \o w)[i]
    BY <1>1, <2>1, SubSeqProperties
  <2> QED
    BY <2>1, <2>2, SeqEqual
<1>5. Len(s \o w) - Len(w) = Len(s)
  BY <1>1, <1>2
<1> QED
  BY <1>2, <1>3, <1>4, <1>5

(* What a thunk pushes are words, and as many as it takes off again. *)
LEMMA PushesType ==
  ASSUME fn \in Thunked, n \in Int
  PROVE  Pushes \in Seq(Item) /\ Len(Pushes) = WordsTaken
<1>1. LowPart(n) \in Item /\ HighPart(n) \in Item /\ {L, Idx, IsNum} \subseteq Item
  BY PartsType DEF Item
<1>2. CASE fn \in {"lua_rawgeti", "lua_rawseti"}
  <2>1. Pushes = Pushed(n) \o <<Idx, L>>
    BY <1>2 DEF Pushes
  <2>2. WordsTaken = IF TwoWords THEN 4 ELSE 3
    BY <1>2 DEF WordsTaken
  <2>3. CASE TwoWords
    BY <1>1, <2>1, <2>2, <2>3 DEF Pushed
  <2>4. CASE ~TwoWords
    BY <1>1, <2>1, <2>2, <2>4 DEF Pushed
  <2> QED
    BY <2>3, <2>4
<1>3. CASE fn = "lua_pushinteger"
  <2>1. Pushes = Pushed(n) \o <<L>>
    BY <1>3 DEF Pushes
  <2>2. WordsTaken = IF TwoWords THEN 3 ELSE 2
    BY <1>3 DEF WordsTaken
  <2>3. CASE TwoWords
    BY <1>1, <2>1, <2>2, <2>3 DEF Pushed
  <2>4. CASE ~TwoWords
    BY <1>1, <2>1, <2>2, <2>4 DEF Pushed
  <2> QED
    BY <2>3, <2>4
<1>4. CASE fn = "lua_tointegerx"
  BY <1>1, <1>4 DEF Pushes, WordsTaken
<1> QED
  BY <1>2, <1>3, <1>4 DEF Thunked

LEMMA HostType == Host \in Seq(Item)
<1>1. Host \in Seq({Host[i] : i \in DOMAIN Host})
  BY ThunkAssumption
<1>2. {Host[i] : i \in DOMAIN Host} \subseteq Item
  BY DEF Item
<1> QED
  BY <1>1, <1>2, SeqMonotonic

(* The engine's function sees, from the top, what the thunk pushed. *)
LEMMA SeenFromTop ==
  ASSUME fn \in Thunked, n \in Int, stack = Host \o Pushes
  PROVE  /\ stack \in Seq(Item)
         /\ \A i \in 1 .. WordsTaken : FromTop(i) = Pushes[WordsTaken + 1 - i]
         /\ SubSeq(stack, 1, Len(stack) - WordsTaken) = Host
<1> DEFINE w == Pushes
<1>1. w \in Seq(Item) /\ Len(w) = WordsTaken /\ Host \in Seq(Item)
  BY PushesType, HostType
<1> HIDE DEF w
<1>2. /\ Host \o w \in Seq(Item)
      /\ \A i \in 1 .. Len(w) : (Host \o w)[Len(Host \o w) + 1 - i] = w[Len(w) + 1 - i]
      /\ SubSeq(Host \o w, 1, Len(Host \o w) - Len(w)) = Host
  <2> HIDE DEF Item
  <2> QED
    BY <1>1, OnTop
<1>3. stack = Host \o w
  BY DEF w
<1>4. \A i \in 1 .. WordsTaken : FromTop(i) = w[WordsTaken + 1 - i]
  BY <1>1, <1>2, <1>3 DEF FromTop
<1> QED
  BY <1>1, <1>2, <1>3, <1>4 DEF w

LEMMA FoundRight ==
  ASSUME fn \in Thunked, n \in Signed(Base * Base), stack = Host \o Pushes
  PROVE  Found = [state |-> L,
                  idx |-> IF fn = "lua_pushinteger" THEN None ELSE Idx,
                  n |-> IF fn = "lua_tointegerx" THEN 0 ELSE Understood]
<1>0. n \in Int
  BY DEF Signed
<1>1. \A i \in 1 .. WordsTaken : FromTop(i) = Pushes[WordsTaken + 1 - i]
  BY <1>0, SeenFromTop
<1>2. TwoWords => QuadPart(LowPart(n), HighPart(n)) = n
  BY QuadOfParts
<1>3. n \in Signed(Base) =>
        (IF LowPart(n) < Base \div 2 THEN LowPart(n) ELSE LowPart(n) - Base) = n
  BY LowSigned
<1>4. CASE fn \in {"lua_rawgeti", "lua_rawseti"}
  <2>1. Pushes = Pushed(n) \o <<Idx, L>> /\ WordsTaken = IF TwoWords THEN 4 ELSE 3
    BY <1>4 DEF Pushes, WordsTaken
  <2>2. FromTop(1) = L /\ FromTop(2) = Idx /\ FromTop(3) = LowPart(n)
    <3>1. CASE TwoWords
      BY <1>1, <2>1, <3>1 DEF Pushed
    <3>2. CASE ~TwoWords
      BY <1>1, <2>1, <3>2 DEF Pushed
    <3> QED
      BY <3>1, <3>2
  <2>3. TwoWords => FromTop(4) = HighPart(n)
    BY <1>1, <2>1 DEF Pushed
  <2>4. IntegerAt(3) = Understood
    BY <1>2, <1>3, <2>2, <2>3 DEF IntegerAt, Understood
  <2> QED
    BY <1>4, <2>2, <2>4 DEF Found
<1>5. CASE fn = "lua_pushinteger"
  <2>1. Pushes = Pushed(n) \o <<L>> /\ WordsTaken = IF TwoWords THEN 3 ELSE 2
    BY <1>5 DEF Pushes, WordsTaken
  <2>2. FromTop(1) = L /\ FromTop(2) = LowPart(n)
    <3>1. CASE TwoWords
      BY <1>1, <2>1, <3>1 DEF Pushed
    <3>2. CASE ~TwoWords
      BY <1>1, <2>1, <3>2 DEF Pushed
    <3> QED
      BY <3>1, <3>2
  <2>3. TwoWords => FromTop(3) = HighPart(n)
    BY <1>1, <2>1 DEF Pushed
  <2>4. IntegerAt(2) = Understood
    BY <1>2, <1>3, <2>2, <2>3 DEF IntegerAt, Understood
  <2> QED
    BY <1>5, <2>2, <2>4 DEF Found
<1>6. CASE fn = "lua_tointegerx"
  <2>1. Pushes = <<IsNum, Idx, L>> /\ WordsTaken = 3
    BY <1>6 DEF Pushes, WordsTaken
  <2>2. FromTop(1) = L /\ FromTop(2) = Idx
    BY <1>1, <2>1
  <2> QED
    BY <1>6, <2>2 DEF Found
<1> QED
  BY <1>4, <1>5, <1>6 DEF Thunked

-----------------------------------------------------------------------------
(* The invariant, one step per action.                                     *)

LEMMA UnderstoodType ==
  ASSUME n \in Signed(Base * Base)
  PROVE  Understood \in Signed(Base * Base)
<1>1. LowPart(n) \in Word
  BY PartsType DEF Signed
<1> QED
  BY <1>1, WordType DEF Understood

LEMMA ZeroType == 0 \in Word /\ 0 \in Signed(Base * Base)
<1>1. Base \in Nat \ {0}
  BY ThunkAssumption
<1>2. 0 \in Word
  BY <1>1 DEF Word
<1>3. QuadPart(0, 0) = 0
  <2>1. PICK h \in Nat \ {0} : Base \div 2 = h
    BY Halves
  <2> QED
    BY <1>1, <2>1 DEF QuadPart
<1> QED
  BY <1>2, <1>3, QuadType

LEMMA InitInv == ThunkInit => Inv
<1> SUFFICES ASSUME ThunkInit PROVE Inv
  OBVIOUS
<1>1. got \in [state : {None, L}, idx : {None, Idx}, n : Signed(Base * Base)]
  BY ZeroType DEF ThunkInit, NoCall
<1>2. stack \in Seq(Item)
  BY HostType DEF ThunkInit
<1> QED
  BY <1>1, <1>2, ZeroType DEF ThunkInit, Inv, ThunkTypeOK, EngineGetsCall, Item

LEMMA PushInv == Inv /\ Push => Inv'
<1> SUFFICES ASSUME Inv, Push PROVE Inv'
  OBVIOUS
<1>1. n \in Int
  BY ThunkAssumption DEF Inv, Signed
<1>2. stack' = Host \o Pushes /\ Pushes' = Pushes
  <2>1. stack' = stack \o Pushes /\ stack = Host /\ UNCHANGED <<version, fn, n>>
    BY DEF Push, Inv
  <2>2. Pushes' = Pushes
    BY <2>1, ZenonT(30) DEF Pushes, Pushed, TwoWords
  <2> QED
    BY <2>1, <2>2
<1>3. stack' \in Seq(Item)
  <2>1. Pushes \in Seq(Item) /\ Host \in Seq(Item)
    BY <1>1, PushesType, HostType DEF Inv
  <2> HIDE DEF Item, Pushes
  <2> QED
    BY <1>2, <2>1, ConcatProperties
<1>4. ThunkTypeOK'
  BY <1>3 DEF Push, Inv, ThunkTypeOK, Item
<1> QED
  BY <1>2, <1>4 DEF Push, Inv, EngineGetsCall

LEMMA CallInv == Inv /\ Call => Inv'
<1> SUFFICES ASSUME Inv, Call PROVE Inv'
  OBVIOUS
<1>1. n \in Signed(Base * Base)
  BY ThunkAssumption DEF Inv
<1>2. fn \in Thunked /\ stack = Host \o Pushes /\ thunkPc = "call" /\ thunkPc' = "clean"
  BY DEF Inv, Call
<1>3. UNCHANGED <<version, fn, n, stack, result>>
  BY DEF Call
<1>4. got' = [state |-> L,
              idx |-> IF fn = "lua_pushinteger" THEN None ELSE Idx,
              n |-> IF fn = "lua_tointegerx" THEN 0 ELSE Understood]
  BY <1>1, <1>2, FoundRight DEF Call
<1>5. got' \in [state : {None, L}, idx : {None, Idx}, n : Signed(Base * Base)]
  BY <1>1, <1>4, UnderstoodType, ZeroType
<1>6. Returned' /\ eax' \in Word /\ edx' \in Word
  <2>1. PICK v \in EngineIntegers, rest \in Word :
          value' = v /\ eax' = LowPart(v) /\ edx' = IF TwoWords THEN HighPart(v) ELSE rest
    BY DEF Call
  <2>2. v \in Int
    BY ThunkAssumption DEF EngineIntegers, Signed
  <2>3. TwoWords' = TwoWords /\ EngineIntegers' = EngineIntegers
    BY <1>3 DEF TwoWords, EngineIntegers
  <2>4. LowPart(v) \in Word /\ HighPart(v) \in Word
    BY <2>2, PartsType
  <2> QED
    BY <2>1, <2>3, <2>4 DEF Returned, LowPart, HighPart
<1>7. EngineGetsCall'
  BY <1>2, <1>3, <1>4 DEF EngineGetsCall, Understood, TwoWords
<1>8. Pushes' = Pushes
  BY <1>3 DEF Pushes, Pushed, TwoWords
<1>9. ThunkTypeOK'
  BY <1>2, <1>3, <1>5, <1>6 DEF Inv, ThunkTypeOK
<1> QED
  BY <1>2, <1>3, <1>6, <1>7, <1>8, <1>9 DEF Inv

LEMMA CleanInv == Inv /\ Clean => Inv'
<1> SUFFICES ASSUME Inv, Clean PROVE Inv'
  OBVIOUS
<1>1. n \in Int
  BY ThunkAssumption DEF Inv, Signed
<1>2. fn \in Thunked /\ stack = Host \o Pushes /\ thunkPc = "clean" /\ thunkPc' = "done"
  BY DEF Inv, Clean
<1>3. UNCHANGED <<version, fn, n, got, value, eax, edx>>
  BY DEF Clean
<1>4. stack' = Host
  BY <1>1, <1>2, SeenFromTop DEF Clean
<1>5. eax \in Word /\ edx \in Word /\ result \in Signed(Base * Base)
  BY DEF Inv, ThunkTypeOK
<1>6. Result \in Signed(Base * Base)
  BY <1>5, ZeroType, QuadType DEF Result
<1>7. result' = IF fn = "lua_tointegerx" THEN Result ELSE result
  BY DEF Clean
<1>8. ThunkTypeOK'
  BY <1>2, <1>3, <1>4, <1>5, <1>6, <1>7, HostType DEF Inv, ThunkTypeOK, Item
<1>9. Returned' /\ EngineGetsCall' /\ Result' = Result
  BY <1>2, <1>3 DEF Inv, Returned, EngineGetsCall, EngineIntegers, TwoWords, Result
<1> QED
  BY <1>2, <1>3, <1>4, <1>7, <1>8, <1>9 DEF Inv

LEMMA NextInv == Inv /\ [ThunkNext]_thunkVars => Inv'
<1> SUFFICES ASSUME Inv, [ThunkNext]_thunkVars PROVE Inv'
  OBVIOUS
<1>1. CASE Push
  BY <1>1, PushInv
<1>2. CASE Call
  BY <1>2, CallInv
<1>3. CASE CallNull
  BY <1>3 DEF CallNull, Inv, ThunkTypeOK, EngineGetsCall
<1>4. CASE Clean
  BY <1>4, CleanInv
<1>5. CASE UNCHANGED thunkVars
  <2>1. Pushes' = Pushes /\ Result' = Result
    BY <1>5 DEF thunkVars, Pushes, Pushed, TwoWords, Result
  <2>2. Returned' = Returned
    BY <1>5 DEF thunkVars, Returned, EngineIntegers, TwoWords
  <2>3. ThunkTypeOK' /\ EngineGetsCall'
    BY <1>5 DEF thunkVars, Inv, ThunkTypeOK, EngineGetsCall, TwoWords
  <2> QED
    BY <1>5, <2>1, <2>2, <2>3 DEF thunkVars, Inv
<1> QED
  BY <1>1, <1>2, <1>3, <1>4, <1>5 DEF ThunkNext

LEMMA InvCorrect == ThunkSpec => []Inv
BY InitInv, NextInv, PTL DEF ThunkSpec

-----------------------------------------------------------------------------
(* Type correctness: registers hold words, and an integer that is put      *)
(* together from two words is one of two words (lua_LargeInteger).         *)
THEOREM ThunkTypeCorrect == ThunkSpec => []ThunkTypeOK
<1>1. Inv => ThunkTypeOK
  BY DEF Inv
<1> QED
  BY <1>1, InvCorrect, PTL

(* For words of any size, every version and every integer the engine's     *)
(* function gets the arguments the debugger passed (odbk_lload.cpp, the    *)
(* pushes of the thunks).                                                  *)
THEOREM GetsCallCorrect == ThunkSpec => []EngineGetsCall
<1>1. Inv => EngineGetsCall
  BY DEF Inv
<1> QED
  BY <1>1, InvCorrect, PTL

(* Whatever the caller has on the stack, a thunk leaves it as it was       *)
(* (odbk_lload.cpp, "add esp" of each branch).                             *)
THEOREM StackCorrect == ThunkSpec => []StackRestored
<1>1. Inv => StackRestored
  BY DEF Inv, StackRestored
<1> QED
  BY <1>1, InvCorrect, PTL

(* For words of any size the integer an engine returned is what the thunk  *)
(* returns, except that engines before 5.3 lose the sign                   *)
(* (odbk_lload.cpp, __lua_tointegerx__thunk).                              *)
THEOREM ResultCorrect == ThunkSpec => []ResultArrives
<1>1. Inv => ResultArrives
  <2> SUFFICES ASSUME Inv, thunkPc = "done", fn = "lua_tointegerx"
               PROVE  /\ TwoWords \/ value >= 0 => result = value
                      /\ ~TwoWords => result = LowPart(value)
    BY DEF ResultArrives
  <2>1. Returned /\ result = QuadPart(eax, IF TwoWords THEN edx ELSE 0)
    BY DEF Inv, Result
  <2>2. CASE TwoWords
    <3>1. value \in Signed(Base * Base)
      BY <2>1, <2>2, ThunkAssumption DEF Returned, EngineIntegers
    <3> QED
      BY <2>1, <2>2, <3>1, QuadOfParts DEF Returned
  <2>3. CASE ~TwoWords
    <3>1. value \in Signed(Base) /\ value \in Int
      BY <2>1, <2>3 DEF Returned, EngineIntegers, Signed
    <3>2. LowPart(value) \in Word /\ LowPart(value) \in Int
      BY <3>1, PartsType, ThunkAssumption DEF Word
    <3>3. QuadPart(LowPart(value), 0) = LowPart(value)
      <4>1. PICK h \in Nat \ {0} : Base \div 2 = h
        BY Halves
      <4>2. 0 * Base = 0
        BY ThunkAssumption
      <4> QED
        BY <3>2, <4>1, <4>2 DEF QuadPart
    <3>4. value >= 0 => LowPart(value) = value
      BY <3>1, LowNonNegative
    <3> QED
      BY <2>1, <2>3, <3>3, <3>4 DEF Returned
  <2> QED
    BY <2>2, <2>3
<1> QED
  BY <1>1, InvCorrect, PTL
=============================================================================
