---------------------------- MODULE SymFile_proof ----------------------------
(***************************************************************************)
(* What holds of the file names the symbol walk looks for, for modules,    *)
(* CodeView records and an extension of any names.                         *)
(***************************************************************************)
EXTENDS SymFile, SequenceTheorems, WellFoundedInduction, TLAPS

-----------------------------------------------------------------------------
(* A set of positions that is not empty has a last one. *)
LEMMA LastPlace ==
  ASSUME NEW n \in Nat, NEW P, P \subseteq 1 .. n, P # {}
  PROVE  \E i \in P : \A j \in P : j <= i
<1> DEFINE Distances == {n - i : i \in P}
           Below == OpToRel(<, Nat)
<1>1. Distances \subseteq Nat /\ Distances # {}
  <2>1. \A i \in P : n - i \in Nat
    OBVIOUS
  <2> QED BY <2>1
<1>2. IsWellFoundedOn(Below, Nat)
  BY NatLessThanWellFounded
<1>3. \A x, y \in Nat : <<x, y>> \in Below <=> x < y
  BY DEF OpToRel
<1> HIDE DEF Below
<1>4. PICK d \in Distances : \A e \in Distances : ~(<<e, d>> \in Below)
  <2> HIDE DEF Distances
  <2> QED BY <1>1, <1>2, WFMin
<1>5. PICK i \in P : d = n - i
  OBVIOUS
<1>6. \A j \in P : n - j \in Distances /\ ~(n - j < n - i)
  BY <1>1, <1>3, <1>4, <1>5
<1>7. \A j \in P : j <= i
  BY <1>6
<1> QED
  BY <1>7

(* strrchr: the last place of a character, or 0. *)
LEMMA LastOfIs ==
  ASSUME NEW name \in Seq(Characters), NEW c
  PROVE  /\ LastOf(name, c) \in 0 .. Len(name)
         /\ LastOf(name, c) > 0 => name[LastOf(name, c)] = c
         /\ \A i \in LastOf(name, c) + 1 .. Len(name) : name[i] # c
<1> DEFINE places == {i \in DOMAIN name : name[i] = c}
           last == CHOOSE i \in places : \A j \in places : j <= i
<1>1. Len(name) \in Nat /\ DOMAIN name = 1 .. Len(name)
  BY LenProperties
<1>2. \A i : i \in places <=> i \in 1 .. Len(name) /\ name[i] = c
  BY <1>1
<1>3. LastOf(name, c) = IF places = {} THEN 0 ELSE last
  BY DEF LastOf
<1>4. ASSUME places # {} PROVE last \in places /\ \A j \in places : j <= last
  <2>1. places \subseteq 1 .. Len(name)
    BY <1>2
  <2>2. \E i \in places : \A j \in places : j <= i
    <3> HIDE DEF places
    <3> QED BY <1>1, <1>4, <2>1, LastPlace
  <2> QED BY <2>2
<1> HIDE DEF places, last
<1>5. CASE places = {}
  BY <1>1, <1>2, <1>3, <1>5
<1>6. CASE places # {}
  <2>1. LastOf(name, c) \in 1 .. Len(name) /\ name[LastOf(name, c)] = c
    BY <1>2, <1>3, <1>4, <1>6
  <2>2. \A i \in LastOf(name, c) + 1 .. Len(name) : i \in 1 .. Len(name) /\ ~(i <= LastOf(name, c))
    BY <1>1, <2>1
  <2>3. \A i \in places : i <= LastOf(name, c)
    BY <1>3, <1>4, <1>6
  <2>4. \A i \in LastOf(name, c) + 1 .. Len(name) : name[i] # c
    BY <1>2, <2>2, <2>3
  <2>5. LastOf(name, c) \in 0 .. Len(name)
    BY <1>1, <2>1
  <2> QED
    BY <2>1, <2>4, <2>5
<1> QED
  BY <1>5, <1>6

(* The last place is the only one with none after it. *)
LEMMA LastOfUnique ==
  ASSUME NEW name \in Seq(Characters), NEW c, NEW k \in 1 .. Len(name),
         name[k] = c, \A i \in k + 1 .. Len(name) : name[i] # c
  PROVE  LastOf(name, c) = k
<1>1. Len(name) \in Nat
  BY LenProperties
<1> DEFINE last == LastOf(name, c)
<1>2. /\ last \in 0 .. Len(name)
      /\ last > 0 => name[last] = c
      /\ \A i \in last + 1 .. Len(name) : name[i] # c
  BY LastOfIs
<1> HIDE DEF last
<1>3. ~(last > k)
  <2> SUFFICES ASSUME last > k PROVE FALSE
    OBVIOUS
  <2>1. last \in k + 1 .. Len(name) /\ last > 0
    BY <1>1, <1>2
  <2> QED BY <1>2, <2>1
<1>4. ~(last < k)
  <2> SUFFICES ASSUME last < k PROVE FALSE
    OBVIOUS
  <2>1. k \in last + 1 .. Len(name)
    BY <1>1, <1>2
  <2> QED BY <1>2, <2>1
<1>5. last = k
  BY <1>1, <1>2, <1>3, <1>4
<1> QED
  BY <1>5 DEF last

-----------------------------------------------------------------------------
(* Where the path of a name ends, and its title begins.                    *)

LEMMA PathEndIs ==
  ASSUME NEW name \in Seq(Characters)
  PROVE  /\ PathEnd(name) \in 0 .. Len(name)
         /\ PathEnd(name) > 0 => name[PathEnd(name)] \in Slashes
         /\ \A i \in PathEnd(name) + 1 .. Len(name) : name[i] \notin Slashes
<1> DEFINE slash1 == LastOf(name, "\\")
           slash2 == LastOf(name, "/")
<1>1. Len(name) \in Nat
  BY LenProperties
<1>2. /\ slash1 \in 0 .. Len(name)
      /\ slash1 > 0 => name[slash1] = "\\"
      /\ \A i \in slash1 + 1 .. Len(name) : name[i] # "\\"
  BY LastOfIs
<1>3. /\ slash2 \in 0 .. Len(name)
      /\ slash2 > 0 => name[slash2] = "/"
      /\ \A i \in slash2 + 1 .. Len(name) : name[i] # "/"
  BY LastOfIs
<1>4. PathEnd(name) = IF slash1 > slash2 THEN slash1 ELSE slash2
  BY DEF PathEnd
<1> DEFINE end == PathEnd(name)
<1> HIDE DEF slash1, slash2, end
<1>5. end \in 0 .. Len(name) /\ end >= slash1 /\ end >= slash2 /\ end \in {slash1, slash2}
  BY <1>1, <1>2, <1>3, <1>4 DEF end
<1>6. end > 0 => name[end] \in Slashes
  BY <1>2, <1>3, <1>5 DEF Slashes
<1>7. ASSUME NEW i \in end + 1 .. Len(name) PROVE name[i] \notin Slashes
  <2>1. i \in slash1 + 1 .. Len(name) /\ i \in slash2 + 1 .. Len(name)
    BY <1>1, <1>2, <1>3, <1>5
  <2> QED BY <1>2, <1>3, <2>1 DEF Slashes
<1> QED
  BY <1>5, <1>6, <1>7 DEF end

LEMMA PathEndUnique ==
  ASSUME NEW name \in Seq(Characters), NEW k \in 0 .. Len(name),
         k > 0 => name[k] \in Slashes,
         \A i \in k + 1 .. Len(name) : name[i] \notin Slashes
  PROVE  PathEnd(name) = k
<1>1. Len(name) \in Nat
  BY LenProperties
<1> DEFINE end == PathEnd(name)
<1>2. /\ end \in 0 .. Len(name)
      /\ end > 0 => name[end] \in Slashes
      /\ \A i \in end + 1 .. Len(name) : name[i] \notin Slashes
  BY PathEndIs
<1> HIDE DEF end
<1>3. ~(end > k)
  <2> SUFFICES ASSUME end > k PROVE FALSE
    OBVIOUS
  <2>1. end \in k + 1 .. Len(name) /\ end > 0
    BY <1>1, <1>2
  <2> QED BY <1>2, <2>1
<1>4. ~(end < k)
  <2> SUFFICES ASSUME end < k PROVE FALSE
    OBVIOUS
  <2>1. k \in end + 1 .. Len(name) /\ k > 0
    BY <1>1, <1>2
  <2> QED BY <1>2, <2>1
<1>5. end = k
  BY <1>1, <1>2, <1>3, <1>4
<1> QED
  BY <1>5 DEF end

(* Path and title are sequences, and where their characters come from. *)
LEMMA PathAndTitle ==
  ASSUME NEW name \in Seq(Characters)
  PROVE  /\ FilePath(name) \in Seq(Characters) /\ Len(FilePath(name)) = PathEnd(name)
         /\ \A i \in 1 .. PathEnd(name) : FilePath(name)[i] = name[i]
         /\ FileTitle(name) \in Seq(Characters)
         /\ Len(FileTitle(name)) = Len(name) - PathEnd(name)
         /\ \A i \in 1 .. Len(name) - PathEnd(name) : FileTitle(name)[i] = name[PathEnd(name) + i]
<1> DEFINE end == PathEnd(name)
<1>1. Len(name) \in Nat /\ end \in 0 .. Len(name) /\ \A i \in 1 .. Len(name) : name[i] \in Characters
  BY LenProperties, PathEndIs, ElementOfSeq
<1>2. FilePath(name) = SubSeq(name, 1, end) /\ FileTitle(name) = SubSeq(name, end + 1, Len(name))
  BY DEF FilePath, FileTitle
<1> HIDE DEF end
<1>3. /\ SubSeq(name, 1, end) \in Seq(Characters)
      /\ Len(SubSeq(name, 1, end)) = IF 1 <= end THEN end - 1 + 1 ELSE 0
      /\ \A i \in 1 .. end - 1 + 1 : SubSeq(name, 1, end)[i] = name[1 + i - 1]
  <2>1. \A i \in 1 .. end : name[i] \in Characters
    BY <1>1
  <2> QED BY <1>1, <2>1, SubSeqProperties
<1>4. /\ SubSeq(name, end + 1, Len(name)) \in Seq(Characters)
      /\ Len(SubSeq(name, end + 1, Len(name))) =
           IF end + 1 <= Len(name) THEN Len(name) - (end + 1) + 1 ELSE 0
      /\ \A i \in 1 .. Len(name) - (end + 1) + 1 :
           SubSeq(name, end + 1, Len(name))[i] = name[(end + 1) + i - 1]
  <2>1. \A i \in end + 1 .. Len(name) : name[i] \in Characters
    BY <1>1
  <2>2. end + 1 \in Int /\ Len(name) \in Int
    BY <1>1
  <2> QED BY <2>1, <2>2, SubSeqProperties
<1>5. /\ Len(SubSeq(name, 1, end)) = end
      /\ \A i \in 1 .. end : SubSeq(name, 1, end)[i] = name[i]
  <2>1. end - 1 + 1 = end /\ \A i \in 1 .. end : 1 + i - 1 = i
    BY <1>1
  <2> QED BY <1>1, <1>3, <2>1
<1>6. /\ Len(SubSeq(name, end + 1, Len(name))) = Len(name) - end
      /\ \A i \in 1 .. Len(name) - end : SubSeq(name, end + 1, Len(name))[i] = name[end + i]
  <2>1. Len(name) - (end + 1) + 1 = Len(name) - end
    BY <1>1
  <2>2. Len(SubSeq(name, end + 1, Len(name))) = Len(name) - end
    <3>1. (IF end + 1 <= Len(name) THEN Len(name) - (end + 1) + 1 ELSE 0) = Len(name) - end
      BY <1>1
    <3> QED BY <1>4, <3>1
  <2>3. ASSUME NEW i \in 1 .. Len(name) - end
        PROVE  SubSeq(name, end + 1, Len(name))[i] = name[end + i]
    <3>1. (end + 1) + i - 1 = end + i /\ i \in 1 .. Len(name) - (end + 1) + 1
      BY <1>1
    <3>2. SubSeq(name, end + 1, Len(name))[i] = name[(end + 1) + i - 1]
      BY <1>4, <3>1
    <3> QED BY <3>1, <3>2
  <2> QED BY <2>2, <2>3
<1> QED
  BY <1>2, <1>3, <1>4, <1>5, <1>6 DEF end
(* Put together, path and title are the name. *)
LEMMA NameSplits ==
  ASSUME NEW name \in Seq(Characters)
  PROVE  /\ FilePath(name) \o FileTitle(name) = name
         /\ NoSlash(FileTitle(name))
         /\ FilePath(name) = <<>> \/ FilePath(name)[Len(FilePath(name))] \in Slashes
<1> DEFINE end == PathEnd(name)
<1>1. /\ Len(name) \in Nat /\ end \in 0 .. Len(name)
      /\ end > 0 => name[end] \in Slashes
      /\ \A i \in end + 1 .. Len(name) : name[i] \notin Slashes
  BY LenProperties, PathEndIs
<1>2. FilePath(name) = SubSeq(name, 1, end) /\ FileTitle(name) = SubSeq(name, end + 1, Len(name))
  BY DEF FilePath, FileTitle
<1>3. /\ FilePath(name) \in Seq(Characters) /\ Len(FilePath(name)) = end
      /\ \A i \in 1 .. end : FilePath(name)[i] = name[i]
      /\ FileTitle(name) \in Seq(Characters) /\ Len(FileTitle(name)) = Len(name) - end
      /\ \A i \in 1 .. Len(name) - end : FileTitle(name)[i] = name[end + i]
  BY PathAndTitle
<1> HIDE DEF end
<1>4. FilePath(name) \o FileTitle(name) = name
  <2>1. SubSeq(name, 1, end) \o SubSeq(name, end + 1, Len(name)) = SubSeq(name, 1, Len(name))
    <3>1. 1 \in 1 .. Len(name) + 1 /\ end \in 1 - 1 .. Len(name) /\ Len(name) \in end .. Len(name)
      BY <1>1
    <3> QED BY <3>1, ConcatAdjacentSubSeq
  <2> QED BY <1>2, <2>1, SubSeqFull
<1>5. NoSlash(FileTitle(name))
  <2> SUFFICES ASSUME NEW i \in DOMAIN FileTitle(name)
               PROVE  FileTitle(name)[i] \notin Slashes
    BY DEF NoSlash
  <2>1. i \in 1 .. Len(name) - end
    BY <1>3, LenProperties
  <2>2. end + i \in end + 1 .. Len(name)
    BY <1>1, <2>1
  <2> QED BY <1>1, <1>3, <2>1, <2>2
<1>6. CASE end = 0
  <2>1. FilePath(name) = <<>>
    BY <1>3, <1>6, EmptySeq
  <2> QED BY <1>4, <1>5, <2>1
<1>7. CASE end > 0
  BY <1>1, <1>3, <1>4, <1>5, <1>7
<1> QED
  BY <1>1, <1>6, <1>7

(* And what is put together so is cut at the same place again. *)
LEMMA JoinSplits ==
  ASSUME NEW path \in Seq(Characters), NEW title \in Seq(Characters),
         path = <<>> \/ path[Len(path)] \in Slashes, NoSlash(title)
  PROVE  FilePath(path \o title) = path /\ FileTitle(path \o title) = title
<1> DEFINE name == path \o title
<1>1. /\ Len(path) \in Nat /\ DOMAIN path = 1 .. Len(path)
      /\ Len(title) \in Nat /\ DOMAIN title = 1 .. Len(title)
      /\ path = <<>> => Len(path) = 0
  BY LenProperties, EmptySeq
<1>2. /\ name \in Seq(Characters)
      /\ Len(name) = Len(path) + Len(title)
      /\ \A i \in 1 .. Len(path) + Len(title) :
           name[i] = IF i <= Len(path) THEN path[i] ELSE title[i - Len(path)]
  BY ConcatProperties
<1> HIDE DEF name
<1>3. ASSUME Len(path) > 0 PROVE name[Len(path)] \in Slashes
  <2>1. path # <<>> /\ Len(path) \in 1 .. Len(path) + Len(title)
    BY <1>1, <1>3
  <2> QED BY <1>2, <2>1
<1>4. ASSUME NEW i \in Len(path) + 1 .. Len(name) PROVE name[i] \notin Slashes
  <2>1. i \in 1 .. Len(path) + Len(title) /\ ~(i <= Len(path)) /\ i - Len(path) \in DOMAIN title
    BY <1>1, <1>2
  <2>2. name[i] = title[i - Len(path)]
    BY <1>2, <2>1
  <2> QED BY <2>1, <2>2 DEF NoSlash
<1>5. PathEnd(name) = Len(path)
  <2>1. Len(path) \in 0 .. Len(name)
    BY <1>1, <1>2
  <2> QED BY <1>2, <1>3, <1>4, <2>1, PathEndUnique
<1>6. /\ FilePath(name) \in Seq(Characters) /\ Len(FilePath(name)) = Len(path)
      /\ \A i \in 1 .. Len(path) : FilePath(name)[i] = name[i]
      /\ FileTitle(name) \in Seq(Characters) /\ Len(FileTitle(name)) = Len(name) - Len(path)
      /\ \A i \in 1 .. Len(name) - Len(path) : FileTitle(name)[i] = name[Len(path) + i]
  <2>1. /\ FilePath(name) \in Seq(Characters) /\ Len(FilePath(name)) = PathEnd(name)
        /\ \A i \in 1 .. PathEnd(name) : FilePath(name)[i] = name[i]
        /\ FileTitle(name) \in Seq(Characters) /\ Len(FileTitle(name)) = Len(name) - PathEnd(name)
        /\ \A i \in 1 .. Len(name) - PathEnd(name) :
             FileTitle(name)[i] = name[PathEnd(name) + i]
    BY <1>2, PathAndTitle
  <2> QED BY <1>5, <2>1
<1>7. FilePath(name) = path
  <2>1. \A i \in 1 .. Len(path) : i \in 1 .. Len(path) + Len(title) /\ i <= Len(path)
    BY <1>1
  <2>2. \A i \in 1 .. Len(FilePath(name)) : FilePath(name)[i] = path[i]
    BY <1>2, <1>6, <2>1
  <2> QED BY <1>6, <2>2, SeqEqual
<1>8. FileTitle(name) = title
  <2>1. Len(FileTitle(name)) = Len(title)
    BY <1>1, <1>2, <1>6
  <2>2. ASSUME NEW i \in 1 .. Len(FileTitle(name)) PROVE FileTitle(name)[i] = title[i]
    <3>1. /\ i \in 1 .. Len(name) - Len(path) /\ Len(path) + i \in 1 .. Len(path) + Len(title)
          /\ ~(Len(path) + i <= Len(path)) /\ Len(path) + i - Len(path) = i
      BY <1>1, <1>2, <1>6, <2>1
    <3>2. FileTitle(name)[i] = name[Len(path) + i]
      BY <1>6, <3>1
    <3>3. name[Len(path) + i] = title[Len(path) + i - Len(path)]
      BY <1>2, <3>1
    <3> QED BY <3>1, <3>2, <3>3
  <2> QED BY <1>6, <2>1, <2>2, SeqEqual
<1> QED
  BY <1>7, <1>8 DEF name
-----------------------------------------------------------------------------
(* The search step by step: the loop has left no dot behind it, the name   *)
(* of the .pdb is that of the module cut where the loop ended, and a file  *)
(* is located by the last step only.                                       *)

NoDotBehind == \A i \in dot + 1 .. Len(image) : image[i] # "."

ScanInv ==
  /\ filePc \in {"load", "scan"} => pdb = <<>>
  /\ filePc = "scan" => NoDotBehind

PdbInv ==
  filePc = "pdb" =>
    /\ dot > 0 /\ image[dot] = "." /\ NoDotBehind
    /\ pdb = Replaced
    /\ length = dot + Len(Ext)

LocatedInv == located = NoFile \/ (filePc = "done" /\ located = Located(files))

FileInv == FileTypeOK /\ ScanInv /\ PdbInv /\ LocatedInv

(* The names are sequences of characters, the module's not the empty one. *)
LEMMA NamesAre ==
  ASSUME FileTypeOK
  PROVE  /\ image \in Seq(Characters) /\ cv \in Seq(Characters)
         /\ loaded \in Seq(Characters)
         /\ Len(image) \in Nat \ {0} /\ Len(Ext) \in Nat \ {0}
<1>1. image \in Seq(Characters) /\ cv \in Seq(Characters) /\ image # <<>>
  BY FileAssumption DEF FileTypeOK
<1>2. Len(image) \in Nat \ {0}
  BY <1>1, EmptySeq
<1>3. Len(Ext) \in Nat \ {0}
  BY FileAssumption, LenProperties
<1>4. loaded \in Seq(Characters)
  <2>1. <<>> \in Seq(Characters)
    BY EmptySeq
  <2> QED BY <1>1, <2>1 DEF FileTypeOK
<1> QED
  BY <1>1, <1>2, <1>3, <1>4

(* Where no dot stands behind the first character, or none at all. *)
LEMMA NoDotAnywhere ==
  ASSUME FileTypeOK, NoDotBehind, dot = 0
  PROVE  ~HasDot
<1>1. image \in Seq(Characters) /\ Len(image) \in Nat
  BY NamesAre
<1>2. DOMAIN image = dot + 1 .. Len(image)
  BY <1>1, LenProperties
<1> QED
  BY <1>2 DEF NoDotBehind, HasDot

LEMMA InitInv == FileInit => FileInv
<1> SUFFICES ASSUME FileInit PROVE FileInv
  OBVIOUS
<1>1. image \in Images /\ image # <<>> /\ image \in Seq(Characters)
  BY FileAssumption DEF FileInit
<1>2. Len(image) \in Nat /\ <<>> \in Seq(Characters) /\ <<>> \in Records
  BY <1>1, LenProperties, EmptySeq, FileAssumption
<1>3. FileTypeOK
  BY <1>2 DEF FileInit, FileTypeOK, SymTypes
<1>4. ScanInv /\ PdbInv /\ LocatedInv
  BY DEF FileInit, ScanInv, PdbInv, LocatedInv
<1> QED
  BY <1>3, <1>4 DEF FileInv

LEMMA NextInv == FileInv /\ [FileNext]_fileVars => FileInv'
<1> SUFFICES ASSUME FileInv, [FileNext]_fileVars PROVE FileInv'
  OBVIOUS
<1>1. /\ Len(image) \in Nat \ {0} /\ Len(Ext) \in Nat \ {0}
      /\ dot \in 0 .. Len(image) /\ length \in Nat /\ symType \in SymTypes
      /\ image \in Seq(Characters) /\ DOMAIN image = 1 .. Len(image)
  BY NamesAre, LenProperties DEF FileInv, FileTypeOK
<1>2. CASE LoadModule
  <2>1. FileTypeOK'
    <3>1. dot' = Len(image) /\ image' = image
      BY <1>2 DEF LoadModule, ScanStart
    <3>2. dot' \in 0 .. Len(image') /\ dot' \in DOMAIN image
      BY <1>1, <3>1
    <3>3. filePc' \in {"scan", "record"} /\ UNCHANGED <<image, files, pdb, length>>
      BY <1>2 DEF LoadModule
    <3>4. symType' \in SymTypes /\ cv' \in Records /\ loaded' \in {<<>>, image', pdb'}
      BY <1>2 DEF LoadModule, ModuleInfo
    <3> QED BY <3>2, <3>3, <3>4 DEF FileInv, FileTypeOK, HasDot
  <2>2. ScanInv'
    BY <1>1, <1>2 DEF LoadModule, ScanStart, ScanInv, NoDotBehind, FileInv
  <2>3. PdbInv' /\ LocatedInv'
    BY <1>2 DEF LoadModule, PdbInv, LocatedInv, FileInv
  <2> QED BY <2>1, <2>2, <2>3 DEF FileInv
<1>3. CASE ScanBack
  <2>1. dot - 1 \in 0 .. Len(image)
    BY <1>1, <1>3 DEF ScanBack
  <2>2. ScanInv'
    <3>1. \A i \in dot - 1 + 1 .. Len(image) : i = dot \/ i \in dot + 1 .. Len(image)
      BY <1>1
    <3> QED BY <1>3, <3>1 DEF ScanBack, ScanInv, NoDotBehind, FileInv
  <2>3. HasDot => dot - 1 # 0
    <3> SUFFICES ASSUME dot - 1 = 0 PROVE ~HasDot
      OBVIOUS
    <3>1. \A i \in DOMAIN image : i = dot \/ i \in dot + 1 .. Len(image)
      BY <1>1
    <3> QED BY <1>3, <3>1 DEF ScanBack, ScanInv, NoDotBehind, FileInv, HasDot
  <2>4. FileTypeOK'
    <3>1. /\ dot' = dot - 1 /\ filePc' = "scan"
          /\ UNCHANGED <<image, cv, loaded, files, symType, pdb, length>>
      BY <1>3 DEF ScanBack
    <3>2. HasDot => dot - 1 \in DOMAIN image
      BY <1>1, <2>1, <2>3
    <3> QED BY <2>1, <3>1, <3>2 DEF FileInv, FileTypeOK, HasDot
  <2>5. PdbInv' /\ LocatedInv'
    BY <1>3 DEF ScanBack, PdbInv, LocatedInv, FileInv
  <2> QED BY <2>2, <2>4, <2>5 DEF FileInv
<1>4. CASE ReplaceExtension
  <2>1. (dot - 1) + (Len(Ext) + 1) = dot + Len(Ext) /\ dot + Len(Ext) \in Nat
    BY <1>1
  <2>2. Replaced \in Seq(Characters)
    <3>1. 1 \in Int /\ dot \in Int
      BY <1>1
    <3>2. \A i \in 1 .. dot : i \in 1 .. Len(image)
      BY <1>1
    <3>3. \A i \in 1 .. dot : image[i] \in Characters
      BY <1>1, <3>2, ElementOfSeq
    <3>4. SubSeq(image, 1, dot) \in Seq(Characters)
      BY <3>1, <3>3, SubSeqProperties
    <3> QED BY <3>4, FileAssumption, ConcatProperties DEF Replaced
  <2>3. FileTypeOK'
    <3>1. loaded \in {<<>>, image}
      BY <1>4 DEF ReplaceExtension, FileInv, FileTypeOK, ScanInv
    <3> QED BY <1>4, <2>1, <2>2, <3>1 DEF ReplaceExtension, FileInv, FileTypeOK, HasDot
  <2>4. PdbInv'
    BY <1>4, <2>1 DEF ReplaceExtension, PdbInv, ScanInv, NoDotBehind, Replaced, FileInv
  <2>5. ScanInv' /\ LocatedInv'
    BY <1>4 DEF ReplaceExtension, ScanInv, LocatedInv, FileInv
  <2> QED BY <2>3, <2>4, <2>5 DEF FileInv
<1>5. CASE ScanOutside
  <2>1. ~HasDot
    BY <1>5, NoDotAnywhere DEF ScanOutside, FileInv, ScanInv
  <2> QED
    BY <1>5, <2>1 DEF ScanOutside, FileInv, FileTypeOK, ScanInv, PdbInv, LocatedInv, HasDot
<1>6. CASE LoadPdb
  <2>1. FileTypeOK'
    BY <1>6 DEF LoadPdb, ModuleInfo, FileInv, FileTypeOK, HasDot
  <2> QED
    BY <1>6, <2>1 DEF LoadPdb, FileInv, ScanInv, PdbInv, LocatedInv
<1>7. CASE CheckRecord
  <2>1. FileTypeOK'
    BY <1>7 DEF CheckRecord, FileInv, FileTypeOK, HasDot
  <2>2. LocatedInv'
    BY <1>7 DEF CheckRecord, LocatedInv, Located, BesideImage, FilePath
  <2>3. ScanInv' /\ PdbInv'
    BY <1>7 DEF CheckRecord, ScanInv, PdbInv
  <2> QED BY <2>1, <2>2, <2>3 DEF FileInv
<1>8. CASE UNCHANGED fileVars
  BY <1>8 DEF fileVars, FileInv, FileTypeOK, ScanInv, PdbInv, NoDotBehind, Replaced,
              LocatedInv, Located, BesideImage, FilePath, HasDot
<1> QED
  BY <1>2, <1>3, <1>4, <1>5, <1>6, <1>7, <1>8 DEF FileNext

LEMMA FileInvariant == FileSpec => []FileInv
<1> QED
  BY InitInv, NextInv, PTL DEF FileSpec

-----------------------------------------------------------------------------
(* The search is type correct, for names of any length: the loop never     *)
(* looks past the end of the module's name, and not before its beginning   *)
(* if the name has a dot (odbk_replace_extension).                         *)
THEOREM FileTypeCorrect == FileSpec => []FileTypeOK
<1>1. FileInv => FileTypeOK
  BY DEF FileInv
<1> QED
  BY <1>1, FileInvariant, PTL

(* Path and title are the two parts of every name, whichever slashes it    *)
(* mixes (odbk_get_file_path, odbk_get_file_title).                        *)
THEOREM NamesSplitCorrect == FileSpec => []NamesSplit
<1>1. FileInv => NamesSplit
  BY NamesAre, NameSplits DEF FileInv, NamesSplit
<1> QED
  BY <1>1, FileInvariant, PTL

(* The last dot of a name whose title has one is the title's last dot. *)
LEMMA DotOfTitle ==
  ASSUME NEW name \in Seq(Characters), NEW k \in 1 .. Len(name),
         name[k] = ".", \A i \in k + 1 .. Len(name) : name[i] # ".",
         LastOf(FileTitle(name), ".") > 0
  PROVE  k = PathEnd(name) + LastOf(FileTitle(name), ".")
<1> DEFINE end == PathEnd(name)
           title == FileTitle(name)
           last == LastOf(title, ".")
<1>1. /\ Len(name) \in Nat /\ end \in 0 .. Len(name)
      /\ title \in Seq(Characters) /\ Len(title) = Len(name) - end
      /\ \A i \in 1 .. Len(name) - end : title[i] = name[end + i]
  BY LenProperties, PathEndIs, PathAndTitle
<1> HIDE DEF end, title
<1>2. /\ last \in 1 .. Len(title) /\ title[last] = "."
      /\ \A i \in last + 1 .. Len(title) : title[i] # "."
  <2>1. /\ last \in 0 .. Len(title)
        /\ last > 0 => title[last] = "."
        /\ \A i \in last + 1 .. Len(title) : title[i] # "."
    BY <1>1, LastOfIs
  <2>2. last > 0
    BY DEF title
  <2> HIDE DEF last
  <2> QED BY <1>1, <2>1, <2>2
<1> HIDE DEF last
<1>3. end + last \in 1 .. Len(name) /\ name[end + last] = "."
  <2>1. last \in 1 .. Len(name) - end /\ end + last \in 1 .. Len(name)
    BY <1>1, <1>2
  <2> QED BY <1>1, <1>2, <2>1
<1>4. ~(k < end + last)
  <2> SUFFICES ASSUME k < end + last PROVE FALSE
    OBVIOUS
  <2>1. end + last \in k + 1 .. Len(name)
    BY <1>3
  <2> QED BY <1>3, <2>1
<1>5. ~(k > end + last)
  <2> SUFFICES ASSUME k > end + last PROVE FALSE
    OBVIOUS
  <2>1. k - end \in last + 1 .. Len(title) /\ k - end \in 1 .. Len(name) - end /\ end + (k - end) = k
    BY <1>1, <1>2
  <2> QED BY <1>1, <1>2, <2>1
<1>6. k = end + last
  BY <1>1, <1>2, <1>4, <1>5
<1> QED
  BY <1>6 DEF end, title, last
(* Cut at a dot of its title and extended, a name keeps its path. *)
LEMMA CutAndExtended ==
  ASSUME NEW name \in Seq(Characters), NEW last \in 1 .. Len(FileTitle(name))
  PROVE  LET cut == SubSeq(FileTitle(name), 1, last) IN
           /\ SubSeq(name, 1, PathEnd(name) + last) = FilePath(name) \o cut
           /\ cut \in Seq(Characters) /\ NoSlash(cut \o Ext)
<1> DEFINE end == PathEnd(name)
           path == FilePath(name)
           title == FileTitle(name)
           cut == SubSeq(title, 1, last)
           front == SubSeq(name, 1, end + last)
<1>1. /\ Len(name) \in Nat /\ end \in 0 .. Len(name)
      /\ path \in Seq(Characters) /\ Len(path) = end /\ \A i \in 1 .. end : path[i] = name[i]
      /\ title \in Seq(Characters) /\ Len(title) = Len(name) - end
      /\ \A i \in 1 .. Len(name) - end : title[i] = name[end + i]
  BY LenProperties, PathEndIs, PathAndTitle
<1>2. NoSlash(title)
  BY NameSplits
<1>3. last \in 1 .. Len(title)
  OBVIOUS
<1> HIDE DEF end, path, title
<1>4. cut \in Seq(Characters) /\ Len(cut) = last /\ \A i \in 1 .. last : cut[i] = title[i]
  <2>1. 1 \in Int /\ last \in Int /\ last - 1 + 1 = last /\ 1 <= last
        /\ \A i \in 1 .. last : i \in 1 .. Len(title) /\ 1 + i - 1 = i
    BY <1>1, <1>3
  <2>2. \A i \in 1 .. last : title[i] \in Characters
    BY <1>1, <2>1, ElementOfSeq
  <2>3. /\ cut \in Seq(Characters)
        /\ Len(cut) = IF 1 <= last THEN last - 1 + 1 ELSE 0
        /\ \A i \in 1 .. last - 1 + 1 : cut[i] = title[1 + i - 1]
    BY <2>1, <2>2, SubSeqProperties
  <2> HIDE DEF cut
  <2> QED BY <2>1, <2>3
<1>5. front \in Seq(Characters) /\ Len(front) = end + last /\ \A i \in 1 .. end + last : front[i] = name[i]
  <2>1. 1 \in Int /\ end + last \in Int /\ end + last - 1 + 1 = end + last /\ 1 <= end + last
        /\ \A i \in 1 .. end + last : i \in 1 .. Len(name) /\ 1 + i - 1 = i
    BY <1>1, <1>3
  <2>2. \A i \in 1 .. end + last : name[i] \in Characters
    BY <2>1, ElementOfSeq
  <2>3. /\ front \in Seq(Characters)
        /\ Len(front) = IF 1 <= end + last THEN end + last - 1 + 1 ELSE 0
        /\ \A i \in 1 .. end + last - 1 + 1 : front[i] = name[1 + i - 1]
    BY <2>1, <2>2, SubSeqProperties
  <2> HIDE DEF front
  <2> QED BY <2>1, <2>3
<1> HIDE DEF cut, front
<1>6. front = path \o cut
  <2>0. path \in Seq(Characters) /\ cut \in Seq(Characters)
    BY <1>1, <1>4
  <2>1. /\ path \o cut \in Seq(Characters)
        /\ Len(path \o cut) = Len(path) + Len(cut)
        /\ \A i \in 1 .. Len(path) + Len(cut) :
             (path \o cut)[i] = IF i <= Len(path) THEN path[i] ELSE cut[i - Len(path)]
    BY <2>0, ConcatProperties
  <2>2. Len(front) = Len(path \o cut)
    BY <1>1, <1>4, <1>5, <2>1
  <2>3. ASSUME NEW i \in 1 .. Len(front) PROVE front[i] = (path \o cut)[i]
    <3>1. i \in 1 .. end + last /\ front[i] = name[i]
      BY <1>5
    <3>2. (path \o cut)[i] = IF i <= end THEN path[i] ELSE cut[i - end]
      BY <1>1, <1>4, <2>1, <3>1
    <3>3. CASE i <= end
      BY <1>1, <3>1, <3>2, <3>3
    <3>4. CASE ~(i <= end)
      <4>1. i - end \in 1 .. last /\ i - end \in 1 .. Len(name) - end /\ end + (i - end) = i
        BY <1>1, <1>3, <3>1, <3>4
      <4>2. cut[i - end] = title[i - end] /\ title[i - end] = name[end + (i - end)]
        BY <1>1, <1>4, <4>1
      <4> QED BY <3>1, <3>2, <3>4, <4>1, <4>2
    <3> QED BY <3>3, <3>4
  <2> QED BY <1>5, <2>1, <2>2, <2>3, SeqEqual
<1>7. NoSlash(cut \o Ext)
  <2>1. /\ Ext \in Seq(Characters) /\ \A i \in DOMAIN Ext : Ext[i] \notin Slashes
        /\ Len(Ext) \in Nat /\ DOMAIN Ext = 1 .. Len(Ext)
    BY FileAssumption, LenProperties
  <2>2. /\ cut \o Ext \in Seq(Characters)
        /\ Len(cut \o Ext) = Len(cut) + Len(Ext)
        /\ \A i \in 1 .. Len(cut) + Len(Ext) :
             (cut \o Ext)[i] = IF i <= Len(cut) THEN cut[i] ELSE Ext[i - Len(cut)]
    BY <1>4, <2>1, ConcatProperties
  <2> SUFFICES ASSUME NEW i \in DOMAIN (cut \o Ext)
               PROVE  (cut \o Ext)[i] \notin Slashes
    BY DEF NoSlash
  <2>3. i \in 1 .. last + Len(Ext)
    BY <1>4, <2>2, LenProperties
  <2>4. (cut \o Ext)[i] = IF i <= last THEN cut[i] ELSE Ext[i - last]
    BY <1>4, <2>2, <2>3
  <2>5. CASE i <= last
    <3>1. i \in 1 .. last /\ i \in 1 .. Len(title) /\ DOMAIN title = 1 .. Len(title)
      BY <1>1, <1>3, <2>3, <2>5, LenProperties
    <3> QED BY <1>2, <1>4, <2>4, <2>5, <3>1 DEF NoSlash
  <2>6. CASE ~(i <= last)
    <3>1. i - last \in 1 .. Len(Ext)
      BY <1>3, <2>1, <2>3, <2>6
    <3> QED BY <2>1, <2>4, <2>6, <3>1
  <2> QED BY <2>5, <2>6
<1> QED
  BY <1>4, <1>6, <1>7 DEF front, end, path, title, cut

(* The .pdb that is looked for stands beside the module, has its title up  *)
(* to the last dot, and its length is what odbk_replace_extension returns. *)
THEOREM PdbCorrect == FileSpec => []PdbBesideModule
<1>1. FileInv => PdbBesideModule
  <2> SUFFICES ASSUME FileInv, filePc = "pdb", LastOf(FileTitle(image), ".") > 0
               PROVE  /\ FilePath(pdb) = FilePath(image)
                      /\ FileTitle(pdb) =
                           SubSeq(FileTitle(image), 1, LastOf(FileTitle(image), ".")) \o Ext
                      /\ length = Len(pdb)
    BY DEF PdbBesideModule
  <2> DEFINE last == LastOf(FileTitle(image), ".")
             cut == SubSeq(FileTitle(image), 1, last)
  <2>1. /\ image \in Seq(Characters) /\ Len(image) \in Nat
        /\ Ext \in Seq(Characters) /\ Len(Ext) \in Nat /\ dot \in 0 .. Len(image)
    BY NamesAre, FileAssumption DEF FileInv, FileTypeOK
  <2>2. /\ dot \in 1 .. Len(image) /\ image[dot] = "."
        /\ \A i \in dot + 1 .. Len(image) : image[i] # "."
        /\ pdb = SubSeq(image, 1, dot) \o Ext /\ length = dot + Len(Ext)
    BY <2>1 DEF FileInv, PdbInv, NoDotBehind, Replaced
  <2>3. dot = PathEnd(image) + last
    BY <2>1, <2>2, DotOfTitle
  <2>4. /\ FilePath(image) \in Seq(Characters) /\ FileTitle(image) \in Seq(Characters)
        /\ FilePath(image) = <<>> \/ FilePath(image)[Len(FilePath(image))] \in Slashes
    BY <2>1, PathAndTitle, NameSplits
  <2>5. last \in 1 .. Len(FileTitle(image))
    <3>1. last \in 0 .. Len(FileTitle(image)) /\ Len(FileTitle(image)) \in Nat
      BY <2>4, LastOfIs, LenProperties
    <3>2. last > 0
      OBVIOUS
    <3> HIDE DEF last
    <3> QED BY <3>1, <3>2
  <2>6. /\ SubSeq(image, 1, dot) = FilePath(image) \o cut
        /\ cut \in Seq(Characters) /\ NoSlash(cut \o Ext)
    <3> HIDE DEF last
    <3>1. LET c == SubSeq(FileTitle(image), 1, last) IN
           /\ SubSeq(image, 1, PathEnd(image) + last) = FilePath(image) \o c
           /\ c \in Seq(Characters) /\ NoSlash(c \o Ext)
      BY <2>1, <2>5, CutAndExtended
    <3> QED BY <2>3, <3>1
  <2> HIDE DEF cut, last
  <2>7. pdb = FilePath(image) \o (cut \o Ext) /\ cut \o Ext \in Seq(Characters)
    <3>1. pdb = (FilePath(image) \o cut) \o Ext
      BY <2>2, <2>6
    <3>2. (FilePath(image) \o cut) \o Ext = FilePath(image) \o (cut \o Ext)
      <4>1. FilePath(image) \in Seq(Characters) /\ cut \in Seq(Characters) /\ Ext \in Seq(Characters)
        BY <2>1, <2>4, <2>6
      <4>2. \A s, t, u \in Seq(Characters) : (s \o t) \o u = s \o (t \o u)
        BY ConcatAssociative
      <4> QED BY <4>1, <4>2, Zenon
    <3>3. cut \o Ext \in Seq(Characters)
      BY <2>1, <2>6, ConcatProperties
    <3> QED BY <3>1, <3>2, <3>3
  <2>8. FilePath(pdb) = FilePath(image) /\ FileTitle(pdb) = cut \o Ext
    BY <2>4, <2>6, <2>7, JoinSplits
  <2>9. length = Len(pdb)
    <3>1. \A i \in 1 .. dot : image[i] \in Characters
      BY <2>1, <2>2, ElementOfSeq
    <3>0. 1 \in Int /\ dot \in Int
      BY <2>2
    <3>2. /\ SubSeq(image, 1, dot) \in Seq(Characters)
          /\ Len(SubSeq(image, 1, dot)) = IF 1 <= dot THEN dot - 1 + 1 ELSE 0
      BY <3>0, <3>1, SubSeqProperties
    <3>3. (IF 1 <= dot THEN dot - 1 + 1 ELSE 0) = dot
      BY <2>2
    <3>4. Len(pdb) = Len(SubSeq(image, 1, dot)) + Len(Ext)
      BY <2>1, <2>2, <3>2, ConcatProperties
    <3> QED BY <2>2, <3>2, <3>3, <3>4
  <2> QED
    BY <2>8, <2>9 DEF cut, last
<1> QED
  BY <1>1, FileInvariant, PTL

(* The file a warning names is there and has the title the record gives,   *)
(* and the name as recorded comes before the module's directory            *)
(* (locate_sym_file).                                                      *)
THEOREM LocatedCorrect == FileSpec => []LocatedMatches
<1>1. FileInv => LocatedMatches
  <2> SUFFICES ASSUME FileInv, located # NoFile
               PROVE  /\ located \in files
                      /\ FileTitle(located) = FileTitle(cv)
                      /\ cv \in files => located = cv
    BY DEF LocatedMatches
  <2>1. located = Located(files)
    BY DEF FileInv, LocatedInv
  <2>2. /\ located \in files
        /\ located \in {cv, BesideImage(cv)}
        /\ cv \in files => located = cv
    BY <2>1 DEF Located
  <2>3. FileTitle(BesideImage(cv)) = FileTitle(cv)
    <3>1. /\ FilePath(loaded) \in Seq(Characters) /\ FileTitle(cv) \in Seq(Characters)
          /\ FilePath(loaded) = <<>> \/ FilePath(loaded)[Len(FilePath(loaded))] \in Slashes
          /\ NoSlash(FileTitle(cv))
      BY NamesAre, PathAndTitle, NameSplits DEF FileInv
    <3> QED BY <3>1, JoinSplits DEF BesideImage
  <2> QED
    BY <2>2, <2>3
<1> QED
  BY <1>1, FileInvariant, PTL
=============================================================================
