------------------------------- MODULE SymFile -------------------------------
(***************************************************************************)
(* The files the symbol walk looks for on behalf of one module: a .pdb     *)
(* beside a module without symbols (odbk_replace_extension), and the file  *)
(* the CodeView record names, for a warning (locate_sym_file, with         *)
(* odbk_get_file_title and odbk_get_file_path).                            *)
(*                                                                         *)
(* File names are sequences of characters, for what they are cut at: dots  *)
(* and two kinds of slashes.  External: which files there are, and what    *)
(* the debug help library says of the module, or of the .pdb: its symbols, *)
(* its CodeView record and the image it was loaded from.                   *)
(***************************************************************************)
EXTENDS Integers, Sequences

CONSTANTS
  Characters, \* the characters of file names
  Images,     \* names of the module's file
  Records,    \* names in the CodeView record; <<>> if there is none
  Ext,        \* the extension "pdb"
  NoFile      \* no file

Slashes == {"/", "\\"}

ASSUME FileAssumption ==
  /\ Images \cup Records \subseteq Seq(Characters)
  /\ Ext \in Seq(Characters)
  /\ Len(Ext) > 0 /\ \A i \in DOMAIN Ext : Ext[i] \notin Slashes \cup {"."}
  /\ \A name \in Images : name # <<>>
  /\ <<>> \in Records

VARIABLES
  image,     \* moduleFileName
  cv,        \* module.CVData
  loaded,    \* module.LoadedImageName
  files,     \* the files there are, of those that are looked for
  symType,   \* module.SymType, or "failed" when there is no module info
  dot,       \* the index in the loop of odbk_replace_extension
  pdb,       \* pdbFileName
  length,    \* what odbk_replace_extension returns
  located,   \* the file of warning 1002
  filePc     \* "load", "scan", "pdb", "record", "done" or "outside"

fileVars == <<image, cv, loaded, files, symType, dot, pdb, length, located, filePc>>

SymTypes == {"none", "export", "symbols", "failed"}

-----------------------------------------------------------------------------
(* strrchr, where 0 is a null pointer. *)
LastOf(name, c) ==
  LET places == {i \in DOMAIN name : name[i] = c}
  IN IF places = {} THEN 0 ELSE CHOOSE i \in places : \A j \in places : j <= i

(* Mutant: only backslashes end a path. *)
PathEndBackslash(name) == LastOf(name, "\\")

PathEnd(name) ==
  LET slash1 == LastOf(name, "\\")
      slash2 == LastOf(name, "/")
  IN IF slash1 > slash2 THEN slash1 ELSE slash2

FileTitle(name) == SubSeq(name, PathEnd(name) + 1, Len(name))
FilePath(name) == SubSeq(name, 1, PathEnd(name))

(* Where a file is looked for: as named, or beside the image loaded. *)
BesideImage(name) == FilePath(loaded) \o FileTitle(name)

FileInit ==
  /\ image \in Images
  /\ cv = <<>>
  /\ loaded = <<>>
  /\ files = {}
  /\ symType = "failed"
  /\ dot = 0
  /\ pdb = <<>>
  /\ length = 0
  /\ located = NoFile
  /\ filePc = "load"

(* Mutant: the length is taken for the last index. *)
ScanStartPast == Len(image) + 1

ScanStart == Len(image)

(* SymLoadModule64 and SymGetModuleInfo64, of the module or the .pdb. *)
ModuleInfo ==
  /\ symType' \in SymTypes
  /\ cv' \in Records
  /\ loaded' \in {image, pdb}

LoadModule ==
  /\ filePc = "load"
  /\ ModuleInfo
  /\ filePc' = IF symType' = "none" THEN "scan" ELSE "record"
  /\ dot' = ScanStart
  /\ UNCHANGED <<image, files, pdb, length, located>>

-----------------------------------------------------------------------------
(* for (; fileName[dot] != '.';) --dot;                                    *)
ScanBack ==
  /\ filePc = "scan"
  /\ dot > 0
  /\ image[dot] # "."
  /\ dot' = dot - 1
  /\ UNCHANGED <<image, cv, loaded, files, symType, pdb, length, located, filePc>>

(* Mutant: the dot is overwritten. *)
ReplacedAtDot == SubSeq(image, 1, dot - 1) \o Ext

Replaced == SubSeq(image, 1, dot) \o Ext

(* memcpy of the extension with its terminator; the index counts from 0. *)
ReplaceExtension ==
  /\ filePc = "scan"
  /\ dot > 0
  /\ image[dot] = "."
  /\ pdb' = Replaced
  /\ length' = (dot - 1) + (Len(Ext) + 1)
  /\ filePc' = "pdb"
  /\ UNCHANGED <<image, cv, loaded, files, symType, dot, located>>

(* There is no dot, and no bound: what comes then is undefined. *)
ScanOutside ==
  /\ filePc = "scan"
  /\ dot = 0
  /\ filePc' = "outside"
  /\ UNCHANGED <<image, cv, loaded, files, symType, dot, pdb, length, located>>

(* The .pdb is there, and is loaded instead of the module - or is not. *)
LoadPdb ==
  /\ filePc = "pdb"
  /\ ModuleInfo \/ UNCHANGED <<symType, cv, loaded>>
  /\ filePc' = "record"
  /\ UNCHANGED <<image, files, dot, pdb, length, located>>

-----------------------------------------------------------------------------
(* Mutant: the module's directory is searched first. *)
LocatedBesideFirst(there) ==
  IF BesideImage(cv) \in there THEN BesideImage(cv)
  ELSE IF cv \in there THEN cv ELSE NoFile

(* locate_sym_file *)
Located(there) ==
  IF cv \in there THEN cv
  ELSE IF BesideImage(cv) \in there THEN BesideImage(cv) ELSE NoFile

(* The test of the CodeView record. *)
CheckRecord ==
  /\ filePc = "record"
  /\ files' \in SUBSET ({cv, BesideImage(cv)} \ {<<>>})
  /\ located' = IF cv # <<>> /\ symType \in {"export", "none"} THEN Located(files') ELSE NoFile
  /\ filePc' = "done"
  /\ UNCHANGED <<image, cv, loaded, symType, dot, pdb, length>>

FileNext ==
  \/ LoadModule \/ ScanBack \/ ReplaceExtension \/ ScanOutside
  \/ LoadPdb \/ CheckRecord

FileSpec == FileInit /\ [][FileNext]_fileVars

-----------------------------------------------------------------------------
HasDot == \E i \in DOMAIN image : image[i] = "."

(* Type correctness of the search; and while the loop looks for the dot of *)
(* a name that has one, it stays at the characters of that name.           *)
FileTypeOK ==
  /\ image \in Images
  /\ cv \in Records
  /\ pdb \in Seq(Characters)
  /\ loaded \in {<<>>, image, pdb}
  /\ <<>> \notin files
  /\ symType \in SymTypes
  /\ dot \in 0 .. Len(image)
  /\ length \in Nat
  /\ filePc \in {"load", "scan", "pdb", "record", "done", "outside"}
  /\ HasDot => filePc # "outside" /\ (filePc = "scan" => dot \in DOMAIN image)

(* The part of a name a title or a stem is: nothing in it is a slash. *)
NoSlash(name) == \A i \in DOMAIN name : name[i] \notin Slashes

(***************************************************************************)
(* Whatever slashes a name mixes, path and title are its two parts: put    *)
(* together they are the name, and the title is a bare file name.          *)
(***************************************************************************)
NamesSplit ==
  \A name \in {image, cv} :
    /\ FilePath(name) \o FileTitle(name) = name
    /\ NoSlash(FileTitle(name))
    /\ FilePath(name) = <<>> \/ FilePath(name)[Len(FilePath(name))] \in Slashes

(***************************************************************************)
(* The .pdb that is looked for stands beside the module and has its title  *)
(* up to the last dot, and the length returned is that of its name - for a *)
(* title that has a dot.  For another title nothing of the kind holds: the *)
(* loop goes on into the directories and out of the name.                  *)
(***************************************************************************)
PdbBesideModule ==
  filePc = "pdb" /\ LastOf(FileTitle(image), ".") > 0 =>
    /\ FilePath(pdb) = FilePath(image)
    /\ FileTitle(pdb) = SubSeq(FileTitle(image), 1, LastOf(FileTitle(image), ".")) \o Ext
    /\ length = Len(pdb)

(***************************************************************************)
(* A file that the warning names is there, it has the title the record     *)
(* gives, and the name as recorded comes before the module's directory.    *)
(***************************************************************************)
LocatedMatches ==
  located # NoFile =>
    /\ located \in files
    /\ FileTitle(located) = FileTitle(cv)
    /\ cv \in files => located = cv
=============================================================================
