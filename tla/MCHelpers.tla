----------------------------- MODULE MCHelpers -----------------------------
(***************************************************************************)
(* Instances of the three parts that are single calls on one thread and    *)
(* share no state: odbk_sfmt, the file names of the symbol walk, and the   *)
(* thunks of 32-bit builds.  A behaviour is one call of one of them; the   *)
(* others rest where an earlier call has left them.                        *)
(***************************************************************************)
EXTENDS Sfmt, SymFile, Thunks, MCEngines

CONSTANT Frame

-----------------------------------------------------------------------------
(* Sfmt: the buffer of the code, and texts up to four growths. *)

MCTexts == 0 .. 1000
AllRuntimes == {"c99", "glibc", "msvc2013"}

SfmtRests ==
  /\ runtime = "c99" /\ want = 0 /\ size = 0 /\ good = 0 /\ nret = 0
  /\ sfmtPc = "done"

-----------------------------------------------------------------------------
(* SymFile: every name of up to four characters. *)

NameCharacters == {"a", ".", "/", "\\"}
NamesOf(k) == [1 .. k -> NameCharacters]
MCImages == UNION {NamesOf(k) : k \in 1 .. 4}
MCRecords == {<<>>, <<"a">>, <<"/", "a">>, <<"\\", "/", "a">>, <<"a", "/">>, <<"a", "\\", ".">>}
MCExt == <<"p", "d", "b">>
MCCharacters == NameCharacters \cup {"p", "d", "b"}

FileRests ==
  /\ image = <<"a">> /\ cv = <<>> /\ loaded = <<>> /\ files = {}
  /\ symType = "failed" /\ dot = 1 /\ pdb = <<>> /\ length = 0
  /\ located = NoFile /\ filePc = "done"

-----------------------------------------------------------------------------
(* Thunks: words of four bits, numbers about each boundary. *)

MCBase == 16
Boundaries == {0, 8, 16, 128, -8, -16, -128}
MCIntegers == {b + d : b \in Boundaries, d \in -2 .. 2} \cap Signed(256)
MCVersions == {500, 510, 520, 530}

(* lua_rawseti is exported by all and looked up by no load. *)
Engine == [v \in MCVersions |->
  CASE v = 500 -> Api50 [] v = 510 -> Api51 [] v = 520 -> Api52 [] v = 530 -> Api53]
LookedUp == {FinishLoadPlan[i].sym : i \in DOMAIN FinishLoadPlan}
MCBound == [v \in MCVersions |-> Thunked \cap Engine[v] \cap LookedUp]
MCHost == <<Frame>>

ThunkRests ==
  /\ version = 510 /\ fn = "lua_pushinteger" /\ n = 0 /\ stack = Host
  /\ got = [state |-> L, idx |-> None, n |-> 0] /\ value = 0
  /\ eax = 0 /\ edx = 0 /\ result = 0 /\ thunkPc = "done"

-----------------------------------------------------------------------------
HelpersInit ==
  \/ FileRests /\ ThunkRests /\ SfmtInit
  \/ SfmtRests /\ ThunkRests /\ FileInit
  \/ SfmtRests /\ FileRests /\ ThunkInit

HelpersNext ==
  \/ SfmtNext /\ UNCHANGED <<fileVars, thunkVars>>
  \/ FileNext /\ UNCHANGED <<sfmtVars, thunkVars>>
  \/ ThunkNext /\ UNCHANGED <<sfmtVars, fileVars>>

HelpersSpec ==
  /\ HelpersInit /\ [][HelpersNext]_<<sfmtVars, fileVars, thunkVars>>
  /\ WF_sfmtVars(SfmtNext)
=============================================================================
