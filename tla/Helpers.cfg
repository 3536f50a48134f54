SPECIFICATION HelpersSpec
CONSTANTS
  Initial = 256
  Texts <- MCTexts
  Runtimes <- AllRuntimes
  NoFile = NoFile
  Characters <- MCCharacters
  Images <- MCImages
  Records <- MCRecords
  Ext <- MCExt
  L = L
  Idx = Idx
  IsNum = IsNum
  None = None
  Frame = Frame
  Base <- MCBase
  Versions <- MCVersions
  Bound <- MCBound
  Host <- MCHost
  Arguments <- MCIntegers
  Values <- MCIntegers
INVARIANTS
  SfmtTypeOK
  TextExact
  LengthExact
  FileTypeOK
  NamesSplit
  PdbBesideModule
  LocatedMatches
  ThunkTypeOK
  EngineGetsCall
  StackRestored
  ResultArrives
PROPERTY
  Terminates
\* a call returns
CHECK_DEADLOCK FALSE
