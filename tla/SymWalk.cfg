SPECIFICATION FairSpec
CONSTANTS
  NoModule = "null"
  Modules <- WalkModules
  Imports <- WalkImports
  Names <- WalkNames
  Restricts <- WalkRestricts
  Debugger = "odbk"
  AppModule = "exe"
  Buffer = "moduleFileName"
  Enough = 3
  MaxWalks = 2
INVARIANTS
  WalkTypeOK
  HandlesValid
  VisitedOnce
  KeyIsOwner
PROPERTY
  WalkEnds
\* no walk is left, and the host may keep its DLLs
CHECK_DEADLOCK FALSE
