SPECIFICATION LoadSpec
CONSTANTS
  NoModule = NoModule
  NULL = NULL
  NoPointer = ""
  Pointers <- DeclaredPointers
  LoadPlan <- FinishLoadPlan
  Modules <- MCModules
  Exports <- MCExports
  SpecifiedModules <- MCSpecified
  MaxLoads = 1
  MaxPresent = 1
INVARIANT
  SlowStartSurvives
\* the loader stops after MaxLoads loads, or with the process
CHECK_DEADLOCK FALSE
