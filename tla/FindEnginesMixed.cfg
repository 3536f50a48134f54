SPECIFICATION LoadSpec
CONSTANTS
  NoModule = NoModule
  NULL = NULL
  NoPointer = ""
  Pointers <- DeclaredPointers
  LoadPlan <- FinishLoadPlan
  Modules <- MCModules
  Exports <- MCExports
  SpecifiedModules <- MCSpecified
  MaxLoads = 2
  MaxPresent = 2
INVARIANT
  ApiFromSpecified
\* the loader stops after MaxLoads loads, or with the process
CHECK_DEADLOCK FALSE
