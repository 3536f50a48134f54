SPECIFICATION Spec
CONSTANTS
  NoModule = NoModule
  NULL = NULL
  NoPointer = ""
  NoDetour = "engine"
  Pointers <- HookedPointers
  LoadPlan <- HookedPlan
  HookPlan <- InstallPlan
  Forward <- ForwardPlan
  Modules <- OnlyJit
  Exports <- MCExports
  SpecifiedModules <- NoneSpecifiedHere
  Threads = {t1}
  EntryPoints <- MCEntryPoints
  Calls <- MCCalls
  Extended <- MCExtended
  Refusable = {}
  StackLimit = 8
  MaxLoads = 1
  MaxPresent = 1
INVARIANT
  AllArgumentsPassed
\* the host may stay idle once the install is over
CHECK_DEADLOCK FALSE
