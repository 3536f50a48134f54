SPECIFICATION Spec
CONSTANTS
  NoModule = NoModule
  NULL = NULL
  NoPointer = ""
  NoDetour = "engine"
  Pointers <- HookedPointers
  LoadPlan <- HookedPlan
  HookPlan <- InstallPlan
  Forward <- ForwardPlan
  Modules <- Only51
  Exports <- MCExports
  SpecifiedModules <- NoneSpecifiedHere
  Threads = {t1}
  EntryPoints <- MCEntryPoints
  Calls <- MCCalls
  Extended <- MCExtended
  Refusable = {}
  StackLimit = 8
  MaxLoads = 2
  MaxPresent = 1
INVARIANT
  NoStackOverflow
\* the host may stay idle once the install is over
CHECK_DEADLOCK FALSE
