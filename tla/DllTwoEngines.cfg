SPECIFICATION LifeSpec
CONSTANTS
  NoModule = NoModule
  NULL = NULL
  NoPointer = ""
  NoDetour = "engine"
  Pointers <- LifePointers
  LoadPlan <- LifePlan
  HookPlan <- InstallPlan
  Forward <- ForwardPlan
  Modules <- LifeModules
  Exports <- LifeExports
  SpecifiedModules <- LifeSpecified
  Threads = {t1}
  EntryPoints <- LifeEntryPoints
  Calls <- LifeCalls
  Extended = {}
  Refusable = {"lua_open", "luaL_loadbufferx"}
  StackLimit = 6
  MaxLoads = 2
  MaxPresent = 2
  MaxAttaches = 2
INVARIANTS
  LifeTypeOK
  ForwardNotHooked
  ForwardReachesEngine
  RecursionNeedsReinstall
  BoundIntercepted
  UnloadSparesOthers
  NothingLeft
\* the host may stay idle once the installs are over, or die
CHECK_DEADLOCK FALSE
