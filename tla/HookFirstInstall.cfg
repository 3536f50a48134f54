SPECIFICATION FairSpec
CONSTANTS
  NoModule = NoModule
  NULL = NULL
  NoPointer = ""
  NoDetour = "engine"
  Pointers <- HookedPointers
  LoadPlan <- HookedPlan
  HookPlan <- InstallPlan
  Forward <- ForwardPlan
  Modules <- MCModules
  Exports <- MCExports
  SpecifiedModules <- MCSpecified
  Threads = {t1}
  EntryPoints <- MCEntryPoints
  Calls <- MCCalls
  Extended <- MCExtended
  Refusable = {"luaL_newstate", "lua_load", "luaL_loadbuffer", "luaL_loadbufferx"}
  StackLimit = 8
  MaxLoads = 1
  MaxPresent = 1
INVARIANTS
  HookTypeOK
  ReportedOnce
PROPERTIES
  ImplementsInterception
  PointersQuiet
  DetourAnswers
\* the host may stay idle once the install is over
CHECK_DEADLOCK FALSE
