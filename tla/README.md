# odbk: a TLA+ verification project

odbk is the backend of a Lua debugger: a Windows DLL that is brought into a
process with a Lua engine (5.0, 5.1, 5.2, 5.3 or LuaJIT), finds the engine's C
API, replaces the entry of some API functions by detours of its own, and talks
over TCP to a debugger frontend.  This directory models that program: what it
does when it loads the API, when it installs its hooks, and while the threads
of the host run Lua through those hooks.

## 1. Inventory

### 1.1 Components

| Component | Source | State it keeps | Operations |
| --- | --- | --- | --- |
| Lua loader | `odbk_lload.cpp` | `s_ctx` (symbols, version, specified modules), some 85 global API pointers | `odbk_load_lua`, `odbk_lua_finish_load`, `get_lua_fn`, `load_sym_from_app_modules` |
| Lua hooks | `odbk_lhook.cpp` | none of its own; the detours read the API pointers | `odbk_install_lua_hooks`, 21 detours |
| Hook wrapper | `odbk_hook.cpp` | MinHook's table (external) | `odbk_hook`, `odbk_enable_hook`, `odbk_hook_init`, `odbk_hook_uninit` |
| Install entry point | `odbk_core.cpp:53` | none | `odbk_install` |
| Debug session | `odbk_core.cpp` | `service_`, `vfd_` | `init`, `print`, `send`, the event callback |
| DLL life cycle | `odbk_entry.cpp` | the core singleton | `DllMain` attach and detach |
| Wire protocol | `odbk_proto.*` | none | `odbkp_create_msg` |
| PE reader | `odbk_utils.cpp:12-94` | none | `odbk_get_exports`, `odbk_get_imports` |
| Formatting, paths | `odbk_utils.cpp:96-193` | none | `odbk_sfmt`, `odbk_replace_extension`, `odbk_get_file_*` |
| Debug help loader | `odbk_dbghelp.cpp` | the `Sym*`/`Ldr*` pointers | `load_dbghelp` (no caller), `locate_sym_file` |
| 32-bit thunks | `odbk_lload.cpp:114-234` | none | conversions between 64-bit and the engine's `lua_Integer` |
| yasio, MinHook | submodules, empty here | - | external |

### 1.2 How they interact

* `odbk_install(h)` calls `odbk_load_lua(h)` and then, whatever the result,
  `odbk_install_lua_hooks()`.
* The loader communicates with the hooks through the **API pointers**, global
  variables.  The loader stores in them the addresses it finds.
  `odbk_hook(&pointer, detour)` hooks the address in the pointer *and lets
  MinHook overwrite the pointer with the trampoline*, the way past the hook.  A
  detour goes on by calling through its pointer, so that everything depends on
  whether that pointer is at the trampoline, at the hooked entry, at another
  engine's function, or null.
* The threads of the host run the engine all the while.  There is no lock
  between them and the installing thread, nor is there one around the session's
  `vfd_`, which the network thread writes and the threads of the host read.
* Nothing is ever reset.  The pointers, the symbols and MinHook's table survive
  from one install to the next, and a load that breaks off leaves them half set.

### 1.3 What is hard, and what makes each part correct

The list of hazards with their lines is in `PROJECT.json`.  In short:

* **Loader.** History: fallback lookups test pointers that an earlier load may
  have set; a failing lookup leaves the table half bound.  It is correct when the
  result of a load depends on the module alone, a success means a complete
  table, and what is left of an earlier engine is never what a caller uses.  Of a
  load by name most of that does not hold (section 3.1).
* **Hooks.** Order and interleaving: some functions have two pointers, one is
  hooked twice, some have two detours, and the pointers are rewritten one by one
  while the host's threads run; MinHook may refuse a function, which nobody
  notices.  They are correct when a detour always leaves the debugger, arrives at the function it was called for, and one call of the
  host is seen once.
* **Install.** Partial failure and repetition: the load's failure is ignored,
  an engine may be installed again, a second engine may be installed while
  the first one runs.
* **Session.** A lost connection leaves `vfd_` set, and a send reads it without a
  lock.  A message should go to the frontend that is the newest when it is
  printed, or nowhere, and never to an older one.
* **Life cycle.** Detach destroys the core, then removes the hooks, and waits for
  no thread of the host.  It is correct when only a thread that stands in a detour
  at that moment is hurt, and nothing is left behind for the next attach.
* **Symbol walk.** A recursion over a cyclic graph that other threads change.  It is
  correct when no handle it keeps goes stale, each module is searched once, the
  walk ends, and the key module is one that has Lua.
* **Sequential parts.** Buffer growth in `odbk_sfmt`, where the C runtimes differ in
  what they do with a text that does not fit: the string returned must be the
  text.  Thunks, where one version's integer has two words and the other's one:
  what is pushed, read and taken off must agree.  File names with two kinds of
  slashes and dots anywhere.

## 2. Modules

| Module | What it is |
| --- | --- |
| `LuaApi` | The tables of the program, as data: the 82 lookups of `odbk_lua_finish_load` in their order, the 21 hooks of `odbk_install_lua_hooks`, the pointers each detour goes through |
| `LuaLoad` | The loader as a state machine: one action per way of finding symbols, version detection, one step per lookup |
| `LuaHook` | Extends `LuaLoad`: the hooks one by one, MinHook, the threads of the host with their call stacks |
| `Interception` | Abstract: what the detours promise to the host; `LuaHook` implements it |
| `DllLifecycle` | Extends `LuaHook`: DllMain, the core's service, the DLL's code and globals coming and going |
| `SymWalk` | The symbol walk over all modules of the process |
| `SymFile` | The names of the symbol files that the walk looks for |
| `Thunks` | The 32-bit thunks, word by word |
| `MCEngines` | What the engines export (external) |
| `Sfmt` | `odbk_sfmt`: the lengths of the text and of the growing buffer, one action per branch |
| `Session` | The debug session: the handler of the service thread, `vfd_`, the threads that print; yasio's connections (external) |
| `MCLuaLoad`, `MCLuaHook`, `MCDllLifecycle`, `MCSymWalk`, `MCSession` | Instances for TLC |
| `MCHelpers` | An instance of `Sfmt`, `SymFile` and `Thunks` together: a behaviour is one call of one of them |
| `LuaLoad_proof`, `LuaHook_proof`, `DllLifecycle_proof`, `SymWalk_proof`, `SymFile_proof`, `Thunks_proof`, `Sfmt_proof`, `Session_proof` | Theorems and their proofs |

The tables are constants of the state machines (`LoadPlan`, `HookPlan`,
`Forward`); an instance gives them the values of `LuaApi`, the theorems hold for
any value that meets the assumptions.

### 2.1 LuaLoad and the code

| Model | Code |
| --- | --- |
| `symbols` | `s_ctx->symbols`; a module stands for the base address |
| `version` | `s_ctx->version` (`registry_index`, `globals_index` and `hook_tail_*` are functions of it) |
| `fn` | the pointers `__lua_...`; an address is the module, the name and how many trampolines deep it is |
| `hLua`, `loaded` | argument and result of `odbk_load_lua` |
| `idx` | the lookup at which `odbk_lua_finish_load` is |
| `present` | the DLLs in the process (external, grows) |
| `LoadFromHandle` | `symbols.clear()` and the exports of the given module |
| `LoadFromSpecified` | the first specified module that is there, added to the symbols there are |
| `LoadFromAppModules` | no symbols: cache stub, restricts stub, then the call of the null `LdrLockLoaderLock` |
| `DetectVersion`, `NotLua` | the chain of `symbols.find` |
| `SkipLookup`, `GetFunction` | `if (__f == nullptr)` and the `GET_FUNCTION` macros: store, then return false on a missing mandatory function |
| `FinishLoad`, `LoadReturns` | `return true`, back in the caller |

A lookup is the record `[fn, sym, since, unless]`: assign pointer `fn` the address
of `sym`, unless pointer `unless` is set; a null result ends the load from version
`since` on.  Every variant of the macros is such a record, or two.

### 2.2 LuaHook and the code

| Model | Code |
| --- | --- |
| `hooks`, `enabled` | MinHook's entries, and those that are effective |
| `refused` | functions that `MH_CreateHook` has refused to hook for a reason of its own |
| `hidx` | the `__HOOKFN` at which `odbk_install_lua_hooks` is |
| `served` | history: modules whose symbols a finished install has used |
| `again` | history: a load has used symbols of such a module, that is, an engine is installed again |
| `stack[t]` | the calls of thread `t` that have not returned: in a detour or in the engine |
| `LoadLua`, `BeginHooks` | `odbk_install`: the load, then the hooks, without a test |
| `SkipHook` | no hook for this version; or `odbk_hook`, whose pointer is null, or `MH_CreateHook` fails because the hook exists |
| `RefuseHook` | `odbk_hook`: `MH_CreateHook` fails otherwise (a function it cannot patch, memory it cannot get or that is not executable); as with any failure the result is ignored and the pointer left where it is |
| `CreateHook` | `odbk_hook`: `MH_CreateHook` succeeds |
| `EnableHooks` | `MH_EnableHook(NULL)`, then back to the host |
| `HostCall`, `EngineCall` | external: the host calls the engine, the engine calls itself through its own entries |
| `TestPointer` | one `if (pointer)` of the `loadbuffer`/`loadfile` detours |
| `CallOriginal` | the call through the pointer: it arrives (`CallArrives`), or it is one through null or without end (`CallCrashes`) |
| `Return` | the engine's function returns, and the detours above it; or the detour returns -1 |

A detour reads its pointer once to test it and once more to call: between the two
another step may come.  That is why the test is a step of its own.

`Interception` knows calls only: a thread asks for a function, the function runs at
once or after a while, and is answered; it must be the function asked for (or its
variant: `luaL_loadbuffer` and `luaL_loadbufferx` are one), in the same module, and
it must have run before the answer.  `LuaHook` implements it under the mapping
`CallsOf`, of a thread's stack to its open calls: a frame is a call if the host or an
engine put it there (`Asked`), and it has run when an engine's frame stands on it
(`OpenCall`).

### 2.3 Sfmt and the code

| Model | Code |
| --- | --- |
| `want`, `runtime` | the length of the formatted text; which `vsnprintf` is linked (external) |
| `size` | `buffer.length()` |
| `good` | how many characters in the buffer are the text's; `size + 1` when one is in the terminator's slot |
| `nret` | `nret` |
| `First`, `Fits`, `Exact`, `Again`, `TooLong`, `Grow`, `Trim` | the first pass, the four branches on its result, the loop's body, the `resize` after it |

The buffer is the function's own, so that `Sfmt` has no other actor.  `vsnprintf` is
modelled for a text that does not fit.  If it fails for another reason (a wide
character that cannot be encoded, a length above `INT_MAX`) it does so in each pass,
and the loop of `odbk_utils.cpp:124-132` would not end: that is outside the model.

### 2.4 Session and the code

| Model | Code |
| --- | --- |
| `vfd` | `vfd_` |
| `accepted`, `open` | yasio's connections in the order they came (their transports), and those still open (external) |
| `event` | the event for which the handler given to `start_service` is running |
| `sent`, `got` | what was written to each connection, and how much of it has arrived |
| `sender[s]` | thread `s` between `print` and the end of `send`: the message, and the `vfd_` it has read |
| `OnConnectResponse`, `OnConnectionLost`, `OnPacket` | the three branches of the handler |
| `PrintMsg`, `Write` | `print` and `send` up to the read of `vfd_`; `service_.write` |
| `Connects`, `Refuses`, `Loses`, `Receives`, `Delivers` | external: yasio's service thread |

`since` in a message is history: the newest connection known when it was printed.
Of yasio three things are assumed, from how `odbk_core` uses it: the handler runs on
the service thread, one event at a time (`YOPT_DEFER_EVENT` 0); a transport is not
freed with its connection but may serve a later one (`vfd_` is never reset); a
write to a null or closed transport does nothing (`send` does not test).

### 2.5 DllLifecycle and the code

| Model | Code |
| --- | --- |
| `dll` | is the DLL's code in the process; between the two calls of the detach branch it is `"detaching"` |
| `service` | the service thread of `odbk_core` |
| `Attach` | `odbk_hook_init`, `odbk_core::init` |
| `DestroyCore`, `RemoveHooks` | the detach branch; with the second the globals are gone: pointers, symbols, MinHook's table |
| `left[t]` | the frames of thread `t` that were in detours when the code went |
| `RunsUnmapped(t)`, `ServiceUnmapped` | external: thread `t`, or the service thread, is in what was there or about to return into it |
| `CrashUnmapped` | external: the process dies of it |

The host keeps one promise: it neither unloads the DLL during a call of
`odbk_install` nor calls it before attach or after detach began.

### 2.6 SymWalk, SymFile and the code

| Model | Code |
| --- | --- |
| `lock` | between `LdrLockLoaderLock` and `LdrUnlockLoaderLock` |
| `snapshot` | what `Module32Next` has still to return |
| `calls` | the calls of `load_sym_from_module` that have not returned, with the imports they have still to visit |
| `loadedModules`, `warnedModules` | the two sets of `load_sym_context` (the second is filled with the address of a local array, `Buffer`) |
| `symbols`, `keyModule` | `s_ctx->symbols`, `s_ctx->key_module` |
| `visits`, `checks` | history |
| `NextModule`, `NextImport`, `LoadSymbols`, `Return` | the two loops, the body of a call up to its loop, its end |
| `HostLoads`, `HostFrees` | external: other threads, while the loader lock is free |

The order of a snapshot and of an import table is left open.  `SnapshotFails`: the
failure value of `CreateToolhelp32Snapshot` is `INVALID_HANDLE_VALUE`, not null, so
that the `else` branch (line 756) is never taken and the walk finds nothing.

The walk is modelled as a component, under the contract that `load_dbghelp` has
run, for any set `Restricts` of wanted names and any `app_module_`.  The program
as it stands does not keep that contract (`FindSlowStartDies`), its `restricts` are
empty and its `app_module_` is null.

`SymFile` is what happens to file names inside `LoadSymbols`: the name of a module
without symbols is given the extension `pdb` in place (`dot` is the index of the
loop), and a CodeView record is looked for as recorded and beside the image that the
module info names (`loaded`, `LoadedImageName`).  Both are read again when the `.pdb`
was loaded in the module's place; what the debug help library says of either is
left open (`ModuleInfo`).
A name without any dot lets the loop leave the array; what comes then is
undefined and ends the model (`"outside"`).

### 2.7 Thunks and the code

`stack` holds the words on the stack, `eax` and `edx` the result registers; `Push` is
the sequence of `push` instructions of a branch, `Call` the engine's function
(external: it reads its parameters where its version declares them, and leaves
anything in `edx` when its result has one word), `Clean` the `add esp` and the
assembly of the result.  `CallNull` is the call through a pointer that no load binds:
`lua_tointegerx` with Lua 5.0 and 5.1, `lua_rawseti` with every engine.

## 3. Runs

| Run | Question | States |
| --- | --- | --- |
| `LuaLoadReload` | two loads in a row, any modules, any way of naming them | 22 215 |
| `HookFirstInstall` | the first install under a running host, with refused hooks; refinement and liveness | 15 675 |
| `DllTwoEngines` | the DLL comes twice, two installs of three engines, refused hooks, any unload | 219 303 |
| `SymWalk` | two walks over a cyclic graph while DLLs come and go | 193 736 |
| `Helpers` | one call of `odbk_sfmt`, of the search for symbol files, or of a thunk, for all inputs | 224 436 |
| `SessionFrontends` | frontends come and go while two threads print | 35 978 |

* `SuccessIsComplete`: a success has bound what the plan makes mandatory.  From where
  is another question, and there a load by name and a delay load (by handle) differ:
  the latter clears the symbols first.  `StalePointersShadowed` and `OutcomeHistoryFree`
  are about delay loads: a pointer into another engine than the one just loaded can
  only be a fallback whose preferred function is bound in that one; and what an
  earlier load left has no influence on the result.  The last one is the least
  evident, since the fallback tests do read stale pointers.  It holds because each of
  them reads a pointer that is assigned unconditionally a line before.  Of a load by
  name neither holds (`FindEnginesMixed`).
* `ImplementsInterception`, `ReportedOnce`, `PointersQuiet`, `DetourAnswers`: during and
  after the first install, whichever of its functions MinHook refused.
  `PointersQuiet` is the reason the first install needs no
  lock: no detour runs before all hooks are enabled, and no pointer moves
  afterwards.
* `ForwardNotHooked`, `ForwardReachesEngine`, `BoundIntercepted`: over two installs, the
  second of another engine or after a load that broke off, or after the DLL
  was loaded anew.  They say nothing of the states after an engine was installed
  again (`again`); what holds there is `RecursionNeedsReinstall`.  `BoundIntercepted`
  excepts the functions that MinHook refused: they are bound and not intercepted,
  and the debugger never knows.
  `ImplementsInterception` and `ReportedOnce` are *not* claimed of two engines and do
  not hold: the pointers are rebound to the second engine while the hooks of the
  first one stay enabled, so that the first engine's detours forward into the
  second engine, or through a pointer it does not have.  No document of the
  repository says that two engines are supported; this is listed among the
  hazards.
* `UnloadSparesOthers`, `NothingLeft`: detach waits for nobody, so that a thread inside a
  detour is lost; what holds is that a thread that is lost was itself inside one, that
  the service does not outlive the code, and that nothing stays intercepted.
* `HandlesValid` is what the loader lock is for.  `VisitedOnce` holds although
  `warned_modules` is never asked for what was put in: `loaded_modules` does the
  work.
* `KeyIsOwner`: of several modules with symbols the last is the key module, and the
  application gives way to any other.  It holds only because the key module changes
  exactly when new symbols came.
* `EngineGetsCall`, `StackRestored`, `ResultArrives`: a negative result of an engine before
  5.3 arrives without its sign, as the number with the same lower word (-1 as
  2^32 - 1), since `HighPart` stays 0; `ResultArrives` says exactly that, so it documents
  the missing sign rather than objecting to it.
* `FileTypeOK`: the scan for the dot has no lower bound, but in a name that has a dot it
  stays in the name.  Of a name without one nothing is claimed.
* `PdbBesideModule` holds for titles with a dot.  For `C:/lua.d/host`, without one, the
  name built is `C:/lua.pdb`.
* `TextExact`, `LengthExact`, `Terminates`: `odbk_sfmt` at every length.  The
  terminator's slot is counted as one more character in each pass; whether that
  costs the last character depends on the runtime and on the branch.  With the
  one of Visual Studio 2013 it does: a text of 385 characters, one more than the
  buffer after its first growth, comes back with a null as its last (`LengthExact` allows
  that, `TextExact` leaves this runtime out).
* `NewestIsCurrent`, `NotToOlder`, `OnlyOnce`, `Arrives`: the session.  `NotToOlder` is what holds
  of the unlocked `send`.  More does not: when a transport serves a second
  connection before the handler has run for it, a thread that had read that
  transport long ago writes to the new frontend and, with its next message, to the
  one before.

### 3.1 Statements of the sources that the program does not keep

| Run | Statement | What happens |
| --- | --- | --- |
| `FindLoadNotHooked` | `odbk_lhook.cpp:127`: lua_load is hooked in 5.2, 5.3 | `odbk_lload.cpp:531` overwrites the pointer with null unless the engine is LuaJIT |
| `FindSlowStartDies` | `odbk_lload.cpp:238`: without a Lua DLL the start is slow | it calls a null pointer |
| `FindModeDropped` | `odbk_lhook.cpp:127`: in LuaJIT the detour is that of `lua_loadx`; `:76`: passing more arguments is harmless | `lua_loadx` gets one too few |
| `FindReinstallRecurses` | `odbk_lload.h:432`, for the same engine again | a detour calls itself until the stack overflows |
| `FindEnginesMixed` | `odbk_lload.cpp:268`: the API is loaded from the specified modules | the symbols of a delay load that broke off are kept, and most pointers of the load by name that follows lie in its engine |
| `FindWalkGoesOn` | `odbk_lload.cpp:707`: "skip all other module!" | only one call of the recursion ends; its callers go on with their other imports and modules |

No run is needed to see that `lua_rawseti` and `lua_pushlightuserdata` are never
looked up (the lookup at `odbk_lload.cpp:417` is commented out), though
`odbk_lload.h:333` speaks of all the APIs that the debugger requires.

### 3.2 Bounds, and why they are enough

* `MaxLoads` (2): what a load sees of the past is the table, the symbols and the
  version; the modules of `LuaLoadReload` let the first load leave them complete,
  broken off at two places, or untouched, in each of the five engines.
* `MaxPresent` (2; 1 in `HookFirstInstall`): a load looks at the module it is given, or at the first
  specified one.
* `Threads` (one): host threads write nothing but their own stacks, so that they
  do not influence each other nor the installing thread; two threads (268 000
  states) were checked and show nothing new.
* `Refusable`: the functions MinHook may refuse; any of four in `HookFirstInstall`, among
  them one that is hooked twice and the two variants of another, and of two in
  `DllTwoEngines`.  The theorems hold for any.
* `StackLimit` (8; 6 in `DllTwoEngines`, whose engines nest less): without recursion no stack gets deeper than six frames; the
  limit is what ends a recursion.  An engine's call of itself is not taken beyond
  it.
* `Initial` (256, the code's) and `Texts` (0 to 1000) of `Sfmt`: the buffer grows
  up to four times, and every text next to a buffer's length is among them.
* `MaxSessions` (3), `Transports` (2), `Senders` (2), `MaxMessages` (1) of `Session`: an
  older, a newer and a next frontend, with transports that must be used again; the
  properties speak of one message and of the queue it shares with another.
* `MaxAttaches` (2) of `DllLifecycle`: what is left of the first load meets the second.
* `SymWalk`: five modules with a circle, a module reached on two paths, the debugger
  among the imports, a name that two modules have; `Enough` (3, for 166) is reached
  in some walks and not in others; `MaxWalks` (2).
* `Base` (16, for 2^32) of `Thunks`: the integers lie within two of 0, of half a word,
  of a word and of half of two words, on both sides; that the size of a word does
  not matter is proved (`Thunks_proof`).
* `SymFile`: four characters are enough for a directory with a dot, a title and both
  slashes.
* `HookedPlan`, `LifePlan`: the runs of `LuaHook` use only the lookups whose pointers the
  hooks or detours read, and `lua_pushthread`, where a load of Lua 5.3 can break
  off.  The full plan is checked by the runs of `LuaLoad`.
* `CHECK_DEADLOCK FALSE`: the model stops where loads are used up, the host is
  idle or the process is dead.

### 3.3 Fairness

`FairSpec` of `LuaHook` assumes weak fairness of a thread inside a detour: it runs
straight code, takes no lock and waits for nothing, so that the scheduler is all it
needs. Nothing is assumed of the thread inside `odbk_install` (that it ends is no
property here: it is a fixed sequence of calls). Nothing is assumed of the host: it need
not load a DLL, call the engine, return from it, or call `odbk_install`. `FairSpec` of
`SymWalk` is the walking thread, which waits for nothing but the loader lock.
`SfmtFairSpec` is a function that keeps running, and the fairness of `HelpersSpec`.
`FairSpec` of `Session` assumes weak fairness of the handler and of a thread inside
`send`, which wait for nothing, and strong fairness of the delivery: the service thread
serves an open connection again and again between other events.

## 4. Proofs

Eight modules hold theorems, checked with TLAPS:

| Theorem | Statement |
| --- | --- |
| `LoadTypeCorrect` | `LoadSpec => []LoadTypeOK` |
| `SuccessCorrect` | `LoadSpec => []SuccessIsComplete` |
| `HookTypeCorrect` | `Spec => []HookTypeOK` |
| `RecursionCorrect` | `Spec => []RecursionNeedsReinstall` |
| `ForwardCorrect` | `Spec => []ForwardNotHooked` |
| `ReachesCorrect` | `Spec => []ForwardReachesEngine` |
| `PromiseCorrect` | `Spec => ImplementsInterception`, if `MaxLoads = 1` and `DetoursOwn` |
| `BoundCorrect` | `Spec => []BoundIntercepted` |
| `QuietCorrect` | `Spec => PointersQuiet`, if `MaxLoads = 1` |
| `ReportedCorrect` | `Spec => []ReportedOnce`, if `MaxLoads = 1` and `CallsOnward` |
| `GetsOnCorrect` | `Spec => [](DetourGetsOn /\ fault # "null forward")`, if `MaxLoads = 1` and `DetoursOwn` |
| `AdvancesCorrect` | `Spec => DetourAdvances`, if `MaxLoads = 1` and `DetoursOwn` |
| `HistoryFreeCorrect` | `LoadSpec => []OutcomeHistoryFree` |
| `StaleCorrect` | `LoadSpec => []StalePointersShadowed` |
| `LifeTypeCorrect` | `LifeSpec => []LifeTypeOK` |
| `NothingLeftCorrect` | `LifeSpec => []NothingLeft` |
| `UnloadCorrect` | `LifeSpec => []UnloadSparesOthers` |
| `LifeReachesCorrect` | `LifeSpec => [](ForwardNotHooked /\ ForwardReachesEngine /\ RecursionNeedsReinstall)` |
| `LifeBoundCorrect` | `LifeSpec => []BoundIntercepted` |
| `WalkTypeCorrect` | `Spec => []WalkTypeOK` of `SymWalk` |
| `HandlesCorrect` | `Spec => []HandlesValid` |
| `VisitedCorrect` | `Spec => []VisitedOnce` |
| `WholeWalkCorrect` | `Spec => SearchesAllOrNone` |
| `KeyCorrect` | `Spec => []KeyIsOwner` |
| `DepthCorrect` | `Spec => [](Len(calls) <= Cardinality(Modules \ {Debugger}))`, if `Modules` is finite |
| `WalkShrinks` | `Spec => WalkAdvances` |
| `FileTypeCorrect` | `FileSpec => []FileTypeOK` |
| `NamesSplitCorrect` | `FileSpec => []NamesSplit` |
| `PdbCorrect` | `FileSpec => []PdbBesideModule` |
| `LocatedCorrect` | `FileSpec => []LocatedMatches` |
| `ThunkTypeCorrect` | `ThunkSpec => []ThunkTypeOK` |
| `GetsCallCorrect` | `ThunkSpec => []EngineGetsCall` |
| `StackCorrect` | `ThunkSpec => []StackRestored` |
| `ResultCorrect` | `ThunkSpec => []ResultArrives` |
| `SfmtTypeCorrect` | `SfmtSpec => []SfmtTypeOK` |
| `TextCorrect` | `SfmtSpec => []TextExact` |
| `LengthCorrect` | `SfmtSpec => []LengthExact` |
| `BufferCorrect` | `SfmtSpec => []BufferBounded` |
| `SfmtShrinks` | `SfmtSpec => [](StepsLeft \in Nat) /\ [][StepsLeft' < StepsLeft]_sfmtVars` |
| `SessionTypeCorrect` | `Spec => []SessionTypeOK` |
| `NewestCorrect` | `Spec => []NewestIsCurrent` |
| `NotToOlderCorrect` | `Spec => []NotToOlder` |
| `OrderCorrect` | `Spec => [](InOrder /\ OnlyOnce /\ NoneInvented)` of `Session` |

They hold for every plan of lookups and hooks, every set of modules and threads,
every number of loads and every stack limit that meet the assumptions:

* `ModulesAssumption`, `PlanAssumption`, `HookAssumption`, `NullAssumption`,
  `SfmtAssumption`, `SessionAssumption`: types of the constants.
* `PlanOrder`: what a lookup makes mandatory is not assigned again by a later
  lookup, nor is the pointer that makes it unnecessary.
* `PlanPreferred`: a pointer that makes a lookup unnecessary is looked up before, in any
  case, and assigned by nothing else afterwards.
* `LifeAssumption`, `WalkAssumption`: types of the constants.
* `ThunkAssumption`: a word has an even number of values, and the integers have two words.
* `FileAssumption`: file names are sequences of characters, a module's is not empty, the
  new extension has neither a dot nor a slash.
* `SymbolsApart`: two hooked pointers are never looked up under one name.
* `DetoursOwn`, a hypothesis of `PromiseCorrect`, `GetsOnCorrect` and `AdvancesCorrect`: a
  detour goes on through pointers of the function it stands for, the one it was
  installed for among them.
* `CallsOnward`, a hypothesis of `ReportedCorrect`: where an engine's function calls
  another variant of itself (`luaL_loadbuffer` calls `luaL_loadbufferx`), that one calls
  no third, and a detour tests the pointers of the called variant before those of
  the caller.  The first half is a fact about the engines, the second one is the order of
  the tests in `luaL_loadbufferx_hook` and its like.
* `MaxLoads = 1`, a hypothesis of these and of `QuietCorrect`: with two installs none of
  them holds (section 3).
* `IsFiniteSet(Modules)`, a hypothesis of `DepthCorrect`, so that there is a number to
  compare with.

TLC evaluates all of them for the tables of `LuaApi`; `DetoursOwn` and `CallsOnward` are
the assumptions `LifeDetoursOwn` and `LifeCallsOnward` of `MCDllLifecycle`.

`SuccessIsComplete` is not inductive; `DoneSoFar` says the same of the lookups
before `idx`.  A lookup keeps it by `PlanOrder`, and at the end of the plan it is
the goal.

`ForwardNotHooked` says nothing of how a pointer got where it is.
`PointerInv` adds that: a pointer holds a symbol the plan looks up for it
(`OwnSymbol`, so that no two hooked pointers share a function), in a module of this
load or of an earlier install (`KnownModule`; `KnownHook` for what is hooked); all
hooks on the function of a pointer are shallower than the pointer (`Below`); and
until an engine is installed again the module being loaded has no hooks yet (`Fresh`).  A lookup
establishes `Below` for a module without hooks, a hook keeps it because the
pointer moves one trampoline deeper than the address that is hooked.
`ReachesCorrect` adds `OwnVia`: a detour goes on through a hooked pointer.

`BoundIntercepted` needs to know what a trampoline leads past: under one there is
always a hook on the engine's own code (`Based`).  Every hook of the plan that was
passed has left its pointer at a trampoline, whether it was created or existed
(`Moved`; the latter by `ForwardNotHooked`), unless it is at a function that was
refused (`refused`); and hooks wait to be effective only while an install creates them
(`AllEnabled`, a part of `HookTypeOK`).

`QuietInv` is short: until the only install ends, nothing is effective and no frame is
in a detour; afterwards no pointer moves.

The refinement needs all of these.  `SimInv` adds that the symbols are those of one
module (`OneEngine`), that what is hooked is the function of a pointer that was looked
up there (`HookedFor`), and that the frame of a detour stands where its hook is, goes
on through a pointer of its own, and has passed over null ones only (`OwnFrames`).
A detour therefore always has a pointer (`DetourHasPointer`: the -1 at its end is never
reached), and what it calls is in the module and of the function it was called for
(`DetourGoesOn`).  The lemmas above it are about stacks alone: of two frames on each
other at most one is a detour's (`Alternating`), so that the call of a frame has run
in the frame itself or in the next one (`RanBy`), and a push, a change at the top and a
return do to the open calls what `Ask`, `Run`, a stutter and `Answer` say.

`ReportedOnce` speaks of a whole stack, but a step sees its top.  `CallChain` says of two
frames on each other how the upper one came there (`Follows`): what it is called for is
in the engine's own calls if the lower one is an engine's, and it stands at the address
in the lower one's pointer if that one is a detour's.  Suppose that two detours stand for
one call (`OnceInChain`).  The first went on to a variant, whose code called another
one.  That one calls no further variant, so that the second detour stands for it, and
it is hooked.  Then it has a pointer, not null (`HookedFor`), which the first detour had
tested before the one it chose, or it would not be `CallsOnward` - but all those it had
tested are null (`OwnFrames`).

`FoundInv` keeps that every frame that has chosen a pointer chose one that is not null,
which a later step could spoil only by moving the pointer.  With `DetourHasPointer` for
the frames that have not chosen yet, no detour comes to its last line.

`OutcomeHistoryFree` and `StalePointersShadowed` are about pointers that the present load
has not touched.  `HistoryInv` says of every lookup passed that its pointer is current
or shadowed by a current one (`Done`), of the pointer a fallback tests that
`PlanPreferred` has put it in order before, and of the verdict that it agrees with the
module's exports so far (`Judged`).

`LifeInv` carries `LuaHook_proof`'s invariant through attach and detach: with the
globals all pointers are null and no hook is left, so that it holds anew; what is
added is that the service runs only while the DLL is in, and that a frame in a
detour, while the DLL is out, is one of `left`.

`WalkInv` adds to the properties of `SymWalk` that a walk holds the lock in all its
phases, that a module is counted exactly when it is in `loadedModules`, and `Covered`:
what is in the process was searched or is still in the snapshot.  The graph of
imports does not matter, since the snapshot alone covers everything.  `SearchesAllOrNone`
is what follows at the end of a walk: everything was searched, whatever the log says
about skipping, or the snapshot failed and nothing was.

`DepthInv` adds that no two open calls are for the same module, and each is for one that
is in `loadedModules` by now (`OneCallEach`); the open calls are then an injection into the
modules beside the debugger, and the length of the stack is at most their number.
`WalkShrinks` is the order by which a walk ends: first the modules not loaded, then the
open calls, then what the innermost call, or the snapshot if there is none, has yet to
visit.  `Fewer` is a proper subset, so that no finiteness is needed for the order; with a
finite number of modules it has no infinite descent.

`FileInv` has one conjunct for each loop or call: there is no dot behind the index of the
scan, so that one that gets to the front has passed a name without a dot (`ScanInv`,
`NoDotAnywhere`); at its end the name is the old one up to that dot and the extension
(`PdbInv`); the file located is the one the two tests choose (`LocatedInv`).  Most of
the proof is about names: `LastOf`, a `CHOOSE`, is the last place of a character in a
name of any length (`LastPlace` finds it as the least distance from the end, since a
maximum is beyond the provers but well-foundedness of the numbers is a library
theorem); a place with no slash behind it is the end of the path (`PathEndUnique`); so
that cutting a name, putting another title in its place and cutting it again are
understood (`NameSplits`, `JoinSplits`, `CutAndExtended`).

`Thunks_proof` has the number of words on the stack and the arithmetic of integers with
two words, for a word of any even size: the parts of an integer put together again
with a sign are the integer, and the lower part of one that fits a word is the word.

The invariant of `Sfmt_proof` says what each branch knows: the last pass was given
the whole buffer, the loop is entered only with a runtime that returns -1, and at
its end the text fits.  `PassEffect` states what one pass does.
`GrowInv` adds that the loop's body is entered only while the buffer is shorter than the
text.  Each pass makes the buffer longer by half, at least by one, and so at most half
as much again as the text; what is missing of the text bounds the passes (`StepsLeft`).

`NotToOlder` is not inductive: it needs to know what a thread has read.  The
invariant of `Session_proof` adds `OwnTarget` (the transport read is that of
connection `since`), `Latest` (an open connection is the last one its transport has
served, so that a transport leads to `since` or to something newer) and that `vfd_`
is the transport of the newest connection handled.

`OrderCorrect` is about two threads that write at the same time.  `Unwritten` says of the
messages in the connections' queues that none is newer than its thread's last one, nor
that one while its thread is still in `send`: a write therefore puts its message behind
all others of the thread, and nowhere twice.  The order holds on one connection only.
Across connections it does not: a thread that has read `vfd_` before a transport is used
again writes to the newer frontend, and its next message, printed before the handler has
run, to the older one.

Every theorem about steps that lower a number or shrink a set is the safety half of a
liveness property the runs check: `AdvancesCorrect` of `DetourAnswers`, `WalkShrinks`
of `WalkEnds`, `SfmtShrinks` of `Terminates`.  They are proved for every value of the constants.

Only model-checked: the other half of these liveness properties - that a step
is possible (`ENABLED`), and taken because of fairness - and `Arrives`, all out of the
proof system's reach; and the six runs that end in a counterexample.

## 5. Not modelled

* The byte layout of the PE tables; `odbk_get_exports` and `odbk_get_imports` are what
  they return.
* A failure of `MH_EnableHook` or `MH_Initialize`: `odbk_enable_hook(nullptr)` makes all
  hooks effective.
* A delay load between two symbol walks, which would clear the symbols and leave the key
  module: as the program stands no walk gets that far (`FindSlowStartDies`).
* A `vsnprintf` that fails for another reason than a text that does not fit.
* Two threads inside `odbk_install` at once: they race on an `unordered_map`, which is
  undefined, and nothing can be claimed.
* Unloading of an engine by the host while its pointers are kept; an engine's address
  is never reused.
* `odbkp_create_msg` (straight code through yasio's streams) and the fields of a packet,
  which the handler reads and drops.
* Whether `~io_service` joins its thread, while DllMain holds the loader lock: yasio is
  an empty submodule here.
* `load_dbghelp`, which nothing calls; file names longer than `_MAX_PATH`.
* The continuation context that `lua_callk_hook` and `lua_pcallk_hook` narrow to an `int`.
* The wording of log messages, and the build.

## 6. Plan

1. The theorems of `LuaHook_proof` that hold of one install, for `DllLifecycle`: they do
   not hold as they stand once `RemoveHooks` takes the pointers away under a detour, but
   between attach and detach they should.
2. The promise of `Interception` for two engines, once the program keeps the pointers of
   each engine apart.
3. Framing of `odbkp_create_msg` against a reader, once the repository has one.
