# TLA+ models of the CPython chat-template bridge

The C code under `src/pkg/preprocessing/` and `src/pkg/tokenization/` lets a Go
process run Python functions through cgo. The Python functions render a chat
template and look up a model's template. Each side passes one JSON string.
This project models the full bridge in `chat_completions/cgo_functions.c` and
the two lifecycle-only headers, and checks them with TLC.

## 1. Inventory

### Components

| Component | Source | State it keeps | Operations |
|---|---|---|---|
| RuntimeLifecycle | `cgo_functions.c` 21-118, 455-490 | `g_process_initialized`, `g_python_initialized`, `g_finalized`, `g_init_pid`, `g_python_init_lock`; the interpreter (`Py_IsInitialized`, the GIL) | `Py_InitializeGo`, `Py_FinalizeGo`, `Py_ReinitializeGo` |
| EntryPointCache | `cgo_functions.c` 145-225, 399-453 | `g_chat_template_module`, `g_render_jinja_template_func`, `g_get_model_chat_template_func`, `g_initialized`, `g_init_lock` | `Py_InitChatTemplateModule`, `Py_ClearCaches`, `Py_CleanupChatTemplateModule` |
| CallBridge | `cgo_functions.c` 227-397 | none of its own: it reads the cached globals; each call has its own locals | `Py_CallRenderJinjaTemplate(Internal)`, `Py_CallGetModelChatTemplate(Internal)` |
| CPython API wrappers (not modelled) | `cgo_functions.c` 119-143, both variant headers | none | `Go_PyRun_SimpleString`, `Go_PyImport_AddModule`, `Go_PyModule_GetDict`, `Go_PyDict_GetItemString`, `PyUnicode_AsGoString` |
| Lifecycle-only variants (not modelled) | `chat_completions_template/cgo_functions.h`, `tokenization/chat_template_go/cgo_functions.h` | the interpreter only | `Py_InitializeGo` = `Py_Initialize`, `Py_FinalizeGo` = `Py_Finalize` |
| Diagnostics | the `printf`/`PyErr_Print` calls | none | printing only |

### How the components interact

- All state is in process-wide C globals. There are no messages and no
  callbacks other than the Python code that the bridge calls.
- Go threads call the entry points directly, in any order and at the same
  time. The host protocol in the spec is: `Initialize` once, `InitCache` once,
  many calls, and optionally `Cleanup` or `Reinitialize`.
- `Py_ReinitializeGo` calls `Py_InitializeGo` and then
  `Py_InitChatTemplateModule`.
- Three kinds of synchronisation appear in the code:
  - **The GIL.** It is taken with `PyGILState_Ensure` by InitCache, ClearCaches,
    Cleanup and the two call workers. Python code can drop and retake it in the
    middle of `PyObject_CallObject`.
  - **Two PyThread locks.** Both are taken with `NOWAIT_LOCK`, and the result is
    never checked, so they exclude nothing.
  - **Nothing at all.** `Py_FinalizeGo`, `Py_ReinitializeGo`, the flag tests of
    `Py_InitializeGo`, and the pre-GIL checks of lookup, clear and cleanup run
    with no lock.

### Hard behaviours

- Interleaving of first-time initialisation, because the NOWAIT locks do not
  exclude anything.
- Teardown that runs without the GIL (finalize, reinitialize) racing GIL-holding
  code (cleanup, calls, init).
- Checks made before `PyGILState_Ensure` that are stale by the time the code
  uses them.
- Partial failure in the middle of cache set-up, which leaves references in the
  globals.
- Manual reference counting: an over-release is a later use-after-free, and an
  overwritten owned pointer is a leak.
- Every error exit must release the GIL, or every other thread blocks for ever.
- A `g_finalized` flag that is set once and never cleared.

### What makes each component correct

- **RuntimeLifecycle.** Initialisation is at most once and never fatal.
  Finalize leaves no cached object, however often the process was
  re-initialised before it. Teardown releases only references the bridge owns.
- **EntryPointCache.** All three globals are set exactly when `g_initialized`
  is set. Each owned reference is held by a global and released once.
- **CallBridge.** A call never dereferences a NULL or freed function. Every
  exit releases the GIL. Every call returns.

## 2. Modules

| Module | Models | Notes |
|---|---|---|
| `BridgeState` | the globals and the interpreter state as VARIABLES; per-thread `pc`, call `stack`, `ret` and locals; `EnsureGIL`/`ReleaseGIL`; Python code dropping and retaking the GIL (`PyYield`/`PyResume`); the `cold` and `serving` initial states; `TypeOK` | CONSTANTS: `Threads`, `Ops` (the entry points the host may call), `Requests`, `Shape` (which names the Python module defines and whether they are callable), `Setup`, `RefBound` |
| `RuntimeLifecycle` | `Py_InitializeGo` (7 steps), `Py_FinalizeGo` (check, mark, the release loop, then three separate flag stores), and the unlocked "test, `Py_DECREF`, set NULL" loop that Finalize and Reinitialize share (`ReleaseGlobals_*`) | |
| `EntryPointCache` | `Py_InitChatTemplateModule` (lock allocation, flag check, GIL, import, NULL test, `PyModule_GetDict`, resolve, `Py_INCREF`, GIL release, `g_initialized = 1`), `Py_ClearCaches`, `Py_CleanupChatTemplateModule` | |
| `CallBridge` | the render and lookup workers | The two workers differ only in their checks before the GIL; from the GIL on, one set of steps runs on the global that `Sel(t)` picks. |
| `ChatTemplateBridge` | `Py_ReinitializeGo`, host threads starting entry points (`StartOp`), `Next`, `Spec`, `FairSpec`, the refinement mapping to `CacheLifecycle`, and all the properties | composes the three component modules |
| `CacheLifecycle` | the contract of spec.md §4 with every entry point atomic: the runtime and cache flags, and for each thread the entry point it is in and the status it last returned | abstract specification; not mapped to code |
| `MCChatTemplateBridge` | constant values: module shapes, and the entry points each thread may call (`Ops[t]`) | used by the bridge's `.cfg` files |

### The abstract specification and the refinement

`CacheLifecycle` states what spec.md §4 promises the host, with each entry
point one atomic step: Initialize sets the runtime flag; InitCache fails
without the runtime and is all or nothing; a template call or ClearCaches
returns a result only if it found runtime and cache ready at some instant
while it ran (its linearization point, the `Serve` step); Cleanup clears the
cache flag;
Finalize clears both; Reinitialize takes, one at a time while it runs, the
effects of clearing the cache flag, clearing the runtime flag, Initialize and
InitCache, and succeeds only with both ready. The two clears are separate
abstract steps because `Py_ReinitializeGo` stores `g_initialized`,
`g_python_initialized` and `g_process_initialized` in three unlocked
statements (lines 458-460), and another thread can run between them.

`ChatTemplateBridge` defines `Lifecycle == INSTANCE CacheLifecycle WITH ...`:

| Abstract | Detailed |
|---|---|
| `runtime` | `gPythonInit` (`g_python_initialized`) |
| `cache` | `gInitialized` (`g_initialized`) |
| `call[t]` | `op[t]` while `pc[t] # "Idle"`, else `"none"` |
| `answer[t]` | `ret[t]` at `Idle`, else `"pending"` |
| `served[t]` | `Served(t)`: a template call is at `CALL_py` (it has invoked the cached function under the GIL); ClearCaches is past its `g_initialized` test; a Reinitialize whose InitCache returned 0 |

`ImplementsCacheLifecycle == Lifecycle!ASpec` is checked as a PROPERTY. Each
detailed step changes at most one of the two flags, and each such change is an
abstract step (Initialize's or InitCache's return, Cleanup's reset, one of
Reinitialize's clears); every other detailed step is a stutter. The step in which `Served(t)`
becomes true is the abstract `Serve(t)`.

The refinement is checked for two host threads. One calls every entry point
but `Py_FinalizeGo`. The other starts the runtime and calls ClearCaches and
cleanup. The second thread makes no template calls: a lookup that passed its
checks before `Py_ReinitializeGo` cleared the cache (without the GIL) still
invokes the released function, and no order of atomic calls explains that.
TLC finds this trace when Lookup is added to the second thread. It is the
`lookup_stale` hazard, seen without a crash. A lookup's linearization point
had to be its invoke, not its check: a check passes while another thread's
InitCache has set the slots but not yet `g_initialized`, and the GIL then
holds the lookup back until `g_initialized` is set. The second thread does not set
up the cache either. With InitCache on it, TLC finds this trace:
1. That InitCache passes its `g_python_initialized` test.
2. `Py_ReinitializeGo` on the first thread resets the flags.
3. The InitCache still sets `g_initialized`.

The cache is then ready without the runtime. This is the
`finalize_during_init` finding again, reached through Reinitialize.
Nor does the second thread call Initialize: `Py_InitializeGo` returns 0
without starting anything when it runs between Reinitialize's store of
`g_python_initialized = 0` (line 459) and of `g_process_initialized = 0`
(line 460), because it still sees the process flag set. The host was told the
runtime is up while `g_python_initialized` is 0. That trace is the violation
run `reinit_init_race`.

`Py_FinalizeGo` is left out of the passing run. With it, TLC finds the
refinement violated: Finalize, Init, Finalize. The second Finalize is
skipped and leaves `g_python_initialized = 1`, where the abstract Finalize
clears the runtime. This is the `finalize_twice` finding again.

Render is in the run. It dies without a cache. A dead process takes no more
steps, and a behaviour that stops there still refines `ASpec`, because a
stop is a stutter. `NoCrash` is the property about that death. Render's
successful answers are checked: each comes from a ready cache.

### How the model maps to the code

- **Steps.** Each action is one labelled step of one C function. Where the
  code stores or reads shared state in several statements that another thread
  can run between, each is its own step:
  - Finalize's three flag resets (lines 115, 116, 117) and Reinitialize's
    (458, 459, 460);
  - InitCache's import store (181), its NULL test (182) and its
    `PyModule_GetDict` (191);
  - InitCache's GIL release (220) and its `g_initialized = 1` (222);
  - every test, `Py_DECREF` and NULL store of the release loop.

  A few steps still join statements, where no other thread can tell the
  difference:
  - under the GIL, with no Python code in between: the 162/169 tests
    (`Py_IsInitialized` and `g_initialized`), the 200/201 store and test, the
    reads of 442, the 444-446 and 447-451 releases of cleanup, and the
    318-344 argument set-up of a call. Every other thread that touches these
    globals holds the GIL, except Finalize and Reinitialize; the model does not
    split those steps, so a reset by Finalize or Reinitialize between two such
    statements is not explored;
  - `Py_InitializeGo`'s flag test at line 41 with the PID test at 42 and
    the return at 48: the PID test only picks which message to print;
  - `Py_InitializeGo`'s stores at lines 80-82. An Initialize that runs
    between 80 and 81 takes the double-check exit at 63 and returns 0, as it
    would after 81. A Finalize or Reinitialize that resets the flags between
    80 and 81 would leave `g_process_initialized = 1` with
    `g_python_initialized = 0`; that interleaving is not explored, and the
    same end state is already reached by `reinit_init_race`.
- **Borrowed references are stored too.** `slot[s]` holds the object a global
  points to, whether the reference is owned or borrowed.
- **`owned[o]`** is the number of references that the bridge took and has not
  yet dropped:
  - +1 for `PyImport_ImportModule`;
  - +1 for each `Py_INCREF`;
  - −1 for each `Py_DECREF` or `Py_XDECREF`.

  A negative count means the bridge dropped a reference that belongs to the
  module dictionary.
- **`crash`** records a NULL call, a NULL dereference, `Py_DECREF`/`Py_INCREF`
  of NULL, or a fatal `PyThreadState_Get`. After a crash, no step is possible.
- **Inputs:**
  - A request is `"valid"`, `"bad_utf8"` (so `PyUnicode_FromString` fails) or
    `"null"`.
  - A Python call can succeed or fail (an exception, or a result that is not a
    `str`).
  - A lock allocation, the import and `PyTuple_Pack` can each fail.
  - All of these are nondeterministic.

### What is abstracted

- **Payloads** are abstracted as described under "Inputs" above. The spec
  requires that concurrent calls never mix up their results. Results live in
  locals and are copied with `strdup` under the GIL, so the model does not
  track result contents.
- **The NOWAIT lock acquisitions** are not modelled, because their results
  never affect control flow. Only the allocation of each lock is modelled, since
  allocation can fail.
- **`PyModule_GetDict`** cannot fail on a module object, so its error branch is
  left out.
- **The import** is one step. Python can drop the GIL during an import, which
  would let GIL-holding steps of other threads run in the middle of it. This
  is not modelled. The import touches no global until it returns, so such a
  step sees the same state as one taken just before the import.
- **Initial states** (`Setup`): a fresh process (`cold`), the state after a
  first successful `Py_InitializeGo` (`runtime`), or that plus a successful
  `Py_InitChatTemplateModule` (`serving`).
- **Printing**, including the PID warning, is folded into the step that returns.

## 3. Runs

The runs are in `PROJECT.json`. The passing runs are:

- **`serve_calls`**
  - Set-up: a fresh process and 2 threads (`OpsServeRebuild`):
    - one thread runs the whole lifecycle in any order: Init, cache set-up,
      clear, cleanup, reinitialize and finalize;
    - the other thread starts the runtime and calls render, lookup and clear.

    Every request kind is used, every failure is possible, and the GIL can be
    dropped inside Python.
  - Checks: `GilReleasedOnReturn` (invariant) and `EveryCallReturns` (liveness,
    under `FairSpec`). So no exit of any entry point keeps the GIL, and no call
    waits for ever on it or loops, whatever the lifecycle does meanwhile.
  - Many of these interleavings crash, which is what the violation runs below
    are about. A crash ends every call, so `EveryCallReturns` counts it as an
    end. The cfg sets `CHECK_DEADLOCK FALSE` because of that and because of
    the `RefBound` stop (see Bounds).
  - Size: 82,096 states.
  - Besides its own mutant, a cache set-up whose import-failure exit keeps
    the GIL (line 185) also violates `EveryCallReturns` in this run: the
    other thread then waits for ever in `PyGILState_Ensure`.
- **`lifecycle_seq`**
  - Set-up: 1 thread starts from a fresh process and calls every entry point
    except render, in any order, with every failure possible.
  - Checks: `TypeOK`, `NoCrash`, `NoOverRelease`, `NoLeak` and
    `CacheAllOrNothing`.
  - Render is left out because calling it without a cache crashes (see the
    hazard at line 275).
  - Size: 1,047 states.
- **`refines_lifecycle`**
  - Set-up: 2 threads from a fresh process. One calls every entry point
    except finalize. The other starts the runtime and calls ClearCaches and
    cleanup. Every failure is possible.
  - Checks: `ImplementsCacheLifecycle`, which is the refinement described
    above.
  - `CHECK_DEADLOCK FALSE`: a render without a cache kills the process.
  - Size: 100,336 states.

Each property of a passing run has a mutant in `PROJECT.json`. Each mutant is
a plausible slip, such as a dropped `PyGILState_Release`, a dropped
`Py_INCREF`, a forgotten `Py_XDECREF` of the module, a flag that is not reset,
a dropped NULL test, or a retry loop. TLC finds each mutant's property violated.

Each violation run checks one property, which TLC finds violated. Each is a
finding in `PROJECT.json`:

| Run | Property | Shortest trace |
|---|---|---|
| `init_race` | `NoCrash` | Two first `Py_InitializeGo` calls both pass the check. The second's `PyThreadState_Get` is fatal. |
| `lookup_stale` | `NoCrash` | The lookup passes its NULL check, then a cleanup runs, then the lookup calls NULL. |
| `partial_cache` | `CacheAllOrNothing` | `get_model_chat_template` is missing, so the module and the render function stay cached while `g_initialized = 0`. |
| `finalize_twice` | `FinalizeEmptiesCache` | Init, cache, finalize, init, cache, finalize: the second finalize is skipped. |
| `teardown_race` | `NoOverRelease` | Cleanup's `Py_XDECREF` and Reinitialize's `Py_DECREF` both hit `R`. |
| `cache_init_race` | `NoLeak` | After a cleanup, two cache inits both import. The init lock taken at line 159 is `NOWAIT` and unchecked, so it excludes nothing; the second thread's `g_initialized` test passes while the first is anywhere before its store at line 222. |
| `borrowed_release` | `NoOverRelease` | A non-callable `render_jinja_template` stays in the global, and finalize decrefs it. |
| `finalize_during_init` | `CacheNeedsRuntime` | Starts from `runtime`. One thread's cache init passes its checks. The other thread's whole Finalize runs. The init then stores the cache and sets `g_initialized = 1` with `g_python_initialized = 0`, and both threads are idle. Since `g_finalized` stays set, no later Finalize releases that cache. The property is stated for quiescent states, since Finalize itself clears the two flags in separate steps. |
| `reinit_init_race` | `ImplementsCacheLifecycle` | From `serving`, Reinitialize clears `g_initialized` and `g_python_initialized`; Initialize on the other thread then sees `g_process_initialized` still set and returns 0 with the runtime flag cleared. |

`finalize_during_init` sets `CHECK_DEADLOCK FALSE`. The other interleavings
of that race end in a `Py_INCREF(NULL)` crash, after which the process takes
no step. TLC would otherwise report that stop before it finds the invariant
violated.

Three further races were run while modelling and found `NoCrash` violated.
They are kept as hazards, covered by `NoCrash`, rather than as runs:

- render before cache set-up (line 275);
- Finalize clearing the render global between its store and the `Py_INCREF`
  in a concurrent cache init (line 207);
- Finalize clearing the module between `Py_ClearCaches`'s test and its
  `PyModule_GetDict` (line 409).

A fourth, found with Reinitialize on one thread and InitCache on the other
from `runtime`, violates `CacheAllOrNothing`: Reinitialize's release loop
clears the module after the init stored it, and the init then sets
`g_initialized` over a NULL module (the hazard at line 464).

### Bounds

- **2 threads** is enough for every race found here: each needs one thread
  inside a step and one other thread acting on the same global. `serve_calls`
  with a third thread did not finish in 20 minutes. A symmetry set would not
  help: TLC's symmetry reduction is unsound for liveness, and the threads have
  different `Ops[t]`. With every entry point on both threads, the run reaches
  more than 10 million states.
- **`RefBound = 2`** lets one extra (leaked) reference appear, which is what
  `NoLeak` needs to see. Once a count reaches the bound, or its negative (an
  over-release repeated), `StartOp` is disabled.
- **`Ops[t]`** gives each thread its own entry points. Where a race needs
  exactly one finalizer (`finalize_during_init`), the other thread may only
  set up the cache. Otherwise the shortest trace would be two finalizes
  racing, which `teardown_race` already shows.

### Fairness

`FairSpec` gives each thread strong fairness on its steps, excluding `StartOp`
and `PyYield`:

- **Strong fairness.** Taking the GIL is only intermittently enabled.
  CPython's forced switching hands the GIL to a waiting thread, which is what
  strong fairness states.
- **`StartOp` is not fair.** The host decides whether it calls at all.
- **Only while the process lives.** Each condition is on `Alive(A)`, which is
  `crash = "none" /\ A`. Once the process has died, `Next` allows no step, so
  a behaviour that stops there is fair. Without `Alive`, a step enabled after a
  crash would make that behaviour unfair, and TLC would discard it from the
  liveness check.
- **The Python functions return.** This is stated as a separate strong-fairness
  condition on the finishing step. The spec says that a hang inside Python hangs
  the caller; the model assumes that this does not happen and does not check it.

## 4. Plan

Done:

- [x] `BridgeState`, `RuntimeLifecycle`, `EntryPointCache`, `CallBridge` and
  `ChatTemplateBridge`, with the passing runs `serve_calls` and
  `lifecycle_seq`.
- [x] The abstract `CacheLifecycle` and the refinement run
  `refines_lifecycle`.
- [x] Separate steps for the unlocked flag stores of Finalize, Reinitialize
  and InitCache, and the `reinit_init_race` run they expose.
- [x] Races of the unlocked Finalize against InitCache and ClearCaches (the
  hazards at lines 117, 207 and 409).
- [x] Nine violation runs. The project keeps at most twelve runs, so further
  traces are recorded as hazards.
- [x] The refinement with two threads and linearization points
  (`served`, `Serve`).
- [x] Liveness with the whole lifecycle in the mix: `serve_calls` runs it on
  one thread against a calling thread, with fairness that lets a crashed
  process stop.

Next:

1. **GIL-less `Py_DECREF` against Python code.** Decide how to model the
   refcount data race of the hazard at line 101 (see section 5).

## 5. Not modelled

- **The template algorithms and the payload JSON.** The spec puts these out of
  scope.
- **The CPython API wrappers and the lifecycle-only headers.** The wrappers
  (lines 119-143 and the two headers) keep no state; each passes one call to
  CPython. Whether a call is legal depends on whether the caller holds the GIL
  and the interpreter is up, and that is decided by the Go callers, which are
  not in this repository. The lifecycle-only headers are `Py_Initialize` and
  `Py_Finalize` with nothing around them; a model of them says only what the
  caller does with them. The hazards at line 121 and header line 10 record
  this and name no property.
- **Fork (the PID check at line 43).** A Go process cannot go on running
  after a fork without exec, because the runtime's other threads are gone, so
  the check cannot fire in a Go host. It is not listed as a hazard.
- **Timeouts.** No entry point waits with a timeout or retries; a call blocks
  on the GIL until it gets it. The only waits are covered by
  `EveryCallReturns`.
- **Refcount races with Python code.** `Py_FinalizeGo` and
  `Py_ReinitializeGo` decref the cached objects without the GIL, while another
  thread may be running Python code. In the model a reference-count update is
  part of one atomic step, so the lost update of an unsynchronised
  read-modify-write cannot happen in it. What Python code touches the count of
  a function while it runs depends on the CPython version. The races between
  bridge threads that this unlocked teardown allows are modelled
  (`teardown_race`).
- **A corrected bridge.** The spec's design notes describe one, but it is not
  code of this repository.
- **Printing.**
