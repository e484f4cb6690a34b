------------------------- MODULE ChatTemplateBridge -------------------------
(***************************************************************************)
(* The whole bridge of src/pkg/preprocessing/chat_completions/             *)
(* cgo_functions.c: host threads call its entry points in any order and   *)
(* any interleaving; Py_ReinitializeGo composes the release of the         *)
(* globals, Py_InitializeGo and Py_InitChatTemplateModule.                 *)
(***************************************************************************)
EXTENDS RuntimeLifecycle, EntryPointCache, CallBridge

\* The first label of each entry point.
Entry == [Init      |-> "IG_check", InitCache |-> "IC_lock",
          Render    |-> "RD_check", Lookup    |-> "LK_check",
          Clear     |-> "CC_check", Cleanup   |-> "CL_check",
          Finalize  |-> "FG_check", Reinit    |-> "RI_reset"]

\* An idle host thread calls an entry point.  Only the two template calls
\* take a json_request.  The bound keeps leaked and over-released
\* references finite.
StartOp(t) ==
    /\ pc[t] = "Idle"
    /\ \A o \in Objs : -RefBound < owned[o] /\ owned[o] < RefBound
    /\ \E o \in Ops[t] :
         /\ op' = [op EXCEPT ![t] = o]
         /\ \E r \in (IF o \in {"Render", "Lookup"} THEN Requests ELSE {"none"}) :
              req' = [req EXCEPT ![t] = r]
         /\ CallFn(t, Entry[o], "Idle")
    /\ UNCHANGED <<pyVars, flagVars, lockVars, cacheVars, crash, k>>

-----------------------------------------------------------------------------
\* Py_ReinitializeGo: g_initialized = 0; g_python_initialized = 0;
\* g_process_initialized = 0, three stores with no GIL and no lock, then
\* release the globals.
Reinitialize_Reset(t) ==
    /\ pc[t] = "RI_reset"
    /\ gInitialized' = FALSE
    /\ Goto(t, "RI_python")
    /\ UNCHANGED <<pyVars, gProcessInit, gPythonInit, gFinalized, lockVars,
                   cacheVars, crash, localVars>>

Reinitialize_ResetPython(t) ==
    /\ pc[t] = "RI_python"
    /\ gPythonInit' = FALSE
    /\ Goto(t, "RI_process")
    /\ UNCHANGED <<pyVars, gProcessInit, gInitialized, gFinalized, lockVars,
                   cacheVars, crash, localVars>>

Reinitialize_ResetProcess(t) ==
    /\ pc[t] = "RI_process"
    /\ gProcessInit' = FALSE
    /\ k' = [k EXCEPT ![t] = 1]
    /\ CallFn(t, "RS_test", "RI_init")
    /\ UNCHANGED <<pyVars, gPythonInit, gInitialized, gFinalized, lockVars,
                   cacheVars, crash, op, req>>

Reinitialize_Init(t) ==
    /\ pc[t] = "RI_init"
    /\ CallFn(t, "IG_check", "RI_cache")
    /\ UNCHANGED <<pyVars, flagVars, lockVars, cacheVars, crash, localVars>>

\* if (result != 0) return result; result = Py_InitChatTemplateModule();
Reinitialize_Cache(t) ==
    /\ pc[t] = "RI_cache"
    /\ IF ret[t] = "ok" THEN CallFn(t, "IC_lock", "RI_done")
                        ELSE Return(t, ret[t])
    /\ UNCHANGED <<pyVars, flagVars, lockVars, cacheVars, crash, localVars>>

Reinitialize_Done(t) ==
    /\ pc[t] = "RI_done"
    /\ Return(t, ret[t])
    /\ UNCHANGED <<pyVars, flagVars, lockVars, cacheVars, crash, localVars>>

Py_ReinitializeGo(t) ==
    \/ Reinitialize_Reset(t) \/ Reinitialize_ResetPython(t)
    \/ Reinitialize_ResetProcess(t) \/ Reinitialize_Init(t)
    \/ Reinitialize_Cache(t) \/ Reinitialize_Done(t)

-----------------------------------------------------------------------------
\* Every step of a thread inside the bridge except dropping the GIL in the
\* middle of Python code.
Progress(t) ==
    \/ Py_InitializeGo(t) \/ ReleaseGlobals(t) \/ Py_FinalizeGo(t)
    \/ Py_InitChatTemplateModule(t) \/ Py_ClearCaches(t)
    \/ Py_CleanupChatTemplateModule(t) \/ Py_CallInternal(t)
    \/ Py_ReinitializeGo(t) \/ PyResume(t)

Next ==
    /\ crash = "none"
    /\ \E t \in Threads : StartOp(t) \/ Progress(t) \/ PyYield(t)

Spec == Init /\ [][Next]_vars

\* Host threads are OS threads, so a step a thread can take is eventually
\* taken, while the process lives.  Taking the GIL is only intermittently
\* enabled; CPython's forced switching hands it to a waiting thread, which
\* strong fairness states.  The Python functions are assumed to return (a
\* hang in them hangs the caller, which this model does not check).
\* Calling the bridge at all is the host's choice, so StartOp is not fair.
Alive(A) == crash = "none" /\ A

Fairness ==
    \A t \in Threads :
        /\ SF_vars(Alive(Progress(t)))
        /\ SF_vars(Alive(Call_Finish(t) \/ ClearCaches_Finish(t)))

FairSpec == Spec /\ Fairness

-----------------------------------------------------------------------------
(* Properties.                                                             *)

Quiescent == \A t \in Threads : pc[t] = "Idle"

\* The process never dies inside the bridge: no NULL global is called,
\* decref'ed or dereferenced, and no thread without a thread state reaches
\* PyEval_ReleaseThread(PyThreadState_Get()).
NoCrash == crash = "none"

\* Py_DECREF in Py_FinalizeGo, Py_ReinitializeGo and Py_Cleanup... never
\* drops a reference the bridge did not take (PyImport_ImportModule's new
\* reference, Py_INCREF of a function): a negative count means a reference
\* owned by the module's dictionary was stolen, a later use-after-free.
NoOverRelease == \A o \in Objs : owned[o] >= 0

\* The bridge owns at most one reference per object, and only while a
\* global holds it: every reference it takes is one it will drop (a global
\* overwritten while holding a reference, as a repeated import or Py_INCREF
\* does, leaks it).
NoLeak ==
    \A o \in Objs : owned[o] <= IF \E s \in Slots : slot[s] = o THEN 1 ELSE 0

\* Whenever no call is in progress, the three globals are all set exactly
\* when g_initialized says the cache is ready, and all NULL otherwise: no
\* partial cache survives a failed Py_InitChatTemplateModule.
CacheAllOrNothing ==
    Quiescent => \A s \in Slots : (slot[s] # NULL) = gInitialized

\* Whenever no call is in progress, the cache is not marked ready over a
\* runtime that is not: Py_FinalizeGo and Py_ReinitializeGo reset
\* g_initialized as well as g_python_initialized, and
\* Py_InitChatTemplateModule sets it only after finding
\* g_python_initialized set.  (Inside Py_FinalizeGo the flags are reset
\* one by one, so the two briefly disagree.)
CacheNeedsRuntime == Quiescent => (gInitialized => gPythonInit)

\* A thread that has returned from the bridge no longer holds the GIL
\* (every early return of a worker releases it).
GilReleasedOnReturn == \A t \in Threads : pc[t] = "Idle" => gil # t

\* When Py_FinalizeGo returns, the cache holds no object, however often
\* the process was initialized and finalized before.
FinalizeEmptiesCache ==
    [][\A t \in Threads :
         (op[t] = "Finalize" /\ pc[t] # "Idle" /\ pc'[t] = "Idle")
            => \A s \in Slots : slot'[s] = NULL]_vars

\* Thread t's call is past its linearization point: a template call has
\* invoked the cached function (under the GIL), ClearCaches has found
\* g_initialized set, and Py_ReinitializeGo's InitCache has returned 0.
Served(t) ==
    \/ op[t] \in {"Render", "Lookup"} /\ pc[t] = "CALL_py"
    \/ op[t] = "Clear" /\ pc[t] \in {"CC_gil", "CC_get", "CC_py"}
    \/ op[t] = "Reinit" /\ pc[t] = "RI_done" /\ ret[t] = "ok"

\* The abstract lifecycle seen through the detailed state: the runtime flag
\* is g_python_initialized, the cache flag g_initialized, a thread is inside
\* the entry point it was called through until it is back at Idle, and its
\* status is the C function's return value.
Lifecycle == INSTANCE CacheLifecycle WITH
    runtime <- gPythonInit,
    cache   <- gInitialized,
    call    <- [t \in Threads |-> IF pc[t] = "Idle" THEN "none" ELSE op[t]],
    answer  <- [t \in Threads |-> IF pc[t] = "Idle" THEN ret[t] ELSE "pending"],
    served  <- [t \in Threads |-> Served(t)]

\* The entry points behave as the atomic operations of CacheLifecycle: each
\* flag changes only as the operation in progress allows, and a template
\* call, ClearCaches or Py_ReinitializeGo reports success only if it found
\* the runtime and the cache ready at some instant while it ran.
ImplementsCacheLifecycle == Lifecycle!ASpec

\* Every call into the bridge returns, unless the process dies first: no
\* entry point waits for ever on the GIL (every exit releases it, and no
\* thread waits for it while holding it), and none loops.  A crash ends
\* every call, and is what NoCrash is about.
EveryCallReturns ==
    \A t \in Threads : pc[t] # "Idle" ~> (pc[t] = "Idle" \/ crash # "none")
=============================================================================
