-------------------------- MODULE RuntimeLifecycle --------------------------
(***************************************************************************)
(* Py_InitializeGo and Py_FinalizeGo of                                    *)
(* src/pkg/preprocessing/chat_completions/cgo_functions.c, and the release *)
(* of the cached globals they share with Py_ReinitializeGo.                *)
(*                                                                         *)
(* g_python_init_lock is taken with NOWAIT_LOCK and the result is never    *)
(* looked at, so it never orders anything: only its allocation, which can *)
(* fail, is part of the control flow.  The printf branches (including the  *)
(* PID-mismatch warning) only print, and are folded into their returns.   *)
(***************************************************************************)
EXTENDS BridgeState

\* if (g_process_initialized) { ... return 0; }
InitializeGo_Check(t) ==
    /\ pc[t] = "IG_check"
    /\ IF gProcessInit THEN Return(t, "ok") ELSE Goto(t, "IG_lock")
    /\ UNCHANGED <<pyVars, flagVars, lockVars, cacheVars, crash, localVars>>

\* Allocate g_python_init_lock when NULL (may fail: return -1), then
\* PyThread_acquire_lock(..., NOWAIT_LOCK) with its result ignored.
InitializeGo_Lock(t) ==
    /\ pc[t] = "IG_lock"
    /\ \/ pyInitLock /\ Goto(t, "IG_double") /\ UNCHANGED pyInitLock
       \/ ~pyInitLock /\ pyInitLock' = TRUE /\ Goto(t, "IG_double")
       \/ ~pyInitLock /\ Return(t, "fail") /\ UNCHANGED pyInitLock
    /\ UNCHANGED <<pyVars, flagVars, initLock, cacheVars, crash, localVars>>

\* The "double-check": if (g_python_initialized) return 0.
InitializeGo_Double(t) ==
    /\ pc[t] = "IG_double"
    /\ IF gPythonInit THEN Return(t, "ok") ELSE Goto(t, "IG_isinit")
    /\ UNCHANGED <<pyVars, flagVars, lockVars, cacheVars, crash, localVars>>

\* if (!Py_IsInitialized()) { ... }
InitializeGo_IsInit(t) ==
    /\ pc[t] = "IG_isinit"
    /\ Goto(t, IF pyInit THEN "IG_set" ELSE "IG_start")
    /\ UNCHANGED <<pyVars, flagVars, lockVars, cacheVars, crash, localVars>>

\* Py_Initialize(); PyEval_InitThreads(): the first call creates the main
\* thread state for t and leaves t holding the GIL; a later call is a no-op.
InitializeGo_Start(t) ==
    /\ pc[t] = "IG_start"
    /\ IF pyInit THEN UNCHANGED pyVars
                 ELSE pyInit' = TRUE /\ gil' = t
    /\ Goto(t, "IG_release")
    /\ UNCHANGED <<flagVars, lockVars, cacheVars, crash, localVars>>

\* PyEval_ReleaseThread(PyThreadState_Get()): a thread with no current
\* thread state (one whose Py_Initialize was the no-op) dies in
\* PyThreadState_Get with a fatal error.
InitializeGo_ReleaseThread(t) ==
    /\ pc[t] = "IG_release"
    /\ IF gil = t
         THEN /\ ReleaseGIL
              /\ Goto(t, "IG_set")
              /\ UNCHANGED <<pyInit, flagVars, lockVars, cacheVars, crash,
                             localVars>>
         ELSE Crash("no_thread_state")

\* g_python_initialized = 1; g_process_initialized = 1; g_init_pid = getpid();
\* release the lock; return 0.
InitializeGo_Set(t) ==
    /\ pc[t] = "IG_set"
    /\ gPythonInit' = TRUE /\ gProcessInit' = TRUE
    /\ Return(t, "ok")
    /\ UNCHANGED <<pyVars, gInitialized, gFinalized, lockVars, cacheVars,
                   crash, localVars>>

Py_InitializeGo(t) ==
    \/ InitializeGo_Check(t) \/ InitializeGo_Lock(t) \/ InitializeGo_Double(t)
    \/ InitializeGo_IsInit(t) \/ InitializeGo_Start(t)
    \/ InitializeGo_ReleaseThread(t) \/ InitializeGo_Set(t)

-----------------------------------------------------------------------------
(* Release of the cached globals, in ReleaseOrder, without the GIL:        *)
(*   if (g) { Py_DECREF(g); g = NULL; }                                    *)
(* The test, the decrement and the store are three steps.                  *)

ReleaseGlobals_Test(t) ==
    /\ pc[t] = "RS_test"
    /\ IF k[t] > Len(ReleaseOrder)
         THEN Return(t, "ok") /\ UNCHANGED k
         ELSE IF slot[ReleaseOrder[k[t]]] # NULL
                THEN Goto(t, "RS_dec") /\ UNCHANGED k
                ELSE Goto(t, "RS_test") /\ k' = [k EXCEPT ![t] = @ + 1]
    /\ UNCHANGED <<pyVars, flagVars, lockVars, cacheVars, crash, op, req>>

\* Py_DECREF re-reads the global: if another thread has set it to NULL
\* since the test, the decrement dereferences NULL.
ReleaseGlobals_Decref(t) ==
    /\ pc[t] = "RS_dec"
    /\ LET o == slot[ReleaseOrder[k[t]]] IN
       IF o = NULL
         THEN Crash("decref_null")
         ELSE /\ owned' = [owned EXCEPT ![o] = @ - 1]
              /\ Goto(t, "RS_null")
              /\ UNCHANGED <<pyVars, flagVars, lockVars, slot, crash,
                             localVars>>

\* Mutant: the loop index advances past the next global.
ReleaseGlobals_Clear_Skip(t) ==
    /\ pc[t] = "RS_null"
    /\ slot' = [slot EXCEPT ![ReleaseOrder[k[t]]] = NULL]
    /\ k' = [k EXCEPT ![t] = @ + 2]
    /\ Goto(t, "RS_test")
    /\ UNCHANGED <<pyVars, flagVars, lockVars, owned, crash, op, req>>

ReleaseGlobals_Clear(t) ==
    /\ pc[t] = "RS_null"
    /\ slot' = [slot EXCEPT ![ReleaseOrder[k[t]]] = NULL]
    /\ k' = [k EXCEPT ![t] = @ + 1]
    /\ Goto(t, "RS_test")
    /\ UNCHANGED <<pyVars, flagVars, lockVars, owned, crash, op, req>>

ReleaseGlobals(t) ==
    ReleaseGlobals_Test(t) \/ ReleaseGlobals_Decref(t) \/ ReleaseGlobals_Clear(t)

-----------------------------------------------------------------------------
\* if (g_finalized) return;
FinalizeGo_Check(t) ==
    /\ pc[t] = "FG_check"
    /\ IF gFinalized THEN Return(t, "ok") ELSE Goto(t, "FG_mark")
    /\ UNCHANGED <<pyVars, flagVars, lockVars, cacheVars, crash, localVars>>

\* g_finalized = 1, then release the three globals.
FinalizeGo_Mark(t) ==
    /\ pc[t] = "FG_mark"
    /\ gFinalized' = TRUE
    /\ k' = [k EXCEPT ![t] = 1]
    /\ CallFn(t, "RS_test", "FG_reset")
    /\ UNCHANGED <<pyVars, gProcessInit, gPythonInit, gInitialized, lockVars,
                   cacheVars, crash, op, req>>

\* Reset the flags "without finalizing Python", one unlocked store each:
\* g_python_initialized = 0; g_process_initialized = 0; g_initialized = 0.
\* g_finalized stays 1.
FinalizeGo_ResetPython(t) ==
    /\ pc[t] = "FG_reset"
    /\ gPythonInit' = FALSE
    /\ Goto(t, "FG_process")
    /\ UNCHANGED <<pyVars, gProcessInit, gInitialized, gFinalized, lockVars,
                   cacheVars, crash, localVars>>

FinalizeGo_ResetProcess(t) ==
    /\ pc[t] = "FG_process"
    /\ gProcessInit' = FALSE
    /\ Goto(t, "FG_cache")
    /\ UNCHANGED <<pyVars, gPythonInit, gInitialized, gFinalized, lockVars,
                   cacheVars, crash, localVars>>

FinalizeGo_ResetCache(t) ==
    /\ pc[t] = "FG_cache"
    /\ gInitialized' = FALSE
    /\ Return(t, "ok")
    /\ UNCHANGED <<pyVars, gProcessInit, gPythonInit, gFinalized, lockVars,
                   cacheVars, crash, localVars>>

Py_FinalizeGo(t) ==
    \/ FinalizeGo_Check(t) \/ FinalizeGo_Mark(t) \/ FinalizeGo_ResetPython(t)
    \/ FinalizeGo_ResetProcess(t) \/ FinalizeGo_ResetCache(t)
=============================================================================
