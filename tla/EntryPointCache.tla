-------------------------- MODULE EntryPointCache --------------------------
(***************************************************************************)
(* Py_InitChatTemplateModule, Py_ClearCaches and                           *)
(* Py_CleanupChatTemplateModule of                                         *)
(* src/pkg/preprocessing/chat_completions/cgo_functions.c.                 *)
(*                                                                         *)
(* g_init_lock, like g_python_init_lock, is taken with NOWAIT_LOCK and its *)
(* result ignored; only its allocation is modelled.  PyModule_GetDict of a *)
(* module object never returns NULL, so that error branch is not taken.    *)
(* The import runs with the GIL held and is one step; the test of the     *)
(* global after it and PyModule_GetDict's read of it are steps of their    *)
(* own, since Py_FinalizeGo and Py_ReinitializeGo clear it without the GIL.*)
(***************************************************************************)
EXTENDS BridgeState

\* Allocate g_init_lock when NULL (may fail: return -1); NOWAIT acquire.
InitModule_Lock(t) ==
    /\ pc[t] = "IC_lock"
    /\ \/ initLock /\ Goto(t, "IC_check") /\ UNCHANGED initLock
       \/ ~initLock /\ initLock' = TRUE /\ Goto(t, "IC_check")
       \/ ~initLock /\ Return(t, "fail") /\ UNCHANGED initLock
    /\ UNCHANGED <<pyVars, flagVars, pyInitLock, cacheVars, crash, localVars>>

\* Mutant: the g_python_initialized test dropped.
InitModule_Check_NoRuntimeTest(t) ==
    /\ pc[t] = "IC_check"
    /\ IF gInitialized THEN Return(t, "ok") ELSE Goto(t, "IC_gil")
    /\ UNCHANGED <<pyVars, flagVars, lockVars, cacheVars, crash, localVars>>

\* if (g_initialized) return 0; if (!g_python_initialized) return -1;
InitModule_Check(t) ==
    /\ pc[t] = "IC_check"
    /\ CASE gInitialized -> Return(t, "ok")
         [] ~gPythonInit -> Return(t, "fail")
         [] OTHER        -> Goto(t, "IC_gil")
    /\ UNCHANGED <<pyVars, flagVars, lockVars, cacheVars, crash, localVars>>

InitModule_Ensure(t) ==
    /\ pc[t] = "IC_gil"
    /\ EnsureGIL(t)
    /\ Goto(t, "IC_import")
    /\ UNCHANGED <<pyInit, flagVars, lockVars, cacheVars, crash, localVars>>

\* g_chat_template_module = PyImport_ImportModule(...): a new reference,
\* stored over whatever the global held, or NULL.
InitModule_Import(t) ==
    /\ pc[t] = "IC_import"
    /\ \/ /\ slot' = [slot EXCEPT !["module"] = "M"]
          /\ owned' = [owned EXCEPT !["M"] = @ + 1]
       \/ /\ slot' = [slot EXCEPT !["module"] = NULL]
          /\ UNCHANGED owned
    /\ Goto(t, "IC_test")
    /\ UNCHANGED <<pyVars, flagVars, lockVars, crash, localVars>>

\* if (!g_chat_template_module) { release the GIL; return -1; }
InitModule_Test(t) ==
    /\ pc[t] = "IC_test"
    /\ IF slot["module"] = NULL
         THEN ReleaseGIL /\ Return(t, "fail")
         ELSE Goto(t, "IC_dict") /\ UNCHANGED gil
    /\ UNCHANGED <<pyInit, flagVars, lockVars, cacheVars, crash, localVars>>

\* module_dict = PyModule_GetDict(g_chat_template_module) re-reads the
\* global: NULL there is dereferenced.
InitModule_Dict(t) ==
    /\ pc[t] = "IC_dict"
    /\ IF slot["module"] = NULL
         THEN Crash("null_deref")
         ELSE /\ Goto(t, "IC_render")
              /\ UNCHANGED <<pyVars, flagVars, lockVars, cacheVars, crash,
                             localVars>>

\* g_<name>_func = PyDict_GetItemString(module_dict, name): a borrowed
\* reference stored in the global; if NULL or not callable, release the GIL
\* and return -1 with the global left as it is.
InitModule_Resolve(t) ==
    /\ pc[t] \in {"IC_render", "IC_lookup"}
    /\ LET name == IF pc[t] = "IC_render" THEN "render" ELSE "lookup" IN
       /\ slot' = [slot EXCEPT ![name] = DictGet(name)]
       /\ IF Callable(name)
            THEN Goto(t, IF name = "render" THEN "IC_inc_render"
                                            ELSE "IC_inc_lookup")
                 /\ UNCHANGED gil
            ELSE ReleaseGIL /\ Return(t, "fail")
    /\ UNCHANGED <<pyInit, flagVars, lockVars, owned, crash, localVars>>

\* Mutant: Py_INCREF forgotten, the borrowed reference kept as if owned.
InitModule_Retain_NoIncref(t) ==
    /\ pc[t] \in {"IC_inc_render", "IC_inc_lookup"}
    /\ Goto(t, IF pc[t] = "IC_inc_render" THEN "IC_lookup" ELSE "IC_done")
    /\ UNCHANGED <<pyVars, flagVars, lockVars, cacheVars, crash, localVars>>

\* Py_INCREF(g_<name>_func) re-reads the global.
InitModule_Retain(t) ==
    /\ pc[t] \in {"IC_inc_render", "IC_inc_lookup"}
    /\ LET name == IF pc[t] = "IC_inc_render" THEN "render" ELSE "lookup"
           o    == slot[name]
       IN IF o = NULL
            THEN Crash("incref_null")
            ELSE /\ owned' = [owned EXCEPT ![o] = @ + 1]
                 /\ Goto(t, IF name = "render" THEN "IC_lookup" ELSE "IC_done")
                 /\ UNCHANGED <<pyVars, flagVars, lockVars, slot, crash,
                                localVars>>

\* PyGILState_Release(gil_state), before the cache is marked ready.
InitModule_Done(t) ==
    /\ pc[t] = "IC_done"
    /\ ReleaseGIL
    /\ Goto(t, "IC_set")
    /\ UNCHANGED <<pyInit, flagVars, lockVars, cacheVars, crash, localVars>>

\* g_initialized = 1; release the lock; return 0.
InitModule_Set(t) ==
    /\ pc[t] = "IC_set"
    /\ gInitialized' = TRUE
    /\ Return(t, "ok")
    /\ UNCHANGED <<pyVars, gProcessInit, gPythonInit, gFinalized, lockVars,
                   cacheVars, crash, localVars>>

Py_InitChatTemplateModule(t) ==
    \/ InitModule_Lock(t) \/ InitModule_Check(t) \/ InitModule_Ensure(t)
    \/ InitModule_Import(t) \/ InitModule_Test(t) \/ InitModule_Dict(t)
    \/ InitModule_Resolve(t) \/ InitModule_Retain(t) \/ InitModule_Done(t)
    \/ InitModule_Set(t)

-----------------------------------------------------------------------------
\* if (!g_initialized) return NULL;
ClearCaches_Check(t) ==
    /\ pc[t] = "CC_check"
    /\ IF gInitialized THEN Goto(t, "CC_gil") ELSE Return(t, "fail")
    /\ UNCHANGED <<pyVars, flagVars, lockVars, cacheVars, crash, localVars>>

ClearCaches_Ensure(t) ==
    /\ pc[t] = "CC_gil"
    /\ EnsureGIL(t)
    /\ Goto(t, "CC_get")
    /\ UNCHANGED <<pyInit, flagVars, lockVars, cacheVars, crash, localVars>>

\* PyDict_GetItemString(PyModule_GetDict(g_chat_template_module),
\* "clear_caches"): dies on a NULL module; a missing or non-callable
\* clear_caches releases the GIL and returns NULL.
ClearCaches_Get(t) ==
    /\ pc[t] = "CC_get"
    /\ IF slot["module"] = NULL
         THEN Crash("null_deref")
         ELSE /\ IF Callable("clear")
                   THEN Goto(t, "CC_py") /\ UNCHANGED gil
                   ELSE ReleaseGIL /\ Return(t, "fail")
              /\ UNCHANGED <<pyInit, flagVars, lockVars, cacheVars, crash,
                             localVars>>

\* PyObject_CallObject(clear_caches_func, NULL) returns, with the GIL held:
\* a str result is strdup'ed, no result or a non-str one gives NULL; the
\* result is decref'ed and the GIL released on every path.
ClearCaches_Finish(t) ==
    /\ pc[t] = "CC_py"
    /\ gil = t
    /\ ReleaseGIL
    /\ \/ Return(t, "ok")
       \/ Return(t, "fail")
    /\ UNCHANGED <<pyInit, flagVars, lockVars, cacheVars, crash, localVars>>

Py_ClearCaches(t) ==
    \/ ClearCaches_Check(t) \/ ClearCaches_Ensure(t) \/ ClearCaches_Get(t)
    \/ ClearCaches_Finish(t)

-----------------------------------------------------------------------------
\* if (g_initialized && Py_IsInitialized()) -- tested before the GIL.
Cleanup_Check(t) ==
    /\ pc[t] = "CL_check"
    /\ IF gInitialized /\ pyInit THEN Goto(t, "CL_gil") ELSE Return(t, "ok")
    /\ UNCHANGED <<pyVars, flagVars, lockVars, cacheVars, crash, localVars>>

Cleanup_Ensure(t) ==
    /\ pc[t] = "CL_gil"
    /\ EnsureGIL(t)
    /\ Goto(t, "CL_dec")
    /\ UNCHANGED <<pyInit, flagVars, lockVars, cacheVars, crash, localVars>>

\* Mutant: g_chat_template_module is not released.
Cleanup_Release_KeepModule(t) ==
    /\ pc[t] = "CL_dec"
    /\ owned' = [o \in Objs |->
                   IF o # "M" /\ \E s \in Slots : slot[s] = o
                     THEN owned[o] - 1 ELSE owned[o]]
    /\ Goto(t, "CL_null")
    /\ UNCHANGED <<pyVars, flagVars, lockVars, slot, crash, localVars>>

\* Py_XDECREF of the three globals (a NULL global is skipped).
Cleanup_Release(t) ==
    /\ pc[t] = "CL_dec"
    /\ owned' = [o \in Objs |->
                   IF \E s \in Slots : slot[s] = o THEN owned[o] - 1
                                                   ELSE owned[o]]
    /\ Goto(t, "CL_null")
    /\ UNCHANGED <<pyVars, flagVars, lockVars, slot, crash, localVars>>

\* Mutant: g_initialized is not reset.
Cleanup_Reset_KeepFlag(t) ==
    /\ pc[t] = "CL_null"
    /\ slot' = [s \in Slots |-> NULL]
    /\ ReleaseGIL
    /\ Return(t, "ok")
    /\ UNCHANGED <<pyInit, flagVars, lockVars, owned, crash, localVars>>

\* The three globals = NULL; g_initialized = 0; PyGILState_Release.
Cleanup_Reset(t) ==
    /\ pc[t] = "CL_null"
    /\ slot' = [s \in Slots |-> NULL]
    /\ gInitialized' = FALSE
    /\ ReleaseGIL
    /\ Return(t, "ok")
    /\ UNCHANGED <<pyInit, gProcessInit, gPythonInit, gFinalized, lockVars,
                   owned, crash, localVars>>

Py_CleanupChatTemplateModule(t) ==
    \/ Cleanup_Check(t) \/ Cleanup_Ensure(t) \/ Cleanup_Release(t)
    \/ Cleanup_Reset(t)
=============================================================================
