---------------------------- MODULE CallBridge ----------------------------
(***************************************************************************)
(* Py_CallRenderJinjaTemplate / Py_CallGetModelChatTemplate and their      *)
(* ...Internal workers in                                                  *)
(* src/pkg/preprocessing/chat_completions/cgo_functions.c.  The public     *)
(* functions call the worker once and return its result ("no retry"), so   *)
(* they add no step.  The two workers differ only in their checks before   *)
(* the GIL; from PyGILState_Ensure on they are the same code on a          *)
(* different global, selected by Sel(t).                                   *)
(***************************************************************************)
EXTENDS BridgeState

Sel(t) == IF op[t] = "Render" THEN "render" ELSE "lookup"

\* Render: if (!Py_IsInitialized()) return NULL; if (!json_request) return
\* NULL.  Nothing checks g_render_jinja_template_func.
Render_Check(t) ==
    /\ pc[t] = "RD_check"
    /\ IF ~pyInit \/ req[t] = "null" THEN Return(t, "fail")
                                     ELSE Goto(t, "CALL_gil")
    /\ UNCHANGED <<pyVars, flagVars, lockVars, cacheVars, crash, localVars>>

\* Mutant: the NULL test of the cached function dropped.
Lookup_Check_NoNullTest(t) ==
    /\ pc[t] = "LK_check"
    /\ IF ~gPythonInit \/ ~Callable("lookup") \/ req[t] = "null"
         THEN Return(t, "fail")
         ELSE Goto(t, "CALL_gil")
    /\ UNCHANGED <<pyVars, flagVars, lockVars, cacheVars, crash, localVars>>

\* Lookup: g_python_initialized, the cached function non-NULL and
\* PyCallable_Check on it, json_request non-NULL -- all before the GIL.
Lookup_Check(t) ==
    /\ pc[t] = "LK_check"
    /\ IF \/ ~gPythonInit
          \/ slot["lookup"] = NULL
          \/ ~Callable("lookup")
          \/ req[t] = "null"
         THEN Return(t, "fail")
         ELSE Goto(t, "CALL_gil")
    /\ UNCHANGED <<pyVars, flagVars, lockVars, cacheVars, crash, localVars>>

Call_Ensure(t) ==
    /\ pc[t] = "CALL_gil"
    /\ EnsureGIL(t)
    /\ Goto(t, "CALL_encode")
    /\ UNCHANGED <<pyInit, flagVars, lockVars, cacheVars, crash, localVars>>

\* Mutant: the PyUnicode_FromString error path returns without
\* PyGILState_Release.
Call_Encode_KeepGil(t) ==
    /\ pc[t] = "CALL_encode"
    /\ \/ req[t] = "bad_utf8" /\ Return(t, "fail") /\ UNCHANGED gil
       \/ req[t] = "valid" /\ ReleaseGIL /\ Return(t, "fail")
       \/ req[t] = "valid" /\ Goto(t, "CALL_invoke") /\ UNCHANGED gil
    /\ UNCHANGED <<pyInit, flagVars, lockVars, cacheVars, crash, localVars>>

\* PyUnicode_FromString (fails on bytes that are not UTF-8) and
\* PyTuple_Pack (fails on memory exhaustion): on failure decref what was
\* made, release the GIL, return NULL.
Call_Encode(t) ==
    /\ pc[t] = "CALL_encode"
    /\ \/ req[t] = "bad_utf8" /\ ReleaseGIL /\ Return(t, "fail")
       \/ req[t] = "valid" /\ ReleaseGIL /\ Return(t, "fail")
       \/ req[t] = "valid" /\ Goto(t, "CALL_invoke") /\ UNCHANGED gil
    /\ UNCHANGED <<pyInit, flagVars, lockVars, cacheVars, crash, localVars>>

\* PyObject_CallObject(g_..._func, args) reads the global: NULL is
\* dereferenced; a non-callable object raises TypeError, so the call gives
\* NULL and the worker releases the GIL and returns NULL.
Call_Invoke(t) ==
    /\ pc[t] = "CALL_invoke"
    /\ LET o == slot[Sel(t)] IN
       IF o = NULL
         THEN Crash("null_call")
         ELSE /\ IF Callable(Sel(t))
                   THEN Goto(t, "CALL_py") /\ UNCHANGED gil
                   ELSE ReleaseGIL /\ Return(t, "fail")
              /\ UNCHANGED <<pyInit, flagVars, lockVars, cacheVars, crash,
                             localVars>>

\* Mutant: Py_CallRenderJinjaTemplate retries the worker when it returns
\* NULL, instead of returning NULL once.
Call_Finish_Retry(t) ==
    /\ pc[t] = "CALL_py"
    /\ gil = t
    /\ ReleaseGIL
    /\ \/ Return(t, "ok")
       \/ Goto(t, "CALL_gil")
    /\ UNCHANGED <<pyInit, flagVars, lockVars, cacheVars, crash, localVars>>

\* The Python function returns, with the GIL held: a str result is
\* strdup'ed before Py_DECREF(py_result); an exception or a non-str result
\* gives NULL.  The GIL is released on every path.
Call_Finish(t) ==
    /\ pc[t] = "CALL_py"
    /\ gil = t
    /\ ReleaseGIL
    /\ \/ Return(t, "ok")
       \/ Return(t, "fail")
    /\ UNCHANGED <<pyInit, flagVars, lockVars, cacheVars, crash, localVars>>

Py_CallInternal(t) ==
    \/ Render_Check(t) \/ Lookup_Check(t) \/ Call_Ensure(t) \/ Call_Encode(t)
    \/ Call_Invoke(t) \/ Call_Finish(t)
=============================================================================
