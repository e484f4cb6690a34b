---------------------------- MODULE BridgeState ----------------------------
(***************************************************************************)
(* Shared state of the CPython bridge in                                   *)
(* src/pkg/preprocessing/chat_completions/cgo_functions.c: the process-    *)
(* wide flags and lock handles, the three cached PyObject* globals, the    *)
(* interpreter's own state (Py_IsInitialized and the GIL), and the         *)
(* per-thread control state of the host threads that call the bridge.     *)
(*                                                                         *)
(* Every C function is modelled as a sequence of labelled steps; a step is *)
(* one access to shared state, so threads interleave between any two such *)
(* accesses.  Calls between C functions (Py_ReinitializeGo calling         *)
(* Py_InitializeGo) push a return label on a per-thread stack.            *)
(***************************************************************************)
EXTENDS Integers, Sequences, FiniteSets

CONSTANTS
    Threads,    \* host (Go) threads that call into the bridge
    NoThread,   \* the GIL is held by nobody
    Ops,        \* Ops[t]: the entry points host thread t may call
    Requests,   \* json_request arguments: "valid", "bad_utf8" or "null"
    Shape,      \* what the wrapper module defines under each looked-up name
    Setup,      \* "cold": fresh process; "runtime": after a successful
                \* Py_InitializeGo; "serving": after it and a successful
                \* Py_InitChatTemplateModule
    RefBound    \* bound on the references the bridge may own of one object

ASSUME NoThread \notin Threads
ASSUME Requests \subseteq {"valid", "bad_utf8", "null"}
ASSUME Shape \in [{"render", "lookup", "clear"} ->
                    {"callable", "notcallable", "missing"}]
ASSUME Setup \in {"cold", "runtime", "serving"}
ASSUME RefBound \in Nat \ {0}

AllOps == {"Init", "InitCache", "Render", "Lookup", "Clear", "Cleanup",
           "Finalize", "Reinit"}
ASSUME Ops \in [Threads -> SUBSET AllOps]

NULL == "NULL"

\* The three cached globals, and the Python object each one is meant to hold:
\* g_chat_template_module, g_render_jinja_template_func and
\* g_get_model_chat_template_func.
Slots == {"module", "render", "lookup"}
ObjOf == [module |-> "M", render |-> "R", lookup |-> "L", clear |-> "C"]
Objs  == {"M", "R", "L"}

\* PyDict_GetItemString(module_dict, name): a borrowed reference or NULL.
DictGet(name)  == IF Shape[name] = "missing" THEN NULL ELSE ObjOf[name]
Callable(name) == Shape[name] = "callable"

\* Py_ReinitializeGo and Py_FinalizeGo release the globals in this order.
ReleaseOrder == <<"render", "lookup", "module">>

Crashes == {"none", "no_thread_state", "null_call", "null_deref",
            "decref_null", "incref_null"}

VARIABLES
    pyInit,         \* Py_IsInitialized(): never reset, Py_Finalize is not called
    gil,            \* thread holding the GIL, or NoThread
    gProcessInit,   \* g_process_initialized
    gPythonInit,    \* g_python_initialized
    gInitialized,   \* g_initialized
    gFinalized,     \* g_finalized
    pyInitLock,     \* g_python_init_lock != NULL
    initLock,       \* g_init_lock != NULL
    slot,           \* slot[s]: the object the global s points to, or NULL
    owned,          \* owned[o]: references to o taken and not yet dropped
                    \* by the bridge (Py_INCREF / new refs minus Py_DECREF)
    crash,          \* "none", or how the process died
    pc,             \* pc[t]: label of the next step of thread t
    stack,          \* stack[t]: return labels of the C calls in progress
    ret,            \* ret[t]: result of the last C function t returned from
    op,             \* op[t]: the entry point t was called through
    req,            \* req[t]: its json_request argument
    k               \* k[t]: index into ReleaseOrder while releasing globals

pyVars    == <<pyInit, gil>>
flagVars  == <<gProcessInit, gPythonInit, gInitialized, gFinalized>>
lockVars  == <<pyInitLock, initLock>>
cacheVars == <<slot, owned>>
ctlVars   == <<pc, stack, ret>>
localVars == <<op, req, k>>
vars == <<pyVars, flagVars, lockVars, cacheVars, crash, ctlVars, localVars>>

-----------------------------------------------------------------------------
(* Control flow of one thread.                                             *)

Goto(t, l) ==
    /\ pc' = [pc EXCEPT ![t] = l]
    /\ UNCHANGED <<stack, ret>>

\* Enter a C function at label entry; it returns to label back.
CallFn(t, entry, back) ==
    /\ pc' = [pc EXCEPT ![t] = entry]
    /\ stack' = [stack EXCEPT ![t] = <<back>> \o @]
    /\ UNCHANGED ret

\* Return from the current C function with result v ("ok" or "fail"; a
\* returned char* is "ok" when non-NULL).
Return(t, v) ==
    /\ pc' = [pc EXCEPT ![t] = Head(stack[t])]
    /\ stack' = [stack EXCEPT ![t] = Tail(@)]
    /\ ret' = [ret EXCEPT ![t] = v]

\* The process dies in thread t's step: nothing else changes, and Next
\* allows no further step.
Crash(why) ==
    /\ crash' = why
    /\ UNCHANGED <<pyVars, flagVars, lockVars, cacheVars, ctlVars, localVars>>

\* PyGILState_Ensure(): blocks until the GIL is free.
EnsureGIL(t) == gil \in {NoThread, t} /\ gil' = t

\* PyGILState_Release(), and the PyEval_ReleaseThread of Py_InitializeGo.
ReleaseGIL == gil' = NoThread

\* Python code run by PyObject_CallObject may drop the GIL (the
\* interpreter's periodic switch or blocking I/O) and take it back before
\* the call returns; the steps labelled here are such calls in progress.
InPython == {"CC_py", "CALL_py"}

PyYield(t) ==
    /\ pc[t] \in InPython
    /\ gil = t
    /\ gil' = NoThread
    /\ UNCHANGED <<pyInit, flagVars, lockVars, cacheVars, crash, ctlVars,
                   localVars>>

PyResume(t) ==
    /\ pc[t] \in InPython
    /\ gil = NoThread
    /\ gil' = t
    /\ UNCHANGED <<pyInit, flagVars, lockVars, cacheVars, crash, ctlVars,
                   localVars>>

-----------------------------------------------------------------------------
(* Initial states.                                                         *)

ThreadsIdle ==
    /\ pc = [t \in Threads |-> "Idle"]
    /\ stack = [t \in Threads |-> <<>>]
    /\ ret = [t \in Threads |-> "ok"]
    /\ op = [t \in Threads |-> "Init"]
    /\ req = [t \in Threads |-> "none"]
    /\ k = [t \in Threads |-> 1]

\* A fresh process: every global at its static initializer.
ColdInit ==
    /\ pyInit = FALSE
    /\ gil = NoThread
    /\ gProcessInit = FALSE /\ gPythonInit = FALSE
    /\ gInitialized = FALSE /\ gFinalized = FALSE
    /\ pyInitLock = FALSE /\ initLock = FALSE
    /\ slot = [s \in Slots |-> NULL]
    /\ owned = [o \in Objs |-> 0]

\* The state a successful first Py_InitializeGo leaves: the interpreter
\* started, its GIL released, the flags set, no cache.
RuntimeInit ==
    /\ pyInit = TRUE
    /\ gil = NoThread
    /\ gProcessInit = TRUE /\ gPythonInit = TRUE
    /\ gInitialized = FALSE /\ gFinalized = FALSE
    /\ pyInitLock = TRUE /\ initLock = FALSE
    /\ slot = [s \in Slots |-> NULL]
    /\ owned = [o \in Objs |-> 0]

\* The state Py_InitializeGo followed by a successful
\* Py_InitChatTemplateModule leaves: the import's new reference to the
\* module and one Py_INCREF on each function.
ServingInit ==
    /\ pyInit = TRUE
    /\ gil = NoThread
    /\ gProcessInit = TRUE /\ gPythonInit = TRUE
    /\ gInitialized = TRUE /\ gFinalized = FALSE
    /\ pyInitLock = TRUE /\ initLock = TRUE
    /\ slot = [s \in Slots |-> ObjOf[s]]
    /\ owned = [o \in Objs |-> 1]

ASSUME Setup = "serving" => Callable("render") /\ Callable("lookup")

Init ==
    /\ CASE Setup = "cold"    -> ColdInit
         [] Setup = "runtime" -> RuntimeInit
         [] Setup = "serving" -> ServingInit
    /\ crash = "none"
    /\ ThreadsIdle

TypeOK ==
    /\ pyInit \in BOOLEAN
    /\ gil \in Threads \cup {NoThread}
    /\ {gProcessInit, gPythonInit, gInitialized, gFinalized} \subseteq BOOLEAN
    /\ {pyInitLock, initLock} \subseteq BOOLEAN
    /\ slot \in [Slots -> Objs \cup {NULL}]
    /\ owned \in [Objs -> -RefBound..RefBound + Cardinality(Threads)]
    /\ crash \in Crashes
    /\ op \in [Threads -> AllOps]
    /\ req \in [Threads -> Requests \cup {"none"}]
    /\ k \in [Threads -> 1..Len(ReleaseOrder) + 1]
    /\ \A t \in Threads : Len(stack[t]) <= 3
=============================================================================
