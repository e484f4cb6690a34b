------------------------ MODULE MCChatTemplateBridge ------------------------
(* Constant values for model checking ChatTemplateBridge.                 *)
EXTENDS ChatTemplateBridge

\* The wrapper module as shipped: all three names are functions.
ShapeShipped == [render |-> "callable", lookup |-> "callable",
                 clear |-> "callable"]

\* A wrapper module without get_model_chat_template.
ShapeNoLookup == [render |-> "callable", lookup |-> "missing",
                  clear |-> "callable"]

\* A wrapper module whose render_jinja_template is not a function.
ShapeRenderNotCallable == [render |-> "notcallable", lookup |-> "callable",
                           clear |-> "callable"]

\* Every host thread may call the same entry points S.
Every(S) == [t \in Threads |-> S]

\* The one thread that calls Py_FinalizeGo where only one does.
Finalizer == CHOOSE t \in Threads : TRUE

AllRequests == {"valid", "bad_utf8", "null"}

\* Every entry point but Render (which is checked on its own).
OpsLifecycle == Every({"Init", "InitCache", "Lookup", "Clear", "Cleanup",
                       "Finalize", "Reinit"})

\* Two threads each calling Py_InitializeGo on a fresh process.
OpsInit == Every({"Init"})

\* Start-up from one thread.
OpsStartup == Every({"Init", "InitCache"})

\* Start-up and Py_FinalizeGo from one thread.
OpsFinalize == Every({"Init", "InitCache", "Finalize"})

\* Concurrent teardown of a ready cache.
OpsTeardown == Every({"Finalize", "Cleanup", "Reinit"})

\* Cache set-up racing itself after a cleanup.
OpsCacheReinit == Every({"InitCache", "Cleanup"})

\* One thread reinitializes a serving bridge while the other starts the
\* runtime.
OpsReinitInit ==
    [t \in Threads |-> IF t = Finalizer THEN {"Reinit"} ELSE {"Init"}]

\* Every entry point but Py_FinalizeGo (its second call is a no-op:
\* finalize_twice) from one thread, and ClearCaches and cleanup from the
\* other.  The other thread neither starts the runtime (reinit_init_race),
\* nor sets up the cache (a set-up that passed its g_python_initialized
\* test marks the cache ready over Py_ReinitializeGo's reset:
\* finalize_during_init), nor calls a template function (a lookup that
\* passed its checks invokes a function Py_ReinitializeGo released:
\* lookup_stale).
OpsRefine ==
    [t \in Threads |-> IF t = Finalizer THEN AllOps \ {"Finalize"}
                                      ELSE {"Clear", "Cleanup"}]

\* Cache set-up racing one Py_FinalizeGo.
OpsInitCacheFinalize ==
    [t \in Threads |-> IF t = Finalizer THEN {"Finalize"} ELSE {"InitCache"}]

\* From a fresh process, one thread runs the whole lifecycle (start-up,
\* ClearCaches, cleanup, reinitialize, finalize) while the other starts the
\* runtime and calls the template functions and ClearCaches.
OpsServeRebuild ==
    [t \in Threads |-> IF t = Finalizer THEN AllOps \ {"Render", "Lookup"}
                                      ELSE {"Init", "Render", "Lookup", "Clear"}]

\* Lookups racing Py_CleanupChatTemplateModule on a ready cache.
OpsLookupCleanup == Every({"Lookup", "Cleanup"})
=============================================================================
