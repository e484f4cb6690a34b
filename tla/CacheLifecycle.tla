--------------------------- MODULE CacheLifecycle ---------------------------
(***************************************************************************)
(* What the bridge promises its host, with every entry point atomic: the  *)
(* runtime flag and the cache flag of ProcessRuntimeState, and for each   *)
(* host thread the entry point it is inside of and the status it last     *)
(* returned.  An entry point that changes a flag takes effect, and        *)
(* answers, in one step; Py_ReinitializeGo is the sequence "clear the     *)
(* cache flag, clear the runtime flag, Initialize, InitCache" and so takes *)
(* those effects, one at a time, while it is in progress.  A template call or ClearCaches changes no flag: it may       *)
(* answer "ok" only if both flags were set at some instant while it was   *)
(* in progress (its linearization point, the Serve step), since other     *)
(* threads go on while the call runs Python code.                         *)
(***************************************************************************)
CONSTANTS Threads, Ops   \* Ops[t]: the entry points thread t may call

VARIABLES
    runtime,  \* runtimeInitialized
    cache,    \* cacheInitialized: the three handles are retained
    call,     \* call[t]: the entry point thread t is inside of, or "none"
    answer,   \* answer[t]: "pending" inside a call, else its last status
    served    \* served[t]: the call of t has read a ready runtime and cache

avars == <<runtime, cache, call, answer, served>>

Status == {"ok", "fail"}

AInit ==
    /\ runtime \in BOOLEAN
    /\ cache \in BOOLEAN
    /\ cache => runtime
    /\ call = [t \in Threads |-> "none"]
    /\ answer = [t \in Threads |-> "ok"]
    /\ served = [t \in Threads |-> FALSE]

\* A host thread enters an entry point.
Invoke(t) ==
    /\ call[t] = "none"
    /\ \E o \in Ops[t] : call' = [call EXCEPT ![t] = o]
    /\ answer' = [answer EXCEPT ![t] = "pending"]
    /\ UNCHANGED <<runtime, cache, served>>

\* Thread t's entry point returns status s, leaving the flags at r and c.
Respond(t, s, r, c) ==
    /\ call' = [call EXCEPT ![t] = "none"]
    /\ answer' = [answer EXCEPT ![t] = s]
    /\ served' = [served EXCEPT ![t] = FALSE]
    /\ runtime' = r
    /\ cache' = c

\* Initialize: idempotent; a failure changes nothing.
DoInitialize(t) ==
    /\ call[t] = "Init"
    /\ \/ Respond(t, "ok", TRUE, cache)
       \/ Respond(t, "fail", runtime, cache)

\* InitCache: success at once when ready; fails when the runtime is not
\* initialized; otherwise all or nothing.
DoInitCache(t) ==
    /\ call[t] = "InitCache"
    /\ \/ cache /\ Respond(t, "ok", runtime, cache)
       \/ ~cache /\ ~runtime /\ Respond(t, "fail", runtime, cache)
       \/ ~cache /\ runtime /\ Respond(t, "ok", runtime, TRUE)
       \/ ~cache /\ runtime /\ Respond(t, "fail", runtime, cache)

Reads == {"Render", "Lookup", "Clear"}

\* The linearization point of a call: it reads the ready cache.
Serve(t) ==
    /\ call[t] \in Reads
    /\ ~served[t]
    /\ runtime /\ cache
    /\ served' = [served EXCEPT ![t] = TRUE]
    /\ UNCHANGED <<runtime, cache, call, answer>>

\* Call and ClearCaches change nothing, and give a result only from a cache
\* they found ready (a Python error gives "fail" at any time).
DoCall(t) ==
    /\ call[t] \in Reads
    /\ \/ served[t] /\ Respond(t, "ok", runtime, cache)
       \/ Respond(t, "fail", runtime, cache)

\* Cleanup: releases the handles; a no-op when already clean.
DoCleanup(t) ==
    /\ call[t] = "Cleanup"
    /\ Respond(t, "ok", runtime, FALSE)

\* Finalize: idempotent; leaves the runtime flag and the cache reset.
DoFinalize(t) ==
    /\ call[t] = "Finalize"
    /\ Respond(t, "ok", FALSE, FALSE)

\* Reinitialize clears each flag, then runs Initialize and InitCache,
\* whose effects take place while the call is in progress; it answers
\* "ok" only if its InitCache left both ready (served).
ReinitStep(t) ==
    /\ call[t] = "Reinit"
    /\ \/ cache' = FALSE /\ UNCHANGED <<runtime, served>>
       \/ runtime' = FALSE /\ UNCHANGED <<cache, served>>
       \/ runtime' = TRUE /\ UNCHANGED <<cache, served>>
       \/ /\ runtime /\ cache' = TRUE /\ UNCHANGED runtime
          /\ served' = [served EXCEPT ![t] = TRUE]
    /\ UNCHANGED <<call, answer>>

DoReinit(t) ==
    /\ call[t] = "Reinit"
    /\ \/ served[t] /\ Respond(t, "ok", runtime, cache)
       \/ Respond(t, "fail", runtime, cache)

ANext ==
    \E t \in Threads :
        \/ Invoke(t) \/ DoInitialize(t) \/ DoInitCache(t) \/ DoCall(t)
        \/ Serve(t) \/ DoCleanup(t) \/ DoFinalize(t) \/ ReinitStep(t)
        \/ DoReinit(t)

ASpec == AInit /\ [][ANext]_avars
=============================================================================
