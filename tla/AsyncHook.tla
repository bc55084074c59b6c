------------------------------ MODULE AsyncHook ------------------------------
(***************************************************************************)
(* The two hooks every page of the panel talks to the service with.        *)
(*                                                                         *)
(* useAsync: a loader that runs when the page mounts, when one of its      *)
(* dependencies changes and when reload() is called.  A run makes the      *)
(* earlier ones inactive, and the answer of an inactive run is dropped.    *)
(* useAction and plain awaits: a request in flight, whose continuation     *)
(* runs when the answer arrives, whatever the page has become meanwhile.   *)
(*                                                                         *)
(* A request has three moments: it is sent, the service handles it (and    *)
(* the answer is fixed), the answer arrives.  Both kinds may fail, before  *)
(* or after the service acted on them.                                     *)
(***************************************************************************)
EXTENDS Naturals, Sequences, SequencesExt

\* The answer to a request: none yet, an error, or a value.
Waiting == <<"waiting">>
Failed == <<"failed">>
Value(x) == <<"ok", x>>
NoData == Waiting
None == "none"

(***************************************************************************)
(* useAsync.  deps are the dependencies of the last run, data what the     *)
(* page shows (NoData: the loading placeholder), calls the requests whose  *)
(* answer will be taken: the cleanup of an effect drops those of earlier   *)
(* runs.                                                                   *)
(***************************************************************************)
AsyncMount(deps) ==
    [deps |-> deps, data |-> NoData, failed |-> FALSE, calls |-> {[deps |-> deps, ans |-> Waiting]}]

\* The effect runs with no cleanup of the run before it.
AsyncRunWithoutCleanup(hook, deps) ==
    [deps |-> deps, data |-> IF deps = hook.deps THEN hook.data ELSE NoData, failed |-> FALSE,
     calls |-> hook.calls \cup {[deps |-> deps, ans |-> Waiting]}]

\* The effect runs: data of the same dependencies stays on show (keepStale).
AsyncRun(hook, deps) ==
    [deps |-> deps,
     data |-> IF deps = hook.deps THEN hook.data ELSE NoData,
     failed |-> FALSE,
     calls |-> {[deps |-> deps, ans |-> Waiting]}]

AsyncReload(hook) == AsyncRun(hook, hook.deps)

\* The service handles the request of c; res is its answer or Failed.
AsyncServe(hook, c, res) ==
    [hook EXCEPT !.calls = (@ \ {c}) \cup {[c EXCEPT !.ans = res]}]

\* The promise of c settles.
AsyncDeliver(hook, c) ==
    [hook EXCEPT !.calls = @ \ {c},
                 !.data = IF c.ans = Failed THEN @ ELSE c.ans,
                 !.failed = c.ans = Failed]

\* AsyncView shows the rows: there is data and no error in its place.
AsyncShown(hook) == hook.data # NoData /\ ~hook.failed

\* Nothing the hook asked for is still on its way.
AsyncSettled(hook) == hook.calls = {}

(***************************************************************************)
(* request: the calls in flight of a page, in the order they were sent.    *)
(***************************************************************************)
Send(calls, c) == Append(calls, [c EXCEPT !.ans = Waiting])
Unserved(calls, i) == calls[i].ans = Waiting
Answer(calls, i, res) == [calls EXCEPT ![i].ans = res]
Forget(calls, i) == RemoveAt(calls, i)
=============================================================================
