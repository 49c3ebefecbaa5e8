-------------------------- MODULE ComputeTestWorker --------------------------
(***************************************************************************)
(* One worker thread per module job of the remote (C@E) phase:            *)
(* compute-test-worker.js `ComputeTestWorker.run` and `runModuleTest`,    *)
(* with the deploy/poll helpers of src/live-compute-test.js.              *)
(*                                                                         *)
(* A service slot is a deployed Fastly service.  `fastly compute deploy`  *)
(* (run with execSync, so it blocks the worker thread) activates a new    *)
(* version; the edge starts serving activated versions one after the     *)
(* other, some time later.  `pending[s]` holds the activated versions     *)
(* the edge does not serve yet, `served[s]` the one it serves.  Every     *)
(* fetch of the worker observes `served[s]`: the waiting app is the one   *)
(* answering with the `compute-sdk-test-waiting` marker header.           *)
(***************************************************************************)
EXTENDS Naturals, Sequences, FiniteSets

CONSTANTS
    Modules,        \* the modules that have at least one "c@e" test
    Services,       \* config.services, the service slots
    NTests,         \* number of "c@e" tests of every module
    Outcomes,       \* what comparing one downstream response may yield
    Waiting,        \* the waiting app (compute-sdk-test-waiting)
    FetchMayFail,   \* a fetch to the edge may reject (network error)
    DeployMayFail   \* `fastly compute deploy` may exit non-zero

ASSUME NTests \in Nat \ {0}
ASSUME Waiting \notin Modules
ASSUME Outcomes \subseteq {"pass", "fetchError", "mismatch", "chunkMismatch", "exit"}
ASSUME FetchMayFail \in BOOLEAN /\ DeployMayFail \in BOOLEAN

\* What a service can serve: the waiting app or one module's test app.
Apps == {Waiting} \cup Modules

\* Program counter of a worker's `run`.  "idle": no run in flight;
\* "probe": the first fetch of `/`; "pollWaiting": the pWaitFor of
\* deployWaitingApp; "pollGone": the pWaitFor loops of deployTestApp;
\* "test": the loop over the module's tests; "resolved"/"rejected": the
\* promise `run` returned has settled; "dead": the worker thread ended
\* itself with process.exit.
WorkerStates == {"idle", "probe", "pollWaiting", "pollGone", "test",
                 "resolved", "rejected", "dead"}

\* Where a run goes once deployWaitingApp's poll has seen the waiting app:
\* on to deployTestApp (recovery of a dirty slot), to a normal return
\* (cleanup after the last test) or to a rethrow (cleanup after a failure).
Continuations == {"deployTest", "resolve", "reject"}

VARIABLES
    wpc,      \* wpc[m]: where the worker of module m is
    ret,      \* ret[m]: what follows the pending deployWaitingApp
    tix,      \* tix[m]: tests of m started so far in this run
    passed,   \* passed[m]: tests of m that passed
    tested,   \* tested[m]: the apps that answered m's test requests
    timer,    \* timer[m]: the 10 s body-chunk timer of m is still armed
    slot,     \* slot[m]: the service passed to m's run
    pending,  \* pending[s]: activated versions not served yet, oldest first
    served    \* served[s]: the version the edge of s serves

workerVars == <<wpc, ret, tix, passed, tested, timer, slot>>
serviceVars == <<pending, served>>

WorkerTypeOK ==
    /\ wpc \in [Modules -> WorkerStates]
    /\ ret \in [Modules -> Continuations]
    /\ tix \in [Modules -> 0..NTests]
    /\ passed \in [Modules -> 0..NTests]
    /\ tested \in [Modules -> SUBSET Apps]
    /\ timer \in [Modules -> BOOLEAN]
    /\ slot \in [Modules -> Services]
    /\ pending \in [Services -> Seq(Apps)]
    /\ served \in [Services -> Apps]

\* A fetch of `https://${service.domain}/` sees the marker header.
HasMarker(s) == served[s] = Waiting

-----------------------------------------------------------------------------
(* Building blocks of the actions. *)

\* The edge starts serving the oldest activated version of s.
Propagate(s) ==
    /\ pending[s] # <<>>
    /\ served' = [served EXCEPT ![s] = Head(pending[s])]
    /\ pending' = [pending EXCEPT ![s] = Tail(pending[s])]
    /\ UNCHANGED workerVars

\* Worker m moves to program point pc and continuation k.
Goto(m, pc, k) ==
    /\ wpc' = [wpc EXCEPT ![m] = pc]
    /\ ret' = [ret EXCEPT ![m] = k]

\* The promise of m's run rejects.
Reject(m) == wpc' = [wpc EXCEPT ![m] = "rejected"] /\ UNCHANGED ret

\* execSync(`fastly compute deploy ... --package <app>`) on m's slot,
\* followed by the poll that comes after it (at program point pc with
\* continuation k).  The CLI may also exit non-zero, before or after it
\* activated the version; execSync then throws and the run rejects.
ExecDeploy(m, app, pc, k) ==
    LET s == slot[m]
        activate == pending' = [pending EXCEPT ![s] = Append(@, app)]
    IN  \/ activate /\ Goto(m, pc, k)
        \/ /\ DeployMayFail
           /\ activate \/ UNCHANGED pending
           /\ Reject(m)

\* deployWaitingApp(): deploy the waiting app, then poll for the marker;
\* k says what the caller does once the poll returns.
DeployWaitingApp(m, k) == ExecDeploy(m, Waiting, "pollWaiting", k)

\* deployTestApp(): deploy m's own package, then poll for the marker
\* to disappear.
DeployTestApp(m) == ExecDeploy(m, m, "pollGone", ret[m])

-----------------------------------------------------------------------------
(* The steps of a worker.  Each step runs from one `await` to the next.  *)

\* The comlink APPLY message `run(moduleKey, module, token, service)`
\* reaches the worker; its run starts on service s.
BeginRun(m, s) ==
    /\ wpc' = [wpc EXCEPT ![m] = "probe"]
    /\ slot' = [slot EXCEPT ![m] = s]
    /\ tix' = [tix EXCEPT ![m] = 0]
    /\ passed' = [passed EXCEPT ![m] = 0]
    /\ tested' = [tested EXCEPT ![m] = {}]
    /\ timer' = [timer EXCEPT ![m] = FALSE]
    /\ UNCHANGED <<ret, pending, served>>

\* Mutant of Probe: the marker header of the probe response is not
\* checked, so a slot left dirty is taken for a clean one.
ProbeIgnoresMarker(m) ==
    /\ wpc[m] = "probe"
    /\ \/ FetchMayFail /\ Reject(m) /\ UNCHANGED pending
       \/ DeployTestApp(m)
    /\ UNCHANGED <<tix, passed, tested, timer, slot, served>>

\* The first fetch of `/` settles.  A network error is rethrown; a
\* response without the marker means an earlier cleanup was missed and
\* the waiting app is deployed first; with the marker, deployTestApp
\* runs at once (execSync is synchronous, so within the same step).
Probe(m) ==
    /\ wpc[m] = "probe"
    /\ \/ FetchMayFail /\ Reject(m) /\ UNCHANGED pending
       \/ ~HasMarker(slot[m]) /\ DeployWaitingApp(m, "deployTest")
       \/ HasMarker(slot[m]) /\ DeployTestApp(m)
    /\ UNCHANGED <<tix, passed, tested, timer, slot, served>>

\* One check of pWaitFor(condition, {interval: 5 s, timeout}) in worker m,
\* the condition being a fetch of `/` tested by cond.  A true condition
\* resolves and the caller goes on with Then; a false one schedules the
\* next check (a stuttering step), unless pTimeout's timer fires first
\* and rejects with a TimeoutError; a rejected fetch rejects at once.
PWaitFor(m, cond, Then) ==
    \/ cond /\ Then
    \/ ~cond /\ Reject(m) /\ UNCHANGED pending
    \/ FetchMayFail /\ Reject(m) /\ UNCHANGED pending

\* deployWaitingApp's poll until the marker is seen (5 minutes), then back
\* to the caller: on to deployTestApp, a normal return, or a rethrow.
PollWaiting(m) ==
    /\ wpc[m] = "pollWaiting"
    /\ PWaitFor(m, HasMarker(slot[m]),
          \/ ret[m] = "deployTest" /\ DeployTestApp(m)
          \/ ret[m] = "resolve" /\ Goto(m, "resolved", ret[m]) /\ UNCHANGED pending
          \/ ret[m] = "reject" /\ Reject(m) /\ UNCHANGED pending)
    /\ UNCHANGED <<tix, passed, tested, timer, slot, served>>

\* deployTestApp's first poll, until the marker is gone (5 minutes).  The
\* second poll, for status 200 within 30 s, follows; its failure is
\* swallowed, so the tests start either way.  A failure of the first
\* poll rejects the run with the test app still deployed: no cleanup.
PollGone(m) ==
    /\ wpc[m] = "pollGone"
    /\ PWaitFor(m, ~HasMarker(slot[m]), Goto(m, "test", ret[m]) /\ UNCHANGED pending)
    /\ UNCHANGED <<tix, passed, tested, timer, slot, served>>

\* Mutant of RunTest: the loop runs one test past the module's last.
RunTestOneMore(m) ==
    LET s == slot[m]
        last == tix[m] + 1 > NTests
    IN
    /\ wpc[m] = "test"
    /\ tix' = [tix EXCEPT ![m] = @ + 1]
    /\ \E o \in Outcomes :
        /\ tested' = IF o = "fetchError" THEN tested
                     ELSE [tested EXCEPT ![m] = @ \cup {served[s]}]
        /\ passed' = IF o = "pass" THEN [passed EXCEPT ![m] = @ + 1] ELSE passed
        /\ timer' = IF o = "chunkMismatch" THEN [timer EXCEPT ![m] = TRUE] ELSE timer
        /\ \/ o = "pass" /\ ~last /\ UNCHANGED <<wpc, ret, pending>>
           \/ o = "pass" /\ last /\ DeployWaitingApp(m, "resolve")
           \/ o \in {"fetchError", "mismatch", "chunkMismatch"} /\ DeployWaitingApp(m, "reject")
           \/ o = "exit" /\ Goto(m, "dead", ret[m]) /\ UNCHANGED pending
    /\ UNCHANGED <<slot, served>>

\* Mutant of RunTest: run returns after the last test without deploying
\* the waiting app for cleanup.
RunTestNoCleanup(m) ==
    LET s == slot[m]
        last == tix[m] + 1 = NTests
    IN
    /\ wpc[m] = "test"
    /\ tix' = [tix EXCEPT ![m] = @ + 1]
    /\ \E o \in Outcomes :
        /\ tested' = IF o = "fetchError" THEN tested
                     ELSE [tested EXCEPT ![m] = @ \cup {served[s]}]
        /\ passed' = IF o = "pass" THEN [passed EXCEPT ![m] = @ + 1] ELSE passed
        /\ timer' = IF o = "chunkMismatch" THEN [timer EXCEPT ![m] = TRUE] ELSE timer
        /\ \/ o = "pass" /\ ~last /\ UNCHANGED <<wpc, ret, pending>>
           \/ o = "pass" /\ last /\ Goto(m, "resolved", ret[m]) /\ UNCHANGED pending
           \/ o \in {"fetchError", "mismatch", "chunkMismatch"} /\ DeployWaitingApp(m, "reject")
           \/ o = "exit" /\ Goto(m, "dead", ret[m]) /\ UNCHANGED pending
    /\ UNCHANGED <<slot, served>>

\* runModuleTest for the next "c@e" test: the downstream fetch and
\* compareDownstreamResponse.  A failed fetch or a thrown comparison
\* error deploys the waiting app and rethrows; a body-chunk mismatch
\* throws while the 10 s chunk timer stays armed; an exact-body mismatch
\* (or a stream outliving the chunk timer) calls process.exit, which in
\* a worker thread ends the thread.  After the last test the waiting
\* app is deployed for cleanup and run returns.
RunTest(m) ==
    LET s == slot[m]
        last == tix[m] + 1 = NTests
    IN
    /\ wpc[m] = "test"
    /\ tix' = [tix EXCEPT ![m] = @ + 1]
    /\ \E o \in Outcomes :
        /\ tested' = IF o = "fetchError" THEN tested
                     ELSE [tested EXCEPT ![m] = @ \cup {served[s]}]
        /\ passed' = IF o = "pass" THEN [passed EXCEPT ![m] = @ + 1] ELSE passed
        /\ timer' = IF o = "chunkMismatch" THEN [timer EXCEPT ![m] = TRUE] ELSE timer
        /\ \/ o = "pass" /\ ~last /\ UNCHANGED <<wpc, ret, pending>>
           \/ o = "pass" /\ last /\ DeployWaitingApp(m, "resolve")
           \/ o \in {"fetchError", "mismatch", "chunkMismatch"} /\ DeployWaitingApp(m, "reject")
           \/ o = "exit" /\ Goto(m, "dead", ret[m]) /\ UNCHANGED pending
    /\ UNCHANGED <<slot, served>>

\* The chunk timer left armed by a chunk mismatch fires while the
\* cleanup poll awaits, and its callback calls process.exit(1).
ChunkTimerFires(m) ==
    /\ timer[m]
    /\ wpc[m] = "pollWaiting"
    /\ wpc' = [wpc EXCEPT ![m] = "dead"]
    /\ timer' = [timer EXCEPT ![m] = FALSE]
    /\ UNCHANGED <<ret, tix, passed, tested, slot, pending, served>>

\* Any step of worker m.
WorkerStep(m) ==
    \/ Probe(m)
    \/ PollWaiting(m)
    \/ PollGone(m)
    \/ RunTest(m)
    \/ ChunkTimerFires(m)

=============================================================================
