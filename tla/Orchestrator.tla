----------------------------- MODULE Orchestrator -----------------------------
(***************************************************************************)
(* The remote (C@E) phase of index.js `mainAsyncTask`: a p-limit sized to *)
(* config.services.length admits one job per module; a job takes the      *)
(* first service whose `isActivelyUsed` flag is false, runs the module's  *)
(* tests in a worker thread through comlink, and clears the flag once the *)
(* worker resolved and was terminated.  Promise.all over the jobs decides *)
(* the exit status.  The workers of ComputeTestWorker are composed in.    *)
(*                                                                         *)
(* Runs of the CI job follow one another: a run ends by process.exit or   *)
(* by being cancelled, the next one starts from a fresh config (all flags *)
(* false) while the services keep what was deployed on them.              *)
(***************************************************************************)
EXTENDS ComputeTestWorker

CONSTANTS
    MaxRuns,          \* bound on the number of CI runs
    QuiescentRestart, \* a new run starts only once every activation is served
    Tokens            \* whether a run is given the fastly_token input

ASSUME MaxRuns \in Nat \ {0}
ASSUME QuiescentRestart \in BOOLEAN
ASSUME Tokens \subseteq BOOLEAN /\ Tokens # {}
ASSUME Modules \subseteq Nat /\ Services \subseteq Nat /\ Services # {}

\* Status of a job's promise in moduleTestPromises.  "queued": waiting in
\* p-limit; "running": admitted, its worker's run is awaited; "done": it
\* resolved; "failed": it rejected.
JobStates == {"queued", "running", "done", "failed"}

\* Status of the node process: setting up the remote phase, running its
\* jobs, ended by process.exit(0) or process.exit(1), or cancelled from
\* outside (CI timeout or cancellation).
RunStates == {"setup", "running", "exit0", "exit1", "killed"}

VARIABLES
    opc,     \* opc[m]: status of m's job
    inUse,   \* inUse[s]: config.services[s].isActivelyUsed
    status,  \* status of the current run's process
    run      \* number of the current run

vars == <<opc, inUse, status, run, wpc, ret, tix, passed, tested, timer, slot,
          pending, served>>

TypeOK ==
    /\ WorkerTypeOK
    /\ opc \in [Modules -> JobStates]
    /\ inUse \in [Services -> BOOLEAN]
    /\ status \in RunStates
    /\ run \in 1..MaxRuns

\* The process has not ended.
Live == status \in {"setup", "running"}

\* Jobs holding a p-limit slot: p-limit's activeCount.
Active == {m \in Modules : opc[m] = "running"}

\* The per-run variables when the process starts: config.json is read
\* anew, so no service is marked, and no job or worker exists yet.
FreshRun(o, u, st, w, r, tx, p, te, tm) ==
    /\ o = [m \in Modules |-> "queued"]
    /\ u = [s \in Services |-> FALSE]
    /\ st = "setup"
    /\ w = [m \in Modules |-> "idle"]
    /\ r = [m \in Modules |-> "deployTest"]
    /\ tx = [m \in Modules |-> 0]
    /\ p = [m \in Modules |-> 0]
    /\ te = [m \in Modules |-> {}]
    /\ tm = [m \in Modules |-> FALSE]

\* The services start settled, each serving the waiting app or a test
\* app left behind by an earlier, unclean run.
Init ==
    /\ FreshRun(opc, inUse, status, wpc, ret, tix, passed, tested, timer)
    /\ slot = [m \in Modules |-> CHOOSE s \in Services : TRUE]
    /\ run = 1
    /\ pending = [s \in Services |-> <<>>]
    /\ served \in [Services -> Apps]

-----------------------------------------------------------------------------
(* Actions of the main thread. *)

\* What buildWaitingApp and the workers' `npm install` do: execSync
\* returns, or it throws and the rejection of mainAsyncTask reaches the
\* final catch, which calls process.exit(1).
BuildResults == {"running", "exit1"}

\* Lines 222-236, once the local phase is over: without a token the task
\* returns and the final then calls process.exit(0) with no remote test
\* run; otherwise the waiting app is built and the workers' dependencies
\* installed before p-limit is created.
Setup ==
    /\ status = "setup"
    /\ \E token \in Tokens :
        \/ ~token /\ status' = "exit0"
        \/ token /\ status' \in BuildResults
    /\ UNCHANGED <<opc, inUse, run, workerVars, serviceVars>>

\* Mutant of Start: the chosen service is not marked actively used.
StartNoMark(m) ==
    LET free == {s \in Services : ~inUse[s]}
        first == CHOOSE s \in free : \A t \in free : s <= t
    IN
    /\ status = "running"
    /\ opc[m] = "queued"
    /\ \A k \in Modules : k < m => opc[k] # "queued"
    /\ Cardinality(Active) < Cardinality(Services)
    /\ IF free # {}
       THEN /\ opc' = [opc EXCEPT ![m] = "running"]
            /\ UNCHANGED inUse
            /\ BeginRun(m, first)
       ELSE /\ opc' = [opc EXCEPT ![m] = "failed"]
            /\ UNCHANGED <<inUse, workerVars, serviceVars>>
    /\ UNCHANGED <<status, run>>

\* p-limit starts the next queued job (jobs start in the order they were
\* pushed) while fewer than config.services.length are active.  The job
\* synchronously picks the first service not actively used and marks it,
\* or throws when there is none; otherwise it creates the worker and
\* calls run through comlink.
Start(m) ==
    LET free == {s \in Services : ~inUse[s]}
        first == CHOOSE s \in free : \A t \in free : s <= t
    IN
    /\ status = "running"
    /\ opc[m] = "queued"
    /\ \A k \in Modules : k < m => opc[k] # "queued"
    /\ Cardinality(Active) < Cardinality(Services)
    /\ IF free # {}
       THEN /\ opc' = [opc EXCEPT ![m] = "running"]
            /\ inUse' = [inUse EXCEPT ![first] = TRUE]
            /\ BeginRun(m, first)
       ELSE /\ opc' = [opc EXCEPT ![m] = "failed"]
            /\ UNCHANGED <<inUse, workerVars, serviceVars>>
    /\ UNCHANGED <<status, run>>

\* Mutant of Settle: a rejection of the worker's run is never delivered
\* to the awaiting job.
SettleResolvedOnly(m) ==
    /\ status = "running"
    /\ opc[m] = "running"
    /\ wpc[m] = "resolved"
    /\ opc' = [opc EXCEPT ![m] = "done"]
    /\ inUse' = [inUse EXCEPT ![slot[m]] = FALSE]
    /\ UNCHANGED <<status, run, workerVars, serviceVars>>

\* The comlink call settles.  On success the worker is terminated and the
\* service's flag cleared; a rejection is logged and rethrown from the
\* catch block, skipping both.
Settle(m) ==
    /\ status = "running"
    /\ opc[m] = "running"
    /\ \/ /\ wpc[m] = "resolved"
          /\ opc' = [opc EXCEPT ![m] = "done"]
          /\ inUse' = [inUse EXCEPT ![slot[m]] = FALSE]
       \/ /\ wpc[m] = "rejected"
          /\ opc' = [opc EXCEPT ![m] = "failed"]
          /\ UNCHANGED inUse
    /\ UNCHANGED <<status, run, workerVars, serviceVars>>

\* `await Promise.all(moduleTestPromises)` resolves once every job has
\* resolved, and process.exit(0) follows.
ExitOk ==
    /\ status = "running"
    /\ \A m \in Modules : opc[m] = "done"
    /\ status' = "exit0"
    /\ UNCHANGED <<opc, inUse, run, workerVars, serviceVars>>

\* Promise.all rejects as soon as one job has rejected; the catch block
\* calls process.exit(1), which ends every worker thread with it.
ExitFail ==
    /\ status = "running"
    /\ \E m \in Modules : opc[m] = "failed"
    /\ status' = "exit1"
    /\ UNCHANGED <<opc, inUse, run, workerVars, serviceVars>>

\* Node's own exit when its event loop drains.  A worker thread that
\* ended itself with process.exit never answers its comlink call, and
\* that call waits on nothing but a "message" listener (comlink's
\* requestResponseMessage; a Worker has no start() to keep it referenced).
\* Once no live worker thread, no queued job p-limit could still start
\* and no settled promise is left, the process exits with code 0 while
\* Promise.all is still pending.
NodeDrains ==
    /\ status = "running"
    /\ \E m \in Modules : opc[m] = "running" /\ wpc[m] = "dead"
    /\ \A m \in Modules :
          \/ opc[m] \in {"done", "queued"}
          \/ opc[m] = "running" /\ wpc[m] = "dead"
    /\ \/ \A m \in Modules : opc[m] # "queued"
       \/ Cardinality(Active) = Cardinality(Services)
    /\ status' = "exit0"
    /\ UNCHANGED <<opc, inUse, run, workerVars, serviceVars>>

-----------------------------------------------------------------------------
(* The environment. *)

\* The CI job is cancelled or times out while the process runs.
Cancel ==
    /\ Live
    /\ status' = "killed"
    /\ UNCHANGED <<opc, inUse, run, workerVars, serviceVars>>

\* A new CI run starts the action afresh; the services keep their state.
NewRun ==
    /\ ~Live
    /\ run < MaxRuns
    /\ QuiescentRestart => \A s \in Services : pending[s] = <<>>
    /\ FreshRun(opc', inUse', status', wpc', ret', tix', passed', tested', timer')
    /\ run' = run + 1
    /\ UNCHANGED <<slot, serviceVars>>

\* A worker thread steps only while its process lives.
Worker(m) == status = "running" /\ WorkerStep(m) /\ UNCHANGED <<opc, inUse, status, run>>

\* The edge keeps propagating activations whatever the process does.
Edge(s) == Propagate(s) /\ UNCHANGED <<opc, inUse, status, run>>

\* The last run has ended: nothing happens any more.
Finished == ~Live /\ run = MaxRuns /\ UNCHANGED vars

Next ==
    \/ Setup
    \/ \E m \in Modules : Start(m) \/ Settle(m) \/ Worker(m)
    \/ ExitOk
    \/ ExitFail
    \/ NodeDrains
    \/ Cancel
    \/ NewRun
    \/ \E s \in Services : Edge(s)
    \/ Finished

\* The event loop runs every ready callback, comlink delivers every
\* posted message, pWaitFor always ends (by success or its timeout),
\* Node exits once nothing is left to run, and the edge serves every
\* activation eventually.  Cancellation and a new
\* run are not assured.
Fairness ==
    /\ \A m \in Modules : WF_vars(Start(m)) /\ WF_vars(Settle(m)) /\ WF_vars(Worker(m))
    /\ WF_vars(Setup) /\ WF_vars(ExitOk) /\ WF_vars(ExitFail) /\ WF_vars(NodeDrains)
    /\ \A s \in Services : WF_vars(Edge(s))

Spec == Init /\ [][Next]_vars /\ Fairness

-----------------------------------------------------------------------------
(* Properties. *)

\* No service runs the tests of two jobs at once: the search for a service
\* whose isActivelyUsed flag is false and the setting of that flag, in
\* the job started by p-limit, never hand one service to two live jobs.
SlotExclusion ==
    \A m, k \in Modules :
        m # k /\ opc[m] = "running" /\ opc[k] = "running" => slot[m] # slot[k]

\* Every downstream test request of module m is answered by m's own test
\* app, never by the waiting app or by another module's app left on the
\* service by an earlier job or run: the probe, the waiting-app recovery
\* and the marker polls of deployTestApp are what ensure it.
OwnAppTested == \A m \in Modules : tested[m] \subseteq {m}

\* A run that ends with process.exit(0) ran and passed every "c@e" test of
\* every module, and left each service it used serving the waiting app
\* with no activation still to propagate, ready for the next run.
ExitZeroSound ==
    status = "exit0" =>
        \A m \in Modules :
            /\ passed[m] = NTests
            /\ served[slot[m]] = Waiting
            /\ pending[slot[m]] = <<>>

\* Spec 4.5 and 7: a remote failure is isolated to its own job.  The
\* process exits non-zero only after every dispatched job has settled, so
\* siblings finish their deploys and clean their services; and a job
\* releases its service in a `finally`, so a service is marked actively
\* used only while a job runs on it, whether earlier jobs on it succeeded
\* or failed.
RemoteFailureIsolated ==
    /\ status = "exit1" => \A m \in Modules : opc[m] # "running"
    /\ status = "running" =>
          \A s \in Services : inUse[s] => \E m \in Active : slot[m] = s

\* The slots each job holds: a job that was handed a service (its worker
\* left "idle") holds it while it runs, and, having failed, never gives
\* it back; a job that resolved has released it.
Holders == [s \in Services |->
               {m \in Modules : wpc[m] # "idle" /\ opc[m] \in {"running", "failed"}
                                /\ slot[m] = s}]

Pool == INSTANCE SlotPool WITH Jobs <- Modules, Slots <- Services, holders <- Holders

\* The search for an unmarked service, its marking, the release after a
\* successful run and the fresh config of a new run implement the slot
\* pool of spec 4.5: no job is handed a slot another job holds, a job
\* holds one slot at a time, and only the holder releases it.
SlotPoolRefined == Pool!PoolSpec

\* Every run of the action ends: the process reaches process.exit(0) or
\* process.exit(1), from the setup or once every job's comlink call has
\* settled or one has failed, or Node exits when nothing is left to run.  Cancellation of the CI job is not fair, so a run that could
\* only end by cancellation violates this.
RunEnds == Live ~> ~Live

=============================================================================
