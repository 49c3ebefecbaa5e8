# TLA+ models of the compute-sdk-test action

This directory holds TLA+ models of the GitHub action under
`src/.github/actions/compute-sdk-test/`, and the TLC configurations that check
them. The action runs the conformance tests of wasm modules twice: first
locally, against a Viceroy process, and then remotely, against Fastly
Compute@Edge (C@E) services. The remote phase is the concurrent part of the
system, so it is modelled first.

## 1. Inventory

### Components

| Component | Source | State it keeps | Operations |
|---|---|---|---|
| Action entry, config, builds | `index.js` 1-67 | parsed `config`, token | read inputs, `execSync` each module's build |
| Local (Viceroy) runner | `index.js` 69-197 | `viceroy`, `upstreamServer`, the globals `upstreamServerTest` and `isDownstreamResponseHandled` | per module: spawn Viceroy; per test: reset the upstream expectation, fetch, check logs, compare, wait for the upstream requests; kill Viceroy |
| Upstream mock server | `src/upstream-server.js` (not in `src/` of this snapshot; spec 4.3) | request counter, expected count | `listen` with a per-request callback, `setExpectedNumberOfRequests`, `waitForExpectedNumberOfRequests`, `close` |
| Viceroy supervisor | `src/viceroy.js` (not in `src/`; spec 4.1) | child process, `logs` | `spawn` (waits for readiness), `kill` |
| Remote orchestrator | `index.js` 199-316 | `config.services[*].isActivelyUsed`, the p-limit queue and active count, `moduleTestPromises` | admit a job, pick and mark a free service, start a worker and call `run` through comlink, release the service on success, `Promise.all`, `process.exit` |
| Compute test worker | `compute-test-worker.js` | the `LiveComputeTest` of the job | `run`: probe the service for the waiting-app marker, recover a dirty service, deploy the module, run each `c@e` test, clean up by deploying the waiting app; `runModuleTest` cleans up and rethrows on failure |
| LiveComputeTest | `src/live-compute-test.js` | module, token, service | `deployWaitingApp` (deploy, then poll for the marker for 5 min), `deployTestApp` (deploy, poll for the marker to disappear for 5 min, then poll for status 200 for 30 s, failure ignored) |
| p-wait-for, p-timeout | `dist/compute-test-worker.js` 2042-2185 | retry timer, timeout timer | check a condition every interval until it holds or the timeout rejects |
| Comparator | `dist/compute-test-worker.js` 2190-2293 | chunk cursor, 10 s chunk timer | status, subset-of-headers, exact body or chunk-sequence matching |
| Comlink RPC | `dist/compute-test-worker.js` 4-328 | listeners keyed by message id | `wrap`/`expose`, APPLY request, response or serialized error |
| node-fetch | `dist/compute-test-worker.js` 385-2031 | - | HTTP client (vendored) |

The Fastly services are external, but their behaviour matters: a deploy
activates a new version, and the edge starts serving activated versions some
time later, one after the other. The worker finds out what a service serves
only by fetching `/`. The waiting app answers with the marker header
`compute-sdk-test-waiting`.

### How the components interact

* The main thread runs the local phase on its own, one module and one test at a
  time. The upstream server's callback runs whenever the module under test
  makes an upstream request. It shares two mutable globals with the main loop.
* The remote phase runs one job per module that has a `c@e` test. p-limit
  admits at most `config.services.length` jobs at a time. Each job runs in its
  own worker thread, started through a comlink call. The only state shared
  between jobs is the `isActivelyUsed` flags. They also share the remote
  services, whose state outlives the process and so carries over to the next
  CI run.
* Exit status: `process.exit` is called from many places: the main task, the
  upstream callback, the comparator's timer, and the exact-body mismatch. In a
  worker thread, `process.exit` ends only that thread.

### What is hard

* Concurrent jobs choosing slots. Workers interleave with each other and with
  the edge's propagation.
* Partial failure at every step: a fetch can reject, a deploy can fail, and a
  poll can time out. The cleanup that follows a failure can fail too.
* Crash and restart: `process.exit(1)` at the first failed job, or a cancelled
  CI run, can stop a worker between its deploy and its cleanup. The next run
  has to recover the dirty service.
* Timers that outlive the code that set them: the chunk timer.
  `process.exit` inside a worker leaves its comlink call pending forever. That
  call waits on a bare `message` listener, which keeps nothing alive, so Node
  exits on its own, with code 0, once nothing else is left to run.
* In the local phase, upstream callbacks race the main loop, which rewrites
  the test the callbacks check against.

### What makes each component correct

* Orchestrator: no service serves two jobs at once. Exit status 0 means that
  every test passed. Every run ends. A failed job releases its slot and does
  not cancel its siblings (spec 4.5, 7, 8).
* Worker and LiveComputeTest: each test request is answered by the module's own
  app. A successful job leaves its service serving the waiting app, with
  nothing still propagating.
* Comparator: chunk matching as spec 4.2 describes it. Headers are checked as a
  subset. The timer never outlives the comparison.
* Local runner: an upstream request is checked against the test that is
  running. Every failure kills Viceroy and closes the upstream server before
  exiting.

## 2. Plan

In order of importance:

1. **`ComputeTestWorker`** and **`Orchestrator`** (done): the remote phase, with
   the services' deploy and propagate behaviour and a sequence of CI runs.
2. **`LocalRunner`** (done): the Viceroy loop of `index.js` 69-197, with the
   upstream server (spec 4.3) and Viceroy `spawn`/`kill` (spec 4.1) as the
   environment. Both are spec-modelled.
3. **`Comparator`** (done for the chunk-sequence branch): the chunk loop of
   `compareDownstreamResponse`, with UTF-8 decoding of each chunk, checked
   against spec 4.2's algorithm as a RECURSIVE reference definition.
4. **`ComlinkChannel`** (not needed): `index.js` makes one `run` call per
   worker, so matching responses by message id and transferring the thrown
   error are deterministic. `Settle` models them. The one case that matters,
   a worker that exits with the call in flight, is in `Orchestrator`
   (`NodeDrains`).
5. **`SlotPool`** (done): an abstract spec of the service pool. `Orchestrator`
   is shown to implement it through `INSTANCE ... WITH`.

## 3. Modules

### `ComputeTestWorker`

The worker of each module job, together with the services it deploys to.

* State: `wpc[m]` is the program point of `run`. Each step goes from one
  `await` to the next. `execSync` blocks, so a deploy is part of the step that
  calls it. `ret[m]` is what follows the pending `deployWaitingApp`:
  `deployTest` (recovery), `resolve` (cleanup after the last test) or `reject`
  (cleanup after a failure). `tix`, `passed` and `tested` count the tests and
  record which app answered them. `timer[m]` is the armed chunk timer.
  `slot[m]` is the service `run` received. `pending[s]` is the sequence of
  activated versions that the edge does not serve yet, and `served[s]` is the
  version it serves.
* Actions:
  * `BeginRun` is comlink's APPLY reaching the worker.
  * `Probe` is the first fetch. It rejects on a network error. Without the
    marker it deploys the waiting app and then deploys the test app; with the
    marker it deploys the test app at once.
  * `PollWaiting` and `PollGone` are single checks of the pWaitFor loops.
    `PWaitFor` models `pWaitFor`/`pTimeout`: a true condition continues, a
    false one retries (stutters) or times out, and a rejected fetch rejects.
  * `RunTest` is `runModuleTest` with the comparator's outcome chosen from
    `Outcomes`: `pass`; `fetchError` and `mismatch`, which deploy the waiting
    app and rethrow; `chunkMismatch`, which does the same but leaves the
    chunk timer armed; and `exit`, the exact-body `process.exit`, which ends
    the thread.
  * `ChunkTimerFires` is the leaked timer.
  * `ExecDeploy` is `execSync` of the deploy. It can fail with or without
    having activated the version.
  * `Propagate` is the edge serving the next activation.

### `Orchestrator` (EXTENDS `ComputeTestWorker`)

* State: `opc[m]` is the status of the job's promise, `inUse[s]` is
  `isActivelyUsed`, `status` is that of the node process, and `run` is the
  number of the CI run.
* Actions:
  * `Setup` is index.js 222-236, between the two phases. Without a token the
    task returns, and the final `then` calls `process.exit(0)`. Otherwise the
    waiting app is built and the workers' dependencies are installed; either
    `execSync` can throw, which exits 1 (`BuildResults`). The constant
    `Tokens` gives the values the `fastly_token` input may take in a run.
  * `Start` is p-limit admitting the next job in order while fewer than N are
    active. It takes the first unmarked service and marks it, or throws when
    none is free.
  * `Settle` is the comlink result. On success it terminates the worker and
    clears the flag. On failure it only rethrows.
  * `ExitOk` and `ExitFail` are `Promise.all` with `process.exit`.
  * `NodeDrains` is Node's own exit, with code 0, when its event loop
    drains. This happens when every job has resolved, or has a worker that
    ended itself, or is queued behind those. comlink's
    `requestResponseMessage` (dist 288-303) waits on a `message` listener
    only. The node adapter has no `start`, so the pending call holds no
    handle.
  * `Cancel` is the CI job being cancelled or timing out.
  * `NewRun` is the next CI run, with a fresh config and the same services.
  * `Finished` lets the last run end without a deadlock.
* Fairness: weak fairness on every step of the main thread and of each worker,
  and on the edge's propagation. The event loop runs ready callbacks, and
  comlink delivers posted messages within one process. Every pWaitFor ends,
  because its timeout is finite: a poll step is always enabled, since either
  its condition holds or it can time out. The edge serves every activation
  eventually. `NodeDrains` is fair because Node exits once its loop is
  empty. `Cancel` and `NewRun` are not fair.

### `SlotPool`, and the refinement

`SlotPool` is what the remote phase promises of its service slots (spec 4.5).
Its one variable `holders[s]` is the set of jobs holding slot `s`. A job
`Acquire`s a free slot while it holds no other slot. Only a holder can
`Release` a slot. `Restart` is a new process, in which every slot is free.
Nothing forces a release, so `SlotPool` does not require a failed job to give
its slot back. `RemoteFailureIsolated` covers that case.

`Orchestrator` defines the refinement mapping `Holders`. The holders of `s`
are the jobs whose worker was handed `s` (it left `idle`) and whose promise is
`running` or `failed`. The mapping is given through
`Pool == INSTANCE SlotPool WITH holders <- Holders`, and `SlotPoolRefined`
(`Pool!PoolSpec`) is a property of the run `remote_safety`. Each step of
`Orchestrator` maps to a `SlotPool` step or a stutter:

* `Start` that finds a free service is `Acquire`.
* A successful `Settle` is `Release`.
* A failed `Settle` is a stutter: the failed job still holds its slot.
* `NewRun` is `Restart`.

The refinement holds only because `Start` marks the service it picks.

### `LocalRunner`

The local phase of `index.js` 69-197: one module at a time under Viceroy, one
test at a time.

* Actors: the main loop (`lpc`); the module under test answering the
  downstream request (`app`); the upstream server's per-request callbacks
  (`cbs`); the leftover chunk timer (`ltimer`); and the OS ending a killed
  Viceroy (`vic[m]`: `none`, `up`, `stopping`, `stopped`).
* The callbacks share two globals with the main loop, modelled as `upTest` and
  `handled`. `upTest` is `upstreamServerTest`, with `NoTest` standing for
  `null`; `handled` is `isDownstreamResponseHandled`.
* An upstream request is abstracted to the test that sent it and its index.
  Requests travel through `inflight`, so they can arrive late or in any order.
* Main-loop actions:
  * `Build` is the module builds before the loop. A failing `execSync` exits 1
    through the final catch.
  * `Spawn` starts the module's Viceroy, or fails with a timeout. A module
    with no Viceroy test is killed as soon as it is ready.
  * `NextLocal` is the loop's filter: tests whose environments lack `viceroy`
    (the constant `Local`) are skipped, and nothing is reset for them.
  * `Prepare` resets the globals and the server's expected count for the next
    test. As in the code's truthiness test, a fixture that has
    `local_upstream_requests`, even an empty array (the constant `UpListed`),
    becomes `upstreamServerTest`; one without the field leaves it `null`.
  * `FetchSettles` sets `handled` once the harness's fetch resolves.
  * `Check` covers the log check and `compareDownstreamResponse`, with outcomes
    `pass`, `logMissing`, `mismatch`, `chunkMismatch` (which arms the timer)
    and `bodyExit`.
  * `NextTest` and `WaitTimesOut` are the two ends of
    `waitForExpectedNumberOfRequests`.
  * `AfterTest` is the end of a test. It either prepares the next one or, at
    the end of a module, nulls the globals and kills Viceroy.
  * `ModuleKilled` is the awaited kill.
  * `Finish`, `CloseOnFailure` and `KilledOnFailure` are the exit paths.
* Callback and environment actions:
  * `UpstreamArrives` is the callback starting, and it reads `upTest`
    synchronously. A `null` test throws, and the unhandled rejection ends the
    process.
  * `CallbackCompares` checks the request against the fixture list and the
    ordering flag. On a mismatch it kills Viceroy and awaits the kill;
    `CallbackExits` then exits 1.
  * `LocalChunkTimerFires` is the comparator's timer.
* `passedL` is a history variable only: `NextTest` adds the current test
  to it, and no action reads it. `LocalExitZeroSound` uses it to say that
  exit 0 follows only a run in which every test of `Local` reached the end
  of its upstream wait. Its mutant, `NextLocalSkipOne`, is a loop filter
  that passes over the test right after the current one.
* Spec-modelled, because `src/viceroy.js` and `src/upstream-server.js` are
  not in this snapshot:
  * `Kill` signals a process that is up and is idempotent;
  * `spawn` waits for readiness or times out;
  * `setExpectedNumberOfRequests` resets the count;
  * `Matches` is `compareUpstreamRequest`.
* Fairness: weak fairness on every step of the main loop, of the module under
  test and of the callbacks, and on a killed Viceroy exiting. The event loop
  runs ready callbacks. A killed process exits. The module under test is
  assumed to answer, as a conforming module does. A hanging fetch is not
  modelled.

### `Comparator`

The chunk-sequence branch of `compareDownstreamResponse`
(`dist/compute-test-worker.js` 2220-2247). `body` is the fixture's fragments
and `chunks` the stream. A fragment is a sequence of characters and a chunk a
sequence of bytes. `Decode` is `toString('utf8')` applied to one chunk: a
complete two-byte sequence becomes one character, and a lone lead or
continuation byte becomes U+FFFD. `Includes` and `EndsWith` are the string
methods.

Time is counted in ticks. The timer is set once before the loop and fires
after `Limit` ticks. The server sends a chunk within `MaxGap` ticks of the
previous one.

* `ReadChunk` is one iteration of the loop. When `chunkNumber` has passed the
  last fragment, `body[chunkNumber]` is undefined and `.includes` throws a
  TypeError, so the verdict is `typeError`.
* `EndOfStream` clears the timer and compares the cursor with the number of
  fragments.
* `TimerFires` is the timer ending the comparison.

The reference definitions are:

* `SpecVerdict`, spec 4.2's algorithm, as a RECURSIVE operator;
* `Aligned`, which holds when the stream carries each fragment as whole
  chunks, in order. It is also RECURSIVE.

## 4. Runs

The remote runs use `MCOrchestrator`: modules `1..3` and services `1..2`, so
p-limit queues one job and a service is reused within a run. In `Init` each
service serves either the waiting app or any module's app, to stand for what
earlier runs left behind. The local runs use `MCLocalRunner` with two modules.
The comparator runs use `MCComparator` with the characters `a` and the
two-byte `é`.

| Run | cfg | Expect | Checks |
|---|---|---|---|
| remote_safety | `MCOrchestrator.cfg` | pass | `TypeOK`, `SlotExclusion`, `OwnAppTested`, `ExitZeroSound` and `SlotPoolRefined`, over two CI runs. Fetches and deploys can fail, and a restart comes only once the edge is quiescent. The comparison outcomes are those that leave the worker thread alive (108k states); the ones that end it are checked in worker_exit_false_pass. |
| remote_termination | `MCOrchestratorLive.cfg` | pass | `RunEnds` over one run with two tests per module, with every outcome, including those that end a worker thread. The run may lack the token (130k states). |
| worker_exit_false_pass | `MCOrchestratorFalsePass.cfg` | violation | `ExitZeroSound`: a chunk mismatch's leftover timer ends each running worker during its cleanup. Their comlink calls hold nothing alive, and Node exits 0 with no test passed and a job never started. |
| failure_isolation | `MCOrchestratorIsolation.cfg` | violation | `RemoteFailureIsolated`, the spec's fail-isolated orchestrator. A failed job keeps its service marked, and the process exits at the first failure while siblings still run. |
| stale_activation | `MCOrchestratorStale.cfg` | violation | `OwnAppTested` when a new run may start while a cancelled run's activation still propagates. The marker-gone poll accepts the stale version. |
| local_safety | `MCLocalRunner.cfg` | pass | `LTypeOK`, `UpstreamCheckedAgainstItsTest`, `OneViceroyAtATime`, `LocalExitZeroSound` and `LocalRunEnds`, over three modules of three tests. One test has an after-only request and one has none. The second module skips a test and the third has no Viceroy test. Every check outcome, failing builds and spawns, and late or reordered upstream requests are included (356k states). |
| local_exit_leaks_viceroy | `MCLocalRunnerNoKill.cfg` | violation | `ExitKillsViceroy`: a failed `waitForExpectedNumberOfRequests` (and the callback and spawn paths) exits with Viceroy still up. |
| upstream_order_race | `MCLocalRunnerOrder.cfg` | violation | `NoSpuriousUpstreamFailure`: a correct module's after-only upstream request arrives before the harness's fetch resolves, and it is judged too early. |
| late_upstream_request | `MCLocalRunnerLate.cfg` | violation | `UpstreamCheckedAgainstItsTest` when the module sends one request more than test 1 lists. The extra request is checked against test 2's fixtures. |
| chunk_matching | `MCComparator.cfg` | pass | `CTypeOK` and `VerdictFollowsSpec` over every fixture of up to two fragments and every stream of up to three chunks. Chunks come one or two ticks apart and the timer is at five ticks, so a three-chunk stream can end and the cursor crosses fragments, while slower streams time out (486k states). |
| chunk_utf8_split | `MCComparatorUtf8.cfg` | violation | `AlignedStreamMatches`: `é` split over two chunks decodes to two U+FFFD characters and fails. |
| chunk_total_timeout | `MCComparatorTimeout.cfg` | violation | `TimeoutOnlyOnStall`: the one 10 s timer cuts off a stream that never stalls. |

Why the bounds are enough:

* Remote phase:
  * Three modules on two services give a queued job, a reused service, and two
    concurrent jobs.
  * Two runs give a dirty service carried into a new run.
  * One test per module in the safety run is enough, because every outcome is
    available at every test. The liveness run uses two, so that the loop is
    exercised.
  * The pending sequences are bounded by the deploys of at most two runs.
* Local phase:
  * Three modules give a second Viceroy that must wait for the first to be
    killed, a skipped test, and a module with no Viceroy test.
  * Three tests with 1, 0 and 2 expected upstream requests give a late request
    crossing into the next test, a test with none, and two requests that can
    reorder. `MaxUp` (3) bounds the requests counted per test.
* Comparator: a one-byte and a two-byte character are the smallest alphabet in
  which a chunk can split a character. Three chunks are enough to split one
  fragment and still deliver another. In `chunk_matching`, a stream of three
  chunks one tick apart ends at tick 4, before the timer at tick 5, so
  `VerdictFollowsSpec` compares multi-chunk, multi-fragment streams. With
  `MaxGap` = 2, slower streams still reach the timer.

Each property of the passing runs has a mutant, listed in `PROJECT.json`. Each
mutant is a plausible bug in the modelled code, and TLC finds it.

## 5. Not modelled, and why

* Compilation, config parsing, logging, and `buildWaitingApp` are I/O with no
  concurrency.
* The missing-token return (`index.js:222-226`) is modelled, and it exits 0
  without running any `c@e` test. `remote_safety` gives every run a token,
  because `ExitZeroSound` is about runs that test on C@E. The action warns
  about the missing token by design. `remote_termination` includes runs
  without it.
* The upstream callback (`index.js` 79-90) never writes a response. If
  `src/upstream-server.js` does not end the response either, a module that
  awaits its upstream call before answering downstream hangs the local phase.
  The fetch at line 131 has no timeout. The server's code is not in the
  sources, so the model lets the module answer (fairness on `AppResponds`);
  the hazard is listed in `PROJECT.json`.
* A failed upstream check after the last module's kill: the callback
  (`index.js` 84-88) and the main loop both await the same Viceroy exit.
  The model allows both orders of their continuations. In one order the
  main loop closes the server and exits 0 while an upstream request is
  judged wrong. The invariant `lstatus = "exit0" => ~bad` was checked by
  hand over the `local_safety` constants, and TLC finds that trace. The
  order Node actually takes depends on `src/viceroy.js`, so no run asserts
  it (hazard `index.js:312`).
* The log check is an outcome of `Check`. Whether a line the module printed
  has reached `viceroy.logs` when the fetch resolves depends on
  `src/viceroy.js`, which is not in the sources.
* node-fetch is a vendored client. A fetch is modelled by its result only. A
  fetch that never settles is not modelled.
* Comparator:
  * `compareHeaders`, the status check and the exact-body branch are modelled
    only as outcomes of `Check` and `RunTest`.
  * Empty chunks are left out: one would be contained in every fragment.
  * Spec 4.2 leaves two cases unclear: a chunk that contains a fragment's end
    but does not end with it, and a fixture of no fragments.
    `VerdictFollowsSpec` compares only the `match` and `incomplete` verdicts.
* Comlink's message layer is modelled as reliable delivery (plan item 4 says why).
* Concurrent CI runs on the same services are not modelled. Two workflows
  sharing `config.services` would each have their own `isActivelyUsed` flags.
  The model runs CI runs one after another.
* The two phases are separate modules. They run one after the other:
  the remote phase starts only after the local loop has closed the upstream
  server (`index.js:197`), and the two share no state.
