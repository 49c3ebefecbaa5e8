----------------------------- MODULE LocalRunner -----------------------------
(***************************************************************************)
(* The local (Viceroy) phase of index.js `mainAsyncTask`, lines 69-197.   *)
(*                                                                         *)
(* Actors: the main loop (`lpc`), one module under test answering the     *)
(* downstream request inside Viceroy (`app`), the upstream server's        *)
(* per-request callbacks (`cbs`), the leftover chunk timer, and the OS     *)
(* ending a killed Viceroy.  The callbacks read the two globals the main   *)
(* loop rewrites between tests, `upstreamServerTest` (`upTest`) and        *)
(* `isDownstreamResponseHandled` (`handled`).                             *)
(*                                                                         *)
(* src/viceroy.js and src/upstream-server.js are not part of the sources;  *)
(* their parts are modelled from the spec (4.1, 4.3): `spawn` waits for    *)
(* readiness or fails with a timeout, `kill` signals and waits for exit,   *)
(* the server numbers arriving requests from 0 and setExpected resets the  *)
(* numbering.  An upstream request's content is abstracted to the test     *)
(* that issued it and its index among that test's requests.               *)
(***************************************************************************)
EXTENDS Naturals, FiniteSets, FiniteSetsExt

CONSTANTS
    LModules,     \* modules run under Viceroy, in moduleKeys order (1..n)
    LTests,       \* number of "viceroy" tests of each module
    UpListed,     \* tests whose fixture has local_upstream_requests (maybe [])
    UpExpected,   \* UpExpected[t]: length of test t's local_upstream_requests
    AfterOnly,    \* AfterOnly[t]: t's upstream requests may only come after the response
    UpSent,       \* UpSent[t]: upstream requests the module really sends in test t
    LOutcomes,    \* what the log check and compareDownstreamResponse may yield
    Local         \* the tests whose environments include "viceroy"

ASSUME LModules = 1..Cardinality(LModules) /\ LTests \in Nat \ {0}
ASSUME LOutcomes \subseteq {"pass", "logMissing", "mismatch", "chunkMismatch", "bodyExit"}

TestIds == LModules \X (1..LTests)
NoTest == <<0, 0>>                      \* upstreamServerTest = null
MaxUp == 3                              \* bound on requests counted per test
Requests == [test : TestIds, idx : 0..MaxUp - 1]

ASSUME Local \subseteq TestIds
ASSUME UpListed \subseteq 1..LTests /\ \A t \in 1..LTests : UpExpected[t] > 0 => t \in UpListed

\* Program points of the main loop.
MainStates == {"build", "spawn", "fetch", "check", "wait", "close", "killWait",
               "modKillWait", "done"}

\* States of one Viceroy process.
ProcStates == {"none", "up", "stopping", "stopped"}

VARIABLES
    lpc,       \* where the main loop is
    lm, lt,    \* the current module and test
    vic,       \* vic[m]: the Viceroy process spawned for module m
    upTest,    \* the global upstreamServerTest (NoTest for null)
    handled,   \* the global isDownstreamResponseHandled
    expected,  \* the server's expected number of requests
    received,  \* the server's count of requests since setExpected
    srvOpen,   \* the upstream server listens on 8081
    app,       \* the module's handling of the current downstream request
    inflight,  \* upstream requests sent and not yet arrived
    cbs,       \* callbacks awaiting compareUpstreamRequest
    cbWait,    \* modules whose Viceroy a failed callback kills and awaits
    ltimer,    \* the chunk timer of a failed comparison is armed
    bad,       \* some upstream request was judged wrong
    lstatus,   \* "running", "exit0" or "exit1"
    passedL    \* history: the Viceroy tests whose upstream wait returned

lvars == <<lpc, lm, lt, vic, upTest, handled, expected, received, srvOpen,
           app, inflight, cbs, cbWait, ltimer, bad, lstatus, passedL>>

Callbacks == [req : Requests, n : 0..MaxUp, fixture : TestIds \cup {NoTest},
              handled : BOOLEAN]

LTypeOK ==
    /\ lpc \in MainStates
    /\ lm \in LModules /\ lt \in 1..LTests
    /\ vic \in [LModules -> ProcStates]
    /\ upTest \in TestIds \cup {NoTest}
    /\ handled \in BOOLEAN /\ srvOpen \in BOOLEAN
    /\ expected \in 0..MaxUp /\ received \in 0..MaxUp
    /\ app \in [test : TestIds, sent : 0..MaxUp, responded : BOOLEAN]
    /\ inflight \subseteq Requests
    /\ cbs \subseteq Callbacks
    /\ cbWait \subseteq LModules /\ ltimer \in BOOLEAN /\ bad \in BOOLEAN
    /\ lstatus \in {"running", "exit0", "exit1"}
    /\ passedL \subseteq Local

Running == lstatus = "running"
Exit(code) == lstatus' = code

-----------------------------------------------------------------------------
(* Viceroy, from the spec (4.1). *)

\* Mutant of Kill: kill() waits for the exit without signalling.
KillNoSignal(m) == UNCHANGED vic

\* viceroy.kill(): signal the process if it still runs; the caller then
\* awaits its exit.  Calling it again is harmless.
Kill(m) == vic' = [vic EXCEPT ![m] = IF @ = "up" THEN "stopping" ELSE @]

\* The OS ends a signalled Viceroy (it goes on after process.exit too).
ViceroyExits(m) ==
    /\ vic[m] = "stopping"
    /\ vic' = [vic EXCEPT ![m] = "stopped"]
    /\ UNCHANGED <<lpc, lm, lt, upTest, handled, expected, received, srvOpen,
                   app, inflight, cbs, cbWait, ltimer, bad, lstatus, passedL>>

-----------------------------------------------------------------------------
(* The main loop. *)

\* Lines 118-135 for test t of the current module: reset the globals and
\* the server's expectation, then send the downstream request.  A fixture
\* with local_upstream_requests, even an empty array (truthy), becomes
\* upstreamServerTest; one without the field leaves it null.
Prepare(t) ==
    /\ lt' = t
    /\ handled' = FALSE
    /\ upTest' = IF t \in UpListed THEN <<lm, t>> ELSE NoTest
    /\ expected' = UpExpected[t]
    /\ received' = 0
    /\ app' = [test |-> <<lm, t>>, sent |-> 0, responded |-> FALSE]
    /\ lpc' = "fetch"

\* Lines 58-67: the build command of every module runs with execSync
\* before anything else; one that fails throws out of mainAsyncTask, and
\* the final catch (lines 314-317) calls process.exit(1).
Build ==
    /\ Running /\ lpc = "build"
    /\ \/ lpc' = "spawn" /\ UNCHANGED lstatus
       \/ Exit("exit1") /\ UNCHANGED lpc
    /\ UNCHANGED <<lm, lt, vic, upTest, handled, expected, received, srvOpen,
                   app, inflight, cbs, cbWait, ltimer, bad, passedL>>

\* Mutant of NextLocal: the test right after t is passed over.
NextLocalSkipOne(t) == {u \in (t + 2)..LTests : <<lm, u>> \in Local}

\* The tests of the current module after test t that run under Viceroy;
\* the loop skips the others (lines 110-113) without touching any state.
NextLocal(t) == {u \in (t + 1)..LTests : <<lm, u>> \in Local}

\* `await viceroy.spawn(...)` for module lm: Viceroy starts and is ready,
\* and the first Viceroy test is prepared, or, when the module has none,
\* the loop ends at once in `await viceroy.kill()`; or the spawn rejects with a startup timeout, with the process left
\* running or not (spec 4.1 does not say); that rejection escapes
\* mainAsyncTask and the final catch calls process.exit(1).
Spawn ==
    /\ Running /\ lpc = "spawn"
    /\ \/ /\ NextLocal(0) # {}
          /\ vic' = [vic EXCEPT ![lm] = "up"]
          /\ Prepare(Min(NextLocal(0)))
          /\ UNCHANGED <<lm, srvOpen, inflight, cbs, cbWait, ltimer, bad, lstatus, passedL>>
       \/ /\ NextLocal(0) = {}
          /\ vic' = [vic EXCEPT ![lm] = "stopping"]
          /\ lpc' = "modKillWait"
          /\ UNCHANGED <<lm, lt, upTest, handled, expected, received, srvOpen,
                         app, inflight, cbs, cbWait, ltimer, bad, lstatus, passedL>>
       \/ /\ \E left \in {"up", "stopped"} : vic' = [vic EXCEPT ![lm] = left]
          /\ Exit("exit1")
          /\ UNCHANGED <<lpc, lm, lt, upTest, handled, expected, received,
                         srvOpen, app, inflight, cbs, cbWait, ltimer, bad, passedL>>

\* The downstream fetch settles.  Once the module has responded the
\* response arrives and the flag flips; if Viceroy is gone the fetch
\* rejects, and the catch closes the server, kills Viceroy and exits.
FetchSettles ==
    /\ Running /\ lpc = "fetch"
    /\ \/ /\ app.responded
          /\ handled' = TRUE
          /\ lpc' = "check"
       \/ /\ vic[lm] # "up"
          /\ lpc' = "close"
          /\ UNCHANGED handled
    /\ UNCHANGED <<lm, lt, vic, upTest, expected, received, srvOpen, app,
                   inflight, cbs, cbWait, ltimer, bad, lstatus, passedL>>

\* Lines 148-172: the expected logs, then compareDownstreamResponse.  A
\* missing log or a thrown mismatch closes the server, kills Viceroy and
\* exits 1; a chunk mismatch does the same with the 10 s timer still
\* armed; an exact-body mismatch calls process.exit(1) inside the
\* comparison, skipping the cleanup.
Check ==
    /\ Running /\ lpc = "check"
    /\ \E o \in LOutcomes :
        \/ o = "pass" /\ lpc' = "wait" /\ UNCHANGED <<ltimer, lstatus>>
        \/ o \in {"logMissing", "mismatch"} /\ lpc' = "close" /\ UNCHANGED <<ltimer, lstatus>>
        \/ o = "chunkMismatch" /\ lpc' = "close" /\ ltimer' = TRUE /\ UNCHANGED lstatus
        \/ o = "bodyExit" /\ Exit("exit1") /\ UNCHANGED <<lpc, ltimer>>
    /\ UNCHANGED <<lm, lt, vic, upTest, handled, expected, received, srvOpen,
                   app, inflight, cbs, cbWait, bad, passedL>>

\* What follows a test once its upstream requests are in: lines 177-178
\* clear upstreamServerTest and the expectation, and the loop goes on,
\* with no await, to the next Viceroy test; after the last one the
\* module's Viceroy is killed and awaited (line 188).
AfterTest ==
    IF NextLocal(lt) # {}
    THEN Prepare(Min(NextLocal(lt))) /\ UNCHANGED vic
    ELSE /\ lpc' = "modKillWait"
         /\ upTest' = NoTest /\ expected' = 0 /\ received' = 0
         /\ Kill(lm)
         /\ UNCHANGED <<lt, handled, app>>

\* Mutant of NextTest: the test ends without waiting for the upstream count.
WaitSkip ==
    /\ Running /\ lpc = "wait"
    /\ passedL' = passedL \cup {<<lm, lt>>}
    /\ AfterTest
    /\ UNCHANGED <<lm, srvOpen, inflight, cbs, cbWait, ltimer, bad, lstatus>>

\* `await upstreamServer.waitForExpectedNumberOfRequests()` returns once
\* the server has counted as many requests as expected.
NextTest ==
    /\ Running /\ lpc = "wait"
    /\ received = expected
    /\ passedL' = passedL \cup {<<lm, lt>>}
    /\ AfterTest
    /\ UNCHANGED <<lm, srvOpen, inflight, cbs, cbWait, ltimer, bad, lstatus>>

\* waitForExpectedNumberOfRequests times out; lines 179-182 exit 1
\* without closing the server or killing Viceroy.
WaitTimesOut ==
    /\ Running /\ lpc = "wait"
    /\ received # expected
    /\ Exit("exit1")
    /\ UNCHANGED <<lpc, lm, lt, vic, upTest, handled, expected, received,
                   srvOpen, app, inflight, cbs, cbWait, ltimer, bad, passedL>>

\* Mutant of ModuleKilled: the next module is spawned without awaiting
\* the exit of the previous Viceroy.
ModuleKilledNoAwait ==
    /\ Running /\ lpc = "modKillWait"
    /\ IF lm < Cardinality(LModules)
       THEN lm' = lm + 1 /\ lpc' = "spawn" /\ UNCHANGED srvOpen
       ELSE lpc' = "done" /\ srvOpen' = FALSE /\ UNCHANGED lm
    /\ UNCHANGED <<lt, vic, upTest, handled, expected, received, app, inflight,
                   cbs, cbWait, ltimer, bad, lstatus, passedL>>

\* Mutant of ModuleKilled: the module loop runs one index too far.
ModuleKilledOneMore ==
    /\ Running /\ lpc = "modKillWait"
    /\ vic[lm] = "stopped"
    /\ IF lm <= Cardinality(LModules)
       THEN lm' = lm + 1 /\ lpc' = "spawn" /\ UNCHANGED srvOpen
       ELSE lpc' = "done" /\ srvOpen' = FALSE /\ UNCHANGED lm
    /\ UNCHANGED <<lt, vic, upTest, handled, expected, received, app, inflight,
                   cbs, cbWait, ltimer, bad, lstatus, passedL>>

\* The module's Viceroy has exited: spawn the next module's, or, after
\* the last module, close the upstream server (line 197).
ModuleKilled ==
    /\ Running /\ lpc = "modKillWait"
    /\ vic[lm] = "stopped"
    /\ IF lm < Cardinality(LModules)
       THEN lm' = lm + 1 /\ lpc' = "spawn" /\ UNCHANGED srvOpen
       ELSE lpc' = "done" /\ srvOpen' = FALSE /\ UNCHANGED lm
    /\ UNCHANGED <<lt, vic, upTest, handled, expected, received, app, inflight,
                   cbs, cbWait, ltimer, bad, lstatus, passedL>>

\* No "c@e" test follows (lines 200-219): mainAsyncTask returns and the
\* final then calls process.exit(0).
Finish ==
    /\ Running /\ lpc = "done"
    /\ Exit("exit0")
    /\ UNCHANGED <<lpc, lm, lt, vic, upTest, handled, expected, received,
                   srvOpen, app, inflight, cbs, cbWait, ltimer, bad, passedL>>

\* The failure path: `await upstreamServer.close()`, then
\* `await viceroy.kill()`, then process.exit(1).
CloseOnFailure ==
    /\ Running /\ lpc = "close"
    /\ srvOpen' = FALSE
    /\ Kill(lm)
    /\ lpc' = "killWait"
    /\ UNCHANGED <<lm, lt, upTest, handled, expected, received, app, inflight,
                   cbs, cbWait, ltimer, bad, lstatus, passedL>>

KilledOnFailure ==
    /\ Running /\ lpc = "killWait"
    /\ vic[lm] = "stopped"
    /\ Exit("exit1")
    /\ UNCHANGED <<lpc, lm, lt, vic, upTest, handled, expected, received,
                   srvOpen, app, inflight, cbs, cbWait, ltimer, bad, passedL>>

\* The chunk timer left armed fires during the cleanup awaits and calls
\* process.exit(1) before Viceroy is killed.
LocalChunkTimerFires ==
    /\ Running /\ ltimer /\ lpc \in {"close", "killWait"}
    /\ Exit("exit1")
    /\ UNCHANGED <<lpc, lm, lt, vic, upTest, handled, expected, received,
                   srvOpen, app, inflight, cbs, cbWait, ltimer, bad, passedL>>

-----------------------------------------------------------------------------
(* The module under test and the upstream server's callback. *)

\* The module, running in Viceroy, sends its next upstream request; one
\* whose fixture allows it only after the response is sent after it.
AppSendsUpstream ==
    LET t == app.test[2] IN
    /\ Running /\ vic[app.test[1]] = "up"
    /\ app.sent < UpSent[t]
    /\ AfterOnly[t] => app.responded
    /\ inflight' = inflight \cup {[test |-> app.test, idx |-> app.sent]}
    /\ app' = [app EXCEPT !.sent = @ + 1]
    /\ UNCHANGED <<lpc, lm, lt, vic, upTest, handled, expected, received,
                   srvOpen, cbs, cbWait, ltimer, bad, lstatus, passedL>>

\* The module sends its downstream response.
AppResponds ==
    /\ Running /\ vic[app.test[1]] = "up" /\ ~app.responded
    /\ app' = [app EXCEPT !.responded = TRUE]
    /\ UNCHANGED <<lpc, lm, lt, vic, upTest, handled, expected, received,
                   srvOpen, inflight, cbs, cbWait, ltimer, bad, lstatus, passedL>>

\* An upstream request arrives, in any order.  The server numbers it and
\* calls the callback, which at once reads upstreamServerTest (line 81):
\* when that is null the property access throws a TypeError, the async
\* callback's rejection is unhandled and the process ends with exit
\* code 1.  Otherwise it reads isDownstreamResponseHandled and awaits
\* compareUpstreamRequest.  A request reaching a closed server is refused.
UpstreamArrives(r) ==
    LET cb == [req |-> r, n |-> received, fixture |-> upTest, handled |-> handled] IN
    /\ Running
    /\ inflight' = inflight \ {r}
    /\ srvOpen => received < MaxUp
    /\ IF srvOpen
       THEN /\ received' = received + 1
            /\ cbs' = cbs \cup {cb}
            /\ IF upTest = NoTest THEN Exit("exit1") ELSE UNCHANGED lstatus
       ELSE UNCHANGED <<received, cbs, lstatus>>
    /\ UNCHANGED <<lpc, lm, lt, vic, upTest, handled, expected, srvOpen, app,
                   cbWait, ltimer, bad, passedL>>

\* The request matches local_upstream_requests[n] of the fixture test:
\* same test, same position, and not before the response if the fixture
\* requires it to come after.
Matches(c) ==
    /\ c.fixture = c.req.test
    /\ c.n = c.req.idx
    /\ c.n < UpExpected[c.fixture[2]]
    /\ AfterOnly[c.fixture[2]] => c.handled

\* compareUpstreamRequest settles.  A mismatch calls viceroy.kill() on
\* the current Viceroy and awaits it before process.exit(1).
CallbackCompares(c) ==
    /\ Running /\ c.fixture # NoTest
    /\ cbs' = cbs \ {c}
    /\ \/ Matches(c) /\ UNCHANGED <<vic, cbWait, bad, passedL>>
       \/ ~Matches(c) /\ bad' = TRUE /\ cbWait' = cbWait \cup {lm} /\ Kill(lm)
    /\ UNCHANGED <<lpc, lm, lt, upTest, handled, expected, received, srvOpen,
                   app, inflight, ltimer, lstatus, passedL>>

\* The callback's `await viceroy.kill()` returns: process.exit(1).
CallbackExits ==
    /\ Running /\ \E m \in cbWait : vic[m] = "stopped"
    /\ Exit("exit1")
    /\ UNCHANGED <<lpc, lm, lt, vic, upTest, handled, expected, received,
                   srvOpen, app, inflight, cbs, cbWait, ltimer, bad, passedL>>

-----------------------------------------------------------------------------

LInit ==
    /\ lpc = "build" /\ lm = 1 /\ lt = 1
    /\ vic = [m \in LModules |-> "none"]
    /\ upTest = NoTest /\ handled = FALSE
    /\ expected = 0 /\ received = 0
    /\ srvOpen = TRUE
    /\ app = [test |-> <<1, 1>>, sent |-> 0, responded |-> TRUE]
    /\ inflight = {} /\ cbs = {}
    /\ cbWait = {} /\ ltimer = FALSE /\ bad = FALSE
    /\ lstatus = "running"
    /\ passedL = {}

\* Every step of the main loop.
MainStep ==
    \/ Build \/ Spawn \/ FetchSettles \/ Check \/ NextTest \/ WaitTimesOut
    \/ ModuleKilled \/ Finish \/ CloseOnFailure \/ KilledOnFailure

\* After process.exit nothing of the process runs any more.
LFinished == ~Running /\ \A m \in LModules : vic[m] # "stopping" /\ UNCHANGED lvars

LNext ==
    \/ MainStep
    \/ LocalChunkTimerFires
    \/ AppSendsUpstream \/ AppResponds
    \/ \E r \in inflight : UpstreamArrives(r)
    \/ \E c \in cbs : CallbackCompares(c)
    \/ CallbackExits
    \/ \E m \in LModules : ViceroyExits(m)
    \/ LFinished

\* The event loop runs what is ready; the network delivers; the module
\* under test answers and sends its requests; the OS ends a killed
\* process.  Timeouts and the chunk timer are not assured.
LFairness ==
    /\ WF_lvars(Build) /\ WF_lvars(Spawn) /\ WF_lvars(FetchSettles) /\ WF_lvars(Check)
    /\ WF_lvars(NextTest \/ WaitTimesOut) /\ WF_lvars(ModuleKilled)
    /\ WF_lvars(Finish) /\ WF_lvars(CloseOnFailure) /\ WF_lvars(KilledOnFailure)
    /\ WF_lvars(AppSendsUpstream) /\ WF_lvars(AppResponds)
    /\ WF_lvars(\E r \in inflight : UpstreamArrives(r))
    /\ WF_lvars(\E c \in cbs : CallbackCompares(c))
    /\ WF_lvars(CallbackExits)
    /\ \A m \in LModules : WF_lvars(ViceroyExits(m))

LSpec == LInit /\ [][LNext]_lvars /\ LFairness

-----------------------------------------------------------------------------
(* Properties. *)

\* Every upstream request is verified against local_upstream_requests of
\* the test whose downstream request made the module send it: the
\* callback reads the global upstreamServerTest when the request arrives,
\* and the main loop moves on to the next test (or to null) only after
\* waitForExpectedNumberOfRequests has counted the test's requests.
UpstreamCheckedAgainstItsTest == \A c \in cbs : c.fixture = c.req.test

\* At most one Viceroy holds 127.0.0.1:8080 at a time: the module loop
\* awaits viceroy.kill() before spawning the next module's process, and
\* a callback's kill or a failure path never lets a new one start early.
OneViceroyAtATime == Cardinality({m \in LModules : vic[m] \in {"up", "stopping"}}) <= 1

\* The local phase always ends in process.exit: spawn and the upstream
\* wait have timeouts, a failed check exits, and a kill is awaited only
\* after it was signalled.
LocalRunEnds == lstatus = "running" ~> lstatus # "running"

\* Spec 4.4 and 7: any failure kills the Process Under Test before the
\* process exits; no exit, 0 or 1, leaves a Viceroy running.
ExitKillsViceroy == lstatus # "running" => \A m \in LModules : vic[m] # "up"

\* A module that sends exactly its fixtures, each in the order its
\* fixture allows relative to the downstream response, never has an
\* upstream request judged wrong (spec 4.3: the flag records whether the
\* downstream response has been delivered).
NoSpuriousUpstreamFailure == ~bad

\* process.exit(0) after the local phase means that every "viceroy" test
\* of every module was run, passed its log and downstream checks and saw
\* its upstream requests counted: the module loop (lines 89-197) skips
\* only tests whose environments lack "viceroy" and a failure never falls
\* through to the final then.
LocalExitZeroSound == lstatus = "exit0" => passedL = Local

=============================================================================
