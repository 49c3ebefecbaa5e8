---------------------------- MODULE MCLocalRunner ----------------------------
(* Instantiates LocalRunner for TLC: modules run one after the other      *)
(* under Viceroy, each with the same fixtures.                             *)
EXTENDS LocalRunner

MCLModules == 1..2

\* Three modules: the first runs all three tests under Viceroy, the second
\* skips its second test ("c@e" only), the third has no Viceroy test.
MCLModules3 == 1..3
MCLocal3 == ({1} \X {1, 2, 3}) \cup {<<2, 1>>, <<2, 3>>}

\* Every test of two modules runs under Viceroy.
MCLocalAll2 == MCLModules \X {1, 2}

\* Three tests: one upstream request that may only follow the response,
\* none, and two that may come at any time.
MCUpExpected3 == <<1, 0, 2>>
MCUpListed3 == {1, 2, 3}      \* the second test lists an empty array
MCAfterOnly3 == <<TRUE, FALSE, FALSE>>

\* Two tests: an after-only request, then none.
MCUpExpected2 == <<1, 0>>
MCUpListed2 == {1}            \* the second test has no local_upstream_requests
MCAfterOnly2 == <<TRUE, FALSE>>

\* A module that sends one request more than its fixture lists in the
\* first test.
MCUpSentExtra == <<2, 0>>

AllLOutcomes == {"pass", "logMissing", "mismatch", "chunkMismatch", "bodyExit"}
PassOnly == {"pass"}
=============================================================================
