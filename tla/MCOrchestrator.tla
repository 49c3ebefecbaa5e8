---------------------------- MODULE MCOrchestrator ----------------------------
(* Instantiation of Orchestrator for TLC: three modules with remote tests *)
(* on two services, so that p-limit queues a job and a service is reused. *)
EXTENDS Orchestrator

MCModules == 1..3
MCServices == 1..2

\* The comparison outcomes that never end a worker thread.
SettlingOutcomes == {"pass", "fetchError", "mismatch"}

\* A passing test, or a body-chunk mismatch.
ChunkOutcomes == {"pass", "chunkMismatch"}

\* Every run is given a Fastly token.
TokenGiven == {TRUE}

\* A run may lack the token, as one triggered from a fork does.
TokenOptional == BOOLEAN

AllOutcomes == {"pass", "fetchError", "mismatch", "chunkMismatch", "exit"}

=============================================================================
