\* A chunk mismatch leaves the chunk timer armed; it can end the worker
\* thread during the cleanup poll.  Does the process still exit 0 only
\* when every test passed?
CONSTANTS
    Modules <- MCModules
    Services <- MCServices
    NTests = 1
    Outcomes <- ChunkOutcomes
    Waiting = Waiting
    FetchMayFail = FALSE
    DeployMayFail = FALSE
    MaxRuns = 1
    Tokens <- TokenGiven
    QuiescentRestart = TRUE

SPECIFICATION Spec

INVARIANT ExitZeroSound
