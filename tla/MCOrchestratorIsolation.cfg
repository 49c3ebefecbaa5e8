\* A failed job: does the process wait for its siblings, and is its service
\* released? Promise.all rejects at the first failed job and the process exits
\* while sibling jobs are still deploying and testing.
CONSTANTS
    Modules <- MCModules
    Services <- MCServices
    NTests = 1
    Outcomes <- SettlingOutcomes
    Waiting = Waiting
    FetchMayFail = FALSE
    DeployMayFail = FALSE
    MaxRuns = 1
    Tokens <- TokenGiven
    QuiescentRestart = TRUE

SPECIFICATION Spec

INVARIANT RemoteFailureIsolated
