\* Termination of one CI run with every comparison outcome, including those
\* that end a worker thread.
CONSTANTS
    Modules <- MCModules
    Services <- MCServices
    NTests = 2
    Outcomes <- AllOutcomes
    Waiting = Waiting
    FetchMayFail = TRUE
    DeployMayFail = TRUE
    MaxRuns = 1
    Tokens <- TokenOptional
    QuiescentRestart = TRUE

SPECIFICATION Spec

PROPERTY RunEnds
