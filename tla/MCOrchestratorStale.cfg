\* A run that starts while a version activated by a cancelled run is
\* still propagating can test that stale version.
CONSTANTS
    Modules <- MCModules
    Services <- MCServices
    NTests = 1
    Outcomes <- SettlingOutcomes
    Waiting = Waiting
    FetchMayFail = FALSE
    DeployMayFail = FALSE
    MaxRuns = 2
    Tokens <- TokenGiven
    QuiescentRestart = FALSE

SPECIFICATION Spec

INVARIANT OwnAppTested
