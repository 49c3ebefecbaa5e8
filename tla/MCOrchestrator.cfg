\* Safety of the remote phase over two consecutive CI runs, with failing
\* fetches, failing deploys and every comparison outcome that lets the
\* worker thread live (those that end it are the false-pass run's).
CONSTANTS
    Modules <- MCModules
    Services <- MCServices
    NTests = 1
    Outcomes <- SettlingOutcomes
    Waiting = Waiting
    FetchMayFail = TRUE
    DeployMayFail = TRUE
    MaxRuns = 2
    Tokens <- TokenGiven
    QuiescentRestart = TRUE

SPECIFICATION Spec

INVARIANT TypeOK
INVARIANT SlotExclusion
INVARIANT OwnAppTested
INVARIANT ExitZeroSound
PROPERTY SlotPoolRefined
