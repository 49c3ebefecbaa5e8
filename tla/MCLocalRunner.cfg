\* Local phase: three modules of three tests (one test skipped, one module
\* with no Viceroy test), every outcome of every check, late and reordered
\* upstream requests; safety and termination.
CONSTANTS
    LModules <- MCLModules3
    LTests = 3
    UpListed <- MCUpListed3
    UpExpected <- MCUpExpected3
    AfterOnly <- MCAfterOnly3
    UpSent <- MCUpExpected3
    Local <- MCLocal3
    LOutcomes <- AllLOutcomes
SPECIFICATION LSpec
INVARIANTS
    LTypeOK
    UpstreamCheckedAgainstItsTest
    OneViceroyAtATime
    LocalExitZeroSound
PROPERTY LocalRunEnds
