\* Local phase: does every exit leave no Viceroy running (spec 4.4, 7)?
CONSTANTS
    LModules <- MCLModules
    LTests = 2
    UpListed <- MCUpListed2
    UpExpected <- MCUpExpected2
    AfterOnly <- MCAfterOnly2
    UpSent <- MCUpExpected2
    Local <- MCLocalAll2
    LOutcomes <- PassOnly
INIT LInit
NEXT LNext
INVARIANT ExitKillsViceroy
