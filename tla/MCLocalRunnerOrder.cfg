\* Local phase: a module that sends its after-only upstream request right
\* after responding, and passes every other check.
CONSTANTS
    LModules <- MCLModules
    LTests = 2
    UpListed <- MCUpListed2
    UpExpected <- MCUpExpected2
    AfterOnly <- MCAfterOnly2
    UpSent <- MCUpExpected2
    Local <- MCLocalAll2
    LOutcomes <- PassOnly
INIT LInit
NEXT LNext
INVARIANT NoSpuriousUpstreamFailure
