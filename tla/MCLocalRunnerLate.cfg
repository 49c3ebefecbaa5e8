\* Local phase: a module that sends one upstream request more than the
\* first test's fixture lists.
CONSTANTS
    LModules <- MCLModules
    LTests = 2
    UpListed <- MCUpListed2
    UpExpected <- MCUpExpected2
    AfterOnly <- MCAfterOnly2
    UpSent <- MCUpSentExtra
    Local <- MCLocalAll2
    LOutcomes <- PassOnly
INIT LInit
NEXT LNext
INVARIANT UpstreamCheckedAgainstItsTest
