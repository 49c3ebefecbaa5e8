\* Chunk matching over "a" and the two-byte "é": every fixture of up to two
\* fragments, every stream of up to three chunks, one or two ticks between
\* chunks and a timer at five ticks: a stream of three chunks one tick
\* apart ends (at tick 4) before the timer, a slower one may not.
CONSTANTS
    Ascii = {"a"}
    Wide = "e"
    Lead = "c3"
    Cont = "a9"
    Bad = "fffd"
    Bodies <- MCBodiesWide
    Streams <- MCStreamsWide
    Limit = 5
    MaxGap = 2
INIT CInit
NEXT CNext
INVARIANTS
    CTypeOK
    VerdictFollowsSpec
