\* Chunk matching with one chunk per tick and the timer at three ticks:
\* is a stream that never stalls ever cut off?
CONSTANTS
    Ascii = {"a"}
    Wide = "e"
    Lead = "c3"
    Cont = "a9"
    Bad = "fffd"
    Bodies <- MCBodiesWide
    Streams <- MCStreamsWide
    Limit = 3
    MaxGap = 1
INIT CInit
NEXT CNext
INVARIANT TimeoutOnlyOnStall
