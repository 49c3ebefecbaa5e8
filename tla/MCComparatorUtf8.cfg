\* Chunk matching of the fragment "é": does its two-byte encoding pass
\* when split between two chunks?
CONSTANTS
    Ascii = {"a"}
    Wide = "e"
    Lead = "c3"
    Cont = "a9"
    Bad = "fffd"
    Bodies <- MCBodiesOneWide
    Streams <- MCStreamsOneWide
    Limit = 4
    MaxGap = 1
INIT CInit
NEXT CNext
INVARIANT AlignedStreamMatches
