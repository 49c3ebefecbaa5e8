------------------------------ MODULE Comparator ------------------------------
(***************************************************************************)
(* The chunk-sequence branch of compareDownstreamResponse                 *)
(* (dist/compute-test-worker.js 2220-2247): a 10 s timer is set, the      *)
(* response body is read chunk by chunk with `for await`, each chunk is    *)
(* decoded with toString('utf8') and must be contained in the current      *)
(* fixture fragment; a chunk the fragment ends with moves the cursor on.   *)
(* At the end of the stream the timer is cleared and the cursor must equal *)
(* the number of fragments.                                                *)
(*                                                                         *)
(* Text is a sequence of characters, a chunk a sequence of bytes.  Time is *)
(* counted in ticks: the timer fires after Limit ticks, and the server     *)
(* sends each chunk within MaxGap ticks of the previous one.              *)
(***************************************************************************)
EXTENDS Naturals, Sequences, SequencesExt

CONSTANTS
    Ascii,     \* one-byte characters, each its own byte
    Wide,      \* a two-byte character
    Lead,      \* its first byte
    Cont,      \* its second byte
    Bad,       \* U+FFFD, what toString('utf8') yields for a broken sequence
    Bodies,    \* fixture bodies: sequences of fragments
    Streams,   \* response bodies: sequences of chunks
    Limit,     \* ticks until the 10 s timer fires
    MaxGap     \* most ticks between two chunks

Chars == Ascii \cup {Wide, Bad}
Bytes == Ascii \cup {Lead, Cont}

\* UTF-8 encoding of a text.
Encode(t) == FlattenSeq([i \in 1..Len(t) |-> IF t[i] = Wide THEN <<Lead, Cont>> ELSE <<t[i]>>])

\* Mutant of Decode: the chunk's bytes are taken as its characters.
DecodeBytes(b) == b

\* Buffer.prototype.toString('utf8'): a complete two-byte sequence is one
\* character; a lone lead or continuation byte becomes U+FFFD.
RECURSIVE Decode(_)
Decode(b) ==
    IF b = <<>> THEN <<>>
    ELSE IF Len(b) >= 2 /\ b[1] = Lead /\ b[2] = Cont THEN <<Wide>> \o Decode(Tail(Tail(b)))
    ELSE IF b[1] \in Ascii THEN <<b[1]>> \o Decode(Tail(b))
    ELSE <<Bad>> \o Decode(Tail(b))

\* String.prototype.includes and String.prototype.endsWith.
Includes(f, c) == c \in SubSeqs(f)
EndsWith(f, c) == IsSuffix(c, f)

VARIABLES
    body,         \* configResponse.body
    chunks,       \* the response body, as the server sends it
    pos,          \* chunks read so far
    chunkNumber,  \* the cursor into body (0-based, as in the code)
    elapsed,      \* ticks since the timer was set
    since,        \* ticks since the last chunk
    chunkString,  \* the text of the last chunk read
    verdict       \* "streaming", then "match" or how the comparison ended

cvars == <<body, chunks, pos, chunkNumber, elapsed, since, chunkString, verdict>>

Verdicts == {"streaming", "match", "mismatch", "typeError", "incomplete", "timeout"}

CTypeOK ==
    /\ body \in Seq(Seq(Chars)) /\ chunks \in Seq(Seq(Bytes))
    /\ pos \in 0..Len(chunks)
    /\ chunkNumber \in 0..Len(body)
    /\ elapsed \in 0..Limit /\ since \in 0..MaxGap
    /\ chunkString \in Seq(Chars)
    /\ verdict \in Verdicts

CInit ==
    /\ body \in Bodies /\ chunks \in Streams
    /\ pos = 0 /\ chunkNumber = 0
    /\ elapsed = 0 /\ since = 0
    /\ chunkString = <<>>
    /\ verdict = "streaming"

\* Time passes while the loop awaits the next chunk; the timer set before
\* the loop bounds it.
Tick ==
    /\ verdict = "streaming"
    /\ elapsed < Limit /\ since < MaxGap
    /\ elapsed' = elapsed + 1 /\ since' = since + 1
    /\ UNCHANGED <<body, chunks, pos, chunkNumber, chunkString, verdict>>

\* Mutant of ReadChunk: every contained chunk moves the cursor on.
ReadChunkAlwaysAdvance ==
    LET text == Decode(chunks[pos + 1]) IN
    /\ verdict = "streaming" /\ pos < Len(chunks)
    /\ elapsed < Limit /\ since >= 1
    /\ pos' = pos + 1 /\ since' = 0
    /\ chunkString' = text
    /\ IF chunkNumber >= Len(body)
       THEN verdict' = "typeError" /\ UNCHANGED chunkNumber
       ELSE IF Includes(body[chunkNumber + 1], text)
            THEN chunkNumber' = chunkNumber + 1 /\ UNCHANGED verdict
            ELSE verdict' = "mismatch" /\ UNCHANGED chunkNumber
    /\ UNCHANGED <<body, chunks, elapsed>>

\* One iteration of the for-await loop.  Past the last fragment,
\* body[chunkNumber] is undefined and `.includes` throws a TypeError.
ReadChunk ==
    LET text == Decode(chunks[pos + 1]) IN
    /\ verdict = "streaming" /\ pos < Len(chunks)
    /\ elapsed < Limit /\ since >= 1
    /\ pos' = pos + 1 /\ since' = 0
    /\ chunkString' = text
    /\ IF chunkNumber >= Len(body)
       THEN verdict' = "typeError" /\ UNCHANGED chunkNumber
       ELSE IF Includes(body[chunkNumber + 1], text)
            THEN /\ chunkNumber' = IF EndsWith(body[chunkNumber + 1], text)
                                   THEN chunkNumber + 1 ELSE chunkNumber
                 /\ UNCHANGED verdict
            ELSE verdict' = "mismatch" /\ UNCHANGED chunkNumber
    /\ UNCHANGED <<body, chunks, elapsed>>

\* Mutant of EndOfStream: the final count check is dropped.
EndOfStreamNoCount ==
    /\ verdict = "streaming" /\ pos = Len(chunks)
    /\ elapsed < Limit /\ since >= 1
    /\ verdict' = "match"
    /\ UNCHANGED <<body, chunks, pos, chunkNumber, elapsed, since, chunkString>>

\* The stream ends: clearTimeout, then the cursor must have reached the
\* number of fragments.
EndOfStream ==
    /\ verdict = "streaming" /\ pos = Len(chunks)
    /\ elapsed < Limit /\ since >= 1
    /\ verdict' = IF chunkNumber = Len(body) THEN "match" ELSE "incomplete"
    /\ UNCHANGED <<body, chunks, pos, chunkNumber, elapsed, since, chunkString>>

\* The timer, set once before the loop, fires while it still runs.
TimerFires ==
    /\ verdict = "streaming" /\ elapsed = Limit
    /\ verdict' = "timeout"
    /\ UNCHANGED <<body, chunks, pos, chunkNumber, elapsed, since, chunkString>>

\* The comparison is over.
Compared == verdict # "streaming" /\ UNCHANGED cvars

CNext == Tick \/ ReadChunk \/ EndOfStream \/ TimerFires \/ Compared

CSpec == CInit /\ [][CNext]_cvars

-----------------------------------------------------------------------------
(* Reference definitions. *)

\* The chunk-sequence algorithm exactly as spec 4.2 states it, over the
\* decoded text of every chunk: "match", "incomplete", or "mismatch" for a
\* chunk that is not a substring of fragment[i] (there is no fragment[i]
\* once i has reached the fragment count).
RECURSIVE SpecVerdict(_, _, _)
SpecVerdict(frags, cs, i) ==
    IF cs = <<>> THEN IF i = Len(frags) THEN "match" ELSE "incomplete"
    ELSE LET text == Decode(Head(cs)) IN
         IF i < Len(frags) /\ Includes(frags[i + 1], text)
         THEN SpecVerdict(frags, Tail(cs), IF EndsWith(frags[i + 1], text) THEN i + 1 ELSE i)
         ELSE "mismatch"

\* What a chunk-sequence fixture is for (spec 4.2): the response streams
\* each fragment as one or more whole chunks, in order.
RECURSIVE Aligned(_, _)
Aligned(frags, cs) ==
    IF frags = <<>> THEN cs = <<>>
    ELSE \E k \in 1..Len(cs) :
            /\ FlattenSeq(SubSeq(cs, 1, k)) = Encode(Head(frags))
            /\ Aligned(Tail(frags), SubSeq(cs, k + 1, Len(cs)))

Over == verdict \notin {"streaming", "timeout"}

\* The stepwise loop of compareDownstreamResponse, with the undefined
\* fragment's TypeError, reaches the verdict of spec 4.2's algorithm on the
\* chunks it read: it passes exactly when the algorithm matches, and
\* reports an incomplete stream exactly when the algorithm does.
VerdictFollowsSpec ==
    Over =>
        LET ref == SpecVerdict(body, SubSeq(chunks, 1, pos), 0) IN
        /\ verdict = "match" <=> ref = "match"
        /\ verdict = "incomplete" <=> ref = "incomplete"

\* A response that streams each fragment as whole chunks passes the
\* comparison, unless the timer ends it.
AlignedStreamMatches ==
    Over /\ Aligned(body, chunks) => verdict = "match"

\* Spec 4.2: ChunkTimeout bounds the time to the next chunk, so a stream
\* whose chunks keep coming within the bound is never cut off by it.
TimeoutOnlyOnStall ==
    verdict = "timeout" => since >= Limit

=============================================================================
