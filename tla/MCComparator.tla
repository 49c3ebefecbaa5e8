---------------------------- MODULE MCComparator ----------------------------
(* Instantiates Comparator for TLC over the characters "a" and "é" (two   *)
(* bytes, c3 a9).                                                          *)
EXTENDS Comparator

\* Fragments of one or two characters.
Frags(cs) == SeqOf(cs, 2) \ {<<>>}

\* Chunks of one or two bytes.
ChunksOf(bs) == SeqOf(bs, 2) \ {<<>>}

\* Fixtures of up to two fragments (an empty array is truthy in the code
\* and takes the chunk branch too).
MCBodiesWide == SeqOf(Frags({"a", "e"}), 2)
MCStreamsWide == SeqOf(ChunksOf({"a", "c3", "a9"}), 3)

\* A single fragment "é", and streams of it and its bytes.
MCBodiesOneWide == {<<<<"e">>>>}
MCStreamsOneWide == SeqOf(ChunksOf({"c3", "a9"}), 2)
=============================================================================
