---------------------------- MODULE DocumentText ----------------------------
(***************************************************************************)
(* What a document is to its client: the chunks it has sent, in order.     *)
(* Appending adds at the end, truncating takes away what lies beyond the   *)
(* given position or time, clearing takes everything.  Summaries, jobs,    *)
(* failures and restarts are not visible here.                             *)
(***************************************************************************)
EXTENDS Integers, Sequences, FiniteSetsExt

CONSTANTS
    Lens,      \* the lengths a chunk can have
    MaxBatch,  \* chunks in one append
    Stamps     \* the times a chunk can carry

VARIABLE text  \* a sequence of [len, time]

TextInit == text = <<>>

Chunk == [len: Lens, time: Stamps]

\* Where the chunks end, in characters: the k-th at EndPositions(chunks)[k].
EndPositions(chunks) ==
    LET ends[k \in 0 .. Len(chunks)] == IF k = 0 THEN 0 ELSE ends[k - 1] + chunks[k].len
    IN  ends

EndPosition(chunks) == EndPositions(chunks)[Len(chunks)]

\* The chunks at some of the places, one after the other.
Picked(chunks, places) ==
    [i \in 1 .. Cardinality(places) |->
        chunks[CHOOSE k \in places : Cardinality({j \in places : j <= k}) = i]]

\* One append carries one time for all its chunks.
SendChunks(chunks) ==
    /\ Len(chunks) > 0
    /\ \A i \in DOMAIN chunks : chunks[i].time = chunks[1].time
    /\ text' = text \o chunks

\* The longest prefix that ends at or before cut.
KeepUpTo(cut) ==
    text' = SubSeq(text, 1, Max({k \in 0 .. Len(text) : EndPositions(text)[k] <= cut}))

KeepUntil(cutoff) == text' = Picked(text, {k \in DOMAIN text : text[k].time <= cutoff})

TextNext ==
    \/ \E k \in 1 .. MaxBatch : \E chunks \in [1 .. k -> Chunk] : SendChunks(chunks)
    \/ \E cut \in 0 .. EndPosition(text) : KeepUpTo(cut)
    \/ \E cutoff \in Stamps : KeepUntil(cutoff)
    \/ text' = <<>>

TextSpec == TextInit /\ [][TextNext]_text
=============================================================================
