------------------------------ MODULE Playout -------------------------------
(***************************************************************************)
(* What a ring of samples promises to the ear: a queue of bounded length.  *)
(* Samples are numbered in the order in which they are produced; they are  *)
(* put in runs of any length and taken in chunks, and what is taken is     *)
(* what was put, in that order, once.                                      *)
(*                                                                         *)
(* Audio implements it.                                                    *)
(***************************************************************************)
EXTENDS Integers, Sequences

CONSTANTS Capacity, Chunk

VARIABLES
    queue,   \* the samples in the ring
    put,     \* the number of the last sample that was put
    out      \* the chunk that was taken last

vars == <<queue, put, out>>

Init ==
    /\ queue = <<>>
    /\ put = 0
    /\ out = <<>>

Put(n) ==
    /\ Len(queue) + n <= Capacity
    /\ queue' = queue \o [i \in 1 .. n |-> put + i]
    /\ put' = put + n
    /\ UNCHANGED out

Take ==
    /\ Len(queue) >= Chunk
    /\ out' = SubSeq(queue, 1, Chunk)
    /\ queue' = SubSeq(queue, Chunk + 1, Len(queue))
    /\ UNCHANGED put

Next == Take \/ \E n \in 1 .. Capacity : Put(n)

Spec == Init /\ [][Next]_vars
=============================================================================
