----------------------------- MODULE MCRotator -----------------------------
(* Small instances of Rotator for TLC. *)
EXTENDS RotatorInv

CONSTANTS w1, w2, r1, b1, b2, b3

\* One pool of two writers.
OneRotator == [w \in Writers |-> r1]

\* A captured exchange that waits for the feedback, one that does not, and a
\* single record whose producer waits on an unbuffered channel.
MCBatchLen     == [b \in Batches |-> IF b = b3 THEN 1 ELSE 2]
MCFeedbackKind == [b \in Batches |-> IF b = b1 THEN "buffered"
                                     ELSE IF b = b2 THEN "nil" ELSE "unbuffered"]

\* A file that bears the very name the first writer is going to generate,
\* left unfinished by a process that has just died, and finished files.
MCOldOpen == {[stamp |-> 1, serial |-> 1]}
MCOldDone == {[stamp |-> 0, serial |-> 1]}
NoneLeft == {}
=============================================================================
