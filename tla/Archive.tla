------------------------------ MODULE Archive ------------------------------
(***************************************************************************)
(* What the WARC writing side of gowarc promises to the code that hands it *)
(* record batches (README.md: "Will block until records are actually       *)
(* written", "WARCs are ALWAYS written by pair in the same file"): a batch *)
(* that was accepted is stored at most once, whole, and it is acknowledged *)
(* only after it has been stored.  Files, writers, names, sizes and the    *)
(* channel are the business of Rotator, which implements this module.      *)
(***************************************************************************)
CONSTANT Batches

VARIABLES accepted,   \* batches a producer managed to send on the channel
          stored,     \* batches all of whose records are in one file
          acked       \* batches whose producer received the feedback

vars == <<accepted, stored, acked>>

Init == accepted = {} /\ stored = {} /\ acked = {}

Accept(b) ==
    /\ b \notin accepted
    /\ accepted' = accepted \union {b}
    /\ UNCHANGED <<stored, acked>>

\* The last record of the batch reaches the file: the batch is stored in
\* one step and for good.
Store(b) ==
    /\ b \in accepted \ stored
    /\ stored' = stored \union {b}
    /\ UNCHANGED <<accepted, acked>>

Ack(b) ==
    /\ b \in stored \ acked
    /\ acked' = acked \union {b}
    /\ UNCHANGED <<accepted, stored>>

Next == \E b \in Batches : Accept(b) \/ Store(b) \/ Ack(b)

Spec == Init /\ [][Next]_vars
=============================================================================
