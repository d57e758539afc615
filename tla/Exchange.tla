------------------------------ MODULE Exchange ------------------------------
(***************************************************************************)
(* What the capture of one connection promises to the program that made    *)
(* the request: the exchange ends as a batch handed to the WARC writers or *)
(* it is dropped, never both; the feedback channel, if the program gave    *)
(* one, is answered once, with a value when the batch is in a file and by  *)
(* closing it without a value when the exchange was dropped.               *)
(* Capture implements this module.                                         *)
(***************************************************************************)
VARIABLES outcome,   \* "running", "offered", "stored" or "dropped"
          listening, \* the program gave a feedback channel
          signal     \* what happened on that channel, in order

vars == <<outcome, listening, signal>>

Init == outcome = "running" /\ listening \in BOOLEAN /\ signal = <<>>

Offer == outcome = "running" /\ outcome' = "offered" /\ UNCHANGED <<listening, signal>>

Store == outcome = "offered" /\ outcome' = "stored" /\ UNCHANGED <<listening, signal>>

\* Once: the channel is not closed again, and nothing is sent after that.
Signal == /\ outcome = "stored" /\ listening /\ signal = <<>>
          /\ signal' = <<"value", "closed">>
          /\ UNCHANGED <<outcome, listening>>

Drop == /\ outcome = "running"
        /\ outcome' = "dropped"
        /\ signal' = IF listening THEN <<"closed">> ELSE <<>>
        /\ UNCHANGED listening

Next == Offer \/ Store \/ Signal \/ Drop

Spec == Init /\ [][Next]_vars
=============================================================================
