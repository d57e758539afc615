----------------------------- MODULE MCCapture -----------------------------
(* Instances of Capture for TLC: a request of one chunk, and one of two. *)
EXTENDS Capture
=============================================================================
