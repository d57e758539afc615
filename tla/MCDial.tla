------------------------------- MODULE MCDial -------------------------------
(* Instances of Dial for TLC: a request with one redirect at most. *)
EXTENDS Dial
=============================================================================
