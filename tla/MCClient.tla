------------------------------ MODULE MCClient ------------------------------
(* Instances of Client for TLC. *)
EXTENDS Client

CONSTANTS q1, q2, w1, w2

Plain == [requests |-> {q1}, lookups |-> FALSE, feedback |-> TRUE, redirects |-> FALSE,
          abandons |-> FALSE, cancels |-> FALSE, spoolFails |-> FALSE, dedupe |-> FALSE,
          randomIP |-> FALSE, newFails |-> FALSE]

\* Two requests that share the table; one that is redirected; one that is
\* given up; lookups; a client with a watcher; a constructor that fails.
MCSettings ==
    {[Plain EXCEPT !.requests = {q1, q2}, !.dedupe = TRUE, !.cancels = c, !.spoolFails = ~c] :
        c \in BOOLEAN}
    \union {[Plain EXCEPT !.redirects = TRUE, !.dedupe = TRUE, !.feedback = f, !.cancels = c] :
        f \in BOOLEAN, c \in BOOLEAN}
    \union {[Plain EXCEPT !.lookups = TRUE, !.abandons = a, !.randomIP = ~a] : a \in BOOLEAN}
    \union {[Plain EXCEPT !.randomIP = TRUE, !.newFails = TRUE]}
=============================================================================
