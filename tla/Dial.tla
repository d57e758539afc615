------------------------------- MODULE Dial -------------------------------
(***************************************************************************)
(* How the transport of the client gets a connection (dialer.go):          *)
(* CustomDialContext and CustomDialTLSContext resolve the host, race an    *)
(* IPv6 and an IPv4 attempt (dialParallel, "Happy Eyeballs"), perform the  *)
(* TLS handshake and wrap the connection.  What happens to a wrapped       *)
(* connection is module Capture, how the host is resolved is module        *)
(* Resolve.                                                                *)
(*                                                                         *)
(* One request is followed over its redirects: every hop dials anew, with  *)
(* the one context of the request.                                         *)
(*                                                                         *)
(* A definition D_Xyz is a mistake that D could have been written with.    *)
(***************************************************************************)
EXTENDS Naturals, FiniteSets

CONSTANTS
    Hops,       \* the dials of a request: one and one for every redirect
    ConnChans   \* is there a channel from WithWrappedConnection: "none", "fresh"

ASSUME DialAssumption ==
    /\ Hops \in Nat \ {0}
    /\ ConnChans \subseteq {"none", "fresh"}

Families == {"primary", "fallback"}     \* IPv6, IPv4

VARIABLES
    viaProxy,   \* the proxy resolves the host: no DNS and no race here
    scheme,
    hop,
    pc,         \* the goroutine that dials for the transport
    addrs,      \* the families that archiveDNS found an address of
    racer,      \* the goroutines of startRacer
    reported,   \* the racers whose error was received
    timer,      \* fallbackTimer
    elapsed,    \* happyEyeballsDelay is over
    open,       \* the connections that are open, by who dialled them
    conn,       \* the connection that was chosen
    cause,      \* whose error is returned
    connChan    \* of WithWrappedConnection; "used" once it is closed

scenario == <<viaProxy, scheme>>
race     == <<racer, reported, timer, elapsed>>
vars     == <<scenario, hop, pc, addrs, race, open, conn, cause, connChan>>

TypeOK ==
    /\ viaProxy \in BOOLEAN /\ scheme \in {"http", "https"}
    /\ hop \in 1..Hops
    /\ pc \in {"start", "single", "race", "handshake", "wrap", "send", "wrapped", "failed", "panic"}
    /\ addrs \subseteq Families
    /\ racer \in [Families -> {"idle", "dialing", "connected", "failed", "ended"}]
    /\ reported \subseteq Families
    /\ timer \in {"off", "running", "fired", "received"}
    /\ elapsed \in BOOLEAN
    /\ open \subseteq Families \cup {"proxy"}
    /\ conn \in Families \cup {"proxy", "none"}
    /\ cause \in Families \cup {"proxy", "none", "dns", "tls"}
    /\ connChan \in {"none", "fresh", "used"}

Quiet == [f \in Families |-> "idle"]

Init ==
    /\ viaProxy \in BOOLEAN /\ scheme \in {"http", "https"}
    /\ hop = 1 /\ pc = "start" /\ addrs = {}
    /\ racer = Quiet /\ reported = {} /\ timer = "off" /\ elapsed = FALSE
    /\ open = {} /\ conn = "none" /\ cause = "none"
    /\ connChan \in ConnChans
-----------------------------------------------------------------------------
Got(c) ==
    /\ conn' = c
    /\ pc' = IF scheme = "https" THEN "handshake" ELSE "wrap"
    /\ UNCHANGED cause

Fail(why) ==
    /\ pc' = "failed" /\ cause' = why
    /\ UNCHANGED conn

\* A proxy that needs the host name: one dial, nothing is resolved.
DialProxy ==
    /\ pc = "start" /\ viaProxy
    /\ \/ open' = open \cup {"proxy"} /\ Got("proxy")
       \/ open' = open /\ Fail("proxy")
    /\ UNCHANGED <<scenario, hop, addrs, race, connChan>>

StartRace_Together ==
    /\ racer' = [f \in Families |-> "dialing"]
    /\ timer' = "running"

StartRace ==
    /\ racer' = [racer EXCEPT !["primary"] = "dialing"]
    /\ timer' = "running"

\* archiveDNS fails or returns an address of at least one family.
Lookup ==
    /\ pc = "start" /\ ~viaProxy
    /\ \/ Fail("dns") /\ UNCHANGED <<addrs, racer, timer>>
       \/ /\ \E a \in (SUBSET Families) \ {{}} : addrs' = a
          /\ IF addrs' = Families
             THEN pc' = "race" /\ StartRace
             ELSE pc' = "single" /\ UNCHANGED <<racer, timer>>
          /\ UNCHANGED <<conn, cause>>
    /\ UNCHANGED <<scenario, hop, reported, elapsed, open, connChan>>

\* dialParallel with one address.
DialSingle ==
    /\ pc = "single"
    /\ \E f \in addrs :
          \/ open' = open \cup {f} /\ Got(f)
          \/ open' = open /\ Fail(f)
    /\ UNCHANGED <<scenario, hop, addrs, race, connChan>>

\* A racer's dialSingle returns; with its context cancelled too, and then
\* with a connection or without.
RacerDials(f) ==
    /\ racer[f] = "dialing"
    /\ \/ racer' = [racer EXCEPT ![f] = "connected"] /\ open' = open \cup {f}
       \/ racer' = [racer EXCEPT ![f] = "failed"] /\ open' = open
    /\ UNCHANGED <<scenario, hop, pc, addrs, reported, timer, elapsed, conn, cause, connChan>>

TimerExpires ==
    /\ pc = "race" /\ timer = "running"
    /\ timer' = "fired" /\ elapsed' = TRUE
    /\ UNCHANGED <<scenario, hop, pc, addrs, racer, reported, open, conn, cause, connChan>>

StartFallback ==
    /\ pc = "race" /\ timer = "fired"
    /\ timer' = "received"
    /\ racer' = [racer EXCEPT !["fallback"] = "dialing"]
    /\ UNCHANGED <<scenario, hop, pc, addrs, reported, elapsed, open, conn, cause, connChan>>

Hurry_NoReset(f) ==
    timer' = IF f = "primary" /\ timer \in {"running", "fired"} THEN "off" ELSE timer

\* fallbackTimer.Stop() is true as long as the tick is not received, an
\* expired one included (Go 1.23 and later); Reset(0) then fires it.
Hurry(f) ==
    timer' = IF f = "primary" /\ timer \in {"running", "fired"} THEN "fired" ELSE timer

AllFailed_Primary(seen) == "primary" \in seen

\* Every address was dialled without success.
AllFailed(seen) == seen = Families

\* The result of racer f is received.
Receive(f) ==
    /\ pc = "race"
    /\ \/ racer[f] = "connected" /\ Got(f) /\ UNCHANGED <<reported, timer>>
       \/ /\ racer[f] = "failed"
          /\ reported' = reported \cup {f}
          /\ IF AllFailed(reported')
             THEN Fail("primary") /\ UNCHANGED timer
             ELSE Hurry(f) /\ UNCHANGED <<pc, conn, cause>>
    /\ racer' = [racer EXCEPT ![f] = "ended"]
    /\ UNCHANGED <<scenario, hop, addrs, elapsed, open, connChan>>

LateClose_Forgotten(f) == open

\* What a racer that comes too late leaves open.
LateClose(f) == open \ {f}

\* dialParallel has returned: the channel returned is closed.
RacerIsLate(f) ==
    /\ pc # "race" /\ racer[f] \in {"connected", "failed"}
    /\ racer' = [racer EXCEPT ![f] = "ended"]
    /\ open' = LateClose(f)
    /\ UNCHANGED <<scenario, hop, pc, addrs, reported, timer, elapsed, conn, cause, connChan>>

Handshake ==
    /\ pc = "handshake"
    /\ \/ pc' = "wrap" /\ UNCHANGED <<open, conn, cause>>
       \/ open' = open \ {conn} /\ Fail("tls")
    /\ UNCHANGED <<scenario, hop, addrs, race, connChan>>

\* wrapConnection starts the capture goroutine; if the context has a channel
\* for the connection, it goes on to send it there.
wrapConnection ==
    /\ pc = "wrap"
    /\ pc' = IF connChan = "none" THEN "wrapped" ELSE "send"
    /\ UNCHANGED <<scenario, hop, addrs, race, open, conn, cause, connChan>>

\* The send waits until a receiver takes the connection, or the buffer of the
\* channel has room for it, and the channel is closed; a send on a closed
\* channel panics.  The receiver is the user's: nothing says that it comes.
SendConnection ==
    /\ pc = "send"
    /\ \/ connChan = "fresh" /\ pc' = "wrapped" /\ connChan' = "used"
       \/ connChan = "used" /\ pc' = "panic" /\ UNCHANGED connChan
    /\ UNCHANGED <<scenario, hop, addrs, race, open, conn, cause>>

\* The answer was a redirect and the client follows it.  The racers of the
\* last hop share nothing with the next one: it starts when they are done,
\* and the connection of the last hop, now of its capture, is left out.
Redirect ==
    /\ pc = "wrapped" /\ hop < Hops
    /\ \A f \in Families : racer[f] \in {"idle", "ended"}
    /\ hop' = hop + 1 /\ pc' = "start" /\ addrs' = {}
    /\ racer' = Quiet /\ reported' = {} /\ timer' = "off" /\ elapsed' = FALSE
    /\ open' = {} /\ conn' = "none" /\ scheme' \in {"http", "https"}
    /\ UNCHANGED <<viaProxy, cause, connChan>>
-----------------------------------------------------------------------------
Main == \/ DialProxy \/ Lookup \/ DialSingle \/ StartFallback \/ Handshake
        \/ wrapConnection \/ \E f \in Families : Receive(f)

Next == \/ Main \/ SendConnection \/ TimerExpires \/ Redirect
        \/ \E f \in Families : RacerDials(f) \/ RacerIsLate(f)

\* A dial ends: its dialer has a time limit, or the kernel has.  A timer
\* expires, and goroutines that can run do.  Nothing is assumed of whoever is
\* to receive from the channel of WithWrappedConnection.
Fairness == /\ WF_vars(Main) /\ WF_vars(TimerExpires)
            /\ \A f \in Families : WF_vars(RacerDials(f)) /\ WF_vars(RacerIsLate(f))

Spec     == Init /\ [][Next]_vars
FairSpec == Spec /\ Fairness
-----------------------------------------------------------------------------
RacersEnded == \A f \in Families : racer[f] \in {"idle", "ended"}

Settled == pc \in {"wrapped", "failed"} /\ RacersEnded

(* When a dial is over and its racers have ended, nothing is open but the
   connection that was wrapped: the loser of the race (dialer.go:104, "and
   closes the other") and a connection whose handshake failed are closed. *)
NothingLeaks == Settled => open = (IF pc = "wrapped" THEN {conn} ELSE {})

(* An error of dialling is returned only when every address was dialled in
   vain: while one attempt may still succeed the dial does not fail. *)
ErrorMeansAllFailed ==
    pc = "failed" /\ cause \in Families =>
        \/ Cardinality(addrs) = 1
        \/ /\ reported = Families
           /\ open = {}

(* dialer.go:103, "giving the primary (IPv6) a head start": the fallback is
   dialled only after the delay, or after the primary has failed. *)
PrimaryHasHeadStart ==
    [][racer["fallback"] = "idle" /\ racer'["fallback"] = "dialing"
         => elapsed \/ "primary" \in reported]_vars

(* Every dial comes to its end, or as far as a receiver of its channel from
   WithWrappedConnection lets it come (dialer.go:344), and no racer is left
   waiting to report. *)
DialEnds ==
    [](pc = "start" => <>(pc \in {"wrapped", "failed", "send", "panic"} /\ RacersEnded))

(* dialer.go:59-60: WithWrappedConnection gives access to the connection of a
   request.  It must not end the program when the request is redirected. *)
NoPanic == pc # "panic"
=============================================================================
