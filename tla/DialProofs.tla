----------------------------- MODULE DialProofs -----------------------------
(***************************************************************************)
(* Proofs about Dial, for any number of redirects.                         *)
(***************************************************************************)
EXTENDS Dial, FiniteSetTheorems, TLAPS

\* The dial has a connection, or had one when it came to its end.
Held == {"handshake", "wrap", "send", "wrapped", "panic"}

Connected == {f \in Families : racer[f] = "connected"}

\* Who has an open connection: the racers that have not said so yet, and the
\* dial itself, whose connection none of them has any more.
OpenInv ==
    /\ open = Connected \cup (IF pc \in Held THEN {conn} ELSE {})
    /\ pc \in Held => conn # "none"
    /\ pc \in Held /\ conn \in Families => racer[conn] \in {"idle", "ended"}

\* The race and its timer.
RaceInv ==
    /\ pc \in {"start", "single"} => racer = Quiet
    /\ pc = "race" => timer \in {"running", "fired", "received"}
    /\ pc = "race" /\ timer \in {"running", "fired"} => racer["fallback"] = "idle"
    /\ pc = "race" /\ timer = "fired" => elapsed \/ "primary" \in reported

\* Where an error comes from.
ErrorInv ==
    /\ pc # "failed" => cause = "none"
    /\ pc = "single" => addrs # {} /\ addrs # Families
    /\ \A f \in reported : racer[f] = "ended"
    /\ pc = "failed" /\ cause \in Families =>
          addrs = {"primary"} \/ addrs = {"fallback"} \/ reported = Families

Inv == TypeOK /\ OpenInv /\ RaceInv /\ ErrorInv

LEMMA InvInit == Init => Inv
<1> SUFFICES ASSUME Init PROVE Inv
  OBVIOUS
<1>1. TypeOK
  <2>1. racer \in [Families -> {"idle", "dialing", "connected", "failed", "ended"}]
    BY DEF Init, Quiet
  <2>2. hop \in 1..Hops
    BY DialAssumption DEF Init
  <2>3. connChan \in {"none", "fresh", "used"}
    BY DialAssumption DEF Init
  <2> QED
    BY <2>1, <2>2, <2>3 DEF Init, TypeOK
<1>2. OpenInv
  BY DEF Init, OpenInv, Connected, Held, Quiet
<1>3. RaceInv
  BY DEF Init, RaceInv
<1>4. ErrorInv
  BY DEF Init, ErrorInv, Families
<1> QED
  BY <1>1, <1>2, <1>3, <1>4 DEF Inv

LEMMA TypeStep == ASSUME TypeOK, Next PROVE TypeOK'
<1> USE DEF TypeOK, scenario, race, Families
<1>1. CASE DialProxy
  BY <1>1 DEF DialProxy, Got, Fail
<1>2. CASE Lookup
  BY <1>2 DEF Lookup, StartRace, Fail
<1>3. CASE DialSingle
  BY <1>3 DEF DialSingle, Got, Fail
<1>4. CASE StartFallback
  BY <1>4 DEF StartFallback
<1>5. CASE Handshake
  <2>1. UNCHANGED <<viaProxy, scheme, hop, addrs, racer, reported, timer, elapsed, conn, connChan>>
    BY <1>5 DEF Handshake, Fail
  <2>2. pc' \in {"wrap", "failed"} /\ cause' \in {cause, "tls"} /\ open' \subseteq open
    BY <1>5 DEF Handshake, Fail
  <2> QED
    BY <2>1, <2>2
<1>6. CASE wrapConnection
  BY <1>6 DEF wrapConnection
<1>12. CASE SendConnection
  BY <1>12 DEF SendConnection
<1>7. ASSUME NEW f \in Families, Receive(f) PROVE TypeOK'
  <2>1. racer' \in [Families -> {"idle", "dialing", "connected", "failed", "ended"}]
    BY <1>7 DEF Receive
  <2>2. CASE racer[f] = "connected" /\ Got(f) /\ UNCHANGED <<reported, timer>>
    BY <1>7, <2>1, <2>2 DEF Receive, Got
  <2>3. CASE AllFailed(reported') /\ Fail("primary") /\ UNCHANGED timer
    BY <1>7, <2>1, <2>3 DEF Receive, Got, Fail
  <2>4. CASE ~AllFailed(reported') /\ Hurry(f) /\ UNCHANGED <<pc, conn, cause>>
    BY <1>7, <2>1, <2>4 DEF Receive, Got, Hurry
  <2> QED
    BY <1>7, <2>2, <2>3, <2>4 DEF Receive
<1>8. CASE TimerExpires
  BY <1>8 DEF TimerExpires
<1>9. CASE Redirect
  <2>1. hop' \in 1..Hops
    BY <1>9, DialAssumption DEF Redirect
  <2>2. racer' \in [Families -> {"idle", "dialing", "connected", "failed", "ended"}]
    BY <1>9 DEF Redirect, Quiet
  <2> QED
    BY <1>9, <2>1, <2>2 DEF Redirect
<1>10. ASSUME NEW f \in Families, RacerDials(f) PROVE TypeOK'
  <2>1. racer' \in [Families -> {"idle", "dialing", "connected", "failed", "ended"}]
    BY <1>10 DEF RacerDials
  <2>2. open' \subseteq Families \cup {"proxy"}
    BY <1>10 DEF RacerDials
  <2> QED
    BY <1>10, <2>1, <2>2 DEF RacerDials
<1>11. ASSUME NEW f \in Families, RacerIsLate(f) PROVE TypeOK'
  BY <1>11 DEF RacerIsLate, LateClose
<1> QED
  BY <1>1, <1>2, <1>3, <1>4, <1>5, <1>6, <1>7, <1>8, <1>9, <1>10, <1>11, <1>12 DEF Next, Main

LEMMA OpenStep == ASSUME Inv, Next PROVE OpenInv'
<1> USE DEF Inv, TypeOK, OpenInv, Connected, Held, scenario, race, Families
<1>1. CASE DialProxy
  BY <1>1 DEF DialProxy, Got, Fail
<1>2. CASE Lookup
  BY <1>2 DEF Lookup, StartRace, Fail, RaceInv, Quiet
<1>3. CASE DialSingle
  BY <1>3 DEF DialSingle, Got, Fail, RaceInv, Quiet
<1>4. CASE StartFallback
  BY <1>4 DEF StartFallback, RaceInv
<1>5. CASE Handshake
  BY <1>5 DEF Handshake, Fail
<1>6. CASE wrapConnection
  BY <1>6 DEF wrapConnection
<1>12. CASE SendConnection
  BY <1>12 DEF SendConnection
<1>7. ASSUME NEW f \in Families, Receive(f) PROVE OpenInv'
  BY <1>7 DEF Receive, Got, Fail
<1>8. CASE TimerExpires
  BY <1>8 DEF TimerExpires
<1>9. CASE Redirect
  BY <1>9 DEF Redirect, Quiet
<1>10. ASSUME NEW f \in Families, RacerDials(f) PROVE OpenInv'
  BY <1>10 DEF RacerDials
<1>11. ASSUME NEW f \in Families, RacerIsLate(f) PROVE OpenInv'
  BY <1>11 DEF RacerIsLate, LateClose
<1> QED
  BY <1>1, <1>2, <1>3, <1>4, <1>5, <1>6, <1>7, <1>8, <1>9, <1>10, <1>11, <1>12 DEF Next, Main

LEMMA RaceStep == ASSUME Inv, Next PROVE RaceInv'
<1> USE DEF Inv, TypeOK, RaceInv, scenario, race, Families
<1>1. CASE DialProxy
  BY <1>1 DEF DialProxy, Got, Fail
<1>2. CASE Lookup
  BY <1>2 DEF Lookup, StartRace, Fail, Quiet
<1>3. CASE DialSingle
  BY <1>3 DEF DialSingle, Got, Fail
<1>4. CASE StartFallback
  BY <1>4 DEF StartFallback
<1>5. CASE Handshake
  BY <1>5 DEF Handshake, Fail
<1>6. CASE wrapConnection
  BY <1>6 DEF wrapConnection
<1>12. CASE SendConnection
  BY <1>12 DEF SendConnection
<1>7. ASSUME NEW f \in Families, Receive(f) PROVE RaceInv'
  BY <1>7 DEF Receive, Got, Fail, Hurry, AllFailed
<1>8. CASE TimerExpires
  BY <1>8 DEF TimerExpires
<1>9. CASE Redirect
  BY <1>9 DEF Redirect
<1>10. ASSUME NEW f \in Families, RacerDials(f) PROVE RaceInv'
  BY <1>10 DEF RacerDials, Quiet
<1>11. ASSUME NEW f \in Families, RacerIsLate(f) PROVE RaceInv'
  BY <1>11 DEF RacerIsLate, Quiet
<1> QED
  BY <1>1, <1>2, <1>3, <1>4, <1>5, <1>6, <1>7, <1>8, <1>9, <1>10, <1>11, <1>12 DEF Next, Main

LEMMA ErrorStep == ASSUME Inv, Next PROVE ErrorInv'
<1> USE DEF Inv, TypeOK, ErrorInv, scenario, race, Families
<1>1. CASE DialProxy
  BY <1>1 DEF DialProxy, Got, Fail
<1>2. CASE Lookup
  BY <1>2 DEF Lookup, StartRace, Fail, RaceInv, Quiet
<1>3. CASE DialSingle
  BY <1>3 DEF DialSingle, Got, Fail
<1>4. CASE StartFallback
  BY <1>4 DEF StartFallback, RaceInv
<1>5. CASE Handshake
  BY <1>5 DEF Handshake, Fail
<1>6. CASE wrapConnection
  BY <1>6 DEF wrapConnection
<1>12. CASE SendConnection
  BY <1>12 DEF SendConnection
<1>7. ASSUME NEW f \in Families, Receive(f) PROVE ErrorInv'
  BY <1>7 DEF Receive, Got, Fail, AllFailed
<1>8. CASE TimerExpires
  BY <1>8 DEF TimerExpires
<1>9. CASE Redirect
  BY <1>9 DEF Redirect
<1>10. ASSUME NEW f \in Families, RacerDials(f) PROVE ErrorInv'
  BY <1>10 DEF RacerDials
<1>11. ASSUME NEW f \in Families, RacerIsLate(f) PROVE ErrorInv'
  BY <1>11 DEF RacerIsLate
<1> QED
  BY <1>1, <1>2, <1>3, <1>4, <1>5, <1>6, <1>7, <1>8, <1>9, <1>10, <1>11, <1>12 DEF Next, Main

LEMMA InvStutter == ASSUME Inv, UNCHANGED vars PROVE Inv'
  BY DEF Inv, TypeOK, OpenInv, RaceInv, ErrorInv, Connected, vars, scenario, race

\* The four parts hold together through every step.
THEOREM DialInvariant == Spec => []Inv
<1>1. ASSUME Inv, [Next]_vars PROVE Inv'
  <2>1. CASE Next
    BY <1>1, <2>1, TypeStep, OpenStep, RaceStep, ErrorStep DEF Inv
  <2>2. CASE UNCHANGED vars
    BY <1>1, <2>2, InvStutter
  <2> QED
    BY <1>1, <2>1, <2>2
<1> QED
  BY <1>1, InvInit, PTL DEF Spec

\* However often a request is redirected and whoever wins, fails or comes too
\* late: when a dial is over, only the connection that was wrapped is open.
THEOREM NothingLeaksHolds == Spec => []NothingLeaks
<1>1. Inv => NothingLeaks
  BY DEF Inv, OpenInv, NothingLeaks, Settled, RacersEnded, Connected, Held
<1> QED
  BY <1>1, DialInvariant, PTL

LEMMA OneAddress == \A f \in Families : Cardinality({f}) = 1
  BY FS_Singleton

\* An error of dialling is returned only after all addresses were tried.
THEOREM ErrorMeansAllFailedHolds == Spec => []ErrorMeansAllFailed
<1>1. Inv => ErrorMeansAllFailed
  <2> SUFFICES ASSUME Inv, pc = "failed", cause \in Families
               PROVE  Cardinality(addrs) = 1 \/ (reported = Families /\ open = {})
    BY DEF ErrorMeansAllFailed
  <2>1. CASE addrs = {"primary"} \/ addrs = {"fallback"}
    BY <2>1, OneAddress DEF Families
  <2>2. CASE reported = Families
    BY <2>2 DEF Inv, OpenInv, ErrorInv, Connected, Held
  <2> QED
    BY <2>1, <2>2 DEF Inv, ErrorInv
<1> QED
  BY <1>1, DialInvariant, PTL

\* The fallback starts by the timer alone, and that fires when the delay is
\* over or the primary has been heard to fail.
THEOREM PrimaryHasHeadStartHolds == Spec => PrimaryHasHeadStart
<1> DEFINE Starts == racer["fallback"] = "idle" /\ racer'["fallback"] = "dialing"
           Had    == elapsed \/ "primary" \in reported
<1>1. ASSUME Inv, Next, Starts PROVE Had
  <2> USE <1>1 DEF Inv, TypeOK, scenario, race, Families
  <2>1. CASE StartFallback
    BY <2>1 DEF StartFallback, RaceInv
  <2>2. CASE Lookup
    BY <2>2 DEF Lookup, StartRace
  <2>3. CASE DialProxy \/ DialSingle \/ Handshake \/ wrapConnection \/ SendConnection \/ TimerExpires
    BY <2>3 DEF DialProxy, DialSingle, Handshake, wrapConnection, SendConnection, TimerExpires
  <2>4. CASE Redirect
    BY <2>4 DEF Redirect, Quiet
  <2>5. ASSUME NEW f \in Families, Receive(f) PROVE Had
    BY <2>5 DEF Receive
  <2>6. ASSUME NEW f \in Families, RacerDials(f) \/ RacerIsLate(f) PROVE Had
    BY <2>6 DEF RacerDials, RacerIsLate
  <2> QED
    BY <2>1, <2>2, <2>3, <2>4, <2>5, <2>6 DEF Next, Main
<1>2. ASSUME Inv, [Next]_vars PROVE [Starts => Had]_vars
  BY <1>1, <1>2
<1> QED
  BY <1>2, DialInvariant, PTL DEF Spec, PrimaryHasHeadStart
=============================================================================
