--------------------------- MODULE ResolveProofs ---------------------------
(***************************************************************************)
(* Proofs about Resolve, for any numbers of lookups, servers and workers   *)
(* and every setting.                                                      *)
(***************************************************************************)
EXTENDS ResolveInv, SequenceTheorems, FiniteSetTheorems, TLAPS

USE DEF Outcomes

WorkerStates ==
    [pc : {"off", "take", "ask", "lead", "record", "follow", "send", "ended"},
     server : Servers, type : 1..2, outcome : Outcomes]

LEMMA AtType ==
  ASSUME NEW where \in {"off", "take", "ask", "ended"}
  PROVE  /\ At(where) \in WorkerStates
         /\ At(where).pc = where /\ At(where).type = 1
<1>1. 0 \in Servers
  BY ResolveAssumption DEF Servers
<1> QED
  BY <1>1 DEF At, WorkerStates

LEMMA SettingTypes ==
  ASSUME Typed
  PROVE  /\ Types \in {<<"A">>, <<"AAAA">>, <<"A", "AAAA">>}
         /\ Len(Types) \in {1, 2} /\ DOMAIN Types = 1..Len(Types)
         /\ \A k \in DOMAIN Types : Types[k] \in {"A", "AAAA"}
         /\ \A j, k \in DOMAIN Types : Types[j] = Types[k] => j = k
         /\ setting.workers \subseteq Workers /\ setting.workers # {}
<1>1. setting \in [workers : (SUBSET Workers) \ {{}},
                   types : {<<"A">>, <<"AAAA">>, <<"A", "AAAA">>},
                   impatient : SUBSET Lookups]
  BY ResolveAssumption DEF Typed
<1>2. Types \in {<<"A">>, <<"AAAA">>, <<"A", "AAAA">>}
  BY <1>1 DEF Types
<1> QED
  BY <1>1, <1>2

LEMMA QueryType ==
  ASSUME Typed, WorkersInv, NEW lw \in Lookups \X Workers
  PROVE  /\ worker[lw].type \in DOMAIN Types
         /\ QueryOf(lw) \in Queries
<1>1. worker[lw].type \in DOMAIN Types
  BY SettingTypes DEF Typed, WorkersInv
<1> QED
  BY <1>1, SettingTypes DEF Typed, QueryOf, Queries

-----------------------------------------------------------------------------
(***************************************************************************)
(* Lookups whose own state a step leaves as it is.                         *)
(***************************************************************************)

SameWorker(lw) ==
    /\ worker'[lw].server = worker[lw].server /\ worker'[lw].type = worker[lw].type
    /\ worker'[lw].pc \in Asking <=> worker[lw].pc \in Asking
    /\ worker'[lw].pc = "ended" <=> worker[lw].pc = "ended"
    /\ worker'[lw].pc = "off" <=> worker[lw].pc = "off"

SameLookup(l) ==
    /\ setting' = setting
    /\ pc'[l] = pc[l] /\ servers'[l] = servers[l] /\ results'[l] = results[l]
    /\ found'[l] = found[l] /\ failed'[l] = failed[l]
    /\ l \in aborted => l \in aborted'
    /\ \A w \in Workers : SameWorker(<<l, w>>)

LEMMA LookupFrame ==
  ASSUME NEW l \in Lookups, SameLookup(l), LookupInv(l)
  PROVE  LookupInv(l)'
<1> USE DEF SameLookup, SameWorker
<1>1. NoneIsLost(l)'
  BY DEF LookupInv, NoneIsLost, Underway, Answers, Settled, Types
<1>2. AsksOnce(l)'
  BY DEF LookupInv, AsksOnce, Answers, Types
<1>3. EndsSettled(l)'
  BY DEF LookupInv, EndsSettled, Settled, Types
<1> QED
  BY <1>1, <1>2, <1>3 DEF LookupInv

LEMMA QuietFrame ==
  ASSUME IInv, setting' = setting, pc' = pc, servers' = servers, results' = results,
         found' = found, failed' = failed, aborted \subseteq aborted',
         \A lw \in Lookups \X Workers : SameWorker(lw)
  PROVE  WorkersInv' /\ \A l \in Lookups : LookupInv(l)'
<1>1. ASSUME NEW l \in Lookups PROVE LookupInv(l)'
  BY LookupFrame DEF IInv, SameLookup
<1>2. WorkersInv'
  BY DEF IInv, WorkersInv, SameWorker, Types
<1> QED
  BY <1>1, <1>2

LEMMA SourcesFrame ==
  ASSUME SourcesInv, setting' = setting, found' = found, cache' = cache, results' = results,
         recorded \subseteq recorded',
         \A lw \in Lookups \X Workers :
            worker'[lw].pc = "send" /\ worker'[lw].outcome = "address"
               => worker'[lw] = worker[lw] \/ IsRecorded(QueryOf(lw))'
  PROVE  SourcesInv'
<1>1. \A q : IsRecorded(q) => IsRecorded(q)'
  BY DEF IsRecorded
<1>2. \A lw \in Lookups \X Workers : worker'[lw] = worker[lw] => QueryOf(lw)' = QueryOf(lw)
  BY DEF QueryOf, Types
<1> QED
  BY <1>1, <1>2 DEF SourcesInv

-----------------------------------------------------------------------------
(***************************************************************************)
(* The order of the servers.                                               *)
(***************************************************************************)

LEMMA Turn ==
  ASSUME NEW x \in 0..(2 * NServers - 1)
  PROVE  x % NServers = IF x < NServers THEN x ELSE x - NServers
<1>1. NServers \in Nat \ {0}
  BY ResolveAssumption
<1>2. \A y \in 0..(NServers - 1) : y % NServers = y /\ (y + NServers) % NServers = y
  BY <1>1
<1>3. CASE x < NServers
  BY <1>1, <1>2, <1>3
<1>4. CASE ~(x < NServers)
  <2>1. x - NServers \in 0..(NServers - 1) /\ (x - NServers) + NServers = x
    BY <1>1, <1>4
  <2> QED
    BY <1>2, <1>4, <2>1
<1> QED
  BY <1>3, <1>4

LEMMA OrderTakesAll ==
  ASSUME Typed, NEW c \in Clients
  PROVE  /\ Order(c) \in Seq(Servers) /\ Len(Order(c)) = NServers
         /\ \A s \in Servers : \E i \in DOMAIN Order(c) : Order(c)[i] = s
         /\ \A i, j \in DOMAIN Order(c) : Order(c)[i] = Order(c)[j] => i = j
<1> DEFINE n == nextServer[c]
           P(i) == IF n + i - 1 < NServers THEN n + i - 1 ELSE n + i - 1 - NServers
<1>1. NServers \in Nat \ {0} /\ n \in 0..(NServers - 1)
  BY ResolveAssumption DEF Typed, Servers
<1> HIDE DEF n
<1>2. \A i \in 1..NServers : Order(c)[i] = P(i) /\ P(i) \in 0..(NServers - 1)
  <2> TAKE i \in 1..NServers
  <2>1. n + i - 1 \in 0..(2 * NServers - 1)
    BY <1>1
  <2>2. Order(c)[i] = (n + i - 1) % NServers
    BY DEF Order, n
  <2> QED
    BY <1>1, <2>1, <2>2, Turn
<1>3. Order(c) = [i \in 1..NServers |-> Order(c)[i]]
  BY DEF Order
<1>4. Order(c) \in Seq(Servers) /\ DOMAIN Order(c) = 1..NServers /\ Len(Order(c)) = NServers
  BY <1>1, <1>2, <1>3 DEF Servers
<1>5. ASSUME NEW s \in Servers PROVE \E i \in 1..NServers : P(i) = s
  <2>1. s \in 0..(NServers - 1)
    BY DEF Servers
  <2>2. CASE s >= n
    <3>1. s - n + 1 \in 1..NServers /\ P(s - n + 1) = s
      BY <1>1, <2>1, <2>2
    <3> QED
      BY <3>1
  <2>3. CASE s < n
    <3>1. s - n + 1 + NServers \in 1..NServers /\ P(s - n + 1 + NServers) = s
      BY <1>1, <2>1, <2>3
    <3> QED
      BY <3>1
  <2> QED
    BY <1>1, <2>1, <2>2, <2>3
<1>6. \A i, j \in 1..NServers : P(i) = P(j) => i = j
  BY <1>1
<1> HIDE DEF P
<1>7. \A s \in Servers : \E i \in 1..NServers : Order(c)[i] = s
  BY <1>2, <1>5
<1>8. \A i, j \in 1..NServers : Order(c)[i] = Order(c)[j] => i = j
  BY <1>2, <1>6
<1> QED
  BY <1>4, <1>7, <1>8

-----------------------------------------------------------------------------
(***************************************************************************)
(* The initial states.                                                     *)
(***************************************************************************)

LEMMA InvInit == Init => IInv
<1> SUFFICES ASSUME Init PROVE IInv
  OBVIOUS
<1>1. Typed
  <2>1. 0 \in Servers
    BY ResolveAssumption DEF Servers
  <2>2. setting \in Settings /\ aborted \subseteq setting.impatient
    BY DEF Init
  <2>3. servers \in [Lookups -> Seq(Servers)] /\ results \in [Lookups -> Seq(Queries \X Outcomes)]
    BY DEF Init
  <2>4. worker \in [Lookups \X Workers -> WorkerStates]
    BY AtType DEF Init
  <2>5. /\ pc \in [Lookups -> {"start", "collect", "resolved", "failed"}]
        /\ found \in [Lookups -> SUBSET Queries] /\ failed \in [Lookups -> SUBSET Queries]
        /\ cache \in [Clients -> SUBSET Queries] /\ nextServer \in [Clients -> Servers]
        /\ flight \in [Queries -> {NoFlight} \cup (Lookups \X Workers)]
        /\ recorded \subseteq Clients \X Queries
    BY <2>1 DEF Init
  <2> QED
    BY <2>2, <2>3, <2>4, <2>5 DEF Typed, WorkerStates
<1>2. WorkersInv
  BY <1>1, AtType, SettingTypes DEF Init, WorkersInv
<1>3. SourcesInv
  BY AtType DEF Init, SourcesInv
<1>4. ASSUME NEW l \in Lookups PROVE LookupInv(l)
  <2>1. servers[l] = <<>> /\ Len(<<>>) <= NServers
    BY ResolveAssumption DEF Init
  <2> QED
    BY <2>1 DEF Init, LookupInv, NoneIsLost, AsksOnce, EndsSettled
<1> QED
  BY <1>1, <1>2, <1>3, <1>4 DEF IInv

-----------------------------------------------------------------------------
(***************************************************************************)
(* Steps that move no query from one place to another.                     *)
(***************************************************************************)

LEMMA CancelInv == \A l \in Lookups : IInv /\ Cancel(l) => IInv'
<1> SUFFICES ASSUME NEW l \in Lookups, IInv, Cancel(l) PROVE IInv'
  OBVIOUS
<1>1. Typed'
  BY DEF IInv, Typed, Cancel
<1>2. WorkersInv' /\ \A m \in Lookups : LookupInv(m)'
  BY QuietFrame DEF Cancel, SameWorker
<1>3. SourcesInv'
  BY SourcesFrame DEF IInv, Cancel
<1> QED
  BY <1>1, <1>2, <1>3 DEF IInv

LEMMA CacheExpiresInv == \A c \in Clients : IInv /\ CacheExpires(c) => IInv'
<1> SUFFICES ASSUME NEW c \in Clients, IInv, CacheExpires(c) PROVE IInv'
  OBVIOUS
<1>1. Typed'
  BY DEF IInv, Typed, CacheExpires
<1>2. WorkersInv' /\ \A m \in Lookups : LookupInv(m)'
  BY QuietFrame DEF CacheExpires, SameWorker
<1>3. SourcesInv'
  <2>1. \A d \in Clients : cache'[d] \subseteq cache[d]
    BY DEF IInv, Typed, CacheExpires
  <2> QED
    BY <2>1 DEF IInv, SourcesInv, CacheExpires, IsRecorded, QueryOf, Types
<1> QED
  BY <1>1, <1>2, <1>3 DEF IInv

LEMMA AskInv == \A l \in Lookups, w \in Workers : IInv /\ Ask(l, w) => IInv'
<1> SUFFICES ASSUME NEW l \in Lookups, NEW w \in Workers, IInv, Ask(l, w) PROVE IInv'
  OBVIOUS
<1> DEFINE lw == <<l, w>>
<1>1. PICK p \in {"lead", "follow"} :
          /\ worker' = [worker EXCEPT ![lw].pc = p]
          /\ flight' = flight \/ flight' = [flight EXCEPT ![QueryOf(lw)] = lw]
  BY DEF Ask
<1>2. worker[lw].pc = "ask"
  BY DEF Ask
<1>3. Typed'
  <2>1. worker' \in [Lookups \X Workers -> WorkerStates]
    <3>1. worker \in [Lookups \X Workers -> WorkerStates] /\ lw \in Lookups \X Workers
      BY DEF IInv, Typed, WorkerStates
    <3>2. worker[lw] \in WorkerStates
      BY <3>1
    <3>3. [worker[lw] EXCEPT !.pc = p] \in WorkerStates
      BY <3>2 DEF WorkerStates
    <3> QED
      BY <1>1, <3>1, <3>3
  <2>2. flight' \in [Queries -> {NoFlight} \cup (Lookups \X Workers)]
    <3>1. flight \in [Queries -> {NoFlight} \cup (Lookups \X Workers)] /\ lw \in Lookups \X Workers
      BY DEF IInv, Typed
    <3> QED
      BY <1>1, <3>1
  <2> QED
    BY <2>1, <2>2 DEF IInv, Typed, Ask, WorkerStates
<1>4. \A x \in Lookups \X Workers : SameWorker(x) /\ (worker'[x].pc = "send" => worker'[x] = worker[x])
  BY <1>1, <1>2 DEF IInv, Typed, SameWorker, Asking
<1>5. WorkersInv' /\ \A m \in Lookups : LookupInv(m)'
  BY <1>4, QuietFrame DEF Ask
<1>6. SourcesInv'
  BY <1>4, SourcesFrame DEF IInv, Ask
<1> QED
  BY <1>3, <1>5, <1>6 DEF IInv

\* The leader and its followers have the outcome of their query.
LEMMA Landing ==
  ASSUME Typed, WorkersInv, NEW l \in Lookups, NEW w \in Workers, NEW outcome \in Outcomes,
         worker[<<l, w>>].pc \in Asking, Land(l, w, outcome)
  PROVE  /\ worker' \in [Lookups \X Workers -> WorkerStates]
         /\ flight' \in [Queries -> {NoFlight} \cup (Lookups \X Workers)]
         /\ \A x \in Lookups \X Workers :
               /\ SameWorker(x)
               /\ worker'[x].pc = "send" =>
                     \/ worker'[x] = worker[x]
                     \/ QueryOf(x) = QueryOf(<<l, w>>) /\ worker'[x].outcome = outcome
<1> DEFINE lw == <<l, w>>
           With(x) == x = lw \/ (worker[x].pc = "follow" /\ QueryOf(x) = QueryOf(lw))
<1>1. \A x \in Lookups \X Workers :
         worker'[x] = IF With(x) THEN [worker[x] EXCEPT !.pc = "send", !.outcome = outcome]
                      ELSE worker[x]
  BY DEF Land
<1>2. \A x \in Lookups \X Workers : worker[x] \in WorkerStates
  BY DEF Typed, WorkerStates
<1>3. \A x \in Lookups \X Workers : With(x) => worker[x].pc \in Asking
  BY DEF Asking
<1>4. ASSUME NEW x \in Lookups \X Workers PROVE worker'[x] \in WorkerStates
  <2>1. [worker[x] EXCEPT !.pc = "send", !.outcome = outcome] \in WorkerStates
    <3>1. worker[x] \in WorkerStates
      BY <1>2
    <3> QED
      BY <3>1 DEF WorkerStates
  <2> QED
    BY <1>1, <1>2, <2>1
<1>5. worker' = [x \in Lookups \X Workers |-> worker'[x]]
  BY DEF Land
<1>6. ASSUME NEW x \in Lookups \X Workers
      PROVE  /\ SameWorker(x)
             /\ worker'[x].pc = "send" =>
                   \/ worker'[x] = worker[x]
                   \/ QueryOf(x) = QueryOf(lw) /\ worker'[x].outcome = outcome
  <2>1. CASE With(x)
    <3>1. /\ worker'[x].pc = "send" /\ worker'[x].outcome = outcome
          /\ worker'[x].server = worker[x].server /\ worker'[x].type = worker[x].type
      <4>1. worker[x] \in WorkerStates
        BY <1>2
      <4>2. worker'[x] = [worker[x] EXCEPT !.pc = "send", !.outcome = outcome]
        BY <1>1, <2>1
      <4> QED
        BY <4>1, <4>2 DEF WorkerStates
    <3>2. QueryOf(x) = QueryOf(lw)
      BY <2>1
    <3> QED
      BY <1>3, <2>1, <3>1, <3>2 DEF SameWorker, Asking
  <2>2. CASE ~With(x)
    BY <1>1, <2>2 DEF SameWorker
  <2> QED
    BY <2>1, <2>2
<1>7. flight' \in [Queries -> {NoFlight} \cup (Lookups \X Workers)]
  BY DEF Land, Typed
<1> QED
  BY <1>4, <1>5, <1>6, <1>7

LEMMA ExchangeContextInv == \A l \in Lookups, w \in Workers : IInv /\ ExchangeContext(l, w) => IInv'
<1> SUFFICES ASSUME NEW l \in Lookups, NEW w \in Workers, IInv, ExchangeContext(l, w) PROVE IInv'
  OBVIOUS
<1> DEFINE lw == <<l, w>>
<1>1. worker[lw].pc = "lead"
  BY DEF ExchangeContext
<1>2. /\ worker' \in [Lookups \X Workers -> WorkerStates]
      /\ flight' \in [Queries -> {NoFlight} \cup (Lookups \X Workers)]
      /\ \A x \in Lookups \X Workers :
            /\ SameWorker(x)
            /\ worker'[x].pc = "send" => worker'[x] = worker[x] \/ worker'[x].outcome = "failure"
  <2>1. CASE Land(l, w, "failure")
    BY <1>1, <2>1, Landing DEF IInv, Asking
  <2>2. ASSUME NEW r \in Outcomes, flight' = flight,
               worker' = [worker EXCEPT ![lw].pc = "record", ![lw].outcome = r]
        PROVE  <1>2
    <3>1. worker' \in [Lookups \X Workers -> WorkerStates]
      <4>1. worker \in [Lookups \X Workers -> WorkerStates] /\ lw \in Lookups \X Workers
        BY DEF IInv, Typed, WorkerStates
      <4>2. [worker[lw] EXCEPT !.pc = "record", !.outcome = r] \in WorkerStates
        <5>1. worker[lw] \in WorkerStates
          BY <4>1
        <5> QED
          BY <5>1 DEF WorkerStates
      <4>3. worker' = [worker EXCEPT ![lw] = [@ EXCEPT !.pc = "record", !.outcome = r]]
        BY <2>2, <4>1
      <4> QED
        BY <4>1, <4>2, <4>3
    <3>2. \A x \in Lookups \X Workers :
            /\ SameWorker(x)
            /\ worker'[x].pc = "send" => worker'[x] = worker[x]
      BY <1>1, <2>2 DEF IInv, Typed, SameWorker, Asking
    <3> QED
      BY <2>2, <3>1, <3>2 DEF IInv, Typed
  <2> QED
    BY <2>1, <2>2 DEF ExchangeContext
<1>3. Typed'
  BY <1>2 DEF IInv, Typed, ExchangeContext, WorkerStates
<1>4. WorkersInv' /\ \A m \in Lookups : LookupInv(m)'
  BY <1>2, QuietFrame DEF ExchangeContext
<1>5. SourcesInv'
  BY <1>2, SourcesFrame DEF IInv, ExchangeContext
<1> QED
  BY <1>3, <1>4, <1>5 DEF IInv

LEMMA WriteRecordInv == \A l \in Lookups, w \in Workers : IInv /\ WriteRecord(l, w) => IInv'
<1> SUFFICES ASSUME NEW l \in Lookups, NEW w \in Workers, IInv, WriteRecord(l, w) PROVE IInv'
  OBVIOUS
<1> DEFINE lw == <<l, w>>
           q == QueryOf(lw)
<1>1. worker[lw].pc = "record" /\ worker[lw].outcome \in Outcomes
  BY DEF WriteRecord, IInv, Typed
<1>2. q \in Queries /\ ClientOf[l] \in Clients
  BY QueryType, ResolveAssumption DEF IInv
<1>3. recorded' = recorded \cup {<<ClientOf[l], q>>}
  BY <1>1 DEF WriteRecord, Archived
<1>4. /\ worker' \in [Lookups \X Workers -> WorkerStates]
      /\ flight' \in [Queries -> {NoFlight} \cup (Lookups \X Workers)]
      /\ \A x \in Lookups \X Workers :
            /\ SameWorker(x)
            /\ worker'[x].pc = "send" => worker'[x] = worker[x] \/ QueryOf(x) = q
  BY <1>1, Landing DEF WriteRecord, IInv, Asking
<1>5. Typed'
  BY <1>2, <1>3, <1>4 DEF IInv, Typed, WriteRecord, WorkerStates
<1>6. WorkersInv' /\ \A m \in Lookups : LookupInv(m)'
  BY <1>4, QuietFrame DEF WriteRecord
<1>7. \A x \in Lookups \X Workers : QueryOf(x) = q => IsRecorded(QueryOf(x))'
  BY <1>2, <1>3, <1>4 DEF IsRecorded, QueryOf, Types, SameWorker, WriteRecord
<1>8. SourcesInv'
  BY <1>3, <1>4, <1>7, SourcesFrame DEF IInv, WriteRecord
<1> QED
  BY <1>5, <1>6, <1>8 DEF IInv

-----------------------------------------------------------------------------
(***************************************************************************)
(* Steps of one lookup.                                                    *)
(***************************************************************************)

LEMMA TailFacts ==
  ASSUME NEW S, NEW s \in Seq(S), s # <<>>
  PROVE  /\ Head(s) \in S /\ Tail(s) \in Seq(S)
         /\ 1 \in DOMAIN s /\ Head(s) = s[1]
         /\ Len(s) > 0 /\ Len(Tail(s)) = Len(s) - 1
         /\ \A i \in DOMAIN Tail(s) : i + 1 \in DOMAIN s /\ Tail(s)[i] = s[i + 1]
         /\ \A i \in DOMAIN s : i = 1 \/ (i - 1 \in DOMAIN Tail(s) /\ Tail(s)[i - 1] = s[i])
<1>1. Len(s) \in Nat \ {0}
  BY EmptySeq
<1>2. Head(s) \in S /\ Head(s) = s[1] /\ Tail(s) \in Seq(S) /\ Len(Tail(s)) = Len(s) - 1
  BY <1>1, HeadTailProperties
<1>3. \A i \in 1..(Len(s) - 1) : Tail(s)[i] = s[i + 1]
  BY <1>1, HeadTailProperties
<1>4. DOMAIN s = 1..Len(s) /\ DOMAIN Tail(s) = 1..(Len(s) - 1)
  BY <1>2
<1>5. ASSUME NEW i \in 1..Len(s), i # 1
      PROVE  i - 1 \in 1..(Len(s) - 1) /\ Tail(s)[i - 1] = s[i]
  <2>1. i - 1 \in 1..(Len(s) - 1) /\ (i - 1) + 1 = i
    BY <1>1, <1>5
  <2>2. Tail(s)[i - 1] = s[(i - 1) + 1]
    BY <1>3, <2>1
  <2> QED
    BY <2>1, <2>2
<1>6. \A i \in 1..(Len(s) - 1) : i + 1 \in 1..Len(s)
  BY <1>1
<1>7. \A i \in DOMAIN Tail(s) : i + 1 \in DOMAIN s /\ Tail(s)[i] = s[i + 1]
  BY <1>3, <1>4, <1>6
<1>8. ASSUME NEW i \in DOMAIN s PROVE i = 1 \/ (i - 1 \in DOMAIN Tail(s) /\ Tail(s)[i - 1] = s[i])
  <2>1. i \in 1..Len(s)
    BY <1>4
  <2>2. CASE i # 1
    BY <1>4, <1>5, <2>1, <2>2
  <2> QED
    BY <2>1, <2>2
<1>9. 1 \in DOMAIN s /\ Len(s) > 0
  BY <1>1, <1>4
<1> QED
  BY <1>2, <1>7, <1>8, <1>9

LEMMA AppendFacts ==
  ASSUME NEW S, NEW s \in Seq(S), NEW e \in S
  PROVE  /\ Append(s, e) \in Seq(S) /\ Len(Append(s, e)) = Len(s) + 1
         /\ Len(s) \in Nat /\ DOMAIN s = 1..Len(s) /\ DOMAIN Append(s, e) = 1..(Len(s) + 1)
         /\ \A i \in DOMAIN s : Append(s, e)[i] = s[i]
         /\ Append(s, e)[Len(s) + 1] = e
<1>1. Append(s, e) \in Seq(S) /\ Len(Append(s, e)) = Len(s) + 1 /\ Len(s) \in Nat /\ DOMAIN s = 1..Len(s)
  BY AppendProperties, LenProperties
<1>2. \A i \in 1..Len(s) : Append(s, e)[i] = s[i]
  BY AppendProperties
<1>3. Append(s, e)[Len(s) + 1] = e
  BY AppendProperties
<1> QED
  BY <1>1, <1>2, <1>3

\* What is in a sequence when its head is taken, or when something is added.
LEMMA TailHas ==
  ASSUME NEW S, NEW s \in Seq(S), s # <<>>
  PROVE  /\ \A e : Has(s, e) <=> e = Head(s) \/ Has(Tail(s), e)
         /\ Distinct(s) => Distinct(Tail(s)) /\ ~Has(Tail(s), Head(s))
<1>0. /\ 1 \in DOMAIN s /\ Head(s) = s[1] /\ Tail(s) \in Seq(S)
      /\ \A i \in DOMAIN Tail(s) : i + 1 \in DOMAIN s /\ Tail(s)[i] = s[i + 1]
      /\ \A i \in DOMAIN s : i = 1 \/ (i - 1 \in DOMAIN Tail(s) /\ Tail(s)[i - 1] = s[i])
  BY TailFacts
<1>1. \A i \in DOMAIN Tail(s) : i \in Nat \ {0}
  BY <1>0
<1>2. ASSUME NEW e, Has(s, e) PROVE e = Head(s) \/ Has(Tail(s), e)
  BY <1>0, <1>2 DEF Has
<1>3. ASSUME NEW e, e = Head(s) \/ Has(Tail(s), e) PROVE Has(s, e)
  BY <1>0, <1>3 DEF Has
<1>4. ASSUME Distinct(s), NEW i \in DOMAIN Tail(s), NEW j \in DOMAIN Tail(s), Tail(s)[i] = Tail(s)[j]
      PROVE  i = j
  <2>1. i + 1 \in DOMAIN s /\ j + 1 \in DOMAIN s /\ s[i + 1] = s[j + 1]
    BY <1>0, <1>4
  <2>2. i + 1 = j + 1
    BY <1>4, <2>1 DEF Distinct
  <2> QED
    BY <1>1, <2>2
<1>5. ASSUME Distinct(s), NEW i \in DOMAIN Tail(s), Tail(s)[i] = Head(s) PROVE FALSE
  <2>1. i + 1 \in DOMAIN s /\ s[i + 1] = s[1]
    BY <1>0, <1>5
  <2>2. i + 1 = 1
    BY <1>0, <1>5, <2>1 DEF Distinct
  <2> QED
    BY <1>1, <2>2
<1>6. Distinct(s) => Distinct(Tail(s))
  BY <1>4 DEF Distinct
<1>7. Distinct(s) => ~Has(Tail(s), Head(s))
  BY <1>5 DEF Has
<1> QED
  BY <1>2, <1>3, <1>6, <1>7

LEMMA AppendHas ==
  ASSUME NEW S, NEW s \in Seq(S), NEW e \in S
  PROVE  /\ \A x : Has(Append(s, e), x) <=> x = e \/ Has(s, x)
         /\ Distinct(s) /\ ~Has(s, e) => Distinct(Append(s, e))
<1> DEFINE t == Append(s, e)
           n == Len(s)
<1>0. /\ n \in Nat /\ DOMAIN s = 1..n /\ DOMAIN t = 1..(n + 1)
      /\ \A i \in 1..n : t[i] = s[i]
      /\ t[n + 1] = e
  BY AppendFacts
<1> HIDE DEF t, n
<1>1. \A i \in 1..(n + 1) : i \in 1..n \/ i = n + 1
  BY <1>0
<1>2. n + 1 \in 1..(n + 1) /\ \A i \in 1..n : i \in 1..(n + 1)
  BY <1>0
<1>3. ASSUME NEW x PROVE Has(t, x) <=> x = e \/ Has(s, x)
  BY <1>0, <1>1, <1>2 DEF Has
<1>4. ASSUME Distinct(s), ~Has(s, e), NEW i \in 1..(n + 1), NEW j \in 1..(n + 1), t[i] = t[j]
      PROVE  i = j
  <2>1. \A k \in 1..n : t[k] = s[k] /\ s[k] # e
    BY <1>0, <1>4 DEF Has
  <2>2. i = n + 1 <=> t[i] = e
    BY <1>0, <1>1, <2>1
  <2>3. j = n + 1 <=> t[j] = e
    BY <1>0, <1>1, <2>1
  <2>4. CASE i = n + 1
    BY <1>4, <2>2, <2>3, <2>4
  <2>5. CASE i # n + 1
    <3>1. i \in 1..n /\ j \in 1..n
      BY <1>1, <1>4, <2>2, <2>3, <2>5
    <3> QED
      BY <1>0, <1>4, <3>1 DEF Distinct
  <2> QED
    BY <2>4, <2>5
<1>5. Distinct(s) /\ ~Has(s, e) => Distinct(t)
  BY <1>0, <1>4 DEF Distinct
<1> QED
  BY <1>3, <1>5 DEF t

\* A step of one lookup, or of its workers.
OnlyLookup(l) == \A m \in Lookups \ {l} : SameLookup(m)

LEMMA OneLookupFrame ==
  ASSUME NEW l \in Lookups, IInv, OnlyLookup(l), LookupInv(l)'
  PROVE  \A m \in Lookups : LookupInv(m)'
  BY LookupFrame DEF IInv, OnlyLookup

LEMMA StartInv == \A l \in Lookups : IInv /\ Start(l) => IInv'
<1> SUFFICES ASSUME NEW l \in Lookups, IInv, Start(l) PROVE IInv'
  OBVIOUS
<1> DEFINE c == ClientOf[l]
<1>0. /\ pc[l] = "start" /\ results[l] = <<>>
      /\ c \in Clients
      /\ \A w \in Workers : worker[<<l, w>>].pc = "off"
  BY ResolveAssumption DEF Start, IInv, WorkersInv
<1>1. CASE cache[c] # {}
  <2>1. /\ pc' = [pc EXCEPT ![l] = "resolved"] /\ found' = [found EXCEPT ![l] = cache[c]]
        /\ UNCHANGED <<servers, worker, nextServer, setting, aborted, results, failed, cache,
                       flight, recorded>>
    BY <1>1 DEF Start
  <2>2. Typed'
    BY <1>0, <2>1 DEF IInv, Typed
  <2>3. WorkersInv'
    BY <1>0, <2>1 DEF IInv, Typed, WorkersInv, Types
  <2>4. SourcesInv'
    BY <1>0, <2>1 DEF IInv, Typed, SourcesInv, IsRecorded, QueryOf, Types
  <2>5. OnlyLookup(l)
    BY <2>1 DEF IInv, Typed, OnlyLookup, SameLookup, SameWorker
  <2>6. LookupInv(l)'
    BY <1>0, <2>1 DEF IInv, Typed, LookupInv, NoneIsLost, AsksOnce, EndsSettled
  <2> QED
    BY <2>2, <2>3, <2>4, <2>5, <2>6, OneLookupFrame DEF IInv
<1>2. CASE cache[c] = {}
  <2>1. /\ pc' = [pc EXCEPT ![l] = "collect"] /\ servers' = [servers EXCEPT ![l] = Order(c)]
        /\ nextServer' = [nextServer EXCEPT ![c] = (@ + 1) % NServers]
        /\ UNCHANGED <<found, setting, aborted, results, failed, cache, flight, recorded>>
        /\ worker' = [lw \in Lookups \X Workers |->
                         IF lw[1] = l /\ lw[2] \in setting.workers THEN At("take") ELSE worker[lw]]
    BY <1>2 DEF Start
  <2>2. /\ Order(c) \in Seq(Servers)
        /\ \A s \in Servers : \E i \in DOMAIN Order(c) : Order(c)[i] = s
        /\ \A i, j \in DOMAIN Order(c) : Order(c)[i] = Order(c)[j] => i = j
    BY <1>0, OrderTakesAll DEF IInv
  <2>3. /\ \A m \in Lookups \ {l}, w \in Workers : worker'[<<m, w>>] = worker[<<m, w>>]
        /\ \A w \in Workers : /\ worker'[<<l, w>>].pc \in {"take", "off"}
                              /\ w \notin setting.workers => worker'[<<l, w>>].pc = "off"
        /\ \A x \in Lookups \X Workers : worker'[x].type = worker[x].type \/ worker'[x].type = 1
    BY <1>0, <2>1, AtType
  <2>4. worker' \in [Lookups \X Workers -> WorkerStates]
    BY <2>1, AtType DEF IInv, Typed, WorkerStates
  <2>5. nextServer' \in [Clients -> Servers]
    <3>1. nextServer[c] \in Servers /\ NServers \in Nat \ {0}
      BY <1>0, ResolveAssumption DEF IInv, Typed
    <3>2. (nextServer[c] + 1) % NServers \in Servers
      BY <3>1 DEF Servers
    <3> QED
      BY <2>1, <3>2 DEF IInv, Typed
  <2>6. Typed'
    <3>1. servers' \in [Lookups -> Seq(Servers)]
      BY <2>1, <2>2 DEF IInv, Typed
    <3>2. pc' \in [Lookups -> {"start", "collect", "resolved", "failed"}]
      BY <2>1 DEF IInv, Typed
    <3> QED
      BY <2>1, <2>4, <2>5, <3>1, <3>2 DEF IInv, Typed, WorkerStates
  <2>7. WorkersInv'
    <3>1. \A m \in Lookups : pc'[m] # "collect" => results'[m] = <<>>
      BY <2>1 DEF IInv, Typed, WorkersInv
    <3>2. ASSUME NEW m \in Lookups, NEW w \in Workers
          PROVE  /\ worker'[<<m, w>>].type <= Len(Types)
                 /\ pc'[m] = "start" \/ w \notin setting.workers => worker'[<<m, w>>].pc = "off"
      <4>1. worker'[<<m, w>>].type <= Len(Types)
        BY <2>3, SettingTypes DEF IInv, WorkersInv
      <4>2. CASE m = l
        BY <2>1, <2>3, <4>1, <4>2 DEF IInv, Typed
      <4>3. CASE m # l
        BY <2>1, <2>3, <4>1, <4>3 DEF IInv, Typed, WorkersInv
      <4> QED
        BY <4>2, <4>3
    <3>3. Len(Types)' = Len(Types) /\ setting' = setting
      BY <2>1 DEF Types
    <3> QED
      BY <3>1, <3>2, <3>3 DEF WorkersInv
  <2>8. SourcesInv'
    <3>1. \A x \in Lookups \X Workers : worker'[x].pc = "send" => worker'[x] = worker[x]
      BY <2>1, AtType
    <3> QED
      BY <2>1, <3>1, SourcesFrame DEF IInv
  <2>9. OnlyLookup(l)
    BY <2>1, <2>3 DEF IInv, Typed, OnlyLookup, SameLookup, SameWorker
  <2>10. LookupInv(l)'
    <3>1. /\ pc'[l] = "collect" /\ servers'[l] = Order(c) /\ results'[l] = <<>>
      BY <1>0, <2>1 DEF IInv, Typed
    <3>2. NoneIsLost(l)'
      BY <2>2, <2>3, <3>1 DEF NoneIsLost, Has
    <3>3. AsksOnce(l)'
      <4>1. Distinct(servers'[l])
        BY <2>2, <3>1 DEF Distinct
      <4>2. Answers(l)' = <<>> /\ Distinct(<<>>) /\ \A q : ~Has(<<>>, q)
        BY <3>1 DEF Answers, QueriesOf, Distinct, Has
      <4> QED
        BY <2>3, <4>1, <4>2 DEF AsksOnce, Asking
    <3> QED
      <4>1. Len(servers'[l]) <= NServers
        BY <1>0, <3>1, OrderTakesAll, ResolveAssumption DEF IInv
      <4> QED
        BY <3>1, <3>2, <3>3, <4>1 DEF LookupInv, EndsSettled
  <2> QED
    BY <2>6, <2>7, <2>8, <2>9, <2>10, OneLookupFrame DEF IInv
<1> QED
  BY <1>1, <1>2

\* A worker steps: nothing else of its lookup but its channels changes.
LEMMA WorkerStepFrame ==
  ASSUME IInv, NEW l \in Lookups, NEW w \in Workers, NEW x \in WorkerStates,
         worker' = [worker EXCEPT ![<<l, w>>] = x],
         worker[<<l, w>>].pc # "off", x.pc # "off", x.type <= Len(Types), x.pc # "send",
         UNCHANGED <<setting, pc, aborted, found, failed, cache, nextServer, flight, recorded>>
  PROVE  /\ worker' \in [Lookups \X Workers -> WorkerStates]
         /\ worker'[<<l, w>>] = x
         /\ \A v \in Workers \ {w} : worker'[<<l, v>>] = worker[<<l, v>>]
         /\ \A m \in Lookups \ {l}, v \in Workers : worker'[<<m, v>>] = worker[<<m, v>>]
         /\ (\A m \in Lookups : pc[m] # "collect" => results'[m] = results[m]) => WorkersInv'
         /\ \A y \in Lookups \X Workers : worker'[y].pc = "send" => worker'[y] = worker[y]
<1>1. worker \in [Lookups \X Workers -> WorkerStates] /\ <<l, w>> \in Lookups \X Workers
  BY DEF IInv, Typed, WorkerStates
<1>2. /\ worker' \in [Lookups \X Workers -> WorkerStates] /\ worker'[<<l, w>>] = x
      /\ \A y \in Lookups \X Workers : y # <<l, w>> => worker'[y] = worker[y]
  BY <1>1
<1>3. /\ \A v \in Workers \ {w} : worker'[<<l, v>>] = worker[<<l, v>>]
      /\ \A m \in Lookups \ {l}, v \in Workers : worker'[<<m, v>>] = worker[<<m, v>>]
  BY <1>2
<1>4. ASSUME \A m \in Lookups : pc[m] # "collect" => results'[m] = results[m] PROVE WorkersInv'
  <2>1. Len(Types)' = Len(Types)
    BY DEF Types
  <2>2. \A m \in Lookups : pc'[m] # "collect" => results'[m] = <<>>
    BY <1>4 DEF IInv, WorkersInv
  <2>3. pc[l] # "start" /\ w \in setting.workers
    BY <1>1 DEF IInv, WorkersInv
  <2>4. ASSUME NEW y \in Lookups \X Workers
        PROVE  /\ worker'[y].type <= Len(Types)
               /\ pc[y[1]] = "start" \/ y[2] \notin setting.workers => worker'[y].pc = "off"
    <3>1. CASE y = <<l, w>>
      BY <1>2, <2>3, <3>1
    <3>2. CASE y # <<l, w>>
      BY <1>2, <3>2 DEF IInv, WorkersInv
    <3> QED
      BY <3>1, <3>2
  <2> QED
    BY <2>1, <2>2, <2>4 DEF WorkersInv
<1> QED
  BY <1>2, <1>3, <1>4

LEMMA TakeInv == \A l \in Lookups, w \in Workers : IInv /\ Take(l, w) => IInv'
<1> SUFFICES ASSUME NEW l \in Lookups, NEW w \in Workers, IInv, Take(l, w) PROVE IInv'
  OBVIOUS
<1> DEFINE lw == <<l, w>>
<1>0. /\ worker[lw].pc = "take" /\ servers[l] \in Seq(Servers)
      /\ UNCHANGED <<setting, pc, aborted, results, found, failed, cache, nextServer, flight, recorded>>
      /\ Len(Types) \in {1, 2} /\ "ended" # "take" /\ "ended" # "off"
  BY SettingTypes DEF Take, IInv, Typed
<1>1. PICK x \in WorkerStates :
          /\ worker' = [worker EXCEPT ![lw] = x] /\ x.type = 1
          /\ servers[l] = <<>> => servers' = servers
          /\ servers[l] # <<>> => servers' = [servers EXCEPT ![l] = Tail(@)]
          /\ x.pc \in {"ended", "ask"}
          /\ x.pc = "ended" => servers[l] = <<>> \/ Stopped(l)
          /\ x.pc = "ask" => x.server = Head(servers[l]) /\ servers[l] # <<>>
  <2>1. CASE servers[l] = <<>>
    <3>1. worker' = [worker EXCEPT ![lw] = At("ended")] /\ servers' = servers
      BY <2>1 DEF Take, AfterLastServer
    <3> QED
      BY <2>1, <3>1, AtType
  <2>2. CASE servers[l] # <<>> /\ Stopped(l)
    <3>1. worker' = [worker EXCEPT ![lw] = At("ended")] /\ servers' = [servers EXCEPT ![l] = Tail(@)]
      BY <2>2 DEF Take
    <3> QED
      BY <2>2, <3>1, AtType
  <2>3. CASE servers[l] # <<>> /\ ~Stopped(l)
    <3> DEFINE y == [At("ask") EXCEPT !.server = Head(servers[l])]
    <3>1. worker' = [worker EXCEPT ![lw] = y] /\ servers' = [servers EXCEPT ![l] = Tail(@)]
      BY <2>3 DEF Take
    <3>2. Head(servers[l]) \in Servers
      BY <1>0, <2>3, TailFacts
    <3>3. y \in WorkerStates /\ y.pc = "ask" /\ y.type = 1 /\ y.server = Head(servers[l])
      <4>1. At("ask") \in WorkerStates /\ At("ask").pc = "ask" /\ At("ask").type = 1
        BY AtType
      <4> QED
        BY <3>2, <4>1 DEF WorkerStates
    <3> QED
      BY <2>3, <3>1, <3>3
  <2> QED
    BY <2>1, <2>2, <2>3
<1>2. /\ x.pc \in {"ended", "ask"} /\ x.pc # "off" /\ x.pc # "send" /\ worker[lw].pc # "off"
      /\ x.type <= Len(Types)
  <2>1. x.type = 1 /\ x.pc \in {"ended", "ask"}
    BY <1>1
  <2>2. 1 <= Len(Types) /\ worker[lw].pc = "take"
    BY <1>0
  <2> QED
    BY <2>1, <2>2
<1>3. /\ worker' \in [Lookups \X Workers -> WorkerStates]
      /\ worker'[lw] = x
      /\ \A v \in Workers \ {w} : worker'[<<l, v>>] = worker[<<l, v>>]
      /\ \A m \in Lookups \ {l}, v \in Workers : worker'[<<m, v>>] = worker[<<m, v>>]
      /\ WorkersInv'
      /\ \A y \in Lookups \X Workers : worker'[y].pc = "send" => worker'[y] = worker[y]
  BY <1>0, <1>1, <1>2, WorkerStepFrame
<1>4. /\ servers'[l] \in Seq(Servers) /\ servers' \in [Lookups -> Seq(Servers)]
      /\ \A m \in Lookups \ {l} : servers'[m] = servers[m]
  <2>1. servers \in [Lookups -> Seq(Servers)]
    BY DEF IInv, Typed
  <2>2. servers[l] # <<>> => Tail(servers[l]) \in Seq(Servers)
    BY <1>0, TailFacts
  <2> QED
    BY <1>1, <2>1, <2>2
<1>5. Typed'
  BY <1>0, <1>3, <1>4 DEF IInv, Typed, WorkerStates
<1>6. SourcesInv'
  BY <1>0, <1>3, SourcesFrame DEF IInv
<1>7. OnlyLookup(l)
  BY <1>0, <1>3, <1>4 DEF OnlyLookup, SameLookup, SameWorker
<1>8. LookupInv(l)'
  <2>0. Len(servers'[l]) <= NServers
    <3>1. Len(servers[l]) <= NServers /\ NServers \in Nat
      BY ResolveAssumption DEF IInv, LookupInv
    <3>2. CASE servers[l] = <<>>
      BY <1>1, <3>1, <3>2
    <3>3. CASE servers[l] # <<>>
      <4>1. servers'[l] = Tail(servers[l])
        BY <1>1, <3>3 DEF IInv, Typed
      <4>2. Len(Tail(servers[l])) = Len(servers[l]) - 1 /\ Len(servers[l]) \in Nat
        BY <1>0, <3>3, TailFacts, LenProperties
      <4> QED
        BY <3>1, <4>1, <4>2
    <3> QED
      BY <3>2, <3>3
  <2>1. EndsSettled(l)'
    <3>1. l \notin aborted /\ pc[l] \in {"resolved", "failed"} =>
             \A s \in Servers, k \in DOMAIN Types : Settled(l, <<s, Types[k]>>)
      BY <1>2 DEF IInv, LookupInv, EndsSettled
    <3> QED
      BY <1>0, <3>1 DEF EndsSettled, Settled, Types
  <2>2. CASE pc[l] # "collect"
    BY <1>0, <2>0, <2>1, <2>2 DEF LookupInv, NoneIsLost, AsksOnce
  <2>3. CASE pc[l] = "collect" /\ servers[l] = <<>>
    <3>1. servers' = servers /\ x.pc = "ended" /\ x.pc \notin Asking /\ worker[lw].pc \notin Asking
      BY <1>0, <1>1, <2>3 DEF Asking
    <3>2. \A v \in Workers :
             /\ worker'[<<l, v>>].pc \in Asking => worker'[<<l, v>>] = worker[<<l, v>>]
             /\ worker[<<l, v>>].pc \in Asking => worker'[<<l, v>>] = worker[<<l, v>>]
      BY <1>3, <3>1
    <3>3. Answers(l)' = Answers(l) /\ Types' = Types
      BY <1>0 DEF Answers, Types
    <3>4. NoneIsLost(l) /\ AsksOnce(l)
      BY DEF IInv, LookupInv
    <3>5. NoneIsLost(l)'
      <4>1. \A s, k : Underway(l, s, k) => Underway(l, s, k)'
        BY <3>2 DEF Underway
      <4> QED
        BY <1>0, <2>3, <3>1, <3>3, <3>4, <4>1 DEF NoneIsLost, Settled
    <3>6. AsksOnce(l)'
      BY <2>3, <3>1, <3>2, <3>3, <3>4 DEF AsksOnce
    <3> QED
      BY <2>0, <2>1, <3>5, <3>6 DEF LookupInv
  <2>4. CASE pc[l] = "collect" /\ servers[l] # <<>>
    <3> DEFINE s0 == Head(servers[l])
    <3>0. servers'[l] = Tail(servers[l])
      BY <1>1, <2>4 DEF IInv, Typed
    <3>1. (x.pc = "ended" /\ l \in aborted) \/ (x.pc = "ask" /\ x.server = s0)
      <4>1. Stopped(l) => l \in aborted
        BY <2>4 DEF Stopped
      <4> QED
        BY <1>1, <2>4, <4>1
    <3>2. NoneIsLost(l) /\ AsksOnce(l)
      BY DEF IInv, LookupInv
    <3>3. /\ \A s : Has(servers[l], s) <=> s = s0 \/ Has(servers'[l], s)
          /\ Distinct(servers'[l]) /\ ~Has(servers'[l], s0)
      <4>1. Distinct(servers[l])
        BY <2>4, <3>2 DEF AsksOnce
      <4> QED
        BY <1>0, <2>4, <3>0, <4>1, TailHas
    <3> HIDE DEF s0
    <3>4. Answers(l)' = Answers(l) /\ Types' = Types /\ pc' = pc
      BY <1>0 DEF Answers, Types
    <3>5. ASSUME NEW v \in Workers, worker'[<<l, v>>].pc \in Asking
          PROVE  \/ v = w /\ worker'[<<l, v>>] = x /\ x.server = s0
                 \/ /\ v # w /\ worker'[<<l, v>>] = worker[<<l, v>>]
                    /\ ~Has(servers[l], worker[<<l, v>>].server) /\ worker[<<l, v>>].server # s0
      <4>1. CASE v = w
        BY <1>3, <3>1, <3>5, <4>1 DEF Asking
      <4>2. CASE v # w
        BY <1>3, <2>4, <3>2, <3>3, <3>5, <4>2 DEF AsksOnce
      <4> QED
        BY <4>1, <4>2
    <3>6. NoneIsLost(l)'
      <4> SUFFICES ASSUME l \notin aborted PROVE NoneIsLost(l)'
        BY <1>0 DEF NoneIsLost
      <4>1. /\ worker'[<<l, w>>].pc \in Asking /\ worker'[<<l, w>>].server = s0
            /\ worker'[<<l, w>>].type = 1 /\ worker'[<<l, w>>].pc # "ended"
        BY <1>1, <1>3, <3>1 DEF Asking
      <4>2. \A v \in Workers : worker'[<<l, v>>].pc # "ended"
        BY <1>3, <2>4, <3>2, <4>1 DEF NoneIsLost
      <4>3. \A s, k : Underway(l, s, k) => Underway(l, s, k)'
        BY <1>0, <1>3 DEF Underway, Asking
      <4>4. ASSUME NEW k \in DOMAIN Types, NEW s, s = s0 PROVE Underway(l, s, k)'
        <5>1. 1 <= k
          BY SettingTypes DEF IInv
        <5> QED
          BY <4>1, <4>4, <5>1 DEF Underway
      <4>5. \A q : Settled(l, q)' = Settled(l, q)
        BY <1>0 DEF Settled
      <4>6. ASSUME NEW s \in Servers, NEW k \in DOMAIN Types
            PROVE  \/ Has(servers'[l], s) \/ Underway(l, s, k)'
                   \/ Has(Answers(l), <<s, Types[k]>>) \/ Settled(l, <<s, Types[k]>>)
        <5>1. \/ Has(servers[l], s) \/ Underway(l, s, k)
              \/ Has(Answers(l), <<s, Types[k]>>) \/ Settled(l, <<s, Types[k]>>)
          BY <1>0, <2>4, <3>2 DEF NoneIsLost
        <5> QED
          BY <3>3, <4>3, <4>4, <5>1
      <4> QED
        BY <3>4, <4>2, <4>5, <4>6 DEF NoneIsLost
    <3>7. AsksOnce(l)'
      <4>1. ASSUME NEW v \in Workers, worker'[<<l, v>>].pc \in Asking
            PROVE  ~Has(servers'[l], worker'[<<l, v>>].server)
        BY <3>3, <3>5, <4>1
      <4>2. ASSUME NEW v \in Workers, worker'[<<l, v>>].pc \in Asking,
                   NEW u \in Workers, worker'[<<l, u>>].pc \in Asking,
                   worker'[<<l, u>>].server = worker'[<<l, v>>].server
            PROVE  u = v
        <5>1. u = w <=> worker'[<<l, u>>].server = s0
          BY <3>5, <4>2
        <5>2. v = w <=> worker'[<<l, v>>].server = s0
          BY <3>5, <4>2
        <5>3. CASE u = w
          BY <4>2, <5>1, <5>2, <5>3
        <5>4. CASE u # w
          <6>1. worker'[<<l, u>>] = worker[<<l, u>>] /\ worker'[<<l, v>>] = worker[<<l, v>>]
            BY <1>3, <4>2, <5>1, <5>2, <5>4
          <6> QED
            BY <2>4, <3>2, <4>2, <6>1 DEF AsksOnce
        <5> QED
          BY <5>3, <5>4
      <4>3. ASSUME NEW q \in Queries, Has(Answers(l), q)
            PROVE  /\ ~Has(servers'[l], q[1])
                   /\ \A v \in Workers :
                         worker'[<<l, v>>].pc \in Asking /\ worker'[<<l, v>>].server = q[1]
                            => \E k \in 1..(worker'[<<l, v>>].type - 1) : q[2] = Types[k]
        <5>1. ~Has(servers[l], q[1]) /\ q[1] # s0
          BY <2>4, <3>2, <3>3, <4>3 DEF AsksOnce
        <5>2. ASSUME NEW v \in Workers, worker'[<<l, v>>].pc \in Asking, worker'[<<l, v>>].server = q[1]
              PROVE  \E k \in 1..(worker'[<<l, v>>].type - 1) : q[2] = Types[k]
          <6>1. worker'[<<l, v>>] = worker[<<l, v>>]
            BY <3>5, <5>1, <5>2
          <6> QED
            BY <2>4, <3>2, <4>3, <5>2, <6>1 DEF AsksOnce
        <5> QED
          BY <3>3, <5>1, <5>2
      <4>4. Distinct(Answers(l))
        BY <2>4, <3>2 DEF AsksOnce
      <4> QED
        BY <3>3, <3>4, <4>1, <4>2, <4>3, <4>4 DEF AsksOnce
    <3> QED
      BY <2>0, <2>1, <3>6, <3>7 DEF LookupInv
  <2> QED
    BY <2>2, <2>3, <2>4
<1> QED
  BY <1>5, <1>6, <1>3, <1>7, <1>8, OneLookupFrame DEF IInv

-----------------------------------------------------------------------------
(***************************************************************************)
(* Results are sent and collected.                                         *)
(***************************************************************************)

LEMMA IsSequence ==
  ASSUME NEW S, NEW n \in Nat, NEW f, f = [i \in 1..n |-> f[i]], \A i \in 1..n : f[i] \in S
  PROVE  f \in Seq(S) /\ Len(f) = n
OBVIOUS

LEMMA QueriesOfTail ==
  ASSUME NEW rs \in Seq(Queries \X Outcomes), rs # <<>>
  PROVE  /\ Head(rs)[1] \in Queries /\ Head(rs)[2] \in Outcomes
         /\ \A q : Has(QueriesOf(rs), q) <=> q = Head(rs)[1] \/ Has(QueriesOf(Tail(rs)), q)
         /\ Distinct(QueriesOf(rs)) => Distinct(QueriesOf(Tail(rs)))
<1> DEFINE qs == QueriesOf(rs)
<1>0. /\ Head(rs) \in Queries \X Outcomes /\ Tail(rs) \in Seq(Queries \X Outcomes)
      /\ Head(rs) = rs[1] /\ 1 \in DOMAIN rs
      /\ Len(Tail(rs)) = Len(rs) - 1 /\ Len(rs) > 0
      /\ \A i \in DOMAIN Tail(rs) : i + 1 \in DOMAIN rs /\ Tail(rs)[i] = rs[i + 1]
  BY TailFacts
<1>1. DOMAIN rs = 1..Len(rs) /\ DOMAIN Tail(rs) = 1..Len(Tail(rs)) /\ Len(rs) \in Nat
  BY <1>0
<1>2. \A i \in 1..Len(rs) : qs[i] = rs[i][1] /\ rs[i][1] \in Queries
  BY <1>1 DEF QueriesOf
<1>3. qs \in Seq(Queries) /\ Len(qs) = Len(rs) /\ qs # <<>>
  <2>1. qs = [i \in 1..Len(rs) |-> qs[i]]
    BY <1>1 DEF QueriesOf
  <2>2. qs \in Seq(Queries) /\ Len(qs) = Len(rs)
    BY <1>1, <1>2, <2>1
  <2> QED
    BY <1>0, <2>2
<1> HIDE DEF qs
<1>4. /\ Head(qs) = qs[1] /\ Tail(qs) \in Seq(Queries) /\ Len(Tail(qs)) = Len(qs) - 1
      /\ DOMAIN Tail(qs) = 1..Len(Tail(qs))
      /\ \A i \in DOMAIN Tail(qs) : i + 1 \in DOMAIN qs /\ Tail(qs)[i] = qs[i + 1]
  BY <1>3, TailFacts
<1>5. Head(qs) = Head(rs)[1]
  BY <1>0, <1>1, <1>2, <1>4
<1>6. Tail(qs) = QueriesOf(Tail(rs))
  <2> DEFINE ts == QueriesOf(Tail(rs))
  <2>1. ts \in Seq(Queries) /\ Len(ts) = Len(rs) - 1
    <3>1. ts = [i \in 1..(Len(rs) - 1) |-> ts[i]]
      BY <1>0, <1>1 DEF QueriesOf
    <3>2. \A i \in 1..(Len(rs) - 1) : ts[i] \in Queries
      BY <1>0, <1>1, <1>2 DEF QueriesOf
    <3>3. Len(rs) - 1 \in Nat
      BY <1>0, <1>1
    <3> QED
      BY <3>1, <3>2, <3>3, IsSequence
  <2>2. ASSUME NEW i \in 1..(Len(rs) - 1) PROVE ts[i] = Tail(qs)[i]
    <3>1. ts[i] = Tail(rs)[i][1] /\ Tail(rs)[i] = rs[i + 1] /\ i + 1 \in 1..Len(rs)
      BY <1>0, <1>1 DEF QueriesOf
    <3>2. Tail(qs)[i] = qs[i + 1]
      BY <1>3, <1>4
    <3> QED
      BY <1>2, <3>1, <3>2
  <2> HIDE DEF ts
  <2>3. ts = Tail(qs)
    BY <1>3, <1>4, <2>1, <2>2, SeqEqual
  <2> QED
    BY <2>3 DEF ts
<1>7. /\ \A e : Has(qs, e) <=> e = Head(qs) \/ Has(Tail(qs), e)
      /\ Distinct(qs) => Distinct(Tail(qs))
  BY <1>3, TailHas
<1>8. /\ \A e : Has(qs, e) <=> e = Head(rs)[1] \/ Has(QueriesOf(Tail(rs)), e)
      /\ Distinct(qs) => Distinct(QueriesOf(Tail(rs)))
  BY <1>5, <1>6, <1>7
<1>9. Head(rs)[1] \in Queries /\ Head(rs)[2] \in Outcomes
  BY <1>0
<1> QED
  BY <1>8, <1>9 DEF qs

LEMMA QueriesOfAppend ==
  ASSUME NEW rs \in Seq(Queries \X Outcomes), NEW q \in Queries, NEW o \in Outcomes
  PROVE  /\ QueriesOf(rs) \in Seq(Queries) /\ Len(QueriesOf(rs)) = Len(rs)
         /\ \A x : Has(QueriesOf(Append(rs, <<q, o>>)), x) <=> x = q \/ Has(QueriesOf(rs), x)
         /\ Distinct(QueriesOf(rs)) /\ ~Has(QueriesOf(rs), q)
               => Distinct(QueriesOf(Append(rs, <<q, o>>)))
<1> DEFINE e == <<q, o>>
           as == Append(rs, e)
           qs == QueriesOf(rs)
           n == Len(rs)
<1>0. /\ as \in Seq(Queries \X Outcomes) /\ n \in Nat
      /\ DOMAIN rs = 1..n /\ DOMAIN as = 1..(n + 1)
      /\ \A i \in 1..n : as[i] = rs[i]
      /\ as[n + 1] = e /\ e[1] = q
  BY AppendFacts
<1> HIDE DEF e, as
<1>1. \A i \in 1..n : rs[i][1] \in Queries
  BY <1>0
<1>2. qs = [i \in 1..n |-> rs[i][1]]
  BY <1>0 DEF QueriesOf
<1>3. qs \in Seq(Queries) /\ Len(qs) = n
  BY <1>0, <1>1, <1>2
<1>4. /\ Append(qs, q) \in Seq(Queries) /\ Len(Append(qs, q)) = n + 1
      /\ \A i \in 1..n : Append(qs, q)[i] = qs[i]
      /\ Append(qs, q)[n + 1] = q
  BY <1>3, AppendFacts
<1>5. QueriesOf(as) = [i \in 1..(n + 1) |-> as[i][1]]
  BY <1>0 DEF QueriesOf
<1>6. ASSUME NEW i \in 1..(n + 1) PROVE QueriesOf(as)[i] = Append(qs, q)[i] /\ as[i][1] \in Queries
  <2>1. QueriesOf(as)[i] = as[i][1]
    BY <1>5
  <2>2. CASE i = n + 1
    BY <1>0, <1>4, <2>1, <2>2
  <2>3. CASE i # n + 1
    <3>1. i \in 1..n
      BY <1>0, <2>3
    <3>2. Append(qs, q)[i] = rs[i][1] /\ as[i] = rs[i]
      BY <1>0, <1>2, <1>4, <3>1
    <3> QED
      BY <1>1, <2>1, <3>1, <3>2
  <2> QED
    BY <2>2, <2>3
<1>7. QueriesOf(as) \in Seq(Queries) /\ Len(QueriesOf(as)) = n + 1
  <2> DEFINE f == QueriesOf(as)
  <2>1. f = [i \in 1..(n + 1) |-> f[i]] /\ n + 1 \in Nat
    BY <1>0, <1>5
  <2>2. \A i \in 1..(n + 1) : f[i] \in Queries
    BY <1>5, <1>6
  <2> HIDE DEF f
  <2>3. f \in Seq(Queries) /\ Len(f) = n + 1
    BY <2>1, <2>2, IsSequence
  <2> QED
    BY <2>3 DEF f
<1>8. QueriesOf(as) = Append(qs, q)
  BY <1>4, <1>6, <1>7, SeqEqual
<1>9. /\ \A x : Has(Append(qs, q), x) <=> x = q \/ Has(qs, x)
      /\ Distinct(qs) /\ ~Has(qs, q) => Distinct(Append(qs, q))
  BY <1>3, AppendHas
<1>10. /\ \A x : Has(QueriesOf(as), x) <=> x = q \/ Has(qs, x)
       /\ Distinct(qs) /\ ~Has(qs, q) => Distinct(QueriesOf(as))
  BY <1>8, <1>9
<1> QED
  BY <1>3, <1>10 DEF as, e

\* What archiveDNS has at its end: the workers need not be looked at any more.
LEMMA ReturnFrame ==
  ASSUME IInv, NEW l \in Lookups, NEW qs, qs \in SUBSET Queries, pc[l] = "collect",
         \A q \in qs : IsRecorded(q),
         Return(l, qs), found' = [found EXCEPT ![l] = qs],
         UNCHANGED <<setting, aborted, servers, worker, nextServer, flight, recorded>>,
         failed' \in [Lookups -> SUBSET Queries], \A m \in Lookups \ {l} : failed'[m] = failed[m],
         l \notin aborted => \A s \in Servers, k \in DOMAIN Types :
                                Types[k] \in TypesIn(qs) \/ <<s, Types[k]>> \in failed'[l]
  PROVE  IInv'
<1> DEFINE c == ClientOf[l]
<1>0. c \in Clients
  BY ResolveAssumption
<1>1. /\ pc' = [pc EXCEPT ![l] = IF qs # {} THEN "resolved" ELSE "failed"]
      /\ cache' = [cache EXCEPT ![c] = IF qs # {} THEN qs ELSE @]
      /\ results' = [results EXCEPT ![l] = <<>>]
  BY DEF Return
<1>2. /\ pc'[l] \in {"resolved", "failed"} /\ results'[l] = <<>> /\ found'[l] = qs
      /\ \A m \in Lookups \ {l} : pc'[m] = pc[m] /\ results'[m] = results[m] /\ found'[m] = found[m]
      /\ \A d \in Clients : cache'[d] = qs \/ cache'[d] = cache[d]
  BY <1>0, <1>1 DEF IInv, Typed
<1>3. Typed'
  <2>1. pc' \in [Lookups -> {"start", "collect", "resolved", "failed"}]
    BY <1>1 DEF IInv, Typed
  <2>2. results' \in [Lookups -> Seq(Queries \X Outcomes)]
    BY <1>1 DEF IInv, Typed
  <2>3. cache' \in [Clients -> SUBSET Queries] /\ found' \in [Lookups -> SUBSET Queries]
    BY <1>0, <1>1 DEF IInv, Typed
  <2> QED
    BY <2>1, <2>2, <2>3 DEF IInv, Typed
<1>4. WorkersInv'
  <2>1. \A m \in Lookups : pc'[m] # "collect" => results'[m] = <<>>
    BY <1>2 DEF IInv, WorkersInv
  <2>2. \A m \in Lookups : pc'[m] = "start" => pc[m] = "start"
    BY <1>2
  <2> QED
    BY <2>1, <2>2 DEF IInv, WorkersInv, Types
<1>5. SourcesInv'
  <2>1. \A m \in Lookups : \A q \in found'[m] : IsRecorded(q)
    BY <1>2 DEF IInv, SourcesInv
  <2>2. \A d \in Clients : \A q \in cache'[d] : IsRecorded(q)
    BY <1>2 DEF IInv, SourcesInv
  <2>3. \A m \in Lookups : \A i \in DOMAIN results'[m] :
           results'[m][i][2] = "address" => IsRecorded(results'[m][i][1])
    BY <1>2 DEF IInv, SourcesInv
  <2>4. \A lw \in Lookups \X Workers :
          worker[lw].pc = "send" /\ worker[lw].outcome = "address" => IsRecorded(QueryOf(lw))
    BY DEF IInv, SourcesInv
  <2> QED
    BY <2>1, <2>2, <2>3, <2>4 DEF SourcesInv, IsRecorded, QueryOf, Types
<1>6. OnlyLookup(l)
  BY <1>2 DEF OnlyLookup, SameLookup, SameWorker
<1>7. LookupInv(l)'
  <2>1. EndsSettled(l)'
    BY <1>2 DEF EndsSettled, Settled, Types
  <2> QED
    BY <1>2, <2>1 DEF IInv, LookupInv, NoneIsLost, AsksOnce
<1> QED
  BY <1>3, <1>4, <1>5, <1>6, <1>7, OneLookupFrame DEF IInv

LEMMA CollectInv == \A l \in Lookups : IInv /\ Collect(l) => IInv'
<1> SUFFICES ASSUME NEW l \in Lookups, IInv, Collect(l) PROVE IInv'
  OBVIOUS
<1> DEFINE rs      == results[l]
           query   == Head(rs)[1]
           outcome == Head(rs)[2]
           new     == IF outcome = "address" /\ query[2] \notin TypesIn(found[l])
                      THEN found[l] \cup {query} ELSE found[l]
<1>0. /\ pc[l] = "collect" /\ rs # <<>> /\ rs \in Seq(Queries \X Outcomes)
      /\ Tail(rs) \in Seq(Queries \X Outcomes)
      /\ UNCHANGED <<setting, aborted, servers, worker, nextServer, flight, recorded>>
      /\ found' = [found EXCEPT ![l] = new]
  <2>1. pc[l] = "collect" /\ rs # <<>> /\ rs \in Seq(Queries \X Outcomes)
    BY DEF Collect, IInv, Typed
  <2> QED
    BY <2>1, TailFacts DEF Collect
<1>1. /\ query \in Queries /\ outcome \in Outcomes
      /\ \A q : Has(QueriesOf(rs), q) <=> q = query \/ Has(QueriesOf(Tail(rs)), q)
      /\ Distinct(QueriesOf(rs)) => Distinct(QueriesOf(Tail(rs)))
  BY <1>0, QueriesOfTail
<1>2. /\ new \subseteq Queries /\ found[l] \subseteq new /\ found[l] \subseteq Queries
      /\ outcome = "address" => query[2] \in TypesIn(new)
  BY <1>1 DEF IInv, Typed, TypesIn
<1>3. \A q \in new : IsRecorded(q)
  <2>1. Head(rs) = rs[1] /\ 1 \in DOMAIN rs
    BY <1>0, TailFacts
  <2>2. outcome = "address" => IsRecorded(query)
    BY <2>1 DEF IInv, SourcesInv
  <2> QED
    BY <2>2 DEF IInv, SourcesInv
<1>4. /\ failed' \in [Lookups -> SUBSET Queries] /\ \A m \in Lookups \ {l} : failed'[m] = failed[m]
      /\ failed[l] \subseteq failed'[l]
      /\ outcome # "address" => query \in failed'[l]
  <2>1. failed' = IF outcome = "address" THEN failed
                  ELSE [failed EXCEPT ![l] = @ \cup {query}]
    BY DEF Collect
  <2> QED
    BY <1>1, <2>1 DEF IInv, Typed
<1>5. \/ outcome = "address" /\ haveAllResults(new) /\ Return(l, new)
      \/ results' = [results EXCEPT ![l] = Tail(rs)] /\ UNCHANGED <<pc, cache>>
  BY DEF Collect
<1> HIDE DEF new, query, outcome
<1>6. CASE outcome = "address" /\ haveAllResults(new) /\ Return(l, new)
  <2>1. \A k \in DOMAIN Types : Types[k] \in TypesIn(new)
    BY <1>6 DEF haveAllResults
  <2> QED
    BY <1>0, <1>2, <1>3, <1>4, <1>6, <2>1, ReturnFrame
<1>7. CASE results' = [results EXCEPT ![l] = Tail(rs)] /\ UNCHANGED <<pc, cache>>
  <2>1. /\ results'[l] = Tail(rs) /\ found'[l] = new
        /\ \A m \in Lookups \ {l} : results'[m] = results[m] /\ found'[m] = found[m]
    BY <1>0, <1>7 DEF IInv, Typed
  <2>2. Typed'
    <3>1. results' \in [Lookups -> Seq(Queries \X Outcomes)]
      BY <1>0, <1>7 DEF IInv, Typed
    <3>2. found' \in [Lookups -> SUBSET Queries]
      BY <1>0, <1>2 DEF IInv, Typed
    <3> QED
      BY <1>0, <1>4, <1>7, <3>1, <3>2 DEF IInv, Typed
  <2>3. WorkersInv'
    BY <1>0, <1>7, <2>1 DEF IInv, WorkersInv, Types
  <2>4. SourcesInv'
    <3>1. \A q : IsRecorded(q) => IsRecorded(q)'
      BY <1>0 DEF IsRecorded
    <3>2. \A m \in Lookups : \A q \in found'[m] : IsRecorded(q)'
      BY <1>3, <2>1, <3>1 DEF IInv, SourcesInv
    <3>3. ASSUME NEW i \in DOMAIN Tail(rs), Tail(rs)[i][2] = "address"
          PROVE  IsRecorded(Tail(rs)[i][1])
      <4>1. i + 1 \in DOMAIN rs /\ Tail(rs)[i] = rs[i + 1]
        BY <1>0, TailFacts
      <4> QED
        BY <3>3, <4>1 DEF IInv, SourcesInv
    <3>4. ASSUME NEW m \in Lookups, NEW i \in DOMAIN results'[m], results'[m][i][2] = "address"
          PROVE  IsRecorded(results'[m][i][1])
      BY <2>1, <3>3, <3>4 DEF IInv, SourcesInv
    <3>5. \A x \in Lookups \X Workers :
            worker'[x].pc = "send" /\ worker'[x].outcome = "address" => IsRecorded(QueryOf(x))'
      BY <1>0 DEF IInv, SourcesInv, IsRecorded, QueryOf, Types
    <3> QED
      BY <1>0, <1>7, <3>2, <3>4, <3>5 DEF IInv, SourcesInv, IsRecorded
  <2>5. OnlyLookup(l)
    BY <1>0, <1>4, <1>7, <2>1 DEF OnlyLookup, SameLookup, SameWorker
  <2>6. LookupInv(l)'
    <3>1. NoneIsLost(l) /\ AsksOnce(l)
      BY DEF IInv, LookupInv
    <3>2. /\ Answers(l) = QueriesOf(rs) /\ Answers(l)' = QueriesOf(Tail(rs)) /\ Types' = Types
      BY <1>0, <2>1 DEF Answers, Types
    <3>3. NoneIsLost(l)'
      <4> SUFFICES ASSUME l \notin aborted PROVE NoneIsLost(l)'
        BY <1>0 DEF NoneIsLost
      <4>1. ASSUME NEW q, Settled(l, q) PROVE Settled(l, q)'
        <5>1. q[2] \in TypesIn(found[l]) => q[2] \in TypesIn(new)
          BY <1>2 DEF TypesIn
        <5>2. q[2] \in TypesIn(new) \/ q \in failed'[l]
          BY <1>4, <4>1, <5>1 DEF Settled
        <5> QED
          BY <2>1, <5>2 DEF Settled
      <4>2. ASSUME NEW q, q = query PROVE Settled(l, q)'
        <5>1. q[2] \in TypesIn(new) \/ q \in failed'[l]
          BY <1>2, <1>4, <4>2
        <5> QED
          BY <2>1, <5>1 DEF Settled
      <4>3. ASSUME NEW s \in Servers, NEW k \in DOMAIN Types
            PROVE  \/ Has(servers[l], s) \/ Underway(l, s, k)
                   \/ Has(QueriesOf(Tail(rs)), <<s, Types[k]>>) \/ Settled(l, <<s, Types[k]>>)'
        <5> DEFINE q == <<s, Types[k]>>
        <5>1. Has(servers[l], s) \/ Underway(l, s, k) \/ Has(QueriesOf(rs), q) \/ Settled(l, q)
          BY <1>0, <3>1, <3>2 DEF NoneIsLost
        <5>2. CASE Has(QueriesOf(rs), q)
          <6>1. q = query \/ Has(QueriesOf(Tail(rs)), q)
            BY <1>1, <5>2
          <6>2. q = query => Settled(l, <<s, Types[k]>>)'
            <7>1. <<s, Types[k]>>' = <<s, Types[k]>>
              BY <3>2
            <7> QED
              BY <4>2, <7>1
          <6> QED
            BY <6>1, <6>2
        <5>3. CASE Settled(l, q)
          <6>1. <<s, Types[k]>>' = <<s, Types[k]>>
            BY <3>2
          <6> QED
            BY <4>1, <5>3, <6>1
        <5> QED
          BY <5>1, <5>2, <5>3
      <4>4. \A s, k : Underway(l, s, k)' = Underway(l, s, k)
        BY <1>0 DEF Underway
      <4> QED
        BY <1>0, <1>7, <3>1, <3>2, <4>3, <4>4 DEF NoneIsLost
    <3>4. AsksOnce(l)'
      BY <1>0, <1>1, <1>7, <3>1, <3>2 DEF AsksOnce
    <3>5. EndsSettled(l)'
      BY <1>0, <1>7 DEF EndsSettled
    <3> QED
      BY <1>0, <3>3, <3>4, <3>5 DEF IInv, LookupInv
  <2> QED
    BY <2>2, <2>3, <2>4, <2>5, <2>6, OneLookupFrame DEF IInv
<1> QED
  BY <1>5, <1>6, <1>7

LEMMA CollectEndInv == \A l \in Lookups : IInv /\ CollectEnd(l) => IInv'
<1> SUFFICES ASSUME NEW l \in Lookups, IInv, CollectEnd(l) PROVE IInv'
  OBVIOUS
<1>1. /\ pc[l] = "collect" /\ results[l] = <<>> /\ WorkersEnded(l) /\ Return(l, found[l])
      /\ UNCHANGED <<setting, aborted, servers, worker, found, failed, nextServer, flight, recorded>>
  BY DEF CollectEnd
<1>2. found' = [found EXCEPT ![l] = found[l]] /\ found[l] \in SUBSET Queries
  BY <1>1 DEF IInv, Typed
<1>3. \A q \in found[l] : IsRecorded(q)
  BY DEF IInv, SourcesInv
<1>4. ASSUME l \notin aborted, NEW s \in Servers, NEW k \in DOMAIN Types
      PROVE  Types[k] \in TypesIn(found[l]) \/ <<s, Types[k]>> \in failed'[l]
  <2>1. \A w \in Workers : worker[<<l, w>>].pc \in {"ended", "off"}
    BY <1>1 DEF IInv, WorkersInv, WorkersEnded
  <2>2. ~Underway(l, s, k)
    BY <2>1 DEF Underway, Asking
  <2>3. servers[l] = <<>>
    <3>1. PICK w \in setting.workers : w \in Workers
      BY SettingTypes DEF IInv
    <3>2. worker[<<l, w>>].pc = "ended"
      BY <1>1, <3>1 DEF WorkersEnded
    <3> QED
      BY <1>1, <1>4, <3>1, <3>2 DEF IInv, LookupInv, NoneIsLost
  <2>4. ~Has(servers[l], s) /\ ~Has(Answers(l), <<s, Types[k]>>)
    BY <1>1, <2>3 DEF Has, Answers, QueriesOf
  <2>5. Settled(l, <<s, Types[k]>>)
    BY <1>1, <1>4, <2>2, <2>4 DEF IInv, LookupInv, NoneIsLost
  <2> QED
    BY <1>1, <2>5 DEF Settled
<1>5. failed' \in [Lookups -> SUBSET Queries] /\ \A m \in Lookups \ {l} : failed'[m] = failed[m]
  BY <1>1 DEF IInv, Typed
<1> QED
  BY <1>1, <1>2, <1>3, <1>4, <1>5, ReturnFrame

LEMMA SendInv == \A l \in Lookups, w \in Workers : IInv /\ Send(l, w) => IInv'
<1> SUFFICES ASSUME NEW l \in Lookups, NEW w \in Workers, IInv, Send(l, w) PROVE IInv'
  OBVIOUS
<1> DEFINE lw == <<l, w>>
           old == worker[lw]
           q   == QueryOf(lw)
<1>0. /\ old.pc = "send" /\ old \in WorkerStates /\ q \in Queries
      /\ old.type \in DOMAIN Types /\ q = <<old.server, Types[old.type]>>
      /\ UNCHANGED <<setting, pc, aborted, servers, found, failed, cache, nextServer, flight, recorded>>
  BY QueryType DEF Send, IInv, Typed, WorkerStates, QueryOf
<1>1. PICK x \in WorkerStates :
          /\ worker' = [worker EXCEPT ![lw] = x]
          /\ x.pc \in {"ended", "ask", "take"} /\ x.type <= Len(Types)
          /\ x.pc = "ended" => Stopped(l)
          /\ x.pc = "ask" => x.server = old.server /\ x.type = old.type + 1
          /\ x.pc = "take" => old.type = Len(Types)
          /\ x.pc = "ended" => results' = results
          /\ x.pc # "ended" =>
                results' = IF pc[l] # "collect" THEN results
                           ELSE [results EXCEPT ![l] = Append(@, <<q, old.outcome>>)]
  <2>0. 1 <= Len(Types) /\ old.type \in Nat \ {0} /\ old.type <= Len(Types) /\ Len(Types) \in {1, 2}
    BY <1>0, SettingTypes DEF IInv
  <2>1. CASE /\ worker' = [worker EXCEPT ![lw] = At("ended")] /\ Stopped(l)
             /\ results' = results
    BY <2>0, <2>1, AtType
  <2>2. CASE /\ results' = IF pc[l] # "collect" THEN results
                           ELSE [results EXCEPT ![l] = Append(@, <<q, old.outcome>>)]
             /\ old.type < Len(Types)
             /\ worker' = [worker EXCEPT ![lw] = [At("ask") EXCEPT !.server = old.server,
                                                                   !.type = old.type + 1]]
    <3> DEFINE y == [At("ask") EXCEPT !.server = old.server, !.type = old.type + 1]
    <3>1. y \in WorkerStates /\ y.pc = "ask" /\ y.server = old.server /\ y.type = old.type + 1
      <4>1. At("ask") \in WorkerStates /\ At("ask").pc = "ask"
        BY AtType
      <4>2. old.type + 1 \in 1..2
        <5> DEFINE t == old.type
                   n == Len(Types)
        <5>1. t \in Nat \ {0} /\ n \in {1, 2} /\ t < n
          BY <2>0, <2>2
        <5> HIDE DEF t, n
        <5>2. t + 1 \in 1..2
          BY <5>1
        <5> QED
          BY <5>2 DEF t
      <4>3. old.server \in Servers
        BY <1>0 DEF WorkerStates
      <4> QED
        BY <4>1, <4>2, <4>3 DEF WorkerStates
    <3>2. y.type <= Len(Types)
      BY <2>0, <2>2, <3>1
    <3> HIDE DEF y
    <3>3. worker' = [worker EXCEPT ![lw] = y]
      BY <2>2 DEF y
    <3> QED
      BY <2>2, <3>1, <3>2, <3>3
  <2>3. CASE /\ results' = IF pc[l] # "collect" THEN results
                           ELSE [results EXCEPT ![l] = Append(@, <<q, old.outcome>>)]
             /\ ~(old.type < Len(Types))
             /\ worker' = [worker EXCEPT ![lw] = At("take")]
    <3>1. old.type = Len(Types)
      BY <2>0, <2>3
    <3> QED
      BY <2>0, <2>3, <3>1, AtType
  <2> QED
    BY <2>1, <2>2, <2>3 DEF Send
<1>2. /\ x.pc # "off" /\ x.pc # "send" /\ old.pc # "off" /\ x.type <= Len(Types)
      /\ old.pc \in Asking
  BY <1>0, <1>1 DEF Asking
<1>3. /\ worker' \in [Lookups \X Workers -> WorkerStates]
      /\ worker'[lw] = x
      /\ \A v \in Workers \ {w} : worker'[<<l, v>>] = worker[<<l, v>>]
      /\ \A m \in Lookups \ {l}, v \in Workers : worker'[<<m, v>>] = worker[<<m, v>>]
      /\ (\A m \in Lookups : pc[m] # "collect" => results'[m] = results[m]) => WorkersInv'
      /\ \A y \in Lookups \X Workers : worker'[y].pc = "send" => worker'[y] = worker[y]
  BY <1>0, <1>1, <1>2, WorkerStepFrame
<1> HIDE DEF q, old
<1>4. results' = results \/ (pc[l] = "collect" /\ x.pc # "ended"
                             /\ results' = [results EXCEPT ![l] = Append(@, <<q, old.outcome>>)])
  BY <1>1
<1>5. results[l] \in Seq(Queries \X Outcomes) /\ old.outcome \in Outcomes
  BY <1>0 DEF IInv, Typed, WorkerStates
<1>6. /\ results' \in [Lookups -> Seq(Queries \X Outcomes)]
      /\ \A m \in Lookups \ {l} : results'[m] = results[m]
      /\ \A m \in Lookups : pc[m] # "collect" => results'[m] = results[m]
      /\ results'[l] = results[l] \/ results'[l] = Append(results[l], <<q, old.outcome>>)
  <2>1. <<q, old.outcome>> \in Queries \X Outcomes
    BY <1>0, <1>5
  <2>2. Append(results[l], <<q, old.outcome>>) \in Seq(Queries \X Outcomes)
    BY <1>5, <2>1, AppendFacts
  <2>3. results \in [Lookups -> Seq(Queries \X Outcomes)]
    BY DEF IInv, Typed
  <2>4. CASE results' = results
    BY <2>3, <2>4
  <2>5. CASE pc[l] = "collect" /\ results' = [results EXCEPT ![l] = Append(@, <<q, old.outcome>>)]
    BY <2>2, <2>3, <2>5
  <2> QED
    BY <1>4, <2>4, <2>5
<1>7. Typed'
  BY <1>0, <1>3, <1>6 DEF IInv, Typed, WorkerStates
<1>8. WorkersInv'
  BY <1>3, <1>6
<1>9. SourcesInv'
  <2>1. old.outcome = "address" => IsRecorded(q)
    BY <1>0 DEF IInv, SourcesInv, old, q
  <2>2. ASSUME NEW i \in DOMAIN Append(results[l], <<q, old.outcome>>),
               Append(results[l], <<q, old.outcome>>)[i][2] = "address"
        PROVE  IsRecorded(Append(results[l], <<q, old.outcome>>)[i][1])
    <3> DEFINE e == <<q, old.outcome>>
               n == Len(results[l])
    <3>1. /\ n \in Nat /\ DOMAIN results[l] = 1..n /\ DOMAIN Append(results[l], e) = 1..(n + 1)
          /\ \A j \in DOMAIN results[l] : Append(results[l], e)[j] = results[l][j]
          /\ Append(results[l], e)[n + 1] = e
      BY <1>0, <1>5, AppendFacts
    <3>2. CASE i = n + 1
      <4>1. Append(results[l], e)[i][1] = q /\ old.outcome = "address"
        BY <2>2, <3>1, <3>2
      <4> QED
        BY <2>1, <4>1
    <3>3. CASE i # n + 1
      <4>1. i \in DOMAIN results[l]
        BY <3>1, <3>3
      <4> QED
        BY <2>2, <3>1, <4>1 DEF IInv, SourcesInv
    <3> QED
      BY <3>2, <3>3
  <2>3. ASSUME NEW m \in Lookups, NEW i \in DOMAIN results'[m], results'[m][i][2] = "address"
        PROVE  IsRecorded(results'[m][i][1])
    <3>1. results'[m] = results[m] => IsRecorded(results'[m][i][1])
      BY <2>3 DEF IInv, SourcesInv
    <3>2. results'[m] = results[m] \/ results'[m] = Append(results[l], <<q, old.outcome>>)
      BY <1>6
    <3> QED
      BY <2>2, <2>3, <3>1, <3>2
  <2>4. ASSUME NEW y \in Lookups \X Workers, worker'[y].pc = "send", worker'[y].outcome = "address"
        PROVE  IsRecorded(QueryOf(y))'
    <3>1. worker'[y] = worker[y]
      BY <1>3, <2>4
    <3>2. QueryOf(y)' = QueryOf(y)
      BY <1>0, <3>1 DEF QueryOf, Types
    <3>3. IsRecorded(QueryOf(y))
      BY <2>4, <3>1 DEF IInv, SourcesInv
    <3> QED
      BY <1>0, <3>2, <3>3 DEF IsRecorded
  <2> QED
    BY <1>0, <2>3, <2>4 DEF IInv, SourcesInv, IsRecorded
<1>10. OnlyLookup(l)
  BY <1>0, <1>3, <1>6 DEF OnlyLookup, SameLookup, SameWorker
<1>11. LookupInv(l)'
  <2>0. NoneIsLost(l) /\ AsksOnce(l) /\ EndsSettled(l) /\ Types' = Types
    BY <1>0 DEF IInv, LookupInv, Types
  <2>1. EndsSettled(l)'
    <3>1. l \notin aborted /\ pc[l] \in {"resolved", "failed"} =>
             \A s \in Servers, k \in DOMAIN Types : Settled(l, <<s, Types[k]>>)
      BY <1>2, <2>0 DEF EndsSettled, old
    <3> QED
      BY <1>0, <2>0, <3>1 DEF EndsSettled, Settled
  <2>2. CASE pc[l] # "collect"
    BY <1>0, <2>1, <2>2 DEF IInv, LookupInv, NoneIsLost, AsksOnce
  <2>3. CASE pc[l] = "collect"
    <3> DEFINE As == QueriesOf(results'[l])
    <3>1. /\ Answers(l) = QueriesOf(results[l]) /\ Answers(l)' = As
      BY DEF Answers
    <3>2. /\ \A z : Has(Answers(l), z) => Has(As, z)
          /\ \A z : Has(As, z) => z = q \/ Has(Answers(l), z)
          /\ x.pc # "ended" => Has(As, q)
          /\ Distinct(Answers(l)) /\ ~Has(Answers(l), q) => Distinct(As)
      <4>1. /\ \A z : Has(QueriesOf(Append(results[l], <<q, old.outcome>>)), z)
                         <=> z = q \/ Has(QueriesOf(results[l]), z)
            /\ Distinct(QueriesOf(results[l])) /\ ~Has(QueriesOf(results[l]), q)
                  => Distinct(QueriesOf(Append(results[l], <<q, old.outcome>>)))
        <5> DEFINE rs == results[l]
                   o  == old.outcome
        <5>1. rs \in Seq(Queries \X Outcomes) /\ o \in Outcomes /\ q \in Queries
          BY <1>0, <1>5
        <5> HIDE DEF rs, o
        <5>2. /\ \A z : Has(QueriesOf(Append(rs, <<q, o>>)), z) <=> z = q \/ Has(QueriesOf(rs), z)
              /\ Distinct(QueriesOf(rs)) /\ ~Has(QueriesOf(rs), q)
                    => Distinct(QueriesOf(Append(rs, <<q, o>>)))
          BY <5>1, QueriesOfAppend
        <5> QED
          BY <5>2 DEF rs, o
      <4>2. \/ results'[l] = results[l] /\ x.pc = "ended"
            \/ results'[l] = Append(results[l], <<q, old.outcome>>)
        BY <1>1, <2>3 DEF IInv, Typed, q, old
      <4>3. CASE results'[l] = results[l] /\ x.pc = "ended"
        BY <3>1, <4>3
      <4>4. CASE results'[l] = Append(results[l], <<q, old.outcome>>)
        BY <3>1, <4>1, <4>4
      <4> QED
        BY <4>2, <4>3, <4>4
    <3> HIDE DEF As
    <3>3. ~Has(servers[l], old.server)
      BY <1>2, <2>0, <2>3 DEF AsksOnce, old
    <3>4. ~Has(Answers(l), q)
      <4> SUFFICES ASSUME Has(Answers(l), q) PROVE FALSE
        OBVIOUS
      <4>1. q[1] = old.server /\ q[2] = Types[old.type] /\ old.type \in DOMAIN Types
        BY <1>0
      <4>2. PICK k \in 1..(old.type - 1) : q[2] = Types[k]
        BY <1>0, <1>2, <2>0, <2>3, <4>1 DEF AsksOnce, old
      <4>3. k \in DOMAIN Types /\ k # old.type
        BY <4>1, SettingTypes DEF IInv
      <4> QED
        BY <4>1, <4>2, <4>3, SettingTypes DEF IInv
    <3>5. \A v \in Workers \ {w} : worker[<<l, v>>].pc \in Asking => worker[<<l, v>>].server # old.server
      BY <1>2, <2>0, <2>3 DEF AsksOnce, old
    <3>6. NoneIsLost(l)'
      <4> SUFFICES ASSUME l \notin aborted PROVE NoneIsLost(l)'
        BY <1>0 DEF NoneIsLost
      <4>1. x.pc # "ended"
        BY <1>1, <2>3 DEF Stopped
      <4>2. \A v \in Workers : worker'[<<l, v>>].pc = "ended" => servers[l] = <<>>
        BY <1>3, <2>0, <2>3, <4>1 DEF NoneIsLost
      <4>3. ASSUME NEW s \in Servers, NEW k \in DOMAIN Types, Underway(l, s, k)
            PROVE  Underway(l, s, k)' \/ <<s, Types[k]>> = q
        <5>1. PICK v \in Workers : /\ worker[<<l, v>>].pc \in Asking /\ worker[<<l, v>>].server = s
                                   /\ worker[<<l, v>>].type <= k
          BY <4>3 DEF Underway
        <5>2. CASE v # w
          BY <1>3, <5>1, <5>2 DEF Underway
        <5>3. CASE v = w /\ old.type = k
          BY <1>0, <5>1, <5>3 DEF old
        <5>4. CASE v = w /\ old.type # k
          <6>1. old.type < k /\ k <= Len(Types) /\ old.type \in Nat /\ k \in Nat /\ old.server = s
            BY <1>0, <5>1, <5>4, SettingTypes DEF IInv, old
          <6>2. x.pc = "ask"
            BY <1>1, <4>1, <6>1 DEF old
          <6>3. x.server = s /\ x.type <= k
            BY <1>1, <6>1, <6>2 DEF old
          <6> QED
            BY <1>3, <6>2, <6>3 DEF Underway, Asking
        <5> QED
          BY <5>2, <5>3, <5>4
      <4>4. \A z : Settled(l, z)' = Settled(l, z)
        BY <1>0 DEF Settled
      <4>5. ASSUME NEW s \in Servers, NEW k \in DOMAIN Types
            PROVE  \/ Has(servers[l], s) \/ Underway(l, s, k)'
                   \/ Has(As, <<s, Types[k]>>) \/ Settled(l, <<s, Types[k]>>)
        <5>1. \/ Has(servers[l], s) \/ Underway(l, s, k)
              \/ Has(Answers(l), <<s, Types[k]>>) \/ Settled(l, <<s, Types[k]>>)
          BY <2>0, <2>3 DEF NoneIsLost
        <5> QED
          BY <3>2, <4>1, <4>3, <5>1
      <4> QED
        BY <1>0, <2>0, <3>1, <4>2, <4>4, <4>5 DEF NoneIsLost
    <3>7. AsksOnce(l)'
      <4>1. ASSUME NEW v \in Workers, worker'[<<l, v>>].pc \in Asking
            PROVE  /\ worker[<<l, v>>].pc \in Asking /\ worker'[<<l, v>>].server = worker[<<l, v>>].server
                   /\ \/ v # w /\ worker'[<<l, v>>] = worker[<<l, v>>]
                      \/ v = w /\ worker'[<<l, v>>].type = old.type + 1
        <5>1. CASE v = w
          <6>1. x.pc = "ask"
            BY <1>1, <1>3, <4>1, <5>1 DEF Asking
          <6> QED
            BY <1>1, <1>2, <1>3, <5>1, <6>1 DEF old
        <5>2. CASE v # w
          BY <1>3, <4>1, <5>2
        <5> QED
          BY <5>1, <5>2
      <4>2. ASSUME NEW v \in Workers, worker'[<<l, v>>].pc \in Asking
            PROVE  /\ ~Has(servers[l], worker'[<<l, v>>].server)
                   /\ \A u \in Workers :
                         worker'[<<l, u>>].pc \in Asking /\ worker'[<<l, u>>].server = worker'[<<l, v>>].server
                            => u = v
        BY <2>0, <2>3, <4>1, <4>2 DEF AsksOnce
      <4>3. ASSUME NEW z \in Queries, Has(As, z)
            PROVE  /\ ~Has(servers[l], z[1])
                   /\ \A v \in Workers :
                         worker'[<<l, v>>].pc \in Asking /\ worker'[<<l, v>>].server = z[1]
                            => \E k \in 1..(worker'[<<l, v>>].type - 1) : z[2] = Types[k]
        <5>1. z = q \/ Has(Answers(l), z)
          BY <3>2, <4>3
        <5>2. ~Has(servers[l], z[1])
          BY <1>0, <2>0, <2>3, <3>3, <5>1 DEF AsksOnce
        <5>3. ASSUME NEW v \in Workers, worker'[<<l, v>>].pc \in Asking, worker'[<<l, v>>].server = z[1]
              PROVE  \E k \in 1..(worker'[<<l, v>>].type - 1) : z[2] = Types[k]
          <6>1. CASE z = q
            <7>1. z[1] = old.server /\ z[2] = Types[old.type]
              BY <1>0, <6>1
            <7>2. v = w
              BY <3>5, <4>1, <5>3, <7>1
            <7>3. worker'[<<l, v>>].type = old.type + 1 /\ old.type \in 1..(old.type + 1 - 1)
              BY <1>0, <4>1, <5>3, <7>2, SettingTypes DEF IInv
            <7> QED
              BY <7>1, <7>3
          <6>2. CASE Has(Answers(l), z)
            <7>1. PICK k \in 1..(worker[<<l, v>>].type - 1) : z[2] = Types[k]
              BY <2>0, <2>3, <4>1, <5>3, <6>2 DEF AsksOnce
            <7>2. k \in 1..(worker'[<<l, v>>].type - 1)
              <8>1. worker[<<l, v>>].type \in 1..2
                BY DEF IInv, Typed
              <8>2. worker'[<<l, v>>].type = worker[<<l, v>>].type \/ worker'[<<l, v>>].type = worker[<<l, v>>].type + 1
                BY <4>1, <5>3 DEF old
              <8> QED
                BY <7>1, <8>1, <8>2
            <7> QED
              BY <7>1, <7>2
          <6> QED
            BY <5>1, <6>1, <6>2
        <5> QED
          BY <5>2, <5>3
      <4>4. Distinct(servers[l]) /\ Distinct(As)
        BY <2>0, <2>3, <3>2, <3>4 DEF AsksOnce
      <4> QED
        BY <1>0, <2>0, <3>1, <4>2, <4>3, <4>4 DEF AsksOnce
    <3> QED
      BY <1>0, <2>1, <3>6, <3>7 DEF IInv, LookupInv
  <2> QED
    BY <2>2, <2>3
<1> QED
  BY <1>7, <1>8, <1>9, <1>10, <1>11, OneLookupFrame DEF IInv

-----------------------------------------------------------------------------
(***************************************************************************)
(* The invariant, and what follows from it.                                *)
(***************************************************************************)

LEMMA InvNext == IInv /\ [Next]_vars => IInv'
<1> SUFFICES ASSUME IInv, [Next]_vars PROVE IInv'
  OBVIOUS
<1>1. CASE UNCHANGED vars
  <2>1. WorkersInv' /\ \A l \in Lookups : LookupInv(l)'
    BY <1>1, QuietFrame DEF vars, SameWorker
  <2>2. SourcesInv'
    BY <1>1, SourcesFrame DEF IInv, vars
  <2> QED
    BY <1>1, <2>1, <2>2 DEF IInv, Typed, vars
<1>2. ASSUME NEW l \in Lookups, Proceed(l) \/ Cancel(l) PROVE IInv'
  BY <1>2, StartInv, CollectInv, CollectEndInv, CancelInv DEF Proceed
<1>3. ASSUME NEW l \in Lookups, NEW w \in Workers, Work(l, w) PROVE IInv'
  BY <1>3, TakeInv, AskInv, ExchangeContextInv, WriteRecordInv, SendInv DEF Work
<1>4. ASSUME NEW c \in Clients, CacheExpires(c) PROVE IInv'
  BY <1>4, CacheExpiresInv
<1> QED
  BY <1>1, <1>2, <1>3, <1>4 DEF Next

LEMMA InvAlways == Spec => []IInv
  BY InvInit, InvNext, PTL DEF Spec

\* A sequence of different elements of a set is no longer than the set.
LEMMA DistinctFits ==
  ASSUME NEW S, IsFiniteSet(S), NEW s \in Seq(S), Distinct(s)
  PROVE  Len(s) <= Cardinality(S)
<1>1. Len(s) \in Nat /\ DOMAIN s = 1..Len(s) /\ s \in [1..Len(s) -> S]
  BY LenProperties, ElementOfSeq
<1>2. s \in Injection(1..Len(s), S)
  BY <1>1 DEF Distinct, Injection, IsInjective
<1>3. IsFiniteSet(1..Len(s)) /\ Cardinality(1..Len(s)) = Len(s)
  <2>1. IsFiniteSet(1..Len(s)) /\ Cardinality(1..Len(s)) = IF 1 > Len(s) THEN 0 ELSE Len(s) - 1 + 1
    BY <1>1, FS_Interval
  <2> QED
    BY <1>1, <2>1
<1> QED
  BY <1>2, <1>3, FS_Injection

LEMMA TwoQueriesPerServer == IsFiniteSet(Queries) /\ Cardinality(Queries) = 2 * NServers
<1> DEFINE T == {"A", "AAAA"}
<1>1. IsFiniteSet(Servers) /\ Cardinality(Servers) = NServers
  <2>1. NServers \in Nat \ {0} /\ NServers - 1 \in Int /\ 0 \in Int
    BY ResolveAssumption
  <2>2. /\ IsFiniteSet(0..(NServers - 1))
        /\ Cardinality(0..(NServers - 1)) = IF 0 > NServers - 1 THEN 0 ELSE (NServers - 1) - 0 + 1
    BY <2>1, FS_Interval
  <2> QED
    BY <2>1, <2>2 DEF Servers
<1>2. IsFiniteSet(T) /\ Cardinality(T) = 2
  <2>1. IsFiniteSet({"A"}) /\ Cardinality({"A"}) = 1
    BY FS_Singleton
  <2>2. T = {"A"} \cup {"AAAA"} /\ "AAAA" \notin {"A"}
    OBVIOUS
  <2>3. IsFiniteSet({"A"} \cup {"AAAA"}) /\ Cardinality({"A"} \cup {"AAAA"}) = Cardinality({"A"}) + 1
    BY <2>1, <2>2, FS_AddElement
  <2> QED
    BY <2>1, <2>2, <2>3
<1> HIDE DEF T
<1>3. IsFiniteSet(Servers \X T) /\ Cardinality(Servers \X T) = Cardinality(Servers) * Cardinality(T)
  BY <1>1, <1>2, FS_Product
<1>4. Cardinality(Servers \X T) = 2 * NServers
  BY <1>1, <1>2, <1>3, ResolveAssumption
<1> QED
  BY <1>3, <1>4 DEF Queries, T

\* Every variable of a lookup keeps its type, and the channels of the code are
\* large enough for all that is sent: a worker never waits for room in them.
THEOREM ResolveTypeCorrect == Spec => []TypeOK
<1>1. IInv => TypeOK
  <2> SUFFICES ASSUME IInv PROVE TypeOK
    OBVIOUS
  <2>1. ASSUME NEW l \in Lookups PROVE Len(results[l]) <= 2 * NServers
    <3>1. results[l] \in Seq(Queries \X Outcomes)
      BY DEF IInv, Typed
    <3>2. CASE pc[l] # "collect"
      <4>1. results[l] = <<>> /\ Len(<<>>) = 0 /\ NServers \in Nat
        BY <3>2, ResolveAssumption DEF IInv, WorkersInv
      <4> QED
        BY <4>1
    <3>3. CASE pc[l] = "collect"
      <4>1. Distinct(QueriesOf(results[l]))
        BY <3>3 DEF IInv, LookupInv, AsksOnce, Answers
      <4>2. QueriesOf(results[l]) \in Seq(Queries) /\ Len(QueriesOf(results[l])) = Len(results[l])
        <5>1. <<0, "A">> \in Queries
          BY ResolveAssumption DEF Queries, Servers
        <5> QED
          BY <3>1, <5>1, QueriesOfAppend
      <4> QED
        BY <4>1, <4>2, DistinctFits, TwoQueriesPerServer
    <3> QED
      BY <3>2, <3>3
  <2>2. \A l \in Lookups : Len(servers[l]) <= NServers
    BY DEF IInv, LookupInv
  <2> QED
    BY <2>1, <2>2 DEF IInv, TypeOK, ChannelsHold
<1> QED
  BY <1>1, InvAlways, PTL

\* An address is used, or kept, only if its response was archived.  A shared
\* query is archived by the client that asks it: so this is true of a process
\* with one client, and with more of them the response is in the WARC files of
\* one (UsedIsSomewhere).
THEOREM UsedIsArchivedHolds ==
  ASSUME NEW c, Clients = {c}
  PROVE  Spec => []UsedIsArchived
<1>1. IInv => UsedIsArchived
  <2> SUFFICES ASSUME IInv PROVE UsedIsArchived
    OBVIOUS
  <2>1. \A q : IsRecorded(q) => <<c, q>> \in recorded
    BY DEF IsRecorded
  <2>2. \A l \in Lookups : ClientOf[l] = c
    BY ResolveAssumption
  <2> QED
    BY <2>1, <2>2 DEF IInv, SourcesInv, UsedIsArchived
<1> QED
  BY <1>1, InvAlways, PTL

\* With any number of clients, an address is used or kept only if its response
\* is in the WARC files of one of them.
THEOREM UsedIsSomewhere ==
  Spec => []( /\ \A l \in Lookups : \A q \in found[l] : IsRecorded(q)
              /\ \A c \in Clients : \A q \in cache[c] : IsRecorded(q))
<1>1. IInv => /\ \A l \in Lookups : \A q \in found[l] : IsRecorded(q)
              /\ \A c \in Clients : \A q \in cache[c] : IsRecorded(q)
  BY DEF IInv, SourcesInv
<1> QED
  BY <1>1, InvAlways, PTL

\* A lookup that nobody cancelled ends without an address of a type only if
\* every server was asked for it, and in vain.
THEOREM MissingMeansAllFailedHolds == Spec => []MissingMeansAllFailed
<1>1. IInv => MissingMeansAllFailed
  <2> SUFFICES ASSUME IInv, NEW l \in Lookups \ aborted, pc[l] \in {"resolved", "failed"},
                      ~\A w \in Workers : worker[<<l, w>>].pc = "off",
                      NEW q \in Servers \X {Types[i] : i \in DOMAIN Types}
               PROVE  q[2] \in TypesIn(found[l]) \/ q \in failed[l]
    BY DEF MissingMeansAllFailed
  <2>1. PICK s \in Servers, k \in DOMAIN Types : q = <<s, Types[k]>>
    OBVIOUS
  <2>2. Settled(l, <<s, Types[k]>>)
    BY DEF IInv, LookupInv, EndsSettled
  <2> QED
    BY <2>1, <2>2 DEF Settled
<1> QED
  BY <1>1, InvAlways, PTL

-----------------------------------------------------------------------------
(***************************************************************************)
(* Shared queries: nobody waits for a worker that is not at work.          *)
(***************************************************************************)

Sharing == {"lead", "record", "follow"}

\* The step leaves a worker as far as the query it shares goes.
SameShare(x) ==
    \/ worker'[x] = worker[x]
    \/ worker[x].pc \notin Sharing /\ worker'[x].pc \notin Sharing
    \/ /\ worker[x].pc = "lead" /\ worker'[x].pc = "record"
       /\ worker'[x].server = worker[x].server /\ worker'[x].type = worker[x].type

LEMMA FlightFacts ==
  ASSUME IInv, NEW q \in Queries, flight[q] # NoFlight
  PROVE  flight[q] \in Lookups \X Workers
  BY DEF IInv, Typed

LEMMA SharedFrame ==
  ASSUME IInv, LeadersInv, setting' = setting, flight' = flight,
         \A x \in Lookups \X Workers : SameShare(x)
  PROVE  LeadersInv'
<1>1. \A x \in Lookups \X Workers :
         worker[x].pc \in Sharing \/ worker'[x].pc \in Sharing =>
             /\ worker'[x].server = worker[x].server /\ worker'[x].type = worker[x].type
             /\ worker'[x].pc = "follow" <=> worker[x].pc = "follow"
             /\ worker'[x].pc \in {"lead", "record"} <=> worker[x].pc \in {"lead", "record"}
  BY DEF SameShare, Sharing
<1>2. \A q \in Queries : flight[q] # NoFlight => flight[q] \in Lookups \X Workers
  BY FlightFacts
<1>3. Types' = Types
  BY DEF Types
<1>4. \A x \in Lookups \X Workers :
         worker[x].pc \in Sharing \/ worker'[x].pc \in Sharing =>
            <<worker'[x].server, Types'[worker'[x].type]>> = QueryOf(x)
  BY <1>1, <1>3 DEF QueryOf
<1>5. ASSUME NEW q \in Queries, flight[q] # NoFlight
      PROVE  /\ worker'[flight[q]].pc \in {"lead", "record"}
             /\ <<worker'[flight[q]].server, Types'[worker'[flight[q]].type]>> = q
  BY <1>1, <1>2, <1>4, <1>5 DEF LeadersInv, Sharing
<1>6. ASSUME NEW x \in Lookups \X Workers
      PROVE  /\ worker'[x].pc = "follow" =>
                    flight[<<worker'[x].server, Types'[worker'[x].type]>>] # NoFlight
             /\ worker'[x].pc \in {"lead", "record"} =>
                    flight[<<worker'[x].server, Types'[worker'[x].type]>>] = x
  BY <1>1, <1>4 DEF LeadersInv, Sharing
<1> QED
  BY <1>5, <1>6 DEF LeadersInv, QueryOf

\* A worker that asks: it leads if nobody does.
LEMMA AskShared ==
  ASSUME IInv, LeadersInv, NEW l \in Lookups, NEW w \in Workers, Ask(l, w)
  PROVE  LeadersInv'
<1> DEFINE lw == <<l, w>>
           q0 == QueryOf(lw)
<1>1. lw \in Lookups \X Workers /\ worker[lw].pc = "ask" /\ lw # NoFlight /\ setting' = setting
  BY DEF Ask, NoFlight
<1>2. q0 \in Queries
  BY <1>1, QueryType DEF IInv
<1>3. worker \in [Lookups \X Workers -> WorkerStates]
      /\ flight \in [Queries -> {NoFlight} \cup (Lookups \X Workers)]
  BY DEF IInv, Typed, WorkerStates
<1>4. Types' = Types
  BY <1>1 DEF Types
<1>5. PICK p \in {"lead", "follow"} :
          /\ worker' = [worker EXCEPT ![lw].pc = p]
          /\ IF p = "lead" THEN flight[q0] = NoFlight /\ flight' = [flight EXCEPT ![q0] = lw]
             ELSE flight[q0] # NoFlight /\ flight' = flight
  BY DEF Ask
<1>6. /\ worker'[lw].pc = p /\ worker'[lw].server = worker[lw].server /\ worker'[lw].type = worker[lw].type
      /\ \A x \in Lookups \X Workers : x # lw => worker'[x] = worker[x]
  <2>1. worker[lw] \in WorkerStates
    BY <1>1, <1>3
  <2>2. worker'[lw] = [worker[lw] EXCEPT !.pc = p]
    BY <1>1, <1>3, <1>5
  <2>3. \A x \in Lookups \X Workers : x # lw => worker'[x] = worker[x]
    <3> HIDE DEF lw
    <3> QED
      BY <1>1, <1>3, <1>5
  <2> QED
    BY <2>1, <2>2, <2>3 DEF WorkerStates
<1>7. \A x \in Lookups \X Workers : <<worker'[x].server, Types'[worker'[x].type]>> = QueryOf(x)
  BY <1>4, <1>6 DEF QueryOf
<1>8. \A q \in Queries : /\ flight[q] # NoFlight => flight'[q] = flight[q]
                         /\ flight'[q] # flight[q] => q = q0 /\ p = "lead" /\ flight'[q] = lw
                         /\ q = q0 => flight'[q] # NoFlight
                         /\ q = q0 /\ p = "lead" => flight'[q] = lw
  <2> HIDE DEF lw, q0
  <2> QED
    BY <1>1, <1>2, <1>3, <1>5
<1>9. \A q \in Queries : flight[q] # NoFlight => flight[q] \in Lookups \X Workers /\ flight[q] # lw
  BY <1>1, <1>3 DEF LeadersInv
<1>10. ASSUME NEW q \in Queries, flight'[q] # NoFlight
       PROVE  /\ worker'[flight'[q]].pc \in {"lead", "record"}
              /\ <<worker'[flight'[q]].server, Types'[worker'[flight'[q]].type]>> = q
  <2>1. CASE flight'[q] = flight[q]
    <3>1. flight[q] \in Lookups \X Workers /\ flight[q] # lw
      BY <1>9, <1>10, <2>1
    <3>2. worker'[flight[q]] = worker[flight[q]]
      BY <1>6, <3>1
    <3> QED
      BY <1>7, <1>10, <2>1, <3>1, <3>2 DEF LeadersInv
  <2>2. CASE flight'[q] # flight[q]
    BY <1>1, <1>6, <1>7, <1>8, <2>2
  <2> QED
    BY <2>1, <2>2
<1>11. ASSUME NEW x \in Lookups \X Workers
       PROVE  /\ worker'[x].pc = "follow" =>
                     flight'[<<worker'[x].server, Types'[worker'[x].type]>>] # NoFlight
              /\ worker'[x].pc \in {"lead", "record"} =>
                     flight'[<<worker'[x].server, Types'[worker'[x].type]>>] = x
  <2>0. QueryOf(x) \in Queries
    BY QueryType DEF IInv
  <2>1. CASE x = lw
    BY <1>2, <1>6, <1>7, <1>8, <2>1
  <2>2. CASE x # lw
    <3>1. worker'[x] = worker[x]
      BY <1>6, <2>2
    <3>2. worker[x].pc \in {"lead", "record"} => flight[QueryOf(x)] # NoFlight
      <4>1. x # NoFlight
        BY DEF NoFlight
      <4> QED
        BY <4>1 DEF LeadersInv
    <3> QED
      BY <1>7, <1>8, <2>0, <3>1, <3>2 DEF LeadersInv
  <2> QED
    BY <2>1, <2>2
<1> QED
  BY <1>10, <1>11 DEF LeadersInv, QueryOf

\* When a query is over nobody follows it any more.
LEMMA LandShared ==
  ASSUME IInv, LeadersInv, NEW l \in Lookups, NEW w \in Workers, NEW outcome \in Outcomes,
         worker[<<l, w>>].pc \in {"lead", "record"}, Land(l, w, outcome), setting' = setting
  PROVE  /\ LeadersInv'
         /\ \A x \in Lookups \X Workers : worker'[x].pc = "off" => worker[x].pc = "off"
<1> DEFINE lw == <<l, w>>
           q0 == QueryOf(lw)
           With(x) == x = lw \/ (worker[x].pc = "follow" /\ QueryOf(x) = q0)
<1>1. lw \in Lookups \X Workers /\ q0 \in Queries
  BY QueryType DEF IInv
<1>2. worker \in [Lookups \X Workers -> WorkerStates]
      /\ flight \in [Queries -> {NoFlight} \cup (Lookups \X Workers)]
  BY DEF IInv, Typed, WorkerStates
<1>3. \A x \in Lookups \X Workers : IF With(x) THEN worker'[x].pc = "send" ELSE worker'[x] = worker[x]
  <2>1. \A x \in Lookups \X Workers :
           worker'[x] = IF With(x) THEN [worker[x] EXCEPT !.pc = "send", !.outcome = outcome]
                        ELSE worker[x]
    BY DEF Land
  <2>2. \A x \in Lookups \X Workers : [worker[x] EXCEPT !.pc = "send", !.outcome = outcome].pc = "send"
    BY <1>2 DEF WorkerStates
  <2> QED
    BY <2>1, <2>2
<1>4. flight'[q0] = NoFlight /\ \A q \in Queries : q # q0 => flight'[q] = flight[q]
  <2> HIDE DEF lw
  <2>1. flight' = [flight EXCEPT ![q0] = NoFlight]
    BY DEF Land, lw
  <2> HIDE DEF q0
  <2> QED
    BY <1>1, <1>2, <2>1
<1>5. Types' = Types /\ flight[q0] = lw
  BY <1>1 DEF Types, LeadersInv
<1> HIDE DEF lw, q0
<1>6. ASSUME NEW x \in Lookups \X Workers, worker'[x].pc \in Sharing
      PROVE  /\ worker'[x] = worker[x] /\ QueryOf(x) # q0 /\ QueryOf(x) \in Queries
             /\ <<worker'[x].server, Types'[worker'[x].type]>> = QueryOf(x)
  <2>1. worker'[x] = worker[x] /\ ~With(x)
    BY <1>3, <1>6 DEF Sharing
  <2>2. worker[x].pc \in {"lead", "record"} => flight[QueryOf(x)] = x
    BY DEF LeadersInv
  <2>3. QueryOf(x) # q0
    BY <1>5, <1>6, <2>1, <2>2 DEF Sharing
  <2>4. QueryOf(x) \in Queries
    BY QueryType DEF IInv
  <2> QED
    BY <1>5, <2>1, <2>3, <2>4 DEF QueryOf
<1>7. ASSUME NEW q \in Queries, flight'[q] # NoFlight
      PROVE  /\ worker'[flight'[q]].pc \in {"lead", "record"}
             /\ <<worker'[flight'[q]].server, Types'[worker'[flight'[q]].type]>> = q
  <2>1. q # q0 /\ flight'[q] = flight[q] /\ flight[q] \in Lookups \X Workers
    BY <1>2, <1>4, <1>7
  <2>2. worker[flight[q]].pc \in {"lead", "record"} /\ QueryOf(flight[q]) = q
    BY <1>7, <2>1 DEF LeadersInv
  <2>3. ~With(flight[q])
    BY <1>5, <2>1, <2>2 DEF q0
  <2>4. worker'[flight[q]] = worker[flight[q]]
    BY <1>3, <2>1, <2>3
  <2> QED
    BY <1>5, <2>1, <2>2, <2>4 DEF QueryOf
<1>8. ASSUME NEW x \in Lookups \X Workers
      PROVE  /\ worker'[x].pc = "follow" =>
                    flight'[<<worker'[x].server, Types'[worker'[x].type]>>] # NoFlight
             /\ worker'[x].pc \in {"lead", "record"} =>
                    flight'[<<worker'[x].server, Types'[worker'[x].type]>>] = x
  BY <1>4, <1>6 DEF LeadersInv, Sharing
<1>9. LeadersInv'
  BY <1>7, <1>8 DEF LeadersInv, QueryOf
<1>10. \A x \in Lookups \X Workers : worker'[x].pc = "off" => worker[x].pc = "off"
  BY <1>3
<1> QED
  BY <1>9, <1>10

LEMMA StartedFrame ==
  ASSUME IInv, WorkersStarted, setting' = setting,
         \A l \in Lookups : pc'[l] = "collect" => pc[l] = "collect",
         \A x \in Lookups \X Workers : worker'[x].pc = "off" => worker[x].pc = "off"
  PROVE  WorkersStarted'
<1>1. setting.workers = setting'.workers /\ setting.workers \subseteq Workers
  BY SettingTypes DEF IInv
<1>2. ASSUME NEW l \in Lookups, pc'[l] = "collect", NEW w \in setting'.workers
      PROVE  worker'[<<l, w>>].pc # "off"
  <2>1. <<l, w>> \in Lookups \X Workers
    BY <1>1
  <2>2. worker[<<l, w>>].pc # "off"
    BY <1>1, <1>2 DEF WorkersStarted
  <2> QED
    BY <2>1, <2>2
<1> QED
  BY <1>2 DEF WorkersStarted

\* A step of one worker that neither begins to share a query nor ends it.
LEMMA WorkerShared ==
  ASSUME IInv, LeadersInv, WorkersStarted, NEW l \in Lookups, NEW w \in Workers,
         setting' = setting, flight' = flight, pc' = pc,
         worker' \in [Lookups \X Workers -> WorkerStates],
         \A x \in Lookups \X Workers : x # <<l, w>> => worker'[x] = worker[x],
         worker[<<l, w>>].pc \notin Sharing, worker'[<<l, w>>].pc \notin Sharing,
         worker'[<<l, w>>].pc # "off"
  PROVE  LeadersInv' /\ WorkersStarted'
<1>1. \A x \in Lookups \X Workers : SameShare(x)
  BY DEF SameShare
<1>2. LeadersInv'
  BY <1>1, SharedFrame
<1>3. WorkersStarted'
  BY StartedFrame
<1> QED
  BY <1>2, <1>3

LEMMA WorkShared ==
  ASSUME IInv, IInv', LeadersInv, WorkersStarted, NEW l \in Lookups, NEW w \in Workers, Work(l, w)
  PROVE  LeadersInv' /\ WorkersStarted'
<1> DEFINE lw == <<l, w>>
<1>1. lw \in Lookups \X Workers /\ setting' = setting /\ pc' = pc
  BY DEF Work, Take, Ask, ExchangeContext, WriteRecord, Send
<1>2. /\ worker \in [Lookups \X Workers -> WorkerStates]
      /\ worker' \in [Lookups \X Workers -> WorkerStates]
  BY DEF IInv, Typed, WorkerStates
<1>3. worker[lw] \in WorkerStates
  BY <1>1, <1>2
<1>4. CASE Take(l, w)
  <2>1. worker[lw].pc = "take" /\ flight' = flight
    BY <1>4 DEF Take
  <2>2. \E v : worker' = [worker EXCEPT ![lw] = v] /\ v.pc \in {"ended", "ask"}
    <3>1. CASE worker' = [worker EXCEPT ![lw] = At("ended")]
      BY <3>1, AtType
    <3>2. CASE worker' = [worker EXCEPT ![lw] = [At("ask") EXCEPT !.server = Head(servers[l])]]
      <4>1. [At("ask") EXCEPT !.server = Head(servers[l])].pc = "ask"
        BY DEF At
      <4> QED
        BY <3>2, <4>1
    <3> QED
      BY <1>4, <3>1, <3>2 DEF Take, AfterLastServer
  <2>3. worker'[lw].pc \in {"ended", "ask"} /\ \A x \in Lookups \X Workers : x # lw => worker'[x] = worker[x]
    <3> HIDE DEF lw
    <3> QED
      BY <1>1, <1>2, <2>2
  <2> QED
    BY <1>1, <1>2, <2>1, <2>3, WorkerShared DEF Sharing
<1>5. CASE Ask(l, w)
  <2>1. LeadersInv'
    BY <1>5, AskShared
  <2>2. worker[lw].pc = "ask" /\ \E p \in {"lead", "follow"} : worker' = [worker EXCEPT ![lw].pc = p]
    BY <1>5 DEF Ask
  <2>3. \A x \in Lookups \X Workers : worker'[x].pc = "off" => worker[x].pc = "off"
    <3> HIDE DEF lw
    <3> QED
      BY <1>1, <1>2, <1>3, <2>2 DEF WorkerStates
  <2> QED
    BY <1>1, <2>1, <2>3, StartedFrame
<1>6. CASE ExchangeContext(l, w)
  <2>1. worker[lw].pc = "lead"
    BY <1>6 DEF ExchangeContext
  <2>2. CASE /\ \E r \in {"address", "failure"} :
                  worker' = [worker EXCEPT ![lw].pc = "record", ![lw].outcome = r]
             /\ UNCHANGED flight
    <3>1. PICK r \in {"address", "failure"} : worker' = [worker EXCEPT ![lw] = [worker[lw] EXCEPT !.pc = "record", !.outcome = r]]
      BY <2>2
    <3> DEFINE v == [worker[lw] EXCEPT !.pc = "record", !.outcome = r]
    <3>2. v.pc = "record" /\ v.server = worker[lw].server /\ v.type = worker[lw].type
      BY <1>3 DEF WorkerStates
    <3> HIDE DEF v
    <3>3. worker' = [worker EXCEPT ![lw] = v]
      BY <3>1 DEF v
    <3>4. worker'[lw] = v /\ \A x \in Lookups \X Workers : x # lw => worker'[x] = worker[x]
      <4> HIDE DEF lw
      <4> QED
        BY <1>1, <1>2, <3>3
    <3>5. \A x \in Lookups \X Workers : SameShare(x) /\ (worker'[x].pc = "off" => worker[x].pc = "off")
      <4> HIDE DEF lw
      <4> QED
        BY <2>1, <3>2, <3>4 DEF SameShare
    <3>6. LeadersInv'
      BY <1>1, <2>2, <3>5, SharedFrame
    <3> QED
      BY <1>1, <3>5, <3>6, StartedFrame
  <2>3. CASE Land(l, w, "failure")
    <3>1. /\ LeadersInv'
          /\ \A x \in Lookups \X Workers : worker'[x].pc = "off" => worker[x].pc = "off"
      BY <1>1, <2>1, <2>3, LandShared
    <3> QED
      BY <1>1, <3>1, StartedFrame
  <2> QED
    BY <1>6, <2>2, <2>3 DEF ExchangeContext
<1>7. CASE WriteRecord(l, w)
  <2>1. worker[lw].pc = "record" /\ Land(l, w, worker[lw].outcome) /\ worker[lw].outcome \in Outcomes
    BY <1>3, <1>7 DEF WriteRecord, WorkerStates
  <2>2. /\ LeadersInv'
        /\ \A x \in Lookups \X Workers : worker'[x].pc = "off" => worker[x].pc = "off"
    BY <1>1, <2>1, LandShared
  <2> QED
    BY <1>1, <2>2, StartedFrame
<1>8. CASE Send(l, w)
  <2>1. worker[lw].pc = "send" /\ flight' = flight
    BY <1>8 DEF Send
  <2>2. \E v : worker' = [worker EXCEPT ![lw] = v] /\ v.pc \in {"ended", "ask", "take"}
    <3>1. CASE worker' = [worker EXCEPT ![lw] = At("ended")] \/ worker' = [worker EXCEPT ![lw] = At("take")]
      BY <3>1, AtType
    <3>2. CASE worker' = [worker EXCEPT ![lw] = [At("ask") EXCEPT !.server = worker[lw].server,
                                                                 !.type = worker[lw].type + 1]]
      <4>1. [At("ask") EXCEPT !.server = worker[lw].server, !.type = worker[lw].type + 1].pc = "ask"
        BY DEF At
      <4> QED
        BY <3>2, <4>1
    <3> QED
      BY <1>8, <3>1, <3>2 DEF Send
  <2>3. worker'[lw].pc \in {"ended", "ask", "take"}
        /\ \A x \in Lookups \X Workers : x # lw => worker'[x] = worker[x]
    <3> HIDE DEF lw
    <3> QED
      BY <1>1, <1>2, <2>2
  <2> QED
    BY <1>1, <1>2, <2>1, <2>3, WorkerShared DEF Sharing
<1> QED
  BY <1>4, <1>5, <1>6, <1>7, <1>8 DEF Work

LEMMA StartShared ==
  ASSUME IInv, LeadersInv, WorkersStarted, NEW l \in Lookups, Start(l)
  PROVE  LeadersInv' /\ WorkersStarted'
<1>1. pc[l] = "start" /\ setting' = setting /\ flight' = flight
  BY DEF Start
<1>2. /\ worker \in [Lookups \X Workers -> WorkerStates] /\ pc \in [Lookups -> {"start", "collect", "resolved", "failed"}]
      /\ setting.workers \subseteq Workers
  BY SettingTypes DEF IInv, Typed, WorkerStates
<1>3. CASE UNCHANGED worker /\ pc' = [pc EXCEPT ![l] = "resolved"]
  <2>1. LeadersInv'
    BY <1>1, <1>3, SharedFrame DEF SameShare
  <2>2. \A m \in Lookups : pc'[m] = "collect" => pc[m] = "collect"
    BY <1>2, <1>3
  <2> QED
    BY <1>1, <1>3, <2>1, <2>2, StartedFrame
<1>4. CASE /\ pc' = [pc EXCEPT ![l] = "collect"]
           /\ worker' = [lw \in Lookups \X Workers |->
                            IF lw[1] = l /\ lw[2] \in setting.workers THEN At("take") ELSE worker[lw]]
  <2>1. At("take").pc = "take"
    BY AtType
  <2>2. \A x \in Lookups \X Workers : x[1] = l => worker[x].pc = "off"
    BY <1>1 DEF IInv, WorkersInv
  <2>3. \A x \in Lookups \X Workers :
           /\ worker'[x] = worker[x] \/ (worker[x].pc = "off" /\ worker'[x].pc = "take")
           /\ x[1] = l /\ x[2] \in setting.workers => worker'[x].pc = "take"
    BY <1>4, <2>1, <2>2
  <2>4. LeadersInv'
    BY <1>1, <2>3, SharedFrame DEF SameShare, Sharing
  <2>5. ASSUME NEW m \in Lookups, pc'[m] = "collect", NEW w \in setting.workers
        PROVE  worker'[<<m, w>>].pc # "off"
    <3>1. <<m, w>> \in Lookups \X Workers /\ <<m, w>>[1] = m /\ <<m, w>>[2] = w
      BY <1>2
    <3>2. CASE m = l
      BY <2>3, <3>1, <3>2
    <3>3. CASE m # l
      <4>1. pc[m] = "collect"
        BY <1>2, <1>4, <2>5, <3>3
      <4>2. worker[<<m, w>>].pc # "off"
        BY <4>1 DEF WorkersStarted
      <4> QED
        BY <2>3, <3>1, <4>2
    <3> QED
      BY <3>2, <3>3
  <2>6. WorkersStarted'
    BY <1>1, <2>5 DEF WorkersStarted
  <2> QED
    BY <2>4, <2>6
<1> QED
  BY <1>3, <1>4 DEF Start

LEMMA SharedNext ==
  ASSUME IInv, IInv', LeadersInv, WorkersStarted, [Next]_vars
  PROVE  LeadersInv' /\ WorkersStarted'
<1>1. ASSUME setting' = setting, flight' = flight, worker' = worker,
             \A m \in Lookups : pc'[m] = "collect" => pc[m] = "collect"
      PROVE  LeadersInv' /\ WorkersStarted'
  BY <1>1, SharedFrame, StartedFrame DEF SameShare
<1>2. ASSUME NEW l \in Lookups, Collect(l) \/ CollectEnd(l)
      PROVE  LeadersInv' /\ WorkersStarted'
  <2>1. setting' = setting /\ flight' = flight /\ worker' = worker
    BY <1>2 DEF Collect, CollectEnd
  <2>2. pc' = pc \/ \E p \in {"resolved", "failed"} : pc' = [pc EXCEPT ![l] = p]
    BY <1>2 DEF Collect, CollectEnd, Return
  <2>3. pc \in [Lookups -> {"start", "collect", "resolved", "failed"}]
    BY DEF IInv, Typed
  <2>4. \A m \in Lookups : pc'[m] = "collect" => pc[m] = "collect"
    BY <2>2, <2>3
  <2> QED
    BY <1>1, <2>1, <2>4
<1>3. ASSUME NEW l \in Lookups, Cancel(l)
      PROVE  LeadersInv' /\ WorkersStarted'
  BY <1>1, <1>3 DEF Cancel
<1>4. ASSUME NEW c \in Clients, CacheExpires(c)
      PROVE  LeadersInv' /\ WorkersStarted'
  BY <1>1, <1>4 DEF CacheExpires
<1>5. CASE UNCHANGED vars
  BY <1>1, <1>5 DEF vars
<1> QED
  BY <1>2, <1>3, <1>4, <1>5, StartShared, WorkShared DEF Next, Proceed

(* No lookup and no worker waits for ever: whoever follows a query follows a
   worker that is asking it, and a lookup that waits for results has a worker
   that will send one, or all have ended.  This is NobodyIsStuck, told from the
   guards of the steps, for any numbers of lookups, clients, servers and
   workers. *)
THEOREM SomebodyCanGoOnHolds == Spec => []SomebodyCanGoOn
<1>1. Init => IInv /\ LeadersInv /\ WorkersStarted
  <2> SUFFICES ASSUME Init PROVE LeadersInv /\ WorkersStarted
    BY InvInit
  <2>1. \A q \in Queries : flight[q] = NoFlight
    BY DEF Init
  <2>2. \A x \in Lookups \X Workers : worker[x].pc = "off"
    BY AtType DEF Init
  <2>3. \A l \in Lookups : pc[l] = "start"
    BY DEF Init
  <2> QED
    BY <2>1, <2>2, <2>3 DEF LeadersInv, WorkersStarted
<1>2. IInv /\ LeadersInv /\ WorkersStarted /\ [Next]_vars => (IInv /\ LeadersInv /\ WorkersStarted)'
  BY InvNext, SharedNext
<1>3. IInv /\ LeadersInv /\ WorkersStarted => SomebodyCanGoOn
  <2> SUFFICES ASSUME IInv, LeadersInv, WorkersStarted, NEW l \in Lookups, ~Ended(l)
               PROVE  \E m \in Lookups : CanProceed(m) \/ \E w \in Workers : CanWork(<<m, w>>)
    BY DEF SomebodyCanGoOn
  <2>1. /\ worker \in [Lookups \X Workers -> WorkerStates]
        /\ pc \in [Lookups -> {"start", "collect", "resolved", "failed"}]
        /\ setting.workers \subseteq Workers
    BY SettingTypes DEF IInv, Typed, WorkerStates
  <2>2. CASE \E w \in Workers : worker[<<l, w>>].pc = "follow"
    <3>1. PICK w \in Workers : worker[<<l, w>>].pc = "follow"
      BY <2>2
    <3>2. <<l, w>> \in Lookups \X Workers
      OBVIOUS
    <3>3. QueryOf(<<l, w>>) \in Queries /\ flight[QueryOf(<<l, w>>)] # NoFlight
      BY <3>1, <3>2, QueryType DEF IInv, LeadersInv
    <3>4. PICK x \in Lookups \X Workers : worker[x].pc \in {"lead", "record"}
      BY <3>3, FlightFacts DEF LeadersInv
    <3>5. PICK m \in Lookups, v \in Workers : x = <<m, v>>
      BY <3>4
    <3>6. CanWork(<<m, v>>)
      BY <3>4, <3>5 DEF CanWork
    <3> QED
      BY <3>6
  <2>3. CASE \E w \in Workers : CanWork(<<l, w>>)
    BY <2>3
  <2>4. CASE \A w \in Workers : worker[<<l, w>>].pc # "follow" /\ ~CanWork(<<l, w>>)
    <3>1. \A w \in Workers : worker[<<l, w>>].pc \in {"off", "ended"}
      <4> TAKE w \in Workers
      <4>1. worker[<<l, w>>] \in WorkerStates
        BY <2>1
      <4> QED
        BY <2>4, <4>1 DEF CanWork, WorkerStates
    <3>2. pc[l] \in {"start", "collect"}
      BY <2>1, <3>1 DEF Ended
    <3>3. pc[l] = "collect" => WorkersEnded(l)
      BY <2>1, <3>1 DEF WorkersStarted, WorkersEnded
    <3> QED
      BY <3>2, <3>3 DEF CanProceed
  <2> QED
    BY <2>2, <2>3, <2>4
<1> QED
  BY <1>1, <1>2, <1>3, PTL DEF Spec
=============================================================================
