------------------------------ MODULE Resolve ------------------------------
(***************************************************************************)
(* How a dial resolves its host (dns.go): archiveDNS looks into the cache  *)
(* of its client, concurrentDNSLookup lets workers ask the configured      *)
(* servers, and lookupIP sends each question once for everybody who is     *)
(* asking it (singleflight) and archives the response.                     *)
(*                                                                         *)
(* All lookups are for one host, which is a name: lookups for different    *)
(* hosts share nothing, and an address is not looked up at all.            *)
(*                                                                         *)
(* A definition D_Xyz is a mistake that D could have been written with.    *)
(***************************************************************************)
EXTENDS Naturals, Sequences

CONSTANTS
    Lookups,    \* the calls of archiveDNS
    Clients,    \* the clients in this process
    ClientOf,   \* whose call it is
    NServers,   \* the servers of /etc/resolv.conf, or of DNSServers
    Workers,    \* names for the workers of a lookup
    Settings    \* of dnsConcurrency, disableIPv4 and disableIPv6, and the
                \* lookups whose request may be cancelled

ASSUME ResolveAssumption ==
    /\ ClientOf \in [Lookups -> Clients]
    /\ NServers \in Nat \ {0}
    /\ Settings \subseteq [workers : (SUBSET Workers) \ {{}},
                            types : {<<"A">>, <<"AAAA">>, <<"A", "AAAA">>},
                            impatient : SUBSET Lookups]

Servers == 0..(NServers - 1)
Queries == Servers \X {"A", "AAAA"}

\* What became of a query: an address, or a failure of the exchange, a response
\* without an address, or the end of the context the query ran under.
Outcomes == {"address", "failure"}

VARIABLES
    setting,    \* the types to ask for, how many workers ask, who may cancel
    pc,         \* of each lookup
    aborted,    \* the caller's context is cancelled
    servers,    \* serverChan
    worker,     \* the goroutines of each lookup
    results,    \* resultChan
    found,      \* the responses that ipv4 and ipv6 were taken from
    failed,     \* the queries it knows to have failed
    cache,      \* DNSRecords of each client: the responses behind the entry
    nextServer, \* dnsRoundRobinIndex of each client
    flight,     \* g: the worker that asks a query for all
    recorded    \* the responses in the WARC files of each client

vars == <<setting, pc, aborted, servers, worker, results, found, failed, cache,
          nextServer, flight, recorded>>

NoFlight == <<>>

Types == setting.types

Typed ==
    /\ setting \in Settings
    /\ pc \in [Lookups -> {"start", "collect", "resolved", "failed"}]
    /\ aborted \subseteq setting.impatient
    /\ servers \in [Lookups -> Seq(Servers)]
    /\ worker \in [Lookups \X Workers ->
                      [pc : {"off", "take", "ask", "lead", "record", "follow", "send", "ended"},
                       server : Servers, type : 1..2, outcome : Outcomes]]
    /\ results \in [Lookups -> Seq(Queries \X Outcomes)]
    /\ found \in [Lookups -> SUBSET Queries]
    /\ failed \in [Lookups -> SUBSET Queries]
    /\ cache \in [Clients -> SUBSET Queries]
    /\ nextServer \in [Clients -> Servers]
    /\ flight \in [Queries -> {NoFlight} \cup (Lookups \X Workers)]
    /\ recorded \subseteq Clients \X Queries

\* What is sent has room in the channels as they are made: no send waits.
ChannelsHold ==
    \A l \in Lookups : Len(servers[l]) <= NServers /\ Len(results[l]) <= 2 * NServers

TypeOK == Typed /\ ChannelsHold

At(where) == [pc |-> where, server |-> 0, type |-> 1, outcome |-> "failure"]

Init ==
    /\ setting \in Settings
    /\ pc = [l \in Lookups |-> "start"]
    /\ aborted = {}
    /\ servers = [l \in Lookups |-> <<>>]
    /\ worker = [lw \in Lookups \X Workers |-> At("off")]
    /\ results = [l \in Lookups |-> <<>>]
    /\ found = [l \in Lookups |-> {}]
    /\ failed = [l \in Lookups |-> {}]
    /\ cache = [c \in Clients |-> {}]
    /\ nextServer = [c \in Clients |-> 0]
    /\ flight = [q \in Queries |-> NoFlight]
    /\ recorded = {}
-----------------------------------------------------------------------------
(***************************************************************************)
(* archiveDNS and the collecting end of concurrentDNSLookup.               *)
(***************************************************************************)

\* The order of the servers, from the next one in turn.
Order(c) == [i \in 1..NServers |-> (nextServer[c] + i - 1) % NServers]

Start(l) ==
    /\ pc[l] = "start"
    /\ LET c == ClientOf[l] IN
       IF cache[c] # {}
       THEN /\ pc' = [pc EXCEPT ![l] = "resolved"]
            /\ found' = [found EXCEPT ![l] = cache[c]]
            /\ UNCHANGED <<servers, worker, nextServer>>
       ELSE /\ pc' = [pc EXCEPT ![l] = "collect"]
            /\ servers' = [servers EXCEPT ![l] = Order(c)]
            /\ nextServer' = [nextServer EXCEPT ![c] = (@ + 1) % NServers]
            /\ worker' = [lw \in Lookups \X Workers |->
                             IF lw[1] = l /\ lw[2] \in setting.workers THEN At("take") ELSE worker[lw]]
            /\ UNCHANGED found
    /\ UNCHANGED <<setting, aborted, results, failed, cache, flight, recorded>>

TypesIn(qs) == {q[2] : q \in qs}

haveAllResults_Any(qs) == qs # {}

haveAllResults(qs) == TypesIn(qs) = {Types[i] : i \in DOMAIN Types}

\* archiveDNS returns what was found and keeps it for the next lookups.
\* The workers' context ends with the call.
Return(l, qs) ==
    /\ pc' = [pc EXCEPT ![l] = IF qs # {} THEN "resolved" ELSE "failed"]
    /\ cache' = [cache EXCEPT ![ClientOf[l]] = IF qs # {} THEN qs ELSE @]
    /\ results' = [results EXCEPT ![l] = <<>>]

\* One result is taken; later answers of a type that was answered are ignored.
Collect(l) ==
    /\ pc[l] = "collect" /\ results[l] # <<>>
    /\ LET query   == Head(results[l])[1]
           outcome == Head(results[l])[2]
           new     == IF outcome = "address" /\ query[2] \notin TypesIn(found[l])
                      THEN found[l] \cup {query} ELSE found[l]
       IN  /\ found' = [found EXCEPT ![l] = new]
           /\ failed' = IF outcome = "address" THEN failed
                        ELSE [failed EXCEPT ![l] = @ \cup {query}]
           /\ IF outcome = "address" /\ haveAllResults(new)
              THEN Return(l, new)
              ELSE results' = [results EXCEPT ![l] = Tail(@)] /\ UNCHANGED <<pc, cache>>
    /\ UNCHANGED <<setting, aborted, servers, worker, nextServer, flight, recorded>>

WorkersEnded(l) == \A w \in setting.workers : worker[<<l, w>>].pc = "ended"

\* Every worker has ended: the channel is closed, and it is empty.
CollectEnd(l) ==
    /\ pc[l] = "collect" /\ results[l] = <<>> /\ WorkersEnded(l)
    /\ Return(l, found[l])
    /\ UNCHANGED <<setting, aborted, servers, worker, found, failed, nextServer, flight, recorded>>

\* An entry of the cache reaches its TTL or is evicted.
CacheExpires(c) ==
    /\ cache[c] # {}
    /\ cache' = [cache EXCEPT ![c] = {}]
    /\ UNCHANGED <<setting, pc, aborted, servers, worker, results, found, failed, nextServer, flight, recorded>>

Cancel(l) ==
    /\ l \in setting.impatient \ aborted /\ pc[l] = "collect"
    /\ aborted' = aborted \cup {l}
    /\ UNCHANGED <<setting, pc, servers, worker, results, found, failed, cache, nextServer, flight, recorded>>
-----------------------------------------------------------------------------
(***************************************************************************)
(* The workers.                                                            *)
(***************************************************************************)

\* workerCtx is cancelled.
Stopped(l) == l \in aborted \/ pc[l] # "collect"

QueryOf(lw) == <<worker[lw].server, Types[worker[lw].type]>>

AfterLastServer_NotClosed == "take"

\* The next server; serverChan is closed, so an empty one ends the worker.
AfterLastServer == "ended"

Take(l, w) ==
    /\ worker[<<l, w>>].pc = "take"
    /\ IF servers[l] = <<>>
       THEN worker' = [worker EXCEPT ![<<l, w>>] = At(AfterLastServer)] /\ UNCHANGED servers
       ELSE /\ servers' = [servers EXCEPT ![l] = Tail(@)]
            /\ worker' = IF Stopped(l)
                         THEN [worker EXCEPT ![<<l, w>>] = At("ended")]
                         ELSE [worker EXCEPT ![<<l, w>>] =
                                  [At("ask") EXCEPT !.server = Head(servers[l])]]
    /\ UNCHANGED <<setting, pc, aborted, results, found, failed, cache, nextServer, flight, recorded>>

\* g.Do: the first to ask a query asks it for all who come meanwhile.
Ask(l, w) ==
    LET q == QueryOf(<<l, w>>) IN
    /\ worker[<<l, w>>].pc = "ask"
    /\ IF flight[q] = NoFlight
       THEN /\ worker' = [worker EXCEPT ![<<l, w>>].pc = "lead"]
            /\ flight' = [flight EXCEPT ![q] = <<l, w>>]
       ELSE /\ worker' = [worker EXCEPT ![<<l, w>>].pc = "follow"]
            /\ UNCHANGED flight
    /\ UNCHANGED <<setting, pc, aborted, servers, results, found, failed, cache, nextServer, recorded>>

\* The query of <<l, w>> is over: it and its followers have the outcome.
Land(l, w, outcome) ==
    LET q == QueryOf(<<l, w>>) IN
    /\ worker' = [lw \in Lookups \X Workers |->
                     IF \/ lw = <<l, w>>
                        \/ worker[lw].pc = "follow" /\ QueryOf(lw) = q
                     THEN [worker[lw] EXCEPT !.pc = "send", !.outcome = outcome]
                     ELSE worker[lw]]
    /\ flight' = [flight EXCEPT ![q] = NoFlight]

\* ExchangeContext, under the context of the worker that leads: when that is
\* cancelled the query fails for its followers as well.
ExchangeContext(l, w) ==
    /\ worker[<<l, w>>].pc = "lead"
    /\ \/ /\ \E r \in {"address", "failure"} :
                worker' = [worker EXCEPT ![<<l, w>>].pc = "record", ![<<l, w>>].outcome = r]
          /\ UNCHANGED flight
       \/ Land(l, w, "failure")
    /\ UNCHANGED <<setting, pc, aborted, servers, results, found, failed, cache, nextServer, recorded>>

Archived_Negative(outcome) == outcome = "failure"

\* Which responses are archived: those without an address too.
Archived(outcome) == outcome \in {"address", "failure"}

\* WriteRecord: the response is archived, for the client that leads, before
\* anybody has it.
WriteRecord(l, w) ==
    /\ worker[<<l, w>>].pc = "record"
    /\ recorded' = IF Archived(worker[<<l, w>>].outcome)
                   THEN recorded \cup {<<ClientOf[l], QueryOf(<<l, w>>)>>} ELSE recorded
    /\ Land(l, w, worker[<<l, w>>].outcome)
    /\ UNCHANGED <<setting, pc, aborted, servers, results, found, failed, cache, nextServer>>

\* The result is sent, unless the context is cancelled and the select takes
\* that.  Nobody looks at what is sent after the return (the channel is drained).
Send(l, w) ==
    /\ worker[<<l, w>>].pc = "send"
    /\ \/ /\ results' = IF pc[l] # "collect" THEN results
                        ELSE [results EXCEPT ![l] =
                                 Append(@, <<QueryOf(<<l, w>>), worker[<<l, w>>].outcome>>)]
          /\ worker' = IF worker[<<l, w>>].type < Len(Types)
                       THEN [worker EXCEPT ![<<l, w>>] =
                                [At("ask") EXCEPT !.server = worker[<<l, w>>].server,
                                                  !.type = worker[<<l, w>>].type + 1]]
                       ELSE [worker EXCEPT ![<<l, w>>] = At("take")]
       \/ /\ Stopped(l)
          /\ worker' = [worker EXCEPT ![<<l, w>>] = At("ended")]
          /\ UNCHANGED results
    /\ UNCHANGED <<setting, pc, aborted, servers, found, failed, cache, nextServer, flight, recorded>>
-----------------------------------------------------------------------------
Work(l, w) == \/ Take(l, w) \/ Ask(l, w) \/ ExchangeContext(l, w)
              \/ WriteRecord(l, w) \/ Send(l, w)

Proceed(l) == Start(l) \/ Collect(l) \/ CollectEnd(l)

Next == \/ \E l \in Lookups : \/ Proceed(l) \/ Cancel(l)
                              \/ \E w \in Workers : Work(l, w)
        \/ \E c \in Clients : CacheExpires(c)

Spec == Init /\ [][Next]_vars
-----------------------------------------------------------------------------
(* README.md:125, "DNS queries and responses are archived in WARC files": an
   address is used, or kept in the cache, only if the response it was taken
   from is in the WARC files of that client, also when somebody else asked. *)
UsedIsArchived ==
    /\ \A l \in Lookups : \A q \in found[l] : <<ClientOf[l], q>> \in recorded
    /\ \A c \in Clients : \A q \in cache[c] : <<c, q>> \in recorded

(* dns.go:199, "Set errors only if all queries of that type failed": when a
   lookup that nobody cancelled ends without an address of a type, every server
   was asked for it, and in vain; early termination, the races of the workers
   and the shared queries lose no server. *)
MissingMeansAllFailed ==
    \A l \in Lookups \ aborted :
        pc[l] \in {"resolved", "failed"} =>
            \/ \A w \in Workers : worker[<<l, w>>].pc = "off"     \* from the cache
            \/ \A q \in Servers \X {Types[i] : i \in DOMAIN Types} :
                  q[2] \in TypesIn(found[l]) \/ q \in failed[l]

Ended(l) == /\ pc[l] \in {"resolved", "failed"}
            /\ \A w \in Workers : worker[<<l, w>>].pc \in {"off", "ended"}

(* No lookup and no worker is left waiting for ever for a server, a query of
   another worker, or somebody to take its result: as long as one has not ended,
   one of them has a step to take.  Since each takes a bounded number of steps,
   and an exchange has a timeout, every lookup ends and so do its workers. *)
NobodyIsStuck ==
    (\E l \in Lookups : ~Ended(l)) =>
        \E l \in Lookups : \/ ENABLED <<Proceed(l)>>_vars
                           \/ \E w \in Workers : ENABLED <<Work(l, w)>>_vars
=============================================================================
