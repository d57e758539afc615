----------------------------- MODULE ResolveInv -----------------------------
(***************************************************************************)
(* The inductive invariant behind the safety of Resolve: where an address  *)
(* on its way to a lookup comes from, and where each query of a lookup is. *)
(* It is proved in ResolveProofs.                                          *)
(***************************************************************************)
EXTENDS Resolve

Asking == {"ask", "lead", "record", "follow", "send"}

\* The workers of a lookup are those of the setting, from its start on, and
\* ask for the types of the setting.
WorkersInv ==
    /\ \A l \in Lookups : pc[l] # "collect" => results[l] = <<>>
    /\ \A lw \in Lookups \X Workers :
          /\ worker[lw].type <= Len(Types)
          /\ pc[lw[1]] = "start" \/ lw[2] \notin setting.workers => worker[lw].pc = "off"

\* The response is in the WARC files of some client.
IsRecorded(q) == \E c \in Clients : <<c, q>> \in recorded

\* An address that is used or kept, or on its way to a lookup, was archived.
SourcesInv ==
    /\ \A l \in Lookups : \A q \in found[l] : IsRecorded(q)
    /\ \A c \in Clients : \A q \in cache[c] : IsRecorded(q)
    /\ \A l \in Lookups : \A i \in DOMAIN results[l] :
          results[l][i][2] = "address" => IsRecorded(results[l][i][1])
    /\ \A lw \in Lookups \X Workers :
          worker[lw].pc = "send" /\ worker[lw].outcome = "address" => IsRecorded(QueryOf(lw))

Has(s, e) == \E i \in DOMAIN s : s[i] = e

Distinct(s) == \A i, j \in DOMAIN s : s[i] = s[j] => i = j

\* The queries whose results are in the channel.
QueriesOf(rs) == [i \in DOMAIN rs |-> rs[i][1]]

Answers(l) == QueriesOf(results[l])

\* A worker still asks the server for the k-th type, or will.
Underway(l, s, k) == \E w \in Workers : /\ worker[<<l, w>>].pc \in Asking
                                       /\ worker[<<l, w>>].server = s
                                       /\ worker[<<l, w>>].type <= k

\* The result has been taken, or is not needed any more.
Settled(l, q) == q[2] \in TypesIn(found[l]) \/ q \in failed[l]

\* No query of a lookup that nobody cancelled is lost.
NoneIsLost(l) ==
    l \notin aborted /\ pc[l] = "collect" =>
        /\ \A w \in Workers : worker[<<l, w>>].pc = "ended" => servers[l] = <<>>
        /\ \A s \in Servers, k \in DOMAIN Types :
              \/ Has(servers[l], s) \/ Underway(l, s, k)
              \/ Has(Answers(l), <<s, Types[k]>>) \/ Settled(l, <<s, Types[k]>>)

\* A lookup asks each query once: a server is in one place, and a result is of
\* a query that no worker is going to ask again.
AsksOnce(l) ==
    pc[l] = "collect" =>
        /\ Distinct(servers[l]) /\ Distinct(Answers(l))
        /\ \A w \in Workers : worker[<<l, w>>].pc \in Asking =>
              /\ ~Has(servers[l], worker[<<l, w>>].server)
              /\ \A v \in Workers :
                    worker[<<l, v>>].pc \in Asking /\ worker[<<l, v>>].server = worker[<<l, w>>].server
                       => v = w
        /\ \A q \in Queries : Has(Answers(l), q) =>
              /\ ~Has(servers[l], q[1])
              /\ \A w \in Workers :
                    worker[<<l, w>>].pc \in Asking /\ worker[<<l, w>>].server = q[1]
                       => \E k \in 1..(worker[<<l, w>>].type - 1) : q[2] = Types[k]

\* A lookup that has ended was served from the cache, or knows the fate of each
\* of its queries (MissingMeansAllFailed).
EndsSettled(l) ==
    l \notin aborted /\ pc[l] \in {"resolved", "failed"} =>
        \/ \A w \in Workers : worker[<<l, w>>].pc = "off"
        \/ \A s \in Servers, k \in DOMAIN Types : Settled(l, <<s, Types[k]>>)

LookupInv(l) == /\ Len(servers[l]) <= NServers
                /\ NoneIsLost(l) /\ AsksOnce(l) /\ EndsSettled(l)

IInv == Typed /\ WorkersInv /\ SourcesInv /\ \A l \in Lookups : LookupInv(l)
-----------------------------------------------------------------------------
\* A query that is shared has one worker that asks it, and whoever waits for it
\* waits for that one.
LeadersInv ==
    /\ \A q \in Queries : flight[q] # NoFlight =>
          worker[flight[q]].pc \in {"lead", "record"} /\ QueryOf(flight[q]) = q
    /\ \A lw \in Lookups \X Workers :
          /\ worker[lw].pc = "follow" => flight[QueryOf(lw)] # NoFlight
          /\ worker[lw].pc \in {"lead", "record"} => flight[QueryOf(lw)] = lw

\* A lookup that collects has started its workers.
WorkersStarted ==
    \A l \in Lookups : pc[l] = "collect" =>
        \A w \in setting.workers : worker[<<l, w>>].pc # "off"

\* What the guards of the lookup and of its workers ask for.
CanProceed(l) == \/ pc[l] = "start"
                 \/ pc[l] = "collect" /\ (results[l] # <<>> \/ WorkersEnded(l))

CanWork(lw) == worker[lw].pc \in {"take", "ask", "lead", "record", "send"}

(* NobodyIsStuck in terms of the guards: as long as a lookup or a worker has not
   ended, one of them has what its next step waits for. *)
SomebodyCanGoOn ==
    (\E l \in Lookups : ~Ended(l)) =>
        \E l \in Lookups : CanProceed(l) \/ \E w \in Workers : CanWork(<<l, w>>)
=============================================================================
