----------------------------- MODULE ClientInv -----------------------------
(***************************************************************************)
(* The inductive invariant behind the safety properties of Client.         *)
(***************************************************************************)
EXTENDS Client

\* Close is past the WaitGroup, has closed the channel of the writers, and has
\* closed ErrChan.
PastGroup   == {"records", "writers", "stop", "caches", "closed"}
PastRecords == {"writers", "stop", "caches", "closed"}
PastWriters == {"stop", "caches", "closed"}

\* Close is called when the requests have returned, and none is made after it.
GoneInv == pc \in Closing => \A q \in Requests : Returned(q)

\* Which channels are closed, how far the writers are, where the watcher is.
PhaseInv ==
    /\ pc \in {"new", "watch", "dirs", "pool"} => \A w \in Writers : writer[w].pc = "off"
    /\ records.closed => pc \in PastRecords
    /\ errChan = "closed" => pc \in PastWriters
    /\ pc \in PastWriters => \A w \in Writers : writer[w].pc = "exited"
    /\ \A w \in Writers : writer[w].pc \in {"finish", "done", "exited"} =>
          records.closed /\ records.queue = <<>>
    /\ ~setting.randomIP => watcher = "off" /\ pc \notin {"watch", "stop"}
    /\ setting.randomIP /\ pc \in {"caches", "closed"} => watcher = "ended"

\* Past the WaitGroup only the captures of requests that were given up are
\* left, and these have nothing to hand over.
GroupInv ==
    /\ pc \in PastGroup => \A c \in Captures : InGroup(c) => capture[c].late
    /\ \A c \in Captures : capture[c].late =>
          capture[c].pc \in {"start", "read", "report", "return", "done", "end"}

\* A capture is started once: for the hop that its request is at.
HopInv ==
    \A q \in Requests :
        /\ request[q].hop = "first" => capture[<<q, "redirected">>].pc = "off"
        /\ request[q].pc \in {"idle", "dns", "dial"} =>
              capture[<<q, request[q].hop>>].pc = "off"

Queued(c)   == records.queue = <<c>>
Has(w, c)   == writer[w].batch = c
InFlight(c) == Queued(c) \/ \E w \in Writers : Has(w, c)

\* A batch is in one place, when its capture has sent it.
BatchInv ==
    /\ \A c \in Captures : capture[c].pc \notin {"done", "end"} => ~InFlight(c)
    /\ \A c \in Captures : Queued(c) => \A w \in Writers : ~Has(w, c)
    /\ \A c \in Captures, v, w \in Writers : Has(v, c) /\ Has(w, c) => v = w
    /\ \A w \in Writers : writer[w].pc \in {"write", "answer"} <=> writer[w].batch # None
    /\ \A w \in Writers : writer[w].pc = "answer" => writer[w].batch \in stored

\* Without a redirect, whoever answers on the feedback channel is the last one
\* to know of it.
FeedbackInv ==
    \A q \in Requests : request[q].hop = "first" =>
        /\ feedback[q] # "open" => /\ capture[<<q, "first">>].pc \in {"done", "end"}
                                   /\ ~InFlight(<<q, "first">>)
        /\ feedback[q] = "written" => <<q, "first">> \in stored

\* An original that a revisit may refer to: on its way to the writers, unless
\* it was given up on that way.
Published(c) ==
    /\ c \in Captures /\ ~capture[c].late /\ capture[c].pc # "off"
    /\ \/ capture[c].pc \in {"request", "offer"} \/ capture[c].lost
       \/ capture[c].pc \in {"done", "end"} /\ (InFlight(c) \/ c \in stored)

TableInv ==
    /\ table # None => Published(table)
    /\ \A c \in Captures : /\ capture[c].kind = "revisit" => capture[c].of # None
                           /\ capture[c].of # None => Published(capture[c].of)

Inv == /\ TypeOK /\ GoneInv /\ PhaseInv /\ GroupInv /\ HopInv /\ BatchInv
       /\ FeedbackInv /\ TableInv /\ NoPanic
=============================================================================
