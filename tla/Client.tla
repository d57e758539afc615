------------------------------- MODULE Client -------------------------------
(***************************************************************************)
(* The life of a CustomHTTPClient (client.go): the constructor, requests   *)
(* whose connections are captured and whose DNS answers are archived, and  *)
(* Close.  What Capture does to one connection, Resolve to a lookup and    *)
(* Rotator to the files is a few steps here; this module is about what     *)
(* they share: the channel of the WARC writers, ErrChan, the WaitGroup,    *)
(* the feedback channel of a request, and the table of LocalDedupe.        *)
(*                                                                         *)
(* All the responses have the same payload: one entry of that table.  The  *)
(* program calls Close when its requests have returned.                    *)
(*                                                                         *)
(* A definition D_Xyz, with the name of another one in front, is a mistake *)
(* that D could have been written with; it is part of no specification.    *)
(***************************************************************************)
EXTENDS Naturals, Sequences

CONSTANTS
    Requests,
    Writers,     \* the pool of WARC writers
    Settings,    \* what the client is asked to do, and what happens to it
    None

\* A request is captured once for itself and once more for its redirect; its
\* lookup archives an answer, and one more when the next server was asked.
Hops     == {"first", "redirected"}
Answers  == {"answer", "extra"}
Captures == Requests \X Hops
Batches  == Requests \X (Hops \union Answers)

SettingSpace == [requests  : SUBSET Requests, \* the requests that are made
                 lookups   : BOOLEAN,  \* their hosts are not in the DNS cache
                 feedback  : BOOLEAN,  \* with a feedback channel
                 redirects : BOOLEAN,  \* the server redirects them
                 abandons  : BOOLEAN,  \* the program may give them up
                 cancels   : BOOLEAN,  \* the context of a dial may end
                 spoolFails: BOOLEAN,  \* a spooled content may fail
                 dedupe    : BOOLEAN,  \* LocalDedupe
                 randomIP  : BOOLEAN,  \* RandomLocalIP
                 newFails  : BOOLEAN]  \* a step of the constructor may fail

ASSUME ClientAssumption ==
    /\ Writers # {} /\ None \notin Batches
    /\ Settings \subseteq SettingSpace

VARIABLES
    setting,
    pc,         \* the constructor, the program between the calls, and Close
    watcher,    \* getAvailableIPs
    records,    \* the channel WARCWriter
    errChan,    \* "open" or "closed"
    writer,     \* recordWriter
    request,    \* where it is, its hop, and whether the program gave it up
    resolver,   \* a worker of its lookup, and the answer it is after
    resolved,   \* the lookups that have a result
    capture,    \* writeWARCFromConnection
    cancelled,  \* the requests whose context has ended
    feedback,   \* the feedback channel of each request
    table,      \* the response in dedupeHashTable
    stored,     \* the batches that are in a file
    panic       \* None, or the send or close on a closed channel

vars == <<setting, pc, watcher, records, errChan, writer, request, resolver, resolved,
          capture, cancelled, feedback, table, stored, panic>>

program == <<setting, pc, watcher, errChan>>
network == <<request, resolver, resolved, cancelled>>

Before  == {"new", "watch", "dirs", "pool", "dialer"}
Closing == {"wait", "records", "writers", "stop", "caches", "closed"}
Panics  == [on : {"WARCWriter", "ErrChan", "feedback"}, of : Batches]

NoCapture == [pc |-> "off", kind |-> "response", of |-> None, late |-> FALSE, lost |-> FALSE]

WriterStates ==
    [pc : {"off", "create", "ready", "write", "answer", "finish", "done", "exited"},
     batch : Batches \union {None}]

RequestStates ==
    [pc : {"idle", "dns", "dial", "exchange", "returned"}, hop : Hops, gone : BOOLEAN]

ResolverStates ==
    [pc : {"off", "ask", "write", "wait", "ended"}, answer : Answers]

CaptureStates ==
    [pc   : {"off", "start", "read", "looked", "response", "request", "offer", "report",
             "return", "done", "end"},
     kind : {"response", "revisit"}, of : Captures \union {None},
     late : BOOLEAN,   \* of a request that was given up
     lost : BOOLEAN]   \* given up after the records were collected

TypeOK ==
    /\ setting \in Settings
    /\ pc \in Before \union {"failed", "running"} \union Closing
    /\ watcher \in {"off", "select", "list", "notify", "ended"}
    /\ records \in [queue : Seq(Batches), closed : BOOLEAN] /\ Len(records.queue) <= 1
    /\ errChan \in {"open", "closed"}
    /\ writer \in [Writers -> WriterStates]
    /\ request \in [Requests -> RequestStates]
    /\ resolver \in [Requests -> ResolverStates]
    /\ resolved \subseteq Requests
    /\ capture \in [Captures -> CaptureStates]
    /\ cancelled \subseteq Requests
    /\ feedback \in [Requests -> {"open", "written", "closed"}]
    /\ table \in Captures \union {None}
    /\ stored \subseteq Batches
    /\ panic \in Panics \union {None}

Init ==
    /\ setting \in Settings
    /\ pc = "new" /\ watcher = "off"
    /\ records = [queue |-> <<>>, closed |-> FALSE] /\ errChan = "open"
    /\ writer = [w \in Writers |-> [pc |-> "off", batch |-> None]]
    /\ request = [q \in Requests |-> [pc |-> "idle", hop |-> "first", gone |-> FALSE]]
    /\ resolver = [q \in Requests |-> [pc |-> "off", answer |-> "answer"]]
    /\ resolved = {} /\ cancelled = {}
    /\ capture = [c \in Captures |-> NoCapture]
    /\ feedback = [q \in Requests |-> "open"]
    /\ table = None /\ stored = {} /\ panic = None
-----------------------------------------------------------------------------
(***************************************************************************)
(* NewWARCWritingHTTPClient.  When it fails, the program gets no client,   *)
(* and what was started goes on.                                           *)
(***************************************************************************)
New ==
    /\ pc = "new"
    /\ IF setting.randomIP THEN pc' = "watch" /\ watcher' = "list"
                           ELSE pc' = "dirs" /\ UNCHANGED watcher
    /\ UNCHANGED <<setting, records, errChan, writer, network, capture, feedback, table,
                   stored, panic>>

\* The directory for temporary files.
MakeDirs ==
    /\ pc = "dirs"
    /\ pc' = "pool" \/ (setting.newFails /\ pc' = "failed")
    /\ UNCHANGED <<setting, watcher, records, errChan, writer, network, capture, feedback,
                   table, stored, panic>>

\* NewWARCRotator refuses bad settings before it starts the writers.
StartPool ==
    /\ pc = "pool"
    /\ \/ /\ pc' = "dialer"
          /\ writer' = [w \in Writers |-> [writer[w] EXCEPT !.pc = "create"]]
       \/ /\ setting.newFails /\ pc' = "failed" /\ UNCHANGED writer
    /\ UNCHANGED <<setting, watcher, records, errChan, network, capture, feedback, table,
                   stored, panic>>

\* newCustomDialer: no DNS configuration, or an address of a proxy that is none.
NewDialer ==
    /\ pc = "dialer"
    /\ pc' = "running" \/ (setting.newFails /\ pc' = "failed")
    /\ UNCHANGED <<setting, watcher, records, errChan, writer, network, capture, feedback,
                   table, stored, panic>>

NewWARCWritingHTTPClient == New \/ MakeDirs \/ StartPool \/ NewDialer
-----------------------------------------------------------------------------
(***************************************************************************)
(* getAvailableIPs.                                                        *)
(***************************************************************************)
WatcherUnchanged == UNCHANGED <<setting, records, errChan, writer, network, capture,
                                feedback, table, stored, panic>>

\* Nobody sends on interfacesWatcherStop.
Select == /\ watcher = "select" /\ pc # "stop"
          /\ watcher' = "list"
          /\ UNCHANGED pc /\ WatcherUnchanged

ListFails == /\ watcher = "list" /\ watcher' = "select"
             /\ UNCHANGED pc /\ WatcherUnchanged

\* It looks at the stop channel only after a failure.
List_Loops == /\ watcher = "list"
              /\ watcher' = IF pc = "watch" THEN "notify" ELSE "list"
              /\ UNCHANGED pc /\ WatcherUnchanged

List == /\ watcher = "list"
        /\ watcher' = IF pc = "watch" THEN "notify" ELSE "select"
        /\ UNCHANGED pc /\ WatcherUnchanged

\* The constructor receives from interfacesWatcherStarted.
Started == /\ watcher = "notify" /\ pc = "watch"
           /\ watcher' = "select" /\ pc' = "dirs"
           /\ WatcherUnchanged

\* Close sends on interfacesWatcherStop.
Stopped == /\ watcher = "select" /\ pc = "stop"
           /\ watcher' = "ended" /\ pc' = "caches"
           /\ WatcherUnchanged

getAvailableIPs == Select \/ ListFails \/ List \/ Started \/ Stopped
-----------------------------------------------------------------------------
(***************************************************************************)
(* The program and net/http.                                               *)
(***************************************************************************)
RequestUnchanged == UNCHANGED <<program, records, writer, feedback, table, stored, panic>>

Do(q) ==
    /\ pc = "running" /\ q \in setting.requests /\ request[q].pc = "idle"
    /\ IF setting.lookups
       THEN /\ request' = [request EXCEPT ![q].pc = "dns"]
            /\ resolver' = [resolver EXCEPT ![q].pc = "ask"]
       ELSE request' = [request EXCEPT ![q].pc = "dial"] /\ UNCHANGED resolver
    /\ UNCHANGED <<resolved, cancelled, capture>> /\ RequestUnchanged

\* archiveDNS returns, and ends the context of its workers.
LookupReturns(q) ==
    /\ request[q].pc = "dns"
    /\ \/ q \in resolved /\ request' = [request EXCEPT ![q].pc = "dial"]
       \/ /\ q \notin resolved /\ resolver[q].pc = "ended"
          /\ request' = [request EXCEPT ![q].pc = "returned"]
    /\ UNCHANGED <<resolver, resolved, cancelled, capture>> /\ RequestUnchanged

DialFails(q) ==
    /\ request[q].pc = "dial"
    /\ request' = [request EXCEPT ![q].pc = "returned"]
    /\ UNCHANGED <<resolver, resolved, cancelled, capture>> /\ RequestUnchanged

\* wrapConnection.  A connection nobody waits for any more is closed at once.
wrapConnection(q) ==
    /\ request[q].pc = "dial"
    /\ request' = [request EXCEPT ![q].pc = IF request[q].gone THEN "returned"
                                                                 ELSE "exchange"]
    /\ capture' = [capture EXCEPT ![<<q, request[q].hop>>] =
                      [NoCapture EXCEPT !.pc = "start", !.late = request[q].gone]]
    /\ UNCHANGED <<resolver, resolved, cancelled>> /\ RequestUnchanged

\* The same context, with the same feedback channel, goes with the redirect.
Redirect(q) ==
    /\ request[q].pc = "exchange" /\ setting.redirects /\ request[q].hop = "first"
    /\ request' = [request EXCEPT ![q].pc = "dial", ![q].hop = "redirected"]
    /\ UNCHANGED <<resolver, resolved, cancelled, capture>> /\ RequestUnchanged

\* The program has closed the body of the response, or got an error.
DoReturns(q) ==
    /\ request[q].pc = "exchange"
    /\ request' = [request EXCEPT ![q].pc = "returned"]
    /\ UNCHANGED <<resolver, resolved, cancelled, capture>> /\ RequestUnchanged

\* A request with a timeout, or one that is cancelled, returns at once, and
\* http.Transport finishes its dial.
GiveUp(q) ==
    /\ setting.abandons /\ request[q].pc \in {"dns", "dial"} /\ ~request[q].gone
    /\ request' = [request EXCEPT ![q].gone = TRUE]
    /\ UNCHANGED <<resolver, resolved, cancelled, capture>> /\ RequestUnchanged

Cancel(q) ==
    /\ setting.cancels /\ request[q].pc # "idle" /\ q \notin cancelled
    /\ cancelled' = cancelled \union {q}
    /\ UNCHANGED <<request, resolver, resolved, capture>> /\ RequestUnchanged

Program == \E q \in Requests : \/ Do(q) \/ LookupReturns(q) \/ DialFails(q)
                               \/ wrapConnection(q) \/ Redirect(q) \/ DoReturns(q)
                               \/ GiveUp(q) \/ Cancel(q)
-----------------------------------------------------------------------------
(***************************************************************************)
(* A send on WARCWriter: it waits for room, and panics when the channel is *)
(* closed.                                                                 *)
(***************************************************************************)
Send(b) ==
    /\ ~records.closed /\ Len(records.queue) < 1
    /\ records' = [records EXCEPT !.queue = Append(@, b)]
    /\ UNCHANGED panic

SendPanics(b) ==
    /\ records.closed
    /\ panic' = [on |-> "WARCWriter", of |-> b]
    /\ UNCHANGED records

(***************************************************************************)
(* A worker of a lookup (concurrentDNSLookup, lookupIP, WriteRecord).      *)
(***************************************************************************)
ResolverGoes(q, to) == resolver' = [resolver EXCEPT ![q].pc = to]

ResolverUnchanged == UNCHANGED <<program, writer, request, cancelled, capture, feedback,
                                 table, stored>>

\* The worker goes to the next server, unless there is none or it sees that
\* the lookup has returned.
NextServer(q) ==
    \/ ResolverGoes(q, "ended")
    \/ /\ resolver[q].answer = "answer"
       /\ resolver' = [resolver EXCEPT ![q] = [pc |-> "ask", answer |-> "extra"]]

\* The exchange with a server succeeds, or it fails or finds its context ended.
Ask(q) ==
    /\ resolver[q].pc = "ask"
    /\ ResolverGoes(q, "write") \/ NextServer(q)
    /\ UNCHANGED <<records, resolved, panic>> /\ ResolverUnchanged

WriteRecord(q) ==
    /\ resolver[q].pc = "write"
    /\ \/ Send(<<q, resolver[q].answer>>) /\ ResolverGoes(q, "wait")
       \/ SendPanics(<<q, resolver[q].answer>>) /\ UNCHANGED resolver
    /\ UNCHANGED resolved /\ ResolverUnchanged

\* WriteRecord got its feedback.  The answer may hold no address.
Answered(q) ==
    /\ resolver[q].pc = "wait" /\ <<q, resolver[q].answer>> \in stored
    /\ resolved' \in {resolved, resolved \union {q}}
    /\ NextServer(q)
    /\ UNCHANGED <<records, panic>> /\ ResolverUnchanged

Resolver == \E q \in Requests : Ask(q) \/ WriteRecord(q) \/ Answered(q)
-----------------------------------------------------------------------------
(***************************************************************************)
(* writeWARCFromConnection, for the capture c of a request.                *)
(***************************************************************************)
Goes(c, to) == capture' = [capture EXCEPT ![c].pc = to]

\* It returns early and its batch is forgotten.
GivesUp(c, to) == capture' = [capture EXCEPT ![c].pc = to, ![c].lost = TRUE]

CaptureUnchanged == UNCHANGED <<program, writer, network, stored>>

Begin(c) ==
    /\ capture[c].pc = "start" /\ Goes(c, "read")
    /\ CaptureUnchanged /\ UNCHANGED <<records, feedback, table, panic>>

\* checkLocalRevisit.  A connection that was closed at once has no response.
LookUp(c) ==
    /\ capture[c].pc = "read" /\ ~capture[c].late
    /\ capture' = [capture EXCEPT ![c] =
           IF setting.dedupe /\ table # None
           THEN [@ EXCEPT !.pc = "looked", !.kind = "revisit", !.of = table]
           ELSE [@ EXCEPT !.pc = "looked"]]
    /\ CaptureUnchanged /\ UNCHANGED <<records, feedback, table, panic>>

\* One of the two readers failed.
ReadFails(c) ==
    /\ capture[c].pc \in {"read", "looked"} /\ Goes(c, "report")
    /\ CaptureUnchanged /\ UNCHANGED <<records, feedback, table, panic>>

Collect(c) ==
    /\ capture[c].pc = "looked"
    /\ \/ Goes(c, "response")
       \/ c[1] \in cancelled /\ GivesUp(c, "return")
    /\ CaptureUnchanged /\ UNCHANGED <<records, feedback, table, panic>>

\* Headers and digest of each record; a response enters the table.
FinishRecord(c) ==
    LET last == capture[c].pc = "request" IN
    /\ capture[c].pc \in {"response", "request"}
    /\ \/ /\ c[1] \in cancelled
          /\ GivesUp(c, "return") /\ UNCHANGED table
       \/ /\ setting.spoolFails /\ c[1] \notin cancelled
          /\ GivesUp(c, "report") /\ UNCHANGED table
       \/ /\ c[1] \notin cancelled
          /\ Goes(c, IF last THEN "offer" ELSE "request")
          /\ table' = IF setting.dedupe /\ ~last /\ capture[c].kind = "response"
                      THEN c ELSE table
    /\ CaptureUnchanged /\ UNCHANGED <<records, feedback, panic>>

\* A select with a default, for a channel that is full.
Offer_Default(c) ==
    /\ capture[c].pc = "offer"
    /\ \/ Send(c) /\ Goes(c, "done")
       \/ SendPanics(c) /\ UNCHANGED capture
       \/ Len(records.queue) = 1 /\ Goes(c, "return") /\ UNCHANGED <<records, panic>>
    /\ CaptureUnchanged /\ UNCHANGED <<feedback, table>>

Offer(c) ==
    /\ capture[c].pc = "offer"
    /\ \/ Send(c) /\ Goes(c, "done")
       \/ SendPanics(c) /\ UNCHANGED capture
       \/ c[1] \in cancelled /\ GivesUp(c, "return") /\ UNCHANGED <<records, panic>>
    /\ CaptureUnchanged /\ UNCHANGED <<feedback, table>>

\* ErrChan is unbuffered, and the program reads it until it is closed.
Report(c) ==
    /\ capture[c].pc = "report"
    /\ IF errChan = "open"
       THEN Goes(c, "return") /\ UNCHANGED panic
       ELSE panic' = [on |-> "ErrChan", of |-> c] /\ UNCHANGED capture
    /\ CaptureUnchanged /\ UNCHANGED <<records, feedback, table>>

\* The deferred calls of a capture that did not send: first the feedback.
CloseFeedback(c) ==
    /\ capture[c].pc = "return"
    /\ IF ~setting.feedback THEN Goes(c, "done") /\ UNCHANGED <<feedback, panic>>
       ELSE IF feedback[c[1]] = "open"
       THEN /\ feedback' = [feedback EXCEPT ![c[1]] = "closed"]
            /\ Goes(c, "done") /\ UNCHANGED panic
       ELSE panic' = [on |-> "feedback", of |-> c] /\ UNCHANGED <<capture, feedback>>
    /\ CaptureUnchanged /\ UNCHANGED <<records, table>>

\* WaitGroup.Done.
Done(c) ==
    /\ capture[c].pc = "done" /\ Goes(c, "end")
    /\ CaptureUnchanged /\ UNCHANGED <<records, feedback, table, panic>>

writeWARCFromConnection ==
    \E c \in Captures : \/ Begin(c) \/ LookUp(c) \/ ReadFails(c) \/ Collect(c)
                        \/ FinishRecord(c) \/ Offer(c) \/ Report(c)
                        \/ CloseFeedback(c) \/ Done(c)
-----------------------------------------------------------------------------
(***************************************************************************)
(* recordWriter.                                                           *)
(***************************************************************************)
WriterGoes(w, to) == writer' = [writer EXCEPT ![w].pc = to]

WriterUnchanged == UNCHANGED <<program, network, capture, table>>

Create(w) ==
    /\ writer[w].pc = "create" /\ WriterGoes(w, "ready")
    /\ WriterUnchanged /\ UNCHANGED <<records, feedback, stored, panic>>

Receive(w) ==
    /\ writer[w].pc = "ready" /\ records.queue # <<>>
    /\ writer' = [writer EXCEPT ![w] = [pc |-> "write", batch |-> Head(records.queue)]]
    /\ records' = [records EXCEPT !.queue = Tail(@)]
    /\ WriterUnchanged /\ UNCHANGED <<feedback, stored, panic>>

Write(w) ==
    /\ writer[w].pc = "write" /\ WriterGoes(w, "answer")
    /\ stored' = stored \union {writer[w].batch}
    /\ WriterUnchanged /\ UNCHANGED <<records, feedback, panic>>

\* The feedback of a DNS record is WriteRecord's own channel.
Listening(b) == setting.feedback /\ b \in Captures

Answer(w) ==
    LET b == writer[w].batch
        ready == [writer EXCEPT ![w] = [pc |-> "ready", batch |-> None]]
    IN
    /\ writer[w].pc = "answer"
    /\ IF ~Listening(b) THEN writer' = ready /\ UNCHANGED <<feedback, panic>>
       ELSE IF feedback[b[1]] = "open"
       THEN /\ feedback' = [feedback EXCEPT ![b[1]] = "written"]
            /\ writer' = ready /\ UNCHANGED panic
       ELSE panic' = [on |-> "feedback", of |-> b] /\ UNCHANGED <<feedback, writer>>
    /\ WriterUnchanged /\ UNCHANGED <<records, stored>>

SeeClosed(w) ==
    /\ writer[w].pc = "ready" /\ records.closed /\ records.queue = <<>>
    /\ WriterGoes(w, "finish")
    /\ WriterUnchanged /\ UNCHANGED <<records, feedback, stored, panic>>

\* The file is flushed, closed and renamed.
Finish(w) ==
    /\ writer[w].pc = "finish" /\ WriterGoes(w, "done")
    /\ WriterUnchanged /\ UNCHANGED <<records, feedback, stored, panic>>

\* Close receives from the done channel.
SignalDone(w) ==
    /\ writer[w].pc = "done" /\ pc = "writers" /\ WriterGoes(w, "exited")
    /\ WriterUnchanged /\ UNCHANGED <<records, feedback, stored, panic>>

recordWriter(w) == \/ Create(w) \/ Receive(w) \/ Write(w) \/ Answer(w)
                   \/ SeeClosed(w) \/ Finish(w) \/ SignalDone(w)
-----------------------------------------------------------------------------
(***************************************************************************)
(* Close.                                                                  *)
(***************************************************************************)
CloseUnchanged == UNCHANGED <<setting, watcher, writer, network, capture, feedback, table,
                              stored, panic>>

Returned(q) == request[q].pc \in {"idle", "returned"} \/ request[q].gone

CallClose ==
    /\ pc = "running" /\ \A q \in Requests : Returned(q)
    /\ pc' = "wait"
    /\ UNCHANGED <<records, errChan>> /\ CloseUnchanged

\* WaitGroup.Add is the first thing that the goroutine does.
InGroup_Inside(c) == capture[c].pc \notin {"off", "start", "end"}

\* WaitGroup.Add precedes the go statement, and Done is the last deferred call.
InGroup(c) == capture[c].pc \notin {"off", "end"}

Wait ==
    /\ pc = "wait" /\ \A c \in Captures : ~InGroup(c)
    /\ pc' = "records"
    /\ UNCHANGED <<records, errChan>> /\ CloseUnchanged

CloseRecords ==
    /\ pc = "records" /\ pc' = "writers"
    /\ records' = [records EXCEPT !.closed = TRUE]
    /\ UNCHANGED errChan /\ CloseUnchanged

WritersDone_First == \E w \in Writers : writer[w].pc = "exited"

WritersDone == \A w \in Writers : writer[w].pc = "exited"

WaitWriters ==
    /\ pc = "writers" /\ WritersDone
    /\ errChan' = "closed"
    /\ pc' = IF setting.randomIP THEN "stop" ELSE "caches"
    /\ UNCHANGED records /\ CloseUnchanged

CloseCaches ==
    /\ pc = "caches" /\ pc' = "closed"
    /\ UNCHANGED <<records, errChan>> /\ CloseUnchanged

Close == CallClose \/ Wait \/ CloseRecords \/ WaitWriters \/ CloseCaches
-----------------------------------------------------------------------------
\* The process ends, or the program goes on without the client.
Terminated == (panic # None \/ pc \in {"failed", "closed"}) /\ UNCHANGED vars

\* A panic ends the process.
Next ==
    \/ /\ panic = None
       /\ \/ NewWARCWritingHTTPClient \/ getAvailableIPs \/ Program \/ Resolver
          \/ writeWARCFromConnection \/ (\E w \in Writers : recordWriter(w)) \/ Close
    \/ Terminated

Spec == Init /\ [][Next]_vars

\* Goroutines run, ErrChan is read, and the connections of the captures end
\* (CaptureEnds of module Capture); listing the interfaces comes to an end, with
\* an error or without.
Fairness ==
    /\ WF_vars(panic = None /\ Close)
    /\ WF_vars(panic = None /\ (Select \/ Started \/ Stopped))
    /\ WF_vars(panic = None /\ List)
    /\ WF_vars(panic = None /\ NewWARCWritingHTTPClient)
    /\ \A w \in Writers : WF_vars(panic = None /\ recordWriter(w))
    /\ \A c \in Captures : WF_vars(panic = None /\
           (\/ Begin(c) \/ LookUp(c) \/ ReadFails(c) \/ Collect(c) \/ FinishRecord(c)
            \/ Offer(c) \/ Report(c) \/ CloseFeedback(c) \/ Done(c)))

FairSpec == Spec /\ Fairness
-----------------------------------------------------------------------------
(***************************************************************************)
(* Properties.                                                             *)
(***************************************************************************)

\* client.go:83-99: Close closes channels that others send on, and nobody is
\* left that would, with three exceptions which the code has.  A request that
\* was given up may still connect, and the goroutine for it reports an error
\* after Close; a worker of a lookup may still archive an answer when the
\* lookup has returned; and a redirect brings the feedback channel of its
\* request to a second capture.
NoPanic ==
    panic # None =>
        CASE panic.on = "ErrChan"    -> capture[panic.of].late
          [] panic.on = "WARCWriter" -> /\ panic.of \notin Captures
                                        /\ LET q == panic.of[1] IN
                                           request[q].pc # "dns" \/ request[q].gone
          [] panic.on = "feedback"   -> request[panic.of[1]].hop = "redirected"

\* README.md:83, "defer client.Close()": when Close returns, whatever was
\* handed to the writers is in a file, the files are finished, no capture of
\* a request that was waited for is at work, and the watcher is gone.
CloseMeansStored ==
    pc = "closed" /\ panic = None =>
        /\ records.queue = <<>> /\ \A w \in Writers : writer[w].pc = "exited"
        /\ \A c \in Captures : InGroup(c) => capture[c].late
        /\ \A c \in Captures :
              capture[c].pc = "end" /\ feedback[c[1]] = "written" => c \in stored
                                                    \/ request[c[1]].hop = "redirected"
        /\ watcher \in {"off", "ended"}

\* A revisit refers to a record that exists.  The table names a response
\* before its batch is handed over (dialer.go:626-639), so this is true when
\* Close has returned, and fails for an original whose context ended or whose
\* content failed in between.
RevisitsRefer ==
    pc = "closed" => \A c \in Captures :
        c \in stored /\ capture[c].kind = "revisit" /\ ~capture[capture[c].of].lost
            => capture[c].of \in stored

\* Close returns, whatever the captures, the writers and the watcher of the
\* local addresses were about when it was called.
CloseEnds == pc = "wait" ~> pc = "closed" \/ panic # None
=============================================================================
