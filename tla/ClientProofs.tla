---------------------------- MODULE ClientProofs ----------------------------
(***************************************************************************)
(* Proofs about Client, for any number of requests and of WARC writers and *)
(* all settings.                                                           *)
(***************************************************************************)
EXTENDS ClientInv, SequenceTheorems, TLAPS

-----------------------------------------------------------------------------
(***************************************************************************)
(* Batches and the channel, which holds one.                               *)
(***************************************************************************)

LEMMA CaptureNames ==
  /\ \A q \in Requests, h \in Hops : <<q, h>> \in Captures
  /\ \A c \in Captures : c[1] \in Requests /\ c \in Batches
  /\ \A q \in Requests, a \in Answers : <<q, a>> \in Batches /\ <<q, a>> \notin Captures
  /\ None \notin Batches
<1>1. \A q \in Requests, h \in Hops : <<q, h>> \in Captures
  BY DEF Captures
<1>2. \A c \in Captures : c[1] \in Requests /\ c \in Batches
  BY DEF Captures, Batches
<1>3. Hops \cap Answers = {}
  BY DEF Hops, Answers
<1>4. \A q \in Requests, a \in Answers : <<q, a>> \in Batches /\ <<q, a>> \notin Captures
  BY <1>3 DEF Captures, Batches
<1> QED
  BY <1>1, <1>2, <1>4, ClientAssumption

LEMMA ShortSeq ==
  ASSUME NEW S, NEW s \in Seq(S), Len(s) <= 1
  PROVE  \/ s = <<>>
         \/ \E e \in S : s = <<e>> /\ Head(s) = e /\ Tail(s) = <<>>
<1>1. CASE Len(s) = 0
  BY <1>1, EmptySeq
<1>2. CASE Len(s) = 1
  <2>1. s[1] \in S
    BY <1>2
  <2>2. s = <<s[1]>>
    BY <1>2
  <2>3. Head(s) = s[1]
    BY <1>2
  <2>4. Tail(s) = <<>>
    BY <2>2
  <2> QED
    BY <2>1, <2>2, <2>3, <2>4
<1>3. Len(s) \in Nat
  OBVIOUS
<1>4. \A n \in Nat : n <= 1 => n = 0 \/ n = 1
  OBVIOUS
<1> QED
  BY <1>1, <1>2, <1>3, <1>4

LEMMA OneSeq ==
  ASSUME NEW S, NEW e \in S
  PROVE  /\ <<e>> \in Seq(S) /\ Len(<<e>>) = 1 /\ Append(<<>>, e) = <<e>>
<1>1. Append(<<>>, e) = <<e>> /\ Len(<<e>>) = 1
  OBVIOUS
<1>2. Append(<<>>, e) \in Seq(S)
  BY EmptySeq, AppendProperties
<1> QED
  BY <1>1, <1>2

LEMMA SendFills ==
  ASSUME TypeOK, NEW b \in Batches, Send(b)
  PROVE  /\ ~records.closed /\ records.queue = <<>> /\ panic' = panic
         /\ records'.queue = <<b>> /\ ~records'.closed
         /\ records' \in [queue : Seq(Batches), closed : BOOLEAN]
         /\ Len(records'.queue) <= 1
<1>1. records \in [queue : Seq(Batches), closed : BOOLEAN]
  BY DEF TypeOK
<1>2. Len(records.queue) < 1 /\ ~records.closed /\ panic' = panic
  BY DEF Send
<1>3. records.queue = <<>>
  <2>1. records.queue \in Seq(Batches) /\ Len(records.queue) <= 1
    BY <1>1 DEF TypeOK
  <2>2. \A e \in Batches : Len(<<e>>) = 1
    BY OneSeq
  <2> QED
    BY <1>2, <2>1, <2>2, ShortSeq
<1>4. <<b>> \in Seq(Batches) /\ Append(records.queue, b) = <<b>> /\ Len(<<b>>) = 1
  BY <1>3, OneSeq
<1>5. records' = [records EXCEPT !.queue = <<b>>]
  BY <1>4 DEF Send
<1>6. records' = [queue |-> <<b>>, closed |-> FALSE]
  BY <1>1, <1>2, <1>5
<1> QED
  BY <1>2, <1>3, <1>4, <1>6

LEMMA ReceiveEmpties ==
  ASSUME TypeOK, NEW w \in Writers, Receive(w)
  PROVE  /\ \E b \in Batches : records.queue = <<b>> /\ writer'[w].batch = b
         /\ records'.queue = <<>> /\ records'.closed = records.closed
         /\ records' \in [queue : Seq(Batches), closed : BOOLEAN] /\ Len(records'.queue) <= 1
         /\ writer[w].pc = "ready" /\ writer'[w].pc = "write"
         /\ writer' \in [Writers -> WriterStates]
         /\ \A v \in Writers \ {w} : writer'[v] = writer[v]
<1>1. /\ records \in [queue : Seq(Batches), closed : BOOLEAN]
      /\ writer \in [Writers -> WriterStates]
  BY DEF TypeOK
<1>2. PICK b \in Batches : records.queue = <<b>> /\ Head(records.queue) = b
                           /\ Tail(records.queue) = <<>>
  <2>1. records.queue \in Seq(Batches) /\ Len(records.queue) <= 1 /\ records.queue # <<>>
    BY DEF TypeOK, Receive
  <2> QED
    BY <2>1, ShortSeq
<1>3. /\ writer' = [writer EXCEPT ![w] = [pc |-> "write", batch |-> b]]
      /\ records' = [queue |-> <<>>, closed |-> records.closed]
      /\ writer[w].pc = "ready"
  BY <1>1, <1>2 DEF Receive
<1>4. [pc |-> "write", batch |-> b] \in WriterStates
  BY DEF WriterStates
<1>5. /\ writer' \in [Writers -> WriterStates]
      /\ writer'[w].pc = "write" /\ writer'[w].batch = b
      /\ \A v \in Writers \ {w} : writer'[v] = writer[v]
  BY <1>1, <1>3, <1>4
<1>6. <<>> \in Seq(Batches) /\ Len(<<>>) <= 1
  BY EmptySeq
<1> QED
  BY <1>1, <1>2, <1>3, <1>5, <1>6

-----------------------------------------------------------------------------
(***************************************************************************)
(* What a step does to the record of one goroutine.                        *)
(***************************************************************************)

LEMMA WriterMoves ==
  ASSUME TypeOK, NEW w \in Writers,
         NEW to \in {"create", "ready", "write", "answer", "finish", "done", "exited"},
         WriterGoes(w, to)
  PROVE  /\ writer' \in [Writers -> WriterStates]
         /\ writer'[w].pc = to /\ writer'[w].batch = writer[w].batch
         /\ \A v \in Writers \ {w} : writer'[v] = writer[v]
  BY DEF TypeOK, WriterGoes, WriterStates

LEMMA WriterAnswers ==
  ASSUME TypeOK, NEW w \in Writers,
         writer' = [writer EXCEPT ![w] = [pc |-> "ready", batch |-> None]]
  PROVE  /\ writer' \in [Writers -> WriterStates]
         /\ writer'[w].pc = "ready" /\ writer'[w].batch = None
         /\ \A v \in Writers \ {w} : writer'[v] = writer[v]
  BY DEF TypeOK, WriterStates

LEMMA WritersStart ==
  ASSUME TypeOK, writer' = [w \in Writers |-> [writer[w] EXCEPT !.pc = "create"]]
  PROVE  /\ writer' \in [Writers -> WriterStates]
         /\ \A w \in Writers : writer'[w].pc = "create" /\ writer'[w].batch = writer[w].batch
  BY DEF TypeOK, WriterStates

LEMMA RequestGoes ==
  ASSUME TypeOK, NEW q \in Requests,
         NEW to \in {"dns", "dial", "exchange", "returned"},
         request' = [request EXCEPT ![q].pc = to]
  PROVE  /\ request' \in [Requests -> RequestStates]
         /\ request'[q].pc = to /\ request'[q].hop = request[q].hop
         /\ request'[q].gone = request[q].gone
         /\ \A r \in Requests \ {q} : request'[r] = request[r]
  BY DEF TypeOK, RequestStates

LEMMA RequestIsGone ==
  ASSUME TypeOK, NEW q \in Requests, request' = [request EXCEPT ![q].gone = TRUE]
  PROVE  /\ request' \in [Requests -> RequestStates]
         /\ request'[q].pc = request[q].pc /\ request'[q].hop = request[q].hop
         /\ request'[q].gone
         /\ \A r \in Requests \ {q} : request'[r] = request[r]
  BY DEF TypeOK, RequestStates

LEMMA RequestRedirected ==
  ASSUME TypeOK, NEW q \in Requests,
         request' = [request EXCEPT ![q].pc = "dial", ![q].hop = "redirected"]
  PROVE  /\ request' \in [Requests -> RequestStates]
         /\ request'[q].pc = "dial" /\ request'[q].hop = "redirected"
         /\ request'[q].gone = request[q].gone
         /\ \A r \in Requests \ {q} : request'[r] = request[r]
  BY DEF TypeOK, RequestStates, Hops

LEMMA ResolverMoves ==
  ASSUME TypeOK, NEW q \in Requests,
         \/ NextServer(q)
         \/ \E to \in {"ask", "write", "wait", "ended"} : ResolverGoes(q, to)
  PROVE  resolver' \in [Requests -> ResolverStates]
<1>1. ASSUME NEW to \in {"ask", "write", "wait", "ended"}, ResolverGoes(q, to)
      PROVE  resolver' \in [Requests -> ResolverStates]
  BY <1>1 DEF TypeOK, ResolverGoes, ResolverStates
<1>2. [pc |-> "ask", answer |-> "extra"] \in ResolverStates
  BY DEF ResolverStates, Answers
<1> QED
  BY <1>1, <1>2 DEF NextServer, TypeOK

LEMMA CaptureGoes ==
  ASSUME TypeOK, NEW c \in Captures,
         NEW to \in {"read", "response", "request", "offer", "report", "return", "done", "end"},
         Goes(c, to)
  PROVE  /\ capture' \in [Captures -> CaptureStates]
         /\ capture'[c].pc = to /\ capture'[c].late = capture[c].late
         /\ capture'[c].lost = capture[c].lost
         /\ capture'[c].kind = capture[c].kind /\ capture'[c].of = capture[c].of
         /\ \A d \in Captures \ {c} : capture'[d] = capture[d]
  BY DEF TypeOK, Goes, CaptureStates

LEMMA CaptureGivesUp ==
  ASSUME TypeOK, NEW c \in Captures, NEW to \in {"report", "return"}, GivesUp(c, to)
  PROVE  /\ capture' \in [Captures -> CaptureStates]
         /\ capture'[c].pc = to /\ capture'[c].late = capture[c].late
         /\ capture'[c].lost
         /\ capture'[c].kind = capture[c].kind /\ capture'[c].of = capture[c].of
         /\ \A d \in Captures \ {c} : capture'[d] = capture[d]
  BY DEF TypeOK, GivesUp, CaptureStates

LEMMA CaptureStarts ==
  ASSUME TypeOK, NEW q \in Requests, wrapConnection(q)
  PROVE  LET c == <<q, request[q].hop>> IN
         /\ c \in Captures
         /\ capture' \in [Captures -> CaptureStates]
         /\ capture'[c].pc = "start" /\ capture'[c].late = request[q].gone
         /\ ~capture'[c].lost /\ capture'[c].kind = "response" /\ capture'[c].of = None
         /\ \A d \in Captures \ {c} : capture'[d] = capture[d]
<1> DEFINE c == <<q, request[q].hop>>
           s == [NoCapture EXCEPT !.pc = "start", !.late = request[q].gone]
<1>1. request[q].hop \in Hops /\ request[q].gone \in BOOLEAN
  BY DEF TypeOK, RequestStates
<1>2. c \in Captures
  BY <1>1, CaptureNames
<1>3. /\ s \in CaptureStates /\ s.pc = "start" /\ s.late = request[q].gone
      /\ ~s.lost /\ s.kind = "response" /\ s.of = None
  BY <1>1 DEF NoCapture, CaptureStates
<1>4. capture' = [capture EXCEPT ![c] = s]
  BY DEF wrapConnection
<1>5. capture \in [Captures -> CaptureStates]
  BY DEF TypeOK
<1> HIDE DEF c, s
<1>6. /\ capture' \in [Captures -> CaptureStates] /\ capture'[c] = s
      /\ \A d \in Captures \ {c} : capture'[d] = capture[d]
  BY <1>2, <1>3, <1>4, <1>5
<1> QED
  BY <1>2, <1>3, <1>6 DEF c

LEMMA CaptureLooks ==
  ASSUME TypeOK, NEW c \in Captures, LookUp(c)
  PROVE  /\ capture' \in [Captures -> CaptureStates]
         /\ capture[c].pc = "read" /\ ~capture[c].late
         /\ capture'[c].pc = "looked" /\ capture'[c].late = capture[c].late
         /\ capture'[c].lost = capture[c].lost
         /\ \/ capture'[c].kind = capture[c].kind /\ capture'[c].of = capture[c].of
            \/ capture'[c].kind = "revisit" /\ capture'[c].of = table /\ table # None
         /\ \A d \in Captures \ {c} : capture'[d] = capture[d]
<1>1. capture \in [Captures -> CaptureStates] /\ table \in Captures \union {None}
  BY DEF TypeOK
<1>2. CASE setting.dedupe /\ table # None
  <2> DEFINE s == [capture[c] EXCEPT !.pc = "looked", !.kind = "revisit", !.of = table]
  <2>1. capture' = [capture EXCEPT ![c] = s]
    BY <1>2 DEF LookUp
  <2>2. /\ s \in CaptureStates /\ s.pc = "looked" /\ s.late = capture[c].late
        /\ s.lost = capture[c].lost /\ s.kind = "revisit" /\ s.of = table
    BY <1>1, <1>2 DEF CaptureStates
  <2> HIDE DEF s
  <2>3. /\ capture' \in [Captures -> CaptureStates] /\ capture'[c] = s
        /\ \A d \in Captures \ {c} : capture'[d] = capture[d]
    BY <1>1, <2>1, <2>2
  <2> QED
    BY <1>2, <2>2, <2>3 DEF LookUp
<1>3. CASE ~(setting.dedupe /\ table # None)
  <2>1. capture' = [capture EXCEPT ![c] = [@ EXCEPT !.pc = "looked"]]
    BY <1>3 DEF LookUp
  <2> QED
    BY <1>1, <2>1 DEF LookUp, CaptureStates
<1> QED
  BY <1>2, <1>3

-----------------------------------------------------------------------------
(***************************************************************************)
(* Types.                                                                  *)
(***************************************************************************)

LEMMA TypeStep == ASSUME Inv, Next PROVE TypeOK'
<1> USE DEF Inv, TypeOK, vars, program, network, Before, Closing
<1>1. CASE New
  BY <1>1 DEF New
<1>2. CASE MakeDirs
  BY <1>2 DEF MakeDirs
<1>3. CASE StartPool
  BY <1>3, WritersStart DEF StartPool
<1>4. CASE NewDialer
  BY <1>4 DEF NewDialer
<1>5. CASE Select
  BY <1>5 DEF Select, WatcherUnchanged
<1>6. CASE ListFails
  BY <1>6 DEF ListFails, WatcherUnchanged
<1>7. CASE List
  BY <1>7 DEF List, WatcherUnchanged
<1>8. CASE Started
  BY <1>8 DEF Started, WatcherUnchanged
<1>9. CASE Stopped
  BY <1>9 DEF Stopped, WatcherUnchanged
<1>10. ASSUME NEW q \in Requests, Do(q) PROVE TypeOK'
  <2>1. CASE setting.lookups
    <3>1. ResolverGoes(q, "ask")
      BY <1>10, <2>1 DEF Do, ResolverGoes
    <3> QED
      BY <1>10, <2>1, <3>1, RequestGoes, ResolverMoves DEF Do, RequestUnchanged
  <2>2. CASE ~setting.lookups
    BY <1>10, <2>2, RequestGoes DEF Do, RequestUnchanged
  <2> QED
    BY <2>1, <2>2
<1>11. ASSUME NEW q \in Requests, LookupReturns(q) PROVE TypeOK'
  BY <1>11, RequestGoes DEF LookupReturns, RequestUnchanged
<1>12. ASSUME NEW q \in Requests, DialFails(q) PROVE TypeOK'
  BY <1>12, RequestGoes DEF DialFails, RequestUnchanged
<1>13. ASSUME NEW q \in Requests, wrapConnection(q) PROVE TypeOK'
  <2>1. request' \in [Requests -> RequestStates]
    <3>1. (IF request[q].gone THEN "returned" ELSE "exchange") \in {"exchange", "returned"}
      OBVIOUS
    <3> QED
      BY <1>13, <3>1, RequestGoes DEF wrapConnection
  <2>2. capture' \in [Captures -> CaptureStates]
    BY <1>13, CaptureStarts
  <2> QED
    BY <1>13, <2>1, <2>2 DEF wrapConnection, RequestUnchanged
<1>14. ASSUME NEW q \in Requests, Redirect(q) PROVE TypeOK'
  BY <1>14, RequestRedirected DEF Redirect, RequestUnchanged
<1>15. ASSUME NEW q \in Requests, DoReturns(q) PROVE TypeOK'
  BY <1>15, RequestGoes DEF DoReturns, RequestUnchanged
<1>16. ASSUME NEW q \in Requests, GiveUp(q) PROVE TypeOK'
  BY <1>16, RequestIsGone DEF GiveUp, RequestUnchanged
<1>17. ASSUME NEW q \in Requests, Cancel(q) PROVE TypeOK'
  BY <1>17 DEF Cancel, RequestUnchanged
<1>18. ASSUME NEW q \in Requests, Ask(q) PROVE TypeOK'
  BY <1>18, ResolverMoves DEF Ask, ResolverUnchanged, NextServer
<1>19. ASSUME NEW q \in Requests, WriteRecord(q) PROVE TypeOK'
  <2> DEFINE b == <<q, resolver[q].answer>>
  <2>1. b \in Batches
    BY CaptureNames DEF ResolverStates
  <2> HIDE DEF b
  <2>2. CASE Send(b) /\ ResolverGoes(q, "wait")
    BY <1>19, <2>1, <2>2, SendFills, ResolverMoves DEF WriteRecord, ResolverUnchanged
  <2>3. CASE SendPanics(b) /\ UNCHANGED resolver
    <3>1. panic' \in Panics
      BY <2>1, <2>3 DEF SendPanics, Panics
    <3> QED
      BY <1>19, <2>3, <3>1 DEF WriteRecord, ResolverUnchanged, SendPanics
  <2> QED
    BY <1>19, <2>2, <2>3 DEF WriteRecord, b
<1>20. ASSUME NEW q \in Requests, Answered(q) PROVE TypeOK'
  BY <1>20, ResolverMoves DEF Answered, ResolverUnchanged
<1>21. ASSUME NEW c \in Captures, Begin(c) PROVE TypeOK'
  BY <1>21, CaptureGoes DEF Begin, CaptureUnchanged
<1>22. ASSUME NEW c \in Captures, LookUp(c) PROVE TypeOK'
  <2>1. capture' \in [Captures -> CaptureStates]
    BY <1>22, CaptureLooks
  <2> QED
    BY <1>22, <2>1 DEF LookUp, CaptureUnchanged
<1>23. ASSUME NEW c \in Captures, ReadFails(c) PROVE TypeOK'
  BY <1>23, CaptureGoes DEF ReadFails, CaptureUnchanged
<1>24. ASSUME NEW c \in Captures, Collect(c) PROVE TypeOK'
  BY <1>24, CaptureGoes, CaptureGivesUp DEF Collect, CaptureUnchanged
<1>25. ASSUME NEW c \in Captures, FinishRecord(c) PROVE TypeOK'
  BY <1>25, CaptureGoes, CaptureGivesUp DEF FinishRecord, CaptureUnchanged
<1>26. ASSUME NEW c \in Captures, Offer(c) PROVE TypeOK'
  <2>1. c \in Batches
    BY CaptureNames
  <2>2. CASE Send(c) /\ Goes(c, "done")
    BY <1>26, <2>1, <2>2, SendFills, CaptureGoes DEF Offer, CaptureUnchanged
  <2>3. CASE SendPanics(c) /\ UNCHANGED capture
    <3>1. panic' \in Panics
      BY <2>1, <2>3 DEF SendPanics, Panics
    <3> QED
      BY <1>26, <2>3, <3>1 DEF Offer, CaptureUnchanged, SendPanics
  <2>4. CASE GivesUp(c, "return") /\ UNCHANGED <<records, panic>>
    BY <1>26, <2>4, CaptureGivesUp DEF Offer, CaptureUnchanged
  <2> QED
    BY <1>26, <2>2, <2>3, <2>4 DEF Offer
<1>27. ASSUME NEW c \in Captures, Report(c) PROVE TypeOK'
  BY <1>27, CaptureGoes, CaptureNames DEF Report, CaptureUnchanged, Panics
<1>28. ASSUME NEW c \in Captures, CloseFeedback(c) PROVE TypeOK'
  BY <1>28, CaptureGoes, CaptureNames DEF CloseFeedback, CaptureUnchanged, Panics
<1>29. ASSUME NEW c \in Captures, Done(c) PROVE TypeOK'
  BY <1>29, CaptureGoes DEF Done, CaptureUnchanged
<1>30. ASSUME NEW w \in Writers, Create(w) PROVE TypeOK'
  BY <1>30, WriterMoves DEF Create, WriterUnchanged
<1>31. ASSUME NEW w \in Writers, Receive(w) PROVE TypeOK'
  <2>1. /\ writer' \in [Writers -> WriterStates]
        /\ records' \in [queue : Seq(Batches), closed : BOOLEAN]
        /\ Len(records'.queue) <= 1
    BY <1>31, ReceiveEmpties
  <2> QED
    BY <1>31, <2>1 DEF Receive, WriterUnchanged
<1>32. ASSUME NEW w \in Writers, Write(w) PROVE TypeOK'
  <2>1. writer[w].batch \in Batches
    BY <1>32 DEF Write, WriterStates, BatchInv
  <2> QED
    BY <1>32, <2>1, WriterMoves DEF Write, WriterUnchanged
<1>33. ASSUME NEW w \in Writers, Answer(w) PROVE TypeOK'
  <2>1. writer[w].batch \in Batches \union {None}
    BY DEF WriterStates
  <2>2. writer' \in [Writers -> WriterStates]
    BY <1>33, WriterAnswers DEF Answer
  <2>3. feedback' \in [Requests -> {"open", "written", "closed"}]
    BY <1>33 DEF Answer
  <2>4. panic' \in Panics \union {None}
    <3>1. Listening(writer[w].batch) => writer[w].batch \in Batches
      BY CaptureNames DEF Listening
    <3> QED
      BY <1>33, <3>1 DEF Answer, Panics
  <2> QED
    BY <1>33, <2>2, <2>3, <2>4 DEF Answer, WriterUnchanged
<1>34. ASSUME NEW w \in Writers, SeeClosed(w) PROVE TypeOK'
  BY <1>34, WriterMoves DEF SeeClosed, WriterUnchanged
<1>35. ASSUME NEW w \in Writers, Finish(w) PROVE TypeOK'
  BY <1>35, WriterMoves DEF Finish, WriterUnchanged
<1>36. ASSUME NEW w \in Writers, SignalDone(w) PROVE TypeOK'
  BY <1>36, WriterMoves DEF SignalDone, WriterUnchanged
<1>37. CASE CallClose
  BY <1>37 DEF CallClose, CloseUnchanged
<1>38. CASE Wait
  BY <1>38 DEF Wait, CloseUnchanged
<1>39. CASE CloseRecords
  BY <1>39 DEF CloseRecords, CloseUnchanged
<1>40. CASE WaitWriters
  BY <1>40 DEF WaitWriters, CloseUnchanged
<1>41. CASE CloseCaches
  BY <1>41 DEF CloseCaches, CloseUnchanged
<1>42. CASE Terminated
  BY <1>42 DEF Terminated, vars
<1> QED
  BY <1>1, <1>2, <1>3, <1>4, <1>5, <1>6, <1>7, <1>8, <1>9, <1>10, <1>11, <1>12, <1>13, <1>14, <1>15, <1>16, <1>17, <1>18, <1>19, <1>20, <1>21, <1>22, <1>23, <1>24, <1>25, <1>26, <1>27, <1>28, <1>29, <1>30, <1>31, <1>32, <1>33, <1>34, <1>35, <1>36, <1>37, <1>38, <1>39, <1>40, <1>41, <1>42
  DEF Next, NewWARCWritingHTTPClient, getAvailableIPs, Program, Resolver, writeWARCFromConnection, recordWriter, Close

-----------------------------------------------------------------------------
(***************************************************************************)
(* What each part of Next leaves alone.                                    *)
(***************************************************************************)

LEMMA ConstructorFrame ==
  ASSUME NewWARCWritingHTTPClient
  PROVE  /\ pc \in Before /\ pc' \in Before \union {"failed", "running"}
         /\ UNCHANGED <<setting, records, errChan, network, capture, feedback, table, stored,
                        panic>>
  BY DEF NewWARCWritingHTTPClient, New, MakeDirs, StartPool, NewDialer, Before

LEMMA WatcherFrame ==
  ASSUME getAvailableIPs
  PROVE  /\ pc' = pc \/ (pc = "watch" /\ pc' = "dirs") \/ (pc = "stop" /\ pc' = "caches")
         /\ UNCHANGED <<setting, records, errChan, writer, network, capture, feedback, table,
                        stored, panic>>
  BY DEF getAvailableIPs, Select, ListFails, List, Started, Stopped, WatcherUnchanged

LEMMA ProgramFrame ==
  ASSUME Program
  PROVE  UNCHANGED <<program, records, writer, feedback, table, stored, panic>>
  BY DEF Program, Do, LookupReturns, DialFails, wrapConnection, Redirect, DoReturns, GiveUp,
         Cancel, RequestUnchanged

LEMMA ResolverFrame ==
  ASSUME TypeOK, Resolver
  PROVE  /\ UNCHANGED <<program, writer, request, cancelled, capture, feedback, table, stored>>
         /\ \/ UNCHANGED <<records, panic>>
            \/ \E b \in Batches \ Captures : Send(b)
            \/ /\ records' = records /\ records.closed
               /\ \E b \in Batches \ Captures : panic' = [on |-> "WARCWriter", of |-> b]
<1>1. ASSUME NEW q \in Requests, Ask(q) \/ Answered(q)
      PROVE  /\ UNCHANGED <<program, writer, request, cancelled, capture, feedback, table,
                            stored>>
             /\ UNCHANGED <<records, panic>>
  BY <1>1 DEF Ask, Answered, ResolverUnchanged
<1>2. ASSUME NEW q \in Requests, WriteRecord(q)
      PROVE  /\ UNCHANGED <<program, writer, request, cancelled, capture, feedback, table,
                            stored>>
             /\ \/ \E b \in Batches \ Captures : Send(b)
                \/ /\ records' = records /\ records.closed
                   /\ \E b \in Batches \ Captures : panic' = [on |-> "WARCWriter", of |-> b]
  <2>1. <<q, resolver[q].answer>> \in Batches \ Captures
    BY CaptureNames DEF TypeOK, ResolverStates
  <2> QED
    BY <1>2, <2>1 DEF WriteRecord, ResolverUnchanged, SendPanics
<1> QED
  BY <1>1, <1>2 DEF Resolver

LEMMA CaptureFrame ==
  ASSUME writeWARCFromConnection
  PROVE  UNCHANGED <<program, writer, network, stored>>
  BY DEF writeWARCFromConnection, Begin, LookUp, ReadFails, Collect, FinishRecord, Offer,
         Report, CloseFeedback, Done, CaptureUnchanged

LEMMA WriterFrame ==
  ASSUME NEW w \in Writers, recordWriter(w)
  PROVE  UNCHANGED <<program, network, capture, table>>
  BY DEF recordWriter, Create, Receive, Write, Answer, SeeClosed, Finish, SignalDone,
         WriterUnchanged

LEMMA CloseFrame ==
  ASSUME Close
  PROVE  UNCHANGED <<setting, watcher, writer, network, capture, feedback, table, stored,
                     panic>>
  BY DEF Close, CallClose, Wait, CloseRecords, WaitWriters, CloseCaches, CloseUnchanged

\* What a step of the program does to the request q.
RequestMoves(q) ==
    /\ request[q].gone => request'[q].gone
    /\ \/ /\ capture' = capture /\ request'[q].hop = request[q].hop
          /\ \/ request'[q].pc = request[q].pc
             \/ /\ request[q].pc = "idle" /\ pc = "running"
                /\ request'[q].pc \in {"dns", "dial"}
             \/ request[q].pc = "dns" /\ request'[q].pc \in {"dial", "returned"}
             \/ request'[q].pc = "returned"
       \/ /\ capture' = capture /\ request[q].hop = "first" /\ request[q].pc = "exchange"
          /\ request'[q].hop = "redirected" /\ request'[q].pc = "dial"
       \/ /\ wrapConnection(q) /\ request'[q].hop = request[q].hop
          /\ request'[q].pc \in {"exchange", "returned"}

LEMMA RequestStep ==
  ASSUME TypeOK, Program
  PROVE  \/ UNCHANGED <<request, capture>>
         \/ \E q \in Requests : /\ RequestMoves(q)
                                /\ \A r \in Requests \ {q} : request'[r] = request[r]
<1> DEFINE Others(q) == \A r \in Requests \ {q} : request'[r] = request[r]
<1>1. ASSUME NEW q \in Requests, Do(q) PROVE RequestMoves(q) /\ Others(q)
  <2>1. PICK to \in {"dns", "dial"} : request' = [request EXCEPT ![q].pc = to]
    BY <1>1 DEF Do
  <2>2. capture' = capture /\ request[q].pc = "idle" /\ pc = "running"
    BY <1>1 DEF Do
  <2> QED
    BY <2>1, <2>2, RequestGoes DEF RequestMoves
<1>2. ASSUME NEW q \in Requests, LookupReturns(q) PROVE RequestMoves(q) /\ Others(q)
  <2>1. PICK to \in {"dial", "returned"} : request' = [request EXCEPT ![q].pc = to]
    BY <1>2 DEF LookupReturns
  <2>2. capture' = capture /\ request[q].pc = "dns"
    BY <1>2 DEF LookupReturns
  <2> QED
    BY <2>1, <2>2, RequestGoes DEF RequestMoves
<1>3. ASSUME NEW q \in Requests, wrapConnection(q) PROVE RequestMoves(q) /\ Others(q)
  <2>1. PICK to \in {"exchange", "returned"} : request' = [request EXCEPT ![q].pc = to]
    BY <1>3 DEF wrapConnection
  <2> QED
    BY <1>3, <2>1, RequestGoes DEF RequestMoves
<1>4. ASSUME NEW q \in Requests, DialFails(q) \/ DoReturns(q)
      PROVE  RequestMoves(q) /\ Others(q)
  <2>1. request' = [request EXCEPT ![q].pc = "returned"] /\ capture' = capture
    BY <1>4 DEF DialFails, DoReturns
  <2> QED
    BY <2>1, RequestGoes DEF RequestMoves
<1>5. ASSUME NEW q \in Requests, Redirect(q) PROVE RequestMoves(q) /\ Others(q)
  <2>1. /\ request' = [request EXCEPT ![q].pc = "dial", ![q].hop = "redirected"]
        /\ request[q].pc = "exchange" /\ request[q].hop = "first" /\ capture' = capture
    BY <1>5 DEF Redirect
  <2> QED
    BY <2>1, RequestRedirected DEF RequestMoves
<1>6. ASSUME NEW q \in Requests, GiveUp(q) PROVE RequestMoves(q) /\ Others(q)
  <2>1. request' = [request EXCEPT ![q].gone = TRUE] /\ capture' = capture
    BY <1>6 DEF GiveUp
  <2> QED
    BY <2>1, RequestIsGone DEF RequestMoves
<1>7. ASSUME NEW q \in Requests, Cancel(q) PROVE UNCHANGED <<request, capture>>
  BY <1>7 DEF Cancel
<1> HIDE DEF Others
<1> QED
  BY <1>1, <1>2, <1>3, <1>4, <1>5, <1>6, <1>7 DEF Program, Others

\* What a step of the capture c does to its own record and to what it shares.
Works(c) ==
    /\ UNCHANGED <<records, feedback, panic>>
    /\ \/ /\ table' = table
          /\ \/ capture[c].pc = "start" /\ capture'[c].pc = "read"
             \/ capture[c].pc = "read" /\ ~capture[c].late /\ capture'[c].pc = "looked"
             \/ capture[c].pc \in {"read", "looked"} /\ capture'[c].pc = "report"
             \/ capture[c].pc = "looked" /\ capture'[c].pc = "response"
             \/ capture[c].pc = "request" /\ capture'[c].pc = "offer"
             \/ capture[c].pc = "report" /\ capture'[c].pc = "return"
             \/ /\ capture[c].pc \in {"looked", "response", "request", "offer"}
                /\ capture'[c].pc \in {"report", "return"} /\ capture'[c].lost
       \/ /\ capture[c].pc = "response" /\ capture'[c].pc = "request"
          /\ table' = table \/ table' = c

Ends(c) ==
    /\ UNCHANGED <<records, table, panic>>
    /\ \/ capture[c].pc = "done" /\ capture'[c].pc = "end" /\ feedback' = feedback
       \/ /\ capture[c].pc = "return" /\ capture'[c].pc = "done"
          /\ \/ feedback' = feedback
             \/ feedback' = [feedback EXCEPT ![c[1]] = "closed"]

Sends(c) ==
    /\ capture[c].pc = "offer" /\ Send(c) /\ capture'[c].pc = "done"
    /\ UNCHANGED <<feedback, table>>

CaptureMoves(c) ==
    /\ Works(c) \/ Ends(c) \/ Sends(c)
    /\ capture'[c].late = capture[c].late /\ (capture[c].lost => capture'[c].lost)
    /\ \/ capture'[c].kind = capture[c].kind /\ capture'[c].of = capture[c].of
       \/ capture'[c].kind = "revisit" /\ capture'[c].of = table /\ table # None
    /\ \A d \in Captures \ {c} : capture'[d] = capture[d]

CapturePanics(c) ==
    /\ UNCHANGED <<records, capture, feedback, table>>
    /\ \/ /\ capture[c].pc = "offer" /\ records.closed
          /\ panic' = [on |-> "WARCWriter", of |-> c]
       \/ /\ capture[c].pc = "report" /\ errChan = "closed"
          /\ panic' = [on |-> "ErrChan", of |-> c]
       \/ /\ capture[c].pc = "return" /\ setting.feedback /\ feedback[c[1]] # "open"
          /\ panic' = [on |-> "feedback", of |-> c]

LEMMA CaptureStep ==
  ASSUME TypeOK, writeWARCFromConnection
  PROVE  \E c \in Captures : CaptureMoves(c) \/ CapturePanics(c)
<1>1. ASSUME NEW c \in Captures, Begin(c) PROVE CaptureMoves(c)
  <2>1. /\ capture[c].pc = "start" /\ Goes(c, "read")
        /\ UNCHANGED <<records, feedback, table, panic>>
    BY <1>1 DEF Begin
  <2> QED
    BY <2>1, CaptureGoes DEF CaptureMoves, Works
<1>2. ASSUME NEW c \in Captures, LookUp(c) PROVE CaptureMoves(c)
  <2>1. UNCHANGED <<records, feedback, table, panic>>
    BY <1>2 DEF LookUp
  <2> QED
    BY <1>2, <2>1, CaptureLooks DEF CaptureMoves, Works
<1>3. ASSUME NEW c \in Captures, ReadFails(c) PROVE CaptureMoves(c)
  <2>1. /\ capture[c].pc \in {"read", "looked"} /\ Goes(c, "report")
        /\ UNCHANGED <<records, feedback, table, panic>>
    BY <1>3 DEF ReadFails
  <2> QED
    BY <2>1, CaptureGoes DEF CaptureMoves, Works
<1>4. ASSUME NEW c \in Captures, Collect(c) PROVE CaptureMoves(c)
  <2>1. capture[c].pc = "looked" /\ UNCHANGED <<records, feedback, table, panic>>
    BY <1>4 DEF Collect
  <2>2. CASE Goes(c, "response")
    BY <2>1, <2>2, CaptureGoes DEF CaptureMoves, Works
  <2>3. CASE GivesUp(c, "return")
    BY <2>1, <2>3, CaptureGivesUp DEF CaptureMoves, Works
  <2> QED
    BY <1>4, <2>2, <2>3 DEF Collect
<1>5. ASSUME NEW c \in Captures, FinishRecord(c) PROVE CaptureMoves(c)
  <2>1. UNCHANGED <<records, feedback, panic>>
    BY <1>5 DEF FinishRecord
  <2>2. CASE /\ capture[c].pc \in {"response", "request"} /\ table' = table
             /\ GivesUp(c, "return") \/ GivesUp(c, "report")
    BY <2>1, <2>2, CaptureGivesUp DEF CaptureMoves, Works
  <2>3. CASE capture[c].pc = "response" /\ Goes(c, "request") /\ (table' = table \/ table' = c)
    BY <2>1, <2>3, CaptureGoes DEF CaptureMoves, Works
  <2>4. CASE capture[c].pc = "request" /\ Goes(c, "offer") /\ table' = table
    BY <2>1, <2>4, CaptureGoes DEF CaptureMoves, Works
  <2> QED
    BY <1>5, <2>2, <2>3, <2>4 DEF FinishRecord
<1>6. ASSUME NEW c \in Captures, Offer(c) PROVE CaptureMoves(c) \/ CapturePanics(c)
  <2>1. capture[c].pc = "offer" /\ UNCHANGED <<feedback, table>>
    BY <1>6 DEF Offer
  <2>2. CASE Send(c) /\ Goes(c, "done")
    BY <2>1, <2>2, CaptureGoes DEF CaptureMoves, Sends
  <2>3. CASE SendPanics(c) /\ UNCHANGED capture
    BY <2>1, <2>3 DEF CapturePanics, SendPanics
  <2>4. CASE GivesUp(c, "return") /\ UNCHANGED <<records, panic>>
    BY <2>1, <2>4, CaptureGivesUp DEF CaptureMoves, Works
  <2> QED
    BY <1>6, <2>2, <2>3, <2>4 DEF Offer
<1>7. ASSUME NEW c \in Captures, Report(c) PROVE CaptureMoves(c) \/ CapturePanics(c)
  <2>1. capture[c].pc = "report" /\ UNCHANGED <<records, feedback, table>>
    BY <1>7 DEF Report
  <2>2. CASE errChan = "open"
    BY <1>7, <2>1, <2>2, CaptureGoes DEF Report, CaptureMoves, Works
  <2>3. CASE errChan # "open"
    BY <1>7, <2>1, <2>3 DEF Report, CapturePanics, TypeOK
  <2> QED
    BY <2>2, <2>3
<1>8. ASSUME NEW c \in Captures, CloseFeedback(c) PROVE CaptureMoves(c) \/ CapturePanics(c)
  <2>1. capture[c].pc = "return" /\ UNCHANGED <<records, table>>
    BY <1>8 DEF CloseFeedback
  <2>2. CASE Goes(c, "done") /\ UNCHANGED <<feedback, panic>>
    BY <2>1, <2>2, CaptureGoes DEF CaptureMoves, Ends
  <2>3. CASE /\ feedback' = [feedback EXCEPT ![c[1]] = "closed"]
             /\ Goes(c, "done") /\ UNCHANGED panic
    BY <2>1, <2>3, CaptureGoes DEF CaptureMoves, Ends
  <2>4. CASE /\ setting.feedback /\ feedback[c[1]] # "open"
             /\ panic' = [on |-> "feedback", of |-> c] /\ UNCHANGED <<capture, feedback>>
    BY <2>1, <2>4 DEF CapturePanics
  <2> QED
    BY <1>8, <2>2, <2>3, <2>4 DEF CloseFeedback
<1>9. ASSUME NEW c \in Captures, Done(c) PROVE CaptureMoves(c)
  <2>1. /\ capture[c].pc = "done" /\ Goes(c, "end")
        /\ UNCHANGED <<records, feedback, table, panic>>
    BY <1>9 DEF Done
  <2> QED
    BY <2>1, CaptureGoes DEF CaptureMoves, Ends
<1> QED
  BY <1>1, <1>2, <1>3, <1>4, <1>5, <1>6, <1>7, <1>8, <1>9 DEF writeWARCFromConnection

-----------------------------------------------------------------------------
(***************************************************************************)
(* Each part of the invariant is kept.                                     *)
(***************************************************************************)

LEMMA GoneStep == ASSUME Inv, Next PROVE GoneInv'
<1> USE DEF Inv, GoneInv, Closing
<1>1. CASE NewWARCWritingHTTPClient
  BY <1>1, ConstructorFrame DEF Before
<1>2. CASE getAvailableIPs
  BY <1>2, WatcherFrame DEF network, Returned
<1>3. CASE Program
  <2> SUFFICES ASSUME NEW r \in Requests, pc \in Closing, Returned(r) PROVE Returned(r)'
    BY <1>3, ProgramFrame DEF program
  <2>1. request'[r] = request[r] => Returned(r)'
    BY DEF Returned
  <2>2. CASE UNCHANGED <<request, capture>>
    BY <2>1, <2>2
  <2>3. ASSUME NEW q \in Requests, wrapConnection(q), q = r PROVE Returned(r)'
    <3>1. request[q].pc = "dial" /\ request'[q].gone = request[q].gone
      BY <2>3, RequestGoes DEF wrapConnection
    <3> QED
      BY <2>3, <3>1 DEF Returned
  <2> QED
    BY <1>3, <2>1, <2>2, <2>3, RequestStep DEF RequestMoves, Returned
<1>4. CASE Resolver \/ writeWARCFromConnection \/ \E w \in Writers : recordWriter(w)
  BY <1>4, ResolverFrame, CaptureFrame, WriterFrame DEF program, network, Returned
<1>5. CASE Close
  BY <1>5, CloseFrame
     DEF Close, CallClose, Wait, CloseRecords, WaitWriters, CloseCaches, network, Returned
<1>6. CASE Terminated
  BY <1>6 DEF Terminated, vars, network, Returned
<1> QED
  BY <1>1, <1>2, <1>3, <1>4, <1>5, <1>6 DEF Next

\* What a step of the writer w does to its own record and to what it shares.
Serves(w) ==
    /\ UNCHANGED <<records, feedback, panic>> /\ writer'[w].batch = writer[w].batch
    /\ \/ writer[w].pc = "create" /\ writer'[w].pc = "ready" /\ stored' = stored
       \/ /\ writer[w].pc = "write" /\ writer'[w].pc = "answer"
          /\ stored' = stored \union {writer[w].batch}
       \/ /\ writer[w].pc = "ready" /\ writer'[w].pc = "finish" /\ stored' = stored
          /\ records.closed /\ records.queue = <<>>
       \/ writer[w].pc = "finish" /\ writer'[w].pc = "done" /\ stored' = stored
       \/ writer[w].pc = "done" /\ writer'[w].pc = "exited" /\ stored' = stored

Takes(w) ==
    /\ UNCHANGED <<feedback, stored, panic>>
    /\ \E b \in Batches : records.queue = <<b>> /\ writer'[w].batch = b
    /\ records'.queue = <<>> /\ records'.closed = records.closed
    /\ writer[w].pc = "ready" /\ writer'[w].pc = "write"

Replies(w) ==
    /\ UNCHANGED <<records, stored, panic>>
    /\ writer[w].pc = "answer" /\ writer'[w].pc = "ready" /\ writer'[w].batch = None
    /\ \/ feedback' = feedback
       \/ /\ writer[w].batch \in Captures
          /\ feedback' = [feedback EXCEPT ![writer[w].batch[1]] = "written"]

WriterActs(w) ==
    /\ Serves(w) \/ Takes(w) \/ Replies(w)
    /\ \A v \in Writers \ {w} : writer'[v] = writer[v]

WriterPanics(w) ==
    /\ UNCHANGED <<records, writer, feedback, stored>>
    /\ writer[w].pc = "answer" /\ writer[w].batch \in Captures
    /\ feedback[writer[w].batch[1]] # "open"
    /\ panic' = [on |-> "feedback", of |-> writer[w].batch]

LEMMA WriterStep ==
  ASSUME TypeOK, NEW w \in Writers, recordWriter(w)
  PROVE  WriterActs(w) \/ WriterPanics(w)
<1>1. CASE Create(w)
  <2>1. /\ writer[w].pc = "create" /\ WriterGoes(w, "ready")
        /\ UNCHANGED <<records, feedback, stored, panic>>
    BY <1>1 DEF Create
  <2> QED
    BY <2>1, WriterMoves DEF WriterActs, Serves
<1>2. CASE Receive(w)
  <2>1. UNCHANGED <<feedback, stored, panic>>
    BY <1>2 DEF Receive
  <2> QED
    BY <1>2, <2>1, ReceiveEmpties DEF WriterActs, Takes
<1>3. CASE Write(w)
  <2>1. /\ writer[w].pc = "write" /\ WriterGoes(w, "answer")
        /\ stored' = stored \union {writer[w].batch}
        /\ UNCHANGED <<records, feedback, panic>>
    BY <1>3 DEF Write
  <2> QED
    BY <2>1, WriterMoves DEF WriterActs, Serves
<1>4. CASE Answer(w)
  <2>1. writer[w].pc = "answer" /\ UNCHANGED <<records, stored>>
    BY <1>4 DEF Answer
  <2>2. CASE /\ writer' = [writer EXCEPT ![w] = [pc |-> "ready", batch |-> None]]
             /\ UNCHANGED panic
             /\ \/ feedback' = feedback
                \/ /\ writer[w].batch \in Captures
                   /\ feedback' = [feedback EXCEPT ![writer[w].batch[1]] = "written"]
    BY <2>1, <2>2, WriterAnswers DEF WriterActs, Replies
  <2>3. CASE /\ UNCHANGED <<feedback, writer>> /\ writer[w].batch \in Captures
             /\ feedback[writer[w].batch[1]] # "open"
             /\ panic' = [on |-> "feedback", of |-> writer[w].batch]
    BY <2>1, <2>3 DEF WriterPanics
  <2> QED
    BY <1>4, <2>2, <2>3 DEF Answer, Listening
<1>5. CASE SeeClosed(w)
  <2>1. /\ writer[w].pc = "ready" /\ records.closed /\ records.queue = <<>>
        /\ WriterGoes(w, "finish") /\ UNCHANGED <<records, feedback, stored, panic>>
    BY <1>5 DEF SeeClosed
  <2> QED
    BY <2>1, WriterMoves DEF WriterActs, Serves
<1>6. CASE Finish(w)
  <2>1. /\ writer[w].pc = "finish" /\ WriterGoes(w, "done")
        /\ UNCHANGED <<records, feedback, stored, panic>>
    BY <1>6 DEF Finish
  <2> QED
    BY <2>1, WriterMoves DEF WriterActs, Serves
<1>7. CASE SignalDone(w)
  <2>1. /\ writer[w].pc = "done" /\ WriterGoes(w, "exited")
        /\ UNCHANGED <<records, feedback, stored, panic>>
    BY <1>7 DEF SignalDone
  <2> QED
    BY <2>1, WriterMoves DEF WriterActs, Serves
<1> QED
  BY <1>1, <1>2, <1>3, <1>4, <1>5, <1>6, <1>7 DEF recordWriter

\* Only one capture of a request that was not redirected has been started.
LEMMA FirstHop ==
  ASSUME Inv, NEW c \in Captures, capture[c].pc # "off", request[c[1]].hop = "first"
  PROVE  c = <<c[1], "first">>
<1>1. c \in Requests \X {"first", "redirected"}
  BY DEF Captures, Hops
<1>2. c = <<c[1], "first">> \/ c = <<c[1], "redirected">>
  BY <1>1
<1>3. capture[<<c[1], "redirected">>].pc = "off"
  BY <1>1 DEF Inv, HopInv
<1> QED
  BY <1>2, <1>3

\* A batch that is in the channel is the only one there.
LEMMA OneQueued ==
  ASSUME NEW c, NEW d, <<c>> = <<d>>
  PROVE  c = d
OBVIOUS

\* Nothing of the constructor, the watcher, the program or Close moves a batch.
LEMMA BatchesStay ==
  ASSUME Inv, NewWARCWritingHTTPClient \/ getAvailableIPs \/ Program \/ Close \/ Terminated
  PROVE  /\ stored' = stored /\ feedback' = feedback /\ table' = table
         /\ records'.queue = records.queue
         /\ \A w \in Writers : writer'[w].batch = writer[w].batch
         /\ \A w \in Writers : writer'[w] = writer[w]
               \/ (writer[w].pc = "off" /\ writer'[w].pc = "create")
<1> USE DEF Inv
<1>1. CASE NewWARCWritingHTTPClient
  <2>1. UNCHANGED <<stored, feedback, table, records>>
    BY <1>1, ConstructorFrame
  <2>2. CASE StartPool
    <3>1. CASE writer' = [w \in Writers |-> [writer[w] EXCEPT !.pc = "create"]]
      <4>1. \A w \in Writers : writer[w].pc = "off"
        BY <2>2 DEF StartPool, PhaseInv
      <4> QED
        BY <2>1, <3>1, <4>1, WritersStart
    <3>2. CASE writer' = writer
      BY <2>1, <3>2
    <3> QED
      BY <2>2, <3>1, <3>2 DEF StartPool
  <2>3. CASE New \/ MakeDirs \/ NewDialer
    BY <2>1, <2>3 DEF New, MakeDirs, NewDialer
  <2> QED
    BY <1>1, <2>2, <2>3 DEF NewWARCWritingHTTPClient
<1>2. CASE getAvailableIPs
  BY <1>2, WatcherFrame
<1>3. CASE Program
  BY <1>3, ProgramFrame
<1>4. CASE Close
  <2>1. UNCHANGED <<stored, feedback, table, writer>>
    BY <1>4, CloseFrame
  <2>2. records'.queue = records.queue
    BY <1>4 DEF TypeOK, Close, CallClose, Wait, CloseRecords, WaitWriters, CloseCaches
  <2> QED
    BY <2>1, <2>2
<1>5. CASE Terminated
  BY <1>5 DEF Terminated, vars
<1> QED
  BY <1>1, <1>2, <1>3, <1>4, <1>5

LEMMA PhaseStep == ASSUME Inv, Next PROVE PhaseInv'
<1> USE DEF Inv
<1>1. CASE NewWARCWritingHTTPClient
  <2>1. /\ pc \in Before /\ pc' \in Before \union {"failed", "running"}
        /\ UNCHANGED <<setting, records, errChan>>
    BY <1>1, ConstructorFrame
  <2>2. ~records.closed /\ errChan # "closed"
    BY <2>1 DEF PhaseInv, Before, PastRecords, PastWriters
  <2>3. \A w \in Writers : writer'[w].pc \notin {"finish", "done", "exited"}
    BY <1>1, <2>2, BatchesStay DEF PhaseInv
  <2>4. pc' \in {"new", "watch", "dirs", "pool"} => \A w \in Writers : writer'[w].pc = "off"
    BY <1>1 DEF NewWARCWritingHTTPClient, New, MakeDirs, StartPool, NewDialer, PhaseInv
  <2>5. ~setting.randomIP => watcher' = "off" /\ pc' # "watch"
    BY <1>1 DEF NewWARCWritingHTTPClient, New, MakeDirs, StartPool, NewDialer, PhaseInv
  <2> QED
    BY <2>1, <2>2, <2>3, <2>4, <2>5 DEF PhaseInv, Before, PastRecords, PastWriters
<1>2. CASE getAvailableIPs
  <2>1. /\ pc' = pc \/ (pc = "watch" /\ pc' = "dirs") \/ (pc = "stop" /\ pc' = "caches")
        /\ UNCHANGED <<setting, records, errChan, writer>>
    BY <1>2, WatcherFrame
  <2>2. setting.randomIP
    BY <1>2 DEF PhaseInv, getAvailableIPs, Select, ListFails, List, Started, Stopped
  <2>3. pc' \in {"caches", "closed"} => watcher' = "ended"
    BY <1>2, <2>2 DEF PhaseInv, getAvailableIPs, Select, ListFails, List, Started, Stopped
  <2> QED
    BY <2>1, <2>2, <2>3 DEF PhaseInv, PastRecords, PastWriters
<1>3. CASE Program
  BY <1>3, ProgramFrame DEF PhaseInv, program
<1>4. CASE Resolver
  <2>1. UNCHANGED <<program, writer>>
    BY <1>4, ResolverFrame
  <2>2. CASE records' = records
    BY <2>1, <2>2 DEF PhaseInv, program
  <2>3. ASSUME NEW b \in Batches, Send(b) PROVE PhaseInv'
    <3>1. ~records.closed /\ ~records'.closed
      BY <2>3, SendFills
    <3> QED
      BY <2>1, <3>1 DEF PhaseInv, program
  <2> QED
    BY <1>4, <2>2, <2>3, ResolverFrame
<1>5. CASE writeWARCFromConnection
  <2>1. UNCHANGED <<program, writer>>
    BY <1>5, CaptureFrame
  <2>2. CASE records' = records
    BY <2>1, <2>2 DEF PhaseInv, program
  <2>3. ASSUME NEW c \in Captures, Send(c) PROVE PhaseInv'
    <3>1. ~records.closed /\ ~records'.closed
      BY <2>3, SendFills, CaptureNames
    <3> QED
      BY <2>1, <3>1 DEF PhaseInv, program
  <2> QED
    BY <1>5, <2>2, <2>3, CaptureStep DEF CaptureMoves, CapturePanics, Works, Ends, Sends
<1>6. ASSUME NEW w \in Writers, recordWriter(w) PROVE PhaseInv'
  <2>1. UNCHANGED program
    BY <1>6, WriterFrame
  <2>2. CASE WriterPanics(w)
    BY <2>1, <2>2 DEF WriterPanics, PhaseInv, program
  <2>3. CASE Takes(w) /\ \A v \in Writers \ {w} : writer'[v] = writer[v]
    <3>1. records.queue # <<>>
      BY <2>3 DEF Takes
    <3> QED
      BY <2>1, <2>3, <3>1 DEF Takes, PhaseInv, program
  <2>4. CASE Serves(w) /\ \A v \in Writers \ {w} : writer'[v] = writer[v]
    BY <2>1, <2>4 DEF Serves, PhaseInv, program
  <2>5. CASE Replies(w) /\ \A v \in Writers \ {w} : writer'[v] = writer[v]
    BY <2>1, <2>5 DEF Replies, PhaseInv, program
  <2> QED
    BY <1>6, <2>2, <2>3, <2>4, <2>5, WriterStep DEF WriterActs
<1>7. CASE Close
  <2>1. UNCHANGED <<setting, watcher, writer>>
    BY <1>7, CloseFrame
  <2>2. CASE CallClose \/ Wait \/ CloseCaches
    BY <2>1, <2>2
       DEF CallClose, Wait, CloseCaches, PhaseInv, PastRecords, PastWriters
  <2>3. CASE CloseRecords
    <3>1. records'.closed /\ records'.queue = records.queue
      BY <2>3 DEF CloseRecords, TypeOK
    <3> QED
      BY <2>1, <2>3, <3>1 DEF CloseRecords, PhaseInv, PastRecords, PastWriters
  <2>4. CASE WaitWriters
    <3>1. ~setting.randomIP => watcher = "off"
      BY DEF PhaseInv
    <3> QED
      BY <2>1, <2>4, <3>1
         DEF WaitWriters, WritersDone, PhaseInv, PastRecords, PastWriters
  <2> QED
    BY <1>7, <2>2, <2>3, <2>4 DEF Close
<1>8. CASE Terminated
  BY <1>8 DEF Terminated, vars, PhaseInv
<1> QED
  BY <1>1, <1>2, <1>3, <1>4, <1>5, <1>6, <1>7, <1>8 DEF Next

LEMMA GroupStep == ASSUME Inv, Next PROVE GroupInv'
<1> USE DEF Inv
<1>1. CASE NewWARCWritingHTTPClient
  BY <1>1, ConstructorFrame DEF GroupInv, PastGroup, Before
<1>2. CASE getAvailableIPs
  BY <1>2, WatcherFrame DEF GroupInv, PastGroup, InGroup
<1>3. CASE Program
  <2>1. pc' = pc
    BY <1>3, ProgramFrame DEF program
  <2>2. CASE capture' = capture
    BY <2>1, <2>2 DEF GroupInv, InGroup
  <2>3. ASSUME NEW q \in Requests, wrapConnection(q) PROVE GroupInv'
    <3>1. pc \in PastGroup => request[q].gone
      BY <2>3 DEF GoneInv, Returned, PastGroup, Closing, wrapConnection
    <3> DEFINE c == <<q, request[q].hop>>
    <3>2. /\ c \in Captures /\ capture'[c].pc = "start"
          /\ capture'[c].late = request[q].gone
          /\ \A d \in Captures \ {c} : capture'[d] = capture[d]
      BY <2>3, CaptureStarts
    <3> HIDE DEF c
    <3> QED
      BY <2>1, <3>1, <3>2 DEF GroupInv, InGroup
  <2> QED
    BY <1>3, <2>2, <2>3, RequestStep DEF RequestMoves
<1>4. CASE Resolver \/ \E w \in Writers : recordWriter(w)
  BY <1>4, ResolverFrame, WriterFrame DEF program, GroupInv, InGroup
<1>5. CASE writeWARCFromConnection
  <2>1. pc' = pc
    BY <1>5, CaptureFrame DEF program
  <2>2. ASSUME NEW c \in Captures, CaptureMoves(c) PROVE GroupInv'
    <3>1. /\ capture'[c].late = capture[c].late /\ capture[c].pc \notin {"off", "end"}
          /\ \A d \in Captures \ {c} : capture'[d] = capture[d]
      BY <2>2 DEF CaptureMoves, Works, Ends, Sends
    <3>2. capture[c].late =>
             capture'[c].pc \in {"start", "read", "report", "return", "done", "end"}
      BY <2>2 DEF GroupInv, CaptureMoves, Works, Ends, Sends
    <3> QED
      BY <2>1, <3>1, <3>2 DEF GroupInv, InGroup
  <2>3. ASSUME NEW c \in Captures, CapturePanics(c) PROVE GroupInv'
    BY <2>1, <2>3 DEF CapturePanics, GroupInv, InGroup
  <2> QED
    BY <1>5, <2>2, <2>3, CaptureStep
<1>6. CASE Close
  <2>1. capture' = capture
    BY <1>6, CloseFrame
  <2> QED
    BY <1>6, <2>1 DEF Close, CallClose, Wait, CloseRecords, WaitWriters, CloseCaches, GroupInv,
                      PastGroup, InGroup
<1>7. CASE Terminated
  BY <1>7 DEF Terminated, vars, GroupInv, InGroup
<1> QED
  BY <1>1, <1>2, <1>3, <1>4, <1>5, <1>6, <1>7 DEF Next

LEMMA HopStep == ASSUME Inv, Next PROVE HopInv'
<1> USE DEF Inv
<1>1. CASE UNCHANGED <<request, capture>>
  BY <1>1 DEF HopInv
<1>2. ASSUME NEW q \in Requests, RequestMoves(q),
             \A r \in Requests \ {q} : request'[r] = request[r]
      PROVE  HopInv'
  <2>1. request[q].hop \in Hops
    BY DEF TypeOK, RequestStates
  <2>2. CASE capture' = capture /\ request'[q].hop = request[q].hop
    <3>1. request'[q].pc \in {"idle", "dns", "dial"} => request[q].pc \in {"idle", "dns", "dial"}
      BY <1>2, <2>2 DEF RequestMoves, wrapConnection
    <3> QED
      BY <1>2, <2>2, <3>1 DEF HopInv
  <2>3. CASE /\ capture' = capture /\ request[q].hop = "first"
             /\ request'[q].hop = "redirected"
    BY <1>2, <2>3 DEF HopInv
  <2>4. CASE /\ wrapConnection(q) /\ request'[q].hop = request[q].hop
             /\ request'[q].pc \in {"exchange", "returned"}
    <3> DEFINE c == <<q, request[q].hop>>
    <3>1. \A d \in Captures \ {c} : capture'[d] = capture[d]
      BY <2>4, CaptureStarts
    <3>2. /\ \A r \in Requests \ {q}, h \in Hops : <<r, h>> # c
          /\ request[q].hop = "first" => <<q, "redirected">> # c
      OBVIOUS
    <3> HIDE DEF c
    <3>3. /\ \A r \in Requests \ {q}, h \in Hops : capture'[<<r, h>>] = capture[<<r, h>>]
          /\ request[q].hop = "first" =>
                capture'[<<q, "redirected">>] = capture[<<q, "redirected">>]
      BY <3>1, <3>2, CaptureNames DEF Hops
    <3>4. \A r \in Requests : request[r].hop \in Hops /\ "redirected" \in Hops
      BY DEF TypeOK, RequestStates, Hops
    <3>5. ASSUME NEW r \in Requests \ {q}
          PROVE  /\ request'[r].hop = "first" => capture'[<<r, "redirected">>].pc = "off"
                 /\ request'[r].pc \in {"idle", "dns", "dial"} =>
                       capture'[<<r, request'[r].hop>>].pc = "off"
      <4>1. request'[r] = request[r]
        BY <1>2
      <4> QED
        BY <3>3, <3>4, <4>1 DEF HopInv
    <3>6. request'[q].hop = "first" => capture'[<<q, "redirected">>].pc = "off"
      BY <2>4, <3>3 DEF HopInv
    <3> QED
      BY <2>4, <3>5, <3>6 DEF HopInv
  <2> QED
    BY <1>2, <2>2, <2>3, <2>4 DEF RequestMoves
<1>3. CASE writeWARCFromConnection
  <2>1. request' = request
    BY <1>3, CaptureFrame DEF network
  <2>2. ASSUME NEW c \in Captures, CaptureMoves(c) PROVE HopInv'
    <3>1. /\ capture[c].pc # "off"
          /\ \A d \in Captures \ {c} : capture'[d] = capture[d]
      BY <2>2 DEF CaptureMoves, Works, Ends, Sends
    <3>2. \A d \in Captures : capture[d].pc = "off" => capture'[d].pc = "off"
      BY <3>1
    <3>3. \A r \in Requests : /\ <<r, request[r].hop>> \in Captures
                              /\ <<r, "redirected">> \in Captures
      BY CaptureNames DEF TypeOK, RequestStates, Hops
    <3> QED
      BY <2>1, <3>2, <3>3 DEF HopInv
  <2>3. ASSUME NEW c \in Captures, CapturePanics(c) PROVE HopInv'
    BY <2>1, <2>3, <1>1 DEF CapturePanics
  <2> QED
    BY <1>3, <2>2, <2>3, CaptureStep
<1>4. CASE NewWARCWritingHTTPClient \/ getAvailableIPs \/ Resolver
           \/ (\E w \in Writers : recordWriter(w)) \/ Close \/ Terminated
  BY <1>1, <1>4, ConstructorFrame, WatcherFrame, ResolverFrame, WriterFrame, CloseFrame
     DEF network, Terminated, vars
<1> QED
  BY <1>1, <1>2, <1>3, <1>4, RequestStep DEF Next

LEMMA BatchStep == ASSUME Inv, Next PROVE BatchInv'
<1> USE DEF Inv
<1>1. CASE NewWARCWritingHTTPClient \/ getAvailableIPs \/ Close \/ Terminated
  <2>1. capture' = capture
    BY <1>1, ConstructorFrame, WatcherFrame, CloseFrame DEF Terminated, vars
  <2> QED
    BY <1>1, <2>1, BatchesStay DEF BatchInv, InFlight, Queued, Has
<1>2. CASE Program
  <2>1. /\ stored' = stored /\ records' = records /\ writer' = writer
    BY <1>2, ProgramFrame
  <2>2. CASE capture' = capture
    BY <2>1, <2>2 DEF BatchInv, InFlight, Queued, Has
  <2>3. ASSUME NEW q \in Requests, wrapConnection(q) PROVE BatchInv'
    <3> DEFINE c == <<q, request[q].hop>>
    <3>1. c \in Captures /\ \A d \in Captures \ {c} : capture'[d] = capture[d]
      BY <2>3, CaptureStarts
    <3>2. capture[c].pc = "off"
      BY <2>3 DEF wrapConnection, HopInv
    <3> HIDE DEF c
    <3>3. \A d \in Captures : capture'[d].pc \notin {"done", "end"} => ~InFlight(d)
      BY <3>1, <3>2 DEF BatchInv
    <3> QED
      BY <2>1, <3>3 DEF BatchInv, InFlight, Queued, Has
  <2> QED
    BY <1>2, <2>2, <2>3, RequestStep DEF RequestMoves
<1>3. CASE Resolver
  <2>1. UNCHANGED <<writer, capture, stored>>
    BY <1>3, ResolverFrame
  <2>2. CASE records' = records
    BY <2>1, <2>2 DEF BatchInv, InFlight, Queued, Has
  <2>3. ASSUME NEW b \in Batches \ Captures, Send(b) PROVE BatchInv'
    <3>1. records'.queue = <<b>>
      BY <2>3, SendFills
    <3>2. \A c \in Captures : ~Queued(c)'
      BY <3>1, OneQueued DEF Queued
    <3> QED
      BY <2>1, <3>2 DEF BatchInv, InFlight, Has
  <2> QED
    BY <1>3, <2>2, <2>3, ResolverFrame
<1>4. CASE writeWARCFromConnection
  <2>1. UNCHANGED <<writer, stored>>
    BY <1>4, CaptureFrame
  <2>2. ASSUME NEW c \in Captures, CaptureMoves(c), Works(c) \/ Ends(c) PROVE BatchInv'
    <3>1. records' = records
      BY <2>2 DEF Works, Ends
    <3>2. \A d \in Captures : capture'[d].pc \notin {"done", "end"}
                                => capture[d].pc \notin {"done", "end"}
      BY <2>2 DEF CaptureMoves, Works, Ends
    <3> QED
      BY <2>1, <3>1, <3>2 DEF BatchInv, InFlight, Queued, Has
  <2>3. ASSUME NEW c \in Captures, CaptureMoves(c), Sends(c) PROVE BatchInv'
    <3>1. records'.queue = <<c>> /\ records.queue = <<>>
      BY <2>3, SendFills, CaptureNames DEF Sends
    <3>2. \A d \in Captures \ {c} : ~Queued(d)' /\ capture'[d] = capture[d]
      BY <2>3, <3>1, OneQueued DEF Queued, CaptureMoves
    <3>3. capture'[c].pc = "done" /\ \A w \in Writers : ~Has(w, c)
      BY <2>3 DEF Sends, BatchInv, InFlight
    <3> QED
      BY <2>1, <3>2, <3>3 DEF BatchInv, InFlight, Has
  <2>4. ASSUME NEW c \in Captures, CapturePanics(c) PROVE BatchInv'
    BY <2>1, <2>4 DEF CapturePanics, BatchInv, InFlight, Queued, Has
  <2> QED
    BY <1>4, <2>2, <2>3, <2>4, CaptureStep DEF CaptureMoves
<1>5. ASSUME NEW w \in Writers, recordWriter(w) PROVE BatchInv'
  <2>1. capture' = capture
    BY <1>5, WriterFrame
  <2>2. CASE WriterPanics(w)
    BY <2>1, <2>2 DEF WriterPanics, BatchInv, InFlight, Queued, Has
  <2>3. CASE Serves(w) /\ \A v \in Writers \ {w} : writer'[v] = writer[v]
    <3>1. /\ records' = records /\ stored \subseteq stored'
          /\ \A v \in Writers : writer'[v].batch = writer[v].batch
      BY <2>3 DEF Serves
    <3>2. \A v \in Writers : writer'[v].pc \in {"write", "answer"} <=>
                             writer[v].pc \in {"write", "answer"}
      BY <2>3 DEF Serves
    <3>3. \A v \in Writers : writer'[v].pc = "answer" =>
             writer[v].pc = "answer" \/ writer[v].batch \in stored'
      BY <2>3 DEF Serves
    <3> QED
      BY <2>1, <3>1, <3>2, <3>3 DEF BatchInv, InFlight, Queued, Has
  <2>4. CASE Takes(w) /\ \A v \in Writers \ {w} : writer'[v] = writer[v]
    <3>1. PICK b \in Batches : records.queue = <<b>> /\ writer'[w].batch = b
      BY <2>4 DEF Takes
    <3>2. \A c \in Captures : /\ ~Queued(c)'
                              /\ Has(w, c)' => Queued(c)
                              /\ \A v \in Writers \ {w} : Has(v, c)' <=> Has(v, c)
      BY <2>4, <3>1 DEF Takes, Queued, Has
    <3>3. \A c \in Captures : /\ InFlight(c)' => InFlight(c)
                              /\ ~Queued(c)'
                              /\ \A u, v \in Writers : Has(u, c)' /\ Has(v, c)' => u = v
      BY <3>2 DEF BatchInv, InFlight
    <3>4. b # None /\ stored' = stored
      BY <2>4, CaptureNames DEF Takes
    <3>5. \A v \in Writers : /\ writer'[v].pc \in {"write", "answer"} <=> writer'[v].batch # None
                             /\ writer'[v].pc = "answer" => writer'[v].batch \in stored'
      BY <2>4, <3>1, <3>4 DEF Takes, BatchInv
    <3> QED
      BY <2>1, <3>3, <3>5 DEF BatchInv
  <2>5. CASE Replies(w) /\ \A v \in Writers \ {w} : writer'[v] = writer[v]
    <3>1. /\ records' = records /\ stored' = stored
          /\ writer'[w].pc = "ready" /\ writer'[w].batch = None
      BY <2>5 DEF Replies
    <3>2. \A c \in Captures, v \in Writers : Has(v, c)' => Has(v, c)
      BY <2>5, <3>1, CaptureNames DEF Has
    <3>3. \A c \in Captures : Queued(c)' <=> Queued(c)
      BY <3>1 DEF Queued
    <3>4. \A v \in Writers : /\ writer'[v].pc \in {"write", "answer"} <=> writer'[v].batch # None
                             /\ writer'[v].pc = "answer" => writer'[v].batch \in stored'
      BY <2>5, <3>1 DEF BatchInv
    <3> QED
      BY <2>1, <3>2, <3>3, <3>4 DEF BatchInv, InFlight
  <2> QED
    BY <1>5, <2>2, <2>3, <2>4, <2>5, WriterStep DEF WriterActs
<1> QED
  BY <1>1, <1>2, <1>3, <1>4, <1>5 DEF Next

\* A writer loses no batch before it is in a file, and makes none up.
LEMMA WriterKeeps ==
  ASSUME Inv, NEW w \in Writers, WriterActs(w), NEW c \in Captures
  PROVE  /\ InFlight(c)' => InFlight(c)
         /\ InFlight(c) => InFlight(c)' \/ c \in stored'
         /\ stored \subseteq stored'
<1>1. CASE Serves(w)
  BY <1>1 DEF WriterActs, Serves, InFlight, Queued, Has
<1>2. CASE Takes(w)
  <2>1. PICK b \in Batches : records.queue = <<b>> /\ writer'[w].batch = b
    BY <1>2 DEF Takes
  <2>2. ~Queued(c)' /\ stored' = stored
    BY <1>2 DEF Takes, Queued
  <2>3. Has(w, c)' <=> Queued(c)
    BY <2>1, OneQueued DEF Has, Queued
  <2>4. ~Has(w, c)
    <3>1. writer[w].batch = None
      BY <1>2 DEF Takes, Inv, BatchInv
    <3> QED
      BY <3>1, CaptureNames DEF Has
  <2>5. \A v \in Writers \ {w} : Has(v, c)' <=> Has(v, c)
    BY DEF WriterActs, Has
  <2> QED
    BY <2>2, <2>3, <2>4, <2>5 DEF InFlight
<1>3. CASE Replies(w)
  <2>1. ~Has(w, c)' /\ (Queued(c)' <=> Queued(c)) /\ stored' = stored
    BY <1>3, CaptureNames DEF Replies, Has, Queued
  <2>2. Has(w, c) => c \in stored
    BY <1>3 DEF Replies, Inv, BatchInv, Has
  <2>3. \A v \in Writers \ {w} : Has(v, c)' <=> Has(v, c)
    BY DEF WriterActs, Has
  <2> QED
    BY <2>1, <2>2, <2>3 DEF InFlight
<1> QED
  BY <1>1, <1>2, <1>3 DEF WriterActs

\* A send adds one batch to those in flight, and loses none.
LEMMA SendKeeps ==
  ASSUME Inv, NEW b \in Batches, Send(b), writer' = writer, NEW c \in Captures
  PROVE  /\ InFlight(c)' <=> InFlight(c) \/ b = c
<1>1. records.queue = <<>> /\ records'.queue = <<b>>
  BY SendFills DEF Inv
<1>2. ~Queued(c) /\ (Queued(c)' <=> b = c)
  BY <1>1, OneQueued DEF Queued
<1> QED
  BY <1>2 DEF InFlight, Has

LEMMA FeedbackStep == ASSUME Inv, Next PROVE FeedbackInv'
<1> USE DEF Inv
<1>1. CASE NewWARCWritingHTTPClient \/ getAvailableIPs \/ Close \/ Terminated
  <2>1. UNCHANGED <<capture, request>>
    BY <1>1, ConstructorFrame, WatcherFrame, CloseFrame DEF Terminated, vars, network
  <2> QED
    BY <1>1, <2>1, BatchesStay DEF FeedbackInv, InFlight, Queued, Has
<1>2. CASE Program
  <2>1. UNCHANGED <<feedback, stored, records, writer>>
    BY <1>2, ProgramFrame
  <2>2. \A c : InFlight(c)' <=> InFlight(c)
    BY <2>1 DEF InFlight, Queued, Has
  <2>3. \A r \in Requests : request'[r].hop = "first" => request[r].hop = "first"
    BY <1>2, RequestStep DEF RequestMoves
  <2>4. \A c \in Captures : capture[c].pc # "off" => capture'[c] = capture[c]
    <3>1. ASSUME NEW q \in Requests, wrapConnection(q), NEW c \in Captures,
                 capture[c].pc # "off"
          PROVE  capture'[c] = capture[c]
      <4>1. capture[<<q, request[q].hop>>].pc = "off"
        BY <3>1 DEF wrapConnection, HopInv
      <4>2. c # <<q, request[q].hop>>
        BY <3>1, <4>1
      <4> QED
        BY <3>1, <4>2, CaptureStarts
    <3> QED
      BY <1>2, <3>1, RequestStep DEF RequestMoves
  <2>5. \A r \in Requests : <<r, "first">> \in Captures
    BY CaptureNames DEF Hops
  <2> QED
    BY <2>1, <2>2, <2>3, <2>4, <2>5 DEF FeedbackInv
<1>3. CASE Resolver
  <2>1. UNCHANGED <<feedback, stored, writer, request, capture>>
    BY <1>3, ResolverFrame
  <2>2. CASE records' = records
    BY <2>1, <2>2 DEF FeedbackInv, InFlight, Queued, Has
  <2>3. ASSUME NEW b \in Batches \ Captures, Send(b) PROVE FeedbackInv'
    <3>1. \A c \in Captures : InFlight(c)' <=> InFlight(c)
      BY <2>1, <2>3, SendKeeps
    <3>2. \A r \in Requests : <<r, "first">> \in Captures
      BY CaptureNames DEF Hops
    <3> QED
      BY <2>1, <3>1, <3>2 DEF FeedbackInv
  <2> QED
    BY <1>3, <2>2, <2>3, ResolverFrame
<1>4. CASE writeWARCFromConnection
  <2>1. UNCHANGED <<stored, writer, request>>
    BY <1>4, CaptureFrame DEF network
  <2>2. ASSUME NEW c \in Captures, CaptureMoves(c) \/ CapturePanics(c),
               NEW q \in Requests, request[q].hop = "first"
        PROVE  /\ feedback'[q] # "open" => /\ capture'[<<q, "first">>].pc \in {"done", "end"}
                                           /\ ~InFlight(<<q, "first">>)'
               /\ feedback'[q] = "written" => <<q, "first">> \in stored'
    <3> DEFINE f == <<q, "first">>
    <3>1. f \in Captures /\ f[1] = q
      BY CaptureNames DEF Hops
    <3>2. /\ feedback[q] # "open" => capture[f].pc \in {"done", "end"} /\ ~InFlight(f)
          /\ feedback[q] = "written" => f \in stored
      BY <2>2 DEF FeedbackInv
    <3>3. capture[f].pc \notin {"done", "end"} => ~InFlight(f)
      BY <3>1 DEF BatchInv
    <3>4. c[1] = q /\ capture[c].pc # "off" => c = f
      BY <2>2, FirstHop
    <3> HIDE DEF f
    <3>5. CASE CapturePanics(c)
      BY <2>1, <3>2, <3>5 DEF CapturePanics, InFlight, Queued, Has, f
    <3>6. CASE CaptureMoves(c) /\ Works(c)
      <4>1. InFlight(f)' <=> InFlight(f)
        BY <2>1, <3>6 DEF Works, InFlight, Queued, Has
      <4>2. feedback' = feedback /\ capture[c].pc \notin {"done", "end"}
        BY <3>6 DEF Works
      <4> QED
        BY <2>1, <3>1, <3>2, <3>6, <4>1, <4>2 DEF CaptureMoves, f
    <3>7. CASE CaptureMoves(c) /\ Ends(c)
      <4>1. InFlight(f)' <=> InFlight(f)
        BY <2>1, <3>7 DEF Ends, InFlight, Queued, Has
      <4>2. capture[f].pc \in {"done", "end"} => capture'[f].pc \in {"done", "end"}
        BY <3>1, <3>7 DEF CaptureMoves, Ends
      <4>3. CASE feedback'[q] = feedback[q]
        BY <2>1, <3>2, <4>1, <4>2, <4>3 DEF f
      <4>4. CASE feedback'[q] # feedback[q]
        <5>1. c[1] = q /\ capture[c].pc = "return" /\ capture'[c].pc = "done"
          BY <3>7, <4>4 DEF Ends, TypeOK
        <5>2. c = f /\ feedback'[q] = "closed"
          BY <3>4, <3>7, <4>4, <5>1 DEF Ends, TypeOK
        <5> QED
          BY <3>3, <4>1, <5>1, <5>2 DEF f
      <4> QED
        BY <4>3, <4>4
    <3>8. CASE CaptureMoves(c) /\ Sends(c)
      <4>1. InFlight(f)' <=> InFlight(f) \/ c = f
        BY <2>1, <3>1, <3>8, SendKeeps, CaptureNames DEF Sends
      <4>2. feedback' = feedback /\ capture[c].pc = "offer"
        BY <3>8 DEF Sends
      <4> QED
        BY <2>1, <3>1, <3>2, <3>8, <4>1, <4>2 DEF CaptureMoves, f
    <3> QED
      BY <2>2, <3>5, <3>6, <3>7, <3>8 DEF CaptureMoves
  <2> QED
    BY <1>4, <2>1, <2>2, CaptureStep DEF FeedbackInv
<1>5. ASSUME NEW w \in Writers, recordWriter(w) PROVE FeedbackInv'
  <2>1. UNCHANGED <<capture, request>>
    BY <1>5, WriterFrame DEF network
  <2>2. CASE WriterPanics(w)
    BY <2>1, <2>2 DEF WriterPanics, FeedbackInv, InFlight, Queued, Has
  <2>3. ASSUME WriterActs(w), NEW q \in Requests, request[q].hop = "first"
        PROVE  /\ feedback'[q] # "open" => /\ capture[<<q, "first">>].pc \in {"done", "end"}
                                           /\ ~InFlight(<<q, "first">>)'
               /\ feedback'[q] = "written" => <<q, "first">> \in stored'
    <3> DEFINE f == <<q, "first">>
    <3>1. f \in Captures
      BY CaptureNames DEF Hops
    <3>2. (InFlight(f)' => InFlight(f)) /\ stored \subseteq stored'
      BY <2>3, <3>1, WriterKeeps
    <3>3. /\ feedback[q] # "open" => capture[f].pc \in {"done", "end"} /\ ~InFlight(f)
          /\ feedback[q] = "written" => f \in stored
      BY <2>3 DEF FeedbackInv
    <3> HIDE DEF f
    <3>4. CASE feedback'[q] = feedback[q]
      BY <3>2, <3>3, <3>4 DEF f
    <3>5. CASE feedback'[q] # feedback[q]
      <4>1. PICK b \in Captures : Replies(w) /\ b = writer[w].batch /\ b[1] = q
        BY <2>3, <3>5 DEF WriterActs, Serves, Takes, Replies, TypeOK
      <4>2. InFlight(b) /\ Has(w, b)
        BY <4>1 DEF InFlight, Has
      <4>3. capture[b].pc \in {"done", "end"}
        BY <4>1, <4>2 DEF BatchInv
      <4>4. b = f
        BY <2>3, <4>1, <4>3, FirstHop DEF f
      <4>5. b \in stored /\ stored' = stored
        BY <4>1 DEF BatchInv, Replies
      <4>6. ~InFlight(b)'
        <5>1. ~Queued(b) /\ \A v \in Writers \ {w} : ~Has(v, b)
          BY <4>1, <4>2 DEF BatchInv
        <5>2. ~Queued(b)'
          BY <4>1, <5>1 DEF Replies, Queued
        <5>3. \A v \in Writers \ {w} : writer'[v].batch # b
          BY <2>3, <5>1 DEF WriterActs, Has
        <5>4. writer'[w].batch # b
          BY <4>1, CaptureNames DEF Replies
        <5>5. \A x : (\A v \in Writers : writer'[v].batch # x) /\ ~Queued(x)' => ~InFlight(x)'
          BY DEF InFlight, Has
        <5> QED
          BY <5>2, <5>3, <5>4, <5>5
      <4> QED
        BY <4>3, <4>4, <4>5, <4>6 DEF f
    <3> QED
      BY <3>4, <3>5
  <2> QED
    BY <1>5, <2>1, <2>2, <2>3, WriterStep DEF FeedbackInv
<1> QED
  BY <1>1, <1>2, <1>3, <1>4, <1>5 DEF Next

\* What a revisit may refer to stays so.
LEMMA PublishedStays ==
  ASSUME Inv, Next, NEW c \in Captures, Published(c)
  PROVE  Published(c)'
<1> USE DEF Inv
<1>1. CASE NewWARCWritingHTTPClient \/ getAvailableIPs \/ Close \/ Terminated
  <2>1. capture' = capture
    BY <1>1, ConstructorFrame, WatcherFrame, CloseFrame DEF Terminated, vars
  <2>2. (InFlight(c)' <=> InFlight(c)) /\ stored' = stored
    BY <1>1, BatchesStay DEF InFlight, Queued, Has
  <2> QED
    BY <2>1, <2>2 DEF Published
<1>2. CASE Program
  <2>1. (InFlight(c)' <=> InFlight(c)) /\ stored' = stored
    BY <1>2, ProgramFrame DEF InFlight, Queued, Has
  <2>2. ASSUME NEW q \in Requests, wrapConnection(q) PROVE capture'[c] = capture[c]
    <3>1. capture[<<q, request[q].hop>>].pc = "off"
      BY <2>2 DEF wrapConnection, HopInv
    <3>2. c # <<q, request[q].hop>>
      BY <3>1 DEF Published
    <3> QED
      BY <2>2, <3>2, CaptureStarts
  <2>3. capture'[c] = capture[c]
    BY <1>2, <2>2, RequestStep DEF RequestMoves
  <2> QED
    BY <2>1, <2>3 DEF Published
<1>3. CASE Resolver
  <2>1. UNCHANGED <<capture, stored, writer>>
    BY <1>3, ResolverFrame
  <2>2. InFlight(c) => InFlight(c)'
    <3>1. CASE records' = records
      BY <2>1, <3>1 DEF InFlight, Queued, Has
    <3>2. ASSUME NEW b \in Batches, Send(b) PROVE InFlight(c) => InFlight(c)'
      BY <2>1, <3>2, SendKeeps
    <3> QED
      BY <1>3, <3>1, <3>2, ResolverFrame
  <2> QED
    BY <2>1, <2>2 DEF Published
<1>4. CASE writeWARCFromConnection
  <2>1. UNCHANGED <<writer, stored>>
    BY <1>4, CaptureFrame
  <2>2. ASSUME NEW d \in Captures, CapturePanics(d) PROVE Published(c)'
    BY <2>1, <2>2 DEF CapturePanics, Published, InFlight, Queued, Has
  <2>3. ASSUME NEW d \in Captures, CaptureMoves(d), Sends(d) PROVE Published(c)'
    <3>1. InFlight(c)' <=> InFlight(c) \/ d = c
      BY <2>1, <2>3, SendKeeps, CaptureNames DEF Sends
    <3> QED
      BY <2>1, <2>3, <3>1 DEF CaptureMoves, Sends, Published
  <2>4. ASSUME NEW d \in Captures, CaptureMoves(d), Works(d) \/ Ends(d) PROVE Published(c)'
    <3>1. InFlight(c)' <=> InFlight(c)
      BY <2>1, <2>4 DEF Works, Ends, InFlight, Queued, Has
    <3>2. CASE c # d
      BY <2>1, <2>4, <3>1, <3>2 DEF CaptureMoves, Published
    <3>3. CASE c = d
      BY <2>1, <2>4, <3>1, <3>3 DEF CaptureMoves, Works, Ends, Published
    <3> QED
      BY <3>2, <3>3
  <2> QED
    BY <1>4, <2>2, <2>3, <2>4, CaptureStep DEF CaptureMoves
<1>5. ASSUME NEW w \in Writers, recordWriter(w) PROVE Published(c)'
  <2>1. capture' = capture
    BY <1>5, WriterFrame
  <2>2. CASE WriterPanics(w)
    BY <2>1, <2>2 DEF WriterPanics, Published, InFlight, Queued, Has
  <2>3. CASE WriterActs(w)
    BY <2>1, <2>3, WriterKeeps DEF Published
  <2> QED
    BY <1>5, <2>2, <2>3, WriterStep
<1> QED
  BY <1>1, <1>2, <1>3, <1>4, <1>5 DEF Next

LEMMA TableStep == ASSUME Inv, Next PROVE TableInv'
<1> USE DEF Inv
<1>1. table \in Captures \union {None}
  BY DEF TypeOK
<1>2. \A c \in Captures : Published(c) => Published(c)'
  BY PublishedStays
<1>3. \A c \in Captures : capture[c].of \in Captures \union {None}
  BY DEF TypeOK, CaptureStates
<1>4. table # None => \E o \in Captures : o = table /\ Published(o)'
  BY <1>1, <1>2 DEF TableInv
<1>5. \A c \in Captures : /\ capture[c].kind = "revisit" => capture[c].of # None
                          /\ capture[c].of # None =>
                                \E o \in Captures : o = capture[c].of /\ Published(o)'
  BY <1>2, <1>3 DEF TableInv
<1>10. ASSUME table' # None => \E o \in Captures : o = table' /\ Published(o)',
              \A c \in Captures : /\ capture'[c].kind = "revisit" => capture'[c].of # None
                                  /\ capture'[c].of # None =>
                                        \E o \in Captures : o = capture'[c].of /\ Published(o)'
       PROVE  TableInv'
  BY <1>10 DEF TableInv, Published
<1>6. CASE UNCHANGED <<table, capture>>
  BY <1>4, <1>5, <1>6, <1>10
<1>7. CASE Program
  <2>1. table' = table
    BY <1>7, ProgramFrame
  <2>2. ASSUME NEW q \in Requests, wrapConnection(q) PROVE TableInv'
    <3> DEFINE c == <<q, request[q].hop>>
    <3>1. /\ capture'[c].kind = "response" /\ capture'[c].of = None
          /\ \A d \in Captures \ {c} : capture'[d] = capture[d]
      BY <2>2, CaptureStarts
    <3> HIDE DEF c
    <3> QED
      BY <1>4, <1>5, <1>10, <2>1, <3>1
  <2> QED
    BY <1>6, <1>7, <2>1, <2>2, RequestStep DEF RequestMoves
<1>8. CASE writeWARCFromConnection
  <2>1. ASSUME NEW c \in Captures, CapturePanics(c) PROVE TableInv'
    BY <1>6, <2>1 DEF CapturePanics
  <2>2. ASSUME NEW c \in Captures, CaptureMoves(c) PROVE TableInv'
    <3>1. table' = table \/ (table' = c /\ Published(c)')
      <4>1. CASE capture[c].pc = "response" /\ capture'[c].pc = "request"
        <5>1. ~capture[c].late
          BY <4>1 DEF GroupInv
        <5>2. capture'[c].late = capture[c].late /\ (table' = table \/ table' = c)
          BY <2>2, <4>1 DEF CaptureMoves, Works, Ends, Sends
        <5>3. Published(c)'
          BY <4>1, <5>1, <5>2 DEF Published
        <5> QED
          BY <5>2, <5>3
      <4>2. CASE ~(capture[c].pc = "response" /\ capture'[c].pc = "request")
        BY <2>2, <4>2 DEF CaptureMoves, Works, Ends, Sends
      <4> QED
        BY <4>1, <4>2
    <3>2. table' # None => \E o \in Captures : o = table' /\ Published(o)'
      BY <1>4, <3>1
    <3>3. ASSUME NEW d \in Captures
          PROVE  /\ capture'[d].kind = "revisit" => capture'[d].of # None
                 /\ capture'[d].of # None =>
                       \E o \in Captures : o = capture'[d].of /\ Published(o)'
      <4>1. \/ capture'[d].kind = capture[d].kind /\ capture'[d].of = capture[d].of
            \/ capture'[d].of = table /\ table # None
        BY <2>2 DEF CaptureMoves
      <4> QED
        BY <1>4, <1>5, <4>1
    <3> QED
      BY <1>10, <3>2, <3>3
  <2> QED
    BY <1>8, <2>1, <2>2, CaptureStep
<1>9. CASE \/ NewWARCWritingHTTPClient \/ getAvailableIPs \/ Resolver \/ Close \/ Terminated
           \/ \E w \in Writers : recordWriter(w)
  BY <1>6, <1>9, ConstructorFrame, WatcherFrame, ResolverFrame, WriterFrame, CloseFrame
     DEF Terminated, vars
<1> QED
  BY <1>7, <1>8, <1>9 DEF Next

LEMMA NoPanicStep == ASSUME Inv, Next PROVE NoPanic'
<1> USE DEF Inv
<1>1. CASE panic' = None
  BY <1>1 DEF NoPanic
<1>2. CASE Terminated
  BY <1>2 DEF Terminated, vars, NoPanic
<1>3. CASE panic' # None /\ ~Terminated
  <2>1. panic = None
    BY <1>3 DEF Next
  <2>2. CASE Resolver
    <3>1. UNCHANGED <<program, request>> /\ records.closed
      BY <1>3, <2>1, <2>2, ResolverFrame, SendFills
    <3>2. PICK b \in Batches \ Captures : panic' = [on |-> "WARCWriter", of |-> b]
      BY <1>3, <2>1, <2>2, ResolverFrame, SendFills
    <3>3. b[1] \in Requests /\ pc \in Closing
      BY <3>1 DEF Batches, PhaseInv, PastRecords, Closing
    <3>4. request[b[1]].pc # "dns" \/ request[b[1]].gone
      BY <3>3 DEF GoneInv, Returned
    <3>5. panic'.on = "WARCWriter" /\ panic'.of = b
      BY <3>2
    <3> QED
      BY <3>1, <3>4, <3>5 DEF NoPanic
  <2>3. CASE writeWARCFromConnection
    <3>1. PICK c \in Captures : CapturePanics(c)
      BY <1>3, <2>1, <2>3, CaptureStep, SendFills, CaptureNames
         DEF CaptureMoves, Works, Ends, Sends
    <3>2. request' = request /\ capture' = capture
      BY <2>3, <3>1, CaptureFrame DEF network, CapturePanics
    <3>3. c[1] \in Requests
      BY CaptureNames
    <3>4. CASE /\ capture[c].pc = "offer" /\ records.closed
      <4>1. pc \in PastGroup /\ InGroup(c)
        BY <3>4 DEF PhaseInv, PastRecords, PastGroup, InGroup
      <4>2. capture[c].late
        BY <4>1 DEF GroupInv
      <4> QED
        BY <3>4, <4>2 DEF GroupInv
    <3>5. CASE /\ capture[c].pc = "report" /\ errChan = "closed"
               /\ panic' = [on |-> "ErrChan", of |-> c]
      <4>1. pc \in PastGroup /\ InGroup(c)
        BY <3>5 DEF PhaseInv, PastWriters, PastGroup, InGroup
      <4>2. capture[c].late
        BY <4>1 DEF GroupInv
      <4>3. panic'.on = "ErrChan" /\ panic'.of = c
        BY <3>5
      <4> QED
        BY <3>2, <4>2, <4>3 DEF NoPanic
    <3>6. CASE /\ capture[c].pc = "return" /\ feedback[c[1]] # "open"
               /\ panic' = [on |-> "feedback", of |-> c]
      <4>1. ASSUME request[c[1]].hop = "first" PROVE FALSE
        <5>1. c = <<c[1], "first">>
          BY <3>6, <4>1, FirstHop
        <5>2. capture[<<c[1], "first">>].pc \in {"done", "end"}
          BY <3>3, <3>6, <4>1 DEF FeedbackInv
        <5> QED
          BY <3>6, <5>1, <5>2
      <4>2. request[c[1]].hop = "redirected"
        BY <3>3, <4>1 DEF TypeOK, RequestStates, Hops
      <4>3. panic'.on = "feedback" /\ panic'.of = c
        BY <3>6
      <4> QED
        BY <3>2, <4>2, <4>3 DEF NoPanic
    <3> QED
      BY <3>1, <3>4, <3>5, <3>6 DEF CapturePanics
  <2>4. ASSUME NEW w \in Writers, recordWriter(w) PROVE NoPanic'
    <3>1. WriterPanics(w)
      BY <1>3, <2>1, <2>4, WriterStep DEF WriterActs, Serves, Takes, Replies
    <3>2. request' = request
      BY <2>4, WriterFrame DEF network
    <3>3. PICK b \in Captures : /\ b = writer[w].batch /\ feedback[b[1]] # "open"
                                /\ panic' = [on |-> "feedback", of |-> b]
      BY <3>1 DEF WriterPanics
    <3>4. InFlight(b) /\ b[1] \in Requests
      BY <3>3, CaptureNames DEF InFlight, Has
    <3>5. ASSUME request[b[1]].hop = "first" PROVE FALSE
      <4>1. capture[b].pc \in {"done", "end"}
        BY <3>4 DEF BatchInv
      <4>2. b = <<b[1], "first">>
        BY <3>5, <4>1, FirstHop
      <4>3. ~InFlight(<<b[1], "first">>)
        BY <3>3, <3>4, <3>5 DEF FeedbackInv
      <4> QED
        BY <3>4, <4>2, <4>3
    <3>6. request[b[1]].hop = "redirected"
      BY <3>4, <3>5 DEF TypeOK, RequestStates, Hops
    <3>7. panic'.on = "feedback" /\ panic'.of = b
      BY <3>3
    <3> QED
      BY <3>2, <3>6, <3>7 DEF NoPanic
  <2>5. CASE NewWARCWritingHTTPClient \/ getAvailableIPs \/ Program \/ Close
    BY <1>3, <2>1, <2>5, ConstructorFrame, WatcherFrame, ProgramFrame, CloseFrame
  <2> QED
    BY <1>3, <2>2, <2>3, <2>4, <2>5 DEF Next
<1> QED
  BY <1>1, <1>2, <1>3

-----------------------------------------------------------------------------
(***************************************************************************)
(* Together.                                                               *)
(***************************************************************************)

LEMMA InvInit == ASSUME Init PROVE Inv
<1>1. TypeOK
  <2>1. <<>> \in Seq(Batches) /\ Len(<<>>) <= 1
    BY EmptySeq
  <2>2. NoCapture \in CaptureStates
    BY DEF NoCapture, CaptureStates
  <2>3. /\ [pc |-> "off", batch |-> None] \in WriterStates
        /\ [pc |-> "idle", hop |-> "first", gone |-> FALSE] \in RequestStates
        /\ [pc |-> "off", answer |-> "answer"] \in ResolverStates
    BY DEF WriterStates, RequestStates, Hops, ResolverStates, Answers
  <2> QED
    BY <2>1, <2>2, <2>3 DEF Init, TypeOK, Before
<1>3. \A c \in Captures : ~InFlight(c)
  <2>1. records.queue = <<>> /\ \A w \in Writers : writer[w].batch = None
    BY DEF Init
  <2>2. \A c : <<c>> # <<>>
    OBVIOUS
  <2> QED
    BY <2>1, <2>2, CaptureNames DEF InFlight, Queued, Has
<1>4. \A c \in Captures : capture[c] = NoCapture
  BY DEF Init
<1>5. GoneInv /\ PhaseInv /\ GroupInv
  BY <1>4 DEF Init, GoneInv, PhaseInv, GroupInv, Closing, PastRecords, PastWriters, PastGroup,
              NoCapture
<1>6. HopInv
  BY <1>4, CaptureNames DEF Init, HopInv, NoCapture, Hops
<1>7. BatchInv
  BY <1>3 DEF Init, BatchInv, InFlight
<1>8. FeedbackInv
  BY <1>3 DEF Init, FeedbackInv
<1>9. TableInv /\ NoPanic
  BY <1>4 DEF Init, TableInv, NoCapture, NoPanic
<1> QED
  BY <1>1, <1>5, <1>6, <1>7, <1>8, <1>9 DEF Inv

LEMMA InvStutter == ASSUME Inv, UNCHANGED vars PROVE Inv'
<1> USE DEF vars, program, network
<1>1. TypeOK' /\ GoneInv' /\ PhaseInv'
  BY DEF Inv, TypeOK, GoneInv, PhaseInv, Returned
<1>5. GroupInv' /\ HopInv' /\ NoPanic'
  BY DEF Inv, GroupInv, HopInv, NoPanic, InGroup
<1>2. \A c : InFlight(c)' <=> InFlight(c)
  BY DEF InFlight, Queued, Has
<1>3. BatchInv'
  BY <1>2 DEF Inv, BatchInv, Queued, Has
<1>4. FeedbackInv' /\ TableInv'
  BY <1>2 DEF Inv, FeedbackInv, TableInv, Published
<1> QED
  BY <1>1, <1>3, <1>4, <1>5 DEF Inv

\* The life of a client keeps the invariant: which goroutine still has which
\* batch, channel or record when Close is at each of its steps.
THEOREM ClientInvariant == Spec => []Inv
<1>1. Init => Inv
  BY InvInit
<1>2. Inv /\ [Next]_vars => Inv'
  <2>1. ASSUME Inv, Next PROVE Inv'
    BY <2>1, TypeStep, GoneStep, PhaseStep, GroupStep, HopStep, BatchStep, FeedbackStep,
       TableStep, NoPanicStep DEF Inv
  <2> QED
    BY <2>1, InvStutter
<1> QED
  BY <1>1, <1>2, PTL DEF Spec

\* client.go:83-99: no send on a closed channel and no second close, but for
\* the three cases that NoPanic names.
THEOREM NoPanicHolds == Spec => []NoPanic
<1>1. Inv => NoPanic
  BY DEF Inv
<1> QED
  BY <1>1, ClientInvariant, PTL

LEMMA ClosedIsEmpty ==
  ASSUME Inv, pc = "closed"
  PROVE  /\ records.queue = <<>> /\ \A w \in Writers : writer[w].pc = "exited"
         /\ \A c \in Captures : InGroup(c) => capture[c].late
         /\ \A c \in Captures : ~InFlight(c)
<1> USE DEF Inv
<1>1. \A w \in Writers : writer[w].pc = "exited"
  BY DEF PhaseInv, PastWriters
<1>2. PICK w \in Writers : TRUE
  BY ClientAssumption
<1>3. records.queue = <<>>
  BY <1>1, <1>2 DEF PhaseInv
<1>4. \A c \in Captures : InGroup(c) => capture[c].late
  BY DEF GroupInv, PastGroup
<1>5. \A v \in Writers : writer[v].batch = None
  BY <1>1 DEF BatchInv
<1>6. \A c : <<c>> # <<>>
  OBVIOUS
<1>7. \A c \in Captures : ~InFlight(c)
  BY <1>3, <1>5, <1>6, CaptureNames DEF InFlight, Queued, Has
<1> QED
  BY <1>1, <1>3, <1>4, <1>7

\* README.md:83: when Close has returned, what was handed to the writers is in
\* a file, the writers have finished theirs, and the watcher has ended.
THEOREM CloseMeansStoredHolds == Spec => []CloseMeansStored
<1>1. Inv => CloseMeansStored
  <2> SUFFICES ASSUME Inv, pc = "closed" PROVE CloseMeansStored
    BY DEF CloseMeansStored
  <2>1. watcher \in {"off", "ended"}
    BY DEF Inv, PhaseInv, TypeOK, SettingSpace
  <2>2. ASSUME NEW c \in Captures, capture[c].pc = "end", feedback[c[1]] = "written",
               request[c[1]].hop # "redirected"
        PROVE  c \in stored
    <3>1. request[c[1]].hop = "first" /\ c[1] \in Requests
      BY <2>2, CaptureNames DEF Inv, TypeOK, RequestStates, Hops
    <3>2. c = <<c[1], "first">>
      BY <2>2, <3>1, FirstHop
    <3> QED
      BY <2>2, <3>1, <3>2 DEF Inv, FeedbackInv
  <2> QED
    BY <2>1, <2>2, ClosedIsEmpty DEF CloseMeansStored
<1> QED
  BY <1>1, ClientInvariant, PTL

\* dialer.go:626-639: when Close has returned, the original of every revisit in
\* the files is in the files too, unless its capture was given up on the way.
THEOREM RevisitsReferHolds == Spec => []RevisitsRefer
<1>1. Inv => RevisitsRefer
  <2> SUFFICES ASSUME Inv, pc = "closed", NEW c \in Captures, capture[c].kind = "revisit",
                      ~capture[capture[c].of].lost
               PROVE  capture[c].of \in stored
    BY DEF RevisitsRefer
  <2> DEFINE o == capture[c].of
  <2>1. Published(o)
    BY DEF Inv, TableInv
  <2>2. o \in Captures /\ ~InGroup(o) /\ ~InFlight(o)
    BY <2>1, ClosedIsEmpty DEF Published
  <2> HIDE DEF o
  <2>3. o \in stored
    BY <2>1, <2>2 DEF Published, InGroup, o
  <2> QED
    BY <2>3 DEF o
<1> QED
  BY <1>1, ClientInvariant, PTL
=============================================================================
