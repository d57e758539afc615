--------------------------- MODULE CaptureProofs ---------------------------
(***************************************************************************)
(* Proofs about Capture, for requests of any number of chunks.             *)
(***************************************************************************)
EXTENDS CaptureInv, SequenceTheorems, TLAPS

USE DEF scenario, transport, channels, pcs, copied, result

Environment == StoreBatch \/ AnswerFeedback \/ Cancel \/ Terminated

\* The steps of the readers, apart from those that write a chunk to the record.
Stores       == ReqStore \/ RespStore
RequestRest  == ReqStart \/ ReqCopied \/ ReqSpoolFails \/ ReqParse \/ ReqSendURI
ResponseRest == \/ RespStart \/ RespCopied \/ RespSpoolFails \/ RespCtx \/ RespParse
                \/ RespGetURI \/ RespHook \/ RespDigest \/ RespDedupe

LEMMA Groups ==
    Next => \/ CustomConnection \/ Stores \/ RequestRest \/ ResponseRest
            \/ writeWARCFromConnection \/ Environment
  BY DEF Next, readRequest, readResponse, Stores, RequestRest, ResponseRest, Environment

-----------------------------------------------------------------------------
(***************************************************************************)
(* Sequences of at most two elements, and what the readers return.         *)
(***************************************************************************)

LEMMA SmallSequences ==
  ASSUME NEW a, NEW b
  PROVE  /\ Append(<<>>, a) = <<a>> /\ Append(<<a>>, b) = <<a, b>>
         /\ Head(<<a>>) = a /\ Tail(<<a>>) = <<>>
         /\ Head(<<a, b>>) = a /\ Tail(<<a, b>>) = <<b>>
         /\ <<>> \o <<a, b>> = <<a, b>>
         /\ Len(<<a>>) = 1 /\ Len(<<a, b>>) = 2
         /\ <<a, b>>[1] = a /\ <<a, b>>[2] = b
<1> DEFINE S == {a, b}
<1>1. <<a>> \in Seq(S) /\ <<a, b>> \in Seq(S)
  OBVIOUS
<1>2. Append(<<a>>, b) = <<a, b>>
  <2> DEFINE s == Append(<<a>>, b)
  <2>1. s \in Seq(S) /\ Len(s) = 2 /\ s[1] = a /\ s[2] = b
    BY <1>1, AppendProperties
  <2> HIDE DEF s
  <2>2. \A i \in 1..2 : s[i] = <<a, b>>[i]
    BY <2>1
  <2>3. Len(<<a, b>>) = 2
    OBVIOUS
  <2>4. s = <<a, b>>
    BY <1>1, <2>1, <2>2, <2>3, SeqEqual
  <2> QED
    BY <2>4 DEF s
<1>3. <<>> \o <<a, b>> = <<a, b>>
  BY <1>1, ConcatEmptySeq
<1> QED
  BY <1>2, <1>3

Chans     == {<<>>, <<"request">>, <<"response">>, <<"request", "response">>, <<"response", "request">>}
Feedbacks == {<<>>, <<"closed">>, <<"value", "closed">>}
Records   == {<<>>, <<"request">>, <<"response">>, <<"revisit">>, <<"response", "request">>,
              <<"revisit", "request">>, <<"request", "revisit">>}

LEMMA SmallTypes ==
    /\ \A s \in Chans : s \in Seq({"request", "response"}) /\ Len(s) <= 2
    /\ \A s \in Feedbacks : s \in Seq({"value", "closed"}) /\ Len(s) <= 2
    /\ \A s \in Records : s \in Seq({"request", "response", "revisit"}) /\ Len(s) <= 2
<1>1. ASSUME NEW S, NEW a \in S, NEW b \in S
      PROVE  /\ <<>> \in Seq(S) /\ <<a>> \in Seq(S) /\ <<a, b>> \in Seq(S)
             /\ Len(<<>>) <= 2 /\ Len(<<a>>) <= 2 /\ Len(<<a, b>>) <= 2
  OBVIOUS
<1>2. \A s \in Chans : s \in Seq({"request", "response"}) /\ Len(s) <= 2
  BY <1>1, Zenon DEF Chans
<1>3. \A s \in Feedbacks : s \in Seq({"value", "closed"}) /\ Len(s) <= 2
  BY <1>1, Zenon DEF Feedbacks
<1>4. \A s \in Records : s \in Seq({"request", "response", "revisit"}) /\ Len(s) <= 2
  BY <1>1, Zenon DEF Records
<1> QED
  BY <1>2, <1>3, <1>4

LEMMA ReqReturns ==
    /\ ReqReturn(TRUE) => /\ reqPC' = "done" /\ failed' = failed \union {"request"}
                          /\ uriReq' = [val |-> FALSE, closed |-> TRUE]
    /\ ReqReturn(FALSE) => /\ reqPC' = "done" /\ failed' = failed
                           /\ uriReq' = [val |-> TRUE, closed |-> TRUE]
  BY DEF ReqReturn

\* RequestRest, once it has its record: it goes on, fails, or sends the URI.
ReqMoves ==
    /\ UNCHANGED <<recordChan, open>>
    /\ \/ /\ reqPC = "copy" /\ held.req = 0 /\ pipe["req"] = "eof" /\ reqPC' = "parse"
          /\ UNCHANGED <<failed, uriReq>>
       \/ /\ reqPC = "parse" /\ content.req > 0 /\ request = "good" /\ reqPC' = "send"
          /\ UNCHANGED <<failed, uriReq>>
       \/ /\ reqPC \in {"copy", "parse", "send"} /\ reqPC' = "done"
          /\ failed' = failed \union {"request"}
          /\ uriReq' = [val |-> FALSE, closed |-> TRUE]
       \/ /\ reqPC = "send" /\ reqPC' = "done"
          /\ failed' = failed
          /\ uriReq' = [val |-> TRUE, closed |-> TRUE]
    /\ ioFailed' = ioFailed \/ ioFailed' = TRUE

LEMMA RequestSteps == RequestRest => ReqStart \/ ReqMoves
<1>1. CASE ReqCopied
  <2>1. reqPC = "copy" /\ held.req = 0 /\ UNCHANGED <<recordChan, open, ioFailed>>
    BY <1>1 DEF ReqCopied
  <2>2. \/ pipe["req"] = "eof" /\ reqPC' = "parse" /\ UNCHANGED <<failed, uriReq>>
        \/ ReqReturn(TRUE)
    BY <1>1, Zenon DEF ReqCopied
  <2> QED
    BY <2>1, <2>2, ReqReturns, Zenon DEF ReqMoves
<1>2. CASE ReqSpoolFails
  <2>1. reqPC \in {"copy", "parse"} /\ ioFailed' = TRUE /\ UNCHANGED <<recordChan, open>>
    BY <1>2 DEF ReqSpoolFails
  <2>2. ReqReturn(TRUE)
    BY <1>2, Zenon DEF ReqSpoolFails
  <2> QED
    BY <2>1, <2>2, ReqReturns, Zenon DEF ReqMoves
<1>3. CASE ReqParse
  <2>1. reqPC = "parse" /\ UNCHANGED <<recordChan, open, ioFailed>>
    BY <1>3 DEF ReqParse
  <2>2. \/ content.req > 0 /\ request = "good" /\ reqPC' = "send" /\ UNCHANGED <<failed, uriReq>>
        \/ ReqReturn(TRUE)
    BY <1>3, Zenon DEF ReqParse
  <2> QED
    BY <2>1, <2>2, ReqReturns, Zenon DEF ReqMoves
<1>4. CASE ReqSendURI
  <2>1. reqPC = "send" /\ UNCHANGED <<recordChan, open, ioFailed>>
    BY <1>4 DEF ReqSendURI
  <2>2. ReqReturn(TRUE) \/ ReqReturn(FALSE)
    BY <1>4, Zenon DEF ReqSendURI
  <2> QED
    BY <2>1, <2>2, ReqReturns, Zenon DEF ReqMoves
<1> QED
  BY <1>1, <1>2, <1>3, <1>4 DEF RequestRest

LEMMA ChanTypes ==
  ASSUME NEW c \in Chan
  PROVE  /\ \A v \in BOOLEAN : [c EXCEPT !.val = v] \in Chan /\ [c EXCEPT !.val = v].val = v
         /\ [c EXCEPT !.closed = TRUE] \in Chan /\ [c EXCEPT !.closed = TRUE].val = c.val
         /\ \A v, w \in BOOLEAN : [val |-> v, closed |-> w] \in Chan
  BY DEF Chan

-----------------------------------------------------------------------------
(***************************************************************************)
(* What each party leaves alone.                                           *)
(***************************************************************************)

LEMMA WireFrame ==
    CustomConnection =>
        UNCHANGED <<scenario, pcs, content, channels, recordType, open, failed, discarded,
                    result, cancelled, ioFailed>>
  BY DEF CustomConnection, WriteToPipe, WriteToConn, WriteFails, ReadFromConn, Tee,
         ServerCloses, ReadFails, ReadError, TransportCloses, CloseStep

\* A chunk is written only while its reader copies.
LEMMA StoreFrame ==
    Stores =>
        /\ UNCHANGED <<scenario, transport, pipe, pcs, channels, recordType, open, failed,
                       discarded, result, cancelled, ioFailed>>
        /\ \/ /\ reqPC = "copy" /\ held.req = 1
              /\ content' = [content EXCEPT !.req = @ + 1] /\ held' = [held EXCEPT !.req = 0]
           \/ /\ respPC = "copy" /\ held.resp = 1
              /\ content' = [content EXCEPT !.resp = @ + 1] /\ held' = [held EXCEPT !.resp = 0]
  BY DEF Stores, ReqStore, RespStore

LEMMA RequestFrame ==
    RequestRest =>
        UNCHANGED <<scenario, transport, pipe, respPC, coPC, copied, uriResp, recordType,
                    discarded, result, cancelled>>
  BY DEF RequestRest, ReqStart, ReqCopied, ReqSpoolFails, ReqParse, ReqSendURI

LEMMA ResponseFrame ==
    ResponseRest =>
        UNCHANGED <<scenario, transport, pipe, reqPC, coPC, copied, result, cancelled>>
  BY DEF ResponseRest, RespStart, RespCopied, RespSpoolFails, RespCtx, RespParse,
         RespGetURI, RespHook, RespDigest, RespDedupe

LEMMA CoordinatorFrame ==
    writeWARCFromConnection =>
        /\ UNCHANGED <<scenario, transport, pipe, reqPC, respPC, copied, failed, discarded,
                       cancelled, recordType, uriReq, stored>>
        /\ open' \subseteq open
  BY DEF writeWARCFromConnection, CoUnchanged, CoWait, CoReport, CoCleanup, CoCollect,
         CoGetURI, CoFinish, CoSend, CoReturn

LEMMA EnvironmentFrame ==
    Environment =>
        UNCHANGED <<scenario, transport, pipe, pcs, copied, channels, recordType, open,
                    failed, discarded, batch, batchSent, errors, ioFailed>>
  BY DEF Environment, StoreBatch, AnswerFeedback, Cancel, Terminated, vars

-----------------------------------------------------------------------------
(***************************************************************************)
(* The steps that change a sequence.                                       *)
(***************************************************************************)

LEMMA ReqStartRecord ==
    IInv /\ ReqStart =>
        \/ respPC = "start" /\ recordChan' = <<"request">>
        \/ respPC # "start" /\ recordChan' = <<"response", "request">>
<1> SUFFICES ASSUME IInv, ReqStart
             PROVE  \/ respPC = "start" /\ recordChan' = <<"request">>
                    \/ respPC # "start" /\ recordChan' = <<"response", "request">>
  OBVIOUS
<1>0. /\ Append(<<>>, "request") = <<"request">>
      /\ Append(<<"response">>, "request") = <<"response", "request">>
  BY SmallSequences
<1>1. recordChan' = Append(recordChan, "request")
  BY DEF ReqStart
<1>2. \/ respPC = "start" /\ recordChan = <<>>
      \/ respPC # "start" /\ recordChan = <<"response">>
  BY DEF IInv, RecordsInv, CoordinatorInv, ReqStart
<1> QED
  BY <1>0, <1>1, <1>2

LEMMA RespStartRecord ==
    IInv /\ RespStart =>
        \/ reqPC = "start" /\ recordChan' = <<"response">>
        \/ reqPC # "start" /\ recordChan' = <<"request", "response">>
<1> SUFFICES ASSUME IInv, RespStart
             PROVE  \/ reqPC = "start" /\ recordChan' = <<"response">>
                    \/ reqPC # "start" /\ recordChan' = <<"request", "response">>
  OBVIOUS
<1>0. /\ Append(<<>>, "response") = <<"response">>
      /\ Append(<<"request">>, "response") = <<"request", "response">>
  BY SmallSequences
<1>1. recordChan' = Append(recordChan, "response")
  BY DEF RespStart
<1>2. \/ reqPC = "start" /\ recordChan = <<>>
      \/ reqPC # "start" /\ recordChan = <<"request">>
  BY DEF IInv, RecordsInv, CoordinatorInv, RespStart
<1> QED
  BY <1>0, <1>1, <1>2

Collected ==
    \/ coPC' = "return" /\ cancelled /\ UNCHANGED <<batch, recordChan>>
    \/ coPC' = "collect" /\ batch' = <<"request">> /\ recordChan' = <<"response">>
    \/ coPC' = "collect" /\ batch' = <<recordType>> /\ recordChan' = <<"request">>
    \/ coPC' = "uri" /\ Pair' /\ recordChan' = <<>>

LEMMA CollectRecord == IInv /\ CoCollect => Collected
<1> SUFFICES ASSUME IInv, CoCollect, ~cancelled PROVE Collected
  BY DEF Collected, CoCollect
<1> DEFINE b == Append(batch, TypeOf(Head(recordChan)))
<1>1. /\ recordChan' = Tail(recordChan) /\ batch' = InOrder(b)
      /\ coPC' = IF Len(b) = 2 THEN "uri" ELSE "collect"
      /\ recordType' = recordType /\ recordType \in {"response", "revisit"}
  BY DEF CoCollect, CoUnchanged, IInv, TypeOK, ReaderTypes
<1> HIDE DEF b
<1>2. CASE batch = <<>> /\ recordChan = <<"request", "response">>
  <2>1. b = <<"request">> /\ recordChan' = <<"response">>
    BY <1>1, <1>2, SmallSequences DEF TypeOf, b
  <2>2. Len(b) # 2
    <3>1. Len(b) = 1
      BY <2>1, SmallSequences
    <3> QED
      BY <3>1
  <2>3. batch' = b /\ coPC' = "collect"
    BY <1>1, <2>2, Zenon DEF InOrder
  <2> QED
    BY <2>1, <2>3 DEF Collected
<1>3. CASE batch = <<>> /\ recordChan = <<"response", "request">>
  <2>1. b = <<recordType>> /\ recordChan' = <<"request">>
    BY <1>1, <1>3, SmallSequences DEF TypeOf, b
  <2>2. Len(b) # 2
    <3>1. Len(b) = 1
      BY <2>1, SmallSequences
    <3> QED
      BY <3>1
  <2>3. batch' = b /\ coPC' = "collect"
    BY <1>1, <2>2, Zenon DEF InOrder
  <2> QED
    BY <2>1, <2>3 DEF Collected
<1>4. CASE batch = <<"request">> /\ recordChan = <<"response">>
  <2>1. b = <<"request", recordType>> /\ recordChan' = <<>>
    BY <1>1, <1>4, SmallSequences DEF TypeOf, b
  <2>2. Len(b) = 2 /\ b[1] = "request" /\ b[2] = recordType
    BY <2>1
  <2>3. batch' = <<recordType, "request">> /\ coPC' = "uri"
    BY <1>1, <2>2 DEF InOrder
  <2> QED
    BY <1>1, <2>1, <2>3 DEF Collected, Pair
<1>5. CASE batch = <<recordType>> /\ recordChan = <<"request">>
  <2>1. b = <<recordType, "request">> /\ recordChan' = <<>>
    BY <1>1, <1>5, SmallSequences DEF TypeOf, b
  <2>2. Len(b) = 2 /\ b[1] = recordType /\ b[2] = "request"
    BY <2>1
  <2>3. coPC' = "uri" /\ batch' = IF recordType = "response" THEN b ELSE <<b[2], b[1]>>
    BY <1>1, <2>2 DEF InOrder
  <2> QED
    BY <1>1, <2>1, <2>2, <2>3 DEF Collected, Pair
<1> QED
  BY <1>2, <1>3, <1>4, <1>5 DEF IInv, RecordsInv, CoCollect

\* Both records are in the channel when the coordinator cleans up.
LEMMA CleanupClosesBoth == IInv /\ CoCleanup => open' = open \ {"request", "response"}
<1> SUFFICES ASSUME IInv, CoCleanup PROVE open' = open \ {"request", "response"}
  OBVIOUS
<1> DEFINE Closed == {recordChan[i] : i \in 1..Len(recordChan)}
<1>1. recordChan \in {<<"request", "response">>, <<"response", "request">>}
  BY DEF IInv, RecordsInv, CoordinatorInv, CoCleanup
<1>2. ASSUME NEW a, NEW b, recordChan = <<a, b>>
      PROVE  Closed = {a, b}
  <2>1. Len(recordChan) = 2 /\ recordChan[1] = a /\ recordChan[2] = b
    BY <1>2
  <2>2. 1..Len(recordChan) = {1, 2}
    BY <2>1
  <2>3. Closed = {recordChan[1], recordChan[2]}
    BY <2>2
  <2> QED
    BY <2>1, <2>3
<1>3. Closed = {"request", "response"}
  BY <1>1, <1>2
<1> QED
  BY <1>3 DEF CoCleanup

LEMMA ReturnFeedback ==
    IInv /\ CoReturn => feedback' = IF hasFeedback /\ ~batchSent THEN <<"closed">> ELSE feedback
<1> SUFFICES ASSUME IInv, CoReturn
             PROVE  feedback' = IF hasFeedback /\ ~batchSent THEN <<"closed">> ELSE feedback
  OBVIOUS
<1>1. hasFeedback /\ ~batchSent => feedback = <<>>
  BY DEF IInv, ReportInv, CoordinatorInv, CoReturn
<1> QED
  BY <1>1, SmallSequences DEF CoReturn, Unanswered

LEMMA AnswerIsFirst ==
    IInv /\ AnswerFeedback => feedback = <<>> /\ feedback' = <<"value", "closed">>
<1> SUFFICES ASSUME IInv, AnswerFeedback
             PROVE  feedback = <<>> /\ feedback' = <<"value", "closed">>
  OBVIOUS
<1>1. feedback = <<>>
  <2>1. feedback # <<"value", "closed">>
    <3> SUFFICES ASSUME feedback = <<"value", "closed">> PROVE FALSE
      OBVIOUS
    <3>1. 1 \in 1..Len(feedback) /\ feedback[1] = "value"
      BY SmallSequences
    <3> QED
      BY <3>1 DEF AnswerFeedback
  <2> QED
    BY <2>1 DEF IInv, ReportInv, CoordinatorInv, AnswerFeedback
<1> QED
  BY <1>1, SmallSequences DEF AnswerFeedback

-----------------------------------------------------------------------------
(***************************************************************************)
(* The invariant holds at the start, and every part through every step.    *)
(***************************************************************************)

LEMMA InvInit == Init => IInv
<1> SUFFICES ASSUME Init PROVE IInv
  OBVIOUS
<1>1. WireTypes
  <2>1. closing \in [Closers -> [at : 0..4, how : {"eof", "err"}]]
    BY DEF Init, Closers
  <2>2. content \in [req : 0..ReqLen, resp : 0..2] /\ sent \in 0..ReqLen
    BY CaptureAssumption DEF Init
  <2>3. held \in [req : 0..1, resp : 0..1]
    BY DEF Init
  <2> QED
    BY <2>1, <2>2, <2>3 DEF Init, WireTypes
<1>2. TypeOK
  <2>1. ReaderTypes
    BY DEF Init, ReaderTypes, Chan
  <2>2. ResultTypes
    <3>1. recordChan \in Chans /\ feedback \in Feedbacks /\ batch \in Records
      BY DEF Init, Chans, Feedbacks, Records
    <3>2. /\ recordChan \in Seq({"request", "response"}) /\ Len(recordChan) <= 2
          /\ batch \in Seq({"request", "response", "revisit"}) /\ Len(batch) <= 2
          /\ feedback \in Seq({"value", "closed"}) /\ Len(feedback) <= 2
      BY <3>1, SmallTypes
    <3>3. /\ coPC = "wait" /\ open = {} /\ errors = 0 /\ ~batchSent /\ ~stored
          /\ batchSent \in BOOLEAN /\ stored \in BOOLEAN
          /\ cancelled \in BOOLEAN /\ ioFailed \in BOOLEAN
      BY DEF Init
    <3> QED
      BY <3>2, <3>3 DEF ResultTypes
  <2> QED
    BY <1>1, <2>1, <2>2 DEF Init, TypeOK
<1>3. CopyInv /\ PipeInv
  BY CaptureAssumption DEF Init, CopyInv, PipeInv, Closers, ReqGood, RespGood
<1>4. RequestInv /\ ResponseInv /\ CoordinatorInv
  BY DEF Init, RequestInv, ResponseInv, CoordinatorInv, ReqGood, RespGood
<1>5. RecordsInv /\ ContentsInv /\ ReportInv
  BY DEF Init, RecordsInv, ContentsInv, ReportInv
<1> QED
  BY <1>2, <1>3, <1>4, <1>5 DEF IInv

LEMMA WireTypeStep == ASSUME IInv, Next PROVE WireTypes'
<1> USE DEF IInv, TypeOK, WireTypes, CopyInv, RespLen, Closers
<1>1. CASE CustomConnection
  <2>1. CASE WriteToPipe
    BY <1>1, <2>1, WireFrame, CaptureAssumption DEF WriteToPipe
  <2>2. CASE WriteToConn
    BY <1>1, <2>2, WireFrame, CaptureAssumption DEF WriteToConn
  <2>3. CASE WriteFails
    BY <1>1, <2>3, WireFrame DEF WriteFails
  <2>4. CASE ReadFromConn
    BY <1>1, <2>4, WireFrame DEF ReadFromConn
  <2>5. CASE Tee
    BY <1>1, <2>5, WireFrame DEF Tee
  <2>6. CASE ServerCloses
    BY <1>1, <2>6, WireFrame DEF ServerCloses, ReadError, CallClose
  <2>7. CASE ReadFails
    BY <1>1, <2>7, WireFrame DEF ReadFails, ReadError, CallClose
  <2>8. CASE TransportCloses
    BY <1>1, <2>8, WireFrame DEF TransportCloses, CallClose
  <2>9. ASSUME NEW who \in Closers, CloseStep(who) PROVE WireTypes'
    BY <1>1, <2>9, WireFrame DEF CloseStep
  <2> QED
    BY <1>1, <2>1, <2>2, <2>3, <2>4, <2>5, <2>6, <2>7, <2>8, <2>9 DEF CustomConnection
<1>2. CASE RequestRest
  BY <1>2, RequestFrame
<1>3. CASE ResponseRest
  BY <1>3, ResponseFrame
<1>4. CASE writeWARCFromConnection
  BY <1>4, CoordinatorFrame
<1>5. CASE Environment
  BY <1>5, EnvironmentFrame
<1>6. CASE Stores
  BY <1>6, StoreFrame
<1> QED
  BY <1>1, <1>2, <1>3, <1>4, <1>5, <1>6, Groups

LEMMA ReaderTypeStep == ASSUME IInv, Next PROVE ReaderTypes'
<1> USE DEF IInv, TypeOK, ReaderTypes, Chan
<1>1. CASE CustomConnection
  BY <1>1, WireFrame
<1>2. CASE RequestRest
  <2>1. CASE ReqStart
    BY <1>2, <2>1, RequestFrame DEF ReqStart
  <2>2. CASE ReqMoves
    <3>a. uriReq' \in {uriReq, [val |-> FALSE, closed |-> TRUE], [val |-> TRUE, closed |-> TRUE]}
      BY ONLY <2>2 DEF ReqMoves
    <3>b. uriReq \in Chan
      OBVIOUS
    <3>c. \A v, w \in BOOLEAN : [val |-> v, closed |-> w] \in [val : BOOLEAN, closed : BOOLEAN]
      OBVIOUS
    <3>1. uriReq' \in Chan
      BY ONLY <3>a, <3>b, <3>c DEF Chan
    <3> QED
      BY <1>2, <2>2, <3>1, RequestFrame DEF ReqMoves
  <2> QED
    BY <1>2, <2>1, <2>2, RequestSteps
<1>3. CASE ResponseRest
  <2>1. CASE RespStart
    BY <1>3, <2>1, ResponseFrame DEF RespStart
  <2>2. CASE RespCopied
    BY <1>3, <2>2, ResponseFrame DEF RespCopied, RespGoOn, RespReturn
  <2>3. CASE RespSpoolFails
    BY <1>3, <2>3, ResponseFrame DEF RespSpoolFails, RespReturn
  <2>4. CASE RespCtx
    BY <1>3, <2>4, ResponseFrame DEF RespCtx, RespGoOn, RespReturn
  <2>5. CASE RespParse
    BY <1>3, <2>5, ResponseFrame DEF RespParse, RespGoOn, RespReturn
  <2>6. CASE RespGetURI
    BY <1>3, <2>6, ResponseFrame DEF RespGetURI, RespReturn
  <2>7. CASE RespHook
    BY <1>3, <2>7, ResponseFrame DEF RespHook, RespGoOn, RespReturn
  <2>8. CASE RespDigest
    BY <1>3, <2>8, ResponseFrame DEF RespDigest, RespGoOn, RespReturn
  <2>9. CASE RespDedupe
    BY <1>3, <2>9, ResponseFrame DEF RespDedupe, RespReturn
  <2> QED
    BY <1>3, <2>1, <2>2, <2>3, <2>4, <2>5, <2>6, <2>7, <2>8, <2>9 DEF ResponseRest
<1>4. CASE writeWARCFromConnection
  <2>1. CASE CoWait
    BY <1>4, <2>1, CoordinatorFrame DEF CoWait, CoUnchanged
  <2>2. CASE CoReport
    BY <1>4, <2>2, CoordinatorFrame DEF CoReport, CoUnchanged
  <2>3. CASE CoCleanup
    BY <1>4, <2>3, CoordinatorFrame DEF CoCleanup, CoUnchanged
  <2>4. CASE CoCollect
    BY <1>4, <2>4, CoordinatorFrame DEF CoCollect, InOrder, TypeOf, CoUnchanged
  <2>5. CASE CoGetURI
    BY <1>4, <2>5, CoordinatorFrame DEF CoGetURI, CoUnchanged
  <2>6. ASSUME NEW i \in {1, 2}, CoFinish(i) PROVE ReaderTypes'
    BY <1>4, <2>6, CoordinatorFrame DEF CoFinish, CoUnchanged
  <2>7. CASE CoSend
    BY <1>4, <2>7, CoordinatorFrame DEF CoSend, CoUnchanged
  <2>8. CASE CoReturn
    BY <1>4, <2>8, CoordinatorFrame DEF CoReturn, Unanswered, CoUnchanged
  <2> QED
    BY <1>4, <2>1, <2>2, <2>3, <2>4, <2>5, <2>6, <2>7, <2>8 DEF writeWARCFromConnection
<1>5. CASE Environment
  BY <1>5, EnvironmentFrame
<1>6. CASE Stores
  BY <1>6, StoreFrame
<1> QED
  BY <1>1, <1>2, <1>3, <1>4, <1>5, <1>6, Groups

LEMMA ResultTypeStep == ASSUME IInv, Next PROVE ResultTypes'
<1> USE DEF IInv, TypeOK, ResultTypes, ReportInv
<1>1. CASE CustomConnection
  BY <1>1, WireFrame
<1>2. CASE RequestRest
  <2>1. CASE ReqStart
    <3>1. recordChan' \in Chans
      BY <2>1, ReqStartRecord DEF Chans
    <3>2. recordChan' \in Seq({"request", "response"}) /\ Len(recordChan') <= 2
      BY <3>1, SmallTypes
    <3> QED
      BY <1>2, <2>1, <3>2, RequestFrame DEF ReqStart
  <2>2. CASE ReqMoves
    BY <1>2, <2>2, RequestFrame DEF ReqMoves
  <2> QED
    BY <1>2, <2>1, <2>2, RequestSteps
<1>3. CASE ResponseRest
  <2>1. CASE RespStart
    <3>1. recordChan' \in Chans
      BY <2>1, RespStartRecord DEF Chans
    <3>2. recordChan' \in Seq({"request", "response"}) /\ Len(recordChan') <= 2
      BY <3>1, SmallTypes
    <3> QED
      BY <1>3, <2>1, <3>2, ResponseFrame DEF RespStart
  <2>2. CASE RespCopied
    BY <1>3, <2>2, ResponseFrame DEF RespCopied, RespGoOn, RespReturn
  <2>3. CASE RespSpoolFails
    BY <1>3, <2>3, ResponseFrame DEF RespSpoolFails, RespReturn
  <2>4. CASE RespCtx
    BY <1>3, <2>4, ResponseFrame DEF RespCtx, RespGoOn, RespReturn
  <2>5. CASE RespParse
    BY <1>3, <2>5, ResponseFrame DEF RespParse, RespGoOn, RespReturn
  <2>6. CASE RespGetURI
    BY <1>3, <2>6, ResponseFrame DEF RespGetURI, RespReturn
  <2>7. CASE RespHook
    BY <1>3, <2>7, ResponseFrame DEF RespHook, RespGoOn, RespReturn
  <2>8. CASE RespDigest
    BY <1>3, <2>8, ResponseFrame DEF RespDigest, RespGoOn, RespReturn
  <2>9. CASE RespDedupe
    BY <1>3, <2>9, ResponseFrame DEF RespDedupe, RespReturn
  <2> QED
    BY <1>3, <2>1, <2>2, <2>3, <2>4, <2>5, <2>6, <2>7, <2>8, <2>9 DEF ResponseRest
<1>4. CASE writeWARCFromConnection
  <2>1. CASE CoWait
    BY <1>4, <2>1, CoordinatorFrame DEF CoWait, CoUnchanged
  <2>2. CASE CoReport
    BY <1>4, <2>2, CoordinatorFrame DEF CoReport, CoUnchanged
  <2>3. CASE CoCleanup
    <3>1. recordChan' \in Seq({"request", "response"}) /\ Len(recordChan') <= 2
      BY <2>3 DEF CoCleanup
    <3> QED
      BY <1>4, <2>3, <3>1, CoordinatorFrame DEF CoCleanup, CoUnchanged
  <2>4. CASE CoCollect
    <3>1. Collected
      BY <2>4, CollectRecord
    <3>2. recordType' = recordType /\ recordType \in {"response", "revisit"}
      BY <1>4, CoordinatorFrame DEF ReaderTypes
    <3>3. (recordChan' \in Chans \/ recordChan' = recordChan) /\ (batch' \in Records \/ batch' = batch)
      BY <3>1, <3>2 DEF Collected, Pair, Chans, Records
    <3>4. /\ recordChan' \in Seq({"request", "response"}) /\ Len(recordChan') <= 2
          /\ batch' \in Seq({"request", "response", "revisit"}) /\ Len(batch') <= 2
      BY <3>3, SmallTypes
    <3>5. coPC' \in {"return", "collect", "uri"}
      BY <3>1 DEF Collected
    <3> QED
      BY <1>4, <2>4, <3>4, <3>5, CoordinatorFrame DEF CoCollect
  <2>5. CASE CoGetURI
    BY <1>4, <2>5, CoordinatorFrame DEF CoGetURI, CoUnchanged
  <2>6. ASSUME NEW i \in {1, 2}, CoFinish(i) PROVE ResultTypes'
    BY <1>4, <2>6, CoordinatorFrame DEF CoFinish, CoUnchanged
  <2>7. CASE CoSend
    BY <1>4, <2>7, CoordinatorFrame DEF CoSend, CoUnchanged
  <2>8. CASE CoReturn
    <3>1. feedback' \in {feedback, <<"closed">>}
      BY <2>8, ReturnFeedback
    <3>2. feedback' \in Seq({"value", "closed"}) /\ Len(feedback') <= 2
      BY <3>1, SmallTypes DEF Feedbacks
    <3> QED
      BY <1>4, <2>8, <3>2, CoordinatorFrame DEF CoReturn, CoUnchanged
  <2> QED
    BY <1>4, <2>1, <2>2, <2>3, <2>4, <2>5, <2>6, <2>7, <2>8 DEF writeWARCFromConnection
<1>5. CASE Environment
  <2>1. CASE StoreBatch
    BY <1>5, <2>1, EnvironmentFrame DEF StoreBatch
  <2>2. CASE AnswerFeedback
    <3>1. feedback' = <<"value", "closed">>
      BY <2>2, AnswerIsFirst
    <3>2. feedback' \in Seq({"value", "closed"}) /\ Len(feedback') <= 2
      BY <3>1, SmallTypes DEF Feedbacks
    <3> QED
      BY <1>5, <2>2, <3>2, EnvironmentFrame DEF AnswerFeedback
  <2>3. CASE Cancel
    BY <1>5, <2>3, EnvironmentFrame DEF Cancel
  <2>4. CASE Terminated
    BY <1>5, <2>4, EnvironmentFrame DEF Terminated, vars
  <2> QED
    BY <1>5, <2>1, <2>2, <2>3, <2>4 DEF Environment
<1>6. CASE Stores
  BY <1>6, StoreFrame
<1> QED
  BY <1>1, <1>2, <1>3, <1>4, <1>5, <1>6, Groups

LEMMA CopyStep == ASSUME IInv, Next PROVE CopyInv'
<1> USE DEF IInv, TypeOK, WireTypes, ReaderTypes, ResultTypes, CopyInv, RespLen, ReqGood, RespGood
<1>1. CASE CustomConnection
  <2>1. CASE WriteToPipe
    BY <1>1, <2>1, WireFrame, CaptureAssumption DEF WriteToPipe
  <2>2. CASE WriteToConn
    BY <1>1, <2>2, WireFrame, CaptureAssumption DEF WriteToConn
  <2>3. CASE WriteFails
    BY <1>1, <2>3, WireFrame DEF WriteFails
  <2>4. CASE ReadFromConn
    BY <1>1, <2>4, WireFrame DEF ReadFromConn
  <2>5. CASE Tee
    BY <1>1, <2>5, WireFrame DEF Tee
  <2>6. CASE ServerCloses
    BY <1>1, <2>6, WireFrame DEF ServerCloses, ReadError, CallClose
  <2>7. CASE ReadFails
    BY <1>1, <2>7, WireFrame DEF ReadFails, ReadError, CallClose
  <2>8. CASE TransportCloses
    BY <1>1, <2>8, WireFrame DEF TransportCloses, CallClose
  <2>9. ASSUME NEW who \in Closers, CloseStep(who) PROVE CopyInv'
    BY <1>1, <2>9, WireFrame DEF CloseStep
  <2> QED
    BY <1>1, <2>1, <2>2, <2>3, <2>4, <2>5, <2>6, <2>7, <2>8, <2>9 DEF CustomConnection
<1>2. CASE RequestRest
  <2>1. CASE ReqStart
    BY <1>2, <2>1, RequestFrame DEF ReqStart
  <2>2. CASE ReqMoves
    BY <1>2, <2>2, RequestFrame DEF ReqMoves
  <2> QED
    BY <1>2, <2>1, <2>2, RequestSteps
<1>3. CASE ResponseRest
  <2>1. CASE RespStart
    BY <1>3, <2>1, ResponseFrame DEF RespStart
  <2>2. CASE RespCopied
    BY <1>3, <2>2, ResponseFrame DEF RespCopied, RespGoOn, RespReturn
  <2>3. CASE RespSpoolFails
    BY <1>3, <2>3, ResponseFrame DEF RespSpoolFails, RespReturn
  <2>4. CASE RespCtx
    BY <1>3, <2>4, ResponseFrame DEF RespCtx, RespGoOn, RespReturn
  <2>5. CASE RespParse
    BY <1>3, <2>5, ResponseFrame DEF RespParse, RespGoOn, RespReturn
  <2>6. CASE RespGetURI
    BY <1>3, <2>6, ResponseFrame DEF RespGetURI, RespReturn
  <2>7. CASE RespHook
    BY <1>3, <2>7, ResponseFrame DEF RespHook, RespGoOn, RespReturn
  <2>8. CASE RespDigest
    BY <1>3, <2>8, ResponseFrame DEF RespDigest, RespGoOn, RespReturn
  <2>9. CASE RespDedupe
    BY <1>3, <2>9, ResponseFrame DEF RespDedupe, RespReturn
  <2> QED
    BY <1>3, <2>1, <2>2, <2>3, <2>4, <2>5, <2>6, <2>7, <2>8, <2>9 DEF ResponseRest
<1>4. CASE writeWARCFromConnection
  BY <1>4, CoordinatorFrame
<1>5. CASE Environment
  BY <1>5, EnvironmentFrame
<1>6. CASE Stores
  BY <1>6, StoreFrame
<1> QED
  BY <1>1, <1>2, <1>3, <1>4, <1>5, <1>6, Groups

LEMMA PipeStep == ASSUME IInv, Next PROVE PipeInv'
<1> USE DEF IInv, TypeOK, WireTypes, ReaderTypes, ResultTypes, PipeInv, Closers
<1>1. CASE CustomConnection
  <2>1. CASE WriteToPipe
    BY <1>1, <2>1, WireFrame DEF WriteToPipe
  <2>2. CASE WriteToConn
    BY <1>1, <2>2, WireFrame DEF WriteToConn
  <2>3. CASE WriteFails
    BY <1>1, <2>3, WireFrame DEF WriteFails
  <2>4. CASE ReadFromConn
    BY <1>1, <2>4, WireFrame DEF ReadFromConn
  <2>5. CASE Tee
    BY <1>1, <2>5, WireFrame DEF Tee
  <2>6. CASE ServerCloses
    BY <1>1, <2>6, WireFrame DEF ServerCloses, ReadError, CallClose
  <2>7. CASE ReadFails
    BY <1>1, <2>7, WireFrame DEF ReadFails, ReadError, CallClose
  <2>8. CASE TransportCloses
    BY <1>1, <2>8, WireFrame DEF TransportCloses, CallClose
  <2>9. ASSUME NEW who \in Closers, CloseStep(who) PROVE PipeInv'
    BY <1>1, <2>9, WireFrame DEF CloseStep
  <2> QED
    BY <1>1, <2>1, <2>2, <2>3, <2>4, <2>5, <2>6, <2>7, <2>8, <2>9 DEF CustomConnection
<1>2. CASE RequestRest
  BY <1>2, RequestFrame
<1>3. CASE ResponseRest
  BY <1>3, ResponseFrame
<1>4. CASE writeWARCFromConnection
  BY <1>4, CoordinatorFrame
<1>5. CASE Environment
  BY <1>5, EnvironmentFrame
<1>6. CASE Stores
  BY <1>6, StoreFrame
<1> QED
  BY <1>1, <1>2, <1>3, <1>4, <1>5, <1>6, Groups

LEMMA RequestStep == ASSUME IInv, Next PROVE RequestInv'
<1> USE DEF IInv, TypeOK, WireTypes, ReaderTypes, ResultTypes, RequestInv, ReqGood
<1>1. CASE CustomConnection
  <2>1. CASE WriteToPipe
    BY <1>1, <2>1, WireFrame DEF WriteToPipe
  <2>2. CASE WriteToConn
    BY <1>1, <2>2, WireFrame DEF WriteToConn
  <2>3. CASE WriteFails
    BY <1>1, <2>3, WireFrame DEF WriteFails
  <2>4. CASE ReadFromConn
    BY <1>1, <2>4, WireFrame DEF ReadFromConn
  <2>5. CASE Tee
    BY <1>1, <2>5, WireFrame DEF Tee
  <2>6. CASE ServerCloses
    BY <1>1, <2>6, WireFrame DEF ServerCloses, ReadError, CallClose
  <2>7. CASE ReadFails
    BY <1>1, <2>7, WireFrame DEF ReadFails, ReadError, CallClose
  <2>8. CASE TransportCloses
    BY <1>1, <2>8, WireFrame DEF TransportCloses, CallClose
  <2>9. ASSUME NEW who \in Closers, CloseStep(who) PROVE RequestInv'
    BY <1>1, <2>9, WireFrame DEF CloseStep
  <2> QED
    BY <1>1, <2>1, <2>2, <2>3, <2>4, <2>5, <2>6, <2>7, <2>8, <2>9 DEF CustomConnection
<1>2. CASE RequestRest
  <2>1. CASE ReqStart
    BY <1>2, <2>1, RequestFrame DEF ReqStart
  <2>2. CASE ReqMoves
    BY <1>2, <2>2, RequestFrame DEF ReqMoves
  <2> QED
    BY <1>2, <2>1, <2>2, RequestSteps
<1>3. CASE ResponseRest
  <2>1. CASE RespStart
    BY <1>3, <2>1, ResponseFrame DEF RespStart
  <2>2. CASE RespCopied
    BY <1>3, <2>2, ResponseFrame DEF RespCopied, RespGoOn, RespReturn
  <2>3. CASE RespSpoolFails
    BY <1>3, <2>3, ResponseFrame DEF RespSpoolFails, RespReturn
  <2>4. CASE RespCtx
    BY <1>3, <2>4, ResponseFrame DEF RespCtx, RespGoOn, RespReturn
  <2>5. CASE RespParse
    BY <1>3, <2>5, ResponseFrame DEF RespParse, RespGoOn, RespReturn
  <2>6. CASE RespGetURI
    BY <1>3, <2>6, ResponseFrame DEF RespGetURI, RespReturn
  <2>7. CASE RespHook
    BY <1>3, <2>7, ResponseFrame DEF RespHook, RespGoOn, RespReturn
  <2>8. CASE RespDigest
    BY <1>3, <2>8, ResponseFrame DEF RespDigest, RespGoOn, RespReturn
  <2>9. CASE RespDedupe
    BY <1>3, <2>9, ResponseFrame DEF RespDedupe, RespReturn
  <2> QED
    BY <1>3, <2>1, <2>2, <2>3, <2>4, <2>5, <2>6, <2>7, <2>8, <2>9 DEF ResponseRest
<1>4. CASE writeWARCFromConnection
  BY <1>4, CoordinatorFrame
<1>5. CASE Environment
  BY <1>5, EnvironmentFrame
<1>6. CASE Stores
  BY <1>6, StoreFrame
<1> QED
  BY <1>1, <1>2, <1>3, <1>4, <1>5, <1>6, Groups

LEMMA ResponseStep == ASSUME IInv, Next PROVE ResponseInv'
<1> USE DEF IInv, TypeOK, WireTypes, ReaderTypes, ResultTypes, RequestInv, ResponseInv, CoordinatorInv, ReqGood, RespGood, BodyIsWhole, Chan
<1>1. CASE CustomConnection
  <2>1. CASE WriteToPipe
    BY <1>1, <2>1, WireFrame DEF WriteToPipe
  <2>2. CASE WriteToConn
    BY <1>1, <2>2, WireFrame DEF WriteToConn
  <2>3. CASE WriteFails
    BY <1>1, <2>3, WireFrame DEF WriteFails
  <2>4. CASE ReadFromConn
    BY <1>1, <2>4, WireFrame DEF ReadFromConn
  <2>5. CASE Tee
    BY <1>1, <2>5, WireFrame DEF Tee
  <2>6. CASE ServerCloses
    BY <1>1, <2>6, WireFrame DEF ServerCloses, ReadError, CallClose
  <2>7. CASE ReadFails
    BY <1>1, <2>7, WireFrame DEF ReadFails, ReadError, CallClose
  <2>8. CASE TransportCloses
    BY <1>1, <2>8, WireFrame DEF TransportCloses, CallClose
  <2>9. ASSUME NEW who \in Closers, CloseStep(who) PROVE ResponseInv'
    BY <1>1, <2>9, WireFrame DEF CloseStep
  <2> QED
    BY <1>1, <2>1, <2>2, <2>3, <2>4, <2>5, <2>6, <2>7, <2>8, <2>9 DEF CustomConnection
<1>2. CASE RequestRest
  <2>1. CASE ReqStart
    BY <1>2, <2>1, RequestFrame DEF ReqStart
  <2>2. CASE ReqMoves
    BY <1>2, <2>2, RequestFrame DEF ReqMoves
  <2> QED
    BY <1>2, <2>1, <2>2, RequestSteps
<1>3. CASE ResponseRest
  <2>1. CASE RespStart
    BY <1>3, <2>1, ResponseFrame DEF RespStart
  <2>2. CASE RespCopied
    BY <1>3, <2>2, ResponseFrame DEF RespCopied, RespGoOn, RespReturn
  <2>3. CASE RespSpoolFails
    BY <1>3, <2>3, ResponseFrame DEF RespSpoolFails, RespReturn
  <2>4. CASE RespCtx
    BY <1>3, <2>4, ResponseFrame DEF RespCtx, RespGoOn, RespReturn
  <2>5. CASE RespParse
    BY <1>3, <2>5, ResponseFrame DEF RespParse, RespGoOn, RespReturn
  <2>6. CASE RespGetURI
    BY <1>3, <2>6, ResponseFrame DEF RespGetURI, RespReturn
  <2>7. CASE RespHook
    BY <1>3, <2>7, ResponseFrame DEF RespHook, RespGoOn, RespReturn
  <2>8. CASE RespDigest
    BY <1>3, <2>8, ResponseFrame DEF RespDigest, RespGoOn, RespReturn
  <2>9. CASE RespDedupe
    BY <1>3, <2>9, ResponseFrame DEF RespDedupe, RespReturn
  <2> QED
    BY <1>3, <2>1, <2>2, <2>3, <2>4, <2>5, <2>6, <2>7, <2>8, <2>9 DEF ResponseRest
<1>4. CASE writeWARCFromConnection
  <2>1. CASE CoWait
    BY <1>4, <2>1, CoordinatorFrame DEF CoWait, CoUnchanged
  <2>2. CASE CoReport
    BY <1>4, <2>2, CoordinatorFrame DEF CoReport, CoUnchanged
  <2>3. CASE CoCleanup
    BY <1>4, <2>3, CoordinatorFrame DEF CoCleanup, CoUnchanged
  <2>4. CASE CoCollect
    BY <1>4, <2>4, CoordinatorFrame DEF CoCollect, InOrder, TypeOf, CoUnchanged
  <2>5. CASE CoGetURI
    BY <1>4, <2>5, CoordinatorFrame DEF CoGetURI, CoUnchanged
  <2>6. ASSUME NEW i \in {1, 2}, CoFinish(i) PROVE ResponseInv'
    BY <1>4, <2>6, CoordinatorFrame DEF CoFinish, CoUnchanged
  <2>7. CASE CoSend
    BY <1>4, <2>7, CoordinatorFrame DEF CoSend, CoUnchanged
  <2>8. CASE CoReturn
    BY <1>4, <2>8, CoordinatorFrame DEF CoReturn, Unanswered, CoUnchanged
  <2> QED
    BY <1>4, <2>1, <2>2, <2>3, <2>4, <2>5, <2>6, <2>7, <2>8 DEF writeWARCFromConnection
<1>5. CASE Environment
  BY <1>5, EnvironmentFrame
<1>6. CASE Stores
  BY <1>6, StoreFrame
<1> QED
  BY <1>1, <1>2, <1>3, <1>4, <1>5, <1>6, Groups

LEMMA CoordinatorStep == ASSUME IInv, Next PROVE CoordinatorInv'
<1> USE DEF IInv, ResponseInv, CoordinatorInv, RecordsInv, ReqGood, RespGood
<1>1. CASE CustomConnection
  BY <1>1, WireFrame
<1>2. CASE RequestRest
  <2>1. CASE ReqStart
    BY <1>2, <2>1, RequestFrame DEF ReqStart
  <2>2. CASE ReqMoves
    BY <1>2, <2>2, RequestFrame DEF ReqMoves
  <2> QED
    BY <1>2, <2>1, <2>2, RequestSteps
<1>3. CASE ResponseRest
  <2>1. CASE RespStart
    BY <1>3, <2>1, ResponseFrame DEF RespStart
  <2>2. CASE RespCopied
    BY <1>3, <2>2, ResponseFrame DEF RespCopied, RespGoOn, RespReturn
  <2>3. CASE RespSpoolFails
    BY <1>3, <2>3, ResponseFrame DEF RespSpoolFails, RespReturn
  <2>4. CASE RespCtx
    BY <1>3, <2>4, ResponseFrame DEF RespCtx, RespGoOn, RespReturn
  <2>5. CASE RespParse
    BY <1>3, <2>5, ResponseFrame DEF RespParse, RespGoOn, RespReturn
  <2>6. CASE RespGetURI
    BY <1>3, <2>6, ResponseFrame DEF RespGetURI, RespReturn
  <2>7. CASE RespHook
    BY <1>3, <2>7, ResponseFrame DEF RespHook, RespGoOn, RespReturn
  <2>8. CASE RespDigest
    BY <1>3, <2>8, ResponseFrame DEF RespDigest, RespGoOn, RespReturn
  <2>9. CASE RespDedupe
    BY <1>3, <2>9, ResponseFrame DEF RespDedupe, RespReturn
  <2> QED
    BY <1>3, <2>1, <2>2, <2>3, <2>4, <2>5, <2>6, <2>7, <2>8, <2>9 DEF ResponseRest
<1>4. CASE writeWARCFromConnection
  <2>1. CASE CoWait
    BY <1>4, <2>1, CoordinatorFrame DEF CoWait, CoUnchanged
  <2>2. CASE CoReport
    BY <1>4, <2>2, CoordinatorFrame DEF CoReport, CoUnchanged
  <2>3. CASE CoCleanup
    BY <1>4, <2>3, CoordinatorFrame DEF CoCleanup, CoUnchanged
  <2>4. CASE CoCollect
    BY <1>4, <2>4, CoordinatorFrame DEF CoCollect, InOrder, TypeOf, CoUnchanged
  <2>5. CASE CoGetURI
    BY <1>4, <2>5, CoordinatorFrame DEF CoGetURI, CoUnchanged
  <2>6. ASSUME NEW i \in {1, 2}, CoFinish(i) PROVE CoordinatorInv'
    BY <1>4, <2>6, CoordinatorFrame DEF CoFinish, CoUnchanged
  <2>7. CASE CoSend
    BY <1>4, <2>7, CoordinatorFrame DEF CoSend, CoUnchanged
  <2>8. CASE CoReturn
    BY <1>4, <2>8, CoordinatorFrame DEF CoReturn, Unanswered, CoUnchanged
  <2> QED
    BY <1>4, <2>1, <2>2, <2>3, <2>4, <2>5, <2>6, <2>7, <2>8 DEF writeWARCFromConnection
<1>5. CASE Environment
  <2>1. CASE StoreBatch
    BY <1>5, <2>1, EnvironmentFrame DEF StoreBatch
  <2>2. CASE AnswerFeedback
    BY <1>5, <2>2, EnvironmentFrame DEF AnswerFeedback
  <2>3. CASE Cancel
    BY <1>5, <2>3, EnvironmentFrame DEF Cancel
  <2>4. CASE Terminated
    BY <1>5, <2>4, EnvironmentFrame DEF Terminated, vars
  <2> QED
    BY <1>5, <2>1, <2>2, <2>3, <2>4 DEF Environment
<1>6. CASE Stores
  BY <1>6, StoreFrame
<1> QED
  BY <1>1, <1>2, <1>3, <1>4, <1>5, <1>6, Groups

LEMMA RecordsStep == ASSUME IInv, Next PROVE RecordsInv'
<1> USE DEF IInv, CoordinatorInv, RecordsInv, Pair
<1>1. CASE CustomConnection
  BY <1>1, WireFrame
<1>2. CASE RequestRest
  <2>1. CASE ReqStart
    BY <1>2, <2>1, RequestFrame, ReqStartRecord DEF ReqStart
  <2>2. CASE ReqMoves
    BY <1>2, <2>2, RequestFrame DEF ReqMoves
  <2> QED
    BY <1>2, <2>1, <2>2, RequestSteps
<1>3. CASE ResponseRest
  <2>1. CASE RespStart
    BY <1>3, <2>1, ResponseFrame, RespStartRecord DEF RespStart
  <2>2. CASE RespCopied
    BY <1>3, <2>2, ResponseFrame DEF RespCopied, RespGoOn, RespReturn
  <2>3. CASE RespSpoolFails
    BY <1>3, <2>3, ResponseFrame DEF RespSpoolFails, RespReturn
  <2>4. CASE RespCtx
    BY <1>3, <2>4, ResponseFrame DEF RespCtx, RespGoOn, RespReturn
  <2>5. CASE RespParse
    BY <1>3, <2>5, ResponseFrame DEF RespParse, RespGoOn, RespReturn
  <2>6. CASE RespGetURI
    BY <1>3, <2>6, ResponseFrame DEF RespGetURI, RespReturn
  <2>7. CASE RespHook
    BY <1>3, <2>7, ResponseFrame DEF RespHook, RespGoOn, RespReturn
  <2>8. CASE RespDigest
    BY <1>3, <2>8, ResponseFrame DEF RespDigest, RespGoOn, RespReturn
  <2>9. CASE RespDedupe
    BY <1>3, <2>9, ResponseFrame DEF RespDedupe, RespReturn
  <2> QED
    BY <1>3, <2>1, <2>2, <2>3, <2>4, <2>5, <2>6, <2>7, <2>8, <2>9 DEF ResponseRest
<1>4. CASE writeWARCFromConnection
  <2>1. CASE CoWait
    BY <1>4, <2>1, CoordinatorFrame DEF CoWait, CoUnchanged
  <2>2. CASE CoReport
    BY <1>4, <2>2, CoordinatorFrame DEF CoReport, CoUnchanged
  <2>3. CASE CoCleanup
    BY <1>4, <2>3, CoordinatorFrame DEF CoCleanup, CoUnchanged
  <2>4. CASE CoCollect
    <3>1. Collected
      BY <2>4, CollectRecord
    <3> QED
      BY <1>4, <2>4, <3>1, CoordinatorFrame DEF Collected, CoCollect
  <2>5. CASE CoGetURI
    BY <1>4, <2>5, CoordinatorFrame DEF CoGetURI, CoUnchanged
  <2>6. ASSUME NEW i \in {1, 2}, CoFinish(i) PROVE RecordsInv'
    BY <1>4, <2>6, CoordinatorFrame DEF CoFinish, CoUnchanged
  <2>7. CASE CoSend
    BY <1>4, <2>7, CoordinatorFrame DEF CoSend, CoUnchanged
  <2>8. CASE CoReturn
    BY <1>4, <2>8, CoordinatorFrame DEF CoReturn, Unanswered, CoUnchanged
  <2> QED
    BY <1>4, <2>1, <2>2, <2>3, <2>4, <2>5, <2>6, <2>7, <2>8 DEF writeWARCFromConnection
<1>5. CASE Environment
  BY <1>5, EnvironmentFrame
<1>6. CASE Stores
  BY <1>6, StoreFrame
<1> QED
  BY <1>1, <1>2, <1>3, <1>4, <1>5, <1>6, Groups

LEMMA ContentsStep == ASSUME IInv, Next PROVE ContentsInv'
<1> USE DEF IInv, TypeOK, WireTypes, ReaderTypes, ResultTypes, RequestInv, ResponseInv, CoordinatorInv, RecordsInv, ContentsInv, ReqGood, RespGood
<1>1. CASE CustomConnection
  BY <1>1, WireFrame
<1>2. CASE RequestRest
  <2>1. CASE ReqStart
    BY <1>2, <2>1, RequestFrame DEF ReqStart
  <2>2. CASE ReqMoves
    BY <1>2, <2>2, RequestFrame DEF ReqMoves
  <2> QED
    BY <1>2, <2>1, <2>2, RequestSteps
<1>3. CASE ResponseRest
  <2>1. CASE RespStart
    BY <1>3, <2>1, ResponseFrame DEF RespStart
  <2>2. CASE RespCopied
    BY <1>3, <2>2, ResponseFrame DEF RespCopied, RespGoOn, RespReturn
  <2>3. CASE RespSpoolFails
    BY <1>3, <2>3, ResponseFrame DEF RespSpoolFails, RespReturn
  <2>4. CASE RespCtx
    BY <1>3, <2>4, ResponseFrame DEF RespCtx, RespGoOn, RespReturn
  <2>5. CASE RespParse
    BY <1>3, <2>5, ResponseFrame DEF RespParse, RespGoOn, RespReturn
  <2>6. CASE RespGetURI
    BY <1>3, <2>6, ResponseFrame DEF RespGetURI, RespReturn
  <2>7. CASE RespHook
    BY <1>3, <2>7, ResponseFrame DEF RespHook, RespGoOn, RespReturn
  <2>8. CASE RespDigest
    BY <1>3, <2>8, ResponseFrame DEF RespDigest, RespGoOn, RespReturn
  <2>9. CASE RespDedupe
    BY <1>3, <2>9, ResponseFrame DEF RespDedupe, RespReturn
  <2> QED
    BY <1>3, <2>1, <2>2, <2>3, <2>4, <2>5, <2>6, <2>7, <2>8, <2>9 DEF ResponseRest
<1>4. CASE writeWARCFromConnection
  <2>1. CASE CoWait
    BY <1>4, <2>1, CoordinatorFrame DEF CoWait, CoUnchanged
  <2>2. CASE CoReport
    BY <1>4, <2>2, CoordinatorFrame DEF CoReport, CoUnchanged
  <2>3. CASE CoCleanup
    <3>1. open' = open \ {"request", "response"}
      BY <2>3, CleanupClosesBoth
    <3>2. coPC = "cleanup" /\ coPC' = "return" /\ UNCHANGED <<respPC, failed, ioFailed, cancelled>>
      BY <2>3 DEF CoCleanup, CoUnchanged
    <3>3. "headers" \in open => ioFailed
      BY <3>2
    <3>4. ioFailed \/ open' = {}
      BY <3>1, <3>3
    <3> QED
      BY <3>1, <3>2, <3>4
  <2>4. CASE CoCollect
    BY <1>4, <2>4, CoordinatorFrame DEF CoCollect, InOrder, TypeOf, CoUnchanged
  <2>5. CASE CoGetURI
    BY <1>4, <2>5, CoordinatorFrame DEF CoGetURI, CoUnchanged
  <2>6. ASSUME NEW i \in {1, 2}, CoFinish(i) PROVE ContentsInv'
    BY <1>4, <2>6, CoordinatorFrame DEF CoFinish, CoUnchanged
  <2>7. CASE CoSend
    BY <1>4, <2>7, CoordinatorFrame DEF CoSend, CoUnchanged
  <2>8. CASE CoReturn
    BY <1>4, <2>8, CoordinatorFrame DEF CoReturn, Unanswered, CoUnchanged
  <2> QED
    BY <1>4, <2>1, <2>2, <2>3, <2>4, <2>5, <2>6, <2>7, <2>8 DEF writeWARCFromConnection
<1>5. CASE Environment
  <2>1. CASE StoreBatch
    BY <1>5, <2>1, EnvironmentFrame DEF StoreBatch
  <2>2. CASE AnswerFeedback
    BY <1>5, <2>2, EnvironmentFrame DEF AnswerFeedback
  <2>3. CASE Cancel
    BY <1>5, <2>3, EnvironmentFrame DEF Cancel
  <2>4. CASE Terminated
    BY <1>5, <2>4, EnvironmentFrame DEF Terminated, vars
  <2> QED
    BY <1>5, <2>1, <2>2, <2>3, <2>4 DEF Environment
<1>6. CASE Stores
  BY <1>6, StoreFrame
<1> QED
  BY <1>1, <1>2, <1>3, <1>4, <1>5, <1>6, Groups

LEMMA ReportStep == ASSUME IInv, Next PROVE ReportInv'
<1> USE DEF IInv, TypeOK, WireTypes, ReaderTypes, ResultTypes, CoordinatorInv, ReportInv
<1>1. CASE CustomConnection
  BY <1>1, WireFrame
<1>2. CASE RequestRest
  BY <1>2, RequestFrame
<1>3. CASE ResponseRest
  BY <1>3, ResponseFrame
<1>4. CASE writeWARCFromConnection
  <2>1. CASE CoWait
    BY <1>4, <2>1, CoordinatorFrame DEF CoWait, CoUnchanged
  <2>2. CASE CoReport
    BY <1>4, <2>2, CoordinatorFrame DEF CoReport, CoUnchanged
  <2>3. CASE CoCleanup
    BY <1>4, <2>3, CoordinatorFrame DEF CoCleanup, CoUnchanged
  <2>4. CASE CoCollect
    BY <1>4, <2>4, CoordinatorFrame DEF CoCollect, InOrder, TypeOf, CoUnchanged
  <2>5. CASE CoGetURI
    BY <1>4, <2>5, CoordinatorFrame DEF CoGetURI, CoUnchanged
  <2>6. ASSUME NEW i \in {1, 2}, CoFinish(i) PROVE ReportInv'
    BY <1>4, <2>6, CoordinatorFrame DEF CoFinish, CoUnchanged
  <2>7. CASE CoSend
    BY <1>4, <2>7, CoordinatorFrame DEF CoSend, CoUnchanged
  <2>8. CASE CoReturn
    BY <1>4, <2>8, CoordinatorFrame, ReturnFeedback DEF CoReturn, Unanswered, CoUnchanged
  <2> QED
    BY <1>4, <2>1, <2>2, <2>3, <2>4, <2>5, <2>6, <2>7, <2>8 DEF writeWARCFromConnection
<1>5. CASE Environment
  <2>1. CASE StoreBatch
    BY <1>5, <2>1, EnvironmentFrame DEF StoreBatch
  <2>2. CASE AnswerFeedback
    BY <1>5, <2>2, EnvironmentFrame, AnswerIsFirst DEF AnswerFeedback
  <2>3. CASE Cancel
    BY <1>5, <2>3, EnvironmentFrame DEF Cancel
  <2>4. CASE Terminated
    BY <1>5, <2>4, EnvironmentFrame DEF Terminated, vars
  <2> QED
    BY <1>5, <2>1, <2>2, <2>3, <2>4 DEF Environment
<1>6. CASE Stores
  BY <1>6, StoreFrame
<1> QED
  BY <1>1, <1>2, <1>3, <1>4, <1>5, <1>6, Groups

-----------------------------------------------------------------------------
(***************************************************************************)
(* The theorems.                                                           *)
(***************************************************************************)

LEMMA InvStep == ASSUME IInv, Next PROVE IInv'
<1>1. request' \in Requests /\ reply' \in Replies /\ hasFeedback' \in BOOLEAN
  <2>1. UNCHANGED scenario
    BY Groups, WireFrame, StoreFrame, RequestFrame, ResponseFrame, CoordinatorFrame, EnvironmentFrame
  <2> QED
    BY <2>1 DEF IInv, TypeOK
<1>2. TypeOK'
  BY <1>1, WireTypeStep, ReaderTypeStep, ResultTypeStep DEF TypeOK
<1> QED
  BY <1>2, CopyStep, PipeStep, RequestStep, ResponseStep, CoordinatorStep, RecordsStep,
     ContentsStep, ReportStep DEF IInv

LEMMA InvStutter == ASSUME IInv, UNCHANGED vars PROVE IInv'
<1> USE DEF vars, IInv
<1>1. TypeOK'
  BY DEF TypeOK, WireTypes, ReaderTypes, ResultTypes
<1>2. CopyInv' /\ PipeInv'
  BY DEF CopyInv, PipeInv, RespLen, ReqGood, RespGood
<1>3. RequestInv' /\ ResponseInv'
  BY DEF RequestInv, ResponseInv, ReqGood, RespGood, BodyIsWhole
<1>4. CoordinatorInv' /\ RecordsInv'
  BY DEF CoordinatorInv, RecordsInv, Pair
<1>5. ContentsInv' /\ ReportInv'
  BY DEF ContentsInv, ReportInv, RespGood
<1> QED
  BY <1>1, <1>2, <1>3, <1>4, <1>5

\* What holds at each place of the three goroutines holds for ever.
THEOREM CaptureInvariant == Spec => []IInv
<1>1. ASSUME IInv, [Next]_vars PROVE IInv'
  BY <1>1, InvStep, InvStutter
<1> QED
  BY <1>1, InvInit, PTL DEF Spec

\* Every variable of a capture keeps its type.
THEOREM CaptureTypeCorrect == Spec => []TypeOK
<1>1. IInv => TypeOK
  BY DEF IInv
<1> QED
  BY <1>1, CaptureInvariant, PTL

\* The panic of dialer.go:566 is never reached.
THEOREM CaptureNoPanic == Spec => []NoPanic
<1>1. IInv => NoPanic
  BY DEF IInv, CoordinatorInv, NoPanic
<1> QED
  BY <1>1, CaptureInvariant, PTL

\* What the WARC writers get is a pair, and the response comes first unless it
\* is a revisit.
THEOREM SentIsPairHolds == Spec => []SentIsPair
<1>1. IInv => SentIsPair
  BY DEF IInv, RecordsInv, Pair, SentIsPair
<1> QED
  BY <1>1, CaptureInvariant, PTL

\* What the WARC writers get was copied to a regular end of both pipes: a
\* request with at least its header, and a response that is whole by its framing.
THEOREM SentIsWholeHolds == Spec => []SentIsWhole
<1>1. IInv => SentIsWhole
  <2> SUFFICES ASSUME IInv, batchSent PROVE SentIsWhole
    BY DEF SentIsWhole
  <2>1. ReqGood /\ RespGood
    BY DEF IInv, CoordinatorInv, ReqGood, RespGood
  <2>2. request = "good" /\ content.req > 0 /\ pipe["req"] = "eof" /\ pipe["resp"] = "eof"
    BY <2>1 DEF IInv, RequestInv, ResponseInv
  <2>3. content.resp > 0 /\ reply # "garbage" /\ BodyIsWhole
    BY <2>1 DEF IInv, ResponseInv
  <2>4. reply \in {"length", "close"} /\ (reply = "length" => content.resp = 2)
    BY <2>3, CaptureAssumption DEF BodyIsWhole, IInv, TypeOK
  <2>5. pipe = [p \in {"req", "resp"} |-> "eof"]
    BY <2>2 DEF IInv, TypeOK, WireTypes
  <2>6. closing["reader"].how = "err" => closing["transport"].at > 0
    BY <2>2 DEF IInv, PipeInv
  <2> QED
    BY <2>2, <2>3, <2>4, <2>5, <2>6 DEF SentIsWhole
<1> QED
  BY <1>1, CaptureInvariant, PTL

\* A record lags at most the one chunk behind its connection that is between
\* the pipe and the content; it lacks nothing when its reader succeeded, whatever
\* write failed before.
THEOREM RecordedIsReceivedHolds == Spec => []RecordedIsReceived
<1>1. IInv => RecordedIsReceived
  BY CaptureAssumption DEF IInv, TypeOK, WireTypes, CopyInv, ReqGood, RespGood, RecordedIsReceived
<1> QED
  BY <1>1, CaptureInvariant, PTL

\* However a capture ends, its spooled contents are closed or handed over,
\* unless the context was cancelled or an operation on them failed.
THEOREM ContentsAreClosedHolds == Spec => []ContentsAreClosed
<1>1. IInv => ContentsAreClosed
  BY DEF IInv, ContentsInv, ContentsAreClosed
<1> QED
  BY <1>1, CaptureInvariant, PTL

\* An exchange that is dropped was reported, or its context was cancelled.
THEOREM DroppedIsReportedHolds == Spec => []DroppedIsReported
<1>1. IInv => DroppedIsReported
  BY DEF IInv, ReportInv, DroppedIsReported
<1> QED
  BY <1>1, CaptureInvariant, PTL

-----------------------------------------------------------------------------
(***************************************************************************)
(* Capture implements Exchange.                                            *)
(***************************************************************************)

Outcome == IF stored THEN "stored" ELSE IF batchSent THEN "offered"
           ELSE IF coPC = "end" THEN "dropped" ELSE "running"

ExStep == \/ Ex!Offer \/ Ex!Store \/ Ex!Signal \/ Ex!Drop
          \/ Outcome' = Outcome /\ UNCHANGED <<hasFeedback, feedback>>

\* The coordinator hands the batch over, or drops it and tells so.
LEMMA CoordinatorExStep == ASSUME IInv, writeWARCFromConnection PROVE ExStep
<1> USE DEF IInv, TypeOK, ResultTypes, CoordinatorInv, ReportInv
<1>1. hasFeedback' = hasFeedback /\ stored' = stored
  BY CoordinatorFrame
<1>2. CASE CoSend
  <2>1. /\ ~stored /\ ~batchSent /\ coPC = "send" /\ coPC' = "return" /\ feedback' = feedback
        /\ batchSent' = TRUE \/ batchSent' = batchSent
    BY <1>2 DEF CoSend
  <2> QED
    BY <1>1, <2>1 DEF ExStep, Outcome, Ex!Offer
<1>3. CASE CoReturn
  <2>1. /\ coPC = "return" /\ coPC' = "end" /\ batchSent' = batchSent
        /\ feedback' = IF hasFeedback /\ ~batchSent THEN <<"closed">> ELSE feedback
    BY <1>3, ReturnFeedback DEF CoReturn
  <2>2. ~batchSent => feedback = <<>> /\ ~stored
    BY <2>1
  <2> QED
    BY <1>1, <2>1, <2>2 DEF ExStep, Outcome, Ex!Drop
<1>4. CASE CoWait \/ CoReport \/ CoCleanup \/ CoCollect \/ CoGetURI \/ \E i \in {1, 2} : CoFinish(i)
  <2>1. coPC # "end" /\ coPC' # "end" /\ UNCHANGED <<batchSent, feedback>>
    BY <1>4 DEF CoWait, CoReport, CoCleanup, CoCollect, CoGetURI, CoFinish
  <2> QED
    BY <1>1, <2>1 DEF ExStep, Outcome
<1> QED
  BY <1>2, <1>3, <1>4 DEF writeWARCFromConnection

LEMMA NextIsExStep == ASSUME IInv, Next PROVE ExStep
<1>1. CASE CustomConnection \/ Stores \/ RequestRest \/ ResponseRest
  <2>1. UNCHANGED <<hasFeedback, feedback, stored, batchSent, coPC>>
    BY <1>1, WireFrame, StoreFrame, RequestFrame, ResponseFrame
  <2> QED
    BY <2>1 DEF ExStep, Outcome
<1>2. CASE writeWARCFromConnection
  BY <1>2, CoordinatorExStep
<1>3. CASE StoreBatch
  BY <1>3 DEF StoreBatch, ExStep, Outcome, Ex!Store
<1>4. CASE AnswerFeedback
  <2>1. stored /\ hasFeedback /\ feedback = <<>> /\ feedback' = <<"value", "closed">>
    BY <1>4, AnswerIsFirst DEF AnswerFeedback
  <2>2. UNCHANGED <<hasFeedback, stored, batchSent, coPC>>
    BY <1>4 DEF AnswerFeedback
  <2> QED
    BY <2>1, <2>2 DEF ExStep, Outcome, Ex!Signal
<1>5. CASE Cancel \/ Terminated
  BY <1>5 DEF Cancel, Terminated, vars, ExStep, Outcome
<1> QED
  BY <1>1, <1>2, <1>3, <1>4, <1>5, Groups DEF Environment

\* A capture keeps its promise: it ends stored or dropped, never both, and the
\* feedback channel is answered once and closed once.
THEOREM ImplementsExchangeHolds == Spec => ImplementsExchange
<1>1. Init => Ex!Init
  BY DEF Init, Ex!Init
<1>2. IInv /\ [Next]_vars => [Ex!Next]_Ex!vars
  <2> SUFFICES ASSUME IInv, [Next]_vars PROVE [Ex!Next]_Ex!vars
    OBVIOUS
  <2>1. CASE Next
    BY <2>1, NextIsExStep DEF ExStep, Outcome, Ex!Next, Ex!vars
  <2>2. CASE UNCHANGED vars
    BY <2>2 DEF vars, Ex!vars
  <2> QED
    BY <2>1, <2>2
<1> QED
  BY <1>1, <1>2, CaptureInvariant, PTL DEF Spec, ImplementsExchange, Ex!Spec
=============================================================================
