------------------------------ MODULE Capture ------------------------------
(***************************************************************************)
(* The capture of one connection (dialer.go): CustomConnection copies what *)
(* the HTTP transport writes and reads into two synchronous pipes;         *)
(* readRequest and readResponse copy the pipes into the records of a       *)
(* batch; writeWARCFromConnection waits for both, completes the batch and  *)
(* hands it to the WARC writers.                                           *)
(*                                                                         *)
(* A request is ReqLen chunks and a response a header chunk and a body     *)
(* chunk: enough to stop before, inside and after each.  The HTTP          *)
(* transport (net/http), the server and the WARC writers are external and  *)
(* modelled by what they may do to this code.                              *)
(*                                                                         *)
(* A definition D_Xyz, with the name of another one in front, is a mistake *)
(* that D could have been written with; it is part of no specification.    *)
(***************************************************************************)
EXTENDS Naturals, Sequences

CONSTANTS
    ReqLen,     \* chunks of a request, its header is in the first
    Requests,   \* the kinds of requests and replies there may be
    Replies

\* "bad": there is no Host or no target in the request.
\* "length": the length of the body is announced; "close": the body ends
\* with the connection; "head": a length is announced and no body follows
\* (the answer to HEAD); "garbage": not an HTTP response.
ASSUME CaptureAssumption ==
    /\ ReqLen \in Nat \ {0}
    /\ Requests \subseteq {"good", "bad"}
    /\ Replies \subseteq {"length", "close", "head", "garbage"}

VARIABLES
    request,            \* what the program sends
    reply,              \* how the server answers
    \* the connection and its two users in the transport
    wpc, sent,          \* the write loop, and the chunks put on the wire
    rpc, recvd,         \* the read loop, and the chunks it was given
    connClosed,
    closing,            \* the calls of CloseWithError in progress
    pipe,               \* each pipe: "open", or closed with "eof" or "err"
    \* the goroutines of dialer.go
    reqPC, respPC, coPC,
    content,            \* chunks copied into each record
    held,               \* chunks io.Copy took from each pipe and has not written
                        \* to the record; one whose write failed stays here
    recordChan,         \* the records in the order they were created
    uriReq, uriResp,    \* targetURIReqCh and targetURIRespCh
    recordType,         \* WARC-Type of the response record
    open,               \* the spooled contents that are not closed
    failed,             \* the readers that returned an error
    discarded,          \* the DiscardHook refused the response
    batch,              \* batch.Records, by WARC-Type
    batchSent, stored,
    feedback,           \* what happened on the feedback channel, in order
    hasFeedback,
    errors,             \* errors received from ErrChan
    cancelled,          \* ctx.Done() is closed
    ioFailed            \* some operation on a spooled content failed

transport == <<wpc, sent, rpc, recvd, connClosed, closing>>
channels  == <<recordChan, uriReq, uriResp>>
pcs       == <<reqPC, respPC, coPC>>
copied    == <<content, held>>
result    == <<batch, batchSent, stored, feedback, errors>>
scenario  == <<request, reply, hasFeedback>>
vars == <<scenario, transport, pipe, pcs, copied, channels, recordType, open,
          failed, discarded, result, cancelled, ioFailed>>

RespLen == IF reply = "head" THEN 1 ELSE 2

Chan    == [val : BOOLEAN, closed : BOOLEAN]
Closers == {"transport", "reader"}

\* What the transport does.
WireTypes ==
    /\ wpc \in {"write", "conn", "done"} /\ sent \in 0..ReqLen
    /\ rpc \in {"net", "tee", "done"} /\ recvd \in 0..2
    /\ connClosed \in BOOLEAN
    /\ closing \in [Closers -> [at : 0..4, how : {"eof", "err"}]]
    /\ pipe \in [{"req", "resp"} -> {"open", "eof", "err"}]
    /\ content \in [req : 0..ReqLen, resp : 0..2]
    /\ held \in [req : 0..1, resp : 0..1]

\* What readRequest and readResponse do.
ReaderTypes ==
    /\ reqPC \in {"start", "copy", "parse", "send", "done"}
    /\ respPC \in {"start", "copy", "ctx", "parse", "uri", "hook", "digest", "dedupe", "done"}
    /\ uriReq \in Chan /\ uriResp \in Chan
    /\ recordType \in {"response", "revisit"}
    /\ failed \subseteq {"request", "response"}
    /\ discarded \in BOOLEAN

\* What the coordinator and those behind it do.
ResultTypes ==
    /\ coPC \in {"wait", "report", "cleanup", "collect", "uri", "finish1", "finish2",
                 "send", "reportio", "return", "panic", "end"}
    /\ open \subseteq {"request", "response", "headers"}
    /\ recordChan \in Seq({"request", "response"}) /\ Len(recordChan) <= 2
    /\ batch \in Seq({"request", "response", "revisit"}) /\ Len(batch) <= 2
    /\ feedback \in Seq({"value", "closed"}) /\ Len(feedback) <= 2
    /\ errors \in 0..2
    /\ batchSent \in BOOLEAN /\ stored \in BOOLEAN
    /\ cancelled \in BOOLEAN /\ ioFailed \in BOOLEAN

TypeOK ==
    /\ request \in Requests /\ reply \in Replies /\ hasFeedback \in BOOLEAN
    /\ WireTypes /\ ReaderTypes /\ ResultTypes

\* wrapConnection: the connection is dialled, both pipes are open and the
\* capture goroutine is started.
Init ==
    /\ request \in Requests /\ reply \in Replies /\ hasFeedback \in BOOLEAN
    /\ wpc = "write" /\ sent = 0 /\ rpc = "net" /\ recvd = 0
    /\ connClosed = FALSE
    /\ closing = [c \in Closers |-> [at |-> 0, how |-> "eof"]]
    /\ pipe = [p \in {"req", "resp"} |-> "open"]
    /\ reqPC = "start" /\ respPC = "start" /\ coPC = "wait"
    /\ content = [req |-> 0, resp |-> 0]
    /\ held = [req |-> 0, resp |-> 0]
    /\ recordChan = <<>>
    /\ uriReq = [val |-> FALSE, closed |-> FALSE]
    /\ uriResp = [val |-> FALSE, closed |-> FALSE]
    /\ recordType = "response"
    /\ open = {} /\ failed = {} /\ discarded = FALSE /\ batch = <<>>
    /\ batchSent = FALSE /\ stored = FALSE
    /\ feedback = <<>> /\ errors = 0
    /\ cancelled = FALSE /\ ioFailed = FALSE
-----------------------------------------------------------------------------
(***************************************************************************)
(* CustomConnection.                                                       *)
(***************************************************************************)

\* MultiWriter writes to the pipe first; a write to a pipe lasts until the
\* reader has taken all of it, not until it has done something with it.
WriteToPipe ==
    /\ wpc = "write" /\ pipe["req"] = "open" /\ reqPC = "copy" /\ held.req = 0
    /\ held' = [held EXCEPT !.req = 1]
    /\ wpc' = "conn"
    /\ UNCHANGED <<scenario, sent, rpc, recvd, connClosed, closing, pipe, pcs, content, channels,
                   recordType, open, failed, discarded, result, cancelled, ioFailed>>

WriteToConn ==
    /\ wpc = "conn" /\ ~connClosed
    /\ sent' = sent + 1
    /\ wpc' = IF sent' = ReqLen THEN "done" ELSE "write"
    /\ UNCHANGED <<scenario, rpc, recvd, connClosed, closing, pipe, pcs, copied, channels,
                   recordType, open, failed, discarded, result, cancelled, ioFailed>>

WriteFails ==
    /\ (wpc = "write" /\ pipe["req"] # "open") \/ (wpc = "conn" /\ connClosed)
    /\ wpc' = "done"
    /\ UNCHANGED <<scenario, sent, rpc, recvd, connClosed, closing, pipe, pcs, copied,
                   channels, recordType, open, failed, discarded, result, cancelled, ioFailed>>

\* The server may answer as soon as it has seen a part of the request.
ReadFromConn ==
    /\ rpc = "net" /\ ~connClosed /\ sent > 0 /\ recvd < RespLen
    /\ rpc' = "tee"
    /\ UNCHANGED <<scenario, wpc, sent, recvd, connClosed, closing, pipe, pcs, copied,
                   channels, recordType, open, failed, discarded, result, cancelled, ioFailed>>

\* TeeReader: the transport gets the data after the pipe has taken it.
Tee ==
    /\ rpc = "tee" /\ pipe["resp"] = "open" /\ respPC = "copy" /\ held.resp = 0
    /\ held' = [held EXCEPT !.resp = 1]
    /\ recvd' = recvd + 1
    /\ rpc' = "net"
    /\ UNCHANGED <<scenario, wpc, sent, connClosed, closing, pipe, pcs, content, channels,
                   recordType, open, failed, discarded, result, cancelled, ioFailed>>

CallClose(who, how) ==
    closing' = [closing EXCEPT ![who] = IF @.at = 0 THEN [at |-> 1, how |-> how] ELSE @]

\* CustomConnection.Read got an error: end of stream, a broken or closed
\* connection, a deadline, or a closed pipe.
ReadError(how) ==
    /\ rpc' = "done"
    /\ CallClose("reader", how)
    /\ UNCHANGED <<scenario, wpc, sent, recvd, connClosed, pipe, pcs, copied, channels,
                   recordType, open, failed, discarded, result, cancelled, ioFailed>>

ServerCloses  == rpc = "net" /\ ReadError("eof")
ReadFails     == /\ rpc = "net" \/ (rpc = "tee" /\ pipe["resp"] # "open")
                 /\ ReadError("err")

\* http.Transport closes the connection: after the exchange, because the
\* caller closed the body early or cancelled, or after a timeout.
TransportCloses ==
    /\ closing["transport"].at = 0
    /\ CallClose("transport", "eof")
    /\ UNCHANGED <<scenario, wpc, sent, rpc, recvd, connClosed, pipe, pcs, copied,
                   channels, recordType, open, failed, discarded, result, cancelled, ioFailed>>

\* CloseWithError closes the request pipe, the response pipe and the
\* connection; a pipe keeps the error it was closed with first.
CloseStep(who) ==
    LET c == closing[who]
        p == IF c.at = 1 THEN "req" ELSE "resp"
    IN
    /\ c.at \in 1..3
    /\ closing' = [closing EXCEPT ![who].at = @ + 1]
    /\ IF c.at = 3 THEN pipe' = pipe
       ELSE pipe' = [pipe EXCEPT ![p] = IF @ = "open" THEN c.how ELSE @]
    /\ connClosed' = (connClosed \/ c.at = 3)
    /\ UNCHANGED <<scenario, wpc, sent, rpc, recvd, pcs, copied, channels,
                   recordType, open, failed, discarded, result, cancelled, ioFailed>>
-----------------------------------------------------------------------------
(***************************************************************************)
(* readRequest.  Whatever way it returns, targetURIReqCh is closed.        *)
(***************************************************************************)
ReqReturn_LeavesOpen(err) ==
    /\ reqPC' = "done"
    /\ failed' = IF err THEN failed \union {"request"} ELSE failed
    /\ uriReq' = [val |-> ~err, closed |-> ~err]

ReqReturn(err) ==
    /\ reqPC' = "done"
    /\ failed' = IF err THEN failed \union {"request"} ELSE failed
    /\ uriReq' = [val |-> ~err, closed |-> TRUE]

ReqStart ==
    /\ reqPC = "start" /\ reqPC' = "copy"
    /\ recordChan' = Append(recordChan, "request")
    /\ open' = open \union {"request"}
    /\ UNCHANGED <<scenario, transport, pipe, respPC, coPC, copied, uriReq, uriResp,
                   recordType, failed, discarded, result, cancelled, ioFailed>>

\* io.Copy writes the chunk to the spooled content.
ReqStore ==
    /\ reqPC = "copy" /\ held.req = 1
    /\ content' = [content EXCEPT !.req = @ + 1]
    /\ held' = [held EXCEPT !.req = 0]
    /\ UNCHANGED <<scenario, transport, pipe, pcs, channels, recordType, open, failed,
                   discarded, result, cancelled, ioFailed>>

ReqCopied ==
    /\ reqPC = "copy" /\ held.req = 0 /\ pipe["req"] # "open"
    /\ IF pipe["req"] = "eof" THEN reqPC' = "parse" /\ UNCHANGED <<failed, uriReq>>
                              ELSE ReqReturn(TRUE)
    /\ UNCHANGED <<scenario, transport, pipe, respPC, coPC, copied, recordChan, uriResp,
                   recordType, open, discarded, result, cancelled, ioFailed>>

\* Writing the content fails, and nobody reads the pipe any more; or reading
\* it back fails.
ReqSpoolFails ==
    /\ (reqPC = "copy" /\ held.req = 1) \/ reqPC = "parse"
    /\ ReqReturn(TRUE)
    /\ ioFailed' = TRUE
    /\ UNCHANGED <<scenario, transport, pipe, respPC, coPC, copied, recordChan, uriResp,
                   recordType, open, discarded, result, cancelled>>

\* parseRequestTargetURI needs the request line and the Host header.
ReqParse ==
    /\ reqPC = "parse"
    /\ IF content.req > 0 /\ request = "good"
       THEN reqPC' = "send" /\ UNCHANGED <<failed, uriReq>>
       ELSE ReqReturn(TRUE)
    /\ UNCHANGED <<scenario, transport, pipe, respPC, coPC, copied, recordChan, uriResp,
                   recordType, open, discarded, result, cancelled, ioFailed>>

\* The select takes either case when both are possible.
ReqSendURI ==
    /\ reqPC = "send"
    /\ ReqReturn(FALSE) \/ (cancelled /\ ReqReturn(TRUE))
    /\ UNCHANGED <<scenario, transport, pipe, respPC, coPC, copied, recordChan, uriResp,
                   recordType, open, discarded, result, cancelled, ioFailed>>

readRequest == ReqStart \/ ReqStore \/ ReqCopied \/ ReqSpoolFails \/ ReqParse \/ ReqSendURI
-----------------------------------------------------------------------------
(***************************************************************************)
(* readResponse.                                                           *)
(***************************************************************************)
RespReturn(err) ==
    /\ respPC' = "done"
    /\ failed' = IF err THEN failed \union {"response"} ELSE failed
    /\ uriResp' = [uriResp EXCEPT !.closed = TRUE]

RespGoOn(ok, next) ==
    IF ok THEN respPC' = next /\ UNCHANGED <<failed, uriResp>> ELSE RespReturn(TRUE)

RespStart ==
    /\ respPC = "start" /\ respPC' = "copy"
    /\ recordChan' = Append(recordChan, "response")
    /\ open' = open \union {"response"}
    /\ UNCHANGED <<scenario, transport, pipe, reqPC, coPC, copied, uriReq, uriResp,
                   recordType, failed, discarded, result, cancelled, ioFailed>>

RespStore ==
    /\ respPC = "copy" /\ held.resp = 1
    /\ content' = [content EXCEPT !.resp = @ + 1]
    /\ held' = [held EXCEPT !.resp = 0]
    /\ UNCHANGED <<scenario, transport, pipe, pcs, channels, recordType, open, failed,
                   discarded, result, cancelled, ioFailed>>

RespCopied ==
    /\ respPC = "copy" /\ held.resp = 0 /\ pipe["resp"] # "open"
    /\ RespGoOn(pipe["resp"] = "eof", "ctx")
    /\ UNCHANGED <<scenario, transport, pipe, reqPC, coPC, copied, recordChan, uriReq,
                   recordType, open, discarded, result, cancelled, ioFailed>>

\* The error of a write is not returned.
RespSpoolFails_Ignored ==
    /\ respPC = "copy" /\ held.resp = 1
    /\ held' = [held EXCEPT !.resp = 0] /\ ioFailed' = TRUE
    /\ UNCHANGED <<scenario, transport, pipe, pcs, content, channels, recordType, open,
                   failed, discarded, result, cancelled>>

RespSpoolFails ==
    /\ (respPC = "copy" /\ held.resp = 1) \/ respPC \in {"parse", "digest"}
    /\ RespReturn(TRUE)
    /\ ioFailed' = TRUE
    /\ UNCHANGED <<scenario, transport, pipe, reqPC, coPC, copied, recordChan, uriReq,
                   recordType, open, discarded, result, cancelled>>

RespCtx ==
    /\ respPC = "ctx"
    /\ RespGoOn(~cancelled, "parse")
    /\ UNCHANGED <<scenario, transport, pipe, reqPC, coPC, copied, recordChan, uriReq,
                   recordType, open, discarded, result, cancelled, ioFailed>>

\* http.ReadResponse needs a complete header.
RespParse ==
    /\ respPC = "parse"
    /\ RespGoOn(content.resp > 0 /\ reply # "garbage", "uri")
    /\ UNCHANGED <<scenario, transport, pipe, reqPC, coPC, copied, recordChan, uriReq,
                   recordType, open, discarded, result, cancelled, ioFailed>>

\* This receive does not look at the context: it waits for readRequest.
RespGetURI ==
    /\ respPC = "uri"
    /\ uriReq.val \/ uriReq.closed
    /\ IF uriReq.val
       THEN /\ respPC' = "hook"
            /\ uriReq' = [uriReq EXCEPT !.val = FALSE]
            /\ uriResp' = [uriResp EXCEPT !.val = TRUE]
            /\ UNCHANGED failed
       ELSE RespReturn(TRUE) /\ UNCHANGED uriReq
    /\ UNCHANGED <<scenario, transport, pipe, reqPC, coPC, copied, recordChan,
                   recordType, open, discarded, result, cancelled, ioFailed>>

\* The program's DiscardHook may refuse the response.
RespHook ==
    /\ respPC = "hook"
    /\ discarded' \in BOOLEAN
    /\ RespGoOn(~discarded', "digest")
    /\ UNCHANGED <<scenario, transport, pipe, reqPC, coPC, copied, recordChan, uriReq,
                   recordType, open, result, cancelled, ioFailed>>

BodyIsWhole_Unchecked == TRUE

\* GetDigest reads the body as http.ReadResponse, which takes every response
\* for the answer to a GET, understands it: a body that is shorter than its
\* announced length is an error, one that ends with the connection is not.
BodyIsWhole == CASE reply = "length" -> content.resp = 2
                 [] reply = "head"   -> FALSE
                 [] OTHER            -> TRUE

RespDigest ==
    /\ respPC = "digest"
    /\ RespGoOn(BodyIsWhole, "dedupe")
    /\ UNCHANGED <<scenario, transport, pipe, reqPC, coPC, copied, recordChan, uriReq,
                   recordType, open, discarded, result, cancelled, ioFailed>>

\* Without a match the record stays as it is.  With one it becomes a revisit
\* and its content is replaced by a new one that holds the header only; when
\* that fails the new content, if it was made, is forgotten.
RespDedupe ==
    /\ respPC = "dedupe"
    /\ \/ RespReturn(FALSE) /\ UNCHANGED <<recordType, open, ioFailed>>
       \/ /\ recordType' = "revisit"
          /\ open' = (open \union {"headers"}) \ {"response"}
          /\ RespReturn(FALSE) /\ UNCHANGED ioFailed
       \/ /\ recordType' = "revisit"
          /\ open' \in {open, open \union {"headers"}}
          /\ RespReturn(TRUE) /\ ioFailed' = TRUE
    /\ UNCHANGED <<scenario, transport, pipe, reqPC, coPC, copied, recordChan, uriReq,
                   discarded, result, cancelled>>

readResponse == \/ RespStart \/ RespStore \/ RespCopied \/ RespSpoolFails \/ RespCtx \/ RespParse
                \/ RespGetURI \/ RespHook \/ RespDigest \/ RespDedupe
-----------------------------------------------------------------------------
(***************************************************************************)
(* writeWARCFromConnection.                                                *)
(***************************************************************************)
CoUnchanged == UNCHANGED <<scenario, transport, pipe, reqPC, respPC, copied,
                           failed, discarded, cancelled, recordType>>

CoWait_DropsError ==
    /\ coPC = "wait" /\ reqPC = "done" /\ respPC = "done"
    /\ coPC' = "collect"
    /\ CoUnchanged /\ UNCHANGED <<channels, open, result, ioFailed>>

CoWait_Silent ==
    /\ coPC = "wait" /\ reqPC = "done" /\ respPC = "done"
    /\ coPC' = IF failed = {} THEN "collect" ELSE "cleanup"
    /\ CoUnchanged /\ UNCHANGED <<channels, open, result, ioFailed>>

\* errs.Wait.
CoWait ==
    /\ coPC = "wait" /\ reqPC = "done" /\ respPC = "done"
    /\ coPC' = IF failed = {} THEN "collect" ELSE "report"
    /\ CoUnchanged /\ UNCHANGED <<channels, open, result, ioFailed>>

\* ErrChan is unbuffered: the program must receive from it.
CoReport ==
    /\ coPC \in {"report", "reportio"}
    /\ errors' = errors + 1
    /\ coPC' = IF coPC = "report" THEN "cleanup" ELSE "return"
    /\ CoUnchanged
    /\ UNCHANGED <<channels, open, batch, batchSent, stored, feedback, ioFailed>>

\* Only the first of the two is taken from the channel.
CoCleanup_First ==
    /\ coPC = "cleanup"
    /\ open' = open \ {recordChan[1]}
    /\ recordChan' = <<>>
    /\ coPC' = "return"
    /\ CoUnchanged /\ UNCHANGED <<uriReq, uriResp, result, ioFailed>>

\* A response whose content was replaced gets here only if the replacement was
\* given up, and then it has its own.  An error of Close is one more report.
CoCleanup ==
    /\ coPC = "cleanup"
    /\ open' = open \ {recordChan[i] : i \in 1..Len(recordChan)}
    /\ recordChan' = <<>>
    /\ coPC' = "return"
    /\ CoUnchanged /\ UNCHANGED <<uriReq, uriResp, result, ioFailed>>

TypeOf(r) == IF r = "response" THEN recordType ELSE r

InOrder_AsTheyCame(b) == b

\* A pair that does not begin with a record of type "response" is reversed.
InOrder(b) == IF Len(b) = 2 /\ b[1] # "response" THEN <<b[2], b[1]>> ELSE b

\* One record a step.
CoCollect ==
    LET b == Append(batch, TypeOf(Head(recordChan))) IN
    /\ coPC = "collect"
    /\ IF cancelled
       THEN coPC' = "return" /\ UNCHANGED <<batch, recordChan>>
       ELSE /\ recordChan' = Tail(recordChan)
            /\ batch' = InOrder(b)
            /\ coPC' = IF Len(b) = 2 THEN "uri" ELSE "collect"
    /\ CoUnchanged
    /\ UNCHANGED <<uriReq, uriResp, open, batchSent, stored, feedback, errors, ioFailed>>

CoGetURI ==
    /\ coPC = "uri"
    /\ \/ /\ uriResp.val
          /\ uriResp' = [uriResp EXCEPT !.val = FALSE] /\ coPC' = "finish1"
       \/ /\ ~uriResp.val /\ uriResp.closed
          /\ coPC' = "panic" /\ UNCHANGED uriResp
       \/ cancelled /\ coPC' = "return" /\ UNCHANGED uriResp
    /\ CoUnchanged /\ UNCHANGED <<recordChan, uriReq, open, result, ioFailed>>

\* Headers and block digest of the i-th record.  (A response is entered in the
\* table of LocalDedupe here: module Client.)
CoFinish(i) ==
    /\ coPC = IF i = 1 THEN "finish1" ELSE "finish2"
    /\ \/ /\ cancelled
          /\ coPC' = "return" /\ UNCHANGED ioFailed
       \/ /\ ~cancelled
          /\ coPC' = "reportio" /\ ioFailed' = TRUE
       \/ /\ ~cancelled
          /\ coPC' = IF i = 1 THEN "finish2" ELSE "send"
          /\ UNCHANGED ioFailed
    /\ CoUnchanged
    /\ UNCHANGED <<channels, open, batch, batchSent, stored, feedback, errors>>

\* A select with a default, for a channel that is full.
CoSend_Default ==
    /\ coPC = "send" /\ coPC' = "return"
    /\ \/ batchSent' = TRUE /\ open' = {}
       \/ UNCHANGED <<batchSent, open>>
    /\ CoUnchanged
    /\ UNCHANGED <<channels, batch, stored, feedback, errors, ioFailed>>

\* The batch owns its contents from now on: WriteRecord closes them.
CoSend ==
    /\ coPC = "send" /\ coPC' = "return"
    /\ \/ batchSent' = TRUE /\ open' = {}
       \/ cancelled /\ UNCHANGED <<batchSent, open>>
    /\ CoUnchanged
    /\ UNCHANGED <<channels, batch, stored, feedback, errors, ioFailed>>

Unanswered_Always == hasFeedback

Unanswered == hasFeedback /\ ~batchSent

\* The deferred calls: an unsent batch closes the feedback channel, and
\* WaitGroup.Done.
CoReturn ==
    /\ coPC = "return" /\ coPC' = "end"
    /\ feedback' = IF Unanswered THEN Append(feedback, "closed") ELSE feedback
    /\ CoUnchanged
    /\ UNCHANGED <<channels, open, batch, batchSent, stored, errors, ioFailed>>

writeWARCFromConnection ==
    \/ CoWait \/ CoReport \/ CoCleanup \/ CoCollect \/ CoGetURI
    \/ (\E i \in {1, 2} : CoFinish(i)) \/ CoSend \/ CoReturn
-----------------------------------------------------------------------------
(***************************************************************************)
(* The WARC writers (as Archive promises) and the program.                 *)
(***************************************************************************)
StoreBatch ==
    /\ batchSent /\ ~stored /\ stored' = TRUE
    /\ UNCHANGED <<scenario, transport, pipe, pcs, copied, channels, recordType, open,
                   failed, discarded, batch, batchSent, feedback, errors, cancelled, ioFailed>>

AnswerFeedback ==
    /\ stored /\ hasFeedback /\ "value" \notin {feedback[i] : i \in 1..Len(feedback)}
    /\ feedback' = feedback \o <<"value", "closed">>
    /\ UNCHANGED <<scenario, transport, pipe, pcs, copied, channels, recordType, open,
                   failed, discarded, batch, batchSent, stored, errors, cancelled, ioFailed>>

Cancel ==
    /\ ~cancelled /\ cancelled' = TRUE
    /\ UNCHANGED <<scenario, transport, pipe, pcs, copied, channels, recordType, open,
                   failed, discarded, result, ioFailed>>

Terminated ==
    /\ coPC = "end" /\ connClosed /\ wpc = "done" /\ rpc = "done"
    /\ UNCHANGED vars

CustomConnection ==
    \/ WriteToPipe \/ WriteToConn \/ WriteFails
    \/ ReadFromConn \/ Tee \/ ServerCloses \/ ReadFails
    \/ TransportCloses \/ \E who \in Closers : CloseStep(who)

Next ==
    \/ CustomConnection
    \/ readRequest \/ readResponse \/ writeWARCFromConnection
    \/ StoreBatch \/ AnswerFeedback \/ Cancel
    \/ Terminated

Spec == Init /\ [][Next]_vars

\* The exchange is over for the transport when it has got what the framing
\* announces: it closes the connection (DisableKeepAlives).
ExchangeOver == wpc = "done" /\ recvd = RespLen /\ rpc = "net"

\* Goroutines run, ErrChan is read and the WARC writers work.  Neither the
\* server nor the program has to end an exchange, but the transport closes a
\* connection whose exchange is over.
Fairness ==
    /\ \A who \in Closers : WF_vars(CloseStep(who))
    /\ WF_vars(WriteToPipe \/ WriteToConn \/ WriteFails)
    /\ WF_vars(Tee \/ (connClosed /\ ReadFails))
    /\ WF_vars(ExchangeOver /\ TransportCloses)
    /\ WF_vars(readRequest) /\ WF_vars(readResponse)
    /\ WF_vars(writeWARCFromConnection)
    /\ WF_vars(StoreBatch) /\ WF_vars(AnswerFeedback)

FairSpec == Spec /\ Fairness
-----------------------------------------------------------------------------
(***************************************************************************)
(* Properties.                                                             *)
(***************************************************************************)

\* dialer.go:566: a coordinator whose readers both succeeded finds the
\* target URI in the channel; the panic there is never reached.
NoPanic == coPC # "panic"

\* README.md:52: what is handed to the WARC writers is always a pair, the
\* response first, unless it is a revisit (dialer.go:557 tests only for the
\* type "response", so the order of a revisit is that of the goroutines).
SentIsPair ==
    batchSent => \/ batch = <<"response", "request">>
                 \/ recordType = "revisit" /\ batch \in {<<"revisit", "request">>,
                                                         <<"request", "revisit">>}

\* Whatever closes the connection, whenever and with whatever error: a batch
\* that is handed over holds at least the header of a request, and a response
\* that is whole by its own framing, both copied until a regular end of the
\* pipes, and the transport met no error before it closed the connection
\* itself.  (A server may answer, and the transport close, before the whole
\* body of the request is written: then the record ends there.)
SentIsWhole ==
    batchSent => /\ request = "good" /\ content.req > 0
                 /\ reply \in {"length", "close"} /\ content.resp > 0
                 /\ reply = "length" => content.resp = 2
                 /\ pipe = [p \in {"req", "resp"} |-> "eof"]
                 /\ closing["reader"].how = "err" => closing["transport"].at > 0

\* A chunk leaves the pipe, and goes on to the transport or the server, before
\* it is written to the record (dialer.go:657, :946).  A record never holds what
\* the connection did not, and lags behind it by one chunk at most; one whose
\* reader succeeded, whatever failed or was closed meanwhile, lacks nothing.
\* (The last chunk of a request may not have got to the server.)
RecordedIsReceived ==
    /\ recvd \in {content.resp, content.resp + 1}
    /\ respPC = "done" /\ "response" \notin failed => recvd = content.resp
    /\ sent <= content.req + 1 /\ content.req <= sent + 1
    /\ reqPC = "done" /\ "request" \notin failed => content.req \in {sent, sent + 1}

\* The spooled contents (memory and temporary files) are closed, or belong to
\* the batch, when the goroutine ends; the code forgets them only when the
\* context was cancelled or an operation on them failed.
ContentsAreClosed == coPC = "end" /\ ~cancelled /\ ~ioFailed => open = {}

\* Every exchange that is not written has been reported on ErrChan, except
\* one whose context was cancelled.
DroppedIsReported == coPC = "end" /\ ~batchSent => errors > 0 \/ cancelled

\* Capture implements what Exchange promises: in particular the feedback
\* channel is never closed a second time, nor sent on after it was closed
\* (either would be a panic), and never left open.
Ex == INSTANCE Exchange WITH
    outcome <- IF stored THEN "stored" ELSE IF batchSent THEN "offered"
               ELSE IF coPC = "end" THEN "dropped" ELSE "running",
    listening <- hasFeedback,
    signal  <- feedback

ImplementsExchange == Ex!Spec

\* Once somebody has closed the connection the capture goroutine ends, so
\* that WaitGroup.Wait in CustomHTTPClient.Close returns, and whoever waits
\* for the feedback is answered: no reader is left blocked on a pipe or on
\* the other reader, also after one of them failed.
CaptureEnds == (\E who \in Closers : closing[who].at > 0) ~>
                  coPC = "end" /\ (hasFeedback => feedback # <<>>)

\* An exchange that went well, and that nobody disturbed, is in a file in the
\* end: it is lost only if the server or the program gave it up, a hook
\* refused it, an operation on its contents failed, or the connection broke
\* before it was closed.
GoodExchangeIsStored ==
    (/\ ExchangeOver /\ request = "good" /\ reply = "length"
     /\ closing = [c \in Closers |-> [at |-> 0, how |-> "eof"]])
    ~> \/ stored \/ cancelled \/ ioFailed \/ discarded
       \/ \E p \in {"req", "resp"} : pipe[p] = "err"
=============================================================================
