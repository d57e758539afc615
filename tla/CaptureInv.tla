----------------------------- MODULE CaptureInv -----------------------------
(***************************************************************************)
(* The inductive invariant behind the safety of Capture: what is in the    *)
(* pipes, the channels and the records at each place of the three          *)
(* goroutines.  It is proved in CaptureProofs.                             *)
(***************************************************************************)
EXTENDS Capture

\* A reader has returned without an error.
ReqGood  == reqPC = "done" /\ "request" \notin failed
RespGood == respPC = "done" /\ "response" \notin failed

\* The records and the wire: only the chunk that is between them differs, and
\* the one that is taken from the pipe and not yet in the record.
CopyInv ==
    /\ content.req + held.req <= ReqLen
    /\ wpc = "write" => content.req + held.req = sent /\ sent < ReqLen
    /\ wpc = "conn"  => content.req + held.req = sent + 1 /\ sent < ReqLen
    /\ wpc = "done"  => content.req + held.req \in {sent, sent + 1}
    /\ content.resp + held.resp = recvd
    /\ rpc = "tee" => recvd < RespLen
    /\ reqPC \in {"parse", "send"} \/ ReqGood => held.req = 0
    /\ respPC \in {"ctx", "parse", "uri", "hook", "digest", "dedupe"} \/ RespGood =>
          held.resp = 0

\* A pipe is closed regularly by the transport, or by a read that met the end.
PipeInv ==
    /\ closing["transport"].how = "eof"
    /\ \A p \in {"req", "resp"} :
          pipe[p] = "eof" => \/ closing["transport"].at > 0
                             \/ closing["reader"].at > 0 /\ closing["reader"].how = "eof"

\* What readRequest has seen to when it is so far.
RequestInv ==
    /\ "request" \in failed => reqPC = "done"
    /\ reqPC \in {"parse", "send"} \/ ReqGood => pipe["req"] = "eof"
    /\ reqPC = "send" \/ ReqGood => request = "good" /\ content.req > 0
    /\ uriReq.val => ReqGood

\* What readResponse has seen to; past the URI it knows that readRequest
\* succeeded, and the URI waits for the coordinator.
ResponseInv ==
    /\ "response" \in failed => respPC = "done"
    /\ respPC \in {"ctx", "parse", "uri", "hook", "digest", "dedupe"} \/ RespGood =>
          pipe["resp"] = "eof"
    /\ respPC \in {"uri", "hook", "digest", "dedupe"} \/ RespGood =>
          content.resp > 0 /\ reply # "garbage"
    /\ respPC \in {"hook", "digest", "dedupe"} \/ RespGood => ReqGood
    /\ respPC = "dedupe" \/ RespGood => BodyIsWhole
    /\ (respPC \in {"hook", "digest", "dedupe"} \/ RespGood) /\ coPC \in {"wait", "collect", "uri"} =>
          uriResp.val

\* The coordinator starts when both are done, and completes a batch only if
\* both succeeded.
CoordinatorInv ==
    /\ coPC # "wait" => reqPC = "done" /\ respPC = "done"
    /\ coPC \in {"collect", "uri", "finish1", "finish2", "send"} \/ batchSent => failed = {}
    /\ coPC \in {"report", "cleanup"} => failed # {}
    /\ coPC # "panic"
    /\ batchSent => coPC \in {"return", "end"}
    /\ stored => batchSent

Pair == \/ batch = <<"response", "request">>
        \/ recordType = "revisit" /\ batch \in {<<"revisit", "request">>, <<"request", "revisit">>}

\* Each reader has put its record into the channel once; the coordinator takes
\* both, one after the other.
RecordsInv ==
    /\ coPC \in {"wait", "report", "cleanup"} =>
          /\ batch = <<>>
          /\ reqPC = "start" /\ respPC = "start" => recordChan = <<>>
          /\ reqPC # "start" /\ respPC = "start" => recordChan = <<"request">>
          /\ reqPC = "start" /\ respPC # "start" => recordChan = <<"response">>
          /\ reqPC # "start" /\ respPC # "start" =>
                recordChan \in {<<"request", "response">>, <<"response", "request">>}
    /\ coPC = "collect" =>
          \/ /\ batch = <<>>
             /\ recordChan \in {<<"request", "response">>, <<"response", "request">>}
          \/ batch = <<"request">> /\ recordChan = <<"response">>
          \/ batch = <<recordType>> /\ recordChan = <<"request">>
    /\ coPC \in {"uri", "finish1", "finish2", "send"} \/ batchSent => Pair

\* Contents that are forgotten.
ContentsInv ==
    /\ "headers" \in open => ioFailed \/ RespGood
    /\ coPC = "reportio" => ioFailed
    /\ coPC \in {"return", "end"} /\ ~cancelled /\ ~ioFailed => open = {}

\* What the program hears of the exchange.
ReportInv ==
    /\ coPC \notin {"cleanup", "return", "end"} => errors = 0
    /\ errors <= 1 /\ (coPC = "cleanup" => errors = 1)
    /\ coPC \in {"return", "end"} => batchSent \/ errors > 0 \/ cancelled
    /\ \/ feedback = <<>> /\ ~(coPC = "end" /\ ~batchSent /\ hasFeedback)
       \/ feedback = <<"value", "closed">> /\ stored /\ hasFeedback
       \/ feedback = <<"closed">> /\ hasFeedback /\ coPC = "end" /\ ~batchSent

IInv == /\ TypeOK /\ CopyInv /\ PipeInv
        /\ RequestInv /\ ResponseInv /\ CoordinatorInv
        /\ RecordsInv /\ ContentsInv /\ ReportInv
=============================================================================
