------------------------------ MODULE Extract ------------------------------
(***************************************************************************)
(* warc extract (cmd/warc/extract): the main goroutine reads the records   *)
(* of each file and starts a goroutine for each, at most so many at a      *)
(* time; these write the bodies of responses to files and tell a third     *)
(* goroutine, which counts for the report.                                 *)
(***************************************************************************)
EXTENDS Reader, FiniteSets

CONSTANT Settings   \* the flags, the WARC files, and what is in the output
                    \* directory

ASSUME ExtractAssumption ==
    \A s \in Settings : s.threads \in Int /\ {s.overwrite, s.hashSuffix} \subseteq BOOLEAN

VARIABLES
    setting,
    todo,     \* the WARC files still to be opened
    pc,       \* of the main goroutine
    task,     \* processRecord of each record, by its content
    running,  \* the count of the sized wait group
    disk,     \* the output directory, by path
    openers,  \* the records that opened each path for writing
    counter,  \* results handed over but not counted, and counted
    sent,     \* the results sent for this file
    printed   \* the total in the last report

mainVars == <<setting, todo, pc>>
taskVars == <<task, running, disk, openers>>
vars == <<readerVars, mainVars, taskVars, counter, sent, printed>>

\* "result" and "body" are remembered for the properties: how writeFile ended,
\* and the body that the record in the WARC file has.
NoTask == [pc |-> "none", record |-> NoRecord, path |-> <<>>, at |-> 0, result |-> "none",
           body |-> <<>>]
NotPrinted == [value |-> 0, sent |-> 0]

Init ==
    /\ setting \in Settings
    /\ todo = setting.files /\ pc = "open"
    /\ file = Head(setting.files) /\ rd = NewReader /\ SpoolInit
    /\ task = [c \in Contents |-> NoTask]
    /\ running = 0
    /\ disk = setting.old
    /\ openers = [p \in {} |-> {}]
    /\ counter = [pending |-> 0, count |-> 0]
    /\ sent = 0 /\ printed = NotPrinted

\* When the main goroutine has returned, or the runtime has found two
\* goroutines in the map, everything stops.
Alive == pc \notin {"exited", "fatal"}
-----------------------------------------------------------------------------
(***************************************************************************)
(* extract.                                                                *)
(***************************************************************************)

\* The next file, with a map, a channel and a counting goroutine of its own.
OpenFile ==
    /\ pc = "open"
    /\ IF todo = <<>> \/ Head(todo).format = "missing"
       THEN pc' = "return" /\ UNCHANGED <<file, rd, todo, counter, sent>>
       ELSE /\ pc' = "read" /\ file' = Head(todo) /\ todo' = Tail(todo)
            /\ rd' = NewReader
            /\ counter' = [pending |-> 0, count |-> 0] /\ sent' = 0
    /\ UNCHANGED <<spoolVars, setting, taskVars, printed>>

Read == pc = "read" /\ ReadRecord /\ UNCHANGED <<mainVars, taskVars, counter, sent, printed>>

\* sizedwaitgroup.New: a limit below one is none.
Free == setting.threads <= 0 \/ running < setting.threads

\* The head of a response is its first chunk.
BodyOf(content) == SubSeq(content, 2, Len(content))

\* swg.Add, which waits for a place, and go processRecord.
StartTask ==
    /\ pc = "read" /\ rd.pc = "got" /\ Free
    /\ running' = running + 1
    /\ task' = [task EXCEPT ![rd.record.content] =
                   [NoTask EXCEPT !.pc = "response", !.record = rd.record,
                                  !.body = BodyOf(file.records[rd.member].content)]]
    /\ rd' = [rd EXCEPT !.pc = "idle"]
    /\ UNCHANGED <<file, spoolVars, mainVars, disk, openers, counter, sent, printed>>

\* An error ends everything, also the goroutines at work.
EndOfFile ==
    /\ pc = "read" /\ rd.pc \in {"eof", "failed"}
    /\ pc' = IF rd.pc = "eof" THEN "wait" ELSE "return"
    /\ UNCHANGED <<readerVars, setting, todo, taskVars, counter, sent, printed>>

\* swg.Wait and close(resultsChan).
Wait ==
    /\ pc = "wait" /\ running = 0
    /\ pc' = "print"
    /\ UNCHANGED <<readerVars, setting, todo, taskVars, counter, sent, printed>>

\* It reads the map.  A result that was handed over may be
\* entered meanwhile: it is printed or not, or the runtime notices.
printExtractReport ==
    /\ pc = "print"
    /\ \/ pc' = "open" /\ printed' \in [value : counter.count .. counter.count + counter.pending,
                                        sent : {sent}]
       \/ counter.pending > 0 /\ pc' = "fatal" /\ UNCHANGED printed
    /\ UNCHANGED <<readerVars, setting, todo, taskVars, counter, sent>>

Exit ==
    /\ pc = "return" /\ pc' = "exited"
    /\ UNCHANGED <<readerVars, setting, todo, taskVars, counter, sent, printed>>

\* The counting goroutine.
Count ==
    /\ Alive /\ counter.pending > 0
    /\ counter' = [pending |-> counter.pending - 1, count |-> counter.count + 1]
    /\ UNCHANGED <<readerVars, mainVars, taskVars, sent, printed>>
-----------------------------------------------------------------------------
(***************************************************************************)
(* processRecord and writeFile.                                            *)
(***************************************************************************)
Step(c, from, to) ==
    /\ Alive /\ task[c].pc = from /\ task' = [task EXCEPT ![c].pc = to]
    /\ UNCHANGED <<file, rd, mainVars, printed>>

StepOnly(c, from, to) ==
    Step(c, from, to) /\ UNCHANGED <<spoolVars, running, disk, openers, counter, sent>>

\* writeFile returns without an error.
Return(c, result) == task' = [task EXCEPT ![c].pc = "send", ![c].result = result]

\* Whatever way processRecord returns, the deferred calls follow.
AfterRefusal == "done"

\* A record that is no response, or whose content is none, or of another type.
\* The head of a response says what type and encoding its body has.
Selected(c) ==
    /\ ~ShouldSkipRecord(task[c].record)
    /\ Stored(c) # <<>> /\ Stored(c)[1] \in {"head", "badgzip"}

ReadResponse(c) ==
    \/ /\ Step(c, "response", "stat") /\ Selected(c)
       /\ ReadTo(c, 1)
       /\ UNCHANGED <<running, disk, openers, counter, sent>>
    \/ StepOnly(c, "response", AfterRefusal) /\ ~Selected(c)
    \/ file.diskFails /\ StepOnly(c, "response", AfterRefusal)

NameOf(c) == task[c].record.header["uri"].seq

\* A path is a name and, as its suffix, nothing or the digest of a body.
PathOf(name, suffix) == <<name, suffix>>

Local(c, from) ==
    /\ Alive /\ task[c].pc = from
    /\ UNCHANGED <<file, rd, spoolVars, mainVars, running, disk, openers, counter, sent, printed>>

\* os.Stat: what becomes of a name that is there.
Stat(c) ==
    LET p == PathOf(NameOf(c), <<>>) IN
    /\ Local(c, "stat")
    /\ IF p \in DOMAIN disk /\ ~setting.hashSuffix /\ ~setting.overwrite
       THEN Return(c, "skipped")
       ELSE task' = [task EXCEPT ![c].path = p,
                                 ![c].pc = IF p \in DOMAIN disk /\ setting.hashSuffix
                                           THEN "compare" ELSE "create"]

IsBadGzip(c) == Stored(c)[1] = "badgzip"

Same_Length(a, b) == Len(a) = Len(b)

\* Equal digests.
Same(a, b) == a = b

\* The body is read and held against the file as it is now, which another
\* goroutine may be writing.  The same is skipped, and counted.
Compare(c) ==
    /\ Local(c, "compare")
    /\ \/ /\ ~IsBadGzip(c) /\ Same(disk[task[c].path], Rest(c))
          /\ Return(c, "skipped")
       \/ /\ ~IsBadGzip(c) /\ ~Same(disk[task[c].path], Rest(c))
          /\ task' = [task EXCEPT ![c].pc = "stat2", ![c].path = PathOf(NameOf(c), <<Rest(c)>>)]
       \/ /\ IsBadGzip(c) \/ file.diskFails
          /\ task' = [task EXCEPT ![c].pc = AfterRefusal]

Taken_Never(p) == FALSE

Taken(p) == p \in DOMAIN disk /\ ~setting.overwrite

StatSuffixed(c) ==
    /\ Local(c, "stat2")
    /\ IF Taken(task[c].path) THEN Return(c, "skipped")
       ELSE task' = [task EXCEPT ![c].pc = "create"]

With(f, p, v) == [q \in DOMAIN f \cup {p} |-> IF q = p THEN v ELSE f[q]]

\* os.OpenFile with O_CREATE and O_WRONLY: what is in the file stays.  A body
\* that cannot be decompressed is refused after that.
Create(c) ==
    LET p == task[c].path IN
    \/ /\ Step(c, "create", IF IsBadGzip(c) THEN AfterRefusal ELSE "copy")
       /\ disk' = IF p \in DOMAIN disk THEN disk ELSE With(disk, p, <<>>)
       /\ openers' = With(openers, p, {c} \cup (IF p \in DOMAIN openers THEN openers[p] ELSE {}))
       /\ UNCHANGED <<spoolVars, running, counter, sent>>
    \/ file.diskFails /\ StepOnly(c, "create", AfterRefusal)

\* Each chunk goes where this goroutine is in the file.
Overwrite(data, i, chunk) ==
    [j \in 1..(IF i > Len(data) THEN i ELSE Len(data)) |-> IF j = i THEN chunk ELSE data[j]]

Copy(c) ==
    LET p == task[c].path IN
    \/ /\ Alive /\ task[c].pc = "copy" /\ Rest(c) # <<>>
       /\ disk' = [disk EXCEPT ![p] = Overwrite(@, task[c].at + 1, Head(Rest(c)))]
       /\ task' = [task EXCEPT ![c].at = @ + 1]
       /\ ReadTo(c, Position(c) + 1)
       /\ UNCHANGED <<file, rd, mainVars, running, openers, counter, sent, printed>>
    \/ Local(c, "copy") /\ Rest(c) = <<>> /\ Return(c, "written")
    \/ file.diskFails /\ StepOnly(c, "copy", AfterRefusal)

CanSend_Buffered == counter.pending < 2

\* The channel has no buffer: the counting goroutine must be at its receive.
CanSend == counter.pending = 0

Send(c) ==
    /\ CanSend /\ Step(c, "send", "done")
    /\ counter' = [counter EXCEPT !.pending = @ + 1]
    /\ sent' = sent + 1
    /\ UNCHANGED <<spoolVars, running, disk, openers>>

\* swg.Done comes before the content is closed.
Done(c) ==
    /\ Step(c, "done", "close") /\ running' = running - 1
    /\ UNCHANGED <<spoolVars, disk, openers, counter, sent>>

CloseContent(c) ==
    /\ Step(c, "close", "ended")
    /\ Close(c) \/ (file.diskFails /\ RemoveFails(c))
    /\ UNCHANGED <<running, disk, openers, counter, sent>>

processRecord(c) ==
    \/ ReadResponse(c) \/ Stat(c) \/ Compare(c) \/ StatSuffixed(c) \/ Create(c)
    \/ Copy(c) \/ Send(c) \/ Done(c) \/ CloseContent(c)
-----------------------------------------------------------------------------
extract == OpenFile \/ Read \/ StartTask \/ EndOfFile \/ Wait \/ printExtractReport \/ Exit

Terminated == ~Alive /\ UNCHANGED vars

Next == \/ extract \/ Count \/ Terminated
        \/ \E c \in Contents : processRecord(c)

Spec == Init /\ [][Next]_vars

-----------------------------------------------------------------------------
OneAtATime == setting.threads = 1

\* With one thread and no flag a path is opened for one record only, and never
\* one that was there.
OpenedOnce ==
    OneAtATime /\ ~setting.overwrite =>
        \A p \in DOMAIN openers : p \notin DOMAIN setting.old /\ Cardinality(openers[p]) = 1

\* A path opened for one record alone holds that record's body when written.
WrittenAreBodies ==
    \A p \in DOMAIN openers : \A c \in Contents :
        openers[p] = {c} /\ task[c].result = "written" /\ p \notin DOMAIN setting.old
            => disk[p] = task[c].body

(* With one thread and no flag no two records share a path, and no file that was
   there is written to; and however many threads there are, and while the next
   records are being read, a path that was opened for one record alone holds
   exactly the body of that record when it has been written. *)
FilesAreBodies == OpenedOnce /\ WrittenAreBodies

(* --hash-suffix, "When duplicate file names exist, the hash will be added"
   (extract.go:41): with one thread no body is lost to another one of the same
   name.  What was skipped is in the output directory, unless the very name with
   its hash was taken before. *)
BodiesAreKept ==
    OneAtATime /\ setting.hashSuffix /\ (\A i \in DOMAIN setting.files : ~setting.files[i].diskFails) =>
        \A c \in Contents : task[c].result \in {"written", "skipped"} =>
            \/ \E p \in DOMAIN disk : disk[p] = task[c].body
            \/ PathOf(NameOf(c), <<task[c].body>>) \in DOMAIN setting.old

(* extract.go:84: the number of files reported is the number of results that
   were sent; at most the last one can be missing, as the counting goroutine may
   have received it and not yet entered it. *)
ReportMissesOneAtMost == printed.value \in {printed.sent, printed.sent - 1}
=============================================================================
