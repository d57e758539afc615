------------------------------ MODULE Rotator ------------------------------
(***************************************************************************)
(* The WARC writing side of gowarc: NewWARCRotator starts a pool of        *)
(* recordWriter goroutines that take record batches from one channel and   *)
(* each write them to a file of their own, which grows until WARCSize and  *)
(* is called "<name>.open" until it is finished.                           *)
(*                                                                         *)
(* A file is the sequence of its records; bytes, compression and header    *)
(* text are left out.  A record is the batch it comes from, its place in   *)
(* the batch, and the WARC-Warcinfo-ID it was given.  A size is a number   *)
(* of records, RecordsPerMiB of them making the MiB that                   *)
(* isFileSizeExceeded rounds down to.                                      *)
(*                                                                         *)
(* Every error of recordWriter is a panic, which ends the process: Crash.  *)
(*                                                                         *)
(* A definition D_Xyz, with the name of another one in front, is a mistake *)
(* that D could have been written with.  It is part of no specification:   *)
(* each property is tried on the mistake it is there to find.              *)
(***************************************************************************)
EXTENDS Naturals, Sequences

CONSTANTS
    Rotators,       \* calls of NewWARCRotator on the same directory and prefix
    Writers,        \* the recordWriter goroutines
    RotatorOf,      \* the rotator that started each writer
    Batches,        \* the record batches the producers send
    BatchLen,       \* how many records each batch holds
    FeedbackKind,   \* its FeedbackChan: "nil", "buffered" or "unbuffered"
    WARCSize,       \* RotatorSettings.WARCSize, in MiB
    RecordsPerMiB,  \* how many records fill one MiB
    MaxSerial,      \* 99999 in the code: the last serial before it restarts
    MaxClock,       \* bound of the model on the time stamps
    OldOpen,        \* ".open" names an earlier process may have left behind
    OldDone,        \* names it may have finished
    NoBatch, NoFile, NoWriter

ASSUME RotatorAssumption ==
    /\ RotatorOf \in [Writers -> Rotators]
    /\ BatchLen \in [Batches -> Nat \ {0}]
    /\ FeedbackKind \in [Batches -> {"nil", "buffered", "unbuffered"}]
    /\ WARCSize \in Nat
    /\ RecordsPerMiB \in Nat \ {0}
    /\ MaxSerial \in Nat \ {0}
    /\ MaxClock \in Nat \ {0}
    /\ NoBatch \notin Batches
    /\ NoWriter \notin Writers

ChanCap == 1    \* make(chan *RecordBatch, 1)

Names   == [stamp : 0..MaxClock, serial : 1..MaxSerial]
InfoIDs == (Writers \union {NoWriter}) \X Names
Records == [batch : Batches \union {NoBatch}, idx : Nat, info : InfoIDs]

\* Finished files are older than the first stamp of this process; the file
\* of a process that has just died may bear the same stamp.
ASSUME DirectoryAssumption ==
    /\ NoFile \notin Seq(Records)
    /\ OldOpen \subseteq {n \in Names : n.stamp <= 1}
    /\ OldDone \subseteq {n \in Names : n.stamp = 0}

InfoRecord(id) == [batch |-> NoBatch, idx |-> 0, info |-> id]

\* What an earlier process left behind: one warcinfo record.
Leftover(n) == <<InfoRecord(<<NoWriter, n>>)>>

VARIABLES
    pc, name, info, cur, idx,   \* each writer's place and local variables
    openFiles, doneFiles,       \* what is on disk as "<name>.open" and as "<name>"
    torn,                       \* names whose .open file ends in half a record
    serial,                     \* each rotator's atomic counter
    clock,                      \* the current time stamp
    queue, closed,              \* each rotator's channel
    submitted,                  \* the batches sent on a channel so far
    feedback,                   \* what happened on each FeedbackChan
    alive                       \* FALSE once the process has died

locals == <<pc, name, info, cur, idx>>
disk   == <<openFiles, doneFiles, torn>>
chans  == <<queue, closed, submitted>>
vars   == <<locals, disk, serial, clock, chans, feedback, alive>>

PCs == {"name", "stat", "create", "info", "ready", "rotate", "write", "flush",
        "send", "closefb", "finish", "signal", "exited"}

TypeOK ==
    /\ pc \in [Writers -> PCs]
    /\ name \in [Writers -> Names]
    /\ info \in [Writers -> InfoIDs]
    /\ cur \in [Writers -> Batches \union {NoBatch}]
    /\ idx \in [Writers -> Nat \ {0}]
    /\ openFiles \in [Names -> Seq(Records) \union {NoFile}]
    /\ doneFiles \in [Names -> Seq(Records) \union {NoFile}]
    /\ torn \in SUBSET Names
    /\ serial \in [Rotators -> 0..MaxSerial]
    /\ clock \in 1..MaxClock
    /\ queue \in [Rotators -> Seq(Batches)]
    /\ closed \in [Rotators -> BOOLEAN]
    /\ submitted \in SUBSET Batches
    /\ feedback \in [Batches -> SUBSET {"sent", "received", "closed"}]
    /\ alive \in BOOLEAN

\* The process starts in a directory that may hold files of earlier ones.
Init ==
    LET none == [stamp |-> 0, serial |-> 1] IN
    /\ pc = [w \in Writers |-> "name"]
    /\ name = [w \in Writers |-> none]
    /\ info = [w \in Writers |-> <<NoWriter, none>>]
    /\ cur = [w \in Writers |-> NoBatch]
    /\ idx = [w \in Writers |-> 1]
    /\ \E left \in SUBSET OldOpen :
          openFiles = [n \in Names |-> IF n \in left THEN Leftover(n) ELSE NoFile]
    /\ \E left \in SUBSET OldDone :
          doneFiles = [n \in Names |-> IF n \in left THEN Leftover(n) ELSE NoFile]
    /\ torn = {}
    /\ serial = [r \in Rotators |-> 0]
    /\ clock = 1
    /\ queue = [r \in Rotators |-> <<>>]
    /\ closed = [r \in Rotators |-> FALSE]
    /\ submitted = {}
    /\ feedback = [b \in Batches |-> {}]
    /\ alive = TRUE
-----------------------------------------------------------------------------
(***************************************************************************)
(* File names.  Reading the clock and taking the serial are one step: the  *)
(* time between them would matter only if a whole round of serials passed  *)
(* in it.                                                                  *)
(***************************************************************************)

\* The writer holds a name that it has not yet given up by renaming.
Holding(w) == pc[w] \notin {"name", "signal", "exited"}

UsedNames == {n \in Names : doneFiles[n] # NoFile}
             \union {name[w] : w \in {v \in Writers : Holding(v)}}

NextSerial_Stuck(s)  == IF s = 0 THEN 1 ELSE s
NextSerial_TooFar(s) == IF s > MaxSerial THEN 1 ELSE s + 1

\* The loop on CompareAndSwap.
NextSerial(s) == IF s >= MaxSerial THEN 1 ELSE s + 1

\* Assumed of the environment: when the serials start again at 1 the time
\* stamp is later than that of every name given out so far.
RoundsAreSlow(r) == serial[r] >= MaxSerial => \A n \in UsedNames : n.stamp < clock

TimeStamp_Constant == 1

TimeStamp == clock

GenerateName(w) ==
    LET r == RotatorOf[w] IN
    /\ pc[w] = "name"
    /\ RoundsAreSlow(r)
    /\ serial' = [serial EXCEPT ![r] = NextSerial(@)]
    /\ name' = [name EXCEPT ![w] = [stamp |-> TimeStamp, serial |-> NextSerial(serial[r])]]
    /\ pc' = [pc EXCEPT ![w] = "stat"]
    /\ UNCHANGED <<info, cur, idx, disk, clock, chans, feedback, alive>>

\* getNextWARCFilename stats only the name that ends in ".open".
NameTaken(n) == openFiles[n] # NoFile

Stat(w) ==
    /\ pc[w] = "stat"
    /\ pc' = [pc EXCEPT ![w] = IF NameTaken(name[w]) THEN "name" ELSE "create"]
    /\ UNCHANGED <<name, info, cur, idx, disk, serial, clock, chans, feedback, alive>>

\* os.Create truncates whatever has the name.
Create(w) ==
    /\ pc[w] = "create"
    /\ openFiles' = [openFiles EXCEPT ![name[w]] = <<>>]
    /\ torn' = torn \ {name[w]}
    /\ pc' = [pc EXCEPT ![w] = "info"]
    /\ UNCHANGED <<name, info, cur, idx, doneFiles, serial, clock, chans, feedback, alive>>

AfterInfo_Forgets(w) == "ready"

\* After the warcinfo record the writer waits for its first batch, or writes
\* the one that made it change files.
AfterInfo(w) == IF cur[w] = NoBatch THEN "ready" ELSE "write"

\* currentWarcinfoRecordID is declared anew where the file is changed.
WriteInfo_Shadowed(w) ==
    LET id == <<w, name[w]>> IN
    /\ pc[w] = "info"
    /\ openFiles' = [openFiles EXCEPT ![name[w]] = Append(@, InfoRecord(id))]
    /\ info' = [info EXCEPT ![w] = IF cur[w] = NoBatch THEN id ELSE @]
    /\ pc' = [pc EXCEPT ![w] = AfterInfo(w)]
    /\ UNCHANGED <<name, cur, idx, doneFiles, torn, serial, clock, chans, feedback, alive>>

WriteInfo(w) ==
    LET id == <<w, name[w]>> IN
    /\ pc[w] = "info"
    /\ openFiles' = [openFiles EXCEPT ![name[w]] = Append(@, InfoRecord(id))]
    /\ info' = [info EXCEPT ![w] = id]
    /\ pc' = [pc EXCEPT ![w] = AfterInfo(w)]
    /\ UNCHANGED <<name, cur, idx, doneFiles, torn, serial, clock, chans, feedback, alive>>

\* Flush, close, and os.Rename to the name without ".open".
RenameTo(w, next) ==
    /\ doneFiles' = [doneFiles EXCEPT ![name[w]] = openFiles[name[w]]]
    /\ openFiles' = [openFiles EXCEPT ![name[w]] = NoFile]
    /\ pc' = [pc EXCEPT ![w] = next]
    /\ UNCHANGED <<name, info, cur, idx, torn, serial, clock, chans, feedback, alive>>

Rotate(w) == pc[w] = "rotate" /\ RenameTo(w, "name")
-----------------------------------------------------------------------------
(***************************************************************************)
(* Batches.                                                                *)
(***************************************************************************)

\* A producer sends a batch; the channel holds one.
Submit(b, r) ==
    /\ b \notin submitted
    /\ ~closed[r]
    /\ Len(queue[r]) < ChanCap
    /\ queue' = [queue EXCEPT ![r] = Append(@, b)]
    /\ submitted' = submitted \union {b}
    /\ UNCHANGED <<locals, disk, serial, clock, closed, feedback, alive>>

CloseChannel(r) ==
    /\ ~closed[r]
    /\ closed' = [closed EXCEPT ![r] = TRUE]
    /\ UNCHANGED <<locals, disk, serial, clock, queue, submitted, feedback, alive>>

isFileSizeExceeded(f) == Len(f) \div RecordsPerMiB >= WARCSize

\* The batch stays in the queue.
Receive_Peeks(w) ==
    LET r == RotatorOf[w] IN
    /\ pc[w] = "ready"
    /\ queue[r] # <<>>
    /\ cur' = [cur EXCEPT ![w] = Head(queue[r])]
    /\ idx' = [idx EXCEPT ![w] = 1]
    /\ pc' = [pc EXCEPT ![w] =
                 IF isFileSizeExceeded(openFiles[name[w]]) THEN "rotate" ELSE "write"]
    /\ UNCHANGED <<name, info, disk, serial, clock, chans, feedback, alive>>

\* The size is looked at only when a batch has arrived.
Receive(w) ==
    LET r == RotatorOf[w] IN
    /\ pc[w] = "ready"
    /\ queue[r] # <<>>
    /\ queue' = [queue EXCEPT ![r] = Tail(@)]
    /\ cur' = [cur EXCEPT ![w] = Head(queue[r])]
    /\ idx' = [idx EXCEPT ![w] = 1]
    /\ pc' = [pc EXCEPT ![w] =
                 IF isFileSizeExceeded(openFiles[name[w]]) THEN "rotate" ELSE "write"]
    /\ UNCHANGED <<name, info, disk, serial, clock, closed, submitted, feedback, alive>>

\* The last record is left in the BufWriter until the next batch.
Copy_Unflushed(w) ==
    /\ pc[w] = "write"
    /\ pc' = [pc EXCEPT ![w] = IF idx[w] = BatchLen[cur[w]] /\ FeedbackKind[cur[w]] # "nil"
                               THEN "send" ELSE "flush"]
    /\ UNCHANGED <<name, info, cur, idx, disk, serial, clock, chans, feedback, alive>>

\* The record goes through the BufWriter: nothing is sure to be in the file.
Copy(w) ==
    /\ pc[w] = "write"
    /\ pc' = [pc EXCEPT ![w] = "flush"]
    /\ UNCHANGED <<name, info, cur, idx, disk, serial, clock, chans, feedback, alive>>

\* The next record of the batch, the feedback, or the next batch.
AfterLast(w) == IF FeedbackKind[cur[w]] = "nil" THEN "ready" ELSE "send"

AfterRecord_Rotates(w) ==
    IF idx[w] = BatchLen[cur[w]] THEN AfterLast(w)
    ELSE IF isFileSizeExceeded(openFiles'[name[w]]) THEN "rotate" ELSE "write"

AfterRecord_SkipsLast(w) ==
    IF idx[w] + 1 >= BatchLen[cur[w]] THEN AfterLast(w) ELSE "write"

AfterRecord(w) == IF idx[w] = BatchLen[cur[w]] THEN AfterLast(w) ELSE "write"

\* WriteRecord ends with FlushAndCloseCompressor: now the record is there.
Flush(w) ==
    LET rec == [batch |-> cur[w], idx |-> idx[w], info |-> info[w]] IN
    /\ pc[w] = "flush"
    /\ openFiles' = [openFiles EXCEPT ![name[w]] = Append(@, rec)]
    /\ idx' = [idx EXCEPT ![w] = @ + 1]
    /\ pc' = [pc EXCEPT ![w] = AfterRecord(w)]
    /\ cur' = [cur EXCEPT ![w] = IF AfterRecord(w) = "ready" THEN NoBatch ELSE @]
    /\ UNCHANGED <<name, info, doneFiles, torn, serial, clock, chans, feedback, alive>>

\* On an unbuffered channel the send is also the producer's receive.
SendFeedback(w) ==
    LET b == cur[w] IN
    /\ pc[w] = "send"
    /\ feedback' = [feedback EXCEPT ![b] = @ \union
                      IF FeedbackKind[b] = "unbuffered" THEN {"sent", "received"} ELSE {"sent"}]
    /\ pc' = [pc EXCEPT ![w] = "closefb"]
    /\ UNCHANGED <<name, info, cur, idx, disk, serial, clock, chans, alive>>

CloseFeedback(w) ==
    /\ pc[w] = "closefb"
    /\ feedback' = [feedback EXCEPT ![cur[w]] = @ \union {"closed"}]
    /\ cur' = [cur EXCEPT ![w] = NoBatch]
    /\ pc' = [pc EXCEPT ![w] = "ready"]
    /\ UNCHANGED <<name, info, idx, disk, serial, clock, chans, alive>>

\* The producer takes the value a buffered FeedbackChan holds.
ReceiveFeedback(b) ==
    /\ "sent" \in feedback[b] /\ "received" \notin feedback[b]
    /\ feedback' = [feedback EXCEPT ![b] = @ \union {"received"}]
    /\ UNCHANGED <<locals, disk, serial, clock, chans, alive>>
-----------------------------------------------------------------------------
(***************************************************************************)
(* The end: the channel is closed and empty, or the process dies.          *)
(***************************************************************************)
\* Like a select on a context: what the queue holds is left behind.
SeeClosed_LeavesQueue(w) ==
    /\ pc[w] = "ready"
    /\ closed[RotatorOf[w]]
    /\ pc' = [pc EXCEPT ![w] = "finish"]
    /\ UNCHANGED <<name, info, cur, idx, disk, serial, clock, chans, feedback, alive>>

SeeClosed(w) ==
    /\ pc[w] = "ready"
    /\ queue[RotatorOf[w]] = <<>> /\ closed[RotatorOf[w]]
    /\ pc' = [pc EXCEPT ![w] = "finish"]
    /\ UNCHANGED <<name, info, cur, idx, disk, serial, clock, chans, feedback, alive>>

Finish(w) == pc[w] = "finish" /\ RenameTo(w, "signal")

\* done <- true meets the receive in CustomHTTPClient.Close.
SignalDone(w) ==
    /\ pc[w] = "signal"
    /\ pc' = [pc EXCEPT ![w] = "exited"]
    /\ UNCHANGED <<name, info, cur, idx, disk, serial, clock, chans, feedback, alive>>

\* Of a record on its way to the file any part may have got there.
Crash ==
    /\ alive' = FALSE
    /\ \E T \in SUBSET {name[w] : w \in {v \in Writers : pc[v] \in {"info", "flush"}}} :
          torn' = torn \union T
    /\ UNCHANGED <<locals, openFiles, doneFiles, serial, clock, chans, feedback>>

Tick ==
    /\ clock < MaxClock
    /\ clock' = clock + 1
    /\ UNCHANGED <<locals, disk, serial, chans, feedback, alive>>

Terminated ==
    /\ ~alive \/ \A w \in Writers : pc[w] = "exited"
    /\ UNCHANGED vars

WriterStep(w) ==
    \/ GenerateName(w) \/ Stat(w) \/ Create(w) \/ WriteInfo(w)
    \/ Receive(w) \/ Rotate(w) \/ Copy(w) \/ Flush(w)
    \/ SendFeedback(w) \/ CloseFeedback(w)
    \/ SeeClosed(w) \/ Finish(w) \/ SignalDone(w)

Next ==
    \/ /\ alive
       /\ \/ \E w \in Writers : WriterStep(w)
          \/ \E b \in Batches, r \in Rotators : Submit(b, r)
          \/ \E r \in Rotators : CloseChannel(r)
          \/ \E b \in Batches : ReceiveFeedback(b)
          \/ Tick
          \/ Crash
    \/ Terminated

Spec == Init /\ [][Next]_vars

\* Goroutines that can run do run, and time passes.  Fairness of SendFeedback
\* on an unbuffered channel is the producer's promise to receive.
Fairness ==
    /\ \A w \in Writers : WF_vars(alive /\ WriterStep(w))
    /\ WF_vars(alive /\ Tick)

FairSpec == Spec /\ Fairness
-----------------------------------------------------------------------------
(***************************************************************************)
(* Properties.                                                             *)
(***************************************************************************)

OnDisk == {openFiles[n] : n \in Names} \union {doneFiles[n] : n \in Names}
Files  == OnDisk \ {NoFile}

\* All the records of b stand in f, one after the other.
Whole(f, b) == \E k \in 0..Len(f) : /\ k + BatchLen[b] <= Len(f)
                                    /\ \A i \in 1..BatchLen[b] : /\ f[k + i].batch = b
                                                                 /\ f[k + i].idx = i
Stored(b) == \E f \in Files : Whole(f, b)
Acked(b)  == "received" \in feedback[b]

\* The file of w exists and is not yet renamed.
Writing(w) == pc[w] \notin {"name", "stat", "create", "signal", "exited"}

\* Two recordWriters never have one file open: the shared serial and the
\* os.Stat of getNextWARCFilename keep their names apart.
OneWriterPerFile ==
    \A w, v \in Writers : w # v /\ Writing(w) /\ Writing(v) => name[w] # name[v]

\* README.md:52: the records of a batch are written in the same file, here
\* side by side and in order; no other writer's record comes between them,
\* and a file is renamed only when its last batch is complete.
PairsStayTogether ==
    /\ \A f \in Files : \A i \in 2..Len(f) :
          f[i].idx # 1 => f[i - 1] = [f[i] EXCEPT !.idx = @ - 1]
    /\ \A n \in Names : doneFiles[n] # NoFile =>
          LET f == doneFiles[n] IN
          /\ n \notin torn
          /\ \A i \in 2..Len(f) :
                f[i].idx < BatchLen[f[i].batch] => i < Len(f) /\ f[i + 1].batch = f[i].batch

\* A batch is taken from the channel by one writer and written by it once,
\* also when the file is changed between taking and writing.
WrittenOnce ==
    \A f, g \in Files : \A i \in 2..Len(f), j \in 2..Len(g) :
        f[i].batch = g[j].batch /\ f[i].idx = g[j].idx => f = g /\ i = j

\* WARC-Warcinfo-ID of every record names the warcinfo record at the head of
\* its own file, after any number of changes of file.
WarcinfoOfOwnFile ==
    \A f \in Files : \A i \in 1..Len(f) : f[i].info = f[1].info /\ f[1].batch = NoBatch

\* README.md:114: the producer that has got the feedback finds all records of
\* its batch in one file, whatever happens afterwards (rename, crash).
AckedIsStored == \A b \in Batches : Acked(b) => Stored(b)

\* No step changes or replaces a file that was finished, and none touches an
\* unfinished file of an earlier process: os.Create and os.Rename would both
\* overwrite without a word.
NothingIsOverwritten ==
    [][\A n \in Names :
         /\ doneFiles[n] # NoFile => doneFiles'[n] = doneFiles[n]
         /\ openFiles[n] = Leftover(n) => openFiles'[n] = openFiles[n]]_vars

\* Rotator implements what Archive promises.
Arch == INSTANCE Archive WITH
            accepted <- submitted,
            stored   <- {b \in Batches : Stored(b)},
            acked    <- {b \in Batches : Acked(b)}

ImplementsArchive == Arch!Spec

\* A batch that was sent is written, if the process lives: no writer waits
\* for another and the channel is drained also after it was closed.
EveryBatchIsStored == \A b \in Batches : b \in submitted ~> (Stored(b) \/ ~alive)

\* Once the channel is closed every writer ends, and then every batch that
\* was sent is in a file without ".open".
CloseFinishesFiles ==
    (\A r \in Rotators : closed[r]) ~>
        \/ ~alive
        \/ /\ \A w \in Writers : pc[w] = "exited"
           /\ \A b \in submitted : \E n \in Names :
                 doneFiles[n] # NoFile /\ Whole(doneFiles[n], b)
=============================================================================
