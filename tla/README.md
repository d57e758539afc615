# Verification of gowarc

gowarc is a Go library that performs HTTP requests and writes every exchange,
with the DNS responses behind it, into WARC files, and a command (`warc`) that
extracts, verifies and mends such files. This directory holds TLA+
specifications of it, translated from its source, the TLC configurations that
check them on small instances, and proofs, checked by TLAPS, of the safety of
every part of it.

Contents: [the system](#the-system) · [modules](#modules) ·
[runs](#runs-what-each-one-checks-and-shows) · [bounds](#bounds) ·
[fairness](#fairness) · [disagreements](#disagreements-found) ·
[proofs](#proofs) · [not modelled](#what-is-not-modelled) · [plan](#plan)

## The system

| Component | State it keeps | Operations | Talks to |
|---|---|---|---|
| **WARC writer pool** (`warc.go`, `file.go`, `write.go`, `utils.go`, `record.go`) | the channel of batches, an atomic serial, per writer the open file, its name and its warcinfo ID | `NewWARCRotator`, `recordWriter` (name, create, write, flush, rotate, finish), `WriteRecord`, `WriteInfoRecord` | takes batches from captures and DNS; answers each batch's feedback channel |
| **Record capture** (`dialer.go`) | two pipes, two records with spooled contents, five channels between three goroutines | `CustomConnection.Read/Write/CloseWithError`, `readRequest`, `readResponse`, `writeWARCFromConnection` | the HTTP transport on one side, the writer pool on the other; the dedupe table; `ErrChan` |
| **Dialing** (`dialer.go`) | the race (results, `returned`, timer), the connection | `CustomDialContext`, `CustomDialTLSContext`, `dialParallel`, `dialSingle`, `wrapConnection` | DNS, the network; starts a capture for each connection |
| **DNS** (`dns.go`) | a cache and a round-robin index per client, a singleflight group per *process* | `archiveDNS`, `concurrentDNSLookup`, `lookupIP` | servers; `WriteRecord` of the client |
| **Client lifecycle** (`client.go`, `waitgroup.go`) | the channel of the writers, the `WaitGroup` of captures, `ErrChan`, done channels | `NewWARCWritingHTTPClient`, `Close` | everything above |
| **Dedupe** (`dedupe.go`) | the local table of digests | lookups in the table, a CDX server, a Doppelganger server | read and written by captures |
| **Local addresses** (`random_local_ip.go`) | a list and an index per family, per process | watcher goroutine, `GetNextIP` | `dialSingle`, the constructor, `Close` |
| **Spooled files** (`pkg/spooledtempfile`) | a buffer or a temporary file, reading and closed flags, cached memory figures | `Write`, `Read`, `Seek`, `Close` | contents of all records; a pool of buffers |
| **Reader** (`read.go`) | position in the (compressed) file, the buffer of a line | `ReadRecord` | `extract`, `verify`, `mend` |
| **mend** (`cmd/warc/mend`) | the files, the result of an analysis | analyse, delete, truncate, rename | Reader, the user |
| **verify** (`cmd/warc/verify`) | the verdict on a file | record loop, digests, version | Reader |
| **extract** (`cmd/warc/extract`) | a pool of record goroutines, the files written, a report | `processRecord`, `writeFile` | Reader, the output directory |
| **Transport** (`transport.go`) | – | `RoundTrip`, decompression of bodies | net/http |
| **Digests, headers, compression, TLS preset, flags** | – | pure | – |

A request goes through them like this: the transport dials (Dialing, DNS), gets
a `CustomConnection` and talks HTTP over it; the connection copies both
directions into pipes; the capture goroutine makes a request and a response (or
revisit) record of them, in one batch; a writer of the pool appends the batch
to its file, flushes it and answers the feedback channel that the program put
into the context of the request. When the program has what it wanted it calls
`Close`, which waits for the captures, then for the writers, then for the
watcher of the local addresses.

What is hard, and what makes each part correct:

* **Writer pool.** Several goroutines choose names, create and rename files in
  one directory; files of dead processes lie there; a file is changed between
  receiving a batch and writing it; the process may die in any step.
  *Correct:* no file is shared or overwritten, batches are whole, in one file
  and written once, feedback means stored, closing the channel loses nothing.
* **Capture.** Three goroutines, two synchronous pipes, and a connection that
  either side may close at any point and with an error; temporary files that
  fail; cancellation. *Correct:* what is handed over is a whole exchange,
  everything else is reported, the feedback channel is answered exactly once,
  contents are closed, the goroutine always ends.
* **Dialing.** A race between two attempts, a timer, and an early return.
  *Correct:* no leaked connection, no lost attempt, the documented error.
* **DNS.** Lookups share queries, and the context and archive of whoever came
  first. *Correct:* what is used is archived, no answer is lost, nobody waits
  for ever.
* **Client.** Captures, DNS workers and writers share channels that `Close`
  closes; requests may be given up while their dial goes on. *Correct:* no send
  on a closed channel, `Close` means stored, a revisit refers to a record that
  exists, `Close` returns.
* **mend.** It decides on what it read before, about files that may still grow.
  *Correct:* it cuts where the first damage is, leaves whole records, and loses
  no record that it can read unless the user agreed.
* **Reader and verify.** Lengths that are wrong, line ends that fall between two
  buffers, members that end early or hold too much. *Correct:* the verdict is
  right, offsets are exact, no buffer is returned twice or temporary file left.
* **extract.** Goroutines that write files of the same name, and a report that
  another one counts for. *Correct:* a file holds one body, none is lost, the
  report counts what was done, nobody waits for ever.

`PROJECT.json` lists these hazards line by line, with the properties for each.

## Modules

| Module | Models | Remarks |
|---|---|---|
| `Archive` | the promise of the writer pool | batches are accepted, stored once and whole, acknowledged afterwards |
| `Rotator` | the writer pool | implements `Archive` |
| `RotatorInv` | – | the inductive invariant of `Rotator` |
| `RotatorProofs` | – | theorems and proofs about `Rotator`, and that it implements `Archive` |
| `Exchange` | the promise of a capture to the program | an exchange is stored or dropped, and the feedback tells |
| `Capture` | the capture of one connection | implements `Exchange` |
| `CaptureInv`, `CaptureProofs` | – | inductive invariant of `Capture`; theorems and proofs |
| `Dial` | dialing, for a request and its redirects | its `wrapConnection` is the start of a `Capture` |
| `DialProofs` | – | theorems and proofs about `Dial` |
| `Resolve` | DNS lookups of one host by several requests and clients | its result is the outcome of `Dial!Lookup` |
| `ResolveInv`, `ResolveProofs` | – | inductive invariants of `Resolve`; theorems and proofs |
| `Client` | the life of a client: constructor, requests, captures, DNS workers, writers, watcher, `Close` | composes what the modules above do into a few steps each |
| `ClientInv` | – | the inductive invariant of `Client` |
| `ClientProofs` | – | theorems and proofs about `Client` |
| `Spool` | spooled contents and the pool of their buffers | operations for the modules that extend it |
| `Reader` | `ReadRecord` on one file, over `Spool` | operations for `Verify` and `Extract`; also what `Writer` renders |
| `Verify` | `warc verify` of one file, over `Reader` | |
| `VerifyInv`, `VerifyProofs` | – | inductive invariants of `Verify`, and what the files hold; theorems and proofs |
| `Extract` | `warc extract` of a list of files, over `Reader` | |
| `ExtractInv`, `ExtractProofs` | – | inductive invariants of `Extract`; theorems and proofs, also about `readUntilDelim` |
| `Mend` | `warc mend` and the reading it relies on | reads segments, not symbols |
| `MendInv`, `MendProofs` | – | inductive invariant of `Mend`; theorems and proofs |
| `MC*` | – | instances for TLC |

Definitions have the names of the functions they come from where there is one;
the `map` of `PROJECT.json` gives file and lines. A definition `D_Xyz` next to
a `D` is a mistake `D` might have been written with (a dropped check, an
off-by-one, a wrong order). It belongs to no specification; each property is
paired with one that violates it, so that a property which could not fail would
be noticed.

**Rotator.** A file is a sequence of records, a record is its batch, its place
in it and the warcinfo ID it bears. `openFiles[n]` is `n.open` on disk,
`doneFiles[n]` is `n`. `pc` of a writer follows `recordWriter`: *name, stat*
(`getNextWARCFilename`), *create, info* (`os.Create`, `WriteInfoRecord`),
*ready* (waiting for a batch), *rotate* (the file is too big: rename it and
start another, with the batch in hand), *write, flush* (one record), *send,
closefb* (the feedback), *finish, signal, exited*. An error of `recordWriter`
is a panic: `Crash`, after which only the files are left, one of them perhaps
`torn`. The clock and the serial give names; a whole round of
serials takes longer than a stamp (`RoundsAreSlow`), see [Proofs](#proofs).

**Capture.** The transport's write loop (`WriteToPipe`, `WriteToConn`: the
`MultiWriter` writes to the pipe first) and read loop (`ReadFromConn`, `Tee`)
are external, and do at each step anything net/http may do, including closing
the connection (`TransportCloses`). `CloseWithError` is a walk over the two
pipes and the connection, one step each, by two callers at once. `reqPC`,
`respPC`, `coPC` are the three goroutines of `dialer.go`; `open` are the
contents nobody has closed, `ioFailed` remembers that an operation on one
failed. `io.Copy` takes a chunk from its pipe first (`held`), which lets the
transport go on, and then stores it in the record (`ReqStore`, `RespStore`) or
fails to: what was received and what is recorded differ in between. `Exchange` is implemented by reading `coPC`, `batchSent` and `stored`.

**Dial.** The dialing goroutine is `pc`, the racers are `racer[f]`, the timer
has its own step. `Hurry` is `Stop` and `Reset(0)` with the semantics of
timers since Go 1.23 (go.mod says 1.27): an expired tick that was not received
counts as stopped, so it cannot be lost or doubled. `Redirect` dials again with
the context, and the channel of `WithWrappedConnection`, of the first hop.
`SendConnection` is the send on that channel: it waits for a receiver, about whom
nothing is assumed.

**Resolve.** `servers[l]` and `results[l]` are the channels of one lookup,
`worker[l, w]` its goroutines, `flight[q]` the singleflight entry of a query.
An answer is remembered by the response it was taken from, so that `recorded`
says whether it is archived. `setting` is the configuration of the clients.

**Client.** `pc` is the constructor, the program between its calls, and `Close`.
`records` is the channel `WARCWriter` with its capacity of one; `writer[w]` a
`recordWriter` without its files; `capture[<<q, hop>>]` the goroutine for the
connection of a request or of its redirect, with only those steps of `Capture`
that touch what others share; `resolver[q]` a worker of its lookup. A request
that was given up (`gone`) returns to the program at once, while `http.Transport`
finishes its dial (`late` captures). A send or close on a closed channel is a
`panic`, which ends the process. All responses have one payload, so that `table`
is the entry of the dedupe table they race for.

**Spool, Reader.** A text is a sequence of symbols: line ends are two symbols,
a version, a field and a chunk of a content are one each. The first field of a
header is any of them (`first`), because it is the one that is lost when the CR
of the version line is; WARC-Type (`type`) and Content-Type (`ctype`) are two
fields, as `ShouldSkipRecord` asks for both. `readUntilDelim` works
on a buffer of `BufSize` symbols, so that a CR may end one chunk and its LF begin
the next. Decompression is external: a member gives its text, then its end or an
error. A content borrows a buffer from the `pool` and moves to a temporary file
(`temps`) when it grows or memory is short; each write, spill and removal may
fail when `file.diskFails`. `bytes[b]` is what is in buffer `b`, so that a
buffer which two contents hold shows as a wrong body.

**Verify.** `pc` follows the loop of `ValidateWARCFile`; the digests of a record
stand for the chunks they were computed of. `Good` states what a valid record is
from the text of the file alone, without the reader: a boundary follows where the
length says (`Framed`), whatever the length was meant to be; and of a record that
is looked into (`IsLookedInto`) the version is known and the digests are those of
the chunks before that boundary (`Body`).

**Extract.** The main goroutine (`pc`), a task per record and the counting
goroutine (`counter`) are interleaved; `disk[p]` is the output directory.
`openers[p]` remembers which records opened a path for writing.

**Mend.** A file is a sequence of segments: whole records, an empty member, a
torn member, junk. `ResultAt` is what `analyzeWARCFile` concludes from where it
stopped and why; the actions after it are the questions and what mend does to
the file, each of which may fail. With `setting.readFails` the analysis itself may
fail, at each of its system calls: `isGzipFile` or `Stat` (`NoResult`, as for a
file that is skipped), `OpenWARCFile` (`ResultUnopened`), a read in the middle or a
temporary file (`ResultFailed`, `ResultUnread`). `agreed` remembers a yes of the
user, or of `--yes`, about the file.

## Runs: what each one checks and shows

| Run | Checks | Shows |
|---|---|---|
| `Rotator_pool` | `OneWriterPerFile`, `PairsStayTogether`, `WrittenOnce`, `WarcinfoOfOwnFile`, `AckedIsStored`, `ImplementsArchive`, `EveryBatchIsStored`, `CloseFinishesFiles` | two writers, three batches (two pairs and a single record; feedback buffered, unbuffered and none), an old `.open` file with the first name to be generated, crashes: safety, the implementation of `Archive`, and that no batch is forgotten, also when the channel closes on it |
| `Rotator_serials` | `TypeOK`, `NothingIsOverwritten` | the serial of one writer starts again at 1 next to old finished and unfinished files (two writers that choose names at the same time are in `Rotator_pool`) |
| `Capture_safety` | `NoPanic`, `SentIsPair`, `SentIsWhole`, `RecordedIsReceived`, `ContentsAreClosed`, `DroppedIsReported`, `ImplementsExchange` | a request of two chunks, four kinds of reply, all faults |
| `Capture_live` | `CaptureEnds`, `GoodExchangeIsStored` | a closed connection always ends the capture; good exchanges are stored |
| `Client_close` | `NoPanic`, `CloseMeansStored`, `RevisitsRefer`, `CloseEnds` | two writers and up to two requests: which sends on a closed channel there are, what is in the files when `Close` returns, that it returns |
| `Dial_race` | `NothingLeaks`, `ErrorMeansAllFailed`, `PrimaryHasHeadStart`, `DialEnds` | two hops, every order of racers and timer; with and without a channel for the connection: no dial waits for anybody but the receiver of that channel, no racer stays behind |
| `Resolve_lookups` | `UsedIsArchived`, `MissingMeansAllFailed`, `NobodyIsStuck` | two lookups, two servers; both types with one worker, one type with two, cancelled requests |
| `Verify_files` | `VerdictIsRight`, `OffsetsAreExact`, `NothingIsLeft` | every file of up to two records with every fault of fields, lengths and bytes, compressed and plain, on a disk that may fail |
| `Extract_files` | `FilesAreBodies`, `BodiesAreKept`, `ReportMissesOneAtMost` | records that share names and bodies, one and two goroutines, flags, an old file; deadlock |
| `Mend_files` | `CutIsAtFirstDamage`, `TruncatedIsWhole`, `ChangesAreConfirmed`, `RecordsSurvive` | all contents of up to three segments, all flags, a crawler that appends, files that cannot be opened or read, temporary files that fail |
| `Dial_redirect`, `Mend_skipped` | one property each, violated | the [disagreements](#disagreements-found) |

Some properties name exceptions, which are what the code does:

* `Capture`: a content is not closed when the context is cancelled between
  certain steps or an operation on it failed (`ContentsAreClosed`). A cancelled
  exchange is dropped without a report (`DroppedIsReported`). The order of a batch
  with a revisit is not fixed (`SentIsPair`): the code looks for the type
  *response* only.
* `Client`: `NoPanic` leaves three sends on closed channels, all of which
  `Client_close` reaches: a request that was given up may connect after `Close`
  and report to the closed `ErrChan`; a DNS worker that outlives its lookup may
  archive its answer on the closed `WARCWriter`; and over a redirect two captures
  have one feedback channel. `RevisitsRefer` excepts originals that were given up
  after their digest was published.
* `Verify`: reading ends at an empty member and at a file of less than six bytes,
  and of a gzip member only the first record is read (`VerdictIsRight`). Of a
  record that is skipped only the framing counts: a wrong length that ends in
  front of two line ends, as in any request, passes. In a file that is not
  compressed such a length, or a record that ends in its header, can make the
  reader lose the place of the records behind it without an error: these files
  are excepted (`KeepsTrack`). Where the version ends with LF alone the first field
  counts as a part of it: if that is the Content-Type, the record is skipped, and
  called valid; if it is WARC-Type, the version fails (`Seen`). A disk that fails
  can leave temporary files (`NothingIsLeft`).
* `Extract`: with several goroutines, or with `--allow-overwrite`, bodies of one
  name do mix: `FilesAreBodies` speaks of paths that one record has opened and
  that were not there. The report may lack the last result
  (`ReportMissesOneAtMost`): the counting goroutine may have it in its hand.
* `Mend`: `CutIsAtFirstDamage` is about a mend that nobody disturbs
  (`Undisturbed`): a record that a crawler completes between the analysis and the
  answer is cut off, and so is a record that cannot be read or whose temporary
  file fails, because mend takes that for damage. An empty member is damage to
  it as well, and valid records behind the first damage go with it.
  `RecordsSurvive` is about the records before the first damage; it leaves out
  files whose new name is taken, as mend replaces the file that has it, and a
  good file that could not be opened or read: that one looks empty, and a yes
  (which `--yes` gives by itself) deletes or cuts it. `ChangesAreConfirmed` allows
  the rename without a question and, for the same reason, the loss of a finished
  file of the new name. `TruncatedIsWhole` has no exception.

## Bounds

* `Rotator`: two writers are enough for every pairwise property; three batches
  of length 1 and 2 with files of two records make each writer rotate in the
  middle of its work and let the channel (capacity 1, as in the code) fill up.
  `MaxSerial` is 99999 in the code; six in the pool's runs (no wrap), two in
  `Rotator_serials` (wrap). `MaxClock` bounds the time stamps, `ChanCap` is the
  code's.
* `Capture`: a request of two chunks stops before, inside and after its body; a
  response is a header chunk and a body chunk. More chunks repeat the same step.
* `Client`: two requests share the table and compete for the channel; one with a
  redirect has the two captures that share a feedback channel; one that is given
  up, and its lookup, are the goroutines that outlive `Close`. `MCSettings`
  combines what can meet in a variable, not everything with everything. A lookup
  has one worker with one answer more than it needs, which is what may come late.
* `Dial`: two families are all there are; `Hops = 2` is one redirect.
* `Resolve`: two lookups can share, precede and follow one another; two servers
  make "the next server" and early termination in the middle happen. `setting`
  is either the default (one worker, both record types) or two workers and one
  type; the two together multiply states and meet in no variable but the
  channels, which both fill. The lookups are interchangeable (symmetry);
  `NobodyIsStuck` is an invariant, so that symmetry stays sound.
* `Verify`, `Extract`: a file has up to two records (three for `Extract`, with one
  name: the file, the suffixed file and the one that finds it taken). `BufSize` is
  2 and 4: a line end is split in the middle of some lines and not of others, as
  with the code's buffer. `MaxInMemory` lets some contents spill and others not.
* `Mend`: three segments hold a record before, at and after every kind of
  damage; `MaxLen` bounds what the crawler appends. `setting` takes every
  combination of flags and disturbances.

A dial and a lookup come to an end, and `Rotator_serials` uses up its names:
these runs have `CHECK_DEADLOCK FALSE`. Elsewhere deadlock is checked, and the
regular end of the system is an action `Terminated` or of that kind.

## Fairness

Goroutines that can run do: weak fairness for each writer, each goroutine of a
capture and each racer. Beyond that only what the code arranges for: the timer of
a race expires; a dial and a DNS exchange end by their timeouts; `ErrChan` is
read, which the README of gowarc requires of the program; the producer receives
on its feedback channel; the transport closes a connection whose exchange is over
(`DisableKeepAlives`, `transport.go:115`). Servers and programs need not do
anything: `CaptureEnds` starts from a closed connection, `GoodExchangeIsStored`
from an exchange that is over, `CloseEnds` from a call of `Close`. A crash stops
everything, and the liveness properties of `Rotator` allow for it.

Weak fairness is enough for the watcher of the local addresses as well. In each
round it polls its stop channel in a `select` with a `default`
(`random_local_ip.go:37-41`), lists the interfaces and sleeps; a `Close` that waits
at its send is found by the next poll, also if the listing failed (`List` has
fairness, that is, listing ends in one way or the other). That the interfaces can
ever be listed is not assumed: if they never can, the constructor waits for ever.

`Extract` and `Resolve` have no fairness: that nobody waits for ever is checked
there as the absence of deadlock and as `NobodyIsStuck`.

## Disagreements found

Each is a run in which TLC finds a behaviour of the code that contradicts what
the repository says; `PROJECT.json` has the quotations.

| Run | The code |
|---|---|
| `Dial_redirect` | a redirect sends a second connection on a channel that was closed: panic |
| `Mend_skipped` | a finished archive with records, skipped without `--force`, is taken for empty, and deleted on confirmation or `--yes`: against `SkippedFilesAreKept` |

The models show more of the kind, which the properties above exclude by a named
condition:

* A feedback channel is also released for an exchange that was not written: the
  capture closes it when it returns early. `README.md:114` and `dialer.go:54`
  say that records were written; `Exchange` has both outcomes.
* A client that joins another client's DNS query, the singleflight group being
  the process's, archives nothing (`dns.go:210`; `README.md:125`). `Resolve`
  takes any number of clients; its run has one.
* The three panics of `Client`, above.
* Two calls of `NewWARCRotator` with one directory and prefix have a serial each
  (`warc.go:82`, whose comment calls it global) and use the same file. The
  instances and the proofs have one rotator.
* A shared DNS query runs under the context of the lookup that came first
  (`dns.go:222`): cancelling that one fails the query of the others. In
  `Resolve` it is a *failure* like any other (`ExchangeContext`).
* A lookup that was cancelled leaves a cache entry with one type (`dns.go:78`).
* mend cuts off what a crawler, or a full disk, makes look damaged
  (`mend.go:184`, `mend.go:317`): `Undisturbed`.
* An empty member ends the reading like the end of the file (`read.go:260`), so
  that mend cuts off the valid records behind it (`mend.go:304`), although
  `mend/README.md:120` says that it "only truncates invalid data".
* A good file that could not be opened or read has the result of an empty one
  (`mend.go:226`, `:235`, `:277`, `:291`) and is offered for deletion.
* mend closes a file it found nothing to cut from without a question
  (`mend.go:195`), also one that is damaged in its first record, as the position
  to cut at is then 0. `mend/README.md:110` and `:117` promise prompts, and the
  example at `:67` shows one.
* Renaming replaces a finished file of that name (`mend.go:197`), unasked too.
* extract opens a file that is there without cutting it to nothing
  (`extract.go:253`), so that the end of a longer old body stays in it.

## Proofs

| Module | Theorem | Property |
|---|---|---|
| `RotatorProofs` | `TypeCorrect` | `TypeOK` |
| | `OneWriterPerFileHolds` | `OneWriterPerFile` |
| | `WarcinfoOfOwnFileHolds` | `WarcinfoOfOwnFile` |
| | `AckedIsStoredHolds` | `AckedIsStored` |
| | `NothingIsOverwrittenHolds` | `NothingIsOverwritten` |
| | `PairsStayTogetherHolds` | `PairsStayTogether` |
| | `WrittenOnceHolds` | `WrittenOnce` |
| | `ImplementsArchiveHolds` | `ImplementsArchive` |
| `CaptureProofs` | `CaptureInvariant` | `IInv` of `CaptureInv` |
| | `CaptureNoPanic` | `NoPanic` |
| | `SentIsPairHolds`, `SentIsWholeHolds` | `SentIsPair`, `SentIsWhole` |
| | `RecordedIsReceivedHolds` | `RecordedIsReceived` |
| | `ContentsAreClosedHolds` | `ContentsAreClosed` |
| | `DroppedIsReportedHolds` | `DroppedIsReported` |
| | `ImplementsExchangeHolds` | `ImplementsExchange` |
| `DialProofs` | `NothingLeaksHolds` | `NothingLeaks` |
| | `ErrorMeansAllFailedHolds` | `ErrorMeansAllFailed` |
| | `PrimaryHasHeadStartHolds` | `PrimaryHasHeadStart` |
| `ClientProofs` | `ClientInvariant` | `Inv` of `ClientInv`, with `TypeOK` |
| | `NoPanicHolds` | `NoPanic` |
| | `CloseMeansStoredHolds` | `CloseMeansStored` |
| | `RevisitsReferHolds` | `RevisitsRefer` |
| `ResolveProofs` | `UsedIsArchivedHolds` | `UsedIsArchived` |
| | `UsedIsSomewhere` | the same for several clients: archived by one of them |
| | `MissingMeansAllFailedHolds` | `MissingMeansAllFailed` |
| | `SomebodyCanGoOnHolds` | `SomebodyCanGoOn`: `NobodyIsStuck` without `ENABLED` |
| `VerifyProofs` | `NothingIsLeftHolds` | `NothingIsLeft` |
| | `OffsetsAreExactHolds` | `OffsetsAreExact` |
| | `VerdictIsRightHolds` | `VerdictIsRight`, given `FilesAssumption` |
| `ExtractProofs` | `ReportMissesOneAtMostHolds` | `ReportMissesOneAtMost` |
| | `OpenedOnceHolds` | `OpenedOnce`, the first part of `FilesAreBodies` |
| | `FilesAreBodiesHolds` | `FilesAreBodies`, given `RoomLeft` |
| | `BodiesAreKeptHolds` | `BodiesAreKept`, given `RoomLeft` |
| | `RoomIsLeft` | `RoomLeft`, when there is no end of contents and buffers |
| | `UntilDelimIsFirstEnd` | what `readUntilDelim` returns, for every text and buffer |
| `MendProofs` | `CutIsAtFirstDamageHolds` | `CutIsAtFirstDamage` |
| | `TruncatedIsWholeHolds` | `TruncatedIsWhole` |
| | `ChangesAreConfirmedHolds` | `ChangesAreConfirmed` |
| | `RecordsSurviveHolds` | `RecordsSurvive` |

Where nothing else is said a theorem has no hypothesis but the named assumptions
on the constants, which only give them their types, and holds for any number of
goroutines, files, records and servers, and for all settings.

**The writer pool.** *Assumptions.* The named assumptions of `Rotator`
(`RotatorAssumption`, `DirectoryAssumption`), and one rotator:
`Rotators = {r0}`. Without the last `OneWriterPerFile` is false. The model itself
has one assumption about time, the guard `RoundsAreSlow` of `GenerateName`: the
serial does not come round to a value it already gave out under the same time
stamp, that is, 99999 files are not started in one millisecond. Any number of
writers, batches, sizes and files left behind.

*Argument.* None of the properties is inductive. `IInv` has two parts.
`NameInv`: a writer past the receive has a batch and has not begun it in another
file (`BatchInHand`); the names given out under the current stamp are counted by
the serial, and all others are older (`NamesAreRecent`); the name a writer holds
belongs to nobody else, and its `.open` file is there from create to rename
(`NamesAreOwned`). It is inductive without any knowledge of contents.
`ContentInv` builds on it: the file of a writer begins with the warcinfo record
the writer remembers and ends with what has been written of its batch
(`OwnFiles`), so that when the last record is flushed the batch is whole, and it
stays so because files only grow and names are owned (`SentIsStored`). The
proofs go action by action. The overwriting theorem is an action property from
the same invariant.

`PairsInv` adds the order. Within a file the records of a batch follow one
another, and only the last batch of a file that a writer has in hand may be short
(`OrderInv`): this needs the owned names, because whoever else wrote to the file
would come between. A batch is in one of these places, and there once: not yet
sent, in the channel, with one writer, on the disk (`OnceInv`). So the record that
a writer is about to write is nowhere yet.

*Refinement.* The last part of `RotatorProofs` adds to `IInv` that what is in the channel or in
the hands of a writer was sent (`InHandWasSent`), and shows of each step what it
is to `Archive`: `Submit` accepts; the `Flush` of the last record of a batch
stores it, and only that one (`AppendCompletes`: a record completes no batch but
its own); a producer that receives is acknowledged, and its batch is stored by
`SentIsStored`; a renamed file is the file it was; everything else is a stutter.

**Capture.** For a request of any length and any reply. `IInv` says for each of the
three goroutines what it has seen to when it is at a place: a reader that parses
has met a regular end of its pipe (`RequestInv`, `ResponseInv`), and that only the
transport or a reader at its end gives (`PipeInv`); the coordinator completes a
batch only if both succeeded (`CoordinatorInv`); the channel of the records holds
what the readers put in and the coordinator has not taken, in either order
(`RecordsInv`); who has forgotten a content (`ContentsInv`), and what the program
has heard (`ReportInv`). A reader past its copying holds no chunk that it has not
stored, unless it failed: a failed write ends it. That a batch is whole rests on all of them together: the
end of a pipe is regular, so the transport had sent or received everything.

**Dialing.** For any number of hops and any channel. The invariant of
`DialProofs` says which connections may be open at each place of the dialing
goroutine (`OpenInv`), where the racers and the timer can be (`RaceInv`), and that
an error in hand means as many failures as there were addresses (`ErrorInv`).

**The client.** For any number of requests and writers and any settings
(`ClientAssumption`: there is a writer). The parts of `ClientInv`: at `Close` the
requests have returned, and nobody makes another (`GoneInv`); which channels are
closed at each place of `Close`, and how far writers and watcher are
(`PhaseInv`); past the `WaitGroup` only captures of abandoned requests are left,
which have nothing to hand over (`GroupInv`); a capture is started once
(`HopInv`); a batch is in the channel or in the hand of one writer, not in two
places, and only once it was sent (`BatchInv`); without a redirect the one who
answers a feedback channel is the last to know of it (`FeedbackInv`); and what a
revisit refers to is on its way to the files or in them (`TableInv`). `NoPanic` is
part of the induction, the other two follow from the invariant where `pc` is
*closed*: the writers have ended, so the channel is empty and no batch is in
flight. For each goroutine one lemma says what a step of it changes
(`RequestStep`, `CaptureStep`, `WriterStep`, and the frames), so that the proof
for a part of the invariant does not look into the actions.

**Lookups.** An address on its way (asked for, in the channel of results, found,
cached) is of an archived response (`SourcesInv`). Whose archive that is depends on
who led the shared query: `UsedIsArchivedHolds` has the hypothesis
`Clients = {c}`, and is false without it; `UsedIsSomewhere` is what is left. No
query of a lookup is lost: its server waits in the queue, a worker is at it, its
result is in the channel or was taken (`NoneIsLost`), and in one of these places
only (`AsksOnce`), so that the channels never fill and a worker never waits for
room. Whoever follows a query follows a worker that asks (`LeadersInv`), hence
`SomebodyCanGoOn`.

**verify.** `NothingIsLeft` needs nothing of what is in the file: at each place
of `ReadRecord` and of its caller there is one content with a buffer or a file,
or none (`HeldInv`), through all errors. `OffsetInv` ties the position to the
number of the member, `Start[k]` being the sum of the sizes before it.

`VerdictIsRightHolds` follows the reader through the text of every record, in
both formats and with every damage, for any number of records and any `BufSize`.
`VerdictInv` says that the file has been found to be bad, and is (`Lost`), or that
so far all is well: then the reader is at a place it should be at (`OnTrack`). Those
places are told from the file alone: `LinesOf(r)` is what is in the lines of a
header, `Origin` and `HeaderEnd` where they are, `Begin` and `Places` where a
record starts in a stream; all records before have been good (`Past`); so many
fields are in the header (`HeaderAt`), so many chunks in the content (`InBody`); and
what verify has judged of the record in hand is right (`IsReturned`). A buffer that
comes back from the pool is empty (`PoolIsEmpty`), or the body of one record would
begin with another one. The argument, in the order of the module:

* The text of a record has three symbols for each line (`RenderIs`), each damage
  leaves known places of it (`OneTextIs`), and so a record *stands* at its place in
  the member or in the stream (`InMember`, `InStream`, `Stands`).
* There `readUntilDelim` finds these lines and no others (`VersionLine`,
  `FieldOnLine`, `EmptyLine`, `BoundaryLine`), and the header fills up
  (`HeaderGrows`, `HeaderFull`). A record that is framed well has its boundary
  where the length says (`GoodThere`); where the reader finds a boundary the record
  is framed, or it leads astray (`Accepted`).
* One lemma for each step of the reader (`StartTracks` … `RestTracks`,
  `ReaderTracks`) and of verify (`GotTracks` … `EndTracks`); a verdict that is bad
  stays bad (`StaysLost`).

Hypotheses (`FilesAssumption` of `VerifyInv`, which TLC evaluates for the files of
`Verify_files`): a record is one that `WriteRecord` may have written, with a type,
which it always sets (`write.go:75`), and with any version, content, length and
digests, right, wrong or missing, its fields in any order; then it was damaged in
one of the ways of `Reader`, in a stream in one that a stream can have. Nothing is
assumed about lengths. What a stream cannot tell is in the property: `LeadsAstray`
names the records at which the reader loses its place without an error, from the
file alone, and `KeepsTrack` excepts the files with one. TLC agrees with `VerdictInv` on the files of
`Verify_files`.

**extract.** Results sent are results counted and at most one in hand
(`CountInv`). With one goroutine the tasks take turns, and nobody creates a file
between the check of another one and its own `os.OpenFile` (`TurnInv`): that is
`OpenedOnce`. That a file holds the right body needs everything from the text of
the WARC file on (`BodyInv`), for any number of goroutines:

* The reader goes from line to line (`LinesAreFound`): a text begins like a
  header, `IsWritten` says what its lines are, and the first empty line is where
  the content begins. It copies as much as the length field says, which is the
  length of the content (`ContentIsRead`), or it fails, wherever the text was cut.
* No two contents share a buffer, and none has one of the pool (`BuffersApart`);
  a content is the reader's until its task begins (`ReaderAlone`). So what one
  goroutine does to its content does not disturb another one
  (`TasksHaveContents`).
* What a task has written to a file that it alone has opened is the beginning of
  its body (`OpenersAreKnown`, `BodiesAreWritten`).

`KeptInv` is what `BodiesAreKept` needs besides, where one task works at a time on
a disk that does: the path of a task is one of its two names (`PathsAreOwn`), a
file with a hash in its name holds that body (`SuffixesAreTrue`), a file that is
opened again holds the same body already (`CopyIsSafe`), and so a result once
given stays true (`ResultsAreKept`).

Hypotheses: `FilesAssumption` (`extract` has a file at least, `extract.go:31`; a file
that is read is gzip, with a member for each record and in each member a written
record with any of the damages of `Reader`: the theorems say nothing of
other formats), and `RoomLeft`, that there is a
content and a buffer for the next record. A process makes them as it needs them:
`RoomIsLeft` proves it of infinite `Contents` and `Buffers`, and in the instance
that TLC checks there are as many as records.

That `readUntilDelim` finds the first line end, however the buffer cuts the text,
is a lemma on the recursive function `Scan`. The library's induction takes an
operator as its parameter, which no prover here can instantiate; these lemmas
use sets of numbers instead (`Induction`, `LeastNumber`), from the fact that `<`
is well-founded on them.

**mend.** What the analysis concluded is still true when mend acts on it: what
stands before the cut is valid, whatever a crawler has added behind (`CutIsValid`),
and if nobody interferes the cut is at the first damage (`ResultIsTrue`). The four
theorems are action properties: for each action that changes the disk, one lemma
says how. `MendAssumption` asks that with a `.gz` path its name without `.open` is a
path too: the model has room for the file that mend renames.

*Model-checked only.* Liveness, which needs fairness and `ENABLED`;
`NobodyIsStuck`, for the same reason (`SomebodyCanGoOn` is its theorem). Every
other invariant and action property that a run checks is a theorem.

## What is not modelled

Bytes: the layout of headers, chunking, compression and dictionaries, digests,
the digits of file names. In `extract`, `--host-sort` (a directory per host, which is a
part of the path), the refusal of a name outside the output directory and errors of
`MkdirAll` (a record that is given up before its file is opened, which `Extract`
has for other reasons). TLS presets and flag parsing. Decompression in the
transport. What a CDX or Doppelganger server says is an outcome in `Capture`.
The defaults of the client's settings. Which local address a dial takes
(`GetNextIP`), and the globals that two clients share there. How the memory
limits of a cgroup are read: what they say is a choice of each write in `Spool`.
`ReadOptsNoContentOutput`, Zstandard dictionaries and two readers in one process
(`Reader`). In `Resolve` the wrap of the 32-bit round-robin index and hosts that
are addresses.

## Plan

Order by what matters most to the system.

Done: 1. `Archive`, `Rotator`, with the refinement. 2. `Exchange`, `Capture`, with
the refinement. 3. `Mend`. 4. `Dial`. 5. `Resolve`. 6. `Client`. 7. `Spool`,
`Reader`, `Verify`. 8. `Extract`. Each with its proofs.

Left:

* `LocalIP`: the index per family that all dials share, and its watcher.
* Two readers in one process, for the buffer of a line that is returned early.
