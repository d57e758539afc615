----------------------------- MODULE ExtractInv -----------------------------
(***************************************************************************)
(* The inductive invariants behind the properties of Extract: what the     *)
(* counting goroutine has been given, how the tasks take turns, what the   *)
(* reader has found in a file, and what is in the output directory.  They  *)
(* are proved in ExtractProofs.                                            *)
(***************************************************************************)
EXTENDS Extract

\* A result is handed over when the one before has been entered; so of the
\* results sent for a file all are counted but the last.
Handover ==
    /\ counter \in [pending : {0, 1}, count : Nat]
    /\ sent = counter.count + counter.pending

CountInv == Handover /\ ReportMissesOneAtMost

\* processRecord is on its way, until swg.Done.
Working(c) == task[c].pc \in {"response", "stat", "compare", "stat2", "create", "copy", "send", "done"}

\* With one thread the tasks take turns.
OneWorks ==
    OneAtATime =>
        /\ running \in {0, 1}
        /\ \A c \in Contents : Working(c) => running = 1
        /\ \A c, d \in Contents : Working(c) /\ Working(d) => c = d

\* What writeFile has found free is still free when it creates the file.
PathIsFree ==
    OneAtATime /\ ~setting.overwrite =>
        \A c \in Contents : task[c].pc = "create" => task[c].path \notin DOMAIN disk

TurnInv ==
    /\ OneWorks /\ PathIsFree
    /\ DOMAIN setting.old \cup DOMAIN openers \subseteq DOMAIN disk
    /\ OpenedOnce
-----------------------------------------------------------------------------
(***************************************************************************)
(* What is in the files, and what the reader has found there.              *)
(***************************************************************************)

\* A record as it is written: its length is that of its content, and its
\* fields are what they are called.  Anything may have happened to it since.
IsWritten(r) ==
    /\ r.version \notin {"CR", "LF"}
    /\ r.length = Length(Len(r.content))
    /\ r.content \in Seq({r.content[i] : i \in DOMAIN r.content})
    /\ r.block = Missing \/ r.block.sym = "block"
    /\ r.first \in FieldNames
    /\ r.type = Missing \/ r.type.sym = "type"
    /\ r.ctype = Missing \/ r.ctype.sym = "ctype"
    /\ r.payload = Missing \/ r.payload.sym = "payload"
    /\ r.uri = Missing \/ r.uri.sym = "uri"

\* A file with a member for each record; or one that is not read.
WrittenFile(f) ==
    \/ f.format \in {"missing", "short"}
    \/ /\ f.format = "gzip"
       /\ f.records \in Seq({f.records[k] : k \in DOMAIN f.records})
       /\ f.members = [k \in DOMAIN f.records |-> MemberOf(f.records[k])]
       /\ \A k \in DOMAIN f.records : IsWritten(f.records[k])

\* extract is called with at least one file (extract.go:31).
ASSUME FilesAssumption ==
    \A s \in Settings : /\ s.files \in Seq({s.files[i] : i \in DOMAIN s.files}) /\ s.files # <<>>
                        /\ \A i \in DOMAIN s.files : WrittenFile(s.files[i])

OurFile(f) == \E i \in DOMAIN setting.files : f = setting.files[i]

FilesAreOurs ==
    /\ setting \in Settings /\ OurFile(file)
    /\ todo \in Seq({setting.files[i] : i \in DOMAIN setting.files})
    /\ pc = "read" => file.format # "missing"

\* The constants have a content and a buffer for each record: a process makes
\* as many as it needs.
RoomLeft ==
    rd.pc = "header" => /\ \E c \in Contents : spool[c].stage = "unused"
                        /\ \E b \in Buffers : pool[b] > 0

(* The header of a text ends at h, if the text is that long; the first empty line
   is at its end, and what comes after it begins like the content. *)
BeginsWith(t, h, content) ==
    /\ h \in 4..(Len(t) + 1)
    /\ t[h - 3] = CR /\ t[h - 2] = LF /\ t[h - 1] = CR
    /\ h \in DOMAIN t => t[h] = LF
    /\ \A i \in 1..(h - 3) : ~(t[i] = LF /\ t[i + 1] = CR)
    /\ \A i \in 2..(h - 1) : t[i].sym = "length" => t[i] = Length(Len(content))
    /\ \A i \in DOMAIN content : h + i \in DOMAIN t => t[h + i].sym = content[i]

\* at is where a line of the header begins.
InHeader(t, content, at) ==
    \E h \in 4..(Len(t) + 1) : BeginsWith(t, h, content) /\ at \in 1..(h - 2) /\ t[at] = LF

\* at is in the content, of which there is so much before it and behind it.
InBody(t, content, read, left, at) ==
    \E n \in 0..Len(content), h \in 4..Len(t) :
        /\ BeginsWith(t, h, content) /\ read = SubSeq(content, 1, n)
        /\ left = Len(content) - n /\ at = h + n /\ at <= Len(t)

Content == file.records[rd.member].content

InContent == {"content", "boundary", "drain", "got", "close"}

\* The header that was read so far has no other length than that of the content.
LengthIsTrue(header) ==
    header["length"].sym = "length" => header["length"] = Length(Len(Content))

\* The reader goes from line to line.
LinesAreFound ==
    pc = "read" =>
        /\ rd.member \in Nat
        /\ rd.pc \in {"version", "header", "content", "boundary", "drain", "got"} =>
               IsGzip /\ rd.member \in DOMAIN file.members
        /\ rd.pc \in {"version", "header"} => LengthIsTrue(rd.record.header)
        /\ rd.pc = "version" => rd.at = 0
        /\ rd.pc = "header" => InHeader(Text, Content, rd.at)

\* What it has copied is the content as far as it has come.
ContentIsRead ==
    pc = "read" =>
        /\ rd.pc = "content" => InBody(Text, Content, Stored(rd.record.content), rd.left, rd.at)
        /\ rd.pc \in {"boundary", "drain", "got"} => Stored(rd.record.content) = Content
-----------------------------------------------------------------------------
(***************************************************************************)
(* What is in the spooled contents.                                        *)
(***************************************************************************)

\* No two contents have one buffer, and none has one that is in the pool, where
\* they are empty.
BuffersApart ==
    /\ \A b \in Buffers : pool[b] \in {0, 1} /\ (pool[b] = 1 => bytes[b] = <<>>)
    /\ \A c \in Contents : spool[c].buf \in Buffers =>
           /\ pool[spool[c].buf] = 0
           /\ \A d \in Contents \ {c} : spool[d].buf # spool[c].buf

\* A content is the reader's before it is a task's, and is never used again.
ReaderAlone ==
    /\ rd.pc \in InContent =>
           /\ rd.record.content \in Contents /\ task[rd.record.content].pc = "none"
           /\ spool[rd.record.content].stage = "writing"
           /\ rd.pc # "close" => HasStore(rd.record.content)
    /\ \A c \in Contents : spool[c].stage = "unused" => task[c].pc = "none"

AtWork(c) == task[c].pc \in {"response", "stat", "compare", "stat2", "create", "copy", "send", "done", "close"}

\* A task has the content of its record, and knows how far it has written it.
HasItsContent(c) ==
    /\ AtWork(c) => /\ HasStore(c) /\ spool[c].stage \in {"writing", "reading"}
                    /\ task[c].body = BodyOf(Stored(c))
    /\ task[c].pc \in {"none", "response", "stat", "compare", "stat2", "create"} => task[c].at = 0
    /\ task[c].pc \in {"stat", "compare", "stat2", "create"} => Position(c) = 1 /\ Stored(c) # <<>>
    /\ task[c].pc = "copy" => /\ Stored(c) # <<>> /\ spool[c].stage = "reading"
                              /\ spool[c].at = task[c].at + 1 /\ task[c].at \in 0..Len(task[c].body)
    /\ task[c].result \in {"none", "written", "skipped"}
    /\ task[c].result # "none" => task[c].pc \in {"send", "done", "close", "ended"}

TasksHaveContents == \A c \in Contents : HasItsContent(c)
-----------------------------------------------------------------------------
(***************************************************************************)
(* What is in the output directory.                                        *)
(***************************************************************************)

OpenersAreKnown ==
    /\ DOMAIN disk = DOMAIN setting.old \cup DOMAIN openers
    /\ \A p \in DOMAIN openers : openers[p] # {}
    /\ \A p \in DOMAIN openers : \A c \in openers[p] :
           /\ c \in Contents /\ task[c].path = p
           /\ task[c].pc \in {"copy", "send", "done", "close", "ended"}
    /\ \A c \in Contents : task[c].pc = "copy" \/ task[c].result = "written" =>
           task[c].path \in DOMAIN openers /\ c \in openers[task[c].path]

\* A file that one task alone has opened holds as much of the body as the task
\* has written.
BodiesAreWritten ==
    \A c \in Contents : LET p == task[c].path IN
        p \in DOMAIN openers /\ openers[p] = {c} /\ p \notin DOMAIN setting.old =>
            /\ task[c].pc = "copy" => disk[p] = SubSeq(task[c].body, 1, task[c].at)
            /\ task[c].result = "written" => disk[p] = task[c].body

BodyInv == /\ FilesAreOurs /\ LinesAreFound /\ ContentIsRead
           /\ BuffersApart /\ ReaderAlone /\ TasksHaveContents
           /\ OpenersAreKnown /\ BodiesAreWritten

\* One thread, --hash-suffix, and a disk that works.
Calm == OneAtATime /\ setting.hashSuffix /\ \A i \in DOMAIN setting.files : ~setting.files[i].diskFails

Plain(c)    == PathOf(NameOf(c), <<>>)
Suffixed(c) == PathOf(NameOf(c), <<task[c].body>>)
Excused(c)  == Suffixed(c) \in DOMAIN setting.old

\* Which path a task has, and whether there is a file.
PathsAreOwn ==
    \A c \in Contents : LET p == task[c].path IN
        /\ task[c].pc = "compare" => p = Plain(c) /\ p \in DOMAIN disk
        /\ task[c].pc = "stat2" => p = Suffixed(c) /\ ~IsBadGzip(c)
        /\ task[c].pc = "create" => \/ p = Plain(c) /\ p \notin DOMAIN disk
                                    \/ p = Suffixed(c) /\ ~IsBadGzip(c)
        /\ task[c].pc = "copy" => \/ p = Plain(c) /\ p \notin DOMAIN setting.old
                                  \/ p = Suffixed(c)
        /\ task[c].result # "none" => p \in {Plain(c), Suffixed(c)}

\* The body of a record with a result is in the file of its path.
ResultsAreKept ==
    \A c \in Contents : task[c].result # "none" /\ ~Excused(c) =>
        task[c].path \in DOMAIN disk /\ disk[task[c].path] = task[c].body

\* A file that is being written is new, or its body is there already.
CopyIsSafe ==
    \A c \in Contents : LET p == task[c].path IN
        task[c].pc = "copy" /\ p \notin DOMAIN setting.old =>
            \/ disk[p] = task[c].body
            \/ /\ disk[p] = SubSeq(task[c].body, 1, task[c].at)
               /\ \A d \in Contents : task[d].result # "none" /\ ~Excused(d) => task[d].path # p

\* A file with a digest in its name holds that body, unless it is being written.
SuffixesAreTrue ==
    \A q \in DOMAIN disk \ DOMAIN setting.old :
        q[2] # <<>> => \/ disk[q] = q[2][1]
                       \/ \E c \in Contents : task[c].pc = "copy" /\ task[c].path = q

KeptInv == Calm => PathsAreOwn /\ ResultsAreKept /\ CopyIsSafe /\ SuffixesAreTrue
=============================================================================
