------------------------------ MODULE Verify ------------------------------
(***************************************************************************)
(* warc verify (cmd/warc/verify): ValidateWARCFile on one file.  Each      *)
(* record of a response is held against its digests and its version.       *)
(***************************************************************************)
EXTENDS Reader

CONSTANT Files    \* the files there may be

VARIABLES
    pc,      \* open, read, block, payload, version, close, done
    result,  \* ValidationResult
    offsets  \* the offset and size of each record that was returned

vars == <<readerVars, pc, result, offsets>>

TypeOK ==
    /\ file.format \in {"gzip", "other", "short"}
    /\ pc \in {"open", "read", "block", "payload", "version", "close", "done", "error"}
    /\ result \in [Valid : BOOLEAN, RecordCount : Nat, ErrorsCount : Nat, AllRecordsRead : BOOLEAN]
    /\ SpoolTypeOK(STRING)

Init ==
    /\ file \in Files /\ rd = NewReader /\ SpoolInit
    /\ pc = "open" /\ offsets = <<>>
    /\ result = [Valid |-> FALSE, RecordCount |-> 0, ErrorsCount |-> 0, AllRecordsRead |-> FALSE]

OpenWARCFile ==
    /\ pc = "open"
    /\ \/ pc' = "read" /\ result' = [result EXCEPT !.Valid = TRUE]
       \/ file.diskFails /\ pc' = "error" /\ UNCHANGED result
    /\ UNCHANGED <<readerVars, offsets>>

Read == pc = "read" /\ ReadRecord /\ UNCHANGED <<pc, result, offsets>>

Got ==
    /\ pc = "read" /\ rd.pc = "got"
    /\ result' = [result EXCEPT !.RecordCount = @ + 1]
    /\ offsets' = Append(offsets, [offset |-> rd.record.offset, size |-> rd.record.size])
    /\ pc' = IF ShouldSkipRecord(rd.record) THEN "close" ELSE "block"
    /\ UNCHANGED readerVars

End ==
    /\ pc = "read" /\ rd.pc \in {"eof", "failed"}
    /\ result' = IF rd.pc = "eof" THEN [result EXCEPT !.AllRecordsRead = TRUE]
                 ELSE [result EXCEPT !.Valid = FALSE, !.ErrorsCount = @ + 1]
    /\ pc' = "done"
    /\ UNCHANGED <<readerVars, offsets>>

\* A check of the record in hand has come out.
Judge(ok, next) ==
    /\ result' = IF ok THEN result ELSE [result EXCEPT !.Valid = FALSE, !.ErrorsCount = @ + 1]
    /\ pc' = next
    /\ UNCHANGED <<file, rd, offsets>>

Content == rd.record.content
Field(f) == rd.record.header[f]

\* verifyBlockDigest and verifyDigest, which puts the content back to its start.
BlockDigest ==
    /\ pc = "block"
    /\ IF Field("block") = Missing
       THEN Judge(FALSE, "payload") /\ UNCHANGED spoolVars
       ELSE /\ \/ Judge(Rest(Content) = Field("block").seq, "payload")
               \/ file.diskFails /\ Judge(FALSE, "payload")
            /\ ReadTo(Content, 0)

\* http.ReadResponse: the head says that the body is all there is ("head"), or
\* one chunk ("head1"), or that the encodings were stripped ("stripped").
Heads == {"head", "head1", "stripped"}

PayloadOf(data) == IF data[1] = "head1" THEN SubSeq(data, 2, 2) ELSE Tail(data)

PayloadMatches(data) ==
    /\ data # <<>> /\ data[1] \in Heads \ {"stripped"}
    /\ Field("payload").sym = "payload"
    /\ data[1] = "head1" => Len(data) > 1       \* the body ends early
    /\ PayloadOf(data) = Field("payload").seq

\* verifyPayloadDigest: the field is optional.
PayloadDigest ==
    /\ pc = "payload"
    /\ IF Field("payload") = Missing
       THEN Judge(TRUE, "version") /\ UNCHANGED spoolVars
       ELSE /\ \/ Judge(PayloadMatches(Stored(Content)), "version")
               \/ file.diskFails /\ Judge(FALSE, "version")
            /\ ReadTo(Content, 0)

Versions == {"WARC/1.0", "WARC/1.1"}

VersionOK(line) == Len(line) = 1 /\ line[1].sym \in Versions

verifyWARCVersion ==
    /\ pc = "version" /\ Judge(VersionOK(rd.record.version), "close")
    /\ UNCHANGED spoolVars

\* record.Content.Close(), whose error is ignored.
CloseContent ==
    /\ pc = "close"
    /\ Close(Content) \/ (file.diskFails /\ RemoveFails(Content))
    /\ pc' = "read" /\ rd' = [rd EXCEPT !.pc = "idle"]
    /\ UNCHANGED <<file, result, offsets>>

Terminated == pc \in {"done", "error"} /\ UNCHANGED vars

Next == \/ OpenWARCFile \/ Read \/ Got \/ End \/ BlockDigest \/ PayloadDigest
        \/ verifyWARCVersion \/ CloseContent \/ Terminated

Spec == Init /\ [][Next]_vars
-----------------------------------------------------------------------------
(***************************************************************************)
(* What a record is, and where it stands in the text of a file, told from  *)
(* what was written and not from what the reader does.                     *)
(***************************************************************************)
TextOf(r) == MemberOf(r).text

WithField(lines, field) == IF field = Missing THEN lines ELSE Append(lines, field)

\* What is in the lines of the header, the one of the version first.
LinesOf(r) == WithField(WithField(WithField(WithField(WithField(WithField(
    <<Sym(r.version), r[r.first]>>, Other(r, "block")), Other(r, "type")), Other(r, "ctype")),
    Other(r, "length")), Other(r, "payload")), Other(r, "uri"))

\* The line after i of them begins after Origin(r, p) + 3 * i, if the record begins
\* after p: each has three symbols, but the first one if its CR is missing.
Origin(r, p) == IF r.damage = "bare" THEN p - 1 ELSE p

HeaderEnd(r, p) == Origin(r, p) + 3 * Len(LinesOf(r)) + 2

\* Where the version ends with LF alone, the first field is on its line, and
\* nobody sees it.
Seen(r, f) == IF r.damage = "bare" /\ f = r.first THEN Missing ELSE r[f]

\* The length may be announced as less than nothing when there is nothing.
Announced(r) == IF r.length.num < 0 THEN 0 ELSE r.length.num

IsBoundary(t, at) ==
    /\ at + 4 <= Len(t)
    /\ t[at + 1] = CR /\ t[at + 2] = LF /\ t[at + 3] = CR /\ t[at + 4] = LF

Chunks(t, at, n) == [i \in 1..n |-> t[at + i].sym]

\* Where the text of each record begins, in a file that is one stream.
Begin(f) == LET B[k \in Nat] == IF k <= 1 THEN 0 ELSE B[k - 1] + Len(TextOf(f.records[k - 1])) IN B

\* The places of the record k, twice if it is there twice.
Places(f, k) ==
    IF f.format = "gzip" THEN {0}
    ELSE {Begin(f)[k]} \cup IF f.records[k].damage = "double"
                            THEN {Begin(f)[k] + Len(Render(f.records[k]))} ELSE {}

StreamOf(f) == f.members[1].text

\* A record is well framed when a boundary follows where its length says, which
\* need not be all of what was written as its content.
Framed(r) ==
    /\ r.damage \in {"none", "bare", "short", "double"}
    /\ Seen(r, "length") # Missing
    /\ IsBoundary(TextOf(r), HeaderEnd(r, 0) + Announced(r))

Body(r) == Chunks(TextOf(r), HeaderEnd(r, 0), Announced(r))

IsLookedInto(r) == Seen(r, "type").seq # <<"revisit">> /\ Seen(r, "ctype").seq = <<"response">>

Payload(body) == IF body[1] = "head1" THEN SubSeq(body, 2, 2) ELSE Tail(body)

Good(r) ==
    /\ Framed(r)
    /\ IsLookedInto(r) =>
          /\ r.version \in Versions /\ r.damage # "bare"
          /\ r.block = Digest("block", Body(r))
          /\ r.payload # Missing =>
                /\ Len(Body(r)) > 0 /\ Body(r)[1] \in {"head", "head1"}
                /\ Body(r)[1] = "head1" => Len(Body(r)) > 1
                /\ r.payload = Digest("payload", Payload(Body(r)))

\* Reading ends, without an error, at a member with nothing in it, and with the
\* file when it has fewer than six bytes.
Reached == IF file.format = "short" THEN {}
           ELSE {k \in DOMAIN file.records : \A j \in 1..k : file.records[j].damage # "empty"}

\* In a file that is one stream the reader may lose the place of the records and
\* not notice: at one that ends in its header, which goes on with the next one,
\* and at one with a wrong length that ends before a boundary, unless the digest
\* of its block tells.
LeadsAstray(k) ==
    LET r == file.records[k] IN
    \/ r.damage = "torn" /\ r.content = <<>> /\ k < Len(file.records)
    \/ \E p \in Places(file, k) :
          LET h == HeaderEnd(r, p)  n == Announced(r) IN
          /\ Seen(r, "length") # Missing /\ n # Len(r.content)
          /\ IsBoundary(StreamOf(file), h + n)
          /\ IsLookedInto(r) => r.block = Digest("block", Chunks(StreamOf(file), h, n))

KeepsTrack == file.format = "other" => \A k \in DOMAIN file.records : ~LeadsAstray(k)

(* verify.go:70: a file is called valid exactly if every record in it is well
   framed and, when it is of a response, has a known version and holds what its
   digests say, whatever the lengths, the line ends and the damage in it do to the
   reader; and a disk that fails can only make a valid file look bad.  Of other
   records neither the version nor the digests are looked at, so that a length
   that is wrong but ends before a boundary passes.  In a file that is not
   compressed such a length can hide the records behind it: that is excepted by
   KeepsTrack.  The code takes two things for the end of the file, an empty member
   and a file of less than six bytes, and of a gzip member it sees the first
   record only. *)
VerdictIsRight ==
    pc = "done" /\ KeepsTrack =>
        LET good == \A k \in Reached : Good(file.records[k])
        IN  /\ result.Valid => good /\ result.AllRecordsRead /\ result.ErrorsCount = 0
            /\ good /\ ~file.diskFails => result.Valid

Start[k \in Nat] == IF k <= 1 THEN 0 ELSE Start[k - 1] + Size(k - 1)

(* write.go:52, "Offset of the record start (-1 if WARC file type is not
   supported yet)": with gzip, offset and size are the place of the record's
   member in the file, so that it can be read again from there, also after a
   member that holds more than its record; otherwise both are -1. *)
OffsetsAreExact ==
    \A k \in DOMAIN offsets :
        offsets[k] = IF IsGzip THEN [offset |-> Start[k], size |-> Size(k)]
                     ELSE [offset |-> -1, size |-> -1]

(* When the file is done no temporary file of it is left on disk and every
   buffer is back in the pool, once: also for the records that were skipped, were
   bad, or ended in the middle.  A disk that fails may leave files behind. *)
NothingIsLeft ==
    pc = "done" => /\ pool = [b \in Buffers |-> 1]
                   /\ ~file.diskFails => \A c \in Contents : temps[c] = 0
=============================================================================
