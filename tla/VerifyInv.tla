----------------------------- MODULE VerifyInv -----------------------------
(***************************************************************************)
(* The inductive invariants behind the properties of Verify: at each place *)
(* of ReadRecord and of its caller, which content has a buffer or a file,  *)
(* where in the file the reader is, and what it has found there.  They are *)
(* proved in VerifyProofs.                                                 *)
(***************************************************************************)
EXTENDS Verify

\* The places at which there is a content that is not closed.
InContent == {"content", "boundary", "drain", "got", "close"}

Live == IF rd.pc \in InContent THEN {rd.record.content} ELSE {}

\* No content but the one in hand has a buffer, and no buffer is in the pool
\* while a content has it.
BuffersAreHeld ==
    /\ Live \subseteq Contents
    /\ \A c \in Contents \ Live : spool[c].stage \in {"unused", "closed"} /\ spool[c].buf = NoBuffer
    /\ \A c \in Live : /\ spool[c].stage \in {"writing", "reading"}
                       /\ spool[c].onDisk => spool[c].buf = NoBuffer
                       /\ rd.pc # "close" => HasStore(c)
    /\ \A b \in Buffers : pool[b] = IF \E c \in Live : spool[c].buf = b THEN 0 ELSE 1

\* A content on disk has a temporary file; and if the disk does not fail that is
\* there no longer than the content is in hand.
FilesAreHeld ==
    /\ \A c \in Contents : spool[c].onDisk => temps[c] > 0
    /\ ~file.diskFails =>
          /\ \A c \in Contents : temps[c] = IF spool[c].onDisk THEN 1 ELSE 0
          /\ \A c \in Contents \ Live : ~spool[c].onDisk

\* The reader and its caller agree on whether there is a content in hand.
Agree ==
    /\ pc = "open" => rd.pc = "idle"
    /\ pc \in {"block", "payload", "version", "close"} => rd.pc = "got"
    /\ pc = "done" => rd.pc \in {"eof", "failed"}

HeldInv == BuffersAreHeld /\ FilesAreHeld /\ Agree
-----------------------------------------------------------------------------
\* The places at which a record is begun and may still be returned.
Parsing == {"version", "header", "content", "boundary", "drain"}

\* With gzip each record that was returned is a member, and the reader is at the
\* start of the next one, or of the one it reads.
MembersAreCounted ==
    IsGzip =>
        /\ rd.pc = "idle" => rd.member = Len(offsets) /\ rd.tell = Start[rd.member + 1]
        /\ rd.pc \in Parsing => /\ rd.member = Len(offsets) + 1
                                /\ rd.tell = Start[rd.member] /\ rd.record.offset = rd.tell
        /\ rd.pc = "got" => /\ rd.tell = Start[rd.member + 1]
                            /\ rd.member = IF pc = "read" THEN Len(offsets) + 1 ELSE Len(offsets)
                            /\ rd.record.offset = Start[rd.member]
                            /\ rd.record.size = Size(rd.member)

OffsetInv ==
    /\ rd.member \in Nat
    /\ MembersAreCounted
    /\ ~IsGzip /\ rd.pc = "got" => rd.record.offset = -1 /\ rd.record.size = -1
    /\ OffsetsAreExact
-----------------------------------------------------------------------------
(***************************************************************************)
(* What the files are.                                                     *)
(***************************************************************************)

\* A record that WriteRecord may have written: with a type (write.go:75), and any
\* length and digests.
IsRecord(r) ==
    /\ r.version \notin {"CR", "LF"} /\ r.damage \in Damage
    /\ r.content \in Seq({r.content[i] : i \in DOMAIN r.content})
    /\ r.first \in FieldNames /\ r[r.first] # Missing
    /\ r.type.sym = "type"
    /\ r.ctype = Missing \/ r.ctype.sym = "ctype"
    /\ r.block = Missing \/ r.block = Digest("block", r.block.seq)
    /\ r.payload = Missing \/ r.payload = Digest("payload", r.payload.seq)
    /\ r.length = Missing \/ (r.length.sym = "length" /\ r.length.num \in Int)
    /\ r.uri = Missing \/ r.uri.sym = "uri"

\* The members of a file hold its records, or the records follow one another.
IsGzipFile(f) == f.format = "gzip" /\ f.members = [k \in DOMAIN f.records |-> MemberOf(f.records[k])]

IsStream(f) ==
    /\ f.format = "other"
    /\ StreamOf(f) \in Seq({StreamOf(f)[i] : i \in DOMAIN StreamOf(f)})
    /\ Len(f.members) = 1 /\ f.members[1].whole /\ ~f.members[1].junk
    /\ Len(StreamOf(f)) = Begin(f)[Len(f.records) + 1]
    /\ \A k \in DOMAIN f.records :
           LET r == f.records[k] IN
           /\ \A i \in 1..Len(TextOf(r)) : StreamOf(f)[Begin(f)[k] + i] = TextOf(r)[i]
           /\ r.damage \notin {"crc", "empty", "junk"}    \* these are of members

ASSUME FilesAssumption ==
    \A f \in Files :
        \/ f.format = "short"
        \/ /\ IsGzipFile(f) \/ IsStream(f)
           /\ f.records \in Seq({f.records[k] : k \in DOMAIN f.records})
           /\ \A k \in DOMAIN f.records : IsRecord(f.records[k])
-----------------------------------------------------------------------------
(***************************************************************************)
(* What the reader has found.                                              *)
(***************************************************************************)

AllGood == \A k \in Reached : Good(file.records[k])

\* All that was read before the record k is as it should be.
Past(k) == \A j \in 1..(k - 1) : file.records[j].damage # "empty" /\ Good(file.records[j])

\* The reader may begin with a record here, or is at the end.
Ready ==
    IF IsGzip THEN rd.member \in 0..Len(file.records) /\ Past(rd.member + 1)
    ELSE file.format = "other" =>
        \/ \E k \in DOMAIN file.records : rd.at \in Places(file, k) /\ Past(k)
        \/ rd.at = Len(StreamOf(file)) /\ Past(Len(file.records) + 1)

Begins ==
    /\ rd.record.header = [f \in FieldNames |-> Missing] /\ rd.lines = 0
    /\ IF IsGzip
       THEN /\ rd.member \in DOMAIN file.records /\ Past(rd.member) /\ rd.at = 0
            /\ file.records[rd.member].damage # "junk"
       ELSE Ready /\ rd.member = 1 /\ file.format = "other"

\* The reader is in the record k, which begins after p.
IsAt(k, p) ==
    /\ k \in DOMAIN file.records /\ p \in Places(file, k) /\ Past(k)
    /\ file.records[k].damage \notin {"empty", "junk"}
    /\ rd.member = IF IsGzip THEN k ELSE 1
    /\ file.format \in {"gzip", "other"}

\* The first field that is not on the line of the version.
FirstField(r) == IF r.damage = "bare" THEN 3 ELSE 2

\* The header after the first i lines.
HeaderAt(r, i) ==
    [f \in FieldNames |-> IF \E j \in FirstField(r)..i : LinesOf(r)[j] = r[f] THEN r[f] ELSE Missing]

HeaderIs(r, i) ==
    /\ VersionOK(rd.record.version) <=> r.version \in Versions /\ r.damage # "bare"
    /\ rd.record.header = HeaderAt(r, i)

InHeader(k, p) ==
    LET r == file.records[k] IN
    \E i \in (FirstField(r) - 1)..Len(LinesOf(r)) :
        rd.at = Origin(r, p) + 3 * i /\ HeaderIs(r, i)

HeaderDone(k) ==
    LET r == file.records[k] IN HeaderIs(r, Len(LinesOf(r))) /\ Seen(r, "length") # Missing

InBody(k, p) ==
    LET r == file.records[k]  h == HeaderEnd(r, p) IN
    /\ HeaderDone(k) /\ rd.lines = 0
    /\ \E j \in 0..Announced(r) :
           /\ rd.at = h + j /\ h + j <= Len(Text) /\ rd.left = r.length.num - j
           /\ Stored(rd.record.content) = Chunks(Text, h, j)

\* The content has been read; so many lines of the boundary have.
BodyDone(k, p) ==
    LET r == file.records[k] IN
    HeaderDone(k) /\ Stored(rd.record.content) = Chunks(Text, HeaderEnd(r, p), Announced(r))

InBoundary(k, p) ==
    LET e == HeaderEnd(file.records[k], p) + Announced(file.records[k]) IN
    /\ BodyDone(k, p)
    /\ \/ rd.lines = 0 /\ rd.at = e /\ e <= Len(Text)
       \/ /\ rd.lines = 1 /\ rd.at = e + 2 /\ e + 2 <= Len(Text)
          /\ Text[e + 1] = CR /\ Text[e + 2] = LF

BoundaryDone(k, p) ==
    LET e == HeaderEnd(file.records[k], p) + Announced(file.records[k]) IN
    BodyDone(k, p) /\ rd.at = e + 4 /\ IsBoundary(Text, e)

\* The record is in the hand of verify: what is not yet judged, and what is.
BlockIsGood(r) == r.block # Missing /\ Stored(rd.record.content) = r.block.seq

IsReturned(k, p) ==
    LET r == file.records[k] IN
    /\ BoundaryDone(k, p) /\ Member.whole
    /\ pc \in {"block", "payload", "version"} => IsLookedInto(r)
    /\ pc = "block" => Position(rd.record.content) = 0
    /\ pc \in {"payload", "version"} => BlockIsGood(r)
    /\ pc = "version" => Seen(r, "payload") = Missing \/ PayloadMatches(Stored(rd.record.content))
    /\ pc = "close" => Good(r)

OnTrack ==
    /\ rd.pc = "idle" => Ready
    /\ rd.pc = "version" => Begins
    /\ rd.pc = "header" => rd.lines = 0 /\ \E k \in DOMAIN file.records : \E p \in Places(file, k) : IsAt(k, p) /\ InHeader(k, p)
    /\ rd.pc = "content" => \E k \in DOMAIN file.records : \E p \in Places(file, k) : IsAt(k, p) /\ InBody(k, p)
    /\ rd.pc = "boundary" => \E k \in DOMAIN file.records : \E p \in Places(file, k) : IsAt(k, p) /\ InBoundary(k, p)
    /\ rd.pc = "drain" => \E k \in DOMAIN file.records : \E p \in Places(file, k) : IsAt(k, p) /\ BoundaryDone(k, p)
    /\ rd.pc = "got" => \E k \in DOMAIN file.records : \E p \in Places(file, k) : IsAt(k, p) /\ IsReturned(k, p)
    /\ rd.pc \in {"content", "boundary", "drain"} \/ (rd.pc = "got" /\ pc = "read") =>
           spool[rd.record.content].stage = "writing"
    /\ rd.pc \in {"close", "failed"} => file.diskFails \/ ~AllGood
    /\ rd.pc = "eof" => AllGood

\* The file has been found to be bad, and is; or so far it is not.
Lost == ~result.Valid /\ (file.diskFails \/ ~AllGood)

PoolIsEmpty == \A b \in Buffers : pool[b] # 0 => bytes[b] = <<>>

VerdictInv ==
    /\ result \in [Valid : BOOLEAN, RecordCount : Nat, ErrorsCount : Nat, AllRecordsRead : BOOLEAN]
    /\ pc = "open" \/ result.Valid => result.ErrorsCount = 0
    /\ pc = "open" => rd = NewReader /\ Ready
    /\ pc = "done" /\ result.Valid => result.AllRecordsRead /\ rd.pc = "eof"
    /\ pc \notin {"open", "error"} /\ KeepsTrack => Lost \/ (result.Valid /\ OnTrack)
    /\ PoolIsEmpty
=============================================================================
