------------------------------ MODULE Reader ------------------------------
(***************************************************************************)
(* Reader.ReadRecord (read.go) on one file: finding the next member, the   *)
(* lines of the header, the content, which is copied into a spooled file,  *)
(* the boundary, and the rest of a gzip member.                            *)
(*                                                                         *)
(* A text is a sequence of symbols: CR, LF, a whole version, a whole field *)
(* of the header, a chunk of content.  Decompression is external: a member *)
(* gives its text and then the end of it or an error.                      *)
(*                                                                         *)
(* A definition D_Xyz is a mistake that D could have been written with.    *)
(***************************************************************************)
EXTENDS Spool, Integers

CONSTANT BufSize    \* the size of bufReader, in symbols

ASSUME ReaderAssumption ==
    /\ BufSize \in Nat \ {0}
    /\ Contents # {} /\ Contents \subseteq Nat

\* A symbol; fields have a number or a sequence of symbols as their value.
Sym(s)          == [sym |-> s, num |-> 0, seq |-> <<>>]
Length(n)       == [sym |-> "length", num |-> n, seq |-> <<>>]
Digest(s, data) == [sym |-> s, num |-> 0, seq |-> data]

CR == Sym("CR")
LF == Sym("LF")
Missing == Sym("missing")
FieldNames == {"length", "type", "ctype", "block", "payload", "uri"}

VARIABLES
    file,   \* the open file: its format, its members, and whether the disk
            \* fails under the spooled contents
    rd      \* the reader

readerVars == <<file, rd, spoolVars>>

NoRecord == [version |-> <<>>, header |-> [f \in FieldNames |-> Missing],
             content |-> 0, offset |-> 0, size |-> 0]

\* NewReader
NewReader == [pc |-> "idle", member |-> 0, at |-> 0, tell |-> 0, left |-> 0, lines |-> 0,
              record |-> NoRecord]

IsGzip   == file.format = "gzip"
Member   == file.members[rd.member]
Text     == Member.text
TextEnds == rd.at = Len(Text)

\* Compressed, a member takes some room for each symbol, and for its trailer.
Size(k) == Len(file.members[k].text) + 1
-----------------------------------------------------------------------------
(***************************************************************************)
(* readUntilDelim, for CR LF: chunks up to a LF, or as long as the buffer, *)
(* are appended, and the delimiter is looked for in the last one and in    *)
(* as much of what was there before as it may have begun in.               *)
(***************************************************************************)
ChunkEnd(t, p) ==
    CHOOSE e \in p..Len(t) :
        /\ e = Len(t) \/ e = p + BufSize \/ (e > p /\ t[e] = LF)
        /\ \A i \in (p + 1)..(e - 1) : t[i] # LF /\ i # p + BufSize

Overlap_None == 0

Overlap == 1

\* Where the line that starts after p ends, and where the next one starts.
NotFound == [line |-> 0, next |-> 0]

UntilDelim(t, p) ==
    LET Ends(q, e) == {i \in 1..(Len(t) - 1) : /\ i > p /\ i > q - Overlap /\ i < e
                                               /\ t[i] = CR /\ t[i + 1] = LF}
        Scan[q \in p..Len(t)] ==
            LET e == ChunkEnd(t, q) IN
            CASE Ends(q, e) # {} -> [line |-> CHOOSE i \in Ends(q, e) : TRUE, next |-> e]
              [] Ends(q, e) = {} /\ e = Len(t) -> NotFound
              [] OTHER -> Scan[e]
    IN  Scan[p]

Found == UntilDelim(Text, rd.at)
Line  == SubSeq(Text, rd.at + 1, Found.line - 1)
-----------------------------------------------------------------------------
Goto(pc) == rd' = [rd EXCEPT !.pc = pc]

\* ReadRecord returns an error, after closing the content if it has one.
Fail == Goto("failed")
FailClosing == Goto("close")

\* A file of less than six bytes counts as empty.  With gzip the reader moves
\* on to the next member; anything else is one stream.
ReadStart ==
    /\ rd.pc = "idle"
    /\ LET next == IF IsGzip THEN rd.member + 1 ELSE 1 IN
       IF file.format = "short" \/ next > Len(file.members) THEN Goto("eof")
       ELSE IF file.members[next].junk THEN Fail
       ELSE rd' = [rd EXCEPT !.pc = "version", !.member = next, !.lines = 0,
                             !.at = IF IsGzip THEN 0 ELSE @,
                             !.record = [NoRecord EXCEPT !.offset = rd.tell]]
    /\ UNCHANGED <<file, spoolVars>>

ReadVersion ==
    /\ rd.pc = "version"
    /\ IF Found # NotFound
       THEN rd' = [rd EXCEPT !.pc = "header", !.at = Found.next, !.record.version = Line]
       ELSE IF TextEnds /\ Member.whole THEN Goto("eof") ELSE Fail
    /\ UNCHANGED <<file, spoolVars>>

\* splitKeyValue: a line that is not a field is skipped; one that has more in
\* it than a field is a field with another value.
FieldSet(h, line) ==
    LET name == line[1].sym IN
    IF name \in FieldNames
    THEN [h EXCEPT ![name] = IF Len(line) = 1 THEN line[1] ELSE Sym("garbage")]
    ELSE h

ReadHeader ==
    /\ rd.pc = "header"
    /\ LET h == rd.record.header IN
       IF Found = NotFound THEN Fail /\ UNCHANGED spoolVars
       ELSE IF Line # <<>>
       THEN /\ rd' = [rd EXCEPT !.at = Found.next, !.record.header = FieldSet(h, Line)]
            /\ UNCHANGED spoolVars
       ELSE IF h["length"].sym # "length" THEN Fail /\ UNCHANGED spoolVars
       ELSE LET unused == {c \in Contents : spool[c].stage = "unused"}
                free == IF unused # {} THEN unused ELSE {c \in Contents : spool[c].stage = "closed"}
                c == CHOOSE c \in free : \A d \in free : c <= d
            IN  /\ New(c)
                /\ rd' = [rd EXCEPT !.pc = "content", !.at = Found.next,
                                    !.left = h["length"].num, !.record.content = c]
    /\ UNCHANGED file

\* io.CopyN; a length below zero copies nothing.
ReadContent ==
    /\ rd.pc = "content"
    /\ IF rd.left <= 0 THEN Goto("boundary") /\ UNCHANGED spoolVars
       ELSE IF TextEnds THEN FailClosing /\ UNCHANGED spoolVars
       ELSE \/ /\ Write(rd.record.content, Text[rd.at + 1].sym)
               /\ rd' = [rd EXCEPT !.at = @ + 1, !.left = @ - 1]
            \/ /\ file.diskFails /\ WriteFails(rd.record.content)
               /\ FailClosing
    /\ UNCHANGED file

ReadBoundary ==
    /\ rd.pc = "boundary"
    /\ IF Found = NotFound \/ Line # <<>> THEN FailClosing
       ELSE rd' = [rd EXCEPT !.at = Found.next, !.lines = @ + 1,
                             !.pc = IF rd.lines = 1 THEN "drain" ELSE "boundary"]
    /\ UNCHANGED <<file, spoolVars>>

Drained_Not == Size(rd.member) - 1

\* The rest of the member, with its trailer, is read, so that the next one
\* begins where the underlying reader is.
Drained == Size(rd.member)

ReadRest ==
    /\ rd.pc = "drain"
    /\ IF ~IsGzip THEN rd' = [rd EXCEPT !.pc = "got", !.record.offset = -1, !.record.size = -1]
       ELSE IF ~Member.whole THEN FailClosing
       ELSE rd' = [rd EXCEPT !.pc = "got", !.tell = @ + Drained, !.record.size = Drained]
    /\ UNCHANGED <<file, spoolVars>>

CloseOnError_Not == FALSE

CloseOnError == TRUE

\* The deferred buf.Close(), whose error is ignored.
ReadClose ==
    /\ rd.pc = "close" /\ Fail
    /\ IF CloseOnError
       THEN Close(rd.record.content) \/ (file.diskFails /\ RemoveFails(rd.record.content))
       ELSE UNCHANGED spoolVars
    /\ UNCHANGED file

ReadRecord == \/ ReadStart \/ ReadVersion \/ ReadHeader \/ ReadContent
              \/ ReadBoundary \/ ReadRest \/ ReadClose

\* The commands look into records of responses only.  "ctype" is Content-Type,
\* and its value the msgtype that is in it.
ShouldSkipRecord(record) ==
    \/ record.header["type"].seq = <<"revisit">>
    \/ record.header["ctype"].seq # <<"response">>
-----------------------------------------------------------------------------
(***************************************************************************)
(* What is in a file: the text Writer.WriteRecord gives a record, and what *)
(* may have happened to it since.  The fields come in any order, of which  *)
(* it matters only which one is the first.                                 *)
(***************************************************************************)
CRLF == <<CR, LF>>

FieldLine(field) == IF field = Missing THEN <<>> ELSE <<field>> \o CRLF

\* A field, for the lines after that of the first one.
Other(r, f) == IF f = r.first THEN Missing ELSE r[f]

Render(r) ==
    <<Sym(r.version)>> \o CRLF \o FieldLine(r[r.first])
    \o FieldLine(Other(r, "block")) \o FieldLine(Other(r, "type"))
    \o FieldLine(Other(r, "ctype")) \o FieldLine(Other(r, "length"))
    \o FieldLine(Other(r, "payload")) \o FieldLine(Other(r, "uri"))
    \o CRLF \o [i \in DOMAIN r.content |-> Sym(r.content[i])] \o CRLF \o CRLF

\* "torn": the end is missing; "bare": the line of the version ends with LF
\* alone; "short": one line of the boundary is missing; "crc": all is there but
\* its checksum is wrong; "double": the member holds another record;
\* "empty": it holds nothing; "junk": it is not a member.
Damage == {"none", "torn", "bare", "short", "crc", "double", "empty", "junk"}

MemberOf(r) ==
    LET t == Render(r) IN
    [text  |-> CASE r.damage = "torn"   -> SubSeq(t, 1, Len(t) - 5)
                 [] r.damage = "bare"   -> <<t[1]>> \o SubSeq(t, 3, Len(t))
                 [] r.damage = "short"  -> SubSeq(t, 1, Len(t) - 2)
                 [] r.damage = "double" -> t \o t
                 [] r.damage \in {"empty", "junk"} -> <<>>
                 [] OTHER -> t,
     whole |-> r.damage \notin {"torn", "crc"},
     junk  |-> r.damage = "junk"]

\* With gzip each record is a member; without, all are one stream, which ends
\* early where one is torn.
FileOf(format, records, fails) ==
    LET ms == [k \in DOMAIN records |-> MemberOf(records[k])]
        Stream[k \in 0..Len(ms)] == IF k = 0 THEN <<>> ELSE Stream[k - 1] \o ms[k].text
    IN  [format |-> format, records |-> records, diskFails |-> fails,
         members |-> IF format = "gzip" THEN ms
                     ELSE <<[text |-> Stream[Len(ms)], whole |-> TRUE, junk |-> FALSE]>>]
=============================================================================
