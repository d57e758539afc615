----------------------------- MODULE MCVerify -----------------------------
(* Files of up to two records for TLC. *)
EXTENDS VerifyInv

\* The Content-Type says the same as WARC-Type.
Record(v, t, n, b, p, c, d) ==
    [version |-> v, first |-> IF b = Missing THEN "type" ELSE "block",
     type |-> Digest("type", <<t>>), ctype |-> Digest("ctype", <<t>>), length |-> n,
     block |-> b, payload |-> p, uri |-> Missing, content |-> c, damage |-> d]

Page == <<"head", "body", "more">>

Whole(c, d) == Record("WARC/1.1", "response", Length(Len(c)), Digest("block", c), Missing, c, d)

With(p, c) == [Whole(c, "none") EXCEPT !.payload = p]

\* A good page, with every damage.
Damaged == {Whole(Page, d) : d \in Damage}

\* Lengths around the right one, also none and one below nothing.
Lengths == {[Whole(c, "none") EXCEPT !.length = n] :
               c \in {<<>>, <<"body">>, <<"CR", "LF">>},
               n \in {Missing, Sym("length")} \cup {Length(i) : i \in -1..4}}

\* Records that are not looked into, also with a length that ends before a line
\* end of their content.
Skipped == {Record(v, "metadata", Length(1), Missing, Missing, <<"body">>, d) :
               v \in {"WARC/1.1", "WARC/2.0"}, d \in {"none", "short", "bare"}}
           \cup {Record("WARC/1.1", "metadata", Length(n), Missing, Missing, <<"CR", "LF">>, d) :
                    n \in {0, 1}, d \in {"none", "short", "double"}}

\* A digest of what the length says, which is not all of the content; a record
\* that ends in its header.
Odd == {[Whole(<<"CR", "LF">>, d) EXCEPT !.length = Length(0), !.block = Digest("block", <<>>)] :
           d \in {"none", "double"}}
       \cup {Whole(<<>>, "torn")}

\* Digests: right, wrong, of an algorithm that is not supported (they match
\* nothing).
Digests ==
    {[Whole(Page, "none") EXCEPT !.block = b, !.first = "type"] :
        b \in {Missing, Digest("block", <<"unsupported">>), Digest("block", <<"body">>)}}
    \cup {With(p, c) : c \in {<<>>, <<"body">>, <<"head", "body">>, <<"head1">>,
                              <<"head1", "body", "more">>, <<"stripped", "body">>},
                       p \in {Digest("payload", <<"body">>), Digest("payload", <<>>),
                               Digest("payload", <<"unsupported">>)}}

\* The line of the version ends with LF alone, and what comes next is on it: the
\* type, the Content-Type or the length, of a response or a revisit.
Hidden == {[Whole(Page, "bare") EXCEPT !.first = f, !.type = Digest("type", <<t>>)] :
              f \in {"type", "ctype", "length"}, t \in {"response", "revisit"}}
          \cup {[Whole(Page, "bare") EXCEPT !.first = "type", !.block = Missing]}

BadVersion == {[Whole(Page, "none") EXCEPT !.version = "WARC/2.0"]}

OneOf == Damaged \cup Lengths \cup Skipped \cup Odd \cup Digests \cup BadVersion \cup Hidden
\* What may come before or after it.
Next1 == Damaged \cup Odd \cup {Record("WARC/1.1", "metadata", Length(1), Missing, Missing, <<"body">>, "none"),
                       With(Digest("payload", <<"body">>), <<"head1", "body", "more">>)}

Stream(records) == \A k \in DOMAIN records : records[k].damage \in {"none", "torn", "bare", "short", "double"}

MCFiles ==
    {FileOf("short", <<>>, FALSE)}
    \cup {FileOf("gzip", rs, f) : rs \in {<<r>> : r \in OneOf} \cup (OneOf \X Next1), f \in BOOLEAN}
    \cup {FileOf("other", rs, f) : rs \in {q \in {<<r>> : r \in OneOf} \cup (OneOf \X Next1) : Stream(q)},
                                   f \in BOOLEAN}
=============================================================================
