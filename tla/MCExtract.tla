----------------------------- MODULE MCExtract -----------------------------
(* Small instances of Extract for TLC. *)
EXTENDS ExtractInv

Record(name, type, content, damage) ==
    [version |-> "WARC/1.1", first |-> "type", type |-> Digest("type", <<type>>),
     ctype |-> Digest("ctype", <<IF type = "revisit" THEN "response" ELSE type>>), length |-> Length(Len(content)),
     block |-> Missing, payload |-> Missing, uri |-> Digest("uri", <<name>>),
     content |-> content, damage |-> damage]

Page(name, body) == Record(name, "response", <<"head">> \o body, "none")

A2 == Page("n", <<"a", "a">>)
B1 == Page("n", <<"b">>)
E0 == Page("n", <<>>)
Refused == {Record("n", "metadata", <<"x">>, "none"), Record("n", "revisit", <<"head", "x">>, "none"),
            Record("n", "response", <<"x">>, "none"),
            Record("n", "response", <<"badgzip", "x">>, "none"),
            [A2 EXCEPT !.damage = "short"]}

Gzip(rs, fails) == FileOf("gzip", rs, fails)
MissingFile == FileOf("missing", <<>>, FALSE)

\* Three records with one name; a record that is not written, next to one; two
\* files, also one that is not there; a disk that fails.
FileLists ==
    {<<Gzip(rs, FALSE)>> : rs \in {<<A2, B1, B1>>, <<B1, A2, A2>>, <<B1, E0, E0>>} \cup (Refused \X {B1}) \cup ({A2} \X Refused)}
    \cup {<<Gzip(<<A2>>, FALSE), Gzip(<<B1>>, FALSE)>>, <<Gzip(<<A2>>, FALSE), MissingFile>>,
          <<Gzip(<<A2, B1>>, TRUE)>>}

Empty == [p \in {} |-> <<>>]
OldFile == [p \in {<< <<"n">>, <<>> >>} |-> <<"b", "old">>]

MCSettings ==
    {s \in [threads : {0, 1, 2}, overwrite : BOOLEAN, hashSuffix : BOOLEAN, files : FileLists,
            old : {Empty, OldFile}] :
        \/ s.old = Empty /\ ~s.overwrite /\ s.threads # 0
        \/ s.files[1].records = <<B1, A2, A2>> /\ (s.threads = 1 \/ ~s.hashSuffix)}
=============================================================================
