------------------------------- MODULE MCMend -------------------------------
(* Small instances of Mend for TLC. *)
EXTENDS MendInv

Path(b, e, o) == [base |-> b, ext |-> e, open |-> o]

\* An unfinished file, the finished file of the same name, and a file that is
\* not compressed with gzip.
Unfinished == Path("a", "gz", TRUE)
Finished   == Path("a", "gz", FALSE)
Plain      == Path("b", "other", TRUE)
MCPaths    == {Unfinished, Finished, Plain}

MCArgLists == {<<Unfinished>>, <<Finished, Plain>>, <<Unfinished, Finished>>}

\* Every content of up to three segments.
AllContents == UNION {[1..n -> Segments] : n \in 0..3}

\* Every content of one file next to some of the others.
MCDisks ==
    {d \in [MCPaths -> AllContents \union {Absent}] :
        /\ d[Plain] \in {<<"warcinfo", "record">>, Absent}
        /\ \/ d[Finished] \in {Absent, <<"warcinfo">>, <<"warcinfo", "record">>}
           \/ d[Unfinished] \in {Absent, <<"warcinfo", "record", "torn">>}}

MCSettings == [dryRun : BOOLEAN, force : BOOLEAN, readFails : BOOLEAN, live : BOOLEAN]
=============================================================================
