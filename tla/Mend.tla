-------------------------------- MODULE Mend --------------------------------
(***************************************************************************)
(* The command "warc mend" (cmd/warc/mend/mend.go), which closes the files *)
(* a crawl left behind, and the part of ReadRecord it relies on.           *)
(*                                                                         *)
(* A file is a sequence of segments: gzip members that hold a warcinfo     *)
(* record or another record, a valid member that holds nothing, a member   *)
(* that is cut off, or bytes that are no such member.  Positions are       *)
(* numbers of segments, as mend only ever cuts between them.  Dates, sizes *)
(* and statistics are left out.                                            *)
(*                                                                         *)
(* A definition D_Xyz, with the name of another one in front, is a mistake *)
(* that D could have been written with; it is part of no specification.    *)
(***************************************************************************)
EXTENDS Naturals, Sequences

CONSTANTS
    Paths,          \* [base, ext, open]: "<base>.<ext>" and, if open, ".open"
    ArgLists,       \* the lists of files there may be on the command line
    Disks,          \* what may be on disk at the start
    Settings,       \* the flags, and what may happen meanwhile
    MaxLen,         \* bound of the model on what that crawler appends
    Absent

Valid    == {"warcinfo", "record"}
Segments == Valid \union {"empty", "torn", "junk"}

\* A path that may be renamed has its new name among the paths.
ASSUME MendAssumption ==
    /\ Paths \subseteq [base : STRING, ext : {"gz", "other"}, open : BOOLEAN]
    /\ \A p \in Paths : p.ext = "gz" => [p EXCEPT !.open = FALSE] \in Paths
    /\ ArgLists \subseteq Seq(Paths) \ {<<>>}
    /\ Absent \notin Seq(Segments)
    /\ \A d \in Disks : d \in [Paths -> Seq(Segments) \union {Absent}]
    /\ Settings \subseteq [dryRun : BOOLEAN, force : BOOLEAN, readFails : BOOLEAN, live : BOOLEAN]
    /\ MaxLen \in Nat

VARIABLES
    setting,    \* --dry-run, --force; whether the analysis may fail to read a
                \* file or to use a temporary file, and whether a crawler is
                \* still writing the ".open" files
    disk,       \* what each path holds, or Absent
    todo,       \* the files not yet looked at
    pc,
    file,       \* the file being treated
    res,        \* its mendResult
    agreed      \* the user has said yes to something about it

vars == <<setting, disk, todo, pc, file, res, agreed>>

NoResult == [count |-> 0, firstInfo |-> FALSE, at |-> 0, truncate |-> FALSE, rename |-> FALSE]

TypeOK ==
    /\ setting \in Settings /\ agreed \in BOOLEAN
    /\ disk \in [Paths -> Seq(Segments) \union {Absent}]
    /\ todo \in Seq(Paths)
    /\ pc \in {"next", "askdelete", "delete", "asktruncate", "truncate", "askrename", "rename"}
    /\ file \in Paths
    /\ res \in [count : Nat, firstInfo : BOOLEAN, at : Nat, truncate : BOOLEAN, rename : BOOLEAN]

Init ==
    /\ setting \in Settings
    /\ disk \in Disks
    /\ todo \in ArgLists
    /\ pc = "next"
    /\ file = todo[1]
    /\ res = NoResult /\ agreed = FALSE
-----------------------------------------------------------------------------
(***************************************************************************)
(* analyzeWARCFile.                                                        *)
(***************************************************************************)

\* ReadRecord stops at the end of the file, at a member without content,
\* which it takes for the end, and at anything it cannot read.
ValidPrefix(f) ==
    CHOOSE n \in 0..Len(f) : /\ \A i \in 1..n : f[i] \in Valid
                             /\ n = Len(f) \/ f[n + 1] \notin Valid

\* The two bytes at the head of a file that is there and compressed with gzip.
isGzipFile(f) == f # Absent /\ f # <<>> /\ f[1] # "junk"

\* Whether analyzeWARCFile looks into the file at all.
InScope(p) == /\ p.ext = "gz"
              /\ p.open \/ setting.force
              /\ isGzipFile(disk[p])

ResultAt_Before(p, n) == [count     |-> n,
                          firstInfo |-> n > 0 /\ disk[p][1] = "warcinfo",
                          at        |-> n - 1,
                          truncate  |-> n > 0 /\ n < Len(disk[p]),
                          rename    |-> p.open]

ResultAt_After(p, n) == [count     |-> n,
                         firstInfo |-> n > 0 /\ disk[p][1] = "warcinfo",
                         at        |-> n + 1,
                         truncate  |-> n > 0 /\ n < Len(disk[p]),
                         rename    |-> p.open]

\* What the reader made of the file when it stopped after n records.
ResultAt(p, n) == [count     |-> n,
                   firstInfo |-> n > 0 /\ disk[p][1] = "warcinfo",
                   at        |-> n,
                   truncate  |-> n > 0 /\ n < Len(disk[p]),
                   rename    |-> p.open]

\* The content of the n-th record cannot be read back from its temporary file:
\* the file is to be cut before this record, even if it is the first one.
ResultUnread(p, n) == [ResultAt(p, n) EXCEPT !.at = n - 1, !.truncate = TRUE]

\* ReadRecord fails after n records, because the file cannot be read on or a
\* content cannot be copied to its temporary file: it looks like a damage.
ResultFailed(p, n) == [ResultAt(p, n) EXCEPT !.truncate = n > 0]

\* The file cannot be opened for its reader, after it was found to be in scope.
ResultUnopened(p) == [NoResult EXCEPT !.rename = p.open]

\* A file that isGzipFile or Stat fails on is taken for one without records.
Results(p) ==
    LET n == ValidPrefix(disk[p]) IN
    IF ~InScope(p) THEN {NoResult}
    ELSE IF ~setting.readFails THEN {ResultAt(p, n)}
    ELSE {NoResult, ResultUnopened(p), ResultAt(p, n)}
         \union {ResultFailed(p, k) : k \in 0..n}
         \union {ResultUnread(p, k) : k \in 1..n}

Unused_UpToTwo(r) == r.count = 0 \/ (r.count <= 2 /\ r.firstInfo)

\* A file with nothing to mend that holds no record but a warcinfo: the user
\* is asked whether to delete it.
Unused(r) == r.count = 0 \/ (r.count = 1 /\ r.firstInfo)

AfterAnalysis_NoQuestion(r) ==
    IF setting.dryRun THEN "next"
    ELSE IF r.truncate THEN "truncate"
    ELSE IF r.rename THEN "rename"
    ELSE IF Unused(r) THEN "askdelete"
    ELSE "next"

AfterAnalysis(r) ==
    IF setting.dryRun THEN "next"
    ELSE IF r.truncate THEN "asktruncate"
    ELSE IF r.rename THEN "rename"          \* without asking
    ELSE IF Unused(r) THEN "askdelete"
    ELSE "next"

Analyze ==
    /\ pc = "next" /\ todo # <<>>
    /\ file' = Head(todo)
    /\ todo' = Tail(todo)
    /\ res' \in Results(Head(todo))
    /\ pc' = AfterAnalysis(res')
    /\ agreed' = FALSE
    /\ UNCHANGED <<setting, disk>>
-----------------------------------------------------------------------------
(***************************************************************************)
(* The repairs.  Each may fail, and mend goes on with the next file.       *)
(***************************************************************************)

\* What the user answers; always yes with --yes.
confirmAction(yes, no) == \/ pc' = yes /\ agreed' = TRUE
                          \/ pc' = no /\ UNCHANGED agreed

AskDelete ==
    /\ pc = "askdelete" /\ confirmAction("delete", "next")
    /\ UNCHANGED <<setting, disk, todo, file, res>>

Delete ==
    /\ pc = "delete" /\ pc' = "next"
    /\ disk' = [disk EXCEPT ![file] = Absent] \/ UNCHANGED disk
    /\ UNCHANGED <<setting, todo, file, res, agreed>>

AskTruncate ==
    /\ pc = "asktruncate"
    /\ confirmAction("truncate", IF res.rename THEN "askrename" ELSE "next")
    /\ UNCHANGED <<setting, disk, todo, file, res>>

truncateFile ==
    /\ pc = "truncate"
    /\ \/ /\ disk' = [disk EXCEPT ![file] = SubSeq(@, 1, res.at)]
          /\ pc' = IF res.rename THEN "askrename" ELSE "next"
       \/ pc' = "next" /\ UNCHANGED disk
    /\ UNCHANGED <<setting, todo, file, res, agreed>>

AskRename ==
    /\ pc = "askrename" /\ confirmAction("rename", "next")
    /\ UNCHANGED <<setting, disk, todo, file, res>>

newName == [file EXCEPT !.open = FALSE]

\* os.Rename replaces a file that has the new name.
Rename ==
    /\ pc = "rename" /\ pc' = "next"
    /\ \/ disk' = [disk EXCEPT ![newName] = disk[file], ![file] = Absent]
       \/ UNCHANGED disk
    /\ UNCHANGED <<setting, todo, file, res, agreed>>

\* The crawler: a record is on its way to the file, or has got there.  What
\* it writes after mend has changed the file is not followed.
CrawlerWrites(p) ==
    /\ setting.live /\ p.open /\ disk[p] # Absent /\ disk[p] # <<>>
    /\ \/ \E i \in 1..Len(todo) : todo[i] = p
       \/ p = file /\ pc \in {"asktruncate", "truncate"}
    /\ LET f == disk[p] IN
       disk' = [disk EXCEPT ![p] =
                  IF f[Len(f)] = "torn" THEN [f EXCEPT ![Len(f)] = "record"]
                  ELSE Append(f, "torn")]
    /\ Len(disk'[p]) <= MaxLen
    /\ UNCHANGED <<setting, todo, pc, file, res, agreed>>

Terminated == pc = "next" /\ todo = <<>> /\ UNCHANGED vars

Next == \/ Analyze \/ AskDelete \/ Delete \/ AskTruncate \/ truncateFile
        \/ AskRename \/ Rename
        \/ \E p \in Paths : CrawlerWrites(p)
        \/ Terminated

Spec == Init /\ [][Next]_vars
-----------------------------------------------------------------------------
(***************************************************************************)
(* Properties.                                                             *)
(***************************************************************************)

Whole(f) == ValidPrefix(f) = Len(f)

\* Nobody else writes the files and they can be read: without this mend does
\* cut off records (a record that cannot be read looks damaged, and a crawler
\* may complete one between analysis and answer).
Undisturbed == ~setting.readFails /\ ~setting.live

\* When the file being treated is cut, the records before its first damage
\* stay, and nothing else.  A member without content counts as a damage
\* (read.go:260-262 takes it for the end of the file), so that the valid
\* records behind it are cut off as well.
CutIsAtFirstDamage ==
    [][LET f == disk[file]  g == disk'[file] IN
       Undisturbed /\ f # Absent /\ g # Absent /\ g # f => Len(g) = ValidPrefix(f)]_vars

\* A file that mend cut holds records only, so that a second run of mend
\* finds nothing to cut; also with a crawler at work, and when the position
\* comes from a temporary file that failed.
TruncatedIsWhole ==
    [][pc = "truncate" /\ pc' # pc /\ disk' # disk => Whole(disk'[file])]_vars

OtherName(p) == [p EXCEPT !.open = ~@]

\* Every file, but one that has the new name of the file being treated, has its
\* content after the step, under the old name or under the new one.
ContentsStay == \A p \in Paths \ {newName} :
                   \E q \in {p, OtherName(p)} \intersect Paths : disk'[q] = disk[p]

\* With --dry-run no file changes.  Without a yes mend only closes the files it
\* found nothing to cut from, which it does unasked; the content of every file
\* is then still there, under the old name or under the new one, but for a
\* finished file that has the new name: that one is replaced (mend.go:197).
ChangesAreConfirmed ==
    [][disk' # disk /\ ~setting.live =>
         /\ ~setting.dryRun
         /\ \/ agreed
            \/ pc = "rename" /\ ~res.truncate /\ ContentsStay]_vars

\* The records of p before its first damage are found after the step, under the
\* old name or under the new one.
Survives(p) == \E q \in {p, OtherName(p)} \intersect Paths :
                  disk'[q] # Absent /\ ValidPrefix(disk'[q]) >= ValidPrefix(disk[p])

\* A file that mend looks into, that holds more than a warcinfo and that has
\* its name for itself loses no record before the first damage: by no answer
\* of the user and no failing repair if it can be read, and otherwise only by a
\* yes to a question about this very file.  (A file that could not be opened
\* or read is offered for deletion as an empty one, or for a cut; with --yes
\* nobody sees the question.)
RecordsSurvive ==
    [][\A p \in Paths :
         /\ ~setting.live
         /\ disk[p] # Absent /\ InScope(p)
         /\ OtherName(p) \in Paths => disk[OtherName(p)] = Absent
         /\ ValidPrefix(disk[p]) > 1
         => Survives(p) \/ (setting.readFails /\ agreed /\ p = file)]_vars

\* cmd/warc/mend/README.md:14: "regular WARC files are skipped unless --force
\* is used", and its example of a completed archive, :83-86: without --force a
\* finished archive with records stays.
SkippedFilesAreKept ==
    [][\A p \in Paths :
         /\ ~setting.force
         /\ p.ext = "gz" /\ ~p.open /\ disk[p] # Absent
         /\ Whole(disk[p]) /\ \E i \in 1..Len(disk[p]) : disk[p][i] = "record"
         => disk'[p] # Absent]_vars
=============================================================================
