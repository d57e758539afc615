----------------------------- MODULE RotatorInv -----------------------------
(***************************************************************************)
(* The inductive invariant behind the safety of Rotator: what the writers  *)
(* know about their batch, their file name and their file at each place of *)
(* recordWriter.  It is proved in RotatorProofs.                           *)
(***************************************************************************)
EXTENDS Rotator

\* A writer past the receive has a batch, and starts it at its first record
\* in whatever file it ends up with.
BatchInHand ==
    \A w \in Writers :
      /\ pc[w] \in {"rotate", "write", "flush", "send", "closefb"} => cur[w] \in Batches
      /\ pc[w] = "ready" => cur[w] = NoBatch
      /\ pc[w] \in {"write", "flush"} => idx[w] <= BatchLen[cur[w]]
      /\ pc[w] \in {"rotate", "name", "stat", "create", "info"} => idx[w] = 1

\* The names given out are told apart by the serial since some stamp s, and
\* are older than s before.
NamesAreRecent ==
    \A r \in Rotators : \E s \in 1..clock : \A n \in UsedNames :
        n.stamp < s \/ (n.stamp <= clock /\ n.serial <= serial[r])

\* A held name belongs to one writer and to no finished file; the ".open" file
\* is there from os.Create to os.Rename.
NamesAreOwned ==
    /\ \A w, v \in Writers : w # v /\ Holding(w) /\ Holding(v) => name[w] # name[v]
    /\ \A w \in Writers : Holding(w) => doneFiles[name[w]] = NoFile
    /\ \A w \in Writers : pc[w] = "create" => openFiles[name[w]] = NoFile
    /\ \A w \in Writers : Writing(w) => openFiles[name[w]] # NoFile

NameInv == TypeOK /\ BatchInHand /\ NamesAreRecent /\ NamesAreOwned

\* The file of a writer begins with the warcinfo record the writer remembers
\* and ends with what has been written of its batch.
OwnFile(w) ==
    LET f == openFiles[name[w]] IN
    /\ pc[w] = "info" => f = <<>>
    /\ Writing(w) /\ pc[w] # "info" =>
          Len(f) > 0 /\ info[w] = <<w, name[w]>> /\ f[1] = InfoRecord(info[w])
    /\ pc[w] \in {"write", "flush"} =>
          /\ idx[w] <= Len(f)
          /\ \A i \in 1..(idx[w] - 1) : /\ f[Len(f) - (idx[w] - 1) + i].batch = cur[w]
                                        /\ f[Len(f) - (idx[w] - 1) + i].idx = i
    /\ pc[w] \in {"send", "closefb"} => Whole(f, cur[w])

OwnFiles == \A w \in Writers : OwnFile(w)

SentIsStored ==
    \A b \in Batches : "sent" \in feedback[b] \/ "received" \in feedback[b] => Stored(b)

ContentInv == OwnFiles /\ WarcinfoOfOwnFile /\ SentIsStored

IInv == NameInv /\ ContentInv
-----------------------------------------------------------------------------
(***************************************************************************)
(* What keeps the records of a batch together and lets each be written     *)
(* once.  It is proved in RotatorProofs.                                   *)
(***************************************************************************)

\* After its warcinfo record a file holds records of batches, the records of
\* a batch in their order, and none is followed by another batch too early.
InOrder(f) ==
    \A i \in 2..Len(f) :
      /\ f[i].batch \in Batches /\ f[i].idx \in 1..BatchLen[f[i].batch]
      /\ f[i].idx # 1 => f[i - 1] = [f[i] EXCEPT !.idx = @ - 1]
      /\ i < Len(f) /\ f[i].idx < BatchLen[f[i].batch] => f[i + 1].batch = f[i].batch

EndsWhole(f) == Len(f) >= 2 => f[Len(f)].idx >= BatchLen[f[Len(f)].batch]

\* The writer is between two records of a batch.
InBatch(w) == pc[w] \in {"write", "flush"} /\ idx[w] > 1

OrderInv ==
    /\ \A f \in Files : InOrder(f)
    /\ \A n \in Names : doneFiles[n] # NoFile => EndsWhole(doneFiles[n])
    /\ \A w \in Writers : Writing(w) /\ ~InBatch(w) => EndsWhole(openFiles[name[w]])
    /\ alive => torn = {}
    /\ \A n \in torn : doneFiles[n] = NoFile

\* A batch is with one rotator's channel or with one writer.
Waits(b, r) == queue[r] = <<b>>

BatchesAreHeld ==
    /\ \A r \in Rotators : Len(queue[r]) <= ChanCap
    /\ \A b \in Batches, r \in Rotators :
          Waits(b, r) => b \in submitted /\ \A w \in Writers : cur[w] # b
    /\ \A b \in Batches, r, s \in Rotators : Waits(b, r) /\ Waits(b, s) => r = s
    /\ \A w \in Writers : cur[w] \in Batches => cur[w] \in submitted
    /\ \A w, v \in Writers : cur[w] \in Batches /\ cur[w] = cur[v] => w = v

\* The records of f that are not of a batch still to come: of the one a
\* writer is at, those it has written.
Behind(f) ==
    \A i \in 2..Len(f) :
      /\ f[i].batch \in submitted
      /\ \A r \in Rotators : ~Waits(f[i].batch, r)
      /\ \A w \in Writers : cur[w] = f[i].batch => f[i].idx < idx[w]

\* The file that stands at a place on the disk.
FileAt(k, n) == IF k = "open" THEN openFiles[n] ELSE doneFiles[n]

\* A record of a batch is found at one place only.
OnePlace ==
    \A k, l \in {"open", "done"} : \A n, m \in Names :
      FileAt(k, n) # NoFile /\ FileAt(l, m) # NoFile =>
        \A i \in 2..Len(FileAt(k, n)), j \in 2..Len(FileAt(l, m)) :
          /\ FileAt(k, n)[i].batch = FileAt(l, m)[j].batch
          /\ FileAt(k, n)[i].idx = FileAt(l, m)[j].idx
          => k = l /\ n = m /\ i = j

OnceInv == BatchesAreHeld /\ (\A f \in Files : Behind(f)) /\ OnePlace

PairsInv == OrderInv /\ OnceInv
=============================================================================
