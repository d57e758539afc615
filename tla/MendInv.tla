------------------------------ MODULE MendInv ------------------------------
(***************************************************************************)
(* The inductive invariant behind the action properties of Mend: what the  *)
(* result of the analysis still says of the file when mend comes to act on *)
(* it.  It is proved in MendProofs.                                        *)
(***************************************************************************)
EXTENDS Mend

\* Nothing is asked or done in a dry run, and what is not only closing a file
\* is done after a yes.
Asked ==
    /\ pc # "next" => ~setting.dryRun
    /\ pc \in {"delete", "truncate"} => agreed
    /\ pc = "rename" => agreed \/ ~res.truncate

\* A file that is to be cut or renamed is there, and has another name to get.
InHand ==
    /\ pc \in {"asktruncate", "truncate", "askrename", "rename"} =>
          disk[file] # Absent /\ file.ext = "gz" /\ (res.rename => file.open)
    /\ pc \in {"askrename", "rename"} => res.rename

\* What is before the cut are records, whatever the crawler has added behind.
CutIsValid ==
    pc \in {"asktruncate", "truncate"} =>
        /\ res.at <= Len(disk[file])
        /\ \A i \in 1..res.at : disk[file][i] \in Valid

\* If nobody interferes the cut is at the first damage, and a file that is to
\* be deleted holds one record at most, or was not looked into.
ResultIsTrue ==
    Undisturbed =>
        /\ pc \in {"asktruncate", "truncate"} => res.at = ValidPrefix(disk[file])
        /\ pc \in {"askdelete", "delete"} /\ InScope(file) => ValidPrefix(disk[file]) <= 1

IInv == TypeOK /\ Asked /\ InHand /\ CutIsValid /\ ResultIsTrue
=============================================================================
