------------------------- MODULE MCWorkspaceJournal -------------------------
(***************************************************************************)
(* Instances of WorkspaceJournal for TLC.                                  *)
(***************************************************************************)
EXTENDS WorkspaceJournal

CONSTANTS f1, f2, a, t1, t2

\* One path exists at first, the other one does not.
OneFile == f1 :> a @@ f2 :> Absent
\* Tools change the first path twice.
TwiceAndOnce == f1 :> 2 @@ f2 :> 1
\* A third fault is looked at only when the ledger was not told of a change of the one file
\* that anybody changed.
ThirdFault ==
  count > 2 => /\ \E t \in Turns : untold[t] # {}
               /\ \A f \in Files \ {f1} : file[f].version = 0
\* The turns are alike.
AlikeTurns == Permutations({t1, t2})

=============================================================================
