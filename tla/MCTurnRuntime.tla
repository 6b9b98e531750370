--------------------------- MODULE MCTurnRuntime ---------------------------
(***************************************************************************)
(* Instances of TurnRuntime for TLC.                                       *)
(***************************************************************************)
EXTENDS TurnRuntime, TLC

Limits(n) == [k \in RepairKinds |-> n]

\* A workspace change that must be declared complete and needs no verification.
ChangePolicy ==
  [workspaceChange |-> TRUE, research |-> FALSE, requiresCompletion |-> TRUE,
   verificationRequired |-> FALSE, mustPass |-> FALSE, soft |-> FALSE, revert |-> FALSE,
   journalRequired |-> FALSE, limit |-> Limits(1)]

\* A turn that may complete with a text; changes are verified.
VerifyPolicy ==
  [ChangePolicy EXCEPT !.workspaceChange = FALSE, !.requiresCompletion = FALSE,
                       !.verificationRequired = TRUE]

\* A change that must be declared complete and verified.
FullPolicy == [ChangePolicy EXCEPT !.verificationRequired = TRUE]

\* Calls are interchangeable when none is a declaration.
Symmetry == Permutations(Calls)

=============================================================================
