------------------------- MODULE MCOperationRuntime -------------------------
(***************************************************************************)
(* Instances of OperationRuntime: a turn a user starts and one he queues,  *)
(* all their interleavings, and two faults of any kind.                    *)
(***************************************************************************)
EXTENDS OperationRuntime

CONSTANTS s1, i1

OneStart == {s1}
OneItem == {i1}
NoItem == {}
=============================================================================
