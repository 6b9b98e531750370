--------------------------- MODULE MCChildAgents ---------------------------
(***************************************************************************)
(* Agents of one session and concurrent calls of the agent tools.          *)
(***************************************************************************)
EXTENDS ChildAgents

CONSTANTS a1, a2, c1, c2

TwoAgents == {a1, a2}
TwoCallers == {c1, c2}
OneAgent == {a1}
OneCaller == {c1}
Three == [a \in OneAgent |-> {3}]
\* The second agent gets what the first leaves of its share, or its share when the first has
\* given its budget back while its turn still runs.
OneShares == [a \in TwoAgents |-> IF a = a1 THEN {4} ELSE {0}]
CheapAndOverdrawn == {<<"completed", 1>>, <<"interrupted", 3>>}
=============================================================================
