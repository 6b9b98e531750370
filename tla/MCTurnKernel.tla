---------------------------- MODULE MCTurnKernel ----------------------------
(***************************************************************************)
(* Instances of TurnKernel for TLC.                                        *)
(***************************************************************************)
EXTENDS TurnKernel

Limits(n) == [k \in RepairKinds |-> n]

\* DefaultPolicy of a workspace change whose verification must pass.
StrictPolicy ==
  [workspaceChange |-> TRUE, research |-> FALSE, requiresCompletion |-> TRUE,
   verificationRequired |-> TRUE, mustPass |-> TRUE, soft |-> FALSE, revert |-> FALSE,
   journalRequired |-> FALSE, limit |-> Limits(1)]

VARIABLE lane  \* which of the two groups of commands a behaviour is about

\* The commands that start, run, wait for and abort external work.
WorkNext == LifeStep \/ EffectStep \/ SampleStep \/ ToolStep \/ InputStep \/ TerminalStep

\* One call, which stands for any batch when tools run through.
OneCall == CHOOSE c \in Calls : TRUE

\* The commands that decide what the turn does next, on samples and tools that run
\* without an interruption.
DecisionNext ==
  \/ StartTurn \/ PreparationFinished
  \/ \E e \in DOMAIN effects : EffectStarted(e)
  \/ \E s \in Samples : ~SamplePending /\ ModelSampleRequested(s)
  \/ \E e \in DOMAIN effects, s \in Samples, continued \in BOOLEAN, batch \in {<<>>, <<OneCall>>} :
       ModelSampleResult(e, s, TRUE, TRUE, continued, batch)
  \/ \E e \in DOMAIN effects, isError, changes \in BOOLEAN :
       ToolResult(e, OneCall, isError, changes)
  \/ OutputStep \/ ProofStep \/ DecisionStep \/ TerminalStep

LaneInit == Init /\ lane \in {"work", "decision"}
LaneNext ==
  /\ phase \notin Terminal /\ lane' = lane
  /\ (lane = "work" /\ WorkNext) \/ (lane = "decision" /\ DecisionNext)
LaneSpec == LaneInit /\ [][LaneNext]_<<vars, lane>>
=============================================================================
