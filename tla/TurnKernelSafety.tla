-------------------------- MODULE TurnKernelSafety --------------------------
(***************************************************************************)
(* The safety properties of the turn state machine, proved for every set   *)
(* of samples, calls, requests, inputs and keys, every policy and all      *)
(* bounds.                                                                 *)
(***************************************************************************)
EXTENDS TurnKernelProofs

-----------------------------------------------------------------------------
(* Phases *)

\* The initial phase has no work in progress.
LEMMA PhaseInit == Init => PhaseFitsWork
BY IdentityAssumption DEF Init, PhaseFitsWork, OpenCalls, PendingApprovals

\* PhaseFitsWork depends on these variables only.
phaseVars == <<phase, active, sample, calls, approvals, input, mutation>>

LEMMA PhaseUnchanged == PhaseFitsWork /\ UNCHANGED phaseVars => PhaseFitsWork'
BY DEF PhaseFitsWork, phaseVars, OpenCalls, PendingApprovals

\* Every command keeps the phase and the work in progress in step.
LEMMA PhaseStep == TypeOK /\ PhaseFitsWork /\ Next => PhaseFitsWork'
<1> SUFFICES ASSUME TypeOK, PhaseFitsWork, Next PROVE PhaseFitsWork'
  OBVIOUS
<1> USE PhaseUnchanged DEF phaseVars
<1>1. CASE LifeStep
  <2>1. CASE StartTurn \/ PreparationFinished
    BY <2>1 DEF StartTurn, PreparationFinished, PhaseFitsWork, OpenCalls, PendingApprovals, workVars, proofVars
  <2>2. ASSUME NEW resumed, NEW changes, RecoveryRequested(resumed, changes)
        PROVE  PhaseFitsWork'
    BY <2>2 DEF RecoveryRequested, PhaseFitsWork, OpenCalls, PendingApprovals, workVars
  <2>3. ASSUME NEW reason, CancelRequested(reason) PROVE PhaseFitsWork'
    BY <2>3 DEF CancelRequested, workVars, proofVars
  <2> QED BY <1>1, <2>1, <2>2, <2>3 DEF LifeStep
<1>2. CASE EffectStep
  <2>1. ASSUME NEW e \in DOMAIN effects, EffectStarted(e) PROVE PhaseFitsWork'
    <3>1. CASE effects[e].kind = "sample_provider"
      <4>1. effects[e] \in Effect
        BY DEF TypeOK
      <4>2. effects[e].call \in Samples
        BY <3>1, <4>1 DEF Effect
      <4>3. /\ phase = "sampling" /\ active' = effects[e].call
            /\ sample'[effects[e].call].status = "running"
        BY <2>1, <3>1, <4>2 DEF EffectStarted, TypeOK, SampleState
      <4> QED BY <2>1, <4>3
              DEF EffectStarted, PhaseFitsWork, OpenCalls, PendingApprovals, lifeVars, proofVars
    <3>2. CASE effects[e].kind # "sample_provider"
      BY <2>1, <3>2 DEF EffectStarted, lifeVars, proofVars
    <3> QED BY <3>1, <3>2
  <2>2. ASSUME NEW e \in DOMAIN effects, EffectRequeued(e) PROVE PhaseFitsWork'
    BY <2>2 DEF EffectRequeued, PhaseFitsWork, OpenCalls, PendingApprovals, TypeOK, lifeVars, proofVars
  <2>3. ASSUME NEW e \in DOMAIN effects, EffectResultReceived(e) PROVE PhaseFitsWork'
    BY <2>3 DEF EffectResultReceived, workVars, lifeVars, proofVars
  <2> QED BY <1>2, <2>1, <2>2, <2>3 DEF EffectStep
<1>3. CASE SampleStep
  <2>1. ASSUME NEW s \in Samples, ModelSampleRequested(s) PROVE PhaseFitsWork'
    BY <2>1 DEF ModelSampleRequested, PhaseFitsWork, OpenCalls, PendingApprovals, TypeOK, lifeVars, proofVars
  <2>2. ASSUME NEW e, NEW s \in Samples, NEW complete, ModelSampleProgress(e, s, complete)
        PROVE  PhaseFitsWork'
    BY <2>2 DEF ModelSampleProgress, PhaseFitsWork, OpenCalls, PendingApprovals, TypeOK, SampleState, lifeVars, proofVars
  <2>3. ASSUME NEW e, NEW s \in Samples, ProviderRetry(e, s) PROVE PhaseFitsWork'
    BY <2>3 DEF ProviderRetry, PhaseFitsWork, OpenCalls, PendingApprovals, TypeOK, lifeVars, proofVars
  <2>4. ASSUME NEW e, NEW s \in Samples, NEW ok, NEW text, NEW continued,
               NEW batch \in {<<>>} \cup Batches,
               ModelSampleResult(e, s, ok, text, continued, batch)
        PROVE  PhaseFitsWork'
    <3>1. phase = "sampling" /\ OpenCalls = {} /\ active' = Null
      BY <2>4 DEF ModelSampleResult, PhaseFitsWork
    <3>2. CASE ok /\ batch # <<>>
      <4>1. calls' = OpenBatch(batch) /\ phase' = "executing_tools"
        BY <2>4, <3>2 DEF ModelSampleResult
      <4>2. batch[1] \in Calls /\ 1 \in DOMAIN batch
        BY <3>2, BatchType
      <4>3. OpenCalls' # {}
        BY <4>1, <4>2 DEF OpenBatch, InBatch, OpenCalls
      <4> QED BY <2>4, <3>1, <4>1, <4>3
              DEF ModelSampleResult, PhaseFitsWork, PendingApprovals
    <3>3. CASE ~(ok /\ batch # <<>>)
      BY <2>4, <3>1, <3>3
         DEF ModelSampleResult, PhaseFitsWork, OpenCalls, PendingApprovals
    <3> QED BY <3>2, <3>3
  <2> QED BY <1>3, <2>1, <2>2, <2>3, <2>4 DEF SampleStep
<1>4. CASE OutputStep
  BY <1>4 DEF OutputStep, ModelText, ReleaseOutput, DiscardOutput, workVars, lifeVars, proofVars
<1>5. CASE ToolStep
  <2>1. ASSUME NEW batch \in Batches, ToolCallsProposed(batch) PROVE PhaseFitsWork'
    <3>1. batch[1] \in Calls /\ 1 \in DOMAIN batch
      BY <2>1, BatchType DEF ToolCallsProposed, ProposableBatch
    <3>2. OpenCalls' # {}
      BY <2>1, <3>1 DEF ToolCallsProposed, OpenBatch, InBatch, OpenCalls
    <3> QED BY <2>1, <3>2 DEF ToolCallsProposed, PhaseFitsWork, PendingApprovals
  <2>2. ASSUME NEW e, NEW c \in Calls, NEW isError, NEW changes,
               ToolResult(e, c, isError, changes)
        PROVE  PhaseFitsWork'
    <3>1. OpenCalls' = OpenCalls \ {c}
      BY <2>2 DEF ToolResult, OpenCalls, TypeOK
    <3>2. PendingApprovals' = PendingApprovals \ ApprovalsOf(c)
      BY <2>2, IdentityAssumption DEF ToolResult, PendingApprovals, ApprovalsOf
    <3>3. \A r \in PendingApprovals' : approvals'[r] \in OpenCalls'
      BY <2>2, <3>1, <3>2 DEF ToolResult, PhaseFitsWork, PendingApprovals, ApprovalsOf
    <3>4. active' = Null /\ input' = Null
      BY <2>2 DEF ToolResult, PhaseFitsWork
    <3> QED BY <2>2, <3>1, <3>2, <3>3, <3>4 DEF ToolResult, PhaseFitsWork, PhaseAfterTool
  <2>3. CASE AbortOpenCalls
    BY <2>3 DEF AbortOpenCalls, PhaseFitsWork, OpenCalls, PendingApprovals, proofVars
  <2>4. ASSUME NEW r \in Requests, NEW c \in Calls, ApprovalRequired(r, c)
        PROVE  PhaseFitsWork'
    <3>1. OpenCalls' = OpenCalls /\ c \in OpenCalls
      BY <2>4 DEF ApprovalRequired, OpenCalls
    <3>2. PendingApprovals' = PendingApprovals \cup {r}
      BY <2>4, IdentityAssumption DEF ApprovalRequired, PendingApprovals, TypeOK
    <3>3. \A q \in PendingApprovals' : approvals'[q] \in OpenCalls'
      BY <2>4, <3>1, <3>2 DEF ApprovalRequired, PhaseFitsWork, TypeOK
    <3> QED BY <2>4, <3>1, <3>2, <3>3 DEF ApprovalRequired, PhaseFitsWork
  <2>5. ASSUME NEW e, NEW r \in Requests, NEW canceled, ApprovalResult(e, r, canceled)
        PROVE  PhaseFitsWork'
    <3>1. OpenCalls' = OpenCalls
      BY <2>5 DEF ApprovalResult, OpenCalls
    <3>2. PendingApprovals' = PendingApprovals \ {r} /\ r \in PendingApprovals
      BY <2>5 DEF ApprovalResult, PendingApprovals, TypeOK
    <3>3. OpenCalls # {}
      BY <3>2 DEF PhaseFitsWork
    <3>4. \A q \in PendingApprovals' : approvals'[q] \in OpenCalls'
      BY <2>5, <3>1, <3>2 DEF ApprovalResult, PhaseFitsWork, TypeOK, PendingApprovals
    <3> QED BY <2>5, <3>1, <3>2, <3>3, <3>4 DEF ApprovalResult, PhaseFitsWork
  <2> QED BY <1>5, <2>1, <2>2, <2>3, <2>4, <2>5 DEF ToolStep
<1>6. CASE InputStep
  <2>1. ASSUME NEW i \in Inputs, InputRequired(i) PROVE PhaseFitsWork'
    BY <2>1, IdentityAssumption DEF InputRequired, PhaseFitsWork, OpenCalls, PendingApprovals, proofVars
  <2>2. ASSUME NEW i, NEW gone, ResolveInput(i, gone) PROVE PhaseFitsWork'
    BY <2>2 DEF ResolveInput, PhaseFitsWork, OpenCalls, PendingApprovals, proofVars
  <2> QED BY <1>6, <2>1, <2>2 DEF InputStep, InputResolved, InputResult
<1>7. CASE ProofStep
  <2>1. CASE VerificationStarted
    BY <2>1 DEF VerificationStarted, PhaseFitsWork, OpenCalls, PendingApprovals, workVars, proofVars
  <2>2. ASSUME NEW e, NEW status, NEW key, VerificationFinished(e, status, key)
        PROVE  PhaseFitsWork'
    BY <2>2 DEF VerificationFinished, PhaseFitsWork, OpenCalls, PendingApprovals, workVars
  <2>3. ASSUME NEW candidate, CompletionEvaluated(candidate) PROVE PhaseFitsWork'
    BY <2>3 DEF CompletionEvaluated, workVars, lifeVars
  <2>4. CASE CompletionInvalidated
    BY <2>4 DEF CompletionInvalidated, workVars, lifeVars
  <2> QED BY <1>7, <2>1, <2>2, <2>3, <2>4 DEF ProofStep
<1>8. CASE DecisionStep
  BY <1>8 DEF DecisionStep, EvaluateTurnStep, ConvergenceRequested, ObserveProgress,
              ConvergenceFinalizationStarted, workVars, lifeVars, proofVars
<1>9. CASE TerminalStep
  <2>1. ASSUME NEW d, TerminalRequested(d) PROVE PhaseFitsWork'
    BY <2>1 DEF TerminalRequested, TerminalReady, PhaseFitsWork, OpenCalls, PendingApprovals, workVars, proofVars
  <2>2. ASSUME NEW e, NEW error, JournalResult(e, error) PROVE PhaseFitsWork'
    BY <2>2 DEF JournalResult, workVars, lifeVars
  <2>3. CASE FinishTerminal
    <3>1. decision.kind \notin {"sampling", "executing_tools", "awaiting_approval", "awaiting_input", "verifying"}
      BY DEF TypeOK, Decision, NoDecision, Terminal
    <3> QED BY <2>3, <3>1 DEF FinishTerminal, PhaseFitsWork, OpenCalls, PendingApprovals, workVars, proofVars
  <2> QED BY <1>9, <2>1, <2>2, <2>3 DEF TerminalStep
<1> QED BY <1>1, <1>2, <1>3, <1>4, <1>5, <1>6, <1>7, <1>8, <1>9 DEF Next

-----------------------------------------------------------------------------
(* Journal, completion and verification *)

\* Nothing was declared or verified before the turn starts.
Fresh == phase = "created" => completion = NoCompletion /\ verification = NotVerified

\* Where a command other than those of the terminal transaction leads.
PhaseMoves == phase' = phase \/ (phase \in {"created"} \cup Running /\ phase' \in Running)

\* A command that leaves journal, completion and verification alone.
LEMMA ProofKept ==
  ASSUME ProofFitsMutation, Fresh, UNCHANGED <<proofVars, draft>>, PhaseMoves
  PROVE  ProofFitsMutation' /\ Fresh'
BY DEF ProofFitsMutation, Fresh, PhaseMoves, proofVars, Running, Terminal

\* Every command keeps what a turn has recorded of its changes in step with them.
LEMMA ProofFitsStep ==
  TypeOK /\ DecisionFits /\ PhaseFitsWork /\ ProofFitsMutation /\ Fresh /\ Next
    => ProofFitsMutation' /\ Fresh'
<1> SUFFICES ASSUME TypeOK, DecisionFits, PhaseFitsWork, ProofFitsMutation, Fresh, Next
             PROVE  ProofFitsMutation' /\ Fresh'
  OBVIOUS
<1>0. ~TerminalStep => PhaseMoves
  BY OnlyTerminalDecides DEF Next, PhaseMoves
<1> USE ProofKept
<1>1. CASE LifeStep
  <2>1. ASSUME NEW resumed \in BOOLEAN, NEW changes \in BOOLEAN,
               RecoveryRequested(resumed, changes)
        PROVE  ProofFitsMutation' /\ Fresh'
    BY <2>1 DEF RecoveryRequested, ProofFitsMutation, Fresh, NoCompletion, NotVerified,
                SettledJournal
  <2>2. CASE StartTurn \/ PreparationFinished \/ \E reason : CancelRequested(reason)
    BY <2>2 DEF StartTurn, PreparationFinished, CancelRequested, PhaseMoves, Running
  <2> QED BY <1>1, <2>1, <2>2 DEF LifeStep
<1>2. CASE EffectStep
  BY <1>2 DEF EffectStep, EffectStarted, EffectRequeued, EffectResultReceived, lifeVars,
              PhaseMoves
<1>3. CASE SampleStep
  <2>1. ASSUME NEW e, NEW s, NEW complete,
               \/ ModelSampleRequested(s)
               \/ ModelSampleProgress(e, s, complete)
               \/ ProviderRetry(e, s)
        PROVE  ProofFitsMutation' /\ Fresh'
    BY <2>1 DEF ModelSampleRequested, ModelSampleProgress, ProviderRetry, lifeVars, PhaseMoves
  <2>2. ASSUME NEW e, NEW s, NEW ok, NEW text, NEW continued, NEW batch,
               ModelSampleResult(e, s, ok, text, continued, batch)
        PROVE  ProofFitsMutation' /\ Fresh'
    <3>1. /\ phase = "sampling" /\ phase' \in {"sampling", "executing_tools"}
          /\ completion' \in {completion, NoCompletion}
          /\ UNCHANGED <<draft, mutation, journal, verification>>
      BY <2>2 DEF ModelSampleResult
    <3> QED BY <3>1 DEF ProofFitsMutation, Fresh, NoCompletion, Terminal
  <2> QED BY <1>3, <2>1, <2>2 DEF SampleStep
<1>4. CASE OutputStep
  BY <1>4 DEF OutputStep, ModelText, ReleaseOutput, DiscardOutput, lifeVars, PhaseMoves
<1>5. CASE ToolStep
  <2>1. ASSUME NEW batch, ToolCallsProposed(batch)
        PROVE  ProofFitsMutation' /\ Fresh'
    BY <2>1 DEF ToolCallsProposed, ProofFitsMutation, Fresh, NoCompletion, Terminal
  <2>2. ASSUME NEW e, NEW c, NEW isError, NEW changes \in BOOLEAN,
               ToolResult(e, c, isError, changes)
        PROVE  ProofFitsMutation' /\ Fresh'
    <3>1. /\ phase \in {"executing_tools", "awaiting_approval"} /\ UNCHANGED draft
          /\ phase' \in {"executing_tools", "awaiting_approval", "sampling"}
      BY <2>2 DEF ToolResult, PhaseAfterTool
    <3>2. CASE changes
      <4>1. /\ mutation' = mutation + 1 /\ journal' = "open"
            /\ verification' = NotVerified /\ completion' = NoCompletion
        BY <2>2, <3>2 DEF ToolResult
      <4>2. mutation' # 0
        BY <4>1 DEF TypeOK
      <4> QED BY <3>1, <4>1, <4>2
              DEF ProofFitsMutation, Fresh, NoCompletion, NotVerified, SettledJournal, Terminal
    <3>3. CASE ~changes
      BY <2>2, <3>1, <3>3 DEF ToolResult, PhaseMoves, Running
    <3> QED BY <3>2, <3>3
  <2>3. ASSUME NEW e, NEW r, NEW c, NEW canceled,
               AbortOpenCalls \/ ApprovalRequired(r, c) \/ ApprovalResult(e, r, canceled)
        PROVE  ProofFitsMutation' /\ Fresh'
    BY <2>3 DEF AbortOpenCalls, ApprovalRequired, ApprovalResult, PhaseMoves, Running
  <2> QED BY <1>5, <2>1, <2>2, <2>3 DEF ToolStep
<1>6. CASE InputStep
  BY <1>6 DEF InputStep, InputRequired, InputResolved, InputResult, ResolveInput,
              PhaseMoves, Running
<1>7. CASE ProofStep
  <2>1. CASE VerificationStarted
    BY <2>1 DEF VerificationStarted, PhaseMoves, Running
  <2>2. ASSUME NEW e, NEW status \in {"passed", "failed", "unavailable"}, NEW key,
               VerificationFinished(e, status, key)
        PROVE  ProofFitsMutation' /\ Fresh'
    <3> DEFINE repair == status # "passed" /\ ~Policy.soft /\ ~Exhausted("verification", key)
    <3>1. VerificationAction(status, repair) # "none"
      BY VerificationActionType, repair \in BOOLEAN
    <3>2. verification' = [status |-> status, action |-> VerificationAction(status, repair),
                           mutation |-> mutation]
      BY <2>2 DEF VerificationFinished
    <3>3. /\ mutation # 0 /\ phase = "verifying" /\ phase' = "sampling"
          /\ completion' \in {completion, NoCompletion}
          /\ UNCHANGED <<draft, mutation, journal>>
      BY <2>2 DEF VerificationFinished, PhaseFitsWork
    <3> QED BY <3>1, <3>2, <3>3 DEF ProofFitsMutation, Fresh, NoCompletion, Terminal
  <2>3. ASSUME NEW candidate, CompletionEvaluated(candidate)
        PROVE  ProofFitsMutation' /\ Fresh'
    BY <2>3 DEF CompletionEvaluated, ProofFitsMutation, Fresh, lifeVars
  <2>4. CASE CompletionInvalidated
    BY <2>4 DEF CompletionInvalidated, ProofFitsMutation, Fresh, NoCompletion, lifeVars
  <2> QED BY <1>7, <2>1, <2>2, <2>3, <2>4 DEF ProofStep
<1>8. CASE DecisionStep
  BY <1>8 DEF DecisionStep, EvaluateTurnStep, ConvergenceRequested, ObserveProgress,
              ConvergenceFinalizationStarted, lifeVars, PhaseMoves
<1>9. CASE TerminalStep
  <2>1. ASSUME NEW d, TerminalRequested(d) PROVE ProofFitsMutation' /\ Fresh'
    BY <2>1 DEF TerminalRequested, ProofFitsMutation, Fresh, proofVars
  <2>2. ASSUME NEW e, NEW error \in BOOLEAN, JournalResult(e, error)
        PROVE  ProofFitsMutation' /\ Fresh'
    <3>1. JournalOutcome(decision) # "none"
      BY JournalOutcomeType DEF SettledJournal
    <3> QED BY <2>2, <3>1 DEF JournalResult, ProofFitsMutation, Fresh, lifeVars
  <2>3. CASE FinishTerminal
    <3>1. decision.kind \in Terminal
      BY <2>3 DEF FinishTerminal, DecisionFits, TypeOK, Decision
    <3> QED BY <2>3, <3>1 DEF FinishTerminal, ProofFitsMutation, Fresh, proofVars, Terminal
  <2> QED BY <1>9, <2>1, <2>2, <2>3 DEF TerminalStep
<1> QED BY <1>1, <1>2, <1>3, <1>4, <1>5, <1>6, <1>7, <1>8, <1>9 DEF Next

-----------------------------------------------------------------------------
(* Repair budgets *)

\* The part of LedgersValid about budgets and convergence.
BudgetsValid ==
  /\ \A k \in RepairKinds : budget[k].consecutive <= budget[k].steps
  /\ convergence.cause = "incomplete" => convergence.attempted

\* A round is only granted below the limit.
LEMMA SpentBounded ==
  ASSUME StepTyped, BudgetsValid, RepairsBounded, NEW kind \in RepairKinds, NEW key,
         Consecutive(budget[kind], key) < Policy.limit[kind]
  PROVE  \A k \in RepairKinds :
           /\ Spent(kind, key)[k].consecutive <= Spent(kind, key)[k].steps
           /\ Spent(kind, key)[k].consecutive <= Policy.limit[k]
<1>1. /\ budget[kind].consecutive \in Nat /\ budget[kind].steps \in Nat
      /\ Consecutive(budget[kind], key) \in Nat /\ Policy.limit[kind] \in Nat
  BY PolicyAssumption DEF StepTyped, Budget, Consecutive, PolicyType
<1>2. Consecutive(budget[kind], key) <= budget[kind].steps
  BY <1>1 DEF Consecutive, BudgetsValid
<1>3. Spent(kind, key)[kind] =
        [key |-> key, consecutive |-> Consecutive(budget[kind], key) + 1,
         steps |-> budget[kind].steps + 1]
  BY DEF Spent, StepTyped
<1>4. /\ Spent(kind, key)[kind].consecutive <= Spent(kind, key)[kind].steps
      /\ Spent(kind, key)[kind].consecutive <= Policy.limit[kind]
  BY <1>1, <1>2, <1>3
<1>5. \A k \in RepairKinds \ {kind} : Spent(kind, key)[k] = budget[k]
  BY DEF Spent, StepTyped
<1> QED BY <1>4, <1>5 DEF BudgetsValid, RepairsBounded

\* No command grants a repair round beyond its limit.
LEMMA BudgetStep ==
  TypeOK /\ BudgetsValid /\ RepairsBounded /\ Next => BudgetsValid' /\ RepairsBounded'
<1> SUFFICES ASSUME TypeOK, BudgetsValid, RepairsBounded, Next
             PROVE  BudgetsValid' /\ RepairsBounded'
  OBVIOUS
<1>0. /\ StepTyped
      /\ \A k \in RepairKinds : budget[k] \in Budget /\ Policy.limit[k] \in Nat
  BY TypeParts, PolicyAssumption DEF StepTyped, PolicyType
<1>k. /\ UNCHANGED <<budget, convergence>> => BudgetsValid' /\ RepairsBounded'
      /\ UNCHANGED stepVars => BudgetsValid' /\ RepairsBounded'
  BY DEF BudgetsValid, RepairsBounded, stepVars
<1>1. CASE LifeStep
  BY <1>1, <1>k DEF LifeStep, StartTurn, PreparationFinished, RecoveryRequested, CancelRequested
<1>2. CASE EffectStep
  BY <1>2, <1>k DEF EffectStep, EffectStarted, EffectRequeued, EffectResultReceived
<1>3. CASE SampleStep
  <2>1. ASSUME NEW e, NEW s, NEW ok, NEW text, NEW continued, NEW batch,
               ModelSampleResult(e, s, ok, text, continued, batch)
        PROVE  UNCHANGED <<budget, convergence>>
    BY <2>1 DEF ModelSampleResult
  <2>2. ASSUME NEW e, NEW s, NEW complete,
               \/ ModelSampleRequested(s)
               \/ ModelSampleProgress(e, s, complete)
               \/ ProviderRetry(e, s)
        PROVE  UNCHANGED <<budget, convergence>>
    BY <2>2 DEF ModelSampleRequested, ModelSampleProgress, ProviderRetry, stepVars
  <2> QED BY <1>3, <1>k, <2>1, <2>2 DEF SampleStep
<1>4. CASE OutputStep
  BY <1>4, <1>k DEF OutputStep, ModelText, ReleaseOutput, DiscardOutput
<1>5. CASE ToolStep
  BY <1>5, <1>k DEF ToolStep, ToolCallsProposed, ToolResult, AbortOpenCalls,
                    ApprovalRequired, ApprovalResult
<1>6. CASE InputStep
  <2>1. ASSUME NEW i, InputRequired(i) PROVE BudgetsValid' /\ RepairsBounded'
    BY <2>1, <1>k DEF InputRequired
  <2>2. ASSUME NEW i, NEW gone, ResolveInput(i, gone)
        PROVE  BudgetsValid' /\ RepairsBounded'
    BY <2>2, <1>0 DEF ResolveInput, BudgetsValid, RepairsBounded, StepTyped, ConvergenceState
  <2> QED BY <1>6, <2>1, <2>2 DEF InputStep, InputResolved, InputResult
<1>7. CASE ProofStep
  <2>1. ASSUME NEW e, NEW status, NEW key, VerificationFinished(e, status, key)
        PROVE  BudgetsValid' /\ RepairsBounded'
    <3>1. CASE budget' = budget
      BY <2>1, <3>1, <1>k DEF VerificationFinished
    <3>2. CASE budget' # budget
      <4>1. budget' = Spent("verification", key) /\ ~Exhausted("verification", key)
        BY <2>1, <3>2 DEF VerificationFinished
      <4>2. Consecutive(budget["verification"], key) < Policy.limit["verification"]
        BY <4>1, <1>0 DEF Exhausted, RepairKinds, Consecutive, Budget
      <4> QED BY <2>1, <4>1, <4>2, <1>0, SpentBounded
              DEF VerificationFinished, BudgetsValid, RepairsBounded, RepairKinds
    <3> QED BY <3>1, <3>2
  <2>2. CASE VerificationStarted \/ CompletionInvalidated
    BY <2>2, <1>k DEF VerificationStarted, CompletionInvalidated
  <2>3. ASSUME NEW candidate, CompletionEvaluated(candidate)
        PROVE  BudgetsValid' /\ RepairsBounded'
    BY <2>3 DEF CompletionEvaluated, BudgetsValid, RepairsBounded
  <2> QED BY <1>7, <2>1, <2>2, <2>3 DEF ProofStep
<1>8. CASE DecisionStep
  <2>1. ASSUME BeginConvergence, UNCHANGED budget
        PROVE  BudgetsValid' /\ RepairsBounded'
    BY <2>1 DEF BeginConvergence, BudgetsValid, RepairsBounded
  <2>2. CASE ConvergenceRequested \/ ObserveProgress
    BY <2>1, <2>2 DEF ConvergenceRequested, ObserveProgress
  <2>3. CASE ConvergenceFinalizationStarted
    BY <2>3, <1>0 DEF ConvergenceFinalizationStarted, BudgetsValid, RepairsBounded, StepTyped,
                      ConvergenceState
  <2>4. ASSUME NEW key \in Keys, EvaluateTurnStep(key)
        PROVE  BudgetsValid' /\ RepairsBounded'
    <3>1. CASE UNCHANGED <<budget, convergence>>
      BY <3>1, <1>k
    <3>2. CASE Converge /\ RepairableDeclaration
      <4>1. /\ budget' = Spent("declaration", "convergence")
            /\ convergence' = [convergence EXCEPT !.attempted = FALSE]
            /\ convergence.cause # "incomplete"
        BY <3>2 DEF Converge
      <4>2. /\ budget["declaration"].steps < Policy.limit["declaration"]
            /\ budget["declaration"].consecutive <= budget["declaration"].steps
        BY <3>2 DEF RepairableDeclaration, BudgetsValid, RepairKinds
      <4>3. /\ budget["declaration"] \in Budget
            /\ Policy.limit["declaration"] \in Nat
        BY <1>0 DEF RepairKinds
      <4>4. Consecutive(budget["declaration"], "convergence") < Policy.limit["declaration"]
        BY <4>2, <4>3 DEF Consecutive, Budget
      <4>5. convergence'.cause = convergence.cause
        BY <4>1, <1>0 DEF StepTyped, ConvergenceState
      <4> QED BY <4>1, <4>4, <4>5, <1>0, SpentBounded
              DEF BudgetsValid, RepairsBounded, RepairKinds
    <3>3. CASE Repair(StepCase, key)
      <4>1. RepairKind(StepCase) \in RepairKinds
        BY <3>3 DEF Repair, RepairKind, RepairKinds
      <4>2. CASE Exhausted(RepairKind(StepCase), key)
        BY <2>1, <3>3, <4>2 DEF Repair
      <4>3. CASE ~Exhausted(RepairKind(StepCase), key)
        <5>1. budget' = Spent(RepairKind(StepCase), key) /\ UNCHANGED convergence
          BY <3>3, <4>3 DEF Repair
        <5>2. Consecutive(budget[RepairKind(StepCase)], key) < Policy.limit[RepairKind(StepCase)]
          BY <4>1, <4>3, <1>0 DEF Exhausted, Consecutive, Budget
        <5> QED BY <4>1, <5>1, <5>2, <1>0, SpentBounded DEF BudgetsValid, RepairsBounded
      <4> QED BY <4>2, <4>3
    <3> QED BY <2>4, <3>1, <3>2, <3>3 DEF EvaluateTurnStep, Converge
  <2> QED BY <1>8, <2>2, <2>3, <2>4 DEF DecisionStep
<1>9. CASE TerminalStep
  BY <1>9, <1>k DEF TerminalStep, TerminalRequested, JournalResult, FinishTerminal
<1> QED BY <1>1, <1>2, <1>3, <1>4, <1>5, <1>6, <1>7, <1>8, <1>9 DEF Next

-----------------------------------------------------------------------------
(* Effects and their owners *)

\* What finishEffect leaves.
LEMMA Removed ==
  ASSUME EffectsTyped, NEW gone, UpdateEffects(gone, <<>>)
  PROVE  /\ DOMAIN effects' = DOMAIN effects \ gone
         /\ \A e \in DOMAIN effects' : effects'[e] = effects[e]
<1>1. (seq + 1)..(seq + Len(<<>>)) = {}
  BY DEF EffectsTyped
<1> QED BY <1>1 DEF UpdateEffects

\* What requestEffect adds.
LEMMA Added ==
  ASSUME EffectsTyped, NEW f, UpdateEffects({}, <<f>>)
  PROVE  /\ seq + 1 \notin DOMAIN effects
         /\ DOMAIN effects' = DOMAIN effects \cup {seq + 1}
         /\ effects'[seq + 1] = f
         /\ \A e \in DOMAIN effects : effects'[e] = effects[e]
<1>1. (seq + 1)..(seq + Len(<<f>>)) = {seq + 1}
  BY DEF EffectsTyped
<1>2. seq + 1 \notin DOMAIN effects
  BY DEF EffectsTyped
<1>3. DOMAIN effects' = DOMAIN effects \cup {seq + 1}
  BY <1>1 DEF UpdateEffects
<1>4. effects'[seq + 1] = f
  <2>1. PICK new : new = <<f>> /\ UpdateEffects({}, new)
    OBVIOUS
  <2>2. effects'[seq + 1] = new[seq + 1 - seq]
    <3>1. seq + 1 \in DOMAIN effects'
      BY <1>3
    <3>2. \A e \in DOMAIN effects' : e \notin DOMAIN effects => effects'[e] = new[e - seq]
      BY <2>1 DEF UpdateEffects
    <3>3. seq \in Nat
      BY DEF EffectsTyped
    <3> QED BY <1>2, <3>1, <3>2, <3>3
  <2>3. seq + 1 - seq = 1
    BY DEF EffectsTyped
  <2> QED BY <2>1, <2>2, <2>3
<1>5. \A e \in DOMAIN effects : effects'[e] = effects[e]
  BY <1>1 DEF UpdateEffects
<1> QED BY <1>2, <1>3, <1>4, <1>5

\* The effects of a batch next to the ones that stay.
LEMMA AddedTools ==
  ASSUME EffectsTyped, NEW gone, NEW batch \in Seq(Calls),
         UpdateEffects(gone, ToolEffects(batch)), NEW e \in DOMAIN effects'
  PROVE  \/ e \in DOMAIN effects \ gone /\ effects'[e] = effects[e]
         \/ \E i \in DOMAIN batch :
              e = seq + i /\ effects'[e] = NewEffect("execute_tool", batch[i], batch[i])
<1>1. /\ DOMAIN batch = 1..Len(batch) /\ Len(batch) \in Nat
      /\ Len(ToolEffects(batch)) = Len(batch)
  BY ToolEffectsType DEF ToolEffects
<1>2. DOMAIN effects' = (DOMAIN effects \ gone) \cup (seq + 1)..(seq + Len(batch))
  BY <1>1 DEF UpdateEffects
<1>3. CASE e \in DOMAIN effects
  <2>1. e \notin (seq + 1)..(seq + Len(batch))
    BY <1>1, <1>3 DEF EffectsTyped
  <2> QED BY <1>2, <1>3, <2>1 DEF UpdateEffects
<1>4. CASE e \notin DOMAIN effects
  <2>1. e - seq \in DOMAIN batch /\ e = seq + (e - seq)
    BY <1>1, <1>2, <1>4 DEF EffectsTyped
  <2>2. effects'[e] = ToolEffects(batch)[e - seq]
    BY <1>2, <1>4 DEF UpdateEffects
  <2> QED BY <2>1, <2>2 DEF ToolEffects
<1> QED BY <1>3, <1>4

\* What starting an effect or putting it back changes.
LEMMA SetOne ==
  ASSUME EffectsTyped, NEW e \in DOMAIN effects, NEW status, NEW attempt,
         SetEffect(e, status, attempt)
  PROVE  /\ DOMAIN effects' = DOMAIN effects
         /\ \A f \in DOMAIN effects \ {e} : effects'[f] = effects[f]
         /\ effects'[e].kind = effects[e].kind
         /\ effects'[e].key = effects[e].key
         /\ effects'[e].call = effects[e].call
         /\ effects'[e].status = status
         /\ effects'[e].attempt = attempt
<1>1. effects[e] \in Effect
  BY DEF EffectsTyped
<1>2. effects' = [effects EXCEPT ![e] = [@ EXCEPT !.status = status, !.attempt = attempt]]
  BY DEF SetEffect, EffectsTyped
<1>3. effects'[e] = [effects[e] EXCEPT !.status = status, !.attempt = attempt]
  BY <1>2 DEF EffectsTyped
<1> QED BY <1>1, <1>2, <1>3 DEF EffectsTyped, Effect

\* The owner of a pending effect, as in EffectsOwned, and the identity it was requested
\* with.  In the terminal transaction only the journal is left.
Owned(f) ==
  /\ f.status = "running" => f.attempt # 0
  /\ f.kind = "sample_provider" =>
       /\ f.key = f.call
       /\ sample[f.call].status = f.status
       /\ (f.status = "running") <=> (active = f.call)
       /\ f.status = "running" => sample[f.call].attempt = f.attempt
  /\ f.kind = "execute_tool" => f.key = f.call /\ f.call \in OpenCalls
  /\ f.kind = "await_approval" => f.key \in PendingApprovals /\ approvals[f.key] = f.call
  /\ f.kind = "await_input" => input # Null /\ f.key = input
  /\ f.kind = "run_verification" => f.key = Null /\ phase = "verifying"
  /\ f.kind \in JournalKinds =>
       /\ f.key = Null
       /\ phase = "committing"
       /\ f.kind = JournalEffect(JournalOutcome(decision))
       /\ journal \notin SettledJournal
  /\ phase = "committing" => f.kind \in JournalKinds /\ (mutation # 0 \/ Policy.journalRequired)

AllOwned == \A e \in DOMAIN effects : Owned(effects[e])

\* The engine has one sample at a time.
OneSample ==
  \A e, f \in DOMAIN effects :
    effects[e].kind = "sample_provider" /\ effects[f].kind = "sample_provider" => e = f

\* The part of LedgersValid about samples.
SamplesValid ==
  \A s \in Samples :
    /\ sample[s].status \in {"running", "completed", "failed"} => sample[s].attempt # 0
    /\ sample[s].retry =>
         /\ sample[s].status = "requested"
         /\ \E e \in DOMAIN effects : /\ effects[e].kind = "sample_provider"
                                      /\ effects[e].call = s
                                      /\ effects[e].status = "requested"

EffectsInv == AllOwned /\ EffectsUnique /\ OneSample /\ SamplesValid

\* AllOwned and SamplesValid say what EffectsOwned and LedgersValid say.
LEMMA OwnedParts ==
  ASSUME TypeOK, EffectsInv, BudgetsValid
  PROVE  EffectsOwned /\ LedgersValid
<1>1. LedgersValid
  BY DEF LedgersValid, BudgetsValid, EffectsInv, SamplesValid, AllOwned, Owned
<1>2. ASSUME NEW e \in DOMAIN effects
      PROVE  effects[e].kind = "sample_provider" => effects[e].call \in Samples
  BY DEF TypeOK, Effect
<1>3. EffectsOwned
  BY <1>2 DEF EffectsInv, AllOwned, Owned, EffectsOwned
<1> QED BY <1>1, <1>3

\* A command that leaves effects and their owners alone.
LEMMA EffectsKept ==
  ASSUME EffectsInv, UNCHANGED <<effVars, workVars>>,
         phase' = phase \/ (phase \notin {"verifying", "committing"} /\ phase' # "committing"),
         phase = "committing" => UNCHANGED <<decision, draft, verification, journal, mutation>>
  PROVE  EffectsInv'
<1>1. phase = "committing" => JournalOutcome(decision)' = JournalOutcome(decision)
  BY DEF JournalOutcome
<1>2. ASSUME NEW e \in DOMAIN effects PROVE Owned(effects[e])'
  <2>1. Owned(effects[e])
    BY DEF EffectsInv, AllOwned
  <2>2. effects'[e] = effects[e]
    BY DEF effVars
  <2> QED BY <1>1, <2>1, <2>2 DEF Owned, workVars, effVars, OpenCalls, PendingApprovals
<1>3. AllOwned'
  BY <1>2 DEF AllOwned, effVars
<1> QED BY <1>3 DEF EffectsInv, EffectsUnique, OneSample, SamplesValid, effVars, workVars

\* Effects that end, none of them a sample's.
LEMMA EffectsRemoved ==
  ASSUME EffectsTyped, EffectsInv, NEW gone, UpdateEffects(gone, <<>>), UNCHANGED sample,
         \A e \in gone \cap DOMAIN effects : effects[e].kind # "sample_provider",
         \A e \in DOMAIN effects' : Owned(effects[e])'
  PROVE  EffectsInv'
<1>1. /\ DOMAIN effects' = DOMAIN effects \ gone
      /\ \A e \in DOMAIN effects' : effects'[e] = effects[e]
  BY Removed
<1>2. EffectsUnique' /\ OneSample'
  BY <1>1 DEF EffectsInv, EffectsUnique, OneSample
<1>3. SamplesValid'
  BY <1>1 DEF EffectsInv, SamplesValid
<1> QED BY <1>2, <1>3 DEF EffectsInv, AllOwned

\* One more effect, with an identity no pending effect of its kind has.
LEMMA EffectsAdded ==
  ASSUME EffectsTyped, EffectsInv, NEW kind, NEW key, NEW call,
         UpdateEffects({}, <<NewEffect(kind, key, call)>>), UNCHANGED sample,
         kind # "sample_provider",
         \A e \in DOMAIN effects : effects[e].kind = kind => effects[e].key # key,
         \A e \in DOMAIN effects' : Owned(effects[e])'
  PROVE  EffectsInv'
<1>1. /\ seq + 1 \notin DOMAIN effects
      /\ DOMAIN effects' = DOMAIN effects \cup {seq + 1}
      /\ effects'[seq + 1] = NewEffect(kind, key, call)
      /\ \A e \in DOMAIN effects : effects'[e] = effects[e]
  BY Added
<1>2. effects'[seq + 1].kind = kind /\ effects'[seq + 1].key = key
  BY <1>1 DEF NewEffect
<1>3. EffectsUnique' /\ OneSample'
  BY <1>1, <1>2 DEF EffectsInv, EffectsUnique, OneSample
<1>4. SamplesValid'
  BY <1>1 DEF EffectsInv, SamplesValid
<1> QED BY <1>3, <1>4 DEF EffectsInv, AllOwned

\* A pending effect and what is known of it.
LEMMA KnownEffect ==
  ASSUME TypeOK, EffectsInv, NEW e \in DOMAIN effects
  PROVE  /\ Owned(effects[e])
         /\ effects[e] \in Effect
         /\ effects[e].kind \in EffectKinds
         /\ effects[e].status \in {"requested", "running"}
         /\ effects[e].attempt \in Nat
         /\ effects[e].kind = "sample_provider" =>
              effects[e].call \in Samples /\ effects[e].call # Null
BY IdentityAssumption DEF EffectsInv, AllOwned, TypeOK, Effect

\* An effect that is started or put back, with the sample it is about.
LEMMA EffectsSet ==
  ASSUME TypeOK, EffectsInv, NEW e \in DOMAIN effects, NEW status, NEW attempt,
         SetEffect(e, status, attempt),
         UNCHANGED <<calls, approvals, input, phase, decision, draft, verification,
                     journal, mutation>>,
         effects[e].kind # "sample_provider" => UNCHANGED <<sample, active>>,
         effects[e].kind = "sample_provider" =>
           /\ \A t \in Samples \ {effects[e].call} : sample'[t] = sample[t]
           /\ sample'[effects[e].call].attempt # 0
           /\ sample'[effects[e].call].retry =>
                sample'[effects[e].call].status = "requested" /\ status = "requested",
         Owned(effects[e])'
  PROVE  EffectsInv'
<1>1. /\ DOMAIN effects' = DOMAIN effects
      /\ \A f \in DOMAIN effects \ {e} : effects'[f] = effects[f]
      /\ effects'[e].kind = effects[e].kind
      /\ effects'[e].key = effects[e].key
      /\ effects'[e].call = effects[e].call
      /\ effects'[e].status = status
  BY SetOne, TypeParts
<1>2. EffectsUnique' /\ OneSample'
  BY <1>1 DEF EffectsInv, EffectsUnique, OneSample
<1>3. JournalOutcome(decision)' = JournalOutcome(decision)
  BY DEF JournalOutcome
<1>4. ASSUME NEW f \in DOMAIN effects \ {e} PROVE Owned(effects[f])'
  <2>1. /\ effects'[f] = effects[f] /\ Owned(effects[f])
        /\ effects[e].kind = "sample_provider" => effects[f].kind # "sample_provider"
    BY <1>1, KnownEffect DEF EffectsInv, OneSample
  <2> QED BY <1>3, <2>1 DEF Owned, OpenCalls, PendingApprovals
<1>5. SamplesValid'
  <2>1. CASE effects[e].kind = "sample_provider"
    <3>1. ASSUME NEW t \in Samples \ {effects[e].call} PROVE ~sample[t].retry
      BY <2>1 DEF EffectsInv, SamplesValid, OneSample
    <3> QED BY <1>1, <2>1, <3>1 DEF EffectsInv, SamplesValid
  <2>2. CASE effects[e].kind # "sample_provider"
    BY <1>1, <2>2 DEF EffectsInv, SamplesValid
  <2> QED BY <2>1, <2>2
<1> QED BY <1>1, <1>2, <1>4, <1>5 DEF EffectsInv, AllOwned

-----------------------------------------------------------------------------
\* Starting and ending effects keeps every effect owned.
LEMMA EffectsEffectStep ==
  ASSUME TypeOK, EffectsInv, EffectStep PROVE EffectsInv'
<1> USE TypeParts
<1>1. ASSUME NEW e \in DOMAIN effects, EffectStarted(e) PROVE EffectsInv'
  <2> DEFINE s == effects[e].call
  <2>1. /\ SetEffect(e, "running", effects[e].attempt + 1)
        /\ effects[e].attempt + 1 # 0 /\ effects[e].status = "requested"
    BY <1>1, KnownEffect DEF EffectStarted
  <2>2. UNCHANGED <<calls, approvals, input, phase, decision, draft, verification, journal,
                    mutation>>
    BY <1>1 DEF EffectStarted, lifeVars, proofVars
  <2>3. effects[e].kind # "sample_provider" => UNCHANGED <<sample, active>>
    BY <1>1 DEF EffectStarted
  <2>4. effects[e].kind = "sample_provider" =>
          /\ s \in Samples /\ active' = s
          /\ sample'[s].status = "running" /\ sample'[s].attempt = effects[e].attempt + 1
          /\ sample'[s].retry = FALSE
          /\ \A t \in Samples \ {s} : sample'[t] = sample[t]
    BY <1>1, KnownEffect DEF EffectStarted, WorkTyped, SampleState
  <2>5. Owned(effects[e])'
    <3>1. JournalOutcome(decision)' = JournalOutcome(decision)
      BY <2>2 DEF JournalOutcome
    <3> QED BY <2>1, <2>2, <2>3, <2>4, <3>1, SetOne, KnownEffect
            DEF Owned, OpenCalls, PendingApprovals, JournalKinds
  <2> QED BY <2>1, <2>2, <2>3, <2>4, <2>5, EffectsSet
<1>2. ASSUME NEW e \in DOMAIN effects, EffectRequeued(e) PROVE EffectsInv'
  <2> DEFINE s == effects[e].call
  <2>1. SetEffect(e, "requested", effects[e].attempt) /\ effects[e].status = "running"
    BY <1>2 DEF EffectRequeued
  <2>2. UNCHANGED <<calls, approvals, input, phase, decision, draft, verification, journal,
                    mutation>>
    BY <1>2 DEF EffectRequeued, lifeVars, proofVars
  <2>3. effects[e].kind # "sample_provider" => UNCHANGED <<sample, active>>
    BY <1>2 DEF EffectRequeued
  <2>4. effects[e].kind = "sample_provider" =>
          /\ s \in Samples /\ s # Null /\ active' = Null
          /\ sample'[s].status = "requested" /\ sample'[s].attempt # 0
          /\ \A t \in Samples \ {s} : sample'[t] = sample[t]
    BY <1>2, KnownEffect DEF EffectRequeued, WorkTyped, SampleState, EffectsInv, SamplesValid
  <2>5. Owned(effects[e])'
    <3>1. JournalOutcome(decision)' = JournalOutcome(decision)
      BY <2>2 DEF JournalOutcome
    <3> QED BY <2>1, <2>2, <2>3, <2>4, <3>1, SetOne, KnownEffect
            DEF Owned, OpenCalls, PendingApprovals, JournalKinds
  <2> QED BY <2>1, <2>2, <2>3, <2>4, <2>5, EffectsSet
<1>3. ASSUME NEW e \in DOMAIN effects, effects[e].kind # "sample_provider",
             EffectResultReceived(e)
      PROVE  EffectsInv'
  <2>1. UpdateEffects({e}, <<>>) /\ UNCHANGED <<workVars, lifeVars, proofVars>>
    BY <1>3 DEF EffectResultReceived
  <2>2. JournalOutcome(decision)' = JournalOutcome(decision)
    BY <2>1 DEF JournalOutcome, lifeVars, proofVars
  <2>3. ASSUME NEW f \in DOMAIN effects' PROVE Owned(effects[f])'
    <3>1. Owned(effects[f]) /\ effects'[f] = effects[f]
      BY <2>1, Removed, KnownEffect
    <3> QED BY <2>1, <2>2, <3>1
            DEF Owned, OpenCalls, PendingApprovals, workVars, lifeVars, proofVars
  <2> QED BY <1>3, <2>1, <2>3, EffectsRemoved DEF workVars
<1> QED BY <1>1, <1>2, <1>3 DEF EffectStep

\* A sample's commands keep every effect owned.
LEMMA EffectsSampleResult ==
  ASSUME TypeOK, EffectsInv, NEW e \in DOMAIN effects, NEW s \in Samples, NEW ok \in BOOLEAN,
         NEW text, NEW continued, NEW batch \in {<<>>} \cup Batches,
         ModelSampleResult(e, s, ok, text, continued, batch)
  PROVE  EffectsInv'
<1> USE TypeParts
<1>1. /\ phase = "sampling" /\ effects[e].kind = "sample_provider" /\ effects[e].call = s
      /\ active' = Null /\ sample[s].attempt # 0
      /\ UNCHANGED <<approvals, input, decision>>
  BY DEF ModelSampleResult, SampleResultMatches
<1>2. /\ sample'[s].attempt # 0 /\ sample'[s].retry = FALSE
      /\ \A t \in Samples \ {s} : sample'[t] = sample[t]
  BY <1>1 DEF ModelSampleResult, WorkTyped, SampleState
<1>3. SamplesValid'
  <2>1. ASSUME NEW t \in Samples \ {s} PROVE ~sample[t].retry
    BY <1>1 DEF EffectsInv, SamplesValid, OneSample
  <2> QED BY <1>2, <2>1 DEF EffectsInv, SamplesValid
<1>4. ASSUME NEW f \in DOMAIN effects \ {e}
      PROVE  /\ Owned(effects[f])
             /\ effects[f].kind \in {"execute_tool", "await_approval", "await_input"}
  <2>1. Owned(effects[f]) /\ effects[f].kind \in EffectKinds
    BY KnownEffect
  <2>2. effects[f].kind # "sample_provider"
    BY <1>1 DEF EffectsInv, OneSample
  <2> QED BY <1>1, <2>1, <2>2 DEF Owned, EffectKinds
<1>5. CASE ok /\ batch # <<>>
  <2>1. /\ ProposableBatch(batch) /\ UpdateEffects({e}, ToolEffects(batch))
        /\ calls' = OpenBatch(batch) /\ phase' = "executing_tools"
    BY <1>5 DEF ModelSampleResult
  <2>2. batch \in Seq(Calls) /\ DOMAIN batch = 1..Len(batch)
    BY BatchType
  <2>3. ASSUME NEW f \in DOMAIN effects'
        PROVE  \/ f \in DOMAIN effects \ {e} /\ effects'[f] = effects[f]
               \/ \E i \in DOMAIN batch :
                    f = seq + i /\ effects'[f] = NewEffect("execute_tool", batch[i], batch[i])
    BY <2>1, <2>2, AddedTools
  <2>4. \A c \in OpenCalls : c \in OpenCalls'
    BY <2>1 DEF OpenBatch, OpenCalls
  <2>5. ASSUME NEW f \in DOMAIN effects' PROVE Owned(effects[f])'
    <3>1. CASE f \in DOMAIN effects \ {e} /\ effects'[f] = effects[f]
      BY <1>1, <1>4, <2>1, <2>4, <3>1 DEF Owned, PendingApprovals, JournalKinds
    <3>2. ASSUME NEW i \in DOMAIN batch,
                 effects'[f] = NewEffect("execute_tool", batch[i], batch[i])
          PROVE  Owned(effects[f])'
      <4>1. batch[i] \in OpenCalls'
        BY <2>1, <2>2 DEF OpenBatch, InBatch, OpenCalls
      <4> QED BY <2>1, <3>2, <4>1 DEF Owned, NewEffect, JournalKinds
    <3> QED BY <2>3, <3>1, <3>2
  <2>6. EffectsUnique'
    <3>1. ASSUME NEW f \in DOMAIN effects, effects[f].kind = "execute_tool",
                 NEW i \in DOMAIN batch
          PROVE  effects[f].key # batch[i]
      BY <2>1, <3>1, KnownEffect DEF Owned, OpenCalls, ProposableBatch
    <3>2. \A i, j \in DOMAIN batch : batch[i] = batch[j] => i = j
      BY <2>1 DEF ProposableBatch
    <3>3. SUFFICES ASSUME NEW f \in DOMAIN effects', NEW g \in DOMAIN effects',
                          effects'[f].kind = effects'[g].kind,
                          effects'[f].key = effects'[g].key
                   PROVE  f = g
      BY DEF EffectsUnique
    <3>4. CASE f \in DOMAIN effects \ {e} /\ effects'[f] = effects[f]
      BY <2>3, <3>1, <3>3, <3>4 DEF EffectsInv, EffectsUnique, NewEffect
    <3>5. CASE g \in DOMAIN effects \ {e} /\ effects'[g] = effects[g]
      BY <2>3, <3>1, <3>3, <3>5 DEF EffectsInv, EffectsUnique, NewEffect
    <3>6. ASSUME NEW i \in DOMAIN batch, NEW j \in DOMAIN batch, f = seq + i, g = seq + j,
                 effects'[f] = NewEffect("execute_tool", batch[i], batch[i]),
                 effects'[g] = NewEffect("execute_tool", batch[j], batch[j])
          PROVE  f = g
      BY <3>2, <3>3, <3>6 DEF NewEffect
    <3> QED BY <2>3, <3>4, <3>5, <3>6
  <2>7. OneSample'
    <3>1. \A f \in DOMAIN effects' : effects'[f].kind # "sample_provider"
      BY <1>4, <2>3 DEF NewEffect
    <3> QED BY <3>1 DEF OneSample
  <2> QED BY <1>3, <2>5, <2>6, <2>7 DEF EffectsInv, AllOwned
<1>6. CASE ~(ok /\ batch # <<>>)
  <2>1. UpdateEffects({e}, <<>>) /\ UNCHANGED <<calls, phase>>
    BY <1>6 DEF ModelSampleResult
  <2>2. /\ DOMAIN effects' = DOMAIN effects \ {e}
        /\ \A f \in DOMAIN effects' : effects'[f] = effects[f]
    BY <2>1, Removed
  <2>3. ASSUME NEW f \in DOMAIN effects' PROVE Owned(effects[f])'
    BY <1>1, <1>4, <2>1, <2>2 DEF Owned, OpenCalls, PendingApprovals, JournalKinds
  <2> QED BY <1>3, <2>2, <2>3 DEF EffectsInv, AllOwned, EffectsUnique, OneSample
<1> QED BY <1>5, <1>6

LEMMA EffectsSampleStep ==
  ASSUME TypeOK, EffectsInv, SampleStep PROVE EffectsInv'
<1> USE TypeParts
<1>1. ASSUME NEW s \in Samples, ~SamplePending, ModelSampleRequested(s) PROVE EffectsInv'
  <2> DEFINE new == NewEffect("sample_provider", s, s)
  <2>1. /\ seq + 1 \notin DOMAIN effects
        /\ DOMAIN effects' = DOMAIN effects \cup {seq + 1}
        /\ effects'[seq + 1] = new
        /\ \A e \in DOMAIN effects : effects'[e] = effects[e]
    BY <1>1, Added DEF ModelSampleRequested
  <2>2. /\ phase = "sampling" /\ active = Null /\ sample[s].status = "none"
        /\ sample'[s].status = "requested" /\ sample'[s].retry = sample[s].retry
        /\ \A t \in Samples \ {s} : sample'[t] = sample[t]
        /\ UNCHANGED <<phase, decision, active, calls, approvals, input>>
    BY <1>1 DEF ModelSampleRequested, WorkTyped, SampleState, lifeVars
  <2>3. \A e \in DOMAIN effects : Owned(effects[e]) /\ effects[e].kind # "sample_provider"
    BY <1>1, KnownEffect DEF SamplePending
  <2>4. s # Null /\ s \in Samples
    BY IdentityAssumption
  <2>5. ASSUME NEW e \in DOMAIN effects' PROVE Owned(effects[e])'
    <3>1. CASE e \in DOMAIN effects
      BY <2>1, <2>2, <2>3, <3>1 DEF Owned, OpenCalls, PendingApprovals
    <3>2. CASE e = seq + 1
      <4>1. effects'[e] = [kind |-> "sample_provider", key |-> s, call |-> s,
                           status |-> "requested", attempt |-> 0]
        BY <2>1, <3>2 DEF NewEffect
      <4> QED BY <2>2, <2>4, <4>1 DEF Owned, JournalKinds
    <3> QED BY <2>1, <3>1, <3>2
  <2>6. SamplesValid' /\ EffectsUnique' /\ OneSample'
    BY <2>1, <2>2, <2>3 DEF EffectsInv, SamplesValid, EffectsUnique, OneSample, NewEffect
  <2> QED BY <2>5, <2>6 DEF EffectsInv, AllOwned
<1>2. ASSUME NEW e \in DOMAIN effects, NEW s \in Samples, NEW complete,
             ModelSampleProgress(e, s, complete)
      PROVE  EffectsInv'
  <2>1. /\ \A t \in Samples : /\ sample'[t].status = sample[t].status
                               /\ sample'[t].attempt = sample[t].attempt
                               /\ sample'[t].retry = sample[t].retry
        /\ UNCHANGED <<effects, phase, decision, draft, verification, journal, mutation,
                       active, calls, approvals, input>>
    BY <1>2 DEF ModelSampleProgress, WorkTyped, SampleState, lifeVars, effVars, proofVars
  <2>2. JournalOutcome(decision)' = JournalOutcome(decision)
    BY <2>1 DEF JournalOutcome
  <2>3. ASSUME NEW f \in DOMAIN effects PROVE Owned(effects[f])'
    BY <2>1, <2>2, KnownEffect DEF Owned, OpenCalls, PendingApprovals
  <2>4. SamplesValid'
    BY <2>1 DEF EffectsInv, SamplesValid
  <2> QED BY <2>1, <2>3, <2>4 DEF EffectsInv, AllOwned, EffectsUnique, OneSample
<1>3. ASSUME NEW e \in DOMAIN effects, NEW s \in Samples, ProviderRetry(e, s)
      PROVE  EffectsInv'
  <2>1. /\ SetEffect(e, "requested", effects[e].attempt)
        /\ effects[e].status = "running" /\ effects[e].kind = "sample_provider"
        /\ effects[e].call = s /\ s # Null /\ phase = "sampling"
    BY <1>3, KnownEffect DEF ProviderRetry, RunningSample
  <2>2. UNCHANGED <<calls, approvals, input, phase, decision, draft, verification, journal,
                    mutation>>
    BY <1>3 DEF ProviderRetry, lifeVars, proofVars
  <2>3. sample[s].status = "running" /\ sample[s].attempt # 0
    BY <2>1, KnownEffect DEF Owned, EffectsInv, SamplesValid
  <2>4. /\ active' = Null
        /\ sample'[s].status = "requested" /\ sample'[s].attempt # 0
        /\ \A t \in Samples \ {s} : sample'[t] = sample[t]
    BY <1>3, <2>3 DEF ProviderRetry, WorkTyped, SampleState
  <2>5. Owned(effects[e])'
    BY <2>1, <2>2, <2>4, SetOne, KnownEffect
       DEF Owned, OpenCalls, PendingApprovals, JournalKinds
  <2> QED BY <2>1, <2>2, <2>4, <2>5, EffectsSet
<1> QED BY <1>1, <1>2, <1>3, EffectsSampleResult DEF SampleStep

\* The effects a closing helper looks for are at most one, so it closes them all.
LEMMA OneOf ==
  ASSUME TypeOK, EffectsInv
  PROVE  \A kind, key : \A e, f \in Of(kind, key) : e = f /\ e <= f
BY DEF Of, EffectsInv, EffectsUnique, TypeOK

\* The commands of tool calls and approvals keep every effect owned.
LEMMA EffectsToolStep ==
  ASSUME TypeOK, PhaseFitsWork, EffectsInv, ToolStep PROVE EffectsInv'
<1> USE TypeParts
<1>1. ASSUME NEW batch \in Batches, ToolCallsProposed(batch) PROVE EffectsInv'
  <2>1. /\ ProposableBatch(batch) /\ UpdateEffects({}, ToolEffects(batch))
        /\ calls' = OpenBatch(batch) /\ phase' = "executing_tools"
        /\ phase \in {"sampling", "executing_tools"}
        /\ UNCHANGED <<sample, active, approvals, input>>
    BY <1>1 DEF ToolCallsProposed
  <2>2. batch \in Seq(Calls) /\ DOMAIN batch = 1..Len(batch)
    BY BatchType
  <2>3. ASSUME NEW f \in DOMAIN effects'
        PROVE  \/ f \in DOMAIN effects /\ effects'[f] = effects[f]
               \/ \E i \in DOMAIN batch :
                    f = seq + i /\ effects'[f] = NewEffect("execute_tool", batch[i], batch[i])
    BY <2>1, <2>2, AddedTools
  <2>4. \A c \in OpenCalls : c \in OpenCalls'
    BY <2>1 DEF OpenBatch, OpenCalls
  <2>5. ASSUME NEW f \in DOMAIN effects' PROVE Owned(effects[f])'
    <3>1. CASE f \in DOMAIN effects /\ effects'[f] = effects[f]
      BY <2>1, <2>4, <3>1, KnownEffect DEF Owned, PendingApprovals, JournalKinds
    <3>2. ASSUME NEW i \in DOMAIN batch,
                 effects'[f] = NewEffect("execute_tool", batch[i], batch[i])
          PROVE  Owned(effects[f])'
      <4>1. batch[i] \in OpenCalls'
        BY <2>1, <2>2 DEF OpenBatch, InBatch, OpenCalls
      <4> QED BY <2>1, <3>2, <4>1 DEF Owned, NewEffect, JournalKinds
    <3> QED BY <2>3, <3>1, <3>2
  <2>6. EffectsUnique'
    <3>1. ASSUME NEW f \in DOMAIN effects, effects[f].kind = "execute_tool",
                 NEW i \in DOMAIN batch
          PROVE  effects[f].key # batch[i]
      BY <2>1, <3>1, KnownEffect DEF Owned, OpenCalls, ProposableBatch
    <3>2. \A i, j \in DOMAIN batch : batch[i] = batch[j] => i = j
      BY <2>1 DEF ProposableBatch
    <3>3. SUFFICES ASSUME NEW f \in DOMAIN effects', NEW g \in DOMAIN effects',
                          effects'[f].kind = effects'[g].kind,
                          effects'[f].key = effects'[g].key
                   PROVE  f = g
      BY DEF EffectsUnique
    <3>4. CASE f \in DOMAIN effects /\ effects'[f] = effects[f]
      BY <2>3, <3>1, <3>3, <3>4 DEF EffectsInv, EffectsUnique, NewEffect
    <3>5. CASE g \in DOMAIN effects /\ effects'[g] = effects[g]
      BY <2>3, <3>1, <3>3, <3>5 DEF EffectsInv, EffectsUnique, NewEffect
    <3>6. ASSUME NEW i \in DOMAIN batch, NEW j \in DOMAIN batch, f = seq + i, g = seq + j,
                 effects'[f] = NewEffect("execute_tool", batch[i], batch[i]),
                 effects'[g] = NewEffect("execute_tool", batch[j], batch[j])
          PROVE  f = g
      BY <3>2, <3>3, <3>6 DEF NewEffect
    <3> QED BY <2>3, <3>4, <3>5, <3>6
  <2>7. OneSample'
    <3>1. \A f \in DOMAIN effects' : effects'[f].kind = "sample_provider" =>
             f \in DOMAIN effects /\ effects'[f] = effects[f]
      BY <2>3 DEF NewEffect
    <3> QED BY <3>1 DEF OneSample, EffectsInv
  <2>8. SamplesValid'
    <3>1. \A f \in DOMAIN effects : f \in DOMAIN effects' /\ effects'[f] = effects[f]
      BY <2>1 DEF UpdateEffects
    <3> QED BY <2>1, <3>1 DEF SamplesValid, EffectsInv
  <2> QED BY <2>5, <2>6, <2>7, <2>8 DEF EffectsInv, AllOwned
<1>2. ASSUME NEW e \in DOMAIN effects, NEW c \in Calls, NEW isError, NEW changes,
             ToolResult(e, c, isError, changes)
      PROVE  EffectsInv'
  <2> DEFINE gone == {e} \cup ApprovalEffects(ApprovalsOf(c))
  <2>1. /\ UpdateEffects(gone, <<>>)
        /\ effects[e].kind = "execute_tool" /\ effects[e].call = c
        /\ phase \in {"executing_tools", "awaiting_approval"}
        /\ phase' \notin {"committing", "verifying"}
        /\ calls' = [calls EXCEPT ![c] = "closed"]
        /\ approvals' = [r \in Requests |-> IF approvals[r] = c THEN Null ELSE approvals[r]]
        /\ UNCHANGED <<sample, active, input>>
    BY <1>2 DEF ToolResult, PhaseAfterTool
  <2>2. ApprovalEffects(ApprovalsOf(c)) = UNION {Of("await_approval", r) : r \in ApprovalsOf(c)}
    <3>1. \A r : Lowest(Of("await_approval", r)) = Of("await_approval", r)
      BY OneOf DEF Lowest
    <3> QED BY <3>1 DEF ApprovalEffects
  <2>3. ASSUME NEW f \in DOMAIN effects' PROVE Owned(effects[f])'
    <3>1. f \in DOMAIN effects \ gone /\ effects'[f] = effects[f] /\ Owned(effects[f])
      BY <2>1, Removed, KnownEffect
    <3>2. effects[f].kind = "execute_tool" => effects[f].call \in OpenCalls'
      <4>1. Owned(effects[e])
        BY KnownEffect
      <4> QED BY <2>1, <3>1, <4>1 DEF Owned, OpenCalls, EffectsInv, EffectsUnique, WorkTyped
    <3>3. effects[f].kind = "await_approval" =>
            effects[f].key \in PendingApprovals' /\ approvals'[effects[f].key] = effects[f].call
      BY <2>1, <2>2, <3>1 DEF Owned, PendingApprovals, ApprovalsOf, Of
    <3> QED BY <2>1, <3>1, <3>2, <3>3 DEF Owned, JournalKinds
  <2>4. \A f \in gone \cap DOMAIN effects : effects[f].kind # "sample_provider"
    BY <2>1, <2>2 DEF Of
  <2> HIDE DEF gone
  <2> QED BY <2>1, <2>3, <2>4, EffectsRemoved
<1>3. CASE AbortOpenCalls
  <2> DEFINE gone == {e \in DOMAIN effects : effects[e].kind = "await_approval"} \cup
                     UNION {Lowest(Of("execute_tool", c)) : c \in OpenCalls}
  <2>1. /\ UpdateEffects(gone, <<>>)
        /\ phase \in {"executing_tools", "awaiting_approval"} /\ phase' = "sampling"
        /\ UNCHANGED <<sample, active, input>>
    BY <1>3 DEF AbortOpenCalls
  <2>2. UNION {Lowest(Of("execute_tool", c)) : c \in OpenCalls}
          = UNION {Of("execute_tool", c) : c \in OpenCalls}
    <3>1. \A c : Lowest(Of("execute_tool", c)) = Of("execute_tool", c)
      BY OneOf DEF Lowest
    <3> QED BY <3>1
  <2>3. ASSUME NEW f \in DOMAIN effects' PROVE Owned(effects[f])'
    <3>1. f \in DOMAIN effects \ gone /\ effects'[f] = effects[f] /\ Owned(effects[f])
      BY <2>1, Removed, KnownEffect
    <3>2. effects[f].kind \notin {"execute_tool", "await_approval"}
      BY <2>2, <3>1 DEF Owned, Of
    <3> QED BY <2>1, <3>1, <3>2 DEF Owned, JournalKinds
  <2>4. \A f \in gone \cap DOMAIN effects : effects[f].kind # "sample_provider"
    BY <2>2 DEF Of
  <2> HIDE DEF gone
  <2> QED BY <2>1, <2>3, <2>4, EffectsRemoved
<1>4. ASSUME NEW r \in Requests, NEW c \in Calls, ApprovalRequired(r, c) PROVE EffectsInv'
  <2>1. /\ UpdateEffects({}, <<NewEffect("await_approval", r, c)>>)
        /\ phase \in {"executing_tools", "awaiting_approval"} /\ phase' = "awaiting_approval"
        /\ approvals[r] = Null /\ approvals' = [approvals EXCEPT ![r] = c]
        /\ UNCHANGED <<sample, active, input, calls>> /\ c # Null
    BY <1>4, IdentityAssumption DEF ApprovalRequired
  <2>2. \A e \in DOMAIN effects : effects[e].kind = "await_approval" => effects[e].key # r
    BY <2>1, KnownEffect DEF Owned, PendingApprovals
  <2>3. ASSUME NEW f \in DOMAIN effects' PROVE Owned(effects[f])'
    <3>1. CASE f \in DOMAIN effects
      <4>1. effects'[f] = effects[f] /\ Owned(effects[f])
        BY <2>1, <3>1, Added, KnownEffect
      <4>2. effects[f].kind = "await_approval" => approvals'[effects[f].key] = approvals[effects[f].key]
        BY <2>1, <2>2, <3>1, <4>1 DEF Owned, PendingApprovals, WorkTyped
      <4> QED BY <2>1, <4>1, <4>2 DEF Owned, PendingApprovals, JournalKinds, OpenCalls
    <3>2. CASE f = seq + 1
      <4>1. effects'[f] = NewEffect("await_approval", r, c)
        BY <2>1, <3>2, Added
      <4>2. approvals'[r] = c
        BY <2>1 DEF WorkTyped
      <4> QED BY <2>1, <4>1, <4>2 DEF NewEffect, Owned, JournalKinds, PendingApprovals
    <3> QED BY <2>1, <3>1, <3>2, Added
  <2> QED BY <2>1, <2>2, <2>3, EffectsAdded
<1>5. ASSUME NEW e \in DOMAIN effects, NEW r \in Requests, NEW canceled,
             ApprovalResult(e, r, canceled)
      PROVE  EffectsInv'
  <2> DEFINE gone == {e} \cup Of("await_approval", r)
  <2>1. /\ UpdateEffects(gone, <<>>) /\ effects[e].kind = "await_approval"
        /\ phase = "awaiting_approval" /\ phase' \in {"executing_tools", "awaiting_approval"}
        /\ approvals' = [approvals EXCEPT ![r] = Null]
        /\ UNCHANGED <<sample, active, input, calls>>
    <3>1. Lowest(Of("await_approval", r) \ {e}) = Of("await_approval", r) \ {e}
      BY OneOf DEF Lowest
    <3>2. {e} \cup (Of("await_approval", r) \ {e}) = gone
      OBVIOUS
    <3> QED BY <1>5, <3>1, <3>2 DEF ApprovalResult
  <2>2. ASSUME NEW f \in DOMAIN effects' PROVE Owned(effects[f])'
    <3>1. f \in DOMAIN effects \ gone /\ effects'[f] = effects[f] /\ Owned(effects[f])
      BY <2>1, Removed, KnownEffect
    <3>2. effects[f].kind = "await_approval" =>
            effects[f].key # r /\ approvals'[effects[f].key] = approvals[effects[f].key]
      BY <2>1, <3>1 DEF Of, Owned, PendingApprovals, WorkTyped
    <3> QED BY <2>1, <3>1, <3>2 DEF Owned, JournalKinds, PendingApprovals, OpenCalls
  <2>3. \A f \in gone \cap DOMAIN effects : effects[f].kind # "sample_provider"
    BY <2>1 DEF Of
  <2> HIDE DEF gone
  <2> QED BY <2>1, <2>2, <2>3, EffectsRemoved
<1> QED BY <1>1, <1>2, <1>3, <1>4, <1>5 DEF ToolStep

\* The commands of user input keep every effect owned.
LEMMA EffectsInputStep ==
  ASSUME TypeOK, PhaseFitsWork, EffectsInv, InputStep PROVE EffectsInv'
<1> USE TypeParts
<1>1. ASSUME NEW i \in Inputs, InputRequired(i) PROVE EffectsInv'
  <2>1. /\ UpdateEffects({}, <<NewEffect("await_input", i, Null)>>)
        /\ phase \in {"sampling", "executing_tools"} /\ phase' = "awaiting_input"
        /\ input' = i /\ i # Null /\ input = Null
        /\ UNCHANGED <<sample, active, calls, approvals>>
    BY <1>1, IdentityAssumption DEF InputRequired, PhaseFitsWork
  <2>2. \A e \in DOMAIN effects : Owned(effects[e]) /\ effects[e].kind # "await_input"
    BY <2>1, KnownEffect DEF Owned
  <2>3. ASSUME NEW f \in DOMAIN effects' PROVE Owned(effects[f])'
    <3>1. CASE f \in DOMAIN effects
      <4>1. effects'[f] = effects[f]
        BY <2>1, <3>1, Added
      <4> QED BY <2>1, <2>2, <3>1, <4>1 DEF Owned, PendingApprovals, JournalKinds, OpenCalls
    <3>2. CASE f = seq + 1
      <4>1. effects'[f] = NewEffect("await_input", i, Null)
        BY <2>1, <3>2, Added
      <4> QED BY <2>1, <4>1 DEF NewEffect, Owned, JournalKinds
    <3> QED BY <2>1, <3>1, <3>2, Added
  <2> QED BY <2>1, <2>2, <2>3, EffectsAdded
<1>2. ASSUME NEW i, NEW gone, ResolveInput(i, gone),
             \A e \in gone : e \in DOMAIN effects /\ effects[e].kind = "await_input"
      PROVE  EffectsInv'
  <2> DEFINE all == gone \cup (Of("await_input", i) \ gone)
  <2>1. /\ UpdateEffects(all, <<>>)
        /\ phase = "awaiting_input" /\ phase' \in {"executing_tools", "sampling"}
        /\ input = i
        /\ UNCHANGED <<sample, active, calls, approvals>>
    <3>1. Lowest(Of("await_input", i) \ gone) = Of("await_input", i) \ gone
      BY OneOf DEF Lowest
    <3> QED BY <1>2, <3>1 DEF ResolveInput
  <2>2. ASSUME NEW f \in DOMAIN effects' PROVE Owned(effects[f])'
    <3>1. f \in DOMAIN effects \ all /\ effects'[f] = effects[f] /\ Owned(effects[f])
      BY <2>1, Removed, KnownEffect
    <3>2. effects[f].kind # "await_input"
      BY <2>1, <3>1 DEF Of, Owned
    <3> QED BY <2>1, <3>1, <3>2 DEF Owned, JournalKinds, PendingApprovals, OpenCalls
  <2>3. \A f \in all \cap DOMAIN effects : effects[f].kind # "sample_provider"
    BY <1>2 DEF Of
  <2> HIDE DEF all
  <2> QED BY <2>1, <2>2, <2>3, EffectsRemoved
<1>3. ASSUME NEW i, InputResolved(i) PROVE EffectsInv'
  BY <1>2, <1>3 DEF InputResolved
<1>4. ASSUME NEW i, NEW e \in DOMAIN effects, InputResult(e, i) PROVE EffectsInv'
  BY <1>2, <1>4 DEF InputResult
<1> QED BY <1>1, <1>3, <1>4 DEF InputStep

\* Verification keeps every effect owned.
LEMMA EffectsProofStep ==
  ASSUME TypeOK, PhaseFitsWork, EffectsInv, ProofStep PROVE EffectsInv'
<1> USE TypeParts
<1>1. CASE VerificationStarted
  <2>1. /\ UpdateEffects({}, <<NewEffect("run_verification", Null, Null)>>)
        /\ phase = "sampling" /\ phase' = "verifying"
        /\ UNCHANGED <<sample, active, calls, approvals, input>>
    BY <1>1 DEF VerificationStarted, workVars
  <2>2. \A e \in DOMAIN effects : Owned(effects[e]) /\ effects[e].kind # "run_verification"
    BY <2>1, KnownEffect DEF Owned
  <2>3. ASSUME NEW f \in DOMAIN effects' PROVE Owned(effects[f])'
    <3>1. CASE f \in DOMAIN effects
      <4>1. effects'[f] = effects[f]
        BY <2>1, <3>1, Added
      <4> QED BY <2>1, <2>2, <3>1, <4>1 DEF Owned, PendingApprovals, JournalKinds, OpenCalls
    <3>2. CASE f = seq + 1
      <4>1. effects'[f] = NewEffect("run_verification", Null, Null)
        BY <2>1, <3>2, Added
      <4> QED BY <2>1, <4>1 DEF NewEffect, Owned, JournalKinds
    <3> QED BY <2>1, <3>1, <3>2, Added
  <2> QED BY <2>1, <2>2, <2>3, EffectsAdded
<1>2. ASSUME NEW e \in DOMAIN effects, NEW status, NEW key,
             VerificationFinished(e, status, key)
      PROVE  EffectsInv'
  <2>1. /\ UpdateEffects({e}, <<>>) /\ effects[e].kind = "run_verification"
        /\ phase = "verifying" /\ phase' = "sampling"
        /\ UNCHANGED <<sample, active, calls, approvals, input>>
    BY <1>2 DEF VerificationFinished, workVars
  <2>2. ASSUME NEW f \in DOMAIN effects' PROVE Owned(effects[f])'
    <3>1. f \in DOMAIN effects \ {e} /\ effects'[f] = effects[f] /\ Owned(effects[f])
      BY <2>1, Removed, KnownEffect
    <3>2. Owned(effects[e])
      BY KnownEffect
    <3>3. effects[f].kind # "run_verification"
      BY <2>1, <3>1, <3>2 DEF Owned, EffectsInv, EffectsUnique
    <3> QED BY <2>1, <3>1, <3>3 DEF Owned, JournalKinds, PendingApprovals, OpenCalls
  <2> QED BY <2>1, <2>2, EffectsRemoved
<1>3. ASSUME NEW candidate, CompletionEvaluated(candidate) \/ CompletionInvalidated
      PROVE  EffectsInv'
  BY <1>3, EffectsKept DEF CompletionEvaluated, CompletionInvalidated, lifeVars
<1> QED BY <1>1, <1>2, <1>3 DEF ProofStep

\* The terminal transaction keeps every effect owned.
LEMMA EffectsTerminalStep ==
  ASSUME TypeOK, DecisionFits, PhaseFitsWork, ProofFitsMutation, EffectsInv,
         phase \notin Terminal, TerminalStep
  PROVE  EffectsInv'
<1> USE TypeParts
<1>1. ASSUME NEW d, TerminalRequested(d) PROVE EffectsInv'
  <2> DEFINE kind == JournalEffect(JournalOutcome(d))
  <2>1. /\ phase # "committing" /\ DOMAIN effects = {} /\ phase' = "committing"
        /\ UNCHANGED <<sample, active, calls, approvals, input, mutation, journal>>
        /\ JournalOutcome(decision)' = JournalOutcome(d)
    BY <1>1 DEF TerminalRequested, TerminalReady, workVars, proofVars, JournalOutcome
  <2>2. kind \in JournalKinds
    BY JournalOutcomeType
  <2>3. \A s \in Samples : ~sample[s].retry
    BY <2>1 DEF EffectsInv, SamplesValid
  <2>4. CASE journal = "open" \/ Policy.journalRequired
    <3>1. UpdateEffects({}, <<NewEffect(kind, Null, Null)>>)
      BY <1>1, <2>4 DEF TerminalRequested
    <3>2. journal \notin SettledJournal /\ (mutation # 0 \/ Policy.journalRequired)
      BY <2>1, <2>4 DEF ProofFitsMutation
    <3>3. ASSUME NEW f \in DOMAIN effects' PROVE Owned(effects[f])'
      <4>1. effects'[f] = NewEffect(kind, Null, Null)
        BY <2>1, <3>1, Added
      <4> QED BY <2>1, <2>2, <3>2, <4>1 DEF NewEffect, Owned, JournalKinds
    <3>4. kind # "sample_provider"
      BY <2>2 DEF JournalKinds
    <3> HIDE DEF kind
    <3> QED BY <2>1, <3>1, <3>3, <3>4, EffectsAdded
  <2>5. CASE ~(journal = "open" \/ Policy.journalRequired)
    <3>1. UpdateEffects({}, <<>>)
      BY <1>1, <2>5 DEF TerminalRequested
    <3>2. DOMAIN effects' = {}
      BY <2>1, <3>1, Removed
    <3> QED BY <2>1, <3>1, <3>2, EffectsRemoved
  <2> QED BY <2>4, <2>5
<1>2. ASSUME NEW e \in DOMAIN effects, NEW error \in BOOLEAN, JournalResult(e, error)
      PROVE  EffectsInv'
  <2>1. /\ phase = "committing" /\ effects[e].kind = JournalEffect(JournalOutcome(decision))
        /\ UNCHANGED <<sample, active, calls, approvals, input, phase, decision, draft,
                       verification, mutation>>
    BY <1>2 DEF JournalResult, lifeVars, workVars
  <2>2. effects[e].kind \in JournalKinds /\ effects[e].kind # "sample_provider"
    BY <2>1, JournalOutcomeType DEF JournalKinds
  <2>3. CASE error
    <3>1. SetEffect(e, "requested", effects[e].attempt) /\ UNCHANGED journal
      BY <1>2, <2>3 DEF JournalResult
    <3>2. JournalOutcome(decision)' = JournalOutcome(decision)
      BY <2>1 DEF JournalOutcome
    <3>3. Owned(effects[e])'
      BY <2>1, <2>2, <3>1, <3>2, SetOne, KnownEffect DEF Owned, JournalKinds
    <3> QED BY <2>1, <2>2, <3>1, <3>3, EffectsSet
  <2>4. CASE ~error
    <3>1. UpdateEffects({e}, <<>>)
      BY <1>2, <2>4 DEF JournalResult
    <3>2. \A f \in DOMAIN effects : f = e
      BY <2>1, <2>2, KnownEffect DEF Owned, EffectsInv, EffectsUnique
    <3>3. DOMAIN effects' = {}
      BY <3>1, <3>2, Removed
    <3> QED BY <2>1, <2>2, <3>1, <3>3, EffectsRemoved
  <2> QED BY <2>3, <2>4
<1>3. CASE FinishTerminal
  <2>1. DOMAIN effects = {}
    <3> SUFFICES ASSUME NEW e \in DOMAIN effects PROVE FALSE
      OBVIOUS
    <3>1. phase = "committing" /\ Owned(effects[e])
      BY <1>3, KnownEffect DEF FinishTerminal
    <3>2. mutation # 0 \/ Policy.journalRequired
      BY <3>1 DEF Owned
    <3>3. journal = JournalOutcome(decision) /\ journal \notin SettledJournal
      BY <1>3, <3>1, <3>2 DEF FinishTerminal, Owned
    <3> QED BY <3>3, JournalOutcomeType
  <2>2. DOMAIN effects' = {} /\ UNCHANGED sample
    BY <1>3, <2>1 DEF FinishTerminal, effVars, workVars
  <2> QED BY <2>1, <2>2 DEF EffectsInv, AllOwned, EffectsUnique, OneSample, SamplesValid
<1> QED BY <1>1, <1>2, <1>3 DEF TerminalStep

\* Every command keeps every effect owned and unique.
LEMMA EffectsStep ==
  TypeOK /\ DecisionFits /\ PhaseFitsWork /\ ProofFitsMutation /\ EffectsInv /\ Next
    => EffectsInv'
<1> SUFFICES ASSUME TypeOK, DecisionFits, PhaseFitsWork, ProofFitsMutation, EffectsInv, Next
             PROVE  EffectsInv'
  OBVIOUS
<1>1. CASE LifeStep
  BY <1>1, EffectsKept DEF LifeStep, StartTurn, PreparationFinished, RecoveryRequested,
                           CancelRequested, proofVars
<1>2. CASE OutputStep
  BY <1>2, EffectsKept DEF OutputStep, ModelText, ReleaseOutput, DiscardOutput, lifeVars,
                           proofVars
<1>3. CASE DecisionStep
  BY <1>3, EffectsKept DEF DecisionStep, EvaluateTurnStep, ConvergenceRequested,
                           ObserveProgress, ConvergenceFinalizationStarted, lifeVars, proofVars
<1> QED BY <1>1, <1>2, <1>3, EffectsEffectStep, EffectsSampleStep, EffectsToolStep,
           EffectsInputStep, EffectsProofStep, EffectsTerminalStep DEF Next

=============================================================================
