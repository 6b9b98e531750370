------------------------- MODULE TurnKernelTheorems -------------------------
(***************************************************************************)
(* What holds of every turn: the theorems that TurnKernelSafety's          *)
(* preservation lemmas add up to, for every set of identities, every       *)
(* policy and all bounds.                                                  *)
(***************************************************************************)
EXTENDS TurnKernelSafety

-----------------------------------------------------------------------------
(* Output, and the contract of a completed turn *)

\* Output is only eligible while there is some; the final commit consumes it.
EligibleHasOutput == phase \notin Terminal /\ eligible => output

\* A turn that is declared complete has the changes its policy asks for.
AcceptedFits == completion.kind = "accepted" /\ Policy.workspaceChange => mutation # 0

\* What a verification's action says of its status and of the policy.
VerdictFits ==
  /\ verification.action \in {"reported", "reverted"} => ~Policy.mustPass
  /\ verification.action = "passed" => verification.status = "passed"

\* A turn that is being committed as completed still meets the completion contract.
ContractKept ==
  decision.kind = "completed" =>
    /\ eligible
    /\ Policy.workspaceChange => mutation # 0
    /\ Policy.requiresCompletion =>
         completion.kind = "accepted" /\ completion.mutation = mutation
    /\ ~NeedsVerification

OutputInv == EligibleHasOutput /\ AcceptedFits /\ VerdictFits /\ ContractKept

\* A new turn owes nothing.
LEMMA OutputInit == Init => OutputInv
BY DEF Init, OutputInv, EligibleHasOutput, AcceptedFits, VerdictFits, ContractKept,
       NoDecision, NoCompletion, NotVerified

\* A command that leaves proof, output and decision alone.
LEMMA OutputKept ==
  ASSUME OutputInv, phase \notin Terminal,
         UNCHANGED <<decision, outVars, mutation, verification, completion>>
  PROVE  OutputInv'
BY DEF OutputInv, EligibleHasOutput, AcceptedFits, VerdictFits, ContractKept,
       outVars, NeedsVerification, VerificationCurrent

\* A command of a turn that has not been decided.
LEMMA OutputUndecided ==
  ASSUME DecisionFits, OutputInv, phase \notin {"committing"} \cup Terminal,
         UNCHANGED decision, EligibleHasOutput', AcceptedFits', VerdictFits'
  PROVE  OutputInv'
BY DEF OutputInv, DecisionFits, ContractKept, NoDecision

\* Every command keeps the output and the completion contract in step.
LEMMA OutputStepFits == TypeOK /\ DecisionFits /\ OutputInv /\ Next => OutputInv'
<1> SUFFICES ASSUME TypeOK, DecisionFits, OutputInv, Next PROVE OutputInv'
  OBVIOUS
<1>0. phase \notin Terminal
  BY DEF Next
<1> USE <1>0, OutputKept
<1>1. CASE LifeStep
  <2>1. ASSUME NEW resumed, NEW changes, RecoveryRequested(resumed, changes)
        PROVE  OutputInv'
    <3>1. /\ phase = "created" /\ UNCHANGED <<phase, decision, verification, completion, outVars>>
          /\ mutation' = 1 \/ mutation' = mutation
      BY <2>1 DEF RecoveryRequested
    <3>2. EligibleHasOutput' /\ AcceptedFits' /\ VerdictFits'
      BY <3>1 DEF OutputInv, EligibleHasOutput, AcceptedFits, VerdictFits, outVars
    <3> QED BY <3>1, <3>2, OutputUndecided
  <2>2. CASE StartTurn \/ PreparationFinished \/ \E reason : CancelRequested(reason)
    BY <2>2 DEF StartTurn, PreparationFinished, CancelRequested, proofVars
  <2> QED BY <1>1, <2>1, <2>2 DEF LifeStep
<1>2. CASE EffectStep
  BY <1>2 DEF EffectStep, EffectStarted, EffectRequeued, EffectResultReceived, lifeVars,
              proofVars
<1>3. CASE SampleStep
  <2>1. ASSUME NEW e, NEW s, NEW complete,
               \/ ModelSampleRequested(s)
               \/ ModelSampleProgress(e, s, complete)
               \/ ProviderRetry(e, s)
        PROVE  OutputInv'
    BY <2>1 DEF ModelSampleRequested, ModelSampleProgress, ProviderRetry, lifeVars, proofVars
  <2>2. ASSUME NEW e, NEW s, NEW ok, NEW text, NEW continued, NEW batch,
               ModelSampleResult(e, s, ok, text, continued, batch)
        PROVE  OutputInv'
    <3>1. /\ phase = "sampling" /\ (eligible' => eligible) /\ (output => output')
          /\ completion' \in {completion, NoCompletion}
          /\ UNCHANGED <<decision, mutation, verification>>
      BY <2>2 DEF ModelSampleResult
    <3>2. EligibleHasOutput' /\ AcceptedFits' /\ VerdictFits'
      BY <3>1 DEF OutputInv, EligibleHasOutput, AcceptedFits, VerdictFits, NoCompletion
    <3> QED BY <3>1, <3>2, OutputUndecided
  <2> QED BY <1>3, <2>1, <2>2 DEF SampleStep
<1>4. CASE OutputStep
  <2>1. /\ phase \in Running /\ UNCHANGED <<decision, mutation, verification, completion>>
        /\ eligible' => output'
    BY <1>4 DEF OutputStep, ModelText, ReleaseOutput, DiscardOutput, lifeVars, proofVars,
                Running
  <2>2. EligibleHasOutput' /\ AcceptedFits' /\ VerdictFits'
    BY <2>1 DEF OutputInv, EligibleHasOutput, AcceptedFits, VerdictFits
  <2> QED BY <2>1, <2>2, OutputUndecided DEF Running
<1>5. CASE ToolStep
  <2>1. ASSUME NEW batch, ToolCallsProposed(batch) PROVE OutputInv'
    <3>1. /\ phase \in {"sampling", "executing_tools"} /\ completion' = NoCompletion
          /\ eligible' = FALSE /\ UNCHANGED <<decision, mutation, verification>>
      BY <2>1 DEF ToolCallsProposed
    <3>2. EligibleHasOutput' /\ AcceptedFits' /\ VerdictFits'
      BY <3>1 DEF OutputInv, EligibleHasOutput, AcceptedFits, VerdictFits, NoCompletion
    <3> QED BY <3>1, <3>2, OutputUndecided
  <2>2. ASSUME NEW e, NEW c, NEW isError, NEW changes \in BOOLEAN,
               ToolResult(e, c, isError, changes)
        PROVE  OutputInv'
    <3>1. CASE changes
      <4>1. /\ phase \in {"executing_tools", "awaiting_approval"}
            /\ completion' = NoCompletion /\ verification' = NotVerified
            /\ UNCHANGED <<decision, outVars>>
        BY <2>2, <3>1 DEF ToolResult
      <4>2. EligibleHasOutput' /\ AcceptedFits' /\ VerdictFits'
        BY <4>1 DEF OutputInv, EligibleHasOutput, AcceptedFits, VerdictFits, NoCompletion,
                    NotVerified, outVars
      <4> QED BY <4>1, <4>2, OutputUndecided
    <3>2. CASE ~changes
      BY <2>2, <3>2 DEF ToolResult, proofVars
    <3> QED BY <3>1, <3>2
  <2>3. ASSUME NEW e, NEW r, NEW c, NEW canceled,
               AbortOpenCalls \/ ApprovalRequired(r, c) \/ ApprovalResult(e, r, canceled)
        PROVE  OutputInv'
    BY <2>3 DEF AbortOpenCalls, ApprovalRequired, ApprovalResult, proofVars
  <2> QED BY <1>5, <2>1, <2>2, <2>3 DEF ToolStep
<1>6. CASE InputStep
  BY <1>6 DEF InputStep, InputRequired, InputResolved, InputResult, ResolveInput, proofVars
<1>7. CASE ProofStep
  <2>1. CASE VerificationStarted
    BY <2>1 DEF VerificationStarted, proofVars
  <2>2. ASSUME NEW e, NEW status \in {"passed", "failed", "unavailable"}, NEW key,
               VerificationFinished(e, status, key)
        PROVE  OutputInv'
    <3> DEFINE repair == status # "passed" /\ ~Policy.soft /\ ~Exhausted("verification", key)
    <3>1. /\ VerificationAction(status, repair) \in {"reported", "reverted"} => ~Policy.mustPass
          /\ VerificationAction(status, repair) = "passed" => status = "passed"
      BY repair \in BOOLEAN DEF VerificationAction
    <3>2. verification' = [status |-> status, action |-> VerificationAction(status, repair),
                           mutation |-> mutation]
      BY <2>2 DEF VerificationFinished
    <3>3. /\ phase = "verifying" /\ completion' \in {completion, NoCompletion}
          /\ UNCHANGED <<decision, mutation, outVars>>
      BY <2>2 DEF VerificationFinished
    <3>4. EligibleHasOutput' /\ AcceptedFits' /\ VerdictFits'
      BY <3>1, <3>2, <3>3 DEF OutputInv, EligibleHasOutput, AcceptedFits, VerdictFits,
                              NoCompletion, outVars
    <3> QED BY <3>3, <3>4, OutputUndecided
  <2>3. ASSUME NEW candidate \in Candidates, CompletionEvaluated(candidate)
        PROVE  OutputInv'
    <3>1. CompletionKind(candidate) = "accepted" /\ Policy.workspaceChange => mutation # 0
      BY DEF CompletionKind, Candidates
    <3>2. /\ phase = "sampling" /\ (eligible' => eligible) /\ (output => output')
          /\ completion' = [kind |-> CompletionKind(candidate), mutation |-> mutation]
          /\ UNCHANGED <<decision, mutation, verification>>
      BY <2>3 DEF CompletionEvaluated, lifeVars
    <3>3. EligibleHasOutput' /\ AcceptedFits' /\ VerdictFits'
      BY <3>1, <3>2 DEF OutputInv, EligibleHasOutput, AcceptedFits, VerdictFits
    <3> QED BY <3>2, <3>3, OutputUndecided
  <2>4. CASE CompletionInvalidated
    <3>1. /\ phase = "sampling" /\ completion' = NoCompletion
          /\ UNCHANGED <<decision, mutation, verification, outVars>>
      BY <2>4 DEF CompletionInvalidated, lifeVars
    <3>2. EligibleHasOutput' /\ AcceptedFits' /\ VerdictFits'
      BY <3>1 DEF OutputInv, EligibleHasOutput, AcceptedFits, VerdictFits, NoCompletion, outVars
    <3> QED BY <3>1, <3>2, OutputUndecided
  <2> QED BY <1>7, <2>1, <2>2, <2>3, <2>4 DEF ProofStep
<1>8. CASE DecisionStep
  BY <1>8 DEF DecisionStep, EvaluateTurnStep, ConvergenceRequested, ObserveProgress,
              ConvergenceFinalizationStarted, lifeVars, proofVars
<1>9. CASE TerminalStep
  <2>1. ASSUME NEW d, TerminalRequested(d) PROVE OutputInv'
    <3>1. /\ d.kind = "completed" => eligible /\ CompletionContract
          /\ decision' = d /\ UNCHANGED <<mutation, verification, completion, outVars>>
      BY <2>1 DEF TerminalRequested, TerminalReady, proofVars
    <3>2. ContractKept'
      BY <3>1 DEF ContractKept, CompletionContract, NeedsVerification, VerificationCurrent,
                  outVars
    <3> QED BY <3>1, <3>2 DEF OutputInv, EligibleHasOutput, AcceptedFits, VerdictFits, outVars
  <2>2. ASSUME NEW e, NEW error, JournalResult(e, error) PROVE OutputInv'
    BY <2>2 DEF JournalResult, lifeVars
  <2>3. CASE FinishTerminal
    <3>1. decision.kind \in Terminal
      BY <2>3 DEF FinishTerminal, DecisionFits, TypeOK, Decision
    <3>2. /\ phase' \in Terminal
          /\ UNCHANGED <<decision, eligible, mutation, verification, completion>>
      BY <2>3, <3>1 DEF FinishTerminal, proofVars
    <3> QED BY <3>2 DEF OutputInv, EligibleHasOutput, AcceptedFits, VerdictFits, ContractKept,
                        NeedsVerification, VerificationCurrent
  <2> QED BY <1>9, <2>1, <2>2, <2>3 DEF TerminalStep
<1> QED BY <1>1, <1>2, <1>3, <1>4, <1>5, <1>6, <1>7, <1>8, <1>9 DEF Next

-----------------------------------------------------------------------------
(* The inductive invariant *)

\* A turn that ends does so as its decision says, owing nothing.
LEMMA TerminalFits ==
  ASSUME TypeOK, DecisionFits, PhaseFitsWork, ProofFitsMutation, EffectsInv, OutputInv,
         DecisionFits', Next
  PROVE  TerminalValid'
<1> USE DEF DecisionFits
<1>1. CASE phase' \notin Terminal
  BY <1>1 DEF TerminalValid, Terminal
<1>2. CASE phase' \in Terminal
  <2>1. FinishTerminal
    <3>1. phase \notin Terminal
      BY DEF Next
    <3>2. TerminalStep
      BY <1>2, <3>1, OnlyTerminalDecides DEF Next, Running, Terminal
    <3>3. ASSUME NEW d, NEW e, NEW error, TerminalRequested(d) \/ JournalResult(e, error)
          PROVE  phase' = "committing"
      BY <3>3 DEF TerminalRequested, JournalResult, lifeVars
    <3> QED BY <1>2, <3>2, <3>3 DEF TerminalStep, Terminal
  <2>2. /\ phase = "committing" /\ phase' = decision.kind
        /\ final' = output /\ output' = FALSE /\ (decision.kind # "completed" => ~output)
        /\ UNCHANGED <<draft, decision, eligible, workVars, effVars, proofVars>>
    BY <2>1 DEF FinishTerminal
  <2>3. DOMAIN effects = {}
    <3> SUFFICES ASSUME NEW e \in DOMAIN effects PROVE FALSE
      OBVIOUS
    <3>1. Owned(effects[e]) /\ (mutation # 0 \/ Policy.journalRequired)
      BY <2>2, KnownEffect DEF Owned
    <3>2. journal = JournalOutcome(decision) /\ journal \notin SettledJournal
      BY <2>1, <2>2, <3>1 DEF FinishTerminal, Owned
    <3> QED BY <3>2, JournalOutcomeType
  <2>4. /\ OpenCalls' = {} /\ PendingApprovals' = {} /\ input' = Null /\ active' = Null
        /\ DOMAIN effects' = {}
    BY <2>2, <2>3 DEF PhaseFitsWork, OpenCalls, PendingApprovals, workVars, effVars
  <2>5. final' <=> decision'.kind = "completed"
    BY <2>2 DEF OutputInv, ContractKept, EligibleHasOutput, Terminal
  <2>6. journal' = IF mutation' # 0 \/ Policy.journalRequired
                   THEN JournalOutcome(decision)' ELSE "none"
    <3>1. JournalOutcome(decision)' = JournalOutcome(decision)
      BY <2>2 DEF JournalOutcome, proofVars
    <3> QED BY <2>1, <2>2, <3>1 DEF FinishTerminal, proofVars
  <2>7. ContractKept'
    BY <2>2 DEF OutputInv, ContractKept, NeedsVerification, VerificationCurrent, proofVars
  <2> QED BY <2>2, <2>4, <2>5, <2>6, <2>7 DEF TerminalValid, ContractKept
<1> QED BY <1>1, <1>2

\* The inductive invariant of the turn state machine.
KernelInv ==
  /\ TypeOK /\ DecisionFits
  /\ PhaseFitsWork
  /\ ProofFitsMutation /\ Fresh
  /\ BudgetsValid /\ RepairsBounded
  /\ EffectsInv
  /\ OutputInv
  /\ TerminalValid

\* A new turn satisfies it.
LEMMA KernelInit == Init => KernelInv
<1> SUFFICES ASSUME Init PROVE KernelInv
  OBVIOUS
<1>1. DecisionFits /\ TerminalValid
  BY DEF Init, DecisionFits, TerminalValid, Terminal
<1>2. ProofFitsMutation /\ Fresh
  BY DEF Init, ProofFitsMutation, Fresh, SettledJournal, NoCompletion, NotVerified
<1>3. BudgetsValid /\ RepairsBounded
  <2>1. \A k \in RepairKinds : budget[k].consecutive = 0 /\ budget[k].steps = 0
    BY DEF Init
  <2>2. \A k \in RepairKinds : Policy.limit[k] \in Nat
    BY PolicyAssumption DEF PolicyType
  <2> QED BY <2>1, <2>2 DEF Init, BudgetsValid, RepairsBounded
<1>4. EffectsInv
  <2>1. DOMAIN effects = {}
    BY DEF Init
  <2>2. \A s \in Samples : sample[s].status = "none" /\ sample[s].retry = FALSE
    BY DEF Init
  <2> QED BY <2>1, <2>2 DEF EffectsInv, AllOwned, EffectsUnique, OneSample, SamplesValid
<1> QED BY <1>1, <1>2, <1>3, <1>4, TypeInit, PhaseInit, OutputInit DEF KernelInv

\* Every command keeps it.
LEMMA KernelStep == KernelInv /\ Next => KernelInv'
<1> SUFFICES ASSUME KernelInv, Next PROVE KernelInv'
  OBVIOUS
<1> USE DEF KernelInv
<1>1. TypeOK'
  BY TypeLifeStep, TypeEffectStep, TypeSampleStep, TypeOutputStep, TypeToolStep,
     TypeInputStep, TypeProofStep, TypeDecisionStep, TypeTerminalStep DEF Next
<1>2. DecisionFits'
  BY DecisionStepFits
<1>3. PhaseFitsWork'
  BY PhaseStep
<1>4. ProofFitsMutation' /\ Fresh'
  BY ProofFitsStep
<1>5. BudgetsValid' /\ RepairsBounded'
  BY BudgetStep
<1>6. EffectsInv'
  BY EffectsStep
<1>7. OutputInv'
  BY OutputStepFits
<1>8. TerminalValid'
  BY <1>2, TerminalFits
<1> QED BY <1>1, <1>2, <1>3, <1>4, <1>5, <1>6, <1>7, <1>8

\* It does not change when nothing does.
LEMMA KernelStutter == KernelInv /\ UNCHANGED vars => KernelInv'
<1> SUFFICES ASSUME KernelInv, UNCHANGED vars PROVE KernelInv'
  OBVIOUS
<1> USE DEF KernelInv, vars, lifeVars, workVars, effVars, proofVars, stepVars, outVars
<1>1. TypeOK'
  BY UnchangedTyped, TypeParts
<1>2. DecisionFits' /\ PhaseFitsWork'
  BY PhaseUnchanged DEF DecisionFits, phaseVars
<1>3. ProofFitsMutation' /\ Fresh'
  BY ProofKept DEF PhaseMoves
<1>4. BudgetsValid' /\ RepairsBounded'
  BY DEF BudgetsValid, RepairsBounded
<1>5. EffectsInv'
  BY EffectsKept
<1>6. OutputInv'
  BY DEF OutputInv, EligibleHasOutput, AcceptedFits, VerdictFits, ContractKept,
         NeedsVerification, VerificationCurrent
<1>7. TerminalValid'
  BY DEF TerminalValid, OpenCalls, PendingApprovals, JournalOutcome, NeedsVerification,
         VerificationCurrent
<1> QED BY <1>1, <1>2, <1>3, <1>4, <1>5, <1>6, <1>7

\* KernelInv is an invariant of every turn.
LEMMA KernelInvariant == Spec => []KernelInv
<1>1. KernelInv /\ [Next]_vars => KernelInv'
  BY KernelStep, KernelStutter
<1> QED BY <1>1, KernelInit, PTL DEF Spec

-----------------------------------------------------------------------------
(* Theorems *)

\* Apply's last check never refuses what a handler accepted: every state a sequence of
\* commands leads to passes Validate (invariants.go).
THEOREM Validated == Spec => []Validate
<1>1. KernelInv => Validate
  BY OwnedParts DEF KernelInv, Validate
<1> QED BY <1>1, KernelInvariant, PTL

\* No external work is left pending for nobody: every pending effect has the owner that
\* waits for it, whatever is started, requeued, retried, aborted or finished in between.
THEOREM EffectsHaveOwners == Spec => []EffectsOwned
<1>1. KernelInv => EffectsOwned
  BY OwnedParts DEF KernelInv
<1> QED BY <1>1, KernelInvariant, PTL

\* Closing the first effect that matches closes the only one.
THEOREM EffectsAreUnique == Spec => []EffectsUnique
<1>1. KernelInv => EffectsUnique
  BY DEF KernelInv, EffectsInv
<1> QED BY <1>1, KernelInvariant, PTL

\* No repair is granted more consecutive rounds for one progress key than its limit.
THEOREM RepairsAreBounded == Spec => []RepairsBounded
<1>1. KernelInv => RepairsBounded
  BY DEF KernelInv
<1> QED BY <1>1, KernelInvariant, PTL

\* A turn whose policy demands a passing verification completes with changes only when the
\* verification of its last mutation passed.
THEOREM CompletedIsVerified == Spec => []MustPassVerified
<1>1. KernelInv => MustPassVerified
  BY DEF KernelInv, TerminalValid, OutputInv, VerdictFits, NeedsVerification,
         VerificationCurrent, MustPassVerified
<1> QED BY <1>1, KernelInvariant, PTL

\* A completed turn keeps its changes unless its verification reverted them, and an
\* interrupted one can be continued from them.
THEOREM WorkIsKept == Spec => []WorkKept
<1>1. KernelInv => WorkKept
  <2> SUFFICES ASSUME KernelInv PROVE WorkKept
    OBVIOUS
  <2>1. phase \in Terminal /\ mutation # 0 =>
          phase = decision.kind /\ journal = JournalOutcome(decision)
    BY DEF KernelInv, TerminalValid
  <2> QED BY <2>1 DEF WorkKept, JournalOutcome, Terminal
<1> QED BY <1>1, KernelInvariant, PTL

\* EvaluateTurnStep asks for completion only when nothing refuses it afterwards.
THEOREM CompletionIsReady == Spec => CompleteIsReady
<1>1. KernelInv /\ [Next]_vars =>
        (next # "complete" /\ next' = "complete" => CompletionContract')
  <2> SUFFICES ASSUME KernelInv, Next, next # "complete", next' = "complete"
               PROVE  CompletionContract'
    BY DEF vars, stepVars
  <2>1. DecisionStep
    <3>1. CASE LifeStep
      BY <3>1 DEF LifeStep, StartTurn, PreparationFinished, RecoveryRequested,
                  CancelRequested, stepVars
    <3>2. CASE EffectStep
      BY <3>2 DEF EffectStep, EffectStarted, EffectRequeued, EffectResultReceived, stepVars
    <3>3. CASE SampleStep
      <4>1. ASSUME NEW e, NEW s, NEW ok, NEW text, NEW continued, NEW batch,
                   ModelSampleResult(e, s, ok, text, continued, batch)
            PROVE  FALSE
        BY <4>1 DEF ModelSampleResult
      <4> QED BY <3>3, <4>1 DEF SampleStep, ModelSampleRequested, ModelSampleProgress,
                                ProviderRetry, stepVars
    <3>4. CASE OutputStep
      BY <3>4 DEF OutputStep, ModelText, ReleaseOutput, DiscardOutput, stepVars
    <3>5. CASE ToolStep
      BY <3>5 DEF ToolStep, ToolCallsProposed, ToolResult, AbortOpenCalls, ApprovalRequired,
                  ApprovalResult, stepVars
    <3>6. CASE InputStep
      BY <3>6 DEF InputStep, InputRequired, InputResolved, InputResult, ResolveInput, stepVars
    <3>7. CASE ProofStep
      BY <3>7 DEF ProofStep, VerificationStarted, VerificationFinished, CompletionEvaluated,
                  CompletionInvalidated, stepVars
    <3>8. CASE TerminalStep
      BY <3>8 DEF TerminalStep, TerminalRequested, JournalResult, FinishTerminal, stepVars
    <3> QED BY <3>1, <3>2, <3>3, <3>4, <3>5, <3>6, <3>7, <3>8 DEF Next
  <2>2. PICK key \in Keys : EvaluateTurnStep(key)
    BY <2>1 DEF DecisionStep, ConvergenceRequested, ObserveProgress, BeginConvergence,
                ConvergenceFinalizationStarted
  <2>3. StepCase = "complete" /\ phase = "sampling" /\ UNCHANGED proofVars
    BY <2>2 DEF EvaluateTurnStep, Converge, Repair, BeginConvergence
  <2>4. /\ ~NeedsVerification
        /\ Policy.workspaceChange => mutation # 0
        /\ Policy.requiresCompletion =>
             completion.kind = "accepted" /\ completion.mutation = mutation
    BY <2>3 DEF StepCase, KernelInv, OutputInv, AcceptedFits, ProofFitsMutation
  <2>5. IF mutation = 0 THEN journal = "none" ELSE journal = "open"
    BY <2>3 DEF KernelInv, ProofFitsMutation, TypeOK, JournalStatus, SettledJournal, Terminal
  <2> QED BY <2>3, <2>4, <2>5 DEF CompletionContract, NeedsVerification, VerificationCurrent,
                                  proofVars
<1> QED BY <1>1, KernelInvariant, PTL DEF Spec, CompleteIsReady

\* Once a cancellation is accepted no sample, tool or verification is requested any more.
THEOREM CancelStopsWork == Spec => NoWorkAfterCancel
<1> DEFINE Stopped == \A e \in DOMAIN effects' \ DOMAIN effects :
       effects'[e].kind \notin {"sample_provider", "execute_tool", "run_verification"}
<1>1. TypeOK /\ [Next]_vars => (Canceled => Stopped)
  <2> SUFFICES ASSUME TypeOK, Next, Canceled PROVE Stopped
    BY DEF vars, effVars
  <2>0. EffectsTyped
    BY TypeParts
  <2>1. ASSUME NEW gone, UpdateEffects(gone, <<>>) PROVE Stopped
    BY <2>0, <2>1, Removed
  <2>2. ASSUME NEW f, f.kind \notin {"sample_provider", "execute_tool", "run_verification"},
               UpdateEffects({}, <<f>>)
        PROVE  Stopped
    BY <2>0, <2>2, Added
  <2>3. UNCHANGED effVars => Stopped
    BY DEF effVars
  <2>4. ASSUME NEW e \in DOMAIN effects, NEW status, NEW attempt, SetEffect(e, status, attempt)
        PROVE  Stopped
    BY <2>0, <2>4, SetOne
  <2> HIDE DEF Stopped
  <2>5. CASE LifeStep \/ OutputStep \/ DecisionStep
    BY <2>5, <2>3 DEF LifeStep, StartTurn, PreparationFinished, RecoveryRequested,
       CancelRequested, OutputStep, ModelText, ReleaseOutput, DiscardOutput, DecisionStep,
       EvaluateTurnStep, ConvergenceRequested, ObserveProgress, ConvergenceFinalizationStarted
  <2>6. CASE EffectStep
    BY <2>6, <2>1, <2>4 DEF EffectStep, EffectStarted, EffectRequeued, EffectResultReceived
  <2>7. CASE SampleStep
    <3>1. ASSUME NEW e \in DOMAIN effects, NEW s, NEW ok, NEW text, NEW continued, NEW batch,
                 ModelSampleResult(e, s, ok, text, continued, batch)
          PROVE  Stopped
      BY <3>1, <2>1 DEF ModelSampleResult, ProposableBatch
    <3>2. ASSUME NEW e \in DOMAIN effects, NEW s, ProviderRetry(e, s) PROVE Stopped
      BY <3>2, <2>4 DEF ProviderRetry
    <3>3. ASSUME NEW e, NEW s, NEW complete, ModelSampleProgress(e, s, complete)
          PROVE  Stopped
      BY <3>3, <2>3 DEF ModelSampleProgress
    <3> QED BY <2>7, <3>1, <3>2, <3>3 DEF SampleStep, ModelSampleRequested
  <2>8. CASE ToolStep
    <3>1. ASSUME NEW e, NEW c, NEW isError, NEW changes, ToolResult(e, c, isError, changes)
          PROVE  Stopped
      BY <3>1, <2>1 DEF ToolResult
    <3>2. CASE AbortOpenCalls
      BY <3>2, <2>1 DEF AbortOpenCalls
    <3>3. ASSUME NEW e, NEW r, NEW canceled, ApprovalResult(e, r, canceled) PROVE Stopped
      BY <3>3, <2>1 DEF ApprovalResult
    <3>4. ASSUME NEW r, NEW c, ApprovalRequired(r, c) PROVE Stopped
      BY <3>4, <2>2 DEF ApprovalRequired, NewEffect
    <3> QED BY <2>8, <3>1, <3>2, <3>3, <3>4 DEF ToolStep, ToolCallsProposed, ProposableBatch
  <2>9. CASE InputStep
    <3>1. ASSUME NEW i, InputRequired(i) PROVE Stopped
      BY <3>1, <2>2 DEF InputRequired, NewEffect
    <3>2. ASSUME NEW i, NEW gone, ResolveInput(i, gone) PROVE Stopped
      BY <3>2, <2>1 DEF ResolveInput
    <3> QED BY <2>9, <3>1, <3>2 DEF InputStep, InputResolved, InputResult
  <2>10. CASE ProofStep
    <3>1. ASSUME NEW e, NEW status, NEW key, VerificationFinished(e, status, key) PROVE Stopped
      BY <3>1, <2>1 DEF VerificationFinished
    <3> QED BY <2>10, <3>1, <2>3 DEF ProofStep, VerificationStarted, CompletionEvaluated,
                                     CompletionInvalidated
  <2>11. CASE TerminalStep
    <3>1. ASSUME NEW d, TerminalRequested(d) PROVE Stopped
      <4>1. JournalEffect(JournalOutcome(d)) \in JournalKinds
        BY JournalOutcomeType
      <4>2. NewEffect(JournalEffect(JournalOutcome(d)), Null, Null).kind
              \notin {"sample_provider", "execute_tool", "run_verification"}
        BY <4>1 DEF NewEffect, JournalKinds
      <4> QED BY <3>1, <4>2, <2>1, <2>2 DEF TerminalRequested
    <3>2. ASSUME NEW e \in DOMAIN effects, NEW error, JournalResult(e, error) PROVE Stopped
      BY <3>2, <2>1, <2>4 DEF JournalResult
    <3> QED BY <2>11, <3>1, <3>2, <2>3 DEF TerminalStep, FinishTerminal
  <2> QED BY <2>5, <2>6, <2>7, <2>8, <2>9, <2>10, <2>11 DEF Next
<1> QED BY <1>1, TypeCorrect, PTL DEF Spec, NoWorkAfterCancel

\* A decision, a closed call, a finished sample and a settled journal are final.
THEOREM SettledStays == Spec => SettledIsFinal
<1> DEFINE DecisionStays == decision # NoDecision => decision' = decision
           CallsStay == \A c \in Calls : calls[c] = "closed" => calls'[c] = "closed"
           SamplesStay == \A s \in Samples : sample[s].status \in {"completed", "failed"} =>
                            sample'[s].status = sample[s].status
           JournalStays == journal \in SettledJournal => journal' = journal
           Stay == DecisionStays /\ CallsStay /\ SamplesStay /\ JournalStays
<1>1. KernelInv /\ [Next]_vars => Stay
  <2> SUFFICES ASSUME KernelInv, Next PROVE Stay
    BY DEF vars, lifeVars, workVars, proofVars
  <2>0. TypeOK /\ WorkTyped /\ DecisionFits /\ PhaseFitsWork /\ ProofFitsMutation
    BY TypeParts DEF KernelInv
  <2>1. DecisionStays
    <3>1. CASE TerminalStep
      <4>1. ASSUME NEW d, TerminalRequested(d) PROVE DecisionStays
        BY <4>1, <2>0 DEF TerminalRequested, TerminalReady, DecisionFits, Next
      <4> QED BY <3>1, <4>1 DEF TerminalStep, JournalResult, FinishTerminal, lifeVars
    <3> QED BY <2>0, <3>1, OnlyTerminalDecides DEF Next
  <2>2. CallsStay
    <3>1. calls' = calls => CallsStay
      OBVIOUS
    <3>2. ASSUME NEW batch \in {<<>>} \cup Batches, ProposableBatch(batch),
                 calls' = OpenBatch(batch)
          PROVE  CallsStay
      BY <3>2 DEF ProposableBatch, OpenBatch, InBatch
    <3> HIDE DEF CallsStay
    <3>3. CASE LifeStep \/ OutputStep \/ DecisionStep \/ EffectStep
      BY <3>1, <3>3 DEF LifeStep, StartTurn, PreparationFinished, RecoveryRequested,
         CancelRequested, OutputStep, ModelText, ReleaseOutput, DiscardOutput, DecisionStep,
         EvaluateTurnStep, ConvergenceRequested, ObserveProgress,
         ConvergenceFinalizationStarted, EffectStep, EffectStarted, EffectRequeued,
         EffectResultReceived, workVars
    <3>4. CASE SampleStep
      <4>1. ASSUME NEW e, NEW s, NEW ok, NEW text, NEW continued,
                   NEW batch \in {<<>>} \cup Batches,
                   ModelSampleResult(e, s, ok, text, continued, batch)
            PROVE  CallsStay
        BY <4>1, <3>1, <3>2 DEF ModelSampleResult
      <4> QED BY <3>4, <4>1, <3>1 DEF SampleStep, ModelSampleRequested, ModelSampleProgress,
                                      ProviderRetry
    <3>5. CASE ToolStep
      <4>1. ASSUME NEW e, NEW c \in Calls, NEW isError, NEW changes,
                   ToolResult(e, c, isError, changes)
            PROVE  CallsStay
        BY <4>1, <2>0 DEF ToolResult, WorkTyped, CallsStay
      <4>2. CASE AbortOpenCalls
        BY <4>2 DEF AbortOpenCalls, CallsStay
      <4> QED BY <3>5, <4>1, <4>2, <3>1, <3>2 DEF ToolStep, ToolCallsProposed,
                                                  ApprovalRequired, ApprovalResult
    <3>6. CASE InputStep \/ ProofStep \/ TerminalStep
      BY <3>1, <3>6 DEF InputStep, InputRequired, InputResolved, InputResult, ResolveInput,
         ProofStep, VerificationStarted, VerificationFinished, CompletionEvaluated,
         CompletionInvalidated, TerminalStep, TerminalRequested, JournalResult,
         FinishTerminal, workVars
    <3> QED BY <3>3, <3>4, <3>5, <3>6 DEF Next
  <2>3. SamplesStay
    <3>1. sample' = sample => SamplesStay
      OBVIOUS
    <3>2. ASSUME NEW e \in DOMAIN effects, NEW s \in Samples,
                 RunningSample(e, s)
          PROVE  sample[s].status = "running"
      BY <3>2, <2>0, IdentityAssumption DEF RunningSample, PhaseFitsWork
    <3>3. ASSUME NEW s \in Samples, sample[s].status \notin {"completed", "failed"},
                 \A t \in Samples \ {s} : sample'[t] = sample[t]
          PROVE  SamplesStay
      BY <3>3
    <3> HIDE DEF SamplesStay
    <3>4. CASE EffectStep
      <4>1. ASSUME NEW e \in DOMAIN effects, EffectStarted(e) \/ EffectRequeued(e)
            PROVE  SamplesStay
        <5>1. CASE effects[e].kind = "sample_provider"
          <6>1. effects[e].call \in Samples
            BY <2>0, <5>1, KnownEffect DEF KernelInv
          <6> QED BY <2>0, <3>3, <4>1, <5>1, <6>1 DEF EffectStarted, EffectRequeued, WorkTyped
        <5>2. CASE effects[e].kind # "sample_provider"
          BY <3>1, <4>1, <5>2 DEF EffectStarted, EffectRequeued
        <5> QED BY <5>1, <5>2
      <4> QED BY <3>4, <4>1, <3>1 DEF EffectStep, EffectResultReceived, workVars
    <3>5. CASE SampleStep
      <4>1. ASSUME NEW s \in Samples, ModelSampleRequested(s) PROVE SamplesStay
        BY <2>0, <3>3, <4>1 DEF ModelSampleRequested, WorkTyped
      <4>2. ASSUME NEW e \in DOMAIN effects, NEW s \in Samples, NEW complete,
                   ModelSampleProgress(e, s, complete) \/ ProviderRetry(e, s)
            PROVE  SamplesStay
        BY <2>0, <3>2, <3>3, <4>2 DEF ModelSampleProgress, ProviderRetry, WorkTyped
      <4>3. ASSUME NEW e \in DOMAIN effects, NEW s \in Samples, NEW ok, NEW text,
                   NEW continued, NEW batch, ModelSampleResult(e, s, ok, text, continued, batch)
            PROVE  SamplesStay
        <5>1. sample[s].status \in {"running", "requested"}
          BY <2>0, <4>3, IdentityAssumption DEF ModelSampleResult, SampleResultMatches,
                                                PhaseFitsWork
        <5> QED BY <2>0, <3>3, <4>3, <5>1 DEF ModelSampleResult, WorkTyped
      <4> QED BY <3>5, <4>1, <4>2, <4>3 DEF SampleStep
    <3>6. CASE LifeStep \/ OutputStep \/ DecisionStep
      BY <3>1, <3>6 DEF LifeStep, StartTurn, PreparationFinished, RecoveryRequested,
         CancelRequested, OutputStep, ModelText, ReleaseOutput, DiscardOutput, DecisionStep,
         EvaluateTurnStep, ConvergenceRequested, ObserveProgress,
         ConvergenceFinalizationStarted, workVars
    <3>7. CASE ToolStep \/ InputStep \/ ProofStep \/ TerminalStep
      BY <3>1, <3>7 DEF ToolStep, ToolCallsProposed, ToolResult, AbortOpenCalls,
         ApprovalRequired, ApprovalResult, InputStep, InputRequired, InputResolved,
         InputResult, ResolveInput, ProofStep, VerificationStarted, VerificationFinished,
         CompletionEvaluated, CompletionInvalidated, TerminalStep, TerminalRequested,
         JournalResult, FinishTerminal, workVars
    <3> QED BY <3>4, <3>5, <3>6, <3>7 DEF Next
  <2>4. JournalStays
    <3> SUFFICES ASSUME journal \in SettledJournal PROVE journal' = journal
      OBVIOUS
    <3>1. phase = "committing"
      BY <2>0 DEF ProofFitsMutation, Next
    <3>2. ASSUME NEW e, NEW error, JournalResult(e, error) PROVE FALSE
      BY <3>2 DEF JournalResult, SettledJournal
    <3>3. CASE LifeStep \/ OutputStep \/ DecisionStep \/ EffectStep
      BY <3>1, <3>3 DEF LifeStep, StartTurn, PreparationFinished, RecoveryRequested,
         CancelRequested, OutputStep, ModelText, ReleaseOutput, DiscardOutput, DecisionStep,
         EvaluateTurnStep, ConvergenceRequested, ObserveProgress,
         ConvergenceFinalizationStarted, EffectStep, EffectStarted, EffectRequeued,
         EffectResultReceived, proofVars
    <3>5. CASE SampleStep
      <4>1. ASSUME NEW e, NEW s, NEW ok, NEW text, NEW continued, NEW batch,
                   ModelSampleResult(e, s, ok, text, continued, batch)
            PROVE  FALSE
        BY <3>1, <4>1 DEF ModelSampleResult
      <4> QED BY <3>1, <3>5, <4>1 DEF SampleStep, ModelSampleRequested, ModelSampleProgress,
                                      ProviderRetry
    <3>4. CASE ToolStep \/ InputStep \/ ProofStep \/ TerminalStep
      BY <3>1, <3>2, <3>4 DEF ToolStep, ToolCallsProposed, ToolResult, AbortOpenCalls,
         ApprovalRequired, ApprovalResult, InputStep, InputRequired, InputResolved,
         InputResult, ResolveInput, ProofStep, VerificationStarted, VerificationFinished,
         CompletionEvaluated, CompletionInvalidated, TerminalStep, TerminalRequested,
         FinishTerminal, proofVars
    <3> QED BY <3>3, <3>4, <3>5 DEF Next
  <2> QED BY <2>1, <2>2, <2>3, <2>4
<1> QED BY <1>1, KernelInvariant, PTL DEF Spec, SettledIsFinal

=============================================================================
