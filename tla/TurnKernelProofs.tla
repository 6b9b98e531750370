-------------------------- MODULE TurnKernelProofs --------------------------
(***************************************************************************)
(* Proofs about the turn state machine, for every set of samples, calls,   *)
(* requests, inputs and keys, every policy and all bounds.                 *)
(***************************************************************************)
EXTENDS TurnKernel, TLAPS

-----------------------------------------------------------------------------
(* Effects *)

\* The pending effects have their type: the part of TypeOK about PendingEffects.
EffectsTyped ==
  /\ seq \in Nat
  /\ DOMAIN effects \subseteq 1..seq
  /\ effects \in [DOMAIN effects -> Effect]

\* An effect of a known kind and identity is well typed when requestEffect makes it.
LEMMA NewEffectType ==
  ASSUME NEW kind \in EffectKinds, NEW key \in Identities, NEW call \in Identities,
         kind = "sample_provider" => call \in Samples
  PROVE  NewEffect(kind, key, call) \in Effect
BY DEF NewEffect, Effect

\* requestEffect and finishEffect keep the pending effects well typed.
LEMMA UpdateEffectsType ==
  ASSUME EffectsTyped, NEW gone, NEW new \in Seq(Effect), UpdateEffects(gone, new)
  PROVE  EffectsTyped'
<1>1. Len(new) \in Nat /\ \A i \in 1..Len(new) : new[i] \in Effect
  OBVIOUS
<1>2. seq' \in Nat /\ seq' = seq + Len(new)
  BY <1>1 DEF UpdateEffects, EffectsTyped
<1>3. DOMAIN effects' = (DOMAIN effects \ gone) \cup (seq + 1)..(seq + Len(new))
  BY DEF UpdateEffects
<1>4. DOMAIN effects' \subseteq 1..seq'
  BY <1>1, <1>2, <1>3 DEF EffectsTyped
<1>5. ASSUME NEW e \in DOMAIN effects' PROVE effects'[e] \in Effect
  <2>1. CASE e \in DOMAIN effects
    BY <1>3, <2>1 DEF UpdateEffects, EffectsTyped
  <2>2. CASE e \notin DOMAIN effects
    <3>1. e - seq \in 1..Len(new)
      BY <1>1, <1>3, <2>2 DEF EffectsTyped
    <3>2. effects'[e] = new[e - seq]
      BY <1>3, <2>2 DEF UpdateEffects
    <3> QED BY <1>1, <3>1, <3>2
  <2> QED BY <2>1, <2>2
<1>6. effects' = [e \in DOMAIN effects' |-> effects'[e]]
  BY DEF UpdateEffects
<1> QED BY <1>2, <1>4, <1>5, <1>6 DEF EffectsTyped

\* EffectStarted, EffectRequeued and a failed journal operation keep them well typed.
LEMMA SetEffectType ==
  ASSUME EffectsTyped, NEW e \in DOMAIN effects, NEW status \in {"requested", "running"},
         NEW attempt \in Nat, SetEffect(e, status, attempt)
  PROVE  EffectsTyped'
<1>1. effects[e] \in Effect
  BY DEF EffectsTyped
<1>2. [effects[e] EXCEPT !.status = status, !.attempt = attempt] \in Effect
  BY <1>1 DEF Effect
<1>3. effects' = [effects EXCEPT ![e] = [@ EXCEPT !.status = status, !.attempt = attempt]]
  BY DEF SetEffect, EffectsTyped
<1> QED BY <1>1, <1>2, <1>3 DEF EffectsTyped, SetEffect

-----------------------------------------------------------------------------
(* Type correctness *)

\* The parts of TypeOK, grouped as the actions change them.
LifeTyped ==
  /\ phase \in Phases
  /\ cancel \in {"none", "user", "other"}
  /\ draft \in BOOLEAN
  /\ decision \in Decision \cup {NoDecision}
WorkTyped ==
  /\ sample \in [Samples -> SampleState]
  /\ active \in Samples \cup {Null}
  /\ calls \in [Calls -> {"none", "open", "closed"}]
  /\ approvals \in [Requests -> Calls \cup {Null}]
  /\ input \in Inputs \cup {Null}
ProofTyped ==
  /\ mutation \in Nat
  /\ journal \in JournalStatus
  /\ verification \in VerificationState
  /\ completion \in CompletionState
StepTyped ==
  /\ convergence \in ConvergenceState
  /\ budget \in [RepairKinds -> Budget]
  /\ next \in StepActions
  /\ tool \in [failed : BOOLEAN, recovered : BOOLEAN, continued : BOOLEAN]
OutTyped ==
  output \in BOOLEAN /\ eligible \in BOOLEAN /\ final \in BOOLEAN

\* The groups are all there is to TypeOK.
LEMMA TypeParts ==
  /\ TypeOK <=> LifeTyped /\ WorkTyped /\ EffectsTyped /\ ProofTyped /\ StepTyped /\ OutTyped
  /\ TypeOK' <=> /\ LifeTyped' /\ WorkTyped' /\ EffectsTyped'
                 /\ ProofTyped' /\ StepTyped' /\ OutTyped'
BY DEF TypeOK, LifeTyped, WorkTyped, EffectsTyped, ProofTyped, StepTyped, OutTyped

\* A group no variable of which changes stays well typed.
LEMMA UnchangedTyped ==
  /\ LifeTyped /\ UNCHANGED lifeVars => LifeTyped'
  /\ WorkTyped /\ UNCHANGED workVars => WorkTyped'
  /\ EffectsTyped /\ UNCHANGED effVars => EffectsTyped'
  /\ ProofTyped /\ UNCHANGED proofVars => ProofTyped'
  /\ StepTyped /\ UNCHANGED stepVars => StepTyped'
  /\ OutTyped /\ UNCHANGED outVars => OutTyped'
BY DEF LifeTyped, WorkTyped, EffectsTyped, ProofTyped, StepTyped, OutTyped,
       lifeVars, workVars, effVars, proofVars, stepVars, outVars

\* A round of a repair budget keeps the budgets well typed.
LEMMA SpentType ==
  ASSUME StepTyped, NEW kind \in RepairKinds, NEW key \in Keys \cup {"convergence"}
  PROVE  Spent(kind, key) \in [RepairKinds -> Budget]
<1>1. budget[kind] \in Budget
  BY DEF StepTyped
<1>2. Consecutive(budget[kind], key) \in Nat /\ budget[kind].steps \in Nat
  BY <1>1 DEF Consecutive, Budget
<1>3. [key |-> key, consecutive |-> Consecutive(budget[kind], key) + 1,
       steps |-> budget[kind].steps + 1] \in Budget
  BY <1>2 DEF Budget
<1> QED BY <1>3 DEF Spent, StepTyped

\* The four verification outcomes are verification actions.
LEMMA VerificationActionType ==
  ASSUME NEW status \in {"passed", "failed", "unavailable"}, NEW repair \in BOOLEAN
  PROVE  VerificationAction(status, repair) \in
           {"passed", "repair", "reported", "blocked", "failed", "reverted"}
BY DEF VerificationAction

\* The journal outcome of a decision settles the journal.
LEMMA JournalOutcomeType ==
  ASSUME NEW d
  PROVE  /\ JournalOutcome(d) \in SettledJournal
         /\ JournalEffect(JournalOutcome(d)) \in JournalKinds
BY DEF JournalOutcome, JournalEffect, SettledJournal, JournalKinds

\* The tool effects of a batch.
LEMMA ToolEffectsType ==
  ASSUME NEW batch \in Seq(Calls)
  PROVE  ToolEffects(batch) \in Seq(Effect)
<1>1. \A i \in DOMAIN batch : batch[i] \in Identities
  BY DEF Identities
<1>2. \A i \in DOMAIN batch : NewEffect("execute_tool", batch[i], batch[i]) \in Effect
  BY <1>1, NewEffectType DEF EffectKinds
<1>3. DOMAIN batch = 1..Len(batch) /\ Len(batch) \in Nat
  OBVIOUS
<1> QED BY <1>2, <1>3 DEF ToolEffects

\* Batches are sequences of calls.
LEMMA BatchType ==
  ASSUME NEW batch \in {<<>>} \cup Batches
  PROVE  batch \in Seq(Calls)
<1>1. CASE batch = <<>>
  BY <1>1
<1>2. CASE batch \in Batches
  <2>1. PICK n \in 1..MaxBatch : batch \in [1..n -> Calls]
    BY <1>2 DEF Batches
  <2>2. n \in Nat
    BY BoundAssumption
  <2> QED BY <2>1, <2>2
<1> QED BY <1>1, <1>2

\* Every effect request is a sequence of effects.
LEMMA OneEffectType ==
  ASSUME NEW kind \in EffectKinds, NEW key \in Identities, NEW call \in Identities,
         kind = "sample_provider" => call \in Samples
  PROVE  <<NewEffect(kind, key, call)>> \in Seq(Effect)
BY NewEffectType

-----------------------------------------------------------------------------
\* The initial state of NewState is well typed.
LEMMA TypeInit == Init => TypeOK
<1> SUFFICES ASSUME Init PROVE TypeOK
  OBVIOUS
<1>1. LifeTyped
  BY DEF Init, LifeTyped, Phases, NoDecision
<1>2. WorkTyped
  BY DEF Init, WorkTyped, SampleState
<1>3. EffectsTyped
  BY DEF Init, EffectsTyped
<1>4. ProofTyped
  BY DEF Init, ProofTyped, JournalStatus, NotVerified, VerificationState, NoCompletion,
         CompletionState
<1>5. StepTyped
  BY DEF Init, StepTyped, ConvergenceState, Budget, StepActions
<1>6. OutTyped
  BY DEF Init, OutTyped
<1> QED BY <1>1, <1>2, <1>3, <1>4, <1>5, <1>6, TypeParts

\* Commands of the turn's life keep the state well typed.
LEMMA TypeLifeStep == TypeOK /\ LifeStep => TypeOK'
<1> SUFFICES ASSUME TypeOK, LifeStep PROVE TypeOK'
  OBVIOUS
<1> USE TypeParts, UnchangedTyped
<1>1. CASE StartTurn
  <2>1. LifeTyped'
    BY <1>1 DEF StartTurn, LifeTyped, Phases, Running
  <2> QED BY <1>1, <2>1 DEF StartTurn
<1>2. CASE PreparationFinished
  <2>1. LifeTyped'
    BY <1>2 DEF PreparationFinished, LifeTyped, Phases, Running
  <2> QED BY <1>2, <2>1 DEF PreparationFinished
<1>3. ASSUME NEW resumed \in BOOLEAN, NEW changes \in BOOLEAN,
             RecoveryRequested(resumed, changes)
      PROVE TypeOK'
  <2>1. LifeTyped' /\ ProofTyped'
    BY <1>3 DEF RecoveryRequested, LifeTyped, ProofTyped, JournalStatus
  <2> QED BY <1>3, <2>1 DEF RecoveryRequested
<1>4. ASSUME NEW reason \in {"user", "other"}, CancelRequested(reason)
      PROVE TypeOK'
  <2>1. LifeTyped'
    BY <1>4 DEF CancelRequested, LifeTyped
  <2> QED BY <1>4, <2>1 DEF CancelRequested
<1> QED BY <1>1, <1>2, <1>3, <1>4 DEF LifeStep

\* Starting, requeueing and finishing an effect keep the state well typed.
LEMMA TypeEffectStep == TypeOK /\ EffectStep => TypeOK'
<1> SUFFICES ASSUME TypeOK, NEW e \in DOMAIN effects,
                    \/ EffectStarted(e)
                    \/ EffectRequeued(e)
                    \/ EffectResultReceived(e)
             PROVE  TypeOK'
  BY DEF EffectStep
<1> USE TypeParts, UnchangedTyped
<1>0. /\ effects[e].attempt \in Nat
      /\ effects[e].kind = "sample_provider" => effects[e].call \in Samples
  <2>1. effects[e] \in Effect
    BY DEF EffectsTyped
  <2> QED BY <2>1 DEF Effect
<1>1. CASE EffectStarted(e)
  <2>1. EffectsTyped'
    <3>1. effects[e].attempt + 1 \in Nat
      BY <1>0
    <3> QED BY <1>1, <3>1, SetEffectType DEF EffectStarted
  <2>2. WorkTyped'
    BY <1>0, <1>1 DEF EffectStarted, WorkTyped, SampleState
  <2> QED BY <1>1, <2>1, <2>2 DEF EffectStarted
<1>2. CASE EffectRequeued(e)
  <2>1. EffectsTyped'
    BY <1>0, <1>2, SetEffectType DEF EffectRequeued
  <2>2. WorkTyped'
    BY <1>2 DEF EffectRequeued, WorkTyped, SampleState
  <2> QED BY <1>2, <2>1, <2>2 DEF EffectRequeued
<1>3. CASE EffectResultReceived(e)
  <2>1. EffectsTyped'
    BY <1>3, UpdateEffectsType, <<>> \in Seq(Effect) DEF EffectResultReceived
  <2> QED BY <1>3, <2>1 DEF EffectResultReceived
<1> QED BY <1>1, <1>2, <1>3

\* The commands of a model sample keep the state well typed.
LEMMA TypeSampleResult ==
  ASSUME TypeOK, NEW e \in DOMAIN effects, NEW s \in Samples, NEW ok \in BOOLEAN,
         NEW text \in BOOLEAN, NEW continued \in BOOLEAN,
         NEW batch \in {<<>>} \cup Batches,
         ModelSampleResult(e, s, ok, text, continued, batch)
  PROVE  TypeOK'
<1> USE TypeParts, UnchangedTyped
<1>1. LifeTyped'
  BY DEF ModelSampleResult, LifeTyped, Phases, Running
<1>2. WorkTyped'
  <2>1. OpenBatch(batch) \in [Calls -> {"none", "open", "closed"}]
    BY DEF OpenBatch, WorkTyped
  <2>2. sample' \in [Samples -> SampleState]
    <3> DEFINE status == IF ok THEN "completed" ELSE "failed"
    <3>1. sample[s] \in SampleState /\ status \in {"completed", "failed"}
      BY DEF WorkTyped
    <3>2. [sample[s] EXCEPT !.status = status, !.retry = FALSE] \in SampleState
      BY <3>1 DEF SampleState
    <3>3. sample' = [sample EXCEPT ![s] = [@ EXCEPT !.status = status, !.retry = FALSE]]
      BY DEF ModelSampleResult, WorkTyped
    <3> QED BY <3>2, <3>3 DEF WorkTyped
  <2> QED BY <2>1, <2>2 DEF ModelSampleResult, WorkTyped
<1>3. EffectsTyped'
  BY UpdateEffectsType, ToolEffectsType, BatchType, <<>> \in Seq(Effect)
     DEF ModelSampleResult
<1>4. ProofTyped'
  BY DEF ModelSampleResult, ProofTyped, NoCompletion, CompletionState
<1>5. StepTyped'
  BY DEF ModelSampleResult, StepTyped, StepActions
<1>6. OutTyped'
  BY DEF ModelSampleResult, OutTyped
<1> QED BY <1>1, <1>2, <1>3, <1>4, <1>5, <1>6

LEMMA TypeSampleStep == TypeOK /\ SampleStep => TypeOK'
<1> SUFFICES ASSUME TypeOK, SampleStep PROVE TypeOK'
  OBVIOUS
<1> USE TypeParts, UnchangedTyped
<1>1. ASSUME NEW s \in Samples, ModelSampleRequested(s) PROVE TypeOK'
  <2>1. WorkTyped'
    BY <1>1 DEF ModelSampleRequested, WorkTyped, SampleState
  <2>2. StepTyped'
    BY <1>1 DEF ModelSampleRequested, StepTyped, StepActions
  <2>3. EffectsTyped'
    <3>1. <<NewEffect("sample_provider", s, s)>> \in Seq(Effect)
      BY OneEffectType DEF EffectKinds, Identities
    <3> QED BY <1>1, <3>1, UpdateEffectsType DEF ModelSampleRequested
  <2> QED BY <1>1, <2>1, <2>2, <2>3 DEF ModelSampleRequested
<1>2. ASSUME NEW e \in DOMAIN effects, NEW s \in Samples, NEW complete \in BOOLEAN,
             ModelSampleProgress(e, s, complete)
      PROVE  TypeOK'
  <2>1. WorkTyped'
    BY <1>2 DEF ModelSampleProgress, WorkTyped, SampleState
  <2> QED BY <1>2, <2>1 DEF ModelSampleProgress
<1>3. ASSUME NEW e \in DOMAIN effects, NEW s \in Samples, ProviderRetry(e, s)
      PROVE  TypeOK'
  <2>1. WorkTyped'
    BY <1>3 DEF ProviderRetry, WorkTyped, SampleState
  <2>2. EffectsTyped'
    <3>1. effects[e].attempt \in Nat
      BY DEF EffectsTyped, Effect
    <3> QED BY <1>3, <3>1, SetEffectType DEF ProviderRetry
  <2> QED BY <1>3, <2>1, <2>2 DEF ProviderRetry
<1> QED BY <1>1, <1>2, <1>3, TypeSampleResult DEF SampleStep

\* Text, release and discard keep the state well typed.
LEMMA TypeOutputStep == TypeOK /\ OutputStep => TypeOK'
<1> SUFFICES ASSUME TypeOK, OutputStep PROVE TypeOK'
  OBVIOUS
<1>1. OutTyped'
  BY TypeParts DEF OutputStep, ModelText, ReleaseOutput, DiscardOutput, OutTyped
<1> QED BY <1>1, TypeParts, UnchangedTyped
        DEF OutputStep, ModelText, ReleaseOutput, DiscardOutput

\* Tool calls and approvals keep the state well typed.
LEMMA TypeToolStep == TypeOK /\ ToolStep => TypeOK'
<1> SUFFICES ASSUME TypeOK, ToolStep PROVE TypeOK'
  OBVIOUS
<1> USE TypeParts, UnchangedTyped, <<>> \in Seq(Effect)
<1>1. ASSUME NEW batch \in Batches, ToolCallsProposed(batch) PROVE TypeOK'
  <2>1. LifeTyped'
    BY <1>1 DEF ToolCallsProposed, LifeTyped, Phases, Running
  <2>2. WorkTyped'
    <3>1. OpenBatch(batch) \in [Calls -> {"none", "open", "closed"}]
      BY DEF OpenBatch, WorkTyped
    <3> QED BY <1>1, <3>1 DEF ToolCallsProposed, WorkTyped
  <2>3. EffectsTyped'
    BY <1>1, UpdateEffectsType, ToolEffectsType, BatchType DEF ToolCallsProposed
  <2>4. ProofTyped' /\ OutTyped'
    BY <1>1 DEF ToolCallsProposed, ProofTyped, OutTyped, NoCompletion, CompletionState
  <2> QED BY <1>1, <2>1, <2>2, <2>3, <2>4 DEF ToolCallsProposed
<1>2. ASSUME NEW e \in DOMAIN effects, NEW c \in Calls, NEW isError \in BOOLEAN,
             NEW changes \in BOOLEAN, ToolResult(e, c, isError, changes)
      PROVE  TypeOK'
  <2>1. LifeTyped'
    BY <1>2 DEF ToolResult, PhaseAfterTool, LifeTyped, Phases, Running
  <2>2. WorkTyped'
    BY <1>2 DEF ToolResult, WorkTyped
  <2>3. EffectsTyped'
    BY <1>2, UpdateEffectsType DEF ToolResult
  <2>4. ProofTyped'
    BY <1>2 DEF ToolResult, ProofTyped, NoCompletion, CompletionState, NotVerified,
                VerificationState, JournalStatus, proofVars
  <2>5. StepTyped'
    BY <1>2 DEF ToolResult, StepTyped
  <2> QED BY <1>2, <2>1, <2>2, <2>3, <2>4, <2>5 DEF ToolResult
<1>3. CASE AbortOpenCalls
  <2>1. LifeTyped'
    BY <1>3 DEF AbortOpenCalls, LifeTyped, Phases, Running
  <2>2. WorkTyped'
    BY <1>3 DEF AbortOpenCalls, WorkTyped
  <2>3. EffectsTyped'
    BY <1>3, UpdateEffectsType DEF AbortOpenCalls
  <2> QED BY <1>3, <2>1, <2>2, <2>3 DEF AbortOpenCalls
<1>4. ASSUME NEW r \in Requests, NEW c \in Calls, ApprovalRequired(r, c) PROVE TypeOK'
  <2>1. LifeTyped'
    BY <1>4 DEF ApprovalRequired, LifeTyped, Phases, Running
  <2>2. WorkTyped'
    BY <1>4 DEF ApprovalRequired, WorkTyped
  <2>3. EffectsTyped'
    <3>1. <<NewEffect("await_approval", r, c)>> \in Seq(Effect)
      BY OneEffectType DEF EffectKinds, Identities
    <3> QED BY <1>4, <3>1, UpdateEffectsType DEF ApprovalRequired
  <2> QED BY <1>4, <2>1, <2>2, <2>3 DEF ApprovalRequired
<1>5. ASSUME NEW e \in DOMAIN effects, NEW r \in Requests, NEW canceled \in BOOLEAN,
             ApprovalResult(e, r, canceled)
      PROVE  TypeOK'
  <2>1. LifeTyped'
    BY <1>5 DEF ApprovalResult, LifeTyped, Phases, Running
  <2>2. WorkTyped'
    BY <1>5 DEF ApprovalResult, WorkTyped
  <2>3. EffectsTyped'
    BY <1>5, UpdateEffectsType DEF ApprovalResult
  <2> QED BY <1>5, <2>1, <2>2, <2>3 DEF ApprovalResult
<1> QED BY <1>1, <1>2, <1>3, <1>4, <1>5 DEF ToolStep

\* User input keeps the state well typed.
LEMMA TypeInputStep == TypeOK /\ InputStep => TypeOK'
<1> SUFFICES ASSUME TypeOK, InputStep PROVE TypeOK'
  OBVIOUS
<1> USE TypeParts, UnchangedTyped, <<>> \in Seq(Effect)
<1>1. ASSUME NEW i \in Inputs, InputRequired(i) PROVE TypeOK'
  <2>1. LifeTyped' /\ WorkTyped'
    BY <1>1 DEF InputRequired, LifeTyped, Phases, Running, WorkTyped
  <2>2. EffectsTyped'
    <3>1. <<NewEffect("await_input", i, Null)>> \in Seq(Effect)
      BY OneEffectType DEF EffectKinds, Identities
    <3> QED BY <1>1, <3>1, UpdateEffectsType DEF InputRequired
  <2> QED BY <1>1, <2>1, <2>2 DEF InputRequired
<1>2. ASSUME NEW i \in Inputs, NEW gone, ResolveInput(i, gone) PROVE TypeOK'
  <2>1. LifeTyped' /\ WorkTyped'
    BY <1>2 DEF ResolveInput, LifeTyped, Phases, Running, WorkTyped
  <2>2. StepTyped'
    BY <1>2 DEF ResolveInput, StepTyped, ConvergenceState
  <2>3. EffectsTyped'
    BY <1>2, UpdateEffectsType DEF ResolveInput
  <2> QED BY <1>2, <2>1, <2>2, <2>3 DEF ResolveInput
<1> QED BY <1>1, <1>2 DEF InputStep, InputResolved, InputResult

\* Verification and completion keep the state well typed.
LEMMA TypeProofStep == TypeOK /\ ProofStep => TypeOK'
<1> SUFFICES ASSUME TypeOK, ProofStep PROVE TypeOK'
  OBVIOUS
<1> USE TypeParts, UnchangedTyped, <<>> \in Seq(Effect)
<1>1. CASE VerificationStarted
  <2>1. LifeTyped'
    BY <1>1 DEF VerificationStarted, LifeTyped, Phases, Running
  <2>2. EffectsTyped'
    <3>1. <<NewEffect("run_verification", Null, Null)>> \in Seq(Effect)
      BY OneEffectType DEF EffectKinds, Identities
    <3> QED BY <1>1, <3>1, UpdateEffectsType DEF VerificationStarted
  <2> QED BY <1>1, <2>1, <2>2 DEF VerificationStarted
<1>2. ASSUME NEW e \in DOMAIN effects, NEW status \in {"passed", "failed", "unavailable"},
             NEW key \in Keys, VerificationFinished(e, status, key)
      PROVE  TypeOK'
  <2> DEFINE repair == status # "passed" /\ ~Policy.soft /\ ~Exhausted("verification", key)
  <2>1. LifeTyped'
    BY <1>2 DEF VerificationFinished, LifeTyped, Phases, Running
  <2>2. EffectsTyped'
    BY <1>2, UpdateEffectsType DEF VerificationFinished
  <2>3. ProofTyped'
    <3>1. VerificationAction(status, repair) \in
            {"passed", "repair", "reported", "blocked", "failed", "reverted"}
      BY VerificationActionType, repair \in BOOLEAN
    <3>2. verification' = [status |-> status, action |-> VerificationAction(status, repair),
                           mutation |-> mutation]
      BY <1>2 DEF VerificationFinished
    <3>3. verification' \in VerificationState
      BY <3>1, <3>2 DEF VerificationState, ProofTyped
    <3>4. completion' \in CompletionState
      BY <1>2 DEF VerificationFinished, ProofTyped, NoCompletion, CompletionState
    <3> QED BY <1>2, <3>3, <3>4 DEF VerificationFinished, ProofTyped
  <2>4. StepTyped'
    <3>1. budget' \in [RepairKinds -> Budget]
      BY <1>2, SpentType DEF VerificationFinished, StepTyped, RepairKinds
    <3> QED BY <1>2, <3>1 DEF VerificationFinished, StepTyped, StepActions
  <2> QED BY <1>2, <2>1, <2>2, <2>3, <2>4 DEF VerificationFinished
<1>3. ASSUME NEW candidate \in Candidates, CompletionEvaluated(candidate) PROVE TypeOK'
  <2>1. CompletionKind(candidate) \in {"accepted", "declaration", "rejected"}
    BY DEF CompletionKind
  <2>2. ProofTyped'
    BY <1>3, <2>1 DEF CompletionEvaluated, ProofTyped, CompletionState
  <2>3. StepTyped' /\ OutTyped'
    BY <1>3 DEF CompletionEvaluated, StepTyped, ConvergenceState, OutTyped
  <2> QED BY <1>3, <2>2, <2>3 DEF CompletionEvaluated
<1>4. CASE CompletionInvalidated
  <2>1. ProofTyped'
    BY <1>4 DEF CompletionInvalidated, ProofTyped, NoCompletion, CompletionState
  <2> QED BY <1>4, <2>1 DEF CompletionInvalidated
<1> QED BY <1>1, <1>2, <1>3, <1>4 DEF ProofStep

\* The step decisions keep the state well typed.
LEMMA TypeDecisionStep == TypeOK /\ DecisionStep => TypeOK'
<1> SUFFICES ASSUME TypeOK, DecisionStep PROVE TypeOK'
  OBVIOUS
<1> USE TypeParts, UnchangedTyped
<1>1. ASSUME BeginConvergence, StepTyped
      PROVE  convergence' \in ConvergenceState /\ next' \in StepActions
  <2>1. CASE convergence.cause # "none"
    BY <1>1, <2>1 DEF BeginConvergence, StepTyped
  <2>2. CASE convergence.cause = "none"
    <3>1. convergence' = [cause |-> "budget", attempted |-> FALSE] /\ next' = "finalize"
      BY <1>1, <2>2 DEF BeginConvergence
    <3> QED BY <3>1 DEF ConvergenceState, StepActions
  <2> QED BY <2>1, <2>2
<1>2. CASE ConvergenceRequested \/ ObserveProgress
  <2>1. StepTyped'
    BY <1>1, <1>2 DEF ConvergenceRequested, ObserveProgress, StepTyped
  <2> QED BY <1>2, <2>1 DEF ConvergenceRequested, ObserveProgress
<1>3. CASE ConvergenceFinalizationStarted
  <2>1. StepTyped'
    BY <1>3 DEF ConvergenceFinalizationStarted, StepTyped, ConvergenceState, StepActions
  <2> QED BY <1>3, <2>1 DEF ConvergenceFinalizationStarted
<1>4. ASSUME NEW key \in Keys, EvaluateTurnStep(key) PROVE TypeOK'
  <2>1. tool' \in [failed : BOOLEAN, recovered : BOOLEAN, continued : BOOLEAN]
    BY <1>4 DEF EvaluateTurnStep, StepTyped
  <2>2. /\ budget' \in [RepairKinds -> Budget]
        /\ convergence' \in ConvergenceState
        /\ next' \in StepActions
    <3>1. CASE StepCase \in {"verify", "complete"} /\ next' = StepCase
               /\ UNCHANGED <<budget, convergence>>
      BY <3>1 DEF StepTyped, StepActions
    <3>2. CASE Converge
      <4>1. Spent("declaration", "convergence") \in [RepairKinds -> Budget]
        BY SpentType DEF RepairKinds
      <4> QED BY <3>2, <4>1 DEF Converge, StepTyped, ConvergenceState, StepActions
    <3>3. CASE Repair(StepCase, key)
      <4>1. RepairKind(StepCase) \in RepairKinds /\ StepCase \in StepActions
        BY <3>3 DEF Repair, RepairKind, RepairKinds, StepActions
      <4>2. Spent(RepairKind(StepCase), key) \in [RepairKinds -> Budget]
        BY <4>1, SpentType
      <4> QED BY <1>1, <3>3, <4>1, <4>2 DEF Repair, StepTyped
    <3> QED BY <1>4, <3>1, <3>2, <3>3 DEF EvaluateTurnStep
  <2>3. StepTyped'
    BY <2>1, <2>2 DEF StepTyped
  <2> QED BY <1>4, <2>3 DEF EvaluateTurnStep
<1> QED BY <1>2, <1>3, <1>4 DEF DecisionStep

\* A turn has a decision exactly while it commits one or after it did.
DecisionFits == (decision # NoDecision) <=> (phase \in {"committing"} \cup Terminal)

\* The terminal transaction keeps the state well typed.
LEMMA TypeTerminalStep == TypeOK /\ DecisionFits /\ TerminalStep => TypeOK'
<1> SUFFICES ASSUME TypeOK, DecisionFits, TerminalStep PROVE TypeOK'
  OBVIOUS
<1> USE TypeParts, UnchangedTyped, <<>> \in Seq(Effect)
<1>1. ASSUME NEW d \in Decisions, TerminalRequested(d) PROVE TypeOK'
  <2>1. LifeTyped'
    BY <1>1 DEF TerminalRequested, LifeTyped, Phases, Decisions
  <2>2. EffectsTyped'
    <3>1. <<NewEffect(JournalEffect(JournalOutcome(d)), Null, Null)>> \in Seq(Effect)
      <4>1. JournalEffect(JournalOutcome(d)) \in EffectKinds
        BY JournalOutcomeType DEF EffectKinds
      <4>2. JournalEffect(JournalOutcome(d)) # "sample_provider"
        BY JournalOutcomeType DEF JournalKinds
      <4> QED BY <4>1, <4>2, OneEffectType DEF Identities
    <3> QED BY <1>1, <3>1, UpdateEffectsType DEF TerminalRequested
  <2> QED BY <1>1, <2>1, <2>2 DEF TerminalRequested
<1>2. ASSUME NEW e \in DOMAIN effects, NEW error \in BOOLEAN, JournalResult(e, error)
      PROVE  TypeOK'
  <2>1. effects[e].attempt \in Nat
    BY DEF EffectsTyped, Effect
  <2>2. EffectsTyped'
    BY <1>2, <2>1, UpdateEffectsType, SetEffectType DEF JournalResult
  <2>3. ProofTyped'
    BY <1>2, JournalOutcomeType DEF JournalResult, ProofTyped, JournalStatus, SettledJournal
  <2> QED BY <1>2, <2>2, <2>3 DEF JournalResult
<1>3. CASE FinishTerminal
  <2>1. LifeTyped'
    <3>1. decision.kind \in Terminal
      BY <1>3 DEF FinishTerminal, DecisionFits, LifeTyped, Decision
    <3> QED BY <1>3, <3>1 DEF FinishTerminal, LifeTyped, Phases
  <2>2. OutTyped'
    BY <1>3 DEF FinishTerminal, OutTyped
  <2> QED BY <1>3, <2>1, <2>2 DEF FinishTerminal
<1> QED BY <1>1, <1>2, <1>3 DEF TerminalStep

\* Only the terminal transaction decides, commits and ends a turn.
LEMMA OnlyTerminalDecides ==
  ASSUME TypeOK,
         LifeStep \/ EffectStep \/ SampleStep \/ OutputStep \/ ToolStep \/ InputStep
           \/ ProofStep \/ DecisionStep
  PROVE  /\ decision' = decision
         /\ phase' = phase \/ (phase \in {"created"} \cup Running /\ phase' \in Running)
<1> USE DEF lifeVars, Running
<1>1. CASE LifeStep
  BY <1>1 DEF LifeStep, StartTurn, PreparationFinished, RecoveryRequested, CancelRequested
<1>2. CASE EffectStep
  BY <1>2 DEF EffectStep, EffectStarted, EffectRequeued, EffectResultReceived
<1>3. CASE SampleStep
  <2>1. ASSUME NEW e, NEW s, NEW ok, NEW text, NEW continued, NEW batch,
               ModelSampleResult(e, s, ok, text, continued, batch)
        PROVE  decision' = decision /\ phase \in Running /\ phase' \in Running
    BY <2>1 DEF ModelSampleResult
  <2>2. ASSUME NEW e, NEW s, NEW complete,
               \/ ModelSampleRequested(s)
               \/ ModelSampleProgress(e, s, complete)
               \/ ProviderRetry(e, s)
        PROVE  decision' = decision /\ phase' = phase
    BY <2>2 DEF ModelSampleRequested, ModelSampleProgress, ProviderRetry
  <2> QED BY <1>3, <2>1, <2>2 DEF SampleStep
<1>4. CASE OutputStep
  BY <1>4 DEF OutputStep, ModelText, ReleaseOutput, DiscardOutput
<1>5. CASE ToolStep
  BY <1>5 DEF ToolStep, ToolCallsProposed, ToolResult, PhaseAfterTool, AbortOpenCalls,
              ApprovalRequired, ApprovalResult
<1>6. CASE InputStep
  BY <1>6 DEF InputStep, InputRequired, InputResolved, InputResult, ResolveInput
<1>7. CASE ProofStep
  BY <1>7 DEF ProofStep, VerificationStarted, VerificationFinished, CompletionEvaluated,
              CompletionInvalidated
<1>8. CASE DecisionStep
  BY <1>8 DEF DecisionStep, EvaluateTurnStep, ConvergenceRequested, ObserveProgress,
              ConvergenceFinalizationStarted
<1> QED BY <1>1, <1>2, <1>3, <1>4, <1>5, <1>6, <1>7, <1>8

\* A decision is made when the turn starts to commit and kept from then on.
LEMMA DecisionStepFits == TypeOK /\ DecisionFits /\ Next => DecisionFits'
<1> SUFFICES ASSUME TypeOK, DecisionFits, Next PROVE DecisionFits'
  OBVIOUS
<1>1. CASE LifeStep \/ EffectStep \/ SampleStep \/ OutputStep \/ ToolStep \/ InputStep
           \/ ProofStep \/ DecisionStep
  BY <1>1, OnlyTerminalDecides DEF DecisionFits, Running, Terminal
<1>2. CASE TerminalStep
  <2>1. ASSUME NEW d \in Decisions, TerminalRequested(d) PROVE DecisionFits'
    <3>1. d # NoDecision
      BY DEF Decisions, Decision, NoDecision, Terminal
    <3> QED BY <2>1, <3>1 DEF TerminalRequested, DecisionFits
  <2>2. ASSUME NEW e, NEW error, JournalResult(e, error) PROVE DecisionFits'
    BY <2>2 DEF JournalResult, DecisionFits, lifeVars
  <2>3. CASE FinishTerminal
    <3>1. decision.kind \in Terminal
      BY <2>3 DEF FinishTerminal, DecisionFits, TypeOK, Decision
    <3> QED BY <2>3, <3>1 DEF FinishTerminal, DecisionFits
  <2> QED BY <1>2, <2>1, <2>2, <2>3 DEF TerminalStep
<1> QED BY <1>1, <1>2 DEF Next

\* Type correctness: no sequence of commands, whatever the policy and the model's answers,
\* takes a turn out of the types state.go declares.
THEOREM TypeCorrect == Spec => [](TypeOK /\ DecisionFits)
<1>1. Init => TypeOK /\ DecisionFits
  BY TypeInit DEF Init, DecisionFits, Terminal
<1>2. TypeOK /\ DecisionFits /\ [Next]_vars => (TypeOK /\ DecisionFits)'
  <2>1. CASE UNCHANGED vars
    BY <2>1, UnchangedTyped, TypeParts DEF vars, lifeVars, DecisionFits
  <2> QED BY <2>1, DecisionStepFits, TypeLifeStep, TypeEffectStep, TypeSampleStep, TypeOutputStep,
             TypeToolStep, TypeInputStep, TypeProofStep, TypeDecisionStep,
             TypeTerminalStep DEF Next
<1> QED BY <1>1, <1>2, PTL DEF Spec

=============================================================================
