----------------------------- MODULE TurnKernel -----------------------------
(***************************************************************************)
(* The Turn state machine of internal/runtime/agent/turnkernel: the state  *)
(* a Turn keeps and the commands Reducer.Apply accepts, one action each.   *)
(*                                                                         *)
(* Apply is a pure function of a state and a command.  It rejects the      *)
(* command when the handler's own conditions fail and, last, when the      *)
(* state the handler produced fails Validate.  An action is enabled        *)
(* exactly when Apply accepts the command; the conjuncts marked [Validate] *)
(* are the cases in which only that last check refuses it.  That the list  *)
(* is complete is what the invariant Validate says.                        *)
(*                                                                         *)
(* Data the commands only carry is left out: texts, tool arguments, paths, *)
(* token counts, failure messages (taken to be non-empty), the work item   *)
(* and the progress lease.  Provisional and final output are "is there     *)
(* any"; an effect's payload is its kind and identity.                     *)
(***************************************************************************)
EXTENDS Integers, Sequences, FiniteSets

CONSTANTS
  Samples,          \* model sample identities
  Calls,            \* tool call identities the model may produce
  DeclCalls,        \* those that call turn_complete
  Requests,         \* approval request identities
  Inputs,           \* user input request identities
  Keys,             \* progress keys of the repair budgets
  Policy,           \* the Policy of the turn, see PolicyType
  Null,             \* absent
  MaxBatch,         \* bound: tool calls in one model sample
  MaxEffects,       \* bound: effects requested in the turn
  MaxAttempts,      \* bound: starts of one effect
  MaxMutations      \* bound: workspace mutations observed in the turn

RepairKinds == {"completion", "workspace", "declaration", "verification"}

PolicyType ==
  [workspaceChange : BOOLEAN,      \* intent is workspace_change
   research : BOOLEAN,             \* intent is answer or plan
   requiresCompletion : BOOLEAN,   \* CompletionRequired and StructuredTerminalRequired
   verificationRequired : BOOLEAN,
   mustPass : BOOLEAN,             \* VerificationMustPass
   soft : BOOLEAN,                 \* VerificationMode is "soft"
   revert : BOOLEAN,               \* VerificationOnFailure is "revert"
   journalRequired : BOOLEAN,
   limit : [RepairKinds -> Nat]]   \* the four repair limits

ASSUME PolicyAssumption ==
  /\ Policy \in PolicyType
  /\ ~(Policy.workspaceChange /\ Policy.research)

ASSUME IdentityAssumption ==
  /\ DeclCalls \subseteq Calls
  /\ Null \notin Samples \cup Calls \cup Requests \cup Inputs \cup Keys

ASSUME BoundAssumption ==
  {MaxBatch, MaxEffects, MaxAttempts, MaxMutations} \subseteq Nat

VARIABLES
  phase,
  cancel,        \* the accepted cancellation: "none", "user" or "other"
  sample,        \* SampleLedger
  active,        \* ActiveSampleID
  effects,       \* PendingEffects, by effect sequence number
  seq,           \* NextEffectSequence
  calls,         \* OpenCalls and ClosedCalls: "none", "open" or "closed"
  approvals,     \* PendingApprovals: the call each pending request is about
  input,         \* PendingInput
  mutation,      \* MutationRevision
  journal,       \* Journal
  verification,  \* Verification
  completion,    \* Completion
  convergence,   \* Convergence
  budget,        \* RepairBudgets
  next,          \* NextAction
  output,        \* there is provisional output
  eligible,      \* OutputEligibility
  final,         \* there is final output
  tool,          \* UnresolvedToolFailure, RecoveryToolSucceeded, LastModelContinued
  draft,         \* RecoveryRelation.DraftResumed
  decision       \* PendingTerminal while committing, Terminal afterwards

lifeVars  == <<phase, cancel, draft, decision>>
workVars  == <<sample, active, calls, approvals, input>>
effVars   == <<effects, seq>>
proofVars == <<mutation, journal, verification, completion>>
stepVars  == <<convergence, budget, next, tool>>
outVars   == <<output, eligible, final>>
vars == <<lifeVars, workVars, effVars, proofVars, stepVars, outVars>>

-----------------------------------------------------------------------------
Running == {"preparing", "sampling", "executing_tools", "awaiting_approval",
            "awaiting_input", "verifying"}
Terminal == {"completed", "failed", "canceled"}
Phases == {"created", "committing"} \cup Running \cup Terminal

JournalKinds == {"commit_journal", "suspend_journal", "rollback_journal"}
EffectKinds == {"sample_provider", "execute_tool", "await_approval", "await_input",
                "run_verification"} \cup JournalKinds
Identities == Samples \cup Calls \cup Requests \cup Inputs \cup {Null}

\* A pending effect; call is the tool call or the sample it is about.
Effect ==
  {f \in [kind : EffectKinds, key : Identities, call : Identities,
          status : {"requested", "running"}, attempt : Nat] :
     f.kind = "sample_provider" => f.call \in Samples}

SampleState == [status : {"none", "requested", "running", "completed", "failed"},
                attempt : Nat, retry : BOOLEAN, complete : BOOLEAN]

JournalStatus == {"none", "open", "suspended", "committed", "rolled_back"}
SettledJournal == {"suspended", "committed", "rolled_back"}

VerificationState ==
  [status : {"not_evaluated", "passed", "failed", "unavailable"},
   action : {"none", "passed", "repair", "reported", "blocked", "failed", "reverted"},
   mutation : Nat]

\* The completion decision, with the rejection reasons EvaluateTurnStep tells apart.
CompletionState == [kind : {"none", "accepted", "declaration", "rejected"}, mutation : Nat]

\* "budget" stands for the causes output_limit, no_progress, step_limit and repair_budget.
ConvergenceState == [cause : {"none", "budget", "incomplete"}, attempted : BOOLEAN]

StepActions == {"none", "repair_tool_failure", "repair_completion", "repair_workspace",
                "repair_declaration", "verify", "finalize", "block", "complete"}

Budget == [key : Keys \cup {Null, "convergence"}, consecutive : Nat, steps : Nat]

\* A terminal decision: user is the reason user_interrupted, blocked a convergence
\* outcome, recoverable a fault disposition that lets the turn be resumed.
Decision == [kind : Terminal, user : BOOLEAN, blocked : BOOLEAN, recoverable : BOOLEAN]
NoDecision == [kind |-> "none", user |-> FALSE, blocked |-> FALSE, recoverable |-> FALSE]

\* Type invariant: every part of the turn state has the type state.go declares.
TypeOK ==
  /\ phase \in Phases
  /\ cancel \in {"none", "user", "other"}
  /\ sample \in [Samples -> SampleState]
  /\ active \in Samples \cup {Null}
  /\ seq \in Nat
  /\ DOMAIN effects \subseteq 1..seq
  /\ effects \in [DOMAIN effects -> Effect]
  /\ calls \in [Calls -> {"none", "open", "closed"}]
  /\ approvals \in [Requests -> Calls \cup {Null}]
  /\ input \in Inputs \cup {Null}
  /\ mutation \in Nat
  /\ journal \in JournalStatus
  /\ verification \in VerificationState
  /\ completion \in CompletionState
  /\ convergence \in ConvergenceState
  /\ budget \in [RepairKinds -> Budget]
  /\ next \in StepActions
  /\ output \in BOOLEAN /\ eligible \in BOOLEAN /\ final \in BOOLEAN
  /\ tool \in [failed : BOOLEAN, recovered : BOOLEAN, continued : BOOLEAN]
  /\ draft \in BOOLEAN
  /\ decision \in Decision \cup {NoDecision}

-----------------------------------------------------------------------------
(* Helpers *)

OpenCalls == {c \in Calls : calls[c] = "open"}
ClosedCalls == {c \in Calls : calls[c] = "closed"}
PendingApprovals == {r \in Requests : approvals[r] # Null}
Canceled == cancel # "none"

Without(f, S) == [x \in DOMAIN f \ S |-> f[x]]

\* sortedEffectIDs visits ids in order and the closing helpers stop at the first match.
Lowest(S) == {e \in S : \A f \in S : e <= f}

Of(kind, key) == {e \in DOMAIN effects : effects[e].kind = kind /\ effects[e].key = key}

NewEffect(kind, key, call) ==
  [kind |-> kind, key |-> key, call |-> call, status |-> "requested", attempt |-> 0]

\* Mutant of UpdateEffects: the sequence number is not advanced.
UpdateEffects_StaleSeq(gone, new) ==
  /\ seq + Len(new) <= MaxEffects
  /\ effects' = [e \in (DOMAIN effects \ gone) \cup (seq + 1)..(seq + Len(new)) |->
                   IF e \in DOMAIN effects THEN effects[e] ELSE new[e - seq]]
  /\ UNCHANGED seq

\* requestEffect for each element of a sequence of new effects, and finishEffect or
\* close...Effect for the effects in gone.
UpdateEffects(gone, new) ==
  /\ seq + Len(new) <= MaxEffects
  /\ effects' = [e \in (DOMAIN effects \ gone) \cup (seq + 1)..(seq + Len(new)) |->
                   IF e \in DOMAIN effects THEN effects[e] ELSE new[e - seq]]
  /\ seq' = seq + Len(new)

SetEffect(e, status, attempt) ==
  /\ effects' = [effects EXCEPT ![e].status = status, ![e].attempt = attempt]
  /\ UNCHANGED seq

NoCompletion == [kind |-> "none", mutation |-> 0]
NotVerified == [status |-> "not_evaluated", action |-> "none", mutation |-> 0]

\* Mutant of VerificationCurrent: any evaluated verification will do.
VerificationCurrent_AnyAction ==
  verification.mutation = mutation /\ verification.action # "none"

\* The mutation revision has a verification a completed turn may rest on.
VerificationCurrent ==
  /\ verification.mutation = mutation
  /\ verification.action \in {"passed", "reported", "reverted"}

NeedsVerification ==
  Policy.verificationRequired /\ mutation # 0 /\ ~VerificationCurrent

Consecutive(b, key) == IF b.key = key THEN b.consecutive ELSE 0
\* Mutant of Exhausted: one round too many.
Exhausted_Late(kind, key) == Consecutive(budget[kind], key) > Policy.limit[kind]
Exhausted(kind, key) == Consecutive(budget[kind], key) >= Policy.limit[kind]
Spent(kind, key) ==
  [budget EXCEPT ![kind] =
     [key |-> key, consecutive |-> Consecutive(@, key) + 1, steps |-> @.steps + 1]]

\* What the workspace journal must become for decision d in this state.
JournalOutcome(d) ==
  IF d.kind = "completed" /\ verification.action # "reverted" THEN "committed"
  ELSE IF \/ d.kind = "canceled" /\ d.user
          \/ d.kind = "failed" /\ \/ verification.action = "blocked"
                                  \/ d.blocked \/ d.recoverable \/ draft
       THEN "suspended"
       ELSE "rolled_back"

JournalEffect(status) ==
  CASE status = "committed" -> "commit_journal"
    [] status = "suspended" -> "suspend_journal"
    [] status = "rolled_back" -> "rollback_journal"

\* validateCompletionContract
CompletionContract ==
  /\ Policy.workspaceChange => mutation # 0
  /\ Policy.requiresCompletion =>
       completion.kind = "accepted" /\ completion.mutation = mutation
  /\ IF mutation = 0 THEN journal = "none" ELSE journal = "open" /\ ~NeedsVerification

-----------------------------------------------------------------------------
(* Life of the turn up to the first sample *)

Init ==
  /\ phase = "created" /\ cancel = "none" /\ draft = FALSE /\ decision = NoDecision
  /\ sample = [s \in Samples |->
                 [status |-> "none", attempt |-> 0, retry |-> FALSE, complete |-> FALSE]]
  /\ active = Null
  /\ calls = [c \in Calls |-> "none"]
  /\ approvals = [r \in Requests |-> Null]
  /\ input = Null
  /\ effects = <<>> /\ seq = 0
  /\ mutation = 0 /\ journal = "none"
  /\ verification = NotVerified /\ completion = NoCompletion
  /\ convergence = [cause |-> "none", attempted |-> FALSE]
  /\ budget = [k \in RepairKinds |-> [key |-> Null, consecutive |-> 0, steps |-> 0]]
  /\ next = "none"
  /\ tool = [failed |-> FALSE, recovered |-> FALSE, continued |-> FALSE]
  /\ output = FALSE /\ eligible = FALSE /\ final = FALSE

StartTurn ==
  /\ phase = "created"
  /\ phase' = "preparing"
  /\ UNCHANGED <<cancel, draft, decision, workVars, effVars, proofVars, stepVars, outVars>>

PreparationFinished ==
  /\ phase = "preparing"
  /\ phase' = "sampling"
  /\ UNCHANGED <<cancel, draft, decision, workVars, effVars, proofVars, stepVars, outVars>>

\* Bind the turn to the one it retries or continues; changes are the draft's changes.
\* A second recovery command may arrive before StartTurn and replaces the first.
RecoveryRequested(resumed, changes) ==
  /\ phase = "created"
  /\ resumed => changes
  /\ changes => MaxMutations >= 1
  /\ draft' = resumed
  /\ IF changes THEN mutation' = 1 /\ journal' = "open" ELSE UNCHANGED <<mutation, journal>>
  /\ UNCHANGED <<phase, cancel, decision, verification, completion,
                 workVars, effVars, stepVars, outVars>>

CancelRequested(reason) ==
  /\ ~Canceled
  /\ cancel' = reason
  /\ UNCHANGED <<phase, draft, decision, workVars, effVars, proofVars, stepVars, outVars>>

-----------------------------------------------------------------------------
(* Effects: started, put back, finished *)

\* [Validate] an active sample exists only while sampling.
EffectStarted(e) ==
  LET s == effects[e].call
      a == effects[e].attempt + 1
  IN /\ effects[e].status = "requested"
     /\ a <= MaxAttempts
     /\ SetEffect(e, "running", a)
     /\ IF effects[e].kind = "sample_provider"
        THEN /\ sample[s].status = "requested"
             /\ phase = "sampling"
             /\ sample' = [sample EXCEPT ![s].status = "running", ![s].attempt = a,
                                         ![s].retry = FALSE]
             /\ active' = s
        ELSE UNCHANGED <<sample, active>>
     /\ UNCHANGED <<calls, approvals, input, lifeVars, proofVars, stepVars, outVars>>

EffectRequeued(e) ==
  LET s == effects[e].call
  IN /\ effects[e].status = "running"
     /\ SetEffect(e, "requested", effects[e].attempt)
     /\ IF effects[e].kind = "sample_provider"
        THEN /\ sample[s].status = "running"
             /\ sample' = [sample EXCEPT ![s].status = "requested"]
             /\ active' = Null
        ELSE UNCHANGED <<sample, active>>
     /\ UNCHANGED <<calls, approvals, input, lifeVars, proofVars, stepVars, outVars>>

\* The generic result: it ends the effect and leaves the effect's owner as it was.
EffectResultReceived(e) ==
  /\ UpdateEffects({e}, <<>>)
  /\ UNCHANGED <<lifeVars, workVars, proofVars, stepVars, outVars>>

-----------------------------------------------------------------------------
(* Model samples *)

ModelSampleRequested(s) ==
  /\ phase = "sampling" /\ ~Canceled
  /\ active = Null
  /\ sample[s].status = "none"
  /\ sample' = [sample EXCEPT ![s].status = "requested"]
  /\ next' = "none"
  /\ UpdateEffects({}, <<NewEffect("sample_provider", s, s)>>)
  /\ UNCHANGED <<active, calls, approvals, input, convergence, budget, tool,
                 lifeVars, proofVars, outVars>>

\* Effect e is the running provider attempt of sample s.
RunningSample(e, s) ==
  /\ effects[e].kind = "sample_provider" /\ effects[e].call = s
  /\ effects[e].status = "running"
  /\ active = s

\* The response received so far is replaced by an extension of it, which may or may not
\* be complete.
ModelSampleProgress(e, s, complete) ==
  /\ phase = "sampling"
  /\ RunningSample(e, s)
  /\ sample[s].status = "running"
  /\ sample[s].attempt = effects[e].attempt
  /\ sample' = [sample EXCEPT ![s].complete = complete]
  /\ UNCHANGED <<active, calls, approvals, input,
                 lifeVars, effVars, proofVars, stepVars, outVars>>

ProviderRetry(e, s) ==
  /\ phase = "sampling"
  /\ RunningSample(e, s)
  /\ sample' = [sample EXCEPT ![s].status = "requested", ![s].retry = TRUE]
  /\ active' = Null
  /\ SetEffect(e, "requested", effects[e].attempt)
  /\ UNCHANGED <<calls, approvals, input, lifeVars, proofVars, stepVars, outVars>>

\* applyToolCalls accepts the batch: no cancellation, new and distinct call identities.
ProposableBatch(batch) ==
  /\ ~Canceled
  /\ batch # <<>>
  /\ \A i, j \in DOMAIN batch : batch[i] = batch[j] => i = j
  /\ \A i \in DOMAIN batch : calls[batch[i]] = "none"

InBatch(c, batch) == \E i \in DOMAIN batch : batch[i] = c

ToolEffects(batch) ==
  [i \in DOMAIN batch |-> NewEffect("execute_tool", batch[i], batch[i])]

OpenBatch(batch) ==
  [c \in Calls |-> IF InBatch(c, batch) THEN "open" ELSE calls[c]]

\* Text that only introduces tool calls is commentary and never becomes output.
IsCommentary(batch) ==
  /\ batch # <<>>
  /\ convergence.cause = "none"
  /\ ~(Len(batch) = 1 /\ batch[1] \in DeclCalls)

\* The result may meet the running effect; one scheduled for a retry and aborted; or one
\* requeued (by a restart, or when the stream ended) whose response is complete.
SampleResultMatches(e, s, ok) ==
  /\ effects[e].kind = "sample_provider" /\ effects[e].call = s
  /\ \/ effects[e].status = "running" /\ active = s
     \/ /\ effects[e].status = "requested"
        /\ active = Null
        /\ sample[s].status = "requested"
        /\ ok => sample[s].complete

\* [Validate] a finished sample has an attempt.
ModelSampleResult(e, s, ok, text, continued, batch) ==
  /\ phase = "sampling"
  /\ SampleResultMatches(e, s, ok)
  /\ sample[s].attempt # 0
  /\ sample' = [sample EXCEPT ![s].status = IF ok THEN "completed" ELSE "failed",
                              ![s].retry = FALSE]
  /\ active' = Null
  /\ tool' = [tool EXCEPT !.continued = continued]
  /\ next' = "none"
  /\ LET newText == ok /\ text /\ ~IsCommentary(batch)
     IN /\ output' = (output \/ newText)
        /\ eligible' = (eligible /\ ~newText /\ (~ok \/ batch = <<>>))
  /\ IF ok /\ batch # <<>>
     THEN /\ ProposableBatch(batch)
          /\ UpdateEffects({e}, ToolEffects(batch))
          /\ calls' = OpenBatch(batch)
          /\ completion' = NoCompletion
          /\ phase' = "executing_tools"
     ELSE /\ UpdateEffects({e}, <<>>)
          /\ UNCHANGED <<calls, completion, phase>>
  /\ UNCHANGED <<cancel, draft, decision, approvals, input, mutation, journal,
                 verification, convergence, budget, final>>

-----------------------------------------------------------------------------
(* Provisional output *)

ModelText ==
  /\ phase = "sampling"
  /\ output' = TRUE /\ eligible' = FALSE
  /\ UNCHANGED <<final, lifeVars, workVars, effVars, proofVars, stepVars>>

ReleaseOutput ==
  /\ phase = "sampling"
  /\ output
  /\ CompletionContract
  /\ eligible' = TRUE
  /\ UNCHANGED <<output, final, lifeVars, workVars, effVars, proofVars, stepVars>>

DiscardOutput ==
  /\ phase \in Running \ {"preparing"}
  /\ output' = FALSE /\ eligible' = FALSE
  /\ UNCHANGED <<final, lifeVars, workVars, effVars, proofVars, stepVars>>

-----------------------------------------------------------------------------
(* Tool calls and approvals *)

\* [Validate] open calls and an active sample exclude each other.
ToolCallsProposed(batch) ==
  /\ phase \in {"sampling", "executing_tools"}
  /\ active = Null
  /\ ProposableBatch(batch)
  /\ UpdateEffects({}, ToolEffects(batch))
  /\ calls' = OpenBatch(batch)
  /\ completion' = NoCompletion
  /\ eligible' = FALSE
  /\ phase' = "executing_tools"
  /\ UNCHANGED <<cancel, draft, decision, sample, active, approvals, input,
                 mutation, journal, verification, output, final, stepVars>>

ApprovalsOf(c) == {r \in Requests : approvals[r] = c}
\* Mutant of ApprovalEffects: a closed call leaves its approvals pending outside.
ApprovalEffects_LeftBehind(R) == {}
ApprovalEffects(R) == UNION {Lowest(Of("await_approval", r)) : r \in R}

\* Mutant of PhaseAfterTool: approvals of the other calls are forgotten.
PhaseAfterTool_IgnoresApprovals(R, C) == IF C # {} THEN "executing_tools" ELSE "sampling"

\* The phase once the approvals in R and the calls in C are all that is left of a batch.
PhaseAfterTool(R, C) ==
  IF R # {} THEN "awaiting_approval"
  ELSE IF C # {} THEN "executing_tools" ELSE "sampling"

\* A result may overtake a pending approval of its call only once the turn is canceled;
\* the approvals are then closed with the call.
ToolResult(e, c, isError, changes) ==
  /\ phase \in {"executing_tools", "awaiting_approval"}
  /\ ApprovalsOf(c) = {} \/ Canceled
  /\ calls[c] = "open"
  /\ effects[e].kind = "execute_tool" /\ effects[e].call = c
  /\ effects[e].status = "running"
  /\ changes => mutation < MaxMutations
  /\ UpdateEffects({e} \cup ApprovalEffects(ApprovalsOf(c)), <<>>)
  /\ calls' = [calls EXCEPT ![c] = "closed"]
  /\ approvals' = [r \in Requests |-> IF approvals[r] = c THEN Null ELSE approvals[r]]
  /\ tool' = [tool EXCEPT !.failed = @ \/ isError,
                          !.recovered = ~isError /\ (@ \/ tool.failed)]
  /\ IF changes
     THEN /\ mutation' = mutation + 1
          /\ journal' = "open"
          /\ verification' = NotVerified
          /\ completion' = NoCompletion
     ELSE UNCHANGED proofVars
  /\ phase' = PhaseAfterTool(PendingApprovals \ ApprovalsOf(c), OpenCalls \ {c})
  /\ UNCHANGED <<cancel, draft, decision, sample, active, input,
                 convergence, budget, next, outVars>>

AbortOpenCalls ==
  /\ phase \in {"executing_tools", "awaiting_approval"}
  /\ OpenCalls # {}
  /\ UpdateEffects({e \in DOMAIN effects : effects[e].kind = "await_approval"} \cup
                   UNION {Lowest(Of("execute_tool", c)) : c \in OpenCalls}, <<>>)
  /\ calls' = [c \in Calls |-> IF calls[c] = "open" THEN "closed" ELSE calls[c]]
  /\ approvals' = [r \in Requests |-> Null]
  /\ phase' = "sampling"
  /\ UNCHANGED <<cancel, draft, decision, sample, active, input,
                 proofVars, stepVars, outVars>>

ApprovalRequired(r, c) ==
  /\ phase \in {"executing_tools", "awaiting_approval"}
  /\ calls[c] = "open"
  /\ approvals[r] = Null
  /\ approvals' = [approvals EXCEPT ![r] = c]
  /\ UpdateEffects({}, <<NewEffect("await_approval", r, c)>>)
  /\ phase' = "awaiting_approval"
  /\ UNCHANGED <<cancel, draft, decision, sample, active, calls, input,
                 proofVars, stepVars, outVars>>

\* The effect of the result is found by its call, the request by its own identity.  A
\* canceled approval also cancels the turn, and is refused when it is canceled already.
ApprovalResult(e, r, canceled) ==
  /\ effects[e].kind = "await_approval" /\ effects[e].status = "running"
  /\ phase = "awaiting_approval"
  /\ approvals[r] # Null
  /\ canceled => ~Canceled
  /\ UpdateEffects({e} \cup Lowest(Of("await_approval", r) \ {e}), <<>>)
  /\ approvals' = [approvals EXCEPT ![r] = Null]
  /\ phase' = IF PendingApprovals = {r} THEN "executing_tools" ELSE phase
  /\ cancel' = IF canceled THEN "other" ELSE cancel
  /\ UNCHANGED <<draft, decision, sample, active, calls, input,
                 proofVars, stepVars, outVars>>

-----------------------------------------------------------------------------
(* User input *)

\* [Validate] an active sample exists only while sampling.
InputRequired(i) ==
  /\ phase \in {"sampling", "executing_tools"}
  /\ active = Null
  /\ input' = i
  /\ UpdateEffects({}, <<NewEffect("await_input", i, Null)>>)
  /\ phase' = "awaiting_input"
  /\ UNCHANGED <<cancel, draft, decision, sample, active, calls, approvals,
                 proofVars, stepVars, outVars>>

\* New input reopens finalization.  [Validate] a declared incomplete convergence has
\* always attempted it.
ResolveInput(i, gone) ==
  /\ phase = "awaiting_input"
  /\ input = i
  /\ convergence.cause # "incomplete"
  /\ input' = Null
  /\ convergence' = [convergence EXCEPT !.attempted = FALSE]
  /\ UpdateEffects(gone \cup Lowest(Of("await_input", i) \ gone), <<>>)
  /\ phase' = IF OpenCalls # {} THEN "executing_tools" ELSE "sampling"
  /\ UNCHANGED <<cancel, draft, decision, sample, active, calls, approvals,
                 budget, next, tool, proofVars, outVars>>

InputResolved(i) == ResolveInput(i, {})

InputResult(e, i) ==
  /\ effects[e].kind = "await_input" /\ effects[e].status = "running"
  /\ ResolveInput(i, {e})

-----------------------------------------------------------------------------
(* Verification and completion *)

\* [Validate] an active sample exists only while sampling.
VerificationStarted ==
  /\ phase = "sampling" /\ ~Canceled
  /\ active = Null
  /\ OpenCalls = {}
  /\ mutation # 0
  /\ UpdateEffects({}, <<NewEffect("run_verification", Null, Null)>>)
  /\ phase' = "verifying"
  /\ UNCHANGED <<cancel, draft, decision, workVars, proofVars, stepVars, outVars>>

VerificationAction(status, repair) ==
  CASE status = "passed" -> "passed"
    [] status # "passed" /\ repair -> "repair"
    [] status # "passed" /\ ~repair /\ Policy.mustPass -> "blocked"
    [] status # "passed" /\ ~repair /\ ~Policy.mustPass /\ Policy.soft -> "reported"
    [] OTHER -> IF Policy.revert THEN "reverted" ELSE "failed"

VerificationFinished(e, status, key) ==
  LET repair == status # "passed" /\ ~Policy.soft /\ ~Exhausted("verification", key)
      action == VerificationAction(status, repair)
  IN /\ phase = "verifying"
     /\ effects[e].kind = "run_verification" /\ effects[e].status = "running"
     /\ UpdateEffects({e}, <<>>)
     /\ budget' = IF repair THEN Spent("verification", key) ELSE budget
     /\ verification' = [status |-> status, action |-> action, mutation |-> mutation]
     /\ completion' = IF action \in {"passed", "reported"} THEN completion ELSE NoCompletion
     /\ next' = "none"
     /\ phase' = "sampling"
     /\ UNCHANGED <<cancel, draft, decision, workVars, mutation, journal,
                    convergence, tool, outVars>>

\* The candidate declarations applyCompletion tells apart: the malformed ones, an invalid
\* declaration, one that declares the work incomplete and says what is pending, one that
\* is incomplete in another way, and a complete one that replaces or keeps the output.
Candidates == {"malformed", "invalid", "blocked", "unfinished", "complete", "preserve"}

CompletionKind(candidate) ==
  CASE candidate \in {"malformed", "blocked"} -> "rejected"
    [] candidate \in {"invalid", "unfinished"} -> "declaration"
    [] OTHER -> IF \/ Policy.workspaceChange /\ mutation = 0
                   \/ candidate = "preserve" /\ ~output
                THEN "rejected" ELSE "accepted"

CompletionEvaluated(candidate) ==
  LET accepted == CompletionKind(candidate) = "accepted"
  IN /\ phase = "sampling"
     /\ completion' = [kind |-> CompletionKind(candidate), mutation |-> mutation]
     /\ convergence' = IF candidate = "blocked" /\ ~convergence.attempted
                       THEN [cause |-> "incomplete", attempted |-> TRUE]
                       ELSE convergence
     /\ output' = (output \/ accepted)
     /\ eligible' = (eligible /\ ~accepted)
     /\ UNCHANGED <<final, mutation, journal, verification, budget, next, tool,
                    lifeVars, workVars, effVars>>

CompletionInvalidated ==
  /\ phase = "sampling"
  /\ completion.kind = "accepted"
  /\ completion' = NoCompletion
  /\ UNCHANGED <<mutation, journal, verification, lifeVars, workVars, effVars,
                 stepVars, outVars>>

-----------------------------------------------------------------------------
(* What the turn does next *)

\* beginConvergence: the first cause stays.
BeginConvergence ==
  IF convergence.cause # "none" THEN UNCHANGED <<convergence, next>>
  ELSE /\ convergence' = [cause |-> "budget", attempted |-> FALSE]
       /\ next' = "finalize"

ConvergenceRequested ==
  /\ phase = "sampling"
  /\ active = Null
  /\ BeginConvergence
  /\ UNCHANGED <<budget, tool, lifeVars, workVars, effVars, proofVars, outVars>>

\* An observation that exhausts the progress lease; the others leave this state alone.
ObserveProgress ==
  /\ phase = "sampling"
  /\ active = Null
  /\ BeginConvergence
  /\ UNCHANGED <<budget, tool, lifeVars, workVars, effVars, proofVars, outVars>>

ConvergenceFinalizationStarted ==
  /\ phase = "sampling"
  /\ active = Null
  /\ convergence.cause # "none" /\ ~convergence.attempted
  /\ convergence' = [convergence EXCEPT !.attempted = TRUE]
  /\ next' = "none"
  /\ UNCHANGED <<budget, tool, lifeVars, workVars, effVars, proofVars, outVars>>

\* A tool failure is settled by a later success of the batch that follows it.
ToolFailureOpen == tool.failed /\ ~tool.recovered

\* The case of applyEvaluateTurnStep that applies, named by the action it leads to;
\* "converge" stands for the cases of an active convergence.
StepCase ==
  IF completion.kind = "accepted" THEN IF NeedsVerification THEN "verify" ELSE "complete"
  ELSE IF convergence.cause # "none" THEN "converge"
  ELSE IF ToolFailureOpen THEN "repair_tool_failure"
  ELSE IF (tool.continued /\ ClosedCalls # {}) \/ ~output THEN "repair_completion"
  ELSE IF Policy.workspaceChange /\ mutation = 0 THEN "repair_workspace"
  ELSE IF Policy.requiresCompletion THEN "repair_declaration"
  ELSE IF NeedsVerification THEN "verify"
  ELSE "complete"

RepairKind(step) ==
  CASE step \in {"repair_tool_failure", "repair_completion"} -> "completion"
    [] step = "repair_workspace" -> "workspace"
    [] step = "repair_declaration" -> "declaration"

\* One repair round, or convergence when its budget is exhausted or zero.
Repair(step, key) ==
  /\ step \in {"repair_tool_failure", "repair_completion", "repair_workspace",
               "repair_declaration"}
  /\ IF Exhausted(RepairKind(step), key)
     THEN BeginConvergence /\ UNCHANGED budget
     ELSE /\ budget' = Spent(RepairKind(step), key)
          /\ next' = step
          /\ UNCHANGED convergence

\* A declaration that failed while finalizing may be repaired and finalized again.
RepairableDeclaration ==
  /\ convergence.attempted
  /\ completion.kind = "declaration"
  /\ budget["declaration"].steps < Policy.limit["declaration"]

\* [Validate] a declared incomplete convergence cannot be finalized again.
Converge ==
  /\ StepCase = "converge"
  /\ IF RepairableDeclaration
     THEN /\ convergence.cause # "incomplete"
          /\ budget' = Spent("declaration", "convergence")
          /\ convergence' = [convergence EXCEPT !.attempted = FALSE]
          /\ next' = "finalize"
     ELSE /\ next' = IF convergence.attempted THEN "block" ELSE "finalize"
          /\ UNCHANGED <<budget, convergence>>

EvaluateTurnStep(key) ==
  /\ phase = "sampling"
  /\ \/ /\ StepCase \in {"verify", "complete"}
        /\ next' = StepCase
        /\ UNCHANGED <<budget, convergence>>
     \/ Converge
     \/ Repair(StepCase, key)
  /\ tool' = IF \/ tool.failed /\ tool.recovered
                \/ StepCase = "repair_tool_failure" /\ Policy.research
             THEN [tool EXCEPT !.failed = FALSE, !.recovered = FALSE]
             ELSE tool
  /\ UNCHANGED <<lifeVars, workVars, effVars, proofVars, outVars>>

-----------------------------------------------------------------------------
(* The terminal transaction *)

\* The decisions TerminalRequested commands lead to.
Decisions ==
  {d \in Decision : /\ d.user => d.kind = "canceled"
                    /\ (d.blocked \/ d.recoverable) => d.kind = "failed"}

\* Nothing is owed to anyone, and the decision is one this state allows.
TerminalReady(d) ==
  /\ phase # "committing"
  /\ OpenCalls = {} /\ PendingApprovals = {} /\ input = Null /\ active = Null
  /\ DOMAIN effects = {}
  /\ d.kind = "completed" => phase = "sampling" /\ eligible /\ CompletionContract
  /\ d.blocked => convergence.cause # "none" /\ convergence.attempted

TerminalRequested(d) ==
  /\ TerminalReady(d)
  /\ decision' = d
  /\ phase' = "committing"
  /\ UpdateEffects({}, IF journal = "open" \/ Policy.journalRequired
                       THEN <<NewEffect(JournalEffect(JournalOutcome(d)), Null, Null)>>
                       ELSE <<>>)
  /\ UNCHANGED <<cancel, draft, workVars, proofVars, stepVars, outVars>>

JournalResult(e, error) ==
  LET status == JournalOutcome(decision)
  IN /\ phase = "committing"
     /\ effects[e].status = "running"
     /\ effects[e].kind = JournalEffect(status)
     /\ IF mutation = 0 THEN Policy.journalRequired /\ journal = "none"
                        ELSE journal = "open"
     /\ IF error THEN SetEffect(e, "requested", effects[e].attempt) /\ UNCHANGED journal
                 ELSE UpdateEffects({e}, <<>>) /\ journal' = status
     /\ UNCHANGED <<lifeVars, workVars, mutation, verification, completion,
                    stepVars, outVars>>

\* [Validate] a failed or canceled turn has no final output.
FinishTerminal ==
  /\ phase = "committing"
  /\ journal = IF mutation # 0 \/ Policy.journalRequired
               THEN JournalOutcome(decision) ELSE "none"
  /\ decision.kind # "completed" => ~output
  /\ final' = output /\ output' = FALSE
  /\ phase' = decision.kind
  /\ UNCHANGED <<cancel, draft, decision, eligible, workVars, effVars, proofVars, stepVars>>

-----------------------------------------------------------------------------
Batches == UNION {[1..n -> Calls] : n \in 1..MaxBatch}

\* The commands a running turn is given.  The reducer would accept more: the engine resumes
\* a pending sample before it asks for another, the generic result is submitted only for the
\* kinds dispatcher.Abort is called with, an approval result for a request of the call the
\* effect is found by.
LifeStep ==
  \/ StartTurn
  \/ PreparationFinished
  \/ \E resumed, changes \in BOOLEAN : RecoveryRequested(resumed, changes)
  \/ \E reason \in {"user", "other"} : CancelRequested(reason)

EffectStep ==
  \E e \in DOMAIN effects :
    \/ EffectStarted(e)
    \/ EffectRequeued(e)
    \/ effects[e].kind \in {"execute_tool", "await_input"} /\ EffectResultReceived(e)

SamplePending == \E e \in DOMAIN effects : effects[e].kind = "sample_provider"

SampleStep ==
  \/ \E s \in Samples : ~SamplePending /\ ModelSampleRequested(s)
  \/ \E e \in DOMAIN effects, s \in Samples :
       \/ \E complete \in BOOLEAN : ModelSampleProgress(e, s, complete)
       \/ ProviderRetry(e, s)
       \/ \E continued \in BOOLEAN : ModelSampleResult(e, s, FALSE, FALSE, continued, <<>>)
       \/ \E text, continued \in BOOLEAN, batch \in {<<>>} \cup Batches :
            ModelSampleResult(e, s, TRUE, text, continued, batch)

OutputStep == ModelText \/ ReleaseOutput \/ DiscardOutput

ToolStep ==
  \/ \E batch \in Batches : ToolCallsProposed(batch)
  \/ \E e \in DOMAIN effects, c \in Calls, isError, changes \in BOOLEAN :
       ToolResult(e, c, isError, changes)
  \/ AbortOpenCalls
  \/ \E r \in Requests, c \in Calls : ApprovalRequired(r, c)
  \/ \E e \in DOMAIN effects, r \in Requests, canceled \in BOOLEAN :
       approvals[r] = effects[e].call /\ ApprovalResult(e, r, canceled)

InputStep ==
  \E i \in Inputs : \/ InputRequired(i)
                    \/ InputResolved(i)
                    \/ \E e \in DOMAIN effects : InputResult(e, i)

ProofStep ==
  \/ VerificationStarted
  \/ \E e \in DOMAIN effects, status \in {"passed", "failed", "unavailable"}, key \in Keys :
       VerificationFinished(e, status, key)
  \/ \E candidate \in Candidates : CompletionEvaluated(candidate)
  \/ CompletionInvalidated

DecisionStep ==
  \/ \E key \in Keys : EvaluateTurnStep(key)
  \/ ConvergenceRequested
  \/ ObserveProgress
  \/ ConvergenceFinalizationStarted

TerminalStep ==
  \/ \E d \in Decisions : TerminalRequested(d)
  \/ \E e \in DOMAIN effects, error \in BOOLEAN : JournalResult(e, error)
  \/ FinishTerminal

\* A terminal state has no outgoing transition.
Next ==
  /\ phase \notin Terminal
  /\ \/ LifeStep \/ EffectStep \/ SampleStep \/ OutputStep \/ ToolStep
     \/ InputStep \/ ProofStep \/ DecisionStep \/ TerminalStep

Spec == Init /\ [][Next]_vars

-----------------------------------------------------------------------------
(* Properties *)

\* The phase fits the work in progress: the checks of Validate on phases, open calls,
\* approvals, input and the active sample.
PhaseFitsWork ==
  /\ active # Null => phase = "sampling" /\ sample[active].status = "running"
  /\ OpenCalls # {} => phase \in {"executing_tools", "awaiting_approval", "awaiting_input"}
  /\ phase = "executing_tools" => OpenCalls # {}
  /\ (PendingApprovals # {}) <=> (phase = "awaiting_approval")
  /\ \A r \in PendingApprovals : approvals[r] \in OpenCalls
  /\ (input # Null) <=> (phase = "awaiting_input")
  /\ phase = "verifying" => mutation # 0

\* The sample ledger and the effects are well formed: the checks of Validate on samples,
\* their retry schedules and effects.
LedgersValid ==
  /\ \A s \in Samples :
       /\ sample[s].status \in {"running", "completed", "failed"} => sample[s].attempt # 0
       /\ sample[s].retry =>
            /\ sample[s].status = "requested"
            /\ \E e \in DOMAIN effects : /\ effects[e].kind = "sample_provider"
                                         /\ effects[e].call = s
                                         /\ effects[e].status = "requested"
  /\ \A e \in DOMAIN effects : effects[e].status = "running" => effects[e].attempt # 0
  /\ \A k \in RepairKinds : budget[k].consecutive <= budget[k].steps
  /\ convergence.cause = "incomplete" => convergence.attempted

\* Journal, completion and verification agree with the mutation revision: the checks of
\* Validate on the proof a turn has of its changes.
ProofFitsMutation ==
  /\ mutation = 0 =>
       \/ journal = "none"
       \/ Policy.journalRequired /\ phase \in {"committing"} \cup Terminal
  /\ mutation # 0 => journal # "none"
  /\ journal \in SettledJournal => phase \in {"committing"} \cup Terminal
  /\ completion.kind = "accepted" => completion.mutation = mutation
  /\ IF verification.status = "not_evaluated" THEN verification = NotVerified
     ELSE mutation # 0 /\ verification.mutation = mutation /\ verification.action # "none"
  /\ draft => mutation # 0

\* A terminal state carries its decision, owes nothing and has the output and the journal
\* its decision asks for: the checks of Validate and validateTerminalState.
TerminalValid ==
  /\ (decision # NoDecision) <=> (phase \in {"committing"} \cup Terminal)
  /\ phase \in Terminal =>
       /\ phase = decision.kind
       /\ OpenCalls = {} /\ PendingApprovals = {} /\ input = Null /\ active = Null
       /\ DOMAIN effects = {}
       /\ ~output
       /\ final <=> decision.kind = "completed"
       /\ journal = IF mutation # 0 \/ Policy.journalRequired
                    THEN JournalOutcome(decision) ELSE "none"
  /\ phase = "completed" =>
       /\ eligible
       /\ Policy.workspaceChange => mutation # 0
       /\ Policy.requiresCompletion =>
            completion.kind = "accepted" /\ completion.mutation = mutation
       /\ ~NeedsVerification

\* Safety: every state a command produces passes Validate (invariants.go), so that Apply's
\* last check never refuses a command its handler accepted, beyond the guards marked
\* [Validate].
Validate == PhaseFitsWork /\ LedgersValid /\ ProofFitsMutation /\ TerminalValid

\* Safety: every pending effect still has an owner waiting for it (an open call, a pending
\* approval or input, the verification, the terminal transaction, a sample in the same
\* state), so no external work is left running for nobody.  Validate does not check it.
EffectsOwned ==
  \A e \in DOMAIN effects :
    LET f == effects[e] IN
    /\ f.kind = "sample_provider" =>
         /\ f.call \in Samples
         /\ sample[f.call].status = f.status
         /\ (f.status = "running") <=> (active = f.call)
         /\ f.status = "running" => sample[f.call].attempt = f.attempt
    /\ f.kind = "execute_tool" => f.call \in OpenCalls
    /\ f.kind = "await_approval" => f.key \in PendingApprovals /\ approvals[f.key] = f.call
    /\ f.kind = "await_input" => input # Null /\ f.key = input
    /\ f.kind = "run_verification" => phase = "verifying"
    /\ f.kind \in JournalKinds =>
         /\ phase = "committing"
         /\ f.kind = JournalEffect(JournalOutcome(decision))
         /\ journal \notin SettledJournal

\* Safety: no two pending effects have the same kind and identity, so closing the first
\* match (closeEffectByCall, closeEffectByIdentity) closes the only one.
EffectsUnique ==
  \A e, f \in DOMAIN effects :
    effects[e].kind = effects[f].kind /\ effects[e].key = effects[f].key => e = f

\* Safety: a turn whose policy demands a passing verification completes with changes only
\* when the verification of the last mutation passed.
MustPassVerified ==
  /\ phase = "completed" /\ mutation # 0
  /\ Policy.verificationRequired /\ Policy.mustPass
  => verification.status = "passed" /\ verification.mutation = mutation

\* Safety: a completed turn keeps its workspace changes unless its verification reverted
\* them, and a turn a user interrupted never loses them.
WorkKept ==
  /\ phase = "completed" /\ mutation # 0 /\ verification.action # "reverted" =>
       journal = "committed"
  /\ phase = "canceled" /\ decision.user /\ mutation # 0 => journal = "suspended"

\* Safety: no more consecutive repair rounds are granted for one progress key than the
\* policy allows, whichever of the four repairs asks (the declaration repairs of a
\* convergence count against the same budget under a key of their own).
RepairsBounded == \A k \in RepairKinds : budget[k].consecutive <= Policy.limit[k]

\* Action property: EvaluateTurnStep tells the engine to complete only a turn that meets
\* the completion contract, so neither ReleaseOutput nor the terminal request that the
\* engine then submits is refused because of it.
CompleteIsReady ==
  [][next # "complete" /\ next' = "complete" => CompletionContract']_vars

\* Action property: once a cancellation is accepted no sample, tool or verification is
\* requested any more.
NoWorkAfterCancel ==
  [][Canceled =>
       \A e \in DOMAIN effects' \ DOMAIN effects :
         effects'[e].kind \notin {"sample_provider", "execute_tool", "run_verification"}]_vars

\* Action property: a terminal decision, a closed call and a finished sample are final,
\* and the journal is settled at most once.
SettledIsFinal ==
  [][/\ decision # NoDecision => decision' = decision
     /\ \A c \in Calls : calls[c] = "closed" => calls'[c] = "closed"
     /\ \A s \in Samples : sample[s].status \in {"completed", "failed"} =>
          sample'[s].status = sample[s].status
     /\ journal \in SettledJournal => journal' = journal]_vars

=============================================================================
