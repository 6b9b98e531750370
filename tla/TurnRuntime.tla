---------------------------- MODULE TurnRuntime ----------------------------
(***************************************************************************)
(* One Turn in its process: the engine goroutine that runs it, the tools   *)
(* of a batch, the goroutines that cancel it and answer its approvals, the *)
(* dispatcher registry that lives in memory, and the durable turn state    *)
(* (TurnKernel) that survives a crash.                                     *)
(*                                                                         *)
(* Every command is one durable commit.  RuntimeKernel's mutex makes a     *)
(* method atomic for the other goroutines, never for a crash: methods of   *)
(* several commits are several actions and `locked` keeps the others out.  *)
(* A faulty commit leaves the turn state alone and the method fails.       *)
(*                                                                         *)
(* Left out: user input, steering, context overflow, progress leases.      *)
(***************************************************************************)
EXTENDS TurnKernel

CONSTANTS
  MaxCrashes,   \* bound: crashes of the process
  MaxErrors,    \* bound: failed commits and failed journal operations
  MaxRetries,   \* bound: attempts of a sample after which no retry is scheduled
  UserCancels,  \* whether a user may cancel the turn
  FreshCalls    \* whether the provider never repeats a tool call identity

ASSUME RuntimeAssumption ==
  {MaxCrashes, MaxErrors, MaxRetries} \subseteq Nat /\ {UserCancels, FreshCalls} \subseteq BOOLEAN

VARIABLES
  eng,      \* the engine goroutine, see EngineState
  routed,   \* DurableEffectDispatcher.routed, by effect sequence number
  job,      \* what the tool of each call is doing
  locked,   \* the approval effect a RuntimeKernel method holds the mutex for, or 0
  ctx,      \* the context of the turn and its cancellation, see Context
  disk,     \* what the workspace journal driver did to the files
  faults    \* crashes and errors so far

procVars == <<eng, routed, job, locked, ctx, disk, faults>>
allVars == <<vars, procVars>>

\* The steps of FinalizeTerminal.
FinalSteps == {"abort", "abortTools", "discard", "request", "journal", "driver", "settle",
               "finish"}
Steps == {"open", "prepare", "enter", "loop", "begin", "start", "streaming", "streamed",
          "tools", "batch", "closing", "declare", "advance", "act", "verifying", "verified",
          "repair", "complete", "done", "stuck", "rejected", "down"} \cup FinalSteps

Reply == [ok : BOOLEAN, text : BOOLEAN, batch : {<<>>} \cup Batches]
NoReply == [ok |-> FALSE, text |-> FALSE, batch |-> <<>>]

\* at: the step; sample: the current sample; reply: the model's answer to it; call: the
\* declaration to evaluate; several: the batch has other calls; finalizing:
\* convergenceFinalization; want: the terminal decision it asks for; failed: an error the
\* method in progress will return; last: the deferred finalizer is running.
EngineState ==
  [at : Steps, sample : Samples \cup {Null}, reply : Reply, call : Calls \cup {Null},
   several : BOOLEAN, finalizing : BOOLEAN, want : Decisions \cup {NoDecision},
   failed : BOOLEAN, last : BOOLEAN]

\* The context of the turn; while "canceling", Cancel has asked for the cancellation and has
\* still to cancel the context.
Context == {"live", "canceling", "done"}

\* A registry entry.  kept is the result command Resolve retains until it is accepted.
ToolOutcome == [isError : BOOLEAN, changes : BOOLEAN]
Answer == [canceled : BOOLEAN]
Entry == [kind : EffectKinds, call : Identities, started : BOOLEAN,
          kept : {Null} \cup Reply \cup ToolOutcome \cup Answer]

\* Type invariant of the process state; the turn state has TypeOK.
ProcTypeOK ==
  /\ eng \in EngineState
  /\ DOMAIN routed \subseteq 1..seq
  /\ \A e \in DOMAIN routed : routed[e] \in Entry
  /\ job \in [Calls -> {"idle", "started", "asking", "answered", "done"}]
  /\ locked \in 0..seq
  /\ ctx \in Context
  /\ disk \in {"open"} \cup SettledJournal
  /\ faults \in [crashes : 0..MaxCrashes, errors : 0..MaxErrors]

-----------------------------------------------------------------------------
(* The dispatcher *)

Up == eng.at # "down"
Active == eng.at \notin {"open", "prepare", "done", "stuck", "rejected", "down"}

\* Nobody holds the mutex of the RuntimeKernel.
Unlocked == locked = 0 /\ eng.at \notin {"abortTools", "verified"}

At(s) == eng.at = s /\ locked = 0
Go(s) == eng' = [eng EXCEPT !.at = s]

RoutedEntry(e) == [kind |-> effects'[e].kind, call |-> effects'[e].call,
                   started |-> FALSE, kept |-> Null]

\* SubmitWithCommit dispatches the effects the command requested.
Dispatch(r) ==
  routed' = [e \in DOMAIN r \cup (DOMAIN effects' \ DOMAIN effects) |->
               IF e \in DOMAIN r THEN r[e] ELSE RoutedEntry(e)]

Submit(command) == phase \notin Terminal /\ command /\ Dispatch(routed)

\* findLocked: the first entry of this kind and, unless call is Null, of this call.
Find(kind, call) ==
  Lowest({e \in DOMAIN routed : /\ routed[e].kind = kind
                                /\ call = Null \/ routed[e].call = call})

\* dispatcher.Start
Start(e) ==
  /\ ~routed[e].started
  /\ EffectStarted(e)
  /\ routed' = [routed EXCEPT ![e].started = TRUE]

\* Mutant: a resolved entry stays in the registry.
Resolve_KeepsEntry(e, command) == command /\ Dispatch(routed)

\* dispatcher.Resolve, accepted: the entry is gone and new effects are routed.
Resolve(e, command) == command /\ Dispatch(Without(routed, {e}))

\* dispatcher.Resolve, refused: the first result is retained.
Retain(e, result) ==
  routed' = [routed EXCEPT ![e].kept = IF @ = Null THEN result ELSE @]

\* What Resolve submits: the retained result if there is one.
Kept(e, result) == IF routed[e].kept = Null THEN result ELSE routed[e].kept

-----------------------------------------------------------------------------
(* Opening and resuming the turn *)

NewEngine(s) == [at |-> s, sample |-> Null, reply |-> NoReply, call |-> Null,
                 several |-> FALSE, finalizing |-> FALSE, want |-> NoDecision,
                 failed |-> FALSE, last |-> FALSE]

RuntimeInit ==
  /\ Init
  /\ eng = NewEngine("open")
  /\ routed = <<>>
  /\ job = [c \in Calls |-> "idle"]
  /\ locked = 0
  /\ ctx = "live"
  /\ disk = "open"
  /\ faults = [crashes |-> 0, errors |-> 0]

\* A commit or an operation of the journal driver fails.
Error == faults.errors < MaxErrors /\ faults' = [faults EXCEPT !.errors = @ + 1]

Local == UNCHANGED <<job, locked, ctx, disk, faults>>

Open == At("open") /\ Submit(StartTurn) /\ Go("prepare") /\ Local
Prepare == At("prepare") /\ Submit(PreparationFinished) /\ Go("enter") /\ Local

CancelDecision(reason) == [kind |-> "canceled", user |-> (reason = "user"),
                           blocked |-> FALSE, recoverable |-> FALSE]
FailDecision(recoverable) == [kind |-> "failed", user |-> FALSE, blocked |-> FALSE,
                              recoverable |-> recoverable]

\* FinalizeTerminal is called for a failure or a cancellation.
Finalize(d, last) ==
  eng' = [eng EXCEPT !.at = "abort", !.want = d, !.failed = FALSE, !.last = last]

\* Mutant: the reason is taken from the scope, which a restart clears.
CancelReason_OfScope == IF ctx = "live" THEN "other" ELSE "user"

\* The reason of the accepted cancellation, else the one Cancel leaves in the scope.
CancelReason == IF Canceled THEN cancel ELSE "user"

\* The engine returns an error and the deferred finalizer asks for what terminalEvent
\* makes of it: a cancellation once the context is canceled or an approval was.
Fail == IF ctx = "done" \/ CancelReason = "other" THEN Finalize(CancelDecision(CancelReason), TRUE)
        ELSE \E recoverable \in BOOLEAN : Finalize(FailDecision(recoverable), TRUE)

\* Mutant: a turn resumed while it commits is canceled instead of what it had decided.
Enter_Redecides ==
  /\ At("enter")
  /\ \/ /\ phase = "committing"
        /\ eng' = [eng EXCEPT !.at = "journal", !.want = CancelDecision(CancelReason)]
     \/ phase \in Terminal /\ Go("done")
     \/ phase \notin {"committing"} \cup Terminal /\ Go("loop")
  /\ UNCHANGED <<vars, routed>> /\ Local

\* Mutant: a turn resumed while it commits is run from the start of the loop.
Enter_Restarts ==
  /\ At("enter")
  /\ IF phase \in Terminal THEN Go("done") ELSE Go("loop")
  /\ UNCHANGED <<vars, routed>> /\ Local

\* What a resumed turn does first: it goes on with its terminal decision, ends an accepted
\* cancellation, or runs the open calls before the loop.
Enter ==
  /\ At("enter")
  /\ \/ phase = "committing" /\ eng' = [eng EXCEPT !.at = "journal", !.want = decision]
     \/ phase \in Terminal /\ Go("done")
     \/ /\ phase \notin {"committing"} \cup Terminal
        /\ IF Canceled THEN Finalize(CancelDecision(CancelReason), TRUE)
           ELSE Go(IF Find("execute_tool", Null) # {} THEN "tools" ELSE "loop")
  /\ UNCHANGED <<vars, routed>> /\ Local

-----------------------------------------------------------------------------
(* The sampling loop *)

FreshSamples == {s \in Samples : sample[s].status = "none"}

\* Mutant: a pending sample is not resumed.
Loop_IgnoresPending ==
  /\ At("loop")
  /\ IF \/ completion.kind = "accepted"
        \/ phase = "sampling" /\ convergence.cause # "none" /\ ~eng.finalizing
     THEN Go("advance")
     ELSE IF phase # "sampling" \/ FreshSamples = {} THEN Fail
     ELSE \E s \in FreshSamples : eng' = [eng EXCEPT !.at = "begin", !.sample = s]
  /\ UNCHANGED <<vars, routed>> /\ Local

\* An accepted completion or a new convergence is acted on first; ObserveProgress refuses
\* to go on outside sampling; a pending sample is resumed before a new one is requested.
\* The turn fails when the model has no samples left (the bound of the instance).
Loop ==
  /\ At("loop")
  /\ IF \/ completion.kind = "accepted"
        \/ phase = "sampling" /\ convergence.cause # "none" /\ ~eng.finalizing
     THEN Go("advance")
     ELSE IF phase # "sampling" \/ (Find("sample_provider", Null) = {} /\ FreshSamples = {})
     THEN Fail
     ELSE IF Find("sample_provider", Null) # {}
     THEN \E e \in Find("sample_provider", Null) :
            eng' = [eng EXCEPT !.at = "start", !.sample = routed[e].call]
     ELSE \E s \in FreshSamples : eng' = [eng EXCEPT !.at = "begin", !.sample = s]
  /\ UNCHANGED <<vars, routed>> /\ Local

\* The observation that exhausts the progress lease starts a convergence.
NoProgress ==
  /\ At("loop")
  /\ completion.kind # "accepted" /\ convergence.cause = "none"
  /\ Submit(ObserveProgress)
  /\ UNCHANGED eng /\ Local

\* BeginModelSample up to where it releases the mutex to wait for a retry.
BeginModelSample ==
  /\ At("begin")
  /\ \/ Submit(ModelSampleRequested(eng.sample)) /\ Go("start")
     \/ (Canceled \/ ctx = "done") /\ Fail /\ UNCHANGED <<vars, routed>>
  /\ Local

StartModelSample ==
  /\ At("start")
  /\ ~sample[eng.sample].complete
  /\ \E e \in Find("sample_provider", eng.sample) : Start(e)
  /\ Go("streaming") /\ Local

Distinct(batch) == \A i, j \in DOMAIN batch : batch[i] = batch[j] => i = j

\* The replies of the provider; text next to tool calls is left out.
Answers ==
  {r \in Reply : /\ r.ok \/ r = NoReply
                 /\ r.batch # <<>> => ~r.text
                 /\ FreshCalls => /\ Distinct(r.batch)
                                  /\ \A i \in DOMAIN r.batch : calls[r.batch[i]] = "none"}

Answered(r) ==
  eng' = [eng EXCEPT !.at = "streamed", !.reply = r, !.finalizing = FALSE]

\* The wait for a retry ends with the context; a complete response needs no attempt.
SkipModelSample ==
  /\ At("start")
  /\ \/ ctx = "done" /\ sample[eng.sample].retry /\ Answered(NoReply)
     \/ sample[eng.sample].complete /\ \E r \in Answers : r.ok /\ Answered(r)
  /\ UNCHANGED <<vars, routed>> /\ Local

\* The complete response is checkpointed before the stream ends.
Checkpoint ==
  /\ At("streaming")
  /\ \E e \in DOMAIN effects :
       ~sample[eng.sample].complete /\ ModelSampleProgress(e, eng.sample, TRUE)
  /\ UNCHANGED <<eng, routed>> /\ Local

StreamEnds ==
  /\ At("streaming")
  /\ \E r \in Answers : (r.ok => sample[eng.sample].complete) /\ Answered(r)
  /\ UNCHANGED <<vars, routed>> /\ Local

\* The attempt failed and another is scheduled, or the response was cut off and the next
\* attempt continues it (FinishModelTransport).  A complete response ends the sample.
AnotherAttempt(e) ==
  /\ At("streaming")
  /\ ~sample[eng.sample].complete
  /\ routed[e].started
  /\ effects[e].attempt < MaxRetries
  /\ routed' = [routed EXCEPT ![e].started = FALSE]
  /\ Go("start") /\ Local

ScheduleProviderRetry ==
  /\ ctx # "done"
  /\ \E e \in Find("sample_provider", eng.sample) :
       AnotherAttempt(e) /\ ProviderRetry(e, eng.sample)

FinishModelTransport ==
  \E e \in Find("sample_provider", eng.sample) : AnotherAttempt(e) /\ EffectRequeued(e)

SampleResult(e, r) == ModelSampleResult(e, eng.sample, r.ok, r.text, FALSE, r.batch)
SampleRefused(r) ==
  \/ r.ok /\ r.batch # <<>> /\ ~ProposableBatch(r.batch)
  \/ sample[eng.sample].attempt = 0

\* A refused result stays in the registry and the engine returns the error.
FinishModelSample ==
  /\ At("streamed")
  /\ \E e \in Find("sample_provider", eng.sample) :
       LET r == Kept(e, eng.reply)
       IN \/ /\ Resolve(e, SampleResult(e, r))
             /\ IF ~eng.reply.ok THEN Fail
                ELSE Go(IF eng.reply.batch # <<>> THEN "tools" ELSE "advance")
          \/ SampleRefused(r) /\ Retain(e, eng.reply) /\ Fail /\ UNCHANGED vars
  /\ Local

-----------------------------------------------------------------------------
(* Tools *)

\* ExecuteToolEffect starts the open calls in order, then runs them all.
StartTool ==
  /\ At("tools")
  /\ \E e \in Lowest({e \in DOMAIN routed : routed[e].kind = "execute_tool" /\ ~routed[e].started}) :
       Start(e) /\ job' = [job EXCEPT ![routed[e].call] = "started"]
  /\ UNCHANGED <<eng, locked, ctx, disk, faults>>

ExecuteBatch ==
  /\ At("tools")
  /\ \A e \in DOMAIN routed : routed[e].kind = "execute_tool" => routed[e].started
  /\ eng' = [eng EXCEPT !.at = "batch",
                         !.several = Cardinality({e \in DOMAIN routed :
                                       routed[e].kind = "execute_tool"}) > 1]
  /\ UNCHANGED <<vars, routed>> /\ Local

Executing(c) == eng.at = "batch" /\ locked = 0 /\ calls[c] = "open"

\* RequireApproval requests the approval and, under the same mutex, starts its effect.
RequireApproval(r, c) ==
  /\ Executing(c) /\ job[c] = "started"
  /\ ApprovalsOf(c) = {}
  /\ Submit(ApprovalRequired(r, c))
  /\ job' = [job EXCEPT ![c] = "asking"]
  /\ locked' = seq'
  /\ UNCHANGED <<eng, ctx, disk, faults>>

StartApproval ==
  /\ locked # 0 /\ ~routed[locked].started
  /\ Start(locked)
  /\ locked' = 0
  /\ UNCHANGED <<eng, job, ctx, disk, faults>>

\* EnsureApproval: a tool run again after a restart waits for the request it had made.
EnsureApproval(c) ==
  /\ Executing(c) /\ job[c] = "started"
  /\ ApprovalsOf(c) # {}
  /\ job' = [job EXCEPT ![c] = "asking"]
  /\ UNCHANGED <<vars, eng, routed, locked, ctx, disk, faults>>

\* ResolveApproval, called by the goroutine of the user's answer or when the wait expires.
\* The request was still registered when the answer came, the tool may have stopped waiting
\* since.  An effect a restart put back is started first, under the same mutex.
Answerable(r) ==
  /\ eng.at \in {"batch", "closing", "declare"}
  /\ approvals[r] # Null /\ job[approvals[r]] \in {"asking", "done"}

StartAnswer(r) ==
  /\ Answerable(r) /\ locked = 0
  /\ \E e \in Find("await_approval", approvals[r]) : Start(e) /\ locked' = e
  /\ UNCHANGED <<eng, job, ctx, disk, faults>>

\* The effect an answer resolves; a retained answer has taken the request with it.
AnswerRoute(r) ==
  {e \in Find("await_approval", approvals[r]) :
     routed[e].started /\ routed[e].kept = Null /\ locked \in {0, e}}

ResolveApproval(r, canceled) ==
  /\ Answerable(r)
  /\ \E e \in AnswerRoute(r) : Resolve(e, ApprovalResult(e, r, canceled))
  /\ locked' = 0
  /\ job' = [job EXCEPT ![approvals[r]] = IF @ = "asking" THEN "answered" ELSE @]
  /\ UNCHANGED <<eng, ctx, disk, faults>>

\* An answer that cancels a canceled turn is refused and retained; nobody wakes the tool.
RefuseAnswer(r) ==
  /\ Answerable(r) /\ Canceled
  /\ \E e \in AnswerRoute(r) : Retain(e, [canceled |-> TRUE])
  /\ locked' = 0
  /\ UNCHANGED <<vars, eng, job, ctx, disk, faults>>

\* A tool ends, a waiting one when the context ends.
ToolDone(c) ==
  /\ Executing(c)
  /\ \/ job[c] \in {"started", "answered"}
     \/ job[c] = "asking" /\ ctx = "done"
  /\ job' = [job EXCEPT ![c] = "done"]
  /\ UNCHANGED <<vars, eng, routed, locked, ctx, disk, faults>>

\* The wait for an answer expires when an answer is on its way and has taken the request:
\* the tool ends and leaves its approval pending.  A retained answer ended the expiry.
ExpireApproval(c) ==
  /\ Executing(c) /\ job[c] = "asking"
  /\ \E e \in Find("await_approval", c) : routed[e].kept = Null
  /\ job' = [job EXCEPT ![c] = "done"]
  /\ UNCHANGED <<vars, eng, routed, locked, ctx, disk, faults>>

\* Mutant: ExecuteBatch returns with the first tool that ends.
BatchDone_FirstTool ==
  /\ At("batch")
  /\ \E c \in Calls : job[c] = "done"
  /\ Go("closing")
  /\ UNCHANGED <<vars, routed>> /\ Local

\* ExecuteBatch waits for every tool.
BatchDone ==
  /\ At("batch")
  /\ \A c \in Calls : job[c] \in {"idle", "done"}
  /\ Go("closing")
  /\ UNCHANGED <<vars, routed>> /\ Local

Outcomes(c) ==
  {o \in ToolOutcome : o.changes => c \notin DeclCalls /\ mutation < MaxMutations}

\* The effects of the batch whose tools have ended, and the one that is closed next.
Ended == {e \in DOMAIN routed : routed[e].kind = "execute_tool" /\ job[routed[e].call] = "done"}

\* CloseTool, in the order of the batch.  A result that is refused or not committed is
\* retained; the batch goes on and fails in the end.
CloseTool ==
  /\ At("closing")
  /\ \E e \in Lowest(Ended) :
       LET c == routed[e].call
       IN \E o \in Outcomes(c) :
            /\ job' = [job EXCEPT ![c] = "idle"]
            /\ \/ /\ Resolve(e, ToolResult(e, c, o.isError, o.changes))
                  /\ eng' = IF c \in DeclCalls
                            THEN [eng EXCEPT !.at = "declare", !.call = c] ELSE eng
                  /\ UNCHANGED faults
               \/ /\ \/ ApprovalsOf(c) # {} /\ ~Canceled /\ UNCHANGED faults
                     \/ Error
                  /\ Retain(e, o)
                  /\ eng' = [eng EXCEPT !.failed = TRUE]
                  /\ UNCHANGED vars
  /\ UNCHANGED <<locked, ctx, disk>>

\* EvaluateCompletion after turn_complete, which is refused while calls are open; with
\* other calls in the batch the candidate is rejected.
Declare ==
  /\ At("declare")
  /\ \/ /\ \E candidate \in (IF eng.several THEN {"malformed"} ELSE Candidates) :
            Submit(CompletionEvaluated(candidate))
        /\ Go("closing")
     \/ /\ phase # "sampling"
        /\ eng' = [eng EXCEPT !.at = "closing", !.failed = TRUE]
        /\ UNCHANGED <<vars, routed>>
  /\ Local

\* The end of the batch: an accepted cancellation is finished first, then errors return.
BatchClosed ==
  /\ At("closing")
  /\ \A c \in Calls : job[c] # "done"
  /\ IF Canceled THEN Finalize(CancelDecision(cancel), FALSE)
     ELSE IF eng.failed THEN Fail
     ELSE Go("loop")
  /\ UNCHANGED <<vars, routed>> /\ Local

-----------------------------------------------------------------------------
(* Deciding what comes next, verification, completion *)

\* advanceTurn asks the reducer for the next step.
Advance ==
  /\ At("advance")
  /\ \/ \E key \in Keys : Submit(EvaluateTurnStep(key)) /\ Go("act")
     \/ /\ \/ phase # "sampling"
           \/ /\ StepCase = "converge" /\ RepairableDeclaration
              /\ convergence.cause = "incomplete"
        /\ Fail /\ UNCHANGED <<vars, routed>>
  /\ Local

\* RuntimeKernel.DiscardOutput does nothing without output.
Discard == IF output THEN Submit(DiscardOutput) ELSE UNCHANGED <<vars, routed>>

BlockDecision == [kind |-> "failed", user |-> FALSE, blocked |-> TRUE, recoverable |-> FALSE]

\* advanceTurn acts on the step; a refused verification or finalization fails the turn.
Act ==
  /\ At("act")
  /\ \/ /\ next \in {"repair_tool_failure", "repair_completion", "repair_workspace"}
        /\ Discard /\ Go("loop")
     \/ next = "repair_declaration" /\ Go("loop") /\ UNCHANGED <<vars, routed>>
     \/ next = "verify" /\ Submit(VerificationStarted) /\ Go("verifying")
     \/ next = "verify" /\ Canceled /\ Fail /\ UNCHANGED <<vars, routed>>
     \/ /\ next = "finalize"
        /\ Submit(ConvergenceFinalizationStarted)
        /\ eng' = [eng EXCEPT !.at = "loop", !.finalizing = TRUE]
     \/ next = "block" /\ Finalize(BlockDecision, FALSE) /\ UNCHANGED <<vars, routed>>
     \/ next = "complete" /\ Go("complete") /\ UNCHANGED <<vars, routed>>
  /\ Local

\* FinishVerification starts the effect and, under the same mutex, resolves it.
StartVerification ==
  /\ At("verifying")
  /\ \E e \in Find("run_verification", Null) : Start(e)
  /\ Go("verified") /\ Local

\* Mutant: a verification that passed is not told apart from one that failed.
FinishVerification_NeverPasses ==
  /\ At("verified")
  /\ \E e \in Find("run_verification", Null), key \in Keys,
        status \in {"passed", "failed", "unavailable"} :
       Resolve(e, VerificationFinished(e, status, key))
  /\ \/ verification'.action = "repair" /\ Go("repair")
     \/ verification'.action # "repair" /\ Fail
  /\ Local

\* The verifier's error fails the turn unless the gate is soft; so do a blocked and a
\* failed verification.
FinishVerification ==
  /\ At("verified")
  /\ \E e \in Find("run_verification", Null), key \in Keys,
        status \in {"passed", "failed", "unavailable"} :
       Resolve(e, VerificationFinished(e, status, key))
  /\ \/ /\ verification'.action \in {"passed", "reported", "reverted"}
        /\ Go("complete")
     \/ verification'.action = "repair" /\ Go("repair")
     \/ verification'.action \in {"blocked", "failed"} /\ Fail
     \/ verification'.status = "unavailable" /\ ~Policy.soft /\ Fail
  /\ Local

RepairVerification == At("repair") /\ Discard /\ Go("loop") /\ Local

\* completeTurn releases the output and asks for the completed terminal.
CompleteTurn ==
  /\ At("complete")
  /\ \/ /\ Submit(ReleaseOutput)
        /\ eng' = [eng EXCEPT !.at = "request", !.last = FALSE,
                              !.want = [NoDecision EXCEPT !.kind = "completed"]]
     \/ ~(phase = "sampling" /\ output /\ CompletionContract) /\ Fail /\ UNCHANGED <<vars, routed>>
  /\ Local

-----------------------------------------------------------------------------
(* FinalizeTerminal *)

\* Mutant: the finalizer that fails is run again and again.
GiveUp_Again == Fail

\* FinalizeTerminal fails before the terminal request: the deferred finalizer tries once
\* more, and when it is the one that failed the turn has no terminal state.
GiveUp == IF eng.last THEN Go("stuck") ELSE Fail

\* AbortProviderSamples: a sample that never started is started, then its retained result
\* or an aborted one is submitted.
AbortSample ==
  /\ At("abort")
  /\ \E e \in Find("sample_provider", Null) :
       \/ Start(e) /\ UNCHANGED eng
       \/ LET r == Kept(e, NoReply)
              s == routed[e].call
          IN /\ routed[e].started
             /\ \/ /\ Resolve(e, ModelSampleResult(e, s, r.ok, r.text, FALSE, r.batch))
                   /\ UNCHANGED eng
                \/ /\ r.ok /\ r.batch # <<>> /\ ~ProposableBatch(r.batch)
                   /\ eng' = [eng EXCEPT !.at = "abortTools", !.failed = TRUE]
                   /\ UNCHANGED <<vars, routed>>
  /\ Local

SamplesAborted ==
  /\ At("abort")
  /\ Find("sample_provider", Null) = {}
  /\ Go("abortTools")
  /\ UNCHANGED <<vars, routed>> /\ Local

\* AbortTools fails, called by FinalizeTerminal or for a batch whose tools did not start.
AbortFails == IF eng.want = NoDecision THEN Go("closing") ELSE GiveUp

\* Mutant: a pending approval is ended by the generic result, which leaves its request.
AbortApproval_Generic ==
  /\ At("abortTools") /\ OpenCalls # {}
  /\ \E r \in PendingApprovals : \E e \in Find("await_approval", approvals[r]) :
       Start(e) \/ (routed[e].started /\ Resolve(e, EffectResultReceived(e)))
  /\ UNCHANGED eng /\ Local

\* AbortTools, holding the mutex: each pending approval, then each tool effect is started
\* if need be and resolved, then the calls that are left are closed.
AbortApproval ==
  /\ At("abortTools") /\ OpenCalls # {}
  /\ \E r \in PendingApprovals : \E e \in Find("await_approval", approvals[r]) :
       \/ Start(e) /\ UNCHANGED eng
       \/ /\ routed[e].started
          /\ IF routed[e].kept = Null
             THEN Resolve(e, ApprovalResult(e, r, FALSE)) /\ UNCHANGED eng
             ELSE AbortFails /\ UNCHANGED <<vars, routed>>
  /\ Local

ToolAborted(e) ==
  IF routed[e].kept = Null THEN EffectResultReceived(e)
  ELSE ToolResult(e, routed[e].call, routed[e].kept.isError, routed[e].kept.changes)

AbortTool ==
  /\ At("abortTools") /\ OpenCalls # {} /\ PendingApprovals = {}
  /\ \E e \in Find("execute_tool", Null) :
       \/ Start(e)
       \/ routed[e].started /\ Resolve(e, ToolAborted(e))
  /\ UNCHANGED eng /\ Local

CloseCalls ==
  /\ At("abortTools")
  /\ PendingApprovals = {} /\ Find("execute_tool", Null) = {}
  /\ Submit(AbortOpenCalls)
  /\ UNCHANGED eng /\ Local

ToolsAborted ==
  /\ At("abortTools")
  /\ OpenCalls = {}
  /\ IF eng.failed THEN AbortFails ELSE Go("discard")
  /\ UNCHANGED <<vars, routed>> /\ Local

DiscardFinal == At("discard") /\ Discard /\ Go("request") /\ Local

RequestTerminal ==
  /\ At("request")
  /\ \/ Submit(TerminalRequested(eng.want)) /\ Go("journal")
     \/ ~TerminalReady(eng.want) /\ GiveUp /\ UNCHANGED <<vars, routed>>
  /\ Local

JournalRoute == {e \in DOMAIN routed : routed[e].kind \in JournalKinds}

StartJournal ==
  /\ At("journal")
  /\ \/ \E e \in JournalRoute : Start(e) /\ Go("driver")
     \/ JournalRoute = {} /\ Go("finish") /\ UNCHANGED <<vars, routed>>
  /\ Local

\* Mutant: the files are marked with the terminal state instead of the journal operation.
RunJournal_ByKind ==
  /\ At("driver")
  /\ disk' = eng.want.kind
  /\ Go("settle")
  /\ UNCHANGED <<vars, routed, job, locked, ctx, faults>>

\* The driver commits, suspends or rolls back the files, or fails.
RunJournal ==
  /\ At("driver")
  /\ \/ /\ disk' = JournalOutcome(eng.want)
        /\ Go("settle")
        /\ UNCHANGED faults
     \/ /\ Error
        /\ eng' = [eng EXCEPT !.at = "settle", !.failed = TRUE]
        /\ UNCHANGED disk
  /\ UNCHANGED <<vars, routed, job, locked, ctx>>

\* Mutant: an error of the driver is reported as a success.
FinishJournal_IgnoresError ==
  /\ At("settle")
  /\ \E e \in JournalRoute : Resolve(e, JournalResult(e, FALSE))
  /\ Go("finish") /\ Local

\* FinishJournal; after an error the effect waits for the next process.
FinishJournal ==
  /\ At("settle")
  /\ \E e \in JournalRoute :
       IF eng.failed
       THEN /\ JournalResult(e, TRUE)
            /\ routed' = [routed EXCEPT ![e].started = FALSE]
            /\ Go("stuck")
       ELSE Resolve(e, JournalResult(e, FALSE)) /\ Go("finish")
  /\ Local

FinishTurn ==
  /\ At("finish")
  /\ \/ Submit(FinishTerminal) /\ Go("done")
     \/ decision.kind # "completed" /\ output /\ Go("stuck") /\ UNCHANGED <<vars, routed>>
  /\ Local

-----------------------------------------------------------------------------
(* Cancellation, failed commits, crashes *)

\* TurnService.Cancel asks Scope.Cancel for the cancellation, which commits it.  Before the
\* scope has its kernel there is nothing to commit to, and the context is canceled all the
\* same.  When the commit is refused or fails, the error is returned and only the stream or
\* the batch under way is canceled; the model takes the context of the turn with it.
Cancel ==
  /\ UserCancels /\ Unlocked
  /\ ctx = "live" /\ ctx' = "canceling"
  /\ \/ Active /\ Submit(CancelRequested("user")) /\ UNCHANGED faults
     \/ eng.at \in {"open", "prepare"} /\ UNCHANGED <<vars, routed, faults>>
     \/ /\ eng.at \in {"streaming", "batch"}
        /\ (Canceled /\ UNCHANGED faults) \/ Error
        /\ UNCHANGED <<vars, routed>>
  /\ UNCHANGED <<eng, job, locked, disk>>

\* Mutant: Cancel leaves the context running.
CancelContext_StillLive ==
  /\ ctx = "canceling" /\ ctx' = "live"
  /\ UNCHANGED <<vars, eng, routed, job, locked, disk, faults>>

\* TurnService.Cancel records the cancellation and cancels the context of the turn.
CancelContext ==
  /\ ctx = "canceling" /\ ctx' = "done"
  /\ UNCHANGED <<vars, eng, routed, job, locked, disk, faults>>

\* A commit of the engine goroutine fails: where the error leads.
CommitFails ==
  /\ locked = 0 /\ Error
  /\ \/ eng.at \in {"loop", "begin", "advance", "act", "repair", "complete"} /\ Fail
     \/ eng.at \in {"start", "streaming"} /\ Answered(NoReply)
     \/ eng.at = "tools" /\ eng' = [eng EXCEPT !.at = "abortTools", !.failed = TRUE]
     \/ eng.at = "declare" /\ eng' = [eng EXCEPT !.at = "closing", !.failed = TRUE]
     \/ eng.at \in {"verifying", "verified", "streamed"} /\ Fail
     \/ eng.at = "abort" /\ eng' = [eng EXCEPT !.at = "abortTools", !.failed = TRUE]
     \/ eng.at = "abortTools" /\ AbortFails
     \/ eng.at \in {"discard", "request"} /\ GiveUp
     \/ eng.at \in {"journal", "settle", "finish"} /\ Go("stuck")
  /\ job' = IF eng.at = "tools" THEN [c \in Calls |-> "idle"] ELSE job
  /\ IF eng.at = "streamed"
     THEN \E e \in Find("sample_provider", eng.sample) : Retain(e, eng.reply)
     ELSE UNCHANGED routed
  /\ UNCHANGED <<vars, locked, ctx, disk>>

\* The memory of the process is lost, the turn state is not.
Down ==
  /\ eng' = NewEngine("down")
  /\ routed' = <<>>
  /\ job' = [c \in Calls |-> "idle"]
  /\ locked' = 0
  /\ ctx' = "live"
  /\ UNCHANGED <<vars, disk>>

\* Without a commit there is no turn to resume; a rejected or ended one is not resumed.
Crash ==
  /\ eng.at \notin {"down", "done", "rejected"} /\ phase # "created"
  /\ faults.crashes < MaxCrashes /\ faults' = [faults EXCEPT !.crashes = @ + 1]
  /\ Down

\* TurnService.run rejects the operation of a turn the engine left without a terminal
\* state: no later process resumes it.
Reject ==
  /\ At("stuck")
  /\ Go("rejected")
  /\ UNCHANGED <<vars, routed>> /\ Local

RunningEffects == {e \in DOMAIN effects : effects[e].status = "running"}

\* RestoreTurnCoordinator puts the running effects back, one commit each, then routes
\* every pending effect.
Requeue ==
  /\ At("down")
  /\ \E e \in Lowest(RunningEffects) : EffectRequeued(e)
  /\ UNCHANGED <<eng, routed>> /\ Local

Restore ==
  /\ At("down")
  /\ RunningEffects = {}
  /\ UNCHANGED vars
  /\ routed' = [e \in DOMAIN effects |-> RoutedEntry(e)]
  /\ Go("enter")
  /\ Local

\* The turn is over.
Over == eng.at \in {"done", "rejected"} /\ UNCHANGED allVars

-----------------------------------------------------------------------------
EngineStep ==
  \/ Open \/ Prepare \/ Enter
  \/ Loop \/ NoProgress \/ BeginModelSample \/ StartModelSample \/ SkipModelSample
  \/ Checkpoint \/ StreamEnds \/ ScheduleProviderRetry \/ FinishModelTransport
  \/ FinishModelSample
  \/ StartTool \/ ExecuteBatch \/ BatchDone \/ CloseTool \/ Declare \/ BatchClosed
  \/ Advance \/ Act \/ StartVerification \/ FinishVerification \/ RepairVerification
  \/ CompleteTurn
  \/ AbortSample \/ SamplesAborted \/ AbortApproval \/ AbortTool \/ CloseCalls
  \/ ToolsAborted \/ DiscardFinal \/ RequestTerminal \/ StartJournal \/ RunJournal
  \/ FinishJournal \/ FinishTurn
  \/ Requeue \/ Restore \/ Reject

ToolProgress(c) == StartApproval \/ EnsureApproval(c) \/ ToolDone(c)

UserStep ==
  \/ Cancel
  \/ \E r \in Requests : \/ StartAnswer(r)
                          \/ RefuseAnswer(r)
                          \/ \E canceled \in BOOLEAN : ResolveApproval(r, canceled)

RuntimeNext ==
  \/ EngineStep
  \/ \E c \in Calls : \/ ToolProgress(c) \/ ExpireApproval(c)
                       \/ \E r \in Requests : RequireApproval(r, c)
  \/ UserStep \/ CancelContext
  \/ CommitFails \/ Crash
  \/ Over

\* The goroutines run: the engine, the tools, the second half of Cancel and an answer that
\* holds the mutex; a stream and a tool end.  Users answer and cancel when they like.
RuntimeFairness ==
  /\ WF_allVars(EngineStep)
  /\ \A c \in Calls : WF_allVars(ToolProgress(c))
  /\ WF_allVars(CancelContext)
  /\ WF_allVars(locked # 0 /\ UserStep)

RuntimeSpec == RuntimeInit /\ [][RuntimeNext]_allVars /\ RuntimeFairness

-----------------------------------------------------------------------------
(* Properties *)

\* Safety: between two methods of the kernel the dispatcher's registry agrees with the
\* durable turn state: every pending effect has a route, marked started exactly when the
\* effect is running.  Only approvals closed by a cancellation leave a route behind.
RegistryAgrees ==
  Up /\ Unlocked =>
    /\ \A e \in DOMAIN effects :
         /\ e \in DOMAIN routed
         /\ routed[e].kind = effects[e].kind /\ routed[e].call = effects[e].call
         /\ routed[e].started <=> effects[e].status = "running"
    /\ \A e \in DOMAIN routed \ DOMAIN effects : routed[e].kind = "await_approval"

\* Refinement: the engine, the users and restarts together give the turn no command outside
\* TurnKernel's Next, whose steps leave out what the reducer would accept and no caller asks
\* for (a second sample next to a pending one, an answer by another call's effect, a generic
\* result of any effect).  What is proved of Spec therefore holds of the running turn.
ImplementsKernel == Spec

\* Safety: no tool runs for a call that is closed, whatever was canceled, aborted or
\* restarted meanwhile, and a tool that waits for an answer has its request pending.
NoOrphanTool ==
  \A c \in Calls :
    /\ job[c] # "idle" => calls[c] = "open"
    /\ job[c] = "asking" => ApprovalsOf(c) # {}

\* Safety: once the turn is over, the files are as the durable decision says: nobody ran
\* another journal operation and none is missing.
FilesAsDecided ==
  phase \in Terminal => disk = IF journal = "none" THEN "open" ELSE journal

\* Action property: the journal driver never undoes or replaces what it has done to the
\* files, although a crash or an error between the driver and the commit of its result
\* makes it run again.
FilesSettledOnce == [][disk # "open" => disk' = disk]_allVars

\* Safety: a turn a user canceled keeps its workspace changes for a later turn.
UserWorkKept == phase = "canceled" /\ cancel = "user" /\ mutation # 0 => journal = "suspended"

\* A tool waits for a user.
AwaitsUser == \E c \in Calls : job[c] = "asking"

\* Liveness: whatever fails, a turn ends, waits for a user or has its operation rejected:
\* no goroutine waits forever for something nobody will do.
NeverHangs == []<>(phase \in Terminal \/ AwaitsUser \/ eng.at = "rejected")

\* Liveness: crashes alone never cost a turn its end: resumed as often as it takes, it
\* reaches a terminal state or waits for a user, unless a user cancels it or a commit or the
\* journal driver fails.
TurnEnds ==
  []<>(phase \in Terminal \/ AwaitsUser \/ Canceled \/ faults.errors # 0)

\* Liveness: a turn whose declaration was accepted, and whose changes need no further
\* verification, completes unless it is canceled.
AcceptedCompletes ==
  (completion.kind = "accepted" /\ ~NeedsVerification) ~> (phase = "completed" \/ Canceled)

\* Liveness: a cancellation a user was told is accepted stops the turn, also one whose
\* tools wait for answers nobody gives.
CancelStops == (cancel = "user") ~> (phase \in Terminal \/ eng.at = "rejected")

\* Liveness: a cancellation a user was told is accepted ends the turn in a terminal state,
\* the only kind of state for which a terminal event is published.
CancelEnds == (cancel = "user") ~> (phase \in Terminal)

=============================================================================
