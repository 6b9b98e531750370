# A TLA+ model of the QCode runtime

QCode is a coding agent: a user sends a message, a *Turn* asks a model for samples, runs
the tools the model calls, asks the user for approvals, verifies the changes it made to
the workspace and ends as completed, failed or canceled. A turn may start *child agents*,
each with turns of its own. This directory models the part of the program that decides how a
turn runs and ends, the application runtime that accepts turns, queues them and publishes
their end over crashes, the control of child agents with their budgets, and the journal that
undoes or keeps what a turn did to files. It checks the models with TLC and proves facts
about them with TLAPS. Paths are relative to the repository
root.

## The system and its parts

| Part | State it keeps | Operations | Talks to | What makes it correct |
| --- | --- | --- | --- | --- |
| Turn kernel (`internal/runtime/agent/turnkernel`, `reducer*.go`, `invariants.go`) | one `State` per turn: phase, samples, calls, approvals, input, pending effects, mutation revision, journal, verification, completion, repair budgets, convergence, terminal decision | `Reducer.Apply`, about 30 commands | pure; called by the coordinator | every accepted command leads to a state `Validate` accepts; pending effects belong to open work; terminal states are final and carry what the policy demands |
| Coordinator, dispatcher, `RuntimeKernel` | the durable state, the in-memory registry of effects (route, started, retained result), one mutex | `Submit`, `Start`, `Resolve`, `Abort`, `RestoreTurnCoordinator`, methods of several commits | turn state store; engine, tools, users | the registry agrees with the state; an interrupted method can be finished by the next process |
| Engine loop (`internal/runtime/agent/engine`) | position in the loop, the current sample, the cancellation of the scope | open, resume, sample, execute a batch, advance, verify, complete, finalize | kernel, provider, tool guard, journal driver | every turn ends or waits for a user, whatever fails |
| Tool guard and batch (`internal/adapter/tool`) | waits for approvals, expiry timers | execute, ask, resume, expire | kernel through the turn scope | nobody waits for an answer that cannot come |
| Operations of a thread (`internal/runtime/app`, `internal/host/runtimeapi/thread`) | operation and turn rows, the operation channel, claims of the turn queue, the registry of active turns | accept, dispatch, run, reject, enqueue, remove, drain, withdraw, shut down, recover at startup | engine, event hub, stores | an accepted operation has one outcome; the rows agree with the log; nothing that ended runs again |
| Workspace journal (`internal/persist/workspacejournal`) and file broker (`internal/security/filebroker`) | journals in memory, a ledger on disk, before-images in a content store | begin, record, commit, suspend, resume, keep, roll back, revert, recover, close; a transaction over several files | engine's journal driver, file tools, file system | what nobody decided to keep can be undone to what was there before; what was kept stays; a user's edit is not overwritten |
| Turn state store (`internal/persist/state/turnstate`) | state, domain facts, owner and epoch per turn | claim, renew, release, append | coordinator | two processes never both append to a turn |
| Event hub and terminal publication (`internal/runtime/app/eventhub`) | sequence, subscribers, outbox of terminal envelopes | append, project, mark, recover; replay, drop slow subscribers | stores, web host | no lost and no second terminal event |
| Child agents: control plane (`internal/orchestration/subagent`) | graph of agents with status, turn, result, durable budget; mailbox, worktrees, claims | spawn, follow up, wait, interrupt, close, settle, reconcile | child runtime, agent store | an agent leaves its slot; slots and tokens are given back once; a turn is charged once |
| Child runtime (`internal/runtime/app/wire/childruntime.go`) | the turn observed per agent, its lease, settlements under way | start a turn, observe its end, settle with retries, release, bind again at startup | application runtime, governor, ledger, control plane | whatever StartTurn took is returned, once |
| Governor and budget ledger (`internal/orchestration/admission`, `budget`) | flights and spend; reserved and spent usage per scope | admit, release, record; reserve, settle, refund | child runtime | the limits of tree and agent hold; no half-done settlement |
| Rate limiting (`internal/adapter/provider/ratelimit`) | windows and waiters per provider | admit, report, wait | provider adapters | no waiter starves |
| Authority (`internal/security/authority`) | leases and consumed operations | issue, consume, revoke | tool guard | an operation is authorized once |
| The rest: policy rules, sandbox, egress, event log and CAS files, context assembly, provider/MCP/LSP adapters, HTTP host, web client | rules, files, texts | pure decisions, I/O, presentation | | outside this project |

`PROJECT.json` lists every part with its sources, and every hazard with the line where it
bites. The hard behaviours are these: a cancellation, an approval answer, the expiry of a
wait and the engine commit commands in any order; methods of several commits are
interrupted by crashes and by failing commits; the registry and the contexts die with the
process while the turn state and the files survive; a result that was refused is retained
and offered again; the loop has no bound of its own. Around the turn: an envelope, the log,
the rows and the outbox are written one after the other and the process may stop between any
two; drains, removals and withdrawals run beside the workers. For child agents: StartTurn takes
a slot, a lease and a reservation one after the other while other callers interrupt, close or
follow up the same agent, and the end of the turn is observed by yet another goroutine. For
files: before-image, write and record of a file are three steps on disk between which the
process may die or the user may edit, and references to equal before-images are counted.

## The modules

**`TurnKernel`** is the reducer. A variable stands for a field of `State` (the comments at
the declarations name it), an action for a command; it is enabled exactly when `Apply`
accepts the command. `Apply` runs `Validate` on the state a handler produced. Where only
that last check refuses a command the model has an extra guard, marked `[Validate]`; that
there are no more such cases is the invariant `Validate`. Texts, arguments, paths and token
counts are left out. Output is "is there any", the reasons of a rejected completion are the
ones `EvaluateTurnStep` tells apart, the four budget-like convergence causes are one.
`EffectStep`, `ToolStep` and the others group the commands; they restrict the generic
`EffectResultReceived` to the effect kinds the code submits it for, approval results to
requests of the call by which the dispatcher found the effect, and new samples to turns
without a pending one. The runs `turn_verify` and `turn_stops` check that the engine keeps to
these limits (`ImplementsKernel`).

**`TurnRuntime`** extends it with the process: `eng` is the engine goroutine (where it is in
`RunTurn`, `advanceTurn`, `FinalizeTerminal`), `routed` the dispatcher's registry, `job` the
tool of each call, `locked` the approval effect for which a kernel method holds the mutex between two commits,
`ctx` the context of the turn, `disk` what the journal driver did to the files, `faults` the
crashes and errors so far. Every commit is an action. A method of several commits is
several actions; the mutex (`Unlocked`, `At`) keeps the other goroutines out, never a crash.
`CommitFails` says for each position of the engine where a failed commit leads. A cancellation
is `TurnService.Cancel`: it asks the kernel first, which does not exist yet while a turn opens,
and cancels the context of the turn unless the kernel refused. `Crash` clears everything but the turn state and the files; `Requeue` and `Restore` are
`RestoreTurnCoordinator`. User input requests, steering, context overflow, provider content
and progress observations that do not exhaust the lease are left out.

**`OperationContract`** is what the application runtime promises about the operations of a
thread, in three variables: the status of each operation, the promise (terminal envelope) and
the first outcome the log tells of each turn. A start is accepted only when every earlier one
has an outcome; it is committed only together with a promise or after a logged rejection; the
first outcome told stays, and it is the promised one or a rejection. Only the first is
promised: a rejected operation's turn may have a terminal event later, see *Disagreements*.

**`OperationRuntime`** is the runtime of one thread: `SubmitWithKey` with its durable
acceptance and its channel, the dispatch loop, a worker per turn (`TurnService.run`), the
terminal envelope with its outbox, publication and mark, the turn queue with its claims and
its drains (one per ending turn, one of the loop, one at startup), withdrawal, shutdown, crash,
and the start of a process (`Boot` is replay and `Lifecycle.Recover`, `RecoverOutbox` the
publisher's, `Activate` resumes pending turns). What the engine does inside a turn is
`TurnRuntime`'s subject; here a turn opens its facts, announces itself and ends or gives up.
The log is kept per turn with the order of the queue announcements beside it, since nothing
reads the relative order of other events of two turns. Users submit when the start of the
process has returned. The rejection that should settle an operation may itself fail: it is not
appended, not projected, or the operation is not committed after it (`RejectFails`), and the
worker of the turn is then `lost` until the next process. The events of the queue may not be
appended, or their operation not committed; a failing projection of theirs is left out, because
the model reads the queue off the log. `KeepsContract` is the refinement mapping to
`OperationContract`.

**`ChildAgents`** is the session's child agents: the manager (`Spawn`, `Takeover`, `FollowUp`,
`Accepted`, `Refused`, `Cleanup`, `Interrupt`/`Interrupted`, `CloseAgent`), the child runtime's
`StartTurn` step by step (`Check`, `Admit`, `Reserve`, `Activate`, `Track`, `Submit`), the
observation of terminal events (`Observe`), the settlement goroutines (`Settle`,
`SettleRefused`), the release of a closed agent's thread in its two steps (`Release`,
`ReleaseThread`), the governor (`flight`, `govSpent`), the ledger (`account`, `reservation`) and
a restart with reconciliation of the graph (`Restart`). Each call of an agent tool is a process
`c` with its position `call[c].pc`. Every transition that a call writes may be refused by the
database (`TransitionFails`, `CloseFails`). The child's own turn is what `OperationRuntime` makes of
it, as the child runtime sees it: it is accepted only if its thread has no active turn; then a
worker opens it (`TurnOpens`), it ends (`TurnEnds`) or its start is rejected (`TurnRejected`), or the
rejection cannot be written and no worker serves it (`RejectionLost`). After a restart a turn with
facts is resumed, one without is not (`AfterRestart`), and a turn that is tracked again has no lease
and no `startOperation`, so that `Observe` settles it on a terminal event only, never on a
rejection. The snapshot and the reservation of `reserveChildBudget` are one
action: between them only a turn of the same agent could change the agent's account, and its
slot, which the reservation checks, refuses the second one either way.

**`WorkspaceJournal`** is the journal manager of one workspace and the broker's transaction
that writes through it. On disk are `file` (contents and version of each path), `ledger` and
`order` (the outstanding turns as `replay` returns them) and `refs` (references to each stored
before-image). `proc`, `journal`, `task` and `tx` die with the process: its stage and owner
identity, the journals in memory with the map that holds them, the restore and the transaction
under way. `fate`, `writer`, `origin`, `untold` and `replaced` are history for the properties: what
became of a turn, whose change a path holds, what it held before the turn's first write, of which
paths the ledger was not told the last contents (a failed append in the broker's rollback, a write
the process did not live to record), and which records a second `Begin` of the turn replaced while
their change was still there. Only a new turn starts with none. A transaction takes before-images
(`Prepare`), writes (`Apply`) and records (`Record`) one path after the other, and undoes
itself (`UndoWrite`, `Amend`) when a path changed, a write fails or the context is canceled. The check of a path
and its write are one step; the paths of a transaction or a journal are visited in any order, of
which the code's is one. A failing append is an alternative where it has an effect, also in the
broker's rollback, which goes on after it with the journal in memory ahead of the ledger, and so is a
failing write of that rollback; reads do not fail. `Commit` is the append and the release of the
images together: a process that dies between them leaves images to recovery. `Open`, the
`Recover...` actions, `Close` and `Closed` are the life of a manager, in a new process or as the
replacement of a closed one. The user may change any file at any time (`Edit`).

`MCTurnKernel`, `MCTurnRuntime`, `MCOperationRuntime`, `MCChildAgents` and `MCWorkspaceJournal`
hold policies, small sets and restricted next-state relations for TLC. `TurnKernelProofs` (types), `TurnKernelSafety` (what each command preserves) and
`TurnKernelTheorems` (the inductive invariant and the theorems) hold the kernel's proofs,
`TurnRuntimeProofs` those of the running turn, `ChildAgentsProofs` (leases and slots) and `ChildAgentsLedger` (reservations and sums) those of
the child agents, `OperationRuntimeProofs` those of the operations and their contract, and
`WorkspaceJournalProofs` those of the journal.

| Code | Model |
| --- | --- |
| `Reducer.Apply` and its handlers, `evaluateTurnStep`, `Validate` | actions of `TurnKernel`, `StepCase`, `Validate` |
| `requestEffect`, `finishEffect`, `closeEffectBy...` | `UpdateEffects`, `Of`, `Lowest` |
| `terminalJournalStatus` | `JournalOutcome`, `JournalEffect` |
| `DurableEffectDispatcher.Start`, `Resolve` and the retained result | `Start`, `Resolve`, `Retain`, `Kept` |
| `RuntimeKernel.RequireApproval`, `ResolveApproval`, `FinishVerification`, `AbortForTerminal`, `FinishJournal` | `RequireApproval`/`StartApproval`, `StartAnswer`/`ResolveApproval`/`RefuseAnswer`, `StartVerification`/`FinishVerification`, `AbortSample` ... `ToolsAborted`, `StartJournal` ... `FinishJournal` |
| the loop of `RunTurn`, `advanceTurn`, `completeTurn` | `Enter`, `Loop`, `Advance`, `Act`, `CompleteTurn` |
| `TurnService.Cancel`, `Scope.Cancel`, `setCancelReason` | `Cancel`, `CancelContext`, `CancelReason` |
| the guard's wait for an approval | `EnsureApproval`, `ExpireApproval`, `ToolDone` |
| `TurnService.run` rejecting an operation, `rejectErr` | `Reject` (`TurnRuntime`), `RejectTurn`, `RejectTurnFails`, `RejectFails` (`OperationRuntime`) |
| `OperationService.SubmitWithKey`, `Lifecycle.Accept`; the dispatch loop | `Submit`; `DispatchStart`, `DispatchEnqueue`, `DispatchRemove`, `RemoveQueued`, `DispatchFails`, `RemoveFails` |
| `CommitTerminal`, `TerminalPublisher.Publish`, `MarkOutboxPublished`, `Recover` | `CommitTerminal`, `PublishTerminal`, `ProjectTerminal`, `FinishTurn`, `PublishFails`, `RecoverOutbox` |
| `TurnQueueService.Drain` | `DrainPick`, `DrainClaim`, `DrainSubmit`, `DrainUnclaim` |
| `Manager.Spawn`, `startTurn`, `Settle`, `Interrupt`, `Close`, `CanTransition` | `Spawn`, `Takeover` ... `Cleanup`, `Settle`, `Interrupted`, `Close`, `CanTransition` |
| `childRuntime.StartTurn`, `observe`, `settleChild`, `release`, `releaseThread` | `Check` ... `Submit`, `Observe`, `Settle`, `Release`, `ReleaseThread` |
| `Ledger.Reserve`, `Settle`, `Refund`; `Governor.Admit`, `Release`, `Record` | `CanReserve`, `SettleBudget`, `Refund`, `Updated`; `Admit`, `flight`, `govSpent` |
| `PlanAgentReconciliation`, hydration, `bindChildren`, resumption of pending turns | `ReconciledStatus`, `Restart`, `AfterRestart` |
| `recordTransition` refused by the database; `TurnService.run` of a child's turn | `TransitionFails`, `CloseFails`; `TurnOpens`, `TurnEnds`, `TurnRejected`, `RejectionLost` |
| `Manager.Begin`, `Before`, `AfterFingerprint`, `Commit`, `Suspend`, `KeepDraft`, `ResumeDraft` | `Begin`, `Before`, `After`, `Commit`, `Suspend`, `KeepDraft`, `ResumeDraft` |
| `Manager.Rollback`, `Revert`, `restore` | `Rollback`/`RollbackDone`, `Revert`/`RevertDone`/`RevertSettled`, `Restore`/`Conflict` |
| `applyEntry`, `compact`; `Open`, `Recover`, `Close` | the `Log...` operators, `RecoverCompact`; `Open`, `RecoverDrop` ... `RecoverDone`, `Close`/`Closed` |
| `Broker.commitConsumed`, `rollback`; `Store.Release` of the content store | `Plan`, `Prepare`, `Apply`, `Record`, `Canceled`, `UndoWrite`, `Amend`; `Release` |

## The runs

| Run | What it explores | What it shows |
| --- | --- | --- |
| `turn_kernel` | the reducer's commands in every order: samples, tools, approvals, inputs, effects and the terminal transaction in one lane; completion, verification, repair and convergence, on samples and tools that run through, in the other | `Validate` never refuses a handler's result beyond the marked guards; every pending effect has an owner; a turn that must pass verification did |
| `turn_race` | two tools, one approval, a user's cancellation, one crash and one error anywhere | the registry follows the durable state; no tool runs for a closed call; files end as decided, are settled once, and a user's cancellation keeps them |
| `turn_verify` | two samples, a declaration alone or next to an edit, all verification outcomes, repair and the soft path, with a crash and a cancellation anywhere | the turn never hangs; an accepted declaration completes; every commit is a step of `TurnKernel`'s `Spec` (`ImplementsKernel`), so its theorems apply to the running turn |
| `turn_stops` | two crashes, an error and a cancellation anywhere, with an approval | a turn ends, waits for its user or has its operation rejected; crashes alone never cost it its end; a cancellation stops it; its commits are kernel steps |
| `operations` | a turn a user starts and one he queues and may remove, two faults (crash, shutdown, withdrawal, failed publication, failed rejection) anywhere | one terminal event per turn; committed operations are never forgotten; rows agree with the log after every restart, but for a turn whose rejection failed in this process; an ended turn never runs again; resumed starts settle and decided ends are told, unless the rejection fails too; the runtime implements `OperationContract` |
| `children` | two agents, two callers, two turns, one fault (interrupt, close, restart, failed settlement, refused transition, lost rejection) anywhere | flights and ledger are exact; no reservation without an owner; the tree's budget holds; a turn is charged once; only a refused transition after a refused start abandons an agent in its slot, and any other leaves it, unless its turn brings no event any more (`Stranded`) |
| `journal` | two turns and two files, one of which exists at first; transactions over one or both, commit, suspension, resumption, rollback, revert; two or three faults (new manager, edit by the user, cancellation, failing append, image or write) and a crash or a clean close anywhere | a change nobody decided to keep has a record that undoes it, to the contents before the turn's first write, unless a second `Begin` replaced it or the ledger was never told of the change; a recovery that ends has restored every interrupted change that is as the ledger knows it and whose before-image it still had; drafts survive; kept contents are neither rolled back nor recovered away |
| `cancel_race`, `verify_crash`, `boot_blocked`, `child_stuck`, `image_lost` | see *Disagreements* | counterexamples |

**Bounds.** One or two samples, since a turn's samples follow one another and the state one
leaves for the next is the recorded completion, output and mutation. Two calls, so that one
tool can wait while another ends; one or two approval requests; one input. `MaxBatch` 2 gives
batches of two and, in the kernel, batches with a repeated identity. `MaxEffects` 10 in the
runtime runs is never reached, in the kernel runs it is the size of the instance (4: a sample,
two tools, and an approval, an input or a journal operation). `MaxAttempts` is 2 in the
kernel, so that every effect can be put back and started again; in the runtime runs it is
never reached, `MaxRetries` 1 or 2 is what ends retries as the provider's retry policy does.
`MaxMutations` is 1 in `turn_kernel` and 2 in the runtime runs: a mutation after a verification. `MaxCrashes` and `MaxErrors` are 0 to 2
and named per run. Calls are interchangeable where none is a declaration, and `turn_race` uses
that symmetry; runs with liveness properties use none. Repair limits are 1: one round, then
the limit. `turn_kernel` starts in one of two lanes, which
restrict the next-state relation, because the product of both is out of reach. It does not check deadlock because a terminal turn stops; all
runs of `TurnRuntime` do, with `Over` as the only idle step.

`operations`: one started and one queued turn are enough for a turn to wait behind an active
one, for a drain to race a removal and for an accepted start to be found after a restart; two
turns in the queue, whose order two drains may swap, are not. `Buffer` 2 is reached, `MaxFaults` 2
is a crash during the recovery from a fault. One outcome: how a turn ended matters only to the
projection, and `failed` is always possible beside it.

`children`: two callers are the root turn and one nested agent (the default depth is 5); two agents
and two turns give two children at once or a follow-up. Of `MaxTokens` 5 the first agent asks for
4, the second for its share of 2: beside the first it gets 1, and both run within the budget; when the
first was interrupted and gave its 4 back while its turn still runs, the ledger has to refuse the 2.
`MaxParallel` is 2. An outcome uses less than the reservation or more.

`journal`: tools change the first path up to two times and the second once, so that a turn writes
a path again, in a later transaction, after a resumed draft or after another turn; two files make
a transaction that fails between them. Two faults are a crash during the recovery from a crash, or an edit
and a restart; a third fault is explored only when the ledger was not told of a change and one file
was changed (`ThirdFault`), which takes a cancellation and a failing append before the restart. Tools write one content or
delete, the user writes another one; two before-images with equal content occur. The turns are interchangeable.

Deadlock is not checked in these runs: a session in which nobody asks for anything stops.
`boot_blocked` and `child_stuck` have the smallest instances that show the behaviour,
`image_lost` the one of `journal`.

What the bounds leave to the theorems: with `MaxMutations` 1 no mutation follows an accepted
completion in `turn_kernel`, so that `Validate` and `MustPassVerified` meet that case in `Validated`
and `CompletedIsVerified` only; no turn of `turn_race` commits its files, so that `FilesAsDecided` and
`FilesSettledOnce` meet committed files in `FilesEndAsDecided` and `DriverNeverUndoes` only.
`boot_blocked` has no queue.

**Fairness.** `RuntimeFairness` is weak fairness of the engine goroutine, of each tool, of the
second half of `TurnService.Cancel` and of an answer that already holds the kernel's mutex: they are
running goroutines that nothing else has to wake, and a stream, a tool and a verifier are
taken to return. Nothing is assumed of users: they may never answer and never cancel, and a
tool may wait forever (`AwaitsUser`). Neither crashes, errors nor the expiry of a wait have
to happen. A fair engine stands for a process that is started again after a crash.
`OperationRuntime` has weak fairness of each worker, each drain, the loop, the start of a
process, a withdrawal that was admitted and the exit of a closing process. `ChildAgents` has it
of each call under way, of each turn that a worker serves (it ends or is rejected, and its event is
observed) and of the repeated attempts of each settlement; none of a turn that no worker serves. Users, callers and faults are never forced. `WorkspaceJournal`
states no fairness and no liveness.

## What is proved

For any sets of samples, calls, requests, inputs and keys, every policy and all bounds:

- `TypeCorrect`: every reachable state has the types `state.go` declares.
- `Validated`: every reachable state passes `Validate`, so `Apply`'s last check refuses only
  the cases marked `[Validate]`.
- `EffectsHaveOwners`, `EffectsAreUnique`: every pending effect has the one owner that waits
  for it, and no other effect has its kind and identity.
- `RepairsAreBounded`, `CompletedIsVerified`, `WorkIsKept`: the repair limits hold, a turn
  that must pass verification did, finished and interrupted work is kept.
- `CompletionIsReady`, `CancelStopsWork`, `SettledStays`: "complete" is only said when the
  contract is met; no work is requested after a cancellation; settled things stay settled.

`EffectsUnique`, `RepairsBounded`, `WorkKept` and the three action properties are proved and not part of
a run.

The argument is one inductive invariant, `KernelInv`. None of the properties is inductive by
itself; what each needs beyond its own statement is a conjunct of `KernelInv`:

- *Effects.* That a command closes the first effect that matches is enough only if there is
  one, so uniqueness and ownership are proved together, with the identity each kind of
  effect is requested with (`Owned` says `key = call` for tools and samples, no key for
  verification and journal). `OneSample` says that samples do not overlap: without it a
  result could leave another sample's retry without its effect. While the turn commits only
  the journal effect is left, and only when there is a journal to settle; that is why the
  final commit finds no effect pending.
- *Proof of changes.* `Fresh` says nothing is declared or verified before the turn starts:
  a recovery command may still change the mutation revision then.
- *Budgets.* `BudgetsValid` bounds the consecutive rounds by all rounds, which is what the
  declaration repair of a convergence is limited by.
- *The end.* `ContractKept` carries the completion contract from the terminal request to the
  final commit, `EligibleHasOutput` says that eligible output exists, `VerdictFits` and
  `AcceptedFits` what a verification's action and an accepted declaration imply. `DecisionFits`
  ties the decision to the phases that have one.

Each conjunct has one preservation lemma, split by command; `KernelStep` puts them together.

Assumptions are the named ones of `TurnKernel`: the policy has its type and an intent is not
both a change and research (`PolicyAssumption`), `Null` is not an identity and declarations
are calls (`IdentityAssumption`), bounds are numbers (`BoundAssumption`).

`TurnRuntimeProofs` proves of the running turn, for the same constants and any bounds of crashes,
errors and retries (`RuntimeAssumption`: they are numbers):

- `RuntimeTypes` (`ProcTypeOK`), `RegistryMatches` (`RegistryAgrees`), `NoToolOutlivesItsCall`
  (`NoOrphanTool`), `FilesEndAsDecided` (`FilesAsDecided`), `CanceledWorkIsKept` (`UserWorkKept`).
- `DriverNeverUndoes` (`FilesSettledOnce`), the action property.
- `RunningTurnImplementsKernel` (`ImplementsKernel`): every step of the engine, of the tools, of a
  user, of a failed commit, of a crash or a restart is a step of `TurnKernel`'s `Spec` or none.
  `RunningTurnIsValid` is its first use: what `Validated` says holds of the running turn.

The inductive invariant is `RuntimeInv`, beside `KernelInv`. That a step is one of the kernel's needs
the registry: the engine finds an effect by its route, so a sample is requested only while none is
pending (`EngineFits` at `begin`) because `Routes` and `RoutesComplete` say that every pending effect
has a route of its kind, call and status. The routes of approvals that outlive their effect are
harmless since their call is closed, which is why a request and its effect are always found
together. A retained result must be one its command accepts the form of (`KeptFits`). An answer ends the
one effect of its request because a tool has one approval at a time (`OneApproval`), which the
reducer does not ask for and `EnsureApproval` provides. `LockFits` says what the mutex is kept for over two commits,
`JobsFit` which tools may run at which step of the engine: outside a batch none. For the files,
`EngineFits` says that from the terminal request on the engine acts on the recorded decision, also
after a restart, and `FilesFit` that what the driver did is what that decision asks for: a second
run of the driver repeats the first, although verification, draft and mutations decide the
outcome, because nothing changes them while the turn commits (`Carries`). `CancelFits`
says that only the accepted cancellation of another than the user becomes a decision that rolls work back.
Each action has one lemma (`...Keeps`); the commands share what they do to effects (`Evolves`) and
what they leave alone (`Carries`).

`ChildAgentsProofs` proves, for any finite sets of agents and callers, any sets of token
amounts and all bounds (`ChildConstants`):

- `LeasesAreReturned`: the governor's flights are the leases that calls of `StartTurn` and
  tracked turns hold (`FlightExact`).
- `SlotsAreExact`: the manager's count is the number of agents that occupy a slot (`SlotsExact`).
- `LeasedIsNotOverwritten`: `track` never replaces the record of a leased turn (`NotOverwritten`).
- `OnlyFaultsAbandon`: an agent is left in its slot with nothing that would end its turn only by a
  step in which the database refuses a transition (`NotAbandoned`).

The inductive invariant is `ChildInv`. That a lease is returned once rests on who may return it:
`Named` says that a call has a turn of its own until it submits it, `AllKnown` that every other
place names submitted turns only, `AllBegun` that turns belong to agents past "requested".
`Claimed` says that the slot of an agent's budget scope belongs to one call or to the leased turn
that is tracked, which is what keeps a second call of the same agent out. `ClosedFirst` says that
only `close_agent` can take the lease of a turn that is about to be submitted, and `Flights`
counts that lease: `FlightExact` alone is not inductive, it has to say which closed agents may
have lost it. The `...Frame` lemmas state which actions change a variable, the lemmas after them go
through those actions.

`ChildAgentsLedger` goes on from there, for the same constants:

- `ChildTypes`: the types of manager, runtime, governor, ledger and store (`TypeOK`).
- `LedgerIsExact`: every scope of the ledger has reserved and spent exactly what the reservations
  below it have (`LedgerExact`), although settlements fail half-way and are repeated.
- `ReservationsAreOwned` (`NoLeak`), `TreeStaysInBudget` (`TreeBudget`), `TurnsAreChargedOnce`
  (`ChargedOnce`).

`LedgerInv` extends `ChildInv` by the types, by `Fresh` (a turn has used nothing until it ends and
has no reservation until `StartTurn` reserves for it, so that a reservation is counted when it is
made and never before) and by the three properties together. `ChargeInv` adds that what an agent
was charged and what settlements under way will charge it are at most what its observed turns
used: `ChargedOnce` alone forgets the settlements that are retried. Lemmas about sums over finite
sets come first: a sum changes by the difference of the one summand that changes, and grows with the set.

`OperationRuntimeProofs` proves, for any sets of turns, outcomes, buffer and number of faults
(`OperationConstants`: started and queued turns differ, outcomes are kinds of terminal events, `None`
is no turn and no kind, the channel has room for an operation):

- `OperationTypes` (`TypeOK`), `TerminalOnce` (`OneTerminal`), `CommitIsRemembered`
  (`NothingForgotten`), `RowsFollowLog` (`RowAgreesWithLog`), `WithdrawalSettles`
  (`WithdrawSettled`), `NoTurnRunsAgain` (`NoRerun`).
- `RuntimeKeepsContract`: `OperationRuntime` implements `OperationContract` under the mapping of
  `KeepsContract`. The abstract specification has no fairness, so that the implementation is one
  of safety: `Init` maps to the contract's and every step to a step of it or a stutter.

`Base` holds the types and what a drain, the loop, a publication and a stopped process carry. `OpInv`
relates envelope, log, rows and channel: an envelope is stored with the commit of its start
(`Enveloped`), the channel holds each accepted operation once and none that a worker has
(`ChannelOk`, `WorkerKnows`), a row ends only when the log tells the end (`RowKnown`). What a start of
a process has to repair is said per mode: the log may be ahead of the operation rows only while
the process is down, or when the commit of a rejection failed (`CommittedTold`), of the turn rows only until replay (`BootRows`, `RowsUp`), and
what is no longer accepted is told or waits in the outbox (`SettledOut`). `Held` says that what has a
worker, also a lost one, is still accepted, so that the next start of the process finds it.

`WorkspaceJournalProofs` proves, for any finite sets of files and turns, any contents, any bounds of
versions and faults (`JournalConstants`: finite sets, `Null` and `Absent` are none of the data):

- `JournalTypes` (`TypeOK`), `ChangesAreRecorded` (`Recorded`), `DraftsSurvive` (`DraftSurvives`).
- `RecoveryRestores` (`Recovered`), `RestoreIsExact` (`RestoresOrigin`), `KeptWorkStays`
  (`KeptIsKept`), the action properties.

The inductive invariant is `JournalInv`. A change exists in up to three places: the
workspace, the journal in memory and the ledger. `InMemory` and `OnDisk` say that the copies know
the change as the file is now, `Original` that they know what was there before, `Synced` that what is
in memory is on disk; all but `Original` make an exception for the paths a transaction has written
and not recorded (`Settling`), for which `PreparedKnown` says that at least the before-image is
recorded. `Synced` and `OnDisk` except the paths of which the ledger was not told (`Told`), and all of
them those whose record was replaced (`Mine`). `OneLive` says that at most one turn can still write with the records it has; without it
a second draft could take another turn's change for its own. `Foreign` says what a record knows of a
path that holds another turn's change, from which `KeptIsKept` follows. During a recovery the
ledger is as the dead process left it and the new one is in memory: `Keeping` says how they agree,
`KeepsChanges` that a visited turn with a change is kept, `LostOnly` that what was left has
lost its image; a crash in between falls back to the old ledger. `Owners` says that a
draft never has the identity of the process that recovers, which would leave it alone.

The attempt to prove `Recovered` showed that it had been stated too strongly: as an
invariant of a ready manager it holds on small instances only, since another turn may store the
same contents again after the recovery. It is now what the code does: a property of the end of a
recovery.

Model-checked only are the liveness properties, since fairness and `ENABLED` are out of the
prover's reach; every safety invariant and action property of a passing run is also proved. The recursive `Selected`
and the sums are functions or folds; their few facts are proved by induction through minimal
elements of a set (`WFMin`), because the induction theorems with an operator as parameter cannot be used.

## Disagreements between code and documents

- **`cancel_race`.** A cancellation is accepted while the result of a sample with tool calls
  is on its way. The reducer refuses the result, the dispatcher retains it
  (`effect_dispatcher.go:179`), and `AbortProviderSamples` offers the retained result instead
  of an aborted one, so `FinalizeTerminal` fails, also the second time: the turn has no
  terminal state. Document `05-streaming-cancellation-errors.md:83` says that a cancellation
  produces `turn.canceled` and not an arbitrary failure or a missing terminal event.
- **`verify_crash`.** After a crash during verification the restored turn has a pending
  `run_verification` effect that no path runs or aborts, so it cannot end
  (`runtime_kernel_terminal.go:124`). `06-resume-and-recovery.md:115,165` says the engine goes
  on with the turn and the route is restored.
- **`boot_blocked`.** The projection of a terminal event fails once (`turn_service.go:131`): the
  operation is rejected and the row of the turn becomes failed. The next start finds the
  completed event, or publishes it from the outbox, cannot project it over the failed row
  (`lifecycle.go:483`) and gives up, as does every later one. `turn_recovery.go:160` says that a
  single unrestorable turn must not block the boot.
- **`child_stuck`.** `interrupt_agent` marks an agent interrupted when the cancellation of its
  turn is submitted. The end of the turn then cannot be settled: no status may follow
  interrupted but starting and closed (`result.go:154`); `close_agent` has the same effect. The
  settlement is retried for ever, and meanwhile StartTurn refuses the turns of all children.
  `ops.go:185` promises that `followup_task` can resume the agent.
- **`image_lost`.** A transaction that is given up leaves a record of an unchanged file. `Commit`
  releases its before-image (`journal.go:767`), the ledger keeps the handle. A second turn stores
  the same content, writes the file, and the process dies: recovery releases the first turn's
  handle again (`durable.go:307`), the content is deleted and the second turn's write stays.
  `06-resume-and-recovery.md:180` says that recovery restores the before-image of an abandoned
  turn. Of the changes that the ledger knows, a lost before-image is the only reason why a recovery
  leaves one (`Recovered`); a torn write, which it does not know, is the other one, see below.

More were found with TLC and have no run of their own; where one limits a property, the property
names the exception.

- *Torn write.* The broker writes a file and records what it wrote in a later loop (`broker.go:247`).
  When the process dies in between, the ledger has the fingerprint from before the write; recovery
  compares it with the file, takes the turn's own write for another's edit and leaves it.
  `06-resume-and-recovery.md:168` says that a file journaled and not committed is restored when its
  owner is dead. So a lost before-image is not the only reason for a change that recovery leaves:
  `Recovered` speaks of files that are as the ledger knows them.
- *Begun again.* When that turn is resumed it begins its journal again, which replaces the ledger's
  records of it (`ledger.go:220`). The next write takes the half-applied contents for the
  before-image, and a rollback restores those. `04-edit-journal-receipt.md:81-82` says that the first
  before-image of a path is kept and a rollback is relative to the turn's starting content. `Recorded`,
  `DraftSurvives` and `RestoresOrigin` except the paths in `replaced`.
- *Stranded child.* The deadline of a child's turn submits a cancellation, which is rejected when the
  turn is not active. A turn that was accepted and is not resumed after a restart
  (`turn_recovery.go:164`), or whose rejection could not be written, is tracked for ever and its agent
  stays in its slot. The comment at `childruntime.go:732` says that an idle lease expires through the
  normal cancel path. `WaitReturns` excepts such turns (`Stranded`).
- *Revived child.* A slow `startTurn` finds its turn settled and its agent already in `starting` for
  another caller's follow-up, and writes `running` with its own turn over it (`control.go:431`). The
  comment at `result.go:121` says that a child can never end up with a result but still running.
- *Second approval.* When a user cancels the approvals of two waiting tools one after the other, the
  second answer is refused after its request was taken (`turn_scope.go:319`) and the tool waits until
  the turn is canceled; `05-streaming-cancellation-errors.md:142` says that a cancellation releases
  the wait.
- *Edit in a transaction.* When a user edits a file between its before-image and its write, the
  broker's rollback records the edit as the turn's result (`broker.go:319`), so that a later rollback
  of the turn overwrites it; `04-edit-journal-receipt.md:66` says that an external edit becomes a
  conflict and is never overwritten.

The models reach more behaviours that no document speaks about. They are hazards in
`PROJECT.json`, with a note: a queued turn that no drain picks up any more, a removed turn that
runs, two drains of which the second deletes the first one's claim, reserved tokens that an agent loses with
every crash, and a lease returned twice when `close_agent` races `StartTurn` (which is why
`FlightExact` and `NoLeak` make an allowance for closed agents).

## Plan

1. *Kernel and one process* (done): `TurnKernel`, `TurnRuntime`, and the kernel's safety proved.
2. *Around the runtime* (done): `OperationRuntime` and its contract, `ChildAgents`,
   `WorkspaceJournal`.
3. *Proofs* (done): the operations with `KeepsContract`, the ledger of the child agents, the
   journal, and the running turn with `ImplementsKernel`.
4. *Around the turn*: `TurnLease` (claim, renewal, expiry, the appends of a runtime that lost its
   lease, the heartbeat beside a release), rate limiting and authority leases.

User input requests, steering and progress leases in `TurnRuntime`, and update and promotion of
queued turns in `OperationRuntime`, belong to step 4.

## Not modelled

Policy rules, sandbox, egress and the other brokers are pure decisions and operating-system calls. Event
log, CAS, snapshots and artifacts are file formats. Context assembly and compaction are texts
and token counts. Provider, MCP, LSP, memory and skill adapters are I/O, and the web host and
client are presentation; these make up most of the repository's lines. In the modelled parts,
`SupplementalUsageRecorded`, `ContinuationRecorded` and `BindWorkItem` record data no modelled
guard reads.

`OperationRuntime` leaves out update and promotion of queued turns, steering and cancellation,
which do not change the outcome of an operation other than through the turn, several threads
and sessions, forks and reverts, and the subscribers of the event hub. `ChildAgents` leaves out
the mailbox, worktrees, write claims and integration of results, residency and eviction (every
agent stays resident), deadlines as events (a turn that is canceled ends like any other), the shutdown
of the child runtime, and cost, which is budgeted as tokens are. `WorkspaceJournal` leaves out
the binding of a workspace to its ledger, the tracker of reads, path canonicalisation, the
journal without a ledger, reused process identities, managers of several living
processes, I/O errors of a restore (a conflict with the same effect), and the authority that a transaction consumes. The leases of the turn state store, rate
limiting and authority are described by how the modelled parts use them, and are not models of
their own yet.
