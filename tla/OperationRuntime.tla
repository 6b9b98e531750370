-------------------------- MODULE OperationRuntime --------------------------
(***************************************************************************)
(* The application runtime of one thread: operations are accepted durably  *)
(* and handed to one dispatch loop, a turn runs in a worker of its own,    *)
(* its terminal envelope is published through an outbox, queued turns are  *)
(* started when a turn ends, and a restart rebuilds all of it from the     *)
(* database and the event log.                                             *)
(*                                                                         *)
(* What the engine does with a turn is TurnRuntime's subject; here a turn  *)
(* opens its facts, announces itself and ends with one of Outcomes or      *)
(* gives up.  An operation is [kind, of]; the start of a queued turn has   *)
(* an identity derived from its queue item, so the item names the turn.    *)
(* Prompts and payloads are left out: an operation submitted again is the  *)
(* same operation, and accepting it again changes nothing.                 *)
(***************************************************************************)
EXTENDS Integers, Sequences

CONSTANTS
  Starts,          \* turns a user starts
  Items,           \* turns a user queues
  Outcomes,        \* how a turn may end
  Buffer,          \* capacity of the operation channel
  MaxFaults,       \* bound on crashes, shutdowns, withdrawals and failed writes
  None

Turns == Starts \cup Items

ASSUME OperationConstants ==
  /\ Starts \cap Items = {}
  /\ Outcomes \subseteq {"completed", "failed", "blocked", "canceled"}
  /\ Buffer \in Nat \ {0} /\ MaxFaults \in Nat
  /\ None \notin Turns \cup {"completed", "failed", "blocked", "canceled", "rejected"}

Op(kind, t) == [kind |-> kind, of |-> t]
StartOps == {Op("start", t) : t \in Turns}
Ops == StartOps \cup [kind : {"enqueue", "remove"}, of : Items]

VARIABLES
  \* durable
  log,         \* the event log: each turn's events, in their order
  order,       \* queued turns in the order the log announced them
  opRow,       \* status of each operation
  turnRow,     \* status of each turn
  latest,      \* the turn with the highest ordinal
  facts,       \* turns with domain facts
  envelope,    \* terminal envelope of each turn
  withdrawn,   \* turns with a withdrawal tombstone
  outbox,      \* turns whose envelope is not marked published
  \* of the process
  mode,        \* "down", "booting", "up" or "closing"
  accepted,    \* OperationService.accepted
  channel,     \* OperationService.operations
  claims,      \* TurnQueueService.claims
  loop,        \* the queue item a removal has checked, or None
  worker,      \* TurnService.run of each turn
  drain,       \* each caller of TurnQueueService.Drain
  withdrawing, \* the turn a withdrawal waits for
  faults       \* how many faults have happened

events == <<log, order>>
rows == <<opRow, turnRow, latest>>
terminal == <<facts, envelope, outbox, withdrawn>>
durable == <<events, rows, terminal>>
operations == <<accepted, channel>>
vars == <<durable, mode, operations, claims, loop, worker, drain, withdrawing, faults>>

TurnStatus == {"active", "completed", "failed", "blocked", "canceled"}
Ends == Outcomes \cup {"failed"}
EventKinds == {"queued", "removed", "started", "rejected"}
Events == [kind : EventKinds \cup Ends, by : {"start", "enqueue", "remove"}]
Event(kind, o) == [kind |-> kind, by |-> o.kind]

\* A worker holds its turn in the registry until it has released it.
Holding == {"opening", "opened", "running", "committed"}
\* "lost": the turn has no worker any more and its operation could not be rejected.
WorkerSteps == Holding \cup {"none", "reject", "publish", "project", "mark", "lost"}
Drainers == Turns \cup {"loop", "boot"}
NoDrain == [step |-> "none", item |-> None]

\* Every variable has its type, and the channel never holds more than its capacity:
\* SubmitWithKey never reaches its "capacity changed" error.
TypeOK ==
  /\ log \in [Turns -> Seq(Events)] /\ order \in Seq(Items)
  /\ opRow \in [Ops -> {"none", "accepted", "committed"}]
  /\ turnRow \in [Turns -> TurnStatus \cup {"none"}]
  /\ latest \in Turns \cup {None}
  /\ facts \subseteq Turns /\ outbox \subseteq Turns /\ withdrawn \subseteq Turns
  /\ envelope \in [Turns -> Ends \cup {None}]
  /\ mode \in {"down", "booting", "up", "closing"}
  /\ accepted \subseteq Ops /\ channel \in Seq(Ops) /\ Len(channel) <= Buffer
  /\ claims \subseteq Items /\ loop \in Items \cup {None}
  /\ worker \in [Turns -> WorkerSteps]
  /\ drain \in [Drainers -> [step : {"none", "pick", "claim", "submit", "unclaim"},
                             item : Items \cup {None}]]
  /\ withdrawing \in Turns \cup {None}
  /\ faults \in 0..MaxFaults

-----------------------------------------------------------------------------
(* The event log and what is read off it.                                  *)

Logged(kind, t) == \E n \in 1..Len(log[t]) : log[t][n].kind = kind
\* Turns with a terminal event, and which one.
Terminals == {t \in Turns : \E e \in Ends : Logged(e, t)}
TerminalOf(t) == CHOOSE e \in Ends : Logged(e, t)
Rejected(o) == \E n \in 1..Len(log[o.of]) : log[o.of][n] = Event("rejected", o)

\* The queue: items announced and neither started nor removed, first in first out.
Queued(i) == Logged("queued", i) /\ ~Logged("started", i) /\ ~Logged("removed", i)
AddedSequence(i) == CHOOSE n \in 1..Len(order) : order[n] = i

\* Event kind of operation o is appended.
Log(kind, o) ==
  /\ log' = [log EXCEPT ![o.of] = Append(@, Event(kind, o))]
  /\ order' = IF kind = "queued" THEN Append(order, o.of) ELSE order

\* PublishTerminalProjection and publish hold the event lock while they project.
Unlocked == \A t \in Turns : worker[t] # "project"

\* The status a terminal event gives an active turn.
ProjectedRow(row, kind) == IF row = "active" \/ (row = "failed" /\ kind = "blocked")
                           THEN kind ELSE row
ProjectionConflict(row, kind) == row # "active" /\ row # kind /\
                                 ~(row = "failed" /\ kind = "blocked")

\* An event of operation o is appended and projected; a rejected start fails its turn.
Emit(kind, o) ==
  /\ Unlocked
  /\ Log(kind, o)
  /\ turnRow' = IF kind = "rejected" /\ o.kind = "start" /\ turnRow[o.of] = "active"
                THEN [turnRow EXCEPT ![o.of] = "failed"] ELSE turnRow

-----------------------------------------------------------------------------
Fault == faults < MaxFaults /\ faults' = faults + 1

Init ==
  /\ log = [t \in Turns |-> <<>>] /\ order = <<>> /\ latest = None /\ facts = {} /\ outbox = {} /\ withdrawn = {}
  /\ opRow = [o \in Ops |-> "none"]
  /\ turnRow = [t \in Turns |-> "none"]
  /\ envelope = [t \in Turns |-> None]
  /\ mode = "up" /\ accepted = {} /\ channel = <<>> /\ claims = {} /\ loop = None
  /\ worker = [t \in Turns |-> "none"]
  /\ drain = [p \in Drainers |-> NoDrain]
  /\ withdrawing = None /\ faults = 0

-----------------------------------------------------------------------------
(* Acceptance.                                                             *)

Active == {t \in Turns : worker[t] \in Holding}

\* Mutant: the capacity of the channel is not checked before acceptance.
RefusedNotWhenFull(o) ==
  \/ mode # "up" \/ withdrawing # None
  \/ /\ opRow[o] = "none" /\ o.kind = "start"
     /\ \E t \in Turns : turnRow[t] = "active"

\* Mutant: a start is accepted while another turn is active.
RefusedNotWhenActive(o) == mode # "up" \/ withdrawing # None \/ Len(channel) = Buffer

\* Why SubmitWithKey refuses an operation before or while accepting it.
Refused(o) ==
  \/ mode # "up" \/ withdrawing # None \/ Len(channel) = Buffer
  \/ /\ opRow[o] = "none" /\ o.kind = "start"
     /\ \E t \in Turns : turnRow[t] = "active"

Accept(o) ==
  /\ opRow' = [opRow EXCEPT ![o] = "accepted"]
  /\ accepted' = accepted \cup {o}
  /\ channel' = Append(channel, o)
  /\ IF o.kind = "start"
     THEN turnRow' = [turnRow EXCEPT ![o.of] = "active"] /\ latest' = o.of
     ELSE UNCHANGED <<turnRow, latest>>

\* A runtime is handed to its callers once its start has drained the queue.
Ready == mode = "up" /\ drain["boot"].step = "none"

\* A caller submits a start, a queued turn or a removal.
Submit(o) ==
  /\ Ready /\ o \in Ops \ {Op("start", i) : i \in Items}
  /\ opRow[o] = "none" /\ ~Refused(o)
  /\ Accept(o)
  /\ UNCHANGED <<events, terminal, mode, claims, loop, worker, drain, withdrawing,
                 faults>>

-----------------------------------------------------------------------------
(* The turn queue.                                                         *)

DrainTo(p, step, i) == drain' = [drain EXCEPT ![p] = [step |-> step, item |-> i]]

\* Nothing to start, or the first unclaimed item of the thread is picked.
DrainPick(p) ==
  /\ drain[p].step = "pick"
  /\ LET free == {i \in Items : Queued(i) /\ i \notin claims}
     IN IF withdrawing # None \/ Active # {} \/ free = {}
        THEN DrainTo(p, "none", None)
        ELSE \E i \in free : /\ \A j \in free : AddedSequence(i) <= AddedSequence(j)
                             /\ DrainTo(p, "claim", i)
  /\ UNCHANGED <<durable, mode, operations, claims, loop, worker, withdrawing,
                 faults>>

DrainClaim(p) ==
  /\ drain[p].step = "claim"
  /\ claims' = claims \cup {drain[p].item}
  /\ DrainTo(p, "submit", drain[p].item)
  /\ UNCHANGED <<durable, mode, operations, loop, worker, withdrawing, faults>>

\* The start is accepted, is a duplicate, or is refused and the claim is to be dropped.
DrainSubmit(p) ==
  /\ drain[p].step = "submit"
  /\ LET o == Op("start", drain[p].item)
     IN IF Refused(o)
        THEN DrainTo(p, "unclaim", drain[p].item) /\ UNCHANGED <<rows, operations>>
        ELSE /\ DrainTo(p, "none", None)
             /\ IF opRow[o] = "none" THEN Accept(o)
                ELSE UNCHANGED <<rows, operations>>
  /\ UNCHANGED <<events, terminal, mode, claims, loop, worker, withdrawing, faults>>

DrainUnclaim(p) ==
  /\ drain[p].step = "unclaim"
  /\ claims' = claims \ {drain[p].item}
  /\ DrainTo(p, "none", None)
  /\ UNCHANGED <<durable, mode, operations, loop, worker, withdrawing, faults>>

-----------------------------------------------------------------------------
(* The dispatch loop.                                                      *)

LoopIdle == mode \in {"up", "closing"} /\ loop = None /\ drain["loop"].step = "none"
NextIs(kind) == LoopIdle /\ channel # <<>> /\ Head(channel).kind = kind

\* A projected rejection of a start drops the claim of its queue item.
Unclaimed(o) == IF o.kind = "start" THEN claims \ {o.of} ELSE claims

\* The operation is rejected with an event and committed.
RejectOp(o) ==
  /\ Emit("rejected", o)
  /\ opRow' = [opRow EXCEPT ![o] = "committed"]
  /\ accepted' = accepted \ {o}
  /\ claims' = Unclaimed(o)

\* The rejection is not appended, or is not projected, or the operation is not committed
\* after it: the operation stays accepted for the rest of the process, without a worker.
RejectFails(o) ==
  /\ Fault /\ Unlocked
  /\ \/ UNCHANGED <<events, turnRow, claims>>
     \/ Log("rejected", o) /\ UNCHANGED <<turnRow, claims>>
     \/ Emit("rejected", o) /\ claims' = Unclaimed(o)
  /\ worker' = IF o.kind = "start" THEN [worker EXCEPT ![o.of] = "lost"] ELSE worker
  /\ UNCHANGED <<opRow, accepted>>

\* A start is refused for its payload, its terminal event or an active turn, or runs.
DispatchStart ==
  /\ NextIs("start")
  /\ channel' = Tail(channel)
  /\ LET o == Head(channel)
     IN \/ /\ RejectOp(o)
           /\ UNCHANGED worker
        \/ /\ o.of \notin Terminals /\ Active = {}
           /\ worker' = [worker EXCEPT ![o.of] = "opening"]
           /\ UNCHANGED <<events, turnRow, opRow, accepted, claims>>
  /\ UNCHANGED <<latest, terminal, mode, loop, drain, withdrawing, faults>>

\* Queue identities are fresh; the handler's refusal of a known one is left out.
DispatchEnqueue ==
  /\ NextIs("enqueue")
  /\ channel' = Tail(channel)
  /\ Emit("queued", Head(channel))
  /\ opRow' = [opRow EXCEPT ![Head(channel)] = "committed"]
  /\ accepted' = accepted \ {Head(channel)}
  /\ DrainTo("loop", "pick", None)
  /\ UNCHANGED <<latest, terminal, mode, claims, loop, worker, withdrawing, faults>>

\* The handler checks the item and its claim; the event follows in a later step.
DispatchRemove ==
  /\ NextIs("remove")
  /\ LET o == Head(channel)
     IN IF Queued(o.of) /\ o.of \notin claims
        THEN loop' = o.of /\ UNCHANGED <<events, turnRow, opRow, operations, claims>>
        ELSE RejectOp(o) /\ channel' = Tail(channel) /\ UNCHANGED loop
  /\ UNCHANGED <<latest, terminal, mode, worker, drain, withdrawing, faults>>

\* The projection of a removal fails when the item has gone; its operation stays accepted.
RemoveQueued ==
  /\ loop # None
  /\ Emit("removed", Op("remove", loop))
  /\ IF Queued(loop)
     THEN /\ opRow' = [opRow EXCEPT ![Op("remove", loop)] = "committed"]
          /\ accepted' = accepted \ {Op("remove", loop)}
     ELSE UNCHANGED <<opRow, accepted>>
  /\ loop' = None /\ channel' = Tail(channel)
  /\ UNCHANGED <<latest, terminal, mode, claims, worker, drain, withdrawing,
                 faults>>

\* What the loop cannot write.  A rejection fails; the event of a queued turn is not
\* appended, or its operation is not committed, which does not keep the queue from being
\* drained.
DispatchFails ==
  /\ LoopIdle /\ channel # <<>>
  /\ channel' = Tail(channel)
  /\ LET o == Head(channel)
     IN \/ /\ o.kind = "start" \/ (o.kind = "remove" /\ ~(Queued(o.of) /\ o.of \notin claims))
           /\ RejectFails(o)
           /\ UNCHANGED drain
        \/ /\ o.kind = "enqueue" /\ Fault /\ Unlocked
           /\ \/ UNCHANGED <<events, turnRow, drain>>
              \/ Emit("queued", o) /\ DrainTo("loop", "pick", None)
           /\ UNCHANGED <<opRow, accepted, claims, worker>>
  /\ UNCHANGED <<latest, terminal, mode, loop, withdrawing>>

\* The event of a removal is not appended, or its operation is not committed.
RemoveFails ==
  /\ loop # None /\ Fault /\ Unlocked
  /\ UNCHANGED <<events, turnRow>> \/ Emit("removed", Op("remove", loop))
  /\ loop' = None /\ channel' = Tail(channel)
  /\ UNCHANGED <<opRow, accepted, latest, terminal, mode, claims, worker, drain, withdrawing>>

-----------------------------------------------------------------------------
(* The worker of a turn.                                                   *)

WorkerTo(t, step) == worker' = [worker EXCEPT ![t] = step]

\* The engine's first commit.
OpenTurn(t) ==
  /\ worker[t] = "opening"
  /\ WorkerTo(t, "opened")
  /\ facts' = facts \cup {t}
  /\ UNCHANGED <<events, rows, envelope, outbox, withdrawn, mode, operations,
                 claims, loop, drain, withdrawing, faults>>

\* The turn is announced; its queue item and its claim go.
AnnounceTurn(t) ==
  /\ worker[t] = "opened"
  /\ Emit("started", Op("start", t))
  /\ WorkerTo(t, "running")
  /\ claims' = claims \ {t}
  /\ UNCHANGED <<opRow, latest, terminal, mode, operations, loop, drain,
                 withdrawing, faults>>

\* Mutant: the envelope is stored without its outbox entry.
CommitTerminalOnly(t, outcome) ==
  /\ worker[t] \in {"opened", "running"} /\ outcome \in Outcomes
  /\ envelope' = [envelope EXCEPT ![t] = outcome]
  /\ opRow' = [opRow EXCEPT ![Op("start", t)] = "committed"]
  /\ WorkerTo(t, "committed")
  /\ UNCHANGED <<events, turnRow, latest, facts, outbox, withdrawn, mode, operations,
                 claims, loop, drain, withdrawing, faults>>

\* The terminal envelope is committed together with the operation; a turn that failed
\* before it had facts is ended for it.
CommitTerminal(t, outcome) ==
  /\ \/ worker[t] \in {"opened", "running"} /\ outcome \in Outcomes
     \/ worker[t] = "opening" /\ t \notin facts /\ outcome \in {"failed", "canceled"}
  /\ envelope' = [envelope EXCEPT ![t] = outcome]
  /\ outbox' = outbox \cup {t}
  /\ facts' = facts \cup {t}
  /\ opRow' = [opRow EXCEPT ![Op("start", t)] = "committed"]
  /\ WorkerTo(t, "committed")
  /\ UNCHANGED <<events, turnRow, latest, withdrawn, mode, operations, claims,
                 loop, drain, withdrawing, faults>>

\* The turn leaves the registry: to publish its envelope, or to have its operation rejected.
Release(t) ==
  /\ \/ worker[t] = "committed" /\ WorkerTo(t, "publish")
     \/ worker[t] \in {"opening", "opened", "running"} /\ WorkerTo(t, "reject")
  /\ UNCHANGED <<durable, mode, operations, claims, loop, drain, withdrawing,
                 faults>>

RejectTurn(t) ==
  /\ worker[t] = "reject"
  /\ RejectOp(Op("start", t))
  /\ WorkerTo(t, "none")
  /\ UNCHANGED <<latest, terminal, mode, channel, loop, drain, withdrawing, faults>>

\* The worker ends with its operation neither ended nor rejected.
RejectTurnFails(t) ==
  /\ worker[t] = "reject"
  /\ RejectFails(Op("start", t))
  /\ UNCHANGED <<latest, terminal, mode, channel, loop, drain, withdrawing>>

\* The outbox entry is appended under its stable identity, unless the log has it.
PublishTerminal(t) ==
  /\ worker[t] = "publish" /\ Unlocked
  /\ IF t \in Terminals THEN UNCHANGED events ELSE Log(envelope[t], Op("start", t))
  /\ WorkerTo(t, "project")
  /\ UNCHANGED <<rows, terminal, mode, operations, claims, loop, drain,
                 withdrawing, faults>>

\* The append, the projection or the mark fails: the operation is rejected and the
\* entry stays in the outbox.
PublishFails(t) ==
  /\ worker[t] \in {"publish", "project", "mark"}
  /\ Fault
  /\ WorkerTo(t, "reject")
  /\ UNCHANGED <<durable, mode, operations, claims, loop, drain, withdrawing>>

ProjectTerminal(t) ==
  /\ worker[t] = "project"
  /\ turnRow' = [turnRow EXCEPT ![t] = ProjectedRow(@, TerminalOf(t))]
  /\ WorkerTo(t, IF ProjectionConflict(turnRow[t], TerminalOf(t)) THEN "reject" ELSE "mark")
  /\ UNCHANGED <<events, opRow, latest, terminal, mode, operations, claims, loop,
                 drain, withdrawing, faults>>

\* The entry is marked, the operation leaves the accepted ones, the queue is drained.
FinishTurn(t) ==
  /\ worker[t] = "mark"
  /\ outbox' = outbox \ {t}
  /\ accepted' = accepted \ {Op("start", t)}
  /\ WorkerTo(t, "none")
  /\ DrainTo(t, "pick", None)
  /\ UNCHANGED <<events, rows, facts, envelope, withdrawn, mode, channel, claims,
                 loop, withdrawing, faults>>

-----------------------------------------------------------------------------
(* Withdrawal of the latest turn.                                          *)

Withdraw(t) ==
  /\ Ready /\ withdrawing = None
  /\ latest = t /\ Active \subseteq {t} /\ t \notin withdrawn
  /\ accepted \subseteq {Op("start", t)}
  /\ Fault /\ withdrawing' = t
  /\ UNCHANGED <<durable, mode, operations, claims, loop, worker, drain>>

\* Mutant: the withdrawal does not wait for the accepted operations.
WithdrawAtOnce ==
  /\ withdrawing # None /\ Active = {}
  /\ withdrawing' = None
  /\ withdrawn' = withdrawn \cup {withdrawing}
  /\ UNCHANGED <<events, rows, facts, envelope, outbox, mode, operations, claims, loop,
                 worker, drain, faults>>

\* It ends once no operation is accepted and no turn runs, or is given up by its caller.
WithdrawEnd ==
  /\ withdrawing # None
  /\ withdrawing' = None
  /\ \/ /\ accepted = {} /\ Active = {}
        /\ withdrawn' = withdrawn \cup {withdrawing}
     \/ UNCHANGED withdrawn
  /\ UNCHANGED <<events, rows, facts, envelope, outbox, mode, operations, claims,
                 loop, worker, drain, faults>>

-----------------------------------------------------------------------------
(* Stopping and starting the process.                                      *)

Volatile ==
  /\ accepted' = {} /\ channel' = <<>> /\ claims' = {} /\ loop' = None
  /\ worker' = [t \in Turns |-> "none"]
  /\ drain' = [p \in Drainers |-> NoDrain]
  /\ withdrawing' = None

\* Events that may be in the log with neither their projection nor their commit done.
InFlight ==
  {<<"rejected", Op("start", t)>> : t \in {u \in Turns : worker[u] = "reject"}} \cup
  {<<"queued", Op("enqueue", i)>> : i \in {j \in Items : NextIs("enqueue") /\ Head(channel).of = j}} \cup
  {<<"removed", Op("remove", i)>> : i \in Items \cap {loop}} \cup
  {<<envelope[t], Op("start", t)>> : t \in {u \in outbox \ Terminals : mode = "booting"}}

\* The process dies, maybe between the append of an event and its projection.
Crash ==
  /\ mode # "down" /\ Fault
  /\ mode' = "down" /\ Volatile
  /\ \/ UNCHANGED events
     \/ Unlocked /\ \E e \in InFlight : Log(e[1], e[2])
  /\ UNCHANGED <<rows, terminal>>

\* Close stops accepting; the loop empties the channel and the workers finish.
Close ==
  /\ Ready /\ mode' = "closing"
  /\ Fault
  /\ UNCHANGED <<durable, operations, claims, loop, worker, drain, withdrawing>>

Exit ==
  /\ mode = "closing" /\ LoopIdle /\ channel = <<>> /\ withdrawing = None
  /\ \A t \in Turns : worker[t] \in {"none", "lost"}
  /\ \A p \in Drainers : drain[p].step = "none"
  /\ mode' = "down" /\ Volatile
  /\ UNCHANGED <<durable, faults>>

\* Mutant: a rejection does not confirm its operation.
ConfirmsNoRejection(o) == \/ o.kind = "start" /\ o.of \in Terminals
                          \/ o.kind = "enqueue" /\ Logged("queued", o.of)
                          \/ o.kind = "remove" /\ Logged("removed", o.of)

\* What the log says of an operation confirms it.
Confirms(o) == \/ Rejected(o)
               \/ o.kind = "start" /\ o.of \in Terminals
               \/ o.kind = "enqueue" /\ Logged("queued", o.of)
               \/ o.kind = "remove" /\ Logged("removed", o.of)

\* Mutant: a restart keeps the rows it finds.
RowKept(t) == turnRow[t]

\* The rows after the events of the log are projected again.
ReplayedRow(t) ==
  LET row == IF Rejected(Op("start", t)) /\ turnRow[t] = "active" /\ t \notin Terminals
             THEN "failed" ELSE turnRow[t]
  IN IF t \in Terminals THEN ProjectedRow(row, TerminalOf(t)) ELSE row

\* A turn has at most one terminal event in the log, although the worker, a restart and
\* a retried start may each publish its envelope (TerminalPublisher, Hub.publish).
OneTerminal == \A t \in Turns : \A m, n \in 1..Len(log[t]) :
                 log[t][m].kind \in Ends /\ log[t][n].kind \in Ends => m = n

\* Replay refuses a second terminal event of a turn, one that contradicts its row, and a
\* removal of what is not queued.
Replayable ==
  /\ OneTerminal
  /\ \A t \in Terminals : ~ProjectionConflict(turnRow[t], TerminalOf(t))
  /\ \A i \in Items : \A n \in 1..Len(log[i]) : log[i][n].kind = "removed" =>
       \A m \in 1..(n - 1) : log[i][m].kind \notin {"started", "removed"}

\* Lifecycle.Recover: rows and operations follow the log, what is pending is restored.
Boot ==
  /\ mode = "down" /\ Replayable
  /\ mode' = "booting"
  /\ turnRow' = [t \in Turns |-> ReplayedRow(t)]
  /\ opRow' = [o \in Ops |-> IF opRow[o] = "accepted" /\ Confirms(o) THEN "committed" ELSE opRow[o]]
  /\ accepted' = {o \in Ops : opRow'[o] = "accepted"} \cup
                 {Op("start", t) : t \in {u \in Turns : /\ turnRow'[u] = "active" /\ envelope[u] = None
                                                        /\ opRow'[Op("start", u)] = "committed"}}
  /\ claims' = {i \in Items : Op("start", i) \in accepted'}
  /\ UNCHANGED <<events, latest, terminal, channel, loop, worker, drain,
                 withdrawing, faults>>

\* Mutant: the stable identity of the entry is not looked up in the log.
RecoverAppends(t) ==
  /\ mode = "booting" /\ t \in outbox
  /\ Log(envelope[t], Op("start", t))
  /\ turnRow' = [turnRow EXCEPT ![t] = ProjectedRow(@, envelope[t])]
  /\ outbox' = outbox \ {t}
  /\ UNCHANGED <<opRow, latest, facts, envelope, withdrawn, mode, operations, claims,
                 loop, worker, drain, withdrawing, faults>>

\* Mutant: the entry is marked and not published.
RecoverMarks(t) ==
  /\ mode = "booting" /\ t \in outbox
  /\ outbox' = outbox \ {t}
  /\ UNCHANGED <<events, rows, facts, envelope, withdrawn, mode, operations, claims,
                 loop, worker, drain, withdrawing, faults>>

\* TerminalPublisher.Recover: an entry that cannot be projected stops the start.
RecoverOutbox(t) ==
  /\ mode = "booting" /\ t \in outbox
  /\ IF t \in Terminals THEN UNCHANGED events ELSE Log(envelope[t], Op("start", t))
  /\ turnRow' = [turnRow EXCEPT ![t] = ProjectedRow(@, envelope[t])]
  /\ IF ProjectionConflict(turnRow[t], envelope[t])
     THEN mode' = "down" /\ Volatile /\ UNCHANGED outbox
     ELSE /\ outbox' = outbox \ {t}
          /\ UNCHANGED <<mode, operations, claims, loop, worker, drain, withdrawing>>
  /\ UNCHANGED <<opRow, latest, facts, envelope, withdrawn, faults>>


\* A pending operation a restart dispatches again.
Resumes(o) == o.kind = "start" /\ (o.of \in facts \/ o.of \in Items)

\* The runtime accepts operations and dispatches what it resumes, at most one start;
\* then it drains the queue.
Activate ==
  /\ mode = "booting" /\ outbox = {}
  /\ mode' = "up"
  /\ \/ (\A o \in accepted : ~Resumes(o)) /\ UNCHANGED channel
     \/ \E o \in accepted : Resumes(o) /\ channel' = Append(channel, o)
  /\ DrainTo("boot", "pick", None)
  /\ UNCHANGED <<durable, accepted, claims, loop, worker, withdrawing, faults>>

-----------------------------------------------------------------------------
TurnStep(t) ==
  \/ OpenTurn(t) \/ AnnounceTurn(t)
  \/ \E outcome \in Ends : CommitTerminal(t, outcome)
  \/ Release(t) \/ RejectTurn(t) \/ RejectTurnFails(t)
  \/ PublishTerminal(t) \/ PublishFails(t) \/ ProjectTerminal(t) \/ FinishTurn(t)
DrainStep(p) == DrainPick(p) \/ DrainClaim(p) \/ DrainSubmit(p) \/ DrainUnclaim(p)
LoopStep == \/ DispatchStart \/ DispatchEnqueue \/ DispatchRemove \/ RemoveQueued
            \/ DispatchFails \/ RemoveFails
StartupStep == Boot \/ (\E t \in Turns : RecoverOutbox(t)) \/ Activate

Next ==
  \/ \E o \in Ops : Submit(o)
  \/ \E t \in Turns : TurnStep(t) \/ Withdraw(t)
  \/ \E p \in Drainers : DrainStep(p)
  \/ LoopStep \/ StartupStep \/ WithdrawEnd \/ Crash \/ Close \/ Exit

Fairness ==
  /\ \A t \in Turns : WF_vars(TurnStep(t))
  /\ \A p \in Drainers : WF_vars(DrainStep(p))
  /\ WF_vars(LoopStep) /\ WF_vars(StartupStep) /\ WF_vars(WithdrawEnd) /\ WF_vars(Exit)

Spec == Init /\ [][Next]_vars /\ Fairness

-----------------------------------------------------------------------------
(* Properties.                                                             *)

Told(t) == t \in Terminals \/ Rejected(Op("start", t))

\* A committed operation is never forgotten: the log tells what came of it, or its
\* envelope still waits in the outbox (CommitTerminal, MarkOutboxPublished, commit).
NothingForgotten ==
  \A o \in Ops : opRow[o] = "committed" =>
    \/ Rejected(o)
    \/ o.kind = "start" /\ o.of \in Terminals \cup outbox
    \/ o.kind = "enqueue" /\ Logged("queued", o.of)
    \/ o.kind = "remove" /\ Logged("removed", o.of)

\* While the runtime is up and no worker is busy with a turn, its row is active exactly
\* when the log tells no end of it: what Accept reads from the database to refuse a
\* start agrees with the log after every crash (Lifecycle.Project, Recover).  Only a turn
\* whose rejection has failed in this process may have an active row against the log; its
\* operation is then still accepted, so that the next start of the process settles both.
RowAgreesWithLog ==
  \A t \in Turns : mode = "up" /\ opRow[Op("start", t)] # "none" =>
    /\ worker[t] = "none" => (turnRow[t] = "active" <=> ~Told(t))
    /\ worker[t] = "lost" => /\ Op("start", t) \in accepted
                              /\ ~Told(t) => turnRow[t] = "active"

\* A withdrawn turn has settled: its end or its rejection is in the log
\* (WithdrawTurn "holds admission until execution and terminal publication settle").
WithdrawSettled == \A t \in withdrawn : Told(t)

\* A turn whose end is decided, published or rejected never starts to run again,
\* neither from the queue nor after a restart (recoverPendingTurns, TurnService.Start).
NoRerun ==
  [][\A t \in Turns : worker[t] = "none" /\ worker'[t] = "opening" =>
       ~Told(t) /\ envelope[t] = None]_vars

\* No start of the process succeeds any more.
Blocked == mode = "down" /\ ~Replayable

\* The worker of the turn is gone and its rejection failed: until the process starts
\* again nobody works on the turn.
Lost(t) == worker[t] = "lost"


\* The log eventually tells the end of a turn whose envelope is committed, or a rejection,
\* unless the rejection of an unpublished end fails too, which leaves it to the next
\* start of the process, or the process can no longer start.
OutcomeTold == \A t \in Turns : (envelope[t] # None) ~> (Told(t) \/ Lost(t) \/ Blocked)

\* A process that is down comes up again: "A single unrestorable Turn must not block
\* Runtime boot" (turn_recovery.go).
Boots == mode = "down" ~> mode = "up"

-----------------------------------------------------------------------------
(* The contract of operations, and how this module implements it.          *)

OutcomeOf(t) ==
  LET told == {n \in 1..Len(log[t]) : \/ log[t][n].kind \in Ends
                                      \/ log[t][n] = Event("rejected", Op("start", t))}
  IN IF told = {} THEN None ELSE log[t][CHOOSE n \in told : \A m \in told : n <= m].kind

Contract == INSTANCE OperationContract
              WITH status <- opRow, promise <- envelope, outcome <- [t \in Turns |-> OutcomeOf(t)]

\* The runtime implements OperationContract: the operation rows, the envelopes and the
\* first outcome told by the log move as the contract allows (Accept, commit, Recover).
KeepsContract == Contract!Spec
=============================================================================
