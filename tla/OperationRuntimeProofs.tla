------------------------ MODULE OperationRuntimeProofs ------------------------
(***************************************************************************)
(* Proofs about OperationRuntime: for any set of turns and queue items,    *)
(* any capacity of the channel and any number of faults, the runtime keeps *)
(* its safety invariants and implements the safety part of                 *)
(* OperationContract.                                                      *)
(*                                                                         *)
(* None of the invariants is inductive on its own.  Base says what the     *)
(* types need, OpInv adds what the rows, the registry of workers, the      *)
(* channel and the accepted operations know of the event log.              *)
(***************************************************************************)
EXTENDS OperationRuntime, TLAPS, WellFoundedInduction

-----------------------------------------------------------------------------
(* Operations and events.                                                  *)

St(t) == Op("start", t)

\* The operations of this thread and what tells them apart.
LEMMA OpFacts ==
  /\ \A t \in Turns : St(t) \in Ops /\ St(t).kind = "start" /\ St(t).of = t
  /\ \A i \in Items : Op("remove", i) \in Ops /\ Op("enqueue", i) \in Ops
  /\ \A k, t : Op(k, t).kind = k /\ Op(k, t).of = t
  /\ \A o \in Ops : o = Op(o.kind, o.of) /\ o.of \in Turns /\ o.kind \in {"start", "enqueue", "remove"}
  /\ \A o \in Ops : o.kind # "start" => o.of \in Items
  /\ \A o \in Ops : o.kind = "start" => o = St(o.of)
BY DEF Op, St, Ops, StartOps, Turns

\* The terminal kinds of events are no other kinds, and None is not one of them.
LEMMA EndFacts ==
  /\ Ends \subseteq {"completed", "failed", "blocked", "canceled"}
  /\ None \notin Ends /\ None # "rejected" /\ None \notin Turns
  /\ \A e \in Ends : e \notin EventKinds /\ e \in TurnStatus /\ e # "active" /\ e # "rejected"
                     /\ e # "queued"
BY OperationConstants DEF Ends, EventKinds, TurnStatus

\* An event of an operation is an event.
LEMMA EventTyped ==
  ASSUME NEW kind \in EventKinds \cup Ends, NEW o \in Ops
  PROVE  Event(kind, o) \in Events
BY OpFacts DEF Event, Events

-----------------------------------------------------------------------------
(* Types.                                                                  *)

\* A drain that has picked an item holds one.
DrainItems ==
  \A p \in Drainers : drain[p].step \in {"claim", "submit", "unclaim"} => drain[p].item \in Items

\* A process that is not up has nothing in its channel and no worker.
Quiet ==
  mode \in {"down", "booting"} =>
    channel = <<>> /\ loop = None /\ withdrawing = None /\ \A t \in Turns : worker[t] = "none"

\* What is published is an envelope, and what is projected is in the log.
Publication ==
  \A t \in Turns : /\ worker[t] \in {"committed", "publish", "project", "mark"} => envelope[t] # None
                   /\ worker[t] \in {"project", "mark"} => t \in Terminals
                   /\ t \in outbox => envelope[t] # None

\* The removal the loop has checked is the operation at the head of the channel.
LoopOk == loop # None => channel # <<>> /\ Head(channel) = Op("remove", loop)

Base == TypeOK /\ DrainItems /\ Quiet /\ Publication /\ LoopOk

\* An appended event keeps the log and the order typed.
LEMMA LogTyped ==
  ASSUME log \in [Turns -> Seq(Events)], order \in Seq(Items),
         NEW kind \in EventKinds \cup Ends, NEW o \in Ops, kind = "queued" => o.of \in Items,
         Log(kind, o)
  PROVE  log' \in [Turns -> Seq(Events)] /\ order' \in Seq(Items)
<1>1. o.of \in Turns
  BY OpFacts
<1>2. Event(kind, o) \in Events
  BY EventTyped
<1>3. log' = [log EXCEPT ![o.of] = Append(@, Event(kind, o))]
  BY DEF Log
<1>4. Append(log[o.of], Event(kind, o)) \in Seq(Events)
  BY <1>1, <1>2
<1>5. log' \in [Turns -> Seq(Events)]
  BY <1>1, <1>3, <1>4
<1>6. order' \in Seq(Items)
  BY DEF Log
<1> QED
  BY <1>5, <1>6

\* An emitted event keeps the log, the order and the rows of turns typed.
LEMMA EmitTyped ==
  ASSUME TypeOK, NEW kind \in EventKinds, NEW o \in Ops, kind = "queued" => o.of \in Items,
         Emit(kind, o)
  PROVE  /\ log' \in [Turns -> Seq(Events)] /\ order' \in Seq(Items)
         /\ turnRow' \in [Turns -> TurnStatus \cup {"none"}]
<1>1. Log(kind, o) /\ kind \in EventKinds \cup Ends
  BY DEF Emit
<1>2. log' \in [Turns -> Seq(Events)] /\ order' \in Seq(Items)
  BY <1>1, LogTyped DEF TypeOK
<1>3. turnRow' \in [Turns -> TurnStatus \cup {"none"}]
  BY OpFacts DEF Emit, TypeOK, TurnStatus
<1> QED
  BY <1>2, <1>3

\* The channel after its head is taken.
LEMMA TailTyped ==
  ASSUME TypeOK, channel # <<>>
  PROVE  /\ Tail(channel) \in Seq(Ops) /\ Len(Tail(channel)) <= Buffer
         /\ Head(channel) \in Ops /\ Len(Tail(channel)) = Len(channel) - 1
         /\ \A n \in 1..Len(Tail(channel)) : Tail(channel)[n] = channel[n + 1]
         /\ Head(channel) = channel[1] /\ 1 \in 1..Len(channel)
         /\ \A n \in 1..Len(channel) : n # 1 => (n - 1 \in 1..Len(Tail(channel)) /\ channel[n] = Tail(channel)[n - 1])
<1>1. channel \in Seq(Ops) /\ Len(channel) <= Buffer /\ Buffer \in Nat
  BY OperationConstants DEF TypeOK
<1> QED
  BY <1>1

\* The channel after an operation is appended.
LEMMA AppendTyped ==
  ASSUME TypeOK, NEW o \in Ops
  PROVE  /\ Append(channel, o) \in Seq(Ops) /\ Len(Append(channel, o)) = Len(channel) + 1
         /\ \A n \in 1..Len(channel) : Append(channel, o)[n] = channel[n]
         /\ Append(channel, o)[Len(channel) + 1] = o
         /\ Append(channel, o) # <<>>
         /\ channel # <<>> => Head(Append(channel, o)) = Head(channel)
<1>1. channel \in Seq(Ops) /\ Len(channel) \in Nat
  BY DEF TypeOK
<1>2. Append(channel, o) \in Seq(Ops) /\ Len(Append(channel, o)) = Len(channel) + 1
  BY <1>1
<1>3. /\ \A n \in 1..Len(channel) : Append(channel, o)[n] = channel[n]
      /\ Append(channel, o)[Len(channel) + 1] = o
  BY <1>1
<1>4. Append(channel, o) # <<>>
  BY <1>1, <1>2
<1>5. ASSUME channel # <<>> PROVE Head(Append(channel, o)) = Head(channel)
  <2>1. 1 \in 1..Len(channel)
    BY <1>1, <1>5
  <2>2. Append(channel, o)[1] = channel[1]
    BY <1>3, <2>1
  <2>3. Head(channel) = channel[1]
    BY <1>1, <1>5
  <2>4. Head(Append(channel, o)) = Append(channel, o)[1]
    <3> DEFINE s == Append(channel, o)
    <3>1. s \in Seq(Ops) /\ s # <<>>
      BY <1>2, <1>4
    <3> HIDE DEF s
    <3>2. Head(s) = s[1]
      BY <3>1
    <3> QED
      BY <3>2 DEF s
  <2> QED
    BY <2>2, <2>3, <2>4
<1> QED
  BY <1>2, <1>3, <1>4, <1>5

-----------------------------------------------------------------------------
(* What an appended event changes.                                         *)

\* The kinds of events a turn has in the log, after an event is appended.
LEMMA LogEffect ==
  ASSUME log \in [Turns -> Seq(Events)], NEW kind \in EventKinds \cup Ends, NEW o \in Ops,
         Log(kind, o)
  PROVE  /\ \A t \in Turns : \A k : Logged(k, t)' <=> Logged(k, t) \/ (t = o.of /\ k = kind)
         /\ \A p \in Ops : Rejected(p)' <=> Rejected(p) \/ (kind = "rejected" /\ p = o)
<1>1. o.of \in Turns /\ o = Op(o.kind, o.of)
  BY OpFacts
<1>2. log' = [log EXCEPT ![o.of] = Append(@, Event(kind, o))]
  BY DEF Log
<1>3. ASSUME NEW t \in Turns, t # o.of PROVE log'[t] = log[t]
  BY <1>2, <1>3
<1> DEFINE s == log[o.of]
           e == Event(kind, o)
<1>4. log'[o.of] = Append(s, e) /\ s \in Seq(Events) /\ e \in Events
  BY <1>1, <1>2, EventTyped
<1>5. e.kind = kind /\ e.by = o.kind
  BY DEF Event
<1> HIDE DEF s, e
<1>6. /\ Len(Append(s, e)) = Len(s) + 1 /\ Len(s) \in Nat
      /\ \A n \in 1..Len(s) : Append(s, e)[n] = s[n]
      /\ Append(s, e)[Len(s) + 1] = e
  BY <1>4
<1>8. ASSUME NEW t \in Turns, NEW k PROVE Logged(k, t)' <=> Logged(k, t) \/ (t = o.of /\ k = kind)
  <2>1. CASE t # o.of
    BY <2>1, <1>3 DEF Logged
  <2>2. CASE t = o.of
    <3>1. Logged(k, t)' <=> \E n \in 1..Len(Append(s, e)) : Append(s, e)[n].kind = k
      BY <2>2, <1>4 DEF Logged
    <3>2. Logged(k, t) <=> \E n \in 1..Len(s) : s[n].kind = k
      BY <2>2 DEF Logged, s
    <3>3. (\E n \in 1..Len(Append(s, e)) : Append(s, e)[n].kind = k) <=> (\E n \in 1..Len(s) : s[n].kind = k) \/ e.kind = k
      BY <1>6
    <3> QED
      BY <3>1, <3>2, <3>3, <1>5, <2>2
  <2> QED
    BY <2>1, <2>2
<1>9. ASSUME NEW p \in Ops PROVE Rejected(p)' <=> Rejected(p) \/ (kind = "rejected" /\ p = o)
  <2>0. p.of \in Turns /\ p = Op(p.kind, p.of)
    BY OpFacts
  <2>1. CASE p.of # o.of
    BY <2>0, <2>1, <1>3 DEF Rejected
  <2>2. CASE p.of = o.of
    <3>1. Rejected(p)' <=> \E n \in 1..Len(Append(s, e)) : Append(s, e)[n] = Event("rejected", p)
      BY <2>2, <1>4 DEF Rejected
    <3>2. Rejected(p) <=> \E n \in 1..Len(s) : s[n] = Event("rejected", p)
      BY <2>2 DEF Rejected, s
    <3>3. (\E n \in 1..Len(Append(s, e)) : Append(s, e)[n] = Event("rejected", p))
             <=> (\E n \in 1..Len(s) : s[n] = Event("rejected", p)) \/ e = Event("rejected", p)
      BY <1>6
    <3>4. e = Event("rejected", p) <=> kind = "rejected" /\ p.kind = o.kind
      BY DEF Event, e
    <3>5. p.kind = o.kind <=> p = o
      BY <2>0, <2>2, <1>1
    <3> QED
      BY <3>1, <3>2, <3>3, <3>4, <3>5
  <2> QED
    BY <2>1, <2>2
<1> QED
  BY <1>8, <1>9

\* The turns with an end and the turns the log tells of, after an event is appended.
LEMMA ToldEffect ==
  ASSUME log \in [Turns -> Seq(Events)], NEW kind \in EventKinds \cup Ends, NEW o \in Ops,
         Log(kind, o)
  PROVE  \A t \in Turns :
           /\ t \in Terminals' <=> t \in Terminals \/ (t = o.of /\ kind \in Ends)
           /\ Told(t)' <=> \/ Told(t) \/ (t = o.of /\ kind \in Ends)
                           \/ (kind = "rejected" /\ o = St(t))
<1> SUFFICES ASSUME NEW t \in Turns
             PROVE  /\ t \in Terminals' <=> t \in Terminals \/ (t = o.of /\ kind \in Ends)
                    /\ Told(t)' <=> \/ Told(t) \/ (t = o.of /\ kind \in Ends)
                                    \/ (kind = "rejected" /\ o = St(t))
  OBVIOUS
<1>1. \A k : Logged(k, t)' <=> Logged(k, t) \/ (t = o.of /\ k = kind)
  BY LogEffect
<1>2. t \in Terminals' <=> t \in Terminals \/ (t = o.of /\ kind \in Ends)
  BY <1>1 DEF Terminals
<1>3. Rejected(St(t))' <=> Rejected(St(t)) \/ (kind = "rejected" /\ St(t) = o)
  BY LogEffect, OpFacts
<1> QED
  BY <1>2, <1>3 DEF Told, St

\* Nothing that is read off the log changes while the log does not.
LEMMA SameLog ==
  ASSUME log' = log
  PROVE  /\ \A t, k : Logged(k, t)' <=> Logged(k, t)
         /\ \A p : Rejected(p)' <=> Rejected(p)
         /\ Terminals' = Terminals
         /\ \A t : Told(t)' <=> Told(t)
         /\ \A t : TerminalOf(t)' = TerminalOf(t)
<1>1. \A t, k : Logged(k, t)' <=> Logged(k, t)
  BY DEF Logged
<1>2. \A p : Rejected(p)' <=> Rejected(p)
  BY DEF Rejected
<1>3. Terminals' = Terminals
  BY <1>1 DEF Terminals
<1>4. \A t : Told(t)' <=> Told(t)
  BY <1>2, <1>3 DEF Told
<1>5. \A t : TerminalOf(t)' = TerminalOf(t)
  BY DEF TerminalOf, Logged
<1> QED
  BY <1>1, <1>2, <1>3, <1>4, <1>5

-----------------------------------------------------------------------------
(* Which actions change which variables.                                   *)

\* A rejection, an event or a commit cannot be written.
Failing == (\E t \in Turns : RejectTurnFails(t)) \/ DispatchFails \/ RemoveFails

\* Actions that may change the event log.
LEMMA LogFrame ==
  [Next]_vars =>
     \/ UNCHANGED <<log, order>>
     \/ \E t \in Turns : AnnounceTurn(t) \/ RejectTurn(t) \/ PublishTerminal(t) \/
           RecoverOutbox(t)
     \/ DispatchStart \/ DispatchEnqueue \/ DispatchRemove \/ RemoveQueued \/ Crash
     \/ Failing
BY DEF Failing, Next, TurnStep, DrainStep, LoopStep, StartupStep, Submit, OpenTurn, CommitTerminal,
     Release, PublishFails, ProjectTerminal, FinishTurn, Withdraw, DrainPick, DrainClaim,
     DrainSubmit, DrainUnclaim, Boot, Activate, WithdrawEnd, Close, Exit, vars, durable, events,
     rows, terminal, operations

\* Actions that may change the rows of operations.
LEMMA OpRowFrame ==
  [Next]_vars =>
     \/ UNCHANGED opRow
     \/ \E o \in Ops : Submit(o)
     \/ \E t \in Turns : RejectTurn(t)
     \/ \E t \in Turns, e \in Ends : CommitTerminal(t, e)
     \/ \E p \in Drainers : DrainSubmit(p)
     \/ DispatchStart \/ DispatchEnqueue \/ DispatchRemove \/ RemoveQueued \/ Boot
BY DEF RejectTurnFails, DispatchFails, RemoveFails, RejectFails, Next, TurnStep, DrainStep, LoopStep, StartupStep, OpenTurn, AnnounceTurn, Release,
     PublishTerminal, PublishFails, ProjectTerminal, FinishTurn, Withdraw, DrainPick, DrainClaim,
     DrainUnclaim, RecoverOutbox, Activate, WithdrawEnd, Crash, Close, Exit, vars, durable,
     events, rows, terminal, operations

\* Actions that may change the rows of turns.
LEMMA TurnRowFrame ==
  [Next]_vars =>
     \/ UNCHANGED turnRow
     \/ \E o \in Ops : Submit(o)
     \/ \E t \in Turns : AnnounceTurn(t) \/ RejectTurn(t) \/ ProjectTerminal(t) \/
           RecoverOutbox(t)
     \/ \E p \in Drainers : DrainSubmit(p)
     \/ DispatchStart \/ DispatchEnqueue \/ DispatchRemove \/ RemoveQueued \/ Boot
     \/ Failing
BY DEF Failing, Next, TurnStep, DrainStep, LoopStep, StartupStep, OpenTurn, CommitTerminal, Release,
     PublishTerminal, PublishFails, FinishTurn, Withdraw, DrainPick, DrainClaim, DrainUnclaim,
     Activate, WithdrawEnd, Crash, Close, Exit, vars, durable, events, rows, terminal, operations

\* Actions that may change the latest turn.
LEMMA LatestFrame ==
  [Next]_vars =>
     \/ UNCHANGED latest
     \/ \E o \in Ops : Submit(o)
     \/ \E p \in Drainers : DrainSubmit(p)
BY DEF RejectTurnFails, DispatchFails, RemoveFails, RejectFails, Next, TurnStep, DrainStep, LoopStep, StartupStep, OpenTurn, AnnounceTurn,
     CommitTerminal, Release, RejectTurn, PublishTerminal, PublishFails, ProjectTerminal,
     FinishTurn, Withdraw, DrainPick, DrainClaim, DrainUnclaim, DispatchStart, DispatchEnqueue,
     DispatchRemove, RemoveQueued, Boot, RecoverOutbox, Activate, WithdrawEnd, Crash, Close,
     Exit, vars, durable, events, rows, terminal, operations

\* Actions that may change the facts, envelopes, outbox and tombstones.
LEMMA TerminalFrame ==
  [Next]_vars =>
     \/ UNCHANGED <<facts, envelope, outbox, withdrawn>>
     \/ \E t \in Turns : OpenTurn(t) \/ FinishTurn(t) \/ RecoverOutbox(t)
     \/ \E t \in Turns, e \in Ends : CommitTerminal(t, e)
     \/ WithdrawEnd
BY DEF RejectTurnFails, DispatchFails, RemoveFails, RejectFails, Next, TurnStep, DrainStep, LoopStep, StartupStep, Submit, AnnounceTurn, Release,
     RejectTurn, PublishTerminal, PublishFails, ProjectTerminal, Withdraw, DrainPick, DrainClaim,
     DrainSubmit, DrainUnclaim, DispatchStart, DispatchEnqueue, DispatchRemove, RemoveQueued,
     Boot, Activate, Crash, Close, Exit, vars, durable, events, rows, terminal, operations

\* Actions that may change the envelopes.
LEMMA EnvelopeFrame ==
  [Next]_vars =>
     \/ UNCHANGED envelope
     \/ \E t \in Turns, e \in Ends : CommitTerminal(t, e)
BY DEF RejectTurnFails, DispatchFails, RemoveFails, RejectFails, Next, TurnStep, DrainStep, LoopStep, StartupStep, Submit, OpenTurn, AnnounceTurn,
     Release, RejectTurn, PublishTerminal, PublishFails, ProjectTerminal, FinishTurn, Withdraw,
     DrainPick, DrainClaim, DrainSubmit, DrainUnclaim, DispatchStart, DispatchEnqueue,
     DispatchRemove, RemoveQueued, Boot, RecoverOutbox, Activate, WithdrawEnd, Crash, Close,
     Exit, vars, durable, events, rows, terminal, operations

\* Actions that may change the outbox.
LEMMA OutboxFrame ==
  [Next]_vars =>
     \/ UNCHANGED outbox
     \/ \E t \in Turns : FinishTurn(t) \/ RecoverOutbox(t)
     \/ \E t \in Turns, e \in Ends : CommitTerminal(t, e)
BY DEF RejectTurnFails, DispatchFails, RemoveFails, RejectFails, Next, TurnStep, DrainStep, LoopStep, StartupStep, Submit, OpenTurn, AnnounceTurn,
     Release, RejectTurn, PublishTerminal, PublishFails, ProjectTerminal, Withdraw, DrainPick,
     DrainClaim, DrainSubmit, DrainUnclaim, DispatchStart, DispatchEnqueue, DispatchRemove,
     RemoveQueued, Boot, Activate, WithdrawEnd, Crash, Close, Exit, vars, durable, events, rows,
     terminal, operations

\* Actions that may change the mode of the process.
LEMMA ModeFrame ==
  [Next]_vars =>
     \/ UNCHANGED mode
     \/ \E t \in Turns : RecoverOutbox(t)
     \/ Boot \/ Activate \/ Crash \/ Close \/ Exit
BY DEF RejectTurnFails, DispatchFails, RemoveFails, RejectFails, Next, TurnStep, DrainStep, LoopStep, StartupStep, Submit, OpenTurn, AnnounceTurn,
     CommitTerminal, Release, RejectTurn, PublishTerminal, PublishFails, ProjectTerminal,
     FinishTurn, Withdraw, DrainPick, DrainClaim, DrainSubmit, DrainUnclaim, DispatchStart,
     DispatchEnqueue, DispatchRemove, RemoveQueued, WithdrawEnd, vars, durable, events, rows,
     terminal, operations

\* Actions that may change the accepted operations.
LEMMA AcceptedFrame ==
  [Next]_vars =>
     \/ UNCHANGED accepted
     \/ \E o \in Ops : Submit(o)
     \/ \E t \in Turns : RejectTurn(t) \/ FinishTurn(t) \/ RecoverOutbox(t)
     \/ \E p \in Drainers : DrainSubmit(p)
     \/ DispatchStart \/ DispatchEnqueue \/ DispatchRemove \/ RemoveQueued \/ Boot \/ Crash
           \/ Exit
BY DEF RejectTurnFails, DispatchFails, RemoveFails, RejectFails, Next, TurnStep, DrainStep, LoopStep, StartupStep, OpenTurn, AnnounceTurn,
     CommitTerminal, Release, PublishTerminal, PublishFails, ProjectTerminal, Withdraw,
     DrainPick, DrainClaim, DrainUnclaim, Activate, WithdrawEnd, Close, vars, durable, events,
     rows, terminal, operations

\* Actions that may change the channel of the loop.
LEMMA ChannelFrame ==
  [Next]_vars =>
     \/ UNCHANGED <<channel, loop>>
     \/ \E o \in Ops : Submit(o)
     \/ \E t \in Turns : RecoverOutbox(t)
     \/ \E p \in Drainers : DrainSubmit(p)
     \/ DispatchStart \/ DispatchEnqueue \/ DispatchRemove \/ RemoveQueued \/ Activate \/
           Crash \/ Exit
     \/ Failing
BY DEF Failing, Next, TurnStep, DrainStep, LoopStep, StartupStep, OpenTurn, AnnounceTurn,
     CommitTerminal, Release, RejectTurn, PublishTerminal, PublishFails, ProjectTerminal,
     FinishTurn, Withdraw, DrainPick, DrainClaim, DrainUnclaim, Boot, WithdrawEnd, Close, vars,
     durable, events, rows, terminal, operations

\* Actions that may change the claims.
LEMMA ClaimsFrame ==
  [Next]_vars =>
     \/ UNCHANGED claims
     \/ \E t \in Turns : AnnounceTurn(t) \/ RejectTurn(t) \/ RecoverOutbox(t)
     \/ \E p \in Drainers : DrainClaim(p) \/ DrainUnclaim(p)
     \/ DispatchStart \/ DispatchRemove \/ Boot \/ Crash \/ Exit
     \/ Failing
BY DEF Failing, Next, TurnStep, DrainStep, LoopStep, StartupStep, Submit, OpenTurn, CommitTerminal,
     Release, PublishTerminal, PublishFails, ProjectTerminal, FinishTurn, Withdraw, DrainPick,
     DrainSubmit, DispatchEnqueue, RemoveQueued, Activate, WithdrawEnd, Close, vars, durable,
     events, rows, terminal, operations

\* Actions that may change the workers.
LEMMA WorkerFrame ==
  [Next]_vars =>
     \/ UNCHANGED worker
     \/ \E t \in Turns : OpenTurn(t) \/ AnnounceTurn(t) \/ Release(t) \/ RejectTurn(t) \/
           PublishTerminal(t) \/ PublishFails(t) \/ ProjectTerminal(t) \/ FinishTurn(t) \/
           RecoverOutbox(t)
     \/ \E t \in Turns, e \in Ends : CommitTerminal(t, e)
     \/ DispatchStart \/ Crash \/ Exit
     \/ Failing
BY DEF Failing, Next, TurnStep, DrainStep, LoopStep, StartupStep, Submit, Withdraw, DrainPick,
     DrainClaim, DrainSubmit, DrainUnclaim, DispatchEnqueue, DispatchRemove, RemoveQueued, Boot,
     Activate, WithdrawEnd, Close, vars, durable, events, rows, terminal, operations

\* Actions that may change the drains.
LEMMA DrainFrame ==
  [Next]_vars =>
     \/ UNCHANGED drain
     \/ \E t \in Turns : FinishTurn(t) \/ RecoverOutbox(t)
     \/ \E p \in Drainers : DrainPick(p) \/ DrainClaim(p) \/ DrainSubmit(p) \/
           DrainUnclaim(p)
     \/ DispatchEnqueue \/ Activate \/ Crash \/ Exit
     \/ Failing
BY DEF Failing, Next, TurnStep, DrainStep, LoopStep, StartupStep, Submit, OpenTurn, AnnounceTurn,
     CommitTerminal, Release, RejectTurn, PublishTerminal, PublishFails, ProjectTerminal,
     Withdraw, DispatchStart, DispatchRemove, RemoveQueued, Boot, WithdrawEnd, Close, vars,
     durable, events, rows, terminal, operations

\* Actions that may change the withdrawals.
LEMMA WithdrawFrame ==
  [Next]_vars =>
     \/ UNCHANGED <<withdrawing, withdrawn>>
     \/ \E t \in Turns : Withdraw(t) \/ RecoverOutbox(t)
     \/ WithdrawEnd \/ Crash \/ Exit
BY DEF RejectTurnFails, DispatchFails, RemoveFails, RejectFails, Next, TurnStep, DrainStep, LoopStep, StartupStep, Submit, OpenTurn, AnnounceTurn,
     CommitTerminal, Release, RejectTurn, PublishTerminal, PublishFails, ProjectTerminal,
     FinishTurn, DrainPick, DrainClaim, DrainSubmit, DrainUnclaim, DispatchStart,
     DispatchEnqueue, DispatchRemove, RemoveQueued, Boot, Activate, Close, vars, durable, events,
     rows, terminal, operations

\* Actions that may change the count of faults.
LEMMA FaultFrame ==
  [Next]_vars =>
     \/ UNCHANGED faults
     \/ \E t \in Turns : PublishFails(t) \/ Withdraw(t)
     \/ Crash \/ Close
     \/ Failing
BY DEF Failing, Next, TurnStep, DrainStep, LoopStep, StartupStep, Submit, OpenTurn, AnnounceTurn,
     CommitTerminal, Release, RejectTurn, PublishTerminal, ProjectTerminal, FinishTurn,
     DrainPick, DrainClaim, DrainSubmit, DrainUnclaim, DispatchStart, DispatchEnqueue,
     DispatchRemove, RemoveQueued, Boot, RecoverOutbox, Activate, WithdrawEnd, Exit, vars,
     durable, events, rows, terminal, operations

-----------------------------------------------------------------------------
(* The types are kept.                                                     *)

\* Operation o is accepted in this step.
Takes(o) ==
  /\ opRow[o] = "none" /\ ~Refused(o) /\ Accept(o)
  /\ UNCHANGED <<log, order, facts, envelope, outbox, withdrawn, mode, claims, loop, worker,
                 withdrawing, faults>>

\* A submission accepts an operation; so may a drain.
LEMMA SubmitTakes ==
  /\ \A o \in Ops : Submit(o) => Takes(o)
  /\ Base => \A p \in Drainers : DrainSubmit(p) =>
       UNCHANGED <<opRow, turnRow, latest, accepted, channel, loop>> \/ \E o \in Ops : Takes(o)
<1>1. \A o \in Ops : Submit(o) => Takes(o)
  BY DEF Submit, Takes, events, terminal
<1>2. ASSUME Base, NEW p \in Drainers, DrainSubmit(p)
      PROVE  UNCHANGED <<opRow, turnRow, latest, accepted, channel, loop>> \/ \E o \in Ops : Takes(o)
  <2>1. drain[p].item \in Items
    BY <1>2 DEF Base, DrainItems, DrainSubmit
  <2>2. Op("start", drain[p].item) \in Ops
    BY <2>1, OpFacts DEF St, Turns
  <2>3. UNCHANGED <<log, order, facts, envelope, outbox, withdrawn, mode, claims, loop, worker,
                    withdrawing, faults>>
    BY <1>2 DEF DrainSubmit, events, terminal
  <2>4. \/ UNCHANGED <<opRow, turnRow, latest, accepted, channel, loop>>
        \/ opRow[Op("start", drain[p].item)] = "none" /\ ~Refused(Op("start", drain[p].item))
           /\ Accept(Op("start", drain[p].item))
    BY <1>2 DEF DrainSubmit, rows, operations
  <2> QED
    BY <2>2, <2>3, <2>4 DEF Takes
<1> QED
  BY <1>1, <1>2

\* The head of the channel is dispatched.
LEMMA HeadFacts ==
  ASSUME Base, NEW k, NextIs(k)
  PROVE  /\ channel # <<>> /\ Head(channel) \in Ops /\ Head(channel).kind = k
         /\ Head(channel) = Op(k, Head(channel).of) /\ Head(channel).of \in Turns
         /\ k # "start" => Head(channel).of \in Items
         /\ loop = None /\ mode \in {"up", "closing"}
BY OpFacts, TailTyped DEF Base, NextIs, LoopIdle

\* The terminal event the log has of a turn is one of the ends.
LEMMA TerminalOfTyped == \A t \in Terminals : TerminalOf(t) \in Ends /\ Logged(TerminalOf(t), t)
BY DEF Terminals, TerminalOf

\* The events that a crash may leave in the log.
LEMMA InFlightTyped ==
  ASSUME Base, NEW x \in InFlight
  PROVE  /\ x[1] \in EventKinds \cup Ends /\ x[2] \in Ops
         /\ x[1] = "queued" => x[2].of \in Items
         /\ \/ \E t \in Turns : x[1] = "rejected" /\ x[2] = St(t) /\ worker[t] = "reject"
            \/ \E i \in Items : x[1] = "queued" /\ x[2] = Op("enqueue", i)
            \/ \E i \in Items : x[1] = "removed" /\ x[2] = Op("remove", i) /\ loop = i
            \/ \E t \in Turns : /\ x[1] = envelope[t] /\ x[2] = St(t) /\ x[1] \in Ends
                                /\ t \in outbox /\ t \notin Terminals /\ mode = "booting"
<1>1. CASE \E t \in Turns : worker[t] = "reject" /\ x = <<"rejected", Op("start", t)>>
  BY <1>1, OpFacts DEF EventKinds, St
<1>2. CASE \E i \in Items : x = <<"queued", Op("enqueue", i)>>
  BY <1>2, OpFacts DEF EventKinds, St
<1>3. CASE \E i \in Items : loop = i /\ x = <<"removed", Op("remove", i)>>
  BY <1>3, OpFacts DEF EventKinds, St
<1>4. CASE \E t \in Turns : t \in outbox /\ t \notin Terminals /\ mode = "booting"
                            /\ x = <<envelope[t], Op("start", t)>>
  <2>1. PICK t \in Turns : t \in outbox /\ t \notin Terminals /\ mode = "booting"
                            /\ x = <<envelope[t], Op("start", t)>>
    BY <1>4
  <2>2. envelope[t] \in Ends
    BY <2>1 DEF Base, Publication, TypeOK
  <2> QED
    BY <2>1, <2>2, OpFacts, EndFacts DEF St
<1> QED
  BY <1>1, <1>2, <1>3, <1>4 DEF InFlight, Base, TypeOK

\* What a failing write leaves of operation o: maybe its event, maybe projected; the worker
\* or the loop is done with it.
FailsOf(o) ==
  /\ \/ UNCHANGED <<log, order, turnRow>>
     \/ \E k \in {"rejected", "queued", "removed"} :
          /\ Log(k, o) /\ (turnRow' = turnRow \/ Emit(k, o))
          /\ k = "queued" => o.of \in Items
          /\ o.kind = "start" => k = "rejected"
          /\ k = "rejected" \/ o.kind # "start"
  /\ \/ UNCHANGED <<channel, loop>> /\ \E t \in Turns : o = St(t) /\ worker[t] = "reject"
     \/ channel # <<>> /\ channel' = Tail(channel) /\ loop' = None /\ o = Head(channel)
  /\ worker' = IF o.kind = "start" THEN [worker EXCEPT ![o.of] = "lost"] ELSE worker

\* A failing write neither commits nor gives up an operation.
LEMMA FailEffect ==
  ASSUME Base, Failing
  PROVE  /\ UNCHANGED <<opRow, accepted, latest, facts, envelope, outbox, withdrawn, mode, withdrawing>>
         /\ faults < MaxFaults /\ faults' = faults + 1
         /\ mode \in {"up", "closing"}
         /\ claims' \subseteq claims
         /\ drain' = drain \/ DrainTo("loop", "pick", None)
         /\ \E o \in Ops : FailsOf(o)
<1>b. loop \in Items \cup {None} /\ mode \in {"down", "booting", "up", "closing"}
  BY DEF Base, TypeOK
<1>1. ASSUME NEW o \in Ops, RejectFails(o)
      PROVE  /\ opRow' = opRow /\ accepted' = accepted
             /\ faults < MaxFaults /\ faults' = faults + 1 /\ claims' \subseteq claims
             /\ \/ UNCHANGED <<log, order, turnRow>>
                \/ Log("rejected", o) /\ (turnRow' = turnRow \/ Emit("rejected", o))
             /\ worker' = IF o.kind = "start" THEN [worker EXCEPT ![o.of] = "lost"] ELSE worker
  BY <1>1 DEF RejectFails, Fault, events, Unclaimed, Emit
<1>2. ASSUME NEW t \in Turns, RejectTurnFails(t)
      PROVE  /\ UNCHANGED <<opRow, accepted, latest, facts, envelope, outbox, withdrawn, mode, withdrawing>>
             /\ faults < MaxFaults /\ faults' = faults + 1 /\ claims' \subseteq claims
             /\ mode \in {"up", "closing"} /\ drain' = drain
             /\ \E o \in Ops : FailsOf(o)
  <2>1. St(t) \in Ops /\ St(t).kind = "start" /\ St(t).of = t
    BY OpFacts
  <2>2. RejectFails(St(t)) /\ worker[t] = "reject" /\ UNCHANGED <<channel, loop>>
    BY <1>2 DEF RejectTurnFails, St
  <2>3. UNCHANGED <<latest, facts, envelope, outbox, withdrawn, mode, withdrawing, drain>>
    BY <1>2 DEF RejectTurnFails, terminal
  <2>4. mode \in {"up", "closing"}
    BY <2>2, <1>b DEF Base, Quiet
  <2>5. FailsOf(St(t))
    BY <2>1, <2>2, <1>1 DEF FailsOf
  <2> QED
    BY <2>1, <2>2, <2>3, <2>4, <2>5, <1>1
<1>3. ASSUME DispatchFails
      PROVE  /\ UNCHANGED <<opRow, accepted, latest, facts, envelope, outbox, withdrawn, mode, withdrawing>>
             /\ faults < MaxFaults /\ faults' = faults + 1 /\ claims' \subseteq claims
             /\ mode \in {"up", "closing"} /\ (drain' = drain \/ DrainTo("loop", "pick", None))
             /\ \E o \in Ops : FailsOf(o)
  <2> DEFINE o == Head(channel)
  <2>1. channel # <<>> /\ channel' = Tail(channel) /\ loop' = None /\ mode \in {"up", "closing"}
    BY <1>3 DEF DispatchFails, LoopIdle
  <2>2. o \in Ops /\ (o.kind # "start" => o.of \in Items)
    BY <2>1, TailTyped, OpFacts DEF Base
  <2>3. UNCHANGED <<latest, facts, envelope, outbox, withdrawn, mode, withdrawing>>
    BY <1>3 DEF DispatchFails, terminal
  <2>4. CASE RejectFails(o) /\ UNCHANGED drain
    <3>1. FailsOf(o)
      BY <2>1, <2>2, <2>4, <1>1 DEF FailsOf
    <3> QED
      BY <2>1, <2>2, <2>3, <2>4, <3>1, <1>1
  <2>5. CASE /\ o.kind = "enqueue" /\ Fault
             /\ \/ UNCHANGED <<events, turnRow, drain>>
                \/ Emit("queued", o) /\ DrainTo("loop", "pick", None)
             /\ UNCHANGED <<opRow, accepted, claims, worker>>
    <3>1. FailsOf(o)
      BY <2>1, <2>2, <2>5 DEF FailsOf, events, Emit
    <3>2. faults < MaxFaults /\ faults' = faults + 1 /\ claims' \subseteq claims /\ opRow' = opRow /\ accepted' = accepted
      BY <2>5 DEF Fault
    <3>3. drain' = drain \/ DrainTo("loop", "pick", None)
      BY <2>5
    <3> QED
      BY <2>1, <2>2, <2>3, <3>1, <3>2, <3>3
  <2> QED
    BY <1>3, <2>4, <2>5 DEF DispatchFails
<1>4. ASSUME RemoveFails
      PROVE  /\ UNCHANGED <<opRow, accepted, latest, facts, envelope, outbox, withdrawn, mode, withdrawing>>
             /\ faults < MaxFaults /\ faults' = faults + 1 /\ claims' \subseteq claims
             /\ mode \in {"up", "closing"} /\ drain' = drain
             /\ \E o \in Ops : FailsOf(o)
  <2>1. loop # None /\ loop \in Items /\ channel' = Tail(channel) /\ loop' = None
    BY <1>4, <1>b DEF RemoveFails
  <2>2. channel # <<>> /\ Head(channel) = Op("remove", loop) /\ mode \in {"up", "closing"}
    BY <2>1, <1>b DEF Base, LoopOk, Quiet
  <2>3. Op("remove", loop) \in Ops /\ Op("remove", loop).kind = "remove"
    BY <2>1, OpFacts
  <2>4. UNCHANGED <<opRow, accepted, latest, facts, envelope, outbox, withdrawn, mode, claims, worker, drain, withdrawing>>
    BY <1>4 DEF RemoveFails, terminal
  <2>5. UNCHANGED <<log, order, turnRow>> \/ Emit("removed", Op("remove", loop))
    BY <1>4 DEF RemoveFails, events
  <2>6. faults < MaxFaults /\ faults' = faults + 1
    BY <1>4 DEF RemoveFails, Fault
  <2>7. FailsOf(Op("remove", loop))
    BY <2>1, <2>2, <2>3, <2>4, <2>5 DEF FailsOf, Emit
  <2> QED
    BY <2>2, <2>3, <2>4, <2>6, <2>7
<1> QED
  BY <1>2, <1>3, <1>4 DEF Failing

\* The event log stays typed.
LEMMA LogTypes == Base /\ [Next]_vars => (log \in [Turns -> Seq(Events)] /\ order \in Seq(Items))'
<1> SUFFICES ASSUME Base, [Next]_vars PROVE log' \in [Turns -> Seq(Events)] /\ order' \in Seq(Items)
  OBVIOUS
<1> USE DEF EventKinds
<1>b. TypeOK /\ log \in [Turns -> Seq(Events)] /\ order \in Seq(Items)
  BY DEF Base, TypeOK
<1>1. CASE UNCHANGED <<log, order>>
  BY <1>1, <1>b
<1>2. ASSUME NEW k \in EventKinds, NEW o \in Ops, k = "queued" => o.of \in Items, Emit(k, o)
      PROVE  log' \in [Turns -> Seq(Events)] /\ order' \in Seq(Items)
  BY <1>2, <1>b, EmitTyped
<1>3. ASSUME NEW k \in EventKinds \cup Ends, NEW o \in Ops, k = "queued" => o.of \in Items, Log(k, o)
      PROVE  log' \in [Turns -> Seq(Events)] /\ order' \in Seq(Items)
  BY <1>3, <1>b, LogTyped
<1>4. ASSUME NEW t \in Turns, AnnounceTurn(t) PROVE log' \in [Turns -> Seq(Events)] /\ order' \in Seq(Items)
  BY <1>4, <1>2, OpFacts DEF AnnounceTurn, St
<1>5. ASSUME NEW t \in Turns, RejectTurn(t) PROVE log' \in [Turns -> Seq(Events)] /\ order' \in Seq(Items)
  BY <1>5, <1>2, OpFacts DEF RejectTurn, RejectOp, St
<1>6. ASSUME NEW t \in Turns, PublishTerminal(t) \/ RecoverOutbox(t)
      PROVE  log' \in [Turns -> Seq(Events)] /\ order' \in Seq(Items)
  <2>1. envelope[t] \in Ends
    BY <1>6 DEF Base, Publication, TypeOK, PublishTerminal, RecoverOutbox
  <2>2. UNCHANGED <<log, order>> \/ Log(envelope[t], Op("start", t))
    BY <1>6 DEF PublishTerminal, RecoverOutbox, events
  <2> QED
    BY <2>1, <2>2, <1>1, <1>3, OpFacts, EndFacts DEF St
<1>7. CASE DispatchStart
  BY <1>7, <1>1, <1>2, HeadFacts DEF DispatchStart, RejectOp, events
<1>8. CASE DispatchEnqueue
  BY <1>8, <1>2, HeadFacts DEF DispatchEnqueue
<1>9. CASE DispatchRemove
  BY <1>9, <1>1, <1>2, HeadFacts DEF DispatchRemove, RejectOp, events
<1>10. CASE RemoveQueued
  <2>1. loop \in Items
    BY <1>10, <1>b DEF RemoveQueued, TypeOK
  <2> QED
    BY <2>1, <1>10, <1>2, OpFacts DEF RemoveQueued
<1>11. CASE Crash
  BY <1>11, <1>1, <1>3, InFlightTyped DEF Crash, events
<1>12. CASE Failing
  <2>1. PICK o \in Ops : FailsOf(o)
    BY <1>12, FailEffect
  <2>2. UNCHANGED <<log, order>> \/ \E k \in EventKinds : Log(k, o) /\ (k = "queued" => o.of \in Items)
    BY <2>1 DEF FailsOf
  <2> QED
    BY <2>2, <1>1, <1>3
<1> QED
  BY <1>1, <1>4, <1>5, <1>6, <1>7, <1>8, <1>9, <1>10, <1>11, <1>12, LogFrame

\* The rows stay typed.
LEMMA RowTypes ==
  Base /\ [Next]_vars =>
    /\ opRow' \in [Ops -> {"none", "accepted", "committed"}]
    /\ turnRow' \in [Turns -> TurnStatus \cup {"none"}]
    /\ latest' \in Turns \cup {None}
<1> SUFFICES ASSUME Base, [Next]_vars
             PROVE  /\ opRow' \in [Ops -> {"none", "accepted", "committed"}]
                    /\ turnRow' \in [Turns -> TurnStatus \cup {"none"}]
                    /\ latest' \in Turns \cup {None}
  OBVIOUS
<1>b. /\ TypeOK /\ opRow \in [Ops -> {"none", "accepted", "committed"}]
      /\ turnRow \in [Turns -> TurnStatus \cup {"none"}] /\ latest \in Turns \cup {None}
  BY DEF Base, TypeOK
<1>1. ASSUME NEW o \in Ops, Takes(o)
      PROVE  /\ opRow' \in [Ops -> {"none", "accepted", "committed"}]
             /\ turnRow' \in [Turns -> TurnStatus \cup {"none"}]
             /\ latest' \in Turns \cup {None}
  BY <1>1, <1>b, OpFacts DEF Takes, Accept, TurnStatus
<1>2. opRow' \in [Ops -> {"none", "accepted", "committed"}]
  <2>1. ASSUME NEW t \in Turns, RejectTurn(t) \/ \E e \in Ends : CommitTerminal(t, e)
        PROVE  opRow' \in [Ops -> {"none", "accepted", "committed"}]
    BY <2>1, <1>b, OpFacts DEF RejectTurn, RejectOp, CommitTerminal
  <2>2. CASE DispatchStart \/ DispatchEnqueue \/ DispatchRemove
    BY <2>2, <1>b DEF DispatchStart, DispatchEnqueue, DispatchRemove, RejectOp
  <2>3. CASE RemoveQueued
    BY <2>3, <1>b DEF RemoveQueued
  <2>4. CASE Boot
    BY <2>4, <1>b DEF Boot
  <2> QED
    BY <2>1, <2>2, <2>3, <2>4, <1>1, <1>b, OpRowFrame, SubmitTakes
<1>3. turnRow' \in [Turns -> TurnStatus \cup {"none"}]
  <2>0. ASSUME NEW k, NEW o \in Ops, Emit(k, o) PROVE turnRow' \in [Turns -> TurnStatus \cup {"none"}]
    BY <2>0, <1>b, OpFacts DEF Emit, TurnStatus
  <2>1. ASSUME NEW t \in Turns, AnnounceTurn(t) \/ RejectTurn(t)
        PROVE  turnRow' \in [Turns -> TurnStatus \cup {"none"}]
    BY <2>0, <2>1, OpFacts DEF AnnounceTurn, RejectTurn, RejectOp, St
  <2>2. ASSUME NEW t \in Turns, ProjectTerminal(t) PROVE turnRow' \in [Turns -> TurnStatus \cup {"none"}]
    <3>1. turnRow' = [turnRow EXCEPT ![t] = ProjectedRow(@, TerminalOf(t))]
      BY <2>2 DEF ProjectTerminal
    <3>2. ProjectedRow(turnRow[t], TerminalOf(t)) \in {turnRow[t], TerminalOf(t)}
      BY DEF ProjectedRow
    <3>3. t \in Terminals
      BY <2>2 DEF ProjectTerminal, Base, Publication
    <3>4. TerminalOf(t) \in TurnStatus
      BY <3>3, TerminalOfTyped, EndFacts
    <3> QED
      BY <3>1, <3>2, <3>4, <1>b
  <2>3. ASSUME NEW t \in Turns, RecoverOutbox(t) PROVE turnRow' \in [Turns -> TurnStatus \cup {"none"}]
    <3>1. envelope[t] \in TurnStatus
      BY <2>3, EndFacts DEF Base, Publication, TypeOK, RecoverOutbox
    <3>2. ProjectedRow(turnRow[t], envelope[t]) \in TurnStatus \cup {"none"}
      BY <3>1, <1>b DEF ProjectedRow
    <3> QED
      BY <3>2, <2>3, <1>b DEF RecoverOutbox
  <2>4. CASE DispatchStart
    BY <2>0, <2>4, <1>b, HeadFacts DEF DispatchStart, RejectOp
  <2>5. CASE DispatchEnqueue
    BY <2>0, <2>5, <1>b, HeadFacts DEF DispatchEnqueue
  <2>6. CASE DispatchRemove
    BY <2>0, <2>6, <1>b, HeadFacts DEF DispatchRemove, RejectOp
  <2>7. CASE RemoveQueued
    <3>1. loop \in Items
      BY <2>7, <1>b DEF RemoveQueued, TypeOK
    <3> QED
      BY <2>0, <2>7, <3>1, OpFacts DEF RemoveQueued
  <2>8. CASE Boot
    <3>1. ASSUME NEW t \in Turns PROVE ReplayedRow(t) \in TurnStatus \cup {"none"}
      BY <1>b, TerminalOfTyped, EndFacts DEF ReplayedRow, ProjectedRow, TurnStatus
    <3> QED
      BY <2>8, <3>1 DEF Boot
  <2>9. CASE Failing
    <3>1. PICK o \in Ops : FailsOf(o)
      BY <2>9, FailEffect
    <3>2. turnRow' = turnRow \/ \E k : Emit(k, o)
      BY <3>1 DEF FailsOf
    <3> QED
      BY <3>2, <2>0, <1>b
  <2> QED
    BY <2>1, <2>2, <2>3, <2>4, <2>5, <2>6, <2>7, <2>8, <2>9, <1>1, <1>b, TurnRowFrame, SubmitTakes
<1>4. latest' \in Turns \cup {None}
  BY <1>1, <1>b, LatestFrame, SubmitTakes
<1> QED
  BY <1>2, <1>3, <1>4

\* The facts, envelopes, outbox and tombstones stay typed.
LEMMA TerminalTypes ==
  Base /\ [Next]_vars =>
    /\ facts' \subseteq Turns /\ outbox' \subseteq Turns /\ withdrawn' \subseteq Turns
    /\ envelope' \in [Turns -> Ends \cup {None}]
<1> SUFFICES ASSUME Base, [Next]_vars
             PROVE  /\ facts' \subseteq Turns /\ outbox' \subseteq Turns /\ withdrawn' \subseteq Turns
                    /\ envelope' \in [Turns -> Ends \cup {None}]
  OBVIOUS
<1>b. /\ facts \subseteq Turns /\ outbox \subseteq Turns /\ withdrawn \subseteq Turns
      /\ envelope \in [Turns -> Ends \cup {None}] /\ withdrawing \in Turns \cup {None}
  BY DEF Base, TypeOK
<1> QED
  BY <1>b, TerminalFrame
     DEF OpenTurn, FinishTurn, RecoverOutbox, CommitTerminal, WithdrawEnd

\* The mode, the accepted operations and the claims stay typed.
LEMMA ProcessTypes ==
  Base /\ [Next]_vars =>
    /\ mode' \in {"down", "booting", "up", "closing"}
    /\ accepted' \subseteq Ops
    /\ claims' \subseteq Items
    /\ withdrawing' \in Turns \cup {None}
    /\ faults' \in 0..MaxFaults
<1> SUFFICES ASSUME Base, [Next]_vars
             PROVE  /\ mode' \in {"down", "booting", "up", "closing"}
                    /\ accepted' \subseteq Ops
                    /\ claims' \subseteq Items
                    /\ withdrawing' \in Turns \cup {None}
                    /\ faults' \in 0..MaxFaults
  OBVIOUS
<1>b. /\ mode \in {"down", "booting", "up", "closing"} /\ accepted \subseteq Ops
      /\ claims \subseteq Items /\ faults \in 0..MaxFaults /\ withdrawing \in Turns \cup {None}
  BY DEF Base, TypeOK
<1>1. mode' \in {"down", "booting", "up", "closing"}
  BY <1>b, ModeFrame DEF Boot, RecoverOutbox, Activate, Crash, Close, Exit
<1>2. accepted' \subseteq Ops
  <2>1. CASE Boot
    BY <2>1, OpFacts DEF Boot, St
  <2> QED
    BY <2>1, <1>b, AcceptedFrame, SubmitTakes
       DEF Takes, Accept, RejectTurn, RejectOp, FinishTurn, RecoverOutbox, DispatchStart,
           DispatchEnqueue, DispatchRemove, RemoveQueued, Crash, Exit, Volatile, operations
<1>3. claims' \subseteq Items
  <2>1. ASSUME NEW p \in Drainers, DrainClaim(p) PROVE claims' \subseteq Items
    BY <2>1, <1>b DEF DrainClaim, Base, DrainItems
  <2> QED
    BY <2>1, <1>b, ClaimsFrame, FailEffect
       DEF RejectTurn, RejectOp, Unclaimed, AnnounceTurn, DrainUnclaim, DispatchStart, DispatchRemove, Boot,
           RecoverOutbox, Crash, Exit, Volatile
<1>4. withdrawing' \in Turns \cup {None}
  BY <1>b, WithdrawFrame DEF Withdraw, WithdrawEnd, RecoverOutbox, Crash, Exit, Volatile
<1>5. faults' \in 0..MaxFaults
  BY <1>b, FaultFrame, FailEffect, OperationConstants DEF PublishFails, Withdraw, Crash, Close, Fault
<1> QED
  BY <1>1, <1>2, <1>3, <1>4, <1>5

\* The channel stays within its capacity, and a checked removal stays at its head.
LEMMA ChannelTypes ==
  Base /\ [Next]_vars =>
    /\ channel' \in Seq(Ops) /\ Len(channel') <= Buffer
    /\ loop' \in Items \cup {None}
    /\ LoopOk'
<1> SUFFICES ASSUME Base, [Next]_vars
             PROVE  /\ channel' \in Seq(Ops) /\ Len(channel') <= Buffer
                    /\ loop' \in Items \cup {None}
                    /\ LoopOk'
  OBVIOUS
<1>b. /\ TypeOK /\ LoopOk /\ channel \in Seq(Ops) /\ Len(channel) <= Buffer /\ Len(channel) \in Nat
      /\ loop \in Items \cup {None} /\ Buffer \in Nat /\ Buffer >= 1
  BY OperationConstants DEF Base, TypeOK
<1>0. CASE UNCHANGED <<channel, loop>>
  BY <1>0, <1>b DEF LoopOk
<1>1. ASSUME NEW o \in Ops, Takes(o)
      PROVE  channel' \in Seq(Ops) /\ Len(channel') <= Buffer /\ loop' \in Items \cup {None} /\ LoopOk'
  <2>1. channel' = Append(channel, o) /\ loop' = loop /\ Len(channel) # Buffer
    BY <1>1 DEF Takes, Accept, Refused
  <2> QED
    BY <2>1, <1>b, AppendTyped DEF LoopOk
<1>2. CASE DispatchStart \/ DispatchEnqueue
  <2>1. channel # <<>> /\ channel' = Tail(channel) /\ loop' = None /\ loop = None
    BY <1>2, HeadFacts DEF DispatchStart, DispatchEnqueue
  <2> QED
    BY <2>1, <1>b, TailTyped DEF LoopOk
<1>3. CASE DispatchRemove
  <2>1. channel # <<>> /\ loop = None /\ Head(channel).of \in Items
        /\ Head(channel) = Op("remove", Head(channel).of)
    BY <1>3, HeadFacts DEF DispatchRemove
  <2>2. \/ loop' = Head(channel).of /\ channel' = channel
        \/ loop' = loop /\ channel' = Tail(channel)
    BY <1>3 DEF DispatchRemove, operations
  <2> QED
    BY <2>1, <2>2, <1>b, TailTyped DEF LoopOk
<1>4. CASE RemoveQueued
  <2>1. channel # <<>> /\ channel' = Tail(channel) /\ loop' = None
    BY <1>4, <1>b DEF RemoveQueued, LoopOk
  <2> QED
    BY <2>1, <1>b, TailTyped DEF LoopOk
<1>5. CASE Activate
  <2>1. channel = <<>> /\ loop = None /\ loop' = None
    BY <1>5 DEF Base, Quiet, Activate
  <2>2. channel' = channel \/ \E o \in Ops : channel' = Append(channel, o)
    BY <1>5 DEF Activate, Base, TypeOK
  <2>3. Len(channel) = 0
    BY <2>1
  <2>4. channel' \in Seq(Ops) /\ Len(channel') <= Buffer
    <3>1. CASE channel' = channel
      BY <3>1, <1>b
    <3>2. ASSUME NEW o \in Ops, channel' = Append(channel, o) PROVE channel' \in Seq(Ops) /\ Len(channel') <= Buffer
      <4>1. channel' \in Seq(Ops) /\ Len(channel') = Len(channel) + 1
        BY <3>2, <1>b, AppendTyped
      <4> QED
        BY <4>1, <2>3, <1>b
    <3> QED
      BY <3>1, <3>2, <2>2
  <2> QED
    BY <2>1, <2>4 DEF LoopOk
<1>6. ASSUME Volatile PROVE channel' \in Seq(Ops) /\ Len(channel') <= Buffer /\ loop' \in Items \cup {None} /\ LoopOk'
  BY <1>6, <1>b DEF Volatile, LoopOk
<1>7. ASSUME NEW t \in Turns, RecoverOutbox(t) PROVE UNCHANGED <<channel, loop>> \/ Volatile
  BY <1>7 DEF RecoverOutbox, operations
<1>8. Crash \/ Exit => Volatile
  BY DEF Crash, Exit
<1>9. CASE Failing
  <2>1. PICK o \in Ops : FailsOf(o)
    BY <1>9, FailEffect
  <2>2. CASE channel # <<>> /\ channel' = Tail(channel) /\ loop' = None
    BY <2>2, <1>b, TailTyped DEF LoopOk
  <2> QED
    BY <2>1, <2>2, <1>0 DEF FailsOf
<1> QED
  BY <1>0, <1>1, <1>2, <1>3, <1>4, <1>5, <1>6, <1>7, <1>8, <1>9, ChannelFrame, SubmitTakes

\* The workers stay typed, and a process that is not up has none.
LEMMA WorkerTypes ==
  Base /\ [Next]_vars => worker' \in [Turns -> WorkerSteps] /\ Quiet'
<1> SUFFICES ASSUME Base, [Next]_vars PROVE worker' \in [Turns -> WorkerSteps] /\ Quiet'
  OBVIOUS
<1>b. worker \in [Turns -> WorkerSteps] /\ Quiet /\ TypeOK
  BY DEF Base, TypeOK
<1>1. worker' \in [Turns -> WorkerSteps]
  <2>1. CASE DispatchStart
    <3>1. worker' = worker \/ worker' = [worker EXCEPT ![Head(channel).of] = "opening"]
      BY <2>1 DEF DispatchStart
    <3> QED
      BY <3>1, <1>b DEF WorkerSteps, Holding
  <2>2. CASE Failing
    <3>1. PICK o \in Ops : FailsOf(o)
      BY <2>2, FailEffect
    <3>2. worker' = worker \/ worker' = [worker EXCEPT ![o.of] = "lost"]
      BY <3>1 DEF FailsOf
    <3> QED
      BY <3>2, <1>b DEF WorkerSteps
  <2> QED
    BY <2>1, <2>2, <1>b, WorkerFrame
       DEF OpenTurn, AnnounceTurn, CommitTerminal, Release, RejectTurn, PublishTerminal, PublishFails,
           ProjectTerminal, FinishTurn, RecoverOutbox, Crash, Exit, WorkerTo, Volatile,
           WorkerSteps, Holding
<1>2. Quiet'
  <2>1. ASSUME Volatile PROVE Quiet'
    BY <2>1 DEF Volatile, Quiet
  <2>2. ASSUME NEW t \in Turns, RecoverOutbox(t) PROVE Quiet'
    <3>1. Volatile \/ UNCHANGED <<mode, channel, loop, worker, withdrawing>>
      BY <2>2 DEF RecoverOutbox, operations
    <3> QED
      BY <3>1, <2>1, <1>b DEF Quiet
  <2>3. Crash \/ Exit => Volatile
    BY DEF Crash, Exit
  <2>4. CASE Boot
    BY <2>4, <1>b DEF Boot, Quiet
  <2>5. CASE Activate \/ Close
    BY <2>5 DEF Activate, Close, Quiet
  <2>6. CASE UNCHANGED mode
    <3>1. ASSUME mode \in {"down", "booting"}, ~(\E t \in Turns : RecoverOutbox(t)), ~Crash, ~Exit, ~Activate
          PROVE  UNCHANGED <<channel, loop, worker, withdrawing>>
      <4>1. channel = <<>> /\ loop = None /\ withdrawing = None /\ \A t \in Turns : worker[t] = "none"
        BY <3>1, <1>b DEF Quiet
      <4>0. ~Failing
        BY <3>1, FailEffect
      <4>2. UNCHANGED worker
        <5>1. ASSUME NEW t \in Turns PROVE worker[t] = "none"
          BY <4>1
        <5> QED
          BY <5>1, <3>1, <4>0, WorkerFrame, HeadFacts
             DEF OpenTurn, AnnounceTurn, CommitTerminal, Release, RejectTurn, PublishTerminal,
                 PublishFails, ProjectTerminal, FinishTurn, DispatchStart
      <4>3. \A o \in Ops : ~Takes(o)
        BY <3>1 DEF Takes, Refused
      <4>4. UNCHANGED <<channel, loop>>
        BY <4>0, <4>1, <4>3, <3>1, ChannelFrame, SubmitTakes, HeadFacts
           DEF DispatchStart, DispatchEnqueue, DispatchRemove, RemoveQueued
      <4>5. UNCHANGED withdrawing
        BY <4>1, <3>1, WithdrawFrame DEF Withdraw, Ready, WithdrawEnd
      <4> QED
        BY <4>2, <4>4, <4>5
    <3>2. CASE mode \notin {"down", "booting"}
      BY <2>6, <3>2 DEF Quiet
    <3>3. CASE mode \in {"down", "booting"} /\ ~(\E t \in Turns : RecoverOutbox(t)) /\ ~Crash /\ ~Exit /\ ~Activate
      <4>1. UNCHANGED <<channel, loop, worker, withdrawing, mode>>
        BY <3>1, <3>3, <2>6
      <4> QED
        BY <4>1, <1>b DEF Quiet
    <3> QED
      BY <3>2, <3>3, <2>1, <2>2, <2>3, <2>5
  <2> QED
    BY <2>1, <2>2, <2>3, <2>4, <2>5, <2>6, ModeFrame
<1> QED
  BY <1>1, <1>2

\* The drains stay typed and hold their items.
LEMMA DrainTypes ==
  Base /\ [Next]_vars =>
    /\ drain' \in [Drainers -> [step : {"none", "pick", "claim", "submit", "unclaim"}, item : Items \cup {None}]]
    /\ DrainItems'
<1> DEFINE D == [step : {"none", "pick", "claim", "submit", "unclaim"}, item : Items \cup {None}]
<1> SUFFICES ASSUME Base, [Next]_vars PROVE drain' \in [Drainers -> D] /\ DrainItems'
  OBVIOUS
<1>b. drain \in [Drainers -> D] /\ DrainItems
  BY DEF Base, TypeOK
<1>1. ASSUME NEW p \in Drainers, NEW k \in {"none", "pick", "claim", "submit", "unclaim"},
             NEW i \in Items \cup {None}, k \in {"claim", "submit", "unclaim"} => i \in Items,
             DrainTo(p, k, i)
      PROVE  drain' \in [Drainers -> D] /\ DrainItems'
  <2>1. drain' = [drain EXCEPT ![p] = [step |-> k, item |-> i]]
    BY <1>1 DEF DrainTo
  <2>2. [step |-> k, item |-> i] \in D
    OBVIOUS
  <2>3. drain' \in [Drainers -> D]
    BY <2>1, <2>2, <1>b
  <2>4. DrainItems'
    BY <2>1, <1>1, <1>b DEF DrainItems
  <2> QED
    BY <2>3, <2>4
<1>2. "loop" \in Drainers /\ "boot" \in Drainers /\ \A t \in Turns : t \in Drainers
  BY DEF Drainers
<1>3. ASSUME NEW p \in Drainers, DrainPick(p) \/ DrainClaim(p) \/ DrainSubmit(p) \/ DrainUnclaim(p)
      PROVE  drain' \in [Drainers -> D] /\ DrainItems'
  <2>1. CASE DrainPick(p)
    <3>1. DrainTo(p, "none", None) \/ \E i \in Items : DrainTo(p, "claim", i)
      BY <2>1 DEF DrainPick
    <3> QED
      BY <3>1, <1>1
  <2>2. CASE DrainClaim(p)
    <3>1. DrainTo(p, "submit", drain[p].item) /\ drain[p].item \in Items
      BY <2>2, <1>b DEF DrainClaim, DrainItems
    <3> QED
      BY <3>1, <1>1
  <2>3. CASE DrainSubmit(p)
    <3>1. drain[p].item \in Items
      BY <2>3, <1>b DEF DrainSubmit, DrainItems
    <3>2. DrainTo(p, "unclaim", drain[p].item) \/ DrainTo(p, "none", None)
      BY <2>3 DEF DrainSubmit
    <3> QED
      BY <3>1, <3>2, <1>1
  <2>4. CASE DrainUnclaim(p)
    BY <2>4, <1>1 DEF DrainUnclaim
  <2> QED
    BY <2>1, <2>2, <2>3, <2>4, <1>3
<1>4. ASSUME NEW t \in Turns, FinishTurn(t) PROVE drain' \in [Drainers -> D] /\ DrainItems'
  BY <1>4, <1>1, <1>2 DEF FinishTurn
<1>5. CASE DispatchEnqueue \/ Activate
  BY <1>5, <1>1, <1>2 DEF DispatchEnqueue, Activate
<1>6. ASSUME Volatile PROVE drain' \in [Drainers -> D] /\ DrainItems'
  BY <1>6 DEF Volatile, NoDrain, DrainItems
<1>7. ASSUME NEW t \in Turns, RecoverOutbox(t) PROVE UNCHANGED drain \/ Volatile
  BY <1>7 DEF RecoverOutbox
<1>8. Crash \/ Exit => Volatile
  BY DEF Crash, Exit
<1>9. CASE UNCHANGED drain
  BY <1>9, <1>b DEF DrainItems
<1>10. CASE Failing
  <2>1. drain' = drain \/ DrainTo("loop", "pick", None)
    BY <1>10, FailEffect
  <2> QED
    BY <2>1, <1>1, <1>2, <1>9
<1> HIDE DEF D
<1> QED
  BY <1>3, <1>4, <1>5, <1>6, <1>7, <1>8, <1>9, <1>10, DrainFrame

\* The log tells no less after a step: ends, rejections and events stay.
LEMMA LogGrows ==
  ASSUME Base, [Next]_vars
  PROVE  /\ \A t \in Turns : \A k : Logged(k, t) => Logged(k, t)'
         /\ \A o \in Ops : Rejected(o) => Rejected(o)'
         /\ \A t \in Turns : t \in Terminals => t \in Terminals'
         /\ \A t \in Turns : Told(t) => Told(t)'
<1>1. log \in [Turns -> Seq(Events)]
  BY DEF Base, TypeOK
<1>2. log' = log \/ \E k \in EventKinds \cup Ends, o \in Ops : Log(k, o)
  <2>1. \A t \in Turns : PublishTerminal(t) \/ RecoverOutbox(t) =>
            log' = log \/ (envelope[t] \in Ends /\ Log(envelope[t], Op("start", t)))
    BY DEF Base, Publication, TypeOK, PublishTerminal, RecoverOutbox, events
  <2>2. \A t \in Turns : AnnounceTurn(t) => Log("started", Op("start", t))
    BY DEF AnnounceTurn, Emit
  <2>3. \A t \in Turns : RejectTurn(t) => Log("rejected", Op("start", t))
    BY DEF RejectTurn, RejectOp, Emit
  <2>4. DispatchStart => (log' = log \/ Log("rejected", Head(channel))) /\ Head(channel) \in Ops
    BY HeadFacts DEF DispatchStart, RejectOp, Emit, events
  <2>5. DispatchRemove => (log' = log \/ Log("rejected", Head(channel))) /\ Head(channel) \in Ops
    BY HeadFacts DEF DispatchRemove, RejectOp, Emit, events
  <2>6. DispatchEnqueue => Log("queued", Head(channel)) /\ Head(channel) \in Ops
    BY HeadFacts DEF DispatchEnqueue, Emit
  <2>7. RemoveQueued => Log("removed", Op("remove", loop)) /\ loop \in Items
    BY DEF RemoveQueued, Emit, Base, TypeOK
  <2>8. Crash => log' = log \/ \E k \in EventKinds \cup Ends, o \in Ops : Log(k, o)
    BY InFlightTyped DEF Crash, events
  <2>9. {"started", "rejected", "queued", "removed"} \subseteq EventKinds
    BY DEF EventKinds
  <2>10. Failing => log' = log \/ \E k \in EventKinds \cup Ends, o \in Ops : Log(k, o)
    BY <2>9, FailEffect DEF FailsOf
  <2> QED
    BY <2>1, <2>2, <2>3, <2>4, <2>5, <2>6, <2>7, <2>8, <2>9, <2>10, LogFrame, OpFacts DEF St
<1>3. CASE log' = log
  BY <1>3, SameLog
<1>4. ASSUME NEW k \in EventKinds \cup Ends, NEW o \in Ops, Log(k, o)
      PROVE  /\ \A t \in Turns : \A j : Logged(j, t) => Logged(j, t)'
             /\ \A p \in Ops : Rejected(p) => Rejected(p)'
             /\ \A t \in Turns : t \in Terminals => t \in Terminals'
             /\ \A t \in Turns : Told(t) => Told(t)'
  BY <1>1, <1>4, LogEffect, ToldEffect
<1> QED
  BY <1>2, <1>3, <1>4

\* What is published stays an envelope, what is projected stays in the log.
LEMMA PublicationStep == Base /\ [Next]_vars => Publication'
<1> SUFFICES ASSUME Base, [Next]_vars, NEW t \in Turns
             PROVE  /\ worker'[t] \in {"committed", "publish", "project", "mark"} => envelope'[t] # None
                    /\ worker'[t] \in {"project", "mark"} => t \in Terminals'
                    /\ t \in outbox' => envelope'[t] # None
  BY DEF Publication
<1>b. /\ worker[t] \in {"committed", "publish", "project", "mark"} => envelope[t] # None
      /\ worker[t] \in {"project", "mark"} => t \in Terminals
      /\ t \in outbox => envelope[t] # None
      /\ worker \in [Turns -> WorkerSteps] /\ envelope \in [Turns -> Ends \cup {None}]
  BY DEF Base, Publication, TypeOK
<1>1. t \in Terminals => t \in Terminals'
  BY LogGrows
<1>2. envelope[t] # None => envelope'[t] # None
  BY <1>b, EnvelopeFrame, EndFacts DEF CommitTerminal
<1>3. t \in outbox' => t \in outbox \/ envelope'[t] # None
  BY <1>b, OutboxFrame, EndFacts DEF CommitTerminal, FinishTurn, RecoverOutbox
<1>4. \/ worker'[t] = worker[t]
      \/ worker'[t] \in {"none", "opening", "opened", "running", "reject", "lost"}
      \/ worker'[t] = "committed" /\ envelope'[t] # None
      \/ worker'[t] = "publish" /\ worker[t] = "committed"
      \/ worker'[t] = "project" /\ worker[t] = "publish" /\ t \in Terminals'
      \/ worker'[t] = "mark" /\ worker[t] = "project"
  <2>1. ASSUME NEW u \in Turns, PublishTerminal(u), u = t
        PROVE  worker'[t] = "project" /\ worker[t] = "publish" /\ t \in Terminals'
    <3>1. worker'[t] = "project" /\ worker[t] = "publish"
      BY <2>1, <1>b DEF PublishTerminal, WorkerTo
    <3>2. envelope[t] \in Ends /\ St(t) \in Ops /\ St(t).of = t
      BY <1>b, <3>1, OpFacts
    <3>3. t \in Terminals \/ Log(envelope[t], St(t))
      BY <2>1 DEF PublishTerminal, St
    <3>4. log \in [Turns -> Seq(Events)]
      BY DEF Base, TypeOK
    <3>5. t \in Terminals'
      BY <3>2, <3>3, <3>4, <1>1, ToldEffect
    <3> QED
      BY <3>1, <3>5
  <2>2. ASSUME NEW u \in Turns, PublishTerminal(u), u # t PROVE worker'[t] = worker[t]
    BY <2>2, <1>b DEF PublishTerminal, WorkerTo
  <2>3. ASSUME NEW u \in Turns, NEW e \in Ends, CommitTerminal(u, e)
        PROVE  worker'[t] = worker[t] \/ (worker'[t] = "committed" /\ envelope'[t] # None)
    BY <2>3, <1>b, EndFacts DEF CommitTerminal, WorkerTo
  <2>4. ASSUME NEW u \in Turns, OpenTurn(u) \/ AnnounceTurn(u) \/ RejectTurn(u) \/ PublishFails(u) \/ FinishTurn(u)
        PROVE  worker'[t] = worker[t] \/ worker'[t] \in {"none", "opening", "opened", "running", "reject"}
    BY <2>4, <1>b DEF OpenTurn, AnnounceTurn, RejectTurn, PublishFails, FinishTurn, WorkerTo
  <2>5. ASSUME NEW u \in Turns, Release(u)
        PROVE  \/ worker'[t] = worker[t] \/ worker'[t] = "reject"
               \/ worker'[t] = "publish" /\ worker[t] = "committed"
    BY <2>5, <1>b DEF Release, WorkerTo
  <2>6. ASSUME NEW u \in Turns, ProjectTerminal(u)
        PROVE  \/ worker'[t] = worker[t] \/ worker'[t] = "reject"
               \/ worker'[t] = "mark" /\ worker[t] = "project"
    BY <2>6, <1>b DEF ProjectTerminal, WorkerTo
  <2>7. DispatchStart => worker'[t] = worker[t] \/ worker'[t] = "opening"
    BY <1>b DEF DispatchStart
  <2>8. (\E u \in Turns : RecoverOutbox(u)) \/ Crash \/ Exit => worker'[t] = worker[t] \/ worker'[t] = "none"
    BY DEF RecoverOutbox, Crash, Exit, Volatile
  <2>9. Failing => worker'[t] = worker[t] \/ worker'[t] = "lost"
    BY <1>b, FailEffect DEF FailsOf
  <2> QED
    BY <2>1, <2>2, <2>3, <2>4, <2>5, <2>6, <2>7, <2>8, <2>9, WorkerFrame
<1> QED
  BY <1>b, <1>1, <1>2, <1>3, <1>4

\* The types and what they need are kept by every step.
LEMMA BaseStep == Base /\ [Next]_vars => Base'
<1> SUFFICES ASSUME Base, [Next]_vars PROVE Base'
  OBVIOUS
<1>1. TypeOK'
  BY LogTypes, RowTypes, TerminalTypes, ProcessTypes, ChannelTypes, WorkerTypes, DrainTypes DEF TypeOK
<1> QED
  BY <1>1, ChannelTypes, WorkerTypes, DrainTypes, PublicationStep DEF Base

\* They hold at first.
LEMMA BaseInit == Init => Base
<1> SUFFICES ASSUME Init PROVE Base
  OBVIOUS
<1>1. TypeOK
  BY OperationConstants
     DEF Init, TypeOK, WorkerSteps, Holding, NoDrain, Drainers, TurnStatus
<1>2. DrainItems /\ Quiet /\ LoopOk
  BY DEF Init, DrainItems, Quiet, LoopOk, NoDrain
<1>3. Publication
  BY DEF Init, Publication
<1> QED
  BY <1>1, <1>2, <1>3 DEF Base

-----------------------------------------------------------------------------
(* The inductive invariant.                                                *)

InChannel(o) == \E n \in 1..Len(channel) : channel[n] = o

\* An envelope is stored together with the commit of its start.
Enveloped == \A t \in Turns : envelope[t] # None => opRow[St(t)] = "committed"

\* What is in the channel is accepted and not committed, and is there once.
ChannelOk ==
  /\ \A n \in 1..Len(channel) : opRow[channel[n]] = "accepted"
  /\ \A m, n \in 1..Len(channel) : channel[m] = channel[n] => m = n

\* What a worker knows of its turn: the start it runs is accepted and was taken from the
\* channel; a terminal it has projected has ended the row.
WorkerKnows ==
  \A t \in Turns :
    /\ worker[t] \in {"opening", "opened", "running"} => opRow[St(t)] = "accepted"
    /\ worker[t] \in {"reject", "lost"} => opRow[St(t)] # "none"
    /\ worker[t] = "mark" => turnRow[t] # "active"
    /\ worker[t] # "none" => ~InChannel(St(t))

\* What is in the channel or has a worker, a lost one included, is among the accepted
\* operations of the process.
Held == \A t \in Turns : worker[t] # "none" \/ InChannel(St(t)) => St(t) \in accepted

\* A row ends only when the log tells the end, and the log tells only of accepted turns.
RowKnown ==
  \A t \in Turns : /\ opRow[St(t)] # "none" /\ turnRow[t] # "active" => Told(t)
                   /\ Told(t) => opRow[St(t)] # "none"

\* While a process runs, the start of a turn the log tells of is committed, unless the
\* commit of its rejection has failed.
CommittedTold ==
  mode # "down" => \A t \in Turns : Told(t) => opRow[St(t)] = "committed" \/ worker[t] = "lost"

\* A process that recovers has ended the rows of the turns the log tells of.
BootRows == mode = "booting" => \A t \in Turns : Told(t) => turnRow[t] # "active"

\* A process that recovers restores only operations that are not committed.
BootAccepted == mode = "booting" => \A o \in accepted : opRow[o] = "accepted"

\* A start that is no longer among the accepted operations of a process has been told.
SettledOut ==
  mode # "down" =>
    \A t \in Turns : opRow[St(t)] # "none" /\ St(t) \notin accepted =>
      Told(t) \/ (mode = "booting" /\ t \in outbox)

\* The latest turn and the turn a withdrawal waits for have been accepted.
LatestOk == /\ latest # None => opRow[St(latest)] # "none"
            /\ withdrawing # None => opRow[St(withdrawing)] # "none"

\* While the runtime is up, the row of a turn that is told and has no worker is not active.
RowsUp == mode = "up" => \A t \in Turns : worker[t] = "none" /\ Told(t) => turnRow[t] # "active"

OpInv ==
  /\ Base /\ Enveloped /\ ChannelOk /\ WorkerKnows /\ Held /\ RowKnown /\ CommittedTold
  /\ BootRows /\ BootAccepted /\ SettledOut /\ LatestOk /\ RowsUp
  /\ OneTerminal /\ NothingForgotten /\ WithdrawSettled

-----------------------------------------------------------------------------
(* What the steps change.                                                  *)

Commits(o) == opRow' = [opRow EXCEPT ![o] = "committed"]

\* How the rows of operations change.
LEMMA OpRowMoves ==
  ASSUME Base, [Next]_vars
  PROVE  \/ opRow' = opRow
         \/ \E o \in Ops : Takes(o)
         \/ \E t \in Turns : Commits(St(t)) /\ RejectTurn(t)
         \/ \E t \in Turns, e \in Ends : Commits(St(t)) /\ CommitTerminal(t, e)
         \/ /\ channel # <<>> /\ Head(channel) \in Ops /\ Commits(Head(channel)) /\ channel' = Tail(channel)
            /\ \/ Head(channel) \in StartOps /\ DispatchStart /\ RejectOp(Head(channel)) /\ UNCHANGED worker
               \/ DispatchEnqueue /\ Emit("queued", Head(channel)) /\ Head(channel).kind = "enqueue"
               \/ DispatchRemove /\ RejectOp(Head(channel)) /\ Head(channel).kind = "remove"
               \/ RemoveQueued /\ Emit("removed", Head(channel)) /\ Head(channel).kind = "remove"
         \/ Boot
<1>1. DispatchStart =>
        \/ opRow' = opRow
        \/ /\ channel # <<>> /\ Head(channel) \in Ops /\ Commits(Head(channel)) /\ channel' = Tail(channel)
           /\ Head(channel) \in StartOps /\ DispatchStart /\ RejectOp(Head(channel)) /\ UNCHANGED worker
  BY HeadFacts DEF DispatchStart, Commits, RejectOp, StartOps
<1>2. DispatchEnqueue =>
        /\ channel # <<>> /\ Head(channel) \in Ops /\ Commits(Head(channel)) /\ channel' = Tail(channel)
        /\ Emit("queued", Head(channel)) /\ Head(channel).kind = "enqueue"
  BY HeadFacts DEF DispatchEnqueue, Commits
<1>3. DispatchRemove =>
        \/ opRow' = opRow
        \/ /\ channel # <<>> /\ Head(channel) \in Ops /\ Commits(Head(channel)) /\ channel' = Tail(channel)
           /\ RejectOp(Head(channel)) /\ Head(channel).kind = "remove"
  BY HeadFacts DEF DispatchRemove, Commits, RejectOp
<1>4. RemoveQueued =>
        \/ opRow' = opRow
        \/ /\ channel # <<>> /\ Head(channel) \in Ops /\ Commits(Head(channel)) /\ channel' = Tail(channel)
           /\ Emit("removed", Head(channel)) /\ Head(channel).kind = "remove"
  <2>1. RemoveQueued => channel # <<>> /\ Head(channel) = Op("remove", loop) /\ loop \in Items
    BY DEF Base, LoopOk, RemoveQueued, TypeOK
  <2> QED
    BY <2>1, OpFacts DEF RemoveQueued, Commits
<1>5. \A t \in Turns : RejectTurn(t) => Commits(St(t))
  BY DEF RejectTurn, RejectOp, Commits, St
<1>6. \A t \in Turns, e \in Ends : CommitTerminal(t, e) => Commits(St(t))
  BY DEF CommitTerminal, Commits, St
<1> QED
  BY <1>1, <1>2, <1>3, <1>4, <1>5, <1>6, OpRowFrame, SubmitTakes

\* An accepted operation stays accepted or is committed, a committed one stays committed.
LEMMA OpRowGrows ==
  ASSUME Base, [Next]_vars, NEW o \in Ops
  PROVE  /\ opRow[o] = "committed" => opRow'[o] = "committed"
         /\ opRow[o] # "none" => opRow'[o] # "none"
<1>1. opRow \in [Ops -> {"none", "accepted", "committed"}]
  BY DEF Base, TypeOK
<1>2. ASSUME NEW p \in Ops, Takes(p) PROVE opRow[p] = "none" /\ opRow' = [opRow EXCEPT ![p] = "accepted"]
  BY <1>2 DEF Takes, Accept
<1>3. \A t \in Turns : St(t) \in Ops
  BY OpFacts
<1>4. Boot => opRow' = [p \in Ops |-> IF opRow[p] = "accepted" /\ Confirms(p) THEN "committed" ELSE opRow[p]]
  BY DEF Boot
<1> QED
  BY <1>1, <1>2, <1>3, <1>4, OpRowMoves DEF Commits

\* How the row of one operation changes, given the invariant.
LEMMA OpRowChange ==
  ASSUME OpInv, [Next]_vars, NEW o \in Ops, opRow'[o] # opRow[o]
  PROVE  \/ Takes(o) /\ opRow[o] = "none" /\ opRow'[o] = "accepted"
         \/ /\ opRow[o] # "none" /\ opRow'[o] = "committed"
            /\ \/ \E t \in Turns : o = St(t) /\ RejectTurn(t)
               \/ \E t \in Turns, e \in Ends : o = St(t) /\ CommitTerminal(t, e)
               \/ /\ channel # <<>> /\ o = Head(channel) /\ channel' = Tail(channel)
                  /\ \/ o \in StartOps /\ DispatchStart /\ RejectOp(o) /\ UNCHANGED worker
                     \/ DispatchEnqueue /\ Emit("queued", o) /\ o.kind = "enqueue"
                     \/ DispatchRemove /\ RejectOp(o) /\ o.kind = "remove"
                     \/ RemoveQueued /\ Emit("removed", o) /\ o.kind = "remove"
               \/ Boot /\ Confirms(o)
<1>1. Base /\ opRow \in [Ops -> {"none", "accepted", "committed"}]
  BY DEF OpInv, Base, TypeOK
<1>2. ASSUME NEW p \in Ops, Takes(p) PROVE opRow[p] = "none" /\ opRow' = [opRow EXCEPT ![p] = "accepted"]
  BY <1>2 DEF Takes, Accept
<1>3. ASSUME NEW p \in Ops, Commits(p) PROVE o = p /\ opRow'[o] = "committed"
  BY <1>1, <1>3 DEF Commits
<1>4. ASSUME NEW t \in Turns, RejectTurn(t) PROVE opRow[St(t)] # "none"
  BY <1>4 DEF OpInv, WorkerKnows, RejectTurn
<1>5. ASSUME NEW t \in Turns, NEW e \in Ends, CommitTerminal(t, e) PROVE opRow[St(t)] # "none"
  BY <1>5 DEF OpInv, WorkerKnows, CommitTerminal
<1>6. channel # <<>> => opRow[Head(channel)] # "none"
  BY <1>1, TailTyped DEF OpInv, ChannelOk, Base
<1>7. Boot => opRow'[o] = "committed" /\ Confirms(o) /\ opRow[o] # "none"
  BY <1>1 DEF Boot
<1>8. \A t \in Turns : St(t) \in Ops
  BY OpFacts
<1> QED
  BY <1>1, <1>2, <1>3, <1>4, <1>5, <1>6, <1>7, <1>8, OpRowMoves

\* A failing write of a start is that of its worker or of the loop that dispatches it.
LEMMA FailWho ==
  ASSUME NEW t \in Turns, FailsOf(St(t))
  PROVE  \/ worker[t] = "reject" /\ channel' = channel
         \/ channel # <<>> /\ channel' = Tail(channel) /\ St(t) = Head(channel)
<1>1. \A u \in Turns : St(u) = St(t) => u = t
  BY OpFacts
<1> QED
  BY <1>1 DEF FailsOf

\* How a turn comes to be told.
LEMMA ToldMoves ==
  ASSUME Base, [Next]_vars, NEW t \in Turns, Told(t)', ~Told(t)
  PROVE  \/ DispatchStart /\ Head(channel) = St(t) /\ RejectOp(St(t)) /\ Commits(St(t)) /\ UNCHANGED worker
         \/ RejectTurn(t) /\ Commits(St(t))
         \/ PublishTerminal(t)
         \/ RecoverOutbox(t)
         \/ Failing /\ FailsOf(St(t))
         \/ Crash /\ (worker[t] = "reject" \/ (mode = "booting" /\ t \in outbox))
<1>0. log \in [Turns -> Seq(Events)] /\ log' # log
  BY SameLog DEF Base, TypeOK
<1>1. ASSUME NEW k \in EventKinds, NEW o \in Ops, Log(k, o) PROVE k = "rejected" /\ o = St(t)
  BY <1>0, <1>1, ToldEffect, EndFacts
<1>2. ASSUME NEW k \in Ends, NEW o \in Ops, Log(k, o) PROVE t = o.of
  BY <1>0, <1>2, ToldEffect, EndFacts
<1>3. \A u \in Turns : ~AnnounceTurn(u)
  BY <1>1, OpFacts DEF AnnounceTurn, Emit, EventKinds, St
<1>4. ASSUME NEW u \in Turns, RejectTurn(u) PROVE u = t /\ Commits(St(t))
  <2>1. St(u) = St(t)
    BY <1>1, <1>4, OpFacts DEF RejectTurn, RejectOp, Emit, EventKinds, St
  <2>2. u = t
    BY <2>1, OpFacts
  <2> QED
    BY <2>2, <1>4 DEF RejectTurn, RejectOp, Commits, St
<1>5. ASSUME NEW u \in Turns, PublishTerminal(u) \/ RecoverOutbox(u) PROVE u = t
  <2>1. envelope[u] \in Ends
    BY <1>5 DEF Base, Publication, TypeOK, PublishTerminal, RecoverOutbox
  <2>2. Log(envelope[u], St(u))
    BY <1>0, <1>5 DEF PublishTerminal, RecoverOutbox, events, St
  <2> QED
    BY <2>1, <2>2, <1>2, OpFacts
<1>6. DispatchStart => Head(channel) = St(t) /\ RejectOp(St(t)) /\ Commits(St(t)) /\ UNCHANGED worker
  <2>1. DispatchStart => RejectOp(Head(channel)) /\ UNCHANGED worker /\ Head(channel) \in Ops
    BY <1>0, HeadFacts DEF DispatchStart, events
  <2>2. RejectOp(Head(channel)) => Log("rejected", Head(channel)) /\ Commits(Head(channel))
    BY DEF RejectOp, Emit, Commits
  <2> QED
    BY <2>1, <2>2, <1>1 DEF EventKinds
<1>7. ~DispatchEnqueue /\ ~DispatchRemove /\ ~RemoveQueued
  <2>1. DispatchEnqueue => Log("queued", Head(channel)) /\ Head(channel) \in Ops
    BY HeadFacts DEF DispatchEnqueue, Emit
  <2>2. DispatchRemove => Log("rejected", Head(channel)) /\ Head(channel) \in Ops /\ Head(channel).kind = "remove"
    BY <1>0, HeadFacts DEF DispatchRemove, RejectOp, Emit, events
  <2>3. RemoveQueued => Log("removed", Op("remove", loop)) /\ loop \in Items
    BY DEF RemoveQueued, Emit, Base, TypeOK
  <2> QED
    BY <2>1, <2>2, <2>3, <1>1, OpFacts DEF EventKinds
<1>8. Crash => worker[t] = "reject" \/ (mode = "booting" /\ t \in outbox)
  <2>1. SUFFICES ASSUME Crash PROVE worker[t] = "reject" \/ (mode = "booting" /\ t \in outbox)
    OBVIOUS
  <2>2. PICK x \in InFlight : Log(x[1], x[2])
    BY <1>0, <2>1 DEF Crash, events
  <2>3. CASE \E u \in Turns : x[1] = "rejected" /\ x[2] = St(u) /\ worker[u] = "reject"
    BY <2>2, <2>3, <1>1, OpFacts DEF EventKinds
  <2>4. ~(\E i \in Items : x[1] = "queued" /\ x[2] = Op("enqueue", i))
    BY <2>2, <1>1, OpFacts DEF EventKinds
  <2>5. ~(\E i \in Items : x[1] = "removed" /\ x[2] = Op("remove", i) /\ loop = i)
    BY <2>2, <1>1, OpFacts DEF EventKinds
  <2>6. CASE \E u \in Turns : /\ x[1] = envelope[u] /\ x[2] = St(u) /\ x[1] \in Ends
                              /\ u \in outbox /\ u \notin Terminals /\ mode = "booting"
    BY <2>2, <2>6, <1>2, OpFacts
  <2> QED
    BY <2>3, <2>4, <2>5, <2>6, InFlightTyped
<1>9. Failing => FailsOf(St(t))
  <2>1. SUFFICES ASSUME Failing PROVE FailsOf(St(t))
    OBVIOUS
  <2>2. PICK o \in Ops : FailsOf(o)
    BY <2>1, FailEffect
  <2>3. PICK k \in {"rejected", "queued", "removed"} : Log(k, o)
    BY <2>2, <1>0 DEF FailsOf
  <2>4. o = St(t)
    BY <2>3, <1>1 DEF EventKinds
  <2> QED
    BY <2>2, <2>4
<1> QED
  BY <1>0, <1>3, <1>4, <1>5, <1>6, <1>7, <1>8, <1>9, LogFrame

\* How the row of a turn changes.
LEMMA TurnRowMoves ==
  ASSUME Base, [Next]_vars, NEW t \in Turns, turnRow'[t] # turnRow[t]
  PROVE  \/ Takes(St(t)) /\ turnRow'[t] = "active"
         \/ DispatchStart /\ Head(channel) = St(t) /\ RejectOp(St(t)) /\ turnRow'[t] = "failed"
         \/ RejectTurn(t) /\ turnRow'[t] = "failed"
         \/ Failing /\ FailsOf(St(t)) /\ turnRow'[t] = "failed" /\ Told(t)'
         \/ ProjectTerminal(t) /\ turnRow'[t] \in Ends
         \/ RecoverOutbox(t) /\ turnRow'[t] \in Ends
         \/ Boot /\ turnRow'[t] # "active" /\ Told(t)
<1>b. /\ turnRow \in [Turns -> TurnStatus \cup {"none"}] /\ TypeOK
      /\ log \in [Turns -> Seq(Events)]
  BY DEF Base, TypeOK
<1>1. ASSUME NEW o \in Ops, Takes(o) PROVE o = St(t) /\ turnRow'[t] = "active"
  BY <1>1, <1>b, OpFacts DEF Takes, Accept
<1>2. ASSUME NEW k, NEW o \in Ops, Emit(k, o) PROVE k = "rejected" /\ o = St(t) /\ turnRow'[t] = "failed"
  BY <1>2, <1>b, OpFacts DEF Emit
<1>3. \A u \in Turns : ~AnnounceTurn(u)
  BY <1>2, OpFacts DEF AnnounceTurn, St
<1>4. ASSUME NEW u \in Turns, RejectTurn(u) PROVE u = t /\ turnRow'[t] = "failed"
  <2>1. St(u) = St(t) /\ turnRow'[t] = "failed"
    BY <1>2, <1>4, OpFacts DEF RejectTurn, RejectOp, St
  <2> QED
    BY <2>1, OpFacts
<1>5. ASSUME NEW u \in Turns, ProjectTerminal(u) PROVE u = t /\ turnRow'[t] \in Ends
  <2>1. turnRow' = [turnRow EXCEPT ![u] = ProjectedRow(@, TerminalOf(u))]
    BY <1>5 DEF ProjectTerminal
  <2>2. u \in Terminals
    BY <1>5 DEF Base, Publication, ProjectTerminal
  <2>3. u = t /\ turnRow'[t] = ProjectedRow(turnRow[t], TerminalOf(t))
    BY <2>1, <1>b
  <2>4. turnRow'[t] = TerminalOf(t)
    BY <2>3 DEF ProjectedRow
  <2> QED
    BY <2>2, <2>3, <2>4, TerminalOfTyped
<1>6. ASSUME NEW u \in Turns, RecoverOutbox(u) PROVE u = t /\ turnRow'[t] \in Ends
  <2>1. turnRow' = [turnRow EXCEPT ![u] = ProjectedRow(@, envelope[u])]
    BY <1>6 DEF RecoverOutbox
  <2>2. envelope[u] \in Ends
    BY <1>6 DEF Base, Publication, TypeOK, RecoverOutbox
  <2>3. u = t /\ turnRow'[t] = ProjectedRow(turnRow[t], envelope[t])
    BY <2>1, <1>b
  <2> QED
    BY <2>2, <2>3 DEF ProjectedRow
<1>7. DispatchStart => Head(channel) = St(t) /\ RejectOp(St(t)) /\ turnRow'[t] = "failed"
  <2>1. DispatchStart => RejectOp(Head(channel)) /\ Head(channel) \in Ops
    BY HeadFacts DEF DispatchStart
  <2> QED
    BY <2>1, <1>2 DEF RejectOp
<1>8. ~DispatchEnqueue /\ ~DispatchRemove /\ ~RemoveQueued
  <2>1. DispatchEnqueue => Emit("queued", Head(channel)) /\ Head(channel) \in Ops
    BY HeadFacts DEF DispatchEnqueue
  <2>2. DispatchRemove => Emit("rejected", Head(channel)) /\ Head(channel) \in Ops /\ Head(channel).kind = "remove"
    BY HeadFacts DEF DispatchRemove, RejectOp
  <2>3. RemoveQueued => Emit("removed", Op("remove", loop)) /\ loop \in Items
    BY <1>b DEF RemoveQueued, TypeOK
  <2> QED
    BY <2>1, <2>2, <2>3, <1>2, OpFacts
<1>9. Boot => turnRow'[t] # "active" /\ Told(t)
  <2>1. Boot => turnRow'[t] = ReplayedRow(t)
    BY DEF Boot
  <2>2. t \in Terminals => TerminalOf(t) \in Ends
    BY TerminalOfTyped
  <2>3. ReplayedRow(t) # turnRow[t] => Told(t) /\ ReplayedRow(t) # "active"
    BY <2>2, EndFacts DEF ReplayedRow, ProjectedRow, Told
  <2> QED
    BY <2>1, <2>3
<1>10. Failing => FailsOf(St(t)) /\ turnRow'[t] = "failed" /\ Told(t)'
  <2>1. SUFFICES ASSUME Failing PROVE FailsOf(St(t)) /\ turnRow'[t] = "failed" /\ Told(t)'
    OBVIOUS
  <2>2. PICK o \in Ops : FailsOf(o)
    BY <2>1, FailEffect
  <2>3. PICK k \in {"rejected", "queued", "removed"} : Log(k, o) /\ Emit(k, o)
    BY <2>2 DEF FailsOf
  <2>4. k = "rejected" /\ o = St(t) /\ turnRow'[t] = "failed"
    BY <2>3, <1>2
  <2>5. Told(t)'
    BY <2>3, <2>4, <1>b, ToldEffect DEF EventKinds
  <2> QED
    BY <2>2, <2>4, <2>5
<1> QED
  BY <1>1, <1>3, <1>4, <1>5, <1>6, <1>7, <1>8, <1>9, <1>10, TurnRowFrame, SubmitTakes

-----------------------------------------------------------------------------
(* The channel, the workers and the envelopes.                             *)

\* How the channel changes.
LEMMA ChannelMoves ==
  ASSUME Base, [Next]_vars
  PROVE  \/ channel' = channel
         \/ \E o \in Ops : Takes(o) /\ channel' = Append(channel, o)
         \/ channel # <<>> /\ channel' = Tail(channel) /\ (DispatchStart \/ DispatchEnqueue \/ DispatchRemove \/ RemoveQueued \/ Failing)
         \/ \E o \in accepted : Activate /\ channel = <<>> /\ channel' = Append(channel, o)
         \/ channel' = <<>> /\ Volatile
<1>1. \A o \in Ops : Takes(o) => channel' = Append(channel, o)
  BY DEF Takes, Accept
<1>2. DispatchStart \/ DispatchEnqueue => channel # <<>> /\ channel' = Tail(channel)
  BY HeadFacts DEF DispatchStart, DispatchEnqueue
<1>3. DispatchRemove => channel # <<>> /\ (channel' = Tail(channel) \/ channel' = channel)
  BY HeadFacts DEF DispatchRemove, operations
<1>4. RemoveQueued => channel # <<>> /\ channel' = Tail(channel)
  BY DEF RemoveQueued, Base, LoopOk
<1>5. Activate => channel = <<>> /\ (channel' = channel \/ \E o \in accepted : channel' = Append(channel, o))
  BY DEF Activate, Base, Quiet
<1>6. (\E t \in Turns : RecoverOutbox(t)) \/ Crash \/ Exit => channel' = channel \/ Volatile
  BY DEF RecoverOutbox, Crash, Exit, operations
<1>7. Volatile => channel' = <<>>
  BY DEF Volatile
<1>8. Failing => channel' = channel \/ (channel # <<>> /\ channel' = Tail(channel))
  BY FailEffect DEF FailsOf
<1> QED
  BY <1>1, <1>2, <1>3, <1>4, <1>5, <1>6, <1>7, <1>8, ChannelFrame, SubmitTakes

\* The channel keeps only operations that are accepted, each once.
LEMMA ChannelStep == OpInv /\ [Next]_vars => ChannelOk'
<1> SUFFICES ASSUME OpInv, [Next]_vars PROVE ChannelOk'
  OBVIOUS
<1>b. /\ Base /\ ChannelOk /\ TypeOK /\ channel \in Seq(Ops) /\ Len(channel) \in Nat
      /\ opRow \in [Ops -> {"none", "accepted", "committed"}]
  BY DEF OpInv, Base, TypeOK
<1>1. CASE channel' = channel
  <2>1. ASSUME NEW n \in 1..Len(channel) PROVE opRow'[channel[n]] = "accepted"
    <3> DEFINE o == channel[n]
    <3>1. o \in Ops /\ opRow[o] = "accepted" /\ InChannel(o)
      BY <1>b DEF ChannelOk, InChannel
    <3> HIDE DEF o
    <3>2. ASSUME opRow'[o] # opRow[o] PROVE FALSE
      <4>1. ~Takes(o)
        BY <3>1 DEF Takes
      <4>2. \A t \in Turns : o = St(t) => ~RejectTurn(t)
        BY <3>1 DEF OpInv, WorkerKnows, RejectTurn
      <4>3. \A t \in Turns, e \in Ends : o = St(t) => ~CommitTerminal(t, e)
        BY <3>1 DEF OpInv, WorkerKnows, CommitTerminal
      <4>4. channel # <<>> => channel' # Tail(channel)
        <5>1. channel # <<>> => Len(Tail(channel)) # Len(channel)
          BY <1>b, TailTyped
        <5> QED
          BY <5>1, <1>1
      <4>5. ~Boot
        <5>1. Boot => channel = <<>>
          BY <1>b DEF Boot, Base, Quiet
        <5>2. channel # <<>>
          BY <3>1, <1>b DEF InChannel
        <5> QED
          BY <5>1, <5>2
      <4> QED
        BY <3>1, <3>2, <4>1, <4>2, <4>3, <4>4, <4>5, OpRowChange
    <3> QED
      BY <3>1, <3>2 DEF o
  <2> QED
    BY <2>1, <1>1, <1>b DEF ChannelOk
<1>2. ASSUME NEW o \in Ops, Takes(o), channel' = Append(channel, o) PROVE ChannelOk'
  <2>1. /\ opRow[o] = "none" /\ opRow'[o] = "accepted" /\ \A p \in Ops : p # o => opRow'[p] = opRow[p]
    BY <1>2, <1>b DEF Takes, Accept
  <2>2. \A n \in 1..Len(channel) : channel[n] \in Ops /\ opRow[channel[n]] = "accepted" /\ channel[n] # o
    BY <2>1, <1>b DEF ChannelOk
  <2>3. /\ Len(channel') = Len(channel) + 1
        /\ \A n \in 1..Len(channel) : channel'[n] = channel[n]
        /\ channel'[Len(channel) + 1] = o
    BY <1>2, <1>b, AppendTyped
  <2>4. \A m, n \in 1..Len(channel) : channel[m] = channel[n] => m = n
    BY <1>b DEF ChannelOk
  <2>5. \A n \in 1..Len(channel') : n \in 1..Len(channel) \/ n = Len(channel) + 1
    BY <2>3, <1>b
  <2>6. \A n \in 1..Len(channel') : opRow'[channel'[n]] = "accepted"
    BY <2>1, <2>2, <2>3, <2>5
  <2>7. ASSUME NEW m \in 1..Len(channel'), NEW n \in 1..Len(channel'), channel'[m] = channel'[n] PROVE m = n
    BY <2>2, <2>3, <2>4, <2>5, <2>7
  <2> QED
    BY <2>6, <2>7 DEF ChannelOk
<1>3. CASE channel # <<>> /\ channel' = Tail(channel) /\ (DispatchStart \/ DispatchEnqueue \/ DispatchRemove \/ RemoveQueued \/ Failing)
  <2>1. /\ Len(channel') = Len(channel) - 1 /\ Head(channel) = channel[1] /\ 1 \in 1..Len(channel)
        /\ \A n \in 1..Len(channel') : channel'[n] = channel[n + 1]
    BY <1>3, <1>b, TailTyped
  <2>2. \A n \in 1..Len(channel') : n + 1 \in 1..Len(channel) /\ n + 1 # 1
    BY <2>1, <1>b
  <2>3. \A p \in Ops : p # Head(channel) => opRow'[p] = opRow[p]
    <3>1. \/ opRow' = opRow \/ opRow' = [opRow EXCEPT ![Head(channel)] = "committed"]
      <4>1. DispatchStart \/ DispatchEnqueue \/ DispatchRemove => opRow' = opRow \/ opRow' = [opRow EXCEPT ![Head(channel)] = "committed"]
        BY DEF DispatchStart, DispatchEnqueue, DispatchRemove, RejectOp
      <4>2. RemoveQueued => opRow' = opRow \/ opRow' = [opRow EXCEPT ![Head(channel)] = "committed"]
        BY <1>b DEF RemoveQueued, Base, LoopOk
      <4>3. Failing => opRow' = opRow
        BY <1>b, FailEffect
      <4> QED
        BY <4>1, <4>2, <4>3, <1>3
    <3> QED
      BY <3>1, <1>b
  <2>4. \A n \in 1..Len(channel) : channel[n] \in Ops /\ opRow[channel[n]] = "accepted"
    BY <1>b DEF ChannelOk
  <2>5. \A m, n \in 1..Len(channel) : channel[m] = channel[n] => m = n
    BY <1>b DEF ChannelOk
  <2>6. ASSUME NEW n \in 1..Len(channel') PROVE opRow'[channel'[n]] = "accepted"
    BY <2>1, <2>2, <2>3, <2>4, <2>5
  <2>7. ASSUME NEW m \in 1..Len(channel'), NEW n \in 1..Len(channel'), channel'[m] = channel'[n] PROVE m = n
    <3>1. m + 1 = n + 1
      BY <2>1, <2>2, <2>5, <2>7
    <3> QED
      BY <3>1
  <2> QED
    BY <2>6, <2>7 DEF ChannelOk
<1>4. ASSUME NEW o \in accepted, Activate, channel = <<>>, channel' = Append(channel, o) PROVE ChannelOk'
  <2>1. o \in Ops /\ opRow' = opRow /\ opRow[o] = "accepted"
    BY <1>4, <1>b DEF Activate, durable, rows, TypeOK, OpInv, BootAccepted
  <2>2. Len(channel) = 0
    BY <1>4
  <2>3. Len(channel') = 1 /\ channel'[1] = o
    BY <1>4, <1>b, <2>1, <2>2, AppendTyped
  <2> QED
    BY <2>1, <2>3 DEF ChannelOk
<1>5. CASE channel' = <<>>
  BY <1>5 DEF ChannelOk
<1> QED
  BY <1>1, <1>2, <1>3, <1>4, <1>5, <1>b, ChannelMoves

\* What comes into the channel.
LEMMA InChannelMoves ==
  ASSUME OpInv, [Next]_vars, NEW o \in Ops, InChannel(o)'
  PROVE  /\ InChannel(o) \/ Takes(o) \/ (Activate /\ o \in accepted)
         /\ DispatchStart => o # Head(channel)
         /\ channel # <<>> /\ channel' = Tail(channel) => o # Head(channel)
<1>b. /\ Base /\ ChannelOk /\ TypeOK /\ channel \in Seq(Ops) /\ Len(channel) \in Nat
  BY DEF OpInv, Base, TypeOK
<1>1. CASE channel' = channel
  <2>1. ~DispatchStart
    <3>1. DispatchStart => channel # <<>> /\ channel' = Tail(channel)
      BY <1>b, HeadFacts DEF DispatchStart
    <3>2. channel # <<>> => Len(Tail(channel)) # Len(channel)
      BY <1>b, TailTyped
    <3> QED
      BY <3>1, <3>2, <1>1
  <2>2. channel # <<>> => channel' # Tail(channel)
    <3>1. channel # <<>> => Len(Tail(channel)) # Len(channel)
      BY <1>b, TailTyped
    <3> QED
      BY <3>1, <1>1
  <2> QED
    BY <1>1, <2>1, <2>2 DEF InChannel
<1>2. ASSUME NEW p \in Ops, Takes(p), channel' = Append(channel, p) PROVE (InChannel(o) \/ Takes(o)) /\ ~DispatchStart /\ (channel # <<>> => channel' # Tail(channel))
  <2>1. /\ Len(channel') = Len(channel) + 1
        /\ \A n \in 1..Len(channel) : channel'[n] = channel[n]
        /\ channel'[Len(channel) + 1] = p
    BY <1>2, <1>b, AppendTyped
  <2>2. PICK n \in 1..Len(channel') : channel'[n] = o
    BY DEF InChannel
  <2>3. n \in 1..Len(channel) \/ n = Len(channel) + 1
    BY <2>1, <1>b
  <2>4. DispatchStart => channel # <<>> /\ channel' = Tail(channel)
    BY <1>b, HeadFacts DEF DispatchStart
  <2>5. channel # <<>> => Len(Tail(channel)) # Len(channel) + 1
    BY <1>b, TailTyped
  <2> QED
    BY <2>1, <2>2, <2>3, <2>4, <2>5, <1>2 DEF InChannel
<1>3. CASE channel # <<>> /\ channel' = Tail(channel)
  <2>1. /\ Len(channel') = Len(channel) - 1 /\ Head(channel) = channel[1] /\ 1 \in 1..Len(channel)
        /\ \A n \in 1..Len(channel') : channel'[n] = channel[n + 1]
    BY <1>3, <1>b, TailTyped
  <2>2. PICK n \in 1..Len(channel') : channel'[n] = o
    BY DEF InChannel
  <2>3. n + 1 \in 1..Len(channel) /\ n + 1 # 1
    BY <2>1, <1>b
  <2>4. channel[n + 1] = o /\ channel[n + 1] # channel[1]
    BY <2>1, <2>2, <2>3, <1>b DEF ChannelOk
  <2> QED
    BY <2>1, <2>3, <2>4 DEF InChannel
<1>4. ASSUME NEW p \in accepted, Activate, channel = <<>>, channel' = Append(channel, p)
      PROVE  o \in accepted /\ ~DispatchStart
  <2>0. p \in Ops
    BY <1>b DEF TypeOK
  <2>1. Len(channel) = 0
    BY <1>4
  <2>2. Len(channel') = 1 /\ channel'[1] = p
    BY <1>4, <1>b, <2>0, <2>1, AppendTyped
  <2>3. o = p
    BY <2>2 DEF InChannel
  <2>4. ~DispatchStart
    BY <1>4, <1>b, HeadFacts DEF DispatchStart
  <2> QED
    BY <2>3, <2>4
<1>5. channel' # <<>>
  BY DEF InChannel
<1> QED
  BY <1>1, <1>2, <1>3, <1>4, <1>5, <1>b, ChannelMoves

\* An envelope is stored together with the commit of its start.
LEMMA EnvelopedStep == OpInv /\ [Next]_vars => Enveloped'
<1> SUFFICES ASSUME OpInv, [Next]_vars, NEW t \in Turns, envelope'[t] # None PROVE opRow'[St(t)] = "committed"
  BY DEF Enveloped
<1>b. Base /\ envelope \in [Turns -> Ends \cup {None}] /\ opRow \in [Ops -> {"none", "accepted", "committed"}] /\ St(t) \in Ops
  BY OpFacts DEF OpInv, Base, TypeOK
<1>1. CASE envelope[t] # None
  BY <1>1, <1>b, OpRowGrows DEF OpInv, Enveloped
<1>2. CASE envelope[t] = None
  BY <1>2, <1>b, EnvelopeFrame DEF CommitTerminal, St
<1> QED
  BY <1>1, <1>2

\* How the worker of a turn changes.
LEMMA WorkerMoves ==
  ASSUME Base, [Next]_vars, NEW t \in Turns
  PROVE  \/ worker'[t] = worker[t]
         \/ DispatchStart /\ Head(channel) = St(t) /\ worker'[t] = "opening" /\ UNCHANGED opRow /\ t \notin Terminals
         \/ worker[t] = "opening" /\ OpenTurn(t) /\ worker'[t] = "opened"
         \/ worker[t] = "opened" /\ AnnounceTurn(t) /\ worker'[t] = "running"
         \/ worker'[t] = "committed" /\ \E e \in Ends : CommitTerminal(t, e)
         \/ worker[t] \in {"opening", "opened", "running"} /\ worker'[t] = "reject" /\ Release(t)
         \/ worker[t] = "committed" /\ worker'[t] = "publish" /\ Release(t)
         \/ worker[t] = "reject" /\ RejectTurn(t) /\ worker'[t] = "none"
         \/ worker[t] = "publish" /\ PublishTerminal(t) /\ worker'[t] = "project"
         \/ worker[t] \in {"publish", "project", "mark"} /\ worker'[t] = "reject" /\ (PublishFails(t) \/ ProjectTerminal(t))
         \/ worker[t] = "project" /\ ProjectTerminal(t) /\ worker'[t] = "mark"
         \/ worker[t] = "mark" /\ FinishTurn(t) /\ worker'[t] = "none"
         \/ worker'[t] = "none" /\ mode' = "down"
         \/ worker'[t] = "lost" /\ Failing /\ FailsOf(St(t))
<1>b. worker \in [Turns -> WorkerSteps]
  BY DEF Base, TypeOK
<1>1. DispatchStart => worker'[t] = worker[t] \/ (Head(channel) = St(t) /\ worker'[t] = "opening" /\ UNCHANGED opRow /\ t \notin Terminals)
  <2>1. DispatchStart => Head(channel) = Op("start", Head(channel).of)
    BY HeadFacts DEF DispatchStart
  <2> QED
    BY <2>1, <1>b DEF DispatchStart, St
<1>2. ASSUME NEW u \in Turns, NEW e \in Ends, CommitTerminal(u, e)
      PROVE  worker'[t] = worker[t] \/ (u = t /\ worker'[t] = "committed")
  BY <1>2, <1>b DEF CommitTerminal, WorkerTo
<1>3. ASSUME NEW u \in Turns, u # t,
             \/ OpenTurn(u) \/ AnnounceTurn(u) \/ Release(u) \/ RejectTurn(u) \/ PublishTerminal(u)
             \/ PublishFails(u) \/ ProjectTerminal(u) \/ FinishTurn(u)
      PROVE  worker'[t] = worker[t]
  BY <1>3, <1>b
     DEF OpenTurn, AnnounceTurn, Release, RejectTurn, PublishTerminal, PublishFails, ProjectTerminal,
         FinishTurn, WorkerTo
<1>4. /\ OpenTurn(t) => worker[t] = "opening" /\ worker'[t] = "opened"
      /\ AnnounceTurn(t) => worker[t] = "opened" /\ worker'[t] = "running"
      /\ RejectTurn(t) => worker[t] = "reject" /\ worker'[t] = "none"
      /\ PublishTerminal(t) => worker[t] = "publish" /\ worker'[t] = "project"
      /\ PublishFails(t) => worker[t] \in {"publish", "project", "mark"} /\ worker'[t] = "reject"
      /\ ProjectTerminal(t) => worker[t] = "project" /\ worker'[t] \in {"reject", "mark"}
      /\ FinishTurn(t) => worker[t] = "mark" /\ worker'[t] = "none"
  BY <1>b DEF OpenTurn, AnnounceTurn, RejectTurn, PublishTerminal, PublishFails, ProjectTerminal, FinishTurn, WorkerTo
<1>5. Release(t) => \/ worker[t] = "committed" /\ worker'[t] = "publish"
                    \/ worker[t] \in {"opening", "opened", "running"} /\ worker'[t] = "reject"
  BY <1>b DEF Release, WorkerTo
<1>6. (\E u \in Turns : RecoverOutbox(u)) \/ Crash \/ Exit => worker'[t] = worker[t] \/ (worker'[t] = "none" /\ mode' = "down")
  BY DEF RecoverOutbox, Crash, Exit, Volatile
<1>7. Failing => worker'[t] = worker[t] \/ (worker'[t] = "lost" /\ FailsOf(St(t)))
  <2>1. SUFFICES ASSUME Failing, worker'[t] # worker[t] PROVE worker'[t] = "lost" /\ FailsOf(St(t))
    OBVIOUS
  <2>2. PICK o \in Ops : FailsOf(o)
    BY <2>1, FailEffect
  <2>3. o.kind = "start" /\ worker' = [worker EXCEPT ![o.of] = "lost"]
    BY <2>1, <2>2 DEF FailsOf
  <2>4. o.of = t /\ worker'[t] = "lost"
    BY <2>1, <2>3, <1>b
  <2> QED
    BY <2>2, <2>3, <2>4, OpFacts
<1> QED
  BY <1>1, <1>2, <1>3, <1>4, <1>5, <1>6, <1>7, WorkerFrame

\* What a worker knows of its turn stays true.
LEMMA WorkerKnowsStep == OpInv /\ [Next]_vars => WorkerKnows'
<1> SUFFICES ASSUME OpInv, [Next]_vars, NEW t \in Turns
             PROVE  /\ worker'[t] \in {"opening", "opened", "running"} => opRow'[St(t)] = "accepted"
                    /\ worker'[t] \in {"reject", "lost"} => opRow'[St(t)] # "none"
                    /\ worker'[t] = "mark" => turnRow'[t] # "active"
                    /\ worker'[t] # "none" => ~InChannel(St(t))'
  BY DEF WorkerKnows
<1>b. /\ Base /\ ChannelOk /\ St(t) \in Ops
      /\ opRow \in [Ops -> {"none", "accepted", "committed"}]
      /\ worker[t] \in {"opening", "opened", "running"} => opRow[St(t)] = "accepted"
      /\ worker[t] \in {"reject", "lost"} => opRow[St(t)] # "none"
      /\ worker[t] = "mark" => turnRow[t] # "active"
      /\ worker[t] # "none" => ~InChannel(St(t))
      /\ worker[t] \in {"committed", "publish", "project", "mark"} => opRow[St(t)] = "committed"
      /\ worker[t] \in WorkerSteps
  BY OpFacts DEF OpInv, Base, TypeOK, WorkerKnows, Publication, Enveloped
<1>c. worker[t] # "none" => opRow[St(t)] # "none"
  BY <1>b DEF WorkerSteps, Holding
<1>d. channel # <<>> => InChannel(Head(channel)) /\ opRow[Head(channel)] = "accepted"
  BY <1>b, TailTyped DEF InChannel, ChannelOk, Base
<1>e. opRow[St(t)] # "none" => ~Takes(St(t))
  BY DEF Takes
<1>f. mode \in {"down", "booting"} => worker[t] = "none"
  BY <1>b DEF Base, Quiet
<1>1. ASSUME worker'[t] \in {"opening", "opened", "running"} PROVE opRow'[St(t)] = "accepted"
  <2>1. CASE DispatchStart /\ Head(channel) = St(t) /\ UNCHANGED opRow
    <3>1. channel # <<>>
      BY <2>1, <1>b, HeadFacts DEF DispatchStart
    <3> QED
      BY <2>1, <3>1, <1>d
  <2>2. CASE worker[t] \in {"opening", "opened", "running"}
    <3>1. opRow[St(t)] = "accepted" /\ ~InChannel(St(t)) /\ ~Takes(St(t))
      BY <2>2, <1>b, <1>c, <1>e
    <3>2. ASSUME NEW u \in Turns, St(u) = St(t) PROVE u = t
      BY <3>2, OpFacts
    <3>3. ~RejectTurn(t)
      BY <2>2 DEF RejectTurn
    <3>4. ASSUME NEW e \in Ends PROVE ~CommitTerminal(t, e)
      <4>1. CommitTerminal(t, e) => worker'[t] = "committed"
        BY <1>b DEF CommitTerminal, WorkerTo, OpInv, Base, TypeOK
      <4> QED
        BY <4>1, <1>1
    <3>5. ~Boot
      BY <2>2, <1>f DEF Boot
    <3>6. channel # <<>> => St(t) # Head(channel)
      BY <3>1, <1>d
    <3> QED
      BY <3>1, <3>2, <3>3, <3>4, <3>5, <3>6, <1>b, OpRowChange
  <2> QED
    BY <1>1, <2>1, <2>2, <1>b, WorkerMoves
<1>2. ASSUME worker'[t] = "reject" PROVE opRow'[St(t)] # "none"
  <2>1. worker[t] # "none"
    BY <1>2, <1>b, WorkerMoves
  <2> QED
    BY <2>1, <1>c, <1>b, OpRowGrows
<1>3. ASSUME worker'[t] = "mark" PROVE turnRow'[t] # "active"
  <2>1. CASE worker[t] = "mark"
    <3>1. ~Takes(St(t))
      BY <2>1, <1>c, <1>e
    <3> QED
      BY <2>1, <3>1, <1>b, TurnRowMoves, EndFacts
  <2>2. CASE ProjectTerminal(t)
    <3>1. t \in Terminals /\ TerminalOf(t) \in Ends
      BY <2>2, TerminalOfTyped DEF OpInv, Base, Publication, ProjectTerminal
    <3>2. turnRow'[t] = ProjectedRow(turnRow[t], TerminalOf(t))
      BY <2>2 DEF ProjectTerminal, OpInv, Base, TypeOK
    <3> QED
      BY <3>1, <3>2, EndFacts DEF ProjectedRow
  <2> QED
    BY <1>3, <2>1, <2>2, <1>b, WorkerMoves
<1>4. ASSUME worker'[t] # "none", InChannel(St(t))' PROVE FALSE
  <2>1. InChannel(St(t)) \/ Takes(St(t)) \/ (Activate /\ St(t) \in accepted)
    BY <1>4, <1>b, InChannelMoves
  <2>2. DispatchStart => St(t) # Head(channel)
    BY <1>4, <1>b, InChannelMoves
  <2>f. FailsOf(St(t)) => worker[t] = "reject"
    BY <1>4, <1>b, FailWho, InChannelMoves
  <2>3. worker[t] # "none"
    BY <1>4, <2>2, <2>f, <1>b, WorkerMoves DEF CommitTerminal
  <2>4. ~Activate
    BY <2>3, <1>f DEF Activate
  <2> QED
    BY <2>1, <2>3, <2>4, <1>b, <1>c, <1>e
<1>5. ASSUME worker'[t] = "lost" PROVE opRow'[St(t)] # "none"
  <2>1. CASE worker[t] = "lost"
    BY <2>1, <1>c, <1>b, OpRowGrows
  <2>2. CASE FailsOf(St(t))
    BY <2>2, <1>b, <1>c, <1>d, FailWho, OpRowGrows
  <2> QED
    BY <1>5, <2>1, <2>2, <1>b, WorkerMoves
<1> QED
  BY <1>1, <1>2, <1>3, <1>4, <1>5

\* What is in the channel or has a worker stays among the accepted operations.
LEMMA HeldStep == OpInv /\ [Next]_vars => Held'
<1> SUFFICES ASSUME OpInv, [Next]_vars, NEW t \in Turns, worker'[t] # "none" \/ InChannel(St(t))'
             PROVE  St(t) \in accepted'
  BY DEF Held
<1>b. /\ Base /\ ChannelOk /\ St(t) \in Ops /\ St(t).kind = "start" /\ St(t).of = t
      /\ worker[t] # "none" \/ InChannel(St(t)) => St(t) \in accepted
      /\ worker[t] # "none" => ~InChannel(St(t))
      /\ worker \in [Turns -> WorkerSteps]
  BY OpFacts DEF OpInv, Held, WorkerKnows, Base, TypeOK
<1>d. channel # <<>> => InChannel(Head(channel))
  BY <1>b, TailTyped DEF InChannel, Base
<1>1. CASE \E o \in Ops : Takes(o) /\ (o = St(t) \/ St(t) \in accepted)
  BY <1>1 DEF Takes, Accept
<1>2. St(t) \in accepted \/ Takes(St(t))
  <2>1. CASE InChannel(St(t))'
    BY <2>1, <1>b, InChannelMoves
  <2>2. CASE worker'[t] # "none"
    <3>1. worker[t] # "none" \/ (DispatchStart /\ Head(channel) = St(t)) \/ FailsOf(St(t))
      BY <2>2, <1>b, WorkerMoves DEF CommitTerminal
    <3>2. DispatchStart => channel # <<>>
      BY <1>b, HeadFacts DEF DispatchStart
    <3> QED
      BY <3>1, <3>2, <1>b, <1>d, FailWho
  <2> QED
    BY <2>1, <2>2
<1>3. CASE Takes(St(t))
  BY <1>3, <1>b, <1>1
<1>4. CASE St(t) \in accepted /\ \A o \in Ops : ~Takes(o)
  <2>1. ASSUME NEW u \in Turns, RejectTurn(u) \/ FinishTurn(u) PROVE St(t) \in accepted'
    <3>1. CASE u = t
      <4>1. worker'[t] = "none" /\ worker[t] # "none" /\ channel' = channel
        BY <2>1, <3>1, <1>b DEF RejectTurn, FinishTurn, WorkerTo
      <4> QED
        BY <4>1, <1>b DEF InChannel
    <3>2. CASE u # t
      <4>1. St(u) # St(t)
        BY <3>2, OpFacts
      <4> QED
        BY <4>1, <2>1, <1>4 DEF RejectTurn, FinishTurn, RejectOp, St
    <3> QED
      BY <3>1, <3>2
  <2>2. ASSUME DispatchStart, St(t) \notin accepted' PROVE FALSE
    <3>1. channel # <<>> /\ RejectOp(Head(channel)) /\ UNCHANGED worker /\ Head(channel) = St(t)
      BY <2>2, <1>4, <1>b, HeadFacts DEF DispatchStart, RejectOp
    <3>2. worker'[t] = "none"
      BY <3>1, <1>b, <1>d
    <3>3. ~InChannel(St(t))'
      BY <2>2, <3>1, <1>b, InChannelMoves
    <3> QED
      BY <3>2, <3>3
  <2>3. DispatchEnqueue \/ DispatchRemove => St(t) \in accepted'
    <3>1. DispatchEnqueue => Head(channel).kind = "enqueue"
      BY <1>b, HeadFacts DEF DispatchEnqueue
    <3>2. DispatchRemove => Head(channel).kind = "remove"
      BY <1>b, HeadFacts DEF DispatchRemove
    <3> QED
      BY <3>1, <3>2, <1>4, <1>b DEF DispatchEnqueue, DispatchRemove, RejectOp, operations
  <2>4. RemoveQueued => St(t) \in accepted'
    <3>1. Op("remove", loop) # St(t)
      BY OpFacts
    <3> QED
      BY <3>1, <1>4 DEF RemoveQueued
  <2>5. ~Volatile
    BY DEF Volatile, InChannel
  <2>6. \A u \in Turns : RecoverOutbox(u) => St(t) \in accepted'
    BY <2>5, <1>4 DEF RecoverOutbox, operations
  <2>7. ~Crash /\ ~Exit
    BY <2>5 DEF Crash, Exit
  <2>8. ~Boot
    <3>1. Boot => worker[t] = "none" /\ channel = <<>> /\ worker' = worker /\ channel' = channel
      BY <1>b DEF Boot, Base, Quiet
    <3> QED
      BY <3>1 DEF InChannel
  <2> QED
    BY <1>4, <1>b, <2>1, <2>2, <2>3, <2>4, <2>6, <2>7, <2>8, AcceptedFrame, SubmitTakes
<1>5. CASE \E o \in Ops : Takes(o) /\ o # St(t)
  BY <1>5, <1>2, <1>1, <1>3
<1> QED
  BY <1>2, <1>3, <1>4, <1>5

-----------------------------------------------------------------------------
(* The rows and the log.                                                   *)

\* Facts about one turn that the next lemmas use.
LEMMA TurnFacts ==
  ASSUME OpInv, NEW t \in Turns
  PROVE  /\ Base /\ St(t) \in Ops /\ opRow \in [Ops -> {"none", "accepted", "committed"}]
         /\ (worker[t] = "publish" \/ t \in outbox) => envelope[t] \in Ends /\ opRow[St(t)] = "committed"
         /\ worker[t] = "reject" => opRow[St(t)] # "none"
         /\ channel # <<>> /\ Head(channel) = St(t) => opRow[St(t)] = "accepted" /\ worker[t] = "none"
         /\ worker[t] \in {"project", "mark"} => t \in Terminals
         /\ t \in Terminals => Told(t)
         /\ Rejected(St(t)) => Told(t)
         /\ opRow[St(t)] # "none" => ~Takes(St(t))
         /\ mode \in {"down", "booting"} => worker[t] = "none"
<1>1. channel # <<>> => InChannel(Head(channel)) /\ opRow[Head(channel)] = "accepted"
  BY TailTyped DEF OpInv, Base, ChannelOk, InChannel
<1>2. channel # <<>> /\ Head(channel) = St(t) => opRow[St(t)] = "accepted" /\ worker[t] = "none"
  BY <1>1 DEF OpInv, WorkerKnows
<1> QED
  BY <1>2, OpFacts, EndFacts
     DEF OpInv, Base, TypeOK, Enveloped, Publication, WorkerKnows, Told, St, Takes, Quiet

\* A publication puts the end of the turn in the log.
LEMMA PublicationTells ==
  ASSUME OpInv, [Next]_vars, NEW t \in Turns, PublishTerminal(t) \/ RecoverOutbox(t)
  PROVE  t \in Terminals' /\ Told(t)'
<1>1. envelope[t] \in Ends /\ St(t) \in Ops /\ log \in [Turns -> Seq(Events)] /\ Base
  BY TurnFacts DEF PublishTerminal, RecoverOutbox, OpInv, Base, TypeOK
<1>2. t \in Terminals \/ Log(envelope[t], St(t))
  BY DEF PublishTerminal, RecoverOutbox, St
<1>3. t \in Terminals'
  BY <1>1, <1>2, LogGrows, ToldEffect, OpFacts
<1> QED
  BY <1>3 DEF Told

\* A rejection puts the rejection in the log and ends the row.
LEMMA RejectionTells ==
  ASSUME OpInv, [Next]_vars, NEW o \in Ops, RejectOp(o)
  PROVE  /\ Rejected(o)' /\ opRow'[o] = "committed"
         /\ o.kind = "start" => Told(o.of)' /\ turnRow'[o.of] # "active"
<1>1. log \in [Turns -> Seq(Events)] /\ opRow \in [Ops -> {"none", "accepted", "committed"}]
      /\ turnRow \in [Turns -> TurnStatus \cup {"none"}] /\ o.of \in Turns
  BY OpFacts DEF OpInv, Base, TypeOK
<1>2. Log("rejected", o) /\ "rejected" \in EventKinds /\ opRow'[o] = "committed"
  BY <1>1 DEF RejectOp, Emit, EventKinds
<1>3. Rejected(o)'
  BY <1>1, <1>2, LogEffect
<1>4. o.kind = "start" => turnRow'[o.of] # "active"
  BY <1>1 DEF RejectOp, Emit
<1>5. o.kind = "start" => Told(o.of)'
  BY <1>1, <1>2, ToldEffect, OpFacts
<1> QED
  BY <1>2, <1>3, <1>4, <1>5

\* A row ends only when the log tells the end, and the log tells only of accepted turns.
LEMMA RowKnownStep == OpInv /\ [Next]_vars => RowKnown'
<1> SUFFICES ASSUME OpInv, [Next]_vars, NEW t \in Turns
             PROVE  /\ opRow'[St(t)] # "none" /\ turnRow'[t] # "active" => Told(t)'
                    /\ Told(t)' => opRow'[St(t)] # "none"
  BY DEF RowKnown
<1>b. /\ opRow[St(t)] # "none" /\ turnRow[t] # "active" => Told(t)
      /\ Told(t) => opRow[St(t)] # "none"
      /\ Base /\ St(t) \in Ops /\ St(t).kind = "start" /\ St(t).of = t
  BY OpFacts DEF OpInv, RowKnown
<1>m. (Told(t) => Told(t)') /\ (opRow[St(t)] # "none" => opRow'[St(t)] # "none")
  BY <1>b, LogGrows, OpRowGrows
<1>1. ASSUME opRow'[St(t)] # "none", turnRow'[t] # "active" PROVE Told(t)'
  <2>1. CASE opRow[St(t)] = "none"
    <3>1. Takes(St(t))
      BY <1>1, <2>1, <1>b, OpRowChange
    <3>2. turnRow'[t] = "active"
      BY <3>1, <1>b DEF Takes, Accept, OpInv, Base, TypeOK
    <3> QED
      BY <3>2, <1>1
  <2>2. CASE opRow[St(t)] # "none" /\ turnRow[t] = "active"
    <3>1. CASE DispatchStart /\ RejectOp(St(t))
      BY <3>1, <1>b, RejectionTells
    <3>2. CASE RejectTurn(t)
      BY <3>2, <1>b, RejectionTells DEF RejectTurn, St
    <3>3. CASE ProjectTerminal(t)
      BY <3>3, <1>m, TurnFacts DEF ProjectTerminal
    <3>4. CASE RecoverOutbox(t)
      BY <3>4, PublicationTells
    <3> QED
      BY <1>1, <2>2, <3>1, <3>2, <3>3, <3>4, <1>b, <1>m, TurnRowMoves
  <2> QED
    BY <2>1, <2>2, <1>b, <1>m
<1>2. ASSUME Told(t)', ~Told(t) PROVE opRow'[St(t)] # "none"
  <2>1. Commits(St(t)) => opRow'[St(t)] # "none"
    BY <1>b DEF Commits, OpInv, Base, TypeOK
  <2>2. PublishTerminal(t) \/ RecoverOutbox(t) \/ (Crash /\ (worker[t] = "reject" \/ (mode = "booting" /\ t \in outbox)))
           => opRow[St(t)] # "none"
    BY TurnFacts DEF PublishTerminal, RecoverOutbox
  <2>3. FailsOf(St(t)) => opRow[St(t)] # "none"
    BY FailWho, TurnFacts
  <2> QED
    BY <1>2, <2>1, <2>2, <2>3, <1>b, <1>m, ToldMoves
<1> QED
  BY <1>1, <1>2, <1>b, <1>m

\* While a process runs, the start of a turn the log tells of is committed or lost.
LEMMA CommittedToldStep == OpInv /\ [Next]_vars => CommittedTold'
<1> SUFFICES ASSUME OpInv, [Next]_vars, mode' # "down", NEW t \in Turns, Told(t)'
             PROVE  opRow'[St(t)] = "committed" \/ worker'[t] = "lost"
  BY DEF CommittedTold
<1>b. Base /\ St(t) \in Ops /\ opRow \in [Ops -> {"none", "accepted", "committed"}]
  BY TurnFacts
<1>1. CASE mode = "down"
  <2>1. Boot
    BY <1>1, ModeFrame DEF RecoverOutbox, Activate, Crash, Close, Exit, Ready
  <2>2. Told(t)
    BY <2>1, SameLog DEF Boot, events
  <2>3. Confirms(St(t)) /\ opRow[St(t)] # "none"
    BY <2>2, OpFacts DEF Confirms, Told, St, OpInv, RowKnown
  <2> QED
    BY <2>1, <2>3, <1>b DEF Boot
<1>2. CASE mode # "down" /\ Told(t)
  <2>1. CASE worker[t] = "lost"
    <3>1. ~(DispatchStart /\ Head(channel) = St(t))
      BY <2>1, <1>b, HeadFacts, TurnFacts DEF DispatchStart
    <3> QED
      BY <2>1, <3>1, <1>b, WorkerMoves DEF CommitTerminal
  <2>2. CASE worker[t] # "lost"
    BY <1>2, <2>2, <1>b, OpRowGrows DEF OpInv, CommittedTold
  <2> QED
    BY <2>1, <2>2
<1>3. CASE mode # "down" /\ ~Told(t)
  <2>1. Commits(St(t)) => opRow'[St(t)] = "committed"
    BY <1>b DEF Commits
  <2>2. PublishTerminal(t) \/ RecoverOutbox(t) => opRow[St(t)] = "committed"
    BY TurnFacts DEF PublishTerminal, RecoverOutbox
  <2>3. ~Crash
    BY DEF Crash
  <2>4. FailsOf(St(t)) => worker'[t] = "lost"
    BY <1>b, OpFacts DEF FailsOf, Base, TypeOK
  <2> QED
    BY <1>3, <1>b, <2>1, <2>2, <2>3, <2>4, ToldMoves, OpRowGrows
<1> QED
  BY <1>1, <1>2, <1>3

\* What a restart makes of the rows.
LEMMA BootEffect ==
  ASSUME OpInv, [Next]_vars, Boot, NEW t \in Turns
  PROVE  /\ Told(t)' <=> Told(t)
         /\ Told(t) => turnRow'[t] # "active"
         /\ opRow'[St(t)] = "committed" => Told(t) \/ t \in outbox
<1>1. Told(t)' <=> Told(t)
  BY SameLog DEF Boot, events
<1>2. turnRow'[t] = ReplayedRow(t)
  BY DEF Boot
<1>3. t \in Terminals => TerminalOf(t) \in Ends
  BY TerminalOfTyped
<1>4. Told(t) => ReplayedRow(t) # "active"
  BY <1>3, EndFacts DEF Told, ReplayedRow, ProjectedRow
<1>5. ASSUME opRow'[St(t)] = "committed" PROVE Told(t) \/ t \in outbox
  <2>1. St(t) \in Ops /\ St(t).kind = "start" /\ St(t).of = t
    BY OpFacts
  <2>2. opRow[St(t)] = "committed" \/ Confirms(St(t))
    BY <1>5, <2>1 DEF Boot
  <2>3. Confirms(St(t)) => Told(t)
    BY <2>1 DEF Confirms, Told, St
  <2>4. opRow[St(t)] = "committed" => Told(t) \/ t \in outbox
    BY <2>1 DEF OpInv, NothingForgotten, Told, St
  <2> QED
    BY <2>2, <2>3, <2>4
<1> QED
  BY <1>1, <1>2, <1>4, <1>5

\* In a process that recovers only the recovery of the outbox changes rows and operations.
LEMMA BootingStep ==
  ASSUME OpInv, [Next]_vars, mode' = "booting", ~Boot
  PROVE  /\ mode = "booting" /\ opRow' = opRow /\ accepted' = accepted
         /\ \A t \in Turns : /\ turnRow'[t] # turnRow[t] => RecoverOutbox(t) /\ turnRow'[t] \in Ends
                             /\ Told(t)' /\ ~Told(t) => RecoverOutbox(t)
                             /\ t \in outbox /\ t \notin outbox' => RecoverOutbox(t)
<1>b. Base
  BY DEF OpInv
<1>1. mode = "booting"
  BY ModeFrame DEF Boot, RecoverOutbox, Activate, Crash, Close, Exit
<1>2. channel = <<>> /\ loop = None /\ \A t \in Turns : worker[t] = "none"
  BY <1>1, <1>b DEF Base, Quiet
<1>3. \A o \in Ops : ~Takes(o)
  BY <1>1 DEF Takes, Refused
<1>4. \A t \in Turns : /\ ~RejectTurn(t) /\ ~ProjectTerminal(t) /\ ~PublishTerminal(t) /\ ~FinishTurn(t)
                       /\ \A e \in Ends : ~CommitTerminal(t, e)
  BY <1>2 DEF RejectTurn, ProjectTerminal, PublishTerminal, FinishTurn, CommitTerminal
<1>5. ~DispatchStart /\ ~DispatchEnqueue /\ ~DispatchRemove /\ ~RemoveQueued
  BY <1>2, <1>b, HeadFacts DEF DispatchStart, DispatchEnqueue, DispatchRemove, RemoveQueued
<1>6. ~Crash /\ ~Exit
  BY DEF Crash, Exit
<1>f. ~Failing
  BY <1>1, <1>b, FailEffect
<1>7. opRow' = opRow
  BY <1>b, <1>3, <1>4, <1>5, OpRowMoves
<1>8. accepted' = accepted
  <2>1. \A t \in Turns : RecoverOutbox(t) => accepted' = accepted
    BY DEF RecoverOutbox, operations
  <2> QED
    BY <1>b, <1>3, <1>4, <1>5, <1>6, <2>1, AcceptedFrame, SubmitTakes
<1>9. ASSUME NEW t \in Turns
      PROVE  /\ turnRow'[t] # turnRow[t] => RecoverOutbox(t) /\ turnRow'[t] \in Ends
             /\ Told(t)' /\ ~Told(t) => RecoverOutbox(t)
             /\ t \in outbox /\ t \notin outbox' => RecoverOutbox(t)
  <2>1. turnRow'[t] # turnRow[t] => RecoverOutbox(t) /\ turnRow'[t] \in Ends
    BY <1>b, <1>f, <1>3, <1>4, <1>5, TurnRowMoves, OpFacts
  <2>2. Told(t)' /\ ~Told(t) => RecoverOutbox(t)
    BY <1>b, <1>f, <1>4, <1>5, <1>6, ToldMoves
  <2>3. \A u \in Turns : RecoverOutbox(u) /\ t \in outbox /\ t \notin outbox' => u = t
    BY DEF RecoverOutbox
  <2>4. t \in outbox /\ t \notin outbox' => RecoverOutbox(t)
    BY <1>4, <2>3, OutboxFrame
  <2> QED
    BY <2>1, <2>2, <2>4
<1> QED
  BY <1>1, <1>7, <1>8, <1>9

\* A process that recovers has ended the rows of the turns the log tells of.
LEMMA BootRowsStep == OpInv /\ [Next]_vars => BootRows'
<1> SUFFICES ASSUME OpInv, [Next]_vars, mode' = "booting", NEW t \in Turns, Told(t)'
             PROVE  turnRow'[t] # "active"
  BY DEF BootRows
<1>1. CASE Boot
  BY <1>1, BootEffect
<1>2. CASE ~Boot
  <2>1. mode = "booting"
    BY <1>2, BootingStep
  <2>2. Told(t) => turnRow[t] # "active"
    BY <2>1 DEF OpInv, BootRows
  <2>3. turnRow'[t] # turnRow[t] => turnRow'[t] # "active"
    BY <1>2, BootingStep, EndFacts
  <2>4. ASSUME RecoverOutbox(t) PROVE turnRow'[t] # "active"
    <3>1. envelope[t] \in Ends
      BY <2>4, TurnFacts DEF RecoverOutbox
    <3>2. turnRow'[t] = ProjectedRow(turnRow[t], envelope[t])
      BY <2>4 DEF RecoverOutbox, OpInv, Base, TypeOK
    <3> QED
      BY <3>1, <3>2, EndFacts DEF ProjectedRow
  <2> QED
    BY <1>2, <2>2, <2>3, <2>4, BootingStep
<1> QED
  BY <1>1, <1>2

\* A process that recovers restores only operations that are not committed.
LEMMA BootAcceptedStep == OpInv /\ [Next]_vars => BootAccepted'
<1> SUFFICES ASSUME OpInv, [Next]_vars, mode' = "booting", NEW o \in accepted'
             PROVE  opRow'[o] = "accepted"
  BY DEF BootAccepted
<1>1. CASE Boot
  <2>1. ASSUME NEW u \in Turns, turnRow'[u] = "active", envelope[u] = None, opRow'[Op("start", u)] = "committed"
        PROVE  FALSE
    <3>1. Told(u) \/ u \in outbox
      BY <1>1, <2>1, BootEffect DEF St
    <3>2. u \notin outbox
      BY <2>1 DEF OpInv, Base, Publication
    <3> QED
      BY <1>1, <2>1, <3>1, <3>2, BootEffect
  <2>2. accepted' = {p \in Ops : opRow'[p] = "accepted"} \cup
                 {Op("start", t) : t \in {u \in Turns : /\ turnRow'[u] = "active" /\ envelope[u] = None
                                                        /\ opRow'[Op("start", u)] = "committed"}}
    BY <1>1 DEF Boot
  <2> QED
    BY <2>1, <2>2
<1>2. CASE ~Boot
  BY <1>2, BootingStep DEF OpInv, BootAccepted
<1> QED
  BY <1>1, <1>2

\* How a start leaves the accepted operations of a process that goes on.
LEMMA AcceptedMoves ==
  ASSUME OpInv, [Next]_vars, NEW t \in Turns, St(t) \in accepted, St(t) \notin accepted', mode' # "down", ~Boot
  PROVE  Told(t)'
<1>b. Base /\ St(t) \in Ops /\ St(t).kind = "start" /\ St(t).of = t
  BY OpFacts DEF OpInv
<1>m. Told(t) => Told(t)'
  BY <1>b, LogGrows
<1>0. RejectOp(St(t)) => Told(t)'
  BY <1>b, RejectionTells
<1>1. \A o \in Ops : ~Takes(o)
  BY DEF Takes, Accept
<1>2. ASSUME NEW u \in Turns, RejectTurn(u) PROVE Told(t)'
  <2>1. St(u) = St(t)
    BY <1>2 DEF RejectTurn, RejectOp, St
  <2> QED
    BY <2>1, <1>0, <1>2 DEF RejectTurn, St
<1>3. ASSUME NEW u \in Turns, FinishTurn(u) PROVE Told(t)'
  <2>1. St(u) = St(t)
    BY <1>3 DEF FinishTurn, St
  <2>2. u = t
    BY <2>1, OpFacts
  <2> QED
    BY <2>2, <1>3, <1>m, TurnFacts DEF FinishTurn
<1>4. \A u \in Turns : ~RecoverOutbox(u)
  BY DEF RecoverOutbox, operations
<1>5. DispatchStart => Told(t)'
  <2>1. DispatchStart => RejectOp(Head(channel)) /\ Head(channel) = St(t)
    BY DEF DispatchStart, RejectOp
  <2> QED
    BY <2>1, <1>0
<1>6. ~DispatchEnqueue
  <2>1. DispatchEnqueue => Head(channel) = St(t) /\ Head(channel).kind = "enqueue"
    BY <1>b, HeadFacts DEF DispatchEnqueue
  <2> QED
    BY <2>1, <1>b
<1>7. ~DispatchRemove
  <2>1. DispatchRemove => Head(channel) = St(t) /\ Head(channel).kind = "remove"
    BY <1>b, HeadFacts DEF DispatchRemove, RejectOp, operations
  <2> QED
    BY <2>1, <1>b
<1>8. ~RemoveQueued
  <2>1. RemoveQueued => Op("remove", loop) = St(t)
    BY DEF RemoveQueued
  <2> QED
    BY <2>1, OpFacts
<1>9. ~Crash /\ ~Exit
  BY DEF Crash, Exit
<1> QED
  BY <1>b, <1>1, <1>2, <1>3, <1>4, <1>5, <1>6, <1>7, <1>8, <1>9, AcceptedFrame, SubmitTakes

\* A start that is no longer among the accepted operations of a process has been told.
LEMMA SettledOutStep == OpInv /\ [Next]_vars => SettledOut'
<1> SUFFICES ASSUME OpInv, [Next]_vars, mode' # "down", NEW t \in Turns,
                    opRow'[St(t)] # "none", St(t) \notin accepted'
             PROVE  Told(t)' \/ (mode' = "booting" /\ t \in outbox')
  BY DEF SettledOut
<1>b. /\ Base /\ St(t) \in Ops /\ opRow \in [Ops -> {"none", "accepted", "committed"}]
      /\ opRow' \in [Ops -> {"none", "accepted", "committed"}]
  BY TurnFacts, RowTypes
<1>m. Told(t) => Told(t)'
  BY <1>b, LogGrows
<1>1. CASE Boot
  <2>1. opRow'[St(t)] = "committed"
    BY <1>1, <1>b DEF Boot
  <2>2. Told(t) \/ t \in outbox
    BY <1>1, <2>1, BootEffect
  <2> QED
    BY <1>1, <2>2, <1>m DEF Boot, terminal
<1>2. CASE ~Boot
  <2>1. mode # "down"
    BY <1>2, ModeFrame DEF RecoverOutbox, Activate, Crash, Close, Exit, Ready
  <2>2. CASE St(t) \in accepted
    BY <1>2, <2>2, AcceptedMoves
  <2>3. CASE opRow[St(t)] = "none"
    <3>1. Takes(St(t))
      BY <2>3, <1>b, OpRowChange
    <3> QED
      BY <3>1 DEF Takes, Accept
  <2>4. CASE St(t) \notin accepted /\ opRow[St(t)] # "none"
    <3>1. Told(t) \/ (mode = "booting" /\ t \in outbox)
      BY <2>1, <2>4 DEF OpInv, SettledOut
    <3>2. CASE mode = "booting" /\ t \in outbox
      <4>1. CASE mode' = "booting"
        BY <1>2, <3>2, <4>1, BootingStep, PublicationTells
      <4>2. CASE mode' # "booting"
        <5>1. Activate
          BY <3>2, <4>2, <1>2, ModeFrame DEF RecoverOutbox, Crash, Close, Exit, Ready
        <5> QED
          BY <5>1, <3>2 DEF Activate
      <4> QED
        BY <4>1, <4>2
    <3> QED
      BY <3>1, <3>2, <1>m
  <2> QED
    BY <2>2, <2>3, <2>4
<1> QED
  BY <1>1, <1>2

\* The latest turn and the turn a withdrawal waits for have been accepted.
LEMMA LatestStep == OpInv /\ [Next]_vars => LatestOk'
<1> SUFFICES ASSUME OpInv, [Next]_vars PROVE LatestOk'
  OBVIOUS
<1>b. /\ Base /\ latest \in Turns \cup {None} /\ withdrawing \in Turns \cup {None}
      /\ opRow \in [Ops -> {"none", "accepted", "committed"}]
      /\ latest # None => opRow[St(latest)] # "none"
      /\ withdrawing # None => opRow[St(withdrawing)] # "none"
  BY DEF OpInv, Base, TypeOK, LatestOk
<1>m. \A t \in Turns : opRow[St(t)] # "none" => opRow'[St(t)] # "none"
  BY <1>b, OpRowGrows, OpFacts
<1>1. latest' = latest \/ opRow'[St(latest')] # "none"
  <2>1. ASSUME NEW o \in Ops, Takes(o) PROVE latest' = latest \/ opRow'[St(latest')] # "none"
    <3>1. CASE o.kind = "start"
      <4>1. o = St(o.of) /\ latest' = o.of
        BY <2>1, <3>1, OpFacts DEF Takes, Accept
      <4> QED
        BY <4>1, <2>1, <1>b DEF Takes, Accept
    <3>2. CASE o.kind # "start"
      BY <2>1, <3>2 DEF Takes, Accept
    <3> QED
      BY <3>1, <3>2
  <2> QED
    BY <2>1, <1>b, LatestFrame, SubmitTakes
<1>2. withdrawing' \in {withdrawing, None} \/ (withdrawing' = latest /\ latest \in Turns)
  BY WithdrawFrame DEF Withdraw, WithdrawEnd, RecoverOutbox, Crash, Exit, Volatile
<1>3. None \notin Turns
  BY EndFacts
<1> QED
  BY <1>1, <1>2, <1>3, <1>b, <1>m DEF LatestOk

\* While the runtime is up, the row of a turn that is told and has no worker is not active.
LEMMA RowsUpStep == OpInv /\ [Next]_vars => RowsUp'
<1> SUFFICES ASSUME OpInv, [Next]_vars, mode' = "up", NEW t \in Turns, worker'[t] = "none", Told(t)'
             PROVE  turnRow'[t] # "active"
  BY DEF RowsUp
<1>b. Base /\ St(t) \in Ops /\ St(t).kind = "start" /\ St(t).of = t
  BY OpFacts DEF OpInv
<1>0. ~Boot /\ ~Crash /\ ~Exit
  BY DEF Boot, Crash, Exit
<1>1. mode = "up" \/ Activate
  BY <1>0, ModeFrame DEF RecoverOutbox, Close
<1>2. mode = "up" \/ mode = "booting"
  BY <1>1 DEF Activate
<1>3. ~RecoverOutbox(t)
  BY DEF RecoverOutbox
<1>r. RejectOp(St(t)) => turnRow'[t] # "active"
  BY <1>b, RejectionTells
<1>4. CASE RejectTurn(t)
  BY <1>4, <1>r DEF RejectTurn, St
<1>5. CASE DispatchStart /\ Head(channel) = St(t) /\ RejectOp(St(t))
  BY <1>5, <1>r
<1>6. CASE ~RejectTurn(t) /\ ~(DispatchStart /\ Head(channel) = St(t) /\ RejectOp(St(t)))
  <2>1. ~PublishTerminal(t)
    BY <1>b DEF PublishTerminal, WorkerTo, Base, TypeOK
  <2>f. ~FailsOf(St(t))
    BY <1>b DEF FailsOf, Base, TypeOK
  <2>2. Told(t)
    BY <2>f, <1>0, <1>3, <1>6, <2>1, <1>b, ToldMoves
  <2>3. opRow[St(t)] # "none"
    BY <2>2 DEF OpInv, RowKnown
  <2>4. turnRow[t] # "active"
    <3>1. worker[t] = "none" \/ worker[t] = "mark"
      BY <1>0, <1>6, <1>b, WorkerMoves
    <3>2. worker[t] = "mark" => turnRow[t] # "active"
      BY DEF OpInv, WorkerKnows
    <3> QED
      BY <3>1, <3>2, <2>2, <1>2 DEF OpInv, RowsUp, BootRows
  <2>5. ~Takes(St(t))
    BY <2>3, TurnFacts
  <2> QED
    BY <2>4, <2>5, <1>0, <1>b, TurnRowMoves, EndFacts
<1> QED
  BY <1>4, <1>5, <1>6

-----------------------------------------------------------------------------
(* The log.                                                                *)

\* An end is appended only to the events of a turn that has none.
LEMMA EndsOnce ==
  ASSUME Base, [Next]_vars
  PROVE  log' = log \/ \E k \in EventKinds \cup Ends, o \in Ops : Log(k, o) /\ (k \in Ends => o.of \notin Terminals)
<1>1. \A t \in Turns : PublishTerminal(t) \/ RecoverOutbox(t) =>
          log' = log \/ (envelope[t] \in Ends /\ Log(envelope[t], St(t)) /\ t \notin Terminals)
  BY DEF Base, Publication, TypeOK, PublishTerminal, RecoverOutbox, events, St
<1>2. \A t \in Turns : AnnounceTurn(t) => Log("started", St(t))
  BY DEF AnnounceTurn, Emit, St
<1>3. \A t \in Turns : RejectTurn(t) => Log("rejected", St(t))
  BY DEF RejectTurn, RejectOp, Emit, St
<1>4. DispatchStart => (log' = log \/ Log("rejected", Head(channel))) /\ Head(channel) \in Ops
  BY HeadFacts DEF DispatchStart, RejectOp, Emit, events
<1>5. DispatchRemove => (log' = log \/ Log("rejected", Head(channel))) /\ Head(channel) \in Ops
  BY HeadFacts DEF DispatchRemove, RejectOp, Emit, events
<1>6. DispatchEnqueue => Log("queued", Head(channel)) /\ Head(channel) \in Ops
  BY HeadFacts DEF DispatchEnqueue, Emit
<1>7. RemoveQueued => Log("removed", Op("remove", loop)) /\ loop \in Items
  BY DEF RemoveQueued, Emit, Base, TypeOK
<1>8. Crash => log' = log \/ \E x \in InFlight : Log(x[1], x[2])
  BY DEF Crash, events
<1>9. \A k \in {"started", "rejected", "queued", "removed"} : k \in EventKinds /\ k \notin Ends
  BY EndFacts DEF EventKinds
<1>10. ASSUME NEW x \in InFlight
       PROVE  x[1] \in EventKinds \cup Ends /\ x[2] \in Ops /\ (x[1] \in Ends => x[2].of \notin Terminals)
  BY <1>9, InFlightTyped, OpFacts
<1>11. \A t \in Turns : St(t) \in Ops /\ St(t).of = t
  BY OpFacts
<1>12. CASE \E t \in Turns : AnnounceTurn(t) \/ RejectTurn(t)
  BY <1>12, <1>2, <1>3, <1>9, <1>11
<1>13. CASE \E t \in Turns : PublishTerminal(t) \/ RecoverOutbox(t)
  BY <1>13, <1>1, <1>11
<1>14. CASE DispatchStart \/ DispatchRemove \/ DispatchEnqueue
  BY <1>14, <1>4, <1>5, <1>6, <1>9
<1>15. CASE RemoveQueued
  BY <1>15, <1>7, <1>9, OpFacts
<1>16. CASE Crash
  BY <1>16, <1>8, <1>10
<1>17. CASE Failing
  <2>1. PICK o \in Ops : FailsOf(o)
    BY <1>17, FailEffect
  <2> QED
    BY <2>1, <1>9 DEF FailsOf
<1> QED
  BY <1>12, <1>13, <1>14, <1>15, <1>16, <1>17, LogFrame

\* A turn keeps at most one terminal event.
LEMMA OneTerminalStep == OpInv /\ [Next]_vars => OneTerminal'
<1> SUFFICES ASSUME OpInv, [Next]_vars PROVE OneTerminal'
  OBVIOUS
<1>b. Base /\ OneTerminal /\ log \in [Turns -> Seq(Events)]
  BY DEF OpInv, Base, TypeOK
<1>1. CASE log' = log
  BY <1>1, <1>b DEF OneTerminal
<1>2. ASSUME NEW k \in EventKinds \cup Ends, NEW o \in Ops, Log(k, o), k \in Ends => o.of \notin Terminals
      PROVE  OneTerminal'
  <2> SUFFICES ASSUME NEW t \in Turns, NEW m \in 1..Len(log'[t]), NEW n \in 1..Len(log'[t]),
                      log'[t][m].kind \in Ends, log'[t][n].kind \in Ends
               PROVE  m = n
    BY DEF OneTerminal
  <2>1. \A i, j \in 1..Len(log[t]) : log[t][i].kind \in Ends /\ log[t][j].kind \in Ends => i = j
    BY <1>b DEF OneTerminal
  <2>2. o.of \in Turns /\ log' = [log EXCEPT ![o.of] = Append(@, Event(k, o))]
    BY <1>2, OpFacts DEF Log
  <2>3. CASE t # o.of
    <3>1. log'[t] = log[t]
      BY <2>2, <2>3, <1>b
    <3> QED
      BY <3>1, <2>1
  <2>4. CASE t = o.of
    <3> DEFINE s == log[t]
               e == Event(k, o)
    <3>1. s \in Seq(Events) /\ log'[t] = Append(s, e) /\ e \in Events /\ e.kind = k
      BY <2>2, <2>4, <1>b, EventTyped DEF Event
    <3>2. k \in Ends => \A i \in 1..Len(s) : s[i].kind \notin Ends
      BY <1>2, <2>4 DEF Terminals, Logged
    <3>3. \A i, j \in 1..Len(s) : s[i].kind \in Ends /\ s[j].kind \in Ends => i = j
      BY <2>1
    <3> HIDE DEF s, e
    <3>4. /\ Len(log'[t]) = Len(s) + 1 /\ Len(s) \in Nat
          /\ \A i \in 1..Len(s) : log'[t][i] = s[i]
          /\ log'[t][Len(s) + 1] = e
      BY <3>1
    <3>5. \A i \in 1..Len(log'[t]) : i \in 1..Len(s) \/ i = Len(s) + 1
      BY <3>4
    <3> QED
      BY <3>1, <3>2, <3>3, <3>4, <3>5
  <2> QED
    BY <2>3, <2>4
<1> QED
  BY <1>1, <1>2, <1>b, EndsOnce

\* A committed operation is told by the log, or its envelope waits in the outbox.
LEMMA NothingForgottenStep == OpInv /\ [Next]_vars => NothingForgotten'
<1> DEFINE Known(o) == \/ Rejected(o)
                       \/ o.kind = "start" /\ o.of \in Terminals \cup outbox
                       \/ o.kind = "enqueue" /\ Logged("queued", o.of)
                       \/ o.kind = "remove" /\ Logged("removed", o.of)
<1> SUFFICES ASSUME OpInv, [Next]_vars, NEW o \in Ops, opRow'[o] = "committed" PROVE Known(o)'
  BY DEF NothingForgotten
<1>b. /\ Base /\ opRow \in [Ops -> {"none", "accepted", "committed"}] /\ log \in [Turns -> Seq(Events)]
      /\ o.of \in Turns /\ (o.kind = "start" => o = St(o.of))
  BY OpFacts DEF OpInv, Base, TypeOK
<1>m. /\ Rejected(o) => Rejected(o)'
      /\ \A k : Logged(k, o.of) => Logged(k, o.of)'
      /\ o.of \in Terminals => o.of \in Terminals'
  BY <1>b, LogGrows
<1>1. o.of \in outbox => o.of \in outbox' \cup Terminals'
  <2>1. ASSUME NEW t \in Turns, FinishTurn(t) PROVE o.of \in outbox => o.of \in outbox' \cup Terminals'
    <3>1. t \in Terminals /\ outbox' = outbox \ {t}
      BY <2>1, TurnFacts DEF FinishTurn
    <3> QED
      BY <3>1, <1>m
  <2>2. ASSUME NEW t \in Turns, RecoverOutbox(t) PROVE o.of \in outbox => o.of \in outbox' \cup Terminals'
    <3>1. t \in Terminals' /\ (outbox' = outbox \ {t} \/ outbox' = outbox)
      BY <2>2, PublicationTells DEF RecoverOutbox
    <3> QED
      BY <3>1
  <2>3. \A t \in Turns, e \in Ends : CommitTerminal(t, e) => outbox' = outbox \cup {t}
    BY DEF CommitTerminal
  <2> QED
    BY <2>1, <2>2, <2>3, OutboxFrame
<1>2. CASE opRow[o] = "committed"
  <2>1. Known(o)
    BY <1>2 DEF OpInv, NothingForgotten
  <2> QED
    BY <2>1, <1>1, <1>m
<1>3. CASE opRow[o] # "committed"
  <2>1. CASE RejectOp(o)
    BY <2>1, RejectionTells
  <2>2. ASSUME NEW t \in Turns, RejectTurn(t), o = St(t) PROVE Known(o)'
    BY <2>2, <2>1 DEF RejectTurn, St
  <2>3. ASSUME NEW t \in Turns, NEW e \in Ends, CommitTerminal(t, e), o = St(t) PROVE Known(o)'
    <3>1. o.kind = "start" /\ o.of = t /\ t \in outbox'
      BY <2>3, OpFacts DEF CommitTerminal
    <3> QED
      BY <3>1
  <2>4. ASSUME Emit("queued", o), o.kind = "enqueue" PROVE Known(o)'
    <3>1. Log("queued", o) /\ "queued" \in EventKinds
      BY <2>4 DEF Emit, EventKinds
    <3>2. Logged("queued", o.of)'
      BY <3>1, <1>b, LogEffect
    <3> QED
      BY <3>2, <2>4
  <2>5. ASSUME Emit("removed", o), o.kind = "remove" PROVE Known(o)'
    <3>1. Log("removed", o) /\ "removed" \in EventKinds
      BY <2>5 DEF Emit, EventKinds
    <3>2. Logged("removed", o.of)'
      BY <3>1, <1>b, LogEffect
    <3> QED
      BY <3>2, <2>5
  <2>6. CASE Confirms(o)
    <3>1. Known(o)
      BY <2>6 DEF Confirms
    <3> QED
      BY <3>1, <1>1, <1>m
  <2> HIDE DEF Known
  <2> QED
    BY <1>3, <2>1, <2>2, <2>3, <2>4, <2>5, <2>6, OpRowChange
<1> QED
  BY <1>2, <1>3

\* A withdrawn turn stays told.
LEMMA WithdrawSettledStep == OpInv /\ [Next]_vars => WithdrawSettled'
<1> SUFFICES ASSUME OpInv, [Next]_vars, NEW t \in withdrawn' PROVE Told(t)'
  BY DEF WithdrawSettled
<1>b. Base /\ withdrawn \subseteq Turns /\ withdrawing \in Turns \cup {None}
      /\ mode \in {"down", "booting", "up", "closing"}
  BY DEF OpInv, Base, TypeOK
<1>1. CASE t \in withdrawn
  BY <1>1, <1>b, LogGrows DEF OpInv, WithdrawSettled
<1>2. CASE t \notin withdrawn
  <2>1. WithdrawEnd
    BY <1>2, WithdrawFrame DEF RecoverOutbox, Crash, Exit, durable, terminal, Withdraw
  <2>2. withdrawing # None /\ t = withdrawing /\ accepted = {}
    BY <2>1, <1>2 DEF WithdrawEnd
  <2>3. t \in Turns /\ mode \in {"up", "closing"}
    BY <2>2, <1>b DEF Base, Quiet
  <2>4. opRow[St(t)] # "none"
    BY <2>2 DEF OpInv, LatestOk
  <2>5. Told(t)
    BY <2>2, <2>3, <2>4 DEF OpInv, SettledOut
  <2> QED
    BY <2>3, <2>5, <1>b, LogGrows
<1> QED
  BY <1>1, <1>2

-----------------------------------------------------------------------------
(* The theorems.                                                           *)

\* The inductive invariant holds at first.
LEMMA OpInvInit == Init => OpInv
<1> SUFFICES ASSUME Init PROVE OpInv
  OBVIOUS
<1>1. Base
  BY BaseInit
<1>2. /\ \A t \in Turns : log[t] = <<>> /\ worker[t] = "none" /\ envelope[t] = None /\ turnRow[t] = "none"
      /\ \A o \in Ops : opRow[o] = "none"
      /\ channel = <<>> /\ mode = "up" /\ latest = None /\ withdrawing = None /\ withdrawn = {}
  BY DEF Init
<1>3. \A t \in Turns : St(t) \in Ops
  BY OpFacts
<1>4. \A t \in Turns : ~Told(t)
  <2> SUFFICES ASSUME NEW t \in Turns PROVE ~Told(t)
    OBVIOUS
  <2>1. Len(log[t]) = 0
    BY <1>2
  <2>2. \A k : ~Logged(k, t)
    BY <2>1 DEF Logged
  <2>3. ~Rejected(Op("start", t))
    BY <2>1, OpFacts DEF Rejected
  <2> QED
    BY <2>2, <2>3 DEF Told, Terminals
<1>h. Held
  <2>1. \A o : ~InChannel(o)
    BY <1>2 DEF InChannel
  <2> QED
    BY <2>1, <1>2 DEF Held
<1>5. Enveloped /\ WorkerKnows /\ RowKnown /\ CommittedTold /\ BootRows /\ BootAccepted /\ SettledOut /\ LatestOk /\ RowsUp
  BY <1>2, <1>3, <1>4
     DEF Enveloped, WorkerKnows, RowKnown, CommittedTold, BootRows, BootAccepted, SettledOut, LatestOk, RowsUp
<1>6. ChannelOk
  BY <1>2 DEF ChannelOk
<1>7. OneTerminal
  BY <1>2 DEF OneTerminal
<1>8. NothingForgotten /\ WithdrawSettled
  BY <1>2 DEF NothingForgotten, WithdrawSettled
<1> QED
  BY <1>1, <1>h, <1>5, <1>6, <1>7, <1>8 DEF OpInv

\* The inductive invariant is kept by every step.
LEMMA OpInvStep == OpInv /\ [Next]_vars => OpInv'
<1> SUFFICES ASSUME OpInv, [Next]_vars PROVE OpInv'
  OBVIOUS
<1>1. Base' /\ Enveloped' /\ ChannelOk' /\ WorkerKnows' /\ Held' /\ RowKnown' /\ CommittedTold'
  BY BaseStep, EnvelopedStep, ChannelStep, WorkerKnowsStep, HeldStep, RowKnownStep, CommittedToldStep DEF OpInv
<1>2. BootRows' /\ BootAccepted' /\ SettledOut' /\ LatestOk' /\ RowsUp'
  BY BootRowsStep, BootAcceptedStep, SettledOutStep, LatestStep, RowsUpStep
<1>3. OneTerminal' /\ NothingForgotten' /\ WithdrawSettled'
  BY OneTerminalStep, NothingForgottenStep, WithdrawSettledStep
<1> QED
  BY <1>1, <1>2, <1>3 DEF OpInv

\* The inductive invariant is an invariant.
LEMMA OpInvAlways == Spec => []OpInv
BY OpInvInit, OpInvStep, PTL DEF Spec

\* Every variable keeps its type, and the channel never holds more than its capacity: a
\* submission is never accepted into a full channel (SubmitWithKey, OperationService).
THEOREM OperationTypes == Spec => []TypeOK
<1>1. OpInv => TypeOK
  BY DEF OpInv, Base
<1> QED
  BY <1>1, OpInvAlways, PTL

\* The log never has two terminal events of one turn, whatever crashes, failed publications
\* and restarts publish its envelope again (TerminalPublisher, Hub.publish).
THEOREM TerminalOnce == Spec => []OneTerminal
<1>1. OpInv => OneTerminal
  BY DEF OpInv
<1> QED
  BY <1>1, OpInvAlways, PTL

\* A committed operation is told by the log or its envelope waits in the outbox, so that no
\* restart can forget it (CommitTerminal, MarkOutboxPublished, Recover).
THEOREM CommitIsRemembered == Spec => []NothingForgotten
<1>1. OpInv => NothingForgotten
  BY DEF OpInv
<1> QED
  BY <1>1, OpInvAlways, PTL

\* While the runtime is up and no worker is busy with a turn, its row is active exactly
\* when the log tells no end of it, whatever crashes and failing writes came before; a turn
\* whose rejection failed in this process keeps its operation accepted, and its row is
\* active at least while the log tells no end (Lifecycle.Project, Recover, RejectOperation).
THEOREM RowsFollowLog == Spec => []RowAgreesWithLog
<1>1. OpInv => RowAgreesWithLog
  BY DEF OpInv, RowKnown, RowsUp, Held, RowAgreesWithLog, St
<1> QED
  BY <1>1, OpInvAlways, PTL

\* A withdrawn turn has its end or its rejection in the log (WithdrawTurn).
THEOREM WithdrawalSettles == Spec => []WithdrawSettled
<1>1. OpInv => WithdrawSettled
  BY DEF OpInv
<1> QED
  BY <1>1, OpInvAlways, PTL

\* A turn whose end is decided, published or rejected never starts to run again
\* (recoverPendingTurns, TurnService.Start).
THEOREM NoTurnRunsAgain == Spec => NoRerun
<1> DEFINE Fresh(t) == worker[t] = "none" /\ worker'[t] = "opening" => ~Told(t) /\ envelope[t] = None
<1>1. OpInv /\ [Next]_vars => \A t \in Turns : Fresh(t)
  <2> SUFFICES ASSUME OpInv, [Next]_vars, NEW t \in Turns, worker[t] = "none", worker'[t] = "opening"
               PROVE  ~Told(t) /\ envelope[t] = None
    OBVIOUS
  <2>1. Base
    BY DEF OpInv
  <2>2. DispatchStart /\ Head(channel) = St(t)
    BY <2>1, WorkerMoves
  <2>3. channel # <<>> /\ mode \in {"up", "closing"}
    BY <2>1, <2>2, HeadFacts DEF DispatchStart
  <2>4. opRow[St(t)] = "accepted"
    BY <2>1, <2>2, <2>3, TailTyped DEF OpInv, Base, ChannelOk
  <2> QED
    BY <2>3, <2>4 DEF OpInv, CommittedTold, Enveloped
<1> QED
  BY <1>1, OpInvAlways, PTL DEF Spec, NoRerun

\* Actions that may change what the contract speaks of.
LEMMA ContractFrame ==
  [Next]_vars =>
     \/ UNCHANGED <<log, opRow, envelope>>
     \/ \E o \in Ops : Submit(o)
     \/ \E t \in Turns : AnnounceTurn(t) \/ RejectTurn(t) \/ PublishTerminal(t) \/
           RecoverOutbox(t)
     \/ \E t \in Turns, e \in Ends : CommitTerminal(t, e)
     \/ \E p \in Drainers : DrainSubmit(p)
     \/ DispatchStart \/ DispatchEnqueue \/ DispatchRemove \/ RemoveQueued \/ Boot \/ Crash
     \/ Failing
BY DEF Failing, Next, TurnStep, DrainStep, LoopStep, StartupStep, OpenTurn, Release, PublishFails,
     ProjectTerminal, FinishTurn, Withdraw, DrainPick, DrainClaim, DrainUnclaim, Activate,
     WithdrawEnd, Close, Exit, vars, durable, events, rows, terminal, operations

-----------------------------------------------------------------------------
(* The first outcome the log tells.                                        *)

\* A nonempty set of naturals has a least element, and CHOOSE finds it.
LEMMA LeastOf ==
  ASSUME NEW S \in SUBSET Nat, S # {}
  PROVE  \E n \in S : (\A m \in S : n <= m) /\ (CHOOSE i \in S : \A m \in S : i <= m) = n
<1>1. IsWellFoundedOn(OpToRel(<, Nat), Nat)
  BY NatLessThanWellFounded
<1>2. PICK x \in S : \A y \in S : ~(<<y, x>> \in OpToRel(<, Nat))
  BY <1>1, WFMin
<1>3. ASSUME NEW y \in S PROVE x <= y
  <2>1. x \in Nat /\ y \in Nat
    OBVIOUS
  <2>2. ~(y < x)
    BY <2>1, <1>2 DEF OpToRel
  <2> QED
    BY <2>1, <2>2
<1> DEFINE c == CHOOSE i \in S : \A m \in S : i <= m
<1>4. c \in S /\ \A m \in S : c <= m
  BY <1>3
<1> QED
  BY <1>4

\* The least element of a set of naturals is unique.
LEMMA LeastIs ==
  ASSUME NEW S \in SUBSET Nat, NEW n \in S, \A m \in S : n <= m
  PROVE  (CHOOSE i \in S : \A m \in S : i <= m) = n
<1> DEFINE c == CHOOSE i \in S : \A m \in S : i <= m
<1>1. c \in S /\ \A m \in S : c <= m
  OBVIOUS
<1> HIDE DEF c
<1>2. c \in Nat /\ n \in Nat /\ c <= n /\ n <= c
  BY <1>1
<1>3. c = n
  BY <1>2
<1> QED
  BY <1>3 DEF c

\* The places of a log where an outcome of turn t is told, and the first outcome.
ToldAt(f, t) == {n \in 1..Len(f[t]) : \/ f[t][n].kind \in Ends
                                      \/ f[t][n] = Event("rejected", Op("start", t))}
FirstTold(f, t) == IF ToldAt(f, t) = {} THEN None
                   ELSE f[t][CHOOSE n \in ToldAt(f, t) : \A m \in ToldAt(f, t) : n <= m].kind
Outcome == [t \in Turns |-> OutcomeOf(t)]

\* They are what OutcomeOf and Told read off the log.
LEMMA FirstToldIs ==
  \A t \in Turns : /\ OutcomeOf(t) = FirstTold(log, t) /\ OutcomeOf(t)' = FirstTold(log', t)
                   /\ (Told(t) <=> ToldAt(log, t) # {}) /\ (Told(t)' <=> ToldAt(log', t) # {})
<1> SUFFICES ASSUME NEW t \in Turns
             PROVE  /\ OutcomeOf(t) = FirstTold(log, t) /\ OutcomeOf(t)' = FirstTold(log', t)
                    /\ (Told(t) <=> ToldAt(log, t) # {}) /\ (Told(t)' <=> ToldAt(log', t) # {})
  OBVIOUS
<1>1. OutcomeOf(t) = FirstTold(log, t) /\ OutcomeOf(t)' = FirstTold(log', t)
  BY DEF OutcomeOf, FirstTold, ToldAt
<1>2. Op("start", t).of = t
  BY OpFacts
<1>3. Told(t) <=> ToldAt(log, t) # {}
  BY <1>2 DEF Told, ToldAt, Terminals, Logged, Rejected
<1>4. Told(t)' <=> ToldAt(log', t) # {}
  BY <1>2 DEF Told, ToldAt, Terminals, Logged, Rejected
<1> QED
  BY <1>1, <1>3, <1>4

\* A turn that is told has an outcome, and it is an end or a rejection.
LEMMA FirstToldTyped ==
  ASSUME NEW f, NEW t \in Turns, ToldAt(f, t) # {}
  PROVE  FirstTold(f, t) \in Ends \cup {"rejected"} /\ FirstTold(f, t) # None
<1>1. ToldAt(f, t) \in SUBSET Nat
  BY DEF ToldAt
<1>2. PICK n \in ToldAt(f, t) : (CHOOSE i \in ToldAt(f, t) : \A m \in ToldAt(f, t) : i <= m) = n
  BY <1>1, LeastOf
<1>3. FirstTold(f, t) = f[t][n].kind
  BY <1>2 DEF FirstTold
<1>4. f[t][n].kind \in Ends \cup {"rejected"}
  BY <1>2 DEF ToldAt, Event
<1> QED
  BY <1>3, <1>4, EndFacts

\* A turn is told exactly when it has an outcome.
LEMMA ToldHasOutcome == \A t \in Turns : Told(t) <=> Outcome[t] # None
BY FirstToldIs, FirstToldTyped DEF Outcome, FirstTold

\* An event changes the outcome only of a turn that had none.
LEMMA OutcomeEffect ==
  ASSUME Base, NEW k \in EventKinds \cup Ends, NEW o \in Ops, Log(k, o), NEW t \in Turns
  PROVE  OutcomeOf(t)' = IF ~Told(t) /\ Told(t)' THEN k ELSE OutcomeOf(t)
<1>b. log \in [Turns -> Seq(Events)] /\ o.of \in Turns
  BY OpFacts DEF Base, TypeOK
<1>0. log' = [log EXCEPT ![o.of] = Append(@, Event(k, o))]
  BY DEF Log
<1>f. /\ OutcomeOf(t) = FirstTold(log, t) /\ OutcomeOf(t)' = FirstTold(log', t)
      /\ (Told(t) <=> ToldAt(log, t) # {}) /\ (Told(t)' <=> ToldAt(log', t) # {})
  BY FirstToldIs
<1>1. CASE t # o.of
  <2>1. log'[t] = log[t]
    BY <1>0, <1>1, <1>b
  <2>2. FirstTold(log', t) = FirstTold(log, t) /\ ToldAt(log', t) = ToldAt(log, t)
    BY <2>1 DEF FirstTold, ToldAt
  <2> QED
    BY <2>2, <1>f
<1>2. CASE t = o.of
  <2> DEFINE s == log[t]
             e == Event(k, o)
             S == ToldAt(log, t)
             T == ToldAt(log', t)
  <2>1. s \in Seq(Events) /\ log'[t] = Append(s, e) /\ e \in Events /\ e.kind = k
    BY <1>0, <1>2, <1>b, EventTyped DEF Event
  <2>s. S \in SUBSET Nat /\ T \in SUBSET Nat
    BY DEF ToldAt
  <2> HIDE DEF e
  <2>2. /\ Len(log'[t]) = Len(s) + 1 /\ Len(s) \in Nat
        /\ \A i \in 1..Len(s) : log'[t][i] = s[i]
        /\ log'[t][Len(s) + 1] = e
    <3> HIDE DEF s
    <3> QED
      BY <2>1
  <2>3. \A n \in 1..Len(s) : n \in T <=> n \in S
    <3>1. \A n \in 1..Len(s) : n \in 1..Len(log'[t])
      BY <2>2
    <3> QED
      BY <3>1, <2>2 DEF ToldAt
  <2>4. \A n \in T : n \in 1..Len(s) \/ n = Len(s) + 1
    <3>1. \A n \in T : n \in 1..Len(log'[t])
      BY DEF ToldAt
    <3> QED
      BY <3>1, <2>2
  <2>5. \A n \in S : n \in 1..Len(s)
    BY DEF ToldAt
  <2>6. CASE S # {}
    <3>1. PICK n \in S : \A m \in S : n <= m
      BY <2>6, <2>s, LeastOf
    <3>2. n \in 1..Len(s) /\ n \in T
      BY <2>3, <2>5
    <3>3. \A m \in T : n <= m
      <4> SUFFICES ASSUME NEW m \in T PROVE n <= m
        OBVIOUS
      <4> HIDE DEF S, T, s
      <4>1. CASE m \in 1..Len(s)
        BY <4>1, <2>3, <3>1
      <4>2. CASE m = Len(s) + 1
        BY <4>2, <3>2, <2>2
      <4> QED
        BY <4>1, <4>2, <2>4
    <3>4. (CHOOSE i \in S : \A m \in S : i <= m) = n /\ (CHOOSE i \in T : \A m \in T : i <= m) = n
      BY <2>s, <3>1, <3>2, <3>3, LeastIs
    <3>5. FirstTold(log, t) = s[n].kind
      BY <3>4, <2>6 DEF FirstTold
    <3>6. FirstTold(log', t) = log'[t][n].kind
      BY <3>2, <3>4 DEF FirstTold
    <3>7. log'[t][n] = s[n]
      BY <3>2, <2>2
    <3>8. FirstTold(log', t) = FirstTold(log, t)
      BY <3>5, <3>6, <3>7
    <3> QED
      BY <3>8, <1>f, <2>6
  <2>7. CASE S = {} /\ T # {}
    <3>1. PICK n \in T : (CHOOSE i \in T : \A m \in T : i <= m) = n
      BY <2>7, <2>s, LeastOf
    <3>2. n = Len(s) + 1
      BY <2>3, <2>4, <2>7
    <3>3. FirstTold(log', t) = log'[t][n].kind
      BY <3>1 DEF FirstTold
    <3>4. FirstTold(log', t) = k
      BY <3>2, <3>3, <2>1, <2>2
    <3> QED
      BY <3>4, <1>f, <2>7
  <2>8. CASE S = {} /\ T = {}
    <3>1. FirstTold(log', t) = None /\ FirstTold(log, t) = None
      BY <2>8 DEF FirstTold
    <3> QED
      BY <3>1, <1>f, <2>8
  <2> QED
    BY <2>6, <2>7, <2>8
<1> QED
  BY <1>1, <1>2

-----------------------------------------------------------------------------
(* The runtime implements the contract.                                    *)

\* A step that moves nothing the contract speaks of.
LEMMA ContractStutter ==
  ASSUME opRow' = opRow, envelope' = envelope, Outcome' = Outcome
  PROVE  UNCHANGED Contract!vars
BY DEF Contract!vars, Outcome

\* An event that tells nothing new leaves the outcomes.
LEMMA OutcomeSame ==
  ASSUME Base, \A t \in Turns : Told(t)' => Told(t),
         log' = log \/ \E k \in EventKinds \cup Ends, o \in Ops : Log(k, o)
  PROVE  Outcome' = Outcome
<1>1. ASSUME NEW t \in Turns PROVE OutcomeOf(t)' = OutcomeOf(t)
  <2>1. CASE log' = log
    BY <2>1 DEF OutcomeOf
  <2>2. ASSUME NEW k \in EventKinds \cup Ends, NEW o \in Ops, Log(k, o) PROVE OutcomeOf(t)' = OutcomeOf(t)
    BY <2>2, OutcomeEffect
  <2> QED
    BY <2>1, <2>2
<1> QED
  BY <1>1 DEF Outcome

\* An event of a turn that tells its first outcome sets it.
LEMMA OutcomeSet ==
  ASSUME Base, NEW t \in Turns, ~Told(t), NEW k \in Ends \cup {"rejected"}, Log(k, St(t))
  PROVE  Outcome' = [Outcome EXCEPT ![t] = k]
<1>1. k \in EventKinds \cup Ends /\ St(t) \in Ops /\ St(t).of = t /\ log \in [Turns -> Seq(Events)]
  BY OpFacts DEF EventKinds, Base, TypeOK
<1>2. Told(t)'
  BY <1>1, ToldEffect
<1>3. \A u \in Turns : u # t => (Told(u)' => Told(u))
  BY <1>1, ToldEffect, OpFacts
<1>4. \A u \in Turns : OutcomeOf(u)' = IF u = t THEN k ELSE OutcomeOf(u)
  BY <1>1, <1>2, <1>3, OutcomeEffect
<1> QED
  BY <1>4 DEF Outcome

\* A rejection of a start is a rejection of the contract, or adds nothing.
LEMMA ContractReject ==
  ASSUME OpInv, [Next]_vars, NEW t \in Turns, Log("rejected", St(t)), opRow[St(t)] # "none",
         mode # "down", worker[t] # "lost", envelope' = envelope,
         opRow' = opRow \/ opRow' = [opRow EXCEPT ![St(t)] = "committed"]
  PROVE  [Contract!Next]_(Contract!vars)
<1>b. /\ Base /\ opRow \in [Ops -> {"none", "accepted", "committed"}] /\ St(t) \in Ops
      /\ log \in [Turns -> Seq(Events)] /\ "rejected" \in EventKinds
  BY OpFacts DEF OpInv, Base, TypeOK, EventKinds
<1>1. CASE Told(t)
  <2>1. opRow[St(t)] = "committed"
    BY <1>1 DEF OpInv, CommittedTold
  <2>2. opRow' = opRow
    BY <2>1, <1>b
  <2>3. \A u \in Turns : Told(u)' => Told(u)
    BY <1>1, <1>b, ToldEffect, OpFacts, EndFacts
  <2>4. Outcome' = Outcome
    BY <2>3, <1>b, OutcomeSame
  <2> QED
    BY <2>2, <2>4, ContractStutter
<1>2. CASE ~Told(t)
  <2>1. Outcome' = [Outcome EXCEPT ![t] = "rejected"] /\ Outcome[t] = None
    BY <1>2, <1>b, OutcomeSet, ToldHasOutcome
  <2>2. Contract!Reject(t)
    BY <2>1 DEF Contract!Reject, Contract!Start, Outcome, St, Op
  <2> QED
    BY <2>2 DEF Contract!Next
<1> QED
  BY <1>1, <1>2

\* A publication tells what was promised, or adds nothing.
LEMMA ContractTell ==
  ASSUME OpInv, [Next]_vars, NEW t \in Turns, Log(envelope[t], St(t)), envelope[t] # None,
         envelope' = envelope, opRow' = opRow
  PROVE  [Contract!Next]_(Contract!vars)
<1>b. /\ Base /\ St(t) \in Ops /\ St(t).of = t /\ envelope[t] \in Ends
      /\ log \in [Turns -> Seq(Events)]
  BY OpFacts DEF OpInv, Base, TypeOK
<1>1. CASE Told(t)
  <2>1. \A u \in Turns : Told(u)' => Told(u)
    BY <1>1, <1>b, ToldEffect, OpFacts, EndFacts
  <2>2. Outcome' = Outcome
    BY <2>1, <1>b, OutcomeSame
  <2> QED
    BY <2>2, ContractStutter
<1>2. CASE ~Told(t)
  <2>1. Outcome' = [Outcome EXCEPT ![t] = envelope[t]] /\ Outcome[t] = None
    BY <1>2, <1>b, OutcomeSet, ToldHasOutcome
  <2>2. Contract!Tell(t)
    BY <2>1 DEF Contract!Tell, Outcome
  <2> QED
    BY <2>2 DEF Contract!Next
<1> QED
  BY <1>1, <1>2

\* The commit of an operation that is not a start settles it.
LEMMA ContractSettle ==
  ASSUME OpInv, NEW S \in SUBSET Ops,
         \A o \in S : opRow[o] = "accepted" /\ (o.kind = "start" => Told(o.of) /\ o.of \in Turns),
         opRow' = [o \in Ops |-> IF o \in S THEN "committed" ELSE opRow[o]],
         envelope' = envelope, Outcome' = Outcome
  PROVE  [Contract!Next]_(Contract!vars)
<1>1. CASE S = {}
  <2>1. opRow' = opRow
    BY <1>1 DEF OpInv, Base, TypeOK
  <2> QED
    BY <2>1, ContractStutter
<1>2. CASE S # {}
  <2>1. \A o \in S : o.kind = "start" => Outcome[o.of] # None
    BY ToldHasOutcome
  <2>2. Contract!Settle(S)
    BY <1>2, <2>1 DEF Contract!Settle, Outcome
  <2> QED
    BY <2>2 DEF Contract!Next
<1> QED
  BY <1>1, <1>2

\* An acceptance is an acceptance of the contract: every turn accepted before has an outcome.
LEMMA ContractAccept ==
  ASSUME OpInv, [Next]_vars, NEW o \in Ops, Takes(o)
  PROVE  [Contract!Next]_(Contract!vars)
<1>1. opRow[o] = "none" /\ opRow' = [opRow EXCEPT ![o] = "accepted"] /\ envelope' = envelope /\ log' = log
  BY DEF Takes, Accept
<1>2. Outcome' = Outcome
  BY <1>1, SameLog, OutcomeSame DEF OpInv
<1>3. ASSUME o.kind = "start", NEW t \in Turns, opRow[St(t)] # "none" PROVE Outcome[t] # None
  <2>1. turnRow[t] # "active"
    BY <1>1, <1>3 DEF Takes, Refused
  <2>2. Told(t)
    BY <2>1, <1>3 DEF OpInv, RowKnown
  <2> QED
    BY <2>2, ToldHasOutcome
<1>4. Contract!Accept(o)
  BY <1>1, <1>2, <1>3 DEF Contract!Accept, Contract!Start, Outcome, St, Op
<1> QED
  BY <1>4 DEF Contract!Next

\* The commit of a terminal envelope is a promise of the contract.
LEMMA ContractPromise ==
  ASSUME OpInv, [Next]_vars, NEW t \in Turns, NEW e \in Ends, CommitTerminal(t, e)
  PROVE  [Contract!Next]_(Contract!vars)
<1>1. /\ envelope' = [envelope EXCEPT ![t] = e] /\ opRow' = [opRow EXCEPT ![St(t)] = "committed"]
      /\ log' = log /\ worker[t] \in {"opening", "opened", "running"}
  BY DEF CommitTerminal, events, St
<1>2. Outcome' = Outcome
  BY <1>1, SameLog, OutcomeSame DEF OpInv
<1>3. opRow[St(t)] = "accepted"
  BY <1>1 DEF OpInv, WorkerKnows
<1>4. envelope[t] = None
  BY <1>3 DEF OpInv, Enveloped
<1>5. mode # "down"
  BY <1>1 DEF OpInv, Base, Quiet
<1>6. Outcome[t] = None
  BY <1>1, <1>3, <1>5, ToldHasOutcome DEF OpInv, CommittedTold
<1>7. Contract!Promise(t, e)
  BY <1>1, <1>2, <1>3, <1>4, <1>6 DEF Contract!Promise, Contract!Start, Outcome, St, Op
<1> QED
  BY <1>7 DEF Contract!Next

\* A commit by the dispatch loop of an operation that is not a start.
LEMMA ContractDispatch ==
  ASSUME OpInv, [Next]_vars, NEW o \in Ops, o.kind # "start", opRow[o] = "accepted",
         NEW k \in EventKinds, Log(k, o), envelope' = envelope,
         opRow' = opRow \/ opRow' = [opRow EXCEPT ![o] = "committed"]
  PROVE  [Contract!Next]_(Contract!vars)
<1>b. Base /\ opRow \in [Ops -> {"none", "accepted", "committed"}] /\ log \in [Turns -> Seq(Events)]
  BY DEF OpInv, Base, TypeOK
<1>0. k \notin Ends /\ \A t \in Turns : o # St(t)
  BY OpFacts, EndFacts
<1>1. \A t \in Turns : Told(t)' => Told(t)
  BY <1>0, <1>b, ToldEffect
<1>2. Outcome' = Outcome
  BY <1>1, <1>b, OutcomeSame
<1>3. CASE opRow' = opRow
  BY <1>2, <1>3, ContractStutter
<1>4. CASE opRow' = [opRow EXCEPT ![o] = "committed"]
  <2> DEFINE S == {o}
  <2>1. S \in SUBSET Ops /\ \A p \in S : opRow[p] = "accepted" /\ (p.kind = "start" => Told(p.of) /\ p.of \in Turns)
    OBVIOUS
  <2>2. opRow' = [p \in Ops |-> IF p \in S THEN "committed" ELSE opRow[p]]
    BY <1>4, <1>b
  <2> HIDE DEF S
  <2> QED
    BY <1>2, <2>1, <2>2, ContractSettle
<1> QED
  BY <1>3, <1>4

\* A restart settles what the log confirms.
LEMMA ContractBoot ==
  ASSUME OpInv, [Next]_vars, Boot
  PROVE  [Contract!Next]_(Contract!vars)
<1> DEFINE S == {o \in Ops : opRow[o] = "accepted" /\ Confirms(o)}
<1>1. envelope' = envelope /\ log' = log
  BY DEF Boot, terminal, events
<1>2. Outcome' = Outcome
  BY <1>1, SameLog, OutcomeSame DEF OpInv
<1>3. ASSUME NEW o \in S PROVE opRow[o] = "accepted" /\ (o.kind = "start" => Told(o.of) /\ o.of \in Turns)
  BY OpFacts DEF Confirms, Told, St
<1>4. opRow' = [o \in Ops |-> IF o \in S THEN "committed" ELSE opRow[o]]
  BY DEF Boot
<1>5. S \in SUBSET Ops
  OBVIOUS
<1> HIDE DEF S
<1> QED
  BY <1>1, <1>2, <1>3, <1>4, <1>5, ContractSettle

\* Every step of the runtime is a step of the contract or moves nothing it speaks of.
LEMMA ContractStep == OpInv /\ [Next]_vars => [Contract!Next]_(Contract!vars)
<1> SUFFICES ASSUME OpInv, [Next]_vars PROVE [Contract!Next]_(Contract!vars)
  OBVIOUS
<1>b. Base
  BY DEF OpInv
<1>c. channel # <<>> => opRow[Head(channel)] = "accepted"
  BY <1>b, TailTyped DEF OpInv, ChannelOk, Base
<1>s. ASSUME opRow' = opRow, envelope' = envelope, \A t \in Turns : Told(t)' => Told(t),
             log' = log \/ \E k \in EventKinds \cup Ends, o \in Ops : Log(k, o)
      PROVE  [Contract!Next]_(Contract!vars)
  BY <1>s, <1>b, OutcomeSame, ContractStutter
<1>0. CASE UNCHANGED <<log, opRow, envelope>>
  BY <1>0, <1>s, SameLog
<1>1. ASSUME NEW o \in Ops, RejectOp(o), envelope' = envelope, mode # "down",
             opRow[o] # "none", o.kind # "start" => opRow[o] = "accepted",
             o.kind = "start" => worker[o.of] # "lost"
      PROVE  [Contract!Next]_(Contract!vars)
  <2>1. Log("rejected", o) /\ opRow' = [opRow EXCEPT ![o] = "committed"] /\ "rejected" \in EventKinds
    BY <1>1 DEF RejectOp, Emit, EventKinds
  <2>2. CASE o.kind = "start"
    <3>1. o = St(o.of) /\ o.of \in Turns
      BY <2>2, OpFacts
    <3> QED
      BY <3>1, <2>1, <2>2, <1>1, ContractReject
  <2>3. CASE o.kind # "start"
    BY <2>1, <2>3, <1>1, ContractDispatch
  <2> QED
    BY <2>2, <2>3
<1>2. ASSUME NEW t \in Turns, AnnounceTurn(t) PROVE [Contract!Next]_(Contract!vars)
  <2>1. Log("started", St(t)) /\ "started" \in EventKinds /\ St(t) \in Ops /\ "started" \notin Ends
    BY <1>2, OpFacts, EndFacts DEF AnnounceTurn, Emit, EventKinds, St
  <2>2. opRow' = opRow /\ envelope' = envelope /\ log \in [Turns -> Seq(Events)]
    BY <1>2, <1>b DEF AnnounceTurn, terminal, Base, TypeOK
  <2>3. \A u \in Turns : Told(u)' => Told(u)
    BY <2>1, <2>2, ToldEffect
  <2> QED
    BY <2>1, <2>2, <2>3, <1>s
<1>3. ASSUME NEW t \in Turns, RejectTurn(t) PROVE [Contract!Next]_(Contract!vars)
  <2>1. RejectOp(St(t)) /\ envelope' = envelope /\ worker[t] = "reject"
    BY <1>3 DEF RejectTurn, St, terminal
  <2>2. opRow[St(t)] # "none" /\ mode # "down" /\ St(t) \in Ops /\ St(t).kind = "start"
    BY <2>1, OpFacts, TurnFacts
  <2> QED
    BY <2>1, <2>2, <1>1, OpFacts
<1>4. ASSUME NEW t \in Turns, PublishTerminal(t) \/ RecoverOutbox(t) PROVE [Contract!Next]_(Contract!vars)
  <2>1. envelope' = envelope /\ opRow' = opRow
    BY <1>4 DEF PublishTerminal, RecoverOutbox, terminal, rows
  <2>2. log' = log \/ Log(envelope[t], St(t))
    BY <1>4 DEF PublishTerminal, RecoverOutbox, events, St
  <2>3. envelope[t] # None
    BY <1>4, TurnFacts, EndFacts DEF PublishTerminal, RecoverOutbox
  <2> QED
    BY <2>1, <2>2, <2>3, <1>0, ContractTell
<1>5. CASE DispatchStart
  <2>1. channel # <<>> /\ Head(channel) \in Ops /\ mode # "down" /\ Head(channel).kind = "start" /\ envelope' = envelope
    BY <1>5, <1>b, HeadFacts DEF DispatchStart, terminal
  <2>2. RejectOp(Head(channel)) \/ UNCHANGED <<log, opRow>>
    BY <1>5 DEF DispatchStart, events
  <2>3. worker[Head(channel).of] # "lost"
    BY <2>1, TurnFacts, OpFacts
  <2> QED
    BY <2>1, <2>2, <2>3, <1>0, <1>1, <1>c
<1>6. CASE DispatchRemove
  <2>1. channel # <<>> /\ Head(channel) \in Ops /\ Head(channel).kind = "remove" /\ mode # "down" /\ envelope' = envelope
    BY <1>6, <1>b, HeadFacts DEF DispatchRemove, terminal
  <2>2. RejectOp(Head(channel)) \/ UNCHANGED <<log, opRow>>
    BY <1>6 DEF DispatchRemove, events
  <2> QED
    BY <2>1, <2>2, <1>0, <1>1, <1>c
<1>7. CASE DispatchEnqueue
  <2>1. channel # <<>> /\ Head(channel) \in Ops /\ Head(channel).kind # "start" /\ envelope' = envelope
    BY <1>7, <1>b, HeadFacts DEF DispatchEnqueue, terminal
  <2>2. Log("queued", Head(channel)) /\ "queued" \in EventKinds /\ opRow' = [opRow EXCEPT ![Head(channel)] = "committed"]
    BY <1>7 DEF DispatchEnqueue, Emit, EventKinds
  <2> QED
    BY <2>1, <2>2, <1>c, ContractDispatch
<1>8. CASE RemoveQueued
  <2>1. channel # <<>> /\ Head(channel) = Op("remove", loop) /\ loop \in Items /\ envelope' = envelope
    BY <1>8, <1>b DEF RemoveQueued, terminal, Base, LoopOk, TypeOK
  <2>2. Log("removed", Head(channel)) /\ "removed" \in EventKinds
        /\ (opRow' = opRow \/ opRow' = [opRow EXCEPT ![Head(channel)] = "committed"])
    BY <1>8, <2>1 DEF RemoveQueued, Emit, EventKinds
  <2>3. Head(channel) \in Ops /\ Head(channel).kind # "start"
    BY <2>1, OpFacts
  <2> QED
    BY <2>1, <2>2, <2>3, <1>c, ContractDispatch
<1>9. CASE Crash
  <2>1. envelope' = envelope /\ opRow' = opRow /\ mode # "down"
    BY <1>9 DEF Crash, terminal, rows
  <2>2. CASE log' = log
    BY <2>1, <2>2, <1>0
  <2>3. ASSUME NEW x \in InFlight, Log(x[1], x[2]) PROVE [Contract!Next]_(Contract!vars)
    <3>1. CASE \E t \in Turns : x[1] = "rejected" /\ x[2] = St(t) /\ worker[t] = "reject"
      <4>1. PICK t \in Turns : x[1] = "rejected" /\ x[2] = St(t) /\ worker[t] = "reject"
        BY <3>1
      <4>2. Log("rejected", St(t)) /\ opRow[St(t)] # "none"
        BY <4>1, <2>3, TurnFacts
      <4> QED
        BY <4>1, <4>2, <2>1, ContractReject
    <3>2. CASE \E i \in Items : \/ x[1] = "queued" /\ x[2] = Op("enqueue", i)
                                \/ x[1] = "removed" /\ x[2] = Op("remove", i)
      <4>1. x[1] \in EventKinds /\ x[1] \notin Ends /\ x[1] # "rejected" /\ x[2] \in Ops
        BY <3>2, OpFacts, EndFacts DEF EventKinds
      <4>2. \A u \in Turns : Told(u)' => Told(u)
        BY <4>1, <2>3, <1>b, ToldEffect DEF Base, TypeOK
      <4> QED
        BY <4>1, <4>2, <2>1, <2>3, <1>s
    <3>3. CASE \E t \in Turns : x[1] = envelope[t] /\ x[2] = St(t) /\ x[1] \in Ends
      <4>1. PICK t \in Turns : x[1] = envelope[t] /\ x[2] = St(t) /\ x[1] \in Ends
        BY <3>3
      <4>2. Log(envelope[t], St(t)) /\ envelope[t] # None
        BY <4>1, <2>3, EndFacts
      <4> QED
        BY <4>2, <2>1, ContractTell
    <3> QED
      BY <3>1, <3>2, <3>3, <1>b, InFlightTyped
  <2> QED
    BY <1>9, <2>2, <2>3 DEF Crash, events
<1>10. ASSUME NEW p \in Drainers, DrainSubmit(p) PROVE [Contract!Next]_(Contract!vars)
  <2>1. UNCHANGED <<log, opRow, envelope>> \/ \E o \in Ops : Takes(o)
    BY <1>10, <1>b, SubmitTakes DEF DrainSubmit, events, terminal
  <2> QED
    BY <2>1, <1>0, ContractAccept
<1>11. ASSUME NEW o \in Ops, Submit(o) PROVE [Contract!Next]_(Contract!vars)
  BY <1>11, SubmitTakes, ContractAccept
<1>12. CASE Failing
  <2>1. envelope' = envelope /\ opRow' = opRow /\ mode # "down"
    BY <1>12, <1>b, FailEffect
  <2>2. PICK o \in Ops : FailsOf(o)
    BY <1>12, <1>b, FailEffect
  <2>3. CASE log' = log
    BY <2>1, <2>3, <1>0
  <2>4. ASSUME NEW k \in {"rejected", "queued", "removed"}, Log(k, o), o.kind = "start" => k = "rejected"
        PROVE  [Contract!Next]_(Contract!vars)
    <3>1. CASE o.kind = "start"
      <4>1. o = St(o.of) /\ o.of \in Turns
        BY <3>1, OpFacts
      <4>2. opRow[St(o.of)] # "none" /\ worker[o.of] # "lost"
        BY <4>1, <2>2, FailWho, TurnFacts
      <4> QED
        BY <4>1, <4>2, <3>1, <2>1, <2>4, ContractReject
    <3>2. CASE o.kind # "start"
      <4>1. channel # <<>> /\ o = Head(channel)
        BY <2>2, <3>2, OpFacts DEF FailsOf
      <4> QED
        BY <4>1, <3>2, <2>1, <2>4, <1>c, ContractDispatch DEF EventKinds
    <3> QED
      BY <3>1, <3>2
  <2>5. log' = log \/ \E k \in {"rejected", "queued", "removed"} : Log(k, o) /\ (o.kind = "start" => k = "rejected")
    BY <2>2 DEF FailsOf
  <2> QED
    BY <2>3, <2>4, <2>5
<1> QED
  BY <1>0, <1>2, <1>3, <1>4, <1>5, <1>6, <1>7, <1>8, <1>9, <1>10, <1>11, <1>12, ContractFrame,
     ContractPromise, ContractBoot

\* The runtime implements the contract of operations for any number of turns, restarts and
\* failures: its rows, envelopes and first outcomes start and move as OperationContract
\* allows (Accept, CommitTerminal, PublishTerminal, RejectOp, Recover).
THEOREM RuntimeKeepsContract == Spec => KeepsContract
<1>1. Init => Contract!Init
  <2> SUFFICES ASSUME Init PROVE Contract!Init
    OBVIOUS
  <2>1. \A t \in Turns : OutcomeOf(t) = None
    <3> SUFFICES ASSUME NEW t \in Turns PROVE OutcomeOf(t) = None
      OBVIOUS
    <3>1. Len(log[t]) = 0
      BY DEF Init
    <3>2. ToldAt(log, t) = {}
      BY <3>1 DEF ToldAt
    <3> QED
      BY <3>2, FirstToldIs DEF FirstTold
  <2> QED
    BY <2>1 DEF Init, Contract!Init
<1> QED
  BY <1>1, ContractStep, OpInvAlways, PTL DEF Spec, KeepsContract, Contract!Spec

=============================================================================
