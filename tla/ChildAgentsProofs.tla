------------------------- MODULE ChildAgentsProofs -------------------------
(***************************************************************************)
(* Proofs about ChildAgents, for any agents, callers and bounds: the       *)
(* governor's flights, the manager's slots and the records of leased turns.*)
(*                                                                         *)
(* None of the three is inductive.  ChildInv adds who may hold what: a     *)
(* call has a turn of its own until it submits it, other places name       *)
(* submitted turns only, and the slot of an agent's budget scope belongs   *)
(* to one call or to the leased turn that is tracked.                      *)
(***************************************************************************)
EXTENDS ChildAgents, FiniteSetTheorems, TLAPS

\* Records of calls, turns and settlements.
CallRecord == [pc : Steps \cup {"idle"}, agent : Agents \cup {None}, turn : Turns \cup {NoTurn},
               kind : {"delegate", "followup", "control", "none"}]
TurnRecord == [agent : Agents \cup {None}, used : Used,
               state : TurnStates,
               status : Endings \cup {"none"}]
JobRecord == [agent : Agents, turn : Turns, status : Endings, used : Used]

\* The types the argument needs; sums of tokens are left out of it.
CallsTyped ==
  /\ call \in [Callers -> CallRecord]
  /\ \A c \in Callers : call[c].pc # "idle" => call[c].agent \in Agents
LedgerTyped ==
  /\ DOMAIN account = Scopes /\ \A a \in Agents : account[a].slots \in Nat
  /\ DOMAIN reservation = Turns
TurnsTyped ==
  /\ turn \in [Turns -> TurnRecord]
  /\ \A t \in Turns : turn[t].state \in {"ended", "rejected"} => turn[t].status \in Endings
GraphTyped ==
  /\ status \in [Agents -> Statuses]
  /\ turnID \in [Agents -> Turns \cup {NoTurn}]
TrackedTyped ==
  /\ turns \in [Agents -> [id : Turns \cup {NoTurn}, leased : BOOLEAN]]
  /\ jobs \subseteq JobRecord
  /\ flight \in Int
Shape == CallsTyped /\ LedgerTyped /\ TurnsTyped /\ GraphTyped /\ TrackedTyped

\* Steps of StartTurn before the turn is submitted, and turns that were.
Before == {"admit", "reserve", "activate", "track", "submit"}
Known(t) == t # NoTurn => turn[t].state \notin {"none", "named"}

\* A call has a turn of its own until it submits it.
NamedTurns ==
  \A c \in Callers : call[c].pc \in Before =>
    /\ call[c].turn \in Turns /\ turn[call[c].turn].state = "named"
    /\ turn[call[c].turn].agent = call[c].agent
NamedOnce ==
  \A c, d \in Callers :
    call[c].pc \in Before /\ call[d].pc \in Before /\ call[c].turn = call[d].turn => c = d
Named == NamedTurns /\ NamedOnce

\* Every other place that names a turn names one that was submitted.
KnownIDs == \A a \in Agents : Known(turnID[a])
KnownTracked == \A a \in Agents : ~turns[a].leased => Known(turns[a].id)
KnownCalls == \A c \in Callers : call[c].pc \in {"accepted", "interrupt"} => Known(call[c].turn)
KnownJobs == \A j \in jobs : Known(j.turn)
AllKnown == KnownIDs /\ KnownTracked /\ KnownCalls /\ KnownJobs

\* Turns are started for agents that have left "requested".
Begun(a) == a \in Agents /\ status[a] \notin {"none", "requested"}
BegunCalls == \A c \in Callers : call[c].pc \in Before \cup {"check"} => Begun(call[c].agent)
BegunTurns == \A t \in Turns : turn[t].state \notin {"none", "named"} => Begun(turn[t].agent)
AllBegun == BegunCalls /\ BegunTurns

\* The slot of an agent's scope is what keeps its turns apart: it belongs to one call, or to
\* the leased turn that is tracked; a turn tracked without a lease has no reservation.
Claims(c, a) == call[c].agent = a /\ call[c].pc \in {"activate", "track", "submit"}
OneClaim == \A c, d \in Callers, a \in Agents : Claims(c, a) /\ Claims(d, a) => c = d
ClaimHasSlot == \A c \in Callers, a \in Agents : Claims(c, a) => account[a].slots > 0
LeaseHasSlot == \A a \in Agents : turns[a].leased => account[a].slots > 0
ClaimIsLease ==
  \A c \in Callers, a \in Agents :
    Claims(c, a) /\ turns[a].leased => call[c].pc = "submit" /\ turns[a].id = call[c].turn
RecoveredFree ==
  \A a \in Agents : turns[a].id # NoTurn /\ ~turns[a].leased =>
    reservation[turns[a].id].state # "active"
Claimed == OneClaim /\ ClaimHasSlot /\ LeaseHasSlot /\ ClaimIsLease /\ RecoveredFree

\* Only close_agent drops the thread of a turn that is about to be submitted.
ClosedSubmits ==
  \A c \in Callers : call[c].pc = "submit" /\ ~turns[call[c].agent].leased =>
    status[call[c].agent] = "closed"
ClosedReleases ==
  \A c \in Callers : call[c].pc \in {"release", "releaseThread"} => status[call[c].agent] = "closed"
ClosedFirst == ClosedSubmits /\ ClosedReleases

\* Closed agents whose StartTurn calls have all passed Activate or been refused by it.
Passing(c) == call[c].pc \in {"track", "submit"}
Unheld == {a \in Closed : \A c \in Callers : Passing(c) => call[c].agent # a}
Flights ==
  /\ flight <= Cardinality(Holding) + Cardinality(Leased)
  /\ Cardinality(Holding) + Cardinality(Leased) <= flight + Cardinality(Unheld)

\* The inductive invariant.
ChildInv ==
  /\ Shape /\ Named /\ AllKnown /\ AllBegun /\ Claimed /\ ClosedFirst /\ Flights
  /\ SlotsExact

-----------------------------------------------------------------------------
(* Constants, and what the parts of an action do.                          *)

\* Agents and callers are finite sets, and the scope of the tree is no agent.
LEMMA Finite == IsFiniteSet(Agents) /\ IsFiniteSet(Callers) /\ Tree \notin Agents
BY ChildConstants DEF Tree

\* Settling or refunding a reservation changes only the account of its agent, and only if
\* the reservation is active.
LEMMA SettleEffect ==
  ASSUME NEW a \in Agents, NEW t \in Turns, NEW used, LedgerTyped, SettleBudget(a, t, used)
  PROVE  /\ LedgerTyped'
         /\ \A b \in Agents \ {a} : account'[b].slots = account[b].slots
         /\ \A u \in Turns : reservation'[u].state = "active" => reservation[u].state = "active"
         /\ reservation[t].state # "active" => UNCHANGED ledger
<1>1. CASE reservation[t].state # "active"
  BY <1>1 DEF SettleBudget, LedgerTyped, ledger
<1>2. CASE reservation[t].state = "active"
  <2>1. account' = Subtract(a, t, used)
    BY <1>2 DEF SettleBudget
  <2>2. \A b \in Agents : b \in Scopes /\ (b \in Updated(a, t) => b = a /\ account[a].slots >= 1)
    BY Finite DEF Updated, Path, CanSubtract, Scopes
  <2>3. \A b \in Agents : account'[b].slots = IF b \in Updated(a, t) THEN account[b].slots - 1
                                              ELSE account[b].slots
    BY <2>1, <2>2 DEF Subtract
  <2>4. \A b \in Agents : account'[b].slots \in Nat
    BY <2>2, <2>3 DEF LedgerTyped
  <2>5. \A b \in Agents \ {a} : account'[b].slots = account[b].slots
    BY <2>2, <2>3
  <2>6. DOMAIN account' = Scopes
    BY <2>1 DEF Subtract
  <2> QED BY <1>2, <2>4, <2>5, <2>6 DEF SettleBudget, LedgerTyped
<1> QED BY <1>1, <1>2

\* A call moves on; the other calls stay where they are.
LEMMA GotoEffect ==
  ASSUME CallsTyped, NEW c \in Callers, call[c].pc # "idle", NEW pc \in Steps, Goto(c, pc)
  PROVE  /\ CallsTyped' /\ call'[c].pc = pc
         /\ call'[c].agent = call[c].agent /\ call'[c].turn = call[c].turn
         /\ call'[c].kind = call[c].kind
         /\ \A d \in Callers \ {c} : call'[d] = call[d]
BY DEF Goto, CallsTyped, CallRecord, Steps
\* A call returns.
LEMMA ReturnEffect ==
  ASSUME CallsTyped, NEW c \in Callers, Return(c)
  PROVE  /\ CallsTyped' /\ call'[c] = Idle /\ Idle.pc = "idle"
         /\ \A d \in Callers \ {c} : call'[d] = call[d]
BY DEF Return, CallsTyped, CallRecord, Steps, Idle, NoTurn
\* The steps of a call.
LEMMA StepNames ==
  {"takeover", "check", "admit", "reserve", "activate", "track", "submit", "accepted",
   "refused", "cleanup", "interrupt", "release", "releaseThread"} \subseteq Steps
BY DEF Steps

\* Check gives the call a turn of its own, or refuses.
LEMMA CheckEffect ==
  ASSUME CallsTyped, TurnsTyped, NEW c \in Callers, Check(c)
  PROVE  /\ CallsTyped' /\ TurnsTyped' /\ call'[c].agent = call[c].agent
         /\ call'[c].kind = call[c].kind
         /\ \A d \in Callers \ {c} : call'[d] = call[d]
         /\ \/ call'[c].pc = "refused" /\ turn' = turn
            \/ /\ call'[c].pc = "admit" /\ call'[c].turn \in Turns
               /\ turn[call'[c].turn].state = "none" /\ turn'[call'[c].turn].state = "named"
               /\ turn'[call'[c].turn].agent = call[c].agent
               /\ \A u \in Turns \ {call'[c].turn} : turn'[u] = turn[u]
<1>0. call[c].pc = "check" /\ call[c].agent \in Agents
  BY DEF Check, CallsTyped
<1>1. CASE settlementErrors = {} /\ status[call[c].agent] # "closed"
  <2>1. PICK t \in Turns :
          /\ turn[t].state = "none"
          /\ call' = [call EXCEPT ![c].pc = "admit", ![c].turn = t]
          /\ turn' = [turn EXCEPT ![t].agent = call[c].agent, ![t].state = "named"]
    BY <1>1 DEF Check
  <2>2. /\ CallsTyped' /\ call'[c].agent = call[c].agent /\ call'[c].pc = "admit"
        /\ call'[c].turn = t /\ call'[c].kind = call[c].kind
        /\ \A d \in Callers \ {c} : call'[d] = call[d]
    BY <1>0, <2>1 DEF CallsTyped, CallRecord, Steps
  <2>3. /\ TurnsTyped' /\ turn'[t].state = "named" /\ turn'[t].agent = call[c].agent
        /\ \A u \in Turns \ {t} : turn'[u] = turn[u]
    BY <1>0, <2>1 DEF TurnsTyped, TurnRecord, TurnStates, Live
  <2> QED BY <2>1, <2>2, <2>3
<1>2. CASE ~(settlementErrors = {} /\ status[call[c].agent] # "closed")
  <2>1. Goto(c, "refused") /\ turn' = turn
    BY <1>2 DEF Check
  <2> QED BY <1>0, <2>1, GotoEffect, StepNames DEF TurnsTyped
<1> QED BY <1>1, <1>2

\* Submit makes the turn accepted, or drops it and undoes what StartTurn took.
LEMMA SubmitEffect ==
  ASSUME Shape, NEW c \in Callers, Submit(c), call[c].turn \in Turns
  PROVE  \/ /\ Goto(c, "accepted") /\ UNCHANGED <<turns, flight, ledger>>
            /\ TurnsTyped' /\ turn'[call[c].turn].state = "accepted"
            /\ turn'[call[c].turn].agent = turn[call[c].turn].agent
            /\ \A u \in Turns \ {call[c].turn} : turn'[u] = turn[u]
         \/ /\ Goto(c, "refused") /\ turn' = turn /\ flight' = flight - 1
            /\ turns' = [turns EXCEPT ![call[c].agent] = NoChild]
            /\ SettleBudget(call[c].agent, call[c].turn, 0)
BY DEF Submit, Refund, Shape, TurnsTyped, TurnRecord, TurnStates, Live

\* A restart keeps the types, the agents and the charges of the turns, and submits none.
LEMMA RestartTurns ==
  ASSUME TurnsTyped, Restart
  PROVE  /\ TurnsTyped'
         /\ \A t \in Turns : /\ turn'[t].agent = turn[t].agent /\ turn'[t].used = turn[t].used
                             /\ turn[t].state \in {"none", "named"} <=> turn'[t].state \in {"none", "named"}
                             /\ turn[t].state = "none" <=> turn'[t].state = "none"
<1>1. turn' = [t \in Turns |-> AfterRestart(turn[t])]
  BY DEF Restart
<1>2. ASSUME NEW t \in Turns
      PROVE  /\ AfterRestart(turn[t]) \in TurnRecord
             /\ AfterRestart(turn[t]).state \in {"ended", "rejected"}
                  => AfterRestart(turn[t]).status \in Endings
             /\ AfterRestart(turn[t]).agent = turn[t].agent /\ AfterRestart(turn[t]).used = turn[t].used
             /\ turn[t].state \in {"none", "named"} <=> AfterRestart(turn[t]).state \in {"none", "named"}
             /\ turn[t].state = "none" <=> AfterRestart(turn[t]).state = "none"
  BY DEF AfterRestart, TurnsTyped, TurnRecord, TurnStates, Live
<1> QED BY <1>1, <1>2 DEF TurnsTyped

-----------------------------------------------------------------------------
(* Which actions change a variable.                                        *)

\* Actions that may change status.
LEMMA FrameStatus ==
  [Next]_vars =>
     \/ UNCHANGED status
     \/ \E c \in Callers, a \in Agents : Spawn(c, a) \/ FollowUp(c, a) \/ CloseAgent(c, a)
     \/ \E c \in Callers : Takeover(c) \/ Accepted(c) \/ Refused(c) \/ Cleanup(c)
           \/ Interrupted(c) \/ CloseFails(c)
     \/ \E a \in Agents : AwaitApproval(a) \/ ResumeApproval(a)
     \/ \E j \in jobs : Settle(j)
     \/ Restart
BY DEF Next, Request, CallStep, TurnStep, TransitionFails, TurnOpens, TurnRejected, RejectionLost,
     Interrupt, Check, Admit, Reserve, Activate, Refund,
     Track, Submit, NoChild, Release, ReleaseThread, TurnEnds, Observe, SettleRefused,
       vars, manager, graph, governor, ledger, runtime

\* Actions that may change turnID.
LEMMA FrameTurnID ==
  [Next]_vars =>
     \/ UNCHANGED turnID
     \/ \E c \in Callers : Accepted(c) \/ Refused(c) \/ Interrupted(c) \/ CloseFails(c)
     \/ \E j \in jobs : Settle(j)
     \/ Restart
BY DEF Next, Request, CallStep, TurnStep, TransitionFails, TurnOpens, TurnRejected, RejectionLost,
     Spawn, FollowUp, Start, Interrupt, CloseAgent, Close,
     Takeover, Check, Admit, Reserve, Activate, Refund, Track, Submit, NoChild, Cleanup,
     Release, ReleaseThread, TurnEnds, Observe, AwaitApproval, ResumeApproval, SettleRefused,
       vars, manager, graph, governor, ledger, runtime

\* Actions that may change active.
LEMMA FrameActive ==
  [Next]_vars =>
     \/ UNCHANGED active
     \/ \E c \in Callers, a \in Agents : FollowUp(c, a) \/ CloseAgent(c, a)
     \/ \E c \in Callers : Takeover(c) \/ Refused(c) \/ Cleanup(c) \/ Interrupted(c) \/ CloseFails(c)
     \/ \E j \in jobs : Settle(j)
     \/ Restart
BY DEF Next, Request, CallStep, TurnStep, TransitionFails, TurnOpens, TurnRejected, RejectionLost,
     Spawn, Interrupt, Check, Admit, Reserve, Activate,
     Refund, Track, Submit, NoChild, Accepted, Release, ReleaseThread, TurnEnds, Observe,
     AwaitApproval, ResumeApproval, SettleRefused,
       vars, manager, graph, governor, ledger, runtime

\* Actions that may change turn.
LEMMA FrameTurn ==
  [Next]_vars =>
     \/ UNCHANGED turn
     \/ \E c \in Callers : Check(c) \/ Submit(c)
     \/ \E t \in Turns : TurnOpens(t) \/ TurnEnds(t) \/ TurnRejected(t) \/ RejectionLost(t)
           \/ Observe(t)
     \/ Restart
BY DEF Next, Request, CallStep, TurnStep, TransitionFails, CloseFails,
     Spawn, FollowUp, Start, Interrupt, CloseAgent, Close,
     Takeover, Admit, Reserve, Activate, Refund, Track, Accepted, Refused, EndWith, End,
     Cleanup, Interrupted, Release, ReleaseThread, NoChild, AwaitApproval, ResumeApproval,
     Settle, SettleRefused,
       vars, manager, graph, governor, ledger, runtime

\* Actions that may change turns.
LEMMA FrameTurns ==
  [Next]_vars =>
     \/ UNCHANGED turns
     \/ \E c \in Callers : Track(c) \/ Submit(c) \/ ReleaseThread(c)
     \/ \E t \in Turns : Observe(t)
     \/ Restart
BY DEF Next, Request, CallStep, TurnStep, TransitionFails, CloseFails, TurnOpens, TurnRejected, RejectionLost,
     Spawn, FollowUp, Start, Interrupt, CloseAgent, Close,
     Takeover, Check, Admit, Reserve, Activate, Refund, Accepted, Refused, EndWith, End,
     Cleanup, Interrupted, Release, TurnEnds, AwaitApproval, ResumeApproval, Settle,
     SettleRefused,
       vars, manager, graph, governor, ledger, runtime

\* Actions that may change jobs.
LEMMA FrameJobs ==
  [Next]_vars =>
     \/ UNCHANGED jobs
     \/ \E t \in Turns : Observe(t)
     \/ \E j \in jobs : Settle(j)
     \/ Restart
BY DEF Next, Request, CallStep, TurnStep, TransitionFails, CloseFails, TurnOpens, TurnRejected, RejectionLost,
     Spawn, FollowUp, Start, Interrupt, CloseAgent, Close,
     Takeover, Check, Admit, Reserve, Activate, Refund, Track, Submit, NoChild, Accepted,
     Refused, EndWith, End, Cleanup, Interrupted, Release, ReleaseThread, TurnEnds,
     AwaitApproval, ResumeApproval, SettleRefused,
       vars, manager, graph, governor, ledger, runtime

\* Actions that may change flight.
LEMMA FrameFlight ==
  [Next]_vars =>
     \/ UNCHANGED flight
     \/ \E c \in Callers : Admit(c) \/ Reserve(c) \/ Activate(c) \/ Submit(c)
           \/ ReleaseThread(c)
     \/ \E t \in Turns : Observe(t)
     \/ Restart
BY DEF Next, Request, CallStep, TurnStep, TransitionFails, CloseFails, TurnOpens, TurnRejected, RejectionLost,
     Spawn, FollowUp, Start, Interrupt, CloseAgent, Close,
     Takeover, Check, Track, Accepted, Refused, EndWith, End, Cleanup, Interrupted, Release,
     TurnEnds, AwaitApproval, ResumeApproval, Settle, SettleRefused,
       vars, manager, graph, governor, ledger, runtime

\* Actions that may change ledger.
LEMMA FrameLedger ==
  [Next]_vars =>
     \/ UNCHANGED ledger
     \/ \E c \in Callers : Reserve(c) \/ Activate(c) \/ Submit(c)
     \/ \E t \in Turns : Observe(t)
     \/ Restart
BY DEF Next, Request, CallStep, TurnStep, TransitionFails, CloseFails, TurnOpens, TurnRejected, RejectionLost,
     Spawn, FollowUp, Start, Interrupt, CloseAgent, Close,
     Takeover, Check, Admit, Track, Accepted, Refused, EndWith, End, Cleanup, Interrupted,
     Release, ReleaseThread, NoChild, TurnEnds, AwaitApproval, ResumeApproval, Settle,
     SettleRefused,
       vars, manager, graph, governor, ledger, runtime

\* Actions that may change call.
LEMMA FrameCall ==
  [Next]_vars =>
     \/ UNCHANGED call
     \/ \E c \in Callers, a \in Agents : Spawn(c, a) \/ FollowUp(c, a) \/ Interrupt(c, a)
           \/ CloseAgent(c, a)
     \/ \E c \in Callers : Takeover(c) \/ Check(c) \/ Admit(c) \/ Reserve(c) \/ Activate(c)
           \/ Track(c) \/ Submit(c) \/ Accepted(c) \/ Refused(c) \/ Cleanup(c) \/ Interrupted(c)
           \/ Release(c) \/ ReleaseThread(c) \/ TransitionFails(c) \/ CloseFails(c)
     \/ Restart
BY DEF Next, Request, CallStep, TurnStep, TurnOpens, TurnRejected, RejectionLost,
     TurnEnds, Observe, NoChild, AwaitApproval,
     ResumeApproval, Settle, EndWith, End, SettleRefused,
       vars, manager, graph, governor, ledger, runtime

-----------------------------------------------------------------------------
(* What every action preserves.                                            *)

\* Calls keep their types.
LEMMA CallsTypedStep ==
  ASSUME Shape, [Next]_vars
  PROVE  CallsTyped'
<1> USE DEF Shape
<1>1. CASE UNCHANGED call
  BY <1>1 DEF CallsTyped
<1>2. ASSUME NEW c \in Callers, NEW a \in Agents, Spawn(c, a) PROVE CallsTyped'
  BY <1>2 DEF Spawn, CallsTyped, CallRecord, Steps, NoTurn
<1>3. ASSUME NEW c \in Callers, NEW a \in Agents, FollowUp(c, a) PROVE CallsTyped'
  BY <1>3 DEF FollowUp, Start, CallsTyped, CallRecord, Steps, NoTurn
<1>4. ASSUME NEW c \in Callers, NEW a \in Agents, Interrupt(c, a) PROVE CallsTyped'
  BY <1>4 DEF Interrupt, CallsTyped, CallRecord, Steps, NoTurn, GraphTyped
<1>5. ASSUME NEW c \in Callers, NEW a \in Agents, CloseAgent(c, a) PROVE CallsTyped'
  BY <1>5 DEF CloseAgent, Close, CallsTyped, CallRecord, Steps, NoTurn
<1>6. ASSUME NEW c \in Callers, Takeover(c) PROVE CallsTyped'
  BY <1>6, GotoEffect, StepNames DEF Takeover, Start
<1>7. ASSUME NEW c \in Callers, Check(c) PROVE CallsTyped'
  BY <1>7, CheckEffect DEF Check
<1>8. ASSUME NEW c \in Callers, Admit(c) PROVE CallsTyped'
  BY <1>8, GotoEffect, StepNames DEF Admit
<1>9. ASSUME NEW c \in Callers, Reserve(c) PROVE CallsTyped'
  BY <1>9, GotoEffect, StepNames DEF Reserve
<1>10. ASSUME NEW c \in Callers, Activate(c) PROVE CallsTyped'
  BY <1>10, GotoEffect, StepNames DEF Activate, Refund
<1>11. ASSUME NEW c \in Callers, Track(c) PROVE CallsTyped'
  BY <1>11, GotoEffect, StepNames DEF Track
<1>12. ASSUME NEW c \in Callers, Submit(c) PROVE CallsTyped'
  BY <1>12, GotoEffect, StepNames DEF Submit, Refund, NoChild
<1>13. ASSUME NEW c \in Callers, Accepted(c) PROVE CallsTyped'
  BY <1>13, GotoEffect, StepNames, ReturnEffect DEF Accepted
<1>14. ASSUME NEW c \in Callers, Refused(c) PROVE CallsTyped'
  BY <1>14, GotoEffect, StepNames, ReturnEffect DEF Refused, EndWith, End
<1>15. ASSUME NEW c \in Callers, Cleanup(c) PROVE CallsTyped'
  BY <1>15, ReturnEffect DEF Cleanup, Close
<1>15a. ASSUME NEW c \in Callers, CloseFails(c) PROVE CallsTyped'
  BY <1>15a, ReturnEffect DEF CloseFails, End
<1>16. ASSUME NEW c \in Callers, Interrupted(c) PROVE CallsTyped'
  BY <1>16, ReturnEffect DEF Interrupted, End
<1>16a. ASSUME NEW c \in Callers, TransitionFails(c) PROVE CallsTyped'
  BY <1>16a, GotoEffect, StepNames, ReturnEffect DEF TransitionFails
<1>17. ASSUME NEW c \in Callers, Release(c) PROVE CallsTyped'
  BY <1>17, GotoEffect, StepNames, ReturnEffect DEF Release
<1>18. ASSUME NEW c \in Callers, ReleaseThread(c) PROVE CallsTyped'
  BY <1>18, ReturnEffect DEF ReleaseThread, NoChild
<1>19. CASE Restart
  BY <1>19 DEF Restart, CallsTyped, CallRecord, Steps, NoTurn, Idle
<1> QED BY <1>1, <1>2, <1>3, <1>4, <1>5, <1>6, <1>7, <1>8, <1>9, <1>10, <1>11, <1>12, <1>13,
     <1>14, <1>15, <1>15a, <1>16, <1>16a, <1>17, <1>18, <1>19, FrameCall

\* The ledger keeps its types.
LEMMA LedgerTypedStep ==
  ASSUME Shape, Named, AllBegun, [Next]_vars
  PROVE  LedgerTyped'
<1> USE DEF Shape, ledger
<1>1. CASE UNCHANGED ledger
  BY <1>1 DEF LedgerTyped
<1>2. ASSUME NEW c \in Callers, Reserve(c) PROVE LedgerTyped'
  <2>1. call[c].agent \in Agents /\ call[c].turn \in Turns
    BY <1>2 DEF Reserve, CallsTyped, Named, NamedTurns, Before
  <2>2. CASE CanReserve(call[c].agent)
    <3>1. account' = [s \in Scopes |-> IF s \in Path(call[c].agent)
                                       THEN AddUsage(account[s], Ask(call[c].agent)) ELSE account[s]]
      BY <1>2, <2>2 DEF Reserve
    <3>2. DOMAIN account' = Scopes /\ \A b \in Agents : account'[b].slots \in Nat
      BY <3>1 DEF LedgerTyped, AddUsage, Scopes
    <3> QED BY <1>2, <2>1, <2>2, <3>2 DEF Reserve, LedgerTyped
  <2> QED BY <1>2, <2>2 DEF Reserve, LedgerTyped
<1>3. ASSUME NEW c \in Callers, Activate(c) PROVE LedgerTyped'
  <2>1. call[c].agent \in Agents /\ call[c].turn \in Turns
    BY <1>3 DEF Activate, Shape, CallsTyped, Named, NamedTurns, Before
  <2> QED BY <1>3, <2>1, SettleEffect DEF Activate, Refund, LedgerTyped
<1>4. ASSUME NEW c \in Callers, Submit(c) PROVE LedgerTyped'
  <2>1. call[c].agent \in Agents /\ call[c].turn \in Turns
    BY <1>4 DEF Submit, Shape, CallsTyped, Named, NamedTurns, Before
  <2> QED BY <1>4, <2>1, SettleEffect DEF Submit, Refund, LedgerTyped
<1>5. ASSUME NEW t \in Turns, Observe(t) PROVE LedgerTyped'
  <2>1. turn[t].agent \in Agents
    BY <1>5 DEF Observe, AllBegun, BegunTurns, Begun
  <2>2. SettleBudget(turn[t].agent, t, turn[t].used) \/ UNCHANGED ledger
    BY <1>5 DEF Observe
  <2> QED BY <2>1, <2>2, SettleEffect DEF LedgerTyped
<1>6. CASE Restart
  BY <1>6 DEF Restart, LedgerTyped, Scopes
<1> QED BY <1>1, <1>2, <1>3, <1>4, <1>5, <1>6, FrameLedger

\* Turns keep their types.
LEMMA TurnsTypedStep ==
  ASSUME Shape, Named, [Next]_vars
  PROVE  TurnsTyped'
<1> USE DEF Shape
<1>1. CASE UNCHANGED turn
  BY <1>1 DEF TurnsTyped
<1>2. ASSUME NEW c \in Callers, Check(c) PROVE TurnsTyped'
  BY <1>2, CheckEffect DEF Check
<1>3. ASSUME NEW c \in Callers, Submit(c) PROVE TurnsTyped'
  <2>1. call[c].turn \in Turns
    BY <1>3 DEF Submit, Named, NamedTurns, Before
  <2> QED BY <1>3, <2>1, SubmitEffect DEF TurnsTyped
<1>4. ASSUME NEW t \in Turns, TurnEnds(t) PROVE TurnsTyped'
  <2>1. PICK o \in Outcomes \cup {<<"failed", 0>>} :
          turn' = [turn EXCEPT ![t].state = "ended", ![t].status = o[1], ![t].used = o[2]]
    BY <1>4 DEF TurnEnds
  <2>2. o[1] \in Endings /\ o[2] \in Used
    BY ChildConstants DEF Endings, Used
  <2>3. PICK s \in Endings, u \in Used :
          turn' = [turn EXCEPT ![t].state = "ended", ![t].status = s, ![t].used = u]
    BY <2>1, <2>2
  <2>4. "ended" \in TurnStates
    BY DEF TurnStates
  <2> HIDE DEF Endings, Used
  <2> QED BY <2>3, <2>4 DEF TurnsTyped, TurnRecord
<1>4a. ASSUME NEW t \in Turns, TurnOpens(t) PROVE TurnsTyped'
  BY <1>4a DEF TurnOpens, TurnsTyped, TurnRecord, TurnStates, Live, Endings
<1>4b. ASSUME NEW t \in Turns, TurnRejected(t) PROVE TurnsTyped'
  BY <1>4b DEF TurnRejected, TurnsTyped, TurnRecord, TurnStates, Live, Endings
<1>4c. ASSUME NEW t \in Turns, RejectionLost(t) PROVE TurnsTyped'
  BY <1>4c DEF RejectionLost, TurnsTyped, TurnRecord, TurnStates, Live, Endings
<1>5. ASSUME NEW t \in Turns, Observe(t) PROVE TurnsTyped'
  BY <1>5 DEF Observe, NoChild, TurnsTyped, TurnRecord, TurnStates, Live
<1>6. CASE Restart
  BY <1>6, RestartTurns
<1> QED BY <1>1, <1>2, <1>3, <1>4, <1>4a, <1>4b, <1>4c, <1>5, <1>6, FrameTurn

\* The latest turn of an agent is one it has submitted.
LEMMA LatestIsSubmitted ==
  ASSUME NEW a \in Agents
  PROVE  LatestTurn(a) = NoTurn \/ LatestTurn(a) \in Latest(a)
BY DEF LatestTurn

\* The graph keeps its types.
LEMMA GraphTypedStep ==
  ASSUME Shape, [Next]_vars
  PROVE  GraphTyped'
<1> USE DEF Shape
<1>1. CASE UNCHANGED <<status, turnID>>
  BY <1>1 DEF GraphTyped, Statuses, Slotted, Endings
<1>2. ASSUME NEW c \in Callers, NEW a \in Agents, Spawn(c, a) PROVE GraphTyped'
  BY <1>2 DEF Spawn, GraphTyped, Statuses, Slotted, Endings
<1>3. ASSUME NEW c \in Callers, NEW a \in Agents, FollowUp(c, a) PROVE GraphTyped'
  BY <1>3 DEF FollowUp, Start, GraphTyped, Statuses, Slotted, Endings
<1>4. ASSUME NEW c \in Callers, NEW a \in Agents, CloseAgent(c, a) PROVE GraphTyped'
  BY <1>4 DEF CloseAgent, Close, GraphTyped, Statuses, Slotted, Endings, CallsTyped, manager,
       graph
<1>5. ASSUME NEW c \in Callers, Takeover(c) PROVE GraphTyped'
  BY <1>5 DEF Takeover, Start, GraphTyped, Statuses, Slotted, Endings, CallsTyped, manager, graph
<1>6. ASSUME NEW c \in Callers, Accepted(c) PROVE GraphTyped'
  <2>1. call[c].agent \in Agents /\ call[c].turn \in Turns \cup {NoTurn}
    BY <1>6 DEF Accepted, CallsTyped, CallRecord
  <2>2. status' \in [Agents -> Statuses]
    BY <1>6, <2>1 DEF Accepted, GraphTyped, Statuses, Slotted
  <2>3. turnID' \in [Agents -> Turns \cup {NoTurn}]
    BY <1>6, <2>1 DEF Accepted, GraphTyped
  <2> QED BY <2>2, <2>3 DEF GraphTyped
<1>7. ASSUME NEW c \in Callers, Refused(c) PROVE GraphTyped'
  BY <1>7 DEF Refused, EndWith, End, GraphTyped, Statuses, Slotted, Endings, CallsTyped,
       manager, graph
<1>8. ASSUME NEW c \in Callers, Cleanup(c) PROVE GraphTyped'
  BY <1>8 DEF Cleanup, Close, GraphTyped, Statuses, Slotted, Endings, CallsTyped, manager, graph
<1>8a. ASSUME NEW c \in Callers, CloseFails(c) PROVE GraphTyped'
  <2>1. call[c].agent \in Agents /\ call[c].turn \in Turns \cup {NoTurn}
    BY <1>8a DEF CloseFails, CallsTyped, CallRecord
  <2> QED BY <1>8a, <2>1 DEF CloseFails, End, manager, graph, GraphTyped, Statuses, Endings
<1>9. ASSUME NEW c \in Callers, Interrupted(c) PROVE GraphTyped'
  <2>1. call[c].agent \in Agents /\ call[c].turn \in Turns \cup {NoTurn}
    BY <1>9 DEF Interrupted, CallsTyped, CallRecord
  <2> QED BY <1>9, <2>1 DEF Interrupted, End, manager, graph, GraphTyped, Statuses, Endings
<1>10. ASSUME NEW a \in Agents, AwaitApproval(a) PROVE GraphTyped'
  BY <1>10 DEF AwaitApproval, GraphTyped, Statuses, Slotted, Endings
<1>11. ASSUME NEW a \in Agents, ResumeApproval(a) PROVE GraphTyped'
  BY <1>11 DEF ResumeApproval, GraphTyped, Statuses, Slotted, Endings
<1>12. ASSUME NEW j \in jobs, Settle(j) PROVE GraphTyped'
  <2>1. j.agent \in Agents /\ j.status \in Endings /\ j.turn \in Turns
    BY DEF TrackedTyped, JobRecord
  <2> QED BY <1>12, <2>1 DEF Settle, EndWith, End, manager, graph, GraphTyped, Statuses
<1>13. CASE Restart
  <2>1. \A a \in Agents : ReconciledStatus(a) \in Statuses
    BY DEF ReconciledStatus, GraphTyped, Statuses, Slotted, Endings
  <2>2. \A a \in Agents : LatestTurn(a) \in Turns \cup {NoTurn}
    BY LatestIsSubmitted DEF Latest, Submitted
  <2>3. /\ status' = [a \in Agents |-> ReconciledStatus(a)]
        /\ turnID' = [a \in Agents |->
                        IF a \in Unfinished /\ status'[a] # status[a] /\ LatestTurn(a) # NoTurn
                        THEN LatestTurn(a) ELSE turnID[a]]
    BY <1>13 DEF Restart
  <2> QED BY <2>1, <2>2, <2>3 DEF GraphTyped
<1> QED BY <1>1, <1>2, <1>3, <1>4, <1>5, <1>6, <1>7, <1>8, <1>8a, <1>9, <1>10, <1>11, <1>12, <1>13,
     FrameStatus, FrameTurnID

\* What the child runtime tracks keeps its types.
LEMMA TrackedTypedStep ==
  ASSUME Shape, Named, AllBegun, GraphTyped', [Next]_vars
  PROVE  TrackedTyped'
<1> USE DEF Shape
<1>1. CASE UNCHANGED <<turns, jobs, flight>>
  BY <1>1 DEF TrackedTyped, CallsTyped, CallRecord, NoTurn, governor, runtime
<1>2. ASSUME NEW c \in Callers, Admit(c) PROVE TrackedTyped'
  BY <1>2 DEF Admit, TrackedTyped, CallsTyped, CallRecord, NoTurn, governor, runtime
<1>3. ASSUME NEW c \in Callers, Reserve(c) PROVE TrackedTyped'
  BY <1>3 DEF Reserve, TrackedTyped, CallsTyped, CallRecord, NoTurn, governor, runtime
<1>4. ASSUME NEW c \in Callers, Activate(c) PROVE TrackedTyped'
  BY <1>4 DEF Activate, Refund, TrackedTyped, CallsTyped, CallRecord, NoTurn, governor, runtime
<1>5. ASSUME NEW c \in Callers, Track(c) PROVE TrackedTyped'
  BY <1>5 DEF Track, TrackedTyped, CallsTyped, CallRecord, NoTurn, governor, runtime
<1>6. ASSUME NEW c \in Callers, Submit(c) PROVE TrackedTyped'
  <2>1. call[c].agent \in Agents /\ call[c].turn \in Turns
    BY <1>6 DEF Submit, CallsTyped, Named, NamedTurns, Before
  <2>2. UNCHANGED jobs
    BY <1>6 DEF Submit
  <2>3. CASE UNCHANGED <<turns, flight>>
    BY <2>2, <2>3 DEF TrackedTyped
  <2>4. CASE turns' = [turns EXCEPT ![call[c].agent] = NoChild] /\ flight' = flight - 1
    BY <2>1, <2>2, <2>4 DEF TrackedTyped, NoChild, NoTurn
  <2> QED BY <1>6, <2>3, <2>4 DEF Submit
<1>7. ASSUME NEW c \in Callers, ReleaseThread(c) PROVE TrackedTyped'
  BY <1>7 DEF ReleaseThread, NoChild, TrackedTyped, CallsTyped, CallRecord, NoTurn, governor,
       runtime
<1>8. ASSUME NEW t \in Turns, Observe(t) PROVE TrackedTyped'
  <2> DEFINE a == turn[t].agent
  <2>1. a \in Agents /\ turn[t].used \in Used /\ turn[t].status \in Endings
    BY <1>8 DEF Observe, TurnsTyped, TurnRecord, TurnStates, Live, AllBegun, BegunTurns, Begun
  <2>2. CASE UNCHANGED <<turns, jobs, flight>>
    BY <2>2 DEF TrackedTyped
  <2>3. CASE turns[a].id = t /\ (turn[t].state = "ended" \/ turns[a].leased)
    <3>1. flight' \in Int /\ turns' = [turns EXCEPT ![a] = NoChild]
      BY <1>8, <2>3 DEF Observe, TrackedTyped
    <3>2. PICK s \in Endings :
            jobs' = jobs \cup {[agent |-> a, turn |-> t, status |-> s, used |-> turn[t].used]}
      BY <1>8, <2>1, <2>3 DEF Observe, Endings
    <3>3. jobs' \subseteq JobRecord
      BY <2>1, <3>2 DEF TrackedTyped, JobRecord
    <3> QED BY <2>1, <3>1, <3>3 DEF TrackedTyped, NoChild, NoTurn
  <2> QED BY <1>8, <2>2, <2>3 DEF Observe, governor
<1>9. ASSUME NEW j \in jobs, Settle(j) PROVE TrackedTyped'
  BY <1>9 DEF Settle, EndWith, End, TrackedTyped, CallsTyped, CallRecord, NoTurn, governor,
       runtime
<1>10. CASE Restart
  <2>1. turns' = [a \in Agents |-> IF status'[a] \in Slotted
                                  THEN [id |-> turnID'[a], leased |-> FALSE] ELSE NoChild]
    BY <1>10 DEF Restart
  <2>2. \A a \in Agents : turnID'[a] \in Turns \cup {NoTurn}
    BY DEF GraphTyped
  <2>3. turns' \in [Agents -> [id : Turns \cup {NoTurn}, leased : BOOLEAN]]
    BY <2>1, <2>2 DEF NoChild, NoTurn
  <2>4. jobs' = {} /\ flight' = 0
    BY <1>10 DEF Restart
  <2> QED BY <2>3, <2>4 DEF TrackedTyped
<1> QED BY <1>1, <1>2, <1>3, <1>4, <1>5, <1>6, <1>7, <1>8, <1>9, <1>10, FrameTurns, FrameJobs,
     FrameFlight

\* Turns of calls stay named until they are submitted.
LEMMA NamedTurnsStep ==
  ASSUME Shape, Named, AllBegun, [Next]_vars
  PROVE  NamedTurns'
<1> USE DEF Shape, Named, NamedTurns, Before
<1>1. CASE UNCHANGED <<call, turn>>
  BY <1>1 DEF runtime
<1>2. ASSUME NEW c \in Callers, NEW a \in Agents, Spawn(c, a) PROVE NamedTurns'
  BY <1>2 DEF Spawn, CallsTyped
<1>3. ASSUME NEW c \in Callers, NEW a \in Agents, FollowUp(c, a) PROVE NamedTurns'
  BY <1>3 DEF FollowUp, Start, CallsTyped
<1>4. ASSUME NEW c \in Callers, NEW a \in Agents, Interrupt(c, a) PROVE NamedTurns'
  BY <1>4 DEF Interrupt, CallsTyped
<1>5. ASSUME NEW c \in Callers, NEW a \in Agents, CloseAgent(c, a) PROVE NamedTurns'
  BY <1>5 DEF CloseAgent, Close, CallsTyped
<1>6. ASSUME NEW c \in Callers, Takeover(c) PROVE NamedTurns'
  BY <1>6, GotoEffect, StepNames DEF Takeover, Start, runtime
<1>7. ASSUME NEW c \in Callers, Check(c) PROVE NamedTurns'
  <2>1. call[c].pc = "check"
    BY <1>7 DEF Check
  <2> QED BY <1>7, <2>1, CheckEffect
<1>8. ASSUME NEW c \in Callers, Admit(c) PROVE NamedTurns'
  BY <1>8, GotoEffect, StepNames DEF Admit, runtime
<1>9. ASSUME NEW c \in Callers, Reserve(c) PROVE NamedTurns'
  BY <1>9, GotoEffect, StepNames DEF Reserve, runtime
<1>10. ASSUME NEW c \in Callers, Activate(c) PROVE NamedTurns'
  BY <1>10, GotoEffect, StepNames DEF Activate, Refund, runtime
<1>11. ASSUME NEW c \in Callers, Track(c) PROVE NamedTurns'
  BY <1>11, GotoEffect, StepNames DEF Track, runtime
<1>12. ASSUME NEW c \in Callers, Submit(c) PROVE NamedTurns'
  <2>1. call[c].pc = "submit" /\ call[c].turn \in Turns
    BY <1>12 DEF Submit
  <2> QED BY <1>12, <2>1, SubmitEffect, GotoEffect, StepNames DEF NamedOnce
<1>13. ASSUME NEW c \in Callers, Accepted(c) PROVE NamedTurns'
  BY <1>13, GotoEffect, StepNames, ReturnEffect DEF Accepted, runtime
<1>14. ASSUME NEW c \in Callers, Refused(c) PROVE NamedTurns'
  BY <1>14, GotoEffect, StepNames, ReturnEffect DEF Refused, EndWith, End, runtime
<1>15. ASSUME NEW c \in Callers, Cleanup(c) PROVE NamedTurns'
  BY <1>15, ReturnEffect DEF Cleanup, Close, runtime
<1>15a. ASSUME NEW c \in Callers, CloseFails(c) PROVE NamedTurns'
  BY <1>15a, ReturnEffect DEF CloseFails, End, runtime
<1>16. ASSUME NEW c \in Callers, Interrupted(c) PROVE NamedTurns'
  BY <1>16, ReturnEffect DEF Interrupted, End, runtime
<1>16a. ASSUME NEW c \in Callers, TransitionFails(c) PROVE NamedTurns'
  BY <1>16a, GotoEffect, StepNames, ReturnEffect DEF TransitionFails, runtime
<1>17. ASSUME NEW c \in Callers, Release(c) PROVE NamedTurns'
  BY <1>17, GotoEffect, StepNames, ReturnEffect DEF Release, runtime
<1>18. ASSUME NEW c \in Callers, ReleaseThread(c) PROVE NamedTurns'
  BY <1>18, ReturnEffect DEF ReleaseThread, NoChild, runtime
<1>19. ASSUME NEW t \in Turns, TurnEnds(t) PROVE NamedTurns'
  BY <1>19 DEF TurnEnds, TurnsTyped, TurnRecord, TurnStates, Live
<1>19a. ASSUME NEW t \in Turns, TurnOpens(t) PROVE NamedTurns'
  BY <1>19a DEF TurnOpens, TurnsTyped, TurnRecord, TurnStates, Live
<1>19b. ASSUME NEW t \in Turns, TurnRejected(t) PROVE NamedTurns'
  BY <1>19b DEF TurnRejected, TurnsTyped, TurnRecord, TurnStates, Live
<1>19c. ASSUME NEW t \in Turns, RejectionLost(t) PROVE NamedTurns'
  BY <1>19c DEF RejectionLost, TurnsTyped, TurnRecord, TurnStates, Live
<1>20. ASSUME NEW t \in Turns, Observe(t) PROVE NamedTurns'
  BY <1>20 DEF Observe, NoChild, TurnsTyped, TurnRecord, TurnStates, Live
<1>21. CASE Restart
  BY <1>21 DEF Restart, Idle
<1> QED BY <1>1, <1>2, <1>3, <1>4, <1>5, <1>6, <1>7, <1>8, <1>9, <1>10, <1>11, <1>12, <1>13,
     <1>14, <1>15, <1>15a, <1>16, <1>16a, <1>17, <1>18, <1>19, <1>19a, <1>19b, <1>19c, <1>20, <1>21, FrameCall, FrameTurn

\* No two calls share a turn.
LEMMA NamedOnceStep ==
  ASSUME Shape, Named, [Next]_vars
  PROVE  NamedOnce'
<1> USE DEF Shape, Named, NamedOnce, Before
<1>1. CASE UNCHANGED call
  BY <1>1
<1>2. ASSUME NEW c \in Callers, NEW a \in Agents, Spawn(c, a) PROVE NamedOnce'
  BY <1>2 DEF Spawn, CallsTyped
<1>3. ASSUME NEW c \in Callers, NEW a \in Agents, FollowUp(c, a) PROVE NamedOnce'
  BY <1>3 DEF FollowUp, Start, CallsTyped
<1>4. ASSUME NEW c \in Callers, NEW a \in Agents, Interrupt(c, a) PROVE NamedOnce'
  BY <1>4 DEF Interrupt, CallsTyped
<1>5. ASSUME NEW c \in Callers, NEW a \in Agents, CloseAgent(c, a) PROVE NamedOnce'
  BY <1>5 DEF CloseAgent, Close, CallsTyped
<1>6. ASSUME NEW c \in Callers, Takeover(c) PROVE NamedOnce'
  BY <1>6, GotoEffect, StepNames DEF Takeover, Start
<1>7. ASSUME NEW c \in Callers, Check(c) PROVE NamedOnce'
  <2> QED BY <1>7, CheckEffect DEF NamedTurns
<1>8. ASSUME NEW c \in Callers, Admit(c) PROVE NamedOnce'
  BY <1>8, GotoEffect, StepNames DEF Admit
<1>9. ASSUME NEW c \in Callers, Reserve(c) PROVE NamedOnce'
  BY <1>9, GotoEffect, StepNames DEF Reserve
<1>10. ASSUME NEW c \in Callers, Activate(c) PROVE NamedOnce'
  BY <1>10, GotoEffect, StepNames DEF Activate, Refund
<1>11. ASSUME NEW c \in Callers, Track(c) PROVE NamedOnce'
  BY <1>11, GotoEffect, StepNames DEF Track
<1>12. ASSUME NEW c \in Callers, Submit(c) PROVE NamedOnce'
  BY <1>12, GotoEffect, StepNames DEF Submit, Refund, NoChild
<1>13. ASSUME NEW c \in Callers, Accepted(c) PROVE NamedOnce'
  BY <1>13, GotoEffect, StepNames, ReturnEffect DEF Accepted
<1>14. ASSUME NEW c \in Callers, Refused(c) PROVE NamedOnce'
  BY <1>14, GotoEffect, StepNames, ReturnEffect DEF Refused, EndWith, End
<1>15. ASSUME NEW c \in Callers, Cleanup(c) PROVE NamedOnce'
  BY <1>15, ReturnEffect DEF Cleanup, Close
<1>15a. ASSUME NEW c \in Callers, CloseFails(c) PROVE NamedOnce'
  BY <1>15a, ReturnEffect DEF CloseFails, End
<1>16. ASSUME NEW c \in Callers, Interrupted(c) PROVE NamedOnce'
  BY <1>16, ReturnEffect DEF Interrupted, End
<1>16a. ASSUME NEW c \in Callers, TransitionFails(c) PROVE NamedOnce'
  BY <1>16a, GotoEffect, StepNames, ReturnEffect DEF TransitionFails
<1>17. ASSUME NEW c \in Callers, Release(c) PROVE NamedOnce'
  BY <1>17, GotoEffect, StepNames, ReturnEffect DEF Release
<1>18. ASSUME NEW c \in Callers, ReleaseThread(c) PROVE NamedOnce'
  BY <1>18, ReturnEffect DEF ReleaseThread, NoChild
<1>19. CASE Restart
  BY <1>19 DEF Restart, Idle
<1> QED BY <1>1, <1>2, <1>3, <1>4, <1>5, <1>6, <1>7, <1>8, <1>9, <1>10, <1>11, <1>12, <1>13,
     <1>14, <1>15, <1>15a, <1>16, <1>16a, <1>17, <1>18, <1>19, FrameCall

\* A submitted turn stays submitted.
LEMMA KnownStays ==
  ASSUME Shape, Named, NEW u \in Turns \cup {NoTurn}, Known(u), [Next]_vars
  PROVE  Known(u)'
<1> USE DEF Shape, Known
<1>1. CASE UNCHANGED turn
  BY <1>1 DEF TurnsTyped, TurnRecord, TurnStates, Live
<1>2. ASSUME NEW c \in Callers, Check(c) PROVE Known(u)'
  BY <1>2, CheckEffect DEF Check
<1>3. ASSUME NEW c \in Callers, Submit(c) PROVE Known(u)'
  <2>1. call[c].turn \in Turns
    BY <1>3 DEF Submit, Named, NamedTurns, Before
  <2> QED BY <1>3, <2>1, SubmitEffect
<1>4. ASSUME NEW t \in Turns, TurnEnds(t) PROVE Known(u)'
  BY <1>4 DEF TurnEnds, TurnsTyped, TurnRecord, TurnStates, Live
<1>4a. ASSUME NEW t \in Turns, TurnOpens(t) PROVE Known(u)'
  BY <1>4a DEF TurnOpens, TurnsTyped, TurnRecord, TurnStates, Live
<1>4b. ASSUME NEW t \in Turns, TurnRejected(t) PROVE Known(u)'
  BY <1>4b DEF TurnRejected, TurnsTyped, TurnRecord, TurnStates, Live
<1>4c. ASSUME NEW t \in Turns, RejectionLost(t) PROVE Known(u)'
  BY <1>4c DEF RejectionLost, TurnsTyped, TurnRecord, TurnStates, Live
<1>5. ASSUME NEW t \in Turns, Observe(t) PROVE Known(u)'
  BY <1>5 DEF Observe, NoChild, TurnsTyped, TurnRecord, TurnStates, Live
<1>6. CASE Restart
  BY <1>6, RestartTurns
<1> QED BY <1>1, <1>2, <1>3, <1>4, <1>4a, <1>4b, <1>4c, <1>5, <1>6, FrameTurn

\* An agent's row names a submitted turn.
LEMMA KnownIDsStep ==
  ASSUME Shape, Named, AllKnown, [Next]_vars
  PROVE  KnownIDs'
<1> USE DEF Shape, AllKnown
<1>1. CASE UNCHANGED turnID
  BY <1>1, KnownStays DEF KnownIDs, GraphTyped
<1>2. ASSUME NEW c \in Callers, Accepted(c) PROVE KnownIDs'
  <2>1. call[c].agent \in Agents /\ call[c].turn \in Turns \cup {NoTurn} /\ Known(call[c].turn)
    BY <1>2 DEF Accepted, CallsTyped, CallRecord, KnownCalls
  <2>2. \A a \in Agents : turnID'[a] \in {turnID[a], call[c].turn}
    BY <1>2, <2>1 DEF Accepted, GraphTyped
  <2> QED BY <2>1, <2>2, KnownStays DEF KnownIDs, GraphTyped
<1>3. ASSUME NEW c \in Callers, Refused(c) PROVE KnownIDs'
  <2>1. UNCHANGED turnID
    BY <1>3 DEF Refused, EndWith, End, manager, graph, GraphTyped
  <2> QED BY <2>1, KnownStays DEF KnownIDs, GraphTyped
<1>4. ASSUME NEW c \in Callers, Interrupted(c) PROVE KnownIDs'
  <2>1. call[c].agent \in Agents /\ call[c].turn \in Turns \cup {NoTurn} /\ Known(call[c].turn)
    BY <1>4 DEF Interrupted, CallsTyped, CallRecord, KnownCalls
  <2>2. \A a \in Agents : turnID'[a] \in {turnID[a], call[c].turn}
    BY <1>4, <2>1 DEF Interrupted, End, manager, graph, GraphTyped
  <2> QED BY <2>1, <2>2, KnownStays DEF KnownIDs, GraphTyped
<1>4a. ASSUME NEW c \in Callers, CloseFails(c) PROVE KnownIDs'
  <2>1. UNCHANGED turnID
    BY <1>4a DEF CloseFails, End, GraphTyped
  <2> QED BY <2>1, KnownStays DEF KnownIDs, GraphTyped
<1>5. ASSUME NEW j \in jobs, Settle(j) PROVE KnownIDs'
  <2>1. j.agent \in Agents /\ j.turn \in Turns /\ Known(j.turn)
    BY DEF TrackedTyped, JobRecord, KnownJobs
  <2>2. \A a \in Agents : turnID'[a] \in {turnID[a], j.turn}
    BY <1>5, <2>1 DEF Settle, EndWith, End, manager, graph, GraphTyped
  <2> QED BY <2>1, <2>2, KnownStays DEF KnownIDs, GraphTyped
<1>6. CASE Restart
  <2>1. \A a \in Agents : LatestTurn(a) \in Turns \cup {NoTurn} /\ Known(LatestTurn(a))
    BY LatestIsSubmitted DEF Latest, Submitted, Known
  <2>2. \A a \in Agents : turnID'[a] \in {turnID[a], LatestTurn(a)}
    BY <1>6 DEF Restart
  <2> QED BY <2>1, <2>2, KnownStays DEF KnownIDs, GraphTyped
<1> QED BY <1>1, <1>2, <1>3, <1>4, <1>4a, <1>5, <1>6, FrameTurnID

\* A turn that is tracked without a lease was submitted.
LEMMA KnownTrackedStep ==
  ASSUME Shape, Named, AllKnown, KnownIDs', [Next]_vars
  PROVE  KnownTracked'
<1> USE DEF Shape, AllKnown
<1>1. CASE UNCHANGED turns
  BY <1>1, KnownStays DEF KnownTracked, TrackedTyped
<1>2. ASSUME NEW c \in Callers, Track(c) PROVE KnownTracked'
  <2>1. \A a \in Agents : turns'[a] = turns[a] \/ turns'[a].leased
    BY <1>2 DEF Track, TrackedTyped
  <2> QED BY <2>1, KnownStays DEF KnownTracked, TrackedTyped
<1>3. ASSUME NEW c \in Callers, Submit(c) PROVE KnownTracked'
  <2>1. \A a \in Agents : turns'[a] = turns[a] \/ turns'[a] = NoChild
    BY <1>3 DEF Submit, TrackedTyped
  <2> QED BY <2>1, KnownStays DEF KnownTracked, TrackedTyped, NoChild, Known
<1>4. ASSUME NEW c \in Callers, ReleaseThread(c) PROVE KnownTracked'
  <2>1. \A a \in Agents : turns'[a] = turns[a] \/ turns'[a] = NoChild
    BY <1>4 DEF ReleaseThread, TrackedTyped
  <2> QED BY <2>1, KnownStays DEF KnownTracked, TrackedTyped, NoChild, Known
<1>5. ASSUME NEW t \in Turns, Observe(t) PROVE KnownTracked'
  <2>1. \A a \in Agents : turns'[a] = turns[a] \/ turns'[a] = NoChild
    BY <1>5 DEF Observe, TrackedTyped
  <2> QED BY <2>1, KnownStays DEF KnownTracked, TrackedTyped, NoChild, Known
<1>6. CASE Restart
  <2>1. \A a \in Agents : turns'[a].id = turnID'[a] \/ turns'[a] = NoChild
    BY <1>6 DEF Restart
  <2> QED BY <2>1 DEF KnownTracked, KnownIDs, NoChild, Known
<1> QED BY <1>1, <1>2, <1>3, <1>4, <1>5, <1>6, FrameTurns

\* Calls that went through Submit, and interrupts, name submitted turns.
LEMMA KnownCallsStep ==
  ASSUME Shape, Named, AllKnown, [Next]_vars
  PROVE  KnownCalls'
<1> USE DEF Shape, AllKnown
<1>1. CASE UNCHANGED call
  BY <1>1, KnownStays DEF KnownCalls, CallsTyped, CallRecord
<1>2. ASSUME NEW c \in Callers, NEW a \in Agents, Spawn(c, a) PROVE KnownCalls'
  BY <1>2, KnownStays DEF Spawn, KnownCalls, CallsTyped, CallRecord
<1>3. ASSUME NEW c \in Callers, NEW a \in Agents, FollowUp(c, a) PROVE KnownCalls'
  BY <1>3, KnownStays DEF FollowUp, Start, KnownCalls, CallsTyped, CallRecord
<1>4. ASSUME NEW c \in Callers, NEW a \in Agents, Interrupt(c, a) PROVE KnownCalls'
  BY <1>4, KnownStays DEF Interrupt, KnownCalls, CallsTyped, CallRecord, KnownIDs, GraphTyped
<1>5. ASSUME NEW c \in Callers, NEW a \in Agents, CloseAgent(c, a) PROVE KnownCalls'
  BY <1>5, KnownStays DEF CloseAgent, Close, KnownCalls, CallsTyped, CallRecord
<1>6. ASSUME NEW c \in Callers, Takeover(c) PROVE KnownCalls'
  BY <1>6, GotoEffect, StepNames, KnownStays DEF Takeover, Start, KnownCalls, CallsTyped,
       CallRecord
<1>7. ASSUME NEW c \in Callers, Check(c) PROVE KnownCalls'
  BY <1>7, CheckEffect, KnownStays DEF Check, KnownCalls, CallsTyped, CallRecord
<1>8. ASSUME NEW c \in Callers, Admit(c) PROVE KnownCalls'
  BY <1>8, GotoEffect, StepNames, KnownStays DEF Admit, KnownCalls, CallsTyped, CallRecord
<1>9. ASSUME NEW c \in Callers, Reserve(c) PROVE KnownCalls'
  BY <1>9, GotoEffect, StepNames, KnownStays DEF Reserve, KnownCalls, CallsTyped, CallRecord
<1>10. ASSUME NEW c \in Callers, Activate(c) PROVE KnownCalls'
  BY <1>10, GotoEffect, StepNames, KnownStays DEF Activate, Refund, KnownCalls, CallsTyped,
       CallRecord
<1>11. ASSUME NEW c \in Callers, Track(c) PROVE KnownCalls'
  BY <1>11, GotoEffect, StepNames, KnownStays DEF Track, KnownCalls, CallsTyped, CallRecord
<1>12. ASSUME NEW c \in Callers, Submit(c) PROVE KnownCalls'
  <2>1. call[c].turn \in Turns /\ call[c].pc = "submit"
    BY <1>12 DEF Submit, Named, NamedTurns, Before
  <2>2. \A d \in Callers \ {c} : call'[d] = call[d]
    BY <1>12, <2>1, SubmitEffect, GotoEffect, StepNames
  <2>3. \/ call'[c].pc = "refused"
        \/ call'[c].turn = call[c].turn /\ turn'[call[c].turn].state = "accepted"
    BY <1>12, <2>1, SubmitEffect, GotoEffect, StepNames
  <2> QED BY <2>2, <2>3, KnownStays DEF KnownCalls, CallsTyped, CallRecord, Known
<1>13. ASSUME NEW c \in Callers, Accepted(c) PROVE KnownCalls'
  BY <1>13, GotoEffect, StepNames, ReturnEffect, KnownStays DEF Accepted, KnownCalls,
       CallsTyped, CallRecord
<1>14. ASSUME NEW c \in Callers, Refused(c) PROVE KnownCalls'
  BY <1>14, GotoEffect, StepNames, ReturnEffect, KnownStays DEF Refused, EndWith, End,
       KnownCalls, CallsTyped, CallRecord
<1>15. ASSUME NEW c \in Callers, Cleanup(c) PROVE KnownCalls'
  BY <1>15, ReturnEffect, KnownStays DEF Cleanup, Close, KnownCalls, CallsTyped, CallRecord
<1>15a. ASSUME NEW c \in Callers, CloseFails(c) PROVE KnownCalls'
  BY <1>15a, ReturnEffect, KnownStays DEF CloseFails, End, KnownCalls, CallsTyped, CallRecord
<1>16. ASSUME NEW c \in Callers, Interrupted(c) PROVE KnownCalls'
  BY <1>16, ReturnEffect, KnownStays DEF Interrupted, End, KnownCalls, CallsTyped, CallRecord
<1>16a. ASSUME NEW c \in Callers, TransitionFails(c) PROVE KnownCalls'
  BY <1>16a, GotoEffect, StepNames, ReturnEffect, KnownStays DEF TransitionFails,
       KnownCalls, CallsTyped, CallRecord
<1>17. ASSUME NEW c \in Callers, Release(c) PROVE KnownCalls'
  BY <1>17, GotoEffect, StepNames, ReturnEffect, KnownStays DEF Release, KnownCalls, CallsTyped,
       CallRecord
<1>18. ASSUME NEW c \in Callers, ReleaseThread(c) PROVE KnownCalls'
  BY <1>18, ReturnEffect, KnownStays DEF ReleaseThread, NoChild, KnownCalls, CallsTyped,
       CallRecord
<1>19. CASE Restart
  BY <1>19 DEF Restart, KnownCalls, Idle
<1> QED BY <1>1, <1>2, <1>3, <1>4, <1>5, <1>6, <1>7, <1>8, <1>9, <1>10, <1>11, <1>12, <1>13,
     <1>14, <1>15, <1>15a, <1>16, <1>16a, <1>17, <1>18, <1>19, FrameCall

\* Settlements are of submitted turns.
LEMMA KnownJobsStep ==
  ASSUME Shape, Named, AllKnown, [Next]_vars
  PROVE  KnownJobs'
<1> USE DEF Shape, AllKnown
<1>1. CASE UNCHANGED jobs
  BY <1>1, KnownStays DEF KnownJobs, TrackedTyped, JobRecord
<1>2. ASSUME NEW t \in Turns, Observe(t) PROVE KnownJobs'
  <2>1. Known(t)'
    BY <1>2 DEF Observe, TurnsTyped, TurnRecord, TurnStates, Live, Known
  <2>2. \A i \in jobs' : i \in jobs \/ i.turn = t
    BY <1>2 DEF Observe
  <2> QED BY <2>1, <2>2, KnownStays DEF KnownJobs, TrackedTyped, JobRecord
<1>3. ASSUME NEW j \in jobs, Settle(j) PROVE KnownJobs'
  BY <1>3, KnownStays DEF Settle, EndWith, End, KnownJobs, TrackedTyped, JobRecord
<1>4. CASE Restart
  BY <1>4 DEF Restart, KnownJobs
<1> QED BY <1>1, <1>2, <1>3, <1>4, FrameJobs

\* An agent stays closed, and stays begun.
Forward(b) == (status[b] = "closed" => status'[b] = "closed") /\ (Begun(b) => Begun(b)')

\* A closed agent stays closed, and an agent that has begun never goes back.
LEMMA StatusMoves ==
  ASSUME Shape, NEW b \in Agents, [Next]_vars
  PROVE  Forward(b)
<1> USE DEF Shape, Forward, Begun, CallsTyped
<1>1. CASE UNCHANGED status
  BY <1>1 DEF manager, graph, GraphTyped
<1>2. ASSUME NEW c \in Callers, NEW a \in Agents, Spawn(c, a) PROVE Forward(b)
  BY <1>2 DEF Spawn, manager, graph, GraphTyped
<1>3. ASSUME NEW c \in Callers, NEW a \in Agents, FollowUp(c, a) PROVE Forward(b)
  BY <1>3 DEF FollowUp, Start, MayStart, CanTransition, Endings, manager, graph, GraphTyped
<1>4. ASSUME NEW c \in Callers, NEW a \in Agents, CloseAgent(c, a) PROVE Forward(b)
  BY <1>4 DEF CloseAgent, Close, manager, graph, GraphTyped
<1>5. ASSUME NEW c \in Callers, Takeover(c) PROVE Forward(b)
  BY <1>5 DEF Takeover, Start, MayStart, CanTransition, Endings, manager, graph, GraphTyped
<1>6. ASSUME NEW c \in Callers, Accepted(c) PROVE Forward(b)
  BY <1>6 DEF Accepted, CanTransition, Endings, manager, graph, GraphTyped
<1>7. ASSUME NEW c \in Callers, Refused(c) PROVE Forward(b)
  BY <1>7 DEF Refused, EndWith, End, CanTransition, Endings, manager, graph, GraphTyped
<1>8. ASSUME NEW c \in Callers, Cleanup(c) PROVE Forward(b)
  BY <1>8 DEF Cleanup, Close, manager, graph, GraphTyped
<1>8a. ASSUME NEW c \in Callers, CloseFails(c) PROVE Forward(b)
  BY <1>8a DEF CloseFails, End, CanTransition, Endings, manager, graph, GraphTyped
<1>9. ASSUME NEW c \in Callers, Interrupted(c) PROVE Forward(b)
  BY <1>9 DEF Interrupted, End, CanTransition, Endings, manager, graph, GraphTyped
<1>10. ASSUME NEW a \in Agents, AwaitApproval(a) PROVE Forward(b)
  BY <1>10 DEF AwaitApproval, manager, graph, GraphTyped
<1>11. ASSUME NEW a \in Agents, ResumeApproval(a) PROVE Forward(b)
  BY <1>11 DEF ResumeApproval, manager, graph, GraphTyped
<1>12. ASSUME NEW j \in jobs, Settle(j) PROVE Forward(b)
  <2>1. j.agent \in Agents /\ j.status \in Endings
    BY DEF TrackedTyped, JobRecord
  <2> QED BY <1>12, <2>1 DEF Settle, EndWith, End, CanTransition, Endings, manager, graph,
       GraphTyped
<1>13. CASE Restart
  <2>1. status'[b] = ReconciledStatus(b)
    BY <1>13 DEF Restart
  <2> QED BY <2>1 DEF ReconciledStatus, Unfinished, Slotted
<1> QED BY <1>1, <1>2, <1>3, <1>4, <1>5, <1>6, <1>7, <1>8, <1>8a, <1>9, <1>10, <1>11, <1>12, <1>13,
     FrameStatus

\* A turn is started only for an agent that has begun.
LEMMA BegunCallsStep ==
  ASSUME Shape, AllBegun, [Next]_vars
  PROVE  BegunCalls'
<1> USE DEF Shape, AllBegun, BegunCalls, Before, Begun, Forward
<1>1. CASE UNCHANGED call
  BY <1>1, StatusMoves DEF CallsTyped
<1>2. ASSUME NEW c \in Callers, NEW a \in Agents, Spawn(c, a) PROVE BegunCalls'
  BY <1>2, StatusMoves DEF Spawn, CallsTyped
<1>3. ASSUME NEW c \in Callers, NEW a \in Agents, FollowUp(c, a) PROVE BegunCalls'
  BY <1>3, StatusMoves DEF FollowUp, Start, Start, CallsTyped, GraphTyped
<1>4. ASSUME NEW c \in Callers, NEW a \in Agents, Interrupt(c, a) PROVE BegunCalls'
  BY <1>4, StatusMoves DEF Interrupt, CallsTyped
<1>5. ASSUME NEW c \in Callers, NEW a \in Agents, CloseAgent(c, a) PROVE BegunCalls'
  BY <1>5, StatusMoves DEF CloseAgent, Close, CallsTyped
<1>6. ASSUME NEW c \in Callers, Takeover(c) PROVE BegunCalls'
  <2>1. call[c].pc = "takeover" /\ call[c].agent \in Agents
    BY <1>6 DEF Takeover, CallsTyped
  <2>2. \A d \in Callers \ {c} : call'[d] = call[d]
    BY <1>6, <2>1, GotoEffect, StepNames DEF Takeover
  <2>3. \/ call'[c].pc = "cleanup"
        \/ call'[c].agent = call[c].agent /\ status'[call[c].agent] = "starting"
    BY <1>6, <2>1, GotoEffect, StepNames DEF Takeover, Start, GraphTyped
  <2> QED BY <2>1, <2>2, <2>3, StatusMoves DEF CallsTyped
<1>7. ASSUME NEW c \in Callers, Check(c) PROVE BegunCalls'
  BY <1>7, CheckEffect, StatusMoves DEF Check, CallsTyped
<1>8. ASSUME NEW c \in Callers, Admit(c) PROVE BegunCalls'
  BY <1>8, GotoEffect, StepNames, StatusMoves DEF Admit, CallsTyped
<1>9. ASSUME NEW c \in Callers, Reserve(c) PROVE BegunCalls'
  BY <1>9, GotoEffect, StepNames, StatusMoves DEF Reserve, CallsTyped
<1>10. ASSUME NEW c \in Callers, Activate(c) PROVE BegunCalls'
  BY <1>10, GotoEffect, StepNames, StatusMoves DEF Activate, Refund, CallsTyped
<1>11. ASSUME NEW c \in Callers, Track(c) PROVE BegunCalls'
  BY <1>11, GotoEffect, StepNames, StatusMoves DEF Track, CallsTyped
<1>12. ASSUME NEW c \in Callers, Submit(c) PROVE BegunCalls'
  BY <1>12, GotoEffect, StepNames, StatusMoves DEF Submit, Refund, NoChild, CallsTyped
<1>13. ASSUME NEW c \in Callers, Accepted(c) PROVE BegunCalls'
  BY <1>13, GotoEffect, StepNames, ReturnEffect, StatusMoves DEF Accepted, CallsTyped
<1>14. ASSUME NEW c \in Callers, Refused(c) PROVE BegunCalls'
  BY <1>14, GotoEffect, StepNames, ReturnEffect, StatusMoves DEF Refused, EndWith, End, CallsTyped
<1>15. ASSUME NEW c \in Callers, Cleanup(c) PROVE BegunCalls'
  BY <1>15, ReturnEffect, StatusMoves DEF Cleanup, Close, CallsTyped
<1>15a. ASSUME NEW c \in Callers, CloseFails(c) PROVE BegunCalls'
  BY <1>15a, ReturnEffect, StatusMoves DEF CloseFails, End, CallsTyped
<1>16. ASSUME NEW c \in Callers, Interrupted(c) PROVE BegunCalls'
  BY <1>16, ReturnEffect, StatusMoves DEF Interrupted, End, CallsTyped
<1>16a. ASSUME NEW c \in Callers, TransitionFails(c) PROVE BegunCalls'
  BY <1>16a, GotoEffect, StepNames, ReturnEffect, StatusMoves DEF TransitionFails, CallsTyped
<1>17. ASSUME NEW c \in Callers, Release(c) PROVE BegunCalls'
  BY <1>17, GotoEffect, StepNames, ReturnEffect, StatusMoves DEF Release, CallsTyped
<1>18. ASSUME NEW c \in Callers, ReleaseThread(c) PROVE BegunCalls'
  BY <1>18, ReturnEffect, StatusMoves DEF ReleaseThread, NoChild, CallsTyped
<1>19. CASE Restart
  BY <1>19 DEF Restart, Idle
<1> QED BY <1>1, <1>2, <1>3, <1>4, <1>5, <1>6, <1>7, <1>8, <1>9, <1>10, <1>11, <1>12, <1>13,
     <1>14, <1>15, <1>15a, <1>16, <1>16a, <1>17, <1>18, <1>19, FrameCall

\* Submitted turns belong to agents that have begun.
LEMMA BegunTurnsStep ==
  ASSUME Shape, Named, AllBegun, [Next]_vars
  PROVE  BegunTurns'
<1> USE DEF Shape, AllBegun, BegunTurns, Forward
<1>1. CASE UNCHANGED turn
  BY <1>1, StatusMoves DEF Begun
<1>2. ASSUME NEW c \in Callers, Check(c) PROVE BegunTurns'
  BY <1>2, CheckEffect, StatusMoves DEF Check, Begun
<1>3. ASSUME NEW c \in Callers, Submit(c) PROVE BegunTurns'
  <2>1. /\ call[c].turn \in Turns /\ call[c].pc = "submit"
        /\ turn[call[c].turn].agent = call[c].agent /\ Begun(call[c].agent)
    BY <1>3 DEF Submit, Named, NamedTurns, Before, BegunCalls
  <2> QED BY <1>3, <2>1, SubmitEffect, StatusMoves DEF Begun
<1>4. ASSUME NEW t \in Turns, TurnEnds(t) PROVE BegunTurns'
  BY <1>4, StatusMoves DEF TurnEnds, Begun, TurnsTyped, TurnRecord, TurnStates, Live
<1>4a. ASSUME NEW t \in Turns, TurnOpens(t) PROVE BegunTurns'
  BY <1>4a, StatusMoves DEF TurnOpens, Begun, TurnsTyped, TurnRecord, TurnStates, Live
<1>4b. ASSUME NEW t \in Turns, TurnRejected(t) PROVE BegunTurns'
  BY <1>4b, StatusMoves DEF TurnRejected, Begun, TurnsTyped, TurnRecord, TurnStates, Live
<1>4c. ASSUME NEW t \in Turns, RejectionLost(t) PROVE BegunTurns'
  BY <1>4c, StatusMoves DEF RejectionLost, Begun, TurnsTyped, TurnRecord, TurnStates, Live
<1>5. ASSUME NEW t \in Turns, Observe(t) PROVE BegunTurns'
  BY <1>5, StatusMoves DEF Observe, NoChild, Begun, TurnsTyped, TurnRecord, TurnStates, Live
<1>6. CASE Restart
  BY <1>6, RestartTurns, StatusMoves DEF Begun
<1> QED BY <1>1, <1>2, <1>3, <1>4, <1>4a, <1>4b, <1>4c, <1>5, <1>6, FrameTurn

\* One call at a time claims the slot of an agent.
LEMMA OneClaimStep ==
  ASSUME Shape, Named, Claimed, [Next]_vars
  PROVE  OneClaim'
<1> USE DEF Shape, Claimed, OneClaim, Claims
<1>1. CASE UNCHANGED call
  BY <1>1 DEF CallsTyped
<1>2. ASSUME NEW c \in Callers, NEW a \in Agents, Spawn(c, a) PROVE OneClaim'
  BY <1>2 DEF Spawn, CallsTyped
<1>3. ASSUME NEW c \in Callers, NEW a \in Agents, FollowUp(c, a) PROVE OneClaim'
  BY <1>3 DEF FollowUp, Start, CallsTyped
<1>4. ASSUME NEW c \in Callers, NEW a \in Agents, Interrupt(c, a) PROVE OneClaim'
  BY <1>4 DEF Interrupt, CallsTyped
<1>5. ASSUME NEW c \in Callers, NEW a \in Agents, CloseAgent(c, a) PROVE OneClaim'
  BY <1>5 DEF CloseAgent, Close, CallsTyped
<1>6. ASSUME NEW c \in Callers, Takeover(c) PROVE OneClaim'
  BY <1>6, GotoEffect, StepNames DEF Takeover, Start, CallsTyped
<1>7. ASSUME NEW c \in Callers, Check(c) PROVE OneClaim'
  BY <1>7, CheckEffect DEF Check, CallsTyped
<1>8. ASSUME NEW c \in Callers, Admit(c) PROVE OneClaim'
  BY <1>8, GotoEffect, StepNames DEF Admit, CallsTyped
<1>9. ASSUME NEW c \in Callers, Reserve(c) PROVE OneClaim'
  <2>1. call[c].pc = "reserve" /\ call[c].agent \in Agents
    BY <1>9 DEF Reserve, CallsTyped
  <2>2. CASE CanReserve(call[c].agent)
    <3>1. account[call[c].agent].slots = 0
      BY <2>1, <2>2, Finite DEF CanReserve, Path, BudgetExhausted, AddUsage, ScopeSlots,
           LedgerTyped
    <3>2. \A d \in Callers : ~Claims(d, call[c].agent)
      BY <2>1, <3>1 DEF ClaimHasSlot
    <3> QED BY <1>9, <2>1, <2>2, <3>2, GotoEffect, StepNames DEF Reserve
  <2>3. CASE ~CanReserve(call[c].agent)
    BY <1>9, <2>1, <2>3, GotoEffect, StepNames DEF Reserve
  <2> QED BY <2>2, <2>3
<1>10. ASSUME NEW c \in Callers, Activate(c) PROVE OneClaim'
  BY <1>10, GotoEffect, StepNames DEF Activate, Refund, CallsTyped
<1>11. ASSUME NEW c \in Callers, Track(c) PROVE OneClaim'
  BY <1>11, GotoEffect, StepNames DEF Track, CallsTyped
<1>12. ASSUME NEW c \in Callers, Submit(c) PROVE OneClaim'
  BY <1>12, GotoEffect, StepNames DEF Submit, Refund, NoChild, CallsTyped
<1>13. ASSUME NEW c \in Callers, Accepted(c) PROVE OneClaim'
  BY <1>13, GotoEffect, StepNames, ReturnEffect DEF Accepted, CallsTyped
<1>14. ASSUME NEW c \in Callers, Refused(c) PROVE OneClaim'
  BY <1>14, GotoEffect, StepNames, ReturnEffect DEF Refused, EndWith, End, CallsTyped
<1>15. ASSUME NEW c \in Callers, Cleanup(c) PROVE OneClaim'
  BY <1>15, ReturnEffect DEF Cleanup, Close, CallsTyped
<1>15a. ASSUME NEW c \in Callers, CloseFails(c) PROVE OneClaim'
  BY <1>15a, ReturnEffect DEF CloseFails, End, CallsTyped
<1>16. ASSUME NEW c \in Callers, Interrupted(c) PROVE OneClaim'
  BY <1>16, ReturnEffect DEF Interrupted, End, CallsTyped
<1>16a. ASSUME NEW c \in Callers, TransitionFails(c) PROVE OneClaim'
  BY <1>16a, GotoEffect, StepNames, ReturnEffect DEF TransitionFails, CallsTyped
<1>17. ASSUME NEW c \in Callers, Release(c) PROVE OneClaim'
  BY <1>17, GotoEffect, StepNames, ReturnEffect DEF Release, CallsTyped
<1>18. ASSUME NEW c \in Callers, ReleaseThread(c) PROVE OneClaim'
  BY <1>18, ReturnEffect DEF ReleaseThread, NoChild, CallsTyped
<1>19. CASE Restart
  BY <1>19 DEF Restart, Idle
<1> QED BY <1>1, <1>2, <1>3, <1>4, <1>5, <1>6, <1>7, <1>8, <1>9, <1>10, <1>11, <1>12, <1>13,
     <1>14, <1>15, <1>15a, <1>16, <1>16a, <1>17, <1>18, <1>19, FrameCall

\* Observe drops the tracked turn: a leased one, which no call claims, or one without a
\* reservation.
LEMMA ObserveEffect ==
  ASSUME Shape, Named, AllBegun, Claimed, NEW t \in Turns, Observe(t)
  PROVE  \/ UNCHANGED <<turns, flight, ledger>>
         \/ /\ turn[t].agent \in Agents /\ turns[turn[t].agent].id = t
            /\ turns' = [turns EXCEPT ![turn[t].agent] = NoChild]
            /\ SettleBudget(turn[t].agent, t, turn[t].used)
            /\ flight' = IF turns[turn[t].agent].leased THEN flight - 1 ELSE flight
            /\ turns[turn[t].agent].leased => \A c \in Callers : ~Claims(c, turn[t].agent)
            /\ ~turns[turn[t].agent].leased => UNCHANGED ledger
<1> DEFINE a == turn[t].agent
<1>1. CASE ~(turns[a].id = t /\ (turn[t].state = "ended" \/ turns[a].leased))
  BY <1>1 DEF Observe, governor
<1>2. CASE turns[a].id = t /\ (turn[t].state = "ended" \/ turns[a].leased)
  <2>1. a \in Agents /\ turn[t].state \in {"ended", "rejected"}
    BY DEF Observe, AllBegun, BegunTurns, Begun
  <2>2. /\ turns' = [turns EXCEPT ![a] = NoChild] /\ SettleBudget(a, t, turn[t].used)
        /\ flight' = IF turns[a].leased THEN flight - 1 ELSE flight
    BY <1>2 DEF Observe
  <2>3. turns[a].leased => \A c \in Callers : ~Claims(c, a)
    BY <1>2, <2>1 DEF Claimed, ClaimIsLease, Claims, Named, NamedTurns, Before
  <2>4. ~turns[a].leased => UNCHANGED ledger
    BY <1>2, <2>1, <2>2, SettleEffect DEF Shape, Claimed, RecoveredFree, Turns, NoTurn
  <2> QED BY <1>2, <2>1, <2>2, <2>3, <2>4
<1> QED BY <1>1, <1>2

\* Where a call that has left Reserve stands.
LEMMA ClaimFacts ==
  ASSUME Shape, Named, NEW c \in Callers, call[c].pc \in Before
  PROVE  call[c].agent \in Agents /\ call[c].turn \in Turns
BY DEF Shape, CallsTyped, Named, NamedTurns, Before

\* A call that claims an agent holds the slot of its scope.
LEMMA ClaimHasSlotStep ==
  ASSUME Shape, Named, AllBegun, Claimed, [Next]_vars
  PROVE  ClaimHasSlot'
<1> USE DEF Shape, Claimed, ClaimHasSlot, Claims
<1>1. CASE UNCHANGED <<call, ledger>>
  BY <1>1 DEF CallsTyped, ledger
<1>2. ASSUME NEW c \in Callers, NEW a \in Agents, Spawn(c, a) PROVE ClaimHasSlot'
  BY <1>2 DEF Spawn, CallsTyped, ledger
<1>3. ASSUME NEW c \in Callers, NEW a \in Agents, FollowUp(c, a) PROVE ClaimHasSlot'
  BY <1>3 DEF FollowUp, Start, CallsTyped, ledger
<1>4. ASSUME NEW c \in Callers, NEW a \in Agents, Interrupt(c, a) PROVE ClaimHasSlot'
  BY <1>4 DEF Interrupt, CallsTyped, ledger
<1>5. ASSUME NEW c \in Callers, NEW a \in Agents, CloseAgent(c, a) PROVE ClaimHasSlot'
  BY <1>5 DEF CloseAgent, Close, CallsTyped, ledger
<1>6. ASSUME NEW c \in Callers, Takeover(c) PROVE ClaimHasSlot'
  BY <1>6, GotoEffect, StepNames DEF Takeover, Start, CallsTyped, governor, ledger, runtime
<1>7. ASSUME NEW c \in Callers, Check(c) PROVE ClaimHasSlot'
  BY <1>7, CheckEffect DEF Check, CallsTyped, ledger
<1>8. ASSUME NEW c \in Callers, Admit(c) PROVE ClaimHasSlot'
  BY <1>8, GotoEffect, StepNames DEF Admit, CallsTyped, governor, ledger, runtime
<1>9. ASSUME NEW c \in Callers, Reserve(c) PROVE ClaimHasSlot'
  <2>1. call[c].pc = "reserve" /\ call[c].agent \in Agents
    BY <1>9 DEF Reserve, CallsTyped
  <2>2. CASE CanReserve(call[c].agent)
    <3>1. \A b \in Agents : /\ account'[b].slots \in Nat /\ account'[b].slots >= account[b].slots
                            /\ b = call[c].agent => account'[b].slots > 0
      BY <1>9, <2>1, <2>2 DEF Reserve, Scopes, Path, AddUsage, LedgerTyped
    <3>2. UNCHANGED turns /\ Goto(c, "activate")
      BY <1>9, <2>2 DEF Reserve, runtime
    <3> QED BY <2>1, <3>1, <3>2, GotoEffect, StepNames DEF LedgerTyped
  <2>3. CASE ~CanReserve(call[c].agent)
    BY <1>9, <2>1, <2>3, GotoEffect, StepNames DEF Reserve, ledger, runtime
  <2> QED BY <2>2, <2>3
<1>10. ASSUME NEW c \in Callers, Activate(c) PROVE ClaimHasSlot'
  <2>1. call[c].pc = "activate" /\ call[c].agent \in Agents /\ call[c].turn \in Turns
    BY <1>10, ClaimFacts DEF Activate, Before
  <2>2. CASE Goto(c, "track") /\ UNCHANGED ledger
    BY <2>1, <2>2, GotoEffect, StepNames DEF ledger
  <2>3. CASE Goto(c, "refused") /\ SettleBudget(call[c].agent, call[c].turn, 0)
    BY <2>1, <2>3, GotoEffect, StepNames, SettleEffect DEF OneClaim
  <2> QED BY <1>10, <2>2, <2>3 DEF Activate, Refund, ledger
<1>11. ASSUME NEW c \in Callers, Track(c) PROVE ClaimHasSlot'
  BY <1>11, GotoEffect, StepNames DEF Track, CallsTyped, governor, ledger, runtime
<1>12. ASSUME NEW c \in Callers, Submit(c) PROVE ClaimHasSlot'
  <2>1. call[c].pc = "submit" /\ call[c].agent \in Agents /\ call[c].turn \in Turns
    BY <1>12, ClaimFacts DEF Submit, Before
  <2>2. CASE Goto(c, "accepted") /\ UNCHANGED ledger
    BY <2>1, <2>2, GotoEffect, StepNames DEF ledger
  <2>3. CASE Goto(c, "refused") /\ SettleBudget(call[c].agent, call[c].turn, 0)
    BY <2>1, <2>3, GotoEffect, StepNames, SettleEffect DEF OneClaim
  <2> QED BY <1>12, <2>2, <2>3 DEF Submit, Refund, ledger
<1>13. ASSUME NEW c \in Callers, Accepted(c) PROVE ClaimHasSlot'
  BY <1>13, GotoEffect, StepNames, ReturnEffect DEF Accepted, CallsTyped, governor, ledger,
       runtime
<1>14. ASSUME NEW c \in Callers, Refused(c) PROVE ClaimHasSlot'
  BY <1>14, GotoEffect, StepNames, ReturnEffect DEF Refused, EndWith, End, CallsTyped, governor,
       ledger, runtime
<1>15. ASSUME NEW c \in Callers, Cleanup(c) PROVE ClaimHasSlot'
  BY <1>15, ReturnEffect DEF Cleanup, Close, CallsTyped, governor, ledger, runtime
<1>15a. ASSUME NEW c \in Callers, CloseFails(c) PROVE ClaimHasSlot'
  BY <1>15a, ReturnEffect DEF CloseFails, End, CallsTyped, governor, ledger, runtime
<1>16. ASSUME NEW c \in Callers, Interrupted(c) PROVE ClaimHasSlot'
  BY <1>16, ReturnEffect DEF Interrupted, End, CallsTyped, governor, ledger, runtime
<1>16a. ASSUME NEW c \in Callers, TransitionFails(c) PROVE ClaimHasSlot'
  BY <1>16a, GotoEffect, StepNames, ReturnEffect DEF TransitionFails, CallsTyped, governor,
       ledger, runtime
<1>17. ASSUME NEW c \in Callers, Release(c) PROVE ClaimHasSlot'
  BY <1>17, GotoEffect, StepNames, ReturnEffect DEF Release, CallsTyped, governor, ledger, runtime
<1>18. ASSUME NEW c \in Callers, ReleaseThread(c) PROVE ClaimHasSlot'
  BY <1>18, ReturnEffect DEF ReleaseThread, NoChild, CallsTyped, governor, ledger, runtime
<1>19. ASSUME NEW t \in Turns, Observe(t) PROVE ClaimHasSlot'
  <2>1. UNCHANGED call
    BY <1>19 DEF Observe
  <2>2. UNCHANGED ledger \/ /\ turn[t].agent \in Agents
                            /\ SettleBudget(turn[t].agent, t, turn[t].used)
                            /\ \A c \in Callers : ~Claims(c, turn[t].agent)
    BY <1>19, ObserveEffect
  <2> QED BY <2>1, <2>2, SettleEffect DEF ledger
<1>20. CASE Restart
  BY <1>20 DEF Restart, Idle
<1> QED BY <1>1, <1>2, <1>3, <1>4, <1>5, <1>6, <1>7, <1>8, <1>9, <1>10, <1>11, <1>12, <1>13,
     <1>14, <1>15, <1>15a, <1>16, <1>16a, <1>17, <1>18, <1>19, <1>20, FrameCall, FrameLedger

\* A leased turn holds the slot of its agent's scope.
LEMMA LeaseHasSlotStep ==
  ASSUME Shape, Named, AllBegun, Claimed, [Next]_vars
  PROVE  LeaseHasSlot'
<1> USE DEF Shape, Claimed, LeaseHasSlot
<1>1. CASE UNCHANGED <<turns, ledger>>
  BY <1>1 DEF ledger, runtime
<1>2. ASSUME NEW c \in Callers, Reserve(c) PROVE LeaseHasSlot'
  <2>1. call[c].pc = "reserve" /\ call[c].agent \in Agents
    BY <1>2 DEF Reserve, CallsTyped
  <2>2. CASE CanReserve(call[c].agent)
    <3>1. \A b \in Agents : /\ account'[b].slots \in Nat /\ account'[b].slots >= account[b].slots
                            /\ b = call[c].agent => account'[b].slots > 0
      BY <1>2, <2>1, <2>2 DEF Reserve, Scopes, Path, AddUsage, LedgerTyped
    <3>2. UNCHANGED turns /\ Goto(c, "activate")
      BY <1>2, <2>2 DEF Reserve, runtime
    <3> QED BY <2>1, <3>1, <3>2, GotoEffect, StepNames DEF LedgerTyped
  <2>3. CASE ~CanReserve(call[c].agent)
    BY <1>2, <2>1, <2>3, GotoEffect, StepNames DEF Reserve, ledger, runtime
  <2> QED BY <2>2, <2>3
<1>3. ASSUME NEW c \in Callers, Activate(c) PROVE LeaseHasSlot'
  <2>1. call[c].pc = "activate" /\ call[c].agent \in Agents /\ call[c].turn \in Turns
    BY <1>3, ClaimFacts DEF Activate, Before
  <2>2. ~turns[call[c].agent].leased
    BY <2>1 DEF ClaimIsLease, Claims
  <2>3. UNCHANGED turns /\ (UNCHANGED ledger \/ SettleBudget(call[c].agent, call[c].turn, 0))
    BY <1>3 DEF Activate, Refund, runtime, ledger
  <2> QED BY <2>1, <2>2, <2>3, SettleEffect DEF ledger
<1>4. ASSUME NEW c \in Callers, Track(c) PROVE LeaseHasSlot'
  <2>1. call[c].pc = "track" /\ call[c].agent \in Agents
    BY <1>4, ClaimFacts DEF Track, Before
  <2>2. account[call[c].agent].slots > 0
    BY <2>1 DEF ClaimHasSlot, Claims
  <2> QED BY <1>4, <2>1, <2>2 DEF Track, TrackedTyped, ledger
<1>5. ASSUME NEW c \in Callers, Submit(c) PROVE LeaseHasSlot'
  <2>1. call[c].pc = "submit" /\ call[c].agent \in Agents /\ call[c].turn \in Turns
    BY <1>5, ClaimFacts DEF Submit, Before
  <2>2. CASE UNCHANGED <<turns, ledger>>
    BY <2>2 DEF ledger
  <2>3. CASE /\ turns' = [turns EXCEPT ![call[c].agent] = NoChild]
             /\ SettleBudget(call[c].agent, call[c].turn, 0)
    BY <2>1, <2>3, SettleEffect DEF TrackedTyped, NoChild
  <2> QED BY <1>5, <2>2, <2>3 DEF Submit, Refund, ledger
<1>6. ASSUME NEW c \in Callers, ReleaseThread(c) PROVE LeaseHasSlot'
  BY <1>6 DEF ReleaseThread, NoChild, ledger, TrackedTyped, CallsTyped
<1>7. ASSUME NEW t \in Turns, Observe(t) PROVE LeaseHasSlot'
  <2>1. CASE UNCHANGED <<turns, ledger>>
    BY <2>1 DEF ledger
  <2>2. CASE /\ turn[t].agent \in Agents /\ SettleBudget(turn[t].agent, t, turn[t].used)
             /\ turns' = [turns EXCEPT ![turn[t].agent] = NoChild]
    BY <2>2, SettleEffect DEF TrackedTyped, NoChild
  <2> QED BY <1>7, <2>1, <2>2, ObserveEffect
<1>8. CASE Restart
  BY <1>8 DEF Restart, NoChild
<1> QED BY <1>1, <1>2, <1>3, <1>4, <1>5, <1>6, <1>7, <1>8, FrameTurns, FrameLedger

\* A call that claims an agent with a leased turn is about to submit that turn.
LEMMA ClaimIsLeaseStep ==
  ASSUME Shape, Named, AllBegun, Claimed, [Next]_vars
  PROVE  ClaimIsLease'
<1> USE DEF Shape, Claimed, ClaimIsLease, Claims
<1>1. CASE UNCHANGED <<call, turns>>
  BY <1>1 DEF CallsTyped, runtime
<1>2. ASSUME NEW c \in Callers, NEW a \in Agents, Spawn(c, a) PROVE ClaimIsLease'
  BY <1>2 DEF Spawn, CallsTyped, runtime
<1>3. ASSUME NEW c \in Callers, NEW a \in Agents, FollowUp(c, a) PROVE ClaimIsLease'
  BY <1>3 DEF FollowUp, Start, CallsTyped, runtime
<1>4. ASSUME NEW c \in Callers, NEW a \in Agents, Interrupt(c, a) PROVE ClaimIsLease'
  BY <1>4 DEF Interrupt, CallsTyped, runtime
<1>5. ASSUME NEW c \in Callers, NEW a \in Agents, CloseAgent(c, a) PROVE ClaimIsLease'
  BY <1>5 DEF CloseAgent, Close, CallsTyped, runtime
<1>6. ASSUME NEW c \in Callers, Takeover(c) PROVE ClaimIsLease'
  BY <1>6, GotoEffect, StepNames DEF Takeover, Start, CallsTyped, runtime
<1>7. ASSUME NEW c \in Callers, Check(c) PROVE ClaimIsLease'
  BY <1>7, CheckEffect DEF Check, CallsTyped, runtime
<1>8. ASSUME NEW c \in Callers, Admit(c) PROVE ClaimIsLease'
  BY <1>8, GotoEffect, StepNames DEF Admit, CallsTyped, runtime
<1>9. ASSUME NEW c \in Callers, Reserve(c) PROVE ClaimIsLease'
  <2>1. call[c].pc = "reserve" /\ call[c].agent \in Agents
    BY <1>9 DEF Reserve, CallsTyped
  <2>2. CASE CanReserve(call[c].agent)
    <3>1. account[call[c].agent].slots = 0
      BY <2>1, <2>2, Finite DEF CanReserve, Path, BudgetExhausted, AddUsage, ScopeSlots,
           LedgerTyped
    <3>2. ~turns[call[c].agent].leased
      BY <2>1, <3>1 DEF LeaseHasSlot
    <3> QED BY <1>9, <2>1, <2>2, <3>2, GotoEffect, StepNames DEF Reserve, runtime
  <2>3. CASE ~CanReserve(call[c].agent)
    BY <1>9, <2>1, <2>3, GotoEffect, StepNames DEF Reserve, runtime
  <2> QED BY <2>2, <2>3
<1>10. ASSUME NEW c \in Callers, Activate(c) PROVE ClaimIsLease'
  BY <1>10, GotoEffect, StepNames DEF Activate, Refund, CallsTyped, runtime
<1>11. ASSUME NEW c \in Callers, Track(c) PROVE ClaimIsLease'
  <2>1. call[c].pc = "track" /\ call[c].agent \in Agents
    BY <1>11, ClaimFacts DEF Track, Before
  <2>2. turns' = [turns EXCEPT ![call[c].agent] = [id |-> call[c].turn, leased |-> TRUE]]
    BY <1>11 DEF Track
  <2>3. Goto(c, "submit")
    BY <1>11 DEF Track
  <2>4. \A d \in Callers \ {c} : ~Claims(d, call[c].agent)
    BY <2>1 DEF OneClaim
  <2> QED BY <2>1, <2>2, <2>3, <2>4, GotoEffect, StepNames DEF TrackedTyped
<1>12. ASSUME NEW c \in Callers, Submit(c) PROVE ClaimIsLease'
  <2>1. call[c].pc = "submit" /\ call[c].agent \in Agents
    BY <1>12, ClaimFacts DEF Submit, Before
  <2>2. Goto(c, "accepted") \/ Goto(c, "refused")
    BY <1>12 DEF Submit
  <2>3. turns' = turns \/ turns' = [turns EXCEPT ![call[c].agent] = NoChild]
    BY <1>12 DEF Submit
  <2> QED BY <2>1, <2>2, <2>3, GotoEffect, StepNames DEF TrackedTyped, NoChild
<1>13. ASSUME NEW c \in Callers, Accepted(c) PROVE ClaimIsLease'
  BY <1>13, GotoEffect, StepNames, ReturnEffect DEF Accepted, CallsTyped, runtime
<1>14. ASSUME NEW c \in Callers, Refused(c) PROVE ClaimIsLease'
  BY <1>14, GotoEffect, StepNames, ReturnEffect DEF Refused, EndWith, End, CallsTyped, runtime
<1>15. ASSUME NEW c \in Callers, Cleanup(c) PROVE ClaimIsLease'
  BY <1>15, ReturnEffect DEF Cleanup, Close, CallsTyped, runtime
<1>15a. ASSUME NEW c \in Callers, CloseFails(c) PROVE ClaimIsLease'
  BY <1>15a, ReturnEffect DEF CloseFails, End, CallsTyped, runtime
<1>16. ASSUME NEW c \in Callers, Interrupted(c) PROVE ClaimIsLease'
  BY <1>16, ReturnEffect DEF Interrupted, End, CallsTyped, runtime
<1>16a. ASSUME NEW c \in Callers, TransitionFails(c) PROVE ClaimIsLease'
  BY <1>16a, GotoEffect, StepNames, ReturnEffect DEF TransitionFails, CallsTyped, runtime
<1>17. ASSUME NEW c \in Callers, Release(c) PROVE ClaimIsLease'
  BY <1>17, GotoEffect, StepNames, ReturnEffect DEF Release, CallsTyped, runtime
<1>18. ASSUME NEW c \in Callers, ReleaseThread(c) PROVE ClaimIsLease'
  <2>1. \A a \in Agents : turns'[a] = turns[a] \/ turns'[a] = NoChild
    BY <1>18 DEF ReleaseThread, TrackedTyped
  <2> QED BY <1>18, <2>1, ReturnEffect DEF ReleaseThread, NoChild
<1>19. ASSUME NEW t \in Turns, Observe(t) PROVE ClaimIsLease'
  <2>1. UNCHANGED call
    BY <1>19 DEF Observe
  <2>2. \A a \in Agents : turns'[a] = turns[a] \/ turns'[a] = NoChild
    BY <1>19, ObserveEffect DEF TrackedTyped
  <2> QED BY <2>1, <2>2 DEF NoChild
<1>20. CASE Restart
  BY <1>20 DEF Restart, Idle
<1> QED BY <1>1, <1>2, <1>3, <1>4, <1>5, <1>6, <1>7, <1>8, <1>9, <1>10, <1>11, <1>12, <1>13,
     <1>14, <1>15, <1>15a, <1>16, <1>16a, <1>17, <1>18, <1>19, <1>20, FrameCall, FrameTurns

\* A turn tracked without a lease has no active reservation.
LEMMA RecoveredFreeStep ==
  ASSUME Shape, Named, AllKnown, AllBegun, Claimed, TrackedTyped', [Next]_vars
  PROVE  RecoveredFree'
<1> USE DEF Shape, Claimed, RecoveredFree
<1>1. CASE UNCHANGED <<turns, ledger>>
  BY <1>1 DEF ledger, runtime
<1>2. ASSUME NEW c \in Callers, Reserve(c) PROVE RecoveredFree'
  <2>1. call[c].turn \in Turns /\ turn[call[c].turn].state = "named"
    BY <1>2 DEF Reserve, Named, NamedTurns, Before
  <2>2. \A a \in Agents : turns[a].id # NoTurn /\ ~turns[a].leased => turns[a].id # call[c].turn
    BY <2>1 DEF AllKnown, KnownTracked, Known
  <2> QED BY <1>2, <2>1, <2>2 DEF Reserve, LedgerTyped, TrackedTyped, runtime, ledger
<1>3. ASSUME NEW c \in Callers, Activate(c) PROVE RecoveredFree'
  <2>1. call[c].agent \in Agents /\ call[c].turn \in Turns
    BY <1>3, ClaimFacts DEF Activate, Before
  <2>2. UNCHANGED turns /\ (UNCHANGED ledger \/ SettleBudget(call[c].agent, call[c].turn, 0))
    BY <1>3 DEF Activate, Refund, runtime, ledger
  <2> QED BY <2>1, <2>2, SettleEffect DEF ledger, TrackedTyped
<1>4. ASSUME NEW c \in Callers, Track(c) PROVE RecoveredFree'
  <2>1. \A a \in Agents : turns'[a] = turns[a] \/ turns'[a].leased
    BY <1>4 DEF Track, TrackedTyped
  <2> QED BY <1>4, <2>1 DEF Track, ledger
<1>5. ASSUME NEW c \in Callers, Submit(c) PROVE RecoveredFree'
  <2>1. call[c].agent \in Agents /\ call[c].turn \in Turns
    BY <1>5, ClaimFacts DEF Submit, Before
  <2>2. \A a \in Agents : turns'[a] = turns[a] \/ turns'[a] = NoChild
    BY <1>5, <2>1 DEF Submit, TrackedTyped
  <2>3. UNCHANGED ledger \/ SettleBudget(call[c].agent, call[c].turn, 0)
    BY <1>5 DEF Submit, Refund, ledger
  <2> QED BY <2>1, <2>2, <2>3, SettleEffect DEF ledger, TrackedTyped, NoChild
<1>6. ASSUME NEW c \in Callers, ReleaseThread(c) PROVE RecoveredFree'
  <2>1. \A a \in Agents : turns'[a] = turns[a] \/ turns'[a] = NoChild
    BY <1>6 DEF ReleaseThread, TrackedTyped
  <2> QED BY <1>6, <2>1 DEF ReleaseThread, NoChild, ledger
<1>7. ASSUME NEW t \in Turns, Observe(t) PROVE RecoveredFree'
  <2>1. \A a \in Agents : turns'[a] = turns[a] \/ turns'[a] = NoChild
    BY <1>7, ObserveEffect DEF TrackedTyped
  <2>2. \/ UNCHANGED ledger
        \/ turn[t].agent \in Agents /\ SettleBudget(turn[t].agent, t, turn[t].used)
    BY <1>7, ObserveEffect
  <2> QED BY <2>1, <2>2, SettleEffect DEF ledger, TrackedTyped, NoChild
<1>8. CASE Restart
  <2>1. \A u \in Turns : reservation'[u].state = "none"
    BY <1>8 DEF Restart
  <2> QED BY <2>1 DEF TrackedTyped
<1> QED BY <1>1, <1>2, <1>3, <1>4, <1>5, <1>6, <1>7, <1>8, FrameTurns, FrameLedger

\* Only close_agent takes the lease of a turn that is about to be submitted.
LEMMA ClosedSubmitsStep ==
  ASSUME Shape, Named, AllBegun, Claimed, ClosedFirst, [Next]_vars
  PROVE  ClosedSubmits'
<1> USE DEF Shape, ClosedFirst, ClosedSubmits
<1>1. CASE UNCHANGED <<call, turns>>
  BY <1>1, StatusMoves DEF Forward, CallsTyped, runtime
<1>2. ASSUME NEW c \in Callers, NEW a \in Agents, Spawn(c, a) PROVE ClosedSubmits'
  BY <1>2, StatusMoves DEF Spawn, Forward, CallsTyped, runtime
<1>3. ASSUME NEW c \in Callers, NEW a \in Agents, FollowUp(c, a) PROVE ClosedSubmits'
  BY <1>3, StatusMoves DEF FollowUp, Start, Forward, CallsTyped, runtime
<1>4. ASSUME NEW c \in Callers, NEW a \in Agents, Interrupt(c, a) PROVE ClosedSubmits'
  BY <1>4, StatusMoves DEF Interrupt, Forward, CallsTyped, runtime
<1>5. ASSUME NEW c \in Callers, NEW a \in Agents, CloseAgent(c, a) PROVE ClosedSubmits'
  BY <1>5, StatusMoves DEF CloseAgent, Close, Forward, CallsTyped, runtime
<1>6. ASSUME NEW c \in Callers, Takeover(c) PROVE ClosedSubmits'
  BY <1>6, GotoEffect, StepNames, StatusMoves DEF Takeover, Start, Forward, CallsTyped, runtime
<1>7. ASSUME NEW c \in Callers, Check(c) PROVE ClosedSubmits'
  BY <1>7, CheckEffect, StatusMoves DEF Check, Forward, CallsTyped, runtime
<1>8. ASSUME NEW c \in Callers, Admit(c) PROVE ClosedSubmits'
  BY <1>8, GotoEffect, StepNames, StatusMoves DEF Admit, Forward, CallsTyped, runtime
<1>9. ASSUME NEW c \in Callers, Reserve(c) PROVE ClosedSubmits'
  BY <1>9, GotoEffect, StepNames, StatusMoves DEF Reserve, Forward, CallsTyped, runtime
<1>10. ASSUME NEW c \in Callers, Activate(c) PROVE ClosedSubmits'
  BY <1>10, GotoEffect, StepNames, StatusMoves DEF Activate, Refund, Forward, CallsTyped, runtime
<1>11. ASSUME NEW c \in Callers, Track(c) PROVE ClosedSubmits'
  <2>1. call[c].pc = "track" /\ call[c].agent \in Agents
    BY <1>11, ClaimFacts DEF Track, Before
  <2>2. /\ turns'[call[c].agent].leased
        /\ \A a \in Agents \ {call[c].agent} : turns'[a] = turns[a]
    BY <1>11, <2>1 DEF Track, TrackedTyped
  <2>3. Goto(c, "submit")
    BY <1>11 DEF Track
  <2> QED BY <2>1, <2>2, <2>3, GotoEffect, StepNames, StatusMoves DEF Forward, CallsTyped
<1>12. ASSUME NEW c \in Callers, Submit(c) PROVE ClosedSubmits'
  <2>1. call[c].pc = "submit" /\ call[c].agent \in Agents
    BY <1>12, ClaimFacts DEF Submit, Before
  <2>2. Goto(c, "accepted") \/ Goto(c, "refused")
    BY <1>12 DEF Submit
  <2>3. \A d \in Callers \ {c} : call[d].pc = "submit" => call[d].agent # call[c].agent
    BY <2>1 DEF Claimed, OneClaim, Claims
  <2>4. \A a \in Agents \ {call[c].agent} : turns'[a] = turns[a]
    BY <1>12, <2>1 DEF Submit, TrackedTyped
  <2> QED BY <2>1, <2>2, <2>3, <2>4, GotoEffect, StepNames, StatusMoves DEF Forward, CallsTyped
<1>13. ASSUME NEW c \in Callers, Accepted(c) PROVE ClosedSubmits'
  BY <1>13, GotoEffect, StepNames, ReturnEffect, StatusMoves DEF Accepted, Forward, CallsTyped,
       runtime
<1>14. ASSUME NEW c \in Callers, Refused(c) PROVE ClosedSubmits'
  BY <1>14, GotoEffect, StepNames, ReturnEffect, StatusMoves DEF Refused, EndWith, End, Forward,
       CallsTyped, runtime
<1>15. ASSUME NEW c \in Callers, Cleanup(c) PROVE ClosedSubmits'
  BY <1>15, ReturnEffect, StatusMoves DEF Cleanup, Close, Forward, CallsTyped, runtime
<1>15a. ASSUME NEW c \in Callers, CloseFails(c) PROVE ClosedSubmits'
  BY <1>15a, ReturnEffect, StatusMoves DEF CloseFails, End, Forward, CallsTyped, runtime
<1>16. ASSUME NEW c \in Callers, Interrupted(c) PROVE ClosedSubmits'
  BY <1>16, ReturnEffect, StatusMoves DEF Interrupted, End, Forward, CallsTyped, runtime
<1>16a. ASSUME NEW c \in Callers, TransitionFails(c) PROVE ClosedSubmits'
  BY <1>16a, GotoEffect, StepNames, ReturnEffect, StatusMoves DEF TransitionFails, Forward,
       CallsTyped, runtime
<1>17. ASSUME NEW c \in Callers, Release(c) PROVE ClosedSubmits'
  BY <1>17, GotoEffect, StepNames, ReturnEffect, StatusMoves DEF Release, Forward, CallsTyped,
       runtime
<1>18. ASSUME NEW c \in Callers, ReleaseThread(c) PROVE ClosedSubmits'
  <2>1. call[c].agent \in Agents /\ status[call[c].agent] = "closed"
    BY <1>18 DEF ReleaseThread, CallsTyped, ClosedReleases
  <2>2. \A a \in Agents \ {call[c].agent} : turns'[a] = turns[a]
    BY <1>18, <2>1 DEF ReleaseThread, TrackedTyped
  <2> QED BY <1>18, <2>1, <2>2, ReturnEffect, StatusMoves DEF ReleaseThread, Forward, CallsTyped
<1>19. ASSUME NEW t \in Turns, Observe(t) PROVE ClosedSubmits'
  <2>1. UNCHANGED call
    BY <1>19 DEF Observe
  <2>2. CASE UNCHANGED turns
    BY <2>1, <2>2, StatusMoves DEF Forward, CallsTyped
  <2>3. CASE /\ turn[t].agent \in Agents /\ turns' = [turns EXCEPT ![turn[t].agent] = NoChild]
             /\ turns[turn[t].agent].leased => \A c \in Callers : ~Claims(c, turn[t].agent)
    <3>1. \A c \in Callers : call[c].pc = "submit" /\ turns[call[c].agent].leased =>
            turns'[call[c].agent] = turns[call[c].agent]
      BY <2>3 DEF Claims, TrackedTyped, CallsTyped
    <3> QED BY <2>1, <3>1, StatusMoves DEF Forward, CallsTyped
  <2> QED BY <1>19, <2>2, <2>3, ObserveEffect
<1>20. CASE Restart
  BY <1>20 DEF Restart, Idle
<1> QED BY <1>1, <1>2, <1>3, <1>4, <1>5, <1>6, <1>7, <1>8, <1>9, <1>10, <1>11, <1>12, <1>13,
     <1>14, <1>15, <1>15a, <1>16, <1>16a, <1>17, <1>18, <1>19, <1>20, FrameCall, FrameTurns

\* release runs for closed agents.
LEMMA ClosedReleasesStep ==
  ASSUME Shape, Named, AllBegun, ClosedFirst, [Next]_vars
  PROVE  ClosedReleases'
<1> USE DEF Shape, ClosedFirst, ClosedReleases
<1>1. CASE UNCHANGED call
  BY <1>1, StatusMoves DEF Forward, CallsTyped
<1>2. ASSUME NEW c \in Callers, NEW a \in Agents, Spawn(c, a) PROVE ClosedReleases'
  BY <1>2, StatusMoves DEF Spawn, Forward, CallsTyped
<1>3. ASSUME NEW c \in Callers, NEW a \in Agents, FollowUp(c, a) PROVE ClosedReleases'
  BY <1>3, StatusMoves DEF FollowUp, Start, Forward, CallsTyped
<1>4. ASSUME NEW c \in Callers, NEW a \in Agents, Interrupt(c, a) PROVE ClosedReleases'
  BY <1>4, StatusMoves DEF Interrupt, Forward, CallsTyped
<1>5. ASSUME NEW c \in Callers, NEW a \in Agents, CloseAgent(c, a) PROVE ClosedReleases'
  BY <1>5, StatusMoves DEF CloseAgent, Close, Forward, CallsTyped, GraphTyped
<1>6. ASSUME NEW c \in Callers, Takeover(c) PROVE ClosedReleases'
  BY <1>6, GotoEffect, StepNames, StatusMoves DEF Takeover, Start, Forward, CallsTyped
<1>7. ASSUME NEW c \in Callers, Check(c) PROVE ClosedReleases'
  BY <1>7, CheckEffect, StatusMoves DEF Check, Forward, CallsTyped
<1>8. ASSUME NEW c \in Callers, Admit(c) PROVE ClosedReleases'
  BY <1>8, GotoEffect, StepNames, StatusMoves DEF Admit, Forward, CallsTyped
<1>9. ASSUME NEW c \in Callers, Reserve(c) PROVE ClosedReleases'
  BY <1>9, GotoEffect, StepNames, StatusMoves DEF Reserve, Forward, CallsTyped
<1>10. ASSUME NEW c \in Callers, Activate(c) PROVE ClosedReleases'
  BY <1>10, GotoEffect, StepNames, StatusMoves DEF Activate, Refund, Forward, CallsTyped
<1>11. ASSUME NEW c \in Callers, Track(c) PROVE ClosedReleases'
  BY <1>11, GotoEffect, StepNames, StatusMoves DEF Track, Forward, CallsTyped
<1>12. ASSUME NEW c \in Callers, Submit(c) PROVE ClosedReleases'
  BY <1>12, GotoEffect, StepNames, StatusMoves DEF Submit, Refund, NoChild, Forward, CallsTyped
<1>13. ASSUME NEW c \in Callers, Accepted(c) PROVE ClosedReleases'
  BY <1>13, GotoEffect, StepNames, ReturnEffect, StatusMoves DEF Accepted, Forward, CallsTyped
<1>14. ASSUME NEW c \in Callers, Refused(c) PROVE ClosedReleases'
  BY <1>14, GotoEffect, StepNames, ReturnEffect, StatusMoves DEF Refused, EndWith, End, Forward,
       CallsTyped
<1>15. ASSUME NEW c \in Callers, Cleanup(c) PROVE ClosedReleases'
  BY <1>15, ReturnEffect, StatusMoves DEF Cleanup, Close, Forward, CallsTyped
<1>15a. ASSUME NEW c \in Callers, CloseFails(c) PROVE ClosedReleases'
  BY <1>15a, ReturnEffect, StatusMoves DEF CloseFails, End, Forward, CallsTyped
<1>16. ASSUME NEW c \in Callers, Interrupted(c) PROVE ClosedReleases'
  BY <1>16, ReturnEffect, StatusMoves DEF Interrupted, End, Forward, CallsTyped
<1>16a. ASSUME NEW c \in Callers, TransitionFails(c) PROVE ClosedReleases'
  BY <1>16a, GotoEffect, StepNames, ReturnEffect, StatusMoves DEF TransitionFails, Forward,
       CallsTyped
<1>17. ASSUME NEW c \in Callers, Release(c) PROVE ClosedReleases'
  BY <1>17, GotoEffect, StepNames, ReturnEffect, StatusMoves DEF Release, Forward, CallsTyped
<1>18. ASSUME NEW c \in Callers, ReleaseThread(c) PROVE ClosedReleases'
  BY <1>18, ReturnEffect, StatusMoves DEF ReleaseThread, NoChild, Forward, CallsTyped
<1>19. CASE Restart
  BY <1>19 DEF Restart, Idle
<1> QED BY <1>1, <1>2, <1>3, <1>4, <1>5, <1>6, <1>7, <1>8, <1>9, <1>10, <1>11, <1>12, <1>13,
     <1>14, <1>15, <1>15a, <1>16, <1>16a, <1>17, <1>18, <1>19, FrameCall

-----------------------------------------------------------------------------
(* Slots.                                                                  *)

\* The agents that occupy a slot.
Occupying == {a \in Agents : Occupies(a)}

\* An agent enters a free slot.
LEMMA EnterSlot ==
  ASSUME SlotsExact, NEW a \in Agents, ~Occupies(a), Occupies(a)', active < MaxParallel,
         \A b \in Agents \ {a} : status'[b] = status[b], active' = active + 1
  PROVE  SlotsExact'
<1>1. Occupying' = Occupying \cup {a} /\ a \notin Occupying
  BY DEF Occupying, Occupies
<1>2. IsFiniteSet(Occupying)
  BY Finite, FS_Subset DEF Occupying
<1>3. Cardinality(Occupying') = Cardinality(Occupying) + 1 /\ Cardinality(Occupying) \in Nat
  BY <1>1, <1>2, FS_AddElement, FS_CardinalityType
<1> QED BY <1>3, ChildConstants DEF SlotsExact, Occupying

\* An agent leaves its slot, or had none.
LEMMA LeaveSlot ==
  ASSUME SlotsExact, NEW a \in Agents, ~Occupies(a)',
         \A b \in Agents \ {a} : status'[b] = status[b],
         active' = IF Occupies(a) THEN active - 1 ELSE active
  PROVE  SlotsExact'
<1>1. Occupying' = Occupying \ {a} /\ (a \in Occupying <=> Occupies(a))
  BY DEF Occupying, Occupies
<1>2. IsFiniteSet(Occupying)
  BY Finite, FS_Subset DEF Occupying
<1>3. /\ Cardinality(Occupying') = IF Occupies(a) THEN Cardinality(Occupying) - 1
                                   ELSE Cardinality(Occupying)
      /\ Cardinality(Occupying) \in Nat
  BY <1>1, <1>2, FS_RemoveElement, FS_CardinalityType
<1> QED BY <1>3, ChildConstants DEF SlotsExact, Occupying

\* No agent enters or leaves.
LEMMA KeepSlots ==
  ASSUME SlotsExact, \A a \in Agents : Occupies(a)' <=> Occupies(a), active' = active
  PROVE  SlotsExact'
<1>1. Occupying' = Occupying
  BY DEF Occupying
<1> QED BY <1>1 DEF SlotsExact, Occupying

\* Every way into and out of a slot is counted once.
LEMMA SlotsStep ==
  ASSUME Shape, AllBegun, SlotsExact, [Next]_vars
  PROVE  SlotsExact'
<1> USE DEF Shape
<1>1. CASE UNCHANGED <<status, active>>
  BY <1>1, KeepSlots DEF Occupies
<1>2. ASSUME NEW c \in Callers, NEW a \in Agents, Spawn(c, a) PROVE SlotsExact'
  BY <1>2, KeepSlots DEF Spawn, Occupies, Slotted, GraphTyped
<1>3. ASSUME NEW c \in Callers, NEW a \in Agents, FollowUp(c, a) PROVE SlotsExact'
  BY <1>3, EnterSlot DEF FollowUp, Start, MayStart, Occupies, Slotted, GraphTyped
<1>4. ASSUME NEW c \in Callers, NEW a \in Agents, CloseAgent(c, a) PROVE SlotsExact'
  <2>1. CASE UNCHANGED manager
    BY <2>1, KeepSlots DEF manager, graph, Occupies
  <2>2. CASE status' = [status EXCEPT ![a] = "closed"] /\ Leave(a)
    BY <2>2, LeaveSlot DEF Leave, Occupies, Slotted, GraphTyped
  <2> QED BY <1>4, <2>1, <2>2 DEF CloseAgent, Close
<1>5. ASSUME NEW c \in Callers, Takeover(c) PROVE SlotsExact'
  <2>1. call[c].agent \in Agents
    BY <1>5 DEF Takeover, CallsTyped
  <2>2. CASE UNCHANGED manager
    BY <2>2, KeepSlots DEF manager, graph, Occupies
  <2>3. CASE Start(call[c].agent)
    <3>1. status[call[c].agent] \notin Slotted
      BY <2>3 DEF Start, MayStart, CanTransition, Slotted, Endings
    <3> QED BY <2>1, <2>3, <3>1, EnterSlot DEF Start, MayStart, Occupies, Slotted, GraphTyped
  <2> QED BY <1>5, <2>2, <2>3 DEF Takeover
<1>6. ASSUME NEW c \in Callers, Accepted(c) PROVE SlotsExact'
  <2>1. call[c].agent \in Agents /\ active' = active
    BY <1>6 DEF Accepted, CallsTyped
  <2>2. \A a \in Agents : Occupies(a)' <=> Occupies(a)
    BY <1>6, <2>1 DEF Accepted, CanTransition, Occupies, Slotted, Endings, GraphTyped
  <2> QED BY <2>1, <2>2, KeepSlots
<1>7. ASSUME NEW c \in Callers, Refused(c) PROVE SlotsExact'
  <2>1. call[c].agent \in Agents
    BY <1>7 DEF Refused, CallsTyped
  <2>2. CASE UNCHANGED manager
    BY <2>2, KeepSlots DEF manager, graph, Occupies
  <2>3. CASE End(call[c].agent, "failed", NoTurn)
    BY <2>1, <2>3, LeaveSlot DEF End, Leave, Occupies, Slotted, GraphTyped
  <2> QED BY <1>7, <2>2, <2>3 DEF Refused, EndWith
<1>8. ASSUME NEW c \in Callers, Cleanup(c) PROVE SlotsExact'
  <2>1. call[c].agent \in Agents
    BY <1>8 DEF Cleanup, CallsTyped
  <2>2. CASE UNCHANGED manager
    BY <2>2, KeepSlots DEF manager, graph, Occupies
  <2>3. CASE status' = [status EXCEPT ![call[c].agent] = "closed"] /\ Leave(call[c].agent)
    BY <2>1, <2>3, LeaveSlot DEF Leave, Occupies, Slotted, GraphTyped
  <2> QED BY <1>8, <2>2, <2>3 DEF Cleanup, Close
<1>8a. ASSUME NEW c \in Callers, CloseFails(c) PROVE SlotsExact'
  <2>1. call[c].agent \in Agents /\ End(call[c].agent, "interrupted", NoTurn)
    BY <1>8a DEF CloseFails, CallsTyped
  <2> QED BY <2>1, LeaveSlot DEF End, Leave, Occupies, Slotted, GraphTyped
<1>9. ASSUME NEW c \in Callers, Interrupted(c) PROVE SlotsExact'
  <2>1. call[c].agent \in Agents
    BY <1>9 DEF Interrupted, CallsTyped
  <2>2. CASE UNCHANGED manager
    BY <2>2, KeepSlots DEF manager, graph, Occupies
  <2>3. CASE End(call[c].agent, "interrupted", call[c].turn)
    BY <2>1, <2>3, LeaveSlot DEF End, Leave, Occupies, Slotted, GraphTyped
  <2> QED BY <1>9, <2>2, <2>3 DEF Interrupted
<1>10. ASSUME NEW a \in Agents, AwaitApproval(a) PROVE SlotsExact'
  BY <1>10, KeepSlots DEF AwaitApproval, Occupies, Slotted, GraphTyped
<1>11. ASSUME NEW a \in Agents, ResumeApproval(a) PROVE SlotsExact'
  BY <1>11, KeepSlots DEF ResumeApproval, Occupies, Slotted, GraphTyped
<1>12. ASSUME NEW j \in jobs, Settle(j) PROVE SlotsExact'
  <2>1. j.agent \in Agents /\ j.status \in Endings
    BY DEF TrackedTyped, JobRecord
  <2>2. CASE UNCHANGED manager
    BY <2>2, KeepSlots DEF manager, graph, Occupies
  <2>3. CASE End(j.agent, j.status, j.turn)
    BY <2>1, <2>3, LeaveSlot DEF End, Leave, Occupies, Slotted, Endings, GraphTyped
  <2> QED BY <1>12, <2>2, <2>3 DEF Settle, EndWith
<1>13. CASE Restart
  <2>1. \A a \in Agents : Rebound(a) => status[a] # "requested"
    BY DEF Rebound, Latest, Submitted, AllBegun, BegunTurns, Begun
  <2>2. {a \in Unfinished \ Lost : ~Occupies(a)} = {}
    BY <2>1 DEF Unfinished, Lost, Occupies
  <2>3. \A a \in Agents : Occupies(a)' <=> Occupies(a) /\ a \notin Lost
    BY <1>13, <2>1 DEF Restart, ReconciledStatus, Unfinished, Lost, Occupies, Slotted, GraphTyped
  <2>4. Occupying' = Occupying \ Lost /\ {a \in Lost : Occupies(a)} = Occupying \cap Lost
    BY <2>3 DEF Occupying, Lost, Unfinished
  <2>5. IsFiniteSet(Occupying)
    BY Finite, FS_Subset DEF Occupying
  <2>6. /\ Cardinality(Occupying') = Cardinality(Occupying) - Cardinality(Occupying \cap Lost)
        /\ Cardinality(Occupying) \in Nat /\ Cardinality(Occupying \cap Lost) \in Nat
    BY <2>4, <2>5, FS_Difference, FS_Intersection, FS_CardinalityType
  <2>7. active' = active - Cardinality({a \in Lost : Occupies(a)})
                   + Cardinality({a \in Unfinished \ Lost : ~Occupies(a)})
    BY <1>13 DEF Restart
  <2>8. active' = active - Cardinality(Occupying \cap Lost) + 0
    BY <2>2, <2>4, <2>7, FS_EmptySet
  <2>9. active = Cardinality(Occupying) /\ active <= MaxParallel
    BY DEF SlotsExact, Occupying
  <2>10. active' = Cardinality(Occupying') /\ active' <= MaxParallel
    BY <2>6, <2>8, <2>9, ChildConstants
  <2> QED BY <2>10 DEF SlotsExact, Occupying
<1> QED BY <1>1, <1>2, <1>3, <1>4, <1>5, <1>6, <1>7, <1>8, <1>8a, <1>9, <1>10, <1>11, <1>12, <1>13,
     FrameStatus, FrameActive

-----------------------------------------------------------------------------
(* Flights.                                                                *)

\* What is counted is finite.
LEMMA FiniteCounts ==
  /\ IsFiniteSet(Holding) /\ IsFiniteSet(Leased) /\ IsFiniteSet(Unheld)
  /\ Cardinality(Holding) \in Nat /\ Cardinality(Leased) \in Nat /\ Cardinality(Unheld) \in Nat
<1>1. Holding \in SUBSET Callers /\ Leased \in SUBSET Agents /\ Unheld \in SUBSET Agents
  BY DEF Holding, Leased, Unheld, Closed
<1>2. IsFiniteSet(Holding) /\ IsFiniteSet(Leased) /\ IsFiniteSet(Unheld)
  BY <1>1, Finite, FS_Subset
<1> QED BY <1>2, FS_CardinalityType

\* The same after a step.
LEMMA FiniteCountsNext ==
  /\ IsFiniteSet(Unheld') /\ Cardinality(Unheld') \in Nat
  /\ Cardinality(Holding') \in Nat /\ Cardinality(Leased') \in Nat
<1>1. Holding' \in SUBSET Callers /\ Leased' \in SUBSET Agents /\ Unheld' \in SUBSET Agents
  BY DEF Holding, Leased, Unheld, Closed
<1>2. IsFiniteSet(Holding') /\ IsFiniteSet(Leased') /\ IsFiniteSet(Unheld')
  BY <1>1, Finite, FS_Subset
<1> QED BY <1>2, FS_CardinalityType

\* One call moves.
LEMMA HoldingCount ==
  ASSUME NEW c \in Callers, \A d \in Callers \ {c} : call'[d] = call[d]
  PROVE  Cardinality(Holding') = IF (c \in Holding) = (c \in Holding') THEN Cardinality(Holding)
                                 ELSE IF c \in Holding THEN Cardinality(Holding) - 1
                                 ELSE Cardinality(Holding) + 1
<1>1. Holding' = IF c \in Holding' THEN Holding \cup {c} ELSE Holding \ {c}
  BY DEF Holding
<1>2. CASE c \in Holding'
  BY <1>1, <1>2, FiniteCounts, FS_AddElement
<1>3. CASE c \notin Holding'
  BY <1>1, <1>3, FiniteCounts, FS_RemoveElement
<1> QED BY <1>2, <1>3

\* The tracked turn of one agent changes.
LEMMA LeasedCount ==
  ASSUME NEW a \in Agents, \A b \in Agents \ {a} : turns'[b] = turns[b]
  PROVE  Cardinality(Leased') = IF (a \in Leased) = (a \in Leased') THEN Cardinality(Leased)
                                ELSE IF a \in Leased THEN Cardinality(Leased) - 1
                                ELSE Cardinality(Leased) + 1
<1>1. Leased' = IF a \in Leased' THEN Leased \cup {a} ELSE Leased \ {a}
  BY DEF Leased
<1>2. CASE a \in Leased'
  BY <1>1, <1>2, FiniteCounts, FS_AddElement
<1>3. CASE a \notin Leased'
  BY <1>1, <1>3, FiniteCounts, FS_RemoveElement
<1> QED BY <1>2, <1>3

\* No call tracks a turn for an agent that was closed before it passed Activate.
LEMMA UnheldGrows ==
  ASSUME Shape, Named, AllBegun, NEW b \in Unheld, [Next]_vars
  PROVE  b \in Unheld'
<1> USE DEF Shape, Unheld, Closed, Passing
<1>1. CASE UNCHANGED <<call, status>>
  BY <1>1, StatusMoves DEF Forward, CallsTyped
<1>2. ASSUME NEW c \in Callers, NEW a \in Agents, Spawn(c, a) PROVE b \in Unheld'
  BY <1>2, StatusMoves DEF Spawn, Forward, CallsTyped
<1>3. ASSUME NEW c \in Callers, NEW a \in Agents, FollowUp(c, a) PROVE b \in Unheld'
  BY <1>3, StatusMoves DEF FollowUp, Start, Forward, CallsTyped
<1>4. ASSUME NEW c \in Callers, NEW a \in Agents, Interrupt(c, a) PROVE b \in Unheld'
  BY <1>4, StatusMoves DEF Interrupt, Forward, CallsTyped
<1>5. ASSUME NEW c \in Callers, NEW a \in Agents, CloseAgent(c, a) PROVE b \in Unheld'
  BY <1>5, StatusMoves DEF CloseAgent, Close, Forward, CallsTyped
<1>6. ASSUME NEW c \in Callers, Takeover(c) PROVE b \in Unheld'
  BY <1>6, GotoEffect, StepNames, StatusMoves DEF Takeover, Start, Forward, CallsTyped
<1>7. ASSUME NEW c \in Callers, Check(c) PROVE b \in Unheld'
  BY <1>7, CheckEffect, StatusMoves DEF Check, Forward, CallsTyped
<1>8. ASSUME NEW c \in Callers, Admit(c) PROVE b \in Unheld'
  BY <1>8, GotoEffect, StepNames, StatusMoves DEF Admit, Forward, CallsTyped
<1>9. ASSUME NEW c \in Callers, Reserve(c) PROVE b \in Unheld'
  BY <1>9, GotoEffect, StepNames, StatusMoves DEF Reserve, Forward, CallsTyped
<1>10. ASSUME NEW c \in Callers, Activate(c) PROVE b \in Unheld'
  BY <1>10, GotoEffect, StepNames, StatusMoves DEF Activate, Refund, Forward, CallsTyped
<1>11. ASSUME NEW c \in Callers, Track(c) PROVE b \in Unheld'
  BY <1>11, GotoEffect, StepNames, StatusMoves DEF Track, Forward, CallsTyped
<1>12. ASSUME NEW c \in Callers, Submit(c) PROVE b \in Unheld'
  BY <1>12, GotoEffect, StepNames, StatusMoves DEF Submit, Refund, NoChild, Forward, CallsTyped
<1>13. ASSUME NEW c \in Callers, Accepted(c) PROVE b \in Unheld'
  BY <1>13, GotoEffect, StepNames, ReturnEffect, StatusMoves DEF Accepted, Forward, CallsTyped
<1>14. ASSUME NEW c \in Callers, Refused(c) PROVE b \in Unheld'
  BY <1>14, GotoEffect, StepNames, ReturnEffect, StatusMoves DEF Refused, EndWith, End, Forward,
       CallsTyped
<1>15. ASSUME NEW c \in Callers, Cleanup(c) PROVE b \in Unheld'
  BY <1>15, ReturnEffect, StatusMoves DEF Cleanup, Close, Forward, CallsTyped
<1>15a. ASSUME NEW c \in Callers, CloseFails(c) PROVE b \in Unheld'
  BY <1>15a, ReturnEffect, StatusMoves DEF CloseFails, End, Forward, CallsTyped
<1>16. ASSUME NEW c \in Callers, Interrupted(c) PROVE b \in Unheld'
  BY <1>16, ReturnEffect, StatusMoves DEF Interrupted, End, Forward, CallsTyped
<1>16a. ASSUME NEW c \in Callers, TransitionFails(c) PROVE b \in Unheld'
  BY <1>16a, GotoEffect, StepNames, ReturnEffect, StatusMoves DEF TransitionFails, Forward,
       CallsTyped
<1>17. ASSUME NEW c \in Callers, Release(c) PROVE b \in Unheld'
  BY <1>17, GotoEffect, StepNames, ReturnEffect, StatusMoves DEF Release, Forward, CallsTyped
<1>18. ASSUME NEW c \in Callers, ReleaseThread(c) PROVE b \in Unheld'
  BY <1>18, ReturnEffect, StatusMoves DEF ReleaseThread, NoChild, Forward, CallsTyped
<1>19. ASSUME NEW a \in Agents, AwaitApproval(a) PROVE b \in Unheld'
  BY <1>19, StatusMoves DEF AwaitApproval, Forward, CallsTyped
<1>20. ASSUME NEW a \in Agents, ResumeApproval(a) PROVE b \in Unheld'
  BY <1>20, StatusMoves DEF ResumeApproval, Forward, CallsTyped
<1>21. ASSUME NEW j \in jobs, Settle(j) PROVE b \in Unheld'
  BY <1>21, StatusMoves DEF Settle, EndWith, End, Forward, CallsTyped
<1>22. CASE Restart
  BY <1>22, StatusMoves DEF Restart, Forward, Idle
<1> QED BY <1>1, <1>2, <1>3, <1>4, <1>5, <1>6, <1>7, <1>8, <1>9, <1>10, <1>11, <1>12, <1>13,
     <1>14, <1>15, <1>15a, <1>16, <1>16a, <1>17, <1>18, <1>19, <1>20, <1>21, <1>22, FrameCall, FrameStatus

\* A step that changes flights and leases alike.
LEMMA FlightsKept ==
  ASSUME Flights, Unheld \in SUBSET Unheld', flight \in Int, flight' \in Int,
         Cardinality(Holding') + Cardinality(Leased') - flight'
           = Cardinality(Holding) + Cardinality(Leased) - flight
  PROVE  Flights'
<1>1. Cardinality(Unheld) <= Cardinality(Unheld')
  BY FiniteCountsNext, FS_Subset
<1> QED BY <1>1, FiniteCounts, FiniteCountsNext DEF Flights

\* A call moves that takes or returns no lease.
LEMMA FlightsIdle ==
  ASSUME Shape, Flights, Unheld \in SUBSET Unheld', NEW c \in Callers,
         \A d \in Callers \ {c} : call'[d] = call[d],
         call[c].pc \in {"reserve", "activate", "track"}
           <=> call'[c].pc \in {"reserve", "activate", "track"},
         UNCHANGED <<turns, flight>>
  PROVE  Flights'
<1>1. Cardinality(Holding') = Cardinality(Holding)
  BY HoldingCount DEF Holding
<1>2. Leased' = Leased
  BY DEF Leased
<1> QED BY <1>1, <1>2, FiniteCounts, FlightsKept DEF Shape, TrackedTyped

\* An agent's tracked turn is dropped and its lease, if it has one, returned.
LEMMA FlightsReturned ==
  ASSUME Shape, Flights, Unheld \in SUBSET Unheld', NEW a \in Agents, Holding' = Holding,
         turns' = [turns EXCEPT ![a] = NoChild],
         flight' = IF turns[a].leased THEN flight - 1 ELSE flight
  PROVE  Flights'
<1>1. /\ a \notin Leased' /\ (a \in Leased <=> turns[a].leased)
      /\ \A b \in Agents \ {a} : turns'[b] = turns[b]
  BY DEF Shape, TrackedTyped, Leased, NoChild
<1>2. Cardinality(Leased') = IF turns[a].leased THEN Cardinality(Leased) - 1 ELSE Cardinality(Leased)
  BY <1>1, LeasedCount
<1> QED BY <1>2, FiniteCounts, FlightsKept DEF Shape, TrackedTyped

\* A lease is returned once, or twice for a turn whose agent close_agent dropped.
LEMMA FlightsStep ==
  ASSUME Shape, Named, AllBegun, Claimed, ClosedFirst, Flights, [Next]_vars
  PROVE  Flights'
<1> USE DEF Shape
<1>0. Unheld \in SUBSET Unheld'
  BY UnheldGrows
<1>1. CASE UNCHANGED <<call, turns, flight>>
  <2>1. Holding' = Holding /\ Leased' = Leased
    BY <1>1 DEF Holding, Leased
  <2> QED BY <1>0, <1>1, <2>1, FiniteCounts, FlightsKept DEF TrackedTyped
<1>2. ASSUME NEW c \in Callers, NEW a \in Agents, Spawn(c, a) PROVE Flights'
  BY <1>2, <1>0, FlightsIdle DEF Spawn, CallsTyped, runtime, governor
<1>3. ASSUME NEW c \in Callers, NEW a \in Agents, FollowUp(c, a) PROVE Flights'
  BY <1>3, <1>0, FlightsIdle DEF FollowUp, Start, CallsTyped, runtime, governor
<1>4. ASSUME NEW c \in Callers, NEW a \in Agents, Interrupt(c, a) PROVE Flights'
  BY <1>4, <1>0, FlightsIdle DEF Interrupt, CallsTyped, runtime, governor
<1>5. ASSUME NEW c \in Callers, NEW a \in Agents, CloseAgent(c, a) PROVE Flights'
  BY <1>5, <1>0, FlightsIdle DEF CloseAgent, Close, CallsTyped, runtime, governor
<1>6. ASSUME NEW c \in Callers, Takeover(c) PROVE Flights'
  BY <1>6, <1>0, GotoEffect, StepNames, FlightsIdle DEF Takeover, Start, CallsTyped, runtime,
       governor
<1>7. ASSUME NEW c \in Callers, Check(c) PROVE Flights'
  BY <1>7, <1>0, CheckEffect, FlightsIdle DEF Check, CallsTyped, runtime, governor
<1>8. ASSUME NEW c \in Callers, Admit(c) PROVE Flights'
  <2>1. call[c].pc = "admit"
    BY <1>8 DEF Admit
  <2>2. CASE Goto(c, "refused") /\ UNCHANGED flight
    BY <1>8, <1>0, <2>1, <2>2, GotoEffect, StepNames, FlightsIdle DEF Admit, CallsTyped,
         runtime, governor
  <2>3. CASE Goto(c, "reserve") /\ flight' = flight + 1
    <3>1. c \notin Holding /\ c \in Holding' /\ \A d \in Callers \ {c} : call'[d] = call[d]
      BY <2>1, <2>3, GotoEffect, StepNames DEF Holding
    <3>2. Cardinality(Holding') = Cardinality(Holding) + 1
      BY <3>1, HoldingCount
    <3>3. Leased' = Leased
      BY <1>8 DEF Admit, runtime, Leased
    <3> QED BY <1>0, <2>3, <3>2, <3>3, FiniteCounts, FlightsKept DEF TrackedTyped
  <2> QED BY <1>8, <2>2, <2>3 DEF Admit
<1>9. ASSUME NEW c \in Callers, Reserve(c) PROVE Flights'
  <2>1. call[c].pc = "reserve"
    BY <1>9 DEF Reserve
  <2>2. CASE Goto(c, "activate") /\ UNCHANGED flight
    BY <1>9, <1>0, <2>1, <2>2, GotoEffect, StepNames, FlightsIdle DEF Reserve, CallsTyped,
         runtime, governor
  <2>3. CASE Goto(c, "refused") /\ flight' = flight - 1
    <3>1. c \in Holding /\ c \notin Holding' /\ \A d \in Callers \ {c} : call'[d] = call[d]
      BY <2>1, <2>3, GotoEffect, StepNames DEF Holding
    <3>2. Cardinality(Holding') = Cardinality(Holding) - 1
      BY <3>1, HoldingCount
    <3>3. Leased' = Leased
      BY <1>9 DEF Reserve, runtime, Leased
    <3> QED BY <1>0, <2>3, <3>2, <3>3, FiniteCounts, FlightsKept DEF TrackedTyped
  <2> QED BY <1>9, <2>2, <2>3 DEF Reserve
<1>10. ASSUME NEW c \in Callers, Activate(c) PROVE Flights'
  <2>1. call[c].pc = "activate"
    BY <1>10 DEF Activate
  <2>2. CASE Goto(c, "track") /\ UNCHANGED flight
    BY <1>10, <1>0, <2>1, <2>2, GotoEffect, StepNames, FlightsIdle DEF Activate, CallsTyped,
         runtime, governor
  <2>3. CASE Goto(c, "refused") /\ flight' = flight - 1
    <3>1. c \in Holding /\ c \notin Holding' /\ \A d \in Callers \ {c} : call'[d] = call[d]
      BY <2>1, <2>3, GotoEffect, StepNames DEF Holding
    <3>2. Cardinality(Holding') = Cardinality(Holding) - 1
      BY <3>1, HoldingCount
    <3>3. Leased' = Leased
      BY <1>10 DEF Activate, runtime, Leased
    <3> QED BY <1>0, <2>3, <3>2, <3>3, FiniteCounts, FlightsKept DEF TrackedTyped
  <2> QED BY <1>10, <2>2, <2>3 DEF Activate
<1>11. ASSUME NEW c \in Callers, Track(c) PROVE Flights'
  <2>1. call[c].pc = "track" /\ call[c].agent \in Agents
    BY <1>11, ClaimFacts DEF Track, Before
  <2>2. ~turns[call[c].agent].leased
    BY <2>1 DEF Claimed, ClaimIsLease, Claims
  <2>3. /\ Goto(c, "submit") /\ flight' = flight
        /\ turns' = [turns EXCEPT ![call[c].agent] = [id |-> call[c].turn, leased |-> TRUE]]
    BY <1>11 DEF Track, governor
  <2>4. c \in Holding /\ c \notin Holding' /\ \A d \in Callers \ {c} : call'[d] = call[d]
    BY <2>1, <2>3, GotoEffect, StepNames DEF Holding
  <2>5. Cardinality(Holding') = Cardinality(Holding) - 1
    BY <2>4, HoldingCount
  <2>6. /\ call[c].agent \notin Leased /\ call[c].agent \in Leased'
        /\ \A b \in Agents \ {call[c].agent} : turns'[b] = turns[b]
    BY <2>1, <2>2, <2>3 DEF TrackedTyped, Leased
  <2>7. Cardinality(Leased') = Cardinality(Leased) + 1
    BY <2>1, <2>6, LeasedCount
  <2> QED BY <1>0, <2>3, <2>5, <2>7, FiniteCounts, FlightsKept DEF TrackedTyped
<1>12. ASSUME NEW c \in Callers, Submit(c) PROVE Flights'
  <2>1. call[c].pc = "submit" /\ call[c].agent \in Agents
    BY <1>12, ClaimFacts DEF Submit, Before
  <2>2. CASE Goto(c, "accepted") /\ UNCHANGED <<turns, flight>>
    BY <1>0, <2>1, <2>2, GotoEffect, StepNames, FlightsIdle DEF CallsTyped
  <2>3. CASE /\ Goto(c, "refused") /\ flight' = flight - 1
             /\ turns' = [turns EXCEPT ![call[c].agent] = NoChild]
    <3>1. Holding' = Holding
      BY <2>1, <2>3, GotoEffect, StepNames DEF Holding
    <3>2. CASE turns[call[c].agent].leased
      BY <1>0, <2>1, <2>3, <3>1, <3>2, FlightsReturned
    <3>3. CASE ~turns[call[c].agent].leased
      <4> DEFINE a == call[c].agent
      <4>1. status[a] = "closed" /\ status'[a] = "closed"
        BY <1>12, <2>1, <3>3 DEF ClosedFirst, ClosedSubmits, Submit, manager, graph
      <4>2. \A d \in Callers : Passing(d)' => call'[d].agent # a
        BY <2>1, <2>3, GotoEffect, StepNames DEF Passing, Claimed, OneClaim, Claims
      <4>3. a \in Unheld' /\ a \notin Unheld
        BY <2>1, <4>1, <4>2 DEF Unheld, Closed, Passing
      <4>4. Cardinality(Unheld \cup {a}) <= Cardinality(Unheld')
        BY <1>0, <4>3, FiniteCountsNext, FS_Subset
      <4>5. Cardinality(Unheld \cup {a}) = Cardinality(Unheld) + 1
        BY <4>3, FiniteCounts, FS_AddElement
      <4>6. Leased' = Leased
        BY <2>1, <2>3, <3>3 DEF Leased, NoChild, TrackedTyped
      <4> QED BY <2>3, <3>1, <4>4, <4>5, <4>6, FiniteCounts, FiniteCountsNext
          DEF Flights, TrackedTyped
    <3> QED BY <3>2, <3>3
  <2> QED BY <1>12, <2>2, <2>3 DEF Submit
<1>13. ASSUME NEW c \in Callers, Accepted(c) PROVE Flights'
  BY <1>13, <1>0, GotoEffect, StepNames, ReturnEffect, FlightsIdle DEF Accepted, CallsTyped,
       runtime, governor
<1>14. ASSUME NEW c \in Callers, Refused(c) PROVE Flights'
  BY <1>14, <1>0, GotoEffect, StepNames, ReturnEffect, FlightsIdle DEF Refused, EndWith, End,
       CallsTyped, runtime, governor
<1>15. ASSUME NEW c \in Callers, Cleanup(c) PROVE Flights'
  BY <1>15, <1>0, ReturnEffect, FlightsIdle DEF Cleanup, Close, CallsTyped, runtime, governor
<1>15a. ASSUME NEW c \in Callers, CloseFails(c) PROVE Flights'
  BY <1>15a, <1>0, ReturnEffect, FlightsIdle DEF CloseFails, End, CallsTyped, runtime, governor
<1>16. ASSUME NEW c \in Callers, Interrupted(c) PROVE Flights'
  BY <1>16, <1>0, ReturnEffect, FlightsIdle DEF Interrupted, End, CallsTyped, runtime, governor
<1>16a. ASSUME NEW c \in Callers, TransitionFails(c) PROVE Flights'
  BY <1>16a, <1>0, GotoEffect, StepNames, ReturnEffect, FlightsIdle DEF TransitionFails,
       CallsTyped, runtime, governor
<1>17. ASSUME NEW c \in Callers, Release(c) PROVE Flights'
  BY <1>17, <1>0, GotoEffect, StepNames, ReturnEffect, FlightsIdle DEF Release, CallsTyped,
       runtime, governor
<1>18. ASSUME NEW c \in Callers, ReleaseThread(c) PROVE Flights'
  <2>1. call[c].pc = "releaseThread" /\ call[c].agent \in Agents
    BY <1>18 DEF ReleaseThread, CallsTyped
  <2>2. Holding' = Holding
    BY <1>18, <2>1, ReturnEffect DEF ReleaseThread, Holding
  <2> QED BY <1>18, <1>0, <2>1, <2>2, FlightsReturned DEF ReleaseThread
<1>19. ASSUME NEW t \in Turns, Observe(t) PROVE Flights'
  <2>1. Holding' = Holding
    BY <1>19 DEF Observe, Holding
  <2>2. CASE UNCHANGED <<turns, flight>>
    <3>1. Leased' = Leased
      BY <2>2 DEF Leased
    <3> QED BY <1>0, <2>1, <2>2, <3>1, FiniteCounts, FlightsKept DEF TrackedTyped
  <2>3. CASE /\ turn[t].agent \in Agents /\ turns' = [turns EXCEPT ![turn[t].agent] = NoChild]
             /\ flight' = IF turns[turn[t].agent].leased THEN flight - 1 ELSE flight
    BY <1>0, <2>1, <2>3, FlightsReturned
  <2> QED BY <1>19, <2>2, <2>3, ObserveEffect
<1>20. CASE Restart
  <2>1. Holding' = {} /\ Leased' = {} /\ flight' = 0
    BY <1>20 DEF Restart, Holding, Leased, Idle, NoChild
  <2> QED BY <2>1, FS_EmptySet, FiniteCountsNext DEF Flights
<1> QED BY <1>1, <1>2, <1>3, <1>4, <1>5, <1>6, <1>7, <1>8, <1>9, <1>10, <1>11, <1>12, <1>13,
     <1>14, <1>15, <1>15a, <1>16, <1>16a, <1>17, <1>18, <1>19, <1>20, FrameCall, FrameTurns, FrameFlight

-----------------------------------------------------------------------------
(* The theorems.                                                           *)

\* The invariant holds of a session without agents.
LEMMA ChildInit == Init => ChildInv
<1> SUFFICES ASSUME Init PROVE ChildInv
  OBVIOUS
<1> USE DEF Init
<1>1. CallsTyped
  BY DEF CallsTyped, CallRecord, Idle
<1>2. LedgerTyped
  BY DEF LedgerTyped, Scopes
<1>3. TurnsTyped
  BY DEF TurnsTyped, TurnRecord, TurnStates, Live, Unused, Used
<1>4. GraphTyped /\ TrackedTyped
  BY DEF GraphTyped, TrackedTyped, Statuses, NoChild
<1>5. \A c \in Callers : call[c].pc = "idle"
  BY DEF Idle
<1>6. Named /\ KnownCalls /\ BegunCalls /\ ClosedFirst
  BY <1>5 DEF Named, NamedTurns, NamedOnce, KnownCalls, BegunCalls, ClosedFirst, ClosedSubmits,
       ClosedReleases, Before
<1>7. KnownIDs /\ KnownTracked /\ KnownJobs /\ BegunTurns
  BY DEF KnownIDs, KnownTracked, KnownJobs, BegunTurns, Known, NoChild, Unused
<1>8. Claimed
  BY <1>5 DEF Claimed, OneClaim, ClaimHasSlot, LeaseHasSlot, ClaimIsLease, RecoveredFree, Claims,
       NoChild
<1>9. Holding = {} /\ Leased = {} /\ Occupying = {}
  BY <1>5 DEF Holding, Leased, Occupying, Occupies, Slotted, NoChild
<1>10. Flights
  BY <1>9, FS_EmptySet, FiniteCounts DEF Flights
<1>11. active = 0 /\ Cardinality(Occupying) = 0 /\ 0 <= MaxParallel
  BY <1>9, FS_EmptySet, ChildConstants
<1>12. SlotsExact
  BY <1>11 DEF SlotsExact, Occupying
<1> QED BY <1>1, <1>2, <1>3, <1>4, <1>6, <1>7, <1>8, <1>10, <1>12
    DEF ChildInv, Shape, AllKnown, AllBegun

\* Every step keeps the invariant.
LEMMA ChildStep == ChildInv /\ [Next]_vars => ChildInv'
<1> SUFFICES ASSUME ChildInv, [Next]_vars PROVE ChildInv'
  OBVIOUS
<1> USE DEF ChildInv
<1>1. CallsTyped' /\ LedgerTyped' /\ TurnsTyped' /\ GraphTyped'
  BY CallsTypedStep, LedgerTypedStep, TurnsTypedStep, GraphTypedStep
<1>2. TrackedTyped'
  BY <1>1, TrackedTypedStep
<1>3. Named'
  BY NamedTurnsStep, NamedOnceStep DEF Named
<1>4. KnownIDs'
  BY KnownIDsStep
<1>5. AllKnown'
  BY <1>4, KnownTrackedStep, KnownCallsStep, KnownJobsStep DEF AllKnown
<1>6. AllBegun'
  BY BegunCallsStep, BegunTurnsStep DEF AllBegun
<1>7. Claimed'
  BY <1>2, OneClaimStep, ClaimHasSlotStep, LeaseHasSlotStep, ClaimIsLeaseStep, RecoveredFreeStep
     DEF Claimed
<1>8. ClosedFirst'
  BY ClosedSubmitsStep, ClosedReleasesStep DEF ClosedFirst
<1>9. Flights' /\ SlotsExact'
  BY FlightsStep, SlotsStep
<1> QED BY <1>1, <1>2, <1>3, <1>5, <1>6, <1>7, <1>8, <1>9 DEF Shape

\* The invariant holds always.
LEMMA ChildInvariant == Spec => []ChildInv
BY ChildInit, ChildStep, PTL DEF Spec

-----------------------------------------------------------------------------
(* Agents that nothing will end.                                           *)

\* Which calls start turns, and that a call whose turn was accepted names it, and so does the
\* row of an agent that runs.
Kinds ==
  \A c \in Callers :
    /\ call[c].kind = "control" <=> call[c].pc \in {"interrupt", "release", "releaseThread"}
    /\ call[c].pc = "idle" => call[c].agent = None
Accepts == \A c \in Callers : call[c].pc = "accepted" => call[c].turn \in Turns
Rows == \A a \in Agents : status[a] \in {"running", "waiting"} => turnID[a] \in Turns
Carried == Kinds /\ Accepts /\ Rows

\* Calls keep their kinds, and an accepted turn its name.
LEMMA KindsStep ==
  ASSUME Shape, Named, Kinds, Accepts, [Next]_vars
  PROVE  Kinds' /\ Accepts'
<1> USE DEF Shape, Kinds, Accepts
<1> DEFINE Goal == Kinds' /\ Accepts'
<1>1. CASE UNCHANGED call
  BY <1>1
<1>2. ASSUME NEW c \in Callers, NEW a \in Agents, Spawn(c, a) PROVE Goal
  BY <1>2 DEF Spawn, CallsTyped
<1>3. ASSUME NEW c \in Callers, NEW a \in Agents, FollowUp(c, a) PROVE Goal
  BY <1>3 DEF FollowUp, Start, CallsTyped
<1>4. ASSUME NEW c \in Callers, NEW a \in Agents, Interrupt(c, a) PROVE Goal
  BY <1>4 DEF Interrupt, CallsTyped
<1>5. ASSUME NEW c \in Callers, NEW a \in Agents, CloseAgent(c, a) PROVE Goal
  BY <1>5 DEF CloseAgent, Close, CallsTyped
<1>6. ASSUME NEW c \in Callers, Takeover(c) PROVE Goal
  BY <1>6, GotoEffect, StepNames DEF Takeover, Start, CallsTyped
<1>7. ASSUME NEW c \in Callers, Check(c) PROVE Goal
  BY <1>7, CheckEffect DEF Check, CallsTyped
<1>8. ASSUME NEW c \in Callers, Admit(c) PROVE Goal
  BY <1>8, GotoEffect, StepNames DEF Admit, CallsTyped
<1>9. ASSUME NEW c \in Callers, Reserve(c) PROVE Goal
  BY <1>9, GotoEffect, StepNames DEF Reserve, CallsTyped
<1>10. ASSUME NEW c \in Callers, Activate(c) PROVE Goal
  BY <1>10, GotoEffect, StepNames DEF Activate, Refund, CallsTyped
<1>11. ASSUME NEW c \in Callers, Track(c) PROVE Goal
  BY <1>11, GotoEffect, StepNames DEF Track, CallsTyped
<1>12. ASSUME NEW c \in Callers, Submit(c) PROVE Goal
  <2>1. call[c].pc = "submit" /\ call[c].turn \in Turns /\ (Goto(c, "accepted") \/ Goto(c, "refused"))
    BY <1>12 DEF Submit, Named, NamedTurns, Before
  <2> QED BY <2>1, GotoEffect, StepNames
<1>a. ASSUME NEW c \in Callers, call[c].pc # "idle",
             \/ Return(c)
             \/ Goto(c, "cleanup") /\ call[c].kind # "control"
             \/ Goto(c, "releaseThread") /\ call[c].kind = "control"
      PROVE  Goal
  <2>1. CASE Return(c)
    BY <2>1, ReturnEffect DEF Idle
  <2>2. CASE Goto(c, "cleanup") /\ call[c].kind # "control"
    <3>1. /\ call'[c].pc = "cleanup" /\ call'[c].kind = call[c].kind
          /\ \A d \in Callers \ {c} : call'[d] = call[d]
      <4>1. "cleanup" \in Steps
        BY DEF Steps
      <4> QED BY <2>2, <4>1 DEF Goto, CallsTyped, CallRecord
    <3> QED BY <2>2, <3>1
  <2>3. CASE Goto(c, "releaseThread") /\ call[c].kind = "control"
    BY <2>3, GotoEffect, StepNames
  <2> QED BY <1>a, <2>1, <2>2, <2>3
<1>13. ASSUME NEW c \in Callers, Accepted(c) PROVE Goal
  <2>1. call[c].pc = "accepted" /\ (Return(c) \/ Goto(c, "cleanup"))
    BY <1>13 DEF Accepted
  <2> QED BY <1>a, <2>1
<1>14. ASSUME NEW c \in Callers, Refused(c) PROVE Goal
  <2>1. call[c].pc = "refused" /\ (Return(c) \/ Goto(c, "cleanup"))
    BY <1>14 DEF Refused
  <2> QED BY <1>a, <2>1
<1>15. ASSUME NEW c \in Callers, Cleanup(c) \/ CloseFails(c) PROVE Goal
  <2>1. call[c].pc = "cleanup" /\ Return(c)
    BY <1>15 DEF Cleanup, CloseFails
  <2> QED BY <1>a, <2>1
<1>16. ASSUME NEW c \in Callers, Interrupted(c) PROVE Goal
  <2>1. call[c].pc = "interrupt" /\ Return(c)
    BY <1>16 DEF Interrupted
  <2> QED BY <1>a, <2>1
<1>17. ASSUME NEW c \in Callers, Release(c) PROVE Goal
  <2>1. call[c].pc = "release" /\ (Return(c) \/ Goto(c, "releaseThread"))
    BY <1>17 DEF Release
  <2> QED BY <1>a, <2>1
<1>18. ASSUME NEW c \in Callers, ReleaseThread(c) PROVE Goal
  <2>1. call[c].pc = "releaseThread" /\ Return(c)
    BY <1>18 DEF ReleaseThread
  <2> QED BY <1>a, <2>1
<1>19. ASSUME NEW c \in Callers, TransitionFails(c) PROVE Goal
  <2>1. /\ call[c].pc \in {"takeover", "accepted", "refused", "cleanup", "interrupt"}
        /\ (Return(c) \/ (Goto(c, "cleanup") /\ call[c].kind = "delegate"))
    BY <1>19 DEF TransitionFails
  <2> QED BY <1>a, <2>1
<1>20. CASE Restart
  BY <1>20 DEF Restart, Idle
<1> QED BY <1>1, <1>2, <1>3, <1>4, <1>5, <1>6, <1>7, <1>8, <1>9, <1>10, <1>11, <1>12, <1>13,
     <1>14, <1>15, <1>16, <1>17, <1>18, <1>19, <1>20, FrameCall

\* An agent that a restart leaves in a slot runs the turn its row names.
LEMMA RestartRows ==
  ASSUME Shape, Rows, Restart, NEW a \in Agents, Occupies(a)'
  PROVE  turnID'[a] \in Turns /\ turns'[a].id = turnID'[a]
<1>1. /\ status'[a] = ReconciledStatus(a)
      /\ turnID'[a] = IF a \in Unfinished /\ status'[a] # status[a] /\ LatestTurn(a) # NoTurn
                      THEN LatestTurn(a) ELSE turnID[a]
      /\ turns'[a] = IF status'[a] \in Slotted THEN [id |-> turnID'[a], leased |-> FALSE] ELSE NoChild
  BY DEF Restart
<1>2. status'[a] \in Slotted
  BY DEF Occupies
<1>3. a \in Unfinished /\ Rebound(a)
  BY <1>1, <1>2 DEF ReconciledStatus, Unfinished, Slotted
<1>4. LatestTurn(a) \in Turns /\ LatestTurn(a) # NoTurn
  <2>1. Latest(a) # {}
    BY <1>3 DEF Rebound
  <2>2. LatestTurn(a) \in Latest(a)
    BY <2>1 DEF LatestTurn
  <2> QED BY <2>2 DEF Latest, Submitted, Turns, NoTurn
<1>5. status'[a] # status[a] \/ status[a] \in {"running", "waiting"}
  <2>1. CASE status[a] \in {"requested", "starting"}
    <3>1. ReconciledStatus(a) = "running"
      BY <1>3, <2>1 DEF ReconciledStatus
    <3> QED BY <1>1, <2>1, <3>1
  <2>2. status[a] \in {"requested", "starting", "running", "waiting"}
    BY <1>3 DEF Unfinished, Slotted
  <2> QED BY <2>1, <2>2
<1>6. turnID'[a] \in Turns
  BY <1>1, <1>3, <1>4, <1>5 DEF Rows
<1> QED BY <1>1, <1>2, <1>6

\* The row of an agent that runs names its turn.
LEMMA RowsStep ==
  ASSUME Shape, Accepts, Rows, [Next]_vars
  PROVE  Rows'
<1> USE DEF Shape, Rows, CallsTyped, GraphTyped
<1>1. CASE UNCHANGED <<status, turnID>>
  BY <1>1
<1>2. ASSUME NEW c \in Callers, NEW a \in Agents, Spawn(c, a) PROVE Rows'
  BY <1>2 DEF Spawn
<1>3. ASSUME NEW c \in Callers, NEW a \in Agents, FollowUp(c, a) PROVE Rows'
  BY <1>3 DEF FollowUp, Start
<1>4. ASSUME NEW c \in Callers, NEW a \in Agents, CloseAgent(c, a) PROVE Rows'
  BY <1>4 DEF CloseAgent, Close, manager, graph
<1>5. ASSUME NEW c \in Callers, Takeover(c) PROVE Rows'
  BY <1>5 DEF Takeover, Start, manager, graph
<1>6. ASSUME NEW c \in Callers, Accepted(c) PROVE Rows'
  <2>1. call[c].agent \in Agents /\ call[c].turn \in Turns
    BY <1>6 DEF Accepted, Accepts
  <2>2. \A a \in Agents : (status'[a] = status[a] /\ turnID'[a] = turnID[a]) \/ turnID'[a] = call[c].turn
    BY <1>6, <2>1 DEF Accepted
  <2> QED BY <2>1, <2>2
<1>7. ASSUME NEW c \in Callers, Refused(c) PROVE Rows'
  <2>1. call[c].agent \in Agents
    BY <1>7 DEF Refused
  <2>2. UNCHANGED manager \/ End(call[c].agent, "failed", NoTurn)
    BY <1>7 DEF Refused, EndWith
  <2> QED BY <2>1, <2>2 DEF End, manager, graph
<1>8. ASSUME NEW c \in Callers, Cleanup(c) PROVE Rows'
  BY <1>8 DEF Cleanup, Close, manager, graph
<1>9. ASSUME NEW c \in Callers, CloseFails(c) PROVE Rows'
  BY <1>9 DEF CloseFails, End
<1>10. ASSUME NEW c \in Callers, Interrupted(c) PROVE Rows'
  <2>1. call[c].agent \in Agents
    BY <1>10 DEF Interrupted
  <2>2. UNCHANGED manager \/ End(call[c].agent, "interrupted", call[c].turn)
    BY <1>10 DEF Interrupted
  <2> QED BY <2>1, <2>2 DEF End, manager, graph
<1>11. ASSUME NEW a \in Agents, AwaitApproval(a) \/ ResumeApproval(a) PROVE Rows'
  BY <1>11 DEF AwaitApproval, ResumeApproval
<1>12. ASSUME NEW j \in jobs, Settle(j) PROVE Rows'
  <2>1. j.agent \in Agents /\ j.status \in Endings
    BY DEF TrackedTyped, JobRecord
  <2>2. UNCHANGED manager \/ End(j.agent, j.status, j.turn)
    BY <1>12 DEF Settle, EndWith
  <2> QED BY <2>1, <2>2 DEF End, manager, graph, Endings
<1>13. CASE Restart
  BY <1>13, RestartRows DEF Occupies, Slotted
<1> QED BY <1>1, <1>2, <1>3, <1>4, <1>5, <1>6, <1>7, <1>8, <1>9, <1>10, <1>11, <1>12, <1>13,
     FrameStatus, FrameTurnID

\* These facts hold always.
LEMMA CarriedAlways == Spec => []Carried
<1>1. Init => Carried
  BY DEF Init, Carried, Kinds, Accepts, Rows, Idle
<1>2. ChildInv /\ Carried /\ [Next]_vars => Carried'
  BY KindsStep, RowsStep DEF ChildInv, Carried
<1> QED BY <1>1, <1>2, ChildInvariant, PTL DEF Spec

\* An agent in a slot that is not abandoned is carried by a call, a tracked turn or a job.
Carries(c, a) == call[c].agent = a /\ call[c].pc # "accepted" /\ call[c].kind # "control"
Held(a) ==
  \/ turns[a].id # NoTurn
  \/ \E j \in jobs : j.agent = a
  \/ \E c \in Callers : Carries(c, a)
Failing(a) ==
  \E c \in Callers : call[c].agent = a /\ call[c].pc \in {"refused", "cleanup"} /\ TransitionFails(c)

\* An agent enters a slot by a follow-up, a takeover or a restart.
LEMMA Entering ==
  ASSUME Shape, NEW a \in Agents, ~Occupies(a), Occupies(a)', [Next]_vars
  PROVE  \/ \E c \in Callers : FollowUp(c, a)
         \/ \E c \in Callers : Takeover(c) /\ call[c].agent = a /\ MayStart(a)
         \/ Restart
<1> USE DEF Shape, CallsTyped, GraphTyped, Occupies, Slotted
<1> DEFINE Goal == \/ \E c \in Callers : FollowUp(c, a)
                   \/ \E c \in Callers : Takeover(c) /\ call[c].agent = a /\ MayStart(a)
                   \/ Restart
<1>1. CASE UNCHANGED status
  BY <1>1
<1>2. ASSUME NEW c \in Callers, NEW b \in Agents, Spawn(c, b) PROVE Goal
  BY <1>2 DEF Spawn
<1>3. ASSUME NEW c \in Callers, NEW b \in Agents, FollowUp(c, b) PROVE Goal
  BY <1>3 DEF FollowUp, Start
<1>4. ASSUME NEW c \in Callers, NEW b \in Agents, CloseAgent(c, b) PROVE Goal
  BY <1>4 DEF CloseAgent, Close, manager, graph
<1>5. ASSUME NEW c \in Callers, Takeover(c) PROVE Goal
  BY <1>5 DEF Takeover, Start, manager, graph
<1>6. ASSUME NEW c \in Callers, Accepted(c) PROVE Goal
  BY <1>6 DEF Accepted, CanTransition, Endings
<1>7. ASSUME NEW c \in Callers, Refused(c) PROVE Goal
  BY <1>7 DEF Refused, EndWith, End, manager, graph
<1>8. ASSUME NEW c \in Callers, Cleanup(c) PROVE Goal
  BY <1>8 DEF Cleanup, Close, manager, graph
<1>9. ASSUME NEW c \in Callers, CloseFails(c) PROVE Goal
  BY <1>9 DEF CloseFails, End
<1>10. ASSUME NEW c \in Callers, Interrupted(c) PROVE Goal
  BY <1>10 DEF Interrupted, End, manager, graph
<1>11. ASSUME NEW b \in Agents, AwaitApproval(b) \/ ResumeApproval(b) PROVE Goal
  BY <1>11 DEF AwaitApproval, ResumeApproval
<1>12. ASSUME NEW j \in jobs, Settle(j) PROVE Goal
  <2>1. j.agent \in Agents /\ j.status \in Endings
    BY DEF TrackedTyped, JobRecord
  <2> QED BY <1>12, <2>1 DEF Settle, EndWith, End, manager, graph, Endings
<1> QED BY <1>1, <1>2, <1>3, <1>4, <1>5, <1>6, <1>7, <1>8, <1>9, <1>10, <1>11, <1>12, FrameStatus

\* A call moves, and carries the agent if it did before.
LEMMA HeldMoves ==
  ASSUME NEW a \in Agents, Held(a), NEW c \in Callers, \A d \in Callers \ {c} : call'[d] = call[d],
         Carries(c, a) => Carries(c, a)', UNCHANGED <<turns, jobs>>
  PROVE  Held(a)'
<1>1. CASE \E d \in Callers : Carries(d, a)
  <2>1. PICK d \in Callers : Carries(d, a)
    BY <1>1
  <2>2. Carries(d, a)'
    BY <2>1 DEF Carries
  <2> QED BY <2>2 DEF Held
<1> QED BY <1>1 DEF Held

\* Every step keeps an agent that occupies a slot carried, but for the failed transition.
LEMMA HeldStep ==
  ASSUME ChildInv, Carried, NEW a \in Agents, Occupies(a), Held(a), [Next]_vars, Occupies(a)'
  PROVE  Held(a)' \/ Failing(a)
<1> DEFINE Goal == Held(a)' \/ Failing(a)
<1> USE DEF ChildInv, Shape
<1>0. /\ status[a] \in Slotted /\ status'[a] \in Slotted /\ CanTransition(status[a], "failed")
      /\ ~CanTransition(status[a], "starting") /\ a # None
      /\ \A c \in Callers : call[c].pc = "idle" => ~Carries(c, a)
      /\ \A c \in Callers : call[c].kind = "control" <=> call[c].pc \in {"interrupt", "release", "releaseThread"}
  BY ChildConstants DEF Occupies, Slotted, CanTransition, Endings, Carried, Kinds, Carries
<1>1. CASE UNCHANGED <<call, turns, jobs>>
  BY <1>1 DEF Held, Carries
<1>2. ASSUME NEW c \in Callers, NEW b \in Agents, Spawn(c, b) PROVE Goal
  BY <1>2, <1>0, HeldMoves DEF Spawn, CallsTyped, runtime
<1>3. ASSUME NEW c \in Callers, NEW b \in Agents, FollowUp(c, b) PROVE Goal
  BY <1>3, <1>0, HeldMoves DEF FollowUp, CallsTyped, runtime
<1>4. ASSUME NEW c \in Callers, NEW b \in Agents, Interrupt(c, b) PROVE Goal
  BY <1>4, <1>0, HeldMoves DEF Interrupt, CallsTyped, runtime
<1>5. ASSUME NEW c \in Callers, NEW b \in Agents, CloseAgent(c, b) PROVE Goal
  BY <1>5, <1>0, HeldMoves DEF CloseAgent, CallsTyped, runtime
<1>6. ASSUME NEW c \in Callers, Takeover(c) PROVE Goal
  BY <1>6, GotoEffect, StepNames, HeldMoves DEF Takeover, Carries, runtime
<1>7. ASSUME NEW c \in Callers, Check(c) PROVE Goal
  BY <1>7, CheckEffect, HeldMoves DEF Check, Carries, runtime
<1>8. ASSUME NEW c \in Callers, Admit(c) PROVE Goal
  BY <1>8, GotoEffect, StepNames, HeldMoves DEF Admit, Carries, runtime
<1>9. ASSUME NEW c \in Callers, Reserve(c) PROVE Goal
  BY <1>9, GotoEffect, StepNames, HeldMoves DEF Reserve, Carries, runtime
<1>10. ASSUME NEW c \in Callers, Activate(c) PROVE Goal
  BY <1>10, GotoEffect, StepNames, HeldMoves DEF Activate, Carries, runtime
<1>11. ASSUME NEW c \in Callers, Track(c) PROVE Goal
  <2>1. call[c].pc = "track" /\ call[c].agent \in Agents /\ call[c].turn \in Turns /\ Goto(c, "submit")
    BY <1>11, ClaimFacts DEF Track, Before
  <2>2. turns' = [turns EXCEPT ![call[c].agent] = [id |-> call[c].turn, leased |-> TRUE]] /\ jobs' = jobs
    BY <1>11 DEF Track
  <2>3. turns[a].id # NoTurn => turns'[a].id # NoTurn
    BY <2>1, <2>2 DEF TrackedTyped, Turns, NoTurn
  <2>4. \A d \in Callers : Carries(d, a) => Carries(d, a)'
    BY <2>1, GotoEffect, StepNames DEF Carries
  <2> QED BY <2>2, <2>3, <2>4 DEF Held
<1>12. ASSUME NEW c \in Callers, Submit(c) PROVE Goal
  <2>1. call[c].pc = "submit" /\ call[c].agent \in Agents /\ call[c].turn \in Turns /\ jobs' = jobs
    BY <1>12, ClaimFacts DEF Submit, Before
  <2>2. CASE Goto(c, "accepted") /\ UNCHANGED turns
    <3>1. CASE call[c].agent = a
      <4>1. turns[a].leased
        BY <1>0, <2>1, <3>1 DEF ClosedFirst, ClosedSubmits, Slotted
      <4>2. turns[a].id = call[c].turn
        BY <2>1, <3>1, <4>1 DEF Claimed, ClaimIsLease, Claims
      <4> QED BY <2>1, <2>2, <4>2 DEF Held, Turns, NoTurn
    <3>2. CASE call[c].agent # a
      BY <2>1, <2>2, <3>2, GotoEffect, StepNames, HeldMoves DEF Carries
    <3> QED BY <3>1, <3>2
  <2>3. CASE Goto(c, "refused") /\ turns' = [turns EXCEPT ![call[c].agent] = NoChild]
    <3>1. /\ call'[c].pc = "refused" /\ call'[c].agent = call[c].agent /\ call'[c].kind = call[c].kind
          /\ \A d \in Callers \ {c} : call'[d] = call[d]
      BY <2>1, <2>3, GotoEffect, StepNames
    <3>2. CASE call[c].agent = a
      BY <1>0, <2>1, <3>1, <3>2 DEF Held, Carries
    <3>3. CASE call[c].agent # a
      <4>1. turns'[a] = turns[a]
        BY <2>1, <2>3, <3>3 DEF TrackedTyped
      <4>2. \A d \in Callers : Carries(d, a) => Carries(d, a)'
        BY <3>1, <3>3 DEF Carries
      <4> QED BY <2>1, <4>1, <4>2 DEF Held
    <3> QED BY <3>2, <3>3
  <2> QED BY <1>12, <2>2, <2>3 DEF Submit
<1>13. ASSUME NEW c \in Callers, Accepted(c) PROVE Goal
  BY <1>13, GotoEffect, StepNames, ReturnEffect, HeldMoves DEF Accepted, Carries, runtime
<1>14. ASSUME NEW c \in Callers, Refused(c) PROVE Goal
  <2>1. call[c].agent \in Agents /\ call[c].pc = "refused"
    BY <1>14 DEF Refused, CallsTyped
  <2>2. call[c].agent # a
    BY <1>0, <1>14, <2>1 DEF Refused, EndWith, End, GraphTyped, Slotted
  <2> QED BY <1>14, <2>1, <2>2, GotoEffect, StepNames, ReturnEffect, HeldMoves DEF Refused, Carries,
       runtime
<1>15. ASSUME NEW c \in Callers, Cleanup(c) PROVE Goal
  <2>1. call[c].agent \in Agents /\ call[c].pc = "cleanup"
    BY <1>15 DEF Cleanup, CallsTyped
  <2>2. call[c].agent # a
    BY <1>0, <1>15, <2>1 DEF Cleanup, Close, GraphTyped, Slotted
  <2> QED BY <1>15, <2>1, <2>2, ReturnEffect, HeldMoves DEF Cleanup, Carries, runtime
<1>16. ASSUME NEW c \in Callers, CloseFails(c) PROVE Goal
  <2>1. call[c].agent \in Agents /\ call[c].pc = "cleanup"
    BY <1>16 DEF CloseFails, CallsTyped
  <2>2. call[c].agent # a
    BY <1>0, <1>16, <2>1 DEF CloseFails, End, GraphTyped, Slotted
  <2> QED BY <1>16, <2>1, <2>2, ReturnEffect, HeldMoves DEF CloseFails, Carries, runtime
<1>17. ASSUME NEW c \in Callers, Interrupted(c) PROVE Goal
  BY <1>0, <1>17, ReturnEffect, HeldMoves DEF Interrupted, Carries, runtime
<1>18. ASSUME NEW c \in Callers, Release(c) PROVE Goal
  <2>1. ~Carries(c, a)
    BY <1>0, <1>18 DEF Release, Carries
  <2> QED BY <1>18, <2>1, GotoEffect, StepNames, ReturnEffect, HeldMoves DEF Release, runtime
<1>19. ASSUME NEW c \in Callers, ReleaseThread(c) PROVE Goal
  <2>1. call[c].agent \in Agents /\ call[c].agent # a /\ ~Carries(c, a)
    BY <1>0, <1>19 DEF ReleaseThread, CallsTyped, ClosedFirst, ClosedReleases, Slotted, Carries
  <2>2. turns'[a] = turns[a] /\ jobs' = jobs
    BY <1>19, <2>1 DEF ReleaseThread, TrackedTyped
  <2>3. \A d \in Callers : Carries(d, a) => Carries(d, a)'
    BY <1>19, <2>1, ReturnEffect DEF ReleaseThread, Carries
  <2> QED BY <2>2, <2>3 DEF Held
<1>20. ASSUME NEW c \in Callers, TransitionFails(c) PROVE Goal
  <2>1. /\ call[c].pc \in {"takeover", "accepted", "refused", "cleanup", "interrupt"}
        /\ CanTransition(status[call[c].agent], Wanted(c)) /\ UNCHANGED <<turns, jobs>>
        /\ Goto(c, "cleanup") \/ Return(c)
    BY <1>20 DEF TransitionFails, runtime
  <2>2. CASE Carries(c, a) /\ call[c].pc \in {"refused", "cleanup"}
    BY <1>20, <2>2 DEF Failing, Carries
  <2>3. CASE ~Carries(c, a)
    BY <2>1, <2>3, GotoEffect, StepNames, ReturnEffect, HeldMoves
  <2>4. ~(Carries(c, a) /\ call[c].pc \in {"takeover", "accepted", "interrupt"})
    BY <1>0, <2>1 DEF Carries, Wanted
  <2> QED BY <2>1, <2>2, <2>3, <2>4
<1>21. ASSUME NEW t \in Turns, Observe(t) PROVE Goal
  <2>1. call' = call /\ turn[t].agent \in Agents
    BY <1>21 DEF Observe, AllBegun, BegunTurns, Begun
  <2>2. CASE UNCHANGED <<turns, jobs>>
    BY <2>1, <2>2 DEF Held, Carries
  <2>3. CASE turns' = [turns EXCEPT ![turn[t].agent] = NoChild]
    <3> DEFINE j == [agent |-> turn[t].agent, turn |-> t,
                     status |-> IF SettleFails(turn[t].agent, t, turn[t].used) THEN "failed"
                                ELSE turn[t].status, used |-> turn[t].used]
    <3>1. UNCHANGED <<turns, jobs>> \/ jobs' = jobs \cup {j}
      BY <1>21 DEF Observe
    <3>4. CASE jobs' = jobs \cup {j}
      <4>1. j \in jobs' /\ j.agent = turn[t].agent /\ jobs \subseteq jobs'
        BY <3>4
      <4> HIDE DEF j
      <4>2. turn[t].agent # a => turns'[a] = turns[a]
        BY <2>1, <2>3 DEF TrackedTyped
      <4> QED BY <2>1, <4>1, <4>2 DEF Held, Carries
    <3> QED BY <2>2, <3>1, <3>4
  <2> QED BY <1>21, <2>2, <2>3 DEF Observe
<1>22. ASSUME NEW j \in jobs, Settle(j) PROVE Goal
  <2>1. j.agent \in Agents /\ j.status \in Endings /\ UNCHANGED <<call, turns>>
    BY <1>22 DEF TrackedTyped, JobRecord, Settle
  <2>2. CASE UNCHANGED jobs
    BY <2>1, <2>2 DEF Held, Carries
  <2>3. CASE jobs' = jobs \ {j} /\ Settles(j)
    <3>1. j.agent # a
      BY <1>0, <1>22, <2>1, <2>3 DEF Settle, Repeated, EndWith, End, GraphTyped, Slotted, Endings
    <3> QED BY <2>1, <2>3, <3>1 DEF Held, Carries
  <2> QED BY <1>22, <2>2, <2>3 DEF Settle
<1>23. CASE Restart
  BY <1>23, RestartRows DEF Held, Carried, Turns, NoTurn
<1> QED BY <1>1, <1>2, <1>3, <1>4, <1>5, <1>6, <1>7, <1>8, <1>9, <1>10, <1>11, <1>12, <1>13,
     <1>14, <1>15, <1>16, <1>17, <1>18, <1>19, <1>20, <1>21, <1>22, <1>23, FrameCall, FrameTurns,
     FrameJobs

\* An agent that has just entered a slot is carried.
LEMMA HeldOnEntry ==
  ASSUME ChildInv, Carried, NEW a \in Agents, ~Occupies(a), [Next]_vars, Occupies(a)'
  PROVE  Held(a)'
<1> USE DEF ChildInv, Shape
<1>1. ASSUME NEW c \in Callers, FollowUp(c, a) PROVE Held(a)'
  <2>1. call'[c] = [pc |-> "check", agent |-> a, turn |-> NoTurn, kind |-> "followup"]
    BY <1>1 DEF FollowUp, CallsTyped
  <2> QED BY <2>1 DEF Held, Carries
<1>2. ASSUME NEW c \in Callers, Takeover(c), call[c].agent = a, MayStart(a) PROVE Held(a)'
  <2>1. call[c].pc = "takeover" /\ Goto(c, "check") /\ call[c].kind # "control"
    BY <1>2 DEF Takeover, Carried, Kinds
  <2> QED BY <1>2, <2>1, GotoEffect, StepNames DEF Held, Carries
<1>3. CASE Restart
  BY <1>3, RestartRows DEF Held, Carried, Turns, NoTurn
<1> QED BY <1>1, <1>2, <1>3, Entering

-----------------------------------------------------------------------------
(* What the child runtime keeps.                                           *)

\* The governor's flights are the leases held by StartTurn calls and tracked turns, but for at
\* most one lease of each closed agent (admission.Governor, childRuntime.StartTurn, release).
THEOREM LeasesAreReturned == Spec => []FlightExact
<1>1. ChildInv => FlightExact
  <2> SUFFICES ASSUME ChildInv PROVE FlightExact
    OBVIOUS
  <2>1. Closed \in SUBSET Agents /\ Unheld \in SUBSET Closed
    BY DEF Closed, Unheld
  <2>2. IsFiniteSet(Closed)
    BY <2>1, Finite, FS_Subset
  <2>3. Cardinality(Unheld) <= Cardinality(Closed) /\ Cardinality(Closed) \in Nat
    BY <2>1, <2>2, FS_Subset, FS_CardinalityType
  <2> QED BY <2>3, FiniteCounts DEF ChildInv, Flights, FlightExact, Shape, TrackedTyped
<1> QED BY <1>1, ChildInvariant, PTL

\* The manager counts every agent that occupies a slot once, over takeovers, follow-ups, late
\* settlements, interrupts, closes and restarts, and never more than the limit.
THEOREM SlotsAreExact == Spec => []SlotsExact
<1>1. ChildInv => SlotsExact
  BY DEF ChildInv
<1> QED BY <1>1, ChildInvariant, PTL

\* childRuntime.track never replaces the record of a leased turn: the slot of the agent's
\* budget scope keeps a second StartTurn out until the first turn is dropped.
THEOREM LeasedIsNotOverwritten == Spec => NotOverwritten
<1>1. ChildInv /\ [Next]_vars =>
        [\A a \in Agents : turns[a].leased /\ turns'[a].leased => turns'[a].id = turns[a].id]_vars
  <2> SUFFICES ASSUME ChildInv, [Next]_vars, NEW a \in Agents, turns[a].leased, turns'[a].leased
               PROVE  turns'[a].id = turns[a].id
    OBVIOUS
  <2> USE DEF ChildInv, Shape
  <2>1. CASE UNCHANGED turns
    BY <2>1
  <2>2. ASSUME NEW c \in Callers, Track(c) PROVE turns'[a].id = turns[a].id
    <3>1. call[c].pc = "track" /\ call[c].agent \in Agents
      BY <2>2, ClaimFacts DEF Track, Before
    <3>2. a # call[c].agent
      BY <3>1 DEF Claimed, ClaimIsLease, Claims
    <3> QED BY <2>2, <3>2 DEF Track, TrackedTyped
  <2>3. ASSUME NEW c \in Callers, Submit(c) PROVE turns'[a].id = turns[a].id
    BY <2>3 DEF Submit, TrackedTyped, NoChild
  <2>4. ASSUME NEW c \in Callers, ReleaseThread(c) PROVE turns'[a].id = turns[a].id
    BY <2>4 DEF ReleaseThread, TrackedTyped, NoChild
  <2>5. ASSUME NEW t \in Turns, Observe(t) PROVE turns'[a].id = turns[a].id
    BY <2>5 DEF Observe, TrackedTyped, NoChild
  <2>6. CASE Restart
    BY <2>6 DEF Restart, NoChild
  <2> QED BY <2>1, <2>2, <2>3, <2>4, <2>5, <2>6, FrameTurns
<1> QED BY <1>1, ChildInvariant, PTL DEF Spec, NotOverwritten

\* Only a refused write of the transition after a refused start leaves an agent in its slot
\* with nothing that would end its turn (Manager.startTurn, childRuntime.observe and settle).
THEOREM OnlyFaultsAbandon == Spec => NotAbandoned
<1>1. ASSUME ChildInv, Carried, [Next]_vars, NEW a \in Agents, Abandoned(a)'
      PROVE  Abandoned(a) \/ Failing(a)
  <2>1. \A b \in Agents : Abandoned(b) <=> Occupies(b) /\ ~Held(b)
    BY DEF Abandoned, Held, Carries
  <2>2. Occupies(a)' /\ ~Held(a)'
    BY <1>1 DEF Abandoned, Held, Carries
  <2>3. Occupies(a)
    BY <1>1, <2>2, HeldOnEntry
  <2>4. CASE Held(a)
    BY <1>1, <2>2, <2>3, <2>4, HeldStep
  <2> QED BY <2>1, <2>3, <2>4
<1>2. ChildInv /\ Carried /\ [Next]_vars =>
        [\A a \in Agents : Abandoned(a)' =>
           \/ Abandoned(a)
           \/ \E c \in Callers : call[c].agent = a /\ call[c].pc \in {"refused", "cleanup"}
                                /\ TransitionFails(c)]_vars
  BY <1>1 DEF Failing
<1> QED BY <1>2, ChildInvariant, CarriedAlways, PTL DEF Spec, NotAbandoned

=============================================================================
