---------------------------- MODULE ChildAgents ----------------------------
(***************************************************************************)
(* The child agents of one session: the manager that owns their lifecycle  *)
(* and durable budget, the child runtime that starts a turn for an agent   *)
(* and settles it when its terminal event is observed, the governor that   *)
(* counts running turns and spend, and the hierarchical budget ledger.     *)
(*                                                                         *)
(* A child's turn is an ordinary turn of the application runtime; here it  *)
(* is accepted, opens its facts, and ends or is rejected.  Tokens stand    *)
(* for every budgeted resource.  Mailbox, worktrees, write claims, integration and   *)
(* residency are left out: every agent stays resident.                     *)
(***************************************************************************)
EXTENDS Integers, FiniteSets, FiniteSetsExt

CONSTANTS
  Agents,        \* agents the session may spawn
  Callers,       \* concurrent calls of the agent tools
  MaxTokens,     \* token budget of the whole tree
  MaxParallel,   \* turns that may run at once
  Asks,          \* token budgets callers may ask for each agent, 0 for none
  Outcomes,      \* how a turn may end, and the tokens it is charged with
  MaxTurns,      \* bound on the turns submitted
  MaxFaults,     \* bound on interrupts, closes, restarts and failed writes
  None

ASSUME ChildConstants ==
  /\ MaxTokens \in Nat \ {0} /\ MaxParallel \in Nat \ {0}
  /\ Asks \in [Agents -> SUBSET Nat]
  /\ Outcomes \subseteq {"completed", "failed", "interrupted"} \X Nat
  /\ MaxTurns \in Nat /\ MaxFaults \in Nat
  /\ IsFiniteSet(Agents) /\ IsFiniteSet(Callers)
  /\ None \notin Agents /\ "agents" \notin Agents

VARIABLES
  \* the agent graph: durable, and held in memory by the manager
  status,       \* status of each agent, "none" before it is spawned
  turnID,       \* the turn an agent last ran
  result,       \* the turn of the agent's last result
  limit,        \* token budget of each agent
  spent,        \* tokens charged to each agent
  active,       \* agents that occupy a slot
  kept,         \* tokens each agent's row of the durable ledger reserves
  \* the manager's memory
  own,          \* tokens each agent has reserved
  held,         \* tokens reserved by all agents
  \* the application runtime
  turn,         \* each turn: its agent, its state and how it ended
  \* the child runtime
  turns,        \* the turn observed for each agent, and whether it has a lease
  jobs,         \* settlements not yet committed
  settlementErrors, \* turns whose settlement has failed
  \* governor
  flight,       \* admitted turns
  govSpent,     \* tokens recorded
  \* budget ledger
  account,      \* reserved tokens and slots, and spent tokens, of each scope
  reservation,  \* the reservation of each turn
  \* calls of the agent tools
  call,         \* where each call is
  faults        \* how many faults have happened

graph == <<status, turnID, result, limit, spent, active, kept>>
manager == <<graph, own, held>>
governor == <<flight, govSpent>>
ledger == <<account, reservation>>
runtime == <<turns, jobs, settlementErrors>>
vars == <<manager, turn, runtime, governor, ledger, call, faults>>

Turns == 1..MaxTurns
NoTurn == 0
Tree == "agents"
Scopes == Agents \cup {Tree}
Slotted == {"starting", "running", "waiting"}
Endings == {"completed", "failed", "interrupted"}
Statuses == {"none", "requested", "closed"} \cup Slotted \cup Endings
Idle == [pc |-> "idle", agent |-> None, turn |-> NoTurn, kind |-> "none"]
Used == {o[2] : o \in Outcomes} \cup {0}
NoChild == [id |-> NoTurn, leased |-> FALSE]
Unused == [agent |-> None, state |-> "none", status |-> "none", used |-> 0]
\* An accepted or resumed turn has a row that is active; it is served by a worker, or by
\* none: "stranded" without facts, for ever, and "halted" with facts, until a restart.
Live == {"accepted", "active", "stranded", "halted"}
TurnStates == {"none", "named", "ended", "rejected", "observed"} \cup Live
Steps == {"takeover", "check", "admit", "reserve", "activate", "track", "submit", "accepted",
          "refused", "cleanup", "interrupt", "release", "releaseThread"}

\* Every variable has its type.
TypeOK ==
  /\ status \in [Agents -> Statuses]
  /\ turnID \in [Agents -> Turns \cup {NoTurn}]
  /\ result \in [Agents -> Turns \cup {NoTurn}]
  /\ limit \in [Agents -> 0..MaxTokens] /\ spent \in [Agents -> Nat]
  /\ active \in Nat /\ kept \in [Agents -> Nat]
  /\ own \in [Agents -> Nat] /\ held \in Nat
  /\ turn \in [Turns -> [agent : Agents \cup {None}, used : Used,
                         state : TurnStates,
                         status : Endings \cup {"none"}]]
  /\ turns \in [Agents -> [id : Turns \cup {NoTurn}, leased : BOOLEAN]]
  /\ jobs \subseteq [agent : Agents, turn : Turns, status : Endings, used : Used]
  /\ settlementErrors \subseteq Turns
  /\ flight \in Int /\ govSpent \in Nat
  /\ account \in [Scopes -> [reserved : Int, slots : Int, spent : Nat]]
  /\ reservation \in [Turns -> [amount : Nat, state : {"none", "active", "done"}]]
  /\ call \in [Callers -> [pc : Steps \cup {"idle"}, agent : Agents \cup {None},
                           turn : Turns \cup {NoTurn},
                           kind : {"delegate", "followup", "control", "none"}]]
  /\ faults \in 0..MaxFaults

Sum(f) == MapThenSumSet(LAMBDA x : f[x], DOMAIN f)
Fault == faults < MaxFaults /\ faults' = faults + 1

-----------------------------------------------------------------------------
(* The manager.                                                            *)

Occupies(a) == status[a] \in Slotted

CanTransition(from, to) ==
  CASE from = "requested" -> to \in {"starting", "closed"} \cup Endings
    [] from = "starting"  -> to \in {"running"} \cup Endings
    [] from = "running"   -> to \in {"waiting"} \cup Endings
    [] from = "waiting"   -> to \in {"running"} \cup Endings
    [] from \in Endings   -> to \in {"starting", "closed"}
    [] OTHER -> FALSE

\* A turn may be requested of an agent: a slot is free and what is left of the
\* agent's budget fits the tree.
Remaining(a) == limit[a] - spent[a]
MayStart(a) ==
  /\ CanTransition(status[a], "starting")
  /\ active < MaxParallel
  /\ Remaining(a) > 0
  /\ Sum(spent) + held + Remaining(a) <= MaxTokens

\* Mutant: the reservation is given back by any agent that ends or is closed.
LeaveAlways(a) ==
  /\ active' = active - 1
  /\ held' = held - own[a]
  /\ own' = [own EXCEPT ![a] = 0]
  /\ kept' = [kept EXCEPT ![a] = 0]
\* The reservation an agent gives back when it leaves its slot.
Leave(a) ==
  IF Occupies(a)
  THEN /\ active' = active - 1
       /\ held' = held - own[a]
       /\ own' = [own EXCEPT ![a] = 0]
       /\ kept' = [kept EXCEPT ![a] = 0]
  ELSE UNCHANGED <<active, held, own, kept>>

\* An agent enters "starting" with a reservation of what is left of its budget.
Start(a) ==
  /\ MayStart(a)
  /\ status' = [status EXCEPT ![a] = "starting"]
  /\ active' = active + 1
  /\ own' = [own EXCEPT ![a] = Remaining(a)]
  /\ held' = held + Remaining(a)
  /\ kept' = [kept EXCEPT ![a] = @ + Remaining(a)]
  /\ UNCHANGED <<turnID, result, limit, spent>>

\* An agent ends with status s; t names the turn, or NoTurn.
End(a, s, t) ==
  /\ CanTransition(status[a], s)
  /\ status' = [status EXCEPT ![a] = s]
  /\ turnID' = [turnID EXCEPT ![a] = IF t = NoTurn THEN @ ELSE t]
  /\ Leave(a)
  /\ UNCHANGED limit

\* The same with a result that charges used tokens.
EndWith(a, s, t, used) ==
  /\ End(a, s, t)
  /\ result' = [result EXCEPT ![a] = t]
  /\ spent' = [spent EXCEPT ![a] = @ + used]

\* Close interrupts an active agent first; a second close finds it closed.
Close(a) ==
  IF status[a] = "closed" THEN UNCHANGED manager
  ELSE /\ status' = [status EXCEPT ![a] = "closed"]
       /\ Leave(a)
       /\ UNCHANGED <<turnID, result, limit, spent>>

Goto(c, pc) == call' = [call EXCEPT ![c].pc = pc]
Return(c) == call' = [call EXCEPT ![c] = Idle]

\* An agent gets the budget asked for, or an equal share of the tree or what is left of it.
Share == LET s == MaxTokens \div MaxParallel IN IF s = 0 THEN 1 ELSE s
Free == MaxTokens - (Sum(spent) + held)
Budget(ask) == IF ask > 0 THEN ask ELSE IF Share < Free THEN Share ELSE Free

\* The bound on turns: a call is made only if it can name a turn.
MoreTurns == Cardinality({t \in Turns : turn[t].state # "none"})
             + Cardinality({c \in Callers : call[c].pc \in {"takeover", "check"}}) < MaxTurns

Spawn(c, a) ==
  /\ call[c].pc = "idle" /\ status[a] = "none" /\ MoreTurns
  /\ \E ask \in Asks[a] :
       /\ 0 < Budget(ask) /\ Budget(ask) <= Free
       /\ limit' = [limit EXCEPT ![a] = Budget(ask)]
  /\ status' = [status EXCEPT ![a] = "requested"]
  /\ call' = [call EXCEPT ![c] = [pc |-> "takeover", agent |-> a, turn |-> NoTurn,
                                  kind |-> "delegate"]]
  /\ UNCHANGED <<turnID, result, spent, active, kept, own, held, turn, runtime, governor,
                 ledger, faults>>

\* startTurn requests the turn; a refusal leaves the agent as it was.
Takeover(c) ==
  LET a == call[c].agent IN
  /\ call[c].pc = "takeover"
  /\ \/ MayStart(a) /\ Start(a) /\ Goto(c, "check")
     \/ ~MayStart(a) /\ Goto(c, "cleanup") /\ UNCHANGED manager
  /\ UNCHANGED <<turn, runtime, governor, ledger, faults>>

FollowUp(c, a) ==
  /\ call[c].pc = "idle"
  /\ status[a] # "none" /\ ~Occupies(a)
  /\ Start(a) /\ MoreTurns
  /\ call' = [call EXCEPT ![c] = [pc |-> "check", agent |-> a, turn |-> NoTurn,
                                  kind |-> "followup"]]
  /\ UNCHANGED <<turn, runtime, governor, ledger, faults>>

-----------------------------------------------------------------------------
(* The budget ledger.                                                      *)

Path(a) == {a, Tree}
ScopeTokens(s) == IF s = Tree THEN MaxTokens ELSE limit[s]
ScopeSlots(s) == IF s = Tree THEN MaxParallel ELSE 1

\* Mutant: only what is spent counts against a limit.
BudgetExhaustedSpent(s, acc) ==
  \/ acc.spent > ScopeTokens(s)
  \/ acc.slots > ScopeSlots(s)
BudgetExhausted(s, acc) ==
  \/ acc.reserved + acc.spent > ScopeTokens(s)
  \/ acc.slots > ScopeSlots(s)
AddUsage(acc, amount) ==
  [reserved |-> acc.reserved + amount, slots |-> acc.slots + 1, spent |-> acc.spent]
CanSubtract(s, t) == account[s].reserved >= reservation[t].amount /\ account[s].slots >= 1

\* What reserveChildBudget asks for: all that is left of the agent's budget.
Ask(a) == limit[a] - (account[a].spent + account[a].reserved)
CanReserve(a) ==
  /\ Ask(a) > 0
  /\ \A s \in Path(a) : ~BudgetExhausted(s, AddUsage(account[s], Ask(a)))

\* Mutant: the walk stops at the scope of the agent.
UpdatedLeaf(a, t) == IF CanSubtract(a, t) THEN {a} ELSE {}

\* The scopes of a path are updated from the agent up, until one underflows.
Updated(a, t) == IF ~CanSubtract(a, t) THEN {}
                 ELSE IF ~CanSubtract(Tree, t) THEN {a} ELSE Path(a)
Subtract(a, t, used) ==
  [s \in Scopes |-> IF s \in Updated(a, t)
                    THEN [reserved |-> account[s].reserved - reservation[t].amount,
                          slots |-> account[s].slots - 1,
                          spent |-> account[s].spent + used]
                    ELSE account[s]]

\* Settle and Refund: an inactive reservation is left alone.
SettleBudget(a, t, used) ==
  IF reservation[t].state # "active" THEN UNCHANGED ledger
  ELSE /\ account' = Subtract(a, t, used)
       /\ reservation' = [reservation EXCEPT ![t] =
                            [amount |-> @.amount,
                             state |-> IF Updated(a, t) = Path(a) THEN "done" ELSE "active"]]
Refund(a, t) == SettleBudget(a, t, 0)
SettleFails(a, t, used) ==
  /\ reservation[t].state = "active"
  /\ \/ Updated(a, t) # Path(a)
     \/ \E s \in Path(a) : BudgetExhausted(s, Subtract(a, t, used)[s])

-----------------------------------------------------------------------------
(* childRuntime.StartTurn, step by step.                                   *)

\* No settlement may be pending and the agent must be open; the turn gets a name.
Check(c) ==
  LET a == call[c].agent IN
  /\ call[c].pc = "check"
  /\ IF settlementErrors = {} /\ status[a] # "closed"
     THEN \E t \in Turns :
            /\ turn[t].state = "none" /\ \A o \in 1..(t - 1) : turn[o].state # "none"
            /\ call' = [call EXCEPT ![c].pc = "admit", ![c].turn = t]
            /\ turn' = [turn EXCEPT ![t].agent = a, ![t].state = "named"]
     ELSE Goto(c, "refused") /\ UNCHANGED turn
  /\ UNCHANGED <<manager, runtime, governor, ledger, faults>>

\* admit: the pot is not spent and the governor has room for the turn.
Admit(c) ==
  /\ call[c].pc = "admit"
  /\ IF govSpent < MaxTokens /\ flight < MaxParallel
     THEN flight' = flight + 1 /\ Goto(c, "reserve")
     ELSE Goto(c, "refused") /\ UNCHANGED flight
  /\ UNCHANGED <<manager, turn, runtime, govSpent, ledger, faults>>

\* Mutant: a refused reservation keeps the lease.
ReserveKeepsLease(c) ==
  LET a == call[c].agent
      t == call[c].turn IN
  /\ call[c].pc = "reserve"
  /\ IF CanReserve(a)
     THEN /\ account' = [s \in Scopes |-> IF s \in Path(a) THEN AddUsage(account[s], Ask(a))
                                          ELSE account[s]]
          /\ reservation' = [reservation EXCEPT ![t] = [amount |-> Ask(a), state |-> "active"]]
          /\ Goto(c, "activate")
     ELSE Goto(c, "refused") /\ UNCHANGED ledger
  /\ UNCHANGED <<manager, turn, runtime, governor, faults>>

\* reserveChildBudget; a refusal returns the lease.
Reserve(c) ==
  LET a == call[c].agent
      t == call[c].turn IN
  /\ call[c].pc = "reserve"
  /\ IF CanReserve(a)
     THEN /\ account' = [s \in Scopes |-> IF s \in Path(a) THEN AddUsage(account[s], Ask(a))
                                          ELSE account[s]]
          /\ reservation' = [reservation EXCEPT ![t] = [amount |-> Ask(a), state |-> "active"]]
          /\ Goto(c, "activate") /\ UNCHANGED flight
     ELSE flight' = flight - 1 /\ Goto(c, "refused") /\ UNCHANGED ledger
  /\ UNCHANGED <<manager, turn, runtime, govSpent, faults>>

\* ActivateResident: the agent may have been closed, which refunds and returns the lease.
Activate(c) ==
  LET a == call[c].agent IN
  /\ call[c].pc = "activate"
  /\ IF status[a] # "closed"
     THEN Goto(c, "track") /\ UNCHANGED <<flight, ledger>>
     ELSE Refund(a, call[c].turn) /\ flight' = flight - 1 /\ Goto(c, "refused")
  /\ UNCHANGED <<manager, turn, runtime, govSpent, faults>>

\* The turn is tracked before it is submitted, so that its end is not missed.
Track(c) ==
  /\ call[c].pc = "track"
  /\ turns' = [turns EXCEPT ![call[c].agent] = [id |-> call[c].turn, leased |-> TRUE]]
  /\ Goto(c, "submit")
  /\ UNCHANGED <<manager, turn, jobs, settlementErrors, governor, ledger, faults>>

\* Mutant: a refused turn keeps its reservation.
SubmitKeepsReservation(c) ==
  LET a == call[c].agent
      t == call[c].turn IN
  /\ call[c].pc = "submit"
  /\ \/ /\ \A o \in Turns : ~(turn[o].agent = a /\ turn[o].state \in Live)
        /\ turn' = [turn EXCEPT ![t].state = "accepted"]
        /\ Goto(c, "accepted")
        /\ UNCHANGED <<turns, flight>>
     \/ /\ turns' = [turns EXCEPT ![a] = NoChild]
        /\ flight' = flight - 1
        /\ Goto(c, "refused") /\ UNCHANGED turn
  /\ UNCHANGED <<manager, jobs, settlementErrors, govSpent, ledger, faults>>

\* The runtime accepts the turn if its thread has no active one, or refuses it, then or
\* for another reason, and everything is undone.
Submit(c) ==
  LET a == call[c].agent
      t == call[c].turn IN
  /\ call[c].pc = "submit"
  /\ \/ /\ \A o \in Turns : ~(turn[o].agent = a /\ turn[o].state \in Live)
        /\ turn' = [turn EXCEPT ![t].state = "accepted"]
        /\ Goto(c, "accepted")
        /\ UNCHANGED <<turns, flight, ledger>>
     \/ /\ turns' = [turns EXCEPT ![a] = NoChild]
        /\ Refund(a, t) /\ flight' = flight - 1
        /\ Goto(c, "refused") /\ UNCHANGED turn
  /\ UNCHANGED <<manager, jobs, settlementErrors, govSpent, faults>>

\* startTurn after StartTurn: a terminal state of this very turn wins over "running".
Accepted(c) ==
  LET a == call[c].agent
      t == call[c].turn
      settled == status[a] \in Endings /\ turnID[a] = t
      runs == ~settled /\ CanTransition(status[a], "running") IN
  /\ call[c].pc = "accepted"
  /\ status' = IF runs THEN [status EXCEPT ![a] = "running"] ELSE status
  /\ turnID' = IF runs THEN [turnID EXCEPT ![a] = t] ELSE turnID
  /\ IF settled \/ runs \/ call[c].kind = "followup" THEN Return(c) ELSE Goto(c, "cleanup")
  /\ UNCHANGED <<result, limit, spent, active, kept, own, held, turn, runtime, governor, ledger,
                 faults>>

\* Mutant: the agent of a refused turn is left as it is.
RefusedForgets(c) ==
  /\ call[c].pc = "refused"
  /\ IF call[c].kind = "delegate" THEN Goto(c, "cleanup") ELSE Return(c)
  /\ UNCHANGED <<manager, turn, runtime, governor, ledger, faults>>

\* startTurn after a refusal: the agent fails with a result that names no turn.
Refused(c) ==
  LET a == call[c].agent IN
  /\ call[c].pc = "refused"
  /\ IF status[a] # "closed" /\ CanTransition(status[a], "failed")
     THEN EndWith(a, "failed", NoTurn, 0)
     ELSE UNCHANGED manager
  /\ IF call[c].kind = "delegate" THEN Goto(c, "cleanup") ELSE Return(c)
  /\ UNCHANGED <<turn, runtime, governor, ledger, faults>>

\* Delegate closes a child whose first turn was not accepted.
Cleanup(c) ==
  /\ call[c].pc = "cleanup"
  /\ Close(call[c].agent)
  /\ Return(c)
  /\ UNCHANGED <<turn, runtime, governor, ledger, faults>>

\* The transition a call is about to write.
Wanted(c) ==
  CASE call[c].pc = "takeover"  -> "starting"
    [] call[c].pc = "accepted"  -> "running"
    [] call[c].pc = "refused"   -> "failed"
    [] call[c].pc = "interrupt" -> "interrupted"
    [] OTHER -> IF Occupies(call[c].agent) THEN "interrupted" ELSE "closed"

\* The database refuses the transition: the agent stays as it was and the call returns an
\* error, after which Delegate closes its child.
TransitionFails(c) ==
  /\ call[c].pc \in {"takeover", "accepted", "refused", "cleanup", "interrupt"}
  /\ CanTransition(status[call[c].agent], Wanted(c)) /\ Fault
  /\ IF call[c].pc \in {"takeover", "accepted", "refused"} /\ call[c].kind = "delegate"
     THEN Goto(c, "cleanup") ELSE Return(c)
  /\ UNCHANGED <<manager, turn, runtime, governor, ledger>>

\* The same for the second transition of Close: the agent is interrupted and not closed.
\* (For close_agent this is what Interrupt and Interrupted do.)
CloseFails(c) ==
  /\ call[c].pc = "cleanup" /\ Occupies(call[c].agent) /\ Fault
  /\ End(call[c].agent, "interrupted", NoTurn)
  /\ Return(c)
  /\ UNCHANGED <<result, spent, turn, runtime, governor, ledger>>

-----------------------------------------------------------------------------
(* The application runtime, as the child runtime sees it.                  *)

\* A worker opens the facts of an accepted turn.
TurnOpens(t) ==
  /\ turn[t].state = "accepted"
  /\ turn' = [turn EXCEPT ![t].state = "active"]
  /\ UNCHANGED <<manager, runtime, governor, ledger, call, faults>>

\* The terminal event of a turn is committed: how it ended and what it used.  A turn that
\* was never opened has failed.  The event is not observed yet.
TurnEnds(t) ==
  /\ turn[t].state \in {"accepted", "active"}
  /\ \E o \in Outcomes \cup {<<"failed", 0>>} :
       /\ turn[t].state = "accepted" => o = <<"failed", 0>>
       /\ turn' = [turn EXCEPT ![t].state = "ended", ![t].status = o[1], ![t].used = o[2]]
  /\ UNCHANGED <<manager, runtime, governor, ledger, call, faults>>

\* Or its start is rejected.
TurnRejected(t) ==
  /\ turn[t].state \in {"accepted", "active"}
  /\ turn' = [turn EXCEPT ![t].state = "rejected", ![t].status = "failed"]
  /\ UNCHANGED <<manager, runtime, governor, ledger, call, faults>>

\* Or the rejection cannot be written: the row stays active and no worker serves it.
RejectionLost(t) ==
  /\ turn[t].state \in {"accepted", "active"} /\ Fault
  /\ turn' = [turn EXCEPT ![t].state = IF @ = "accepted" THEN "stranded" ELSE "halted"]
  /\ UNCHANGED <<manager, runtime, governor, ledger, call>>

-----------------------------------------------------------------------------
(* Observation and settlement.                                             *)

\* A child asks for an approval and gets an answer.
AwaitApproval(a) ==
  /\ status[a] = "running" /\ turns[a].id # NoTurn
  /\ turn[turns[a].id].state = "active"
  /\ status' = [status EXCEPT ![a] = "waiting"]
  /\ UNCHANGED <<turnID, result, limit, spent, active, kept, own, held, turn, runtime, governor,
                 ledger, call, faults>>
ResumeApproval(a) ==
  /\ status[a] = "waiting"
  /\ status' = [status EXCEPT ![a] = "running"]
  /\ UNCHANGED <<turnID, result, limit, spent, active, kept, own, held, turn, runtime, governor,
                 ledger, call, faults>>

\* Mutant: a rejection never settles a turn.
ObserveDeaf(t) ==
  LET a == turn[t].agent
      used == turn[t].used
      ends == IF SettleFails(a, t, used) THEN "failed" ELSE turn[t].status IN
  /\ turn[t].state \in {"ended", "rejected"}
  /\ turn' = [turn EXCEPT ![t].state = "observed", ![t].status = "none"]
  /\ IF turns[a].id = t /\ turn[t].state = "ended"
     THEN /\ flight' = IF turns[a].leased THEN flight - 1 ELSE flight
          /\ govSpent' = govSpent + used
          /\ SettleBudget(a, t, used)
          /\ turns' = [turns EXCEPT ![a] = NoChild]
          /\ jobs' = jobs \cup {[agent |-> a, turn |-> t, status |-> ends, used |-> used]}
     ELSE UNCHANGED <<governor, ledger, turns, jobs>>
  /\ UNCHANGED <<manager, settlementErrors, call, faults>>

\* observe: the terminal event of the tracked turn returns its lease, charges the pot,
\* settles its reservation and hands the result to a settler; others are ignored.  So is
\* the rejection of a recovered turn, which does not know the operation that started it.
Observe(t) ==
  LET a == turn[t].agent
      used == turn[t].used
      ends == IF SettleFails(a, t, used) THEN "failed" ELSE turn[t].status IN
  /\ turn[t].state \in {"ended", "rejected"}
  /\ turn' = [turn EXCEPT ![t].state = "observed", ![t].status = "none"]
  /\ IF turns[a].id = t /\ (turn[t].state = "ended" \/ turns[a].leased)
     THEN /\ flight' = IF turns[a].leased THEN flight - 1 ELSE flight
          /\ govSpent' = govSpent + used
          /\ SettleBudget(a, t, used)
          /\ turns' = [turns EXCEPT ![a] = NoChild]
          /\ jobs' = jobs \cup {[agent |-> a, turn |-> t, status |-> ends, used |-> used]}
     ELSE UNCHANGED <<governor, ledger, turns, jobs>>
  /\ UNCHANGED <<manager, settlementErrors, call, faults>>

\* Manager.Settle of a job: the same result twice is accepted, a closed agent and an
\* impossible transition are errors.
Repeated(j) == result[j.agent] = j.turn /\ status[j.agent] = j.status
Settles(j) == Repeated(j) \/ CanTransition(status[j.agent], j.status)

\* Mutant: a committed settlement is attempted again.
SettleAgain(j) ==
  /\ j \in jobs
  /\ IF Settles(j)
     THEN /\ IF Repeated(j) THEN UNCHANGED manager
             ELSE EndWith(j.agent, j.status, j.turn, j.used)
          /\ settlementErrors' = settlementErrors \ {j.turn}
     ELSE /\ settlementErrors' = settlementErrors \cup {j.turn}
          /\ UNCHANGED manager
  /\ UNCHANGED <<turn, turns, jobs, governor, ledger, call, faults>>

\* An attempt of settleChild: it commits and clears the error, or the error is kept
\* and the attempt repeated.
Settle(j) ==
  /\ j \in jobs
  /\ IF Settles(j)
     THEN /\ IF Repeated(j) THEN UNCHANGED manager
             ELSE EndWith(j.agent, j.status, j.turn, j.used)
          /\ jobs' = jobs \ {j}
          /\ settlementErrors' = settlementErrors \ {j.turn}
     ELSE /\ settlementErrors' = settlementErrors \cup {j.turn}
          /\ UNCHANGED <<manager, jobs>>
  /\ UNCHANGED <<turn, turns, governor, ledger, call, faults>>

\* The database refuses an attempt.
SettleRefused(j) ==
  /\ j \in jobs /\ Fault
  /\ settlementErrors' = settlementErrors \cup {j.turn}
  /\ UNCHANGED <<manager, turn, turns, jobs, governor, ledger, call>>

-----------------------------------------------------------------------------
(* interrupt_agent and close_agent.                                        *)

\* Interrupt reads the agent's turn and submits its cancellation.
Interrupt(c, a) ==
  /\ call[c].pc = "idle" /\ status[a] \notin {"none", "closed"}
  /\ Fault
  /\ call' = [call EXCEPT ![c] = [pc |-> "interrupt", agent |-> a, turn |-> turnID[a],
                                  kind |-> "control"]]
  /\ UNCHANGED <<manager, turn, runtime, governor, ledger>>

\* Then it marks the agent interrupted, with no result, unless the cancellation is refused.
Interrupted(c) ==
  LET a == call[c].agent IN
  /\ call[c].pc = "interrupt"
  /\ \/ /\ CanTransition(status[a], "interrupted")
        /\ End(a, "interrupted", call[c].turn)
        /\ UNCHANGED <<result, spent>>
     \/ /\ CanTransition(status[a], "interrupted") => call[c].turn # NoTurn
        /\ UNCHANGED manager
  /\ Return(c)
  /\ UNCHANGED <<turn, runtime, governor, ledger, faults>>

\* close_agent closes the agent, then releases its thread.
CloseAgent(c, a) ==
  /\ call[c].pc = "idle" /\ status[a] \notin {"none", "closed"}
  /\ Fault
  /\ Close(a)
  /\ call' = [call EXCEPT ![c] = [pc |-> "release", agent |-> a, turn |-> NoTurn,
                                  kind |-> "control"]]
  /\ UNCHANGED <<turn, runtime, governor, ledger>>

\* release leaves the thread to a tracked turn, which it cancels.
Release(c) ==
  /\ call[c].pc = "release"
  /\ IF turns[call[c].agent].id = NoTurn THEN Goto(c, "releaseThread") ELSE Return(c)
  /\ UNCHANGED <<manager, turn, runtime, governor, ledger, faults>>

\* releaseThread drops the thread, and with it a turn tracked since release looked.
ReleaseThread(c) ==
  LET a == call[c].agent IN
  /\ call[c].pc = "releaseThread"
  /\ flight' = IF turns[a].leased THEN flight - 1 ELSE flight
  /\ turns' = [turns EXCEPT ![a] = NoChild]
  /\ Return(c)
  /\ UNCHANGED <<manager, turn, jobs, settlementErrors, govSpent, ledger, faults>>

-----------------------------------------------------------------------------
(* A restart: the process stops anywhere; the graph is reconciled with the *)
(* turns, the manager is filled from it and active children are observed   *)
(* again.  A turn with facts is resumed; one without facts keeps its       *)
(* active row and is not.                                                  *)

Submitted(a) == {t \in Turns : turn[t].agent = a /\ turn[t].state \notin {"none", "named"}}
Latest(a) == {t \in Submitted(a) : \A u \in Submitted(a) : u <= t}
LatestTurn(a) == IF Latest(a) = {} THEN NoTurn ELSE CHOOSE t \in Latest(a) : TRUE
Rebound(a) == \E t \in Latest(a) : turn[t].state \in Live

\* PlanAgentReconciliation: an unfinished agent is running if its latest turn is active
\* and failed otherwise.
Unfinished == {a \in Agents : status[a] \in Slotted \cup {"requested"}}
ReconciledStatus(a) ==
  IF a \notin Unfinished THEN status[a]
  ELSE IF ~Rebound(a) THEN "failed"
  ELSE IF status[a] \in {"requested", "starting"} THEN "running" ELSE status[a]
Lost == {a \in Unfinished : ~Rebound(a)}

AfterRestart(r) ==
  CASE r.state \in {"ended", "rejected"} -> [r EXCEPT !.state = "observed", !.status = "none"]
    [] r.state = "accepted" -> [r EXCEPT !.state = "stranded"]
    [] r.state = "halted"   -> [r EXCEPT !.state = "active"]
    [] OTHER -> r

Restart ==
  /\ Fault
  /\ status' = [a \in Agents |-> ReconciledStatus(a)]
  /\ turnID' = [a \in Agents |->
                  IF a \in Unfinished /\ status'[a] # status[a] /\ LatestTurn(a) # NoTurn
                  THEN LatestTurn(a) ELSE turnID[a]]
  /\ result' = [a \in Agents |-> IF a \in Lost THEN LatestTurn(a) ELSE result[a]]
  /\ active' = active - Cardinality({a \in Lost : Occupies(a)})
                + Cardinality({a \in Unfinished \ Lost : ~Occupies(a)})
  /\ own' = [a \in Agents |-> 0]
  /\ held' = Sum(kept)
  /\ turn' = [t \in Turns |-> AfterRestart(turn[t])]
  /\ turns' = [a \in Agents |-> IF status'[a] \in Slotted
                                THEN [id |-> turnID'[a], leased |-> FALSE] ELSE NoChild]
  /\ jobs' = {} /\ settlementErrors' = {}
  /\ flight' = 0 /\ govSpent' = 0
  /\ account' = [s \in Scopes |-> [reserved |-> 0, slots |-> 0, spent |-> 0]]
  /\ reservation' = [t \in Turns |-> [amount |-> 0, state |-> "none"]]
  /\ call' = [c \in Callers |-> Idle]
  /\ UNCHANGED <<limit, spent, kept>>

-----------------------------------------------------------------------------
Init ==
  /\ status = [a \in Agents |-> "none"]
  /\ turnID = [a \in Agents |-> NoTurn] /\ result = [a \in Agents |-> NoTurn]
  /\ limit = [a \in Agents |-> 0] /\ spent = [a \in Agents |-> 0]
  /\ active = 0 /\ kept = [a \in Agents |-> 0]
  /\ own = [a \in Agents |-> 0] /\ held = 0
  /\ turn = [t \in Turns |-> Unused]
  /\ turns = [a \in Agents |-> NoChild] /\ jobs = {} /\ settlementErrors = {}
  /\ flight = 0 /\ govSpent = 0
  /\ account = [s \in Scopes |-> [reserved |-> 0, slots |-> 0, spent |-> 0]]
  /\ reservation = [t \in Turns |-> [amount |-> 0, state |-> "none"]]
  /\ call = [c \in Callers |-> Idle]
  /\ faults = 0

CallStep(c) ==
  \/ Takeover(c) \/ Check(c) \/ Admit(c) \/ Reserve(c) \/ Activate(c) \/ Track(c)
  \/ Submit(c) \/ Accepted(c) \/ Refused(c) \/ Cleanup(c)
  \/ Interrupted(c) \/ Release(c) \/ ReleaseThread(c)
  \/ TransitionFails(c) \/ CloseFails(c)
TurnStep(t) == TurnOpens(t) \/ TurnEnds(t) \/ TurnRejected(t) \/ RejectionLost(t) \/ Observe(t)
Request(c, a) == Spawn(c, a) \/ FollowUp(c, a) \/ Interrupt(c, a) \/ CloseAgent(c, a)

Next ==
  \/ \E c \in Callers, a \in Agents : Request(c, a)
  \/ \E c \in Callers : CallStep(c)
  \/ \E t \in Turns : TurnStep(t)
  \/ \E a \in Agents : AwaitApproval(a) \/ ResumeApproval(a)
  \/ \E j \in jobs : Settle(j) \/ SettleRefused(j)
  \/ Restart

\* Calls run to their end; a turn that a worker serves opens, ends or is rejected and its
\* event is observed; settlements are attempted again until they commit.
Fairness ==
  /\ \A c \in Callers : WF_vars(CallStep(c))
  /\ \A t \in Turns : WF_vars(TurnStep(t))
  /\ \A t \in Turns : WF_vars(\E j \in jobs : j.turn = t /\ Settle(j))

Spec == Init /\ [][Next]_vars /\ Fairness

-----------------------------------------------------------------------------
(* Properties.                                                             *)

Holding == {c \in Callers : call[c].pc \in {"reserve", "activate", "track"}}
Leased == {a \in Agents : turns[a].leased}
Closed == {a \in Agents : status[a] = "closed"}
Active == {t \in Turns : reservation[t].state = "active"}

\* The governor's flights are the leases that StartTurn calls and tracked turns hold, so
\* no capacity is lost by a refusal, a failed submission, a close or a settlement.  A
\* close_agent that races StartTurn may return a lease twice, once for each closed agent.
FlightExact ==
  LET leases == Cardinality(Holding) + Cardinality(Leased) IN
  /\ flight <= leases
  /\ leases <= flight + Cardinality(Closed)

\* A scope reserves exactly what the active reservations below it do, so that Settle and
\* Refund never underflow half-way up the path and leave scopes below it updated.
LedgerExact ==
  \A s \in Scopes :
    LET live == {t \in Active : s \in Path(turn[t].agent)} IN
    /\ account[s].slots = Cardinality(live)
    /\ account[s].reserved = Sum([t \in live |-> reservation[t].amount])

\* A budget reservation of an agent that is not closed has an owner that will settle or
\* refund it: the tracked turn, or the call that is about to track it.
NoLeak ==
  \A t \in Active :
    \/ turns[turn[t].agent].id = t
    \/ \E c \in Callers : call[c].turn = t /\ call[c].pc \in {"activate", "track"}
    \/ turn[t].agent \in Closed

\* The manager's count of active agents is the number of agents that occupy a slot, also
\* after a restart has reconciled and hydrated the graph, and never exceeds the limit.
SlotsExact ==
  /\ active = Cardinality({a \in Agents : Occupies(a)})
  /\ active <= MaxParallel

\* What a turn was charged with beyond its reservation.
Overrun(t) ==
  IF reservation[t].state = "done" /\ turn[t].used > reservation[t].amount
  THEN turn[t].used - reservation[t].amount ELSE 0

\* The turns of one process spend and reserve no more than the budget of the tree, except
\* for what single turns overrun their own reservation by, whatever agents were promised
\* and although an interrupted agent gives its share back while its turn still runs.
TreeBudget ==
  account[Tree].spent + account[Tree].reserved
    <= MaxTokens + Sum([t \in Turns |-> Overrun(t)])

\* An agent is never charged more than its turns used: retried settlements, restarts
\* and follow-ups charge a turn once.
ChargedOnce ==
  \A a \in Agents :
    spent[a] + Sum([j \in {k \in jobs : k.agent = a} |-> j.used])
      <= Sum([t \in {u \in Turns : turn[u].agent = a} |-> turn[t].used])

\* The record of a leased turn is never replaced by another leased turn of its agent, which
\* would lose its lease, its reservation and its terminal event.
NotOverwritten ==
  [][\A a \in Agents : turns[a].leased /\ turns'[a].leased => turns'[a].id = turns[a].id]_vars

\* The tracked turn brings no event any more: no worker serves it, or it was recovered and
\* is over, rejected before it was observed or an older one than the agent's latest.
Stranded(a) ==
  /\ turns[a].id # NoTurn
  /\ \/ turn[turns[a].id].state \in {"stranded", "halted"}
     \/ turn[turns[a].id].state = "observed" /\ ~turns[a].leased

\* Nothing will end the turn of an agent that occupies a slot: no call is starting one,
\* none is tracked and no settlement is pending.
Abandoned(a) ==
  /\ Occupies(a) /\ turns[a].id = NoTurn
  /\ \A j \in jobs : j.agent # a
  /\ \A c \in Callers : call[c].agent = a => call[c].pc = "accepted" \/ call[c].kind = "control"

\* An agent is abandoned in its slot only if the database refuses the transition that would
\* have ended it after a refused start: not by a race of start, observation, settlement,
\* interrupt, close and restart.
NotAbandoned ==
  [][\A a \in Agents : Abandoned(a)' =>
        \/ Abandoned(a)
        \/ \E c \in Callers : call[c].agent = a /\ call[c].pc \in {"refused", "cleanup"}
                             /\ TransitionFails(c)]_vars

\* wait_agent returns: an agent that occupies a slot leaves it, through refusals, failed
\* settlements, interrupts and restarts, unless its turn brings no event any more or the
\* agent was abandoned.
WaitReturns == \A a \in Agents : Occupies(a) ~> (~Occupies(a) \/ Stranded(a) \/ Abandoned(a))

\* A settlement that failed is recovered, as "child settlement recovery is pending", which
\* StartTurn returns as a retryable problem, promises the callers it refuses.
SettlementRecovers == \A t \in Turns : t \in settlementErrors ~> t \notin settlementErrors
=============================================================================
