------------------------- MODULE OperationContract -------------------------
(***************************************************************************)
(* What the application runtime promises its callers about the operations  *)
(* of one thread, whatever crashes, failed publications, withdrawals and   *)
(* shutdowns happen: a turn is accepted only when every turn accepted      *)
(* before it has an outcome in the event log, an operation is committed    *)
(* once, a start is committed only together with a durable promise of how  *)
(* its turn ended or after a rejection was logged, and the first outcome   *)
(* the log tells of a turn stays.                                          *)
(***************************************************************************)
CONSTANTS Ops, Turns, Ends, None

VARIABLES
  status,    \* "none", "accepted" or "committed" for each operation
  promise,   \* the terminal envelope of each turn
  outcome    \* the first outcome the log tells of each turn

vars == <<status, promise, outcome>>

Start(t) == [kind |-> "start", of |-> t]

Init ==
  /\ status = [o \in Ops |-> "none"]
  /\ promise = [t \in Turns |-> None]
  /\ outcome = [t \in Turns |-> None]

Accept(o) ==
  /\ status[o] = "none"
  /\ o.kind = "start" => \A t \in Turns : status[Start(t)] = "none" \/ outcome[t] # None
  /\ status' = [status EXCEPT ![o] = "accepted"]
  /\ UNCHANGED <<promise, outcome>>

\* The operation is committed in the transaction that stores the envelope.
Promise(t, e) ==
  /\ status[Start(t)] = "accepted" /\ promise[t] = None /\ outcome[t] = None
  /\ promise' = [promise EXCEPT ![t] = e]
  /\ status' = [status EXCEPT ![Start(t)] = "committed"]
  /\ UNCHANGED outcome

Tell(t) ==
  /\ promise[t] # None /\ outcome[t] = None
  /\ outcome' = [outcome EXCEPT ![t] = promise[t]]
  /\ UNCHANGED <<status, promise>>

\* A rejection is logged; the commit comes with it or after a restart.
Reject(t) ==
  /\ status[Start(t)] # "none" /\ outcome[t] = None
  /\ outcome' = [outcome EXCEPT ![t] = "rejected"]
  /\ status' \in {status, [status EXCEPT ![Start(t)] = "committed"]}
  /\ UNCHANGED promise

\* Operations are committed; starts among them have an outcome.
Settle(S) ==
  /\ S # {} /\ \A o \in S : /\ status[o] = "accepted"
                            /\ o.kind = "start" => outcome[o.of] # None
  /\ status' = [o \in Ops |-> IF o \in S THEN "committed" ELSE status[o]]
  /\ UNCHANGED <<promise, outcome>>

Next ==
  \/ \E o \in Ops : Accept(o)
  \/ \E t \in Turns : Tell(t) \/ Reject(t) \/ \E e \in Ends : Promise(t, e)
  \/ \E S \in SUBSET Ops : Settle(S)

Spec == Init /\ [][Next]_vars
=============================================================================
