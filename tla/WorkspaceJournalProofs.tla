----------------------- MODULE WorkspaceJournalProofs -----------------------
(***************************************************************************)
(* Proofs about the edit-transaction journal, for any files, turns,        *)
(* contents, bounds and number of crashes.                                 *)
(*                                                                         *)
(* Everything follows from one inductive invariant, JournalInv.  Its parts *)
(* say how the three copies of a change agree: the workspace (Left), the   *)
(* journal in memory (InMemory, Synced) and the ledger (OnDisk, Original), *)
(* at most one turn being able to write with the records it has (OneLive). *)
(* They agree on the changes the ledger was told (Told), except for the    *)
(* paths a transaction has written and not recorded yet (Settling); of the *)
(* others, torn writes and failed appends, a record with the before-image  *)
(* is kept as long as the turn has an entry (Backed), unless a second      *)
(* Begin replaced it (Mine).  For crashes during recovery the invariant    *)
(* says what the ledger that is about to be written keeps of the present   *)
(* one (Keeping, KeepsChanges, LostOnly), and why a draft never seems to   *)
(* belong to a living process (Owners).                                    *)
(*                                                                         *)
(* The layout: Selected; which actions change which variable; the          *)
(* invariant; what each action does, one lemma per action; the             *)
(* preservation of each part, one lemma per part; the theorems.            *)
(***************************************************************************)
EXTENDS WorkspaceJournal, TLAPS, WellFoundedInduction, FiniteSetTheorems

USE DEF history

(* Selected.                                                               *)

\* Induction over the natural numbers, for a set.
LEMMA NatSetInduction ==
  ASSUME NEW X, 0 \in X, \A n \in Nat : n \in X => n + 1 \in X
  PROVE  Nat \subseteq X
<1> SUFFICES ASSUME Nat \ X # {} PROVE FALSE
  OBVIOUS
<1>1. PICK m \in Nat \ X : \A y \in Nat \ X : ~(<<y, m>> \in OpToRel(<, Nat))
  BY NatLessThanWellFounded, WFMin
<1>2. \A y \in Nat : y < m => y \in X
  BY <1>1 DEF OpToRel
<1>3. m \in Nat /\ m \notin X
  OBVIOUS
<1>4. m # 0 /\ m - 1 \in Nat /\ m - 1 < m
  BY <1>3
<1>5. m - 1 \in X
  BY <1>2, <1>4
<1>6. (m - 1) + 1 \in X
  BY <1>4, <1>5
<1>7. (m - 1) + 1 = m
  BY <1>3
<1> QED BY <1>3, <1>6, <1>7

\* The parts Selected puts together, for the prefixes of a sequence.
Piece(g, s, set, i) ==
  IF i = 0 THEN <<>> ELSE IF s[i] \in set THEN Append(g[i-1], s[i]) ELSE g[i-1]
IsPart(g, s, set) == g = [i \in 0..Len(s) |-> Piece(g, s, set, i)]

\* The parts exist.
LEMMA PartExists ==
  ASSUME NEW T, NEW s \in Seq(T), NEW set
  PROVE  \E g : IsPart(g, s, set)
<1> DEFINE X == {n \in Nat : \E g : g = [i \in 0..n |-> Piece(g, s, set, i)]}
<1>1. 0 \in X
  <2> DEFINE g == [i \in 0..0 |-> <<>>]
  <2>1. g = [i \in 0..0 |-> Piece(g, s, set, i)]
    BY DEF Piece
  <2> QED BY <2>1
<1>2. ASSUME NEW n \in Nat, n \in X PROVE n + 1 \in X
  <2>1. PICK g : g = [i \in 0..n |-> Piece(g, s, set, i)]
    BY <1>2
  <2> DEFINE h == [i \in 0..(n + 1) |-> Piece(g, s, set, i)]
  <2>2. ASSUME NEW i \in 0..(n + 1) PROVE i # 0 => i - 1 \in 0..n /\ h[i - 1] = g[i - 1]
    <3>1. i # 0 => i - 1 \in 0..n /\ i - 1 \in 0..(n + 1)
      OBVIOUS
    <3>2. i # 0 => g[i - 1] = Piece(g, s, set, i - 1)
      BY <2>1, <3>1
    <3> QED BY <3>1, <3>2
  <2>3. \A i \in 0..(n + 1) : Piece(g, s, set, i) = Piece(h, s, set, i)
    BY <2>2 DEF Piece
  <2>4. h = [i \in 0..(n + 1) |-> Piece(h, s, set, i)]
    BY <2>3
  <2> HIDE DEF h
  <2>5. \E k : k = [i \in 0..(n + 1) |-> Piece(k, s, set, i)]
    BY <2>4, Zenon
  <2> QED BY <2>5
<1>3. Nat \subseteq X
  BY <1>1, <1>2, NatSetInduction
<1>4. Len(s) \in X
  BY <1>3
<1> QED BY <1>4 DEF IsPart

\* Every outstanding turn has one place.
Listed(s, set) ==
  /\ s \in Seq(Turns)
  /\ \A i, j \in 1..Len(s) : s[i] = s[j] => i = j
  /\ {s[i] : i \in 1..Len(s)} = set

\* Selected keeps the turns of the set, once each.
LEMMA SelectedListed ==
  ASSUME NEW s, NEW all, Listed(s, all), NEW set
  PROVE  Listed(Selected(s, set), all \cap set)
<1>1. s \in Seq(Turns) /\ Len(s) \in Nat
  BY DEF Listed
<1>2. PICK g : IsPart(g, s, set) /\ Selected(s, set) = g[Len(s)]
  <2>1. Selected(s, set) = (CHOOSE g : IsPart(g, s, set))[Len(s)]
    BY DEF Selected, IsPart, Piece
  <2>2. IsPart(CHOOSE g : IsPart(g, s, set), s, set)
    BY <1>1, PartExists
  <2> QED BY <2>1, <2>2
<1> DEFINE P(n) == /\ g[n] \in Seq(Turns)
                   /\ \A i \in 1..Len(g[n]) : \E k \in 1..n : g[n][i] = s[k] /\ s[k] \in set
                   /\ \A k \in 1..n : s[k] \in set => \E i \in 1..Len(g[n]) : g[n][i] = s[k]
                   /\ \A i, j \in 1..Len(g[n]) : g[n][i] = g[n][j] => i = j
           X == {n \in Nat : n <= Len(s) => P(n)}
<1>3. 0 \in X
  <2>1. g[0] = <<>>
    BY <1>1, <1>2 DEF IsPart, Piece
  <2>2. /\ <<>> \in Seq(Turns) /\ \A k \in 1..0 : FALSE
        /\ \A i \in 1..Len(<<>>) : FALSE
    OBVIOUS
  <2>3. P(0)
    BY <2>1, <2>2
  <2> HIDE DEF P
  <2> QED BY <2>3
<1>4. ASSUME NEW n \in Nat, n \in X PROVE n + 1 \in X
  <2> SUFFICES ASSUME n + 1 <= Len(s) PROVE P(n + 1)
    OBVIOUS
  <2>1. P(n) /\ n + 1 \in 1..Len(s) /\ n + 1 \in 0..Len(s) /\ n + 1 # 0 /\ (n + 1) - 1 = n
    BY <1>1, <1>4
  <2>2. s[n + 1] \in Turns
    BY <1>1, <2>1
  <2>3. g[n + 1] = IF s[n + 1] \in set THEN Append(g[n], s[n + 1]) ELSE g[n]
    <3>1. g[n + 1] = Piece(g, s, set, n + 1)
      BY <1>2, <2>1 DEF IsPart
    <3> QED BY <3>1, <2>1 DEF Piece
  <2>4. CASE s[n + 1] \notin set
    <3>1. g[n + 1] = g[n]
      BY <2>3, <2>4
    <3>2. \A k \in 1..(n + 1) : k \in 1..n \/ k = n + 1
      OBVIOUS
    <3>3. \A k \in 1..n : k \in 1..(n + 1)
      OBVIOUS
    <3> HIDE DEF X
    <3> QED BY <2>1, <2>4, <3>1, <3>2, <3>3
  <2>5. CASE s[n + 1] \in set
    <3> DEFINE a == g[n] b == g[n + 1]
    <3>1. b = Append(a, s[n + 1]) /\ a \in Seq(Turns)
      BY <2>1, <2>3, <2>5
    <3>2. /\ b \in Seq(Turns) /\ Len(b) = Len(a) + 1 /\ b[Len(a) + 1] = s[n + 1] /\ Len(a) \in Nat
          /\ \A i \in 1..Len(a) : b[i] = a[i]
      BY <2>2, <3>1
    <3>3. \A i \in 1..Len(b) : i \in 1..Len(a) \/ i = Len(a) + 1
      BY <3>2
    <3>4. \A i \in 1..Len(a) : i \in 1..Len(b) /\ i # Len(a) + 1
      BY <3>2
    <3>5. Len(a) + 1 \in 1..Len(b)
      BY <3>2
    <3>6. \A k \in 1..(n + 1) : k \in 1..n \/ k = n + 1
      OBVIOUS
    <3>7. \A k \in 1..n : k \in 1..(n + 1) /\ k \in 1..Len(s) /\ k # n + 1
      BY <1>1, <2>1
    <3>8. \A i \in 1..Len(a) : \E k \in 1..n : a[i] = s[k] /\ s[k] \in set
      BY <2>1
    <3>9. \A i \in 1..Len(a) : a[i] # s[n + 1]
      BY <2>1, <3>7, <3>8 DEF Listed
    <3>10. \A k \in 1..n : s[k] \in set => \E i \in 1..Len(a) : a[i] = s[k]
      BY <2>1
    <3>11. \A i, j \in 1..Len(a) : a[i] = a[j] => i = j
      BY <2>1
    <3>12. n + 1 \in 1..(n + 1)
      OBVIOUS
    <3> HIDE DEF a, b, X
    <3>13. \A i \in 1..Len(b) : \E k \in 1..(n + 1) : b[i] = s[k] /\ s[k] \in set
      BY <2>5, <3>2, <3>3, <3>7, <3>8, <3>12
    <3>14. \A k \in 1..(n + 1) : s[k] \in set => \E i \in 1..Len(b) : b[i] = s[k]
      BY <3>2, <3>4, <3>5, <3>6, <3>10
    <3>15. \A i, j \in 1..Len(b) : b[i] = b[j] => i = j
      BY <3>2, <3>3, <3>9, <3>11
    <3> QED BY <3>2, <3>13, <3>14, <3>15 DEF b
  <2> QED BY <2>4, <2>5
<1>5. Nat \subseteq X
  BY <1>3, <1>4, NatSetInduction
<1>6. P(Len(s))
  <2> HIDE DEF P
  <2>1. Len(s) \in X
    BY <1>1, <1>5
  <2> QED BY <1>1, <2>1
<1> DEFINE q == g[Len(s)]
<1>7. {q[i] : i \in 1..Len(q)} = all \cap set
  <2>1. {s[k] : k \in 1..Len(s)} = all
    BY DEF Listed
  <2> HIDE DEF X
  <2>2. \A i \in 1..Len(q) : q[i] \in all \cap set
    BY <1>6, <2>1
  <2>3. \A t \in all \cap set : \E i \in 1..Len(q) : q[i] = t
    <3> TAKE t \in all \cap set
    <3>1. PICK k \in 1..Len(s) : s[k] = t
      BY <2>1
    <3> QED BY <1>6, <3>1
  <2> HIDE DEF q
  <2> QED BY <2>2, <2>3
<1>8. Listed(q, all \cap set)
  <2> HIDE DEF X
  <2> QED BY <1>6, <1>7 DEF Listed
<1> QED BY <1>2, <1>8

\* A turn that is appended takes the last place.
LEMMA AppendListed ==
  ASSUME NEW s, NEW all, Listed(s, all), NEW t \in Turns \ all
  PROVE  Listed(Append(s, t), all \cup {t})
<1> DEFINE b == Append(s, t)
<1>1. s \in Seq(Turns) /\ Len(s) \in Nat /\ {s[i] : i \in 1..Len(s)} = all
  BY DEF Listed
<1>2. /\ b \in Seq(Turns) /\ Len(b) = Len(s) + 1 /\ b[Len(s) + 1] = t
      /\ \A i \in 1..Len(s) : b[i] = s[i]
  BY <1>1
<1>3. \A i \in 1..Len(b) : i \in 1..Len(s) \/ i = Len(s) + 1
  BY <1>1, <1>2
<1>4. \A i \in 1..Len(s) : i \in 1..Len(b) /\ s[i] \in all
  BY <1>1, <1>2
<1>5. Len(s) + 1 \in 1..Len(b)
  BY <1>1, <1>2
<1>6. \A i, j \in 1..Len(s) : s[i] = s[j] => i = j
  BY DEF Listed
<1> HIDE DEF b
<1>7. \A i, j \in 1..Len(b) : b[i] = b[j] => i = j
  BY <1>2, <1>3, <1>4, <1>6
<1>8. {b[i] : i \in 1..Len(b)} = all \cup {t}
  <2>1. \A i \in 1..Len(b) : b[i] \in all \cup {t}
    BY <1>2, <1>3, <1>4
  <2>2. \A u \in all : \E i \in 1..Len(b) : b[i] = u
    BY <1>1, <1>2, <1>4
  <2>3. \E i \in 1..Len(b) : b[i] = t
    BY <1>2, <1>5
  <2> QED BY <2>1, <2>2, <2>3
<1> QED BY <1>2, <1>7, <1>8 DEF Listed, b

\* A turn takes the place of another one.
LEMMA ReplaceListed ==
  ASSUME NEW s, NEW all, Listed(s, all), NEW u \in all, NEW t \in Turns \ all
  PROVE  Listed(ReplaceAll(s, u, t), (all \ {u}) \cup {t})
<1> DEFINE b == ReplaceAll(s, u, t)
<1>1. s \in Seq(Turns) /\ Len(s) \in Nat /\ {s[i] : i \in 1..Len(s)} = all
  BY DEF Listed
<1>2. b = [i \in 1..Len(s) |-> IF s[i] = u THEN t ELSE s[i]]
  BY DEF ReplaceAll
<1>3. b \in Seq(Turns) /\ Len(b) = Len(s)
  BY <1>1, <1>2
<1>4. \A i \in 1..Len(s) : b[i] = (IF s[i] = u THEN t ELSE s[i]) /\ s[i] \in all
  BY <1>1, <1>2
<1>5. \A i, j \in 1..Len(s) : s[i] = s[j] => i = j
  BY DEF Listed
<1> HIDE DEF b
<1>6. \A i, j \in 1..Len(b) : b[i] = b[j] => i = j
  BY <1>3, <1>4, <1>5
<1>7. {b[i] : i \in 1..Len(b)} = (all \ {u}) \cup {t}
  <2>1. \A i \in 1..Len(b) : b[i] \in (all \ {u}) \cup {t}
    BY <1>3, <1>4
  <2>2. \A v \in all : \E i \in 1..Len(s) : s[i] = v
    BY <1>1
  <2>3. \A v \in (all \ {u}) \cup {t} : \E i \in 1..Len(b) : b[i] = v
    BY <1>3, <1>4, <2>2
  <2> QED BY <2>1, <2>3
<1> QED BY <1>3, <1>6, <1>7 DEF Listed, b

-----------------------------------------------------------------------------
(* Which actions change which variables.                                   *)

\* Actions that may change the files.
LEMMA FileFrame ==
  [Next]_vars =>
     \/ UNCHANGED file
     \/ \E f \in Files : Restore(f) \/ Apply(f) \/ UndoWrite(f)
     \/ \E f \in Files, data \in UserData : Edit(f, data)
BY DEF Next, TurnStep, RestoreStep, BrokerStep, ProcessStep, UserStep, Begin, ResumeDraft,
     Commit, Suspend, KeepDraft, Rollback, Revert, Conflict, RollbackDone, RevertDone,
     RevertSettled, Plan, Prepare, Canceled, Record, Amend, Open, RecoverDrop, RecoverSkip,
     RecoverDraft, RecoverTurn, RecoverDone, RecoverCompact, Close, Closed, Crash, vars

\* Actions that may change the ledger.
LEMMA LedgerFrame ==
  [Next]_vars =>
     \/ UNCHANGED <<ledger, order>>
     \/ \E t \in Turns : Begin(t) \/ Commit(t) \/ Suspend(t) \/ KeepDraft(t)
     \/ \E t, r \in Turns : ResumeDraft(t, r)
     \/ \E f \in Files : Prepare(f) \/ Record(f) \/ Amend(f)
     \/ RollbackDone \/ RevertSettled \/ RecoverCompact \/ Closed
BY DEF Next, TurnStep, RestoreStep, BrokerStep, ProcessStep, UserStep, Rollback, Revert,
     Restore, Conflict, RevertDone, Plan, Apply, Canceled, UndoWrite, Open, RecoverDrop,
     RecoverSkip, RecoverDraft, RecoverTurn, RecoverDone, Close, Crash, Edit, vars

\* Actions that may change the references.
LEMMA RefsFrame ==
  [Next]_vars =>
     \/ UNCHANGED refs
     \/ \E t \in Turns : Commit(t) \/ Suspend(t) \/ RecoverDrop(t)
     \/ \E f \in Files : Restore(f) \/ Prepare(f)
     \/ Close
BY DEF Next, TurnStep, RestoreStep, BrokerStep, ProcessStep, UserStep, Begin, ResumeDraft,
     KeepDraft, Rollback, Revert, Conflict, RollbackDone, RevertDone, RevertSettled, Plan, Apply,
     Canceled, Record, UndoWrite, Amend, Open, RecoverSkip, RecoverDraft, RecoverTurn,
     RecoverDone, RecoverCompact, Closed, Crash, Edit, vars

\* Actions that may change the process.
LEMMA ProcFrame ==
  [Next]_vars =>
     \/ UNCHANGED proc
     \/ \E t \in Turns : RecoverDrop(t) \/ RecoverSkip(t) \/ RecoverDraft(t)
     \/ \E replaces \in BOOLEAN : Open(replaces)
     \/ RecoverDone \/ RecoverCompact \/ Close \/ Closed \/ Crash
BY DEF Next, TurnStep, RestoreStep, BrokerStep, ProcessStep, UserStep, Begin, ResumeDraft,
     Commit, Suspend, KeepDraft, Rollback, Revert, Restore, Conflict, RollbackDone, RevertDone,
     RevertSettled, Plan, Prepare, Apply, Canceled, Record, UndoWrite, Amend, RecoverTurn, Edit,
     vars

\* Actions that may change the journals.
LEMMA JournalFrame ==
  [Next]_vars =>
     \/ UNCHANGED journal
     \/ \E t \in Turns : Begin(t) \/ Commit(t) \/ Suspend(t) \/ KeepDraft(t) \/ Rollback(t)
           \/ RecoverDraft(t) \/ RecoverTurn(t)
     \/ \E t, r \in Turns : ResumeDraft(t, r)
     \/ \E f \in Files : Restore(f) \/ Prepare(f) \/ Record(f) \/ Amend(f)
     \/ RollbackDone \/ RevertDone \/ RecoverDone \/ Closed \/ Crash
BY DEF Next, TurnStep, RestoreStep, BrokerStep, ProcessStep, UserStep, Revert, Conflict,
     RevertSettled, Plan, Apply, Canceled, UndoWrite, Open, RecoverDrop, RecoverSkip,
     RecoverCompact, Close, Edit, vars

\* Actions that may change the restore under way.
LEMMA TaskFrame ==
  [Next]_vars =>
     \/ UNCHANGED task
     \/ \E t \in Turns : Rollback(t) \/ Revert(t) \/ RecoverTurn(t)
     \/ \E f \in Files : Restore(f) \/ Conflict(f)
     \/ RollbackDone \/ RevertDone \/ RevertSettled \/ RecoverDone \/ Crash
BY DEF Next, TurnStep, RestoreStep, BrokerStep, ProcessStep, UserStep, Begin, ResumeDraft,
     Commit, Suspend, KeepDraft, Plan, Prepare, Apply, Canceled, Record, UndoWrite, Amend, Open,
     RecoverDrop, RecoverSkip, RecoverDraft, RecoverCompact, Close, Closed, Edit, vars

\* Actions that may change the transaction.
LEMMA TxFrame ==
  [Next]_vars =>
     \/ UNCHANGED tx
     \/ \E f \in Files : Prepare(f) \/ Apply(f) \/ Record(f) \/ UndoWrite(f) \/ Amend(f)
     \/ \E plan \in [Files -> Writes \cup {Null}] : Plan(plan)
     \/ Canceled \/ Crash
BY DEF Next, TurnStep, RestoreStep, BrokerStep, ProcessStep, UserStep, Begin, ResumeDraft,
     Commit, Suspend, KeepDraft, Rollback, Revert, Restore, Conflict, RollbackDone, RevertDone,
     RevertSettled, Open, RecoverDrop, RecoverSkip, RecoverDraft, RecoverTurn, RecoverDone,
     RecoverCompact, Close, Closed, Edit, vars

\* Actions that may change the fates.
LEMMA FateFrame ==
  [Next]_vars =>
     \/ UNCHANGED fate
     \/ \E t \in Turns : Begin(t) \/ Commit(t) \/ Suspend(t) \/ KeepDraft(t) \/ Rollback(t)
     \/ \E t, r \in Turns : ResumeDraft(t, r)
     \/ RevertDone \/ RecoverCompact
BY DEF Next, TurnStep, RestoreStep, BrokerStep, ProcessStep, UserStep, Revert, Restore,
     Conflict, RollbackDone, RevertSettled, Plan, Prepare, Apply, Canceled, Record, UndoWrite,
     Amend, Open, RecoverDrop, RecoverSkip, RecoverDraft, RecoverTurn, RecoverDone,
     Close, Closed, Crash, Edit, vars

\* Actions that may change the writers.
LEMMA WriterFrame ==
  [Next]_vars =>
     \/ UNCHANGED writer
     \/ \E t, r \in Turns : ResumeDraft(t, r)
     \/ \E f \in Files : Restore(f) \/ Apply(f)
     \/ \E f \in Files, data \in UserData : Edit(f, data)
BY DEF Next, TurnStep, RestoreStep, BrokerStep, ProcessStep, UserStep, Begin, Commit, Suspend,
     KeepDraft, Rollback, Revert, Conflict, RollbackDone, RevertDone, RevertSettled, Plan,
     Prepare, Canceled, Record, UndoWrite, Amend, Open, RecoverDrop, RecoverSkip, RecoverDraft,
     RecoverTurn, RecoverDone, RecoverCompact, Close, Closed, Crash, vars

\* Actions that may change the origins.
LEMMA OriginFrame ==
  [Next]_vars =>
     \/ UNCHANGED origin
     \/ \E t, r \in Turns : ResumeDraft(t, r)
     \/ \E f \in Files : Prepare(f)
BY DEF Next, TurnStep, RestoreStep, BrokerStep, ProcessStep, UserStep, Begin, Commit, Suspend,
     KeepDraft, Rollback, Revert, Restore, Conflict, RollbackDone, RevertDone, RevertSettled,
     Plan, Apply, Canceled, Record, UndoWrite, Amend, Open, RecoverDrop, RecoverSkip,
     RecoverDraft, RecoverTurn, RecoverDone, RecoverCompact, Close, Closed, Crash, Edit, vars

\* Actions that may change what the ledger was not told.
LEMMA UntoldFrame ==
  [Next]_vars =>
     \/ UNCHANGED untold
     \/ \E t \in Turns : Begin(t)
     \/ \E t, r \in Turns : ResumeDraft(t, r)
     \/ \E f \in Files : Record(f) \/ Amend(f)
     \/ Crash
BY DEF Next, TurnStep, RestoreStep, BrokerStep, ProcessStep, UserStep, Commit, Suspend,
     KeepDraft, Rollback, Revert, Restore, Conflict, RollbackDone, RevertDone, RevertSettled,
     Plan, Prepare, Apply, Canceled, UndoWrite, Open, RecoverDrop, RecoverSkip, RecoverDraft,
     RecoverTurn, RecoverDone, RecoverCompact, Close, Closed, Edit, vars

\* Actions that may change which records were replaced.
LEMMA ReplacedFrame ==
  [Next]_vars =>
     \/ UNCHANGED replaced
     \/ \E t \in Turns : Begin(t)
     \/ \E t, r \in Turns : ResumeDraft(t, r)
     \/ \E f \in Files : Prepare(f)
BY DEF Next, TurnStep, RestoreStep, BrokerStep, ProcessStep, UserStep, Commit, Suspend,
     KeepDraft, Rollback, Revert, Restore, Conflict, RollbackDone, RevertDone, RevertSettled,
     Plan, Apply, Canceled, Record, UndoWrite, Amend, Open, RecoverDrop, RecoverSkip,
     RecoverDraft, RecoverTurn, RecoverDone, RecoverCompact, Close, Closed, Crash, Edit, vars

\* Actions that may change the count of faults.
LEMMA CountFrame ==
  [Next]_vars =>
     \/ UNCHANGED count
     \/ \E f \in Files : Prepare(f) \/ Record(f) \/ UndoWrite(f) \/ Amend(f)
     \/ \E replaces \in BOOLEAN : Open(replaces)
     \/ \E f \in Files, data \in UserData : Edit(f, data)
     \/ RollbackDone \/ RevertSettled \/ Canceled
BY DEF Next, TurnStep, RestoreStep, BrokerStep, ProcessStep, UserStep, Begin, ResumeDraft,
     Commit, Suspend, KeepDraft, Rollback, Revert, Restore, Conflict, RevertDone, Plan, Apply,
     RecoverDrop, RecoverSkip, RecoverDraft, RecoverTurn, RecoverDone,
     RecoverCompact, Close, Closed, Crash, vars

-----------------------------------------------------------------------------
(* The inductive invariant.                                                *)

\* Turn t has a record of path f in the ledger, or in its journal; the ledger flags t as a draft.
InLedger(t, f) == ledger[t] # Null /\ ledger[t].records[f] # Null
InJournal(t, f) == journal[t].records[f] # Null
Flagged(t) == ledger[t] # Null /\ ledger[t].draft

\* The types of the records the variables hold.
Stages == {"closed", "recovering", "ready", "closing"}
Processes == [stage : Stages, owner : Nat, pid : Nat, clean : BOOLEAN, todo : Seq(Turns),
              keep : [Turns -> Entries \cup {Null}]]
Tasks == [op : {"none", "rollback", "revert", "recover"}, turn : Turns \cup {Null},
          step : {"restore", "settle"}, todo : SUBSET Files, conflict : BOOLEAN]
Transactions == [pc : {"idle", "prepare", "apply", "record", "undo", "amend"},
                 plan : [Files -> Writes \cup {Null}], before : [Files -> Fingerprints \cup {Null}],
                 todo : SUBSET Files, done : SUBSET Files]

\* Types of the variables, completely.
Typed ==
  /\ file \in [Files -> [data : Contents, version : Nat]]
  /\ ledger \in [Turns -> Entries \cup {Null}]
  /\ refs \in [Data -> Nat]
  /\ proc \in Processes
  /\ journal \in [Turns -> [place : Places, records : RecordSets]]
  /\ task \in Tasks /\ tx \in Transactions
  /\ fate \in [Turns -> Fates] /\ writer \in [Files -> Turns \cup {Null}]
  /\ origin \in [Turns -> [Files -> Contents \cup {Null}]]
  /\ untold \in [Turns -> SUBSET Files] /\ replaced \in [Turns -> SUBSET Files]
  /\ count \in Nat

\* The order lists the outstanding turns.
Outstanding == {t \in Turns : ledger[t] # Null}
Ordered == Listed(order, Outstanding)

\* Paths of the plan whose before-image is recorded.
Prepared == IF tx.pc = "prepare" THEN Targets \ tx.todo ELSE Targets

\* The transaction under way: its stage, its sets of paths, and that it writes for the active
\* turn of a ready manager only.
Transaction ==
  /\ tx.todo \subseteq Targets /\ tx.done \subseteq Targets
  /\ tx.pc = "idle" => tx = NoTx
  /\ tx.pc # "idle" => Ready /\ task.op = "none" /\ Active # {}
  /\ tx.pc = "prepare" => tx.done = {}
  /\ tx.pc = "apply" => tx.done = Targets \ tx.todo
  /\ tx.pc = "record" => tx.done = Targets
  /\ tx.pc = "undo" => tx.todo \subseteq tx.done
  /\ \A f \in Targets : tx.before[f] \in Fingerprints

\* What the transaction has prepared is recorded, what it has written is not another turn's.
PreparedKnown == \A t \in Active, f \in Prepared : InJournal(t, f)
DoneOwn == \A t \in Active, f \in tx.done : writer[f] \in {t, Null}

\* The restore under way: its turn, its stage and the records it has gone through.
Restoring ==
  /\ task.op = "none" => task = NoTask
  /\ task.op # "none" => task.turn \in Turns
  /\ task.op \in {"rollback", "revert"} => Ready
  /\ task.op # "revert" => task.step = "restore"
  /\ task.step = "settle" => task.todo = {}
  /\ task.op = "rollback" => journal[task.turn].place = "rollback"
  /\ task.op = "revert" /\ task.step = "restore" =>
       journal[task.turn].place \in {"committed", "draft"}
  /\ task.op = "revert" /\ task.step = "settle" =>
       journal[task.turn].place = "none" /\ fate[task.turn] = "undone"
  /\ task.op = "recover" =>
       /\ proc.stage = "recovering" /\ proc.todo # <<>> /\ Head(proc.todo) = task.turn
       /\ journal[task.turn].place = "adopted"
\* The paths still to restore have records; without a conflict the others have none.
RestoreTodo ==
  /\ \A f \in task.todo : InJournal(task.turn, f)
  /\ task.op # "none" /\ task.step = "restore" /\ ~task.conflict =>
       \A f \in Files \ task.todo : ~InJournal(task.turn, f)

\* A change that is still there and whose record nothing replaced, and one of these that the
\* ledger was told as it is, unless a transaction is just writing it.
Mine(t, f) == Left(t, f) /\ f \notin replaced[t]
Told(t, f) == Mine(t, f) /\ f \notin untold[t]

\* A turn that is reverted and not yet settled has left nothing it told.
Reverted ==
  task.op = "revert" /\ task.step = "settle" => \A f \in Files : ~Told(task.turn, f)

\* A turn that is recovered is neither a draft nor committed; its journal is the ledger's.
Adopted ==
  task.op = "recover" =>
    /\ ledger[task.turn] # Null /\ ~ledger[task.turn].draft /\ ~ledger[task.turn].committed
    /\ \A f \in Files : InJournal(task.turn, f) =>
         journal[task.turn].records[f] = ledger[task.turn].records[f]

\* What the stages of the manager exclude.
Staged ==
  /\ proc.stage = "closed" => \A t \in Turns : journal[t].place = "none"
  /\ proc.stage = "recovering" => \A t \in Turns : journal[t].place \in {"none", "draft", "adopted"}
  /\ proc.stage \in {"closed", "closing"} => task.op = "none"
  /\ proc.stage # "closed" => ~proc.clean
  /\ proc.stage = "recovering" => \A i \in 1..Len(proc.todo) : proc.todo[i] \in Outstanding

\* Where the manager keeps a journal, what became of the turn and what the ledger says of it.
Placed ==
  \A t \in Turns :
    /\ journal[t].place = "none" => journal[t].records = NoRecords
    /\ journal[t].place = "active" => fate[t] = "open" /\ ledger[t] # Null /\ ~ledger[t].committed
    /\ journal[t].place = "draft" => fate[t] \in {"draft", "open", "undone"} /\ Flagged(t)
    /\ journal[t].place = "committed" => fate[t] = "kept"
    /\ journal[t].place = "unresolved" => fate[t] = "undone"
    /\ journal[t].place = "rollback" => fate[t] = "undone" /\ task.op = "rollback" /\ task.turn = t
    /\ journal[t].place = "adopted" =>
         fate[t] \in {"open", "undone"} /\ task.op = "recover" /\ task.turn = t
\* What the ledger tells of a turn agrees with what became of it.
FateKnown ==
  \A t \in Turns :
    /\ fate[t] = "fresh" => ledger[t] = Null /\ \A f \in Files : writer[f] # t
    /\ ledger[t] # Null => fate[t] \in {"open", "draft", "kept", "undone"}
    /\ ledger[t] # Null /\ fate[t] = "kept" => ledger[t].committed
    /\ ledger[t] # Null /\ ledger[t].committed =>
         /\ ~ledger[t].draft /\ fate[t] \in {"kept", "undone"}
         /\ fate[t] = "undone" => \A f \in Files : ~Told(t, f)

\* Paths that the transaction has written and not recorded again.
Settling(t) ==
  IF t \notin Active THEN {}
  ELSE IF tx.pc \in {"apply", "undo"} THEN tx.done
  ELSE IF tx.pc \in {"record", "amend"} THEN tx.todo \cap tx.done ELSE {}

\* What a journal that may still change has in memory, it has on disk.
SyncedAt(t) ==
  journal[t].place \in {"active", "draft"} =>
    \A f \in Files : InJournal(t, f) =>
      /\ InLedger(t, f)
      /\ ledger[t].records[f].before = journal[t].records[f].before
      /\ ledger[t].records[f].held = journal[t].records[f].held
      /\ f \notin Settling(t) /\ f \notin untold[t] =>
           ledger[t].records[f].after = journal[t].records[f].after
      /\ journal[t].records[f].before # Absent => journal[t].records[f].held
Synced == \A t \in Turns : SyncedAt(t)
\* Records of a turn that may go on have their before-images.
DraftHeld ==
  \A t \in Turns, f \in Files : InLedger(t, f) /\ (ledger[t].draft \/ t \in Active) =>
    (ledger[t].records[f].before # Absent => ledger[t].records[f].held)

\* A change nobody decided to keep that the ledger was told is in it as it is, and in the
\* journal if there is one.
OnDisk ==
  \A t \in Turns, f \in Files : Told(t, f) /\ fate[t] # "kept" /\ f \notin Settling(t) =>
    InLedger(t, f) /\ ledger[t].records[f].after = Fingerprint(f)
InMemory ==
  \A t \in Turns, f \in Files :
    Told(t, f) /\ journal[t].place # "none" /\ f \notin Settling(t) =>
      InJournal(t, f) /\ journal[t].records[f].after = Fingerprint(f)
\* What the turn has in the ledger or in a journal it may still change has a record of every
\* change, as long as that record was not replaced, with its before-image.
Backed ==
  \A t \in Turns, f \in Files :
    /\ Mine(t, f) /\ ledger[t] # Null => InLedger(t, f)
    /\ Left(t, f) /\ InLedger(t, f) /\ ledger[t].records[f].before # Absent =>
         ledger[t].records[f].held
    /\ Mine(t, f) /\ journal[t].place \in {"active", "draft"} => InJournal(t, f)
    /\ Left(t, f) /\ InLedger(t, f) /\ journal[t].place = "adopted" => InJournal(t, f)

\* Records have the contents from before the turn's first write.
Original ==
  \A t \in Turns, f \in Files : f \notin replaced[t] =>
    /\ InLedger(t, f) => DataOf(ledger[t].records[f].before) = origin[t][f]
    /\ InJournal(t, f) => DataOf(journal[t].records[f].before) = origin[t][f]

\* A turn that may write again with the records it has: there is at most one.
Live(t) == fate[t] = "draft" \/ (fate[t] = "open" /\ (t \in Active \/ Flagged(t)))
OneLive == \A t, u \in Turns : Live(t) /\ Live(u) => t = u

\* Drafts are in the ledger, with a change if it was told all of them, and in memory while the
\* manager works.
Drafts ==
  \A t \in Turns :
    /\ fate[t] = "draft" => Flagged(t) /\ (untold[t] = {} => Changed(ledger[t].records))
    /\ fate[t] = "dropped" => untold[t] # {}
    /\ proc.stage \in {"ready", "closing"} =>
         /\ fate[t] = "draft" => journal[t].place = "draft"
         /\ fate[t] = "open" /\ Flagged(t) => journal[t].place \in {"active", "draft"}

\* No draft looks like one of a living process to the manager that recovers it.
Owners ==
  /\ proc.pid \in 1..proc.owner
  /\ \A t \in Turns : ledger[t] # Null =>
       /\ ledger[t].pid <= proc.pid
       /\ Flagged(t) /\ proc.stage = "closed" /\ proc.clean => ledger[t].pid # proc.pid
       /\ Flagged(t) /\ proc.stage = "recovering" => ledger[t].pid # proc.pid
       /\ (Flagged(t) \/ t \in Active) /\ proc.stage \in {"ready", "closing"}
            /\ ledger[t].pid = proc.pid => ledger[t].owner = proc.owner

\* No record is newer than its file.
Older(f, record) == record.after # Absent => record.after.version <= file[f].version
Versions ==
  \A t \in Turns, f \in Files :
    /\ InLedger(t, f) => Older(f, ledger[t].records[f])
    /\ InJournal(t, f) => Older(f, journal[t].records[f])

\* A record of a path that holds another turn's change does not know that change, or took it
\* for the contents before.
Apart(t, f, record) ==
  /\ Live(t) => record.before = Fingerprint(f)
  /\ record.after = Fingerprint(f) /\ Fingerprint(f) # Absent =>
       DataOf(record.before) = DataOf(record.after)
Foreign ==
  \A t \in Turns, f \in Files : writer[f] \notin {t, Null} =>
    /\ InLedger(t, f) => Apart(t, f, ledger[t].records[f])
    /\ InJournal(t, f) => Apart(t, f, journal[t].records[f])

\* The ledger that is about to be written: entries as they are but for handles of restored
\* paths, every change of a turn that was visited, every draft.
Visited(t) == proc.stage = "recovering" /\ \A i \in 1..Len(proc.todo) : proc.todo[i] # t
\* Two entries that differ in handles at most.
Same(kept, entry) ==
  /\ kept.owner = entry.owner /\ kept.pid = entry.pid
  /\ kept.draft = entry.draft /\ kept.committed = entry.committed
  /\ \A f \in Files :
       /\ kept.records[f] = Null <=> entry.records[f] = Null
       /\ kept.records[f] # Null => /\ kept.records[f].before = entry.records[f].before
                                    /\ kept.records[f].after = entry.records[f].after
\* Nothing else is kept, and a draft is kept as it is.
Keeping ==
  \A t \in Turns : proc.keep[t] # Null =>
    /\ proc.stage = "recovering"
    /\ ledger[t] # Null /\ Same(proc.keep[t], ledger[t]) /\ ~ledger[t].committed
    /\ ledger[t].draft => proc.keep[t] = ledger[t]
\* A draft that was adopted is kept.
AdoptedKept ==
  \A t \in Turns : proc.stage = "recovering" /\ journal[t].place = "draft" =>
    proc.keep[t] # Null /\ ~EmptyDraft(t)
\* A turn that was visited is kept if it has a change nobody decided to keep, or is a draft.
KeepsChanges ==
  \A t \in Turns : Visited(t) =>
    /\ \A f \in Files : Told(t, f) /\ fate[t] # "kept" => proc.keep[t] # Null
    /\ \A f \in Files : Left(t, f) /\ proc.keep[t] # Null =>
         proc.keep[t].records[f] = ledger[t].records[f]
    /\ Flagged(t) /\ proc.keep[t] # Null => journal[t].place = "draft"
    /\ fate[t] = "draft" /\ untold[t] = {} => proc.keep[t] # Null

\* What recovery left of an interrupted turn as the ledger knows it has lost its before-image.
Known(t, f) == Left(t, f) /\ InLedger(t, f) /\ ledger[t].records[f].after = Fingerprint(f)
Lost(t, f) ==
  LET d == DataOf(ledger[t].records[f].before) IN d # Absent /\ refs[d] = 0
\* That is so for the turns visited and for the paths visited of the one being restored.
LostOnly ==
  /\ \A t \in Turns, f \in Files :
       Visited(t) /\ fate[t] = "open" /\ Known(t, f) /\ ~ledger[t].draft
         /\ ledger[t].pid # proc.pid => Lost(t, f)
  /\ task.op = "recover" =>
       \A f \in Files \ task.todo : Known(task.turn, f) => Lost(task.turn, f)

\* What holds of the bookkeeping, and all of it.
Shape == Typed /\ Ordered /\ Transaction /\ PreparedKnown /\ DoneOwn /\ Restoring /\ RestoreTodo
         /\ Staged /\ Placed
JournalInv ==
  /\ Shape /\ Adopted /\ Reverted /\ FateKnown /\ Synced /\ DraftHeld /\ OnDisk /\ InMemory
  /\ Backed /\ Original
  /\ OneLive /\ Drafts /\ Owners /\ Versions /\ Foreign /\ Keeping /\ AdoptedKept
  /\ KeepsChanges /\ LostOnly

-----------------------------------------------------------------------------
(* Types.                                                                  *)

\* Null is no turn, contents, record or entry, and Absent is no fingerprint of a file.
LEMMA Apartness ==
  /\ Null \notin Turns /\ Null \notin Contents /\ Null \notin Records /\ Null \notin Entries
  /\ Absent \notin [data : Data, version : Nat] /\ Absent \notin Data
  /\ Writes \subseteq Contents /\ UserData \subseteq Contents /\ Data \subseteq Contents
  /\ Absent \in Contents /\ Absent \in Fingerprints
BY JournalConstants DEF Contents, Data, Fingerprints

\* Contents of a fingerprint.
LEMMA DataOfFacts ==
  \A seen \in Fingerprints :
    /\ DataOf(seen) \in Contents
    /\ seen # Absent => seen \in [data : Data, version : Nat] /\ DataOf(seen) = seen.data
    /\ DataOf(seen) = Absent <=> seen = Absent
BY Apartness DEF Fingerprints, DataOf, Contents

\* The fingerprint of a file.
LEMMA FingerprintFacts ==
  Typed => \A f \in Files :
    /\ file[f] \in [data : Contents, version : Nat]
    /\ Fingerprint(f) \in Fingerprints
    /\ DataOf(Fingerprint(f)) = file[f].data
    /\ Fingerprint(f) = Absent <=> file[f].data = Absent
    /\ Fingerprint(f) # Absent => Fingerprint(f) = file[f] /\ file[f].data \in Data
<1> SUFFICES ASSUME Typed, NEW f \in Files
             PROVE  /\ file[f] \in [data : Contents, version : Nat]
                    /\ Fingerprint(f) \in Fingerprints
                    /\ DataOf(Fingerprint(f)) = file[f].data
                    /\ Fingerprint(f) = Absent <=> file[f].data = Absent
                    /\ Fingerprint(f) # Absent => Fingerprint(f) = file[f] /\ file[f].data \in Data
  OBVIOUS
<1>1. file[f] \in [data : Contents, version : Nat]
  BY DEF Typed
<1>2. file[f].data # Absent => file[f] \in [data : Data, version : Nat]
  BY <1>1 DEF Contents
<1>3. file[f].data # Absent => file[f] # Absent
  BY <1>2, Apartness
<1> QED BY <1>1, <1>2, <1>3 DEF Fingerprint, DataOf, Fingerprints

\* Entries and records.
LEMMA EntryFacts ==
  Typed => \A t \in Turns :
    /\ journal[t].place \in Places /\ journal[t].records \in RecordSets
    /\ journal[t] \in [place : Places, records : RecordSets]
    /\ ledger[t] # Null => ledger[t] \in Entries /\ ledger[t].records \in RecordSets
    /\ \A f \in Files :
         /\ InJournal(t, f) => journal[t].records[f] \in Records
         /\ InLedger(t, f) => ledger[t].records[f] \in Records
BY DEF Typed, Entries, RecordSets, InJournal, InLedger

\* The turn a transaction writes for.
LEMMA TurnFacts ==
  Active # {} => Turn \in Active /\ Turn \in Turns /\ journal[Turn].place = "active"
BY DEF Turn, Active, In

\* New values are typed.
LEMMA NewTyped ==
  /\ NoRecords \in RecordSets
  /\ NoJournal \in [place : Places, records : RecordSets]
  /\ NoTask \in Tasks /\ NoTx \in Transactions
  /\ \A f \in Files : NoRecords[f] = Null
<1>1. NoRecords \in RecordSets /\ \A f \in Files : NoRecords[f] = Null
  BY DEF NoRecords, RecordSets
<1>2. NoRecords \in [Files -> Writes \cup {Null}] /\ NoRecords \in [Files -> Fingerprints \cup {Null}]
  BY DEF NoRecords
<1>3. NoJournal \in [place : Places, records : RecordSets]
  BY <1>1 DEF NoJournal, Places
<1>4. NoTask \in Tasks
  BY DEF NoTask, Tasks
<1>5. NoTx \in Transactions
  BY <1>2 DEF NoTx, Transactions
<1> QED BY <1>1, <1>3, <1>4, <1>5

\* The record of a path the turn has not touched yet.
LEMMA NewRecordFacts ==
  Typed => \A f \in Files :
    /\ NewRecord(f) \in Records /\ NewRecord(f) # Null
    /\ NewRecord(f).before = Fingerprint(f) /\ NewRecord(f).after = Fingerprint(f)
    /\ NewRecord(f).held = (Fingerprint(f) # Absent)
<1> SUFFICES ASSUME Typed, NEW f \in Files
             PROVE  /\ NewRecord(f) \in Records /\ NewRecord(f) # Null
                    /\ NewRecord(f).before = Fingerprint(f) /\ NewRecord(f).after = Fingerprint(f)
                    /\ NewRecord(f).held = (Fingerprint(f) # Absent)
  OBVIOUS
<1>1. Fingerprint(f) \in Fingerprints
  BY FingerprintFacts
<1>2. NewRecord(f) \in Records
  BY <1>1 DEF NewRecord, Records
<1>3. /\ NewRecord(f).before = Fingerprint(f) /\ NewRecord(f).after = Fingerprint(f)
      /\ NewRecord(f).held = (Fingerprint(f) # Absent)
  BY DEF NewRecord
<1> QED BY <1>2, <1>3, Apartness

\* The files keep their type.
LEMMA FileTyped == Typed /\ Transaction /\ RestoreTodo /\ Restoring /\ [Next]_vars =>
                   file' \in [Files -> [data : Contents, version : Nat]]
<1> SUFFICES ASSUME Typed, Transaction, RestoreTodo, Restoring, [Next]_vars
             PROVE  file' \in [Files -> [data : Contents, version : Nat]]
  OBVIOUS
<1>0. file \in [Files -> [data : Contents, version : Nat]]
  BY DEF Typed
<1>1. ASSUME NEW f \in Files, NEW d \in Contents, file' = [file EXCEPT ![f] = [data |-> d, version |-> @.version + 1]]
      PROVE  file' \in [Files -> [data : Contents, version : Nat]]
  <2>1. file[f].version + 1 \in Nat
    BY <1>0
  <2>2. [data |-> d, version |-> file[f].version + 1] \in [data : Contents, version : Nat]
    BY <2>1
  <2> QED BY <1>0, <1>1, <2>2
<1>2. ASSUME NEW f \in Files, Restore(f) PROVE file' \in [Files -> [data : Contents, version : Nat]]
  <2>1. task.turn \in Turns /\ InJournal(task.turn, f)
    BY <1>2 DEF Restore, Restoring, RestoreTodo
  <2>2. journal[task.turn].records[f] \in Records
    BY <2>1, EntryFacts
  <2>3. DataOf(journal[task.turn].records[f].before) \in Contents
    BY <2>2, DataOfFacts DEF Records
  <2> QED BY <1>1, <1>2, <2>3 DEF Restore
<1>3. ASSUME NEW f \in Files, Apply(f) PROVE file' \in [Files -> [data : Contents, version : Nat]]
  <2>1. f \in Targets /\ tx.plan[f] \in Writes
    BY <1>3 DEF Apply, Transaction, Targets, Paths, Typed, Transactions
  <2> QED BY <1>0, <1>1, <1>3, <2>1, Apartness DEF Apply
<1>4. ASSUME NEW f \in Files, UndoWrite(f) PROVE file' \in [Files -> [data : Contents, version : Nat]]
  <2>1. DataOf(tx.before[f]) \in Contents
    BY <1>4, DataOfFacts DEF UndoWrite, Transaction
  <2> QED BY <1>0, <1>1, <1>4, <2>1 DEF UndoWrite
<1>5. ASSUME NEW f \in Files, NEW data \in UserData, Edit(f, data)
      PROVE  file' \in [Files -> [data : Contents, version : Nat]]
  BY <1>1, <1>5, Apartness DEF Edit
<1> QED BY <1>0, <1>2, <1>3, <1>4, <1>5, FileFrame

\* Counts of released handles.
LEMMA FreedTyped ==
  ASSUME Typed, NEW records, NEW paths \in SUBSET Files, NEW d \in Data
  PROVE  Freed(records, paths, d) \in Nat
<1> DEFINE S == {f \in paths : records[f].held /\ records[f].before.data = d}
<1>1. IsFiniteSet(S)
  BY JournalConstants, FS_Subset
<1>2. Cardinality(S) \in Nat
  BY <1>1, FS_CardinalityType
<1>3. refs[d] \in Nat
  BY DEF Typed
<1> HIDE DEF S
<1>4. (IF refs[d] > Cardinality(S) THEN refs[d] - Cardinality(S) ELSE 0) \in Nat
  BY <1>2, <1>3
<1> QED BY <1>4 DEF Freed, S

\* References stay numbers: a release never takes more than there is.
LEMMA RefsTyped == Typed /\ Transaction /\ [Next]_vars => refs' \in [Data -> Nat]
<1> SUFFICES ASSUME Typed, Transaction, [Next]_vars PROVE refs' \in [Data -> Nat]
  OBVIOUS
<1>1. ASSUME NEW records, NEW paths \in SUBSET Files, Release(records, paths) PROVE refs' \in [Data -> Nat]
  BY <1>1, FreedTyped DEF Release
<1>2. ASSUME NEW t \in Turns, Commit(t) \/ Suspend(t) PROVE refs' \in [Data -> Nat]
  BY <1>1, <1>2 DEF Commit, Suspend, Typed, Untouched, Paths
<1>3. ASSUME NEW f \in Files, Restore(f) PROVE refs' \in [Data -> Nat]
  BY <1>1, <1>3 DEF Restore
<1>4. ASSUME NEW f \in Files, Prepare(f) PROVE refs' \in [Data -> Nat]
  <2>1. \/ refs' = refs
        \/ Fingerprint(f) # Absent /\ refs' = [refs EXCEPT ![file[f].data] = @ + 1]
    BY <1>4 DEF Prepare, Before
  <2>2. refs \in [Data -> Nat]
    BY DEF Typed
  <2>3. Fingerprint(f) # Absent => file[f].data \in Data
    BY FingerprintFacts
  <2> QED BY <2>1, <2>2, <2>3
<1>5. ASSUME NEW t \in Turns, RecoverDrop(t) PROVE refs' \in [Data -> Nat]
  BY <1>1, <1>5 DEF RecoverDrop, Paths
<1>6. ASSUME Close PROVE refs' \in [Data -> Nat]
  <2> DEFINE held(d) == {p \in In("committed") \X Files :
                      /\ journal[p[1]].records[p[2]] # Null
                      /\ journal[p[1]].records[p[2]].held
                      /\ journal[p[1]].records[p[2]].before.data = d}
  <2>1. ASSUME NEW d \in Data PROVE Cardinality(held(d)) \in Nat
    <3>1. IsFiniteSet(In("committed"))
      BY JournalConstants, FS_Subset DEF In
    <3>2. IsFiniteSet(In("committed") \X Files)
      BY <3>1, JournalConstants, FS_Product
    <3>3. IsFiniteSet(held(d))
      BY <3>2, FS_Subset
    <3> QED BY <3>3, FS_CardinalityType
  <2>2. refs' = [d \in Data |-> IF refs[d] > Cardinality(held(d)) THEN refs[d] - Cardinality(held(d)) ELSE 0]
    BY <1>6 DEF Close
  <2>3. \A d \in Data : refs[d] \in Nat
    BY DEF Typed
  <2> HIDE DEF held
  <2> QED BY <2>1, <2>2, <2>3
<1> QED BY <1>2, <1>3, <1>4, <1>5, <1>6, RefsFrame DEF Typed

\* One record of a journal is replaced.
Puts(T, f, rec) == journal' = [journal EXCEPT ![T].records[f] = rec]

\* One record replaced: the other records and all places stay.
LEMMA JournalSet ==
  ASSUME Typed, NEW T \in Turns, NEW f \in Files, NEW rec \in Records \cup {Null},
         Puts(T, f, rec)
  PROVE  /\ journal' \in [Turns -> [place : Places, records : RecordSets]]
         /\ \A t \in Turns : journal'[t].place = journal[t].place
         /\ \A t \in Turns, g \in Files :
              journal'[t].records[g] = IF t = T /\ g = f THEN rec ELSE journal[t].records[g]
<1>1. journal[T] \in [place : Places, records : RecordSets] /\ journal[T].records \in RecordSets
  BY EntryFacts
<1> DEFINE rs == [journal[T].records EXCEPT ![f] = rec]
<1>2. rs \in RecordSets /\ \A g \in Files : rs[g] = IF g = f THEN rec ELSE journal[T].records[g]
  BY <1>1 DEF RecordSets
<1> DEFINE j == [journal[T] EXCEPT !.records = rs]
<1>3. journal' = [journal EXCEPT ![T] = j]
  BY DEF Puts
<1> HIDE DEF rs
<1>4. j \in [place : Places, records : RecordSets] /\ j.place = journal[T].place /\ j.records = rs
  BY <1>1, <1>2
<1> HIDE DEF j
<1>5. journal' \in [Turns -> [place : Places, records : RecordSets]]
  BY <1>3, <1>4 DEF Typed
<1>6. \A t \in Turns : journal'[t] = IF t = T THEN j ELSE journal[t]
  BY <1>3 DEF Typed
<1> QED BY <1>2, <1>4, <1>5, <1>6

\* One record of an entry of the ledger is replaced.
LEMMA LedgerSet ==
  ASSUME Typed, NEW T \in Turns, NEW f \in Files, NEW rec \in Records, ledger[T] # Null,
         LogRecord(T, f, rec)
  PROVE  /\ ledger' \in [Turns -> Entries \cup {Null}]
         /\ order' = order
         /\ \A t \in Turns : t # T => ledger'[t] = ledger[t]
         /\ ledger'[T] # Null /\ ledger'[T].owner = ledger[T].owner /\ ledger'[T].pid = ledger[T].pid
         /\ ledger'[T].draft = ledger[T].draft /\ ledger'[T].committed = ledger[T].committed
         /\ \A g \in Files : ledger'[T].records[g] = IF g = f THEN rec ELSE ledger[T].records[g]
<1>1. ledger[T] \in Entries /\ ledger[T].records \in RecordSets
  BY EntryFacts
<1> DEFINE rs == [ledger[T].records EXCEPT ![f] = rec]
<1>2. rs \in RecordSets /\ \A g \in Files : rs[g] = IF g = f THEN rec ELSE ledger[T].records[g]
  BY <1>1 DEF RecordSets
<1> DEFINE e == [ledger[T] EXCEPT !.records = rs]
<1>3. ledger' = [ledger EXCEPT ![T] = e] /\ order' = order
  BY DEF LogRecord
<1> HIDE DEF rs
<1>4. /\ e \in Entries /\ e.records = rs /\ e.owner = ledger[T].owner /\ e.pid = ledger[T].pid
      /\ e.draft = ledger[T].draft /\ e.committed = ledger[T].committed
  BY <1>1, <1>2 DEF Entries
<1> HIDE DEF e
<1>5. ledger' \in [Turns -> Entries \cup {Null}]
  BY <1>3, <1>4 DEF Typed
<1>6. \A t \in Turns : ledger'[t] = IF t = T THEN e ELSE ledger[t]
  BY <1>3 DEF Typed
<1>7. e # Null
  BY <1>4, Apartness
<1> QED BY <1>2, <1>3, <1>4, <1>5, <1>6, <1>7

\* The new fingerprint of a record.
LEMMA AfterFacts ==
  ASSUME Typed, NEW T \in Turns, NEW f \in Files, InJournal(T, f), NEW rec,
         rec = [journal[T].records[f] EXCEPT !.after = Fingerprint(f)]
  PROVE  /\ rec \in Records /\ rec # Null /\ rec.after = Fingerprint(f)
         /\ rec.before = journal[T].records[f].before /\ rec.held = journal[T].records[f].held
<1>1. journal[T].records[f] \in Records
  BY EntryFacts
<1>2. Fingerprint(f) \in Fingerprints
  BY FingerprintFacts
<1>3. /\ rec \in Records /\ rec.after = Fingerprint(f)
      /\ rec.before = journal[T].records[f].before /\ rec.held = journal[T].records[f].held
  BY <1>1, <1>2 DEF Records
<1> QED BY <1>3, Apartness

\* What the steps of a transaction record.
Takes(f, rec) ==
  /\ rec = NewRecord(f) /\ ~InJournal(Turn, f) /\ Prepare(f) /\ untold' = untold
  /\ IF Left(Turn, f) THEN origin' = origin /\ replaced' = replaced
     ELSE /\ origin' = [origin EXCEPT ![Turn][f] = file[f].data]
          /\ replaced' = [replaced EXCEPT ![Turn] = @ \ {f}]
Renews(f, rec) ==
  /\ rec = [journal[Turn].records[f] EXCEPT !.after = Fingerprint(f)]
  /\ InJournal(Turn, f) /\ f \in tx.todo /\ UNCHANGED <<origin, replaced>>
\* The ledger is told the record, or not.
Tells(f) ==
  (Record(f) \/ Amend(f)) /\ After(f) /\ untold' = [untold EXCEPT ![Turn] = @ \ {f}]
Hides(f) ==
  \/ Record(f) /\ tx' = Undo(tx.done) /\ untold' = untold
  \/ Amend(f) /\ untold' = Missed({f})

\* A step of the transaction records nothing, a first or a renewed record in journal and ledger,
\* or, when the append fails, a renewed one in the journal alone.
LEMMA RecordMoves ==
  ASSUME Typed, Transaction, PreparedKnown, Placed, NEW f \in Files,
         Prepare(f) \/ Record(f) \/ Amend(f)
  PROVE  /\ Turn \in Active /\ Turn \in Turns /\ journal[Turn].place = "active"
         /\ ledger[Turn] # Null /\ tx.pc # "idle" /\ f \in tx.todo /\ f \in Targets
         /\ UNCHANGED <<file, proc, task, fate, writer>>
         /\ \/ UNCHANGED <<ledger, order, journal, origin, untold, replaced>>
            \/ \E rec \in Records :
                 /\ Takes(f, rec) \/ (Renews(f, rec) /\ Tells(f))
                 /\ Puts(Turn, f, rec)
                 /\ LogRecord(Turn, f, rec)
            \/ \E rec \in Records :
                 /\ Renews(f, rec) /\ Hides(f)
                 /\ Puts(Turn, f, rec)
                 /\ UNCHANGED <<ledger, order>>
<1>1. Active # {} /\ tx.pc # "idle" /\ f \in tx.todo /\ f \in Targets
  BY DEF Prepare, Record, Amend, At, Transaction
<1>2. Turn \in Active /\ Turn \in Turns /\ journal[Turn].place = "active"
  BY <1>1, TurnFacts
<1>3. ledger[Turn] # Null
  BY <1>2 DEF Placed
<1>4. UNCHANGED <<file, proc, task, fate, writer>>
  BY DEF Prepare, Record, Amend
<1>5. ASSUME Record(f) \/ Amend(f) PROVE InJournal(Turn, f)
  BY <1>1, <1>2, <1>5 DEF PreparedKnown, Prepared, Record, Amend, At
<1> DEFINE new == [journal[Turn].records[f] EXCEPT !.after = Fingerprint(f)]
<1>6. ASSUME Record(f) \/ Amend(f) PROVE new \in Records
  BY <1>2, <1>5, <1>6, AfterFacts
<1>7. CASE Prepare(f)
  <2>1. \/ UNCHANGED <<ledger, order, refs, journal>>
        \/ Before(f) /\ ~InJournal(Turn, f)
    BY <1>7 DEF Prepare, Before, InJournal
  <2>2. CASE UNCHANGED <<ledger, order, refs, journal>>
    <3>1. UNCHANGED <<origin, untold, replaced>>
      BY <1>7, <2>2, Zenon DEF Prepare
    <3> QED BY <1>1, <1>2, <1>3, <1>4, <2>2, <3>1
  <2>3. CASE Before(f) /\ ~InJournal(Turn, f)
    <3>1. LogRecord(Turn, f, NewRecord(f)) /\ Puts(Turn, f, NewRecord(f))
      BY <2>3 DEF Before, InJournal, Puts
    <3>2. NewRecord(f) \in Records /\ NewRecord(f) # Null
      BY NewRecordFacts
    <3>3. journal'[Turn].records[f] = NewRecord(f)
      BY <1>2, <3>1, <3>2, JournalSet
    <3>4. /\ untold' = untold
          /\ IF Left(Turn, f) THEN origin' = origin /\ replaced' = replaced
             ELSE /\ origin' = [origin EXCEPT ![Turn][f] = file[f].data]
                  /\ replaced' = [replaced EXCEPT ![Turn] = @ \ {f}]
      <4>1. /\ untold' = untold
            /\ IF journal[Turn].records[f] = Null /\ journal'[Turn].records[f] # Null
                  /\ ~Left(Turn, f)
               THEN /\ origin' = [origin EXCEPT ![Turn][f] = file[f].data]
                    /\ replaced' = [replaced EXCEPT ![Turn] = @ \ {f}]
               ELSE UNCHANGED <<origin, replaced>>
        BY <1>7 DEF Prepare
      <4>2. journal[Turn].records[f] = Null /\ journal'[Turn].records[f] # Null
        BY <2>3, <3>2, <3>3 DEF InJournal
      <4>3. CASE Left(Turn, f)
        BY <4>1, <4>2, <4>3, Zenon
      <4>4. CASE ~Left(Turn, f)
        BY <4>1, <4>2, <4>4, Zenon
      <4> QED BY <4>3, <4>4, Zenon
    <3>5. Takes(f, NewRecord(f))
      BY <1>7, <2>3, <3>4 DEF Takes
    <3> QED BY <1>1, <1>2, <1>3, <1>4, <3>1, <3>2, <3>5
  <2> QED BY <2>1, <2>2, <2>3
<1>8. CASE Record(f) \/ Amend(f)
  <2>1. new \in Records /\ Renews(f, new) /\ InJournal(Turn, f)
    BY <1>1, <1>5, <1>6, <1>8 DEF Renews, Record, Amend
  <2>2. \/ After(f)
        \/ UNCHANGED <<ledger, order, journal, untold>>
        \/ AfterFails(f) /\ Hides(f)
    <3>1. CASE Record(f)
      BY <3>1 DEF Record, Hides
    <3>2. CASE Amend(f)
      <4>1. After(f) \/ (AfterFails(f) /\ untold' = Missed({f}))
        BY <3>2 DEF Amend
      <4> QED BY <3>2, <4>1 DEF Hides
    <3> QED BY <1>8, <3>1, <3>2
  <2>3. UNCHANGED <<origin, replaced>>
    BY <1>8 DEF Record, Amend
  <2>4. CASE After(f)
    <3>1. Puts(Turn, f, new) /\ LogRecord(Turn, f, new)
      BY <2>4 DEF After, Puts
    <3>2. Tells(f)
      BY <1>8, <2>4 DEF After, Tells
    <3> HIDE DEF new
    <3> QED BY <1>1, <1>2, <1>3, <1>4, <1>8, <2>1, <3>1, <3>2
  <2>5. CASE UNCHANGED <<ledger, order, journal, untold>>
    BY <1>1, <1>2, <1>3, <1>4, <2>3, <2>5
  <2>6. CASE AfterFails(f) /\ Hides(f)
    <3>1. Puts(Turn, f, new) /\ UNCHANGED <<ledger, order>>
      BY <2>6 DEF Puts, AfterFails
    <3> HIDE DEF new
    <3> QED BY <1>1, <1>2, <1>3, <1>4, <2>1, <2>6, <3>1
  <2> QED BY <2>2, <2>4, <2>5, <2>6
<1> QED BY <1>7, <1>8

-----------------------------------------------------------------------------
(* What the actions do to journals and ledger, turn by turn.               *)

\* Journals in memory.
Journals == [place : Places, records : RecordSets]

\* The journal of one turn is replaced, or moved to another place.
Moves(t, j) == journal' = [journal EXCEPT ![t] = j]

\* One journal replaced: the others stay.
LEMMA JournalMoved ==
  ASSUME Typed, NEW t \in Turns, NEW j \in Journals, Moves(t, j)
  PROVE  /\ journal' \in [Turns -> Journals]
         /\ \A u \in Turns : journal'[u] = IF u = t THEN j ELSE journal[u]
BY DEF Typed, Journals, Moves

Shifts(t, place) == journal' = [journal EXCEPT ![t].place = place]

\* One journal moved: its records and the other journals stay.
LEMMA JournalShifted ==
  ASSUME Typed, NEW t \in Turns, NEW place \in Places, Shifts(t, place)
  PROVE  /\ journal' \in [Turns -> Journals]
         /\ \A u \in Turns : u # t => journal'[u] = journal[u]
         /\ journal'[t].place = place /\ journal'[t].records = journal[t].records
<1>1. journal[t] \in Journals
  BY DEF Typed, Journals
<1> DEFINE j == [journal[t] EXCEPT !.place = place]
<1>2. journal' = [journal EXCEPT ![t] = j]
  BY DEF Shifts
<1>3. j \in Journals /\ j.place = place /\ j.records = journal[t].records
  BY <1>1 DEF Journals
<1> HIDE DEF j
<1> QED BY <1>2, <1>3 DEF Typed, Journals

\* The flags of an entry change.
LEMMA CommitLogged ==
  ASSUME Typed, NEW t \in Turns, LogCommit(t)
  PROVE  /\ ledger' \in [Turns -> Entries \cup {Null}] /\ order' = order
         /\ \A u \in Turns : u # t => ledger'[u] = ledger[u]
         /\ ledger[t] = Null => ledger'[t] = Null
         /\ ledger[t] # Null =>
              /\ ledger'[t] # Null /\ ledger'[t].records = ledger[t].records
              /\ ledger'[t].owner = ledger[t].owner /\ ledger'[t].pid = ledger[t].pid
              /\ ledger'[t].committed /\ ~ledger'[t].draft
<1>1. CASE ledger[t] = Null
  BY <1>1 DEF LogCommit, Typed
<1>2. CASE ledger[t] # Null
  <2>1. ledger[t] \in Entries
    BY <1>2, EntryFacts
  <2> DEFINE e == [ledger[t] EXCEPT !.committed = TRUE, !.draft = FALSE]
  <2>2. ledger' = [ledger EXCEPT ![t] = e] /\ order' = order
    <3>1. ledger' = [ledger EXCEPT ![t].committed = TRUE, ![t].draft = FALSE] /\ order' = order
      BY <1>2 DEF LogCommit
    <3> QED BY <3>1 DEF Typed
  <2>3. /\ e \in Entries /\ e.records = ledger[t].records /\ e.owner = ledger[t].owner
        /\ e.pid = ledger[t].pid /\ e.committed /\ ~e.draft
    BY <2>1 DEF Entries
  <2> HIDE DEF e
  <2>4. e # Null
    BY <2>3, Apartness
  <2>5. \A u \in Turns : ledger'[u] = IF u = t THEN e ELSE ledger[u]
    BY <2>2 DEF Typed
  <2>6. ledger' \in [Turns -> Entries \cup {Null}]
    BY <2>2, <2>3 DEF Typed
  <2> QED BY <1>2, <2>2, <2>3, <2>4, <2>5, <2>6
<1> QED BY <1>1, <1>2

\* The draft line flags its turn and changes nothing else.
LEMMA DraftLogged ==
  ASSUME Typed, NEW t \in Turns, LogDraft(t)
  PROVE  /\ ledger' \in [Turns -> Entries \cup {Null}] /\ order' = order
         /\ \A u \in Turns : u # t => ledger'[u] = ledger[u]
         /\ ledger[t] = Null => ledger'[t] = Null
         /\ ledger[t] # Null =>
              /\ ledger'[t] # Null /\ ledger'[t].records = ledger[t].records
              /\ ledger'[t].owner = ledger[t].owner /\ ledger'[t].pid = ledger[t].pid
              /\ ledger'[t].committed = ledger[t].committed /\ ledger'[t].draft
<1>1. CASE ledger[t] = Null
  BY <1>1 DEF LogDraft, Typed
<1>2. CASE ledger[t] # Null
  <2>1. ledger[t] \in Entries
    BY <1>2, EntryFacts
  <2> DEFINE e == [ledger[t] EXCEPT !.draft = TRUE]
  <2>2. ledger' = [ledger EXCEPT ![t] = e] /\ order' = order
    BY <1>2 DEF LogDraft
  <2>3. /\ e \in Entries /\ e.records = ledger[t].records /\ e.owner = ledger[t].owner
        /\ e.pid = ledger[t].pid /\ e.committed = ledger[t].committed /\ e.draft
    BY <2>1 DEF Entries
  <2> HIDE DEF e
  <2>4. e # Null
    BY <2>3, Apartness
  <2>5. \A u \in Turns : ledger'[u] = IF u = t THEN e ELSE ledger[u]
    BY <2>2 DEF Typed
  <2>6. ledger' \in [Turns -> Entries \cup {Null}]
    BY <2>2, <2>3 DEF Typed
  <2> QED BY <1>2, <2>2, <2>3, <2>4, <2>5, <2>6
<1> QED BY <1>1, <1>2

\* A settled turn leaves the ledger.
LEMMA SettledLogged ==
  ASSUME Typed, NEW t \in Turns, LogSettled(t)
  PROVE  /\ ledger' \in [Turns -> Entries \cup {Null}]
         /\ ledger'[t] = Null /\ \A u \in Turns : u # t => ledger'[u] = ledger[u]
BY DEF Typed, LogSettled

\* A fresh entry.
LEMMA BeginLogged ==
  ASSUME Typed, NEW t \in Turns, LogBegin(t)
  PROVE  /\ ledger' \in [Turns -> Entries \cup {Null}]
         /\ \A u \in Turns : u # t => ledger'[u] = ledger[u]
         /\ ledger'[t] # Null /\ ledger'[t].owner = proc.owner /\ ledger'[t].pid = proc.pid
         /\ ~ledger'[t].committed /\ ~ledger'[t].draft /\ ledger'[t].records = NoRecords
<1> DEFINE e == [owner |-> proc.owner, pid |-> proc.pid, committed |-> FALSE, draft |-> FALSE,
                 records |-> NoRecords]
<1>1. ledger' = [ledger EXCEPT ![t] = e]
  BY DEF LogBegin
<1>2. proc.owner \in Nat /\ proc.pid \in Nat
  BY DEF Typed, Processes
<1>3. /\ e \in Entries /\ e.owner = proc.owner /\ e.pid = proc.pid /\ ~e.committed /\ ~e.draft
      /\ e.records = NoRecords
  BY <1>2, NewTyped DEF Entries
<1> HIDE DEF e
<1>4. e # Null
  BY <1>3, Apartness
<1>5. \A u \in Turns : ledger'[u] = IF u = t THEN e ELSE ledger[u]
  BY <1>1 DEF Typed
<1>6. ledger' \in [Turns -> Entries \cup {Null}]
  BY <1>1, <1>3 DEF Typed
<1> QED BY <1>3, <1>4, <1>5, <1>6

\* Another turn takes over an entry.
LEMMA ResumeLogged ==
  ASSUME Typed, NEW s \in Turns, NEW r \in Turns, s # r, LogResume(s, r), ledger[s] # Null, ledger[r] = Null
  PROVE  /\ ledger' \in [Turns -> Entries \cup {Null}] /\ order' = ReplaceAll(order, s, r)
         /\ \A u \in Turns \ {s, r} : ledger'[u] = ledger[u]
         /\ ledger'[s] = Null
         /\ ledger'[r] # Null /\ ledger'[r].owner = proc.owner /\ ledger'[r].pid = proc.pid
         /\ ledger'[r].committed = ledger[s].committed /\ ledger'[r].draft
         /\ ledger'[r].records = ledger[s].records
<1> DEFINE e == [ledger[s] EXCEPT !.owner = proc.owner, !.pid = proc.pid, !.draft = TRUE]
<1>1. ledger' = [ledger EXCEPT ![s] = Null, ![r] = e] /\ order' = ReplaceAll(order, s, r)
  BY DEF LogResume
<1>2. proc.owner \in Nat /\ proc.pid \in Nat /\ ledger[s] \in Entries
  BY EntryFacts DEF Typed, Processes
<1>3. /\ e \in Entries /\ e.owner = proc.owner /\ e.pid = proc.pid
      /\ e.committed = ledger[s].committed /\ e.draft /\ e.records = ledger[s].records
  BY <1>2 DEF Entries
<1> HIDE DEF e
<1>4. e # Null
  BY <1>3, Apartness
<1>5. \A u \in Turns : ledger'[u] = IF u = r THEN e ELSE IF u = s THEN Null ELSE ledger[u]
  BY <1>1 DEF Typed
<1>6. ledger' \in [Turns -> Entries \cup {Null}]
  BY <1>1, <1>3 DEF Typed
<1> QED BY <1>1, <1>3, <1>4, <1>5, <1>6

\* Records that Commit keeps.
LEMMA TouchedFacts ==
  ASSUME NEW rs \in RecordSets
  PROVE  /\ Touched(rs) \in RecordSets
         /\ \A f \in Files : Touched(rs)[f] = IF rs[f] # Null /\ rs[f].before # rs[f].after
                                              THEN rs[f] ELSE Null
BY DEF Touched, RecordSets

\* Begin.
LEMMA BeginEffect ==
  ASSUME Typed, NEW t \in Turns, Begin(t)
  PROVE  /\ Ready /\ fate[t] \in {"fresh", "open"} /\ task.op \in {"none", "revert"}
         /\ tx.pc = "idle" /\ Active = {} /\ In("draft") = {}
         /\ LogBegin(t)
         /\ journal' \in [Turns -> Journals]
         /\ \A u \in Turns : u # t => journal'[u] = journal[u]
         /\ journal'[t].place = "active" /\ journal'[t].records = NoRecords
         /\ \A u \in Turns : fate'[u] = IF u = t THEN "open" ELSE fate[u]
         /\ \A u \in Turns : untold'[u] = IF u = t THEN {} ELSE untold[u]
         /\ \A u \in Turns : u # t => replaced'[u] = replaced[u]
         /\ \A f \in Files : f \in replaced'[t] <=> f \in replaced[t] \/ Left(t, f)
         /\ UNCHANGED <<file, refs, proc, task, tx, writer, origin, count>>
<1> DEFINE j == [place |-> "active", records |-> NoRecords]
<1>1. j \in Journals /\ j.place = "active" /\ j.records = NoRecords
  BY NewTyped DEF Journals, Places
<1>2. Moves(t, j)
  BY DEF Begin, Moves
<1> HIDE DEF j
<1>3. journal' \in [Turns -> Journals] /\ \A u \in Turns : journal'[u] = IF u = t THEN j ELSE journal[u]
  BY <1>1, <1>2, JournalMoved
<1>4. /\ \A u \in Turns : fate'[u] = IF u = t THEN "open" ELSE fate[u]
      /\ \A u \in Turns : untold'[u] = IF u = t THEN {} ELSE untold[u]
  BY DEF Begin, Typed
<1>5. /\ \A u \in Turns : u # t => replaced'[u] = replaced[u]
      /\ \A f \in Files : f \in replaced'[t] <=> f \in replaced[t] \/ Left(t, f)
  BY DEF Begin, Typed
<1> QED BY <1>1, <1>3, <1>4, <1>5 DEF Begin

\* ResumeDraft, by the turn itself and by another one.
LEMMA ResumeOwnEffect ==
  ASSUME Typed, NEW t \in Turns, ResumeDraft(t, t)
  PROVE  /\ Ready /\ Idle /\ Active = {} /\ journal[t].place = "draft" /\ fate[t] = "open"
         /\ journal' \in [Turns -> Journals]
         /\ \A u \in Turns : u # t => journal'[u] = journal[u]
         /\ journal'[t].place = "active" /\ journal'[t].records = journal[t].records
         /\ UNCHANGED <<ledger, order, fate, writer, origin, untold, replaced, file, refs, proc,
                        task, tx, count>>
<1>1. Shifts(t, "active") /\ "active" \in Places
  BY DEF ResumeDraft, Shifts, Places
<1>2. Ready /\ Idle /\ Active = {} /\ journal[t].place = "draft" /\ fate[t] = "open"
  BY DEF ResumeDraft, In
<1>3. UNCHANGED <<ledger, order, fate, writer, origin, untold, replaced, file, refs, proc,
                  task, tx, count>>
  BY DEF ResumeDraft
<1> QED BY <1>1, <1>2, <1>3, JournalShifted

\* A Continue takes over the draft of another turn: its records, its place in the ledger, its
\* changes.
LEMMA ResumeEffect ==
  ASSUME Typed, NEW s \in Turns, NEW r \in Turns, s # r, ResumeDraft(s, r)
  PROVE  /\ Ready /\ Idle /\ Active = {} /\ journal[s].place = "draft"
         /\ fate[r] = "fresh" /\ fate[s] = "draft" /\ LogResume(s, r)
         /\ journal' \in [Turns -> Journals]
         /\ \A u \in Turns \ {s, r} : journal'[u] = journal[u]
         /\ journal'[s].place = "none" /\ journal'[s].records = NoRecords
         /\ journal'[r].place = "active" /\ journal'[r].records = journal[s].records
         /\ \A u \in Turns : fate'[u] = IF u = s THEN "resumed" ELSE IF u = r THEN "open" ELSE fate[u]
         /\ \A f \in Files : writer'[f] = IF writer[f] = s THEN r ELSE writer[f]
         /\ \A u \in Turns : origin'[u] = IF u = r THEN origin[s] ELSE IF u = s THEN NoRecords
                                          ELSE origin[u]
         /\ \A u \in Turns : untold'[u] = IF u = r THEN untold[s] ELSE IF u = s THEN {}
                                          ELSE untold[u]
         /\ \A u \in Turns : replaced'[u] = IF u = r THEN replaced[s] ELSE IF u = s THEN {}
                                            ELSE replaced[u]
         /\ UNCHANGED <<file, refs, proc, task, tx, count>>
<1> DEFINE j == [place |-> "active", records |-> journal[s].records]
<1>1. journal[s].records \in RecordSets
  BY EntryFacts
<1>2. j \in Journals /\ j.place = "active" /\ j.records = journal[s].records
  BY <1>1 DEF Journals, Places
<1>3. journal' = [journal EXCEPT ![s] = NoJournal, ![r] = j]
  BY DEF ResumeDraft
<1> HIDE DEF j
<1>4. \A u \in Turns : journal'[u] = IF u = r THEN j ELSE IF u = s THEN NoJournal ELSE journal[u]
  BY <1>3 DEF Typed
<1>5. journal' \in [Turns -> Journals]
  BY <1>2, <1>3, NewTyped DEF Typed, Journals
<1>6. NoJournal.place = "none" /\ NoJournal.records = NoRecords
  BY DEF NoJournal
<1>7. /\ \A u \in Turns : fate'[u] = IF u = s THEN "resumed" ELSE IF u = r THEN "open" ELSE fate[u]
      /\ \A f \in Files : writer'[f] = IF writer[f] = s THEN r ELSE writer[f]
      /\ \A u \in Turns : origin'[u] = IF u = r THEN origin[s] ELSE IF u = s THEN NoRecords
                                       ELSE origin[u]
  BY DEF ResumeDraft, Typed
<1>9. /\ \A u \in Turns : untold'[u] = IF u = r THEN untold[s] ELSE IF u = s THEN {}
                                       ELSE untold[u]
      /\ \A u \in Turns : replaced'[u] = IF u = r THEN replaced[s] ELSE IF u = s THEN {}
                                         ELSE replaced[u]
  BY DEF ResumeDraft, Typed
<1>8. /\ Ready /\ Idle /\ Active = {} /\ journal[s].place = "draft"
      /\ fate[r] = "fresh" /\ fate[s] = "draft" /\ LogResume(s, r)
      /\ UNCHANGED <<file, refs, proc, task, tx, count>>
  BY DEF ResumeDraft, In
<1> QED BY <1>2, <1>4, <1>5, <1>6, <1>7, <1>8, <1>9

\* Commit, Suspend and KeepDraft.
LEMMA CommitEffect ==
  ASSUME Typed, NEW t \in Turns, Commit(t)
  PROVE  /\ Ready /\ Idle /\ journal[t].place = "active" /\ LogCommit(t)
         /\ journal' \in [Turns -> Journals]
         /\ \A u \in Turns : u # t => journal'[u] = journal[u]
         /\ journal'[t].place = "committed"
         /\ \A f \in Files : journal'[t].records[f] =
              IF journal[t].records[f] # Null
                 /\ journal[t].records[f].before # journal[t].records[f].after
              THEN journal[t].records[f] ELSE Null
         /\ \A u \in Turns : fate'[u] = IF u = t THEN "kept" ELSE fate[u]
         /\ UNCHANGED <<file, proc, task, tx, writer, origin, count>>
<1> DEFINE rs == journal[t].records
           j == [place |-> "committed", records |-> Touched(rs)]
<1>1. rs \in RecordSets
  BY EntryFacts
<1>2. j \in Journals /\ j.place = "committed" /\ j.records = Touched(rs)
  BY <1>1, TouchedFacts DEF Journals, Places
<1>3. Moves(t, j)
  BY DEF Commit, Moves
<1> HIDE DEF j
<1>4. journal' \in [Turns -> Journals] /\ \A u \in Turns : journal'[u] = IF u = t THEN j ELSE journal[u]
  BY <1>2, <1>3, JournalMoved
<1>5. /\ Ready /\ Idle /\ journal[t].place = "active" /\ LogCommit(t)
      /\ \A u \in Turns : fate'[u] = IF u = t THEN "kept" ELSE fate[u]
      /\ UNCHANGED <<file, proc, task, tx, writer, origin, count>>
  BY DEF Commit, Active, In, Typed
<1> QED BY <1>1, <1>2, <1>4, <1>5, TouchedFacts

\* Suspend makes a draft, or settles a turn that changed nothing.
LEMMA SuspendEffect ==
  ASSUME Typed, NEW t \in Turns, Suspend(t)
  PROVE  /\ Ready /\ Idle /\ journal[t].place = "active"
         /\ journal' \in [Turns -> Journals]
         /\ \A u \in Turns : u # t => journal'[u] = journal[u]
         /\ \/ /\ Changed(journal[t].records) /\ LogDraft(t) /\ refs' = refs
               /\ journal'[t].place = "draft" /\ journal'[t].records = journal[t].records
               /\ \A u \in Turns : fate'[u] = IF u = t THEN "draft" ELSE fate[u]
            \/ /\ ~Changed(journal[t].records) /\ LogSettled(t)
               /\ journal'[t].place = "none" /\ journal'[t].records = NoRecords
               /\ \A u \in Turns : fate'[u] = IF u = t THEN "settled" ELSE fate[u]
         /\ UNCHANGED <<file, proc, task, tx, writer, origin, count>>
<1>1. /\ Ready /\ Idle /\ journal[t].place = "active"
      /\ UNCHANGED <<file, proc, task, tx, writer, origin, count>>
  BY DEF Suspend, Active, In
<1>2. CASE Changed(journal[t].records)
  <2>1. Shifts(t, "draft") /\ "draft" \in Places /\ LogDraft(t) /\ refs' = refs
    BY <1>2 DEF Suspend, Shifts, Places
  <2>2. \A u \in Turns : fate'[u] = IF u = t THEN "draft" ELSE fate[u]
    BY <1>2 DEF Suspend, Typed
  <2> QED BY <1>1, <1>2, <2>1, <2>2, JournalShifted
<1>3. CASE ~Changed(journal[t].records)
  <2>1. Moves(t, NoJournal) /\ LogSettled(t)
    BY <1>3 DEF Suspend, Moves
  <2>2. \A u \in Turns : fate'[u] = IF u = t THEN "settled" ELSE fate[u]
    BY <1>3 DEF Suspend, Typed
  <2>3. NoJournal \in Journals /\ NoJournal.place = "none" /\ NoJournal.records = NoRecords
    BY NewTyped DEF NoJournal, Journals
  <2> QED BY <1>1, <1>3, <2>1, <2>2, <2>3, JournalMoved
<1> QED BY <1>2, <1>3

\* A withdrawn draft counts as committed.
LEMMA KeepDraftEffect ==
  ASSUME Typed, NEW t \in Turns, KeepDraft(t)
  PROVE  /\ Ready /\ Idle /\ journal[t].place = "draft" /\ fate[t] = "draft" /\ LogCommit(t)
         /\ journal' \in [Turns -> Journals]
         /\ \A u \in Turns : u # t => journal'[u] = journal[u]
         /\ journal'[t].place = "committed" /\ journal'[t].records = journal[t].records
         /\ \A u \in Turns : fate'[u] = IF u = t THEN "kept" ELSE fate[u]
         /\ UNCHANGED <<file, refs, proc, task, tx, writer, origin, count>>
<1>1. Shifts(t, "committed") /\ "committed" \in Places
  BY DEF KeepDraft, Shifts, Places
<1>2. /\ Ready /\ Idle /\ journal[t].place = "draft" /\ fate[t] = "draft" /\ LogCommit(t)
      /\ \A u \in Turns : fate'[u] = IF u = t THEN "kept" ELSE fate[u]
      /\ UNCHANGED <<file, refs, proc, task, tx, writer, origin, count>>
  BY DEF KeepDraft, In, Typed
<1> QED BY <1>1, <1>2, JournalShifted

\* Rollback, Revert and their ends.
LEMMA RollbackEffect ==
  ASSUME Typed, NEW t \in Turns, Rollback(t)
  PROVE  /\ Ready /\ Idle /\ journal[t].place \in {"active", "unresolved"}
         /\ journal' \in [Turns -> Journals]
         /\ \A u \in Turns : u # t => journal'[u] = journal[u]
         /\ journal'[t].place = "rollback" /\ journal'[t].records = journal[t].records
         /\ \A u \in Turns : fate'[u] = IF u = t THEN "undone" ELSE fate[u]
         /\ task' \in Tasks /\ task'.op = "rollback" /\ task'.turn = t /\ task'.step = "restore"
         /\ ~task'.conflict /\ task'.todo = Paths(journal[t].records)
         /\ UNCHANGED <<file, ledger, order, refs, proc, tx, writer, origin, count>>
<1>1. Shifts(t, "rollback") /\ "rollback" \in Places
  BY DEF Rollback, Shifts, Places
<1>2. /\ Ready /\ Idle /\ journal[t].place \in {"active", "unresolved"}
      /\ \A u \in Turns : fate'[u] = IF u = t THEN "undone" ELSE fate[u]
      /\ UNCHANGED <<file, ledger, order, refs, proc, tx, writer, origin, count>>
  BY DEF Rollback, Active, In, Typed
<1>3. /\ task' \in Tasks /\ task'.op = "rollback" /\ task'.turn = t /\ task'.step = "restore"
      /\ ~task'.conflict /\ task'.todo = Paths(journal[t].records)
  BY DEF Rollback, StartTask, NoTask, Tasks, Paths
<1> QED BY <1>1, <1>2, <1>3, JournalShifted

\* Revert leaves the journal where it is until the restore is done.
LEMMA RevertEffect ==
  ASSUME Typed, NEW t \in Turns, Revert(t)
  PROVE  /\ Ready /\ Idle /\ journal[t].place \in {"committed", "draft"}
         /\ task' \in Tasks /\ task'.op = "revert" /\ task'.turn = t /\ task'.step = "restore"
         /\ ~task'.conflict /\ task'.todo = Paths(journal[t].records)
         /\ UNCHANGED <<file, ledger, order, refs, proc, journal, tx, fate, writer, origin, count>>
<1>1. /\ Ready /\ Idle /\ journal[t].place \in {"committed", "draft"}
      /\ UNCHANGED <<file, ledger, order, refs, proc, journal, tx, fate, writer, origin, count>>
  BY DEF Revert, In
<1>2. /\ task' \in Tasks /\ task'.op = "revert" /\ task'.turn = t /\ task'.step = "restore"
      /\ ~task'.conflict /\ task'.todo = Paths(journal[t].records)
  BY DEF Revert, StartTask, NoTask, Tasks, Paths
<1> QED BY <1>1, <1>2

\* The end of a rollback: settled, or kept to be rolled back again.
LEMMA RollbackDoneEffect ==
  ASSUME Typed, Restoring, RollbackDone
  PROVE  /\ task.op = "rollback" /\ task.turn \in Turns /\ task.todo = {} /\ task' = NoTask
         /\ journal' \in [Turns -> Journals]
         /\ \A u \in Turns : u # task.turn => journal'[u] = journal[u]
         /\ \/ /\ UNCHANGED <<ledger, order>> /\ journal'[task.turn].place = "unresolved"
               /\ journal'[task.turn].records = journal[task.turn].records
            \/ /\ ~task.conflict /\ LogSettled(task.turn)
               /\ journal'[task.turn].place = "none" /\ journal'[task.turn].records = NoRecords
         /\ UNCHANGED <<file, refs, proc, tx, fate, writer, origin>>
<1>1. /\ task.op = "rollback" /\ task.todo = {} /\ task' = NoTask
      /\ UNCHANGED <<file, refs, proc, tx, fate, writer, origin>>
  BY DEF RollbackDone
<1>2. task.turn \in Turns
  BY <1>1 DEF Restoring
<1>3. \/ UNCHANGED <<ledger, order>> /\ Shifts(task.turn, "unresolved")
      \/ ~task.conflict /\ LogSettled(task.turn) /\ Moves(task.turn, NoJournal)
  BY DEF RollbackDone, Shifts, Moves
<1>4. "unresolved" \in Places
  BY DEF Places
<1>5. NoJournal \in Journals /\ NoJournal.place = "none" /\ NoJournal.records = NoRecords
  BY NewTyped DEF NoJournal, Journals
<1> QED BY <1>1, <1>2, <1>3, <1>4, <1>5, JournalMoved, JournalShifted

\* The end of a revert: forgotten in memory, or left as it was.
LEMMA RevertDoneEffect ==
  ASSUME Typed, Restoring, RevertDone
  PROVE  /\ task.op = "revert" /\ task.turn \in Turns /\ task.step = "restore" /\ task.todo = {}
         /\ \/ task' = NoTask /\ UNCHANGED <<journal, fate>>
            \/ /\ ~task.conflict /\ task' = [task EXCEPT !.step = "settle"]
               /\ journal' \in [Turns -> Journals]
               /\ \A u \in Turns : u # task.turn => journal'[u] = journal[u]
               /\ journal'[task.turn].place = "none" /\ journal'[task.turn].records = NoRecords
               /\ \A u \in Turns : fate'[u] = IF u = task.turn THEN "undone" ELSE fate[u]
         /\ UNCHANGED <<file, ledger, order, refs, proc, tx, writer, origin, count>>
<1>1. /\ task.op = "revert" /\ task.todo = {} /\ task.step = "restore"
      /\ UNCHANGED <<file, ledger, order, refs, proc, tx, writer, origin, count>>
  BY DEF RevertDone
<1>2. task.turn \in Turns
  BY <1>1 DEF Restoring
<1>3. \/ task' = NoTask /\ UNCHANGED <<journal, fate>>
      \/ /\ ~task.conflict /\ task' = [task EXCEPT !.step = "settle"] /\ Moves(task.turn, NoJournal)
         /\ fate' = [fate EXCEPT ![task.turn] = "undone"]
  BY DEF RevertDone, Moves
<1>4. NoJournal \in Journals /\ NoJournal.place = "none" /\ NoJournal.records = NoRecords
  BY NewTyped DEF NoJournal, Journals
<1>5. fate' = [fate EXCEPT ![task.turn] = "undone"] =>
        \A u \in Turns : fate'[u] = IF u = task.turn THEN "undone" ELSE fate[u]
  BY DEF Typed
<1> QED BY <1>1, <1>2, <1>3, <1>4, <1>5, JournalMoved

\* One step of a restore.
LEMMA RestoreEffect ==
  ASSUME Typed, Restoring, NEW f \in Files, Restore(f)
  PROVE  /\ task.op # "none" /\ task.turn \in Turns /\ f \in task.todo
         /\ journal' \in [Turns -> Journals]
         /\ \A u \in Turns : journal'[u].place = journal[u].place
         /\ \A u \in Turns, g \in Files :
              journal'[u].records[g] = IF u = task.turn /\ g = f THEN Null ELSE journal[u].records[g]
         /\ task' = [task EXCEPT !.todo = @ \ {f}]
         /\ \A g \in Files : writer'[g] = IF g = f THEN Null ELSE writer[g]
         /\ \A g \in Files : g # f => file'[g] = file[g]
         /\ file'[f].data = DataOf(journal[task.turn].records[f].before)
         /\ file'[f].version = file[f].version + 1
         /\ UNCHANGED <<ledger, order, proc, tx, fate, origin, count>>
<1>1. /\ task.op # "none" /\ f \in task.todo /\ task' = [task EXCEPT !.todo = @ \ {f}]
      /\ UNCHANGED <<ledger, order, proc, tx, fate, origin, count>>
  BY DEF Restore
<1>2. task.turn \in Turns
  BY <1>1 DEF Restoring
<1>3. Puts(task.turn, f, Null)
  BY DEF Restore, Puts
<1>4. /\ \A g \in Files : writer'[g] = IF g = f THEN Null ELSE writer[g]
      /\ \A g \in Files : g # f => file'[g] = file[g]
      /\ file'[f].data = DataOf(journal[task.turn].records[f].before)
      /\ file'[f].version = file[f].version + 1
  BY DEF Restore, Typed
<1> QED BY <1>1, <1>2, <1>3, <1>4, JournalSet DEF Journals

\* A turn that recovery has gone through.
LEMMA KeptFacts ==
  ASSUME Typed, NEW t \in Turns, NEW entry \in Entries \cup {Null}, Kept(t, entry), proc.todo # <<>>
  PROVE  /\ proc' \in Processes
         /\ proc'.stage = proc.stage /\ proc'.owner = proc.owner /\ proc'.pid = proc.pid
         /\ proc'.clean = proc.clean /\ proc'.todo = Tail(proc.todo)
         /\ \A u \in Turns : proc'.keep[u] = IF u = t THEN entry ELSE proc.keep[u]
<1>1. /\ proc \in Processes /\ proc.keep \in [Turns -> Entries \cup {Null}]
      /\ proc.todo \in Seq(Turns)
  BY DEF Typed, Processes
<1> DEFINE k == [proc.keep EXCEPT ![t] = entry]
<1>2. k \in [Turns -> Entries \cup {Null}] /\ \A u \in Turns : k[u] = IF u = t THEN entry ELSE proc.keep[u]
  BY <1>1
<1>3. Tail(proc.todo) \in Seq(Turns)
  BY <1>1
<1>4. proc' = [proc EXCEPT !.todo = Tail(proc.todo), !.keep = k]
  BY <1>1 DEF Kept, Processes
<1> HIDE DEF k
<1> QED BY <1>1, <1>2, <1>3, <1>4 DEF Processes

\* What is left to visit.
LEMMA TodoTail ==
  ASSUME Typed, proc.todo # <<>>, proc'.todo = Tail(proc.todo)
  PROVE  /\ Head(proc.todo) \in Turns /\ 1 \in 1..Len(proc.todo) /\ proc.todo[1] = Head(proc.todo)
         /\ \A i \in 1..Len(proc'.todo) : \E k \in 1..Len(proc.todo) : proc'.todo[i] = proc.todo[k]
         /\ \A k \in 1..Len(proc.todo) :
              proc.todo[k] = Head(proc.todo) \/ \E i \in 1..Len(proc'.todo) : proc'.todo[i] = proc.todo[k]
<1> DEFINE s == proc.todo
           q == Tail(s)
<1>1. s \in Seq(Turns) /\ s # <<>>
  BY DEF Typed, Processes
<1> HIDE DEF s
<1>2. /\ Len(s) \in Nat /\ Len(s) >= 1 /\ Head(s) = s[1] /\ Head(s) \in Turns
      /\ Len(q) = Len(s) - 1 /\ \A i \in 1..Len(q) : q[i] = s[i + 1]
  BY <1>1
<1> HIDE DEF q
<1>3. \A i \in 1..Len(q) : i + 1 \in 1..Len(s)
  BY <1>2
<1>4. \A k \in 1..Len(s) : k = 1 \/ (k - 1 \in 1..Len(q) /\ (k - 1) + 1 = k)
  BY <1>2
<1>5. \A i \in 1..Len(q) : \E k \in 1..Len(s) : q[i] = s[k]
  BY <1>2, <1>3
<1>6. \A k \in 1..Len(s) : s[k] = Head(s) \/ \E i \in 1..Len(q) : q[i] = s[k]
  BY <1>2, <1>4
<1>7. 1 \in 1..Len(s)
  BY <1>2
<1> QED BY <1>2, <1>5, <1>6, <1>7 DEF s, q

\* The turns recovery drops, skips and adopts.
LEMMA RecoverEffect ==
  ASSUME Typed, Staged, NEW t \in Turns, RecoverDrop(t) \/ RecoverSkip(t) \/ RecoverDraft(t)
  PROVE  /\ proc.stage = "recovering" /\ task.op = "none" /\ proc.todo # <<>> /\ t = Head(proc.todo)
         /\ ledger[t] # Null
         /\ proc' \in Processes
         /\ proc'.stage = proc.stage /\ proc'.owner = proc.owner /\ proc'.pid = proc.pid
         /\ proc'.clean = proc.clean /\ proc'.todo = Tail(proc.todo)
         /\ \A u \in Turns : u # t => proc'.keep[u] = proc.keep[u]
         /\ \/ /\ proc'.keep[t] = Null /\ (EmptyDraft(t) \/ ledger[t].committed)
               /\ journal' = journal
            \/ /\ proc'.keep[t] = ledger[t] /\ ~ledger[t].committed /\ ledger[t].pid = proc.pid
               /\ journal' = journal
            \/ /\ proc'.keep[t] = ledger[t] /\ ~ledger[t].committed /\ ledger[t].draft
               /\ journal' \in [Turns -> Journals]
               /\ \A u \in Turns : u # t => journal'[u] = journal[u]
               /\ journal'[t].place = "draft" /\ journal'[t].records = ledger[t].records
         /\ UNCHANGED <<file, ledger, order, task, tx, fate, writer, origin, count>>
<1>1. /\ proc.stage = "recovering" /\ task.op = "none" /\ proc.todo # <<>> /\ t = Head(proc.todo)
      /\ UNCHANGED <<file, ledger, order, task, tx, fate, writer, origin, count>>
  BY DEF RecoverDrop, RecoverSkip, RecoverDraft, Recovering
<1>2. ledger[t] # Null
  <2>1. proc.todo \in Seq(Turns)
    BY DEF Typed, Processes
  <2>2. 1 \in 1..Len(proc.todo) /\ Head(proc.todo) = proc.todo[1]
    BY <1>1, <2>1
  <2> QED BY <1>1, <2>2 DEF Staged, Outstanding
<1>3. ledger[t] \in Entries /\ ledger[t].records \in RecordSets
  BY <1>2, EntryFacts
<1>4. CASE RecoverDrop(t)
  <2>1. Kept(t, Null) /\ journal' = journal /\ (EmptyDraft(t) \/ ledger[t].committed)
    BY <1>4 DEF RecoverDrop
  <2> QED BY <1>1, <1>2, <2>1, KeptFacts
<1>5. CASE RecoverSkip(t)
  <2>1. Kept(t, ledger[t]) /\ journal' = journal /\ ~ledger[t].committed /\ ledger[t].pid = proc.pid
    BY <1>5 DEF RecoverSkip, Alive
  <2> QED BY <1>1, <1>2, <1>3, <2>1, KeptFacts
<1>6. CASE RecoverDraft(t)
  <2> DEFINE j == [place |-> "draft", records |-> ledger[t].records]
  <2>1. Kept(t, ledger[t]) /\ ~ledger[t].committed /\ ledger[t].draft /\ Moves(t, j)
    BY <1>6 DEF RecoverDraft, Moves
  <2>2. j \in Journals /\ j.place = "draft" /\ j.records = ledger[t].records
    BY <1>3 DEF Journals, Places
  <2> HIDE DEF j
  <2>3. journal' \in [Turns -> Journals] /\ \A u \in Turns : journal'[u] = IF u = t THEN j ELSE journal[u]
    BY <2>1, <2>2, JournalMoved
  <2> QED BY <1>1, <1>2, <1>3, <2>1, <2>2, <2>3, KeptFacts
<1> QED BY <1>4, <1>5, <1>6

\* Recovery adopts an interrupted turn to restore it.
LEMMA RecoverTurnEffect ==
  ASSUME Typed, Staged, NEW t \in Turns, RecoverTurn(t)
  PROVE  /\ proc.stage = "recovering" /\ task.op = "none" /\ proc.todo # <<>> /\ t = Head(proc.todo)
         /\ ledger[t] # Null /\ ~ledger[t].committed /\ ~ledger[t].draft /\ ledger[t].pid # proc.pid
         /\ journal' \in [Turns -> Journals]
         /\ \A u \in Turns : u # t => journal'[u] = journal[u]
         /\ journal'[t].place = "adopted" /\ journal'[t].records = ledger[t].records
         /\ task' \in Tasks /\ task'.op = "recover" /\ task'.turn = t /\ task'.step = "restore"
         /\ ~task'.conflict /\ task'.todo = Paths(ledger[t].records)
         /\ UNCHANGED <<file, ledger, order, refs, proc, tx, fate, writer, origin, count>>
<1>1. /\ proc.stage = "recovering" /\ task.op = "none" /\ proc.todo # <<>> /\ t = Head(proc.todo)
      /\ ~ledger[t].committed /\ ~ledger[t].draft /\ ledger[t].pid # proc.pid
      /\ UNCHANGED <<file, ledger, order, refs, proc, tx, fate, writer, origin, count>>
  BY DEF RecoverTurn, Recovering, Alive
<1>2. ledger[t] # Null
  <2>1. proc.todo \in Seq(Turns)
    BY DEF Typed, Processes
  <2>2. 1 \in 1..Len(proc.todo) /\ Head(proc.todo) = proc.todo[1]
    BY <1>1, <2>1
  <2> QED BY <1>1, <2>2 DEF Staged, Outstanding
<1>3. ledger[t] \in Entries /\ ledger[t].records \in RecordSets
  BY <1>2, EntryFacts
<1> DEFINE j == [place |-> "adopted", records |-> ledger[t].records]
<1>4. Moves(t, j)
  BY DEF RecoverTurn, Moves
<1>5. j \in Journals /\ j.place = "adopted" /\ j.records = ledger[t].records
  BY <1>3 DEF Journals, Places
<1> HIDE DEF j
<1>6. journal' \in [Turns -> Journals] /\ \A u \in Turns : journal'[u] = IF u = t THEN j ELSE journal[u]
  BY <1>4, <1>5, JournalMoved
<1>7. /\ task' \in Tasks /\ task'.op = "recover" /\ task'.turn = t /\ task'.step = "restore"
      /\ ~task'.conflict /\ task'.todo = Paths(ledger[t].records)
  BY DEF RecoverTurn, StartTask, NoTask, Tasks, Paths
<1> QED BY <1>1, <1>2, <1>5, <1>6, <1>7

\* The end of the restore of an interrupted turn: kept with a conflict, dropped without.
LEMMA RecoverDoneEffect ==
  ASSUME Typed, Restoring, Adopted, RecoverDone
  PROVE  /\ task.op = "recover" /\ task.turn \in Turns /\ task.todo = {} /\ task' = NoTask
         /\ proc.stage = "recovering" /\ proc.todo # <<>>
         /\ journal' \in [Turns -> Journals]
         /\ \A u \in Turns : u # task.turn => journal'[u] = journal[u]
         /\ journal'[task.turn].place = "none" /\ journal'[task.turn].records = NoRecords
         /\ proc' \in Processes
         /\ proc'.stage = proc.stage /\ proc'.owner = proc.owner /\ proc'.pid = proc.pid
         /\ proc'.clean = proc.clean /\ proc'.todo = Tail(proc.todo)
         /\ \A u \in Turns : u # task.turn => proc'.keep[u] = proc.keep[u]
         /\ ~task.conflict => proc'.keep[task.turn] = Null
         /\ task.conflict =>
              /\ proc'.keep[task.turn] # Null /\ Same(proc'.keep[task.turn], ledger[task.turn])
              /\ \A f \in Files : InJournal(task.turn, f) =>
                   proc'.keep[task.turn].records[f] = ledger[task.turn].records[f]
         /\ UNCHANGED <<file, ledger, order, refs, tx, fate, writer, origin, count>>
<1>1. /\ task.op = "recover" /\ task.todo = {} /\ task' = NoTask
      /\ UNCHANGED <<file, ledger, order, refs, tx, fate, writer, origin, count>>
  BY DEF RecoverDone
<1>2. task.turn \in Turns /\ proc.stage = "recovering" /\ proc.todo # <<>> /\ ledger[task.turn] # Null
  BY <1>1 DEF Restoring, Adopted
<1> DEFINE t == task.turn
           R == ledger[t].records
           left == [f \in Files |-> IF journal[t].records[f] # Null \/ R[f] = Null
                               THEN R[f] ELSE [R[f] EXCEPT !.held = FALSE]]
           e == IF task.conflict THEN [ledger[t] EXCEPT !.records = left] ELSE Null
<1>3. ledger[t] \in Entries /\ R \in RecordSets
  BY <1>2, EntryFacts
<1>4. \A f \in Files : R[f] # Null =>
        /\ [R[f] EXCEPT !.held = FALSE] \in Records
        /\ [R[f] EXCEPT !.held = FALSE].before = R[f].before
        /\ [R[f] EXCEPT !.held = FALSE].after = R[f].after
  BY <1>3 DEF RecordSets, Records
<1>5. /\ left \in RecordSets
      /\ \A f \in Files : InJournal(t, f) => left[f] = R[f]
      /\ \A f \in Files : /\ left[f] = Null <=> R[f] = Null
                          /\ left[f] # Null => left[f].before = R[f].before /\ left[f].after = R[f].after
  <2>1. \A f \in Files : left[f] = IF journal[t].records[f] # Null \/ R[f] = Null
                               THEN R[f] ELSE [R[f] EXCEPT !.held = FALSE]
    OBVIOUS
  <2>2. \A f \in Files : R[f] # Null => [R[f] EXCEPT !.held = FALSE] # Null
    BY <1>4, Apartness
  <2>3. left \in RecordSets
    <3>1. \A f \in Files : left[f] \in Records \cup {Null}
      BY <1>3, <1>4, <2>1 DEF RecordSets
    <3> QED BY <3>1 DEF RecordSets
  <2> HIDE DEF left, R
  <2> QED BY <1>4, <2>1, <2>2, <2>3 DEF InJournal
<1>6. /\ [ledger[t] EXCEPT !.records = left] \in Entries
      /\ Same([ledger[t] EXCEPT !.records = left], ledger[t])
      /\ [ledger[t] EXCEPT !.records = left].records = left
  <2> HIDE DEF left
  <2> QED BY <1>3, <1>5 DEF Entries, Same
<1>7. Kept(t, e) /\ Moves(t, NoJournal)
  BY DEF RecoverDone, Moves
<1>8. /\ e \in Entries \cup {Null}
      /\ ~task.conflict => e = Null
      /\ task.conflict => e # Null /\ Same(e, ledger[t]) /\ e.records = left
  BY <1>6, Apartness
<1> HIDE DEF e, left, R, t
<1>9. /\ proc' \in Processes
      /\ proc'.stage = proc.stage /\ proc'.owner = proc.owner /\ proc'.pid = proc.pid
      /\ proc'.clean = proc.clean /\ proc'.todo = Tail(proc.todo)
      /\ \A u \in Turns : proc'.keep[u] = IF u = t THEN e ELSE proc.keep[u]
  BY <1>2, <1>7, <1>8, KeptFacts DEF t
<1>10. NoJournal \in Journals /\ NoJournal.place = "none" /\ NoJournal.records = NoRecords
  BY NewTyped DEF NoJournal, Journals
<1>11. journal' \in [Turns -> Journals] /\ \A u \in Turns : journal'[u] = IF u = t THEN NoJournal ELSE journal[u]
  BY <1>2, <1>7, <1>10, JournalMoved DEF t
<1> QED BY <1>1, <1>2, <1>5, <1>8, <1>9, <1>10, <1>11 DEF t, R

\* The end of recovery, of a manager and of its process.
LEMMA RecoverCompactEffect ==
  ASSUME Typed, RecoverCompact
  PROVE  /\ proc.stage = "recovering" /\ task.op = "none" /\ proc.todo = <<>>
         /\ ledger' \in [Turns -> Entries \cup {Null}] /\ \A t \in Turns : ledger'[t] = proc.keep[t]
         /\ order' = Selected(order, {t \in Turns : proc.keep[t] # Null})
         /\ proc' \in Processes /\ proc'.stage = "ready" /\ proc'.owner = proc.owner
         /\ proc'.pid = proc.pid /\ proc'.clean = proc.clean /\ \A t \in Turns : proc'.keep[t] = Null
         /\ \A t \in Turns : fate'[t] = IF fate[t] = "draft" /\ proc.keep[t] = Null THEN "dropped"
                                        ELSE fate[t]
         /\ UNCHANGED <<file, refs, journal, task, tx, writer, origin, untold, replaced, count>>
<1>1. proc \in Processes /\ proc.keep \in [Turns -> Entries \cup {Null}]
  BY DEF Typed, Processes
<1> DEFINE k == [t \in Turns |-> Null]
<1>2. k \in [Turns -> Entries \cup {Null}] /\ \A t \in Turns : k[t] = Null
  OBVIOUS
<1>3. proc' = [proc EXCEPT !.stage = "ready", !.keep = k]
  BY DEF RecoverCompact
<1> HIDE DEF k
<1>4. /\ proc' \in Processes /\ proc'.stage = "ready" /\ proc'.owner = proc.owner
      /\ proc'.pid = proc.pid /\ proc'.clean = proc.clean /\ proc'.keep = k
  BY <1>1, <1>2, <1>3 DEF Processes, Stages
<1> QED BY <1>1, <1>2, <1>4 DEF RecoverCompact

\* A new owner visits all outstanding turns, in their order.
LEMMA OpenEffect ==
  ASSUME Typed, Ordered, NEW replaces \in BOOLEAN, Open(replaces)
  PROVE  /\ proc.stage = "closed" /\ (replaces => proc.clean)
         /\ proc' \in Processes /\ proc'.stage = "recovering" /\ proc'.owner = proc.owner + 1
         /\ ~proc'.clean /\ proc'.todo = order /\ \A t \in Turns : proc'.keep[t] = Null
         /\ proc'.pid = IF replaces THEN proc.pid ELSE proc.owner + 1
         /\ UNCHANGED <<file, ledger, order, refs, journal, task, tx, fate, writer, origin>>
<1>1. proc \in Processes /\ order \in Seq(Turns)
  BY DEF Typed, Ordered, Listed
<1> DEFINE k == [t \in Turns |-> Null]
<1>2. k \in [Turns -> Entries \cup {Null}] /\ \A t \in Turns : k[t] = Null
  OBVIOUS
<1>3. proc' = [stage |-> "recovering", owner |-> proc.owner + 1, clean |-> FALSE, todo |-> order,
               pid |-> IF replaces THEN proc.pid ELSE proc.owner + 1, keep |-> k]
  BY DEF Open
<1> HIDE DEF k
<1>4. proc.owner + 1 \in Nat /\ proc.pid \in Nat
  BY <1>1 DEF Processes
<1>5. proc' \in Processes
  BY <1>1, <1>2, <1>3, <1>4 DEF Processes, Stages
<1>6. /\ proc.stage = "closed" /\ (replaces => proc.clean)
      /\ UNCHANGED <<file, ledger, order, refs, journal, task, tx, fate, writer, origin>>
  BY DEF Open
<1> QED BY <1>2, <1>3, <1>5, <1>6

\* Close changes only references and stage.
LEMMA CloseEffect ==
  ASSUME Typed, Close
  PROVE  /\ Ready /\ Idle
         /\ proc' \in Processes /\ proc'.stage = "closing" /\ proc'.owner = proc.owner
         /\ proc'.pid = proc.pid /\ proc'.clean = proc.clean /\ proc'.keep = proc.keep
         /\ UNCHANGED <<file, ledger, order, journal, task, tx, fate, writer, origin, count>>
<1>1. proc \in Processes
  BY DEF Typed
<1>2. proc' = [proc EXCEPT !.stage = "closing"]
  BY DEF Close
<1>3. /\ proc' \in Processes /\ proc'.stage = "closing" /\ proc'.owner = proc.owner
      /\ proc'.pid = proc.pid /\ proc'.clean = proc.clean /\ proc'.keep = proc.keep
  BY <1>1, <1>2 DEF Processes, Stages
<1> QED BY <1>3 DEF Close

\* Closed settles the committed turns and disowns the drafts.
LEMMA ClosedEffect ==
  ASSUME Typed, Closed
  PROVE  /\ proc.stage = "closing"
         /\ ledger' \in [Turns -> Entries \cup {Null}]
         /\ \A t \in Turns : journal[t].place = "committed" => ledger'[t] = Null
         /\ \A t \in Turns : journal[t].place # "committed" /\ ledger[t] = Null => ledger'[t] = Null
         /\ \A t \in Turns : journal[t].place # "committed" /\ ledger[t] # Null =>
              /\ ledger'[t] # Null /\ ledger'[t].records = ledger[t].records
              /\ ledger'[t].draft = ledger[t].draft /\ ledger'[t].committed = ledger[t].committed
              /\ IF ledger[t].draft /\ ledger[t].owner = proc.owner
                 THEN ledger'[t].owner = 0 /\ ledger'[t].pid = 0 ELSE ledger'[t] = ledger[t]
         /\ order' = Selected(order, Turns \ In("committed"))
         /\ proc' \in Processes /\ proc'.stage = "closed" /\ proc'.owner = proc.owner
         /\ proc'.pid = proc.pid /\ proc'.clean /\ proc'.keep = proc.keep
         /\ journal' \in [Turns -> Journals]
         /\ \A t \in Turns : journal'[t].place = "none" /\ journal'[t].records = NoRecords
         /\ UNCHANGED <<file, refs, task, tx, fate, writer, origin, count>>
<1>1. proc \in Processes
  BY DEF Typed
<1>2. proc' = [proc EXCEPT !.stage = "closed", !.clean = TRUE]
  BY DEF Closed
<1>3. /\ proc' \in Processes /\ proc'.stage = "closed" /\ proc'.owner = proc.owner
      /\ proc'.pid = proc.pid /\ proc'.clean /\ proc'.keep = proc.keep
  BY <1>1, <1>2 DEF Processes, Stages
<1>4. NoJournal \in Journals /\ NoJournal.place = "none" /\ NoJournal.records = NoRecords
  BY NewTyped DEF NoJournal, Journals
<1>5. journal' \in [Turns -> Journals] /\ \A t \in Turns : journal'[t] = NoJournal
  BY <1>4 DEF Closed
<1> DEFINE e(t) == [ledger[t] EXCEPT !.owner = 0, !.pid = 0]
<1>6. \A t \in Turns : ledger'[t] =
         IF journal[t].place = "committed" THEN Null
         ELSE IF ledger[t] # Null /\ ledger[t].draft /\ ledger[t].owner = proc.owner
         THEN e(t) ELSE ledger[t]
  BY DEF Closed
<1>7. ASSUME NEW t \in Turns, ledger[t] # Null
      PROVE  /\ e(t) \in Entries /\ e(t).records = ledger[t].records /\ e(t).draft = ledger[t].draft
             /\ e(t).committed = ledger[t].committed /\ e(t).owner = 0 /\ e(t).pid = 0 /\ e(t) # Null
  <2>1. ledger[t] \in Entries
    BY <1>7, EntryFacts
  <2>2. /\ e(t) \in Entries /\ e(t).records = ledger[t].records /\ e(t).draft = ledger[t].draft
        /\ e(t).committed = ledger[t].committed /\ e(t).owner = 0 /\ e(t).pid = 0
    BY <2>1 DEF Entries
  <2> QED BY <2>2, Apartness
<1> HIDE DEF e
<1>8. ledger' \in [Turns -> Entries \cup {Null}]
  <2>1. DOMAIN ledger' = Turns /\ ledger' = [t \in Turns |-> ledger'[t]]
    BY DEF Closed
  <2>2. \A t \in Turns : ledger'[t] \in Entries \cup {Null}
    BY <1>6, <1>7 DEF Typed
  <2> QED BY <2>1, <2>2
<1>9. /\ proc.stage = "closing" /\ order' = Selected(order, Turns \ In("committed"))
      /\ UNCHANGED <<file, refs, task, tx, fate, writer, origin, count>>
  BY DEF Closed
<1>10. \A t \in Turns : journal[t].place = "committed" => ledger'[t] = Null
  BY <1>6
<1>11. \A t \in Turns : journal[t].place # "committed" /\ ledger[t] = Null => ledger'[t] = Null
  BY <1>6
<1>12. \A t \in Turns : journal[t].place # "committed" /\ ledger[t] # Null =>
              /\ ledger'[t] # Null /\ ledger'[t].records = ledger[t].records
              /\ ledger'[t].draft = ledger[t].draft /\ ledger'[t].committed = ledger[t].committed
              /\ IF ledger[t].draft /\ ledger[t].owner = proc.owner
                 THEN ledger'[t].owner = 0 /\ ledger'[t].pid = 0 ELSE ledger'[t] = ledger[t]
  BY <1>6, <1>7
<1> QED BY <1>3, <1>4, <1>5, <1>8, <1>9, <1>10, <1>11, <1>12

\* What the ledger was not told before or is not told now.
LEMMA MissedFacts ==
  ASSUME Typed, NEW paths \in SUBSET Files
  PROVE  /\ Missed(paths) \in [Turns -> SUBSET Files]
         /\ \A t \in Turns, f \in Files : f \in Missed(paths)[t] <=>
              \/ f \in untold[t]
              \/ t \in Active /\ f \in paths /\ ledger[t].records[f].after # Fingerprint(f)
BY DEF Missed, Typed

\* A crash loses the memory and nothing on disk.
LEMMA CrashEffect ==
  ASSUME Typed, Crash
  PROVE  /\ proc.stage # "closed"
         /\ proc' \in Processes /\ proc'.stage = "closed" /\ proc'.owner = proc.owner
         /\ proc'.pid = proc.pid /\ proc'.clean = proc.clean /\ \A t \in Turns : proc'.keep[t] = Null
         /\ journal' \in [Turns -> Journals]
         /\ \A t \in Turns : journal'[t].place = "none" /\ journal'[t].records = NoRecords
         /\ task' = NoTask /\ tx' = NoTx /\ untold' = Missed(tx.done)
         /\ UNCHANGED <<file, ledger, order, refs, fate, writer, origin, replaced, count>>
<1>1. proc \in Processes
  BY DEF Typed
<1> DEFINE k == [t \in Turns |-> Null]
<1>2. k \in [Turns -> Entries \cup {Null}] /\ \A t \in Turns : k[t] = Null
  OBVIOUS
<1> DEFINE none == <<>>
<1>3. proc' = [proc EXCEPT !.stage = "closed", !.todo = none, !.keep = k] /\ none \in Seq(Turns)
  BY DEF Crash
<1> HIDE DEF k, none
<1>4. /\ proc' \in Processes /\ proc'.stage = "closed" /\ proc'.owner = proc.owner
      /\ proc'.pid = proc.pid /\ proc'.clean = proc.clean /\ proc'.keep = k
  BY <1>1, <1>2, <1>3 DEF Processes, Stages
<1>5. NoJournal \in Journals /\ NoJournal.place = "none" /\ NoJournal.records = NoRecords
  BY NewTyped DEF NoJournal, Journals
<1>6. journal' \in [Turns -> Journals] /\ \A t \in Turns : journal'[t] = NoJournal
  BY <1>5 DEF Crash
<1> QED BY <1>2, <1>4, <1>5, <1>6 DEF Crash

-----------------------------------------------------------------------------
(* The transaction and the restore under way.                              *)

\* The next step of a transaction.
LEMMA AdvancedFacts ==
  ASSUME Typed, NEW pc \in {"apply", "record", "amend"}, NEW f \in Files
  PROVE  /\ Advanced(pc, f) \in Transactions
         /\ Advanced(pc, f).plan = tx.plan /\ Advanced(pc, f).before = tx.before
         /\ Advanced(pc, f).done = tx.done
         /\ tx.todo = {f} => Advanced(pc, f).pc = pc /\ Advanced(pc, f).todo = Targets
         /\ tx.todo # {f} => Advanced(pc, f).pc = tx.pc /\ Advanced(pc, f).todo = tx.todo \ {f}
<1>1. tx \in Transactions /\ Targets \in SUBSET Files /\ tx.todo \in SUBSET Files
  BY DEF Typed, Transactions, Targets, Paths
<1> HIDE DEF Typed
<1>2. CASE tx.todo = {f}
  BY <1>1, <1>2 DEF Advanced, Transactions
<1>3. CASE tx.todo # {f}
  BY <1>1, <1>3 DEF Advanced, Transactions
<1> QED BY <1>2, <1>3

\* The transaction once it is undone.
LEMMA UndoFacts ==
  ASSUME Typed
  PROVE  /\ Undo(tx.done) \in Transactions
         /\ Undo(tx.done).plan = tx.plan /\ Undo(tx.done).before = tx.before
         /\ Undo(tx.done).done = tx.done
         /\ tx.done = {} => Undo(tx.done).pc = "amend" /\ Undo(tx.done).todo = Targets
         /\ tx.done # {} => Undo(tx.done).pc = "undo" /\ Undo(tx.done).todo = tx.done
<1>1. tx \in Transactions /\ Targets \in SUBSET Files /\ tx.done \in SUBSET Files
  BY DEF Typed, Transactions, Targets, Paths
<1>2. CASE tx.done = {}
  BY <1>1, <1>2 DEF Undo, Transactions
<1>3. CASE tx.done # {}
  BY <1>1, <1>3 DEF Undo, Transactions
<1> QED BY <1>2, <1>3

\* No transaction.
LEMMA NoTxFacts ==
  /\ NoTx \in Transactions /\ NoTx.pc = "idle" /\ NoTx.todo = {} /\ NoTx.done = {}
  /\ Paths(NoTx.plan) = {}
BY NewTyped DEF NoTx, Paths

\* What each step makes of the transaction.
LEMMA PlanEffect ==
  ASSUME Typed, NEW plan \in [Files -> Writes \cup {Null}], Plan(plan)
  PROVE  /\ Ready /\ Idle /\ Active # {}
         /\ tx' \in Transactions /\ tx'.pc = "prepare" /\ tx'.plan = plan /\ tx'.done = {}
         /\ tx'.todo = Paths(plan) /\ \A f \in Paths(plan) : tx'.before[f] \in Fingerprints
         /\ UNCHANGED <<file, ledger, order, refs, proc, journal, task, fate, writer, origin, count>>
<1> DEFINE b == [f \in Files |-> IF plan[f] = Null THEN Null ELSE Fingerprint(f)]
<1>1. b \in [Files -> Fingerprints \cup {Null}] /\ \A f \in Paths(plan) : b[f] \in Fingerprints
  BY FingerprintFacts DEF Paths
<1>2. tx' = [NoTx EXCEPT !.pc = "prepare", !.plan = plan, !.todo = Paths(plan), !.before = b]
  BY DEF Plan
<1> HIDE DEF b
<1>3. /\ tx' \in Transactions /\ tx'.pc = "prepare" /\ tx'.plan = plan /\ tx'.done = {}
      /\ tx'.todo = Paths(plan) /\ tx'.before = b
  <2>1. NoTx \in Transactions /\ NoTx.done = {} /\ Paths(plan) \in SUBSET Files
    BY NoTxFacts DEF Paths
  <2> HIDE DEF NoTx
  <2> QED BY <1>1, <1>2, <2>1 DEF Transactions
<1> QED BY <1>1, <1>3 DEF Plan

\* Apply writes one path for the active turn, or gives up.
LEMMA ApplyEffect ==
  ASSUME Typed, NEW f \in Files, Apply(f)
  PROVE  /\ tx.pc = "apply" /\ Active # {} /\ f \in tx.todo
         /\ tx' \in Transactions /\ tx'.plan = tx.plan /\ tx'.before = tx.before
         /\ \/ /\ Fingerprint(f) = tx.before[f] /\ tx'.done = tx.done \cup {f}
               /\ tx.todo = {f} => tx'.pc = "record" /\ tx'.todo = Targets
               /\ tx.todo # {f} => tx'.pc = "apply" /\ tx'.todo = tx.todo \ {f}
               /\ \A g \in Files : g # f => file'[g] = file[g] /\ writer'[g] = writer[g]
               /\ file'[f].data = tx.plan[f] /\ file'[f].version = file[f].version + 1
               /\ writer'[f] = Turn
            \/ tx' = Undo(tx.done) /\ UNCHANGED <<file, writer>>
         /\ UNCHANGED <<ledger, order, refs, proc, journal, task, fate, origin, count>>
<1>1. /\ tx.pc = "apply" /\ Active # {} /\ f \in tx.todo
      /\ UNCHANGED <<ledger, order, refs, proc, journal, task, fate, origin, count>>
  BY DEF Apply, At
<1>2. CASE Fingerprint(f) # tx.before[f]
  BY <1>1, <1>2, UndoFacts DEF Apply
<1>3. CASE Fingerprint(f) = tx.before[f]
  <2>1. tx' = [Advanced("record", f) EXCEPT !.done = @ \cup {f}]
    BY <1>3 DEF Apply
  <2>2. /\ \A g \in Files : g # f => file'[g] = file[g] /\ writer'[g] = writer[g]
        /\ file'[f].data = tx.plan[f] /\ file'[f].version = file[f].version + 1
        /\ writer'[f] = Turn
    BY <1>3 DEF Apply, Typed
  <2> DEFINE x == Advanced("record", f)
  <2>3. /\ x \in Transactions /\ x.plan = tx.plan /\ x.before = tx.before /\ x.done = tx.done
        /\ tx.todo = {f} => x.pc = "record" /\ x.todo = Targets
        /\ tx.todo # {f} => x.pc = tx.pc /\ x.todo = tx.todo \ {f}
    BY AdvancedFacts
  <2>4. tx' = [x EXCEPT !.done = x.done \cup {f}]
    BY <2>1
  <2> HIDE DEF x
  <2>5. /\ tx' \in Transactions /\ tx'.plan = x.plan /\ tx'.before = x.before /\ tx'.pc = x.pc
        /\ tx'.todo = x.todo /\ tx'.done = x.done \cup {f}
    BY <2>3, <2>4 DEF Transactions
  <2> QED BY <1>1, <1>3, <2>2, <2>3, <2>5
<1> QED BY <1>2, <1>3

\* The undo puts one path back, or leaves it.
LEMMA UndoWriteEffect ==
  ASSUME Typed, NEW f \in Files, UndoWrite(f)
  PROVE  /\ tx.pc = "undo" /\ Active # {} /\ f \in tx.todo
         /\ tx' = Advanced("amend", f)
         /\ \A g \in Files : g # f => file'[g] = file[g]
         /\ \/ file' = file
            \/ file'[f].data = DataOf(tx.before[f]) /\ file'[f].version = file[f].version + 1
         /\ UNCHANGED <<ledger, order, refs, proc, journal, task, fate, writer, origin>>
BY DEF UndoWrite, At, Typed

\* Prepare goes on or ends the transaction.
LEMMA PrepareTx ==
  ASSUME NEW f \in Files, Prepare(f)
  PROVE  tx.pc = "prepare" /\ Active # {} /\ f \in tx.todo
         /\ (tx' = NoTx \/ (tx' = Advanced("apply", f) /\ Before(f)))
BY DEF Prepare, At

\* What the turn left of a path is recorded, in the ledger too unless the append fails.
Settles(f) == After(f) \/ (AfterFails(f) /\ Amend(f) /\ untold' = Missed({f}))

\* Record and Amend go on, end the transaction or undo it.
LEMMA RecordTx ==
  ASSUME NEW f \in Files, Record(f) \/ Amend(f)
  PROVE  /\ tx.pc \in {"record", "amend"} /\ Active # {} /\ f \in tx.todo
         /\ \/ tx.todo = {f} /\ tx' = NoTx /\ Settles(f)
            \/ tx.todo # {f} /\ tx' = [tx EXCEPT !.todo = @ \ {f}] /\ Settles(f)
            \/ tx' = Undo(tx.done) /\ Record(f)
BY DEF Record, Amend, At, Settles

\* While a transaction is under way nothing else happens in the manager.
LEMMA BusySteps ==
  ASSUME Transaction, [Next]_vars, tx.pc # "idle"
  PROVE  \/ UNCHANGED vars \/ Canceled \/ Crash
         \/ \E f \in Files : Prepare(f) \/ Apply(f) \/ Record(f) \/ UndoWrite(f) \/ Amend(f)
         \/ \E f \in Files, data \in UserData : Edit(f, data)
<1>1. Ready /\ task.op = "none" /\ ~Idle
  BY DEF Transaction, Idle
<1> QED BY <1>1 DEF Next, TurnStep, RestoreStep, BrokerStep, ProcessStep, UserStep, Ready, Begin, ResumeDraft,
     Commit, Suspend, KeepDraft, Rollback, Revert, Restore, Conflict, RollbackDone, RevertDone,
     RevertSettled, Plan, Open, RecoverDrop, RecoverSkip, RecoverDraft, RecoverTurn, Recovering,
     RecoverDone, RecoverCompact, Close, Closed

\* While a restore is under way nothing else happens, but that a turn begins next to a revert.
LEMMA RestoreSteps ==
  ASSUME Transaction, Restoring, Staged, [Next]_vars, task.op # "none"
  PROVE  \/ UNCHANGED vars \/ Crash \/ RollbackDone \/ RevertDone \/ RevertSettled \/ RecoverDone
         \/ (task.op = "revert" /\ \E t \in Turns : Begin(t))
         \/ \E f \in Files : Restore(f) \/ Conflict(f)
         \/ \E f \in Files, data \in UserData : Edit(f, data)
<1>1. tx.pc = "idle" /\ ~Idle /\ proc.stage \notin {"closed", "closing"}
  BY DEF Transaction, Idle, Staged
<1> QED BY <1>1 DEF Next, TurnStep, RestoreStep, BrokerStep, ProcessStep, UserStep, Begin, ResumeDraft,
     Commit, Suspend, KeepDraft, Rollback, Revert, Plan, Open, RecoverDrop, RecoverSkip,
     RecoverDraft, RecoverTurn, Recovering, RecoverCompact, Close, Closed, Prepare, Apply, Canceled,
     Record, UndoWrite, Amend, At

\* The transaction keeps its shape.
LEMMA TransactionStep ==
  Typed /\ Transaction /\ PreparedKnown /\ Placed /\ [Next]_vars => Transaction' /\ tx' \in Transactions
<1> SUFFICES ASSUME Typed, Transaction, PreparedKnown, Placed, [Next]_vars
             PROVE  Transaction' /\ tx' \in Transactions
  OBVIOUS
<1>0. tx \in Transactions
  BY DEF Typed
<1>1. ASSUME tx' = NoTx PROVE Transaction' /\ tx' \in Transactions
  BY <1>1, NoTxFacts DEF Transaction, Targets
<1>2. CASE tx.pc = "idle"
  <2>1. tx = NoTx
    BY <1>2 DEF Transaction
  <2>2. CASE tx' = tx
    BY <1>1, <2>1, <2>2
  <2>3. CASE \E plan \in [Files -> Writes \cup {Null}] : Plan(plan)
    <3>1. PICK plan \in [Files -> Writes \cup {Null}] : Plan(plan)
      BY <2>3
    <3>2. /\ Ready /\ Idle /\ Active # {}
          /\ tx' \in Transactions /\ tx'.pc = "prepare" /\ tx'.plan = plan /\ tx'.done = {}
          /\ tx'.todo = Paths(plan) /\ \A f \in Paths(plan) : tx'.before[f] \in Fingerprints
          /\ UNCHANGED <<proc, journal, task>>
      BY <3>1, PlanEffect
    <3> QED BY <3>2 DEF Transaction, Targets, Idle, Ready, Active, In
  <2>4. CASE Crash
    BY <1>1, <2>4 DEF Crash
  <2> QED BY <1>2, <2>2, <2>3, <2>4, TxFrame DEF Prepare, Apply, Canceled, Record, UndoWrite, Amend, At
<1>3. CASE tx.pc # "idle"
  <2>1. Ready /\ task.op = "none" /\ Active # {}
    BY <1>3 DEF Transaction
  <2>2. ASSUME UNCHANGED <<proc, task>>, \A t \in Turns : journal'[t].place = journal[t].place
        PROVE  Ready' /\ task'.op = "none" /\ Active' # {}
    BY <2>1, <2>2 DEF Ready, Active, In
  <2>3. ASSUME UNCHANGED <<proc, task>>, \A t \in Turns : journal'[t].place = journal[t].place,
               tx' = Undo(tx.done)
        PROVE  Transaction' /\ tx' \in Transactions
    <3>1. Ready' /\ task'.op = "none" /\ Active' # {}
      BY <2>2, <2>3
    <3>2. /\ tx' \in Transactions /\ tx'.plan = tx.plan /\ tx'.before = tx.before /\ tx'.done = tx.done
          /\ tx.done = {} => tx'.pc = "amend" /\ tx'.todo = Targets
          /\ tx.done # {} => tx'.pc = "undo" /\ tx'.todo = tx.done
      BY <2>3, UndoFacts
    <3> QED BY <3>1, <3>2 DEF Transaction, Targets
  <2>4. CASE UNCHANGED vars \/ \E f \in Files, data \in UserData : Edit(f, data)
    <3>1. UNCHANGED <<proc, task, journal, tx>>
      BY <2>4 DEF vars, Edit
    <3> QED BY <1>0, <3>1 DEF Transaction, Targets, Ready, Active, In
  <2>5. CASE Canceled
    BY <2>3, <2>5 DEF Canceled
  <2>6. CASE Crash
    BY <1>1, <2>6 DEF Crash
  <2>7. ASSUME NEW f \in Files, Prepare(f) PROVE Transaction' /\ tx' \in Transactions
    <3>1. UNCHANGED <<proc, task>> /\ \A t \in Turns : journal'[t].place = journal[t].place
      BY <2>7, RecordMoves, JournalSet
    <3>2. CASE tx' = Advanced("apply", f)
      <4>1. /\ tx' \in Transactions /\ tx'.plan = tx.plan /\ tx'.before = tx.before /\ tx'.done = tx.done
            /\ tx.todo = {f} => tx'.pc = "apply" /\ tx'.todo = Targets
            /\ tx.todo # {f} => tx'.pc = tx.pc /\ tx'.todo = tx.todo \ {f}
        BY <3>2, AdvancedFacts
      <4>2. tx.pc = "prepare" /\ tx.done = {} /\ tx.todo \subseteq Targets
        BY <2>7, PrepareTx DEF Transaction
      <4>3. Targets' = Targets
        BY <4>1 DEF Targets
      <4>4. Ready' /\ task'.op = "none" /\ Active' # {}
        BY <2>2, <3>1
      <4> QED BY <4>1, <4>2, <4>3, <4>4 DEF Transaction
    <3> QED BY <1>1, <2>7, <3>2, PrepareTx
  <2>8. ASSUME NEW f \in Files, Apply(f) PROVE Transaction' /\ tx' \in Transactions
    <3>1. UNCHANGED <<proc, task, journal>> /\ tx.pc = "apply" /\ f \in tx.todo
      BY <2>8 DEF Apply, At
    <3>2. CASE tx' = Undo(tx.done)
      BY <2>3, <3>1, <3>2
    <3>3. CASE /\ tx' \in Transactions /\ tx'.plan = tx.plan /\ tx'.before = tx.before
               /\ tx'.done = tx.done \cup {f}
               /\ tx.todo = {f} => tx'.pc = "record" /\ tx'.todo = Targets
               /\ tx.todo # {f} => tx'.pc = "apply" /\ tx'.todo = tx.todo \ {f}
      <4>1. tx.done = Targets \ tx.todo /\ tx.todo \subseteq Targets /\ f \in Targets
        BY <3>1 DEF Transaction
      <4>2. Targets' = Targets
        BY <3>3 DEF Targets
      <4>3. Ready' /\ task'.op = "none" /\ Active' # {}
        BY <2>2, <3>1
      <4>4. CASE tx.todo = {f}
        BY <3>3, <4>1, <4>2, <4>3, <4>4 DEF Transaction
      <4>5. CASE tx.todo # {f}
        BY <3>3, <4>1, <4>2, <4>3, <4>5 DEF Transaction
      <4> QED BY <4>4, <4>5
    <3> QED BY <2>8, <3>2, <3>3, ApplyEffect
  <2>9. ASSUME NEW f \in Files, UndoWrite(f) PROVE Transaction' /\ tx' \in Transactions
    <3>1. UNCHANGED <<proc, task, journal>> /\ tx.pc = "undo" /\ tx' = Advanced("amend", f)
      BY <2>9, UndoWriteEffect
    <3>2. /\ tx' \in Transactions /\ tx'.plan = tx.plan /\ tx'.before = tx.before /\ tx'.done = tx.done
          /\ tx.todo = {f} => tx'.pc = "amend" /\ tx'.todo = Targets
          /\ tx.todo # {f} => tx'.pc = tx.pc /\ tx'.todo = tx.todo \ {f}
      BY <3>1, AdvancedFacts
    <3>3. Targets' = Targets
      BY <3>2 DEF Targets
    <3>4. Ready' /\ task'.op = "none" /\ Active' # {}
      BY <2>2, <3>1
    <3> QED BY <3>1, <3>2, <3>3, <3>4 DEF Transaction
  <2>10. ASSUME NEW f \in Files, Record(f) \/ Amend(f) PROVE Transaction' /\ tx' \in Transactions
    <3>1. UNCHANGED <<proc, task>> /\ \A t \in Turns : journal'[t].place = journal[t].place
      BY <2>10, RecordMoves, JournalSet
    <3>2. CASE tx' = [tx EXCEPT !.todo = @ \ {f}]
      <4>1. /\ tx' \in Transactions /\ tx'.plan = tx.plan /\ tx'.before = tx.before /\ tx'.done = tx.done
            /\ tx'.pc = tx.pc /\ tx'.todo = tx.todo \ {f}
        BY <1>0, <3>2 DEF Transactions
      <4>2. Targets' = Targets
        BY <4>1 DEF Targets
      <4>3. Ready' /\ task'.op = "none" /\ Active' # {}
        BY <2>2, <3>1
      <4>4. tx.pc \in {"record", "amend"}
        BY <2>10, RecordTx
      <4> QED BY <4>1, <4>2, <4>3, <4>4 DEF Transaction
    <3> QED BY <1>1, <2>3, <2>10, <3>1, <3>2, RecordTx
  <2> QED BY <1>3, <2>4, <2>5, <2>6, <2>7, <2>8, <2>9, <2>10, BusySteps
<1> QED BY <1>2, <1>3

-----------------------------------------------------------------------------
(* The invariant is preserved: types and shape.                            *)

\* The ledger keeps its type.
LEMMA LedgerTyped == Shape /\ FateKnown /\ [Next]_vars => ledger' \in [Turns -> Entries \cup {Null}]
<1> SUFFICES ASSUME Shape, FateKnown, [Next]_vars PROVE ledger' \in [Turns -> Entries \cup {Null}]
  OBVIOUS
<1>0. Typed /\ Transaction /\ PreparedKnown /\ Restoring /\ Placed /\ ledger \in [Turns -> Entries \cup {Null}]
  BY DEF Shape, Typed
<1>1. ASSUME NEW t \in Turns, Begin(t) PROVE ledger' \in [Turns -> Entries \cup {Null}]
  BY <1>0, <1>1, BeginEffect, BeginLogged
<1>2. ASSUME NEW t \in Turns, Commit(t) \/ KeepDraft(t) PROVE ledger' \in [Turns -> Entries \cup {Null}]
  BY <1>0, <1>2, CommitEffect, KeepDraftEffect, CommitLogged
<1>3. ASSUME NEW t \in Turns, Suspend(t) PROVE ledger' \in [Turns -> Entries \cup {Null}]
  BY <1>0, <1>3, SuspendEffect, DraftLogged, SettledLogged
<1>4. ASSUME NEW t \in Turns, NEW r \in Turns, ResumeDraft(t, r)
      PROVE  ledger' \in [Turns -> Entries \cup {Null}]
  <2>1. CASE t = r
    BY <1>0, <1>4, <2>1, ResumeOwnEffect
  <2>2. CASE t # r
    <3>1. LogResume(t, r) /\ ledger[t] # Null /\ ledger[r] = Null
      BY <1>0, <1>4, <2>2, ResumeEffect DEF FateKnown, Placed, Flagged
    <3> QED BY <1>0, <2>2, <3>1, ResumeLogged
  <2> QED BY <2>1, <2>2
<1>5. ASSUME NEW f \in Files, Prepare(f) \/ Record(f) \/ Amend(f)
      PROVE  ledger' \in [Turns -> Entries \cup {Null}]
  BY <1>0, <1>5, RecordMoves, LedgerSet
<1>6. ASSUME RollbackDone PROVE ledger' \in [Turns -> Entries \cup {Null}]
  BY <1>0, <1>6, RollbackDoneEffect, SettledLogged
<1>7. ASSUME RevertSettled PROVE ledger' \in [Turns -> Entries \cup {Null}]
  <2>1. task.turn \in Turns /\ (LogSettled(task.turn) \/ ledger' = ledger)
    BY <1>0, <1>7 DEF RevertSettled, Restoring
  <2> QED BY <1>0, <2>1, SettledLogged
<1>8. ASSUME RecoverCompact \/ Closed PROVE ledger' \in [Turns -> Entries \cup {Null}]
  BY <1>0, <1>8, RecoverCompactEffect, ClosedEffect
<1> QED BY <1>0, <1>1, <1>2, <1>3, <1>4, <1>5, <1>6, <1>7, <1>8, LedgerFrame

\* The journals keep their type.
LEMMA JournalTyped == Shape /\ Adopted /\ [Next]_vars => journal' \in [Turns -> Journals]
<1> SUFFICES ASSUME Shape, Adopted, [Next]_vars PROVE journal' \in [Turns -> Journals]
  OBVIOUS
<1>0. /\ Typed /\ Transaction /\ PreparedKnown /\ Restoring /\ Placed /\ Staged
      /\ journal \in [Turns -> Journals]
  BY DEF Shape, Typed, Journals
<1>1. ASSUME NEW t \in Turns, \/ Begin(t) \/ Commit(t) \/ Suspend(t) \/ KeepDraft(t) \/ Rollback(t)
                              \/ RecoverTurn(t)
      PROVE  journal' \in [Turns -> Journals]
  BY <1>0, <1>1, BeginEffect, CommitEffect, SuspendEffect, KeepDraftEffect, RollbackEffect, RecoverTurnEffect
<1>2. ASSUME NEW t \in Turns, RecoverDraft(t) PROVE journal' \in [Turns -> Journals]
  <2>1. \/ journal' = journal
        \/ journal' \in [Turns -> Journals]
    BY <1>0, <1>2, RecoverEffect
  <2> QED BY <1>0, <2>1
<1>3. ASSUME NEW t \in Turns, NEW r \in Turns, ResumeDraft(t, r) PROVE journal' \in [Turns -> Journals]
  <2>1. CASE t = r
    BY <1>0, <1>3, <2>1, ResumeOwnEffect
  <2>2. CASE t # r
    BY <1>0, <1>3, <2>2, ResumeEffect
  <2> QED BY <2>1, <2>2
<1>4. ASSUME NEW f \in Files, Restore(f) PROVE journal' \in [Turns -> Journals]
  BY <1>0, <1>4, RestoreEffect
<1>5. ASSUME NEW f \in Files, Prepare(f) \/ Record(f) \/ Amend(f) PROVE journal' \in [Turns -> Journals]
  BY <1>0, <1>5, RecordMoves, JournalSet DEF Journals
<1>6. ASSUME RollbackDone \/ RevertDone \/ RecoverDone \/ Closed \/ Crash
      PROVE  journal' \in [Turns -> Journals]
  BY <1>0, <1>6, RollbackDoneEffect, RevertDoneEffect, RecoverDoneEffect, ClosedEffect, CrashEffect
<1> QED BY <1>0, <1>1, <1>2, <1>3, <1>4, <1>5, <1>6, JournalFrame

\* The process keeps its type.
LEMMA ProcTyped == Shape /\ Adopted /\ [Next]_vars => proc' \in Processes
<1> SUFFICES ASSUME Shape, Adopted, [Next]_vars PROVE proc' \in Processes
  OBVIOUS
<1>0. Typed /\ Ordered /\ Restoring /\ Staged /\ proc \in Processes
  BY DEF Shape, Typed
<1>1. ASSUME NEW t \in Turns, RecoverDrop(t) \/ RecoverSkip(t) \/ RecoverDraft(t) PROVE proc' \in Processes
  BY <1>0, <1>1, RecoverEffect
<1>2. ASSUME NEW replaces \in BOOLEAN, Open(replaces) PROVE proc' \in Processes
  BY <1>0, <1>2, OpenEffect
<1>3. ASSUME RecoverDone \/ RecoverCompact \/ Close \/ Closed \/ Crash PROVE proc' \in Processes
  BY <1>0, <1>3, RecoverDoneEffect, RecoverCompactEffect, CloseEffect, ClosedEffect, CrashEffect
<1> QED BY <1>0, <1>1, <1>2, <1>3, ProcFrame

\* The restore under way keeps its type.
LEMMA TaskTyped == Shape /\ Adopted /\ [Next]_vars => task' \in Tasks
<1> SUFFICES ASSUME Shape, Adopted, [Next]_vars PROVE task' \in Tasks
  OBVIOUS
<1>0. Typed /\ Restoring /\ Staged /\ task \in Tasks /\ NoTask \in Tasks
  BY NewTyped DEF Shape, Typed
<1>1. ASSUME NEW t \in Turns, Rollback(t) \/ Revert(t) \/ RecoverTurn(t) PROVE task' \in Tasks
  BY <1>0, <1>1, RollbackEffect, RevertEffect, RecoverTurnEffect
<1>2. ASSUME NEW f \in Files, Restore(f) \/ Conflict(f) PROVE task' \in Tasks
  <2>1. \/ task' = [task EXCEPT !.todo = @ \ {f}]
        \/ task' = [task EXCEPT !.todo = @ \ {f}, !.conflict = TRUE]
    BY <1>2 DEF Restore, Conflict
  <2> QED BY <1>0, <2>1 DEF Tasks
<1>3. ASSUME RollbackDone \/ RevertSettled \/ RecoverDone \/ Crash PROVE task' \in Tasks
  BY <1>0, <1>3 DEF RollbackDone, RevertSettled, RecoverDone, Crash
<1>4. ASSUME RevertDone PROVE task' \in Tasks
  <2>1. task' = NoTask \/ task' = [task EXCEPT !.step = "settle"]
    BY <1>4 DEF RevertDone
  <2> QED BY <1>0, <2>1 DEF Tasks
<1> QED BY <1>0, <1>1, <1>2, <1>3, <1>4, TaskFrame

\* The history keeps its type.
LEMMA HistoryTyped ==
  Shape /\ [Next]_vars =>
    /\ fate' \in [Turns -> Fates] /\ writer' \in [Files -> Turns \cup {Null}]
    /\ origin' \in [Turns -> [Files -> Contents \cup {Null}]] /\ count' \in Nat
    /\ untold' \in [Turns -> SUBSET Files] /\ replaced' \in [Turns -> SUBSET Files]
<1> SUFFICES ASSUME Shape, [Next]_vars
             PROVE  /\ fate' \in [Turns -> Fates] /\ writer' \in [Files -> Turns \cup {Null}]
                    /\ origin' \in [Turns -> [Files -> Contents \cup {Null}]] /\ count' \in Nat
                    /\ untold' \in [Turns -> SUBSET Files] /\ replaced' \in [Turns -> SUBSET Files]
  OBVIOUS
<1>0. /\ Typed /\ Transaction /\ Restoring /\ PreparedKnown /\ Placed
      /\ untold \in [Turns -> SUBSET Files] /\ replaced \in [Turns -> SUBSET Files]
      /\ fate \in [Turns -> Fates] /\ writer \in [Files -> Turns \cup {Null}]
      /\ origin \in [Turns -> [Files -> Contents \cup {Null}]] /\ count \in Nat
  BY DEF Shape, Typed
<1>1. fate' \in [Turns -> Fates]
  <2>1. ASSUME NEW t \in Turns, Begin(t) \/ Commit(t) \/ Suspend(t) \/ KeepDraft(t) \/ Rollback(t)
        PROVE  fate' \in [Turns -> Fates]
    BY <1>0, <2>1 DEF Begin, Commit, Suspend, KeepDraft, Rollback, Fates
  <2>2. ASSUME NEW t \in Turns, NEW r \in Turns, ResumeDraft(t, r) PROVE fate' \in [Turns -> Fates]
    BY <1>0, <2>2 DEF ResumeDraft, Fates
  <2>3. ASSUME RevertDone PROVE fate' \in [Turns -> Fates]
    BY <1>0, <2>3 DEF RevertDone, Restoring, Fates
  <2>4. ASSUME RecoverCompact PROVE fate' \in [Turns -> Fates]
    BY <1>0, <2>4 DEF RecoverCompact, Fates
  <2> QED BY <1>0, <2>1, <2>2, <2>3, <2>4, FateFrame
<1>2. writer' \in [Files -> Turns \cup {Null}]
  <2>2. ASSUME NEW t \in Turns, NEW r \in Turns, ResumeDraft(t, r)
        PROVE  writer' \in [Files -> Turns \cup {Null}]
    BY <1>0, <2>2 DEF ResumeDraft
  <2>3. ASSUME NEW f \in Files, Restore(f) PROVE writer' \in [Files -> Turns \cup {Null}]
    BY <1>0, <2>3 DEF Restore
  <2>4. ASSUME NEW f \in Files, Apply(f) PROVE writer' \in [Files -> Turns \cup {Null}]
    <3>1. Turn \in Turns
      BY <2>4, TurnFacts DEF Apply, At
    <3> QED BY <1>0, <2>4, <3>1 DEF Apply
  <2>5. ASSUME NEW f \in Files, NEW data \in UserData, Edit(f, data)
        PROVE  writer' \in [Files -> Turns \cup {Null}]
    BY <1>0, <2>5 DEF Edit
  <2> QED BY <1>0, <2>2, <2>3, <2>4, <2>5, WriterFrame
<1>3. origin' \in [Turns -> [Files -> Contents \cup {Null}]]
  <2>0. NoRecords \in [Files -> Contents \cup {Null}]
    BY DEF NoRecords
  <2>2. ASSUME NEW t \in Turns, NEW r \in Turns, ResumeDraft(t, r)
        PROVE  origin' \in [Turns -> [Files -> Contents \cup {Null}]]
    BY <1>0, <2>0, <2>2 DEF ResumeDraft
  <2>3. ASSUME NEW f \in Files, Prepare(f) PROVE origin' \in [Turns -> [Files -> Contents \cup {Null}]]
    <3>1. Turn \in Turns /\ file[f].data \in Contents
      BY <1>0, <2>3, TurnFacts, FingerprintFacts DEF Prepare, At
    <3>2. origin' = origin \/ origin' = [origin EXCEPT ![Turn][f] = file[f].data]
      BY <2>3 DEF Prepare
    <3> QED BY <1>0, <3>1, <3>2
  <2> QED BY <1>0, <2>2, <2>3, OriginFrame
<1>4. count' \in Nat
  <2>1. count' = count \/ count' = count + 1
    BY CountFrame DEF Prepare, Record, UndoWrite, Amend, AfterFails, Open, Edit, RollbackDone,
         RevertSettled, Canceled
  <2> QED BY <1>0, <2>1
<1>5. untold' \in [Turns -> SUBSET Files]
  <2>1. ASSUME NEW t \in Turns, Begin(t) PROVE untold' \in [Turns -> SUBSET Files]
    BY <1>0, <2>1 DEF Begin
  <2>2. ASSUME NEW t \in Turns, NEW r \in Turns, ResumeDraft(t, r) PROVE untold' \in [Turns -> SUBSET Files]
    BY <1>0, <2>2 DEF ResumeDraft
  <2>3. ASSUME NEW f \in Files, Record(f) \/ Amend(f) PROVE untold' \in [Turns -> SUBSET Files]
    <3>1. \/ untold' = untold \/ untold' = Missed({f})
          \/ Turn \in Turns /\ untold' = [untold EXCEPT ![Turn] = @ \ {f}]
      BY <1>0, <2>3, RecordMoves DEF Tells, Hides, Takes, Renews
    <3> QED BY <1>0, <3>1, MissedFacts
  <2>4. ASSUME Crash PROVE untold' \in [Turns -> SUBSET Files]
    <3>1. tx.done \in SUBSET Files
      BY <1>0 DEF Typed, Transactions
    <3> QED BY <1>0, <2>4, <3>1, MissedFacts DEF Crash
  <2> QED BY <1>0, <2>1, <2>2, <2>3, <2>4, UntoldFrame
<1>6. replaced' \in [Turns -> SUBSET Files]
  <2>1. ASSUME NEW t \in Turns, Begin(t) PROVE replaced' \in [Turns -> SUBSET Files]
    BY <1>0, <2>1 DEF Begin
  <2>2. ASSUME NEW t \in Turns, NEW r \in Turns, ResumeDraft(t, r)
        PROVE  replaced' \in [Turns -> SUBSET Files]
    BY <1>0, <2>2 DEF ResumeDraft
  <2>3. ASSUME NEW f \in Files, Prepare(f) PROVE replaced' \in [Turns -> SUBSET Files]
    BY <1>0, <2>3 DEF Prepare
  <2> QED BY <1>0, <2>1, <2>2, <2>3, ReplacedFrame
<1> QED BY <1>1, <1>2, <1>3, <1>4, <1>5, <1>6

\* The types are preserved.
LEMMA TypedStep == Shape /\ Adopted /\ FateKnown /\ [Next]_vars => Typed'
BY LedgerTyped, JournalTyped, ProcTyped, TaskTyped, HistoryTyped, FileTyped, RefsTyped, TransactionStep
   DEF Shape, Typed, Journals

\* The order lists the outstanding turns.
LEMMA OrderedStep == Shape /\ FateKnown /\ Keeping /\ [Next]_vars => Ordered'
<1> SUFFICES ASSUME Shape, FateKnown, Keeping, [Next]_vars PROVE Ordered'
  OBVIOUS
<1>0. Typed /\ Transaction /\ PreparedKnown /\ Restoring /\ Placed /\ Listed(order, Outstanding)
  BY DEF Shape, Ordered
<1>1. ASSUME NEW s, NEW set, Listed(s, set), order' = s, set = {t \in Turns : ledger'[t] # Null} PROVE Ordered'
  BY <1>1 DEF Ordered, Outstanding
<1>2. ASSUME NEW t \in Turns, LogSettled(t) PROVE Ordered'
  <2>1. ledger'[t] = Null /\ \A u \in Turns : u # t => ledger'[u] = ledger[u]
    BY <1>0, <1>2, SettledLogged
  <2>2. Listed(Without(t), Outstanding \cap (Turns \ {t})) /\ order' = Without(t)
    BY <1>0, <1>2, SelectedListed DEF LogSettled, Without
  <2>3. Outstanding \cap (Turns \ {t}) = {u \in Turns : ledger'[u] # Null}
    BY <2>1 DEF Outstanding
  <2> QED BY <1>1, <2>2, <2>3
<1>3. ASSUME order' = order, \A t \in Turns : ledger'[t] # Null <=> ledger[t] # Null PROVE Ordered'
  <2>1. Outstanding = {u \in Turns : ledger'[u] # Null}
    BY <1>3 DEF Outstanding
  <2> QED BY <1>0, <1>1, <1>3, <2>1
<1>4. ASSUME NEW t \in Turns, Begin(t) PROVE Ordered'
  <2>1. ledger'[t] # Null /\ \A u \in Turns : u # t => ledger'[u] = ledger[u]
    BY <1>0, <1>4, BeginEffect, BeginLogged
  <2>2. Listed(Without(t), Outstanding \cap (Turns \ {t})) /\ order' = Append(Without(t), t)
    BY <1>0, <1>4, SelectedListed DEF Begin, LogBegin, Without
  <2>3. t \in Turns \ (Outstanding \cap (Turns \ {t}))
    OBVIOUS
  <2>4. Listed(order', (Outstanding \cap (Turns \ {t})) \cup {t})
    BY <2>2, <2>3, AppendListed
  <2>5. (Outstanding \cap (Turns \ {t})) \cup {t} = {u \in Turns : ledger'[u] # Null}
    BY <2>1 DEF Outstanding
  <2> QED BY <1>1, <2>4, <2>5
<1>5. ASSUME NEW t \in Turns, Commit(t) \/ KeepDraft(t) PROVE Ordered'
  BY <1>0, <1>3, <1>5, CommitEffect, KeepDraftEffect, CommitLogged
<1>6. ASSUME NEW t \in Turns, Suspend(t) PROVE Ordered'
  <2>1. LogDraft(t) \/ LogSettled(t)
    BY <1>0, <1>6, SuspendEffect
  <2>2. CASE LogDraft(t)
    BY <1>0, <1>3, <2>2, DraftLogged
  <2> QED BY <1>2, <2>1, <2>2
<1>7. ASSUME NEW t \in Turns, NEW r \in Turns, ResumeDraft(t, r) PROVE Ordered'
  <2>1. CASE t = r
    BY <1>0, <1>3, <1>7, <2>1, ResumeOwnEffect
  <2>2. CASE t # r
    <3>1. LogResume(t, r) /\ ledger[t] # Null /\ ledger[r] = Null
      BY <1>0, <1>7, <2>2, ResumeEffect DEF FateKnown, Placed, Flagged
    <3>2. /\ order' = ReplaceAll(order, t, r) /\ ledger'[t] = Null /\ ledger'[r] # Null
          /\ \A u \in Turns \ {t, r} : ledger'[u] = ledger[u]
      BY <1>0, <2>2, <3>1, ResumeLogged
    <3>3. t \in Outstanding /\ r \in Turns \ Outstanding
      BY <3>1 DEF Outstanding
    <3>4. Listed(order', (Outstanding \ {t}) \cup {r})
      BY <1>0, <3>2, <3>3, ReplaceListed
    <3>5. (Outstanding \ {t}) \cup {r} = {u \in Turns : ledger'[u] # Null}
      BY <2>2, <3>2 DEF Outstanding
    <3> QED BY <1>1, <3>4, <3>5
  <2> QED BY <2>1, <2>2
<1>8. ASSUME NEW f \in Files, Prepare(f) \/ Record(f) \/ Amend(f) PROVE Ordered'
  <2>1. /\ order' = order /\ Turn \in Turns /\ ledger[Turn] # Null
        /\ ledger' = ledger \/ (ledger'[Turn] # Null /\ \A t \in Turns : t # Turn => ledger'[t] = ledger[t])
    BY <1>0, <1>8, RecordMoves, LedgerSet
  <2> QED BY <1>3, <2>1
<1>9. ASSUME RollbackDone PROVE Ordered'
  <2>1. task.turn \in Turns /\ (LogSettled(task.turn) \/ UNCHANGED <<ledger, order>>)
    BY <1>0, <1>9, RollbackDoneEffect
  <2> QED BY <1>2, <1>3, <2>1
<1>10. ASSUME RevertSettled PROVE Ordered'
  <2>1. task.turn \in Turns /\ (LogSettled(task.turn) \/ UNCHANGED <<ledger, order>>)
    BY <1>0, <1>10 DEF RevertSettled, Restoring
  <2> QED BY <1>2, <1>3, <2>1
<1>11. ASSUME RecoverCompact PROVE Ordered'
  <2> DEFINE K == {t \in Turns : proc.keep[t] # Null}
  <2>1. (\A t \in Turns : ledger'[t] = proc.keep[t]) /\ order' = Selected(order, K)
    BY <1>0, <1>11, RecoverCompactEffect
  <2>2. Listed(Selected(order, K), Outstanding \cap K)
    BY <1>0, SelectedListed
  <2>3. Outstanding \cap K = {u \in Turns : ledger'[u] # Null}
    BY <1>11, <2>1 DEF Outstanding, Keeping
  <2> QED BY <1>1, <2>1, <2>2, <2>3
<1>12. ASSUME Closed PROVE Ordered'
  <2> DEFINE K == Turns \ In("committed")
  <2>1. /\ \A t \in Turns : journal[t].place = "committed" => ledger'[t] = Null
        /\ \A t \in Turns : journal[t].place # "committed" => (ledger'[t] # Null <=> ledger[t] # Null)
        /\ order' = Selected(order, K)
    BY <1>0, <1>12, ClosedEffect
  <2>2. Listed(Selected(order, K), Outstanding \cap K)
    BY <1>0, SelectedListed
  <2>3. Outstanding \cap K = {u \in Turns : ledger'[u] # Null}
    BY <2>1 DEF Outstanding, In
  <2> QED BY <1>1, <2>1, <2>2, <2>3
<1> QED BY <1>3, <1>4, <1>5, <1>6, <1>7, <1>8, <1>9, <1>10, <1>11, <1>12, LedgerFrame

\* Only one turn is active.
LEMMA ActiveOne ==
  ASSUME Placed, OneLive, NEW t \in Active
  PROVE  t = Turn /\ t \in Turns /\ journal[t].place = "active" /\ ledger[t] # Null /\ fate[t] = "open"
<1>1. Active # {} /\ t \in Turns /\ journal[t].place = "active"
  BY DEF Active, In
<1>2. Turn \in Active /\ Turn \in Turns /\ journal[Turn].place = "active"
  BY <1>1, TurnFacts
<1>3. fate[t] = "open" /\ fate[Turn] = "open" /\ ledger[t] # Null
  BY <1>1, <1>2 DEF Placed
<1> QED BY <1>1, <1>2, <1>3 DEF OneLive, Live

\* Paths that are prepared are recorded.
LEMMA PreparedKnownStep == Shape /\ OneLive /\ [Next]_vars => PreparedKnown'
<1> SUFFICES ASSUME Shape, OneLive, [Next]_vars PROVE PreparedKnown'
  OBVIOUS
<1>0. Typed /\ Transaction /\ PreparedKnown /\ Placed
  BY DEF Shape
<1>1. ASSUME tx' = NoTx PROVE PreparedKnown'
  BY <1>1, NoTxFacts DEF PreparedKnown, Prepared, Targets
<1>2. CASE tx.pc = "idle"
  <2>1. tx = NoTx
    BY <1>0, <1>2 DEF Transaction
  <2>2. ASSUME NEW plan \in [Files -> Writes \cup {Null}], Plan(plan) PROVE PreparedKnown'
    <3>1. tx'.pc = "prepare" /\ tx'.plan = plan /\ tx'.todo = Paths(plan)
      BY <1>0, <2>2, PlanEffect
    <3> QED BY <3>1 DEF PreparedKnown, Prepared, Targets
  <2>3. CASE Crash
    BY <1>1, <2>3 DEF Crash
  <2> QED BY <1>1, <1>2, <2>1, <2>2, <2>3, TxFrame DEF Prepare, Apply, Canceled, Record, UndoWrite, Amend, At
<1>3. CASE tx.pc # "idle"
  <2>1. ASSUME \A t \in Turns : journal'[t].place = journal[t].place,
               \A t \in Turns, f \in Files : InJournal(t, f) => InJournal(t, f)',
               tx'.plan = tx.plan, tx.pc # "prepare"
        PROVE  PreparedKnown'
    <3>1. Active' = Active
      BY <2>1 DEF Active, In
    <3>2. Prepared' \subseteq Targets /\ Prepared = Targets /\ Targets \subseteq Files
      BY <2>1 DEF Prepared, Targets, Paths
    <3> QED BY <1>0, <2>1, <3>1, <3>2 DEF PreparedKnown, Active, In
  <2>2. CASE UNCHANGED vars \/ \E f \in Files, data \in UserData : Edit(f, data)
    <3>1. UNCHANGED <<journal, tx>>
      BY <2>2 DEF vars, Edit
    <3> QED BY <1>0, <3>1 DEF PreparedKnown, Prepared, Targets, Active, In, InJournal
  <2>3. CASE Canceled
    <3>1. UNCHANGED journal /\ tx' = Undo(tx.done) /\ tx.pc = "apply"
      BY <2>3 DEF Canceled, At
    <3> QED BY <1>0, <2>1, <3>1, UndoFacts DEF InJournal
  <2>4. CASE Crash
    BY <1>1, <2>4 DEF Crash
  <2>5. ASSUME NEW f \in Files, Prepare(f) PROVE PreparedKnown'
    <3>1. CASE tx' = NoTx
      BY <1>1, <3>1
    <3>2. CASE tx' = Advanced("apply", f) /\ Before(f)
      <4>1. /\ tx'.plan = tx.plan
            /\ tx.todo = {f} => tx'.pc = "apply" /\ tx'.todo = Targets
            /\ tx.todo # {f} => tx'.pc = tx.pc /\ tx'.todo = tx.todo \ {f}
        BY <1>0, <3>2, AdvancedFacts
      <4>2. tx.pc = "prepare" /\ Turn \in Active /\ Turn \in Turns
        BY <1>0, <2>5, PrepareTx, TurnFacts
      <4>3. /\ \A t \in Turns : journal'[t].place = journal[t].place
            /\ \A t \in Turns, g \in Files : InJournal(t, g) => InJournal(t, g)'
            /\ journal'[Turn].records[f] # Null
        <5>1. CASE InJournal(Turn, f)
          BY <3>2, <5>1 DEF Before, InJournal
        <5>2. CASE ~InJournal(Turn, f)
          <6>1. Puts(Turn, f, NewRecord(f)) /\ NewRecord(f) \in Records /\ NewRecord(f) # Null
            BY <1>0, <3>2, <5>2, NewRecordFacts DEF Before, InJournal, Puts
          <6>2. /\ \A t \in Turns : journal'[t].place = journal[t].place
                /\ \A t \in Turns, g \in Files : journal'[t].records[g] =
                     IF t = Turn /\ g = f THEN NewRecord(f) ELSE journal[t].records[g]
            BY <1>0, <4>2, <6>1, JournalSet
          <6> QED BY <4>2, <6>1, <6>2 DEF InJournal
        <5> QED BY <5>1, <5>2
      <4>4. Active' = Active
        BY <4>3 DEF Active, In
      <4>5. Prepared' \subseteq Prepared \cup {f}
        BY <4>1, <4>2 DEF Prepared, Targets
      <4>6. \A t \in Active : t = Turn /\ t \in Turns
        BY <1>0, ActiveOne
      <4>7. Prepared' \subseteq Files
        BY DEF Prepared, Targets, Paths
      <4> QED BY <1>0, <4>3, <4>4, <4>5, <4>6, <4>7 DEF PreparedKnown, InJournal
    <3> QED BY <2>5, <3>1, <3>2, PrepareTx
  <2>6. ASSUME NEW f \in Files, Apply(f) PROVE PreparedKnown'
    <3>1. UNCHANGED journal /\ tx.pc = "apply" /\ tx'.plan = tx.plan
      BY <1>0, <2>6, ApplyEffect
    <3> QED BY <2>1, <3>1 DEF InJournal
  <2>7. ASSUME NEW f \in Files, UndoWrite(f) PROVE PreparedKnown'
    <3>1. UNCHANGED journal /\ tx.pc = "undo" /\ tx'.plan = tx.plan
      BY <1>0, <2>7, UndoWriteEffect, AdvancedFacts
    <3> QED BY <2>1, <3>1 DEF InJournal
  <2>8. ASSUME NEW f \in Files, Record(f) \/ Amend(f) PROVE PreparedKnown'
    <3>1. tx.pc \in {"record", "amend"} /\ (tx' = NoTx \/ tx'.plan = tx.plan)
      <4>1. tx \in Transactions
        BY <1>0 DEF Typed
      <4> QED BY <1>0, <2>8, <4>1, RecordTx, UndoFacts DEF Transactions
    <3>2. \/ journal' = journal
          \/ \E rec \in Records : Puts(Turn, f, rec) /\ Turn \in Turns
      BY <1>0, <2>8, RecordMoves
    <3>3. /\ \A t \in Turns : journal'[t].place = journal[t].place
          /\ \A t \in Turns, g \in Files : InJournal(t, g) => InJournal(t, g)'
      <4>1. CASE journal' = journal
        BY <4>1 DEF InJournal
      <4>2. ASSUME NEW rec \in Records, Puts(Turn, f, rec), Turn \in Turns
            PROVE  /\ \A t \in Turns : journal'[t].place = journal[t].place
                   /\ \A t \in Turns, g \in Files : InJournal(t, g) => InJournal(t, g)'
        <5>1. rec # Null
          BY Apartness
        <5> QED BY <1>0, <4>2, <5>1, JournalSet DEF InJournal
      <4> QED BY <3>2, <4>1, <4>2
    <3> QED BY <1>1, <2>1, <3>1, <3>3
  <2> QED BY <1>0, <1>3, <2>2, <2>3, <2>4, <2>5, <2>6, <2>7, <2>8, BusySteps
<1> QED BY <1>2, <1>3

\* What the transaction has written is no other turn's.
LEMMA DoneOwnStep == Shape /\ OneLive /\ [Next]_vars => DoneOwn'
<1> SUFFICES ASSUME Shape, OneLive, [Next]_vars PROVE DoneOwn'
  OBVIOUS
<1>0. Typed /\ Transaction /\ PreparedKnown /\ Placed /\ DoneOwn
  BY DEF Shape
<1>1. ASSUME tx'.done = {} PROVE DoneOwn'
  BY <1>1 DEF DoneOwn
<1>2. CASE tx.pc = "idle"
  <2>1. tx = NoTx /\ NoTx.done = {}
    BY <1>0, <1>2, NoTxFacts DEF Transaction
  <2>2. ASSUME NEW plan \in [Files -> Writes \cup {Null}], Plan(plan) PROVE DoneOwn'
    BY <1>0, <1>1, <2>2, PlanEffect
  <2>3. CASE Crash
    BY <1>1, <2>1, <2>3 DEF Crash
  <2> QED BY <1>1, <1>2, <2>1, <2>2, <2>3, TxFrame DEF Prepare, Apply, Canceled, Record, UndoWrite, Amend, At
<1>3. CASE tx.pc # "idle"
  <2>1. ASSUME \A t \in Turns : journal'[t].place = journal[t].place, tx'.done \in {tx.done, {}},
               \A f \in Files : writer'[f] \in {writer[f], Null}
        PROVE  DoneOwn'
    <3>1. Active' = Active
      BY <2>1 DEF Active, In
    <3>2. tx.done \subseteq Files
      BY <1>0 DEF Typed, Transactions
    <3> QED BY <1>0, <2>1, <3>1, <3>2 DEF DoneOwn
  <2>2. CASE UNCHANGED vars
    BY <2>1, <2>2 DEF vars
  <2>3. ASSUME NEW f \in Files, NEW data \in UserData, Edit(f, data) PROVE DoneOwn'
    BY <1>0, <2>1, <2>3 DEF Edit, Typed
  <2>4. CASE Canceled
    BY <1>0, <2>1, <2>4, UndoFacts DEF Canceled
  <2>5. CASE Crash
    BY <1>1, <2>5, NoTxFacts DEF Crash
  <2>6. ASSUME NEW f \in Files, Prepare(f) PROVE DoneOwn'
    <3>1. tx.pc = "prepare" /\ tx.done = {}
      BY <1>0, <2>6, PrepareTx DEF Transaction
    <3> QED BY <1>0, <1>1, <2>6, <3>1, PrepareTx, AdvancedFacts, NoTxFacts
  <2>7. ASSUME NEW f \in Files, Apply(f) PROVE DoneOwn'
    <3>1. UNCHANGED journal /\ Active # {}
      BY <1>0, <2>7, ApplyEffect
    <3>2. CASE tx' = Undo(tx.done) /\ UNCHANGED <<file, writer>>
      BY <1>0, <2>1, <3>1, <3>2, UndoFacts
    <3>3. CASE /\ tx'.done = tx.done \cup {f} /\ writer'[f] = Turn
               /\ \A g \in Files : g # f => writer'[g] = writer[g]
      <4>1. \A t \in Active : t = Turn
        BY <1>0, ActiveOne
      <4>2. Active' = Active /\ tx.done \subseteq Files
        BY <1>0, <3>1 DEF Active, In, Typed, Transactions
      <4> QED BY <1>0, <3>3, <4>1, <4>2 DEF DoneOwn
    <3> QED BY <1>0, <2>7, <3>2, <3>3, ApplyEffect
  <2>8. ASSUME NEW f \in Files, UndoWrite(f) PROVE DoneOwn'
    BY <1>0, <2>1, <2>8, UndoWriteEffect, AdvancedFacts
  <2>9. ASSUME NEW f \in Files, Record(f) \/ Amend(f) PROVE DoneOwn'
    <3>1. tx'.done \in {tx.done, {}}
      <4>1. tx \in Transactions
        BY <1>0 DEF Typed
      <4> QED BY <1>0, <2>9, <4>1, RecordTx, UndoFacts, NoTxFacts DEF Transactions
    <3>2. UNCHANGED writer /\ \A t \in Turns : journal'[t].place = journal[t].place
      BY <1>0, <2>9, RecordMoves, JournalSet
    <3> QED BY <2>1, <3>1, <3>2
  <2> QED BY <1>0, <1>3, <2>2, <2>3, <2>4, <2>5, <2>6, <2>7, <2>8, <2>9, BusySteps
<1> QED BY <1>2, <1>3

\* No restore is under way.
LEMMA NoTaskFacts ==
  /\ NoTask.op = "none" /\ NoTask.step = "restore" /\ NoTask.todo = {} /\ NoTask.turn = Null
BY DEF NoTask

\* The restore goes on to the next record.
Proceeds(f, conflict) ==
  /\ task'.op = task.op /\ task'.turn = task.turn /\ task'.step = task.step
  /\ task'.todo = task.todo \ {f} /\ (task.conflict => task'.conflict) /\ (conflict => task'.conflict)

\* Restore and Conflict take one path off the list.
LEMMA RestoreProceeds ==
  ASSUME Typed, NEW f \in Files, Restore(f) \/ Conflict(f)
  PROVE  Proceeds(f, Conflict(f)) /\ f \in task.todo
<1>1. task \in Tasks
  BY DEF Typed
<1>2. \/ task' = [task EXCEPT !.todo = @ \ {f}] /\ Restore(f)
      \/ task' = [task EXCEPT !.todo = @ \ {f}, !.conflict = TRUE]
  BY DEF Restore, Conflict
<1>3. Restore(f) => ~Conflict(f)
  BY DEF Restore, Conflict
<1>4. f \in task.todo
  BY DEF Restore, Conflict
<1> QED BY <1>1, <1>2, <1>3, <1>4 DEF Proceeds, Tasks

\* Begin next to a revert is that of another turn.
LEMMA BeginOther ==
  ASSUME Typed, Restoring, Placed, NEW t \in Turns, Begin(t), task.op # "none"
  PROVE  task.op = "revert" /\ t # task.turn
<1>1. task.op = "revert" /\ fate[t] \in {"fresh", "open"} /\ In("draft") = {} /\ task.turn \in Turns
  BY DEF Begin, Restoring
<1>2. task.step \in {"restore", "settle"}
  BY DEF Typed, Tasks
<1>3. journal[task.turn].place = "committed" \/ fate[task.turn] = "undone"
  BY <1>1, <1>2 DEF Restoring, In
<1> QED BY <1>1, <1>3 DEF Placed

\* The restore keeps its shape.
LEMMA RestoringStep == Shape /\ [Next]_vars => Restoring'
<1> SUFFICES ASSUME Shape, [Next]_vars PROVE Restoring'
  OBVIOUS
<1>0. Typed /\ Transaction /\ PreparedKnown /\ Placed /\ Restoring /\ Staged
  BY DEF Shape
<1>1. ASSUME task' = NoTask PROVE Restoring'
  BY <1>1, NoTaskFacts DEF Restoring
<1>2. CASE task.op = "none"
  <2>1. task = NoTask
    BY <1>0, <1>2 DEF Restoring
  <2>2. ASSUME NEW t \in Turns, Rollback(t) PROVE Restoring'
    <3>1. /\ Ready /\ UNCHANGED proc /\ journal'[t].place = "rollback"
          /\ task'.op = "rollback" /\ task'.turn = t /\ task'.step = "restore"
      BY <1>0, <2>2, RollbackEffect
    <3> QED BY <3>1 DEF Restoring, Ready
  <2>3. ASSUME NEW t \in Turns, Revert(t) PROVE Restoring'
    <3>1. /\ Ready /\ UNCHANGED <<proc, journal>> /\ journal[t].place \in {"committed", "draft"}
          /\ task'.op = "revert" /\ task'.turn = t /\ task'.step = "restore"
      BY <1>0, <2>3, RevertEffect
    <3> QED BY <3>1 DEF Restoring, Ready
  <2>4. ASSUME NEW t \in Turns, RecoverTurn(t) PROVE Restoring'
    <3>1. /\ proc.stage = "recovering" /\ proc.todo # <<>> /\ t = Head(proc.todo) /\ UNCHANGED proc
          /\ journal'[t].place = "adopted"
          /\ task'.op = "recover" /\ task'.turn = t /\ task'.step = "restore"
      BY <1>0, <2>4, RecoverTurnEffect
    <3> QED BY <3>1 DEF Restoring
  <2> QED BY <1>1, <1>2, <2>1, <2>2, <2>3, <2>4, TaskFrame
        DEF Restore, Conflict, RollbackDone, RevertDone, RevertSettled, RecoverDone, Crash
<1>3. CASE task.op # "none"
  <2>0. task.turn \in Turns
    BY <1>0, <1>3 DEF Restoring
  <2>1. ASSUME UNCHANGED <<task, proc, journal, fate>> PROVE Restoring'
    BY <1>0, <2>1 DEF Restoring, Ready
  <2>2. CASE UNCHANGED vars \/ \E f \in Files, data \in UserData : Edit(f, data)
    BY <2>1, <2>2 DEF vars, Edit
  <2>3. CASE Crash \/ RollbackDone \/ RevertSettled \/ RecoverDone
    BY <1>1, <2>3 DEF Crash, RollbackDone, RevertSettled, RecoverDone
  <2>4. CASE RevertDone
    <3>1. CASE task' = NoTask
      BY <1>1, <3>1
    <3>2. CASE task' # NoTask
      <4>1. /\ task.op = "revert" /\ task.todo = {} /\ task' = [task EXCEPT !.step = "settle"]
            /\ journal'[task.turn].place = "none" /\ fate'[task.turn] = "undone" /\ UNCHANGED proc
        BY <1>0, <2>0, <2>4, <3>2, RevertDoneEffect
      <4>2. task \in Tasks
        BY <1>0 DEF Typed
      <4>3. /\ task'.op = "revert" /\ task'.todo = {} /\ task'.turn = task.turn /\ task'.step = "settle"
        BY <4>1, <4>2 DEF Tasks
      <4>4. Ready'
        BY <1>0, <4>1 DEF Restoring, Ready
      <4> QED BY <2>0, <4>1, <4>3, <4>4 DEF Restoring
    <3> QED BY <3>1, <3>2
  <2>5. ASSUME NEW t \in Turns, Begin(t) PROVE Restoring'
    <3>1. t # task.turn /\ task.op = "revert"
      BY <1>0, <1>3, <2>5, BeginOther
    <3>2. /\ UNCHANGED <<proc, task>> /\ journal'[task.turn] = journal[task.turn]
          /\ fate'[task.turn] = fate[task.turn]
      BY <1>0, <2>0, <2>5, <3>1, BeginEffect
    <3> QED BY <1>0, <3>1, <3>2 DEF Restoring, Ready
  <2>6. ASSUME NEW f \in Files, Restore(f) \/ Conflict(f) PROVE Restoring'
    <3>1. /\ task'.op = task.op /\ task'.turn = task.turn /\ task'.step = task.step
          /\ task'.todo \subseteq task.todo
      BY <1>0, <2>6, RestoreProceeds DEF Proceeds
    <3>2. UNCHANGED <<proc, fate>> /\ journal'[task.turn].place = journal[task.turn].place
      BY <1>0, <2>0, <2>6, RestoreEffect DEF Conflict
    <3> QED BY <1>0, <1>3, <3>1, <3>2 DEF Restoring, Ready
  <2> QED BY <1>0, <1>3, <2>2, <2>3, <2>4, <2>5, <2>6, RestoreSteps
<1> QED BY <1>2, <1>3

\* The records the restore has before it, and those behind it.
LEMMA RestoreTodoStep == Shape /\ [Next]_vars => RestoreTodo'
<1> SUFFICES ASSUME Shape, [Next]_vars PROVE RestoreTodo'
  OBVIOUS
<1>0. Typed /\ Transaction /\ PreparedKnown /\ Placed /\ Restoring /\ Staged /\ RestoreTodo
  BY DEF Shape
<1>1. ASSUME task' = NoTask PROVE RestoreTodo'
  BY <1>1, NoTaskFacts DEF RestoreTodo
<1>2. ASSUME NEW t \in Turns, NEW rs, task'.turn = t, task'.todo = Paths(rs), journal'[t].records = rs
      PROVE  RestoreTodo'
  BY <1>2 DEF RestoreTodo, InJournal, Paths
<1>3. CASE task.op = "none"
  <2>1. task = NoTask
    BY <1>0, <1>3 DEF Restoring
  <2>2. ASSUME NEW t \in Turns, Rollback(t) PROVE RestoreTodo'
    BY <1>0, <1>2, <2>2, RollbackEffect
  <2>3. ASSUME NEW t \in Turns, Revert(t) PROVE RestoreTodo'
    BY <1>0, <1>2, <2>3, RevertEffect
  <2>4. ASSUME NEW t \in Turns, RecoverTurn(t) PROVE RestoreTodo'
    BY <1>0, <1>2, <2>4, RecoverTurnEffect
  <2> QED BY <1>1, <1>3, <2>1, <2>2, <2>3, <2>4, TaskFrame
        DEF Restore, Conflict, RollbackDone, RevertDone, RevertSettled, RecoverDone, Crash
<1>4. CASE task.op # "none"
  <2>0. task.turn \in Turns /\ task \in Tasks
    BY <1>0, <1>4 DEF Restoring, Typed
  <2>1. ASSUME UNCHANGED task, journal'[task.turn] = journal[task.turn] PROVE RestoreTodo'
    BY <1>0, <2>1 DEF RestoreTodo, InJournal
  <2>2. CASE UNCHANGED vars \/ \E f \in Files, data \in UserData : Edit(f, data)
    BY <2>1, <2>2 DEF vars, Edit
  <2>3. CASE Crash \/ RollbackDone \/ RevertSettled \/ RecoverDone
    BY <1>1, <2>3 DEF Crash, RollbackDone, RevertSettled, RecoverDone
  <2>4. CASE RevertDone
    <3>1. \/ task' = NoTask
          \/ task.todo = {} /\ task' = [task EXCEPT !.step = "settle"]
      BY <2>4 DEF RevertDone
    <3>2. CASE task.todo = {} /\ task' = [task EXCEPT !.step = "settle"]
      <4>1. task'.todo = {} /\ task'.step = "settle"
        BY <2>0, <3>2 DEF Tasks
      <4> QED BY <4>1 DEF RestoreTodo
    <3> QED BY <1>1, <3>1, <3>2
  <2>5. ASSUME NEW t \in Turns, Begin(t) PROVE RestoreTodo'
    BY <1>0, <1>4, <2>0, <2>1, <2>5, BeginOther, BeginEffect
  <2>6. ASSUME NEW f \in Files, Restore(f) PROVE RestoreTodo'
    <3>1. /\ task'.op = task.op /\ task'.turn = task.turn /\ task'.step = task.step
          /\ task'.todo = task.todo \ {f} /\ (task.conflict => task'.conflict)
      BY <1>0, <2>6, RestoreProceeds DEF Proceeds
    <3>2. \A g \in Files : journal'[task.turn].records[g] =
            IF g = f THEN Null ELSE journal[task.turn].records[g]
      BY <1>0, <2>0, <2>6, RestoreEffect
    <3>3. task.todo \subseteq Files
      BY <2>0 DEF Tasks
    <3> QED BY <1>0, <3>1, <3>2, <3>3 DEF RestoreTodo, InJournal
  <2>7. ASSUME NEW f \in Files, Conflict(f) PROVE RestoreTodo'
    <3>1. /\ task'.op = task.op /\ task'.turn = task.turn /\ task'.step = task.step
          /\ task'.todo = task.todo \ {f} /\ task'.conflict
      BY <1>0, <2>7, RestoreProceeds DEF Proceeds
    <3>2. UNCHANGED journal
      BY <2>7 DEF Conflict
    <3> QED BY <1>0, <3>1, <3>2 DEF RestoreTodo, InJournal
  <2> QED BY <1>0, <1>4, <2>2, <2>3, <2>4, <2>5, <2>6, <2>7, RestoreSteps
<1> QED BY <1>3, <1>4

\* A recovered turn keeps its entry.
LEMMA AdoptedStep == Shape /\ Adopted /\ [Next]_vars => Adopted'
<1> SUFFICES ASSUME Shape, Adopted, [Next]_vars PROVE Adopted'
  OBVIOUS
<1>0. Typed /\ Transaction /\ Restoring /\ Placed /\ Staged
  BY DEF Shape
<1>1. CASE task.op = "none"
  <2>1. task = NoTask
    BY <1>0, <1>1 DEF Restoring
  <2>2. ASSUME NEW t \in Turns, Rollback(t) \/ Revert(t) PROVE Adopted'
    BY <1>0, <2>2, RollbackEffect, RevertEffect DEF Adopted
  <2>3. ASSUME NEW t \in Turns, RecoverTurn(t) PROVE Adopted'
    <3>1. /\ task'.turn = t /\ UNCHANGED ledger /\ journal'[t].records = ledger[t].records
          /\ ledger[t] # Null /\ ~ledger[t].committed /\ ~ledger[t].draft
      BY <1>0, <2>3, RecoverTurnEffect
    <3> QED BY <3>1 DEF Adopted
  <2>4. CASE task' = task
    BY <1>1, <2>4 DEF Adopted
  <2> QED BY <1>1, <2>1, <2>2, <2>3, <2>4, TaskFrame, NoTaskFacts
        DEF Restore, Conflict, RollbackDone, RevertDone, RevertSettled, RecoverDone, Crash
<1>2. CASE task.op # "none"
  <2>0. task.turn \in Turns /\ task \in Tasks
    BY <1>0, <1>2 DEF Restoring, Typed
  <2>1. CASE UNCHANGED vars \/ \E f \in Files, data \in UserData : Edit(f, data)
    <3>1. UNCHANGED <<task, ledger, journal>>
      BY <2>1 DEF vars, Edit
    <3> QED BY <3>1 DEF Adopted, InJournal
  <2>2. CASE Crash \/ RollbackDone \/ RevertSettled \/ RecoverDone
    BY <2>2, NoTaskFacts DEF Crash, RollbackDone, RevertSettled, RecoverDone, Adopted
  <2>3. CASE RevertDone
    <3>1. task'.op # "recover"
      BY <1>0, <2>0, <2>3, RevertDoneEffect, NoTaskFacts DEF Tasks
    <3> QED BY <3>1 DEF Adopted
  <2>4. ASSUME NEW t \in Turns, Begin(t) PROVE Adopted'
    BY <1>0, <1>2, <2>4, BeginOther, BeginEffect DEF Adopted
  <2>5. ASSUME NEW f \in Files, Restore(f) \/ Conflict(f) PROVE Adopted'
    <3>1. task'.op = task.op /\ task'.turn = task.turn
      BY <1>0, <2>5, RestoreProceeds DEF Proceeds
    <3>2. UNCHANGED ledger /\ \A g \in Files : journal'[task.turn].records[g] \in
                                               {Null, journal[task.turn].records[g]}
      BY <1>0, <2>0, <2>5, RestoreEffect DEF Conflict
    <3> QED BY <3>1, <3>2 DEF Adopted, InJournal
  <2> QED BY <1>0, <1>2, <2>1, <2>2, <2>3, <2>4, <2>5, RestoreSteps
<1> QED BY <1>1, <1>2

\* What the stages exclude.
LEMMA StagedStep == Shape /\ Adopted /\ [Next]_vars => Staged'
<1> SUFFICES ASSUME Shape, Adopted, [Next]_vars PROVE Staged'
  OBVIOUS
<1>0. Typed /\ Transaction /\ PreparedKnown /\ Placed /\ Restoring /\ Staged /\ Ordered
  BY DEF Shape
<1>1. ASSUME Ready' /\ ~proc'.clean PROVE Staged'
  BY <1>1 DEF Ready, Staged
<1>2. ASSUME Ready, UNCHANGED proc PROVE Staged'
  BY <1>0, <1>1, <1>2 DEF Ready, Staged
<1>3. ASSUME UNCHANGED <<proc, journal, task, ledger>> PROVE Staged'
  BY <1>0, <1>3 DEF Staged, Outstanding
<1>4. ASSUME NEW t \in Turns, \/ Begin(t) \/ Commit(t) \/ Suspend(t) \/ KeepDraft(t) \/ Rollback(t)
                              \/ Revert(t) \/ \E r \in Turns : ResumeDraft(t, r)
      PROVE  Staged'
  BY <1>2, <1>4 DEF Begin, Commit, Suspend, KeepDraft, Rollback, Revert, ResumeDraft
<1>5. ASSUME NEW f \in Files, Restore(f) \/ Conflict(f) PROVE Staged'
  <2>1. UNCHANGED <<proc, ledger>> /\ \A t \in Turns : journal'[t].place = journal[t].place
    BY <1>0, <1>5, RestoreEffect DEF Conflict
  <2>2. task.op # "none"
    BY <1>5 DEF Restore, Conflict
  <2> QED BY <1>0, <2>1, <2>2 DEF Staged, Outstanding
<1>6. ASSUME RollbackDone \/ RevertDone \/ RevertSettled PROVE Staged'
  BY <1>0, <1>2, <1>6 DEF Restoring, RollbackDone, RevertDone, RevertSettled
<1>7. ASSUME BrokerStep PROVE Staged'
  <2>1. Ready /\ UNCHANGED proc
    <3>1. Ready
      BY <1>0, <1>7 DEF BrokerStep, Plan, Prepare, Apply, Record, UndoWrite, Amend, Canceled, At, Transaction
    <3> QED BY <3>1, <1>7 DEF BrokerStep, Plan, Prepare, Apply, Record, UndoWrite, Amend, Canceled
  <2> QED BY <1>2, <2>1
<1>8. ASSUME NEW replaces \in BOOLEAN, Open(replaces) PROVE Staged'
  <2>1. /\ proc.stage = "closed" /\ proc'.stage = "recovering" /\ ~proc'.clean /\ proc'.todo = order
        /\ UNCHANGED <<ledger, order, journal, task>>
    BY <1>0, <1>8, OpenEffect
  <2>2. \A i \in 1..Len(order) : order[i] \in Outstanding
    BY <1>0 DEF Ordered, Listed
  <2>3. Outstanding' = Outstanding
    BY <2>1 DEF Outstanding
  <2> QED BY <1>0, <2>1, <2>2, <2>3 DEF Staged
<1>9. ASSUME proc.stage = "recovering", proc.todo # <<>>, proc'.todo = Tail(proc.todo), UNCHANGED ledger,
             proc'.stage = proc.stage, proc'.clean = proc.clean,
             \A t \in Turns : journal'[t].place \in {"none", "draft", "adopted"}
      PROVE  Staged'
  <2>1. \A i \in 1..Len(proc'.todo) : \E k \in 1..Len(proc.todo) : proc'.todo[i] = proc.todo[k]
    BY <1>0, <1>9, TodoTail
  <2>2. Outstanding' = Outstanding
    BY <1>9 DEF Outstanding
  <2> QED BY <1>0, <1>9, <2>1, <2>2 DEF Staged
<1>10. ASSUME NEW t \in Turns, RecoverDrop(t) \/ RecoverSkip(t) \/ RecoverDraft(t) PROVE Staged'
  <2>1. /\ proc.stage = "recovering" /\ proc.todo # <<>> /\ proc'.todo = Tail(proc.todo)
        /\ UNCHANGED ledger /\ proc'.stage = proc.stage /\ proc'.clean = proc.clean
    BY <1>0, <1>10, RecoverEffect
  <2>2. \A u \in Turns : journal'[u] = journal[u] \/ journal'[u].place = "draft"
    BY <1>0, <1>10, RecoverEffect
  <2>3. \A u \in Turns : journal'[u].place \in {"none", "draft", "adopted"}
    BY <1>0, <2>1, <2>2 DEF Staged
  <2> QED BY <1>9, <2>1, <2>3
<1>11. ASSUME NEW t \in Turns, RecoverTurn(t) PROVE Staged'
  <2>1. /\ proc.stage = "recovering" /\ UNCHANGED <<proc, ledger>>
        /\ \A u \in Turns : u # t => journal'[u] = journal[u]
        /\ journal'[t].place = "adopted"
    BY <1>0, <1>11, RecoverTurnEffect
  <2> QED BY <1>0, <2>1 DEF Staged, Outstanding
<1>12. ASSUME RecoverDone PROVE Staged'
  <2>1. /\ proc.stage = "recovering" /\ proc.todo # <<>> /\ proc'.todo = Tail(proc.todo)
        /\ UNCHANGED ledger /\ proc'.stage = proc.stage /\ proc'.clean = proc.clean
        /\ \A u \in Turns : journal'[u] = journal[u] \/ journal'[u].place = "none"
    BY <1>0, <1>12, RecoverDoneEffect
  <2>2. \A u \in Turns : journal'[u].place \in {"none", "draft", "adopted"}
    BY <1>0, <2>1 DEF Staged
  <2> QED BY <1>9, <2>1, <2>2
<1>13. ASSUME RecoverCompact PROVE Staged'
  BY <1>0, <1>1, <1>13, RecoverCompactEffect DEF Staged, Ready
<1>14. ASSUME Close PROVE Staged'
  <2>1. Ready /\ Idle /\ proc'.stage = "closing" /\ proc'.clean = proc.clean /\ UNCHANGED task
    BY <1>0, <1>14, CloseEffect
  <2> QED BY <1>0, <2>1 DEF Staged, Ready, Idle
<1>15. ASSUME Closed PROVE Staged'
  <2>1. /\ proc.stage = "closing" /\ proc'.stage = "closed" /\ UNCHANGED task
        /\ \A t \in Turns : journal'[t].place = "none"
    BY <1>0, <1>15, ClosedEffect
  <2> QED BY <1>0, <2>1 DEF Staged
<1>16. ASSUME Crash PROVE Staged'
  <2>1. /\ proc'.stage = "closed" /\ task' = NoTask /\ \A t \in Turns : journal'[t].place = "none"
    BY <1>0, <1>16, CrashEffect
  <2> QED BY <2>1, NoTaskFacts DEF Staged
<1>17. ASSUME UserStep \/ UNCHANGED vars PROVE Staged'
  BY <1>3, <1>17 DEF UserStep, Edit, vars
<1> QED BY <1>4, <1>5, <1>6, <1>7, <1>8, <1>10, <1>11, <1>12, <1>13, <1>14, <1>15, <1>16, <1>17
      DEF Next, TurnStep, RestoreStep, ProcessStep

\* Where journals are kept.
LEMMA PlacedStep ==
  Shape /\ Adopted /\ FateKnown /\ Drafts /\ Keeping /\ AdoptedKept /\ [Next]_vars => Placed'
<1> SUFFICES ASSUME Shape, Adopted, FateKnown, Drafts, Keeping, AdoptedKept, [Next]_vars PROVE Placed'
  OBVIOUS
<1>0. Typed /\ Transaction /\ PreparedKnown /\ Placed /\ Restoring /\ Staged
  BY DEF Shape
<1>1. ASSUME NEW t \in Turns, \A u \in Turns : u # t =>
               (journal'[u] = journal[u] /\ fate'[u] = fate[u] /\ ledger'[u] = ledger[u]),
             task.op = "none" \/ UNCHANGED task \/ (task.op # "revert" /\ task.turn = t)
               \/ task.op = "revert"
      PROVE  \A u \in Turns : u # t =>
        /\ journal'[u].place = "none" => journal'[u].records = NoRecords
        /\ journal'[u].place = "active" => fate'[u] = "open" /\ ledger'[u] # Null /\ ~ledger'[u].committed
        /\ journal'[u].place = "draft" => fate'[u] \in {"draft", "open", "undone"} /\ Flagged(u)'
        /\ journal'[u].place = "committed" => fate'[u] = "kept"
        /\ journal'[u].place = "unresolved" => fate'[u] = "undone"
        /\ journal'[u].place = "rollback" => fate'[u] = "undone" /\ task'.op = "rollback" /\ task'.turn = u
        /\ journal'[u].place = "adopted" =>
             fate'[u] \in {"open", "undone"} /\ task'.op = "recover" /\ task'.turn = u
  BY <1>0, <1>1 DEF Placed, Flagged
<1>2. ASSUME NEW t \in Turns, Begin(t) PROVE Placed'
  <2>1. /\ \A u \in Turns : u # t => /\ journal'[u] = journal[u] /\ fate'[u] = fate[u]
                                     /\ ledger'[u] = ledger[u]
        /\ UNCHANGED task /\ journal'[t].place = "active" /\ fate'[t] = "open"
        /\ ledger'[t] # Null /\ ~ledger'[t].committed
    BY <1>0, <1>2, BeginEffect, BeginLogged
  <2> QED BY <1>1, <2>1 DEF Placed
<1>3. ASSUME NEW t \in Turns, Commit(t) \/ KeepDraft(t) PROVE Placed'
  <2>1. /\ \A u \in Turns : u # t => /\ journal'[u] = journal[u] /\ fate'[u] = fate[u]
                                     /\ ledger'[u] = ledger[u]
        /\ UNCHANGED task /\ journal'[t].place = "committed" /\ fate'[t] = "kept"
    BY <1>0, <1>3, CommitEffect, KeepDraftEffect, CommitLogged
  <2> QED BY <1>1, <2>1 DEF Placed
<1>4. ASSUME NEW t \in Turns, Suspend(t) PROVE Placed'
  <2>1. UNCHANGED task /\ journal[t].place = "active" /\ ledger[t] # Null
    BY <1>0, <1>4, SuspendEffect DEF Placed
  <2>2. /\ \A u \in Turns : u # t => /\ journal'[u] = journal[u] /\ fate'[u] = fate[u]
                                     /\ ledger'[u] = ledger[u]
        /\ \/ journal'[t].place = "draft" /\ fate'[t] = "draft" /\ ledger'[t] # Null /\ ledger'[t].draft
           \/ journal'[t].place = "none" /\ journal'[t].records = NoRecords
    BY <1>0, <1>4, <2>1, SuspendEffect, DraftLogged, SettledLogged
  <2> QED BY <1>1, <2>1, <2>2 DEF Placed, Flagged
<1>5. ASSUME NEW t \in Turns, Rollback(t) PROVE Placed'
  <2>1. /\ \A u \in Turns : u # t => /\ journal'[u] = journal[u] /\ fate'[u] = fate[u]
                                     /\ ledger'[u] = ledger[u]
        /\ Idle /\ task'.op = "rollback" /\ task'.turn = t
        /\ journal'[t].place = "rollback" /\ fate'[t] = "undone"
    BY <1>0, <1>5, RollbackEffect
  <2> QED BY <1>1, <2>1 DEF Placed, Idle
<1>6. ASSUME NEW t \in Turns, Revert(t) PROVE Placed'
  <2>1. Idle /\ UNCHANGED <<journal, fate, ledger>>
    BY <1>0, <1>6, RevertEffect
  <2> QED BY <1>0, <2>1 DEF Placed, Idle, Flagged
<1>7. ASSUME NEW t \in Turns, NEW r \in Turns, ResumeDraft(t, r) PROVE Placed'
  <2>1. CASE t = r
    <3>1. /\ \A u \in Turns : u # t => /\ journal'[u] = journal[u] /\ fate'[u] = fate[u]
                                       /\ ledger'[u] = ledger[u]
          /\ UNCHANGED <<task, ledger, fate>> /\ fate[t] = "open" /\ journal[t].place = "draft"
          /\ journal'[t].place = "active"
      BY <1>0, <1>7, <2>1, ResumeOwnEffect
    <3>2. ledger[t] # Null /\ ~ledger[t].committed
      BY <1>0, <3>1 DEF Placed, Flagged, FateKnown
    <3> QED BY <1>1, <3>1, <3>2 DEF Placed
  <2>2. CASE t # r
    <3>1. LogResume(t, r) /\ ledger[t] # Null /\ ledger[r] = Null /\ ledger[t].draft
      BY <1>0, <1>7, <2>2, ResumeEffect DEF FateKnown, Placed, Flagged
    <3>2. /\ \A u \in Turns \ {t, r} : /\ journal'[u] = journal[u] /\ fate'[u] = fate[u]
                                       /\ ledger'[u] = ledger[u]
          /\ journal'[t].place = "none" /\ journal'[t].records = NoRecords
          /\ journal'[r].place = "active" /\ fate'[r] = "open" /\ UNCHANGED task
      BY <1>0, <1>7, <2>2, <3>1, ResumeEffect, ResumeLogged
    <3>3. ledger'[r] # Null /\ ledger'[r].committed = ledger[t].committed /\ ~ledger[t].committed
      BY <1>0, <2>2, <3>1, ResumeLogged DEF FateKnown
    <3> QED BY <1>0, <3>2, <3>3 DEF Placed, Flagged
  <2> QED BY <2>1, <2>2
<1>8. ASSUME NEW f \in Files, Restore(f) \/ Conflict(f) PROVE Placed'
  <2>1. task'.op = task.op /\ task'.turn = task.turn /\ f \in task.todo
    BY <1>0, <1>8, RestoreProceeds DEF Proceeds
  <2>2. /\ UNCHANGED <<ledger, fate>> /\ \A t \in Turns : journal'[t].place = journal[t].place
        /\ \A t \in Turns : t # task.turn \/ Conflict(f) => \A g \in Files : journal'[t].records[g] = journal[t].records[g]
        /\ journal' \in [Turns -> Journals]
    <3>1. CASE Restore(f)
      <4>1. ~Conflict(f)
        BY <3>1 DEF Restore, Conflict
      <4> QED BY <1>0, <3>1, <4>1, RestoreEffect
    <3>2. CASE Conflict(f)
      BY <1>0, <3>2 DEF Conflict, Typed, Journals
    <3> QED BY <1>8, <3>1, <3>2
  <2>3. task.turn \in Turns /\ task.op # "none" /\ task.todo # {}
    BY <1>0, <1>8 DEF Restore, Conflict, Restoring
  <2>4. journal[task.turn].place # "none"
    BY <1>0, <2>3, <2>1 DEF Restoring, Typed, Tasks
  <2>5. \A t \in Turns : journal[t].place = "none" => journal'[t].records = NoRecords
    <3> SUFFICES ASSUME NEW t \in Turns, journal[t].place = "none" PROVE journal'[t].records = NoRecords
      OBVIOUS
    <3>1. \A g \in Files : journal'[t].records[g] = Null
      BY <1>0, <2>2, <2>4, NewTyped DEF Placed
    <3>2. journal'[t].records \in RecordSets
      BY <2>2 DEF Journals
    <3> QED BY <3>1, <3>2 DEF NoRecords, RecordSets
  <2> QED BY <1>0, <2>1, <2>2, <2>5 DEF Placed, Flagged
<1>9. ASSUME RollbackDone PROVE Placed'
  <2> DEFINE t == task.turn
  <2>1. /\ task.op = "rollback" /\ t \in Turns /\ UNCHANGED fate /\ journal[t].place = "rollback"
        /\ \A u \in Turns : u # t => journal'[u] = journal[u]
        /\ \/ UNCHANGED ledger /\ journal'[t].place = "unresolved"
           \/ LogSettled(t) /\ journal'[t].place = "none" /\ journal'[t].records = NoRecords
    BY <1>0, <1>9, RollbackDoneEffect DEF Restoring
  <2>2. \A u \in Turns : u # t => ledger'[u] = ledger[u]
    BY <1>0, <2>1, SettledLogged
  <2>3. fate'[t] = "undone"
    BY <1>0, <2>1 DEF Placed
  <2> HIDE DEF t
  <2> QED BY <1>1, <2>1, <2>2, <2>3 DEF t, Placed
<1>10. ASSUME RevertDone PROVE Placed'
  <2>1. task.op = "revert" /\ task.turn \in Turns /\ UNCHANGED ledger
    BY <1>0, <1>10, RevertDoneEffect
  <2>2. CASE UNCHANGED <<journal, fate>>
    BY <1>0, <2>1, <2>2 DEF Placed, Flagged
  <2>3. CASE /\ \A u \in Turns : u # task.turn => journal'[u] = journal[u]
             /\ journal'[task.turn].place = "none" /\ journal'[task.turn].records = NoRecords
             /\ \A u \in Turns : fate'[u] = IF u = task.turn THEN "undone" ELSE fate[u]
    BY <1>0, <2>1, <2>3 DEF Placed, Flagged
  <2> QED BY <1>0, <1>10, <2>2, <2>3, RevertDoneEffect
<1>11. ASSUME RevertSettled PROVE Placed'
  <2>1. /\ task.turn \in Turns /\ journal[task.turn].place = "none" /\ UNCHANGED <<journal, fate>>
        /\ task.op = "revert" /\ (LogSettled(task.turn) \/ ledger' = ledger)
    BY <1>0, <1>11 DEF RevertSettled, Restoring
  <2>2. \A u \in Turns : u # task.turn => ledger'[u] = ledger[u]
    BY <1>0, <2>1, SettledLogged
  <2> QED BY <1>0, <2>1, <2>2 DEF Placed, Flagged
<1>12. ASSUME NEW f \in Files, Prepare(f) \/ Record(f) \/ Amend(f) PROVE Placed'
  <2>1. /\ Turn \in Turns /\ journal[Turn].place = "active" /\ UNCHANGED <<task, fate>>
        /\ \/ UNCHANGED <<ledger, journal>>
           \/ \E rec \in Records : Puts(Turn, f, rec) /\ (LogRecord(Turn, f, rec) \/ UNCHANGED ledger)
    BY <1>0, <1>12, RecordMoves
  <2>2. ledger[Turn] # Null
    BY <1>0, <2>1 DEF Placed
  <2>3. CASE UNCHANGED <<ledger, journal>>
    BY <1>0, <2>1, <2>3 DEF Placed, Flagged
  <2>4. ASSUME NEW rec \in Records, Puts(Turn, f, rec), LogRecord(Turn, f, rec) \/ UNCHANGED ledger
        PROVE  Placed'
    <3>1. /\ \A t \in Turns : journal'[t].place = journal[t].place
          /\ \A t \in Turns : t # Turn => journal'[t] = journal[t]
      BY <1>0, <2>1, <2>4, JournalSet DEF Puts, Typed
    <3>2. /\ \A t \in Turns : t # Turn => ledger'[t] = ledger[t]
          /\ ledger'[Turn] # Null /\ ledger'[Turn].committed = ledger[Turn].committed
      BY <1>0, <2>1, <2>2, <2>4, LedgerSet
    <3> QED BY <1>0, <2>1, <3>1, <3>2 DEF Placed, Flagged
  <2> QED BY <2>1, <2>3, <2>4
<1>13. ASSUME NEW t \in Turns, RecoverDrop(t) \/ RecoverSkip(t) \/ RecoverDraft(t) PROVE Placed'
  <2>1. /\ UNCHANGED <<task, fate, ledger>> /\ ledger[t] # Null
        /\ \/ journal' = journal
           \/ /\ ~ledger[t].committed /\ ledger[t].draft /\ journal'[t].place = "draft"
              /\ \A u \in Turns : u # t => journal'[u] = journal[u]
    BY <1>0, <1>13, RecoverEffect
  <2>2. CASE journal' = journal
    BY <1>0, <2>1, <2>2 DEF Placed, Flagged
  <2>3. CASE /\ ~ledger[t].committed /\ ledger[t].draft /\ journal'[t].place = "draft"
             /\ \A u \in Turns : u # t => journal'[u] = journal[u]
    <3>1. fate[t] \in {"open", "draft", "undone"}
      BY <2>1, <2>3 DEF FateKnown
    <3> QED BY <1>0, <2>1, <2>3, <3>1 DEF Placed, Flagged
  <2> QED BY <2>1, <2>2, <2>3
<1>14. ASSUME NEW t \in Turns, RecoverTurn(t) PROVE Placed'
  <2>1. /\ \A u \in Turns : u # t => journal'[u] = journal[u]
        /\ task.op = "none" /\ UNCHANGED <<fate, ledger>> /\ task'.op = "recover" /\ task'.turn = t
        /\ journal'[t].place = "adopted"
        /\ ledger[t] # Null /\ ~ledger[t].committed /\ ~ledger[t].draft
    BY <1>0, <1>14, RecoverTurnEffect
  <2>2. fate[t] \in {"open", "undone"}
    BY <2>1 DEF FateKnown, Drafts, Flagged
  <2> QED BY <1>1, <2>1, <2>2 DEF Placed
<1>15. ASSUME RecoverDone PROVE Placed'
  <2>1. /\ task.op = "recover" /\ task.turn \in Turns /\ UNCHANGED <<fate, ledger>>
        /\ \A u \in Turns : u # task.turn => journal'[u] = journal[u]
        /\ journal'[task.turn].place = "none" /\ journal'[task.turn].records = NoRecords
    BY <1>0, <1>15, RecoverDoneEffect
  <2> QED BY <1>0, <2>1 DEF Placed, Flagged
<1>16. ASSUME RecoverCompact PROVE Placed'
  <2>1. /\ proc.stage = "recovering" /\ task.op = "none" /\ UNCHANGED <<journal, task>>
        /\ \A t \in Turns : ledger'[t] = proc.keep[t]
        /\ \A t \in Turns : proc.keep[t] # Null => fate'[t] = fate[t]
    BY <1>0, <1>16, RecoverCompactEffect
  <2>2. \A t \in Turns : journal[t].place \in {"none", "draft"}
    BY <1>0, <2>1 DEF Staged, Placed
  <2>3. \A t \in Turns : journal[t].place = "draft" => ledger'[t] # Null /\ ledger'[t].draft
    BY <1>0, <2>1 DEF AdoptedKept, Keeping, Placed, Flagged
  <2> QED BY <1>0, <2>1, <2>2, <2>3 DEF Placed, Flagged
<1>17. ASSUME Closed \/ Crash PROVE Placed'
  <2>1. \A t \in Turns : journal'[t].place = "none" /\ journal'[t].records = NoRecords
    BY <1>0, <1>17, ClosedEffect, CrashEffect
  <2> QED BY <2>1 DEF Placed
<1>18. ASSUME UNCHANGED <<journal, fate, ledger, task>> PROVE Placed'
  BY <1>0, <1>18 DEF Placed, Flagged
<1> QED BY <1>2, <1>3, <1>4, <1>5, <1>6, <1>7, <1>8, <1>9, <1>10, <1>11, <1>12, <1>13, <1>14, <1>15,
           <1>16, <1>17, <1>18, JournalFrame, FateFrame, LedgerFrame, TaskFrame

-----------------------------------------------------------------------------
(* The invariant is preserved: changes in the workspace.                   *)

\* A change that is in the workspace was there, unless the transaction just wrote it or its
\* turn took it over.
LEMMA LeftStep ==
  ASSUME Shape, FateKnown, OneLive, [Next]_vars, NEW t \in Turns, NEW f \in Files, Left(t, f)'
  PROVE  \/ Left(t, f) /\ writer[f] = t /\ file'[f] = file[f] /\ origin'[t][f] = origin[t][f]
         \/ t = Turn /\ t \in Active /\ (Apply(f) \/ UndoWrite(f)) /\ f \in tx'.done
         \/ \E s \in Turns : s # t /\ ResumeDraft(s, t) /\ Left(s, f) /\ file' = file
<1>0. Typed /\ Transaction /\ PreparedKnown /\ DoneOwn /\ Placed /\ Restoring
  BY DEF Shape
<1>1. writer'[f] = t /\ file'[f].data # origin'[t][f] /\ t # Null
  BY Apartness DEF Left
<1>2. ASSUME writer'[f] = writer[f], file'[f] = file[f], origin'[t][f] = origin[t][f]
      PROVE  Left(t, f) /\ writer[f] = t /\ file'[f] = file[f] /\ origin'[t][f] = origin[t][f]
  BY <1>1, <1>2 DEF Left
<1>3. CASE UNCHANGED <<file, writer, origin>>
  BY <1>2, <1>3
<1>5. ASSUME NEW s \in Turns, NEW r \in Turns, ResumeDraft(s, r)
      PROVE  \/ Left(t, f) /\ writer[f] = t /\ file'[f] = file[f] /\ origin'[t][f] = origin[t][f]
             \/ s # t /\ r = t /\ Left(s, f) /\ file' = file
  <2>1. CASE s = r
    BY <1>0, <1>2, <1>5, <2>1, ResumeOwnEffect
  <2>2. CASE s # r
    <3>1. /\ writer'[f] = IF writer[f] = s THEN r ELSE writer[f]
          /\ origin'[t] = IF t = r THEN origin[s] ELSE IF t = s THEN NoRecords ELSE origin[t]
          /\ UNCHANGED file /\ fate[r] = "fresh"
      BY <1>0, <1>5, <2>2, ResumeEffect
    <3>2. CASE writer[f] = s
      BY <1>1, <2>2, <3>1, <3>2 DEF Left
    <3>3. CASE writer[f] # s /\ t # r
      BY <1>1, <1>2, <3>1, <3>3
    <3>4. CASE writer[f] # s /\ t = r
      BY <1>1, <1>5, <3>1, <3>4 DEF FateKnown
    <3> QED BY <3>2, <3>3, <3>4
  <2> QED BY <2>1, <2>2
<1>6. ASSUME NEW g \in Files, Restore(g) PROVE Left(t, f) /\ writer[f] = t /\ file'[f] = file[f] /\ origin'[t][f] = origin[t][f]
  <2>1. /\ writer'[f] = IF f = g THEN Null ELSE writer[f]
        /\ f # g => file'[f] = file[f]
        /\ UNCHANGED origin
    BY <1>0, <1>6, RestoreEffect
  <2> QED BY <1>1, <1>2, <2>1
<1>7. ASSUME NEW g \in Files, NEW data \in UserData, Edit(g, data) PROVE Left(t, f) /\ writer[f] = t /\ file'[f] = file[f] /\ origin'[t][f] = origin[t][f]
  <2>1. /\ writer'[f] = IF f = g THEN Null ELSE writer[f]
        /\ f # g => file'[f] = file[f]
        /\ UNCHANGED origin
    BY <1>0, <1>7 DEF Edit, Typed
  <2> QED BY <1>1, <1>2, <2>1
<1>9. ASSUME NEW g \in Files, Prepare(g) PROVE Left(t, f) /\ writer[f] = t /\ file'[f] = file[f] /\ origin'[t][f] = origin[t][f]
  <2>1. /\ UNCHANGED <<file, writer>> /\ Turn \in Turns
        /\ origin' = origin \/ origin' = [origin EXCEPT ![Turn][g] = file[g].data]
    BY <1>0, <1>9, RecordMoves DEF Prepare
  <2>2. origin \in [Turns -> [Files -> Contents \cup {Null}]]
    BY <1>0 DEF Typed
  <2>3. CASE t = Turn /\ f = g /\ origin' # origin
    <3>1. origin'[t][f] = file[f].data
      BY <2>1, <2>2, <2>3
    <3> QED BY <1>1, <2>1, <3>1
  <2>4. CASE ~(t = Turn /\ f = g /\ origin' # origin)
    <3>1. origin'[t][f] = origin[t][f]
      BY <2>1, <2>2, <2>4
    <3> QED BY <1>2, <2>1, <3>1
  <2> QED BY <2>3, <2>4
<1>10. ASSUME NEW g \in Files, Apply(g)
       PROVE  \/ Left(t, f) /\ writer[f] = t /\ file'[f] = file[f] /\ origin'[t][f] = origin[t][f]
              \/ t = Turn /\ t \in Active /\ f = g /\ f \in tx'.done
  <2>1. /\ UNCHANGED origin
        /\ \/ UNCHANGED <<file, writer>>
           \/ /\ tx'.done = tx.done \cup {g} /\ writer'[g] = Turn
              /\ \A h \in Files : h # g => file'[h] = file[h] /\ writer'[h] = writer[h]
    BY <1>0, <1>10, ApplyEffect
  <2>2. Turn \in Active
    BY <1>0, <1>10, ApplyEffect, TurnFacts
  <2> QED BY <1>1, <1>2, <2>1, <2>2
<1>11. ASSUME NEW g \in Files, UndoWrite(g)
       PROVE  \/ Left(t, f) /\ writer[f] = t /\ file'[f] = file[f] /\ origin'[t][f] = origin[t][f]
              \/ t = Turn /\ t \in Active /\ f = g /\ f \in tx'.done
  <2>1. /\ UNCHANGED <<origin, writer>> /\ tx.pc = "undo" /\ g \in tx.todo /\ Active # {}
        /\ \A h \in Files : h # g => file'[h] = file[h]
        /\ tx' = Advanced("amend", g)
    BY <1>0, <1>11, UndoWriteEffect
  <2>2. tx'.done = tx.done /\ g \in tx.done
    BY <1>0, <2>1, AdvancedFacts DEF Transaction
  <2>3. Turn \in Active /\ writer[g] \in {Turn, Null}
    BY <1>0, <2>1, <2>2, TurnFacts DEF DoneOwn
  <2> QED BY <1>1, <1>2, <2>1, <2>2, <2>3
<1> QED BY <1>3, <1>5, <1>6, <1>7, <1>9, <1>10, <1>11, FileFrame, WriterFrame, OriginFrame

\* The same for a change whose record was not replaced.
LEMMA MineStep ==
  ASSUME Shape, FateKnown, OneLive, [Next]_vars, NEW t \in Turns, NEW f \in Files, Mine(t, f)'
  PROVE  \/ Mine(t, f) /\ writer[f] = t /\ file'[f] = file[f] /\ origin'[t][f] = origin[t][f]
         \/ t = Turn /\ t \in Active /\ (Apply(f) \/ UndoWrite(f)) /\ f \in tx'.done
         \/ \E s \in Turns : s # t /\ ResumeDraft(s, t) /\ Mine(s, f) /\ file' = file
<1>0. Typed
  BY DEF Shape
<1>1. Left(t, f)' /\ f \notin replaced'[t] /\ writer'[f] = t
  BY DEF Mine, Left
<1>2. ASSUME Left(t, f) PROVE f \notin replaced[t]
  <2>1. ASSUME NEW u \in Turns, Begin(u) PROVE f \notin replaced[t]
    BY <1>0, <1>1, <2>1, BeginEffect
  <2>2. ASSUME NEW s \in Turns, NEW r \in Turns, ResumeDraft(s, r) PROVE f \notin replaced[t]
    <3>1. CASE s = r
      BY <1>0, <1>1, <2>2, <3>1, ResumeOwnEffect
    <3>2. CASE s # r
      <4>1. /\ writer'[f] = (IF writer[f] = s THEN r ELSE writer[f]) /\ fate[r] = "fresh"
            /\ replaced'[t] = IF t = r THEN replaced[s] ELSE IF t = s THEN {} ELSE replaced[t]
        BY <1>0, <2>2, <3>2, ResumeEffect
      <4>2. writer[f] = t /\ t # r
        BY <1>2, <2>2, <4>1 DEF Left, FateKnown
      <4> QED BY <1>1, <3>2, <4>1, <4>2
    <3> QED BY <3>1, <3>2
  <2>3. ASSUME NEW g \in Files, Prepare(g) PROVE f \notin replaced[t]
    <3>1. \/ replaced' = replaced
          \/ ~Left(Turn, g) /\ replaced' = [replaced EXCEPT ![Turn] = @ \ {g}]
      BY <2>3 DEF Prepare
    <3> QED BY <1>0, <1>1, <1>2, <3>1 DEF Typed
  <2> QED BY <1>1, <2>1, <2>2, <2>3, ReplacedFrame
<1>3. ASSUME NEW s \in Turns, s # t, ResumeDraft(s, t) PROVE f \notin replaced[s]
  BY <1>0, <1>1, <1>3, ResumeEffect
<1> QED BY <1>1, <1>2, <1>3, LeftStep DEF Mine

\* The same for a change that the ledger was told, unless it is told right now.
LEMMA ToldStep ==
  ASSUME Shape, FateKnown, OneLive, [Next]_vars, NEW t \in Turns, NEW f \in Files, Told(t, f)'
  PROVE  \/ Told(t, f) /\ writer[f] = t /\ file'[f] = file[f] /\ origin'[t][f] = origin[t][f]
         \/ t = Turn /\ t \in Active /\ (Apply(f) \/ UndoWrite(f)) /\ f \in tx'.done
         \/ \E s \in Turns : s # t /\ ResumeDraft(s, t) /\ Told(s, f) /\ file' = file
         \/ t = Turn /\ t \in Active /\ (Record(f) \/ Amend(f)) /\ After(f) /\ Mine(t, f)
<1>0. Typed /\ Transaction /\ PreparedKnown /\ Placed
  BY DEF Shape
<1>1. Mine(t, f)' /\ f \notin untold'[t]
  BY DEF Told
<1>2. ASSUME Mine(t, f)
      PROVE  \/ f \notin untold[t]
             \/ t = Turn /\ t \in Active /\ (Record(f) \/ Amend(f)) /\ After(f)
  <2>1. ASSUME NEW u \in Turns, Begin(u) PROVE f \notin untold[t]
    <3>1. /\ untold'[t] = IF t = u THEN {} ELSE untold[t]
          /\ f \in replaced'[u] <=> f \in replaced[u] \/ Left(u, f)
      BY <1>0, <2>1, BeginEffect
    <3>2. t # u
      BY <1>1, <1>2, <3>1 DEF Mine
    <3> QED BY <1>1, <3>1, <3>2
  <2>2. ASSUME NEW s \in Turns, NEW r \in Turns, ResumeDraft(s, r) PROVE f \notin untold[t]
    <3>1. CASE s = r
      BY <1>0, <1>1, <2>2, <3>1, ResumeOwnEffect
    <3>2. CASE s # r
      <4>1. /\ writer'[f] = (IF writer[f] = s THEN r ELSE writer[f]) /\ fate[r] = "fresh"
            /\ untold'[t] = IF t = r THEN untold[s] ELSE IF t = s THEN {} ELSE untold[t]
        BY <1>0, <2>2, <3>2, ResumeEffect
      <4>2. writer[f] = t /\ t # r /\ writer'[f] = t
        BY <1>1, <1>2, <2>2, <4>1 DEF Mine, Left, FateKnown
      <4> QED BY <1>1, <3>2, <4>1, <4>2
    <3> QED BY <3>1, <3>2
  <2>3. ASSUME NEW g \in Files, Record(g) \/ Amend(g)
        PROVE  \/ f \notin untold[t]
               \/ t = Turn /\ t \in Active /\ (Record(f) \/ Amend(f)) /\ After(f)
    <3>1. /\ Turn \in Active
          /\ \/ untold' = untold \/ untold' = Missed({g})
             \/ Tells(g) /\ untold' = [untold EXCEPT ![Turn] = @ \ {g}]
      BY <1>0, <2>3, RecordMoves DEF Tells, Hides, Takes
    <3>2. CASE untold' = untold \/ untold' = Missed({g})
      BY <1>0, <1>1, <3>2, MissedFacts
    <3>3. CASE Tells(g) /\ untold' = [untold EXCEPT ![Turn] = @ \ {g}]
      <4>1. f \in untold[t] => t = Turn /\ f = g
        BY <1>0, <1>1, <3>3 DEF Typed
      <4> QED BY <3>1, <3>3, <4>1 DEF Tells
    <3> QED BY <3>1, <3>2, <3>3
  <2>4. ASSUME Crash PROVE f \notin untold[t]
    <3>1. tx.done \in SUBSET Files
      BY <1>0 DEF Typed, Transactions
    <3> QED BY <1>0, <1>1, <2>4, <3>1, CrashEffect, MissedFacts
  <2> QED BY <1>1, <2>1, <2>2, <2>3, <2>4, UntoldFrame
<1>3. ASSUME NEW s \in Turns, s # t, ResumeDraft(s, t) PROVE f \notin untold[s]
  BY <1>0, <1>1, <1>3, ResumeEffect
<1> QED BY <1>1, <1>2, <1>3, MineStep DEF Told

\* A restore without conflict has undone every change that was told.
LEMMA AllRestored ==
  ASSUME Shape, InMemory, task.op # "none", task.step = "restore", task.todo = {}, ~task.conflict
  PROVE  \A f \in Files : ~InJournal(task.turn, f) /\ ~Told(task.turn, f)
<1>1. task.turn \in Turns /\ journal[task.turn].place \notin {"none", "active"}
  BY DEF Shape, Restoring, Typed, Tasks
<1>2. Settling(task.turn) = {}
  BY <1>1 DEF Settling, Active, In
<1>3. \A f \in Files : ~InJournal(task.turn, f)
  BY DEF Shape, RestoreTodo
<1> QED BY <1>1, <1>2, <1>3 DEF InMemory

\* What is known of the fates, but for committed turns that are undone.
FateShape(t) ==
  /\ fate[t] = "fresh" => ledger[t] = Null /\ \A f \in Files : writer[f] # t
  /\ ledger[t] # Null => fate[t] \in {"open", "draft", "kept", "undone"}
  /\ ledger[t] # Null /\ fate[t] = "kept" => ledger[t].committed
  /\ ledger[t] # Null /\ ledger[t].committed => ~ledger[t].draft /\ fate[t] \in {"kept", "undone"}

\* FateShape is preserved.
LEMMA FateShapeStep ==
  Shape /\ Adopted /\ FateKnown /\ OneLive /\ Keeping /\ Drafts /\ [Next]_vars => \A t \in Turns : FateShape(t)'
<1> SUFFICES ASSUME Shape, Adopted, FateKnown, OneLive, Keeping, Drafts, [Next]_vars
             PROVE  \A t \in Turns : FateShape(t)'
  OBVIOUS
<1>0. Typed /\ Transaction /\ PreparedKnown /\ Placed /\ Restoring /\ Staged /\ DoneOwn
  BY DEF Shape
<1>1. \A t \in Turns : FateShape(t) /\ t # Null
  BY Apartness DEF FateKnown, FateShape
<1>2. ASSUME NEW t \in Turns, fate'[t] = fate[t], ledger'[t] \in {ledger[t], Null},
             \A f \in Files : writer'[f] = t => writer[f] = t
      PROVE  FateShape(t)'
  BY <1>1, <1>2 DEF FateShape
<1>3. ASSUME NEW t \in Turns, Begin(t) PROVE \A u \in Turns : FateShape(u)'
  <2>1. /\ \A u \in Turns : u # t => fate'[u] = fate[u] /\ ledger'[u] = ledger[u]
        /\ UNCHANGED writer
        /\ fate'[t] = "open" /\ ledger'[t] # Null /\ ~ledger'[t].committed
    BY <1>0, <1>3, BeginEffect, BeginLogged
  <2>2. FateShape(t)'
    BY <2>1 DEF FateShape
  <2>3. \A u \in Turns : u # t => FateShape(u)'
    BY <1>1, <1>2, <2>1
  <2> QED BY <2>2, <2>3
<1>4. ASSUME NEW t \in Turns, Commit(t) \/ KeepDraft(t) PROVE \A u \in Turns : FateShape(u)'
  <2>1. /\ \A u \in Turns : u # t => fate'[u] = fate[u] /\ ledger'[u] = ledger[u]
        /\ UNCHANGED writer /\ fate'[t] = "kept"
        /\ ledger'[t] # Null => ledger'[t].committed /\ ~ledger'[t].draft
    BY <1>0, <1>4, CommitEffect, KeepDraftEffect, CommitLogged
  <2>2. FateShape(t)'
    BY <2>1 DEF FateShape
  <2>3. \A u \in Turns : u # t => FateShape(u)'
    BY <1>1, <1>2, <2>1
  <2> QED BY <2>2, <2>3
<1>5. ASSUME NEW t \in Turns, Suspend(t) PROVE \A u \in Turns : FateShape(u)'
  <2>1. ledger[t] # Null /\ ~ledger[t].committed
    BY <1>0, <1>5, SuspendEffect DEF Placed
  <2>2. /\ \A u \in Turns : u # t => fate'[u] = fate[u] /\ ledger'[u] = ledger[u]
        /\ UNCHANGED writer
        /\ \/ fate'[t] = "draft" /\ ledger'[t].committed = ledger[t].committed
           \/ fate'[t] = "settled" /\ ledger'[t] = Null
    BY <1>0, <1>5, <2>1, SuspendEffect, DraftLogged, SettledLogged
  <2>3. FateShape(t)'
    BY <2>1, <2>2 DEF FateShape
  <2>4. \A u \in Turns : u # t => FateShape(u)'
    BY <1>1, <1>2, <2>2
  <2> QED BY <2>3, <2>4
<1>6. ASSUME NEW t \in Turns, Rollback(t) PROVE \A u \in Turns : FateShape(u)'
  <2>1. /\ \A u \in Turns : u # t => fate'[u] = fate[u]
        /\ UNCHANGED <<writer, ledger>> /\ fate'[t] = "undone"
    BY <1>0, <1>6, RollbackEffect
  <2> QED BY <1>1, <1>2, <2>1 DEF FateShape
<1>7. ASSUME NEW t \in Turns, NEW r \in Turns, ResumeDraft(t, r) PROVE \A u \in Turns : FateShape(u)'
  <2>1. CASE t = r
    BY <1>0, <1>2, <1>7, <2>1, ResumeOwnEffect
  <2>2. CASE t # r
    <3>1. LogResume(t, r) /\ ledger[t] # Null /\ ledger[r] = Null /\ ledger[t].draft
      BY <1>0, <1>7, <2>2, ResumeEffect DEF FateKnown, Placed, Flagged
    <3>2. /\ \A u \in Turns \ {t, r} : fate'[u] = fate[u] /\ ledger'[u] = ledger[u]
          /\ fate'[t] = "resumed" /\ fate'[r] = "open" /\ ledger'[t] = Null
          /\ ledger'[r].committed = ledger[t].committed
          /\ \A f \in Files : writer'[f] = IF writer[f] = t THEN r ELSE writer[f]
      BY <1>0, <1>7, <2>2, <3>1, ResumeEffect, ResumeLogged
    <3>3. FateShape(t)' /\ FateShape(r)'
      BY <1>1, <3>1, <3>2 DEF FateShape
    <3>4. \A u \in Turns \ {t, r} : FateShape(u)'
      BY <1>1, <1>2, <3>2
    <3> QED BY <3>3, <3>4
  <2> QED BY <2>1, <2>2
<1>8. ASSUME NEW f \in Files, Prepare(f) \/ Record(f) \/ Amend(f) PROVE \A u \in Turns : FateShape(u)'
  <2>1. /\ Turn \in Turns /\ ledger[Turn] # Null /\ UNCHANGED <<fate, writer>>
        /\ \/ UNCHANGED ledger
           \/ \E rec \in Records : LogRecord(Turn, f, rec)
    BY <1>0, <1>8, RecordMoves
  <2>2. /\ \A t \in Turns : t # Turn => ledger'[t] = ledger[t]
        /\ ledger'[Turn].committed = ledger[Turn].committed /\ ledger'[Turn].draft = ledger[Turn].draft
    BY <1>0, <2>1, LedgerSet
  <2> QED BY <1>1, <2>1, <2>2 DEF FateShape
<1>9. ASSUME RollbackDone PROVE \A u \in Turns : FateShape(u)'
  <2>1. /\ task.turn \in Turns /\ UNCHANGED <<fate, writer>>
        /\ UNCHANGED ledger \/ LogSettled(task.turn)
    BY <1>0, <1>9, RollbackDoneEffect
  <2>2. \A u \in Turns : ledger'[u] \in {ledger[u], Null}
    BY <1>0, <2>1, SettledLogged
  <2> QED BY <1>2, <2>1, <2>2
<1>10. ASSUME RevertSettled PROVE \A u \in Turns : FateShape(u)'
  <2>1. /\ task.turn \in Turns /\ UNCHANGED <<fate, writer>>
        /\ UNCHANGED ledger \/ LogSettled(task.turn)
    BY <1>0, <1>10 DEF RevertSettled, Restoring
  <2>2. \A u \in Turns : ledger'[u] \in {ledger[u], Null}
    BY <1>0, <2>1, SettledLogged
  <2> QED BY <1>2, <2>1, <2>2
<1>11. ASSUME RevertDone PROVE \A u \in Turns : FateShape(u)'
  <2>1. /\ task.turn \in Turns /\ UNCHANGED <<ledger, writer>>
        /\ UNCHANGED fate \/ \A u \in Turns : fate'[u] = IF u = task.turn THEN "undone" ELSE fate[u]
    BY <1>0, <1>11, RevertDoneEffect
  <2> QED BY <1>1, <2>1 DEF FateShape
<1>12. ASSUME RecoverCompact PROVE \A u \in Turns : FateShape(u)'
  <2>1. /\ \A u \in Turns : ledger'[u] = proc.keep[u]
        /\ \A u \in Turns : fate'[u] = fate[u] \/ (fate'[u] = "dropped" /\ ledger'[u] = Null)
        /\ UNCHANGED writer
    BY <1>0, <1>12, RecoverCompactEffect
  <2>2. \A u \in Turns : ledger'[u] # Null =>
          ledger[u] # Null /\ ledger'[u].committed = ledger[u].committed /\ ~ledger[u].committed
    BY <2>1 DEF Keeping, Same
  <2> QED BY <1>1, <2>1, <2>2 DEF FateShape
<1>13. ASSUME Closed PROVE \A u \in Turns : FateShape(u)'
  <2>1. /\ UNCHANGED <<fate, writer>>
        /\ \A u \in Turns : ledger'[u] # Null =>
             ledger[u] # Null /\ ledger'[u].committed = ledger[u].committed /\ ledger'[u].draft = ledger[u].draft
    BY <1>0, <1>13, ClosedEffect
  <2> QED BY <1>1, <2>1 DEF FateShape
<1>14. ASSUME NEW f \in Files, Apply(f) PROVE \A u \in Turns : FateShape(u)'
  <2>1. /\ UNCHANGED <<fate, ledger>>
        /\ \A g \in Files : writer'[g] \in {writer[g], Turn}
    BY <1>0, <1>14, ApplyEffect
  <2>2. fate[Turn] = "open" /\ Turn \in Turns
    BY <1>0, <1>14, ApplyEffect, TurnFacts DEF Placed
  <2> QED BY <1>1, <2>1, <2>2 DEF FateShape
<1>15. ASSUME NEW f \in Files, Restore(f) PROVE \A u \in Turns : FateShape(u)'
  BY <1>0, <1>1, <1>2, <1>15, RestoreEffect
<1>16. ASSUME NEW f \in Files, NEW data \in UserData, Edit(f, data) PROVE \A u \in Turns : FateShape(u)'
  <2>1. UNCHANGED <<fate, ledger>> /\ \A g \in Files : writer'[g] \in {writer[g], Null}
    BY <1>0, <1>16 DEF Edit, Typed
  <2> QED BY <1>1, <1>2, <2>1
<1>17. ASSUME Crash PROVE \A u \in Turns : FateShape(u)'
  <2>1. UNCHANGED <<fate, ledger, writer>>
    BY <1>0, <1>17, CrashEffect
  <2> QED BY <1>1, <1>2, <2>1
<1>18. ASSUME UNCHANGED <<fate, ledger, writer>> PROVE \A u \in Turns : FateShape(u)'
  BY <1>2, <1>18
<1> QED BY <1>3, <1>4, <1>5, <1>6, <1>7, <1>8, <1>9, <1>10, <1>11, <1>12, <1>13, <1>14, <1>15,
           <1>16, <1>17, <1>18, FateFrame, LedgerFrame, WriterFrame

\* What is known of the fates.
LEMMA FateKnownStep ==
  Shape /\ Adopted /\ FateKnown /\ OneLive /\ Keeping /\ Drafts /\ InMemory /\ [Next]_vars => FateKnown'
<1> SUFFICES ASSUME Shape, Adopted, FateKnown, OneLive, Keeping, Drafts, InMemory, [Next]_vars
             PROVE  FateKnown'
  OBVIOUS
<1>0. Typed /\ Transaction /\ PreparedKnown /\ Placed /\ Restoring /\ Staged /\ DoneOwn
  BY DEF Shape
<1>1. \A t \in Turns : FateShape(t)'
  BY FateShapeStep
<1>2. ASSUME NEW t \in Turns, ledger'[t] # Null, ledger'[t].committed, fate'[t] = "undone",
             NEW f \in Files, Told(t, f)'
      PROVE  FALSE
  <2>1. fate'[t] \in {fate[t], "kept", "draft", "settled", "dropped", "resumed", "open"} \/ Rollback(t) \/ RevertDone
    <3>1. ASSUME NEW u \in Turns, Begin(u) \/ Commit(u) \/ Suspend(u) \/ KeepDraft(u)
          PROVE  fate'[t] \in {fate[t], "kept", "draft", "settled", "dropped", "resumed", "open"}
      BY <1>0, <3>1, BeginEffect, CommitEffect, SuspendEffect, KeepDraftEffect
    <3>2. ASSUME NEW u \in Turns, Rollback(u), u # t PROVE fate'[t] = fate[t]
      BY <1>0, <3>2, RollbackEffect
    <3>3. ASSUME NEW s \in Turns, NEW r \in Turns, ResumeDraft(s, r)
          PROVE  fate'[t] \in {fate[t], "kept", "draft", "settled", "dropped", "resumed", "open"}
      <4>1. CASE s = r
        BY <1>0, <3>3, <4>1, ResumeOwnEffect
      <4>2. CASE s # r
        BY <1>0, <3>3, <4>2, ResumeEffect
      <4> QED BY <4>1, <4>2
    <3>4. ASSUME RecoverCompact
          PROVE  fate'[t] \in {fate[t], "kept", "draft", "settled", "dropped", "resumed", "open"}
      BY <1>0, <3>4, RecoverCompactEffect
    <3> QED BY <3>1, <3>2, <3>3, <3>4, FateFrame
  <2>2. CASE Rollback(t)
    <3>1. journal[t].place \in {"active", "unresolved"} /\ UNCHANGED <<ledger, file, writer, origin>>
      BY <1>0, <2>2, RollbackEffect
    <3>2. fate[t] \in {"open", "undone"} /\ Told(t, f)
      BY <1>0, <1>2, <2>2, <3>1 DEF Placed, Left, Mine, Told, Rollback
    <3> QED BY <1>2, <3>1, <3>2 DEF FateKnown
  <2>3. CASE RevertDone
    <3>1. /\ task.op = "revert" /\ task.step = "restore" /\ task.todo = {} /\ task.turn \in Turns
          /\ UNCHANGED <<ledger, file, writer, origin>>
          /\ \/ UNCHANGED fate
             \/ ~task.conflict /\ \A u \in Turns : fate'[u] = IF u = task.turn THEN "undone" ELSE fate[u]
      BY <1>0, <2>3, RevertDoneEffect
    <3>2. Told(t, f)
      BY <1>2, <2>3, <3>1 DEF Left, Mine, Told, RevertDone
    <3>3. CASE fate[t] = fate'[t]
      BY <1>2, <3>1, <3>2, <3>3 DEF FateKnown
    <3>4. CASE fate[t] # fate'[t]
      <4>1. t = task.turn /\ ~task.conflict
        BY <3>1, <3>4
      <4> QED BY <3>1, <3>2, <4>1, AllRestored
    <3> QED BY <3>3, <3>4
  <2>4. CASE fate[t] = "undone" /\ ~Rollback(t) /\ ~RevertDone
    <3>1. \/ Told(t, f)
          \/ t \in Active
          \/ \E s \in Turns : s # t /\ ResumeDraft(s, t)
      BY <1>2, ToldStep
    <3>2. CASE Told(t, f)
      <4>1. ledger[t] # Null => ~ledger[t].committed
        BY <2>4, <3>2 DEF FateKnown
      <4>2. ASSUME NEW u \in Turns, Begin(u) \/ KeepDraft(u) \/ Commit(u) \/ Suspend(u) PROVE FALSE
        <5>1. CASE Begin(u)
          <6>1. fate'[u] = "open" /\ (t # u => ledger'[t] = ledger[t])
            BY <1>0, <5>1, BeginEffect, BeginLogged
          <6> QED BY <1>2, <4>1, <6>1
        <5>2. CASE Commit(u) \/ KeepDraft(u)
          <6>1. fate'[u] = "kept" /\ (t # u => ledger'[t] = ledger[t])
            BY <1>0, <5>2, CommitEffect, KeepDraftEffect, CommitLogged
          <6> QED BY <1>2, <4>1, <6>1
        <5>3. CASE Suspend(u)
          <6>1. fate'[u] \in {"draft", "settled"} /\ (t # u => ledger'[t] = ledger[t])
            BY <1>0, <5>3, SuspendEffect, DraftLogged, SettledLogged
          <6> QED BY <1>2, <4>1, <6>1
        <5> QED BY <4>2, <5>1, <5>2, <5>3
      <4>3. ASSUME NEW s \in Turns, NEW r \in Turns, ResumeDraft(s, r) PROVE FALSE
        <5>1. CASE s = r
          BY <1>0, <1>2, <4>1, <4>3, <5>1, ResumeOwnEffect
        <5>2. CASE s # r
          <6>1. LogResume(s, r) /\ ledger[s] # Null /\ ledger[r] = Null
            BY <1>0, <4>3, <5>2, ResumeEffect DEF FateKnown, Placed, Flagged
          <6>2. fate'[s] = "resumed" /\ fate'[r] = "open"
            BY <1>0, <4>3, <5>2, ResumeEffect
          <6>3. t \notin {s, r}
            BY <1>2, <6>2
          <6>4. ledger'[t] = ledger[t]
            BY <1>0, <5>2, <6>1, <6>3, ResumeLogged
          <6> QED BY <1>2, <4>1, <6>4
        <5> QED BY <5>1, <5>2
      <4>4. ASSUME NEW g \in Files, Prepare(g) \/ Record(g) \/ Amend(g) PROVE FALSE
        <5>1. /\ Turn \in Turns /\ ledger[Turn] # Null
              /\ \/ UNCHANGED ledger
                 \/ \E rec \in Records : LogRecord(Turn, g, rec)
          BY <1>0, <4>4, RecordMoves
        <5>2. \/ ledger'[t] = ledger[t]
              \/ ledger[t] # Null /\ ledger'[t].committed = ledger[t].committed
          BY <1>0, <5>1, LedgerSet
        <5> QED BY <1>2, <4>1, <5>2
      <4>5. ASSUME RollbackDone \/ RevertSettled PROVE FALSE
        <5>1. task.turn \in Turns /\ (UNCHANGED ledger \/ LogSettled(task.turn))
          BY <1>0, <4>5, RollbackDoneEffect DEF RevertSettled, Restoring
        <5>2. ledger'[t] \in {ledger[t], Null}
          BY <1>0, <5>1, SettledLogged
        <5> QED BY <1>2, <4>1, <5>2
      <4>6. ASSUME RecoverCompact PROVE FALSE
        <5>1. ledger'[t] = proc.keep[t]
          BY <1>0, <4>6, RecoverCompactEffect
        <5> QED BY <1>2, <5>1 DEF Keeping, Same
      <4>7. ASSUME Closed PROVE FALSE
        <5>1. ledger'[t] # Null => ledger[t] # Null /\ ledger'[t].committed = ledger[t].committed
          BY <1>0, <4>7, ClosedEffect
        <5> QED BY <1>2, <4>1, <5>1
      <4>8. ledger' # ledger
        BY <1>2, <4>1
      <4> QED BY <4>2, <4>3, <4>4, <4>5, <4>6, <4>7, <4>8, LedgerFrame
    <3>3. CASE t \in Active
      BY <1>0, <2>4, <3>3 DEF Placed, Active, In
    <3>4. CASE \E s \in Turns : s # t /\ ResumeDraft(s, t)
      BY <1>0, <2>4, <3>4, ResumeEffect
    <3> QED BY <3>1, <3>2, <3>3, <3>4
  <2> QED BY <1>2, <2>1, <2>2, <2>3, <2>4
<1> QED BY <1>1, <1>2 DEF FateKnown, FateShape

-----------------------------------------------------------------------------
(* The invariant is preserved: the records.                                *)

\* A step of the transaction records a path, in the journal and in the ledger.
Notes(t, f, rec) ==
  /\ t = Turn /\ t \in Active /\ rec \in Records /\ f \in tx.todo
  /\ Takes(f, rec) \/ (Renews(f, rec) /\ (Tells(f) \/ Hides(f)))
  /\ journal'[t].records[f] = rec /\ UNCHANGED <<file, writer, fate>>

\* What ResumeDraft finds.
LEMMA ResumeKnown ==
  ASSUME Shape, FateKnown, NEW s \in Turns, NEW r \in Turns, s # r, ResumeDraft(s, r)
  PROVE  /\ LogResume(s, r) /\ ledger[s] # Null /\ ledger[r] = Null /\ ledger[s].draft
         /\ ~ledger[s].committed
BY ResumeEffect DEF Shape, FateKnown, Placed, Flagged

\* Where the records of the ledger come from.
LEMMA LedgerSource ==
  ASSUME Shape, FateKnown, Keeping, [Next]_vars, NEW t \in Turns, NEW f \in Files, InLedger(t, f)'
  PROVE  \/ /\ InLedger(t, f) /\ origin'[t][f] = origin[t][f]
            /\ ledger'[t].records[f].before = ledger[t].records[f].before
            /\ ledger'[t].records[f].after = ledger[t].records[f].after
            /\ RecoverCompact \/ ledger'[t].records[f] = ledger[t].records[f]
         \/ \E s \in Turns :
              /\ s # t /\ ResumeDraft(s, t) /\ InLedger(s, f) /\ origin'[t] = origin[s]
              /\ ledger'[t].records[f] = ledger[s].records[f]
         \/ \E rec \in Records : Notes(t, f, rec) /\ ledger'[t].records[f] = rec
<1>0. Typed /\ Transaction /\ PreparedKnown /\ Placed /\ Restoring
  BY DEF Shape
<1>1. ledger'[t] # Null /\ ledger'[t].records[f] # Null
  BY DEF InLedger
<1> DEFINE Goal == /\ InLedger(t, f) /\ origin'[t][f] = origin[t][f]
                   /\ ledger'[t].records[f].before = ledger[t].records[f].before
                   /\ ledger'[t].records[f].after = ledger[t].records[f].after
                   /\ RecoverCompact \/ ledger'[t].records[f] = ledger[t].records[f]
<1>2. ASSUME ledger[t] # Null, ledger'[t].records = ledger[t].records, origin'[t] = origin[t] PROVE Goal
  BY <1>1, <1>2 DEF InLedger
<1>3. ASSUME NEW u \in Turns, Begin(u) PROVE Goal
  <2>1. /\ u # t => ledger'[t] = ledger[t] /\ origin'[t] = origin[t]
        /\ ledger'[u].records = NoRecords
    BY <1>0, <1>3, BeginEffect, BeginLogged
  <2> QED BY <1>1, <1>2, <2>1, NewTyped
<1>4. ASSUME NEW u \in Turns, Commit(u) \/ KeepDraft(u) \/ Suspend(u) PROVE Goal
  <2>1. UNCHANGED origin /\ (LogCommit(u) \/ LogDraft(u) \/ LogSettled(u))
    BY <1>0, <1>4, CommitEffect, KeepDraftEffect, SuspendEffect
  <2>2. ledger'[t] # Null => ledger[t] # Null /\ ledger'[t].records = ledger[t].records
    BY <1>0, <2>1, CommitLogged, DraftLogged, SettledLogged
  <2> QED BY <1>1, <1>2, <2>1, <2>2
<1>5. ASSUME NEW s \in Turns, NEW r \in Turns, ResumeDraft(s, r)
      PROVE  \/ Goal
             \/ /\ r = t /\ s # t /\ InLedger(s, f) /\ origin'[t] = origin[s]
                /\ ledger'[t].records[f] = ledger[s].records[f]
  <2>1. CASE s = r
    BY <1>0, <1>1, <1>2, <1>5, <2>1, ResumeOwnEffect
  <2>2. CASE s # r
    <3>1. /\ LogResume(s, r) /\ ledger[s] # Null /\ ledger[r] = Null
      BY <1>5, <2>2, ResumeKnown
    <3>2. /\ \A u \in Turns \ {s, r} : ledger'[u] = ledger[u]
          /\ ledger'[s] = Null /\ ledger'[r].records = ledger[s].records
          /\ origin'[t] = IF t = r THEN origin[s] ELSE IF t = s THEN NoRecords ELSE origin[t]
      BY <1>0, <1>5, <2>2, <3>1, ResumeEffect, ResumeLogged
    <3>3. CASE t = r
      BY <1>1, <2>2, <3>1, <3>2, <3>3 DEF InLedger
    <3>4. CASE t # r
      BY <1>1, <1>2, <3>2, <3>4
    <3> QED BY <3>3, <3>4
  <2> QED BY <2>1, <2>2
<1>6. ASSUME NEW g \in Files, Prepare(g) \/ Record(g) \/ Amend(g)
      PROVE  Goal \/ \E rec \in Records : Notes(t, f, rec) /\ ledger'[t].records[f] = rec
  <2>1. /\ Turn \in Active /\ Turn \in Turns /\ ledger[Turn] # Null /\ g \in tx.todo
        /\ UNCHANGED <<file, fate, writer>>
    BY <1>0, <1>6, RecordMoves
  <2>2. CASE UNCHANGED <<ledger, origin>>
    BY <1>1, <1>2, <2>2
  <2>3. ASSUME NEW rec \in Records, Takes(g, rec) \/ (Renews(g, rec) /\ Tells(g)),
               Puts(Turn, g, rec), LogRecord(Turn, g, rec)
        PROVE  Goal \/ \E rec2 \in Records : Notes(t, f, rec2) /\ ledger'[t].records[f] = rec2
    <3>1. /\ t # Turn => ledger'[t] = ledger[t]
          /\ ledger'[Turn].records[f] = IF f = g THEN rec ELSE ledger[Turn].records[f]
          /\ journal'[Turn].records[g] = rec
      BY <1>0, <2>1, <2>3, LedgerSet, JournalSet
    <3>2. CASE t = Turn /\ f = g
      BY <2>1, <2>3, <3>1, <3>2 DEF Notes
    <3>3. CASE ~(t = Turn /\ f = g)
      <4>1. origin'[t][f] = origin[t][f]
        <5>1. origin \in [Turns -> [Files -> Contents \cup {Null}]]
          BY <1>0 DEF Typed
        <5>2. origin' = origin \/ origin' = [origin EXCEPT ![Turn][g] = file[g].data]
          BY <2>3 DEF Takes, Renews
        <5> QED BY <2>1, <3>3, <5>1, <5>2
      <4> QED BY <1>1, <2>1, <3>1, <3>3, <4>1 DEF InLedger
    <3> QED BY <3>2, <3>3
  <2>4. \/ UNCHANGED <<ledger, origin>>
        \/ \E rec \in Records : /\ Takes(g, rec) \/ (Renews(g, rec) /\ Tells(g))
                                /\ Puts(Turn, g, rec) /\ LogRecord(Turn, g, rec)
    <3>1. \A rec : Renews(g, rec) => origin' = origin
      BY DEF Renews
    <3> QED BY <1>0, <1>6, <3>1, RecordMoves
  <2> HIDE DEF Goal
  <2> QED BY <2>2, <2>3, <2>4
<1>7. ASSUME RollbackDone \/ RevertSettled PROVE Goal
  <2>1. task.turn \in Turns /\ UNCHANGED origin /\ (LogSettled(task.turn) \/ UNCHANGED ledger)
    BY <1>0, <1>7, RollbackDoneEffect DEF RevertSettled, Restoring
  <2>2. ledger'[t] = ledger[t]
    BY <1>0, <1>1, <2>1, SettledLogged
  <2> QED BY <1>1, <1>2, <2>1, <2>2
<1>8. ASSUME RecoverCompact PROVE Goal
  <2>1. ledger'[t] = proc.keep[t] /\ UNCHANGED origin
    BY <1>0, <1>8, RecoverCompactEffect
  <2> QED BY <1>1, <1>8, <2>1 DEF Keeping, Same, InLedger
<1>9. ASSUME Closed PROVE Goal
  <2>1. ledger'[t] # Null => ledger[t] # Null /\ ledger'[t].records = ledger[t].records
    BY <1>0, <1>9, ClosedEffect
  <2>2. UNCHANGED origin
    BY <1>9 DEF Closed
  <2> QED BY <1>1, <1>2, <2>1, <2>2
<1>10. ASSUME UNCHANGED <<ledger, origin>> PROVE Goal
  BY <1>1, <1>2, <1>10
<1> HIDE DEF Goal
<1>11. \/ Goal
       \/ \E s \in Turns :
              /\ s # t /\ ResumeDraft(s, t) /\ InLedger(s, f) /\ origin'[t] = origin[s]
              /\ ledger'[t].records[f] = ledger[s].records[f]
       \/ \E rec \in Records : Notes(t, f, rec) /\ ledger'[t].records[f] = rec
  BY <1>3, <1>4, <1>5, <1>6, <1>7, <1>8, <1>9, <1>10, LedgerFrame, OriginFrame
<1> QED BY <1>11 DEF Goal

\* Where the records of the journals come from.
LEMMA JournalSource ==
  ASSUME Shape, Adopted, FateKnown, [Next]_vars, NEW t \in Turns, NEW f \in Files, InJournal(t, f)'
  PROVE  \/ /\ InJournal(t, f) /\ origin'[t][f] = origin[t][f]
            /\ journal'[t].records[f] = journal[t].records[f]
         \/ \E s \in Turns :
              /\ s # t /\ ResumeDraft(s, t) /\ InJournal(s, f) /\ origin'[t] = origin[s]
              /\ journal'[t].records[f] = journal[s].records[f]
         \/ \E rec \in Records : Notes(t, f, rec) /\ journal'[t].records[f] = rec
         \/ /\ RecoverDraft(t) \/ RecoverTurn(t)
            /\ InLedger(t, f) /\ origin'[t][f] = origin[t][f] /\ UNCHANGED <<ledger, file, writer, fate>>
            /\ journal'[t].records[f] = ledger[t].records[f]
<1>0. Typed /\ Transaction /\ PreparedKnown /\ Placed /\ Restoring /\ Staged
  BY DEF Shape
<1>1. journal'[t].records[f] # Null
  BY DEF InJournal
<1> DEFINE Goal == /\ InJournal(t, f) /\ origin'[t][f] = origin[t][f]
                   /\ journal'[t].records[f] = journal[t].records[f]
<1>2. ASSUME journal'[t].records[f] = journal[t].records[f], origin'[t] = origin[t] PROVE Goal
  BY <1>1, <1>2 DEF InJournal
<1>3. ASSUME NEW u \in Turns, Begin(u) PROVE Goal
  <2>1. /\ u # t => journal'[t] = journal[t] /\ origin'[t] = origin[t]
        /\ journal'[u].records = NoRecords
    BY <1>0, <1>3, BeginEffect
  <2> QED BY <1>1, <1>2, <2>1, NewTyped
<1>4. ASSUME NEW u \in Turns, Commit(u) \/ KeepDraft(u) \/ Suspend(u) \/ Rollback(u) PROVE Goal
  <2>1. CASE Commit(u)
    <3>1. journal'[t].records[f] \in {Null, journal[t].records[f]} /\ UNCHANGED origin
      BY <1>0, <2>1, CommitEffect
    <3> QED BY <1>1, <1>2, <3>1
  <2>2. CASE KeepDraft(u) \/ Suspend(u) \/ Rollback(u)
    <3>1. journal'[t].records \in {NoRecords, journal[t].records} /\ UNCHANGED origin
      BY <1>0, <2>2, KeepDraftEffect, SuspendEffect, RollbackEffect
    <3> QED BY <1>1, <1>2, <3>1, NewTyped
  <2> QED BY <1>4, <2>1, <2>2
<1>5. ASSUME NEW s \in Turns, NEW r \in Turns, ResumeDraft(s, r)
      PROVE  \/ Goal
             \/ /\ r = t /\ s # t /\ InJournal(s, f) /\ origin'[t] = origin[s]
                /\ journal'[t].records[f] = journal[s].records[f]
  <2>1. CASE s = r
    <3>1. journal'[t].records = journal[t].records /\ UNCHANGED origin
      BY <1>0, <1>5, <2>1, ResumeOwnEffect
    <3> QED BY <1>2, <3>1
  <2>2. CASE s # r
    <3>1. /\ \A u \in Turns \ {s, r} : journal'[u] = journal[u]
          /\ journal'[s].records = NoRecords /\ journal'[r].records = journal[s].records
          /\ origin'[t] = IF t = r THEN origin[s] ELSE IF t = s THEN NoRecords ELSE origin[t]
      BY <1>0, <1>5, <2>2, ResumeEffect
    <3>2. CASE t = r
      BY <1>1, <2>2, <3>1, <3>2 DEF InJournal
    <3>3. CASE t # r
      BY <1>1, <1>2, <3>1, <3>3, NewTyped
    <3> QED BY <3>2, <3>3
  <2> QED BY <2>1, <2>2
<1>6. ASSUME NEW g \in Files, Prepare(g) \/ Record(g) \/ Amend(g)
      PROVE  Goal \/ \E rec \in Records : Notes(t, f, rec) /\ journal'[t].records[f] = rec
  <2>1. /\ Turn \in Active /\ Turn \in Turns /\ g \in tx.todo
        /\ UNCHANGED <<file, fate, writer>>
    BY <1>0, <1>6, RecordMoves
  <2>2. CASE UNCHANGED <<journal, origin>>
    BY <1>2, <2>2
  <2>3. ASSUME NEW rec \in Records, Takes(g, rec) \/ (Renews(g, rec) /\ (Tells(g) \/ Hides(g))),
               Puts(Turn, g, rec)
        PROVE  Goal \/ \E rec2 \in Records : Notes(t, f, rec2) /\ journal'[t].records[f] = rec2
    <3>1. journal'[t].records[f] = IF t = Turn /\ f = g THEN rec ELSE journal[t].records[f]
      BY <1>0, <2>1, <2>3, JournalSet
    <3>2. CASE t = Turn /\ f = g
      BY <2>1, <2>3, <3>1, <3>2 DEF Notes
    <3>3. CASE ~(t = Turn /\ f = g)
      <4>1. origin'[t][f] = origin[t][f]
        <5>1. origin \in [Turns -> [Files -> Contents \cup {Null}]]
          BY <1>0 DEF Typed
        <5>2. origin' = origin \/ origin' = [origin EXCEPT ![Turn][g] = file[g].data]
          BY <2>3 DEF Takes, Renews
        <5> QED BY <2>1, <3>3, <5>1, <5>2
      <4> QED BY <1>1, <3>1, <3>3, <4>1 DEF InJournal
    <3> QED BY <3>2, <3>3
  <2>4. \/ UNCHANGED <<journal, origin>>
        \/ \E rec \in Records : /\ Takes(g, rec) \/ (Renews(g, rec) /\ (Tells(g) \/ Hides(g)))
                                /\ Puts(Turn, g, rec)
    BY <1>0, <1>6, RecordMoves
  <2> HIDE DEF Goal
  <2> QED BY <2>2, <2>3, <2>4
<1>7. ASSUME RollbackDone \/ RevertDone \/ RecoverDone PROVE Goal
  <2>1. journal'[t].records \in {NoRecords, journal[t].records} /\ UNCHANGED origin
    BY <1>0, <1>7, RollbackDoneEffect, RevertDoneEffect, RecoverDoneEffect
  <2> QED BY <1>1, <1>2, <2>1, NewTyped
<1>8. ASSUME NEW g \in Files, Restore(g) PROVE Goal
  <2>1. journal'[t].records[f] \in {Null, journal[t].records[f]} /\ UNCHANGED origin
    BY <1>0, <1>8, RestoreEffect
  <2> QED BY <1>1, <1>2, <2>1
<1>9. ASSUME Closed \/ Crash PROVE Goal
  <2>1. journal'[t].records = NoRecords
    BY <1>0, <1>9, ClosedEffect, CrashEffect
  <2> QED BY <1>1, <2>1, NewTyped
<1>10. ASSUME NEW u \in Turns, RecoverDraft(u) \/ RecoverTurn(u)
       PROVE  \/ Goal
              \/ /\ u = t /\ InLedger(t, f) /\ origin'[t][f] = origin[t][f]
                 /\ UNCHANGED <<ledger, file, writer, fate>>
                 /\ journal'[t].records[f] = ledger[t].records[f]
  <2>1. /\ u # t => journal'[t] = journal[t]
        /\ UNCHANGED <<origin, ledger, file, writer, fate>> /\ ledger[u] # Null
        /\ journal'[u].records = ledger[u].records
    <3>1. CASE RecoverTurn(u)
      BY <1>0, <3>1, RecoverTurnEffect
    <3>2. CASE RecoverDraft(u)
      <4>1. /\ UNCHANGED <<origin, ledger, file, writer, fate>> /\ ledger[u] # Null
            /\ Moves(u, [place |-> "draft", records |-> ledger[u].records])
        BY <1>0, <3>2, RecoverEffect DEF RecoverDraft, Moves
      <4>2. ledger[u].records \in RecordSets /\ "draft" \in Places
        BY <1>0, <4>1, EntryFacts DEF Places
      <4>3. [place |-> "draft", records |-> ledger[u].records] \in Journals
        BY <4>2 DEF Journals
      <4> QED BY <1>0, <4>1, <4>3, JournalMoved
    <3> QED BY <1>10, <3>1, <3>2
  <2>2. CASE u = t
    BY <1>1, <2>1, <2>2 DEF InLedger
  <2>3. CASE u # t
    BY <1>2, <2>1, <2>3
  <2> QED BY <2>2, <2>3
<1>11. ASSUME UNCHANGED <<journal, origin>> PROVE Goal
  BY <1>2, <1>11
<1> HIDE DEF Goal
<1>12. \/ Goal
       \/ \E s \in Turns :
            /\ s # t /\ ResumeDraft(s, t) /\ InJournal(s, f) /\ origin'[t] = origin[s]
            /\ journal'[t].records[f] = journal[s].records[f]
       \/ \E rec \in Records : Notes(t, f, rec) /\ journal'[t].records[f] = rec
       \/ /\ RecoverDraft(t) \/ RecoverTurn(t)
          /\ InLedger(t, f) /\ origin'[t][f] = origin[t][f] /\ UNCHANGED <<ledger, file, writer, fate>>
          /\ journal'[t].records[f] = ledger[t].records[f]
  BY <1>3, <1>4, <1>5, <1>6, <1>7, <1>8, <1>9, <1>10, <1>11, JournalFrame, OriginFrame
<1> QED BY <1>12 DEF Goal

\* What a recorded path looks like.
LEMMA NotesFacts ==
  ASSUME Shape, NEW t \in Turns, NEW f \in Files, NEW rec \in Records, Notes(t, f, rec)
  PROVE  /\ rec.after = Fingerprint(f)
         /\ \/ /\ ~InJournal(t, f) /\ rec.before = Fingerprint(f) /\ rec.held = (Fingerprint(f) # Absent)
               /\ Prepare(f) /\ (~Left(t, f) => origin'[t][f] = file[f].data)
               /\ Left(t, f) => replaced' = replaced
            \/ /\ InJournal(t, f) /\ rec.before = journal[t].records[f].before
               /\ rec.held = journal[t].records[f].held /\ origin' = origin
<1>0. Typed
  BY DEF Shape
<1>1. t = Turn
  BY DEF Notes
<1>2. CASE Takes(f, rec)
  <2>1. ~Left(t, f) => origin'[t][f] = file[f].data
    BY <1>0, <1>1, <1>2 DEF Takes, Typed
  <2> QED BY <1>0, <1>1, <1>2, <2>1, NewRecordFacts DEF Takes
<1>3. CASE Renews(f, rec)
  <2>1. InJournal(t, f) /\ rec = [journal[t].records[f] EXCEPT !.after = Fingerprint(f)] /\ origin' = origin
    BY <1>1, <1>3 DEF Renews
  <2> QED BY <1>0, <2>1, AfterFacts
<1> QED BY <1>2, <1>3 DEF Notes

\* A path is forgotten to be replaced when it is recorded anew, or with a draft that is taken
\* over.
LEMMA ReplacedStep ==
  ASSUME Shape, [Next]_vars, NEW t \in Turns, NEW f \in Files, f \in replaced[t], f \notin replaced'[t]
  PROVE  \/ \E rec \in Records : /\ Notes(t, f, rec) /\ ledger'[t].records[f] = rec
                                 /\ journal'[t].records[f] = rec
         \/ \E s, r \in Turns : s # r /\ t \in {s, r} /\ ResumeDraft(s, r)
<1>0. Typed /\ Transaction /\ PreparedKnown /\ Placed
  BY DEF Shape
<1>1. ASSUME NEW u \in Turns, Begin(u) PROVE FALSE
  BY <1>0, <1>1, BeginEffect
<1>2. ASSUME NEW s \in Turns, NEW r \in Turns, ResumeDraft(s, r) PROVE s # r /\ t \in {s, r}
  <2>1. CASE s = r
    BY <1>0, <1>2, <2>1, ResumeOwnEffect
  <2>2. CASE s # r
    BY <1>0, <1>2, <2>2, ResumeEffect
  <2> QED BY <2>1, <2>2
<1>3. ASSUME NEW g \in Files, Prepare(g)
      PROVE  \E rec \in Records : /\ Notes(t, f, rec) /\ ledger'[t].records[f] = rec
                                 /\ journal'[t].records[f] = rec
  <2>1. /\ Turn \in Active /\ Turn \in Turns /\ ledger[Turn] # Null /\ g \in tx.todo
        /\ UNCHANGED <<file, fate, writer>>
    BY <1>0, <1>3, RecordMoves
  <2>2. replaced' # replaced
    OBVIOUS
  <2>3. \A rec : Renews(g, rec) => replaced' = replaced
    BY DEF Renews
  <2>4. PICK rec \in Records : Takes(g, rec) /\ Puts(Turn, g, rec) /\ LogRecord(Turn, g, rec)
    BY <1>0, <1>3, <2>2, <2>3, RecordMoves
  <2>5. replaced' = [replaced EXCEPT ![Turn] = @ \ {g}]
    BY <2>2, <2>4 DEF Takes
  <2>6. t = Turn /\ f = g
    BY <1>0, <2>5 DEF Typed
  <2>7. ledger'[t].records[f] = rec /\ journal'[t].records[f] = rec
    BY <1>0, <2>1, <2>4, <2>6, LedgerSet, JournalSet
  <2> QED BY <2>1, <2>4, <2>6, <2>7 DEF Notes
<1> QED BY <1>1, <1>2, <1>3, ReplacedFrame

\* Records have the contents from before.
LEMMA OriginalStep ==
  Shape /\ Adopted /\ FateKnown /\ Keeping /\ Backed /\ Original /\ [Next]_vars => Original'
<1> SUFFICES ASSUME Shape, Adopted, FateKnown, Keeping, Backed, Original, [Next]_vars,
                    NEW t \in Turns, NEW f \in Files, f \notin replaced'[t]
             PROVE  /\ InLedger(t, f)' => DataOf(ledger'[t].records[f].before) = origin'[t][f]
                    /\ InJournal(t, f)' => DataOf(journal'[t].records[f].before) = origin'[t][f]
  BY DEF Original
<1>0. Typed
  BY DEF Shape
<1>1. ASSUME NEW rec \in Records, Notes(t, f, rec)
      PROVE  DataOf(rec.before) = origin'[t][f]
  <2>1. journal[t].place = "active"
    BY <1>1 DEF Notes, Active, In
  <2>2. CASE InJournal(t, f) /\ rec.before = journal[t].records[f].before /\ origin' = origin
    <3>1. replaced' = replaced
      BY <1>1, <2>2 DEF Notes, Takes, Renews
    <3> QED BY <2>2, <3>1 DEF Original
  <2>3. CASE ~InJournal(t, f) /\ rec.before = Fingerprint(f) /\ Left(t, f) /\ replaced' = replaced
    BY <2>1, <2>3 DEF Backed, Mine
  <2>4. CASE rec.before = Fingerprint(f) /\ origin'[t][f] = file[f].data
    BY <1>0, <2>4, FingerprintFacts
  <2> QED BY <1>1, <2>2, <2>3, <2>4, NotesFacts
<1>2. ASSUME NEW s \in Turns, s # t, ResumeDraft(s, t) PROVE f \notin replaced[s]
  BY <1>0, <1>2, ResumeEffect
<1>3. CASE f \notin replaced[t]
  <2>1. InLedger(t, f)' => DataOf(ledger'[t].records[f].before) = origin'[t][f]
    BY <1>1, <1>2, <1>3, LedgerSource DEF Original
  <2>2. InJournal(t, f)' => DataOf(journal'[t].records[f].before) = origin'[t][f]
    BY <1>1, <1>2, <1>3, JournalSource DEF Original
  <2> QED BY <2>1, <2>2
<1>4. CASE f \in replaced[t]
  <2>1. ASSUME NEW rec \in Records, Notes(t, f, rec), ledger'[t].records[f] = rec,
               journal'[t].records[f] = rec
        PROVE  /\ DataOf(ledger'[t].records[f].before) = origin'[t][f]
               /\ DataOf(journal'[t].records[f].before) = origin'[t][f]
    BY <1>1, <2>1
  <2>2. ASSUME NEW s \in Turns, NEW r \in Turns, s # r, t \in {s, r}, ResumeDraft(s, r)
        PROVE  /\ InLedger(t, f)' => DataOf(ledger'[t].records[f].before) = origin'[t][f]
               /\ InJournal(t, f)' => DataOf(journal'[t].records[f].before) = origin'[t][f]
    <3>1. LogResume(s, r) /\ ledger[s] # Null /\ ledger[r] = Null
      BY <2>2, ResumeKnown
    <3>2. /\ ledger'[s] = Null /\ ledger'[r].records = ledger[s].records
          /\ journal'[s].records = NoRecords /\ journal'[r].records = journal[s].records
          /\ origin'[r] = origin[s]
      BY <1>0, <2>2, <3>1, ResumeEffect, ResumeLogged
    <3>3. CASE t = s
      BY <3>2, <3>3, NewTyped DEF InLedger, InJournal
    <3>4. CASE t = r
      BY <1>2, <2>2, <3>1, <3>2, <3>4 DEF InLedger, InJournal, Original
    <3> QED BY <2>2, <3>3, <3>4
  <2> QED BY <1>4, <2>1, <2>2, ReplacedStep
<1> QED BY <1>3, <1>4

\* Versions of files never decrease.
LEMMA VersionGrows ==
  ASSUME Shape, [Next]_vars, NEW f \in Files
  PROVE  file'[f] = file[f] \/ file'[f].version = file[f].version + 1
<1>0. Typed /\ Restoring
  BY DEF Shape
<1>1. ASSUME NEW g \in Files, Restore(g) PROVE file'[f] = file[f] \/ file'[f].version = file[f].version + 1
  BY <1>0, <1>1, RestoreEffect
<1>2. ASSUME NEW g \in Files, Apply(g) PROVE file'[f] = file[f] \/ file'[f].version = file[f].version + 1
  BY <1>0, <1>2, ApplyEffect
<1>3. ASSUME NEW g \in Files, UndoWrite(g) PROVE file'[f] = file[f] \/ file'[f].version = file[f].version + 1
  BY <1>0, <1>3, UndoWriteEffect
<1>4. ASSUME NEW g \in Files, NEW data \in UserData, Edit(g, data)
      PROVE  file'[f] = file[f] \/ file'[f].version = file[f].version + 1
  BY <1>0, <1>4 DEF Edit, Typed
<1> QED BY <1>1, <1>2, <1>3, <1>4, FileFrame

\* No record is newer than its file.
OlderNext(f, record) == record.after # Absent => record.after.version <= file'[f].version

\* Versions is preserved: a path only gets newer, a record is made of what the path is.
LEMMA VersionsStep == Shape /\ Adopted /\ FateKnown /\ Keeping /\ Versions /\ [Next]_vars => Versions'
<1> SUFFICES ASSUME Shape, Adopted, FateKnown, Keeping, Versions, [Next]_vars PROVE Versions'
  OBVIOUS
<1>0. Typed
  BY DEF Shape
<1>1. \A f \in Files : file'[f].version \in Nat /\ file[f].version \in Nat /\ file[f].version <= file'[f].version
  <2> SUFFICES ASSUME NEW f \in Files
               PROVE  file'[f].version \in Nat /\ file[f].version \in Nat /\ file[f].version <= file'[f].version
    OBVIOUS
  <2>1. file[f].version \in Nat
    BY <1>0, FingerprintFacts
  <2>2. file'[f] = file[f] \/ file'[f].version = file[f].version + 1
    BY VersionGrows
  <2> QED BY <2>1, <2>2
<1>2. ASSUME NEW f \in Files, NEW rec \in Records, Older(f, rec) PROVE OlderNext(f, rec)
  <2>1. rec.after # Absent => rec.after \in [data : Data, version : Nat]
    BY DEF Records, Fingerprints
  <2>2. rec.after # Absent => rec.after.version \in Nat
    BY <2>1
  <2> QED BY <1>1, <1>2, <2>2 DEF Older, OlderNext
<1>3. ASSUME NEW t \in Turns, NEW f \in Files, NEW rec \in Records, Notes(t, f, rec) PROVE OlderNext(f, rec)
  <2>1. rec.after = Fingerprint(f)
    BY <1>3, NotesFacts
  <2>2. Older(f, rec)
    BY <1>0, <1>1, <2>1, FingerprintFacts DEF Older
  <2> QED BY <1>2, <2>2
<1>4. ASSUME NEW t \in Turns, NEW f \in Files, InLedger(t, f)' PROVE OlderNext(f, ledger'[t].records[f])
  <2>1. \/ InLedger(t, f) /\ ledger'[t].records[f].after = ledger[t].records[f].after
        \/ \E s \in Turns : InLedger(s, f) /\ ledger'[t].records[f] = ledger[s].records[f]
        \/ \E rec \in Records : Notes(t, f, rec) /\ ledger'[t].records[f] = rec
    BY <1>4, LedgerSource
  <2>2. CASE InLedger(t, f) /\ ledger'[t].records[f].after = ledger[t].records[f].after
    <3>1. ledger[t].records[f] \in Records /\ Older(f, ledger[t].records[f])
      BY <1>0, <2>2, EntryFacts DEF Versions
    <3>2. OlderNext(f, ledger[t].records[f])
      BY <1>2, <3>1
    <3> QED BY <2>2, <3>2 DEF OlderNext
  <2>3. ASSUME NEW s \in Turns, InLedger(s, f), ledger'[t].records[f] = ledger[s].records[f]
        PROVE  OlderNext(f, ledger'[t].records[f])
    <3>1. ledger[s].records[f] \in Records /\ Older(f, ledger[s].records[f])
      BY <1>0, <2>3, EntryFacts DEF Versions
    <3> QED BY <1>2, <2>3, <3>1
  <2>4. ASSUME NEW rec \in Records, Notes(t, f, rec), ledger'[t].records[f] = rec
        PROVE  OlderNext(f, ledger'[t].records[f])
    BY <1>3, <2>4
  <2> QED BY <2>1, <2>2, <2>3, <2>4
<1>5. ASSUME NEW t \in Turns, NEW f \in Files, InJournal(t, f)' PROVE OlderNext(f, journal'[t].records[f])
  <2>1. \/ \E s \in Turns : InJournal(s, f) /\ journal'[t].records[f] = journal[s].records[f]
        \/ InLedger(t, f) /\ journal'[t].records[f] = ledger[t].records[f]
        \/ \E rec \in Records : Notes(t, f, rec) /\ journal'[t].records[f] = rec
    BY <1>5, JournalSource
  <2>3. ASSUME NEW s \in Turns, InJournal(s, f), journal'[t].records[f] = journal[s].records[f]
        PROVE  OlderNext(f, journal'[t].records[f])
    <3>1. journal[s].records[f] \in Records /\ Older(f, journal[s].records[f])
      BY <1>0, <2>3, EntryFacts DEF Versions
    <3> QED BY <1>2, <2>3, <3>1
  <2>4. CASE InLedger(t, f) /\ journal'[t].records[f] = ledger[t].records[f]
    <3>1. ledger[t].records[f] \in Records /\ Older(f, ledger[t].records[f])
      BY <1>0, <2>4, EntryFacts DEF Versions
    <3> QED BY <1>2, <2>4, <3>1
  <2>5. ASSUME NEW rec \in Records, Notes(t, f, rec), journal'[t].records[f] = rec
        PROVE  OlderNext(f, journal'[t].records[f])
    BY <1>3, <2>5
  <2> QED BY <2>1, <2>3, <2>4, <2>5
<1> QED BY <1>4, <1>5 DEF Versions, Older, OlderNext

\* Without a transaction nothing is to be recorded again.
LEMMA SettlingIdle ==
  ASSUME Shape, [Next]_vars, tx.pc = "idle"
  PROVE  \A t \in Turns : Settling(t) = {} /\ Settling(t)' = {}
<1>0. Typed
  BY DEF Shape
<1>1. tx'.pc \in {"idle", "prepare"}
  <2>1. ASSUME NEW plan \in [Files -> Writes \cup {Null}], Plan(plan) PROVE tx'.pc = "prepare"
    BY <1>0, <2>1, PlanEffect
  <2> QED BY <2>1, TxFrame, NoTxFacts DEF Prepare, Apply, Canceled, Record, UndoWrite, Amend, At, Crash
<1> QED BY <1>1 DEF Settling

\* Next to a transaction nothing moves journals.
LEMMA BusyPlaces ==
  ASSUME Shape, [Next]_vars, tx.pc # "idle", ~Crash
  PROVE  Active' = Active /\ \A t \in Turns : journal'[t].place = journal[t].place
<1>0. Typed /\ Transaction /\ PreparedKnown /\ Placed
  BY DEF Shape
<1>1. ASSUME NEW f \in Files, Prepare(f) \/ Record(f) \/ Amend(f)
      PROVE  \A t \in Turns : journal'[t].place = journal[t].place
  BY <1>0, <1>1, RecordMoves, JournalSet
<1>2. \A t \in Turns : journal'[t].place = journal[t].place
  BY <1>0, <1>1, BusySteps DEF vars, Canceled, Apply, UndoWrite, Edit
<1> QED BY <1>2 DEF Active, In

\* What is written and not recorded, over the steps of a transaction.
LEMMA SettlingStep ==
  ASSUME Shape, OneLive, [Next]_vars, tx.pc # "idle", ~Crash, NEW t \in Turns, NEW f \in Files,
         f \in Settling(t), f \notin Settling(t)'
  PROVE  /\ t = Turn /\ t \in Active /\ (Record(f) \/ Amend(f)) /\ Settles(f)
         /\ \A g \in Files : Prepare(g) \/ Record(g) \/ Amend(g) => g = f
<1>0. Typed /\ Transaction /\ PreparedKnown /\ Placed /\ DoneOwn
  BY DEF Shape
<1>1. /\ t \in Active /\ t = Turn /\ t \in Active'
      /\ \/ tx.pc \in {"apply", "undo"} /\ f \in tx.done
         \/ tx.pc \in {"record", "amend"} /\ f \in tx.todo \cap tx.done
  BY <1>0, BusyPlaces, ActiveOne DEF Settling
<1>2. /\ tx'.pc \in {"apply", "undo"} => f \notin tx'.done
      /\ tx'.pc \in {"record", "amend"} => f \notin tx'.todo \cap tx'.done
  BY <1>1 DEF Settling
<1>3. f \in Targets
  BY <1>0, <1>1 DEF Transaction
<1>4. ASSUME tx' = Undo(tx.done) PROVE FALSE
  <2>1. /\ tx'.done = tx.done
        /\ tx.done = {} => tx'.pc = "amend" /\ tx'.todo = Targets
        /\ tx.done # {} => tx'.pc = "undo" /\ tx'.todo = tx.done
    BY <1>0, <1>4, UndoFacts
  <2> QED BY <1>1, <1>2, <2>1
<1>5. ASSUME UNCHANGED tx PROVE FALSE
  BY <1>1, <1>2, <1>5
<1>6. ASSUME NEW g \in Files, Apply(g) PROVE FALSE
  <2>1. tx.pc = "apply" /\ f \in tx.done
    BY <1>0, <1>1, <1>6, ApplyEffect
  <2>2. \/ tx' = Undo(tx.done)
        \/ /\ tx'.done = tx.done \cup {g}
           /\ tx.todo = {g} => tx'.pc = "record" /\ tx'.todo = Targets
           /\ tx.todo # {g} => tx'.pc = "apply" /\ tx'.todo = tx.todo \ {g}
    BY <1>0, <1>6, ApplyEffect
  <2> QED BY <1>2, <1>3, <1>4, <2>1, <2>2
<1>7. ASSUME NEW g \in Files, UndoWrite(g) PROVE FALSE
  <2>1. tx.pc = "undo" /\ f \in tx.done /\ tx' = Advanced("amend", g)
    BY <1>0, <1>1, <1>7, UndoWriteEffect
  <2>2. /\ tx'.done = tx.done
        /\ tx.todo = {g} => tx'.pc = "amend" /\ tx'.todo = Targets
        /\ tx.todo # {g} => tx'.pc = tx.pc /\ tx'.todo = tx.todo \ {g}
    BY <1>0, <2>1, AdvancedFacts
  <2> QED BY <1>2, <1>3, <2>1, <2>2
<1>8. ASSUME NEW g \in Files, Record(g) \/ Amend(g) PROVE f = g /\ Settles(f)
  <2>1. /\ tx.pc \in {"record", "amend"}
        /\ \/ tx.todo = {g} /\ tx' = NoTx /\ Settles(g)
           \/ tx.todo # {g} /\ tx' = [tx EXCEPT !.todo = @ \ {g}] /\ Settles(g)
           \/ tx' = Undo(tx.done)
    BY <1>8, RecordTx
  <2>2. f \in tx.todo
    BY <1>1, <2>1
  <2>3. CASE tx.todo # {g} /\ tx' = [tx EXCEPT !.todo = @ \ {g}] /\ Settles(g)
    <3>1. tx'.pc = tx.pc /\ tx'.todo = tx.todo \ {g} /\ tx'.done = tx.done
      BY <1>0, <2>3 DEF Typed, Transactions
    <3> QED BY <1>1, <1>2, <2>1, <2>3, <3>1
  <2> QED BY <1>4, <2>1, <2>2, <2>3
<1>9. tx.pc # "prepare"
  BY <1>1
<1>10. \A g \in Files : Prepare(g) \/ Record(g) \/ Amend(g) => g = f
  BY <1>8, <1>9 DEF Prepare, At
<1> QED BY <1>0, <1>1, <1>4, <1>5, <1>6, <1>7, <1>8, <1>9, <1>10, BusySteps DEF vars, Edit, Canceled, Prepare, At

\* A journal that may still change has on disk what it has in memory.
LEMMA SyncedIdle ==
  ASSUME Shape, Adopted, FateKnown, Keeping, AdoptedKept, Synced, DraftHeld, [Next]_vars, tx.pc = "idle"
  PROVE  Synced'
<1>0. Typed /\ Transaction /\ PreparedKnown /\ Placed /\ Restoring /\ Staged
  BY DEF Shape
<1>1. \A t \in Turns : Settling(t) = {} /\ Settling(t)' = {}
  BY SettlingIdle
<1>2. ASSUME NEW t \in Turns,
             journal'[t].place \in {"active", "draft"} => journal[t].place \in {"active", "draft"},
             \A f \in Files : journal'[t].records[f] \in {Null, journal[t].records[f]},
             journal'[t].place \in {"active", "draft"} /\ ledger[t] # Null =>
               ledger'[t] # Null /\ ledger'[t].records = ledger[t].records,
             untold'[t] = untold[t]
      PROVE  SyncedAt(t)'
  <2>1. SyncedAt(t)
    BY DEF Synced
  <2> QED BY <1>1, <1>2, <2>1 DEF SyncedAt, InJournal, InLedger
<1>3. ASSUME NEW t \in Turns, journal'[t] = journal[t], ledger'[t] = ledger[t],
             untold'[t] = untold[t]
      PROVE  SyncedAt(t)'
  BY <1>2, <1>3
<1>4. ASSUME NEW t \in Turns, journal'[t].place \notin {"active", "draft"} PROVE SyncedAt(t)'
  BY <1>4 DEF SyncedAt
<1>5. ASSUME NEW t \in Turns, Begin(t) PROVE Synced'
  <2>1. /\ \A u \in Turns : u # t =>
             journal'[u] = journal[u] /\ ledger'[u] = ledger[u] /\ untold'[u] = untold[u]
        /\ journal'[t].records = NoRecords
    BY <1>0, <1>5, BeginEffect, BeginLogged
  <2>2. SyncedAt(t)'
    BY <2>1, NewTyped DEF SyncedAt, InJournal
  <2> QED BY <1>3, <2>1, <2>2 DEF Synced
<1>6. ASSUME NEW t \in Turns, Commit(t) \/ KeepDraft(t) PROVE Synced'
  <2>1. /\ \A u \in Turns : u # t => journal'[u] = journal[u] /\ ledger'[u] = ledger[u]
        /\ journal'[t].place = "committed" /\ UNCHANGED untold
    BY <1>0, <1>6, CommitEffect, KeepDraftEffect, CommitLogged DEF Commit, KeepDraft
  <2> QED BY <1>3, <1>4, <2>1 DEF Synced
<1>7. ASSUME NEW t \in Turns, Suspend(t) PROVE Synced'
  <2>1. /\ \A u \in Turns : u # t => journal'[u] = journal[u] /\ ledger'[u] = ledger[u]
        /\ journal[t].place = "active" /\ UNCHANGED untold
        /\ \/ /\ journal'[t].records = journal[t].records
              /\ ledger[t] # Null => ledger'[t] # Null /\ ledger'[t].records = ledger[t].records
           \/ journal'[t].place = "none"
    BY <1>0, <1>7, SuspendEffect, DraftLogged, SettledLogged DEF Suspend
  <2>2. SyncedAt(t)'
    BY <1>2, <1>4, <2>1
  <2> QED BY <1>3, <2>1, <2>2 DEF Synced
<1>8. ASSUME NEW t \in Turns, Rollback(t) PROVE Synced'
  <2>1. /\ \A u \in Turns : u # t => journal'[u] = journal[u]
        /\ UNCHANGED <<ledger, untold>> /\ journal'[t].place = "rollback"
    BY <1>0, <1>8, RollbackEffect DEF Rollback
  <2> QED BY <1>3, <1>4, <2>1 DEF Synced
<1>9. ASSUME NEW t \in Turns, NEW r \in Turns, ResumeDraft(t, r) PROVE Synced'
  <2>1. CASE t = r
    <3>1. /\ \A u \in Turns : u # t => journal'[u] = journal[u]
          /\ UNCHANGED <<ledger, untold>> /\ journal[t].place = "draft" /\ journal'[t].records = journal[t].records
      BY <1>0, <1>9, <2>1, ResumeOwnEffect
    <3>2. SyncedAt(t)'
      BY <1>2, <3>1
    <3> QED BY <1>3, <3>1, <3>2 DEF Synced
  <2>2. CASE t # r
    <3>1. LogResume(t, r) /\ ledger[t] # Null /\ ledger[r] = Null
      BY <1>9, <2>2, ResumeKnown
    <3>2. /\ \A u \in Turns \ {t, r} : 
            journal'[u] = journal[u] /\ ledger'[u] = ledger[u] /\ untold'[u] = untold[u]
          /\ journal[t].place = "draft" /\ journal'[t].place = "none" /\ untold'[r] = untold[t]
          /\ journal'[r].records = journal[t].records
          /\ ledger'[r] # Null /\ ledger'[r].records = ledger[t].records
      BY <1>0, <1>9, <2>2, <3>1, ResumeEffect, ResumeLogged
    <3>3. SyncedAt(r)'
      <4>1. SyncedAt(t)
        BY DEF Synced
      <4> QED BY <1>1, <3>2, <4>1 DEF SyncedAt, InJournal, InLedger
    <3> QED BY <1>3, <1>4, <3>2, <3>3 DEF Synced
  <2> QED BY <2>1, <2>2
<1>10. ASSUME NEW f \in Files, Restore(f) PROVE Synced'
  <2>1. /\ UNCHANGED ledger /\ \A u \in Turns : journal'[u].place = journal[u].place
        /\ \A u \in Turns, g \in Files : journal'[u].records[g] \in {Null, journal[u].records[g]}
    BY <1>0, <1>10, RestoreEffect
  <2>2. UNCHANGED untold
    BY <1>10 DEF Restore
  <2> QED BY <1>2, <2>1, <2>2 DEF Synced
<1>11. ASSUME RollbackDone PROVE Synced'
  <2>1. /\ task.turn \in Turns
        /\ \A u \in Turns : u # task.turn => journal'[u] = journal[u]
        /\ journal'[task.turn].place \in {"unresolved", "none"} /\ UNCHANGED untold
        /\ UNCHANGED ledger \/ LogSettled(task.turn)
    BY <1>0, <1>11, RollbackDoneEffect DEF RollbackDone
  <2>2. \A u \in Turns : u # task.turn => ledger'[u] = ledger[u]
    BY <1>0, <2>1, SettledLogged
  <2> QED BY <1>3, <1>4, <2>1, <2>2 DEF Synced
<1>12. ASSUME RevertDone PROVE Synced'
  <2>1. /\ task.turn \in Turns /\ UNCHANGED <<ledger, untold>>
        /\ \/ UNCHANGED journal
           \/ /\ \A u \in Turns : u # task.turn => journal'[u] = journal[u]
              /\ journal'[task.turn].place = "none"
    BY <1>0, <1>12, RevertDoneEffect DEF RevertDone
  <2> QED BY <1>3, <1>4, <2>1 DEF Synced
<1>13. ASSUME RevertSettled PROVE Synced'
  <2>1. /\ task.turn \in Turns /\ UNCHANGED <<journal, untold>> /\ journal[task.turn].place = "none"
        /\ UNCHANGED ledger \/ LogSettled(task.turn)
    BY <1>0, <1>13 DEF RevertSettled, Restoring
  <2>2. \A u \in Turns : u # task.turn => ledger'[u] = ledger[u]
    BY <1>0, <2>1, SettledLogged
  <2> QED BY <1>3, <1>4, <2>1, <2>2 DEF Synced
<1>14. ASSUME NEW t \in Turns, RecoverDraft(t) PROVE Synced'
  <2>1. /\ UNCHANGED <<ledger, untold>> /\ ledger[t] # Null
        /\ \/ UNCHANGED journal
           \/ /\ \A u \in Turns : u # t => journal'[u] = journal[u]
              /\ journal'[t].records = ledger[t].records /\ ledger[t].draft
    BY <1>0, <1>14, RecoverEffect DEF RecoverDraft
  <2>2. SyncedAt(t)' \/ UNCHANGED journal
    BY <1>1, <2>1 DEF SyncedAt, InJournal, InLedger, DraftHeld
  <2> QED BY <1>3, <2>1, <2>2 DEF Synced
<1>15. ASSUME NEW t \in Turns, RecoverTurn(t) PROVE Synced'
  <2>1. /\ UNCHANGED <<ledger, untold>> /\ journal'[t].place = "adopted"
        /\ \A u \in Turns : u # t => journal'[u] = journal[u]
    BY <1>0, <1>15, RecoverTurnEffect DEF RecoverTurn
  <2> QED BY <1>3, <1>4, <2>1 DEF Synced
<1>16. ASSUME RecoverDone PROVE Synced'
  <2>1. /\ task.turn \in Turns /\ UNCHANGED <<ledger, untold>> /\ journal'[task.turn].place = "none"
        /\ \A u \in Turns : u # task.turn => journal'[u] = journal[u]
    BY <1>0, <1>16, RecoverDoneEffect DEF RecoverDone
  <2> QED BY <1>3, <1>4, <2>1 DEF Synced
<1>17. ASSUME RecoverCompact PROVE Synced'
  <2>1. /\ proc.stage = "recovering" /\ task.op = "none" /\ UNCHANGED <<journal, untold>>
        /\ \A t \in Turns : ledger'[t] = proc.keep[t]
    BY <1>0, <1>17, RecoverCompactEffect
  <2>2. \A t \in Turns : journal[t].place \in {"none", "draft"}
    BY <1>0, <2>1 DEF Staged, Placed
  <2>3. \A t \in Turns : journal[t].place = "draft" => ledger'[t] = ledger[t]
    BY <1>0, <2>1 DEF AdoptedKept, Keeping, Placed, Flagged
  <2> QED BY <1>3, <1>4, <2>1, <2>2, <2>3 DEF Synced
<1>18. ASSUME Closed \/ Crash PROVE Synced'
  <2>1. \A t \in Turns : journal'[t].place = "none"
    BY <1>0, <1>18, ClosedEffect, CrashEffect
  <2> QED BY <1>4, <2>1 DEF Synced
<1>19. ASSUME UNCHANGED <<journal, ledger, untold>> PROVE Synced'
  BY <1>3, <1>19 DEF Synced
<1> QED BY <1>5, <1>6, <1>7, <1>8, <1>9, <1>10, <1>11, <1>12, <1>13, <1>14, <1>15, <1>16, <1>17, <1>18,
           <1>19, JournalFrame, LedgerFrame, UntoldFrame DEF Prepare, Record, Amend, At

\* Synced is preserved, also by the steps of a transaction.
LEMMA SyncedStep ==
  Shape /\ Adopted /\ FateKnown /\ OneLive /\ Keeping /\ AdoptedKept /\ Synced /\ DraftHeld /\ [Next]_vars
    => Synced'
<1> SUFFICES ASSUME Shape, Adopted, FateKnown, OneLive, Keeping, AdoptedKept, Synced, DraftHeld, [Next]_vars,
                    tx.pc # "idle"
             PROVE  Synced'
  BY SyncedIdle
<1>0. Typed /\ Transaction /\ PreparedKnown /\ Placed /\ Restoring /\ Staged
  BY DEF Shape
<1>1. CASE Crash
  <2>1. \A t \in Turns : journal'[t].place = "none"
    BY <1>0, <1>1, CrashEffect
  <2> QED BY <2>1 DEF Synced, SyncedAt
<1>2. CASE ~Crash
  <2> SUFFICES ASSUME NEW t \in Turns, journal'[t].place \in {"active", "draft"},
                      NEW f \in Files, InJournal(t, f)'
               PROVE  /\ InLedger(t, f)'
                      /\ ledger'[t].records[f].before = journal'[t].records[f].before
                      /\ ledger'[t].records[f].held = journal'[t].records[f].held
                      /\ f \notin Settling(t)' /\ f \notin untold'[t] =>
                           ledger'[t].records[f].after = journal'[t].records[f].after
                      /\ journal'[t].records[f].before # Absent => journal'[t].records[f].held
    BY DEF Synced, SyncedAt
  <2>1. journal[t].place \in {"active", "draft"} /\ SyncedAt(t)
    BY <1>2, BusyPlaces DEF Synced
  <2> DEFINE Goal == /\ InLedger(t, f)'
                     /\ ledger'[t].records[f].before = journal'[t].records[f].before
                     /\ ledger'[t].records[f].held = journal'[t].records[f].held
                     /\ f \notin Settling(t)' /\ f \notin untold'[t] =>
                           ledger'[t].records[f].after = journal'[t].records[f].after
                     /\ journal'[t].records[f].before # Absent => journal'[t].records[f].held
  <2>2. ASSUME f \notin Settling(t)', f \in Settling(t)
        PROVE  /\ t = Turn /\ (Record(f) \/ Amend(f)) /\ Settles(f)
               /\ \A g \in Files : Prepare(g) \/ Record(g) \/ Amend(g) => g = f
    BY <1>2, <2>2, SettlingStep
  <2>3. ASSUME journal'[t].records[f] = journal[t].records[f], ledger'[t] # Null \/ ledger[t] = Null,
               ledger[t] # Null => ledger'[t].records[f] = ledger[t].records[f],
               f \notin Settling(t)' => f \notin Settling(t), f \notin untold'[t] => f \notin untold[t]
        PROVE  Goal
    BY <2>1, <2>3 DEF SyncedAt, InJournal, InLedger
  <2>4. ASSUME NEW g \in Files, Prepare(g) \/ Record(g) \/ Amend(g) PROVE Goal
    <3>1. /\ Turn \in Active /\ Turn \in Turns /\ ledger[Turn] # Null /\ journal[Turn].place = "active"
          /\ g \in tx.todo /\ g \in Targets
      BY <1>0, <2>4, RecordMoves
    <3>2. CASE t = Turn /\ f = g
      <4>1. ASSUME NEW rec \in Records, Renews(g, rec)
            PROVE  /\ rec.before = journal[t].records[f].before /\ rec.held = journal[t].records[f].held
                   /\ rec.before # Absent => rec.held
                   /\ InJournal(t, f)
        <5>1. InJournal(t, f) /\ rec = [journal[t].records[f] EXCEPT !.after = Fingerprint(f)]
          BY <3>2, <4>1 DEF Renews
        <5>2. rec.before = journal[t].records[f].before /\ rec.held = journal[t].records[f].held
          BY <1>0, <5>1, AfterFacts
        <5> QED BY <2>1, <5>1, <5>2 DEF SyncedAt
      <4>2. ASSUME NEW rec \in Records, Takes(g, rec) \/ Renews(g, rec), Puts(Turn, g, rec), LogRecord(Turn, g, rec)
            PROVE  Goal
        <5>1. ledger'[t].records[f] = rec /\ ledger'[t] # Null /\ journal'[t].records[f] = rec
          BY <1>0, <3>1, <3>2, <4>2, LedgerSet, JournalSet
        <5>2. rec.before # Absent => rec.held
          BY <1>0, <3>2, <4>1, <4>2, NewRecordFacts DEF Takes
        <5>3. rec # Null
          BY Apartness
        <5> QED BY <5>1, <5>2, <5>3 DEF InLedger
      <4>3. ASSUME NEW rec \in Records, Renews(g, rec), Hides(g), Puts(Turn, g, rec), UNCHANGED ledger
            PROVE  Goal
        <5>1. journal'[t].records[f] = rec
          BY <1>0, <3>1, <3>2, <4>3, JournalSet
        <5>2. ASSUME Record(g), tx' = Undo(tx.done) PROVE f \in Settling(t)'
          <6>1. f \in tx.done /\ tx.pc = "record"
            BY <1>0, <3>1, <3>2, <5>2 DEF Record, At, Transaction
          <6>2. tx'.pc = "undo" /\ tx'.done = tx.done
            BY <1>0, <5>2, <6>1, UndoFacts
          <6>3. t \in Active'
            BY <1>2, <3>1, <3>2, BusyPlaces
          <6> QED BY <6>1, <6>2, <6>3 DEF Settling
        <5>3. ASSUME untold' = Missed({g}), f \notin untold'[t]
              PROVE  ledger[t].records[f].after = rec.after
          <6>1. ledger[t].records[f].after = Fingerprint(f)
            BY <1>0, <3>1, <3>2, <5>3, MissedFacts
          <6>2. rec.after = Fingerprint(f)
            BY <1>0, <3>1, <3>2, <4>3, AfterFacts DEF Renews
          <6> QED BY <6>1, <6>2
        <5> QED BY <2>1, <4>1, <4>3, <5>1, <5>2, <5>3 DEF SyncedAt, InLedger, Hides
      <4>4. ASSUME UNCHANGED <<ledger, journal, untold>> PROVE Goal
        <5>1. f \notin Settling(t)' /\ f \notin untold'[t] =>
                ledger[t].records[f].after = journal[t].records[f].after
          <6>1. ASSUME f \notin Settling(t)', f \in Settling(t), f \notin untold'[t]
                PROVE  ledger[t].records[f].after = journal[t].records[f].after
            <7>1. t = Turn /\ Settles(f)
              BY <2>2, <6>1
            <7>2. InJournal(t, f)
              BY <4>4 DEF InJournal
            <7>3. PICK rec : rec = [journal[t].records[f] EXCEPT !.after = Fingerprint(f)]
              OBVIOUS
            <7>4. rec \in Records /\ rec.after = Fingerprint(f) /\ Puts(t, f, rec)
              BY <1>0, <7>1, <7>2, <7>3, AfterFacts DEF Settles, After, AfterFails, Puts
            <7>5. journal'[t].records[f] = rec
              BY <1>0, <3>1, <3>2, <7>4, JournalSet
            <7>6. CASE After(f)
              <8>1. LogRecord(t, f, rec)
                BY <7>1, <7>3, <7>6 DEF After
              <8>2. ledger'[t].records[f] = rec
                BY <1>0, <3>1, <3>2, <7>4, <8>1, LedgerSet
              <8> QED BY <4>4, <7>5, <8>2
            <7>7. CASE untold' = Missed({f})
              <8>1. ledger[t].records[f].after = Fingerprint(f)
                BY <1>0, <3>1, <3>2, <6>1, <7>7, MissedFacts
              <8> QED BY <4>4, <7>4, <7>5, <8>1
            <7> QED BY <7>1, <7>6, <7>7 DEF Settles
          <6>2. InJournal(t, f)
            BY <4>4 DEF InJournal
          <6> QED BY <2>1, <4>4, <6>1, <6>2 DEF SyncedAt
        <5> QED BY <2>1, <4>4, <5>1 DEF SyncedAt, InJournal, InLedger
      <4> HIDE DEF Goal
      <4> QED BY <1>0, <2>4, <4>2, <4>3, <4>4, RecordMoves
    <3>3. CASE ~(t = Turn /\ f = g)
      <4>1. f \notin Settling(t)' => f \notin Settling(t)
        BY <2>2, <2>4, <3>3
      <4>4. f \notin untold'[t] => f \notin untold[t]
        <5>1. \/ untold' = untold \/ untold' = Missed({g})
              \/ untold' = [untold EXCEPT ![Turn] = @ \ {g}]
          BY <1>0, <2>4, RecordMoves DEF Tells, Hides, Takes
        <5>2. CASE untold' = untold \/ untold' = Missed({g})
          BY <1>0, <5>2, MissedFacts
        <5>3. CASE untold' = [untold EXCEPT ![Turn] = @ \ {g}]
          BY <1>0, <3>3, <5>3 DEF Typed
        <5> QED BY <5>1, <5>2, <5>3
      <4>2. ASSUME NEW rec \in Records, Puts(Turn, g, rec), LogRecord(Turn, g, rec) \/ UNCHANGED ledger
            PROVE  Goal
        <5>1. /\ t # Turn => ledger'[t] = ledger[t]
              /\ ledger'[Turn].records[f] = ledger[Turn].records[f] \/ f = g
              /\ ledger'[Turn] # Null
              /\ journal'[t].records[f] = journal[t].records[f]
          BY <1>0, <3>1, <3>3, <4>2, LedgerSet, JournalSet
        <5> QED BY <2>3, <3>3, <4>1, <4>4, <5>1
      <4>3. CASE UNCHANGED <<ledger, journal>>
        BY <2>3, <4>1, <4>3, <4>4
      <4> HIDE DEF Goal
      <4> QED BY <1>0, <2>4, <4>2, <4>3, RecordMoves
    <3> QED BY <3>2, <3>3
  <2>5. ASSUME UNCHANGED <<journal, ledger, untold>>, \A g \in Files : ~(Record(g) \/ Amend(g)) PROVE Goal
    BY <2>2, <2>3, <2>5
  <2>6. \/ UNCHANGED <<journal, ledger, untold>>
        \/ \E g \in Files : Prepare(g) \/ Record(g) \/ Amend(g)
    BY <1>0, <1>2, BusySteps DEF vars, Canceled, Apply, UndoWrite, Edit
  <2> HIDE DEF Goal
  <2>7. Goal
    BY <2>4, <2>5, <2>6
  <2> QED BY <2>7 DEF Goal
<1> QED BY <1>1, <1>2

-----------------------------------------------------------------------------
(* The invariant is preserved: turns that may go on.                       *)

\* Flags and active turns come from a suspension, a start or a take-over.
LEMMA WorkingSource ==
  ASSUME Shape, Adopted, FateKnown, Keeping, [Next]_vars, NEW t \in Turns, Flagged(t)' \/ t \in Active'
  PROVE  Flagged(t) \/ t \in Active \/ Begin(t) \/ \E s \in Turns : s # t /\ ResumeDraft(s, t)
<1>0. Typed /\ Transaction /\ PreparedKnown /\ Placed /\ Restoring /\ Staged
  BY DEF Shape
<1>1. CASE Flagged(t)'
  <2>1. ledger'[t] # Null /\ ledger'[t].draft
    BY <1>1 DEF Flagged
  <2>2. ASSUME NEW u \in Turns, Begin(u) PROVE Flagged(t) \/ u = t
    BY <1>0, <2>1, <2>2, BeginEffect, BeginLogged DEF Flagged
  <2>3. ASSUME NEW u \in Turns, Commit(u) \/ KeepDraft(u) PROVE Flagged(t)
    BY <1>0, <2>1, <2>3, CommitEffect, KeepDraftEffect, CommitLogged DEF Flagged
  <2>4. ASSUME NEW u \in Turns, Suspend(u) PROVE Flagged(t) \/ t \in Active
    BY <1>0, <2>1, <2>4, SuspendEffect, DraftLogged, SettledLogged DEF Flagged, Active, In
  <2>5. ASSUME NEW s \in Turns, NEW r \in Turns, ResumeDraft(s, r) PROVE Flagged(t) \/ (s # t /\ r = t)
    <3>1. CASE s = r
      BY <1>0, <2>1, <2>5, <3>1, ResumeOwnEffect DEF Flagged
    <3>2. CASE s # r
      <4>1. LogResume(s, r) /\ ledger[s] # Null /\ ledger[r] = Null
        BY <2>5, <3>2, ResumeKnown
      <4>2. ledger'[s] = Null /\ \A u \in Turns \ {s, r} : ledger'[u] = ledger[u]
        BY <1>0, <3>2, <4>1, ResumeLogged
      <4> QED BY <2>1, <3>2, <4>2 DEF Flagged
    <3> QED BY <3>1, <3>2
  <2>6. ASSUME NEW f \in Files, Prepare(f) \/ Record(f) \/ Amend(f) PROVE Flagged(t)
    <3>1. /\ Turn \in Turns /\ ledger[Turn] # Null
          /\ UNCHANGED ledger \/ \E rec \in Records : LogRecord(Turn, f, rec)
      BY <1>0, <2>6, RecordMoves
    <3> QED BY <1>0, <2>1, <3>1, LedgerSet DEF Flagged
  <2>7. ASSUME RollbackDone \/ RevertSettled PROVE Flagged(t)
    <3>1. task.turn \in Turns /\ (UNCHANGED ledger \/ LogSettled(task.turn))
      BY <1>0, <2>7, RollbackDoneEffect DEF RevertSettled, Restoring
    <3> QED BY <1>0, <2>1, <3>1, SettledLogged DEF Flagged
  <2>8. ASSUME RecoverCompact PROVE Flagged(t)
    BY <1>0, <2>1, <2>8, RecoverCompactEffect DEF Keeping, Same, Flagged
  <2>9. ASSUME Closed PROVE Flagged(t)
    <3>1. ledger'[t] # Null => ledger[t] # Null /\ ledger'[t].draft = ledger[t].draft
      BY <1>0, <2>9, ClosedEffect
    <3> QED BY <2>1, <3>1 DEF Flagged
  <2>10. ASSUME UNCHANGED ledger PROVE Flagged(t)
    BY <2>1, <2>10 DEF Flagged
  <2> QED BY <2>2, <2>3, <2>4, <2>5, <2>6, <2>7, <2>8, <2>9, <2>10, LedgerFrame
<1>2. CASE t \in Active'
  <2>1. journal'[t].place = "active"
    BY <1>2 DEF Active, In
  <2>2. ASSUME NEW u \in Turns, Begin(u) PROVE t \in Active \/ u = t
    BY <1>0, <2>1, <2>2, BeginEffect DEF Active, In
  <2>3. ASSUME NEW u \in Turns, Commit(u) \/ KeepDraft(u) \/ Suspend(u) \/ Rollback(u) \/ RecoverTurn(u)
        PROVE  t \in Active
    BY <1>0, <2>1, <2>3, CommitEffect, KeepDraftEffect, SuspendEffect, RollbackEffect, RecoverTurnEffect
       DEF Active, In
  <2>4. ASSUME NEW u \in Turns, RecoverDraft(u) PROVE t \in Active
    BY <1>0, <2>1, <2>4, RecoverEffect DEF Active, In
  <2>5. ASSUME NEW s \in Turns, NEW r \in Turns, ResumeDraft(s, r)
        PROVE  Flagged(t) \/ t \in Active \/ (s # t /\ r = t)
    <3>1. CASE s = r
      BY <1>0, <2>1, <2>5, <3>1, ResumeOwnEffect DEF Placed, Active, In
    <3>2. CASE s # r
      BY <1>0, <2>1, <2>5, <3>2, ResumeEffect DEF Active, In
    <3> QED BY <3>1, <3>2
  <2>6. ASSUME NEW f \in Files, Restore(f) PROVE t \in Active
    BY <1>0, <2>1, <2>6, RestoreEffect DEF Active, In
  <2>7. ASSUME NEW f \in Files, Prepare(f) \/ Record(f) \/ Amend(f) PROVE t \in Active
    BY <1>0, <2>1, <2>7, RecordMoves, JournalSet DEF Active, In
  <2>8. ASSUME RollbackDone \/ RevertDone \/ RecoverDone \/ Closed \/ Crash PROVE t \in Active
    BY <1>0, <2>1, <2>8, RollbackDoneEffect, RevertDoneEffect, RecoverDoneEffect, ClosedEffect, CrashEffect
       DEF Active, In
  <2>9. ASSUME UNCHANGED journal PROVE t \in Active
    BY <2>1, <2>9 DEF Active, In
  <2> QED BY <2>2, <2>3, <2>4, <2>5, <2>6, <2>7, <2>8, <2>9, JournalFrame
<1> QED BY <1>1, <1>2

\* A turn that may write again could do so before, or starts or takes over.
LEMMA LiveSource ==
  ASSUME Shape, Adopted, FateKnown, Keeping, [Next]_vars, NEW t \in Turns, Live(t)'
  PROVE  Live(t) \/ Begin(t) \/ \E s \in Turns : s # t /\ ResumeDraft(s, t)
<1>0. Typed /\ Placed /\ Restoring
  BY DEF Shape
<1>1. \/ fate'[t] = fate[t]
      \/ Begin(t) \/ Suspend(t) \/ (\E s \in Turns : s # t /\ ResumeDraft(s, t))
      \/ fate'[t] \notin {"open", "draft"}
  <2>1. ASSUME NEW u \in Turns, Begin(u) PROVE u = t \/ fate'[t] = fate[t]
    BY <1>0, <2>1, BeginEffect
  <2>2. ASSUME NEW u \in Turns, Commit(u) \/ KeepDraft(u) \/ Rollback(u)
        PROVE  fate'[t] = fate[t] \/ fate'[t] \notin {"open", "draft"}
    BY <1>0, <2>2, CommitEffect, KeepDraftEffect, RollbackEffect
  <2>3. ASSUME NEW u \in Turns, Suspend(u) PROVE u = t \/ fate'[t] = fate[t]
    BY <1>0, <2>3, SuspendEffect
  <2>4. ASSUME NEW s \in Turns, NEW r \in Turns, ResumeDraft(s, r)
        PROVE  fate'[t] = fate[t] \/ (s # t /\ r = t) \/ fate'[t] \notin {"open", "draft"}
    <3>1. CASE s = r
      BY <1>0, <2>4, <3>1, ResumeOwnEffect
    <3>2. CASE s # r
      BY <1>0, <2>4, <3>2, ResumeEffect
    <3> QED BY <3>1, <3>2
  <2>5. ASSUME RevertDone PROVE fate'[t] = fate[t] \/ fate'[t] \notin {"open", "draft"}
    BY <1>0, <2>5, RevertDoneEffect
  <2>6. ASSUME RecoverCompact PROVE fate'[t] = fate[t] \/ fate'[t] \notin {"open", "draft"}
    BY <1>0, <2>6, RecoverCompactEffect
  <2> QED BY <2>1, <2>2, <2>3, <2>4, <2>5, <2>6, FateFrame
<1>2. CASE Suspend(t)
  <2>1. journal[t].place = "active" /\ fate[t] = "open"
    BY <1>0, <1>2, SuspendEffect DEF Placed
  <2> QED BY <2>1 DEF Live, Active, In
<1>3. CASE fate'[t] = fate[t]
  <2>1. CASE fate'[t] = "draft"
    BY <1>3, <2>1 DEF Live
  <2>2. CASE fate'[t] # "draft"
    <3>1. fate[t] = "open" /\ (Flagged(t)' \/ t \in Active')
      BY <1>3, <2>2 DEF Live
    <3>2. Flagged(t) \/ t \in Active \/ Begin(t) \/ \E s \in Turns : s # t /\ ResumeDraft(s, t)
      BY <3>1, WorkingSource
    <3> QED BY <3>1, <3>2 DEF Live
  <2> QED BY <2>1, <2>2
<1> QED BY <1>1, <1>2, <1>3 DEF Live

\* At most one turn may write again.
LEMMA OneLiveStep == Shape /\ Adopted /\ FateKnown /\ Keeping /\ OneLive /\ Drafts /\ [Next]_vars => OneLive'
<1> SUFFICES ASSUME Shape, Adopted, FateKnown, Keeping, OneLive, Drafts, [Next]_vars PROVE OneLive'
  OBVIOUS
<1>0. Typed /\ Placed
  BY DEF Shape
<1>1. ASSUME NEW t \in Turns, Begin(t) PROVE \A u \in Turns : ~Live(u)
  <2>1. proc.stage = "ready" /\ Active = {} /\ In("draft") = {}
    BY <1>0, <1>1, BeginEffect DEF Ready
  <2> QED BY <2>1 DEF Drafts, Live, Active, In
<1>2. ASSUME NEW s \in Turns, NEW r \in Turns, s # r, ResumeDraft(s, r) PROVE Live(s) /\ ~Live(s)' /\ ~Begin(r)
  <2>1. fate[s] = "draft" /\ fate'[s] = "resumed" /\ journal[s].place = "draft"
    BY <1>0, <1>2, ResumeEffect
  <2>2. ~Begin(r)
    BY <1>0, <2>1, BeginEffect DEF In
  <2> QED BY <2>1, <2>2 DEF Live
<1>3. ASSUME NEW t \in Turns, NEW u \in Turns, Begin(t), Begin(u) PROVE t = u
  <2>1. fate'[t] = "open" /\ journal'[t].place = "active" /\ Active = {} /\ (u # t => journal'[t] = journal[t])
    BY <1>0, <1>3, BeginEffect
  <2> QED BY <2>1 DEF Active, In
<1>4. ASSUME NEW s \in Turns, NEW t \in Turns, NEW v \in Turns, NEW u \in Turns, s # t, v # u,
             ResumeDraft(s, t), ResumeDraft(v, u)
      PROVE  t = u
  <2>1. journal'[t].place = "active" /\ Active = {} /\ journal[t].place # "active"
    BY <1>0, <1>4, ResumeEffect DEF Active, In
  <2>2. \A w \in Turns \ {v, u} : journal'[w] = journal[w]
    BY <1>0, <1>4, ResumeEffect
  <2>3. journal'[v].place = "none"
    BY <1>0, <1>4, ResumeEffect
  <2> QED BY <2>1, <2>2, <2>3
<1>5. SUFFICES ASSUME NEW t \in Turns, NEW u \in Turns, Live(t)', Live(u)' PROVE t = u
  BY DEF OneLive
<1>6. /\ Live(t) \/ Begin(t) \/ \E s \in Turns : s # t /\ ResumeDraft(s, t)
      /\ Live(u) \/ Begin(u) \/ \E s \in Turns : s # u /\ ResumeDraft(s, u)
  BY <1>5, LiveSource
<1>7. CASE Begin(t) \/ Begin(u)
  <2>1. ~Live(t) /\ ~Live(u)
    BY <1>1, <1>7
  <2>2. \A s, r \in Turns : s # r => ~ResumeDraft(s, r)
    BY <1>1, <1>2, <1>7
  <2> QED BY <1>3, <1>6, <2>1, <2>2
<1>8. CASE ~Begin(t) /\ ~Begin(u)
  <2>1. CASE Live(t) /\ Live(u)
    BY <2>1 DEF OneLive
  <2>2. ASSUME NEW s \in Turns, s # t, ResumeDraft(s, t), Live(u) PROVE FALSE
    BY <1>2, <1>5, <2>2 DEF OneLive
  <2>3. ASSUME NEW s \in Turns, s # u, ResumeDraft(s, u), Live(t) PROVE FALSE
    BY <1>2, <1>5, <2>3 DEF OneLive
  <2> QED BY <1>4, <1>6, <1>8, <2>1, <2>2, <2>3
<1> QED BY <1>7, <1>8

\* Drafts have their before-images.
LEMMA DraftHeldStep ==
  Shape /\ Adopted /\ FateKnown /\ Keeping /\ Synced /\ DraftHeld /\ [Next]_vars => DraftHeld'
<1> SUFFICES ASSUME Shape, Adopted, FateKnown, Keeping, Synced, DraftHeld, [Next]_vars,
                    NEW t \in Turns, NEW f \in Files, InLedger(t, f)', Flagged(t)' \/ t \in Active',
                    ledger'[t].records[f].before # Absent
             PROVE  ledger'[t].records[f].held
  BY DEF DraftHeld, Flagged, InLedger
<1>0. Typed /\ Placed /\ Staged
  BY DEF Shape
<1>1. ASSUME NEW rec \in Records, Notes(t, f, rec), ledger'[t].records[f] = rec
      PROVE  ledger'[t].records[f].held
  <2>1. t \in Active /\ SyncedAt(t) /\ journal[t].place = "active"
    BY <1>1 DEF Notes, Synced, Active, In
  <2>2. \/ rec.before = Fingerprint(f) /\ rec.held = (Fingerprint(f) # Absent)
        \/ /\ InJournal(t, f) /\ rec.before = journal[t].records[f].before
           /\ rec.held = journal[t].records[f].held
    BY <1>1, NotesFacts
  <2>3. InJournal(t, f) /\ journal[t].records[f].before # Absent => journal[t].records[f].held
    BY <2>1 DEF SyncedAt
  <2> QED BY <1>1, <2>2, <2>3
<1>2. ASSUME NEW s \in Turns, s # t, ResumeDraft(s, t), InLedger(s, f),
             ledger'[t].records[f] = ledger[s].records[f]
      PROVE  ledger'[t].records[f].held
  <2>1. ledger[s].draft
    BY <1>2, ResumeKnown
  <2> QED BY <1>2, <2>1 DEF DraftHeld
<1>3. ASSUME InLedger(t, f), ledger'[t].records[f] = ledger[t].records[f]
      PROVE  ledger'[t].records[f].held
  <2>1. Flagged(t) \/ t \in Active \/ Begin(t) \/ \E s \in Turns : s # t /\ ResumeDraft(s, t)
    BY WorkingSource
  <2>2. CASE Begin(t)
    <3>1. ledger'[t].records = NoRecords
      BY <1>0, <2>2, BeginEffect, BeginLogged
    <3> QED BY <3>1, NewTyped DEF InLedger
  <2>3. ASSUME NEW s \in Turns, s # t, ResumeDraft(s, t) PROVE FALSE
    BY <1>3, <2>3, ResumeKnown DEF InLedger
  <2> QED BY <1>3, <2>1, <2>2, <2>3 DEF DraftHeld, Flagged
<1>4. ASSUME RecoverCompact, InLedger(t, f) PROVE ledger'[t].records[f].held
  <2>1. ledger'[t] = proc.keep[t] /\ UNCHANGED journal /\ proc.stage = "recovering"
    BY <1>0, <1>4, RecoverCompactEffect
  <2>2. t \notin Active'
    BY <1>0, <2>1 DEF Staged, Active, In
  <2>3. Flagged(t)' /\ proc.keep[t] # Null
    BY <2>1, <2>2 DEF Flagged
  <2>4. ledger[t].draft /\ proc.keep[t] = ledger[t]
    BY <2>1, <2>3 DEF Keeping, Same, Flagged
  <2> QED BY <1>4, <2>1, <2>4 DEF DraftHeld
<1> QED BY <1>1, <1>2, <1>3, <1>4, LedgerSource

-----------------------------------------------------------------------------
(* The invariant is preserved: what is left of the turns.                  *)

\* While the manager recovers, little else happens.
LEMMA RecoveringSteps ==
  ASSUME Shape, [Next]_vars, proc.stage = "recovering"
  PROVE  \/ UNCHANGED vars \/ RecoverDone \/ RecoverCompact \/ Crash
         \/ \E t \in Turns : RecoverDrop(t) \/ RecoverSkip(t) \/ RecoverDraft(t) \/ RecoverTurn(t)
         \/ \E f \in Files : (Restore(f) \/ Conflict(f)) /\ task.op = "recover"
         \/ \E f \in Files, data \in UserData : Edit(f, data)
<1>1. ~Ready /\ tx.pc = "idle" /\ task.op \in {"none", "recover"}
  <2>1. task.op \in {"none", "rollback", "revert", "recover"}
    BY DEF Shape, Typed, Tasks
  <2> QED BY <2>1 DEF Shape, Transaction, Restoring, Ready
<1>2. ASSUME NEW f \in Files, Restore(f) \/ Conflict(f) PROVE task.op = "recover"
  BY <1>1, <1>2 DEF Restore, Conflict
<1>3. ~TurnStep
  BY <1>1 DEF TurnStep, Begin, Commit, Suspend, KeepDraft, Rollback, Revert, ResumeDraft
<1>4. ~BrokerStep
  BY <1>1 DEF BrokerStep, Plan, Prepare, Apply, Record, UndoWrite, Amend, Canceled, At
<1>5. ~RollbackDone /\ ~RevertDone /\ ~RevertSettled
  BY <1>1 DEF RollbackDone, RevertDone, RevertSettled
<1>6. ~Close /\ ~Closed /\ \A replaces \in BOOLEAN : ~Open(replaces)
  BY <1>1 DEF Close, Closed, Open
<1> QED BY <1>2, <1>3, <1>4, <1>5, <1>6 DEF Next, RestoreStep, ProcessStep, UserStep

\* A revert that settles comes from one that restored its turn.
LEMMA SettlesFrom ==
  ASSUME Shape, [Next]_vars, task'.op = "revert", task'.step = "settle"
  PROVE  /\ task.op = "revert" /\ task'.turn = task.turn /\ task.turn \in Turns
         /\ task.step = "settle" \/ (RevertDone /\ task.step = "restore" /\ task.todo = {} /\ ~task.conflict)
<1>1. Typed /\ Restoring /\ task \in Tasks
  BY DEF Shape, Typed
<1>2. ASSUME NEW t \in Turns, Rollback(t) \/ Revert(t) PROVE FALSE
  BY <1>1, <1>2, RollbackEffect, RevertEffect
<1>3. ASSUME NEW t \in Turns, RecoverTurn(t) PROVE FALSE
  BY <1>3 DEF RecoverTurn, StartTask, NoTask
<1>4. ASSUME NEW g \in Files, Restore(g) \/ Conflict(g)
      PROVE  task'.turn = task.turn /\ task'.op = task.op /\ task'.step = task.step
  BY <1>1, <1>4, RestoreProceeds DEF Proceeds
<1>5. ASSUME RevertDone
      PROVE  /\ task.op = "revert" /\ task'.turn = task.turn
             /\ task.step = "restore" /\ task.todo = {} /\ ~task.conflict
  <2>1. task' # NoTask
    BY NoTaskFacts
  <2> QED BY <1>1, <1>5, <2>1, RevertDoneEffect DEF Tasks
<1>6. ASSUME RollbackDone \/ RevertSettled \/ RecoverDone \/ Crash PROVE FALSE
  BY <1>6, NoTaskFacts DEF RollbackDone, RevertSettled, RecoverDone, Crash
<1>7. /\ task.op = "revert" /\ task'.turn = task.turn
      /\ task.step = "settle" \/ (RevertDone /\ task.step = "restore" /\ task.todo = {} /\ ~task.conflict)
  BY <1>2, <1>3, <1>4, <1>5, <1>6, TaskFrame
<1> QED BY <1>1, <1>7 DEF Restoring

\* A reverted turn has left nothing.
LEMMA RevertedStep ==
  Shape /\ FateKnown /\ OneLive /\ InMemory /\ Reverted /\ [Next]_vars => Reverted'
<1> SUFFICES ASSUME Shape, FateKnown, OneLive, InMemory, Reverted, [Next]_vars,
                    task'.op = "revert", task'.step = "settle"
             PROVE  \A f \in Files : ~(/\ writer'[f] = task'.turn /\ file'[f].data # origin'[task'.turn][f]
                                         /\ f \notin replaced'[task'.turn] /\ f \notin untold'[task'.turn])
  BY DEF Reverted, Told, Mine, Left
<1>1. /\ task.op = "revert" /\ task'.turn = task.turn /\ task.turn \in Turns
      /\ task.step = "settle" \/ (RevertDone /\ task.step = "restore" /\ task.todo = {} /\ ~task.conflict)
  BY SettlesFrom
<1>2. PICK t \in Turns : t = task.turn
  BY <1>1
<1>3. tx.pc = "idle"
  BY <1>1 DEF Shape, Transaction
<1>4. ASSUME NEW f \in Files, Told(t, f)' PROVE Told(t, f)
  <2>1. \A s \in Turns : ~ResumeDraft(s, t)
    BY <1>1 DEF ResumeDraft, Idle
  <2> QED BY <1>3, <1>4, <2>1, ToldStep DEF Apply, UndoWrite, Record, Amend, At
<1>5. \A f \in Files : ~Told(t, f)
  BY <1>1, <1>2, AllRestored DEF Reverted
<1>6. \A f \in Files : ~Told(t, f)'
  BY <1>4, <1>5
<1> QED BY <1>1, <1>2, <1>6 DEF Told, Mine, Left

\* What a step of the transaction has just written is to be recorded again.
LEMMA WrittenSettling ==
  ASSUME Shape, NEW t \in Turns, NEW f \in Files, t \in Active, Apply(f) \/ UndoWrite(f), f \in tx'.done
  PROVE  f \in Settling(t)'
<1>0. Typed /\ Transaction
  BY DEF Shape
<1>1. t \in Active'
  BY DEF Apply, UndoWrite, Active, In
<1>2. f \in Targets
  BY <1>0 DEF Apply, UndoWrite, Transaction
<1>3. \/ tx'.pc \in {"apply", "undo"}
      \/ tx'.pc \in {"record", "amend"} /\ tx'.todo = Targets
  <2>1. CASE Apply(f)
    <3>1. /\ tx.pc = "apply"
          /\ \/ tx.todo = {f} /\ tx'.pc = "record" /\ tx'.todo = Targets
             \/ tx.todo # {f} /\ tx'.pc = "apply"
             \/ tx' = Undo(tx.done)
      BY <1>0, <2>1, ApplyEffect
    <3> QED BY <1>0, <3>1, UndoFacts
  <2>2. CASE UndoWrite(f)
    <3>1. tx.pc = "undo" /\ tx' = Advanced("amend", f)
      BY <1>0, <2>2, UndoWriteEffect
    <3> QED BY <1>0, <3>1, AdvancedFacts
  <2> QED BY <2>1, <2>2
<1> QED BY <1>1, <1>2, <1>3 DEF Settling

\* A kept turn stays one unless it is reverted, which leaves nothing of it.
LEMMA KeptStays ==
  ASSUME Shape, InMemory, [Next]_vars, NEW t \in Turns, fate[t] = "kept", fate'[t] # "kept"
  PROVE  \A f \in Files : ~Told(t, f)
<1>0. Typed /\ Placed /\ Restoring
  BY DEF Shape
<1>1. ASSUME NEW u \in Turns, Begin(u) \/ Commit(u) \/ Suspend(u) \/ KeepDraft(u) \/ Rollback(u) PROVE FALSE
  <2>1. fate'[t] = fate[t] \/ u = t
    BY <1>0, <1>1, BeginEffect, CommitEffect, SuspendEffect, KeepDraftEffect, RollbackEffect
  <2>2. fate[u] # "kept"
    BY <1>0, <1>1, BeginEffect, CommitEffect, SuspendEffect, KeepDraftEffect, RollbackEffect DEF Placed
  <2> QED BY <2>1, <2>2
<1>2. ASSUME NEW s \in Turns, NEW r \in Turns, ResumeDraft(s, r) PROVE FALSE
  <2>1. CASE s = r
    BY <1>0, <1>2, <2>1, ResumeOwnEffect
  <2>2. CASE s # r
    BY <1>0, <1>2, <2>2, ResumeEffect
  <2> QED BY <2>1, <2>2
<1>3. RevertDone
  <2>1. ASSUME RecoverCompact PROVE FALSE
    BY <1>0, <2>1, RecoverCompactEffect
  <2> QED BY <1>1, <1>2, <2>1, FateFrame
<1>4. t = task.turn /\ task.op # "none" /\ task.step = "restore" /\ task.todo = {} /\ ~task.conflict
  BY <1>0, <1>3, RevertDoneEffect
<1> QED BY <1>4, AllRestored

\* What is recorded has its before-image and is what the path holds.
LEMMA NotesHeld ==
  ASSUME Shape, Synced, NEW t \in Turns, NEW f \in Files, NEW rec \in Records, Notes(t, f, rec)
  PROVE  rec.after = Fingerprint(f) /\ (rec.before # Absent => rec.held)
<1>1. t \in Active /\ SyncedAt(t) /\ journal[t].place = "active"
  BY DEF Notes, Synced, Active, In
<1>2. /\ rec.after = Fingerprint(f)
      /\ \/ rec.before = Fingerprint(f) /\ rec.held = (Fingerprint(f) # Absent)
         \/ /\ InJournal(t, f) /\ rec.before = journal[t].records[f].before
            /\ rec.held = journal[t].records[f].held
  BY NotesFacts
<1>3. InJournal(t, f) /\ journal[t].records[f].before # Absent => journal[t].records[f].held
  BY <1>1 DEF SyncedAt
<1> QED BY <1>2, <1>3

\* Manager.After of a path.
LEMMA AfterNoted ==
  ASSUME Shape, NEW f \in Files, Record(f) \/ Amend(f), After(f)
  PROVE  \E rec \in Records : /\ Notes(Turn, f, rec) /\ ledger'[Turn] # Null
                              /\ ledger'[Turn].records[f] = rec /\ journal'[Turn].records[f] = rec
<1>0. Typed /\ Transaction /\ PreparedKnown /\ Placed
  BY DEF Shape
<1>1. /\ Turn \in Active /\ Turn \in Turns /\ ledger[Turn] # Null /\ f \in tx.todo /\ f \in Targets
      /\ UNCHANGED <<file, fate, writer>>
  BY <1>0, RecordMoves
<1>2. InJournal(Turn, f)
  BY <1>0, <1>1 DEF PreparedKnown, Prepared, Record, Amend, At
<1>3. PICK rec : rec = [journal[Turn].records[f] EXCEPT !.after = Fingerprint(f)]
  OBVIOUS
<1>4. rec \in Records /\ Puts(Turn, f, rec) /\ LogRecord(Turn, f, rec)
  BY <1>0, <1>1, <1>2, <1>3, AfterFacts DEF After, Puts
<1>5. journal'[Turn].records[f] = rec /\ ledger'[Turn].records[f] = rec /\ ledger'[Turn] # Null
  BY <1>0, <1>1, <1>4, JournalSet, LedgerSet
<1>6. Renews(f, rec)
  BY <1>1, <1>2, <1>3 DEF Renews, Record, Amend
<1>7. Notes(Turn, f, rec)
  <2>1. Tells(f)
    BY DEF Tells, After
  <2> QED BY <1>1, <1>4, <1>5, <1>6, <2>1 DEF Notes
<1> QED BY <1>4, <1>5, <1>7

\* The contents a record of the journal tells of a change.
LEMMA ChangeTold ==
  ASSUME Shape, Original, NEW t \in Turns, NEW f \in Files, Mine(t, f), InJournal(t, f),
         journal[t].records[f].after = Fingerprint(f)
  PROVE  /\ DataOf(journal[t].records[f].before) # DataOf(journal[t].records[f].after)
         /\ journal[t].records[f].before # journal[t].records[f].after
<1>1. DataOf(journal[t].records[f].before) = origin[t][f] /\ DataOf(Fingerprint(f)) = file[f].data
  BY FingerprintFacts DEF Shape, Original, Mine
<1> QED BY <1>1 DEF Mine, Left

\* Entries that the ledger gives up are of turns that left nothing, or are kept.
LEMMA OnDiskKept ==
  ASSUME JournalInv, [Next]_vars, NEW t \in Turns, NEW f \in Files, Told(t, f), Told(t, f)',
         fate[t] # "kept", fate'[t] # "kept", f \notin Settling(t), UNCHANGED file[f]
  PROVE  /\ InLedger(t, f)'
         /\ ledger'[t].records[f].after = Fingerprint(f)
<1>0. Typed /\ Transaction /\ PreparedKnown /\ Placed /\ Restoring /\ Shape
  BY DEF JournalInv, Shape
<1>1. /\ ledger[t] # Null /\ ledger[t].records[f] # Null
      /\ ledger[t].records[f].after = Fingerprint(f)
  BY DEF JournalInv, OnDisk, InLedger
<1>2. writer[f] = t /\ writer'[f] = t /\ t # Null
  BY Apartness DEF Told, Mine, Left
<1> DEFINE Goal == /\ InLedger(t, f)'
                   /\ ledger'[t].records[f].after = Fingerprint(f)
<1>3. ASSUME ledger'[t] # Null, ledger'[t].records[f] = ledger[t].records[f] PROVE Goal
  BY <1>1, <1>3 DEF InLedger
<1>4. ASSUME NEW u \in Turns, Begin(u) PROVE Goal
  <2>1. u # t => ledger'[t] = ledger[t]
    BY <1>0, <1>4, BeginEffect, BeginLogged
  <2>2. u # t
    BY <1>0, <1>4, BeginEffect DEF Told, Mine
  <2> QED BY <1>1, <1>3, <2>1, <2>2
<1>5. ASSUME NEW u \in Turns, Commit(u) \/ KeepDraft(u) PROVE Goal
  <2>1. u # t => ledger'[t] = ledger[t]
    BY <1>0, <1>5, CommitEffect, KeepDraftEffect, CommitLogged
  <2>2. u # t
    BY <1>0, <1>5, CommitEffect, KeepDraftEffect
  <2> QED BY <1>1, <1>3, <2>1, <2>2
<1>6. ASSUME NEW u \in Turns, Suspend(u) PROVE Goal
  <2>1. /\ journal[u].place = "active"
        /\ \/ LogDraft(u)
           \/ LogSettled(u) /\ ~Changed(journal[u].records)
    BY <1>0, <1>6, SuspendEffect
  <2>2. u = t => Changed(journal[u].records)
    <3> SUFFICES ASSUME u = t PROVE Changed(journal[t].records)
      OBVIOUS
    <3>1. InJournal(t, f) /\ journal[t].records[f].after = Fingerprint(f)
      BY <2>1 DEF JournalInv, InMemory
    <3>2. DataOf(journal[t].records[f].before) # DataOf(journal[t].records[f].after)
      BY <1>0, <3>1, ChangeTold DEF JournalInv, Told
    <3> QED BY <3>1, <3>2 DEF Changed, Paths, InJournal
  <2>3. ledger'[t] # Null /\ ledger'[t].records[f] = ledger[t].records[f]
    BY <1>0, <1>1, <2>1, <2>2, DraftLogged, SettledLogged
  <2> QED BY <1>3, <2>3
<1>7. ASSUME NEW s \in Turns, NEW r \in Turns, ResumeDraft(s, r) PROVE Goal
  <2>1. CASE s = r
    BY <1>0, <1>1, <1>3, <1>7, <2>1, ResumeOwnEffect
  <2>2. CASE s # r
    <3>1. LogResume(s, r) /\ ledger[s] # Null /\ ledger[r] = Null
      BY <1>0, <1>7, <2>2, ResumeKnown DEF JournalInv
    <3>2. t # s /\ t # r
      BY <1>0, <1>1, <1>2, <1>7, <2>2, <3>1, ResumeEffect
    <3>3. ledger'[t] = ledger[t]
      BY <1>0, <2>2, <3>1, <3>2, ResumeLogged
    <3> QED BY <1>1, <1>3, <3>3
  <2> QED BY <2>1, <2>2
<1>8. ASSUME NEW g \in Files, Prepare(g) \/ Record(g) \/ Amend(g) PROVE Goal
  <2>1. InLedger(t, f)'
    <3>1. /\ Turn \in Turns /\ ledger[Turn] # Null
          /\ UNCHANGED ledger \/ \E rec \in Records : LogRecord(Turn, g, rec)
      BY <1>0, <1>8, RecordMoves
    <3>2. ASSUME NEW rec \in Records, LogRecord(Turn, g, rec) PROVE InLedger(t, f)'
      <4>1. rec # Null
        BY Apartness
      <4> QED BY <1>0, <1>1, <3>1, <3>2, <4>1, LedgerSet DEF InLedger
    <3> QED BY <1>1, <3>1, <3>2 DEF InLedger
  <2>2. \/ ledger'[t].records[f] = ledger[t].records[f]
        \/ \E s \in Turns : s # t /\ ResumeDraft(s, t)
        \/ \E rec \in Records : Notes(t, f, rec) /\ ledger'[t].records[f] = rec
        \/ RecoverCompact
    <3>1. Shape /\ FateKnown /\ Keeping
      BY DEF JournalInv
    <3> QED BY <2>1, <3>1, LedgerSource
  <2>3. tx.pc # "idle" /\ ~Idle /\ Ready
    BY <1>0, <1>8, RecordMoves DEF Idle, Transaction
  <2>4. ~RecoverCompact /\ \A s \in Turns : ~ResumeDraft(s, t)
    BY <2>3 DEF RecoverCompact, ResumeDraft, Ready
  <2>5. ASSUME NEW rec \in Records, Notes(t, f, rec), ledger'[t].records[f] = rec PROVE Goal
    <3>1. rec.after = Fingerprint(f)
      BY <1>0, <2>5, NotesFacts
    <3> QED BY <2>1, <2>5, <3>1
  <2>6. CASE ledger'[t].records[f] = ledger[t].records[f]
    BY <1>1, <2>1, <2>6
  <2> HIDE DEF Goal
  <2> QED BY <2>2, <2>4, <2>5, <2>6
<1>9. ASSUME RollbackDone \/ RevertSettled PROVE Goal
  <2>1. /\ task.turn \in Turns
        /\ \/ UNCHANGED ledger
           \/ LogSettled(task.turn) /\ \A g \in Files : ~Told(task.turn, g)
    <3>1. CASE RollbackDone
      <4>1. /\ task.turn \in Turns /\ task.op # "none" /\ task.step = "restore" /\ task.todo = {}
            /\ UNCHANGED ledger \/ (LogSettled(task.turn) /\ ~task.conflict)
        BY <1>0, <3>1, RollbackDoneEffect DEF Restoring
      <4> QED BY <1>0, <4>1, AllRestored DEF JournalInv
    <3>2. CASE RevertSettled
      BY <1>0, <3>2 DEF RevertSettled, Restoring, JournalInv, Reverted
    <3> QED BY <1>9, <3>1, <3>2
  <2>2. ledger'[t] = ledger[t]
    BY <1>0, <2>1, SettledLogged
  <2> QED BY <1>1, <1>3, <2>2
<1>10. ASSUME RecoverCompact PROVE Goal
  <2>1. /\ proc.stage = "recovering" /\ proc.todo = <<>> /\ ledger'[t] = proc.keep[t]
    BY <1>0, <1>10, RecoverCompactEffect
  <2>2. Visited(t)
    BY <2>1 DEF Visited
  <2>3. proc.keep[t] # Null /\ proc.keep[t].records[f] = ledger[t].records[f]
    BY <2>2 DEF JournalInv, KeepsChanges, Told, Mine
  <2> QED BY <1>3, <2>1, <2>3
<1>11. ASSUME Closed PROVE Goal
  <2>1. journal[t].place # "committed"
    BY <1>0 DEF Placed
  <2>2. ledger'[t] # Null /\ ledger'[t].records = ledger[t].records
    BY <1>0, <1>1, <1>11, <2>1, ClosedEffect
  <2> QED BY <1>3, <2>2
<1>12. ASSUME UNCHANGED ledger PROVE Goal
  BY <1>1, <1>3, <1>12
<1> HIDE DEF Goal
<1>13. Goal
  BY <1>4, <1>5, <1>6, <1>7, <1>8, <1>9, <1>10, <1>11, <1>12, LedgerFrame
<1> QED BY <1>13 DEF Goal

\* A change that is told when its record is renewed, or when the process dies, is in the ledger.
LEMMA SettledPath ==
  ASSUME JournalInv, [Next]_vars, NEW t \in Turns, NEW f \in Files, Told(t, f)',
         f \in Settling(t), f \notin Settling(t)'
  PROVE  /\ InLedger(t, f)' /\ ledger'[t].records[f].after = Fingerprint(f)
         /\ Crash \/ (InJournal(t, f)' /\ journal'[t].records[f].after = Fingerprint(f))
<1>0. Typed /\ Transaction /\ PreparedKnown /\ Placed /\ Restoring /\ Shape /\ OneLive
  BY DEF JournalInv, Shape
<1>1. tx.pc # "idle" /\ tx.pc # "prepare" /\ t \in Active /\ f \in tx.done /\ t = Turn
  BY <1>0, ActiveOne DEF Settling
<1>2. f \in Prepared
  BY <1>0, <1>1 DEF Transaction, Prepared
<1>3. InJournal(t, f) /\ InLedger(t, f)
  <2>1. InJournal(t, f) /\ SyncedAt(t) /\ journal[t].place = "active"
    BY <1>0, <1>1, <1>2 DEF PreparedKnown, JournalInv, Synced, Active, In
  <2> QED BY <2>1 DEF SyncedAt
<1>4. f \notin untold'[t]
  BY DEF Told
<1>5. CASE Crash
  <2>1. tx.done \in SUBSET Files
    BY <1>0 DEF Typed, Transactions
  <2>2. ledger[t].records[f].after = Fingerprint(f)
    BY <1>0, <1>1, <1>4, <1>5, <2>1, CrashEffect, MissedFacts
  <2>3. UNCHANGED ledger
    BY <1>0, <1>5, CrashEffect
  <2> QED BY <1>3, <1>5, <2>2, <2>3 DEF InLedger
<1>6. CASE ~Crash
  <2>1. (Record(f) \/ Amend(f)) /\ Settles(f)
    BY <1>0, <1>1, <1>6, SettlingStep
  <2>2. CASE After(f)
    <3>1. PICK rec \in Records : /\ Notes(t, f, rec) /\ ledger'[t] # Null
                                 /\ ledger'[t].records[f] = rec /\ journal'[t].records[f] = rec
      BY <1>0, <1>1, <2>1, <2>2, AfterNoted
    <3>2. rec.after = Fingerprint(f) /\ rec # Null
      BY <1>0, <3>1, NotesFacts, Apartness
    <3> QED BY <3>1, <3>2 DEF InLedger, InJournal
  <2>3. CASE AfterFails(f) /\ untold' = Missed({f})
    <3>1. PICK rec : rec = [journal[t].records[f] EXCEPT !.after = Fingerprint(f)]
      OBVIOUS
    <3>2. rec \in Records /\ rec # Null /\ rec.after = Fingerprint(f)
      BY <1>0, <1>3, <3>1, AfterFacts
    <3>3. Puts(t, f, rec) /\ UNCHANGED ledger
      BY <1>1, <2>3, <3>1 DEF AfterFails, Puts
    <3>4. journal'[t].records[f] = rec
      BY <1>0, <3>2, <3>3, JournalSet
    <3>5. ledger[t].records[f].after = Fingerprint(f)
      BY <1>0, <1>1, <1>4, <2>3, MissedFacts
    <3> QED BY <1>3, <3>2, <3>3, <3>4, <3>5 DEF InLedger, InJournal
  <2> QED BY <2>1, <2>2, <2>3 DEF Settles
<1> QED BY <1>5, <1>6

\* A change nobody decided to keep is in the ledger.
LEMMA OnDiskStep == JournalInv /\ [Next]_vars => OnDisk'
<1> SUFFICES ASSUME JournalInv, [Next]_vars, NEW t \in Turns, NEW f \in Files, Told(t, f)',
                    fate'[t] # "kept", f \notin Settling(t)'
             PROVE  /\ InLedger(t, f)'
                    /\ ledger'[t].records[f].after = Fingerprint(f)'
  BY DEF OnDisk
<1>0. Typed /\ Transaction /\ Placed /\ Shape /\ FateKnown /\ OneLive /\ InMemory /\ Synced
  BY DEF JournalInv, Shape
<1> DEFINE Goal == /\ InLedger(t, f)'
                   /\ ledger'[t].records[f].after = Fingerprint(f)'
<1>1. CASE Told(t, f) /\ writer[f] = t /\ file'[f] = file[f] /\ origin'[t][f] = origin[t][f]
  <2>1. Fingerprint(f)' = Fingerprint(f)
    BY <1>1 DEF Fingerprint
  <2>2. CASE fate[t] = "kept"
    BY <1>0, <1>1, <2>2, KeptStays
  <2>3. CASE fate[t] # "kept" /\ f \notin Settling(t)
    BY <1>1, <2>1, <2>3, OnDiskKept
  <2>4. CASE f \in Settling(t)
    BY <2>1, <2>4, SettledPath
  <2> QED BY <2>2, <2>3, <2>4
<1>2. CASE t = Turn /\ t \in Active /\ (Apply(f) \/ UndoWrite(f)) /\ f \in tx'.done
  BY <1>0, <1>2, WrittenSettling
<1>3. ASSUME NEW s \in Turns, s # t, ResumeDraft(s, t), Told(s, f), file' = file PROVE Goal
  <2>1. Fingerprint(f)' = Fingerprint(f)
    BY <1>3 DEF Fingerprint
  <2>2. tx.pc = "idle" /\ fate[s] = "draft"
    BY <1>0, <1>3, ResumeEffect DEF Idle
  <2>3. f \notin Settling(s)
    BY <1>0, <2>2, SettlingIdle
  <2>4. InLedger(s, f) /\ ledger[s].records[f].after = Fingerprint(f)
    BY <1>3, <2>2, <2>3 DEF JournalInv, OnDisk
  <2>5. LogResume(s, t) /\ ledger[s] # Null /\ ledger[t] = Null
    BY <1>0, <1>3, ResumeKnown
  <2>6. ledger'[t] # Null /\ ledger'[t].records = ledger[s].records
    BY <1>0, <1>3, <2>5, ResumeLogged
  <2> QED BY <2>1, <2>4, <2>6 DEF InLedger
<1>5. ASSUME t = Turn, Record(f) \/ Amend(f), After(f) PROVE Goal
  <2>1. PICK rec \in Records : Notes(t, f, rec) /\ ledger'[t] # Null /\ ledger'[t].records[f] = rec
    BY <1>0, <1>5, AfterNoted
  <2>2. rec.after = Fingerprint(f) /\ rec # Null /\ UNCHANGED file
    BY <1>0, <2>1, NotesFacts, Apartness DEF Notes
  <2>3. Fingerprint(f)' = Fingerprint(f)
    BY <2>2 DEF Fingerprint
  <2> QED BY <2>1, <2>2, <2>3 DEF InLedger
<1> HIDE DEF Goal
<1>4. Goal
  BY <1>0, <1>1, <1>2, <1>3, <1>5, ToldStep DEF Goal
<1> QED BY <1>4 DEF Goal

\* The journal keeps what it knows of a change.
LEMMA InMemoryKept ==
  ASSUME JournalInv, [Next]_vars, NEW t \in Turns, NEW f \in Files, Told(t, f), Told(t, f)',
         journal'[t].place # "none", f \notin Settling(t)
  PROVE  InJournal(t, f)' /\ journal'[t].records[f].after = Fingerprint(f)
<1>0. Typed /\ Transaction /\ PreparedKnown /\ Placed /\ Restoring /\ Staged /\ Shape /\ FateKnown /\ Adopted
  BY DEF JournalInv, Shape
<1>1. writer[f] = t /\ writer'[f] = t /\ t # Null
  BY Apartness DEF Told, Mine, Left
<1>2. journal[t].place # "none" => InJournal(t, f) /\ journal[t].records[f].after = Fingerprint(f)
  BY DEF JournalInv, InMemory
<1> DEFINE Goal == InJournal(t, f)' /\ journal'[t].records[f].after = Fingerprint(f)
<1>3. ASSUME journal[t].place # "none", journal'[t].records[f] = journal[t].records[f] PROVE Goal
  BY <1>2, <1>3 DEF InJournal
<1>4. ASSUME NEW u \in Turns, Begin(u) PROVE Goal
  <2>1. u # t /\ journal'[t] = journal[t]
    BY <1>0, <1>4, BeginEffect DEF Told, Mine
  <2> QED BY <1>3, <2>1
<1>5. ASSUME NEW u \in Turns, Commit(u) PROVE Goal
  <2>1. CASE u = t
    <3>1. journal[t].place # "none"
      BY <1>0, <1>5, <2>1, CommitEffect
    <3>2. InJournal(t, f) /\ journal[t].records[f].before # journal[t].records[f].after
      BY <1>0, <1>2, <3>1, ChangeTold DEF JournalInv, Told
    <3>3. journal'[t].records[f] = journal[t].records[f]
      BY <1>0, <1>5, <2>1, <3>2, CommitEffect DEF InJournal
    <3> QED BY <1>3, <3>1, <3>3
  <2>2. CASE u # t
    BY <1>0, <1>3, <1>5, <2>2, CommitEffect
  <2> QED BY <2>1, <2>2
<1>6. ASSUME NEW u \in Turns, Suspend(u) \/ KeepDraft(u) \/ Rollback(u) PROVE Goal
  <2>1. /\ u # t => journal'[t] = journal[t]
        /\ journal[u].place # "none"
        /\ journal'[u].records = journal[u].records \/ journal'[u].place = "none"
    BY <1>0, <1>6, SuspendEffect, KeepDraftEffect, RollbackEffect
  <2> QED BY <1>3, <2>1
<1>7. ASSUME NEW u \in Turns, RecoverDraft(u) \/ RecoverTurn(u) PROVE Goal
  <2>1. InJournal(t, f)'
    <3>1. CASE journal'[t] = journal[t]
      BY <1>2, <3>1 DEF InJournal
    <3>2. CASE u = t /\ ledger[t] # Null /\ ~ledger[t].committed /\ journal'[t].records = ledger[t].records
      <4>1. fate[t] # "kept"
        BY <1>0, <3>2 DEF FateKnown
      <4>2. InLedger(t, f)
        BY <4>1 DEF JournalInv, OnDisk
      <4> QED BY <3>2, <4>2 DEF InLedger, InJournal
    <3>3. CASE RecoverTurn(u)
      BY <1>0, <3>1, <3>2, <3>3, RecoverTurnEffect
    <3>4. CASE RecoverDraft(u)
      BY <1>0, <3>1, <3>2, <3>4, RecoverEffect
    <3> QED BY <1>7, <3>3, <3>4
  <2>2. \/ journal'[t].records[f] = journal[t].records[f] /\ InJournal(t, f)
        \/ \E s \in Turns : ResumeDraft(s, t)
        \/ \E rec \in Records : Notes(t, f, rec)
        \/ /\ RecoverDraft(t) \/ RecoverTurn(t)
           /\ InLedger(t, f) /\ journal'[t].records[f] = ledger[t].records[f]
    BY <1>0, <2>1, JournalSource
  <2>3. proc.stage = "recovering" /\ ~Ready /\ tx.pc = "idle"
    BY <1>0, <1>7 DEF RecoverDraft, RecoverTurn, Recovering, Ready, Transaction
  <2>4. tx.todo = {}
    BY <1>0, <2>3, NoTxFacts DEF Transaction
  <2>5. /\ \A s \in Turns : ~ResumeDraft(s, t)
        /\ \A rec \in Records : ~Notes(t, f, rec)
    BY <2>3, <2>4 DEF ResumeDraft, Notes
  <2>6. CASE journal'[t].records[f] = journal[t].records[f] /\ InJournal(t, f)
    <3>1. journal[t].place # "none"
      BY <1>0, <2>6, NewTyped DEF Placed, InJournal
    <3> QED BY <1>3, <2>6, <3>1
  <2>7. CASE /\ RecoverDraft(t) \/ RecoverTurn(t)
             /\ InLedger(t, f) /\ journal'[t].records[f] = ledger[t].records[f]
    <3>1. ledger[t] # Null /\ ~ledger[t].committed
      BY <2>7 DEF RecoverDraft, RecoverTurn, InLedger
    <3>2. fate[t] # "kept"
      BY <1>0, <3>1 DEF FateKnown
    <3>3. ledger[t].records[f].after = Fingerprint(f)
      BY <3>2 DEF JournalInv, OnDisk
    <3> QED BY <2>1, <2>7, <3>3
  <2> QED BY <2>2, <2>5, <2>6, <2>7
<1>8. ASSUME NEW s \in Turns, NEW r \in Turns, ResumeDraft(s, r) PROVE Goal
  <2>1. CASE s = r
    <3>1. /\ r # t => journal'[t] = journal[t]
          /\ r = t => journal[t].place # "none" /\ journal'[t].records = journal[t].records
      BY <1>0, <1>8, <2>1, ResumeOwnEffect
    <3> QED BY <1>3, <3>1
  <2>2. CASE s # r
    <3>1. t # s /\ fate[r] = "fresh"
      BY <1>0, <1>1, <1>8, <2>2, ResumeEffect
    <3>2. t # r
      BY <1>0, <1>1, <3>1 DEF FateKnown
    <3>3. journal'[t] = journal[t]
      BY <1>0, <1>8, <2>2, <3>1, <3>2, ResumeEffect
    <3> QED BY <1>3, <3>3
  <2> QED BY <2>1, <2>2
<1>9. ASSUME NEW g \in Files, Restore(g) PROVE Goal
  <2>1. /\ g # f /\ journal'[t].place = journal[t].place
        /\ journal'[t].records[f] = journal[t].records[f]
    BY <1>0, <1>1, <1>9, RestoreEffect
  <2> QED BY <1>3, <2>1
<1>10. ASSUME NEW g \in Files, Prepare(g) \/ Record(g) \/ Amend(g) PROVE Goal
  <2>1. /\ Turn \in Turns
        /\ UNCHANGED journal \/ \E rec \in Records : Puts(Turn, g, rec)
    BY <1>0, <1>10, RecordMoves
  <2>2. \A u \in Turns : journal'[u].place = journal[u].place
    BY <1>0, <2>1, JournalSet
  <2>3. InJournal(t, f)'
    <3>1. ASSUME NEW rec \in Records, Puts(Turn, g, rec) PROVE InJournal(t, f)'
      <4>1. rec # Null
        BY Apartness
      <4> QED BY <1>0, <1>2, <2>1, <2>2, <3>1, <4>1, JournalSet DEF InJournal
    <3> QED BY <1>2, <2>1, <2>2, <3>1 DEF InJournal
  <2>4. tx.pc # "idle" /\ Ready
    BY <1>0, <1>10, RecordMoves DEF Transaction
  <2>5. /\ \A s \in Turns : ~ResumeDraft(s, t)
        /\ ~RecoverDraft(t) /\ ~RecoverTurn(t)
    BY <2>4 DEF ResumeDraft, Idle, RecoverDraft, RecoverTurn, Recovering, Ready
  <2>6. \/ journal'[t].records[f] = journal[t].records[f]
        \/ \E rec \in Records : Notes(t, f, rec) /\ journal'[t].records[f] = rec
    BY <1>0, <2>3, <2>5, JournalSource
  <2>7. ASSUME NEW rec \in Records, Notes(t, f, rec), journal'[t].records[f] = rec PROVE Goal
    <3>1. rec.after = Fingerprint(f)
      BY <1>0, <2>7, NotesFacts
    <3> QED BY <2>3, <2>7, <3>1
  <2>8. CASE journal'[t].records[f] = journal[t].records[f]
    BY <1>3, <2>2, <2>8
  <2> HIDE DEF Goal
  <2> QED BY <2>6, <2>7, <2>8
<1>11. ASSUME RollbackDone \/ RevertDone \/ RecoverDone PROVE Goal
  <2>1. /\ task.turn # t => journal'[t] = journal[t]
        /\ task.turn = t => \/ journal'[t].place = "none" \/ journal'[t] = journal[t]
                            \/ journal'[t].records = journal[t].records
    BY <1>0, <1>11, RollbackDoneEffect, RevertDoneEffect, RecoverDoneEffect
  <2>2. task.turn = t => journal[t].place # "none"
    BY <1>0, <1>11, RollbackDoneEffect, RevertDoneEffect, RecoverDoneEffect DEF Restoring
  <2> QED BY <1>3, <2>1, <2>2
<1>12. ASSUME Closed \/ Crash PROVE Goal
  BY <1>0, <1>12, ClosedEffect, CrashEffect
<1>13. ASSUME UNCHANGED journal PROVE Goal
  BY <1>3, <1>13
<1> HIDE DEF Goal
<1>14. Goal
  BY <1>4, <1>5, <1>6, <1>7, <1>8, <1>9, <1>10, <1>11, <1>12, <1>13, JournalFrame
<1> QED BY <1>14 DEF Goal

\* A change is in the journal if there is one.
LEMMA InMemoryStep == JournalInv /\ [Next]_vars => InMemory'
<1> SUFFICES ASSUME JournalInv, [Next]_vars, NEW t \in Turns, NEW f \in Files, Told(t, f)',
                    journal'[t].place # "none", f \notin Settling(t)'
             PROVE  InJournal(t, f)' /\ journal'[t].records[f].after = Fingerprint(f)'
  BY DEF InMemory
<1>0. Typed /\ Transaction /\ Placed /\ Shape /\ FateKnown /\ OneLive /\ InMemory /\ Synced
  BY DEF JournalInv, Shape
<1> DEFINE Goal == InJournal(t, f)' /\ journal'[t].records[f].after = Fingerprint(f)'
<1>1. CASE Told(t, f) /\ writer[f] = t /\ file'[f] = file[f] /\ origin'[t][f] = origin[t][f]
  <2>1. Fingerprint(f)' = Fingerprint(f)
    BY <1>1 DEF Fingerprint
  <2>2. CASE f \notin Settling(t)
    BY <1>1, <2>1, <2>2, InMemoryKept
  <2>3. CASE f \in Settling(t)
    <3>1. ~Crash
      BY <1>0, CrashEffect
    <3> QED BY <2>1, <2>3, <3>1, SettledPath
  <2> QED BY <2>2, <2>3
<1>2. CASE t = Turn /\ t \in Active /\ (Apply(f) \/ UndoWrite(f)) /\ f \in tx'.done
  BY <1>0, <1>2, WrittenSettling
<1>3. ASSUME NEW s \in Turns, s # t, ResumeDraft(s, t), Told(s, f), file' = file PROVE Goal
  <2>1. Fingerprint(f)' = Fingerprint(f)
    BY <1>3 DEF Fingerprint
  <2>2. /\ tx.pc = "idle" /\ journal[s].place = "draft" /\ journal'[t].records = journal[s].records
    BY <1>0, <1>3, ResumeEffect DEF Idle
  <2>3. f \notin Settling(s)
    BY <1>0, <2>2, SettlingIdle
  <2>4. InJournal(s, f) /\ journal[s].records[f].after = Fingerprint(f)
    BY <1>0, <1>3, <2>2, <2>3 DEF InMemory
  <2> QED BY <2>1, <2>2, <2>4 DEF InJournal
<1>5. ASSUME t = Turn, Record(f) \/ Amend(f), After(f) PROVE Goal
  <2>1. PICK rec \in Records : Notes(t, f, rec) /\ journal'[t].records[f] = rec
    BY <1>0, <1>5, AfterNoted
  <2>2. rec.after = Fingerprint(f) /\ rec # Null /\ UNCHANGED file
    BY <1>0, <2>1, NotesFacts, Apartness DEF Notes
  <2>3. Fingerprint(f)' = Fingerprint(f)
    BY <2>2 DEF Fingerprint
  <2> QED BY <2>1, <2>2, <2>3 DEF InJournal
<1> HIDE DEF Goal
<1>4. Goal
  BY <1>0, <1>1, <1>2, <1>3, <1>5, ToldStep DEF Goal
<1> QED BY <1>4 DEF Goal

\* A record of the ledger is dropped only with its entry, or by a second Begin.
LEMMA LedgerKeeps ==
  ASSUME Shape, FateKnown, Keeping, [Next]_vars, NEW t \in Turns, ledger'[t] # Null, ~Begin(t),
         \A s \in Turns : s # t => ~ResumeDraft(s, t)
  PROVE  ledger[t] # Null /\ \A f \in Files : InLedger(t, f) => InLedger(t, f)'
<1>0. Typed /\ Transaction /\ PreparedKnown /\ Placed /\ Restoring
  BY DEF Shape
<1> DEFINE Goal == ledger[t] # Null /\ \A f \in Files : InLedger(t, f) => InLedger(t, f)'
<1>1. ASSUME ledger[t] # Null, ledger'[t].records = ledger[t].records PROVE Goal
  BY <1>1 DEF InLedger
<1>2. ASSUME ledger'[t] = ledger[t] PROVE Goal
  BY <1>1, <1>2
<1>3. ASSUME NEW u \in Turns, Begin(u) PROVE Goal
  BY <1>0, <1>2, <1>3, BeginEffect, BeginLogged
<1>4. ASSUME NEW u \in Turns, Commit(u) \/ KeepDraft(u) \/ Suspend(u) PROVE Goal
  <2>1. LogCommit(u) \/ LogDraft(u) \/ LogSettled(u)
    BY <1>0, <1>4, CommitEffect, KeepDraftEffect, SuspendEffect
  <2> QED BY <1>0, <1>1, <2>1, CommitLogged, DraftLogged, SettledLogged
<1>5. ASSUME NEW s \in Turns, NEW r \in Turns, ResumeDraft(s, r) PROVE Goal
  <2>1. CASE s = r
    BY <1>0, <1>2, <1>5, <2>1, ResumeOwnEffect
  <2>2. CASE s # r
    <3>1. LogResume(s, r) /\ ledger[s] # Null /\ ledger[r] = Null
      BY <1>5, <2>2, ResumeKnown
    <3> QED BY <1>0, <1>2, <1>5, <2>2, <3>1, ResumeLogged
  <2> QED BY <2>1, <2>2
<1>6. ASSUME NEW g \in Files, Prepare(g) \/ Record(g) \/ Amend(g) PROVE Goal
  <2>1. /\ Turn \in Turns /\ ledger[Turn] # Null
        /\ UNCHANGED ledger \/ \E rec \in Records : LogRecord(Turn, g, rec)
    BY <1>0, <1>6, RecordMoves
  <2>2. ASSUME NEW rec \in Records, LogRecord(Turn, g, rec) PROVE Goal
    <3>1. rec # Null
      BY Apartness
    <3> QED BY <1>0, <1>2, <2>1, <2>2, <3>1, LedgerSet DEF InLedger
  <2> HIDE DEF Goal
  <2> QED BY <1>2, <2>1, <2>2
<1>7. ASSUME RollbackDone \/ RevertSettled PROVE Goal
  <2>1. task.turn \in Turns /\ (UNCHANGED ledger \/ LogSettled(task.turn))
    BY <1>0, <1>7, RollbackDoneEffect DEF RevertSettled, Restoring
  <2> QED BY <1>0, <1>2, <2>1, SettledLogged
<1>8. ASSUME RecoverCompact PROVE Goal
  <2>1. ledger'[t] = proc.keep[t]
    BY <1>0, <1>8, RecoverCompactEffect
  <2> QED BY <2>1 DEF Keeping, Same, InLedger
<1>9. ASSUME Closed PROVE Goal
  BY <1>0, <1>1, <1>9, ClosedEffect
<1> HIDE DEF Goal
<1>10. Goal
  BY <1>2, <1>3, <1>4, <1>5, <1>6, <1>7, <1>8, <1>9, LedgerFrame
<1> QED BY <1>10 DEF Goal

\* What a step of the transaction writes was recorded.
LEMMA WrittenKnown ==
  ASSUME Shape, Synced, NEW t \in Active, NEW f \in Files, Apply(f) \/ UndoWrite(f)
  PROVE  /\ InJournal(t, f) /\ InLedger(t, f) /\ UNCHANGED <<journal, ledger>>
         /\ ledger[t].records[f].before # Absent => ledger[t].records[f].held
<1>1. Transaction /\ PreparedKnown /\ t \in Turns /\ journal[t].place = "active" /\ SyncedAt(t)
  BY DEF Shape, Synced, Active, In
<1>2. f \in Prepared
  BY <1>1 DEF Apply, UndoWrite, At, Transaction, Prepared
<1> QED BY <1>1, <1>2 DEF PreparedKnown, SyncedAt, Apply, UndoWrite


\* A change whose record was not replaced is in the journal that its turn may go on with.
LEMMA BackedMemory ==
  ASSUME JournalInv, [Next]_vars, NEW t \in Turns, NEW f \in Files, Mine(t, f), Mine(t, f)',
         journal'[t].place \in {"active", "draft"}
  PROVE  InJournal(t, f)'
<1>0. /\ Typed /\ Transaction /\ PreparedKnown /\ Placed /\ Restoring /\ Staged /\ Shape
      /\ FateKnown /\ Backed /\ Adopted
  BY DEF JournalInv, Shape
<1>1. writer[f] = t /\ writer'[f] = t /\ t # Null /\ Left(t, f)
  BY Apartness DEF Mine, Left
<1>2. ASSUME journal[t].place \in {"active", "draft"}, journal'[t].records[f] = journal[t].records[f]
      PROVE  InJournal(t, f)'
  BY <1>0, <1>2 DEF Backed, InJournal
<1>3. ASSUME journal'[t] = journal[t] PROVE InJournal(t, f)'
  BY <1>2, <1>3
<1>4. ASSUME NEW u \in Turns, Begin(u) PROVE InJournal(t, f)'
  <2>1. u # t /\ journal'[t] = journal[t]
    BY <1>0, <1>1, <1>4, BeginEffect DEF Mine
  <2> QED BY <1>3, <2>1
<1>5. ASSUME NEW u \in Turns, Commit(u) \/ KeepDraft(u) \/ Rollback(u) PROVE InJournal(t, f)'
  <2>1. u # t /\ journal'[t] = journal[t]
    BY <1>0, <1>5, CommitEffect, KeepDraftEffect, RollbackEffect
  <2> QED BY <1>3, <2>1
<1>6. ASSUME NEW u \in Turns, Suspend(u) PROVE InJournal(t, f)'
  <2>1. /\ u # t => journal'[t] = journal[t]
        /\ journal[u].place = "active"
        /\ journal'[u].records = journal[u].records \/ journal'[u].place = "none"
    BY <1>0, <1>6, SuspendEffect
  <2> QED BY <1>2, <1>3, <2>1
<1>7. ASSUME NEW u \in Turns, RecoverDraft(u) PROVE InJournal(t, f)'
  <2>1. \/ journal'[t] = journal[t]
        \/ ledger[t] # Null /\ journal'[t].records = ledger[t].records
    BY <1>0, <1>7, RecoverEffect
  <2> QED BY <1>0, <1>3, <2>1 DEF Backed, InLedger, InJournal
<1>8. ASSUME NEW u \in Turns, RecoverTurn(u) PROVE InJournal(t, f)'
  <2>1. u # t /\ journal'[t] = journal[t]
    BY <1>0, <1>8, RecoverTurnEffect
  <2> QED BY <1>3, <2>1
<1>9. ASSUME NEW s \in Turns, NEW r \in Turns, ResumeDraft(s, r) PROVE InJournal(t, f)'
  <2>1. CASE s = r
    <3>1. /\ r # t => journal'[t] = journal[t]
          /\ r = t => journal[t].place = "draft" /\ journal'[t].records = journal[t].records
      BY <1>0, <1>9, <2>1, ResumeOwnEffect
    <3> QED BY <1>2, <1>3, <3>1
  <2>2. CASE s # r
    <3>1. t # s /\ fate[r] = "fresh"
      BY <1>0, <1>1, <1>9, <2>2, ResumeEffect
    <3>2. t # r
      BY <1>0, <1>1, <3>1 DEF FateKnown
    <3>3. journal'[t] = journal[t]
      BY <1>0, <1>9, <2>2, <3>1, <3>2, ResumeEffect
    <3> QED BY <1>3, <3>3
  <2> QED BY <2>1, <2>2
<1>10. ASSUME NEW g \in Files, Restore(g) PROVE InJournal(t, f)'
  <2>1. /\ g # f /\ journal'[t].place = journal[t].place
        /\ journal'[t].records[f] = journal[t].records[f]
    BY <1>0, <1>1, <1>10, RestoreEffect
  <2> QED BY <1>2, <2>1
<1>11. ASSUME NEW g \in Files, Prepare(g) \/ Record(g) \/ Amend(g) PROVE InJournal(t, f)'
  <2>1. /\ Turn \in Turns
        /\ UNCHANGED journal \/ \E rec \in Records : Puts(Turn, g, rec)
    BY <1>0, <1>11, RecordMoves
  <2>2. ASSUME NEW rec \in Records, Puts(Turn, g, rec) PROVE InJournal(t, f)'
    <3>1. /\ journal'[t].place = journal[t].place
          /\ journal'[t].records[f] = IF t = Turn /\ f = g THEN rec ELSE journal[t].records[f]
      BY <1>0, <2>1, <2>2, JournalSet
    <3>2. rec # Null
      BY Apartness
    <3> QED BY <1>2, <3>1, <3>2 DEF InJournal
  <2> QED BY <1>3, <2>1, <2>2
<1>12. ASSUME RollbackDone \/ RevertDone \/ RecoverDone PROVE InJournal(t, f)'
  <2>1. /\ task.turn # t => journal'[t] = journal[t]
        /\ task.turn = t => journal'[t].place \in {"none", "unresolved"} \/ journal'[t] = journal[t]
    BY <1>0, <1>12, RollbackDoneEffect, RevertDoneEffect, RecoverDoneEffect
  <2> QED BY <1>3, <2>1
<1>13. ASSUME Closed \/ Crash PROVE FALSE
  BY <1>0, <1>13, ClosedEffect, CrashEffect
<1>14. ASSUME UNCHANGED journal PROVE InJournal(t, f)'
  BY <1>3, <1>14
<1> QED BY <1>4, <1>5, <1>6, <1>7, <1>8, <1>9, <1>10, <1>11, <1>12, <1>13, <1>14, JournalFrame

\* The journal of a turn that is recovered has the records the ledger has of its changes.
LEMMA BackedAdopted ==
  ASSUME JournalInv, [Next]_vars, NEW t \in Turns, NEW f \in Files, Left(t, f)', InLedger(t, f)',
         journal'[t].place = "adopted"
  PROVE  InJournal(t, f)'
<1>0. /\ Typed /\ Transaction /\ Placed /\ Restoring /\ Staged /\ Shape /\ FateKnown /\ Backed
      /\ OneLive /\ Adopted
  BY DEF JournalInv, Shape
<1>1. writer'[f] = t /\ t # Null
  BY Apartness DEF Left
<1>2. CASE journal[t].place = "adopted"
  <2>1. task.op = "recover" /\ task.turn = t /\ tx.pc = "idle"
    BY <1>0, <1>2 DEF Placed, Transaction
  <2>2. \A s \in Turns : ~ResumeDraft(s, t)
    BY <2>1 DEF ResumeDraft, Idle
  <2>3. Left(t, f)
    BY <1>0, <2>1, <2>2, LeftStep DEF Apply, UndoWrite, At
  <2>4. ~Crash /\ ~RecoverDone /\ ~RollbackDone /\ ~RevertDone /\ ~RevertSettled
    BY <1>0, <2>1, CrashEffect, RecoverDoneEffect DEF RollbackDone, RevertDone, RevertSettled
  <2>5. \/ UNCHANGED <<journal, ledger>>
        \/ \E g \in Files : Restore(g)
    BY <1>0, <2>1, <2>4, RestoreSteps DEF vars, Conflict, Edit
  <2>6. ASSUME NEW g \in Files, Restore(g)
        PROVE  UNCHANGED ledger /\ journal'[t].records[f] = journal[t].records[f]
    BY <1>0, <1>1, <2>6, RestoreEffect
  <2>7. UNCHANGED ledger /\ journal'[t].records[f] = journal[t].records[f]
    BY <2>5, <2>6
  <2>8. InLedger(t, f)
    BY <2>7 DEF InLedger
  <2> QED BY <1>0, <1>2, <2>3, <2>7, <2>8 DEF Backed, InJournal
<1>3. CASE journal[t].place # "adopted"
  <2>1. RecoverTurn(t)
    <3>1. ASSUME NEW u \in Turns,
                 Begin(u) \/ Commit(u) \/ Suspend(u) \/ KeepDraft(u) \/ Rollback(u) \/ RecoverDraft(u)
          PROVE  FALSE
      BY <1>0, <1>3, <3>1, BeginEffect, CommitEffect, SuspendEffect, KeepDraftEffect, RollbackEffect,
         RecoverEffect
    <3>2. ASSUME NEW s \in Turns, NEW r \in Turns, ResumeDraft(s, r) PROVE FALSE
      <4>1. CASE s = r
        BY <1>0, <1>3, <3>2, <4>1, ResumeOwnEffect
      <4>2. CASE s # r
        BY <1>0, <1>3, <3>2, <4>2, ResumeEffect
      <4> QED BY <4>1, <4>2
    <3>3. ASSUME NEW g \in Files, Restore(g) PROVE FALSE
      BY <1>0, <1>3, <3>3, RestoreEffect
    <3>4. ASSUME NEW g \in Files, Prepare(g) \/ Record(g) \/ Amend(g) PROVE FALSE
      <4>1. Turn \in Turns /\ (UNCHANGED journal \/ \E rec \in Records : Puts(Turn, g, rec))
        BY <1>0, <3>4, RecordMoves DEF Shape
      <4> QED BY <1>0, <1>3, <4>1, JournalSet
    <3>5. ASSUME RollbackDone \/ RevertDone \/ RecoverDone \/ Closed \/ Crash PROVE FALSE
      BY <1>0, <1>3, <3>5, RollbackDoneEffect, RevertDoneEffect, RecoverDoneEffect, ClosedEffect,
         CrashEffect
    <3>6. ASSUME NEW u \in Turns, RecoverTurn(u) PROVE u = t
      BY <1>0, <1>3, <3>6, RecoverTurnEffect
    <3> QED BY <1>3, <3>1, <3>2, <3>3, <3>4, <3>5, <3>6, JournalFrame
  <2>2. UNCHANGED ledger /\ journal'[t].records = ledger[t].records
    BY <1>0, <2>1, RecoverTurnEffect
  <2> QED BY <2>2 DEF InLedger, InJournal
<1> QED BY <1>2, <1>3

\* Backed is preserved.
LEMMA BackedStep == JournalInv /\ [Next]_vars => Backed'
<1> SUFFICES ASSUME JournalInv, [Next]_vars, NEW t \in Turns, NEW f \in Files
             PROVE  /\ Mine(t, f)' /\ ledger'[t] # Null => InLedger(t, f)'
                    /\ Left(t, f)' /\ InLedger(t, f)' /\ ledger'[t].records[f].before # Absent =>
                         ledger'[t].records[f].held
                    /\ Mine(t, f)' /\ journal'[t].place \in {"active", "draft"} => InJournal(t, f)'
                    /\ Left(t, f)' /\ InLedger(t, f)' /\ journal'[t].place = "adopted" =>
                         InJournal(t, f)'
  BY DEF Backed
<1>0. /\ Typed /\ Shape /\ FateKnown /\ OneLive /\ Synced /\ Backed /\ DraftHeld /\ Keeping
      /\ KeepsChanges
  BY DEF JournalInv, Shape
<1>1. ASSUME Mine(t, f)', ledger'[t] # Null PROVE InLedger(t, f)'
  <2>1. CASE Mine(t, f) /\ writer[f] = t
    <3>1. ~Begin(t)
      BY <1>0, <1>1, <2>1, BeginEffect DEF Mine
    <3>2. \A s \in Turns : s # t => ~ResumeDraft(s, t)
      BY <1>0, <2>1, ResumeEffect DEF FateKnown
    <3>3. ledger[t] # Null /\ (InLedger(t, f) => InLedger(t, f)')
      BY <1>0, <1>1, <3>1, <3>2, LedgerKeeps
    <3> QED BY <1>0, <2>1, <3>3 DEF Backed
  <2>2. CASE t \in Active /\ (Apply(f) \/ UndoWrite(f))
    BY <1>0, <2>2, WrittenKnown DEF InLedger
  <2>3. ASSUME NEW s \in Turns, s # t, ResumeDraft(s, t), Mine(s, f) PROVE InLedger(t, f)'
    <3>1. LogResume(s, t) /\ ledger[s] # Null /\ ledger[t] = Null
      BY <1>0, <2>3, ResumeKnown
    <3>2. ledger'[t] # Null /\ ledger'[t].records = ledger[s].records
      BY <1>0, <2>3, <3>1, ResumeLogged
    <3> QED BY <1>0, <2>3, <3>1, <3>2 DEF Backed, InLedger
  <2> QED BY <1>0, <1>1, <2>1, <2>2, <2>3, MineStep
<1>2. ASSUME Left(t, f)', InLedger(t, f)', ledger'[t].records[f].before # Absent
      PROVE  ledger'[t].records[f].held
  <2>1. ASSUME InLedger(t, f), ledger'[t].records[f].before = ledger[t].records[f].before,
               RecoverCompact \/ ledger'[t].records[f] = ledger[t].records[f]
        PROVE  ledger'[t].records[f].held
    <3>1. ledger[t].records[f].held
      <4>1. CASE Left(t, f)
        BY <1>0, <1>2, <2>1, <4>1 DEF Backed
      <4>2. CASE t \in Active
        BY <1>0, <1>2, <2>1, <4>2 DEF DraftHeld
      <4>3. ASSUME NEW s \in Turns, s # t, ResumeDraft(s, t) PROVE FALSE
        BY <1>0, <2>1, <4>3, ResumeKnown DEF InLedger
      <4> QED BY <1>0, <1>2, <4>1, <4>2, <4>3, LeftStep
    <3>2. CASE RecoverCompact
      <4>1. /\ proc.stage = "recovering" /\ proc.todo = <<>> /\ ledger'[t] = proc.keep[t]
            /\ UNCHANGED <<file, writer, origin>>
        BY <1>0, <3>2, RecoverCompactEffect
      <4>2. Visited(t)
        BY <4>1 DEF Visited
      <4>3. Left(t, f)
        BY <1>2, <4>1 DEF Left
      <4>4. proc.keep[t] # Null
        BY <1>2, <4>1 DEF InLedger
      <4>5. proc.keep[t].records[f] = ledger[t].records[f]
        BY <1>0, <4>2, <4>3, <4>4 DEF KeepsChanges
      <4> QED BY <3>1, <4>1, <4>5
    <3> QED BY <2>1, <3>1, <3>2
  <2>2. ASSUME NEW s \in Turns, s # t, ResumeDraft(s, t), InLedger(s, f),
               ledger'[t].records[f] = ledger[s].records[f]
        PROVE  ledger'[t].records[f].held
    <3>1. ledger[s].draft
      BY <1>0, <2>2, ResumeKnown
    <3> QED BY <1>0, <1>2, <2>2, <3>1 DEF DraftHeld
  <2>3. ASSUME NEW rec \in Records, Notes(t, f, rec), ledger'[t].records[f] = rec
        PROVE  ledger'[t].records[f].held
    BY <1>0, <1>2, <2>3, NotesHeld
  <2> QED BY <1>0, <1>2, <2>1, <2>2, <2>3, LedgerSource
<1>3. ASSUME Mine(t, f)', journal'[t].place \in {"active", "draft"} PROVE InJournal(t, f)'
  <2>1. CASE Mine(t, f)
    BY <1>3, <2>1, BackedMemory
  <2>2. CASE t \in Active /\ (Apply(f) \/ UndoWrite(f))
    BY <1>0, <2>2, WrittenKnown DEF InJournal
  <2>3. ASSUME NEW s \in Turns, s # t, ResumeDraft(s, t), Mine(s, f) PROVE InJournal(t, f)'
    <3>1. journal[s].place = "draft" /\ journal'[t].records = journal[s].records
      BY <1>0, <2>3, ResumeEffect
    <3> QED BY <1>0, <2>3, <3>1 DEF Backed, InJournal
  <2> QED BY <1>0, <1>3, <2>1, <2>2, <2>3, MineStep
<1> QED BY <1>1, <1>2, <1>3, BackedAdopted

-----------------------------------------------------------------------------
(* The invariant is preserved: drafts and processes.                       *)

\* A turn becomes a draft or open by its own actions only.
LEMMA FateSource ==
  ASSUME Shape, [Next]_vars, NEW t \in Turns
  PROVE  /\ fate'[t] = "draft" => fate[t] = "draft" \/ Suspend(t)
         /\ fate'[t] = "open" => fate[t] = "open" \/ Begin(t) \/ \E s \in Turns : s # t /\ ResumeDraft(s, t)
         /\ fate'[t] = "dropped" =>
              \/ fate[t] = "dropped"
              \/ RecoverCompact /\ fate[t] = "draft" /\ proc.keep[t] = Null
<1>0. Typed /\ Placed /\ Restoring
  BY DEF Shape
<1>1. ASSUME NEW u \in Turns, Begin(u) PROVE (u = t /\ fate'[t] = "open") \/ fate'[t] = fate[t]
  BY <1>0, <1>1, BeginEffect
<1>2. ASSUME NEW u \in Turns, Commit(u) \/ KeepDraft(u) \/ Rollback(u)
      PROVE  fate'[t] = fate[t] \/ fate'[t] \notin {"open", "draft", "dropped"}
  BY <1>0, <1>2, CommitEffect, KeepDraftEffect, RollbackEffect
<1>3. ASSUME NEW u \in Turns, Suspend(u) PROVE (u = t /\ fate'[t] \notin {"open", "dropped"}) \/ fate'[t] = fate[t]
  BY <1>0, <1>3, SuspendEffect
<1>4. ASSUME NEW s \in Turns, NEW r \in Turns, ResumeDraft(s, r)
      PROVE  \/ fate'[t] = fate[t] \/ (s # t /\ r = t /\ fate'[t] = "open")
             \/ fate'[t] \notin {"open", "draft", "dropped"}
  <2>1. CASE s = r
    BY <1>0, <1>4, <2>1, ResumeOwnEffect
  <2>2. CASE s # r
    BY <1>0, <1>4, <2>2, ResumeEffect
  <2> QED BY <2>1, <2>2
<1>5. ASSUME RevertDone PROVE fate'[t] = fate[t] \/ fate'[t] \notin {"open", "draft", "dropped"}
  BY <1>0, <1>5, RevertDoneEffect
<1>6. ASSUME RecoverCompact
      PROVE  fate'[t] = fate[t] \/ (fate'[t] = "dropped" /\ fate[t] = "draft" /\ proc.keep[t] = Null)
  BY <1>0, <1>6, RecoverCompactEffect
<1> QED BY <1>1, <1>2, <1>3, <1>4, <1>5, <1>6, FateFrame

\* The draft in the ledger stays there.
LEMMA DraftLedger ==
  ASSUME JournalInv, [Next]_vars, NEW t \in Turns, fate[t] = "draft", fate'[t] = "draft"
  PROVE  ledger'[t] # Null /\ ledger'[t].draft /\ ledger'[t].records = ledger[t].records
<1>0. Typed /\ Transaction /\ PreparedKnown /\ Placed /\ Restoring /\ Staged /\ Shape /\ FateKnown
  BY DEF JournalInv, Shape
<1>1. ledger[t] # Null /\ ledger[t].draft
  BY DEF JournalInv, Drafts, Flagged
<1> DEFINE Goal == ledger'[t] # Null /\ ledger'[t].draft /\ ledger'[t].records = ledger[t].records
<1>2. ASSUME ledger'[t] = ledger[t] PROVE Goal
  BY <1>1, <1>2
<1>3. ASSUME NEW u \in Turns, Begin(u) \/ Commit(u) \/ KeepDraft(u) PROVE Goal
  <2>1. u # t
    BY <1>0, <1>3, BeginEffect, CommitEffect, KeepDraftEffect
  <2>2. ledger'[t] = ledger[t]
    BY <1>0, <1>3, <2>1, BeginEffect, BeginLogged, CommitEffect, KeepDraftEffect, CommitLogged
  <2> QED BY <1>2, <2>2
<1>4. ASSUME NEW u \in Turns, Suspend(u) PROVE Goal
  <2>1. u # t
    BY <1>0, <1>4, SuspendEffect DEF Placed
  <2>2. ledger'[t] = ledger[t]
    BY <1>0, <1>4, <2>1, SuspendEffect, DraftLogged, SettledLogged
  <2> QED BY <1>2, <2>2
<1>5. ASSUME NEW s \in Turns, NEW r \in Turns, ResumeDraft(s, r) PROVE Goal
  <2>1. CASE s = r
    BY <1>0, <1>2, <1>5, <2>1, ResumeOwnEffect
  <2>2. CASE s # r
    <3>1. LogResume(s, r) /\ ledger[s] # Null /\ ledger[r] = Null
      BY <1>0, <1>5, <2>2, ResumeKnown
    <3>2. t # s /\ t # r
      BY <1>0, <1>5, <2>2, ResumeEffect
    <3>3. ledger'[t] = ledger[t]
      BY <1>0, <2>2, <3>1, <3>2, ResumeLogged
    <3> QED BY <1>2, <3>3
  <2> QED BY <2>1, <2>2
<1>6. ASSUME NEW f \in Files, Prepare(f) \/ Record(f) \/ Amend(f) PROVE Goal
  <2>1. /\ Turn \in Turns /\ ledger[Turn] # Null /\ fate[Turn] = "open"
        /\ UNCHANGED ledger \/ \E rec \in Records : LogRecord(Turn, f, rec)
    BY <1>0, <1>6, RecordMoves DEF Placed
  <2>2. ledger'[t] = ledger[t]
    BY <1>0, <2>1, LedgerSet
  <2> QED BY <1>2, <2>2
<1>7. ASSUME RollbackDone \/ RevertSettled PROVE Goal
  <2>1. /\ task.turn \in Turns /\ fate[task.turn] = "undone"
        /\ UNCHANGED ledger \/ LogSettled(task.turn)
    BY <1>0, <1>7, RollbackDoneEffect DEF RevertSettled, Restoring, Placed
  <2>2. ledger'[t] = ledger[t]
    BY <1>0, <2>1, SettledLogged
  <2> QED BY <1>2, <2>2
<1>8. ASSUME RecoverCompact PROVE Goal
  <2>1. /\ proc.stage = "recovering" /\ proc.todo = <<>> /\ ledger'[t] = proc.keep[t]
        /\ proc.keep[t] # Null
    BY <1>0, <1>8, RecoverCompactEffect
  <2>3. proc.keep[t] = ledger[t]
    BY <1>1, <2>1 DEF JournalInv, Keeping
  <2> QED BY <1>2, <2>1, <2>3
<1>9. ASSUME Closed PROVE Goal
  <2>1. journal[t].place # "committed"
    BY <1>0 DEF Placed
  <2> QED BY <1>0, <1>1, <1>9, <2>1, ClosedEffect
<1>10. ASSUME UNCHANGED ledger PROVE Goal
  BY <1>2, <1>10
<1> HIDE DEF Goal
<1>11. Goal
  BY <1>3, <1>4, <1>5, <1>6, <1>7, <1>8, <1>9, <1>10, LedgerFrame
<1> QED BY <1>11 DEF Goal

\* A manager that works keeps the journals of turns that may go on.
LEMMA PlaceStays ==
  ASSUME Shape, Adopted, [Next]_vars, NEW t \in Turns, fate'[t] = fate[t], fate[t] \in {"open", "draft"},
         journal[t].place \in {"active", "draft"}, proc'.stage \in {"ready", "closing"}
  PROVE  /\ journal'[t].place \in {"active", "draft"}
         /\ fate[t] = "draft" => journal'[t].place = journal[t].place
<1>0. Typed /\ Transaction /\ PreparedKnown /\ Placed /\ Restoring /\ Staged
  BY DEF Shape
<1> DEFINE Goal == /\ journal'[t].place \in {"active", "draft"}
                   /\ fate[t] = "draft" => journal'[t].place = journal[t].place
<1>1. ASSUME journal'[t].place = journal[t].place PROVE Goal
  BY <1>1
<1>2. ASSUME NEW u \in Turns, Begin(u) PROVE Goal
  <2>1. u # t
    BY <1>0, <1>2, BeginEffect DEF Active, In
  <2> QED BY <1>0, <1>1, <1>2, <2>1, BeginEffect
<1>3. ASSUME NEW u \in Turns, Commit(u) \/ KeepDraft(u) \/ Rollback(u) PROVE Goal
  <2>1. u # t
    BY <1>0, <1>3, CommitEffect, KeepDraftEffect, RollbackEffect
  <2> QED BY <1>0, <1>1, <1>3, <2>1, CommitEffect, KeepDraftEffect, RollbackEffect
<1>4. ASSUME NEW u \in Turns, Suspend(u) PROVE Goal
  <2>1. u # t
    BY <1>0, <1>4, SuspendEffect DEF Placed
  <2> QED BY <1>0, <1>1, <1>4, <2>1, SuspendEffect
<1>5. ASSUME NEW s \in Turns, NEW r \in Turns, ResumeDraft(s, r) PROVE Goal
  <2>1. CASE s = r
    BY <1>0, <1>1, <1>5, <2>1, ResumeOwnEffect
  <2>2. CASE s # r
    <3>1. t # s /\ t # r
      BY <1>0, <1>5, <2>2, ResumeEffect
    <3> QED BY <1>0, <1>1, <1>5, <2>2, <3>1, ResumeEffect
  <2> QED BY <2>1, <2>2
<1>6. ASSUME NEW f \in Files, Restore(f) PROVE Goal
  BY <1>0, <1>1, <1>6, RestoreEffect
<1>7. ASSUME NEW f \in Files, Prepare(f) \/ Record(f) \/ Amend(f) PROVE Goal
  BY <1>0, <1>1, <1>7, RecordMoves, JournalSet
<1>8. ASSUME RollbackDone PROVE Goal
  <2>1. task.turn # t
    BY <1>0, <1>8, RollbackDoneEffect DEF Restoring
  <2> QED BY <1>0, <1>1, <1>8, <2>1, RollbackDoneEffect
<1>9. ASSUME RevertDone PROVE Goal
  BY <1>0, <1>1, <1>9, RevertDoneEffect
<1>10. ASSUME NEW u \in Turns, RecoverDraft(u) \/ RecoverTurn(u) PROVE FALSE
  BY <1>0, <1>10, RecoverEffect, RecoverTurnEffect
<1>11. ASSUME RecoverDone \/ Closed \/ Crash PROVE FALSE
  BY <1>0, <1>11, RecoverDoneEffect, ClosedEffect, CrashEffect
<1>12. ASSUME UNCHANGED journal PROVE Goal
  BY <1>1, <1>12
<1> HIDE DEF Goal
<1>13. Goal
  BY <1>2, <1>3, <1>4, <1>5, <1>6, <1>7, <1>8, <1>9, <1>10, <1>11, <1>12, JournalFrame
<1> QED BY <1>13 DEF Goal

\* The stage of a manager that works.
LEMMA StageStep ==
  ASSUME Shape, Adopted, [Next]_vars, proc'.stage \in {"ready", "closing"}
  PROVE  proc.stage \in {"ready", "closing"} \/ RecoverCompact
<1>0. Typed /\ Ordered /\ Restoring /\ Staged
  BY DEF Shape
<1>1. ASSUME NEW t \in Turns, RecoverDrop(t) \/ RecoverSkip(t) \/ RecoverDraft(t) PROVE FALSE
  BY <1>0, <1>1, RecoverEffect
<1>2. ASSUME NEW replaces \in BOOLEAN, Open(replaces) PROVE FALSE
  BY <1>0, <1>2, OpenEffect
<1>3. ASSUME RecoverDone \/ Closed \/ Crash PROVE FALSE
  BY <1>0, <1>3, RecoverDoneEffect, ClosedEffect, CrashEffect
<1> QED BY <1>1, <1>2, <1>3, ProcFrame DEF Close, Ready

\* Of a turn that has been a draft the ledger is not told more.
LEMMA UntoldStays ==
  ASSUME Shape, [Next]_vars, NEW t \in Turns, fate[t] \in {"draft", "dropped"},
         fate'[t] \in {"draft", "dropped"}
  PROVE  untold[t] \subseteq untold'[t]
<1>0. Typed /\ Transaction /\ PreparedKnown /\ Placed
  BY DEF Shape
<1>1. ASSUME NEW u \in Turns, Begin(u) PROVE untold'[t] = untold[t]
  BY <1>0, <1>1, BeginEffect
<1>2. ASSUME NEW s \in Turns, NEW r \in Turns, ResumeDraft(s, r) PROVE untold'[t] = untold[t]
  <2>1. CASE s = r
    BY <1>0, <1>2, <2>1, ResumeOwnEffect
  <2>2. CASE s # r
    BY <1>0, <1>2, <2>2, ResumeEffect
  <2> QED BY <2>1, <2>2
<1>3. ASSUME NEW f \in Files, Record(f) \/ Amend(f) PROVE untold[t] \subseteq untold'[t]
  <2>1. Turn \in Turns /\ fate[Turn] = "open" /\ Turn # t
    BY <1>0, <1>3, RecordMoves DEF Placed
  <2>2. \/ untold' = untold
        \/ untold' = [untold EXCEPT ![Turn] = @ \ {f}]
        \/ untold' = Missed({f})
    BY <1>0, <1>3, RecordMoves DEF Takes, Tells, Hides
  <2>3. untold \in [Turns -> SUBSET Files]
    BY <1>0 DEF Typed
  <2>4. untold' = Missed({f}) => untold[t] \subseteq untold'[t]
    BY <1>0, <2>3, MissedFacts
  <2> QED BY <2>1, <2>2, <2>3, <2>4
<1>4. ASSUME Crash PROVE untold[t] \subseteq untold'[t]
  <2>1. untold' = Missed(tx.done) /\ tx.done \in SUBSET Files /\ untold[t] \in SUBSET Files
    BY <1>0, <1>4, CrashEffect DEF Typed, Transactions
  <2> QED BY <1>0, <2>1, MissedFacts
<1> QED BY <1>1, <1>2, <1>3, <1>4, UntoldFrame

\* Drafts stay where they belong.
LEMMA DraftsStep == JournalInv /\ [Next]_vars => Drafts'
<1> SUFFICES ASSUME JournalInv, [Next]_vars, NEW t \in Turns
             PROVE  /\ fate'[t] = "draft" =>
                         Flagged(t)' /\ (untold'[t] = {} => Changed(ledger'[t].records))
                    /\ fate'[t] = "dropped" => untold'[t] # {}
                    /\ proc'.stage \in {"ready", "closing"} =>
                         /\ fate'[t] = "draft" => journal'[t].place = "draft"
                         /\ fate'[t] = "open" /\ Flagged(t)' => journal'[t].place \in {"active", "draft"}
  BY DEF Drafts, Changed, Paths
<1>0. Typed /\ Transaction /\ Placed /\ Restoring /\ Staged /\ Shape /\ FateKnown /\ Adopted /\ Keeping
  BY DEF JournalInv, Shape
<1>1. ASSUME Suspend(t), fate'[t] = "draft"
      PROVE  /\ Flagged(t)' /\ (untold'[t] = {} => Changed(ledger'[t].records))
             /\ journal'[t].place = "draft"
  <2>1. /\ journal[t].place = "active" /\ tx.pc = "idle" /\ Changed(journal[t].records) /\ LogDraft(t)
        /\ journal'[t].place = "draft" /\ UNCHANGED untold
    BY <1>0, <1>1, SuspendEffect DEF Idle, Suspend
  <2>2. ledger[t] # Null /\ SyncedAt(t) /\ Settling(t) = {}
    BY <1>0, <2>1, SettlingIdle DEF Placed, JournalInv, Synced
  <2>3. ledger'[t] # Null /\ ledger'[t].records = ledger[t].records /\ ledger'[t].draft
    BY <1>0, <2>1, <2>2, DraftLogged
  <2>4. PICK f \in Files : InJournal(t, f) /\ DataOf(journal[t].records[f].before) # DataOf(journal[t].records[f].after)
    BY <2>1 DEF Changed, Paths, InJournal
  <2>5. /\ ledger[t].records[f] # Null
        /\ ledger[t].records[f].before = journal[t].records[f].before
        /\ untold[t] = {} => ledger[t].records[f].after = journal[t].records[f].after
    BY <2>1, <2>2, <2>4 DEF SyncedAt, InLedger
  <2>6. untold[t] = {} => Changed(ledger[t].records)
    BY <2>4, <2>5 DEF Changed, Paths
  <2> QED BY <2>1, <2>3, <2>6 DEF Flagged
<1>2. ASSUME fate[t] = "draft", fate'[t] = "draft"
      PROVE  /\ Flagged(t)' /\ (untold'[t] = {} => Changed(ledger'[t].records))
             /\ proc'.stage \in {"ready", "closing"} => journal'[t].place = "draft"
  <2>1. ledger'[t] # Null /\ ledger'[t].draft /\ ledger'[t].records = ledger[t].records
    BY <1>2, DraftLedger
  <2>2. untold'[t] = {} => Changed(ledger[t].records)
    BY <1>0, <1>2, UntoldStays DEF JournalInv, Drafts
  <2>3. ASSUME proc'.stage \in {"ready", "closing"} PROVE journal'[t].place = "draft"
    <3>1. CASE proc.stage \in {"ready", "closing"}
      <4>1. journal[t].place = "draft"
        BY <1>2, <3>1 DEF JournalInv, Drafts
      <4> QED BY <1>0, <1>2, <2>3, <4>1, PlaceStays
    <3>2. CASE RecoverCompact
      <4>1. /\ proc.stage = "recovering" /\ proc.todo = <<>> /\ UNCHANGED journal
            /\ proc.keep[t] # Null
        BY <1>0, <1>2, <3>2, RecoverCompactEffect
      <4>2. Visited(t) /\ Flagged(t)
        BY <1>2, <4>1 DEF Visited, JournalInv, Drafts
      <4>3. journal[t].place = "draft"
        BY <4>1, <4>2 DEF JournalInv, KeepsChanges
      <4> QED BY <4>1, <4>3
    <3> QED BY <1>0, <2>3, <3>1, <3>2, StageStep
  <2> QED BY <2>1, <2>2, <2>3 DEF Flagged
<1>3. ASSUME fate'[t] = "open", Flagged(t)', proc'.stage \in {"ready", "closing"}
      PROVE  journal'[t].place \in {"active", "draft"}
  <2>1. CASE Begin(t)
    BY <1>0, <2>1, BeginEffect
  <2>2. CASE \E s \in Turns : s # t /\ ResumeDraft(s, t)
    BY <1>0, <2>2, ResumeEffect
  <2>3. CASE fate[t] = "open" /\ (Flagged(t) \/ t \in Active)
    <3>1. CASE proc.stage \in {"ready", "closing"}
      <4>1. journal[t].place \in {"active", "draft"}
        BY <2>3, <3>1 DEF JournalInv, Drafts, Active, In
      <4> QED BY <1>0, <1>3, <2>3, <4>1, PlaceStays
    <3>2. CASE RecoverCompact
      <4>1. /\ proc.stage = "recovering" /\ proc.todo = <<>> /\ UNCHANGED journal
            /\ ledger'[t] = proc.keep[t]
        BY <1>0, <3>2, RecoverCompactEffect
      <4>2. Visited(t) /\ proc.keep[t] # Null /\ Flagged(t)
        BY <1>0, <1>3, <4>1 DEF Visited, Keeping, Same, Flagged
      <4>3. journal[t].place = "draft"
        BY <4>2 DEF JournalInv, KeepsChanges
      <4> QED BY <4>1, <4>3
    <3> QED BY <1>0, <1>3, <3>1, <3>2, StageStep
  <2>4. \/ fate[t] = "open" /\ (Flagged(t) \/ t \in Active)
        \/ Begin(t) \/ \E s \in Turns : s # t /\ ResumeDraft(s, t)
    BY <1>0, <1>3, FateSource, WorkingSource
  <2> QED BY <2>1, <2>2, <2>3, <2>4
<1>4. fate'[t] = "draft" => fate[t] = "draft" \/ Suspend(t)
  BY <1>0, FateSource
<1>5. ASSUME fate'[t] = "dropped" PROVE untold'[t] # {}
  <2>1. CASE fate[t] = "dropped"
    <3>1. untold[t] # {}
      BY <2>1 DEF JournalInv, Drafts
    <3> QED BY <1>0, <1>5, <2>1, <3>1, UntoldStays
  <2>2. CASE RecoverCompact /\ fate[t] = "draft" /\ proc.keep[t] = Null
    <3>1. proc.stage = "recovering" /\ proc.todo = <<>> /\ UNCHANGED untold
      BY <1>0, <2>2, RecoverCompactEffect
    <3>2. Visited(t)
      BY <3>1 DEF Visited
    <3> QED BY <2>2, <3>1, <3>2 DEF JournalInv, KeepsChanges
  <2> QED BY <1>0, <1>5, <2>1, <2>2, FateSource
<1> QED BY <1>1, <1>2, <1>3, <1>4, <1>5

\* Who logged an entry.
LEMMA OwnerSource ==
  ASSUME Shape, FateKnown, Keeping, [Next]_vars, ~Closed, NEW t \in Turns, ledger'[t] # Null
  PROVE  \/ ledger[t] # Null /\ ledger'[t].pid = ledger[t].pid /\ ledger'[t].owner = ledger[t].owner
         \/ /\ Begin(t) \/ \E s \in Turns : s # t /\ ResumeDraft(s, t)
            /\ ledger'[t].pid = proc.pid /\ ledger'[t].owner = proc.owner
<1>0. Typed /\ Transaction /\ PreparedKnown /\ Placed /\ Restoring
  BY DEF Shape
<1> DEFINE Goal == ledger[t] # Null /\ ledger'[t].pid = ledger[t].pid /\ ledger'[t].owner = ledger[t].owner
<1>1. ASSUME ledger'[t] = ledger[t] PROVE Goal
  BY <1>1
<1>2. ASSUME NEW u \in Turns, Begin(u)
      PROVE  Goal \/ (u = t /\ ledger'[t].pid = proc.pid /\ ledger'[t].owner = proc.owner)
  BY <1>0, <1>1, <1>2, BeginEffect, BeginLogged
<1>3. ASSUME NEW u \in Turns, Commit(u) \/ KeepDraft(u) \/ Suspend(u) PROVE Goal
  <2>1. LogCommit(u) \/ LogDraft(u) \/ LogSettled(u)
    BY <1>0, <1>3, CommitEffect, KeepDraftEffect, SuspendEffect
  <2> QED BY <1>0, <2>1, CommitLogged, DraftLogged, SettledLogged
<1>4. ASSUME NEW s \in Turns, NEW r \in Turns, ResumeDraft(s, r)
      PROVE  Goal \/ (s # t /\ r = t /\ ledger'[t].pid = proc.pid /\ ledger'[t].owner = proc.owner)
  <2>1. CASE s = r
    BY <1>0, <1>1, <1>4, <2>1, ResumeOwnEffect
  <2>2. CASE s # r
    <3>1. LogResume(s, r) /\ ledger[s] # Null /\ ledger[r] = Null
      BY <1>4, <2>2, ResumeKnown
    <3>2. /\ \A u \in Turns \ {s, r} : ledger'[u] = ledger[u]
          /\ ledger'[s] = Null /\ ledger'[r].owner = proc.owner /\ ledger'[r].pid = proc.pid
      BY <1>0, <2>2, <3>1, ResumeLogged
    <3> QED BY <1>1, <2>2, <3>2
  <2> QED BY <2>1, <2>2
<1>5. ASSUME NEW f \in Files, Prepare(f) \/ Record(f) \/ Amend(f) PROVE Goal
  <2>1. /\ Turn \in Turns /\ ledger[Turn] # Null
        /\ UNCHANGED ledger \/ \E rec \in Records : LogRecord(Turn, f, rec)
    BY <1>0, <1>5, RecordMoves
  <2> QED BY <1>0, <1>1, <2>1, LedgerSet
<1>6. ASSUME RollbackDone \/ RevertSettled PROVE Goal
  <2>1. task.turn \in Turns /\ (UNCHANGED ledger \/ LogSettled(task.turn))
    BY <1>0, <1>6, RollbackDoneEffect DEF RevertSettled, Restoring
  <2> QED BY <1>0, <1>1, <2>1, SettledLogged
<1>7. ASSUME RecoverCompact PROVE Goal
  BY <1>0, <1>7, RecoverCompactEffect DEF Keeping, Same
<1>8. ASSUME UNCHANGED ledger PROVE Goal
  BY <1>1, <1>8
<1> HIDE DEF Goal
<1>9. \/ Goal
      \/ /\ Begin(t) \/ \E s \in Turns : s # t /\ ResumeDraft(s, t)
         /\ ledger'[t].pid = proc.pid /\ ledger'[t].owner = proc.owner
  BY <1>2, <1>3, <1>4, <1>5, <1>6, <1>7, <1>8, LedgerFrame
<1> QED BY <1>9 DEF Goal

\* What is known of the process that logged an entry.
OwnedBy(t) ==
  /\ ledger[t].pid <= proc.pid
  /\ Flagged(t) /\ proc.stage = "closed" /\ proc.clean => ledger[t].pid # proc.pid
  /\ Flagged(t) /\ proc.stage = "recovering" => ledger[t].pid # proc.pid
  /\ (Flagged(t) \/ t \in Active) /\ proc.stage \in {"ready", "closing"} /\ ledger[t].pid = proc.pid =>
       ledger[t].owner = proc.owner

\* No draft looks like one of a living process.
LEMMA OwnersStep == JournalInv /\ [Next]_vars => Owners'
<1> SUFFICES ASSUME JournalInv, [Next]_vars
             PROVE  /\ proc'.pid \in 1..proc'.owner
                    /\ \A t \in Turns : ledger'[t] # Null => OwnedBy(t)'
  BY DEF Owners, OwnedBy
<1>0. Typed /\ Ordered /\ Placed /\ Restoring /\ Staged /\ Shape /\ FateKnown /\ Adopted /\ Keeping
  BY DEF JournalInv, Shape
<1>1. /\ proc.pid \in 1..proc.owner /\ proc.owner \in Nat /\ proc.pid \in Nat
      /\ \A t \in Turns : ledger[t] # Null => ledger[t].pid \in Nat
      /\ \A t \in Turns : ledger[t] # Null => OwnedBy(t)
  <2>1. proc.owner \in Nat /\ proc.pid \in Nat
    BY <1>0 DEF Typed, Processes
  <2>2. \A t \in Turns : ledger[t] # Null => ledger[t].pid \in Nat
    BY <1>0, EntryFacts DEF Entries
  <2> QED BY <2>1, <2>2 DEF JournalInv, Owners, OwnedBy
<1>2. \A t \in Turns : Flagged(t)' \/ t \in Active' =>
        Flagged(t) \/ t \in Active \/ Begin(t) \/ \E s \in Turns : s # t /\ ResumeDraft(s, t)
  BY <1>0, WorkingSource
<1>3. \A t \in Turns, s \in Turns : Begin(t) \/ ResumeDraft(s, t) => proc.stage = "ready"
  BY DEF Begin, ResumeDraft, Ready
<1>4. proc.stage \in {"closed", "recovering"} => Active = {}
  BY <1>0 DEF Staged, Active, In
<1>5. ASSUME proc'.stage = proc.stage, proc'.pid = proc.pid, proc'.owner = proc.owner, proc'.clean = proc.clean,
             ~Closed, NEW t \in Turns, ledger'[t] # Null
      PROVE  OwnedBy(t)'
  <2>1. \/ ledger[t] # Null /\ ledger'[t].pid = ledger[t].pid /\ ledger'[t].owner = ledger[t].owner
        \/ /\ Begin(t) \/ \E s \in Turns : s # t /\ ResumeDraft(s, t)
           /\ ledger'[t].pid = proc.pid /\ ledger'[t].owner = proc.owner
    BY <1>0, <1>5, OwnerSource
  <2>2. CASE ledger[t] # Null /\ ledger'[t].pid = ledger[t].pid /\ ledger'[t].owner = ledger[t].owner
    <3>1. CASE Begin(t)
      BY <1>0, <1>1, <1>3, <1>5, <3>1, BeginEffect, BeginLogged DEF OwnedBy
    <3>2. CASE \E s \in Turns : s # t /\ ResumeDraft(s, t)
      BY <1>0, <2>2, <3>2, ResumeKnown
    <3>3. CASE ~Begin(t) /\ ~\E s \in Turns : s # t /\ ResumeDraft(s, t)
      BY <1>1, <1>2, <1>4, <1>5, <2>2, <3>3 DEF OwnedBy
    <3> QED BY <3>1, <3>2, <3>3
  <2>3. CASE /\ Begin(t) \/ \E s \in Turns : s # t /\ ResumeDraft(s, t)
             /\ ledger'[t].pid = proc.pid /\ ledger'[t].owner = proc.owner
    BY <1>1, <1>3, <1>5, <2>3 DEF OwnedBy
  <2> QED BY <2>1, <2>2, <2>3
<1>6. ASSUME UNCHANGED proc PROVE /\ proc'.pid \in 1..proc'.owner
                                  /\ \A t \in Turns : ledger'[t] # Null => OwnedBy(t)'
  <2>1. ~Closed
    BY <1>0, <1>6, ClosedEffect
  <2> QED BY <1>1, <1>5, <1>6, <2>1
<1>7. ASSUME NEW t \in Turns, RecoverDrop(t) \/ RecoverSkip(t) \/ RecoverDraft(t)
      PROVE  /\ proc'.pid \in 1..proc'.owner
             /\ \A u \in Turns : ledger'[u] # Null => OwnedBy(u)'
  <2>1. /\ proc'.stage = proc.stage /\ proc'.pid = proc.pid /\ proc'.owner = proc.owner
        /\ proc'.clean = proc.clean /\ proc.stage = "recovering"
    BY <1>0, <1>7, RecoverEffect
  <2>2. ~Closed
    BY <2>1 DEF Closed
  <2> QED BY <1>1, <1>5, <2>1, <2>2
<1>8. ASSUME RecoverDone PROVE /\ proc'.pid \in 1..proc'.owner
                               /\ \A u \in Turns : ledger'[u] # Null => OwnedBy(u)'
  <2>1. /\ proc'.stage = proc.stage /\ proc'.pid = proc.pid /\ proc'.owner = proc.owner
        /\ proc'.clean = proc.clean /\ proc.stage = "recovering"
    BY <1>0, <1>8, RecoverDoneEffect
  <2>2. ~Closed
    BY <2>1 DEF Closed
  <2> QED BY <1>1, <1>5, <2>1, <2>2
<1>9. ASSUME NEW replaces \in BOOLEAN, Open(replaces)
      PROVE  /\ proc'.pid \in 1..proc'.owner
             /\ \A t \in Turns : ledger'[t] # Null => OwnedBy(t)'
  <2>1. /\ proc.stage = "closed" /\ (replaces => proc.clean) /\ proc'.stage = "recovering"
        /\ proc'.owner = proc.owner + 1 /\ proc'.pid = IF replaces THEN proc.pid ELSE proc.owner + 1
        /\ UNCHANGED <<ledger, journal>>
    BY <1>0, <1>9, OpenEffect
  <2>2. proc'.pid \in 1..proc'.owner
    BY <1>1, <2>1
  <2>3. ASSUME NEW t \in Turns, ledger[t] # Null PROVE OwnedBy(t)'
    <3>1. /\ ledger[t].pid <= proc.pid /\ ledger[t].pid \in Nat
          /\ Flagged(t) /\ proc.clean => ledger[t].pid # proc.pid
      BY <1>1, <2>1, <2>3 DEF OwnedBy
    <3>2. Flagged(t)' <=> Flagged(t)
      BY <2>1 DEF Flagged
    <3>3. ledger[t].pid <= proc'.pid /\ (Flagged(t) => ledger[t].pid # proc'.pid)
      BY <1>1, <2>1, <3>1
    <3> QED BY <2>1, <3>2, <3>3 DEF OwnedBy
  <2> QED BY <2>1, <2>2, <2>3
<1>10. ASSUME RecoverCompact PROVE /\ proc'.pid \in 1..proc'.owner
                                   /\ \A t \in Turns : ledger'[t] # Null => OwnedBy(t)'
  <2>1. /\ proc.stage = "recovering" /\ proc'.stage = "ready" /\ proc'.owner = proc.owner
        /\ proc'.pid = proc.pid /\ UNCHANGED journal
        /\ \A t \in Turns : ledger'[t] = proc.keep[t]
    BY <1>0, <1>10, RecoverCompactEffect
  <2>2. \A t \in Turns : t \notin Active'
    BY <1>4, <2>1 DEF Active, In
  <2>3. ASSUME NEW t \in Turns, ledger'[t] # Null PROVE OwnedBy(t)'
    <3>1. ledger[t] # Null /\ ledger'[t].pid = ledger[t].pid /\ (Flagged(t)' => Flagged(t))
      BY <1>0, <2>1, <2>3 DEF Keeping, Same, Flagged
    <3>2. ledger[t].pid <= proc.pid /\ (Flagged(t) => ledger[t].pid # proc.pid)
      BY <1>1, <2>1, <3>1 DEF OwnedBy
    <3> QED BY <2>1, <2>2, <3>1, <3>2 DEF OwnedBy
  <2> QED BY <1>1, <2>1, <2>3
<1>11. ASSUME Close PROVE /\ proc'.pid \in 1..proc'.owner
                          /\ \A t \in Turns : ledger'[t] # Null => OwnedBy(t)'
  <2>1. /\ proc.stage = "ready" /\ proc'.stage = "closing" /\ proc'.owner = proc.owner
        /\ proc'.pid = proc.pid /\ UNCHANGED <<ledger, journal>>
    BY <1>0, <1>11, CloseEffect DEF Ready
  <2>2. \A t \in Turns : (Flagged(t)' <=> Flagged(t)) /\ (t \in Active' <=> t \in Active)
    BY <2>1 DEF Flagged, Active, In
  <2> QED BY <1>1, <2>1, <2>2 DEF OwnedBy
<1>12. ASSUME Closed PROVE /\ proc'.pid \in 1..proc'.owner
                           /\ \A t \in Turns : ledger'[t] # Null => OwnedBy(t)'
  <2>1. /\ proc.stage = "closing" /\ proc'.stage = "closed" /\ proc'.owner = proc.owner
        /\ proc'.pid = proc.pid
    BY <1>0, <1>12, ClosedEffect
  <2>2. ASSUME NEW t \in Turns, ledger'[t] # Null PROVE OwnedBy(t)'
    <3>1. /\ ledger[t] # Null /\ ledger'[t].draft = ledger[t].draft
          /\ IF ledger[t].draft /\ ledger[t].owner = proc.owner
             THEN ledger'[t].pid = 0 ELSE ledger'[t] = ledger[t]
      BY <1>0, <1>12, <2>2, ClosedEffect
    <3>2. /\ ledger[t].pid <= proc.pid
          /\ ledger[t].draft /\ ledger[t].pid = proc.pid => ledger[t].owner = proc.owner
      BY <1>1, <2>1, <3>1 DEF OwnedBy, Flagged
    <3>3. ledger'[t].pid <= proc.pid /\ (ledger'[t].draft => ledger'[t].pid # proc.pid)
      BY <1>1, <3>1, <3>2
    <3> QED BY <2>1, <3>3 DEF OwnedBy, Flagged
  <2> QED BY <1>1, <2>1, <2>2
<1>13. ASSUME Crash PROVE /\ proc'.pid \in 1..proc'.owner
                          /\ \A t \in Turns : ledger'[t] # Null => OwnedBy(t)'
  <2>1. /\ proc'.stage = "closed" /\ proc'.owner = proc.owner /\ proc'.pid = proc.pid /\ ~proc'.clean
        /\ UNCHANGED ledger
    BY <1>0, <1>13, CrashEffect DEF Staged
  <2> QED BY <1>1, <2>1 DEF OwnedBy
<1> QED BY <1>6, <1>7, <1>8, <1>9, <1>10, <1>11, <1>12, <1>13, ProcFrame

\* A path with another turn's change had one before, unless the transaction just wrote it.
LEMMA ForeignSource ==
  ASSUME Shape, FateKnown, OneLive, [Next]_vars, NEW t \in Turns, NEW f \in Files, writer'[f] \notin {t, Null}
  PROVE  \/ /\ file'[f] = file[f]
            /\ \/ writer[f] \notin {t, Null}
               \/ \E r \in Turns : r # t /\ ResumeDraft(t, r)
            /\ \A s \in Turns : s # t /\ ResumeDraft(s, t) => writer[f] \notin {s, Null}
         \/ /\ Turn # t /\ Turn \in Active /\ file'[f].version = file[f].version + 1
            /\ UNCHANGED <<ledger, journal, fate>>
<1>0. Typed /\ Transaction /\ PreparedKnown /\ DoneOwn /\ Placed /\ Restoring
  BY DEF Shape
<1>1. t # Null
  BY Apartness
<1> DEFINE Same1 == /\ file'[f] = file[f]
                    /\ \/ writer[f] \notin {t, Null}
                       \/ \E r \in Turns : r # t /\ ResumeDraft(t, r)
                    /\ \A s \in Turns : s # t /\ ResumeDraft(s, t) => writer[f] \notin {s, Null}
<1>2. ASSUME file'[f] = file[f], writer'[f] \in {Null, writer[f]} PROVE Same1
  <2>1. writer[f] = writer'[f]
    BY <1>2
  <2>2. ASSUME NEW s \in Turns, s # t, ResumeDraft(s, t) PROVE writer[f] # s
    <3>1. writer'[f] = IF writer[f] = s THEN t ELSE writer[f]
      BY <1>0, <2>2, ResumeEffect
    <3> QED BY <3>1
  <2> QED BY <1>2, <2>1, <2>2
<1>3. ASSUME NEW u \in Turns, Begin(u) PROVE Same1
  BY <1>0, <1>2, <1>3, BeginEffect
<1>4. ASSUME NEW s \in Turns, NEW r \in Turns, ResumeDraft(s, r) PROVE Same1
  <2>1. CASE s = r
    BY <1>0, <1>2, <1>4, <2>1, ResumeOwnEffect
  <2>2. CASE s # r
    <3>1. UNCHANGED file /\ writer'[f] = IF writer[f] = s THEN r ELSE writer[f]
      BY <1>0, <1>4, <2>2, ResumeEffect
    <3>2. CASE writer[f] = s
      <4>1. r # t
        BY <3>1, <3>2
      <4>2. \A v \in Turns : v # t => ~ResumeDraft(v, t)
        <5> SUFFICES ASSUME NEW v \in Turns, v # t, ResumeDraft(v, t) PROVE FALSE
          OBVIOUS
        <5>1. journal'[t].place = "active" /\ journal[t].place # "active"
          BY <1>0, ResumeEffect DEF Active, In
        <5>2. \A w \in Turns \ {s, r} : journal'[w] = journal[w]
          BY <1>0, <1>4, <2>2, ResumeEffect
        <5>3. journal'[s].place = "none"
          BY <1>0, <1>4, <2>2, ResumeEffect
        <5> QED BY <4>1, <5>1, <5>2, <5>3
      <4>3. writer[f] # Null
        BY <3>2, Apartness
      <4>4. writer[f] = t => s = t
        BY <3>2
      <4> QED BY <1>4, <3>1, <4>1, <4>2, <4>3, <4>4
    <3>3. CASE writer[f] # s
      BY <1>2, <3>1, <3>3
    <3> QED BY <3>2, <3>3
  <2> QED BY <2>1, <2>2
<1>5. ASSUME NEW g \in Files, Restore(g) PROVE Same1
  <2>1. /\ writer'[f] = IF f = g THEN Null ELSE writer[f]
        /\ f # g => file'[f] = file[f]
    BY <1>0, <1>5, RestoreEffect
  <2> QED BY <1>2, <2>1
<1>6. ASSUME NEW g \in Files, NEW data \in UserData, Edit(g, data) PROVE Same1
  <2>1. /\ writer'[f] = IF f = g THEN Null ELSE writer[f]
        /\ f # g => file'[f] = file[f]
    BY <1>0, <1>6 DEF Edit, Typed
  <2> QED BY <1>2, <2>1
<1>7. ASSUME Crash PROVE Same1
  <2>1. writer'[f] \in {Null, writer[f]} /\ UNCHANGED file
    BY <1>0, <1>7, CrashEffect
  <2> QED BY <1>2, <2>1
<1>8. ASSUME NEW g \in Files, Apply(g)
      PROVE  Same1 \/ (Turn # t /\ Turn \in Active /\ file'[f].version = file[f].version + 1)
  <2>1. \/ UNCHANGED <<file, writer>>
        \/ /\ writer'[g] = Turn /\ file'[g].version = file[g].version + 1
           /\ \A h \in Files : h # g => file'[h] = file[h] /\ writer'[h] = writer[h]
    BY <1>0, <1>8, ApplyEffect
  <2>2. Turn \in Active
    BY <1>0, <1>8, ApplyEffect, TurnFacts
  <2>3. CASE UNCHANGED <<file, writer>>
    BY <1>2, <2>3
  <2>4. CASE f # g /\ file'[f] = file[f] /\ writer'[f] = writer[f]
    BY <1>2, <2>4
  <2> HIDE DEF Same1
  <2> QED BY <2>1, <2>2, <2>3, <2>4
<1>9. ASSUME NEW g \in Files, UndoWrite(g)
      PROVE  Same1 \/ (Turn # t /\ Turn \in Active /\ file'[f].version = file[f].version + 1)
  <2>1. /\ UNCHANGED writer /\ tx.pc = "undo" /\ g \in tx.todo /\ Active # {}
        /\ \A h \in Files : h # g => file'[h] = file[h]
        /\ file' = file \/ file'[g].version = file[g].version + 1
    BY <1>0, <1>9, UndoWriteEffect
  <2>2. g \in tx.done
    BY <1>0, <2>1 DEF Transaction
  <2>3. Turn \in Active /\ writer[g] \in {Turn, Null}
    BY <1>0, <2>1, <2>2, TurnFacts DEF DoneOwn
  <2>4. CASE file'[f] = file[f]
    BY <1>2, <2>1, <2>4
  <2>5. CASE file'[f] # file[f]
    BY <2>1, <2>3, <2>5
  <2> HIDE DEF Same1
  <2> QED BY <2>4, <2>5
<1>10. ASSUME UNCHANGED <<file, writer>> PROVE Same1
  BY <1>2, <1>10
<1> HIDE DEF Same1
<1>11. \/ Same1
       \/ /\ Turn # t /\ Turn \in Active /\ file'[f].version = file[f].version + 1
          /\ \E g \in Files : Apply(g) \/ UndoWrite(g)
  BY <1>3, <1>4, <1>5, <1>6, <1>7, <1>8, <1>9, <1>10, FileFrame, WriterFrame
<1> QED BY <1>11 DEF Same1, Apply, UndoWrite

\* The same of the next state.
ApartNext(t, f, record) ==
  /\ Live(t)' => record.before = Fingerprint(f)'
  /\ record.after = Fingerprint(f)' /\ Fingerprint(f)' # Absent =>
       DataOf(record.before) = DataOf(record.after)

\* A record does not know another turn's change.
LEMMA ForeignStep == JournalInv /\ [Next]_vars => Foreign'
<1> SUFFICES ASSUME JournalInv, [Next]_vars, NEW t \in Turns, NEW f \in Files, writer'[f] \notin {t, Null}
             PROVE  /\ InLedger(t, f)' => ApartNext(t, f, ledger'[t].records[f])
                    /\ InJournal(t, f)' => ApartNext(t, f, journal'[t].records[f])
  BY DEF Foreign, Apart, ApartNext, DataOf
<1>0. Typed /\ Transaction /\ Placed /\ Shape /\ FateKnown /\ OneLive /\ Adopted /\ Keeping /\ Foreign /\ Versions
  BY DEF JournalInv, Shape
<1>1. CASE /\ Turn # t /\ Turn \in Active /\ file'[f].version = file[f].version + 1
           /\ UNCHANGED <<ledger, journal, fate>>
  <2>1. Live(Turn)
    BY <1>0, <1>1 DEF Placed, Live, Active, In
  <2>2. ~Live(t) /\ (Live(t)' <=> Live(t))
    <3>1. ~Live(t)
      BY <1>0, <1>1, <2>1 DEF OneLive, Active, In
    <3> QED BY <1>1, <3>1 DEF Live, Flagged, Active, In
  <2>3. ASSUME NEW rec \in Records, Older(f, rec) PROVE ApartNext(t, f, rec)
    <3>1. Fingerprint(f)' # Absent => Fingerprint(f)' = file'[f]
      BY DEF Fingerprint
    <3>2. file[f].version \in Nat
      BY <1>0, FingerprintFacts
    <3>3. rec.after # Absent => rec.after.version \in Nat /\ rec.after.version <= file[f].version
      <4>1. rec.after # Absent => rec.after \in [data : Data, version : Nat]
        BY DEF Records, Fingerprints
      <4> QED BY <2>3, <4>1 DEF Older
    <3>4. ~(rec.after = Fingerprint(f)' /\ Fingerprint(f)' # Absent)
      BY <1>1, <3>1, <3>2, <3>3
    <3> QED BY <2>2, <3>4 DEF ApartNext
  <2>4. /\ InLedger(t, f) => ledger[t].records[f] \in Records /\ Older(f, ledger[t].records[f])
        /\ InJournal(t, f) => journal[t].records[f] \in Records /\ Older(f, journal[t].records[f])
    BY <1>0, EntryFacts DEF Versions
  <2>5. (InLedger(t, f)' <=> InLedger(t, f)) /\ (InJournal(t, f)' <=> InJournal(t, f))
    BY <1>1 DEF InLedger, InJournal
  <2> QED BY <1>1, <2>3, <2>4, <2>5
<1>2. CASE /\ file'[f] = file[f]
           /\ \/ writer[f] \notin {t, Null}
              \/ \E r \in Turns : r # t /\ ResumeDraft(t, r)
           /\ \A s \in Turns : s # t /\ ResumeDraft(s, t) => writer[f] \notin {s, Null}
  <2>1. Fingerprint(f)' = Fingerprint(f)
    BY <1>2 DEF Fingerprint
  <2>2. ASSUME NEW r \in Turns, r # t, ResumeDraft(t, r) PROVE ~InLedger(t, f)' /\ ~InJournal(t, f)'
    <3>1. LogResume(t, r) /\ ledger[t] # Null /\ ledger[r] = Null
      BY <1>0, <2>2, ResumeKnown
    <3>2. ledger'[t] = Null /\ journal'[t].records = NoRecords
      BY <1>0, <2>2, <3>1, ResumeLogged, ResumeEffect
    <3> QED BY <3>2, NewTyped DEF InLedger, InJournal
  <2>3. ASSUME NEW s \in Turns, s # t, ResumeDraft(s, t)
        PROVE  ~InLedger(t, f) /\ ~InJournal(t, f) /\ Live(s)
    <3>1. ledger[t] = Null /\ fate[t] = "fresh" /\ fate[s] = "draft"
      BY <1>0, <2>3, ResumeKnown, ResumeEffect
    <3>2. journal[t].place = "none"
      BY <1>0, <3>1, EntryFacts DEF Placed, Places
    <3> QED BY <1>0, <3>1, <3>2, NewTyped DEF Placed, InLedger, InJournal, Live
  <2>4. ASSUME Begin(t) PROVE ~InLedger(t, f)' /\ ~InJournal(t, f)'
    BY <1>0, <2>4, BeginEffect, BeginLogged, NewTyped DEF InLedger, InJournal
  <2>5. ASSUME NEW u \in Turns, NEW old, NEW new, Apart(u, f, old), Live(t)' => Live(u),
               new.before = old.before, new.after = old.after
        PROVE  ApartNext(t, f, new)
    BY <2>1, <2>5 DEF Apart, ApartNext
  <2>6. ASSUME NEW rec \in Records, Notes(t, f, rec), writer[f] \notin {t, Null} PROVE ApartNext(t, f, rec)
    <3>1. t \in Active /\ Live(t)
      BY <1>0, <2>6 DEF Notes, Placed, Live, Active, In
    <3>2. rec.after = Fingerprint(f) /\ rec.before = Fingerprint(f)
      <4>1. InJournal(t, f) => journal[t].records[f].before = Fingerprint(f)
        BY <1>0, <2>6, <3>1 DEF Foreign, Apart
      <4> QED BY <1>0, <2>6, <4>1, NotesFacts
    <3> QED BY <2>1, <3>2 DEF ApartNext
  <2>7. ASSUME writer[f] \notin {t, Null}, InLedger(t, f)' PROVE ApartNext(t, f, ledger'[t].records[f])
    <3>1. ~Begin(t)
      BY <2>4, <2>7
    <3>2. ASSUME InLedger(t, f), ledger'[t].records[f].before = ledger[t].records[f].before,
                 ledger'[t].records[f].after = ledger[t].records[f].after
          PROVE  ApartNext(t, f, ledger'[t].records[f])
      <4>1. Live(t)' => Live(t)
        BY <1>0, <2>3, <3>1, <3>2, LiveSource
      <4>2. Apart(t, f, ledger[t].records[f])
        BY <1>0, <2>7, <3>2 DEF Foreign
      <4> QED BY <2>5, <3>2, <4>1, <4>2
    <3>3. ASSUME NEW s \in Turns, s # t, ResumeDraft(s, t), InLedger(s, f),
                 ledger'[t].records[f] = ledger[s].records[f]
          PROVE  ApartNext(t, f, ledger'[t].records[f])
      <4>1. writer[f] \notin {s, Null} /\ Live(s)
        BY <1>2, <2>3, <3>3
      <4>2. Apart(s, f, ledger[s].records[f])
        BY <1>0, <3>3, <4>1 DEF Foreign
      <4> QED BY <2>5, <3>3, <4>1, <4>2
    <3>4. ASSUME NEW rec \in Records, Notes(t, f, rec), ledger'[t].records[f] = rec
          PROVE  ApartNext(t, f, ledger'[t].records[f])
      BY <2>6, <2>7, <3>4
    <3>5. \/ /\ InLedger(t, f) /\ ledger'[t].records[f].before = ledger[t].records[f].before
             /\ ledger'[t].records[f].after = ledger[t].records[f].after
          \/ \E s \in Turns : /\ s # t /\ ResumeDraft(s, t) /\ InLedger(s, f)
                              /\ ledger'[t].records[f] = ledger[s].records[f]
          \/ \E rec \in Records : Notes(t, f, rec) /\ ledger'[t].records[f] = rec
      BY <1>0, <2>7, LedgerSource
    <3> QED BY <3>2, <3>3, <3>4, <3>5
  <2>8. ASSUME writer[f] \notin {t, Null}, InJournal(t, f)' PROVE ApartNext(t, f, journal'[t].records[f])
    <3>1. ~Begin(t)
      BY <2>4, <2>8
    <3>2. ASSUME InJournal(t, f), journal'[t].records[f] = journal[t].records[f]
          PROVE  ApartNext(t, f, journal'[t].records[f])
      <4>1. Live(t)' => Live(t)
        BY <1>0, <2>3, <3>1, <3>2, LiveSource
      <4>2. Apart(t, f, journal[t].records[f])
        BY <1>0, <2>8, <3>2 DEF Foreign
      <4> QED BY <2>5, <3>2, <4>1, <4>2
    <3>3. ASSUME NEW s \in Turns, s # t, ResumeDraft(s, t), InJournal(s, f),
                 journal'[t].records[f] = journal[s].records[f]
          PROVE  ApartNext(t, f, journal'[t].records[f])
      <4>1. writer[f] \notin {s, Null} /\ Live(s)
        BY <1>2, <2>3, <3>3
      <4>2. Apart(s, f, journal[s].records[f])
        BY <1>0, <3>3, <4>1 DEF Foreign
      <4> QED BY <2>5, <3>3, <4>1, <4>2
    <3>4. ASSUME NEW rec \in Records, Notes(t, f, rec), journal'[t].records[f] = rec
          PROVE  ApartNext(t, f, journal'[t].records[f])
      BY <2>6, <2>8, <3>4
    <3>5. ASSUME InLedger(t, f), journal'[t].records[f] = ledger[t].records[f]
          PROVE  ApartNext(t, f, journal'[t].records[f])
      <4>1. Live(t)' => Live(t)
        BY <1>0, <2>3, <3>1, <3>5, LiveSource
      <4>2. Apart(t, f, ledger[t].records[f])
        BY <1>0, <2>8, <3>5 DEF Foreign
      <4> QED BY <2>5, <3>5, <4>1, <4>2
    <3>6. \/ InJournal(t, f) /\ journal'[t].records[f] = journal[t].records[f]
          \/ \E s \in Turns : /\ s # t /\ ResumeDraft(s, t) /\ InJournal(s, f)
                              /\ journal'[t].records[f] = journal[s].records[f]
          \/ \E rec \in Records : Notes(t, f, rec) /\ journal'[t].records[f] = rec
          \/ InLedger(t, f) /\ journal'[t].records[f] = ledger[t].records[f]
      BY <1>0, <2>8, JournalSource
    <3> QED BY <3>2, <3>3, <3>4, <3>5, <3>6
  <2> QED BY <1>2, <2>2, <2>7, <2>8
<1> QED BY <1>0, <1>1, <1>2, ForeignSource

-----------------------------------------------------------------------------
(* The invariant is preserved: what recovery keeps.                        *)

\* A recovery that goes on was opened just now, or has decided something.
LEMMA RecoveryGoesOn ==
  ASSUME JournalInv, [Next]_vars, proc'.stage = "recovering"
  PROVE  \/ \E replaces \in BOOLEAN : Open(replaces)
         \/ /\ proc.stage = "recovering" /\ proc'.pid = proc.pid
            /\ UNCHANGED <<ledger, fate, origin>>
            /\ \/ UNCHANGED <<proc, journal, task, refs>>
               \/ \E t \in Turns : RecoverDrop(t) \/ RecoverSkip(t) \/ RecoverDraft(t)
               \/ \E t \in Turns : RecoverTurn(t) /\ UNCHANGED proc
               \/ \E f \in Files : (Restore(f) \/ Conflict(f)) /\ task.op = "recover" /\ UNCHANGED proc
               \/ RecoverDone
<1>0. Shape /\ Typed /\ Staged /\ Restoring /\ Adopted /\ Ordered
  BY DEF JournalInv, Shape
<1>1. (\E replaces \in BOOLEAN : Open(replaces)) \/ proc.stage = "recovering"
  <2>1. ~RecoverCompact /\ ~Close /\ ~Closed /\ ~Crash
    BY <1>0, RecoverCompactEffect, CloseEffect, ClosedEffect, CrashEffect
  <2>2. RecoverDone => proc.stage = "recovering"
    BY <1>0, RecoverDoneEffect
  <2>3. \A t \in Turns : RecoverDrop(t) \/ RecoverSkip(t) \/ RecoverDraft(t) => proc.stage = "recovering"
    BY DEF RecoverDrop, RecoverSkip, RecoverDraft, Recovering
  <2> QED BY <2>1, <2>2, <2>3, ProcFrame
<1>2. ASSUME proc.stage = "recovering"
      PROVE  /\ proc'.pid = proc.pid
             /\ UNCHANGED <<ledger, fate, origin>>
             /\ \/ UNCHANGED <<proc, journal, task, refs>>
                \/ \E t \in Turns : RecoverDrop(t) \/ RecoverSkip(t) \/ RecoverDraft(t)
                \/ \E t \in Turns : RecoverTurn(t) /\ UNCHANGED proc
                \/ \E f \in Files : (Restore(f) \/ Conflict(f)) /\ task.op = "recover" /\ UNCHANGED proc
                \/ RecoverDone
  <2>1. ~RecoverCompact /\ ~Crash
    BY <1>0, RecoverCompactEffect, CrashEffect
  <2>2. ASSUME NEW t \in Turns, RecoverDrop(t) \/ RecoverSkip(t) \/ RecoverDraft(t)
        PROVE  proc'.pid = proc.pid /\ UNCHANGED <<ledger, fate, origin>>
    BY <1>0, <2>2, RecoverEffect
  <2>3. ASSUME NEW t \in Turns, RecoverTurn(t) PROVE UNCHANGED <<proc, ledger, fate, origin>>
    BY <2>3 DEF RecoverTurn
  <2>4. ASSUME NEW f \in Files, Restore(f) \/ Conflict(f) PROVE UNCHANGED <<proc, ledger, fate, origin>>
    BY <2>4 DEF Restore, Conflict
  <2>5. ASSUME NEW f \in Files, NEW data \in UserData, Edit(f, data)
        PROVE  UNCHANGED <<proc, ledger, fate, origin, journal, task, refs>>
    BY <2>5 DEF Edit
  <2>6. ASSUME RecoverDone PROVE proc'.pid = proc.pid /\ UNCHANGED <<ledger, fate, origin>>
    BY <1>0, <2>6, RecoverDoneEffect
  <2>7. ASSUME UNCHANGED vars PROVE UNCHANGED <<proc, ledger, fate, origin, journal, task, refs>>
    BY <2>7 DEF vars
  <2>8. \/ UNCHANGED vars \/ RecoverDone \/ RecoverCompact \/ Crash
        \/ \E t \in Turns : RecoverDrop(t) \/ RecoverSkip(t) \/ RecoverDraft(t) \/ RecoverTurn(t)
        \/ \E f \in Files : (Restore(f) \/ Conflict(f)) /\ task.op = "recover"
        \/ \E f \in Files, data \in UserData : Edit(f, data)
    BY <1>0, <1>2, RecoveringSteps
  <2> QED BY <2>1, <2>2, <2>3, <2>4, <2>5, <2>6, <2>7, <2>8
<1> QED BY <1>1, <1>2

\* What is about to be kept agrees with the ledger.
LEMMA KeepingStep == JournalInv /\ [Next]_vars => Keeping'
<1> SUFFICES ASSUME JournalInv, [Next]_vars, NEW t \in Turns, proc'.keep[t] # Null
             PROVE  /\ proc'.stage = "recovering"
                    /\ ledger'[t] # Null /\ Same(proc'.keep[t], ledger'[t]) /\ ~ledger'[t].committed
                    /\ ledger'[t].draft => proc'.keep[t] = ledger'[t]
  BY DEF Keeping, Same
<1>0. Shape /\ Typed /\ Staged /\ Restoring /\ Adopted /\ Ordered /\ Keeping
  BY DEF JournalInv, Shape
<1>1. ASSUME proc'.stage # "recovering" PROVE FALSE
  <2>1. ASSUME NEW u \in Turns, RecoverDrop(u) \/ RecoverSkip(u) \/ RecoverDraft(u) PROVE FALSE
    BY <1>0, <1>1, <2>1, RecoverEffect
  <2>2. ASSUME NEW replaces \in BOOLEAN, Open(replaces) PROVE FALSE
    BY <1>0, <1>1, <2>2, OpenEffect
  <2>3. ~RecoverDone /\ ~RecoverCompact /\ ~Crash
    BY <1>0, <1>1, RecoverDoneEffect, RecoverCompactEffect, CrashEffect
  <2>4. Close \/ Closed \/ UNCHANGED proc
    BY <2>1, <2>2, <2>3, ProcFrame
  <2>5. proc'.keep = proc.keep /\ proc.stage # "recovering"
    BY <1>0, <1>1, <2>4, CloseEffect, ClosedEffect DEF Ready
  <2> QED BY <1>0, <2>5 DEF Keeping
<1>2. ASSUME NEW replaces \in BOOLEAN, Open(replaces) PROVE FALSE
  BY <1>0, <1>2, OpenEffect
<1>3. \A entry : Same(entry, entry)
  BY DEF Same
<1>4. CASE proc'.stage = "recovering"
  <2>1. /\ UNCHANGED ledger
        /\ \/ UNCHANGED proc \/ RecoverDone
           \/ \E u \in Turns : RecoverDrop(u) \/ RecoverSkip(u) \/ RecoverDraft(u)
    BY <1>2, <1>4, RecoveryGoesOn
  <2>2. CASE proc'.keep[t] = proc.keep[t]
    BY <1>0, <1>4, <2>1, <2>2 DEF Keeping
  <2>3. CASE proc'.keep[t] = ledger[t] /\ ~ledger[t].committed
    BY <1>3, <1>4, <2>1, <2>3
  <2>4. ASSUME NEW u \in Turns, RecoverDrop(u) \/ RecoverSkip(u) \/ RecoverDraft(u)
        PROVE  proc'.keep[t] = proc.keep[t] \/ (proc'.keep[t] = ledger[t] /\ ~ledger[t].committed)
    BY <1>0, <2>4, RecoverEffect
  <2>5. CASE RecoverDone
    <3>1. t = task.turn => /\ task.conflict /\ Same(proc'.keep[t], ledger[t]) /\ task.op = "recover"
                           /\ ledger[t] # Null /\ ~ledger[t].draft /\ ~ledger[t].committed
      BY <1>0, <2>5, RecoverDoneEffect DEF Adopted
    <3>2. t # task.turn => proc'.keep[t] = proc.keep[t]
      BY <1>0, <2>5, RecoverDoneEffect
    <3> QED BY <1>4, <2>1, <2>2, <3>1, <3>2
  <2> QED BY <2>1, <2>2, <2>3, <2>4, <2>5
<1> QED BY <1>1, <1>4

\* A draft that was adopted is about to be kept.
LEMMA AdoptedKeptStep == JournalInv /\ [Next]_vars => AdoptedKept'
<1> SUFFICES ASSUME JournalInv, [Next]_vars, NEW t \in Turns, proc'.stage = "recovering",
                    journal'[t].place = "draft"
             PROVE  proc'.keep[t] # Null /\ ~EmptyDraft(t)'
  BY DEF AdoptedKept
<1>0. Shape /\ Typed /\ Staged /\ Restoring /\ Placed /\ Adopted /\ Ordered /\ AdoptedKept /\ FateKnown
  BY DEF JournalInv, Shape
<1>1. ASSUME NEW replaces \in BOOLEAN, Open(replaces) PROVE FALSE
  BY <1>0, <1>1, OpenEffect DEF Staged
<1>2. /\ proc.stage = "recovering" /\ UNCHANGED ledger
      /\ \/ UNCHANGED <<proc, journal>> \/ RecoverDone
         \/ \E u \in Turns : RecoverDrop(u) \/ RecoverSkip(u) \/ RecoverDraft(u)
         \/ \E u \in Turns : RecoverTurn(u) /\ UNCHANGED proc
         \/ \E f \in Files : (Restore(f) \/ Conflict(f)) /\ UNCHANGED proc
  BY <1>1, RecoveryGoesOn
<1>3. EmptyDraft(t)' <=> EmptyDraft(t)
  BY <1>2 DEF EmptyDraft, Changed, Paths, DataOf
<1>4. CASE journal[t].place = "draft" /\ proc'.keep[t] = proc.keep[t]
  BY <1>0, <1>2, <1>3, <1>4 DEF AdoptedKept
<1>5. ASSUME NEW u \in Turns, RecoverDrop(u) \/ RecoverSkip(u) \/ RecoverDraft(u)
      PROVE  proc'.keep[t] # Null /\ ~EmptyDraft(t)'
  <2>1. u # t => journal[t].place = "draft" /\ proc'.keep[t] = proc.keep[t]
    BY <1>0, <1>5, RecoverEffect
  <2>2. CASE u = t /\ RecoverDrop(u)
    <3>1. EmptyDraft(t) \/ ledger[t].committed
      BY <2>2 DEF RecoverDrop
    <3>2. journal[t].place = "draft"
      BY <2>2 DEF RecoverDrop
    <3>3. ~EmptyDraft(t) /\ Flagged(t)
      BY <1>0, <1>2, <3>2 DEF AdoptedKept, Placed
    <3> QED BY <1>0, <3>1, <3>3 DEF FateKnown, Flagged
  <2>3. CASE u = t /\ (RecoverSkip(u) \/ RecoverDraft(u))
    <3>1. ~EmptyDraft(t) /\ ~ledger[t].committed
      BY <2>3 DEF RecoverSkip, RecoverDraft
    <3>2. proc'.keep[t] # Null
      BY <1>0, <2>3, <3>1, RecoverEffect
    <3> QED BY <1>3, <3>1, <3>2
  <2> QED BY <1>4, <1>5, <2>1, <2>2, <2>3
<1>6. ASSUME RecoverDone PROVE journal[t].place = "draft" /\ proc'.keep[t] = proc.keep[t]
  BY <1>0, <1>6, RecoverDoneEffect
<1>7. ASSUME NEW u \in Turns, RecoverTurn(u) PROVE journal[t].place = "draft"
  BY <1>0, <1>7, RecoverTurnEffect
<1>8. ASSUME NEW f \in Files, Restore(f) \/ Conflict(f) PROVE journal[t].place = "draft"
  BY <1>0, <1>8, RestoreEffect DEF Conflict
<1> QED BY <1>2, <1>4, <1>5, <1>6, <1>7, <1>8

\* Recovery leaves the turns' changes or undoes them.
LEMMA RecoveryLeft ==
  ASSUME JournalInv, [Next]_vars, proc'.stage = "recovering", NEW t \in Turns, NEW f \in Files, Left(t, f)'
  PROVE  Left(t, f) /\ writer[f] = t /\ file'[f] = file[f] /\ Settling(t) = {}
<1>0. Shape /\ Typed /\ Ordered /\ Transaction /\ FateKnown /\ OneLive
  BY DEF JournalInv, Shape
<1>1. proc.stage # "ready"
  <2>1. (\E replaces \in BOOLEAN : Open(replaces)) => proc.stage = "closed"
    BY DEF Open
  <2> QED BY <2>1, RecoveryGoesOn
<1>2. tx.pc = "idle"
  BY <1>0, <1>1 DEF Transaction, Ready
<1>3. ~Apply(f) /\ ~UndoWrite(f) /\ \A s \in Turns : ~ResumeDraft(s, t)
  BY <1>1, <1>2 DEF Apply, UndoWrite, At, ResumeDraft, Ready
<1>4. Settling(t) = {}
  BY <1>2 DEF Settling
<1> QED BY <1>0, <1>3, <1>4, LeftStep

\* Recovery tells the ledger nothing.
LEMMA RecoveryTold ==
  ASSUME JournalInv, [Next]_vars, proc'.stage = "recovering"
  PROVE  /\ UNCHANGED <<untold, replaced>>
         /\ \A t \in Turns, f \in Files : Told(t, f)' => Told(t, f)
<1>0. Typed /\ Transaction
  BY DEF JournalInv, Shape
<1>1. ~Crash
  BY <1>0, CrashEffect
<1>2. \A u \in Turns : ~Begin(u)
  BY DEF Begin, Ready
<1>3. \A s, r \in Turns : ~ResumeDraft(s, r)
  BY DEF ResumeDraft, Ready
<1>4. \A g \in Files : ~Prepare(g) /\ ~Record(g) /\ ~Amend(g)
  BY <1>0 DEF Prepare, Record, Amend, At, Transaction, Ready
<1>5. UNCHANGED <<untold, replaced>>
  BY <1>1, <1>2, <1>3, <1>4, UntoldFrame, ReplacedFrame
<1>6. ASSUME NEW t \in Turns, NEW f \in Files, Told(t, f)' PROVE Told(t, f)
  <2>1. Left(t, f)' /\ f \notin untold[t] /\ f \notin replaced[t]
    BY <1>5, <1>6 DEF Told, Mine
  <2>2. Left(t, f)
    BY <2>1, RecoveryLeft
  <2> QED BY <2>1, <2>2 DEF Told, Mine
<1> QED BY <1>5, <1>6

\* A change that nobody decided to keep and that the ledger was told is a change in it.
LEMMA ChangeOnDisk ==
  ASSUME JournalInv, NEW t \in Turns, NEW f \in Files, Told(t, f), fate[t] # "kept", Settling(t) = {}
  PROVE  InLedger(t, f) /\ Changed(ledger[t].records)
<1>0. Typed /\ Original /\ OnDisk
  BY DEF JournalInv, Shape
<1>1. InLedger(t, f) /\ ledger[t].records[f].after = Fingerprint(f)
  BY <1>0 DEF OnDisk
<1>2. DataOf(ledger[t].records[f].before) = origin[t][f]
  BY <1>0, <1>1 DEF Original, Told, Mine
<1>3. DataOf(ledger[t].records[f].after) # origin[t][f]
  BY <1>0, <1>1, FingerprintFacts DEF Left, Told, Mine
<1>4. Changed(ledger[t].records)
  BY <1>1, <1>2, <1>3 DEF Changed, Paths, InLedger
<1> QED BY <1>1, <1>4

\* A turn that recovery has visited was visited before, or is the one it was at.
LEMMA VisitedStep ==
  ASSUME JournalInv, [Next]_vars, proc'.stage = "recovering", NEW t \in Turns, Visited(t)'
  PROVE  \/ \E replaces \in BOOLEAN : Open(replaces) /\ ledger[t] = Null /\ UNCHANGED <<ledger, fate, origin, refs, task>>
         \/ /\ Visited(t) /\ proc'.keep[t] = proc.keep[t] /\ journal'[t].place = journal[t].place
         \/ /\ RecoverDrop(t) \/ RecoverSkip(t) \/ RecoverDraft(t)
         \/ RecoverDone /\ t = task.turn
<1>0. Shape /\ Typed /\ Ordered /\ Staged /\ Restoring /\ Adopted
  BY DEF JournalInv, Shape
<1>1. ASSUME NEW replaces \in BOOLEAN, Open(replaces)
      PROVE  ledger[t] = Null /\ UNCHANGED <<ledger, fate, origin, refs, task>>
  <2>1. proc'.todo = order /\ UNCHANGED <<ledger, fate, origin, refs, task>>
    BY <1>0, <1>1, OpenEffect
  <2>2. t \notin {order[i] : i \in 1..Len(order)}
    BY <2>1 DEF Visited
  <2> QED BY <1>0, <2>1, <2>2 DEF Ordered, Listed, Outstanding
<1>2. ASSUME UNCHANGED proc, proc.stage = "recovering" PROVE Visited(t) /\ proc'.keep[t] = proc.keep[t]
  BY <1>2 DEF Visited
<1>3. ASSUME proc.stage = "recovering", proc.todo # <<>>, proc'.todo = Tail(proc.todo), t # Head(proc.todo)
      PROVE  Visited(t)
  <2>1. \A k \in 1..Len(proc.todo) :
          proc.todo[k] = Head(proc.todo) \/ \E i \in 1..Len(proc'.todo) : proc'.todo[i] = proc.todo[k]
    BY <1>0, <1>3, TodoTail
  <2> QED BY <1>3, <2>1 DEF Visited
<1>4. ASSUME NEW u \in Turns, RecoverDrop(u) \/ RecoverSkip(u) \/ RecoverDraft(u), u # t
      PROVE  Visited(t) /\ proc'.keep[t] = proc.keep[t] /\ journal'[t].place = journal[t].place
  <2>1. /\ proc.stage = "recovering" /\ proc.todo # <<>> /\ proc'.todo = Tail(proc.todo) /\ u = Head(proc.todo)
        /\ proc'.keep[t] = proc.keep[t] /\ journal'[t].place = journal[t].place
    BY <1>0, <1>4, RecoverEffect
  <2> QED BY <1>3, <1>4, <2>1
<1>5. ASSUME RecoverDone, t # task.turn
      PROVE  Visited(t) /\ proc'.keep[t] = proc.keep[t] /\ journal'[t].place = journal[t].place
  <2>1. /\ proc.stage = "recovering" /\ proc.todo # <<>> /\ proc'.todo = Tail(proc.todo)
        /\ proc'.keep[t] = proc.keep[t] /\ journal'[t].place = journal[t].place /\ task.op = "recover"
    BY <1>0, <1>5, RecoverDoneEffect
  <2>2. Head(proc.todo) = task.turn
    BY <1>0, <2>1 DEF Restoring
  <2> QED BY <1>3, <1>5, <2>1, <2>2
<1>6. ASSUME NEW u \in Turns, RecoverTurn(u), UNCHANGED proc
      PROVE  Visited(t) /\ proc'.keep[t] = proc.keep[t] /\ journal'[t].place = journal[t].place
  <2>1. /\ proc.stage = "recovering" /\ proc.todo # <<>> /\ u = Head(proc.todo)
        /\ \A v \in Turns : v # u => journal'[v] = journal[v]
    BY <1>0, <1>6, RecoverTurnEffect
  <2>2. Visited(t) /\ proc'.keep[t] = proc.keep[t]
    BY <1>2, <1>6, <2>1
  <2>3. t # u
    <3>1. 1 \in 1..Len(proc.todo) /\ proc.todo[1] = Head(proc.todo)
      BY <1>0, <2>1 DEF Typed, Processes
    <3> QED BY <2>1, <2>2, <3>1 DEF Visited
  <2> QED BY <2>1, <2>2, <2>3
<1>7. ASSUME NEW f \in Files, Restore(f) \/ Conflict(f), UNCHANGED proc, proc.stage = "recovering"
      PROVE  Visited(t) /\ proc'.keep[t] = proc.keep[t] /\ journal'[t].place = journal[t].place
  <2>1. journal'[t].place = journal[t].place
    BY <1>0, <1>7, RestoreEffect DEF Conflict
  <2> QED BY <1>2, <1>7, <2>1
<1>8. ASSUME UNCHANGED <<proc, journal>>, proc.stage = "recovering"
      PROVE  Visited(t) /\ proc'.keep[t] = proc.keep[t] /\ journal'[t].place = journal[t].place
  BY <1>2, <1>8
<1> QED BY <1>1, <1>4, <1>5, <1>6, <1>7, <1>8, RecoveryGoesOn

\* Recovery drops no change that somebody may still want undone, and no draft.
LEMMA KeepsChangesStep == JournalInv /\ [Next]_vars => KeepsChanges'
<1> SUFFICES ASSUME JournalInv, [Next]_vars, NEW t \in Turns, Visited(t)'
             PROVE  /\ \A f \in Files : Told(t, f)' /\ fate'[t] # "kept" => proc'.keep[t] # Null
                    /\ \A f \in Files : Left(t, f)' /\ proc'.keep[t] # Null =>
                         proc'.keep[t].records[f] = ledger'[t].records[f]
                    /\ Flagged(t)' /\ proc'.keep[t] # Null => journal'[t].place = "draft"
                    /\ fate'[t] = "draft" /\ untold'[t] = {} => proc'.keep[t] # Null
  BY DEF KeepsChanges
<1>0. /\ Shape /\ Typed /\ Staged /\ Restoring /\ Placed /\ Adopted /\ FateKnown /\ KeepsChanges /\ Drafts
      /\ Owners /\ InMemory /\ Backed
  BY DEF JournalInv, Shape
<1>1. proc'.stage = "recovering"
  BY DEF Visited
<1>2. ASSUME NEW f \in Files
      PROVE  /\ Left(t, f)' => Left(t, f)
             /\ Told(t, f)' => Told(t, f) /\ Settling(t) = {}
  <2>1. Told(t, f)' => Left(t, f)'
    BY DEF Told, Mine
  <2> QED BY <1>1, <2>1, RecoveryLeft, RecoveryTold
<1>3. untold'[t] = untold[t]
  BY <1>1, RecoveryTold
<1>4. /\ UNCHANGED <<ledger, fate>> /\ (Flagged(t)' <=> Flagged(t))
  <2>1. UNCHANGED <<ledger, fate>>
    BY <1>1, RecoveryGoesOn DEF Open
  <2> QED BY <2>1 DEF Flagged
<1>5. CASE ledger[t] = Null
  <2>1. ~Flagged(t) /\ fate[t] # "draft"
    BY <1>0, <1>5 DEF Drafts, Flagged
  <2>2. \A f \in Files : Told(t, f)' => fate[t] = "kept"
    BY <1>2, <1>5, ChangeOnDisk DEF InLedger
  <2>3. proc'.keep[t] = Null
    BY <1>4, <1>5, KeepingStep DEF Keeping
  <2> QED BY <1>4, <2>1, <2>2, <2>3
<1>6. CASE Visited(t) /\ proc'.keep[t] = proc.keep[t] /\ journal'[t].place = journal[t].place
  BY <1>0, <1>2, <1>4, <1>6, <1>3 DEF KeepsChanges
<1>7. CASE RecoverDrop(t)
  <2>1. (EmptyDraft(t) \/ ledger[t].committed) /\ ledger[t] # Null
    BY <1>0, <1>7, RecoverEffect DEF RecoverDrop
  <2>2. ~ledger[t].committed => ledger[t].draft /\ ~Changed(ledger[t].records)
    BY <2>1 DEF EmptyDraft
  <2>3. ~(fate[t] = "draft" /\ untold[t] = {})
    BY <1>0, <2>1, <2>2 DEF Drafts, FateKnown
  <2>4. ASSUME NEW f \in Files, Told(t, f)', fate[t] # "kept" PROVE FALSE
    <3>1. Told(t, f) /\ Changed(ledger[t].records)
      BY <1>2, <2>4, ChangeOnDisk
    <3>2. ledger[t].committed
      BY <2>2, <3>1
    <3> QED BY <1>0, <2>1, <2>4, <3>1, <3>2 DEF FateKnown
  <2>5. proc'.keep[t] = Null
    BY <1>0, <1>7, KeptFacts DEF RecoverDrop, Recovering
  <2> QED BY <1>4, <1>3, <2>3, <2>4, <2>5
<1>8. CASE RecoverSkip(t) \/ RecoverDraft(t)
  <2>1. ledger[t] # Null /\ proc'.keep[t] = ledger[t]
    <3>1. ~EmptyDraft(t) /\ ~ledger[t].committed
      BY <1>8 DEF RecoverSkip, RecoverDraft
    <3> QED BY <1>0, <1>8, <3>1, RecoverEffect
  <2>2. Flagged(t) => journal'[t].place = "draft"
    <3>1. Flagged(t) => ledger[t].pid # proc.pid
      <4>1. proc.stage = "recovering"
        BY <1>0, <1>8, RecoverEffect
      <4> QED BY <1>0, <2>1, <4>1 DEF Owners
    <3>2. CASE RecoverSkip(t)
      BY <3>1, <3>2 DEF RecoverSkip, Alive
    <3>3. CASE RecoverDraft(t)
      <4>1. journal' = [journal EXCEPT ![t] = [place |-> "draft", records |-> ledger[t].records]]
        BY <3>3 DEF RecoverDraft
      <4>2. journal'[t] = [place |-> "draft", records |-> ledger[t].records]
        BY <1>0, <4>1 DEF Typed
      <4> QED BY <4>2
    <3> QED BY <1>8, <3>2, <3>3
  <2> QED BY <1>4, <2>1, <2>2
<1>9. CASE RecoverDone /\ t = task.turn
  <2>1. task.op = "recover" /\ task.todo = {} /\ ledger[t] # Null /\ ~ledger[t].draft
    BY <1>0, <1>9, RecoverDoneEffect DEF Adopted
  <2>2. ~Flagged(t) /\ fate[t] # "draft"
    BY <1>0, <2>1 DEF Drafts, Flagged
  <2>3. journal[t].place = "adopted" /\ task.step = "restore"
    BY <1>0, <1>9, <2>1 DEF Restoring
  <2>4. ASSUME NEW f \in Files, Told(t, f)' PROVE proc'.keep[t] # Null
    <3>1. Told(t, f)
      BY <1>2, <2>4
    <3>2. task.conflict
      BY <1>0, <1>9, <2>1, <2>3, <3>1, AllRestored
    <3> QED BY <1>0, <1>9, <3>2, RecoverDoneEffect
  <2>5. ASSUME NEW f \in Files, Left(t, f)', proc'.keep[t] # Null
        PROVE  proc'.keep[t].records[f] = ledger[t].records[f]
    <3>1. Left(t, f)
      BY <1>2, <2>5
    <3>2. /\ Same(proc'.keep[t], ledger[t])
          /\ InJournal(t, f) => proc'.keep[t].records[f] = ledger[t].records[f]
      BY <1>0, <1>9, <2>5, RecoverDoneEffect
    <3>3. ~InJournal(t, f) => ledger[t].records[f] = Null
      BY <1>0, <2>1, <2>3, <3>1 DEF Backed, InLedger
    <3> QED BY <3>2, <3>3 DEF Same
  <2> QED BY <1>4, <2>2, <2>4, <2>5
<1> QED BY <1>1, <1>5, <1>6, <1>7, <1>8, <1>9, VisitedStep

\* What has no references left gets none by a release.
LEMMA FreedZero ==
  ASSUME Typed, NEW records, NEW paths \in SUBSET Files, NEW d \in Data, refs[d] = 0
  PROVE  Freed(records, paths, d) = 0
<1> DEFINE S == {f \in paths : records[f].held /\ records[f].before.data = d}
<1>1. IsFiniteSet(S)
  BY JournalConstants, FS_Subset
<1>2. Cardinality(S) \in Nat
  BY <1>1, FS_CardinalityType
<1> HIDE DEF S
<1>3. ~(refs[d] > Cardinality(S))
  BY <1>2
<1> QED BY <1>3 DEF Freed, S

\* Recovery gives no before-image back.
LEMMA LostStays ==
  ASSUME JournalInv, [Next]_vars, proc'.stage = "recovering", NEW t \in Turns, NEW f \in Files,
         InLedger(t, f), Lost(t, f)
  PROVE  Lost(t, f)'
<1>0. Shape /\ Typed /\ Staged /\ Restoring
  BY DEF JournalInv, Shape
<1> DEFINE d == DataOf(ledger[t].records[f].before)
<1>1. d \in Data /\ refs[d] = 0 /\ d # Absent
  <2>1. ledger[t].records[f].before \in Fingerprints
    BY <1>0, EntryFacts DEF Records
  <2> QED BY <2>1, DataOfFacts DEF Lost, Contents
<1>2. ledger' = ledger
  BY RecoveryGoesOn DEF Open
<1> HIDE DEF d
<1>3. ASSUME NEW records, NEW paths \in SUBSET Files, Release(records, paths) PROVE refs'[d] = 0
  <2>1. refs'[d] = Freed(records, paths, d)
    BY <1>1, <1>3 DEF Release
  <2> QED BY <1>0, <1>1, <2>1, FreedZero
<1>4. ASSUME NEW u \in Turns, RecoverDrop(u) PROVE refs'[d] = 0
  <2>1. Paths(ledger[u].records) \in SUBSET Files
    BY DEF Paths
  <2> QED BY <1>3, <1>4, <2>1 DEF RecoverDrop
<1>5. ASSUME NEW g \in Files, Restore(g) PROVE refs'[d] = 0
  <2>1. Release(journal[task.turn].records, {g})
    BY <1>5 DEF Restore
  <2> QED BY <1>3, <2>1
<1>6. ASSUME UNCHANGED refs PROVE refs'[d] = 0
  BY <1>1, <1>6
<1>7. \/ UNCHANGED refs \/ \E u \in Turns : RecoverDrop(u)
      \/ \E g \in Files : Restore(g)
  BY RecoveryGoesOn DEF Open, RecoverSkip, RecoverDraft, RecoverTurn, Conflict, RecoverDone
<1>8. refs'[d] = 0
  BY <1>4, <1>5, <1>6, <1>7
<1> QED BY <1>1, <1>2, <1>8 DEF Lost, d

\* A path that recovery had to leave although the ledger knows it has lost its before-image.
LEMMA ConflictLost ==
  ASSUME JournalInv, NEW f \in Files, Conflict(f), task.op = "recover", Known(task.turn, f)
  PROVE  Lost(task.turn, f) /\ UNCHANGED <<refs, ledger>>
<1>0. Shape /\ Typed /\ Restoring /\ RestoreTodo /\ Adopted /\ Backed
  BY DEF JournalInv, Shape
<1>1. PICK t \in Turns : t = task.turn
  BY <1>0 DEF Restoring
<1> DEFINE seen == ledger[t].records[f].before
<1>2. /\ InLedger(t, f) /\ Left(t, f) /\ ledger[t].records[f].after = Fingerprint(f)
      /\ ledger[t].records[f] \in Records
  BY <1>0, <1>1, EntryFacts DEF Known
<1>3. f \in task.todo /\ journal[t].records[f] = ledger[t].records[f]
  BY <1>0, <1>1 DEF Conflict, RestoreTodo, Adopted
<1>4. seen # Absent => ledger[t].records[f].held
  BY <1>0, <1>2 DEF Backed
<1>5. /\ seen # Absent /\ ~(ledger[t].records[f].held /\ refs[seen.data] > 0)
      /\ UNCHANGED <<refs, ledger>>
  BY <1>1, <1>2, <1>3 DEF Conflict
<1>6. seen \in Fingerprints
  BY <1>2 DEF Records
<1> HIDE DEF seen
<1>7. seen \in [data : Data, version : Nat] /\ DataOf(seen) = seen.data
  BY <1>5, <1>6, DataOfFacts
<1>8. seen.data \in Data /\ refs[seen.data] \in Nat /\ seen.data # Absent
  BY <1>0, <1>7, Apartness DEF Typed
<1>9. refs[seen.data] = 0
  BY <1>4, <1>5, <1>8
<1> QED BY <1>1, <1>5, <1>7, <1>8, <1>9 DEF Lost, seen

\* What the ledger knows of a change it knew before the step of the recovery.
LEMMA RecoveryKnown ==
  ASSUME JournalInv, [Next]_vars, proc'.stage = "recovering", NEW t \in Turns, NEW f \in Files,
         Known(t, f)'
  PROVE  Known(t, f)
<1>1. Left(t, f)' /\ InLedger(t, f)' /\ ledger'[t].records[f].after = Fingerprint(f)'
  BY DEF Known
<1>2. Left(t, f) /\ file'[f] = file[f]
  BY <1>1, RecoveryLeft
<1>3. UNCHANGED ledger
  BY RecoveryGoesOn DEF Open
<1> QED BY <1>1, <1>2, <1>3 DEF Known, InLedger, Fingerprint

\* What recovery leaves of an interrupted turn has lost its before-image.
LEMMA LostOnlyStep == JournalInv /\ [Next]_vars => LostOnly'
<1> SUFFICES ASSUME JournalInv, [Next]_vars PROVE LostOnly'
  OBVIOUS
<1>0. /\ Shape /\ Typed /\ Ordered /\ Staged /\ Restoring /\ Placed /\ Adopted /\ FateKnown /\ Drafts
      /\ LostOnly /\ OnDisk
  BY DEF JournalInv, Shape
<1>1. ASSUME NEW t \in Turns, NEW f \in Files, Visited(t)', fate'[t] = "open", Known(t, f)', ~ledger'[t].draft,
             ledger'[t].pid # proc'.pid
      PROVE  Lost(t, f)'
  <2>1. proc'.stage = "recovering"
    BY <1>1 DEF Visited
  <2>2. Known(t, f)
    BY <1>1, <2>1, RecoveryKnown
  <2>3. UNCHANGED <<ledger, fate>>
    BY <2>1, RecoveryGoesOn DEF Open
  <2>4. ledger[t] # Null /\ InLedger(t, f)
    BY <2>2 DEF Known, InLedger
  <2>5. proc.stage = "recovering" /\ proc'.pid = proc.pid
    <3>1. ~\E replaces \in BOOLEAN : Open(replaces) /\ ledger[t] = Null
      BY <2>4
    <3>2. Visited(t) \/ RecoverDrop(t) \/ RecoverSkip(t) \/ RecoverDraft(t) \/ RecoverDone
      BY <1>1, <2>1, <3>1, VisitedStep
    <3>3. proc.stage = "recovering"
      BY <1>0, <3>2, RecoverDoneEffect DEF Visited, RecoverDrop, RecoverSkip, RecoverDraft, Recovering
    <3> QED BY <2>1, <3>3, RecoveryGoesOn DEF Open
  <2>6. ASSUME Lost(t, f) PROVE Lost(t, f)'
    BY <2>1, <2>4, <2>6, LostStays
  <2>7. CASE Visited(t)
    BY <1>0, <1>1, <2>2, <2>3, <2>5, <2>6, <2>7 DEF LostOnly
  <2>8. ~RecoverDrop(t) /\ ~RecoverSkip(t) /\ ~RecoverDraft(t)
    <3>1. ~ledger[t].committed
      BY <1>0, <1>1, <2>3, <2>4 DEF FateKnown
    <3> QED BY <1>1, <2>3, <2>5, <3>1 DEF RecoverDrop, RecoverSkip, RecoverDraft, EmptyDraft, Alive
  <2>9. CASE RecoverDone /\ t = task.turn
    <3>1. task.op = "recover" /\ task.todo = {}
      BY <1>0, <2>9, RecoverDoneEffect
    <3> QED BY <1>0, <2>2, <2>6, <2>9, <3>1 DEF LostOnly
  <2> QED BY <1>1, <2>1, <2>4, <2>7, <2>8, <2>9, VisitedStep
<1>2. ASSUME task'.op = "recover", NEW t \in Turns, NEW f \in Files \ task'.todo, t = task'.turn, Known(t, f)'
      PROVE  Lost(t, f)'
  <2>1. proc'.stage = "recovering"
    <3>1. Restoring'
      BY <1>0, RestoringStep
    <3> QED BY <1>2, <3>1 DEF Restoring
  <2>2. Known(t, f) /\ InLedger(t, f)
    BY <1>2, <2>1, RecoveryKnown DEF Known
  <2>3. UNCHANGED <<ledger, fate>>
    BY <2>1, RecoveryGoesOn DEF Open
  <2>4. ~\E replaces \in BOOLEAN : Open(replaces)
    BY <1>0, <1>2 DEF Open, Staged
  <2>5. ~RecoverDone /\ \A u \in Turns : ~RecoverDrop(u) /\ ~RecoverSkip(u) /\ ~RecoverDraft(u)
    <3>1. ~RecoverDone
      BY <1>2, NoTaskFacts DEF RecoverDone
    <3> QED BY <1>2, <3>1 DEF RecoverDrop, RecoverSkip, RecoverDraft, Recovering
  <2>6. ASSUME task.op = "recover", t = task.turn, f \notin task.todo PROVE Lost(t, f)'
    <3>1. Lost(t, f)
      BY <1>0, <2>2, <2>6 DEF LostOnly
    <3> QED BY <2>1, <2>2, <3>1, LostStays
  <2>7. CASE UNCHANGED task
    BY <1>2, <2>6, <2>7
  <2>8. ASSUME NEW u \in Turns, RecoverTurn(u) PROVE FALSE
    <3>1. u = t /\ ledger[t] # Null /\ ~ledger[t].committed /\ task'.todo = Paths(ledger[t].records)
      BY <1>0, <1>2, <2>8, RecoverTurnEffect
    <3> QED BY <1>2, <2>2, <3>1 DEF Paths, InLedger
  <2>9. ASSUME NEW g \in Files, Restore(g) \/ Conflict(g), task.op = "recover" PROVE Lost(t, f)'
    <3>1. t = task.turn /\ task'.todo = task.todo \ {g}
      BY <1>0, <1>2, <2>9, RestoreProceeds DEF Proceeds
    <3>2. CASE f # g
      BY <1>2, <2>6, <2>9, <3>1, <3>2
    <3>3. CASE f = g /\ Restore(g)
      <4>1. writer'[f] = Null
        BY <1>0, <3>3, RestoreEffect
      <4> QED BY <1>2, <4>1, Apartness DEF Known, Left
    <3>4. CASE f = g /\ Conflict(g)
      <4>1. Lost(t, f) /\ UNCHANGED <<refs, ledger>>
        BY <2>2, <2>9, <3>1, <3>4, ConflictLost
      <4> QED BY <4>1 DEF Lost
    <3> QED BY <2>9, <3>2, <3>3, <3>4
  <2> QED BY <2>1, <2>4, <2>5, <2>7, <2>8, <2>9, RecoveryGoesOn
<1>3. ASSUME task'.op = "recover", NEW f \in Files \ task'.todo, Known(task.turn, f)' PROVE Lost(task.turn, f)'
  <2>1. Restoring'
    BY <1>0, RestoringStep
  <2>2. PICK t \in Turns : t = task'.turn
    BY <1>3, <2>1 DEF Restoring
  <2>3. Known(t, f)'
    BY <1>3, <2>2 DEF Known, Left, InLedger
  <2>4. Lost(t, f)'
    BY <1>2, <1>3, <2>2, <2>3
  <2> QED BY <2>2, <2>4 DEF Lost
<1> QED BY <1>1, <1>3 DEF LostOnly

-----------------------------------------------------------------------------
(* The invariant.                                                          *)

\* The first state.
LEMMA JournalInit == Init => JournalInv
<1> SUFFICES ASSUME Init PROVE JournalInv
  OBVIOUS
<1>1. /\ \A t \in Turns : ledger[t] = Null /\ journal[t] = NoJournal /\ fate[t] = "fresh"
                          /\ proc.keep[t] = Null /\ origin[t] = NoRecords
                          /\ untold[t] = {} /\ replaced[t] = {}
      /\ \A f \in Files : writer[f] = Null /\ file[f] = [data |-> Base[f], version |-> 0]
      /\ \A t \in Turns : journal[t].place = "none" /\ journal[t].records = NoRecords
      /\ proc.stage = "ready" /\ proc.pid = 1 /\ proc.owner = 1 /\ ~proc.clean /\ proc.todo = <<>>
      /\ task = NoTask /\ tx = NoTx /\ order = <<>>
      /\ tx.pc = "idle" /\ task.op = "none"
  BY DEF Init, NoJournal, NoTask, NoTx
<1>2. \A t \in Turns, f \in Files : ~InLedger(t, f) /\ ~InJournal(t, f) /\ writer[f] # t /\ ~Left(t, f)
  <2> SUFFICES ASSUME NEW t \in Turns, NEW f \in Files
               PROVE  ~InLedger(t, f) /\ ~InJournal(t, f) /\ writer[f] # t
    BY DEF Left
  <2>1. ledger[t] = Null /\ journal[t].records = NoRecords /\ writer[f] = Null /\ NoRecords[f] = Null
    BY <1>1 DEF NoRecords
  <2> QED BY <2>1, Apartness DEF InLedger, InJournal
<1>3. Typed
  <2>1. file \in [Files -> [data : Contents, version : Nat]]
    BY JournalConstants DEF Init
  <2>2. proc \in Processes
    BY DEF Init, Processes, Stages
  <2>3. \A t \in Turns : NoRecords \in [Files -> Contents \cup {Null}]
    BY DEF NoRecords
  <2> QED BY <2>1, <2>2, <2>3, NewTyped DEF Init, Typed, Fates
<1>4. Ordered
  <2>1. Outstanding = {}
    BY <1>1 DEF Outstanding
  <2>2. Listed(<<>>, {})
    BY DEF Listed
  <2> QED BY <1>1, <2>1, <2>2 DEF Ordered
<1>5. Transaction /\ Active = {} /\ PreparedKnown /\ DoneOwn
  <2>1. Active = {}
    BY <1>1 DEF Active, In
  <2>2. Targets = {} /\ tx.todo = {} /\ tx.done = {}
    BY <1>1, NoTxFacts DEF Targets
  <2> QED BY <1>1, <2>1, <2>2 DEF Transaction, PreparedKnown, DoneOwn
<1>6. Restoring /\ RestoreTodo /\ Adopted /\ Reverted
  BY <1>1, NoTaskFacts DEF Restoring, RestoreTodo, Adopted, Reverted
<1>7. Staged /\ Placed
  BY <1>1 DEF Staged, Placed
<1>8. FateKnown /\ Drafts /\ OneLive
  BY <1>1, <1>2 DEF FateKnown, Drafts, OneLive, Live, Flagged
<1>9. Synced /\ DraftHeld /\ OnDisk /\ InMemory /\ Backed /\ Original /\ Versions
  BY <1>1, <1>2 DEF Synced, SyncedAt, DraftHeld, OnDisk, InMemory, Backed, Mine, Told, Original,
     Versions
<1>10. Foreign /\ Owners /\ Keeping /\ AdoptedKept /\ KeepsChanges /\ LostOnly
  BY <1>1, <1>2 DEF Foreign, Owners, Keeping, AdoptedKept, KeepsChanges, LostOnly, Visited, Flagged
<1> QED BY <1>3, <1>4, <1>5, <1>6, <1>7, <1>8, <1>9, <1>10 DEF JournalInv, Shape

\* Every step.
LEMMA JournalStep == JournalInv /\ [Next]_vars => JournalInv'
<1> SUFFICES ASSUME JournalInv, [Next]_vars PROVE JournalInv'
  OBVIOUS
<1>1. /\ Shape /\ Adopted /\ Reverted /\ FateKnown /\ Synced /\ DraftHeld /\ InMemory /\ Backed
      /\ Original      /\ OneLive /\ Drafts /\ Versions /\ Keeping /\ AdoptedKept
      /\ Typed /\ Transaction /\ PreparedKnown /\ Placed
  BY DEF JournalInv, Shape
<1>2. Shape'
  <2>1. Typed' /\ Ordered'
    BY <1>1, TypedStep, OrderedStep
  <2>2. Transaction' /\ PreparedKnown' /\ DoneOwn'
    BY <1>1, TransactionStep, PreparedKnownStep, DoneOwnStep
  <2>3. Restoring' /\ RestoreTodo' /\ Staged' /\ Placed'
    BY <1>1, RestoringStep, RestoreTodoStep, StagedStep, PlacedStep
  <2> QED BY <2>1, <2>2, <2>3 DEF Shape
<1>3. Adopted' /\ Reverted' /\ FateKnown' /\ OneLive'
  BY <1>1, AdoptedStep, RevertedStep, FateKnownStep, OneLiveStep
<1>4. Synced' /\ DraftHeld' /\ Original' /\ Versions'
  BY <1>1, SyncedStep, DraftHeldStep, OriginalStep, VersionsStep
<1>5. OnDisk' /\ InMemory' /\ Backed' /\ Drafts' /\ Owners' /\ Foreign'
  BY OnDiskStep, InMemoryStep, BackedStep, DraftsStep, OwnersStep, ForeignStep
<1>6. Keeping' /\ AdoptedKept' /\ KeepsChanges' /\ LostOnly'
  BY KeepingStep, AdoptedKeptStep, KeepsChangesStep, LostOnlyStep
<1> QED BY <1>2, <1>3, <1>4, <1>5, <1>6 DEF JournalInv

\* The journal's invariant holds in every reachable state.
THEOREM JournalInvariant == Spec => []JournalInv
BY JournalInit, JournalStep, PTL DEF Spec

-----------------------------------------------------------------------------
(* The theorems.                                                           *)

\* The order has as many places as there are outstanding turns.
LEMMA OrderCounts ==
  ASSUME Ordered
  PROVE  Range(order) = Outstanding /\ Len(order) = Cardinality(Range(order))
<1>1. /\ order \in Seq(Turns) /\ Len(order) \in Nat /\ DOMAIN order = 1..Len(order)
      /\ \A i, j \in 1..Len(order) : order[i] = order[j] => i = j
      /\ {order[i] : i \in 1..Len(order)} = Outstanding
  BY DEF Ordered, Listed
<1>2. Range(order) = Outstanding
  BY <1>1 DEF Range
<1>3. order \in [1..Len(order) -> Outstanding]
  <2>1. order \in [1..Len(order) -> Turns]
    BY <1>1
  <2>2. \A i \in 1..Len(order) : order[i] \in Outstanding
    BY <1>1
  <2> QED BY <2>1, <2>2
<1>4. \A t \in Outstanding : \E i \in 1..Len(order) : order[i] = t
  BY <1>1
<1>5. order \in Bijection(1..Len(order), Outstanding)
  BY <1>1, <1>3, <1>4 DEF Bijection, Injection, IsInjective, Surjection
<1>6. ExistsBijection(1..Len(order), Outstanding)
  BY <1>5 DEF ExistsBijection
<1>7. Cardinality(Outstanding) = Len(order)
  BY <1>1, <1>6, FS_CountingElements
<1> QED BY <1>2, <1>7

\* Types, one active turn, one place for every outstanding turn, a transaction only for the
\* active turn while nothing is restored (Manager's fields, ledger.go).
THEOREM JournalTypes == Spec => []TypeOK
<1>1. JournalInv => TypeOK
  <2> SUFFICES ASSUME JournalInv PROVE TypeOK
    OBVIOUS
  <2>1. Typed /\ Ordered /\ Transaction /\ Placed /\ OneLive
    BY DEF JournalInv, Shape
  <2>2. Range(order) = {t \in Turns : ledger[t] # Null} /\ Len(order) = Cardinality(Range(order))
    BY <2>1, OrderCounts DEF Outstanding
  <2>3. Cardinality(Active) <= 1
    <3>1. CASE Active = {}
      BY <3>1, FS_EmptySet
    <3>2. CASE Active # {}
      <4>1. Active = {Turn}
        BY <2>1, <3>2, ActiveOne, TurnFacts
      <4>2. Cardinality({Turn}) = 1
        BY FS_Singleton
      <4> QED BY <4>1, <4>2
    <3> QED BY <3>1, <3>2
  <2>4. /\ proc.stage \in {"closed", "recovering", "ready", "closing"}
        /\ proc.owner \in Nat /\ proc.pid \in Nat /\ proc.clean \in BOOLEAN
        /\ proc.keep \in [Turns -> Entries \cup {Null}] /\ proc.todo \in Seq(Turns)
    BY <2>1 DEF Typed, Processes, Stages
  <2>5. Range(proc.todo) \subseteq Turns
    BY <2>4 DEF Range
  <2>6. /\ task.op \in {"none", "rollback", "revert", "recover"} /\ task.todo \subseteq Files
        /\ task.turn \in Turns \cup {Null} /\ task.conflict \in BOOLEAN
    BY <2>1 DEF Typed, Tasks
  <2>7. tx.pc \in {"idle", "prepare", "apply", "record", "undo", "amend"}
    BY <2>1 DEF Typed, Transactions
  <2> QED BY <2>1, <2>2, <2>3, <2>4, <2>5, <2>6, <2>7 DEF TypeOK, Typed, Transaction
<1> QED BY <1>1, JournalInvariant, PTL

\* A change nobody decided to keep has, in the ledger, the record that undoes it, unless a second
\* Begin replaced it or the ledger was never told of the change and gave the turn up
\* (Manager.Before and After, the ledger's lines, Recover's compaction).
THEOREM ChangesAreRecorded == Spec => []Recorded
<1>1. JournalInv => Recorded
  <2> SUFFICES ASSUME JournalInv, NEW t \in Turns, NEW f \in Files, Mine(t, f), fate[t] # "kept",
                      ~(f \in untold[t] /\ ledger[t] = Null)
               PROVE  /\ ledger[t] # Null /\ ledger[t].records[f] # Null
                      /\ DataOf(ledger[t].records[f].before) = origin[t][f]
                      /\ origin[t][f] # Absent => ledger[t].records[f].held
    BY DEF Recorded, Mine
  <2>1. Typed /\ Placed /\ OnDisk /\ Backed /\ Original
    BY DEF JournalInv, Shape
  <2>2. ledger[t] # Null
    <3>1. CASE f \in untold[t]
      BY <3>1
    <3>2. CASE f \notin untold[t] /\ f \notin Settling(t)
      BY <2>1, <3>2 DEF OnDisk, Told, InLedger
    <3>3. CASE f \in Settling(t)
      <4>1. journal[t].place = "active"
        BY <3>3 DEF Settling, Active, In
      <4> QED BY <2>1, <4>1 DEF Placed
    <3> QED BY <3>1, <3>2, <3>3
  <2>3. InLedger(t, f) /\ (ledger[t].records[f].before # Absent => ledger[t].records[f].held)
    BY <2>1, <2>2 DEF Backed, Mine
  <2>4. DataOf(ledger[t].records[f].before) = origin[t][f]
    BY <2>1, <2>3 DEF Original, Mine
  <2> QED BY <2>3, <2>4 DEF InLedger, DataOf
<1> QED BY <1>1, JournalInvariant, PTL

\* A draft is not lost by crashes, restarts and closes unless the ledger was not told all of it,
\* and a working manager offers it with the before-image of every change whose record was not
\* replaced, as far as the ledger was told (Suspend, Amend, Recover, Close).
THEOREM DraftsSurvive == Spec => []DraftSurvives
<1>1. JournalInv => DraftSurvives
  <2> SUFFICES ASSUME JournalInv PROVE DraftSurvives
    OBVIOUS
  <2>1. Typed /\ FateKnown /\ Synced /\ Backed /\ Drafts
    BY DEF JournalInv, Shape
  <2>2. ASSUME NEW t \in Turns, fate[t] = "dropped" PROVE untold[t] # {}
    BY <2>1, <2>2 DEF Drafts
  <2>3. ASSUME NEW t \in Turns, fate[t] = "draft"
        PROVE  ledger[t] # Null /\ ledger[t].draft /\ ~ledger[t].committed
    BY <2>1, <2>3 DEF Drafts, Flagged, FateKnown
  <2>4. ASSUME NEW t \in Turns, fate[t] = "draft", Ready
        PROVE  t \in In("draft") /\ journal[t].place = "draft" /\ Settling(t) = {}
    BY <2>1, <2>4 DEF Drafts, Ready, Settling, Active, In
  <2>5. ASSUME NEW t \in Turns, fate[t] = "draft", Ready, NEW f \in Files, Mine(t, f)
        PROVE  /\ f \in untold[t] \/ journal[t].records[f] = ledger[t].records[f]
               /\ journal[t].records[f] # Null
               /\ journal[t].records[f].before = ledger[t].records[f].before
               /\ journal[t].records[f].held = ledger[t].records[f].held
    <3>1. journal[t].place = "draft" /\ Settling(t) = {}
      BY <2>4, <2>5
    <3>2. InJournal(t, f)
      BY <2>1, <2>5, <3>1 DEF Backed
    <3>3. /\ InLedger(t, f) /\ ledger[t].records[f].before = journal[t].records[f].before
          /\ ledger[t].records[f].held = journal[t].records[f].held
          /\ f \notin untold[t] => ledger[t].records[f].after = journal[t].records[f].after
      BY <2>1, <3>1, <3>2 DEF Synced, SyncedAt
    <3>4. journal[t].records[f] \in Records /\ ledger[t].records[f] \in Records
      BY <2>1, <3>2, <3>3, EntryFacts
    <3> QED BY <3>2, <3>3, <3>4 DEF Records, InJournal
  <2> QED BY <2>2, <2>3, <2>4, <2>5 DEF DraftSurvives, Mine
<1> QED BY <1>1, JournalInvariant, PTL

\* A recovery that ends leaves no change of an interrupted turn that is as the ledger knows it
\* unless its before-image is gone (Manager.Recover).
THEOREM RecoveryRestores == Spec => Recovered
<1> DEFINE Gone(t, f) == DataOf(ledger[t].records[f].before) # Absent
                         /\ refs[DataOf(ledger[t].records[f].before)] = 0
           Restored == proc.stage = "recovering" /\ Ready' =>
                         \A t \in Turns, f \in Files : Abandoned(t, f)' => Gone(t, f)'
<1>1. JournalInv /\ [Next]_vars => Restored
  <2> SUFFICES ASSUME JournalInv, [Next]_vars, proc.stage = "recovering", Ready', NEW t \in Turns, NEW f \in Files,
                      Abandoned(t, f)'
               PROVE  Gone(t, f)'
    OBVIOUS
  <2>1. Shape /\ Typed /\ Adopted /\ Keeping /\ LostOnly
    BY DEF JournalInv, Shape
  <2>2. RecoverCompact
    BY <2>1, StageStep DEF Ready
  <2>3. /\ proc.todo = <<>> /\ proc'.pid = proc.pid /\ \A u \in Turns : ledger'[u] = proc.keep[u]
        /\ \A u \in Turns : fate'[u] = "open" => fate[u] = "open"
        /\ UNCHANGED <<file, refs, writer, origin>>
    BY <2>1, <2>2, RecoverCompactEffect
  <2>4. /\ Left(t, f)' /\ fate'[t] = "open" /\ ledger'[t] # Null /\ ~ledger'[t].draft
        /\ ledger'[t].pid # proc'.pid
        /\ ledger'[t].records[f] # Null /\ ledger'[t].records[f].after = Fingerprint(f)'
    BY DEF Abandoned
  <2>5. Left(t, f) /\ fate[t] = "open" /\ Fingerprint(f)' = Fingerprint(f)
    BY <2>3, <2>4 DEF Left, Fingerprint
  <2>6. Visited(t)
    BY <2>3 DEF Visited
  <2>7. proc.keep[t] # Null /\ Same(proc.keep[t], ledger[t]) /\ ledger[t] # Null
    BY <2>1, <2>3, <2>4 DEF Keeping
  <2>8. /\ InLedger(t, f) /\ ~ledger[t].draft /\ ledger[t].pid # proc.pid
        /\ ledger[t].records[f].after = Fingerprint(f)
        /\ ledger'[t].records[f].before = ledger[t].records[f].before
    BY <2>3, <2>4, <2>5, <2>7 DEF Same, InLedger
  <2>9. Lost(t, f)
    BY <2>1, <2>5, <2>6, <2>8 DEF LostOnly, Known
  <2> QED BY <2>3, <2>8, <2>9 DEF Lost
<1>2. [Restored]_vars => [proc.stage = "recovering" /\ Ready' =>
        \A t \in Turns, f \in Files :
          Abandoned(t, f)' => LET d == DataOf(ledger'[t].records[f].before)
                              IN  d # Absent /\ refs'[d] = 0]_vars
  OBVIOUS
<1> HIDE DEF Restored
<1> QED BY <1>1, <1>2, JournalInvariant, PTL DEF Spec, Recovered

\* The restore of a change puts back the contents from before the turn's first write, unless a
\* second Begin of the turn replaced the record (Manager.restore).
THEOREM RestoreIsExact == Spec => RestoresOrigin
<1> DEFINE Exact == \A f \in Files :
                      task.op # "none" /\ writer[f] = task.turn /\ file'[f] # file[f] /\ count' = count
                        => file'[f].data = origin[task.turn][f] \/ f \in replaced[task.turn]
<1>1. JournalInv /\ [Next]_vars => Exact
  <2> SUFFICES ASSUME JournalInv, [Next]_vars, NEW f \in Files, task.op # "none", file'[f] # file[f], count' = count,
                      f \notin replaced[task.turn]
               PROVE  file'[f].data = origin[task.turn][f]
    OBVIOUS
  <2>1. Typed /\ Transaction /\ Restoring /\ RestoreTodo /\ Original
    BY DEF JournalInv, Shape
  <2>2. Restore(f)
    <3>1. tx.pc = "idle" /\ count \in Nat
      BY <2>1 DEF Transaction, Typed
    <3>2. \A g \in Files : ~Apply(g) /\ ~UndoWrite(g)
      BY <3>1 DEF Apply, UndoWrite, At
    <3>3. \A g \in Files, data \in UserData : ~Edit(g, data)
      BY <3>1 DEF Edit
    <3>4. PICK g \in Files : Restore(g)
      BY <3>2, <3>3, FileFrame
    <3>5. g = f
      BY <2>1, <3>4, RestoreEffect
    <3> QED BY <3>4, <3>5
  <2>3. /\ task.turn \in Turns /\ f \in task.todo
        /\ file'[f].data = DataOf(journal[task.turn].records[f].before)
    BY <2>1, <2>2, RestoreEffect
  <2> QED BY <2>1, <2>3 DEF RestoreTodo, Original
<1> QED BY <1>1, JournalInvariant, PTL DEF Spec, RestoresOrigin

\* Neither a rollback nor a recovery replaces contents that a kept turn wrote
\* (Manager.restore's check of the fingerprint).
THEOREM KeptWorkStays == Spec => KeptIsKept
<1> DEFINE Stays == \A f \in Files :
                      task.op \in {"rollback", "recover"} /\ writer[f] # Null /\ count' = count
                        => \/ file[f].data = Absent \/ file'[f].data = file[f].data
                           \/ fate[writer[f]] # "kept"
<1>1. JournalInv /\ [Next]_vars => Stays
  <2> SUFFICES ASSUME JournalInv, [Next]_vars, NEW f \in Files, task.op \in {"rollback", "recover"},
                      writer[f] # Null, count' = count, fate[writer[f]] = "kept",
                      file[f].data # Absent, file'[f].data # file[f].data
               PROVE  FALSE
    OBVIOUS
  <2>1. /\ Typed /\ Transaction /\ Restoring /\ RestoreTodo /\ Placed /\ Adopted /\ FateKnown /\ Foreign
    BY DEF JournalInv, Shape
  <2>2. Restore(f)
    <3>1. tx.pc = "idle" /\ count \in Nat
      BY <2>1 DEF Transaction, Typed
    <3>2. \A g \in Files : ~Apply(g) /\ ~UndoWrite(g)
      BY <3>1 DEF Apply, UndoWrite, At
    <3>3. \A g \in Files, data \in UserData : ~Edit(g, data)
      BY <3>1 DEF Edit
    <3>4. PICK g \in Files : Restore(g)
      BY <3>2, <3>3, FileFrame
    <3>5. g = f
      BY <2>1, <3>4, RestoreEffect
    <3> QED BY <3>4, <3>5
  <2>3. PICK t \in Turns : t = task.turn
    BY <2>1 DEF Restoring
  <2>4. f \in task.todo /\ file'[f].data = DataOf(journal[t].records[f].before)
    BY <2>1, <2>2, <2>3, RestoreEffect
  <2>5. fate[t] # "kept"
    BY <2>1, <2>3 DEF Restoring, Placed, Adopted, FateKnown
  <2>6. InJournal(t, f) /\ writer[f] \notin {t, Null} /\ journal[t].records[f].after = Fingerprint(f)
    BY <2>1, <2>2, <2>3, <2>4, <2>5 DEF RestoreTodo, Restore
  <2>7. Apart(t, f, journal[t].records[f])
    BY <2>1, <2>6 DEF Foreign
  <2>8. Fingerprint(f) # Absent /\ DataOf(Fingerprint(f)) = file[f].data
    BY <2>1, FingerprintFacts
  <2> QED BY <2>4, <2>6, <2>7, <2>8 DEF Apart
<1> QED BY <1>1, JournalInvariant, PTL DEF Spec, KeptIsKept
=============================================================================
