-------------------------- MODULE WorkspaceJournal --------------------------
(***************************************************************************)
(* The edit-transaction journal of one workspace                           *)
(* (internal/persist/workspacejournal) and the file broker that writes     *)
(* through it (internal/security/filebroker).                              *)
(*                                                                         *)
(* A turn begins a journal, file tools record a before-image of each path, *)
(* write it and record what they wrote, and the turn commits, suspends its *)
(* work as a draft or rolls it back.  Every record reaches a ledger on     *)
(* disk, from which the next process restores what a dead one left.  The   *)
(* process may stop between any two steps and the user may edit any file   *)
(* at any time.                                                            *)
(*                                                                         *)
(* The ledger is modelled by what replay returns of it: the outstanding    *)
(* turns and their order.  A torn last line is a line not written.  Files  *)
(* of one transaction or one journal are visited in any order, the code    *)
(* has a fixed one.  The check of a path and its write are one step.  An   *)
(* append that fails leaves Begin, Commit, Suspend, KeepDraft and          *)
(* ResumeDraft without effect; where it has one (Prepare, Record, Amend,   *)
(* the settling of a rollback or a revert) it is an alternative of the     *)
(* action.  Reading a path does not fail.  The journal is durable and      *)
(* recovers on start, as the configuration has it by default.              *)
(***************************************************************************)
EXTENDS Naturals, Sequences, FiniteSets, SequencesExt

CONSTANTS
  Files, Turns,
  Base,          \* contents of the workspace at first
  Writes,        \* contents file tools write; Absent deletes a file
  UserData,      \* contents a user writes
  Absent,        \* no file
  Null,
  MaxVersion,    \* bound on the changes of each path by tools
  MaxFaults      \* bound on new starts, edits of the user, cancellations and errors

Data == (Writes \cup UserData \cup {Base[f] : f \in Files}) \ {Absent}
Contents == Data \cup {Absent}

\* What Snapshot tells of a path, records of a journal and entries of the ledger.
Fingerprints == {Absent} \cup [data : Data, version : Nat]
Records == [before : Fingerprints, after : Fingerprints, held : BOOLEAN]
RecordSets == [Files -> Records \cup {Null}]
Entries == [owner : Nat, pid : Nat, committed : BOOLEAN, draft : BOOLEAN, records : RecordSets]

ASSUME JournalConstants ==
  /\ IsFiniteSet(Files) /\ IsFiniteSet(Turns)
  /\ Base \in [Files -> Contents]
  /\ Absent \notin [data : Data, version : Nat]
  /\ Null \notin Turns \cup Contents \cup Records \cup Entries
  /\ MaxVersion \in [Files -> Nat] /\ MaxFaults \in Nat

VARIABLES
  \* the workspace
  file,     \* contents and version of each path
  \* on disk
  ledger,   \* outstanding turns, Null for others
  order,    \* their order
  refs,     \* references of each stored before-image
  \* the manager
  proc,     \* its process, owner identity and stage
  journal,  \* journals in memory and where the manager keeps them
  task,     \* the restore under way
  tx,       \* the broker's transaction under way
  \* history, for the properties and the inputs
  fate,     \* what became of each turn
  writer,   \* the turn that wrote a path last, Null for the user and a restore
  origin,   \* contents of a path before the first write of the turn that is still there
  untold,   \* paths of a turn whose last contents the ledger was not told
  replaced, \* paths whose record a second Begin replaced, the turn's change still there
  count     \* starts, edits, cancellations and errors so far

vars == <<file, ledger, order, refs, proc, journal, task, tx, fate, writer, origin,
          untold, replaced, count>>
history == <<writer, origin, untold, replaced>>

-----------------------------------------------------------------------------
\* What Snapshot tells of a path: two prints are equal when the path was not changed, also
\* not to the same contents; missing files are alike.
Fingerprint(f) == IF file[f].data = Absent THEN Absent ELSE file[f]
DataOf(seen) == IF seen = Absent THEN Absent ELSE seen.data

\* A record of a journal: the print before the turn's first write and after its last one,
\* and whether it has the handle of a stored before-image.
NewRecord(f) == [before |-> Fingerprint(f), after |-> Fingerprint(f), held |-> Fingerprint(f) # Absent]
NoRecords == [f \in Files |-> Null]
Paths(records) == {f \in Files : records[f] # Null}
Changed(records) == \E f \in Paths(records) : DataOf(records[f].before) # DataOf(records[f].after)

\* Release of handles: content nobody references is deleted, a missing one is ignored.
Freed(records, paths, d) ==
  LET n == Cardinality({f \in paths : records[f].held /\ records[f].before.data = d})
  IN  IF refs[d] > n THEN refs[d] - n ELSE 0
Release(records, paths) == refs' = [d \in Data |-> Freed(records, paths, d)]

NoTask == [op |-> "none", turn |-> Null, step |-> "restore", todo |-> {}, conflict |-> FALSE]
NoTx == [pc |-> "idle", plan |-> NoRecords, before |-> NoRecords, todo |-> {}, done |-> {}]
NoJournal == [place |-> "none", records |-> NoRecords]

In(place) == {t \in Turns : journal[t].place = place}
Active == In("active")
Within == count < MaxFaults
Ready == proc.stage = "ready"
Idle == task.op = "none" /\ tx.pc = "idle"

\* The turns of a sequence that are in a set, in their order.
Selected(s, set) ==
  LET part[i \in 0..Len(s)] ==
        IF i = 0 THEN <<>> ELSE IF s[i] \in set THEN Append(part[i-1], s[i]) ELSE part[i-1]
  IN  part[Len(s)]

\* Mutant: a settled turn keeps its place.
WithoutNone(t) == order
Without(t) == Selected(order, Turns \ {t})

\* The ledger lines of one turn.
LogBegin(t) ==
  /\ ledger' = [ledger EXCEPT ![t] = [owner |-> proc.owner, pid |-> proc.pid,
                                      committed |-> FALSE, draft |-> FALSE, records |-> NoRecords]]
  /\ order' = Append(Without(t), t)
LogRecord(t, f, record) ==
  /\ ledger' = IF ledger[t] = Null THEN ledger ELSE [ledger EXCEPT ![t].records[f] = record]
  /\ order' = order
\* Mutant: the commit is not logged.
LogCommitSilent(t) == UNCHANGED <<ledger, order>>
LogCommit(t) ==
  /\ ledger' = IF ledger[t] = Null THEN ledger
               ELSE [ledger EXCEPT ![t].committed = TRUE, ![t].draft = FALSE]
  /\ order' = order
LogDraft(t) ==
  /\ ledger' = IF ledger[t] = Null THEN ledger ELSE [ledger EXCEPT ![t].draft = TRUE]
  /\ order' = order
LogSettled(t) == ledger' = [ledger EXCEPT ![t] = Null] /\ order' = Without(t)
LogResume(s, r) ==
  IF ledger[s] = Null \/ ledger[r] # Null THEN UNCHANGED <<ledger, order>>
  ELSE /\ ledger' = [ledger EXCEPT ![s] = Null,
                       ![r] = [ledger[s] EXCEPT !.owner = proc.owner, !.pid = proc.pid,
                                                !.draft = TRUE]]
       /\ order' = ReplaceAll(order, s, r)

\* History: what turn t changed of path f is still there.
Left(t, f) == writer[f] = t /\ file[f].data # origin[t][f]
\* Paths of the active turn, among some, that the ledger knows with other contents than now.
Missed(paths) == [t \in Turns |->
  IF t \in Active
  THEN untold[t] \cup {f \in paths : ledger[t].records[f].after # Fingerprint(f)}
  ELSE untold[t]]

-----------------------------------------------------------------------------
(* The turn and its journal *)

\* Scope.Run opens the journal of its turn, anew when it resumes a turn that had not ended.
\* The workspace gate keeps it waiting while another turn is rolled back.  The second Begin
\* of a turn replaces its entry in the ledger, also the records of changes that are still in
\* the workspace: those of a conflict, or of a turn that Recover left to a living process.
Begin(t) ==
  /\ Ready /\ fate[t] \in {"fresh", "open"}
  /\ task.op \in {"none", "revert"} /\ tx.pc = "idle"
  /\ Active = {} /\ In("draft") = {}
  /\ LogBegin(t)
  /\ journal' = [journal EXCEPT ![t] = [place |-> "active", records |-> NoRecords]]
  /\ fate' = [fate EXCEPT ![t] = "open"]
  /\ untold' = [untold EXCEPT ![t] = {}]
  /\ replaced' = [replaced EXCEPT ![t] = @ \cup {f \in Files : Left(t, f)}]
  /\ UNCHANGED <<file, refs, proc, task, tx, writer, origin, count>>

\* A Continue takes over the draft of its source when it starts, or its own after a restart.
ResumeDraft(s, r) ==
  /\ Ready /\ Idle /\ Active = {} /\ s \in In("draft")
  /\ IF s = r THEN fate[r] = "open" ELSE fate[r] = "fresh" /\ fate[s] = "draft"
  /\ IF s = r
     THEN /\ journal' = [journal EXCEPT ![s].place = "active"]
          /\ UNCHANGED <<ledger, order, fate, history>>
     ELSE /\ LogResume(s, r)
          /\ journal' = [journal EXCEPT ![s] = NoJournal,
                           ![r] = [place |-> "active", records |-> journal[s].records]]
          /\ fate' = [fate EXCEPT ![s] = "resumed", ![r] = "open"]
          /\ writer' = [f \in Files |-> IF writer[f] = s THEN r ELSE writer[f]]
          /\ origin' = [origin EXCEPT ![r] = origin[s], ![s] = NoRecords]
          /\ untold' = [untold EXCEPT ![r] = untold[s], ![s] = {}]
          /\ replaced' = [replaced EXCEPT ![r] = replaced[s], ![s] = {}]
  /\ UNCHANGED <<file, refs, proc, task, tx, count>>

\* finishActiveLocked: records of untouched paths are dropped.
Touched(records) == [f \in Files |->
  IF records[f] # Null /\ records[f].before # records[f].after THEN records[f] ELSE Null]
Untouched(records) == {f \in Paths(records) : records[f].before = records[f].after}

\* The images of untouched paths are released right after the append, in one step with it: a
\* process that dies between the two leaves them to Recover.
Commit(t) ==
  /\ Ready /\ Idle /\ t \in Active
  /\ LogCommit(t)
  /\ Release(journal[t].records, Untouched(journal[t].records))
  /\ journal' = [journal EXCEPT ![t] = [place |-> "committed",
                                        records |-> Touched(journal[t].records)]]
  /\ fate' = [fate EXCEPT ![t] = "kept"]
  /\ UNCHANGED <<file, proc, task, tx, history, count>>

Suspend(t) ==
  /\ Ready /\ Idle /\ t \in Active
  /\ IF Changed(journal[t].records)
     THEN /\ LogDraft(t)
          /\ journal' = [journal EXCEPT ![t].place = "draft"]
          /\ fate' = [fate EXCEPT ![t] = "draft"]
          /\ refs' = refs
     ELSE /\ LogSettled(t)
          /\ Release(journal[t].records, Untouched(journal[t].records))
          /\ journal' = [journal EXCEPT ![t] = NoJournal]
          /\ fate' = [fate EXCEPT ![t] = "settled"]
  /\ UNCHANGED <<file, proc, task, tx, history, count>>

\* The user withdraws a turn whose work is a draft: the files stay.
KeepDraft(t) ==
  /\ Ready /\ Idle /\ t \in In("draft") /\ fate[t] = "draft"
  /\ LogCommit(t)
  /\ journal' = [journal EXCEPT ![t].place = "committed"]
  /\ fate' = [fate EXCEPT ![t] = "kept"]
  /\ UNCHANGED <<file, refs, proc, task, tx, history, count>>

-----------------------------------------------------------------------------
(* restore *)

StartTask(op, t, records) ==
  task' = [NoTask EXCEPT !.op = op, !.turn = t, !.todo = Paths(records)]

Rollback(t) ==
  /\ Ready /\ Idle /\ t \in Active \cup In("unresolved")
  /\ StartTask("rollback", t, journal[t].records)
  /\ journal' = [journal EXCEPT ![t].place = "rollback"]
  /\ fate' = [fate EXCEPT ![t] = "undone"]
  /\ UNCHANGED <<file, ledger, order, refs, proc, tx, history, count>>

\* A retry of the turn, the deletion of its session, a revert by the user or by revert_turn
\* (which runs serially with the file tools).
Revert(t) ==
  /\ Ready /\ Idle /\ t \in In("committed") \cup In("draft")
  /\ StartTask("revert", t, journal[t].records)
  /\ UNCHANGED <<file, ledger, order, refs, proc, journal, tx, fate, history, count>>

\* One record: the file is put back when it is as the record left it, the handle and the
\* record are dropped.
Restore(f) ==
  LET t == task.turn
      record == journal[t].records[f]
  IN  /\ task.op # "none" /\ f \in task.todo
      /\ Fingerprint(f) = record.after
      /\ record.before = Absent \/ (record.held /\ refs[record.before.data] > 0)
      /\ file' = [file EXCEPT ![f] = [data |-> DataOf(record.before), version |-> @.version + 1]]
      /\ Release(journal[t].records, {f})
      /\ journal' = [journal EXCEPT ![t].records[f] = Null]
      /\ task' = [task EXCEPT !.todo = @ \ {f}]
      /\ writer' = [writer EXCEPT ![f] = Null]
      /\ UNCHANGED <<ledger, order, proc, tx, fate, origin, untold, replaced, count>>

\* The file changed after the recorded write, or its before-image is gone.
Conflict(f) ==
  LET record == journal[task.turn].records[f]
  IN  /\ task.op # "none" /\ f \in task.todo
      /\ \/ Fingerprint(f) # record.after
         \/ record.before # Absent /\ ~(record.held /\ refs[record.before.data] > 0)
      /\ task' = [task EXCEPT !.todo = @ \ {f}, !.conflict = TRUE]
      /\ UNCHANGED <<file, ledger, order, refs, proc, journal, tx, fate, history, count>>

\* Rollback after restore: with a conflict the journal can be rolled back again.
RollbackDone ==
  LET t == task.turn
  IN  /\ task.op = "rollback" /\ task.step = "restore" /\ task.todo = {}
      /\ \/ /\ task.conflict
            /\ journal' = [journal EXCEPT ![t].place = "unresolved"]
            /\ UNCHANGED <<ledger, order, count>>
         \/ /\ ~task.conflict
            /\ LogSettled(t)
            /\ journal' = [journal EXCEPT ![t] = NoJournal]
            /\ count' = count
         \/ /\ ~task.conflict /\ Within
            /\ count' = count + 1
            /\ journal' = [journal EXCEPT ![t].place = "unresolved"]
            /\ UNCHANGED <<ledger, order>>
      /\ task' = NoTask
      /\ UNCHANGED <<file, refs, proc, tx, fate, history>>

\* Revert after restore: the manager forgets the turn before the ledger does, also when the
\* append fails.
RevertDone ==
  LET t == task.turn
  IN  /\ task.op = "revert" /\ task.step = "restore" /\ task.todo = {}
      /\ IF task.conflict
         THEN task' = NoTask /\ UNCHANGED <<journal, fate>>
         ELSE /\ task' = [task EXCEPT !.step = "settle"]
              /\ journal' = [journal EXCEPT ![t] = NoJournal]
              /\ fate' = [fate EXCEPT ![t] = "undone"]
      /\ UNCHANGED <<file, ledger, order, refs, proc, tx, history, count>>

RevertSettled ==
  /\ task.op = "revert" /\ task.step = "settle"
  /\ \/ LogSettled(task.turn) /\ count' = count
     \/ Within /\ count' = count + 1 /\ UNCHANGED <<ledger, order>>
  /\ task' = NoTask
  /\ UNCHANGED <<file, refs, proc, journal, tx, fate, history>>

-----------------------------------------------------------------------------
(* The broker's transaction, for the active turn *)

At(pc) == tx.pc = pc /\ Active # {}
Turn == CHOOSE t \in Active : TRUE
Targets == Paths(tx.plan)

\* A file tool plans new contents for some paths, on what they hold now.
Plan(plan) ==
  /\ Ready /\ Idle /\ Active # {} /\ Paths(plan) # {}
  /\ \A f \in Paths(plan) : plan[f] # file[f].data /\ file[f].version < MaxVersion[f]
  /\ tx' = [NoTx EXCEPT !.pc = "prepare", !.plan = plan, !.todo = Paths(plan),
                        !.before = [f \in Files |-> IF plan[f] = Null THEN Null ELSE Fingerprint(f)]]
  /\ UNCHANGED <<file, ledger, order, refs, proc, journal, task, fate, history, count>>

\* Mutant: the record is not on disk before the write.
BeforeUnlogged(f) ==
  IF journal[Turn].records[f] # Null THEN UNCHANGED <<ledger, order, refs, journal>>
  ELSE /\ refs' = IF Fingerprint(f) = Absent THEN refs ELSE [refs EXCEPT ![file[f].data] = @ + 1]
       /\ journal' = [journal EXCEPT ![Turn].records[f] = NewRecord(f)]
       /\ UNCHANGED <<ledger, order>>
\* Mutant: every transaction records its own before-image.
BeforeAgain(f) ==
  /\ refs' = IF Fingerprint(f) = Absent THEN refs ELSE [refs EXCEPT ![file[f].data] = @ + 1]
  /\ LogRecord(Turn, f, NewRecord(f))
  /\ journal' = [journal EXCEPT ![Turn].records[f] = NewRecord(f)]
\* Manager.Before: the image is stored and the record logged, once per path and turn.
Before(f) ==
  IF journal[Turn].records[f] # Null THEN UNCHANGED <<ledger, order, refs, journal>>
  ELSE /\ refs' = IF Fingerprint(f) = Absent THEN refs ELSE [refs EXCEPT ![file[f].data] = @ + 1]
       /\ LogRecord(Turn, f, NewRecord(f))
       /\ journal' = [journal EXCEPT ![Turn].records[f] = NewRecord(f)]

\* Manager.After: what the path holds now is what the turn left.
After(f) ==
  LET record == [journal[Turn].records[f] EXCEPT !.after = Fingerprint(f)]
  IN  /\ journal' = [journal EXCEPT ![Turn].records[f] = record]
      /\ LogRecord(Turn, f, record)
      /\ untold' = [untold EXCEPT ![Turn] = @ \ {f}]
\* The append fails, after the record in memory was changed.
AfterFails(f) ==
  /\ Within /\ count' = count + 1
  /\ journal' = [journal EXCEPT ![Turn].records[f].after = Fingerprint(f)]
  /\ UNCHANGED <<ledger, order>>

Advanced(pc, f) == IF tx.todo = {f} THEN [tx EXCEPT !.pc = pc, !.todo = Targets]
                ELSE [tx EXCEPT !.todo = @ \ {f}]

\* commitConsumed, first loop.  The transaction ends when a path changed, before or after its
\* before-image was taken, or the image cannot be stored.
Prepare(f) ==
  /\ At("prepare") /\ f \in tx.todo
  /\ \/ /\ Fingerprint(f) = tx.before[f] /\ Before(f)
        /\ tx' = Advanced("apply", f)
        /\ count' = count
     \/ /\ Fingerprint(f) # tx.before[f]
        /\ Before(f) \/ UNCHANGED <<ledger, order, refs, journal>>
        /\ tx' = NoTx /\ count' = count
     \/ /\ Within
        /\ tx' = NoTx /\ count' = count + 1
        /\ UNCHANGED <<ledger, order, refs, journal>>
  /\ IF journal[Turn].records[f] = Null /\ journal'[Turn].records[f] # Null /\ ~Left(Turn, f)
     THEN /\ origin' = [origin EXCEPT ![Turn][f] = file[f].data]
          /\ replaced' = [replaced EXCEPT ![Turn] = @ \ {f}]
     ELSE UNCHANGED <<origin, replaced>>
  /\ UNCHANGED <<file, proc, task, fate, writer, untold>>

Undo(done) == [tx EXCEPT !.pc = IF done = {} THEN "amend" ELSE "undo", !.done = done,
                         !.todo = IF done = {} THEN Targets ELSE done]

\* Second loop.  A path that changed undoes what was written ...
Apply(f) ==
  /\ At("apply") /\ f \in tx.todo
  /\ \/ /\ Fingerprint(f) = tx.before[f]
        /\ file' = [file EXCEPT ![f] = [data |-> tx.plan[f], version |-> @.version + 1]]
        /\ writer' = [writer EXCEPT ![f] = Turn]
        /\ tx' = [Advanced("record", f) EXCEPT !.done = @ \cup {f}]
     \/ /\ Fingerprint(f) # tx.before[f]
        /\ tx' = Undo(tx.done)
        /\ UNCHANGED <<file, writer>>
  /\ UNCHANGED <<ledger, order, refs, proc, journal, task, fate, origin, untold, replaced, count>>

\* ... and so does a canceled context or a write that fails.
Canceled ==
  /\ At("apply") /\ Within
  /\ tx' = Undo(tx.done) /\ count' = count + 1
  /\ UNCHANGED <<file, ledger, order, refs, proc, journal, task, fate, history>>

\* Third loop: the result is compared with the plan and recorded.
Record(f) ==
  /\ At("record") /\ f \in tx.todo
  /\ \/ /\ file[f].data = tx.plan[f] /\ After(f)
        /\ tx' = IF tx.todo = {f} THEN NoTx ELSE [tx EXCEPT !.todo = @ \ {f}]
        /\ count' = count
     \/ /\ file[f].data # tx.plan[f]
        /\ tx' = Undo(tx.done)
        /\ UNCHANGED <<ledger, order, journal, untold, count>>
     \/ /\ file[f].data = tx.plan[f] /\ AfterFails(f)
        /\ tx' = Undo(tx.done)
        /\ untold' = untold
  /\ UNCHANGED <<file, refs, proc, task, fate, writer, origin, replaced>>

\* rollback: what was written is put back unless it changed again or this fails too ...
UndoWrite(f) ==
  /\ At("undo") /\ f \in tx.todo
  /\ \/ /\ file' = IF file[f].data # tx.plan[f] THEN file ELSE
             [file EXCEPT ![f] = [data |-> DataOf(tx.before[f]), version |-> @.version + 1]]
        /\ count' = count
     \/ Within /\ count' = count + 1 /\ file' = file
  /\ tx' = Advanced("amend", f)
  /\ UNCHANGED <<ledger, order, refs, proc, journal, task, fate, history>>

\* ... and every path of the plan is recorded as it is now.  A failing append is reported with
\* the transaction's error, and the turn goes on.
Amend(f) ==
  /\ At("amend") /\ f \in tx.todo
  /\ \/ After(f) /\ count' = count
     \/ AfterFails(f) /\ untold' = Missed({f})
  /\ tx' = IF tx.todo = {f} THEN NoTx ELSE [tx EXCEPT !.todo = @ \ {f}]
  /\ UNCHANGED <<file, refs, proc, task, fate, writer, origin, replaced>>

-----------------------------------------------------------------------------
(* The process *)

\* Open: a fresh owner, in a new process or as the replacement of a closed manager.
Open(replaces) ==
  /\ proc.stage = "closed" /\ Within
  /\ replaces => proc.clean
  /\ proc' = [stage |-> "recovering", owner |-> proc.owner + 1, clean |-> FALSE, todo |-> order,
              pid |-> IF replaces THEN proc.pid ELSE proc.owner + 1, keep |-> [t \in Turns |-> Null]]
  /\ count' = count + 1
  /\ UNCHANGED <<file, ledger, order, refs, journal, task, tx, fate, history>>

Recovering(t) == proc.stage = "recovering" /\ task.op = "none" /\ proc.todo # <<>> /\ t = Head(proc.todo)
EmptyDraft(t) == ledger[t].draft /\ ~Changed(ledger[t].records)
\* Mutant: every process that left a pid is taken for a living one.
AliveAnyPid(t) == ledger[t].pid # 0
Alive(t) == ledger[t].pid = proc.pid
Kept(t, entry) == proc' = [proc EXCEPT !.todo = Tail(@), !.keep[t] = entry]

\* Recover, one outstanding turn after the other: an empty draft or a committed turn is
\* dropped and its images released ...
RecoverDrop(t) ==
  /\ Recovering(t)
  /\ EmptyDraft(t) \/ ledger[t].committed
  /\ Release(ledger[t].records, Paths(ledger[t].records))
  /\ Kept(t, Null)
  /\ UNCHANGED <<file, ledger, order, journal, task, tx, fate, history, count>>

\* ... a turn of a living process is left alone ...
RecoverSkip(t) ==
  /\ Recovering(t) /\ ~EmptyDraft(t) /\ ~ledger[t].committed /\ Alive(t)
  /\ Kept(t, ledger[t])
  /\ UNCHANGED <<file, ledger, order, refs, journal, task, tx, fate, history, count>>

\* Mutant: the adopted draft is not written to the compacted ledger.
RecoverDraftMemory(t) ==
  /\ Recovering(t) /\ ~EmptyDraft(t) /\ ~ledger[t].committed /\ ~Alive(t) /\ ledger[t].draft
  /\ journal' = [journal EXCEPT ![t] = [place |-> "draft", records |-> ledger[t].records]]
  /\ Kept(t, Null)
  /\ UNCHANGED <<file, ledger, order, refs, task, tx, fate, history, count>>
\* ... a draft is adopted ...
RecoverDraft(t) ==
  /\ Recovering(t) /\ ~EmptyDraft(t) /\ ~ledger[t].committed /\ ~Alive(t) /\ ledger[t].draft
  /\ journal' = [journal EXCEPT ![t] = [place |-> "draft", records |-> ledger[t].records]]
  /\ Kept(t, ledger[t])
  /\ UNCHANGED <<file, ledger, order, refs, task, tx, fate, history, count>>

\* ... and any other one is restored.
RecoverTurn(t) ==
  /\ Recovering(t) /\ ~EmptyDraft(t) /\ ~ledger[t].committed /\ ~Alive(t) /\ ~ledger[t].draft
  /\ StartTask("recover", t, ledger[t].records)
  /\ journal' = [journal EXCEPT ![t] = [place |-> "adopted", records |-> ledger[t].records]]
  /\ UNCHANGED <<file, ledger, order, refs, proc, tx, fate, history, count>>

\* With a conflict the turn is kept, the records already restored without their handles.
RecoverDone ==
  LET t == task.turn
      left == [f \in Files |-> IF journal[t].records[f] # Null \/ ledger[t].records[f] = Null
                               THEN ledger[t].records[f]
                               ELSE [ledger[t].records[f] EXCEPT !.held = FALSE]]
  IN  /\ task.op = "recover" /\ task.todo = {}
      /\ Kept(t, IF task.conflict THEN [ledger[t] EXCEPT !.records = left] ELSE Null)
      /\ journal' = [journal EXCEPT ![t] = NoJournal]
      /\ task' = NoTask
      /\ UNCHANGED <<file, ledger, order, refs, tx, fate, history, count>>

\* compact: the ledger is replaced by the turns to keep, in one rename.  A draft that looked
\* empty to RecoverDrop is gone with it.
RecoverCompact ==
  /\ proc.stage = "recovering" /\ task.op = "none" /\ proc.todo = <<>>
  /\ ledger' = proc.keep
  /\ order' = Selected(order, {t \in Turns : proc.keep[t] # Null})
  /\ proc' = [proc EXCEPT !.stage = "ready", !.keep = [t \in Turns |-> Null]]
  /\ fate' = [t \in Turns |-> IF fate[t] = "draft" /\ proc.keep[t] = Null THEN "dropped"
                              ELSE fate[t]]
  /\ UNCHANGED <<file, refs, journal, task, tx, history, count>>

\* Close gives up the images of committed turns ...
Close ==
  /\ Ready /\ Idle
  /\ refs' = [d \in Data |->
       LET held == {p \in In("committed") \X Files :
                      /\ journal[p[1]].records[p[2]] # Null
                      /\ journal[p[1]].records[p[2]].held
                      /\ journal[p[1]].records[p[2]].before.data = d}
       IN  IF refs[d] > Cardinality(held) THEN refs[d] - Cardinality(held) ELSE 0]
  /\ proc' = [proc EXCEPT !.stage = "closing"]
  /\ UNCHANGED <<file, ledger, order, journal, task, tx, fate, history, count>>

\* ... settles them in the ledger and hands its drafts to whoever opens the journal next.
Closed ==
  /\ proc.stage = "closing"
  /\ ledger' = [t \in Turns |->
       IF journal[t].place = "committed" THEN Null
       ELSE IF ledger[t] # Null /\ ledger[t].draft /\ ledger[t].owner = proc.owner
       THEN [ledger[t] EXCEPT !.owner = 0, !.pid = 0] ELSE ledger[t]]
  /\ order' = Selected(order, Turns \ In("committed"))
  /\ proc' = [proc EXCEPT !.stage = "closed", !.clean = TRUE]
  /\ journal' = [t \in Turns |-> NoJournal]
  /\ UNCHANGED <<file, refs, task, tx, fate, history, count>>

\* The process dies.  Of a path it wrote and had not recorded the ledger does not know the
\* contents: a torn write, which restore leaves.
Crash ==
  /\ proc.stage # "closed"
  /\ proc' = [proc EXCEPT !.stage = "closed", !.todo = <<>>, !.keep = [t \in Turns |-> Null]]
  /\ journal' = [t \in Turns |-> NoJournal]
  /\ task' = NoTask /\ tx' = NoTx
  /\ untold' = Missed(tx.done)
  /\ UNCHANGED <<file, ledger, order, refs, fate, writer, origin, replaced, count>>

\* The user changes, creates or deletes a file.
Edit(f, data) ==
  /\ Within /\ data # file[f].data
  /\ file' = [file EXCEPT ![f] = [data |-> data, version |-> @.version + 1]]
  /\ writer' = [writer EXCEPT ![f] = Null]
  /\ count' = count + 1
  /\ UNCHANGED <<ledger, order, refs, proc, journal, task, tx, fate, origin, untold, replaced>>

-----------------------------------------------------------------------------
Init ==
  /\ file = [f \in Files |-> [data |-> Base[f], version |-> 0]]
  /\ ledger = [t \in Turns |-> Null] /\ order = <<>>
  /\ refs = [d \in Data |-> 0]
  /\ proc = [stage |-> "ready", owner |-> 1, pid |-> 1, clean |-> FALSE, todo |-> <<>>,
             keep |-> [t \in Turns |-> Null]]
  /\ journal = [t \in Turns |-> NoJournal]
  /\ task = NoTask /\ tx = NoTx
  /\ fate = [t \in Turns |-> "fresh"]
  /\ writer = [f \in Files |-> Null]
  /\ origin = [t \in Turns |-> NoRecords]
  /\ untold = [t \in Turns |-> {}] /\ replaced = [t \in Turns |-> {}]
  /\ count = 0

TurnStep == \E t \in Turns :
  \/ Begin(t) \/ Commit(t) \/ Suspend(t) \/ KeepDraft(t) \/ Rollback(t) \/ Revert(t)
  \/ \E r \in Turns : ResumeDraft(t, r)
RestoreStep == (\E f \in Files : Restore(f) \/ Conflict(f)) \/ RollbackDone \/ RevertDone \/ RevertSettled
BrokerStep ==
  \/ \E plan \in [Files -> Writes \cup {Null}] : Plan(plan)
  \/ \E f \in Files : Prepare(f) \/ Apply(f) \/ Record(f) \/ UndoWrite(f) \/ Amend(f)
  \/ Canceled
ProcessStep ==
  \/ \E replaces \in BOOLEAN : Open(replaces)
  \/ \E t \in Turns : RecoverDrop(t) \/ RecoverSkip(t) \/ RecoverDraft(t) \/ RecoverTurn(t)
  \/ RecoverDone \/ RecoverCompact \/ Close \/ Closed \/ Crash
UserStep == \E f \in Files, data \in UserData : Edit(f, data)

Next == TurnStep \/ RestoreStep \/ BrokerStep \/ ProcessStep \/ UserStep
Spec == Init /\ [][Next]_vars

-----------------------------------------------------------------------------
Places == {"none", "active", "committed", "draft", "unresolved", "rollback", "adopted"}
Fates == {"fresh", "open", "kept", "draft", "resumed", "settled", "dropped", "undone"}

\* Types, and what the manager's fields and the stages of restore and transaction exclude: one
\* active turn, a transaction only for it, the order lists the outstanding turns once.
TypeOK ==
  /\ file \in [Files -> [data : Contents, version : Nat]]
  /\ ledger \in [Turns -> Entries \cup {Null}]
  /\ Range(order) = {t \in Turns : ledger[t] # Null} /\ Len(order) = Cardinality(Range(order))
  /\ refs \in [Data -> Nat]
  /\ proc.stage \in {"closed", "recovering", "ready", "closing"}
  /\ proc.owner \in Nat /\ proc.pid \in Nat /\ proc.clean \in BOOLEAN
  /\ proc.keep \in [Turns -> Entries \cup {Null}] /\ Range(proc.todo) \subseteq Turns
  /\ journal \in [Turns -> [place : Places, records : RecordSets]]
  /\ Cardinality(Active) <= 1 /\ (tx.pc # "idle" => Active # {} /\ task.op = "none")
  /\ task.op \in {"none", "rollback", "revert", "recover"} /\ task.todo \subseteq Files
  /\ task.turn \in Turns \cup {Null} /\ task.conflict \in BOOLEAN
  /\ tx.pc \in {"idle", "prepare", "apply", "record", "undo", "amend"}
  /\ tx.todo \subseteq Targets /\ tx.done \subseteq Targets
  /\ fate \in [Turns -> Fates] /\ writer \in [Files -> Turns \cup {Null}]
  /\ origin \in [Turns -> [Files -> Contents \cup {Null}]]
  /\ untold \in [Turns -> SUBSET Files] /\ replaced \in [Turns -> SUBSET Files]

\* As long as a change of a turn is in the workspace and nobody decided to keep it, the ledger
\* has the record that undoes it: contents before the turn's first write, over several
\* transactions, resumed drafts, failing appends, torn writes and restarts (Manager.Before, the
\* ledger).  The record is lost in two ways only: a second Begin of the turn replaced it, or the
\* ledger had not been told of the change and the turn's other changes were gone.
Recorded ==
  \A t \in Turns, f \in Files :
    Left(t, f) /\ fate[t] # "kept" /\ f \notin replaced[t] =>
      \/ f \in untold[t] /\ ledger[t] = Null
      \/ /\ ledger[t] # Null /\ ledger[t].records[f] # Null
         /\ DataOf(ledger[t].records[f].before) = origin[t][f]
         /\ origin[t][f] # Absent => ledger[t].records[f].held

\* Path f holds the change of an interrupted turn whose process is dead and which is no draft,
\* and the file is as the ledger knows it: it should have been restored.
Abandoned(t, f) ==
  /\ Ready /\ Left(t, f) /\ fate[t] = "open" /\ t \notin Active
  /\ ledger[t] # Null /\ ~ledger[t].draft /\ ledger[t].pid # proc.pid
  /\ ledger[t].records[f] # Null /\ ledger[t].records[f].after = Fingerprint(f)

\* When Recover has compacted the ledger it leaves no change of an interrupted turn that it
\* can undo: the file is not as the ledger knows it, or the before-image is gone.  (Another
\* turn may store the same contents later.)
Recovered ==
  [][proc.stage = "recovering" /\ Ready' =>
       \A t \in Turns, f \in Files :
         Abandoned(t, f)' => LET d == DataOf(ledger'[t].records[f].before)
                             IN  d # Absent /\ refs'[d] = 0]_vars

\* Recover restores the before-images of interrupted turns whose process is dead.
RestoresAbandoned == \A t \in Turns, f \in Files : ~Abandoned(t, f)

\* A draft is not lost by crashes, restarts and closes: a manager that is ready offers it, with
\* the before-image of every path the turn changed (but for those a second Begin replaced), and
\* as the ledger was told it.  Only a draft the ledger was not told all of is taken for empty
\* and dropped (Suspend, Amend, Recover, Close).
DraftSurvives ==
  \A t \in Turns :
    /\ fate[t] = "dropped" => untold[t] # {}
    /\ fate[t] = "draft" =>
       /\ ledger[t] # Null /\ ledger[t].draft /\ ~ledger[t].committed
       /\ Ready =>
          /\ t \in In("draft")
          /\ \A f \in Files : Left(t, f) /\ f \notin replaced[t] =>
               LET here == journal[t].records[f]
                   there == ledger[t].records[f]
               IN  /\ f \in untold[t] \/ here = there
                   /\ here # Null /\ here.before = there.before /\ here.held = there.held

\* The restore of a change puts back what the path held before the turn's first write, over
\* several transactions, a resumed draft, failing appends and restarts, unless a second Begin of
\* the turn replaced the record.
RestoresOrigin ==
  [][\A f \in Files :
       task.op # "none" /\ writer[f] = task.turn /\ file'[f] # file[f] /\ count' = count
         => file'[f].data = origin[task.turn][f] \/ f \in replaced[task.turn]]_vars

\* Neither a rollback nor a recovery replaces or removes contents that a kept turn wrote: one
\* that committed, or a draft the user withdrew.  (Missing files are alike: that a kept turn
\* deleted a path again is not told from an earlier turn's deletion.)
KeptIsKept ==
  [][\A f \in Files :
       task.op \in {"rollback", "recover"} /\ writer[f] # Null /\ count' = count
         => \/ file[f].data = Absent \/ file'[f].data = file[f].data
            \/ fate[writer[f]] # "kept"]_vars
=============================================================================
