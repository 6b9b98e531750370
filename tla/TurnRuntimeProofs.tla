------------------------ MODULE TurnRuntimeProofs ------------------------
(***************************************************************************)
(* What holds of every running turn, for every set of identities, every    *)
(* policy and all bounds: the registry of the dispatcher agrees with the   *)
(* durable turn state, no tool runs for a closed call, the files are as    *)
(* the turn decided, and the goroutines, the crashes and the restarts      *)
(* together give the turn state machine no step it does not have, so that  *)
(* what TurnKernelTheorems proves of Spec holds of the running turn.       *)
(***************************************************************************)
EXTENDS TurnRuntime, TurnKernelTheorems, WellFoundedInduction

-----------------------------------------------------------------------------
(* The inductive invariant *)

\* What a retained result is, by the kind of its effect: a failed reply says nothing else.
FinalReply == {r \in Reply : r.ok \/ r = NoReply}

\* What was retained for the effect of an entry is a result of its kind.
KeptFits(x) ==
  /\ x.kind = "sample_provider" => x.kept \in {Null} \cup FinalReply
  /\ x.kind = "execute_tool" => x.kept \in {Null} \cup ToolOutcome

\* The route of effect e: it agrees with the effect while that is pending; afterwards only
\* the route of an approval stays, whose call is closed and will not be asked about again.
RouteFits(e) ==
  /\ routed[e] \in Entry /\ KeptFits(routed[e])
  /\ IF e \in DOMAIN effects
     THEN /\ routed[e].kind = effects[e].kind /\ routed[e].call = effects[e].call
          /\ routed[e].started <=> effects[e].status = "running"
     ELSE /\ routed[e].kind = "await_approval"
          /\ routed[e].call \in Calls /\ calls[routed[e].call] = "closed"

\* The registry routes effects the turn has requested, and each of its routes fits.
Routes ==
  /\ DOMAIN routed \subseteq 1..seq
  /\ \A e \in DOMAIN routed : RouteFits(e)

\* A running process has a route for every pending effect; one that is down has none.
RoutesComplete == IF Up THEN DOMAIN effects \subseteq DOMAIN routed ELSE DOMAIN routed = {}

\* Where the engine is, and what it may rely on there.
EngineFits ==
  /\ eng \in EngineState /\ eng.reply \in FinalReply
  /\ eng.at = "begin" => eng.sample \in Samples /\ ~SamplePending
  /\ eng.at \in {"abort", "discard", "request"} => eng.want # NoDecision
  /\ eng.at = "abortTools" => eng.want # NoDecision \/ eng.failed
  /\ eng.at \in {"journal", "driver", "settle", "finish"} =>
       phase = "committing" /\ eng.want = decision
  /\ eng.at \in {"driver", "settle"} => mutation # 0 \/ Policy.journalRequired
  /\ eng.at = "settle" /\ ~eng.failed => disk = JournalOutcome(decision)

\* A cancellation that is not a user's is the one the turn accepted, for good.
CancelFits ==
  /\ decision \in Decisions \cup {NoDecision}
  /\ eng.want.kind = "canceled" /\ ~eng.want.user => cancel = "other"
  /\ decision.kind = "canceled" /\ ~decision.user => cancel = "other"

\* The tools of a batch run while the engine is in it, for the calls that are open.
JobsFit ==
  /\ job \in [Calls -> {"idle", "started", "asking", "answered", "done"}]
  /\ NoOrphanTool
  /\ \A c \in Calls :
       /\ eng.at \notin {"tools", "batch", "closing", "declare"} => job[c] = "idle"
       /\ eng.at = "tools" => job[c] \in {"idle", "started"}
       /\ eng.at \in {"closing", "declare"} => job[c] \in {"idle", "done"}

\* The mutex is held across two commits only for a pending approval of the batch.
LockFits ==
  locked # 0 =>
    /\ eng.at \in {"batch", "closing", "declare"}
    /\ locked \in DOMAIN effects
    /\ effects[locked].kind = "await_approval"

\* A tool asks for one approval at a time.
OneApproval ==
  \A r, q \in Requests : approvals[r] # Null /\ approvals[r] = approvals[q] => r = q

\* What was done to the files is what the decision asks for, and what is recorded is done.
FilesFit ==
  /\ disk # "open" => /\ phase \in {"committing"} \cup Terminal
                      /\ disk = JournalOutcome(decision)
                      /\ mutation # 0 \/ Policy.journalRequired
  /\ journal \in SettledJournal => disk = journal

\* The rest of the process state has its type.
RestTyped ==
  /\ locked \in 0..seq
  /\ ctx \in Context
  /\ disk \in {"open"} \cup SettledJournal
  /\ faults \in [crashes : 0..MaxCrashes, errors : 0..MaxErrors]

\* The inductive invariant of a running turn, next to KernelInv of its turn state.
RuntimeInv ==
  /\ Routes /\ RoutesComplete
  /\ EngineFits /\ CancelFits
  /\ JobsFit /\ LockFits /\ OneApproval
  /\ FilesFit /\ RestTyped

-----------------------------------------------------------------------------
(* Finding an effect *)

\* The first of a set of effects exists.
LEMMA LowestExists ==
  ASSUME NEW S, S \subseteq Nat, S # {}
  PROVE  Lowest(S) # {}
<1>1. PICK x \in S : \A y \in S : ~(<<y, x>> \in OpToRel(<, Nat))
  BY NatLessThanWellFounded, WFMin
<1>2. ASSUME NEW y \in S PROVE x <= y
  <2>1. x \in Nat /\ y \in Nat
    OBVIOUS
  <2>2. ~(y < x)
    BY <1>1, <2>1 DEF OpToRel
  <2> QED BY <2>1, <2>2
<1> QED BY <1>2 DEF Lowest

\* What findLocked finds is a route, and it finds one if there is any.
LEMMA Found ==
  ASSUME Routes, seq \in Nat, NEW kind, NEW call
  PROVE  /\ \A e \in Find(kind, call) :
              /\ e \in DOMAIN routed /\ routed[e].kind = kind
              /\ call # Null => routed[e].call = call
         /\ Find(kind, Null) = {} => \A e \in DOMAIN routed : routed[e].kind # kind
<1> DEFINE S == {e \in DOMAIN routed : routed[e].kind = kind /\ (Null = Null \/ routed[e].call = Null)}
<1>1. S \subseteq Nat
  BY DEF Routes
<1>2. Find(kind, Null) = Lowest(S)
  BY DEF Find
<1>3. S # {} => Lowest(S) # {}
  BY <1>1, LowestExists
<1>4. Find(kind, Null) = {} => \A e \in DOMAIN routed : routed[e].kind # kind
  BY <1>2, <1>3
<1> QED BY <1>4 DEF Find, Lowest

\* A route of any other kind than an approval is that of a pending effect.
LEMMA RoutePending ==
  ASSUME Routes, NEW e \in DOMAIN routed,
         \/ routed[e].kind # "await_approval"
         \/ routed[e].call \in OpenCalls
  PROVE  /\ e \in DOMAIN effects
         /\ effects[e].kind = routed[e].kind /\ effects[e].call = routed[e].call
         /\ routed[e].started <=> effects[e].status = "running"
         /\ routed[e] \in Entry /\ KeptFits(routed[e])
BY DEF Routes, RouteFits, OpenCalls

-----------------------------------------------------------------------------
(* The registry *)

\* What a command does to the effects: those in gone end, and approvals of calls it closes;
\* the others stay as they are and the new ones are requested.
Evolves(gone) ==
  /\ seq' \in Nat /\ seq <= seq'
  /\ \A f \in DOMAIN effects' \cap DOMAIN effects : effects'[f] = effects[f] /\ f \notin gone
  /\ \A f \in DOMAIN effects' \ DOMAIN effects :
       f \in (seq + 1)..seq' /\ effects'[f].status = "requested"
  /\ \A f \in DOMAIN effects \ DOMAIN effects' :
       \/ f \in gone
       \/ /\ effects[f].kind = "await_approval"
          /\ effects[f].call \in Calls /\ calls'[effects[f].call] = "closed"

\* What a command leaves as it is: closed calls, decisions, what a decision rests on, an
\* approved cancellation.  It asks for no approval and settles no journal.
Carries ==
  /\ \A c \in Calls : calls[c] = "closed" => calls'[c] = "closed"
  /\ \A r \in Requests : approvals'[r] \in {approvals[r], Null}
  /\ journal' \in {journal, "open"}
  /\ decision' = decision
  /\ phase \in {"committing"} \cup Terminal =>
       phase' \in {"committing"} \cup Terminal /\ UNCHANGED <<verification, draft, mutation>>
  /\ cancel = "other" => cancel' = "other"

\* Dispatching what a command requested keeps the registry in agreement.
LEMMA DispatchFits ==
  ASSUME TypeOK, TypeOK', Routes, NEW gone, NEW r, DOMAIN r = DOMAIN routed \ gone,
         \A f \in DOMAIN r : r[f] = routed[f],
         Evolves(gone), \A c \in Calls : calls[c] = "closed" => calls'[c] = "closed", Dispatch(r)
  PROVE  /\ Routes'
         /\ DOMAIN effects \subseteq DOMAIN routed => DOMAIN effects' \subseteq DOMAIN routed'
<1>1. /\ DOMAIN routed' = DOMAIN r \cup (DOMAIN effects' \ DOMAIN effects)
      /\ \A f \in DOMAIN r : routed'[f] = routed[f]
      /\ \A f \in DOMAIN routed' \ DOMAIN r : routed'[f] = RoutedEntry(f)
  BY DEF Dispatch
<1>2. seq \in Nat /\ seq' \in Nat /\ seq <= seq' /\ DOMAIN effects' \subseteq 1..seq'
  BY DEF TypeOK, Evolves
<1>3. DOMAIN routed' \subseteq 1..seq'
  <2>1. DOMAIN routed \subseteq 1..seq'
    BY <1>2 DEF Routes
  <2> QED BY <1>1, <1>2, <2>1
<1>4. ASSUME NEW f \in DOMAIN r PROVE RouteFits(f)'
  <2>1. f \in DOMAIN routed /\ f \notin gone /\ RouteFits(f) /\ routed'[f] = routed[f]
    BY <1>1 DEF Routes
  <2>2. f \in 1..seq
    BY <2>1 DEF Routes
  <2>3. CASE f \in DOMAIN effects'
    <3>1. f \in DOMAIN effects
      BY <1>2, <2>2, <2>3 DEF Evolves
    <3>2. effects'[f] = effects[f]
      BY <2>3, <3>1 DEF Evolves
    <3> QED BY <2>1, <2>3, <3>1, <3>2 DEF RouteFits
  <2>4. CASE f \notin DOMAIN effects'
    <3>1. CASE f \in DOMAIN effects
      BY <2>1, <2>4, <3>1 DEF RouteFits, Evolves
    <3>2. CASE f \notin DOMAIN effects
      BY <2>1, <2>4, <3>2 DEF RouteFits
    <3> QED BY <3>1, <3>2
  <2> QED BY <2>3, <2>4
<1>5. ASSUME NEW f \in DOMAIN routed' \ DOMAIN r PROVE RouteFits(f)'
  <2>1. f \in DOMAIN effects' /\ f \notin DOMAIN effects
    BY <1>1
  <2>2. effects'[f] \in Effect
    BY <2>1 DEF TypeOK
  <2>3. effects'[f].status = "requested"
    BY <2>1 DEF Evolves
  <2>4. /\ effects'[f].kind \in EffectKinds /\ effects'[f].call \in Identities
    BY <2>2 DEF Effect
  <2>5. routed'[f] = [kind |-> effects'[f].kind, call |-> effects'[f].call,
                      started |-> FALSE, kept |-> Null]
    BY <1>1 DEF RoutedEntry
  <2>6. routed'[f] \in Entry
    BY <2>4, <2>5 DEF Entry
  <2> QED BY <2>1, <2>3, <2>5, <2>6 DEF RouteFits, KeptFits
<1>6. Routes'
  BY <1>3, <1>4, <1>5 DEF Routes
<1>7. ASSUME DOMAIN effects \subseteq DOMAIN routed, NEW f \in DOMAIN effects'
      PROVE  f \in DOMAIN routed'
  BY <1>1, <1>7 DEF Evolves
<1> QED BY <1>6, <1>7

\* A command dispatched with Submit leaves the registry in agreement ...
LEMMA SubmitFits ==
  ASSUME TypeOK, TypeOK', Routes, Evolves({}),
         \A c \in Calls : calls[c] = "closed" => calls'[c] = "closed", Dispatch(routed)
  PROVE  /\ Routes'
         /\ DOMAIN effects \subseteq DOMAIN routed => DOMAIN effects' \subseteq DOMAIN routed'
BY DispatchFits

\* ... and one that resolves a route, which is then gone.
LEMMA ResolveFits ==
  ASSUME TypeOK, TypeOK', Routes, NEW e, Evolves({e}),
         \A c \in Calls : calls[c] = "closed" => calls'[c] = "closed",
         Dispatch(Without(routed, {e}))
  PROVE  /\ Routes'
         /\ DOMAIN effects \subseteq DOMAIN routed => DOMAIN effects' \subseteq DOMAIN routed'
<1>1. /\ DOMAIN Without(routed, {e}) = DOMAIN routed \ {e}
      /\ \A f \in DOMAIN Without(routed, {e}) : Without(routed, {e})[f] = routed[f]
  BY DEF Without
<1> QED BY <1>1, DispatchFits

\* Marking the route of an effect together with the effect.
LEMMA MarkFits ==
  ASSUME TypeOK, Routes, NEW e \in DOMAIN routed, e \in DOMAIN effects, NEW b \in BOOLEAN,
         NEW status, NEW attempt, SetEffect(e, status, attempt), b <=> status = "running",
         routed' = [routed EXCEPT ![e].started = b], UNCHANGED calls
  PROVE  /\ Routes'
         /\ DOMAIN effects \subseteq DOMAIN routed => DOMAIN effects' \subseteq DOMAIN routed'
         /\ DOMAIN effects' = DOMAIN effects /\ DOMAIN routed' = DOMAIN routed
         /\ \A f \in DOMAIN effects : effects'[f].kind = effects[f].kind
<1>1. EffectsTyped
  BY TypeParts
<1>2. /\ DOMAIN effects' = DOMAIN effects
      /\ \A f \in DOMAIN effects \ {e} : effects'[f] = effects[f]
      /\ effects'[e].kind = effects[e].kind /\ effects'[e].call = effects[e].call
      /\ effects'[e].status = status
  BY <1>1, SetOne
<1>3. /\ DOMAIN routed' = DOMAIN routed
      /\ \A f \in DOMAIN routed \ {e} : routed'[f] = routed[f]
      /\ routed'[e] = [routed[e] EXCEPT !.started = b]
  OBVIOUS
<1>4. seq' = seq
  BY DEF SetEffect
<1>5. ASSUME NEW f \in DOMAIN routed PROVE RouteFits(f)'
  <2>1. RouteFits(f)
    BY DEF Routes
  <2>2. CASE f # e
    BY <1>2, <1>3, <2>1, <2>2 DEF RouteFits
  <2>3. CASE f = e
    <3>1. routed[e] \in Entry /\ KeptFits(routed[e])
      BY <2>1, <2>3 DEF RouteFits
    <3>2. /\ routed'[e] \in Entry /\ KeptFits(routed'[e]) /\ routed'[e].started = b
          /\ routed'[e].kind = routed[e].kind /\ routed'[e].call = routed[e].call
      BY <1>3, <3>1 DEF Entry, KeptFits
    <3> QED BY <1>2, <2>1, <2>3, <3>2 DEF RouteFits
  <2> QED BY <2>2, <2>3
<1>6. Routes'
  BY <1>3, <1>4, <1>5 DEF Routes
<1> QED BY <1>2, <1>3, <1>6

\* A result that was refused is retained.
LEMMA RetainFits ==
  ASSUME Routes, NEW e \in DOMAIN routed, NEW result \in FinalReply \cup ToolOutcome \cup Answer,
         routed[e].kind = "sample_provider" => result \in FinalReply,
         routed[e].kind = "execute_tool" => result \in ToolOutcome,
         Retain(e, result), UNCHANGED <<effects, seq, calls>>
  PROVE  Routes' /\ DOMAIN routed' = DOMAIN routed
<1>1. /\ DOMAIN routed' = DOMAIN routed
      /\ \A f \in DOMAIN routed \ {e} : routed'[f] = routed[f]
      /\ routed'[e] = [routed[e] EXCEPT !.kept = IF routed[e].kept = Null THEN result
                                                 ELSE routed[e].kept]
  BY DEF Retain
<1>2. ASSUME NEW f \in DOMAIN routed PROVE RouteFits(f)'
  <2>1. RouteFits(f)
    BY DEF Routes
  <2>2. CASE f # e
    BY <1>1, <2>1, <2>2 DEF RouteFits
  <2>3. CASE f = e
    <3>1. routed[e] \in Entry /\ KeptFits(routed[e])
      BY <2>1, <2>3 DEF RouteFits
    <3>2. result \in Reply \cup ToolOutcome \cup Answer
      BY DEF FinalReply
    <3>3. /\ routed'[e].kind = routed[e].kind /\ routed'[e].call = routed[e].call
          /\ routed'[e].started = routed[e].started
          /\ routed'[e].kept \in {result, routed[e].kept}
          /\ routed'[e].kept = result \/ routed[e].kept # Null
      BY <1>1, <3>1 DEF Entry
    <3>4. routed'[e] \in Entry
      BY <1>1, <3>1, <3>2 DEF Entry
    <3>5. KeptFits(routed'[e])
      BY <3>1, <3>3 DEF KeptFits
    <3> QED BY <2>1, <2>3, <3>3, <3>4, <3>5 DEF RouteFits
  <2> QED BY <2>2, <2>3
<1> QED BY <1>1, <1>2 DEF Routes

-----------------------------------------------------------------------------
(* What the commands carry on *)

\* A command that leaves the effects alone,
LEMMA EvolvesKept ==
  ASSUME TypeOK, UNCHANGED effVars
  PROVE  Evolves({})
BY DEF TypeOK, Evolves, effVars

\* ... that requests one effect,
LEMMA EvolvesAdded ==
  ASSUME TypeOK, NEW kind, NEW key, NEW call, UpdateEffects({}, <<NewEffect(kind, key, call)>>)
  PROVE  Evolves({})
<1>1. EffectsTyped /\ seq \in Nat
  BY TypeParts DEF EffectsTyped
<1>2. /\ seq + 1 \notin DOMAIN effects
      /\ DOMAIN effects' = DOMAIN effects \cup {seq + 1}
      /\ effects'[seq + 1] = NewEffect(kind, key, call)
      /\ \A e \in DOMAIN effects : effects'[e] = effects[e]
  BY <1>1, Added
<1>3. seq' = seq + 1
  BY <1>1 DEF UpdateEffects
<1> QED BY <1>1, <1>2, <1>3 DEF Evolves, NewEffect

\* ... or that ends one.
LEMMA EvolvesEnded ==
  ASSUME TypeOK, NEW e, UpdateEffects({e}, <<>>)
  PROVE  Evolves({e})
<1>1. EffectsTyped /\ seq \in Nat
  BY TypeParts DEF EffectsTyped
<1>2. /\ DOMAIN effects' = DOMAIN effects \ {e}
      /\ \A f \in DOMAIN effects' : effects'[f] = effects[f]
  BY <1>1, Removed
<1>3. seq' = seq
  BY <1>1 DEF UpdateEffects
<1> QED BY <1>1, <1>2, <1>3 DEF Evolves

\* A command that leaves these variables alone carries on what it must.
LEMMA CarriesKept ==
  ASSUME UNCHANGED <<calls, approvals, journal, decision>>,
         cancel = "other" => cancel' = "other",
         \/ phase \notin {"committing"} \cup Terminal
         \/ UNCHANGED <<phase, verification, draft, mutation>>
  PROVE  Carries
BY DEF Carries

\* The commands that touch neither effects nor calls.
PlainCommand ==
  \/ StartTurn \/ PreparationFinished \/ ObserveProgress \/ ConvergenceFinalizationStarted
  \/ DiscardOutput \/ ReleaseOutput
  \/ \E reason : CancelRequested(reason)
  \/ \E candidate : CompletionEvaluated(candidate)
  \/ \E key : EvaluateTurnStep(key)
  \/ \E e, s, complete : ModelSampleProgress(e, s, complete)

\* They leave effects, calls and decisions as they are.
LEMMA PlainCommands ==
  ASSUME TypeOK, PlainCommand
  PROVE  Evolves({}) /\ Carries /\ UNCHANGED <<calls, approvals, effects, decision, seq>>
<1> USE DEF lifeVars, workVars, proofVars, Terminal
<1>1. UNCHANGED effVars
  BY DEF StartTurn, PreparationFinished, CancelRequested, ObserveProgress, CompletionEvaluated,
         EvaluateTurnStep, ConvergenceFinalizationStarted, DiscardOutput, ReleaseOutput,
         ModelSampleProgress, PlainCommand
<1>2. UNCHANGED <<calls, approvals, journal, decision>>
  BY DEF StartTurn, PreparationFinished, CancelRequested, ObserveProgress, CompletionEvaluated,
         EvaluateTurnStep, ConvergenceFinalizationStarted, DiscardOutput, ReleaseOutput,
         ModelSampleProgress, PlainCommand
<1>3. cancel = "other" => cancel' = "other"
  BY DEF StartTurn, PreparationFinished, CancelRequested, ObserveProgress, CompletionEvaluated,
         EvaluateTurnStep, ConvergenceFinalizationStarted, DiscardOutput, ReleaseOutput,
         ModelSampleProgress, Canceled, PlainCommand
<1>4. \/ phase \notin {"committing"} \cup Terminal
      \/ UNCHANGED <<phase, verification, draft, mutation>>
  BY DEF StartTurn, PreparationFinished, CancelRequested, ObserveProgress, CompletionEvaluated,
         EvaluateTurnStep, ConvergenceFinalizationStarted, DiscardOutput, ReleaseOutput,
         ModelSampleProgress, Running, PlainCommand
<1> QED BY <1>1, <1>2, <1>3, <1>4, EvolvesKept, CarriesKept DEF effVars

\* The end of the turn.
LEMMA FinishCarries ==
  ASSUME TypeOK, DecisionFits, FinishTerminal
  PROVE  Evolves({}) /\ Carries
<1>1. decision.kind \in Terminal
  BY DEF FinishTerminal, DecisionFits, TypeOK, Decision
<1>2. UNCHANGED <<effVars, calls, approvals, journal, decision, cancel, verification, draft, mutation>>
  BY DEF FinishTerminal, workVars, proofVars
<1>3. phase' \in Terminal
  BY <1>1 DEF FinishTerminal
<1> QED BY <1>2, <1>3, EvolvesKept DEF Carries

\* The commands that request one effect.
LEMMA RequestCommands ==
  ASSUME TypeOK, NEW s, ModelSampleRequested(s) \/ VerificationStarted
  PROVE  Evolves({}) /\ Carries /\ UNCHANGED <<calls, approvals>>
<1>1. /\ UNCHANGED <<calls, approvals, journal, decision, cancel>> /\ phase = "sampling"
  BY DEF ModelSampleRequested, VerificationStarted, workVars, lifeVars, proofVars
<1>2. Evolves({})
  BY EvolvesAdded DEF ModelSampleRequested, VerificationStarted
<1> QED BY <1>1, <1>2, CarriesKept DEF Terminal

\* The result of a sample ends its effect and opens the calls it proposes.
LEMMA SampleResultCarries ==
  ASSUME TypeOK, NEW e, NEW s, NEW ok, NEW text, NEW continued, NEW batch \in {<<>>} \cup Batches,
         ModelSampleResult(e, s, ok, text, continued, batch)
  PROVE  Evolves({e}) /\ Carries
<1>1. /\ UNCHANGED <<approvals, journal, decision, cancel>> /\ phase = "sampling"
  BY DEF ModelSampleResult
<1>2. CASE ok /\ batch # <<>>
  <2>1. ProposableBatch(batch) /\ UpdateEffects({e}, ToolEffects(batch)) /\ calls' = OpenBatch(batch)
    BY <1>2 DEF ModelSampleResult
  <2>2. \A c \in Calls : calls[c] = "closed" => calls'[c] = "closed"
    BY <2>1 DEF ProposableBatch, OpenBatch, InBatch
  <2>3. Carries
    BY <1>1, <2>2 DEF Carries, Terminal
  <2>4. batch \in Seq(Calls) /\ Len(batch) \in Nat
    BY <1>2 DEF Batches
  <2>5. EffectsTyped /\ seq \in Nat
    BY TypeParts DEF EffectsTyped
  <2>6. Len(ToolEffects(batch)) = Len(batch)
    BY <2>4 DEF ToolEffects
  <2>7. seq' = seq + Len(batch)
    BY <2>1, <2>6 DEF UpdateEffects
  <2>8. /\ DOMAIN effects \ {e} \subseteq DOMAIN effects'
    BY <2>1 DEF UpdateEffects
  <2>9. \A f \in DOMAIN effects' :
           \/ f \in DOMAIN effects \ {e} /\ effects'[f] = effects[f]
           \/ \E i \in DOMAIN batch :
                f = seq + i /\ effects'[f] = NewEffect("execute_tool", batch[i], batch[i])
    BY <2>1, <2>4, <2>5, AddedTools
  <2>10. ASSUME NEW i \in DOMAIN batch
         PROVE  seq + i \in (seq + 1)..seq' /\ seq + i \notin DOMAIN effects
    BY <2>4, <2>5, <2>7 DEF EffectsTyped
  <2>11. \A f \in DOMAIN effects' \cap DOMAIN effects : effects'[f] = effects[f] /\ f \notin {e}
    BY <2>9, <2>10
  <2>12. \A f \in DOMAIN effects' \ DOMAIN effects :
           f \in (seq + 1)..seq' /\ effects'[f].status = "requested"
    BY <2>9, <2>10 DEF NewEffect
  <2>13. \A f \in DOMAIN effects \ DOMAIN effects' : f \in {e}
    BY <2>8
  <2>14. seq' \in Nat /\ seq <= seq'
    BY <2>4, <2>5, <2>7
  <2> QED BY <2>3, <2>11, <2>12, <2>13, <2>14 DEF Evolves
<1>3. CASE ~(ok /\ batch # <<>>)
  <2>1. UpdateEffects({e}, <<>>) /\ UNCHANGED calls
    BY <1>3 DEF ModelSampleResult
  <2> QED BY <1>1, <2>1, EvolvesEnded, CarriesKept DEF Terminal
<1> QED BY <1>2, <1>3

\* The result of a tool ends its effect and the approvals of its call, which it closes.
LEMMA ToolResultCarries ==
  ASSUME TypeOK, EffectsInv, NEW e, NEW c \in Calls, NEW isError, NEW changes \in BOOLEAN,
         ToolResult(e, c, isError, changes)
  PROVE  /\ Evolves({e}) /\ Carries
         /\ \A d \in Calls \ {c} : calls'[d] = calls[d] /\ ApprovalsOf(d)' = ApprovalsOf(d)
<1> DEFINE gone == {e} \cup ApprovalEffects(ApprovalsOf(c))
<1>1. /\ UpdateEffects(gone, <<>>)
      /\ calls' = [calls EXCEPT ![c] = "closed"]
      /\ approvals' = [r \in Requests |-> IF approvals[r] = c THEN Null ELSE approvals[r]]
      /\ UNCHANGED <<decision, cancel>> /\ phase \in {"executing_tools", "awaiting_approval"}
  BY DEF ToolResult
<1>2. journal' \in {journal, "open"}
  BY DEF ToolResult, proofVars
<1>3. EffectsTyped /\ seq \in Nat /\ calls \in [Calls -> {"none", "open", "closed"}]
  BY TypeParts DEF EffectsTyped, TypeOK
<1>4. /\ DOMAIN effects' = DOMAIN effects \ gone
      /\ \A f \in DOMAIN effects' : effects'[f] = effects[f]
  BY <1>1, <1>3, Removed
<1>5. seq' = seq
  BY <1>1, <1>3 DEF UpdateEffects
<1>6. Carries
  BY <1>1, <1>2, <1>3 DEF Carries, Terminal
<1>7. ASSUME NEW f \in DOMAIN effects \ DOMAIN effects', f # e
      PROVE  /\ effects[f].kind = "await_approval"
             /\ effects[f].call \in Calls /\ calls'[effects[f].call] = "closed"
  <2>1. f \in ApprovalEffects(ApprovalsOf(c))
    BY <1>4, <1>7
  <2>2. PICK r \in ApprovalsOf(c) : f \in Lowest(Of("await_approval", r))
    BY <2>1 DEF ApprovalEffects
  <2>3. effects[f].kind = "await_approval" /\ effects[f].key = r
    BY <2>2 DEF Lowest, Of
  <2>4. Owned(effects[f])
    BY DEF EffectsInv, AllOwned
  <2>5. effects[f].call = c
    BY <2>2, <2>3, <2>4 DEF Owned, ApprovalsOf
  <2> QED BY <1>1, <1>3, <2>3, <2>5
<1>8. Evolves({e})
  BY <1>3, <1>4, <1>5, <1>7 DEF Evolves
<1>9. ASSUME NEW d \in Calls \ {c}
      PROVE  calls'[d] = calls[d] /\ ApprovalsOf(d)' = ApprovalsOf(d)
  <2>1. d # Null
    BY IdentityAssumption
  <2> QED BY <1>1, <1>3, <2>1 DEF ApprovalsOf
<1> QED BY <1>6, <1>8, <1>9

\* An answer ends the effect of its request, and only that: a call has one request.
LEMMA ApprovalResultCarries ==
  ASSUME TypeOK, EffectsInv, OneApproval, NEW e \in DOMAIN effects, NEW r \in Requests,
         NEW canceled, approvals[r] = effects[e].call, ApprovalResult(e, r, canceled)
  PROVE  /\ Evolves({e}) /\ Carries /\ UNCHANGED calls
         /\ \A d \in Calls \ {approvals[r]} : ApprovalsOf(d)' = ApprovalsOf(d)
<1>1. /\ UpdateEffects({e} \cup Lowest(Of("await_approval", r) \ {e}), <<>>)
      /\ approvals' = [approvals EXCEPT ![r] = Null] /\ approvals[r] # Null
      /\ effects[e].kind = "await_approval"
      /\ UNCHANGED <<decision, calls, journal>> /\ phase = "awaiting_approval"
      /\ cancel = "other" => cancel' = "other"
  BY DEF ApprovalResult, proofVars, Canceled
<1>2. approvals \in [Requests -> Calls \cup {Null}]
  BY DEF TypeOK
<1>3. effects[e].key = r
  <2>1. Owned(effects[e])
    BY DEF EffectsInv, AllOwned
  <2>2. effects[e].key \in Requests /\ approvals[effects[e].key] = approvals[r]
    BY <1>1, <2>1 DEF Owned, PendingApprovals
  <2> QED BY <1>1, <2>2 DEF OneApproval
<1>4. Of("await_approval", r) \ {e} = {}
  <2>1. e \in Of("await_approval", r)
    BY <1>1, <1>3 DEF Of
  <2> QED BY <2>1, OneOf
<1>5. UpdateEffects({e}, <<>>)
  <2>1. Lowest(Of("await_approval", r) \ {e}) = {}
    BY <1>4 DEF Lowest
  <2>2. {e} \cup Lowest(Of("await_approval", r) \ {e}) = {e}
    BY <2>1
  <2> QED BY <1>1, <2>2
<1>6. Evolves({e})
  BY <1>5, EvolvesEnded
<1>7. Carries
  BY <1>1, <1>2 DEF Carries, Terminal
<1>8. ASSUME NEW d \in Calls \ {approvals[r]} PROVE ApprovalsOf(d)' = ApprovalsOf(d)
  <2>1. d # Null
    BY IdentityAssumption
  <2> QED BY <1>1, <1>2, <2>1 DEF ApprovalsOf
<1> QED BY <1>1, <1>6, <1>7, <1>8

\* The other results end their effect.
LEMMA EndCommands ==
  ASSUME TypeOK, NEW e, NEW status, NEW key,
         EffectResultReceived(e) \/ VerificationFinished(e, status, key)
  PROVE  Evolves({e}) /\ Carries /\ UNCHANGED <<calls, approvals>>
<1>1. UpdateEffects({e}, <<>>)
  BY DEF EffectResultReceived, VerificationFinished
<1>2. /\ UNCHANGED <<calls, approvals, journal, decision, cancel>>
      /\ \/ phase \notin {"committing"} \cup Terminal
         \/ UNCHANGED <<phase, verification, draft, mutation>>
  BY DEF EffectResultReceived, VerificationFinished, lifeVars, workVars, proofVars, Terminal
<1> QED BY <1>1, <1>2, EvolvesEnded, CarriesKept

\* Closing the open calls ends no effect when none of them has one.
LEMMA CloseCarries ==
  ASSUME TypeOK, EffectsInv, AbortOpenCalls, PendingApprovals = {},
         \A f \in DOMAIN effects : effects[f].kind # "execute_tool"
  PROVE  Evolves({}) /\ Carries
<1> DEFINE gone == {e \in DOMAIN effects : effects[e].kind = "await_approval"} \cup
                   UNION {Lowest(Of("execute_tool", c)) : c \in OpenCalls}
<1>1. gone = {}
  <2>1. ASSUME NEW e \in DOMAIN effects PROVE effects[e].kind # "await_approval"
    BY DEF EffectsInv, AllOwned, Owned
  <2>2. ASSUME NEW c PROVE Lowest(Of("execute_tool", c)) = {}
    BY DEF Lowest, Of
  <2> QED BY <2>1, <2>2
<1>2. /\ UpdateEffects(gone, <<>>) /\ UNCHANGED <<decision, cancel, journal>>
      /\ calls' = [c \in Calls |-> IF calls[c] = "open" THEN "closed" ELSE calls[c]]
      /\ approvals' = [r \in Requests |-> Null]
      /\ phase \in {"executing_tools", "awaiting_approval"}
  BY DEF AbortOpenCalls, proofVars
<1>3. EffectsTyped /\ seq \in Nat /\ UpdateEffects({}, <<>>)
  BY <1>1, <1>2, TypeParts DEF EffectsTyped
<1> HIDE DEF gone
<1>4. /\ DOMAIN effects' = DOMAIN effects
      /\ \A f \in DOMAIN effects' : effects'[f] = effects[f]
  <2>1. /\ DOMAIN effects' = DOMAIN effects \ {}
        /\ \A f \in DOMAIN effects' : effects'[f] = effects[f]
    BY <1>3, Removed
  <2> QED BY <2>1
<1>5. seq' = seq
  BY <1>2, <1>3 DEF UpdateEffects
<1>6. Evolves({})
  BY <1>3, <1>4, <1>5 DEF Evolves
<1>7. Carries
  BY <1>2 DEF Carries, Terminal
<1> QED BY <1>6, <1>7

\* Starting an effect or putting it back leaves everything else alone.
LEMMA MarkCommands ==
  ASSUME TypeOK, NEW e, NEW s, EffectStarted(e) \/ EffectRequeued(e) \/ ProviderRetry(e, s)
  PROVE  /\ Carries /\ UNCHANGED <<calls, approvals, decision, phase, mutation, verification,
                                   draft, cancel, journal>>
<1>1. UNCHANGED <<calls, approvals, lifeVars, proofVars>>
  BY DEF EffectStarted, EffectRequeued, ProviderRetry
<1> QED BY <1>1, CarriesKept DEF lifeVars, proofVars

\* dispatcher.Start marks the route with the effect.
LEMMA StartFits ==
  ASSUME TypeOK, Routes, NEW e \in DOMAIN routed, e \in DOMAIN effects, Start(e)
  PROVE  /\ Routes'
         /\ DOMAIN effects \subseteq DOMAIN routed => DOMAIN effects' \subseteq DOMAIN routed'
         /\ DOMAIN effects' = DOMAIN effects /\ DOMAIN routed' = DOMAIN routed
         /\ \A f \in DOMAIN effects : effects'[f].kind = effects[f].kind
<1>1. /\ SetEffect(e, "running", effects[e].attempt + 1) /\ UNCHANGED calls
      /\ routed' = [routed EXCEPT ![e].started = TRUE]
  BY DEF Start, EffectStarted
<1> QED BY <1>1, MarkFits

-----------------------------------------------------------------------------
(* The engine *)

\* The terminal decision the engine asks for, if it is a cancellation, is the turn's.
WantFits == eng.want.kind = "canceled" /\ ~eng.want.user => cancel = "other"

\* The steps at which the engine relies on nothing but its own state.
PlainSteps ==
  {"open", "prepare", "enter", "loop", "start", "streaming", "streamed", "tools", "batch",
   "closing", "declare", "advance", "act", "verifying", "verified", "repair", "complete",
   "done", "stuck", "rejected", "down"}

\* The steps of a batch of tools.
BatchSteps == {"tools", "batch", "closing", "declare"}

\* At those steps the type of its state is all the engine needs.
LEMMA PlainFits ==
  ASSUME eng' \in EngineState, eng'.reply \in FinalReply, eng'.at \in PlainSteps
  PROVE  EngineFits'
BY DEF EngineFits, PlainSteps

\* The fields of the engine's state.
LEMMA EngineFields ==
  ASSUME EngineFits
  PROVE  /\ eng = [at |-> eng.at, sample |-> eng.sample, reply |-> eng.reply, call |-> eng.call,
                   several |-> eng.several, finalizing |-> eng.finalizing, want |-> eng.want,
                   failed |-> eng.failed, last |-> eng.last]
         /\ eng.at \in Steps /\ eng.sample \in Samples \cup {Null} /\ eng.reply \in Reply
         /\ eng.reply \in FinalReply /\ eng.call \in Calls \cup {Null} /\ eng.several \in BOOLEAN
         /\ eng.finalizing \in BOOLEAN /\ eng.want \in Decisions \cup {NoDecision}
         /\ eng.failed \in BOOLEAN /\ eng.last \in BOOLEAN
BY DEF EngineFits, EngineState

\* Going on to another step.
LEMMA GoTyped ==
  ASSUME EngineFits, NEW s \in Steps, Go(s)
  PROVE  /\ eng' \in EngineState /\ eng'.reply \in FinalReply /\ eng'.at = s
         /\ eng'.want = eng.want /\ eng'.failed = eng.failed
BY EngineFields DEF EngineState, Go

\* FinalizeTerminal is called for a decision of the turn.
Aborts ==
  \E d \in Decisions, last \in BOOLEAN :
    /\ d.kind = "canceled" /\ ~d.user => cancel = "other"
    /\ Finalize(d, last)

\* A decision the engine may ask for is not the absence of one.
LEMMA DecisionsReal == \A d \in Decisions : d # NoDecision
BY DEF Decisions, Decision, NoDecision, Terminal

\* The decisions of Fail and Finalize are decisions, and a cancellation among them is by a
\* user unless the turn has accepted another.
LEMMA CancelAborts ==
  ASSUME TypeOK
  PROVE  /\ CancelDecision(CancelReason) \in Decisions
         /\ CancelDecision(CancelReason).kind = "canceled" /\ ~CancelDecision(CancelReason).user
              => cancel = "other"
         /\ Canceled => CancelDecision(cancel) = CancelDecision(CancelReason)
         /\ \A recoverable \in BOOLEAN :
              FailDecision(recoverable) \in Decisions /\ FailDecision(recoverable).kind = "failed"
         /\ BlockDecision \in Decisions /\ BlockDecision.kind = "failed"
<1>1. CancelReason \in {"user", "other"} /\ (CancelReason # "user" => cancel = "other")
  BY DEF TypeOK, CancelReason, Canceled
<1>2. (CancelReason = "user") \in BOOLEAN
  OBVIOUS
<1>3. CancelDecision(CancelReason) \in Decisions
  BY <1>2 DEF CancelDecision, Decisions, Decision, Terminal
<1>4. CancelDecision(CancelReason).user = (CancelReason = "user")
  BY DEF CancelDecision
<1>5. Canceled => CancelReason = cancel
  BY DEF CancelReason
<1>6. \A recoverable \in BOOLEAN :
        FailDecision(recoverable) \in Decisions /\ FailDecision(recoverable).kind = "failed"
  BY DEF FailDecision, Decisions, Decision, Terminal
<1>7. BlockDecision \in Decisions /\ BlockDecision.kind = "failed"
  BY DEF BlockDecision, Decisions, Decision, Terminal
<1> QED BY <1>1, <1>3, <1>4, <1>5, <1>6, <1>7

\* Fail finalizes the turn with one of them.
LEMMA FailAborts ==
  ASSUME TypeOK, Fail PROVE Aborts
<1>1. CASE ctx = "done" \/ CancelReason = "other"
  <2>1. Finalize(CancelDecision(CancelReason), TRUE)
    BY <1>1 DEF Fail
  <2> QED BY <2>1, CancelAborts DEF Aborts
<1>2. CASE ~(ctx = "done" \/ CancelReason = "other")
  <2>1. PICK recoverable \in BOOLEAN : Finalize(FailDecision(recoverable), TRUE)
    BY <1>2 DEF Fail
  <2>2. /\ FailDecision(recoverable) \in Decisions /\ FailDecision(recoverable).kind = "failed"
    BY CancelAborts
  <2> QED BY <2>1, <2>2 DEF Aborts
<1> QED BY <1>1, <1>2

-----------------------------------------------------------------------------
(* What the other parts of the invariant need of a step *)

\* A command does not change what the files have to be.
LEMMA FilesCarried ==
  ASSUME FilesFit, Carries, UNCHANGED disk PROVE FilesFit'
<1>1. CASE disk # "open"
  <2>1. JournalOutcome(decision)' = JournalOutcome(decision)
    BY <1>1 DEF FilesFit, Carries, JournalOutcome
  <2> QED BY <1>1, <2>1 DEF FilesFit, Carries, SettledJournal
<1>2. CASE disk = "open"
  BY <1>2 DEF FilesFit, Carries, SettledJournal
<1> QED BY <1>1, <1>2

\* A command that asks for no approval leaves every tool at most one.
LEMMA ApprovalsCarried ==
  ASSUME OneApproval, Carries PROVE OneApproval'
BY DEF OneApproval, Carries

\* A command does not take back a cancellation a decision rests on.
LEMMA CancelCarried ==
  ASSUME CancelFits, Carries, WantFits' PROVE CancelFits'
BY DEF CancelFits, Carries, WantFits

\* The decision the engine asks for stays the turn's.
LEMMA WantCarried ==
  ASSUME CancelFits, Carries, eng'.want = eng.want PROVE WantFits'
BY DEF CancelFits, Carries, WantFits

\* Outside a batch no tool runs.
LEMMA JobsIdle ==
  ASSUME JobsFit, eng.at \notin BatchSteps, UNCHANGED job PROVE JobsFit'
<1>1. \A c \in Calls : job[c] = "idle"
  BY DEF JobsFit, BatchSteps
<1> QED BY <1>1 DEF JobsFit, NoOrphanTool

\* The counters of the process stay within their bounds.
LEMMA RestCarried ==
  ASSUME TypeOK', RestTyped, locked' = 0, UNCHANGED <<ctx, disk>>, faults' = faults \/ Error
  PROVE  RestTyped'
<1>1. seq' \in Nat
  BY DEF TypeOK
<1>2. faults' \in [crashes : 0..MaxCrashes, errors : 0..MaxErrors]
  BY RuntimeAssumption DEF RestTyped, Error
<1> QED BY <1>1, <1>2 DEF RestTyped

\* A step of the engine outside a batch.
LEMMA OutsideBatch ==
  ASSUME RuntimeInv, TypeOK', eng.at \notin BatchSteps, locked' = 0, UNCHANGED <<job, ctx, disk>>,
         faults' = faults \/ Error, Carries, Routes', RoutesComplete', EngineFits', WantFits'
  PROVE  RuntimeInv'
<1>1. LockFits'
  BY DEF LockFits
<1> QED BY <1>1, FilesCarried, ApprovalsCarried, CancelCarried, JobsIdle, RestCarried
        DEF RuntimeInv

\* A step of the engine outside a batch that commits nothing.
LEMMA QuietOutside ==
  ASSUME KernelInv, RuntimeInv, UNCHANGED <<vars, routed>>, eng.at \notin BatchSteps,
         locked' = 0, UNCHANGED <<job, ctx, disk>>, faults' = faults \/ Error,
         Up' <=> Up, EngineFits', WantFits'
  PROVE  [Next]_vars /\ RuntimeInv'
<1> USE DEF vars, lifeVars, workVars, effVars, proofVars
<1>1. TypeOK'
  BY KernelStutter DEF KernelInv
<1>2. Carries
  BY CarriesKept
<1>3. Routes'
  BY DEF RuntimeInv, Routes, RouteFits
<1>4. RoutesComplete'
  BY DEF RuntimeInv, RoutesComplete
<1> QED BY <1>1, <1>2, <1>3, <1>4, OutsideBatch

\* One that submits a command.
LEMMA SubmitOutside ==
  ASSUME KernelInv, RuntimeInv, Next, Dispatch(routed), Evolves({}), Carries,
         eng.at \notin BatchSteps, Up, Up', locked' = 0, UNCHANGED <<job, ctx, disk>>,
         faults' = faults \/ Error, EngineFits', WantFits'
  PROVE  [Next]_vars /\ RuntimeInv'
<1>1. TypeOK /\ TypeOK'
  BY KernelStep DEF KernelInv
<1>2. Routes' /\ RoutesComplete'
  BY <1>1, SubmitFits DEF RuntimeInv, RoutesComplete, Carries
<1> QED BY <1>1, <1>2, OutsideBatch

\* One that submits the result of effect e.
LEMMA ResolveOutside ==
  ASSUME KernelInv, RuntimeInv, Next, NEW e, Dispatch(Without(routed, {e})), Evolves({e}), Carries,
         eng.at \notin BatchSteps, Up, Up', locked' = 0, UNCHANGED <<job, ctx, disk>>,
         faults' = faults \/ Error, EngineFits', WantFits'
  PROVE  [Next]_vars /\ RuntimeInv'
<1>1. TypeOK /\ TypeOK'
  BY KernelStep DEF KernelInv
<1>2. Routes' /\ RoutesComplete'
  BY <1>1, ResolveFits DEF RuntimeInv, RoutesComplete, Carries
<1> QED BY <1>1, <1>2, OutsideBatch

\* A turn with a pending effect is not over.
LEMMA PendingLive ==
  ASSUME KernelInv, NEW e \in DOMAIN effects PROVE phase \notin Terminal
BY DEF KernelInv, TerminalValid

\* Starting an effect is a step of the turn.
LEMMA StartNext ==
  ASSUME KernelInv, NEW e \in DOMAIN effects, EffectStarted(e) \/ EffectRequeued(e) PROVE Next
BY PendingLive DEF Next, EffectStep

\* One that starts effect e.
LEMMA StartOutside ==
  ASSUME KernelInv, RuntimeInv, NEW e \in DOMAIN routed, e \in DOMAIN effects, Start(e),
         eng.at \notin BatchSteps, Up, Up', locked' = 0, UNCHANGED <<job, ctx, disk>>,
         faults' = faults \/ Error, EngineFits', WantFits'
  PROVE  [Next]_vars /\ RuntimeInv'
<1>1. Next /\ EffectStarted(e)
  BY StartNext DEF Start
<1>2. TypeOK /\ TypeOK'
  BY <1>1, KernelStep DEF KernelInv
<1>3. Routes' /\ RoutesComplete'
  BY <1>2, StartFits DEF RuntimeInv, RoutesComplete
<1>4. Carries
  BY <1>1, <1>2, MarkCommands
<1> QED BY <1>1, <1>2, <1>3, <1>4, OutsideBatch

-----------------------------------------------------------------------------
(* How the engine goes on *)

\* The engine goes on to a step at which it relies on no commit, finalizing only a decision.
EngineMoves ==
  /\ eng' \in EngineState /\ eng'.reply \in FinalReply
  /\ eng'.at \in (PlainSteps \ {"down"}) \cup {"abort", "abortTools", "discard", "request"}
  /\ eng'.at \in {"abort", "discard", "request"} => eng'.want # NoDecision
  /\ eng'.at = "abortTools" => eng'.want # NoDecision \/ eng'.failed
  /\ eng'.want.kind = "canceled" /\ ~eng'.want.user => cancel = "other"

\* There it relies on nothing a commit could have taken away.
LEMMA MovesFit ==
  ASSUME RuntimeInv, EngineMoves, Carries
  PROVE  EngineFits' /\ WantFits' /\ Up'
<1>1. EngineFits'
  BY DEF EngineMoves, EngineFits, PlainSteps
<1> QED BY <1>1 DEF EngineMoves, WantFits, Carries, Up, PlainSteps

\* The engine changes its own state and asks for no other decision.
LEMMA TypedMoves ==
  ASSUME RuntimeInv, eng' \in EngineState, eng'.reply \in FinalReply,
         eng'.at \in PlainSteps \ {"down"}, eng'.want = eng.want
  PROVE  EngineMoves
BY DEF EngineMoves, PlainSteps, RuntimeInv, CancelFits

\* It goes on to a step of the loop or of a batch,
LEMMA GoMoves ==
  ASSUME RuntimeInv, NEW s \in PlainSteps \ {"down"}, Go(s) PROVE EngineMoves
<1>1. s \in Steps /\ EngineFits
  BY DEF PlainSteps, Steps, RuntimeInv
<1> QED BY <1>1, GoTyped, TypedMoves

\* ... to the next step of FinalizeTerminal,
LEMMA GoFinal ==
  ASSUME RuntimeInv, NEW s \in {"abort", "abortTools", "discard", "request"}, Go(s),
         eng.want # NoDecision
  PROVE  EngineMoves
<1>1. s \in Steps /\ EngineFits
  BY DEF FinalSteps, Steps, RuntimeInv
<1>2. /\ eng' \in EngineState /\ eng'.reply \in FinalReply /\ eng'.at = s
      /\ eng'.want = eng.want
  BY <1>1, GoTyped
<1> QED BY <1>2 DEF EngineMoves, RuntimeInv, CancelFits

\* ... or calls FinalizeTerminal for a decision,
LEMMA AbortsMoves ==
  ASSUME RuntimeInv, Aborts PROVE EngineMoves
<1>1. PICK d \in Decisions, last \in BOOLEAN :
        /\ d.kind = "canceled" /\ ~d.user => cancel = "other"
        /\ Finalize(d, last)
  BY DEF Aborts
<1>2. eng' = [eng EXCEPT !.at = "abort", !.want = d, !.failed = FALSE, !.last = last]
  BY <1>1 DEF Finalize
<1>3. "abort" \in Steps /\ EngineFits
  BY DEF Steps, FinalSteps, RuntimeInv
<1>4. /\ eng' \in EngineState /\ eng'.reply \in FinalReply /\ eng'.at = "abort" /\ eng'.want = d
  BY <1>2, <1>3, EngineFields DEF EngineState
<1> QED BY <1>1, <1>4, DecisionsReal DEF EngineMoves

\* ... which is what it does with an error.
LEMMA FailMoves ==
  ASSUME KernelInv, RuntimeInv, Fail PROVE EngineMoves
BY FailAborts, AbortsMoves DEF KernelInv

\* FinalizeTerminal gives up before the terminal request,
LEMMA GiveUpMoves ==
  ASSUME KernelInv, RuntimeInv, GiveUp PROVE EngineMoves
BY FailMoves, GoMoves DEF GiveUp, PlainSteps

\* ... and so does AbortTools.
LEMMA AbortFailsMoves ==
  ASSUME KernelInv, RuntimeInv, AbortFails PROVE EngineMoves
BY GiveUpMoves, GoMoves DEF AbortFails, PlainSteps

\* The engine stays where it is.
LEMMA StaysMoves ==
  ASSUME RuntimeInv, UNCHANGED eng,
         eng.at \in (PlainSteps \ {"down"}) \cup {"abort", "abortTools", "discard", "request"}
  PROVE  EngineMoves
BY DEF RuntimeInv, EngineFits, EngineMoves, CancelFits, PlainSteps

\* The engine submits a command that requests nothing and goes on.
LEMMA PlainSubmit ==
  ASSUME KernelInv, RuntimeInv, Next, PlainCommand, Dispatch(routed), Up,
         eng.at \notin BatchSteps, locked' = 0, Local, EngineMoves
  PROVE  [Next]_vars /\ RuntimeInv'
<1>1. Evolves({}) /\ Carries
  BY PlainCommands DEF KernelInv
<1>2. EngineFits' /\ WantFits' /\ Up'
  BY <1>1, MovesFit
<1> QED BY <1>1, <1>2, SubmitOutside DEF Local

\* The engine goes on without a commit.
LEMMA QuietMove ==
  ASSUME KernelInv, RuntimeInv, UNCHANGED <<vars, routed>>, Up, eng.at \notin BatchSteps,
         locked' = 0, UNCHANGED <<job, ctx, disk>>, faults' = faults \/ Error, EngineMoves
  PROVE  [Next]_vars /\ RuntimeInv'
<1>1. Carries
  BY CarriesKept DEF vars, lifeVars, workVars, effVars, proofVars
<1>2. EngineFits' /\ WantFits' /\ Up'
  BY <1>1, MovesFit
<1> QED BY <1>2, QuietOutside

-----------------------------------------------------------------------------
(* The sampling loop *)

\* The turn is started and prepared.
LEMMA OpenKeeps ==
  ASSUME KernelInv, RuntimeInv, Open \/ Prepare PROVE [Next]_vars /\ RuntimeInv'
<1>1. /\ Next /\ PlainCommand /\ Dispatch(routed) /\ Local /\ locked' = 0
      /\ eng.at \in {"open", "prepare"} /\ (Go("prepare") \/ Go("enter"))
  BY DEF Open, Prepare, Submit, PlainCommand, Next, LifeStep, At, Local
<1>2. EngineMoves
  BY <1>1, GoMoves DEF PlainSteps
<1> QED BY <1>1, <1>2, PlainSubmit DEF Up, BatchSteps

\* A resumed turn goes on with its decision only while it commits that one.
LEMMA EnterKeeps ==
  ASSUME KernelInv, RuntimeInv, Enter PROVE [Next]_vars /\ RuntimeInv'
<1>1. /\ eng.at = "enter" /\ locked' = 0 /\ UNCHANGED <<vars, routed, job, ctx, disk, faults>>
      /\ Up /\ eng.at \notin BatchSteps /\ TypeOK /\ EngineFits
  BY DEF Enter, At, Local, Up, BatchSteps, KernelInv, RuntimeInv
<1>2. CASE phase = "committing" /\ eng' = [eng EXCEPT !.at = "journal", !.want = decision]
  <2>1. decision \in Decisions \cup {NoDecision} /\ "journal" \in Steps
    BY DEF RuntimeInv, CancelFits, Steps, FinalSteps
  <2>2. /\ eng' \in EngineState /\ eng'.reply \in FinalReply /\ eng'.at = "journal"
        /\ eng'.want = decision
    BY <1>1, <1>2, <2>1, EngineFields DEF EngineState
  <2>3. UNCHANGED <<phase, decision, cancel>>
    BY <1>1 DEF vars, lifeVars
  <2>4. EngineFits' /\ WantFits' /\ Up'
    BY <1>2, <2>2, <2>3 DEF EngineFits, WantFits, RuntimeInv, CancelFits, Up
  <2> QED BY <1>1, <2>4, QuietOutside
<1>3. CASE Go("done") \/ Go("loop") \/ Go("tools")
  BY <1>1, <1>3, GoMoves, QuietMove DEF PlainSteps
<1>4. CASE Finalize(CancelDecision(CancelReason), TRUE)
  BY <1>1, <1>4, CancelAborts, AbortsMoves, QuietMove DEF Aborts
<1> QED BY <1>2, <1>3, <1>4 DEF Enter

\* A sample the engine resumes is a sample of the turn.
LEMMA SampleRoute ==
  ASSUME KernelInv, RuntimeInv, NEW call, NEW e \in Find("sample_provider", call)
  PROVE  /\ e \in DOMAIN routed /\ e \in DOMAIN effects
         /\ effects[e].kind = "sample_provider" /\ effects[e].call = routed[e].call
         /\ routed[e].call \in Samples /\ phase \notin Terminal
         /\ routed[e].kept \in {Null} \cup FinalReply
         /\ routed[e].started <=> effects[e].status = "running"
<1>1. Routes /\ seq \in Nat /\ TypeOK
  BY DEF RuntimeInv, KernelInv, TypeOK
<1>2. e \in DOMAIN routed /\ routed[e].kind = "sample_provider"
  BY <1>1, Found
<1>3. /\ e \in DOMAIN effects /\ effects[e].kind = "sample_provider"
      /\ effects[e].call = routed[e].call /\ KeptFits(routed[e])
      /\ routed[e].started <=> effects[e].status = "running"
  BY <1>1, <1>2, RoutePending
<1>4. effects[e] \in Effect
  BY <1>1, <1>3 DEF TypeOK
<1>5. routed[e].call \in Samples
  BY <1>3, <1>4 DEF Effect
<1> QED BY <1>2, <1>3, <1>5, PendingLive DEF KeptFits

\* A new sample is begun only when none is pending: findLocked would have found it.
LEMMA LoopKeeps ==
  ASSUME KernelInv, RuntimeInv, Loop PROVE [Next]_vars /\ RuntimeInv'
<1>1. /\ eng.at = "loop" /\ locked' = 0 /\ UNCHANGED <<vars, routed, job, ctx, disk, faults>>
      /\ Up /\ eng.at \notin BatchSteps /\ TypeOK /\ EngineFits
  BY DEF Loop, At, Local, Up, BatchSteps, KernelInv, RuntimeInv
<1>2. CASE Go("advance")
  BY <1>1, <1>2, GoMoves, QuietMove DEF PlainSteps
<1>3. CASE Fail
  BY <1>1, <1>3, FailMoves, QuietMove
<1>4. CASE \E e \in Find("sample_provider", Null) :
             eng' = [eng EXCEPT !.at = "start", !.sample = routed[e].call]
  <2>1. PICK e \in Find("sample_provider", Null) :
             eng' = [eng EXCEPT !.at = "start", !.sample = routed[e].call]
    BY <1>4
  <2>2. routed[e].call \in Samples
    BY SampleRoute
  <2>3. /\ eng' \in EngineState /\ eng'.reply \in FinalReply /\ eng'.at = "start"
        /\ eng'.want = eng.want
    BY <1>1, <2>1, <2>2, EngineFields DEF EngineState, Steps
  <2> QED BY <1>1, <2>3, TypedMoves, QuietMove DEF PlainSteps
<1>5. CASE /\ Find("sample_provider", Null) = {}
           /\ \E s \in FreshSamples : eng' = [eng EXCEPT !.at = "begin", !.sample = s]
  <2>1. PICK s \in Samples : eng' = [eng EXCEPT !.at = "begin", !.sample = s]
    BY <1>5 DEF FreshSamples
  <2>2. /\ eng' \in EngineState /\ eng'.reply \in FinalReply /\ eng'.at = "begin"
        /\ eng'.want = eng.want /\ eng'.sample = s
    BY <1>1, <2>1, EngineFields DEF EngineState, Steps
  <2>3. ~SamplePending
    <3>1. \A e \in DOMAIN routed : routed[e].kind # "sample_provider"
      BY <1>1, <1>5, Found DEF RuntimeInv, TypeOK
    <3>2. ASSUME NEW e \in DOMAIN effects PROVE effects[e].kind # "sample_provider"
      BY <1>1, <3>1 DEF RuntimeInv, RoutesComplete, Routes, RouteFits
    <3> QED BY <3>2 DEF SamplePending
  <2>4. ~SamplePending'
    BY <1>1, <2>3 DEF SamplePending, vars, effVars
  <2>5. EngineFits' /\ WantFits' /\ Up'
    BY <1>1, <2>2, <2>4 DEF EngineFits, WantFits, RuntimeInv, CancelFits, Up, vars, lifeVars
  <2> QED BY <1>1, <2>5, QuietOutside
<1> QED BY <1>2, <1>3, <1>4, <1>5 DEF Loop

\* The observation that starts a convergence.
LEMMA NoProgressKeeps ==
  ASSUME KernelInv, RuntimeInv, NoProgress PROVE [Next]_vars /\ RuntimeInv'
<1>1. /\ Next /\ PlainCommand /\ Dispatch(routed) /\ Local /\ locked' = 0
      /\ eng.at = "loop" /\ eng' = eng
  BY DEF NoProgress, Submit, PlainCommand, Next, DecisionStep, At, Local
<1>2. EngineMoves
  BY <1>1, StaysMoves DEF PlainSteps
<1> QED BY <1>1, <1>2, PlainSubmit DEF Up, BatchSteps

\* The request of a sample is the turn's only one, or the engine returns an error.
LEMMA BeginModelSampleKeeps ==
  ASSUME KernelInv, RuntimeInv, BeginModelSample PROVE [Next]_vars /\ RuntimeInv'
<1>1. /\ eng.at = "begin" /\ locked' = 0 /\ UNCHANGED <<job, ctx, disk, faults>>
      /\ Up /\ eng.at \notin BatchSteps /\ TypeOK /\ EngineFits
  BY DEF BeginModelSample, At, Local, Up, BatchSteps, KernelInv, RuntimeInv
<1>2. CASE Submit(ModelSampleRequested(eng.sample)) /\ Go("start")
  <2>1. eng.sample \in Samples /\ ~SamplePending
    BY <1>1 DEF EngineFits
  <2>2. Next /\ ModelSampleRequested(eng.sample) /\ Dispatch(routed)
    BY <1>2, <2>1 DEF Submit, Next, SampleStep
  <2>3. Evolves({}) /\ Carries
    BY <1>1, <2>2, RequestCommands
  <2>4. EngineFits' /\ WantFits' /\ Up'
    BY <1>2, <2>3, GoMoves, MovesFit DEF PlainSteps
  <2> QED BY <1>1, <2>2, <2>3, <2>4, SubmitOutside
<1>3. CASE Fail /\ UNCHANGED <<vars, routed>>
  BY <1>1, <1>3, FailMoves, QuietMove
<1> QED BY <1>2, <1>3 DEF BeginModelSample

\* The attempt of a sample starts its pending effect.
LEMMA StartModelSampleKeeps ==
  ASSUME KernelInv, RuntimeInv, StartModelSample PROVE [Next]_vars /\ RuntimeInv'
<1>1. /\ eng.at = "start" /\ locked' = 0 /\ UNCHANGED <<job, ctx, disk, faults>>
      /\ Up /\ eng.at \notin BatchSteps /\ TypeOK /\ Go("streaming")
  BY DEF StartModelSample, At, Local, Up, BatchSteps, KernelInv, RuntimeInv
<1>2. PICK e \in Find("sample_provider", eng.sample) : Start(e)
  BY DEF StartModelSample
<1>3. e \in DOMAIN routed /\ e \in DOMAIN effects
  BY SampleRoute
<1>4. Carries
  BY <1>1, <1>2, MarkCommands DEF Start
<1>5. EngineFits' /\ WantFits' /\ Up'
  BY <1>1, <1>4, GoMoves, MovesFit DEF PlainSteps
<1> QED BY <1>1, <1>2, <1>3, <1>5, StartOutside

\* What the provider answers is a final reply.
LEMMA AnsweredMoves ==
  ASSUME RuntimeInv, NEW r \in Answers \cup {NoReply}, Answered(r) PROVE EngineMoves
<1>1. r \in FinalReply /\ r \in Reply
  <2>1. NoReply \in Reply
    BY DEF NoReply, Reply
  <2>2. Answers \subseteq FinalReply
    BY DEF Answers, FinalReply
  <2> QED BY <2>1, <2>2 DEF FinalReply
<1>2. /\ eng' \in EngineState /\ eng'.reply = r /\ eng'.at = "streamed" /\ eng'.want = eng.want
  BY <1>1, EngineFields DEF EngineState, Answered, Steps, RuntimeInv
<1> QED BY <1>1, <1>2, TypedMoves DEF PlainSteps

\* The end of a stream commits nothing.
LEMMA StreamQuietKeeps ==
  ASSUME KernelInv, RuntimeInv, SkipModelSample \/ StreamEnds PROVE [Next]_vars /\ RuntimeInv'
<1>1. /\ eng.at \in {"start", "streaming"} /\ locked' = 0
      /\ UNCHANGED <<vars, routed, job, ctx, disk, faults>>
      /\ \E r \in Answers \cup {NoReply} : Answered(r)
  BY DEF SkipModelSample, StreamEnds, At, Local
<1> QED BY <1>1, AnsweredMoves, QuietMove DEF Up, BatchSteps

\* The checkpoint of a complete response.
LEMMA CheckpointKeeps ==
  ASSUME KernelInv, RuntimeInv, Checkpoint PROVE [Next]_vars /\ RuntimeInv'
<1>1. /\ eng.at = "streaming" /\ locked' = 0 /\ UNCHANGED <<eng, routed, job, ctx, disk, faults>>
      /\ Up /\ eng.at \notin BatchSteps /\ TypeOK
  BY DEF Checkpoint, At, Local, Up, BatchSteps, KernelInv, RuntimeInv
<1>2. PICK e \in DOMAIN effects : ModelSampleProgress(e, eng.sample, TRUE)
  BY DEF Checkpoint
<1>3. eng.sample \in Samples /\ phase \notin Terminal
  BY <1>1, <1>2, PendingLive DEF ModelSampleProgress, RunningSample, TypeOK, Effect
<1>4. Next
  BY <1>2, <1>3 DEF Next, SampleStep
<1>5. Carries /\ UNCHANGED <<calls, effects, seq>>
  BY <1>1, <1>2, PlainCommands DEF PlainCommand
<1>6. TypeOK'
  BY <1>4, KernelStep DEF KernelInv
<1>7. Routes' /\ RoutesComplete'
  BY <1>1, <1>5 DEF RuntimeInv, Routes, RouteFits, RoutesComplete, Up
<1>8. EngineFits' /\ WantFits'
  BY <1>1, <1>5, StaysMoves, MovesFit DEF PlainSteps
<1> QED BY <1>1, <1>4, <1>5, <1>6, <1>7, <1>8, OutsideBatch

\* A retry and a continued response put the effect and its route back together.
LEMMA AnotherAttemptKeeps ==
  ASSUME KernelInv, RuntimeInv, ScheduleProviderRetry \/ FinishModelTransport
  PROVE  [Next]_vars /\ RuntimeInv'
<1>1. PICK e \in Find("sample_provider", eng.sample) :
         AnotherAttempt(e) /\ (ProviderRetry(e, eng.sample) \/ EffectRequeued(e))
  BY DEF ScheduleProviderRetry, FinishModelTransport
<1>2. /\ eng.at = "streaming" /\ locked' = 0 /\ UNCHANGED <<job, ctx, disk, faults>>
      /\ Up /\ eng.at \notin BatchSteps /\ TypeOK /\ Go("start")
      /\ routed' = [routed EXCEPT ![e].started = FALSE]
  BY <1>1 DEF AnotherAttempt, At, Local, Up, BatchSteps, KernelInv, RuntimeInv
<1>3. /\ e \in DOMAIN routed /\ e \in DOMAIN effects /\ phase \notin Terminal
      /\ effects[e].call \in Samples
  BY SampleRoute
<1>4. Next
  <2>1. CASE EffectRequeued(e)
    BY <1>3, <2>1, StartNext
  <2>2. CASE ProviderRetry(e, eng.sample)
    BY <1>3, <2>2 DEF Next, SampleStep, ProviderRetry, RunningSample
  <2> QED BY <1>1, <2>1, <2>2
<1>5. SetEffect(e, "requested", effects[e].attempt)
  BY <1>1 DEF ProviderRetry, EffectRequeued
<1>6. Carries /\ UNCHANGED calls
  BY <1>1, <1>2, MarkCommands
<1>7. Routes' /\ RoutesComplete'
  <2>1. EngineFits' /\ WantFits' /\ Up'
    BY <1>2, <1>6, GoMoves, MovesFit DEF PlainSteps
  <2>2. FALSE <=> "requested" = "running"
    OBVIOUS
  <2>3. /\ Routes'
        /\ DOMAIN effects \subseteq DOMAIN routed => DOMAIN effects' \subseteq DOMAIN routed'
    BY <1>2, <1>3, <1>5, <1>6, <2>2, MarkFits DEF RuntimeInv
  <2> QED BY <1>2, <2>1, <2>3 DEF RuntimeInv, RoutesComplete
<1>8. TypeOK'
  BY <1>4, KernelStep DEF KernelInv
<1>9. EngineFits' /\ WantFits'
  BY <1>2, <1>6, GoMoves, MovesFit DEF PlainSteps
<1> QED BY <1>2, <1>4, <1>6, <1>7, <1>8, <1>9, OutsideBatch

\* The result of a sample is a step of the turn: a failed one carries nothing.
LEMMA SampleResultNext ==
  ASSUME KernelInv, NEW e \in DOMAIN effects, NEW s \in Samples, NEW r \in FinalReply,
         ModelSampleResult(e, s, r.ok, r.text, FALSE, r.batch)
  PROVE  Next /\ Evolves({e}) /\ Carries
<1>1. r.ok \in BOOLEAN /\ r.text \in BOOLEAN /\ r.batch \in {<<>>} \cup Batches
  BY DEF FinalReply, Reply
<1>2. CASE r.ok
  <2>1. ModelSampleResult(e, s, TRUE, r.text, FALSE, r.batch)
    BY <1>2, <1>1
  <2>2. SampleStep
    BY <1>1, <2>1 DEF SampleStep
  <2> QED BY <1>1, <2>2, PendingLive, SampleResultCarries DEF Next, KernelInv
<1>3. CASE ~r.ok
  <2>1. r.text = FALSE /\ r.batch = <<>> /\ r.ok = FALSE
    BY <1>3 DEF FinalReply, NoReply
  <2>2. ModelSampleResult(e, s, FALSE, FALSE, FALSE, <<>>)
    BY <2>1
  <2>3. SampleStep
    BY <2>2 DEF SampleStep
  <2> QED BY <1>1, <2>3, PendingLive, SampleResultCarries DEF Next, KernelInv
<1> QED BY <1>2, <1>3

\* The result of a sample ends its effect and its route, or is retained.
LEMMA FinishModelSampleKeeps ==
  ASSUME KernelInv, RuntimeInv, FinishModelSample PROVE [Next]_vars /\ RuntimeInv'
<1>1. /\ eng.at = "streamed" /\ locked' = 0 /\ UNCHANGED <<job, ctx, disk, faults>>
      /\ Up /\ eng.at \notin BatchSteps /\ TypeOK /\ eng.reply \in FinalReply
  BY DEF FinishModelSample, At, Local, Up, BatchSteps, KernelInv, RuntimeInv, EngineFits
<1>2. PICK e \in Find("sample_provider", eng.sample) :
         LET r == Kept(e, eng.reply)
         IN \/ /\ Resolve(e, SampleResult(e, r))
               /\ IF ~eng.reply.ok THEN Fail
                  ELSE Go(IF eng.reply.batch # <<>> THEN "tools" ELSE "advance")
            \/ SampleRefused(r) /\ Retain(e, eng.reply) /\ Fail /\ UNCHANGED vars
  BY DEF FinishModelSample
<1>3. /\ e \in DOMAIN routed /\ e \in DOMAIN effects /\ effects[e].kind = "sample_provider"
      /\ effects[e].call \in Samples /\ routed[e].kept \in {Null} \cup FinalReply
  BY SampleRoute
<1>4. Kept(e, eng.reply) \in FinalReply
  BY <1>1, <1>3 DEF Kept
<1>5. CASE /\ Resolve(e, SampleResult(e, Kept(e, eng.reply)))
           /\ IF ~eng.reply.ok THEN Fail
              ELSE Go(IF eng.reply.batch # <<>> THEN "tools" ELSE "advance")
  <2> DEFINE r == Kept(e, eng.reply)
  <2>1. /\ ModelSampleResult(e, eng.sample, r.ok, r.text, FALSE, r.batch)
        /\ Dispatch(Without(routed, {e}))
    BY <1>5 DEF Resolve, SampleResult
  <2>2. eng.sample \in Samples
    BY <1>3, <2>1 DEF ModelSampleResult, SampleResultMatches
  <2>3. Next /\ Evolves({e}) /\ Carries
    BY <1>3, <1>4, <2>1, <2>2, SampleResultNext
  <2>4. EngineMoves
    BY <1>5, FailMoves, GoMoves DEF PlainSteps
  <2>5. EngineFits' /\ WantFits' /\ Up'
    BY <2>3, <2>4, MovesFit
  <2> QED BY <1>1, <2>1, <2>3, <2>5, ResolveOutside
<1>6. CASE Retain(e, eng.reply) /\ Fail /\ UNCHANGED vars
  <2>1. Carries /\ UNCHANGED <<effects, seq, calls>>
    BY <1>6, CarriesKept DEF vars, lifeVars, workVars, effVars, proofVars
  <2>2. EngineFits' /\ WantFits' /\ Up'
    BY <1>6, <2>1, FailMoves, MovesFit
  <2>3. routed[e].kind = "sample_provider"
    BY Found DEF RuntimeInv, KernelInv, TypeOK
  <2>4. Routes' /\ DOMAIN routed' = DOMAIN routed
    BY <1>1, <1>3, <1>6, <2>1, <2>3, RetainFits DEF RuntimeInv
  <2>5. RoutesComplete'
    BY <1>1, <2>1, <2>2, <2>4 DEF RuntimeInv, RoutesComplete
  <2>6. TypeOK'
    BY <1>6, KernelStutter DEF KernelInv
  <2> QED BY <1>1, <1>6, <2>1, <2>2, <2>4, <2>5, <2>6, OutsideBatch
<1> QED BY <1>2, <1>5, <1>6

-----------------------------------------------------------------------------
(* Deciding what comes next, verification, completion *)

\* Discarding the output, if there is any.
LEMMA DiscardKeeps ==
  ASSUME KernelInv, RuntimeInv, Discard, Local, locked' = 0, Up, eng.at \notin BatchSteps,
         EngineMoves
  PROVE  [Next]_vars /\ RuntimeInv'
<1>1. CASE output
  <2>1. Next /\ PlainCommand /\ Dispatch(routed)
    BY <1>1 DEF Discard, Submit, Next, OutputStep, PlainCommand
  <2> QED BY <2>1, PlainSubmit
<1>2. CASE ~output
  BY <1>2, QuietMove DEF Discard, Local
<1> QED BY <1>1, <1>2

\* The reducer is asked for the next step.
LEMMA AdvanceKeeps ==
  ASSUME KernelInv, RuntimeInv, Advance PROVE [Next]_vars /\ RuntimeInv'
<1>1. eng.at = "advance" /\ locked' = 0 /\ Local /\ Up /\ eng.at \notin BatchSteps
  BY DEF Advance, At, Local, Up, BatchSteps
<1>2. CASE \E key \in Keys : Submit(EvaluateTurnStep(key)) /\ Go("act")
  <2>1. Next /\ PlainCommand /\ Dispatch(routed) /\ Go("act")
    BY <1>2 DEF Submit, Next, DecisionStep, PlainCommand
  <2> QED BY <1>1, <2>1, GoMoves, PlainSubmit DEF PlainSteps
<1>3. CASE Fail /\ UNCHANGED <<vars, routed>>
  BY <1>1, <1>3, FailMoves, QuietMove DEF Local
<1> QED BY <1>2, <1>3 DEF Advance

\* What the engine does on the reducer's answer.
LEMMA ActKeeps ==
  ASSUME KernelInv, RuntimeInv, Act PROVE [Next]_vars /\ RuntimeInv'
<1>1. eng.at = "act" /\ locked' = 0 /\ Local /\ Up /\ eng.at \notin BatchSteps /\ TypeOK
  BY DEF Act, At, Local, Up, BatchSteps, KernelInv
<1>2. CASE Discard /\ Go("loop")
  BY <1>1, <1>2, GoMoves, DiscardKeeps DEF PlainSteps
<1>3. CASE (Go("loop") \/ Go("complete")) /\ UNCHANGED <<vars, routed>>
  BY <1>1, <1>3, GoMoves, QuietMove DEF PlainSteps, Local
<1>4. CASE Submit(VerificationStarted) /\ Go("verifying")
  <2>1. Next /\ VerificationStarted /\ Dispatch(routed)
    BY <1>4 DEF Submit, Next, ProofStep
  <2>2. Evolves({}) /\ Carries
    BY <1>1, <2>1, RequestCommands
  <2>3. EngineFits' /\ WantFits' /\ Up'
    BY <1>4, <2>2, GoMoves, MovesFit DEF PlainSteps
  <2> QED BY <1>1, <2>1, <2>2, <2>3, SubmitOutside DEF Local
<1>5. CASE Fail /\ UNCHANGED <<vars, routed>>
  BY <1>1, <1>5, FailMoves, QuietMove DEF Local
<1>6. CASE /\ Submit(ConvergenceFinalizationStarted)
           /\ eng' = [eng EXCEPT !.at = "loop", !.finalizing = TRUE]
  <2>1. Next /\ PlainCommand /\ Dispatch(routed)
    BY <1>6 DEF Submit, Next, DecisionStep, PlainCommand
  <2>2. /\ eng' \in EngineState /\ eng'.reply \in FinalReply /\ eng'.at = "loop"
        /\ eng'.want = eng.want
    BY <1>6, EngineFields DEF EngineState, Steps, RuntimeInv
  <2> QED BY <1>1, <2>1, <2>2, TypedMoves, PlainSubmit DEF PlainSteps
<1>7. CASE Finalize(BlockDecision, FALSE) /\ UNCHANGED <<vars, routed>>
  <2>1. BlockDecision \in Decisions /\ BlockDecision.kind = "failed"
    BY <1>1, CancelAborts
  <2>2. Aborts
    BY <1>7, <2>1 DEF Aborts
  <2> QED BY <1>1, <1>7, <2>2, AbortsMoves, QuietMove DEF Local
<1> QED BY <1>2, <1>3, <1>4, <1>5, <1>6, <1>7 DEF Act

\* A route found by its kind, other than an approval's, is that of a pending effect.
LEMMA KindRoute ==
  ASSUME KernelInv, RuntimeInv, NEW kind, kind # "await_approval", NEW call,
         NEW e \in Find(kind, call)
  PROVE  /\ e \in DOMAIN routed /\ e \in DOMAIN effects
         /\ effects[e].kind = kind /\ effects[e].call = routed[e].call /\ routed[e].kind = kind
         /\ phase \notin Terminal /\ KeptFits(routed[e])
         /\ routed[e].started <=> effects[e].status = "running"
<1>1. Routes /\ seq \in Nat /\ TypeOK
  BY DEF RuntimeInv, KernelInv, TypeOK
<1>2. e \in DOMAIN routed /\ routed[e].kind = kind
  BY <1>1, Found
<1>3. /\ e \in DOMAIN effects /\ effects[e].kind = kind
      /\ effects[e].call = routed[e].call /\ KeptFits(routed[e])
      /\ routed[e].started <=> effects[e].status = "running"
  BY <1>1, <1>2, RoutePending
<1> QED BY <1>2, <1>3, PendingLive

\* The verification starts its pending effect.
LEMMA StartVerificationKeeps ==
  ASSUME KernelInv, RuntimeInv, StartVerification PROVE [Next]_vars /\ RuntimeInv'
<1>1. /\ eng.at = "verifying" /\ locked' = 0 /\ Local /\ Up /\ eng.at \notin BatchSteps /\ TypeOK
      /\ Go("verified")
  BY DEF StartVerification, At, Local, Up, BatchSteps, KernelInv
<1>2. PICK e \in Find("run_verification", Null) : Start(e)
  BY DEF StartVerification
<1>3. e \in DOMAIN routed /\ e \in DOMAIN effects
  BY KindRoute
<1>4. Carries
  BY <1>1, <1>2, MarkCommands DEF Start
<1>5. EngineFits' /\ WantFits' /\ Up'
  BY <1>1, <1>4, GoMoves, MovesFit DEF PlainSteps
<1> QED BY <1>1, <1>2, <1>3, <1>5, StartOutside DEF Local

\* The result of a verification ends its effect and its route.
LEMMA FinishVerificationKeeps ==
  ASSUME KernelInv, RuntimeInv, FinishVerification PROVE [Next]_vars /\ RuntimeInv'
<1>1. eng.at = "verified" /\ locked' = 0 /\ Local /\ Up /\ eng.at \notin BatchSteps /\ TypeOK
  BY DEF FinishVerification, At, Local, Up, BatchSteps, KernelInv
<1>2. PICK e \in Find("run_verification", Null), key \in Keys,
           status \in {"passed", "failed", "unavailable"} :
         Resolve(e, VerificationFinished(e, status, key))
  BY DEF FinishVerification
<1>3. e \in DOMAIN routed /\ e \in DOMAIN effects /\ phase \notin Terminal
  BY KindRoute
<1>4. VerificationFinished(e, status, key) /\ Dispatch(Without(routed, {e}))
  BY <1>2 DEF Resolve
<1>5. Next
  BY <1>3, <1>4 DEF Next, ProofStep
<1>6. Evolves({e}) /\ Carries
  BY <1>1, <1>4, EndCommands
<1>7. EngineMoves
  BY GoMoves, FailMoves DEF FinishVerification, PlainSteps
<1>8. EngineFits' /\ WantFits' /\ Up'
  BY <1>6, <1>7, MovesFit
<1> QED BY <1>1, <1>4, <1>5, <1>6, <1>8, ResolveOutside DEF Local

\* The output of a turn to repair is discarded.
LEMMA RepairVerificationKeeps ==
  ASSUME KernelInv, RuntimeInv, RepairVerification PROVE [Next]_vars /\ RuntimeInv'
<1>1. /\ eng.at = "repair" /\ locked' = 0 /\ Local /\ Up /\ eng.at \notin BatchSteps
      /\ Discard /\ Go("loop")
  BY DEF RepairVerification, At, Local, Up, BatchSteps
<1> QED BY <1>1, GoMoves, DiscardKeeps DEF PlainSteps

\* The output is released and the completed terminal asked for.
LEMMA CompleteTurnKeeps ==
  ASSUME KernelInv, RuntimeInv, CompleteTurn PROVE [Next]_vars /\ RuntimeInv'
<1>1. eng.at = "complete" /\ locked' = 0 /\ Local /\ Up /\ eng.at \notin BatchSteps
  BY DEF CompleteTurn, At, Local, Up, BatchSteps
<1>2. CASE /\ Submit(ReleaseOutput)
           /\ eng' = [eng EXCEPT !.at = "request", !.last = FALSE,
                                 !.want = [NoDecision EXCEPT !.kind = "completed"]]
  <2> DEFINE d == [NoDecision EXCEPT !.kind = "completed"]
  <2>1. Next /\ PlainCommand /\ Dispatch(routed)
    BY <1>2 DEF Submit, Next, OutputStep, PlainCommand
  <2>2. d \in Decisions /\ d.kind = "completed"
    BY DEF NoDecision, Decisions, Decision, Terminal
  <2>3. "request" \in Steps /\ EngineFits
    BY DEF Steps, FinalSteps, RuntimeInv
  <2> HIDE DEF d
  <2>4. eng' = [eng EXCEPT !.at = "request", !.last = FALSE, !.want = d]
    BY <1>2 DEF d
  <2>5. /\ eng' \in EngineState /\ eng'.reply \in FinalReply /\ eng'.at = "request"
        /\ eng'.want = d
    BY <2>2, <2>3, <2>4, EngineFields DEF EngineState
  <2>6. EngineMoves
    BY <2>2, <2>5, DecisionsReal DEF EngineMoves
  <2> QED BY <1>1, <2>1, <2>6, PlainSubmit
<1>3. CASE Fail /\ UNCHANGED <<vars, routed>>
  BY <1>1, <1>3, FailMoves, QuietMove DEF Local
<1> QED BY <1>2, <1>3 DEF CompleteTurn

-----------------------------------------------------------------------------
(* FinalizeTerminal *)

\* A pending sample is started and ended with its retained result or none.
LEMMA AbortSampleKeeps ==
  ASSUME KernelInv, RuntimeInv, AbortSample PROVE [Next]_vars /\ RuntimeInv'
<1>1. eng.at = "abort" /\ locked' = 0 /\ Local /\ Up /\ eng.at \notin BatchSteps /\ TypeOK
  BY DEF AbortSample, At, Local, Up, BatchSteps, KernelInv
<1>2. PICK e \in Find("sample_provider", Null) :
       \/ Start(e) /\ UNCHANGED eng
       \/ LET r == Kept(e, NoReply)
              s == routed[e].call
          IN /\ routed[e].started
             /\ \/ /\ Resolve(e, ModelSampleResult(e, s, r.ok, r.text, FALSE, r.batch))
                   /\ UNCHANGED eng
                \/ /\ r.ok /\ r.batch # <<>> /\ ~ProposableBatch(r.batch)
                   /\ eng' = [eng EXCEPT !.at = "abortTools", !.failed = TRUE]
                   /\ UNCHANGED <<vars, routed>>
  BY DEF AbortSample
<1>3. /\ e \in DOMAIN routed /\ e \in DOMAIN effects /\ routed[e].call \in Samples
      /\ routed[e].kept \in {Null} \cup FinalReply
  BY SampleRoute
<1>4. UNCHANGED eng => EngineMoves
  BY <1>1, StaysMoves
<1>5. CASE Start(e) /\ UNCHANGED eng
  <2>1. Carries
    BY <1>1, <1>5, MarkCommands DEF Start
  <2>2. EngineFits' /\ WantFits' /\ Up'
    BY <1>4, <1>5, <2>1, MovesFit
  <2> QED BY <1>1, <1>3, <1>5, <2>2, StartOutside DEF Local
<1>6. CASE LET r == Kept(e, NoReply)
           IN /\ Resolve(e, ModelSampleResult(e, routed[e].call, r.ok, r.text, FALSE, r.batch))
              /\ UNCHANGED eng
  <2> DEFINE r == Kept(e, NoReply)
  <2>1. NoReply \in FinalReply
    BY DEF NoReply, FinalReply, Reply
  <2>2. r \in FinalReply
    BY <1>3, <2>1 DEF Kept
  <2>3. /\ ModelSampleResult(e, routed[e].call, r.ok, r.text, FALSE, r.batch)
        /\ Dispatch(Without(routed, {e}))
    BY <1>6 DEF Resolve
  <2>4. Next /\ Evolves({e}) /\ Carries
    BY <1>3, <2>2, <2>3, SampleResultNext
  <2>5. EngineFits' /\ WantFits' /\ Up'
    BY <1>4, <1>6, <2>4, MovesFit
  <2> QED BY <1>1, <2>3, <2>4, <2>5, ResolveOutside DEF Local
<1>7. CASE /\ eng' = [eng EXCEPT !.at = "abortTools", !.failed = TRUE]
           /\ UNCHANGED <<vars, routed>>
  <2>1. /\ eng' \in EngineState /\ eng'.reply \in FinalReply /\ eng'.at = "abortTools"
        /\ eng'.want = eng.want /\ eng'.failed
    BY <1>7, EngineFields DEF EngineState, Steps, FinalSteps, RuntimeInv
  <2>2. EngineMoves
    BY <2>1 DEF EngineMoves, RuntimeInv, CancelFits
  <2> QED BY <1>1, <1>7, <2>2, QuietMove DEF Local
<1> QED BY <1>2, <1>5, <1>6, <1>7

\* When no sample is left the tools are next.
LEMMA SamplesAbortedKeeps ==
  ASSUME KernelInv, RuntimeInv, SamplesAborted PROVE [Next]_vars /\ RuntimeInv'
<1>1. /\ eng.at = "abort" /\ locked' = 0 /\ Local /\ Up /\ eng.at \notin BatchSteps
      /\ Go("abortTools") /\ UNCHANGED <<vars, routed>>
  BY DEF SamplesAborted, At, Local, Up, BatchSteps
<1>2. eng.want # NoDecision
  BY <1>1 DEF RuntimeInv, EngineFits
<1> QED BY <1>1, <1>2, GoFinal, QuietMove DEF Local

\* The route of a pending approval, found by its call, is that of its effect.
LEMMA ApprovalRoute ==
  ASSUME KernelInv, RuntimeInv, NEW r \in Requests, approvals[r] # Null,
         NEW e \in Find("await_approval", approvals[r])
  PROVE  /\ e \in DOMAIN routed /\ e \in DOMAIN effects
         /\ effects[e].kind = "await_approval" /\ effects[e].call = approvals[r]
         /\ approvals[r] \in Calls /\ calls[approvals[r]] = "open" /\ phase \notin Terminal
         /\ routed[e].started <=> effects[e].status = "running"
<1>1. Routes /\ seq \in Nat /\ TypeOK /\ PhaseFitsWork
  BY DEF RuntimeInv, KernelInv, TypeOK
<1>2. e \in DOMAIN routed /\ routed[e].kind = "await_approval" /\ routed[e].call = approvals[r]
  BY <1>1, Found
<1>3. approvals[r] \in OpenCalls
  BY <1>1 DEF PhaseFitsWork, PendingApprovals
<1>4. /\ e \in DOMAIN effects /\ effects[e].kind = "await_approval"
      /\ effects[e].call = routed[e].call
      /\ routed[e].started <=> effects[e].status = "running"
  BY <1>1, <1>2, <1>3, RoutePending
<1> QED BY <1>2, <1>3, <1>4, PendingLive DEF OpenCalls

\* An answer to a pending approval is a step of the turn.
LEMMA AnswerNext ==
  ASSUME KernelInv, RuntimeInv, NEW r \in Requests, NEW e \in DOMAIN effects,
         effects[e].call = approvals[r], NEW canceled \in BOOLEAN, ApprovalResult(e, r, canceled)
  PROVE  /\ Next /\ Evolves({e}) /\ Carries /\ UNCHANGED calls
         /\ \A d \in Calls \ {approvals[r]} : ApprovalsOf(d)' = ApprovalsOf(d)
<1>1. Next
  BY PendingLive DEF Next, ToolStep
<1> QED BY <1>1, ApprovalResultCarries DEF KernelInv, RuntimeInv

\* A pending approval is started and ended, or its retained answer makes AbortTools fail.
LEMMA AbortApprovalKeeps ==
  ASSUME KernelInv, RuntimeInv, AbortApproval PROVE [Next]_vars /\ RuntimeInv'
<1>1. eng.at = "abortTools" /\ locked' = 0 /\ Local /\ Up /\ eng.at \notin BatchSteps /\ TypeOK
  BY DEF AbortApproval, At, Local, Up, BatchSteps, KernelInv
<1>2. PICK r \in PendingApprovals : \E e \in Find("await_approval", approvals[r]) :
       \/ Start(e) /\ UNCHANGED eng
       \/ /\ routed[e].started
          /\ IF routed[e].kept = Null
             THEN Resolve(e, ApprovalResult(e, r, FALSE)) /\ UNCHANGED eng
             ELSE AbortFails /\ UNCHANGED <<vars, routed>>
  BY DEF AbortApproval
<1>3. PICK e \in Find("await_approval", approvals[r]) :
       \/ Start(e) /\ UNCHANGED eng
       \/ Resolve(e, ApprovalResult(e, r, FALSE)) /\ UNCHANGED eng
       \/ AbortFails /\ UNCHANGED <<vars, routed>>
  BY <1>2
<1>4. r \in Requests /\ approvals[r] # Null
  BY DEF PendingApprovals
<1>5. e \in DOMAIN routed /\ e \in DOMAIN effects /\ effects[e].call = approvals[r]
  BY <1>4, ApprovalRoute
<1>6. UNCHANGED eng => EngineMoves
  BY <1>1, StaysMoves
<1>7. CASE Start(e) /\ UNCHANGED eng
  <2>1. Carries
    BY <1>1, <1>7, MarkCommands DEF Start
  <2>2. EngineFits' /\ WantFits' /\ Up'
    BY <1>6, <1>7, <2>1, MovesFit
  <2> QED BY <1>1, <1>5, <1>7, <2>2, StartOutside DEF Local
<1>8. CASE Resolve(e, ApprovalResult(e, r, FALSE)) /\ UNCHANGED eng
  <2>1. ApprovalResult(e, r, FALSE) /\ Dispatch(Without(routed, {e}))
    BY <1>8 DEF Resolve
  <2>2. Next /\ Evolves({e}) /\ Carries
    BY <1>4, <1>5, <2>1, AnswerNext
  <2>3. EngineFits' /\ WantFits' /\ Up'
    BY <1>6, <1>8, <2>2, MovesFit
  <2> QED BY <1>1, <2>1, <2>2, <2>3, ResolveOutside DEF Local
<1>9. CASE AbortFails /\ UNCHANGED <<vars, routed>>
  BY <1>1, <1>9, AbortFailsMoves, QuietMove DEF Local
<1> QED BY <1>3, <1>7, <1>8, <1>9

\* The call of a tool's effect is an open call of the turn.
LEMMA ToolRoute ==
  ASSUME KernelInv, RuntimeInv, NEW e \in DOMAIN routed, routed[e].kind = "execute_tool"
  PROVE  /\ e \in DOMAIN effects
         /\ effects[e].kind = "execute_tool" /\ effects[e].call = routed[e].call
         /\ routed[e].call \in Calls /\ calls[routed[e].call] = "open" /\ phase \notin Terminal
         /\ routed[e].kept \in {Null} \cup ToolOutcome
         /\ routed[e].started <=> effects[e].status = "running"
<1>1. /\ e \in DOMAIN effects /\ effects[e].kind = "execute_tool"
      /\ effects[e].call = routed[e].call /\ KeptFits(routed[e])
      /\ routed[e].started <=> effects[e].status = "running"
  BY RoutePending DEF RuntimeInv
<1>2. Owned(effects[e])
  BY <1>1 DEF KernelInv, EffectsInv, AllOwned
<1>3. effects[e].call \in OpenCalls
  BY <1>1, <1>2 DEF Owned
<1> QED BY <1>1, <1>3, PendingLive DEF KeptFits, OpenCalls

\* The effect of a tool is started and ended with its retained result or none.
LEMMA AbortToolKeeps ==
  ASSUME KernelInv, RuntimeInv, AbortTool PROVE [Next]_vars /\ RuntimeInv'
<1>1. /\ eng.at = "abortTools" /\ locked' = 0 /\ Local /\ Up /\ eng.at \notin BatchSteps /\ TypeOK
      /\ eng' = eng
  BY DEF AbortTool, At, Local, Up, BatchSteps, KernelInv
<1>2. PICK e \in Find("execute_tool", Null) : Start(e) \/ Resolve(e, ToolAborted(e))
  BY DEF AbortTool
<1>3. e \in DOMAIN routed /\ routed[e].kind = "execute_tool"
  BY KindRoute
<1>4. /\ e \in DOMAIN effects /\ effects[e].kind = "execute_tool" /\ routed[e].call \in Calls
      /\ routed[e].kept \in {Null} \cup ToolOutcome /\ phase \notin Terminal
  BY <1>3, ToolRoute
<1>5. EngineMoves
  BY <1>1, StaysMoves
<1>6. CASE Start(e)
  <2>1. Carries
    BY <1>1, <1>6, MarkCommands DEF Start
  <2>2. EngineFits' /\ WantFits' /\ Up'
    BY <1>5, <2>1, MovesFit
  <2> QED BY <1>1, <1>3, <1>4, <1>6, <2>2, StartOutside DEF Local
<1>7. CASE Resolve(e, ToolAborted(e))
  <2>1. ToolAborted(e) /\ Dispatch(Without(routed, {e}))
    BY <1>7 DEF Resolve
  <2>2. Next /\ Evolves({e}) /\ Carries
    <3>1. CASE routed[e].kept = Null
      <4>1. EffectResultReceived(e)
        BY <2>1, <3>1 DEF ToolAborted
      <4>2. Next
        BY <1>4, <4>1 DEF Next, EffectStep
      <4> QED BY <1>1, <4>1, <4>2, EndCommands
    <3>2. CASE routed[e].kept # Null
      <4> DEFINE c == routed[e].call
                 o == routed[e].kept
      <4>1. ToolResult(e, c, o.isError, o.changes)
        BY <2>1, <3>2 DEF ToolAborted
      <4>2. o.isError \in BOOLEAN /\ o.changes \in BOOLEAN
        BY <1>4, <3>2 DEF ToolOutcome
      <4> HIDE DEF c, o
      <4>3. c \in Calls
        BY <1>4 DEF c
      <4>4. Next
        BY <1>4, <4>1, <4>2, <4>3 DEF Next, ToolStep
      <4>5. EffectsInv
        BY DEF KernelInv
      <4> QED BY <1>1, <4>1, <4>2, <4>3, <4>4, <4>5, ToolResultCarries
    <3> QED BY <3>1, <3>2
  <2>3. EngineFits' /\ WantFits' /\ Up'
    BY <1>5, <2>2, MovesFit
  <2> QED BY <1>1, <2>1, <2>2, <2>3, ResolveOutside DEF Local
<1> QED BY <1>2, <1>6, <1>7

\* The calls that are left are closed; no effect is left with them.
LEMMA CloseCallsKeeps ==
  ASSUME KernelInv, RuntimeInv, CloseCalls PROVE [Next]_vars /\ RuntimeInv'
<1>1. /\ eng.at = "abortTools" /\ locked' = 0 /\ Local /\ Up /\ eng.at \notin BatchSteps /\ TypeOK
      /\ eng' = eng /\ PendingApprovals = {} /\ Find("execute_tool", Null) = {}
      /\ phase \notin Terminal /\ AbortOpenCalls /\ Dispatch(routed)
  BY DEF CloseCalls, At, Local, Up, BatchSteps, KernelInv, Submit
<1>2. Next
  BY <1>1 DEF Next, ToolStep
<1>3. \A f \in DOMAIN effects : effects[f].kind # "execute_tool"
  <2>1. \A e \in DOMAIN routed : routed[e].kind # "execute_tool"
    BY <1>1, Found DEF RuntimeInv, TypeOK
  <2> QED BY <1>1, <2>1 DEF RuntimeInv, RoutesComplete, Routes, RouteFits
<1>4. Evolves({}) /\ Carries
  BY <1>1, <1>3, CloseCarries DEF KernelInv
<1>5. EngineFits' /\ WantFits' /\ Up'
  BY <1>1, <1>4, StaysMoves, MovesFit
<1> QED BY <1>1, <1>2, <1>4, <1>5, SubmitOutside DEF Local

\* After the tools the output is discarded, unless an error is to be returned.
LEMMA ToolsAbortedKeeps ==
  ASSUME KernelInv, RuntimeInv, ToolsAborted PROVE [Next]_vars /\ RuntimeInv'
<1>1. /\ eng.at = "abortTools" /\ locked' = 0 /\ Local /\ Up /\ eng.at \notin BatchSteps
      /\ UNCHANGED <<vars, routed>>
  BY DEF ToolsAborted, At, Local, Up, BatchSteps
<1>2. CASE AbortFails
  BY <1>1, <1>2, AbortFailsMoves, QuietMove DEF Local
<1>3. CASE ~eng.failed /\ Go("discard")
  <2>1. eng.want # NoDecision
    BY <1>1, <1>3 DEF RuntimeInv, EngineFits
  <2> QED BY <1>1, <1>3, <2>1, GoFinal, QuietMove DEF Local
<1> QED BY <1>2, <1>3 DEF ToolsAborted

\* The output of a turn that ends otherwise than completed is discarded.
LEMMA DiscardFinalKeeps ==
  ASSUME KernelInv, RuntimeInv, DiscardFinal PROVE [Next]_vars /\ RuntimeInv'
<1>1. /\ eng.at = "discard" /\ locked' = 0 /\ Local /\ Up /\ eng.at \notin BatchSteps
      /\ Discard /\ Go("request")
  BY DEF DiscardFinal, At, Local, Up, BatchSteps
<1>2. eng.want # NoDecision
  BY <1>1 DEF RuntimeInv, EngineFits
<1> QED BY <1>1, <1>2, GoFinal, DiscardKeeps

-----------------------------------------------------------------------------
(* The terminal transaction *)

\* The terminal request makes the engine's decision the turn's.
LEMMA RequestTerminalKeeps ==
  ASSUME KernelInv, RuntimeInv, RequestTerminal PROVE [Next]_vars /\ RuntimeInv'
<1>1. /\ eng.at = "request" /\ locked' = 0 /\ Local /\ Up /\ eng.at \notin BatchSteps /\ TypeOK
      /\ EngineFits
  BY DEF RequestTerminal, At, Local, Up, BatchSteps, KernelInv, RuntimeInv
<1>2. CASE Submit(TerminalRequested(eng.want)) /\ Go("journal")
  <2>1. eng.want \in Decisions /\ eng.want # NoDecision
    BY <1>1, EngineFields DEF EngineFits
  <2>2. TerminalRequested(eng.want) /\ Dispatch(routed) /\ phase \notin Terminal
    BY <1>2 DEF Submit
  <2>3. Next
    BY <2>1, <2>2 DEF Next, TerminalStep
  <2>4. TypeOK'
    BY <2>3, KernelStep DEF KernelInv
  <2>5. /\ phase # "committing" /\ phase' = "committing" /\ decision' = eng.want
        /\ UNCHANGED <<cancel, draft, calls, approvals, journal, mutation, verification>>
    BY <2>2 DEF TerminalRequested, TerminalReady, workVars, proofVars
  <2>6. Evolves({})
    <3>1. CASE journal = "open" \/ Policy.journalRequired
      <4>1. UpdateEffects({}, <<NewEffect(JournalEffect(JournalOutcome(eng.want)), Null, Null)>>)
        BY <2>2, <3>1 DEF TerminalRequested
      <4> QED BY <1>1, <4>1, EvolvesAdded
    <3>2. CASE ~(journal = "open" \/ Policy.journalRequired)
      <4>1. UpdateEffects({}, <<>>)
        BY <2>2, <3>2 DEF TerminalRequested
      <4>2. EffectsTyped /\ seq \in Nat
        BY <1>1, TypeParts DEF EffectsTyped
      <4>3. /\ DOMAIN effects' = DOMAIN effects \ {}
            /\ \A f \in DOMAIN effects' : effects'[f] = effects[f]
        BY <4>1, <4>2, Removed
      <4>4. seq' = seq
        BY <4>1, <4>2 DEF UpdateEffects
      <4> QED BY <4>2, <4>3, <4>4 DEF Evolves
    <3> QED BY <3>1, <3>2
  <2>7. /\ eng' \in EngineState /\ eng'.reply \in FinalReply /\ eng'.at = "journal"
        /\ eng'.want = eng.want
    BY <1>1, <1>2, GoTyped DEF Steps, FinalSteps
  <2>8. EngineFits' /\ Up'
    BY <2>5, <2>7 DEF EngineFits, Up
  <2>9. Routes' /\ RoutesComplete'
    BY <1>1, <2>2, <2>4, <2>5, <2>6, <2>8, SubmitFits DEF RuntimeInv, RoutesComplete
  <2>10. CancelFits'
    BY <2>1, <2>5, <2>7 DEF RuntimeInv, CancelFits
  <2>11. JobsFit'
    BY <1>1, JobsIdle DEF RuntimeInv, Local
  <2>12. LockFits' /\ OneApproval'
    BY <1>1, <2>5 DEF LockFits, OneApproval, RuntimeInv
  <2>13. FilesFit'
    <3>1. disk = "open" /\ disk' = "open"
      BY <1>1, <2>2, <2>5 DEF RuntimeInv, FilesFit, Local
    <3> QED BY <2>5, <3>1 DEF RuntimeInv, FilesFit, SettledJournal
  <2>14. RestTyped'
    BY <1>1, <2>4, RestCarried DEF RuntimeInv, Local
  <2> QED BY <2>3, <2>8, <2>9, <2>10, <2>11, <2>12, <2>13, <2>14 DEF RuntimeInv
<1>3. CASE GiveUp /\ UNCHANGED <<vars, routed>>
  BY <1>1, <1>3, GiveUpMoves, QuietMove DEF Local
<1> QED BY <1>2, <1>3 DEF RequestTerminal

\* The route of the journal operation is that of its effect.
LEMMA JournalEffectRoute ==
  ASSUME KernelInv, RuntimeInv, NEW e \in JournalRoute
  PROVE  /\ e \in DOMAIN routed /\ e \in DOMAIN effects
         /\ effects[e].kind = routed[e].kind /\ phase \notin Terminal
         /\ mutation # 0 \/ Policy.journalRequired
<1>1. e \in DOMAIN routed /\ routed[e].kind \in JournalKinds
  BY DEF JournalRoute
<1>2. e \in DOMAIN effects /\ effects[e].kind = routed[e].kind
  BY <1>1, RoutePending DEF RuntimeInv, JournalKinds
<1>3. Owned(effects[e])
  BY <1>2 DEF KernelInv, EffectsInv, AllOwned
<1>4. mutation # 0 \/ Policy.journalRequired
  BY <1>1, <1>2, <1>3 DEF Owned
<1> QED BY <1>1, <1>2, <1>4, PendingLive

\* The journal operation of the decision is started, or there is none.
LEMMA StartJournalKeeps ==
  ASSUME KernelInv, RuntimeInv, StartJournal PROVE [Next]_vars /\ RuntimeInv'
<1>1. /\ eng.at = "journal" /\ locked' = 0 /\ Local /\ Up /\ eng.at \notin BatchSteps /\ TypeOK
      /\ EngineFits /\ phase = "committing" /\ eng.want = decision
  BY DEF StartJournal, At, Local, Up, BatchSteps, KernelInv, RuntimeInv, EngineFits
<1>2. CASE \E e \in JournalRoute : Start(e) /\ Go("driver")
  <2>1. PICK e \in JournalRoute : Start(e) /\ Go("driver")
    BY <1>2
  <2>2. /\ e \in DOMAIN routed /\ e \in DOMAIN effects
        /\ mutation # 0 \/ Policy.journalRequired
    BY JournalEffectRoute
  <2>3. Carries /\ UNCHANGED <<phase, decision, mutation>>
    BY <1>1, <2>1, MarkCommands DEF Start
  <2>4. /\ eng' \in EngineState /\ eng'.reply \in FinalReply /\ eng'.at = "driver"
        /\ eng'.want = eng.want
    BY <1>1, <2>1, GoTyped DEF Steps, FinalSteps
  <2>5. EngineFits' /\ Up'
    BY <1>1, <2>2, <2>3, <2>4 DEF EngineFits, Up
  <2>6. WantFits'
    BY <2>3, <2>4, WantCarried DEF RuntimeInv
  <2> QED BY <1>1, <2>1, <2>2, <2>5, <2>6, StartOutside DEF Local
<1>3. CASE Go("finish") /\ UNCHANGED <<vars, routed>>
  <2>1. /\ eng' \in EngineState /\ eng'.reply \in FinalReply /\ eng'.at = "finish"
        /\ eng'.want = eng.want
    BY <1>1, <1>3, GoTyped DEF Steps, FinalSteps
  <2>2. UNCHANGED <<phase, decision, cancel>>
    BY <1>3 DEF vars, lifeVars
  <2>3. EngineFits' /\ WantFits' /\ Up'
    BY <1>1, <2>1, <2>2 DEF EngineFits, WantFits, RuntimeInv, CancelFits, Up
  <2> QED BY <1>1, <1>3, <2>3, QuietOutside DEF Local
<1> QED BY <1>2, <1>3 DEF StartJournal

\* The journal driver does to the files what the decision asks for, again if need be.
LEMMA RunJournalKeeps ==
  ASSUME KernelInv, RuntimeInv, RunJournal
  PROVE  [Next]_vars /\ RuntimeInv' /\ (disk # "open" => disk' = disk)
<1>1. /\ eng.at = "driver" /\ locked = 0 /\ locked' = 0 /\ UNCHANGED <<vars, routed, job, ctx>>
      /\ Up /\ eng.at \notin BatchSteps
      /\ EngineFits /\ phase = "committing" /\ eng.want = decision
      /\ mutation # 0 \/ Policy.journalRequired
  BY DEF RunJournal, At, Up, BatchSteps, RuntimeInv, EngineFits
<1>2. /\ UNCHANGED <<phase, decision, mutation, draft, verification, journal, cancel,
                     calls, approvals, effects, seq>>
  BY <1>1 DEF vars, lifeVars, workVars, effVars, proofVars
<1>3. JournalOutcome(decision)' = JournalOutcome(decision)
  BY <1>2 DEF JournalOutcome
<1>4. TypeOK'
  BY <1>1, KernelStutter DEF KernelInv
<1>5. CASE disk' = JournalOutcome(eng.want) /\ Go("settle") /\ UNCHANGED faults
  <2>1. /\ eng' \in EngineState /\ eng'.reply \in FinalReply /\ eng'.at = "settle"
        /\ eng'.want = eng.want
    BY <1>1, <1>5, GoTyped DEF Steps, FinalSteps
  <2>2. EngineFits' /\ Up'
    BY <1>1, <1>2, <1>3, <1>5, <2>1 DEF EngineFits, Up
  <2>3. CancelFits'
    BY <1>2, <2>1 DEF RuntimeInv, CancelFits
  <2>4. disk # "open" => disk' = disk
    BY <1>1, <1>5 DEF RuntimeInv, FilesFit
  <2>5. FilesFit'
    <3>1. disk' = JournalOutcome(decision)'
      BY <1>1, <1>3, <1>5
    <3>2. journal \in SettledJournal => disk' = journal
      BY <2>4 DEF RuntimeInv, FilesFit, SettledJournal
    <3> QED BY <1>1, <1>2, <3>1, <3>2 DEF FilesFit
  <2>6. JobsFit'
    BY <1>1, JobsIdle DEF RuntimeInv
  <2>7. LockFits' /\ OneApproval'
    BY <1>1, <1>2 DEF LockFits, OneApproval, RuntimeInv
  <2>8. Routes' /\ RoutesComplete'
    BY <1>1, <1>2, <2>2 DEF RuntimeInv, Routes, RouteFits, RoutesComplete
  <2>9. RestTyped'
    <3>1. disk' \in SettledJournal
      BY <1>5, JournalOutcomeType
    <3> QED BY <1>1, <1>2, <1>5, <3>1 DEF RuntimeInv, RestTyped
  <2> QED BY <1>1, <2>2, <2>3, <2>4, <2>5, <2>6, <2>7, <2>8, <2>9 DEF RuntimeInv
<1>6. CASE /\ Error /\ UNCHANGED disk
           /\ eng' = [eng EXCEPT !.at = "settle", !.failed = TRUE]
  <2>1. /\ eng' \in EngineState /\ eng'.reply \in FinalReply /\ eng'.at = "settle"
        /\ eng'.want = eng.want /\ eng'.failed
    BY <1>1, <1>6, EngineFields DEF EngineState, Steps, FinalSteps
  <2>2. EngineFits' /\ WantFits' /\ Up'
    BY <1>1, <1>2, <2>1 DEF EngineFits, WantFits, RuntimeInv, CancelFits, Up
  <2> QED BY <1>1, <1>6, <2>2, QuietOutside
<1> QED BY <1>5, <1>6 DEF RunJournal

\* The result of the driver is recorded when the files are as decided, or put back.
LEMMA FinishJournalKeeps ==
  ASSUME KernelInv, RuntimeInv, FinishJournal PROVE [Next]_vars /\ RuntimeInv'
<1>1. /\ eng.at = "settle" /\ locked' = 0 /\ Local /\ Up /\ eng.at \notin BatchSteps /\ TypeOK
      /\ EngineFits /\ phase = "committing" /\ eng.want = decision
      /\ mutation # 0 \/ Policy.journalRequired
  BY DEF FinishJournal, At, Local, Up, BatchSteps, KernelInv, RuntimeInv, EngineFits
<1>2. PICK e \in JournalRoute :
       IF eng.failed
       THEN /\ JournalResult(e, TRUE)
            /\ routed' = [routed EXCEPT ![e].started = FALSE]
            /\ Go("stuck")
       ELSE Resolve(e, JournalResult(e, FALSE)) /\ Go("finish")
  BY DEF FinishJournal
<1>3. e \in DOMAIN routed /\ e \in DOMAIN effects /\ phase \notin Terminal
  BY JournalEffectRoute
<1>4. CASE /\ JournalResult(e, TRUE)
           /\ routed' = [routed EXCEPT ![e].started = FALSE]
           /\ Go("stuck")
  <2>1. /\ SetEffect(e, "requested", effects[e].attempt)
        /\ UNCHANGED <<journal, lifeVars, workVars, mutation, verification>>
    BY <1>4 DEF JournalResult
  <2>2. Next
    BY <1>3, <1>4 DEF Next, TerminalStep
  <2>3. Carries /\ UNCHANGED calls
    BY <2>1, CarriesKept DEF lifeVars, workVars
  <2>4. EngineFits' /\ WantFits' /\ Up'
    BY <1>4, <2>3, GoMoves, MovesFit DEF PlainSteps
  <2>5. FALSE <=> "requested" = "running"
    OBVIOUS
  <2>6. /\ Routes'
        /\ DOMAIN effects \subseteq DOMAIN routed => DOMAIN effects' \subseteq DOMAIN routed'
    BY <1>1, <1>3, <1>4, <2>1, <2>3, <2>5, MarkFits DEF RuntimeInv
  <2>7. RoutesComplete'
    BY <1>1, <2>4, <2>6 DEF RuntimeInv, RoutesComplete
  <2>8. TypeOK'
    BY <2>2, KernelStep DEF KernelInv
  <2> QED BY <1>1, <2>2, <2>3, <2>4, <2>6, <2>7, <2>8, OutsideBatch DEF Local
<1>5. CASE ~eng.failed /\ Resolve(e, JournalResult(e, FALSE)) /\ Go("finish")
  <2>1. JournalResult(e, FALSE) /\ Dispatch(Without(routed, {e}))
    BY <1>5 DEF Resolve
  <2>2. Next
    BY <1>3, <2>1 DEF Next, TerminalStep
  <2>3. TypeOK'
    BY <2>2, KernelStep DEF KernelInv
  <2>4. /\ UpdateEffects({e}, <<>>) /\ journal' = JournalOutcome(decision)
        /\ UNCHANGED <<phase, cancel, draft, decision, calls, approvals, mutation, verification>>
    BY <2>1 DEF JournalResult, lifeVars, workVars
  <2>5. Evolves({e})
    BY <1>1, <2>4, EvolvesEnded
  <2>6. /\ eng' \in EngineState /\ eng'.reply \in FinalReply /\ eng'.at = "finish"
        /\ eng'.want = eng.want
    BY <1>1, <1>5, GoTyped DEF Steps, FinalSteps
  <2>7. EngineFits' /\ Up'
    BY <1>1, <2>4, <2>6 DEF EngineFits, Up
  <2>8. Routes' /\ RoutesComplete'
    BY <1>1, <2>1, <2>3, <2>4, <2>5, <2>7, ResolveFits DEF RuntimeInv, RoutesComplete
  <2>9. CancelFits'
    BY <2>4, <2>6 DEF RuntimeInv, CancelFits
  <2>10. JobsFit'
    BY <1>1, JobsIdle DEF RuntimeInv, Local
  <2>11. LockFits' /\ OneApproval'
    BY <1>1, <2>4 DEF LockFits, OneApproval, RuntimeInv
  <2>12. FilesFit'
    <3>1. disk = JournalOutcome(decision) /\ disk' = disk
      BY <1>1, <1>5 DEF EngineFits, Local
    <3>2. JournalOutcome(decision)' = JournalOutcome(decision)
      BY <2>4 DEF JournalOutcome
    <3> QED BY <1>1, <2>4, <3>1, <3>2 DEF FilesFit
  <2>13. RestTyped'
    BY <1>1, <2>3, RestCarried DEF RuntimeInv, Local
  <2> QED BY <2>2, <2>7, <2>8, <2>9, <2>10, <2>11, <2>12, <2>13 DEF RuntimeInv
<1> QED BY <1>2, <1>4, <1>5

\* The turn reaches its terminal state, or is left without one.
LEMMA FinishTurnKeeps ==
  ASSUME KernelInv, RuntimeInv, FinishTurn PROVE [Next]_vars /\ RuntimeInv'
<1>1. eng.at = "finish" /\ locked' = 0 /\ Local /\ Up /\ eng.at \notin BatchSteps
  BY DEF FinishTurn, At, Local, Up, BatchSteps
<1>2. CASE Submit(FinishTerminal) /\ Go("done")
  <2>1. Next /\ FinishTerminal /\ Dispatch(routed)
    BY <1>2 DEF Submit, Next, TerminalStep
  <2>2. Evolves({}) /\ Carries
    BY <2>1, FinishCarries DEF KernelInv
  <2>3. EngineFits' /\ WantFits' /\ Up'
    BY <1>2, <2>2, GoMoves, MovesFit DEF PlainSteps
  <2> QED BY <1>1, <2>1, <2>2, <2>3, SubmitOutside DEF Local
<1>3. CASE Go("stuck") /\ UNCHANGED <<vars, routed>>
  BY <1>1, <1>3, GoMoves, QuietMove DEF PlainSteps, Local
<1> QED BY <1>2, <1>3 DEF FinishTurn

-----------------------------------------------------------------------------
(* Restarts *)

\* The operation of a turn without a terminal state is rejected.
LEMMA RejectKeeps ==
  ASSUME KernelInv, RuntimeInv, Reject PROVE [Next]_vars /\ RuntimeInv'
<1>1. /\ eng.at = "stuck" /\ locked' = 0 /\ Local /\ Up /\ eng.at \notin BatchSteps
      /\ Go("rejected") /\ UNCHANGED <<vars, routed>>
  BY DEF Reject, At, Local, Up, BatchSteps
<1> QED BY <1>1, GoMoves, QuietMove DEF PlainSteps, Local

\* A restart puts the running effects back, with no registry yet.
LEMMA RequeueKeeps ==
  ASSUME KernelInv, RuntimeInv, Requeue PROVE [Next]_vars /\ RuntimeInv'
<1>1. /\ eng.at = "down" /\ locked' = 0 /\ Local /\ eng.at \notin BatchSteps /\ TypeOK
      /\ eng' = eng /\ routed' = routed /\ ~Up /\ ~Up'
  BY DEF Requeue, At, Local, Up, BatchSteps, KernelInv
<1>2. PICK e \in DOMAIN effects : EffectRequeued(e)
  BY DEF Requeue, Lowest, RunningEffects
<1>3. Next
  BY <1>2, StartNext
<1>4. TypeOK'
  BY <1>3, KernelStep DEF KernelInv
<1>5. Carries
  BY <1>1, <1>2, MarkCommands
<1>6. Routes' /\ RoutesComplete'
  BY <1>1 DEF RuntimeInv, Routes, RoutesComplete
<1>7. EngineFits' /\ WantFits'
  BY <1>1, <1>5, PlainFits, WantCarried DEF RuntimeInv, EngineFits, PlainSteps
<1> QED BY <1>1, <1>3, <1>4, <1>5, <1>6, <1>7, OutsideBatch DEF Local

\* When none is running every pending effect is routed again, not started.
LEMMA RestoreKeeps ==
  ASSUME KernelInv, RuntimeInv, Restore PROVE [Next]_vars /\ RuntimeInv'
<1>1. /\ eng.at = "down" /\ locked' = 0 /\ Local /\ eng.at \notin BatchSteps /\ TypeOK
      /\ Go("enter") /\ UNCHANGED vars /\ RunningEffects = {}
      /\ routed' = [e \in DOMAIN effects |-> RoutedEntry(e)]
  BY DEF Restore, At, Local, BatchSteps, KernelInv
<1>2. Carries /\ UNCHANGED <<effects, seq>>
  BY <1>1, CarriesKept DEF vars, lifeVars, workVars, effVars, proofVars
<1>3. EngineFits' /\ WantFits' /\ Up'
  BY <1>1, <1>2, GoMoves, MovesFit DEF PlainSteps
<1>4. TypeOK'
  BY <1>1, KernelStutter DEF KernelInv
<1>5. DOMAIN routed' = DOMAIN effects /\ DOMAIN effects \subseteq 1..seq
  BY <1>1 DEF TypeOK
<1>6. ASSUME NEW f \in DOMAIN effects PROVE RouteFits(f)'
  <2>1. effects[f] \in Effect /\ effects'[f] = effects[f]
    BY <1>1, <1>2 DEF TypeOK
  <2>2. routed'[f] = [kind |-> effects[f].kind, call |-> effects[f].call,
                      started |-> FALSE, kept |-> Null]
    BY <1>1, <2>1 DEF RoutedEntry
  <2>3. effects[f].kind \in EffectKinds /\ effects[f].call \in Identities
    BY <2>1 DEF Effect
  <2>4. routed'[f] \in Entry
    BY <2>2, <2>3 DEF Entry
  <2>5. effects[f].status # "running"
    BY <1>1 DEF RunningEffects
  <2> QED BY <1>2, <2>1, <2>2, <2>4, <2>5 DEF RouteFits, KeptFits
<1>7. Routes' /\ RoutesComplete'
  BY <1>2, <1>3, <1>5, <1>6 DEF Routes, RoutesComplete
<1> QED BY <1>1, <1>2, <1>3, <1>4, <1>7, OutsideBatch DEF Local

-----------------------------------------------------------------------------
(* Steps in a batch of tools *)

\* What a step in a batch, or of another goroutine, has to keep.
LEMMA InsideFits ==
  ASSUME RuntimeInv, Carries, UNCHANGED disk, Routes', RoutesComplete', EngineFits', WantFits',
         JobsFit', LockFits', RestTyped'
  PROVE  RuntimeInv'
BY FilesCarried, ApprovalsCarried, CancelCarried DEF RuntimeInv

\* The engine goes on, or another goroutine takes a step, with the mutex free afterwards.
LEMMA UnlockedInside ==
  ASSUME RuntimeInv, TypeOK', Carries, EngineMoves, locked' = 0, UNCHANGED <<ctx, disk>>,
         faults' = faults \/ Error, Routes', DOMAIN effects' \subseteq DOMAIN routed', JobsFit'
  PROVE  RuntimeInv'
<1>1. EngineFits' /\ WantFits' /\ Up'
  BY MovesFit
<1>2. LockFits' /\ RoutesComplete'
  BY <1>1 DEF LockFits, RoutesComplete
<1>3. RestTyped'
  BY RestCarried DEF RuntimeInv
<1> QED BY <1>1, <1>2, <1>3, InsideFits

\* Such a step that commits nothing.
LEMMA QuietInside ==
  ASSUME KernelInv, RuntimeInv, UNCHANGED <<vars, routed>>, Up, EngineMoves, locked' = 0,
         UNCHANGED <<ctx, disk>>, faults' = faults \/ Error, JobsFit'
  PROVE  [Next]_vars /\ RuntimeInv'
<1> USE DEF vars, lifeVars, workVars, effVars, proofVars
<1>1. TypeOK'
  BY KernelStutter DEF KernelInv
<1>2. Carries
  BY CarriesKept
<1>3. Routes' /\ DOMAIN effects' \subseteq DOMAIN routed'
  BY DEF RuntimeInv, Routes, RouteFits, RoutesComplete
<1> QED BY <1>1, <1>2, <1>3, UnlockedInside

\* The tool of call c moves on, the others stay as they are.
LEMMA JobSet ==
  ASSUME JobsFit, TypeOK, TypeOK', NEW c \in Calls,
         NEW v \in {"idle", "started", "asking", "answered", "done"},
         job' = [job EXCEPT ![c] = v],
         \A d \in Calls \ {c} : calls'[d] = calls[d] /\ ApprovalsOf(d)' = ApprovalsOf(d),
         v # "idle" => calls'[c] = "open", v = "asking" => ApprovalsOf(c)' # {},
         \/ eng'.at = eng.at /\ eng.at \in BatchSteps
         \/ eng.at = "closing" /\ eng'.at = "declare",
         eng.at = "tools" => v \in {"idle", "started"},
         eng.at \in {"closing", "declare"} => v \in {"idle", "done"}
  PROVE  JobsFit'
<1>1. /\ job' \in [Calls -> {"idle", "started", "asking", "answered", "done"}]
      /\ job'[c] = v /\ \A d \in Calls \ {c} : job'[d] = job[d]
  BY DEF JobsFit
<1>2. NoOrphanTool'
  <2>1. ASSUME NEW d \in Calls
        PROVE  /\ job'[d] # "idle" => calls'[d] = "open"
               /\ job'[d] = "asking" => ApprovalsOf(d)' # {}
    <3>1. CASE d = c
      BY <1>1, <3>1
    <3>2. CASE d # c
      BY <1>1, <3>2 DEF JobsFit, NoOrphanTool
    <3> QED BY <3>1, <3>2
  <2> QED BY <2>1 DEF NoOrphanTool
<1>3. ASSUME NEW d \in Calls
      PROVE  /\ eng'.at \in BatchSteps
             /\ eng'.at = "tools" => job'[d] \in {"idle", "started"}
             /\ eng'.at \in {"closing", "declare"} => job'[d] \in {"idle", "done"}
  BY <1>1 DEF JobsFit, BatchSteps
<1> QED BY <1>1, <1>2, <1>3 DEF JobsFit, BatchSteps

\* The tools stay as they are and the engine is where that is allowed.
LEMMA JobsKept ==
  ASSUME JobsFit, UNCHANGED <<job, calls, approvals>>,
         \A c \in Calls :
           /\ eng'.at \notin BatchSteps => job[c] = "idle"
           /\ eng'.at = "tools" => job[c] \in {"idle", "started"}
           /\ eng'.at \in {"closing", "declare"} => job[c] \in {"idle", "done"}
  PROVE  JobsFit'
<1>1. \A c \in Calls : ApprovalsOf(c)' = ApprovalsOf(c)
  BY DEF ApprovalsOf
<1>2. NoOrphanTool'
  BY <1>1 DEF JobsFit, NoOrphanTool
<1> QED BY <1>2 DEF JobsFit, BatchSteps

\* ... as where it was before.
LEMMA JobsSame ==
  ASSUME JobsFit, UNCHANGED <<job, calls, approvals>>, eng'.at = eng.at
  PROVE  JobsFit'
<1>1. \A c \in Calls :
        /\ eng'.at \notin BatchSteps => job[c] = "idle"
        /\ eng'.at = "tools" => job[c] \in {"idle", "started"}
        /\ eng'.at \in {"closing", "declare"} => job[c] \in {"idle", "done"}
  BY DEF JobsFit, BatchSteps
<1> QED BY <1>1, JobsKept

\* A step that starts effect e; where the mutex is kept, it is for that effect.
LEMMA StartInside ==
  ASSUME KernelInv, RuntimeInv, NEW e \in DOMAIN routed, e \in DOMAIN effects, Start(e),
         eng.at \in BatchSteps, UNCHANGED <<eng, ctx, disk, faults>>, JobsFit',
         \/ locked' = 0
         \/ /\ locked' = e /\ effects[e].kind = "await_approval"
            /\ eng.at \in {"batch", "closing", "declare"}
  PROVE  [Next]_vars /\ RuntimeInv'
<1>1. Next /\ EffectStarted(e)
  BY StartNext DEF Start
<1>2. TypeOK /\ TypeOK' /\ Up
  BY <1>1, KernelStep DEF KernelInv, Up, BatchSteps
<1>3. Routes' /\ DOMAIN effects \subseteq DOMAIN routed
  BY <1>2, StartFits DEF RuntimeInv, RoutesComplete
<1>4. /\ DOMAIN effects' \subseteq DOMAIN routed' /\ DOMAIN effects' = DOMAIN effects
      /\ \A f \in DOMAIN effects : effects'[f].kind = effects[f].kind
  BY <1>2, <1>3, StartFits DEF RuntimeInv
<1>5. Carries
  BY <1>1, <1>2, MarkCommands
<1>6. EngineMoves
  BY StaysMoves DEF BatchSteps, PlainSteps
<1>7. EngineFits' /\ WantFits' /\ Up'
  BY <1>5, <1>6, MovesFit
<1>8. LockFits' /\ RoutesComplete'
  BY <1>4, <1>7 DEF LockFits, RoutesComplete
<1>9. RestTyped'
  <2>1. e \in 1..seq /\ seq' = seq /\ seq \in Nat
    BY <1>1, <1>2 DEF EffectStarted, SetEffect, TypeOK
  <2>2. locked' \in 0..seq'
    BY <2>1
  <2> QED BY <2>2 DEF RuntimeInv, RestTyped
<1> QED BY <1>1, <1>3, <1>5, <1>7, <1>8, <1>9, InsideFits

\* The tool of an open call is started with its effect.
LEMMA StartToolKeeps ==
  ASSUME KernelInv, RuntimeInv, StartTool PROVE [Next]_vars /\ RuntimeInv'
<1>1. /\ eng.at = "tools" /\ locked' = 0 /\ eng.at \in BatchSteps
      /\ UNCHANGED <<eng, ctx, disk, faults>>
  BY DEF StartTool, At, BatchSteps
<1>2. PICK e \in DOMAIN routed :
        /\ routed[e].kind = "execute_tool"
        /\ Start(e) /\ job' = [job EXCEPT ![routed[e].call] = "started"]
  BY DEF StartTool, Lowest
<1>3. e \in DOMAIN effects /\ routed[e].call \in Calls /\ calls[routed[e].call] = "open"
  BY <1>2, ToolRoute
<1>4. TypeOK /\ EffectStarted(e) /\ Next
  BY <1>2, <1>3, StartNext DEF Start, KernelInv
<1>5. TypeOK'
  BY <1>4, KernelStep DEF KernelInv
<1>6. UNCHANGED <<calls, approvals>>
  BY <1>4, MarkCommands
<1>7. \A d \in Calls : calls'[d] = calls[d] /\ ApprovalsOf(d)' = ApprovalsOf(d)
  BY <1>6 DEF ApprovalsOf
<1>8. JobsFit'
  BY <1>1, <1>2, <1>3, <1>4, <1>5, <1>7, JobSet DEF RuntimeInv
<1> QED BY <1>1, <1>2, <1>3, <1>8, StartInside

\* The batch runs when all its tools are started, and ends when none is running.
LEMMA BatchKeeps ==
  ASSUME KernelInv, RuntimeInv, ExecuteBatch \/ BatchDone PROVE [Next]_vars /\ RuntimeInv'
<1>1. /\ locked' = 0 /\ Up /\ UNCHANGED <<vars, routed, job, ctx, disk, faults>> /\ EngineFits
  BY DEF ExecuteBatch, BatchDone, At, Local, Up, RuntimeInv
<1>2. UNCHANGED <<calls, approvals>>
  BY <1>1 DEF vars, workVars
<1>3. CASE ExecuteBatch
  <2> DEFINE n == Cardinality({e \in DOMAIN routed : routed[e].kind = "execute_tool"}) > 1
  <2>1. eng.at = "tools" /\ eng' = [eng EXCEPT !.at = "batch", !.several = n]
    BY <1>3 DEF ExecuteBatch, At
  <2>2. n \in BOOLEAN
    OBVIOUS
  <2> HIDE DEF n
  <2>3. eng' \in EngineState /\ eng'.reply \in FinalReply /\ eng'.at = "batch" /\ eng'.want = eng.want
    BY <1>1, <2>1, <2>2, EngineFields DEF EngineState, Steps
  <2>4. EngineMoves
    BY <2>3, TypedMoves DEF PlainSteps
  <2>5. JobsFit'
    BY <1>1, <1>2, <2>3, JobsKept DEF BatchSteps, RuntimeInv
  <2> QED BY <1>1, <2>4, <2>5, QuietInside
<1>4. CASE BatchDone
  <2>1. Go("closing") /\ \A c \in Calls : job[c] \in {"idle", "done"}
    BY <1>4 DEF BatchDone
  <2>2. EngineMoves
    BY <2>1, GoMoves DEF PlainSteps
  <2>3. eng'.at = "closing"
    BY <1>1, <2>1, GoTyped DEF Steps
  <2>4. JobsFit'
    BY <1>1, <1>2, <2>1, <2>3, JobsKept DEF BatchSteps, RuntimeInv
  <2> QED BY <1>1, <2>2, <2>4, QuietInside
<1> QED BY <1>3, <1>4

\* A tool waits for the request it had made, ends, or no longer waits.
LEMMA ToolKeeps ==
  ASSUME KernelInv, RuntimeInv, NEW c \in Calls,
         EnsureApproval(c) \/ ToolDone(c) \/ ExpireApproval(c)
  PROVE  [Next]_vars /\ RuntimeInv'
<1>1. /\ eng.at = "batch" /\ locked' = 0 /\ Up /\ UNCHANGED <<vars, routed, eng, ctx, disk, faults>>
      /\ calls[c] = "open" /\ TypeOK
  BY DEF EnsureApproval, ToolDone, ExpireApproval, Executing, Up, KernelInv
<1>2. PICK v \in {"asking", "done"} :
        job' = [job EXCEPT ![c] = v] /\ (v = "asking" => ApprovalsOf(c) # {})
  BY DEF EnsureApproval, ToolDone, ExpireApproval
<1>3. UNCHANGED <<calls, approvals>> /\ TypeOK'
  BY <1>1, KernelStutter DEF vars, workVars, KernelInv
<1>4. \A d \in Calls : calls'[d] = calls[d] /\ ApprovalsOf(d)' = ApprovalsOf(d)
  BY <1>3 DEF ApprovalsOf
<1>5. JobsFit'
  BY <1>1, <1>2, <1>3, <1>4, JobSet DEF RuntimeInv, BatchSteps
<1>6. EngineMoves
  BY <1>1, StaysMoves DEF PlainSteps
<1> QED BY <1>1, <1>5, <1>6, QuietInside

\* A tool asks for an approval: its only one, for which the mutex stays locked.
LEMMA RequireApprovalKeeps ==
  ASSUME KernelInv, RuntimeInv, NEW c \in Calls, NEW r \in Requests, RequireApproval(r, c)
  PROVE  [Next]_vars /\ RuntimeInv'
<1>1. /\ eng.at = "batch" /\ locked' = seq' /\ Up /\ UNCHANGED <<eng, ctx, disk, faults>>
      /\ calls[c] = "open" /\ TypeOK /\ ApprovalsOf(c) = {} /\ phase \notin Terminal
      /\ ApprovalRequired(r, c) /\ Dispatch(routed) /\ job' = [job EXCEPT ![c] = "asking"]
  BY DEF RequireApproval, Executing, Up, KernelInv, Submit
<1>2. Next
  BY <1>1 DEF Next, ToolStep
<1>3. TypeOK'
  BY <1>2, KernelStep DEF KernelInv
<1>4. /\ approvals[r] = Null /\ approvals' = [approvals EXCEPT ![r] = c]
      /\ UpdateEffects({}, <<NewEffect("await_approval", r, c)>>)
      /\ phase \notin {"committing"} \cup Terminal /\ phase' \notin {"committing"} \cup Terminal
      /\ UNCHANGED <<cancel, decision, calls, journal, mutation, verification, draft>>
  BY <1>1 DEF ApprovalRequired, proofVars, Terminal
<1>5. Evolves({})
  BY <1>1, <1>4, EvolvesAdded
<1>6. Routes' /\ DOMAIN effects' \subseteq DOMAIN routed'
  BY <1>1, <1>3, <1>4, <1>5, SubmitFits DEF RuntimeInv, RoutesComplete
<1>7. EngineFits' /\ WantFits' /\ Up'
  <2>1. EngineMoves
    BY <1>1, StaysMoves DEF PlainSteps
  <2>2. EngineFits' /\ eng' = eng
    BY <1>1, <2>1 DEF EngineMoves, EngineFits, PlainSteps
  <2> QED BY <1>1, <1>4, <2>2 DEF RuntimeInv, CancelFits, WantFits, Up
<1>8. approvals \in [Requests -> Calls \cup {Null}] /\ c # Null
  BY <1>1, IdentityAssumption DEF TypeOK
<1>9. OneApproval'
  <2>1. ASSUME NEW x \in Requests, NEW y \in Requests, approvals'[x] # Null,
               approvals'[x] = approvals'[y]
        PROVE  x = y
    BY <1>1, <1>4, <1>8, <2>1 DEF OneApproval, RuntimeInv, ApprovalsOf
  <2> QED BY <2>1 DEF OneApproval
<1>10. JobsFit'
  <2>1. ASSUME NEW d \in Calls \ {c} PROVE calls'[d] = calls[d] /\ ApprovalsOf(d)' = ApprovalsOf(d)
    <3>1. d # Null
      BY IdentityAssumption
    <3> QED BY <1>4, <1>8, <3>1 DEF ApprovalsOf
  <2>2. r \in ApprovalsOf(c)'
    BY <1>4, <1>8 DEF ApprovalsOf
  <2> QED BY <1>1, <1>3, <1>4, <2>1, <2>2, JobSet DEF RuntimeInv, BatchSteps
<1>11. LockFits' /\ RestTyped'
  <2>1. EffectsTyped /\ seq \in Nat
    BY <1>1, TypeParts DEF EffectsTyped
  <2>2. seq + 1 \in DOMAIN effects' /\ effects'[seq + 1] = NewEffect("await_approval", r, c)
    BY <1>4, <2>1, Added
  <2>3. seq' = seq + 1
    BY <1>4, <2>1 DEF UpdateEffects
  <2>4. LockFits'
    BY <1>1, <2>2, <2>3 DEF LockFits, NewEffect
  <2>5. locked' \in 0..seq'
    BY <1>1, <2>1, <2>3
  <2> QED BY <1>1, <2>4, <2>5 DEF RuntimeInv, RestTyped
<1>12. CancelFits' /\ FilesFit' /\ RoutesComplete'
  <2>1. CancelFits'
    BY <1>1, <1>4 DEF CancelFits, RuntimeInv
  <2>2. FilesFit'
    BY <1>1, <1>4 DEF FilesFit, RuntimeInv
  <2> QED BY <1>6, <1>7, <2>1, <2>2 DEF RoutesComplete
<1> QED BY <1>2, <1>6, <1>7, <1>9, <1>10, <1>11, <1>12 DEF RuntimeInv

\* The mutex is released when the effect of the approval is started.
LEMMA StartApprovalKeeps ==
  ASSUME KernelInv, RuntimeInv, StartApproval PROVE [Next]_vars /\ RuntimeInv'
<1>1. /\ locked # 0 /\ Start(locked) /\ locked' = 0 /\ UNCHANGED <<eng, job, ctx, disk, faults>>
      /\ TypeOK
  BY DEF StartApproval, KernelInv
<1>2. locked \in DOMAIN effects /\ eng.at \in BatchSteps
  BY <1>1 DEF RuntimeInv, LockFits, BatchSteps
<1>3. locked \in DOMAIN routed
  BY <1>2 DEF RuntimeInv, RoutesComplete, Up, BatchSteps
<1>4. UNCHANGED <<calls, approvals>>
  BY <1>1, MarkCommands DEF Start
<1>5. JobsFit'
  BY <1>1, <1>4, JobsSame DEF RuntimeInv
<1> QED BY <1>1, <1>2, <1>3, <1>5, StartInside

\* An answer starts the effect a restart put back, and keeps the mutex for it.
LEMMA StartAnswerKeeps ==
  ASSUME KernelInv, RuntimeInv, NEW r \in Requests, StartAnswer(r)
  PROVE  [Next]_vars /\ RuntimeInv'
<1>1. /\ eng.at \in {"batch", "closing", "declare"} /\ approvals[r] # Null
      /\ UNCHANGED <<eng, job, ctx, disk, faults>> /\ TypeOK
  BY DEF StartAnswer, Answerable, KernelInv
<1>2. PICK e \in Find("await_approval", approvals[r]) : Start(e) /\ locked' = e
  BY DEF StartAnswer
<1>3. e \in DOMAIN routed /\ e \in DOMAIN effects /\ effects[e].kind = "await_approval"
  BY <1>1, ApprovalRoute
<1>4. UNCHANGED <<calls, approvals>>
  BY <1>1, <1>2, MarkCommands DEF Start
<1>5. JobsFit'
  BY <1>1, <1>4, JobsSame DEF RuntimeInv
<1>6. eng.at \in BatchSteps
  BY <1>1 DEF BatchSteps
<1> QED BY <1>1, <1>2, <1>3, <1>5, <1>6, StartInside

\* An answer ends the request of its tool, not another.
LEMMA ResolveApprovalKeeps ==
  ASSUME KernelInv, RuntimeInv, NEW r \in Requests, NEW canceled \in BOOLEAN,
         ResolveApproval(r, canceled)
  PROVE  [Next]_vars /\ RuntimeInv'
<1> DEFINE c == approvals[r]
           v == IF job[c] = "asking" THEN "answered" ELSE job[c]
<1>1. /\ eng.at \in {"batch", "closing", "declare"} /\ c # Null
      /\ job[c] \in {"asking", "done"}
      /\ UNCHANGED <<eng, ctx, disk, faults>> /\ TypeOK /\ locked' = 0
      /\ job' = [job EXCEPT ![c] = v]
  BY DEF ResolveApproval, Answerable, KernelInv
<1>2. PICK e \in Find("await_approval", c) : Resolve(e, ApprovalResult(e, r, canceled))
  BY DEF ResolveApproval, AnswerRoute
<1>3. /\ e \in DOMAIN effects /\ effects[e].call = c /\ c \in Calls /\ calls[c] = "open"
  BY <1>1, ApprovalRoute
<1>4. ApprovalResult(e, r, canceled) /\ Dispatch(Without(routed, {e}))
  BY <1>2 DEF Resolve
<1>5. /\ Next /\ Evolves({e}) /\ Carries /\ UNCHANGED calls
      /\ \A d \in Calls \ {c} : ApprovalsOf(d)' = ApprovalsOf(d)
  BY <1>3, <1>4, AnswerNext
<1>6. TypeOK'
  BY <1>5, KernelStep DEF KernelInv
<1>7. Routes' /\ DOMAIN effects' \subseteq DOMAIN routed'
  BY <1>1, <1>4, <1>5, <1>6, ResolveFits DEF RuntimeInv, RoutesComplete, Up
<1>8. v \in {"answered", "done"} /\ (eng.at \in {"closing", "declare"} => v = "done")
  BY <1>1, <1>3 DEF RuntimeInv, JobsFit
<1> HIDE DEF v, c
<1>9. JobsFit'
  BY <1>1, <1>3, <1>5, <1>6, <1>8, JobSet DEF RuntimeInv, BatchSteps
<1>10. EngineMoves
  BY <1>1, StaysMoves DEF PlainSteps
<1> QED BY <1>1, <1>5, <1>6, <1>7, <1>9, <1>10, UnlockedInside

\* A refused answer is retained and the request stays.
LEMMA RefuseAnswerKeeps ==
  ASSUME KernelInv, RuntimeInv, NEW r \in Requests, RefuseAnswer(r)
  PROVE  [Next]_vars /\ RuntimeInv'
<1>1. /\ eng.at \in {"batch", "closing", "declare"} /\ approvals[r] # Null
      /\ UNCHANGED <<eng, job, ctx, disk, faults>> /\ TypeOK /\ locked' = 0 /\ UNCHANGED vars
  BY DEF RefuseAnswer, Answerable, KernelInv
<1>2. PICK e \in Find("await_approval", approvals[r]) : Retain(e, [canceled |-> TRUE])
  BY DEF RefuseAnswer, AnswerRoute
<1>3. e \in DOMAIN routed /\ routed[e].kind = "await_approval"
  BY <1>1, Found DEF RuntimeInv, TypeOK
<1>4. [canceled |-> TRUE] \in Answer
  BY DEF Answer
<1>5. /\ UNCHANGED <<effects, seq, calls, approvals>> /\ Carries /\ TypeOK'
  BY <1>1, CarriesKept, KernelStutter DEF vars, lifeVars, workVars, effVars, proofVars, KernelInv
<1>6. Routes' /\ DOMAIN routed' = DOMAIN routed
  BY <1>2, <1>3, <1>4, <1>5, RetainFits DEF RuntimeInv
<1>7. DOMAIN effects' \subseteq DOMAIN routed'
  BY <1>1, <1>5, <1>6 DEF RuntimeInv, RoutesComplete, Up
<1>8. JobsFit'
  BY <1>1, <1>5, JobsSame DEF RuntimeInv
<1>9. EngineMoves
  BY <1>1, StaysMoves DEF PlainSteps
<1> QED BY <1>1, <1>5, <1>6, <1>7, <1>8, <1>9, UnlockedInside

\* The result of a tool closes its call and its approvals, or is retained.
LEMMA CloseToolKeeps ==
  ASSUME KernelInv, RuntimeInv, CloseTool PROVE [Next]_vars /\ RuntimeInv'
<1>1. eng.at = "closing" /\ locked' = 0 /\ Up /\ UNCHANGED <<ctx, disk>> /\ TypeOK /\ EngineFits
  BY DEF CloseTool, At, Up, KernelInv, RuntimeInv
<1>2. PICK e \in Lowest(Ended) : \E o \in Outcomes(routed[e].call) :
        /\ job' = [job EXCEPT ![routed[e].call] = "idle"]
        /\ \/ /\ Resolve(e, ToolResult(e, routed[e].call, o.isError, o.changes))
              /\ eng' = IF routed[e].call \in DeclCalls
                        THEN [eng EXCEPT !.at = "declare", !.call = routed[e].call] ELSE eng
              /\ UNCHANGED faults
           \/ /\ UNCHANGED faults \/ Error
              /\ Retain(e, o)
              /\ eng' = [eng EXCEPT !.failed = TRUE]
              /\ UNCHANGED vars
  BY DEF CloseTool
<1>3. PICK o \in Outcomes(routed[e].call) :
        /\ job' = [job EXCEPT ![routed[e].call] = "idle"]
        /\ \/ /\ Resolve(e, ToolResult(e, routed[e].call, o.isError, o.changes))
              /\ eng' = IF routed[e].call \in DeclCalls
                        THEN [eng EXCEPT !.at = "declare", !.call = routed[e].call] ELSE eng
              /\ UNCHANGED faults
           \/ /\ UNCHANGED faults \/ Error
              /\ Retain(e, o)
              /\ eng' = [eng EXCEPT !.failed = TRUE]
              /\ UNCHANGED vars
  BY <1>2
<1> DEFINE c == routed[e].call
<1>4. e \in DOMAIN routed /\ routed[e].kind = "execute_tool"
  BY DEF Lowest, Ended
<1>5. e \in DOMAIN effects /\ c \in Calls /\ phase \notin Terminal
  BY <1>4, ToolRoute
<1>6. o \in ToolOutcome /\ o.isError \in BOOLEAN /\ o.changes \in BOOLEAN
  BY DEF Outcomes, ToolOutcome
<1>7. CASE /\ Resolve(e, ToolResult(e, c, o.isError, o.changes))
           /\ eng' = IF c \in DeclCalls THEN [eng EXCEPT !.at = "declare", !.call = c] ELSE eng
           /\ UNCHANGED faults
  <2>1. ToolResult(e, c, o.isError, o.changes) /\ Dispatch(Without(routed, {e}))
    BY <1>7 DEF Resolve
  <2> HIDE DEF c
  <2>2. Next
    BY <1>5, <1>6, <2>1 DEF Next, ToolStep
  <2>3. /\ Evolves({e}) /\ Carries
        /\ \A d \in Calls \ {c} : calls'[d] = calls[d] /\ ApprovalsOf(d)' = ApprovalsOf(d)
    BY <1>1, <1>5, <1>6, <2>1, ToolResultCarries DEF KernelInv
  <2>4. TypeOK'
    BY <2>2, KernelStep DEF KernelInv
  <2>5. Routes' /\ DOMAIN effects' \subseteq DOMAIN routed'
    BY <1>1, <2>1, <2>3, <2>4, ResolveFits DEF RuntimeInv, RoutesComplete, Carries
  <2>6. /\ eng' \in EngineState /\ eng'.reply \in FinalReply /\ eng'.want = eng.want
        /\ eng'.at \in {"closing", "declare"}
    <3>1. CASE c \in DeclCalls
      <4>1. eng' = [eng EXCEPT !.at = "declare", !.call = c]
        BY <1>7, <3>1
      <4> QED BY <1>1, <1>5, <4>1, EngineFields DEF EngineState, Steps
    <3>2. CASE c \notin DeclCalls
      BY <1>1, <1>7, <3>2 DEF EngineFits
    <3> QED BY <3>1, <3>2
  <2>7. EngineMoves
    BY <2>6, TypedMoves DEF PlainSteps
  <2>8. job' = [job EXCEPT ![c] = "idle"]
    BY <1>3 DEF c
  <2>9. JobsFit'
    BY <1>1, <1>5, <2>3, <2>4, <2>6, <2>8, JobSet DEF RuntimeInv, BatchSteps
  <2> QED BY <1>1, <1>7, <2>2, <2>3, <2>4, <2>5, <2>7, <2>9, UnlockedInside
<1>8. CASE /\ UNCHANGED faults \/ Error
           /\ Retain(e, o)
           /\ eng' = [eng EXCEPT !.failed = TRUE]
           /\ UNCHANGED vars
  <2>1. /\ UNCHANGED <<effects, seq, calls, approvals>> /\ Carries /\ TypeOK'
    BY <1>8, CarriesKept, KernelStutter DEF vars, lifeVars, workVars, effVars, proofVars, KernelInv
  <2>2. Routes' /\ DOMAIN routed' = DOMAIN routed
    BY <1>4, <1>6, <1>8, <2>1, RetainFits DEF RuntimeInv
  <2>3. DOMAIN effects' \subseteq DOMAIN routed'
    BY <1>1, <2>1, <2>2 DEF RuntimeInv, RoutesComplete
  <2>4. /\ eng' \in EngineState /\ eng'.reply \in FinalReply /\ eng'.want = eng.want
        /\ eng'.at = "closing"
    BY <1>1, <1>8, EngineFields DEF EngineState
  <2>5. EngineMoves
    BY <2>4, TypedMoves DEF PlainSteps
  <2> HIDE DEF c
  <2>6. job' = [job EXCEPT ![c] = "idle"]
    BY <1>3 DEF c
  <2>7. \A d \in Calls : calls'[d] = calls[d] /\ ApprovalsOf(d)' = ApprovalsOf(d)
    BY <2>1 DEF ApprovalsOf
  <2>8. JobsFit'
    BY <1>1, <1>5, <2>1, <2>4, <2>6, <2>7, JobSet DEF RuntimeInv, BatchSteps
  <2> QED BY <1>1, <1>8, <2>1, <2>2, <2>3, <2>5, <2>8, UnlockedInside
<1> QED BY <1>3, <1>7, <1>8

\* The declaration of a turn_complete is evaluated, or refused.
LEMMA DeclareKeeps ==
  ASSUME KernelInv, RuntimeInv, Declare PROVE [Next]_vars /\ RuntimeInv'
<1>1. /\ eng.at = "declare" /\ locked' = 0 /\ Up /\ UNCHANGED <<job, ctx, disk, faults>> /\ TypeOK
      /\ EngineFits
  BY DEF Declare, At, Local, Up, KernelInv, RuntimeInv
<1>2. \A d \in Calls : job[d] \in {"idle", "done"}
  BY <1>1 DEF RuntimeInv, JobsFit
<1>3. CASE /\ \E candidate \in (IF eng.several THEN {"malformed"} ELSE Candidates) :
                Submit(CompletionEvaluated(candidate))
           /\ Go("closing")
  <2>1. PICK candidate \in Candidates : Submit(CompletionEvaluated(candidate))
    BY <1>3 DEF Candidates
  <2>2. Next /\ PlainCommand /\ Dispatch(routed)
    BY <2>1 DEF Next, ProofStep, PlainCommand, Submit
  <2>3. Evolves({}) /\ Carries /\ UNCHANGED <<calls, approvals, effects>>
    BY <1>1, <2>2, PlainCommands
  <2>4. TypeOK'
    BY <2>2, KernelStep DEF KernelInv
  <2>5. Routes' /\ DOMAIN effects' \subseteq DOMAIN routed'
    BY <1>1, <2>2, <2>3, <2>4, SubmitFits DEF RuntimeInv, RoutesComplete, Carries
  <2>6. EngineMoves
    BY <1>3, GoMoves DEF PlainSteps
  <2>7. eng'.at = "closing"
    BY <1>1, <1>3, GoTyped DEF Steps
  <2>8. JobsFit'
    BY <1>1, <1>2, <2>3, <2>7, JobsKept DEF RuntimeInv, BatchSteps
  <2> QED BY <1>1, <2>2, <2>3, <2>4, <2>5, <2>6, <2>8, UnlockedInside
<1>4. CASE eng' = [eng EXCEPT !.at = "closing", !.failed = TRUE] /\ UNCHANGED <<vars, routed>>
  <2>1. /\ eng' \in EngineState /\ eng'.reply \in FinalReply /\ eng'.want = eng.want
        /\ eng'.at = "closing"
    BY <1>1, <1>4, EngineFields DEF EngineState, Steps
  <2>2. EngineMoves
    BY <2>1, TypedMoves DEF PlainSteps
  <2>3. UNCHANGED <<calls, approvals>>
    BY <1>4 DEF vars, workVars
  <2>4. JobsFit'
    BY <1>1, <1>2, <2>1, <2>3, JobsKept DEF RuntimeInv, BatchSteps
  <2> QED BY <1>1, <1>4, <2>2, <2>4, QuietInside
<1> QED BY <1>3, <1>4 DEF Declare

\* The engine leaves a batch in which no tool is left.
LEMMA BatchClosedKeeps ==
  ASSUME KernelInv, RuntimeInv, BatchClosed PROVE [Next]_vars /\ RuntimeInv'
<1>1. /\ eng.at = "closing" /\ locked' = 0 /\ Up /\ TypeOK
      /\ UNCHANGED <<vars, routed, job, ctx, disk, faults>>
      /\ \A d \in Calls : job[d] # "done"
  BY DEF BatchClosed, At, Local, Up, KernelInv
<1>2. \A d \in Calls : job[d] = "idle"
  BY <1>1 DEF RuntimeInv, JobsFit
<1>3. UNCHANGED <<calls, approvals>>
  BY <1>1 DEF vars, workVars
<1>4. JobsFit'
  BY <1>1, <1>2, <1>3, JobsKept DEF RuntimeInv
<1>5. EngineMoves
  <2>1. CASE Canceled /\ Finalize(CancelDecision(cancel), FALSE)
    <3>1. Finalize(CancelDecision(CancelReason), FALSE)
      BY <1>1, <2>1, CancelAborts
    <3>2. Aborts
      BY <1>1, <3>1, CancelAborts DEF Aborts
    <3> QED BY <3>2, AbortsMoves
  <2>2. CASE Fail
    BY <2>2, FailMoves
  <2>3. CASE Go("loop")
    BY <2>3, GoMoves DEF PlainSteps
  <2> QED BY <2>1, <2>2, <2>3 DEF BatchClosed
<1> QED BY <1>1, <1>4, <1>5, QuietInside

-----------------------------------------------------------------------------
(* Cancellations, failed commits, crashes *)

\* The engine stays where it is while another goroutine takes a step.
LEMMA EngineStays ==
  ASSUME EngineFits, UNCHANGED <<eng, phase, decision, mutation, draft, verification, effects, disk>>
  PROVE  EngineFits' /\ (Up' <=> Up)
BY DEF EngineFits, SamplePending, JournalOutcome, Up

\* CancelContext, and the part of Cancel that commits nothing.
LEMMA QuietCancel ==
  ASSUME KernelInv, RuntimeInv, UNCHANGED <<vars, eng, routed, job, locked, disk>>,
         ctx' \in Context, faults' = faults \/ Error
  PROVE  [Next]_vars /\ RuntimeInv'
<1>1. /\ UNCHANGED <<effects, seq, calls, approvals, phase, decision, mutation, draft, verification>>
      /\ Carries
  BY CarriesKept DEF vars, lifeVars, workVars, effVars, proofVars
<1>2. EngineFits' /\ WantFits' /\ (Up' <=> Up)
  BY <1>1, EngineStays, WantCarried DEF RuntimeInv
<1>3. Routes' /\ RoutesComplete'
  BY <1>1, <1>2 DEF RuntimeInv, Routes, RouteFits, RoutesComplete
<1>4. JobsFit' /\ LockFits'
  BY <1>1, JobsSame DEF RuntimeInv, LockFits
<1>5. RestTyped'
  BY <1>1, RuntimeAssumption DEF RuntimeInv, RestTyped, Error
<1> QED BY <1>1, <1>2, <1>3, <1>4, <1>5, InsideFits

\* A cancellation may come at any step of the engine.
LEMMA CancelKeeps ==
  ASSUME KernelInv, RuntimeInv, Cancel PROVE [Next]_vars /\ RuntimeInv'
<1>1. /\ Up /\ locked = 0 /\ ctx' = "canceling" /\ UNCHANGED <<eng, job, locked, disk>> /\ TypeOK
  BY DEF Cancel, Active, Unlocked, Up, KernelInv
<1>2. CASE Submit(CancelRequested("user")) /\ UNCHANGED faults
  <2>1. CancelRequested("user") /\ Dispatch(routed) /\ phase \notin Terminal
    BY <1>2 DEF Submit
  <2>2. Next /\ PlainCommand
    BY <2>1 DEF Next, LifeStep, PlainCommand
  <2>3. TypeOK'
    BY <2>2, KernelStep DEF KernelInv
  <2>4. Evolves({}) /\ Carries
    BY <1>1, <2>2, PlainCommands
  <2>5. UNCHANGED <<effects, seq, calls, approvals, phase, decision, mutation, draft, verification>>
    BY <2>1 DEF CancelRequested, workVars, effVars, proofVars
  <2>6. EngineFits' /\ WantFits' /\ Up'
    BY <1>1, <2>4, <2>5, EngineStays, WantCarried DEF RuntimeInv
  <2>7. Routes' /\ RoutesComplete'
    BY <1>1, <2>1, <2>3, <2>4, <2>6, SubmitFits DEF RuntimeInv, RoutesComplete, Carries
  <2>8. JobsFit' /\ LockFits'
    BY <1>1, <2>5, JobsSame DEF RuntimeInv, LockFits
  <2>9. RestTyped'
    BY <1>1, <1>2, <2>5 DEF RuntimeInv, RestTyped, Context
  <2> QED BY <1>1, <2>2, <2>4, <2>6, <2>7, <2>8, <2>9, InsideFits
<1>3. CASE UNCHANGED <<vars, routed>> /\ (UNCHANGED faults \/ Error)
  BY <1>1, <1>3, QuietCancel DEF Context
<1> QED BY <1>2, <1>3 DEF Cancel

\* So may the end of its context.
LEMMA CancelContextKeeps ==
  ASSUME KernelInv, RuntimeInv, CancelContext PROVE [Next]_vars /\ RuntimeInv'
BY QuietCancel DEF CancelContext, Context

\* A failed commit leaves the turn state alone; the result of a sample is retained.
LEMMA CommitFailsKeeps ==
  ASSUME KernelInv, RuntimeInv, CommitFails PROVE [Next]_vars /\ RuntimeInv'
<1>1. /\ locked = 0 /\ locked' = 0 /\ Error /\ UNCHANGED <<vars, ctx, disk>> /\ Up /\ TypeOK
      /\ EngineFits
  BY DEF CommitFails, Up, KernelInv, RuntimeInv
<1>2. /\ UNCHANGED <<effects, seq, calls, approvals>> /\ Carries /\ TypeOK'
  BY <1>1, CarriesKept, KernelStutter DEF vars, lifeVars, workVars, effVars, proofVars, KernelInv
<1>3. EngineMoves /\ (eng.at = "declare" => eng'.at = "closing")
      /\ (eng.at \in BatchSteps => eng.at \in {"tools", "declare"})
  <2>1. CASE eng.at \notin {"start", "streaming", "tools", "declare", "abort"}
    <3>1. eng.at \notin BatchSteps /\ (Fail \/ AbortFails \/ GiveUp \/ Go("stuck"))
      BY <2>1 DEF CommitFails, BatchSteps
    <3> QED BY <2>1, <3>1, FailMoves, AbortFailsMoves, GiveUpMoves, GoMoves DEF PlainSteps
  <2>2. CASE eng.at \in {"start", "streaming"}
    <3>1. Answered(NoReply)
      BY <2>2 DEF CommitFails
    <3> QED BY <2>2, <3>1, AnsweredMoves DEF BatchSteps
  <2>3. CASE eng.at \in {"tools", "abort"}
    <3>1. eng' = [eng EXCEPT !.at = "abortTools", !.failed = TRUE]
      BY <2>3 DEF CommitFails
    <3>2. /\ eng' \in EngineState /\ eng'.reply \in FinalReply /\ eng'.want = eng.want
          /\ eng'.at = "abortTools" /\ eng'.failed
      BY <1>1, <3>1, EngineFields DEF EngineState, Steps, FinalSteps
    <3> QED BY <2>3, <3>2 DEF EngineMoves, RuntimeInv, CancelFits, BatchSteps
  <2>4. CASE eng.at = "declare"
    <3>1. eng' = [eng EXCEPT !.at = "closing", !.failed = TRUE]
      BY <2>4 DEF CommitFails
    <3>2. /\ eng' \in EngineState /\ eng'.reply \in FinalReply /\ eng'.want = eng.want
          /\ eng'.at = "closing"
      BY <1>1, <3>1, EngineFields DEF EngineState, Steps
    <3> QED BY <2>4, <3>2, TypedMoves DEF PlainSteps
  <2> QED BY <2>1, <2>2, <2>3, <2>4
<1>4. JobsFit'
  <2>1. CASE eng.at = "tools"
    <3>1. job' = [d \in Calls |-> "idle"]
      BY <2>1 DEF CommitFails
    <3> QED BY <3>1 DEF JobsFit, NoOrphanTool
  <2>2. CASE eng.at # "tools"
    <3>1. UNCHANGED job
      BY <2>2 DEF CommitFails
    <3>2. CASE eng.at = "declare"
      <4>1. \A d \in Calls : job[d] \in {"idle", "done"}
        BY <3>2 DEF RuntimeInv, JobsFit
      <4> QED BY <1>2, <1>3, <3>1, <3>2, <4>1, JobsKept DEF RuntimeInv, BatchSteps
    <3>3. CASE eng.at # "declare"
      BY <1>3, <2>2, <3>1, <3>3, JobsIdle DEF RuntimeInv
    <3> QED BY <3>2, <3>3
  <2> QED BY <2>1, <2>2
<1>5. Routes' /\ DOMAIN effects' \subseteq DOMAIN routed'
  <2>1. CASE eng.at = "streamed"
    <3>1. PICK e \in Find("sample_provider", eng.sample) : Retain(e, eng.reply)
      BY <2>1 DEF CommitFails
    <3>2. e \in DOMAIN routed /\ routed[e].kind = "sample_provider" /\ eng.reply \in FinalReply
      BY <1>1, Found DEF RuntimeInv, TypeOK, EngineFits
    <3>3. Routes' /\ DOMAIN routed' = DOMAIN routed
      BY <1>2, <3>1, <3>2, RetainFits DEF RuntimeInv
    <3> QED BY <1>1, <1>2, <3>3 DEF RuntimeInv, RoutesComplete
  <2>2. CASE eng.at # "streamed"
    <3>1. UNCHANGED routed
      BY <2>2 DEF CommitFails
    <3> QED BY <1>1, <1>2, <3>1 DEF RuntimeInv, Routes, RouteFits, RoutesComplete
  <2> QED BY <2>1, <2>2
<1> QED BY <1>1, <1>2, <1>3, <1>4, <1>5, UnlockedInside

\* A crash loses the registry, the tools and the mutex, not the files.
LEMMA CrashKeeps ==
  ASSUME KernelInv, RuntimeInv, Crash PROVE [Next]_vars /\ RuntimeInv'
<1>1. /\ eng' = NewEngine("down") /\ routed' = <<>> /\ job' = [d \in Calls |-> "idle"]
      /\ locked' = 0 /\ ctx' = "live" /\ UNCHANGED <<vars, disk>> /\ TypeOK
      /\ faults.crashes < MaxCrashes /\ faults' = [faults EXCEPT !.crashes = @ + 1]
  BY DEF Crash, Down, KernelInv
<1>2. Carries /\ seq' = seq /\ seq \in Nat
  BY <1>1, CarriesKept DEF vars, lifeVars, workVars, effVars, proofVars, TypeOK
<1>3. /\ eng' \in EngineState /\ eng'.reply \in FinalReply /\ eng'.at = "down"
      /\ eng'.want = NoDecision
  BY <1>1 DEF NewEngine, EngineState, FinalReply, Reply, NoReply, Steps
<1>4. EngineFits' /\ WantFits' /\ ~Up'
  BY <1>3, PlainFits DEF PlainSteps, WantFits, NoDecision, Up
<1>5. DOMAIN routed' = {}
  BY <1>1
<1>6. Routes' /\ RoutesComplete'
  BY <1>4, <1>5 DEF Routes, RoutesComplete
<1>7. JobsFit' /\ LockFits'
  BY <1>1 DEF JobsFit, NoOrphanTool, LockFits
<1>8. RestTyped'
  BY <1>1, <1>2, RuntimeAssumption DEF RuntimeInv, RestTyped, Context
<1> QED BY <1>1, <1>2, <1>4, <1>6, <1>7, <1>8, InsideFits

\* A step that changes nothing.
LEMMA StutterKeeps ==
  ASSUME KernelInv, RuntimeInv, UNCHANGED allVars PROVE [Next]_vars /\ RuntimeInv'
BY QuietCancel DEF allVars, procVars, RuntimeInv, RestTyped

-----------------------------------------------------------------------------
(* The inductive invariant holds *)

\* A new turn satisfies it.
LEMMA RuntimeInitFits == RuntimeInit => KernelInv /\ RuntimeInv
<1> SUFFICES ASSUME RuntimeInit PROVE KernelInv /\ RuntimeInv
  OBVIOUS
<1>1. KernelInv /\ Init
  BY KernelInit DEF RuntimeInit
<1>2. /\ eng = NewEngine("open") /\ routed = <<>> /\ job = [c \in Calls |-> "idle"]
      /\ locked = 0 /\ ctx = "live" /\ disk = "open" /\ faults = [crashes |-> 0, errors |-> 0]
  BY DEF RuntimeInit
<1>3. /\ DOMAIN effects = {} /\ seq = 0 /\ phase = "created" /\ decision = NoDecision
      /\ journal = "none" /\ approvals = [r \in Requests |-> Null]
  BY <1>1 DEF Init
<1>4. DOMAIN routed = {}
  BY <1>2
<1>5. /\ eng \in EngineState /\ eng.reply \in FinalReply /\ eng.at = "open"
      /\ eng.want = NoDecision
  BY <1>2 DEF NewEngine, EngineState, FinalReply, Reply, NoReply, Steps
<1>6. Routes /\ RoutesComplete
  BY <1>3, <1>4, <1>5 DEF Routes, RoutesComplete, Up
<1>7. EngineFits /\ CancelFits
  BY <1>3, <1>5 DEF EngineFits, CancelFits, NoDecision
<1>8. JobsFit /\ LockFits /\ OneApproval
  BY <1>2, <1>3 DEF JobsFit, NoOrphanTool, LockFits, OneApproval
<1>9. FilesFit /\ RestTyped
  BY <1>2, <1>3, RuntimeAssumption DEF FilesFit, RestTyped, Context, SettledJournal
<1> QED BY <1>1, <1>6, <1>7, <1>8, <1>9 DEF RuntimeInv

\* Only the journal driver touches the files.
LEMMA OnlyDriver == RuntimeNext => RunJournal \/ UNCHANGED disk
<1> SUFFICES ASSUME RuntimeNext, ~RunJournal PROVE UNCHANGED disk
  OBVIOUS
<1> USE DEF Local
<1>1. CASE EngineStep
  <2>1. CASE \/ Open \/ Prepare \/ Enter \/ Loop \/ NoProgress \/ BeginModelSample
             \/ StartModelSample \/ SkipModelSample \/ Checkpoint \/ StreamEnds
             \/ ScheduleProviderRetry \/ FinishModelTransport \/ FinishModelSample
    BY <2>1 DEF Open, Prepare, Enter, Loop, NoProgress, BeginModelSample, StartModelSample,
                SkipModelSample, Checkpoint, StreamEnds, ScheduleProviderRetry,
                FinishModelTransport, FinishModelSample, AnotherAttempt
  <2>2. CASE \/ StartTool \/ ExecuteBatch \/ BatchDone \/ CloseTool \/ Declare \/ BatchClosed
             \/ Advance \/ Act \/ StartVerification \/ FinishVerification
             \/ RepairVerification \/ CompleteTurn
    BY <2>2 DEF StartTool, ExecuteBatch, BatchDone, CloseTool, Declare, BatchClosed, Advance,
                Act, StartVerification, FinishVerification, RepairVerification, CompleteTurn
  <2>3. CASE \/ AbortSample \/ SamplesAborted \/ AbortApproval \/ AbortTool \/ CloseCalls
             \/ ToolsAborted \/ DiscardFinal \/ RequestTerminal \/ StartJournal
             \/ FinishJournal \/ FinishTurn \/ Requeue \/ Restore \/ Reject
    BY <2>3 DEF AbortSample, SamplesAborted, AbortApproval, AbortTool, CloseCalls, ToolsAborted,
                DiscardFinal, RequestTerminal, StartJournal, FinishJournal, FinishTurn, Requeue,
                Restore, Reject
  <2> QED BY <1>1, <2>1, <2>2, <2>3 DEF EngineStep
<1>2. CASE \E c \in Calls : \/ ToolProgress(c) \/ ExpireApproval(c)
                             \/ \E r \in Requests : RequireApproval(r, c)
  BY <1>2 DEF ToolProgress, StartApproval, EnsureApproval, ToolDone, ExpireApproval,
              RequireApproval
<1>3. CASE UserStep \/ CancelContext
  BY <1>3 DEF UserStep, Cancel, CancelContext, StartAnswer, RefuseAnswer, ResolveApproval
<1>4. CASE CommitFails \/ Crash \/ Over
  BY <1>4 DEF CommitFails, Crash, Down, Over, allVars, procVars
<1> QED BY <1>1, <1>2, <1>3, <1>4 DEF RuntimeNext

\* Every step of the goroutines keeps it, is a step of the turn state machine or none, and
\* leaves files alone that the driver has settled.
LEMMA RuntimeStepFits ==
  ASSUME KernelInv, RuntimeInv, [RuntimeNext]_allVars
  PROVE  [Next]_vars /\ KernelInv' /\ RuntimeInv' /\ (disk # "open" => disk' = disk)
<1>1. [Next]_vars /\ RuntimeInv'
  <2>1. CASE EngineStep
    <3>1. CASE \/ Open \/ Prepare \/ Enter \/ Loop \/ NoProgress \/ BeginModelSample
               \/ StartModelSample \/ SkipModelSample \/ Checkpoint \/ StreamEnds
               \/ ScheduleProviderRetry \/ FinishModelTransport \/ FinishModelSample
      BY <3>1, OpenKeeps, EnterKeeps, LoopKeeps, NoProgressKeeps, BeginModelSampleKeeps,
         StartModelSampleKeeps, StreamQuietKeeps, CheckpointKeeps, AnotherAttemptKeeps,
         FinishModelSampleKeeps
    <3>2. CASE \/ StartTool \/ ExecuteBatch \/ BatchDone \/ CloseTool \/ Declare \/ BatchClosed
      BY <3>2, StartToolKeeps, BatchKeeps, CloseToolKeeps, DeclareKeeps, BatchClosedKeeps
    <3>3. CASE \/ Advance \/ Act \/ StartVerification \/ FinishVerification
               \/ RepairVerification \/ CompleteTurn
      BY <3>3, AdvanceKeeps, ActKeeps, StartVerificationKeeps, FinishVerificationKeeps,
         RepairVerificationKeeps, CompleteTurnKeeps
    <3>4. CASE \/ AbortSample \/ SamplesAborted \/ AbortApproval \/ AbortTool \/ CloseCalls
               \/ ToolsAborted \/ DiscardFinal \/ RequestTerminal
      BY <3>4, AbortSampleKeeps, SamplesAbortedKeeps, AbortApprovalKeeps, AbortToolKeeps,
         CloseCallsKeeps, ToolsAbortedKeeps, DiscardFinalKeeps, RequestTerminalKeeps
    <3>5. CASE \/ StartJournal \/ RunJournal \/ FinishJournal \/ FinishTurn
               \/ Requeue \/ Restore \/ Reject
      BY <3>5, StartJournalKeeps, RunJournalKeeps, FinishJournalKeeps, FinishTurnKeeps,
         RequeueKeeps, RestoreKeeps, RejectKeeps
    <3> QED BY <2>1, <3>1, <3>2, <3>3, <3>4, <3>5 DEF EngineStep
  <2>2. CASE \E c \in Calls : \/ ToolProgress(c) \/ ExpireApproval(c)
                               \/ \E r \in Requests : RequireApproval(r, c)
    BY <2>2, ToolKeeps, StartApprovalKeeps, RequireApprovalKeeps DEF ToolProgress
  <2>3. CASE UserStep
    BY <2>3, CancelKeeps, StartAnswerKeeps, RefuseAnswerKeeps, ResolveApprovalKeeps DEF UserStep
  <2>4. CASE CancelContext \/ CommitFails \/ Crash
    BY <2>4, CancelContextKeeps, CommitFailsKeeps, CrashKeeps
  <2>5. CASE Over \/ UNCHANGED allVars
    BY <2>5, StutterKeeps DEF Over
  <2> QED BY <2>1, <2>2, <2>3, <2>4, <2>5 DEF RuntimeNext
<1>2. KernelInv'
  BY <1>1, KernelStep, KernelStutter
<1>3. disk # "open" => disk' = disk
  BY OnlyDriver, RunJournalKeeps DEF allVars, procVars
<1> QED BY <1>1, <1>2, <1>3

\* The inductive invariant holds of every running turn.
THEOREM RuntimeInvariant == RuntimeSpec => [](KernelInv /\ RuntimeInv)
<1>1. KernelInv /\ RuntimeInv /\ [RuntimeNext]_allVars => KernelInv' /\ RuntimeInv'
  BY RuntimeStepFits
<1> QED BY <1>1, RuntimeInitFits, PTL DEF RuntimeSpec

-----------------------------------------------------------------------------
(* Theorems *)

\* The process state has its type: every registry entry is one of an effect the turn has
\* requested, and the bounds of the instance are kept.
THEOREM RuntimeTypes == RuntimeSpec => []ProcTypeOK
<1>1. RuntimeInv => ProcTypeOK
  BY DEF RuntimeInv, Routes, RouteFits, EngineFits, JobsFit, RestTyped, ProcTypeOK
<1> QED BY <1>1, RuntimeInvariant, PTL

\* The dispatcher's registry (dispatcher.go) and the durable effects never disagree, also
\* after crashes, refused results and cancellations: RestoreTurnCoordinator and the retained
\* results together lose no effect and invent none.
THEOREM RegistryMatches == RuntimeSpec => []RegistryAgrees
<1>1. RuntimeInv => RegistryAgrees
  BY DEF RuntimeInv, Routes, RouteFits, RoutesComplete, RegistryAgrees
<1> QED BY <1>1, RuntimeInvariant, PTL

\* No tool runs for a closed call, and none waits for an answer nobody is asked for.
THEOREM NoToolOutlivesItsCall == RuntimeSpec => []NoOrphanTool
<1>1. RuntimeInv => NoOrphanTool
  BY DEF RuntimeInv, JobsFit
<1> QED BY <1>1, RuntimeInvariant, PTL

\* The files of a turn that is over are as its recorded decision says, whatever crashed or
\* failed between the journal driver and the commit of its result.
THEOREM FilesEndAsDecided == RuntimeSpec => []FilesAsDecided
<1>1. KernelInv /\ RuntimeInv => FilesAsDecided
  <2> SUFFICES ASSUME KernelInv, RuntimeInv, phase \in Terminal
               PROVE  disk = IF journal = "none" THEN "open" ELSE journal
    BY DEF FilesAsDecided
  <2>1. journal = IF mutation # 0 \/ Policy.journalRequired THEN JournalOutcome(decision)
                  ELSE "none"
    BY DEF KernelInv, TerminalValid
  <2>2. JournalOutcome(decision) \in SettledJournal /\ "none" \notin SettledJournal
    BY DEF JournalOutcome, SettledJournal
  <2> QED BY <2>1, <2>2 DEF RuntimeInv, FilesFit
<1> QED BY <1>1, RuntimeInvariant, PTL

\* The changes of a turn its user canceled are kept for a later turn, never rolled back.
THEOREM CanceledWorkIsKept == RuntimeSpec => []UserWorkKept
<1>1. KernelInv /\ RuntimeInv => UserWorkKept
  <2> SUFFICES ASSUME KernelInv, RuntimeInv, phase = "canceled", cancel = "user", mutation # 0
               PROVE  journal = "suspended"
    BY DEF UserWorkKept
  <2>1. decision.kind = "canceled" /\ journal = JournalOutcome(decision)
    BY DEF KernelInv, TerminalValid, Terminal
  <2>2. decision.user
    BY <2>1 DEF RuntimeInv, CancelFits
  <2> QED BY <2>1, <2>2 DEF JournalOutcome
<1> QED BY <1>1, RuntimeInvariant, PTL

\* The journal driver never undoes or replaces what it did: run again after a crash or an
\* error before its result was committed, it is asked for the same.
THEOREM DriverNeverUndoes == RuntimeSpec => FilesSettledOnce
<1>1. KernelInv /\ RuntimeInv /\ [RuntimeNext]_allVars => [disk # "open" => disk' = disk]_allVars
  BY RuntimeStepFits
<1> QED BY <1>1, RuntimeInvariant, PTL DEF RuntimeSpec, FilesSettledOnce

\* The goroutines, the failed commits, the crashes and the restarts give the turn state
\* machine no step it does not have.
THEOREM RunningTurnImplementsKernel == RuntimeSpec => ImplementsKernel
<1>1. RuntimeInit => Init
  BY DEF RuntimeInit
<1>2. KernelInv /\ RuntimeInv /\ [RuntimeNext]_allVars => [Next]_vars
  BY RuntimeStepFits
<1> QED BY <1>1, <1>2, RuntimeInvariant, PTL DEF RuntimeSpec, ImplementsKernel, Spec

\* So the state of a running turn always passes Validate (invariants.go): Apply's last check
\* never fails a commit of the engine, of a user's answer or of a restart.
THEOREM RunningTurnIsValid == RuntimeSpec => []Validate
BY RunningTurnImplementsKernel, Validated, PTL DEF ImplementsKernel

=============================================================================
