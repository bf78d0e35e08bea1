-------------------------- MODULE TrajectoryProofs --------------------------
(***************************************************************************)
(* Proofs about Trajectory: raw observations go only behind a receipt that *)
(* proves the very revision they had, only once every metric the receipt   *)
(* names is durable; what was removed never looks like damage; and         *)
(* what was ever completed keeps its evidence.  For any budgets, metrics,  *)
(* retention policies, checkpoints and recording, and however often the    *)
(* coordinator and its worker are killed, interrupted or run again.        *)
(***************************************************************************)
EXTENDS Trajectory, RunStoreProofs

(* The inductive invariant *)

Removing == {"unlink", "discard"}
Replaying == {"archive", "reset", "clear"}
Stages == {"up", "prune"} \union Removing \union Replaying

\* An invocation that has started is one of these.
IsCall(c) ==
  c \in [at : Stages, want : Budgets, metrics : MetricSets, raw : RawRetention,
         met : MetricRetention, reference : {c.reference},
         simulation : {"pending", "running", "done", "failed"}, drop : {c.drop}]

\* While observations are removed no worker runs, the receipt proves every
\* completed prefix, and each metric it rests on is durable.
InvReceipt ==
  IsPruned =>
    /\ pc = "idle"
    /\ \A n \in Completed(progress) :
         /\ n \in Proven(receipt)
         /\ receipt.references[n] = Revision(progress.completed[n].results, n)
InvRetained == ~IsPruned => RInv

\* Nothing but the coordinator touches a run it prunes or replays.
InvStage ==
  /\ ~Running => pc = "idle"
  /\ Running =>
       /\ IsCall(call)
       /\ call.at # "up" => pc = "idle"
       /\ call.at \in Removing \union Replaying => IsPruned
       /\ call.at \in {"reset", "clear"} => Proven(receipt) \subseteq Proven(history)
       /\ call.at = "clear" => progress = NoProgress

\* Pruning is considered once the metrics of the very revision on disk are durable.
InvProofs ==
  Running =>
    /\ \A m \in call.drop : Key(m) \in aggregates
    /\ call.at = "prune" =>
         /\ call.raw = "until_analyzed"
         /\ MetricProofs(call.metrics, call.reference, metrics)
         /\ ~IsPruned /\ Covering(call.want) # {} =>
              call.reference.revision = FromCompletion(call.want).revision

\* A worker is started only for a run without a retained reference.
InvWorker ==
  Running =>
    /\ pc # "idle" => call.simulation = "running" /\ ~Retained
    /\ call.simulation = "pending" /\ Retained =>
         IF IsPruned THEN call.raw = "until_analyzed" /\ call.at \notin Replaying
                     ELSE Covering(call.want) # {}

\* A run whose status is completed completed the budget it stopped at.
InvStatus == progress.status = "completed" => progress.step \in Completed(progress)

TInv ==
  /\ IInv /\ InvFiles /\ InvReceipt /\ InvRetained
  /\ InvStage /\ InvProofs /\ InvWorker /\ InvStatus
-----------------------------------------------------------------------------
(* The steps, by what they change of the run directory *)

\* Steps that remove parts of it
Storing ==
  \/ \E f \in results : UnlinkChunk(f)
  \/ SettleReferences
  \/ \E g \in Generation : DiscardGeneration(g)
  \/ ResetProgress
\* Steps that leave all of it alone
Looking ==
  \/ Invoke \/ SkipSimulation \/ BeginRematerialize \/ SimulationFinished \/ End \/ Derive
  \/ PublishReceipt \/ KeepTrajectory \/ ResumePruning \/ PruningDone
  \/ ArchiveReferences \/ ClearReceipt
Still == UNCHANGED tvars
TStepping == Storing \/ Looking \/ Submit \/ Worker \/ Kill \/ Still

LEMMA TNextIsStepping ==
  ASSUME [TNext]_tvars
  PROVE  TStepping
  BY DEF TNext, Schedule, Prune, Rematerialize, TStepping, Storing, Looking, Still

\* A live invocation is a well-formed call for a positive budget.
LEMMA CallShape ==
  ASSUME InvStage, Running
  PROVE  /\ IsCall(call) /\ call.want \in Budgets /\ call.want \in Step
         /\ call.at \in Stages
  BY BudgetsAssumption DEF InvStage, IsCall

\* Nothing at rest is damaged here, so a completed prefix is never rejected.
LEMMA NeverRejected ==
  ASSUME InvRetained, ~IsPruned, NEW b
  PROVE  ~RejectCompletion(b)
  BY DEF InvRetained, RInv, CompletedReadable, RejectCompletion, Covering, Shortest

\* Every other step changes the run directory as RunStore does, or not at all.
LEMMA RunSteps ==
  ASSUME TInv, TStepping, ~Storing
  PROVE  /\ [Next]_vars
         /\ IsPruned => UNCHANGED vars /\ pc = "idle"
         /\ ~UNCHANGED vars => Submit \/ Worker \/ (Kill /\ Crash)
<1>1. CASE Looking \/ Still
  BY <1>1 DEF Looking, Still, Invoke, Start, SkipSimulation, BeginRematerialize,
       SimulationFinished, End, Derive, DropMetric, ComputeMetric, ComputeAggregate,
       PublishReceipt, KeepTrajectory, ResumePruning, PruningDone, ArchiveReferences,
       ClearReceipt, tvars, TInv, InvReceipt
<1>2. CASE Submit
  <2>1. Running /\ ~IsPruned
    BY <1>2 DEF Submit, Prepare, Free, Idle
  <2>2. call.want \in Budgets
    BY <2>1, CallShape DEF TInv
  <2>3. Reuse(call.want) \/ Open(call.want) \/ RejectCompletion(call.want)
    BY <1>2 DEF Submit
  <2> QED BY <1>2, <2>1, <2>2, <2>3 DEF Next, Request
<1>3. CASE Worker
  BY <1>3 DEF Worker, Next, Interruption, TInv, InvReceipt
<1>4. CASE Kill
  BY <1>4 DEF Kill, Next, Interruption, TInv, InvReceipt, Crash
<1> QED BY <1>1, <1>2, <1>3, <1>4 DEF TStepping

\* What the removing steps do.
LEMMA StoringFacts ==
  ASSUME TInv, Storing
  PROVE  /\ Running /\ IsPruned /\ pc = "idle"
         /\ UNCHANGED <<failure, instance, pc, budget, outcome, session, evidence, derived>>
         /\ results' \subseteq results
         /\ DOMAIN generations' = Generation
         /\ \A g \in Generation : generations'[g] \in {generations[g], Absent}
         /\ Progress(progress')
         /\ progress'.status = "completed" => progress'.step \in Completed(progress')
         /\ \A n \in Completed(progress') :
              n \in Completed(progress)
              /\ progress'.completed[n].results = progress.completed[n].results
         /\ \/ progress' = progress
            \/ progress'.checkpoints = <<>> /\ Pinned(progress') = {}
<1> USE DEF TInv, InvStage, Removing, Replaying, Stages, IInv, TypeOK, evidence, session
<1>1. ASSUME NEW f \in results, UnlinkChunk(f)
      PROVE  /\ Running /\ IsPruned /\ pc = "idle" /\ results' \subseteq results
             /\ UNCHANGED <<progress, generations, failure, instance, pc, budget, outcome,
                            session, evidence, derived>>
  BY <1>1 DEF UnlinkChunk
<1>2. ASSUME NEW g \in Generation, DiscardGeneration(g)
      PROVE  /\ Running /\ IsPruned /\ pc = "idle"
             /\ DOMAIN generations' = Generation
             /\ \A h \in Generation : generations'[h] \in {generations[h], Absent}
             /\ UNCHANGED <<progress, results, failure, instance, pc, budget, outcome,
                            session, evidence, derived>>
  BY <1>2 DEF DiscardGeneration
<1>3. CASE SettleReferences
  <2>1. /\ Running /\ IsPruned /\ pc = "idle"
        /\ UNCHANGED <<generations, results, failure, instance, pc, budget, outcome,
                       session, evidence, derived>>
    BY <1>3 DEF SettleReferences
  <2>2. /\ DOMAIN progress' = DOMAIN progress
        /\ progress'.status = progress.status /\ progress'.step = progress.step
        /\ progress'.checkpoints = <<>>
        /\ progress'.completed = [n \in Completed(progress) |->
                                   [progress.completed[n] EXCEPT !.checkpoint = None]]
    BY <1>3 DEF SettleReferences, Progress
  <2>3. \A n \in Completed(progress) :
          /\ progress'.completed[n] \in [results : Manifest, checkpoint : Generation \union {None}]
          /\ progress'.completed[n].checkpoint = None
          /\ progress'.completed[n].results = progress.completed[n].results
    BY <2>2 DEF Progress
  <2>4. Completed(progress') = Completed(progress) /\ Pinned(progress') = {}
    BY <2>2, <2>3 DEF Completed, Pinned
  <2>5. Progress(progress')
    BY <2>2, <2>3, <2>4, EmptySeq DEF Progress, Completed
  <2> QED BY <2>1, <2>2, <2>3, <2>4, <2>5 DEF InvStatus
<1>4. CASE ResetProgress
  <2>1. /\ Running /\ IsPruned /\ pc = "idle" /\ progress' = NoProgress
        /\ UNCHANGED <<generations, results, failure, instance, pc, budget, outcome,
                       session, evidence, derived>>
    BY <1>4 DEF ResetProgress
  <2>2. Completed(NoProgress) = {} /\ Pinned(NoProgress) = {}
    BY EmptySeq DEF NoProgress, Completed, Pinned
  <2> QED BY <2>1, <2>2, NoProgressType DEF NoProgress
<1> QED BY <1>1, <1>2, <1>3, <1>4 DEF Storing, InvStatus, Completed

\* The removing steps keep what IInv says of the directory: all that is left in
\* it is as it was.
LEMMA StoringIInv ==
  ASSUME TInv, Storing
  PROVE  IInv' /\ InvFiles' /\ InvReceipt' /\ InvStatus'
<1> USE DEF session
<1>0. IInv
  BY DEF TInv
<1>00. /\ pc = "idle" /\ UNCHANGED <<failure, instance, pc, budget, outcome, session>>
       /\ results' \subseteq results
  BY StoringFacts
<1>1. TypeOK'
  BY <1>0, <1>00, StoringFacts DEF IInv, TypeOK, IsGeneration
<1>2. \A g \in Generation : IsSealed(g)' => IsSealed(g) /\ generations'[g] = generations[g]
  BY StoringFacts DEF IsSealed, Absent
<1>3. InvGenerations'
  BY <1>0, <1>2 DEF IInv, InvGenerations, Records
<1>4. InvMem' /\ InvSession' /\ InvCovers' /\ InvBehind' /\ InvWriting'
  BY <1>0, <1>00 DEF IInv, InvMem, InvSession, InvCovers, InvBehind, InvWriting, Active, Sessions
<1>5. ASSUME progress' = progress PROVE IInv'
  <2>1. InvPinned'
    <3>1. \A s \in Pinned(progress) : progress.completed[s].checkpoint \in Generation
      BY <1>0 DEF IInv, TypeOK, Progress, Pinned
    <3> QED BY <1>0, <1>2, <1>5, <3>1 DEF IInv, InvPinned, IsSealed, Pinned, Completed
  <2>2. \A g \in Referenced(progress) : g \in Generation
    BY <1>0, ReferencedType DEF IInv, TypeOK
  <2>3. InvEntries'
    BY <1>0, <1>2, <1>5, <2>2 DEF IInv, InvEntries, IsSealed, Completed
  <2>4. NewestFirst(progress)'
    <3>1. \A i \in 1..Len(progress.checkpoints) : progress.checkpoints[i] \in Generation
      BY <1>0, ElementOfSeq DEF IInv, TypeOK, Progress
    <3> QED BY <1>0, <1>2, <1>5, <3>1 DEF IInv, InvOrder, NewestFirst, NotBeyond, IsSealed, Completed
  <2>5. InvOrder'
    BY <1>00, <2>4 DEF InvOrder
  <2>6. InvFinal'
    BY <1>0, <1>00, <1>5 DEF IInv, InvFinal, IsFinished, Completed
  <2> QED BY <1>1, <1>3, <1>4, <2>1, <2>3, <2>5, <2>6 DEF IInv
<1>6. ASSUME progress'.checkpoints = <<>>, Pinned(progress') = {} PROVE IInv'
  <2>1. Referenced(progress)' = {} /\ Len(progress'.checkpoints) = 0
    BY <1>6, EmptySeq DEF Referenced
  <2>2. InvPinned' /\ InvEntries'
    BY <1>6, <2>1 DEF InvPinned, InvEntries
  <2>3. InvOrder'
    BY <1>00, <2>1 DEF InvOrder, NewestFirst
  <2>4. Completed(progress)' \subseteq Completed(progress)
    BY StoringFacts DEF Completed
  <2>5. InvFinal'
    BY <1>0, <1>00, <2>4 DEF IInv, InvFinal, IsFinished, Active, Sessions
  <2> QED BY <1>1, <1>3, <1>4, <2>2, <2>3, <2>5 DEF IInv
<1>7. InvFiles'
  BY <1>00 DEF TInv, InvFiles
<1>8. InvReceipt'
  <2>1. IsPruned' /\ receipt' = receipt
    BY StoringFacts DEF evidence, IsPruned
  <2> QED BY <1>00, <2>1, StoringFacts DEF TInv, InvReceipt, Completed, Proven, Revision, Used
<1>9. InvStatus'
  BY StoringFacts DEF Completed, InvStatus
<1>10. IInv'
  BY <1>5, <1>6, StoringFacts
<1> QED BY <1>7, <1>8, <1>9, <1>10

\* A status of completed is published with the prefix it speaks of.
LEMMA InvStatusStep ==
  ASSUME IInv, InvStatus, Stepping
  PROVE  InvStatus'
<1>1. CASE PublishCheckpoint
  <2>1. progress'.status # "completed"
    BY <1>1 DEF PublishCheckpoint, CommitCheckpoint, IInv, TypeOK, Progress
  <2> QED BY <2>1 DEF InvStatus
<1>2. CASE Finish
  <2>1. progress'.step = step /\ step \in Completed(progress')
    BY <1>2, FinishFacts DEF Finish, IInv, TypeOK, Progress
  <2> QED BY <2>1 DEF InvStatus, Completed
<1>3. CASE PublishFailure
  <2>1. progress'.status # "completed"
    BY <1>3 DEF PublishFailure, IInv, TypeOK, Progress
  <2> QED BY <2>1 DEF InvStatus
<1>4. CASE UNCHANGED progress
  BY <1>4 DEF InvStatus, Completed
<1> QED BY <1>1, <1>2, <1>3, <1>4, Frame DEF Restore, Initialize, disk

\* What every step keeps of the run directory
LEMMA DiskStep ==
  ASSUME NoRot, TInv, TStepping
  PROVE  IInv' /\ InvFiles' /\ InvStatus'
<1>1. CASE Storing
  BY <1>1, StoringIInv
<1>2. CASE ~Storing
  <2>1. [Next]_vars
    BY <1>2, RunSteps
  <2>2. IInv' /\ Stepping
    BY <2>1, IInvNext DEF TInv
  <2> QED BY <2>2, InvFilesStep, InvStatusStep DEF TInv
<1> QED BY <1>1, <1>2

\* A completed prefix is the shortest that covers itself.
LEMMA OwnCompletion ==
  ASSUME Progress(progress), NEW n \in Completed(progress)
  PROVE  FromCompletion(n) = Reference("retained", Revision(progress.completed[n].results, n))
<1>1. Completed(progress) \subseteq Nat
  BY DEF Progress
<1>2. Shortest(n, n) /\ \A s \in Covering(n) : Shortest(n, s) => s = n
  BY <1>1 DEF Shortest, Covering
<1>3. n \in Covering(n)
  BY <1>2 DEF Shortest
<1>4. (CHOOSE s \in Covering(n) : Shortest(n, s)) = n
  BY <1>2, <1>3
<1> QED BY <1>4 DEF FromCompletion

LEMMA SameReference ==
  ASSUME UNCHANGED progress
  PROVE  /\ \A n : Covering(n)' = Covering(n)
         /\ \A n : FromCompletion(n)' = FromCompletion(n)
<1>1. \A n : Covering(n)' = Covering(n)
  BY DEF Covering, Completed
<1>2. \A n, s : Shortest(n, s)' <=> Shortest(n, s)
  BY <1>1 DEF Shortest
<1>3. ASSUME NEW n PROVE FromCompletion(n)' = FromCompletion(n)
  BY <1>1, <1>2 DEF FromCompletion
<1> QED BY <1>1, <1>3

\* Who writes the receipt
LEMMA ReceiptFrame ==
  ASSUME TStepping
  PROVE  receipt' = receipt \/ PublishReceipt \/ ClearReceipt
  BY DEF TStepping, Storing, Looking, Still, Invoke, Start, SkipSimulation, BeginRematerialize,
       SimulationFinished, End, Derive, DropMetric, ComputeMetric, ComputeAggregate,
       KeepTrajectory, ResumePruning, PruningDone, ArchiveReferences,
       UnlinkChunk, SettleReferences, DiscardGeneration, ResetProgress,
       Submit, Worker, Kill, tvars, evidence

\* The receipt proves every completed prefix by the revision it has.
LEMMA PublishReceiptFacts ==
  ASSUME TInv, PublishReceipt
  PROVE  /\ UNCHANGED vars /\ ~IsPruned /\ pc = "idle" /\ IsPruned'
         /\ receipt'.latest = call.want /\ receipt'.metrics = call.metrics
         /\ call.want \in Completed(progress)
         /\ Proven(receipt') = Proven(history) \union Completed(progress)
         /\ \A n \in Completed(progress) :
              receipt'.references[n] = Revision(progress.completed[n].results, n)
         /\ call.raw = "until_analyzed" /\ call' = [call EXCEPT !.at = "unlink"]
         /\ \A m \in call.metrics : <<m, receipt'.references[call.want]>> \in metrics
<1>1. /\ Running /\ call.at = "prune" /\ ~IsPruned /\ Prunable
      /\ Loads(call.want, FromCompletion(call.want).revision)
      /\ receipt' = [latest |-> progress.step, references |-> CurrentReferences,
                     metrics |-> call.metrics]
      /\ call' = [call EXCEPT !.at = "unlink"] /\ UNCHANGED vars
  BY DEF PublishReceipt, Shift
<1>2. Progress(progress) /\ call.want \in Step
  BY <1>1, CallShape DEF TInv, IInv, TypeOK
<1>3. pc = "idle" /\ call.raw = "until_analyzed"
      /\ MetricProofs(call.metrics, call.reference, metrics)
      /\ (Covering(call.want) # {} => call.reference.revision = FromCompletion(call.want).revision)
  BY <1>1 DEF TInv, InvStage, InvProofs
<1>4. call.want = progress.step /\ call.want \in Completed(progress)
  BY <1>1 DEF Prunable, TInv, InvStatus
<1>5. Covering(call.want) # {}
  BY <1>1 DEF Loads
<1>6. /\ receipt'.latest = call.want /\ receipt'.metrics = call.metrics
      /\ receipt'.references = CurrentReferences
  BY <1>1, <1>4
<1>7. IsPruned'
  BY <1>2, <1>6 DEF IsPruned, NoProof, Step
<1>8. /\ DOMAIN CurrentReferences = Proven(history) \union Completed(progress)
      /\ \A n \in Completed(progress) : CurrentReferences[n] = FromCompletion(n).revision
  BY DEF CurrentReferences
<1>9. \A n \in Completed(progress) :
        FromCompletion(n).revision = Revision(progress.completed[n].results, n)
  BY <1>2, OwnCompletion DEF Reference
<1>10. \A m \in call.metrics : <<m, receipt'.references[call.want]>> \in metrics
  BY <1>3, <1>4, <1>5, <1>6, <1>8 DEF MetricProofs
<1> QED BY <1>1, <1>3, <1>4, <1>6, <1>7, <1>8, <1>9, <1>10 DEF Proven

LEMMA InvReceiptStep ==
  ASSUME TInv, TStepping
  PROVE  InvReceipt'
<1>1. CASE Storing
  BY <1>1, StoringIInv
<1>2. CASE PublishReceipt
  <2>1. Completed(progress)' = Completed(progress) /\ pc' = pc /\ progress' = progress
    BY <1>2, PublishReceiptFacts DEF vars, disk, Completed
  <2>2. ASSUME NEW n \in Completed(progress)
        PROVE  /\ n \in DOMAIN receipt'.references
               /\ receipt'.references[n] = Revision(progress.completed[n].results, n)
    BY <1>2, PublishReceiptFacts DEF Proven
  <2>3. pc' = "idle"
    BY <1>2, <2>1, PublishReceiptFacts
  <2> QED BY <2>1, <2>2, <2>3 DEF InvReceipt, Proven
<1>3. CASE ClearReceipt
  BY <1>3 DEF ClearReceipt, InvReceipt, IsPruned
<1>4. CASE receipt' = receipt /\ ~Storing
  <2>1. IsPruned' <=> IsPruned
    BY <1>4 DEF IsPruned
  <2>2. IsPruned => UNCHANGED <<progress, pc>>
    BY <1>4, RunSteps DEF vars, disk
  <2> QED BY <1>4, <2>1, <2>2 DEF TInv, InvReceipt, Completed, Proven, Revision, Used
<1> QED BY <1>1, <1>2, <1>3, <1>4, ReceiptFrame

\* Nothing is retained of a run whose progress was reset.
LEMMA FreshRun ==
  ASSUME IInv, InvFiles, pc = "idle", progress = NoProgress
  PROVE  RInv
<1>1. /\ Completed(progress) = {} /\ Pinned(progress) = {} /\ Referenced(progress) = {}
      /\ Len(progress.checkpoints) = 0
  BY EmptySeq DEF NoProgress, Completed, Pinned, Referenced
<1> QED BY <1>1 DEF RInv, CompletedReadable, InvKept, InvFiles, InvPoint, InvSuperseded,
                    Superseded, InvLonger, InvNewest, InvSealing, Active, Sessions

LEMMA InvRetainedStep ==
  ASSUME NoRot, TInv, TStepping
  PROVE  InvRetained'
<1>1. CASE Storing
  BY <1>1, StoringFacts DEF InvRetained, IsPruned, evidence
<1>2. CASE PublishReceipt
  BY <1>2, PublishReceiptFacts DEF InvRetained
<1>3. CASE ClearReceipt
  <2>1. Running /\ call.at = "clear" /\ UNCHANGED vars
    BY <1>3 DEF ClearReceipt
  <2>2. pc = "idle" /\ progress = NoProgress
    BY <2>1 DEF TInv, InvStage
  <2>3. RInv
    BY <2>2, FreshRun DEF TInv
  <2>4. [Next]_vars
    BY <2>1
  <2>5. RInv'
    BY <2>3, <2>4, RInvNext
  <2> QED BY <2>5 DEF InvRetained
<1>4. CASE receipt' = receipt /\ ~Storing
  <2>1. SUFFICES ASSUME ~IsPruned PROVE RInv'
    BY <1>4 DEF InvRetained, IsPruned
  <2>2. RInv /\ [Next]_vars
    BY <1>4, <2>1, RunSteps DEF TInv, InvRetained
  <2> QED BY <2>2, RInvNext
<1> QED BY <1>1, <1>2, <1>3, <1>4, ReceiptFrame

\* What a change of its stage, its simulation or its drops leaves of a call
LEMMA ShiftFacts ==
  ASSUME IsCall(call), NEW x \in Stages, call' = [call EXCEPT !.at = x]
  PROVE  /\ call' # Down /\ IsCall(call') /\ call'.at = x
         /\ call'.want = call.want /\ call'.metrics = call.metrics /\ call'.raw = call.raw
         /\ call'.reference = call.reference /\ call'.simulation = call.simulation
         /\ call'.drop = call.drop
  BY DEF IsCall, Down, Stages, Removing, Replaying

LEMMA DropFacts ==
  ASSUME IsCall(call), NEW x, call' = [call EXCEPT !.drop = x]
  PROVE  /\ call' # Down /\ IsCall(call') /\ call'.at = call.at
         /\ call'.want = call.want /\ call'.metrics = call.metrics /\ call'.raw = call.raw
         /\ call'.reference = call.reference /\ call'.simulation = call.simulation
         /\ call'.drop = x
  BY DEF IsCall, Down, Stages, Removing, Replaying

LEMMA SimulationFacts ==
  ASSUME IsCall(call), NEW x \in {"running", "failed"}, call' = [call EXCEPT !.simulation = x]
  PROVE  /\ call' # Down /\ IsCall(call') /\ call'.at = call.at
         /\ call'.want = call.want /\ call'.metrics = call.metrics /\ call'.raw = call.raw
         /\ call'.reference = call.reference /\ call'.simulation = x
         /\ call'.drop = call.drop
  BY DEF IsCall, Down, Stages, Removing, Replaying

LEMMA RefreshFacts ==
  ASSUME IsCall(call), Refresh("done")
  PROVE  /\ call' # Down /\ IsCall(call')
         /\ call'.want = call.want /\ call'.metrics = call.metrics /\ call'.raw = call.raw
         /\ call'.reference = ResultReference(call.want) /\ call'.simulation = "done"
         /\ call'.drop = call.drop
         /\ \/ call'.at = "up"
            \/ /\ call'.at = "prune" /\ call.raw = "until_analyzed"
               /\ MetricProofs(call.metrics, ResultReference(call.want), metrics)
<1> DEFINE ref == ResultReference(call.want)
           next == React(MetricProofs(call.metrics, ref, metrics))
<1>1. call' = [call EXCEPT !.reference = ref, !.simulation = "done", !.at = next]
  BY DEF Refresh
<1>2. \/ next = "up"
      \/ /\ next = "prune" /\ call.raw = "until_analyzed"
         /\ MetricProofs(call.metrics, ref, metrics)
  BY DEF React
<1> HIDE DEF ref, next
<1>3. next \in Stages
  BY <1>2 DEF Stages
<1>4. /\ call' # Down /\ IsCall(call') /\ call'.at = next
      /\ call'.want = call.want /\ call'.metrics = call.metrics /\ call'.raw = call.raw
      /\ call'.reference = ref /\ call'.simulation = "done" /\ call'.drop = call.drop
  BY <1>1, <1>3 DEF IsCall, Down, Stages, Removing, Replaying
<1> QED BY <1>2, <1>4 DEF ref

LEMMA StartFacts ==
  ASSUME NEW n \in Budgets, NEW ms \in MetricSets, NEW raw \in RawRetention,
         NEW met \in MetricRetention, Start(n, ms, raw, met)
  PROVE  /\ ~Running /\ pc = "idle" /\ UNCHANGED <<vars, evidence, derived>>
         /\ call' # Down /\ IsCall(call') /\ call'.at = "up" /\ call'.want = n
         /\ call'.reference = ResultReference(n) /\ call'.simulation = "pending"
         /\ \A m \in call'.drop : <<m, ResultReference(n).revision>> \in aggregates
<1> DEFINE ref == ResultReference(n)
           consumed == {m \in ms : /\ ref # NoReference
                                   /\ <<m, ref.revision>> \in aggregates
                                   /\ <<m, ref.revision>> \in metrics}
           drop == IF met = "until_aggregated" THEN consumed ELSE {}
<1>1. /\ ~Running /\ pc = "idle" /\ UNCHANGED <<vars, evidence, derived>>
      /\ call' = [at |-> "up", want |-> n, metrics |-> ms, raw |-> raw, met |-> met,
                  reference |-> ref, simulation |-> "pending", drop |-> drop]
  BY DEF Start
<1>2. \A m \in drop : <<m, ref.revision>> \in aggregates
  OBVIOUS
<1> HIDE DEF drop, ref
<1>3. /\ call' # Down /\ IsCall(call') /\ call'.at = "up" /\ call'.want = n
      /\ call'.reference = ref /\ call'.simulation = "pending" /\ call'.drop = drop
  BY <1>1 DEF IsCall, Down, Stages
<1> QED BY <1>1, <1>2, <1>3 DEF ref

\* The steps that only move a call to another stage
Moving(from, to) ==
  Running /\ call.at = from /\ call' = [call EXCEPT !.at = to]

LEMMA MetricFacts ==
  ASSUME TInv, NEW m, ComputeMetric(m)
  PROVE  /\ Running /\ call.at = "up" /\ call.drop = {} /\ ~IsPruned /\ pc = "idle"
         /\ UNCHANGED <<vars, evidence, aggregates>>
         /\ metrics' = metrics \union {Key(m)}
         /\ Covering(call.want) # {}
         /\ FromCompletion(call.want).revision = call.reference.revision
         /\ \/ Moving("up", "up")
            \/ /\ Moving("up", "prune") /\ call.raw = "until_analyzed"
               /\ MetricProofs(call.metrics, call.reference, metrics')
<1>1. /\ Running /\ call.at = "up" /\ call.drop = {} /\ Retained
      /\ Loads(call.want, call.reference.revision)
      /\ UNCHANGED <<vars, evidence, aggregates>> /\ metrics' = metrics \union {Key(m)}
      /\ call' = [call EXCEPT !.at = React(MetricProofs(call.metrics, call.reference, metrics'))]
  BY DEF ComputeMetric, Free, Idle, ReadyMetrics, Shift
<1>2. pc = "idle"
  BY <1>1 DEF TInv, InvWorker
<1>3. CASE call.raw = "until_analyzed" /\ MetricProofs(call.metrics, call.reference, metrics')
  BY <1>1, <1>2, <1>3 DEF Loads, Moving, React
<1>4. CASE ~(call.raw = "until_analyzed" /\ MetricProofs(call.metrics, call.reference, metrics'))
  BY <1>1, <1>2, <1>4 DEF Loads, Moving, React
<1> QED BY <1>3, <1>4

\* The moves of the coordinator, apart from the one ComputeMetric makes
Moves ==
  \/ PublishReceipt /\ Moving("prune", "unlink")
  \/ KeepTrajectory /\ Moving("prune", "up")
  \/ ResumePruning /\ Moving("prune", "unlink")
  \/ SettleReferences /\ Moving("unlink", "discard")
  \/ PruningDone /\ Moving("discard", "up")
  \/ BeginRematerialize /\ Moving("up", "archive")
  \/ ArchiveReferences /\ Moving("archive", "reset")
  \/ ResetProgress /\ Moving("reset", "clear")
  \/ ClearReceipt /\ Moving("clear", "up")

\* Every step, by what it does to the call
LEMMA CallCases ==
  ASSUME TInv, TStepping
  PROVE  \/ call' = Down /\ pc' = "idle"
         \/ \E n \in Budgets, ms \in MetricSets, raw \in RawRetention, met \in MetricRetention :
              Start(n, ms, raw, met)
         \/ /\ Running /\ call.at = "up" /\ call.drop = {} /\ pc = "idle" /\ Refresh("done")
            /\ UNCHANGED <<vars, evidence, derived>>
         \/ /\ Running /\ call.at = "up" /\ pc = "idle"
            /\ call' = [call EXCEPT !.simulation = "failed"]
            /\ UNCHANGED <<vars, evidence, derived>>
         \/ Submit /\ Running /\ call.at = "up"
         \/ \E m : DropMetric(m) \/ ComputeAggregate(m) \/ ComputeMetric(m)
         \/ Moves
         \/ call' = call /\ (Worker \/ UNCHANGED <<progress, pc>>)
              /\ UNCHANGED <<evidence, derived>>
<1> USE DEF TInv
<1>1. CASE End
  <2>1. Running /\ call.simulation \in {"done", "failed"} /\ call' = Down /\ UNCHANGED pc
    BY <1>1 DEF End, NothingLeft, Free, Idle, vars
  <2>2. pc = "idle"
    BY <2>1 DEF InvWorker
  <2> QED BY <2>1, <2>2
<1>2. CASE Kill
  BY <1>2 DEF Kill, Crash, Forget, vars
<1>3. CASE SkipSimulation
  <2>1. Running /\ call.at = "up" /\ call.drop = {} /\ call.simulation = "pending"
        /\ Refresh("done") /\ UNCHANGED <<vars, evidence, derived>>
    BY <1>3 DEF SkipSimulation, Prepare, Free, Idle
  <2>2. pc = "idle"
    BY <2>1 DEF InvWorker
  <2> QED BY <2>1, <2>2
<1>4. CASE SimulationFinished
  BY <1>4 DEF SimulationFinished, Free, Idle
<1>5. CASE Submit
  BY <1>5 DEF Submit, Prepare, Free, Idle
<1>6. CASE Invoke \/ Derive
  BY <1>6 DEF Invoke, Derive
<1>7. CASE PublishReceipt \/ KeepTrajectory \/ ResumePruning \/ PruningDone
  BY <1>7 DEF PublishReceipt, KeepTrajectory, ResumePruning, PruningDone, Shift, Moves, Moving
<1>8. CASE ArchiveReferences \/ ClearReceipt \/ SettleReferences \/ ResetProgress
  BY <1>8 DEF ArchiveReferences, ClearReceipt, SettleReferences, ResetProgress, Shift, Moves,
              Moving
<1>9. CASE BeginRematerialize
  BY <1>9 DEF BeginRematerialize, Prepare, Free, Idle, Moves, Moving
<1>10. CASE Worker
  BY <1>10 DEF Worker
<1>11. ASSUME NEW f \in results, UnlinkChunk(f)
       PROVE  call' = call /\ UNCHANGED <<progress, pc>> /\ UNCHANGED <<evidence, derived>>
  BY <1>11 DEF UnlinkChunk
<1>12. ASSUME NEW g \in Generation, DiscardGeneration(g)
       PROVE  call' = call /\ UNCHANGED <<progress, pc>> /\ UNCHANGED <<evidence, derived>>
  BY <1>12 DEF DiscardGeneration
<1>13. CASE Still
  BY <1>13 DEF Still, tvars, vars, disk
<1> QED BY <1>1, <1>2, <1>3, <1>4, <1>5, <1>6, <1>7, <1>8, <1>9, <1>10, <1>11, <1>12, <1>13
        DEF TStepping, Looking, Storing

\* What each move knows and leaves of the other variables
LEMMA MoveFacts ==
  ASSUME TInv, Moves
  PROVE  /\ Running /\ IsCall(call) /\ pc = "idle" /\ pc' = "idle" /\ UNCHANGED derived
         /\ call' # Down /\ IsCall(call')
         /\ call'.want = call.want /\ call'.metrics = call.metrics /\ call'.raw = call.raw
         /\ call'.reference = call.reference /\ call'.simulation = call.simulation
         /\ call'.drop = call.drop /\ call'.at # "prune"
         /\ call'.at \in Removing \union Replaying => IsPruned'
         /\ call'.at \in {"reset", "clear"} => Proven(receipt') \subseteq Proven(history')
         /\ call'.at = "clear" => progress' = NoProgress
<1> USE DEF TInv, Moving, Removing, Replaying, vars, disk, evidence, IsPruned
<1>1. Running /\ IsCall(call) /\ call.at \in Stages
  BY CallShape DEF Moves
<1>2. ASSUME NEW from \in Stages, NEW to \in Stages, Moving(from, to)
      PROVE  /\ call' # Down /\ IsCall(call') /\ call'.at = to /\ call.at = from
             /\ call'.want = call.want /\ call'.metrics = call.metrics
             /\ call'.raw = call.raw /\ call'.reference = call.reference
             /\ call'.simulation = call.simulation /\ call'.drop = call.drop
  BY <1>1, <1>2, ShiftFacts
<1>3. pc = "idle"
  <2>1. call.at # "up" => pc = "idle"
    BY <1>1 DEF InvStage
  <2>2. BeginRematerialize => pc = "idle"
    BY DEF BeginRematerialize, InvReceipt
  <2> QED BY <2>1, <2>2 DEF Moves
<1>4. CASE PublishReceipt /\ Moving("prune", "unlink")
  BY <1>1, <1>2, <1>3, <1>4, PublishReceiptFacts DEF PublishReceipt, Stages
<1>5. CASE KeepTrajectory /\ Moving("prune", "up")
  BY <1>1, <1>2, <1>3, <1>5 DEF KeepTrajectory, Stages
<1>6. CASE ResumePruning /\ Moving("prune", "unlink")
  BY <1>1, <1>2, <1>3, <1>6 DEF ResumePruning, Stages
<1>7. CASE SettleReferences /\ Moving("unlink", "discard")
  BY <1>1, <1>2, <1>3, <1>7 DEF SettleReferences, Stages, InvStage
<1>8. CASE PruningDone /\ Moving("discard", "up")
  BY <1>1, <1>2, <1>3, <1>8 DEF PruningDone, Stages
<1>9. CASE BeginRematerialize /\ Moving("up", "archive")
  BY <1>1, <1>2, <1>3, <1>9 DEF BeginRematerialize, Stages
<1>10. CASE ArchiveReferences /\ Moving("archive", "reset")
  <2>1. history'.references = Merged /\ UNCHANGED <<vars, receipt, derived>> /\ call.at = "archive"
    BY <1>10 DEF ArchiveReferences
  <2>2. DOMAIN Merged = Proven(history) \union Proven(receipt)
    BY DEF Merged
  <2> QED BY <1>1, <1>2, <1>3, <1>10, <2>1, <2>2 DEF Stages, InvStage, Proven
<1>11. CASE ResetProgress /\ Moving("reset", "clear")
  BY <1>1, <1>2, <1>3, <1>11 DEF ResetProgress, Stages, InvStage, Proven
<1>12. CASE ClearReceipt /\ Moving("clear", "up")
  BY <1>1, <1>2, <1>3, <1>12 DEF ClearReceipt, Stages
<1> QED BY <1>4, <1>5, <1>6, <1>7, <1>8, <1>9, <1>10, <1>11, <1>12 DEF Moves

LEMMA InvStageStep ==
  ASSUME TInv, TStepping
  PROVE  InvStage'
<1> USE DEF TInv
<1>0. Running => IsCall(call) /\ call.at \in Stages
  BY CallShape
<1>1. CASE call' = Down /\ pc' = "idle"
  BY <1>1 DEF InvStage, Running
<1>2. ASSUME NEW n \in Budgets, NEW ms \in MetricSets, NEW raw \in RawRetention,
             NEW met \in MetricRetention, Start(n, ms, raw, met)
      PROVE  InvStage'
  BY <1>2, StartFacts DEF InvStage, Running, Removing, Replaying
<1>3. CASE /\ Running /\ call.at = "up" /\ call.drop = {} /\ pc = "idle" /\ Refresh("done")
           /\ UNCHANGED <<vars, evidence, derived>>
  BY <1>0, <1>3, RefreshFacts DEF InvStage, Running, Removing, Replaying, vars
<1>4. CASE /\ Running /\ call.at = "up" /\ pc = "idle"
           /\ call' = [call EXCEPT !.simulation = "failed"]
           /\ UNCHANGED <<vars, evidence, derived>>
  BY <1>0, <1>4, SimulationFacts DEF InvStage, Running, Removing, Replaying
<1>5. CASE Submit /\ Running /\ call.at = "up"
  BY <1>0, <1>5, SimulationFacts DEF InvStage, Running, Removing, Replaying, Submit
<1>6. ASSUME NEW m, DropMetric(m) PROVE InvStage'
  BY <1>0, <1>6, DropFacts DEF InvStage, Running, Removing, Replaying, DropMetric, Idle
<1>7. ASSUME NEW m, ComputeAggregate(m) PROVE InvStage'
  BY <1>0, <1>7, DropFacts DEF InvStage, Running, Removing, Replaying, ComputeAggregate, Free, Idle
<1>8. ASSUME NEW m, ComputeMetric(m) PROVE InvStage'
  BY <1>0, <1>8, MetricFacts, ShiftFacts
  DEF InvStage, Running, Removing, Replaying, Stages, Moving, vars
<1>9. CASE Moves
  BY <1>9, MoveFacts DEF InvStage, Running
<1>10. CASE /\ call' = call /\ (Worker \/ UNCHANGED <<progress, pc>>)
            /\ UNCHANGED <<evidence, derived>>
  <2>1. CASE UNCHANGED <<progress, pc>>
    BY <1>10, <2>1 DEF InvStage, Running, evidence, IsPruned, Proven
  <2>2. CASE Worker
    BY <1>10, <2>2 DEF InvStage, Running, Worker, Removing, Replaying
  <2> QED BY <1>10, <2>1, <2>2
<1> QED BY <1>1, <1>2, <1>3, <1>4, <1>5, <1>6, <1>7, <1>8, <1>9, <1>10, CallCases

\* A reference read now is of the completion on disk, unless that was removed.
LEMMA ReferenceFacts ==
  ASSUME NEW n
  PROVE  /\ ~IsPruned /\ Covering(n) # {} => ResultReference(n) = FromCompletion(n)
         /\ ResultReference(n).trajectory = "retained" => ~IsPruned /\ Covering(n) # {}
<1>1. \A proof : FromProof(proof, n).trajectory \in {"pruned", "none"}
  BY DEF FromProof, Reference, NoReference
<1>2. CASE IsPruned /\ n \in Proven(receipt)
  BY <1>1, <1>2 DEF ResultReference
<1>3. CASE ~IsPruned /\ Covering(n) # {}
  BY <1>3 DEF ResultReference
<1>4. CASE ~(IsPruned /\ n \in Proven(receipt)) /\ ~(~IsPruned /\ Covering(n) # {})
  BY <1>1, <1>4 DEF ResultReference
<1> QED BY <1>2, <1>3, <1>4

LEMMA InvProofsStep ==
  ASSUME TInv, TStepping
  PROVE  InvProofs'
<1> USE DEF TInv
<1>0. Running => IsCall(call) /\ call.at \in Stages
  BY CallShape
<1> DEFINE DropsProven == \A m \in call.drop : Key(m) \in aggregates
           PruneProven == call.at = "prune" =>
             /\ call.raw = "until_analyzed"
             /\ MetricProofs(call.metrics, call.reference, metrics)
             /\ ~IsPruned /\ Covering(call.want) # {} =>
                  call.reference.revision = FromCompletion(call.want).revision
<1>00. InvProofs' <=> (call' # Down => DropsProven' /\ PruneProven')
  BY DEF InvProofs, Running
<1>01. Running => DropsProven
  BY DEF InvProofs
<1>02. ASSUME Running, call'.drop \subseteq call.drop, call'.reference = call.reference,
              aggregates \subseteq aggregates'
       PROVE  DropsProven'
  BY <1>01, <1>02 DEF Key
<1> HIDE DEF DropsProven
<1>1. CASE call' = Down /\ pc' = "idle"
  BY <1>00, <1>1
<1>2. ASSUME NEW n \in Budgets, NEW ms \in MetricSets, NEW raw \in RawRetention,
             NEW met \in MetricRetention, Start(n, ms, raw, met)
      PROVE  InvProofs'
  <2>1. DropsProven'
    BY <1>2, StartFacts DEF DropsProven, Key, derived
  <2> QED BY <1>00, <1>2, <2>1, StartFacts
<1>3. CASE /\ Running /\ call.at = "up" /\ call.drop = {} /\ pc = "idle" /\ Refresh("done")
           /\ UNCHANGED <<vars, evidence, derived>>
  <2> PICK w, ref : w = call.want /\ ref = ResultReference(w)
    OBVIOUS
  <2>1. /\ call'.want = w /\ call'.reference = ref /\ call'.metrics = call.metrics
        /\ call'.raw = call.raw /\ call'.drop = {}
        /\ \/ call'.at = "up"
           \/ /\ call'.at = "prune" /\ call.raw = "until_analyzed"
              /\ MetricProofs(call.metrics, ref, metrics)
    BY <1>0, <1>3, RefreshFacts
  <2>2. UNCHANGED <<progress, receipt, metrics>>
    BY <1>3 DEF vars, disk, evidence, derived
  <2>3. (IsPruned' <=> IsPruned) /\ Covering(w)' = Covering(w)
        /\ FromCompletion(w)' = FromCompletion(w)
    BY <2>2, SameReference DEF IsPruned
  <2>4. ~IsPruned /\ Covering(w) # {} => ref = FromCompletion(w)
    BY ReferenceFacts
  <2>5. DropsProven'
    BY <2>1 DEF DropsProven
  <2>6. MetricProofs(call.metrics, ref, metrics) =>
          MetricProofs(call'.metrics, call'.reference, metrics')
    BY <2>1, <2>2 DEF MetricProofs
  <2>7. PruneProven'
    BY <2>1, <2>3, <2>4, <2>6
  <2> QED BY <1>00, <2>5, <2>7
<1>4. CASE /\ Running /\ call.at = "up" /\ pc = "idle"
           /\ call' = [call EXCEPT !.simulation = "failed"]
           /\ UNCHANGED <<vars, evidence, derived>>
  <2>1. /\ call'.at = "up" /\ call'.drop = call.drop /\ call'.reference = call.reference
        /\ aggregates' = aggregates
    BY <1>0, <1>4, SimulationFacts DEF derived
  <2> QED BY <1>00, <1>02, <1>4, <2>1
<1>5. CASE Submit /\ Running /\ call.at = "up"
  <2>1. /\ call'.at = "up" /\ call'.drop = call.drop /\ call'.reference = call.reference
        /\ aggregates' = aggregates
    BY <1>0, <1>5, SimulationFacts DEF derived, Submit
  <2> QED BY <1>00, <1>02, <1>5, <2>1
<1>6. ASSUME NEW m, DropMetric(m) PROVE InvProofs'
  <2>1. /\ Running /\ call'.at = "up" /\ call'.drop \subseteq call.drop
        /\ call'.reference = call.reference /\ aggregates' = aggregates
    BY <1>0, <1>6, DropFacts DEF DropMetric, Idle
  <2> QED BY <1>00, <1>02, <2>1
<1>7. ASSUME NEW m, ComputeAggregate(m) PROVE InvProofs'
  <2> DEFINE drop == IF call.met = "until_aggregated" THEN {m} ELSE {}
  <2>1. /\ Running /\ call.at = "up" /\ call' = [call EXCEPT !.drop = drop]
        /\ aggregates' = aggregates \union {Key(m)}
    BY <1>7 DEF ComputeAggregate, Free, Idle
  <2>2. drop \subseteq {m}
    OBVIOUS
  <2> HIDE DEF drop
  <2>3. call'.at = "up" /\ call'.drop = drop /\ call'.reference = call.reference
    BY <1>0, <2>1, DropFacts
  <2>4. DropsProven'
    BY <2>1, <2>2, <2>3 DEF DropsProven, Key
  <2> QED BY <1>00, <2>3, <2>4
<1>8. ASSUME NEW m, ComputeMetric(m) PROVE InvProofs'
  <2>1. Running /\ IsCall(call) /\ call'.drop = call.drop /\ call'.reference = call.reference
        /\ call'.want = call.want /\ call'.metrics = call.metrics /\ call'.raw = call.raw
        /\ UNCHANGED <<progress, receipt, aggregates>>
    BY <1>0, <1>8, MetricFacts, ShiftFacts DEF Moving, Stages, vars, disk, evidence
  <2>2. \/ call'.at = "up"
        \/ call.raw = "until_analyzed" /\ MetricProofs(call.metrics, call.reference, metrics')
    BY <1>0, <1>8, MetricFacts, ShiftFacts DEF Moving, Stages
  <2>3. DropsProven'
    BY <1>02, <2>1
  <2>4. MetricProofs(call.metrics, call.reference, metrics')
          => MetricProofs(call'.metrics, call'.reference, metrics')
    BY <2>1
  <2> PICK w : w = call.want
    OBVIOUS
  <2>5. FromCompletion(w)' = FromCompletion(w)
        /\ FromCompletion(w).revision = call.reference.revision
    BY <1>8, <2>1, MetricFacts, SameReference
  <2>6. PruneProven'
    BY <2>1, <2>2, <2>4, <2>5
  <2> QED BY <1>00, <2>3, <2>6
<1>9. CASE Moves
  <2>1. /\ Running /\ call'.at # "prune" /\ call'.drop = call.drop
        /\ call'.reference = call.reference /\ aggregates' = aggregates
    BY <1>9, MoveFacts DEF derived
  <2> QED BY <1>00, <1>02, <2>1
<1>10. CASE /\ call' = call /\ (Worker \/ UNCHANGED <<progress, pc>>)
            /\ UNCHANGED <<evidence, derived>>
  <2>1. CASE UNCHANGED <<progress, pc>>
    <3> PICK w : w = call.want
      OBVIOUS
    <3>1. Covering(w)' = Covering(w) /\ FromCompletion(w)' = FromCompletion(w)
          /\ (IsPruned' <=> IsPruned)
      BY <1>10, <2>1, SameReference DEF IsPruned, evidence
    <3>2. Running => DropsProven'
      BY <1>02, <1>10 DEF derived
    <3>3. Running => PruneProven
      BY DEF InvProofs
    <3>4. Running => PruneProven'
      BY <1>10, <3>1, <3>3 DEF derived, MetricProofs
    <3> QED BY <1>00, <1>10, <3>2, <3>4 DEF Running
  <2>2. CASE Worker
    <3>1. Running /\ pc # "idle"
      BY <2>2 DEF Worker
    <3>2. call.at # "prune"
      BY <3>1 DEF InvStage
    <3> QED BY <1>00, <1>02, <1>10, <3>1, <3>2 DEF derived
  <2> QED BY <1>10, <2>1, <2>2
<1> QED BY <1>1, <1>2, <1>3, <1>4, <1>5, <1>6, <1>7, <1>8, <1>9, <1>10, CallCases

LEMMA InvWorkerStep ==
  ASSUME TInv, TStepping
  PROVE  InvWorker'
<1> USE DEF TInv
<1>0. Running => IsCall(call) /\ call.at \in Stages
  BY CallShape
<1> DEFINE Lone == pc # "idle" => call.simulation = "running" /\ ~Retained
           Pending == call.simulation = "pending" /\ Retained =>
             IF IsPruned THEN call.raw = "until_analyzed" /\ call.at \notin Replaying
                         ELSE Covering(call.want) # {}
<1>00. /\ InvWorker' <=> (call' # Down => Lone' /\ Pending')
       /\ Running => Lone /\ Pending
  BY DEF InvWorker, Running
<1>1. CASE call' = Down /\ pc' = "idle"
  BY <1>00, <1>1
<1>2. ASSUME NEW n \in Budgets, NEW ms \in MetricSets, NEW raw \in RawRetention,
             NEW met \in MetricRetention, Start(n, ms, raw, met)
      PROVE  InvWorker'
  <2>1. /\ pc' = "idle" /\ call'.want = n /\ call'.reference = ResultReference(n)
        /\ UNCHANGED <<progress, receipt>>
    BY <1>2, StartFacts DEF vars, disk, evidence
  <2>2. Covering(n)' = Covering(n) /\ (IsPruned' <=> IsPruned)
    BY <2>1, SameReference DEF IsPruned
  <2>3. Retained' => ~IsPruned /\ Covering(n) # {}
    BY <2>1, ReferenceFacts DEF Retained
  <2> QED BY <1>00, <2>1, <2>2, <2>3
<1>3. CASE /\ Running /\ call.at = "up" /\ call.drop = {} /\ pc = "idle" /\ Refresh("done")
           /\ UNCHANGED <<vars, evidence, derived>>
  <2>1. pc' = "idle" /\ call'.simulation = "done"
    BY <1>0, <1>3, RefreshFacts DEF vars
  <2> QED BY <1>00, <2>1
<1>4. CASE /\ Running /\ call.at = "up" /\ pc = "idle"
           /\ call' = [call EXCEPT !.simulation = "failed"]
           /\ UNCHANGED <<vars, evidence, derived>>
  <2>1. pc' = "idle" /\ call'.simulation = "failed"
    BY <1>0, <1>4, SimulationFacts DEF vars
  <2> QED BY <1>00, <2>1
<1>5. CASE Submit /\ Running /\ call.at = "up"
  <2>1. /\ call.simulation = "pending" /\ ~IsPruned
        /\ Reuse(call.want) \/ Open(call.want) \/ RejectCompletion(call.want)
    BY <1>5 DEF Submit, Prepare
  <2>2. ~RejectCompletion(call.want)
    BY <2>1, NeverRejected
  <2>3. call'.simulation = "running" /\ call'.reference = call.reference
    BY <1>0, <1>5, SimulationFacts DEF Submit
  <2>4. CASE Reuse(call.want)
    BY <1>00, <2>3, <2>4 DEF Reuse
  <2>5. CASE Open(call.want)
    <3>1. ~Retained
      BY <1>00, <1>5, <2>1, <2>5 DEF Open
    <3> QED BY <1>00, <2>3, <3>1 DEF Retained
  <2> QED BY <2>1, <2>2, <2>4, <2>5
<1>6. ASSUME NEW m, NEW x, Running, call' = [call EXCEPT !.drop = x],
             UNCHANGED <<vars, evidence>>
      PROVE  InvWorker'
  <2>1. /\ call'.simulation = call.simulation /\ call'.reference = call.reference
        /\ call'.want = call.want /\ call'.raw = call.raw /\ call'.at = call.at
    BY <1>0, <1>6, DropFacts
  <2>2. UNCHANGED <<pc, progress, receipt>>
    BY <1>6 DEF vars, disk, evidence
  <2> PICK w : w = call.want
    OBVIOUS
  <2>3. Covering(w)' = Covering(w) /\ (IsPruned' <=> IsPruned)
    BY <2>2, SameReference DEF IsPruned
  <2> QED BY <1>00, <1>6, <2>1, <2>2, <2>3 DEF Retained
<1>7. ASSUME NEW m, DropMetric(m) \/ ComputeAggregate(m) PROVE InvWorker'
  BY <1>6, <1>7 DEF DropMetric, ComputeAggregate, Free, Idle
<1>8. ASSUME NEW m, ComputeMetric(m) PROVE InvWorker'
  <2>1. /\ call'.reference = call.reference /\ call'.want = call.want
        /\ UNCHANGED <<progress, receipt, pc>> /\ pc = "idle" /\ ~IsPruned
    BY <1>0, <1>8, MetricFacts, ShiftFacts DEF Moving, Stages, vars, disk, evidence
  <2> PICK w : w = call.want
    OBVIOUS
  <2>2. Covering(w)' = Covering(w) /\ Covering(w) # {} /\ ~IsPruned'
    BY <1>8, <2>1, MetricFacts, SameReference DEF IsPruned
  <2> QED BY <1>00, <2>1, <2>2
<1>9. CASE Moves
  <2>1. /\ Running /\ pc' = "idle" /\ call'.simulation = call.simulation
        /\ call'.reference = call.reference /\ call'.want = call.want
        /\ call'.raw = call.raw
    BY <1>9, MoveFacts
  <2> PICK w : w = call.want
    OBVIOUS
  <2>2. SUFFICES ASSUME call.simulation = "pending", Retained
                 PROVE  IF IsPruned' THEN call.raw = "until_analyzed" /\ call'.at \notin Replaying
                                     ELSE Covering(w)' # {}
    BY <1>00, <2>1 DEF Retained
  <2>3. call.at \notin Replaying
    BY <1>00, <2>1, <2>2 DEF InvStage
  <2>4. CASE PublishReceipt /\ Moving("prune", "unlink")
    BY <1>0, <2>1, <2>4, PublishReceiptFacts, ShiftFacts DEF Moving, Stages, Removing, Replaying
  <2>5. CASE BeginRematerialize
    <3>1. IsPruned /\ (call.raw = "keep" \/ MissingRaw # {})
      BY <2>5 DEF BeginRematerialize, NeedsRematerialization
    <3>2. MissingRaw = {}
      BY <2>2 DEF MissingRaw
    <3>3. call.raw = "until_analyzed"
      BY <1>00, <2>1, <2>2, <3>1
    <3> QED BY <3>1, <3>2, <3>3
  <2>6. CASE \/ KeepTrajectory /\ Moving("prune", "up")
             \/ ResumePruning /\ Moving("prune", "unlink")
             \/ PruningDone /\ Moving("discard", "up")
    <3>1. UNCHANGED <<progress, receipt>> /\ call'.at \notin Replaying
      BY <1>0, <2>6, ShiftFacts
      DEF KeepTrajectory, ResumePruning, PruningDone, Moving, Stages, Removing, Replaying,
          vars, disk, evidence
    <3>2. Covering(w)' = Covering(w) /\ (IsPruned' <=> IsPruned)
      BY <3>1, SameReference DEF IsPruned
    <3> QED BY <1>00, <2>1, <2>2, <3>1, <3>2
  <2>7. CASE SettleReferences /\ Moving("unlink", "discard")
    <3>1. IsPruned /\ receipt' = receipt
      BY <2>7 DEF SettleReferences, InvStage, Removing, Replaying, evidence
    <3>2. call'.at = "discard"
      BY <1>0, <2>7, ShiftFacts DEF Moving, Stages, Removing
    <3> QED BY <1>00, <2>1, <2>2, <3>1, <3>2 DEF Replaying, IsPruned
  <2> QED BY <2>3, <2>4, <2>5, <2>6, <2>7, <1>9 DEF Moves, Moving, Replaying
<1>10. CASE /\ call' = call /\ (Worker \/ UNCHANGED <<progress, pc>>)
            /\ UNCHANGED <<evidence, derived>>
  <2>1. CASE UNCHANGED <<progress, pc>>
    <3> PICK w : w = call.want
      OBVIOUS
    <3>1. Covering(w)' = Covering(w) /\ (IsPruned' <=> IsPruned)
      BY <1>10, <2>1, SameReference DEF IsPruned, evidence
    <3> QED BY <1>00, <1>10, <2>1, <3>1 DEF Retained, Running
  <2>2. CASE Worker
    BY <1>00, <1>10, <2>2 DEF Worker, Retained
  <2> QED BY <1>10, <2>1, <2>2
<1> QED BY <1>1, <1>2, <1>3, <1>4, <1>5, <1>7, <1>8, <1>9, <1>10, CallCases
-----------------------------------------------------------------------------
(* The theorems *)

LEMMA TInvInit == TInit => TInv
<1> SUFFICES ASSUME TInit PROVE TInv
  OBVIOUS
<1>1. Init /\ receipt = NoProof /\ call = Down
  BY DEF TInit
<1>2. IInv /\ pc = "idle" /\ progress = NoProgress /\ results = {}
  BY <1>1, IInvInit DEF Init
<1>3. InvFiles
  BY <1>2 DEF InvFiles
<1>4. InvReceipt /\ InvStage /\ InvProofs /\ InvWorker
  BY <1>1, <1>2 DEF InvReceipt, IsPruned, InvStage, InvProofs, InvWorker, Running
<1>5. InvRetained /\ InvStatus
  BY <1>2, <1>3, FreshRun DEF InvRetained, InvStatus, NoProgress
<1> QED BY <1>2, <1>3, <1>4, <1>5 DEF TInv

LEMMA TInvNext ==
  ASSUME NoRot, TInv, [TNext]_tvars
  PROVE  TInv'
<1>1. TStepping
  BY TNextIsStepping
<1>2. IInv' /\ InvFiles' /\ InvStatus' /\ InvReceipt' /\ InvRetained'
  BY <1>1, DiskStep, InvReceiptStep, InvRetainedStep
<1>3. InvStage' /\ InvProofs' /\ InvWorker'
  BY <1>1, InvStageStep, InvProofsStep, InvWorkerStep
<1> QED BY <1>2, <1>3 DEF TInv

LEMMA TInvariance ==
  ASSUME NoRot
  PROVE  TSpec => []TInv
<1>1. TInv /\ [TNext]_tvars => TInv'
  BY TInvNext
<1> QED BY <1>1, TInvInit, PTL DEF TSpec

\* An observation a completed prefix names is missing only behind a receipt
\* that proves that very revision, wherever a prune or a replay was interrupted.
THEOREM RemovalIsProven ==
  ASSUME NoRot
  PROVE  TSpec => []DeletionIsProven
<1>1. TInv => DeletionIsProven
  BY DEF TInv, InvReceipt, InvRetained, RInv, CompletedReadable, DeletionIsProven
<1> QED BY <1>1, TInvariance, PTL

\* Each metric a receipt rests on stays durable, itself or in the aggregate that
\* consumed it, for as long as the receipt says that the run is gone.
THEOREM RemovalWaitsForAnalysis ==
  ASSUME NoRot
  PROVE  TSpec => []AnalyzedBeforeRemoval
<1>1. TInit => AnalyzedBeforeRemoval
  BY DEF TInit, AnalyzedBeforeRemoval, IsPruned
<1>2. ASSUME TInv, AnalyzedBeforeRemoval, TStepping PROVE AnalyzedBeforeRemoval'
  <2>1. CASE PublishReceipt
    <3>1. /\ receipt'.latest = call.want /\ receipt'.metrics = call.metrics
          /\ \A m \in call.metrics : <<m, receipt'.references[call.want]>> \in metrics
          /\ metrics' = metrics
      BY <1>2, <2>1, PublishReceiptFacts DEF PublishReceipt, derived
    <3> QED BY <3>1 DEF AnalyzedBeforeRemoval
  <2>2. CASE ClearReceipt
    BY <2>2 DEF ClearReceipt, AnalyzedBeforeRemoval, IsPruned
  <2>3. CASE receipt' = receipt
    <3>1. ASSUME aggregates \subseteq aggregates', metrics \subseteq metrics' \union aggregates'
          PROVE  AnalyzedBeforeRemoval'
      BY <1>2, <2>3, <3>1 DEF AnalyzedBeforeRemoval, IsPruned
    <3>2. ASSUME NEW m, DropMetric(m)
          PROVE  aggregates \subseteq aggregates' /\ metrics \subseteq metrics' \union aggregates'
      <4>1. Running /\ m \in call.drop /\ metrics' = metrics \ {Key(m)} /\ aggregates' = aggregates
        BY <3>2 DEF DropMetric, Idle
      <4>2. Key(m) \in aggregates
        BY <1>2, <4>1 DEF TInv, InvProofs
      <4> QED BY <4>1, <4>2
    <3>3. ASSUME NEW m, ComputeMetric(m) \/ ComputeAggregate(m)
          PROVE  aggregates \subseteq aggregates' /\ metrics \subseteq metrics' \union aggregates'
      BY <3>3 DEF ComputeMetric, ComputeAggregate
    <3>4. UNCHANGED derived \/ \E m : DropMetric(m) \/ ComputeMetric(m) \/ ComputeAggregate(m)
      BY <1>2 DEF TStepping, Storing, Looking, Still, Invoke, Start, SkipSimulation,
           BeginRematerialize, SimulationFinished, End, Derive, PublishReceipt, KeepTrajectory,
           ResumePruning, PruningDone, ArchiveReferences, ClearReceipt, UnlinkChunk,
           SettleReferences, DiscardGeneration, ResetProgress, Submit, Worker, Kill, tvars
    <3>5. UNCHANGED derived => aggregates' = aggregates /\ metrics' = metrics
      BY DEF derived
    <3> QED BY <3>1, <3>2, <3>3, <3>4, <3>5
  <2> QED BY <1>2, <2>1, <2>2, <2>3, ReceiptFrame
<1>3. TInv /\ AnalyzedBeforeRemoval /\ [TNext]_tvars => AnalyzedBeforeRemoval'
  BY <1>2, TNextIsStepping
<1> QED BY <1>1, <1>3, TInvariance, PTL DEF TSpec

\* While no decoder fails, a session that opens finds a checkpoint to restore.
LEMMA NeverFailsToRestore ==
  ASSUME RInv, "decode" \notin Faults
  PROVE  ~RestoreFails
<1> SUFFICES ASSUME RestoreFails PROVE FALSE
  OBVIOUS
<1>1. pc = "opened" /\ mem = progress /\ Undecodable = {{}}
  BY DEF RestoreFails, RInv, IInv, InvMem, Undecodable
<1>2. PICK order \in LongestFirst(progress) :
        LET entries == Entries(progress, order)
            usable == {i \in 1..Len(entries) : Valid(entries[i]) /\ entries[i] \notin {}}
        IN \/ usable = {} /\ ({} # {} \/ ~CoversCompleted(0))
           \/ \E i \in usable :
                /\ \A j \in usable : i <= j
                /\ ~CoversCompleted(generations[entries[i]].step)
  BY <1>1 DEF RestoreFails
<1> DEFINE E == Entries(progress, order)
<1>3. /\ \A k \in 1..Len(E) : E[k] \in Referenced(progress)
      /\ Referenced(progress) = {} => Completed(progress) = {}
      /\ Referenced(progress) # {} => \E k \in 1..Len(E) : Valid(E[k])
      /\ \A i \in 1..Len(E) :
           Valid(E[i]) /\ (\A j \in 1..Len(E) : Valid(E[j]) => i <= j) => CoversAll(E[i])
  BY FirstValidCovers
<1>4. \A n : CoversCompleted(n) <=> Covers(n, Completed(progress))
  BY <1>1 DEF CoversCompleted, Covers
<1>5. CASE \A i \in 1..Len(E) : ~Valid(E[i])
  <2>1. Completed(progress) = {}
    BY <1>3, <1>5
  <2>2. CoversCompleted(0)
    BY <1>4, <2>1 DEF Covers
  <2> QED BY <1>2, <1>5, <2>2
<1>6. CASE \E i \in 1..Len(E) : /\ Valid(E[i])
                                /\ \A j \in 1..Len(E) : Valid(E[j]) => i <= j
                                /\ ~CoversCompleted(generations[E[i]].step)
  <2>1. PICK i \in 1..Len(E) : CoversAll(E[i]) /\ ~CoversCompleted(generations[E[i]].step)
    BY <1>3, <1>6
  <2> QED BY <1>4, <2>1 DEF CoversAll
<1> QED BY <1>2, <1>5, <1>6

\* No session ever rejects a completion, and none fails to restore, because
\* of what was removed on purpose.
THEOREM RemovalLooksIntended ==
  ASSUME NoRot, "decode" \notin Faults
  PROVE  TSpec => RemovalIsNotDamage
<1>1. ASSUME TInv, TStepping
      PROVE  ~RestoreFails /\ \A n \in Budgets : ~RejectCompletion(n)
  <2>1. CASE IsPruned
    <3>1. pc = "idle"
      BY <1>1, <2>1 DEF TInv, InvReceipt
    <3>2. pc' = "idle"
      <4>1. CASE Storing
        BY <1>1, <3>1, <4>1, StoringFacts
      <4>2. CASE ~Storing
        BY <1>1, <2>1, <3>1, <4>2, RunSteps DEF vars
      <4> QED BY <4>1, <4>2
    <3> QED BY <3>1, <3>2 DEF RestoreFails, RejectCompletion
  <2>2. CASE ~IsPruned
    BY <1>1, <2>2, NeverFailsToRestore, NeverRejected DEF TInv, InvRetained
  <2> QED BY <2>1, <2>2
<1>2. TInv /\ [TNext]_tvars
        => [~RestoreFails /\ \A n \in Budgets : ~RejectCompletion(n)]_tvars
  BY <1>1, TNextIsStepping
<1> QED BY <1>2, TInvariance, PTL DEF TSpec, RemovalIsNotDamage

\* The budgets whose evidence is kept
Evidence == Completed(progress) \union Proven(receipt) \union Proven(history)
EvidenceRefers == \A n \in Budgets : n \in Evidence => ResultReference(n) # NoReference

\* What has evidence has a reference.
LEMMA EvidenceIsReferenced ==
  ASSUME TInv
  PROVE  EvidenceRefers
<1> SUFFICES ASSUME NEW n \in Budgets, n \in Evidence PROVE ResultReference(n) # NoReference
  BY DEF EvidenceRefers
<1>1. \A proof : n \in Proven(proof) => FromProof(proof, n) # NoReference
  BY DEF FromProof, Reference, NoReference
<1>2. FromCompletion(n) # NoReference
  BY DEF FromCompletion, Reference, NoReference
<1>3. CASE IsPruned
  <2>1. n \in Proven(receipt) \/ n \in Proven(history)
    BY <1>3 DEF TInv, InvReceipt, Evidence
  <2> QED BY <1>1, <1>3, <2>1 DEF ResultReference
<1>4. CASE ~IsPruned
  <2>1. Proven(receipt) = {}
    BY <1>4 DEF IsPruned, NoProof, Proven
  <2>2. n \in Completed(progress) => n \in Covering(n)
    BY DEF Covering, TInv, IInv, TypeOK, Progress
  <2>3. Covering(n) # {} \/ n \in Proven(history)
    BY <2>1, <2>2 DEF Evidence
  <2> QED BY <1>1, <1>2, <1>4, <2>3 DEF ResultReference
<1> QED BY <1>3, <1>4

\* No step takes evidence away.
LEMMA EvidenceStep ==
  ASSUME TInv, TStepping
  PROVE  Evidence \subseteq Evidence'
<1>1. CASE Storing
  <2>1. UNCHANGED <<receipt, history>> /\ IsPruned
    BY <1>1, StoringFacts DEF evidence
  <2>2. Completed(progress) \subseteq Proven(receipt)
    BY <2>1 DEF TInv, InvReceipt
  <2> QED BY <2>1, <2>2 DEF Evidence, Proven
<1>2. CASE ~Storing
  <2>1. Completed(progress) \subseteq Completed(progress)'
    <3>1. CASE IsPruned
      BY <1>2, <3>1, RunSteps DEF Completed, vars, disk
    <3>2. CASE ~IsPruned
      <4>1. RInv /\ Stepping
        BY <1>2, <3>2, RunSteps, IInvNext DEF TInv, InvRetained
      <4>2. CASE Finish
        BY <4>1, <4>2, FinishFacts DEF RInv, Completed
      <4>3. CASE ~Finish
        BY <4>1, <4>3, DoneStays DEF Completed
      <4> QED BY <4>2, <4>3
    <3> QED BY <3>1, <3>2
  <2>2. CASE PublishReceipt
    <3>1. history' = history /\ ~IsPruned
      BY <2>2 DEF PublishReceipt
    <3>2. Proven(receipt) = {}
      BY <3>1 DEF IsPruned, NoProof, Proven
    <3> QED BY <2>1, <3>1, <3>2 DEF Evidence, Proven
  <2>3. CASE ClearReceipt
    <3>1. history' = history /\ Proven(receipt) \subseteq Proven(history)
      BY <2>3 DEF ClearReceipt, TInv, InvStage
    <3> QED BY <2>1, <3>1 DEF Evidence, Proven
  <2>4. CASE ArchiveReferences
    <3>1. history'.references = Merged /\ receipt' = receipt
      BY <2>4 DEF ArchiveReferences
    <3>2. DOMAIN Merged = Proven(history) \union Proven(receipt)
      BY DEF Merged
    <3> QED BY <2>1, <3>1, <3>2 DEF Evidence, Proven
  <2>5. CASE UNCHANGED evidence
    BY <2>1, <2>5 DEF Evidence, Proven, evidence
  <2>6. UNCHANGED evidence \/ PublishReceipt \/ ClearReceipt \/ ArchiveReferences
    BY <1>2 DEF TStepping, Looking, Still, Invoke, Start, SkipSimulation,
         BeginRematerialize, SimulationFinished, End, Derive, DropMetric, ComputeMetric,
         ComputeAggregate, KeepTrajectory, ResumePruning, PruningDone, Submit, Worker, Kill,
         tvars
  <2> QED BY <2>2, <2>3, <2>4, <2>5, <2>6
<1> QED BY <1>1, <1>2

\* A budget that was ever completed keeps a revision that proves what was
\* derived from it, through every removal, replay and kill.
THEOREM EvidenceRemains ==
  ASSUME NoRot
  PROVE  TSpec => EvidenceIsKept
<1>1. TInv => EvidenceRefers
  BY EvidenceIsReferenced
<1>2. ASSUME EvidenceRefers', Evidence \subseteq Evidence'
      PROVE  \A n \in Budgets :
               n \in Completed(progress) \union Proven(receipt) \union Proven(history)
                 => ResultReference(n)' # NoReference
  BY <1>2 DEF EvidenceRefers, Evidence
<1>3. TInv /\ TInv' /\ EvidenceRefers' /\ [TNext]_tvars
        => [\A n \in Budgets :
              n \in Completed(progress) \union Proven(receipt) \union Proven(history)
                => ResultReference(n)' # NoReference]_tvars
  BY <1>2, EvidenceStep, TNextIsStepping
<1> QED BY <1>1, <1>3, TInvariance, PTL DEF TSpec, EvidenceIsKept
=============================================================================
