----------------------------- MODULE Trajectory -----------------------------
(***************************************************************************)
(* What successive invocations of the pipeline do to one retained variant  *)
(* once raw observations may be removed deliberately                       *)
(* (storage/trajectories.py, with the parts of execution/scheduler.py and  *)
(* analysis/graph.py that decide on it): a completed run is analysed, its  *)
(* chunks and checkpoints are removed behind a durable receipt, and a      *)
(* later request that needs the observations again replays the run.        *)
(*                                                                         *)
(* The worker session is RunStore, unchanged.  The coordinator's durable   *)
(* publications are actions of their own, and Kill may fall between any    *)
(* two of them; it takes the worker along.  The aggregation group is this  *)
(* one run.  A derivation's publication and the coordinator's reaction to  *)
(* it are one action.                                                      *)
(***************************************************************************)
EXTENDS RunStore

CONSTANTS
  MetricSets,        \* the metric configurations successive requests may have
  RawRetention,      \* recording.retention of successive requests
  MetricRetention,   \* recording.metric_retention of successive requests
  Interruptions      \* bound: what may interrupt a worker besides Kill

ASSUME MetricSetsAssumption == MetricSets # {} /\ {} \notin MetricSets
ASSUME RetentionAssumption ==
  /\ RawRetention \subseteq {"keep", "until_analyzed"}
  /\ MetricRetention \subseteq {"keep", "until_aggregated"}
  /\ Interruptions \subseteq {"pause", "raise"}

VARIABLES
  receipt,     \* trajectory.json: the raw observations are deliberately gone
  history,     \* trajectory-history.json: proofs that outlive a replay
  metrics,     \* durable metric generations: <<metric, revision>>
  aggregates,  \* durable aggregate generations: <<metric, revision>>
  call         \* the running invocation: its request and the coordinator

evidence == <<receipt, history>>
derived == <<metrics, aggregates>>
tvars == <<vars, evidence, derived, call>>

-----------------------------------------------------------------------------
(* Revisions and the evidence for them *)

NoProof == [latest |-> 0, references |-> [n \in {} |-> <<>>], metrics |-> {}]
Proven(proof) == DOMAIN proof.references
IsPruned == receipt # NoProof

\* The chunks of a manifest that hold rows of its first n steps; with n they
\* determine which rows a reader of n steps uses.
Used(manifest, n) ==
  LET used == {i \in 1..Len(manifest) : \E r \in manifest[i] : r[1] <= n}
  IN SubSeq(manifest, 1, Cardinality(used))
Revision(manifest, n) == <<n, Used(manifest, n)>>

NoReference == [trajectory |-> "none"]
Reference(kind, revision) == [trajectory |-> kind, revision |-> revision]
FromProof(proof, n) ==
  IF n \in Proven(proof) THEN Reference("pruned", proof.references[n]) ELSE NoReference
FromCompletion(n) ==
  LET s == CHOOSE s \in Covering(n) : Shortest(n, s)
  IN Reference("retained", Revision(progress.completed[s].results, n))

\* A receipt speaks for the whole variant, a completion that covers the budget
\* comes before the history of earlier lives.
ResultReference(n) ==
  CASE IsPruned /\ n \in Proven(receipt) -> FromProof(receipt, n)
    [] ~IsPruned /\ Covering(n) # {}     -> FromCompletion(n)
    [] OTHER                             -> FromProof(history, n)

\* load_run_result gives the observations of exactly this revision.
Loads(n, revision) ==
  /\ ~IsPruned /\ Covering(n) # {}
  /\ FromCompletion(n).revision = revision
  /\ \A i \in 1..Len(revision[2]) : <<i, revision[2][i]>> \in results

-----------------------------------------------------------------------------
(* The invocation *)

Down == [at |-> "down"]
Running == call # Down
Idle == Running /\ call.at = "up"
Known == call.reference # NoReference
Key(m) == <<m, call.reference.revision>>

\* Demand stops at a retained aggregate, then at a retained metric.
Aggregated(m) == Known /\ Key(m) \in aggregates
Cached(m) == Known /\ Key(m) \in metrics
Wanted == {m \in call.metrics : ~Aggregated(m)}
Retained == call.reference.trajectory = "retained"
MissingRaw == {m \in Wanted : ~Cached(m) /\ ~Retained}
ReadyMetrics == {m \in Wanted : ~Cached(m) /\ Retained}
ReadyAggregates == {m \in Wanted : Cached(m)}
\* Every configured metric is durable right now.
SomeProof(ms, reference, durable) == \* mutant
  /\ reference # NoReference
  /\ \E m \in ms : <<m, reference.revision>> \in durable
MetricProofs(ms, reference, durable) ==
  /\ reference # NoReference
  /\ \A m \in ms : <<m, reference.revision>> \in durable

\* What the scheduler does after a simulation or a metric
React(proven) == IF call.raw = "until_analyzed" /\ proven THEN "prune" ELSE "up"

Shift(at) == call' = [call EXCEPT !.at = at]

TInit ==
  /\ Init
  /\ receipt = NoProof /\ history = NoProof
  /\ metrics = {} /\ aggregates = {}
  /\ call = Down

\* A request is published and the analysis graph built.  With metric
\* retention until_aggregated the first look for ready tasks also finishes the
\* removal of metrics whose aggregate is retained.
Start(n, ms, raw, met) ==
  LET reference == ResultReference(n)
      consumed == {m \in ms : /\ reference # NoReference
                              /\ <<m, reference.revision>> \in aggregates
                              /\ <<m, reference.revision>> \in metrics}
  IN /\ ~Running /\ pc = "idle"
     /\ call' = [at |-> "up", want |-> n, metrics |-> ms, raw |-> raw, met |-> met,
                 reference |-> reference, simulation |-> "pending",
                 drop |-> IF met = "until_aggregated" THEN consumed ELSE {}]
     /\ UNCHANGED <<vars, evidence, derived>>

\* A metric generation is renamed out of the cache, then removed.
DropMetric(m) ==
  /\ Idle /\ m \in call.drop
  /\ metrics' = metrics \ {Key(m)}
  /\ call' = [call EXCEPT !.drop = @ \ {m}]
  /\ UNCHANGED <<vars, evidence, aggregates>>

Free == Idle /\ call.drop = {}
Prepare == Free /\ call.simulation = "pending"
PrunedWork == IsPruned \/ call.reference.trajectory = "pruned"
OnlyOnRequest == call.raw = "keep" \* mutant
NeedsRematerialization == call.raw = "keep" \/ MissingRaw # {}

\* The result reference is read again when a simulation has finished, and every
\* configured metric may turn out to be durable already.
Refresh(status) ==
  LET reference == ResultReference(call.want)
  IN call' = [call EXCEPT !.reference = reference, !.simulation = status,
                          !.at = React(MetricProofs(call.metrics, reference, metrics))]

SkipSimulation ==
  /\ Prepare /\ PrunedWork /\ ~NeedsRematerialization
  /\ Refresh("done")
  /\ UNCHANGED <<vars, evidence, derived>>

BeginRematerialize ==
  /\ Prepare /\ IsPruned /\ NeedsRematerialization
  /\ call' = [call EXCEPT !.at = "archive"]
  /\ UNCHANGED <<vars, evidence, derived>>

Submit ==
  /\ Prepare /\ ~IsPruned /\ (PrunedWork => NeedsRematerialization)
  /\ \/ Reuse(call.want) \/ Open(call.want) \/ RejectCompletion(call.want)
  /\ call' = [call EXCEPT !.simulation = "running"]
  /\ UNCHANGED <<evidence, derived>>

SimulationFinished ==
  /\ Free /\ call.simulation = "running" /\ pc = "idle"
  /\ IF outcome \in {"completed", "skipped"}
     THEN Refresh("done")
     ELSE call' = [call EXCEPT !.simulation = "failed"]
  /\ UNCHANGED <<vars, evidence, derived>>

ComputeMetric(m) ==
  /\ Free /\ m \in ReadyMetrics
  /\ Loads(call.want, call.reference.revision)
  /\ metrics' = metrics \union {Key(m)}
  /\ Shift(React(MetricProofs(call.metrics, call.reference, metrics')))
  /\ UNCHANGED <<vars, evidence, aggregates>>

\* The aggregate is the proof of the metric it consumed.
ComputeAggregate(m) ==
  /\ Free /\ m \in ReadyAggregates
  /\ aggregates' = aggregates \union {Key(m)}
  /\ call' = [call EXCEPT !.drop = IF call.met = "until_aggregated" THEN {m} ELSE {}]
  /\ UNCHANGED <<vars, evidence, metrics>>

NothingLeft ==
  /\ Free /\ call.simulation \in {"done", "failed"}
  /\ ReadyMetrics = {} /\ ReadyAggregates = {}
Finished == NothingLeft /\ call.simulation = "done" /\ Wanted = {}
End ==
  /\ NothingLeft
  /\ call' = Down
  /\ UNCHANGED <<vars, evidence, derived>>

-----------------------------------------------------------------------------
(* prune_trajectory *)

\* A prefix request must not consume what lies beyond it.
Prunable == progress.status = "completed" /\ call.want = progress.step
CurrentReferences ==
  [n \in Proven(history) \union Completed(progress) |->
     IF n \in Completed(progress) THEN FromCompletion(n).revision
     ELSE history.references[n]]

PublishReceipt ==
  /\ Running /\ call.at = "prune" /\ ~IsPruned /\ Prunable
  /\ Loads(call.want, FromCompletion(call.want).revision)
  /\ receipt' = [latest |-> progress.step, references |-> CurrentReferences,
                 metrics |-> call.metrics]
  /\ Shift("unlink")
  /\ UNCHANGED <<vars, history, derived>>
KeepTrajectory ==
  /\ Running /\ call.at = "prune" /\ ~IsPruned /\ ~Prunable
  /\ Shift("up")
  /\ UNCHANGED <<vars, evidence, derived>>
ResumeNothing == \* mutant
  /\ Running /\ call.at = "prune" /\ IsPruned
  /\ Shift("up")
  /\ UNCHANGED <<vars, evidence, derived>>
\* The receipt is there: an interrupted removal is completed.
ResumePruning ==
  /\ Running /\ call.at = "prune" /\ IsPruned
  /\ Shift("unlink")
  /\ UNCHANGED <<vars, evidence, derived>>

UnlinkEarly(f) == \* mutant: chunks go before the receipt is published
  /\ Running /\ call.at \in {"prune", "unlink"} /\ f \in results
  /\ results' = results \ {f}
  /\ UNCHANGED <<progress, generations, failure, instance, pc, budget, outcome, session,
                 evidence, derived, call>>
UnlinkChunk(f) ==
  /\ Running /\ call.at = "unlink" /\ f \in results
  /\ results' = results \ {f}
  /\ UNCHANGED <<progress, generations, failure, instance, pc, budget, outcome, session,
                 evidence, derived, call>>

\* settle_pruned_checkpoints: references first, then payloads.
SettleReferences ==
  /\ Running /\ call.at = "unlink" /\ results = {}
  /\ progress' = [progress EXCEPT
       !.checkpoints = <<>>,
       !.completed = [n \in Completed(progress) |->
                        [progress.completed[n] EXCEPT !.checkpoint = None]]]
  /\ Shift("discard")
  /\ UNCHANGED <<generations, results, failure, instance, pc, budget, outcome, session,
                 evidence, derived>>
DiscardGeneration(g) ==
  /\ Running /\ call.at = "discard" /\ generations[g] # Absent
  /\ generations' = [generations EXCEPT ![g] = Absent]
  /\ UNCHANGED <<progress, results, failure, instance, pc, budget, outcome, session,
                 evidence, derived, call>>
PruningDone ==
  /\ Running /\ call.at = "discard" /\ \A g \in Generation : generations[g] = Absent
  /\ Shift("up")
  /\ UNCHANGED <<vars, evidence, derived>>

-----------------------------------------------------------------------------
(* rematerialize_trajectory *)

Merged ==
  [n \in Proven(history) \union Proven(receipt) |->
     IF n \in Proven(receipt) THEN receipt.references[n] ELSE history.references[n]]

ArchiveNothing == \* mutant
  /\ Running /\ call.at = "archive"
  /\ Shift("reset")
  /\ UNCHANGED <<vars, evidence, derived>>
ArchiveReferences ==
  /\ Running /\ call.at = "archive"
  /\ history' = [latest |-> receipt.latest, references |-> Merged, metrics |-> {}]
  /\ Shift("reset")
  /\ UNCHANGED <<vars, receipt, derived>>

ClearWithoutReset == \* mutant
  /\ Running /\ call.at = "reset"
  /\ receipt' = NoProof
  /\ Shift("up")
  /\ UNCHANGED <<vars, history, derived>>
ResetProgress ==
  /\ Running /\ call.at = "reset"
  /\ progress' = NoProgress
  /\ Shift("clear")
  /\ UNCHANGED <<generations, results, failure, instance, pc, budget, outcome, session,
                 evidence, derived>>

ClearReceipt ==
  /\ Running /\ call.at = "clear"
  /\ receipt' = NoProof
  /\ Shift("up")
  /\ UNCHANGED <<vars, history, derived>>

-----------------------------------------------------------------------------
\* SIGKILL of the coordinator and its worker, or an error that ends the
\* invocation while the worker is idle.
Kill ==
  /\ Running
  /\ IF pc = "idle" THEN UNCHANGED vars ELSE Crash
  /\ call' = Down
  /\ UNCHANGED <<evidence, derived>>

Worker ==
  /\ Running /\ pc # "idle"
  /\ \/ Work
     \/ "pause" \in Interruptions /\ Pause
     \/ "raise" \in Interruptions /\ (Raise \/ AbandonFailure)
  /\ UNCHANGED <<evidence, derived, call>>

Invoke == \E n \in Budgets, ms \in MetricSets, raw \in RawRetention, met \in MetricRetention :
            Start(n, ms, raw, met)
Prune ==
  \/ PublishReceipt \/ KeepTrajectory \/ ResumePruning
  \/ \E f \in results : UnlinkChunk(f)
  \/ SettleReferences
  \/ \E g \in Generation : DiscardGeneration(g)
  \/ PruningDone
Rematerialize == ArchiveReferences \/ ResetProgress \/ ClearReceipt
Schedule ==
  \/ SkipSimulation \/ BeginRematerialize \/ Submit \/ SimulationFinished \/ End
Derive ==
  \E ms \in MetricSets : \E m \in ms :
    ComputeMetric(m) \/ ComputeAggregate(m) \/ DropMetric(m)

TNext == Invoke \/ Schedule \/ Derive \/ Prune \/ Rematerialize \/ Worker \/ Kill
TSpec == TInit /\ [][TNext]_tvars

\* The scheduler keeps a live invocation going and the user repeats one request.
Steady(n, ms, raw, met) ==
  Schedule \/ Derive \/ Prune \/ Rematerialize \/ (Worker /\ Work) \/ Start(n, ms, raw, met)
AllMetrics == UNION MetricSets
TFairSpec ==
  /\ TSpec
  /\ WF_tvars(Schedule) /\ WF_tvars(Derive) /\ WF_tvars(Prune) /\ WF_tvars(Rematerialize)
  /\ WF_tvars(Running /\ pc # "idle" /\ Work /\ UNCHANGED <<evidence, derived, call>>)
  /\ \A raw \in RawRetention, met \in MetricRetention :
       WF_tvars(Start(LongestBudget, AllMetrics, raw, met))

-----------------------------------------------------------------------------
(* Properties *)

\* An observation a completed prefix names is missing only behind a receipt
\* that proves that very revision, whatever was interrupted: intended removal
\* is never confused with damage (prune_trajectory, rematerialize_trajectory).
DeletionIsProven ==
  \A n \in Completed(progress) :
    LET m == progress.completed[n].results IN
    \/ Intact(m)
    \/ n \in Proven(receipt) /\ receipt.references[n] = Revision(m, n)

\* Nothing is removed before it was analysed: each metric the receipt rests on
\* is durable, itself or in the aggregate that consumed it (metric_proofs,
\* _prune_aggregate_metrics).
AnalyzedBeforeRemoval ==
  IsPruned => \A m \in receipt.metrics :
                LET key == <<m, receipt.references[receipt.latest]>>
                IN key \in metrics \/ key \in aggregates

\* What was removed on purpose never looks like damage: no session rejects a
\* completion or fails to restore (prepare_simulation, rematerialize_trajectory).
RemovalIsNotDamage == [][~RestoreFails /\ \A n \in Budgets : ~RejectCompletion(n)]_tvars

\* Once a budget was completed there is always a revision to prove what was
\* derived from it, through removal, replay and kills
\* (pruning_history, result_reference).
EvidenceIsKept ==
  [][\A n \in Budgets :
       n \in Completed(progress) \union Proven(receipt) \union Proven(history)
         => ResultReference(n)' # NoReference]_tvars

\* Repeating a request analyses the run in the end, whatever was removed,
\* replayed or interrupted before.
AnalysisCompletes ==
  \A raw \in RawRetention, met \in MetricRetention :
    <>[][Steady(LongestBudget, AllMetrics, raw, met)]_tvars => []<>Finished

\* Repeating a request that removes observations completes a removal that was
\* interrupted after its receipt was published (prune_trajectory), unless a
\* replay comes first, and as long as the metrics that prove it are kept:
\* without them no later invocation looks at the run (metric_proofs).
ProofsAreKept ==
  IsPruned => \A m \in AllMetrics : <<m, receipt.references[receipt.latest]>> \in metrics
Settled == results = {} /\ \A g \in Generation : generations[g] = Absent
RemovalCompletes ==
  <>[][Steady(LongestBudget, AllMetrics, "until_analyzed", "keep")]_tvars /\ <>[]ProofsAreKept
    => (IsPruned ~> Settled \/ ~IsPruned)
=============================================================================
