---------------------------- MODULE Coordinator ----------------------------
(***************************************************************************)
(* One output directory and the invocations that work on it: `run`         *)
(* (execution/coordinator.py), which shares simulations and derivations    *)
(* over a pool of workers, and the saved-only commands (_analyze_saved in  *)
(* analysis/graph.py).  It composes the analysis graph and the scheduler.  *)
(*                                                                         *)
(* A run is what the graph sees of it: nothing, retained observations in   *)
(* some revision, or a pruned trajectory whose revision is proved; how a   *)
(* worker and the pruning of one run get there is Trajectory's matter.     *)
(* Workers read their inputs, publish and return in steps of their own;    *)
(* each handler of the coordinator is one action.  Kill may fall between   *)
(* any two actions.                                                        *)
(***************************************************************************)
EXTENDS AnalysisGraph, TaskScheduler

CONSTANTS
  Studies,     \* the studies an output may hold: the requests successive invocations
               \* may make, the revisions simulations of each run may produce, tasks that may raise,
               \* may an invocation be stopped, be killed?
  Workers,     \* size of the pool
  Revisions    \* revisions of a run (its chunk boundaries)

ASSUME CoordinatorAssumption ==
  /\ Workers \in Nat \ {0}
  /\ \A s \in Studies : s.stops \in BOOLEAN /\ s.kills \in BOOLEAN
                        /\ s.revisions \in [Runs -> SUBSET Revisions]
  /\ \A q \in UNION {s.requests : s \in Studies} :
       /\ q.mode \in {"run", "saved"} /\ q.only \in BOOLEAN /\ (q.only => q.mode = "saved")
       /\ q.runs \subseteq Runs /\ q.metrics \subseteq Metrics /\ q.metrics # {}
       /\ q.figures \subseteq Figures
       /\ \A f \in q.figures : \A p \in Draws[f] : p[1] \in q.metrics
       /\ q.raw \in {"keep", "until_analyzed"} /\ q.met \in {"keep", "until_aggregated"}

AllRequests == UNION {s.requests : s \in Studies}
Aggregators == {q.aggregator : q \in AllRequests}

\* What can be known of a run, the identities of outputs computed from simulations of
\* some revisions, and the graphs of a request: None is none of them.
References ==
  [trajectory : {"none"}] \union [trajectory : {"retained", "pruned"}, revision : Revisions]
AllMetricNodes == {"metric"} \X Metrics \X Runs
AllAggregateNodes == {"aggregate"} \X Metrics \X Units
AllFigureNodes == {"figure"} \X Figures
MetricKeys(revisions) == {"metric"} \X {Descriptor[m] : m \in Metrics} \X Runs \X revisions
AggregateKeys(revisions) ==
  AllAggregateNodes \X Aggregators
    \X UNION {[S -> MetricKeys(revisions)] : S \in SUBSET AllMetricNodes}
FigureKeys(revisions) ==
  AllFigureNodes \X Aggregators
    \X UNION {[S -> AggregateKeys(revisions)] : S \in SUBSET AllAggregateNodes}
Keys(revisions) ==
  MetricKeys(revisions) \union AggregateKeys(revisions) \union FigureKeys(revisions)
Graphs(q) ==
  [request : {q}, references : [q.runs -> References],
   key : [Nodes(q) -> {None} \union Keys(Revisions)], found : SUBSET Nodes(q),
   needed : [Nodes(q) -> SUBSET (Nodes(q) \union {<<"request">>})],
   expanded : SUBSET Nodes(q), ready : SUBSET Nodes(q), missing : SUBSET Nodes(q),
   prune : BOOLEAN]

ASSUME NoneAssumption ==
  None \notin Keys(Revisions) /\ \A q \in AllRequests : None \notin Graphs(q)

VARIABLES
  study,    \* the study on this output
  saved,    \* what the store proves about each run
  cache,    \* keys of the durable derived generations
  graph,    \* the analysis graph of the running invocation, or None
  work,     \* submitted tasks: what they compute and how far they are
  stop,     \* the stop event
  report,   \* outcomes of runs counted so far, and whether a derivation failed
  batch,    \* saved-only: the ready tasks still to be executed
  moved     \* history: this invocation executed a pruned run again, to another revision

disk == <<saved, cache>>
cvars == <<study, disk, graph, svars, work, stop, report, batch, moved>>

Running == graph # None
Live == Running /\ graph.request.mode = "run"
Analyzing == Running /\ graph.request.mode = "saved"
NoReport == [completed |-> 0, skipped |-> 0, paused |-> 0, failed |-> 0, tasks |-> FALSE]
Counted(status) == report' = [report EXCEPT ![status] = @ + 1]
Idle == DOMAIN work = {}

CInit ==
  /\ study \in Studies
  /\ saved = [r \in Runs |-> [trajectory |-> "none"]] /\ cache = {}
  /\ graph = None /\ NoPlan
  /\ work = <<>> /\ stop = FALSE /\ report = NoReport /\ batch = {} /\ moved = FALSE

Begin(q) ==
  /\ graph = None
  /\ graph' = Construct(q, saved, cache)
  /\ IF q.mode = "run"
     THEN Plan(q.runs, {r \in q.runs : saved[r].trajectory # "none"})
     ELSE Plan({}, {})
  /\ work' = <<>> /\ stop' = FALSE /\ report' = NoReport /\ batch' = {}
  /\ UNCHANGED disk

Close ==
  /\ graph' = None
  /\ Plan({}, {})
  /\ work' = <<>> /\ stop' = FALSE /\ report' = NoReport /\ batch' = {}
  /\ UNCHANGED disk

-----------------------------------------------------------------------------
(* What a handler does to the graph and the disk *)

\* After a simulation or a metric of r: observations go once every metric of
\* the run is durable.
Analyzed(g, r, trajectories) ==
  IF /\ g.request.raw = "until_analyzed"
     /\ MetricProofs(g, cache, r)
     /\ trajectories[r].trajectory = "retained"
  THEN [trajectories EXCEPT ![r].trajectory = "pruned"]
  ELSE trajectories

SimulationDone(r) ==
  LET g == Refresh(graph, saved, cache, r)
  IN graph' = g /\ saved' = Analyzed(g, r, saved) /\ UNCHANGED cache
MetricDone(n) ==
  LET g == Published(graph, n)
  IN graph' = g /\ saved' = Analyzed(g, n[3], saved) /\ UNCHANGED cache
\* The summary is kept, the metrics it consumed are released.
ReleaseAll(n) == \* mutant: the metrics of every unit go with the first aggregate
  LET g == Published(graph, n)
  IN /\ graph' = g
     /\ cache' = cache \ {g.key[d] : d \in MetricNodes(g.request)}
     /\ UNCHANGED saved
OutputDone(n) ==
  LET g == Published(graph, n)
  IN /\ graph' = Release(g, {n})
     /\ cache' = cache \ {g.key[d] : d \in Consumed(g, {n})}
     /\ UNCHANGED saved

-----------------------------------------------------------------------------
(* The coordinator of `run` *)

MayTake == Live /\ ~stop /\ Cardinality(DOMAIN work) < Workers

\* The first look for ready tasks completes earlier deletions of metrics.
PruneExisting ==
  /\ \/ MayTake
     \/ Analyzing /\ batch = {} /\ ~Complete(graph) /\ graph.missing = {}
  /\ graph.prune
  /\ LET all == AggregateNodes(graph.request)
     IN /\ graph' = [Release(graph, all) EXCEPT !.prune = FALSE]
        /\ cache' = cache \ {graph.key[d] : d \in Consumed(graph, all)}
  /\ UNCHANGED <<saved, svars, work, stop, report, batch>>

Job(n) ==
  [state  |-> "submitted",
   key    |-> graph.key[n],
   inputs |-> {graph.key[d] : d \in Inputs(graph.request, n)}]

SubmitDerivation ==
  /\ MayTake /\ ~graph.prune
  /\ \E n \in graph.ready :
       /\ TakeDerivation(graph.ready, n)
       /\ work' = [t \in DOMAIN work \union {n} |-> IF t = n THEN Job(n) ELSE work[t]]
  /\ UNCHANGED <<disk, graph, stop, report, batch>>

\* A pruned run executes again only for observations that somebody needs.
NeverAgain(r) == FALSE \* mutant: what was pruned is never executed again
NeedsRematerialization(r) ==
  graph.request.raw = "keep" \/ r \in RequiredSimulations(graph)

SubmitSimulation ==
  /\ MayTake /\ ~graph.prune
  /\ \E r \in pending :
       /\ saved[r].trajectory = "pruned" => NeedsRematerialization(r)
       /\ TakeSimulation(graph.ready, r, TRUE)
       /\ work' = [t \in DOMAIN work \union {Simulation(r)} |->
                     IF t = Simulation(r) THEN [state |-> "submitted"] ELSE work[t]]
  /\ UNCHANGED <<disk, graph, stop, report, batch>>

SkipUncounted == \* mutant: the report never hears of a skipped run
  /\ MayTake /\ ~graph.prune
  /\ \E r \in pending :
       /\ saved[r].trajectory = "pruned" /\ ~NeedsRematerialization(r)
       /\ TakeSimulation(graph.ready, r, FALSE)
       /\ SimulationDone(r)
  /\ UNCHANGED <<work, stop, report, batch>>
SkipSimulation ==
  /\ MayTake /\ ~graph.prune
  /\ \E r \in pending :
       /\ saved[r].trajectory = "pruned" /\ ~NeedsRematerialization(r)
       /\ TakeSimulation(graph.ready, r, FALSE)
       /\ SimulationDone(r)
  /\ Counted("skipped")
  /\ UNCHANGED <<work, stop, batch>>

Derivations == {n \in DOMAIN work : Kind(n) # "simulation"}
Dropped(t) == work' = [u \in DOMAIN work \ {t} |-> work[u]]

SimulationFinished(r) ==
  /\ Live /\ Simulation(r) \in DOMAIN work
  /\ LET status == work[Simulation(r)].state
     IN /\ status \in {"completed", "skipped", "paused", "failed"}
        /\ Counted(status)
        /\ FinishTask(Simulation(r), status \in {"completed", "skipped"})
        /\ IF status \in {"completed", "skipped"}
           THEN SimulationDone(r) ELSE UNCHANGED <<graph, disk>>
  /\ Dropped(Simulation(r))
  /\ UNCHANGED <<stop, batch>>

\* A key that changed since the task was submitted, so that what was published is
\* not what the graph expects, is an error that ends the invocation.
DerivationFinished(n) ==
  /\ Live /\ n \in Derivations /\ work[n].state \in {"published", "failed"}
  /\ IF work[n].state = "published" /\ graph.key[n] \notin cache THEN Close
     ELSE /\ FinishTask(n, work[n].state = "published")
          /\ IF work[n].state = "failed"
             THEN report' = [report EXCEPT !.tasks = TRUE] /\ UNCHANGED <<graph, disk>>
             ELSE /\ IF Kind(n) = "metric" THEN MetricDone(n) ELSE OutputDone(n)
                  /\ UNCHANGED report
          /\ Dropped(n)
          /\ UNCHANGED <<stop, batch>>

Exhausted == Live /\ Idle /\ (stop \/ (~graph.prune /\ NothingToTake(graph.ready)))
Finish == Exhausted /\ Close

-----------------------------------------------------------------------------
(* Workers *)

Advance(t, state) == work' = [work EXCEPT ![t].state = state]

\* A worker that waits for its turn meets the stop event at its first boundary.
Simulate(r) ==
  /\ Simulation(r) \in DOMAIN work /\ work[Simulation(r)].state = "submitted"
  /\ \/ /\ saved[r].trajectory = "retained"
        /\ Advance(Simulation(r), "skipped") /\ UNCHANGED saved
     \/ /\ saved[r].trajectory # "retained"
        /\ \E v \in study.revisions[r] :
             saved' = [saved EXCEPT ![r] = [trajectory |-> "retained", revision |-> v]]
        /\ Advance(Simulation(r), "completed")
     \/ /\ saved[r].trajectory # "retained" /\ stop
        /\ Advance(Simulation(r), "paused") /\ UNCHANGED saved
  /\ UNCHANGED <<cache, graph, svars, stop, report, batch>>

\* The exact revision of a run, or the generations of all inputs
Readable(n, job) ==
  IF Kind(n) = "metric"
  THEN saved[n[3]] = [trajectory |-> "retained", revision |-> job.key[4]]
  ELSE job.inputs \subseteq cache
\* A generation that is there already is not computed again.
Read(n) ==
  /\ n \in Derivations /\ work[n].state = "submitted"
  /\ Advance(n, IF work[n].key \in cache THEN "published"
                ELSE IF Readable(n, work[n]) THEN "read" ELSE "failed")
  /\ UNCHANGED <<disk, graph, svars, stop, report, batch>>
Publish(n) ==
  /\ n \in Derivations /\ work[n].state = "read"
  /\ cache' = cache \union {work[n].key}
  /\ Advance(n, "published")
  /\ UNCHANGED <<saved, graph, svars, stop, report, batch>>
Raise(t) ==
  /\ t \in DOMAIN work \cap study.fragile
  /\ work[t].state = IF Kind(t) = "simulation" THEN "submitted" ELSE "read"
  /\ Advance(t, "failed")
  /\ UNCHANGED <<disk, graph, svars, stop, report, batch>>

-----------------------------------------------------------------------------
(* Saved-only analysis *)

\* Missing observations, or nothing to do, end the command with an error.
Ask ==
  /\ Analyzing /\ batch = {}
  /\ IF Complete(graph) \/ graph.missing # {} THEN Close
     ELSE /\ ~graph.prune
          /\ IF graph.ready = {} THEN Close
             ELSE batch' = graph.ready /\ UNCHANGED <<disk, graph, svars, work, stop, report>>

\* The batch is executed in the order of its kinds; an error ends the command.
Execute(n) ==
  /\ Analyzing /\ n \in batch /\ \A o \in batch : Rank[Kind(n)] <= Rank[Kind(o)]
  /\ IF graph.key[n] \in cache \/ Readable(n, Job(n))
     THEN LET g == Published(graph, n)
          IN /\ graph' = Release(g, {n})
             /\ cache' = (cache \union {graph.key[n]}) \ {g.key[d] : d \in Consumed(g, {n})}
             /\ batch' = batch \ {n}
             /\ UNCHANGED <<saved, svars, work, stop, report>>
     ELSE Close
ExecuteFragile(n) == n \in batch \cap study.fragile /\ Close

-----------------------------------------------------------------------------
Stop == Live /\ study.stops /\ ~stop /\ stop' = TRUE /\ UNCHANGED <<disk, graph, svars, work, report, batch>>
Kill == Running /\ study.kills /\ Close

\* A replay is not bound to cut the observations where the pruned trajectory did.
Moves == \E r \in Runs : saved[r].trajectory = "pruned" /\ saved'[r].revision # saved[r].revision

Coordinate ==
  \/ PruneExisting \/ SubmitDerivation \/ SubmitSimulation \/ SkipSimulation
  \/ \E r \in Runs : SimulationFinished(r)
  \/ \E n \in DOMAIN work : DerivationFinished(n)
  \/ Finish
Work == (\E r \in Runs : Simulate(r)) \/ (\E n \in DOMAIN work : Read(n) \/ Publish(n))
Fail == \E t \in DOMAIN work : Raise(t)
Analyze == Ask \/ \E n \in batch : Execute(n) \/ ExecuteFragile(n)

CNext ==
  /\ \/ \E q \in study.requests : Begin(q)
     \/ Coordinate \/ Work \/ Fail \/ Analyze
     \/ Stop \/ Kill
  /\ UNCHANGED study
  /\ moved' = (Running /\ Running' /\ (moved \/ Moves))
CSpec == CInit /\ [][CNext]_cvars

-----------------------------------------------------------------------------
(* Properties *)

\* Nobody has told the coordinator yet
Untold == \E t \in DOMAIN work : work[t].state \notin {"submitted", "read"}

\* The demand the graph maintains step by step is the demand of a graph built
\* now: a derivation is ready, and a run missing, exactly if a requested output
\* that is not retained depends on it (_need, _reconcile, refresh, finish), as long as
\* this invocation replayed pruned runs to the revision they had.
DemandIsExact ==
  Running /\ ~Untold /\ ~moved =>
    [ready |-> graph.ready, missing |-> graph.missing]
      = DemandFromScratch(graph.request, saved, cache)

\* No derivation finds its inputs gone: what was released for one consumer is
\* not needed by another one, even while tasks wait in the pool.  After a replay to
\* another revision the code does not ensure this.
InputsArePresent ==
  ~moved => \A n \in Derivations :
    work[n].state = "submitted" => work[n].key \in cache \/ Readable(n, work[n])

\* At the end every requested run is counted exactly once (RunReport), whatever it was
\* replayed to.  An invocation that nobody stopped, in which nothing failed and that
\* replayed pruned runs to the revision they had does not end before every requested
\* output is there: demand that no task can satisfy does not occur.  After a replay to
\* another revision it may: a run that was passed by is not looked at again.
ReportIsTrue ==
  Exhausted =>
    /\ report.completed + report.skipped + report.paused + report.failed + Cardinality(pending)
         = Cardinality(graph.request.runs)
    /\ ~stop /\ ~report.tasks /\ report.failed + report.paused = 0 /\ ~moved => Complete(graph)

\* A metric generation disappears only behind a durable aggregate that names
\* it, observations only behind metrics or such an aggregate
\* (_prune_aggregate_metrics, metric_proofs).
Consumer(k) == \E a \in cache : a[1][1] = "aggregate" /\ \E d \in DOMAIN a[3] : a[3][d] = k
MetricKeysOf(r) == {graph.key[n] : n \in MetricsOf(graph.request, r)}
RemovalIsCovered ==
  [][/\ \A k \in cache \ cache' : Consumer(k)'
     /\ \A r \in Runs :
          saved[r].trajectory = "retained" /\ saved'[r].trajectory = "pruned" =>
            \A k \in MetricKeysOf(r)' : (k \in cache \/ Consumer(k))']_cvars

\* The same output is never computed by two workers, nor when it is there.
WorkIsNotRepeated ==
  /\ \A m, n \in Derivations : work[m].key = work[n].key => m = n
  /\ \A n \in Derivations : work[n].state = "read" => work[n].key \notin cache

-----------------------------------------------------------------------------
(* Liveness *)

\* Somebody always goes on: weak fairness of CNext, which is always enabled.
\* (A running invocation always has a next step besides Kill: TLC would report a
\* deadlock otherwise in a study without kills.)
CFairSpec == CSpec /\ []<><<CNext>>_cvars

\* Every invocation ends.
InvocationsEnd == []<>~Running

\* Once runs are only repeated, in whatever order, and nothing interrupts them or raises,
\* every request that is repeated is satisfied again and again, whatever the others prune
\* and whatever revisions replays produce.  One invocation may miss it after a replay to
\* another revision (see ReportIsTrue); a later one does not.
Undisturbed == Coordinate \/ Work \/ \E q \in AllRequests : q.mode = "run" /\ Begin(q)
RequestsAreSatisfied ==
  <>[][Undisturbed]_cvars =>
    \A q \in AllRequests :
      []<>(Live /\ graph.request = q) => []<>(Live /\ graph.request = q /\ Complete(graph))
=============================================================================
