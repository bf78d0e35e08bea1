--------------------------- MODULE AnalysisGraph ---------------------------
(***************************************************************************)
(* The analysis graph of one invocation (analysis/graph.py): metric nodes  *)
(* read one run, an aggregate the metrics of one unit of repeated runs, a  *)
(* figure the aggregates it draws.  A node's key identifies its output by  *)
(* everything upstream; demand stops at the first output that is retained. *)
(* The graph keeps its demand incrementally, the operators below are its   *)
(* methods, applied to a graph value `g`.                                  *)
(*                                                                         *)
(* `disk` is the set of keys with a validated generation in the cache.     *)
(* The graph remembers in g.found which of its nodes it saw there.  It     *)
(* looks when it first needs a node; here it looks when the key is new,    *)
(* which differs only if somebody else may publish the same key.           *)
(***************************************************************************)
EXTENDS Study

CONSTANTS
  Metrics,     \* configured metric names
  Descriptor,  \* type and parameters of each metric
  Figures,     \* figure nodes: a figure, or one partition of it
  Draws,       \* the <<metric, unit>> pairs each figure node draws
  None

ASSUME GraphAssumption ==
  /\ DOMAIN Descriptor = Metrics /\ DOMAIN Draws = Figures

-----------------------------------------------------------------------------
(* Nodes of a request *)

MetricNodes(q) == {"metric"} \X q.metrics \X q.runs
AggregateNodes(q) == {"aggregate"} \X q.metrics \X {Unit[r] : r \in q.runs}
FigureNodes(q) == {"figure"} \X q.figures
Nodes(q) == MetricNodes(q) \union AggregateNodes(q) \union FigureNodes(q)
Targets(q) == FigureNodes(q) \union IF q.only THEN {} ELSE AggregateNodes(q)

Inputs(q, n) ==
  CASE n[1] = "metric"    -> {}
    [] n[1] = "aggregate" -> {d \in MetricNodes(q) : d[2] = n[2] /\ Unit[d[3]] = n[3]}
    [] n[1] = "figure"    -> {d \in AggregateNodes(q) : <<d[2], d[3]>> \in Draws[n[2]]}
Consumers(q, S) == {n \in Nodes(q) : Inputs(q, n) \cap S # {}}
MetricsOf(q, r) == {n \in MetricNodes(q) : n[3] = r}

\* A metric's key names what it computes and from which revision, not how it
\* is called; the others name the keys of all their inputs.
GroupIdentity(q, n, references, key) == \* mutant: a metric names the group of its run
  IF n[1] = "metric"
  THEN IF references[n[3]].trajectory = "none" THEN None
       ELSE <<"metric", Descriptor[n[2]], Unit[n[3]], references[n[3]].revision>>
  ELSE IF \E d \in Inputs(q, n) : key[d] = None THEN None
       ELSE <<n, q.aggregator, [d \in Inputs(q, n) |-> key[d]]>>
Identity(q, n, references, key) ==
  IF n[1] = "metric"
  THEN IF references[n[3]].trajectory = "none" THEN None
       ELSE <<"metric", Descriptor[n[2]], n[3], references[n[3]].revision>>
  ELSE IF \E d \in Inputs(q, n) : key[d] = None THEN None
       ELSE <<n, q.aggregator, [d \in Inputs(q, n) |-> key[d]]>>

-----------------------------------------------------------------------------
(* Demand *)

Wanted(g, S) == {n \in S : g.needed[n] # {} /\ n \notin g.found}

ReconcileMetrics(g, S) ==
  LET raw == {n \in Wanted(g, S) : g.references[n[3]].trajectory = "retained"}
  IN [g EXCEPT !.ready = (@ \ S) \union raw,
               !.missing = (@ \ S) \union (Wanted(g, S) \ raw)]

\* An unsatisfied consumer starts or stops to need its inputs.
Expand(g, S) ==
  LET open == Wanted(g, S) \ g.expanded
      closed == (S \cap g.expanded) \ Wanted(g, S)
  IN [g EXCEPT
       !.expanded = (@ \ closed) \union open,
       !.needed = [d \in DOMAIN g.needed |->
          (g.needed[d] \ {n \in closed : d \in Inputs(g.request, n)})
            \union {n \in open : d \in Inputs(g.request, n)}]]
Turned(g, h) == {n \in DOMAIN g.needed : (g.needed[n] = {}) # (h.needed[n] = {})}
Runnable(g, S) == {n \in Wanted(g, S) : Inputs(g.request, n) \subseteq g.found}

ReconcileAggregates(g, S) ==
  LET h == Expand(g, S)
      k == ReconcileMetrics(h, Turned(g, h))
  IN [k EXCEPT !.ready = (@ \ S) \union Runnable(g, S)]
ReconcileFigures(g, S) ==
  LET h == Expand(g, S)
      k == ReconcileAggregates(h, Turned(g, h))
  IN [k EXCEPT !.ready = (@ \ S) \union Runnable(g, S)]

\* From outputs to inputs, so that a retained output suppresses demand.
Reconcile(g, S) ==
  LET f == ReconcileFigures(g, S \cap FigureNodes(g.request))
      a == ReconcileAggregates(f, S \cap AggregateNodes(g.request))
  IN ReconcileMetrics(a, S \cap MetricNodes(g.request))

UpdateIdentity(g, disk, S) ==
  LET key == [n \in DOMAIN g.key |->
                IF n \in S THEN Identity(g.request, n, g.references, g.key) ELSE g.key[n]]
      new == {n \in S : key[n] # g.key[n]}
  IN [g EXCEPT !.key = key,
               !.found = (@ \ new) \union {n \in new : key[n] \in disk}]
Changed(g, h) == {n \in DOMAIN g.key : g.key[n] # h.key[n]}

-----------------------------------------------------------------------------
(* Methods *)

Construct(q, saved, disk) ==
  LET g == [request    |-> q,
            references |-> [r \in q.runs |-> saved[r]],
            key        |-> [n \in Nodes(q) |-> None],
            found      |-> {},
            needed     |-> [n \in Nodes(q) |-> IF n \in Targets(q) THEN {<<"request">>} ELSE {}],
            expanded   |-> {},
            ready      |-> {},
            missing    |-> {},
            prune      |-> q.met = "until_aggregated"]
      m == UpdateIdentity(g, disk, MetricNodes(q))
      a == UpdateIdentity(m, disk, AggregateNodes(q))
  IN Reconcile(UpdateIdentity(a, disk, FigureNodes(q)), Nodes(q))

\* A simulation of r has returned.
ForgetDependents(g, saved, disk, r) == \* mutant: only the run's own metrics are reconsidered
  Reconcile(UpdateIdentity([g EXCEPT !.references[r] = saved[r]], disk, MetricsOf(g.request, r)),
            MetricsOf(g.request, r))
Refresh(g, saved, disk, r) ==
  LET q == g.request
      h == [g EXCEPT !.references[r] = saved[r]]
      ms == MetricsOf(q, r)
      m == UpdateIdentity(h, disk, ms)
      as == Consumers(q, Changed(h, m))
      a == UpdateIdentity(m, disk, as)
      fs == Consumers(q, Changed(m, a))
      f == UpdateIdentity(a, disk, fs)
  IN Reconcile(f, ms \union as \union fs)

\* Metrics that validated aggregates of S have consumed.
Consumed(g, S) ==
  IF g.request.met = "until_aggregated"
  THEN UNION {Inputs(g.request, n) : n \in S \cap AggregateNodes(g.request) \cap g.found}
  ELSE {}
Release(g, S) == [g EXCEPT !.found = @ \ Consumed(g, S)]

\* A worker has published n.
Published(g, n) ==
  Reconcile([g EXCEPT !.found = @ \union {n}], {n} \union Consumers(g.request, {n}))

RequiredSimulations(g) == {n[3] : n \in g.missing}
Complete(g) == Targets(g.request) \subseteq g.found
MetricProofs(g, disk, r) ==
  /\ MetricsOf(g.request, r) # {}
  /\ \A n \in MetricsOf(g.request, r) : g.key[n] \in disk

-----------------------------------------------------------------------------
(* Demand from scratch: what the graph should know, from the request, the  *)
(* references and the cache alone.                                         *)

DemandFromScratch(q, references, disk) ==
  LET metricKeys == [n \in MetricNodes(q) |-> Identity(q, n, references, <<>>)]
      aggregateKeys == [n \in AggregateNodes(q) |-> Identity(q, n, references, metricKeys)]
      figureKeys == [n \in FigureNodes(q) |-> Identity(q, n, references, aggregateKeys)]
      figures == {n \in FigureNodes(q) : figureKeys[n] \notin disk}
      aggregates ==
        {n \in AggregateNodes(q) :
           /\ aggregateKeys[n] \notin disk
           /\ ~q.only \/ \E f \in figures : n \in Inputs(q, f)}
      metrics ==
        {n \in MetricNodes(q) :
           /\ metricKeys[n] \notin disk
           /\ \E a \in aggregates : n \in Inputs(q, a)}
      raw == {n \in metrics : references[n[3]].trajectory = "retained"}
  IN \* what can be computed at once, and what needs observations first
     [ready   |-> raw
                    \union {n \in aggregates : \A d \in Inputs(q, n) : metricKeys[d] \in disk}
                    \union {n \in figures : \A d \in Inputs(q, n) : aggregateKeys[d] \in disk},
      missing |-> metrics \ raw]
=============================================================================
