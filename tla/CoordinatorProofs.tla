------------------------- MODULE CoordinatorProofs -------------------------
(***************************************************************************)
(* Theorems about Coordinator: for any studies, any number of workers and  *)
(* wherever invocations are stopped or killed, what the coordinator holds  *)
(* of the demand, of the tasks under way and of the cache stays true.      *)
(*                                                                         *)
(* The first part is about one graph value: `Clean(g, D)` says that the    *)
(* demand of g is what its own keys, its found generations and its         *)
(* references imply, except at the dirty nodes D, and Reconcile(g, D)      *)
(* makes it clean everywhere.  The second part is about the pool, and what *)
(* is removed, in every study (`PoolInv`).  The third relates the graph to *)
(* the disk (`CacheInv` and `InvSame`), where metrics are distinct and as  *)
(* long as the invocation has not replayed a run to another revision       *)
(* (`moved`): afterwards the code does not keep it.  Invocations that      *)
(* follow one another may leave a run in any revision.                     *)
(***************************************************************************)
EXTENDS Coordinator, FiniteSetTheorems, TLAPS

-----------------------------------------------------------------------------
(* What the theorems about the cache suppose: two metrics are two          *)
(* computations.                                                           *)

DistinctMetrics == \A m, n \in Metrics : Descriptor[m] = Descriptor[n] => m = n

-----------------------------------------------------------------------------
(* Graph values *)

AllNodes == AllMetricNodes \union AllAggregateNodes \union AllFigureNodes
KeysOf(n) ==
  IF n[1] = "metric" THEN {"metric"} \X {Descriptor[n[2]]} \X {n[3]} \X Revisions
  ELSE IF n[1] = "aggregate"
  THEN {n} \X Aggregators \X UNION {[S -> MetricKeys(Revisions)] : S \in SUBSET AllMetricNodes}
  ELSE {n} \X Aggregators \X UNION {[S -> AggregateKeys(Revisions)] : S \in SUBSET AllAggregateNodes}
KeysTyped(q, key) == \A n \in Nodes(q) : key[n] \in {None} \union KeysOf(n)
KeysCurrent(g) ==
  \A n \in Nodes(g.request) : g.key[n] = Identity(g.request, n, g.references, g.key)

Base(q, n) == IF n \in Targets(q) THEN {<<"request">>} ELSE {}
IsWanted(g, n) == g.needed[n] # {} /\ n \notin g.found
CanRun(g, n) ==
  IF n[1] = "metric" THEN g.references[n[3]].trajectory = "retained"
  ELSE Inputs(g.request, n) \subseteq g.found

\* An output is needed by the request and by the consumers that were expanded.
Linked(g) ==
  /\ \A d \in Nodes(g.request) :
       g.needed[d] = Base(g.request, d) \union {n \in g.expanded : d \in Inputs(g.request, n)}
  /\ \A n \in g.expanded : n[1] # "metric"
  /\ \A n \in g.missing : n[1] = "metric"
Right(g, n) ==
  /\ n \in g.expanded <=> IsWanted(g, n) /\ n[1] # "metric"
  /\ n \in g.ready <=> IsWanted(g, n) /\ CanRun(g, n)
  /\ n \in g.missing <=> IsWanted(g, n) /\ ~CanRun(g, n) /\ n[1] = "metric"
Clean(g, D) == Linked(g) /\ \A n \in Nodes(g.request) \ D : Right(g, n)

\* What a graph is between two methods
Sound(q, g) ==
  g \in Graphs(q) /\ KeysTyped(q, g.key) /\ KeysCurrent(g) /\ Clean(g, {})

-----------------------------------------------------------------------------
(* The invariant, first part: it holds of every study. *)

SimulationStates == {"submitted", "completed", "skipped", "paused", "failed"}
JobStates == {"submitted", "read", "published", "failed"}
Jobs(t) ==
  IF Kind(t) = "simulation" THEN [state : SimulationStates]
  ELSE [state : JobStates, key : KeysOf(t), inputs : SUBSET ({None} \union Keys(Revisions))]
Counts == [completed : Nat, skipped : Nat, paused : Nat, failed : Nat, tasks : BOOLEAN]
Simulating == {r \in Runs : Simulation(r) \in DOMAIN work}

InvTypes ==
  /\ study \in Studies /\ saved \in [Runs -> References] /\ cache \subseteq Keys(Revisions)
  /\ stop \in BOOLEAN /\ report \in Counts
InvGraph ==
  Running =>
    /\ graph.request \in AllRequests /\ Sound(graph.request, graph)
    /\ \A n \in graph.found : graph.key[n] # None

\* The pool holds tasks of a running invocation only.
InvPool ==
  /\ active = DOMAIN work
  /\ ~Live => DOMAIN work = {}
  /\ Live => /\ batch = {}
             /\ \A t \in DOMAIN work : \/ t \in Nodes(graph.request)
                                       \/ \E r \in graph.request.runs : t = Simulation(r)
             /\ pending \subseteq graph.request.runs /\ pending \intersect Simulating = {}
  /\ \A t \in DOMAIN work : work[t] \in Jobs(t)
  /\ Running => \A n \in batch : n \in Nodes(graph.request) /\ graph.key[n] # None

\* Nothing has begun while earlier deletions are still to be completed.
InvPrune ==
  Running /\ graph.prune =>
    /\ DOMAIN work = {} /\ batch = {}
    /\ \A n \in graph.found : graph.key[n] \in cache
InvCount ==
  Live => report.completed + report.skipped + report.paused + report.failed
            + Cardinality(pending) + Cardinality(Simulating) = Cardinality(graph.request.runs)
PoolInv == InvTypes /\ InvGraph /\ InvPool /\ InvPrune /\ InvCount

-----------------------------------------------------------------------------
(* The invariant, second part: distinct metrics, and an invocation whose   *)
(* replays reproduced the revision.                                        *)

At(t, state) == t \in DOMAIN work /\ work[t].state = state
\* The output of n is durable, or the aggregate that consumes it is.
Settled(n) ==
  \/ n \in graph.found \/ At(n, "published")
  \/ \E a \in graph.found : n \in Inputs(graph.request, a)
Durable(r) == \A n \in MetricsOf(graph.request, r) : Settled(n)

\* The graph knows what is in the cache, but for what nobody told it yet.
InvFound ==
  Running => \A n \in Nodes(graph.request) :
    n \in graph.found <=> graph.key[n] \in cache /\ ~At(n, "published")

\* A task in the pool computes the output the graph still expects from it.
Expected(n) ==
  /\ work[n].key = graph.key[n]
  /\ work[n].inputs = {graph.key[d] : d \in Inputs(graph.request, n)}
  /\ work[n].state = "published" <=> work[n].key \in cache
  /\ n[1] # "metric" => Inputs(graph.request, n) \subseteq graph.found
  /\ n[1] = "metric" /\ work[n].state = "submitted" => saved[n[3]].trajectory = "retained"
InvJobs == \A n \in Derivations : Expected(n)

\* A metric is read on account of the observations the graph knows of, until the run's own
\* simulation is told; a simulation that found or made observations leaves some to be told.
InvAsked ==
  /\ \A n \in Derivations :
       n[1] = "metric" => \/ graph.references[n[3]].trajectory = "retained"
                          \/ n[3] \notin pending \union Simulating
  /\ \A r \in Simulating :
       work[Simulation(r)].state \in {"completed", "skipped"} =>
         saved[r].trajectory = "retained" \/ graph.references[r].trajectory = "retained"

\* A run changes behind the graph only by a simulation that is not told yet, or by
\* the removal of observations whose metrics are settled.
Behind(r) ==
  \/ graph.references[r] = saved[r]
  \/ saved[r].trajectory = "retained" /\ At(Simulation(r), "completed")
  \/ graph.references[r].trajectory = "retained" /\ saved[r].trajectory = "pruned" /\ Durable(r)
InvBehind == Running => \A r \in graph.request.runs : Behind(r)

\* What was executed, or passed by, lacks nothing.
Supplied(r) ==
  Simulation(r) \in failed \/ graph.references[r].trajectory = "retained" \/ Durable(r)
InvDone == Live => \A r \in graph.request.runs \ (pending \union Simulating) : Supplied(r)
InvFailed ==
  Live => \A t \in failed :
    report.tasks \/ report.failed + report.paused > 0
CacheInv == InvFound /\ InvJobs /\ InvAsked /\ InvBehind /\ InvDone /\ InvFailed

\* What the graph knows of a run has the revision the run has.
InvSame ==
  Running => \A r \in graph.request.runs :
    graph.references[r].trajectory # "none" =>
      saved[r].trajectory # "none" /\ saved[r].revision = graph.references[r].revision
SteadyInv == IF moved THEN Running ELSE CacheInv /\ InvSame
-----------------------------------------------------------------------------
(* Nodes and keys *)

LEMMA Requested ==
  ASSUME NEW q \in AllRequests
  PROVE  /\ q.mode \in {"run", "saved"} /\ q.only \in BOOLEAN /\ (q.only => q.mode = "saved")
         /\ q.runs \subseteq Runs /\ q.metrics \subseteq Metrics /\ q.metrics # {}
         /\ q.figures \subseteq Figures
         /\ q.raw \in {"keep", "until_analyzed"} /\ q.met \in {"keep", "until_aggregated"}
BY CoordinatorAssumption DEF AllRequests

LEMMA NodeKinds ==
  ASSUME NEW q \in AllRequests
  PROVE  /\ \A n \in MetricNodes(q) :
              n[1] = "metric" /\ n[2] \in q.metrics /\ n[3] \in q.runs /\ n = <<"metric", n[2], n[3]>>
         /\ \A n \in AggregateNodes(q) : n[1] = "aggregate" /\ n = <<"aggregate", n[2], n[3]>>
         /\ \A n \in FigureNodes(q) : n[1] = "figure"
         /\ \A n \in Nodes(q) : /\ n[1] \in {"metric", "aggregate", "figure"}
                                /\ n[1] = "metric" => n \in MetricNodes(q)
                                /\ n[1] = "aggregate" => n \in AggregateNodes(q)
                                /\ n[1] = "figure" => n \in FigureNodes(q)
BY DEF Nodes, MetricNodes, AggregateNodes, FigureNodes

LEMMA NodesKnown ==
  ASSUME NEW q \in AllRequests
  PROVE  /\ MetricNodes(q) \subseteq AllMetricNodes
         /\ AggregateNodes(q) \subseteq AllAggregateNodes
         /\ FigureNodes(q) \subseteq AllFigureNodes
         /\ Nodes(q) \subseteq AllNodes
<1>1. MetricNodes(q) \subseteq AllMetricNodes
  BY Requested DEF MetricNodes, AllMetricNodes
<1>2. {Unit[r] : r \in q.runs} \subseteq Units
  BY Requested DEF Units
<1>3. AggregateNodes(q) \subseteq AllAggregateNodes
  BY <1>2, Requested DEF AggregateNodes, AllAggregateNodes
<1>4. FigureNodes(q) \subseteq AllFigureNodes
  BY Requested DEF FigureNodes, AllFigureNodes
<1> QED BY <1>1, <1>3, <1>4 DEF Nodes, AllNodes

\* Metrics have no inputs, an aggregate those of its unit, a figure aggregates.
LEMMA InputKinds ==
  ASSUME NEW q \in AllRequests, NEW n \in Nodes(q)
  PROVE  /\ n[1] = "metric" => Inputs(q, n) = {}
         /\ n[1] = "aggregate" =>
              Inputs(q, n) = {d \in MetricNodes(q) : d[2] = n[2] /\ Unit[d[3]] = n[3]}
         /\ n[1] = "figure" => Inputs(q, n) \subseteq AggregateNodes(q)
         /\ Inputs(q, n) \subseteq Nodes(q)
         /\ \A d \in Inputs(q, n) : /\ n[1] = "aggregate" <=> d[1] = "metric"
                                    /\ n[1] = "figure" <=> d[1] = "aggregate"
                                    /\ d[1] # "figure" /\ n[1] # "metric"
<1>1. n[1] \in {"metric", "aggregate", "figure"}
  BY NodeKinds
<1>2. /\ n[1] = "metric" => Inputs(q, n) = {}
      /\ n[1] = "aggregate" =>
           Inputs(q, n) = {d \in MetricNodes(q) : d[2] = n[2] /\ Unit[d[3]] = n[3]}
      /\ n[1] = "figure" =>
           Inputs(q, n) = {d \in AggregateNodes(q) : <<d[2], d[3]>> \in Draws[n[2]]}
  BY DEF Inputs
<1>3. Inputs(q, n) \subseteq Nodes(q)
  BY <1>1, <1>2 DEF Nodes
<1>4. \A d \in Inputs(q, n) : /\ n[1] = "aggregate" <=> d[1] = "metric"
                              /\ n[1] = "figure" <=> d[1] = "aggregate"
                              /\ d[1] # "figure" /\ n[1] # "metric"
  BY <1>1, <1>2, NodeKinds
<1> QED BY <1>2, <1>3, <1>4

\* A metric has one consumer: the aggregate of its unit.
LEMMA OneConsumer ==
  ASSUME NEW q \in AllRequests
  PROVE  /\ \A m, n \in AggregateNodes(q) : \A d \in Inputs(q, m) \intersect Inputs(q, n) : m = n
         /\ \A d \in MetricNodes(q) : \E a \in AggregateNodes(q) : d \in Inputs(q, a)
<1>1. AggregateNodes(q) \subseteq Nodes(q)
  BY DEF Nodes
<1>2. ASSUME NEW m \in AggregateNodes(q), NEW n \in AggregateNodes(q),
             NEW d \in Inputs(q, m) \intersect Inputs(q, n)
      PROVE  m = n
  <2>1. d[2] = m[2] /\ Unit[d[3]] = m[3] /\ d[2] = n[2] /\ Unit[d[3]] = n[3]
    BY <1>1, <1>2, InputKinds, NodeKinds
  <2>2. m = <<"aggregate", m[2], m[3]>> /\ n = <<"aggregate", n[2], n[3]>>
    BY NodeKinds
  <2> QED BY <2>1, <2>2
<1>3. ASSUME NEW d \in MetricNodes(q) PROVE \E a \in AggregateNodes(q) : d \in Inputs(q, a)
  <2> DEFINE a == <<"aggregate", d[2], Unit[d[3]]>>
  <2>1. d[2] \in q.metrics /\ d[3] \in q.runs
    BY NodeKinds
  <2>2. a \in AggregateNodes(q) /\ a[1] = "aggregate" /\ a[2] = d[2] /\ a[3] = Unit[d[3]]
    BY <2>1 DEF AggregateNodes
  <2>3. a \in Nodes(q)
    BY <2>2, <1>1
  <2> HIDE DEF a
  <2> QED BY <2>2, <2>3, InputKinds
<1> QED BY <1>2, <1>3

LEMMA KeysApart ==
  ASSUME NEW n \in AllNodes
  PROVE  KeysOf(n) \subseteq Keys(Revisions) /\ None \notin KeysOf(n)
<1>1. CASE n \in AllMetricNodes
  <2>1. n[1] = "metric" /\ n[2] \in Metrics /\ n[3] \in Runs
    BY <1>1 DEF AllMetricNodes
  <2>2. KeysOf(n) \subseteq MetricKeys(Revisions)
    BY <2>1 DEF KeysOf, MetricKeys
  <2> QED BY <2>2, NoneAssumption DEF Keys
<1>2. CASE n \in AllAggregateNodes
  <2>1. n[1] = "aggregate"
    BY <1>2 DEF AllAggregateNodes
  <2>2. KeysOf(n) \subseteq AggregateKeys(Revisions)
    BY <1>2, <2>1 DEF KeysOf, AggregateKeys
  <2> QED BY <2>2, NoneAssumption DEF Keys
<1>3. CASE n \in AllFigureNodes
  <2>1. n[1] = "figure"
    BY <1>3 DEF AllFigureNodes
  <2>2. KeysOf(n) \subseteq FigureKeys(Revisions)
    BY <1>3, <2>1 DEF KeysOf, FigureKeys
  <2> QED BY <2>2, NoneAssumption DEF Keys
<1> QED BY <1>1, <1>2, <1>3 DEF AllNodes

\* A key names the node it was made for.
LEMMA KeysUnique ==
  ASSUME DistinctMetrics, NEW m \in AllNodes, NEW n \in AllNodes,
         NEW k \in KeysOf(m), k \in KeysOf(n)
  PROVE  m = n
<1>1. CASE m[1] = "metric" /\ n[1] = "metric"
  <2>1. k[2] = Descriptor[m[2]] /\ k[3] = m[3] /\ k[2] = Descriptor[n[2]] /\ k[3] = n[3]
    BY <1>1 DEF KeysOf
  <2>2. m \in AllMetricNodes /\ n \in AllMetricNodes
    BY <1>1 DEF AllNodes, AllAggregateNodes, AllFigureNodes
  <2>3. m[2] = n[2]
    BY <2>1, <2>2 DEF AllMetricNodes, DistinctMetrics
  <2>4. m = <<"metric", m[2], m[3]>> /\ n = <<"metric", n[2], n[3]>>
    BY <2>2 DEF AllMetricNodes
  <2> QED BY <2>1, <2>3, <2>4
<1>2. CASE m[1] # "metric" /\ n[1] # "metric"
  <2>1. k[1] = m /\ k[1] = n
    BY <1>2 DEF KeysOf
  <2> QED BY <2>1
<1>3. CASE m[1] = "metric" /\ n[1] # "metric"
  <2>1. DOMAIN k = 1..4 /\ DOMAIN k = 1..3
    BY <1>3 DEF KeysOf
  <2> QED BY <2>1
<1>4. CASE m[1] # "metric" /\ n[1] = "metric"
  <2>1. DOMAIN k = 1..4 /\ DOMAIN k = 1..3
    BY <1>4 DEF KeysOf
  <2> QED BY <2>1
<1> QED BY <1>1, <1>2, <1>3, <1>4

\* The identity of a node, once there is one, is a key of that node.
LEMMA IdentityThere ==
  ASSUME NEW q \in AllRequests, NEW n \in Nodes(q), NEW references \in [q.runs -> References],
         NEW key, \A d \in Inputs(q, n) : key[d] \in KeysOf(d),
         n[1] = "metric" => references[n[3]].trajectory # "none"
  PROVE  Identity(q, n, references, key) \in KeysOf(n)
<1>0. q.aggregator \in Aggregators
  BY DEF Aggregators
<1>1. CASE n[1] = "metric"
  <2>1. n[3] \in q.runs
    BY <1>1, NodeKinds
  <2>2. references[n[3]] \in References /\ references[n[3]].trajectory # "none"
    BY <1>1, <2>1
  <2>3. references[n[3]].revision \in Revisions
    BY <2>2 DEF References
  <2>4. Identity(q, n, references, key) = <<"metric", Descriptor[n[2]], n[3], references[n[3]].revision>>
    BY <1>1, <2>2 DEF Identity
  <2> QED BY <1>1, <2>3, <2>4 DEF KeysOf
<1>2. CASE n[1] # "metric"
  <2> DEFINE D == Inputs(q, n)
             f == [d \in D |-> key[d]]
  <2>1. \A d \in D : d \in Nodes(q) /\ key[d] # None
    BY InputKinds, NodesKnown, KeysApart
  <2>2. Identity(q, n, references, key) = <<n, q.aggregator, f>>
    BY <1>2, <2>1 DEF Identity
  <2>4. CASE n[1] = "aggregate"
    <3>1. D \subseteq MetricNodes(q)
      BY <2>4, InputKinds
    <3>2. D \in SUBSET AllMetricNodes
      BY <3>1, NodesKnown
    <3>3. \A d \in D : key[d] \in MetricKeys(Revisions)
      <4> TAKE d \in D
      <4>1. d[1] = "metric" /\ d[2] \in Metrics /\ d[3] \in Runs
        BY <3>2 DEF AllMetricNodes
      <4> QED BY <4>1 DEF KeysOf, MetricKeys
    <3>4. f \in [D -> MetricKeys(Revisions)]
      BY <3>3
    <3>5. f \in UNION {[S -> MetricKeys(Revisions)] : S \in SUBSET AllMetricNodes}
      BY <3>2, <3>4
    <3> HIDE DEF f, D
    <3> QED BY <2>2, <2>4, <3>5, <1>0 DEF KeysOf
  <2>5. CASE n[1] = "figure"
    <3>1. D \subseteq AggregateNodes(q)
      BY <2>5, InputKinds
    <3>2. D \in SUBSET AllAggregateNodes
      BY <3>1, NodesKnown
    <3>3. \A d \in D : key[d] \in AggregateKeys(Revisions)
      <4> TAKE d \in D
      <4>1. d[1] = "aggregate" /\ d \in AllAggregateNodes
        BY <3>2 DEF AllAggregateNodes
      <4> QED BY <4>1 DEF KeysOf, AggregateKeys
    <3>4. f \in [D -> AggregateKeys(Revisions)]
      BY <3>3
    <3>5. f \in UNION {[S -> AggregateKeys(Revisions)] : S \in SUBSET AllAggregateNodes}
      BY <3>2, <3>4
    <3> HIDE DEF f, D
    <3> QED BY <2>2, <2>5, <3>5, <1>0 DEF KeysOf
  <2> QED BY <1>2, <2>4, <2>5, NodeKinds
<1> QED BY <1>1, <1>2

LEMMA IdentityTyped ==
  ASSUME NEW q \in AllRequests, NEW n \in Nodes(q), NEW references \in [q.runs -> References],
         NEW key, \A d \in Inputs(q, n) : key[d] \in {None} \union KeysOf(d)
  PROVE  Identity(q, n, references, key) \in {None} \union KeysOf(n)
<1> SUFFICES ASSUME Identity(q, n, references, key) # None
             PROVE  Identity(q, n, references, key) \in KeysOf(n)
  OBVIOUS
<1>1. n[1] = "metric" => references[n[3]].trajectory # "none"
  BY DEF Identity
<1>2. n[1] # "metric" => \A d \in Inputs(q, n) : key[d] # None
  BY DEF Identity
<1>3. \A d \in Inputs(q, n) : key[d] \in KeysOf(d)
  BY <1>2, InputKinds
<1> QED BY <1>1, <1>3, IdentityThere

-----------------------------------------------------------------------------
(* Demand *)

\* What reconciling leaves alone
SameCache(g, h) ==
  /\ h.references = g.references /\ h.key = g.key /\ h.found = g.found /\ h.prune = g.prune

\* Outputs of S are expanded exactly if they are wanted; the demand changes at their inputs.
LEMMA ExpandLinks ==
  ASSUME NEW q \in AllRequests, NEW g \in Graphs(q), NEW S \in SUBSET Nodes(q),
         \A n \in S : n[1] # "metric", Linked(g)
  PROVE  LET h == Expand(g, S)
         IN /\ h \in Graphs(q) /\ SameCache(g, h) /\ h.ready = g.ready /\ h.missing = g.missing
            /\ Linked(h)
            /\ \A n \in Nodes(q) : n \in h.expanded <=> IF n \in S THEN IsWanted(g, n) ELSE n \in g.expanded
            /\ \A d \in Turned(g, h) : \E n \in S : d \in Inputs(q, n)
            /\ Turned(g, h) \subseteq Nodes(q)
            /\ \A d \in Nodes(q) \ Turned(g, h) : IsWanted(h, d) <=> IsWanted(g, d)
<1> DEFINE open == Wanted(g, S) \ g.expanded
           closed == (S \cap g.expanded) \ Wanted(g, S)
           h == Expand(g, S)
<1>1. /\ g.request = q /\ DOMAIN g.needed = Nodes(q) /\ g.expanded \subseteq Nodes(q)
      /\ g.needed \in [Nodes(q) -> SUBSET (Nodes(q) \union {<<"request">>})]
  BY DEF Graphs
<1>2. h = [g EXCEPT !.expanded = (g.expanded \ closed) \union open,
             !.needed = [d \in Nodes(q) |->
                (g.needed[d] \ {n \in closed : d \in Inputs(q, n)})
                  \union {n \in open : d \in Inputs(q, n)}]]
  BY <1>1 DEF Expand
<1>3. open \subseteq S /\ closed \subseteq S
  BY DEF Wanted
<1> DEFINE needs == [d \in Nodes(q) |->
                (g.needed[d] \ {n \in closed : d \in Inputs(q, n)})
                  \union {n \in open : d \in Inputs(q, n)}]
           grown == (g.expanded \ closed) \union open
<1>4. \A n \in Nodes(q) : n \in grown <=> IF n \in S THEN IsWanted(g, n) ELSE n \in g.expanded
  BY <1>3 DEF Wanted, IsWanted
<1>5. grown \subseteq Nodes(q) /\ needs \in [Nodes(q) -> SUBSET (Nodes(q) \union {<<"request">>})]
  BY <1>1, <1>3
<1>6. /\ h \in Graphs(q) /\ h.request = q /\ SameCache(g, h) /\ h.ready = g.ready /\ h.missing = g.missing
      /\ h.expanded = grown /\ h.needed = needs
  <2> HIDE DEF open, closed
  <2> QED BY <1>2, <1>5 DEF Graphs, SameCache
<1>7. \A d \in Nodes(q) : needs[d] = Base(q, d) \union {n \in grown : d \in Inputs(q, n)}
  <2> TAKE d \in Nodes(q)
  <2>1. g.needed[d] = Base(q, d) \union {n \in g.expanded : d \in Inputs(q, n)}
    BY <1>1 DEF Linked
  <2>2. \A n \in closed : n # <<"request">>
    <3>1. \A n \in closed : n[1] \in {"metric", "aggregate", "figure"}
      BY <1>3, NodeKinds
    <3>2. <<"request">>[1] = "request"
      OBVIOUS
    <3> QED BY <3>1, <3>2
  <2>3. Base(q, d) \intersect closed = {}
    BY <2>2 DEF Base
  <2>4. needs[d] = (g.needed[d] \ {n \in closed : d \in Inputs(q, n)})
                  \union {n \in open : d \in Inputs(q, n)}
    OBVIOUS
  <2> HIDE DEF open, closed, needs
  <2> QED BY <2>1, <2>3, <2>4
<1>8. Linked(h)
  <2>1. \A n \in grown : n[1] # "metric"
    BY <1>3 DEF Linked
  <2>2. \A n \in g.missing : n[1] = "metric"
    BY DEF Linked
  <2> HIDE DEF grown, needs, h
  <2> QED BY <1>6, <1>7, <2>1, <2>2 DEF Linked
<1>9. ASSUME NEW d \in Nodes(q), \A n \in S : d \notin Inputs(q, n)
      PROVE  needs[d] = g.needed[d]
  BY <1>3, <1>9
<1>10. Turned(g, h) = {d \in Nodes(q) : (g.needed[d] = {}) # (needs[d] = {})}
  <2> HIDE DEF h, needs
  <2> QED BY <1>1, <1>6 DEF Turned
<1>11. \A d \in Turned(g, h) : \E n \in S : d \in Inputs(q, n)
  <2> HIDE DEF h, needs
  <2> QED BY <1>9, <1>10
<1>12. \A d \in Nodes(q) \ Turned(g, h) : IsWanted(h, d) <=> IsWanted(g, d)
  <2> HIDE DEF h, needs
  <2> QED BY <1>6, <1>10 DEF IsWanted, SameCache
<1> HIDE DEF h, open, closed, needs, grown
<1>13. Turned(g, h) \subseteq Nodes(q)
  BY <1>10
<1> QED BY <1>4, <1>6, <1>8, <1>11, <1>12, <1>13 DEF h

LEMMA MetricsClean ==
  ASSUME NEW q \in AllRequests, NEW g \in Graphs(q), NEW S \in SUBSET MetricNodes(q),
         NEW D, Clean(g, D)
  PROVE  LET h == ReconcileMetrics(g, S)
         IN /\ h \in Graphs(q) /\ SameCache(g, h) /\ Clean(h, D \ S)
            /\ h.needed = g.needed /\ h.expanded = g.expanded
<1> DEFINE raw == {n \in Wanted(g, S) : g.references[n[3]].trajectory = "retained"}
           h == ReconcileMetrics(g, S)
<1>1. /\ g.request = q /\ g.ready \subseteq Nodes(q) /\ g.missing \subseteq Nodes(q)
      /\ S \subseteq Nodes(q)
  BY DEF Graphs, Nodes
<1>2. h = [g EXCEPT !.ready = (g.ready \ S) \union raw,
                    !.missing = (g.missing \ S) \union (Wanted(g, S) \ raw)]
  BY DEF ReconcileMetrics
<1>3. raw \subseteq S /\ Wanted(g, S) \subseteq S
  BY DEF Wanted
<1>4. /\ h \in Graphs(q) /\ h.request = q /\ SameCache(g, h) /\ h.needed = g.needed /\ h.expanded = g.expanded
      /\ h.ready = (g.ready \ S) \union raw
      /\ h.missing = (g.missing \ S) \union (Wanted(g, S) \ raw)
  <2>1. /\ (g.ready \ S) \union raw \subseteq Nodes(q)
        /\ (g.missing \ S) \union (Wanted(g, S) \ raw) \subseteq Nodes(q)
    BY <1>1, <1>3
  <2> HIDE DEF raw
  <2> QED BY <1>2, <2>1 DEF Graphs, SameCache
<1>5. \A n \in S : n[1] = "metric"
  BY NodeKinds
<1>6. Linked(h)
  <2>1. Linked(g)
    BY DEF Clean
  <2> HIDE DEF h, raw
  <2> QED BY <1>1, <1>3, <1>4, <1>5, <2>1 DEF Linked
<1>7. \A n \in Nodes(q) : /\ IsWanted(h, n) <=> IsWanted(g, n)
                          /\ CanRun(h, n) <=> CanRun(g, n)
  <2> HIDE DEF h
  <2> QED BY <1>1, <1>4 DEF IsWanted, CanRun, SameCache
<1>8. ASSUME NEW n \in Nodes(q) \ (D \ S) PROVE Right(h, n)
  <2>1. CASE n \in S
    <3>1. n \in raw <=> IsWanted(g, n) /\ CanRun(g, n)
      BY <1>5, <2>1 DEF Wanted, IsWanted, CanRun
    <3>2. n \in Wanted(g, S) <=> IsWanted(g, n)
      BY <2>1 DEF Wanted, IsWanted
    <3>3. n \notin h.expanded
      BY <1>4, <1>5, <2>1 DEF Clean, Linked
    <3> HIDE DEF h, raw
    <3> QED BY <1>4, <1>5, <1>7, <2>1, <3>1, <3>2, <3>3 DEF Right
  <2>2. CASE n \notin S
    <3>1. Right(g, n)
      BY <1>1, <2>2 DEF Clean
    <3> HIDE DEF h
    <3> QED BY <1>3, <1>4, <1>7, <2>2, <3>1 DEF Right
  <2> QED BY <2>1, <2>2
<1> HIDE DEF h
<1>9. Clean(h, D \ S)
  BY <1>4, <1>6, <1>8 DEF Clean
<1> QED BY <1>4, <1>9 DEF h
\* The metrics whose demand turned are reconciled, then the readiness of S.
LEMMA AggregatesClean ==
  ASSUME NEW q \in AllRequests, NEW g \in Graphs(q), NEW S \in SUBSET AggregateNodes(q),
         NEW D, Clean(g, D)
  PROVE  LET h == ReconcileAggregates(g, S)
         IN /\ h \in Graphs(q) /\ SameCache(g, h) /\ Clean(h, D \ S)
            /\ \A n \in Nodes(q) : n[1] # "metric" => (IsWanted(h, n) <=> IsWanted(g, n))
            /\ \A n \in Nodes(q) : n[1] = "figure" => (n \in h.expanded <=> n \in g.expanded)
<1> DEFINE e == Expand(g, S)
           T == Turned(g, e)
           k == ReconcileMetrics(e, T)
           h == ReconcileAggregates(g, S)
<1>1. g.request = q /\ S \in SUBSET Nodes(q) /\ Linked(g)
  BY DEF Graphs, Nodes, Clean
<1>2. \A n \in S : n[1] = "aggregate"
  BY NodeKinds
<1>3. /\ e \in Graphs(q) /\ SameCache(g, e) /\ e.ready = g.ready /\ e.missing = g.missing
      /\ Linked(e)
      /\ \A n \in Nodes(q) : n \in e.expanded <=> IF n \in S THEN IsWanted(g, n) ELSE n \in g.expanded
      /\ \A d \in T : \E n \in S : d \in Inputs(q, n)
      /\ T \subseteq Nodes(q)
      /\ \A d \in Nodes(q) \ T : IsWanted(e, d) <=> IsWanted(g, d)
  BY <1>1, <1>2, ExpandLinks
<1> HIDE DEF e, T
<1>4. T \in SUBSET MetricNodes(q)
  BY <1>1, <1>2, <1>3, InputKinds, NodeKinds
<1>5. \A n \in T : n[1] = "metric"
  BY <1>4, NodeKinds
<1>6. e.request = q
  BY <1>3 DEF Graphs
<1>7. Clean(e, D \union S \union T)
  <2>1. ASSUME NEW n \in Nodes(q) \ (D \union S \union T) PROVE Right(e, n)
    <3>1. Right(g, n)
      BY <1>1 DEF Clean
    <3>2. CanRun(e, n) <=> CanRun(g, n)
      BY <1>1, <1>3, <1>6 DEF CanRun, SameCache
    <3> QED BY <1>3, <3>1, <3>2 DEF Right
  <2> QED BY <1>3, <1>6, <2>1 DEF Clean
<1>8. /\ k \in Graphs(q) /\ SameCache(e, k) /\ Clean(k, (D \union S \union T) \ T)
      /\ k.needed = e.needed /\ k.expanded = e.expanded
  BY <1>3, <1>4, <1>7, MetricsClean
<1>9. h = [k EXCEPT !.ready = (k.ready \ S) \union Runnable(g, S)]
  BY DEF ReconcileAggregates, e, T
<1> HIDE DEF k
<1>10. k.request = q /\ k.ready \subseteq Nodes(q) /\ Runnable(g, S) \subseteq S
  BY <1>8 DEF Graphs, Runnable, Wanted
<1>11. /\ h \in Graphs(q) /\ h.request = q /\ SameCache(g, h)
       /\ h.needed = k.needed /\ h.expanded = k.expanded /\ h.missing = k.missing
       /\ h.ready = (k.ready \ S) \union Runnable(g, S)
  <2>1. (k.ready \ S) \union Runnable(g, S) \subseteq Nodes(q)
    BY <1>1, <1>10
  <2> QED BY <1>3, <1>8, <1>9, <2>1 DEF Graphs, SameCache
<1> HIDE DEF h
<1>12. \A n \in Nodes(q) : /\ IsWanted(h, n) <=> IsWanted(e, n)
                           /\ IsWanted(k, n) <=> IsWanted(e, n)
                           /\ CanRun(h, n) <=> CanRun(g, n)
                           /\ CanRun(k, n) <=> CanRun(g, n)
  BY <1>1, <1>3, <1>8, <1>10, <1>11 DEF IsWanted, CanRun, SameCache
<1>13. Linked(h)
  BY <1>8, <1>10, <1>11 DEF Linked, Clean
<1>14. ASSUME NEW n \in Nodes(q) \ (D \ S) PROVE Right(h, n)
  <2>1. CASE n \in S
    <3>1. IsWanted(h, n) <=> IsWanted(g, n)
      BY <1>2, <1>3, <1>5, <1>12, <2>1
    <3>2. n \in Runnable(g, S) <=> IsWanted(g, n) /\ CanRun(g, n)
      BY <1>1, <1>2, <2>1 DEF Runnable, Wanted, IsWanted, CanRun
    <3>3. n \notin h.missing
      BY <1>2, <1>13, <2>1 DEF Linked
    <3>4. n \in h.expanded <=> IsWanted(g, n)
      BY <1>3, <1>8, <1>11, <2>1
    <3>5. n[1] = "aggregate"
      BY <1>2, <2>1
    <3> QED BY <1>11, <1>12, <2>1, <3>1, <3>2, <3>3, <3>4, <3>5 DEF Right
  <2>2. CASE n \notin S
    <3>1. Right(k, n)
      BY <1>8, <1>10, <2>2 DEF Clean
    <3> QED BY <1>10, <1>11, <1>12, <2>2, <3>1 DEF Right
  <2> QED BY <2>1, <2>2
<1>15. Clean(h, D \ S)
  BY <1>11, <1>13, <1>14 DEF Clean
<1>16. \A n \in Nodes(q) : n[1] # "metric" => (IsWanted(h, n) <=> IsWanted(g, n))
  BY <1>3, <1>5, <1>12
<1>17. \A n \in Nodes(q) : n[1] = "figure" => (n \in h.expanded <=> n \in g.expanded)
  BY <1>2, <1>3, <1>8, <1>11
<1> QED BY <1>11, <1>15, <1>16, <1>17 DEF h

LEMMA FiguresClean ==
  ASSUME NEW q \in AllRequests, NEW g \in Graphs(q), NEW S \in SUBSET FigureNodes(q),
         NEW D, Clean(g, D)
  PROVE  LET h == ReconcileFigures(g, S)
         IN h \in Graphs(q) /\ SameCache(g, h) /\ Clean(h, D \ S)
<1> DEFINE e == Expand(g, S)
           T == Turned(g, e)
           k == ReconcileAggregates(e, T)
           h == ReconcileFigures(g, S)
<1>1. g.request = q /\ S \in SUBSET Nodes(q) /\ Linked(g)
  BY DEF Graphs, Nodes, Clean
<1>2. \A n \in S : n[1] = "figure"
  BY NodeKinds
<1>3. /\ e \in Graphs(q) /\ SameCache(g, e) /\ e.ready = g.ready /\ e.missing = g.missing
      /\ Linked(e)
      /\ \A n \in Nodes(q) : n \in e.expanded <=> IF n \in S THEN IsWanted(g, n) ELSE n \in g.expanded
      /\ \A d \in T : \E n \in S : d \in Inputs(q, n)
      /\ T \subseteq Nodes(q)
      /\ \A d \in Nodes(q) \ T : IsWanted(e, d) <=> IsWanted(g, d)
  BY <1>1, <1>2, ExpandLinks
<1> HIDE DEF e, T
<1>4. T \in SUBSET AggregateNodes(q)
  BY <1>1, <1>2, <1>3, InputKinds, NodeKinds
<1>5. \A n \in T : n[1] = "aggregate"
  BY <1>4, NodeKinds
<1>6. e.request = q
  BY <1>3 DEF Graphs
<1>7. Clean(e, D \union S \union T)
  <2>1. ASSUME NEW n \in Nodes(q) \ (D \union S \union T) PROVE Right(e, n)
    <3>1. Right(g, n)
      BY <1>1 DEF Clean
    <3>2. CanRun(e, n) <=> CanRun(g, n)
      BY <1>1, <1>3, <1>6 DEF CanRun, SameCache
    <3> QED BY <1>3, <3>1, <3>2 DEF Right
  <2> QED BY <1>3, <1>6, <2>1 DEF Clean
<1>8. /\ k \in Graphs(q) /\ SameCache(e, k) /\ Clean(k, (D \union S \union T) \ T)
      /\ \A n \in Nodes(q) : n[1] # "metric" => (IsWanted(k, n) <=> IsWanted(e, n))
      /\ \A n \in Nodes(q) : n[1] = "figure" => (n \in k.expanded <=> n \in e.expanded)
  BY <1>3, <1>4, <1>7, AggregatesClean
<1>9. h = [k EXCEPT !.ready = (k.ready \ S) \union Runnable(g, S)]
  BY DEF ReconcileFigures, e, T
<1> HIDE DEF k
<1>10. k.request = q /\ k.ready \subseteq Nodes(q) /\ Runnable(g, S) \subseteq S
  BY <1>8 DEF Graphs, Runnable, Wanted
<1>11. /\ h \in Graphs(q) /\ h.request = q /\ SameCache(g, h)
       /\ h.needed = k.needed /\ h.expanded = k.expanded /\ h.missing = k.missing
       /\ h.ready = (k.ready \ S) \union Runnable(g, S)
  <2>1. (k.ready \ S) \union Runnable(g, S) \subseteq Nodes(q)
    BY <1>1, <1>10
  <2> QED BY <1>3, <1>8, <1>9, <2>1 DEF Graphs, SameCache
<1> HIDE DEF h
<1>12. \A n \in Nodes(q) : /\ IsWanted(h, n) <=> IsWanted(k, n)
                           /\ CanRun(h, n) <=> CanRun(g, n)
                           /\ CanRun(k, n) <=> CanRun(g, n)
  BY <1>1, <1>3, <1>8, <1>10, <1>11 DEF IsWanted, CanRun, SameCache
<1>13. Linked(h)
  BY <1>8, <1>10, <1>11 DEF Linked, Clean
<1>14. ASSUME NEW n \in Nodes(q) \ (D \ S) PROVE Right(h, n)
  <2>1. CASE n \in S
    <3>1. n[1] = "figure" /\ n \notin T
      BY <1>2, <1>5, <2>1
    <3>2. IsWanted(h, n) <=> IsWanted(g, n)
      BY <1>3, <1>8, <1>12, <3>1
    <3>3. n \in Runnable(g, S) <=> IsWanted(g, n) /\ CanRun(g, n)
      BY <1>1, <2>1, <3>1 DEF Runnable, Wanted, IsWanted, CanRun
    <3>4. n \notin h.missing
      BY <1>13, <3>1 DEF Linked
    <3>5. n \in h.expanded <=> IsWanted(g, n)
      BY <1>3, <1>8, <1>11, <2>1, <3>1
    <3> QED BY <1>11, <1>12, <2>1, <3>1, <3>2, <3>3, <3>4, <3>5 DEF Right
  <2>2. CASE n \notin S
    <3>1. Right(k, n)
      BY <1>8, <1>10, <2>2 DEF Clean
    <3> QED BY <1>10, <1>11, <1>12, <2>2, <3>1 DEF Right
  <2> QED BY <2>1, <2>2
<1>15. Clean(h, D \ S)
  BY <1>11, <1>13, <1>14 DEF Clean
<1> QED BY <1>11, <1>15 DEF h

\* After reconciling the dirty nodes the demand is right everywhere.
LEMMA ReconcileCleans ==
  ASSUME NEW q \in AllRequests, NEW g \in Graphs(q), NEW S \in SUBSET Nodes(q), Clean(g, S)
  PROVE  /\ Reconcile(g, S) \in Graphs(q) /\ SameCache(g, Reconcile(g, S))
         /\ Clean(Reconcile(g, S), {})
<1> DEFINE F == S \cap FigureNodes(q)
           A == S \cap AggregateNodes(q)
           M == S \cap MetricNodes(q)
           f == ReconcileFigures(g, F)
           a == ReconcileAggregates(f, A)
           h == ReconcileMetrics(a, M)
<1>1. g.request = q
  BY DEF Graphs
<1>2. f \in Graphs(q) /\ SameCache(g, f) /\ Clean(f, S \ F)
  BY FiguresClean
<1>3. f.request = q
  BY <1>2 DEF Graphs
<1> HIDE DEF f
<1>4. a \in Graphs(q) /\ SameCache(f, a) /\ Clean(a, (S \ F) \ A)
  BY <1>2, AggregatesClean
<1>5. a.request = q
  BY <1>4 DEF Graphs
<1> HIDE DEF a
<1>6. h \in Graphs(q) /\ SameCache(a, h) /\ Clean(h, ((S \ F) \ A) \ M)
  BY <1>4, MetricsClean
<1>7. ((S \ F) \ A) \ M = {}
  BY DEF Nodes
<1>8. Reconcile(g, S) = h
  BY <1>1, <1>3, <1>5 DEF Reconcile, f, a
<1> HIDE DEF h
<1> QED BY <1>2, <1>4, <1>6, <1>7, <1>8 DEF SameCache

-----------------------------------------------------------------------------
(* Methods of the graph *)

\* An identity depends on the reference of a metric's run and on the inputs' keys.
LEMMA IdentityIsLocal ==
  ASSUME NEW q, NEW n, NEW r1, NEW r2, NEW k1, NEW k2,
         n[1] = "metric" => r1[n[3]] = r2[n[3]],
         n[1] # "metric" => \A d \in Inputs(q, n) : k1[d] = k2[d]
  PROVE  Identity(q, n, r1, k1) = Identity(q, n, r2, k2)
<1>1. CASE n[1] = "metric"
  BY <1>1 DEF Identity
<1>2. CASE n[1] # "metric"
  <2>1. [d \in Inputs(q, n) |-> k1[d]] = [d \in Inputs(q, n) |-> k2[d]]
    BY <1>2
  <2>2. (\E d \in Inputs(q, n) : k1[d] = None) <=> (\E d \in Inputs(q, n) : k2[d] = None)
    BY <1>2
  <2> QED BY <1>2, <2>1, <2>2 DEF Identity
<1> QED BY <1>1, <1>2

\* What is remembered of the cache is looked up again where the key is new.
Relooked(g, h, known) ==
  \A n \in Nodes(g.request) :
    n \in h.found <=> IF h.key[n] = g.key[n] THEN n \in g.found ELSE h.key[n] \in known
SameDemand(g, h) ==
  /\ h.references = g.references /\ h.needed = g.needed /\ h.expanded = g.expanded
  /\ h.ready = g.ready /\ h.missing = g.missing /\ h.prune = g.prune

LEMMA IdentitiesUpdated ==
  ASSUME NEW q \in AllRequests, NEW g \in Graphs(q), KeysTyped(q, g.key), NEW known,
         NEW S \in SUBSET Nodes(q)
  PROVE  LET h == UpdateIdentity(g, known, S)
         IN /\ h \in Graphs(q) /\ SameDemand(g, h) /\ KeysTyped(q, h.key) /\ Relooked(g, h, known)
            /\ \A n \in Nodes(q) :
                 h.key[n] = IF n \in S THEN Identity(q, n, g.references, g.key) ELSE g.key[n]
<1> DEFINE key == [n \in Nodes(q) |->
                     IF n \in S THEN Identity(q, n, g.references, g.key) ELSE g.key[n]]
           new == {n \in S : key[n] # g.key[n]}
           found == (g.found \ new) \union {n \in new : key[n] \in known}
           h == UpdateIdentity(g, known, S)
<1>1. /\ g.request = q /\ DOMAIN g.key = Nodes(q) /\ g.found \subseteq Nodes(q)
      /\ g.references \in [q.runs -> References]
  BY DEF Graphs
<1>2. h = [g EXCEPT !.key = key, !.found = found]
  BY <1>1 DEF UpdateIdentity
<1>3. ASSUME NEW n \in Nodes(q) PROVE key[n] \in {None} \union KeysOf(n)
  <2>1. CASE n \in S
    <3>1. \A d \in Inputs(q, n) : g.key[d] \in {None} \union KeysOf(d)
      BY InputKinds DEF KeysTyped
    <3>2. Identity(q, n, g.references, g.key) \in {None} \union KeysOf(n)
      BY <1>1, <3>1, IdentityTyped
    <3> QED BY <2>1, <3>2
  <2>2. CASE n \notin S
    BY <2>2 DEF KeysTyped
  <2> QED BY <2>1, <2>2
<1>4. key \in [Nodes(q) -> {None} \union Keys(Revisions)]
  <2>1. \A n \in Nodes(q) : KeysOf(n) \subseteq Keys(Revisions)
    BY NodesKnown, KeysApart
  <2> QED BY <1>3, <2>1
<1>5. found \subseteq Nodes(q)
  BY <1>1
<1>6. KeysTyped(q, key)
  BY <1>3 DEF KeysTyped
<1>7. \A n \in Nodes(q) : n \in found <=> IF key[n] = g.key[n] THEN n \in g.found ELSE key[n] \in known
  OBVIOUS
<1>8. \A n \in Nodes(q) : key[n] = IF n \in S THEN Identity(q, n, g.references, g.key) ELSE g.key[n]
  OBVIOUS
<1> HIDE DEF key, new, found, h
<1>9. h \in Graphs(q) /\ SameDemand(g, h) /\ h.key = key /\ h.found = found
  BY <1>2, <1>4, <1>5 DEF Graphs, SameDemand
<1> QED BY <1>1, <1>6, <1>7, <1>8, <1>9 DEF Relooked, h

LEMMA RefreshSound ==
  ASSUME NEW q \in AllRequests, NEW g, Sound(q, g), NEW trajectories \in [Runs -> References],
         NEW known, NEW r \in q.runs
  PROVE  LET h == Refresh(g, trajectories, known, r)
         IN /\ Sound(q, h) /\ h.prune = g.prune /\ Relooked(g, h, known)
            /\ h.references = [g.references EXCEPT ![r] = trajectories[r]]
<1> DEFINE b == [g EXCEPT !.references[r] = trajectories[r]]
           ms == MetricsOf(q, r)
           m == UpdateIdentity(b, known, ms)
           as == Consumers(q, Changed(b, m))
           a == UpdateIdentity(m, known, as)
           fs == Consumers(q, Changed(m, a))
           f == UpdateIdentity(a, known, fs)
           dirty == ms \union as \union fs
           h == Reconcile(f, dirty)
<1>1. /\ g.request = q /\ g \in Graphs(q) /\ KeysTyped(q, g.key) /\ KeysCurrent(g) /\ Clean(g, {})
      /\ DOMAIN g.references = q.runs /\ DOMAIN g.key = Nodes(q)
  BY DEF Sound, Graphs
<1>2. /\ b \in Graphs(q) /\ b.key = g.key /\ b.found = g.found /\ b.needed = g.needed
      /\ b.expanded = g.expanded /\ b.ready = g.ready /\ b.missing = g.missing /\ b.prune = g.prune
      /\ b.references = [g.references EXCEPT ![r] = trajectories[r]]
  <2>1. r \in Runs /\ trajectories[r] \in References
    BY Requested
  <2>2. [g.references EXCEPT ![r] = trajectories[r]] \in [q.runs -> References]
    BY <1>1, <2>1 DEF Graphs
  <2>3. b = [g EXCEPT !.references = [g.references EXCEPT ![r] = trajectories[r]]]
    BY <1>1 DEF Graphs
  <2> HIDE DEF b
  <2> QED BY <1>1, <2>2, <2>3 DEF Graphs
<1> HIDE DEF b
<1>3. ms \subseteq MetricNodes(q) /\ ms \in SUBSET Nodes(q)
  BY DEF MetricsOf, Nodes
<1>4. /\ m \in Graphs(q) /\ SameDemand(b, m) /\ KeysTyped(q, m.key) /\ Relooked(b, m, known)
      /\ \A n \in Nodes(q) :
           m.key[n] = IF n \in ms THEN Identity(q, n, b.references, b.key) ELSE b.key[n]
  BY <1>1, <1>2, <1>3, IdentitiesUpdated
<1> HIDE DEF m
<1>5. as \in SUBSET Nodes(q)
  BY DEF Consumers
<1>6. /\ a \in Graphs(q) /\ SameDemand(m, a) /\ KeysTyped(q, a.key) /\ Relooked(m, a, known)
      /\ \A n \in Nodes(q) :
           a.key[n] = IF n \in as THEN Identity(q, n, m.references, m.key) ELSE m.key[n]
  BY <1>4, <1>5, IdentitiesUpdated
<1> HIDE DEF a
<1>7. fs \in SUBSET Nodes(q)
  BY DEF Consumers
<1>8. /\ f \in Graphs(q) /\ SameDemand(a, f) /\ KeysTyped(q, f.key) /\ Relooked(a, f, known)
      /\ \A n \in Nodes(q) :
           f.key[n] = IF n \in fs THEN Identity(q, n, a.references, a.key) ELSE a.key[n]
  BY <1>6, <1>7, IdentitiesUpdated
<1> HIDE DEF f
<1>9. /\ f.references = b.references /\ f.needed = g.needed /\ f.expanded = g.expanded
      /\ f.ready = g.ready /\ f.missing = g.missing /\ f.prune = g.prune
      /\ m.references = b.references /\ a.references = b.references
      /\ b.request = q /\ m.request = q /\ a.request = q /\ f.request = q
  BY <1>2, <1>4, <1>6, <1>8 DEF SameDemand, Graphs
\* each level is changed by its own update
<1>10. Changed(b, m) = {n \in Nodes(q) : g.key[n] # m.key[n]}
  BY <1>1, <1>2 DEF Changed
<1>11. Changed(m, a) = {n \in Nodes(q) : m.key[n] # a.key[n]}
  BY <1>4 DEF Changed, Graphs
<1>12. Changed(b, m) \subseteq ms /\ \A n \in ms : n[1] = "metric"
  BY <1>2, <1>3, <1>4, <1>10, NodeKinds
<1>13. \A n \in as : n[1] = "aggregate"
  BY <1>5, <1>12, InputKinds DEF Consumers
<1>14. Changed(m, a) \subseteq as
  BY <1>6, <1>11
<1>15. \A n \in fs : n[1] = "figure"
  BY <1>7, <1>13, <1>14, InputKinds DEF Consumers
<1>16. ASSUME NEW n \in Nodes(q)
       PROVE  /\ n[1] = "metric" => f.key[n] = m.key[n] /\ a.key[n] = m.key[n]
              /\ n[1] = "aggregate" => f.key[n] = a.key[n] /\ m.key[n] = g.key[n]
              /\ n[1] = "figure" => a.key[n] = g.key[n] /\ m.key[n] = g.key[n]
  BY <1>2, <1>4, <1>6, <1>8, <1>12, <1>13, <1>15
<1>17. \A n \in Nodes(q) : n \notin dirty => f.key[n] = g.key[n]
  BY <1>2, <1>4, <1>6, <1>8
<1>18. ASSUME NEW n \in Nodes(q), n \notin dirty, NEW d \in Inputs(q, n)
       PROVE  f.key[d] = g.key[d]
  <2>1. d \in Nodes(q) /\ d[1] \in {"metric", "aggregate"}
    BY InputKinds, NodeKinds
  <2>2. CASE d[1] = "metric"
    <3>1. d \notin Changed(b, m)
      BY <1>18 DEF Consumers
    <3> QED BY <1>10, <1>16, <2>1, <2>2, <3>1
  <2>3. CASE d[1] = "aggregate"
    <3>1. d \notin Changed(m, a)
      BY <1>18 DEF Consumers
    <3> QED BY <1>11, <1>16, <2>1, <2>3, <3>1
  <2> QED BY <2>1, <2>2, <2>3
<1>19. ASSUME NEW n \in Nodes(q) PROVE f.key[n] = Identity(q, n, f.references, f.key)
  <2>1. CASE n[1] = "metric"
    <3>1. CASE n \in ms
      <4>1. f.key[n] = Identity(q, n, b.references, b.key)
        BY <1>4, <1>16, <2>1, <3>1
      <4>2. Identity(q, n, b.references, b.key) = Identity(q, n, f.references, f.key)
        BY <1>9, <2>1, IdentityIsLocal
      <4> QED BY <4>1, <4>2
    <3>2. CASE n \notin ms
      <4>1. n[3] # r /\ n[3] \in q.runs
        BY <2>1, <3>2, NodeKinds DEF MetricsOf
      <4>2. f.references[n[3]] = g.references[n[3]]
        BY <1>1, <1>2, <1>9, <4>1
      <4>3. Identity(q, n, g.references, g.key) = Identity(q, n, f.references, f.key)
        BY <2>1, <4>2, IdentityIsLocal
      <4>4. f.key[n] = g.key[n]
        BY <1>2, <1>4, <1>16, <2>1, <3>2
      <4> QED BY <1>1, <4>3, <4>4 DEF KeysCurrent
    <3> QED BY <3>1, <3>2
  <2>2. CASE n[1] = "aggregate"
    <3>1. \A d \in Inputs(q, n) : d \in Nodes(q) /\ d[1] = "metric"
      BY <2>2, InputKinds
    <3>2. \A d \in Inputs(q, n) : m.key[d] = f.key[d]
      BY <1>16, <3>1
    <3>3. CASE n \in as
      <4>1. f.key[n] = Identity(q, n, m.references, m.key)
        BY <1>6, <1>16, <2>2, <3>3
      <4>2. Identity(q, n, m.references, m.key) = Identity(q, n, f.references, f.key)
        BY <2>2, <3>2, IdentityIsLocal
      <4> QED BY <4>1, <4>2
    <3>4. CASE n \notin as
      <4>1. n \notin dirty
        BY <1>12, <1>15, <2>2, <3>4
      <4>2. Identity(q, n, g.references, g.key) = Identity(q, n, f.references, f.key)
        BY <1>18, <2>2, <4>1, IdentityIsLocal
      <4> QED BY <1>1, <1>17, <4>1, <4>2 DEF KeysCurrent
    <3> QED BY <3>3, <3>4
  <2>3. CASE n[1] = "figure"
    <3>1. \A d \in Inputs(q, n) : d \in Nodes(q) /\ d[1] = "aggregate"
      BY <2>3, InputKinds
    <3>2. \A d \in Inputs(q, n) : a.key[d] = f.key[d]
      BY <1>16, <3>1
    <3>3. CASE n \in fs
      <4>1. f.key[n] = Identity(q, n, a.references, a.key)
        BY <1>8, <3>3
      <4>2. Identity(q, n, a.references, a.key) = Identity(q, n, f.references, f.key)
        BY <2>3, <3>2, IdentityIsLocal
      <4> QED BY <4>1, <4>2
    <3>4. CASE n \notin fs
      <4>1. n \notin dirty
        BY <1>12, <1>13, <2>3, <3>4
      <4>2. Identity(q, n, g.references, g.key) = Identity(q, n, f.references, f.key)
        BY <1>18, <2>3, <4>1, IdentityIsLocal
      <4> QED BY <1>1, <1>17, <4>1, <4>2 DEF KeysCurrent
    <3> QED BY <3>3, <3>4
  <2> QED BY <2>1, <2>2, <2>3, NodeKinds
<1>20. \A n \in Nodes(q) :
         n \in f.found <=> IF f.key[n] = g.key[n] THEN n \in g.found ELSE f.key[n] \in known
  <2> TAKE n \in Nodes(q)
  <2>1. /\ n \in m.found <=> IF m.key[n] = g.key[n] THEN n \in g.found ELSE m.key[n] \in known
        /\ n \in a.found <=> IF a.key[n] = m.key[n] THEN n \in m.found ELSE a.key[n] \in known
        /\ n \in f.found <=> IF f.key[n] = a.key[n] THEN n \in a.found ELSE f.key[n] \in known
    BY <1>2, <1>4, <1>6, <1>8, <1>9 DEF Relooked
  <2>2. n[1] \in {"metric", "aggregate", "figure"}
    BY NodeKinds
  <2> QED BY <1>16, <2>1, <2>2
<1>21. Clean(f, dirty)
  <2>1. Linked(f)
    BY <1>1, <1>9 DEF Linked, Clean
  <2>2. ASSUME NEW n \in Nodes(q) \ dirty PROVE Right(f, n)
    <3>1. Right(g, n)
      BY <1>1 DEF Clean
    <3>2. n \in f.found <=> n \in g.found
      BY <1>17, <1>20
    <3>3. CanRun(f, n) <=> CanRun(g, n)
      <4>1. CASE n[1] = "metric"
        <5>1. n[3] # r /\ n[3] \in q.runs
          BY <4>1, NodeKinds DEF MetricsOf
        <5> QED BY <1>1, <1>2, <1>9, <4>1, <5>1 DEF CanRun
      <4>2. CASE n[1] # "metric"
        <5>1. \A d \in Inputs(q, n) : d \in f.found <=> d \in g.found
          BY <1>18, <1>20, InputKinds
        <5> QED BY <1>1, <1>9, <4>2, <5>1 DEF CanRun
      <4> QED BY <4>1, <4>2
    <3> QED BY <1>9, <3>1, <3>2, <3>3 DEF Right, IsWanted
  <2> QED BY <1>9, <2>1, <2>2 DEF Clean
<1>22. dirty \in SUBSET Nodes(q)
  BY <1>3, <1>5, <1>7
<1> HIDE DEF dirty
<1>23. h \in Graphs(q) /\ SameCache(f, h) /\ Clean(h, {})
  BY <1>8, <1>21, <1>22, ReconcileCleans
<1> HIDE DEF h
<1>24. h.request = q
  BY <1>23 DEF Graphs
<1>25. KeysTyped(q, h.key) /\ KeysCurrent(h)
  BY <1>8, <1>19, <1>23, <1>24 DEF SameCache, KeysTyped, KeysCurrent
<1>26. Relooked(g, h, known)
  BY <1>1, <1>20, <1>23 DEF SameCache, Relooked
<1>27. h = Refresh(g, trajectories, known, r)
  BY <1>1 DEF Refresh, h, f, a, m, b, dirty
<1> QED BY <1>2, <1>9, <1>23, <1>25, <1>26, <1>27 DEF Sound, SameCache
\* A new graph looks everything up.
LEMMA ConstructSound ==
  ASSUME NEW q \in AllRequests, NEW trajectories \in [Runs -> References], NEW known, None \notin known
  PROVE  LET g == Construct(q, trajectories, known)
         IN /\ Sound(q, g) /\ g.prune = (q.met = "until_aggregated")
            /\ g.references = [r \in q.runs |-> trajectories[r]]
            /\ \A n \in Nodes(q) : n \in g.found <=> g.key[n] \in known
<1> DEFINE b == [request    |-> q,
                 references |-> [r \in q.runs |-> trajectories[r]],
                 key        |-> [n \in Nodes(q) |-> None],
                 found      |-> {},
                 needed     |-> [n \in Nodes(q) |-> IF n \in Targets(q) THEN {<<"request">>} ELSE {}],
                 expanded   |-> {},
                 ready      |-> {},
                 missing    |-> {},
                 prune      |-> q.met = "until_aggregated"]
           m == UpdateIdentity(b, known, MetricNodes(q))
           a == UpdateIdentity(m, known, AggregateNodes(q))
           f == UpdateIdentity(a, known, FigureNodes(q))
           g == Reconcile(f, Nodes(q))
<1>1. /\ b \in Graphs(q) /\ b.references = [r \in q.runs |-> trajectories[r]] /\ b.found = {}
      /\ b.expanded = {} /\ b.missing = {} /\ b.prune = (q.met = "until_aggregated")
      /\ \A n \in Nodes(q) : b.key[n] = None /\ b.needed[n] = Base(q, n)
  <2>1. [r \in q.runs |-> trajectories[r]] \in [q.runs -> References]
    BY Requested
  <2> QED BY <2>1 DEF Graphs, Base
<1>2. KeysTyped(q, b.key)
  BY <1>1 DEF KeysTyped
<1> HIDE DEF b
<1>3. /\ MetricNodes(q) \in SUBSET Nodes(q) /\ AggregateNodes(q) \in SUBSET Nodes(q)
      /\ FigureNodes(q) \in SUBSET Nodes(q)
  BY DEF Nodes
<1>4. /\ m \in Graphs(q) /\ SameDemand(b, m) /\ KeysTyped(q, m.key) /\ Relooked(b, m, known)
      /\ \A n \in Nodes(q) :
           m.key[n] = IF n \in MetricNodes(q) THEN Identity(q, n, b.references, b.key) ELSE b.key[n]
  BY <1>1, <1>2, <1>3, IdentitiesUpdated
<1> HIDE DEF m
<1>5. /\ a \in Graphs(q) /\ SameDemand(m, a) /\ KeysTyped(q, a.key) /\ Relooked(m, a, known)
      /\ \A n \in Nodes(q) :
           a.key[n] = IF n \in AggregateNodes(q) THEN Identity(q, n, m.references, m.key) ELSE m.key[n]
  BY <1>3, <1>4, IdentitiesUpdated
<1> HIDE DEF a
<1>6. /\ f \in Graphs(q) /\ SameDemand(a, f) /\ KeysTyped(q, f.key) /\ Relooked(a, f, known)
      /\ \A n \in Nodes(q) :
           f.key[n] = IF n \in FigureNodes(q) THEN Identity(q, n, a.references, a.key) ELSE a.key[n]
  BY <1>3, <1>5, IdentitiesUpdated
<1> HIDE DEF f
<1>7. /\ f.references = b.references /\ f.needed = b.needed /\ f.expanded = {} /\ f.missing = {}
      /\ m.references = b.references /\ a.references = b.references /\ f.prune = b.prune
      /\ b.request = q /\ m.request = q /\ a.request = q /\ f.request = q
  BY <1>1, <1>4, <1>5, <1>6 DEF SameDemand, Graphs
<1>8. ASSUME NEW n \in Nodes(q)
      PROVE  /\ n[1] = "metric" => f.key[n] = m.key[n] /\ a.key[n] = m.key[n]
             /\ n[1] = "aggregate" => f.key[n] = a.key[n] /\ m.key[n] = None
             /\ n[1] = "figure" => a.key[n] = None /\ m.key[n] = None
  BY <1>1, <1>4, <1>5, <1>6, NodeKinds
<1>9. ASSUME NEW n \in Nodes(q) PROVE f.key[n] = Identity(q, n, f.references, f.key)
  <2>1. CASE n[1] = "metric"
    <3>1. f.key[n] = Identity(q, n, b.references, b.key)
      BY <1>4, <1>8, <2>1, NodeKinds
    <3>2. Identity(q, n, b.references, b.key) = Identity(q, n, f.references, f.key)
      BY <1>7, <2>1, IdentityIsLocal
    <3> QED BY <3>1, <3>2
  <2>2. CASE n[1] = "aggregate"
    <3>1. f.key[n] = Identity(q, n, m.references, m.key)
      BY <1>5, <1>8, <2>2, NodeKinds
    <3>2. \A d \in Inputs(q, n) : m.key[d] = f.key[d]
      BY <1>8, <2>2, InputKinds
    <3>3. Identity(q, n, m.references, m.key) = Identity(q, n, f.references, f.key)
      BY <2>2, <3>2, IdentityIsLocal
    <3> QED BY <3>1, <3>3
  <2>3. CASE n[1] = "figure"
    <3>1. f.key[n] = Identity(q, n, a.references, a.key)
      BY <1>6, <2>3, NodeKinds
    <3>2. \A d \in Inputs(q, n) : a.key[d] = f.key[d]
      BY <1>8, <2>3, InputKinds
    <3>3. Identity(q, n, a.references, a.key) = Identity(q, n, f.references, f.key)
      BY <2>3, <3>2, IdentityIsLocal
    <3> QED BY <3>1, <3>3
  <2> QED BY <2>1, <2>2, <2>3, NodeKinds
<1>10. \A n \in Nodes(q) : n \in f.found <=> f.key[n] \in known
  <2> TAKE n \in Nodes(q)
  <2>1. /\ n \in m.found <=> m.key[n] # None /\ m.key[n] \in known
        /\ n \in a.found <=> IF a.key[n] = m.key[n] THEN n \in m.found ELSE a.key[n] \in known
        /\ n \in f.found <=> IF f.key[n] = a.key[n] THEN n \in a.found ELSE f.key[n] \in known
    BY <1>1, <1>4, <1>5, <1>6, <1>7 DEF Relooked
  <2>2. n[1] \in {"metric", "aggregate", "figure"}
    BY NodeKinds
  <2> QED BY <1>8, <2>1, <2>2
<1>11. Clean(f, Nodes(q))
  <2>1. Linked(f)
    BY <1>1, <1>7 DEF Linked
  <2> QED BY <1>7, <2>1 DEF Clean
<1>12. g \in Graphs(q) /\ SameCache(f, g) /\ Clean(g, {})
  BY <1>6, <1>11, ReconcileCleans
<1> HIDE DEF g
<1>13. g.request = q
  BY <1>12 DEF Graphs
<1>14. Sound(q, g)
  BY <1>6, <1>9, <1>12, <1>13 DEF SameCache, KeysTyped, KeysCurrent, Sound
<1>15. g = Construct(q, trajectories, known)
  BY DEF Construct, g, f, a, m, b
<1> QED BY <1>1, <1>7, <1>10, <1>12, <1>14, <1>15 DEF SameCache

LEMMA PublishedSound ==
  ASSUME NEW q \in AllRequests, NEW g, Sound(q, g), NEW n \in Nodes(q)
  PROVE  LET h == Published(g, n)
         IN /\ Sound(q, h) /\ h.references = g.references /\ h.key = g.key /\ h.prune = g.prune
            /\ h.found = g.found \union {n}
<1> DEFINE b == [g EXCEPT !.found = g.found \union {n}]
           dirty == {n} \union Consumers(q, {n})
           h == Reconcile(b, dirty)
<1>1. g.request = q /\ g \in Graphs(q) /\ KeysTyped(q, g.key) /\ KeysCurrent(g) /\ Clean(g, {})
  BY DEF Sound, Graphs
<1>2. /\ b \in Graphs(q) /\ SameDemand(g, b) /\ b.key = g.key /\ b.found = g.found \union {n}
      /\ b.request = q
  BY <1>1 DEF Graphs, SameDemand
<1> HIDE DEF b
<1>3. dirty \in SUBSET Nodes(q)
  BY DEF Consumers
<1>4. Clean(b, dirty)
  <2>1. Linked(b)
    BY <1>1, <1>2 DEF Linked, Clean, SameDemand
  <2>2. ASSUME NEW o \in Nodes(q) \ dirty PROVE Right(b, o)
    <3>1. Right(g, o)
      BY <1>1 DEF Clean
    <3>2. n \notin Inputs(q, o) /\ o # n
      BY DEF Consumers
    <3>3. CanRun(b, o) <=> CanRun(g, o)
      BY <1>1, <1>2, <3>2 DEF CanRun, SameDemand
    <3> QED BY <1>2, <3>1, <3>2, <3>3 DEF Right, IsWanted, SameDemand
  <2> QED BY <1>2, <2>1, <2>2 DEF Clean
<1> HIDE DEF dirty
<1>5. h \in Graphs(q) /\ SameCache(b, h) /\ Clean(h, {})
  BY <1>2, <1>3, <1>4, ReconcileCleans
<1> HIDE DEF h
<1>6. h.request = q
  BY <1>5 DEF Graphs
<1>7. Sound(q, h)
  BY <1>1, <1>2, <1>5, <1>6 DEF Sound, SameCache, SameDemand, KeysTyped, KeysCurrent
<1>8. h = Published(g, n)
  BY <1>1 DEF Published, h, b, dirty
<1> QED BY <1>2, <1>5, <1>7, <1>8 DEF SameCache, SameDemand

\* What is consumed are inputs of aggregates that are there.
LEMMA ConsumedInputs ==
  ASSUME NEW q \in AllRequests, NEW g \in Graphs(q), NEW S
  PROVE  /\ Consumed(g, S) \subseteq MetricNodes(q)
         /\ \A d \in Consumed(g, S) :
              \E a \in S \intersect AggregateNodes(q) \intersect g.found : d \in Inputs(q, a)
<1>1. g.request = q
  BY DEF Graphs
<1>2. ASSUME NEW d \in Consumed(g, S)
      PROVE  \E a \in S \intersect AggregateNodes(q) \intersect g.found : d \in Inputs(q, a)
  BY <1>1, <1>2 DEF Consumed
<1>3. ASSUME NEW d \in Consumed(g, S) PROVE d \in MetricNodes(q)
  <2>1. PICK a \in AggregateNodes(q) : d \in Inputs(q, a)
    BY <1>2
  <2>2. a \in Nodes(q) /\ a[1] = "aggregate"
    BY NodeKinds DEF Nodes
  <2> QED BY <2>1, <2>2, InputKinds
<1> QED BY <1>2, <1>3

\* A metric that is released was not in demand, and its aggregate is not either.
LEMMA ReleaseSound ==
  ASSUME NEW q \in AllRequests, NEW g, Sound(q, g), NEW S
  PROVE  LET h == Release(g, S)
         IN /\ Sound(q, h) /\ SameDemand(g, h) /\ h.key = g.key
            /\ h.found = g.found \ Consumed(g, S)
<1> DEFINE C == Consumed(g, S)
           h == Release(g, S)
<1>1. g.request = q /\ g \in Graphs(q) /\ KeysTyped(q, g.key) /\ KeysCurrent(g) /\ Clean(g, {})
  BY DEF Sound, Graphs
<1>2. h = [g EXCEPT !.found = g.found \ C]
  BY DEF Release
<1> HIDE DEF C
<1>3. h \in Graphs(q) /\ SameDemand(g, h) /\ h.key = g.key /\ h.found = g.found \ C /\ h.request = q
  BY <1>1, <1>2 DEF Graphs, SameDemand
<1> HIDE DEF h
<1>4. /\ C \subseteq MetricNodes(q)
      /\ \A d \in C : \E a \in AggregateNodes(q) \intersect g.found : d \in Inputs(q, a)
  BY <1>1, ConsumedInputs DEF C
<1>5. \A d \in C : d[1] = "metric" /\ d \in Nodes(q)
  BY <1>4, NodeKinds DEF Nodes
<1>6. ASSUME NEW d \in C PROVE g.needed[d] = {}
  <2>1. PICK a \in AggregateNodes(q) \intersect g.found : d \in Inputs(q, a)
    BY <1>4
  <2>2. d \notin Targets(q)
    BY <1>5, NodeKinds DEF Targets
  <2>3. ASSUME NEW n \in g.expanded, d \in Inputs(q, n) PROVE FALSE
    <3>1. n \in Nodes(q)
      BY <1>1 DEF Graphs
    <3>2. n \in AggregateNodes(q)
      BY <1>5, <2>3, <3>1, InputKinds, NodeKinds
    <3>3. n = a
      BY <2>1, <2>3, <3>2, OneConsumer
    <3>4. IsWanted(g, n)
      BY <1>1, <3>1 DEF Clean, Right
    <3> QED BY <2>1, <3>3, <3>4 DEF IsWanted
  <2>4. g.needed[d] = Base(q, d) \union {n \in g.expanded : d \in Inputs(q, n)}
    BY <1>1, <1>5 DEF Clean, Linked
  <2> QED BY <2>2, <2>3, <2>4 DEF Base
<1>7. ASSUME NEW n \in Nodes(q) PROVE IsWanted(h, n) <=> IsWanted(g, n)
  BY <1>3, <1>6 DEF IsWanted, SameDemand
<1>8. ASSUME NEW n \in Nodes(q) PROVE IsWanted(g, n) => (CanRun(h, n) <=> CanRun(g, n))
  <2>1. CASE n[1] = "metric"
    BY <1>1, <1>3, <2>1 DEF CanRun, SameDemand
  <2>2. CASE n[1] # "metric"
    <3>1. ASSUME NEW d \in Inputs(q, n), d \in C PROVE n \in g.found
      <4>1. PICK a \in AggregateNodes(q) \intersect g.found : d \in Inputs(q, a)
        BY <1>4, <3>1
      <4>2. n \in AggregateNodes(q)
        BY <1>5, <3>1, InputKinds, NodeKinds
      <4>3. n = a
        BY <3>1, <4>1, <4>2, OneConsumer
      <4> QED BY <4>1, <4>3
    <3>2. IsWanted(g, n) => \A d \in Inputs(q, n) : d \notin C
      BY <3>1 DEF IsWanted
    <3> QED BY <1>1, <1>3, <2>2, <3>2 DEF CanRun
  <2> QED BY <2>1, <2>2
<1>9. \A n \in Nodes(q) : Right(h, n)
  <2> TAKE n \in Nodes(q)
  <2>1. Right(g, n)
    BY <1>1 DEF Clean
  <2> QED BY <1>3, <1>7, <1>8, <2>1 DEF Right, SameDemand
<1>10. Clean(h, {})
  <2>1. Linked(h)
    BY <1>1, <1>3 DEF Linked, Clean, SameDemand
  <2> QED BY <1>3, <1>9, <2>1 DEF Clean
<1>11. Sound(q, h)
  BY <1>1, <1>3, <1>10 DEF Sound, SameDemand, KeysTyped, KeysCurrent
<1> QED BY <1>3, <1>11 DEF h, C

-----------------------------------------------------------------------------
(* What the handlers do to the graph and the disk *)

LEMMA KnownKeys ==
  ASSUME InvTypes
  PROVE  None \notin cache
BY NoneAssumption DEF InvTypes

LEMMA RunningGraph ==
  ASSUME NEW q \in AllRequests, NEW g, Sound(q, g)
  PROVE  /\ g # None /\ g.request = q /\ g \in Graphs(q) /\ DOMAIN g.key = Nodes(q)
         /\ DOMAIN g.references = q.runs /\ g.references \in [q.runs -> References]
         /\ g.found \subseteq Nodes(q) /\ g.ready \subseteq Nodes(q) /\ g.missing \subseteq Nodes(q)
         /\ g.expanded \subseteq Nodes(q)
         /\ \A n \in Nodes(q) : g.key[n] \in {None} \union KeysOf(n)
         /\ \A n \in Nodes(q) : g.key[n] = Identity(q, n, g.references, g.key)
         /\ \A n \in Nodes(q) : Right(g, n)
         /\ g.prune \in BOOLEAN
<1>1. g \in Graphs(q) /\ KeysTyped(q, g.key) /\ KeysCurrent(g) /\ Clean(g, {})
  BY DEF Sound
<1>2. g.request = q
  BY <1>1 DEF Graphs
<1> QED BY <1>1, <1>2, NoneAssumption DEF Graphs, KeysTyped, KeysCurrent, Clean

\* What is ready has an identity.
LEMMA ReadyHasKey ==
  ASSUME NEW q \in AllRequests, NEW g, Sound(q, g), \A n \in g.found : g.key[n] # None,
         NEW n \in g.ready
  PROVE  n \in Nodes(q) /\ g.key[n] \in KeysOf(n) /\ g.key[n] # None
<1>1. n \in Nodes(q) /\ g.request = q /\ g.references \in [q.runs -> References]
  BY RunningGraph
<1>2. CanRun(g, n)
  BY <1>1, RunningGraph DEF Right
<1>3. n[1] = "metric" => g.references[n[3]].trajectory # "none"
  BY <1>2 DEF CanRun
<1>4. \A d \in Inputs(q, n) : g.key[d] \in KeysOf(d)
  <2>1. n[1] = "metric" => Inputs(q, n) = {}
    BY <1>1, InputKinds
  <2>2. n[1] # "metric" => Inputs(q, n) \subseteq g.found
    BY <1>1, <1>2 DEF CanRun
  <2> QED BY <1>1, <2>1, <2>2, RunningGraph
<1>5. g.key[n] \in KeysOf(n)
  BY <1>1, <1>3, <1>4, IdentityThere, RunningGraph
<1> QED BY <1>1, <1>5, NodesKnown, KeysApart

\* Observations go only behind metrics that are durable.
Pruning(r) ==
  \/ saved' = saved
  \/ /\ saved[r].trajectory = "retained" /\ saved' = [saved EXCEPT ![r].trajectory = "pruned"]
     /\ MetricProofs(graph', cache, r)

LEMMA AnalyzedTyped ==
  ASSUME InvTypes, NEW g, NEW r \in Runs, saved' = Analyzed(g, r, saved), graph' = g
  PROVE  Pruning(r) /\ saved' \in [Runs -> References]
<1>1. saved[r] \in References
  BY DEF InvTypes
<1>2. CASE saved' = saved
  BY <1>2 DEF InvTypes, Pruning
<1>3. CASE saved' # saved
  <2>1. /\ MetricProofs(g, cache, r) /\ saved[r].trajectory = "retained"
        /\ saved' = [saved EXCEPT ![r].trajectory = "pruned"]
    BY <1>3 DEF Analyzed
  <2>2. [saved[r] EXCEPT !.trajectory = "pruned"] \in References
    BY <1>1, <2>1 DEF References
  <2> QED BY <2>1, <2>2 DEF InvTypes, Pruning
<1> QED BY <1>2, <1>3

LEMMA SimulationDoneKeeps ==
  ASSUME InvTypes, InvGraph, Running, NEW r \in graph.request.runs, SimulationDone(r)
  PROVE  /\ InvGraph' /\ Running' /\ graph'.request = graph.request /\ graph'.prune = graph.prune
         /\ graph'.references = [graph.references EXCEPT ![r] = saved[r]]
         /\ Relooked(graph, graph', cache)
         /\ saved' \in [Runs -> References] /\ cache' = cache /\ Pruning(r)
<1> DEFINE q == graph.request
<1>1. q \in AllRequests /\ Sound(q, graph) /\ r \in Runs
  BY Requested DEF InvGraph
<1>2. PICK h : h = Refresh(graph, saved, cache, r)
  OBVIOUS
<1>3. graph' = h /\ saved' = Analyzed(h, r, saved) /\ cache' = cache
  BY <1>2 DEF SimulationDone
<1>4. /\ Sound(q, h) /\ h.prune = graph.prune /\ Relooked(graph, h, cache)
      /\ h.references = [graph.references EXCEPT ![r] = saved[r]]
  BY <1>1, <1>2, RefreshSound DEF InvTypes
<1>5. h # None /\ h.request = q /\ h.found \subseteq Nodes(q)
  BY <1>1, <1>4, RunningGraph
<1>6. \A n \in h.found : h.key[n] # None
  BY <1>1, <1>4, <1>5, KnownKeys DEF Relooked, InvGraph
<1>7. InvGraph'
  BY <1>1, <1>3, <1>4, <1>5, <1>6 DEF InvGraph
<1>8. Pruning(r) /\ saved' \in [Runs -> References]
  BY <1>1, <1>3, AnalyzedTyped
<1> QED BY <1>3, <1>4, <1>5, <1>7, <1>8 DEF Running

\* Outputs N were published, metrics C released.
Moved(N, C) ==
  /\ Running' /\ graph'.request = graph.request /\ graph'.references = graph.references
  /\ graph'.key = graph.key /\ graph'.found = (graph.found \union N) \ C
  /\ C \subseteq MetricNodes(graph.request)
  /\ \A d \in C : \E a \in (graph.found \union N) \ C : a[1] = "aggregate" /\ d \in Inputs(graph.request, a)

LEMMA MetricDoneKeeps ==
  ASSUME InvTypes, InvGraph, Running, NEW n \in Nodes(graph.request), n[1] = "metric",
         graph.key[n] # None, MetricDone(n)
  PROVE  /\ InvGraph' /\ Moved({n}, {}) /\ graph'.prune = graph.prune
         /\ saved' \in [Runs -> References] /\ cache' = cache /\ Pruning(n[3])
<1> DEFINE q == graph.request
<1>1. q \in AllRequests /\ Sound(q, graph)
  BY DEF InvGraph
<1>2. PICK h : h = Published(graph, n)
  OBVIOUS
<1>3. graph' = h /\ saved' = Analyzed(h, n[3], saved) /\ cache' = cache
  BY <1>2 DEF MetricDone
<1>4. /\ Sound(q, h) /\ h.references = graph.references /\ h.key = graph.key /\ h.prune = graph.prune
      /\ h.found = graph.found \union {n}
  BY <1>1, <1>2, PublishedSound
<1>5. h # None /\ h.request = q
  BY <1>1, <1>4, RunningGraph
<1>6. InvGraph'
  BY <1>1, <1>3, <1>4, <1>5 DEF InvGraph
<1>7. n[3] \in Runs
  BY <1>1, NodeKinds, Requested
<1>8. Pruning(n[3]) /\ saved' \in [Runs -> References]
  BY <1>3, <1>7, AnalyzedTyped
<1> QED BY <1>3, <1>4, <1>5, <1>6, <1>8 DEF Running, Moved

\* Publishing n and releasing what validated aggregates consumed
LEMMA ReleaseKeeps ==
  ASSUME InvGraph, Running, NEW n \in Nodes(graph.request), graph.key[n] # None,
         graph' = Release(Published(graph, n), {n})
  PROVE  LET C == Consumed(Published(graph, n), {n})
         IN /\ InvGraph' /\ Moved({n}, C) /\ graph'.prune = graph.prune
            /\ Published(graph, n).key = graph.key
            /\ n \notin C /\ \A d \in C : n[1] = "aggregate" /\ d \in Inputs(graph.request, n)
<1> DEFINE q == graph.request
<1>1. q \in AllRequests /\ Sound(q, graph)
  BY DEF InvGraph
<1>2. PICK h : h = Published(graph, n)
  OBVIOUS
<1>3. /\ Sound(q, h) /\ h.references = graph.references /\ h.key = graph.key /\ h.prune = graph.prune
      /\ h.found = graph.found \union {n}
  BY <1>1, <1>2, PublishedSound
<1>4. PICK C : C = Consumed(h, {n})
  OBVIOUS
<1>5. /\ Sound(q, graph') /\ SameDemand(h, graph') /\ graph'.key = h.key
      /\ graph'.found = h.found \ C
  BY <1>1, <1>2, <1>3, <1>4, ReleaseSound
<1>6. h \in Graphs(q) /\ graph' # None /\ graph'.request = q
  BY <1>1, <1>3, <1>5, RunningGraph
<1>7. /\ C \subseteq MetricNodes(q)
      /\ \A d \in C : \E a \in {n} \intersect AggregateNodes(q) \intersect h.found : d \in Inputs(q, a)
  BY <1>1, <1>4, <1>6, ConsumedInputs
<1>8. \A d \in C : n[1] = "aggregate" /\ d \in Inputs(q, n) /\ d[1] = "metric"
  BY <1>1, <1>7, NodeKinds
<1>9. n \notin C
  BY <1>8
<1>10. InvGraph'
  BY <1>1, <1>3, <1>5, <1>6 DEF InvGraph
<1>11. Moved({n}, C)
  BY <1>3, <1>5, <1>6, <1>7, <1>8, <1>9 DEF Moved, Running, SameDemand
<1> QED BY <1>2, <1>3, <1>4, <1>5, <1>8, <1>9, <1>10, <1>11 DEF SameDemand

LEMMA OutputDoneKeeps ==
  ASSUME InvTypes, InvGraph, Running, NEW n \in Nodes(graph.request), graph.key[n] # None,
         OutputDone(n)
  PROVE  \E C : /\ InvGraph' /\ Moved({n}, C) /\ graph'.prune = graph.prune /\ saved' = saved
                /\ cache' = cache \ {graph.key[d] : d \in C}
                /\ n \notin C /\ \A d \in C : n[1] = "aggregate" /\ d \in Inputs(graph.request, n)
<1>1. PICK h : h = Published(graph, n)
  OBVIOUS
<1>2. graph' = Release(h, {n}) /\ saved' = saved
      /\ cache' = cache \ {h.key[d] : d \in Consumed(h, {n})}
  BY <1>1 DEF OutputDone
<1>3. /\ InvGraph' /\ Moved({n}, Consumed(h, {n})) /\ graph'.prune = graph.prune
      /\ h.key = graph.key
      /\ n \notin Consumed(h, {n})
      /\ \A d \in Consumed(h, {n}) : n[1] = "aggregate" /\ d \in Inputs(graph.request, n)
  BY <1>1, <1>2, ReleaseKeeps
<1> QED BY <1>2, <1>3

LEMMA PruneExistingKeeps ==
  ASSUME InvTypes, InvGraph, PruneExisting
  PROVE  \E C : /\ InvGraph' /\ Moved({}, C) /\ ~graph'.prune /\ Running /\ graph.prune
                /\ cache' = cache \ {graph.key[d] : d \in C}
<1> DEFINE q == graph.request
           all == AggregateNodes(graph.request)
<1>1. Running /\ graph.prune
  BY DEF PruneExisting, MayTake, Live, Analyzing
<1>2. q \in AllRequests /\ Sound(q, graph)
  BY <1>1 DEF InvGraph
<1>3. PICK h : h = Release(graph, all)
  OBVIOUS
<1>4. PICK C : C = Consumed(graph, all)
  OBVIOUS
<1>5. /\ graph' = [h EXCEPT !.prune = FALSE] /\ cache' = cache \ {graph.key[d] : d \in C}
  BY <1>3, <1>4 DEF PruneExisting
<1>6. Sound(q, h) /\ SameDemand(graph, h) /\ h.key = graph.key /\ h.found = graph.found \ C
  BY <1>2, <1>3, <1>4, ReleaseSound
<1>7. /\ graph' \in Graphs(q) /\ graph'.request = q /\ graph'.references = h.references /\ graph'.key = h.key
      /\ graph'.found = h.found /\ graph'.needed = h.needed /\ graph'.expanded = h.expanded
      /\ graph'.ready = h.ready /\ graph'.missing = h.missing /\ graph'.prune = FALSE /\ h.request = q
  <2>1. h \in Graphs(q) /\ h.request = q
    BY <1>2, <1>6, RunningGraph
  <2> HIDE DEF q
  <2> QED BY <1>5, <2>1 DEF Graphs
<1>8. KeysTyped(q, h.key) /\ KeysCurrent(h) /\ Clean(h, {})
  BY <1>6 DEF Sound
<1>9. Clean(graph', {})
  <2>1. Linked(graph')
    BY <1>7, <1>8 DEF Clean, Linked
  <2>2. \A n \in Nodes(q) : Right(graph', n)
    BY <1>7, <1>8 DEF Clean, Right, IsWanted, CanRun
  <2> QED BY <1>7, <2>1, <2>2 DEF Clean
<1>10. Sound(q, graph')
  BY <1>7, <1>8, <1>9 DEF Sound, KeysTyped, KeysCurrent
<1>11. graph' # None
  BY <1>2, <1>10, RunningGraph
<1>12. InvGraph'
  BY <1>1, <1>2, <1>6, <1>7, <1>10 DEF InvGraph
<1>13. /\ C \subseteq MetricNodes(q)
       /\ \A d \in C : \E a \in AggregateNodes(q) \intersect graph.found : d \in Inputs(q, a)
  BY <1>2, <1>4, ConsumedInputs, RunningGraph
<1>14. \A d \in C : \E a \in graph.found \ C : a[1] = "aggregate" /\ d \in Inputs(q, a)
  BY <1>2, <1>13, NodeKinds
<1>15. Moved({}, C)
  BY <1>6, <1>7, <1>11, <1>13, <1>14 DEF Moved, Running, SameDemand
<1> QED BY <1>1, <1>5, <1>7, <1>12, <1>15

-----------------------------------------------------------------------------
(* The pool: workers *)

LEMMA TasksApart ==
  /\ \A r, s : Simulation(r) = Simulation(s) => r = s
  /\ \A r : Kind(Simulation(r)) = "simulation"
  /\ \A q \in AllRequests : \A n \in Nodes(q) : Kind(n) # "simulation" /\ \A r : n # Simulation(r)
<1>1. \A r, s : Simulation(r) = Simulation(s) => r = s
  BY DEF Simulation
<1>2. \A r : Kind(Simulation(r)) = "simulation"
  BY DEF Simulation, Kind
<1>3. \A q \in AllRequests : \A n \in Nodes(q) : Kind(n) # "simulation"
  BY NodeKinds DEF Kind
<1> QED BY <1>1, <1>2, <1>3

LEMMA AdvancedJob ==
  ASSUME NEW t \in DOMAIN work, NEW state, Advance(t, state), work[t] \in Jobs(t),
         state \in IF Kind(t) = "simulation" THEN SimulationStates ELSE JobStates
  PROVE  /\ DOMAIN work' = DOMAIN work /\ work'[t] \in Jobs(t) /\ work'[t].state = state
         /\ \A u \in DOMAIN work : u # t => work'[u] = work[u]
         /\ Kind(t) # "simulation" => work'[t].key = work[t].key /\ work'[t].inputs = work[t].inputs
<1>1. /\ DOMAIN work' = DOMAIN work /\ \A u \in DOMAIN work : u # t => work'[u] = work[u]
      /\ work'[t] = [work[t] EXCEPT !.state = state]
  BY DEF Advance
<1>2. CASE Kind(t) = "simulation"
  BY <1>1, <1>2 DEF Jobs
<1>3. CASE Kind(t) # "simulation"
  BY <1>1, <1>3 DEF Jobs
<1> QED BY <1>1, <1>2, <1>3

\* A worker changes nothing of the graph and of the accounts.
LEMMA WorkerKeeps ==
  ASSUME PoolInv, UNCHANGED <<study, graph, pending, active, stop, report, batch>>,
         NEW t \in DOMAIN work, DOMAIN work' = DOMAIN work, work'[t] \in Jobs(t),
         \A u \in DOMAIN work : u # t => work'[u] = work[u],
         saved' \in [Runs -> References], cache' \subseteq Keys(Revisions)
  PROVE  PoolInv'
<1>1. InvTypes'
  BY DEF PoolInv, InvTypes
<1>2. InvGraph'
  BY DEF PoolInv, InvGraph, Running
<1>3. Simulating' = Simulating /\ Running' = Running /\ Live' = Live
  BY DEF Simulating, Running, Live
<1>4. \A u \in DOMAIN work' : work'[u] \in Jobs(u)
  BY DEF PoolInv, InvPool
<1>5. InvPool'
  <2>1. active' = DOMAIN work' /\ (~Live' => DOMAIN work' = {})
    BY <1>3 DEF PoolInv, InvPool
  <2>2. Live' => /\ batch' = {}
                 /\ \A u \in DOMAIN work' : \/ u \in Nodes(graph'.request)
                                            \/ \E r \in graph'.request.runs : u = Simulation(r)
                 /\ pending' \subseteq graph'.request.runs /\ pending' \intersect Simulating' = {}
    BY <1>3 DEF PoolInv, InvPool
  <2>3. Running' => \A n \in batch' : n \in Nodes(graph'.request) /\ graph'.key[n] # None
    BY <1>3 DEF PoolInv, InvPool
  <2> QED BY <1>4, <2>1, <2>2, <2>3 DEF InvPool
<1>6. InvPrune'
  BY <1>3 DEF PoolInv, InvPrune
<1>7. InvCount'
  BY <1>3 DEF PoolInv, InvCount
<1> QED BY <1>1, <1>2, <1>5, <1>6, <1>7 DEF PoolInv

LEMMA PoolSimulate ==
  ASSUME PoolInv, UNCHANGED study, NEW r \in Runs, Simulate(r)
  PROVE  PoolInv'
<1> DEFINE t == Simulation(r)
<1>1. t \in DOMAIN work /\ Kind(t) = "simulation" /\ work[t] \in Jobs(t)
  BY TasksApart DEF Simulate, PoolInv, InvPool
<1>2. PICK state \in SimulationStates : Advance(t, state)
  BY DEF Simulate, SimulationStates
<1>3. /\ DOMAIN work' = DOMAIN work /\ work'[t] \in Jobs(t)
      /\ \A u \in DOMAIN work : u # t => work'[u] = work[u]
  BY <1>1, <1>2, AdvancedJob
<1>4. saved' \in [Runs -> References]
  <2>1. \A v \in Revisions : [trajectory |-> "retained", revision |-> v] \in References
    BY DEF References
  <2>2. study.revisions[r] \subseteq Revisions
    BY CoordinatorAssumption DEF PoolInv, InvTypes
  <2> QED BY <2>1, <2>2 DEF Simulate, PoolInv, InvTypes
<1>5. UNCHANGED <<cache, graph, pending, active, stop, report, batch>> /\ cache' \subseteq Keys(Revisions)
  BY DEF Simulate, svars, PoolInv, InvTypes
<1> HIDE DEF t
<1> QED BY <1>1, <1>3, <1>4, <1>5, WorkerKeeps

LEMMA PoolRead ==
  ASSUME PoolInv, UNCHANGED study, NEW n, Read(n)
  PROVE  PoolInv'
<1>1. n \in DOMAIN work /\ Kind(n) # "simulation" /\ work[n] \in Jobs(n)
  BY DEF Read, Derivations, PoolInv, InvPool
<1>2. PICK state \in JobStates : Advance(n, state)
  BY DEF Read, JobStates
<1>3. /\ DOMAIN work' = DOMAIN work /\ work'[n] \in Jobs(n)
      /\ \A u \in DOMAIN work : u # n => work'[u] = work[u]
  BY <1>1, <1>2, AdvancedJob
<1>4. UNCHANGED <<saved, cache, graph, pending, active, stop, report, batch>>
  BY DEF Read, svars, disk
<1>5. saved' \in [Runs -> References] /\ cache' \subseteq Keys(Revisions)
  BY <1>4 DEF PoolInv, InvTypes
<1> QED BY <1>1, <1>3, <1>4, <1>5, WorkerKeeps

LEMMA JobKey ==
  ASSUME PoolInv, NEW n \in Derivations
  PROVE  /\ Running /\ Live /\ n \in Nodes(graph.request) /\ n \in AllNodes
         /\ work[n] \in [state : JobStates, key : KeysOf(n), inputs : SUBSET ({None} \union Keys(Revisions))]
         /\ work[n].key \in Keys(Revisions) /\ work[n].key # None
<1>1. n \in DOMAIN work /\ Kind(n) # "simulation"
  BY DEF Derivations
<1>2. Live /\ Running
  BY <1>1 DEF PoolInv, InvPool, Live
<1>3. graph.request \in AllRequests
  BY <1>2 DEF PoolInv, InvGraph
<1>4. n \in Nodes(graph.request)
  BY <1>1, <1>2, TasksApart DEF PoolInv, InvPool
<1>5. n \in AllNodes
  BY <1>3, <1>4, NodesKnown
<1>6. work[n] \in [state : JobStates, key : KeysOf(n), inputs : SUBSET ({None} \union Keys(Revisions))]
  BY <1>1 DEF PoolInv, InvPool, Jobs
<1> QED BY <1>2, <1>4, <1>5, <1>6, KeysApart

LEMMA PoolPublish ==
  ASSUME PoolInv, UNCHANGED study, NEW n, Publish(n)
  PROVE  PoolInv'
<1>0. n \in Derivations /\ work[n].key \in Keys(Revisions)
  BY JobKey DEF Publish
<1>1. n \in DOMAIN work /\ Kind(n) # "simulation" /\ work[n] \in Jobs(n)
  BY <1>0 DEF Derivations, PoolInv, InvPool
<1>2. Advance(n, "published") /\ "published" \in JobStates
  BY DEF Publish, JobStates
<1>3. /\ DOMAIN work' = DOMAIN work /\ work'[n] \in Jobs(n)
      /\ \A u \in DOMAIN work : u # n => work'[u] = work[u]
  BY <1>1, <1>2, AdvancedJob
<1>4. UNCHANGED <<saved, graph, pending, active, stop, report, batch>>
      /\ cache' = cache \union {work[n].key}
  BY DEF Publish, svars
<1>5. saved' \in [Runs -> References] /\ cache' \subseteq Keys(Revisions)
  BY <1>0, <1>4 DEF PoolInv, InvTypes
<1> QED BY <1>1, <1>3, <1>4, <1>5, WorkerKeeps

LEMMA PoolRaise ==
  ASSUME PoolInv, UNCHANGED study, NEW t, Raise(t)
  PROVE  PoolInv'
<1>1. t \in DOMAIN work /\ work[t] \in Jobs(t)
  BY DEF Raise, PoolInv, InvPool
<1>2. Advance(t, "failed") /\ "failed" \in JobStates /\ "failed" \in SimulationStates
  BY DEF Raise, JobStates, SimulationStates
<1>3. /\ DOMAIN work' = DOMAIN work /\ work'[t] \in Jobs(t)
      /\ \A u \in DOMAIN work : u # t => work'[u] = work[u]
  BY <1>1, <1>2, AdvancedJob
<1>4. UNCHANGED <<saved, cache, graph, pending, active, stop, report, batch>>
  BY DEF Raise, svars, disk
<1>5. saved' \in [Runs -> References] /\ cache' \subseteq Keys(Revisions)
  BY <1>4 DEF PoolInv, InvTypes
<1> QED BY <1>1, <1>3, <1>4, <1>5, WorkerKeeps

-----------------------------------------------------------------------------
(* The pool: the coordinator and the saved-only commands *)

LEMMA RunsAreFinite ==
  ASSUME NEW S \in SUBSET Runs
  PROVE  /\ IsFiniteSet(S) /\ Cardinality(S) \in Nat
         /\ \A r \in S : Cardinality(S \ {r}) = Cardinality(S) - 1
         /\ \A r \in Runs : r \notin S => Cardinality(S \union {r}) = Cardinality(S) + 1
<1>1. IsFiniteSet(S)
  BY StudyAssumption, FS_Subset
<1> QED BY <1>1, FS_CardinalityType, FS_RemoveElement, FS_AddElement

LEMMA PoolClose ==
  ASSUME PoolInv, UNCHANGED study, Close
  PROVE  PoolInv'
<1>1. /\ graph' = None /\ pending' = {} /\ active' = {} /\ work' = <<>> /\ stop' = FALSE
      /\ report' = NoReport /\ batch' = {} /\ saved' = saved /\ cache' = cache
  BY DEF Close, Plan, disk
<1>2. DOMAIN work' = {}
  BY <1>1
<1>3. ~Running' /\ ~Live'
  BY <1>1 DEF Running, Live
<1>4. NoReport \in Counts
  BY DEF NoReport, Counts
<1>5. InvTypes'
  BY <1>1, <1>4 DEF PoolInv, InvTypes
<1> QED BY <1>1, <1>2, <1>3, <1>5 DEF PoolInv, InvGraph, InvPool, InvPrune, InvCount

LEMMA PoolBegin ==
  ASSUME PoolInv, UNCHANGED study, NEW q \in study.requests, Begin(q)
  PROVE  PoolInv'
<1>1. q \in AllRequests
  BY DEF PoolInv, InvTypes, AllRequests
<1>2. PICK g : g = Construct(q, saved, cache)
  OBVIOUS
<1>3. /\ Sound(q, g) /\ g.prune = (q.met = "until_aggregated")
      /\ \A n \in Nodes(q) : n \in g.found <=> g.key[n] \in cache
  BY <1>1, <1>2, ConstructSound, KnownKeys DEF PoolInv, InvTypes
<1>4. /\ graph' = g /\ active' = {} /\ work' = <<>> /\ stop' = FALSE /\ report' = NoReport
      /\ batch' = {} /\ saved' = saved /\ cache' = cache
      /\ q.mode = "run" => pending' = q.runs
  BY <1>2 DEF Begin, Plan, disk
<1>5. g # None /\ g.request = q /\ g.found \subseteq Nodes(q)
  BY <1>1, <1>3, RunningGraph
<1>6. DOMAIN work' = {} /\ Simulating' = {}
  BY <1>4 DEF Simulating
<1>7. NoReport \in Counts
  BY DEF NoReport, Counts
<1>8. InvTypes'
  BY <1>4, <1>7 DEF PoolInv, InvTypes
<1>9. InvGraph'
  <2>1. \A n \in g.found : g.key[n] # None
    BY <1>3, <1>5, KnownKeys DEF PoolInv
  <2> QED BY <1>1, <1>3, <1>4, <1>5, <2>1 DEF InvGraph
<1>10. InvPool'
  BY <1>4, <1>5, <1>6 DEF InvPool, Live
<1>11. InvPrune'
  BY <1>3, <1>4, <1>5, <1>6 DEF InvPrune
<1>12. InvCount'
  <2>1. SUFFICES ASSUME Live'
                 PROVE  0 + Cardinality(pending') + Cardinality(Simulating') = Cardinality(q.runs)
    BY <1>4, <1>5, <1>7, Requested, <1>1, RunsAreFinite, FS_EmptySet, <1>6 DEF InvCount, NoReport
  <2>2. pending' = q.runs
    BY <1>4, <1>5, <2>1 DEF Live
  <2> QED BY <1>1, <1>6, <2>2, Requested, RunsAreFinite, FS_EmptySet
<1> QED BY <1>8, <1>9, <1>10, <1>11, <1>12 DEF PoolInv

\* The graph moved, and tasks and accounts did not.
LEMMA PoolMoved ==
  ASSUME PoolInv, UNCHANGED study, NEW N, NEW C, Moved(N, C), InvGraph',
         UNCHANGED <<pending, active, work, stop, report>>, batch' \subseteq batch,
         saved' = saved, cache' \subseteq Keys(Revisions), ~graph'.prune, Running
  PROVE  PoolInv'
<1>1. Running' /\ graph'.request = graph.request /\ graph'.key = graph.key
  BY DEF Moved
<1>2. Live' = Live /\ Simulating' = Simulating
  BY <1>1 DEF Live, Simulating
<1>3. InvTypes'
  BY DEF PoolInv, InvTypes
<1>4. InvPool'
  <2>1. Live' => batch' = {}
    BY <1>2 DEF PoolInv, InvPool
  <2>2. /\ active' = DOMAIN work' /\ (~Live' => DOMAIN work' = {})
        /\ \A t \in DOMAIN work' : work'[t] \in Jobs(t)
    BY <1>2 DEF PoolInv, InvPool
  <2>3. Live' => /\ \A t \in DOMAIN work' : \/ t \in Nodes(graph'.request)
                                            \/ \E r \in graph'.request.runs : t = Simulation(r)
                 /\ pending' \subseteq graph'.request.runs /\ pending' \intersect Simulating' = {}
    BY <1>1, <1>2 DEF PoolInv, InvPool
  <2>4. \A n \in batch' : n \in Nodes(graph'.request) /\ graph'.key[n] # None
    BY <1>1 DEF PoolInv, InvPool
  <2> QED BY <2>1, <2>2, <2>3, <2>4 DEF InvPool
<1>5. InvPrune'
  BY DEF InvPrune
<1>6. InvCount'
  BY <1>1, <1>2 DEF PoolInv, InvCount
<1> QED BY <1>3, <1>4, <1>5, <1>6 DEF PoolInv

LEMMA PoolPrune ==
  ASSUME PoolInv, UNCHANGED study, PruneExisting
  PROVE  PoolInv'
<1>1. PICK C : /\ InvGraph' /\ Moved({}, C) /\ ~graph'.prune /\ Running
               /\ cache' = cache \ {graph.key[d] : d \in C}
  BY PruneExistingKeeps DEF PoolInv
<1>2. UNCHANGED <<saved, pending, active, work, stop, report, batch>>
  BY DEF PruneExisting, svars
<1>3. cache' \subseteq Keys(Revisions)
  BY <1>1 DEF PoolInv, InvTypes
<1> QED BY <1>1, <1>2, <1>3, PoolMoved

LEMMA PoolSubmitDerivation ==
  ASSUME PoolInv, UNCHANGED study, SubmitDerivation
  PROVE  PoolInv'
<1>1. PICK n \in graph.ready :
        /\ TakeDerivation(graph.ready, n)
        /\ work' = [t \in DOMAIN work \union {n} |-> IF t = n THEN Job(n) ELSE work[t]]
  BY DEF SubmitDerivation
<1>2. Running /\ Live /\ ~graph.prune /\ UNCHANGED <<saved, cache, graph, stop, report, batch>>
  BY DEF SubmitDerivation, MayTake, Live, disk
<1>3. active' = active \union {n} /\ pending' = pending
  BY <1>1 DEF TakeDerivation
<1>4. graph.request \in AllRequests /\ Sound(graph.request, graph) /\ \A d \in graph.found : graph.key[d] # None
  BY <1>2 DEF PoolInv, InvGraph
<1>5. n \in Nodes(graph.request) /\ graph.key[n] \in KeysOf(n)
  BY <1>4, ReadyHasKey
<1>6. Kind(n) # "simulation" /\ \A r : n # Simulation(r)
  BY <1>4, <1>5, TasksApart
<1>7. Job(n) \in Jobs(n)
  <2>1. Inputs(graph.request, n) \subseteq Nodes(graph.request)
    BY <1>4, <1>5, InputKinds
  <2>2. \A d \in Inputs(graph.request, n) : graph.key[d] \in {None} \union Keys(Revisions)
    BY <1>4, <2>1, RunningGraph, NodesKnown, KeysApart
  <2> QED BY <1>5, <1>6, <2>2 DEF Job, Jobs, JobStates
<1>8. /\ DOMAIN work' = DOMAIN work \union {n} /\ work'[n] = Job(n)
      /\ \A t \in DOMAIN work : t # n => work'[t] = work[t]
  BY <1>1
<1>9. Simulating' = Simulating
  BY <1>6, <1>8 DEF Simulating
<1>10. Running' /\ Live' /\ InvTypes' /\ InvGraph'
  BY <1>2 DEF PoolInv, InvTypes, InvGraph, Running, Live
<1>11. InvPool'
  <2>1. \A t \in DOMAIN work' : work'[t] \in Jobs(t)
    BY <1>7, <1>8 DEF PoolInv, InvPool
  <2>2. active' = DOMAIN work'
    BY <1>3, <1>8 DEF PoolInv, InvPool
  <2>3. \A t \in DOMAIN work' : \/ t \in Nodes(graph'.request)
                                \/ \E r \in graph'.request.runs : t = Simulation(r)
    BY <1>2, <1>5, <1>8 DEF PoolInv, InvPool
  <2>4. batch' = {} /\ pending' \subseteq graph'.request.runs /\ pending' \intersect Simulating' = {}
    BY <1>2, <1>3, <1>9 DEF PoolInv, InvPool
  <2> QED BY <1>10, <2>1, <2>2, <2>3, <2>4 DEF InvPool
<1>12. InvPrune'
  BY <1>2 DEF InvPrune
<1>13. InvCount'
  BY <1>2, <1>3, <1>9 DEF PoolInv, InvCount
<1> QED BY <1>10, <1>11, <1>12, <1>13 DEF PoolInv

LEMMA PoolSubmitSimulation ==
  ASSUME PoolInv, UNCHANGED study, SubmitSimulation
  PROVE  PoolInv'
<1>1. PICK r \in pending :
        /\ TakeSimulation(graph.ready, r, TRUE)
        /\ work' = [t \in DOMAIN work \union {Simulation(r)} |->
                      IF t = Simulation(r) THEN [state |-> "submitted"] ELSE work[t]]
  BY DEF SubmitSimulation
<1>2. Running /\ Live /\ ~graph.prune /\ UNCHANGED <<saved, cache, graph, stop, report, batch>>
  BY DEF SubmitSimulation, MayTake, Live, disk
<1>3. active' = active \union {Simulation(r)} /\ pending' = pending \ {r}
  BY <1>1 DEF TakeSimulation
<1>4. graph.request \in AllRequests /\ graph.request.runs \subseteq Runs
  BY <1>2, Requested DEF PoolInv, InvGraph
<1>5. r \in graph.request.runs /\ pending \subseteq graph.request.runs /\ r \notin Simulating /\ r \in Runs
  BY <1>2, <1>4 DEF PoolInv, InvPool
<1>6. /\ DOMAIN work' = DOMAIN work \union {Simulation(r)} /\ work'[Simulation(r)] = [state |-> "submitted"]
      /\ \A t \in DOMAIN work : t # Simulation(r) => work'[t] = work[t]
  BY <1>1
<1>7. Simulating' = Simulating \union {r}
  BY <1>5, <1>6, TasksApart DEF Simulating
<1>8. Running' /\ Live' /\ InvTypes' /\ InvGraph'
  BY <1>2 DEF PoolInv, InvTypes, InvGraph, Running, Live
<1>9. InvPool'
  <2>0. [state |-> "submitted"] \in Jobs(Simulation(r))
    BY TasksApart DEF Jobs, SimulationStates
  <2>1. \A t \in DOMAIN work' : work'[t] \in Jobs(t)
    BY <1>6, <2>0 DEF PoolInv, InvPool
  <2>2. active' = DOMAIN work'
    BY <1>3, <1>6 DEF PoolInv, InvPool
  <2>3. \A t \in DOMAIN work' : \/ t \in Nodes(graph'.request)
                                \/ \E s \in graph'.request.runs : t = Simulation(s)
    BY <1>2, <1>5, <1>6 DEF PoolInv, InvPool
  <2>4. batch' = {} /\ pending' \subseteq graph'.request.runs /\ pending' \intersect Simulating' = {}
    BY <1>2, <1>3, <1>7 DEF PoolInv, InvPool
  <2> QED BY <1>8, <2>1, <2>2, <2>3, <2>4 DEF InvPool
<1>10. InvPrune'
  BY <1>2 DEF InvPrune
<1>11. InvCount'
  <2>1. Cardinality(pending') = Cardinality(pending) - 1 /\ Cardinality(pending) \in Nat
    BY <1>1, <1>3, <1>4, <1>5, RunsAreFinite
  <2>2. Cardinality(Simulating') = Cardinality(Simulating) + 1 /\ Cardinality(Simulating) \in Nat
    BY <1>5, <1>7, RunsAreFinite DEF Simulating
  <2>3. report.completed + report.skipped + report.paused + report.failed
            + Cardinality(pending) + Cardinality(Simulating) = Cardinality(graph.request.runs)
    BY <1>2 DEF PoolInv, InvCount
  <2> QED BY <1>2, <2>1, <2>2, <2>3 DEF PoolInv, InvTypes, Counts, InvCount
<1> QED BY <1>8, <1>9, <1>10, <1>11 DEF PoolInv

LEMMA CountedOnce ==
  ASSUME report \in Counts, NEW status \in {"completed", "skipped", "paused", "failed"}, Counted(status)
  PROVE  /\ report' \in Counts /\ report'.tasks = report.tasks
         /\ report'.completed + report'.skipped + report'.paused + report'.failed
              = report.completed + report.skipped + report.paused + report.failed + 1
         /\ report'.failed + report'.paused
              = report.failed + report.paused + IF status \in {"paused", "failed"} THEN 1 ELSE 0
<1>1. CASE status = "completed"
  BY <1>1 DEF Counted, Counts
<1>2. CASE status = "skipped"
  BY <1>2 DEF Counted, Counts
<1>3. CASE status = "paused"
  BY <1>3 DEF Counted, Counts
<1>4. CASE status = "failed"
  BY <1>4 DEF Counted, Counts
<1> QED BY <1>1, <1>2, <1>3, <1>4

LEMMA PoolSkip ==
  ASSUME PoolInv, UNCHANGED study, SkipSimulation
  PROVE  PoolInv'
<1>1. PICK r \in pending : TakeSimulation(graph.ready, r, FALSE) /\ SimulationDone(r)
  BY DEF SkipSimulation
<1>2. Running /\ Live /\ ~graph.prune /\ UNCHANGED <<work, stop, batch>> /\ Counted("skipped")
  BY DEF SkipSimulation, MayTake, Live
<1>3. active' = active /\ pending' = pending \ {r}
  BY <1>1 DEF TakeSimulation
<1>4. graph.request \in AllRequests /\ graph.request.runs \subseteq Runs
  BY <1>2, Requested DEF PoolInv, InvGraph
<1>5. r \in graph.request.runs /\ pending \subseteq graph.request.runs
  BY <1>2, <1>4 DEF PoolInv, InvPool
<1>6. /\ InvGraph' /\ Running' /\ graph'.request = graph.request /\ graph'.prune = graph.prune
      /\ saved' \in [Runs -> References] /\ cache' = cache
  BY <1>1, <1>2, <1>5, SimulationDoneKeeps DEF PoolInv
<1>7. Live' /\ Simulating' = Simulating
  BY <1>2, <1>6 DEF Live, Simulating
<1>8. /\ report' \in Counts
      /\ report'.completed + report'.skipped + report'.paused + report'.failed
              = report.completed + report.skipped + report.paused + report.failed + 1
  BY <1>2, CountedOnce DEF PoolInv, InvTypes
<1>9. InvTypes'
  BY <1>2, <1>6, <1>8 DEF PoolInv, InvTypes
<1>10. InvPool'
  BY <1>2, <1>3, <1>6, <1>7 DEF PoolInv, InvPool
<1>11. InvPrune'
  BY <1>2, <1>6 DEF InvPrune
<1>12. InvCount'
  <2>1. Cardinality(pending') = Cardinality(pending) - 1 /\ Cardinality(pending) \in Nat
    BY <1>1, <1>3, <1>4, <1>5, RunsAreFinite
  <2>2. Cardinality(Simulating) \in Nat
    BY RunsAreFinite DEF Simulating
  <2>3. report.completed + report.skipped + report.paused + report.failed
            + Cardinality(pending) + Cardinality(Simulating) = Cardinality(graph.request.runs)
    BY <1>2 DEF PoolInv, InvCount
  <2> QED BY <1>6, <1>7, <1>8, <2>1, <2>2, <2>3 DEF PoolInv, InvTypes, Counts, InvCount
<1> QED BY <1>6, <1>9, <1>10, <1>11, <1>12 DEF PoolInv

LEMMA DroppedJob ==
  ASSUME NEW t, Dropped(t)
  PROVE  DOMAIN work' = DOMAIN work \ {t} /\ \A u \in DOMAIN work' : work'[u] = work[u]
BY DEF Dropped

LEMMA PoolSimulationFinished ==
  ASSUME PoolInv, UNCHANGED study, NEW r \in Runs, SimulationFinished(r)
  PROVE  PoolInv'
<1> DEFINE t == Simulation(r)
           status == work[t].state
<1>1. /\ Live /\ Running /\ t \in DOMAIN work /\ status \in {"completed", "skipped", "paused", "failed"}
      /\ Counted(status) /\ FinishTask(t, status \in {"completed", "skipped"}) /\ Dropped(t)
      /\ UNCHANGED <<stop, batch>>
      /\ IF status \in {"completed", "skipped"} THEN SimulationDone(r) ELSE UNCHANGED <<graph, disk>>
  BY DEF SimulationFinished, Live
<1>2. active' = active \ {t} /\ pending' = pending
  BY <1>1 DEF FinishTask
<1>3. graph.request \in AllRequests /\ graph.request.runs \subseteq Runs
  BY <1>1, Requested DEF PoolInv, InvGraph
<1>4. r \in graph.request.runs /\ pending \subseteq graph.request.runs /\ ~graph.prune
  BY <1>1, <1>3, TasksApart DEF PoolInv, InvPool, InvPrune
<1>5. /\ InvGraph' /\ Running' /\ graph'.request = graph.request /\ graph'.prune = graph.prune
      /\ saved' \in [Runs -> References] /\ cache' = cache
  <2>1. CASE SimulationDone(r)
    BY <1>1, <1>4, <2>1, SimulationDoneKeeps DEF PoolInv
  <2>2. CASE UNCHANGED <<graph, disk>>
    BY <1>1, <2>2 DEF PoolInv, InvGraph, InvTypes, disk, Running
  <2> QED BY <1>1, <2>1, <2>2
<1>6. /\ DOMAIN work' = DOMAIN work \ {t} /\ \A u \in DOMAIN work' : work'[u] = work[u]
  BY <1>1, DroppedJob
<1>7. Live' /\ Simulating' = Simulating \ {r} /\ r \in Simulating
  BY <1>1, <1>5, <1>6, TasksApart DEF Live, Simulating
<1>8. /\ report' \in Counts
      /\ report'.completed + report'.skipped + report'.paused + report'.failed
              = report.completed + report.skipped + report.paused + report.failed + 1
  BY <1>1, CountedOnce DEF PoolInv, InvTypes
<1> HIDE DEF t, status
<1>9. InvTypes'
  BY <1>1, <1>5, <1>8 DEF PoolInv, InvTypes
<1>10. InvPool'
  <2>1. active' = DOMAIN work' /\ \A u \in DOMAIN work' : work'[u] \in Jobs(u)
    BY <1>2, <1>6 DEF PoolInv, InvPool
  <2>2. \A u \in DOMAIN work' : \/ u \in Nodes(graph'.request)
                                \/ \E s \in graph'.request.runs : u = Simulation(s)
    BY <1>1, <1>5, <1>6 DEF PoolInv, InvPool
  <2>3. batch' = {} /\ pending' \subseteq graph'.request.runs /\ pending' \intersect Simulating' = {}
    BY <1>1, <1>2, <1>5, <1>7 DEF PoolInv, InvPool
  <2> QED BY <1>7, <2>1, <2>2, <2>3 DEF InvPool
<1>11. InvPrune'
  BY <1>4, <1>5 DEF InvPrune
<1>12. InvCount'
  <2>1. Cardinality(pending) \in Nat
    BY <1>3, <1>4, RunsAreFinite
  <2>2. Cardinality(Simulating') = Cardinality(Simulating) - 1 /\ Cardinality(Simulating) \in Nat
    BY <1>7, RunsAreFinite DEF Simulating
  <2>3. report.completed + report.skipped + report.paused + report.failed
            + Cardinality(pending) + Cardinality(Simulating) = Cardinality(graph.request.runs)
    BY <1>1 DEF PoolInv, InvCount
  <2> QED BY <1>2, <1>5, <1>8, <2>1, <2>2, <2>3 DEF PoolInv, InvTypes, Counts, InvCount
<1> QED BY <1>5, <1>9, <1>10, <1>11, <1>12 DEF PoolInv

\* What a derivation that returned does to the graph and the disk
LEMMA DerivationReturns ==
  ASSUME PoolInv, NEW n, DerivationFinished(n), ~Close
  PROVE  /\ n \in Derivations /\ n \in Nodes(graph.request) /\ Live /\ Running
         /\ work[n].state \in {"published", "failed"}
         /\ FinishTask(n, work[n].state = "published") /\ Dropped(n) /\ UNCHANGED <<stop, batch>>
         /\ \/ work[n].state = "failed" /\ UNCHANGED <<graph, disk>> /\ report' = [report EXCEPT !.tasks = TRUE]
            \/ /\ work[n].state = "published" /\ graph.key[n] \in cache /\ graph.key[n] # None
               /\ Kind(n) = "metric" /\ MetricDone(n) /\ UNCHANGED report
            \/ /\ work[n].state = "published" /\ graph.key[n] \in cache /\ graph.key[n] # None
               /\ Kind(n) # "metric" /\ OutputDone(n) /\ UNCHANGED report
<1>1. n \in Derivations /\ n \in Nodes(graph.request) /\ Live /\ Running /\ work[n].state \in {"published", "failed"}
  BY JobKey DEF DerivationFinished
<1>2. /\ ~(work[n].state = "published" /\ graph.key[n] \notin cache)
      /\ FinishTask(n, work[n].state = "published") /\ Dropped(n) /\ UNCHANGED <<stop, batch>>
      /\ IF work[n].state = "failed"
         THEN report' = [report EXCEPT !.tasks = TRUE] /\ UNCHANGED <<graph, disk>>
         ELSE (IF Kind(n) = "metric" THEN MetricDone(n) ELSE OutputDone(n)) /\ UNCHANGED report
  BY DEF DerivationFinished
<1>3. graph.key[n] \in cache => graph.key[n] # None
  BY KnownKeys DEF PoolInv
<1>4. CASE work[n].state = "failed"
  BY <1>1, <1>2, <1>4
<1>5. CASE work[n].state = "published" /\ Kind(n) = "metric"
  BY <1>1, <1>2, <1>3, <1>5
<1>6. CASE work[n].state = "published" /\ Kind(n) # "metric"
  BY <1>1, <1>2, <1>3, <1>6
<1> QED BY <1>1, <1>4, <1>5, <1>6

LEMMA PoolDerivationFinished ==
  ASSUME PoolInv, UNCHANGED study, NEW n, DerivationFinished(n)
  PROVE  PoolInv'
<1> SUFFICES ASSUME ~Close PROVE PoolInv'
  BY PoolClose
<1> DEFINE q == graph.request
<1>1. /\ n \in Derivations /\ n \in Nodes(q) /\ Live /\ Running
      /\ work[n].state \in {"published", "failed"}
      /\ FinishTask(n, work[n].state = "published") /\ Dropped(n) /\ UNCHANGED <<stop, batch>>
      /\ \/ work[n].state = "failed" /\ UNCHANGED <<graph, disk>> /\ report' = [report EXCEPT !.tasks = TRUE]
         \/ /\ work[n].state = "published" /\ graph.key[n] \in cache /\ graph.key[n] # None
            /\ Kind(n) = "metric" /\ MetricDone(n) /\ UNCHANGED report
         \/ /\ work[n].state = "published" /\ graph.key[n] \in cache /\ graph.key[n] # None
            /\ Kind(n) # "metric" /\ OutputDone(n) /\ UNCHANGED report
  BY DerivationReturns
<1>2. active' = active \ {n} /\ pending' = pending
  BY <1>1 DEF FinishTask
<1>3. DOMAIN work' = DOMAIN work \ {n} /\ \A u \in DOMAIN work' : work'[u] = work[u]
  BY <1>1, DroppedJob
<1>4. q \in AllRequests /\ ~graph.prune
  BY <1>1 DEF PoolInv, InvGraph, InvPrune, Derivations
<1>5. /\ InvGraph' /\ Running' /\ graph'.request = q /\ graph'.prune = graph.prune
      /\ saved' \in [Runs -> References] /\ cache' \subseteq cache
  <2>1. CASE UNCHANGED <<graph, disk>>
    BY <1>1, <2>1 DEF PoolInv, InvGraph, InvTypes, disk, Running
  <2>2. CASE graph.key[n] # None /\ Kind(n) = "metric" /\ MetricDone(n)
    BY <1>1, <2>2, MetricDoneKeeps DEF PoolInv, Kind, Moved
  <2>3. CASE graph.key[n] # None /\ OutputDone(n)
    BY <1>1, <2>3, OutputDoneKeeps DEF PoolInv, Moved, InvTypes
  <2> QED BY <1>1, <2>1, <2>2, <2>3
<1>6. Live' /\ Simulating' = Simulating
  BY <1>1, <1>3, <1>4, <1>5, TasksApart DEF Live, Simulating
<1>7. /\ report' \in Counts /\ report'.completed = report.completed /\ report'.skipped = report.skipped
      /\ report'.paused = report.paused /\ report'.failed = report.failed
  BY <1>1 DEF PoolInv, InvTypes, Counts
<1>8. InvTypes'
  BY <1>1, <1>5, <1>7 DEF PoolInv, InvTypes
<1> HIDE DEF q
<1>9. InvPool'
  <2>1. active' = DOMAIN work' /\ \A u \in DOMAIN work' : work'[u] \in Jobs(u)
    BY <1>2, <1>3 DEF PoolInv, InvPool
  <2>2. \A u \in DOMAIN work' : \/ u \in Nodes(graph'.request)
                                \/ \E s \in graph'.request.runs : u = Simulation(s)
    BY <1>1, <1>3, <1>5 DEF PoolInv, InvPool, q
  <2>3. batch' = {} /\ pending' \subseteq graph'.request.runs /\ pending' \intersect Simulating' = {}
    BY <1>1, <1>2, <1>5, <1>6 DEF PoolInv, InvPool, q
  <2> QED BY <1>6, <2>1, <2>2, <2>3 DEF InvPool
<1>10. InvPrune'
  BY <1>4, <1>5 DEF InvPrune
<1>11. InvCount'
  BY <1>1, <1>2, <1>5, <1>6, <1>7 DEF PoolInv, InvCount, q
<1> QED BY <1>5, <1>8, <1>9, <1>10, <1>11 DEF PoolInv

LEMMA PoolAsk ==
  ASSUME PoolInv, UNCHANGED study, Ask
  PROVE  PoolInv'
<1> SUFFICES ASSUME ~Close PROVE PoolInv'
  BY PoolClose
<1>1. /\ Analyzing /\ Running /\ ~Live /\ ~graph.prune /\ batch' = graph.ready
      /\ UNCHANGED <<saved, cache, graph, pending, active, work, stop, report>>
  BY DEF Ask, Analyzing, Live, disk, svars
<1>2. Running' /\ ~Live'
  BY <1>1 DEF Running, Live
<1>3. \A n \in graph.ready : n \in Nodes(graph.request) /\ graph.key[n] # None
  BY <1>1, ReadyHasKey DEF PoolInv, InvGraph
<1>4. InvTypes' /\ InvGraph'
  BY <1>1 DEF PoolInv, InvTypes, InvGraph, Running
<1>5. InvPool'
  BY <1>1, <1>2, <1>3 DEF PoolInv, InvPool
<1>6. InvPrune' /\ InvCount'
  BY <1>1, <1>2 DEF InvPrune, InvCount
<1> QED BY <1>4, <1>5, <1>6 DEF PoolInv

\* What an execution in the saved-only loop does to the graph and the disk
LEMMA ExecuteKeeps ==
  ASSUME PoolInv, NEW n, Execute(n), ~Close
  PROVE  \E C : /\ InvGraph' /\ Moved({n}, C) /\ ~graph'.prune /\ Running /\ ~Live
                /\ n \in Nodes(graph.request) /\ graph.key[n] # None
                /\ cache' = (cache \union {graph.key[n]}) \ {graph.key[d] : d \in C}
                /\ n \notin C /\ \A d \in C : n[1] = "aggregate" /\ d \in Inputs(graph.request, n)
<1>1. Running /\ ~Live /\ n \in batch /\ ~graph.prune
  BY DEF Execute, Analyzing, Running, Live, PoolInv, InvPrune
<1>2. n \in Nodes(graph.request) /\ graph.key[n] # None
  BY <1>1 DEF PoolInv, InvPool
<1>3. PICK h : h = Published(graph, n)
  OBVIOUS
<1>4. /\ graph' = Release(h, {n})
      /\ cache' = (cache \union {graph.key[n]}) \ {h.key[d] : d \in Consumed(h, {n})}
  BY <1>3 DEF Execute
<1>5. /\ InvGraph' /\ Moved({n}, Consumed(h, {n})) /\ graph'.prune = graph.prune
      /\ h.key = graph.key
      /\ n \notin Consumed(h, {n})
      /\ \A d \in Consumed(h, {n}) : n[1] = "aggregate" /\ d \in Inputs(graph.request, n)
  BY <1>1, <1>2, <1>3, <1>4, ReleaseKeeps DEF PoolInv
<1> QED BY <1>1, <1>2, <1>4, <1>5

LEMMA PoolExecute ==
  ASSUME PoolInv, UNCHANGED study, NEW n, Execute(n)
  PROVE  PoolInv'
<1> SUFFICES ASSUME ~Close PROVE PoolInv'
  BY PoolClose
<1>1. PICK C : /\ InvGraph' /\ Moved({n}, C) /\ ~graph'.prune /\ Running /\ ~Live
               /\ n \in Nodes(graph.request) /\ graph.key[n] # None
               /\ cache' = (cache \union {graph.key[n]}) \ {graph.key[d] : d \in C}
  BY ExecuteKeeps
<1>2. UNCHANGED <<saved, pending, active, work, stop, report>> /\ batch' \subseteq batch
  BY DEF Execute, svars
<1>3. graph.key[n] \in Keys(Revisions)
  BY <1>1, RunningGraph, NodesKnown, KeysApart DEF PoolInv, InvGraph
<1>4. cache' \subseteq Keys(Revisions)
  BY <1>1, <1>3 DEF PoolInv, InvTypes
<1> QED BY <1>1, <1>2, <1>4, PoolMoved

LEMMA PoolStop ==
  ASSUME PoolInv, UNCHANGED study, Stop
  PROVE  PoolInv'
<1>1. stop' = TRUE /\ UNCHANGED <<saved, cache, graph, pending, active, work, report, batch>>
  BY DEF Stop, disk, svars
<1>2. Running' = Running /\ Live' = Live /\ Simulating' = Simulating
  BY <1>1 DEF Running, Live, Simulating
<1> QED BY <1>1, <1>2 DEF PoolInv, InvTypes, InvGraph, InvPool, InvPrune, InvCount

LEMMA PoolInitially == CInit => PoolInv
<1> SUFFICES ASSUME CInit PROVE PoolInv
  OBVIOUS
<1>1. /\ study \in Studies /\ saved = [r \in Runs |-> [trajectory |-> "none"]] /\ cache = {}
      /\ graph = None /\ pending = {} /\ active = {} /\ work = <<>> /\ stop = FALSE
      /\ report = NoReport /\ batch = {}
  BY DEF CInit, NoPlan
<1>2. DOMAIN work = {} /\ ~Running /\ ~Live
  BY <1>1 DEF Running, Live
<1>3. InvTypes
  BY <1>1 DEF InvTypes, References, NoReport, Counts
<1> QED BY <1>1, <1>2, <1>3 DEF PoolInv, InvGraph, InvPool, InvPrune, InvCount

LEMMA PoolNext == PoolInv /\ [CNext]_cvars => PoolInv'
<1> SUFFICES ASSUME PoolInv, [CNext]_cvars PROVE PoolInv'
  OBVIOUS
<1>1. CASE UNCHANGED cvars
  <2>1. UNCHANGED <<study, saved, cache, graph, pending, active, work, stop, report, batch>>
    BY <1>1 DEF cvars, disk, svars
  <2>2. Running' = Running /\ Live' = Live /\ Simulating' = Simulating
    BY <2>1 DEF Running, Live, Simulating
  <2> QED BY <2>1, <2>2 DEF PoolInv, InvTypes, InvGraph, InvPool, InvPrune, InvCount
<1>2. CASE CNext
  <2>0. UNCHANGED study
    BY <1>2 DEF CNext
  <2>1. CASE \E q \in study.requests : Begin(q)
    BY <2>0, <2>1, PoolBegin
  <2>2. CASE Coordinate
    <3>1. \/ PruneExisting \/ SubmitDerivation \/ SubmitSimulation \/ SkipSimulation
          \/ (\E r \in Runs : SimulationFinished(r))
          \/ (\E n \in DOMAIN work : DerivationFinished(n)) \/ Close
      BY <2>2 DEF Coordinate, Finish
    <3> QED BY <2>0, <3>1, PoolPrune, PoolSubmitDerivation, PoolSubmitSimulation, PoolSkip,
               PoolSimulationFinished, PoolDerivationFinished, PoolClose
  <2>3. CASE Work \/ Fail
    <3>1. \/ \E r \in Runs : Simulate(r)
          \/ \E n \in DOMAIN work : Read(n) \/ Publish(n) \/ Raise(n)
      BY <2>3 DEF Work, Fail
    <3> QED BY <2>0, <3>1, PoolSimulate, PoolRead, PoolPublish, PoolRaise
  <2>4. CASE Analyze \/ Stop \/ Kill
    <3>1. Ask \/ (\E n \in batch : Execute(n)) \/ Close \/ Stop
      BY <2>4 DEF Analyze, ExecuteFragile, Kill
    <3> QED BY <2>0, <3>1, PoolAsk, PoolExecute, PoolClose, PoolStop
  <2> QED BY <1>2, <2>1, <2>2, <2>3, <2>4 DEF CNext
<1> QED BY <1>1, <1>2

\* What the coordinator knows of demand, tasks and accounts stays true.
THEOREM CoordinatorInvariance == CSpec => []PoolInv
<1> QED BY PoolInitially, PoolNext, PTL DEF CSpec

-----------------------------------------------------------------------------
(* What is removed *)

\* An aggregate's key names its inputs, and is no metric's.
LEMMA AggregateNamesInputs ==
  ASSUME NEW q \in AllRequests, NEW g, Sound(q, g), NEW a \in Nodes(q), a[1] = "aggregate",
         g.key[a] # None
  PROVE  /\ g.key[a][1][1] = "aggregate"
         /\ \A d \in Inputs(q, a) : d \in DOMAIN g.key[a][3] /\ g.key[a][3][d] = g.key[d]
         /\ \A m \in MetricNodes(q) : g.key[m] # g.key[a]
<1>1. g.key[a] = Identity(q, a, g.references, g.key)
  BY RunningGraph
<1>2. \A d \in Inputs(q, a) : g.key[d] # None
  BY <1>1 DEF Identity
<1>3. g.key[a] = <<a, q.aggregator, [d \in Inputs(q, a) |-> g.key[d]]>>
  BY <1>1, <1>2 DEF Identity
<1>4. ASSUME NEW m \in MetricNodes(q), g.key[m] # None PROVE g.key[m] # g.key[a]
  <2>1. m \in Nodes(q) /\ m[1] = "metric"
    BY NodeKinds DEF Nodes
  <2>2. g.key[m] \in KeysOf(m)
    BY <1>4, <2>1, RunningGraph
  <2>3. DOMAIN g.key[m] = 1..4
    BY <2>1, <2>2 DEF KeysOf
  <2>4. DOMAIN g.key[a] = 1..3
    BY <1>3
  <2> QED BY <2>3, <2>4
<1>5. g.key[a][1] = a /\ g.key[a][3] = [d \in Inputs(q, a) |-> g.key[d]]
  BY <1>3
<1>6. \A m \in MetricNodes(q) : g.key[m] # g.key[a]
  BY <1>4
<1> QED BY <1>5, <1>6

\* Metrics go behind an aggregate that stays.
LEMMA ReleasedAreConsumed ==
  ASSUME PoolInv, Running, NEW C, NEW a \in Nodes(graph.request), a[1] = "aggregate",
         NEW d \in Inputs(graph.request, a),
         C \subseteq MetricNodes(graph.request),
         graph.key[a] # None, NEW kept, graph.key[a] \in kept,
         cache' = kept \ {graph.key[m] : m \in C}, NEW k, k = graph.key[d]
  PROVE  Consumer(k)'
<1>1. graph.request \in AllRequests /\ Sound(graph.request, graph)
  BY DEF PoolInv, InvGraph
<1>2. /\ graph.key[a][1][1] = "aggregate"
      /\ d \in DOMAIN graph.key[a][3] /\ graph.key[a][3][d] = graph.key[d]
      /\ \A m \in MetricNodes(graph.request) : graph.key[m] # graph.key[a]
  BY <1>1, AggregateNamesInputs
<1>3. graph.key[a] \in cache'
  BY <1>2
<1>4. PICK x : x = graph.key[a]
  OBVIOUS
<1>5. x \in cache' /\ x[1][1] = "aggregate" /\ d \in DOMAIN x[3] /\ x[3][d] = k
  BY <1>2, <1>3, <1>4
<1> QED BY <1>5 DEF Consumer

KeysCovered == \A k \in cache \ cache' : Consumer(k)'
RunsCovered ==
  \A r \in Runs :
    saved[r].trajectory = "retained" /\ saved'[r].trajectory = "pruned" =>
      \A k \in MetricKeysOf(r)' : (k \in cache \/ Consumer(k))'

LEMMA MovedCovers ==
  ASSUME PoolInv, NEW n \in Nodes(graph.request), Running, NEW C, C \subseteq MetricNodes(graph.request),
         \A d \in C : n[1] = "aggregate" /\ d \in Inputs(graph.request, n),
         NEW kept, cache \subseteq kept, graph.key[n] \in kept, graph.key[n] # None,
         cache' = kept \ {graph.key[d] : d \in C}
  PROVE  KeysCovered
<1>1. SUFFICES ASSUME NEW k \in cache \ cache' PROVE Consumer(k)'
  BY DEF KeysCovered
<1>2. PICK d \in C : k = graph.key[d]
  OBVIOUS
<1>3. n[1] = "aggregate" /\ d \in Inputs(graph.request, n)
  BY <1>2
<1> QED BY <1>2, <1>3, ReleasedAreConsumed

LEMMA PruningCovers ==
  ASSUME PoolInv, NEW r \in Runs, Pruning(r), cache' = cache
  PROVE  RunsCovered
<1>1. SUFFICES ASSUME NEW s \in Runs, saved[s].trajectory = "retained", saved'[s].trajectory = "pruned"
               PROVE  \A k \in MetricKeysOf(s)' : k \in cache'
  BY DEF RunsCovered
<1>2. s = r /\ MetricProofs(graph', cache, r)
  BY <1>1 DEF Pruning, PoolInv, InvTypes
<1> QED BY <1>2 DEF MetricProofs, MetricKeysOf

LEMMA DiskCovers ==
  ASSUME cache \subseteq cache', \A r \in Runs : saved'[r].trajectory = "pruned" => saved[r].trajectory = "pruned"
  PROVE  KeysCovered /\ RunsCovered
BY DEF KeysCovered, RunsCovered

LEMMA StepCovers ==
  ASSUME PoolInv, CNext
  PROVE  KeysCovered /\ RunsCovered
<1>1. CASE UNCHANGED <<saved, cache>>
  BY <1>1, DiskCovers
<1>2. CASE Close \/ SubmitDerivation \/ SubmitSimulation \/ Ask \/ Stop \/ \E q \in study.requests : Begin(q)
  BY <1>1, <1>2 DEF Close, SubmitDerivation, SubmitSimulation, Ask, Stop, Begin, disk
<1>3. CASE PruneExisting
  <2>1. PICK C : /\ Moved({}, C) /\ Running /\ graph.prune
                 /\ cache' = cache \ {graph.key[d] : d \in C}
    BY <1>3, PruneExistingKeeps DEF PoolInv
  <2>2. saved' = saved
    BY <1>3 DEF PruneExisting
  <2>3. ASSUME NEW k \in cache \ cache' PROVE Consumer(k)'
    <3>1. PICK d \in C : k = graph.key[d]
      BY <2>1, <2>3
    <3>2. PICK a \in graph.found : a[1] = "aggregate" /\ d \in Inputs(graph.request, a)
      BY <2>1 DEF Moved
    <3>3. graph.key[a] \in cache /\ graph.key[a] # None /\ a \in Nodes(graph.request)
      BY <2>1, RunningGraph DEF PoolInv, InvPrune, InvGraph
    <3>4. C \subseteq MetricNodes(graph.request)
      BY <2>1 DEF Moved
    <3> QED BY <2>1, <3>1, <3>2, <3>3, <3>4, ReleasedAreConsumed
  <2>4. KeysCovered
    BY <2>3 DEF KeysCovered
  <2> QED BY <2>2, <2>4 DEF RunsCovered
<1>4. CASE SkipSimulation \/ \E r \in Runs : SimulationFinished(r)
  <2>1. SUFFICES ASSUME NEW r \in graph.request.runs, SimulationDone(r), Running
                 PROVE  KeysCovered /\ RunsCovered
    <3>1. CASE SkipSimulation
      <4>1. PICK r \in pending : SimulationDone(r)
        BY <3>1 DEF SkipSimulation
      <4>2. Live /\ Running
        BY <3>1 DEF SkipSimulation, MayTake, Live
      <4>3. r \in graph.request.runs
        BY <4>2 DEF PoolInv, InvPool
      <4> QED BY <2>1, <4>1, <4>2, <4>3
    <3>2. CASE \E r \in Runs : SimulationFinished(r)
      <4>1. PICK r \in Runs : SimulationFinished(r)
        BY <3>2
      <4>2. Live /\ Running /\ (SimulationDone(r) \/ UNCHANGED <<saved, cache>>)
        BY <4>1 DEF SimulationFinished, Live, disk
      <4>3. r \in graph.request.runs
        BY <4>1, <4>2, TasksApart DEF PoolInv, InvPool, InvGraph, SimulationFinished
      <4> QED BY <1>1, <2>1, <4>2, <4>3
    <3> QED BY <1>4, <3>1, <3>2
  <2>2. cache' = cache /\ Pruning(r) /\ r \in Runs
    BY <2>1, SimulationDoneKeeps, Requested DEF PoolInv, InvGraph
  <2>3. RunsCovered
    BY <2>2, PruningCovers
  <2> QED BY <2>2, <2>3 DEF KeysCovered
<1>5. CASE \E n \in DOMAIN work : DerivationFinished(n)
  <2>1. PICK n : DerivationFinished(n)
    BY <1>5
  <2>2. SUFFICES ASSUME ~Close PROVE KeysCovered /\ RunsCovered
    BY <1>2
  <2>3. /\ n \in Nodes(graph.request) /\ Running
        /\ \/ UNCHANGED disk
           \/ graph.key[n] # None /\ Kind(n) = "metric" /\ MetricDone(n)
           \/ graph.key[n] \in cache /\ graph.key[n] # None /\ OutputDone(n)
    BY <2>1, <2>2, DerivationReturns
  <2>4. CASE UNCHANGED disk
    BY <1>1, <2>4 DEF disk
  <2>5. CASE graph.key[n] # None /\ Kind(n) = "metric" /\ MetricDone(n)
    <3>1. cache' = cache /\ Pruning(n[3])
      BY <2>3, <2>5, MetricDoneKeeps DEF PoolInv, Kind
    <3>2. n[3] \in Runs
      BY <2>3, <2>5, NodeKinds, Requested DEF PoolInv, InvGraph, Kind
    <3>3. RunsCovered
      BY <3>1, <3>2, PruningCovers
    <3> QED BY <3>1, <3>3 DEF KeysCovered
  <2>6. CASE graph.key[n] \in cache /\ graph.key[n] # None /\ OutputDone(n)
    <3>1. PICK C : /\ Moved({n}, C) /\ saved' = saved
                   /\ cache' = cache \ {graph.key[d] : d \in C}
                   /\ \A d \in C : n[1] = "aggregate" /\ d \in Inputs(graph.request, n)
      BY <2>3, <2>6, OutputDoneKeeps DEF PoolInv
    <3>2. C \subseteq MetricNodes(graph.request)
      BY <3>1 DEF Moved
    <3>3. KeysCovered
      BY <2>3, <2>6, <3>1, <3>2, MovedCovers
    <3> QED BY <3>1, <3>3 DEF RunsCovered
  <2> QED BY <2>3, <2>4, <2>5, <2>6
<1>6. CASE Work \/ Fail
  <2>1. \/ \E r \in Runs : Simulate(r)
        \/ \E n \in DOMAIN work : Read(n) \/ Publish(n) \/ Raise(n)
    BY <1>6 DEF Work, Fail
  <2>2. ASSUME NEW r \in Runs, Simulate(r)
        PROVE  \A s \in Runs : saved'[s].trajectory = "pruned" => saved[s].trajectory = "pruned"
    BY <2>2 DEF Simulate, PoolInv, InvTypes
  <2>3. cache \subseteq cache'
    BY <2>1 DEF Simulate, Read, Publish, Raise, disk
  <2>4. \/ \E r \in Runs : Simulate(r)
        \/ saved' = saved
    BY <2>1 DEF Read, Publish, Raise, disk
  <2> QED BY <2>2, <2>3, <2>4, DiskCovers
<1>7. CASE \E n \in batch : Execute(n)
  <2>1. PICK n : Execute(n)
    BY <1>7
  <2>2. SUFFICES ASSUME ~Close PROVE KeysCovered /\ RunsCovered
    BY <1>2
  <2>3. PICK C : /\ Moved({n}, C) /\ Running /\ n \in Nodes(graph.request) /\ graph.key[n] # None
                 /\ cache' = (cache \union {graph.key[n]}) \ {graph.key[d] : d \in C}
                 /\ \A d \in C : n[1] = "aggregate" /\ d \in Inputs(graph.request, n)
    BY <2>1, <2>2, ExecuteKeeps
  <2>4. saved' = saved
    BY <2>1, <2>2 DEF Execute
  <2>5. C \subseteq MetricNodes(graph.request)
    BY <2>3 DEF Moved
  <2>6. PICK kept : kept = cache \union {graph.key[n]}
    OBVIOUS
  <2>7. KeysCovered
    BY <2>3, <2>5, <2>6, MovedCovers
  <2> QED BY <2>4, <2>7 DEF RunsCovered
<1> QED BY <1>2, <1>3, <1>4, <1>5, <1>6, <1>7
     DEF CNext, Coordinate, Analyze, Finish, ExecuteFragile, Kill

\* A generation is removed only behind a durable aggregate that names it, a run's
\* observations only behind its durable metrics (_prune_aggregate_metrics, metric_proofs).
THEOREM RemovalStaysCovered == CSpec => RemovalIsCovered
<1>1. PoolInv /\ [CNext]_cvars =>
        [/\ \A k \in cache \ cache' : Consumer(k)'
         /\ \A r \in Runs :
              saved[r].trajectory = "retained" /\ saved'[r].trajectory = "pruned" =>
                \A k \in MetricKeysOf(r)' : (k \in cache \/ Consumer(k))']_cvars
  BY StepCovers DEF KeysCovered, RunsCovered
<1> QED BY <1>1, CoordinatorInvariance, PTL DEF CSpec, RemovalIsCovered

-----------------------------------------------------------------------------
(* Work is not repeated *)

LEMMA NodeKeysUnique ==
  ASSUME DistinctMetrics, NEW q \in AllRequests, NEW g, Sound(q, g),
         NEW m \in Nodes(q), NEW n \in Nodes(q), g.key[m] = g.key[n], g.key[n] # None
  PROVE  m = n
<1>1. m \in AllNodes /\ n \in AllNodes
  BY NodesKnown
<1>2. g.key[n] \in KeysOf(n) /\ g.key[n] \in KeysOf(m)
  BY RunningGraph
<1> QED BY <1>1, <1>2, KeysUnique

\* What a worker has read its inputs for is not there yet.
InvRead == \A n \in Derivations : work[n].state = "read" => work[n].key \notin cache

LEMMA ReadKept ==
  ASSUME InvRead, cache' \subseteq cache,
         \A n \in Derivations' : work'[n].state = "read" => n \in Derivations /\ work'[n] = work[n]
  PROVE  InvRead'
BY DEF InvRead

LEMMA ReadNext ==
  ASSUME DistinctMetrics, PoolInv, InvRead, CNext
  PROVE  InvRead'
<1>0. /\ (PruneExisting => work' = work /\ cache' \subseteq cache)
      /\ (Stop => work' = work /\ cache' = cache)
  BY DEF PruneExisting, Stop, disk
<1>1. CASE UNCHANGED work /\ cache' \subseteq cache
  BY <1>1, ReadKept DEF Derivations
<1>2. CASE DOMAIN work' = {}
  BY <1>2 DEF InvRead, Derivations
<1>3. CASE Close \/ \E q \in study.requests : Begin(q)
  <2>1. work' = <<>>
    BY <1>3 DEF Close, Begin
  <2>2. DOMAIN work' = {}
    BY <2>1
  <2> QED BY <1>2, <2>2
<1>4. CASE Analyze
  <2>1. CASE Ask
    BY <1>1, <1>3, <2>1 DEF Ask, disk
  <2>2. CASE \E n \in batch : Execute(n)
    <3>1. DOMAIN work = {} /\ (Close \/ work' = work)
      BY <2>2 DEF Execute, Analyzing, Live, PoolInv, InvPool
    <3> QED BY <1>2, <1>3, <3>1
  <2> QED BY <1>3, <1>4, <2>1, <2>2 DEF Analyze, ExecuteFragile
<1>5. CASE SubmitDerivation
  <2>1. PICK n : work' = [t \in DOMAIN work \union {n} |-> IF t = n THEN Job(n) ELSE work[t]]
    BY <1>5 DEF SubmitDerivation
  <2>2. cache' = cache /\ work'[n].state = "submitted" /\ \A t \in DOMAIN work' : t # n => t \in DOMAIN work /\ work'[t] = work[t]
    BY <1>5, <2>1 DEF SubmitDerivation, Job, disk
  <2> QED BY <2>2, ReadKept DEF Derivations
<1>6. CASE SubmitSimulation
  <2>1. PICK r : work' = [t \in DOMAIN work \union {Simulation(r)} |->
                     IF t = Simulation(r) THEN [state |-> "submitted"] ELSE work[t]]
    BY <1>6 DEF SubmitSimulation
  <2>2. cache' = cache /\ work'[Simulation(r)].state = "submitted"
        /\ \A t \in DOMAIN work' : t # Simulation(r) => t \in DOMAIN work /\ work'[t] = work[t]
    BY <1>6, <2>1 DEF SubmitSimulation, disk
  <2> QED BY <2>2, ReadKept DEF Derivations
<1>7. CASE SkipSimulation
  BY <1>1, <1>7 DEF SkipSimulation, SimulationDone
<1>8. CASE (\E r \in Runs : SimulationFinished(r)) \/ \E n \in DOMAIN work : DerivationFinished(n)
  <2>1. Close \/ (cache' \subseteq cache /\ \E t : Dropped(t))
    BY <1>8 DEF SimulationFinished, DerivationFinished, SimulationDone, MetricDone, OutputDone, disk
  <2>2. ASSUME NEW t, Dropped(t), cache' \subseteq cache PROVE InvRead'
    BY <2>2, DroppedJob, ReadKept DEF Derivations
  <2> QED BY <1>3, <2>1, <2>2
<1>9. CASE \E r \in Runs : Simulate(r)
  <2>1. PICK r \in Runs : Simulate(r)
    BY <1>9
  <2>2. cache' = cache /\ Simulation(r) \in DOMAIN work /\ \E s : Advance(Simulation(r), s)
    BY <2>1 DEF Simulate
  <2>3. DOMAIN work' = DOMAIN work /\ \A u \in DOMAIN work : u # Simulation(r) => work'[u] = work[u]
    BY <2>2 DEF Advance
  <2> QED BY <2>2, <2>3, TasksApart, ReadKept DEF Derivations
<1>10. CASE \E n \in DOMAIN work : Read(n) \/ Publish(n) \/ Raise(n)
  <2>1. PICK n \in DOMAIN work : Read(n) \/ Publish(n) \/ Raise(n)
    BY <1>10
  <2>2. work[n] \in Jobs(n)
    BY DEF PoolInv, InvPool
  <2>3. PICK s : /\ Advance(n, s) /\ s \in IF Kind(n) = "simulation" THEN SimulationStates ELSE JobStates
                 /\ Publish(n) => s = "published"
    <3>1. CASE Publish(n)
      BY <3>1 DEF Publish, Derivations, JobStates
    <3>2. CASE Read(n) /\ ~Publish(n)
      BY <3>2 DEF Read, Derivations, JobStates
    <3>3. CASE Raise(n) /\ ~Publish(n)
      BY <3>3 DEF Raise, SimulationStates, JobStates
    <3> QED BY <2>1, <3>1, <3>2, <3>3
  <2>4. /\ DOMAIN work' = DOMAIN work /\ work'[n] \in Jobs(n) /\ work'[n].state = s
        /\ \A u \in DOMAIN work : u # n => work'[u] = work[u]
        /\ Kind(n) # "simulation" => work'[n].key = work[n].key
    BY <2>2, <2>3, AdvancedJob
  <2>5. Derivations' = Derivations
    BY <2>4 DEF Derivations
  <2>6. CASE Publish(n)
    <3>1. n \in Derivations /\ cache' = cache \union {work[n].key} /\ work'[n].state = "published"
      BY <2>3, <2>4, <2>6 DEF Publish
    <3>2. SUFFICES ASSUME NEW m \in Derivations, work'[m].state = "read" PROVE work'[m].key \notin cache'
      BY <2>5 DEF InvRead
    <3>3. m # n /\ work'[m] = work[m] /\ work[m].key \notin cache
      BY <2>4, <3>1, <3>2 DEF InvRead, Derivations
    <3>4. work[m].key # work[n].key
      BY <3>1, <3>3, JobKey, KeysUnique
    <3> QED BY <3>1, <3>3, <3>4
  <2>7. CASE Read(n)
    <3>1. cache' = cache /\ n \in Derivations /\ (work[n].key \in cache => Advance(n, "published"))
      BY <2>7 DEF Read, disk
    <3>2. work[n].key \in cache => work'[n].state = "published"
      BY <3>1 DEF Advance, Derivations, PoolInv, InvPool, Jobs
    <3> QED BY <2>4, <2>5, <3>1, <3>2 DEF InvRead, Derivations
  <2>8. CASE Raise(n)
    <3>1. cache' = cache /\ Advance(n, "failed")
      BY <2>8 DEF Raise, disk
    <3>2. work'[n].state = "failed"
      BY <2>2, <3>1, AdvancedJob DEF JobStates, SimulationStates
    <3> QED BY <2>4, <2>5, <3>1, <3>2, ReadKept DEF Derivations
  <2> QED BY <2>1, <2>6, <2>7, <2>8
<1> QED BY <1>0, <1>1, <1>3, <1>4, <1>5, <1>6, <1>7, <1>8, <1>9, <1>10
     DEF CNext, Coordinate, Work, Fail, Finish, Kill

\* Of metrics that are distinct computations none is computed twice: neither by two
\* workers at once nor when its generation is there (DerivedCache identities, the ready
\* queue of the graph).
THEOREM WorkIsDoneOnce ==
  ASSUME DistinctMetrics
  PROVE  CSpec => []WorkIsNotRepeated
<1>1. CInit => InvRead
  BY DEF CInit, InvRead, Derivations
<1>2. PoolInv /\ InvRead /\ [CNext]_cvars => InvRead'
  <2> SUFFICES ASSUME PoolInv, InvRead, [CNext]_cvars PROVE InvRead'
    OBVIOUS
  <2>1. CASE UNCHANGED cvars
    BY <2>1 DEF cvars, disk, InvRead, Derivations
  <2> QED BY <2>1, ReadNext
<1>3. PoolInv /\ InvRead => WorkIsNotRepeated
  BY JobKey, KeysUnique DEF WorkIsNotRepeated, InvRead
<1> QED BY <1>1, <1>2, <1>3, CoordinatorInvariance, PTL DEF CSpec

-----------------------------------------------------------------------------
(* What is settled stays settled *)

LEMMA ProducedFrom ==
  ASSUME NEW q \in AllRequests, NEW g, Sound(q, g), NEW n \in Nodes(q), n[1] # "metric",
         g.key[n] # None
  PROVE  \A d \in Inputs(q, n) : g.key[d] # None
<1>1. g.key[n] = Identity(q, n, g.references, g.key)
  BY RunningGraph
<1> QED BY <1>1 DEF Identity

\* As long as runs keep their revisions a key does not change once there is one.
LEMMA KeysStay ==
  ASSUME NEW q \in AllRequests, NEW g, Sound(q, g), NEW h, Sound(q, h),
         \A r \in q.runs : g.references[r].trajectory # "none" =>
           /\ h.references[r].trajectory # "none"
           /\ h.references[r].revision = g.references[r].revision
  PROVE  \A n \in Nodes(q) : g.key[n] # None => h.key[n] = g.key[n]
<1>1. ASSUME NEW n \in Nodes(q), n[1] = "metric", g.key[n] # None PROVE h.key[n] = g.key[n]
  <2>1. n[3] \in q.runs
    BY <1>1, NodeKinds
  <2>0. g.key[n] = Identity(q, n, g.references, g.key) /\ h.key[n] = Identity(q, n, h.references, h.key)
    BY RunningGraph
  <2>2. g.references[n[3]].trajectory # "none" /\ h.references[n[3]].trajectory # "none"
    BY <1>1, <2>0, <2>1 DEF Identity
  <2>3. g.references[n[3]].revision = h.references[n[3]].revision
    BY <2>1, <2>2
  <2> QED BY <1>1, <2>0, <2>2, <2>3 DEF Identity
<1>2. ASSUME NEW n \in Nodes(q), n[1] # "metric", g.key[n] # None,
             \A d \in Inputs(q, n) : g.key[d] # None => h.key[d] = g.key[d]
      PROVE  h.key[n] = g.key[n]
  <2>1. \A d \in Inputs(q, n) : g.key[d] = h.key[d]
    BY <1>2, ProducedFrom
  <2>2. Identity(q, n, g.references, g.key) = Identity(q, n, h.references, h.key)
    BY <1>2, <2>1, IdentityIsLocal
  <2> QED BY <2>2, RunningGraph
<1>3. ASSUME NEW n \in Nodes(q), n[1] = "aggregate", g.key[n] # None PROVE h.key[n] = g.key[n]
  BY <1>1, <1>2, <1>3, InputKinds
<1>4. ASSUME NEW n \in Nodes(q), n[1] = "figure", g.key[n] # None PROVE h.key[n] = g.key[n]
  BY <1>2, <1>3, <1>4, InputKinds
<1> QED BY <1>1, <1>3, <1>4, NodeKinds

\* Demand stops at an aggregate that is found.
LEMMA ConsumedNotWanted ==
  ASSUME NEW q \in AllRequests, NEW g, Sound(q, g), NEW m \in MetricNodes(q),
         NEW a \in g.found, m \in Inputs(q, a)
  PROVE  ~IsWanted(g, m)
<1>1. m \in Nodes(q) /\ m[1] = "metric" /\ a \in Nodes(q)
  BY NodeKinds, RunningGraph DEF Nodes
<1>2. a \in AggregateNodes(q)
  BY <1>1, InputKinds, NodeKinds
<1>3. g.needed[m] = Base(q, m) \union {n \in g.expanded : m \in Inputs(q, n)}
  BY <1>1, RunningGraph DEF Sound, Clean, Linked
<1>4. Base(q, m) = {}
  BY <1>1, NodeKinds DEF Base, Targets
<1>5. ASSUME NEW n \in g.expanded, m \in Inputs(q, n) PROVE FALSE
  <2>1. n \in Nodes(q)
    BY RunningGraph
  <2>2. n \in AggregateNodes(q)
    BY <1>1, <1>5, <2>1, InputKinds, NodeKinds
  <2>3. n = a
    BY <1>2, <1>5, <2>2, OneConsumer
  <2>4. IsWanted(g, n)
    BY <2>1, RunningGraph DEF Right
  <2> QED BY <2>3, <2>4 DEF IsWanted
<1> QED BY <1>3, <1>4, <1>5 DEF IsWanted

\* Of an unwanted metric that a requested aggregate consumes one of the two is found.
LEMMA UnwantedIsSettled ==
  ASSUME NEW q \in AllRequests, NEW g, Sound(q, g), ~q.only, NEW m \in MetricNodes(q), ~IsWanted(g, m)
  PROVE  m \in g.found \/ \E a \in g.found : m \in Inputs(q, a)
<1>1. m \in Nodes(q)
  BY DEF Nodes
<1>2. PICK a \in AggregateNodes(q) : m \in Inputs(q, a)
  BY OneConsumer
<1>3. a \in Nodes(q) /\ a \in Targets(q) /\ a[1] # "metric"
  BY <1>2, NodeKinds DEF Nodes, Targets
<1>4. \A d \in Nodes(q) : g.needed[d] = Base(q, d) \union {n \in g.expanded : d \in Inputs(q, n)}
  BY RunningGraph DEF Sound, Clean, Linked
<1>5. g.needed[a] # {}
  BY <1>3, <1>4 DEF Base
<1>6. a \notin g.found => a \in g.expanded
  BY <1>3, <1>5, RunningGraph DEF Right, IsWanted
<1>7. a \in g.expanded => g.needed[m] # {}
  BY <1>1, <1>2, <1>4
<1> QED BY <1>2, <1>6, <1>7 DEF IsWanted

\* What is settled is not asked for.
LEMMA SettledNotWanted ==
  ASSUME PoolInv, Running, NEW m \in MetricNodes(graph.request), Settled(m), ~At(m, "published")
  PROVE  ~IsWanted(graph, m)
<1>1. graph.request \in AllRequests /\ Sound(graph.request, graph)
  BY DEF PoolInv, InvGraph
<1>2. CASE m \in graph.found
  BY <1>2 DEF IsWanted
<1>3. CASE \E a \in graph.found : m \in Inputs(graph.request, a)
  BY <1>1, <1>3, ConsumedNotWanted
<1> QED BY <1>2, <1>3 DEF Settled

SettledStays ==
  /\ graph'.request = graph.request
  /\ \A m \in MetricNodes(graph.request) : Settled(m) => Settled(m)'
LEMMA SettledGrows ==
  ASSUME graph'.request = graph.request, graph.found \subseteq graph'.found,
         \A m \in MetricNodes(graph.request) : At(m, "published") => At(m, "published")'
  PROVE  SettledStays
BY DEF SettledStays, Settled

LEMMA SettledMoved ==
  ASSUME NEW q \in AllRequests, q = graph.request, graph.found \subseteq Nodes(q), NEW N, NEW C, Moved(N, C),
         \A m \in MetricNodes(q) : At(m, "published") => m \in N \ C \/ At(m, "published")'
  PROVE  SettledStays
<1> SUFFICES ASSUME NEW m \in MetricNodes(q), Settled(m) PROVE Settled(m)'
  BY DEF SettledStays, Moved
<1>1. /\ graph'.request = q /\ graph'.found = (graph.found \union N) \ C /\ C \subseteq MetricNodes(q)
      /\ \A d \in C : \E a \in graph'.found : d \in Inputs(q, a)
  BY DEF Moved
<1>2. CASE m \in graph.found
  BY <1>1, <1>2 DEF Settled
<1>3. CASE At(m, "published")
  BY <1>1, <1>3 DEF Settled
<1>4. CASE \E a \in graph.found : m \in Inputs(q, a)
  <2>1. PICK a \in graph.found : m \in Inputs(q, a)
    BY <1>4
  <2>2. a \notin C
    BY <1>1, <2>1, InputKinds, NodeKinds
  <2> QED BY <1>1, <2>1, <2>2 DEF Settled
<1> QED BY <1>2, <1>3, <1>4 DEF Settled

LEMMA DurableStays ==
  ASSUME SettledStays, NEW r, Durable(r)
  PROVE  Durable(r)'
BY DEF SettledStays, Durable, MetricsOf

LEMMA BehindStays ==
  ASSUME SettledStays, NEW r, Behind(r), graph'.references[r] = graph.references[r],
         saved'[r] = saved[r], At(Simulation(r), "completed") => At(Simulation(r), "completed")'
  PROVE  Behind(r)'
BY DurableStays DEF Behind

LEMMA SuppliedStays ==
  ASSUME SettledStays, NEW r, Supplied(r), graph'.references[r] = graph.references[r],
         failed \subseteq failed'
  PROVE  Supplied(r)'
BY DurableStays DEF Supplied

-----------------------------------------------------------------------------
(* What workers do to what is cached *)

LEMMA ExpectedStays ==
  ASSUME PoolInv, NEW n \in Derivations, Expected(n), work'[n] = work[n],
         graph'.request = graph.request,
         \A d \in Nodes(graph.request) : graph.key[d] # None => graph'.key[d] = graph.key[d],
         work[n].key \in cache' <=> work[n].key \in cache,
         n[1] # "metric" => Inputs(graph.request, n) \subseteq graph'.found,
         n[1] = "metric" /\ work[n].state = "submitted" => saved'[n[3]].trajectory = "retained"
  PROVE  Expected(n)'
<1> DEFINE q == graph.request
<1>1. /\ n \in Nodes(q) /\ q \in AllRequests /\ Sound(q, graph)
      /\ work[n].key # None /\ work[n].key = graph.key[n]
  BY JobKey DEF PoolInv, InvGraph, Expected
<1>2. \A d \in Inputs(q, n) : graph'.key[d] = graph.key[d]
  BY <1>1, InputKinds, ProducedFrom
<1>3. {graph'.key[d] : d \in Inputs(q, n)} = {graph.key[d] : d \in Inputs(q, n)}
  BY <1>2
<1>4. graph'.key[n] = graph.key[n]
  BY <1>1
<1> QED BY <1>1, <1>3, <1>4 DEF Expected

LEMMA DerivationSteps ==
  ASSUME DistinctMetrics, PoolInv, CacheInv, NEW n \in Derivations,
         NEW state \in {"read", "published", "failed"}, Advance(n, state),
         work[n].state \in {"submitted", "read"},
         cache' = cache \/ cache' = cache \union {work[n].key},
         state = "published" <=> work[n].key \in cache',
         UNCHANGED <<saved, graph, pending, failed, report>>
  PROVE  CacheInv'
<1> DEFINE q == graph.request
<1>0. n \in DOMAIN work /\ Kind(n) # "simulation" /\ work[n] \in Jobs(n)
  BY DEF Derivations, PoolInv, InvPool
<1>1. /\ DOMAIN work' = DOMAIN work /\ work'[n] \in Jobs(n) /\ work'[n].state = state
      /\ \A u \in DOMAIN work : u # n => work'[u] = work[u]
      /\ work'[n].key = work[n].key /\ work'[n].inputs = work[n].inputs
  BY <1>0, AdvancedJob DEF JobStates
<1>2. /\ q \in AllRequests /\ Sound(q, graph) /\ n \in Nodes(q) /\ Running /\ Live /\ Expected(n)
      /\ work[n].key = graph.key[n] /\ graph.key[n] # None
  BY JobKey DEF PoolInv, InvGraph, CacheInv, InvJobs, Expected
<1>3. ASSUME NEW m \in Nodes(q), m # n
      PROVE  /\ graph.key[m] \in cache' <=> graph.key[m] \in cache
             /\ At(m, "published")' <=> At(m, "published")
  <2>1. graph.key[m] # graph.key[n]
    BY <1>2, <1>3, NodeKeysUnique
  <2> QED BY <1>1, <1>2, <1>3, <2>1 DEF At
<1>4. Derivations' = Derivations /\ Simulating' = Simulating /\ Live' = Live /\ Running' = Running
  BY <1>1 DEF Derivations, Simulating, Live, Running
<1>5. n \notin graph.found
  <2>1. ~At(n, "published") /\ work[n].key \notin cache
    BY <1>2 DEF At, Expected
  <2> QED BY <1>2, <2>1 DEF CacheInv, InvFound
<1>6. InvFound'
  <2> SUFFICES ASSUME NEW m \in Nodes(q)
               PROVE  m \in graph.found <=> graph.key[m] \in cache' /\ ~At(m, "published")'
    BY DEF InvFound
  <2>1. CASE m = n
    BY <1>0, <1>1, <1>2, <1>5, <2>1 DEF At
  <2>2. CASE m # n
    BY <1>2, <1>3, <2>2 DEF CacheInv, InvFound
  <2> QED BY <2>1, <2>2
<1>7. InvJobs'
  <2> SUFFICES ASSUME NEW m \in Derivations PROVE Expected(m)'
    BY <1>4 DEF InvJobs
  <2>0. Expected(m)
    BY DEF CacheInv, InvJobs
  <2>1. CASE m = n
    BY <1>0, <1>1, <1>2, <2>1 DEF Expected
  <2>2. CASE m # n
    <3>1. m \in Nodes(q) /\ work'[m] = work[m] /\ work[m].key = graph.key[m]
      BY <1>1, <2>0, <2>2, JobKey DEF Derivations, Expected
    <3> QED BY <1>3, <2>0, <2>2, <3>1, ExpectedStays DEF Expected
  <2> QED BY <2>1, <2>2
<1>8. InvAsked'
  BY <1>0, <1>1, <1>4, TasksApart DEF CacheInv, InvAsked, Simulating
<1>9. SettledStays
  <2>1. \A m \in MetricNodes(q) : At(m, "published") => At(m, "published")'
    BY <1>0, <1>1 DEF At
  <2> QED BY <2>1, SettledGrows
<1>10. InvBehind'
  <2> SUFFICES ASSUME NEW r \in q.runs PROVE Behind(r)'
    BY DEF InvBehind
  <2>1. At(Simulation(r), "completed") => At(Simulation(r), "completed")'
    BY <1>0, <1>1, TasksApart DEF At
  <2> QED BY <1>2, <1>9, <2>1, BehindStays DEF CacheInv, InvBehind
<1>11. InvDone'
  BY <1>4, <1>9, SuppliedStays DEF CacheInv, InvDone
<1>12. InvFailed'
  BY <1>4 DEF CacheInv, InvFailed
<1> QED BY <1>6, <1>7, <1>8, <1>10, <1>11, <1>12 DEF CacheInv

LEMMA SimulationSteps ==
  ASSUME PoolInv, CacheInv, NEW r \in Runs, Simulation(r) \in DOMAIN work,
         work[Simulation(r)].state = "submitted", NEW state, Advance(Simulation(r), state),
         cache' = cache, UNCHANGED <<graph, pending, failed, report>>,
         \/ /\ saved' = saved /\ state \in {"skipped", "paused", "failed"}
            /\ state = "skipped" => saved[r].trajectory = "retained"
         \/ /\ state = "completed" /\ saved'[r].trajectory = "retained"
            /\ \A s \in Runs : s # r => saved'[s] = saved[s]
  PROVE  CacheInv'
<1> DEFINE q == graph.request
           t == Simulation(r)
<1>0. Live /\ Running /\ q \in AllRequests /\ q.runs \subseteq Runs
  <2>1. Live
    BY DEF PoolInv, InvPool
  <2> QED BY <2>1, Requested DEF Live, PoolInv, InvGraph
<1>1. /\ DOMAIN work' = DOMAIN work /\ work'[t].state = state
      /\ \A u \in DOMAIN work : u # t => work'[u] = work[u]
  <2>1. work[t] \in [state : SimulationStates]
    BY TasksApart DEF PoolInv, InvPool, Jobs
  <2> QED BY <2>1 DEF Advance
<1>2. Derivations' = Derivations /\ Simulating' = Simulating /\ Live' = Live /\ Running' = Running
  BY <1>1 DEF Derivations, Simulating, Live, Running
<1>3. \A n \in Nodes(q) : At(n, "published")' <=> At(n, "published")
  BY <1>0, <1>1, TasksApart DEF At
<1>4. \A s \in Runs : saved[s].trajectory = "retained" => saved'[s].trajectory = "retained"
  OBVIOUS
<1>5. InvFound'
  BY <1>0, <1>2, <1>3 DEF CacheInv, InvFound
<1>6. InvJobs'
  <2> SUFFICES ASSUME NEW n \in Derivations PROVE Expected(n)'
    BY <1>2 DEF InvJobs
  <2>1. Expected(n) /\ n \in Nodes(q) /\ work'[n] = work[n]
    BY <1>1, JobKey, TasksApart DEF CacheInv, InvJobs, Derivations
  <2>2. n[1] = "metric" => n[3] \in Runs
    BY <1>0, <2>1, NodeKinds
  <2> QED BY <1>4, <2>1, <2>2, ExpectedStays DEF Expected
<1>7. InvAsked'
  <2>1. ASSUME NEW n \in Derivations PROVE work'[n] = work[n]
    BY <1>1, TasksApart DEF Derivations
  <2>2. ASSUME NEW s \in Simulating, work'[Simulation(s)].state \in {"completed", "skipped"}
        PROVE  saved'[s].trajectory = "retained" \/ graph.references[s].trajectory = "retained"
    <3>1. CASE s = r
      BY <1>1, <2>2, <3>1
    <3>2. CASE s # r
      <4>1. work'[Simulation(s)] = work[Simulation(s)] /\ s \in Runs
        BY <1>1, <3>2, TasksApart DEF Simulating
      <4> QED BY <1>4, <2>2, <4>1 DEF CacheInv, InvAsked
    <3> QED BY <3>1, <3>2
  <2> QED BY <1>2, <2>2 DEF CacheInv, InvAsked
<1>8. SettledStays
  <2>1. MetricNodes(q) \subseteq Nodes(q)
    BY DEF Nodes
  <2> QED BY <1>3, <2>1, SettledGrows
<1>9. InvBehind'
  <2> SUFFICES ASSUME NEW s \in q.runs PROVE Behind(s)'
    BY DEF InvBehind
  <2>0. s \in Runs /\ Behind(s)
    BY <1>0 DEF CacheInv, InvBehind
  <2>1. CASE s # r \/ saved' = saved
    <3>1. At(Simulation(s), "completed") => At(Simulation(s), "completed")'
      BY <1>1, <2>1, TasksApart DEF At
    <3> QED BY <1>8, <2>0, <2>1, <3>1, BehindStays
  <2>2. CASE s = r /\ state = "completed" /\ saved'[r].trajectory = "retained"
    BY <1>1, <2>2 DEF Behind, At
  <2> QED BY <2>1, <2>2
<1>10. InvDone'
  BY <1>2, <1>8, SuppliedStays DEF CacheInv, InvDone
<1>11. InvFailed'
  BY <1>2 DEF CacheInv, InvFailed
<1> QED BY <1>5, <1>6, <1>7, <1>9, <1>10, <1>11 DEF CacheInv

LEMMA CacheWork ==
  ASSUME DistinctMetrics, PoolInv, CacheInv, Work \/ Fail
  PROVE  CacheInv'
<1>1. CASE \E r \in Runs : Simulate(r)
  <2>1. PICK r \in Runs : Simulate(r)
    BY <1>1
  <2>2. /\ Simulation(r) \in DOMAIN work /\ work[Simulation(r)].state = "submitted"
        /\ UNCHANGED <<cache, graph, pending, failed, report>>
    BY <2>1 DEF Simulate, svars
  <2>3. saved \in [Runs -> References]
    BY DEF PoolInv, InvTypes
  <2>4. PICK state : /\ Advance(Simulation(r), state)
                     /\ \/ /\ saved' = saved /\ state \in {"skipped", "paused", "failed"}
                           /\ state = "skipped" => saved[r].trajectory = "retained"
                        \/ /\ state = "completed" /\ saved'[r].trajectory = "retained"
                           /\ \A s \in Runs : s # r => saved'[s] = saved[s]
    BY <2>1, <2>3 DEF Simulate
  <2> QED BY <2>2, <2>4, SimulationSteps
<1>2. CASE \E n \in DOMAIN work : Read(n)
  <2>1. PICK n : Read(n)
    BY <1>2
  <2>2. n \in Derivations /\ work[n].state = "submitted" /\ UNCHANGED <<cache, saved, graph, pending, failed, report>>
    BY <2>1 DEF Read, disk, svars
  <2>3. PICK state \in {"read", "published", "failed"} :
          Advance(n, state) /\ (state = "published" <=> work[n].key \in cache)
    BY <2>1 DEF Read
  <2> QED BY <2>2, <2>3, DerivationSteps
<1>3. CASE \E n \in DOMAIN work : Publish(n)
  <2>1. PICK n : Publish(n)
    BY <1>3
  <2> QED BY <2>1, DerivationSteps DEF Publish, svars
<1>4. CASE \E t \in DOMAIN work : Raise(t)
  <2>1. PICK t \in DOMAIN work : Raise(t)
    BY <1>4
  <2>2. Advance(t, "failed") /\ UNCHANGED <<cache, saved, graph, pending, failed, report>>
    BY <2>1 DEF Raise, disk, svars
  <2>3. CASE Kind(t) = "simulation"
    <3>1. Running /\ graph.request \in AllRequests
      BY <2>1 DEF PoolInv, InvPool, InvGraph, Live
    <3>2. PICK r \in graph.request.runs : t = Simulation(r)
      BY <2>1, <2>3, <3>1, TasksApart DEF PoolInv, InvPool
    <3>3. r \in Runs /\ work[t].state = "submitted"
      BY <2>1, <2>3, <3>1, <3>2, Requested DEF Raise
    <3> QED BY <2>1, <2>2, <3>2, <3>3, SimulationSteps
  <2>4. CASE Kind(t) # "simulation"
    <3>1. t \in Derivations /\ work[t].state = "read"
      BY <2>1, <2>4 DEF Derivations, Raise
    <3>2. work[t].key \notin cache
      BY <3>1 DEF CacheInv, InvJobs, Expected
    <3> QED BY <2>2, <3>1, <3>2, DerivationSteps
  <2> QED BY <2>3, <2>4
<1> QED BY <1>1, <1>2, <1>3, <1>4 DEF Work, Fail

-----------------------------------------------------------------------------
(* What the coordinator does to what is cached *)

LEMMA CacheSame ==
  ASSUME CacheInv, UNCHANGED <<saved, cache, graph, pending, failed, work, report>>
  PROVE  CacheInv'
<1>1. /\ Running' = Running /\ Live' = Live /\ Derivations' = Derivations /\ Simulating' = Simulating
      /\ \A t, s : At(t, s)' <=> At(t, s)
  BY DEF Running, Live, Derivations, Simulating, At
<1>2. \A n : Settled(n)' <=> Settled(n)
  BY <1>1 DEF Settled
<1>3. \A r : Durable(r)' <=> Durable(r)
  BY <1>2 DEF Durable
<1>4. \A r : (Behind(r)' <=> Behind(r)) /\ (Supplied(r)' <=> Supplied(r))
  BY <1>1, <1>3 DEF Behind, Supplied
<1>5. \A n : Expected(n)' <=> Expected(n)
  BY DEF Expected
<1> QED BY <1>1, <1>4, <1>5 DEF CacheInv, InvFound, InvJobs, InvAsked, InvBehind, InvDone, InvFailed

LEMMA CacheClose ==
  ASSUME Close
  PROVE  CacheInv'
<1>1. ~Running' /\ ~Live' /\ DOMAIN work' = {}
  BY DEF Close, Running, Live
<1>2. Derivations' = {} /\ Simulating' = {}
  BY <1>1 DEF Derivations, Simulating
<1> QED BY <1>1, <1>2 DEF CacheInv, InvFound, InvJobs, InvAsked, InvBehind, InvDone, InvFailed

LEMMA CacheBegin ==
  ASSUME PoolInv, NEW q \in study.requests, Begin(q)
  PROVE  CacheInv'
<1>1. /\ q \in AllRequests /\ saved \in [Runs -> References] /\ None \notin cache /\ q.runs \subseteq Runs
  BY KnownKeys, Requested DEF PoolInv, InvTypes, AllRequests
<1>2. PICK g : g = Construct(q, saved, cache)
  OBVIOUS
<1>3. /\ graph' = g /\ DOMAIN work' = {} /\ failed' = {} /\ saved' = saved /\ cache' = cache
      /\ q.mode = "run" => pending' = q.runs
  BY <1>2 DEF Begin, Plan, disk
<1>4. /\ Sound(q, g) /\ g.references = [r \in q.runs |-> saved[r]]
      /\ \A n \in Nodes(q) : n \in g.found <=> g.key[n] \in cache
  BY <1>1, <1>2, ConstructSound
<1>5. g.request = q
  BY <1>1, <1>4, RunningGraph
<1>6. Derivations' = {} /\ Simulating' = {} /\ \A t, s : ~At(t, s)'
  BY <1>3 DEF Derivations, Simulating, At
<1>7. InvFound'
  BY <1>3, <1>4, <1>5, <1>6 DEF InvFound
<1>8. \A r \in q.runs : Behind(r)'
  BY <1>1, <1>3, <1>4 DEF Behind
<1>9. InvBehind'
  BY <1>3, <1>5, <1>8 DEF InvBehind
<1>10. InvDone'
  BY <1>3, <1>5 DEF InvDone, Live
<1> QED BY <1>3, <1>6, <1>7, <1>9, <1>10 DEF CacheInv, InvJobs, InvAsked, InvFailed

LEMMA CacheSubmitDerivation ==
  ASSUME PoolInv, CacheInv, SubmitDerivation
  PROVE  CacheInv'
<1> DEFINE q == graph.request
<1>1. PICK n \in graph.ready :
        /\ TakeDerivation(graph.ready, n)
        /\ work' = [t \in DOMAIN work \union {n} |-> IF t = n THEN Job(n) ELSE work[t]]
  BY DEF SubmitDerivation
<1>2. Running /\ Live /\ UNCHANGED <<saved, cache, graph, report>>
  BY DEF SubmitDerivation, MayTake, Live, disk
<1>3. pending' = pending /\ failed' = failed /\ n \notin DOMAIN work
  BY <1>1 DEF TakeDerivation, Eligible, PoolInv, InvPool
<1>4. q \in AllRequests /\ Sound(q, graph) /\ \A d \in graph.found : graph.key[d] # None
  BY <1>2 DEF PoolInv, InvGraph
<1>5. n \in Nodes(q) /\ graph.key[n] \in KeysOf(n) /\ IsWanted(graph, n) /\ CanRun(graph, n)
  BY <1>4, ReadyHasKey, RunningGraph DEF Right
<1>6. Kind(n) # "simulation" /\ \A r : n # Simulation(r)
  BY <1>4, <1>5, TasksApart
<1>7. /\ DOMAIN work' = DOMAIN work \union {n} /\ work'[n] = Job(n)
      /\ \A t \in DOMAIN work : t # n => work'[t] = work[t]
  BY <1>1
<1>8. /\ Simulating' = Simulating /\ Derivations' = Derivations \union {n}
      /\ Live' = Live /\ Running' = Running
  BY <1>2, <1>6, <1>7 DEF Simulating, Derivations, Live, Running
<1>9. \A t : t # n => \A s : At(t, s)' <=> At(t, s)
  BY <1>7 DEF At
<1>10. ~At(n, "published") /\ ~At(n, "published")'
  BY <1>3, <1>7 DEF At, Job
<1>11. graph.key[n] \notin cache
  BY <1>2, <1>5, <1>10 DEF CacheInv, InvFound, IsWanted
<1>12. n[1] = "metric" => /\ n[3] \in q.runs /\ graph.references[n[3]].trajectory = "retained"
                          /\ saved[n[3]].trajectory = "retained"
  <2> SUFFICES ASSUME n[1] = "metric" PROVE /\ n[3] \in q.runs
                                            /\ graph.references[n[3]].trajectory = "retained"
                                            /\ saved[n[3]].trajectory = "retained"
    OBVIOUS
  <2>1. n \in MetricNodes(q) /\ n[3] \in q.runs /\ graph.references[n[3]].trajectory = "retained"
    BY <1>4, <1>5, NodeKinds DEF CanRun
  <2>2. ~Settled(n)
    BY <1>2, <1>5, <1>10, <2>1, SettledNotWanted
  <2>3. ~Durable(n[3])
    BY <2>1, <2>2 DEF Durable, MetricsOf
  <2> QED BY <1>2, <2>1, <2>3 DEF CacheInv, InvBehind, Behind
<1>13. InvFound'
  BY <1>2, <1>8, <1>9, <1>10 DEF CacheInv, InvFound
<1>14. InvJobs'
  <2>1. Expected(n)'
    <3>1. /\ work'[n].key = graph.key[n] /\ work'[n].state = "submitted"
          /\ work'[n].inputs = {graph.key[d] : d \in Inputs(q, n)}
      BY <1>7 DEF Job
    <3>2. n[1] # "metric" => Inputs(q, n) \subseteq graph.found
      BY <1>4, <1>5, RunningGraph DEF CanRun
    <3> QED BY <1>2, <1>11, <1>12, <3>1, <3>2 DEF Expected
  <2>2. ASSUME NEW m \in Derivations, m # n PROVE Expected(m)'
    <3>1. Expected(m) /\ m \in Nodes(q) /\ work'[m] = work[m]
      BY <1>7, <2>2, JobKey DEF CacheInv, InvJobs, Derivations
    <3> QED BY <1>2, <3>1, ExpectedStays DEF Expected
  <2> QED BY <1>8, <2>1, <2>2 DEF InvJobs
<1>15. InvAsked'
  <2>1. \A r \in Simulating : work'[Simulation(r)] = work[Simulation(r)]
    BY <1>6, <1>7 DEF Simulating
  <2> QED BY <1>2, <1>3, <1>8, <1>12, <2>1 DEF CacheInv, InvAsked
<1>16. SettledStays
  BY <1>2, <1>9, <1>10, SettledGrows
<1>17. InvBehind'
  <2> SUFFICES ASSUME NEW r \in q.runs PROVE Behind(r)'
    BY <1>2 DEF InvBehind
  <2>1. At(Simulation(r), "completed") => At(Simulation(r), "completed")'
    BY <1>6, <1>9
  <2> QED BY <1>2, <1>16, <2>1, BehindStays DEF CacheInv, InvBehind
<1>18. InvDone'
  BY <1>2, <1>3, <1>8, <1>16, SuppliedStays DEF CacheInv, InvDone
<1>19. InvFailed'
  BY <1>2, <1>3, <1>8 DEF CacheInv, InvFailed
<1> QED BY <1>13, <1>14, <1>15, <1>17, <1>18, <1>19 DEF CacheInv

LEMMA CacheSubmitSimulation ==
  ASSUME PoolInv, CacheInv, SubmitSimulation
  PROVE  CacheInv'
<1> DEFINE q == graph.request
<1>1. PICK r \in pending :
        /\ TakeSimulation(graph.ready, r, TRUE)
        /\ work' = [t \in DOMAIN work \union {Simulation(r)} |->
                      IF t = Simulation(r) THEN [state |-> "submitted"] ELSE work[t]]
  BY DEF SubmitSimulation
<1>2. Running /\ Live /\ UNCHANGED <<saved, cache, graph, report>>
  BY DEF SubmitSimulation, MayTake, Live, disk
<1>3. pending' = pending \ {r} /\ failed' = failed /\ r \notin Simulating /\ r \in Runs
  BY <1>1, <1>2, Requested DEF TakeSimulation, PoolInv, InvPool, InvGraph
<1>4. q \in AllRequests
  BY <1>2 DEF PoolInv, InvGraph
<1>5. /\ DOMAIN work' = DOMAIN work \union {Simulation(r)} /\ work'[Simulation(r)] = [state |-> "submitted"]
      /\ \A t \in DOMAIN work : t # Simulation(r) => work'[t] = work[t]
  BY <1>1
<1>6. Simulation(r) \notin DOMAIN work
  BY <1>3 DEF Simulating
<1>7. /\ Simulating' = Simulating \union {r} /\ pending' \union Simulating' = pending \union Simulating
      /\ Live' = Live /\ Running' = Running
  BY <1>1, <1>2, <1>3, <1>5, TasksApart DEF Simulating, Live, Running
<1>8. Derivations' = Derivations /\ \A n \in Derivations : work'[n] = work[n]
  BY <1>5, TasksApart DEF Derivations
<1>9. /\ \A t : t # Simulation(r) => \A s : At(t, s)' <=> At(t, s)
      /\ \A s : s # "submitted" => (At(Simulation(r), s)' <=> At(Simulation(r), s))
  BY <1>5, <1>6 DEF At
<1>10. InvFound'
  BY <1>2, <1>4, <1>7, <1>9, TasksApart DEF CacheInv, InvFound
<1>11. InvJobs'
  <2> SUFFICES ASSUME NEW n \in Derivations PROVE Expected(n)'
    BY <1>8 DEF InvJobs
  <2>1. Expected(n) /\ n \in Nodes(q) /\ work'[n] = work[n]
    BY <1>8, JobKey DEF CacheInv, InvJobs
  <2> QED BY <1>2, <2>1, ExpectedStays DEF Expected
<1>12. InvAsked'
  <2>1. ASSUME NEW s \in Simulating', work'[Simulation(s)].state \in {"completed", "skipped"}
        PROVE  s \in Simulating /\ work'[Simulation(s)] = work[Simulation(s)]
    BY <1>5, <1>7, <2>1, TasksApart DEF Simulating
  <2> QED BY <1>2, <1>7, <1>8, <2>1 DEF CacheInv, InvAsked
<1>13. SettledStays
  <2>1. \A m \in MetricNodes(q) : m # Simulation(r)
    BY <1>4, TasksApart DEF Nodes
  <2> QED BY <1>2, <1>9, <2>1, SettledGrows
<1>14. InvBehind'
  <2> SUFFICES ASSUME NEW s \in q.runs PROVE Behind(s)'
    BY <1>2 DEF InvBehind
  <2>1. At(Simulation(s), "completed") => At(Simulation(s), "completed")'
    BY <1>9
  <2> QED BY <1>2, <1>13, <2>1, BehindStays DEF CacheInv, InvBehind
<1>15. InvDone'
  BY <1>2, <1>3, <1>7, <1>13, SuppliedStays DEF CacheInv, InvDone
<1>16. InvFailed'
  BY <1>2, <1>3, <1>7 DEF CacheInv, InvFailed
<1> QED BY <1>10, <1>11, <1>12, <1>14, <1>15, <1>16 DEF CacheInv
\* The graph notes as found what is in the cache, and forgets what is released.
LEMMA FoundMoved ==
  ASSUME DistinctMetrics, PoolInv, InvFound, Running, NEW N, NEW C, Moved(N, C), N \intersect C = {},
         \A n \in N : n \in Nodes(graph.request) /\ graph.key[n] # None /\ ~At(n, "published")',
         \A n \in Nodes(graph.request) \ N : At(n, "published")' <=> At(n, "published"),
         cache' = (cache \union {graph.key[n] : n \in N}) \ {graph.key[d] : d \in C}
  PROVE  InvFound'
<1> DEFINE q == graph.request
<1>1. /\ q \in AllRequests /\ Sound(q, graph) /\ None \notin cache
      /\ graph'.request = q /\ graph'.key = graph.key /\ graph'.found = (graph.found \union N) \ C
      /\ C \subseteq Nodes(q)
  BY KnownKeys DEF PoolInv, InvGraph, Moved, Nodes
<1> SUFFICES ASSUME NEW n \in Nodes(q)
             PROVE  n \in graph'.found <=> graph.key[n] \in cache' /\ ~At(n, "published")'
  BY <1>1 DEF InvFound
<1>2. CASE n \in C
  BY <1>1, <1>2
<1>3. CASE n \in N
  <2>1. graph.key[n] \notin {graph.key[d] : d \in C}
    BY <1>1, <1>3, NodeKeysUnique
  <2> QED BY <1>1, <1>3, <2>1
<1>4. CASE n \notin C /\ n \notin N
  <2>1. n \in graph'.found <=> graph.key[n] \in cache /\ ~At(n, "published")'
    BY <1>1, <1>4 DEF InvFound
  <2>2. ASSUME graph.key[n] \in cache PROVE graph.key[n] \in cache'
    BY <1>1, <1>4, <2>2, NodeKeysUnique
  <2>3. ASSUME graph.key[n] \in cache', graph.key[n] \notin cache PROVE FALSE
    <3>1. PICK m \in N : graph.key[n] = graph.key[m]
      BY <2>3
    <3> QED BY <1>1, <1>4, <3>1, NodeKeysUnique
  <2> QED BY <2>1, <2>2, <2>3
<1> QED BY <1>2, <1>3, <1>4

\* Saved-only steps and the completion of earlier deletions: no task is in the pool.
LEMMA IdleMoved ==
  ASSUME DistinctMetrics, PoolInv, CacheInv, Running, NEW N, NEW C, Moved(N, C), N \intersect C = {},
         \A n \in N : n \in Nodes(graph.request) /\ graph.key[n] # None,
         DOMAIN work = {}, UNCHANGED <<saved, pending, failed, work, report>>,
         cache' = (cache \union {graph.key[n] : n \in N}) \ {graph.key[d] : d \in C}
  PROVE  CacheInv'
<1> DEFINE q == graph.request
<1>1. /\ q \in AllRequests /\ Sound(q, graph) /\ graph.found \subseteq Nodes(q)
      /\ Running' /\ Live' = Live /\ graph'.request = q /\ graph'.references = graph.references
  BY RunningGraph DEF PoolInv, InvGraph, Moved, Live
<1>2. Derivations' = {} /\ Simulating' = {} /\ Simulating = {} /\ \A t, s : ~At(t, s) /\ ~At(t, s)'
  BY DEF Derivations, Simulating, At
<1>3. InvFound'
  BY <1>2, FoundMoved DEF CacheInv
<1>4. SettledStays
  BY <1>1, <1>2, SettledMoved
<1>5. InvBehind'
  BY <1>1, <1>2, <1>4, BehindStays DEF CacheInv, InvBehind
<1>6. InvDone'
  BY <1>1, <1>2, <1>4, SuppliedStays DEF CacheInv, InvDone
<1>7. InvFailed'
  BY <1>1 DEF CacheInv, InvFailed
<1> QED BY <1>2, <1>3, <1>5, <1>6, <1>7 DEF CacheInv, InvJobs, InvAsked

LEMMA CachePrune ==
  ASSUME DistinctMetrics, PoolInv, CacheInv, PruneExisting
  PROVE  CacheInv'
<1>1. PICK C : /\ Moved({}, C) /\ Running /\ graph.prune
               /\ cache' = cache \ {graph.key[d] : d \in C}
  BY PruneExistingKeeps DEF PoolInv
<1>2. DOMAIN work = {} /\ UNCHANGED <<saved, pending, failed, work, report>>
  BY <1>1 DEF PoolInv, InvPrune, PruneExisting, svars
<1>3. cache' = (cache \union {graph.key[n] : n \in {}}) \ {graph.key[d] : d \in C}
  BY <1>1
<1> QED BY <1>1, <1>2, <1>3, IdleMoved

LEMMA CacheExecute ==
  ASSUME DistinctMetrics, PoolInv, CacheInv, NEW n, Execute(n)
  PROVE  CacheInv'
<1> SUFFICES ASSUME ~Close PROVE CacheInv'
  BY CacheClose
<1>1. PICK C : /\ Moved({n}, C) /\ Running /\ ~Live
               /\ n \in Nodes(graph.request) /\ graph.key[n] # None
               /\ cache' = (cache \union {graph.key[n]}) \ {graph.key[d] : d \in C}
               /\ n \notin C
  BY ExecuteKeeps
<1>2. DOMAIN work = {} /\ UNCHANGED <<saved, pending, failed, work, report>>
  BY <1>1 DEF PoolInv, InvPool, Execute, svars
<1>3. cache' = (cache \union {graph.key[m] : m \in {n}}) \ {graph.key[d] : d \in C}
  BY <1>1
<1> QED BY <1>1, <1>2, <1>3, IdleMoved

\* Observations are not removed under a metric that is still to read them.
LEMMA PruningSpares ==
  ASSUME PoolInv, CacheInv, Running, NEW r \in Runs, Pruning(r), graph'.request = graph.request,
         \A d \in Nodes(graph.request) : graph.key[d] # None => graph'.key[d] = graph.key[d],
         NEW n \in Derivations, n[1] = "metric", work[n].state = "submitted"
  PROVE  saved'[n[3]].trajectory = "retained"
<1>1. saved[n[3]].trajectory = "retained" /\ work[n].key \notin cache /\ work[n].key = graph.key[n]
  BY DEF CacheInv, InvJobs, Expected
<1>2. /\ n \in MetricNodes(graph.request) /\ n \in Nodes(graph.request) /\ work[n].key # None
      /\ n[3] \in Runs
  BY JobKey, NodeKinds, Requested DEF PoolInv, InvGraph
<1>3. CASE n[3] = r /\ saved' # saved
  <2>1. \A m \in MetricsOf(graph'.request, r) : graph'.key[m] \in cache
    BY <1>3 DEF Pruning, MetricProofs
  <2>2. n \in MetricsOf(graph'.request, r)
    BY <1>2, <1>3 DEF MetricsOf
  <2> QED BY <1>1, <1>2, <2>1, <2>2
<1>4. CASE n[3] # r \/ saved' = saved
  BY <1>1, <1>2, <1>4 DEF Pruning, PoolInv, InvTypes
<1> QED BY <1>3, <1>4

\* What was analyzed to the end is durable.
LEMMA PruningIsDurable ==
  ASSUME PoolInv, PoolInv', InvFound', Running', NEW r \in Runs, Pruning(r), cache' = cache, saved' # saved
  PROVE  /\ saved[r].trajectory = "retained" /\ saved'[r].trajectory = "pruned" /\ Durable(r)'
         /\ \A s \in Runs : s # r => saved'[s] = saved[s]
<1>1. /\ saved[r].trajectory = "retained" /\ saved' = [saved EXCEPT ![r].trajectory = "pruned"]
      /\ MetricProofs(graph', cache, r) /\ saved \in [Runs -> References]
  BY DEF Pruning, PoolInv, InvTypes
<1>2. MetricsOf(graph'.request, r) \subseteq Nodes(graph'.request)
  BY DEF MetricsOf, Nodes
<1>3. Durable(r)'
  BY <1>1, <1>2 DEF InvFound, MetricProofs, Durable, Settled
<1>4. saved'[r].trajectory = "pruned"
  BY <1>1 DEF References
<1> QED BY <1>1, <1>3, <1>4

LEMMA CachePublished ==
  ASSUME DistinctMetrics, PoolInv, PoolInv', CacheInv, NEW n \in Derivations, work[n].state = "published",
         NEW C, Moved({n}, C), \A d \in C : n[1] = "aggregate" /\ d \in Inputs(graph.request, n),
         n \notin C, graph.key[n] \in cache, cache' = cache \ {graph.key[d] : d \in C},
         Dropped(n), UNCHANGED <<pending, failed, report>>,
         saved' = saved \/ (C = {} /\ n[1] = "metric" /\ Pruning(n[3]))
  PROVE  CacheInv'
<1> DEFINE q == graph.request
<1>1. /\ q \in AllRequests /\ Sound(q, graph) /\ graph.found \subseteq Nodes(q) /\ None \notin cache
      /\ n \in Nodes(q) /\ Running /\ Live /\ Running' /\ Live' /\ Expected(n) /\ graph.key[n] # None
  BY JobKey, RunningGraph, KnownKeys
     DEF PoolInv, InvGraph, CacheInv, InvJobs, Moved, Live, Expected
<1>2. /\ graph'.request = q /\ graph'.references = graph.references /\ graph'.key = graph.key
      /\ graph'.found = (graph.found \union {n}) \ C /\ C \subseteq MetricNodes(q) /\ C \subseteq Nodes(q)
  BY DEF Moved, Nodes
<1>3. /\ DOMAIN work' = DOMAIN work \ {n} /\ \A u \in DOMAIN work' : work'[u] = work[u]
      /\ n \in DOMAIN work /\ Kind(n) # "simulation"
  BY DroppedJob DEF Derivations
<1>4. /\ Derivations' = Derivations \ {n} /\ Simulating' = Simulating
      /\ \A r \in Simulating : work'[Simulation(r)] = work[Simulation(r)]
  BY <1>3, TasksApart DEF Derivations, Simulating
<1>5. \A t : t # n => \A s : At(t, s)' <=> At(t, s)
  BY <1>3 DEF At
<1>6. ~At(n, "published")'
  BY <1>3 DEF At
<1>7. InvFound'
  <2>1. cache' = (cache \union {graph.key[m] : m \in {n}}) \ {graph.key[d] : d \in C}
    BY <1>1
  <2> QED BY <1>1, <1>5, <1>6, <2>1, FoundMoved DEF CacheInv
<1>8. n[1] = "metric" => n[3] \in q.runs /\ n[3] \in Runs
  BY <1>1, NodeKinds, Requested
<1>9. InvJobs'
  <2> SUFFICES ASSUME NEW m \in Derivations, m # n PROVE Expected(m)'
    BY <1>4 DEF InvJobs
  <2>1. Expected(m) /\ m \in Nodes(q) /\ work'[m] = work[m] /\ graph.key[m] # None
    BY <1>3, JobKey DEF CacheInv, InvJobs, Derivations, Expected
  <2>2. work[m].key \in cache' <=> work[m].key \in cache
    <3>1. ASSUME NEW d \in C, graph.key[m] = graph.key[d] PROVE FALSE
      <4>1. m = d
        BY <1>1, <1>2, <2>1, <3>1, NodeKeysUnique
      <4>2. m \in graph.found
        BY <1>1, <3>1, <4>1 DEF Expected
      <4>3. graph.key[m] \in cache /\ ~At(m, "published")
        BY <1>1, <2>1, <4>2 DEF CacheInv, InvFound
      <4> QED BY <2>1, <4>3 DEF Expected, At, Derivations
    <3> QED BY <2>1, <3>1 DEF Expected
  <2>3. m[1] # "metric" => Inputs(q, m) \subseteq graph'.found
    <3> SUFFICES ASSUME m[1] # "metric", NEW d \in Inputs(q, m) PROVE d \in graph'.found
      OBVIOUS
    <3>1. d \in graph.found
      BY <2>1 DEF Expected
    <3>2. ASSUME d \in C PROVE FALSE
      <4>1. d[1] = "metric" /\ d \in Inputs(q, n)
        BY <1>1, <1>2, <3>2, NodeKinds
      <4>2. m \in AggregateNodes(q) /\ n \in AggregateNodes(q)
        BY <1>1, <2>1, <4>1, InputKinds, NodeKinds
      <4> QED BY <1>1, <4>1, <4>2, OneConsumer
    <3> QED BY <1>2, <3>1, <3>2
  <2>4. m[1] = "metric" /\ work[m].state = "submitted" => saved'[m[3]].trajectory = "retained"
    <3>1. CASE saved' = saved
      BY <2>1, <3>1 DEF Expected
    <3>2. CASE n[1] = "metric" /\ Pruning(n[3])
      BY <1>1, <1>2, <1>8, <3>2, PruningSpares
    <3> QED BY <3>1, <3>2
  <2> QED BY <1>2, <2>1, <2>2, <2>3, <2>4, ExpectedStays
<1>10. SettledStays
  <2>1. \A m \in MetricNodes(q) : At(m, "published") => m \in {n} \ C \/ At(m, "published")'
    BY <1>5
  <2> QED BY <1>1, <2>1, SettledMoved
\* Nothing is removed, or the observations of this metric's run.
<1>11. \/ saved' = saved
       \/ /\ n[1] = "metric" /\ n[3] \in Runs /\ n[3] \in q.runs
          /\ saved[n[3]].trajectory = "retained" /\ saved'[n[3]].trajectory = "pruned" /\ Durable(n[3])'
          /\ \A s \in Runs : s # n[3] => saved'[s] = saved[s]
  <2> SUFFICES ASSUME saved' # saved, C = {}, n[1] = "metric", Pruning(n[3])
               PROVE  /\ saved[n[3]].trajectory = "retained" /\ saved'[n[3]].trajectory = "pruned"
                      /\ Durable(n[3])' /\ \A s \in Runs : s # n[3] => saved'[s] = saved[s]
    BY <1>8
  <2>1. PICK r \in Runs : r = n[3]
    BY <1>8
  <2>2. cache' = cache
    OBVIOUS
  <2>3. /\ saved[r].trajectory = "retained" /\ saved'[r].trajectory = "pruned" /\ Durable(r)'
        /\ \A s \in Runs : s # r => saved'[s] = saved[s]
    BY <1>1, <1>7, <2>1, <2>2, PruningIsDurable
  <2> QED BY <2>1, <2>3
<1>12. n[1] = "metric" /\ n[3] \in Simulating => graph.references[n[3]].trajectory = "retained"
  BY DEF CacheInv, InvAsked
<1>13. InvAsked'
  <2>1. ASSUME NEW r \in Simulating, saved[r].trajectory = "retained", saved'[r].trajectory # "retained"
        PROVE  graph.references[r].trajectory = "retained"
    BY <1>11, <1>12, <2>1 DEF Simulating
  <2> QED BY <1>2, <1>4, <2>1 DEF CacheInv, InvAsked, Derivations
<1>14. InvBehind'
  <2> SUFFICES ASSUME NEW r \in q.runs PROVE Behind(r)'
    BY <1>2 DEF InvBehind
  <2>0. Behind(r) /\ r \in Runs
    BY <1>1, Requested DEF CacheInv, InvBehind
  <2>1. CASE saved'[r] = saved[r]
    <3>1. At(Simulation(r), "completed") => At(Simulation(r), "completed")'
      BY <1>1, <1>5, TasksApart
    <3> QED BY <1>2, <1>10, <2>0, <2>1, <3>1, BehindStays
  <2>2. CASE saved'[r] # saved[r]
    <3>1. /\ n[1] = "metric" /\ r = n[3] /\ saved[r].trajectory = "retained" /\ saved'[r].trajectory = "pruned"
      BY <1>11, <2>0, <2>2
    <3>2. Durable(r)'
      BY <1>11, <2>2, <3>1
    <3>3. graph.references[r].trajectory = "retained"
      BY <1>12, <2>0, <3>1 DEF Behind, At, Simulating
    <3> QED BY <1>2, <3>1, <3>2, <3>3 DEF Behind
  <2> QED BY <2>1, <2>2
<1>15. InvDone'
  BY <1>1, <1>2, <1>4, <1>10, SuppliedStays DEF CacheInv, InvDone
<1>16. InvFailed'
  BY <1>1 DEF CacheInv, InvFailed
<1> QED BY <1>7, <1>9, <1>13, <1>14, <1>15, <1>16 DEF CacheInv

LEMMA CacheDerivationFinished ==
  ASSUME DistinctMetrics, PoolInv, PoolInv', CacheInv, NEW n, DerivationFinished(n)
  PROVE  CacheInv'
<1> SUFFICES ASSUME ~Close PROVE CacheInv'
  BY CacheClose
<1> DEFINE q == graph.request
<1>1. /\ n \in Derivations /\ n \in Nodes(q) /\ Live /\ Running /\ Dropped(n)
      /\ FinishTask(n, work[n].state = "published")
      /\ \/ work[n].state = "failed" /\ UNCHANGED <<graph, disk>> /\ report' = [report EXCEPT !.tasks = TRUE]
         \/ /\ work[n].state = "published" /\ graph.key[n] \in cache /\ graph.key[n] # None
            /\ Kind(n) = "metric" /\ MetricDone(n) /\ UNCHANGED report
         \/ /\ work[n].state = "published" /\ graph.key[n] \in cache /\ graph.key[n] # None
            /\ Kind(n) # "metric" /\ OutputDone(n) /\ UNCHANGED report
  BY DerivationReturns
<1>2. pending' = pending /\ failed' = IF work[n].state = "published" THEN failed ELSE failed \union {n}
  BY <1>1 DEF FinishTask
<1>3. CASE work[n].state = "published" /\ graph.key[n] \in cache /\ Kind(n) = "metric" /\ MetricDone(n)
           /\ UNCHANGED report
  <2>1. Moved({n}, {}) /\ cache' = cache /\ Pruning(n[3])
    BY <1>1, <1>3, MetricDoneKeeps, KnownKeys DEF PoolInv, Kind
  <2>2. cache' = cache \ {graph.key[d] : d \in {}}
    BY <2>1
  <2> QED BY <1>1, <1>2, <1>3, <2>1, <2>2, CachePublished DEF Kind
<1>4. CASE work[n].state = "published" /\ graph.key[n] \in cache /\ graph.key[n] # None
           /\ OutputDone(n) /\ UNCHANGED report
  <2>1. PICK C : /\ Moved({n}, C) /\ saved' = saved
                 /\ cache' = cache \ {graph.key[d] : d \in C}
                 /\ n \notin C /\ \A d \in C : n[1] = "aggregate" /\ d \in Inputs(graph.request, n)
    BY <1>1, <1>4, OutputDoneKeeps DEF PoolInv
  <2> QED BY <1>1, <1>2, <1>4, <2>1, CachePublished
<1>5. CASE work[n].state = "failed" /\ UNCHANGED <<graph, disk>> /\ report' = [report EXCEPT !.tasks = TRUE]
  <2>1. UNCHANGED <<saved, cache, graph, pending>> /\ failed \subseteq failed' /\ report'.tasks
    BY <1>2, <1>5 DEF disk, PoolInv, InvTypes, Counts
  <2>2. /\ DOMAIN work' = DOMAIN work \ {n} /\ \A u \in DOMAIN work' : work'[u] = work[u]
        /\ n \in DOMAIN work /\ Kind(n) # "simulation"
    BY <1>1, DroppedJob DEF Derivations
  <2>3. /\ Derivations' = Derivations \ {n} /\ Simulating' = Simulating /\ Running' = Running /\ Live' = Live
        /\ \A r \in Simulating : work'[Simulation(r)] = work[Simulation(r)]
    BY <2>1, <2>2, TasksApart DEF Derivations, Simulating, Running, Live
  <2>4. \A t : At(t, "published")' <=> At(t, "published")
    BY <1>5, <2>2 DEF At
  <2>5. \A r : At(Simulation(r), "completed")' <=> At(Simulation(r), "completed")
    BY <1>5, <2>2 DEF At
  <2>6. SettledStays
    BY <2>1, <2>4, SettledGrows
  <2>7. InvFound'
    BY <2>1, <2>3, <2>4 DEF CacheInv, InvFound
  <2>8. InvJobs'
    <3> SUFFICES ASSUME NEW m \in Derivations, m # n PROVE Expected(m)'
      BY <2>3 DEF InvJobs
    <3>1. Expected(m) /\ work'[m] = work[m]
      BY <2>2 DEF CacheInv, InvJobs, Derivations
    <3> QED BY <2>1, <3>1, ExpectedStays DEF Expected
  <2>9. InvAsked'
    BY <2>1, <2>3 DEF CacheInv, InvAsked
  <2>10. InvBehind'
    BY <2>1, <2>3, <2>5, <2>6, BehindStays DEF CacheInv, InvBehind
  <2>11. InvDone'
    BY <2>1, <2>3, <2>6, SuppliedStays DEF CacheInv, InvDone
  <2>12. InvFailed'
    BY <2>1 DEF InvFailed
  <2> QED BY <2>7, <2>8, <2>9, <2>10, <2>11, <2>12 DEF CacheInv
<1> QED BY <1>1, <1>3, <1>4, <1>5
\* A simulation, or a run that is passed by, is told to the graph.
LEMMA CacheTold ==
  ASSUME PoolInv, PoolInv', CacheInv, InvSame, Live, NEW r \in graph.request.runs, SimulationDone(r),
         saved[r].trajectory = "retained" \/ Durable(r),
         DOMAIN work' = DOMAIN work \ {Simulation(r)}, \A u \in DOMAIN work' : work'[u] = work[u],
         pending' = pending \ {r}, failed' = failed
  PROVE  InvFound' /\ InvJobs' /\ InvAsked' /\ InvBehind' /\ InvDone'
<1> DEFINE q == graph.request
           t == Simulation(r)
<1>1. /\ q \in AllRequests /\ Sound(q, graph) /\ Running /\ q.runs \subseteq Runs
      /\ graph.references \in [q.runs -> References] /\ graph.found \subseteq Nodes(q)
      /\ \A n \in graph.found : graph.key[n] # None
  BY Requested, RunningGraph DEF PoolInv, InvGraph, Live
<1>2. /\ InvGraph' /\ Running' /\ graph'.request = q
      /\ graph'.references = [graph.references EXCEPT ![r] = saved[r]]
      /\ Relooked(graph, graph', cache) /\ cache' = cache /\ Pruning(r)
  BY <1>1, SimulationDoneKeeps DEF PoolInv
<1>3. graph'.references[r] = saved[r] /\ \A s \in q.runs : s # r => graph'.references[s] = graph.references[s]
  BY <1>1, <1>2
<1>4. \A s \in q.runs : graph.references[s].trajectory # "none" =>
        /\ graph'.references[s].trajectory # "none"
        /\ graph'.references[s].revision = graph.references[s].revision
  BY <1>1, <1>3 DEF InvSame
<1>5. \A n \in Nodes(q) : graph.key[n] # None => graph'.key[n] = graph.key[n]
  <2>1. PICK h : h = graph'
    OBVIOUS
  <2>2. Sound(q, h)
    BY <1>2, <2>1 DEF InvGraph
  <2>3. \A n \in Nodes(q) : graph.key[n] # None => h.key[n] = graph.key[n]
    BY <1>1, <1>4, <2>1, <2>2, KeysStay
  <2> QED BY <2>1, <2>3
<1>6. graph.found \subseteq graph'.found
  BY <1>1, <1>2, <1>5 DEF Relooked
<1>7. /\ Derivations' = Derivations /\ Simulating' = Simulating \ {r} /\ Live' = Live
      /\ \A n \in Derivations : work'[n] = work[n]
      /\ \A s \in Simulating' : work'[Simulation(s)] = work[Simulation(s)]
  <2>1. Derivations' = Derivations
    BY TasksApart DEF Derivations
  <2>2. Simulating' = Simulating \ {r}
    BY TasksApart DEF Simulating
  <2>3. Live' = Live
    BY <1>1, <1>2 DEF Live
  <2> QED BY <2>1, <2>2, <2>3 DEF Derivations, Simulating
<1>8. \A u : u # t => \A s : At(u, s)' <=> At(u, s)
  BY DEF At
<1>9. \A n \in Nodes(q) : At(n, "published")' <=> At(n, "published")
  BY <1>1, <1>8, TasksApart
<1>10. InvFound'
  <2> SUFFICES ASSUME NEW n \in Nodes(q)
               PROVE  n \in graph'.found <=> graph'.key[n] \in cache /\ ~At(n, "published")
    BY <1>2, <1>9 DEF InvFound
  <2>1. CASE graph'.key[n] = graph.key[n]
    BY <1>1, <1>2, <2>1 DEF Relooked, CacheInv, InvFound
  <2>2. CASE graph'.key[n] # graph.key[n]
    <3>1. graph.key[n] = None /\ (n \in graph'.found <=> graph'.key[n] \in cache)
      BY <1>2, <1>5, <2>2 DEF Relooked
    <3>2. n \notin Derivations
      BY <3>1, JobKey DEF CacheInv, InvJobs, Expected
    <3>3. ~At(n, "published")
      BY <1>1, <3>2, TasksApart DEF At, Derivations
    <3> QED BY <3>1, <3>3
  <2> QED BY <2>1, <2>2
<1>11. InvJobs'
  <2> SUFFICES ASSUME NEW n \in Derivations PROVE Expected(n)'
    BY <1>7 DEF InvJobs
  <2>1. Expected(n) /\ work'[n] = work[n]
    BY <1>7 DEF CacheInv, InvJobs
  <2>2. n[1] # "metric" => Inputs(q, n) \subseteq graph'.found
    BY <1>6, <2>1 DEF Expected
  <2>3. n[1] = "metric" /\ work[n].state = "submitted" => saved'[n[3]].trajectory = "retained"
    BY <1>1, <1>2, <1>5, PruningSpares
  <2> QED BY <1>2, <1>5, <2>1, <2>2, <2>3, ExpectedStays
<1>12. \A s \in Runs : s # r => saved'[s] = saved[s]
  BY <1>2 DEF Pruning, PoolInv, InvTypes
<1>13. InvAsked'
  <2>1. ASSUME NEW n \in Derivations, n[1] = "metric"
        PROVE  graph'.references[n[3]].trajectory = "retained" \/ n[3] \notin pending' \union Simulating'
    <3>1. n[3] \in q.runs
      BY <1>1, <2>1, JobKey, NodeKinds
    <3> QED BY <1>3, <1>7, <2>1, <3>1 DEF CacheInv, InvAsked
  <2>2. ASSUME NEW s \in Simulating', work'[Simulation(s)].state \in {"completed", "skipped"}
        PROVE  saved'[s].trajectory = "retained" \/ graph'.references[s].trajectory = "retained"
    <3>1. s # r /\ s \in Simulating /\ s \in Runs /\ s \in q.runs
      BY <1>1, <1>7, TasksApart DEF Simulating, PoolInv, InvPool
    <3> QED BY <1>3, <1>7, <1>12, <2>2, <3>1 DEF CacheInv, InvAsked
  <2> QED BY <1>7, <2>1, <2>2 DEF InvAsked
<1>14. SettledStays
  <2>1. \A m \in MetricNodes(q) : At(m, "published") => At(m, "published")'
    BY <1>9 DEF Nodes
  <2> QED BY <1>2, <1>6, <2>1, SettledGrows
<1>15. Behind(r)'
  <2>1. CASE saved' = saved
    BY <1>3, <2>1 DEF Behind
  <2>2. CASE saved' # saved
    <3>1. saved[r].trajectory = "retained" /\ saved'[r].trajectory = "pruned" /\ Durable(r)'
      BY <1>1, <1>2, <1>10, <2>2, PruningIsDurable
    <3> QED BY <1>3, <3>1 DEF Behind
  <2> QED BY <2>1, <2>2
<1>16. InvBehind'
  <2> SUFFICES ASSUME NEW s \in q.runs PROVE Behind(s)'
    BY <1>2 DEF InvBehind
  <2>1. CASE s # r
    <3>1. At(Simulation(s), "completed") => At(Simulation(s), "completed")'
      BY <1>8, <2>1, TasksApart
    <3> QED BY <1>1, <1>3, <1>12, <1>14, <2>1, <3>1, BehindStays DEF CacheInv, InvBehind
  <2> QED BY <1>15, <2>1
<1>17. Supplied(r)'
  <2>1. CASE saved[r].trajectory = "retained"
    BY <1>3, <2>1 DEF Supplied
  <2>2. CASE Durable(r)
    BY <1>14, <2>2, DurableStays DEF Supplied
  <2> QED BY <2>1, <2>2
<1>18. InvDone'
  <2> SUFFICES ASSUME NEW s \in q.runs \ (pending' \union Simulating') PROVE Supplied(s)'
    BY <1>2 DEF InvDone
  <2>1. CASE s # r
    BY <1>3, <1>7, <1>14, <2>1, SuppliedStays DEF CacheInv, InvDone
  <2> QED BY <1>17, <2>1
<1> QED BY <1>10, <1>11, <1>13, <1>16, <1>18

LEMMA CacheSkip ==
  ASSUME PoolInv, PoolInv', CacheInv, InvSame, SkipSimulation
  PROVE  CacheInv'
<1> DEFINE q == graph.request
<1>1. PICK r \in pending :
        /\ saved[r].trajectory = "pruned" /\ ~NeedsRematerialization(r)
        /\ TakeSimulation(graph.ready, r, FALSE) /\ SimulationDone(r)
  BY DEF SkipSimulation
<1>2. Live /\ Running /\ work' = work /\ Counted("skipped")
  BY DEF SkipSimulation, MayTake, Live
<1>3. /\ q \in AllRequests /\ Sound(q, graph) /\ r \in q.runs /\ r \in Runs /\ r \notin Simulating /\ ~q.only
      /\ graph.missing \subseteq Nodes(q)
  BY <1>1, <1>2, Requested, RunningGraph DEF PoolInv, InvPool, InvGraph, Live
<1>4. pending' = pending \ {r} /\ failed' = failed /\ Simulation(r) \notin DOMAIN work
  BY <1>1, <1>3 DEF TakeSimulation, Simulating
<1>5. Durable(r)
  <2>1. CASE graph.references[r] = saved[r]
    <3> SUFFICES ASSUME NEW m \in MetricsOf(q, r) PROVE Settled(m)
      BY DEF Durable
    <3>1. m \in MetricNodes(q) /\ m \in Nodes(q) /\ m[1] = "metric" /\ m[3] = r
      BY <1>3, NodeKinds DEF MetricsOf, Nodes
    <3>2. m \notin graph.missing
      BY <1>1, <3>1 DEF NeedsRematerialization, RequiredSimulations
    <3>3. ~CanRun(graph, m)
      BY <1>1, <2>1, <3>1 DEF CanRun
    <3>4. ~IsWanted(graph, m)
      BY <1>3, <3>1, <3>2, <3>3, RunningGraph DEF Right
    <3> QED BY <1>3, <3>1, <3>4, UnwantedIsSettled DEF Settled
  <2>2. CASE graph.references[r] # saved[r]
    BY <1>1, <1>2, <1>3, <2>2 DEF CacheInv, InvBehind, Behind
  <2> QED BY <2>1, <2>2
<1>6. DOMAIN work' = DOMAIN work \ {Simulation(r)} /\ \A u \in DOMAIN work' : work'[u] = work[u]
  BY <1>2, <1>4
<1>7. InvFound' /\ InvJobs' /\ InvAsked' /\ InvBehind' /\ InvDone'
  BY <1>1, <1>2, <1>3, <1>4, <1>5, <1>6, CacheTold
<1>8. InvFailed'
  <2>1. report'.tasks = report.tasks /\ report'.failed + report'.paused = report.failed + report.paused + 0
    BY <1>2, CountedOnce DEF PoolInv, InvTypes
  <2>2. report.failed \in Nat /\ report.paused \in Nat /\ report'.failed \in Nat /\ report'.paused \in Nat
    BY DEF PoolInv, InvTypes, Counts
  <2> QED BY <1>2, <1>4, <2>1, <2>2 DEF CacheInv, InvFailed
<1> QED BY <1>7, <1>8 DEF CacheInv

LEMMA CacheSimulationFinished ==
  ASSUME PoolInv, PoolInv', CacheInv, InvSame, NEW r \in Runs, SimulationFinished(r)
  PROVE  CacheInv'
<1> DEFINE q == graph.request
           t == Simulation(r)
           status == work[t].state
<1>1. /\ Live /\ Running /\ t \in DOMAIN work /\ status \in {"completed", "skipped", "paused", "failed"}
      /\ Counted(status) /\ FinishTask(t, status \in {"completed", "skipped"}) /\ Dropped(t)
      /\ status \in {"completed", "skipped"} => SimulationDone(r)
      /\ status \notin {"completed", "skipped"} => UNCHANGED <<graph, saved, cache>>
  BY DEF SimulationFinished, Live, disk
<1>2. q \in AllRequests /\ r \in q.runs /\ r \in Simulating /\ r \notin pending
  BY <1>1, TasksApart DEF PoolInv, InvGraph, InvPool, Simulating
<1>3. /\ pending' = pending
      /\ failed' = IF status \in {"completed", "skipped"} THEN failed ELSE failed \union {t}
  BY <1>1 DEF FinishTask
<1>4. DOMAIN work' = DOMAIN work \ {t} /\ \A u \in DOMAIN work' : work'[u] = work[u]
  BY <1>1, DroppedJob
<1>5. /\ report'.tasks = report.tasks
      /\ report'.failed + report'.paused
           = report.failed + report.paused + IF status \in {"paused", "failed"} THEN 1 ELSE 0
      /\ report.failed \in Nat /\ report.paused \in Nat /\ report'.failed \in Nat /\ report'.paused \in Nat
  BY <1>1, CountedOnce DEF PoolInv, InvTypes, Counts
<1>6. InvFailed'
  <2>1. CASE status \in {"completed", "skipped"}
    BY <1>1, <1>3, <1>5, <2>1 DEF CacheInv, InvFailed
  <2>2. CASE status \in {"paused", "failed"}
    BY <1>5, <2>2 DEF InvFailed
  <2> QED BY <1>1, <2>1, <2>2
<1>7. CASE status \in {"completed", "skipped"}
  <2>1. saved[r].trajectory = "retained" \/ graph.references[r].trajectory = "retained"
    BY <1>2, <1>7 DEF CacheInv, InvAsked
  <2>2. saved[r].trajectory = "retained" \/ Durable(r)
    BY <1>1, <1>2, <2>1 DEF CacheInv, InvBehind, Behind
  <2>3. pending' = pending \ {r} /\ failed' = failed
    BY <1>2, <1>3, <1>7
  <2>4. InvFound' /\ InvJobs' /\ InvAsked' /\ InvBehind' /\ InvDone'
    BY <1>1, <1>2, <1>4, <1>7, <2>2, <2>3, CacheTold
  <2> QED BY <1>6, <2>4 DEF CacheInv
<1>8. CASE status \in {"paused", "failed"}
  <2>1. UNCHANGED <<saved, cache, graph, pending>> /\ failed' = failed \union {t}
    BY <1>1, <1>3, <1>8
  <2>2. /\ Derivations' = Derivations /\ Simulating' = Simulating \ {r} /\ Live' = Live /\ Running' = Running
        /\ \A n \in Derivations : work'[n] = work[n]
        /\ \A s \in Simulating' : work'[Simulation(s)] = work[Simulation(s)]
    <3>1. Derivations' = Derivations
      BY <1>4, TasksApart DEF Derivations
    <3>2. Simulating' = Simulating \ {r}
      BY <1>4, TasksApart DEF Simulating
    <3> QED BY <1>4, <2>1, <3>1, <3>2 DEF Derivations, Simulating, Live, Running
  <2>3. \A u, s : s \notin {"paused", "failed"} => (At(u, s)' <=> At(u, s))
    BY <1>4, <1>8 DEF At
  <2>4. InvFound'
    BY <2>1, <2>2, <2>3 DEF CacheInv, InvFound
  <2>5. InvJobs'
    BY <2>1, <2>2, ExpectedStays DEF CacheInv, InvJobs, Expected
  <2>6. InvAsked'
    BY <2>1, <2>2 DEF CacheInv, InvAsked
  <2>7. SettledStays
    BY <2>1, <2>3, SettledGrows
  <2>8. InvBehind'
    BY <2>1, <2>2, <2>3, <2>7, BehindStays DEF CacheInv, InvBehind
  <2>9. InvDone'
    <3> SUFFICES ASSUME NEW s \in q.runs \ (pending \union Simulating') PROVE Supplied(s)'
      BY <2>1 DEF InvDone
    <3>1. CASE s = r
      BY <2>1, <3>1 DEF Supplied
    <3>2. CASE s # r
      BY <1>1, <2>1, <2>2, <2>7, <3>2, SuppliedStays DEF CacheInv, InvDone
    <3> QED BY <3>1, <3>2
  <2> QED BY <1>6, <2>4, <2>5, <2>6, <2>8, <2>9 DEF CacheInv
<1> QED BY <1>1, <1>7, <1>8

LEMMA CacheInitially == CInit => CacheInv
<1> SUFFICES ASSUME CInit PROVE CacheInv
  OBVIOUS
<1>1. graph = None /\ work = <<>>
  BY DEF CInit
<1>2. ~Running /\ ~Live /\ DOMAIN work = {}
  BY <1>1 DEF Running, Live
<1> QED BY <1>2 DEF CacheInv, InvFound, InvJobs, InvAsked, InvBehind, InvDone, InvFailed,
                    Derivations, Simulating

LEMMA CacheNext ==
  ASSUME DistinctMetrics, PoolInv, PoolInv', CacheInv, InvSame, [CNext]_cvars
  PROVE  CacheInv'
<1>1. CASE UNCHANGED <<saved, cache, graph, pending, failed, work, report>>
  BY <1>1, CacheSame
<1>2. CASE UNCHANGED cvars
  BY <1>1, <1>2 DEF cvars, disk, svars
<1>3. CASE \E q \in study.requests : Begin(q)
  BY <1>3, CacheBegin
<1>4. CASE Coordinate
  BY <1>4, CachePrune, CacheSubmitDerivation, CacheSubmitSimulation, CacheSkip,
     CacheSimulationFinished, CacheDerivationFinished, CacheClose DEF Coordinate, Finish
<1>5. CASE Work \/ Fail
  BY <1>5, CacheWork
<1>6. CASE Analyze
  <2>1. Close \/ (\E n \in batch : Execute(n)) \/ UNCHANGED <<saved, cache, graph, pending, failed, work, report>>
    BY <1>6 DEF Analyze, ExecuteFragile, Ask, disk, svars
  <2> QED BY <1>1, <2>1, CacheClose, CacheExecute
<1>7. CASE Stop
  BY <1>1, <1>7 DEF Stop, disk, svars
<1> QED BY <1>2, <1>3, <1>4, <1>5, <1>6, <1>7, CacheClose DEF CNext, Kill

\* An invocation that ended has nothing to keep.
LEMMA Ended ==
  ASSUME PoolInv', ~Running'
  PROVE  CacheInv' /\ InvSame'
<1>1. ~Live' /\ DOMAIN work' = {}
  BY DEF Live, PoolInv, InvPool
<1>2. Derivations' = {} /\ Simulating' = {}
  BY <1>1 DEF Derivations, Simulating
<1> QED BY <1>1, <1>2 DEF CacheInv, InvFound, InvJobs, InvAsked, InvBehind, InvDone, InvFailed, InvSame

-----------------------------------------------------------------------------
(* What the graph knows of the revisions *)

SavedSteady ==
  \A r \in Runs : saved[r].trajectory # "none" =>
    saved'[r].trajectory # "none" /\ saved'[r].revision = saved[r].revision
Informed ==
  /\ Running /\ graph'.request = graph.request
  /\ \A r \in graph.request.runs :
       graph'.references[r] = graph.references[r] \/ graph'.references[r] = saved[r]

LEMMA SameStays ==
  ASSUME PoolInv, InvSame, SavedSteady, Informed
  PROVE  InvSame'
<1>1. graph.request.runs \subseteq Runs
  BY Requested DEF Informed, PoolInv, InvGraph
<1> QED BY <1>1 DEF InvSame, SavedSteady, Informed

LEMMA SteadyUnchanged ==
  ASSUME saved' = saved
  PROVE  SavedSteady
BY DEF SavedSteady

LEMMA PruningSteady ==
  ASSUME PoolInv, NEW r \in Runs, Pruning(r)
  PROVE  SavedSteady
<1>1. CASE saved' = saved
  BY <1>1, SteadyUnchanged
<1>2. CASE saved[r].trajectory = "retained" /\ saved' = [saved EXCEPT ![r].trajectory = "pruned"]
  <2>1. /\ saved \in [Runs -> References] /\ \A s \in Runs : s # r => saved'[s] = saved[s]
        /\ saved'[r] = [saved[r] EXCEPT !.trajectory = "pruned"]
    BY <1>2 DEF PoolInv, InvTypes
  <2>2. PICK v \in Revisions : saved[r] = [trajectory |-> "retained", revision |-> v]
    BY <1>2, <2>1 DEF References
  <2>3. saved'[r].trajectory = "pruned" /\ saved'[r].revision = saved[r].revision
    BY <2>1, <2>2
  <2> QED BY <2>1, <2>3 DEF SavedSteady
<1> QED BY <1>1, <1>2 DEF Pruning

LEMMA ToldSame ==
  ASSUME PoolInv, InvSame, Running, NEW r \in graph.request.runs, SimulationDone(r)
  PROVE  InvSame'
<1>1. r \in Runs /\ graph.references \in [graph.request.runs -> References]
  BY Requested, RunningGraph DEF PoolInv, InvGraph
<1>2. /\ graph'.request = graph.request /\ Pruning(r)
      /\ graph'.references = [graph.references EXCEPT ![r] = saved[r]]
  BY SimulationDoneKeeps DEF PoolInv
<1>3. Informed
  BY <1>1, <1>2 DEF Informed
<1> QED BY <1>1, <1>2, <1>3, PruningSteady, SameStays

LEMMA MovedSame ==
  ASSUME PoolInv, InvSame, Running, NEW N, NEW C, Moved(N, C), SavedSteady
  PROVE  InvSame'
BY SameStays DEF Moved, Informed

\* A simulation executes a pruned run to the revision it had, or the step moves it.
LEMMA SimulateSame ==
  ASSUME PoolInv, InvSame, ~Moves, NEW r \in Runs, Simulate(r)
  PROVE  InvSame'
<1>1. Running /\ graph' = graph
  BY DEF Simulate, PoolInv, InvPool, Live
<1>2. saved \in [Runs -> References]
  BY DEF PoolInv, InvTypes
<1>3. SavedSteady
  <2>1. CASE saved' = saved
    BY <2>1, SteadyUnchanged
  <2>2. CASE /\ saved[r].trajectory # "retained"
             /\ \E v : saved' = [saved EXCEPT ![r] = [trajectory |-> "retained", revision |-> v]]
    <3>1. saved'[r].trajectory = "retained" /\ \A s \in Runs : s # r => saved'[s] = saved[s]
      BY <1>2, <2>2
    <3>2. saved[r].trajectory # "none" => saved[r].trajectory = "pruned"
      BY <1>2, <2>2 DEF References
    <3>3. saved[r].trajectory # "none" => saved'[r].revision = saved[r].revision
      BY <3>2 DEF Moves
    <3> QED BY <3>1, <3>3 DEF SavedSteady
  <2> QED BY <2>1, <2>2 DEF Simulate
<1> QED BY <1>1, <1>3, SameStays DEF Informed

LEMMA SameNext ==
  ASSUME PoolInv, PoolInv', InvSame, ~Moves, CNext
  PROVE  InvSame'
<1> SUFFICES ASSUME Running' PROVE InvSame'
  BY Ended
<1>1. CASE \E q \in study.requests : Begin(q)
  <2>1. PICK q \in study.requests : Begin(q)
    BY <1>1
  <2>2. q \in AllRequests /\ saved \in [Runs -> References] /\ None \notin cache
    BY KnownKeys DEF PoolInv, InvTypes, AllRequests
  <2>3. PICK g : g = Construct(q, saved, cache)
    OBVIOUS
  <2>4. graph' = g /\ saved' = saved
    BY <2>1, <2>3 DEF Begin, disk
  <2>5. Sound(q, g) /\ g.references = [r \in q.runs |-> saved[r]]
    BY <2>2, <2>3, ConstructSound DEF PoolInv, InvTypes
  <2>6. g.request = q
    BY <2>2, <2>5, RunningGraph
  <2> QED BY <2>4, <2>5, <2>6 DEF InvSame
<1>2. CASE UNCHANGED <<graph, saved>>
  BY <1>2 DEF InvSame, Running
<1>3. CASE Close
  BY <1>3 DEF Close, Running
<1>4. CASE PruneExisting
  <2>1. PICK C : Moved({}, C) /\ Running
    BY <1>4, PruneExistingKeeps DEF PoolInv
  <2>2. SavedSteady
    BY <1>4, SteadyUnchanged DEF PruneExisting
  <2> QED BY <2>1, <2>2, MovedSame
<1>5. CASE SubmitDerivation \/ SubmitSimulation \/ Fail \/ Ask \/ Stop
  BY <1>2, <1>3, <1>5 DEF SubmitDerivation, SubmitSimulation, Fail, Raise, Ask, Stop, disk
<1>6. CASE SkipSimulation
  <2>1. PICK r \in pending : SimulationDone(r)
    BY <1>6 DEF SkipSimulation
  <2>2. Live /\ Running
    BY <1>6 DEF SkipSimulation, MayTake, Live
  <2>3. r \in graph.request.runs
    BY <2>2 DEF PoolInv, InvPool
  <2> QED BY <2>1, <2>2, <2>3, ToldSame
<1>7. CASE \E r \in Runs : SimulationFinished(r)
  <2>1. PICK r \in Runs : SimulationFinished(r)
    BY <1>7
  <2>2. Live /\ Running /\ (SimulationDone(r) \/ UNCHANGED <<graph, saved>>)
    BY <2>1 DEF SimulationFinished, Live, disk
  <2>3. r \in graph.request.runs
    BY <2>1, <2>2, TasksApart DEF PoolInv, InvPool, InvGraph, SimulationFinished
  <2> QED BY <1>2, <2>2, <2>3, ToldSame
<1>8. CASE \E n \in DOMAIN work : DerivationFinished(n)
  <2>1. PICK n : DerivationFinished(n)
    BY <1>8
  <2> SUFFICES ASSUME ~Close PROVE InvSame'
    BY <1>3
  <2>2. /\ n \in Nodes(graph.request) /\ Running
        /\ \/ UNCHANGED <<graph, disk>>
           \/ graph.key[n] # None /\ Kind(n) = "metric" /\ MetricDone(n)
           \/ graph.key[n] # None /\ OutputDone(n)
    BY <2>1, DerivationReturns
  <2>3. CASE UNCHANGED <<graph, disk>>
    BY <1>2, <2>3 DEF disk
  <2>4. CASE graph.key[n] # None /\ Kind(n) = "metric" /\ MetricDone(n)
    <3>1. Moved({n}, {}) /\ Pruning(n[3])
      BY <2>2, <2>4, MetricDoneKeeps DEF PoolInv, Kind
    <3>2. n[3] \in Runs
      BY <2>2, <2>4, NodeKinds, Requested DEF PoolInv, InvGraph, Kind
    <3>3. PICK r \in Runs : r = n[3]
      BY <3>2
    <3> QED BY <2>2, <3>1, <3>3, PruningSteady, MovedSame
  <2>5. CASE graph.key[n] # None /\ OutputDone(n)
    <3>1. PICK C : Moved({n}, C) /\ saved' = saved
      BY <2>2, <2>5, OutputDoneKeeps DEF PoolInv
    <3> QED BY <2>2, <3>1, SteadyUnchanged, MovedSame
  <2> QED BY <2>2, <2>3, <2>4, <2>5
<1>9. CASE Work
  <2>1. CASE \E r \in Runs : Simulate(r)
    BY <2>1, SimulateSame
  <2>2. CASE \E n \in DOMAIN work : Read(n) \/ Publish(n)
    BY <1>2, <2>2 DEF Read, Publish, disk
  <2> QED BY <1>9, <2>1, <2>2 DEF Work
<1>10. CASE \E n \in batch : Execute(n)
  <2>1. PICK n : Execute(n)
    BY <1>10
  <2> SUFFICES ASSUME ~Close PROVE InvSame'
    BY <1>3
  <2>2. PICK C : Moved({n}, C) /\ Running
    BY <2>1, ExecuteKeeps
  <2>3. SavedSteady
    BY <2>1, SteadyUnchanged DEF Execute
  <2> QED BY <2>2, <2>3, MovedSame
<1> QED BY <1>1, <1>3, <1>4, <1>5, <1>6, <1>7, <1>8, <1>9, <1>10
     DEF CNext, Coordinate, Analyze, Finish, ExecuteFragile, Kill

LEMMA SteadyNext ==
  ASSUME DistinctMetrics, PoolInv, PoolInv', SteadyInv, [CNext]_cvars
  PROVE  SteadyInv'
<1>1. CASE UNCHANGED cvars
  <2>1. moved' = moved /\ graph' = graph /\ saved' = saved
    BY <1>1 DEF cvars, disk
  <2>2. CASE moved
    BY <2>1, <2>2 DEF SteadyInv, Running
  <2>3. CASE ~moved
    <3>1. CacheInv' /\ InvSame'
      BY <1>1, <2>1, <2>3, CacheNext DEF SteadyInv, InvSame, Running
    <3> QED BY <2>1, <2>3, <3>1 DEF SteadyInv
  <2> QED BY <2>2, <2>3
<1>2. CASE CNext
  <2>1. moved' <=> Running /\ Running' /\ (moved \/ Moves)
    BY <1>2 DEF CNext
  <2>2. CASE moved'
    BY <2>1, <2>2 DEF SteadyInv
  <2>3. CASE ~moved' /\ ~Running'
    BY <2>3, Ended DEF SteadyInv
  <2>4. CASE ~moved' /\ Running'
    <3>1. ~moved /\ CacheInv /\ InvSame
      BY <2>1, <2>4 DEF SteadyInv
    <3>2. CASE ~Moves
      BY <1>2, <2>4, <3>1, <3>2, CacheNext, SameNext DEF SteadyInv
    <3>3. CASE ~Running
      <4>1. \E q \in study.requests : Begin(q)
        <5>1. DOMAIN work = {}
          BY <3>3 DEF PoolInv, InvPool, Live
        <5> QED BY <1>2, <2>4, <3>3, <5>1 DEF CNext, Coordinate, Work, Fail, Analyze, PruneExisting, MayTake,
              SubmitDerivation, SubmitSimulation, SkipSimulation, SimulationFinished, DerivationFinished,
              Finish, Exhausted, Simulate, Ask, Execute, ExecuteFragile, Stop, Kill, Live, Analyzing, Close,
              Running
      <4>2. saved' = saved
        BY <4>1 DEF Begin, disk
      <4>3. ~Moves
        BY <4>2 DEF Moves
      <4> QED BY <3>2, <4>3
    <3> QED BY <2>1, <2>4, <3>2, <3>3
  <2> QED BY <2>2, <2>3, <2>4
<1> QED BY <1>1, <1>2

\* The graph, the cache and the pool agree, whatever is interleaved, until a replay produces
\* another revision of a run.
THEOREM CacheInvariance ==
  ASSUME DistinctMetrics
  PROVE  CSpec => [](~moved => CacheInv /\ InvSame)
<1>1. CInit => SteadyInv
  BY CacheInitially DEF SteadyInv, CInit, InvSame, Running
<1>2. PoolInv /\ PoolInv' /\ SteadyInv /\ [CNext]_cvars => SteadyInv'
  BY SteadyNext
<1>3. SteadyInv => (~moved => CacheInv /\ InvSame)
  BY DEF SteadyInv
<1> QED BY <1>1, <1>2, <1>3, CoordinatorInvariance, PTL DEF CSpec

-----------------------------------------------------------------------------
(* What follows *)

LEMMA InputsNow ==
  ASSUME PoolInv, ~moved => CacheInv /\ InvSame
  PROVE  InputsArePresent
<1> SUFFICES ASSUME CacheInv, InvSame, NEW n \in Derivations, work[n].state = "submitted"
             PROVE  Readable(n, work[n])
  BY DEF InputsArePresent
<1>1. /\ n \in Nodes(graph.request) /\ graph.request \in AllRequests /\ Running /\ Expected(n)
      /\ work[n].key \in KeysOf(n)
  BY JobKey DEF PoolInv, InvGraph, CacheInv, InvJobs
<1>2. CASE n[1] = "metric"
  <2>1. saved[n[3]].trajectory = "retained" /\ n[3] \in Runs
    BY <1>1, <1>2, NodeKinds, Requested DEF Expected
  <2>2. saved[n[3]] \in [trajectory : {"retained", "pruned"}, revision : Revisions]
    BY <2>1 DEF PoolInv, InvTypes, References
  <2>3. /\ n[3] \in graph.request.runs /\ graph.key[n] # None
        /\ graph.key[n] = Identity(graph.request, n, graph.references, graph.key)
    BY <1>1, <1>2, JobKey, NodeKinds, RunningGraph DEF Expected, PoolInv, InvGraph
  <2>4. /\ graph.references[n[3]].trajectory # "none"
        /\ graph.key[n] = <<"metric", Descriptor[n[2]], n[3], graph.references[n[3]].revision>>
    BY <1>2, <2>3 DEF Identity
  <2>6. saved[n[3]].revision = work[n].key[4]
    BY <1>1, <2>3, <2>4 DEF Expected, InvSame
  <2>5. saved[n[3]] = [trajectory |-> "retained", revision |-> work[n].key[4]]
    BY <2>1, <2>2, <2>6
  <2> QED BY <1>2, <2>5 DEF Readable, Kind
<1>3. CASE n[1] # "metric"
  <2>1. \A d \in Inputs(graph.request, n) : graph.key[d] \in cache
    BY <1>1, <1>3, InputKinds DEF Expected, CacheInv, InvFound
  <2> QED BY <1>1, <1>3, <2>1 DEF Expected, Readable, Kind
<1> QED BY <1>2, <1>3

\* No derivation finds its inputs gone: what is released for one consumer is not needed
\* by another one that is submitted already (_prune_aggregate_metrics, metric_proofs), in
\* an invocation whose replays reproduced the revisions of the runs.
THEOREM InputsStayPresent ==
  ASSUME DistinctMetrics
  PROVE  CSpec => []InputsArePresent
<1>1. PoolInv /\ (~moved => CacheInv /\ InvSame) => InputsArePresent
  BY InputsNow
<1> QED BY <1>1, CoordinatorInvariance, CacheInvariance, PTL

LEMMA DemandNow ==
  ASSUME PoolInv, CacheInv, InvSame, Running, ~Untold
  PROVE  [ready |-> graph.ready, missing |-> graph.missing]
           = DemandFromScratch(graph.request, saved, cache)
<1> DEFINE q == graph.request
           metricKeys == [n \in MetricNodes(q) |-> Identity(q, n, saved, <<>>)]
           aggregateKeys == [n \in AggregateNodes(q) |-> Identity(q, n, saved, metricKeys)]
           figureKeys == [n \in FigureNodes(q) |-> Identity(q, n, saved, aggregateKeys)]
           figures == {n \in FigureNodes(q) : figureKeys[n] \notin cache}
           aggregates ==
             {n \in AggregateNodes(q) :
                /\ aggregateKeys[n] \notin cache
                /\ ~q.only \/ \E f \in figures : n \in Inputs(q, f)}
           metrics ==
             {n \in MetricNodes(q) :
                /\ metricKeys[n] \notin cache
                /\ \E a \in aggregates : n \in Inputs(q, a)}
           raw == {n \in metrics : saved[n[3]].trajectory = "retained"}
           ready == raw
                      \union {n \in aggregates : \A d \in Inputs(q, n) : metricKeys[d] \in cache}
                      \union {n \in figures : \A d \in Inputs(q, n) : aggregateKeys[d] \in cache}
<1>1. DemandFromScratch(q, saved, cache) = [ready |-> ready, missing |-> metrics \ raw]
  BY DEF DemandFromScratch
<1> HIDE DEF metricKeys, aggregateKeys, figureKeys, figures, aggregates, metrics, raw, ready
<1>2. /\ q \in AllRequests /\ Sound(q, graph) /\ q.runs \subseteq Runs
      /\ graph.references \in [q.runs -> References] /\ saved \in [Runs -> References]
      /\ graph.found \subseteq Nodes(q) /\ graph.ready \subseteq Nodes(q) /\ graph.missing \subseteq Nodes(q)
      /\ graph.expanded \subseteq Nodes(q)
      /\ \A n \in Nodes(q) : graph.key[n] = Identity(q, n, graph.references, graph.key)
      /\ \A n \in Nodes(q) : Right(graph, n)
      /\ \A d \in Nodes(q) :
           graph.needed[d] = Base(q, d) \union {n \in graph.expanded : d \in Inputs(q, n)}
  BY Requested, RunningGraph DEF PoolInv, InvTypes, InvGraph, Sound, Clean, Linked
<1>3. \A t : ~At(t, "published") /\ ~At(t, "completed")
  BY DEF Untold, At
<1>4. ASSUME NEW r \in q.runs
      PROVE  \/ graph.references[r] = saved[r]
             \/ /\ graph.references[r].trajectory = "retained" /\ saved[r].trajectory = "pruned"
                /\ Durable(r)
  BY <1>3 DEF CacheInv, InvBehind, Behind
<1>5. \A n \in Nodes(q) : n \in graph.found <=> graph.key[n] \in cache
  BY <1>3 DEF CacheInv, InvFound
\* The keys are those of the runs as they are now.
<1>6. ASSUME NEW n \in MetricNodes(q) PROVE metricKeys[n] = graph.key[n]
  <2>1. n[3] \in q.runs /\ n[1] = "metric" /\ n \in Nodes(q)
    BY <1>2, NodeKinds DEF Nodes
  <2>2. graph.references[n[3]] \in References /\ saved[n[3]] \in References
    BY <1>2, <2>1
  <2>3. \/ graph.references[n[3]].trajectory = "none" /\ saved[n[3]].trajectory = "none"
        \/ /\ graph.references[n[3]].trajectory # "none" /\ saved[n[3]].trajectory # "none"
           /\ graph.references[n[3]].revision = saved[n[3]].revision
    BY <1>4, <2>1, <2>2 DEF References, InvSame
  <2>4. Identity(q, n, saved, <<>>) = Identity(q, n, graph.references, graph.key)
    BY <2>1, <2>3 DEF Identity
  <2> QED BY <1>2, <2>1, <2>4 DEF metricKeys
<1>7. ASSUME NEW n \in AggregateNodes(q) PROVE aggregateKeys[n] = graph.key[n]
  <2>1. n \in Nodes(q) /\ n[1] = "aggregate"
    BY <1>2, NodeKinds DEF Nodes
  <2>2. \A d \in Inputs(q, n) : metricKeys[d] = graph.key[d]
    BY <1>2, <1>6, <2>1, InputKinds
  <2>3. Identity(q, n, saved, metricKeys) = Identity(q, n, graph.references, graph.key)
    BY <2>1, <2>2, IdentityIsLocal
  <2> QED BY <1>2, <2>1, <2>3 DEF aggregateKeys
<1>8. ASSUME NEW n \in FigureNodes(q) PROVE figureKeys[n] = graph.key[n]
  <2>1. n \in Nodes(q) /\ n[1] = "figure"
    BY <1>2, NodeKinds DEF Nodes
  <2>2. \A d \in Inputs(q, n) : aggregateKeys[d] = graph.key[d]
    BY <1>2, <1>7, <2>1, InputKinds
  <2>3. Identity(q, n, saved, aggregateKeys) = Identity(q, n, graph.references, graph.key)
    BY <2>1, <2>2, IdentityIsLocal
  <2> QED BY <1>2, <2>1, <2>3 DEF figureKeys
\* What the graph wants is what lacks.
<1>9. /\ \A n \in FigureNodes(q) : n \in Nodes(q) /\ n[1] = "figure"
      /\ \A n \in AggregateNodes(q) : n \in Nodes(q) /\ n[1] = "aggregate"
      /\ \A n \in MetricNodes(q) : n \in Nodes(q) /\ n[1] = "metric"
  BY <1>2, NodeKinds DEF Nodes
<1>10. \A n \in Nodes(q) : n \in graph.expanded <=> IsWanted(graph, n) /\ n[1] # "metric"
  BY <1>2 DEF Right
<1>11. ASSUME NEW n \in FigureNodes(q) PROVE IsWanted(graph, n) <=> n \in figures
  <2>1. graph.needed[n] # {}
    BY <1>2, <1>9 DEF Base, Targets
  <2> QED BY <1>5, <1>8, <1>9, <2>1 DEF IsWanted, figures
<1>12. ASSUME NEW n \in AggregateNodes(q) PROVE IsWanted(graph, n) <=> n \in aggregates
  <2>1. n \in Targets(q) <=> ~q.only
    BY <1>9 DEF Targets
  <2>2. (\E f \in graph.expanded : n \in Inputs(q, f)) <=> \E f \in figures : n \in Inputs(q, f)
    <3>1. ASSUME NEW f \in graph.expanded, n \in Inputs(q, f) PROVE f \in figures
      BY <1>2, <1>9, <1>10, <1>11, <3>1, InputKinds, NodeKinds
    <3>2. ASSUME NEW f \in figures PROVE f \in graph.expanded
      BY <1>9, <1>10, <1>11 DEF figures
    <3> QED BY <3>1, <3>2
  <2>3. graph.needed[n] # {} <=> ~q.only \/ \E f \in figures : n \in Inputs(q, f)
    BY <1>2, <1>9, <2>1, <2>2 DEF Base
  <2> QED BY <1>5, <1>7, <1>9, <2>3 DEF IsWanted, aggregates
<1>13. ASSUME NEW n \in MetricNodes(q) PROVE IsWanted(graph, n) <=> n \in metrics
  <2>1. n \notin Targets(q)
    BY <1>9 DEF Targets
  <2>2. (\E a \in graph.expanded : n \in Inputs(q, a)) <=> \E a \in aggregates : n \in Inputs(q, a)
    <3>1. ASSUME NEW a \in graph.expanded, n \in Inputs(q, a) PROVE a \in aggregates
      BY <1>2, <1>9, <1>10, <1>12, <3>1, InputKinds, NodeKinds
    <3>2. ASSUME NEW a \in aggregates PROVE a \in graph.expanded
      BY <1>9, <1>10, <1>12 DEF aggregates
    <3> QED BY <3>1, <3>2
  <2>3. graph.needed[n] # {} <=> \E a \in aggregates : n \in Inputs(q, a)
    BY <1>2, <1>9, <2>1, <2>2 DEF Base
  <2> QED BY <1>5, <1>6, <1>9, <2>3 DEF IsWanted, metrics
<1>14. ASSUME NEW n \in metrics PROVE CanRun(graph, n) <=> n \in raw
  <2>1. n \in MetricNodes(q) /\ n[3] \in q.runs /\ IsWanted(graph, n) /\ n[1] = "metric"
    BY <1>2, <1>13, NodeKinds DEF metrics
  <2>2. ~Settled(n)
    BY <1>3, <2>1, SettledNotWanted
  <2>3. ~Durable(n[3])
    BY <2>1, <2>2 DEF Durable, MetricsOf
  <2>4. graph.references[n[3]] = saved[n[3]]
    BY <1>4, <2>1, <2>3
  <2> QED BY <2>1, <2>4 DEF CanRun, raw
<1>15. ASSUME NEW n \in AggregateNodes(q)
       PROVE  CanRun(graph, n) <=> \A d \in Inputs(q, n) : metricKeys[d] \in cache
  <2>1. \A d \in Inputs(q, n) : d \in Nodes(q) /\ metricKeys[d] = graph.key[d]
    BY <1>2, <1>6, <1>9, InputKinds
  <2> QED BY <1>2, <1>5, <1>9, <2>1 DEF CanRun, Graphs, Sound
<1>16. ASSUME NEW n \in FigureNodes(q)
       PROVE  CanRun(graph, n) <=> \A d \in Inputs(q, n) : aggregateKeys[d] \in cache
  <2>1. \A d \in Inputs(q, n) : d \in Nodes(q) /\ aggregateKeys[d] = graph.key[d]
    BY <1>2, <1>7, <1>9, InputKinds
  <2> QED BY <1>2, <1>5, <1>9, <2>1 DEF CanRun, Graphs, Sound
<1>17. \A n \in Nodes(q) : n \in graph.ready <=> n \in ready
  <2> SUFFICES ASSUME NEW n \in Nodes(q)
               PROVE  IsWanted(graph, n) /\ CanRun(graph, n) <=> n \in ready
    BY <1>2 DEF Right
  <2>1. CASE n \in MetricNodes(q)
    <3>1. n \notin aggregates /\ n \notin figures
      BY <1>9, <2>1 DEF aggregates, figures
    <3> QED BY <1>13, <1>14, <2>1, <3>1 DEF ready, raw
  <2>2. CASE n \in AggregateNodes(q)
    <3>1. n \notin raw /\ n \notin figures
      BY <1>9, <2>2 DEF raw, metrics, figures
    <3> QED BY <1>12, <1>15, <2>2, <3>1 DEF ready
  <2>3. CASE n \in FigureNodes(q)
    <3>1. n \notin raw /\ n \notin aggregates
      BY <1>9, <2>3 DEF raw, metrics, aggregates
    <3> QED BY <1>11, <1>16, <2>3, <3>1 DEF ready
  <2> QED BY <2>1, <2>2, <2>3 DEF Nodes
<1>18. \A n \in Nodes(q) : n \in graph.missing <=> n \in metrics \ raw
  <2> SUFFICES ASSUME NEW n \in Nodes(q)
               PROVE  IsWanted(graph, n) /\ ~CanRun(graph, n) /\ n[1] = "metric" <=> n \in metrics \ raw
    BY <1>2 DEF Right
  <2>1. n \in MetricNodes(q) <=> n[1] = "metric"
    BY <1>2, <1>9, NodeKinds
  <2>2. n \in metrics => n \in MetricNodes(q)
    BY DEF metrics
  <2> QED BY <1>13, <1>14, <2>1, <2>2
<1>19. ready \subseteq Nodes(q) /\ metrics \ raw \subseteq Nodes(q)
  BY <1>9 DEF ready, raw, metrics, aggregates, figures
<1>20. graph.ready = ready /\ graph.missing = metrics \ raw
  BY <1>2, <1>17, <1>18, <1>19
<1> QED BY <1>1, <1>20

\* The demand the graph maintains in increments is the demand of a graph built at that
\* moment (AnalysisGraph._need, _reconcile, refresh, finish), in an invocation whose
\* replays reproduced the revisions of the runs.
THEOREM DemandStaysExact ==
  ASSUME DistinctMetrics
  PROVE  CSpec => []DemandIsExact
<1>1. PoolInv /\ (~moved => CacheInv /\ InvSame) => DemandIsExact
  BY DemandNow DEF DemandIsExact
<1> QED BY <1>1, CoordinatorInvariance, CacheInvariance, PTL

\* The first half of ReportIsTrue
AllCounted ==
  report.completed + report.skipped + report.paused + report.failed + Cardinality(pending)
    = Cardinality(graph.request.runs)

LEMMA CountNow ==
  ASSUME PoolInv, Exhausted
  PROVE  AllCounted
<1>1. /\ Live /\ DOMAIN work = {} /\ graph.request \in AllRequests /\ report \in Counts
      /\ report.completed + report.skipped + report.paused + report.failed
           + Cardinality(pending) + Cardinality(Simulating) = Cardinality(graph.request.runs)
  BY DEF Exhausted, Idle, Live, PoolInv, InvGraph, InvCount, InvTypes
<1>2. Simulating = {} /\ pending \subseteq Runs
  BY <1>1, Requested DEF Simulating, PoolInv, InvPool
<1>3. Cardinality(Simulating) = 0 /\ Cardinality(pending) \in Nat
  BY <1>2, FS_EmptySet, RunsAreFinite
<1> QED BY <1>1, <1>3 DEF Counts, AllCounted

\* When the pool is empty and nothing is left to take every requested run was counted in
\* one outcome or is still pending, whatever the study (RunReport).
THEOREM RunsAreCounted == CSpec => [](Exhausted => AllCounted)
<1>1. PoolInv => (Exhausted => AllCounted)
  BY CountNow
<1> QED BY <1>1, CoordinatorInvariance, PTL

LEMMA ReportNow ==
  ASSUME PoolInv, ~moved => CacheInv
  PROVE  ReportIsTrue
<1> SUFFICES ASSUME Exhausted
             PROVE  /\ AllCounted
                    /\ ~stop /\ ~report.tasks /\ report.failed + report.paused = 0 /\ ~moved =>
                         Complete(graph)
  BY DEF ReportIsTrue, AllCounted
<1> DEFINE q == graph.request
<1>1. /\ Live /\ Running /\ DOMAIN work = {} /\ q \in AllRequests /\ Sound(q, graph) /\ ~q.only
      /\ graph.found \subseteq Nodes(q)
  BY Requested, RunningGraph DEF Exhausted, Idle, Live, PoolInv, InvGraph
<1>2. Simulating = {} /\ \A t, s : ~At(t, s)
  BY <1>1 DEF Simulating, At
<1>5. AllCounted
  BY CountNow
<1>6. ASSUME ~stop, ~report.tasks, report.failed + report.paused = 0, CacheInv PROVE Complete(graph)
  <2>1. failed = {}
    BY <1>1, <1>6 DEF CacheInv, InvFailed
  <2>2. graph.ready = {} /\ pending = {}
    BY <1>1, <1>6, <2>1 DEF Exhausted, NothingToTake, Eligible, PoolInv, InvPool
  <2>3. \A r \in q.runs : graph.references[r].trajectory = "retained" \/ Durable(r)
    BY <1>1, <1>2, <1>6, <2>1, <2>2 DEF CacheInv, InvDone, Supplied
  <2>4. \A n \in Nodes(q) : IsWanted(graph, n) => ~CanRun(graph, n)
    BY <1>1, <2>2, RunningGraph DEF Right
  <2>5. ASSUME NEW n \in Nodes(q), IsWanted(graph, n), NEW d \in Inputs(q, n), d \notin graph.found
        PROVE  d \in Nodes(q) /\ IsWanted(graph, d)
    <3>1. d \in Nodes(q) /\ n[1] # "metric"
      BY <1>1, InputKinds
    <3>2. n \in graph.expanded
      BY <1>1, <2>5, <3>1, RunningGraph DEF Right
    <3>3. d \in Nodes(q) => graph.needed[d] = Base(q, d) \union {m \in graph.expanded : d \in Inputs(q, m)}
      BY <1>1, RunningGraph DEF Sound, Clean, Linked
    <3> QED BY <2>5, <3>1, <3>2, <3>3 DEF IsWanted
  <2>6. ASSUME NEW m \in MetricNodes(q) PROVE ~IsWanted(graph, m)
    <3>1. m[1] = "metric" /\ m[3] \in q.runs /\ m \in Nodes(q)
      BY <1>1, NodeKinds DEF Nodes
    <3>2. CASE graph.references[m[3]].trajectory = "retained"
      BY <2>4, <3>1, <3>2 DEF CanRun
    <3>3. CASE Durable(m[3])
      <4>1. Settled(m)
        BY <3>3 DEF Durable, MetricsOf
      <4> QED BY <1>1, <1>2, <4>1, SettledNotWanted
    <3> QED BY <2>3, <3>1, <3>2, <3>3
  <2>7. ASSUME NEW a \in AggregateNodes(q) PROVE ~IsWanted(graph, a)
    <3>1. a[1] = "aggregate" /\ a \in Nodes(q)
      BY <1>1, NodeKinds DEF Nodes
    <3>2. Inputs(q, a) \subseteq MetricNodes(q)
      BY <1>1, <3>1, InputKinds
    <3> QED BY <1>1, <2>4, <2>5, <2>6, <3>1, <3>2, RunningGraph DEF CanRun
  <2>8. ASSUME NEW f \in FigureNodes(q) PROVE ~IsWanted(graph, f)
    <3>1. f[1] = "figure" /\ f \in Nodes(q)
      BY <1>1, NodeKinds DEF Nodes
    <3>2. Inputs(q, f) \subseteq AggregateNodes(q)
      BY <1>1, <3>1, InputKinds
    <3> QED BY <1>1, <2>4, <2>5, <2>7, <3>1, <3>2, RunningGraph DEF CanRun
  <2>9. ASSUME NEW n \in Targets(q) PROVE n \in graph.found
    <3>1. n \in Nodes(q) /\ (n \in FigureNodes(q) \/ n \in AggregateNodes(q))
      BY DEF Targets, Nodes
    <3>2. graph.needed[n] = Base(q, n) \union {m \in graph.expanded : n \in Inputs(q, m)}
      BY <1>1, <3>1, RunningGraph DEF Sound, Clean, Linked
    <3> QED BY <2>7, <2>8, <3>1, <3>2 DEF Base, IsWanted
  <2> QED BY <2>9 DEF Complete
<1> QED BY <1>5, <1>6

\* Every requested run is counted once, and an invocation that was neither stopped nor
\* hurt, and replayed no run to another revision, ends with every requested output
\* (RunReport; the run loop of the coordinator).
THEOREM ReportsAreTrue ==
  ASSUME DistinctMetrics
  PROVE  CSpec => []ReportIsTrue
<1>1. PoolInv /\ (~moved => CacheInv /\ InvSame) => ReportIsTrue
  BY ReportNow
<1> QED BY <1>1, CoordinatorInvariance, CacheInvariance, PTL
=============================================================================
