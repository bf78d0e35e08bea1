------------------------------ MODULE Results ------------------------------
(***************************************************************************)
(* What a study computes, end to end: configurations requested one after   *)
(* the other on one output, the sessions that execute their runs           *)
(* (execution/worker.py), and the analysis of the runs that are complete.  *)
(* The question is whether the numbers are those of the science: whatever  *)
(* was paused, killed, extended or reused, in whatever order.              *)
(*                                                                         *)
(* One session is open at a time: sessions of different runs share no      *)
(* state that matters here.  A checkpoint is one step (its publications    *)
(* and their recovery are RunStore's matter, concurrent tasks              *)
(* Coordinator's, removed observations Trajectory's).                      *)
(***************************************************************************)
EXTENDS Curves

CONSTANT Studies   \* the configurations that may be requested successively

VARIABLES
  study,      \* the study on this output
  config,     \* the active configuration, or None
  todo,       \* its runs this invocation has not executed yet
  variants,   \* storage id -> [spec, instance, saved, completed]
  session,    \* the running session, or None
  summaries,  \* <<metric, unit>> -> what the analysis of this request published
  refused     \* the <<metric, unit>> of which it raised instead

vars == <<study, config, todo, variants, session, summaries, refused>>

Init ==
  /\ study \in Studies
  /\ config = None /\ todo = {} /\ variants = <<>> /\ session = None
  /\ summaries = <<>> /\ refused = {}

\* A dictionary with one more entry, or another one
With(f, key, value) == [k \in {key} \union DOMAIN f |-> IF k = key THEN value ELSE f[k]]

\* A refused configuration changes nothing.
Request(c) ==
  /\ session = None /\ todo = {} /\ Accepted(c)
  /\ config' = c /\ todo' = Plan(c) /\ summaries' = <<>> /\ refused' = {}
  /\ UNCHANGED <<study, variants, session>>

-----------------------------------------------------------------------------
(* Sessions *)

Target(spec, variant) ==
  {step \in DOMAIN variant.completed : spec.budget = None \/ step >= spec.budget}
Complete(spec) ==
  LET id == StorageId(config, spec)
  IN id \in DOMAIN variants /\ Target(spec, variants[id]) # {}
\* The chunks of the shortest completed boundary that covers the budget
Covering(spec) ==
  LET variant == variants[StorageId(config, spec)]
      steps == Target(spec, variant)
  IN variant.completed[CHOOSE s \in steps : \A t \in steps : s <= t]

Skip(spec) ==
  /\ session = None /\ spec \in todo /\ Complete(spec)
  /\ todo' = todo \ {spec}
  /\ UNCHANGED <<study, config, variants, session, summaries, refused>>

\* The components are constructed anew, then they and their generators continue where
\* the checkpoint left them.
Restored(fresh, saved) ==
  [fresh EXCEPT !.algorithm = saved.run.algorithm, !.data = saved.run.data,
                !.protocol = saved.run.protocol, !.rngs = saved.run.rngs, !.row = saved.run.row]

Open(spec) ==
  /\ session = None /\ spec \in todo /\ ~Complete(spec)
  /\ LET id == StorageId(config, spec)
         known == id \in DOMAIN variants
         instance == IF known THEN variants[id].instance ELSE CreateInstance(spec)
         saved == IF known THEN variants[id].saved ELSE None
         fresh == Construct(spec, instance)
     IN /\ variants' = With(variants, id,
             [spec |-> spec, instance |-> instance, saved |-> saved,
              completed |-> IF known THEN variants[id].completed ELSE <<>>])
        /\ session' = [spec |-> spec, id |-> id, buffer |-> <<>>,
                       run    |-> IF saved = None THEN Initialize(spec, fresh) ELSE Restored(fresh, saved),
                       chunks |-> IF saved = None THEN <<>> ELSE saved.chunks]
  /\ UNCHANGED <<study, config, todo, summaries, refused>>

\* Observations at multiples of the interval.  A last one for the request would not be
\* a prefix of a longer run.
AlwaysFinal(spec, run) == run.protocol.step % config.every = 0 \/ Finished(spec, run) \* mutant
Recorded(spec, run) ==
  run.protocol.step % config.every = 0 \/ (Finished(spec, run) /\ ~Extendable(spec))

Working == session # None /\ ~Finished(session.spec, session.run)
Advance ==
  /\ Working /\ ~Exhausted(session.spec, session.run)
  /\ LET run == Step(session.spec, session.run)
     IN session' = [session EXCEPT !.run = run,
          !.buffer = IF Recorded(session.spec, run) THEN Append(@, run.row) ELSE @]
  /\ UNCHANGED <<study, config, todo, variants, summaries, refused>>

Flushed == IF session.buffer = <<>> THEN session.chunks ELSE Append(session.chunks, session.buffer)
Committed == [variants[session.id] EXCEPT !.saved = [run |-> session.run, chunks |-> Flushed]]
Leave ==
  /\ session' = None /\ todo' = todo \ {session.spec}
  /\ UNCHANGED <<study, config, summaries, refused>>

Checkpoint ==
  /\ Working
  /\ LET saved == variants[session.id].saved
     IN session.run.protocol.step > IF saved = None THEN 0 ELSE saved.run.protocol.step
  /\ variants' = [variants EXCEPT ![session.id] = Committed]
  /\ session' = [session EXCEPT !.chunks = Flushed, !.buffer = <<>>]
  /\ UNCHANGED <<study, config, todo, summaries, refused>>
Pause ==
  /\ Working
  /\ variants' = [variants EXCEPT ![session.id] = Committed]
  /\ Leave
\* The schedule of rewards is exhausted: the run fails.
Raise ==
  /\ Working /\ Exhausted(session.spec, session.run)
  /\ UNCHANGED variants
  /\ Leave
Finish ==
  /\ session # None /\ Finished(session.spec, session.run)
  /\ variants' = [variants EXCEPT ![session.id] =
       [Committed EXCEPT !.completed = With(@, session.run.protocol.step, Flushed)]]
  /\ Leave
Kill ==
  /\ session # None
  /\ session' = None /\ todo' = {}
  /\ UNCHANGED <<study, config, variants, summaries, refused>>

-----------------------------------------------------------------------------
(* Analysis *)

Unit(spec) == [l \in config.by |-> Label(spec, l)]
Members(unit) == {spec \in Plan(config) : Unit(spec) = unit}
Result(spec) ==
  LET variant == variants[StorageId(config, spec)]
      chunks == Covering(spec)
      steps == IF spec.budget # None THEN spec.budget
               ELSE CHOOSE s \in DOMAIN variant.completed : TRUE
  IN [rows |-> ReadPrefix(chunks, steps), steps |-> steps, instance |-> variant.instance]
Entry(metric, spec) ==
  [curve |-> Compute(metric, Result(spec)), repetition |-> spec.repetition,
   identity |-> ScientificIdentity(spec)]

\* The aggregate of one metric over one unit, of runs in the order of their
\* identifiers, which says nothing of their repetitions.
Analyze(metric, unit) ==
  LET members == Members(unit)
      key == <<metric, unit>>
  IN /\ session = None /\ key \notin DOMAIN summaries \union refused
     /\ \A spec \in members : Complete(spec)
     /\ \E order \in SetToSeqs(members) :
          LET entries == [i \in DOMAIN order |-> Entry(metric, order[i])]
              group == Aggregate(entries)
          IN IF (\A spec \in members : Sufficient(metric, Result(spec))) /\ group.fits
             THEN /\ summaries' = With(summaries, key, Subsample(group, config.points))
                  /\ UNCHANGED refused
             ELSE refused' = refused \union {key} /\ UNCHANGED summaries
     /\ UNCHANGED <<study, config, todo, variants, session>>

Next ==
  \/ \E c \in study : Request(c)
  \/ \E spec \in todo : Skip(spec) \/ Open(spec)
  \/ Advance \/ Checkpoint \/ Pause \/ Raise \/ Finish \/ Kill
  \/ config # None /\ \E metric \in config.metrics, unit \in {Unit(spec) : spec \in Plan(config)} :
       Analyze(metric, unit)

Spec == Init /\ [][Next]_vars

-----------------------------------------------------------------------------
(* The science, by definition: each run carried on once, for ever, without *)
(* an interruption and recording every step.                               *)

Specs == UNION {Plan(c) : c \in {d \in UNION Studies : Accepted(d)}}
Life == [science \in {RunId(s) : s \in Specs} |-> Uninterrupted(science)]

Sum(f) == FoldFunction(+, 0, f)
\* What the run lags behind one that plays these arms
Lag(life, steps, arm) ==
  LET means(i) == MeansAt(life[0].instance, i)
  IN Sum([i \in 1..steps |-> means(i)[arm[i]] - means(i)[life[i].row.action + 1]])
Best(means) == CHOOSE a \in DOMAIN means : \A b \in DOMAIN means : means[a] >= means[b]

\* The value of a metric after that many steps of a life
TrueValue(metric, life, steps) ==
  LET means(i) == MeansAt(life[0].instance, i)
      fixed == {Lag(life, steps, [i \in 1..steps |-> arm]) : arm \in DOMAIN means(1)}
  IN CASE metric.type = "field"          -> life[steps].row[metric.field]
       [] metric.type = "cumulative_sum" -> Sum([i \in 1..steps |-> life[i].row[metric.field]])
       [] metric.type = "pseudo_regret" /\ metric.comparator = "dynamic" ->
            Lag(life, steps, [i \in 1..steps |-> Best(means(i))])
       [] OTHER -> CHOOSE x \in fixed : \A y \in fixed : x >= y

\* The observations of a run at these of its steps, up to each of its steps
Sampled(life, steps) ==
  LET rows[i \in Nat] ==
        IF i = 0 THEN <<>>
        ELSE LET before == rows[i - 1]
             IN IF i \in steps THEN Append(before, life[i].row) ELSE before
  IN rows
\* The observations of a run for exactly this request, never interrupted or extended
Observed(spec) ==
  LET life == Life[RunId(spec)] IN Sampled(life, {i \in Nat : Recorded(spec, life[i])})
Alone(spec) == Observed(spec)[IF spec.budget = None THEN 1 ELSE spec.budget]

\* What the code lets start: a run has a budget exactly if its protocol runs for a number
\* of steps (make_run_spec; "A budget requires protocol.set_budget(steps)"), and a
\* bandit answers actions, one after the other (validate_component, generate).
ASSUME StudiesAssumption ==
  /\ None \notin Nat
  /\ \A spec \in Specs :
       /\ IF spec["protocol"].type \in Steps THEN spec.budget \in Nat \ {0} ELSE spec.budget = None
       /\ spec["data"].type \in Bandits => spec["protocol"].type = "online"

\* The builtin protocols find what they ask of the data (Feedback, reset), and the arms
\* of a bandit have means (StationaryBandit, NonstationaryBandit).
Means(sequence) == sequence \in Seq(Int) /\ sequence # <<>>
ASSUME DataAssumption ==
  \A spec \in Specs :
    LET data == spec["data"]
    IN /\ spec["protocol"].type = "online" => data.type \in Bandits
       /\ spec["protocol"].type = "rl" => data.type = "gymnasium"
       /\ data.type = "stationary_bandit" =>
            IF "means" \in DOMAIN data.params THEN Means(data.params["means"])
            ELSE data.params["n_arms"] \in Nat \ {0}
       /\ data.type = "nonstationary_bandit" =>
            LET schedule == data.params["schedule"]
            IN /\ schedule \in Seq(Seq(Int)) /\ schedule # <<>>
               /\ \A i \in DOMAIN schedule : Means(schedule[i]) /\ Len(schedule[i]) = Len(schedule[1])

\* What an accepted document says (config.py), and the bound of the model: Scale is a
\* multiple of every number of repetitions.
ASSUME ConfigAssumption ==
  \A c \in UNION Studies : Accepted(c) =>
    /\ IsFiniteSet(Plan(c)) /\ c.every \in Nat \ {0}
    /\ \A metric \in c.metrics : metric.type \in {"field", "cumulative_sum", "pseudo_regret"}
    /\ c.points # None => c.points \in Nat \ {0, 1}
    /\ Scale \in Nat \ {0}
    /\ \A n \in 1..Cardinality({spec.repetition : spec \in Plan(c)}) : Scale % n = 0

-----------------------------------------------------------------------------
(* Properties *)

\* A run that was paused, killed or extended to a larger budget, any number of times, is
\* at each step in the state of the run that nobody interrupted: same components, same
\* positions of the generators, same observations (worker.py: restore_or_initialize).
ContinuationIsExact ==
  /\ session # None =>
       session.run = Life[RunId(session.spec)][session.run.protocol.step]
  /\ \A id \in DOMAIN variants : variants[id].saved # None =>
       variants[id].saved.run = Life[id.science][variants[id].saved.run.protocol.step]

\* What the analysis reads of a run is what one uninterrupted execution for this very
\* budget records, also when a longer run or one in several sessions serves it
\* (worker.py: advance, "a request-specific final sample would break prefix invariance").
ResultsAreReproducible ==
  /\ ContinuationIsExact
  /\ config # None => \A spec \in Plan(config) : Complete(spec) => Result(spec).rows = Alone(spec)

\* Every arm of a bandit takes a number from the data's stream: its rewards have a noise,
\* or no arm is never rewarded.
EveryArmDraws(instance) ==
  LET rows == IF Stationary(instance) THEN {instance.means} ELSE Range(instance.means)
  IN instance.distribution = "gaussian" \/ \A row \in rows : \A arm \in DOMAIN row : row[arm] # 0

\* Algorithms are compared on the same data: two runs that differ in their algorithm
\* have the same instance, and get the same reward for the same arm at the same step
\* (rng.py: "paired data across algorithms") if every arm of the bandit draws.  Where a
\* reward of 0 or 1 has mean 0, the run that plays its arm takes nothing from the stream
\* and is behind the other one from then on: the code does not pair such runs.
DataIsPaired ==
  \A i, j \in DOMAIN variants :
    LET a == variants[i]
        b == variants[j]
        rows(v) == IF v.saved = None THEN {} ELSE Range(FlattenSeq(v.saved.chunks))
    IN (/\ a.spec.group = b.spec.group /\ a.spec.repetition = b.spec.repetition
        /\ a.spec["data"] = b.spec["data"] /\ a.spec.seed = b.spec.seed) =>
       /\ a.instance = b.instance
       /\ a.spec["data"].type \in Bandits /\ EveryArmDraws(a.instance) =>
            \A x \in rows(a), y \in rows(b) :
              x.step = y.step /\ x.action = y.action => x.reward = y.reward

\* A published summary is of one science, counts each of its repetitions once, and has at
\* every point it keeps the exact mean and squared deviation of what the metric means,
\* computed from all steps of uninterrupted runs; the ends of the curve are kept
\* (pipeline.py: _RepetitionAccumulator, _subsample_summary; builtins/metrics.py).
SummariesAreTrue ==
  \A key \in DOMAIN summaries :
    LET summary == summaries[key]
        members == Members(key[2])
        full == Alone(CHOOSE spec \in members : TRUE)
    IN /\ \A a, b \in members : ScientificIdentity(a) = ScientificIdentity(b)
       /\ summary.count = Cardinality({spec.repetition : spec \in members})
       /\ summary.x[1] = full[1].step /\ Last(summary.x) = Last(full).step
       /\ \A i \in DOMAIN summary.x :
            LET v == [spec \in members |-> Scale * TrueValue(key[1], Life[RunId(spec)], summary.x[i])]
            IN /\ summary.count * summary.mean[i] = Sum(v)
               /\ summary.squared[i] =
                    Sum([spec \in members |-> LET d == v[spec] - summary.mean[i] IN d * d])

\* An analysis refuses only what it could not compute: runs of different sciences, no
\* observations, a field or an instance array that is not there, or a metric of every
\* step of sparse observations (metrics.py: validate_requirements).
RefusalsAreDeserved ==
  \A key \in refused :
    LET metric == key[1]
        members == Members(key[2])
    IN \/ \E a, b \in members : ScientificIdentity(a) # ScientificIdentity(b)
       \/ \E spec \in members :
            \/ Alone(spec) = <<>> \/ ~Required(metric) \subseteq DOMAIN Life[RunId(spec)][1].row
            \/ metric.type = "pseudo_regret" /\ spec["data"].type \notin Bandits
            \/ metric.type # "field" /\ config.every > 1

\* The positions kept of a longer curve increase strictly, take in both ends, and are
\* within half a step of an even spacing (pipeline.py: "rounded positions remain
\* distinct").
SubsampleIsEven ==
  config # None /\ config.points # None =>
    LET points == config.points
    IN \A length \in (points + 1)..24 :
         LET kept == Positions(length, points)
             off(i) == 2 * ((kept[i] - 1) * (points - 1) - (i - 1) * (length - 1))
         IN /\ kept[1] = 1 /\ kept[points] = length
            /\ \A i \in 1..(points - 1) : kept[i] < kept[i + 1]
            /\ \A i \in 1..points : off(i) \in -(points - 1)..(points - 1)

\* What `analyze` publishes is right, and what it refuses it could not know.
AnalysisIsTrue == SummariesAreTrue /\ RefusalsAreDeserved /\ SubsampleIsEven
=============================================================================
