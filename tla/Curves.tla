------------------------------- MODULE Curves -------------------------------
(***************************************************************************)
(* From saved observations to summaries: reading a completed prefix        *)
(* (read_result_prefix in storage/run.py), the metrics of                  *)
(* analysis/metrics.py and builtins/metrics.py, and the aggregation of     *)
(* repeated runs in analysis/pipeline.py.                                  *)
(*                                                                         *)
(* A curve is a record [x, values] of two sequences.  Numbers are          *)
(* integers: a running mean is counted in parts of one of which there are  *)
(* Scale, a squared deviation in parts of which there are Scale^2.  A      *)
(* Scale that the number of repetitions divides at each run makes both     *)
(* exact.                                                                  *)
(***************************************************************************)
EXTENDS Interaction, SequencesExt

CONSTANT Scale

-----------------------------------------------------------------------------
(* A completed prefix *)

\* How many rows of a chunk are within the prefix (numpy.searchsorted, side="right")
Used(chunk, steps) == Cardinality({i \in DOMAIN chunk : chunk[i].step <= steps})

\* Chunks are read until one is not used to its end, or the most rows the prefix can
\* have are there.
ReadPrefix(chunks, steps) ==
  LET all == FlattenSeq(chunks)
      most == IF Len(all) < steps THEN Len(all) ELSE steps
      read[i \in 0..Len(chunks)] ==
        IF i = 0 THEN [rows |-> <<>>, more |-> TRUE]
        ELSE LET before == read[i - 1]
                 used == Used(chunks[i], steps)
                 rows == before.rows \o SubSeq(chunks[i], 1, used)
             IN IF ~before.more THEN before
                ELSE [rows |-> rows, more |-> used = Len(chunks[i]) /\ Len(rows) < most]
  IN read[Len(chunks)].rows

-----------------------------------------------------------------------------
(* Metrics.  A result is a record [rows, steps, instance].                 *)

Column(result, field) == [i \in DOMAIN result.rows |-> result.rows[i][field]]
Running(values) ==   \* numpy.cumsum
  LET sum[i \in 0..Len(values)] == IF i = 0 THEN 0 ELSE sum[i - 1] + values[i]
  IN [i \in DOMAIN values |-> sum[i]]
Highest(S) == CHOOSE x \in S : \A y \in S : x >= y

Required(metric) ==
  CASE metric.type = "field"          -> {"step", metric.field}
    [] metric.type = "cumulative_sum" -> {"step", metric.field}
    [] OTHER                          -> {"step", "action"}
Sufficient(metric, result) ==
  /\ result.rows # <<>> /\ Required(metric) \subseteq DOMAIN result.rows[1]
  /\ metric.type = "pseudo_regret" => "means" \in DOMAIN result.instance
  /\ metric.type # "field" =>
       Len(result.rows) = result.steps /\ \A i \in DOMAIN result.rows : result.rows[i].step = i

Stationary(instance) == instance.kind = "stationary"
MeansAt(instance, i) == IF Stationary(instance) THEN instance.means ELSE instance.means[i]

LastBest(metric, result) == \* mutant: the fixed arm is the best one of the whole run at every prefix
  LET actions == Column(result, "action")
      means(i) == MeansAt(result.instance, i)
      gaps(arm) == Running([i \in DOMAIN actions |-> means(i)[arm] - means(i)[actions[i] + 1]])
      best == CHOOSE a \in DOMAIN means(1) :
                \A b \in DOMAIN means(1) : gaps(a)[Len(actions)] >= gaps(b)[Len(actions)]
  IN IF metric.comparator = "dynamic"
     THEN Running([i \in DOMAIN actions |-> Highest(Range(means(i))) - means(i)[actions[i] + 1]])
     ELSE gaps(best)
PseudoRegret(metric, result) ==
  LET actions == Column(result, "action")
      means(i) == MeansAt(result.instance, i)
      ahead == [arm \in DOMAIN means(1) |->
                  Running([i \in DOMAIN actions |-> means(i)[arm] - means(i)[actions[i] + 1]])]
  IN IF metric.comparator = "dynamic" \/ Stationary(result.instance)
     THEN Running([i \in DOMAIN actions |-> Highest(Range(means(i))) - means(i)[actions[i] + 1]])
     ELSE [i \in DOMAIN actions |-> Highest({ahead[arm][i] : arm \in DOMAIN ahead})]

\* Of a sufficient result
Compute(metric, result) ==
  [x |-> Column(result, "step"),
   values |-> CASE metric.type = "field"          -> Column(result, metric.field)
                [] metric.type = "cumulative_sum" -> Running(Column(result, metric.field))
                [] OTHER                          -> PseudoRegret(metric, result)]

-----------------------------------------------------------------------------
(* Aggregation *)

Belongs(group, entry) ==
  /\ group.fits /\ group.identity = entry.identity
  /\ entry.repetition \notin group.repetitions /\ group.x = entry.curve.x
\* Welford's update; an entry that does not fit is an error.
Add(group, entry) ==
  LET count == group.count + 1
      delta == [i \in DOMAIN group.mean |-> Scale * entry.curve.values[i] - group.mean[i]]
      mean == [i \in DOMAIN group.mean |-> group.mean[i] + delta[i] \div count]
      squared == [i \in DOMAIN group.mean |->
                    group.squared[i] + delta[i] * (Scale * entry.curve.values[i] - mean[i])]
  IN IF ~Belongs(group, entry) THEN [group EXCEPT !.fits = FALSE]
     ELSE [group EXCEPT !.count = count, !.repetitions = @ \union {entry.repetition},
                        !.mean = mean, !.squared = squared]

\* The entries of one unit, [curve, repetition, identity], in some order
Aggregate(entries) ==
  LET zeros == [i \in DOMAIN entries[1].curve.x |-> 0]
      group[i \in 0..Len(entries)] ==
        IF i = 0 THEN [x |-> entries[1].curve.x, mean |-> zeros, squared |-> zeros, fits |-> TRUE,
                       identity |-> entries[1].identity, repetitions |-> {}, count |-> 0]
        ELSE LET before == group[i - 1] IN Add(before, entries[i])
  IN group[Len(entries)]

\* Rounding to the nearest integer, halves to the even one: rint(a / b)
Rounded(a, b) ==
  LET down == a \div b
      twice == 2 * (a % b)
  IN IF twice < b \/ (twice = b /\ down % 2 = 0) THEN down ELSE down + 1
Positions(length, points) == [i \in 1..points |-> Rounded((i - 1) * (length - 1), points - 1) + 1]
Subsample(summary, points) ==
  IF points = None THEN summary
  ELSE IF Len(summary.x) <= points THEN summary
  ELSE LET kept == Positions(Len(summary.x), points)
       IN [summary EXCEPT !.x = [i \in 1..points |-> @[kept[i]]],
                          !.mean = [i \in 1..points |-> @[kept[i]]],
                          !.squared = [i \in 1..points |-> @[kept[i]]]]
=============================================================================
