--------------------------- MODULE MCCoordinator ---------------------------
(* Instances of Coordinator for TLC. *)
EXTENDS Coordinator

\* Three runs in two units, two metrics, a figure over both units and one over the first
TwoRuns == {"a1", "a2"}
ThreeRuns == {"a1", "a2", "b1"}
TwoUnits == [r \in ThreeRuns |-> IF r = "b1" THEN "b" ELSE "a"]
TwoMetrics == {"m1", "m2"}
Distinct == [m \in TwoMetrics |-> m]
TwoFigures ==
  [f \in {"f1", "f2"} |-> IF f = "f1" THEN {<<"m1", "a">>, <<"m1", "b">>} ELSE {<<"m1", "a">>}]

Request(mode, runs, metrics, figures, only, aggregator, raw, met) ==
  [mode |-> mode, runs |-> runs, metrics |-> metrics, figures |-> figures,
   only |-> only, aggregator |-> aggregator, raw |-> raw, met |-> met]

\* Two metrics, everything that can go goes; saved-only commands between such runs
AllMetrics ==
  Request("run", TwoRuns, TwoMetrics, {}, FALSE, "std", "until_analyzed", "until_aggregated")
Light ==
  {AllMetrics,
   Request("run", TwoRuns, {"m1"}, {}, FALSE, "std", "until_analyzed", "keep"),
   Request("saved", TwoRuns, {"m1"}, {}, FALSE, "none", "keep", "keep"),
   Request("saved", TwoRuns, {"m1"}, {"f2"}, TRUE, "std", "keep", "until_aggregated")}

\* Tasks that may raise
SomeTasks == {<<"aggregate", "m1", "a">>, Simulation("a1"), <<"metric", "m1", "a2">>}

\* Requests for parts of the runs, over both units or one, with different aggregators
Growing ==
  {Request("run", {"a1", "b1"}, {"m1"}, {"f1"}, FALSE, "std", "until_analyzed", "until_aggregated"),
   Request("run", TwoRuns, {"m1"}, {"f2"}, FALSE, "none", "until_analyzed", "keep")}

\* One run is analyzed before the other, so that it may be passed by where the other is not
Passing ==
  {AllMetrics, Request("run", {"a1"}, {"m2"}, {}, FALSE, "none", "until_analyzed", "keep")}

OneRevision == [r \in ThreeRuns |-> {1}]
OneMoves == [r \in ThreeRuns |-> IF r = "a1" THEN {1, 2} ELSE {1}]

\* Three studies: a small one with every fault, a larger one that grows and shrinks, one
\* whose replays may change the revision of a run
SomeStudies ==
  {[requests |-> Light, revisions |-> OneRevision,
    fragile |-> SomeTasks, stops |-> TRUE, kills |-> TRUE],
   [requests |-> Growing, revisions |-> OneRevision,
    fragile |-> {}, stops |-> TRUE, kills |-> FALSE],
   [requests |-> Passing, revisions |-> OneMoves,
    fragile |-> {}, stops |-> FALSE, kills |-> FALSE]}
=============================================================================
