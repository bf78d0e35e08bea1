------------------------------- MODULE Study -------------------------------
(* The planned runs of a study and the groups of repeated runs they form.  *)
EXTENDS Naturals, FiniteSets

CONSTANTS
  Runs,   \* run ids
  Unit    \* the aggregation group of each run (AnalysisGraph.analysis_unit)

ASSUME StudyAssumption == IsFiniteSet(Runs) /\ DOMAIN Unit = Runs

Units == {Unit[r] : r \in Runs}
=============================================================================
