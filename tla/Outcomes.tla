------------------------------ MODULE Outcomes ------------------------------
(* The outcomes of runs, as the report and both observers count them. *)
EXTENDS Naturals, FiniteSets
CONSTANTS None, Runs
VARIABLE plan \* the runs and derived tasks of the study
Planned == plan \intersect Runs
Statuses == {"completed", "skipped", "failed", "paused"}
Zero == [s \in Statuses |-> 0]
Add(counts, status, k) == [counts EXCEPT ![status] = @ + k]
Total(counts) == counts["completed"] + counts["skipped"] + counts["failed"] + counts["paused"]
Minus(a, b) == IF b > a THEN 0 ELSE a - b
=============================================================================
