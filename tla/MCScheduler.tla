---------------------------- MODULE MCScheduler ----------------------------
(* Instances of SchedulerLoad for TLC: two units of two runs each; what is *)
(* retained of them, up to the names of runs and units.                    *)
EXTENDS SchedulerLoad

Runs4 == {"a1", "a2", "b1", "b2"}
Unit4 == [r \in Runs4 |-> IF r \in {"a1", "a2"} THEN "a" ELSE "b"]
Earlier6 == {{}, {"a1"}, {"a1", "a2"}, {"a1", "b1"}, {"a1", "b1", "b2"}, Runs4}
=============================================================================
