----------------------------- MODULE MCGpuRuns -----------------------------
(* Instances of GpuRuns for TLC: one invocation on two GPUs, of study code   *)
(* that forks, with replies that fit into a pipe or exceed it, and successive *)
(* invocations on one GPU.                                                   *)
EXTENDS GpuRuns
Plain == [gpus |-> {"g0", "g1"}, times |-> 1, large |-> FALSE, forks |-> FALSE]
SomeStudies ==
  {[Plain EXCEPT !.large = TRUE, !.forks = TRUE], [Plain EXCEPT !.forks = TRUE],
   [Plain EXCEPT !.gpus = {"g0"}, !.times = 2]}
=============================================================================
