---------------------------- MODULE MCTrajectory ----------------------------
(* Instances of Trajectory for TLC. *)
EXTENDS Trajectory, TLC

CONSTANTS g1, g2, g3, g4
Generations4 == {g1, g2, g3, g4}
Generations3 == {g1, g2, g3}
Symmetry == Permutations(Generation)
=============================================================================
