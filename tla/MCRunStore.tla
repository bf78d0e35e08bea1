----------------------------- MODULE MCRunStore -----------------------------
(* Instances of RunStore for TLC. *)
EXTENDS RunStoreProofs, TLC

CONSTANTS g1, g2, g3, g4
Generations3 == {g1, g2, g3}
Generations4 == {g1, g2, g3, g4}
Symmetry == Permutations(Generation)
=============================================================================
