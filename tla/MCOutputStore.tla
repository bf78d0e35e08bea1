--------------------------- MODULE MCOutputStore ---------------------------
(* Instances of OutputStore for TLC: specification a has a variant under    *)
(* older code and one under the current code, b only the latter.            *)
EXTENDS OutputStore, TLC

TwoSpecs == {"a", "b"}
ThreeVariants == {"a0", "a1", "b1"}
CurrentOf == [s \in TwoSpecs |-> IF s = "a" THEN "a1" ELSE "b1"]
LegacyOf == [s \in TwoSpecs |-> IF s = "a" THEN "a0" ELSE "b1"]
Shared == [v \in ThreeVariants |-> "i"]
Both == {{"a", "b"}, {"b"}}
=============================================================================
