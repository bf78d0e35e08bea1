----------------------------- MODULE DurableRun -----------------------------
(***************************************************************************)
(* What a retained run variant promises, whatever its files look like: the *)
(* work it has saved grows, a completed prefix holds exactly the sampled   *)
(* rows of the saved work and never changes again.                         *)
(***************************************************************************)
EXTENDS Integers, FiniteSets

CONSTANTS Budgets, Every, Draws, Extendable,
          Lossy     \* saved work can be damaged or become undecodable

VARIABLES saved,    \* the rows of the boundary a new process would resume from
          done      \* the rows of each completed prefix, by its length

vars == <<saved, done>>

Sampled(n) == n % Every = 0 \/ (~Extendable /\ n \in Budgets)
Sample(rows) == {r \in rows : Sampled(r[1])}
Length(rows) == Cardinality(rows)
\* Rows of one life of the components: one per step, from the first on
Life(rows) == {r[1] : r \in rows} = 1..Length(rows)
KeepsDone(rows) == \A s \in DOMAIN done : s <= Length(rows) /\ done[s] \subseteq rows

Init == saved = {} /\ done = [s \in {} |-> {}]

\* A checkpoint commits more of the same life.
Save ==
  /\ saved \subseteq saved' /\ saved' # saved
  /\ Life(saved')
  /\ UNCHANGED done

\* The saved work reaches a budget and is published as complete.
Complete ==
  LET n == Length(saved) IN
  /\ \E b \in Budgets : b <= n
  /\ n \notin DOMAIN done
  /\ done' = [s \in DOMAIN done \union {n} |->
                IF s = n THEN Sample(saved) ELSE done[s]]
  /\ UNCHANGED saved

\* Damaged or undecodable work is lost, but nothing already complete.
Lose ==
  /\ Lossy
  /\ Life(saved') /\ KeepsDone(saved')
  /\ UNCHANGED done

Next == Save \/ Complete \/ Lose
Spec == Init /\ [][Next]_vars
=============================================================================
