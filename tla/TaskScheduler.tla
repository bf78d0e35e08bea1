--------------------------- MODULE TaskScheduler ---------------------------
(***************************************************************************)
(* Which task the coordinator submits next (execution/scheduler.py).       *)
(* Derivations come first, but a simulation is admitted after StreakLimit  *)
(* of them in a row, and a kind of derivation that has waited AgeLimit     *)
(* times goes before the others; simulations of a unit that has already    *)
(* begun come before those of another.  Among equals the code takes the    *)
(* first in id or plan order, an order that means nothing here: any.       *)
(*                                                                         *)
(* The readiness of derivations is a parameter of the operators: the       *)
(* analysis graph decides it (Coordinator), or anything (SchedulerLoad).   *)
(***************************************************************************)
EXTENDS Study

CONSTANTS
  StreakLimit,  \* 8 in the code
  AgeLimit      \* 4 in the code

ASSUME LimitsAssumption == StreakLimit \in Nat /\ AgeLimit \in Nat \ {0}

VARIABLES
  pending,      \* runs not submitted yet
  active,       \* tasks submitted and not finished
  failed,       \* tasks that did not complete
  progress,     \* per unit: members retained, active or done
  streak,       \* derivations since the last simulation, up to StreakLimit
  waiting       \* per kind: how often it was ready and not taken

svars == <<pending, active, failed, progress, streak, waiting>>

Kinds == {"metric", "aggregate", "figure"}
Rank == [k \in Kinds |-> CASE k = "metric" -> 0 [] k = "aggregate" -> 1 [] k = "figure" -> 2]
Kind(t) == t[1]
Simulation(r) == <<"simulation", r>>

Retried(ready) == ready \ active \* mutant: a failed task is taken again
Eligible(ready) == ready \ (active \union failed)
Derives(ready) == Eligible(ready) # {} /\ (streak < StreakLimit \/ pending = {})

\* The kinds that wait, counted with this selection
ReadyKinds(ready) == {Kind(t) : t \in Eligible(ready)}
Waited(ready) == [k \in Kinds |-> IF k \in ReadyKinds(ready) THEN waiting[k] + 1 ELSE waiting[k]]
Aged(ready) == {k \in ReadyKinds(ready) : Waited(ready)[k] >= AgeLimit}

First(kinds) == CHOOSE k \in kinds : \A o \in kinds : Rank[k] <= Rank[o]
Oldest(ready) ==
  {k \in Aged(ready) : \A o \in Aged(ready) : Waited(ready)[k] >= Waited(ready)[o]}
SelectedKind(ready) ==
  IF Aged(ready) # {} THEN First(Oldest(ready)) ELSE First(ReadyKinds(ready))

KeepWaiting(ready, t) == \* mutant: a kind that is taken stays as old as it was
  /\ Derives(ready)
  /\ t \in Eligible(ready) /\ Kind(t) = SelectedKind(ready)
  /\ waiting' = Waited(ready)
  /\ active' = active \union {t}
  /\ streak' = IF streak < StreakLimit THEN streak + 1 ELSE streak
  /\ UNCHANGED <<pending, failed, progress>>
ForgetAges(ready, t) == \* mutant: every kind starts to wait anew
  /\ Derives(ready)
  /\ t \in Eligible(ready) /\ Kind(t) = SelectedKind(ready)
  /\ waiting' = [k \in Kinds |-> 0]
  /\ active' = active \union {t}
  /\ streak' = IF streak < StreakLimit THEN streak + 1 ELSE streak
  /\ UNCHANGED <<pending, failed, progress>>
TakeDerivation(ready, t) ==
  /\ Derives(ready)
  /\ t \in Eligible(ready) /\ Kind(t) = SelectedKind(ready)
  /\ waiting' = [Waited(ready) EXCEPT ![Kind(t)] = 0]
  /\ active' = active \union {t}
  /\ streak' = IF streak < StreakLimit THEN streak + 1 ELSE streak
  /\ UNCHANGED <<pending, failed, progress>>

\* The coordinator may find that the run need not execute: then it never
\* becomes active.
AnyUnit(ready, r, executes) == \* mutant: plan order only
  /\ ~Derives(ready) /\ r \in pending
  /\ pending' = pending \ {r}
  /\ active' = IF executes THEN active \union {Simulation(r)} ELSE active
  /\ progress' = [progress EXCEPT ![Unit[r]] = @ + 1]
  /\ streak' = 0
  /\ UNCHANGED <<failed, waiting>>
TakeSimulation(ready, r, executes) ==
  /\ ~Derives(ready)
  /\ r \in pending /\ \A o \in pending : progress[Unit[o]] <= progress[Unit[r]]
  /\ pending' = pending \ {r}
  /\ active' = IF executes THEN active \union {Simulation(r)} ELSE active
  /\ progress' = [progress EXCEPT ![Unit[r]] = @ + 1]
  /\ streak' = 0
  /\ UNCHANGED <<failed, waiting>>
NothingToTake(ready) == Eligible(ready) = {} /\ pending = {}

FinishTask(t, ok) ==
  /\ active' = active \ {t}
  /\ failed' = IF ok THEN failed ELSE failed \union {t}
  /\ UNCHANGED <<pending, progress, streak, waiting>>

\* A new invocation asks for `runs`, some of which are retained.
Plan(runs, retained) ==
  /\ pending' = runs /\ active' = {} /\ failed' = {}
  /\ progress' = [u \in Units |-> Cardinality({r \in retained : Unit[r] = u})]
  /\ streak' = 0 /\ waiting' = [k \in Kinds |-> 0]
NoPlan ==
  /\ pending = {} /\ active = {} /\ failed = {}
  /\ progress = [u \in Units |-> 0]
  /\ streak = 0 /\ waiting = [k \in Kinds |-> 0]
=============================================================================
