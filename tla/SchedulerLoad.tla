--------------------------- MODULE SchedulerLoad ---------------------------
(***************************************************************************)
(* The scheduler under any load: derivations become ready at any time,     *)
(* whatever has finished before, and the pool holds `Workers` tasks.       *)
(***************************************************************************)
EXTENDS TaskScheduler

CONSTANTS
  Workers,   \* size of the pool
  Slots,     \* bound: derivations of one kind that are ready at a time
  Earlier    \* bound: what earlier invocations may have completed, sets of runs

ASSUME LoadAssumption ==
  Workers \in Nat \ {0} /\ Slots \in Nat \ {0} /\ Earlier \subseteq SUBSET Runs

VARIABLES
  ready,     \* derivations whose inputs are durable and that are not done
  retained   \* runs earlier invocations completed (graph.references at the start)

lvars == <<svars, ready, retained>>
Task == Kinds \X (1..Slots)

Arrive(t) == t \notin ready /\ ready' = ready \union {t} /\ UNCHANGED <<svars, retained>>
SubmitNext ==
  /\ Cardinality(active) < Workers
  /\ \/ \E t \in ready : TakeDerivation(ready, t)
     \/ \E r \in pending : TakeSimulation(ready, r, TRUE)
  /\ UNCHANGED <<ready, retained>>
Return(t) ==
  /\ t \in active /\ FinishTask(t, TRUE)
  /\ ready' = ready \ {t} /\ UNCHANGED retained

\* Retained runs are submitted too (their worker finds them complete), and
\* count for their unit from the start.
LInit ==
  /\ retained \in Earlier
  /\ pending = Runs /\ active = {} /\ failed = {}
  /\ progress = [u \in Units |-> Cardinality({r \in retained : Unit[r] = u})]
  /\ streak = 0 /\ waiting = [k \in Kinds |-> 0]
  /\ ready = {}
LNext ==
  \/ \E t \in Task : Arrive(t)
  \/ SubmitNext
  \/ \E t \in active : Return(t)
LSpec == LInit /\ [][LNext]_lvars

\* The coordinator submits whenever a worker is free and tasks come to an end.
LFairSpec == LSpec /\ WF_lvars(SubmitNext) /\ WF_lvars(\E t \in active : Return(t))

-----------------------------------------------------------------------------

\* However many derivations become ready, every simulation is submitted ("a bounded
\* derivation streak ensures forward simulation progress"); however many metrics
\* become ready, a ready aggregate or figure is taken ("a metric backlog cannot
\* starve ready outputs"), and however many outputs, a metric.
KindsAreServed ==
  /\ <>(pending = {})
  /\ \A k \in Kinds :
       k \in ReadyKinds(ready) ~> k \notin ReadyKinds(ready) \/ \E t \in active : Kind(t) = k

\* A ready kind is passed over at most AgeLimit times: until it has aged, and
\* once more for a kind that aged with it ("bounded aging").
WaitIsBounded == \A k \in Kinds : waiting[k] <= AgeLimit

\* Whatever earlier invocations retained, the members of a unit are submitted
\* together: there are never two units of which a part is submitted; and a unit
\* of which nothing is retained is not begun while one with retained members
\* lacks others ("simulations prefer groups with completed or active members").
Partly(u) == \E r \in Runs \ pending : Unit[r] = u /\ \E o \in pending : Unit[o] = u
Retains(u) == \E r \in retained : Unit[r] = u
UnitsAreClosed ==
  /\ \A u, v \in Units : Partly(u) /\ Partly(v) => u = v
  /\ \A r \in Runs \ pending, o \in pending : Retains(Unit[o]) => Retains(Unit[r])
=============================================================================
