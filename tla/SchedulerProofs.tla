-------------------------- MODULE SchedulerProofs --------------------------
(***************************************************************************)
(* Theorems about the scheduler under any load: its waits are bounded and  *)
(* it completes the submission of a unit before it begins another, for     *)
(* every study, whatever is retained of it, every pool and limit.          *)
(***************************************************************************)
EXTENDS SchedulerLoad, FiniteSetTheorems, TLAPS

-----------------------------------------------------------------------------
(* Types *)

LTypeOK ==
  /\ pending \subseteq Runs
  /\ ready \subseteq Task
  /\ retained \subseteq Runs
  /\ active \subseteq Task \union {Simulation(r) : r \in Runs}
  /\ failed = {}
  /\ progress \in [Units -> Nat]
  /\ waiting \in [Kinds -> Nat]

LEMMA CountsAreNumbers ==
  ASSUME NEW S \in SUBSET Runs, NEW u
  PROVE  /\ Cardinality({r \in S : Unit[r] = u}) \in Nat
         /\ (\E r \in S : Unit[r] = u) => Cardinality({r \in S : Unit[r] = u}) > 0
<1> DEFINE C == {r \in S : Unit[r] = u}
<1>1. IsFiniteSet(C)
  BY StudyAssumption, FS_Subset
<1>2. Cardinality(C) \in Nat /\ (Cardinality(C) = 0 <=> C = {})
  BY <1>1, FS_CardinalityType, FS_EmptySet
<1> QED BY <1>2

LEMMA TypesStep == LTypeOK /\ [LNext]_lvars => LTypeOK'
<1> SUFFICES ASSUME LTypeOK, [LNext]_lvars PROVE LTypeOK'
  OBVIOUS
<1> USE DEF LTypeOK
<1>1. ASSUME NEW t \in Task, Arrive(t) PROVE LTypeOK'
  BY <1>1 DEF Arrive, svars
<1>2. ASSUME NEW t \in ready, TakeDerivation(ready, t), UNCHANGED <<ready, retained>> PROVE LTypeOK'
  <2>1. waiting' \in [Kinds -> Nat]
    <3>1. Waited(ready) \in [Kinds -> Nat]
      BY DEF Waited
    <3> QED BY <1>2, <3>1 DEF TakeDerivation
  <2> QED BY <1>2, <2>1 DEF TakeDerivation
<1>3. ASSUME NEW r \in pending, TakeSimulation(ready, r, TRUE), UNCHANGED <<ready, retained>> PROVE LTypeOK'
  <2>1. progress' \in [Units -> Nat]
    BY <1>3 DEF TakeSimulation, Units
  <2> QED BY <1>3, <2>1 DEF TakeSimulation
<1>4. ASSUME NEW t \in active, Return(t) PROVE LTypeOK'
  BY <1>4 DEF Return, FinishTask
<1>5. CASE UNCHANGED lvars
  BY <1>5 DEF lvars, svars
<1> QED BY <1>1, <1>2, <1>3, <1>4, <1>5 DEF LNext, SubmitNext

\* The scheduler's state, and the tasks it handed out, have their types.
THEOREM SchedulerTypes == LSpec => []LTypeOK
<1>1. ASSUME LInit PROVE LTypeOK
  <2>1. PICK S \in SUBSET Runs : S = retained
    BY <1>1, LoadAssumption DEF LInit
  <2>2. \A u : Cardinality({r \in S : Unit[r] = u}) \in Nat
    BY CountsAreNumbers
  <2> QED BY <1>1, <2>1, <2>2 DEF LInit, LTypeOK
<1> QED BY <1>1, TypesStep, PTL DEF LSpec

-----------------------------------------------------------------------------
(* Units *)

\* The unit of which a part is submitted is ahead of every other that still has
\* members to submit, and units count what is retained and submitted of them.
Ahead ==
  /\ \A r \in Runs \ pending, o, p \in pending :
       Unit[r] = Unit[o] /\ Unit[p] # Unit[o] => progress[Unit[p]] < progress[Unit[o]]
  /\ \A o \in Runs : Retains(Unit[o]) => progress[Unit[o]] > 0
  /\ \A r \in Runs \ pending, o \in pending : Retains(Unit[o]) => Retains(Unit[r])
  /\ \A o \in Runs : progress[Unit[o]] > 0 =>
       Retains(Unit[o]) \/ \E r \in Runs \ pending : Unit[r] = Unit[o]

LEMMA AheadInit == LInit => Ahead
<1> SUFFICES ASSUME LInit PROVE Ahead
  OBVIOUS
<1>1. PICK S \in SUBSET Runs : S = retained /\ pending = Runs
  BY LoadAssumption DEF LInit
<1>2. ASSUME NEW o \in Runs
      PROVE  progress[Unit[o]] > 0 <=> Retains(Unit[o])
  <2>1. PICK C : C = {r \in S : Unit[r] = Unit[o]}
    OBVIOUS
  <2>2. progress[Unit[o]] = Cardinality(C)
    BY <1>1, <2>1 DEF LInit, Units
  <2>3. Retains(Unit[o]) <=> \E r \in S : Unit[r] = Unit[o]
    BY <1>1 DEF Retains
  <2>4. C = {} => Cardinality(C) = 0
    BY FS_EmptySet
  <2>5. (\E r \in S : Unit[r] = Unit[o]) => Cardinality(C) > 0
    BY <2>1, CountsAreNumbers
  <2> QED BY <2>1, <2>2, <2>3, <2>4, <2>5
<1> QED BY <1>1, <1>2 DEF Ahead

LEMMA AheadStep == LTypeOK /\ Ahead /\ [LNext]_lvars => Ahead'
<1> SUFFICES ASSUME LTypeOK, Ahead, [LNext]_lvars PROVE Ahead'
  OBVIOUS
<1>1. ASSUME UNCHANGED <<pending, progress, retained>> PROVE Ahead'
  BY <1>1 DEF Ahead, Retains
<1>2. ASSUME NEW r \in pending, TakeSimulation(ready, r, TRUE), UNCHANGED retained PROVE Ahead'
  <2>1. /\ pending' = pending \ {r}
        /\ progress' = [progress EXCEPT ![Unit[r]] = @ + 1]
        /\ \A o \in pending : progress[Unit[o]] <= progress[Unit[r]]
    BY <1>2 DEF TakeSimulation
  <2>2. \A u : Retains(u)' <=> Retains(u)
    BY <1>2 DEF Retains
  <2>3. \A o \in Runs :
          /\ progress[Unit[o]] \in Nat
          /\ progress'[Unit[o]] =
               IF Unit[o] = Unit[r] THEN progress[Unit[o]] + 1 ELSE progress[Unit[o]]
    BY <2>1 DEF LTypeOK, Units
  <2>4. r \in Runs /\ pending \subseteq Runs
    BY DEF LTypeOK
  \* What was partly submitted is ahead of the others: it is the unit served.
  <2>5. ASSUME NEW s \in Runs \ pending', NEW o \in pending', NEW p \in pending',
               Unit[s] = Unit[o], Unit[p] # Unit[o]
        PROVE  progress'[Unit[p]] < progress'[Unit[o]]
    <3>1. CASE Unit[o] = Unit[r]
      <4>1. progress[Unit[p]] <= progress[Unit[r]]
        BY <2>1
      <4> QED BY <2>1, <2>3, <2>4, <2>5, <3>1, <4>1
    <3>2. CASE Unit[o] # Unit[r]
      <4>1. s \in Runs \ pending
        BY <2>1, <2>5, <3>2
      <4>2. progress[Unit[r]] < progress[Unit[o]]
        BY <2>1, <2>5, <3>2, <4>1 DEF Ahead
      <4> QED BY <2>1, <2>3, <2>4, <4>2
    <3> QED BY <3>1, <3>2
  <2>6. ASSUME NEW o \in Runs, Retains(Unit[o]) PROVE progress'[Unit[o]] > 0
    BY <2>3, <2>6 DEF Ahead
  <2>7. ASSUME NEW s \in Runs \ pending', NEW o \in pending', Retains(Unit[o])
        PROVE  Retains(Unit[s])
    <3>1. CASE s \in pending
      <4>1. s = r
        BY <2>1, <2>7, <3>1
      <4>2. progress[Unit[r]] > 0
        BY <2>1, <2>3, <2>4, <2>7 DEF Ahead
      <4>3. Retains(Unit[r]) \/ \E x \in Runs \ pending : Unit[x] = Unit[r]
        BY <2>4, <4>2 DEF Ahead
      <4> QED BY <2>1, <2>7, <4>1, <4>3 DEF Ahead
    <3>2. CASE s \notin pending
      BY <2>1, <2>7, <3>2 DEF Ahead
    <3> QED BY <3>1, <3>2
  <2>8. ASSUME NEW o \in Runs, progress'[Unit[o]] > 0
        PROVE  Retains(Unit[o]) \/ \E s \in Runs \ pending' : Unit[s] = Unit[o]
    <3>1. CASE Unit[o] = Unit[r]
      BY <2>1, <2>4, <3>1
    <3>2. CASE Unit[o] # Unit[r]
      <4>1. progress[Unit[o]] > 0
        BY <2>3, <2>8, <3>2
      <4> QED BY <2>1, <4>1 DEF Ahead
    <3> QED BY <3>1, <3>2
  <2> QED BY <2>2, <2>5, <2>6, <2>7, <2>8 DEF Ahead
<1>3. ASSUME NEW t \in ready, TakeDerivation(ready, t), UNCHANGED retained PROVE Ahead'
  BY <1>1, <1>3 DEF TakeDerivation
<1>4. ASSUME NEW t, Return(t) \/ Arrive(t) PROVE Ahead'
  BY <1>1, <1>4 DEF Return, FinishTask, Arrive, svars
<1>5. CASE UNCHANGED lvars
  BY <1>1, <1>5 DEF lvars, svars
<1> QED BY <1>2, <1>3, <1>4, <1>5 DEF LNext, SubmitNext

LEMMA AheadIsClosed == LTypeOK /\ Ahead => UnitsAreClosed
<1> SUFFICES ASSUME LTypeOK, Ahead PROVE UnitsAreClosed
  OBVIOUS
<1>1. ASSUME NEW u, NEW v, Partly(u), Partly(v), u # v PROVE FALSE
  <2>1. PICK r \in Runs \ pending, o \in pending : Unit[r] = u /\ Unit[o] = u
    BY <1>1 DEF Partly
  <2>2. PICK s \in Runs \ pending, p \in pending : Unit[s] = v /\ Unit[p] = v
    BY <1>1 DEF Partly
  <2>3. progress[u] < progress[v] /\ progress[v] < progress[u]
    BY <1>1, <2>1, <2>2 DEF Ahead
  <2>4. progress[u] \in Nat /\ progress[v] \in Nat
    BY <2>1, <2>2 DEF LTypeOK, Units
  <2> QED BY <2>3, <2>4
<1> QED BY <1>1 DEF UnitsAreClosed, Ahead

\* Whatever earlier invocations retained and whatever becomes ready in whatever
\* order, there are never two units of repeated runs of which a part is submitted,
\* and those with retained members come first (TaskScheduler.group_progress).
THEOREM UnitsStayClosed == LSpec => []UnitsAreClosed
<1> QED BY AheadInit, AheadStep, AheadIsClosed, SchedulerTypes, PTL DEF LSpec

-----------------------------------------------------------------------------
(* Waiting *)

LEMMA AFirst ==
  ASSUME NEW kinds \in SUBSET Kinds, kinds # {} PROVE First(kinds) \in kinds
<1>1. \E k \in kinds : \A o \in kinds : Rank[k] <= Rank[o]
  BY DEF Kinds, Rank
<1> QED BY <1>1 DEF First

LEMMA AnOldest ==
  ASSUME LTypeOK, Aged(ready) # {} PROVE Oldest(ready) # {}
<1>1. Aged(ready) \subseteq Kinds
  BY DEF Aged, ReadyKinds, Eligible, Kind, LTypeOK, Task
<1>2. \A k \in Kinds : Waited(ready)[k] \in Nat
  BY DEF Waited, LTypeOK
<1>3. ASSUME NEW A \in SUBSET Kinds, A # {}, NEW W, \A k \in Kinds : W[k] \in Nat
      PROVE  \E k \in A : \A o \in A : W[k] >= W[o]
  \* Otherwise there were four of the three kinds.
  <2> SUFFICES ASSUME \A k \in A : \E o \in A : W[o] > W[k] PROVE FALSE
    BY <1>3
  <2>1. PICK k1 \in A : TRUE
    BY <1>3
  <2>2. PICK k2 \in A : W[k2] > W[k1]
    OBVIOUS
  <2>3. PICK k3 \in A : W[k3] > W[k2]
    OBVIOUS
  <2>4. PICK k4 \in A : W[k4] > W[k3]
    OBVIOUS
  <2>5. k1 # k2 /\ k1 # k3 /\ k1 # k4 /\ k2 # k3 /\ k2 # k4 /\ k3 # k4
    BY <1>3, <2>2, <2>3, <2>4
  <2> QED BY <2>5 DEF Kinds
<1>4. \E k \in Aged(ready) : \A o \in Aged(ready) : Waited(ready)[k] >= Waited(ready)[o]
  BY <1>1, <1>2, <1>3
<1> QED BY <1>4 DEF Oldest

\* One kind has just been taken, at most one is at the limit, and a kind that
\* waits is one that is ready.
Waits ==
  /\ \A k \in Kinds : waiting[k] <= AgeLimit
  /\ \E k \in Kinds : waiting[k] = 0
  /\ \A k, o \in Kinds : waiting[k] = AgeLimit /\ waiting[o] = AgeLimit => k = o
  /\ \A k \in Kinds : waiting[k] > 0 => k \in ReadyKinds(ready)

\* What is taken when something has aged is the oldest of it.
LEMMA TakenIsOldest ==
  ASSUME LTypeOK, NEW t \in ready, TakeDerivation(ready, t), Aged(ready) # {}
  PROVE  \A o \in Aged(ready) : Kind(t) \in Aged(ready) /\ Waited(ready)[Kind(t)] >= Waited(ready)[o]
<1>1. Oldest(ready) # {} /\ Oldest(ready) \subseteq Aged(ready)
  BY AnOldest DEF Oldest
<1>2. Oldest(ready) \in SUBSET Kinds
  BY DEF Oldest, Aged, ReadyKinds, Eligible, Kind, LTypeOK, Task
<1>3. Kind(t) \in Oldest(ready)
  BY <1>1, <1>2, AFirst DEF TakeDerivation, SelectedKind
<1> QED BY <1>3 DEF Oldest

LEMMA WaitsStep ==
  ASSUME AgeLimit >= 2, LTypeOK, LTypeOK', Waits, [LNext]_lvars PROVE Waits'
<1> USE DEF LTypeOK
<1>0. AgeLimit \in Nat
  BY LimitsAssumption
\* A ready kind stays ready when a task that is not of it leaves.
<1>1. ASSUME UNCHANGED waiting, \A k \in Kinds : k \in ReadyKinds(ready) => (k \in ReadyKinds(ready))'
      PROVE Waits'
  BY <1>1 DEF Waits
<1>2. ASSUME NEW t \in Task, Arrive(t) PROVE Waits'
  <2>1. \A k \in Kinds : k \in ReadyKinds(ready) => (k \in ReadyKinds(ready))'
    BY <1>2 DEF Arrive, svars, ReadyKinds, Eligible
  <2> QED BY <1>1, <1>2, <2>1 DEF Arrive, svars
<1>3. ASSUME NEW r \in pending, TakeSimulation(ready, r, TRUE), UNCHANGED <<ready, retained>> PROVE Waits'
  <2>1. \A u \in ready : u # Simulation(r)
    BY DEF Task, Kinds, Simulation
  <2>2. active' = active \union {Simulation(r)} /\ UNCHANGED <<failed, waiting>>
    BY <1>3 DEF TakeSimulation
  <2>3. \A k \in Kinds : k \in ReadyKinds(ready) => (k \in ReadyKinds(ready))'
    BY <1>3, <2>1, <2>2 DEF ReadyKinds, Eligible
  <2> QED BY <1>1, <2>2, <2>3
<1>4. ASSUME NEW t \in active, Return(t) PROVE Waits'
  <2>1. active' = active \ {t} /\ ready' = ready \ {t} /\ UNCHANGED <<failed, waiting>>
    BY <1>4 DEF Return, FinishTask
  <2>2. \A k \in Kinds : k \in ReadyKinds(ready) => (k \in ReadyKinds(ready))'
    BY <2>1 DEF ReadyKinds, Eligible
  <2> QED BY <1>1, <2>1, <2>2
<1>5. ASSUME NEW t \in ready, TakeDerivation(ready, t), UNCHANGED <<ready, retained>> PROVE Waits'
  <2> DEFINE W == Waited(ready)
             x == Kind(t)
  <2>1. x \in Kinds /\ x \in ReadyKinds(ready)
    BY <1>5 DEF Kind, Task, TakeDerivation, ReadyKinds
  <2>2. \A k \in Kinds : /\ W[k] \in Nat /\ waiting[k] \in Nat
                         /\ W[k] = waiting[k] + 1 \/ (W[k] = waiting[k] /\ waiting[k] = 0)
                         /\ k \notin ReadyKinds(ready) => W[k] = 0
    BY DEF Waited, Waits
  <2>3. \A k \in Kinds : waiting'[k] = IF k = x THEN 0 ELSE W[k]
    <3>1. W \in [Kinds -> Nat]
      BY DEF Waited
    <3> QED BY <1>5, <2>1, <3>1 DEF TakeDerivation
  <2>4. \A k \in Kinds : W[k] >= AgeLimit => W[x] >= W[k]
    <3> SUFFICES ASSUME NEW k \in Kinds, W[k] >= AgeLimit PROVE W[x] >= W[k]
      OBVIOUS
    <3>1. k \in ReadyKinds(ready)
      BY <1>0, <2>2
    <3>2. k \in Aged(ready)
      BY <3>1 DEF Aged
    <3> QED BY <1>5, <3>2, TakenIsOldest
  <2>5. \A k \in Kinds : waiting'[k] <= AgeLimit
    <3> HIDE DEF W, x
    <3>1. ASSUME NEW k \in Kinds, k # x, W[k] > AgeLimit PROVE FALSE
      <4>1. waiting[k] = AgeLimit /\ W[x] > AgeLimit
        BY <1>0, <2>1, <2>2, <2>4, <3>1 DEF Waits
      <4>2. waiting[x] = AgeLimit
        BY <1>0, <2>1, <2>2, <4>1 DEF Waits
      <4> QED BY <2>1, <3>1, <4>1, <4>2 DEF Waits
    <3> QED BY <1>0, <2>2, <2>3, <3>1
  <2>6. \A k, o \in Kinds : waiting'[k] = AgeLimit /\ waiting'[o] = AgeLimit => k = o
    <3> SUFFICES ASSUME NEW k \in Kinds, NEW o \in Kinds,
                        waiting'[k] = AgeLimit, waiting'[o] = AgeLimit, k # o
                 PROVE FALSE
      OBVIOUS
    <3> HIDE DEF W, x
    <3>1. W[k] = AgeLimit /\ W[o] = AgeLimit /\ k # x /\ o # x /\ W[x] >= AgeLimit
      BY <1>0, <2>1, <2>2, <2>3, <2>4
    \* Three kinds are there, and the one that was taken last has not aged.
    <3>2. waiting[k] > 0 /\ waiting[o] > 0 /\ waiting[x] > 0
      BY <1>0, <2>1, <2>2, <3>1
    <3>3. \A j \in Kinds : j = k \/ j = o \/ j = x
      BY <2>1, <3>1 DEF Kinds
    <3> QED BY <2>2, <3>2, <3>3 DEF Waits
  <2>7. \A k \in Kinds : waiting'[k] > 0 => (k \in ReadyKinds(ready))'
    <3> SUFFICES ASSUME NEW k \in Kinds, waiting'[k] > 0 PROVE (k \in ReadyKinds(ready))'
      OBVIOUS
    <3>1. k # x /\ k \in ReadyKinds(ready)
      BY <2>2, <2>3
    <3>2. PICK u \in Eligible(ready) : Kind(u) = k
      BY <3>1 DEF ReadyKinds
    <3>3. u # t
      BY <3>1, <3>2
    <3>4. u \in Eligible(ready)'
      BY <1>5, <3>2, <3>3 DEF TakeDerivation, Eligible
    <3> QED BY <3>2, <3>4 DEF ReadyKinds
  <2> QED BY <2>1, <2>3, <2>5, <2>6, <2>7 DEF Waits
<1>6. CASE UNCHANGED lvars
  BY <1>6 DEF lvars, svars, Waits, ReadyKinds, Eligible
<1> QED BY <1>2, <1>3, <1>4, <1>5, <1>6 DEF LNext, SubmitNext

\* With an age limit of at least two, no ready kind of derivation is ever passed
\* over more than AgeLimit times, whatever becomes ready (TaskScheduler._take_derived
\* and its `_waiting`).  A limit of one does not bound the wait: all three kinds
\* age with every selection.
THEOREM WaitsAreBounded == ASSUME AgeLimit >= 2 PROVE LSpec => []WaitIsBounded
<1>1. LInit => Waits
  BY LimitsAssumption DEF LInit, Waits, Kinds
<1>2. LTypeOK /\ LTypeOK' /\ Waits /\ [LNext]_lvars => Waits'
  BY WaitsStep
<1>3. Waits => WaitIsBounded
  BY DEF Waits, WaitIsBounded
<1> QED BY <1>1, <1>2, <1>3, SchedulerTypes, PTL DEF LSpec
=============================================================================
