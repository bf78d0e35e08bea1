-------------------------- MODULE ObserversProofs --------------------------
(***************************************************************************)
(* Theorems about Observers: for any plan, any workers, any capacity of    *)
(* the display's queue and whatever is dropped, delayed, refused or        *)
(* interrupted, the rows, the messages and the last line of the terminal   *)
(* tell what the coordinator recorded.                                     *)
(*                                                                         *)
(* The argument is bookkeeping: at every moment each observer is behind    *)
(* the coordinator's ledger by at most the one callback that is being      *)
(* made, and a count over a ledger of outcomes adds up to what ended.      *)
(***************************************************************************)
EXTENDS Observers, FiniteSetTheorems, WellFoundedInduction, TLAPS

-----------------------------------------------------------------------------
(* The inductive invariant *)

Late == {"finish", "set", "join", "report", "close", "exit", "ended"}
Early == {"prepare", "start", "schedule"}
Callbacks == [task : Runs, status : {None} \union Statuses, at : {"notifier", "display"}]

CountsOf(o, R) == [s \in Statuses |-> Cardinality({r \in R : o[r] = s})]
EndedRuns == {r \in Runs : outcome[r] # None}
EndedTasks == {t \in Derived : outcome[t] # None}
AllRunsThere == \A r \in Planned : outcome[r] \in {"completed", "skipped"}

\* The run whose end the display was not told yet, the one whose end the
\* notifier was not told, and the one whose start it was not told.
Untold == IF callback # None /\ callback.status # None THEN {callback.task} ELSE {}
Unheard == IF callback # None /\ callback.status # None /\ callback.at = "notifier"
           THEN {callback.task} ELSE {}
Unannounced == IF callback # None /\ callback.status = None THEN {callback.task} ELSE {}

\* The coordinator's own accounts
LedgerTypes ==
  /\ plan \in SUBSET Tasks /\ phase \in Early \union {"finalize"} \union Late
  /\ stop \in BOOLEAN /\ aborted \in BOOLEAN /\ left \in Nat
  /\ started \subseteq plan /\ cached \subseteq plan \ Runs
  /\ outcome \in [Tasks -> {None} \union Statuses]
  /\ answer \in [Tasks -> {None, "died"} \union Statuses]
  /\ callback \in {None} \union Callbacks
InvLedger ==
  /\ started \intersect cached = {}
  /\ phase = "prepare" => started = {} /\ cached = {}
  /\ \A t \in Tasks : outcome[t] # None => t \in started
  /\ callback # None =>
       /\ phase = "schedule" /\ callback.task \in started
       /\ callback.status = outcome[callback.task]
       /\ callback.at = "display" => callback.status # None
  /\ phase = "finalize" => InFlight = {}
  /\ left # 0 => phase \notin Early
  /\ left # 0 \/ phase = "finalize" => Total(RunCounts) + left = Cardinality(Planned)

\* What the display holds of it
InvBoard ==
  /\ shownRuns = (InFlight \intersect Runs) \union Untold
  /\ shownTasks = InFlight \intersect Derived
  /\ counts = CountsOf(outcome, Runs \ Untold)
  /\ taskCounts \in [Statuses -> Nat]
  /\ phase # "prepare" => total = Cardinality(Planned) /\ taskTotal = Cardinality(plan \ Runs)
  /\ phase \notin Late => Total(taskCounts) = Cardinality(cached) + Cardinality(EndedTasks)

\* The report is made of the final accounts, and the display retains that report.
InvReport ==
  /\ phase \in Late /\ ~aborted => report # None
  /\ report # None =>
       /\ phase \in Late /\ report.counts = RunCounts /\ report.pending = left
       /\ report.pendingTasks \in Nat
       /\ Total(RunCounts) + left = Cardinality(Planned)
       /\ report.pendingTasks = 0 => \A t \in plan \ Runs : outcome[t] \in {None, "completed"}
       /\ report.pendingTasks = 0 /\ AllRunsThere => shownTasks = {} /\ taskTotal <= Total(taskCounts)
  /\ phase \in {"close", "exit", "ended"} /\ ~aborted => told = report
  /\ told # None => told = report
InvSummary == SummaryIsTrue /\ (summary # None => phase = "ended")

\* The notifier counts the same until Discord refuses it; from then on it counts nothing.
InvNotifier ==
  /\ known \in [Statuses -> Nat] /\ activeRuns \subseteq Planned
  /\ Total(known) + Cardinality(activeRuns) <= Cardinality(Planned)
  /\ enabled =>
       /\ known = CountsOf(outcome, Runs \ Unheard)
       /\ activeRuns = ((InFlight \intersect Runs) \ Unannounced) \union Unheard
  /\ finished => final # None
  /\ final # None =>
       /\ phase \in Late \ {"finish"}
       /\ final.counts = RunCounts /\ final.aborted = aborted /\ final.pending \in Nat
       /\ Total(RunCounts) + final.pending = Cardinality(Planned)

\* A message that is under way was true when it was built, and is final if it says so.
Truthful(m) ==
  /\ Total(m.counts) + m.pending + m.active = Cardinality(Planned)
  /\ m.stage \notin {"started", "progress"} =>
       /\ final # None /\ m.counts = RunCounts
       /\ (m.stage = "aborted") = aborted
       /\ m.stage = "completed" => AllRunsThere
InvMessage == sender \in {"built", "open"} => Truthful(message)

ObsInv ==
  /\ LedgerTypes /\ InvLedger /\ InvBoard /\ RowsTellOutcomes
  /\ InvReport /\ InvSummary /\ InvNotifier /\ InvMessage

-----------------------------------------------------------------------------
(* Counting *)

LEMMA DisjointUnion ==
  ASSUME NEW S, NEW T, IsFiniteSet(S), IsFiniteSet(T), S \intersect T = {}
  PROVE  /\ IsFiniteSet(S \union T)
         /\ Cardinality(S) \in Nat /\ Cardinality(T) \in Nat
         /\ Cardinality(S \union T) = Cardinality(S) + Cardinality(T)
<1>1. Cardinality(S) \in Nat /\ Cardinality(T) \in Nat
  BY FS_CardinalityType
<1>2. Cardinality(S \intersect T) = 0
  BY FS_EmptySet
<1>3. /\ IsFiniteSet(S \union T)
      /\ Cardinality(S \union T) = Cardinality(S) + Cardinality(T) - Cardinality(S \intersect T)
  BY FS_Union
<1> QED BY <1>1, <1>2, <1>3

\* The outcomes of a finite set of runs are counted once each.
LEMMA CountsTotal ==
  ASSUME NEW o, NEW R, IsFiniteSet(R), \A r \in R : o[r] \in {None} \union Statuses
  PROVE  /\ CountsOf(o, R) \in [Statuses -> Nat]
         /\ IsFiniteSet({r \in R : o[r] # None})
         /\ Total(CountsOf(o, R)) = Cardinality({r \in R : o[r] # None})
<1> DEFINE E(s) == {r \in R : o[r] = s}
           A == E("completed") \union E("skipped")
           B == E("failed") \union E("paused")
<1>1. \A s : IsFiniteSet(E(s)) /\ Cardinality(E(s)) \in Nat
  BY FS_Subset, FS_CardinalityType
<1>2. /\ E("completed") \intersect E("skipped") = {} /\ E("failed") \intersect E("paused") = {}
      /\ A \intersect B = {}
  OBVIOUS
<1>3. /\ IsFiniteSet(A) /\ Cardinality(A) = Cardinality(E("completed")) + Cardinality(E("skipped"))
      /\ IsFiniteSet(B) /\ Cardinality(B) = Cardinality(E("failed")) + Cardinality(E("paused"))
  <2> HIDE DEF E
  <2> QED BY <1>1, <1>2, DisjointUnion
<1>4. IsFiniteSet(A \union B) /\ Cardinality(A \union B) = Cardinality(A) + Cardinality(B)
  <2> HIDE DEF A, B
  <2> QED BY <1>2, <1>3, DisjointUnion
<1>5. A \union B = {r \in R : o[r] # None}
  BY SettingsAssumption DEF Statuses
<1>6. \A s \in Statuses : CountsOf(o, R)[s] = Cardinality(E(s))
  BY DEF CountsOf
<1>7. CountsOf(o, R) \in [Statuses -> Nat]
  BY <1>1 DEF CountsOf
<1> HIDE DEF E
<1>8. Total(CountsOf(o, R)) = Cardinality(A) + Cardinality(B)
  BY <1>1, <1>3, <1>6 DEF Total, Statuses
<1> QED BY <1>4, <1>5, <1>7, <1>8

\* One more of them
LEMMA CountsAdd ==
  ASSUME NEW o, NEW R, IsFiniteSet(R), NEW r \in R, o[r] \in Statuses
  PROVE  CountsOf(o, R) = Add(CountsOf(o, R \ {r}), o[r], 1)
<1> DEFINE E(s) == {q \in R : o[q] = s}
           F(s) == {q \in R \ {r} : o[q] = s}
<1>1. \A s : IsFiniteSet(F(s))
  BY FS_Subset
<1>2. \A s : s # o[r] => E(s) = F(s)
  OBVIOUS
<1>3. E(o[r]) = F(o[r]) \union {r} /\ r \notin F(o[r])
  OBVIOUS
<1>4. Cardinality(E(o[r])) = Cardinality(F(o[r])) + 1
  <2> HIDE DEF E, F
  <2> QED BY <1>1, <1>3, FS_AddElement
<1>5. CountsOf(o, R) = [s \in Statuses |-> Cardinality(E(s))]
  BY DEF CountsOf
<1>6. CountsOf(o, R \ {r}) = [s \in Statuses |-> Cardinality(F(s))]
  BY DEF CountsOf
<1> HIDE DEF E, F
<1> QED BY <1>2, <1>4, <1>5, <1>6 DEF Add

LEMMA CountsSame ==
  ASSUME NEW o, NEW q, NEW R, NEW S,
         \A s \in Statuses : {r \in R : o[r] = s} = {r \in S : q[r] = s}
  PROVE  CountsOf(o, R) = CountsOf(q, S)
BY DEF CountsOf

LEMMA AddTotal ==
  ASSUME NEW c \in [Statuses -> Nat], NEW s \in Statuses, NEW k \in Nat
  PROVE  /\ Add(c, s, k) \in [Statuses -> Nat]
         /\ Total(Add(c, s, k)) = Total(c) + k
         /\ Total(c) \in Nat
BY DEF Add, Total, Statuses

\* In the accounts of the coordinator, all that ended was planned.
LEMMA Planning ==
  ASSUME LedgerTypes, InvLedger
  PROVE  /\ IsFiniteSet(Runs) /\ IsFiniteSet(Planned) /\ IsFiniteSet(EndedRuns)
         /\ EndedRuns \subseteq Planned
         /\ Cardinality(Planned) \in Nat /\ Cardinality(EndedRuns) \in Nat
         /\ Cardinality(EndedRuns) <= Cardinality(Planned)
         /\ RunCounts \in [Statuses -> Nat] /\ RunCounts = CountsOf(outcome, Runs)
         /\ Total(RunCounts) = Cardinality(EndedRuns)
         /\ IsFiniteSet(plan \ Runs) /\ Cardinality(plan \ Runs) \in Nat
<1>1. IsFiniteSet(Runs) /\ Planned \subseteq Runs /\ EndedRuns \subseteq Planned
  BY DisplayAssumption DEF Planned, EndedRuns, LedgerTypes, InvLedger, Tasks
<1>2. IsFiniteSet(Planned)
  BY <1>1, FS_Subset
<1>3. IsFiniteSet(EndedRuns) /\ Cardinality(EndedRuns) <= Cardinality(Planned)
  BY <1>1, <1>2, FS_Subset
<1>4. RunCounts = CountsOf(outcome, Runs)
  BY DEF RunCounts, CountsOf
<1>5. \A r \in Runs : outcome[r] \in {None} \union Statuses
  BY DEF LedgerTypes, Tasks
<1>6. /\ CountsOf(outcome, Runs) \in [Statuses -> Nat]
      /\ Total(CountsOf(outcome, Runs)) = Cardinality(EndedRuns)
  BY <1>1, <1>5, CountsTotal DEF EndedRuns
<1>7. plan \ Runs \subseteq Derived /\ IsFiniteSet(Derived)
  BY DisplayAssumption DEF LedgerTypes, Tasks
<1>8. IsFiniteSet(plan \ Runs)
  BY <1>7, FS_Subset
<1> QED BY <1>1, <1>2, <1>3, <1>4, <1>6, <1>8, FS_CardinalityType

-----------------------------------------------------------------------------
(* Steps that leave the coordinator's accounts alone *)

\* Workers and threads
Apart ==
  /\ UNCHANGED <<coordinator, counters, told, summary>>
  /\ answer' \in [Tasks -> {None, "died"} \union Statuses]

LEMMA WorkerApart ==
  ASSUME LedgerTypes, NEW p \in Workers, Worker(p) \/ Advance(p) \/ Die(p)
  PROVE  Apart /\ UNCHANGED <<rows, notifierVars>>
<1>1. ASSUME NEW t, NEW s, At(p, t, s) PROVE UNCHANGED <<coordinator, counters, screen, notifierVars>>
  BY <1>1 DEF At
<1>2. ASSUME NEW t \in Tasks, Take(p, t)
      PROVE  answer' = answer /\ UNCHANGED <<coordinator, counters, screen, notifierVars>>
  BY <1>1, <1>2 DEF Take
<1>3. ASSUME Advance(p)
      PROVE  answer' = answer /\ UNCHANGED <<coordinator, counters, screen, notifierVars>>
  BY <1>1, <1>3 DEF Advance
<1>4. ASSUME Return(p)
      PROVE  /\ \E x, s : s \in Statuses /\ answer' = [answer EXCEPT ![x] = s]
             /\ UNCHANGED <<coordinator, counters, screen, notifierVars>>
  <2>1. \A t, a : Possible(t, a) \subseteq Statuses
    BY DEF Possible, Statuses
  <2>2. PICK s \in Possible(doing[p].task, doing[p].status) : answer' = [answer EXCEPT ![doing[p].task] = s]
    BY <1>4 DEF Return
  <2> QED BY <1>4, <2>1, <2>2 DEF Return
<1>5. ASSUME Die(p)
      PROVE  /\ answer' \in [Tasks -> {None, "died"} \union Statuses]
             /\ UNCHANGED <<coordinator, counters, screen, notifierVars>>
  BY <1>5 DEF Die, LedgerTypes
<1>6. Worker(p) => Return(p) \/ \E t \in Tasks : Take(p, t)
  BY DEF Worker
<1> QED BY <1>2, <1>3, <1>4, <1>5, <1>6 DEF Apart, LedgerTypes, screen, displayVars

LEMMA ThreadApart ==
  ASSUME LedgerTypes, DisplayThread \/ Alone(UNCHANGED notifierVars /\ (Refresh \/ EndThread))
  PROVE  Apart /\ UNCHANGED notifierVars
BY DEF DisplayThread, Alone, Refresh, EndThread, Apart, LedgerTypes, work

LEMMA SenderApart ==
  ASSUME LedgerTypes, Sender \/ Alone(UNCHANGED displayVars /\ (Answer \/ TimePasses))
  PROVE  Apart /\ UNCHANGED rows
BY DEF Sender, Alone, Apart, LedgerTypes, work, displayVars, screen

\* Everything else is the coordinator's.
Coordinating == Coordinate \/ Abort \/ Signal
LEMMA StepsSplit ==
  ASSUME LedgerTypes, Next
  PROVE  \/ Coordinating
         \/ Apart /\ UNCHANGED <<rows, notifierVars>>
         \/ Apart /\ UNCHANGED notifierVars /\ (rows' = rows \/ \E k \in Arrivals : rows' = Drained(k))
         \/ /\ Apart /\ UNCHANGED rows
            /\ Send \/ EnterWait \/ WakeToTell \/ Tell \/ Finish \/ Answer \/ TimePasses
<1>1. CASE Coordinate \/ Abort \/ Signal
  BY <1>1 DEF Coordinating
<1>2. CASE \E p \in Workers : Worker(p) \/ Advance(p) \/ Die(p)
  BY <1>2, WorkerApart
<1>3. CASE DisplayThread \/ Alone(UNCHANGED notifierVars /\ (Refresh \/ EndThread))
  <2>1. rows' = rows \/ \E k \in Arrivals : rows' = Drained(k)
    BY <1>3 DEF DisplayThread, Alone, Refresh, EndThread
  <2> QED BY <1>3, <2>1, ThreadApart
<1>4. CASE Sender \/ Alone(UNCHANGED displayVars /\ (Answer \/ TimePasses))
  <2>1. Send \/ EnterWait \/ WakeToTell \/ Tell \/ Finish \/ Answer \/ TimePasses
    BY <1>4 DEF Sender, Alone
  <2> QED BY <1>4, <2>1, SenderApart
<1> QED BY <1>1, <1>2, <1>3, <1>4 DEF Next, Environment

LEMMA ApartKeeps ==
  ASSUME LedgerTypes, InvLedger, InvBoard, InvReport, InvSummary, Apart
  PROVE  LedgerTypes' /\ InvLedger' /\ InvBoard' /\ InvReport' /\ InvSummary'
<1> USE DEF Apart, coordinator, counters
<1>1. LedgerTypes'
  BY DEF LedgerTypes
<1>2. /\ Planned' = Planned /\ InFlight' = InFlight /\ RunCounts' = RunCounts /\ Untold' = Untold
      /\ EndedRuns' = EndedRuns /\ EndedTasks' = EndedTasks /\ (AllRunsThere' <=> AllRunsThere)
  BY DEF Planned, InFlight, RunCounts, Untold, EndedRuns, EndedTasks, AllRunsThere
<1>3. InvLedger'
  BY <1>2 DEF InvLedger
<1>4. InvBoard'
  BY <1>2 DEF InvBoard
<1>5. InvReport'
  BY <1>2 DEF InvReport
<1>6. InvSummary'
  BY <1>2 DEF InvSummary, SummaryIsTrue
<1> QED BY <1>1, <1>3, <1>4, <1>5, <1>6

-----------------------------------------------------------------------------
(* The coordinator's accounts *)

LEMMA CoordinatingCases ==
  ASSUME Coordinating
  PROVE  \/ Prepare \/ Start \/ Submit \/ TellNotifier \/ TellDisplay \/ EndLoop \/ Finalize
         \/ \E r \in Runs : StartRun(r)
         \/ \E t \in Derived : StartTask(t)
         \/ \E t \in Tasks : Collect(t)
         \/ FinishNotifier \/ FinishDisplay \/ Abort \/ Signal
BY DEF Coordinating, Coordinate

LEMMA RecordedType ==
  ASSUME LedgerTypes, NEW t \in Tasks, answer[t] # None
  PROVE  Recorded(t) \in Statuses
BY DEF LedgerTypes, Recorded, Statuses

\* The callbacks that are made, as values
LEMMA CallbackSteps ==
  ASSUME LedgerTypes, InvLedger
  PROVE  /\ \A r \in Runs : StartRun(r) =>
              /\ callback' = [task |-> r, status |-> None, at |-> "notifier"]
              /\ callback' \in Callbacks /\ callback' # None
         /\ \A t \in Tasks : Collect(t) /\ t \in Runs =>
              /\ callback' = [task |-> t, status |-> Recorded(t), at |-> "notifier"]
              /\ callback' \in Callbacks /\ callback' # None
         /\ TellNotifier =>
              /\ callback' = [task |-> callback.task, status |-> callback.status, at |-> "display"]
              /\ callback' \in Callbacks /\ callback' # None
<1>1. \A c \in Callbacks : c # None
  BY SettingsAssumption DEF Callbacks
<1>2. ASSUME NEW r \in Runs, StartRun(r) PROVE callback' \in Callbacks
  BY <1>2 DEF StartRun, Callbacks
<1>3. ASSUME NEW t \in Tasks, Collect(t), t \in Runs
      PROVE  callback' = [task |-> t, status |-> Recorded(t), at |-> "notifier"] /\ callback' \in Callbacks
  BY <1>3, RecordedType DEF Collect, Callbacks
<1>4. ASSUME TellNotifier
      PROVE  /\ callback' = [task |-> callback.task, status |-> callback.status, at |-> "display"]
             /\ callback' \in Callbacks
  <2>1. callback \in Callbacks
    BY <1>4 DEF TellNotifier, LedgerTypes
  <2> QED BY <1>4, <2>1 DEF TellNotifier, Callbacks
<1> QED BY <1>1, <1>2, <1>3, <1>4 DEF StartRun

LEMMA LedgerTypesStep ==
  ASSUME LedgerTypes, InvLedger, Coordinating
  PROVE  LedgerTypes'
<1> USE DEF LedgerTypes, Early, Late
<1>1. CASE Prepare BY <1>1 DEF Prepare, work
<1>2. CASE Start BY <1>2 DEF Start, work
<1>3. CASE Submit
  <2>1. answer' \in [Tasks -> {None, "died"} \union Statuses]
    BY <1>3 DEF Submit, Statuses
  <2> QED BY <1>3, <2>1 DEF Submit, Enqueue, Broken
<1>4. CASE TellNotifier BY <1>4, CallbackSteps DEF TellNotifier, work
<1>5. CASE TellDisplay BY <1>5 DEF TellDisplay, work
<1>6. CASE EndLoop
  <2>1. IsFiniteSet(Unstarted(Runs))
    <3>1. Unstarted(Runs) \subseteq Runs /\ IsFiniteSet(Runs)
      BY DisplayAssumption DEF Unstarted
    <3> QED BY <3>1, FS_Subset
  <2>2. left' \in Nat
    BY <1>6, <2>1, FS_CardinalityType DEF EndLoop
  <2> QED BY <1>6, <2>2 DEF EndLoop, work
<1>7. CASE Finalize BY <1>7 DEF Finalize, work
<1>8. ASSUME NEW r \in Runs, StartRun(r) PROVE LedgerTypes'
  BY <1>8, CallbackSteps DEF StartRun, work, Unstarted
<1>9. ASSUME NEW t \in Derived, StartTask(t) PROVE LedgerTypes'
  BY <1>9 DEF StartTask, Enqueue, Broken, Unstarted
<1>10. ASSUME NEW t \in Tasks, Collect(t) PROVE LedgerTypes'
  <2>1. Recorded(t) \in Statuses
    BY <1>10, RecordedType DEF Collect
  <2>2. outcome' \in [Tasks -> {None} \union Statuses]
    BY <1>10, <2>1 DEF Collect
  <2>3. callback' \in {None} \union Callbacks
    BY <1>10, CallbackSteps DEF Collect
  <2> QED BY <1>10, <2>2, <2>3 DEF Collect, work
<1>11. CASE FinishNotifier BY <1>11 DEF FinishNotifier, MoveTo, work
<1>12. CASE FinishDisplay BY <1>12 DEF FinishDisplay, MoveTo, work
<1>13. CASE Abort BY <1>13 DEF Abort, work
<1>14. CASE Signal BY <1>14 DEF Signal, work
<1> QED BY <1>1, <1>2, <1>3, <1>4, <1>5, <1>6, <1>7, <1>8, <1>9, <1>10, <1>11, <1>12, <1>13, <1>14,
           CoordinatingCases

\* When the loop ends, every planned run has its outcome or was never started.
LEMMA LoopEnds ==
  ASSUME LedgerTypes, InvLedger, EndLoop
  PROVE  Total(RunCounts) + left' = Cardinality(Planned)
<1>1. Planned = EndedRuns \union Unstarted(Runs) /\ EndedRuns \intersect Unstarted(Runs) = {}
  BY DEF EndLoop, LedgerTypes, InvLedger, Planned, EndedRuns, Unstarted, InFlight, Tasks
<1>2. IsFiniteSet(EndedRuns) /\ IsFiniteSet(Unstarted(Runs))
  BY <1>1, Planning, FS_Subset
<1> QED BY <1>1, <1>2, Planning, DisjointUnion DEF EndLoop

LEMMA LedgerStep ==
  ASSUME LedgerTypes, InvLedger, Coordinating
  PROVE  InvLedger'
<1> USE DEF LedgerTypes, InvLedger, Early
<1>0. ASSUME UNCHANGED <<plan, outcome>>
      PROVE  RunCounts' = RunCounts /\ Planned' = Planned
  BY <1>0 DEF RunCounts, Planned
<1>1. CASE Prepare
  BY <1>0, <1>1 DEF Prepare, InFlight
<1>2. CASE Start
  BY <1>0, <1>2 DEF Start, InFlight
<1>3. CASE Submit
  BY <1>0, <1>3 DEF Submit, Enqueue, Broken, InFlight
<1>4. CASE TellNotifier
  <2>1. callback'.task = callback.task /\ callback'.status = callback.status /\ callback'.status # None
    BY <1>4, CallbackSteps DEF TellNotifier
  <2> QED BY <1>0, <1>4, <2>1 DEF TellNotifier, InFlight
<1>5. CASE TellDisplay
  BY <1>0, <1>5 DEF TellDisplay, InFlight
<1>6. CASE EndLoop
  BY <1>0, <1>6, LoopEnds DEF EndLoop, InFlight, Idle
<1>7. CASE Finalize
  BY <1>0, <1>7 DEF Finalize, InFlight
<1>8. ASSUME NEW r \in Runs, StartRun(r) PROVE InvLedger'
  <2>1. outcome[r] = None /\ r \notin cached
    BY <1>8 DEF StartRun, Unstarted, Tasks
  <2>2. callback' # None /\ callback'.task = r /\ callback'.status = None /\ callback'.at = "notifier"
    BY <1>8, CallbackSteps
  <2>3. phase = "schedule"
    BY <1>8 DEF StartRun, Idle
  <2> QED BY <1>0, <1>8, <2>1, <2>2, <2>3 DEF StartRun, Tasks
<1>9. ASSUME NEW t \in Derived, StartTask(t) PROVE InvLedger'
  BY <1>0, <1>9 DEF StartTask, Enqueue, Broken, Unstarted, Idle
<1>10. ASSUME NEW t \in Tasks, Collect(t) PROVE InvLedger'
  <2>1. t \in started /\ outcome' = [outcome EXCEPT ![t] = Recorded(t)] /\ outcome'[t] = Recorded(t)
    BY <1>10 DEF Collect, InFlight
  <2>2. phase = "schedule" /\ left = 0 /\ callback = None
    BY <1>10 DEF Collect, Idle
  <2>3. t \in Runs => callback'.task = t /\ callback'.status = Recorded(t) /\ callback'.at = "notifier"
    BY <1>10, CallbackSteps
  <2>4. UNCHANGED <<plan, phase, cached, started, left>> /\ (t \notin Runs => callback' = None)
    BY <1>10, <2>2 DEF Collect
  <2> QED BY <2>1, <2>2, <2>3, <2>4
<1>11. CASE FinishNotifier
  BY <1>0, <1>11 DEF FinishNotifier, MoveTo, InFlight
<1>12. CASE FinishDisplay
  BY <1>0, <1>12 DEF FinishDisplay, MoveTo, InFlight
<1>13. CASE Abort
  BY <1>0, <1>13 DEF Abort, InFlight
<1>14. CASE Signal
  BY <1>0, <1>14 DEF Signal, InFlight
<1> QED BY <1>1, <1>2, <1>3, <1>4, <1>5, <1>6, <1>7, <1>8, <1>9, <1>10, <1>11, <1>12, <1>13, <1>14,
           CoordinatingCases

-----------------------------------------------------------------------------
(* What the display holds *)

LEMMA BoardStep ==
  ASSUME LedgerTypes, InvLedger, InvBoard, InvReport, Coordinating
  PROVE  InvBoard'
<1> DEFINE Counted == counts' = CountsOf(outcome, Runs \ Untold)'
           Shown == /\ shownRuns' = ((InFlight \intersect Runs) \union Untold)'
                    /\ shownTasks' = (InFlight \intersect Derived)'
           Totals == phase' # "prepare" =>
                       total' = Cardinality(Planned') /\ taskTotal' = Cardinality((plan \ Runs)')
           Tasked == /\ taskCounts' \in [Statuses -> Nat]
                     /\ phase' \notin Late =>
                          Total(taskCounts') = Cardinality(cached') + Cardinality(EndedTasks')
<1> SUFFICES Shown /\ Counted /\ Totals /\ Tasked
  BY DEF InvBoard
<1>a. IsFiniteSet(EndedTasks)
  <2>1. EndedTasks \subseteq Derived /\ IsFiniteSet(Derived)
    BY DisplayAssumption DEF EndedTasks
  <2> QED BY <2>1, FS_Subset
<1>b. IsFiniteSet(cached) /\ Cardinality(cached) \in Nat /\ Cardinality(EndedTasks) \in Nat
  BY <1>a, Planning, FS_Subset, FS_CardinalityType DEF LedgerTypes
<1>c. ASSUME UNCHANGED <<plan, callback, cached, started, outcome, displayVars>>,
             phase' # "prepare" => phase # "prepare", phase' \notin Late => phase \notin Late
      PROVE  Shown /\ Counted /\ Totals /\ Tasked
  <2>1. /\ Untold' = Untold /\ InFlight' = InFlight /\ Planned' = Planned /\ EndedTasks' = EndedTasks
        /\ UNCHANGED <<shownRuns, shownTasks, counts, taskCounts, total, taskTotal, cached, outcome, plan>>
    BY <1>c DEF Untold, InFlight, Planned, EndedTasks, displayVars, counters
  <2> QED BY <1>c, <2>1 DEF InvBoard
<1>d. ASSUME UNCHANGED <<plan, cached, outcome, counters>>, InFlight' = InFlight,
             Untold' = Untold, phase # "prepare", phase' \notin Late => phase \notin Late
      PROVE  Shown /\ Counted /\ Totals /\ Tasked
  <2>1. /\ Planned' = Planned /\ EndedTasks' = EndedTasks
        /\ UNCHANGED <<shownRuns, shownTasks, counts, taskCounts, total, taskTotal>>
    BY <1>d DEF Planned, EndedTasks, counters
  <2> QED BY <1>d, <2>1 DEF InvBoard
<1>1. CASE Prepare
  <2>1. PICK reused \in SUBSET (plan \ Runs) : cached' = reused /\ Configure(reused)
    BY <1>1 DEF Prepare
  <2>2. Shown /\ Counted
    BY <1>1, <2>1 DEF Prepare, Configure, InvBoard, InFlight, Untold
  <2>3. Totals
    BY <1>1, <2>1 DEF Prepare, Configure, Planned
  <2>4. EndedTasks = {} /\ EndedTasks' = {} /\ cached = {}
    BY <1>1 DEF Prepare, InvLedger, EndedTasks, Tasks
  <2>5. Total(taskCounts) = 0
    BY <1>1, <2>4, FS_EmptySet DEF InvBoard, Prepare, Late
  <2>6. Cardinality(reused) \in Nat
    BY Planning, FS_Subset, FS_CardinalityType
  <2>7. taskCounts' = Add(taskCounts, "skipped", Cardinality(reused)) /\ taskCounts \in [Statuses -> Nat]
    BY <2>1 DEF Configure, InvBoard
  <2>8. taskCounts' \in [Statuses -> Nat] /\ Total(taskCounts') = Cardinality(reused)
    BY <2>5, <2>6, <2>7, AddTotal DEF Statuses
  <2>9. Tasked
    BY <2>1, <2>4, <2>6, <2>8, FS_EmptySet
  <2> QED BY <2>2, <2>3, <2>9
<1>2. CASE Start
  BY <1>2, <1>c DEF Start, Late
<1>3. CASE Submit
  BY <1>3, <1>d DEF Submit, Enqueue, Broken, Late, displayVars, InFlight, Untold, InvLedger
<1>4. CASE TellNotifier
  <2>1. callback' # None /\ callback'.task = callback.task /\ callback'.status # None
    BY <1>4, CallbackSteps DEF TellNotifier
  <2>2. Untold' = Untold
    BY <1>4, <2>1 DEF TellNotifier, Untold
  <2> QED BY <1>4, <2>2, <1>d DEF TellNotifier, displayVars, InFlight, InvLedger
<1>5. CASE TellDisplay
  <2> DEFINE r == callback.task
  <2>1. /\ callback # None /\ r \in Runs /\ outcome[r] = callback.status /\ outcome[r] \in Statuses
        /\ Untold = {r} /\ Untold' = {} /\ r \notin InFlight /\ phase = "schedule"
    BY <1>5 DEF TellDisplay, InvLedger, LedgerTypes, Callbacks, Untold, InFlight
  <2>2. /\ shownRuns' = shownRuns \ {r} /\ counts' = Add(counts, callback.status, 1)
        /\ UNCHANGED <<shownTasks, taskCounts, total, taskTotal, plan, phase, cached, outcome, started>>
    BY <1>5, <2>1 DEF TellDisplay, ShowFinished
  <2>3. Shown
    BY <2>1, <2>2 DEF InvBoard, InFlight
  <2>4. CountsOf(outcome, Runs) = Add(CountsOf(outcome, Runs \ {r}), outcome[r], 1)
    BY <2>1, Planning, CountsAdd
  <2>5. Counted
    <3>1. Runs \ {} = Runs
      OBVIOUS
    <3> QED BY <2>1, <2>2, <2>4, <3>1 DEF InvBoard
  <2>6. Planned' = Planned /\ EndedTasks' = EndedTasks
    BY <2>2 DEF Planned, EndedTasks
  <2> QED BY <2>2, <2>3, <2>5, <2>6 DEF InvBoard
<1>6. CASE EndLoop
  BY <1>6, <1>c DEF EndLoop, Late, Idle
<1>7. CASE Finalize
  <2>1. PICK found \in SUBSET Unstarted(Derived) : ReuseTasks(found) \/ UNCHANGED displayVars
    BY <1>7 DEF Finalize
  <2>2. IsFiniteSet(found) /\ Cardinality(found) \in Nat
    <3>1. found \subseteq Derived /\ IsFiniteSet(Derived)
      BY DisplayAssumption DEF Unstarted
    <3> QED BY <3>1, FS_Subset, FS_CardinalityType
  <2>3. taskCounts' \in [Statuses -> Nat]
    BY <2>1, <2>2, AddTotal DEF ReuseTasks, InvBoard, displayVars, counters, Statuses
  <2>4. UNCHANGED <<shownRuns, shownTasks, counts, total, taskTotal>>
    BY <2>1 DEF ReuseTasks, displayVars, counters
  <2>5. UNCHANGED <<plan, outcome, callback, started>> /\ phase = "finalize" /\ phase' = "finish"
    BY <1>7 DEF Finalize
  <2>6. Untold' = Untold /\ InFlight' = InFlight /\ Planned' = Planned
    BY <2>5 DEF Untold, InFlight, Planned
  <2> QED BY <2>3, <2>4, <2>5, <2>6 DEF InvBoard, Late
<1>8. ASSUME NEW r \in Runs, StartRun(r) PROVE Shown /\ Counted /\ Totals /\ Tasked
  <2>1. /\ shownRuns' = shownRuns \union {r}
        /\ UNCHANGED <<shownTasks, counts, taskCounts, total, taskTotal, plan, phase, cached, outcome>>
    BY <1>8 DEF StartRun, ShowStarted
  <2>2. r \in plan /\ outcome[r] = None /\ started' = started \union {r} /\ r \notin Derived
    BY <1>8, DisplayAssumption DEF StartRun, Unstarted, InvLedger, Tasks
  <2>3. Untold = {} /\ Untold' = {}
    BY <1>8, CallbackSteps DEF StartRun, Idle, Untold
  <2>4. Planned' = Planned /\ EndedTasks' = EndedTasks
    BY <2>1 DEF Planned, EndedTasks
  <2> QED BY <2>1, <2>2, <2>3, <2>4 DEF InvBoard, InFlight
<1>9. ASSUME NEW t \in Derived, StartTask(t) PROVE Shown /\ Counted /\ Totals /\ Tasked
  <2>1. t \in plan /\ outcome[t] = None /\ started' = started \union {t} /\ t \notin Runs
    BY <1>9, DisplayAssumption DEF StartTask, Unstarted, InvLedger, Tasks
  <2>2. /\ shownTasks' = shownTasks \union {t}
        /\ UNCHANGED <<shownRuns, counts, taskCounts, total, taskTotal, plan, cached, outcome, callback>>
        /\ phase = "schedule"
    BY <1>9, <2>1 DEF StartTask, ShowStarted, Idle
  <2>3. Planned' = Planned /\ EndedTasks' = EndedTasks /\ Untold' = Untold
    BY <2>2 DEF Planned, EndedTasks, Untold
  <2> QED BY <2>1, <2>2, <2>3 DEF InvBoard, InFlight, Late
<1>10. ASSUME NEW t \in Tasks, Collect(t) PROVE Shown /\ Counted /\ Totals /\ Tasked
  <2>1. /\ t \in started /\ outcome[t] = None /\ Recorded(t) \in Statuses /\ Recorded(t) # None
        /\ outcome' = [outcome EXCEPT ![t] = Recorded(t)]
        /\ UNCHANGED <<plan, phase, cached, started>> /\ phase = "schedule" /\ callback = None
    BY <1>10, RecordedType, SettingsAssumption DEF Collect, InFlight, Idle
  <2>2. InFlight' = InFlight \ {t} /\ t \in InFlight /\ Untold = {}
    BY <2>1 DEF InFlight, Untold, LedgerTypes
  <2>3. Planned' = Planned
    BY <2>1 DEF Planned
  <2>4. CASE t \in Runs
    <3>1. UNCHANGED <<shownRuns, shownTasks, counts, taskCounts, total, taskTotal>>
      BY <1>10, <2>4 DEF Collect, displayVars, counters
    <3>2. Untold' = {t}
      BY <1>10, <2>1, <2>4, CallbackSteps DEF Untold
    <3>3. t \notin Derived
      BY <2>4, DisplayAssumption
    <3>4. EndedTasks' = EndedTasks
      BY <2>1, <3>3 DEF EndedTasks, LedgerTypes
    <3>5. Shown
      BY <2>2, <2>4, <3>1, <3>2, <3>3 DEF InvBoard
    <3>6. CountsOf(outcome, Runs) = CountsOf(outcome', Runs \ {t})
      <4>1. \A s \in Statuses : {r \in Runs : outcome[r] = s} = {r \in Runs \ {t} : outcome'[r] = s}
        BY <2>1, SettingsAssumption DEF LedgerTypes, Tasks
      <4> QED BY <4>1, CountsSame
    <3>7. Counted
      <4>1. Runs \ {} = Runs
        OBVIOUS
      <4> QED BY <2>2, <3>1, <3>2, <3>6, <4>1 DEF InvBoard
    <3> QED BY <2>1, <2>3, <3>1, <3>4, <3>5, <3>7 DEF InvBoard
  <2>5. CASE t \notin Runs
    <3>1. t \in Derived
      BY <2>5 DEF Tasks
    <3>2. /\ shownTasks' = shownTasks \ {t} /\ taskCounts' = Add(taskCounts, Recorded(t), 1)
          /\ UNCHANGED <<shownRuns, counts, total, taskTotal, callback>>
      BY <1>10, <2>5 DEF Collect, ShowFinished
    <3>3. Untold' = {}
      BY <2>2, <3>2 DEF Untold
    <3>4. Shown
      BY <2>2, <2>5, <3>1, <3>2, <3>3 DEF InvBoard
    <3>5. CountsOf(outcome, Runs) = CountsOf(outcome', Runs)
      <4>1. \A s \in Statuses : {r \in Runs : outcome[r] = s} = {r \in Runs : outcome'[r] = s}
        BY <2>1, <2>5 DEF LedgerTypes, Tasks
      <4> QED BY <4>1, CountsSame
    <3>6. Counted
      <4>1. Runs \ {} = Runs
        OBVIOUS
      <4> QED BY <2>2, <3>2, <3>3, <3>5, <4>1 DEF InvBoard
    <3>7. EndedTasks' = EndedTasks \union {t} /\ t \notin EndedTasks
      BY <2>1, <3>1 DEF EndedTasks, LedgerTypes, Tasks
    <3>8. Cardinality(EndedTasks') = Cardinality(EndedTasks) + 1
      BY <1>a, <3>7, FS_AddElement
    <3>9. taskCounts' \in [Statuses -> Nat] /\ Total(taskCounts') = Total(taskCounts) + 1
      BY <2>1, <3>2, AddTotal DEF InvBoard
    <3> QED BY <1>b, <2>1, <2>3, <3>2, <3>4, <3>6, <3>8, <3>9 DEF InvBoard, Late
  <2> QED BY <2>4, <2>5
<1>11. CASE FinishNotifier
  BY <1>11, <1>c DEF FinishNotifier, MoveTo, Late
<1>12. CASE FinishDisplay
  <2>1. /\ UNCHANGED <<plan, callback, cached, started, outcome>> /\ phase # "prepare" /\ phase' \in Late
        /\ phase \in Late
    BY <1>12 DEF FinishDisplay, MoveTo, Late
  <2>2. Untold' = Untold /\ InFlight' = InFlight /\ Untold = {}
    BY <2>1 DEF Untold, InFlight, InvLedger, Late
  <2>3. CASE ~Exit(aborted)
    <3>1. UNCHANGED counters
      BY <1>12, <2>3 DEF FinishDisplay, Retain, Close, displayVars
    <3> QED BY <2>1, <2>2, <3>1, <1>d
  <2>4. CASE Exit(aborted)
    <3>1. UNCHANGED <<total, shownRuns, shownTasks, taskCounts, taskTotal>>
      BY <2>4 DEF Exit
    <3>2. counts' = IF told = None THEN counts ELSE told.counts
      BY <2>4 DEF Exit
    <3>3. told # None => told.counts = RunCounts
      BY SettingsAssumption DEF InvReport
    <3>4. RunCounts = CountsOf(outcome, Runs) /\ Runs \ {} = Runs
      BY Planning
    <3>5. counts' = counts
      BY <2>2, <3>2, <3>3, <3>4 DEF InvBoard
    <3> QED BY <2>1, <2>2, <3>1, <3>5, <1>d DEF counters
  <2> QED BY <2>3, <2>4
<1>13. CASE Abort
  BY <1>13, <1>c DEF Abort, Late
<1>14. CASE Signal
  BY <1>14, <1>c DEF Signal, Late
<1> QED BY <1>1, <1>2, <1>3, <1>4, <1>5, <1>6, <1>7, <1>8, <1>9, <1>10, <1>11, <1>12, <1>13, <1>14,
           CoordinatingCases

-----------------------------------------------------------------------------
(* Rows *)

LEMMA MaxIsMember ==
  ASSUME NEW n \in Nat, NEW S \in SUBSET (1..n), S # {}
  PROVE  Max(S) \in S
<1> DEFINE R == {p \in Nat \X Nat : p[1] < p[2]}
           M == {n - x : x \in S}
<1>1. IsWellFoundedOn(R, Nat)
  BY NatLessThanWellFounded DEF OpToRel
<1>2. \A x, y \in Nat : x < y => <<x, y>> \in R
  OBVIOUS
<1>3. M \in SUBSET Nat /\ M # {}
  <2>1. \A x \in S : n - x \in Nat
    OBVIOUS
  <2> QED BY <2>1
<1>4. PICK m \in M : \A y \in M : <<y, m>> \notin R
  <2> HIDE DEF R, M
  <2> QED BY <1>1, <1>3, WFMin, Zenon
<1>5. \A y \in M : y >= m
  <2> HIDE DEF R
  <2>1. \A y \in M : ~(y < m)
    BY <1>2, <1>3, <1>4
  <2> QED BY <1>3, <2>1
<1>6. PICK x \in S : m = n - x
  OBVIOUS
<1>7. \A y \in S : x >= y
  <2> TAKE y \in S
  <2>1. n - y >= m
    BY <1>5
  <2> QED BY <1>6, <2>1
<1> QED BY <1>7 DEF Max

\* What a drain puts into a row is a snapshot of a task that has not ended.
LEMMA DrainedRows ==
  ASSUME NEW k \in Arrivals, NEW p \in Workers
  PROVE  Drained(k)[p] = rows[p] \/ Drained(k)[p].task \in shownRuns \union shownTasks
<1> DEFINE A == Accepted(p, k[p])
<1>1. k[p] \in Nat /\ A \in SUBSET (1..k[p])
  BY DisplayAssumption DEF Arrivals, Accepted
<1>2. A # {} => Max(A) \in A
  BY <1>1, MaxIsMember
<1>3. \A i \in A : sent[p][i].task \in shownRuns \union shownTasks
  BY DEF Accepted
<1>4. Drained(k)[p] = IF A = {} THEN rows[p] ELSE sent[p][Max(A)]
  BY DEF Drained
<1> QED BY <1>2, <1>3, <1>4

Telling(row, o, shown) == row # None /\ row.task \notin shown => row.status = o[row.task]

LEMMA RowsStep ==
  ASSUME LedgerTypes, InvLedger, InvBoard, RowsTellOutcomes, Next
  PROVE  RowsTellOutcomes'
<1> DEFINE Shown == shownRuns \union shownTasks
<1>0. /\ RowsTellOutcomes <=> \A p \in Workers : Telling(rows[p], outcome, Shown)
      /\ RowsTellOutcomes' <=> \A p \in Workers : Telling(rows'[p], outcome', Shown')
  BY DEF RowsTellOutcomes, Telling
<1>a. \A k \in Arrivals, p \in Workers : Telling(Drained(k)[p], outcome, Shown)
  BY <1>0, DrainedRows DEF Telling
<1>b. ASSUME outcome' = outcome, Shown \subseteq Shown',
             rows' = rows \/ \E k \in Arrivals : rows' = Drained(k)
      PROVE  RowsTellOutcomes'
  BY <1>0, <1>a, <1>b DEF Telling
\* The row of a task that ends tells how, and no other row is concerned.
<1>c. ASSUME NEW t \in Shown, NEW s, NEW k \in Arrivals, rows' = Marked(Drained(k), t, s),
             Shown' = Shown \ {t}, outcome'[t] = s, \A u : u # t => outcome'[u] = outcome[u]
      PROVE  RowsTellOutcomes'
  <2> SUFFICES ASSUME NEW p \in Workers PROVE Telling(rows'[p], outcome', Shown')
    BY <1>0
  <2>1. Telling(Drained(k)[p], outcome, Shown)
    BY <1>a
  <2>2. rows'[p] = IF Drained(k)[p] # None /\ Drained(k)[p].task = t
                   THEN [task |-> t, status |-> s] ELSE Drained(k)[p]
    BY <1>c DEF Marked
  <2> QED BY <1>c, <2>1, <2>2 DEF Telling
<1>1. CASE Apart /\ (rows' = rows \/ \E k \in Arrivals : rows' = Drained(k))
  BY <1>1, <1>b DEF Apart, counters, coordinator
<1>2. ASSUME UNCHANGED <<outcome, displayVars>> PROVE RowsTellOutcomes'
  BY <1>2, <1>b DEF displayVars, counters, screen
<1>3. CASE Coordinating
  <2>1. CASE Prepare \/ Start \/ Submit \/ TellNotifier \/ EndLoop \/ Finalize \/ Abort \/ Signal
    <3>1. outcome' = outcome /\ UNCHANGED <<rows, shownRuns, shownTasks>>
      BY <2>1 DEF Prepare, Start, Submit, TellNotifier, EndLoop, Finalize, Abort, Signal, Configure,
                  ReuseTasks, displayVars, counters, screen
    <3> QED BY <1>b, <3>1
  <2>2. CASE TellDisplay
    <3> DEFINE t == callback.task
    <3>1. t \in Runs /\ callback.status = outcome[t] /\ t \in shownRuns /\ t \notin Derived
      BY <2>2, DisplayAssumption DEF TellDisplay, InvLedger, LedgerTypes, Callbacks, InvBoard, Untold
    <3>2. PICK k \in Arrivals :
            /\ rows' = Marked(Drained(k), t, callback.status)
            /\ shownRuns' = shownRuns \ {t} /\ UNCHANGED <<shownTasks, outcome>>
      BY <2>2, <3>1 DEF TellDisplay, ShowFinished
    <3>3. t \notin shownTasks
      BY <3>1 DEF InvBoard
    <3> QED BY <1>c, <3>1, <3>2, <3>3
  <2>3. ASSUME NEW t \in Tasks, StartRun(t) \/ StartTask(t) PROVE RowsTellOutcomes'
    <3>1. /\ outcome' = outcome /\ rows' = rows
          /\ shownRuns \subseteq shownRuns' /\ shownTasks \subseteq shownTasks'
      BY <2>3 DEF StartRun, StartTask, ShowStarted, screen
    <3> QED BY <1>b, <3>1
  <2>4. ASSUME NEW t \in Tasks, Collect(t) PROVE RowsTellOutcomes'
    <3>1. /\ t \in InFlight /\ outcome' = [outcome EXCEPT ![t] = Recorded(t)]
          /\ outcome'[t] = Recorded(t) /\ \A u : u # t => outcome'[u] = outcome[u]
      BY <2>4 DEF Collect, LedgerTypes
    <3>2. CASE t \in Runs
      <4>1. t \in Shown /\ rows' = rows /\ Shown' = Shown
        BY <2>4, <3>1, <3>2 DEF Collect, InvBoard, displayVars, counters, screen
      <4> QED BY <1>0, <3>1, <4>1 DEF Telling
    <3>3. CASE t \notin Runs
      <4>1. t \in shownTasks /\ t \notin shownRuns
        BY <2>4, <3>1, <3>3 DEF InvBoard, Tasks, Untold, Collect, Idle
      <4>2. PICK k \in Arrivals :
              /\ rows' = Marked(Drained(k), t, Recorded(t))
              /\ shownTasks' = shownTasks \ {t} /\ UNCHANGED shownRuns
        BY <2>4, <3>3 DEF Collect, ShowFinished
      <4> QED BY <1>c, <3>1, <4>1, <4>2
    <3> QED BY <3>2, <3>3
  <2>5. CASE FinishNotifier
    BY <1>2, <2>5 DEF FinishNotifier, MoveTo
  <2>6. CASE FinishDisplay
    <3>1. /\ UNCHANGED <<outcome, shownRuns, shownTasks>>
          /\ rows' = rows \/ \E k \in Arrivals : rows' = Drained(k)
      BY <2>6 DEF FinishDisplay, MoveTo, Retain, Close, Exit, displayVars, counters, screen
    <3> QED BY <1>b, <3>1
  <2> QED BY <1>3, <2>1, <2>2, <2>3, <2>4, <2>5, <2>6, CoordinatingCases DEF Tasks
<1> QED BY <1>1, <1>3, StepsSplit

-----------------------------------------------------------------------------
(* The report and the summary *)

\* What finalize() counts: nothing is missing only if every derived task was
\* reused, ended, or is found complete, and then all of them are counted.
LEMMA FinalizeCounts ==
  ASSUME LedgerTypes, InvLedger, InvBoard, InvReport, Finalize
  PROVE  InvReport'
<1> USE DEF LedgerTypes
<1>1. PICK found \in SUBSET Unstarted(Derived) :
        /\ report' = [counts |-> RunCounts, pending |-> left, interrupted |-> stop,
                      pendingTasks |-> Cardinality(Missing(found))]
        /\ IF Finalizable(found) THEN ReuseTasks(found) ELSE UNCHANGED displayVars
  BY DEF Finalize
<1>2. /\ phase = "finalize" /\ phase' = "finish" /\ InFlight = {}
      /\ UNCHANGED <<plan, aborted, cached, started, outcome, left>>
  BY DEF Finalize, InvLedger
<1>3. told = None /\ told' = told /\ shownTasks' = shownTasks /\ taskTotal' = taskTotal
  <2>1. told = None
    BY <1>2 DEF InvReport, Late
  <2> QED BY <1>1, <2>1 DEF ReuseTasks, displayVars, screen, counters
<1>4. Missing(found) \subseteq plan \ Runs /\ found \subseteq plan \ Runs
  BY DisplayAssumption DEF Missing, Unstarted
<1>5. IsFiniteSet(Missing(found)) /\ Cardinality(Missing(found)) \in Nat
  BY <1>4, Planning, FS_Subset, FS_CardinalityType
<1>6. report' # None
  BY <1>1, <1>5, Planning, SettingsAssumption
<1>7. RunCounts' = RunCounts /\ Planned' = Planned /\ (AllRunsThere' <=> AllRunsThere)
  BY <1>2 DEF RunCounts, Planned, AllRunsThere
<1>8. Total(RunCounts) + left = Cardinality(Planned)
  BY <1>2 DEF InvLedger
<1>9. ASSUME Cardinality(Missing(found)) = 0
      PROVE  \A t \in plan \ Runs : t \in cached \/ t \in found \/ outcome[t] = "completed"
  <2>1. Missing(found) = {}
    BY <1>5, <1>9, FS_EmptySet
  <2> QED BY <2>1 DEF Missing
<1>10. \A t \in cached \union found : outcome[t] = None
  BY <1>4 DEF InvLedger, Unstarted
<1>11. Cardinality(Missing(found)) = 0 => \A t \in plan \ Runs : outcome[t] \in {None, "completed"}
  BY <1>9, <1>10
<1>12. ASSUME Cardinality(Missing(found)) = 0, AllRunsThere
       PROVE  shownTasks' = {} /\ taskTotal' <= Total(taskCounts')
  <2>1. Finalizable(found)
    BY <1>5, <1>12, FS_EmptySet DEF Finalizable, AllRunsThere
  <2>2. taskCounts' = Add(taskCounts, "skipped", Cardinality(found))
    BY <1>1, <2>1 DEF ReuseTasks
  <2>3. /\ IsFiniteSet(found) /\ IsFiniteSet(cached) /\ IsFiniteSet(EndedTasks)
        /\ Cardinality(found) \in Nat
    <3>1. EndedTasks \subseteq Derived /\ IsFiniteSet(Derived)
      BY DisplayAssumption DEF EndedTasks
    <3> QED BY <1>4, <3>1, Planning, FS_Subset, FS_CardinalityType
  <2>4. Total(taskCounts') = Total(taskCounts) + Cardinality(found)
    BY <2>2, <2>3, AddTotal DEF InvBoard, Statuses
  <2>5. Total(taskCounts) = Cardinality(cached) + Cardinality(EndedTasks)
    BY <1>2 DEF InvBoard, Late
  <2>6. /\ IsFiniteSet(cached \union EndedTasks)
        /\ Cardinality(cached \union EndedTasks) = Cardinality(cached) + Cardinality(EndedTasks)
    <3>1. cached \intersect EndedTasks = {}
      BY <1>10, SettingsAssumption DEF EndedTasks
    <3> QED BY <2>3, <3>1, DisjointUnion
  <2>7. /\ IsFiniteSet((cached \union EndedTasks) \union found)
        /\ Cardinality((cached \union EndedTasks) \union found) =
             Cardinality(cached \union EndedTasks) + Cardinality(found)
    <3>1. (cached \union EndedTasks) \intersect found = {}
      BY <1>10 DEF EndedTasks, Unstarted
    <3> QED BY <2>3, <2>6, <3>1, DisjointUnion
  <2>8. plan \ Runs \subseteq (cached \union EndedTasks) \union found
    BY <1>9, <1>12, SettingsAssumption DEF EndedTasks, Statuses, Tasks
  <2>9. Cardinality(plan \ Runs) <= Cardinality((cached \union EndedTasks) \union found)
    BY <2>7, <2>8, FS_Subset
  <2>10. taskTotal = Cardinality(plan \ Runs) /\ shownTasks = {}
    BY <1>2 DEF InvBoard
  <2> QED BY <1>3, <2>4, <2>5, <2>6, <2>7, <2>9, <2>10
<1>13. /\ report'.counts = RunCounts /\ report'.pending = left
       /\ report'.pendingTasks = Cardinality(Missing(found))
  BY <1>1
<1> QED BY <1>2, <1>3, <1>5, <1>6, <1>7, <1>8, <1>11, <1>12, <1>13 DEF InvReport, Late

LEMMA ReportStep ==
  ASSUME LedgerTypes, InvLedger, InvBoard, InvReport, Coordinating
  PROVE  InvReport'
<1> USE DEF LedgerTypes
\* Before it ends there is no report, and nothing that happens is about it.
<1>1. ASSUME phase \notin Late, phase' \notin Late \/ aborted', UNCHANGED <<report, told>>
      PROVE  InvReport'
  BY <1>1 DEF InvReport, Late
<1>2. ASSUME UNCHANGED <<plan, aborted, outcome, left, report, counters>>, phase \in Late, phase' \in Late
      PROVE  /\ RunCounts' = RunCounts /\ Planned' = Planned /\ (AllRunsThere' <=> AllRunsThere)
             /\ UNCHANGED <<shownTasks, taskTotal, taskCounts>>
  BY <1>2 DEF RunCounts, Planned, AllRunsThere, counters
<1>3. CASE Prepare \/ Start \/ Submit \/ TellNotifier \/ TellDisplay \/ EndLoop \/ Abort \/ Signal
  <2>1. phase \notin Late /\ UNCHANGED <<report, told>>
    BY <1>3 DEF Prepare, Start, Submit, TellNotifier, TellDisplay, EndLoop, Abort, Signal, Idle,
                Configure, ShowFinished, displayVars, screen, Late, InvLedger
  <2>2. phase' \notin Late \/ aborted'
    BY <1>3, <2>1 DEF Prepare, Start, Submit, Enqueue, TellNotifier, TellDisplay, EndLoop, Abort, Signal, Late
  <2> QED BY <1>1, <2>1, <2>2
<1>4. ASSUME NEW t \in Tasks, StartRun(t) \/ StartTask(t) \/ Collect(t) PROVE InvReport'
  <2>1. phase \notin Late /\ UNCHANGED <<report, told>>
    BY <1>4 DEF StartRun, StartTask, Collect, Idle, ShowStarted, ShowFinished, displayVars, screen, Late
  <2>2. phase' \notin Late \/ aborted'
    BY <1>4, <2>1 DEF StartRun, StartTask, Collect, Enqueue, Late
  <2> QED BY <1>1, <2>1, <2>2
<1>5. CASE Finalize
  BY <1>5, FinalizeCounts
<1>6. CASE FinishNotifier
  <2>1. UNCHANGED <<plan, aborted, outcome, left, report, counters, told>>
    BY <1>6 DEF FinishNotifier, MoveTo, displayVars, screen
  <2>2. phase \in Late /\ phase' \in {"set", "join", "report"}
    BY <1>6 DEF FinishNotifier, MoveTo, Late
  <2>3. phase' \in Late /\ phase' \notin {"close", "exit", "ended"}
    BY <2>2 DEF Late
  <2> QED BY <1>2, <2>1, <2>2, <2>3 DEF InvReport
<1>7. CASE FinishDisplay
  <2>1. UNCHANGED <<plan, aborted, outcome, left, report>> /\ phase \in Late /\ phase' \in Late
    BY <1>7 DEF FinishDisplay, MoveTo, Late
  <2>2. UNCHANGED <<shownTasks, taskTotal, taskCounts>>
    BY <1>7 DEF FinishDisplay, Retain, Close, Exit, displayVars, counters
  <2>3. RunCounts' = RunCounts /\ Planned' = Planned /\ (AllRunsThere' <=> AllRunsThere)
    BY <2>1 DEF RunCounts, Planned, AllRunsThere
  <2>4. phase' \in {"close", "exit", "ended"} /\ (~aborted => told' = report) /\ (told' # None => told' = report)
    BY <1>7 DEF FinishDisplay, MoveTo, Retain, Close, Exit, InvReport, displayVars, screen
  <2> QED BY <2>1, <2>2, <2>3, <2>4 DEF InvReport
<1> QED BY <1>3, <1>4, <1>5, <1>6, <1>7, CoordinatingCases DEF Tasks

\* If the outcomes add up to the plan and none failed or paused, all are there.
LEMMA AllEnded ==
  ASSUME LedgerTypes, InvLedger, RunCounts["failed"] = 0, RunCounts["paused"] = 0,
         Total(RunCounts) = Cardinality(Planned)
  PROVE  AllRunsThere
<1>1. EndedRuns = Planned
  BY Planning, FS_Subset
<1>2. /\ Cardinality({r \in Runs : outcome[r] = "failed"}) = 0
      /\ Cardinality({r \in Runs : outcome[r] = "paused"}) = 0
  BY DEF RunCounts, Statuses
<1>3. \A S \in SUBSET Runs : Cardinality(S) = 0 => S = {}
  BY Planning, FS_Subset, FS_EmptySet
<1>4. \A r \in Runs : outcome[r] \notin {"failed", "paused"}
  BY <1>2, <1>3
<1> QED BY <1>1, <1>4 DEF AllRunsThere, EndedRuns, LedgerTypes, Statuses, Tasks, Planned

\* The last line is taken from the report; without one, the invocation was aborted
\* and the line adds what is queued and what is running.
LEMMA ExitTells ==
  ASSUME LedgerTypes, InvLedger, InvBoard, InvReport, phase = "exit", Exit(aborted),
         UNCHANGED <<plan, outcome, aborted>>
  PROVE  SummaryIsTrue'
<1> DEFINE tally == IF told = None THEN counts ELSE told.counts
           rest == IF told = None THEN Queued + Cardinality(shownRuns) ELSE told.pending
<1>1. summary' = [status |-> StatusText(aborted, tally, rest), counts |-> tally,
                  pending |-> rest, analysis |-> DerivedPending]
  BY DEF Exit
<1>2. RunCounts' = RunCounts /\ Planned' = Planned
  BY DEF RunCounts, Planned
<1>3. callback = None /\ Untold = {} /\ Runs \ {} = Runs /\ phase \in Late
  BY DEF InvLedger, Untold, Late
<1>4. counts = RunCounts /\ shownRuns = InFlight \intersect Runs /\ total = Cardinality(Planned)
  BY <1>3, Planning DEF InvBoard
<1>5. told # None => /\ told.counts = RunCounts /\ told.pending = left
                     /\ Total(RunCounts) + left = Cardinality(Planned)
  BY DEF InvReport
<1>6. tally = RunCounts
  BY <1>4, <1>5
<1>7. told = None => Total(RunCounts) + rest = Cardinality(Planned)
  <2>1. EndedRuns \union shownRuns \subseteq Planned /\ EndedRuns \intersect shownRuns = {}
    BY <1>4 DEF InFlight, EndedRuns, Planned, LedgerTypes, InvLedger, Tasks
  <2>2. IsFiniteSet(shownRuns) /\ IsFiniteSet(EndedRuns)
    BY <2>1, Planning, FS_Subset
  <2>3. /\ Cardinality(EndedRuns \union shownRuns) = Total(RunCounts) + Cardinality(shownRuns)
        /\ Cardinality(shownRuns) \in Nat /\ Total(RunCounts) \in Nat
    BY <2>1, <2>2, Planning, DisjointUnion
  <2>4. Total(RunCounts) + Cardinality(shownRuns) <= Cardinality(Planned)
    BY <2>1, <2>3, Planning, FS_Subset
  <2> QED BY <1>4, <2>3, <2>4, Planning DEF Queued, Minus
<1>8. Total(RunCounts) + rest = Cardinality(Planned)
  BY <1>5, <1>7
<1>9. ASSUME StatusText(aborted, tally, rest) = "Completed"
      PROVE  /\ AllRunsThere /\ ~DerivedPending
             /\ \A t \in plan \ Runs : outcome[t] \in {None, "completed"}
  <2>1. /\ ~aborted /\ ~(tally["failed"] > 0) /\ ~(rest > 0) /\ ~(tally["paused"] > 0)
        /\ told # None => ~(told.pendingTasks > 0)
    BY <1>9 DEF StatusText
  <2>2. told # None /\ told = report /\ told.pendingTasks = 0 /\ rest = left
    BY <1>3, <1>5, <2>1 DEF InvReport
  <2>3. AllRunsThere
    <3>1. RunCounts["failed"] = 0 /\ RunCounts["paused"] = 0 /\ left = 0
      BY <1>6, <2>1, <2>2, Planning DEF Statuses, LedgerTypes
    <3> QED BY <1>8, <2>2, <3>1, Planning, AllEnded
  <2>4. shownTasks = {} /\ taskTotal <= Total(taskCounts)
    BY <2>2, <2>3 DEF InvReport
  <2>5. taskTotal \in Nat /\ Total(taskCounts) \in Nat
    <3>1. taskTotal = Cardinality(plan \ Runs)
      BY DEF InvBoard
    <3>2. 0 \in Nat /\ "skipped" \in Statuses
      BY DEF Statuses
    <3> QED BY <3>1, <3>2, Planning, AddTotal DEF InvBoard
  <2>6. ~DerivedPending
    BY <2>4, <2>5 DEF DerivedPending
  <2> QED BY <2>2, <2>3, <2>6 DEF InvReport
<1> HIDE DEF tally, rest
<1>10. ~DerivedPending => summary'.analysis = FALSE
  BY <1>1
<1> QED BY <1>1, <1>2, <1>6, <1>8, <1>9, <1>10 DEF SummaryIsTrue, AllRunsThere

LEMMA SummaryStep ==
  ASSUME LedgerTypes, InvLedger, InvBoard, InvReport, InvSummary, Coordinating
  PROVE  InvSummary'
<1>1. CASE summary' = summary
  <2>1. phase # "ended"
    BY CoordinatingCases DEF Prepare, Start, Submit, TellNotifier, TellDisplay, EndLoop, Finalize, StartRun,
       StartTask, Collect, Idle, FinishNotifier, FinishDisplay, Abort, Signal, InvLedger,
       GiveReport, MoveTo
  <2> QED BY <1>1, <2>1 DEF InvSummary, SummaryIsTrue
<1>2. CASE summary' # summary
  <2>1. FinishDisplay
    BY <1>2, CoordinatingCases DEF Prepare, Start, Submit, TellNotifier, TellDisplay, EndLoop, Finalize, StartRun,
       StartTask, Collect, FinishNotifier, Abort, Signal, displayVars, screen, Configure, ShowStarted,
       ShowFinished, ReuseTasks
  <2>2. phase = "exit" /\ Exit(aborted) /\ MoveTo("ended")
    BY <1>2, <2>1 DEF FinishDisplay, Retain, Close, displayVars, screen
  <2> QED BY <2>2, ExitTells DEF InvSummary, MoveTo
<1> QED BY <1>1, <1>2

-----------------------------------------------------------------------------
(* What the notifier holds *)

\* Runs that are counted and runs that are active never exceed the plan.
LEMMA BooksBound ==
  ASSUME NEW P \in SUBSET Runs, NEW o, NEW a \in SUBSET P, NEW u,
         \A r \in Runs : o[r] \in {None} \union Statuses,
         \A r \in Runs : o[r] # None => r \in P,
         \A r \in a : o[r] = None \/ r \in u
  PROVE  /\ CountsOf(o, Runs \ u) \in [Statuses -> Nat]
         /\ Total(CountsOf(o, Runs \ u)) + Cardinality(a) <= Cardinality(P)
<1> DEFINE E == {r \in Runs \ u : o[r] # None}
<1>1. IsFiniteSet(Runs \ u) /\ IsFiniteSet(P) /\ IsFiniteSet(a)
  BY DisplayAssumption, FS_Subset
<1>2. /\ CountsOf(o, Runs \ u) \in [Statuses -> Nat] /\ IsFiniteSet(E)
      /\ Total(CountsOf(o, Runs \ u)) = Cardinality(E)
  BY <1>1, CountsTotal
<1>3. E \intersect a = {} /\ E \union a \subseteq P
  OBVIOUS
<1>4. Cardinality(E \union a) = Cardinality(E) + Cardinality(a)
  BY <1>1, <1>2, <1>3, DisjointUnion
<1>5. Cardinality(E \union a) <= Cardinality(P)
  BY <1>1, <1>3, FS_Subset
<1> QED BY <1>2, <1>4, <1>5

LEMMA NotifierFrame ==
  ASSUME InvNotifier, UNCHANGED <<plan, outcome, callback, started, books, finished>>, enabled' => enabled,
         final # None => aborted' = aborted /\ phase' \in Late \ {"finish"}
  PROVE  InvNotifier'
<1>1. /\ Planned' = Planned /\ RunCounts' = RunCounts /\ InFlight' = InFlight
      /\ Unheard' = Unheard /\ Unannounced' = Unannounced
  BY DEF Planned, RunCounts, InFlight, Unheard, Unannounced
<1> QED BY <1>1 DEF InvNotifier, books

\* A callback that the notifier is told of, or that concerns it not
LEMMA NotifierBooks ==
  ASSUME LedgerTypes', InvLedger', InvNotifier, UNCHANGED <<plan, final, finished, enabled>>, phase \notin Late,
         ~enabled => UNCHANGED <<known, activeRuns>>,
         enabled => /\ known' = CountsOf(outcome', Runs \ Unheard')
                    /\ activeRuns' = ((InFlight' \intersect Runs) \ Unannounced') \union Unheard'
  PROVE  InvNotifier'
<1>1. Planned' = Planned
  BY DEF Planned
<1>2. final = None /\ ~finished
  BY DEF InvNotifier
<1>3. CASE ~enabled
  BY <1>1, <1>2, <1>3 DEF InvNotifier
<1>4. CASE enabled
  <2>1. /\ Unheard' \subseteq Planned' /\ InFlight' \intersect Runs \subseteq Planned'
        /\ \A r \in Runs : outcome'[r] # None => r \in Planned'
        /\ \A r \in Runs : outcome'[r] \in {None} \union Statuses
    BY DEF Unheard, InFlight, InvLedger, LedgerTypes, Callbacks, Planned, Tasks
  <2>2. activeRuns' \subseteq Planned'
    BY <1>4, <2>1
  <2>3. \A r \in activeRuns' : outcome'[r] = None \/ r \in Unheard'
    BY <1>4 DEF InFlight
  <2>4. Planned' \subseteq Runs
    BY DEF Planned
  <2>5. PICK P, o, a, u : P = Planned' /\ o = outcome' /\ a = activeRuns' /\ u = Unheard'
    OBVIOUS
  <2>6. /\ P \in SUBSET Runs /\ a \in SUBSET P /\ \A r \in Runs : o[r] # None => r \in P
        /\ \A r \in Runs : o[r] \in {None} \union Statuses
        /\ \A r \in a : o[r] = None \/ r \in u
    BY <2>1, <2>2, <2>3, <2>4, <2>5
  <2>7. /\ CountsOf(o, Runs \ u) \in [Statuses -> Nat]
        /\ Total(CountsOf(o, Runs \ u)) + Cardinality(a) <= Cardinality(P)
    BY <2>6, BooksBound
  <2>8. /\ known' \in [Statuses -> Nat]
        /\ Total(known') + Cardinality(activeRuns') <= Cardinality(Planned')
    BY <1>4, <2>5, <2>7
  <2> QED BY <1>2, <1>4, <2>2, <2>8 DEF InvNotifier
<1> QED BY <1>3, <1>4

LEMMA NotifierStep ==
  ASSUME LedgerTypes, InvLedger, InvReport, InvNotifier, Coordinating
  PROVE  InvNotifier'
<1>0. LedgerTypes' /\ InvLedger'
  BY LedgerTypesStep, LedgerStep
<1>1. CASE Prepare \/ Start \/ EndLoop \/ Finalize \/ Abort \/ Signal
  <2>1. phase \notin Late /\ UNCHANGED <<plan, outcome, callback, started, books, finished>> /\ (enabled' => enabled)
    BY <1>1 DEF Prepare, Start, EndLoop, Finalize, Abort, Signal, Idle, Late, notifierVars, flags, delivery, StartSender
  <2>2. final = None
    BY <2>1 DEF InvNotifier
  <2> QED BY <2>1, <2>2, NotifierFrame
<1>2. CASE Submit
  <2> DEFINE r == callback.task
  <2>1. /\ r \in Runs /\ r \in InFlight /\ phase \notin Late
        /\ Unheard = {} /\ Unheard' = {} /\ Unannounced = {r} /\ Unannounced' = {} /\ InFlight' = InFlight
    BY <1>2 DEF Submit, InvLedger, LedgerTypes, Callbacks, Unheard, Unannounced, InFlight, Late
  <2>2. /\ UNCHANGED <<plan, outcome, known, final, finished, enabled>>
        /\ activeRuns' = IF enabled THEN activeRuns \union {r} ELSE activeRuns
    BY <1>2 DEF Submit, NotifyStarted, flags, delivery
  <2>3. enabled => activeRuns' = ((InFlight' \intersect Runs) \ Unannounced') \union Unheard'
    BY <2>1, <2>2 DEF InvNotifier
  <2> QED BY <1>0, <2>1, <2>2, <2>3, NotifierBooks DEF InvNotifier
<1>3. CASE TellNotifier
  <2> DEFINE r == callback.task
  <2>1. /\ r \in Runs /\ r \notin InFlight /\ phase \notin Late
        /\ outcome[r] = callback.status /\ outcome[r] \in Statuses
        /\ Unheard = {r} /\ Unannounced = {}
    BY <1>3 DEF TellNotifier, InvLedger, LedgerTypes, Callbacks, Unheard, Unannounced, InFlight, Late
  <2>2. callback'.at = "display" /\ callback'.status # None
    BY <1>3, CallbackSteps DEF TellNotifier
  <2>3. Unheard' = {} /\ Unannounced' = {} /\ InFlight' = InFlight
    BY <1>3, <2>2 DEF TellNotifier, Unheard, Unannounced, InFlight
  <2>4. /\ UNCHANGED <<plan, outcome, final, finished, enabled>>
        /\ IF enabled THEN activeRuns' = activeRuns \ {r} /\ known' = Add(known, outcome[r], 1)
                      ELSE UNCHANGED <<activeRuns, known>>
    BY <1>3, <2>1 DEF TellNotifier, NotifyFinished, flags, delivery
  <2>5. enabled => activeRuns' = ((InFlight' \intersect Runs) \ Unannounced') \union Unheard'
    BY <2>1, <2>3, <2>4 DEF InvNotifier
  <2>6. enabled => known' = CountsOf(outcome', Runs \ Unheard')
    <3>1. CountsOf(outcome, Runs) = Add(CountsOf(outcome, Runs \ {r}), outcome[r], 1)
      BY <2>1, Planning, CountsAdd
    <3>2. Runs \ {} = Runs
      OBVIOUS
    <3> QED BY <2>1, <2>3, <2>4, <3>1, <3>2 DEF InvNotifier
  <2> QED BY <1>0, <2>1, <2>4, <2>5, <2>6, NotifierBooks
<1>4. CASE TellDisplay
  <2>1. /\ Unheard = {} /\ Unheard' = {} /\ Unannounced = {} /\ Unannounced' = {} /\ InFlight' = InFlight
        /\ phase \notin Late /\ UNCHANGED <<plan, outcome, known, activeRuns, final, finished, enabled>>
    BY <1>4 DEF TellDisplay, InvLedger, Unheard, Unannounced, InFlight, Late, notifierVars, books, flags, delivery
  <2> QED BY <1>0, <2>1, NotifierBooks DEF InvNotifier
<1>5. ASSUME NEW r \in Runs, StartRun(r) PROVE InvNotifier'
  <2>1. /\ started' = started \union {r} /\ r \notin started /\ outcome[r] = None /\ phase \notin Late
        /\ UNCHANGED <<plan, outcome, known, activeRuns, final, finished, enabled>> /\ callback = None
    BY <1>5 DEF StartRun, Unstarted, InvLedger, Idle, Late, notifierVars, books, flags, delivery, Tasks
  <2>2. InFlight' = InFlight \union {r} /\ r \notin InFlight
    BY <2>1 DEF InFlight
  <2>3. Unheard = {} /\ Unheard' = {} /\ Unannounced = {} /\ Unannounced' = {r}
    BY <1>5, <2>1, CallbackSteps DEF Unheard, Unannounced
  <2> QED BY <1>0, <2>1, <2>2, <2>3, NotifierBooks DEF InvNotifier
<1>6. ASSUME NEW t \in Derived, StartTask(t) PROVE InvNotifier'
  <2>1. /\ started' = started \union {t} /\ t \notin Runs /\ phase \notin Late
        /\ UNCHANGED <<plan, outcome, callback, known, activeRuns, final, finished, enabled>>
    BY <1>6, DisplayAssumption DEF StartTask, Idle, Late, notifierVars, books, flags, delivery
  <2>2. InFlight' \intersect Runs = InFlight \intersect Runs /\ Unheard' = Unheard /\ Unannounced' = Unannounced
    BY <2>1 DEF InFlight, Unheard, Unannounced
  <2> QED BY <1>0, <2>1, <2>2, NotifierBooks DEF InvNotifier
<1>7. ASSUME NEW t \in Tasks, Collect(t) PROVE InvNotifier'
  <2>1. /\ t \in InFlight /\ outcome[t] = None /\ Recorded(t) \in Statuses /\ Recorded(t) # None
        /\ outcome' = [outcome EXCEPT ![t] = Recorded(t)] /\ callback = None /\ phase \notin Late
        /\ UNCHANGED <<plan, started, known, activeRuns, final, finished, enabled>>
    BY <1>7, RecordedType, SettingsAssumption
       DEF Collect, InFlight, Idle, Late, notifierVars, books, flags, delivery
  <2>2. InFlight' = InFlight \ {t} /\ Unheard = {} /\ Unannounced = {}
    BY <2>1 DEF InFlight, LedgerTypes, Unheard, Unannounced
  <2>3. CASE t \in Runs
    <3>1. Unheard' = {t} /\ Unannounced' = {}
      BY <1>7, <2>1, <2>3, CallbackSteps DEF Unheard, Unannounced
    <3>2. CountsOf(outcome, Runs) = CountsOf(outcome', Runs \ {t})
      <4>1. \A s \in Statuses : {r \in Runs : outcome[r] = s} = {r \in Runs \ {t} : outcome'[r] = s}
        BY <2>1, SettingsAssumption DEF LedgerTypes, Tasks
      <4> QED BY <4>1, CountsSame
    <3>3. Runs \ {} = Runs
      OBVIOUS
    <3> QED BY <1>0, <2>1, <2>2, <2>3, <3>1, <3>2, <3>3, NotifierBooks DEF InvNotifier
  <2>4. CASE t \notin Runs
    <3>1. Unheard' = {} /\ Unannounced' = {}
      BY <1>7, <2>1, <2>4 DEF Collect, Unheard, Unannounced
    <3>2. CountsOf(outcome, Runs) = CountsOf(outcome', Runs)
      <4>1. \A s \in Statuses : {r \in Runs : outcome[r] = s} = {r \in Runs : outcome'[r] = s}
        BY <2>1, <2>4 DEF LedgerTypes, Tasks
      <4> QED BY <4>1, CountsSame
    <3>3. Runs \ {} = Runs
      OBVIOUS
    <3> QED BY <1>0, <2>1, <2>2, <2>4, <3>1, <3>2, <3>3, NotifierBooks DEF InvNotifier
  <2> QED BY <2>3, <2>4
<1>8. CASE FinishDisplay
  <2>1. UNCHANGED <<plan, outcome, callback, started, books, finished, enabled, aborted>> /\ phase' \in Late \ {"finish"}
    BY <1>8 DEF FinishDisplay, MoveTo, Late, notifierVars, flags, delivery
  <2> QED BY <2>1, NotifierFrame
<1>9. CASE FinishNotifier
  <2>0. UNCHANGED <<plan, outcome, callback, started, aborted, left>> /\ phase' \in Late \ {"finish"} /\ phase \in Late
    BY <1>9 DEF FinishNotifier, MoveTo, Late
  <2>1. CASE UNCHANGED <<books, finished, enabled>>
    BY <2>0, <2>1, NotifierFrame
  <2>2. CASE SetFinished
    <3>1. /\ Planned' = Planned /\ RunCounts' = RunCounts /\ InFlight' = InFlight
          /\ Unheard' = Unheard /\ Unannounced' = Unannounced
      BY <2>0 DEF Planned, RunCounts, InFlight, Unheard, Unannounced
    <3> QED BY <2>0, <2>2, <3>1 DEF SetFinished, books, delivery, InvNotifier
  <2>3. CASE phase = "finish" /\ GiveReport(RunCounts, left, aborted)
    <3>1. /\ Planned' = Planned /\ RunCounts' = RunCounts /\ InFlight' = InFlight
          /\ Unheard' = Unheard /\ Unannounced' = Unannounced
      BY <2>0 DEF Planned, RunCounts, InFlight, Unheard, Unannounced
    <3> DEFINE rest == Minus(Cardinality(Planned), Total(RunCounts))
    <3>2. /\ final'.counts = RunCounts /\ final'.aborted = aborted
          /\ final'.pending = IF aborted /\ rest > left THEN rest ELSE left
          /\ UNCHANGED <<activeRuns, known, finished, enabled>> /\ final = None
      BY <2>3 DEF GiveReport, flags, delivery
    <3>3. rest \in Nat /\ Total(RunCounts) + rest = Cardinality(Planned) /\ left \in Nat /\ Total(RunCounts) \in Nat
      BY Planning DEF Minus, LedgerTypes
    <3>4. left = 0 \/ left = rest
      BY <3>3 DEF InvLedger
    <3>5. ~aborted => Total(RunCounts) + left = Cardinality(Planned)
      BY <2>0 DEF InvReport
    <3>6. final'.pending \in Nat /\ Total(RunCounts) + final'.pending = Cardinality(Planned)
      BY <3>2, <3>3, <3>4, <3>5 DEF LedgerTypes
    <3>7. ~finished
      BY <3>2 DEF InvNotifier
    <3> QED BY <2>0, <3>1, <3>2, <3>6, <3>7 DEF InvNotifier
  <2>4. UNCHANGED <<books, finished, enabled>> \/ SetFinished \/ (phase = "finish" /\ GiveReport(RunCounts, left, aborted))
    BY <1>9 DEF FinishNotifier, Join, notifierVars, flags, delivery
  <2> QED BY <2>1, <2>2, <2>3, <2>4
<1> QED BY <1>1, <1>2, <1>3, <1>4, <1>5, <1>6, <1>7, <1>8, <1>9, CoordinatingCases

\* A message tells the books, or the report once there is one.
LEMMA MessageTells ==
  ASSUME LedgerTypes, InvLedger, InvNotifier,
         NEW event \in {"started", "progress", "finished"}, event = "finished" => final # None
  PROVE  Truthful(Message(event))
<1>1. CASE final = None
  <2>1. Message(event) =
          [stage |-> event, counts |-> known,
           pending |-> Minus(Cardinality(Planned), Total(known) + Cardinality(activeRuns)),
           active |-> Cardinality(activeRuns)]
    BY <1>1 DEF Message
  <2>2. /\ Total(known) \in Nat /\ Cardinality(activeRuns) \in Nat /\ Cardinality(Planned) \in Nat
        /\ Total(known) + Cardinality(activeRuns) <= Cardinality(Planned)
    <3>1. 0 \in Nat /\ "skipped" \in Statuses
      BY DEF Statuses
    <3>2. IsFiniteSet(activeRuns)
      BY Planning, FS_Subset DEF InvNotifier
    <3> QED BY <3>1, <3>2, Planning, AddTotal, FS_CardinalityType DEF InvNotifier
  <2>3. event \in {"started", "progress"}
    BY <1>1
  <2> QED BY <2>1, <2>2, <2>3 DEF Truthful, Minus
<1>2. CASE final # None
  <2>1. Message(event) = [stage |-> Label(final), counts |-> final.counts,
                          pending |-> final.pending, active |-> 0]
    BY <1>2 DEF Message
  <2>2. /\ final.counts = RunCounts /\ final.aborted = aborted /\ final.pending \in Nat
        /\ Total(RunCounts) + final.pending = Cardinality(Planned)
    BY <1>2 DEF InvNotifier
  <2>3. RunCounts["failed"] \in Nat /\ RunCounts["paused"] \in Nat /\ Total(RunCounts) \in Nat
    BY Planning DEF Statuses
  <2>4. (Label(final) = "aborted") = aborted
    BY <2>2 DEF Label, LedgerTypes
  <2>5. ASSUME Label(final) = "completed" PROVE AllRunsThere
    <3>1. RunCounts["failed"] = 0 /\ RunCounts["paused"] = 0 /\ final.pending = 0
      BY <2>2, <2>3, <2>5 DEF Label
    <3>2. Total(RunCounts) = Cardinality(Planned)
      BY <2>2, <2>3, <3>1
    <3> QED BY <3>1, <3>2, AllEnded
  <2>6. Total(RunCounts) + final.pending + 0 = Cardinality(Planned)
    BY <2>2, <2>3
  <2> QED BY <1>2, <2>1, <2>2, <2>4, <2>5, <2>6 DEF Truthful
<1> QED BY <1>1, <1>2

\* It stays true: before the report it is only a sum, afterwards nothing changes.
LEMMA MessageFrame ==
  ASSUME InvNotifier, InvMessage, UNCHANGED <<plan, message>>, sender' = sender \/ sender = "built",
         final # None => UNCHANGED <<outcome, aborted, final>>
  PROVE  InvMessage'
<1>1. CASE final = None
  <2>1. Planned' = Planned
    BY DEF Planned
  <2> QED BY <1>1, <2>1 DEF InvMessage, Truthful
<1>2. CASE final # None
  <2>1. Planned' = Planned /\ RunCounts' = RunCounts /\ AllRunsThere' = AllRunsThere
    BY <1>2 DEF Planned, RunCounts, AllRunsThere
  <2> QED BY <1>2, <2>1 DEF InvMessage, Truthful
<1> QED BY <1>1, <1>2

\* In a step of the sender nothing changes that a message could be about.
LEMMA MessageBuilt ==
  ASSUME UNCHANGED <<plan, outcome, aborted, final>>, NEW m, Truthful(m), message' = m
  PROVE  Truthful(message)'
<1>1. Planned' = Planned /\ RunCounts' = RunCounts /\ AllRunsThere' = AllRunsThere
  BY DEF Planned, RunCounts, AllRunsThere
<1> QED BY <1>1 DEF Truthful

LEMMA MessageStep ==
  ASSUME LedgerTypes, InvLedger, InvNotifier, InvMessage, Coordinating
  PROVE  InvMessage'
<1>1. CASE Start
  <2>1. UNCHANGED <<plan, outcome, aborted, final>>
    BY <1>1 DEF Start, StartSender, books
  <2>2. CASE UNCHANGED <<sender, message>>
    BY <2>1, <2>2, MessageFrame
  <2>3. CASE message' = Message("started")
    BY <2>1, <2>3, MessageTells, MessageBuilt DEF InvMessage
  <2> QED BY <1>1, <2>2, <2>3 DEF Start, StartSender
<1>2. CASE ~Start
  <2>1. UNCHANGED <<sender, message, plan>>
    BY <1>2, CoordinatingCases DEF Prepare, Submit, TellNotifier, TellDisplay, EndLoop, Finalize, StartRun,
       StartTask, Collect, FinishNotifier, FinishDisplay, Abort, Signal, NotifyStarted, NotifyFinished,
       GiveReport, SetFinished, Join, notifierVars, delivery, MoveTo
  <2>2. ASSUME final # None PROVE UNCHANGED <<outcome, aborted, final>>
    <3>1. phase \in Late \ {"finish"}
      BY <2>2 DEF InvNotifier
    <3>2. FinishNotifier \/ FinishDisplay
      BY <1>2, <3>1, CoordinatingCases DEF Prepare, Submit, TellNotifier, TellDisplay, EndLoop, Finalize,
         StartRun, StartTask, Collect, Abort, Signal, Idle, InvLedger, Late
    <3> QED BY <2>2, <3>2 DEF FinishNotifier, FinishDisplay, MoveTo, GiveReport, SetFinished, Join,
               notifierVars, books
  <2> QED BY <2>1, <2>2, MessageFrame
<1> QED BY <1>1, <1>2

\* The sender and Discord
LEMMA DeliveryKeeps ==
  ASSUME LedgerTypes, InvLedger, InvNotifier, InvMessage, Apart,
         \/ UNCHANGED notifierVars
         \/ Send \/ EnterWait \/ WakeToTell \/ Tell \/ Finish \/ Answer \/ TimePasses
  PROVE  InvNotifier' /\ InvMessage'
<1>1. UNCHANGED <<plan, outcome, aborted, callback, started, phase>>
  BY DEF Apart, coordinator
<1>2. UNCHANGED <<books, finished>> /\ (enabled' => enabled)
  BY DEF notifierVars, delivery, flags, Send, EnterWait, WakeToTell, Tell, Finish, Answer, TimePasses
<1>3. final' = final
  BY <1>2 DEF books
<1>4. InvNotifier'
  BY <1>1, <1>2, NotifierFrame DEF InvNotifier
<1>5. InvMessage'
  <2>1. CASE UNCHANGED message /\ (sender' = sender \/ sender = "built")
    BY <1>1, <1>3, <2>1, MessageFrame
  <2>2. CASE Tell \/ (Finish /\ message' = Message("finished"))
    <3>1. \E e \in {"started", "progress", "finished"} :
            message' = Message(e) /\ (e = "finished" => final # None)
      BY <2>2 DEF Tell, Finish, InvNotifier
    <3> QED BY <1>1, <1>3, <3>1, MessageTells, MessageBuilt DEF InvMessage
  <2>3. CASE sender' \notin {"built", "open"}
    BY <2>3 DEF InvMessage
  <2>4. CASE Send
    <3>1. CASE Refused
      BY <2>3, <2>4, <3>1 DEF Send, Onward
    <3>2. CASE ~Refused
      BY <2>1, <2>4, <3>2 DEF Send
    <3> QED BY <3>1, <3>2
  <2>5. CASE EnterWait \/ WakeToTell \/ Answer
    BY <2>3, <2>5 DEF EnterWait, WakeToTell, Answer, Onward
  <2>6. CASE Finish
    <3>1. CASE cool
      BY <2>3, <2>6, <3>1 DEF Finish
    <3>2. CASE ~cool
      BY <2>2, <2>6, <3>2 DEF Finish
    <3> QED BY <3>1, <3>2
  <2>7. CASE TimePasses \/ UNCHANGED notifierVars
    BY <2>1, <2>7 DEF TimePasses, notifierVars, delivery
  <2> QED BY <2>2, <2>4, <2>5, <2>6, <2>7
<1> QED BY <1>4, <1>5

-----------------------------------------------------------------------------
(* Theorems *)

LEMMA ObserversInitially == Init => ObsInv
<1> SUFFICES ASSUME Init PROVE ObsInv
  OBVIOUS
<1> USE DEF Init, DisplayInit, NotifierInit
<1>1. LedgerTypes
  BY SettingsAssumption DEF LedgerTypes, Early
<1>2. InvLedger
  BY <1>1 DEF InvLedger, LedgerTypes, InFlight
<1>3. \A R \in SUBSET Runs : CountsOf(outcome, R) = Zero
  <2> TAKE R \in SUBSET Runs
  <2>1. \A s \in Statuses : {r \in R : outcome[r] = s} = {}
    BY SettingsAssumption DEF Tasks
  <2> QED BY <2>1, FS_EmptySet DEF CountsOf, Zero
<1>4. Zero \in [Statuses -> Nat] /\ Total(Zero) = 0
  BY DEF Zero, Total, Statuses
<1>5. InFlight = {} /\ Untold = {} /\ Unheard = {} /\ Unannounced = {} /\ EndedTasks = {} /\ Runs \ {} = Runs
  BY DEF InFlight, Untold, Unheard, Unannounced, EndedTasks, Tasks
<1>6. InvBoard
  BY <1>3, <1>4, <1>5, FS_EmptySet DEF InvBoard
<1>7. RowsTellOutcomes /\ InvReport /\ InvSummary /\ InvMessage
  BY DEF RowsTellOutcomes, InvReport, InvSummary, SummaryIsTrue, InvMessage, Late
<1>8. InvNotifier
  <2>1. Cardinality({}) = 0 /\ Cardinality(Planned) \in Nat
    BY <1>1, <1>2, Planning, FS_EmptySet
  <2> QED BY <1>3, <1>4, <1>5, <2>1 DEF InvNotifier
<1> QED BY <1>1, <1>2, <1>6, <1>7, <1>8 DEF ObsInv

LEMMA ObserversNext == ObsInv /\ [Next]_vars => ObsInv'
<1> SUFFICES ASSUME ObsInv, [Next]_vars PROVE ObsInv'
  OBVIOUS
<1> USE DEF ObsInv
<1>1. CASE Coordinating
  <2>1. Next
    BY <1>1 DEF Coordinating, Next, Environment
  <2> QED BY <1>1, <2>1, LedgerTypesStep, LedgerStep, BoardStep, RowsStep, ReportStep, SummaryStep,
             NotifierStep, MessageStep
<1>2. CASE Next /\ ~Coordinating
  <2>1. /\ Apart
        /\ \/ UNCHANGED notifierVars
           \/ Send \/ EnterWait \/ WakeToTell \/ Tell \/ Finish \/ Answer \/ TimePasses
    BY <1>2, StepsSplit
  <2> QED BY <1>2, <2>1, ApartKeeps, RowsStep, DeliveryKeeps
<1>3. CASE UNCHANGED vars
  <2>1. Apart /\ UNCHANGED notifierVars /\ rows' = rows
    BY <1>3 DEF vars, Apart, LedgerTypes, work, displayVars, screen
  <2>2. RowsTellOutcomes'
    BY <2>1 DEF RowsTellOutcomes, Apart, coordinator, counters
  <2> QED BY <2>1, <2>2, ApartKeeps, DeliveryKeeps
<1> QED BY <1>1, <1>2, <1>3

\* Rows, counters, report, books and messages keep their relation to the ledger.
THEOREM ObserversInvariance == Spec => []ObsInv
<1> QED BY ObserversInitially, ObserversNext, PTL DEF Spec

\* Whatever snapshots are dropped, delayed or lost, the row of a task that ended
\* shows the outcome that the coordinator recorded (TerminalProgress._drain).
THEOREM RowsAreTrue == Spec => []RowsTellOutcomes
<1>1. ObsInv => RowsTellOutcomes
  BY DEF ObsInv
<1> QED BY <1>1, ObserversInvariance, PTL

\* Every message accounts for every planned run, however late the sender builds it
\* and whatever Discord answers; one that names an outcome names the report's
\* (ExperimentNotifier._message).
THEOREM DeliveriesAreTrue == Spec => []MessagesAreTrue
<1>1. ObsInv => MessagesAreTrue
  BY DEF ObsInv, InvMessage, Truthful, MessagesAreTrue, MessagesAddUp, StageIsTold, AllRunsThere
<1> QED BY <1>1, ObserversInvariance, PTL

\* The last line of the terminal accounts for every run, and says Completed only
\* if everything is there (TerminalProgress.__exit__).
THEOREM LastLineIsTrue == Spec => []SummaryIsTrue
<1>1. ObsInv => SummaryIsTrue
  BY DEF ObsInv, InvSummary
<1> QED BY <1>1, ObserversInvariance, PTL
=============================================================================
