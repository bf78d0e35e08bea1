----------------------------- MODULE Observers -----------------------------
(***************************************************************************)
(* One invocation as its two observers see it: the terminal display and    *)
(* the Discord notifier, driven by the coordinator's callbacks in the      *)
(* order of execution/coordinator.py and cli.py, with workers that send    *)
(* snapshots, a pool or single GPU processes that die, an interruption and *)
(* exceptions.                                                             *)
(*                                                                         *)
(* Which task is next, and what a task does, are other modules' matter     *)
(* (Coordinator, RunStore): here any task that was not started may be      *)
(* next, and any outcome is possible.                                      *)
(***************************************************************************)
EXTENDS Display, Notifier

CONSTANTS Settings \* [quiet, notify, pool, plan]: the program and its study

ASSUME SettingsAssumption ==
  /\ Settings \subseteq [quiet : BOOLEAN, notify : BOOLEAN, pool : BOOLEAN, plan : SUBSET Tasks]
  /\ None \notin Statuses
  /\ None \notin [task : Runs, status : {None} \union Statuses, at : {"notifier", "display"}]
  /\ None \notin [counts : [Statuses -> Nat], pending : Nat, interrupted : BOOLEAN, pendingTasks : Nat]

VARIABLES
  phase,    \* prepare, start, schedule, finalize, finish, set, join, report, close, exit, ended
  pool,     \* a process pool: one death breaks it
  stop,     \* stop_event
  aborted,  \* an exception unwinds the coordinator
  callback, \* the run whose callbacks are not all made: None or [task, status, at]
  cached,   \* derived tasks that were satisfied when the request was published
  started,  \* tasks the scheduler handed out
  outcome,  \* the outcome of each task, which the report counts
  left,     \* report.pending
  report,   \* what run() returns, or None
  queued,   \* submitted tasks that no worker took
  doing,    \* the snapshot each worker is at, or None
  dead,     \* workers whose process died
  answer    \* what came back of each task

coordinator == <<plan, phase, pool, stop, aborted, callback, cached, started, outcome, left, report>>
work == <<queued, doing, dead, answer>>
vars == <<displayVars, notifierVars, coordinator, work>>

Init ==
  /\ \E s \in Settings : quiet = s.quiet /\ enabled = s.notify /\ pool = s.pool /\ plan = s.plan
  /\ DisplayInit /\ NotifierInit
  /\ phase = "prepare" /\ stop = FALSE /\ aborted = FALSE /\ callback = None
  /\ cached = {} /\ started = {} /\ outcome = [t \in Tasks |-> None] /\ left = 0 /\ report = None
  /\ queued = {} /\ doing = [p \in Workers |-> None] /\ dead = {}
  /\ answer = [t \in Tasks |-> None]

InFlight == {t \in started : outcome[t] = None}
Unstarted(kind) == (plan \intersect kind) \ (started \union cached)
RunCounts == [s \in Statuses |-> Cardinality({r \in Runs : outcome[r] = s})]
Broken == pool /\ dead # {}

-----------------------------------------------------------------------------
(* The coordinator *)

Prepare ==
  /\ phase = "prepare" /\ phase' = "start"
  /\ \E reused \in SUBSET (plan \ Runs) : cached' = reused /\ Configure(reused)
  /\ UNCHANGED <<plan, notifierVars, pool, stop, aborted, callback, started, outcome, left, report, work>>

Start ==
  /\ phase = "start" /\ phase' = "schedule"
  /\ StartSender
  /\ UNCHANGED <<plan, displayVars, pool, stop, aborted, callback, cached, started, outcome, left,
                 report, work>>

Idle == phase = "schedule" /\ callback = None
Room == ~stop /\ Cardinality(InFlight) < Cardinality(Workers)

StartRun(r) ==
  /\ Idle /\ Room /\ r \in Unstarted(Runs)
  /\ started' = started \union {r}
  /\ ShowStarted(r)
  /\ callback' = [task |-> r, status |-> None, at |-> "notifier"]
  /\ UNCHANGED <<plan, notifierVars, phase, pool, stop, aborted, cached, outcome, left, report, work>>

\* A broken pool refuses what is submitted, which ends the invocation.
Enqueue(t) ==
  /\ queued' = IF Broken THEN queued ELSE queued \union {t}
  /\ phase' = IF Broken THEN "finish" ELSE phase
  /\ aborted' = (aborted \/ Broken)

\* The run is submitted; or it is not needed, or cannot be prepared.
Submit ==
  /\ callback # None /\ callback.status = None
  /\ NotifyStarted(callback.task)
  /\ \/ Enqueue(callback.task) /\ UNCHANGED answer
     \/ /\ \E s \in {"skipped", "failed"} : answer' = [answer EXCEPT ![callback.task] = s]
        /\ UNCHANGED <<queued, phase, aborted>>
  /\ callback' = None
  /\ UNCHANGED <<plan, displayVars, pool, stop, cached, started, outcome, left, report, doing, dead>>

StartTask(t) ==
  /\ Idle /\ Room /\ t \in Unstarted(Derived)
  /\ started' = started \union {t}
  /\ ShowStarted(t)
  /\ Enqueue(t)
  /\ UNCHANGED <<plan, notifierVars, pool, stop, callback, cached, outcome, left, report,
                 doing, dead, answer>>

Recorded(t) == IF answer[t] = "died" THEN "failed" ELSE answer[t]

\* report.add; a single process that died stops the invocation. Of a derived
\* task only the display is told.
Collect(t) ==
  /\ Idle /\ t \in InFlight /\ answer[t] # None
  /\ outcome' = [outcome EXCEPT ![t] = Recorded(t)]
  /\ stop' = (stop \/ (answer[t] = "died" /\ ~pool))
  /\ IF t \in Runs
     THEN /\ callback' = [task |-> t, status |-> Recorded(t), at |-> "notifier"]
          /\ UNCHANGED displayVars
     ELSE ShowFinished(t, Recorded(t)) /\ UNCHANGED callback
  /\ UNCHANGED <<plan, notifierVars, phase, pool, aborted, cached, started, left, report, work>>

TellNotifier ==
  /\ callback # None /\ callback.status # None /\ callback.at = "notifier"
  /\ NotifyFinished(callback.task, callback.status)
  /\ callback' = [callback EXCEPT !.at = "display"]
  /\ UNCHANGED <<plan, displayVars, phase, pool, stop, aborted, cached, started, outcome, left, report,
                 work>>

TellDisplay ==
  /\ callback # None /\ callback.at = "display"
  /\ ShowFinished(callback.task, callback.status)
  /\ callback' = None
  /\ UNCHANGED <<plan, notifierVars, phase, pool, stop, aborted, cached, started, outcome, left, report,
                 work>>

\* Nothing in flight, and no run to start; derived tasks may be left that depend
\* on something that failed.
EndLoop ==
  /\ Idle /\ InFlight = {} /\ (stop \/ Unstarted(Runs) = {})
  /\ phase' = "finalize"
  /\ left' = Cardinality(Unstarted(Runs))
  /\ UNCHANGED <<plan, displayVars, notifierVars, pool, stop, aborted, callback, cached, started,
                 outcome, report, work>>

\* Derived tasks that became unnecessary or were found complete are reused; they
\* are counted when the graph is finalized, which needs everything to be there.
Missing(found) == {t \in (plan \ Runs) \ (cached \union found) : outcome[t] # "completed"}
Finalizable(found) == Missing(found) = {} /\ \A r \in Planned : outcome[r] \in {"completed", "skipped"}
FinalizeUncounted == \* mutant: they are not counted
  /\ phase = "finalize" /\ phase' = "finish"
  /\ \E found \in SUBSET Unstarted(Derived) :
       report' = [counts |-> RunCounts, pending |-> left, interrupted |-> stop,
                  pendingTasks |-> Cardinality(Missing(found))]
  /\ UNCHANGED <<plan, displayVars, notifierVars, pool, stop, aborted, callback, cached, started,
                 outcome, left, work>>
Finalize ==
  /\ phase = "finalize" /\ phase' = "finish"
  /\ \E found \in SUBSET Unstarted(Derived) :
       /\ report' = [counts |-> RunCounts, pending |-> left, interrupted |-> stop,
                     pendingTasks |-> Cardinality(Missing(found))]
       /\ IF Finalizable(found) THEN ReuseTasks(found) ELSE UNCHANGED displayVars
  /\ UNCHANGED <<plan, notifierVars, pool, stop, aborted, callback, cached, started, outcome, left, work>>

\* An exception of the loop, of a callback's console or of finalize.
Abort ==
  /\ phase \in {"schedule", "finalize"} /\ callback = None
  /\ phase' = "finish" /\ aborted' = TRUE
  /\ UNCHANGED <<plan, displayVars, notifierVars, pool, stop, callback, cached, started, outcome, left,
                 report, work>>

\* Where the callbacks that are being made do not look at it, it can as well be later.
Signal ==
  /\ phase \in {"schedule", "finalize"} /\ callback = None /\ ~stop /\ stop' = TRUE
  /\ UNCHANGED <<plan, displayVars, notifierVars, phase, pool, aborted, callback, cached, started,
                 outcome, left, report, work>>

MoveTo(next) ==
  /\ phase' = next
  /\ UNCHANGED <<plan, pool, stop, aborted, callback, cached, started, outcome, left, report, work>>
FinishNotifier ==
  /\ UNCHANGED displayVars
  /\ \/ phase = "finish" /\ sender = "none" /\ MoveTo("report") /\ UNCHANGED notifierVars
     \/ phase = "finish" /\ GiveReport(RunCounts, left, aborted) /\ MoveTo("set")
     \/ phase = "set" /\ SetFinished /\ MoveTo("join")
     \/ phase = "join" /\ Join /\ MoveTo("report")
FinishDisplay ==
  /\ UNCHANGED notifierVars
  /\ \/ phase = "report" /\ ~aborted /\ Retain(report) /\ MoveTo("close")
     \/ phase = "report" /\ aborted /\ MoveTo("close") /\ UNCHANGED displayVars
     \/ phase = "close" /\ Close /\ MoveTo("exit")
     \/ phase = "exit" /\ Exit(aborted) /\ MoveTo("ended")

-----------------------------------------------------------------------------
(* Workers *)

At(p, t, status) ==
  /\ doing' = [doing EXCEPT ![p] = [task |-> t, status |-> status]]
  /\ Put(p, t, status)
  /\ UNCHANGED <<quiet, counters, screen, notifierVars, coordinator, dead>>

Take(p, t) ==
  /\ p \notin dead /\ doing[p] = None /\ t \in queued
  /\ queued' = queued \ {t}
  /\ At(p, t, "starting") /\ UNCHANGED answer

Advance(p) ==
  /\ ~quiet /\ doing[p] # None
  /\ At(p, doing[p].task, "running") /\ UNCHANGED <<queued, answer>>

\* The last snapshot, and the result on a channel of its own.
Possible(t, at) ==
  IF t \in Derived THEN {"completed", "failed"}
  ELSE IF quiet THEN {"skipped", "completed", "paused", "failed"}
  ELSE IF at = "starting" THEN {"skipped", "failed"} ELSE {"completed", "paused", "failed"}
Return(p) ==
  /\ doing[p] # None
  /\ \E s \in Possible(doing[p].task, doing[p].status) :
       answer' = [answer EXCEPT ![doing[p].task] = s] /\ Put(p, doing[p].task, s)
  /\ doing' = [doing EXCEPT ![p] = None]
  /\ UNCHANGED <<quiet, counters, screen, notifierVars, coordinator, queued, dead>>

\* A pool loses all its processes and all its tasks with one of them.
Die(p) ==
  LET gone == IF pool THEN Workers ELSE {p}
      lost == {doing[q].task : q \in {q \in gone : doing[q] # None}}
                \union (IF pool THEN queued ELSE {})
  IN /\ doing[p] # None
     /\ answer' = [t \in Tasks |-> IF t \in lost THEN "died" ELSE answer[t]]
     /\ doing' = [q \in Workers |-> IF q \in gone THEN None ELSE doing[q]]
     /\ dead' = dead \union gone
     /\ queued' = queued \ lost
     /\ LoseSnapshots(gone)
     /\ UNCHANGED <<quiet, counters, screen, notifierVars, coordinator>>

-----------------------------------------------------------------------------
Alone(A) == A /\ UNCHANGED <<coordinator, work>>

Coordinate ==
  \/ Prepare \/ Start \/ Submit \/ TellNotifier \/ TellDisplay \/ EndLoop \/ Finalize
  \/ \E r \in Runs : StartRun(r)
  \/ \E t \in Derived : StartTask(t)
  \/ \E t \in Tasks : Collect(t)
  \/ FinishNotifier \/ FinishDisplay
Worker(p) == Return(p) \/ \E t \in Tasks : Take(p, t)
DisplayThread == EndThread /\ closed /\ UNCHANGED <<notifierVars, coordinator, work>>
Sender == Alone(UNCHANGED displayVars /\ (Send \/ EnterWait \/ WakeToTell \/ Tell \/ Finish))
Environment ==
  \/ Abort \/ Signal
  \/ \E p \in Workers : Advance(p) \/ Die(p)
  \/ Alone(UNCHANGED notifierVars /\ (Refresh \/ EndThread))
  \/ Alone(UNCHANGED displayVars /\ (Answer \/ TimePasses))

Next == Coordinate \/ (\E p \in Workers : Worker(p)) \/ Sender \/ DisplayThread \/ Environment

\* Fairness: the coordinator, the workers (a task returns) and the threads run;
\* Discord's answer is not promised.
Spec == Init /\ [][Next]_vars
FairSpec ==
  /\ Spec /\ WF_vars(Coordinate) /\ \A p \in Workers : WF_vars(Worker(p))
  /\ WF_vars(DisplayThread) /\ WF_vars(Sender)

-----------------------------------------------------------------------------
(* Properties *)

\* What the screen says of a task that ended is what the coordinator recorded,
\* though snapshots are dropped, delayed past the result, or lost with a process.
RowsTellOutcomes ==
  \A p \in Workers :
    rows[p] # None /\ rows[p].task \notin shownRuns \union shownTasks =>
      rows[p].status = outcome[rows[p].task]

\* Every message that is sent accounts for every run of the plan.
MessagesAddUp ==
  sender = "open" =>
    Total(message.counts) + message.pending + message.active = Cardinality(Planned)

\* A message that is built after the report tells the invocation's outcome, also
\* in the place of a progress message, and calls nothing completed that is not.
StageIsTold ==
  sender = "open" /\ message.stage \notin {"started", "progress"} =>
    /\ message.counts = RunCounts
    /\ (message.stage = "aborted") = aborted
    /\ message.stage = "completed" => \A r \in Planned : outcome[r] \in {"completed", "skipped"}

\* Whatever Discord is told is true, whenever the sender was delayed.
MessagesAreTrue == MessagesAddUp /\ StageIsTold

\* The last line of the terminal accounts for every run; it says Completed only if
\* every run and every derived task is there, and then no analysis is pending.
SummaryIsTrue ==
  summary # None =>
    /\ summary.counts = RunCounts
    /\ Total(summary.counts) + summary.pending = Cardinality(Planned)
    /\ summary.status = "Completed" =>
         /\ \A r \in Planned : outcome[r] \in {"completed", "skipped"}
         /\ \A t \in plan \ Runs : outcome[t] \in {None, "completed"}
         /\ ~summary.analysis

\* No observer holds up the invocation: it ends though Discord never answers, the
\* console fails under the display thread, or the queue is jammed.
InvocationEnds == <>(phase = "ended")
=============================================================================
