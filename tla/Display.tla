------------------------------ MODULE Display ------------------------------
(***************************************************************************)
(* The terminal display of one invocation (execution/progress.py): workers *)
(* put expendable snapshots into a bounded queue, the coordinator's        *)
(* callbacks own the counters, and a thread drains the queue and renders.  *)
(*                                                                         *)
(* A snapshot is its task and its status; step counts, times, estimates    *)
(* and layout are left out.  What reaches the screen is the rows, the      *)
(* counters and, at the end, the summary.                                  *)
(***************************************************************************)
EXTENDS Outcomes, Sequences, FiniteSetsExt

CONSTANTS Derived, Workers,
          Capacity \* of the queue

Tasks == Runs \union Derived

ASSUME DisplayAssumption ==
  /\ Runs \intersect Derived = {} /\ Capacity \in Nat \ {0}
  /\ IsFiniteSet(Runs) /\ IsFiniteSet(Derived) /\ IsFiniteSet(Workers)

VARIABLES
  quiet,      \* no queue and no thread
  sent,       \* snapshots of each worker that were not drained, oldest first
  jammed,     \* a worker died holding the queue's write lock
  total,      \* runs of the plan
  shownRuns,  \* `active`: runs that were started and not finished
  shownTasks, \* `tasks`: derived tasks likewise
  counts, taskCounts, taskTotal,
  rows,       \* the last snapshot of each worker process
  thread,     \* none, on, off
  told,       \* the report that finish() was given, or None
  closed,     \* __exit__ asked the thread to stop
  summary     \* the text that __exit__ prints, or None

transport == <<sent, jammed>>
counters == <<total, shownRuns, shownTasks, counts, taskCounts, taskTotal>>
screen == <<rows, thread, told, closed, summary>>
displayVars == <<quiet, transport, counters, screen>>

DisplayInit ==
  /\ sent = [p \in Workers |-> <<>>] /\ jammed = FALSE
  /\ total = 0 /\ shownRuns = {} /\ shownTasks = {}
  /\ counts = Zero /\ taskCounts = Zero /\ taskTotal = 0
  /\ rows = [p \in Workers |-> None]
  /\ thread = IF quiet THEN "none" ELSE "on"
  /\ told = None /\ closed = FALSE /\ summary = None

-----------------------------------------------------------------------------
(* The workers' side: put_nowait, and a full queue drops the snapshot *)

Waiting == Cardinality(UNION {{p} \X DOMAIN sent[p] : p \in Workers})

\* The feeder threads of a queue whose write lock is lost deliver nothing.
Put(p, task, status) ==
  /\ sent' = IF quiet \/ jammed \/ Waiting >= Capacity THEN sent
             ELSE [sent EXCEPT ![p] = Append(@, [task |-> task, status |-> status])]
  /\ UNCHANGED jammed

\* A process that dies loses what its feeder thread has not written, and may
\* keep the write lock.
LoseSnapshots(P) ==
  /\ \E left \in [P -> 0..Capacity] :
       /\ \A p \in P : left[p] <= Len(sent[p])
       /\ sent' = [p \in Workers |-> IF p \in P THEN SubSeq(sent[p], 1, left[p]) ELSE sent[p]]
  /\ jammed' \in {jammed, ~quiet}

-----------------------------------------------------------------------------
(* Draining: any prefix of what each worker sent may have arrived *)

\* The positions of the snapshots that are shown.
ResurrectingAccepted(p, k) == 1..k \* mutant: a late snapshot is shown, too
Accepted(p, k) == {i \in 1..k : sent[p][i].task \in shownRuns \union shownTasks}

Arrivals == {k \in [Workers -> 0..Capacity] : \A p \in Workers : k[p] <= Len(sent[p])}
Drained(k) ==
  [p \in Workers |-> IF Accepted(p, k[p]) = {} THEN rows[p] ELSE sent[p][Max(Accepted(p, k[p]))]]
Drain(k) == sent' = [p \in Workers |-> SubSeq(sent[p], k[p] + 1, Len(sent[p]))]

Marked(shown, task, status) ==
  [p \in Workers |-> IF shown[p] # None /\ shown[p].task = task
                     THEN [task |-> task, status |-> status] ELSE shown[p]]

-----------------------------------------------------------------------------
(* Callbacks of the coordinator, each under the display's lock *)

Configure(reused) ==
  /\ total' = Cardinality(Planned)
  /\ taskTotal' = Cardinality(plan \ Runs)
  /\ taskCounts' = Add(taskCounts, "skipped", Cardinality(reused))
  /\ UNCHANGED <<quiet, transport, shownRuns, shownTasks, counts, screen>>

ShowStarted(task) ==
  /\ IF task \in Runs THEN shownRuns' = shownRuns \union {task} /\ UNCHANGED shownTasks
                      ELSE shownTasks' = shownTasks \union {task} /\ UNCHANGED shownRuns
  /\ UNCHANGED <<quiet, transport, total, counts, taskCounts, taskTotal, screen>>

ShowFinished(task, status) ==
  \E k \in Arrivals :
    /\ Drain(k)
    /\ rows' = Marked(Drained(k), task, status)
    /\ IF task \in Runs
       THEN /\ shownRuns' = shownRuns \ {task} /\ counts' = Add(counts, status, 1)
            /\ UNCHANGED <<shownTasks, taskCounts>>
       ELSE /\ shownTasks' = shownTasks \ {task} /\ taskCounts' = Add(taskCounts, status, 1)
            /\ UNCHANGED <<shownRuns, counts>>
    /\ UNCHANGED <<quiet, jammed, total, taskTotal, thread, told, closed, summary>>

ReuseTasks(reused) ==
  /\ taskCounts' = Add(taskCounts, "skipped", Cardinality(reused))
  /\ UNCHANGED <<quiet, transport, total, shownRuns, shownTasks, counts, taskTotal, screen>>

Queued == Minus(total, Total(counts) + Cardinality(shownRuns))
DerivedPending == shownTasks # {} \/ taskTotal > Total(taskCounts)

-----------------------------------------------------------------------------
(* The display thread *)

Refresh ==
  /\ thread = "on" /\ ~closed
  /\ \E k \in Arrivals : Drain(k) /\ rows' = Drained(k)
  /\ UNCHANGED <<quiet, jammed, counters, thread, told, closed, summary>>

\* It ends when it is asked to, or because the console fails under it.
EndThread ==
  /\ thread = "on"
  /\ thread' = "off"
  /\ UNCHANGED <<quiet, transport, counters, rows, told, closed, summary>>

-----------------------------------------------------------------------------
(* The end of the context *)

Retain(report) ==
  /\ told' = report
  /\ UNCHANGED <<quiet, transport, counters, rows, thread, closed, summary>>

Close ==
  /\ ~closed /\ closed' = TRUE
  /\ UNCHANGED <<quiet, transport, counters, rows, thread, told, summary>>

StatusText(exception, final, pending) ==
  IF exception THEN "Aborted"
  ELSE IF final["failed"] > 0 \/ taskCounts["failed"] > 0 THEN "Failed"
  ELSE IF \/ pending > 0 \/ final["paused"] > 0
          \/ told # None /\ (told.pendingTasks > 0 \/ told.interrupted) THEN "Paused/interrupted"
  ELSE "Completed"

\* join() returned.
Exit(exception) ==
  /\ closed /\ thread # "on" /\ summary = None
  /\ \E k \in Arrivals :
       LET final == IF told = None THEN counts ELSE told.counts
           pending == IF told = None THEN Queued + Cardinality(shownRuns) ELSE told.pending
       IN /\ Drain(k) /\ rows' = Drained(k)
          /\ counts' = final
          /\ summary' = [status |-> StatusText(exception, final, pending),
                         counts |-> final, pending |-> pending, analysis |-> DerivedPending]
  /\ UNCHANGED <<quiet, jammed, total, shownRuns, shownTasks, taskCounts, taskTotal,
                 thread, told, closed>>
=============================================================================
