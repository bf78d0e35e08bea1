------------------------------ MODULE GpuRuns ------------------------------
(***************************************************************************)
(* Successive invocations of `run` with GPU workers on one output: GpuPool *)
(* composed with the compute records its processes and its coordinator     *)
(* leave (observe_attempt, observe_derivation, observe_execution).         *)
(***************************************************************************)
EXTENDS GpuPool

CONSTANTS Invocations, Losses

ASSUME TimesAssumption ==
  /\ Invocations \in Nat \ {0} /\ Losses \in Nat /\ None \notin {"skipped", "incomplete"}
  /\ \A s \in Studies : s.times \in 1..Invocations

VARIABLES begun, started, ended, lost, reports, summary

Log == INSTANCE ComputeLog WITH NoRecord <- None, Runs <- Simulations, Others <- Derivations

VARIABLES
  n,     \* the current invocation
  known, \* metadata.json is published
  cut    \* history: attempts whose process died under them

logVars == <<begun, started, ended, lost, reports, summary>>
vars == <<gpuVars, logVars, n, known, cut>>

Done == {t \in Tasks : progress[t] = 2}
Failed(kind) == {t \in kind : outcome[t] = "failed"}
Unfinished(kind) == {t \in kind : outcome[t] \notin {"completed", "failed"}}

Init ==
  /\ GpuInit /\ Log!LogInit
  /\ n = 1 /\ known = FALSE /\ cut = {}

-----------------------------------------------------------------------------
\* The attempt begins before the task and reads the step saved by then.
ServeTask(w) ==
  /\ Serve(w)
  /\ IF command[w] \in Tasks
     THEN Log!StartAttempt(<<n, command[w]>>, progress[command[w]])
     ELSE UNCHANGED logVars
  /\ UNCHANGED <<n, known, cut>>

\* It ends with the task, before the reply; a run that was complete is skipped.
EndTask(w, status) ==
  /\ Work(w, status)
  /\ LET c == working[w]
     IN IF c \in Tasks
        THEN Log!EndAttempt(<<n, c>>, IF c \in Simulations /\ progress[c] = 2 /\ status = "completed"
                                      THEN "skipped" ELSE status)
        ELSE UNCHANGED logVars
  /\ UNCHANGED <<n, known, cut>>

DieAt(w) ==
  /\ Die(w)
  /\ cut' = IF OnTask(w) THEN cut \union {<<n, working[w]>>} ELSE cut
  /\ UNCHANGED <<logVars, n, known>>

PublishRequest ==
  /\ Publish
  /\ known' = TRUE
  /\ UNCHANGED <<logVars, n, cut>>

Quietly(A) == A /\ UNCHANGED <<logVars, n, known, cut>>

\* Invocation.__exit__, after every worker is joined: nothing is written
\* into an output that has no request.
Status ==
  IF raised \/ Failed(Tasks) # {} THEN "failed"
  ELSE IF Unfinished(Tasks) # {} \/ stop THEN "incomplete"
  ELSE "completed"
ReportInvocation ==
  /\ phase = "ended"
  /\ IF known THEN Log!RecordInvocation(n, Status) ELSE UNCHANGED logVars
  /\ phase' = IF reports'[n] # None THEN "recorded" ELSE "reported"
  /\ UNCHANGED <<study, raised, stop, lock, proc, working, result, pipes, accounts, reading,
                 progress, deaths, n, known, cut>>
DrawSummary ==
  /\ phase = "recorded"
  /\ Log!RegenerateSummary(Done \intersect Simulations)
  /\ phase' = "reported"
  /\ UNCHANGED <<study, raised, stop, lock, proc, working, result, pipes, accounts, reading,
                 progress, deaths, n, known, cut>>

\* Bounds: study.times, and the next one waits for the processes of a killed
\* one to end (what they could still write beside it is not modelled).
Invoke ==
  /\ phase \in {"reported", "killed"} /\ n < study.times
  /\ \A w \in GPUs : ~Alive(w)
  /\ n' = n + 1
  /\ phase' = "launch" /\ raised' = FALSE /\ stop' = FALSE /\ lock' = FALSE
  /\ proc' = [w \in GPUs |-> "none"] /\ working' = [w \in GPUs |-> None]
  /\ result' = [w \in GPUs |-> None] /\ command' = [w \in GPUs |-> None]
  /\ reply' = [w \in GPUs |-> None] /\ held' = {} /\ reading' = None
  /\ active' = [w \in GPUs |-> None]
  /\ pending' = Simulations \union (Derivations \ Done)
  /\ outcome' = [t \in Tasks |-> IF t \in Derivations \intersect Done THEN "completed" ELSE None]
  /\ UNCHANGED <<study, progress, deaths, logVars, known, cut>>

Coordinate ==
  \/ Quietly(Ask \/ TakeLock \/ Scheduled \/ Finalize \/ Unlock \/ Close \/ Joined)
  \/ \E w \in GPUs : Quietly(Launch(w) \/ NoticeExit(w) \/ BeginReceive(w) \/ Receive(w))
  \/ \E w \in GPUs, t \in Tasks : Quietly(Submit(w, t))
  \/ PublishRequest \/ ReportInvocation \/ DrawSummary
Worker(w) ==
  \/ ServeTask(w) \/ \E s \in {"completed", "paused", "failed"} : EndTask(w, s)
  \/ Quietly(HangUp(w) \/ Reply(w) \/ WriteRest(w) \/ BrokenPipe(w))
Environment ==
  \/ Quietly(Raise \/ Signal \/ Kill)
  \/ \E w \in GPUs : DieAt(w) \/ Quietly(Checkpoint(w))

Next == Coordinate \/ (\E w \in GPUs : Worker(w)) \/ Environment \/ Invoke

Spec == Init /\ [][Next]_vars
FairSpec == Spec /\ WF_vars(Coordinate) /\ \A w \in GPUs : WF_vars(Worker(w))

-----------------------------------------------------------------------------
(* Properties *)

\* Two workers never execute one task at the same time (two writers of one run
\* directory or of one artifact).
NeverTwice ==
  \A v, w \in GPUs : v # w /\ OnTask(v) /\ OnTask(w) => working[v] # working[w]

\* What the coordinator counts as completed, and releases dependencies for, is
\* durable, whoever died in the meantime.
ReportedIsDurable ==
  \A t \in Tasks : outcome[t] = "completed" => progress[t] = 2

\* A task that was taken from the scheduler has an outcome when the loop ends
\* without an exception, also when its worker died before, under or after it.
NothingIsForgotten ==
  phase \in {"finalize", "ended", "recorded", "reported"} /\ ~raised =>
    \A t \in Tasks : outcome[t] = None => t \in pending

\* An invocation is recorded as completed only if everything asked for is durable.
CompletedMeansAll ==
  \A m \in 1..Invocations : reports[m] = "completed" => Done = Tasks

\* When an invocation reports, each of its attempts that no death cut short has
\* its end record: the workers are joined before the summary is drawn.
AttemptsAreAccounted ==
  phase \in {"ended", "recorded", "reported"} /\ lost = 0 =>
    \A t \in Tasks : <<n, t>> \notin cut =>
      (begun[<<n, t>>] = None) = (ended[<<n, t>>] = None)

\* Compute that cannot be known is told by a summary that lists the invocation (one
\* that could not be drawn again, or not before a kill, does not list it): a
\* completed run with an attempt that was cut short is without timing or partial,
\* if the start was recorded or, for a first attempt, if the next one began at a
\* step that it must have saved.
UnknownTimeIsTold ==
  phase = "reported" /\ summary # None /\ n \in summary.invocations =>
    \A a \in cut :
      LET t == a[2]
          later == {m \in (a[1] + 1)..n : begun[<<m, t>>] # None}
          saved == \E m \in later : begun[<<m, t>>] > 0 /\ \A k \in later : m <= k
      IN /\ t \in Simulations \intersect Done
         /\ a \in started \/ (a[1] = 1 /\ saved)
         => t \in summary.withoutTiming \union summary.partial

\* What the records of invocations and attempts say is true, and what they cannot
\* know they say they do not know.
AccountsAreHonest == CompletedMeansAll /\ AttemptsAreAccounted /\ UnknownTimeIsTold

\* "The coordinator holds the experiment lock while publishing and executing a
\* request." (experiment.py:42)
LockCoversWork == (\E w \in GPUs : OnTask(w)) /\ phase # "killed" => lock

\* An invocation whose coordinator is not killed ends, with every process joined: no
\* death and no pipe that a descendant holds blocks it, except for one case.  If a
\* worker dies in the middle of a reply larger than its pipe while a descendant
\* holds that pipe, recv waits for the rest until the descendant ends.
HalfReplyIsHeld == \E w \in GPUs : reading = w /\ ~reply[w].whole /\ Ended(w) /\ w \in held
EveryInvocationEnds ==
  [](phase = "launch" => <>(phase \in {"reported", "killed"} \/ HalfReplyIsHeld))
=============================================================================
