------------------------------ MODULE GpuPool ------------------------------
(***************************************************************************)
(* One spawned process and one pipe per GPU (execution/resources.py) under *)
(* the coordinator's GPU loop (execution/coordinator.py): plan, inspect,   *)
(* schedule, close and join, with processes that die, a coordinator that   *)
(* raises or is killed, and study code that forks.                         *)
(*                                                                         *)
(* What the scheduler offers next is TaskScheduler's matter: here any task *)
(* that is left may be next.  What a run writes is RunStore's: here a task *)
(* has done nothing (0), saved a part (1) or published everything (2).     *)
(***************************************************************************)
EXTENDS Naturals, FiniteSets

CONSTANTS
  None,        \* no value
  GPUs,        \* one worker process for each
  First,       \* the worker that plans and inspects the study
  Simulations, \* tasks that run and may pause
  Derivations, \* tasks that derive an artifact
  Studies,     \* the GPUs of a study, how often it is invoked, and what its code does:
               \* replies too large for a pipe, forks
  Aborts,      \* phases in which the coordinator may raise
  Deaths,      \* bound: worker processes that die in one life of the program
  Signals,     \* may the coordinator be interrupted?
  Kills        \* may the coordinator be killed?

Tasks == Simulations \union Derivations

ASSUME GpuAssumption ==
  /\ First \in GPUs /\ Deaths \in Nat
  /\ Simulations \intersect Derivations = {} /\ Tasks \intersect {"plan", "graph"} = {}
  /\ None \notin Nat \union Tasks \union GPUs \union {"plan", "graph", "completed", "paused", "failed"}
  /\ None \notin [status : {"completed", "paused", "failed"}, whole : BOOLEAN]
  /\ Studies \subseteq [gpus : SUBSET GPUs, times : Nat, large : BOOLEAN, forks : BOOLEAN]
  /\ \A s \in Studies : First \in s.gpus
  /\ Aborts \subseteq {"launch", "lock", "publish", "schedule", "finalize"}

VARIABLES
  study,    \* the study on this output
  phase,    \* where the coordinator is
  raised,   \* an exception unwinds the coordinator
  stop,     \* stop_event
  lock,     \* does the coordinator hold the output's lock?
  proc,     \* none, idle, busy, replying, writing, gone or dead
  command,  \* the command in the pipe
  working,  \* the command that is served
  result,   \* what serving it gave
  reply,    \* the reply in the pipe: None or [status, whole]
  held,     \* workers of which a descendant holds pipe and sentinel
  active,   \* the command a worker owes a reply for
  reading,  \* the worker whose reply the coordinator receives, or None
  pending,  \* tasks that were not taken
  outcome,  \* what the coordinator made of each task
  progress, \* what is durable of each task
  deaths

coordinator == <<phase, raised, stop, lock>>
pipes == <<command, reply, held>>
accounts == <<active, pending, outcome>>
gpuVars == <<study, coordinator, proc, working, result, pipes, accounts, reading, progress, deaths>>

Alive(w) == proc[w] \in {"idle", "busy", "replying", "writing"}
Ended(w) == proc[w] \in {"gone", "dead"}
OnTask(w) == proc[w] = "busy" /\ working[w] \in Tasks

NewCoordinator ==
  /\ phase = "launch" /\ raised = FALSE /\ stop = FALSE /\ lock = FALSE
  /\ proc = [w \in GPUs |-> "none"] /\ working = [w \in GPUs |-> None]
  /\ result = [w \in GPUs |-> None] /\ command = [w \in GPUs |-> None]
  /\ reply = [w \in GPUs |-> None] /\ held = {} /\ reading = None
  /\ active = [w \in GPUs |-> None] /\ pending = Tasks
  /\ outcome = [t \in Tasks |-> None]

GpuInit ==
  /\ study \in Studies /\ NewCoordinator
  /\ progress = [t \in Tasks |-> 0] /\ deaths = 0

-----------------------------------------------------------------------------
(* The coordinator *)

Launch(w) ==
  /\ phase = "launch" /\ w \in study.gpus /\ proc[w] = "none"
  /\ proc' = [proc EXCEPT ![w] = "idle"]
  /\ phase' = IF \A u \in study.gpus \ {w} : proc[u] # "none" THEN "prepare" ELSE phase
  /\ UNCHANGED <<study, raised, stop, lock, working, result, pipes, accounts, reading, progress, deaths>>

\* An exception: the inner lock goes first, gpu_workers' handler afterwards.  The
\* loop raises where it settles a reply or selects a task for a free worker, not
\* while it waits and every worker owes an answer.
Raise ==
  /\ phase \in Aborts /\ reading = None
  /\ phase = "schedule" => \E w \in study.gpus : active[w] = None
  /\ phase' = "unlock" /\ raised' = TRUE
  /\ UNCHANGED <<study, stop, lock, proc, working, result, pipes, accounts, reading, progress, deaths>>

\* prepare and prepare_analysis: a command of the first worker, and its reply
Asked(p) == IF p = "prepare" THEN "plan" ELSE "graph"
Ask ==
  /\ phase \in {"prepare", "graph"} /\ active[First] = None
  /\ IF Alive(First)
     THEN /\ command' = [command EXCEPT ![First] = Asked(phase)]
          /\ active' = [active EXCEPT ![First] = Asked(phase)]
          /\ UNCHANGED <<phase, raised>>
     ELSE /\ phase' = "unlock" /\ raised' = TRUE
          /\ UNCHANGED <<command, active>>
  /\ UNCHANGED <<study, stop, lock, proc, working, result, reply, held, pending, outcome, reading,
                 progress, deaths>>

TakeLock ==
  /\ phase = "lock"
  /\ phase' = "graph" /\ lock' = TRUE
  /\ UNCHANGED <<study, raised, stop, proc, working, result, pipes, accounts, reading, progress, deaths>>

Publish ==
  /\ phase = "publish"
  /\ phase' = "schedule"
  /\ UNCHANGED <<study, raised, stop, lock, proc, working, result, pipes, accounts, reading, progress,
                 deaths>>

SubmitTwice(w, t) == \* mutant: the task stays on offer
  /\ phase = "schedule" /\ w \in study.gpus /\ reading = None /\ ~stop /\ active[w] = None /\ t \in pending
  /\ Alive(w)
  /\ command' = [command EXCEPT ![w] = t]
  /\ active' = [active EXCEPT ![w] = t]
  /\ UNCHANGED <<study, coordinator, proc, working, result, reply, held, reading, pending, outcome,
                 progress, deaths>>

\* A pipe whose process has ended breaks at the send.
Submit(w, t) ==
  /\ phase = "schedule" /\ w \in study.gpus /\ reading = None /\ ~stop /\ active[w] = None /\ t \in pending
  /\ pending' = pending \ {t}
  /\ IF Alive(w)
     THEN /\ command' = [command EXCEPT ![w] = t]
          /\ active' = [active EXCEPT ![w] = t]
          /\ UNCHANGED <<outcome, stop>>
     ELSE /\ outcome' = [outcome EXCEPT ![t] = "failed"] /\ stop' = TRUE
          /\ UNCHANGED <<command, active>>
  /\ UNCHANGED <<study, phase, raised, lock, proc, working, result, reply, held, reading, progress,
                 deaths>>

\* The command is answered or given up: a task has its outcome, the study is
\* planned or inspected, or the exception goes up.
Settle(w, status) ==
  LET c == active[w]
  IN /\ active' = [active EXCEPT ![w] = None]
     /\ IF c \in Tasks
        THEN /\ outcome' = [outcome EXCEPT ![c] = status]
             /\ stop' = (stop \/ status = "failed")
             /\ UNCHANGED <<phase, raised>>
        ELSE /\ phase' = IF status = "failed" THEN "unlock"
                         ELSE IF c = "plan" THEN "lock" ELSE "publish"
             /\ raised' = (status = "failed")
             /\ UNCHANGED <<outcome, stop>>

Waiting == phase \in {"prepare", "graph", "schedule"}

NoticeClosedPipe(w) == \* mutant: only the end of the pipe tells
  /\ Waiting /\ reading = None /\ active[w] # None
  /\ Ended(w) /\ reply[w] = None /\ w \notin held
  /\ Settle(w, "failed")
  /\ UNCHANGED <<study, lock, proc, working, result, pipes, reading, pending, progress, deaths>>
NoticeSilently(w) == \* mutant: the command is dropped with its worker
  /\ Waiting /\ reading = None /\ active[w] # None
  /\ Ended(w) /\ reply[w] = None
  /\ active' = [active EXCEPT ![w] = None]
  /\ UNCHANGED <<study, coordinator, proc, working, result, pipes, reading, pending, outcome,
                 progress, deaths>>

\* wait_gpu_workers and the first lines of result: a process that ended
\* without a reply is told from its exit status, whoever holds its pipe.
NoticeExit(w) ==
  /\ Waiting /\ reading = None /\ active[w] # None
  /\ Ended(w) /\ reply[w] = None
  /\ Settle(w, "failed")
  /\ UNCHANGED <<study, lock, proc, working, result, pipes, reading, pending, progress, deaths>>

BeginReceive(w) ==
  /\ reading = None /\ reply[w] # None
  /\ \/ Waiting /\ active[w] # None
     \/ phase = "join" /\ Alive(w)
  /\ reading' = w
  /\ UNCHANGED <<study, coordinator, proc, working, result, pipes, accounts, progress, deaths>>

\* recv returns with the whole reply, or when nobody can write any more of it.
Receive(w) ==
  /\ reading = w
  /\ reply[w].whole \/ (Ended(w) /\ w \notin held)
  /\ reading' = None /\ reply' = [reply EXCEPT ![w] = None]
  /\ IF Waiting
     THEN Settle(w, IF reply[w].whole THEN reply[w].status ELSE "failed")
     ELSE UNCHANGED <<phase, raised, stop, active, outcome>>
  /\ UNCHANGED <<study, lock, proc, working, result, command, held, pending, progress, deaths>>

Scheduled ==
  /\ phase = "schedule" /\ \A w \in GPUs : active[w] = None
  /\ stop \/ pending = {}
  /\ phase' = "finalize"
  /\ UNCHANGED <<study, raised, stop, lock, proc, working, result, pipes, accounts, reading, progress,
                 deaths>>
Finalize ==
  /\ phase = "finalize"
  /\ phase' = "unlock"
  /\ UNCHANGED <<study, raised, stop, lock, proc, working, result, pipes, accounts, reading, progress,
                 deaths>>

Unlock ==
  /\ phase = "unlock"
  /\ phase' = "close" /\ lock' = FALSE
  /\ UNCHANGED <<study, raised, stop, proc, working, result, pipes, accounts, reading, progress, deaths>>

\* A close command follows what each pipe holds; broken pipes are ignored.
Close ==
  /\ phase = "close"
  /\ phase' = "join" /\ stop' = (stop \/ raised)
  /\ UNCHANGED <<study, raised, lock, proc, working, result, pipes, accounts, reading, progress, deaths>>

Joined ==
  /\ phase = "join" /\ reading = None
  /\ \A w \in GPUs : ~Alive(w)
  /\ phase' = "ended"
  /\ UNCHANGED <<study, raised, stop, lock, proc, working, result, pipes, accounts, reading, progress,
                 deaths>>

Signal ==
  /\ Signals /\ ~stop /\ phase \notin {"ended", "recorded", "reported", "killed"}
  /\ stop' = TRUE
  /\ UNCHANGED <<study, phase, raised, lock, proc, working, result, pipes, accounts, reading, progress,
                 deaths>>

Kill ==
  /\ Kills /\ phase \notin {"reported", "killed"}
  /\ phase' = "killed" /\ lock' = FALSE /\ reading' = None
  /\ UNCHANGED <<study, raised, stop, proc, working, result, pipes, accounts, progress, deaths>>

-----------------------------------------------------------------------------
(* A worker process: _worker_commands *)

Serve(w) ==
  /\ proc[w] = "idle" /\ command[w] # None
  /\ command' = [command EXCEPT ![w] = None]
  /\ proc' = [proc EXCEPT ![w] = "busy"]
  /\ working' = [working EXCEPT ![w] = command[w]]
  /\ UNCHANGED <<study, coordinator, result, reply, held, accounts, reading, progress, deaths>>

\* The commands are served: what is left is close, or a dead coordinator's pipe.
HangUp(w) ==
  /\ proc[w] = "idle" /\ command[w] = None /\ phase \in {"join", "killed"}
  /\ proc' = [proc EXCEPT ![w] = "gone"]
  /\ UNCHANGED <<study, coordinator, working, result, pipes, accounts, reading, progress, deaths>>

Checkpoint(w) ==
  /\ proc[w] = "busy" /\ working[w] \in Simulations /\ progress[working[w]] = 0
  /\ progress' = [progress EXCEPT ![working[w]] = 1]
  /\ UNCHANGED <<study, coordinator, proc, working, result, pipes, accounts, reading, deaths>>

\* What a command may come to, with what is durable by then.  An exception
\* is answered with its text; a run may pause once the event is set.
Results(c) ==
  {"completed", "failed"} \union (IF c \in Simulations /\ stop THEN {"paused"} ELSE {})
DurableLater(c, status) == IF progress[c] = 0 THEN 1 ELSE progress[c] \* mutant: replied before published
Durable(c, status) ==
  IF status = "completed" THEN 2
  ELSE IF status = "paused" /\ progress[c] = 0 THEN 1 ELSE progress[c]
Work(w, status) ==
  LET c == working[w]
  IN /\ proc[w] = "busy" /\ status \in Results(c)
     /\ proc' = [proc EXCEPT ![w] = "replying"]
     /\ result' = [result EXCEPT ![w] = status]
     /\ progress' = IF c \in Tasks THEN [progress EXCEPT ![c] = Durable(c, status)] ELSE progress
     /\ \/ UNCHANGED held
        \/ study.forks /\ held' = held \union {w}
  /\ UNCHANGED <<study, coordinator, working, command, reply, accounts, reading, deaths>>

\* A reply that fits into the pipe is written at once, of another the rest
\* only while the coordinator receives.
Reply(w) ==
  /\ proc[w] = "replying" /\ phase # "killed"
  /\ proc' = [proc EXCEPT ![w] = IF study.large THEN "writing" ELSE "idle"]
  /\ reply' = [reply EXCEPT ![w] = [status |-> result[w], whole |-> ~study.large]]
  /\ working' = [working EXCEPT ![w] = None] /\ result' = [result EXCEPT ![w] = None]
  /\ UNCHANGED <<study, coordinator, command, held, accounts, reading, progress, deaths>>
WriteRest(w) ==
  /\ proc[w] = "writing" /\ reading = w
  /\ proc' = [proc EXCEPT ![w] = "idle"]
  /\ reply' = [reply EXCEPT ![w].whole = TRUE]
  /\ UNCHANGED <<study, coordinator, working, result, command, held, accounts, reading, progress, deaths>>
BrokenPipe(w) ==
  /\ proc[w] \in {"replying", "writing"} /\ phase = "killed"
  /\ proc' = [proc EXCEPT ![w] = "gone"]
  /\ working' = [working EXCEPT ![w] = None] /\ result' = [result EXCEPT ![w] = None]
  /\ UNCHANGED <<study, coordinator, pipes, accounts, reading, progress, deaths>>

Die(w) ==
  /\ Alive(w) /\ deaths < Deaths
  /\ proc' = [proc EXCEPT ![w] = "dead"] /\ deaths' = deaths + 1
  /\ command' = [command EXCEPT ![w] = None]
  /\ working' = [working EXCEPT ![w] = None] /\ result' = [result EXCEPT ![w] = None]
  /\ UNCHANGED <<study, coordinator, reply, held, accounts, reading, progress>>
=============================================================================
