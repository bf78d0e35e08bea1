----------------------------- MODULE GpuProofs -----------------------------
(***************************************************************************)
(* Theorems about GpuRuns: for any number of devices, tasks, invocations,  *)
(* deaths and lost records, no task runs twice at a time, what is reported *)
(* is durable, nothing that was taken is forgotten, and the accounts of    *)
(* compute are honest.                                                     *)
(*                                                                         *)
(* The argument follows a command on its way: from the pipe to the worker, *)
(* to its reply, to what the coordinator makes of it.  Until then it is    *)
(* the one command that its worker owes an answer for (Flow).  The records *)
(* follow from it: an attempt that began is attended until it ends or is   *)
(* cut short, and one that was cut short is never ended (LogInv).          *)
(***************************************************************************)
EXTENDS GpuRuns, TLAPS, WellFoundedInduction

Commands == Tasks \union {"plan", "graph"}
Statuses == {"completed", "paused", "failed"}
Attempts == (1..Invocations) \X Tasks

USE GpuAssumption, TimesAssumption DEF Commands, Statuses

-----------------------------------------------------------------------------
(* The inductive invariant *)

GpuTypes ==
  /\ study \in Studies /\ raised \in BOOLEAN /\ stop \in BOOLEAN
  /\ proc \in [GPUs -> {"none", "idle", "busy", "replying", "writing", "gone", "dead"}]
  /\ command \in [GPUs -> {None} \union Commands]
  /\ working \in [GPUs -> {None} \union Commands]
  /\ active \in [GPUs -> {None} \union Commands]
  /\ result \in [GPUs -> {None} \union Statuses]
  /\ reply \in [GPUs -> {None} \union [status : Statuses, whole : BOOLEAN]]
  /\ pending \subseteq Tasks
  /\ outcome \in [Tasks -> {None} \union Statuses]
  /\ progress \in [Tasks -> 0..2]

\* Where a command may be, and what else its worker then holds
Flow ==
  \A w \in GPUs :
    /\ proc[w] \in {"busy", "replying"} =>
         active[w] # None /\ working[w] = active[w] /\ command[w] = None /\ reply[w] = None
    /\ proc[w] = "replying" => result[w] # None
    /\ proc[w] = "writing" => active[w] # None /\ command[w] = None /\ ~reply[w].whole
    /\ proc[w] = "none" => command[w] = None /\ reply[w] = None /\ active[w] = None
    /\ command[w] # None => proc[w] = "idle" /\ reply[w] = None /\ active[w] = command[w]
    /\ reply[w] # None => active[w] # None /\ proc[w] \in {"idle", "writing", "gone", "dead"}
    /\ reading = w => /\ reply[w] \in [status : Statuses, whole : BOOLEAN]
                      /\ active[w] # None /\ command[w] = None
                      /\ proc[w] \in {"idle", "writing", "gone", "dead"}

\* A task is owed by one worker, and is no longer on offer.
Owed ==
  /\ \A v, w \in GPUs : v # w /\ active[v] \in Tasks => active[v] # active[w]
  /\ \A w \in GPUs : active[w] \notin pending

\* A task that was taken is owed or has its outcome; in the end nothing is owed.
Taken ==
  /\ \A t \in Tasks : outcome[t] = None => t \in pending \/ \E w \in GPUs : active[w] = t
  /\ phase \in {"finalize", "unlock", "close", "join", "ended", "recorded", "reported"} /\ ~raised =>
       \A w \in GPUs : active[w] = None

\* What is going to be told as completed is durable.
Backed ==
  \A w \in GPUs :
    /\ proc[w] = "replying" /\ result[w] = "completed" /\ working[w] \in Tasks =>
         progress[working[w]] = 2
    /\ reply[w] \in [status : Statuses, whole : BOOLEAN] /\ active[w] \in Tasks =>
         (reply[w].status = "completed" => progress[active[w]] = 2)

PoolInv == GpuTypes /\ Flow /\ Owed /\ Taken /\ Backed /\ ReportedIsDurable

-----------------------------------------------------------------------------
(* One lemma per part *)

LEMMA PoolInit == Init => PoolInv
<1> SUFFICES ASSUME Init PROVE PoolInv
  OBVIOUS
<1> USE DEF Init, GpuInit, NewCoordinator
<1>1. GpuTypes
  <2>1. study \in Studies /\ raised \in BOOLEAN /\ stop \in BOOLEAN /\ pending \subseteq Tasks
    OBVIOUS
  <2>8. proc \in [GPUs -> {"none", "idle", "busy", "replying", "writing", "gone", "dead"}]
    OBVIOUS
  <2>9. progress \in [Tasks -> 0..2]
    OBVIOUS
  <2>2. command \in [GPUs -> {None} \union Commands] OBVIOUS
  <2>3. working \in [GPUs -> {None} \union Commands] OBVIOUS
  <2>4. active \in [GPUs -> {None} \union Commands] OBVIOUS
  <2>5. result \in [GPUs -> {None} \union Statuses] OBVIOUS
  <2>6. reply \in [GPUs -> {None} \union [status : Statuses, whole : BOOLEAN]] OBVIOUS
  <2>7. outcome \in [Tasks -> {None} \union Statuses] OBVIOUS
  <2> QED BY <2>1, <2>2, <2>3, <2>4, <2>5, <2>6, <2>7, <2>8, <2>9 DEF GpuTypes
<1>2. Flow BY DEF Flow
<1>3. Owed BY DEF Owed
<1>4. Taken BY DEF Taken
<1>5. Backed BY DEF Backed
<1>6. ReportedIsDurable BY DEF ReportedIsDurable
<1> QED BY <1>1, <1>2, <1>3, <1>4, <1>5, <1>6 DEF PoolInv

\* The steps that touch neither a worker, nor a pipe, nor an account
Aside ==
  /\ UNCHANGED <<study, proc, working, result, pipes, accounts, progress>>
  /\ raised' \in BOOLEAN /\ stop' \in BOOLEAN
  /\ \A w \in GPUs : reading' = w => reading = w \/ reply[w] # None
  /\ phase' \in {"finalize", "unlock", "close", "join", "ended", "recorded", "reported"} /\ ~raised' =>
       \/ \A w \in GPUs : active[w] = None
       \/ phase \in {"finalize", "unlock", "close", "join", "ended", "recorded", "reported"} /\ ~raised

LEMMA AsideSteps ==
  ASSUME PoolInv,
         \/ TakeLock \/ Publish \/ Scheduled \/ Finalize \/ Unlock \/ Close \/ Joined
         \/ Raise \/ Signal \/ Kill \/ ReportInvocation \/ DrawSummary
         \/ \E w \in GPUs : BeginReceive(w)
         \/ UNCHANGED vars
  PROVE  Aside
<1> USE DEF PoolInv, GpuTypes, Aside, pipes, accounts, coordinator
<1>1. CASE TakeLock BY <1>1 DEF TakeLock
<1>2. CASE Publish BY <1>2 DEF Publish
<1>3. CASE Scheduled BY <1>3 DEF Scheduled
<1>4. CASE Finalize BY <1>4 DEF Finalize
<1>5. CASE Unlock BY <1>5 DEF Unlock
<1>6. CASE Close BY <1>6 DEF Close
<1>7. CASE Joined BY <1>7 DEF Joined
<1>8. CASE Raise BY <1>8 DEF Raise
<1>9. CASE Signal BY <1>9 DEF Signal
<1>10. CASE Kill BY <1>10 DEF Kill
<1>11. CASE ReportInvocation BY <1>11 DEF ReportInvocation
<1>12. CASE DrawSummary BY <1>12 DEF DrawSummary
<1>13. CASE \E w \in GPUs : BeginReceive(w) BY <1>13 DEF BeginReceive
<1>14. CASE UNCHANGED vars BY <1>14 DEF vars, gpuVars
<1> QED BY <1>1, <1>2, <1>3, <1>4, <1>5, <1>6, <1>7, <1>8, <1>9, <1>10, <1>11, <1>12, <1>13, <1>14

LEMMA AsideKeeps == PoolInv /\ Aside => PoolInv'
<1> SUFFICES ASSUME PoolInv, Aside PROVE PoolInv'
  OBVIOUS
<1> USE DEF PoolInv, Aside, pipes, accounts
<1>1. GpuTypes' BY DEF GpuTypes
<1>2. Flow' BY DEF Flow, GpuTypes
<1>3. Owed' BY DEF Owed
<1>4. Taken' BY DEF Taken
<1>5. Backed' BY DEF Backed
<1>6. ReportedIsDurable' BY DEF ReportedIsDurable
<1> QED BY <1>1, <1>2, <1>3, <1>4, <1>5, <1>6

\* The coordinator's steps on a pipe

LEMMA LaunchKeeps == ASSUME PoolInv, NEW w \in GPUs, Launch(w) PROVE PoolInv'
<1> USE DEF PoolInv, Launch, pipes, accounts
<1>1. GpuTypes' BY DEF GpuTypes
<1>2. Flow' BY DEF Flow, GpuTypes
<1>3. Owed' BY DEF Owed
<1>4. Taken' BY DEF Taken
<1>5. Backed' BY DEF Backed, GpuTypes
<1>6. ReportedIsDurable' BY DEF ReportedIsDurable
<1> QED BY <1>1, <1>2, <1>3, <1>4, <1>5, <1>6

LEMMA AskKeeps == ASSUME PoolInv, Ask PROVE PoolInv'
<1> USE DEF PoolInv, Ask
<1>0. First \in GPUs /\ Asked(phase) \in {"plan", "graph"} BY DEF Asked
<1>1. GpuTypes'
  <2>1. command' \in [GPUs -> {None} \union Commands] /\ active' \in [GPUs -> {None} \union Commands]
    BY <1>0 DEF GpuTypes
  <2>2. raised' \in BOOLEAN BY DEF GpuTypes
  <2> QED BY <2>1, <2>2 DEF GpuTypes
<1>2. Flow' BY <1>0 DEF Flow, GpuTypes, Alive
<1>3. Owed' BY <1>0 DEF Owed, GpuTypes
<1>4. Taken' BY <1>0 DEF Taken, GpuTypes
<1>5. Backed'
  <2>1. \A w \in GPUs : active'[w] \in Tasks => active'[w] = active[w] BY <1>0 DEF GpuTypes
  <2> QED BY <2>1 DEF Backed
<1>6. ReportedIsDurable' BY DEF ReportedIsDurable
<1> QED BY <1>1, <1>2, <1>3, <1>4, <1>5, <1>6

LEMMA SubmitKeeps == ASSUME PoolInv, NEW w \in GPUs, NEW t \in Tasks, Submit(w, t) PROVE PoolInv'
<1> USE DEF PoolInv, Submit
<1>1. GpuTypes'
  <2>1. command' \in [GPUs -> {None} \union Commands] /\ active' \in [GPUs -> {None} \union Commands]
    BY DEF GpuTypes
  <2>2. outcome' \in [Tasks -> {None} \union Statuses] /\ stop' \in BOOLEAN
    <3>1. CASE Alive(w)
      BY <3>1 DEF GpuTypes
    <3>2. CASE ~Alive(w)
      BY <3>2 DEF GpuTypes
    <3> QED BY <3>1, <3>2
  <2>3. /\ study' \in Studies /\ raised' \in BOOLEAN /\ pending' \subseteq Tasks
        /\ proc' = proc /\ working' = working /\ result' = result /\ reply' = reply
        /\ progress' = progress
    BY DEF GpuTypes
  <2> QED BY <2>1, <2>2, <2>3 DEF GpuTypes
<1>2. Flow' BY DEF Flow, GpuTypes, Alive
<1>3. Owed' BY DEF Owed, GpuTypes
<1>4. Taken' BY DEF Taken, GpuTypes
<1>5. Backed' BY DEF Backed, GpuTypes, Flow
<1>6. ReportedIsDurable' BY DEF ReportedIsDurable, GpuTypes
<1> QED BY <1>1, <1>2, <1>3, <1>4, <1>5, <1>6

\* An answer, or none: its worker holds nothing of the command any more.
LEMMA SettleKeeps ==
  ASSUME PoolInv, NEW w \in GPUs, NEW status \in Statuses, Waiting, Settle(w, status),
         active[w] # None, proc[w] \notin {"busy", "replying", "writing"}, command[w] = None,
         status = "completed" => (active[w] \in Tasks => progress[active[w]] = 2),
         reply' = [reply EXCEPT ![w] = None], reading' = None,
         UNCHANGED <<study, proc, working, result, command, pending, progress>>
  PROVE  PoolInv'
<1> USE DEF PoolInv, Settle
<1>1. GpuTypes'
  <2>1. active' \in [GPUs -> {None} \union Commands]
    BY DEF GpuTypes
  <2>2. outcome' \in [Tasks -> {None} \union Statuses] /\ stop' \in BOOLEAN /\ raised' \in BOOLEAN
    <3>1. CASE active[w] \in Tasks BY <3>1 DEF GpuTypes
    <3>2. CASE active[w] \notin Tasks BY <3>2 DEF GpuTypes
    <3> QED BY <3>1, <3>2
  <2>3. reply' \in [GPUs -> {None} \union [status : Statuses, whole : BOOLEAN]] /\ reading' = None
    BY DEF GpuTypes
  <2> QED BY <2>1, <2>2, <2>3 DEF GpuTypes
<1>2. Flow' BY DEF Flow, GpuTypes
<1>3. Owed' BY DEF Owed, GpuTypes
<1>4. Taken'
  <2>1. ASSUME NEW t \in Tasks, outcome'[t] = None
        PROVE  t \in pending \/ \E v \in GPUs : active'[v] = t
    <3>1. outcome[t] = None /\ t # active[w]
      BY <2>1 DEF GpuTypes
    <3> QED BY <3>1 DEF Taken, GpuTypes
  <2>2. phase' \in {"finalize", "unlock", "close", "join", "ended", "recorded", "reported"} => raised'
    BY DEF Waiting
  <2> QED BY <2>1, <2>2 DEF Taken
<1>5. Backed' BY DEF Backed, GpuTypes
<1>6. ReportedIsDurable' BY DEF ReportedIsDurable, GpuTypes
<1> QED BY <1>1, <1>2, <1>3, <1>4, <1>5, <1>6

LEMMA NoticeExitKeeps == ASSUME PoolInv, NEW w \in GPUs, NoticeExit(w) PROVE PoolInv'
<1>1. /\ Waiting /\ Settle(w, "failed") /\ active[w] # None
      /\ UNCHANGED <<study, proc, working, result, command, pending, progress>>
      /\ reply' = reply /\ reading' = None
  BY DEF NoticeExit, pipes
<1>2. proc[w] \in {"gone", "dead"} /\ command[w] = None /\ reply[w] = None
  BY DEF NoticeExit, Ended, PoolInv, Flow
<1>3. reply' = [reply EXCEPT ![w] = None]
  BY <1>1, <1>2 DEF PoolInv, GpuTypes
<1> QED BY <1>1, <1>2, <1>3, SettleKeeps

LEMMA ReceiveKeeps == ASSUME PoolInv, NEW w \in GPUs, Receive(w) PROVE PoolInv'
<1>1. /\ reading = w /\ reading' = None /\ reply' = [reply EXCEPT ![w] = None]
      /\ reply[w].whole \/ Ended(w)
      /\ UNCHANGED <<study, proc, working, result, command, pending, progress>>
  BY DEF Receive
<1>2. /\ reply[w] \in [status : Statuses, whole : BOOLEAN] /\ active[w] # None
      /\ proc[w] \in {"idle", "gone", "dead"} /\ command[w] = None
  BY <1>1 DEF PoolInv, Flow, GpuTypes, Ended
<1>3. CASE Waiting
  <2> DEFINE status == IF reply[w].whole THEN reply[w].status ELSE "failed"
  <2>1. Settle(w, status) /\ status \in Statuses
    BY <1>2, <1>3 DEF Receive
  <2>2. status = "completed" => (active[w] \in Tasks => progress[active[w]] = 2)
    BY <1>2 DEF PoolInv, Backed
  <2> HIDE DEF status
  <2> QED BY <1>1, <1>2, <1>3, <2>1, <2>2, SettleKeeps
<1>4. CASE ~Waiting
  <2>0. UNCHANGED <<phase, raised, stop, active, outcome>>
    BY <1>4 DEF Receive
  <2> USE <1>1, <1>2, <2>0 DEF PoolInv
  <2>1. GpuTypes' BY DEF GpuTypes
  <2>2. Flow' BY DEF Flow, GpuTypes
  <2>3. Owed' BY DEF Owed
  <2>4. Taken' BY DEF Taken
  <2>5. Backed' BY DEF Backed, GpuTypes
  <2>6. ReportedIsDurable' BY DEF ReportedIsDurable
  <2> QED BY <2>1, <2>2, <2>3, <2>4, <2>5, <2>6
<1> QED BY <1>3, <1>4

\* The steps of a worker

LEMMA ServeKeeps == ASSUME PoolInv, NEW w \in GPUs, Serve(w) PROVE PoolInv'
<1> USE DEF PoolInv, Serve, accounts, coordinator
<1>1. GpuTypes' BY DEF GpuTypes
<1>2. Flow' BY DEF Flow, GpuTypes
<1>3. Owed' BY DEF Owed
<1>4. Taken' BY DEF Taken
<1>5. Backed' BY DEF Backed, GpuTypes
<1>6. ReportedIsDurable' BY DEF ReportedIsDurable
<1> QED BY <1>1, <1>2, <1>3, <1>4, <1>5, <1>6

LEMMA HangUpKeeps == ASSUME PoolInv, NEW w \in GPUs, HangUp(w) PROVE PoolInv'
<1> USE DEF PoolInv, HangUp, accounts, pipes, coordinator
<1>1. GpuTypes' BY DEF GpuTypes
<1>2. Flow' BY DEF Flow, GpuTypes
<1>3. Owed' BY DEF Owed
<1>4. Taken' BY DEF Taken
<1>5. Backed' BY DEF Backed, GpuTypes
<1>6. ReportedIsDurable' BY DEF ReportedIsDurable
<1> QED BY <1>1, <1>2, <1>3, <1>4, <1>5, <1>6

\* What is durable stays durable.
LEMMA CheckpointKeeps == ASSUME PoolInv, NEW w \in GPUs, Checkpoint(w) PROVE PoolInv'
<1> USE DEF PoolInv, Checkpoint, accounts, pipes, coordinator
<1>0. working[w] \in Tasks /\ progress[working[w]] = 0 BY DEF Tasks
<1>1. GpuTypes' BY <1>0 DEF GpuTypes
<1>2. Flow' BY DEF Flow
<1>3. Owed' BY DEF Owed
<1>4. Taken' BY DEF Taken
<1>5. \A t \in Tasks : progress[t] = 2 => progress'[t] = 2 BY <1>0 DEF GpuTypes
<1>6. Backed' BY <1>5 DEF Backed
<1>7. ReportedIsDurable' BY <1>5 DEF ReportedIsDurable
<1> QED BY <1>1, <1>2, <1>3, <1>4, <1>6, <1>7

LEMMA WorkKeeps ==
  ASSUME PoolInv, NEW w \in GPUs, NEW status \in Statuses, Work(w, status) PROVE PoolInv'
<1> USE DEF PoolInv, Work, accounts, coordinator
<1>0. \A t \in Tasks :
        /\ Durable(t, status) \in 0..2
        /\ progress[t] = 2 \/ status = "completed" => Durable(t, status) = 2
  BY DEF Durable, GpuTypes
<1>1. \A t \in Tasks : progress[t] = 2 => progress'[t] = 2 BY <1>0 DEF GpuTypes
<1>2. GpuTypes'
  <2>1. progress' \in [Tasks -> 0..2] BY <1>0 DEF GpuTypes
  <2>2. result' \in [GPUs -> {None} \union Statuses] BY DEF GpuTypes
  <2>3. proc' \in [GPUs -> {"none", "idle", "busy", "replying", "writing", "gone", "dead"}]
    BY DEF GpuTypes
  <2> QED BY <2>1, <2>2, <2>3 DEF GpuTypes
<1>3. Flow' BY DEF Flow, GpuTypes
<1>4. Owed' BY DEF Owed
<1>5. Taken' BY DEF Taken
<1>6. Backed'
  <2>1. working[w] \in Tasks /\ status = "completed" => progress'[working[w]] = 2
    BY <1>0 DEF GpuTypes
  <2> QED BY <1>1, <2>1 DEF Backed, GpuTypes
<1>7. ReportedIsDurable' BY <1>1 DEF ReportedIsDurable
<1> QED BY <1>2, <1>3, <1>4, <1>5, <1>6, <1>7

LEMMA ReplyKeeps == ASSUME PoolInv, NEW w \in GPUs, Reply(w) PROVE PoolInv'
<1> USE DEF PoolInv, Reply, accounts, coordinator
<1>0. study.large \in BOOLEAN /\ result[w] \in Statuses
  BY DEF GpuTypes, Flow
<1>1. GpuTypes'
  <2>1. reply' \in [GPUs -> {None} \union [status : Statuses, whole : BOOLEAN]]
    BY <1>0 DEF GpuTypes
  <2>2. proc' \in [GPUs -> {"none", "idle", "busy", "replying", "writing", "gone", "dead"}]
    BY DEF GpuTypes
  <2>3. working' \in [GPUs -> {None} \union Commands] /\ result' \in [GPUs -> {None} \union Statuses]
    BY DEF GpuTypes
  <2> QED BY <2>1, <2>2, <2>3 DEF GpuTypes
<1>2. Flow'
  <2>1. /\ proc'[w] = (IF study.large THEN "writing" ELSE "idle")
        /\ reply'[w].whole = ~study.large /\ reading # w
        /\ active[w] # None /\ command[w] = None
    BY DEF GpuTypes, Flow
  <2>2. \A v \in GPUs \ {w} :
          /\ proc'[v] = proc[v] /\ reply'[v] = reply[v]
          /\ result'[v] = result[v] /\ working'[v] = working[v]
    BY DEF GpuTypes
  <2>3. CASE study.large
    <3>1. reply'[w].whole = FALSE /\ proc'[w] = "writing" BY <2>1, <2>3
    <3>2. ~reply'[w].whole BY <3>1
    <3> QED BY <2>1, <2>2, <3>1, <3>2 DEF Flow
  <2>4. CASE ~study.large BY <2>1, <2>2, <2>4 DEF Flow
  <2> QED BY <2>3, <2>4
<1>3. Owed' BY DEF Owed
<1>4. Taken' BY DEF Taken
<1>5. Backed' BY DEF Backed, GpuTypes, Flow
<1>6. ReportedIsDurable' BY DEF ReportedIsDurable
<1> QED BY <1>1, <1>2, <1>3, <1>4, <1>5, <1>6

LEMMA WriteRestKeeps == ASSUME PoolInv, NEW w \in GPUs, WriteRest(w) PROVE PoolInv'
<1> USE DEF PoolInv, WriteRest, accounts, coordinator
<1>0. /\ reply[w] \in [status : Statuses, whole : BOOLEAN]
      /\ active[w] # None /\ command[w] = None
  BY DEF Flow
<1>1. /\ reply'[w] = [reply[w] EXCEPT !.whole = TRUE]
      /\ \A v \in GPUs \ {w} : reply'[v] = reply[v]
      /\ DOMAIN reply' = GPUs
      /\ reply' = [v \in GPUs |-> reply'[v]]
  BY DEF GpuTypes
<1>2. /\ reply'[w] \in [status : Statuses, whole : BOOLEAN]
      /\ reply'[w].status = reply[w].status
  BY <1>0, <1>1
<1>3. /\ proc' = [proc EXCEPT ![w] = "idle"] /\ proc[w] = "writing"
      /\ \A v \in GPUs \ {w} : reading # v
  OBVIOUS
<1>4. GpuTypes'
  <2>1. reply' \in [GPUs -> {None} \union [status : Statuses, whole : BOOLEAN]]
    BY <1>1, <1>2 DEF GpuTypes
  <2>2. proc' \in [GPUs -> {"none", "idle", "busy", "replying", "writing", "gone", "dead"}]
    BY DEF GpuTypes
  <2> QED BY <2>1, <2>2 DEF GpuTypes
<1>5. Flow' BY <1>0, <1>1, <1>2, <1>3 DEF Flow, GpuTypes
<1>6. Owed' BY DEF Owed
<1>7. Taken' BY DEF Taken
<1>8. Backed'
  <2>1. ASSUME NEW v \in GPUs, reply'[v] \in [status : Statuses, whole : BOOLEAN],
                active[v] \in Tasks, reply'[v].status = "completed"
        PROVE  progress[active[v]] = 2
    <3>1. CASE v = w BY <1>0, <1>2, <2>1, <3>1 DEF Backed
    <3>2. CASE v # w BY <1>1, <2>1, <3>2 DEF Backed
    <3> QED BY <3>1, <3>2
  <2>2. \A v \in GPUs : proc'[v] = "replying" => proc[v] = "replying" BY <1>3 DEF GpuTypes
  <2> QED BY <2>1, <2>2 DEF Backed
<1>9. ReportedIsDurable' BY DEF ReportedIsDurable
<1> QED BY <1>4, <1>5, <1>6, <1>7, <1>8, <1>9

LEMMA BrokenPipeKeeps == ASSUME PoolInv, NEW w \in GPUs, BrokenPipe(w) PROVE PoolInv'
<1> USE DEF PoolInv, BrokenPipe, accounts, pipes, coordinator
<1>1. GpuTypes' BY DEF GpuTypes
<1>2. Flow' BY DEF Flow, GpuTypes
<1>3. Owed' BY DEF Owed
<1>4. Taken' BY DEF Taken
<1>5. Backed' BY DEF Backed, GpuTypes
<1>6. ReportedIsDurable' BY DEF ReportedIsDurable
<1> QED BY <1>1, <1>2, <1>3, <1>4, <1>5, <1>6

\* A death takes the command and the work along; its worker still owes the answer.
LEMMA DieKeeps == ASSUME PoolInv, NEW w \in GPUs, Die(w) PROVE PoolInv'
<1> USE DEF PoolInv, Die, accounts, coordinator
<1>1. GpuTypes' BY DEF GpuTypes
<1>2. Flow' BY DEF Flow, GpuTypes, Alive
<1>3. Owed' BY DEF Owed
<1>4. Taken' BY DEF Taken
<1>5. Backed' BY DEF Backed, GpuTypes
<1>6. ReportedIsDurable' BY DEF ReportedIsDurable
<1> QED BY <1>1, <1>2, <1>3, <1>4, <1>5, <1>6

\* A new invocation finds only what is durable.
LEMMA InvokeKeeps == ASSUME PoolInv, Invoke PROVE PoolInv'
<1> USE DEF PoolInv, Invoke
<1>1. GpuTypes'
  <2>1. /\ study' \in Studies /\ raised' \in BOOLEAN /\ stop' \in BOOLEAN
        /\ proc' \in [GPUs -> {"none", "idle", "busy", "replying", "writing", "gone", "dead"}]
        /\ progress' \in [Tasks -> 0..2]
    BY DEF GpuTypes
  <2>2. pending' \subseteq Tasks BY DEF Tasks, Done
  <2>3. command' \in [GPUs -> {None} \union Commands] OBVIOUS
  <2>4. working' \in [GPUs -> {None} \union Commands] OBVIOUS
  <2>5. active' \in [GPUs -> {None} \union Commands] OBVIOUS
  <2>6. result' \in [GPUs -> {None} \union Statuses] OBVIOUS
  <2>7. reply' \in [GPUs -> {None} \union [status : Statuses, whole : BOOLEAN]] OBVIOUS
  <2>8. outcome' \in [Tasks -> {None} \union Statuses] OBVIOUS
  <2> QED BY <2>1, <2>2, <2>3, <2>4, <2>5, <2>6, <2>7, <2>8 DEF GpuTypes
<1>2. Flow' BY DEF Flow
<1>3. Owed' BY DEF Owed, Tasks
<1>4. Taken' BY DEF Taken, Tasks
<1>5. Backed' BY DEF Backed
<1>6. ReportedIsDurable' BY DEF ReportedIsDurable, Done
<1> QED BY <1>1, <1>2, <1>3, <1>4, <1>5, <1>6

LEMMA PoolStep == PoolInv /\ [Next]_vars => PoolInv'
<1> SUFFICES ASSUME PoolInv, [Next]_vars PROVE PoolInv'
  OBVIOUS
<1>1. CASE Coordinate
  BY <1>1, AsideSteps, AsideKeeps, LaunchKeeps, AskKeeps, SubmitKeeps, NoticeExitKeeps, ReceiveKeeps
     DEF Coordinate, Quietly, PublishRequest
<1>2. ASSUME NEW w \in GPUs, Worker(w) PROVE PoolInv'
  <2>1. CASE ServeTask(w) BY <2>1, ServeKeeps DEF ServeTask
  <2>2. ASSUME NEW s \in {"completed", "paused", "failed"}, EndTask(w, s) PROVE PoolInv'
    BY <2>2, WorkKeeps DEF EndTask
  <2> QED BY <1>2, <2>1, <2>2, HangUpKeeps, ReplyKeeps, WriteRestKeeps, BrokenPipeKeeps
          DEF Worker, Quietly
<1>3. CASE Environment
  BY <1>3, AsideSteps, AsideKeeps, CheckpointKeeps, DieKeeps DEF Environment, Quietly, DieAt
<1>4. CASE Invoke BY <1>4, InvokeKeeps
<1>5. CASE UNCHANGED vars BY <1>5, AsideSteps, AsideKeeps
<1> QED BY <1>1, <1>2, <1>3, <1>4, <1>5 DEF Next

THEOREM PoolInvariant == Spec => []PoolInv
BY PoolInit, PoolStep, PTL DEF Spec

-----------------------------------------------------------------------------
(* The theorems about tasks *)

\* The processes and their pipes keep their types, whatever dies.
THEOREM GpuTypeCorrect == Spec => []GpuTypes
<1>1. PoolInv => GpuTypes BY DEF PoolInv
<1> QED BY <1>1, PoolInvariant, PTL

\* Two workers never execute one task at the same time.
THEOREM TasksRunOnce == Spec => []NeverTwice
<1>1. PoolInv => NeverTwice BY DEF PoolInv, NeverTwice, OnTask, Flow, Owed
<1> QED BY <1>1, PoolInvariant, PTL

\* What the coordinator counts as completed is durable.
THEOREM ReportsAreDurable == Spec => []ReportedIsDurable
<1>1. PoolInv => ReportedIsDurable BY DEF PoolInv
<1> QED BY <1>1, PoolInvariant, PTL

\* A task that was taken has an outcome when the loop ends without an exception.
THEOREM TasksAreRemembered == Spec => []NothingIsForgotten
<1>1. PoolInv => NothingIsForgotten
  <2> SUFFICES ASSUME PoolInv, phase \in {"finalize", "ended", "recorded", "reported"}, ~raised,
                      NEW t \in Tasks, outcome[t] = None
               PROVE  t \in pending
    BY DEF NothingIsForgotten
  <2>1. \A w \in GPUs : active[w] = None BY DEF PoolInv, Taken
  <2> QED BY <2>1 DEF PoolInv, Taken
<1> QED BY <1>1, PoolInvariant, PTL
-----------------------------------------------------------------------------
(* The records: what an attempt leaves is decided by who still works on it *)

Ends == {None, "completed", "paused", "failed", "skipped"}

LogTypes ==
  /\ n \in 1..Invocations /\ lost \in Nat
  /\ begun \in [Attempts -> {None} \union 0..2] /\ ended \in [Attempts -> Ends]
  /\ started \subseteq Attempts /\ cut \subseteq Attempts
  /\ reports \in [1..Invocations -> {None, "failed", "incomplete", "completed"}]

\* An attempt of this invocation without an end is being worked on, or was cut short.
Attended ==
  /\ \A a \in Attempts : ended[a] # None \/ a \in started \/ a \in cut => begun[a] # None
  /\ \A a \in Attempts : a[1] > n => begun[a] = None
  /\ \A w \in GPUs : OnTask(w) => begun[<<n, working[w]>>] # None
  /\ lost = 0 => \A t \in Tasks : begun[<<n, t>>] # None /\ ended[<<n, t>>] = None =>
       <<n, t>> \in cut \/ \E w \in GPUs : OnTask(w) /\ working[w] = t

\* A task has not begun while it is on offer or in a pipe, and not ended under its worker.
Fresh ==
  /\ \A t \in pending : begun[<<n, t>>] = None
  /\ \A w \in GPUs :
       /\ command[w] \in Tasks => begun[<<n, command[w]>>] = None
       /\ OnTask(w) => ended[<<n, working[w]>>] = None

\* What was cut short is not taken up again in the same invocation.
CutOff ==
  \A a \in cut :
    /\ ended[a] = None
    /\ a[1] = n => a[2] \notin pending /\ \A w \in GPUs : active[w] = a[2] => Ended(w)

\* Later attempts begin no earlier.
Growing ==
  /\ \A k, m \in 1..Invocations, t \in Tasks :
       k <= m /\ begun[<<k, t>>] # None /\ begun[<<m, t>>] # None =>
         begun[<<k, t>>] <= begun[<<m, t>>]
  /\ \A a \in Attempts : begun[a] # None => begun[a] <= progress[a[2]]

\* An invocation's record follows all of its attempts, the summary the record.
Reported ==
  /\ phase \in {"ended", "recorded", "reported"} => \A w \in GPUs : ~Alive(w)
  /\ \A m \in 1..Invocations :
       reports[m] # None => m < n \/ (m = n /\ phase \in {"recorded", "reported", "killed"})
  /\ summary # None => \A m \in summary.invocations : m \in 1..Invocations /\ reports[m] # None
  /\ summary # None /\ phase = "recorded" => n \notin summary.invocations

LogInv ==
  /\ LogTypes /\ Attended /\ Fresh /\ CutOff /\ Growing /\ Reported
  /\ CompletedMeansAll /\ UnknownTimeIsTold

LEMMA LogInitially == Init => LogInv
<1> SUFFICES ASSUME Init PROVE LogInv
  OBVIOUS
<1> USE DEF Init, GpuInit, NewCoordinator, Log!LogInit
<1>0. Log!Attempts = Attempts BY DEF Log!Attempts, Attempts, Tasks
<1>1. LogTypes
  <2>1. begun \in [Attempts -> {None} \union 0..2] /\ ended \in [Attempts -> Ends] BY <1>0 DEF Ends
  <2>2. n \in 1..Invocations OBVIOUS
  <2>3. reports \in [1..Invocations -> {None, "failed", "incomplete", "completed"}] OBVIOUS
  <2> QED BY <2>1, <2>2, <2>3 DEF LogTypes
<1>2. Attended BY <1>0 DEF Attended, OnTask, Attempts
<1>3. CutOff BY DEF CutOff
<1>4. Growing BY <1>0 DEF Growing, Attempts
<1>5. Reported BY DEF Reported
<1>6. CompletedMeansAll /\ UnknownTimeIsTold BY DEF CompletedMeansAll, UnknownTimeIsTold
<1>7. Fresh BY <1>0 DEF Fresh, OnTask, Attempts, Tasks
<1> QED BY <1>1, <1>2, <1>3, <1>4, <1>5, <1>6, <1>7 DEF LogInv

\* A step that begins, ends and cuts short no attempt
Unrecorded ==
  /\ UNCHANGED <<logVars, n, cut>>
  /\ \A w \in GPUs :
       /\ OnTask(w)' <=> OnTask(w)
       /\ OnTask(w) => working'[w] = working[w]
       /\ Ended(w) => Ended(w)'
       /\ command'[w] \in Tasks => command'[w] = command[w] \/ command'[w] \in pending
       /\ active'[w] \in Tasks => active'[w] = active[w] \/ active'[w] \in pending
  /\ \A t \in Tasks : progress[t] <= progress'[t]
  /\ pending' \subseteq pending
  /\ phase' \in {"ended", "recorded", "reported"} => \A w \in GPUs : ~Alive(w)'
  /\ phase \in {"recorded", "reported", "killed"} => phase' \in {"recorded", "reported", "killed"}
  /\ phase' = "reported" => phase = "reported" /\ progress' = progress
  /\ phase' = "recorded" => phase = "recorded"

LEMMA UnrecordedKeeps == PoolInv /\ PoolInv' /\ LogInv /\ Unrecorded => LogInv'
<1> SUFFICES ASSUME PoolInv, PoolInv', LogInv, Unrecorded PROVE LogInv'
  OBVIOUS
<1> USE DEF LogInv, Unrecorded, logVars, OnTask, Ended, Alive
<1>1. LogTypes' BY DEF LogTypes
<1>2. Attended'
  <2>1. /\ \A a \in Attempts : ended'[a] # None \/ a \in started' \/ a \in cut' => begun'[a] # None
        /\ \A a \in Attempts : a[1] > n' => begun'[a] = None
    BY DEF Attended
  <2>2. \A w \in GPUs : OnTask(w)' => begun'[<<n', working'[w]>>] # None
    BY DEF Attended
  <2>3. ASSUME lost' = 0, NEW t \in Tasks, begun'[<<n', t>>] # None, ended'[<<n', t>>] = None
        PROVE  <<n', t>> \in cut' \/ \E w \in GPUs : OnTask(w)' /\ working'[w] = t
    BY <2>3 DEF Attended
  <2> QED BY <2>1, <2>2, <2>3 DEF Attended
<1>3. CutOff'
  <2> SUFFICES ASSUME NEW a \in cut PROVE
         /\ ended[a] = None
         /\ a[1] = n => a[2] \notin pending' /\ \A w \in GPUs : active'[w] = a[2] => Ended(w)'
    BY DEF CutOff
  <2>1. a[2] \in Tasks BY DEF LogTypes, Attempts
  <2>2. /\ ended[a] = None
        /\ a[1] = n => a[2] \notin pending /\ \A w \in GPUs : active[w] = a[2] => Ended(w)
    BY DEF CutOff
  <2>3. ASSUME a[1] = n, NEW w \in GPUs, active'[w] = a[2] PROVE Ended(w)'
    <3>1. active[w] = a[2] BY <2>1, <2>2, <2>3
    <3> QED BY <2>2, <2>3, <3>1
  <2> QED BY <2>2, <2>3
<1>4. Growing'
  <2>1. ASSUME NEW a \in Attempts, begun[a] # None PROVE begun[a] <= progress'[a[2]]
    <3>1. a[2] \in Tasks /\ begun[a] \in 0..2 BY <2>1 DEF LogTypes, Attempts
    <3>2. progress[a[2]] \in Int /\ progress'[a[2]] \in Int
      BY <3>1 DEF PoolInv, GpuTypes
    <3> QED BY <2>1, <3>1, <3>2 DEF Growing
  <2> QED BY <2>1 DEF Growing
<1>5. Reported' BY DEF Reported
<1>6. CompletedMeansAll'
  <2>1. Done = Tasks => Done' = Tasks BY DEF Done, PoolInv, GpuTypes
  <2> QED BY <2>1 DEF CompletedMeansAll
<1>7. UnknownTimeIsTold' BY DEF UnknownTimeIsTold, Done
<1>8. Fresh' BY DEF Fresh
<1> QED BY <1>1, <1>2, <1>3, <1>4, <1>5, <1>6, <1>7, <1>8

LEMMA UnrecordedSteps ==
  ASSUME PoolInv, PoolInv', LogInv,
         \/ Quietly(Ask \/ TakeLock \/ Scheduled \/ Finalize \/ Unlock \/ Close \/ Joined)
         \/ \E w \in GPUs : Quietly(Launch(w) \/ NoticeExit(w) \/ BeginReceive(w) \/ Receive(w))
         \/ \E w \in GPUs, t \in Tasks : Quietly(Submit(w, t))
         \/ PublishRequest
         \/ \E w \in GPUs : Quietly(HangUp(w) \/ Reply(w) \/ WriteRest(w) \/ BrokenPipe(w))
         \/ \E w \in GPUs : Quietly(Checkpoint(w))
         \/ Quietly(Raise \/ Signal \/ Kill)
         \/ UNCHANGED vars
  PROVE  Unrecorded
<1> USE DEF Quietly, PoolInv, LogInv, Unrecorded, OnTask, Ended, Alive, pipes, accounts, coordinator
<1>1. CASE Quietly(Ask) BY <1>1 DEF Ask, GpuTypes, Asked, Reported
<1>2. CASE Quietly(TakeLock) BY <1>2 DEF TakeLock, GpuTypes
<1>3. CASE Quietly(Scheduled) BY <1>3 DEF Scheduled, GpuTypes
<1>4. CASE Quietly(Finalize) BY <1>4 DEF Finalize, GpuTypes
<1>5. CASE Quietly(Unlock) BY <1>5 DEF Unlock, GpuTypes
<1>6. CASE Quietly(Close) BY <1>6 DEF Close, GpuTypes
<1>7. CASE Quietly(Joined) BY <1>7 DEF Joined, GpuTypes
<1>8. ASSUME NEW w \in GPUs, Quietly(Launch(w)) PROVE Unrecorded BY <1>8 DEF Launch, GpuTypes
<1>9. ASSUME NEW w \in GPUs, Quietly(NoticeExit(w)) PROVE Unrecorded
  BY <1>9 DEF NoticeExit, Settle, Waiting, GpuTypes
<1>10. ASSUME NEW w \in GPUs, Quietly(BeginReceive(w)) PROVE Unrecorded
  BY <1>10 DEF BeginReceive, GpuTypes, Reported
<1>11. ASSUME NEW w \in GPUs, Quietly(Receive(w)) PROVE Unrecorded
  BY <1>11 DEF Receive, Settle, Waiting, GpuTypes, Reported
<1>12. ASSUME NEW w \in GPUs, NEW t \in Tasks, Quietly(Submit(w, t)) PROVE Unrecorded
  BY <1>12 DEF Submit, GpuTypes
<1>13. CASE PublishRequest BY <1>13 DEF PublishRequest, Publish, logVars, GpuTypes
<1>14. ASSUME NEW w \in GPUs, Quietly(HangUp(w)) PROVE Unrecorded
  BY <1>14 DEF HangUp, GpuTypes, Reported
<1>15. ASSUME NEW w \in GPUs, Quietly(Reply(w)) PROVE Unrecorded
  BY <1>15 DEF Reply, GpuTypes, Reported
<1>16. ASSUME NEW w \in GPUs, Quietly(WriteRest(w)) PROVE Unrecorded
  BY <1>16 DEF WriteRest, GpuTypes, Reported
<1>17. ASSUME NEW w \in GPUs, Quietly(BrokenPipe(w)) PROVE Unrecorded
  BY <1>17 DEF BrokenPipe, GpuTypes, Reported
<1>18. ASSUME NEW w \in GPUs, Quietly(Checkpoint(w)) PROVE Unrecorded
  BY <1>18 DEF Checkpoint, GpuTypes, Reported, Tasks
<1>19. CASE Quietly(Raise) BY <1>19 DEF Raise, GpuTypes
<1>20. CASE Quietly(Signal) BY <1>20 DEF Signal, GpuTypes, Reported
<1>21. CASE Quietly(Kill) BY <1>21 DEF Kill, GpuTypes
<1>22. CASE UNCHANGED vars BY <1>22 DEF vars, gpuVars, GpuTypes, Reported
<1> QED BY <1>1, <1>2, <1>3, <1>4, <1>5, <1>6, <1>7, <1>8, <1>9, <1>10, <1>11, <1>12, <1>13,
           <1>14, <1>15, <1>16, <1>17, <1>18, <1>19, <1>20, <1>21, <1>22

\* A task that is served is not cut off, and begins at what is saved by now.
LEMMA ServeTaskKeeps ==
  ASSUME PoolInv, PoolInv', LogInv, NEW w \in GPUs, ServeTask(w) PROVE LogInv'
<1> USE DEF PoolInv, LogInv
<1>0. /\ proc[w] = "idle" /\ proc' = [proc EXCEPT ![w] = "busy"]
      /\ working' = [working EXCEPT ![w] = command[w]]
      /\ active[w] = command[w] /\ command[w] # None
      /\ UNCHANGED <<study, coordinator, accounts, progress, n, cut>>
  BY DEF ServeTask, Serve, Flow
<1>1. CASE command[w] \notin Tasks
  <2>1. Unrecorded
    BY <1>0, <1>1
       DEF ServeTask, Serve, Unrecorded, OnTask, Ended, Alive, GpuTypes, coordinator, accounts, Reported
  <2> QED BY <2>1, UnrecordedKeeps
<1>2. CASE command[w] \in Tasks
  <2> DEFINE c == command[w]
             a == <<n, c>>
  <2>0. /\ begun' = [begun EXCEPT ![a] = progress[c]]
        /\ \/ started' = started \union {a} /\ lost' = lost
           \/ started' = started /\ lost' = lost + 1
        /\ UNCHANGED <<ended, reports, summary>>
    BY <1>2 DEF ServeTask, Log!StartAttempt, Log!Best
  <2>1. /\ c \in Tasks /\ a \in Attempts /\ n \in 1..Invocations
        /\ progress[c] \in 0..2 /\ progress[c] # None
        /\ begun'[a] = progress[c] /\ \A b \in Attempts \ {a} : begun'[b] = begun[b]
    BY <1>2, <2>0 DEF LogTypes, Attempts, GpuTypes
  <2>2. a \notin cut
    BY <1>0, <1>2 DEF CutOff, Ended
  <2> HIDE DEF c, a
  <2> USE <1>0, <2>0, <2>1 DEF coordinator, accounts
  <2>3. LogTypes' BY DEF LogTypes
  <2>4. Attended'
    <3>1. /\ \A b \in Attempts : ended'[b] # None \/ b \in started' \/ b \in cut' => begun'[b] # None
          /\ \A b \in Attempts : b[1] > n' => begun'[b] = None
      BY DEF Attended, a
    <3>2. ASSUME NEW v \in GPUs, OnTask(v)' PROVE begun'[<<n', working'[v]>>] # None
      <4>1. CASE v = w BY <4>1 DEF GpuTypes, a, c
      <4>2. CASE v # w
        <5>1. OnTask(v) /\ working'[v] = working[v] /\ <<n, working[v]>> \in Attempts
          BY <3>2, <4>2 DEF OnTask, GpuTypes, Attempts
        <5> QED BY <5>1 DEF Attended
      <4> QED BY <4>1, <4>2
    <3>3. ASSUME lost' = 0, NEW t \in Tasks, begun'[<<n', t>>] # None, ended'[<<n', t>>] = None
          PROVE  <<n', t>> \in cut' \/ \E v \in GPUs : OnTask(v)' /\ working'[v] = t
      <4>1. CASE t = c
        <5>1. OnTask(w)' /\ working'[w] = t BY <4>1 DEF OnTask, GpuTypes, c
        <5> QED BY <5>1
      <4>2. CASE t # c
        <5>1. begun[<<n, t>>] # None /\ lost = 0
          BY <3>3, <4>2 DEF Attempts, a, LogTypes
        <5>2. <<n, t>> \in cut \/ \E v \in GPUs : OnTask(v) /\ working[v] = t
          BY <3>3, <5>1 DEF Attended
        <5>3. \A v \in GPUs : OnTask(v) => OnTask(v)' /\ working'[v] = working[v]
          BY DEF OnTask, GpuTypes
        <5> QED BY <5>2, <5>3
      <4> QED BY <4>1, <4>2
    <3> QED BY <3>1, <3>2, <3>3 DEF Attended
  <2>5. CutOff'
    <3>1. \A v \in GPUs : Ended(v) => Ended(v)' BY DEF Ended, GpuTypes
    <3> QED BY <3>1 DEF CutOff
  <2>6. Growing'
    <3>1. ASSUME NEW k \in 1..Invocations, NEW m \in 1..Invocations, NEW t \in Tasks,
                 k <= m, begun'[<<k, t>>] # None, begun'[<<m, t>>] # None
          PROVE  begun'[<<k, t>>] <= begun'[<<m, t>>]
      <4>1. <<k, t>> \in Attempts /\ <<m, t>> \in Attempts BY DEF Attempts
      <4>2. CASE <<m, t>> = a
        BY <3>1, <4>1, <4>2 DEF Growing, LogTypes, a
      <4>3. CASE <<k, t>> = a /\ <<m, t>> # a
        <5>1. m > n BY <3>1, <4>3 DEF a
        <5> QED BY <3>1, <4>1, <4>3, <5>1 DEF Attended
      <4>4. CASE <<k, t>> # a /\ <<m, t>> # a BY <3>1, <4>1, <4>4 DEF Growing
      <4> QED BY <4>2, <4>3, <4>4
    <3>2. \A b \in Attempts : begun'[b] # None => begun'[b] <= progress'[b[2]]
      BY DEF Growing, a
    <3> QED BY <3>1, <3>2 DEF Growing
  <2>7. Reported' BY DEF Reported, Alive, GpuTypes
  <2>8. CompletedMeansAll' BY DEF CompletedMeansAll, Done
  <2>9. UnknownTimeIsTold' BY DEF UnknownTimeIsTold, Reported, Alive
  <2>10. Fresh'
    <3>1. \A t \in Tasks : t # c => <<n, t>> # a BY DEF a
    <3>2. pending' \subseteq Tasks \ {c} BY DEF c, GpuTypes, Owed
    <3>3. ASSUME NEW v \in GPUs, command'[v] \in Tasks PROVE begun'[<<n, command'[v]>>] = None
      <4>1. v # w /\ command'[v] = command[v] BY <3>3 DEF ServeTask, Serve, GpuTypes
      <4>2. command[v] # c BY <3>3, <4>1 DEF Owed, Flow, c
      <4>3. <<n, command[v]>> \in Attempts \ {a} BY <3>1, <3>3, <4>1, <4>2 DEF Attempts
      <4>4. begun[<<n, command[v]>>] = None BY <3>3, <4>1 DEF Fresh
      <4> QED BY <4>1, <4>3, <4>4
    <3>4. ASSUME NEW v \in GPUs, OnTask(v)' PROVE ended'[<<n, working'[v]>>] = None
      <4>1. CASE v = w
        <5>1. begun[a] = None BY DEF Fresh, a, c
        <5> QED BY <4>1, <5>1 DEF Attended, GpuTypes, a, c
      <4>2. CASE v # w
        <5>1. OnTask(v) /\ working'[v] = working[v] BY <3>4, <4>2 DEF OnTask, GpuTypes
        <5> QED BY <5>1 DEF Fresh
      <4> QED BY <4>1, <4>2
    <3> QED BY <3>1, <3>2, <3>3, <3>4 DEF Fresh, Attempts
  <2> QED BY <2>3, <2>4, <2>5, <2>6, <2>7, <2>8, <2>9, <2>10
<1> QED BY <1>1, <1>2

\* The end of an attempt is recorded, or lost, while its worker still holds the task.
LEMMA EndTaskKeeps ==
  ASSUME PoolInv, PoolInv', LogInv, NEW w \in GPUs, NEW status \in Statuses, EndTask(w, status)
  PROVE  LogInv'
<1> USE DEF PoolInv, LogInv
<1>0. /\ proc[w] = "busy" /\ proc' = [proc EXCEPT ![w] = "replying"]
      /\ \A t \in Tasks : progress[t] <= progress'[t]
      /\ UNCHANGED <<study, coordinator, working, accounts, n, cut>>
  <2>1. \A t \in Tasks : progress[t] <= Durable(t, status) BY DEF Durable, GpuTypes
  <2> QED BY <2>1 DEF EndTask, Work, GpuTypes
<1>1. CASE working[w] \notin Tasks
  <2>1. Unrecorded
    BY <1>0, <1>1
       DEF EndTask, Work, Unrecorded, OnTask, Ended, Alive, GpuTypes, coordinator, accounts, Reported
  <2> QED BY <2>1, UnrecordedKeeps
<1>2. CASE working[w] \in Tasks
  <2> DEFINE c == working[w]
             a == <<n, c>>
  <2>0. PICK end \in Ends \ {None} :
          /\ \/ ended' = [ended EXCEPT ![a] = end] /\ lost' = lost
             \/ ended' = ended /\ lost' = lost + 1
          /\ UNCHANGED <<begun, started, reports, summary>>
    <3> DEFINE end == IF c \in Simulations /\ progress[c] = 2 /\ status = "completed"
                      THEN "skipped" ELSE status
    <3>1. end \in Ends \ {None} BY DEF Ends
    <3>2. Log!EndAttempt(a, end) BY <1>2 DEF EndTask
    <3> HIDE DEF end
    <3> QED BY <3>1, <3>2 DEF Log!EndAttempt, Log!Best
  <2>1. /\ c \in Tasks /\ a \in Attempts /\ begun[a] # None /\ OnTask(w)
        /\ \A b \in Attempts \ {a} : ended'[b] = ended[b]
    BY <1>0, <1>2, <2>0 DEF LogTypes, Attempts, GpuTypes, Attended, OnTask
  <2>2. a \notin cut
    BY <1>0, <1>2 DEF CutOff, Ended, Flow
  <2> HIDE DEF c, a
  <2> USE <1>0, <2>0, <2>1 DEF coordinator, accounts
  <2>3. LogTypes' BY DEF LogTypes
  <2>4. Attended'
    <3>1. /\ \A b \in Attempts : ended'[b] # None \/ b \in started' \/ b \in cut' => begun'[b] # None
          /\ \A b \in Attempts : b[1] > n' => begun'[b] = None
      BY DEF Attended
    <3>2. \A v \in GPUs : OnTask(v)' => OnTask(v)
      BY DEF OnTask, GpuTypes
    <3>3. ASSUME lost' = 0, NEW t \in Tasks, begun'[<<n', t>>] # None, ended'[<<n', t>>] = None
          PROVE  <<n', t>> \in cut' \/ \E v \in GPUs : OnTask(v)' /\ working'[v] = t
      <4>0. lost = 0 /\ ended' = [ended EXCEPT ![a] = end] BY <3>3 DEF LogTypes
      <4>1. t # c BY <3>3, <4>0 DEF LogTypes, a
      <4>2. ended[<<n, t>>] = None BY <3>3, <4>1 DEF Attempts, a, LogTypes
      <4>3. <<n, t>> \in cut \/ \E v \in GPUs : OnTask(v) /\ working[v] = t
        BY <3>3, <4>0, <4>2 DEF Attended
      <4>4. \A v \in GPUs : OnTask(v) /\ working[v] = t => OnTask(v)'
        BY <4>1 DEF OnTask, GpuTypes, c
      <4> QED BY <4>3, <4>4
    <3> QED BY <3>1, <3>2, <3>3 DEF Attended
  <2>5. CutOff'
    <3>1. \A v \in GPUs : Ended(v) => Ended(v)' BY DEF Ended, GpuTypes
    <3>2. \A b \in cut : ended'[b] = ended[b] BY <2>2 DEF LogTypes
    <3> QED BY <3>1, <3>2 DEF CutOff
  <2>6. Growing'
    <3>1. ASSUME NEW b \in Attempts, begun'[b] # None PROVE begun'[b] <= progress'[b[2]]
      <4>1. b[2] \in Tasks /\ begun[b] \in 0..2 BY <3>1 DEF LogTypes, Attempts
      <4>2. progress[b[2]] \in Int /\ progress'[b[2]] \in Int BY <4>1 DEF GpuTypes
      <4> QED BY <3>1, <4>1, <4>2 DEF Growing
    <3> QED BY <3>1 DEF Growing
  <2>7. Reported' BY DEF Reported, Alive, GpuTypes
  <2>8. CompletedMeansAll'
    <3>1. Done = Tasks => Done' = Tasks BY DEF Done, GpuTypes
    <3> QED BY <3>1 DEF CompletedMeansAll
  <2>9. UnknownTimeIsTold' BY DEF UnknownTimeIsTold, Reported, Alive
  <2>10. Fresh'
    <3>1. \A v \in GPUs : command'[v] = command[v] BY DEF EndTask, Work
    <3>2. ASSUME NEW v \in GPUs, OnTask(v)' PROVE ended'[<<n, working[v]>>] = None
      <4>1. v # w /\ OnTask(v) BY <3>2 DEF OnTask, GpuTypes
      <4>2. working[v] # c BY <4>1 DEF Flow, Owed, OnTask, c
      <4> QED BY <4>1, <4>2 DEF Fresh, Attempts, OnTask, a, LogTypes
    <3> QED BY <3>1, <3>2 DEF Fresh
  <2> QED BY <2>3, <2>4, <2>5, <2>6, <2>7, <2>8, <2>9, <2>10
<1> QED BY <1>1, <1>2

\* A death on a task leaves an attempt that nobody ends, now or later.
LEMMA DieAtKeeps ==
  ASSUME PoolInv, PoolInv', LogInv, NEW w \in GPUs, DieAt(w) PROVE LogInv'
<1> USE DEF PoolInv, LogInv
<1>0. /\ Alive(w) /\ proc' = [proc EXCEPT ![w] = "dead"]
      /\ working' = [working EXCEPT ![w] = None]
      /\ UNCHANGED <<study, coordinator, accounts, progress, logVars, n>>
  BY DEF DieAt, Die
<1>1. CASE ~OnTask(w)
  <2>1. Unrecorded
    BY <1>0, <1>1
       DEF DieAt, Die, Unrecorded, OnTask, Ended, Alive, GpuTypes, coordinator, accounts, Reported
  <2> QED BY <2>1, UnrecordedKeeps
<1>2. CASE OnTask(w)
  <2> DEFINE a == <<n, working[w]>>
  <2>0. cut' = cut \union {a} BY <1>2 DEF DieAt
  <2>1. a \in Attempts /\ begun[a] # None /\ working[w] \in Tasks /\ active[w] = working[w]
    BY <1>2 DEF LogTypes, Attempts, Attended, OnTask, Flow
  <2> HIDE DEF a
  <2> USE <1>0, <2>0, <2>1 DEF coordinator, accounts, logVars
  <2>2. LogTypes' BY DEF LogTypes
  <2>3. Attended'
    <3>1. /\ \A b \in Attempts : ended'[b] # None \/ b \in started' \/ b \in cut' => begun'[b] # None
          /\ \A b \in Attempts : b[1] > n' => begun'[b] = None
      BY DEF Attended
    <3>2. \A v \in GPUs : OnTask(v)' => OnTask(v) /\ working'[v] = working[v]
      BY DEF OnTask, GpuTypes
    <3>3. ASSUME lost' = 0, NEW t \in Tasks, begun'[<<n', t>>] # None, ended'[<<n', t>>] = None
          PROVE  <<n', t>> \in cut' \/ \E v \in GPUs : OnTask(v)' /\ working'[v] = t
      <4>1. <<n, t>> \in cut \/ \E v \in GPUs : OnTask(v) /\ working[v] = t
        BY <3>3 DEF Attended
      <4>2. \A v \in GPUs : OnTask(v) => v = w \/ (OnTask(v)' /\ working'[v] = working[v])
        BY DEF OnTask, GpuTypes
      <4> QED BY <4>1, <4>2 DEF a
    <3> QED BY <3>1, <3>2, <3>3 DEF Attended
  <2>4. Fresh'
    <3>1. /\ \A v \in GPUs : command'[v] \in Tasks => command'[v] = command[v]
          /\ \A v \in GPUs : OnTask(v)' => OnTask(v) /\ working'[v] = working[v]
      BY DEF DieAt, Die, OnTask, GpuTypes
    <3>2. pending' = pending /\ begun' = begun /\ ended' = ended /\ n' = n
      OBVIOUS
    <3>3. \A t \in pending' : begun'[<<n', t>>] = None
      BY <3>2 DEF Fresh
    <3>4. \A v \in GPUs : command'[v] \in Tasks => begun'[<<n', command'[v]>>] = None
      BY <3>1, <3>2 DEF Fresh
    <3>5. \A v \in GPUs : OnTask(v)' => ended'[<<n', working'[v]>>] = None
      <4> SUFFICES ASSUME NEW v \in GPUs, OnTask(v)' PROVE ended'[<<n', working'[v]>>] = None
        OBVIOUS
      <4>1. OnTask(v) /\ working'[v] = working[v]
        BY <3>1
      <4>2. ended[<<n, working[v]>>] = None
        BY <4>1 DEF Fresh
      <4> QED BY <3>2, <4>1, <4>2
    <3> QED BY <3>3, <3>4, <3>5 DEF Fresh
  <2>5. CutOff'
    <3>1. \A v \in GPUs : Ended(v) => Ended(v)' BY DEF Ended, GpuTypes
    <3>2. ended[a] = None BY <1>2 DEF Fresh, a
    <3>3. working[w] \notin pending /\ \A v \in GPUs : active[v] = working[w] => v = w
      BY DEF Owed
    <3>4. Ended(w)' BY DEF Ended, GpuTypes
    <3>5. \A b \in cut' : b = a \/ b \in cut OBVIOUS
    <3>6. a[2] = working[w] BY DEF a
    <3> QED BY <3>1, <3>2, <3>3, <3>4, <3>5, <3>6 DEF CutOff
  <2>6. Growing' BY DEF Growing
  <2>7. Reported' BY DEF Reported, Alive, GpuTypes
  <2>8. CompletedMeansAll' BY DEF CompletedMeansAll, Done
  <2>9. UnknownTimeIsTold' BY <1>2 DEF UnknownTimeIsTold, Reported, Alive
  <2> QED BY <2>2, <2>3, <2>4, <2>5, <2>6, <2>7, <2>8, <2>9
<1> QED BY <1>1, <1>2

\* There is a first invocation with an attempt of a kind.
LEMMA EarliestExists ==
  ASSUME NEW set \in SUBSET Attempts, set # {}
  PROVE  /\ Log!Earliest(set) \in set
         /\ \A b \in set : Log!Earliest(set)[1] <= b[1]
<1> DEFINE R == {p \in Nat \X Nat : p[1] < p[2]}
           M == {a[1] : a \in set}
<1>1. IsWellFoundedOn(R, Nat) BY NatLessThanWellFounded DEF OpToRel
<1>2. M \subseteq Nat /\ M # {} BY DEF Attempts
<1>3. \A x, y \in Nat : x < y => <<x, y>> \in R OBVIOUS
<1> HIDE DEF R, M
<1>4. PICK x \in M : \A y \in M : <<y, x>> \notin R
  BY <1>1, <1>2, WFMin, Zenon
<1>5. ASSUME NEW y \in M PROVE x <= y
  <2>1. x \in Nat /\ y \in Nat BY <1>2
  <2>2. ~(y < x) BY <1>3, <1>4, <2>1
  <2> QED BY <2>1, <2>2
<1>6. \E a \in set : \A b \in set : a[1] <= b[1] BY <1>4, <1>5 DEF M
<1> QED BY <1>6 DEF Log!Earliest

\* What a summary says of a run with an attempt that nobody ended
LEMMA SummaryTells ==
  ASSUME LogInv, NEW a \in cut, NEW final,
         a[2] \in Simulations \intersect Done,
         \/ a \in started
         \/ /\ a[1] = 1
            /\ \E m \in {m \in (a[1] + 1)..n : begun[<<m, a[2]>>] # None} :
                 /\ begun[<<m, a[2]>>] > 0
                 /\ \A k \in {k \in (a[1] + 1)..n : begun[<<k, a[2]>>] # None} : m <= k
  PROVE  LET s == Log!SummaryOf(Done \intersect Simulations, final)
         IN a[2] \in s.withoutTiming \union s.partial
<1> USE DEF LogInv
<1> DEFINE completed == Done \intersect Simulations
           t == a[2]
           tried == Log!OfRun(Log!Ran, t)
<1>0. /\ t \in completed /\ t \in Tasks /\ a \in Attempts /\ a = <<a[1], t>>
      /\ ended[a] = None /\ begun[a] # None
  BY DEF LogTypes, Attempts, CutOff, Tasks, Attended
<1>1. Log!Attempts = Attempts BY DEF Log!Attempts, Attempts, Tasks
<1>2. SUFFICES \/ t \in Log!WithoutTiming(completed)
               \/ t \in Log!WithUnresolved(completed)
               \/ t \in Log!WithoutPrefix(completed)
  BY DEF Log!SummaryOf
<1>3. CASE a \in started
  <2>1. Log!StatusOf(a) = "unresolved" BY <1>0 DEF Log!StatusOf
  <2>2. a \in tried BY <1>0, <1>1, <1>3, <2>1 DEF Log!OfRun, Log!Ran, Log!Recorded, Log!TaskOf
  <2> QED BY <1>0, <2>1, <2>2 DEF Log!WithUnresolved
<1>4. CASE a \notin started
  <2>1. a[1] = 1 /\ n \in 1..Invocations
    BY <1>4 DEF LogTypes
  <2>2. PICK m \in 2..n : /\ begun[<<m, t>>] # None /\ begun[<<m, t>>] > 0
                          /\ \A k \in 2..n : begun[<<k, t>>] # None => m <= k
    BY <1>4, <2>1
  \* Every recorded attempt of the run is this one or a later one.
  <2>3. ASSUME NEW b \in tried PROVE b \in Attempts /\ begun[b] > 0
    <3>1. b \in Attempts /\ b[2] = t /\ (b \in started \/ ended[b] # None)
      BY <1>1 DEF Log!OfRun, Log!Ran, Log!Recorded, Log!TaskOf
    <3>2. b = <<b[1], t>> /\ b # a /\ begun[b] # None /\ b[1] \in 1..n
      BY <1>0, <1>4, <2>1, <3>1 DEF Attended, Attempts
    <3>3. b[1] \in 2..n BY <1>0, <2>1, <3>2
    <3>4. begun[<<m, t>>] <= begun[b] BY <1>0, <2>1, <2>2, <3>2, <3>3 DEF Growing
    <3>5. begun[<<m, t>>] \in 0..2 /\ begun[b] \in 0..2
      BY <1>0, <2>1, <2>2, <3>1, <3>2 DEF LogTypes, Attempts
    <3> QED BY <2>2, <3>1, <3>4, <3>5
  <2>4. CASE tried = {}
    <3>1. Log!OfRun(Log!Timed, t) = {} BY <2>4 DEF Log!OfRun, Log!Timed
    <3> QED BY <1>0, <3>1 DEF Log!WithoutTiming
  <2>5. CASE tried # {}
    <3>1. Log!Earliest(tried) \in tried BY <2>3, <2>5, EarliestExists
    <3>2. begun[Log!Earliest(tried)] > 0 BY <2>3, <3>1
    <3> QED BY <1>0, <2>5, <3>2 DEF Log!WithoutPrefix
  <2> QED BY <2>4, <2>5
<1> QED BY <1>3, <1>4

\* A step of the coordinator that only reports, when nothing runs any more
Reporting ==
  /\ phase' \in {"recorded", "reported"} /\ n \in 1..Invocations
  /\ UNCHANGED <<study, raised, stop, lock, proc, working, result, pipes, accounts, reading,
                 progress, deaths, n, known, cut, begun, started, ended>>
  /\ lost' = lost \/ lost' = lost + 1
  /\ \A w \in GPUs : ~Alive(w)

LEMMA ReportingKeeps ==
  ASSUME PoolInv, LogInv, Reporting
  PROVE  Attended' /\ Fresh' /\ CutOff' /\ Growing'
<1> USE DEF PoolInv, LogInv, Reporting, pipes, accounts
<1>1. Attended'
  <2>1. /\ \A b \in Attempts : ended'[b] # None \/ b \in started' \/ b \in cut' => begun'[b] # None
        /\ \A b \in Attempts : b[1] > n' => begun'[b] = None
        /\ \A w \in GPUs : OnTask(w)' => begun'[<<n', working'[w]>>] # None
    BY DEF Attended, OnTask
  <2>2. lost' = 0 => lost = 0 BY DEF LogTypes
  <2> QED BY <2>1, <2>2 DEF Attended, OnTask
<1>2. Fresh' BY DEF Fresh, OnTask
<1>3. CutOff' BY DEF CutOff, Ended
<1>4. Growing' BY DEF Growing
<1> QED BY <1>1, <1>2, <1>3, <1>4

\* The record of an invocation says what became of all tasks.
LEMMA RecordKeeps == ASSUME PoolInv, PoolInv', LogInv, ReportInvocation PROVE LogInv'
<1> USE DEF PoolInv, LogInv
<1>0. /\ Reporting /\ phase = "ended" /\ summary' = summary
      /\ \/ UNCHANGED reports /\ phase' = "reported"
         \/ reports' = [reports EXCEPT ![n] = Status] /\ phase' = "recorded"
  <2>1. reports[n] = None /\ n \in 1..Invocations /\ \A w \in GPUs : ~Alive(w)
    BY DEF Reported, LogTypes, ReportInvocation
  <2>2. Status \in {"failed", "incomplete", "completed"} /\ Status # None
    BY DEF Status
  <2>3. /\ phase = "ended" /\ phase' = IF reports'[n] # None THEN "recorded" ELSE "reported"
        /\ UNCHANGED <<study, raised, stop, lock, proc, working, result, pipes, accounts, reading,
                       progress, deaths, n, known, cut>>
    BY DEF ReportInvocation
  <2>4. /\ UNCHANGED <<begun, started, ended, summary>>
        /\ lost' = lost \/ lost' = lost + 1
        /\ UNCHANGED reports \/ reports' = [reports EXCEPT ![n] = Status]
    BY DEF ReportInvocation, Log!RecordInvocation, Log!Best, logVars
  <2> QED BY <2>1, <2>2, <2>3, <2>4 DEF Reporting, LogTypes
<1> USE <1>0 DEF Reporting
<1>1. LogTypes' BY DEF LogTypes, Status
<1>2. Reported'
  <2>1. \A m \in 1..Invocations :
          /\ reports'[m] # None => (m = n /\ phase' = "recorded") \/ reports[m] # None
          /\ reports[m] # None => reports'[m] # None
    BY DEF LogTypes, Status
  <2> QED BY <2>1 DEF Reported, Alive
<1>3. CompletedMeansAll'
  <2>1. Done' = Done BY DEF Done
  <2>2. Status = "completed" => Done = Tasks
    <3>1. Status = "completed" => \A t \in Tasks : outcome[t] = "completed"
      BY DEF Status, Failed, Unfinished
    <3> QED BY <3>1 DEF Done, ReportedIsDurable
  <2>3. \A m \in 1..Invocations :
          reports'[m] = "completed" => Status = "completed" \/ reports[m] = "completed"
    BY DEF LogTypes
  <2> QED BY <2>1, <2>2, <2>3 DEF CompletedMeansAll
\* The summary is the earlier one, which cannot list this invocation.
<1>4. UnknownTimeIsTold'
  <2>1. summary # None => n \notin summary.invocations BY DEF Reported
  <2> QED BY <2>1 DEF UnknownTimeIsTold
<1> QED BY <1>1, <1>2, <1>3, <1>4, ReportingKeeps

\* A summary that is drawn again is drawn from the records there are.
LEMMA SummaryKeeps == ASSUME PoolInv, PoolInv', LogInv, DrawSummary PROVE LogInv'
<1> USE DEF PoolInv, LogInv
<1>0. /\ Reporting /\ phase = "recorded" /\ phase' = "reported" /\ reports' = reports
      /\ \/ UNCHANGED summary /\ lost' = lost + 1
         \/ /\ lost' = lost
            /\ \E final : /\ final = {m \in 1..Invocations : reports[m] # None}
                          /\ summary' = Log!SummaryOf(Done \intersect Simulations, final)
  BY DEF DrawSummary, Log!RegenerateSummary, Log!Best, LogTypes, Reporting, Reported
<1> USE <1>0 DEF Reporting
<1>1. LogTypes' BY DEF LogTypes
<1>2. CompletedMeansAll' BY DEF CompletedMeansAll, Done
<1>3. CASE lost' = lost
  <2>0. lost' # lost + 1 BY <1>3 DEF LogTypes
  <2>1. PICK final : /\ final = {m \in 1..Invocations : reports[m] # None}
                     /\ summary' = Log!SummaryOf(Done \intersect Simulations, final)
    BY <1>0, <2>0, Zenon
  <2>2. summary'.invocations = final BY <2>1 DEF Log!SummaryOf
  <2>3. Reported' BY <2>1, <2>2 DEF Reported, Alive
  <2>4. Done' = Done BY DEF Done
  <2>5. UnknownTimeIsTold' BY <2>1, <2>4, SummaryTells DEF UnknownTimeIsTold
  <2> QED BY <1>1, <1>2, <2>3, <2>5, ReportingKeeps
\* One that could not be drawn again is the earlier one.
<1>4. CASE lost' # lost
  <2>0. UNCHANGED summary BY <1>0, <1>4, Zenon
  <2>1. Reported' BY <2>0 DEF Reported, Alive
  <2>2. UnknownTimeIsTold' BY <2>0 DEF UnknownTimeIsTold, Reported
  <2> QED BY <1>1, <1>2, <2>1, <2>2, ReportingKeeps
<1> QED BY <1>3, <1>4

\* A new invocation has attempts of its own.
LEMMA InvokeLogKeeps == ASSUME PoolInv, PoolInv', LogInv, Invoke PROVE LogInv'
<1> USE DEF PoolInv, LogInv
<1>0. /\ n' = n + 1 /\ n' \in 1..Invocations /\ n \in 1..Invocations
      /\ phase' = "launch" /\ progress' = progress /\ cut' = cut /\ pending' \subseteq Tasks
      /\ UNCHANGED <<begun, started, ended, lost, reports, summary>>
      /\ phase \in {"reported", "killed"}
      /\ \A w \in GPUs : proc'[w] = "none" /\ command'[w] = None /\ active'[w] = None
  BY DEF Invoke, logVars, LogTypes, GpuTypes
<1>1. \A t \in Tasks : /\ <<n', t>> \in Attempts /\ begun[<<n', t>>] = None
                       /\ ended[<<n', t>>] = None /\ <<n', t>> \notin cut
  BY <1>0 DEF Attended, Attempts
<1>2. \A w \in GPUs : ~OnTask(w)' BY <1>0 DEF OnTask
<1> USE <1>0
<1>3. LogTypes' BY DEF LogTypes
<1>4. Attended' BY <1>1, <1>2 DEF Attended, Attempts
<1>5. Fresh' BY <1>1, <1>2 DEF Fresh
<1>6. CutOff'
  <2>1. \A a \in cut : a[2] \in Tasks /\ a = <<a[1], a[2]>> BY DEF LogTypes, Attempts
  <2>2. \A a \in cut : ended[a] = None /\ a[1] # n' BY <1>1, <2>1 DEF CutOff
  <2> QED BY <2>2 DEF CutOff
<1>7. Growing' BY DEF Growing
<1>8. Reported' BY DEF Reported
<1>9. CompletedMeansAll' BY DEF CompletedMeansAll, Done
<1>10. UnknownTimeIsTold' BY DEF UnknownTimeIsTold
<1> QED BY <1>3, <1>4, <1>5, <1>6, <1>7, <1>8, <1>9, <1>10

LEMMA LogStep == PoolInv /\ PoolInv' /\ LogInv /\ [Next]_vars => LogInv'
<1> SUFFICES ASSUME PoolInv, PoolInv', LogInv, [Next]_vars PROVE LogInv'
  OBVIOUS
<1>1. CASE Coordinate
  BY <1>1, UnrecordedSteps, UnrecordedKeeps, RecordKeeps, SummaryKeeps DEF Coordinate, Quietly
<1>2. ASSUME NEW w \in GPUs, Worker(w) PROVE LogInv'
  <2>1. CASE ServeTask(w) BY <2>1, ServeTaskKeeps
  <2>2. ASSUME NEW s \in {"completed", "paused", "failed"}, EndTask(w, s) PROVE LogInv'
    BY <2>2, EndTaskKeeps
  <2> QED BY <1>2, <2>1, <2>2, UnrecordedSteps, UnrecordedKeeps DEF Worker, Quietly
<1>3. CASE Environment
  BY <1>3, UnrecordedSteps, UnrecordedKeeps, DieAtKeeps DEF Environment, Quietly
<1>4. CASE Invoke BY <1>4, InvokeLogKeeps
<1>5. CASE UNCHANGED vars BY <1>5, UnrecordedSteps, UnrecordedKeeps
<1> QED BY <1>1, <1>2, <1>3, <1>4, <1>5 DEF Next

\* What the records of invocations and attempts say is true, and what they cannot
\* know they say they do not know.
THEOREM AccountsStayHonest == Spec => []AccountsAreHonest
<1>1. LogInv => AccountsAreHonest
  <2> SUFFICES ASSUME LogInv PROVE AccountsAreHonest
    OBVIOUS
  <2>1. AttemptsAreAccounted
    <3> SUFFICES ASSUME phase \in {"ended", "recorded", "reported"}, lost = 0, NEW t \in Tasks, <<n, t>> \notin cut
                 PROVE  (begun[<<n, t>>] = None) = (ended[<<n, t>>] = None)
      BY DEF AttemptsAreAccounted
    <3>1. <<n, t>> \in Attempts BY DEF LogInv, LogTypes, Attempts
    <3>2. \A w \in GPUs : ~OnTask(w) BY DEF LogInv, Reported, Alive, OnTask
    <3> QED BY <3>1, <3>2 DEF LogInv, Attended
  <2> QED BY <2>1 DEF LogInv, AccountsAreHonest
<1>2. Init => PoolInv /\ LogInv BY PoolInit, LogInitially
<1>3. (PoolInv /\ LogInv) /\ [Next]_vars => (PoolInv /\ LogInv)' BY PoolStep, LogStep
<1> QED BY <1>1, <1>2, <1>3, PTL DEF Spec
=============================================================================
