------------------------------ MODULE RunStore ------------------------------
(***************************************************************************)
(* One retained run variant: the worker session that executes it           *)
(* (execution/worker.py), the Recorder that buffers its observations and   *)
(* the RunStore that publishes its checkpoints, results and completions    *)
(* (storage/run.py).                                                       *)
(*                                                                         *)
(* Every durable publication is an action of its own, so a crash falls     *)
(* between any two of them.  A crash loses the session's memory and keeps  *)
(* the disk.  atomic_json and write_arrays (storage/files.py) write a      *)
(* temporary file, synchronise it and rename it, so a named file is either *)
(* the old one or the new one.                                             *)
(*                                                                         *)
(* Abstractions.  A result row is <<step, draw>>: the draw stands for what *)
(* the components and their random streams made of that step.  A chunk is  *)
(* the set of its rows, and equal digests are equal contents.  The state a *)
(* checkpoint saves is the set of all rows its components have lived       *)
(* through.  A file that is missing and a file whose digest is wrong are   *)
(* the same to every reader, so damage removes it.                         *)
(***************************************************************************)
EXTENDS Integers, Sequences, FiniteSets

CONSTANTS
  Budgets,      \* step budgets successive requests may ask of this variant
  Every,        \* recording.every_steps
  MaxRows,      \* rows the Recorder's buffer holds before it flushes
  Keep,         \* execution.keep_checkpoints
  Draws,        \* what one protocol step may observe
  Extendable,   \* metadata["extendable"]: a longer budget continues this run
  Generation,   \* identities of checkpoint generations (uuid4 in the code)
  Faults,       \* "decode": a valid payload's decoder may be unavailable;
                \* "rot": resumable data may be damaged while at rest;
                \* "rot_completed": chunks of a completed prefix as well
  None          \* no generation

Step == Nat \ {0}

ASSUME BudgetsAssumption == Budgets \subseteq Step /\ Budgets # {}
ASSUME EveryAssumption == Every \in Step
ASSUME MaxRowsAssumption == MaxRows \in Step
ASSUME KeepAssumption == Keep \in Step
ASSUME NoneAssumption == None \notin Generation
ASSUME ExtendableAssumption == Extendable \in BOOLEAN
\* The budget of a variant that cannot be extended is part of its identity.
ASSUME FixedBudgetAssumption ==
         ~Extendable => \A b, c \in Budgets : b = c

VARIABLES
  progress,     \* progress.json: status, step, checkpoints, completed_budgets
  generations,  \* the checkpoints/ directory
  results,      \* the results/ directory: <<index, rows>> of each chunk file
  failure,      \* failure.json exists
  instance,     \* metadata.json names this run's scientific instance
  pc,           \* where the session is, "idle" when none runs
  budget,       \* the step budget of the current or last request
  outcome,      \* what the last session returned, "none" if it was killed
  mem,          \* RunStore.progress: the session's copy of progress.json
  step,         \* protocol.step
  observed,     \* rows the live components have lived through
  chunks,       \* Recorder.chunks: the manifest, chunk i is file i
  buffer,       \* Recorder.buffers
  cause,        \* why a checkpoint is being taken
  gen           \* the generation being written

disk == <<progress, generations, results, failure, instance>>
session == <<mem, step, observed, chunks, buffer, cause, gen>>
vars == <<disk, pc, budget, outcome, session>>

-----------------------------------------------------------------------------
(* Rows, manifests and what they stand for *)

Row == Step \X Draws
RowsOf(manifest) == UNION {manifest[i] : i \in 1..Len(manifest)}
Intact(manifest) ==
  \A i \in 1..Len(manifest) : <<i, manifest[i]>> \in results

\* Completed prefixes, by step, and those that still pin a checkpoint
Completed(p) == DOMAIN p.completed
Pinned(p) == {s \in Completed(p) : p.completed[s].checkpoint # None}
Referenced(p) ==
  {p.checkpoints[i] : i \in 1..Len(p.checkpoints)}
    \union {p.completed[s].checkpoint : s \in Pinned(p)}

\* restore() tries the retained checkpoints, newest first, then those pinned
\* by completed prefixes, longest first (the one order in LongestFirst).
LongestFirst(p) ==
  {s \in [1..Cardinality(Pinned(p)) -> Pinned(p)] :
     \A i, j \in DOMAIN s : i < j => s[i] > s[j]}
Entries(p, order) ==
  p.checkpoints \o [i \in DOMAIN order |-> p.completed[order[i]].checkpoint]

Take(s, n) == SubSeq(s, 1, IF n < Len(s) THEN n ELSE Len(s))
From(s, i, n) == SubSeq(s, i, IF i + n - 1 < Len(s) THEN i + n - 1 ELSE Len(s))

\* A generation directory is missing, unusable (incomplete or damaged) or a
\* sealed envelope whose payload files match their checksums.
Absent == [kind |-> "absent"]
Unusable == [kind |-> "unusable"]
Sealed(n, rows, manifest) ==
  [kind |-> "sealed", step |-> n, observed |-> rows, results |-> manifest]

\* _load_checkpoint up to the decoder: envelope, payloads and every result
\* chunk of the boundary validate.
Valid(g) == generations[g].kind = "sealed" /\ Intact(generations[g].results)

NoProgress ==
  [status |-> "pending", step |-> 0, checkpoints |-> <<>>, completed |-> <<>>]
Fresh(g) == /\ generations[g] = Absent
            /\ g \notin Referenced(progress) \union Referenced(mem)

-----------------------------------------------------------------------------
Init ==
  /\ progress = NoProgress
  /\ generations = [g \in Generation |-> Absent]
  /\ results = {}
  /\ failure = FALSE /\ instance = FALSE
  /\ pc = "idle" /\ budget = 0 /\ outcome = "none"
  /\ mem = NoProgress
  /\ step = 0 /\ observed = {} /\ chunks = <<>> /\ buffer = {}
  /\ cause = "none" /\ gen = None

\* The session's memory is gone, after a return as after a kill.
Forget ==
  /\ pc' = "idle"
  /\ mem' = NoProgress
  /\ step' = 0 /\ observed' = {} /\ chunks' = <<>> /\ buffer' = {}
  /\ cause' = "none" /\ gen' = None
Return(status) == Forget /\ outcome' = status /\ UNCHANGED budget

-----------------------------------------------------------------------------
(* Opening a session: reuse, or restore *)

CoveringOffByOne(b) == {s \in Completed(progress) : s >= b - 1} \* mutant
Covering(b) == {s \in Completed(progress) : s >= b}
Shortest(b, s) == s \in Covering(b) /\ \A t \in Covering(b) : s <= t

\* The shortest completed prefix that covers the request is validated and
\* reused; nothing is executed.
Reuse(b) ==
  /\ pc = "idle"
  /\ \E s \in Covering(b) : Shortest(b, s) /\ Intact(progress.completed[s].results)
  /\ instance
  /\ budget' = b /\ outcome' = "skipped"
  /\ UNCHANGED <<disk, pc, session>>

Open(b) ==
  /\ pc = "idle"
  /\ Covering(b) = {}
  /\ pc' = "opened" /\ budget' = b /\ outcome' = "none"
  /\ mem' = progress
  /\ UNCHANGED <<disk, step, observed, chunks, buffer, cause, gen>>

\* A covering prefix that does not validate, or lacks its instance, is an error.
RejectCompletion(b) ==
  /\ pc = "idle"
  /\ \E s \in Covering(b) :
       Shortest(b, s) /\ ~(Intact(progress.completed[s].results) /\ instance)
  /\ pc' = "raising" /\ budget' = b /\ outcome' = "none"
  /\ mem' = progress
  /\ UNCHANGED <<disk, step, observed, chunks, buffer, cause, gen>>

\* The instance file is content-addressed; naming it in metadata.json commits it.
CreateInstance ==
  /\ pc = "opened" /\ ~instance
  /\ instance' = TRUE
  /\ UNCHANGED <<progress, generations, results, failure, pc, budget, outcome, session>>

\* Generations whose decoder is unavailable this time
Undecodable ==
  IF "decode" \in Faults THEN SUBSET {g \in Referenced(mem) : Valid(g)} ELSE {{}}

\* Falling back must not lose what is published as complete.
IgnoresCompleted(n) == TRUE \* mutant
CoversCompleted(n) == \A s \in Completed(mem) : s <= n

\* Component and random-stream state, and the Recorder's manifest
Load(e) == step' = e.step /\ observed' = e.observed /\ chunks' = e.results

\* The first entry that validates and decodes is loaded.  progress.json is not
\* rewritten here.
Restore ==
  /\ pc = "opened" /\ instance
  /\ \E bad \in Undecodable, order \in LongestFirst(mem) :
       LET entries == Entries(mem, order) IN
       \E i \in 1..Len(entries) :
         LET e == generations[entries[i]] IN
         /\ Valid(entries[i]) /\ entries[i] \notin bad
         /\ \A j \in 1..(i - 1) : ~Valid(entries[j]) \/ entries[j] \in bad
         /\ CoversCompleted(e.step)
         /\ mem' = [mem EXCEPT !.checkpoints = From(entries, i, Keep)]
         /\ Load(e)
  /\ pc' = "discarding"
  /\ UNCHANGED <<disk, budget, outcome, buffer, cause, gen>>

\* No entry is valid: start over, unless something completed.
Initialize ==
  /\ pc = "opened" /\ instance
  /\ \A g \in Referenced(mem) : ~Valid(g)
  /\ CoversCompleted(0)
  /\ mem' = [mem EXCEPT !.checkpoints = <<>>]
  /\ pc' = "discarding"
  /\ UNCHANGED <<disk, budget, outcome, step, observed, chunks, buffer, cause, gen>>

\* Every valid payload is undecodable, or the entry that loads (or starting
\* over) would lose completed results.
RestoreFails ==
  /\ pc = "opened" /\ instance
  /\ \E bad \in Undecodable, order \in LongestFirst(mem) :
       LET entries == Entries(mem, order)
           usable == {i \in 1..Len(entries) :
                        Valid(entries[i]) /\ entries[i] \notin bad}
       IN \/ usable = {} /\ (bad # {} \/ ~CoversCompleted(0))
          \/ \E i \in usable :
               /\ \A j \in usable : i <= j
               /\ ~CoversCompleted(generations[entries[i]].step)
  /\ pc' = "raising"
  /\ UNCHANGED <<disk, budget, outcome, session>>

\* Result files the restored manifest does not name are removed one by one.
LeftoverOffByOne == {f \in results : f[1] >= Len(chunks)} \* mutant
Leftover == {f \in results : f[1] > Len(chunks)}
DiscardTail(f) ==
  /\ pc = "discarding"
  /\ f \in Leftover
  /\ results' = results \ {f}
  /\ UNCHANGED <<progress, generations, failure, instance, pc, budget, outcome, session>>

Resume ==
  /\ pc = "discarding"
  /\ Leftover = {}
  /\ pc' = "loop"
  /\ UNCHANGED <<disk, budget, outcome, session>>

-----------------------------------------------------------------------------
(* The protocol loop and the Recorder *)

IsFinishedOffByOne(n) == n >= budget - 1 \* mutant
IsFinished(n) == n >= budget
Selected(n) == n % Every = 0 \/ (IsFinished(n) /\ ~Extendable)

\* write_arrays replaces the next numbered file atomically.
NextFileOffByOne == Len(chunks) \* mutant
NextFile == Len(chunks) + 1
Flush(rows) ==
  /\ IF rows = {}
     THEN UNCHANGED <<results, chunks>>
     ELSE /\ chunks' = Append(chunks, rows)
          /\ results' = {f \in results : f[1] # NextFile} \union {<<NextFile, rows>>}
  /\ buffer' = {}

\* One complete protocol step and the record of its observations.
Advance(d) ==
  LET n == step + 1
      rows == IF Selected(n) THEN buffer \union {<<n, d>>} ELSE buffer
  IN /\ pc = "loop" /\ ~IsFinished(step)
     /\ step' = n /\ observed' = observed \union {<<n, d>>}
     /\ IF Cardinality(rows) = MaxRows
        THEN Flush(rows)
        ELSE buffer' = rows /\ UNCHANGED <<results, chunks>>
     /\ pc' = "stepped"
     /\ UNCHANGED <<progress, generations, failure, instance, budget, outcome, mem, cause, gen>>

\* Neither checkpoint_seconds nor checkpoint_steps has elapsed, or the run is
\* finished.
Continue ==
  /\ pc = "stepped"
  /\ pc' = "loop"
  /\ UNCHANGED <<disk, budget, outcome, session>>

-----------------------------------------------------------------------------
(* Checkpoints and completion *)

BeginCheckpointUnflushed(why) == \* mutant
  /\ cause' = why /\ pc' = "flushed"
  /\ UNCHANGED <<disk, budget, outcome, mem, step, observed, chunks, buffer, gen>>
BeginCheckpoint(why) ==
  /\ Flush(buffer)
  /\ cause' = why /\ pc' = "flushed"
  /\ UNCHANGED <<progress, generations, failure, instance, budget, outcome,
                 mem, step, observed, gen>>

CheckpointDue == pc = "stepped" /\ ~IsFinished(step) /\ BeginCheckpoint("running")
\* stop_event is set or max_steps is spent
Pause == pc = "loop" /\ ~IsFinished(step) /\ BeginCheckpoint("paused")
Finalize == pc = "loop" /\ IsFinished(step) /\ BeginCheckpoint("final")

MakeGeneration(g) ==
  /\ pc = "flushed" /\ Fresh(g)
  /\ generations' = [generations EXCEPT ![g] = Unusable]
  /\ gen' = g /\ pc' = "writing"
  /\ UNCHANGED <<progress, results, failure, instance, budget, outcome,
                 mem, step, observed, chunks, buffer, cause>>

SealGeneration ==
  /\ pc = "writing"
  /\ generations' = [generations EXCEPT ![gen] = Sealed(step, observed, chunks)]
  /\ pc' = "sealed"
  /\ UNCHANGED <<progress, results, failure, instance, budget, outcome, session>>

\* The replacement of progress.json is the commit point.
CommitCheckpoint ==
  /\ mem' = [mem EXCEPT !.status = IF cause = "paused" THEN "paused" ELSE "running",
                        !.step = step,
                        !.checkpoints = Take(<<gen>> \o mem.checkpoints, Keep)]
  /\ progress' = mem'
  /\ pc' = "pruning"
  /\ UNCHANGED <<generations, results, failure, instance, budget, outcome,
                 step, observed, chunks, buffer, cause, gen>>
PublishUnsealed == pc = "writing" /\ CommitCheckpoint \* mutant
PublishCheckpoint == pc = "sealed" /\ CommitCheckpoint

Obsolete == {g \in Generation : generations[g] # Absent /\ g \notin Referenced(mem)}
PruneGeneration(g) ==
  /\ pc = "pruning"
  /\ g \in Obsolete
  /\ generations' = [generations EXCEPT ![g] = Absent]
  /\ UNCHANGED <<progress, results, failure, instance, pc, budget, outcome, session>>

Pruned == pc = "pruning" /\ Obsolete = {}
CheckpointDone ==
  /\ Pruned /\ cause = "running"
  /\ pc' = "loop" /\ cause' = "none" /\ gen' = None
  /\ UNCHANGED <<disk, budget, outcome, mem, step, observed, chunks, buffer>>
PauseDone ==
  /\ Pruned /\ cause = "paused"
  /\ Return("paused")
  /\ UNCHANGED disk
FinalCheckpointDone ==
  /\ Pruned /\ cause = "final"
  /\ pc' = "finishing"
  /\ UNCHANGED <<disk, budget, outcome, session>>

\* Pin the completed prefix and the checkpoint just published.
Completion(p) == [results |-> chunks,
                  checkpoint |-> IF p.checkpoints = <<>> THEN None ELSE p.checkpoints[1]]
OnlyLatest(p) == [s \in {step} |-> Completion(p)] \* mutant
WithCompletion(p) ==
  [s \in Completed(p) \union {step} |->
     IF s = step THEN Completion(p) ELSE p.completed[s]]
Finish ==
  /\ pc = "finishing"
  /\ mem' = [mem EXCEPT !.status = "completed", !.step = step,
                        !.completed = WithCompletion(mem)]
  /\ progress' = mem'
  /\ pc' = "completing"
  /\ UNCHANGED <<generations, results, failure, instance, budget, outcome,
                 step, observed, chunks, buffer, cause, gen>>

ClearFailure ==
  /\ pc = "completing"
  /\ failure' = FALSE
  /\ Return("completed")
  /\ UNCHANGED <<progress, generations, results, instance>>

-----------------------------------------------------------------------------
(* Exceptions and kills *)

\* Bound: an interrupted checkpoint may leave a generation behind only while
\* another identity is free (the code's identities never run out).
SpareGeneration == \E g \in Generation : Fresh(g)

\* A component, the file system or the protocol raises; execute_run catches it.
\* _write_checkpoint removes the generation it was writing.
Raise ==
  /\ pc \notin {"idle", "raising", "failing"}
  /\ SpareGeneration
  /\ generations' = IF pc = "writing" THEN [generations EXCEPT ![gen] = Absent]
                                      ELSE generations
  /\ pc' = "raising"
  /\ UNCHANGED <<progress, results, failure, instance, budget, outcome, session>>

\* RunStore.fail: failure.json first, then the status.
WriteFailure ==
  /\ pc = "raising"
  /\ failure' = TRUE /\ pc' = "failing"
  /\ UNCHANGED <<progress, generations, results, instance, budget, outcome, session>>

PublishFailure ==
  /\ pc = "failing"
  /\ progress' = [mem EXCEPT !.status = "failed"]
  /\ Return("failed")
  /\ UNCHANGED <<generations, results, failure, instance>>

\* An OSError of fail() itself is swallowed.
AbandonFailure ==
  /\ pc \in {"raising", "failing"}
  /\ Return("failed")
  /\ UNCHANGED disk

Crash ==
  /\ pc # "idle"
  /\ SpareGeneration
  /\ Forget /\ outcome' = "none" /\ budget' = 0
  /\ UNCHANGED disk

-----------------------------------------------------------------------------
(* Damage at rest *)

RotGeneration(g) ==
  /\ "rot" \in Faults
  /\ generations[g].kind = "sealed"
  /\ generations' = [generations EXCEPT ![g] = Unusable]
  /\ UNCHANGED <<progress, results, failure, instance, pc, budget, outcome, session>>

\* Some completed prefix names this chunk.
InCompleted(f) ==
  \E s \in Completed(progress) :
    LET m == progress.completed[s].results IN f[1] <= Len(m) /\ m[f[1]] = f[2]

RotChunk(f) ==
  /\ pc = "idle"
  /\ f \in results
  /\ IF InCompleted(f) THEN "rot_completed" \in Faults ELSE "rot" \in Faults
  /\ results' = results \ {f}
  /\ UNCHANGED <<progress, generations, failure, instance, pc, budget, outcome, session>>

-----------------------------------------------------------------------------
Request == \E b \in Budgets : Reuse(b) \/ Open(b) \/ RejectCompletion(b)

\* What the worker does by itself once a session is open
Work ==
  \/ CreateInstance \/ Restore \/ Initialize \/ RestoreFails
  \/ \E f \in results : DiscardTail(f)
  \/ Resume
  \/ \E d \in Draws : Advance(d)
  \/ Continue \/ CheckpointDue \/ Finalize
  \/ \E g \in Generation : MakeGeneration(g)
  \/ SealGeneration \/ PublishCheckpoint
  \/ \E g \in Generation : PruneGeneration(g)
  \/ CheckpointDone \/ PauseDone \/ FinalCheckpointDone
  \/ Finish \/ ClearFailure
  \/ WriteFailure \/ PublishFailure

Interruption == Pause \/ Raise \/ AbandonFailure \/ Crash
Damage == \/ \E g \in Generation : RotGeneration(g)
          \/ \E f \in results : RotChunk(f)

Next == Request \/ Work \/ Interruption \/ Damage
Spec == Init /\ [][Next]_vars

\* The operating system keeps scheduling a live worker, and the user keeps
\* asking for the longest budget.
LongestBudget == CHOOSE b \in Budgets : \A c \in Budgets : c <= b
FairSpec == /\ Spec
            /\ WF_vars(Work)
            /\ WF_vars(Reuse(LongestBudget) \/ Open(LongestBudget)
                         \/ RejectCompletion(LongestBudget))

-----------------------------------------------------------------------------
(* Properties *)

Sampled(n) == n % Every = 0 \/ (~Extendable /\ n \in Budgets)

\* The rows of one life of the components up to step n, one row per step
Timeline(rows, n) ==
  /\ {r[1] : r \in rows} = 1..n
  /\ \A r, q \in rows : r[1] = q[1] => r = q

\* What a reader of a prefix of n steps is owed: exactly the sampled steps,
\* once each, in chunks that follow one another.
Exact(manifest, n) ==
  /\ {r[1] : r \in RowsOf(manifest)} = {t \in 1..n : Sampled(t)}
  /\ \A r, q \in RowsOf(manifest) : r[1] = q[1] => r = q
  /\ \A i, j \in 1..Len(manifest) : i < j =>
       \A r \in manifest[i], q \in manifest[j] : r[1] < q[1]

Manifest == Seq(SUBSET Row)
ChunkFile == Step \X (SUBSET Row)
Sessions == {"opened", "discarding", "loop", "stepped", "flushed", "writing",
             "sealed", "pruning", "finishing", "completing", "raising", "failing"}
Progress(p) ==
  /\ DOMAIN p = {"status", "step", "checkpoints", "completed"}
  /\ p.status \in {"pending", "running", "paused", "completed", "failed"}
  /\ p.step \in Nat
  /\ p.checkpoints \in Seq(Generation)
  /\ IsFiniteSet(Completed(p)) /\ Completed(p) \subseteq Nat
  /\ p.completed \in [Completed(p) -> [results : Manifest,
                                       checkpoint : Generation \union {None}]]
IsGeneration(x) ==
  \/ x \in {Absent, Unusable}
  \/ x \in [kind : {"sealed"}, step : Nat, observed : SUBSET Row, results : Manifest]

\* Type invariant.
TypeOK ==
  /\ Progress(progress) /\ Progress(mem)
  /\ DOMAIN generations = Generation
  /\ \A g \in Generation : IsGeneration(generations[g])
  /\ results \subseteq ChunkFile
  /\ failure \in BOOLEAN /\ instance \in BOOLEAN
  /\ pc \in Sessions \union {"idle"}
  /\ budget \in Budgets \union {0}
  /\ outcome \in {"none", "skipped", "paused", "completed", "failed"}
  /\ step \in Nat /\ observed \in SUBSET Row
  /\ chunks \in Manifest /\ buffer \in SUBSET Row
  /\ cause \in {"none", "running", "paused", "final"}
  /\ gen \in Generation \union {None}
  /\ pc \in {"writing", "sealed", "pruning", "finishing"} => gen \in Generation

\* A prefix published as complete can be read at any later moment: all its
\* chunks are on disk unaltered, its instance is named, and it holds exactly
\* the rows its budget promises (RunStore.finish, Recorder.record), whatever
\* later extensions, failures, fallbacks and kills do to the same directory.
CompletedReadable ==
  \A s \in Completed(progress) :
    LET m == progress.completed[s].results IN Intact(m) /\ instance /\ Exact(m, s)

\* The state a published checkpoint restores and the result chunks it names
\* are the same boundary of the same life (RunSession.checkpoint).
BoundaryConsistent ==
  \A g \in Referenced(progress) :
    generations[g].kind = "sealed" =>
      LET e == generations[g] IN
      /\ Timeline(e.observed, e.step)
      /\ RowsOf(e.results) = {r \in e.observed : Sampled(r[1])}
      /\ Exact(e.results, e.step)

\* Without damage, a run that ever published a checkpoint keeps one it can
\* resume from, at or beyond everything published as complete
\* (RunStore.checkpoint prunes only after publication; RunStore.restore).
SomeResumePoint ==
  Referenced(progress) # {} =>
    \E g \in Referenced(progress) :
      Valid(g) /\ \A s \in Completed(progress) : s <= generations[g].step

\* What execute_run reports is durable: a completed or reused request is
\* covered by a completed prefix, now and after the process is gone.
OutcomeIsDurable ==
  outcome \in {"completed", "skipped"} => \E s \in Completed(progress) : s >= budget

\* A failed status always comes with its failure.json (RunStore.fail, finish).
FailureRecorded == progress.status = "failed" => failure

\* What a session tells, by its return value or by the status it leaves, is
\* backed by what is on disk, whenever it was killed.
OutcomesAreTold == OutcomeIsDurable /\ FailureRecorded

\* No step of a session takes away or replaces a chunk that a completed prefix
\* names, even when other chunks of that prefix have been damaged.
CompletedFilesKept ==
  [][pc # "idle" => \A f \in results : InCompleted(f) => f \in results']_vars

\* Once every step is one of the user's requests or of the worker's own work
\* (nothing interrupts or damages the run) and its decoders are there, its
\* longest budget completes, whatever happened before, with one exception:
\* when damage has left no valid checkpoint that covers a completed prefix,
\* every later attempt refuses to restore, to preserve what is saved
\* (RunStore.restore: "No valid checkpoint covers the completed prefix").
Undisturbed == Request \/ Work
Refused ==
  /\ Completed(progress) # {}
  /\ \A g \in Referenced(progress) :
       Valid(g) => \E s \in Completed(progress) : generations[g].step < s
EventuallyCompleted ==
  ("decode" \notin Faults /\ <>[][Undisturbed]_vars) =>
    \/ <>(\E s \in Completed(progress) : s >= LongestBudget)
    \/ <>[]Refused

-----------------------------------------------------------------------------
(* What the run promises, abstractly *)

ResumeRows ==
  LET order == CHOOSE o \in LongestFirst(progress) : TRUE
      entries == Entries(progress, order)
      valid == {i \in 1..Len(entries) : Valid(entries[i])}
  IN IF valid = {} THEN {}
     ELSE generations[entries[CHOOSE i \in valid : \A j \in valid : i <= j]].observed
ReadableRows(manifest) ==
  UNION {f[2] : f \in {f \in results : f[1] <= Len(manifest)}}

Promise == INSTANCE DurableRun WITH
  saved <- ResumeRows,
  done <- [s \in Completed(progress) |-> ReadableRows(progress.completed[s].results)],
  Lossy <- Faults # {}
\* Every step of the store is a step of DurableRun or changes nothing of it.
Promised == Promise!Spec
=============================================================================
