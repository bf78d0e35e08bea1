# Experiments W/O Stress: models, checks and proofs

This directory specifies the part of `experiments_wo_stress` that must not lose
or falsify results: what a retained run variant keeps on disk, how a worker
session executes and resumes it, how pruning, analysis and scheduling build on
that, who may own an output directory and what is left when an owner is killed,
what GPU worker processes and the observers of an invocation do, and what the
numbers that come out mean. The modules are TLA+, checked with TLC on small
instances and, for the properties that matter most, proved with TLAPS for every
value of the constants.

Paths below are relative to `src/src/experiments_wo_stress/`.

## The system

| Part | State it keeps | Operations | Why it is hard |
|---|---|---|---|
| Run variant storage (`storage/run.py`, `storage/files.py`) | `progress.json` (status, step, checkpoints, completed budgets), `checkpoints/<generation>/`, `results/NNNNNN.npz`, `failure.json` | restore with fallback, checkpoint, finish, fail, completion | a kill between any two publications; fallback to an older generation deletes newer result files; completed prefixes share files with later extensions |
| Worker session and Recorder (`execution/worker.py`, `storage/run.py`) | live components, buffered observations, the manifest of flushed chunks | reuse, restore or initialise, step loop, timed checkpoint, pause, finalise, exceptions | memory and disk must describe the same boundary at every checkpoint |
| Checkpoint backends (`storage/checkpoints.py`) | none | write and read a payload | a valid payload whose decoder is unavailable is neither damaged nor missing |
| Trajectory retention (`storage/trajectories.py`) | pruning receipt and history beside a variant | prune, settle checkpoints, rematerialize, prove an input revision | intentional deletion must never look like damage, nor damage like deletion |
| Analysis graph and cache (`analysis/graph.py`, `cache.py`, `retention.py`) | the DAG metric, aggregate, figure; immutable generations keyed by identity | refresh, reconcile, finish, prune metrics, finalize | demand is maintained incrementally while files appear and are deliberately removed |
| Scheduler and coordinator (`execution/scheduler.py`, `coordinator.py`) | pending, active, finished and failed tasks, fairness counters, the report | next task, finish, stop, finalize | results arrive in any order; failures and stops must not lose or double-count a run |
| Experiment store (`storage/experiment.py`) | active request, variants, instances, the lock | lock, publish request and variant, save and load instances | several publications per request; lock lifetime against worker lifetime |
| Cleanup (`storage/cleanup.py`) | none | delete by scope | pointers first, then files; a kill in between |
| Recovery snapshots (`storage/recovery.py`) | a sealed copy | select, copy, verify, restore | copying a directory another process owns |
| GPU workers (`execution/resources.py`) | one process and pipe per GPU | prepare, submit, result, close | worker death, replies larger than a pipe, inherited descriptors, draining at shutdown |
| Notifications, progress (`execution/notifications.py`, `progress.py`) | counters, a sender thread, a bounded queue | callbacks, best-effort delivery, a bounded wait at the end | must never block or change the science, and must tell the truth with late or lost input |
| Compute records (`execution/compute*.py`) | start and end records of attempts, a record per invocation, a summary | begin, end, report | records are best effort; the summary must say what it cannot know |
| Planning and identities (`study/`, `execution/provenance.py`) | none | expand grids, identify runs, derive random streams, locate variants | what is the same run, and what is paired with what, decides every reuse |
| Built-in experiments and metrics (`builtins/`, `analysis/metrics.py`, `pipeline.py`) | component states, generators | protocol steps, prefixes, metrics, aggregation, selection of points | an extended, resumed or sparse run must give the numbers of the plain one |

How they interact. `ews run` takes the output directory's lock, publishes the
request, builds the analysis graph and asks the scheduler for tasks. A
simulation task is a worker session on one run variant; derivation tasks read
the variant's chunks or derived generations and publish new ones. Workers are
processes: they share nothing with the coordinator but the disk, a stop event,
their return value, and the display's queue. With GPUs there is one process per
device, and commands and replies go through its pipe; without, a process pool.
The coordinator alone changes the graph, the scheduler and the retention state,
between two returns, and tells display and notifier of every start and end.
`analyze` and `plot` do the same in one process, without simulations. `clean`
and `recover` take the same lock; a new invocation knows only the disk.

What has to hold, part by part:

* **Run variant storage, session, recorder.** A completed prefix stays readable
  and exactly what the steps observed; a checkpoint is one boundary of one life;
  a resume point survives any kill; a reported outcome is durable.
* **Trajectory retention.** Missing observations are always behind a receipt
  that proves them; evidence is never lost; removal never looks like damage;
  interrupted removals are completed.
* **Graph and cache.** Incremental demand is the demand computed from scratch;
  tasks find their inputs; nothing disappears that is still needed.
* **Scheduler and coordinator.** Nobody starves; every run is counted once; an
  undisturbed request is satisfied in the end; every invocation ends.
* **Experiment store, cleanup.** One invocation at a time owns a directory; what
  is called completed is usable; only a removal that was killed halfway can hurt.
* **Recovery.** A sealed snapshot is one committed state of the output.
* **GPU workers.** No task runs twice at a time, a reported result is durable,
  nothing that was taken is forgotten, shutdown terminates.
* **Compute records.** Reports are true, and say which compute is unknown.
* **Notifications, progress.** What they tell is what the report says, and they
  hold nothing up.
* **Planning, experiments, metrics.** The same science is the same run; paired
  data is paired; observations and published statistics are those of an
  uninterrupted run for exactly this request.

## Modules

| Module | Stands for | Used by |
|---|---|---|
| `RunStore` | one variant: session, recorder, durable store | everything about runs |
| `DurableRun` | abstract: saved work grows, completed prefixes are fixed | `RunStore!Promised` |
| `RunStoreProofs` | theorems about `RunStore`: what is kept; what is resumed, and the refinement | |
| `Trajectory` | `RunStore` plus pruning, replay and the coordinator that decides on them, for one variant | |
| `TrajectoryProofs` | theorems about `Trajectory`, over `RunStoreProofs` | |
| `Study` | constants: runs and their groups | the four below |
| `AnalysisGraph` | the graph's methods as operators on a graph value | `Coordinator` |
| `TaskScheduler` | selection of the next task, and its counters | `SchedulerLoad`, `Coordinator` |
| `SchedulerLoad` | the scheduler in an environment where anything becomes ready | |
| `SchedulerProofs` | theorems about `SchedulerLoad` | |
| `Coordinator` | `run` and saved-only commands over many variants; composes graph and scheduler | |
| `CoordinatorProofs` | theorems about `Coordinator` and the graph's methods | |
| `OutputStore` | one output directory, and `run`, `clean` and recovery snapshots as its owners | |
| `OutputProofs` | theorems about `OutputStore` | |
| `GpuPool` | worker processes, pipes and the GPU loop of the coordinator | `GpuRuns` |
| `ComputeLog` | attempt and invocation records, and their summary | `GpuRuns` |
| `GpuRuns` | successive invocations with GPU workers; composes the two | |
| `GpuProofs` | theorems about `GpuRuns` | |
| `Outcomes` | counts of outcomes, as display and notifier keep them | `Display`, `Notifier` |
| `Display`, `Notifier` | the terminal display; the Discord sender | `Observers` |
| `Observers` | one invocation with both; composes the two | |
| `ObserversProofs` | theorems about `Observers` | |
| `Planning` | configurations to runs, identities, streams, variants | `Interaction` |
| `Interaction` | protocols, bandits, adapters: one step of a run | `Curves` |
| `Curves` | reading prefixes, metrics, aggregation, selection of points | `Results` |
| `Results` | configurations requested, executed, extended and analysed one after the other | |
| `ResultsProofs` | theorems about `Results` | |
| `MCRunStore`, `MCTrajectory`, `MCScheduler`, `MCCoordinator`, `MCOutputStore`, `MCGpuRuns`, `MCObservers`, `MCResults` | instances for TLC | the `.cfg` files |

Definitions marked `mutant` are variants of the definition that follows them,
with a plausible mistake; nothing uses them. With the mistake put in, the property it
is aimed at fails, which shows that the property can tell.

### RunStore

State: `progress`, `generations`, `results`, `failure`, `instance` are the files
of `runs/<id>/`; `mem`, `step`, `observed`, `chunks`, `buffer` the session's
memory; `pc` where the session is. `Open`, `Reuse`, `RejectCompletion` are the
reuse of a completed prefix (`execute_run`, `RunStore.completion`); `Restore`,
`Initialize`, `RestoreFails`, `DiscardTail`, `Resume` are `restore`, entry by
entry with its fallback and removals; `Advance`, `Flush`, `Continue` the protocol
step and the recorder; `BeginCheckpoint`, `MakeGeneration`, `SealGeneration`,
`PublishCheckpoint`, `PruneGeneration` are `checkpoint`, one action per
publication; `Finish`, `ClearFailure`, `Raise`, `WriteFailure`,
`PublishFailure` complete the outcomes. `Crash` may fall between any two.
Rows are `<<step, draw>>`: the draw is what distinguishes two lives of the
components. Damage (`Faults`) is split: a decoder that is unavailable now, rot
of resumable data, rot of completed chunks.

### Trajectory

Adds `receipt` (`trajectory.json`), `history` (`trajectory-history.json`),
derived generations and one invocation (`call`). `PublishReceipt`,
`UnlinkChunk`, `SettleReferences`, `DiscardGeneration` are `prune_trajectory` and
`settle_pruned_checkpoints`; `ArchiveReferences`, `ResetProgress`,
`ClearReceipt` are `rematerialize_trajectory`; `ResultReference` is
`result_reference`. The worker in between is RunStore's, action by action. The
aggregation group is one run; groups are `Coordinator`'s matter.

### AnalysisGraph, TaskScheduler, Coordinator

A graph is a value `[request, references, key, found, needed, expanded, ready,
missing, prune]`: `key` the identities, `found` the nodes with a validated
directory, `needed` the consumers that demand a node (`_needed_by`), `expanded`,
`ready`, `missing` the fields of the same names. `Construct`, `Refresh`,
`Published`, `Release` are `__init__`, `refresh`, `finish` and the release of
metrics, including every reconciliation they trigger. The definitions `...FromScratch`
say what the result should be, from the request, the references and the cache.

`Coordinator` has a variable for the disk (`saved` per run, `cache`), for the
running invocation (`graph`, the scheduler's variables, `work`, `stop`,
`report`, `batch`), and one action per handler: `PruneExisting`,
`SubmitDerivation`, `SubmitSimulation`, `SkipSimulation` (`_next_task`),
`SimulationFinished`, `DerivationFinished` (`_task_finished`), `Finish`. Workers
take steps of their own: `Simulate`, `Read`, `Publish`, `Raise`. `Ask`,
`Execute` are the saved-only loop. What a run does inside a worker or while it
is pruned is reduced to `none / retained / pruned` and a revision; `Trajectory`
checks that reduction's content (a pruned run is always proven, a ready metric
finds its input). A replay may produce any of the revisions its study gives the
run: the revision names the chunks, and the same observations may be cut
differently. The history variable `moved` says that the invocation at hand has
replayed a pruned run to another revision: what the graph and the scheduler then
no longer look at is under Findings.

`SchedulerLoad` starts from `retained`, the runs that earlier invocations completed:
they are pending like the others, and `progress` counts them as
`TaskScheduler.__init__` does.

### OutputStore

State: `metadata` (the variants of `metadata.json`), `requests`, `catalog`,
`runs`, `instances` are the directory; `lock` its owner; `call`, `session`,
`cleaner`, `copying` what each command is at. `BeginRun`, `PublishHistory`,
`PublishMetadata`, `PublishCatalog` are `prepare_request` and `publish_request`,
one action per publication; `Located` chooses the current variant of a
specification, or the one that reviewed older code left. `ReadRun` to
`FinishRun` is a session as the directory sees it: variant metadata, instance,
link between them, boundaries; `FailRun` its failure. `PlanClean` selects and
writes what is written before anything is removed (pointers, `progress.json` of
checkpoint cleanups), `RemovePath` removes one path after the other,
`KillClean` leaves the path at hand half removed. `SelectCommitted`, `Sealed`,
`KillSnapshot` are a snapshot; a sealed one is then the directory that is worked
on. The history variable `interrupted` is what killed cleanups had still to
remove: everything outside it has to be intact.

### GpuPool, ComputeLog, GpuRuns

`phase` is where `_run_with_gpus` is, `active` the command a worker owes an answer
for, `command` and `reply` its pipe; a large reply is whole only when the
coordinator receives it, and a descendant (`held`) keeps pipe and sentinel open
after its worker ended. `NoticeExit`, `BeginReceive`, `Receive` are
`wait_gpu_workers` and `result`; `Unlock`, `Close`, `Joined` unwind the two
context managers in the order of the code. A worker is `Serve`, `Work`, `Reply`,
`HangUp`. `Die`, `Kill`, `Raise`, `Signal` interrupt anything. `GpuRuns` adds
the records: an attempt's start when a task is served, its end before the reply,
the invocation's after the join, and then the summary drawn again from all of them
(`RecordInvocation`, `RegenerateSummary`); any of these publications may fail
(`Losses`), and a kill may fall between any two. What a task
does to its run is one number (nothing, a part, everything).

### Outcomes, Display, Notifier, Observers

`Display` keeps what `ProgressDisplay` keeps: counters owned by the
coordinator's callbacks (`ShowStarted`, `ShowFinished`, `Configure`,
`ReuseTasks`), rows owned by the snapshots that `Refresh` drains, the last report
(`Retain`) and the summary that `Exit` prints. A full queue drops; a process
that dies loses what its feeder had not written, and may keep the queue's lock.
`Notifier` is `DiscordNotifier`: callbacks under a lock (`NotifyStarted`, `NotifyFinished`,
`GiveReport`, `SetFinished`, `Join`), a sender thread that builds a message,
sends it, gets an answer, a refusal or nothing, and waits (`Send`, `Answer`,
`EnterWait`, `WakeToTell`, `Tell`, `Finish`). `Observers` calls both in
the coordinator's order, while workers take, advance, return or die, and while an
interruption or an exception may unwind it.

### Planning, Interaction, Curves, Results

`Plan`, `MakeRunSpec`, `RunId`, `Extendable`, `StorageId`, `Stream` are
`plan_runs`, `make_run_spec`, `prepare_request` and `make_rngs`, with hashes taken as
injective. `Interaction` constructs a run and takes one `Step` of its protocol: what
the components and their generators hold afterwards and what is observed; a
draw is a number determined by its stream and position. A Gaussian reward takes one; a
Bernoulli reward takes one too, except of an arm that never pays (`Takes`). `Curves` is
`read_result_prefix`, the built-in metrics with `validate_requirements`, the
accumulator of an aggregate, and `_subsample_summary`. `Results` requests
configurations one after the other, opens, pauses, kills and finishes sessions,
and analyses: what is published is in `summaries`, an analysis that raises in `refused`. Its properties compare with the science by definition: each
run carried on once, without interruption, recording every step, and each
metric computed from all of these steps by its formula.

## Runs

| Run | What it shows |
|---|---|
| `run_extension` | One variant asked for two budgets in any order, two values a step may draw, two retained checkpoints, decoders that may be unavailable at any restore; a kill, an exception or a pause between any two publications. Completed prefixes stay readable, checkpoints are boundaries, a resume point survives, outcomes and failures are recorded, and the store implements `DurableRun`. |
| `run_liveness` | Two budgets while checkpoints and chunks rot at rest, those of completed prefixes too: an undisturbed variant completes, unless the damage left no valid checkpoint that covers what is complete and every attempt refuses to restore; and the program never takes away what is left of a completed prefix. |
| `trajectory_budgets` | Prune and replay with two budgets, buffers of two rows so that replays cut chunks differently, kills anywhere: deletion is proven and evidence is kept. |
| `trajectory_metrics` | Two metric configurations, both retentions, kills, pauses and exceptions: nothing is removed before it is analysed, removal never looks like damage, repeated requests are analysed in the end, and an interrupted removal is completed. |
| `scheduler` | The code's limits (streak 8, age 4) under an endless stream of derivations, with nothing, parts of one or two units, or everything retained by earlier invocations: waiting is bounded, two units are never partly submitted at once and those with retained members come first, every simulation is submitted and every kind served. |
| `coordinator` | Three studies. One unit of two runs, requests of different metrics and two saved-only commands, everything removed that may be, two workers, tasks that may raise, stops and kills; and three runs in two units, shared figures, growing and shrinking requests with different aggregators, stops; and requests of different metrics over a unit of two runs of which one may be replayed to another revision. No work is repeated, runs are counted once, removal is covered, invocations end, undisturbed requests are satisfied in the end. While the invocation has not replayed a run to another revision (`~moved`), tasks find their inputs, incremental demand is exact, and an invocation that nothing hurt ends satisfied. |
| `gpu` | One invocation on two GPUs of study code that forks, with small or large replies, and two successive ones on one GPU; a death, an exception in any phase, an interruption, a killed coordinator, a lost record or summary. Nothing is executed twice or forgotten, what is reported is durable, accounts are honest, every invocation that is not killed joins its processes and ends, with the one exception the property names (`HalfReplyIsHeld`). |
| `observers` | One invocation with display and notifier, dropped and late snapshots, a process that dies holding the queue's lock, an interruption, exceptions, refused deliveries, a Discord that never answers: rows, messages and summary tell what the report says, and nothing is held up. |
| `output` | Runs, cleanups of every scope and of single variants, snapshots and their restored copies, killed anywhere: progress is backed by files, snapshots are committed, completions stay, and only interrupted removals can make a session fail. |
| `results` | Ten studies of successive configurations, paused, killed and extended anywhere: recorded observations are reproducible, data is paired where every arm draws, and what the analysis publishes or refuses is right. |
| `gpu_abort`, `output_killed_clean` | Counterexamples, see Findings. |

Bounds, by name. `Budgets` up to 3: two budgets are what an extension needs, and in
`run_liveness`, where they are 1 and 3, a checkpoint falls strictly between them.
`Generation`: 3 or 4 identities; `SpareGeneration` and the guards of the publications
keep the bound from blocking a session: enough for `Keep` retained, one pinned, one
being written. `MaxRows` 1 or 2 puts chunk boundaries at and off checkpoints. `Draws`
has two values in `run_extension`, which tell lives of the components apart where lives
are mixed, and one elsewhere, where only what is there and what it covers matters.
`Faults` chooses the damage: nothing, undecodable payloads, rot of what can be resumed,
rot of completed chunks. `Interruptions` limits what stops a worker in `Trajectory`
besides `Kill`. `StreakLimit` and `AgeLimit` are 8 and 4 in `scheduler`, as in the code,
and 2 in `coordinator`, where they only have to be reachable. `Earlier` lists what
earlier invocations may have retained in `scheduler`, up to the names of runs and units.
`Slots` bounds the derivations of a kind that are ready at a time (1: the counters see
kinds, not tasks). `Runs`: a unit of two is the smallest that waits for a member, a
second unit the smallest to be left alone. `Workers` 2: two tasks are concurrent (1 in
`output`, where sessions of different variants share only an instance). `Requests` are
the smallest alternations that make demand shrink and grow. `Fragile` names the tasks
that may raise: one of each kind in the first study of `coordinator`. `Stops` and
`Kills` switch interruptions on. `Revisions` has two values, of which a study gives each
run one or both. `Boundaries` 1 and three variants, two of one specification, sharing
one instance: the smallest directory in which a cleanup must not take a shared instance
and a request must choose between current and older code. `Deaths`, `Losses` 1: one of
each can fall anywhere, and two add no new kind of state. `Invocations` 2: the first
leaves what the second finds. `Capacity` 2 of the display's queue: one below the number
of snapshots a run sends, so that any may be dropped. `Settings` of `observers`: the
notifier alone with two runs, on a pool and on single processes; the display with a run
and a derived task; both with one run on a pool. They share no state with each other but
the coordinator's, which never waits for either except in `Join` and `Close`. `Studies`
of `results`: two algorithms on instances that are drawn, on given Gaussian arms and on
given Bernoulli arms, each pair with a mean of 0; three repetitions, extended; a
schedule of three rows asked for two, three and four steps; episodes of three and five
steps, every one or every second recorded; a learner that cannot be extended, likewise;
two distributions with and without the label that tells them apart; three fits; the
older horizon parameter. Draws are modulo 3. `Scale` 6: means are counted in sixths and
deviations in thirty-sixths, which is exact for units of up to three repetitions; the
proofs take any `Scale` that is a multiple of every number of repetitions.
Symmetry is used over generation identities only, in runs without liveness.

Deadlock is checked except in `output`, `gpu`, `observers` and their
counterexamples, whose commands and invocations end and are bounded in number.

Fairness. `RunStore`: a session that can take a step takes one (one process,
one thread, no lock inside). `Trajectory`: the same of worker and coordinator.
`SchedulerLoad`: the coordinator submits whenever a worker is free
(`_run_parallel` loops until nothing can be submitted) and some active task
returns. `Coordinator`: somebody always goes on, `[]<><<CNext>>_cvars`, which is
weak fairness of `CNext` since `CNext` is always enabled (TLC is slow at
evaluating ENABLED of it). That a *running* invocation always has a step is shown by the
absence of deadlock in `coordinator`, in the studies that nothing can kill.
`GpuRuns`: the coordinator and each worker process go on, that is, a task that
is served returns, as the code assumes; nothing is assumed of deaths. `Observers`: the
coordinator, the workers and the two threads go on; that Discord answers is
*not* assumed. Properties about repeated requests assume that from some point on only that
request is made and nothing interrupts it; no fairness is assumed of
interruptions, arrivals, failures or kills. `OutputStore` and `Results` state
safety only.

## Proofs

`RunStoreProofs` proves, for all constants that satisfy the assumptions of
`RunStore` (any budgets, any interval, any buffer size, any number of
generations, any faults unless said otherwise):

* `TypeCorrect`: `TypeOK`.
* `CompletedStaysReadable`: `CompletedReadable`, if chunks of completed prefixes
  are not themselves damaged (`"rot_completed" \notin Faults`).
* `CheckpointsAreBoundaries`: `BoundaryConsistent`.
* `OutcomesAreBacked`: `OutcomesAreTold`.
* `CompletedFilesStay`: the action property `CompletedFilesKept`.

None of these is inductive. `IInv` adds: `InvMem` (the session's copy differs
from `progress.json` only where a publication is under way), `InvGenerations`
and `InvSession` (a sealed generation, and the live session, hold rows of one
life, one per step, and a manifest that records exactly the sampled ones),
`InvCovers` (once restored, a session is never behind a completed prefix and its
manifest extends that prefix's), `InvEntries`, `InvPinned` (what checkpoints and
completions name is there and of the right length), `InvOrder` (checkpoints are
newest first), `InvBehind` (generations not named yet), `InvWriting`, `InvFinal`
(what each point of the control implies); `InvOutcome` is proved on top of it. The crux is `InvCovers`:
`restore` may fall back, and only its check against completed prefixes keeps the
next `Flush` from replacing a chunk a completion names. There is one `...Step`
lemma per conjunct, with a step per action; lemmas on `Take`, `From` and
`Entries` come first.

Its second half goes on under `NoRot`: nothing the program stored rots by itself
(`"rot"` and `"rot_completed"` are not in `Faults`; a decoder may still be unavailable at any
restore). Rot can take every checkpoint, and then both statements are false.

* `ResumePointRemains`: `SomeResumePoint`.
* `StoreImplementsPromise`: `Promised`, that is `RunStore` implements `DurableRun` under
  its refinement mapping. Initial states map to initial states; each action of a session,
  of `Crash` and of the faults maps to a step of `DurableRun` or to a stutter.

`RInv` adds to `IInv`: `InvKept` (what `progress.json` names is sealed, at every point of a
publication), `InvFiles` (one file per chunk number), `InvPoint` (a session keeps an entry
that validates and never cuts into its chunks), `InvSuperseded` (an older checkpoint that
stands behind a completed prefix is listed after the one that prefix was published with:
this is why a fallback may skip newer entries and still never resume behind what is
complete), `InvLonger` (what is executed is covered by no completion), `InvNewest` and
`InvSealing` (when no decoder fails, the newest entry is the one that is resumed). The
abstract variables are a maximum and a set over checkpoints and completions, so lemmas on
maxima of finite sets and on descending enumerations (the half opens with them, by
well-founded induction on the library's theorems) carry the mapping.

`TrajectoryProofs`, also under `NoRot`:

* `RemovalIsProven`: `DeletionIsProven`.
* `RemovalWaitsForAnalysis`: `AnalyzedBeforeRemoval`.
* `RemovalLooksIntended`: `RemovalIsNotDamage`, if decoders are available
  (`"decode" \notin Faults`).
* `EvidenceRemains`: `EvidenceIsKept`.

`TInv` says: while a receipt is there no session runs and the receipt proves every
completed prefix (`InvReceipt`); while none is there the run is an ordinary one
(`InvRetained`: `RInv`), which is where the steps of the worker inside `Trajectory` take their lemmas
from; nobody but the coordinator touches a run it prunes or replays, and what it is at
determines what is on disk (`InvStage`); pruning is considered only once the metrics of the
very revision on disk are durable (`InvProofs`); a worker is started only for a run that
nothing retained serves (`InvWorker`); the status `completed` names a completion (`InvStatus`).

`SchedulerProofs` proves, for any kinds, groups, capacities and any `AgeLimit` of at
least two:

* `SchedulerTypes`: the types of the scheduler and its load.
* `UnitsStayClosed`: `UnitsAreClosed`, whatever is retained. Its invariant `Ahead` says
  that a unit of which a part is submitted counts more than any other that still has members
  to submit, that only retained and submitted members count, and that nothing is submitted of
  the other units while one with retained members is pending.
* `WaitsAreBounded`: `WaitIsBounded`. The invariant `Waits` says that the kind just
  taken waits for nothing, that at most one kind is at the limit, and that a kind
  that waits is ready; with a limit of one two kinds could reach it together, which is
  why the assumption is there.

`GpuProofs` proves, for any sets of devices and tasks, any number of invocations,
deaths and lost records, and any subset of the faults the constants name:

* `GpuTypeCorrect`: the types of processes, pipes and accounts.
* `TasksRunOnce`: `NeverTwice`.
* `ReportsAreDurable`: `ReportedIsDurable`.
* `TasksAreRemembered`: `NothingIsForgotten`.
* `AccountsStayHonest`: `AccountsAreHonest`.

The first part follows one command: `Flow` says in which of pipe, worker and reply it
may be, and that all three belong to the command the worker owes (`active`); `Owed`,
that no two workers owe one task and none that is still on offer; `Taken`, that a task
is on offer, owed or has its outcome; `Backed`, that what is going to be told as
completed is durable. The second part, `LogInv`, is inductive only together with the
first: `Attended` (an attempt of this invocation without an end is under a worker or
was cut short), `Fresh` (a task has no attempt while it is on offer or in a pipe: this is
what makes an attempt that dies one without an end), `CutOff`, `Growing` (later
attempts begin no earlier, so an attempt after a lost start shows the missing prefix) and
`Reported` (a summary that lists the invocation was drawn from the records as they are). `EarliestExists` takes the least invocation from the library's theorems on
well-founded relations. `None` is assumed different from every status, task, number and
reply it is compared with.

`OutputProofs` proves, for any number of boundaries and workers and any finite, disjoint
sets of variants and instances (both assumptions are in `OutputStore`: specifications and
instances are two directories, and a study is finite):

* `OutputInvariance`: the types, and `OInv` below.
* `ProgressStaysBacked`: `ProgressIsBacked`.
* `FailuresAreExplained`: `OnlyInterruptedRemovalsHurt`.
* `SnapshotsAreCommitted`: `SnapshotIsCommitted`.
* `CompletedWorkStays`: the action property `CompletedStays`.

`OInv`: one command owns the directory and workers are the running command's (`InvOwner`); a variant that
no interrupted cleanup touched is whole as far as its files claim (`InvRuns`); half an instance is only
there after a killed cleanup (`InvBroken`); one worker per variant, no longer to be submitted
(`InvAlone`), and what is on disk at each point of its session (`InvSession`); a snapshot
under construction is of the files as they are (`InvCopying`). The crux are the cleanups:
`InvRemoval` says that everything still to be removed belongs to what was selected (an
instance goes only if all variants linked to it do), and that all that is left of what was
selected is still to be removed, so that a kill leaves nothing half removed outside
`interrupted`; `InvForgetting`, that checkpoints go only after no `progress.json` names
them. Commands, sessions and cleanups each have one frame lemma (`CommandStep`,
`SessionStep`, `CleanerStep`) that their actions instantiate.

`ObserversProofs` proves, for any plan over finite sets of runs and derivations, any number
of workers, any capacity of the display's queue and any faults of the constants:

* `RowsAreTrue`: `RowsTellOutcomes`.
* `DeliveriesAreTrue`: `MessagesAreTrue`.
* `LastLineIsTrue`: `SummaryIsTrue`.

`ObsInv` is bookkeeping: the coordinator's ledger (`InvLedger`), and how far each observer is
behind it. This is at most the one callback that is being made: the run whose end the
display (`Untold`) or the notifier (`Unheard`) was not told yet, or whose start the notifier was
not told (`Unannounced`). `InvBoard` says what the display counts, `InvNotifier` what the
notifier counts until Discord refuses it and that it is frozen afterwards, `InvReport`
that the report is made of the final accounts, and `InvMessage` that a message under way was
true when it was built, and is final if it says so. `CountsTotal` adds the counts over a
ledger up to the runs that ended. `None` is assumed different from statuses, callbacks and
reports.

`CoordinatorProofs` proves, for any studies (any requests, figures, groups, retention options,
any tasks that may raise), any number of workers, and stops and kills anywhere:

* `RemovalStaysCovered`: the action property `RemovalIsCovered`.
* `RunsAreCounted`: the first half of `ReportIsTrue`, that every requested run is counted.

and, where metrics are distinct computations (`DistinctMetrics`):

* `WorkIsDoneOnce`: `WorkIsNotRepeated`.

* `InputsStayPresent`: `InputsArePresent`.
* `DemandStaysExact`: `DemandIsExact`.
* `ReportsAreTrue`: `ReportIsTrue`.

The last three properties say what they do of an invocation that has not yet replayed a
pruned run to another revision (`~moved`), in studies whose replays may: `CacheInvariance`
is that `CacheInv` and the agreement of revisions (`InvSame`: what the graph refers to is
what is on disk, for every run it was told of) hold until `moved`. Neither premise is
assumed of the constants, because the code ensures neither: without the first a generation
that two names share goes with the first aggregate; after such a replay a run that was
passed by may be needed again, or a metric of a pruned run submitted (both under Findings).
Everything else is needed of `None` only: it is no key and no graph (`NoneAssumption`).

The argument has three parts. The graph keeps its demand in increments, and between two
expansions it is right at some nodes only. `Clean(g, D)` says that it is right outside the
nodes D: each node is needed by the request and the consumers that are expanded (`Linked`),
and is expanded, ready or missing exactly if it is wanted and can or cannot run (`Right`).
`MetricsClean`, `AggregatesClean` and `FiguresClean` show that each level removes its
nodes from D, turning the level below where demand changed; so `ReconcileCleans`, and with it
`ConstructSound`, `RefreshSound`, `PublishedSound`, `ReleaseSound`: every method leaves a
graph that is clean, well typed and whose keys are the identities of what is upstream.
`PoolInv` adds the pool: tasks of a running invocation only, nothing under way before
earlier deletions are completed, and the counts. It holds of every study, and removal is
covered because an aggregate's key names the metrics it consumed and each metric has one
consumer (`OneConsumer`).
`CacheInv` says what the graph may not know of the disk. `InvFound`: nothing but
generations of tasks whose end it was not told. `InvBehind`: a run it was not told of, or
whose observations were removed after all its metrics were settled, i.e. durable or behind
a durable aggregate (`Durable`). `InvJobs`: a task in the pool still computes what
the graph expects, its inputs are found and its observations are there. `InvAsked`,
`InvDone` and `InvFailed` say what is left when nothing is left to do: a run that was
executed or passed by is retained or durable. Keys do not change once there are some
(`KeysStay`) and what is settled stays settled (`SettledStays`), so each action's step
needs to look at the one task or run it is about. TLC checked every conjunct on the
instance of `coordinator` before it was proved.

`ResultsProofs` proves, for any studies (any configurations in any order, any algorithms,
budgets, intervals and repetitions, as `StudiesAssumption` says), any way in which steps draw
and learn, and pauses, kills, failures and extensions anywhere:

* `Exactness`: the inductive invariant `EverythingIsExact`.
* `Reproducibility`: `ResultsAreReproducible`.
* `Pairing`: `DataIsPaired`, for every bandit whose arms all draw.
* `Truth`: `AnalysisIsTrue`.

`ContinuationIsExact` is not inductive: a session continues with what a checkpoint holds, and
the analysis reads what a completed boundary names, so `EverythingIsExact` says of each what
it holds. `VariantIsExact`: a variant is stored under its science (`RunId`, the specification
without its budget), has the instance that science draws, a checkpoint that is the life of the
science at its step with the observations retained up to it (`SavedIsExact`), and boundaries that
name the observations retained up to them, only one if the run cannot be extended
(`CompletedIsExact`). `SessionIsExact`: chunks and buffer together are what is retained of the
life so far (`Seen`). There is one lemma per action. The crux of the first theorem is `SeenSplits`
with `ReadPrefixSplits`: what a longer run retains up to a step is what the shorter one
retains, and reading chunk by chunk returns exactly that, wherever the chunks were cut; a run
of fixed length, which also records its last step, is stored under its budget, so no
longer run serves it. That of the second is `BanditsDrawInOrder`: however the algorithm
draws and whichever arms it plays, after i steps the data has drawn i times from its own
stream. This is where the premise is needed: a Bernoulli arm of mean 0 draws nothing (see Findings).

`Truth` goes on from there: `AnalysisIsExact` is `EverythingIsExact` with the summaries and
refusals so far, and only `Analyze` adds to these. Four parts meet in it. *Observations are
numbers*: every step of a life that can be played is observed in integers, of an arm that
exists (`LifeIsObserved`, by induction along the life, one lemma per protocol). *Metrics*: the
running sums and maxima of `builtins/metrics.py` over what was read are the sums over the life
that define the metric (`CurveIsTrue`); where the means never change, the arm that is best at each
step is the best fixed one (`BestThroughout`). *Aggregation*: a group that still fits has
one science and each repetition once (`GroupsCollect`), and Welford's update keeps
`count * mean` equal to the sum and the deviation equal to the sum of squares less
`count * mean^2` (`MeansAreExact`, `Deviation`); sums over a set of runs are unrolled along
the order in which they were added (`SumAlong`), so the result does not depend on
it (`GroupIsExact`). *Selection*: rounded positions are even and keep both ends
(`PositionsAreEven`), so a subsample says the same at its points (`SubsampleIsTrue`). Refusals:
a result is insufficient only for a reason the property names (`InsufficientIsUnsuited`, where
`NothingIsLeftOut` shows that at interval one a metric of every step has every step), and a
group does not fit only if it pools different sciences, as complete runs of one science have
different repetitions and the same points (`MisfitIsAnotherScience`).

A life, a sampling, the joining of chunks, the reading of a prefix, a running sum, a fold over a
set and a group are recursive functions. The library's induction theorems take an operator and
cannot be used here; `Induction` and `SubsetInduction` prove the principle for a set instead, from
the library's theorem that a well-founded relation has minimal elements. From it follows that
there are finite prefixes of each function, that they agree, and so the function's equations
(`UninterruptedUnfolds`, `SampledUnfolds`, `JoinedUnfolds`, `ReadingExists`, `SumUnfolds`,
`AggregateUnfolds`).

The assumptions are what the code lets start. `StudiesAssumption`: a run has a budget exactly
if its protocol counts steps (`make_run_spec`, and `set_budget` of the protocol), bandits run
under the online protocol (their `validate_component`), and `None` is no number. `DataAssumption`: the
online and RL protocols find a bandit and an environment, and the means of a bandit are a vector
or a rectangle of numbers that is not empty (`_means` in `builtins/bandits.py`).
`ConfigAssumption`: a plan is finite, the interval and the number of points are what
`study/config.py` accepts, metrics are the modelled ones, and `Scale` is a multiple of every
number of repetitions, the one bound of the model in it. `Truth` is about integers: rounding of
floating-point numbers is not modelled.

Every invariant and every action property that a run checks is stated by a theorem, under the
premises named here (`CompletedReadable` is not claimed while completed chunks themselves
rot). Only model-checked, ENABLED being out of the prover's reach: the eight properties that rest on
fairness, `EventuallyCompleted`, `AnalysisCompletes`, `RemovalCompletes`, `KindsAreServed`,
`InvocationsEnd`, `RequestsAreSatisfied`, `EveryInvocationEnds` and the observers' `InvocationEnds`.

## Findings

1. `gpu_abort`: `_run_with_gpus` takes the output's lock inside the context of
   the workers (`execution/coordinator.py:209`). An exception of the loop, raised for one
   worker that is free or has just answered while another executes a task, releases
   the lock first and stops and joins the workers afterwards, so that task goes on
   writing without the lock that `storage/experiment.py:42` promises.
2. `output_killed_clean`: `clean --scope runs` updates `metadata.json` only and then
   removes instances before runs (`storage/cleanup.py:153`). Killed in between, it
   leaves variants whose metadata name an instance that is gone, and the next
   request names these variants, against the comment at `storage/cleanup.py:136`.

Met while modelling, without a run of their own. The first five are excluded
from the passing runs by an instance or a premise: `RemovalCompletes`
assumes that the metrics that prove a removal are kept; `ReportIsTrue`,
`InputsArePresent` and `DemandIsExact` speak of invocations that have not `moved`;
metrics are distinct in `coordinator`; `DataIsPaired` asks that every arm draws.

* With both retention options, an aggregate that finishes early removes the
  metrics that raw pruning looks for (`analysis/graph.py:472`, `:491`, against
  `docs/CONFIGURATION.md:323`); the chunks stay, now and later.
* A run skipped as not needed is not looked at again when a replay of another run
  makes its metric needed (`execution/scheduler.py:123`); the invocation ends
  unsatisfied with nothing failed. The third study of `coordinator` gets there: `ReportIsTrue`
  without `~moved` is violated in it. A later invocation looks again
  (`RequestsAreSatisfied`, which has no such premise).
* After pruning, the graph still takes the run for retained
  (`execution/scheduler.py:151`). Where a replay of another run changes its
  revision, a metric of the pruned run is demanded again and submitted, and fails: in
  the same study, `InputsArePresent` and `DemandIsExact` without `~moved` are violated.
* Two names for one metric share a generation (`analysis/graph.py:345`) that the
  first aggregate removes (`:314` counts consumers by node).
* A Bernoulli reward is `binomial(1, mean)` (`builtins/bandits.py:120`), which consumes
  nothing of the generator when the mean is 0. Algorithms that play such an arm at
  different times get different rewards for the same arm at the same step afterwards, against
  "paired data across algorithms" (`study/rng.py:13`).
* When no valid checkpoint is left that covers a completed prefix, a longer budget cannot
  be executed any more: `restore` refuses (`storage/run.py:207`), by intention, and nothing but
  a cleanup changes that. `EventuallyCompleted` names this end (`Refused`).
* After a fallback to an older checkpoint and an exception, `RunStore.fail`
  (`storage/run.py:389`) publishes the step of a checkpoint `progress.json` no
  longer lists, because `restore` replaces the list and not the step.
* A checkpoint that fails to load for a passing reason makes `restore` remove the
  chunks of newer generations (`storage/run.py:207`): the steps are computed again.
* A budget served from a longer run is not among the completed ones, so it loses
  its result reference when the longer run is pruned (`storage/trajectories.py:250`).
* Chunks left over when a receipt is cleared (`storage/trajectories.py:302`) stay as
  files nobody names until a session writes them again: space only.
* A kill in the first `publish_request` (`storage/experiment.py:91`), or in
  `clean --scope all`, leaves a directory without `metadata.json` that is not
  empty: the next run refuses it, while `docs/LLM_GUIDE.md:682` says to run the
  same command again after an interruption.
* A snapshot seals a variant that has metadata and no `progress.json` without looking
  at its instance, which an interrupted cleanup may have removed.
* Workers of a coordinator that was killed go on until their task ends, without the
  lock that `docs/ARCHITECTURE.md:311` calls shared by execution and cleanup; no module
  starts another command in the meantime.
* The invocation's record is written after the lock is released: `execution/compute.py:140`
  looks for `metadata.json` and writes afterwards, and a `clean --scope all` in between
  leaves a directory with nothing but records in it.
* A large reply of a worker that dies while a descendant holds its pipe is half
  written for ever, and `recv` waits for the rest as long as the descendant lives
  (`execution/resources.py:95`, whose comment rules this out for replies that were not
  begun). The first study of `gpu` has both, and `EveryInvocationEnds` names the exception.
* `docs/CONFIGURATION.md:839` says that analysis and plotting do not take the output's lock;
  they do (`analysis/graph.py:607`), as `docs/ARCHITECTURE.md:511` says.

## Plan

Done: every module of the table above. Still worth doing, in this order:

1. `Figures`: the selection and layout of panels and curves; `Configuration`: validation
   of the input document as a predicate on it.
2. Trials, file data and realized regret in `Interaction` and `Curves`.
3. Orphaned workers in `OutputStore`, with the property that a later owner detects
   what they wrote.

## Not modelled

Rendering of figures, tables and exports to convenience paths; parsing and validation of
the configuration document; importing and inspecting components, custom planners;
standard deviations and standard errors (squares are exact in `Curves`, their roots are
left out); the description of code and environment, which enters identities as one value;
hardware and durations in compute records; argument parsing, logging and the text of
messages; the contents of identities, which are compared and never inspected. Damage of
derived generations and disk errors in the coordinator are left out of `Coordinator`
(a damaged generation is an error there, not a state). Power loss without the
completion of a rename is outside what the code promises.
