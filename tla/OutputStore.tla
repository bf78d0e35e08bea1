---------------------------- MODULE OutputStore ----------------------------
(***************************************************************************)
(* One output directory and the commands that own it one at a time: run    *)
(* (storage/experiment.py, execution/provenance.py), clean                 *)
(* (storage/cleanup.py) and recovery snapshots (storage/recovery.py).      *)
(*                                                                         *)
(* The directory is metadata.json (the variants of the active request),    *)
(* requests/, the catalog files, runs/<variant>/ and instances/.  A        *)
(* variant's observations are Boundaries chunks; a checkpoint names the    *)
(* chunks up to its boundary.  What a session writes between two           *)
(* boundaries, its fallbacks and its budgets are RunStore's matter, pruned *)
(* trajectories are Trajectory's; previews of a cleanup change nothing.    *)
(***************************************************************************)
EXTENDS Naturals, FiniteSets, SequencesExt

CONSTANTS
  None,        \* no value
  Specs,       \* the run specifications of the study
  Variants,    \* storage identities
  Current,     \* the identity of each specification under the code installed
  Legacy,      \* the identity reviewed older code gave it
  Instances,   \* scientific instances
  InstanceOf,  \* the instance of each variant
  Plans,       \* what may be requested: sets of specifications
  Scopes,      \* cleanup scopes that may be asked for
  Boundaries,  \* chunks of a complete run
  Workers,     \* processes that execute runs
  Retained,    \* legacy variants the directory may hold from the start
  Snapshots    \* may recovery snapshots be taken?

ASSUME OutputAssumption ==
  /\ Current \in [Specs -> Variants] /\ Legacy \in [Specs -> Variants]
  /\ InstanceOf \in [Variants -> Instances]
  /\ Boundaries \in Nat \ {0} /\ Retained \subseteq Variants
  /\ Plans \subseteq (SUBSET Specs) \ {{}}
  /\ Scopes \subseteq {"runs", "inactive", "checkpoints", "all"}
  /\ Snapshots \in BOOLEAN
  \* A study plans finitely many runs; runs/ and instances/ have names of their own.
  /\ IsFiniteSet(Variants) /\ IsFiniteSet(Instances)
  /\ Variants \intersect Instances = {}

VARIABLES
  metadata,   \* variants named by metadata.json, or None
  requests,   \* requests/: one record per request, the variants it named
  catalog,    \* config.resolved.yml and artifacts.json
  runs,       \* runs/<variant>/
  instances,  \* instances/<id>/: "absent", "broken" or "whole"
  lock,       \* who holds .lock
  call,       \* the running `run`, or None
  session,    \* what each worker process does
  cleaner,    \* the running `clean`, or None
  copying,    \* the snapshot under construction, or None
  interrupted \* history: what a killed cleanup had still to remove

tree == <<metadata, requests, catalog, runs, instances>>
vars == <<tree, lock, call, session, cleaner, copying, interrupted>>

NoRun == [meta |-> "none", progress |-> None, chunks |-> {}, generations |-> {}]
All == 1..Boundaries
Present(v) == runs[v] # NoRun
IsDone(r) == r.progress # None /\ r.progress.done
Linked(v) == runs[v].meta = "linked"

\* A variant that older code completed
Old(v) == [meta |-> "linked", progress |-> [saved |-> Boundaries, done |-> TRUE],
           chunks |-> All, generations |-> {Boundaries}]

Init ==
  /\ \E old \in SUBSET Retained :
       /\ metadata = IF old = {} THEN None ELSE old
       /\ requests = {old} \ {{}}
       /\ catalog = (old # {})
       /\ runs = [v \in Variants |-> IF v \in old THEN Old(v) ELSE NoRun]
       /\ instances = [i \in Instances |->
                         IF \E v \in old : InstanceOf[v] = i THEN "whole" ELSE "absent"]
  /\ lock = "free" /\ call = None /\ session = [w \in Workers |-> None]
  /\ cleaner = None /\ copying = None /\ interrupted = {}

-----------------------------------------------------------------------------
(* run: the request is published, then one variant at a time *)

Empty ==
  /\ metadata = None /\ requests = {} /\ ~catalog
  /\ \A v \in Variants : ~Present(v)
  /\ \A i \in Instances : instances[i] = "absent"

BeginRun(plan) ==
  /\ lock = "free" /\ call = None
  /\ metadata # None \/ Empty   \* otherwise: not empty and no experiment metadata
  /\ lock' = "run"
  /\ call' = [pc |-> "history", plan |-> plan, todo |-> {}]
  /\ UNCHANGED <<tree, session, cleaner, copying, interrupted>>

\* The variant under the installed code if there is one, else one that
\* reviewed older code left, else a new one.
Located(s) ==
  IF runs[Current[s]].meta = "none" /\ runs[Legacy[s]].meta # "none"
  THEN Legacy[s] ELSE Current[s]

PublishHistory ==
  /\ call # None /\ call.pc = "history"
  /\ LET chosen == {Located(s) : s \in call.plan}
     IN /\ requests' = requests \union {chosen}
        /\ call' = [call EXCEPT !.pc = "metadata", !.todo = chosen]
  /\ UNCHANGED <<metadata, catalog, runs, instances, lock, session, cleaner, copying, interrupted>>

PublishMetadata ==
  /\ call # None /\ call.pc = "metadata"
  /\ metadata' = call.todo
  /\ call' = [call EXCEPT !.pc = "catalog"]
  /\ UNCHANGED <<requests, catalog, runs, instances, lock, session, cleaner, copying, interrupted>>

PublishCatalog ==
  /\ call # None /\ call.pc = "catalog"
  /\ catalog' = TRUE
  /\ call' = [call EXCEPT !.pc = "tasks"]
  /\ UNCHANGED <<metadata, requests, runs, instances, lock, session, cleaner, copying, interrupted>>

Submit(w, v) ==
  /\ call # None /\ call.pc = "tasks" /\ v \in call.todo /\ session[w] = None
  /\ runs' = [runs EXCEPT ![v].meta = IF @ = "none" THEN "bare" ELSE @]
  /\ session' = [session EXCEPT ![w] = [variant |-> v, pc |-> "begin",
                   linked |-> FALSE, saved |-> 0, done |-> FALSE, at |-> 0]]
  /\ call' = [call EXCEPT !.todo = @ \ {v}]
  /\ UNCHANGED <<metadata, requests, catalog, instances, lock, cleaner, copying, interrupted>>

EndRun ==
  /\ call # None /\ call.pc = "tasks" /\ call.todo = {}
  /\ \A w \in Workers : session[w] = None
  /\ lock' = "free" /\ call' = None
  /\ UNCHANGED <<tree, session, cleaner, copying, interrupted>>

-----------------------------------------------------------------------------
(* A session: execute_run on one variant, boundary by boundary *)

At(w, pc) == session[w] # None /\ session[w].pc = pc
Step(w, s) == session' = [session EXCEPT ![w] = s]
Quiet == UNCHANGED <<metadata, requests, catalog, lock, call, cleaner, copying>>
Whole(i) == instances[i] = "whole"
Instance(w) == InstanceOf[session[w].variant]

\* RunStore and RunSession read progress.json and metadata.json once.
ReadRun(w) ==
  /\ At(w, "begin")
  /\ LET v == session[w].variant
         p == runs[v].progress
         known == IF p = None THEN [saved |-> 0, done |-> FALSE] ELSE p
     IN Step(w, [session[w] EXCEPT !.pc = IF runs[v].meta = "none" THEN "fail" ELSE "instance",
                                   !.linked = Linked(v),
                                   !.saved = known.saved, !.done = known.done])
  /\ Quiet /\ UNCHANGED <<runs, instances, interrupted>>

Reuse(w) ==
  /\ At(w, "instance") /\ session[w].done
  /\ LET v == session[w].variant
     IN IF All \subseteq runs[v].chunks /\ session[w].linked /\ Whole(Instance(w))
        THEN Step(w, None)
        ELSE Step(w, [session[w] EXCEPT !.pc = "fail"])
  /\ Quiet /\ UNCHANGED <<runs, instances, interrupted>>

LoadInstance(w) ==
  /\ At(w, "instance") /\ ~session[w].done /\ session[w].linked
  /\ Step(w, [session[w] EXCEPT !.pc = IF Whole(Instance(w)) THEN "restore" ELSE "fail"])
  /\ Quiet /\ UNCHANGED <<runs, instances, interrupted>>

\* An instance that exists is shared, once it validates.
SaveInstance(w) ==
  /\ At(w, "instance") /\ ~session[w].done /\ ~session[w].linked
  /\ IF instances[Instance(w)] = "broken"
     THEN Step(w, [session[w] EXCEPT !.pc = "fail"]) /\ UNCHANGED <<instances, interrupted>>
     ELSE /\ Step(w, [session[w] EXCEPT !.pc = "link"])
          /\ instances' = [instances EXCEPT ![Instance(w)] = "whole"]
          /\ interrupted' = interrupted \ {Instance(w)}
  /\ Quiet /\ UNCHANGED runs

LinkInstance(w) ==
  /\ At(w, "link")
  /\ runs' = [runs EXCEPT ![session[w].variant].meta = "linked"]
  /\ Step(w, [session[w] EXCEPT !.pc = "restore", !.linked = TRUE])
  /\ Quiet /\ UNCHANGED <<instances, interrupted>>

\* The boundary progress names, or the beginning; chunks beyond it go.
Restore(w) ==
  /\ At(w, "restore")
  /\ LET v  == session[w].variant
         n  == session[w].saved
         at == IF n \in runs[v].generations /\ 1..n \subseteq runs[v].chunks THEN n ELSE 0
     IN /\ runs' = [runs EXCEPT ![v].chunks = @ \intersect 1..at]
        /\ Step(w, [session[w] EXCEPT !.pc = IF at = Boundaries THEN "publish" ELSE "flush",
                                      !.saved = at, !.at = at])
  /\ Quiet /\ UNCHANGED <<instances, interrupted>>

Flush(w) ==
  /\ At(w, "flush")
  /\ runs' = [runs EXCEPT ![session[w].variant].chunks = @ \union {session[w].at + 1}]
  /\ Step(w, [session[w] EXCEPT !.pc = "publish", !.at = @ + 1])
  /\ Quiet /\ UNCHANGED <<instances, interrupted>>

\* A checkpoint: the generation, progress.json, and the older ones go.
PublishBoundary(w) ==
  /\ At(w, "publish")
  /\ LET s == session[w]
     IN /\ runs' = [runs EXCEPT ![s.variant].generations = {s.at},
                                ![s.variant].progress = [saved |-> s.at, done |-> s.done]]
        /\ Step(w, [s EXCEPT !.saved = s.at,
                             !.pc = IF s.at = Boundaries THEN "finish" ELSE "flush"])
  /\ Quiet /\ UNCHANGED <<instances, interrupted>>

FinishRun(w) ==
  /\ At(w, "finish")
  /\ LET s == session[w]
     IN /\ runs' = [runs EXCEPT ![s.variant].progress = [saved |-> s.saved, done |-> TRUE]]
        /\ interrupted' = interrupted \ {s.variant}
  /\ Step(w, None)
  /\ Quiet /\ UNCHANGED instances

FailAfresh(w) == \* mutant: what the run had reached is not republished
  /\ At(w, "fail")
  /\ runs' = [runs EXCEPT ![session[w].variant].progress = [saved |-> 0, done |-> FALSE]]
  /\ Step(w, None)
  /\ Quiet /\ UNCHANGED <<instances, interrupted>>

\* An exception: the session's copy of progress is published as failed.
FailRun(w) ==
  /\ At(w, "fail")
  /\ LET s == session[w]
     IN runs' = [runs EXCEPT ![s.variant].progress = [saved |-> s.saved, done |-> s.done]]
  /\ Step(w, None)
  /\ Quiet /\ UNCHANGED <<instances, interrupted>>

Session(w) ==
  \/ ReadRun(w) \/ Reuse(w) \/ LoadInstance(w) \/ SaveInstance(w) \/ LinkInstance(w)
  \/ Restore(w) \/ Flush(w) \/ PublishBoundary(w) \/ FinishRun(w) \/ FailRun(w)

\* The coordinator dies, its lock and its workers with it (a worker that outlives
\* it would write beside the next owner of the directory).
KillRun ==
  /\ call # None
  /\ lock' = "free" /\ call' = None /\ session' = [w \in Workers |-> None]
  /\ UNCHANGED <<tree, cleaner, copying, interrupted>>

-----------------------------------------------------------------------------
(* clean: a plan under the lock, pointers, then one path after the other *)

Kept == {v \in Variants : Present(v)}

Selected(scope, chosen, active) ==
  IF chosen # {} THEN chosen
  ELSE IF scope = "inactive" THEN Kept \ active ELSE Kept
OnlyChosen(selected) == \* mutant: instances of the selected variants, shared or not
  {i \in Instances : instances[i] # "absent" /\ \E v \in selected : InstanceOf[v] = i}
\* Instances that no variant left behind refers to
Unreferenced(selected) ==
  {i \in Instances : instances[i] # "absent" /\
     \A v \in Kept \ selected : ~(Linked(v) /\ InstanceOf[v] = i)}
Naming(selected) == {r \in requests : r \intersect selected # {}}

Path(kind, ids) == SetToSeq({[kind |-> kind, id |-> i] : i \in ids})
When(present, kind) == IF present THEN <<[kind |-> kind, id |-> None]>> ELSE <<>>
\* In the order of their names
Paths(scope, selected) ==
  CASE scope = "all" ->
         When(catalog, "catalog") \o When(\E i \in Instances : instances[i] # "absent", "instances")
           \o When(TRUE, "metadata") \o When(requests # {}, "requests") \o When(Kept # {}, "runs")
    [] scope = "checkpoints" ->
         Path("checkpoints", {v \in selected : runs[v].generations # {}})
    [] OTHER ->
         Path("instance", Unreferenced(selected)) \o Path("request", Naming(selected))
           \o Path("run", selected)

\* Every variant left behind must say which instance it needs.
Plannable(scope, chosen) ==
  /\ metadata # None /\ chosen \subseteq Kept
  /\ scope \in {"runs", "inactive"} =>
       \A v \in Kept \ Selected(scope, chosen, metadata) : runs[v].meta # "none"

Progressing(selected) == {v \in selected : runs[v].progress # None}

PlanUnlocked(scope, chosen) == \* mutant: the plan is made beside a running command
  /\ cleaner = None /\ lock \in {"free", "run"}
  /\ chosen # {} => scope \in {"runs", "checkpoints"}
  /\ Plannable(scope, chosen)
  /\ LET selected == Selected(scope, chosen, metadata)
     IN cleaner' = [pc |-> "remove", scope |-> scope, seen |-> metadata,
                    selected |-> selected, todo |-> {}, paths |-> Paths(scope, selected)]
  /\ UNCHANGED <<tree, lock, call, session, copying, interrupted>>

\* The decision is made, the lock held, on the metadata of that moment.
PlanClean(scope, chosen) ==
  /\ lock = "free"
  /\ chosen # {} => scope \in {"runs", "checkpoints"}
  /\ Plannable(scope, chosen)
  /\ LET selected == Selected(scope, chosen, metadata)
         todo == IF scope = "checkpoints" THEN Progressing(selected) ELSE {}
     IN /\ lock' = "clean"
        /\ cleaner' =
             [pc |-> IF scope \in {"runs", "inactive"} \/ todo # {}
                     THEN "pointers" ELSE "remove",
              scope |-> scope, seen |-> metadata, selected |-> selected,
              todo |-> todo, paths |-> Paths(scope, selected)]
  /\ UNCHANGED <<tree, call, session, copying, interrupted>>

ForgetRuns ==
  /\ cleaner # None /\ cleaner.pc = "pointers" /\ cleaner.scope # "checkpoints"
  /\ metadata' = cleaner.seen \ cleaner.selected
  /\ cleaner' = [cleaner EXCEPT !.pc = "remove"]
  /\ UNCHANGED <<requests, catalog, runs, instances, lock, call, session, copying, interrupted>>

ForgetCheckpoints(v) ==
  /\ cleaner # None /\ cleaner.pc = "pointers" /\ v \in cleaner.todo
  /\ runs' = [runs EXCEPT ![v].progress.saved = 0]
  /\ cleaner' = [cleaner EXCEPT !.todo = @ \ {v},
                                !.pc = IF cleaner.todo = {v} THEN "remove" ELSE @]
  /\ UNCHANGED <<metadata, requests, catalog, instances, lock, call, session, copying, interrupted>>

Removing == cleaner # None /\ cleaner.pc = "remove" /\ cleaner.paths # <<>>
Target == Head(cleaner.paths)
\* The instances and variants under a path
InstancesUnder(p) ==
  CASE p.kind = "instance" -> {p.id}
    [] p.kind = "instances" -> {i \in Instances : instances[i] # "absent"}
    [] OTHER -> {}
RunsUnder(p) ==
  CASE p.kind = "run" -> {p.id}
    [] p.kind = "runs" -> Kept
    [] OTHER -> {}

\* rmtree or unlink of the next path; only a kill leaves a part of it.
RemovePath ==
  /\ Removing
  /\ cleaner' = [cleaner EXCEPT !.paths = Tail(@)]
  /\ catalog' = (catalog /\ Target.kind # "catalog")
  /\ metadata' = IF Target.kind = "metadata" THEN None ELSE metadata
  /\ requests' = CASE Target.kind = "request" -> requests \ {Target.id}
                    [] Target.kind = "requests" -> {}
                    [] OTHER -> requests
  /\ instances' = [i \in Instances |->
                     IF i \in InstancesUnder(Target) THEN "absent" ELSE instances[i]]
  /\ runs' = [v \in Variants |->
                CASE v \in RunsUnder(Target) -> NoRun
                  [] Target = [kind |-> "checkpoints", id |-> v] -> [runs[v] EXCEPT !.generations = {}]
                  [] OTHER -> runs[v]]
  /\ interrupted' = interrupted \ (InstancesUnder(Target) \union RunsUnder(Target))
  /\ UNCHANGED <<lock, call, session, copying>>

EndClean ==
  /\ cleaner # None /\ cleaner.pc = "remove" /\ cleaner.paths = <<>>
  /\ lock' = "free" /\ cleaner' = None
  /\ UNCHANGED <<tree, call, session, copying, interrupted>>

\* Files go in any order: what may be left of a variant and of an instance.
\* Bound: at most one killed cleanup has left parts at a time (`interrupted`).
Debris(r) ==
  [meta : {r.meta, "none"}, progress : {r.progress, None},
   chunks : SUBSET r.chunks, generations : SUBSET r.generations]
KillClean ==
  /\ cleaner # None
  /\ lock' = "free" /\ cleaner' = None
  /\ \/ /\ ~Removing
        /\ UNCHANGED <<runs, instances, interrupted>>
     \/ /\ Removing /\ RunsUnder(Target) = {} /\ InstancesUnder(Target) = {}
        /\ UNCHANGED <<runs, instances>>
     \/ /\ Removing /\ interrupted = {}
        /\ \E v \in RunsUnder(Target) : \E r \in Debris(runs[v]) :
             runs' = [runs EXCEPT ![v] = r]
        /\ UNCHANGED instances
     \/ /\ Removing /\ interrupted = {}
        /\ \E i \in InstancesUnder(Target) : instances' = [instances EXCEPT ![i] = "broken"]
        /\ UNCHANGED runs
  /\ Removing => interrupted' = interrupted \union
       UNION {InstancesUnder(p) \union RunsUnder(p) : p \in ToSet(cleaner.paths)}
  /\ UNCHANGED <<metadata, requests, catalog, call, session, copying>>

Clean ==
  \/ \E scope \in Scopes, chosen \in {{}} \union {{v} : v \in Variants} : PlanClean(scope, chosen)
  \/ ForgetRuns \/ \E v \in Variants : ForgetCheckpoints(v)
  \/ RemovePath \/ EndClean \/ KillClean

-----------------------------------------------------------------------------
(* inspect: what the status of a variant is called without the lock *)

Inspected(v) ==
  IF runs[v].progress = None THEN "pending"
  ELSE IF ~IsDone(runs[v]) THEN "unfinished"
  ELSE IF All \subseteq runs[v].chunks /\ Linked(v) /\ Whole(InstanceOf[v])
  THEN "completed" ELSE "corrupt"

-----------------------------------------------------------------------------
(* Recovery snapshots: committed files are selected, copied and sealed *)

Boundary(v) == runs[v].progress.saved
\* A checkpoint that does not validate is left out.
Intact(v) == Boundary(v) \in runs[v].generations /\ 1..Boundary(v) \subseteq runs[v].chunks
\* Damage that a snapshot must not turn into a proof refuses the snapshot.
Selectable(v) ==
  LET r == runs[v]
  IN r.progress # None =>
       /\ r.meta # "none"
       /\ IF Linked(v) THEN Whole(InstanceOf[v]) ELSE r.progress.saved = 0 /\ ~r.progress.done
       /\ r.progress.done => All \subseteq r.chunks
ByCheckpoint(v) == \* mutant: completed results without a checkpoint are left out
  IF runs[v].progress = None THEN [listed |-> FALSE, chunks |-> {}, generations |-> {}]
  ELSE [listed |-> TRUE,
        chunks |-> IF Intact(v) THEN 1..Boundary(v) ELSE {},
        generations |-> IF Intact(v) THEN {Boundary(v)} ELSE {}]
Included(v) ==
  IF runs[v].progress = None THEN [listed |-> FALSE, chunks |-> {}, generations |-> {}]
  ELSE [listed |-> TRUE,
        chunks |-> (IF Intact(v) THEN 1..Boundary(v) ELSE {})
                     \union (IF runs[v].progress.done THEN All ELSE {}),
        generations |-> IF Intact(v) THEN {Boundary(v)} ELSE {}]

SelectCommitted ==
  /\ Snapshots /\ lock = "free" /\ copying = None
  /\ metadata # None
  /\ \A v \in Variants : Selectable(v)
  /\ \A i \in Instances : instances[i] # "broken"
  /\ lock' = "snapshot"
  /\ copying' = [v \in Variants |-> Included(v)]
  /\ UNCHANGED <<tree, call, session, cleaner, interrupted>>

\* Metadata and progress are copied with their bytes of that moment.
Sealed ==
  [v \in Variants |->
     [meta |-> runs[v].meta,
      progress |-> IF copying[v].listed THEN runs[v].progress ELSE None,
      chunks |-> copying[v].chunks, generations |-> copying[v].generations]]

\* The snapshot is sealed.  From here the model follows the original or the
\* copy that restore_snapshot makes of it, where no process works yet and only
\* what was not validated or left out is still in doubt.
SealSnapshot ==
  /\ copying # None
  /\ lock' = "free" /\ copying' = None
  /\ \/ UNCHANGED <<tree, session, cleaner, interrupted>>
     \/ /\ runs' = Sealed
        /\ session' = [w \in Workers |-> None] /\ cleaner' = None
        /\ interrupted' = {v \in interrupted \intersect Variants :
                             ~copying[v].listed \/ Sealed[v].generations = {}}
        /\ UNCHANGED <<metadata, requests, catalog, instances>>
  /\ UNCHANGED call

KillSnapshot ==
  /\ copying # None
  /\ lock' = "free" /\ copying' = None
  /\ UNCHANGED <<tree, call, session, cleaner, interrupted>>

-----------------------------------------------------------------------------
Run ==
  \/ \E plan \in Plans : BeginRun(plan)
  \/ PublishHistory \/ PublishMetadata \/ PublishCatalog
  \/ \E w \in Workers, v \in Variants : Submit(w, v)
  \/ EndRun \/ KillRun

Next ==
  \/ Run \/ \E w \in Workers : Session(w)
  \/ Clean
  \/ SelectCommitted \/ SealSnapshot \/ KillSnapshot

Spec == Init /\ [][Next]_vars

-----------------------------------------------------------------------------
(* Properties *)

\* A running removal takes its variants apart; a killed one may have left parts.
Doomed ==
  IF lock = "clean" /\ cleaner.pc = "remove" /\ cleaner.scope # "checkpoints"
  THEN cleaner.selected ELSE {}
Untouched(v) == v \notin interrupted \union Doomed

\* Whatever sequence of runs, kills, cleanups of every scope, snapshots and
\* restored copies came before, a variant that progress.json calls completed
\* has its metadata, its instance and every chunk, unless a removal that
\* selected it was killed halfway (RunSession._reuse fails otherwise; the
\* instance is shared with variants a cleanup does select).
CompletedIsUsable ==
  \A v \in Variants : Inspected(v) = "corrupt" => ~Untouched(v)

\* A checkpoint that progress.json names is there with the chunks it needs,
\* also while a cleanup of checkpoints is under way or after it was killed.
CheckpointsAreThere ==
  \A v \in Variants : runs[v].progress # None /\ Boundary(v) > 0 /\ Untouched(v) => Intact(v)

\* What progress.json claims of a variant is there.
ProgressIsBacked == CompletedIsUsable /\ CheckpointsAreThere

\* The only sessions that fail over what is stored are those of a variant or of
\* an instance that a killed cleanup was removing: every other interruption is
\* healed by running the same command again.
OnlyInterruptedRemovalsHurt ==
  \A w \in Workers : At(w, "fail") =>
    session[w].variant \in interrupted \/ InstanceOf[session[w].variant] \in interrupted

\* A snapshot under construction holds everything its completed variants need,
\* with or without a checkpoint beside them (_CommittedOutput._run).
SnapshotIsCommitted ==
  copying # None =>
    \A v \in Variants : IsDone(Sealed[v]) =>
      Linked(v) /\ Whole(InstanceOf[v]) /\ All \subseteq copying[v].chunks

\* Completed work stays completed until a cleanup selects it: no failure, kill
\* or restored copy takes it back (RunStore.fail republishes its own copy of
\* progress.json).
CompletedStays ==
  [][\A v \in Variants : IsDone(runs[v]) =>
       IsDone(runs'[v]) \/ (lock = "clean" /\ v \in cleaner.selected)]_vars

\* "An interrupted cleanup must not retain invalid references" (cleanup.py:136):
\* inspection finds nothing of the active request corrupt.
ActiveReferencesResolve ==
  lock = "free" /\ metadata # None =>
    \A v \in metadata : Inspected(v) # "corrupt"
=============================================================================
