---------------------------- MODULE OutputProofs ----------------------------
(***************************************************************************)
(* Proofs about OutputStore: what progress.json claims of a variant is     *)
(* there, sessions fail only over what a killed cleanup was removing,      *)
(* snapshots hold what their completed variants need, and completed work   *)
(* stays.  For any specifications, variants that share instances in any    *)
(* way, workers, cleanup scopes, chunks per run, and any sequence of       *)
(* commands, each killed anywhere.                                         *)
(***************************************************************************)
EXTENDS OutputStore, FiniteSetTheorems, SequenceTheorems, TLAPS

(* Types *)

Progresses == {None} \union [saved : 0..Boundaries, done : BOOLEAN]
Runs == [meta : {"none", "bare", "linked"}, progress : Progresses,
         chunks : SUBSET All, generations : SUBSET (0..Boundaries)]
Fresh == {"begin"}                               \* nothing was read yet
Bound == {"restore", "flush", "publish", "finish"} \* the instance is linked
Working == {"link"} \union Bound
Sessions == [variant : Variants, pc : Fresh \union {"instance", "fail"} \union Working,
             linked : BOOLEAN, saved : 0..Boundaries, done : BOOLEAN, at : 0..Boundaries]
\* What may stand in a list of paths to remove
IsPath(p) ==
  /\ p.kind = "instance" => p.id \in Instances
  /\ p.kind \in {"run", "checkpoints"} => p.id \in Variants
  /\ p = [kind |-> p.kind, id |-> p.id]
IsCleaner(c) ==
  /\ c \in [pc : {"pointers", "remove"}, scope : Scopes, seen : {c.seen},
            selected : SUBSET Variants, todo : SUBSET Variants, paths : {c.paths}]
  /\ c.paths \in Seq(ToSet(c.paths))
  /\ \A p \in ToSet(c.paths) : IsPath(p)
IsCall(c) ==
  c \in [pc : {"history", "metadata", "catalog", "tasks"}, plan : Plans, todo : SUBSET Variants]

OutputTypes ==
  /\ catalog \in BOOLEAN /\ requests \subseteq SUBSET Variants
  /\ runs \in [Variants -> Runs]
  /\ instances \in [Instances -> {"absent", "broken", "whole"}]
  /\ lock = "run" => IsCall(call)
  /\ session \in [Workers -> {None} \union Sessions]
  /\ lock = "clean" => IsCleaner(cleaner)

(* The inductive invariant *)

\* One command at a time owns the directory; workers are the running command's.
InvOwner ==
  /\ call # None => lock = "run"
  /\ cleaner # None => lock = "clean"
  /\ copying # None => lock = "snapshot"
  /\ \A w \in Workers : session[w] # None => lock = "run" /\ call.pc = "tasks"

\* A run that nothing was removing is complete as far as its files claim.
Sound(v) ==
  /\ Linked(v) => Whole(InstanceOf[v])
  /\ IsDone(runs[v]) => Linked(v) /\ All \subseteq runs[v].chunks
  /\ runs[v].progress # None /\ Boundary(v) > 0 => Intact(v)
InvRuns == \A v \in Variants : Untouched(v) => Sound(v)

\* Only a killed cleanup leaves half an instance.
InvBroken == \A i \in Instances : instances[i] = "broken" => i \in interrupted

\* A variant is executed by one worker, and is no longer to be submitted.
InvAlone ==
  \A w \in Workers : session[w] # None =>
    /\ session[w].variant \notin call.todo
    /\ runs[session[w].variant].meta # "none"
    /\ \A u \in Workers \ {w} : session[u] # None => session[u].variant # session[w].variant

\* What a session read is still so: nobody else writes the variant's files.
AsRead(s) ==
  LET p == runs[s.variant].progress
  IN /\ s.saved = IF p = None THEN 0 ELSE p.saved
     /\ s.done = IF p = None THEN FALSE ELSE p.done
SessionHolds(s) ==
  LET v == s.variant IN
  /\ s.pc = "instance" => s.linked = Linked(v)
  /\ s.pc \in {"instance", "link", "restore", "fail"} => AsRead(s)
  /\ s.pc \in Working => ~s.done /\ ~IsDone(runs[v]) /\ Whole(InstanceOf[v])
  /\ s.pc \in Bound => Linked(v)
  /\ s.pc \in {"flush", "publish", "finish"} => 1..s.at \subseteq runs[v].chunks
  /\ s.pc = "flush" => s.at < Boundaries
  /\ s.pc = "finish" =>
       /\ s.at = Boundaries /\ s.saved = Boundaries /\ Boundaries \in runs[v].generations
  /\ s.pc = "fail" => v \in interrupted \/ instances[InstanceOf[v]] = "broken"
InvSession == \A w \in Workers : session[w] # None => SessionHolds(session[w])

\* A snapshot under construction is of the files as they are.
InvCopying ==
  copying # None =>
    /\ copying = [v \in Variants |-> Included(v)]
    /\ \A v \in Variants : Selectable(v)
    /\ \A i \in Instances : instances[i] # "broken"

\* Whatever a cleanup is still going to remove belongs to what it selected, and
\* everything that is left of that is still going to be removed.
InvRemoval ==
  lock = "clean" /\ cleaner.scope # "checkpoints" =>
    /\ cleaner.todo = {}
    /\ \A p \in ToSet(cleaner.paths) :
         /\ p.kind # "checkpoints"
         /\ RunsUnder(p) \subseteq cleaner.selected
         /\ \A v \in Variants :
              Linked(v) /\ InstanceOf[v] \in InstancesUnder(p) => v \in cleaner.selected
    /\ \A v \in cleaner.selected :
         Present(v) => \E p \in ToSet(cleaner.paths) : v \in RunsUnder(p)
\* Checkpoints go only after no progress.json names them.
InvForgetting ==
  lock = "clean" /\ cleaner.scope = "checkpoints" =>
    /\ cleaner.todo \subseteq {v \in cleaner.selected : runs[v].progress # None}
    /\ cleaner.pc = "remove" => cleaner.todo = {}
    /\ \A v \in cleaner.selected :
         runs[v].progress # None /\ Boundary(v) > 0 => v \in cleaner.todo
    /\ \A p \in ToSet(cleaner.paths) : p.kind = "checkpoints" /\ p.id \in cleaner.selected

OInv ==
  /\ OutputTypes /\ InvOwner /\ InvRuns /\ InvBroken /\ InvAlone /\ InvSession
  /\ InvCopying /\ InvRemoval /\ InvForgetting
-----------------------------------------------------------------------------
(* Lists of paths *)

LEMMA ConcatenationHolds ==
  ASSUME NEW s, NEW t, s \in Seq(ToSet(s)), t \in Seq(ToSet(t))
  PROVE  /\ s \o t \in Seq(ToSet(s \o t))
         /\ ToSet(s \o t) = ToSet(s) \union ToSet(t)
PROOF
  <1>1. /\ Len(s) \in Nat /\ Len(t) \in Nat
        /\ DOMAIN s = 1..Len(s) /\ DOMAIN t = 1..Len(t)
    BY LenProperties
  <1>2. s \in Seq(ToSet(s) \union ToSet(t)) /\ t \in Seq(ToSet(s) \union ToSet(t))
    BY SeqMonotonic, Zenon
  <1>3. /\ s \o t \in Seq(ToSet(s) \union ToSet(t)) /\ Len(s \o t) = Len(s) + Len(t)
        /\ \A i \in 1..Len(s) + Len(t) :
             (s \o t)[i] = IF i <= Len(s) THEN s[i] ELSE t[i - Len(s)]
    BY <1>2, ConcatProperties
  <1>4. DOMAIN (s \o t) = 1..Len(s) + Len(t)  BY <1>3, LenProperties
  <1>5. ToSet(s \o t) \subseteq ToSet(s) \union ToSet(t)
    BY <1>1, <1>3, <1>4 DEF ToSet
  <1>6. ASSUME NEW i \in 1..Len(s)  PROVE s[i] \in ToSet(s \o t)
    <2>1. i \in 1..Len(s) + Len(t) /\ (s \o t)[i] = s[i]  BY <1>1, <1>3
    <2> QED  BY <2>1, <1>4 DEF ToSet
  <1>7. ASSUME NEW i \in 1..Len(t)  PROVE t[i] \in ToSet(s \o t)
    <2>1. Len(s) + i \in 1..Len(s) + Len(t) /\ (s \o t)[Len(s) + i] = t[i]  BY <1>1, <1>3
    <2> QED  BY <2>1, <1>4 DEF ToSet
  <1>8. ToSet(s \o t) = ToSet(s) \union ToSet(t)
    BY <1>1, <1>5, <1>6, <1>7 DEF ToSet
  <1> QED  BY <1>3, <1>8

LEMMA EnumerationHolds ==
  ASSUME NEW S, IsFiniteSet(S)
  PROVE  SetToSeq(S) \in Seq(ToSet(SetToSeq(S))) /\ ToSet(SetToSeq(S)) = S
PROOF
  <1> DEFINE n == Cardinality(S)
             f == SetToSeq(S)
  <1>1. n \in Nat /\ ExistsBijection(1..n, S)  BY FS_CardinalityType
  <1>2. \E g \in [1..n -> S] : IsInjective(g)
    BY <1>1 DEF ExistsBijection, Bijection, Injection
  <1>3. f \in [1..n -> S] /\ IsInjective(f)  BY <1>2 DEF SetToSeq
  <1>4. f \in Injection(1..n, S)  BY <1>3 DEF Injection
  <1>5. Cardinality(1..n) = n  BY <1>1, FS_Interval
  <1>6. f \in Surjection(1..n, S)  BY <1>4, <1>5, FS_Injection
  <1>7. ToSet(f) = S  BY <1>3, <1>6 DEF ToSet, Surjection
  <1> QED  BY <1>1, <1>3, <1>7, IsASeq

LEMMA TailHolds ==
  ASSUME NEW s, s \in Seq(ToSet(s)), s # <<>>
  PROVE  /\ Head(s) \in ToSet(s) /\ Tail(s) \in Seq(ToSet(Tail(s)))
         /\ ToSet(Tail(s)) \subseteq ToSet(s)
         /\ ToSet(s) = {Head(s)} \union ToSet(Tail(s))
PROOF
  <1>1. /\ Len(s) \in Nat /\ DOMAIN s = 1..Len(s) /\ Len(s) > 0
    BY LenProperties, EmptySeq
  <1>2. /\ Head(s) = s[1] /\ Tail(s) \in Seq(ToSet(s)) /\ Len(Tail(s)) = Len(s) - 1
        /\ \A i \in 1..Len(Tail(s)) : Tail(s)[i] = s[i + 1]
    BY HeadTailProperties
  <1>3. DOMAIN Tail(s) = 1..Len(s) - 1  BY <1>2, LenProperties
  <1>4. Tail(s) \in Seq(ToSet(Tail(s)))
    <2>1. Tail(s) \in [1..Len(s) - 1 -> ToSet(Tail(s))]
      <3>1. Tail(s) = [i \in DOMAIN Tail(s) |-> Tail(s)[i]]
        BY <1>1, <1>2, LenProperties
      <3> QED  BY <3>1, <1>3 DEF ToSet
    <2>2. Len(s) - 1 \in Nat  BY <1>1
    <2> QED  BY <2>1, <2>2, SeqDef
  <1>5. ToSet(s) = {s[1]} \union ToSet(Tail(s))
    <2>1. ASSUME NEW i \in 1..Len(s), i # 1  PROVE s[i] \in ToSet(Tail(s))
      <3>1. i - 1 \in 1..Len(s) - 1 /\ Tail(s)[i - 1] = s[i]  BY <2>1, <1>1, <1>2
      <3> QED  BY <3>1, <1>3 DEF ToSet
    <2>2. ToSet(Tail(s)) \subseteq ToSet(s)  BY <1>1, <1>2, <1>3 DEF ToSet
    <2>3. s[1] \in ToSet(s)  BY <1>1 DEF ToSet
    <2>4. ToSet(s) \subseteq {s[1]} \union ToSet(Tail(s))  BY <2>1, <1>1 DEF ToSet
    <2> QED  BY <2>2, <2>3, <2>4
  <1> QED  BY <1>2, <1>4, <1>5, <1>1 DEF ToSet

LEMMA PathHolds ==
  ASSUME NEW kind, NEW ids, IsFiniteSet(ids)
  PROVE  /\ Path(kind, ids) \in Seq(ToSet(Path(kind, ids)))
         /\ ToSet(Path(kind, ids)) = {[kind |-> kind, id |-> i] : i \in ids}
PROOF
  <1> DEFINE T == {[kind |-> kind, id |-> i] : i \in ids}
             f == [i \in ids |-> [kind |-> kind, id |-> i]]
  <1>1. f \in Surjection(ids, T)  BY DEF Surjection
  <1>2. IsFiniteSet(T)  BY <1>1, FS_Surjection
  <1> QED  BY <1>2, EnumerationHolds DEF Path

LEMMA WhenHolds ==
  ASSUME NEW present \in BOOLEAN, NEW kind
  PROVE  /\ When(present, kind) \in Seq(ToSet(When(present, kind)))
         /\ ToSet(When(present, kind)) =
              IF present THEN {[kind |-> kind, id |-> None]} ELSE {}
PROOF
  <1> DEFINE e == [kind |-> kind, id |-> None]
  <1>1. CASE present
    <2>1. When(present, kind) = <<e>>  BY <1>1 DEF When
    <2>2. ToSet(<<e>>) = {e}  BY DEF ToSet
    <2>3. <<e>> \in Seq({e})  OBVIOUS
    <2> QED  BY <1>1, <2>1, <2>2, <2>3
  <1>2. CASE ~present
    <2>1. When(present, kind) = <<>>  BY <1>2 DEF When
    <2>2. ToSet(<<>>) = {}  BY DEF ToSet
    <2>3. <<>> \in Seq({})  BY EmptySeq
    <2> QED  BY <1>2, <2>1, <2>2, <2>3
  <1> QED  BY <1>1, <1>2

LEMMA PathsHold ==
  ASSUME OutputTypes, NEW scope \in Scopes, NEW selected \in SUBSET Variants
  PROVE  LET ps == Paths(scope, selected) IN
         /\ ps \in Seq(ToSet(ps)) /\ \A p \in ToSet(ps) : IsPath(p)
         /\ scope = "checkpoints" =>
              \A p \in ToSet(ps) : p.kind = "checkpoints" /\ p.id \in selected
         /\ scope \in {"runs", "inactive"} =>
              ToSet(ps) = {[kind |-> "instance", id |-> i] : i \in Unreferenced(selected)}
                            \union {[kind |-> "request", id |-> r] : r \in Naming(selected)}
                            \union {[kind |-> "run", id |-> v] : v \in selected}
         /\ scope = "all" =>
              /\ \A p \in ToSet(ps) :
                   p.kind \in {"catalog", "instances", "metadata", "requests", "runs"} /\ p.id = None
              /\ Kept # {} => [kind |-> "runs", id |-> None] \in ToSet(ps)
PROOF
  <1> DEFINE ps == Paths(scope, selected)
  <1>0. /\ IsFiniteSet(Variants) /\ IsFiniteSet(Instances)
        /\ Scopes \subseteq {"runs", "inactive", "checkpoints", "all"}
    BY OutputAssumption
  <1>1. CASE scope = "all"
    <2> DEFINE a == When(catalog, "catalog")
               b == When(\E i \in Instances : instances[i] # "absent", "instances")
               c == When(TRUE, "metadata")
               d == When(requests # {}, "requests")
               e == When(Kept # {}, "runs")
    <2>1. ps = a \o b \o c \o d \o e  BY <1>1 DEF Paths
    <2>2. /\ a \in Seq(ToSet(a)) /\ b \in Seq(ToSet(b)) /\ c \in Seq(ToSet(c))
          /\ d \in Seq(ToSet(d)) /\ e \in Seq(ToSet(e))
          /\ ToSet(a) \subseteq {[kind |-> "catalog", id |-> None]}
          /\ ToSet(b) \subseteq {[kind |-> "instances", id |-> None]}
          /\ ToSet(c) \subseteq {[kind |-> "metadata", id |-> None]}
          /\ ToSet(d) \subseteq {[kind |-> "requests", id |-> None]}
          /\ ToSet(e) = IF Kept # {} THEN {[kind |-> "runs", id |-> None]} ELSE {}
      <3>1. catalog \in BOOLEAN  BY DEF OutputTypes
      <3>2. a \in Seq(ToSet(a)) /\ ToSet(a) = IF catalog THEN {[kind |-> "catalog", id |-> None]} ELSE {}
        BY <3>1, WhenHolds, Zenon
      <3>3. b \in Seq(ToSet(b)) /\ ToSet(b) \subseteq {[kind |-> "instances", id |-> None]}
        BY WhenHolds
      <3>4. c \in Seq(ToSet(c)) /\ ToSet(c) \subseteq {[kind |-> "metadata", id |-> None]}
        BY WhenHolds
      <3>5. d \in Seq(ToSet(d)) /\ ToSet(d) \subseteq {[kind |-> "requests", id |-> None]}
        BY WhenHolds
      <3>6. /\ e \in Seq(ToSet(e))
            /\ ToSet(e) = IF Kept # {} THEN {[kind |-> "runs", id |-> None]} ELSE {}
        BY WhenHolds
      <3> HIDE DEF a, b, c, d, e
      <3> QED  BY <3>2, <3>3, <3>4, <3>5, <3>6
    <2>3. /\ ps \in Seq(ToSet(ps))
          /\ ToSet(ps) = ToSet(a) \union ToSet(b) \union ToSet(c) \union ToSet(d) \union ToSet(e)
      <3> HIDE DEF a, b, c, d, e
      <3>1. /\ a \o b \in Seq(ToSet(a \o b))
            /\ ToSet(a \o b) = ToSet(a) \union ToSet(b)
        BY <2>2, ConcatenationHolds
      <3>2. /\ (a \o b) \o c \in Seq(ToSet((a \o b) \o c))
            /\ ToSet((a \o b) \o c) = ToSet(a \o b) \union ToSet(c)
        BY <2>2, <3>1, ConcatenationHolds
      <3>3. /\ (a \o b \o c) \o d \in Seq(ToSet((a \o b \o c) \o d))
            /\ ToSet((a \o b \o c) \o d) = ToSet(a \o b \o c) \union ToSet(d)
        BY <2>2, <3>2, ConcatenationHolds
      <3>4. /\ (a \o b \o c \o d) \o e \in Seq(ToSet((a \o b \o c \o d) \o e))
            /\ ToSet((a \o b \o c \o d) \o e) = ToSet(a \o b \o c \o d) \union ToSet(e)
        BY <2>2, <3>3, ConcatenationHolds
      <3> QED  BY <2>1, <3>1, <3>2, <3>3, <3>4
    <2>4. \A p \in ToSet(ps) :
             /\ p.kind \in {"catalog", "instances", "metadata", "requests", "runs"}
             /\ p.id = None /\ p = [kind |-> p.kind, id |-> p.id]
      <3> HIDE DEF a, b, c, d, e
      <3> QED  BY <2>2, <2>3
    <2>5. Kept # {} => [kind |-> "runs", id |-> None] \in ToSet(ps)
      <3> HIDE DEF a, b, c, d, e
      <3> QED  BY <2>2, <2>3
    <2> QED  BY <1>1, <2>3, <2>4, <2>5 DEF IsPath
  <1>2. CASE scope = "checkpoints"
    <2> DEFINE ids == {v \in selected : runs[v].generations # {}}
    <2>1. ps = Path("checkpoints", ids)  BY <1>2 DEF Paths
    <2>2. IsFiniteSet(ids)  BY <1>0, FS_Subset
    <2>3. ps \in Seq(ToSet(ps)) /\ ToSet(ps) = {[kind |-> "checkpoints", id |-> i] : i \in ids}
      BY <2>1, <2>2, PathHolds
    <2> QED  BY <1>2, <2>3 DEF IsPath
  <1>3. CASE scope \in {"runs", "inactive"}
    <2> DEFINE a == Path("instance", Unreferenced(selected))
               b == Path("request", Naming(selected))
               c == Path("run", selected)
    <2>1. ps = a \o b \o c  BY <1>3 DEF Paths
    <2>2. /\ IsFiniteSet(Unreferenced(selected)) /\ IsFiniteSet(selected)
          /\ IsFiniteSet(Naming(selected))
      <3>1. IsFiniteSet(SUBSET Variants)  BY <1>0, FS_SUBSET
      <3>2. Naming(selected) \in SUBSET SUBSET Variants  BY DEF Naming, OutputTypes
      <3>3. Unreferenced(selected) \in SUBSET Instances  BY DEF Unreferenced
      <3> QED  BY <1>0, <3>1, <3>2, <3>3, FS_Subset
    <2>3. /\ a \in Seq(ToSet(a)) /\ b \in Seq(ToSet(b)) /\ c \in Seq(ToSet(c))
          /\ ToSet(a) = {[kind |-> "instance", id |-> i] : i \in Unreferenced(selected)}
          /\ ToSet(b) = {[kind |-> "request", id |-> r] : r \in Naming(selected)}
          /\ ToSet(c) = {[kind |-> "run", id |-> v] : v \in selected}
      BY <2>2, PathHolds
    <2>4. ps \in Seq(ToSet(ps)) /\ ToSet(ps) = ToSet(a) \union ToSet(b) \union ToSet(c)
      <3> HIDE DEF a, b, c
      <3>1. /\ a \o b \in Seq(ToSet(a \o b))
            /\ ToSet(a \o b) = ToSet(a) \union ToSet(b)
        BY <2>3, ConcatenationHolds
      <3>2. /\ (a \o b) \o c \in Seq(ToSet((a \o b) \o c))
            /\ ToSet((a \o b) \o c) = ToSet(a \o b) \union ToSet(c)
        BY <2>3, <3>1, ConcatenationHolds
      <3> QED  BY <2>1, <3>1, <3>2
    <2>5. \A p \in ToSet(ps) : IsPath(p)
      <3>1. Unreferenced(selected) \subseteq Instances  BY DEF Unreferenced
      <3> QED  BY <2>3, <2>4, <3>1 DEF IsPath
    <2> QED  BY <1>3, <2>3, <2>4, <2>5
  <1> QED  BY <1>0, <1>1, <1>2, <1>3
-----------------------------------------------------------------------------
(* The beginning, and what a step leaves alone *)

LEMMA OutputInitHolds == Init => OInv
PROOF
  <1> SUFFICES ASSUME Init PROVE OInv
    OBVIOUS
  <1>1. PICK old \in SUBSET Retained :
          /\ metadata = IF old = {} THEN None ELSE old
          /\ requests = {old} \ {{}}
          /\ catalog = (old # {})
          /\ runs = [v \in Variants |-> IF v \in old THEN Old(v) ELSE NoRun]
          /\ instances = [i \in Instances |->
                            IF \E v \in old : InstanceOf[v] = i THEN "whole" ELSE "absent"]
    BY DEF Init
  <1>2. /\ lock = "free" /\ call = None /\ session = [w \in Workers |-> None]
        /\ cleaner = None /\ copying = None /\ interrupted = {}
    BY DEF Init
  <1>3. /\ Boundaries \in Nat \ {0} /\ old \subseteq Variants
        /\ InstanceOf \in [Variants -> Instances]
    BY OutputAssumption
  <1>4. OutputTypes
    <2>1. NoRun \in Runs  BY <1>3 DEF NoRun, Runs, Progresses, All
    <2>2. \A v \in Variants : Old(v) \in Runs  BY <1>3 DEF Old, Runs, Progresses, All
    <2>3. runs \in [Variants -> Runs]  BY <1>1, <2>1, <2>2
    <2>4. catalog \in BOOLEAN /\ requests \subseteq SUBSET Variants  BY <1>1, <1>3
    <2>5. instances \in [Instances -> {"absent", "broken", "whole"}]  BY <1>1
    <2>6. session \in [Workers -> {None} \union Sessions]  BY <1>2
    <2> QED  BY <1>2, <2>3, <2>4, <2>5, <2>6 DEF OutputTypes
  <1>5. InvRuns
    <2> SUFFICES ASSUME NEW v \in Variants PROVE Sound(v)
      BY DEF InvRuns
    <2>1. CASE v \in old
      <3>1. runs[v] = Old(v)  BY <1>1, <2>1
      <3>2. Whole(InstanceOf[v])  BY <1>1, <1>3, <2>1 DEF Whole
      <3> QED  BY <1>3, <3>1, <3>2 DEF Sound, Old, Linked, IsDone, Boundary, Intact, All
    <2>2. CASE v \notin old
      <3>1. runs[v] = NoRun  BY <1>1, <2>2
      <3> QED  BY <3>1 DEF Sound, NoRun, Linked, IsDone
    <2> QED  BY <2>1, <2>2
  <1>6. InvBroken  BY <1>1 DEF InvBroken
  <1>7. /\ InvOwner /\ InvAlone /\ InvSession /\ InvCopying /\ InvRemoval /\ InvForgetting
    BY <1>2 DEF InvOwner, InvAlone, InvSession, InvCopying, InvRemoval, InvForgetting
  <1> QED  BY <1>4, <1>5, <1>6, <1>7 DEF OInv

LEMMA IdleWithoutRun ==
  ASSUME OInv, lock # "run"  PROVE call = None /\ \A w \in Workers : session[w] = None
PROOF BY DEF OInv, InvOwner

LEMMA FilesKept ==
  ASSUME InvRuns, InvBroken, UNCHANGED <<runs, instances, interrupted>>, Doomed \subseteq Doomed'
  PROVE  InvRuns' /\ InvBroken'
PROOF
  <1>1. InvBroken'  BY DEF InvBroken
  <1>2. ASSUME NEW v \in Variants, Untouched(v)'  PROVE Sound(v)'
    <2>1. Sound(v)  BY <1>2 DEF InvRuns, Untouched
    <2> QED  BY <2>1 DEF Sound, Linked, Whole, IsDone, Boundary, Intact
  <1> QED  BY <1>1, <1>2 DEF InvRuns

\* A step of the command that holds the lock, no worker working afterwards
LEMMA CommandStep ==
  ASSUME OInv, UNCHANGED <<runs, instances, cleaner, copying, interrupted>>,
         lock \notin {"clean", "snapshot"}, lock' # "clean",
         catalog' \in BOOLEAN, requests' \subseteq SUBSET Variants,
         call' # None => lock' = "run", lock' = "run" => IsCall(call'),
         session' \in [Workers -> {None} \union Sessions],
         \A w \in Workers : session'[w] = None
  PROVE  OInv'
PROOF
  <1>1. OutputTypes'  BY DEF OInv, OutputTypes
  <1>2. cleaner = None /\ copying = None  BY DEF OInv, InvOwner
  <1>3. InvOwner'  BY <1>2 DEF OInv, InvOwner
  <1>4. InvRuns' /\ InvBroken'  BY FilesKept DEF OInv, Doomed
  <1>5. InvAlone' /\ InvSession'  BY DEF InvAlone, InvSession
  <1>6. InvCopying' /\ InvRemoval' /\ InvForgetting'
    BY <1>2 DEF InvCopying, InvRemoval, InvForgetting
  <1> QED  BY <1>1, <1>3, <1>4, <1>5, <1>6 DEF OInv

-----------------------------------------------------------------------------
(* run *)

LEMMA LocatedIsVariant ==
  ASSUME NEW s \in Specs  PROVE Located(s) \in Variants
PROOF BY OutputAssumption DEF Located

LEMMA RunStarts ==
  ASSUME OInv, NEW plan \in Plans, BeginRun(plan)  PROVE OInv'
PROOF
  <1>1. /\ lock = "free" /\ lock' = "run"
        /\ call' = [pc |-> "history", plan |-> plan, todo |-> {}]
        /\ UNCHANGED <<tree, session, cleaner, copying, interrupted>>
    BY DEF BeginRun
  <1>2. \A w \in Workers : session[w] = None  BY <1>1, IdleWithoutRun
  <1>3. IsCall(call')  BY <1>1 DEF IsCall
  <1> QED  BY <1>1, <1>2, <1>3, CommandStep DEF tree, OInv, OutputTypes

LEMMA RequestIsPublished ==
  ASSUME OInv, PublishHistory \/ PublishMetadata \/ PublishCatalog  PROVE OInv'
PROOF
  <1>1. /\ call # None /\ call.pc \in {"history", "metadata", "catalog"}
        /\ UNCHANGED <<runs, instances, lock, session, cleaner, copying, interrupted>>
    BY DEF PublishHistory, PublishMetadata, PublishCatalog
  <1>2. lock = "run" /\ IsCall(call) /\ \A w \in Workers : session[w] = None
    BY <1>1 DEF OInv, InvOwner, OutputTypes
  <1>3. /\ catalog' \in BOOLEAN /\ requests' \subseteq SUBSET Variants /\ IsCall(call')
    <2>1. CASE PublishHistory
      <3>1. {Located(s) : s \in call.plan} \in SUBSET Variants
        BY <1>2, LocatedIsVariant, OutputAssumption DEF IsCall
      <3> QED  BY <1>2, <2>1, <3>1 DEF PublishHistory, IsCall, OInv, OutputTypes
    <2>2. CASE PublishMetadata
      BY <1>2, <2>2 DEF PublishMetadata, IsCall, OInv, OutputTypes
    <2>3. CASE PublishCatalog
      BY <1>2, <2>3 DEF PublishCatalog, IsCall, OInv, OutputTypes
    <2> QED  BY <2>1, <2>2, <2>3
  <1> QED  BY <1>1, <1>2, <1>3, CommandStep DEF OInv, OutputTypes

LEMMA RunEnds ==
  ASSUME OInv, EndRun \/ KillRun  PROVE OInv'
PROOF
  <1>1. /\ call # None /\ lock' = "free" /\ call' = None
        /\ UNCHANGED <<tree, cleaner, copying, interrupted>>
        /\ \A w \in Workers : session'[w] = None
    BY DEF EndRun, KillRun
  <1>2. session' \in [Workers -> {None} \union Sessions]
    BY DEF EndRun, KillRun, OInv, OutputTypes
  <1>3. lock = "run"  BY <1>1 DEF OInv, InvOwner
  <1> QED  BY <1>1, <1>2, <1>3, CommandStep DEF tree, OInv, OutputTypes
-----------------------------------------------------------------------------
(* Sessions *)

LEMMA SessionHasLock ==
  ASSUME OInv, NEW w \in Workers, session[w] # None
  PROVE  /\ lock = "run" /\ call.pc = "tasks" /\ cleaner = None /\ copying = None
         /\ Doomed = {} /\ session[w] \in Sessions /\ session[w].variant \in Variants
         /\ runs[session[w].variant] \in Runs /\ runs[session[w].variant].meta # "none"
         /\ InstanceOf[session[w].variant] \in Instances
         /\ SessionHolds(session[w])
PROOF
  <1>1. /\ lock = "run" /\ call.pc = "tasks" /\ cleaner = None /\ copying = None
    BY DEF OInv, InvOwner
  <1>2. session[w] \in Sessions /\ session[w].variant \in Variants
    BY DEF OInv, OutputTypes, Sessions
  <1>3. runs[session[w].variant] \in Runs  BY <1>2 DEF OInv, OutputTypes
  <1>4. runs[session[w].variant].meta # "none" /\ SessionHolds(session[w])
    BY DEF OInv, InvAlone, InvSession
  <1>5. InstanceOf[session[w].variant] \in Instances  BY <1>2, OutputAssumption
  <1>6. Doomed = {}  BY <1>1 DEF Doomed
  <1> QED  BY <1>1, <1>2, <1>3, <1>4, <1>5, <1>6

\* What the step of one session does: its variant, its instance, what is healed
Stores(v, r) == runs' = [runs EXCEPT ![v] = r]
Shares(v) ==
  \/ instances' = instances
  \/ /\ instances' = [instances EXCEPT ![InstanceOf[v]] = "whole"]
     /\ instances[InstanceOf[v]] # "broken"
Heals(v) ==
  /\ interrupted' \subseteq interrupted
  /\ interrupted \ interrupted' \subseteq {v, InstanceOf[v]}
  /\ InstanceOf[v] \notin interrupted' => instances'[InstanceOf[v]] # "broken"
  /\ v \notin interrupted' => Sound(v)'

LEMMA SessionStep ==
  ASSUME OInv, NEW w \in Workers, NEW v, session[w] # None, session[w].variant = v, Quiet,
         NEW t \in {None} \union Sessions, Step(w, t),
         NEW r \in Runs, r.meta # "none", Stores(v, r), Shares(v), Heals(v),
         t # None => t.variant = v /\ SessionHolds(t)'
  PROVE  OInv'
PROOF
  <1>0. /\ runs' = [runs EXCEPT ![v] = r]
        /\ \/ instances' = instances
           \/ /\ instances' = [instances EXCEPT ![InstanceOf[v]] = "whole"]
              /\ instances[InstanceOf[v]] # "broken"
        /\ interrupted' \subseteq interrupted
        /\ interrupted \ interrupted' \subseteq {v, InstanceOf[v]}
        /\ InstanceOf[v] \notin interrupted' => instances'[InstanceOf[v]] # "broken"
        /\ v \notin interrupted' => Sound(v)'
    BY DEF Stores, Shares, Heals
  <1>1. /\ lock = "run" /\ call.pc = "tasks" /\ cleaner = None /\ copying = None
        /\ v \in Variants /\ InstanceOf[v] \in Instances
        /\ UNCHANGED <<metadata, requests, catalog, lock, call, cleaner, copying>>
    BY SessionHasLock DEF Quiet
  <1>2. /\ session' = [session EXCEPT ![w] = t] /\ session \in [Workers -> {None} \union Sessions]
        /\ runs \in [Variants -> Runs] /\ instances \in [Instances -> {"absent", "broken", "whole"}]
    BY DEF Step, OInv, OutputTypes
  <1>3. /\ \A x \in Variants : runs'[x] = IF x = v THEN r ELSE runs[x]
        /\ \A i \in Instances : \/ instances'[i] = instances[i]
                                \/ i = InstanceOf[v] /\ instances[i] # "broken" /\ instances'[i] = "whole"
        /\ \A u \in Workers : session'[u] = IF u = w THEN t ELSE session[u]
    BY <1>0, <1>1, <1>2
  <1>4. OutputTypes'
    BY <1>0, <1>1, <1>2 DEF OInv, OutputTypes
  <1>5. InvOwner'  BY <1>1 DEF OInv, InvOwner
  <1>6. InvRuns'
    <2> SUFFICES ASSUME NEW x \in Variants, Untouched(x)' PROVE Sound(x)'
      BY DEF InvRuns
    <2>1. x \notin interrupted'  BY DEF Untouched
    <2>2. CASE x = v  BY <1>0, <2>1, <2>2
    <2>3. CASE x # v
      <3>1. Variants \intersect Instances = {} /\ InstanceOf[x] \in Instances
        BY OutputAssumption
      <3>2. x \notin interrupted  BY <1>0, <1>1, <2>1, <2>3, <3>1
      <3>3. Sound(x)  BY <1>1, <3>2 DEF OInv, InvRuns, Untouched, Doomed
      <3>4. runs'[x] = runs[x]  BY <1>3, <2>3
      <3>5. Whole(InstanceOf[x]) => Whole(InstanceOf[x])'  BY <1>3, <3>1 DEF Whole
      <3> QED  BY <3>3, <3>4, <3>5 DEF Sound, Linked, IsDone, Boundary, Intact
    <2> QED  BY <2>2, <2>3
  <1>7. InvBroken'
    <2> SUFFICES ASSUME NEW i \in Instances, instances'[i] = "broken" PROVE i \in interrupted'
      BY DEF InvBroken
    <2>1. instances[i] = "broken"  BY <1>3
    <2>2. i \in interrupted  BY <2>1 DEF OInv, InvBroken
    <2>3. i # v  BY <1>1, OutputAssumption
    <2> QED  BY <1>0, <2>2, <2>3
  <1>8. ASSUME NEW u \in Workers, session'[u] # None
        PROVE  /\ session'[u].variant \notin call'.todo
               /\ runs'[session'[u].variant].meta # "none"
               /\ SessionHolds(session[u])'
               /\ \A x \in Workers \ {u} :
                    session'[x] # None => session'[x].variant # session'[u].variant
    <2>1. \A x \in Workers : session'[x] # None =>
            session[x] # None /\ session'[x].variant = session[x].variant
      BY <1>3
    <2>2. session[u] # None /\ session'[u].variant = session[u].variant
      BY <1>8, <2>1
    <2>3. /\ session'[u].variant \notin call'.todo
          /\ \A x \in Workers \ {u} :
               session'[x] # None => session'[x].variant # session'[u].variant
      BY <1>1, <2>1, <2>2 DEF OInv, InvAlone
    <2>4. CASE u = w
      <3>1. session'[u] = t /\ t # None  BY <1>3, <1>8, <2>4
      <3>2. SessionHolds(session[u])'  BY <3>1 DEF SessionHolds, AsRead
      <3>3. runs'[session'[u].variant].meta # "none"  BY <3>1, <1>1, <1>3
      <3> QED  BY <2>3, <3>2, <3>3
    <2>5. CASE u # w
      <3>1. session'[u] = session[u]  BY <1>3, <2>5
      <3>2. PICK s \in Sessions : s = session[u]
        BY <2>2, <1>2
      <3>3. s.variant \in Variants /\ s.variant # v /\ InstanceOf[s.variant] \in Instances
        <4>1. s.variant \in Variants  BY <3>2 DEF Sessions
        <4>2. s.variant # v  BY <2>2, <2>5, <3>2 DEF OInv, InvAlone
        <4> QED  BY <4>1, <4>2, OutputAssumption
      <3>4. runs'[s.variant] = runs[s.variant]  BY <1>3, <3>3
      <3>5. SessionHolds(s) /\ runs[s.variant].meta # "none"
        BY <2>2, <3>2 DEF OInv, InvSession, InvAlone
      <3>6. Whole(InstanceOf[s.variant]) => Whole(InstanceOf[s.variant])'
        BY <1>3, <3>3 DEF Whole
      <3>7. instances[InstanceOf[s.variant]] = "broken" => instances'[InstanceOf[s.variant]] = "broken"
        BY <1>3, <3>3
      <3>8. s.variant \in interrupted => s.variant \in interrupted'
        BY <1>0, <1>1, <3>3, OutputAssumption
      <3>9. SessionHolds(s)'
        BY <3>4, <3>5, <3>6, <3>7, <3>8 DEF SessionHolds, AsRead, Linked, IsDone
      <3>10. SessionHolds(session[u])'  BY <3>1, <3>2, <3>9 DEF SessionHolds, AsRead
      <3> QED  BY <2>3, <3>1, <3>2, <3>4, <3>5, <3>10
    <2> QED  BY <2>4, <2>5
  <1>9. InvAlone'  BY <1>8 DEF InvAlone
  <1>10. InvSession'  BY <1>8 DEF InvSession
  <1>11. InvCopying' /\ InvRemoval' /\ InvForgetting'
    BY <1>1 DEF InvCopying, InvRemoval, InvForgetting
  <1> QED  BY <1>4, <1>5, <1>6, <1>7, <1>9, <1>10, <1>11 DEF OInv
\* A step that only looks
LEMMA SessionLooks ==
  ASSUME OInv, NEW w \in Workers, NEW v, session[w] # None, session[w].variant = v, Quiet,
         NEW t \in {None} \union Sessions, Step(w, t),
         UNCHANGED <<runs, instances, interrupted>>,
         t # None => t.variant = v /\ SessionHolds(t)
  PROVE  OInv'
PROOF
  <1>1. v \in Variants /\ runs[v].meta # "none" /\ InstanceOf[v] \in Instances
    BY SessionHasLock
  <1>2. PICK r \in Runs : r = runs[v]  BY <1>1 DEF OInv, OutputTypes
  <1>3. runs' = [runs EXCEPT ![v] = r]  BY <1>1, <1>2 DEF OInv, OutputTypes
  <1>4. v \notin interrupted' => Sound(v)'
    <2>1. v \notin interrupted => Sound(v)
      BY <1>1, SessionHasLock DEF OInv, InvRuns, Untouched
    <2> QED  BY <2>1 DEF Sound, Linked, Whole, IsDone, Boundary, Intact
  <1>5. InstanceOf[v] \notin interrupted' => instances'[InstanceOf[v]] # "broken"
    BY <1>1 DEF OInv, InvBroken
  <1>6. t # None => t.variant = v /\ SessionHolds(t)'
    BY DEF SessionHolds, AsRead, Linked, Whole, IsDone
  <1>7. r.meta # "none" /\ Stores(v, r) /\ Shares(v) /\ Heals(v)
    BY <1>1, <1>2, <1>3, <1>4, <1>5 DEF Stores, Shares, Heals
  <1> QED  BY <1>6, <1>7, SessionStep

LEMMA RunIsRead ==
  ASSUME OInv, NEW w \in Workers, ReadRun(w)  PROVE OInv'
PROOF
  <1>1. session[w] # None /\ session[w].pc = "begin"  BY DEF ReadRun, At
  <1>2. PICK s \in Sessions : s = session[w]  BY <1>1, SessionHasLock
  <1>3. PICK v \in Variants : v = s.variant  BY <1>2 DEF Sessions
  <1>4. PICK r \in Runs : r = runs[v]  BY <1>3 DEF OInv, OutputTypes
  <1>5. r.meta # "none"  BY <1>1, <1>2, <1>3, <1>4, SessionHasLock
  <1>6. PICK known :
          known = IF r.progress = None THEN [saved |-> 0, done |-> FALSE] ELSE r.progress
    OBVIOUS
  <1>7. known.saved \in 0..Boundaries /\ known.done \in BOOLEAN
    <2>1. r.progress \in Progresses /\ 0 \in 0..Boundaries  BY <1>4, OutputAssumption DEF Runs
    <2> QED  BY <1>6, <2>1 DEF Progresses
  <1>8. PICK t : t = [s EXCEPT !.pc = "instance", !.linked = (r.meta = "linked"),
                               !.saved = known.saved, !.done = known.done]
    OBVIOUS
  <1>9. t \in Sessions /\ t.variant = v /\ t.pc = "instance" /\ t.linked = (r.meta = "linked")
        /\ t.saved = known.saved /\ t.done = known.done
    BY <1>2, <1>3, <1>7, <1>8 DEF Sessions
  <1>10. Step(w, t) /\ Quiet /\ UNCHANGED <<runs, instances, interrupted>>
    BY <1>2, <1>3, <1>4, <1>5, <1>6, <1>8 DEF ReadRun, Step, Linked
  <1>11. SessionHolds(t)
    BY <1>4, <1>6, <1>9 DEF SessionHolds, AsRead, Linked, Working, Bound
  <1> QED  BY <1>1, <1>2, <1>3, <1>9, <1>10, <1>11, SessionLooks

LEMMA RunIsReused ==
  ASSUME OInv, NEW w \in Workers, Reuse(w)  PROVE OInv'
PROOF
  <1>1. session[w] # None /\ session[w].pc = "instance" /\ session[w].done
    BY DEF Reuse, At
  <1>2. PICK s \in Sessions : s = session[w]  BY <1>1, SessionHasLock
  <1>3. PICK v \in Variants : v = s.variant  BY <1>2 DEF Sessions
  <1>4. Quiet /\ UNCHANGED <<runs, instances, interrupted>>  BY DEF Reuse
  <1>5. CASE All \subseteq runs[v].chunks /\ s.linked /\ Whole(InstanceOf[v])
    <2>1. Step(w, None)  BY <1>2, <1>3, <1>5 DEF Reuse, Instance
    <2> QED  BY <1>1, <1>2, <1>3, <1>4, <2>1, SessionLooks
  <1>6. CASE ~(All \subseteq runs[v].chunks /\ s.linked /\ Whole(InstanceOf[v]))
    <2>1. PICK t : t = [s EXCEPT !.pc = "fail"]
      OBVIOUS
    <2>2. t \in Sessions /\ t.variant = v /\ t.pc = "fail" /\ t.saved = s.saved /\ t.done = s.done
      BY <1>2, <1>3, <2>1 DEF Sessions
    <2>3. Step(w, t)  BY <1>2, <1>3, <1>6, <2>1 DEF Reuse, Instance
    <2>4. SessionHolds(s)  BY <1>1, <1>2, SessionHasLock
    <2>5. v \in interrupted
      <3>1. s.linked = Linked(v) /\ IsDone(runs[v])
        BY <1>1, <1>2, <1>3, <2>4 DEF SessionHolds, AsRead, IsDone
      <3>2. ~Sound(v)  BY <1>6, <3>1 DEF Sound
      <3> QED  BY <1>1, <3>2, SessionHasLock DEF OInv, InvRuns, Untouched
    <2>6. SessionHolds(t)
      BY <1>1, <1>2, <1>3, <2>2, <2>4, <2>5 DEF SessionHolds, AsRead, Working, Bound
    <2> QED  BY <1>1, <1>2, <1>3, <1>4, <2>2, <2>3, <2>6, SessionLooks
  <1> QED  BY <1>5, <1>6

LEMMA InstanceIsLoaded ==
  ASSUME OInv, NEW w \in Workers, LoadInstance(w)  PROVE OInv'
PROOF
  <1>1. session[w] # None /\ session[w].pc = "instance" /\ ~session[w].done /\ session[w].linked
    BY DEF LoadInstance, At
  <1>2. PICK s \in Sessions : s = session[w]  BY <1>1, SessionHasLock
  <1>3. PICK v \in Variants : v = s.variant  BY <1>2 DEF Sessions
  <1>4. Quiet /\ UNCHANGED <<runs, instances, interrupted>>  BY DEF LoadInstance
  <1>5. SessionHolds(s)  BY <1>1, <1>2, SessionHasLock
  <1>6. Linked(v) /\ AsRead(s) /\ ~IsDone(runs[v])
    BY <1>1, <1>2, <1>3, <1>5 DEF SessionHolds, AsRead, IsDone
  <1>7. ~Whole(InstanceOf[v]) => v \in interrupted
    BY <1>1, <1>6, SessionHasLock DEF OInv, InvRuns, Untouched, Sound
  <1>8. PICK pc \in {"restore", "fail"} : pc = IF Whole(InstanceOf[v]) THEN "restore" ELSE "fail"
    OBVIOUS
  <1>9. PICK t : t = [s EXCEPT !.pc = pc]
    OBVIOUS
  <1>10. t \in Sessions /\ t.variant = v /\ t.pc = pc /\ t.saved = s.saved /\ t.done = s.done
    BY <1>2, <1>3, <1>8, <1>9 DEF Sessions, Working, Bound
  <1>11. Step(w, t)  BY <1>2, <1>3, <1>8, <1>9 DEF LoadInstance, Instance
  <1>12. SessionHolds(t)
    BY <1>1, <1>2, <1>3, <1>6, <1>7, <1>8, <1>10 DEF SessionHolds, AsRead, Working, Bound
  <1> QED  BY <1>1, <1>2, <1>3, <1>4, <1>10, <1>11, <1>12, SessionLooks

LEMMA InstanceIsSaved ==
  ASSUME OInv, NEW w \in Workers, SaveInstance(w)  PROVE OInv'
PROOF
  <1>1. /\ session[w] # None /\ session[w].pc = "instance" /\ ~session[w].done
        /\ ~session[w].linked
    BY DEF SaveInstance, At
  <1>2. PICK s \in Sessions : s = session[w]  BY <1>1, SessionHasLock
  <1>3. PICK v \in Variants : v = s.variant  BY <1>2 DEF Sessions
  <1>4. Quiet /\ UNCHANGED runs  BY DEF SaveInstance
  <1>5. SessionHolds(s)  BY <1>1, <1>2, SessionHasLock
  <1>6. AsRead(s) /\ ~IsDone(runs[v]) /\ ~Linked(v)
    BY <1>1, <1>2, <1>3, <1>5 DEF SessionHolds, AsRead, IsDone
  <1>7. PICK i \in Instances : i = InstanceOf[v]  BY OutputAssumption
  <1>8. PICK t : t = [s EXCEPT !.pc = IF instances[i] = "broken" THEN "fail" ELSE "link"]
    OBVIOUS
  <1>9. t \in Sessions /\ t.variant = v /\ t.saved = s.saved /\ t.done = s.done
        /\ t.pc = IF instances[i] = "broken" THEN "fail" ELSE "link"
    BY <1>2, <1>3, <1>8 DEF Sessions, Working, Bound
  <1>10. CASE instances[i] = "broken"
    <2>1. Step(w, t) /\ UNCHANGED <<instances, interrupted>>
      BY <1>2, <1>3, <1>7, <1>8, <1>10 DEF SaveInstance, Instance
    <2>2. SessionHolds(t)
      BY <1>1, <1>2, <1>3, <1>6, <1>7, <1>9, <1>10 DEF SessionHolds, AsRead, Working, Bound
    <2> QED  BY <1>1, <1>2, <1>3, <1>4, <1>9, <2>1, <2>2, SessionLooks
  <1>11. CASE instances[i] # "broken"
    <2>1. /\ Step(w, t) /\ instances' = [instances EXCEPT ![i] = "whole"]
          /\ interrupted' = interrupted \ {i}
      BY <1>2, <1>3, <1>7, <1>8, <1>11 DEF SaveInstance, Instance
    <2>2. instances \in [Instances -> {"absent", "broken", "whole"}]
      BY DEF OInv, OutputTypes
    <2>3. instances'[i] = "whole"  BY <2>1, <2>2
    <2>4. PICK r \in Runs : r = runs[v]  BY DEF OInv, OutputTypes
    <2>5. runs' = [runs EXCEPT ![v] = r] /\ r.meta # "none"
      BY <1>1, <1>2, <1>3, <1>4, <2>4, SessionHasLock DEF OInv, OutputTypes
    <2>6. v \notin interrupted' => Sound(v)'
      <3>1. v # i  BY OutputAssumption
      <3>2. v \notin interrupted' => Sound(v)
        BY <1>1, <2>1, <3>1, SessionHasLock DEF OInv, InvRuns, Untouched
      <3> QED  BY <1>4, <1>7, <2>3, <3>2 DEF Sound, Linked, Whole, IsDone, Boundary, Intact
    <2>7. SessionHolds(t)'
      BY <1>1, <1>2, <1>3, <1>4, <1>6, <1>7, <1>9, <1>11, <2>3
      DEF SessionHolds, AsRead, Working, Bound, Whole, IsDone
    <2>8. Stores(v, r) /\ Shares(v) /\ Heals(v)
      BY <1>7, <1>11, <2>1, <2>3, <2>5, <2>6 DEF Stores, Shares, Heals
    <2> QED
      BY <1>1, <1>2, <1>3, <1>4, <1>9, <2>1, <2>5, <2>7, <2>8, SessionStep
  <1> QED  BY <1>10, <1>11
\* A step that writes the variant's files only
LEMMA SessionWrites ==
  ASSUME OInv, NEW w \in Workers, NEW v, session[w] # None, session[w].variant = v, Quiet,
         NEW t \in {None} \union Sessions, Step(w, t),
         NEW r \in Runs, r.meta # "none", Stores(v, r),
         UNCHANGED <<instances, interrupted>>,
         v \notin interrupted => Sound(v)',
         t # None => t.variant = v /\ SessionHolds(t)'
  PROVE  OInv'
PROOF
  <1>1. v \in Variants /\ InstanceOf[v] \in Instances  BY SessionHasLock
  <1>2. InstanceOf[v] \notin interrupted' => instances'[InstanceOf[v]] # "broken"
    BY <1>1 DEF OInv, InvBroken
  <1>3. Shares(v) /\ Heals(v)  BY <1>2 DEF Shares, Heals
  <1> QED  BY <1>3, SessionStep

LEMMA InstanceIsLinked ==
  ASSUME OInv, NEW w \in Workers, LinkInstance(w)  PROVE OInv'
PROOF
  <1>1. session[w] # None /\ session[w].pc = "link"  BY DEF LinkInstance, At
  <1>2. PICK s \in Sessions : s = session[w]  BY <1>1, SessionHasLock
  <1>3. PICK v \in Variants : v = s.variant  BY <1>2 DEF Sessions
  <1>4. Quiet /\ UNCHANGED <<instances, interrupted>>  BY DEF LinkInstance
  <1>5. SessionHolds(s)  BY <1>1, <1>2, SessionHasLock
  <1>6. AsRead(s) /\ ~s.done /\ ~IsDone(runs[v]) /\ Whole(InstanceOf[v])
    BY <1>1, <1>2, <1>3, <1>5 DEF SessionHolds, Working
  <1>7. PICK r : r = [runs[v] EXCEPT !.meta = "linked"]
    OBVIOUS
  <1>8. runs \in [Variants -> Runs]  BY DEF OInv, OutputTypes
  <1>9. /\ r \in Runs /\ r.meta = "linked" /\ r.progress = runs[v].progress
        /\ r.chunks = runs[v].chunks /\ r.generations = runs[v].generations
    BY <1>7, <1>8 DEF Runs
  <1>10. Stores(v, r) /\ runs'[v] = r
    BY <1>2, <1>3, <1>7, <1>8 DEF LinkInstance, Stores
  <1>11. PICK t : t = [s EXCEPT !.pc = "restore", !.linked = TRUE]
    OBVIOUS
  <1>12. t \in Sessions /\ t.variant = v /\ t.pc = "restore" /\ t.saved = s.saved /\ t.done = s.done
    BY <1>2, <1>3, <1>11 DEF Sessions, Working, Bound
  <1>13. Step(w, t)  BY <1>2, <1>11 DEF LinkInstance
  <1>14. v \notin interrupted => Sound(v)'
    <2>1. v \notin interrupted => Sound(v)
      BY <1>1, SessionHasLock DEF OInv, InvRuns, Untouched
    <2> QED
      BY <1>4, <1>6, <1>9, <1>10, <2>1 DEF Sound, Linked, Whole, IsDone, Boundary, Intact
  <1>15. SessionHolds(t)'
    BY <1>3, <1>4, <1>6, <1>9, <1>10, <1>12
    DEF SessionHolds, AsRead, Working, Bound, Linked, Whole, IsDone
  <1>16. r.meta # "none"  BY <1>9
  <1> QED
    BY <1>1, <1>2, <1>3, <1>4, <1>9, <1>10, <1>12, <1>13, <1>14, <1>15, <1>16, SessionWrites

LEMMA RunIsRestored ==
  ASSUME OInv, NEW w \in Workers, Restore(w)  PROVE OInv'
PROOF
  <1>0. Boundaries \in Nat \ {0}  BY OutputAssumption
  <1>1. session[w] # None /\ session[w].pc = "restore"  BY DEF Restore, At
  <1>2. PICK s \in Sessions : s = session[w]  BY <1>1, SessionHasLock
  <1>3. PICK v \in Variants : v = s.variant  BY <1>2 DEF Sessions
  <1>4. Quiet /\ UNCHANGED <<instances, interrupted>>  BY DEF Restore
  <1>5. SessionHolds(s)  BY <1>1, <1>2, SessionHasLock
  <1>6. AsRead(s) /\ ~s.done /\ ~IsDone(runs[v]) /\ Whole(InstanceOf[v]) /\ Linked(v)
    BY <1>1, <1>2, <1>3, <1>5 DEF SessionHolds, Working, Bound
  <1>7. runs \in [Variants -> Runs] /\ s.saved \in 0..Boundaries
    BY <1>2 DEF OInv, OutputTypes, Sessions
  <1>8. PICK at \in 0..Boundaries :
          at = IF s.saved \in runs[v].generations /\ 1..s.saved \subseteq runs[v].chunks
               THEN s.saved ELSE 0
    BY <1>0, <1>7
  <1>9. 1..at \subseteq runs[v].chunks  BY <1>8
  <1>10. PICK r : r = [runs[v] EXCEPT !.chunks = @ \intersect 1..at]
    OBVIOUS
  <1>11. /\ r \in Runs /\ r.meta = runs[v].meta /\ r.progress = runs[v].progress
         /\ r.chunks = runs[v].chunks \intersect 1..at /\ r.generations = runs[v].generations
    BY <1>7, <1>10 DEF Runs
  <1>12. Stores(v, r) /\ runs'[v] = r
    BY <1>2, <1>3, <1>7, <1>8, <1>10 DEF Restore, Stores
  <1>13. PICK t : t = [s EXCEPT !.pc = IF at = Boundaries THEN "publish" ELSE "flush",
                                !.saved = at, !.at = at]
    OBVIOUS
  <1>14. /\ t \in Sessions /\ t.variant = v /\ t.at = at /\ t.done = s.done
         /\ t.pc = IF at = Boundaries THEN "publish" ELSE "flush"
    BY <1>2, <1>3, <1>8, <1>13 DEF Sessions, Working, Bound
  <1>15. Step(w, t)  BY <1>2, <1>3, <1>8, <1>13 DEF Restore
  <1>16. v \notin interrupted => Sound(v)'
    <2>1. v \notin interrupted => Sound(v)
      BY <1>1, SessionHasLock DEF OInv, InvRuns, Untouched
    <2>2. Sound(v) /\ r.progress # None /\ r.progress.saved > 0 => at = r.progress.saved
      BY <1>3, <1>6, <1>8, <1>11 DEF Sound, Boundary, Intact, AsRead
    <2> QED
      BY <1>4, <1>6, <1>9, <1>11, <1>12, <2>1, <2>2 DEF Sound, Linked, Whole, IsDone, Boundary, Intact
  <1>17. SessionHolds(t)'
    <2>1. t.at \in 0..Boundaries /\ 1..t.at \subseteq r.chunks  BY <1>8, <1>9, <1>11, <1>14
    <2> QED
      BY <1>0, <1>3, <1>4, <1>6, <1>11, <1>12, <1>14, <2>1
      DEF SessionHolds, AsRead, Working, Bound, Linked, Whole, IsDone
  <1>18. r.meta # "none"  BY <1>6, <1>11 DEF Linked
  <1> QED
    BY <1>1, <1>2, <1>3, <1>4, <1>11, <1>12, <1>14, <1>15, <1>16, <1>17, <1>18, SessionWrites

LEMMA ChunkIsFlushed ==
  ASSUME OInv, NEW w \in Workers, Flush(w)  PROVE OInv'
PROOF
  <1>0. Boundaries \in Nat \ {0}  BY OutputAssumption
  <1>1. session[w] # None /\ session[w].pc = "flush"  BY DEF Flush, At
  <1>2. PICK s \in Sessions : s = session[w]  BY <1>1, SessionHasLock
  <1>3. PICK v \in Variants : v = s.variant  BY <1>2 DEF Sessions
  <1>4. Quiet /\ UNCHANGED <<instances, interrupted>>  BY DEF Flush
  <1>5. SessionHolds(s)  BY <1>1, <1>2, SessionHasLock
  <1>6. /\ ~s.done /\ ~IsDone(runs[v]) /\ Whole(InstanceOf[v]) /\ Linked(v)
        /\ 1..s.at \subseteq runs[v].chunks /\ s.at < Boundaries
    BY <1>1, <1>2, <1>3, <1>5 DEF SessionHolds, Working, Bound
  <1>7. runs \in [Variants -> Runs] /\ s.at \in 0..Boundaries
    BY <1>2 DEF OInv, OutputTypes, Sessions
  <1>8. PICK at \in 1..Boundaries : at = s.at + 1  BY <1>0, <1>6, <1>7
  <1>9. PICK r : r = [runs[v] EXCEPT !.chunks = @ \union {at}]
    OBVIOUS
  <1>10. /\ r \in Runs /\ r.meta = runs[v].meta /\ r.progress = runs[v].progress
         /\ r.chunks = runs[v].chunks \union {at} /\ r.generations = runs[v].generations
    BY <1>7, <1>8, <1>9 DEF Runs, All
  <1>11. Stores(v, r) /\ runs'[v] = r
    BY <1>2, <1>3, <1>7, <1>8, <1>9 DEF Flush, Stores
  <1>12. PICK t : t = [s EXCEPT !.pc = "publish", !.at = at]
    OBVIOUS
  <1>13. /\ t \in Sessions /\ t.variant = v /\ t.at = at /\ t.done = s.done /\ t.pc = "publish"
    <2>1. at \in 0..Boundaries  BY <1>0, <1>8
    <2> QED  BY <1>2, <1>3, <1>12, <2>1 DEF Sessions, Working, Bound
  <1>14. Step(w, t)  BY <1>2, <1>8, <1>12 DEF Flush
  <1>15. v \notin interrupted => Sound(v)'
    <2>1. v \notin interrupted => Sound(v)
      BY <1>1, SessionHasLock DEF OInv, InvRuns, Untouched
    <2> QED
      BY <1>4, <1>6, <1>10, <1>11, <2>1 DEF Sound, Linked, Whole, IsDone, Boundary, Intact
  <1>16. SessionHolds(t)'
    <2>1. 1..t.at \subseteq r.chunks  BY <1>6, <1>7, <1>8, <1>10, <1>13
    <2> QED
      BY <1>3, <1>4, <1>6, <1>10, <1>11, <1>13, <2>1
      DEF SessionHolds, AsRead, Working, Bound, Linked, Whole, IsDone
  <1>17. r.meta # "none"  BY <1>6, <1>10 DEF Linked
  <1> QED
    BY <1>1, <1>2, <1>3, <1>4, <1>10, <1>11, <1>13, <1>14, <1>15, <1>16, <1>17, SessionWrites
LEMMA BoundaryIsPublished ==
  ASSUME OInv, NEW w \in Workers, PublishBoundary(w)  PROVE OInv'
PROOF
  <1>0. Boundaries \in Nat \ {0}  BY OutputAssumption
  <1>1. session[w] # None /\ session[w].pc = "publish"  BY DEF PublishBoundary, At
  <1>2. PICK s \in Sessions : s = session[w]  BY <1>1, SessionHasLock
  <1>3. PICK v \in Variants : v = s.variant  BY <1>2 DEF Sessions
  <1>4. Quiet /\ UNCHANGED <<instances, interrupted>>  BY DEF PublishBoundary
  <1>5. SessionHolds(s)  BY <1>1, <1>2, SessionHasLock
  <1>6. /\ ~s.done /\ ~IsDone(runs[v]) /\ Whole(InstanceOf[v]) /\ Linked(v)
        /\ 1..s.at \subseteq runs[v].chunks
    BY <1>1, <1>2, <1>3, <1>5 DEF SessionHolds, Working, Bound
  <1>7. runs \in [Variants -> Runs] /\ s.at \in 0..Boundaries /\ s.done \in BOOLEAN
    BY <1>2 DEF OInv, OutputTypes, Sessions
  <1>8. PICK p : p = [saved |-> s.at, done |-> s.done]
    OBVIOUS
  <1>9. p \in Progresses /\ p.saved = s.at /\ ~p.done  BY <1>6, <1>7, <1>8 DEF Progresses
  <1>10. PICK r : r = [runs[v] EXCEPT !.generations = {s.at}, !.progress = p]
    OBVIOUS
  <1>11. /\ r \in Runs /\ r.meta = runs[v].meta /\ r.progress = p
         /\ r.chunks = runs[v].chunks /\ r.generations = {s.at}
    BY <1>7, <1>9, <1>10 DEF Runs
  <1>12. Stores(v, r) /\ runs'[v] = r
    BY <1>2, <1>3, <1>7, <1>8, <1>10 DEF PublishBoundary, Stores
  <1>13. PICK t : t = [s EXCEPT !.saved = s.at,
                                !.pc = IF s.at = Boundaries THEN "finish" ELSE "flush"]
    OBVIOUS
  <1>14. /\ t \in Sessions /\ t.variant = v /\ t.at = s.at /\ t.saved = s.at /\ t.done = s.done
         /\ t.pc = IF s.at = Boundaries THEN "finish" ELSE "flush"
    BY <1>2, <1>3, <1>7, <1>13 DEF Sessions, Working, Bound
  <1>15. Step(w, t)  BY <1>2, <1>13 DEF PublishBoundary
  <1>16. v \notin interrupted => Sound(v)'
    BY <1>4, <1>6, <1>9, <1>11, <1>12 DEF Sound, Linked, Whole, IsDone, Boundary, Intact
  <1>17. SessionHolds(t)'
    <2>1. t.at \in 0..Boundaries /\ 1..t.at \subseteq r.chunks /\ t.at \in r.generations
      BY <1>6, <1>7, <1>11, <1>14
    <2> QED
      BY <1>0, <1>3, <1>4, <1>6, <1>9, <1>11, <1>12, <1>14, <2>1
      DEF SessionHolds, AsRead, Working, Bound, Linked, Whole, IsDone
  <1>18. r.meta # "none"  BY <1>6, <1>11 DEF Linked
  <1> QED
    BY <1>1, <1>2, <1>3, <1>4, <1>11, <1>12, <1>14, <1>15, <1>16, <1>17, <1>18, SessionWrites

LEMMA RunIsFinished ==
  ASSUME OInv, NEW w \in Workers, FinishRun(w)  PROVE OInv'
PROOF
  <1>0. Boundaries \in Nat \ {0}  BY OutputAssumption
  <1>1. session[w] # None /\ session[w].pc = "finish"  BY DEF FinishRun, At
  <1>2. PICK s \in Sessions : s = session[w]  BY <1>1, SessionHasLock
  <1>3. PICK v \in Variants : v = s.variant  BY <1>2 DEF Sessions
  <1>4. Quiet /\ UNCHANGED instances /\ Step(w, None)  BY DEF FinishRun
  <1>5. SessionHolds(s)  BY <1>1, <1>2, SessionHasLock
  <1>6. /\ Whole(InstanceOf[v]) /\ Linked(v) /\ 1..Boundaries \subseteq runs[v].chunks
        /\ s.saved = Boundaries /\ Boundaries \in runs[v].generations
    BY <1>1, <1>2, <1>3, <1>5 DEF SessionHolds, Working, Bound
  <1>7. runs \in [Variants -> Runs]  BY DEF OInv, OutputTypes
  <1>8. PICK p : p = [saved |-> Boundaries, done |-> TRUE]
    OBVIOUS
  <1>9. p \in Progresses /\ p.saved = Boundaries /\ p.done  BY <1>0, <1>8 DEF Progresses
  <1>10. PICK r : r = [runs[v] EXCEPT !.progress = p]
    OBVIOUS
  <1>11. /\ r \in Runs /\ r.meta = runs[v].meta /\ r.progress = p
         /\ r.chunks = runs[v].chunks /\ r.generations = runs[v].generations
    BY <1>7, <1>9, <1>10 DEF Runs
  <1>12. /\ Stores(v, r) /\ runs'[v] = r /\ interrupted' = interrupted \ {v}
    BY <1>2, <1>3, <1>6, <1>7, <1>8, <1>10 DEF FinishRun, Stores
  <1>13. Sound(v)'
    BY <1>4, <1>6, <1>9, <1>11, <1>12 DEF Sound, Linked, Whole, IsDone, Boundary, Intact, All
  <1>14. Shares(v)  BY <1>4 DEF Shares
  <1>15. Heals(v)
    <2>1. instances'[InstanceOf[v]] # "broken"  BY <1>4, <1>6 DEF Whole
    <2> QED  BY <1>12, <1>13, <2>1 DEF Heals
  <1>16. r.meta # "none"  BY <1>6, <1>11 DEF Linked
  <1> QED
    BY <1>1, <1>2, <1>3, <1>4, <1>11, <1>12, <1>14, <1>15, <1>16, SessionStep

LEMMA RunFails ==
  ASSUME OInv, NEW w \in Workers, FailRun(w)  PROVE OInv'
PROOF
  <1>1. session[w] # None /\ session[w].pc = "fail"  BY DEF FailRun, At
  <1>2. PICK s \in Sessions : s = session[w]  BY <1>1, SessionHasLock
  <1>3. PICK v \in Variants : v = s.variant  BY <1>2 DEF Sessions
  <1>4. Quiet /\ UNCHANGED <<instances, interrupted>> /\ Step(w, None)  BY DEF FailRun
  <1>5. AsRead(s)  BY <1>1, <1>2, SessionHasLock DEF SessionHolds
  <1>6. runs \in [Variants -> Runs] /\ s.saved \in 0..Boundaries /\ s.done \in BOOLEAN
    BY <1>2 DEF OInv, OutputTypes, Sessions
  <1>7. PICK p : p = [saved |-> s.saved, done |-> s.done]
    OBVIOUS
  <1>8. p \in Progresses /\ p.saved = s.saved /\ p.done = s.done  BY <1>6, <1>7 DEF Progresses
  <1>9. PICK r : r = [runs[v] EXCEPT !.progress = p]
    OBVIOUS
  <1>10. /\ r \in Runs /\ r.meta = runs[v].meta /\ r.progress = p
         /\ r.chunks = runs[v].chunks /\ r.generations = runs[v].generations
    BY <1>6, <1>8, <1>9 DEF Runs
  <1>11. Stores(v, r) /\ runs'[v] = r
    BY <1>2, <1>3, <1>6, <1>7, <1>9 DEF FailRun, Stores
  <1>12. v \notin interrupted => Sound(v)'
    <2>1. v \notin interrupted => Sound(v)
      BY <1>1, SessionHasLock DEF OInv, InvRuns, Untouched
    <2>2. CASE runs[v].progress = None
      <3>1. p.saved = 0 /\ ~p.done  BY <1>3, <1>5, <1>8, <2>2 DEF AsRead
      <3> QED
        BY <1>4, <1>10, <1>11, <2>1, <3>1 DEF Sound, Linked, Whole, IsDone, Boundary, Intact
    <2>3. CASE runs[v].progress # None
      <3>1. p.saved = runs[v].progress.saved /\ p.done = runs[v].progress.done
        BY <1>3, <1>5, <1>8, <2>3 DEF AsRead
      <3> QED
        BY <1>4, <1>10, <1>11, <2>1, <2>3, <3>1
        DEF Sound, Linked, Whole, IsDone, Boundary, Intact
    <2> QED  BY <2>2, <2>3
  <1>13. r.meta # "none"  BY <1>1, <1>2, <1>3, <1>10, SessionHasLock
  <1> QED
    BY <1>1, <1>2, <1>3, <1>4, <1>10, <1>11, <1>12, <1>13, SessionWrites

LEMMA SessionSteps ==
  ASSUME OInv, NEW w \in Workers, Session(w)  PROVE OInv'
PROOF
  BY RunIsRead, RunIsReused, InstanceIsLoaded, InstanceIsSaved, InstanceIsLinked, RunIsRestored,
     ChunkIsFlushed, BoundaryIsPublished, RunIsFinished, RunFails DEF Session

LEMMA VariantIsSubmitted ==
  ASSUME OInv, NEW w \in Workers, NEW v \in Variants, Submit(w, v)  PROVE OInv'
PROOF
  <1>1. /\ call # None /\ call.pc = "tasks" /\ v \in call.todo /\ session[w] = None
        /\ UNCHANGED <<metadata, requests, catalog, instances, lock, cleaner, copying, interrupted>>
    BY DEF Submit
  <1>2. /\ lock = "run" /\ cleaner = None /\ copying = None /\ Doomed = {} /\ Doomed' = {}
    BY <1>1 DEF OInv, InvOwner, Doomed
  <1>3. /\ runs \in [Variants -> Runs] /\ session \in [Workers -> {None} \union Sessions]
        /\ IsCall(call)
    BY <1>1, <1>2 DEF OInv, OutputTypes
  <1>4. PICK r : r = [runs[v] EXCEPT !.meta = IF @ = "none" THEN "bare" ELSE @]
    OBVIOUS
  <1>5. /\ r \in Runs /\ r.meta = (IF runs[v].meta = "none" THEN "bare" ELSE runs[v].meta)
        /\ r.progress = runs[v].progress
        /\ r.chunks = runs[v].chunks /\ r.generations = runs[v].generations
    BY <1>3, <1>4 DEF Runs
  <1>6. runs' = [runs EXCEPT ![v] = r]  BY <1>3, <1>4 DEF Submit
  <1>7. \A x \in Variants : runs'[x] = IF x = v THEN r ELSE runs[x]
    BY <1>3, <1>6
  <1>8. PICK t : t = [variant |-> v, pc |-> "begin",
                      linked |-> FALSE, saved |-> 0, done |-> FALSE, at |-> 0]
    OBVIOUS
  <1>9. t \in Sessions /\ t.variant = v /\ t.pc = "begin"
    BY <1>8, OutputAssumption DEF Sessions, Fresh
  <1>10. session' = [session EXCEPT ![w] = t]  BY <1>8 DEF Submit
  <1>11. \A u \in Workers : session'[u] = IF u = w THEN t ELSE session[u]
    BY <1>3, <1>10
  <1>12. IsCall(call') /\ call'.pc = "tasks" /\ call'.todo = call.todo \ {v}
    BY <1>1, <1>3 DEF Submit, IsCall
  <1>13. OutputTypes'
    BY <1>1, <1>2, <1>3, <1>5, <1>6, <1>9, <1>10, <1>12 DEF OInv, OutputTypes
  <1>14. InvOwner'
    BY <1>1, <1>2, <1>11, <1>12 DEF OInv, InvOwner
  <1>15. InvRuns'
    <2> SUFFICES ASSUME NEW x \in Variants, x \notin interrupted PROVE Sound(x)'
      BY <1>1 DEF InvRuns, Untouched
    <2>1. Sound(x)  BY <1>2 DEF OInv, InvRuns, Untouched
    <2>2. CASE x # v
      BY <1>1, <1>7, <2>1, <2>2 DEF Sound, Linked, Whole, IsDone, Boundary, Intact
    <2>3. CASE x = v
      BY <1>1, <1>5, <1>7, <2>1, <2>3 DEF Sound, Linked, Whole, IsDone, Boundary, Intact
    <2> QED  BY <2>2, <2>3
  <1>16. InvBroken'  BY <1>1 DEF OInv, InvBroken
  <1>17. ASSUME NEW u \in Workers \ {w}, session[u] # None
         PROVE  /\ session[u] \in Sessions /\ session[u].variant \in Variants \ {v}
                /\ session'[u] = session[u] /\ SessionHolds(session[u])'
                /\ runs'[session[u].variant] = runs[session[u].variant]
    <2>1. PICK s \in Sessions : s = session[u]  BY <1>3, <1>17
    <2>2. s.variant \in Variants \ {v}
      BY <1>1, <1>17, <2>1 DEF OInv, InvAlone, Sessions
    <2>3. runs'[s.variant] = runs[s.variant]  BY <1>7, <2>2
    <2>4. SessionHolds(s)  BY <1>17, <2>1 DEF OInv, InvSession
    <2>5. SessionHolds(s)'
      BY <1>1, <2>3, <2>4 DEF SessionHolds, AsRead, Linked, Whole, IsDone
    <2>6. session'[u] = s  BY <1>11, <2>1
    <2> QED  BY <2>1, <2>2, <2>3, <2>5, <2>6 DEF SessionHolds, AsRead
  <1>18. SessionHolds(t)'
    BY <1>9 DEF SessionHolds, Working, Bound
  <1>19. InvSession'
    <2> SUFFICES ASSUME NEW u \in Workers, session'[u] # None PROVE SessionHolds(session[u])'
      BY DEF InvSession
    <2>1. CASE u = w
      <3>1. session'[u] = t  BY <1>11, <2>1
      <3> QED  BY <1>18, <3>1 DEF SessionHolds, AsRead
    <2>2. CASE u # w  BY <1>11, <1>17, <2>2
    <2> QED  BY <2>1, <2>2
  <1>20. InvAlone'
    <2>1. runs'[v].meta # "none"  BY <1>5, <1>7
    <2>2. \A u \in Workers \ {w} : session[u] # None =>
            /\ session[u].variant \notin call.todo /\ runs[session[u].variant].meta # "none"
            /\ \A x \in Workers \ {u} : session[x] # None => session[x].variant # session[u].variant
      BY DEF OInv, InvAlone
    <2>3. \A u \in Workers \ {w} : session[u] # None =>
            /\ session'[u] = session[u] /\ session[u].variant # v
            /\ runs'[session[u].variant] = runs[session[u].variant]
      BY <1>17
    <2> QED  BY <1>9, <1>11, <1>12, <2>1, <2>2, <2>3 DEF InvAlone
  <1>21. InvCopying' /\ InvRemoval' /\ InvForgetting'
    BY <1>1, <1>2 DEF InvCopying, InvRemoval, InvForgetting
  <1> QED
    BY <1>13, <1>14, <1>15, <1>16, <1>19, <1>20, <1>21 DEF OInv
-----------------------------------------------------------------------------
(* clean *)

LEMMA UnderKept ==
  ASSUME UNCHANGED <<runs, instances>>, NEW p
  PROVE  RunsUnder(p)' = RunsUnder(p) /\ InstancesUnder(p)' = InstancesUnder(p)
PROOF BY DEF RunsUnder, InstancesUnder, Kept, Present

\* A step under the lock of a cleanup, or one that takes it
LEMMA CleanerStep ==
  ASSUME OInv, lock \in {"free", "clean"}, lock' \in {"free", "clean"},
         UNCHANGED <<call, session, copying>>,
         catalog' \in BOOLEAN, requests' \subseteq SUBSET Variants,
         runs' \in [Variants -> Runs], instances' \in [Instances -> {"absent", "broken", "whole"}],
         cleaner' # None => lock' = "clean", lock' = "clean" => IsCleaner(cleaner'),
         InvRuns', InvBroken', InvRemoval', InvForgetting'
  PROVE  OInv'
PROOF
  <1>1. call = None /\ copying = None /\ \A w \in Workers : session[w] = None
    BY DEF OInv, InvOwner
  <1>2. OutputTypes'  BY DEF OInv, OutputTypes
  <1>3. InvOwner' /\ InvAlone' /\ InvSession' /\ InvCopying'
    BY <1>1 DEF InvOwner, InvAlone, InvSession, InvCopying
  <1> QED  BY <1>2, <1>3 DEF OInv

LEMMA CleanIsPlanned ==
  ASSUME OInv, NEW scope \in Scopes, NEW chosen \in SUBSET Variants, PlanClean(scope, chosen)
  PROVE  OInv'
PROOF
  <1>1. /\ lock = "free" /\ lock' = "clean" /\ UNCHANGED <<tree, call, session, copying, interrupted>>
        /\ chosen # {} => scope \in {"runs", "checkpoints"}
        /\ chosen \subseteq Kept
    BY DEF PlanClean, Plannable
  <1>2. PICK selected \in SUBSET Kept :
          /\ selected = Selected(scope, chosen, metadata)
          /\ scope = "all" => selected = Kept
    BY <1>1 DEF Selected
  <1>3. PICK todo : todo = IF scope = "checkpoints" THEN Progressing(selected) ELSE {}
    OBVIOUS
  <1>4. PICK ps : ps = Paths(scope, selected)
    OBVIOUS
  <1>5. PICK c : c = [pc |-> IF scope \in {"runs", "inactive"} \/ todo # {}
                             THEN "pointers" ELSE "remove",
                      scope |-> scope, seen |-> metadata, selected |-> selected,
                      todo |-> todo, paths |-> ps]
    OBVIOUS
  <1>6. cleaner' = c  BY <1>2, <1>3, <1>4, <1>5 DEF PlanClean
  <1>7. /\ c.scope = scope /\ c.selected = selected /\ c.todo = todo /\ c.paths = ps
        /\ c.pc = IF scope \in {"runs", "inactive"} \/ todo # {} THEN "pointers" ELSE "remove"
    BY <1>5
  <1>8. /\ selected \subseteq Variants /\ todo \subseteq Variants
        /\ Scopes \subseteq {"runs", "inactive", "checkpoints", "all"}
    BY <1>2, <1>3, OutputAssumption DEF Kept, Progressing
  <1>9. /\ ps \in Seq(ToSet(ps)) /\ \A p \in ToSet(ps) : IsPath(p)
        /\ scope = "checkpoints" =>
             \A p \in ToSet(ps) : p.kind = "checkpoints" /\ p.id \in selected
        /\ scope \in {"runs", "inactive"} =>
             ToSet(ps) = {[kind |-> "instance", id |-> i] : i \in Unreferenced(selected)}
                           \union {[kind |-> "request", id |-> r] : r \in Naming(selected)}
                           \union {[kind |-> "run", id |-> v] : v \in selected}
        /\ scope = "all" =>
             /\ \A p \in ToSet(ps) :
                  p.kind \in {"catalog", "instances", "metadata", "requests", "runs"} /\ p.id = None
             /\ Kept # {} => [kind |-> "runs", id |-> None] \in ToSet(ps)
    BY <1>4, <1>8, PathsHold DEF OInv
  <1>10. IsCleaner(c)
    <2>1. c \in [pc : {"pointers", "remove"}, scope : Scopes, seen : {c.seen},
                 selected : SUBSET Variants, todo : SUBSET Variants, paths : {c.paths}]
      BY <1>5, <1>8
    <2> QED  BY <2>1, <1>7, <1>9 DEF IsCleaner
  <1>11. InvRuns' /\ InvBroken'
    <2>1. Doomed = {}  BY <1>1 DEF Doomed
    <2> QED  BY <1>1, <2>1, FilesKept DEF OInv, tree
  <1>12. ASSUME scope # "checkpoints"
         PROVE  /\ todo = {}
                /\ \A p \in ToSet(ps) :
                     /\ p.kind # "checkpoints"
                     /\ RunsUnder(p) \subseteq selected
                     /\ \A v \in Variants :
                          Linked(v) /\ InstanceOf[v] \in InstancesUnder(p) => v \in selected
                /\ \A v \in selected : \E p \in ToSet(ps) : v \in RunsUnder(p)
    <2>1. todo = {}  BY <1>3, <1>12
    <2>2. \A v \in Variants : Linked(v) => v \in Kept
      BY DEF Linked, Kept, Present, NoRun
    <2>3. CASE scope = "all"
      <3>1. ASSUME NEW p \in ToSet(ps)
            PROVE p.kind # "checkpoints" /\ RunsUnder(p) \subseteq Kept
        BY <1>9, <2>3 DEF RunsUnder
      <3>2. ASSUME NEW v \in selected  PROVE \E p \in ToSet(ps) : v \in RunsUnder(p)
        <4>1. [kind |-> "runs", id |-> None] \in ToSet(ps)  BY <1>9, <2>3, <1>2
        <4>2. v \in RunsUnder([kind |-> "runs", id |-> None])  BY <1>2 DEF RunsUnder
        <4> QED  BY <4>1, <4>2
      <3> QED  BY <1>2, <2>1, <2>2, <2>3, <3>1, <3>2
    <2>4. CASE scope \in {"runs", "inactive"}
      <3>1. ASSUME NEW p \in ToSet(ps)
            PROVE  /\ p.kind # "checkpoints" /\ RunsUnder(p) \subseteq selected
                   /\ InstancesUnder(p) \subseteq Unreferenced(selected)
        BY <1>9, <2>4 DEF RunsUnder, InstancesUnder
      <3>2. ASSUME NEW v \in Variants, Linked(v), InstanceOf[v] \in Unreferenced(selected)
            PROVE  v \in selected
        BY <2>2, <3>2 DEF Unreferenced
      <3>3. ASSUME NEW v \in selected  PROVE \E p \in ToSet(ps) : v \in RunsUnder(p)
        <4>1. [kind |-> "run", id |-> v] \in ToSet(ps)  BY <1>9, <2>4
        <4>2. v \in RunsUnder([kind |-> "run", id |-> v])  BY DEF RunsUnder
        <4> QED  BY <4>1, <4>2
      <3> QED  BY <2>1, <3>1, <3>2, <3>3
    <2> QED  BY <1>8, <1>12, <2>3, <2>4
  <1>13. runs' = runs /\ instances' = instances  BY <1>1 DEF tree
  <1>14. InvRemoval'
    <2> SUFFICES ASSUME scope # "checkpoints" PROVE
          /\ todo = {}
          /\ \A p \in ToSet(ps) :
               /\ p.kind # "checkpoints"
               /\ RunsUnder(p)' \subseteq selected
               /\ \A v \in Variants :
                    Linked(v)' /\ InstanceOf[v] \in InstancesUnder(p)' => v \in selected
          /\ \A v \in selected : Present(v)' => \E p \in ToSet(ps) : v \in RunsUnder(p)'
      BY <1>6, <1>7 DEF InvRemoval
    <2>1. \A p : RunsUnder(p)' = RunsUnder(p) /\ InstancesUnder(p)' = InstancesUnder(p)
      BY <1>13, UnderKept
    <2>2. \A v \in Variants : Linked(v)' = Linked(v)  BY <1>13 DEF Linked
    <2> QED  BY <1>12, <2>1, <2>2
  <1>15. InvForgetting'
    <2> SUFFICES ASSUME scope = "checkpoints" PROVE
          /\ todo \subseteq {v \in selected : runs[v].progress # None}
          /\ c.pc = "remove" => todo = {}
          /\ \A v \in selected :
               runs[v].progress # None /\ Boundary(v)' > 0 => v \in todo
          /\ \A p \in ToSet(ps) : p.kind = "checkpoints" /\ p.id \in selected
      BY <1>6, <1>7, <1>13 DEF InvForgetting
    <2> QED  BY <1>3, <1>7, <1>9 DEF Progressing
  <1> QED
    BY <1>1, <1>6, <1>10, <1>11, <1>14, <1>15, CleanerStep DEF tree, OInv, OutputTypes
LEMMA RunsAreForgotten ==
  ASSUME OInv, ForgetRuns  PROVE OInv'
PROOF
  <1>1. /\ cleaner # None /\ cleaner.pc = "pointers" /\ cleaner.scope # "checkpoints"
        /\ cleaner' = [cleaner EXCEPT !.pc = "remove"]
        /\ UNCHANGED <<requests, catalog, runs, instances, lock, call, session, copying, interrupted>>
    BY DEF ForgetRuns
  <1>2. lock = "clean" /\ lock' = "clean" /\ IsCleaner(cleaner)
    BY <1>1 DEF OInv, InvOwner, OutputTypes
  <1>3. PICK c : c = cleaner
    OBVIOUS
  <1>4. PICK d : d = [c EXCEPT !.pc = "remove"]
    OBVIOUS
  <1>5. cleaner' = d  BY <1>1, <1>3, <1>4
  <1>6. /\ IsCleaner(d) /\ d.selected = c.selected /\ d.todo = c.todo /\ d.scope = c.scope
        /\ d.paths = c.paths
    BY <1>2, <1>3, <1>4 DEF IsCleaner
  <1>7. InvRuns' /\ InvBroken'
    <2>1. Doomed = {}  BY <1>1 DEF Doomed
    <2> QED  BY <1>1, <2>1, FilesKept DEF OInv
  <1>8. InvForgetting'  BY <1>1, <1>3, <1>5, <1>6 DEF InvForgetting
  <1>9. InvRemoval'
    <2>1. \A p : RunsUnder(p)' = RunsUnder(p) /\ InstancesUnder(p)' = InstancesUnder(p)
      BY <1>1, UnderKept
    <2>2. \A v \in Variants : Linked(v)' = Linked(v) /\ Present(v)' = Present(v)
      BY <1>1 DEF Linked, Present
    <2>3. /\ c.todo = {}
          /\ \A p \in ToSet(c.paths) :
               /\ p.kind # "checkpoints"
               /\ RunsUnder(p) \subseteq c.selected
               /\ \A v \in Variants :
                    Linked(v) /\ InstanceOf[v] \in InstancesUnder(p) => v \in c.selected
          /\ \A v \in c.selected :
               Present(v) => \E p \in ToSet(c.paths) : v \in RunsUnder(p)
      BY <1>1, <1>2, <1>3 DEF OInv, InvRemoval
    <2>4. c.selected \subseteq Variants  BY <1>2, <1>3 DEF IsCleaner
    <2>5. /\ d.todo = {}
          /\ \A p \in ToSet(d.paths) :
               /\ p.kind # "checkpoints"
               /\ RunsUnder(p)' \subseteq d.selected
               /\ \A v \in Variants :
                    Linked(v)' /\ InstanceOf[v] \in InstancesUnder(p)' => v \in d.selected
          /\ \A v \in d.selected :
               Present(v)' => \E p \in ToSet(d.paths) : v \in RunsUnder(p)'
      BY <1>6, <2>1, <2>2, <2>3, <2>4
    <2> QED  BY <1>5, <2>5 DEF InvRemoval
  <1> QED
    BY <1>1, <1>2, <1>5, <1>6, <1>7, <1>8, <1>9, CleanerStep DEF OInv, OutputTypes

LEMMA CheckpointsAreForgotten ==
  ASSUME OInv, NEW v \in Variants, ForgetCheckpoints(v)  PROVE OInv'
PROOF
  <1>1. /\ cleaner # None /\ cleaner.pc = "pointers" /\ v \in cleaner.todo
        /\ runs' = [runs EXCEPT ![v].progress.saved = 0]
        /\ UNCHANGED <<metadata, requests, catalog, instances, lock, call, session, copying, interrupted>>
    BY DEF ForgetCheckpoints
  <1>2. lock = "clean" /\ lock' = "clean" /\ IsCleaner(cleaner)
    BY <1>1 DEF OInv, InvOwner, OutputTypes
  <1>3. PICK c : c = cleaner
    OBVIOUS
  <1>4. PICK d : d = [c EXCEPT !.todo = @ \ {v}, !.pc = IF c.todo = {v} THEN "remove" ELSE @]
    OBVIOUS
  <1>5. cleaner' = d  BY <1>3, <1>4 DEF ForgetCheckpoints
  <1>6. /\ IsCleaner(d) /\ d.selected = c.selected /\ d.scope = c.scope /\ d.paths = c.paths
        /\ d.todo = c.todo \ {v} /\ d.pc = IF c.todo = {v} THEN "remove" ELSE "pointers"
    BY <1>1, <1>2, <1>3, <1>4 DEF IsCleaner
  <1>7. c.scope = "checkpoints"
    BY <1>1, <1>2, <1>3 DEF OInv, InvRemoval
  <1>8. /\ c.todo \subseteq {x \in c.selected : runs[x].progress # None}
        /\ \A x \in c.selected : runs[x].progress # None /\ runs[x].progress.saved > 0 => x \in c.todo
        /\ \A p \in ToSet(c.paths) : p.kind = "checkpoints" /\ p.id \in c.selected
        /\ c.selected \subseteq Variants
    BY <1>2, <1>3, <1>7 DEF OInv, InvForgetting, Boundary, IsCleaner
  <1>9. runs \in [Variants -> Runs] /\ runs[v].progress \in [saved : 0..Boundaries, done : BOOLEAN]
    BY <1>1, <1>3, <1>8 DEF OInv, OutputTypes, Runs, Progresses
  <1>10. PICK q : q = [runs[v].progress EXCEPT !.saved = 0]
    OBVIOUS
  <1>11. q \in [saved : 0..Boundaries, done : BOOLEAN] /\ q.saved = 0 /\ q.done = runs[v].progress.done
    BY <1>9, <1>10, OutputAssumption
  <1>12. PICK r : r = [runs[v] EXCEPT !.progress = q]
    OBVIOUS
  <1>13. /\ r \in Runs /\ r.meta = runs[v].meta /\ r.progress = q
         /\ r.chunks = runs[v].chunks /\ r.generations = runs[v].generations
    BY <1>9, <1>11, <1>12 DEF Runs, Progresses
  <1>14. runs' = [runs EXCEPT ![v] = r]  BY <1>1, <1>9, <1>10, <1>12
  <1>15. \A x \in Variants : runs'[x] = IF x = v THEN r ELSE runs[x]
    BY <1>9, <1>14
  <1>16. InvRuns'
    <2> SUFFICES ASSUME NEW x \in Variants, x \notin interrupted PROVE Sound(x)'
      BY <1>1 DEF InvRuns, Untouched
    <2>1. Doomed = {}  BY <1>3, <1>7 DEF Doomed
    <2>2. Sound(x)  BY <2>1 DEF OInv, InvRuns, Untouched
    <2>3. CASE x # v
      BY <1>1, <1>15, <2>2, <2>3 DEF Sound, Linked, Whole, IsDone, Boundary, Intact
    <2>4. CASE x = v
      <3>1. runs[v].progress # None  BY <1>1, <1>3, <1>8
      <3> QED
        BY <1>1, <1>11, <1>13, <1>15, <2>2, <2>4, <3>1
        DEF Sound, Linked, Whole, IsDone, Boundary, Intact
    <2> QED  BY <2>3, <2>4
  <1>17. InvBroken'  BY <1>1 DEF OInv, InvBroken
  <1>18. InvRemoval'  BY <1>5, <1>6, <1>7 DEF InvRemoval
  <1>19. InvForgetting'
    <2>1. /\ d.todo \subseteq {x \in d.selected : runs'[x].progress # None}
          /\ d.pc = "remove" => d.todo = {}
          /\ \A x \in d.selected : runs'[x].progress # None /\ runs'[x].progress.saved > 0 => x \in d.todo
          /\ \A p \in ToSet(d.paths) : p.kind = "checkpoints" /\ p.id \in d.selected
      BY <1>6, <1>8, <1>11, <1>13, <1>15
    <2> QED  BY <1>5, <2>1 DEF InvForgetting, Boundary
  <1>20. runs' \in [Variants -> Runs]  BY <1>9, <1>13, <1>14
  <1> QED
    BY <1>1, <1>2, <1>5, <1>6, <1>16, <1>17, <1>18, <1>19, <1>20, CleanerStep
    DEF OInv, OutputTypes

\* Nothing of what a removal selected is left outside the paths it did not reach.
LEMMA LeftIsListed ==
  ASSUME OInv, lock = "clean", NEW v \in Variants, v \notin interrupted,
         cleaner.pc = "remove" => \A p \in ToSet(cleaner.paths) : v \notin RunsUnder(p)
  PROVE  Sound(v)
PROOF
  <1>1. CASE v \notin Doomed
    BY <1>1 DEF OInv, InvRuns, Untouched
  <1>2. CASE v \in Doomed
    <2>1. cleaner.pc = "remove" /\ cleaner.scope # "checkpoints" /\ v \in cleaner.selected
      BY <1>2 DEF Doomed
    <2>2. ~Present(v)  BY <2>1 DEF OInv, InvRemoval
    <2> QED  BY <2>2 DEF Present, NoRun, Sound, Linked, IsDone
  <1> QED  BY <1>1, <1>2

LEMMA CleanEnds ==
  ASSUME OInv, EndClean  PROVE OInv'
PROOF
  <1>1. /\ cleaner # None /\ cleaner.paths = <<>>
        /\ lock' = "free" /\ cleaner' = None
        /\ UNCHANGED <<tree, call, session, copying, interrupted>>
    BY DEF EndClean
  <1>2. lock = "clean"  BY <1>1 DEF OInv, InvOwner
  <1>3. ToSet(cleaner.paths) = {}  BY <1>1 DEF ToSet
  <1>4. InvRuns'
    <2> SUFFICES ASSUME NEW v \in Variants, v \notin interrupted PROVE Sound(v)'
      BY <1>1 DEF InvRuns, Untouched
    <2>1. Sound(v)  BY <1>2, <1>3, LeftIsListed
    <2> QED  BY <1>1, <2>1 DEF tree, Sound, Linked, Whole, IsDone, Boundary, Intact
  <1>5. InvBroken'  BY <1>1 DEF OInv, InvBroken, tree
  <1>6. InvRemoval' /\ InvForgetting'  BY <1>1 DEF InvRemoval, InvForgetting
  <1> QED
    BY <1>1, <1>2, <1>4, <1>5, <1>6, CleanerStep DEF tree, OInv, OutputTypes

LEMMA UnderIsTyped ==
  ASSUME NEW p, IsPath(p)
  PROVE  RunsUnder(p) \subseteq Variants /\ InstancesUnder(p) \subseteq Instances
PROOF BY DEF IsPath, RunsUnder, InstancesUnder, Kept

LEMMA CleanIsKilled ==
  ASSUME OInv, KillClean  PROVE OInv'
PROOF
  <1>1. /\ cleaner # None /\ lock' = "free" /\ cleaner' = None
        /\ UNCHANGED <<metadata, requests, catalog, call, session, copying>>
    BY DEF KillClean
  <1>2. lock = "clean" /\ IsCleaner(cleaner)
    BY <1>1 DEF OInv, InvOwner, OutputTypes
  <1>3. runs \in [Variants -> Runs] /\ instances \in [Instances -> {"absent", "broken", "whole"}]
    BY DEF OInv, OutputTypes
  <1>4. InvRemoval' /\ InvForgetting'  BY <1>1 DEF InvRemoval, InvForgetting
  <1>5. CASE ~Removing
    <2>1. UNCHANGED <<runs, instances, interrupted>>  BY <1>5 DEF KillClean
    <2>2. cleaner.pc = "remove" => ToSet(cleaner.paths) = {}
      BY <1>1, <1>5 DEF Removing, ToSet
    <2>3. InvRuns'
      <3> SUFFICES ASSUME NEW v \in Variants, v \notin interrupted PROVE Sound(v)'
        BY <2>1 DEF InvRuns, Untouched
      <3>1. Sound(v)  BY <1>2, <2>2, LeftIsListed
      <3> QED  BY <2>1, <3>1 DEF Sound, Linked, Whole, IsDone, Boundary, Intact
    <2>4. InvBroken'  BY <2>1 DEF OInv, InvBroken
    <2> QED
      BY <1>1, <1>2, <1>4, <2>1, <2>3, <2>4, CleanerStep DEF OInv, OutputTypes
  <1>6. CASE Removing
    <2>1. PICK p \in ToSet(cleaner.paths) : p = Target
      BY <1>2, <1>6, TailHolds DEF Removing, Target, IsCleaner
    <2>2. PICK left : left = UNION {InstancesUnder(q) \union RunsUnder(q) : q \in ToSet(cleaner.paths)}
      OBVIOUS
    <2>3. interrupted' = interrupted \union left  BY <1>6, <2>2 DEF KillClean
    <2>4. RunsUnder(p) \subseteq left \intersect Variants /\ InstancesUnder(p) \subseteq left \intersect Instances
      BY <1>2, <2>1, <2>2, UnderIsTyped DEF IsCleaner
    <2>5. /\ runs' \in [Variants -> Runs]
          /\ \A v \in Variants \ RunsUnder(p) : runs'[v] = runs[v]
      <3>1. CASE UNCHANGED runs  BY <1>3, <3>1
      <3>2. CASE \E v \in RunsUnder(p) : \E r \in Debris(runs[v]) : runs' = [runs EXCEPT ![v] = r]
        <4>0. PICK v \in RunsUnder(p) : \E r \in Debris(runs[v]) : runs' = [runs EXCEPT ![v] = r]
          BY <3>2
        <4>1. PICK r \in Debris(runs[v]) : runs' = [runs EXCEPT ![v] = r]
          BY <4>0
        <4>2. v \in Variants  BY <2>4
        <4>3. r \in Runs  BY <1>3, <4>1, <4>2 DEF Debris, Runs, Progresses
        <4> QED  BY <1>3, <4>1, <4>2, <4>3
      <3> QED  BY <1>6, <2>1, <3>1, <3>2 DEF KillClean
    <2>6. /\ instances' \in [Instances -> {"absent", "broken", "whole"}]
          /\ \A i \in Instances \ InstancesUnder(p) : instances'[i] = instances[i]
      <3>1. CASE UNCHANGED instances  BY <1>3, <3>1
      <3>2. CASE \E i \in InstancesUnder(p) : instances' = [instances EXCEPT ![i] = "broken"]
        BY <1>3, <2>4, <3>2
      <3> QED  BY <1>6, <2>1, <3>1, <3>2 DEF KillClean
    <2>7. InvRuns'
      <3> SUFFICES ASSUME NEW v \in Variants, v \notin interrupted, v \notin left PROVE Sound(v)'
        BY <2>3 DEF InvRuns, Untouched
      <3>1. \A q \in ToSet(cleaner.paths) : v \notin RunsUnder(q)  BY <2>2
      <3>2. Sound(v)  BY <1>2, <3>1, LeftIsListed
      <3>3. runs'[v] = runs[v]  BY <2>1, <2>5, <3>1
      <3>4. Linked(v) => InstanceOf[v] \notin InstancesUnder(p)
        <4> SUFFICES ASSUME Linked(v), InstanceOf[v] \in InstancesUnder(p) PROVE FALSE
          OBVIOUS
        <4>1. cleaner.scope # "checkpoints"
          <5>1. p.kind # "checkpoints"  BY DEF InstancesUnder
          <5> QED  BY <1>2, <2>1, <5>1 DEF OInv, InvForgetting
        <4>2. v \in cleaner.selected  BY <1>2, <2>1, <4>1 DEF OInv, InvRemoval
        <4>3. Present(v)  BY DEF Linked, Present, NoRun
        <4> QED  BY <1>2, <3>1, <4>1, <4>2, <4>3 DEF OInv, InvRemoval
      <3>5. Linked(v) => instances'[InstanceOf[v]] = instances[InstanceOf[v]]
        BY <2>6, <3>4, OutputAssumption
      <3> QED  BY <3>2, <3>3, <3>5 DEF Sound, Linked, Whole, IsDone, Boundary, Intact
    <2>8. InvBroken'
      <3> SUFFICES ASSUME NEW i \in Instances, instances'[i] = "broken" PROVE i \in interrupted'
        BY DEF InvBroken
      <3>1. CASE i \in InstancesUnder(p)  BY <2>3, <2>4, <3>1
      <3>2. CASE i \notin InstancesUnder(p)
        BY <2>3, <2>6, <3>2 DEF OInv, InvBroken
      <3> QED  BY <3>1, <3>2
    <2> QED
      BY <1>1, <1>2, <1>4, <2>5, <2>6, <2>7, <2>8, CleanerStep DEF OInv, OutputTypes
  <1> QED  BY <1>5, <1>6
LEMMA PathIsRemoved ==
  ASSUME OInv, RemovePath  PROVE OInv'
PROOF
  <1>1. /\ cleaner # None /\ cleaner.pc = "remove" /\ cleaner.paths # <<>>
        /\ UNCHANGED <<lock, call, session, copying>>
    BY DEF RemovePath, Removing
  <1>2. lock = "clean" /\ lock' = "clean" /\ IsCleaner(cleaner)
    BY <1>1 DEF OInv, InvOwner, OutputTypes
  <1>3. runs \in [Variants -> Runs] /\ instances \in [Instances -> {"absent", "broken", "whole"}]
    BY DEF OInv, OutputTypes
  <1>4. PICK c : c = cleaner
    OBVIOUS
  <1>5. PICK d : d = [c EXCEPT !.paths = Tail(@)]
    OBVIOUS
  <1>6. cleaner' = d  BY <1>4, <1>5 DEF RemovePath
  <1>7. /\ c.paths \in Seq(ToSet(c.paths)) /\ c.paths # <<>> /\ \A p \in ToSet(c.paths) : IsPath(p)
        /\ c.selected \subseteq Variants /\ c.pc = "remove"
    BY <1>1, <1>2, <1>4 DEF IsCleaner
  <1>8. PICK p \in ToSet(c.paths) : p = Target /\ p = Head(c.paths)
    BY <1>4, <1>7, TailHolds DEF Target
  <1>9. /\ Tail(c.paths) \in Seq(ToSet(Tail(c.paths)))
        /\ ToSet(c.paths) = {p} \union ToSet(Tail(c.paths))
    BY <1>7, <1>8, TailHolds
  <1>10. /\ d.paths = Tail(c.paths) /\ d.selected = c.selected /\ d.scope = c.scope
         /\ d.todo = c.todo /\ d.pc = c.pc /\ IsCleaner(d)
    BY <1>2, <1>4, <1>5, <1>7, <1>9 DEF IsCleaner
  <1>11. PICK gone : gone = RunsUnder(p)
    OBVIOUS
  <1>12. PICK lost : lost = InstancesUnder(p)
    OBVIOUS
  <1>13. gone \subseteq Variants /\ lost \subseteq Instances
    BY <1>7, <1>11, <1>12, UnderIsTyped
  <1>14. /\ \A i \in Instances : instances'[i] = IF i \in lost THEN "absent" ELSE instances[i]
         /\ instances' \in [Instances -> {"absent", "broken", "whole"}]
    <2>1. instances' = [i \in Instances |-> IF i \in lost THEN "absent" ELSE instances[i]]
      BY <1>8, <1>12 DEF RemovePath
    <2> QED  BY <1>3, <2>1
  <1>15. /\ \A v \in Variants : runs'[v] =
              CASE v \in gone -> NoRun
                [] p = [kind |-> "checkpoints", id |-> v] -> [runs[v] EXCEPT !.generations = {}]
                [] OTHER -> runs[v]
         /\ runs' \in [Variants -> Runs]
    <2>1. runs' = [v \in Variants |->
              CASE v \in gone -> NoRun
                [] p = [kind |-> "checkpoints", id |-> v] -> [runs[v] EXCEPT !.generations = {}]
                [] OTHER -> runs[v]]
      BY <1>8, <1>11 DEF RemovePath
    <2>2. NoRun \in Runs  BY OutputAssumption DEF NoRun, Runs, Progresses, All
    <2>3. \A v \in Variants : [runs[v] EXCEPT !.generations = {}] \in Runs
      BY <1>3 DEF Runs
    <2>4. gone = {} \/ ~\E v \in Variants : p = [kind |-> "checkpoints", id |-> v]
      BY <1>11 DEF RunsUnder
    <2>5. ASSUME NEW v \in Variants
          PROVE  /\ runs'[v] =
                      CASE v \in gone -> NoRun
                        [] p = [kind |-> "checkpoints", id |-> v] -> [runs[v] EXCEPT !.generations = {}]
                        [] OTHER -> runs[v]
                 /\ runs'[v] \in Runs
      <3>1. CASE v \in gone  BY <2>1, <2>2, <2>4, <3>1
      <3>2. CASE v \notin gone /\ p = [kind |-> "checkpoints", id |-> v]
        BY <2>1, <2>3, <3>2
      <3>3. CASE v \notin gone /\ p # [kind |-> "checkpoints", id |-> v]
        BY <1>3, <2>1, <3>3
      <3> QED  BY <3>1, <3>2, <3>3
    <2> QED  BY <2>1, <2>5
  <1>16. interrupted' = interrupted \ (lost \union gone)
    BY <1>8, <1>11, <1>12 DEF RemovePath
  <1>17. catalog' \in BOOLEAN /\ requests' \subseteq SUBSET Variants
    BY DEF RemovePath, OInv, OutputTypes
  <1>18. InvBroken'
    BY <1>13, <1>14, <1>16, OutputAssumption DEF OInv, InvBroken
  <1>19. ASSUME NEW v \in Variants, v \in gone
         PROVE  Sound(v)' /\ ~Present(v)' /\ ~Linked(v)'
    <2>1. p # [kind |-> "checkpoints", id |-> v]  BY <1>11, <1>19 DEF RunsUnder
    <2>2. runs'[v] = NoRun  BY <1>15, <1>19, <2>1
    <2> QED  BY <2>2 DEF NoRun, Sound, Linked, IsDone, Present
  <1>20. CASE c.scope = "checkpoints"
    <2>1. /\ p.kind = "checkpoints" /\ p.id \in c.selected /\ c.todo = {}
          /\ \A v \in c.selected : ~(runs[v].progress # None /\ Boundary(v) > 0)
          /\ \A q \in ToSet(c.paths) : q.kind = "checkpoints" /\ q.id \in c.selected
      BY <1>2, <1>4, <1>7, <1>20 DEF OInv, InvForgetting
    <2>2. gone = {} /\ lost = {}  BY <1>11, <1>12, <2>1 DEF RunsUnder, InstancesUnder
    <2>3. ASSUME NEW v \in Variants
          PROVE  /\ runs'[v].meta = runs[v].meta /\ runs'[v].progress = runs[v].progress
                 /\ runs'[v].chunks = runs[v].chunks
                 /\ v \notin c.selected => runs'[v] = runs[v]
      <3>1. CASE p = [kind |-> "checkpoints", id |-> v]
        <4>1. v \in c.selected  BY <2>1, <3>1
        <4>2. runs'[v] = [runs[v] EXCEPT !.generations = {}]  BY <1>15, <2>2, <3>1
        <4> QED  BY <1>3, <4>1, <4>2 DEF Runs
      <3>2. CASE p # [kind |-> "checkpoints", id |-> v]
        <4>1. runs'[v] = runs[v]  BY <1>15, <2>2, <3>2
        <4> QED  BY <4>1
      <3> QED  BY <3>1, <3>2
    <2>4. InvRuns'
      <3> SUFFICES ASSUME NEW v \in Variants, v \notin interrupted PROVE Sound(v)'
        BY <1>16, <2>2 DEF InvRuns, Untouched
      <3>1. Doomed = {}  BY <1>4, <1>20 DEF Doomed
      <3>2. Sound(v)  BY <3>1 DEF OInv, InvRuns, Untouched
      <3>3. Whole(InstanceOf[v]) => Whole(InstanceOf[v])'
        BY <1>14, <2>2, OutputAssumption DEF Whole
      <3> QED  BY <2>1, <2>3, <3>2, <3>3 DEF Sound, Linked, IsDone, Boundary, Intact
    <2>5. InvRemoval'  BY <1>6, <1>10, <1>20 DEF InvRemoval
    <2>6. InvForgetting'
      <3>1. /\ d.todo = {} /\ \A q \in ToSet(d.paths) : q.kind = "checkpoints" /\ q.id \in d.selected
            /\ \A v \in d.selected : ~(runs'[v].progress # None /\ runs'[v].progress.saved > 0)
        BY <1>7, <1>9, <1>10, <2>1, <2>3 DEF Boundary
      <3> QED  BY <1>6, <3>1 DEF InvForgetting, Boundary
    <2> QED
      BY <1>1, <1>2, <1>6, <1>10, <1>14, <1>15, <1>17, <1>18, <2>4, <2>5, <2>6, CleanerStep
  <1>21. CASE c.scope # "checkpoints"
    <2>1. /\ c.todo = {}
          /\ \A q \in ToSet(c.paths) :
               /\ q.kind # "checkpoints"
               /\ RunsUnder(q) \subseteq c.selected
               /\ \A v \in Variants :
                    Linked(v) /\ InstanceOf[v] \in InstancesUnder(q) => v \in c.selected
          /\ \A v \in c.selected :
               Present(v) => \E q \in ToSet(c.paths) : v \in RunsUnder(q)
      BY <1>2, <1>4, <1>21 DEF OInv, InvRemoval
    <2>2. \A v \in Variants \ gone : runs'[v] = runs[v]
      <3>1. \A v \in Variants : p # [kind |-> "checkpoints", id |-> v]  BY <2>1
      <3> QED  BY <1>15, <3>1
    <2>3. InvRuns'
      <3> SUFFICES ASSUME NEW v \in Variants, v \notin interrupted', v \notin c.selected, v \notin gone
                   PROVE Sound(v)'
        BY <1>2, <1>6, <1>7, <1>10, <1>19, <1>21 DEF InvRuns, Untouched, Doomed
      <3>1. v \notin interrupted  BY <1>13, <1>16, OutputAssumption
      <3>2. Sound(v)  BY <1>4, <3>1 DEF OInv, InvRuns, Untouched, Doomed
      <3>3. runs'[v] = runs[v]  BY <2>2
      <3>4. Linked(v) => instances'[InstanceOf[v]] = instances[InstanceOf[v]]
        BY <1>12, <1>14, <2>1, OutputAssumption
      <3> QED  BY <3>2, <3>3, <3>4 DEF Sound, Linked, Whole, IsDone, Boundary, Intact
    <2>4. Kept' = Kept \ gone
      BY <1>19, <2>2 DEF Kept, Present
    <2>5. ASSUME NEW q \in ToSet(c.paths)
          PROVE  /\ RunsUnder(q) \ gone \subseteq RunsUnder(q)' /\ RunsUnder(q)' \subseteq RunsUnder(q)
                 /\ InstancesUnder(q)' \subseteq InstancesUnder(q)
      <3>1. {i \in Instances : instances'[i] # "absent"} \subseteq {i \in Instances : instances[i] # "absent"}
        BY <1>14
      <3> QED  BY <2>4, <3>1 DEF RunsUnder, InstancesUnder
    <2>6. \A v \in Variants : Linked(v)' => Linked(v)
      BY <1>19, <2>2 DEF Linked
    <2>7. InvRemoval'
      <3>1. ASSUME NEW q \in ToSet(d.paths)
            PROVE  /\ q.kind # "checkpoints" /\ RunsUnder(q)' \subseteq d.selected
                   /\ \A v \in Variants :
                        Linked(v)' /\ InstanceOf[v] \in InstancesUnder(q)' => v \in d.selected
        BY <1>9, <1>10, <2>1, <2>5, <2>6
      <3>2. ASSUME NEW v \in d.selected, Present(v)'
            PROVE  \E q \in ToSet(d.paths) : v \in RunsUnder(q)'
        <4>1. v \in Variants \ gone  BY <1>7, <1>10, <1>19, <3>2
        <4>2. Present(v)  BY <2>2, <3>2, <4>1 DEF Present
        <4>3. PICK q \in ToSet(c.paths) : v \in RunsUnder(q)  BY <1>10, <2>1, <4>2
        <4>4. q # p  BY <1>11, <4>1, <4>3
        <4>5. q \in ToSet(d.paths)  BY <1>9, <1>10, <4>4
        <4> QED  BY <2>5, <4>1, <4>3, <4>5
      <3> QED  BY <1>6, <1>10, <2>1, <3>1, <3>2 DEF InvRemoval
    <2>8. InvForgetting'  BY <1>6, <1>10, <1>21 DEF InvForgetting
    <2> QED
      BY <1>1, <1>2, <1>6, <1>10, <1>14, <1>15, <1>17, <1>18, <2>3, <2>7, <2>8, CleanerStep
  <1> QED  BY <1>20, <1>21

LEMMA CleanSteps ==
  ASSUME OInv, Clean  PROVE OInv'
PROOF
  <1>1. ASSUME NEW scope \in Scopes, NEW chosen \in {{}} \union {{v} : v \in Variants},
               PlanClean(scope, chosen)
        PROVE  OInv'
    <2>1. chosen \in SUBSET Variants
      OBVIOUS
    <2> QED  BY <1>1, <2>1, CleanIsPlanned
  <1> QED
    BY <1>1, RunsAreForgotten, CheckpointsAreForgotten, PathIsRemoved, CleanEnds, CleanIsKilled
    DEF Clean

-----------------------------------------------------------------------------
(* Recovery snapshots *)

LEMMA IncludedKept ==
  ASSUME UNCHANGED runs, NEW v  PROVE Included(v)' = Included(v)
PROOF BY DEF Included, Intact, Boundary

LEMMA SnapshotIsSelected ==
  ASSUME OInv, SelectCommitted  PROVE OInv'
PROOF
  <1>1. /\ lock = "free" /\ lock' = "snapshot" /\ copying' = [v \in Variants |-> Included(v)]
        /\ \A v \in Variants : Selectable(v)
        /\ \A i \in Instances : instances[i] # "broken"
        /\ UNCHANGED <<tree, call, session, cleaner, interrupted>>
    BY DEF SelectCommitted
  <1>2. /\ call = None /\ cleaner = None /\ \A w \in Workers : session[w] = None
        /\ Doomed = {} /\ UNCHANGED <<runs, instances, requests, catalog>>
    BY <1>1 DEF OInv, InvOwner, Doomed, tree
  <1>3. OutputTypes'  BY <1>1, <1>2 DEF OInv, OutputTypes
  <1>4. InvOwner' /\ InvAlone' /\ InvSession' /\ InvRemoval' /\ InvForgetting'
    BY <1>1, <1>2 DEF InvOwner, InvAlone, InvSession, InvRemoval, InvForgetting
  <1>5. InvRuns' /\ InvBroken'  BY <1>1, <1>2, FilesKept DEF OInv
  <1>6. InvCopying'
    <2>1. copying' = [v \in Variants |-> Included(v)']  BY <1>1, <1>2, IncludedKept
    <2>2. \A v \in Variants : Selectable(v)'
      BY <1>1, <1>2 DEF Selectable, Linked, Whole
    <2> QED  BY <1>1, <1>2, <2>1, <2>2 DEF InvCopying
  <1> QED  BY <1>3, <1>4, <1>5, <1>6 DEF OInv

LEMMA IncludedIsTyped ==
  ASSUME OutputTypes, NEW v \in Variants
  PROVE  Included(v) \in [listed : BOOLEAN, chunks : SUBSET All, generations : SUBSET (0..Boundaries)]
PROOF
  <1>1. CASE runs[v].progress = None
    BY <1>1 DEF Included
  <1>2. CASE runs[v].progress # None
    <2>1. Boundary(v) \in 0..Boundaries
      BY <1>2 DEF OutputTypes, Boundary, Runs, Progresses
    <2>2. 1..Boundary(v) \subseteq All  BY <2>1, OutputAssumption DEF All
    <2> QED  BY <1>2, <2>1, <2>2 DEF Included
  <1> QED  BY <1>1, <1>2

\* What a sealed snapshot holds of a variant that nobody was removing
LEMMA SealedIsSound ==
  ASSUME OInv, copying # None, NEW v \in Variants
  PROVE  /\ Sealed[v] \in Runs /\ Sealed[v].meta = runs[v].meta
         /\ Sealed[v].progress = runs[v].progress
         /\ IsDone(runs[v]) => Linked(v) /\ Whole(InstanceOf[v]) /\ All \subseteq Sealed[v].chunks
         /\ runs[v].progress # None /\ Linked(v) => Whole(InstanceOf[v])
         /\ copying[v].listed <=> runs[v].progress # None
         /\ Sealed[v].chunks = copying[v].chunks
         /\ runs[v].progress # None /\ (Intact(v) \/ Sealed[v].generations # {}) =>
              Boundary(v) \in Sealed[v].generations /\ 1..Boundary(v) \subseteq Sealed[v].chunks
PROOF
  <1>1. copying[v] = Included(v) /\ Selectable(v)  BY DEF OInv, InvCopying
  <1>2. Included(v) \in [listed : BOOLEAN, chunks : SUBSET All, generations : SUBSET (0..Boundaries)]
    BY IncludedIsTyped DEF OInv
  <1>3. copying[v].listed <=> runs[v].progress # None  BY <1>1 DEF Included
  <1>4. runs[v] \in Runs  BY DEF OInv, OutputTypes
  <1>5. Sealed[v] = [meta |-> runs[v].meta, progress |-> runs[v].progress,
                     chunks |-> Included(v).chunks, generations |-> Included(v).generations]
    BY <1>1, <1>3 DEF Sealed
  <1>6. Sealed[v] \in Runs  BY <1>2, <1>4, <1>5 DEF Runs
  <1>7. /\ IsDone(runs[v]) => Linked(v) /\ Whole(InstanceOf[v])
        /\ runs[v].progress # None /\ Linked(v) => Whole(InstanceOf[v])
    BY <1>1 DEF Selectable, IsDone
  <1>8. IsDone(runs[v]) => All \subseteq Sealed[v].chunks
    BY <1>5 DEF Included, IsDone
  <1>9. runs[v].progress # None /\ (Intact(v) \/ Sealed[v].generations # {}) =>
          Boundary(v) \in Sealed[v].generations /\ 1..Boundary(v) \subseteq Sealed[v].chunks
    BY <1>5 DEF Included
  <1> QED  BY <1>1, <1>3, <1>5, <1>6, <1>7, <1>8, <1>9

LEMMA SnapshotEnds ==
  ASSUME OInv, SealSnapshot \/ KillSnapshot  PROVE OInv'
PROOF
  <1>1. copying # None /\ lock' = "free" /\ copying' = None /\ UNCHANGED call
    BY DEF SealSnapshot, KillSnapshot
  <1>2. /\ lock = "snapshot" /\ call = None /\ cleaner = None /\ Doomed = {} /\ Doomed' = {}
        /\ \A w \in Workers : session[w] = None
    BY <1>1 DEF OInv, InvOwner, Doomed
  <1>3. CASE UNCHANGED <<tree, session, cleaner, interrupted>>
    <2>1. UNCHANGED <<runs, instances, requests, catalog, session, cleaner, interrupted>>
      BY <1>3 DEF tree
    <2>2. OutputTypes'  BY <1>1, <2>1 DEF OInv, OutputTypes
    <2>3. InvOwner' /\ InvAlone' /\ InvSession' /\ InvRemoval' /\ InvForgetting' /\ InvCopying'
      BY <1>1, <1>2, <2>1 DEF InvOwner, InvAlone, InvSession, InvRemoval, InvForgetting, InvCopying
    <2>4. InvRuns' /\ InvBroken'  BY <1>2, <2>1, FilesKept DEF OInv
    <2> QED  BY <2>2, <2>3, <2>4 DEF OInv
  <1>4. CASE /\ runs' = Sealed
             /\ session' = [w \in Workers |-> None] /\ cleaner' = None
             /\ interrupted' = {v \in interrupted \intersect Variants :
                                  ~copying[v].listed \/ Sealed[v].generations = {}}
             /\ UNCHANGED <<metadata, requests, catalog, instances>>
    <2>1. runs' \in [Variants -> Runs]
      <3>1. \A v \in Variants : Sealed[v] \in Runs  BY <1>1, SealedIsSound
      <3>2. Sealed = [v \in Variants |-> Sealed[v]]  BY DEF Sealed
      <3> QED  BY <1>4, <3>1, <3>2
    <2>2. OutputTypes'  BY <1>1, <1>4, <2>1 DEF OInv, OutputTypes
    <2>3. InvOwner' /\ InvAlone' /\ InvSession' /\ InvRemoval' /\ InvForgetting' /\ InvCopying'
      BY <1>1, <1>2, <1>4 DEF InvOwner, InvAlone, InvSession, InvRemoval, InvForgetting, InvCopying
    <2>4. InvBroken'  BY <1>1, <1>4 DEF OInv, InvCopying, InvBroken
    <2>5. InvRuns'
      <3> SUFFICES ASSUME NEW v \in Variants, v \notin interrupted' PROVE Sound(v)'
        BY DEF InvRuns, Untouched
      <3>1. PICK r \in Runs : r = Sealed[v]  BY <1>1, SealedIsSound
      <3>2. /\ r.meta = runs[v].meta /\ r.progress = runs[v].progress
            /\ IsDone(runs[v]) => Linked(v) /\ Whole(InstanceOf[v]) /\ All \subseteq r.chunks
            /\ runs[v].progress # None /\ Linked(v) => Whole(InstanceOf[v])
            /\ copying[v].listed <=> runs[v].progress # None
            /\ runs[v].progress # None /\ (Intact(v) \/ r.generations # {}) =>
                 Boundary(v) \in r.generations /\ 1..Boundary(v) \subseteq r.chunks
        BY <1>1, <3>1, SealedIsSound
      <3>3. \/ Sound(v)
            \/ runs[v].progress # None /\ r.generations # {}
        <4>1. CASE v \notin interrupted  BY <1>2, <4>1 DEF OInv, InvRuns, Untouched
        <4>2. CASE v \in interrupted  BY <1>4, <3>1, <3>2, <4>2
        <4> QED  BY <4>1, <4>2
      <3>4. runs'[v] = r  BY <1>4, <3>1
      <3> QED
        BY <1>4, <3>2, <3>3, <3>4 DEF Sound, Linked, Whole, IsDone, Boundary, Intact
    <2> QED  BY <2>2, <2>3, <2>4, <2>5 DEF OInv
  <1> QED  BY <1>3, <1>4 DEF SealSnapshot, KillSnapshot

-----------------------------------------------------------------------------
(* The invariant holds in every state *)

LEMMA OutputNextHolds ==
  ASSUME OInv, [Next]_vars  PROVE OInv'
PROOF
  <1>1. CASE Run
    BY <1>1, RunStarts, RequestIsPublished, VariantIsSubmitted, RunEnds DEF Run
  <1>2. CASE \E w \in Workers : Session(w)
    BY <1>2, SessionSteps
  <1>3. CASE Clean
    BY <1>3, CleanSteps
  <1>4. CASE SelectCommitted \/ SealSnapshot \/ KillSnapshot
    BY <1>4, SnapshotIsSelected, SnapshotEnds
  <1>5. CASE UNCHANGED vars
    <2>1. UNCHANGED <<requests, catalog, runs, instances, lock, call, session, cleaner, copying, interrupted>>
      BY <1>5 DEF vars, tree
    <2>2. OutputTypes' /\ InvOwner' /\ InvBroken'
      BY <2>1 DEF OInv, OutputTypes, InvOwner, InvBroken
    <2>3. InvRuns'  BY <2>1, FilesKept DEF OInv, Doomed
    <2>4. InvAlone'  BY <2>1 DEF OInv, InvAlone
    <2>5. InvSession'
      BY <2>1 DEF OInv, InvSession, SessionHolds, AsRead, Linked, Whole, IsDone
    <2>6. InvCopying'
      BY <2>1, IncludedKept DEF OInv, InvCopying, Selectable, Linked, Whole
    <2>7. \A p : RunsUnder(p)' = RunsUnder(p) /\ InstancesUnder(p)' = InstancesUnder(p)
      BY <2>1, UnderKept
    <2>8. InvRemoval'
      BY <2>1, <2>7 DEF OInv, InvRemoval, Linked, Present
    <2>9. InvForgetting'
      BY <2>1 DEF OInv, InvForgetting, Boundary
    <2> QED  BY <2>2, <2>3, <2>4, <2>5, <2>6, <2>8, <2>9 DEF OInv
  <1> QED  BY <1>1, <1>2, <1>3, <1>4, <1>5 DEF Next

THEOREM OutputInvariance == Spec => []OInv
PROOF
  <1>1. Init => OInv  BY OutputInitHolds
  <1>2. OInv /\ [Next]_vars => OInv'  BY OutputNextHolds
  <1> QED  BY <1>1, <1>2, PTL DEF Spec
-----------------------------------------------------------------------------
(* What it says *)

\* What progress.json claims of a variant is there, unless a removal that
\* selected it is under way or was killed halfway (RunSession._reuse,
\* RunStore.restore, clean_storage).
THEOREM ProgressStaysBacked == Spec => []ProgressIsBacked
PROOF
  <1>1. OInv => ProgressIsBacked
    <2> SUFFICES ASSUME OInv, NEW v \in Variants, Untouched(v)
                 PROVE  /\ Inspected(v) # "corrupt"
                        /\ runs[v].progress # None /\ Boundary(v) > 0 => Intact(v)
      BY DEF ProgressIsBacked, CompletedIsUsable, CheckpointsAreThere
    <2>1. Sound(v)  BY DEF OInv, InvRuns
    <2> QED  BY <2>1 DEF Sound, Inspected, IsDone
  <1> QED  BY <1>1, OutputInvariance, PTL

\* A session fails over what is stored only if a killed cleanup was removing its
\* variant or its instance (execute_run, ExperimentStore.load_instance).
THEOREM FailuresAreExplained == Spec => []OnlyInterruptedRemovalsHurt
PROOF
  <1>1. OInv => OnlyInterruptedRemovalsHurt
    <2> SUFFICES ASSUME OInv, NEW w \in Workers, At(w, "fail")
                 PROVE  \/ session[w].variant \in interrupted
                        \/ InstanceOf[session[w].variant] \in interrupted
      BY DEF OnlyInterruptedRemovalsHurt
    <2>1. session[w] # None /\ session[w].pc = "fail"  BY DEF At
    <2> QED  BY <2>1, SessionHasLock DEF SessionHolds, OInv, InvBroken
  <1> QED  BY <1>1, OutputInvariance, PTL

\* A snapshot under construction holds everything its completed variants need
\* (_CommittedOutput._run).
THEOREM SnapshotsAreCommitted == Spec => []SnapshotIsCommitted
PROOF
  <1>1. OInv => SnapshotIsCommitted
    <2> SUFFICES ASSUME OInv, copying # None, NEW v \in Variants, IsDone(Sealed[v])
                 PROVE  Linked(v) /\ Whole(InstanceOf[v]) /\ All \subseteq copying[v].chunks
      BY DEF SnapshotIsCommitted
    <2> QED  BY SealedIsSound DEF IsDone
  <1> QED  BY <1>1, OutputInvariance, PTL

\* No failure, kill or restored copy takes completed work back; only a cleanup
\* that selected the variant does (RunStore.fail, restore_snapshot, clean_storage).
THEOREM CompletedWorkStays == Spec => CompletedStays
PROOF
  <1> DEFINE Stays == \A v \in Variants : IsDone(runs[v]) =>
                        IsDone(runs'[v]) \/ (lock = "clean" /\ v \in cleaner.selected)
  <1>1. ASSUME OInv, Next  PROVE Stays
    <2> SUFFICES ASSUME NEW v \in Variants, IsDone(runs[v]),
                        ~(lock = "clean" /\ v \in cleaner.selected)
                 PROVE  IsDone(runs'[v])
      OBVIOUS
    <2>0. runs \in [Variants -> Runs]  BY <1>1 DEF OInv, OutputTypes
    <2>1. CASE Run
      <3>1. runs' = runs \/ \E w \in Workers, x \in Variants : Submit(w, x)
        BY <2>1 DEF Run, BeginRun, PublishHistory, PublishMetadata, PublishCatalog, EndRun, KillRun, tree
      <3>2. ASSUME NEW w \in Workers, NEW x \in Variants, Submit(w, x)  PROVE IsDone(runs'[v])
        <4>1. runs'[v].progress = runs[v].progress
          BY <2>0, <3>2 DEF Submit, Runs
        <4> QED  BY <4>1 DEF IsDone
      <3> QED  BY <3>1, <3>2
    <2>2. CASE \E w \in Workers : Session(w)
      <3>1. PICK w \in Workers : Session(w)  BY <2>2
      <3>2. session[w] # None
        BY <3>1 DEF Session, At, ReadRun, Reuse, LoadInstance, SaveInstance, LinkInstance, Restore,
                    Flush, PublishBoundary, FinishRun, FailRun
      <3>3. PICK s \in Sessions : s = session[w] /\ SessionHolds(s)
        BY <1>1, <3>2, SessionHasLock
      <3>4. PICK x \in Variants : x = s.variant  BY <3>3 DEF Sessions
      <3>5. CASE ReadRun(w) \/ Reuse(w) \/ LoadInstance(w) \/ SaveInstance(w)
        <4>1. runs' = runs  BY <3>5 DEF ReadRun, Reuse, LoadInstance, SaveInstance
        <4> QED  BY <4>1
      <3>6. CASE LinkInstance(w) \/ Restore(w) \/ Flush(w) \/ PublishBoundary(w) \/ FinishRun(w)
        <4>1. s.pc \in Working
          BY <3>3, <3>6 DEF LinkInstance, Restore, Flush, PublishBoundary, FinishRun, At, Working, Bound
        <4>2. x # v  BY <3>3, <3>4, <4>1 DEF SessionHolds
        <4>3. runs'[v] = runs[v]
          BY <2>0, <3>3, <3>4, <3>6, <4>2 DEF LinkInstance, Restore, Flush, PublishBoundary, FinishRun
        <4> QED  BY <4>3
      <3>7. CASE FailRun(w)
        <4>1. s.pc = "fail"  BY <3>3, <3>7 DEF FailRun, At
        <4>2. runs' = [runs EXCEPT ![x].progress = [saved |-> s.saved, done |-> s.done]]
          BY <3>3, <3>4, <3>7 DEF FailRun
        <4>3. CASE x # v
          <5>1. runs'[v] = runs[v]  BY <2>0, <4>2, <4>3
          <5> QED  BY <5>1
        <4>4. CASE x = v
          <5>1. runs[v].progress \in [saved : 0..Boundaries, done : BOOLEAN]
            BY <2>0 DEF IsDone, Runs, Progresses
          <5>2. s.saved = runs[v].progress.saved /\ s.done = runs[v].progress.done
            BY <3>3, <3>4, <4>1, <4>4 DEF SessionHolds, AsRead, IsDone
          <5>3. [saved |-> s.saved, done |-> s.done] = runs[v].progress  BY <5>1, <5>2
          <5>4. runs'[v].progress = runs[v].progress  BY <2>0, <4>2, <4>4, <5>3 DEF Runs
          <5> QED  BY <5>4 DEF IsDone
        <4> QED  BY <4>3, <4>4
      <3> QED  BY <3>1, <3>5, <3>6, <3>7 DEF Session
    <2>3. CASE Clean
      <3>1. CASE \/ \E scope \in Scopes, chosen \in {{}} \union {{x} : x \in Variants} :
                      PlanClean(scope, chosen)
                 \/ ForgetRuns \/ EndClean
        <4>1. runs' = runs  BY <3>1 DEF PlanClean, ForgetRuns, EndClean, tree
        <4> QED  BY <4>1
      <3>2. CASE \E x \in Variants : ForgetCheckpoints(x)
        <4>1. PICK x \in Variants : ForgetCheckpoints(x)  BY <3>2
        <4>2. cleaner # None /\ x \in cleaner.todo  BY <4>1 DEF ForgetCheckpoints
        <4>3. lock = "clean"  BY <1>1, <4>2 DEF OInv, InvOwner
        <4>4. x \in cleaner.selected
          BY <1>1, <4>2, <4>3 DEF OInv, InvRemoval, InvForgetting
        <4>5. runs'[v] = runs[v]  BY <2>0, <4>1, <4>3, <4>4 DEF ForgetCheckpoints
        <4> QED  BY <4>5
      <3>3. CASE RemovePath \/ (KillClean /\ Removing)
        <4>1. Removing  BY <3>3 DEF RemovePath
        <4>2. lock = "clean" /\ IsCleaner(cleaner)
          BY <1>1, <4>1 DEF Removing, OInv, InvOwner, OutputTypes
        <4>3. PICK p \in ToSet(cleaner.paths) : p = Target
          BY <4>1, <4>2, TailHolds DEF Removing, Target, IsCleaner
        <4>4. v \notin RunsUnder(p)
          <5>1. CASE cleaner.scope = "checkpoints"
            BY <1>1, <4>2, <4>3, <5>1 DEF OInv, InvForgetting, RunsUnder
          <5>2. CASE cleaner.scope # "checkpoints"
            BY <1>1, <4>2, <4>3, <5>2 DEF OInv, InvRemoval
          <5> QED  BY <5>1, <5>2
        <4>5. CASE RemovePath
          <5>1. runs'[v] = CASE v \in RunsUnder(p) -> NoRun
                             [] p = [kind |-> "checkpoints", id |-> v] ->
                                  [runs[v] EXCEPT !.generations = {}]
                             [] OTHER -> runs[v]
            BY <4>3, <4>5 DEF RemovePath
          <5>2. runs'[v].progress = runs[v].progress
            <6>1. CASE p = [kind |-> "checkpoints", id |-> v]
              BY <2>0, <4>4, <5>1, <6>1 DEF Runs
            <6>2. CASE p # [kind |-> "checkpoints", id |-> v]
              BY <4>4, <5>1, <6>2
            <6> QED  BY <6>1, <6>2
          <5> QED  BY <5>2 DEF IsDone
        <4>6. CASE KillClean
          <5>1. runs' = runs \/ \E x \in RunsUnder(p) : \E r \in Debris(runs[x]) :
                                  runs' = [runs EXCEPT ![x] = r]
            BY <4>1, <4>3, <4>6 DEF KillClean
          <5>2. runs'[v] = runs[v]  BY <2>0, <4>4, <5>1
          <5> QED  BY <5>2
        <4> QED  BY <3>3, <4>5, <4>6
      <3>4. CASE KillClean /\ ~Removing
        <4>1. runs' = runs  BY <3>4 DEF KillClean
        <4> QED  BY <4>1
      <3> QED  BY <2>3, <3>1, <3>2, <3>3, <3>4 DEF Clean
    <2>4. CASE SelectCommitted \/ KillSnapshot
      <3>1. runs' = runs  BY <2>4 DEF SelectCommitted, KillSnapshot, tree
      <3> QED  BY <3>1
    <2>5. CASE SealSnapshot
      <3>1. copying # None /\ (runs' = runs \/ runs' = Sealed)  BY <2>5 DEF SealSnapshot, tree
      <3>2. Sealed[v].progress = runs[v].progress  BY <1>1, <3>1, SealedIsSound
      <3> QED  BY <3>1, <3>2 DEF IsDone
    <2> QED  BY <1>1, <2>1, <2>2, <2>3, <2>4, <2>5 DEF Next
  <1>2. ASSUME OInv, [Next]_vars  PROVE [Stays]_vars
    BY <1>1, <1>2
  <1> HIDE DEF Stays
  <1>3. Spec => [][Stays]_vars
    BY <1>2, OutputInvariance, PTL DEF Spec
  <1> QED  BY <1>3 DEF Stays, CompletedStays
=============================================================================
