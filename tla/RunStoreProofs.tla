--------------------------- MODULE RunStoreProofs ---------------------------
(***************************************************************************)
(* Proofs about RunStore: a completed prefix stays readable and a          *)
(* published checkpoint is one boundary, for any budgets, recording        *)
(* interval, buffer size, number of retained checkpoints, observations and *)
(* number of interruptions, as long as chunks that completed prefixes name *)
(* are not themselves damaged.  Then what it can resume from: while        *)
(* nothing is damaged at rest, a run that published a checkpoint keeps one *)
(* at or beyond all that is complete, and the store implements DurableRun. *)
(***************************************************************************)
EXTENDS RunStore, FiniteSetTheorems, FunctionTheorems, SequenceTheorems, WellFoundedInduction, TLAPS

(* The inductive invariant *)

Active == Sessions \ {"opened", "raising", "failing"}
IsSealed(g) == generations[g].kind = "sealed"

Prefix(m, n) == Len(m) <= Len(n) /\ \A i \in 1..Len(m) : m[i] = n[i]
InOrder(m) ==
  \A i, j \in 1..Len(m) : i < j => \A r \in m[i], q \in m[j] : r[1] < q[1]
Kept(rows) == {r \in rows : Sampled(r[1])}

\* A manifest and rows still buffered record a life of n steps.
Records(n, rows, manifest, pending) ==
  /\ Timeline(rows, n)
  /\ RowsOf(manifest) \union pending = Kept(rows)
  /\ InOrder(manifest)
  /\ \A r \in RowsOf(manifest), q \in pending : r[1] < q[1]

\* The session's copy of progress.json names nothing the file does not name.
InvMem ==
  /\ pc # "idle" => /\ mem.completed = progress.completed
                    /\ Referenced(mem) \subseteq Referenced(progress)
  /\ pc = "opened" => mem = progress
  /\ pc \in {"idle", "opened"} =>
       step = 0 /\ observed = {} /\ chunks = <<>> /\ buffer = {}

InvGenerations ==
  \A g \in Generation : IsSealed(g) =>
    LET e == generations[g] IN Records(e.step, e.observed, e.results, {})

InvSession ==
  pc \in Active =>
    /\ Records(step, observed, chunks, buffer)
    /\ Intact(chunks) /\ instance /\ budget \in Budgets
    /\ pc \notin {"loop", "stepped"} => buffer = {}

\* What the session holds extends every completed prefix.
InvCovers ==
  pc \in Active =>
    \A s \in Completed(progress) :
      LET m == progress.completed[s].results IN
      /\ s <= step /\ Prefix(m, chunks)
      /\ s = step => m = chunks /\ buffer = {}

\* So does every checkpoint at or beyond it.
InvEntries ==
  \A g \in Referenced(progress), s \in Completed(progress) :
    LET e == generations[g]  m == progress.completed[s].results IN
    IsSealed(g) /\ s <= e.step => Prefix(m, e.results) /\ (e.step = s => e.results = m)

InvPinned ==
  \A s \in Pinned(progress) :
    LET g == progress.completed[s].checkpoint IN
    IsSealed(g) => generations[g].step = s

NotBeyond(g, n, m) ==
  IsSealed(g) => /\ generations[g].step <= n
                 /\ generations[g].step = n => generations[g].results = m

\* Checkpoints are retained newest first.  (A fallback may append a pinned
\* checkpoint behind an older one; the older one then cannot be resumed.)
NewestFirst(p) ==
  \A i, j \in 1..Len(p.checkpoints) :
    LET g == p.checkpoints[i] IN
    /\ i < j /\ IsSealed(g)
    /\ \A s \in Completed(p) : s <= generations[g].step
    => NotBeyond(p.checkpoints[j], generations[g].step, generations[g].results)
InvOrder == NewestFirst(progress) /\ (pc # "idle" => NewestFirst(mem))

\* No retained checkpoint is ahead of the session.
InvBehind ==
  pc \in Active =>
    \A g \in Referenced(mem) :
      /\ NotBeyond(g, step, chunks)
      /\ IsSealed(g) /\ generations[g].step = step => buffer = {}

InvWriting ==
  /\ pc = "opened" => budget \in Budgets
  /\ pc = "writing" => gen \notin Referenced(progress)
  /\ pc \in {"sealed", "pruning", "finishing"} =>
       (IsSealed(gen) => generations[gen].step = step /\ generations[gen].results = chunks)
  /\ pc \in {"pruning", "finishing"} =>
       mem.checkpoints # <<>> /\ mem.checkpoints[1] = gen

\* Only a finished run is about to be published as complete.
InvFinal ==
  /\ cause = "final" /\ pc \notin {"raising", "failing"} => pc \in Active /\ IsFinished(step)
  /\ pc = "finishing" => cause = "final"
  /\ \A s \in Completed(progress) : s # 0

\* What is reported, and where a failure is recorded
InvOutcome ==
  /\ OutcomeIsDurable /\ FailureRecorded
  /\ pc # "idle" => outcome = "none"
  /\ pc = "failing" => failure
  /\ pc = "completing" => /\ progress.status # "failed"
                          /\ \E s \in Completed(progress) : s >= budget

\* Holds whatever is damaged.
IInv ==
  /\ TypeOK
  /\ InvMem /\ InvGenerations /\ InvSession /\ InvCovers /\ InvEntries
  /\ InvPinned /\ InvOrder /\ InvBehind /\ InvWriting /\ InvFinal
-----------------------------------------------------------------------------
(* Sequences of checkpoints *)

\* Take keeps a prefix of its argument.
LEMMA TakeSeq ==
  ASSUME NEW S, NEW s \in Seq(S), NEW n \in Step
  PROVE  /\ Take(s, n) \in Seq(S)
         /\ Len(Take(s, n)) = IF n < Len(s) THEN n ELSE Len(s)
         /\ \A i \in 1..Len(Take(s, n)) : i <= Len(s) /\ Take(s, n)[i] = s[i]
<1> DEFINE m == IF n < Len(s) THEN n ELSE Len(s)
<1>1. m \in Nat /\ m <= Len(s)
  BY LenProperties DEF Step
<1>2. \A i \in 1..m : s[i] \in S
  BY <1>1, ElementOfSeq, LenProperties
<1>3. /\ SubSeq(s, 1, m) \in Seq(S)
      /\ Len(SubSeq(s, 1, m)) = m
      /\ \A i \in 1..m : SubSeq(s, 1, m)[i] = s[i]
  <2>1. 1 \in Int /\ m \in Int
    BY <1>1
  <2> HIDE DEF m
  <2>2. /\ SubSeq(s, 1, m) \in Seq(S)
        /\ Len(SubSeq(s, 1, m)) = IF 1 <= m THEN m - 1 + 1 ELSE 0
        /\ \A i \in 1..(m - 1 + 1) : SubSeq(s, 1, m)[i] = s[1 + i - 1]
    BY <2>1, <1>2, SubSeqProperties
  <2> QED BY <2>2, <1>1
<1> QED BY <1>1, <1>3, LenProperties DEF Take

\* From keeps at most n entries, starting with the i-th.
LEMMA FromSeq ==
  ASSUME NEW S, NEW s \in Seq(S), NEW i \in 1..Len(s), NEW n \in Step
  PROVE  /\ From(s, i, n) \in Seq(S)
         /\ From(s, i, n) # <<>> /\ From(s, i, n)[1] = s[i]
         /\ \A k \in 1..Len(From(s, i, n)) :
              i + k - 1 \in 1..Len(s) /\ From(s, i, n)[k] = s[i + k - 1]
<1> DEFINE m == IF i + n - 1 < Len(s) THEN i + n - 1 ELSE Len(s)
<1>1. m \in Nat /\ m <= Len(s) /\ i <= m /\ i \in Nat /\ 1 <= i
  BY LenProperties DEF Step
<1>2. \A k \in i..m : s[k] \in S
  BY <1>1, ElementOfSeq, LenProperties
<1>3. /\ SubSeq(s, i, m) \in Seq(S)
      /\ Len(SubSeq(s, i, m)) = m - i + 1
      /\ \A k \in 1..(m - i + 1) : SubSeq(s, i, m)[k] = s[i + k - 1]
  <2>1. i \in Int /\ m \in Int
    BY <1>1
  <2> HIDE DEF m
  <2>2. /\ SubSeq(s, i, m) \in Seq(S)
        /\ Len(SubSeq(s, i, m)) = IF i <= m THEN m - i + 1 ELSE 0
        /\ \A k \in 1..(m - i + 1) : SubSeq(s, i, m)[k] = s[i + k - 1]
    BY <2>1, <1>2, SubSeqProperties
  <2> QED BY <2>2, <1>1
<1>4. SubSeq(s, i, m) # <<>>
  <2>1. m - i + 1 >= 1
    BY <1>1
  <2> HIDE DEF m
  <2>2. Len(SubSeq(s, i, m)) # 0
    BY <1>3, <2>1
  <2>3. Len(<<>>) = 0
    BY EmptySeq
  <2> QED BY <2>2, <2>3
<1> QED BY <1>1, <1>3, <1>4, LenProperties DEF From

\* Every entry restore() tries is a generation that progress.json names: the
\* first ones are retained checkpoints, the others are pinned.
LEMMA EntriesSeq ==
  ASSUME NEW p, Progress(p), NEW order \in LongestFirst(p)
  PROVE  /\ Entries(p, order) \in Seq(Generation)
         /\ Len(p.checkpoints) <= Len(Entries(p, order))
         /\ \A i \in 1..Len(Entries(p, order)) :
              IF i <= Len(p.checkpoints)
              THEN Entries(p, order)[i] = p.checkpoints[i]
              ELSE \E s \in Pinned(p) : Entries(p, order)[i] = p.completed[s].checkpoint
<1> DEFINE N == Cardinality(Pinned(p))
           pins == [i \in DOMAIN order |-> p.completed[order[i]].checkpoint]
<1>1. N \in Nat
  <2>1. IsFiniteSet(Pinned(p))
    BY FS_Subset DEF Progress, Pinned
  <2> QED BY <2>1, FS_CardinalityType
<1>2. order \in [1..N -> Pinned(p)] /\ DOMAIN order = 1..N
  BY DEF LongestFirst
<1>3. \A s \in Pinned(p) : p.completed[s].checkpoint \in Generation
  BY DEF Progress, Pinned
<1>4. pins \in Seq(Generation) /\ Len(pins) = N
  <2>1. pins \in [1..N -> Generation]
    BY <1>2, <1>3
  <2> QED BY <2>1, <1>1, SeqDef
<1>5. p.checkpoints \in Seq(Generation)
  BY DEF Progress
<1> HIDE DEF N
<1>6. /\ p.checkpoints \o pins \in Seq(Generation)
      /\ Len(p.checkpoints \o pins) = Len(p.checkpoints) + N
      /\ \A i \in 1..(Len(p.checkpoints) + N) :
           (p.checkpoints \o pins)[i] =
             IF i <= Len(p.checkpoints) THEN p.checkpoints[i]
                                        ELSE pins[i - Len(p.checkpoints)]
  BY <1>4, <1>5, ConcatProperties
<1>7. \A i \in 1..N : \E s \in Pinned(p) : pins[i] = p.completed[s].checkpoint
  BY <1>2
<1>8. Len(p.checkpoints) \in Nat
  BY <1>5, LenProperties
<1> QED BY <1>1, <1>6, <1>7, <1>8 DEF Entries
-----------------------------------------------------------------------------
(* Types *)

\* A progress file that does not exist yet reads as a well-typed record.
LEMMA NoProgressType == Progress(NoProgress)
<1>1. <<>> \in Seq(Generation) /\ DOMAIN <<>> = {}
  BY EmptySeq, LenProperties
<1>2. IsFiniteSet({})
  BY FS_EmptySet
<1> QED BY <1>1, <1>2, SMT DEF Progress, NoProgress, Completed

\* Chunks hold rows.
LEMMA RowsAreRows ==
  ASSUME NEW m \in Manifest
  PROVE  RowsOf(m) \subseteq Row
  BY ElementOfSeq DEF Manifest, RowsOf

\* Flushing keeps the types of what it writes.
LEMMA FlushType ==
  ASSUME TypeOK, NEW rows \in SUBSET Row, Flush(rows)
  PROVE  /\ results' \subseteq ChunkFile
         /\ chunks' \in Manifest /\ buffer' \in SUBSET Row
<1>1. Len(chunks) \in Nat
  BY LenProperties DEF TypeOK, Manifest
<1>2. chunks' \in Manifest
  BY AppendProperties DEF TypeOK, Manifest, Flush
<1>3. Len(chunks) + 1 \in Step
  BY <1>1 DEF Step
<1> QED BY <1>2, <1>3 DEF TypeOK, Flush, NextFile, ChunkFile

\* What a checkpoint publishes: the new generation, then older ones.
LEMMA PublishedSeq ==
  ASSUME Progress(mem), gen \in Generation,
         NEW q, q = Take(<<gen>> \o mem.checkpoints, Keep)
  PROVE  /\ q \in Seq(Generation) /\ q # <<>> /\ q[1] = gen
         /\ \A i \in 1..Len(q) : i > 1 =>
              i - 1 \in 1..Len(mem.checkpoints) /\ q[i] = mem.checkpoints[i - 1]
<1> DEFINE s == <<gen>> \o mem.checkpoints
           n == Len(mem.checkpoints)
<1>1. mem.checkpoints \in Seq(Generation) /\ n \in Nat
  BY LenProperties DEF Progress
<1>2. <<gen>> \in Seq(Generation) /\ Len(<<gen>>) = 1 /\ <<gen>>[1] = gen
  OBVIOUS
<1> HIDE DEF n
<1>3. /\ s \in Seq(Generation) /\ Len(s) = 1 + n
      /\ \A i \in 1..(1 + n) : s[i] = IF i <= 1 THEN <<gen>>[i] ELSE mem.checkpoints[i - 1]
  BY <1>1, <1>2, ConcatProperties DEF n
<1> HIDE DEF s
<1>4. /\ Take(s, Keep) \in Seq(Generation)
      /\ Len(Take(s, Keep)) = IF Keep < Len(s) THEN Keep ELSE Len(s)
      /\ \A i \in 1..Len(Take(s, Keep)) : i <= Len(s) /\ Take(s, Keep)[i] = s[i]
  BY <1>3, TakeSeq, KeepAssumption
<1>5. q = Take(s, Keep)
  BY DEF s
<1>6. Len(q) >= 1 /\ Len(q) \in Nat /\ Len(q) <= 1 + n
  BY <1>1, <1>3, <1>4, <1>5, KeepAssumption DEF Step
<1>7. q # <<>>
  BY <1>6, EmptySeq
<1>8. \A i \in 1..Len(q) : i \in 1..(1 + n) /\ q[i] = s[i]
  BY <1>1, <1>3, <1>4, <1>5, <1>6
<1>9. q[1] = gen
  BY <1>1, <1>2, <1>3, <1>6, <1>8
<1>10. \A i \in 1..Len(q) : i > 1 => i - 1 \in 1..n /\ q[i] = mem.checkpoints[i - 1]
  BY <1>1, <1>3, <1>6, <1>8
<1> QED BY <1>4, <1>5, <1>7, <1>9, <1>10 DEF n

\* A session that ends leaves well-typed, empty memory.
LEMMA ForgetType ==
  ASSUME Forget
  PROVE  /\ Progress(mem') /\ pc' \in Sessions \union {"idle"}
         /\ step' \in Nat /\ observed' \in SUBSET Row
         /\ chunks' \in Manifest /\ buffer' \in SUBSET Row
         /\ cause' \in {"none", "running", "paused", "final"}
         /\ gen' \in Generation \union {None}
         /\ pc' = "idle"
<1>1. <<>> \in Manifest
  BY EmptySeq DEF Manifest
<1> QED BY <1>1, NoProgressType DEF Forget

\* A generation that is a boundary gives a session of the right types.
LEMMA SealedType ==
  ASSUME TypeOK, NEW g \in Generation, IsSealed(g)
  PROVE  /\ generations[g].step \in Nat /\ generations[g].observed \in SUBSET Row
         /\ generations[g].results \in Manifest
  BY DEF TypeOK, IsSealed, IsGeneration, Absent, Unusable

\* An empty run directory has the right types.
THEOREM TypeInit == Init => TypeOK
<1>1. <<>> \in Manifest
  BY EmptySeq DEF Manifest
<1> SUFFICES ASSUME Init PROVE TypeOK
  OBVIOUS
<1>2. Progress(progress) /\ Progress(mem)
  BY NoProgressType DEF Init
<1>3. DOMAIN generations = Generation /\ \A g \in Generation : IsGeneration(generations[g])
  BY DEF Init, IsGeneration
<1> QED BY <1>1, <1>2, <1>3 DEF Init, TypeOK

\* No step of the store or of its environment breaks a type.
THEOREM TypeStep == TypeOK /\ [Next]_vars => TypeOK'
<1> SUFFICES ASSUME TypeOK, [Next]_vars PROVE TypeOK'
  OBVIOUS
<1> USE DEF disk, session
<1>1. ASSUME NEW b \in Budgets, Reuse(b) PROVE TypeOK'
  BY <1>1 DEF Reuse, TypeOK
<1>2. ASSUME NEW b \in Budgets, Open(b) PROVE TypeOK'
  BY <1>2 DEF Open, TypeOK, Sessions
<1>3. ASSUME NEW b \in Budgets, RejectCompletion(b) PROVE TypeOK'
  BY <1>3 DEF RejectCompletion, TypeOK, Sessions
<1>4. CASE CreateInstance
  BY <1>4 DEF CreateInstance, TypeOK
<1>5. CASE Restore
  <2>1. PICK bad \in Undecodable, order \in LongestFirst(mem) :
          \E i \in 1..Len(Entries(mem, order)) :
            LET entries == Entries(mem, order)  e == generations[entries[i]] IN
            /\ Valid(entries[i])
            /\ mem' = [mem EXCEPT !.checkpoints = From(entries, i, Keep)]
            /\ Load(e)
    BY <1>5 DEF Restore
  <2> DEFINE entries == Entries(mem, order)
  <2>2. PICK i \in 1..Len(entries) :
          /\ Valid(entries[i])
          /\ mem' = [mem EXCEPT !.checkpoints = From(entries, i, Keep)]
          /\ Load(generations[entries[i]])
    BY <2>1
  <2>3. Progress(mem)
    BY DEF TypeOK
  <2>4. entries \in Seq(Generation)
    BY <2>3, EntriesSeq
  <2>5. entries[i] \in Generation
    BY <2>4, ElementOfSeq
  <2>6. From(entries, i, Keep) \in Seq(Generation)
    BY <2>4, FromSeq, KeepAssumption
  <2> HIDE DEF entries
  <2>7. Progress(mem')
    BY <2>2, <2>3, <2>6 DEF Progress, Completed
  <2>8. step' \in Nat /\ observed' \in SUBSET Row /\ chunks' \in Manifest
    BY <2>2, <2>5, SealedType DEF Valid, IsSealed, Load
  <2> QED BY <1>5, <2>7, <2>8 DEF Restore, TypeOK, Sessions
<1>6. CASE Initialize
  <2>1. Progress(mem')
    BY <1>6, EmptySeq DEF Initialize, TypeOK, Progress, Completed
  <2> QED BY <1>6, <2>1 DEF Initialize, TypeOK, Sessions
<1>7. CASE RestoreFails
  BY <1>7 DEF RestoreFails, TypeOK, Sessions
<1>8. ASSUME NEW f \in results, DiscardTail(f) PROVE TypeOK'
  BY <1>8 DEF DiscardTail, TypeOK
<1>9. CASE Resume
  BY <1>9 DEF Resume, TypeOK, Sessions
<1>10. ASSUME NEW d \in Draws, Advance(d) PROVE TypeOK'
  <2>1. step + 1 \in Step /\ step + 1 \in Nat /\ <<step + 1, d>> \in Row
    BY DEF TypeOK, Step, Row
  <2>2. observed' \in SUBSET Row /\ step' \in Nat
    BY <1>10, <2>1 DEF Advance, TypeOK
  <2> DEFINE rows == IF Selected(step + 1) THEN buffer \union {<<step + 1, d>>} ELSE buffer
  <2>3. rows \in SUBSET Row
    BY <2>1 DEF TypeOK
  <2>4. Flush(rows) \/ (buffer' = rows /\ UNCHANGED <<results, chunks>>)
    BY <1>10 DEF Advance
  <2> HIDE DEF rows
  <2>5. /\ results' \subseteq ChunkFile
        /\ chunks' \in Manifest /\ buffer' \in SUBSET Row
    BY <2>3, <2>4, FlushType DEF TypeOK
  <2> QED BY <1>10, <2>2, <2>5 DEF Advance, TypeOK, Sessions
<1>11. CASE Continue
  BY <1>11 DEF Continue, TypeOK, Sessions
<1>12. ASSUME NEW why \in {"running", "paused", "final"}, BeginCheckpoint(why) PROVE TypeOK'
  <2>1. /\ results' \subseteq ChunkFile
        /\ chunks' \in Manifest /\ buffer' \in SUBSET Row
    BY <1>12, FlushType DEF BeginCheckpoint, TypeOK
  <2> QED BY <1>12, <2>1 DEF BeginCheckpoint, TypeOK, Sessions
<1>13. ASSUME NEW g \in Generation, MakeGeneration(g) PROVE TypeOK'
  BY <1>13 DEF MakeGeneration, TypeOK, Sessions, IsGeneration
<1>14. CASE SealGeneration
  BY <1>14 DEF SealGeneration, TypeOK, Sessions, IsGeneration, Sealed
<1>15. CASE PublishCheckpoint
  <2>1. Take(<<gen>> \o mem.checkpoints, Keep) \in Seq(Generation)
    BY <1>15, PublishedSeq DEF PublishCheckpoint, TypeOK
  <2>2. Progress(mem')
    BY <1>15, <2>1 DEF PublishCheckpoint, CommitCheckpoint, TypeOK, Progress, Completed
  <2> QED BY <1>15, <2>2 DEF PublishCheckpoint, CommitCheckpoint, TypeOK, Sessions
<1>16. ASSUME NEW g \in Generation, PruneGeneration(g) PROVE TypeOK'
  BY <1>16 DEF PruneGeneration, TypeOK, IsGeneration
<1>17. CASE CheckpointDone
  BY <1>17 DEF CheckpointDone, TypeOK, Sessions
<1>18. CASE PauseDone
  BY <1>18, ForgetType DEF PauseDone, Return, TypeOK
<1>19. CASE FinalCheckpointDone
  BY <1>19 DEF FinalCheckpointDone, Pruned, TypeOK, Sessions
<1>20. CASE Finish
  <2>1. Completion(mem) \in [results : Manifest, checkpoint : Generation \union {None}]
    BY ElementOfSeq, EmptySeq DEF Completion, TypeOK, Progress
  <2>2. /\ IsFiniteSet(Completed(mem) \union {step})
        /\ Completed(mem) \union {step} \subseteq Nat
    BY FS_AddElement DEF TypeOK, Progress
  <2>3. WithCompletion(mem) \in [Completed(mem) \union {step} ->
                                   [results : Manifest, checkpoint : Generation \union {None}]]
    BY <2>1 DEF WithCompletion, TypeOK, Progress
  <2>4. Progress(mem')
    BY <1>20, <2>2, <2>3 DEF Finish, TypeOK, Progress, Completed
  <2> QED BY <1>20, <2>4 DEF Finish, TypeOK, Sessions
<1>21. CASE ClearFailure
  BY <1>21, ForgetType DEF ClearFailure, Return, TypeOK
<1>22. CASE WriteFailure
  BY <1>22 DEF WriteFailure, TypeOK, Sessions
<1>23. CASE PublishFailure
  <2>1. Progress(progress')
    BY <1>23 DEF PublishFailure, TypeOK, Progress, Completed
  <2> QED BY <1>23, <2>1, ForgetType DEF PublishFailure, Return, TypeOK
<1>24. CASE Raise
  BY <1>24 DEF Raise, TypeOK, Sessions, IsGeneration
<1>25. CASE AbandonFailure
  BY <1>25, ForgetType DEF AbandonFailure, Return, TypeOK
<1>26. CASE Crash
  BY <1>26, ForgetType DEF Crash, TypeOK
<1>27. ASSUME NEW g \in Generation, RotGeneration(g) PROVE TypeOK'
  BY <1>27 DEF RotGeneration, TypeOK, IsGeneration
<1>28. ASSUME NEW f \in results, RotChunk(f) PROVE TypeOK'
  BY <1>28 DEF RotChunk, TypeOK
<1>29. CASE UNCHANGED vars
  BY <1>29 DEF vars, TypeOK
<1>30. CASE CheckpointDue \/ Pause \/ Finalize
  BY <1>12, <1>30 DEF CheckpointDue, Pause, Finalize
<1> QED
  BY <1>1, <1>2, <1>3, <1>4, <1>5, <1>6, <1>7, <1>8, <1>9, <1>10, <1>11, <1>13, <1>14,
     <1>15, <1>16, <1>17, <1>18, <1>19, <1>20, <1>21, <1>22, <1>23, <1>24, <1>25, <1>26,
     <1>27, <1>28, <1>29, <1>30
  DEF Next, Request, Work, Interruption, Damage
-----------------------------------------------------------------------------
(* What a manifest records *)

\* Appending a chunk adds its rows and leaves the others in place.
LEMMA RowsOfAppend ==
  ASSUME NEW m \in Manifest, NEW rows \in SUBSET Row
  PROVE  /\ Append(m, rows) \in Manifest /\ Len(Append(m, rows)) = Len(m) + 1
         /\ Len(m) \in Nat
         /\ \A i \in 1..Len(m) : Append(m, rows)[i] = m[i]
         /\ Append(m, rows)[Len(m) + 1] = rows
         /\ RowsOf(Append(m, rows)) = RowsOf(m) \union rows
<1>1. /\ Append(m, rows) \in Manifest /\ Len(Append(m, rows)) = Len(m) + 1
      /\ Len(m) \in Nat
      /\ \A i \in 1..Len(m) : Append(m, rows)[i] = m[i]
      /\ Append(m, rows)[Len(m) + 1] = rows
  BY AppendProperties, LenProperties DEF Manifest
<1>2. 1..(Len(m) + 1) = 1..Len(m) \union {Len(m) + 1}
  BY <1>1
<1>3. RowsOf(Append(m, rows)) = RowsOf(m) \union rows
  <2> DEFINE A == Append(m, rows)
             n == Len(m)
  <2>1. /\ Len(A) = n + 1 /\ 1..(n + 1) = 1..n \union {n + 1}
        /\ \A i \in 1..n : A[i] = m[i]
        /\ A[n + 1] = rows
    BY <1>1, <1>2
  <2>2. \A x : x \in RowsOf(A) <=> \E i \in 1..Len(A) : x \in A[i]
    BY DEF RowsOf
  <2>3. \A x : x \in RowsOf(m) <=> \E i \in 1..n : x \in m[i]
    BY DEF RowsOf
  <2> HIDE DEF A, n
  <2>4. \A x : x \in RowsOf(A) <=> x \in RowsOf(m) \/ x \in rows
    BY <2>1, <2>2, <2>3
  <2> QED BY <2>4 DEF A
<1> QED BY <1>1, <1>3

\* Flushing moves the pending rows into the manifest.
LEMMA RecordsFlush ==
  ASSUME NEW n \in Nat, NEW rows, NEW m \in Manifest, NEW p \in SUBSET Row,
         Records(n, rows, m, p)
  PROVE  Records(n, rows, Append(m, p), {})
<1> DEFINE A == Append(m, p)
<1>1. /\ Len(A) = Len(m) + 1 /\ Len(m) \in Nat
      /\ \A i \in 1..Len(m) : A[i] = m[i]
      /\ A[Len(m) + 1] = p
      /\ RowsOf(A) = RowsOf(m) \union p
  BY RowsOfAppend
<1> HIDE DEF A
<1>2. InOrder(A)
  <2> SUFFICES ASSUME NEW i \in 1..Len(A), NEW j \in 1..Len(A), i < j,
                      NEW r \in A[i], NEW q \in A[j]
               PROVE  r[1] < q[1]
    BY DEF InOrder
  <2>1. i \in 1..Len(m) /\ A[i] = m[i]
    BY <1>1
  <2>2. CASE j \in 1..Len(m)
    BY <2>1, <2>2, <1>1 DEF Records, InOrder
  <2>3. CASE j = Len(m) + 1
    <3>1. r \in RowsOf(m) /\ q \in p
      BY <2>1, <2>3, <1>1 DEF RowsOf
    <3> QED BY <3>1 DEF Records
  <2> QED BY <2>2, <2>3, <1>1
<1> QED BY <1>1, <1>2 DEF Records, A

\* The recorder's choice is the one the requested budgets promise.
LEMMA SelectedIsSampled ==
  ASSUME budget \in Budgets, step \in Nat, ~IsFinished(step)
  PROVE  Selected(step + 1) <=> Sampled(step + 1)
<1>1. budget \in Nat
  BY BudgetsAssumption DEF Step
<1>2. IsFinished(step + 1) <=> step + 1 = budget
  BY <1>1 DEF IsFinished
<1>3. CASE Extendable
  BY <1>3 DEF Selected, Sampled
<1>4. CASE ~Extendable
  <2>1. step + 1 \in Budgets <=> step + 1 = budget
    BY <1>4, FixedBudgetAssumption
  <2> QED BY <1>2, <1>4, <2>1 DEF Selected, Sampled
<1> QED BY <1>3, <1>4

\* One more step of the same life
LEMMA RecordsAdvance ==
  ASSUME NEW n \in Nat, NEW rows \in SUBSET Row, NEW m \in Manifest, NEW p \in SUBSET Row,
         Records(n, rows, m, p), NEW d \in Draws,
         NEW q, q = IF Sampled(n + 1) THEN p \union {<<n + 1, d>>} ELSE p
  PROVE  Records(n + 1, rows \union {<<n + 1, d>>}, m, q)
<1> DEFINE new == <<n + 1, d>>
<1>1. new[1] = n + 1
  OBVIOUS
<1>2. \A r \in rows : r[1] \in 1..n
  BY DEF Records, Timeline
<1>3. {r[1] : r \in rows} = 1..n
  BY DEF Records, Timeline
<1>4. \A r, s \in rows : r[1] = s[1] => r = s
  BY DEF Records, Timeline
<1> HIDE DEF new
<1>5. Timeline(rows \union {new}, n + 1)
  <2>1. {r[1] : r \in rows \union {new}} = 1..n \union {n + 1}
    BY <1>1, <1>3
  <2>2. 1..n \union {n + 1} = 1..(n + 1)
    OBVIOUS
  <2>3. \A r, s \in rows \union {new} : r[1] = s[1] => r = s
    BY <1>1, <1>2, <1>4
  <2> QED BY <2>1, <2>2, <2>3 DEF Timeline
<1>6. RowsOf(m) \union q = Kept(rows \union {new})
  <2>1. RowsOf(m) \union p = Kept(rows)
    BY DEF Records
  <2>2. Kept(rows \union {new}) =
          IF Sampled(n + 1) THEN Kept(rows) \union {new} ELSE Kept(rows)
    BY <1>1 DEF Kept
  <2> QED BY <2>1, <2>2 DEF new
<1>7. \A r \in RowsOf(m), s \in q : r[1] < s[1]
  <2>1. \A r \in RowsOf(m) : r \in rows
    BY DEF Records, Kept
  <2>2. \A r \in RowsOf(m) : r[1] < new[1]
    BY <1>1, <1>2, <2>1
  <2> QED BY <2>2 DEF Records, new
<1> QED BY <1>5, <1>6, <1>7 DEF Records, new

\* A manifest that records a life of n steps is exactly what a reader of n
\* steps is owed.
LEMMA RecordsExact ==
  ASSUME NEW n \in Nat, NEW rows, NEW m \in Manifest, Records(n, rows, m, {})
  PROVE  Exact(m, n)
<1>1. RowsOf(m) = Kept(rows) /\ InOrder(m)
  BY DEF Records
<1>2. {r[1] : r \in rows} = 1..n /\ \A r, q \in rows : r[1] = q[1] => r = q
  BY DEF Records, Timeline
<1>3. {r[1] : r \in RowsOf(m)} = {t \in 1..n : Sampled(t)}
  BY <1>1, <1>2 DEF Kept
<1>4. \A r, q \in RowsOf(m) : r[1] = q[1] => r = q
  BY <1>1, <1>2 DEF Kept
<1> QED BY <1>1, <1>3, <1>4 DEF Exact, InOrder
-----------------------------------------------------------------------------
(* What restore() picks *)

\* progress.json names generations only.
LEMMA ReferencedType ==
  ASSUME NEW p, Progress(p)
  PROVE  Referenced(p) \subseteq Generation
  BY ElementOfSeq DEF Referenced, Progress, Pinned

\* h is tried after g, or is pinned by a completed prefix.
Later(p, g, h) ==
  \/ \E a, b \in 1..Len(p.checkpoints) :
       a < b /\ g = p.checkpoints[a] /\ h = p.checkpoints[b]
  \/ \E s \in Pinned(p) : h = p.completed[s].checkpoint

\* The session continues a valid entry e that covers everything completed and
\* retains e, then entries tried after it.
Restored(e, q) ==
  /\ e \in Referenced(mem) /\ e \in Generation /\ Valid(e)
  /\ CoversCompleted(generations[e].step) /\ Load(generations[e])
  /\ q \in Seq(Generation) /\ q # <<>> /\ q[1] = e
  /\ mem' = [mem EXCEPT !.checkpoints = q]
  /\ \A k \in 1..Len(q) : q[k] \in Referenced(mem)
  /\ \A k, l \in 1..Len(q) : k < l => Later(mem, q[k], q[l])

\* restore() picks an entry, and retains it and later ones.
LEMMA RestoreFacts ==
  ASSUME TypeOK, Restore
  PROVE  \E e, q : Restored(e, q)
<1>1. PICK bad \in Undecodable, order \in LongestFirst(mem) :
        \E i \in 1..Len(Entries(mem, order)) :
          /\ Valid(Entries(mem, order)[i])
          /\ CoversCompleted(generations[Entries(mem, order)[i]].step)
          /\ mem' = [mem EXCEPT !.checkpoints = From(Entries(mem, order), i, Keep)]
          /\ Load(generations[Entries(mem, order)[i]])
  BY DEF Restore
<1> DEFINE entries == Entries(mem, order)
<1>2. PICK i \in 1..Len(entries) :
        /\ Valid(entries[i])
        /\ CoversCompleted(generations[entries[i]].step)
        /\ mem' = [mem EXCEPT !.checkpoints = From(entries, i, Keep)]
        /\ Load(generations[entries[i]])
  BY <1>1
<1> DEFINE q == From(entries, i, Keep)
           n == Len(mem.checkpoints)
<1>3. /\ entries \in Seq(Generation) /\ n <= Len(entries) /\ n \in Nat
      /\ \A k \in 1..Len(entries) :
           IF k <= n THEN entries[k] = mem.checkpoints[k]
           ELSE \E s \in Pinned(mem) : entries[k] = mem.completed[s].checkpoint
  <2>1. Progress(mem)
    BY DEF TypeOK
  <2>2. n \in Nat
    BY <2>1, LenProperties DEF Progress
  <2> QED BY <2>1, <2>2, EntriesSeq
<1> HIDE DEF entries
<1>4. /\ q \in Seq(Generation) /\ q # <<>> /\ q[1] = entries[i]
      /\ \A k \in 1..Len(q) : i + k - 1 \in 1..Len(entries) /\ q[k] = entries[i + k - 1]
  BY <1>3, FromSeq, KeepAssumption
<1>5. \A k \in 1..Len(entries) : entries[k] \in Referenced(mem)
  BY <1>3 DEF Referenced
<1>6. Len(q) \in Nat /\ Len(entries) \in Nat
  BY <1>3, <1>4, LenProperties
<1> HIDE DEF q
<1>7. ASSUME NEW k \in 1..Len(q), NEW l \in 1..Len(q), k < l
      PROVE  Later(mem, q[k], q[l])
  <2> DEFINE a == i + k - 1
             b == i + l - 1
  <2>1. a \in 1..Len(entries) /\ b \in 1..Len(entries) /\ a < b
        /\ q[k] = entries[a] /\ q[l] = entries[b]
    BY <1>4, <1>6, <1>7
  <2> HIDE DEF a, b
  <2>2. CASE b <= n
    <3>1. a \in 1..n /\ b \in 1..n /\ q[k] = mem.checkpoints[a] /\ q[l] = mem.checkpoints[b]
      BY <2>1, <2>2, <1>3
    <3> QED BY <2>1, <3>1 DEF Later
  <2>3. CASE ~(b <= n)
    BY <2>1, <2>3, <1>3 DEF Later
  <2> QED BY <2>2, <2>3
<1>8. entries[i] \in Generation
  BY <1>3, ElementOfSeq
<1>9. \A k \in 1..Len(q) : q[k] \in Referenced(mem)
  BY <1>4, <1>5
<1> QED BY <1>2, <1>4, <1>5, <1>7, <1>8, <1>9 DEF Restored, q

\* Whatever is tried after an entry that covers everything completed is no
\* further than that entry.
LEMMA LaterNotBeyond ==
  ASSUME TypeOK, InvMem, InvEntries, InvPinned, NewestFirst(mem), pc # "idle",
         NEW g \in Referenced(mem), NEW h, Later(mem, g, h), IsSealed(g),
         CoversCompleted(generations[g].step)
  PROVE  NotBeyond(h, generations[g].step, generations[g].results)
<1>1. mem.completed = progress.completed /\ Referenced(mem) \subseteq Referenced(progress)
  BY DEF InvMem
<1>2. CASE \E a, b \in 1..Len(mem.checkpoints) :
             a < b /\ g = mem.checkpoints[a] /\ h = mem.checkpoints[b]
  BY <1>2 DEF NewestFirst, CoversCompleted
<1>3. CASE \E s \in Pinned(mem) : h = mem.completed[s].checkpoint
  <2>1. PICK s \in Pinned(mem) : h = mem.completed[s].checkpoint
    BY <1>3
  <2>2. /\ s \in Pinned(progress) /\ s \in Completed(progress)
        /\ h = progress.completed[s].checkpoint
        /\ h \in Referenced(progress) /\ g \in Referenced(progress)
        /\ s <= generations[g].step
    BY <1>1, <2>1 DEF Pinned, Completed, Referenced, CoversCompleted
  <2>3. SUFFICES ASSUME IsSealed(h)
                 PROVE  /\ generations[h].step <= generations[g].step
                        /\ generations[h].step = generations[g].step =>
                             generations[h].results = generations[g].results
    BY DEF NotBeyond
  <2>4. generations[h].step = s
    BY <2>2, <2>3 DEF InvPinned
  <2>5. s \in Nat
    BY <2>2 DEF TypeOK, Progress
  <2>6. generations[h].results = progress.completed[s].results
    BY <2>2, <2>3, <2>4, <2>5 DEF InvEntries
  <2>7. generations[g].step = s => generations[g].results = progress.completed[s].results
    BY <2>2, <2>5 DEF InvEntries
  <2> QED BY <2>2, <2>4, <2>6, <2>7
<1> QED BY <1>2, <1>3 DEF Later
-----------------------------------------------------------------------------
(* Each part of the invariant is preserved *)

\* Steps that change neither files nor what the session holds
Quiet ==
  \/ \E b \in Budgets : Reuse(b)
  \/ CreateInstance \/ RestoreFails \/ Resume \/ Continue
  \/ CheckpointDone \/ FinalCheckpointDone \/ WriteFailure
\* Steps that end the session and change at most failure.json
Ending == PauseDone \/ ClearFailure \/ AbandonFailure \/ Crash
Opening == \E b \in Budgets : Open(b) \/ RejectCompletion(b)
Checkpointing == CheckpointDue \/ Pause \/ Finalize
\* Steps that leave something other than a sealed generation in a slot
Clearing(g) ==
  \/ MakeGeneration(g) \/ PruneGeneration(g) \/ RotGeneration(g)
  \/ Raise /\ pc = "writing" /\ g = gen

Stepping ==
  \/ UNCHANGED vars \/ Quiet \/ Ending \/ Opening \/ Restore \/ Initialize
  \/ \E f \in results : DiscardTail(f) \/ RotChunk(f)
  \/ \E d \in Draws : Advance(d)
  \/ Checkpointing
  \/ \E g \in Generation : Clearing(g)
  \/ Raise /\ pc # "writing"
  \/ SealGeneration \/ PublishCheckpoint \/ Finish \/ PublishFailure

\* The groups cover the next-state relation.
LEMMA NextIsStepping ==
  ASSUME TypeOK, [Next]_vars
  PROVE  Stepping
<1>1. CASE Request
  BY <1>1 DEF Request, Stepping, Quiet, Opening
<1>2. CASE Work
  BY <1>2 DEF Work, Stepping, Quiet, Ending, Clearing, Checkpointing
<1>3. CASE Interruption
  <2>1. ASSUME Raise, pc = "writing" PROVE \E g \in Generation : Clearing(g)
    BY <2>1 DEF Clearing, TypeOK
  <2> QED BY <1>3, <2>1 DEF Interruption, Stepping, Ending, Checkpointing
<1>4. CASE Damage
  BY <1>4 DEF Damage, Stepping, Clearing
<1> QED BY <1>1, <1>2, <1>3, <1>4 DEF Next, Stepping

\* A slot that is cleared was not, and is not, a sealed generation of interest.
LEMMA ClearingFacts ==
  ASSUME TypeOK, NEW g \in Generation, Clearing(g)
  PROVE  /\ \A h \in Generation : IsSealed(h)' => IsSealed(h) /\ generations'[h] = generations[h]
         /\ UNCHANGED <<progress, results, instance, budget,
                        mem, step, observed, chunks, buffer>>
         /\ pc' = pc \/ pc' \in {"writing", "raising"}
         /\ pc # "idle" \/ pc' = "idle"
  BY DEF Clearing, MakeGeneration, PruneGeneration, RotGeneration, Raise, IsSealed,
         Absent, Unusable, TypeOK, disk, session

\* Only SealGeneration seals a generation, and it seals what is flushed.
LEMMA InvGenerationsStep ==
  ASSUME IInv, Stepping
  PROVE  InvGenerations'
<1>1. CASE UNCHANGED generations
  BY <1>1 DEF IInv, InvGenerations, IsSealed
<1>2. ASSUME NEW g \in Generation, Clearing(g) PROVE InvGenerations'
  BY <1>2, ClearingFacts DEF IInv, InvGenerations
<1>3. CASE SealGeneration
  <2>1. Records(step, observed, chunks, {}) /\ gen \in Generation
    BY <1>3 DEF SealGeneration, IInv, InvSession, Active, Sessions, TypeOK
  <2>2. generations' = [generations EXCEPT ![gen] = Sealed(step, observed, chunks)]
    BY <1>3 DEF SealGeneration
  <2>3. ASSUME NEW g \in Generation, IsSealed(g)', g # gen
        PROVE  IsSealed(g) /\ generations'[g] = generations[g]
    BY <2>2, <2>3 DEF IsSealed
  <2>4. generations'[gen] = Sealed(step, observed, chunks)
    BY <2>1, <2>2 DEF IInv, TypeOK
  <2> QED BY <2>1, <2>3, <2>4 DEF IInv, InvGenerations, Sealed
<1>4. UNCHANGED generations \/ SealGeneration \/ \E g \in Generation : Clearing(g)
  BY DEF Stepping, Quiet, Ending, Opening, Checkpointing, vars, disk, session,
         Reuse, CreateInstance, RestoreFails, Resume, Continue, CheckpointDone,
         FinalCheckpointDone, WriteFailure, PauseDone, ClearFailure, AbandonFailure,
         Crash, Open, RejectCompletion, Restore, Initialize, DiscardTail, RotChunk,
         Advance, CheckpointDue, Pause, Finalize, BeginCheckpoint, Raise,
         PublishCheckpoint, CommitCheckpoint, Finish, PublishFailure
<1> QED BY <1>1, <1>2, <1>3, <1>4
\* The session changes its copy of progress.json and the file together.
LEMMA InvMemStep ==
  ASSUME IInv, Stepping
  PROVE  InvMem'
<1> USE DEF IInv, disk, session
<1>1. CASE Quiet
  BY <1>1 DEF Quiet, InvMem, Reuse, CreateInstance, RestoreFails, Resume, Continue,
              CheckpointDone, FinalCheckpointDone, Pruned, WriteFailure
<1>2. CASE Ending
  BY <1>2 DEF Ending, PauseDone, Pruned, ClearFailure, AbandonFailure, Crash, Return, Forget, InvMem
<1>3. CASE Opening
  BY <1>3 DEF Opening, Open, RejectCompletion, InvMem
<1>4. CASE Restore
  <2>1. PICK e, q : Restored(e, q)
    BY <1>4, RestoreFacts
  <2>2. Progress(mem) /\ pc = "opened" /\ pc' = "discarding" /\ UNCHANGED progress
    BY <1>4 DEF Restore, TypeOK
  <2>3. mem'.completed = mem.completed /\ mem'.checkpoints = q
    BY <2>1, <2>2 DEF Restored, Progress
  <2>4. Referenced(mem') \subseteq Referenced(mem)
    <3>1. Pinned(mem') = Pinned(mem)
      BY <2>3 DEF Pinned, Completed
    <3>2. \A g \in {q[i] : i \in 1..Len(q)} : g \in Referenced(mem)
      BY <2>1 DEF Restored
    <3>3. Referenced(mem') = {q[i] : i \in 1..Len(q)}
                              \union {mem.completed[s].checkpoint : s \in Pinned(mem)}
      BY <2>3, <3>1 DEF Referenced
    <3>4. {mem.completed[s].checkpoint : s \in Pinned(mem)} \subseteq Referenced(mem)
      BY DEF Referenced
    <3> QED BY <3>2, <3>3, <3>4
  <2> QED BY <2>2, <2>3, <2>4 DEF InvMem
<1>5. CASE Initialize
  <2>1. /\ mem' = [mem EXCEPT !.checkpoints = <<>>] /\ Progress(mem)
        /\ pc = "opened" /\ pc' = "discarding" /\ UNCHANGED progress
    BY <1>5 DEF Initialize, TypeOK
  <2>2. mem'.completed = mem.completed /\ mem'.checkpoints = <<>>
    BY <2>1 DEF Progress
  <2>3. Referenced(mem') \subseteq Referenced(mem)
    <3>1. Pinned(mem') = Pinned(mem) /\ Len(mem'.checkpoints) = 0
      BY <2>2, EmptySeq DEF Pinned, Completed
    <3> QED BY <2>2, <3>1 DEF Referenced
  <2> QED BY <2>1, <2>2, <2>3 DEF InvMem
<1>6. ASSUME NEW f \in results, DiscardTail(f) \/ RotChunk(f) PROVE InvMem'
  BY <1>6 DEF DiscardTail, RotChunk, InvMem
<1>7. ASSUME NEW d \in Draws, Advance(d) PROVE InvMem'
  BY <1>7 DEF Advance, InvMem
<1>8. CASE Checkpointing
  BY <1>8 DEF Checkpointing, CheckpointDue, Pause, Finalize, BeginCheckpoint, InvMem
<1>9. ASSUME NEW g \in Generation, Clearing(g) PROVE InvMem'
  BY <1>9 DEF Clearing, MakeGeneration, PruneGeneration, RotGeneration, Raise, InvMem
<1>10. CASE SealGeneration \/ Raise
  BY <1>10 DEF SealGeneration, Raise, InvMem
<1>11. CASE PublishCheckpoint \/ Finish
  BY <1>11 DEF PublishCheckpoint, CommitCheckpoint, Finish, InvMem
<1>12. CASE PublishFailure
  BY <1>12 DEF PublishFailure, Return, Forget, InvMem
<1>13. CASE UNCHANGED vars
  BY <1>13 DEF vars, InvMem
<1> QED
  BY <1>1, <1>2, <1>3, <1>4, <1>5, <1>6, <1>7, <1>8, <1>9, <1>10, <1>11, <1>12, <1>13
  DEF Stepping

\* A flush adds one file behind every chunk of what it extends.
LEMMA FlushFacts ==
  ASSUME TypeOK, NEW rows \in SUBSET Row, Flush(rows), Intact(chunks)
  PROVE  /\ Intact(chunks)' /\ buffer' = {}
         /\ rows = {} => chunks' = chunks
         /\ rows # {} => chunks' = Append(chunks, rows)
         /\ \A m \in Manifest : Prefix(m, chunks) =>
              Prefix(m, chunks') /\ (Intact(m) => Intact(m)')
<1>1. /\ Append(chunks, rows) \in Manifest /\ Len(Append(chunks, rows)) = Len(chunks) + 1
      /\ Len(chunks) \in Nat
      /\ \A i \in 1..Len(chunks) : Append(chunks, rows)[i] = chunks[i]
      /\ Append(chunks, rows)[Len(chunks) + 1] = rows
  BY RowsOfAppend DEF TypeOK
<1>2. CASE rows = {}
  BY <1>2 DEF Flush, Intact
<1>3. CASE rows # {}
  <2>1. /\ chunks' = Append(chunks, rows) /\ buffer' = {}
        /\ results' = {f \in results : f[1] # Len(chunks) + 1}
                         \union {<<Len(chunks) + 1, rows>>}
    BY <1>3 DEF Flush, NextFile
  <2>2. ASSUME NEW i \in 1..Len(chunks), NEW x, <<i, x>> \in results
        PROVE  <<i, x>> \in results'
    <3>1. i # Len(chunks) + 1 /\ <<i, x>>[1] = i
      BY <1>1
    <3> QED BY <2>1, <2>2, <3>1
  <2>3. Intact(chunks)'
    BY <1>1, <2>1, <2>2 DEF Intact
  <2>4. ASSUME NEW m \in Manifest, Prefix(m, chunks)
        PROVE  Prefix(m, chunks') /\ (Intact(m) => Intact(m)')
    <3>1. Len(m) \in Nat
      BY LenProperties DEF Manifest
    <3>2. \A i \in 1..Len(m) : i \in 1..Len(chunks)
      BY <3>1, <1>1, <2>4 DEF Prefix
    <3> QED BY <3>1, <3>2, <1>1, <2>1, <2>2, <2>4 DEF Prefix, Intact
  <2> QED BY <2>1, <2>3, <2>4, <1>3
<1> QED BY <1>2, <1>3

\* One protocol step records its observation and may flush the buffer.
LEMMA AdvanceFlush ==
  ASSUME IInv, NEW d \in Draws, Advance(d)
  PROVE  \E rows \in SUBSET Row :
           /\ rows = IF Sampled(step + 1) THEN buffer \union {<<step + 1, d>>} ELSE buffer
           /\ Records(step + 1, observed', chunks, rows)
           /\ Flush(rows) \/ (buffer' = rows /\ UNCHANGED <<results, chunks>>)
           /\ step' = step + 1 /\ pc = "loop" /\ pc' = "stepped"
<1>1. /\ budget \in Budgets /\ Records(step, observed, chunks, buffer)
      /\ pc = "loop" /\ pc' = "stepped" /\ step \in Nat /\ ~IsFinished(step)
      /\ chunks \in Manifest /\ buffer \in SUBSET Row /\ observed \in SUBSET Row
      /\ step' = step + 1 /\ observed' = observed \union {<<step + 1, d>>}
  BY DEF IInv, InvSession, Active, Sessions, Advance, TypeOK
<1> DEFINE rows == IF Selected(step + 1) THEN buffer \union {<<step + 1, d>>} ELSE buffer
<1>2. Selected(step + 1) <=> Sampled(step + 1)
  BY <1>1, SelectedIsSampled
<1>3. <<step + 1, d>> \in Row
  BY <1>1 DEF Row, Step
<1>4. rows \in SUBSET Row
  BY <1>1, <1>3
<1>5. rows = IF Sampled(step + 1) THEN buffer \union {<<step + 1, d>>} ELSE buffer
  BY <1>2
<1>6. Records(step + 1, observed', chunks, rows)
  BY <1>1, <1>5, RecordsAdvance
<1>7. Flush(rows) \/ (buffer' = rows /\ UNCHANGED <<results, chunks>>)
  BY DEF Advance
<1> HIDE DEF rows
<1> QED BY <1>1, <1>4, <1>5, <1>6, <1>7

\* A session loads, extends and flushes one life of the components.
LEMMA InvSessionStep ==
  ASSUME IInv, Stepping
  PROVE  InvSession'
<1> USE DEF IInv, disk, session
<1>1. CASE Quiet
  BY <1>1 DEF Quiet, InvSession, Reuse, CreateInstance, RestoreFails, Resume, Continue,
              CheckpointDone, FinalCheckpointDone, Pruned, WriteFailure, Active, Sessions, Intact
<1>2. CASE Ending \/ PublishFailure
  BY <1>2 DEF Ending, PauseDone, ClearFailure, AbandonFailure, Crash, PublishFailure,
              Return, Forget, InvSession, Active, Sessions
<1>3. CASE Opening
  BY <1>3 DEF Opening, Open, RejectCompletion, InvSession, Active, Sessions
<1>4. CASE Restore
  <2>1. PICK e, q : Restored(e, q)
    BY <1>4, RestoreFacts
  <2>2. /\ pc = "opened" /\ pc' = "discarding" /\ instance /\ budget \in Budgets
        /\ UNCHANGED <<results, instance, budget, buffer>>
    BY <1>4 DEF Restore, InvWriting
  <2>3. /\ step' = generations[e].step /\ observed' = generations[e].observed
        /\ chunks' = generations[e].results /\ Intact(generations[e].results)
        /\ Records(generations[e].step, generations[e].observed, generations[e].results, {})
    BY <2>1 DEF Restored, Load, Valid, InvGenerations, IsSealed
  <2>4. buffer' = {}
    BY <2>2 DEF InvMem
  <2>5. Intact(chunks)'
    BY <2>2, <2>3 DEF Intact
  <2> QED BY <2>2, <2>3, <2>4, <2>5 DEF InvSession
<1>5. CASE Initialize
  <2>1. /\ pc = "opened" /\ pc' = "discarding" /\ instance /\ budget \in Budgets
        /\ UNCHANGED <<results, instance, budget, buffer, step, observed, chunks>>
    BY <1>5 DEF Initialize, InvWriting
  <2>2. step = 0 /\ observed = {} /\ chunks = <<>> /\ buffer = {}
    BY <2>1 DEF InvMem
  <2>3. Len(<<>>) = 0 /\ RowsOf(<<>>) = {}
    BY EmptySeq DEF RowsOf
  <2>4. Records(0, {}, <<>>, {})
    BY <2>3 DEF Records, Timeline, InOrder, Kept
  <2>5. Intact(chunks)'
    BY <2>1, <2>2, <2>3 DEF Intact
  <2> QED BY <2>1, <2>2, <2>4, <2>5 DEF InvSession
<1>6. ASSUME NEW f \in results, DiscardTail(f) \/ RotChunk(f) PROVE InvSession'
  <2>1. CASE DiscardTail(f)
    <3>1. f[1] > Len(chunks) /\ results' = results \ {f} /\ Intact(chunks)
          /\ UNCHANGED <<pc, step, observed, chunks, buffer, instance, budget>>
      BY <2>1 DEF DiscardTail, Leftover, InvSession, Active, Sessions
    <3>2. Len(chunks) \in Nat
      BY LenProperties DEF TypeOK, Manifest
    <3>3. \A i \in 1..Len(chunks) : <<i, chunks[i]>> # f
      BY <3>1, <3>2
    <3>4. Intact(chunks)'
      BY <3>1, <3>3 DEF Intact
    <3> QED BY <3>1, <3>4 DEF InvSession
  <2>2. CASE RotChunk(f)
    BY <2>2 DEF RotChunk, InvSession, Active, Sessions
  <2> QED BY <1>6, <2>1, <2>2
<1>7. ASSUME NEW d \in Draws, Advance(d) PROVE InvSession'
  <2>1. PICK rows \in SUBSET Row :
           /\ Records(step + 1, observed', chunks, rows)
           /\ Flush(rows) \/ (buffer' = rows /\ UNCHANGED <<results, chunks>>)
           /\ step' = step + 1 /\ pc = "loop" /\ pc' = "stepped"
    BY <1>7, AdvanceFlush
  <2>2. Intact(chunks) /\ instance /\ budget \in Budgets /\ UNCHANGED <<instance, budget>>
        /\ chunks \in Manifest /\ step + 1 \in Nat
    BY <1>7 DEF Advance, InvSession, Active, Sessions, TypeOK
  <2>3. CASE Flush(rows)
    <3>1. /\ Intact(chunks)' /\ buffer' = {}
          /\ rows = {} => chunks' = chunks
          /\ rows # {} => chunks' = Append(chunks, rows)
      BY <2>2, <2>3, FlushFacts
    <3>2. Records(step + 1, observed', chunks', {})
      BY <2>1, <2>2, <3>1, RecordsFlush
    <3> QED BY <2>1, <2>2, <3>1, <3>2 DEF InvSession
  <2>4. CASE buffer' = rows /\ UNCHANGED <<results, chunks>>
    <3>1. Intact(chunks)'
      BY <2>2, <2>4 DEF Intact
    <3> QED BY <2>1, <2>2, <2>4, <3>1 DEF InvSession
  <2> QED BY <2>1, <2>3, <2>4
<1>8. CASE Checkpointing
  <2>1. /\ Flush(buffer) /\ pc' = "flushed" /\ UNCHANGED <<step, observed, instance, budget>>
        /\ pc \in {"loop", "stepped"}
    BY <1>8 DEF Checkpointing, CheckpointDue, Pause, Finalize, BeginCheckpoint
  <2>2. /\ Intact(chunks) /\ instance /\ budget \in Budgets /\ chunks \in Manifest
        /\ Records(step, observed, chunks, buffer) /\ buffer \in SUBSET Row /\ step \in Nat
    BY <2>1 DEF InvSession, Active, Sessions, TypeOK
  <2>3. /\ Intact(chunks)' /\ buffer' = {}
        /\ buffer = {} => chunks' = chunks
        /\ buffer # {} => chunks' = Append(chunks, buffer)
    BY <2>1, <2>2, FlushFacts
  <2>4. Records(step, observed, chunks', {})
    BY <2>2, <2>3, RecordsFlush
  <2> QED BY <2>1, <2>2, <2>3, <2>4 DEF InvSession
<1>9. ASSUME NEW g \in Generation, Clearing(g) PROVE InvSession'
  BY <1>9 DEF Clearing, MakeGeneration, PruneGeneration, RotGeneration, Raise,
              InvSession, Active, Sessions, Intact
<1>10. CASE SealGeneration \/ (Raise /\ pc # "writing") \/ PublishCheckpoint \/ Finish
  BY <1>10 DEF SealGeneration, Raise, PublishCheckpoint, CommitCheckpoint, Finish,
               InvSession, Active, Sessions, Intact
<1>11. CASE UNCHANGED vars
  BY <1>11 DEF vars, InvSession, Intact
<1> QED
  BY <1>1, <1>2, <1>3, <1>4, <1>5, <1>6, <1>7, <1>8, <1>9, <1>10, <1>11
  DEF Stepping
\* A session resumes at or beyond every completed prefix and only appends.
LEMMA InvCoversStep ==
  ASSUME IInv, Stepping
  PROVE  InvCovers'
<1> USE DEF IInv, disk, session
<1> DEFINE M(s) == progress.completed[s].results
<1>1. ASSUME UNCHANGED <<progress, step, chunks, buffer>>,
             pc \in Active \/ pc' \notin Active
      PROVE  InvCovers'
  BY <1>1 DEF InvCovers
<1>2. CASE Ending \/ PublishFailure \/ Opening
  BY <1>2 DEF Ending, PauseDone, ClearFailure, AbandonFailure, Crash, PublishFailure, Opening,
              Open, RejectCompletion, Return, Forget, InvCovers, Active, Sessions
<1>3. CASE Restore
  <2>1. PICK e, q : Restored(e, q)
    BY <1>3, RestoreFacts
  <2>2. /\ mem.completed = progress.completed /\ Referenced(mem) \subseteq Referenced(progress)
        /\ buffer = {} /\ UNCHANGED <<progress, buffer>>
    BY <1>3 DEF Restore, InvMem
  <2>3. /\ e \in Referenced(progress) /\ IsSealed(e)
        /\ step' = generations[e].step /\ chunks' = generations[e].results
        /\ \A s \in Completed(progress) : s <= generations[e].step
    BY <2>1, <2>2 DEF Restored, Load, Valid, IsSealed, CoversCompleted, Completed
  <2>4. \A s \in Completed(progress) :
          Prefix(M(s), generations[e].results)
          /\ (generations[e].step = s => generations[e].results = M(s))
    BY <2>3 DEF InvEntries
  <2> QED BY <2>2, <2>3, <2>4 DEF InvCovers
<1>4. CASE Initialize
  <2>1. \A s \in Completed(progress) : s <= 0
    BY <1>4 DEF Initialize, CoversCompleted, InvMem, Completed
  <2>2. /\ step = 0 /\ chunks = <<>> /\ buffer = {} /\ pc = "opened"
        /\ UNCHANGED <<progress, step, chunks, buffer>>
    BY <1>4 DEF Initialize, InvMem
  <2>3. Completed(progress) = {}
    BY <2>1 DEF InvFinal, TypeOK, Progress
  <2> QED BY <2>2, <2>3 DEF InvCovers
<1>5. ASSUME NEW d \in Draws, Advance(d) PROVE InvCovers'
  <2>1. PICK rows \in SUBSET Row :
           /\ Flush(rows) \/ (buffer' = rows /\ UNCHANGED <<results, chunks>>)
           /\ step' = step + 1 /\ pc = "loop" /\ pc' = "stepped"
    BY <1>5, AdvanceFlush
  <2>2. Intact(chunks) /\ UNCHANGED progress /\ step \in Nat
    BY <1>5, <2>1 DEF Advance, InvSession, Active, Sessions, TypeOK
  <2>3. ASSUME NEW s \in Completed(progress)
        PROVE  s \in Nat /\ M(s) \in Manifest /\ s <= step /\ Prefix(M(s), chunks)
    BY <2>1, <2>3 DEF InvCovers, Active, Sessions, TypeOK, Progress
  <2>4. ASSUME NEW s \in Completed(progress) PROVE Prefix(M(s), chunks')
    BY <2>1, <2>2, <2>3, FlushFacts
  <2> QED BY <2>1, <2>2, <2>3, <2>4 DEF InvCovers
<1>6. CASE Checkpointing
  <2>1. /\ Flush(buffer) /\ pc' = "flushed" /\ UNCHANGED <<step, progress>>
        /\ pc \in Active
    BY <1>6 DEF Checkpointing, CheckpointDue, Pause, Finalize, BeginCheckpoint, Active, Sessions
  <2>2. Intact(chunks) /\ buffer \in SUBSET Row
    BY <2>1 DEF InvSession, TypeOK
  <2>3. /\ buffer' = {}
        /\ buffer = {} => chunks' = chunks
        /\ \A m \in Manifest : Prefix(m, chunks) => Prefix(m, chunks')
    BY <2>1, <2>2, FlushFacts
  <2>4. ASSUME NEW s \in Completed(progress)
        PROVE  /\ M(s) \in Manifest /\ s <= step /\ Prefix(M(s), chunks)
               /\ s = step => M(s) = chunks /\ buffer = {}
    BY <2>1, <2>4 DEF InvCovers, TypeOK, Progress
  <2> QED BY <2>1, <2>3, <2>4 DEF InvCovers
<1>7. CASE Finish
  <2>1. /\ pc = "finishing" /\ buffer = {} /\ step \in Nat /\ chunks \in Manifest
        /\ progress' = mem' /\ UNCHANGED <<step, chunks, buffer>>
        /\ mem'.completed = WithCompletion(mem) /\ mem.completed = progress.completed
    BY <1>7 DEF Finish, InvSession, InvMem, Active, Sessions, TypeOK, Progress
  <2>2. ASSUME NEW s \in Completed(progress')
        PROVE  IF s = step THEN progress'.completed[s].results = chunks
               ELSE s \in Completed(progress) /\ progress'.completed[s] = progress.completed[s]
    BY <2>1 DEF WithCompletion, Completion, Completed
  <2>3. Prefix(chunks, chunks)
    BY LenProperties, <2>1 DEF Prefix, Manifest
  <2> QED BY <2>1, <2>2, <2>3 DEF InvCovers, Active, Sessions
<1>8. CASE PublishCheckpoint
  <2>1. /\ UNCHANGED <<step, chunks, buffer>> /\ pc \in Active
        /\ progress'.completed = progress.completed
    BY <1>8 DEF PublishCheckpoint, CommitCheckpoint, InvMem, Active, Sessions, TypeOK, Progress
  <2> QED BY <2>1 DEF InvCovers, Completed
<1>9. \/ UNCHANGED <<progress, step, chunks, buffer>> /\ (pc \in Active \/ pc' \notin Active)
      \/ Ending \/ PublishFailure \/ Opening \/ Restore \/ Initialize
      \/ \E d \in Draws : Advance(d)
      \/ Checkpointing \/ Finish \/ PublishCheckpoint
  BY DEF Stepping, Quiet, vars, Reuse, CreateInstance, RestoreFails, Resume, Continue,
         CheckpointDone, FinalCheckpointDone, Pruned, WriteFailure, DiscardTail, RotChunk,
         Clearing, MakeGeneration, PruneGeneration, RotGeneration, Raise, SealGeneration,
         Active, Sessions
<1> QED BY <1>1, <1>2, <1>3, <1>4, <1>5, <1>6, <1>7, <1>8, <1>9

\* Publishing a checkpoint adds it to what is referenced and completes nothing.
LEMMA PublishFacts ==
  ASSUME IInv, PublishCheckpoint
  PROVE  /\ pc = "sealed" /\ pc' = "pruning" /\ gen \in Generation
         /\ progress' = mem' /\ mem'.completed = mem.completed
         /\ mem.completed = progress.completed
         /\ Referenced(mem') \subseteq Referenced(mem) \union {gen}
         /\ Referenced(mem) \subseteq Referenced(progress)
         /\ mem'.checkpoints # <<>> /\ mem'.checkpoints[1] = gen
         /\ \A i \in 1..Len(mem'.checkpoints) : i > 1 =>
              /\ i - 1 \in 1..Len(mem.checkpoints)
              /\ mem'.checkpoints[i] = mem.checkpoints[i - 1]
         /\ UNCHANGED <<generations, results, failure, instance, budget, outcome,
                        step, observed, chunks, buffer, cause, gen>>
<1> USE DEF IInv
<1> DEFINE q == Take(<<gen>> \o mem.checkpoints, Keep)
<1>1. /\ pc = "sealed" /\ pc' = "pruning" /\ gen \in Generation /\ progress' = mem'
      /\ Progress(mem) /\ mem.completed = progress.completed
      /\ Referenced(mem) \subseteq Referenced(progress)
      /\ UNCHANGED <<generations, results, failure, instance, budget, outcome,
                     step, observed, chunks, buffer, cause, gen>>
  BY DEF PublishCheckpoint, CommitCheckpoint, TypeOK, InvMem
<1>2. /\ q \in Seq(Generation) /\ q # <<>> /\ q[1] = gen
      /\ \A i \in 1..Len(q) : i > 1 =>
           i - 1 \in 1..Len(mem.checkpoints) /\ q[i] = mem.checkpoints[i - 1]
  BY <1>1, PublishedSeq
<1>3. mem'.completed = mem.completed /\ mem'.checkpoints = q
  BY <1>1 DEF PublishCheckpoint, CommitCheckpoint, Progress
<1> HIDE DEF q
<1>4. Referenced(mem') \subseteq Referenced(mem) \union {gen}
  <2>1. Pinned(mem') = Pinned(mem)
    BY <1>3 DEF Pinned, Completed
  <2>2. \A i \in 1..Len(q) : q[i] \in Referenced(mem) \union {gen}
    <3> TAKE i \in 1..Len(q)
    <3>1. Len(q) \in Nat
      BY <1>2, LenProperties
    <3>2. i = 1 \/ i > 1
      BY <3>1
    <3> QED BY <1>2, <3>2 DEF Referenced
  <2> QED BY <1>3, <2>1, <2>2 DEF Referenced
<1> QED BY <1>1, <1>2, <1>3, <1>4

\* Finishing adds the prefix of the current step, pinned at the checkpoint just
\* published.
LEMMA FinishFacts ==
  ASSUME IInv, Finish
  PROVE  /\ pc = "finishing" /\ pc' = "completing" /\ buffer = {}
         /\ progress' = mem' /\ mem'.checkpoints = mem.checkpoints
         /\ mem.completed = progress.completed
         /\ mem.checkpoints # <<>> /\ mem.checkpoints[1] = gen /\ gen \in Generation
         /\ Completed(progress') = Completed(progress) \union {step}
         /\ progress'.completed[step] = [results |-> chunks, checkpoint |-> gen]
         /\ \A s \in Completed(progress) : s # step =>
              progress'.completed[s] = progress.completed[s]
         /\ Referenced(mem') \subseteq Referenced(mem)
         /\ Referenced(mem) \subseteq Referenced(progress)
         /\ UNCHANGED <<generations, results, failure, instance, budget, outcome,
                        step, observed, chunks, buffer, cause, gen>>
<1> USE DEF IInv
<1>1. /\ pc = "finishing" /\ pc' = "completing" /\ progress' = mem'
      /\ Progress(mem) /\ mem.completed = progress.completed
      /\ mem.checkpoints # <<>> /\ mem.checkpoints[1] = gen /\ gen \in Generation
      /\ Referenced(mem) \subseteq Referenced(progress)
      /\ UNCHANGED <<generations, results, failure, instance, budget, outcome,
                     step, observed, chunks, buffer, cause, gen>>
  BY DEF Finish, TypeOK, InvMem, InvWriting
<1>2. buffer = {}
  BY <1>1 DEF InvSession, Active, Sessions
<1>3. mem'.checkpoints = mem.checkpoints /\ mem'.completed = WithCompletion(mem)
  BY <1>1 DEF Finish, Progress
<1>4. Completion(mem) = [results |-> chunks, checkpoint |-> gen]
  BY <1>1 DEF Completion
<1>5. /\ Completed(progress') = Completed(progress) \union {step}
      /\ progress'.completed[step] = [results |-> chunks, checkpoint |-> gen]
      /\ \A s \in Completed(progress) : s # step =>
           progress'.completed[s] = progress.completed[s]
  BY <1>1, <1>3, <1>4 DEF WithCompletion, Completed
<1>6. Referenced(mem') \subseteq Referenced(mem)
  <2>1. gen \in Referenced(mem)
    <3>1. Len(mem.checkpoints) \in Nat /\ Len(mem.checkpoints) # 0
      BY <1>1, LenProperties, EmptySeq DEF Progress
    <3> QED BY <1>1, <3>1 DEF Referenced
  <2>2. \A s \in Pinned(mem') : mem'.completed[s].checkpoint \in Referenced(mem)
    <3> TAKE s \in Pinned(mem')
    <3>1. CASE s = step
      BY <1>1, <1>5, <2>1, <3>1
    <3>2. CASE s # step
      BY <1>1, <1>5, <3>2 DEF Pinned, Completed, Referenced
    <3> QED BY <3>1, <3>2
  <2> QED BY <1>3, <2>2 DEF Referenced
<1> QED BY <1>1, <1>2, <1>3, <1>5, <1>6

\* Publishing a failure names nothing new.
LEMMA FailureFacts ==
  ASSUME IInv, PublishFailure
  PROVE  /\ pc' = "idle" /\ progress'.completed = progress.completed
         /\ progress'.checkpoints = mem.checkpoints
         /\ progress'.completed = mem.completed
         /\ Referenced(progress') \subseteq Referenced(progress)
         /\ UNCHANGED <<generations, results, failure, instance>>
<1>1. /\ pc = "failing" /\ pc' = "idle" /\ progress' = [mem EXCEPT !.status = "failed"]
      /\ UNCHANGED <<generations, results, failure, instance>>
      /\ Progress(mem) /\ mem.completed = progress.completed
      /\ Referenced(mem) \subseteq Referenced(progress)
  BY DEF PublishFailure, Return, Forget, IInv, TypeOK, InvMem
<1>2. progress'.completed = mem.completed /\ progress'.checkpoints = mem.checkpoints
  BY <1>1 DEF Progress
<1>3. Referenced(progress') = Referenced(mem)
  BY <1>2 DEF Referenced, Pinned, Completed
<1> QED BY <1>1, <1>2, <1>3

\* A checkpoint at or beyond a completed prefix extends it.
LEMMA InvEntriesStep ==
  ASSUME IInv, Stepping
  PROVE  InvEntries'
<1> USE DEF IInv
<1>1. ASSUME UNCHANGED <<progress, generations>> PROVE InvEntries'
  BY <1>1 DEF InvEntries, IsSealed
<1>2. ASSUME NEW g \in Generation, Clearing(g) PROVE InvEntries'
  <2>1. Referenced(progress) \subseteq Generation
    BY ReferencedType DEF TypeOK
  <2> QED BY <1>2, <2>1, ClearingFacts DEF InvEntries
<1>3. CASE SealGeneration
  <2>1. /\ gen \notin Referenced(progress) /\ UNCHANGED progress
        /\ generations' = [generations EXCEPT ![gen] = Sealed(step, observed, chunks)]
    BY <1>3 DEF SealGeneration, InvWriting
  <2>2. \A g \in Referenced(progress) : generations'[g] = generations[g]
    <3>1. Referenced(progress) \subseteq Generation /\ DOMAIN generations = Generation
      BY ReferencedType DEF TypeOK
    <3> QED BY <2>1, <3>1
  <2> QED BY <2>1, <2>2 DEF InvEntries, IsSealed
<1>4. CASE PublishCheckpoint
  <2>1. ASSUME NEW s \in Completed(progress)
        PROVE  Prefix(progress.completed[s].results, chunks)
               /\ (s = step => progress.completed[s].results = chunks)
    BY <1>4, PublishFacts, <2>1 DEF InvCovers, Active, Sessions
  <2>2. IsSealed(gen) => generations[gen].step = step /\ generations[gen].results = chunks
    BY <1>4, PublishFacts DEF InvWriting
  <2>3. /\ progress'.completed = progress.completed /\ UNCHANGED generations
        /\ \A g \in Referenced(progress') : g = gen \/ g \in Referenced(progress)
    BY <1>4, PublishFacts
  <2>4. Completed(progress') = Completed(progress)
    BY <2>3 DEF Completed
  <2> SUFFICES ASSUME NEW g \in Referenced(progress'), NEW s \in Completed(progress),
                      IsSealed(g), s <= generations[g].step
               PROVE  LET e == generations[g]  m == progress.completed[s].results IN
                      Prefix(m, e.results) /\ (e.step = s => e.results = m)
    BY <2>3, <2>4 DEF InvEntries, IsSealed
  <2>5. CASE g = gen
    BY <2>1, <2>2, <2>5
  <2>6. CASE g \in Referenced(progress)
    BY <2>6 DEF InvEntries
  <2> QED BY <2>3, <2>5, <2>6
<1>5. CASE Finish
  <2>1. ASSUME NEW g \in Referenced(progress'), IsSealed(g), step <= generations[g].step
        PROVE  generations[g].results = chunks
    <3>1. g \in Referenced(mem) /\ g \in Generation
      BY <1>5, FinishFacts, ReferencedType DEF TypeOK
    <3>2. NotBeyond(g, step, chunks)
      BY <1>5, FinishFacts, <3>1 DEF InvBehind, Active, Sessions
    <3>3. generations[g].step \in Nat /\ step \in Nat
      BY <2>1, <3>1, SealedType DEF TypeOK
    <3> QED BY <2>1, <3>2, <3>3 DEF NotBeyond
  <2>2. chunks \in Manifest /\ Prefix(chunks, chunks)
    BY LenProperties DEF TypeOK, Manifest, Prefix
  <2>3. ASSUME NEW g \in Referenced(progress'), NEW s \in Completed(progress'),
               IsSealed(g), s <= generations[g].step
        PROVE  LET e == generations[g]  m == progress'.completed[s].results IN
               Prefix(m, e.results) /\ (e.step = s => e.results = m)
    <3>1. CASE s = step
      BY <1>5, FinishFacts, <2>1, <2>2, <2>3, <3>1
    <3>2. CASE s # step
      BY <1>5, FinishFacts, <2>3, <3>2 DEF InvEntries
    <3> QED BY <3>1, <3>2
  <2> QED BY <1>5, FinishFacts, <2>3 DEF InvEntries, IsSealed
<1>6. CASE PublishFailure
  BY <1>6, FailureFacts DEF InvEntries, IsSealed, Completed
<1>7. \/ UNCHANGED <<progress, generations>>
      \/ \E g \in Generation : Clearing(g)
      \/ SealGeneration \/ PublishCheckpoint \/ Finish \/ PublishFailure
  BY DEF Stepping, Quiet, vars, Reuse, CreateInstance, RestoreFails, Resume, Continue,
         CheckpointDone, FinalCheckpointDone, WriteFailure, DiscardTail, RotChunk, Raise,
         Ending, PauseDone, ClearFailure, AbandonFailure, Crash, Opening, Open,
         RejectCompletion, Restore, Initialize, Advance, Checkpointing, CheckpointDue,
         Pause, Finalize, BeginCheckpoint, disk, session
<1> QED BY <1>1, <1>2, <1>3, <1>4, <1>5, <1>6, <1>7

\* A completed prefix pins the checkpoint of its own step.
LEMMA InvPinnedStep ==
  ASSUME IInv, Stepping
  PROVE  InvPinned'
<1> USE DEF IInv
<1>1. ASSUME UNCHANGED <<progress, generations>> PROVE InvPinned'
  BY <1>1 DEF InvPinned, IsSealed
<1>0. \A s \in Pinned(progress) :
        progress.completed[s].checkpoint \in Referenced(progress) \intersect Generation
  BY DEF Pinned, Referenced, TypeOK, Progress
<1>2. ASSUME NEW g \in Generation, Clearing(g) PROVE InvPinned'
  BY <1>0, <1>2, ClearingFacts DEF InvPinned
<1>3. CASE SealGeneration
  <2>1. /\ gen \notin Referenced(progress) /\ UNCHANGED progress
        /\ generations' = [generations EXCEPT ![gen] = Sealed(step, observed, chunks)]
        /\ DOMAIN generations = Generation
    BY <1>3 DEF SealGeneration, InvWriting, TypeOK
  <2> QED BY <1>0, <2>1 DEF InvPinned, IsSealed
<1>4. CASE PublishCheckpoint \/ PublishFailure
  <2>1. progress'.completed = progress.completed /\ UNCHANGED generations
    BY <1>4, PublishFacts, FailureFacts
  <2> QED BY <2>1 DEF InvPinned, Pinned, Completed, IsSealed
<1>5. CASE Finish
  <2>1. IsSealed(gen) => generations[gen].step = step
    BY <1>5, FinishFacts DEF InvWriting
  <2>2. ASSUME NEW s \in Pinned(progress'),
               IsSealed(progress'.completed[s].checkpoint)
        PROVE  generations[progress'.completed[s].checkpoint].step = s
    <3>1. CASE s = step
      BY <1>5, FinishFacts, <2>1, <2>2, <3>1
    <3>2. CASE s # step
      BY <1>5, FinishFacts, <2>2, <3>2 DEF InvPinned, Pinned
    <3> QED BY <3>1, <3>2
  <2> QED BY <1>5, FinishFacts, <2>2 DEF InvPinned, IsSealed
<1>7. \/ UNCHANGED <<progress, generations>>
      \/ \E g \in Generation : Clearing(g)
      \/ SealGeneration \/ PublishCheckpoint \/ Finish \/ PublishFailure
  BY DEF Stepping, Quiet, vars, Reuse, CreateInstance, RestoreFails, Resume, Continue,
         CheckpointDone, FinalCheckpointDone, WriteFailure, DiscardTail, RotChunk, Raise,
         Ending, PauseDone, ClearFailure, AbandonFailure, Crash, Opening, Open,
         RejectCompletion, Restore, Initialize, Advance, Checkpointing, CheckpointDue,
         Pause, Finalize, BeginCheckpoint, disk, session
<1> QED BY <1>1, <1>2, <1>3, <1>4, <1>5, <1>7

\* Fallbacks and publications keep the retained checkpoints newest first.
LEMMA InvOrderStep ==
  ASSUME IInv, Stepping
  PROVE  InvOrder'
<1> USE DEF IInv
<1>0. /\ Progress(progress) /\ Progress(mem) /\ DOMAIN generations = Generation
      /\ NewestFirst(progress) /\ (pc # "idle" => NewestFirst(mem))
      /\ \A i \in 1..Len(progress.checkpoints) :
           progress.checkpoints[i] \in Referenced(progress) \intersect Generation
      /\ \A i \in 1..Len(mem.checkpoints) :
           mem.checkpoints[i] \in Referenced(mem) \intersect Generation
  BY ReferencedType DEF TypeOK, InvOrder, Referenced
<1>1. ASSUME UNCHANGED <<progress, generations>>,
             (UNCHANGED mem /\ pc # "idle") \/ pc' = "idle" \/ mem' = progress
      PROVE  InvOrder'
  <2>1. NewestFirst(progress)'
    BY <1>0, <1>1 DEF NewestFirst, NotBeyond, IsSealed
  <2>2. UNCHANGED mem /\ pc # "idle" => NewestFirst(mem)'
    BY <1>0, <1>1 DEF NewestFirst, NotBeyond, IsSealed
  <2>3. mem' = progress => NewestFirst(mem)'
    BY <1>0, <1>1 DEF NewestFirst, NotBeyond, IsSealed
  <2> QED BY <1>1, <2>1, <2>2, <2>3 DEF InvOrder
<1>2. ASSUME NEW g \in Generation, Clearing(g) PROVE InvOrder'
  <2>1. /\ \A h \in Generation : IsSealed(h)' => IsSealed(h) /\ generations'[h] = generations[h]
        /\ UNCHANGED <<progress, mem>> /\ (pc # "idle" \/ pc' = "idle")
    BY <1>2, ClearingFacts
  <2>2. NewestFirst(progress)'
    BY <1>0, <2>1 DEF NewestFirst, NotBeyond
  <2>3. pc' # "idle" => NewestFirst(mem)'
    BY <1>0, <2>1 DEF NewestFirst, NotBeyond
  <2> QED BY <2>2, <2>3 DEF InvOrder
<1>3. CASE SealGeneration
  <2>1. /\ gen \notin Referenced(progress) /\ UNCHANGED <<progress, mem>> /\ pc # "idle"
        /\ generations' = [generations EXCEPT ![gen] = Sealed(step, observed, chunks)]
    BY <1>3 DEF SealGeneration, InvWriting, session
  <2>2. Referenced(mem) \subseteq Referenced(progress)
    BY <2>1 DEF InvMem
  <2>3. \A g \in Referenced(progress) \intersect Generation : generations'[g] = generations[g]
    BY <1>0, <2>1
  <2>4. NewestFirst(progress)'
    BY <1>0, <2>1, <2>3 DEF NewestFirst, NotBeyond, IsSealed
  <2>5. NewestFirst(mem)'
    BY <1>0, <2>1, <2>2, <2>3 DEF NewestFirst, NotBeyond, IsSealed
  <2> QED BY <2>4, <2>5 DEF InvOrder
<1>4. CASE Restore
  <2>1. PICK e, q : Restored(e, q)
    BY <1>4, RestoreFacts
  <2>2. pc # "idle" /\ UNCHANGED <<progress, generations>>
    BY <1>4 DEF Restore, disk
  <2>3. mem'.checkpoints = q /\ mem'.completed = mem.completed
    BY <1>0, <2>1 DEF Restored, Progress
  <2>4. NewestFirst(mem')
    <3> SUFFICES ASSUME NEW i \in 1..Len(q), NEW j \in 1..Len(q), i < j, IsSealed(q[i]),
                        \A s \in Completed(mem) : s <= generations[q[i]].step
                 PROVE  NotBeyond(q[j], generations[q[i]].step, generations[q[i]].results)
      BY <2>3 DEF NewestFirst, Completed
    <3>1. q[i] \in Referenced(mem) /\ Later(mem, q[i], q[j])
      BY <2>1 DEF Restored
    <3> QED BY <1>0, <2>2, <3>1, LaterNotBeyond DEF CoversCompleted
  <2>5. NewestFirst(mem)' /\ NewestFirst(progress)'
    BY <1>0, <2>2, <2>4 DEF NewestFirst, NotBeyond, IsSealed
  <2> QED BY <2>5 DEF InvOrder
<1>5. CASE Initialize
  <2>1. mem'.checkpoints = <<>> /\ UNCHANGED <<progress, generations>>
    BY <1>0, <1>5 DEF Initialize, Progress, disk
  <2>2. Len(mem'.checkpoints) = 0
    BY <2>1, EmptySeq
  <2>3. NewestFirst(progress)' /\ NewestFirst(mem)'
    BY <1>0, <2>1, <2>2 DEF NewestFirst, NotBeyond, IsSealed
  <2> QED BY <2>3 DEF InvOrder
<1>6. CASE PublishCheckpoint
  <2>1. NewestFirst(mem) /\ Completed(mem') = Completed(mem)
    BY <1>0, <1>6, PublishFacts DEF Completed
  <2>2. IsSealed(gen) => generations[gen].step = step /\ generations[gen].results = chunks
    BY <1>6, PublishFacts DEF InvWriting
  <2>3. \A g \in Referenced(mem) : NotBeyond(g, step, chunks)
    BY <1>6, PublishFacts DEF InvBehind, Active, Sessions
  <2>4. Len(mem.checkpoints) \in Nat /\ Len(mem'.checkpoints) \in Nat
    BY <1>0, <1>6, TypeStep, LenProperties DEF Progress, TypeOK, Next, Work
  <2>5. NewestFirst(mem')
    <3> DEFINE q == mem'.checkpoints
    <3> SUFFICES ASSUME NEW i \in 1..Len(q), NEW j \in 1..Len(q), i < j, IsSealed(q[i]),
                        \A s \in Completed(mem) : s <= generations[q[i]].step
                 PROVE  NotBeyond(q[j], generations[q[i]].step, generations[q[i]].results)
      BY <2>1 DEF NewestFirst
    <3>1. q[j] = mem.checkpoints[j - 1] /\ j - 1 \in 1..Len(mem.checkpoints)
      BY <1>6, PublishFacts, <2>4
    <3>2. CASE i = 1
      <4>1. q[i] = gen /\ q[j] \in Referenced(mem)
        BY <1>0, <1>6, PublishFacts, <3>1, <3>2
      <4> QED BY <2>2, <2>3, <4>1
    <3>3. CASE i > 1
      <4>1. q[i] = mem.checkpoints[i - 1] /\ i - 1 \in 1..Len(mem.checkpoints)
            /\ i - 1 < j - 1
        BY <1>6, PublishFacts, <2>4, <3>3
      <4> QED BY <2>1, <3>1, <4>1 DEF NewestFirst
    <3> QED BY <2>4, <3>2, <3>3
  <2>6. NewestFirst(mem)' /\ progress' = mem'
    BY <1>6, PublishFacts, <2>5 DEF NewestFirst, NotBeyond, IsSealed
  <2>7. NewestFirst(progress)'
    BY <2>6 DEF NewestFirst
  <2> QED BY <2>6, <2>7 DEF InvOrder
<1>7. CASE Finish
  <2>1. /\ NewestFirst(mem) /\ mem'.checkpoints = mem.checkpoints
        /\ Completed(mem) \subseteq Completed(mem')
        /\ progress' = mem' /\ UNCHANGED generations
    BY <1>0, <1>7, FinishFacts DEF Completed
  <2>2. NewestFirst(mem)' /\ NewestFirst(progress)'
    BY <2>1 DEF NewestFirst, NotBeyond, IsSealed
  <2> QED BY <2>2 DEF InvOrder
<1>8. CASE PublishFailure
  <2>1. NewestFirst(mem) /\ pc' = "idle"
    BY <1>0, <1>8, FailureFacts DEF PublishFailure
  <2>2. NewestFirst(progress)'
    BY <1>8, <2>1, FailureFacts DEF NewestFirst, NotBeyond, IsSealed, Completed
  <2> QED BY <2>1, <2>2 DEF InvOrder
<1>9. \/ /\ UNCHANGED <<progress, generations>>
         /\ (UNCHANGED mem /\ pc # "idle") \/ pc' = "idle" \/ mem' = progress
      \/ \E g \in Generation : Clearing(g)
      \/ SealGeneration \/ Restore \/ Initialize
      \/ PublishCheckpoint \/ Finish \/ PublishFailure
  BY DEF Stepping, Quiet, vars, Reuse, CreateInstance, RestoreFails, Resume, Continue,
         CheckpointDone, FinalCheckpointDone, Pruned, WriteFailure, DiscardTail, RotChunk,
         Raise, Ending, PauseDone, ClearFailure, AbandonFailure, Crash, Opening, Open, Return,
         Forget, RejectCompletion, Advance, Checkpointing, CheckpointDue,
         Pause, Finalize, BeginCheckpoint, disk, session
<1> QED BY <1>1, <1>2, <1>3, <1>4, <1>5, <1>6, <1>7, <1>8, <1>9

\* A session never falls behind a checkpoint it may still fall back to.
LEMMA InvBehindStep ==
  ASSUME IInv, Stepping
  PROVE  InvBehind'
<1> USE DEF IInv
<1>0. \A g \in Referenced(mem) :
        /\ g \in Generation
        /\ IsSealed(g) => generations[g].step \in Nat
        /\ pc # "idle" => g \in Referenced(progress)
  BY ReferencedType, SealedType DEF TypeOK, InvMem
<1>1. ASSUME UNCHANGED <<mem, generations, step, chunks, buffer>>, pc \in Active
      PROVE  InvBehind'
  BY <1>1 DEF InvBehind, NotBeyond, IsSealed
<1>2. ASSUME pc' \notin Active
      PROVE  InvBehind'
  BY <1>2 DEF InvBehind
<1>3. ASSUME NEW g \in Generation, Clearing(g), pc \in Active PROVE InvBehind'
  BY <1>0, <1>3, ClearingFacts DEF InvBehind, NotBeyond
<1>4. CASE SealGeneration
  <2>1. /\ gen \notin Referenced(mem) /\ pc \in Active
        /\ UNCHANGED <<mem, step, chunks, buffer>>
        /\ generations' = [generations EXCEPT ![gen] = Sealed(step, observed, chunks)]
        /\ DOMAIN generations = Generation
    BY <1>0, <1>4 DEF SealGeneration, InvWriting, TypeOK, session, Active, Sessions
  <2> QED BY <1>0, <2>1 DEF InvBehind, NotBeyond, IsSealed
<1>5. CASE Restore
  <2>1. PICK e, q : Restored(e, q)
    BY <1>5, RestoreFacts
  <2>2. /\ pc = "opened" /\ buffer = {} /\ UNCHANGED <<progress, generations, buffer>>
        /\ IsSealed(e) /\ step' = generations[e].step /\ chunks' = generations[e].results
        /\ e \in Referenced(mem) /\ CoversCompleted(generations[e].step)
    BY <1>5, <2>1 DEF Restore, InvMem, disk, Restored, Load, Valid, IsSealed
  <2>3. mem'.checkpoints = q /\ mem'.completed = mem.completed
    BY <2>1 DEF Restored, Progress, TypeOK
  <2>4. ASSUME NEW g \in Referenced(mem') PROVE g = e \/ Later(mem, e, g)
    <3>1. CASE \E k \in 1..Len(q) : g = q[k]
      <4>1. PICK k \in 1..Len(q) : g = q[k]
        BY <3>1
      <4>2. Len(q) \in Nat /\ q[1] = e
        BY <2>1, LenProperties DEF Restored
      <4>3. k = 1 \/ (1 < k /\ 1 \in 1..Len(q))
        BY <4>2
      <4> QED BY <2>1, <4>1, <4>2, <4>3 DEF Restored
    <3>2. CASE \E s \in Pinned(mem) : g = mem.completed[s].checkpoint
      BY <3>2 DEF Later
    <3> QED BY <2>3, <2>4, <3>1, <3>2 DEF Referenced, Pinned, Completed
  <2>5. ASSUME NEW g \in Referenced(mem') PROVE NotBeyond(g, step', chunks')
    <3>1. CASE g = e
      <4>1. generations[e].step \in Nat
        BY <1>0, <2>2
      <4> QED BY <2>2, <3>1, <4>1 DEF NotBeyond
    <3>2. CASE Later(mem, e, g)
      BY <2>2, <3>2, LaterNotBeyond DEF InvOrder
    <3> QED BY <2>4, <2>5, <3>1, <3>2
  <2> QED BY <2>2, <2>5 DEF InvBehind, NotBeyond, IsSealed
<1>6. CASE Initialize
  <2>1. \A s \in Completed(progress) : s <= 0
    BY <1>6 DEF Initialize, CoversCompleted, InvMem, Completed
  <2>2. Completed(progress) = {}
    BY <2>1 DEF InvFinal, TypeOK, Progress
  <2>3. mem'.checkpoints = <<>> /\ mem'.completed = progress.completed
    BY <1>6 DEF Initialize, InvMem, TypeOK, Progress
  <2>4. Len(<<>>) = 0
    BY EmptySeq
  <2>5. Referenced(mem') = {}
    BY <2>2, <2>3, <2>4 DEF Referenced, Pinned, Completed
  <2> QED BY <2>5 DEF InvBehind
<1>7. ASSUME NEW d \in Draws, Advance(d) PROVE InvBehind'
  <2>1. /\ pc \in Active /\ step \in Nat /\ step' = step + 1
        /\ UNCHANGED <<mem, generations>>
    BY <1>7 DEF Advance, TypeOK, Active, Sessions
  <2>2. ASSUME NEW g \in Referenced(mem), IsSealed(g)
        PROVE  generations[g].step <= step /\ generations[g].step \in Nat
    BY <1>0, <2>1, <2>2 DEF InvBehind, NotBeyond
  <2>3. ASSUME NEW g \in Referenced(mem), IsSealed(g)
        PROVE  generations[g].step <= step + 1 /\ generations[g].step # step + 1
    BY <2>1, <2>2, <2>3
  <2> QED BY <2>1, <2>3 DEF InvBehind, NotBeyond, IsSealed
<1>8. CASE Checkpointing
  <2>1. /\ Flush(buffer) /\ UNCHANGED <<step, mem, generations>> /\ pc \in Active
    BY <1>8 DEF Checkpointing, CheckpointDue, Pause, Finalize, BeginCheckpoint, Active, Sessions
  <2>2. buffer' = {} /\ (buffer = {} => chunks' = chunks)
    BY <2>1 DEF Flush
  <2> QED BY <2>1, <2>2 DEF InvBehind, NotBeyond, IsSealed
<1>9. CASE PublishCheckpoint
  <2>1. /\ IsSealed(gen) => generations[gen].step = step /\ generations[gen].results = chunks
        /\ pc \in Active /\ buffer = {} /\ step \in Nat
    BY <1>9, PublishFacts DEF InvWriting, InvSession, Active, Sessions, TypeOK
  <2>2. NotBeyond(gen, step, chunks)
    BY <2>1 DEF NotBeyond
  <2>3. \A g \in Referenced(mem') : NotBeyond(g, step, chunks)
    BY <1>9, PublishFacts, <2>1, <2>2 DEF InvBehind
  <2> QED BY <1>9, PublishFacts, <2>1, <2>3 DEF InvBehind, NotBeyond, IsSealed
<1>10. CASE Finish
  <2>1. \A g \in Referenced(mem') : NotBeyond(g, step, chunks)
    BY <1>10, FinishFacts DEF InvBehind, Active, Sessions
  <2> QED BY <1>10, FinishFacts, <2>1 DEF InvBehind, NotBeyond, IsSealed
<1>11. \/ UNCHANGED <<mem, generations, step, chunks, buffer>> /\ pc \in Active
       \/ pc' \notin Active
       \/ pc \in Active /\ \E g \in Generation : Clearing(g)
       \/ SealGeneration \/ Restore \/ Initialize
       \/ \E d \in Draws : Advance(d)
       \/ Checkpointing \/ PublishCheckpoint \/ Finish
  <2>1. CASE UNCHANGED vars
    BY <2>1 DEF vars, session, disk
  <2>2. CASE Quiet
    BY <2>2 DEF Quiet, Reuse, CreateInstance, RestoreFails, Resume, Continue, CheckpointDone,
                FinalCheckpointDone, Pruned, WriteFailure, disk, session, Active, Sessions
  <2>3. CASE Ending \/ Opening \/ PublishFailure
    BY <2>3 DEF Ending, PauseDone, ClearFailure, AbandonFailure, Crash, Opening, Open,
                RejectCompletion, PublishFailure, Return, Forget, Active, Sessions
  <2>4. ASSUME NEW f \in results, DiscardTail(f) \/ RotChunk(f)
        PROVE  \/ UNCHANGED <<mem, generations, step, chunks, buffer>> /\ pc \in Active
               \/ pc' \notin Active
    BY <2>4 DEF DiscardTail, RotChunk, session, Active, Sessions
  <2>5. CASE Raise /\ pc # "writing"
    BY <2>5 DEF Raise, Active, Sessions
  <2>6. ASSUME NEW g \in Generation, Clearing(g) PROVE pc \in Active \/ pc' \notin Active
    BY <2>6 DEF Clearing, MakeGeneration, PruneGeneration, RotGeneration, Raise, Active, Sessions
  <2> QED BY <2>1, <2>2, <2>3, <2>4, <2>5, <2>6 DEF Stepping
<1> QED BY <1>1, <1>2, <1>3, <1>4, <1>5, <1>6, <1>7, <1>8, <1>9, <1>10, <1>11

\* The generation being written is new until it is published.
LEMMA InvWritingStep ==
  ASSUME IInv, Stepping
  PROVE  InvWriting'
<1> USE DEF IInv
<1>1. CASE Quiet
  BY <1>1 DEF Quiet, Reuse, CreateInstance, RestoreFails, Resume, Continue, CheckpointDone,
              FinalCheckpointDone, Pruned, WriteFailure, disk, session, InvWriting, IsSealed
<1>2. CASE Ending \/ PublishFailure \/ Opening
  BY <1>2 DEF Ending, PauseDone, ClearFailure, AbandonFailure, Crash, PublishFailure, Return,
              Forget, Opening, Open, RejectCompletion, InvWriting
<1>3. CASE Restore \/ Initialize \/ Checkpointing
  BY <1>3 DEF Restore, Initialize, Checkpointing, CheckpointDue, Pause, Finalize,
              BeginCheckpoint, InvWriting
<1>4. ASSUME NEW f \in results, DiscardTail(f) \/ RotChunk(f) PROVE InvWriting'
  BY <1>4 DEF DiscardTail, RotChunk, session, InvWriting
<1>5. ASSUME NEW d \in Draws, Advance(d) PROVE InvWriting'
  BY <1>5 DEF Advance, InvWriting
<1>6. ASSUME NEW g \in Generation, Clearing(g) PROVE InvWriting'
  <2>1. CASE MakeGeneration(g)
    BY <2>1 DEF MakeGeneration, Fresh, InvWriting
  <2>2. CASE PruneGeneration(g) \/ RotGeneration(g)
    <3>1. /\ UNCHANGED <<pc, gen, step, chunks, budget, progress, mem>>
          /\ pc \in {"sealed", "pruning", "finishing"} => gen \in Generation
      BY <2>2 DEF PruneGeneration, RotGeneration, session, TypeOK
    <3>2. \A h \in Generation : IsSealed(h)' => IsSealed(h) /\ generations'[h] = generations[h]
      BY <1>6, ClearingFacts
    <3> QED BY <3>1, <3>2 DEF InvWriting
  <2>3. CASE Raise
    BY <2>3 DEF Raise, InvWriting
  <2> QED BY <1>6, <2>1, <2>2, <2>3 DEF Clearing
<1>7. CASE Raise
  BY <1>7 DEF Raise, InvWriting
<1>8. CASE SealGeneration
  <2>1. /\ generations' = [generations EXCEPT ![gen] = Sealed(step, observed, chunks)]
        /\ gen \in Generation /\ DOMAIN generations = Generation
        /\ pc' = "sealed" /\ UNCHANGED <<gen, step, chunks>>
    BY <1>8 DEF SealGeneration, TypeOK, session
  <2>2. generations'[gen] = Sealed(step, observed, chunks)
    BY <2>1
  <2> QED BY <2>1, <2>2 DEF InvWriting, Sealed
<1>9. CASE PublishCheckpoint
  BY <1>9, PublishFacts DEF InvWriting, IsSealed
<1>10. CASE Finish
  BY <1>10 DEF Finish, InvWriting
<1>11. CASE UNCHANGED vars
  BY <1>11 DEF vars, disk, session, InvWriting, IsSealed
<1> QED
  BY <1>1, <1>2, <1>3, <1>4, <1>5, <1>6, <1>7, <1>8, <1>9, <1>10, <1>11 DEF Stepping

\* Only a run that reached its budget takes a final checkpoint.
LEMMA InvFinalStep ==
  ASSUME IInv, Stepping
  PROVE  InvFinal'
<1> USE DEF IInv, disk, session
<1>1. CASE Quiet
  BY <1>1 DEF Quiet, Reuse, CreateInstance, RestoreFails, Resume, Continue, CheckpointDone,
              FinalCheckpointDone, Pruned, WriteFailure, InvFinal, IsFinished, Active, Sessions
<1>2. CASE Ending \/ Opening
  BY <1>2 DEF Ending, PauseDone, ClearFailure, AbandonFailure, Crash, Return,
              Forget, Opening, Open, RejectCompletion, InvFinal, Active, Sessions
<1>3. CASE Restore \/ Initialize
  BY <1>3 DEF Restore, Initialize, InvFinal, Active, Sessions
<1>4. CASE Checkpointing
  BY <1>4 DEF Checkpointing, CheckpointDue, Pause, Finalize, BeginCheckpoint, InvFinal,
              IsFinished, Active, Sessions
<1>5. ASSUME NEW f \in results, DiscardTail(f) \/ RotChunk(f) PROVE InvFinal'
  BY <1>5 DEF DiscardTail, RotChunk, InvFinal, IsFinished
<1>6. ASSUME NEW d \in Draws, Advance(d) PROVE InvFinal'
  BY <1>6 DEF Advance, InvFinal
<1>7. ASSUME NEW g \in Generation, Clearing(g) PROVE InvFinal'
  BY <1>7 DEF Clearing, MakeGeneration, PruneGeneration, RotGeneration, Raise, InvFinal,
              IsFinished, Active, Sessions
<1>8. CASE Raise
  BY <1>8 DEF Raise, InvFinal
<1>9. CASE SealGeneration
  BY <1>9 DEF SealGeneration, InvFinal, IsFinished, Active, Sessions
<1>10. CASE PublishCheckpoint
  BY <1>10, PublishFacts DEF InvFinal, IsFinished, Active, Sessions, Completed
<1>11. CASE Finish
  <2>1. IsFinished(step) /\ budget \in Budgets
    BY <1>11, FinishFacts DEF InvFinal, InvSession, Active, Sessions
  <2>2. step # 0
    BY <2>1, BudgetsAssumption DEF IsFinished, Step
  <2> QED BY <1>11, <2>2, FinishFacts DEF InvFinal, IsFinished, Active, Sessions
<1>12. CASE PublishFailure
  BY <1>12, FailureFacts DEF PublishFailure, Return, Forget, InvFinal, Completed
<1>13. CASE UNCHANGED vars
  BY <1>13 DEF vars, InvFinal, IsFinished
<1> QED
  BY <1>1, <1>2, <1>3, <1>4, <1>5, <1>6, <1>7, <1>8, <1>9, <1>10, <1>11, <1>12, <1>13
  DEF Stepping

\* A status is published with what it reports.
LEMMA InvOutcomeStep ==
  ASSUME IInv, InvOutcome, Stepping
  PROVE  InvOutcome'
<1> USE DEF IInv, disk, session, InvOutcome, OutcomeIsDurable, FailureRecorded
<1>1. CASE Quiet
  <2>1. ASSUME NEW b \in Budgets, Reuse(b) PROVE InvOutcome'
    BY <2>1 DEF Reuse, Covering, Completed
  <2>2. CASE WriteFailure
    BY <2>2 DEF WriteFailure, Completed
  <2>3. CASE CreateInstance \/ RestoreFails \/ Resume \/ Continue \/ CheckpointDone
             \/ FinalCheckpointDone
    BY <2>3 DEF CreateInstance, RestoreFails, Resume, Continue, CheckpointDone,
                FinalCheckpointDone, Pruned, Completed
  <2> QED BY <1>1, <2>1, <2>2, <2>3 DEF Quiet
<1>2. CASE Ending
  BY <1>2 DEF Ending, PauseDone, Pruned, ClearFailure, AbandonFailure, Crash, Return, Forget, Completed
<1>3. CASE Opening
  BY <1>3 DEF Opening, Open, RejectCompletion
<1>4. CASE Restore \/ Initialize \/ Checkpointing
  BY <1>4 DEF Restore, Initialize, Checkpointing, CheckpointDue, Pause, Finalize,
              BeginCheckpoint
<1>5. ASSUME NEW f \in results, DiscardTail(f) \/ RotChunk(f) PROVE InvOutcome'
  BY <1>5 DEF DiscardTail, RotChunk, Completed
<1>6. ASSUME NEW d \in Draws, Advance(d) PROVE InvOutcome'
  BY <1>6 DEF Advance
<1>7. ASSUME NEW g \in Generation, Clearing(g) PROVE InvOutcome'
  BY <1>7 DEF Clearing, MakeGeneration, PruneGeneration, RotGeneration, Raise, Completed
<1>8. CASE Raise \/ SealGeneration
  BY <1>8 DEF Raise, SealGeneration
<1>9. CASE PublishCheckpoint
  <2>1. mem'.status # "failed" /\ progress' = mem' /\ Progress(mem)
    BY <1>9 DEF PublishCheckpoint, CommitCheckpoint, TypeOK, Progress
  <2> QED BY <1>9, <2>1, PublishFacts
<1>10. CASE Finish
  <2>1. progress'.status # "failed"
    BY <1>10 DEF Finish, TypeOK, Progress
  <2>2. step \in Completed(progress') /\ step >= budget
    BY <1>10, FinishFacts DEF InvFinal, IsFinished
  <2> QED BY <1>10, <2>1, <2>2, FinishFacts
<1>11. CASE PublishFailure
  BY <1>11, FailureFacts DEF PublishFailure, Return, Forget
<1>12. CASE UNCHANGED vars
  BY <1>12 DEF vars, Completed
<1> QED
  BY <1>1, <1>2, <1>3, <1>4, <1>5, <1>6, <1>7, <1>8, <1>9, <1>10, <1>11, <1>12 DEF Stepping

\* Chunks of completed prefixes survive every step, provided they are not
\* themselves damaged at rest.
LEMMA CompletedReadableStep ==
  ASSUME IInv, CompletedReadable, Stepping, "rot_completed" \notin Faults
  PROVE  CompletedReadable'
<1> USE DEF IInv, disk, session
<1> DEFINE M(s) == progress.completed[s].results
<1>0. \A s \in Completed(progress) : M(s) \in Manifest /\ Len(M(s)) \in Nat
  BY LenProperties DEF TypeOK, Progress, Manifest
<1>1. ASSUME progress'.completed = progress.completed, UNCHANGED <<results, instance>>
      PROVE  CompletedReadable'
  BY <1>1 DEF CompletedReadable, Completed, Intact
<1>2. CASE CreateInstance
  BY <1>2 DEF CreateInstance, CompletedReadable, Completed, Intact
<1>3. ASSUME NEW f \in results, DiscardTail(f) \/ RotChunk(f) PROVE CompletedReadable'
  <2>1. results' = results \ {f} /\ UNCHANGED <<progress, instance>>
    BY <1>3 DEF DiscardTail, RotChunk
  <2>2. ASSUME NEW s \in Completed(progress), NEW i \in 1..Len(M(s)), f = <<i, M(s)[i]>>
        PROVE  FALSE
    <3>1. f[1] = i /\ f[2] = M(s)[i] /\ i <= Len(M(s)) /\ i \in Nat
      BY <1>0, <2>2
    <3>2. InCompleted(f)
      BY <3>1 DEF InCompleted
    <3>3. CASE DiscardTail(f)
      <4>1. f[1] > Len(chunks) /\ pc \in Active /\ Len(chunks) \in Nat
        BY <3>3, LenProperties DEF DiscardTail, Leftover, Active, Sessions, TypeOK, Manifest
      <4>2. Len(M(s)) <= Len(chunks)
        BY <4>1 DEF InvCovers, Prefix
      <4> QED BY <1>0, <3>1, <4>1, <4>2
    <3>4. CASE RotChunk(f)
      BY <3>2, <3>4 DEF RotChunk
    <3> QED BY <1>3, <3>3, <3>4
  <2>3. ASSUME NEW s \in Completed(progress), NEW i \in 1..Len(M(s))
        PROVE  <<i, M(s)[i]>> \in results'
    BY <2>1, <2>2, <2>3 DEF CompletedReadable, Intact
  <2> QED BY <2>1, <2>3 DEF CompletedReadable, Intact
<1>4. ASSUME NEW rows \in SUBSET Row, Flush(rows), pc \in Active,
             UNCHANGED <<progress, instance>>
      PROVE  CompletedReadable'
  <2>1. Intact(chunks)
    BY <1>4 DEF InvSession
  <2>2. ASSUME NEW s \in Completed(progress) PROVE Intact(M(s))'
    BY <1>0, <1>4, <2>1, <2>2, FlushFacts DEF CompletedReadable, InvCovers
  <2> QED BY <1>4, <2>2 DEF CompletedReadable, Intact
<1>5. ASSUME NEW d \in Draws, Advance(d) PROVE CompletedReadable'
  <2>1. PICK rows \in SUBSET Row :
          Flush(rows) \/ (buffer' = rows /\ UNCHANGED <<results, chunks>>)
    BY <1>5, AdvanceFlush
  <2>2. pc \in Active /\ UNCHANGED <<progress, instance>>
    BY <1>5 DEF Advance, Active, Sessions
  <2> QED BY <1>1, <1>4, <2>1, <2>2
<1>6. CASE Checkpointing
  <2>1. /\ Flush(buffer) /\ pc \in Active /\ UNCHANGED <<progress, instance>>
        /\ buffer \in SUBSET Row
    BY <1>6 DEF Checkpointing, CheckpointDue, Pause, Finalize, BeginCheckpoint, Active,
                Sessions, TypeOK
  <2> QED BY <1>4, <2>1
<1>7. CASE PublishCheckpoint \/ PublishFailure
  BY <1>1, <1>7, PublishFacts, FailureFacts
<1>8. CASE Finish
  <2>1. /\ Records(step, observed, chunks, {}) /\ Intact(chunks) /\ instance
        /\ step \in Nat /\ chunks \in Manifest
    BY <1>8, FinishFacts DEF InvSession, Active, Sessions, TypeOK
  <2>2. Exact(chunks, step)
    BY <2>1, RecordsExact
  <2>3. ASSUME NEW s \in Completed(progress'), NEW m, m = progress'.completed[s].results
        PROVE  Intact(m) /\ instance /\ Exact(m, s)
    <3>1. CASE s = step
      BY <1>8, FinishFacts, <2>1, <2>2, <2>3, <3>1
    <3>2. CASE s # step
      BY <1>8, FinishFacts, <2>3, <3>2 DEF CompletedReadable
    <3> QED BY <3>1, <3>2
  <2>4. UNCHANGED <<results, instance>>
    BY <1>8, FinishFacts
  <2> QED BY <2>3, <2>4 DEF CompletedReadable, Intact
<1>9. \/ progress'.completed = progress.completed /\ UNCHANGED <<results, instance>>
      \/ CreateInstance
      \/ \E f \in results : DiscardTail(f) \/ RotChunk(f)
      \/ \E d \in Draws : Advance(d)
      \/ Checkpointing \/ PublishCheckpoint \/ PublishFailure \/ Finish
  BY DEF Stepping, Quiet, vars, Reuse, RestoreFails, Resume, Continue, CheckpointDone,
         FinalCheckpointDone, WriteFailure, Ending, PauseDone, ClearFailure, AbandonFailure,
         Crash, Opening, Open, RejectCompletion, Restore, Initialize, Clearing,
         MakeGeneration, PruneGeneration, RotGeneration, Raise, SealGeneration
<1> QED BY <1>1, <1>2, <1>3, <1>5, <1>6, <1>7, <1>8, <1>9

\* An empty run directory satisfies every part of the invariant.
LEMMA IInvInit == Init => IInv
<1> SUFFICES ASSUME Init PROVE IInv
  OBVIOUS
<1>1. TypeOK
  BY TypeInit
<1>2. /\ Len(<<>>) = 0
      /\ \A g \in Generation : ~IsSealed(g)
      /\ Completed(progress) = {} /\ Pinned(progress) = {}
      /\ progress = NoProgress /\ mem = progress /\ pc = "idle" /\ cause = "none"
      /\ step = 0 /\ observed = {} /\ chunks = <<>> /\ buffer = {}
  BY EmptySeq DEF Init, IsSealed, Absent, Completed, Pinned, NoProgress
<1>3. Referenced(progress) = {}
  BY <1>2 DEF Referenced, NoProgress
<1>4. InvMem /\ InvGenerations /\ InvSession /\ InvCovers
  BY <1>2 DEF InvMem, InvGenerations, InvSession, InvCovers, Active,
              Sessions
<1>5. InvEntries /\ InvPinned /\ InvBehind /\ InvWriting /\ InvFinal
  BY <1>2, <1>3 DEF InvEntries, InvPinned, InvBehind, InvWriting, InvFinal, Active, Sessions
<1>6. InvOrder
  BY <1>2 DEF InvOrder, NewestFirst, NoProgress
<1> QED BY <1>1, <1>4, <1>5, <1>6 DEF IInv
-----------------------------------------------------------------------------
(* The theorems *)

\* Every variable keeps its type, whatever faults occur.
THEOREM TypeCorrect == Spec => []TypeOK
<1>1. Init => TypeOK
  BY TypeInit
<1>2. TypeOK /\ [Next]_vars => TypeOK'
  BY TypeStep
<1> QED BY <1>1, <1>2, PTL DEF Spec

\* The invariant is inductive, whatever faults occur.
LEMMA IInvNext ==
  ASSUME IInv, [Next]_vars
  PROVE  IInv' /\ TypeOK' /\ Stepping
<1>1. TypeOK' /\ Stepping
  BY TypeStep, NextIsStepping DEF IInv
<1>2. InvMem' /\ InvGenerations' /\ InvSession' /\ InvCovers'
  BY <1>1, InvMemStep, InvGenerationsStep, InvSessionStep, InvCoversStep
<1>3. InvEntries' /\ InvPinned' /\ InvOrder' /\ InvBehind'
  BY <1>1, InvEntriesStep, InvPinnedStep, InvOrderStep, InvBehindStep
<1>4. InvWriting' /\ InvFinal'
  BY <1>1, InvWritingStep, InvFinalStep
<1> QED BY <1>1, <1>2, <1>3, <1>4 DEF IInv

\* So it holds at every moment.
LEMMA Invariance == Spec => []IInv
<1>1. IInv /\ [Next]_vars => IInv'
  BY IInvNext
<1> QED BY <1>1, IInvInit, PTL DEF Spec

\* A prefix published as complete stays readable and exact for ever: through
\* kills, exceptions, fallbacks to older or pinned checkpoints, tails discarded
\* by later sessions and longer budgets, with any damage to checkpoints and to
\* chunks that no completed prefix names.
THEOREM CompletedStaysReadable ==
  ASSUME "rot_completed" \notin Faults
  PROVE  Spec => []CompletedReadable
<1>1. Init => CompletedReadable
  BY DEF Init, NoProgress, Completed, CompletedReadable
<1>2. IInv /\ CompletedReadable /\ [Next]_vars => CompletedReadable'
  BY CompletedReadableStep, NextIsStepping DEF IInv
<1> QED BY <1>1, <1>2, Invariance, PTL DEF Spec

\* Every published checkpoint and the chunks it names are one boundary of one
\* life of the components, whatever is damaged or abandoned around them.
THEOREM CheckpointsAreBoundaries == Spec => []BoundaryConsistent
<1>1. IInv => BoundaryConsistent
  <2> SUFFICES ASSUME IInv, NEW g \in Referenced(progress), IsSealed(g)
               PROVE  LET e == generations[g] IN
                      /\ Timeline(e.observed, e.step)
                      /\ RowsOf(e.results) = {r \in e.observed : Sampled(r[1])}
                      /\ Exact(e.results, e.step)
    BY DEF BoundaryConsistent, IsSealed
  <2>1. g \in Generation
    BY ReferencedType DEF IInv, TypeOK
  <2>2. Records(generations[g].step, generations[g].observed, generations[g].results, {})
    BY <2>1 DEF IInv, InvGenerations
  <2>3. generations[g].step \in Nat /\ generations[g].results \in Manifest
    BY <2>1, SealedType DEF IInv
  <2>4. Exact(generations[g].results, generations[g].step)
    BY <2>2, <2>3, RecordsExact
  <2> QED BY <2>2, <2>4 DEF Records, Kept
<1> QED BY <1>1, Invariance, PTL

\* What a session reports as completed or reused is covered by a completed
\* prefix on disk from then on, and a failed status is never published without
\* its failure record.
THEOREM OutcomesAreBacked == Spec => []OutcomesAreTold
<1>1. Init => InvOutcome
  BY DEF Init, InvOutcome, OutcomeIsDurable, FailureRecorded, NoProgress
<1>2. IInv /\ InvOutcome /\ [Next]_vars => InvOutcome'
  BY IInvNext, InvOutcomeStep
<1>3. InvOutcome => OutcomesAreTold
  BY DEF InvOutcome, OutcomesAreTold
<1> QED BY <1>1, <1>2, <1>3, Invariance, PTL DEF Spec

\* No step of a session, however damaged the directory it opened, removes or
\* replaces a chunk that a completed prefix names.
THEOREM CompletedFilesStay == Spec => CompletedFilesKept
<1>1. IInv /\ [Next]_vars =>
        [pc # "idle" => \A f \in results : InCompleted(f) => f \in results']_vars
  <2> SUFFICES ASSUME IInv, Stepping, pc # "idle",
                      NEW f \in results, InCompleted(f)
               PROVE  f \in results'
    BY NextIsStepping DEF IInv
  <2> USE DEF IInv, disk, session
  <2>1. CASE UNCHANGED results
    BY <2>1
  <2>2. PICK s \in Completed(progress) : f[1] <= Len(progress.completed[s].results)
    BY DEF InCompleted
  <2>3. Len(chunks) \in Nat /\ Len(progress.completed[s].results) \in Nat /\ f[1] \in Nat
    BY LenProperties DEF TypeOK, Progress, Manifest, ChunkFile, Step
  <2>4. pc \in Active => f[1] <= Len(chunks)
    BY <2>2, <2>3 DEF InvCovers, Prefix
  <2>5. ASSUME NEW h \in results, DiscardTail(h) PROVE f \in results'
    BY <2>3, <2>4, <2>5 DEF DiscardTail, Leftover, Active, Sessions
  <2>6. ASSUME NEW h \in results, RotChunk(h) PROVE FALSE
    BY <2>6 DEF RotChunk
  <2>7. ASSUME NEW rows, Flush(rows), pc \in Active PROVE f \in results'
    BY <2>3, <2>4, <2>7 DEF Flush, NextFile
  <2>8. ASSUME NEW d \in Draws, Advance(d) PROVE f \in results'
    BY <2>1, <2>7, <2>8 DEF Advance, Active, Sessions
  <2>9. CASE Checkpointing
    BY <2>7, <2>9 DEF Checkpointing, CheckpointDue, Pause, Finalize, BeginCheckpoint,
                      Active, Sessions
  <2>10. \/ UNCHANGED results
         \/ \E h \in results : DiscardTail(h) \/ RotChunk(h)
         \/ \E d \in Draws : Advance(d)
         \/ Checkpointing
    BY DEF Stepping, Quiet, vars, Reuse, CreateInstance, RestoreFails, Resume, Continue,
           CheckpointDone, FinalCheckpointDone, WriteFailure, Ending, PauseDone, ClearFailure,
           AbandonFailure, Crash, Opening, Open, RejectCompletion, Restore, Initialize,
           Clearing, MakeGeneration, PruneGeneration, RotGeneration, Raise, SealGeneration,
           PublishCheckpoint, CommitCheckpoint, Finish, PublishFailure
  <2> QED BY <2>1, <2>5, <2>6, <2>8, <2>9, <2>10
<1> QED BY <1>1, Invariance, PTL DEF Spec, CompletedFilesKept

-----------------------------------------------------------------------------
(* What can be resumed.                                                    *)

(* The inductive invariant, beside IInv and CompletedReadable *)

\* No damage at rest: decoders may still be unavailable.
NoRot == "rot" \notin Faults /\ "rot_completed" \notin Faults

Covers(n, done) == \A s \in done : s <= n
CoversAll(g) == Covers(generations[g].step, Completed(progress))

\* What is referenced is never pruned or removed.
InvKept ==
  /\ \A g \in Referenced(progress) : IsSealed(g)
  /\ pc \in {"sealed", "pruning", "finishing"} => IsSealed(gen)
  /\ pc \in {"pruning", "finishing"} => mem = progress
  /\ Completed(progress) = Pinned(progress)

\* One file per chunk number
InvFiles == \A f, h \in results : f[1] = h[1] => f = h

\* The session keeps an entry that validates, and does not cut into it.
InvPoint ==
  Referenced(progress) # {} =>
    \E g \in Referenced(IF pc = "idle" THEN progress ELSE mem) :
      /\ Valid(g) /\ CoversAll(g)
      /\ pc \in Active => Len(generations[g].results) <= Len(chunks)

\* A retained checkpoint short of what is complete stands behind the one that
\* the longest completed prefix was published with.
Superseded(list, gens, done) ==
  \A j \in 1..Len(list) : ~Covers(gens[list[j]].step, done) =>
    \E i \in 1..(j - 1) : /\ Covers(gens[list[i]].step, done)
                          /\ gens[list[i]].step \in done
InvSuperseded ==
  /\ Superseded(progress.checkpoints, generations, Completed(progress))
  /\ pc # "idle" => Superseded(mem.checkpoints, generations, Completed(progress))

\* A session executes only what no completed prefix covers.
InvLonger ==
  pc \in (Active \union {"opened"}) \ {"completing"} =>
    \A s \in Completed(progress) : s < budget

\* While no decoder fails either, it is the newest checkpoint that is resumed.
Newest(p) == p.checkpoints[1]
InvNewest ==
  Faults = {} /\ Referenced(progress) # {} =>
    /\ progress.checkpoints # <<>> /\ Valid(Newest(progress))
    /\ pc # "idle" => mem.checkpoints # <<>> /\ Newest(mem) = Newest(progress)
    /\ pc \in Active => /\ Len(generations[Newest(progress)].results) <= Len(chunks)
                        /\ generations[Newest(progress)].observed \subseteq observed
InvSealing ==
  pc \in {"sealed", "pruning", "finishing"} => generations[gen].observed = observed

RInv ==
  /\ IInv /\ CompletedReadable
  /\ InvKept /\ InvFiles /\ InvPoint /\ InvSuperseded /\ InvLonger /\ InvNewest /\ InvSealing
-----------------------------------------------------------------------------
(* Enumerations *)

\* A nonempty set of naturals has a least element.
LEMMA LeastExists ==
  ASSUME NEW M \in SUBSET Nat, M # {}
  PROVE  \E x \in M : \A y \in M : x <= y
<1> DEFINE R == {p \in Nat \X Nat : p[1] < p[2]}
<1>1. IsWellFoundedOn(R, Nat)
  BY NatLessThanWellFounded DEF OpToRel
<1>2. \A x, y \in Nat : x < y => <<x, y>> \in R
  OBVIOUS
<1> HIDE DEF R
<1>3. PICK x \in M : \A y \in M : <<y, x>> \notin R
  BY <1>1, WFMin, Zenon
<1>4. \A y \in M : ~(y < x)
  BY <1>2, <1>3
<1>5. \A y \in M : x \in Nat /\ y \in Nat
  OBVIOUS
<1>6. \A y \in M : x <= y
  BY <1>4, <1>5
<1> QED BY <1>6

\* S can be listed from its largest element down.
Descending(S) ==
  {f \in [1..Cardinality(S) -> S] : \A i, j \in 1..Cardinality(S) : i < j => f[i] > f[j]}

\* Every finite set of naturals can: were there a smallest one that cannot,
\* the list of all but its least element would extend to it.
LEMMA DescendingExists ==
  ASSUME NEW S \in SUBSET Nat, IsFiniteSet(S)
  PROVE  Descending(S) # {}
<1> DEFINE Bad == {T \in SUBSET Nat : IsFiniteSet(T) /\ Descending(T) = {}}
           M == {Cardinality(T) : T \in Bad}
<1>1. SUFFICES ASSUME Bad # {} PROVE FALSE
  OBVIOUS
<1>2. M \in SUBSET Nat /\ M # {}
  BY <1>1, FS_CardinalityType
<1>3. PICK T \in Bad : \A U \in Bad : Cardinality(T) <= Cardinality(U)
  <2>1. PICK n \in M : \A m \in M : n <= m
    <3> HIDE DEF M
    <3> QED BY <1>2, LeastExists
  <2> QED BY <2>1
<1>4. T \in SUBSET Nat /\ IsFiniteSet(T) /\ Descending(T) = {} /\ Cardinality(T) \in Nat
  BY <1>3, FS_CardinalityType
<1>5. T # {}
  <2> SUFFICES ASSUME T = {} PROVE FALSE
    OBVIOUS
  <2>1. Cardinality(T) = 0
    BY FS_EmptySet
  <2>2. [i \in {} |-> 0] \in Descending(T)
    BY <2>1 DEF Descending
  <2> QED BY <1>4, <2>2
<1>6. PICK x \in T : \A y \in T : x <= y
  BY <1>4, <1>5, LeastExists
<1> DEFINE U == T \ {x}
           n == Cardinality(U)
<1>7. IsFiniteSet(U) /\ Cardinality(T) = n + 1 /\ n \in Nat /\ U \in SUBSET Nat
  <2>1. IsFiniteSet(U) /\ n = Cardinality(T) - 1
    BY <1>4, <1>6, FS_RemoveElement
  <2>2. n \in Nat
    BY <2>1, FS_CardinalityType
  <2> QED BY <1>4, <2>1, <2>2
<1>8. PICK f : f \in Descending(U)
  BY <1>3, <1>7
<1> DEFINE g == [i \in 1..(n + 1) |-> IF i = n + 1 THEN x ELSE f[i]]
<1>9. f \in [1..n -> U] /\ \A i, j \in 1..n : i < j => f[i] > f[j]
  BY <1>8 DEF Descending
<1> HIDE DEF n
<1>10. g \in [1..(n + 1) -> T]
  BY <1>6, <1>7, <1>9
<1>11. ASSUME NEW i \in 1..(n + 1), NEW j \in 1..(n + 1), i < j PROVE g[i] > g[j]
  <2>1. i \in 1..n /\ g[i] = f[i]
    BY <1>7, <1>11
  <2>2. CASE j = n + 1
    <3>1. g[j] = x /\ f[i] \in T /\ f[i] # x /\ f[i] \in Nat /\ x \in Nat /\ x <= f[i]
      BY <1>4, <1>6, <1>9, <2>1, <2>2
    <3> QED BY <2>1, <3>1
  <2>3. CASE j # n + 1
    <3>1. j \in 1..n /\ g[j] = f[j]
      BY <1>7, <2>3
    <3> QED BY <1>9, <1>11, <2>1, <3>1
  <2> QED BY <2>2, <2>3
<1> HIDE DEF g
<1>12. g \in Descending(T)
  BY <1>7, <1>10, <1>11 DEF Descending
<1> QED BY <1>4, <1>12

\* A descending list names every element, the largest one first.
LEMMA DescendingFacts ==
  ASSUME NEW S \in SUBSET Nat, IsFiniteSet(S), NEW f \in Descending(S)
  PROVE  /\ Cardinality(S) \in Nat /\ f \in [1..Cardinality(S) -> S]
         /\ S # {} => 1 \in 1..Cardinality(S)
         /\ \A s \in S : s <= f[1]
<1> DEFINE n == Cardinality(S)
<1>1. n \in Nat /\ f \in [1..n -> S] /\ \A i, j \in 1..n : i < j => f[i] > f[j]
  BY FS_CardinalityType DEF Descending
<1>2. S # {} => n # 0
  BY FS_EmptySet
<1> HIDE DEF n
<1>3. \A i, j \in 1..n : f[i] = f[j] => i = j
  <2> SUFFICES ASSUME NEW i \in 1..n, NEW j \in 1..n, f[i] = f[j], i # j PROVE FALSE
    OBVIOUS
  <2>1. f[i] \in Nat /\ f[j] \in Nat
    BY <1>1
  <2>2. i < j \/ j < i
    BY <1>1
  <2>3. f[i] > f[j] \/ f[j] > f[i]
    BY <1>1, <2>2
  <2> QED BY <2>1, <2>3
<1>4. f \in Injection(1..n, S)
  BY <1>1, <1>3, Fun_IsInj
<1>5. Cardinality(1..n) = n
  BY <1>1, FS_Interval
<1>6. f \in Surjection(1..n, S)
  BY <1>4, <1>5, FS_Injection DEF n
<1>7. \A s \in S : \E i \in 1..n : f[i] = s
  BY <1>6 DEF Surjection
<1>8. ASSUME NEW s \in S PROVE s <= f[1]
  <2>1. PICK i \in 1..n : f[i] = s
    BY <1>7
  <2>2. 1 \in 1..n
    BY <1>1, <2>1
  <2>3. f[1] \in Nat /\ f[i] \in Nat
    BY <1>1, <2>2
  <2>4. i = 1 \/ f[1] > f[i]
    BY <1>1, <2>2
  <2> QED BY <2>1, <2>3, <2>4
<1>9. S # {} => 1 \in 1..n
  BY <1>1, <1>2
<1> QED BY <1>1, <1>8, <1>9 DEF n

\* A life of n steps has n rows.
LEMMA LifeLength ==
  ASSUME NEW rows, NEW n \in Nat, Timeline(rows, n)
  PROVE  Cardinality(rows) = n
<1> DEFINE f == [r \in rows |-> r[1]]
<1>1. {r[1] : r \in rows} = 1..n /\ \A r, q \in rows : r[1] = q[1] => r = q
  BY DEF Timeline
<1>2. f \in [rows -> 1..n]
  BY <1>1
<1>3. \A r, q \in rows : f[r] = f[q] => r = q
  BY <1>1
<1>4. \A t \in 1..n : \E r \in rows : f[r] = t
  BY <1>1
<1> HIDE DEF f
<1>5. f \in Bijection(rows, 1..n)
  BY <1>2, <1>3, <1>4, Fun_IsBij
<1>6. ExistsBijection(1..n, rows)
  BY <1>5, Fun_ExistsBij, Fun_ExistsBijSymmetric
<1> QED BY <1>6, FS_CountingElements
-----------------------------------------------------------------------------
(* What every step leaves alone *)

\* Only five actions change progress.json, or the session's copy of it while
\* the session lasts.
LEMMA Frame ==
  ASSUME IInv, Stepping
  PROVE  \/ /\ UNCHANGED progress
            /\ pc # "idle" => mem' = mem \/ pc' = "idle"
            /\ pc = "idle" => mem' = progress \/ pc' = "idle"
            /\ pc' \in Active => pc \in Active
         \/ Restore \/ Initialize \/ PublishCheckpoint \/ Finish \/ PublishFailure
<1> USE DEF disk, session
<1>1. CASE Quiet
  BY <1>1 DEF Quiet, Reuse, CreateInstance, RestoreFails, Resume, Continue, CheckpointDone,
              FinalCheckpointDone, Pruned, WriteFailure, Active, Sessions
<1>2. CASE Ending \/ Opening
  BY <1>2 DEF Ending, PauseDone, ClearFailure, AbandonFailure, Crash, Return, Forget, Opening,
              Open, RejectCompletion, Active, Sessions
<1>3. ASSUME NEW g \in Generation, Clearing(g) \/ SealGeneration \/ Raise
      PROVE  \/ UNCHANGED <<progress, mem>> /\ pc # "idle"
             \/ UNCHANGED <<progress, mem, pc>>
  BY <1>3 DEF Clearing, MakeGeneration, PruneGeneration, RotGeneration, Raise,
              SealGeneration
<1>4. ASSUME NEW g \in Generation, Clearing(g) \/ SealGeneration \/ Raise
      PROVE  pc' \in Active => pc \in Active
  BY <1>4 DEF Clearing, MakeGeneration, PruneGeneration, RotGeneration, Raise,
              SealGeneration, Active, Sessions
<1>5. CASE \/ \E f \in results : DiscardTail(f) \/ RotChunk(f)
           \/ \E d \in Draws : Advance(d)
           \/ Checkpointing \/ UNCHANGED vars
  BY <1>5 DEF DiscardTail, RotChunk, Advance, Checkpointing, CheckpointDue, Pause, Finalize,
              BeginCheckpoint, vars, Active, Sessions
<1>6. CASE SealGeneration
  BY <1>6 DEF SealGeneration, Active, Sessions
<1>7. CASE Raise
  BY <1>7 DEF Raise, Active, Sessions
<1> QED BY <1>1, <1>2, <1>3, <1>4, <1>5, <1>6, <1>7 DEF Stepping

\* Result files are cut behind the session's chunks or written behind them.
LEMMA FilesFrame ==
  ASSUME IInv, Stepping, NoRot
  PROVE  \/ UNCHANGED <<results, chunks>>
         \/ /\ UNCHANGED results
            /\ Restore \/ pc' = "idle"
         \/ /\ pc \in Active /\ UNCHANGED chunks
            /\ \E f \in Leftover : results' = results \ {f}
         \/ /\ pc \in Active
            /\ \E rows \in SUBSET Row : Flush(rows)
<1> USE DEF disk, session
<1>1. ASSUME NEW f \in results, DiscardTail(f)
      PROVE  pc \in Active /\ UNCHANGED chunks /\ f \in Leftover /\ results' = results \ {f}
  BY <1>1 DEF DiscardTail, Active, Sessions
<1>2. ASSUME NEW f \in results, RotChunk(f) PROVE FALSE
  BY <1>2 DEF RotChunk, NoRot
<1>3. ASSUME NEW d \in Draws, Advance(d)
      PROVE  pc \in Active /\ \/ UNCHANGED <<results, chunks>>
                              \/ \E rows \in SUBSET Row : Flush(rows)
  <2>1. PICK rows \in SUBSET Row :
          Flush(rows) \/ (buffer' = rows /\ UNCHANGED <<results, chunks>>)
    BY <1>3, AdvanceFlush
  <2>2. pc \in Active
    BY <1>3 DEF Advance, Active, Sessions
  <2> QED BY <2>1, <2>2
<1>4. CASE Checkpointing
  <2>1. pc \in Active /\ Flush(buffer) /\ buffer \in SUBSET Row
    BY <1>4 DEF Checkpointing, CheckpointDue, Pause, Finalize, BeginCheckpoint, Active,
                Sessions, IInv, TypeOK
  <2> QED BY <2>1
<1>5. \/ UNCHANGED <<results, chunks>>
      \/ UNCHANGED results /\ (Restore \/ pc' = "idle")
      \/ \E f \in results : DiscardTail(f) \/ RotChunk(f)
      \/ \E d \in Draws : Advance(d)
      \/ Checkpointing
  BY DEF Stepping, Quiet, vars, Reuse, CreateInstance, RestoreFails, Resume, Continue,
         CheckpointDone, FinalCheckpointDone, WriteFailure, Ending, PauseDone, ClearFailure,
         AbandonFailure, Crash, Return, Forget, Opening, Open, RejectCompletion, Restore,
         Initialize, Clearing, MakeGeneration, PruneGeneration, RotGeneration, Raise,
         SealGeneration, PublishCheckpoint, CommitCheckpoint, Finish, PublishFailure
<1> QED BY <1>1, <1>2, <1>3, <1>4, <1>5

\* What progress.json references is neither pruned nor overwritten.
LEMMA ReferencedStay ==
  ASSUME IInv, InvKept, NoRot, Stepping, NEW g \in Referenced(progress)
  PROVE  g \in Generation /\ generations'[g] = generations[g]
<1> USE DEF disk, session
<1>0. g \in Generation /\ DOMAIN generations = Generation
  BY ReferencedType DEF IInv, TypeOK
<1>1. ASSUME NEW h \in Generation, MakeGeneration(h) PROVE generations'[g] = generations[g]
  BY <1>0, <1>1 DEF MakeGeneration, Fresh
<1>2. ASSUME NEW h \in Generation, PruneGeneration(h) PROVE generations'[g] = generations[g]
  BY <1>0, <1>2 DEF PruneGeneration, Obsolete, InvKept
<1>3. ASSUME NEW h \in Generation, RotGeneration(h) PROVE FALSE
  BY <1>3 DEF RotGeneration, NoRot
<1>4. CASE SealGeneration \/ Raise
  BY <1>0, <1>4 DEF SealGeneration, Raise, IInv, InvWriting
<1>5. \/ UNCHANGED generations
      \/ \E h \in Generation : MakeGeneration(h) \/ PruneGeneration(h) \/ RotGeneration(h)
      \/ SealGeneration \/ Raise
  BY DEF Stepping, Quiet, vars, Reuse, CreateInstance, RestoreFails, Resume, Continue,
         CheckpointDone, FinalCheckpointDone, WriteFailure, Ending, PauseDone, ClearFailure,
         AbandonFailure, Crash, Opening, Open, RejectCompletion, Restore, Initialize,
         DiscardTail, RotChunk, Advance, Checkpointing, CheckpointDue, Pause, Finalize,
         BeginCheckpoint, Clearing, PublishCheckpoint, CommitCheckpoint, Finish,
         PublishFailure
<1> QED BY <1>0, <1>1, <1>2, <1>3, <1>4, <1>5

\* A valid entry that the session does not cut into stays valid.
LEMMA ValidStays ==
  ASSUME IInv, InvKept, NoRot, Stepping, NEW g \in Referenced(progress), Valid(g),
         pc \in Active => Len(generations[g].results) <= Len(chunks)
  PROVE  /\ Valid(g)'
         /\ pc \in Active /\ pc' \in Active => Len(generations'[g].results) <= Len(chunks')
<1>1. g \in Generation /\ generations'[g] = generations[g]
  BY ReferencedStay
<1>2. PICK m : m = generations[g].results
  OBVIOUS
<1>3. m \in Manifest /\ Len(m) \in Nat /\ Len(chunks) \in Nat /\ chunks \in Manifest
  BY <1>1, <1>2, SealedType, LenProperties DEF Valid, IsSealed, IInv, TypeOK, Manifest
<1>4. (\A i \in 1..Len(m) : <<i, m[i]>> \in results) /\ generations[g].kind = "sealed"
  BY <1>2 DEF Valid, Intact
<1>5. SUFFICES /\ \A i \in 1..Len(m) : <<i, m[i]>> \in results'
               /\ pc \in Active /\ pc' \in Active => Len(m) <= Len(chunks')
  BY <1>1, <1>2, <1>4 DEF Valid, Intact
<1>6. CASE UNCHANGED <<results, chunks>>
  BY <1>2, <1>4, <1>6
<1>0. ASSUME UNCHANGED results, Restore \/ pc' = "idle"
      PROVE  /\ \A i \in 1..Len(m) : <<i, m[i]>> \in results'
             /\ ~(pc \in Active /\ pc' \in Active)
  BY <1>4, <1>0 DEF Restore, Active, Sessions
<1>7. ASSUME pc \in Active, UNCHANGED chunks, NEW f \in Leftover, results' = results \ {f}
      PROVE  \A i \in 1..Len(m) : <<i, m[i]>> \in results'
  <2>1. f[1] > Len(chunks) /\ Len(m) <= Len(chunks)
    BY <1>2, <1>7 DEF Leftover
  <2>2. f[1] \in Nat
    BY <1>7 DEF Leftover, IInv, TypeOK, ChunkFile, Step
  <2>3. \A i \in 1..Len(m) : <<i, m[i]>>[1] # f[1]
    BY <1>3, <2>1, <2>2
  <2> QED BY <1>4, <1>7, <2>3
<1>8. ASSUME pc \in Active, NEW rows \in SUBSET Row, Flush(rows)
      PROVE  /\ \A i \in 1..Len(m) : <<i, m[i]>> \in results'
             /\ Len(m) <= Len(chunks')
  <2>1. \A i \in 1..Len(m) : <<i, m[i]>>[1] # Len(chunks) + 1
    BY <1>2, <1>3, <1>8
  <2>2. Len(Append(chunks, rows)) = Len(chunks) + 1
    BY <1>3, RowsOfAppend
  <2>3. Len(m) <= Len(chunks')
    BY <1>2, <1>3, <1>8, <2>2 DEF Flush
  <2> QED BY <1>4, <1>8, <2>1, <2>3 DEF Flush, NextFile
<1>9. \/ UNCHANGED <<results, chunks>>
      \/ UNCHANGED results /\ (Restore \/ pc' = "idle")
      \/ pc \in Active /\ UNCHANGED chunks /\ \E f \in Leftover : results' = results \ {f}
      \/ pc \in Active /\ \E rows \in SUBSET Row : Flush(rows)
  BY FilesFrame
<1>10. CASE pc \in Active /\ UNCHANGED chunks /\ \E f \in Leftover : results' = results \ {f}
  BY <1>2, <1>7, <1>10
<1>11. CASE pc \in Active /\ \E rows \in SUBSET Row : Flush(rows)
  BY <1>8, <1>11
<1> QED BY <1>0, <1>6, <1>9, <1>10, <1>11
\* The generation being published is not touched any more.
Late == {"sealed", "pruning", "finishing"}
LEMMA LateFrame ==
  ASSUME IInv, InvKept, NoRot, Stepping, pc' \in Late
  PROVE  \/ SealGeneration \/ PublishCheckpoint
         \/ /\ UNCHANGED <<progress, mem, gen, step, observed, chunks>>
            /\ pc \in Late /\ generations'[gen] = generations[gen]
            /\ pc' \in {"pruning", "finishing"} => pc \in {"pruning", "finishing"}
<1> USE DEF disk, session, Late
<1>1. ASSUME pc \in {"pruning", "finishing"}
      PROVE  generations'[gen] = generations[gen]
  <2>1. mem = progress /\ mem.checkpoints # <<>> /\ mem.checkpoints[1] = gen
    BY <1>1 DEF InvKept, IInv, InvWriting
  <2>2. Len(mem.checkpoints) \in Nat /\ Len(mem.checkpoints) # 0
    BY <2>1, LenProperties, EmptySeq DEF IInv, TypeOK, Progress
  <2>3. gen \in Referenced(progress)
    BY <2>1, <2>2 DEF Referenced
  <2> QED BY <2>3, ReferencedStay
<1>2. ASSUME NEW g \in Generation, Clearing(g), pc = "sealed" PROVE FALSE
  BY <1>2 DEF Clearing, MakeGeneration, PruneGeneration, RotGeneration, Raise, NoRot
<1>3. ASSUME NEW g \in Generation, Clearing(g)
      PROVE  /\ UNCHANGED <<progress, mem, gen, step, observed, chunks, pc>>
             /\ pc \in {"pruning", "finishing"}
  BY <1>2, <1>3 DEF Clearing, MakeGeneration, PruneGeneration, RotGeneration, Raise, NoRot
<1>4. CASE Quiet
  BY <1>1, <1>4 DEF Quiet, Reuse, CreateInstance, RestoreFails, Resume, Continue,
                    CheckpointDone, FinalCheckpointDone, Pruned, WriteFailure
<1>5. \/ Quiet \/ UNCHANGED vars
      \/ \E g \in Generation : Clearing(g)
      \/ \E f \in results : DiscardTail(f) \/ RotChunk(f)
      \/ SealGeneration \/ PublishCheckpoint
  BY DEF Stepping, Ending, PauseDone, ClearFailure, AbandonFailure, Crash, Return, Forget,
         Opening, Open, RejectCompletion, Restore, Initialize, Advance, Checkpointing,
         CheckpointDue, Pause, Finalize, BeginCheckpoint, Raise, Finish, PublishFailure
<1>6. ASSUME NEW f \in results, DiscardTail(f) \/ RotChunk(f) PROVE FALSE
  BY <1>6 DEF DiscardTail, RotChunk, NoRot
<1>7. CASE UNCHANGED vars
  BY <1>7 DEF vars
<1> QED BY <1>1, <1>3, <1>4, <1>5, <1>6, <1>7
-----------------------------------------------------------------------------
(* Each part of the invariant is preserved *)

\* Nothing that is referenced is lost, and every prefix pins its checkpoint.
LEMMA InvKeptStep ==
  ASSUME IInv, InvKept, NoRot, Stepping
  PROVE  InvKept'
<1> USE DEF disk, session
<1>1. ASSUME NEW g \in Referenced(progress) PROVE IsSealed(g)'
  BY <1>1, ReferencedStay DEF InvKept, IsSealed
<1>2. ASSUME PublishCheckpoint PROVE InvKept'
  <2>1. IsSealed(gen)' /\ IsSealed(gen')
    BY <1>2, PublishFacts DEF InvKept, IsSealed
  <2>2. \A g \in Referenced(progress') : IsSealed(g)'
    BY <1>1, <1>2, <2>1, PublishFacts
  <2>3. Completed(progress') = Pinned(progress')
    BY <1>2, PublishFacts DEF InvKept, Completed, Pinned
  <2> QED BY <1>2, <2>1, <2>2, <2>3, PublishFacts DEF InvKept, IsSealed
<1>3. ASSUME Finish PROVE InvKept'
  <2>1. \A g \in Referenced(progress') : IsSealed(g)'
    BY <1>1, <1>3, FinishFacts
  <2>2. ASSUME NEW s \in Completed(progress') PROVE progress'.completed[s].checkpoint # None
    BY <1>3, <2>2, FinishFacts, NoneAssumption DEF InvKept, Pinned
  <2> QED BY <1>3, <2>1, <2>2, FinishFacts DEF InvKept, Pinned
<1>4. ASSUME PublishFailure PROVE InvKept'
  BY <1>1, <1>4, FailureFacts DEF InvKept, Completed, Pinned
<1>5. ASSUME UNCHANGED progress, ~PublishCheckpoint PROVE InvKept'
  <2>1. \A g \in Referenced(progress') : IsSealed(g)'
    BY <1>1, <1>5
  <2>2. Completed(progress') = Pinned(progress')
    BY <1>5 DEF InvKept
  <2>3. CASE SealGeneration
    <3>1. pc' = "sealed" /\ gen' = gen /\ gen \in Generation
          /\ generations' = [generations EXCEPT ![gen] = Sealed(step, observed, chunks)]
          /\ DOMAIN generations = Generation
      BY <2>3 DEF SealGeneration, IInv, TypeOK
    <3>2. generations'[gen'].kind = "sealed"
      BY <3>1 DEF Sealed
    <3> QED BY <2>1, <2>2, <3>1, <3>2 DEF InvKept, IsSealed
  <2>4. ASSUME ~SealGeneration, pc' \in Late
        PROVE  /\ generations'[gen'].kind = "sealed"
               /\ pc' \in {"pruning", "finishing"} => mem' = progress'
    BY <1>5, <2>4, LateFrame DEF InvKept, IsSealed, Late
  <2>5. CASE ~SealGeneration
    BY <2>1, <2>2, <2>4, <2>5 DEF InvKept, IsSealed, Late
  <2> QED BY <2>3, <2>5
<1> QED BY <1>2, <1>3, <1>4, <1>5, Frame DEF Restore, Initialize

\* Chunk numbers stay unique: a flush replaces the file of its number.
LEMMA InvFilesStep ==
  ASSUME IInv, InvFiles, NoRot, Stepping
  PROVE  InvFiles'
<1>1. ASSUME results' \subseteq results PROVE InvFiles'
  BY <1>1 DEF InvFiles
<1>2. ASSUME NEW rows, Flush(rows) PROVE InvFiles'
  BY <1>2 DEF Flush, InvFiles, NextFile
<1> QED BY <1>1, <1>2, FilesFrame

\* Entries that the chosen order tries are what LongestFirst promises.
LEMMA LongestFirstIsDescending ==
  ASSUME NEW p, Progress(p)
  PROVE  /\ Pinned(p) \in SUBSET Nat /\ IsFiniteSet(Pinned(p))
         /\ LongestFirst(p) = Descending(Pinned(p))
<1>1. Pinned(p) \in SUBSET Nat /\ IsFiniteSet(Pinned(p))
  BY FS_Subset DEF Progress, Pinned
<1>2. \A s \in [1..Cardinality(Pinned(p)) -> Pinned(p)] :
        DOMAIN s = 1..Cardinality(Pinned(p))
  OBVIOUS
<1> QED BY <1>1, <1>2 DEF LongestFirst, Descending

\* Retained checkpoints come first, then the pinned ones, the longest first.
LEMMA EntriesFacts ==
  ASSUME NEW p, Progress(p), NEW order \in LongestFirst(p)
  PROVE  LET entries == Entries(p, order)  n == Len(p.checkpoints) IN
         /\ entries \in Seq(Generation) /\ n \in Nat /\ Len(entries) \in Nat /\ n <= Len(entries)
         /\ \A k \in 1..n : entries[k] = p.checkpoints[k]
         /\ \A k \in 1..Len(entries) : k > n =>
              \E s \in Pinned(p) : entries[k] = p.completed[s].checkpoint
         /\ Pinned(p) # {} =>
              /\ n + 1 <= Len(entries)
              /\ \E s \in Pinned(p) : /\ entries[n + 1] = p.completed[s].checkpoint
                                      /\ \A t \in Pinned(p) : t <= s
         /\ Pinned(p) = {} => Len(entries) = n
<1> DEFINE N == Cardinality(Pinned(p))
           n == Len(p.checkpoints)
           pins == [i \in DOMAIN order |-> p.completed[order[i]].checkpoint]
<1>1. Pinned(p) \in SUBSET Nat /\ IsFiniteSet(Pinned(p)) /\ order \in Descending(Pinned(p))
  BY LongestFirstIsDescending
<1>2. /\ N \in Nat /\ order \in [1..N -> Pinned(p)]
      /\ Pinned(p) # {} => 1 \in 1..N
      /\ \A s \in Pinned(p) : s <= order[1]
  BY <1>1, DescendingFacts
<1>3. Pinned(p) = {} => N = 0
  BY FS_EmptySet
<1>4. \A s \in Pinned(p) : p.completed[s].checkpoint \in Generation
  BY DEF Progress, Pinned
<1> HIDE DEF N
<1>5. pins \in Seq(Generation) /\ Len(pins) = N
  <2>1. pins \in [1..N -> Generation]
    BY <1>2, <1>4
  <2> QED BY <2>1, <1>2, SeqDef
<1>6. p.checkpoints \in Seq(Generation) /\ n \in Nat
  BY LenProperties DEF Progress
<1>7. \A i \in 1..N : \E s \in Pinned(p) : pins[i] = p.completed[s].checkpoint
  BY <1>2
<1>8. Pinned(p) # {} => \E s \in Pinned(p) : /\ pins[1] = p.completed[s].checkpoint
                                             /\ \A t \in Pinned(p) : t <= s
  BY <1>2
<1> HIDE DEF pins, n
<1>9. /\ p.checkpoints \o pins \in Seq(Generation)
      /\ Len(p.checkpoints \o pins) = n + N
      /\ \A i \in 1..(n + N) :
           (p.checkpoints \o pins)[i] = IF i <= n THEN p.checkpoints[i] ELSE pins[i - n]
  BY <1>5, <1>6, ConcatProperties DEF n
<1>10. Entries(p, order) = p.checkpoints \o pins
  BY DEF Entries, pins
<1> DEFINE E == Entries(p, order)
<1>11. /\ E \in Seq(Generation) /\ Len(E) = n + N
       /\ \A i \in 1..(n + N) : E[i] = IF i <= n THEN p.checkpoints[i] ELSE pins[i - n]
  BY <1>9, <1>10
<1> HIDE DEF E
<1>12. ASSUME NEW k \in 1..Len(E), k > n
       PROVE  \E s \in Pinned(p) : E[k] = p.completed[s].checkpoint
  <2>1. k - n \in 1..N /\ E[k] = pins[k - n]
    BY <1>2, <1>6, <1>11, <1>12
  <2> QED BY <1>7, <2>1
<1>13. ASSUME Pinned(p) # {}
       PROVE  /\ n + 1 <= Len(E)
              /\ \E s \in Pinned(p) : /\ E[n + 1] = p.completed[s].checkpoint
                                      /\ \A t \in Pinned(p) : t <= s
  <2>1. n + 1 \in 1..(n + N) /\ n + 1 - n = 1
    BY <1>2, <1>6, <1>13
  <2>2. E[n + 1] = pins[1]
    BY <1>6, <1>11, <2>1
  <2> QED BY <1>8, <1>11, <1>13, <2>1, <2>2
<1>14. \A k \in 1..n : E[k] = p.checkpoints[k]
  BY <1>2, <1>6, <1>11
<1>15. Len(E) \in Nat /\ n <= Len(E) /\ (Pinned(p) = {} => Len(E) = n)
  BY <1>2, <1>3, <1>6, <1>11
<1> QED BY <1>6, <1>11, <1>12, <1>13, <1>14, <1>15 DEF E, n

\* What restore() keeps: the entry it loads and what it would have tried next.
LEMMA RestoreKeeps ==
  ASSUME IInv, Restore
  PROVE  \E order \in LongestFirst(mem) :
           LET entries == Entries(mem, order) IN
           \E i \in 1..Len(entries) :
             /\ Valid(entries[i]) /\ CoversCompleted(generations[entries[i]].step)
             /\ Faults = {} => \A j \in 1..(i - 1) : ~Valid(entries[j])
             /\ mem'.checkpoints = From(entries, i, Keep)
             /\ mem'.completed = mem.completed
             /\ Load(generations[entries[i]])
<1>1. PICK bad \in Undecodable, order \in LongestFirst(mem) :
        \E i \in 1..Len(Entries(mem, order)) :
          LET entries == Entries(mem, order)  e == generations[entries[i]] IN
          /\ Valid(entries[i])
          /\ \A j \in 1..(i - 1) : ~Valid(entries[j]) \/ entries[j] \in bad
          /\ CoversCompleted(e.step)
          /\ mem' = [mem EXCEPT !.checkpoints = From(entries, i, Keep)]
          /\ Load(e)
  BY DEF Restore
<1>2. Faults = {} => bad = {}
  BY DEF Undecodable
<1>3. Progress(mem)
  BY DEF IInv, TypeOK
<1> DEFINE entries == Entries(mem, order)
<1>4. PICK i \in 1..Len(entries) :
          /\ Valid(entries[i])
          /\ \A j \in 1..(i - 1) : ~Valid(entries[j]) \/ entries[j] \in bad
          /\ CoversCompleted(generations[entries[i]].step)
          /\ mem' = [mem EXCEPT !.checkpoints = From(entries, i, Keep)]
          /\ Load(generations[entries[i]])
  BY <1>1
<1> HIDE DEF entries
<1>5. mem'.checkpoints = From(entries, i, Keep) /\ mem'.completed = mem.completed
  BY <1>3, <1>4 DEF Progress
<1> QED BY <1>2, <1>4, <1>5 DEF entries

\* The first entry of a list is one of those it references.
LEMMA FirstReferenced ==
  ASSUME NEW p, NEW g, p.checkpoints \in Seq(Generation), p.checkpoints # <<>>,
         p.checkpoints[1] = g
  PROVE  g \in Referenced(p) /\ 1 \in 1..Len(p.checkpoints)
<1>1. Len(p.checkpoints) \in Nat /\ Len(p.checkpoints) # 0
  BY LenProperties, EmptySeq
<1> QED BY <1>1 DEF Referenced

\* The generation just sealed is a point to resume from.
LEMMA SealedPoint ==
  ASSUME IInv, InvKept, pc \in Late
  PROVE  Valid(gen) /\ generations[gen].step = step /\ generations[gen].results = chunks
<1>1. /\ IsSealed(gen) => generations[gen].step = step /\ generations[gen].results = chunks
      /\ IsSealed(gen)
      /\ Intact(chunks)
  BY DEF Late, IInv, InvWriting, InvKept, InvSession, Active, Sessions
<1> QED BY <1>1 DEF Valid, IsSealed

\* Some entry the session keeps can always be resumed from.
LEMMA InvPointStep ==
  ASSUME IInv, InvKept, InvPoint, NoRot, Stepping, TypeOK'
  PROVE  InvPoint'
<1> DEFINE Kept1 == IF pc = "idle" THEN progress ELSE mem
<1>0. mem = progress \/ pc = "idle" \/ Referenced(mem) \subseteq Referenced(progress)
  BY DEF IInv, InvMem
<1>1. ASSUME UNCHANGED progress,
             pc # "idle" => mem' = mem \/ pc' = "idle",
             pc = "idle" => mem' = progress \/ pc' = "idle",
             pc' \in Active => pc \in Active
      PROVE  InvPoint'
  <2> SUFFICES ASSUME Referenced(progress) # {}
               PROVE  \E g \in Referenced(IF pc' = "idle" THEN progress' ELSE mem') :
                        /\ Valid(g)' /\ CoversAll(g)'
                        /\ pc' \in Active => Len(generations'[g].results) <= Len(chunks')
    BY <1>1 DEF InvPoint
  <2>1. PICK g \in Referenced(IF pc = "idle" THEN progress ELSE mem) :
          /\ Valid(g) /\ CoversAll(g)
          /\ pc \in Active => Len(generations[g].results) <= Len(chunks)
    BY DEF InvPoint
  <2>2. g \in Referenced(progress)
    BY <1>0, <2>1
  <2>3. /\ Valid(g)' /\ generations'[g] = generations[g]
        /\ pc' \in Active => Len(generations'[g].results) <= Len(chunks')
    BY <1>1, <2>1, <2>2, ValidStays, ReferencedStay
  <2>4. CoversAll(g)'
    BY <1>1, <2>1, <2>3 DEF CoversAll
  <2>5. g \in Referenced(IF pc' = "idle" THEN progress' ELSE mem')
    BY <1>1, <2>1, <2>2
  <2> QED BY <2>3, <2>4, <2>5
<1>2. CASE Restore
  <2>1. PICK e, q : Restored(e, q)
    BY <1>2, RestoreFacts DEF IInv
  <2>2. /\ UNCHANGED <<progress, generations, results>> /\ pc' = "discarding"
        /\ mem.completed = progress.completed /\ Progress(mem)
    BY <1>2 DEF Restore, IInv, InvMem, TypeOK, disk
  <2>3. mem'.checkpoints = q /\ q \in Seq(Generation) /\ q # <<>> /\ q[1] = e
        /\ Valid(e) /\ CoversCompleted(generations[e].step)
        /\ chunks' = generations[e].results
    BY <2>1, <2>2 DEF Restored, Progress, Load
  <2>4. e \in Referenced(mem')
    BY <2>3, FirstReferenced
  <2>5. Valid(e)' /\ CoversAll(e)'
    BY <2>2, <2>3 DEF Valid, Intact, CoversAll, CoversCompleted, Covers, Completed
  <2>6. generations'[e].results \in Manifest
    BY <2>1, <2>2, SealedType DEF Restored, Valid, IsSealed, IInv
  <2>7. Len(generations'[e].results) <= Len(chunks')
    BY <2>2, <2>3, <2>6, LenProperties DEF Manifest
  <2> QED BY <2>2, <2>4, <2>5, <2>7 DEF InvPoint
<1>3. CASE Initialize
  <2>1. /\ UNCHANGED progress /\ pc = "opened" /\ mem = progress
        /\ \A g \in Referenced(mem) : ~Valid(g)
    BY <1>3 DEF Initialize, disk, IInv, InvMem
  <2>2. Referenced(progress) = {}
    BY <2>1 DEF InvPoint
  <2> QED BY <2>1, <2>2 DEF InvPoint
<1>4. CASE PublishCheckpoint
  <2> PICK g : g = gen
    OBVIOUS
  <2>1. /\ Valid(g) /\ generations[g].step = step /\ generations[g].results = chunks
        /\ chunks \in Manifest
    BY <1>4, PublishFacts, SealedPoint DEF Late, IInv, TypeOK
  <2>2. g \in Referenced(mem')
    BY <1>4, PublishFacts, FirstReferenced DEF TypeOK, Progress
  <2>3. \A s \in Completed(progress') : s <= step
    BY <1>4, PublishFacts DEF IInv, InvCovers, Active, Sessions, Completed
  <2>4. Valid(g)' /\ CoversAll(g)'
    BY <1>4, PublishFacts, <2>1, <2>2, <2>3 DEF Valid, Intact, CoversAll, Covers
  <2>5. Len(generations'[g].results) <= Len(chunks')
    BY <1>4, PublishFacts, <2>1, <2>2, LenProperties DEF Manifest
  <2> QED BY <1>4, PublishFacts, <2>2, <2>4, <2>5 DEF InvPoint
<1>5. CASE Finish
  <2> PICK g : g = gen
    OBVIOUS
  <2>1. /\ Valid(g) /\ generations[g].step = step /\ generations[g].results = chunks
        /\ chunks \in Manifest /\ step \in Nat
    BY <1>5, FinishFacts, SealedPoint DEF Late, IInv, TypeOK
  <2>2. g \in Referenced(mem')
    BY <1>5, FinishFacts, FirstReferenced DEF TypeOK, Progress
  <2>3. \A s \in Completed(progress') : s <= step
    BY <1>5, FinishFacts, <2>1 DEF IInv, InvCovers, Active, Sessions
  <2>4. Valid(g)' /\ CoversAll(g)'
    BY <1>5, FinishFacts, <2>1, <2>2, <2>3 DEF Valid, Intact, CoversAll, Covers
  <2>5. Len(generations'[g].results) <= Len(chunks')
    BY <1>5, FinishFacts, <2>1, <2>2, LenProperties DEF Manifest
  <2> QED BY <1>5, FinishFacts, <2>2, <2>4, <2>5 DEF InvPoint
<1>6. CASE PublishFailure
  <2>1. /\ pc = "failing" /\ pc' = "idle" /\ progress' = [mem EXCEPT !.status = "failed"]
        /\ Progress(mem) /\ UNCHANGED <<generations, results>>
    BY <1>6 DEF PublishFailure, Return, Forget, IInv, TypeOK
  <2>2. Referenced(progress') = Referenced(mem) /\ progress'.completed = progress.completed
    BY <1>6, <2>1 DEF Progress, Referenced, Pinned, Completed, IInv, InvMem
  <2>3. Referenced(mem) \subseteq Referenced(progress)
    BY <2>1 DEF IInv, InvMem
  <2>4. SUFFICES ASSUME Referenced(progress) # {}
                 PROVE  \E g \in Referenced(progress') : Valid(g)' /\ CoversAll(g)'
    BY <2>1, <2>2, <2>3 DEF InvPoint, Active, Sessions
  <2>5. PICK g \in Referenced(mem) : Valid(g) /\ CoversAll(g)
    BY <2>1, <2>4 DEF InvPoint
  <2> QED BY <2>1, <2>2, <2>5 DEF Valid, Intact, CoversAll, Covers, Completed
<1> QED BY <1>1, <1>2, <1>3, <1>4, <1>5, <1>6, Frame

\* Superseded depends on the listed generations only.
LEMMA SupersededSame ==
  ASSUME NEW list, Len(list) \in Nat, NEW gens, NEW later, NEW done,
         \A i \in 1..Len(list) : later[list[i]] = gens[list[i]],
         Superseded(list, gens, done)
  PROVE  Superseded(list, later, done)
<1> SUFFICES ASSUME NEW j \in 1..Len(list), ~Covers(gens[list[j]].step, done)
             PROVE  \E i \in 1..(j - 1) : /\ Covers(later[list[i]].step, done)
                                          /\ later[list[i]].step \in done
  BY DEF Superseded
<1>1. PICK i \in 1..(j - 1) : Covers(gens[list[i]].step, done) /\ gens[list[i]].step \in done
  BY DEF Superseded
<1>2. i \in 1..Len(list)
  OBVIOUS
<1> QED BY <1>1, <1>2

\* What restore() keeps starts with an entry that covers everything.
LEMMA RestoreSuperseded ==
  ASSUME IInv, InvKept, InvSuperseded, Restore
  PROVE  Superseded(mem'.checkpoints, generations, Completed(progress))
<1> DEFINE done == Completed(progress)
           cp == mem.checkpoints
           n == Len(cp)
           G(x) == generations[x].step
<1>1. PICK order \in LongestFirst(mem) :
        \E i \in 1..Len(Entries(mem, order)) :
          /\ CoversCompleted(generations[Entries(mem, order)[i]].step)
          /\ Valid(Entries(mem, order)[i])
          /\ mem'.checkpoints = From(Entries(mem, order), i, Keep)
  BY RestoreKeeps
<1> DEFINE E == Entries(mem, order)
<1>2. PICK i \in 1..Len(E) : /\ CoversCompleted(generations[E[i]].step) /\ Valid(E[i])
                             /\ mem'.checkpoints = From(E, i, Keep)
  BY <1>1
<1>3. mem = progress /\ pc = "opened" /\ Progress(mem)
  BY DEF Restore, IInv, InvMem, TypeOK
<1>4. /\ E \in Seq(Generation) /\ n \in Nat /\ Len(E) \in Nat /\ n <= Len(E)
      /\ \A k \in 1..n : E[k] = cp[k]
      /\ \A k \in 1..Len(E) : k > n =>
           \E s \in Pinned(mem) : E[k] = mem.completed[s].checkpoint
      /\ Pinned(mem) # {} =>
           /\ n + 1 <= Len(E)
           /\ \E s \in Pinned(mem) : /\ E[n + 1] = mem.completed[s].checkpoint
                                     /\ \A t \in Pinned(mem) : t <= s
  BY <1>3, EntriesFacts
<1>5. Pinned(mem) = done /\ done \subseteq Nat
  BY <1>3 DEF InvKept, Progress
<1>6. \A s \in done : G(mem.completed[s].checkpoint) = s
  <2> TAKE s \in done
  <2>1. s \in Pinned(progress) /\ mem.completed[s].checkpoint \in Referenced(progress)
    BY <1>3, <1>5 DEF Referenced
  <2> QED BY <1>3, <2>1 DEF InvKept, IInv, InvPinned
<1>7. \A k \in 1..Len(E) : E[k] \in Referenced(progress)
  BY <1>3, <1>4 DEF Referenced
<1>8. \A k \in 1..Len(E) : G(E[k]) \in Nat /\ IsSealed(E[k])
  BY <1>7, ReferencedType, SealedType DEF InvKept, IInv, TypeOK
<1> DEFINE q == From(E, i, Keep)
<1>9. /\ q \in Seq(Generation) /\ Len(q) \in Nat /\ q # <<>>
      /\ \A k \in 1..Len(q) : i + k - 1 \in 1..Len(E) /\ q[k] = E[i + k - 1]
  <2>1. E \in Seq(Generation) /\ i \in 1..Len(E) /\ Keep \in Step
    BY <1>2, <1>4, KeepAssumption DEF Step
  <2> HIDE DEF E
  <2>2. /\ q \in Seq(Generation) /\ q # <<>>
        /\ \A k \in 1..Len(q) : i + k - 1 \in 1..Len(E) /\ q[k] = E[i + k - 1]
    BY <2>1, FromSeq
  <2> QED BY <2>2, LenProperties
<1>10. Covers(G(E[i]), done)
  BY <1>2, <1>3 DEF CoversCompleted, Covers
<1>11. Superseded(cp, generations, done)
  BY <1>3 DEF InvSuperseded
<1>12. \A a, b \in 1..n : a < b /\ Covers(G(cp[a]), done) => G(cp[b]) <= G(cp[a])
  <2> SUFFICES ASSUME NEW a \in 1..n, NEW b \in 1..n, a < b, Covers(G(cp[a]), done)
               PROVE  G(cp[b]) <= G(cp[a])
    OBVIOUS
  <2>1. IsSealed(cp[a]) /\ IsSealed(cp[b])
    BY <1>4, <1>8
  <2>2. NewestFirst(mem)
    BY <1>3 DEF IInv, InvOrder
  <2>3. NotBeyond(cp[b], generations[cp[a]].step, generations[cp[a]].results)
    BY <1>3, <2>1, <2>2 DEF NewestFirst, Covers
  <2> QED BY <2>1, <2>3 DEF NotBeyond
<1> HIDE DEF done, cp, n, G, E, q
<1>13. SUFFICES ASSUME NEW l \in 1..Len(q), ~Covers(G(q[l]), done)
                PROVE  \E k \in 1..(l - 1) : Covers(G(q[k]), done) /\ G(q[k]) \in done
  BY <1>2 DEF Superseded, q, G, done, E
<1> DEFINE a == i + l - 1
<1>14. a \in 1..Len(E) /\ q[l] = E[a] /\ a > i /\ i \in Nat /\ i >= 1 /\ l >= 2 /\ l \in Nat
  <2>1. i \in Nat /\ i >= 1 /\ l \in Nat /\ l >= 1
    BY <1>4, <1>9
  <2>2. a \in 1..Len(E) /\ q[l] = E[a]
    BY <1>9
  <2>3. l # 1
    BY <1>10, <1>13, <2>1, <2>2
  <2> QED BY <2>1, <2>2, <2>3
\* An entry before a that belongs to the longest prefix will do ...
<1>15. ASSUME NEW b \in Nat, i <= b, b < a, Covers(G(E[b]), done), G(E[b]) \in done
       PROVE  \E k \in 1..(l - 1) : Covers(G(q[k]), done) /\ G(q[k]) \in done
  <2>1. b - i + 1 \in 1..(l - 1) /\ i + (b - i + 1) - 1 = b
    BY <1>14, <1>15
  <2>2. b - i + 1 \in 1..Len(q)
    BY <1>9, <1>14, <2>1
  <2>3. q[b - i + 1] = E[b]
    BY <1>9, <2>1, <2>2
  <2> QED BY <1>15, <2>1, <2>3
<1> HIDE DEF a
\* ... among the retained checkpoints, or as the first pinned one.
<1>16. CASE a <= n
  <2>1. a \in 1..n /\ i \in 1..n /\ E[a] = cp[a] /\ E[i] = cp[i]
    BY <1>4, <1>14, <1>16
  <2>2. PICK b \in 1..(a - 1) : Covers(G(cp[b]), done) /\ G(cp[b]) \in done
    BY <1>11, <1>13, <1>14, <2>1 DEF Superseded, G, n
  <2>3. b \in 1..n /\ E[b] = cp[b] /\ b < a /\ b \in Nat
    BY <1>4, <2>1, <2>2
  <2>4. CASE i <= b
    BY <1>15, <2>2, <2>3, <2>4
  <2>5. CASE b < i
    <3>1. G(E[i]) <= G(E[b])
      BY <1>12, <2>1, <2>2, <2>3, <2>5
    <3>2. G(E[b]) <= G(E[i])
      BY <1>10, <2>2, <2>3 DEF Covers
    <3>3. G(E[i]) = G(E[b])
      BY <1>2, <1>8, <2>3, <3>1, <3>2, <1>4, <2>1
    <3>4. i < a /\ i \in Nat /\ i <= i
      BY <1>14
    <3> QED BY <1>10, <1>15, <2>2, <2>3, <3>3, <3>4
  <2> QED BY <2>3, <2>4, <2>5, <1>14
<1>17. CASE a > n
  <2>1. PICK s \in done : E[a] = mem.completed[s].checkpoint
    BY <1>4, <1>5, <1>14, <1>17
  <2>2. done # {} /\ G(E[a]) = s
    BY <1>6, <2>1
  <2>3. PICK t \in done : E[n + 1] = mem.completed[t].checkpoint /\ \A u \in done : u <= t
    BY <1>4, <1>5, <2>2
  <2>4. Covers(G(E[n + 1]), done) /\ G(E[n + 1]) \in done
    BY <1>6, <2>3 DEF Covers
  <2>5. a # n + 1
    BY <1>13, <1>14, <2>4
  <2>6. CASE i <= n
    <3>1. i <= n + 1 /\ n + 1 < a /\ n + 1 \in Nat
      BY <1>4, <1>14, <1>17, <2>5, <2>6
    <3> QED BY <1>15, <2>4, <3>1
  <2>7. CASE i > n
    <3>1. PICK u \in done : E[i] = mem.completed[u].checkpoint
      BY <1>2, <1>4, <1>5, <2>7
    <3>2. G(E[i]) \in done
      BY <1>6, <3>1
    <3>3. i < a /\ i \in Nat /\ i <= i
      BY <1>14
    <3> QED BY <1>10, <1>15, <3>2, <3>3
  <2> QED BY <1>4, <1>14, <2>6, <2>7
<1> QED BY <1>4, <1>14, <1>16, <1>17

\* The checkpoints a step lists without changing them stay as they were.
LEMMA ListStays ==
  ASSUME IInv, InvKept, NoRot, Stepping, NEW p, Progress(p),
         Referenced(p) \subseteq Referenced(progress),
         Superseded(p.checkpoints, generations, Completed(progress))
  PROVE  Superseded(p.checkpoints, generations', Completed(progress))
<1>1. Len(p.checkpoints) \in Nat
  BY LenProperties DEF Progress
<1>2. \A i \in 1..Len(p.checkpoints) :
        generations'[p.checkpoints[i]] = generations[p.checkpoints[i]]
  BY ReferencedStay DEF Referenced
<1> QED BY <1>1, <1>2, SupersededSame

\* A checkpoint short of what is complete is never tried before the one of the
\* longest completed prefix.
LEMMA InvSupersededStep ==
  ASSUME IInv, InvKept, InvSuperseded, NoRot, Stepping, TypeOK'
  PROVE  InvSuperseded'
<1> DEFINE done == Completed(progress)
<1>0. /\ Progress(mem) /\ Progress(progress)
      /\ pc # "idle" => Referenced(mem) \subseteq Referenced(progress)
      /\ pc # "idle" => Completed(mem) = done
  BY DEF IInv, InvMem, TypeOK, Completed
<1>1. /\ Superseded(progress.checkpoints, generations', done)
      /\ pc # "idle" => Superseded(mem.checkpoints, generations', done)
  BY <1>0, ListStays DEF InvSuperseded
<1>2. ASSUME UNCHANGED progress,
             pc # "idle" => mem' = mem \/ pc' = "idle",
             pc = "idle" => mem' = progress \/ pc' = "idle"
      PROVE  InvSuperseded'
  BY <1>1, <1>2 DEF InvSuperseded
<1>3. CASE Restore
  <2>1. UNCHANGED <<progress, generations>> /\ pc = "opened"
    BY <1>3 DEF Restore, disk
  <2>2. Superseded(mem'.checkpoints, generations, done)
    BY <1>3, RestoreSuperseded
  <2> QED BY <1>1, <2>1, <2>2 DEF InvSuperseded
<1>4. CASE Initialize
  <2>1. mem'.checkpoints = <<>> /\ UNCHANGED progress
    BY <1>0, <1>4 DEF Initialize, disk, Progress
  <2>2. Superseded(<<>>, generations', done)
    BY EmptySeq DEF Superseded
  <2> QED BY <1>1, <2>1, <2>2 DEF InvSuperseded
<1>5. CASE PublishCheckpoint
  <2> DEFINE q == mem'.checkpoints
  <2>1. /\ UNCHANGED <<generations, step, gen>> /\ progress' = mem' /\ pc = "sealed"
        /\ Completed(progress') = done /\ q \in Seq(Generation)
        /\ q # <<>> /\ q[1] = gen
        /\ \A i \in 1..Len(q) : i > 1 => /\ i - 1 \in 1..Len(mem.checkpoints)
                                         /\ q[i] = mem.checkpoints[i - 1]
    BY <1>5, PublishFacts DEF Completed, TypeOK, Progress
  <2>2. generations[gen].step = step
    BY <2>1, SealedPoint DEF Late
  <2>3. Covers(step, done)
    BY <2>1 DEF IInv, InvCovers, Active, Sessions, Covers
  <2>4. Len(q) \in Nat
    BY <2>1, LenProperties
  <2>5. Superseded(mem.checkpoints, generations, done)
    BY <2>1 DEF InvSuperseded
  <2> HIDE DEF q, done
  <2>6. ASSUME NEW j \in 1..Len(q), ~Covers(generations[q[j]].step, done)
        PROVE  \E i \in 1..(j - 1) : /\ Covers(generations[q[i]].step, done)
                                     /\ generations[q[i]].step \in done
    <3>1. j # 1
      BY <2>1, <2>2, <2>3, <2>6
    <3>2. j - 1 \in 1..Len(mem.checkpoints) /\ q[j] = mem.checkpoints[j - 1]
      BY <2>1, <2>4, <3>1
    <3>3. PICK i \in 1..(j - 1 - 1) : /\ Covers(generations[mem.checkpoints[i]].step, done)
                                      /\ generations[mem.checkpoints[i]].step \in done
      BY <2>5, <2>6, <3>2 DEF Superseded
    <3>4. i + 1 \in 1..(j - 1) /\ i + 1 \in 1..Len(q) /\ i + 1 > 1 /\ i + 1 - 1 = i
      BY <2>4
    <3>5. q[i + 1] = mem.checkpoints[i]
      BY <2>1, <3>4
    <3> QED BY <3>3, <3>4, <3>5
  <2>7. Superseded(q, generations, done)
    BY <2>6 DEF Superseded
  <2> QED BY <2>1, <2>7 DEF InvSuperseded, q
<1>6. CASE Finish
  <2> DEFINE q == mem.checkpoints
             all == done \union {step}
  <2>1. /\ UNCHANGED <<generations, step, gen>> /\ progress' = mem' /\ pc = "finishing"
        /\ Completed(progress') = all /\ mem'.checkpoints = q /\ q \in Seq(Generation)
        /\ q # <<>> /\ q[1] = gen
    BY <1>0, <1>6, FinishFacts DEF Progress
  <2>2. generations[gen].step = step /\ step \in Nat
    BY <2>1, SealedPoint DEF Late, IInv, TypeOK
  <2>3. Covers(step, all)
    BY <2>1, <2>2 DEF IInv, InvCovers, Active, Sessions, Covers
  <2>4. 1 \in 1..Len(q)
    BY <2>1, FirstReferenced
  <2> HIDE DEF q, all
  <2>5. step \in all
    BY DEF all
  <2>6. ASSUME NEW j \in 1..Len(q), ~Covers(generations[q[j]].step, all)
        PROVE  \E i \in 1..(j - 1) : /\ Covers(generations[q[i]].step, all)
                                     /\ generations[q[i]].step \in all
    <3>1. j # 1
      BY <2>1, <2>2, <2>3, <2>6
    <3>2. 1 \in 1..(j - 1)
      BY <2>4, <3>1
    <3> QED BY <2>1, <2>2, <2>3, <2>5, <3>2
  <2>7. Superseded(q, generations, all)
    BY <2>6 DEF Superseded
  <2> QED BY <2>1, <2>7 DEF InvSuperseded
<1>7. CASE PublishFailure
  <2>1. /\ pc' = "idle" /\ UNCHANGED generations /\ pc = "failing"
        /\ progress'.checkpoints = mem.checkpoints /\ Completed(progress') = done
    BY <1>7, FailureFacts DEF PublishFailure, Completed
  <2> QED BY <1>1, <2>1 DEF InvSuperseded
<1> QED BY <1>2, <1>3, <1>4, <1>5, <1>6, <1>7, Frame

\* A session is opened only for a budget that nothing completed covers.
Executing == (Active \union {"opened"}) \ {"completing"}
LEMMA InvLongerStep ==
  ASSUME IInv, InvLonger, Stepping
  PROVE  InvLonger'
<1> USE DEF disk, session, Executing, Active, Sessions
<1>0. /\ Completed(progress) \subseteq Nat /\ Budgets \subseteq Nat
      /\ InvLonger <=> (pc \in Executing => \A s \in Completed(progress) : s < budget)
  BY BudgetsAssumption DEF IInv, TypeOK, Progress, InvLonger, Step
<1>1. ASSUME UNCHANGED <<progress, budget>>, pc' \in Executing => pc \in Executing
      PROVE  InvLonger'
  BY <1>0, <1>1 DEF InvLonger
<1>2. CASE Opening
  <2>1. PICK b \in Budgets : Open(b) \/ RejectCompletion(b)
    BY <1>2 DEF Opening
  <2>2. CASE Open(b)
    <3>1. budget' = b /\ UNCHANGED progress /\ Covering(b) = {} /\ b \in Nat
      BY <1>0, <2>2 DEF Open
    <3>2. \A s \in Completed(progress) : s < b
      BY <1>0, <3>1 DEF Covering
    <3> QED BY <3>1, <3>2 DEF InvLonger
  <2>3. CASE RejectCompletion(b)
    BY <2>3 DEF RejectCompletion, InvLonger
  <2> QED BY <2>1, <2>2, <2>3
<1>3. CASE PublishCheckpoint
  BY <1>0, <1>3, PublishFacts DEF InvLonger, Completed
<1>4. CASE Finish \/ PublishFailure
  BY <1>4 DEF Finish, PublishFailure, Return, Forget, InvLonger
<1>5. CASE Quiet
  <2>1. ASSUME NEW b \in Budgets, Reuse(b) PROVE InvLonger'
    BY <2>1 DEF Reuse, InvLonger
  <2>2. \/ \E b \in Budgets : Reuse(b)
        \/ UNCHANGED <<progress, budget>> /\ (pc' \in Executing => pc \in Executing)
    BY <1>5 DEF Quiet, CreateInstance, RestoreFails, Resume, Continue, CheckpointDone,
                FinalCheckpointDone, Pruned, WriteFailure
  <2> QED BY <1>1, <2>1, <2>2
<1>6. CASE Ending
  BY <1>6 DEF Ending, PauseDone, ClearFailure, AbandonFailure, Crash, Return, Forget, InvLonger
<1>7. ASSUME NEW g \in Generation, Clearing(g) \/ SealGeneration \/ Raise
      PROVE  UNCHANGED <<progress, budget>> /\ (pc' \in Executing => pc \in Executing)
  BY <1>7 DEF Clearing, MakeGeneration, PruneGeneration, RotGeneration, Raise,
              SealGeneration
<1>8. CASE SealGeneration \/ Raise
  BY <1>1, <1>8 DEF SealGeneration, Raise
<1>9. CASE \/ \E f \in results : DiscardTail(f) \/ RotChunk(f)
           \/ \E d \in Draws : Advance(d)
           \/ Checkpointing \/ UNCHANGED vars \/ Restore \/ Initialize
  BY <1>1, <1>9 DEF DiscardTail, RotChunk, Advance, Checkpointing, CheckpointDue, Pause,
                    Finalize, BeginCheckpoint, vars, Restore, Initialize
<1> QED BY <1>1, <1>2, <1>3, <1>4, <1>5, <1>6, <1>7, <1>8, <1>9 DEF Stepping

\* The sealed generation holds what the session has lived through.
LEMMA InvSealingStep ==
  ASSUME IInv, InvKept, InvSealing, NoRot, Stepping
  PROVE  InvSealing'
<1>1. CASE SealGeneration
  <2>1. /\ generations' = [generations EXCEPT ![gen] = Sealed(step, observed, chunks)]
        /\ gen \in Generation /\ DOMAIN generations = Generation
        /\ UNCHANGED <<gen, observed>>
    BY <1>1 DEF SealGeneration, IInv, TypeOK, session
  <2>2. generations'[gen].observed = observed
    BY <2>1 DEF Sealed
  <2> QED BY <2>1, <2>2 DEF InvSealing
<1>2. CASE PublishCheckpoint
  BY <1>2, PublishFacts DEF InvSealing
<1>3. ASSUME ~SealGeneration, ~PublishCheckpoint, pc' \in Late
      PROVE  generations'[gen'].observed = observed'
  BY <1>3, LateFrame DEF InvSealing, Late
<1> QED BY <1>1, <1>2, <1>3 DEF InvSealing, Late

\* What the components have lived through grows while the session lasts.
LEMMA ObservedGrows ==
  ASSUME Stepping, pc \in Active, pc' \in Active
  PROVE  observed \subseteq observed'
<1> USE DEF disk, session
<1>1. ASSUME NEW d \in Draws, Advance(d) PROVE observed \subseteq observed'
  BY <1>1 DEF Advance
<1>2. \/ UNCHANGED observed
      \/ \E d \in Draws : Advance(d)
      \/ pc' \notin Active \/ pc \notin Active
  BY DEF Stepping, Quiet, vars, Reuse, CreateInstance, RestoreFails, Resume, Continue,
         CheckpointDone, FinalCheckpointDone, WriteFailure, Ending, PauseDone, ClearFailure,
         AbandonFailure, Crash, Return, Forget, Opening, Open, RejectCompletion, Restore,
         Initialize, DiscardTail, RotChunk, Checkpointing, CheckpointDue, Pause, Finalize,
         BeginCheckpoint, Clearing, MakeGeneration, PruneGeneration, RotGeneration, Raise,
         SealGeneration, PublishCheckpoint, CommitCheckpoint, Finish, PublishFailure,
         Active, Sessions
<1> QED BY <1>1, <1>2

\* It is enough to show InvNewest of the checkpoint that is the newest one.
LEMMA NewestNext ==
  ASSUME NEW g, progress'.checkpoints # <<>>, Newest(progress') = g, Valid(g)',
         pc' # "idle" => mem'.checkpoints # <<>> /\ Newest(mem') = g,
         pc' \in Active => Len(generations'[g].results) <= Len(chunks'),
         pc' \in Active => generations'[g].observed \subseteq observed'
  PROVE  InvNewest'
<1>1. Valid(Newest(progress))' /\ Newest(progress)' = g /\ Newest(mem)' = Newest(mem')
  BY DEF Valid, Intact, Newest
<1> QED BY <1>1 DEF InvNewest

\* While every payload decodes, the newest checkpoint is the one resumed.
LEMMA InvNewestStep ==
  ASSUME IInv, InvKept, InvNewest, InvSealing, NoRot, Stepping, TypeOK'
  PROVE  InvNewest'
<1> SUFFICES ASSUME Faults = {}
             PROVE  InvNewest'
  BY DEF InvNewest
<1>0. /\ Progress(mem) /\ Progress(progress) /\ Progress(mem')
      /\ progress.checkpoints \in Seq(Generation) /\ mem.checkpoints \in Seq(Generation)
  BY DEF IInv, TypeOK, Progress
<1>1. ASSUME Referenced(progress) # {}
      PROVE  /\ progress.checkpoints # <<>> /\ Valid(Newest(progress))
             /\ Newest(progress) \in Referenced(progress)
             /\ Valid(Newest(progress)) /\ 1 \in 1..Len(progress.checkpoints)
  BY <1>0, <1>1, FirstReferenced DEF InvNewest, Newest
<1>2. ASSUME UNCHANGED progress,
             pc # "idle" => mem' = mem \/ pc' = "idle",
             pc = "idle" => mem' = progress \/ pc' = "idle",
             pc' \in Active => pc \in Active, Referenced(progress) # {}
      PROVE  InvNewest'
  <2> PICK g : g = Newest(progress)
    OBVIOUS
  <2>1. /\ g \in Referenced(progress) /\ Valid(g) /\ progress.checkpoints # <<>>
        /\ pc # "idle" => mem.checkpoints # <<>> /\ Newest(mem) = g
        /\ pc \in Active => /\ Len(generations[g].results) <= Len(chunks)
                            /\ generations[g].observed \subseteq observed
    BY <1>1, <1>2 DEF InvNewest
  <2>2. /\ Valid(g)' /\ generations'[g] = generations[g]
        /\ pc' \in Active => Len(generations'[g].results) <= Len(chunks')
    BY <1>2, <2>1, ValidStays, ReferencedStay
  <2>3. pc' \in Active => generations'[g].observed \subseteq observed'
    BY <1>2, <2>1, <2>2, ObservedGrows
  <2>4. pc' # "idle" => mem'.checkpoints # <<>> /\ Newest(mem') = g
    BY <1>2, <2>1
  <2>5. progress'.checkpoints # <<>> /\ Newest(progress') = g
    BY <1>2, <2>1
  <2> QED BY <2>2, <2>3, <2>4, <2>5, NewestNext
<1>3. ASSUME UNCHANGED progress, Referenced(progress) = {} PROVE InvNewest'
  BY <1>3 DEF InvNewest
<1>4. ASSUME Restore, Referenced(progress) # {} PROVE InvNewest'
  <2>1. /\ UNCHANGED <<progress, generations, results>> /\ pc = "opened" /\ pc' = "discarding"
        /\ mem = progress
    BY <1>4 DEF Restore, disk, IInv, InvMem
  <2> PICK g : g = Newest(progress)
    OBVIOUS
  <2>2. /\ mem.checkpoints # <<>> /\ mem.checkpoints[1] = g /\ Valid(g)
        /\ 1 \in 1..Len(mem.checkpoints)
    BY <1>1, <1>4, <2>1 DEF Newest
  <2>3. PICK order \in LongestFirst(mem) :
          \E i \in 1..Len(Entries(mem, order)) :
            /\ Faults = {} => \A j \in 1..(i - 1) : ~Valid(Entries(mem, order)[j])
            /\ mem'.checkpoints = From(Entries(mem, order), i, Keep)
            /\ Load(generations[Entries(mem, order)[i]])
    BY <1>4, RestoreKeeps
  <2> DEFINE E == Entries(mem, order)
  <2>4. PICK i \in 1..Len(E) : /\ \A j \in 1..(i - 1) : ~Valid(E[j])
                               /\ mem'.checkpoints = From(E, i, Keep)
                               /\ Load(generations[E[i]])
    BY <2>3
  <2>5. E \in Seq(Generation) /\ E[1] = g /\ Len(E) \in Nat
    BY <1>0, <2>2, EntriesFacts
  <2> HIDE DEF E
  <2>6. i = 1
    <3>1. i \in Nat /\ i >= 1
      BY <2>4, <2>5
    <3>2. i > 1 => 1 \in 1..(i - 1)
      BY <3>1
    <3> QED BY <2>2, <2>4, <2>5, <3>1, <3>2
  <2>7. mem'.checkpoints # <<>> /\ Newest(mem') = g
    BY <2>4, <2>5, <2>6, FromSeq, KeepAssumption DEF Newest
  <2>8. Valid(g)'
    BY <2>1, <2>2 DEF Valid, Intact
  <2>9. chunks' = generations'[g].results /\ observed' = generations'[g].observed
    BY <2>1, <2>4, <2>5, <2>6 DEF Load
  <2>10. Len(chunks') \in Nat
    BY LenProperties DEF TypeOK, Manifest
  <2>11. Len(generations'[g].results) <= Len(chunks')
    BY <2>9, <2>10
  <2> QED BY <1>1, <1>4, <2>1, <2>7, <2>8, <2>9, <2>11, NewestNext
<1>5. CASE Initialize
  <2>1. /\ UNCHANGED progress /\ mem = progress
        /\ \A g \in Referenced(mem) : ~Valid(g)
    BY <1>5 DEF Initialize, disk, IInv, InvMem
  <2> QED BY <1>1, <1>3, <2>1
<1>6. CASE PublishCheckpoint \/ Finish
  <2> PICK g : g = gen
    OBVIOUS
  <2>1. /\ Valid(g) /\ generations[g].results = chunks /\ generations[g].observed = observed
        /\ chunks \in Manifest
    BY <1>6, PublishFacts, FinishFacts, SealedPoint DEF Late, InvSealing, IInv, TypeOK
  <2>2. /\ mem'.checkpoints # <<>> /\ Newest(mem') = g /\ progress' = mem'
        /\ UNCHANGED <<generations, results, chunks, observed>>
    BY <1>6, PublishFacts, FinishFacts DEF Newest
  <2>3. Valid(g)'
    BY <2>1, <2>2 DEF Valid, Intact
  <2>4. Len(generations'[g].results) <= Len(chunks')
    BY <2>1, <2>2, LenProperties DEF Manifest
  <2> QED BY <2>1, <2>2, <2>3, <2>4, NewestNext
<1>7. CASE PublishFailure
  <2>1. /\ pc = "failing" /\ pc' = "idle" /\ UNCHANGED <<generations, results>>
        /\ progress'.checkpoints = mem.checkpoints
        /\ Referenced(progress') \subseteq Referenced(progress)
    BY <1>7, FailureFacts DEF PublishFailure
  <2>2. CASE Referenced(progress) = {}
    BY <2>1, <2>2 DEF InvNewest
  <2>3. CASE Referenced(progress) # {}
    <3> PICK g : g = Newest(progress)
      OBVIOUS
    <3>1. mem.checkpoints # <<>> /\ Newest(mem) = g /\ Valid(g)
      BY <1>1, <2>1, <2>3 DEF InvNewest
    <3>2. Valid(g)' /\ progress'.checkpoints # <<>> /\ Newest(progress') = g
      BY <2>1, <3>1 DEF Valid, Intact, Newest
    <3> QED BY <2>1, <3>2, NewestNext DEF Active, Sessions
  <2> QED BY <2>2, <2>3
<1>8. CASE Restore
  BY <1>3, <1>4, <1>8 DEF Restore, disk
<1> QED BY <1>2, <1>3, <1>5, <1>6, <1>7, <1>8, Frame
-----------------------------------------------------------------------------
(* The theorems *)

\* The strengthened invariant, inductive when nothing is damaged at rest.
LEMMA RInvNext ==
  ASSUME NoRot, RInv, [Next]_vars
  PROVE  RInv'
<1> SUFFICES ASSUME Stepping, IInv', TypeOK' PROVE RInv'
  BY IInvNext DEF RInv
<1>1. CompletedReadable' /\ InvKept' /\ InvFiles'
  BY CompletedReadableStep, InvKeptStep, InvFilesStep DEF RInv, NoRot
<1>2. InvPoint' /\ InvSuperseded' /\ InvLonger'
  BY InvPointStep, InvSupersededStep, InvLongerStep DEF RInv
<1>3. InvNewest' /\ InvSealing'
  BY InvNewestStep, InvSealingStep DEF RInv
<1> QED BY <1>1, <1>2, <1>3 DEF RInv

LEMMA ResumeInvariance ==
  ASSUME NoRot
  PROVE  Spec => []RInv
<1>1. Init => RInv
  <2> SUFFICES ASSUME Init PROVE RInv
    OBVIOUS
  <2>1. IInv
    BY IInvInit
  <2>2. /\ Completed(progress) = {} /\ Pinned(progress) = {} /\ Referenced(progress) = {}
        /\ pc = "idle" /\ results = {} /\ Len(progress.checkpoints) = 0
    BY EmptySeq DEF Init, NoProgress, Completed, Pinned, Referenced
  <2> QED BY <2>1, <2>2 DEF RInv, CompletedReadable, InvKept, InvFiles, InvPoint, InvSuperseded,
                            Superseded, InvLonger, InvNewest, InvSealing, Active, Sessions
<1>2. RInv /\ [Next]_vars => RInv'
  BY RInvNext
<1> QED BY <1>1, <1>2, PTL DEF Spec

\* A run that ever published a checkpoint can be resumed from one, at or beyond
\* everything published as complete, however often it was killed, fell back to
\* older checkpoints for want of a decoder or failed half-way through a
\* publication, as long as no file is damaged at rest.
THEOREM ResumePointRemains ==
  ASSUME NoRot
  PROVE  Spec => []SomeResumePoint
<1>1. RInv => SomeResumePoint
  <2> SUFFICES ASSUME RInv, Referenced(progress) # {}
               PROVE  \E g \in Referenced(progress) :
                        Valid(g) /\ \A s \in Completed(progress) : s <= generations[g].step
    BY DEF SomeResumePoint
  <2>1. PICK g \in Referenced(IF pc = "idle" THEN progress ELSE mem) : Valid(g) /\ CoversAll(g)
    BY DEF RInv, InvPoint
  <2>2. g \in Referenced(progress)
    BY <2>1 DEF RInv, IInv, InvMem
  <2> QED BY <2>1, <2>2 DEF CoversAll, Covers
<1> QED BY <1>1, ResumeInvariance, PTL
-----------------------------------------------------------------------------
(* The store implements DurableRun *)

\* The first entry restore() would load is the one ResumeRows shows.
LEMMA ResumeFirst ==
  ASSUME Progress(progress)
  PROVE  \E order \in LongestFirst(progress) :
           LET E == Entries(progress, order) IN
           /\ (\A i \in 1..Len(E) : ~Valid(E[i])) => ResumeRows = {}
           /\ \A i \in 1..Len(E) :
                Valid(E[i]) /\ (\A j \in 1..Len(E) : Valid(E[j]) => i <= j)
                => ResumeRows = generations[E[i]].observed
<1> DEFINE order == CHOOSE o \in LongestFirst(progress) : TRUE
           E == Entries(progress, order)
           valid == {i \in 1..Len(E) : Valid(E[i])}
           first == CHOOSE i \in valid : \A j \in valid : i <= j
<1>1. order \in LongestFirst(progress)
  BY LongestFirstIsDescending, DescendingExists
<1>2. ResumeRows = IF valid = {} THEN {} ELSE generations[E[first]].observed
  BY DEF ResumeRows
<1>3. Len(E) \in Nat
  BY <1>1, EntriesFacts
<1>4. ASSUME NEW i \in 1..Len(E), Valid(E[i]), \A j \in 1..Len(E) : Valid(E[j]) => i <= j
      PROVE  valid # {} /\ first = i
  <2>1. i \in valid /\ \A j \in valid : i <= j
    BY <1>4
  <2>2. first \in valid /\ \A j \in valid : first <= j
    BY <2>1
  <2>3. first \in Nat /\ i \in Nat /\ first <= i /\ i <= first
    BY <1>3, <2>1, <2>2
  <2> HIDE DEF first, valid
  <2>4. first = i
    BY <2>3
  <2> QED BY <2>1, <2>4
<1> HIDE DEF order
<1>5. (\A i \in 1..Len(E) : ~Valid(E[i])) => ResumeRows = {}
  BY <1>2
<1>6. \A i \in 1..Len(E) :
        Valid(E[i]) /\ (\A j \in 1..Len(E) : Valid(E[j]) => i <= j)
        => ResumeRows = generations[E[i]].observed
  <2> HIDE DEF E, valid, first
  <2> QED BY <1>2, <1>4
<1> QED BY <1>1, <1>5, <1>6

\* A newest checkpoint that is valid is what a new process resumes from.
ResumesNewest ==
  Progress(progress) /\ progress.checkpoints # <<>> /\ Valid(Newest(progress))
    => ResumeRows = generations[Newest(progress)].observed
LEMMA ResumeNewest == ResumesNewest
<1> SUFFICES ASSUME Progress(progress), progress.checkpoints # <<>>, Valid(Newest(progress))
             PROVE  ResumeRows = generations[Newest(progress)].observed
  BY DEF ResumesNewest
<1>1. PICK order \in LongestFirst(progress) :
        \A i \in 1..Len(Entries(progress, order)) :
          Valid(Entries(progress, order)[i])
          /\ (\A j \in 1..Len(Entries(progress, order)) :
                Valid(Entries(progress, order)[j]) => i <= j)
          => ResumeRows = generations[Entries(progress, order)[i]].observed
  BY ResumeFirst
<1> DEFINE E == Entries(progress, order)
<1>2. 1 \in 1..Len(progress.checkpoints)
  BY FirstReferenced DEF Progress
<1>3. Len(E) \in Nat /\ E[1] = progress.checkpoints[1] /\ 1 \in 1..Len(E)
  BY <1>2, EntriesFacts
<1> HIDE DEF E
<1>4. \A j \in 1..Len(E) : 1 <= j
  BY <1>3
<1> QED BY <1>1, <1>3, <1>4 DEF E, Newest

\* The checkpoint of a completed prefix has all its chunks.
LEMMA PrefixValid ==
  ASSUME RInv, NEW g \in Referenced(progress), generations[g].step \in Completed(progress)
  PROVE  Valid(g)
<1> DEFINE s == generations[g].step
<1>1. IsSealed(g) /\ s \in Nat
  BY DEF RInv, InvKept, IInv, TypeOK, Progress
<1>2. generations[g].results = progress.completed[s].results
  BY <1>1 DEF RInv, IInv, InvEntries
<1>3. Intact(progress.completed[s].results)
  BY DEF RInv, CompletedReadable
<1> QED BY <1>1, <1>2, <1>3 DEF Valid, IsSealed

\* The first entry that validates covers everything complete, and there is one
\* once there is any entry.
LEMMA FirstValidCovers ==
  ASSUME RInv, NEW order \in LongestFirst(progress)
  PROVE  LET E == Entries(progress, order) IN
         /\ \A k \in 1..Len(E) : E[k] \in Referenced(progress)
         /\ Referenced(progress) = {} => Completed(progress) = {}
         /\ Referenced(progress) # {} => \E k \in 1..Len(E) : Valid(E[k])
         /\ \A i \in 1..Len(E) :
              Valid(E[i]) /\ (\A j \in 1..Len(E) : Valid(E[j]) => i <= j) => CoversAll(E[i])
<1> DEFINE n == Len(progress.checkpoints)
           pinned(s) == progress.completed[s].checkpoint
           E == Entries(progress, order)
<1>0. Progress(progress) /\ Completed(progress) = Pinned(progress)
  BY DEF RInv, InvKept, IInv, TypeOK
<1>2. /\ E \in Seq(Generation) /\ n \in Nat /\ Len(E) \in Nat /\ n <= Len(E)
      /\ \A k \in 1..n : E[k] = progress.checkpoints[k]
      /\ \A k \in 1..Len(E) : k > n => \E s \in Pinned(progress) : E[k] = pinned(s)
      /\ Pinned(progress) # {} =>
           /\ n + 1 <= Len(E)
           /\ \E s \in Pinned(progress) : /\ E[n + 1] = pinned(s)
                                          /\ \A t \in Pinned(progress) : t <= s
      /\ Pinned(progress) = {} => Len(E) = n
  BY <1>0, EntriesFacts
<1>3. \A k \in 1..Len(E) : E[k] \in Referenced(progress)
  BY <1>2 DEF Referenced
<1>4. \A s \in Completed(progress) : /\ generations[pinned(s)].step = s
                                     /\ pinned(s) \in Referenced(progress)
  BY <1>0 DEF RInv, InvKept, IInv, InvPinned, Referenced
<1>5. ASSUME Completed(progress) # {}
      PROVE  n + 1 \in 1..Len(E) /\ Valid(E[n + 1]) /\ CoversAll(E[n + 1])
  <2>1. PICK s \in Completed(progress) : /\ E[n + 1] = pinned(s)
                                         /\ \A t \in Completed(progress) : t <= s
    BY <1>0, <1>2, <1>5
  <2>2. generations[E[n + 1]].step = s
    BY <1>4, <2>1
  <2>3. n + 1 \in 1..Len(E)
    BY <1>0, <1>2, <1>5
  <2>4. Valid(E[n + 1])
    BY <1>4, <2>1, <2>2, PrefixValid
  <2> QED BY <2>1, <2>2, <2>3, <2>4 DEF CoversAll, Covers
<1>6. Referenced(progress) = {} => Completed(progress) = {}
  BY <1>4
<1>7. ASSUME Referenced(progress) # {} PROVE \E k \in 1..Len(E) : Valid(E[k])
  <2>1. CASE Completed(progress) # {}
    BY <1>5, <2>1
  <2>2. CASE Completed(progress) = {}
    <3>1. PICK g \in Referenced(progress) : Valid(g)
      BY <1>7 DEF RInv, InvPoint, IInv, InvMem
    <3>2. PICK k \in 1..n : g = progress.checkpoints[k]
      BY <1>0, <2>2, <3>1 DEF Referenced
    <3>3. k \in 1..Len(E) /\ E[k] = g
      BY <1>2, <3>2
    <3> QED BY <3>1, <3>3
  <2> QED BY <2>1, <2>2
<1>8. ASSUME NEW i \in 1..Len(E), Valid(E[i]), \A j \in 1..Len(E) : Valid(E[j]) => i <= j
      PROVE  CoversAll(E[i])
  <2>1. SUFFICES ASSUME ~CoversAll(E[i]) PROVE FALSE
    OBVIOUS
  <2>2. Completed(progress) # {}
    BY <2>1 DEF CoversAll, Covers
  <2>3. i <= n
    BY <1>2, <1>5, <1>8, <2>1, <2>2
  <2>4. PICK k \in 1..(i - 1) : generations[progress.checkpoints[k]].step \in Completed(progress)
    BY <1>2, <2>1, <2>3 DEF RInv, InvSuperseded, Superseded, CoversAll
  <2>5. k \in 1..Len(E) /\ E[k] = progress.checkpoints[k] /\ k < i
    BY <1>2, <2>3, <2>4
  <2>6. Valid(E[k])
    BY <1>3, <2>4, <2>5, PrefixValid
  <2> QED BY <1>2, <1>8, <2>5, <2>6
<1> QED BY <1>3, <1>6, <1>7, <1>8

\* What a new process would resume from covers everything complete.
LEMMA ResumePoint ==
  ASSUME RInv
  PROVE  \/ Referenced(progress) = {} /\ Completed(progress) = {} /\ ResumeRows = {}
         \/ \E g \in Referenced(progress) :
              Valid(g) /\ CoversAll(g) /\ ResumeRows = generations[g].observed
<1>0. Progress(progress)
  BY DEF RInv, IInv, TypeOK
<1>1. PICK order \in LongestFirst(progress) :
        LET E == Entries(progress, order) IN
        /\ (\A i \in 1..Len(E) : ~Valid(E[i])) => ResumeRows = {}
        /\ \A i \in 1..Len(E) :
             Valid(E[i]) /\ (\A j \in 1..Len(E) : Valid(E[j]) => i <= j)
             => ResumeRows = generations[E[i]].observed
  BY <1>0, ResumeFirst
<1> DEFINE E == Entries(progress, order)
<1>2. /\ \A k \in 1..Len(E) : E[k] \in Referenced(progress)
      /\ Referenced(progress) = {} => Completed(progress) = {}
      /\ Referenced(progress) # {} => \E k \in 1..Len(E) : Valid(E[k])
      /\ \A i \in 1..Len(E) :
           Valid(E[i]) /\ (\A j \in 1..Len(E) : Valid(E[j]) => i <= j) => CoversAll(E[i])
  BY FirstValidCovers
<1>3. CASE Referenced(progress) = {}
  <2>1. \A i \in 1..Len(E) : ~Valid(E[i])
    BY <1>2, <1>3
  <2> QED BY <1>1, <1>2, <1>3, <2>1
<1>4. CASE Referenced(progress) # {}
  <2> DEFINE valid == {i \in 1..Len(E) : Valid(E[i])}
  <2>1. valid # {} /\ valid \in SUBSET Nat
    BY <1>2, <1>4
  <2>2. PICK i \in valid : \A j \in valid : i <= j
    <3> HIDE DEF valid
    <3> QED BY <2>1, LeastExists
  <2>3. i \in 1..Len(E) /\ Valid(E[i]) /\ \A j \in 1..Len(E) : Valid(E[j]) => i <= j
    BY <2>2
  <2> HIDE DEF E
  <2> QED BY <1>1, <1>2, <2>3 DEF E
<1> QED BY <1>3, <1>4

\* A manifest that is intact reads as the rows it names.
LEMMA ReadableIsNamed ==
  ASSUME InvFiles, results \subseteq ChunkFile, NEW m \in Manifest, Intact(m)
  PROVE  ReadableRows(m) = RowsOf(m)
<1>1. Len(m) \in Nat
  BY LenProperties DEF Manifest
<1>2. \A f \in results : f[1] \in Nat /\ f[1] >= 1
  BY DEF ChunkFile, Step
<1>3. ASSUME NEW f \in results, f[1] <= Len(m)
      PROVE  f[1] \in 1..Len(m) /\ f[2] = m[f[1]]
  <2>1. f[1] \in 1..Len(m)
    BY <1>1, <1>2, <1>3
  <2>2. <<f[1], m[f[1]]>> \in results
    BY <2>1 DEF Intact
  <2>3. f = <<f[1], m[f[1]]>>
    BY <2>2 DEF InvFiles
  <2>4. f[2] = m[f[1]]
    BY <2>3
  <2> QED BY <2>1, <2>4
<1>4. \A i \in 1..Len(m) : /\ <<i, m[i]>> \in results /\ <<i, m[i]>>[1] <= Len(m)
                           /\ <<i, m[i]>>[2] = m[i]
  BY <1>1 DEF Intact
<1>5. \A x : x \in ReadableRows(m) <=> \E f \in results : f[1] <= Len(m) /\ x \in f[2]
  BY DEF ReadableRows
<1>6. \A x : x \in RowsOf(m) <=> \E i \in 1..Len(m) : x \in m[i]
  BY DEF RowsOf
<1>7. ASSUME NEW x \in ReadableRows(m) PROVE x \in RowsOf(m)
  BY <1>3, <1>5, <1>6, <1>7
<1>8. ASSUME NEW x \in RowsOf(m) PROVE x \in ReadableRows(m)
  <2>1. PICK i \in 1..Len(m) : x \in m[i]
    BY <1>6, <1>8
  <2> PICK f : f = <<i, m[i]>>
    OBVIOUS
  <2>2. f \in results /\ f[1] <= Len(m) /\ f[2] = m[i]
    BY <1>4
  <2> QED BY <1>5, <2>1, <2>2
<1> QED BY <1>7, <1>8

\* DurableRun counts rows as this module does.
LEMMA SameLength == \A rows : Promise!Length(rows) = Cardinality(rows)
  BY DEF Promise!Length, Promise!Cardinality, Cardinality

\* What DurableRun calls done, and what it promises of it in every state
DoneRows == [s \in Completed(progress) |-> RowsOf(progress.completed[s].results)]
Backed ==
  /\ [s \in Completed(progress) |-> ReadableRows(progress.completed[s].results)] = DoneRows
  /\ Promise!Life(ResumeRows)
  /\ \A s \in Completed(progress) : s <= Promise!Length(ResumeRows)
                                    /\ DoneRows[s] \subseteq ResumeRows

LEMMA RInvBacked == RInv => Backed
<1> SUFFICES ASSUME RInv PROVE Backed
  OBVIOUS
<1>0. \A s \in Completed(progress) :
        progress.completed[s].results \in Manifest /\ Intact(progress.completed[s].results)
  BY DEF RInv, IInv, TypeOK, Progress, CompletedReadable
<1>1. [s \in Completed(progress) |-> ReadableRows(progress.completed[s].results)] = DoneRows
  BY <1>0, ReadableIsNamed DEF RInv, IInv, TypeOK, DoneRows
<1>2. CASE Referenced(progress) = {} /\ Completed(progress) = {} /\ ResumeRows = {}
  <2>1. Promise!Length({}) = 0 /\ 1..0 = {}
    BY FS_EmptySet, SameLength
  <2> QED BY <1>1, <1>2, <2>1 DEF Backed, Promise!Life
<1>3. ASSUME NEW g \in Referenced(progress), Valid(g), CoversAll(g),
             ResumeRows = generations[g].observed
      PROVE  Backed
  <2> DEFINE e == generations[g]
  <2>1. g \in Generation /\ IsSealed(g)
    BY <1>3, ReferencedType DEF RInv, IInv, TypeOK, Valid, IsSealed
  <2>2. e.step \in Nat /\ e.results \in Manifest /\ Records(e.step, e.observed, e.results, {})
    BY <2>1, SealedType DEF RInv, IInv, InvGenerations
  <2>3. Timeline(e.observed, e.step) /\ RowsOf(e.results) \subseteq e.observed
    BY <2>2 DEF Records, Kept
  <2>4. Promise!Length(ResumeRows) = e.step
    BY <1>3, <2>2, <2>3, LifeLength, SameLength
  <2>5. Promise!Life(ResumeRows)
    BY <1>3, <2>3, <2>4 DEF Promise!Life, Timeline
  <2>6. ASSUME NEW s \in Completed(progress)
        PROVE  s <= e.step /\ DoneRows[s] \subseteq ResumeRows
    <3> DEFINE m == progress.completed[s].results
    <3>1. s <= e.step
      BY <1>3 DEF CoversAll, Covers
    <3>2. Prefix(m, e.results)
      BY <1>3, <2>1, <3>1 DEF RInv, IInv, InvEntries
    <3>3. m \in Manifest /\ Len(m) \in Nat /\ Len(e.results) \in Nat
      BY <1>0, <2>2, LenProperties DEF Manifest
    <3>4. RowsOf(m) \subseteq RowsOf(e.results)
      <4> HIDE DEF m, e
      <4> QED BY <3>2, <3>3 DEF Prefix, RowsOf
    <3> QED BY <1>3, <2>3, <3>1, <3>4 DEF DoneRows
  <2> QED BY <1>1, <2>4, <2>5, <2>6 DEF Backed
<1> QED BY <1>2, <1>3, ResumePoint

\* Only finishing changes what is complete.
LEMMA DoneStays ==
  ASSUME RInv, Stepping, ~Finish
  PROVE  progress'.completed = progress.completed
<1>1. PublishCheckpoint \/ PublishFailure => progress'.completed = progress.completed
  BY PublishFacts, FailureFacts DEF RInv
<1> QED BY <1>1, Frame DEF RInv, Restore, Initialize, disk

\* Publishing a completed prefix completes the saved work, no more and no less.
LEMMA FinishCompletes ==
  ASSUME RInv, RInv', Backed, Backed', ResumesNewest', Finish
  PROVE  Promise!Complete
<1> PICK g : g = gen
  OBVIOUS
<1>1. /\ Valid(g) /\ generations[g].step = step /\ generations[g].results = chunks
      /\ step \in Nat /\ g \in Generation /\ IsSealed(g)
  BY FinishFacts, SealedPoint DEF Late, RInv, IInv, TypeOK, Valid, IsSealed
<1>2. /\ progress.checkpoints # <<>> /\ Newest(progress) = g
      /\ progress'.checkpoints # <<>> /\ Newest(progress)' = g
  BY FinishFacts DEF RInv, InvKept, Newest
<1>3. Progress(progress) /\ Progress(progress')
  BY DEF RInv, IInv, TypeOK
<1>4. ResumeRows = generations[g].observed
  BY <1>1, <1>2, <1>3, ResumeNewest DEF ResumesNewest
<1>5. ResumeRows' = generations[g].observed
  <2>1. Progress(progress)' /\ progress'.checkpoints # <<>> /\ Valid(Newest(progress))'
          => ResumeRows' = generations'[Newest(progress)'].observed
    BY DEF ResumesNewest
  <2>2. Valid(Newest(progress))'
    BY <1>1, <1>2, FinishFacts DEF RInv, Valid, Intact
  <2> QED BY <1>2, <1>3, <2>1, <2>2, FinishFacts DEF RInv
<1>6. Records(step, generations[g].observed, chunks, {})
  BY <1>1 DEF RInv, IInv, InvGenerations
<1>7. Promise!Length(ResumeRows) = step
  BY <1>1, <1>4, <1>6, LifeLength, SameLength DEF Records
<1>8. Promise!Sample(ResumeRows) = RowsOf(chunks)
  BY <1>4, <1>6 DEF Records, Kept, Promise!Sample, Promise!Sampled, Sampled
<1>9. budget \in Budgets /\ budget <= step /\ step \notin Completed(progress)
  <2>1. budget \in Budgets /\ budget \in Nat /\ IsFinished(step)
    BY FinishFacts, BudgetsAssumption
    DEF RInv, IInv, InvSession, InvFinal, Active, Sessions, Step
  <2>2. \A s \in Completed(progress) : s < budget
    BY FinishFacts DEF RInv, InvLonger, Active, Sessions
  <2> QED BY <1>1, <2>1, <2>2 DEF IsFinished
<1>10. DoneRows' = [s \in Completed(progress) \union {step} |->
                      IF s = step THEN RowsOf(chunks) ELSE DoneRows[s]]
  <2>1. /\ Completed(progress)' = Completed(progress) \union {step}
        /\ progress'.completed[step].results = chunks
        /\ \A s \in Completed(progress) : s # step => progress'.completed[s] = progress.completed[s]
    BY FinishFacts DEF RInv
  <2> QED BY <2>1 DEF DoneRows
<1> DEFINE done == [s \in Completed(progress) |-> ReadableRows(progress.completed[s].results)]
<1>11. done = DoneRows /\ done' = DoneRows'
  BY DEF Backed
<1>12. DOMAIN done = Completed(progress)
  OBVIOUS
<1> HIDE DEF done
<1>13. done' = [s \in DOMAIN done \union {step} |->
                 IF s = step THEN Promise!Sample(ResumeRows) ELSE done[s]]
  BY <1>8, <1>10, <1>11, <1>12
<1>14. step \notin DOMAIN done /\ \E b \in Budgets : b <= step
  BY <1>9, <1>12
<1>15. ResumeRows' = ResumeRows
  BY <1>4, <1>5
<1> QED BY <1>7, <1>13, <1>14, <1>15 DEF Promise!Complete, done

\* Without a failing decoder, what a new process would resume from only grows.
LEMMA SavedGrows ==
  ASSUME RInv, RInv', Stepping, ResumesNewest', Faults = {}, NoRot, ~Finish
  PROVE  ResumeRows \subseteq ResumeRows'
<1>1. CASE Referenced(progress) = {}
  BY <1>1, ResumePoint
<1>2. CASE Referenced(progress) # {}
  <2> PICK g : g = Newest(progress)
    OBVIOUS
  <2>1. /\ progress.checkpoints # <<>> /\ Valid(g) /\ g \in Referenced(progress)
        /\ Progress(progress) /\ Progress(progress)'
        /\ pc # "idle" => mem.checkpoints # <<>> /\ Newest(mem) = g
    BY <1>2, FirstReferenced DEF RInv, IInv, TypeOK, Progress, InvNewest, Newest
  <2>2. ResumeRows = generations[g].observed /\ generations'[g] = generations[g]
    BY <2>1, ResumeNewest, ReferencedStay DEF RInv, ResumesNewest
  <2>3. Progress(progress)' /\ progress'.checkpoints # <<>> /\ Valid(Newest(progress))'
          => ResumeRows' = generations'[Newest(progress)'].observed
    BY DEF ResumesNewest
  <2>4. ASSUME progress'.checkpoints # <<>>
        PROVE  ResumeRows' = generations'[Newest(progress)'].observed
    <3>1. Referenced(progress)' # {}
      BY <2>1, <2>4, FirstReferenced DEF Progress
    <3>2. Valid(Newest(progress))'
      BY <3>1 DEF RInv, InvNewest
    <3> QED BY <2>1, <2>3, <2>4, <3>2
  <2>5. CASE PublishCheckpoint
    <3>1. progress'.checkpoints # <<>> /\ Newest(progress)' = gen /\ pc = "sealed"
          /\ UNCHANGED generations
      BY <2>5, PublishFacts DEF RInv, Newest
    <3>2. ResumeRows' = observed
      BY <2>4, <3>1 DEF RInv, InvSealing
    <3>3. generations[g].observed \subseteq observed
      BY <1>2, <3>1 DEF RInv, InvNewest, Active, Sessions
    <3> QED BY <2>2, <3>2, <3>3
  <2>6. CASE PublishFailure
    <3>1. progress'.checkpoints = mem.checkpoints /\ pc = "failing"
      BY <2>6, FailureFacts DEF RInv, PublishFailure
    <3>2. progress'.checkpoints # <<>> /\ Newest(progress)' = g
      BY <2>1, <3>1 DEF Newest
    <3> QED BY <2>2, <2>4, <3>2
  <2>7. CASE UNCHANGED progress
    BY <2>1, <2>2, <2>4, <2>7 DEF Newest
  <2> QED BY <2>5, <2>6, <2>7, Frame DEF RInv, Restore, Initialize, disk
<1> QED BY <1>1, <1>2

\* Every step of the store is a step of DurableRun, or changes nothing it shows.
LEMMA StepImplements ==
  ASSUME NoRot, RInv, RInv', Backed, Backed', ResumesNewest', Stepping
  PROVE  [Promise!Next]_(Promise!vars)
<1> DEFINE done == [s \in Completed(progress) |-> ReadableRows(progress.completed[s].results)]
<1>1. CASE Finish
  BY <1>1, FinishCompletes DEF Promise!Next
<1>2. CASE ~Finish
  <2>1. Completed(progress)' = Completed(progress) /\ DoneRows' = DoneRows
    BY <1>2, DoneStays DEF DoneRows, Completed
  <2>2. done' = done /\ done = DoneRows
    BY <2>1 DEF Backed
  <2>3. DOMAIN done = Completed(progress)
    OBVIOUS
  <2>4. CASE Faults # {}
    <3>1. \A s \in Completed(progress) : s <= Promise!Length(ResumeRows')
                                         /\ done[s] \subseteq ResumeRows'
      BY <2>1, <2>2 DEF Backed
    <3> HIDE DEF done
    <3>2. Promise!Life(ResumeRows')
      BY DEF Backed, Promise!Life, Promise!Length
    <3> QED BY <2>2, <2>3, <2>4, <3>1, <3>2
            DEF Promise!Next, Promise!Lose, Promise!KeepsDone, done
  <2>5. CASE Faults = {}
    <3>1. ResumeRows \subseteq ResumeRows'
      BY <1>2, <2>5, SavedGrows
    <3>2. Promise!Life(ResumeRows')
      BY DEF Backed, Promise!Life, Promise!Length
    <3> HIDE DEF done
    <3> QED BY <2>2, <3>1, <3>2 DEF Promise!Next, Promise!Save, Promise!vars, done
  <2> QED BY <2>4, <2>5
<1> QED BY <1>1, <1>2

\* Every behaviour of the store is one of DurableRun (Promised): for every
\* budget, sampling, buffer and number of retained checkpoints, whatever is
\* raised and whenever the process is killed, what a new process would resume
\* from only grows, except that it may fall back, never behind a completed
\* prefix, when a decoder is unavailable; and what is complete is complete once
\* and for all.
THEOREM StoreImplementsPromise ==
  ASSUME NoRot
  PROVE  Spec => Promised
<1>1. Init => Promise!Init
  <2> SUFFICES ASSUME Init PROVE Promise!Init
    OBVIOUS
  <2>1. Referenced(progress) = {} /\ Completed(progress) = {}
    BY DEF Init, NoProgress, Referenced, Pinned, Completed
  <2>2. Progress(progress)
    BY IInvInit DEF IInv, TypeOK
  <2>3. ResumeRows = {}
    <3>1. PICK order \in LongestFirst(progress) :
            (\A i \in 1..Len(Entries(progress, order)) : ~Valid(Entries(progress, order)[i]))
              => ResumeRows = {}
      BY <2>2, ResumeFirst
    <3>2. Entries(progress, order) \in Seq(Generation)
      BY <2>2, EntriesFacts
    <3>3. \A i \in 1..Len(Entries(progress, order)) : Entries(progress, order)[i] \in Generation
      BY <3>2, ElementOfSeq
    <3>4. \A i \in 1..Len(Entries(progress, order)) : ~Valid(Entries(progress, order)[i])
      BY <3>3 DEF Valid, Init, Absent
    <3> QED BY <3>1, <3>4
  <2>4. [s \in Completed(progress) |-> ReadableRows(progress.completed[s].results)]
          = [s \in {} |-> {}]
    BY <2>1
  <2> QED BY <2>3, <2>4 DEF Promise!Init
<1>2. RInv => Backed
  BY RInvBacked
<1>3. ResumesNewest
  BY ResumeNewest
<1>4. RInv /\ RInv' /\ Backed /\ Backed' /\ ResumesNewest' /\ [Next]_vars
        => [Promise!Next]_(Promise!vars)
  BY StepImplements, IInvNext DEF RInv
<1> QED BY <1>1, <1>2, <1>3, <1>4, ResumeInvariance, PTL DEF Spec, Promised, Promise!Spec
=============================================================================
