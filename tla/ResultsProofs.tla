---------------------------- MODULE ResultsProofs ----------------------------
(***************************************************************************)
(* Proofs about Results: for any studies, any request on the same output   *)
(* and any pauses, kills and extensions, every session is in the state of  *)
(* the run that nobody interrupts, what is read of a completed prefix is   *)
(* what an execution for that very budget records, algorithms are compared *)
(* on the same data, and what the analysis publishes is the exact mean and *)
(* squared deviation of what its metric means.                             *)
(*                                                                         *)
(* Lives, observations, joined chunks, sums and groups are recursive       *)
(* functions.  Their equations are proved from the existence of finite     *)
(* prefixes, by an induction over a set of numbers.                        *)
(***************************************************************************)
EXTENDS Results, WellFoundedInduction, FiniteSetTheorems, TLAPS

\* Induction over the natural numbers, for a set of numbers.
LEMMA Induction ==
  ASSUME NEW S, 0 \in S, \A n \in Nat : n \in S => n + 1 \in S
  PROVE  \A n \in Nat : n \in S
<1> DEFINE T == Nat \ S
           R == OpToRel(<, Nat)
<1> SUFFICES ASSUME T # {} PROVE FALSE
  OBVIOUS
<1>1. PICK x \in T : \A y \in T : ~(<<y, x>> \in R)
  <2>1. T \subseteq Nat
    OBVIOUS
  <2> HIDE DEF T, R
  <2>2. IsWellFoundedOn(R, Nat)
    BY NatLessThanWellFounded DEF R
  <2> QED BY <2>1, <2>2, WFMin
<1>2. \A y \in Nat : y < x => <<y, x>> \in R
  BY DEF OpToRel
<1>3. x # 0
  OBVIOUS
<1>4. x - 1 \in Nat /\ x - 1 < x /\ (x - 1) + 1 = x
  BY <1>3
<1>5. x - 1 \in S
  BY <1>1, <1>2, <1>4
<1> QED BY <1>4, <1>5

-----------------------------------------------------------------------------
(* The run nobody interrupts, step by step *)

\* A prefix of that run
Lived(spec, life, n) ==
  life = [i \in 0..n |-> IF i = 0 THEN Initialize(spec, Construct(spec, CreateInstance(spec)))
                         ELSE Step(spec, life[i - 1])]

\* Every number of steps can be lived.
LEMMA PrefixesExist ==
  ASSUME NEW spec
  PROVE  \A n \in Nat : \E life : Lived(spec, life, n)
<1> DEFINE S == {n \in Nat : \E life : Lived(spec, life, n)}
           first == Initialize(spec, Construct(spec, CreateInstance(spec)))
<1>1. 0 \in S
  <2>1. Lived(spec, [i \in 0..0 |-> first], 0)
    BY DEF Lived
  <2> QED BY <2>1
<1>2. ASSUME NEW n \in Nat, n \in S PROVE n + 1 \in S
  <2>1. PICK life : Lived(spec, life, n)
    BY <1>2
  <2> DEFINE longer == [i \in 0..(n + 1) |-> IF i = n + 1 THEN Step(spec, life[n]) ELSE life[i]]
  <2>2. \A i \in 0..(n + 1) :
          longer[i] = IF i = 0 THEN first ELSE Step(spec, longer[i - 1])
    <3> SUFFICES ASSUME NEW i \in 0..(n + 1)
                 PROVE  longer[i] = IF i = 0 THEN first ELSE Step(spec, longer[i - 1])
      OBVIOUS
    <3>1. CASE i = n + 1
      <4>1. longer[i - 1] = life[n] /\ longer[i] = Step(spec, life[n]) /\ i # 0
        BY <3>1
      <4> QED BY <4>1
    <3>2. CASE i # n + 1
      <4>1. i \in 0..n /\ longer[i] = life[i] /\ (i # 0 => longer[i - 1] = life[i - 1])
        BY <3>2
      <4>2. life[i] = IF i = 0 THEN first ELSE Step(spec, life[i - 1])
        BY <2>1, <4>1 DEF Lived
      <4> QED BY <4>1, <4>2
    <3> QED BY <3>1, <3>2
  <2>3. Lived(spec, longer, n + 1)
    BY <2>2, Zenon DEF Lived
  <2> QED BY <2>3
<1> HIDE DEF S
<1>3. \A n \in Nat : n \in S
  BY <1>1, <1>2, Induction
<1> QED BY <1>3 DEF S

\* Two prefixes agree where both are defined.
LEMMA PrefixesAgree ==
  ASSUME NEW spec, NEW m \in Nat, NEW n \in Nat, NEW g, NEW h,
         Lived(spec, g, m), Lived(spec, h, n), m <= n
  PROVE  g[m] = h[m]
<1> DEFINE S == {i \in Nat : i <= m => g[i] = h[i]}
<1>1. 0 \in S
  BY DEF Lived
<1>2. ASSUME NEW i \in Nat, i \in S PROVE i + 1 \in S
  <2> SUFFICES ASSUME i + 1 <= m PROVE g[i + 1] = h[i + 1]
    OBVIOUS
  <2>1. g[i] = h[i]
    BY <1>2
  <2>2. i + 1 \in 0..m /\ i + 1 \in 0..n /\ i + 1 # 0 /\ (i + 1) - 1 = i
    OBVIOUS
  <2>3. g[i + 1] = Step(spec, g[i]) /\ h[i + 1] = Step(spec, h[i])
    BY <2>2 DEF Lived
  <2> QED BY <2>1, <2>3
<1> HIDE DEF S
<1>3. \A i \in Nat : i \in S
  BY <1>1, <1>2, Induction
<1> QED BY <1>3 DEF S

\* The equations of the run nobody interrupts: it is initialized, then takes one step
\* after the other.
LEMMA UninterruptedUnfolds ==
  ASSUME NEW spec
  PROVE  /\ Uninterrupted(spec)[0] = Initialize(spec, Construct(spec, CreateInstance(spec)))
         /\ \A i \in Nat : Uninterrupted(spec)[i + 1] = Step(spec, Uninterrupted(spec)[i])
<1> DEFINE prefix(n) == CHOOSE life : Lived(spec, life, n)
           f == [n \in Nat |-> prefix(n)[n]]
           first == Initialize(spec, Construct(spec, CreateInstance(spec)))
<1>1. \A n \in Nat : Lived(spec, prefix(n), n)
  BY PrefixesExist
<1>2. f[0] = first
  <2>1. Lived(spec, prefix(0), 0)
    BY <1>1
  <2> HIDE DEF prefix
  <2>2. prefix(0)[0] = first
    BY <2>1 DEF Lived
  <2> QED BY <2>2
<1>3. \A i \in Nat : i # 0 => f[i] = Step(spec, f[i - 1])
  <2> SUFFICES ASSUME NEW i \in Nat, i # 0 PROVE f[i] = Step(spec, f[i - 1])
    OBVIOUS
  <2>1. Lived(spec, prefix(i), i) /\ Lived(spec, prefix(i - 1), i - 1) /\ i - 1 \in Nat /\ i - 1 <= i
    BY <1>1
  <2>2. prefix(i)[i - 1] = prefix(i - 1)[i - 1]
    <3> HIDE DEF prefix
    <3> QED BY <2>1, PrefixesAgree
  <2>3. prefix(i)[i] = Step(spec, prefix(i)[i - 1])
    <3> HIDE DEF prefix
    <3> QED BY <2>1 DEF Lived
  <2> QED BY <2>1, <2>2, <2>3
<1> HIDE DEF f
<1> DEFINE Is(run) == run = [i \in Nat |-> IF i = 0 THEN first ELSE Step(spec, run[i - 1])]
<1>4. Is(f)
  <2>1. f = [i \in Nat |-> f[i]]
    BY DEF f
  <2>2. \A i \in Nat : f[i] = IF i = 0 THEN first ELSE Step(spec, f[i - 1])
    BY <1>2, <1>3
  <2> QED BY <2>1, <2>2, Zenon
<1>5. Uninterrupted(spec) = CHOOSE run : Is(run)
  BY DEF Uninterrupted
<1>6. Is(Uninterrupted(spec))
  <2> HIDE DEF Is
  <2> QED BY <1>4, <1>5
<1>7. \A i \in Nat : i + 1 \in Nat /\ i + 1 # 0 /\ (i + 1) - 1 = i
  OBVIOUS
<1> QED BY <1>6, <1>7

-----------------------------------------------------------------------------
(* The observations at some steps of a life *)

Sampling(life, steps, rows, n) ==
  rows = [i \in 0..n |-> IF i = 0 THEN <<>>
                         ELSE IF i \in steps THEN Append(rows[i - 1], life[i].row) ELSE rows[i - 1]]

\* Any number of steps can be sampled.
LEMMA SamplingsExist ==
  ASSUME NEW life, NEW steps
  PROVE  \A n \in Nat : \E rows : Sampling(life, steps, rows, n)
<1> DEFINE S == {n \in Nat : \E rows : Sampling(life, steps, rows, n)}
           Then(before, i) == IF i \in steps THEN Append(before, life[i].row) ELSE before
<1>1. 0 \in S
  <2>1. Sampling(life, steps, [i \in 0..0 |-> <<>>], 0)
    BY DEF Sampling
  <2> QED BY <2>1
<1>2. ASSUME NEW n \in Nat, n \in S PROVE n + 1 \in S
  <2>1. PICK rows : Sampling(life, steps, rows, n)
    BY <1>2
  <2> DEFINE longer == [i \in 0..(n + 1) |-> IF i = n + 1 THEN Then(rows[n], n + 1) ELSE rows[i]]
  <2>2. \A i \in 0..(n + 1) : longer[i] = IF i = 0 THEN <<>> ELSE Then(longer[i - 1], i)
    <3> SUFFICES ASSUME NEW i \in 0..(n + 1)
                 PROVE  longer[i] = IF i = 0 THEN <<>> ELSE Then(longer[i - 1], i)
      OBVIOUS
    <3>1. CASE i = n + 1
      <4>1. longer[i - 1] = rows[n] /\ longer[i] = Then(rows[n], i) /\ i # 0
        BY <3>1
      <4> QED BY <4>1
    <3>2. CASE i # n + 1
      <4>1. i \in 0..n /\ longer[i] = rows[i] /\ (i # 0 => longer[i - 1] = rows[i - 1])
        BY <3>2
      <4>2. rows[i] = IF i = 0 THEN <<>> ELSE Then(rows[i - 1], i)
        BY <2>1, <4>1 DEF Sampling
      <4> QED BY <4>1, <4>2
    <3> QED BY <3>1, <3>2
  <2>3. Sampling(life, steps, longer, n + 1)
    BY <2>2, Zenon DEF Sampling
  <2> QED BY <2>3
<1> HIDE DEF S
<1>3. \A n \in Nat : n \in S
  BY <1>1, <1>2, Induction
<1> QED BY <1>3 DEF S

\* Two samplings agree where both are defined.
LEMMA SamplingsAgree ==
  ASSUME NEW life, NEW steps, NEW m \in Nat, NEW n \in Nat, NEW g, NEW h,
         Sampling(life, steps, g, m), Sampling(life, steps, h, n), m <= n
  PROVE  g[m] = h[m]
<1> DEFINE S == {i \in Nat : i <= m => g[i] = h[i]}
<1>1. 0 \in S
  BY DEF Sampling
<1>2. ASSUME NEW i \in Nat, i \in S PROVE i + 1 \in S
  <2> SUFFICES ASSUME i + 1 <= m PROVE g[i + 1] = h[i + 1]
    OBVIOUS
  <2>1. g[i] = h[i]
    BY <1>2
  <2>2. i + 1 \in 0..m /\ i + 1 \in 0..n /\ i + 1 # 0 /\ (i + 1) - 1 = i
    OBVIOUS
  <2>3. /\ g[i + 1] = IF i + 1 \in steps THEN Append(g[i], life[i + 1].row) ELSE g[i]
        /\ h[i + 1] = IF i + 1 \in steps THEN Append(h[i], life[i + 1].row) ELSE h[i]
    BY <2>2 DEF Sampling
  <2> QED BY <2>1, <2>3
<1> HIDE DEF S
<1>3. \A i \in Nat : i \in S
  BY <1>1, <1>2, Induction
<1> QED BY <1>3 DEF S

\* The equations of a sampling: a step among those sampled appends its observation.
LEMMA SampledUnfolds ==
  ASSUME NEW life, NEW steps
  PROVE  /\ Sampled(life, steps)[0] = <<>>
         /\ \A i \in Nat : Sampled(life, steps)[i + 1] =
              IF i + 1 \in steps THEN Append(Sampled(life, steps)[i], life[i + 1].row)
              ELSE Sampled(life, steps)[i]
<1> DEFINE prefix(n) == CHOOSE rows : Sampling(life, steps, rows, n)
           f == [n \in Nat |-> prefix(n)[n]]
           Then(before, i) == IF i \in steps THEN Append(before, life[i].row) ELSE before
<1>1. \A n \in Nat : Sampling(life, steps, prefix(n), n)
  BY SamplingsExist
<1>2. f[0] = <<>>
  <2>1. Sampling(life, steps, prefix(0), 0)
    BY <1>1
  <2> HIDE DEF prefix
  <2>2. prefix(0)[0] = <<>>
    BY <2>1 DEF Sampling
  <2> QED BY <2>2
<1>3. \A i \in Nat : i # 0 => f[i] = Then(f[i - 1], i)
  <2> SUFFICES ASSUME NEW i \in Nat, i # 0 PROVE f[i] = Then(f[i - 1], i)
    OBVIOUS
  <2>1. /\ Sampling(life, steps, prefix(i), i) /\ Sampling(life, steps, prefix(i - 1), i - 1)
        /\ i - 1 \in Nat /\ i - 1 <= i
    BY <1>1
  <2>2. prefix(i)[i - 1] = prefix(i - 1)[i - 1]
    <3> HIDE DEF prefix
    <3> QED BY <2>1, SamplingsAgree
  <2>3. prefix(i)[i] = Then(prefix(i)[i - 1], i)
    <3> HIDE DEF prefix
    <3>1. i \in 0..i
      OBVIOUS
    <3> QED BY <2>1, <3>1 DEF Sampling
  <2> QED BY <2>1, <2>2, <2>3
<1> HIDE DEF f
<1> DEFINE Is(rows) == rows = [i \in Nat |-> IF i = 0 THEN <<>> ELSE Then(rows[i - 1], i)]
<1>4. Is(f)
  <2>1. f = [i \in Nat |-> f[i]]
    BY DEF f
  <2>2. \A i \in Nat : f[i] = IF i = 0 THEN <<>> ELSE Then(f[i - 1], i)
    BY <1>2, <1>3
  <2> QED BY <2>1, <2>2, Zenon
<1>5. Sampled(life, steps) = CHOOSE rows : Is(rows)
  BY DEF Sampled
<1>6. Is(Sampled(life, steps))
  <2> HIDE DEF Is
  <2> QED BY <1>4, <1>5
<1>7. \A i \in Nat : i + 1 \in Nat /\ i + 1 # 0 /\ (i + 1) - 1 = i
  OBVIOUS
<1> QED BY <1>6, <1>7

-----------------------------------------------------------------------------
(* Chunks joined one after the other *)

Joining(chunks, rows, n) ==
  rows = [i \in 0..n |-> IF i = 0 THEN <<>> ELSE rows[i - 1] \o chunks[i]]
Joined(chunks, i) == (CHOOSE rows : Joining(chunks, rows, Len(chunks)))[i]

\* Any number of chunks can be joined.
LEMMA JoinExists ==
  ASSUME NEW chunks
  PROVE  \A n \in Nat : \E rows : Joining(chunks, rows, n)
<1> DEFINE S == {n \in Nat : \E rows : Joining(chunks, rows, n)}
<1>1. 0 \in S
  <2>1. Joining(chunks, [i \in 0..0 |-> <<>>], 0)
    BY DEF Joining
  <2> QED BY <2>1
<1>2. ASSUME NEW n \in Nat, n \in S PROVE n + 1 \in S
  <2>1. PICK rows : Joining(chunks, rows, n)
    BY <1>2
  <2> DEFINE longer == [i \in 0..(n + 1) |-> IF i = n + 1 THEN rows[n] \o chunks[n + 1] ELSE rows[i]]
  <2>2. \A i \in 0..(n + 1) : longer[i] = IF i = 0 THEN <<>> ELSE longer[i - 1] \o chunks[i]
    <3> SUFFICES ASSUME NEW i \in 0..(n + 1)
                 PROVE  longer[i] = IF i = 0 THEN <<>> ELSE longer[i - 1] \o chunks[i]
      OBVIOUS
    <3>1. CASE i = n + 1
      <4>1. longer[i - 1] = rows[n] /\ longer[i] = rows[n] \o chunks[i] /\ i # 0
        BY <3>1
      <4> QED BY <4>1
    <3>2. CASE i # n + 1
      <4>1. i \in 0..n /\ longer[i] = rows[i] /\ (i # 0 => longer[i - 1] = rows[i - 1])
        BY <3>2
      <4>2. rows[i] = IF i = 0 THEN <<>> ELSE rows[i - 1] \o chunks[i]
        BY <2>1, <4>1 DEF Joining
      <4> QED BY <4>1, <4>2
    <3> QED BY <3>1, <3>2
  <2>3. Joining(chunks, longer, n + 1)
    BY <2>2, Zenon DEF Joining
  <2> QED BY <2>3
<1> HIDE DEF S
<1>3. \A n \in Nat : n \in S
  BY <1>1, <1>2, Induction
<1> QED BY <1>3 DEF S

\* The equations of joining: chunk after chunk, and rows of the same kind.
LEMMA JoinedUnfolds ==
  ASSUME NEW R, NEW chunks \in Seq(Seq(R))
  PROVE  /\ Joined(chunks, 0) = <<>>
         /\ \A i \in 1..Len(chunks) : Joined(chunks, i) = Joined(chunks, i - 1) \o chunks[i]
         /\ \A i \in 0..Len(chunks) : Joined(chunks, i) \in Seq(R)
<1> DEFINE rows == CHOOSE rows : Joining(chunks, rows, Len(chunks))
<1>1. Joining(chunks, rows, Len(chunks))
  <2>1. Len(chunks) \in Nat
    OBVIOUS
  <2> QED BY <2>1, JoinExists
<1>2. \A i : Joined(chunks, i) = rows[i]
  BY DEF Joined
<1> HIDE DEF rows
<1>3. rows[0] = <<>> /\ \A i \in 1..Len(chunks) : rows[i] = rows[i - 1] \o chunks[i]
  BY <1>1 DEF Joining
<1> DEFINE S == {i \in Nat : i <= Len(chunks) => rows[i] \in Seq(R)}
<1>4. 0 \in S
  <2>1. <<>> \in Seq(R)
    OBVIOUS
  <2> QED BY <1>3, <2>1
<1>5. ASSUME NEW i \in Nat, i \in S PROVE i + 1 \in S
  <2> SUFFICES ASSUME i + 1 <= Len(chunks) PROVE rows[i + 1] \in Seq(R)
    OBVIOUS
  <2>1. rows[i] \in Seq(R) /\ i + 1 \in 1..Len(chunks) /\ (i + 1) - 1 = i
    BY <1>5
  <2>2. rows[i + 1] = rows[i] \o chunks[i + 1]
    BY <1>3, <2>1
  <2>3. chunks[i + 1] \in Seq(R)
    BY <2>1
  <2> QED BY <2>1, <2>2, <2>3
<1> HIDE DEF S
<1>6. \A i \in Nat : i \in S
  BY <1>4, <1>5, Induction
<1>7. \A i \in 0..Len(chunks) : rows[i] \in Seq(R)
  BY <1>6 DEF S
<1> QED BY <1>2, <1>3, <1>7

\* FlattenSeq of the community modules joins the chunks.
LEMMA FlattenIsJoined ==
  ASSUME NEW R, NEW chunks \in Seq(Seq(R))
  PROVE  FlattenSeq(chunks) = Joined(chunks, Len(chunks))
<1>1. CASE Len(chunks) = 0
  <2>1. chunks = <<>>
    BY <1>1
  <2> QED BY <1>1, <2>1, JoinedUnfolds DEF FlattenSeq
<1>2. CASE Len(chunks) # 0
  <2> DEFINE Is(f) == f = [i \in 1..Len(chunks) |-> IF i = 1 THEN chunks[i] ELSE f[i - 1] \o chunks[i]]
             g == [i \in 1..Len(chunks) |-> Joined(chunks, i)]
  <2>1. FlattenSeq(chunks) = (CHOOSE f : Is(f))[Len(chunks)]
    BY <1>2 DEF FlattenSeq
  <2>2. Joined(chunks, 1) = chunks[1]
    <3>1. 1 \in 1..Len(chunks) /\ 1 - 1 = 0
      BY <1>2
    <3>2. Joined(chunks, 1) = <<>> \o chunks[1]
      BY <3>1, JoinedUnfolds
    <3>3. chunks[1] \in Seq(R)
      BY <3>1
    <3> QED BY <3>2, <3>3
  <2>3. \A i \in 1..Len(chunks) : g[i] = IF i = 1 THEN chunks[i] ELSE g[i - 1] \o chunks[i]
    <3> SUFFICES ASSUME NEW i \in 1..Len(chunks)
                 PROVE  g[i] = IF i = 1 THEN chunks[i] ELSE g[i - 1] \o chunks[i]
      OBVIOUS
    <3>1. i # 1 => i - 1 \in 1..Len(chunks)
      OBVIOUS
    <3>2. Joined(chunks, i) = Joined(chunks, i - 1) \o chunks[i]
      BY JoinedUnfolds
    <3> QED BY <2>2, <3>1, <3>2
  <2>4. Is(g)
    BY <2>3, Zenon
  <2> DEFINE f == CHOOSE f : Is(f)
  <2>5. Is(f)
    <3> HIDE DEF Is
    <3> QED BY <2>4
  <2> HIDE DEF f
  <2>6. f[1] = chunks[1] /\ \A i \in 1..Len(chunks) : i # 1 => f[i] = f[i - 1] \o chunks[i]
    <3>1. 1 \in 1..Len(chunks)
      BY <1>2
    <3>2. \A i \in 1..Len(chunks) : f[i] = IF i = 1 THEN chunks[i] ELSE f[i - 1] \o chunks[i]
      BY <2>5
    <3> QED BY <3>1, <3>2
  <2> DEFINE S == {i \in Nat : i + 1 <= Len(chunks) => f[i + 1] = Joined(chunks, i + 1)}
  <2>7. 0 \in S
    BY <2>2, <2>6
  <2>8. ASSUME NEW i \in Nat, i \in S PROVE i + 1 \in S
    <3> DEFINE j == i + 2
    <3> SUFFICES ASSUME j <= Len(chunks) PROVE f[j] = Joined(chunks, j)
      OBVIOUS
    <3>1. j \in 1..Len(chunks) /\ j # 1 /\ j - 1 = i + 1 /\ i + 1 <= Len(chunks)
      OBVIOUS
    <3>2. f[i + 1] = Joined(chunks, i + 1)
      BY <2>8, <3>1
    <3>3. Joined(chunks, j) = Joined(chunks, j - 1) \o chunks[j]
      BY <3>1, JoinedUnfolds
    <3> HIDE DEF j
    <3>4. f[j] = f[j - 1] \o chunks[j]
      BY <2>6, <3>1
    <3> QED BY <3>1, <3>2, <3>3, <3>4
  <2> HIDE DEF S
  <2>9. \A i \in Nat : i \in S
    BY <2>7, <2>8, Induction
  <2>10. Len(chunks) - 1 \in Nat /\ (Len(chunks) - 1) + 1 = Len(chunks)
    BY <1>2
  <2>11. f[Len(chunks)] = Joined(chunks, Len(chunks))
    <3>1. Len(chunks) - 1 \in S
      BY <2>9, <2>10
    <3> QED BY <2>10, <3>1 DEF S
  <2> QED BY <2>1, <2>11 DEF f
<1> QED BY <1>1, <1>2

\* Joined chunks of rows are a sequence of rows.
LEMMA FlattenIsASequence ==
  ASSUME NEW R, NEW chunks \in Seq(Seq(R))
  PROVE  FlattenSeq(chunks) \in Seq(R)
<1>1. Len(chunks) \in 0..Len(chunks)
  OBVIOUS
<1> QED BY <1>1, FlattenIsJoined, JoinedUnfolds

\* A run without chunks has no rows.
LEMMA FlattenNothing == FlattenSeq(<<>>) = <<>>
BY DEF FlattenSeq

\* One more chunk
LEMMA FlattenAppend ==
  ASSUME NEW R, NEW chunks \in Seq(Seq(R)), NEW chunk \in Seq(R)
  PROVE  FlattenSeq(Append(chunks, chunk)) = FlattenSeq(chunks) \o chunk
<1> DEFINE more == Append(chunks, chunk)
           n == Len(chunks)
<1>1. /\ more \in Seq(Seq(R)) /\ Len(more) = n + 1 /\ more[n + 1] = chunk /\ n \in Nat
      /\ \A i \in 1..n : more[i] = chunks[i]
  OBVIOUS
<1> HIDE DEF more
<1> DEFINE S == {i \in Nat : i <= n => Joined(more, i) = Joined(chunks, i)}
<1>2. 0 \in S
  BY <1>1, JoinedUnfolds
<1>3. ASSUME NEW i \in Nat, i \in S PROVE i + 1 \in S
  <2> SUFFICES ASSUME i + 1 <= n PROVE Joined(more, i + 1) = Joined(chunks, i + 1)
    OBVIOUS
  <2>1. i + 1 \in 1..n /\ i + 1 \in 1..Len(more) /\ (i + 1) - 1 = i /\ Joined(more, i) = Joined(chunks, i)
    BY <1>1, <1>3
  <2>2. Joined(more, i + 1) = Joined(more, i) \o more[i + 1]
    BY <1>1, <2>1, JoinedUnfolds
  <2>3. Joined(chunks, i + 1) = Joined(chunks, i) \o chunks[i + 1]
    BY <2>1, JoinedUnfolds
  <2> QED BY <1>1, <2>1, <2>2, <2>3
<1> HIDE DEF S
<1>4. \A i \in Nat : i \in S
  BY <1>2, <1>3, Induction
<1>5. Joined(more, n) = Joined(chunks, n)
  BY <1>1, <1>4 DEF S
<1>6. Joined(more, n + 1) = Joined(more, n) \o chunk
  <2>1. n + 1 \in 1..Len(more) /\ (n + 1) - 1 = n
    BY <1>1
  <2> QED BY <1>1, <2>1, JoinedUnfolds
<1> QED BY <1>1, <1>5, <1>6, FlattenIsJoined DEF more

\* A set of numbers that is not empty has a least one.
LEMMA LeastExists ==
  ASSUME NEW S, S \subseteq Nat, S # {}
  PROVE  \E n \in S : \A m \in S : n <= m
<1> DEFINE R == OpToRel(<, Nat)
<1>1. PICK n \in S : \A m \in S : ~(<<m, n>> \in R)
  <2> HIDE DEF R
  <2>1. IsWellFoundedOn(R, Nat)
    BY NatLessThanWellFounded DEF R
  <2> QED BY <2>1, WFMin
<1>2. \A m \in Nat : m < n => <<m, n>> \in R
  BY DEF OpToRel
<1> HIDE DEF R
<1>3. ASSUME NEW m \in S PROVE n <= m
  <2>1. ~(m < n) /\ m \in Nat /\ n \in Nat
    BY <1>1, <1>2
  <2> QED BY <2>1
<1> QED BY <1>3

\* Rows in the order of their steps
Increasing(rows) ==
  /\ \A i \in 1..Len(rows) : rows[i].step \in Nat \ {0}
  /\ \A i, j \in 1..Len(rows) : i < j => rows[i].step < rows[j].step

\* The first m of these rows are those up to that step.
Splits(rows, steps, m) ==
  /\ m \in 0..Len(rows)
  /\ \A i \in 1..Len(rows) : rows[i].step <= steps <=> i <= m

\* Of a chunk in order, the rows that are used are its first ones.
LEMMA UsedSplits ==
  ASSUME NEW R, NEW chunk \in Seq(R), Increasing(chunk), NEW steps \in Nat
  PROVE  Splits(chunk, steps, Used(chunk, steps))
<1> DEFINE over == {i \in 1..Len(chunk) : chunk[i].step > steps}
<1>1. PICK m \in 0..Len(chunk) : \A i \in 1..Len(chunk) : chunk[i].step <= steps <=> i <= m
  <2>1. CASE over = {}
    <3>1. \A i \in 1..Len(chunk) : chunk[i].step <= steps
      BY <2>1 DEF Increasing
    <3> WITNESS Len(chunk) \in 0..Len(chunk)
    <3> QED BY <3>1
  <2>2. CASE over # {}
    <3>1. PICK n \in over : \A k \in over : n <= k
      <4>1. over \subseteq Nat
        OBVIOUS
      <4> HIDE DEF over
      <4> QED BY <2>2, <4>1, LeastExists
    <3>2. n - 1 \in 0..Len(chunk)
      OBVIOUS
    <3>3. ASSUME NEW i \in 1..Len(chunk) PROVE chunk[i].step <= steps <=> i <= n - 1
      <4>1. CASE i <= n - 1
        <5>1. i \notin over
          BY <3>1, <4>1
        <5> QED BY <4>1, <5>1 DEF Increasing
      <4>2. CASE i = n
        <5>1. chunk[i].step > steps /\ chunk[i].step \in Nat /\ ~(i <= n - 1)
          BY <4>2 DEF Increasing
        <5> QED BY <5>1
      <4>3. CASE i > n
        <5>1. chunk[n].step < chunk[i].step /\ chunk[n].step \in Nat /\ chunk[i].step \in Nat
          BY <4>3 DEF Increasing
        <5> QED BY <4>3, <5>1
      <4> QED BY <4>1, <4>2, <4>3
    <3> QED BY <3>2, <3>3
  <2> QED BY <2>1, <2>2
<1>2. {i \in DOMAIN chunk : chunk[i].step <= steps} = 1..m
  BY <1>1
<1>3. Cardinality(1..m) = m
  BY <1>1, FS_Interval
<1> QED BY <1>1, <1>2, <1>3 DEF Used, Splits

\* The row at a position is at least that many steps into the run.
LEMMA StepsAreAhead ==
  ASSUME NEW R, NEW rows \in Seq(R), Increasing(rows)
  PROVE  \A i \in 1..Len(rows) : rows[i].step >= i
<1> DEFINE S == {i \in Nat : i + 1 <= Len(rows) => rows[i + 1].step >= i + 1}
<1>1. 0 \in S
  BY DEF Increasing
<1>2. ASSUME NEW i \in Nat, i \in S PROVE i + 1 \in S
  <2> DEFINE j == i + 1
  <2> SUFFICES ASSUME j + 1 <= Len(rows) PROVE rows[j + 1].step >= j + 1
    OBVIOUS
  <2>1. rows[j].step >= j
    BY <1>2
  <2> HIDE DEF j
  <2>2. j \in 1..Len(rows) /\ j + 1 \in 1..Len(rows) /\ j < j + 1
    BY DEF j
  <2>3. rows[j].step < rows[j + 1].step /\ rows[j].step \in Nat /\ rows[j + 1].step \in Nat
    BY <2>2 DEF Increasing
  <2> QED BY <2>1, <2>2, <2>3
<1> HIDE DEF S
<1>3. \A i \in Nat : i \in S
  BY <1>1, <1>2, Induction
<1> QED
  <2> SUFFICES ASSUME NEW i \in 1..Len(rows) PROVE rows[i].step >= i
    OBVIOUS
  <2>1. i - 1 \in S /\ (i - 1) + 1 = i
    BY <1>3
  <2> QED BY <2>1 DEF S

\* What was joined so far stays at the beginning.
LEMMA JoinedIsPrefix ==
  ASSUME NEW R, NEW chunks \in Seq(Seq(R)), NEW i \in 0..Len(chunks)
  PROVE  LET all == FlattenSeq(chunks)
             some == Joined(chunks, i)
         IN Len(some) <= Len(all) /\ \A k \in 1..Len(some) : some[k] = all[k]
<1> DEFINE Begins(p, q) == Len(p) <= Len(q) /\ \A k \in 1..Len(p) : p[k] = q[k]
           S == {d \in Nat : i + d <= Len(chunks) => Begins(Joined(chunks, i), Joined(chunks, i + d))}
<1>1. 0 \in S
  <2>1. Joined(chunks, i) \in Seq(R)
    BY JoinedUnfolds
  <2> QED BY <2>1
<1>2. ASSUME NEW d \in Nat, d \in S PROVE d + 1 \in S
  <2> DEFINE p == Joined(chunks, i)
             q == Joined(chunks, i + d)
             s == Joined(chunks, i + (d + 1))
  <2> SUFFICES ASSUME i + (d + 1) <= Len(chunks) PROVE Begins(p, s)
    OBVIOUS
  <2>1. Begins(p, q)
    BY <1>2
  <2>2. i + (d + 1) \in 1..Len(chunks) /\ (i + (d + 1)) - 1 = i + d /\ i + d \in 0..Len(chunks)
    OBVIOUS
  <2>3. s = q \o chunks[i + (d + 1)] /\ q \in Seq(R) /\ p \in Seq(R)
    BY <2>2, JoinedUnfolds
  <2>4. chunks[i + (d + 1)] \in Seq(R)
    BY <2>2
  <2> HIDE DEF p, q, s
  <2> QED BY <2>1, <2>3, <2>4
<1> HIDE DEF S
<1>3. \A d \in Nat : d \in S
  BY <1>1, <1>2, Induction
<1>4. Len(chunks) - i \in Nat /\ i + (Len(chunks) - i) = Len(chunks)
  OBVIOUS
<1>5. Begins(Joined(chunks, i), Joined(chunks, Len(chunks)))
  <2>1. Len(chunks) - i \in S
    BY <1>3, <1>4
  <2> QED BY <1>4, <2>1 DEF S
<1> QED BY <1>5, FlattenIsJoined

-----------------------------------------------------------------------------
(* Reading a completed prefix *)

\* What was read of the first n chunks (ReadPrefix)
Reading(chunks, steps, most, read, n) ==
  read = [i \in 0..n |->
    IF i = 0 THEN [rows |-> <<>>, more |-> TRUE]
    ELSE IF ~read[i - 1].more THEN read[i - 1]
    ELSE [rows |-> read[i - 1].rows \o SubSeq(chunks[i], 1, Used(chunks[i], steps)),
          more |-> /\ Used(chunks[i], steps) = Len(chunks[i])
                   /\ Len(read[i - 1].rows \o SubSeq(chunks[i], 1, Used(chunks[i], steps))) < most]]

\* Any number of chunks can be read.
LEMMA ReadingExists ==
  ASSUME NEW chunks, NEW steps, NEW most
  PROVE  \A n \in Nat : \E read : Reading(chunks, steps, most, read, n)
<1> DEFINE S == {n \in Nat : \E read : Reading(chunks, steps, most, read, n)}
           first == [rows |-> <<>>, more |-> TRUE]
           rows(before, i) == before.rows \o SubSeq(chunks[i], 1, Used(chunks[i], steps))
           Then(before, i) ==
             IF ~before.more THEN before
             ELSE [rows |-> rows(before, i),
                   more |-> Used(chunks[i], steps) = Len(chunks[i]) /\ Len(rows(before, i)) < most]
<1>1. 0 \in S
  <2>1. Reading(chunks, steps, most, [i \in 0..0 |-> first], 0)
    BY DEF Reading
  <2> QED BY <2>1
<1>2. ASSUME NEW n \in Nat, n \in S PROVE n + 1 \in S
  <2>1. PICK read : Reading(chunks, steps, most, read, n)
    BY <1>2
  <2>a. read = [i \in 0..n |-> IF i = 0 THEN first ELSE Then(read[i - 1], i)]
    BY <2>1, Zenon DEF Reading
  <2> HIDE DEF Then, first
  <2> DEFINE longer == [i \in 0..(n + 1) |-> IF i = n + 1 THEN Then(read[n], n + 1) ELSE read[i]]
  <2>2. \A i \in 0..(n + 1) : longer[i] = IF i = 0 THEN first ELSE Then(longer[i - 1], i)
    <3> SUFFICES ASSUME NEW i \in 0..(n + 1)
                 PROVE  longer[i] = IF i = 0 THEN first ELSE Then(longer[i - 1], i)
      OBVIOUS
    <3>1. CASE i = n + 1
      <4>1. longer[i - 1] = read[n] /\ longer[i] = Then(read[n], i) /\ i # 0
        BY <3>1
      <4> QED BY <4>1
    <3>2. CASE i # n + 1
      <4>1. i \in 0..n /\ longer[i] = read[i] /\ (i # 0 => longer[i - 1] = read[i - 1])
        BY <3>2
      <4>2. read[i] = IF i = 0 THEN first ELSE Then(read[i - 1], i)
        BY <2>a, <4>1
      <4> QED BY <4>1, <4>2
    <3> QED BY <3>1, <3>2
  <2>3. longer = [i \in 0..(n + 1) |-> IF i = 0 THEN first ELSE Then(longer[i - 1], i)]
    BY <2>2, Zenon
  <2> HIDE DEF longer
  <2>4. Reading(chunks, steps, most, longer, n + 1)
    BY <2>3, Zenon DEF Reading, Then, first
  <2> QED BY <2>4
<1> HIDE DEF S
<1>3. \A n \in Nat : n \in S
  BY <1>1, <1>2, Induction
<1> QED BY <1>3 DEF S

\* Reading ends early only where no further row is within the prefix: what it returns
\* are the rows up to that step, from chunks cut anywhere.
LEMMA ReadPrefixSplits ==
  ASSUME NEW R, NEW chunks \in Seq(Seq(R)), NEW steps \in Nat, Increasing(FlattenSeq(chunks))
  PROVE  \E m : /\ Splits(FlattenSeq(chunks), steps, m)
                /\ ReadPrefix(chunks, steps) = SubSeq(FlattenSeq(chunks), 1, m)
<1> DEFINE all == FlattenSeq(chunks)
           n == Len(chunks)
           most == IF Len(all) < steps THEN Len(all) ELSE steps
           Right(rows) == \E m : Splits(all, steps, m) /\ rows = SubSeq(all, 1, m)
<1>1. PICK read : Reading(chunks, steps, most, read, n) /\ ReadPrefix(chunks, steps) = read[n].rows
  <2> DEFINE r == CHOOSE read : Reading(chunks, steps, most, read, n)
  <2>1. ReadPrefix(chunks, steps) = r[n].rows
    BY Zenon DEF ReadPrefix, Reading
  <2>2. n \in Nat
    OBVIOUS
  <2>3. Reading(chunks, steps, most, r, n)
    BY <2>2, ReadingExists
  <2> QED BY <2>1, <2>3
<1>2. /\ all \in Seq(R) /\ n \in Nat /\ Len(all) \in Nat /\ Joined(chunks, n) = all
  BY FlattenIsASequence, FlattenIsJoined
<1>3. /\ \A i \in 0..n : Joined(chunks, i) \in Seq(R)
      /\ Joined(chunks, 0) = <<>>
      /\ \A i \in 1..n : Joined(chunks, i) = Joined(chunks, i - 1) \o chunks[i]
  BY JoinedUnfolds
<1>4. \A i \in 0..n : /\ Len(Joined(chunks, i)) <= Len(all)
                      /\ \A k \in 1..Len(Joined(chunks, i)) : Joined(chunks, i)[k] = all[k]
  BY JoinedIsPrefix
<1>5. Increasing(all)
  OBVIOUS
<1> HIDE DEF all, n
<1> DEFINE Going(i) ==
             /\ read[i].more /\ read[i].rows = Joined(chunks, i)
             /\ \A k \in 1..Len(Joined(chunks, i)) : all[k].step <= steps
           S == {i \in Nat : i <= n => Going(i) \/ (~read[i].more /\ Right(read[i].rows))}
<1>6. 0 \in S
  <2>1. read[0] = [rows |-> <<>>, more |-> TRUE]
    BY <1>1, <1>2 DEF Reading
  <2>2. Going(0)
    BY <1>3, <2>1
  <2> QED BY <2>2
<1>7. ASSUME NEW i \in Nat, i \in S PROVE i + 1 \in S
  <2> SUFFICES ASSUME i + 1 <= n
               PROVE  Going(i + 1) \/ (~read[i + 1].more /\ Right(read[i + 1].rows))
    OBVIOUS
  <2> DEFINE chunk == chunks[i + 1]
             p == Joined(chunks, i)
             q == Joined(chunks, i + 1)
             used == Used(chunk, steps)
             rows == read[i].rows \o SubSeq(chunk, 1, used)
  <2>0. i + 1 \in 1..n /\ i + 1 \in 0..n /\ i \in 0..n /\ (i + 1) - 1 = i /\ i + 1 # 0
    BY <1>2
  <2>1. read[i + 1] =
          IF ~read[i].more THEN read[i]
          ELSE [rows |-> rows, more |-> used = Len(chunk) /\ Len(rows) < most]
    <3>1. \A j \in 0..n : read[j] =
            IF j = 0 THEN [rows |-> <<>>, more |-> TRUE]
            ELSE IF ~read[j - 1].more THEN read[j - 1]
            ELSE [rows |-> read[j - 1].rows \o SubSeq(chunks[j], 1, Used(chunks[j], steps)),
                  more |-> /\ Used(chunks[j], steps) = Len(chunks[j])
                           /\ Len(read[j - 1].rows \o SubSeq(chunks[j], 1, Used(chunks[j], steps))) < most]
      BY <1>1 DEF Reading
    <3> HIDE DEF most
    <3> QED BY <2>0, <3>1, Zenon
  <2>2. Going(i) \/ (~read[i].more /\ Right(read[i].rows))
    BY <1>7, <2>0
  <2>3. CASE ~read[i].more /\ Right(read[i].rows)
    BY <2>1, <2>3
  <2>4. CASE Going(i)
    <3>1. q = p \o chunk /\ p \in Seq(R) /\ q \in Seq(R)
      BY <1>3, <2>0
    <3>2. chunk \in Seq(R)
      BY <2>0 DEF n
    <3>3. /\ Len(q) = Len(p) + Len(chunk) /\ Len(q) <= Len(all)
          /\ \A k \in 1..Len(chunk) : chunk[k] = all[Len(p) + k]
          /\ \A k \in 1..Len(p) : p[k] = all[k]
      <4> HIDE DEF p, q, chunk
      <4>1. /\ Len(q) <= Len(all) /\ \A k \in 1..Len(q) : q[k] = all[k]
            /\ \A k \in 1..Len(p) : p[k] = all[k]
        BY <1>4, <2>0 DEF p, q
      <4>2. Len(q) = Len(p) + Len(chunk) /\ \A k \in 1..Len(chunk) : chunk[k] = q[Len(p) + k]
        BY <3>1, <3>2
      <4>3. \A k \in 1..Len(chunk) : Len(p) + k \in 1..Len(q)
        BY <3>1, <3>2, <4>2
      <4> QED BY <4>1, <4>2, <4>3
    <3>4. Increasing(chunk)
      <4> HIDE DEF p, q, chunk
      <4>1. Len(p) \in Nat /\ Len(chunk) \in Nat
        BY <3>1, <3>2
      <4>2. \A k \in 1..Len(chunk) : Len(p) + k \in 1..Len(all)
        BY <1>2, <3>3, <4>1
      <4>3. \A j, k \in 1..Len(chunk) : j < k => Len(p) + j < Len(p) + k
        BY <4>1
      <4> QED BY <1>5, <3>3, <4>2, <4>3 DEF Increasing
    <3>5. Splits(chunk, steps, used)
      <4> HIDE DEF chunk
      <4> QED BY <3>2, <3>4, UsedSplits
    <3>6. read[i].rows = p /\ read[i].more /\ \A k \in 1..Len(p) : all[k].step <= steps
      BY <2>4
    <3>7. read[i + 1].rows = p \o SubSeq(chunk, 1, used)
          /\ (read[i + 1].more <=> used = Len(chunk) /\ Len(p \o SubSeq(chunk, 1, used)) < most)
      <4> DEFINE more == used = Len(chunk) /\ Len(rows) < most
      <4>1. read[i + 1] = [rows |-> rows, more |-> more]
        BY <2>1, <3>6
      <4> HIDE DEF rows, more
      <4>2. read[i + 1].rows = rows /\ (read[i + 1].more <=> more)
        <5>1. read[i + 1].rows = rows
          BY <4>1
        <5>2. read[i + 1].more = more
          BY <4>1
        <5> QED BY <5>1, <5>2, Zenon
      <4>3. rows = p \o SubSeq(chunk, 1, used)
        BY <3>6 DEF rows
      <4> HIDE DEF p, chunk, used, most
      <4> QED BY <4>2, <4>3, Zenon DEF more
    <3> HIDE DEF p, q, chunk, used, most
    <3> DEFINE m == Len(p) + used
    <3>8. /\ Len(p) \in Nat /\ Len(chunk) \in Nat /\ used \in 0..Len(chunk) /\ m \in Nat /\ m <= Len(all)
          /\ Len(p) + Len(chunk) <= Len(all)
      BY <3>1, <3>2, <3>3, <3>5 DEF Splits
    <3>9. p \o SubSeq(chunk, 1, used) = SubSeq(all, 1, m)
      <4> DEFINE l == p \o SubSeq(chunk, 1, used)
                 r == SubSeq(all, 1, m)
      <4>1. l \in Seq(R) /\ r \in Seq(R) /\ Len(l) = m /\ Len(r) = m
        BY <1>2, <3>1, <3>2, <3>8
      <4>2. ASSUME NEW k \in 1..m PROVE l[k] = r[k]
        <5>1. r[k] = all[k]
          BY <1>2, <3>8
        <5>2. CASE k <= Len(p)
          <6>1. l[k] = p[k] /\ k \in 1..Len(p)
            BY <3>1, <3>2, <3>8, <5>2
          <6> QED BY <3>3, <5>1, <6>1
        <5>3. CASE k > Len(p)
          <6>1. k - Len(p) \in 1..used /\ k - Len(p) \in 1..Len(chunk) /\ Len(p) + (k - Len(p)) = k
            BY <3>8, <5>3
          <6>2. l[k] = chunk[k - Len(p)]
            BY <3>1, <3>2, <3>8, <5>3, <6>1
          <6> QED BY <3>3, <5>1, <6>1, <6>2
        <5> QED BY <3>8, <5>2, <5>3
      <4> HIDE DEF l, r
      <4> QED BY <4>1, <4>2 DEF l, r
    <3>10. \A k \in 1..m : all[k].step <= steps
      <4> SUFFICES ASSUME NEW k \in 1..m PROVE all[k].step <= steps
        OBVIOUS
      <4>1. CASE k <= Len(p)
        BY <3>6, <3>8, <4>1
      <4>2. CASE k > Len(p)
        <5>1. k - Len(p) \in 1..Len(chunk) /\ k - Len(p) <= used /\ Len(p) + (k - Len(p)) = k
          BY <3>8, <4>2
        <5>2. chunk[k - Len(p)].step <= steps
          BY <3>5, <5>1 DEF Splits
        <5> QED BY <3>3, <5>1, <5>2
      <4> QED BY <3>8, <4>1, <4>2
    <3>11. CASE used < Len(chunk)
      <4>1. used + 1 \in 1..Len(chunk) /\ ~(used + 1 <= used) /\ Len(p) + (used + 1) = m + 1
            /\ m + 1 \in 1..Len(all)
        BY <3>8, <3>11, <1>2
      <4>2. ~(all[m + 1].step <= steps)
        BY <3>3, <3>5, <4>1 DEF Splits
      <4>3. ASSUME NEW k \in 1..Len(all), k > m PROVE ~(all[k].step <= steps)
        <5>1. k = m + 1 \/ m + 1 < k
          BY <3>8, <4>3
        <5>2. all[k].step \in Nat /\ all[m + 1].step \in Nat
              /\ (m + 1 < k => all[m + 1].step < all[k].step)
          BY <1>5, <4>1 DEF Increasing
        <5> QED BY <4>2, <5>1, <5>2
      <4>4. Splits(all, steps, m)
        BY <1>2, <3>8, <3>10, <4>3 DEF Splits
      <4> HIDE DEF m
      <4>5. used # Len(chunk)
        BY <3>8, <3>11
      <4>6. ~read[i + 1].more /\ read[i + 1].rows = SubSeq(all, 1, m)
        BY <3>7, <3>9, <4>5, Zenon
      <4> QED BY <4>4, <4>6
    <3>12. CASE used = Len(chunk)
      <4>1. SubSeq(chunk, 1, used) = chunk
        BY <3>2, <3>12
      <4>2. Len(q) = m /\ read[i + 1].rows = q
        BY <3>1, <3>3, <3>7, <3>12, <4>1
      <4>3. CASE Len(q) < most
        <5>1. read[i + 1].more
          BY <3>1, <3>7, <3>12, <4>1, <4>3
        <5>2. \A k \in 1..Len(q) : all[k].step <= steps
          BY <3>10, <4>2
        <5> QED BY <4>2, <5>1, <5>2 DEF q
      <4>4. CASE ~(Len(q) < most)
        <5>1. ~read[i + 1].more
          BY <3>1, <3>7, <4>1, <4>4, <3>12
        <5>2. m = Len(all) \/ m >= steps
          BY <1>2, <3>8, <4>2, <4>4 DEF most
        <5>3. ASSUME NEW k \in 1..Len(all), k > m PROVE ~(all[k].step <= steps)
          <6>1. all[k].step >= k /\ all[k].step \in Nat
            BY <1>2, <1>5, StepsAreAhead DEF Increasing
          <6>2. k > steps
            BY <1>2, <3>8, <5>2, <5>3
          <6> QED BY <6>1, <6>2
        <5>4. Splits(all, steps, m)
          BY <1>2, <3>8, <3>10, <5>3 DEF Splits
        <5> HIDE DEF m
        <5> QED BY <3>7, <3>9, <5>1, <5>4
      <4> QED BY <4>3, <4>4
    <3> QED BY <3>8, <3>11, <3>12
  <2> QED BY <2>2, <2>3, <2>4
<1> HIDE DEF S
<1>8. \A i \in Nat : i \in S
  BY <1>6, <1>7, Induction
<1>9. Going(n) \/ Right(read[n].rows)
  BY <1>2, <1>8 DEF S
<1>10. CASE Right(read[n].rows)
  BY <1>1, <1>10 DEF all
<1>11. CASE Going(n)
  <2>1. read[n].rows = all /\ \A k \in 1..Len(all) : all[k].step <= steps
    BY <1>2, <1>11
  <2>2. all = SubSeq(all, 1, Len(all))
    BY <1>2
  <2>3. Splits(all, steps, Len(all))
    BY <1>2, <2>1 DEF Splits
  <2> QED BY <1>1, <2>1, <2>2, <2>3 DEF all
<1> QED BY <1>9, <1>10, <1>11

-----------------------------------------------------------------------------
(* Runs and their identities *)

SpecFields == {"group", "repetition", "name", "algorithm", "data", "protocol", "seed", "budget"}
RunIds == {RunId(spec) : spec \in Specs}

\* A run planned by an accepted configuration is one of the study's.
LEMMA SpecsArePlanned ==
  ASSUME NEW c \in UNION Studies, Accepted(c), NEW spec \in Plan(c)
  PROVE  spec \in Specs
BY DEF Specs

\* The fields of a run specification (make_run_spec).
LEMMA SpecsAreRecords ==
  ASSUME NEW spec \in Specs
  PROVE  DOMAIN spec = SpecFields /\ spec = [f \in SpecFields |-> spec[f]]
<1>1. PICK c \in UNION Studies : Accepted(c) /\ spec \in Plan(c)
  BY DEF Specs
<1>2. PICK e \in Entries(c) : spec = Planned(c, e)
  BY <1>1 DEF Plan
<1>3. spec # None
  BY <1>1 DEF Accepted
<1>4. PICK part : spec = MakeRunSpec(e, part, c)
  BY <1>2 DEF Planned
<1>5. \E a, b, g, d, h, i, j, k :
         spec = [group |-> a, repetition |-> b, name |-> g, algorithm |-> d, data |-> h,
                 protocol |-> i, seed |-> j, budget |-> k]
  BY <1>3, <1>4 DEF MakeRunSpec
<1> QED BY <1>5 DEF SpecFields

\* The identity of a run keeps all but the budget.
LEMMA RunIdIsTheRun ==
  ASSUME NEW spec \in Specs
  PROVE  /\ RunId(spec) \in RunIds /\ RunId(spec).budget = None
         /\ \A f \in SpecFields : f # "budget" => RunId(spec)[f] = spec[f]
BY SpecsAreRecords DEF RunIds, RunId, SpecFields

\* The budget is not part of what a run computes.
LEMMA BudgetIsNoScience ==
  ASSUME NEW spec \in Specs
  PROVE  /\ CreateInstance(spec) = CreateInstance(RunId(spec))
         /\ \A instance : Construct(spec, instance) = Construct(RunId(spec), instance)
         /\ \A run : Initialize(spec, run) = Initialize(RunId(spec), run)
         /\ \A run : Step(spec, run) = Step(RunId(spec), run)
<1> DEFINE science == RunId(spec)
<1>1. /\ spec["data"] = science["data"] /\ spec["protocol"] = science["protocol"]
      /\ spec["algorithm"] = science["algorithm"]
      /\ spec.group = science.group /\ spec.repetition = science.repetition /\ spec.seed = science.seed
  BY RunIdIsTheRun DEF SpecFields
<1> HIDE DEF science
<1>2. \A part \in Parts : spec[part] = science[part]
  BY <1>1 DEF Parts
<1>3. ASSUME NEW stream \in Parts \union {"instance"}
      PROVE  Stream(spec, stream) = Stream(science, stream)
  <2> DEFINE part == IF stream = "instance" THEN "data" ELSE stream
             parts == IF stream \in {"data", "instance"} THEN {"data"} ELSE Parts
  <2>1. part \in Parts /\ parts \subseteq Parts
    BY DEF Parts
  <2>2. [p \in parts |-> <<spec[p].type, spec[p].params>>]
          = [p \in parts |-> <<science[p].type, science[p].params>>]
    BY <1>2, <2>1
  <2>3. spec[part].seed = science[part].seed
    BY <1>2, <2>1
  <2> HIDE DEF part, parts
  <2>4. \A s : Stream(s, stream) =
          [root |-> IF s[part].seed = None THEN s.seed ELSE s[part].seed,
           stream |-> stream, group |-> s.group, repetition |-> s.repetition,
           components |-> [p \in parts |-> <<s[p].type, s[p].params>>]]
    BY Zenon DEF Stream, part, parts
  <2> DEFINE Of(s) == [root |-> IF s[part].seed = None THEN s.seed ELSE s[part].seed,
           stream |-> stream, group |-> s.group, repetition |-> s.repetition,
           components |-> [p \in parts |-> <<s[p].type, s[p].params>>]]
  <2>5. Of(spec) = Of(science)
    BY <1>1, <2>2, <2>3
  <2>6. Stream(spec, stream) = Of(spec) /\ Stream(science, stream) = Of(science)
    BY <2>4, Zenon
  <2> HIDE DEF Of
  <2> QED BY <2>5, <2>6
<1>4. CreateInstance(spec) = CreateInstance(science)
  <2>1. Stream(spec, "instance") = Stream(science, "instance")
    BY <1>3
  <2> QED BY <1>1, <2>1, Zenon DEF CreateInstance
<1>5. \A instance : Construct(spec, instance) = Construct(science, instance)
  <2>1. [part \in Parts |-> Generator(Stream(spec, part))] = [part \in Parts |-> Generator(Stream(science, part))]
    BY <1>3
  <2> QED BY <1>1, <2>1, Zenon DEF Construct
<1>6. \A run : Initialize(spec, run) = Initialize(science, run)
  BY <1>1, Zenon DEF Initialize
<1>7. ASSUME NEW run PROVE Step(spec, run) = Step(science, run)
  <2>1. CurrentMeans(spec, run) = CurrentMeans(science, run)
    BY <1>1, Zenon DEF CurrentMeans
  <2>2. Online(spec, run) = Online(science, run)
    BY <2>1, Zenon DEF Online
  <2> QED BY <1>1, <2>2, Zenon DEF Step
<1> QED BY <1>4, <1>5, <1>6, <1>7 DEF science

-----------------------------------------------------------------------------
(* What every step does to a run *)

RunFields == {"instance", "algorithm", "data", "protocol", "rngs", "row"}
IsRun(run) ==
  /\ DOMAIN run = RunFields /\ run = [f \in RunFields |-> run[f]]
  /\ "step" \in DOMAIN run.protocol /\ run.protocol.step \in Nat

Records(row, fields) == row = [f \in fields |-> row[f]]

\* One step later
Follows(run, after) ==
  IsRun(after) /\ after.instance = run.instance /\ after.protocol.step = run.protocol.step + 1

\* Components constructed anew are a run at step zero.
LEMMA ConstructIsRun ==
  ASSUME NEW spec, NEW instance
  PROVE  LET run == Construct(spec, instance)
         IN IsRun(run) /\ run.instance = instance /\ run.protocol.step = 0
<1> DEFINE run == Construct(spec, instance)
<1>1. \E a, b, d, e : run = [instance |-> instance, algorithm |-> a, data |-> b,
         protocol |-> IF spec["protocol"].type = "rl"
                    THEN [step |-> 0, observation |-> None, episode |-> 0, needs_reset |-> TRUE]
                    ELSE [step |-> 0], rngs |-> d, row |-> e]
  BY Zenon DEF Construct
<1> HIDE DEF run
<1>2. run.instance = instance /\ DOMAIN run = RunFields /\ run = [f \in RunFields |-> run[f]]
  BY <1>1 DEF RunFields
<1>3. "step" \in DOMAIN run.protocol /\ run.protocol.step = 0
  BY <1>1
<1> QED BY <1>2, <1>3 DEF IsRun, run

\* A reset of the environment is no step, and leaves the instance alone.
LEMMA ResetIsRun ==
  ASSUME NEW run, IsRun(run)
  PROVE  IsRun(Reset(run)) /\ Reset(run).instance = run.instance
         /\ Reset(run).protocol.step = run.protocol.step
<1> DEFINE after == Reset(run)
<1>1. PICK d, x : after = [run EXCEPT !.data = d, !.protocol.observation = x, !.protocol.needs_reset = FALSE]
  BY Zenon DEF Reset
<1> HIDE DEF after
<1>2. DOMAIN after = RunFields /\ after = [f \in RunFields |-> after[f]] /\ after.instance = run.instance
  BY <1>1 DEF IsRun, RunFields
<1>3. after.protocol = [[run.protocol EXCEPT !.observation = x] EXCEPT !.needs_reset = FALSE]
  BY <1>1 DEF IsRun, RunFields
<1>4. "step" \in DOMAIN after.protocol /\ after.protocol.step = run.protocol.step
  BY <1>3 DEF IsRun
<1> QED BY <1>2, <1>4 DEF IsRun, after

\* The mean of the arm that a step played
Played(spec, run, after) == CurrentMeans(spec, run)[after.row.action + 1]
\* What the algorithm chose, and what it keeps of the reward
Learns(spec, run, after) ==
  /\ Records(after.row, {"step", "action", "reward"})
  /\ after.row.action = (run.algorithm + Next1(run.rngs["algorithm"])) % Len(CurrentMeans(spec, run))
  /\ after.algorithm = (run.algorithm + after.row.reward) % 3

\* One step of the online protocol: the data answers an action, then the algorithm learns.
LEMMA OnlineStep ==
  ASSUME NEW spec, NEW run, IsRun(run)
  PROVE  LET after == Online(spec, run)
         IN /\ Follows(run, after)
            /\ after.data = [run.data EXCEPT !.step = @ + 1]
            /\ after.rngs = [[run.rngs EXCEPT !["algorithm"].at = @ + 1]
                               EXCEPT !["data"].at = IF Takes(run.instance, Played(spec, run, after))
                                                     THEN run.rngs["data"].at + 1 ELSE run.rngs["data"].at]
            /\ after.row.step = run.protocol.step + 1
            /\ after.row.reward = Reward(run.instance, Played(spec, run, after), Next1(run.rngs["data"]))
            /\ Learns(spec, run, after)
<1> DEFINE after == Online(spec, run)
           means == CurrentMeans(spec, run)
           action == (run.algorithm + Next1(run.rngs["algorithm"])) % Len(means)
           reward == Reward(run.instance, means[action + 1], Next1(run.rngs["data"]))
           row == [step |-> run.protocol.step + 1, action |-> action, reward |-> reward]
           half == [run EXCEPT !.algorithm = (@ + reward) % 3, !.data.step = @ + 1,
                               !.protocol.step = @ + 1, !.rngs["algorithm"].at = @ + 1]
           position == IF Takes(run.instance, means[action + 1])
                       THEN run.rngs["data"].at + 1 ELSE run.rngs["data"].at
<1>1. after = [half EXCEPT !.rngs["data"].at = position, !.row = row]
  <2>1. after = [run EXCEPT !.algorithm = (@ + reward) % 3, !.data.step = @ + 1, !.protocol.step = @ + 1,
                            !.rngs["algorithm"].at = @ + 1, !.rngs["data"].at = position, !.row = row]
    BY Zenon DEF Online
  <2> HIDE DEF after, reward, row, position
  <2> QED BY <2>1, Zenon
<1>2. /\ DOMAIN half = RunFields /\ half = [f \in RunFields |-> half[f]]
      /\ half.instance = run.instance
  <2> HIDE DEF reward
  <2> QED BY DEF IsRun, RunFields
<1>3. /\ half.protocol = [run.protocol EXCEPT !.step = @ + 1]
      /\ half.data = [run.data EXCEPT !.step = @ + 1]
      /\ half.rngs = [run.rngs EXCEPT !["algorithm"].at = @ + 1]
      /\ half.algorithm = (run.algorithm + reward) % 3
  <2> HIDE DEF reward
  <2> QED BY DEF IsRun, RunFields
<1> HIDE DEF half, after, row
<1>4. /\ DOMAIN after = RunFields /\ after = [f \in RunFields |-> after[f]]
      /\ after.instance = half.instance /\ after.data = half.data /\ after.protocol = half.protocol
      /\ after.algorithm = half.algorithm
  BY <1>1, <1>2 DEF RunFields
<1>5. after.row = row /\ after.rngs = [half.rngs EXCEPT !["data"].at = position]
  <2> HIDE DEF position
  <2> QED BY <1>1, <1>2 DEF RunFields
<1>6. "step" \in DOMAIN after.protocol /\ after.protocol.step = run.protocol.step + 1
  BY <1>3, <1>4 DEF IsRun
<1>7. after.row = [step |-> run.protocol.step + 1, action |-> action, reward |-> reward]
  BY <1>5 DEF row
<1>a. /\ after.row.action = action /\ after.row.reward = reward
      /\ Records(after.row, {"step", "action", "reward"})
  <2> HIDE DEF action
  <2> QED BY <1>7 DEF Records
<1>b. after.algorithm = (run.algorithm + after.row.reward) % 3
  <2> HIDE DEF reward
  <2> QED BY <1>3, <1>4, <1>a
<1>c. after.row.action = (run.algorithm + Next1(run.rngs["algorithm"])) % Len(CurrentMeans(spec, run))
  BY <1>a
<1>e. Played(spec, run, after) = means[action + 1]
  BY <1>a, Zenon DEF Played
<1>8. /\ after.row.step = run.protocol.step + 1
      /\ after.row.reward = Reward(run.instance, Played(spec, run, after), Next1(run.rngs["data"]))
  <2>1. after.row.step = run.protocol.step + 1
    <3> HIDE DEF action, reward
    <3> QED BY <1>7
  <2> QED BY <2>1, <1>a, <1>e, Zenon
<1>f. position = IF Takes(run.instance, Played(spec, run, after))
                 THEN run.rngs["data"].at + 1 ELSE run.rngs["data"].at
  <2> HIDE DEF action
  <2> QED BY <1>e, Zenon
<1> HIDE DEF action, position
<1>9. after.rngs = [[run.rngs EXCEPT !["algorithm"].at = @ + 1]
         EXCEPT !["data"].at = IF Takes(run.instance, Played(spec, run, after))
                               THEN run.rngs["data"].at + 1 ELSE run.rngs["data"].at]
  BY <1>3, <1>5, <1>f, Zenon
<1>10. IsRun(after) /\ after.instance = run.instance
  BY <1>2, <1>4, <1>6 DEF IsRun
<1>11. after.data = [run.data EXCEPT !.step = @ + 1]
  BY <1>3, <1>4
<1>12. Follows(run, after)
  BY <1>6, <1>10 DEF Follows
<1>d. Learns(spec, run, after)
  BY <1>a, <1>b, <1>c DEF Learns
<1> QED BY <1>8, <1>9, <1>11, <1>12, <1>d, Zenon DEF after

\* One step of the episodic protocol, after a reset that was pending.
LEMMA RLStep ==
  ASSUME NEW run, IsRun(run)
  PROVE  LET after == RL(run)
         IN /\ Follows(run, after)
            /\ after.row.step = run.protocol.step + 1
<1> DEFINE before == IF run.protocol.needs_reset
                     THEN [Reset(run) EXCEPT !.protocol.episode = @ + 1] ELSE run
           after == RL(run)
  <1>1. IsRun(before) /\ before.instance = run.instance /\ before.protocol.step = run.protocol.step
    <2> DEFINE again == [Reset(run) EXCEPT !.protocol.episode = @ + 1]
    <2>1. IsRun(again) /\ again.instance = run.instance /\ again.protocol.step = run.protocol.step
      <3>1. IsRun(Reset(run)) /\ Reset(run).instance = run.instance
            /\ Reset(run).protocol.step = run.protocol.step
        BY ResetIsRun
      <3>2. DOMAIN again = RunFields /\ again = [f \in RunFields |-> again[f]]
            /\ again.instance = Reset(run).instance
        BY <3>1 DEF IsRun, RunFields
      <3>3. again.protocol = [Reset(run).protocol EXCEPT !.episode = @ + 1]
        BY <3>1 DEF IsRun, RunFields
      <3> HIDE DEF again
      <3>4. "step" \in DOMAIN again.protocol /\ again.protocol.step = Reset(run).protocol.step
        BY <3>1, <3>3 DEF IsRun
      <3> QED BY <3>1, <3>2, <3>4 DEF IsRun
    <2> QED BY <2>1
<1> DEFINE environment == before.data.environment
           action == (before.algorithm + Next1(before.rngs["algorithm"]) + before.protocol.observation) % 2
           x == environment.x + IF action = Next1(environment.rng) % 2 THEN 1 ELSE 0
           over == x >= 2
           row == [step |-> before.protocol.step + 1, action |-> action, reward |-> action + x,
                   episode |-> before.protocol.episode]
<1>2. after = [before EXCEPT
       !.algorithm = (@ + action + x) % 3,
       !.data = [environment |-> [x |-> x, rng |-> [environment.rng EXCEPT !.at = @ + 1]],
                 initialized |-> TRUE, needs_reset |-> over],
       !.protocol = [step |-> @.step + 1, observation |-> x, episode |-> @.episode, needs_reset |-> over],
       !.rngs["algorithm"].at = @ + 1,
       !.row = row]
  BY Zenon DEF RL
<1>a. row.step = before.protocol.step + 1
  OBVIOUS
<1> HIDE DEF environment, action, x, over, row, after, before
<1>3. DOMAIN after = RunFields /\ after = [f \in RunFields |-> after[f]] /\ after.instance = before.instance
  BY <1>1, <1>2 DEF IsRun, RunFields
<1>4. after.protocol = [step |-> before.protocol.step + 1, observation |-> x,
                        episode |-> before.protocol.episode, needs_reset |-> over]
  BY <1>1, <1>2 DEF IsRun, RunFields
<1>5. "step" \in DOMAIN after.protocol /\ after.protocol.step = before.protocol.step + 1
  BY <1>4
<1>6. after.row = row
  BY <1>1, <1>2 DEF IsRun, RunFields
<1> QED BY <1>1, <1>3, <1>5, <1>6, <1>a DEF IsRun, Follows, after

\* The one step of the offline protocol.
LEMMA OfflineStep ==
  ASSUME NEW run, IsRun(run)
  PROVE  LET after == Offline(run)
         IN /\ Follows(run, after)
            /\ after.row.step = 1
<1> DEFINE after == Offline(run)
           row == [step |-> 1, output |-> run.algorithm + Next1(run.rngs["data"])]
<1>1. after = [run EXCEPT !.protocol.step = @ + 1, !.rngs["data"].at = @ + 1, !.row = row]
  BY Zenon DEF Offline
<1>2. row.step = 1
  OBVIOUS
<1> HIDE DEF after, row
<1>3. DOMAIN after = RunFields /\ after = [f \in RunFields |-> after[f]] /\ after.instance = run.instance
  BY <1>1 DEF IsRun, RunFields
<1>4. after.protocol = [run.protocol EXCEPT !.step = @ + 1] /\ after.row = row
  BY <1>1 DEF IsRun, RunFields
<1>5. "step" \in DOMAIN after.protocol /\ after.protocol.step = run.protocol.step + 1
  BY <1>4 DEF IsRun
<1> QED BY <1>2, <1>3, <1>4, <1>5 DEF IsRun, Follows, after

\* A step of an unlimited protocol is recorded with its number, the one of another with 1.
LEMMA StepIsRun ==
  ASSUME NEW spec, NEW run, IsRun(run)
  PROVE  LET after == Step(spec, run)
         IN /\ Follows(run, after)
            /\ after.row.step = IF spec["protocol"].type \in Steps THEN run.protocol.step + 1 ELSE 1
<1>1. CASE spec["protocol"].type = "online"
  <2>1. Step(spec, run) = Online(spec, run)
    BY <1>1, Zenon DEF Step
  <2>2. Follows(run, Online(spec, run)) /\ Online(spec, run).row.step = run.protocol.step + 1
    BY OnlineStep
  <2> QED BY <1>1, <2>1, <2>2 DEF Steps
<1>2. CASE spec["protocol"].type = "rl"
  <2>1. Step(spec, run) = RL(run)
    BY <1>2 DEF Step
  <2> QED BY <1>2, <2>1, RLStep DEF Steps
<1>3. CASE spec["protocol"].type \notin Steps
  <2>1. Step(spec, run) = Offline(run)
    BY <1>3 DEF Step, Steps
  <2> QED BY <1>3, <2>1, OfflineStep
<1> QED BY <1>1, <1>2, <1>3 DEF Steps

-----------------------------------------------------------------------------
(* Lives *)

\* The equations of a life.
LEMMA LifeUnfolds ==
  ASSUME NEW science \in RunIds
  PROVE  /\ Life[science][0] = Initialize(science, Construct(science, CreateInstance(science)))
         /\ \A i \in Nat : Life[science][i + 1] = Step(science, Life[science][i])
<1>1. Life[science] = Uninterrupted(science)
  BY DEF Life, RunIds
<1> QED BY <1>1, UninterruptedUnfolds

\* After i steps of a life the protocol counts i, on the instance of the science.
LEMMA LifeCountsSteps ==
  ASSUME NEW science \in RunIds, NEW i \in Nat
  PROVE  /\ IsRun(Life[science][i]) /\ Life[science][i].protocol.step = i
         /\ Life[science][i].instance = CreateInstance(science)
<1> DEFINE Good(n) == /\ IsRun(Life[science][n]) /\ Life[science][n].protocol.step = n
                      /\ Life[science][n].instance = CreateInstance(science)
           S == {n \in Nat : Good(n)}
<1>1. 0 \in S
  <2> DEFINE run == Construct(science, CreateInstance(science))
  <2>1. IsRun(run) /\ run.instance = CreateInstance(science) /\ run.protocol.step = 0
    BY ConstructIsRun
  <2> HIDE DEF run
  <2>2. LET r == Initialize(science, run)
        IN IsRun(r) /\ r.instance = CreateInstance(science) /\ r.protocol.step = 0
    BY <2>1, ResetIsRun DEF Initialize
  <2> QED BY <2>2, LifeUnfolds DEF run
<1>2. ASSUME NEW n \in Nat, n \in S PROVE n + 1 \in S
  <2>1. Good(n)
    BY <1>2
  <2>2. Life[science][n + 1] = Step(science, Life[science][n])
    BY LifeUnfolds
  <2> QED BY <2>1, <2>2, StepIsRun DEF Follows
<1> HIDE DEF S
<1>3. i \in S
  BY <1>1, <1>2, Induction
<1> QED BY <1>3 DEF S

\* What each step of a life recorded carries the number of the step, unless a run of one
\* step is carried on.
LEMMA LifeRecordsSteps ==
  ASSUME NEW science \in RunIds, NEW i \in Nat \ {0}, science["protocol"].type \in Steps \/ i = 1
  PROVE  Life[science][i].row.step = i
<1>1. i - 1 \in Nat /\ (i - 1) + 1 = i
  OBVIOUS
<1>2. Life[science][(i - 1) + 1] = Step(science, Life[science][i - 1])
  BY <1>1, LifeUnfolds
<1>3. IsRun(Life[science][i - 1]) /\ Life[science][i - 1].protocol.step = i - 1
  BY <1>1, LifeCountsSteps
<1>4. Step(science, Life[science][i - 1]).row.step
        = IF science["protocol"].type \in Steps THEN Life[science][i - 1].protocol.step + 1 ELSE 1
  BY <1>3, StepIsRun
<1> QED BY <1>1, <1>2, <1>3, <1>4

-----------------------------------------------------------------------------
(* Bandits *)

\* A bandit is run by the online protocol.
LEMMA BanditsAreOnline ==
  ASSUME NEW science \in RunIds, science["data"].type \in Bandits
  PROVE  science["protocol"].type = "online"
<1>1. PICK spec \in Specs : science = RunId(spec)
  BY DEF RunIds
<1>2. spec["data"] = science["data"] /\ spec["protocol"] = science["protocol"]
  BY <1>1, RunIdIsTheRun DEF SpecFields
<1> QED BY <1>2, StudiesAssumption

\* A bandit starts at its step zero, with the stream of its data untouched.
LEMMA ConstructsBandits ==
  ASSUME NEW science, science["data"].type \in Bandits
  PROVE  LET first == Construct(science, CreateInstance(science))
         IN /\ first.data = [step |-> 0] /\ {"algorithm", "data"} \subseteq DOMAIN first.rngs
            /\ first.rngs["data"] = [stream |-> Stream(science, "data"), at |-> 0]
<1> DEFINE first == Construct(science, CreateInstance(science))
           rngs == [part \in Parts |-> Generator(Stream(science, part))]
<1>1. \E instance, algorithm, protocol :
        first = [instance |-> instance, algorithm |-> algorithm,
                 data |-> CASE science["data"].type \in Bandits -> [step |-> 0]
                    [] science["data"].type = "gymnasium" ->
                         [environment |-> None, initialized |-> FALSE, needs_reset |-> TRUE]
                    [] OTHER -> <<>>,
                 protocol |-> protocol, rngs |-> [rngs EXCEPT !["algorithm"].at = 1], row |-> None]
  BY Zenon DEF Construct
<1>2. science["data"].type # "gymnasium"
  BY DEF Bandits
<1> HIDE DEF first, rngs
<1>3. first.data = [step |-> 0] /\ first.rngs = [rngs EXCEPT !["algorithm"].at = 1]
  BY <1>1, <1>2
<1>4. /\ {"algorithm", "data"} \subseteq DOMAIN first.rngs
      /\ first.rngs["data"] = Generator(Stream(science, "data"))
  BY <1>3 DEF Parts, rngs
<1> QED BY <1>3, <1>4 DEF Generator, first

\* After i steps a bandit is at its step i.
LEMMA BanditsCountSteps ==
  ASSUME NEW science \in RunIds, science["data"].type \in Bandits, NEW i \in Nat
  PROVE  Life[science][i].data.step = i
<1> DEFINE run(n) == Life[science][n]
           S == {n \in Nat : "step" \in DOMAIN run(n).data /\ run(n).data.step = n}
<1>0. science["protocol"].type = "online"
  BY BanditsAreOnline
<1>1. 0 \in S
  <2>1. run(0) = Construct(science, CreateInstance(science))
    BY <1>0, LifeUnfolds DEF Initialize
  <2>2. Construct(science, CreateInstance(science)).data = [step |-> 0]
    BY ConstructsBandits
  <2> QED BY <2>1, <2>2
<1>2. ASSUME NEW n \in Nat, n \in S PROVE n + 1 \in S
  <2>1. run(n + 1) = Online(science, run(n)) /\ IsRun(run(n))
    BY <1>0, LifeUnfolds, LifeCountsSteps DEF Step
  <2>2. run(n + 1).data = [run(n).data EXCEPT !.step = @ + 1]
    <3> HIDE DEF run
    <3>1. ASSUME NEW r, IsRun(r) PROVE Online(science, r).data = [r.data EXCEPT !.step = @ + 1]
      BY ONLY <3>1, OnlineStep
    <3> QED BY <2>1, <3>1
  <2>3. "step" \in DOMAIN run(n).data /\ run(n).data.step = n
    BY <1>2
  <2> HIDE DEF run
  <2>4. "step" \in DOMAIN run(n + 1).data /\ run(n + 1).data.step = n + 1
    BY <2>2, <2>3
  <2> QED BY <2>4
<1> HIDE DEF S
<1>3. i \in S
  BY <1>1, <1>2, Induction
<1> QED BY <1>3 DEF S

-----------------------------------------------------------------------------
(* What is observed of a run *)

Rows(science) == {Life[science][i].row : i \in Nat}
Extends(science) ==
  science["protocol"].type \in Steps /\ \A part \in Parts : science[part].type \in Continuing
Ends(id) == IF id.science["protocol"].type \in Steps THEN id.budget ELSE 1
Keeps(id) == {i \in Nat : i % id.every = 0 \/ (i >= Ends(id) /\ ~Extends(id.science))}
\* What a variant retains of its run up to each step
Seen(id) == Sampled(Life[id.science], Keeps(id))
\* As far as steps have numbers of their own
Numbered(science, step) == science["protocol"].type \in Steps \/ step <= 1

\* A variant is stored by its science and interval, and by its budget if it cannot be
\* extended.
LEMMA StorageIds ==
  ASSUME NEW spec \in Specs, NEW c
  PROVE  LET id == StorageId(c, spec)
         IN /\ id.science = RunId(spec) /\ id.science \in RunIds /\ id.every = c.every
            /\ Extendable(spec) <=> Extends(id.science)
            /\ ~Extends(id.science) =>
                 Ends(id) = IF spec["protocol"].type \in Steps THEN spec.budget ELSE 1
            /\ ~Extends(id.science) => Ends(id) \in Nat \ {0}
<1> DEFINE id == StorageId(c, spec)
<1>1. /\ id.science = RunId(spec) /\ id.every = c.every
      /\ id.budget = IF Extendable(spec) THEN None ELSE spec.budget
  BY DEF StorageId
<1>2. RunId(spec) \in RunIds /\ \A part \in Parts : RunId(spec)[part] = spec[part]
  BY RunIdIsTheRun DEF SpecFields, Parts
<1>3. spec.budget # None <=> spec["protocol"].type \in Steps
  BY StudiesAssumption
<1>4. RunId(spec)["protocol"] = spec["protocol"]
  BY <1>2 DEF Parts
<1>5. Extendable(spec) <=> Extends(RunId(spec))
  BY <1>2, <1>3, <1>4 DEF Extendable, Extends
<1> HIDE DEF id
<1>6. ~Extends(id.science) => Ends(id) = IF spec["protocol"].type \in Steps THEN spec.budget ELSE 1
  BY <1>1, <1>4, <1>5 DEF Ends
<1>7. ~Extends(id.science) => Ends(id) \in Nat \ {0}
  BY <1>6, StudiesAssumption
<1> QED BY <1>1, <1>2, <1>5, <1>6, <1>7 DEF id

\* A session records the steps that the variant's identity says are kept.
LEMMA RecordedIsKept ==
  ASSUME NEW spec \in Specs, NEW i \in Nat
  PROVE  Recorded(spec, Life[RunId(spec)][i]) <=> i \in Keeps(StorageId(config, spec))
<1> DEFINE id == StorageId(config, spec)
           run == Life[RunId(spec)][i]
<1>1. /\ id.science = RunId(spec) /\ id.science \in RunIds /\ id.every = config.every
      /\ Extendable(spec) <=> Extends(id.science)
      /\ ~Extends(id.science) => Ends(id) = IF spec["protocol"].type \in Steps THEN spec.budget ELSE 1
  BY StorageIds, Zenon
<1>2. run.protocol.step = i
  BY <1>1, LifeCountsSteps
<1> HIDE DEF id, run
<1>3. Recorded(spec, run) <=> i % config.every = 0 \/ (Finished(spec, run) /\ ~Extendable(spec))
  BY <1>2 DEF Recorded
<1>4. Finished(spec, run) <=> i >= IF spec["protocol"].type \in Steps THEN spec.budget ELSE 1
  BY <1>2 DEF Finished
<1> QED BY <1>1, <1>3, <1>4 DEF Keeps, id, run

\* What is observed for a request is what its variant retains.
LEMMA ObservedIsSeen ==
  ASSUME NEW spec \in Specs
  PROVE  Observed(spec) = Seen(StorageId(config, spec))
<1> DEFINE life == Life[RunId(spec)]
<1>1. \A i \in Nat : Recorded(spec, life[i]) <=> i \in Keeps(StorageId(config, spec))
  BY RecordedIsKept
<1>2. StorageId(config, spec).science = RunId(spec)
  BY DEF StorageId
<1>3. Keeps(StorageId(config, spec)) \subseteq Nat
  BY DEF Keeps
<1>4. {i \in Nat : Recorded(spec, life[i])} = Keeps(StorageId(config, spec))
  BY <1>1, <1>3
<1> QED BY <1>2, <1>4 DEF Observed, Seen

\* The equations of what is retained.
LEMMA SeenUnfolds ==
  ASSUME NEW id
  PROVE  /\ Seen(id)[0] = <<>>
         /\ \A i \in Nat : Seen(id)[i + 1] =
              IF i + 1 \in Keeps(id) THEN Append(Seen(id)[i], Life[id.science][i + 1].row) ELSE Seen(id)[i]
<1> DEFINE life == Life[id.science]
           steps == Keeps(id)
<1>1. Seen(id) = Sampled(life, steps)
  BY DEF Seen
<1> HIDE DEF life, steps
<1>2. /\ Sampled(life, steps)[0] = <<>>
      /\ \A i \in Nat : Sampled(life, steps)[i + 1] =
           IF i + 1 \in steps THEN Append(Sampled(life, steps)[i], life[i + 1].row) ELSE Sampled(life, steps)[i]
  BY SampledUnfolds
<1> QED BY <1>1, <1>2 DEF life, steps

\* What is retained are rows of the life, each with its number, in their order.
LEMMA SeenIsOrdered ==
  ASSUME NEW id, id.science \in RunIds, NEW n \in Nat
  PROVE  /\ Seen(id)[n] \in Seq(Rows(id.science))
         /\ Numbered(id.science, n) =>
              /\ Increasing(Seen(id)[n])
              /\ \A k \in 1..Len(Seen(id)[n]) :
                   LET row == Seen(id)[n][k]
                   IN row.step \in 1..n /\ row = Life[id.science][row.step].row
<1> DEFINE R == Rows(id.science)
           life == Life[id.science]
           seen(m) == Seen(id)[m]
           Placed(m, rows) == \A k \in 1..Len(rows) :
                                rows[k].step \in 1..m /\ rows[k] = life[rows[k].step].row
           Good(m) == /\ seen(m) \in Seq(R)
                      /\ Numbered(id.science, m) => Increasing(seen(m)) /\ Placed(m, seen(m))
           S == {m \in Nat : Good(m)}
<1>1. 0 \in S
  <2>1. seen(0) = <<>>
    BY SeenUnfolds
  <2> HIDE DEF seen
  <2>2. <<>> \in Seq(R) /\ Increasing(<<>>) /\ Placed(0, <<>>)
    BY DEF Increasing
  <2> QED BY <2>1, <2>2
<1>2. ASSUME NEW m \in Nat, m \in S PROVE m + 1 \in S
  <2> DEFINE row == life[m + 1].row
             rows == seen(m)
             more == Append(rows, row)
  <2>1. Good(m)
    BY <1>2
  <2>2. seen(m + 1) = IF m + 1 \in Keeps(id) THEN more ELSE rows
    BY SeenUnfolds
  <2>3. Numbered(id.science, m + 1) => Numbered(id.science, m) /\ row.step = m + 1
    <3>1. m + 1 \in Nat \ {0} /\ (m + 1 <= 1 => m + 1 = 1 /\ m <= 1)
      OBVIOUS
    <3> QED BY <3>1, LifeRecordsSteps DEF Numbered
  <2>4. row \in R /\ rows \in Seq(R)
    BY <2>1 DEF Rows
  <2> HIDE DEF seen, row, rows, R
  <2>5. more \in Seq(R)
    BY <2>4
  <2>6. ASSUME Numbered(id.science, m + 1)
        PROVE  /\ Increasing(rows) /\ Placed(m + 1, rows)
               /\ Increasing(more) /\ Placed(m + 1, more)
    <3>1. row.step = m + 1 /\ Increasing(rows) /\ Placed(m, rows)
      BY <2>1, <2>3, <2>6 DEF rows
    <3>2. \A k \in 1..Len(rows) : rows[k].step \in 1..m
      BY <3>1
    <3>3. /\ Len(rows) \in Nat /\ Len(more) = Len(rows) + 1 /\ more[Len(rows) + 1] = row
          /\ \A k \in 1..Len(rows) : more[k] = rows[k]
          /\ \A k \in 1..(Len(rows) + 1) : k \in 1..Len(rows) \/ k = Len(rows) + 1
      BY <2>4
    <3>4. Placed(m + 1, rows)
      BY <3>1
    <3> HIDE DEF more
    <3>5. Placed(m + 1, more)
      <4> SUFFICES ASSUME NEW k \in 1..(Len(rows) + 1)
                   PROVE  more[k].step \in 1..(m + 1) /\ more[k] = life[more[k].step].row
        BY <3>3
      <4>1. CASE k \in 1..Len(rows)
        BY <3>3, <3>4, <4>1
      <4>2. CASE k = Len(rows) + 1
        BY <3>1, <3>3, <4>2 DEF row
      <4> QED BY <3>3, <4>1, <4>2
    <3>6. Increasing(more)
      <4>1. \A k \in 1..Len(more) : more[k].step \in Nat \ {0}
        BY <3>5
      <4>2. \A j, k \in 1..Len(more) : j < k => j \in 1..Len(rows)
        BY <3>3
      <4>3. ASSUME NEW j \in 1..Len(more), NEW k \in 1..Len(more), j < k
            PROVE  more[j].step < more[k].step
        <5>1. j \in 1..Len(rows) /\ more[j] = rows[j] /\ rows[j].step \in 1..m
          BY <3>2, <3>3, <4>2, <4>3
        <5>2. CASE k \in 1..Len(rows)
          BY <3>1, <3>3, <4>3, <5>1, <5>2 DEF Increasing
        <5>3. CASE k = Len(rows) + 1
          BY <3>1, <3>3, <5>1, <5>3
        <5> QED BY <3>3, <5>2, <5>3
      <4> QED BY <4>1, <4>3 DEF Increasing
    <3> QED BY <3>1, <3>4, <3>5, <3>6
  <2> HIDE DEF more, Placed
  <2>7. CASE m + 1 \in Keeps(id)
    BY <2>2, <2>5, <2>6, <2>7
  <2>8. CASE m + 1 \notin Keeps(id)
    BY <2>2, <2>4, <2>6, <2>8
  <2> QED BY <2>7, <2>8
<1> HIDE DEF S
<1>3. n \in S
  BY <1>1, <1>2, Induction
<1> QED BY <1>3 DEF S

\* What a longer run retains up to a step is what the shorter run retains.
LEMMA SeenSplits ==
  ASSUME NEW id, id.science \in RunIds, NEW n \in Nat, NEW s \in Nat, n <= s, Numbered(id.science, s)
  PROVE  /\ Splits(Seen(id)[s], n, Len(Seen(id)[n]))
         /\ SubSeq(Seen(id)[s], 1, Len(Seen(id)[n])) = Seen(id)[n]
<1> DEFINE R == Rows(id.science)
           life == Life[id.science]
           seen(m) == Seen(id)[m]
           first == seen(n)
           Good(m) == /\ Len(first) <= Len(seen(m))
                      /\ \A k \in 1..Len(first) : seen(m)[k] = first[k]
                      /\ \A k \in 1..Len(seen(m)) : k > Len(first) => seen(m)[k].step > n
           S == {d \in Nat : n + d <= s => Good(n + d)}
<1>0. ASSUME NEW m \in Nat, m <= s PROVE Numbered(id.science, m)
  BY <1>0 DEF Numbered
<1>1. \A m \in Nat : seen(m) \in Seq(R)
  BY SeenIsOrdered
<1>2. 0 \in S
  <2>1. first \in Seq(R)
    BY <1>1
  <2> QED BY <2>1
<1>3. ASSUME NEW d \in Nat, d \in S PROVE d + 1 \in S
  <2> SUFFICES ASSUME n + (d + 1) <= s PROVE Good(n + (d + 1))
    OBVIOUS
  <2> DEFINE m == n + d
             row == life[m + 1].row
  <2>1. m \in Nat /\ m + 1 <= s /\ m + 1 \in Nat \ {0} /\ n + (d + 1) = m + 1 /\ m + 1 > n /\ m <= s
    OBVIOUS
  <2>2. Good(m)
    BY <1>3, <2>1
  <2>3. seen(m + 1) = IF m + 1 \in Keeps(id) THEN Append(seen(m), row) ELSE seen(m)
    BY <2>1, SeenUnfolds
  <2>4. row.step > n
    <3>1. Numbered(id.science, m + 1)
      BY <1>0, <2>1
    <3>2. row.step = m + 1
      BY <2>1, <3>1, LifeRecordsSteps DEF Numbered
    <3> QED BY <2>1, <3>2
  <2>5. seen(m) \in Seq(R) /\ first \in Seq(R)
    BY <1>1, <2>1
  <2> HIDE DEF seen, row, first, m
  <2>6. CASE seen(m + 1) = Append(seen(m), row)
    <3>1. /\ Len(seen(m + 1)) = Len(seen(m)) + 1 /\ seen(m + 1)[Len(seen(m)) + 1] = row
          /\ \A k \in 1..Len(seen(m)) : seen(m + 1)[k] = seen(m)[k]
          /\ Len(seen(m)) \in Nat /\ Len(first) \in Nat
      BY <2>5, <2>6
    <3>2. \A k \in 1..Len(seen(m + 1)) : k \in 1..Len(seen(m)) \/ k = Len(seen(m)) + 1
      BY <3>1
    <3>3. \A k \in 1..Len(first) : k \in 1..Len(seen(m))
      BY <2>2, <3>1
    <3> QED BY <2>1, <2>2, <2>4, <3>1, <3>2, <3>3
  <2>7. CASE seen(m + 1) = seen(m)
    BY <2>1, <2>2, <2>7
  <2> QED BY <2>3, <2>6, <2>7
<1> HIDE DEF S
<1>4. \A d \in Nat : d \in S
  BY <1>2, <1>3, Induction
<1>5. Good(s)
  <2>1. s - n \in Nat /\ n + (s - n) = s
    OBVIOUS
  <2> QED BY <1>4, <2>1 DEF S
<1>6. seen(s) \in Seq(R) /\ first \in Seq(R)
  BY <1>1
<1>7. \A k \in 1..Len(first) : first[k].step \in 1..n
  BY <1>0, SeenIsOrdered
<1>8. Increasing(seen(s))
  BY SeenIsOrdered
<1> HIDE DEF seen, first
<1>9. Len(first) \in 0..Len(seen(s)) /\ Len(seen(s)) \in Nat
  BY <1>5, <1>6
<1>10. Splits(seen(s), n, Len(first))
  <2> SUFFICES ASSUME NEW k \in 1..Len(seen(s))
               PROVE  seen(s)[k].step <= n <=> k <= Len(first)
    BY <1>9 DEF Splits
  <2>1. CASE k <= Len(first)
    <3>1. k \in 1..Len(first)
      BY <1>9, <2>1
    <3>2. seen(s)[k] = first[k] /\ first[k].step \in 1..n
      BY <1>5, <1>7, <3>1
    <3> QED BY <2>1, <3>2
  <2>2. CASE k > Len(first)
    <3>1. seen(s)[k].step > n /\ seen(s)[k].step \in Nat
      BY <1>5, <1>8, <2>2 DEF Increasing
    <3> QED BY <1>9, <2>2, <3>1
  <2> QED BY <1>9, <2>1, <2>2
<1>11. SubSeq(seen(s), 1, Len(first)) = first
  BY <1>5, <1>6, <1>9
<1> QED BY <1>10, <1>11 DEF seen, first

\* A completed prefix is read as the shorter run retains it, whatever its chunks.
LEMMA ReadsWhatIsSeen ==
  ASSUME NEW id, id.science \in RunIds, NEW n \in Nat, NEW s \in Nat, n <= s, Numbered(id.science, s),
         NEW chunks \in Seq(Seq(Rows(id.science))), FlattenSeq(chunks) = Seen(id)[s]
  PROVE  ReadPrefix(chunks, n) = Seen(id)[n]
<1> DEFINE all == Seen(id)[s]
           first == Seen(id)[n]
<1>1. Increasing(all) /\ all \in Seq(Rows(id.science)) /\ first \in Seq(Rows(id.science))
  BY SeenIsOrdered
<1>2. PICK m : Splits(all, n, m) /\ ReadPrefix(chunks, n) = SubSeq(all, 1, m)
  BY <1>1, ReadPrefixSplits
<1>3. Splits(all, n, Len(first)) /\ SubSeq(all, 1, Len(first)) = first
  BY SeenSplits
<1> HIDE DEF all, first
<1>4. m = Len(first)
  <2>1. m \in 0..Len(all) /\ Len(first) \in 0..Len(all) /\ Len(all) \in Nat
    BY <1>1, <1>2, <1>3 DEF Splits
  <2>2. \A k \in 1..Len(all) : k <= m <=> k <= Len(first)
    BY <1>2, <1>3 DEF Splits
  <2>3. m > 0 => m \in 1..Len(all)
    BY <2>1
  <2>4. Len(first) > 0 => Len(first) \in 1..Len(all)
    BY <2>1
  <2> QED BY <2>1, <2>2, <2>3, <2>4
<1> QED BY <1>2, <1>3, <1>4 DEF first

-----------------------------------------------------------------------------
(* The schedule of rewards *)

\* The rewards of that many steps are there.
Playable(science, step) ==
  science["data"].type = "nonstationary_bandit" => step <= Len(science["data"].params["schedule"])
\* What a study's data is
IsSound(spec) ==
  LET data == spec["data"]
  IN /\ spec["protocol"].type = "online" => data.type \in Bandits
     /\ spec["protocol"].type = "rl" => data.type = "gymnasium"
     /\ data.type = "stationary_bandit" =>
          IF "means" \in DOMAIN data.params THEN Means(data.params["means"])
          ELSE data.params["n_arms"] \in Nat \ {0}
     /\ data.type = "nonstationary_bandit" =>
          LET schedule == data.params["schedule"]
          IN /\ schedule \in Seq(Seq(Int)) /\ schedule # <<>>
             /\ \A i \in DOMAIN schedule : Means(schedule[i]) /\ Len(schedule[i]) = Len(schedule[1])

\* What the assumption says of a study's runs holds of their identities.
LEMMA ScienceIsSound ==
  ASSUME NEW science \in RunIds
  PROVE  IsSound(science)
<1>1. PICK spec \in Specs : science = RunId(spec)
  BY DEF RunIds
<1>2. spec["data"] = science["data"] /\ spec["protocol"] = science["protocol"]
  BY <1>1, RunIdIsTheRun DEF SpecFields
<1>3. IsSound(spec)
  BY DataAssumption DEF IsSound
<1> QED BY <1>2, <1>3 DEF IsSound

\* A schedule of rewards is the instance's.
LEMMA ScheduleIsInstance ==
  ASSUME NEW science, science["data"].type = "nonstationary_bandit"
  PROVE  CreateInstance(science).means = science["data"].params["schedule"]
BY DEF CreateInstance

\* The first step of any run can be played.
LEMMA PlayableAtFirst ==
  ASSUME NEW science \in RunIds
  PROVE  Playable(science, 0)
<1> SUFFICES ASSUME science["data"].type = "nonstationary_bandit"
             PROVE  0 <= Len(science["data"].params["schedule"])
  BY DEF Playable
<1>1. science["data"].params["schedule"] \in Seq(Seq(Int))
  BY ScienceIsSound DEF IsSound
<1> QED BY <1>1

\* A step that the session takes has its rewards.
LEMMA PlayedOn ==
  ASSUME NEW science \in RunIds, NEW step \in Nat, ~Exhausted(science, Life[science][step])
  PROVE  Playable(science, step + 1)
<1> SUFFICES ASSUME science["data"].type = "nonstationary_bandit"
             PROVE  step + 1 <= Len(science["data"].params["schedule"])
  BY DEF Playable
<1> DEFINE run == Life[science][step]
           schedule == science["data"].params["schedule"]
<1>1. schedule \in Seq(Seq(Int))
  BY ScienceIsSound DEF IsSound
<1>2. run.data.step = step
  BY BanditsCountSteps DEF Bandits
<1>3. run.instance.means = schedule
  BY LifeCountsSteps, ScheduleIsInstance
<1>4. ~(run.data.step >= Len(run.instance.means))
  BY DEF Exhausted
<1> QED BY <1>1, <1>2, <1>3, <1>4

\* Of a step that can be played so can the ones before it.
LEMMA PlayedBefore ==
  ASSUME NEW science \in RunIds, NEW i \in Nat, Playable(science, i), NEW j \in Nat, j <= i
  PROVE  Playable(science, j)
<1> SUFFICES ASSUME science["data"].type = "nonstationary_bandit"
             PROVE  j <= Len(science["data"].params["schedule"])
  BY DEF Playable
<1>1. science["data"].params["schedule"] \in Seq(Seq(Int))
  BY ScienceIsSound DEF IsSound
<1>2. i <= Len(science["data"].params["schedule"])
  BY DEF Playable
<1> QED BY <1>1, <1>2

-----------------------------------------------------------------------------
(* The inductive invariant *)

\* A run of fixed length has not run beyond its end, nor one beyond its schedule.
Within(id, step) ==
  step \in Nat /\ (~Extends(id.science) => step <= Ends(id)) /\ Playable(id.science, step)
\* The chunks hold what the variant retains up to a step.
Holds(id, chunks, step) ==
  chunks \in Seq(Seq(Rows(id.science))) /\ FlattenSeq(chunks) = Seen(id)[step]

\* The checkpoint is the state of the life at its step, with the observations up to it.
SavedIsExact(id, saved) ==
  LET step == saved.run.protocol.step
  IN Within(id, step) /\ saved.run = Life[id.science][step] /\ Holds(id, saved.chunks, step)
\* Every completed boundary names the observations up to it, and a run of fixed length has
\* only one.
CompletedIsExact(id, completed) ==
  \A step \in DOMAIN completed :
    /\ Within(id, step) /\ Holds(id, completed[step], step)
    /\ ~Extends(id.science) => step = Ends(id)
\* A variant is one of a science, with the instance that science draws.
VariantIsExact(id, v) ==
  /\ v = [spec |-> v.spec, instance |-> v.instance, saved |-> v.saved, completed |-> v.completed]
  /\ id.science \in RunIds /\ (~Extends(id.science) => Ends(id) \in Nat \ {0})
  /\ v.spec \in Specs /\ RunId(v.spec) = id.science
  /\ v.instance = CreateInstance(id.science)
  /\ v.saved # None => SavedIsExact(id, v.saved)
  /\ CompletedIsExact(id, v.completed)

\* The active configuration was accepted.
ConfigIsAccepted == config \in UNION Studies /\ Accepted(config)
\* The session's run is the life at its step; flushed chunks and buffer are what is retained.
SessionIsExact ==
  LET id == session.id
      step == session.run.protocol.step
  IN /\ session = [spec |-> session.spec, id |-> id, buffer |-> session.buffer,
                   run |-> session.run, chunks |-> session.chunks]
     /\ ConfigIsAccepted /\ session.spec \in Plan(config)
     /\ id = StorageId(config, session.spec) /\ id \in DOMAIN variants
     /\ Within(id, step) /\ session.run = Life[id.science][step]
     /\ session.chunks \in Seq(Seq(Rows(id.science))) /\ session.buffer \in Seq(Rows(id.science))
     /\ FlattenSeq(session.chunks) \o session.buffer = Seen(id)[step]

\* The inductive invariant: continuation alone is not inductive, as what a session continues
\* with is what the checkpoint holds.
EverythingIsExact ==
  /\ study \in Studies
  /\ config # None => ConfigIsAccepted
  /\ todo # {} => ConfigIsAccepted /\ todo \subseteq Plan(config)
  /\ \A id \in DOMAIN variants : VariantIsExact(id, variants[id])
  /\ session # None => SessionIsExact

\* What the active configuration plans is a run of the study.
LEMMA PlannedInSpecs ==
  ASSUME ConfigIsAccepted, NEW spec \in Plan(config)
  PROVE  spec \in Specs
BY SpecsArePlanned DEF ConfigIsAccepted, Specs

\* Within its bounds a run records each step with its number.
LEMMA WithinIsNumbered ==
  ASSUME NEW id, NEW step, Within(id, step)
  PROVE  Numbered(id.science, step)
BY DEF Within, Numbered, Ends, Extends

\* After a flush the chunks hold everything retained.
LEMMA FlushedHolds ==
  ASSUME session # None, SessionIsExact
  PROVE  Holds(session.id, Flushed, session.run.protocol.step)
<1> DEFINE R == Rows(session.id.science)
           chunks == session.chunks
           buffer == session.buffer
           seen == Seen(session.id)[session.run.protocol.step]
<1>1. chunks \in Seq(Seq(R)) /\ buffer \in Seq(R) /\ FlattenSeq(chunks) \o buffer = seen
  BY DEF SessionIsExact
<1>2. FlattenSeq(chunks) \in Seq(R)
  BY <1>1, FlattenIsASequence
<1> SUFFICES Flushed \in Seq(Seq(R)) /\ FlattenSeq(Flushed) = seen
  BY DEF Holds
<1>3. CASE buffer = <<>>
  <2>1. Flushed = chunks
    BY <1>3 DEF Flushed
  <2> HIDE DEF R, chunks, buffer, seen
  <2>2. FlattenSeq(chunks) \o <<>> = FlattenSeq(chunks)
    BY <1>2
  <2> QED BY <1>1, <1>3, <2>1, <2>2
<1>4. CASE buffer # <<>>
  <2>1. Flushed = Append(chunks, buffer)
    BY <1>4 DEF Flushed
  <2> HIDE DEF R, chunks, buffer, seen
  <2>2. FlattenSeq(Append(chunks, buffer)) = FlattenSeq(chunks) \o buffer
    BY <1>1, FlattenAppend
  <2>3. Append(chunks, buffer) \in Seq(Seq(R))
    BY <1>1
  <2> QED BY <1>1, <2>1, <2>2, <2>3
<1> QED BY <1>3, <1>4

\* A checkpoint of an exact session is exact.
LEMMA CommittedIsExact ==
  ASSUME EverythingIsExact, session # None
  PROVE  /\ VariantIsExact(session.id, Committed)
         /\ Committed.completed = variants[session.id].completed
         /\ Committed.saved = [run |-> session.run, chunks |-> Flushed]
<1> DEFINE id == session.id
           v == variants[id]
           new == [run |-> session.run, chunks |-> Flushed]
<1>1. SessionIsExact /\ id \in DOMAIN variants /\ VariantIsExact(id, v)
  BY DEF EverythingIsExact, SessionIsExact
<1>2. Holds(id, new.chunks, new.run.protocol.step) /\ new.run = session.run
  BY <1>1, FlushedHolds
<1>3. SavedIsExact(id, new)
  BY <1>1, <1>2 DEF SavedIsExact, SessionIsExact
<1>4. Committed = [v EXCEPT !.saved = new]
  BY Zenon DEF Committed
<1> HIDE DEF id, v, new
<1>5. v = [spec |-> v.spec, instance |-> v.instance, saved |-> v.saved, completed |-> v.completed]
  BY <1>1 DEF VariantIsExact
<1>6. Committed = [spec |-> v.spec, instance |-> v.instance, saved |-> new, completed |-> v.completed]
  BY <1>4, <1>5
<1>7. VariantIsExact(id, Committed)
  BY <1>1, <1>3, <1>6 DEF VariantIsExact
<1>8. Committed.completed = v.completed /\ Committed.saved = new
  BY <1>6
<1> QED BY <1>7, <1>8 DEF id, v, new

\* No variant, no session.
LEMMA InitIsExact == Init => EverythingIsExact
BY DEF Init, EverythingIsExact

\* A request changes the configuration only when nothing runs.
LEMMA RequestKeeps ==
  ASSUME EverythingIsExact, NEW c \in study, Request(c)
  PROVE  EverythingIsExact'
<1>1. c \in UNION Studies /\ Accepted(c)
  BY DEF EverythingIsExact, Request
<1>2. /\ config' = c /\ todo' = Plan(c) /\ study' = study
      /\ variants' = variants /\ session' = session /\ session = None
  BY DEF Request
<1>3. ConfigIsAccepted' /\ todo' \subseteq Plan(config')
  BY <1>1, <1>2 DEF ConfigIsAccepted
<1> QED BY <1>2, <1>3 DEF EverythingIsExact

\* A skipped run leaves the variants alone.
LEMMA SkipKeeps ==
  ASSUME EverythingIsExact, NEW spec \in todo, Skip(spec)
  PROVE  EverythingIsExact'
<1>1. /\ session = None /\ todo' = todo \ {spec} /\ UNCHANGED <<study, config, variants, session>>
  BY DEF Skip
<1>2. ConfigIsAccepted' <=> ConfigIsAccepted
  BY <1>1 DEF ConfigIsAccepted
<1> QED BY <1>1, <1>2 DEF EverythingIsExact

\* The session ends: the variants decide.
LEMMA LeaveKeeps ==
  ASSUME EverythingIsExact, session # None, session' = None, todo' \subseteq todo,
         study' = study, config' = config,
         \A id \in DOMAIN variants' : VariantIsExact(id, variants'[id])
  PROVE  EverythingIsExact'
<1>1. ConfigIsAccepted' <=> ConfigIsAccepted
  BY DEF ConfigIsAccepted
<1> QED BY <1>1 DEF EverythingIsExact

\* A failed run keeps its last checkpoint.
LEMMA RaiseKeeps ==
  ASSUME EverythingIsExact, Raise
  PROVE  EverythingIsExact'
<1>1. /\ session # None /\ session' = None /\ todo' \subseteq todo
      /\ study' = study /\ config' = config /\ variants' = variants
  BY DEF Raise, Working, Leave
<1>2. \A id \in DOMAIN variants' : VariantIsExact(id, variants'[id])
  BY <1>1 DEF EverythingIsExact
<1> QED BY <1>1, <1>2, LeaveKeeps

\* A killed one too.
LEMMA KillKeeps ==
  ASSUME EverythingIsExact, Kill
  PROVE  EverythingIsExact'
<1>1. /\ session # None /\ session' = None /\ todo' \subseteq todo
      /\ study' = study /\ config' = config /\ variants' = variants
  BY DEF Kill
<1>2. \A id \in DOMAIN variants' : VariantIsExact(id, variants'[id])
  BY <1>1 DEF EverythingIsExact
<1> QED BY <1>1, <1>2, LeaveKeeps

\* A pause leaves a checkpoint of the session.
LEMMA PauseKeeps ==
  ASSUME EverythingIsExact, Pause
  PROVE  EverythingIsExact'
<1>1. /\ session # None /\ session' = None /\ todo' \subseteq todo
      /\ study' = study /\ config' = config /\ variants' = [variants EXCEPT ![session.id] = Committed]
  BY DEF Pause, Working, Leave
<1>2. VariantIsExact(session.id, Committed)
  BY <1>1, CommittedIsExact
<1>3. \A id \in DOMAIN variants : VariantIsExact(id, variants[id])
  BY DEF EverythingIsExact
<1>4. \A id \in DOMAIN variants' : VariantIsExact(id, variants'[id])
  BY <1>1, <1>2, <1>3
<1> QED BY <1>1, <1>4, LeaveKeeps

\* A checkpoint moves the buffer into the chunks.
LEMMA CheckpointKeeps ==
  ASSUME EverythingIsExact, Checkpoint
  PROVE  EverythingIsExact'
<1>1. /\ session # None /\ UNCHANGED <<study, config, todo>>
      /\ variants' = [variants EXCEPT ![session.id] = Committed]
      /\ session' = [session EXCEPT !.chunks = Flushed, !.buffer = <<>>]
  BY DEF Checkpoint, Working
<1>2. VariantIsExact(session.id, Committed) /\ SessionIsExact
  BY <1>1, CommittedIsExact DEF EverythingIsExact
<1>3. \A id \in DOMAIN variants : VariantIsExact(id, variants[id])
  BY DEF EverythingIsExact
<1>4. DOMAIN variants' = DOMAIN variants /\ \A id \in DOMAIN variants' : VariantIsExact(id, variants'[id])
  BY <1>1, <1>2, <1>3
<1>5. ConfigIsAccepted' <=> ConfigIsAccepted
  BY <1>1 DEF ConfigIsAccepted
<1>6. session = [spec |-> session.spec, id |-> session.id, buffer |-> session.buffer,
                 run |-> session.run, chunks |-> session.chunks]
  BY <1>2 DEF SessionIsExact
<1>7. session' = [spec |-> session.spec, id |-> session.id, buffer |-> <<>>,
                  run |-> session.run, chunks |-> Flushed]
  BY <1>1, <1>6
<1>8. Holds(session.id, Flushed, session.run.protocol.step)
  BY <1>1, <1>2, FlushedHolds
<1>9. SessionIsExact'
  <2> DEFINE R == Rows(session.id.science)
             flat == FlattenSeq(Flushed)
  <2>1. Flushed \in Seq(Seq(R)) /\ flat = Seen(session.id)[session.run.protocol.step] /\ <<>> \in Seq(R)
    BY <1>8 DEF Holds
  <2>2. flat \in Seq(R)
    BY <2>1, FlattenIsASequence
  <2>3. flat \o <<>> = flat
    <3> HIDE DEF flat, R
    <3> QED BY <2>2
  <2>4. /\ session'.spec = session.spec /\ session'.id = session.id /\ session'.run = session.run
        /\ session'.chunks = Flushed /\ session'.buffer = <<>>
    BY <1>7
  <2>5. session' = [spec |-> session'.spec, id |-> session'.id, buffer |-> session'.buffer,
                    run |-> session'.run, chunks |-> session'.chunks]
    BY <1>7, <2>4
  <2>6. /\ session'.spec \in Plan(config') /\ session'.id = StorageId(config', session'.spec)
        /\ session'.id \in DOMAIN variants' /\ Within(session'.id, session'.run.protocol.step)
        /\ session'.run = Life[session'.id.science][session'.run.protocol.step]
        /\ ConfigIsAccepted'
    BY <1>1, <1>2, <1>4, <1>5, <2>4 DEF SessionIsExact
  <2>7. /\ session'.chunks \in Seq(Seq(Rows(session'.id.science)))
        /\ session'.buffer \in Seq(Rows(session'.id.science))
        /\ FlattenSeq(session'.chunks) \o session'.buffer = Seen(session'.id)[session'.run.protocol.step]
    BY <2>1, <2>3, <2>4
  <2> QED BY <2>5, <2>6, <2>7 DEF SessionIsExact
<1> QED BY <1>1, <1>4, <1>5, <1>9 DEF EverythingIsExact

\* A session runs a specification of the science it is stored under, for that budget.
LEMMA SessionScience ==
  ASSUME session # None, SessionIsExact
  PROVE  LET spec == session.spec
             id == session.id
             step == session.run.protocol.step
         IN /\ spec \in Specs /\ id.science = RunId(spec) /\ id.science \in RunIds
            /\ ~Extends(id.science) => Ends(id) \in Nat \ {0}
            /\ ~Extends(id.science) => (Finished(spec, session.run) <=> step >= Ends(id))
<1> DEFINE spec == session.spec
           id == session.id
<1>1. spec \in Specs /\ id = StorageId(config, spec)
  BY PlannedInSpecs DEF SessionIsExact
<1>2. /\ id.science = RunId(spec) /\ id.science \in RunIds
      /\ ~Extends(id.science) => Ends(id) = IF spec["protocol"].type \in Steps THEN spec.budget ELSE 1
      /\ ~Extends(id.science) => Ends(id) \in Nat \ {0}
  BY <1>1, StorageIds
<1>3. Finished(spec, session.run) <=>
        session.run.protocol.step >= IF spec["protocol"].type \in Steps THEN spec.budget ELSE 1
  BY DEF Finished
<1> QED BY <1>1, <1>2, <1>3

\* A finished run publishes its boundary: a run of fixed length at its end.
LEMMA FinishKeeps ==
  ASSUME EverythingIsExact, Finish
  PROVE  EverythingIsExact'
<1> DEFINE id == session.id
           step == session.run.protocol.step
           done == With(variants[id].completed, step, Flushed)
           new == [Committed EXCEPT !.completed = With(@, step, Flushed)]
<1>1. /\ session # None /\ session' = None /\ todo' \subseteq todo
      /\ study' = study /\ config' = config /\ variants' = [variants EXCEPT ![id] = new]
      /\ Finished(session.spec, session.run)
  BY DEF Finish, Leave
<1>2. SessionIsExact /\ id \in DOMAIN variants /\ CompletedIsExact(id, variants[id].completed)
  BY <1>1 DEF EverythingIsExact, SessionIsExact, VariantIsExact
<1>3. VariantIsExact(id, Committed) /\ Committed.completed = variants[id].completed
  BY <1>1, CommittedIsExact
<1>4. /\ Within(id, step) /\ Holds(id, Flushed, step)
      /\ ~Extends(id.science) => step = Ends(id)
  <2>1. Within(id, step)
    BY <1>2 DEF SessionIsExact
  <2>2. ~Extends(id.science) => step >= Ends(id) /\ Ends(id) \in Nat \ {0}
    BY <1>1, <1>2, SessionScience
  <2>3. Holds(id, Flushed, step)
    BY <1>1, <1>2, FlushedHolds
  <2> QED BY <2>1, <2>2, <2>3 DEF Within
<1> HIDE DEF id, step
<1>5. CompletedIsExact(id, done)
  <2>1. \A k \in DOMAIN done : (k = step /\ done[k] = Flushed)
                               \/ (k \in DOMAIN variants[id].completed /\ done[k] = variants[id].completed[k])
    BY DEF With
  <2> HIDE DEF done
  <2> QED BY <1>2, <1>4, <2>1 DEF CompletedIsExact
<1>6. VariantIsExact(id, new)
  <2> DEFINE c == Committed
  <2>1. new = [c EXCEPT !.completed = done]
    BY <1>3
  <2>2. c = [spec |-> c.spec, instance |-> c.instance, saved |-> c.saved, completed |-> c.completed]
    BY <1>3 DEF VariantIsExact
  <2> HIDE DEF c, new, done
  <2>3. new = [spec |-> c.spec, instance |-> c.instance, saved |-> c.saved, completed |-> done]
    BY <2>1, <2>2
  <2> QED BY <1>3, <1>5, <2>3 DEF VariantIsExact, c
<1> HIDE DEF new, done
<1>7. \A i \in DOMAIN variants : VariantIsExact(i, variants[i])
  BY DEF EverythingIsExact
<1>8. \A i \in DOMAIN variants' : VariantIsExact(i, variants'[i])
  BY <1>1, <1>6, <1>7
<1> QED BY <1>1, <1>8, LeaveKeeps

\* Appending to the buffer is appending to chunks and buffer together.
LEMMA AppendLater ==
  ASSUME NEW R, NEW p \in Seq(R), NEW q \in Seq(R), NEW x \in R
  PROVE  p \o Append(q, x) = Append(p \o q, x)
<1> DEFINE l == p \o Append(q, x)
           r == Append(p \o q, x)
<1>1. /\ Append(q, x) \in Seq(R) /\ Len(Append(q, x)) = Len(q) + 1
      /\ p \o q \in Seq(R) /\ Len(p \o q) = Len(p) + Len(q)
      /\ Len(p) \in Nat /\ Len(q) \in Nat
  OBVIOUS
<1>2. l \in Seq(R) /\ r \in Seq(R) /\ Len(l) = Len(p) + Len(q) + 1 /\ Len(r) = Len(p) + Len(q) + 1
  BY <1>1
<1>3. ASSUME NEW k \in 1..(Len(p) + Len(q) + 1) PROVE l[k] = r[k]
  <2>1. CASE k \in 1..Len(p)
    BY <1>1, <2>1
  <2>2. CASE k \in (Len(p) + 1)..(Len(p) + Len(q))
    BY <1>1, <2>2
  <2>3. CASE k = Len(p) + Len(q) + 1
    BY <1>1, <2>3
  <2> QED BY <1>1, <2>1, <2>2, <2>3
<1> HIDE DEF l, r
<1>4. l = r
  BY <1>2, <1>3
<1> QED BY <1>4 DEF l, r

\* A step of the session is the next step of the life.
LEMMA AdvanceKeeps ==
  ASSUME EverythingIsExact, Advance
  PROVE  EverythingIsExact'
<1> DEFINE spec == session.spec
           id == session.id
           science == session.id.science
           step == session.run.protocol.step
           run == Step(session.spec, session.run)
           R == Rows(session.id.science)
           buffer == IF Recorded(spec, run) THEN Append(session.buffer, run.row) ELSE session.buffer
<1>1. /\ session # None /\ ~Finished(spec, session.run) /\ UNCHANGED <<study, config, todo, variants>>
      /\ session' = [session EXCEPT !.run = run,
                       !.buffer = IF Recorded(spec, run) THEN Append(@, run.row) ELSE @]
  BY DEF Advance, Working
<1>2. SessionIsExact
  BY <1>1 DEF EverythingIsExact
<1>3. /\ spec \in Specs /\ science = RunId(spec) /\ science \in RunIds
      /\ ~Extends(science) => Ends(id) \in Nat \ {0}
      /\ ~Extends(science) => (Finished(spec, session.run) <=> step >= Ends(id))
  BY <1>1, <1>2, SessionScience
<1>4. /\ Within(id, step) /\ session.run = Life[science][step]
      /\ session.chunks \in Seq(Seq(R)) /\ session.buffer \in Seq(R)
      /\ FlattenSeq(session.chunks) \o session.buffer = Seen(id)[step]
      /\ id = StorageId(config, spec)
  BY <1>2 DEF SessionIsExact
<1>5. step \in Nat /\ step + 1 \in Nat
  BY <1>4 DEF Within
<1>6. run = Life[science][step + 1] /\ run.protocol.step = step + 1
  <2>1. run = Step(science, session.run)
    BY <1>3, BudgetIsNoScience
  <2>2. run = Life[science][step + 1]
    BY <1>3, <1>4, <1>5, <2>1, LifeUnfolds
  <2> QED BY <1>3, <1>5, <2>2, LifeCountsSteps
<1>7. Within(id, step + 1)
  <2>1. ~Exhausted(spec, session.run) /\ spec["data"] = science["data"]
    BY <1>1, <1>3, RunIdIsTheRun DEF Advance, SpecFields
  <2>2. ~Exhausted(science, session.run)
    BY <2>1 DEF Exhausted
  <2>3. Playable(science, step + 1)
    BY <1>3, <1>4, <1>5, <2>2, PlayedOn
  <2> QED BY <1>1, <1>3, <1>4, <1>5, <2>3 DEF Within
<1>8. Recorded(spec, run) <=> step + 1 \in Keeps(id)
  BY <1>3, <1>4, <1>5, <1>6, RecordedIsKept
<1>9. run.row \in R
  BY <1>5, <1>6 DEF Rows
<1>10. buffer \in Seq(R) /\ FlattenSeq(session.chunks) \o buffer = Seen(id)[step + 1]
  <2> DEFINE flat == FlattenSeq(session.chunks)
             old == session.buffer
             row == run.row
  <2>1. flat \in Seq(R)
    BY <1>4, FlattenIsASequence
  <2>2. Seen(id)[step + 1] = IF step + 1 \in Keeps(id) THEN Append(Seen(id)[step], row) ELSE Seen(id)[step]
    BY <1>5, <1>6, SeenUnfolds
  <2>3. row \in R /\ old \in Seq(R) /\ flat \o old = Seen(id)[step]
    BY <1>4, <1>9
  <2>4. buffer = IF step + 1 \in Keeps(id) THEN Append(old, row) ELSE old
    BY <1>8
  <2> HIDE DEF flat, old, row, R, buffer, id, step
  <2>5. flat \o Append(old, row) = Append(flat \o old, row)
    <3>1. \A T, p, q, x : p \in Seq(T) /\ q \in Seq(T) /\ x \in T => p \o Append(q, x) = Append(p \o q, x)
      BY AppendLater
    <3>2. flat \in Seq(R) /\ old \in Seq(R) /\ row \in R
      BY <2>1, <2>3
    <3> QED BY <3>1, <3>2
  <2>6. Append(old, row) \in Seq(R)
    BY <2>3
  <2>7. buffer \in Seq(R) /\ flat \o buffer = Seen(id)[step + 1]
    BY <2>2, <2>3, <2>4, <2>5, <2>6
  <2> QED BY <2>7 DEF flat
<1>11. session' = [spec |-> spec, id |-> id, buffer |-> buffer, run |-> run, chunks |-> session.chunks]
  <2>1. session = [spec |-> spec, id |-> id, buffer |-> session.buffer,
                   run |-> session.run, chunks |-> session.chunks]
    BY <1>2 DEF SessionIsExact
  <2>2. session' = [session EXCEPT !.run = run, !.buffer = buffer]
    BY <1>1, <2>1
  <2> HIDE DEF run, buffer
  <2> QED BY <2>1, <2>2
<1>12. ConfigIsAccepted' <=> ConfigIsAccepted
  BY <1>1 DEF ConfigIsAccepted
<1>13. SessionIsExact'
  <2>1. /\ session'.spec = spec /\ session'.id = id /\ session'.run = run
        /\ session'.chunks = session.chunks /\ session'.buffer = buffer
    BY <1>11
  <2>2. session' = [spec |-> session'.spec, id |-> session'.id, buffer |-> session'.buffer,
                    run |-> session'.run, chunks |-> session'.chunks]
    BY <1>11, <2>1
  <2>3. /\ session'.spec \in Plan(config') /\ session'.id = StorageId(config', session'.spec)
        /\ session'.id \in DOMAIN variants' /\ ConfigIsAccepted'
    BY <1>1, <1>2, <1>12, <2>1 DEF SessionIsExact
  <2>4. /\ Within(session'.id, session'.run.protocol.step)
        /\ session'.run = Life[session'.id.science][session'.run.protocol.step]
    BY <1>6, <1>7, <2>1
  <2>5. /\ session'.chunks \in Seq(Seq(Rows(session'.id.science)))
        /\ session'.buffer \in Seq(Rows(session'.id.science))
        /\ FlattenSeq(session'.chunks) \o session'.buffer = Seen(session'.id)[session'.run.protocol.step]
    BY <1>4, <1>6, <1>10, <2>1
  <2> HIDE DEF buffer, run
  <2> QED BY <2>2, <2>3, <2>4, <2>5 DEF SessionIsExact
<1> QED BY <1>1, <1>12, <1>13 DEF EverythingIsExact

\* A session that opens continues the life: from its beginning, or where the checkpoint left it.
\* Components constructed anew have drawn, and are put back with their generators.
LEMMA OpenKeeps ==
  ASSUME EverythingIsExact, NEW spec \in todo, Open(spec)
  PROVE  EverythingIsExact'
<1> DEFINE id == StorageId(config, spec)
           known == id \in DOMAIN variants
           instance == IF known THEN variants[id].instance ELSE CreateInstance(spec)
           saved == IF known THEN variants[id].saved ELSE None
           completed == IF known THEN variants[id].completed ELSE <<>>
           fresh == Construct(spec, instance)
           new == [spec |-> spec, instance |-> instance, saved |-> saved, completed |-> completed]
           run == IF saved = None THEN Initialize(spec, fresh) ELSE Restored(fresh, saved)
           chunks == IF saved = None THEN <<>> ELSE saved.chunks
           R == Rows(id.science)
<1>1. /\ UNCHANGED <<study, config, todo>>
      /\ variants' = With(variants, id, new)
      /\ session' = [spec |-> spec, id |-> id, buffer |-> <<>>, run |-> run, chunks |-> chunks]
  BY Zenon DEF Open
<1>2. ConfigIsAccepted /\ spec \in Plan(config) /\ spec \in Specs
  BY PlannedInSpecs DEF EverythingIsExact
<1>3. /\ id.science = RunId(spec) /\ id.science \in RunIds
      /\ ~Extends(id.science) => Ends(id) \in Nat \ {0}
  BY <1>2, StorageIds
<1>4. known => VariantIsExact(id, variants[id])
  BY DEF EverythingIsExact
<1>5. instance = CreateInstance(id.science)
  BY <1>2, <1>3, <1>4, BudgetIsNoScience DEF VariantIsExact
<1>6. saved # None => SavedIsExact(id, saved)
  BY <1>4 DEF VariantIsExact
<1>7. CompletedIsExact(id, completed)
  BY <1>4 DEF VariantIsExact, CompletedIsExact
<1>8. VariantIsExact(id, new)
  <2> HIDE DEF id, instance, saved, completed
  <2> QED BY <1>2, <1>3, <1>5, <1>6, <1>7 DEF VariantIsExact
<1>9. fresh = Construct(id.science, CreateInstance(id.science))
  BY <1>2, <1>3, <1>5, BudgetIsNoScience
<1>10. /\ Within(id, run.protocol.step) /\ run = Life[id.science][run.protocol.step]
       /\ Holds(id, chunks, run.protocol.step)
  <2>1. CASE saved = None
    <3>1. run = Life[id.science][0]
      <4>1. run = Initialize(spec, fresh)
        BY <2>1
      <4>2. Initialize(spec, fresh) = Initialize(id.science, fresh)
        BY <1>2, <1>3, BudgetIsNoScience
      <4> HIDE DEF run, fresh, id
      <4> QED BY <1>3, <1>9, <4>1, <4>2, LifeUnfolds
    <3>2. run.protocol.step = 0
      BY <1>3, <3>1, LifeCountsSteps
    <3>3. chunks = <<>> /\ <<>> \in Seq(Seq(R)) /\ FlattenSeq(<<>>) = Seen(id)[0]
      BY <2>1, FlattenNothing, SeenUnfolds
    <3> HIDE DEF run, chunks, id
    <3>4. Within(id, 0)
      BY <1>3, PlayableAtFirst DEF Within
    <3> QED BY <3>1, <3>2, <3>3, <3>4 DEF Holds
  <2>2. CASE saved # None
    <3>1. SavedIsExact(id, saved)
      BY <1>6, <2>2
    <3>2. run = saved.run
      <4> DEFINE step == saved.run.protocol.step
      <4>1. step \in Nat /\ saved.run = Life[id.science][step]
        BY <3>1 DEF SavedIsExact, Within
      <4>2. IsRun(saved.run) /\ saved.run.instance = CreateInstance(id.science)
        BY <1>3, <4>1, LifeCountsSteps
      <4>3. IsRun(fresh) /\ fresh.instance = CreateInstance(id.science)
        BY <1>9, ConstructIsRun
      <4>4. run = Restored(fresh, saved)
        BY <2>2
      <4> HIDE DEF run, fresh, saved, id
      <4> QED BY <4>2, <4>3, <4>4 DEF Restored, IsRun, RunFields
    <3>3. chunks = saved.chunks
      BY <2>2
    <3> HIDE DEF run, chunks, saved, id
    <3> QED BY <3>1, <3>2, <3>3 DEF SavedIsExact
  <2> QED BY <2>1, <2>2
<1>11. DOMAIN variants' = {id} \union DOMAIN variants
       /\ \A i \in DOMAIN variants' : VariantIsExact(i, variants'[i])
  <2> HIDE DEF id, new
  <2>1. /\ DOMAIN variants' = {id} \union DOMAIN variants
        /\ \A i \in DOMAIN variants' : variants'[i] = IF i = id THEN new ELSE variants[i]
    BY <1>1 DEF With
  <2> QED BY <1>8, <2>1 DEF EverythingIsExact
<1>12. ConfigIsAccepted' <=> ConfigIsAccepted
  BY <1>1 DEF ConfigIsAccepted
<1>13. SessionIsExact'
  <2>1. /\ session'.spec = spec /\ session'.id = id /\ session'.run = run
        /\ session'.chunks = chunks /\ session'.buffer = <<>>
    BY <1>1
  <2>2. session' = [spec |-> session'.spec, id |-> session'.id, buffer |-> session'.buffer,
                    run |-> session'.run, chunks |-> session'.chunks]
    <3> HIDE DEF id, run, chunks
    <3> QED BY <1>1, <2>1
  <2>3. session'.id = StorageId(config', session'.spec)
    BY <1>1, <2>1
  <2> HIDE DEF id, run, chunks
  <2>4. session'.spec \in Plan(config') /\ session'.id \in DOMAIN variants' /\ ConfigIsAccepted'
    BY <1>1, <1>2, <1>11, <1>12, <2>1
  <2>5. chunks \in Seq(Seq(R)) /\ <<>> \in Seq(R) /\ FlattenSeq(chunks) \o <<>> = Seen(id)[run.protocol.step]
    <3>1. chunks \in Seq(Seq(R)) /\ FlattenSeq(chunks) = Seen(id)[run.protocol.step]
      BY <1>10 DEF Holds
    <3>2. FlattenSeq(chunks) \in Seq(R)
      BY <3>1, FlattenIsASequence
    <3> HIDE DEF R
    <3> QED BY <3>1, <3>2
  <2>6. /\ session'.chunks \in Seq(Seq(Rows(session'.id.science)))
        /\ session'.buffer \in Seq(Rows(session'.id.science))
        /\ FlattenSeq(session'.chunks) \o session'.buffer = Seen(session'.id)[session'.run.protocol.step]
    BY <2>1, <2>5
  <2>7. /\ Within(session'.id, session'.run.protocol.step)
        /\ session'.run = Life[session'.id.science][session'.run.protocol.step]
    BY <1>10, <2>1
  <2> QED BY <2>2, <2>3, <2>4, <2>6, <2>7 DEF SessionIsExact
<1> QED BY <1>1, <1>2, <1>11, <1>12, <1>13 DEF EverythingIsExact

\* Nothing the invariant is about changes.
LEMMA UnchangedKeeps ==
  ASSUME EverythingIsExact, UNCHANGED <<study, config, todo, variants, session>>
  PROVE  EverythingIsExact'
<1>1. ConfigIsAccepted' <=> ConfigIsAccepted
  BY DEF ConfigIsAccepted
<1>2. session # None => SessionIsExact'
  <2> SUFFICES ASSUME session # None PROVE SessionIsExact'
    OBVIOUS
  <2>1. SessionIsExact
    BY DEF EverythingIsExact
  <2> QED BY <1>1, <2>1 DEF SessionIsExact
<1> QED BY <1>1, <1>2 DEF EverythingIsExact

\* One step, by the actions of the model.
LEMMA NextKeeps ==
  ASSUME EverythingIsExact, [Next]_vars
  PROVE  EverythingIsExact'
<1>1. ASSUME NEW c \in study, Request(c) PROVE EverythingIsExact'
  BY <1>1, RequestKeeps
<1>2. ASSUME NEW spec \in todo, Skip(spec) PROVE EverythingIsExact'
  BY <1>2, SkipKeeps
<1>3. ASSUME NEW spec \in todo, Open(spec) PROVE EverythingIsExact'
  BY <1>3, OpenKeeps
<1>4. CASE Advance
  BY <1>4, AdvanceKeeps
<1>5. CASE Checkpoint
  BY <1>5, CheckpointKeeps
<1>6. CASE Pause
  BY <1>6, PauseKeeps
<1>7. CASE Raise
  BY <1>7, RaiseKeeps
<1>8. CASE Finish
  BY <1>8, FinishKeeps
<1>9. CASE Kill
  BY <1>9, KillKeeps
<1>10. ASSUME NEW metric, NEW unit, Analyze(metric, unit) PROVE EverythingIsExact'
  <2>1. UNCHANGED <<study, config, todo, variants, session>>
    BY <1>10 DEF Analyze
  <2> QED BY <2>1, UnchangedKeeps
<1>11. CASE UNCHANGED vars
  BY <1>11, UnchangedKeeps DEF vars
<1> QED BY <1>1, <1>2, <1>3, <1>4, <1>5, <1>6, <1>7, <1>8, <1>9, <1>10, <1>11 DEF Next

\* Whatever was paused, killed, extended or reused: every checkpoint, session and completed
\* boundary is exact (worker.py: restore_or_initialize, storage/run.py: Recorder).
THEOREM Exactness == Spec => []EverythingIsExact
<1>1. Init => EverythingIsExact
  BY InitIsExact
<1>2. EverythingIsExact /\ [Next]_vars => EverythingIsExact'
  BY NextKeeps
<1> QED BY <1>1, <1>2, PTL DEF Spec

\* The first half of ResultsAreReproducible.
LEMMA ExactContinues == EverythingIsExact => ContinuationIsExact
<1> SUFFICES ASSUME EverythingIsExact PROVE ContinuationIsExact
  OBVIOUS
<1>1. ASSUME session # None
      PROVE  session.run = Life[RunId(session.spec)][session.run.protocol.step]
  <2>1. SessionIsExact
    BY <1>1 DEF EverythingIsExact
  <2>2. session.id.science = RunId(session.spec)
    BY <1>1, <2>1, SessionScience
  <2> QED BY <2>1, <2>2 DEF SessionIsExact
<1>2. ASSUME NEW id \in DOMAIN variants, variants[id].saved # None
      PROVE  variants[id].saved.run = Life[id.science][variants[id].saved.run.protocol.step]
  BY <1>2 DEF EverythingIsExact, VariantIsExact, SavedIsExact
<1> QED BY <1>1, <1>2 DEF ContinuationIsExact

\* The number of steps a run is asked for
Asked(spec) == IF spec.budget = None THEN 1 ELSE spec.budget

\* What an analysis reads of a complete run is what its variant retains up to the budget, and that
\* is what is observed for this request.
LEMMA ResultIsSeen ==
  ASSUME EverythingIsExact, config # None, NEW spec \in Plan(config), Complete(spec)
  PROVE  LET id == StorageId(config, spec)
             n == Asked(spec)
         IN /\ Result(spec) = [rows |-> Seen(id)[n], steps |-> n, instance |-> CreateInstance(id.science)]
            /\ Alone(spec) = Seen(id)[n]
            /\ n \in Nat \ {0} /\ Numbered(id.science, n) /\ Playable(id.science, n)
<1> DEFINE id == StorageId(config, spec)
           variant == variants[id]
           steps == IF spec.budget # None THEN spec.budget ELSE CHOOSE s \in DOMAIN variant.completed : TRUE
           chunks == Covering(spec)
           n == Asked(spec)
           least == CHOOSE s \in Target(spec, variant) : \A t \in Target(spec, variant) : s <= t
<1>1. ConfigIsAccepted /\ spec \in Specs
  BY PlannedInSpecs DEF EverythingIsExact
<1>2. id \in DOMAIN variants /\ Target(spec, variant) # {}
  BY DEF Complete
<1>3. /\ id.science = RunId(spec) /\ id.science \in RunIds
      /\ Extendable(spec) <=> Extends(id.science)
      /\ ~Extends(id.science) => Ends(id) = IF spec["protocol"].type \in Steps THEN spec.budget ELSE 1
  BY <1>1, StorageIds
<1>4. CompletedIsExact(id, variant.completed)
  BY <1>2 DEF EverythingIsExact, VariantIsExact
<1>5. Target(spec, variant) \subseteq Nat /\ Target(spec, variant) \subseteq DOMAIN variant.completed
  BY <1>4 DEF Target, CompletedIsExact, Within
<1>6. least \in Target(spec, variant) /\ least \in Nat /\ least \in DOMAIN variant.completed
  <2>1. \E s \in Target(spec, variant) : \A t \in Target(spec, variant) : s <= t
    BY <1>2, <1>5, LeastExists
  <2> QED BY <1>5, <2>1
<1>7. chunks = variant.completed[least]
  BY DEF Covering
<1>8. Result(spec) = [rows |-> ReadPrefix(chunks, steps), steps |-> steps, instance |-> variant.instance]
  BY DEF Result
<1>a. variant.instance = CreateInstance(id.science)
  BY <1>2 DEF EverythingIsExact, VariantIsExact
<1>9. Alone(spec) = Seen(id)[n]
  BY <1>1, ObservedIsSeen DEF Alone, Asked
<1>10. steps = n /\ n \in Nat \ {0} /\ n <= least
  <2>1. CASE spec.budget = None
    <3>1. spec["protocol"].type \notin Steps
      BY <1>1, <2>1, StudiesAssumption
    <3>2. ~Extends(id.science) /\ Ends(id) = 1
      BY <1>3, <2>1, <3>1 DEF Extendable
    <3>3. \A s \in DOMAIN variant.completed : s = 1
      BY <1>4, <3>2 DEF CompletedIsExact
    <3>4. steps \in DOMAIN variant.completed
      BY <1>6, <2>1
    <3> QED BY <1>6, <2>1, <3>3, <3>4 DEF Asked
  <2>2. CASE spec.budget # None
    <3>1. spec.budget \in Nat \ {0}
      BY <1>1, <2>2, StudiesAssumption
    <3>2. least >= spec.budget
      BY <1>6, <2>2 DEF Target
    <3> HIDE DEF least
    <3> QED BY <1>6, <2>2, <3>1, <3>2 DEF Asked
  <2> QED BY <2>1, <2>2
<1>11. Holds(id, chunks, least) /\ Within(id, least)
  BY <1>4, <1>6, <1>7 DEF CompletedIsExact
<1>12. Numbered(id.science, least)
  BY <1>11, WithinIsNumbered
<1>b. Numbered(id.science, n)
  BY <1>6, <1>10, <1>12 DEF Numbered
<1>c. Playable(id.science, n)
  BY <1>3, <1>6, <1>10, <1>11, PlayedBefore DEF Within
<1> HIDE DEF id, variant, steps, chunks, n, least
<1>13. ReadPrefix(chunks, n) = Seen(id)[n]
  BY <1>3, <1>6, <1>10, <1>11, <1>12, ReadsWhatIsSeen DEF Holds
<1>d. Result(spec) = [rows |-> Seen(id)[n], steps |-> n, instance |-> CreateInstance(id.science)]
  BY <1>8, <1>10, <1>13, <1>a
<1> QED BY <1>9, <1>10, <1>b, <1>c, <1>d, Zenon DEF id, n

\* The completed boundary that serves a budget was recorded by a run that is at least as long,
\* and reading it up to the budget gives what the shorter run retains.
LEMMA ExactReproduces == EverythingIsExact => ResultsAreReproducible
<1> SUFFICES ASSUME EverythingIsExact, config # None, NEW spec \in Plan(config), Complete(spec)
             PROVE  Result(spec).rows = Alone(spec)
  BY ExactContinues DEF ResultsAreReproducible
<1> DEFINE rows == Seen(StorageId(config, spec))[Asked(spec)]
<1>1. /\ Result(spec) = [rows |-> rows, steps |-> Asked(spec),
                         instance |-> CreateInstance(StorageId(config, spec).science)]
      /\ Alone(spec) = rows
  BY ResultIsSeen
<1> HIDE DEF rows
<1> QED BY <1>1

\* Results are reproducible: a run continued after any interruptions is the uninterrupted one,
\* and what the analysis reads for a budget is what an execution for that budget records, also
\* where a longer run serves it (worker.py: advance; storage/run.py: read_result_prefix).
THEOREM Reproducibility == Spec => []ResultsAreReproducible
<1>1. EverythingIsExact => ResultsAreReproducible
  BY ExactReproduces
<1> QED BY <1>1, Exactness, PTL

-----------------------------------------------------------------------------
(* Sums over finite sets *)

\* Induction over the subsets of a finite set, for a set of them.
LEMMA SubsetInduction ==
  ASSUME NEW S, IsFiniteSet(S), NEW C, {} \in C,
         \A T \in SUBSET S : T # {} /\ (\A x \in T : T \ {x} \in C) => T \in C
  PROVE  \A T \in SUBSET S : T \in C
<1> DEFINE N == {n \in Nat : \A T \in SUBSET S : Cardinality(T) = n => T \in C}
<1>1. \A T \in SUBSET S : IsFiniteSet(T) /\ Cardinality(T) \in Nat
  BY FS_Subset, FS_CardinalityType
<1>2. 0 \in N
  BY <1>1, FS_EmptySet
<1>3. ASSUME NEW n \in Nat, n \in N PROVE n + 1 \in N
  <2> SUFFICES ASSUME NEW T \in SUBSET S, Cardinality(T) = n + 1 PROVE T \in C
    OBVIOUS
  <2>1. T # {}
    BY FS_EmptySet
  <2>2. \A x \in T : Cardinality(T \ {x}) = n
    BY <1>1, FS_RemoveElement
  <2>3. \A x \in T : T \ {x} \in C
    BY <1>3, <2>2
  <2> QED BY <2>1, <2>3
<1> HIDE DEF N
<1>4. \A n \in Nat : n \in N
  BY <1>2, <1>3, Induction
<1> QED BY <1>1, <1>4 DEF N

AnyOf(s) == CHOOSE x \in s : TRUE
\* The partial sums of f over some of the subsets of its domain
Summing(f, sets, g) ==
  g = [s \in sets |-> IF s = {} THEN 0 ELSE f[AnyOf(s)] + g[s \ {AnyOf(s)}]]
UpTo(D, n) == {s \in SUBSET D : Cardinality(s) <= n}

\* Sum folds its function over its domain, one chosen element after the other.
LEMMA SumIsChosen ==
  ASSUME NEW f
  PROVE  Sum(f) = (CHOOSE g : Summing(f, SUBSET DOMAIN f, g))[DOMAIN f]
BY DEF Sum, FoldFunction, FoldFunctionOnSet, MapThenFoldSet, Summing, AnyOf

\* Any finite set of terms can be summed.
LEMMA SummingExists ==
  ASSUME NEW D, IsFiniteSet(D), NEW f
  PROVE  \E g : Summing(f, SUBSET D, g)
<1> DEFINE N == {n \in Nat : \E g : Summing(f, UpTo(D, n), g)}
<1>1. \A s \in SUBSET D : IsFiniteSet(s) /\ Cardinality(s) \in Nat
  BY FS_Subset, FS_CardinalityType
<1>2. 0 \in N
  <2> DEFINE g == [s \in UpTo(D, 0) |-> 0]
  <2>1. \A s \in UpTo(D, 0) : s = {}
    BY <1>1, FS_EmptySet DEF UpTo
  <2>2. Summing(f, UpTo(D, 0), g)
    BY <2>1 DEF Summing
  <2> QED BY <2>2
<1>3. ASSUME NEW n \in Nat, n \in N PROVE n + 1 \in N
  <2>1. PICK g : Summing(f, UpTo(D, n), g)
    BY <1>3
  <2> DEFINE h == [s \in UpTo(D, n + 1) |-> IF s = {} THEN 0 ELSE f[AnyOf(s)] + g[s \ {AnyOf(s)}]]
  <2>2. \A s \in UpTo(D, n + 1) : s # {} => s \ {AnyOf(s)} \in UpTo(D, n)
    <3> TAKE s \in UpTo(D, n + 1)
    <3> HAVE s # {}
    <3>1. AnyOf(s) \in s
      BY DEF AnyOf
    <3>2. IsFiniteSet(s) /\ Cardinality(s) \in Nat /\ Cardinality(s) <= n + 1 /\ s \in SUBSET D
      BY <1>1 DEF UpTo
    <3>3. Cardinality(s \ {AnyOf(s)}) = Cardinality(s) - 1
      BY <3>1, <3>2, FS_RemoveElement
    <3> QED BY <3>2, <3>3 DEF UpTo
  <2>3. \A s \in UpTo(D, n) : h[s] = g[s]
    <3>1. \A s \in UpTo(D, n) : s \in UpTo(D, n + 1)
      BY <1>1 DEF UpTo
    <3>2. \A s \in UpTo(D, n) : g[s] = IF s = {} THEN 0 ELSE f[AnyOf(s)] + g[s \ {AnyOf(s)}]
      BY <2>1 DEF Summing
    <3> QED BY <3>1, <3>2
  <2>4. \A s \in UpTo(D, n + 1) : (IF s = {} THEN 0 ELSE f[AnyOf(s)] + g[s \ {AnyOf(s)}])
                                = (IF s = {} THEN 0 ELSE f[AnyOf(s)] + h[s \ {AnyOf(s)}])
    BY <2>2, <2>3
  <2>5. Summing(f, UpTo(D, n + 1), h)
    <3> DEFINE k == [s \in UpTo(D, n + 1) |-> IF s = {} THEN 0 ELSE f[AnyOf(s)] + h[s \ {AnyOf(s)}]]
    <3>1. h = k
      BY <2>4
    <3> QED BY <3>1 DEF Summing
  <2> QED BY <2>5
<1> HIDE DEF N
<1>4. Cardinality(D) \in Nat
  BY FS_CardinalityType
<1>5. Cardinality(D) \in N
  BY <1>2, <1>3, <1>4, Induction
<1>6. UpTo(D, Cardinality(D)) = SUBSET D
  BY FS_Subset DEF UpTo
<1> QED BY <1>5, <1>6 DEF N

\* The equations of the sums over the subsets of a domain.
Sums(f, g) ==
  /\ g[{}] = 0
  /\ \A s \in SUBSET DOMAIN f : s # {} => g[s] = f[AnyOf(s)] + g[s \ {AnyOf(s)}]

\* The equation of a sum: one term, and the others.
LEMMA SumUnfolds ==
  ASSUME NEW f, IsFiniteSet(DOMAIN f)
  PROVE  \E g : Sums(f, g) /\ Sum(f) = g[DOMAIN f]
<1> DEFINE g == CHOOSE h : Summing(f, SUBSET DOMAIN f, h)
<1>1. Summing(f, SUBSET DOMAIN f, g)
  BY SummingExists
<1> HIDE DEF g
<1>2. Sums(f, g)
  <2>1. \A s \in SUBSET DOMAIN f : g[s] = IF s = {} THEN 0 ELSE f[AnyOf(s)] + g[s \ {AnyOf(s)}]
    BY <1>1 DEF Summing
  <2> QED BY <2>1 DEF Sums
<1>3. Sum(f) = g[DOMAIN f]
  BY SumIsChosen DEF g
<1> QED BY <1>2, <1>3

\* Integers sum up to one.
LEMMA SumsAreIntegers ==
  ASSUME NEW D, IsFiniteSet(D), NEW f \in [D -> Int], NEW g, Sums(f, g)
  PROVE  \A s \in SUBSET D : g[s] \in Int
<1> DEFINE C == {s \in SUBSET D : g[s] \in Int}
<1>1. {} \in C
  BY DEF Sums
<1>2. ASSUME NEW T \in SUBSET D, T # {}, \A x \in T : T \ {x} \in C
      PROVE  T \in C
  <2>1. AnyOf(T) \in T
    BY <1>2 DEF AnyOf
  <2>2. g[T] = f[AnyOf(T)] + g[T \ {AnyOf(T)}]
    BY <1>2 DEF Sums
  <2>3. g[T \ {AnyOf(T)}] \in Int /\ f[AnyOf(T)] \in Int
    BY <1>2, <2>1
  <2> QED BY <2>2, <2>3
<1> HIDE DEF C
<1>3. \A T \in SUBSET D : T \in C
  BY <1>1, <1>2, SubsetInduction
<1> QED BY <1>3 DEF C

\* A term may be taken out of a sum first, whichever it is.
LEMMA SumsRemove ==
  ASSUME NEW D, IsFiniteSet(D), NEW f \in [D -> Int], NEW g, Sums(f, g)
  PROVE  \A s \in SUBSET D : \A x \in s : g[s] = f[x] + g[s \ {x}]
<1> DEFINE C == {s \in SUBSET D : \A x \in s : g[s] = f[x] + g[s \ {x}]}
<1>1. {} \in C
  OBVIOUS
<1>2. ASSUME NEW T \in SUBSET D, T # {}, \A x \in T : T \ {x} \in C
      PROVE  T \in C
  <2> DEFINE y == AnyOf(T)
  <2>1. y \in T
    BY <1>2 DEF AnyOf
  <2>2. g[T] = f[y] + g[T \ {y}]
    BY <1>2 DEF Sums
  <2> HIDE DEF y
  <2>3. ASSUME NEW x \in T, x # y PROVE g[T] = f[x] + g[T \ {x}]
    <3>1. g[T \ {y}] = f[x] + g[(T \ {y}) \ {x}]
      BY <1>2, <2>1, <2>3
    <3>2. g[T \ {x}] = f[y] + g[(T \ {x}) \ {y}]
      BY <1>2, <2>1, <2>3
    <3>3. (T \ {x}) \ {y} = (T \ {y}) \ {x}
      OBVIOUS
    <3>4. g[(T \ {y}) \ {x}] \in Int
      BY SumsAreIntegers
    <3>5. f[x] \in Int /\ f[y] \in Int
      BY <2>1
    <3>6. \A a, b, r \in Int : b + (a + r) = a + (b + r)
      OBVIOUS
    <3> HIDE DEF C
    <3>7. g[T] = f[y] + (f[x] + g[(T \ {y}) \ {x}])
      BY <2>2, <3>1, Zenon
    <3>8. f[x] + g[T \ {x}] = f[x] + (f[y] + g[(T \ {y}) \ {x}])
      BY <3>2, <3>3, Zenon
    <3> QED BY <3>4, <3>5, <3>6, <3>7, <3>8
  <2> QED BY <2>1, <2>2, <2>3
<1> HIDE DEF C
<1>3. \A T \in SUBSET D : T \in C
  BY <1>1, <1>2, SubsetInduction
<1> QED BY <1>3 DEF C

\* A smaller domain does not change the sums over its subsets.
LEMMA SumsAgree ==
  ASSUME NEW D, IsFiniteSet(D), NEW f \in [D -> Int], NEW E \in SUBSET D, NEW g, Sums(f, g),
         NEW h, h = [y \in E |-> f[y]], NEW k, Sums(h, k)
  PROVE  k[E] = g[E]
<1> DEFINE C == {s \in SUBSET E : k[s] = g[s]}
<1>1. {} \in C
  BY DEF Sums
<1>2. ASSUME NEW T \in SUBSET E, T # {}, \A x \in T : T \ {x} \in C
      PROVE  T \in C
  <2>1. AnyOf(T) \in T
    BY <1>2 DEF AnyOf
  <2>2. g[T] = f[AnyOf(T)] + g[T \ {AnyOf(T)}]
    BY <1>2 DEF Sums
  <2>3. k[T] = h[AnyOf(T)] + k[T \ {AnyOf(T)}]
    BY <1>2 DEF Sums
  <2>4. h[AnyOf(T)] = f[AnyOf(T)] /\ k[T \ {AnyOf(T)}] = g[T \ {AnyOf(T)}]
    BY <1>2, <2>1
  <2> QED BY <2>2, <2>3, <2>4
<1> HIDE DEF C
<1>3. IsFiniteSet(E)
  BY FS_Subset
<1>4. E \in C
  BY <1>1, <1>2, <1>3, SubsetInduction
<1> QED BY <1>4 DEF C

\* Without terms the sum is zero.
LEMMA SumOfNothing ==
  ASSUME NEW f, DOMAIN f = {}
  PROVE  Sum(f) = 0
BY SumUnfolds, FS_EmptySet DEF Sums

\* A sum is any of its terms and the sum of the others.
LEMMA SumRemoves ==
  ASSUME NEW D, IsFiniteSet(D), NEW f \in [D -> Int]
  PROVE  /\ Sum(f) \in Int
         /\ \A x \in D : Sum(f) = f[x] + Sum([y \in D \ {x} |-> f[y]])
<1>1. PICK g : Sums(f, g) /\ Sum(f) = g[D]
  BY SumUnfolds
<1>2. Sum(f) \in Int
  BY <1>1, SumsAreIntegers
<1>3. ASSUME NEW x \in D PROVE Sum(f) = f[x] + Sum([y \in D \ {x} |-> f[y]])
  <2> DEFINE E == D \ {x}
             h == [y \in E |-> f[y]]
  <2>1. IsFiniteSet(E) /\ DOMAIN h = E /\ E \in SUBSET D
    BY FS_Subset
  <2>2. PICK k : Sums(h, k) /\ Sum(h) = k[E]
    BY <2>1, SumUnfolds
  <2>3. k[E] = g[E]
    <3>1. h = [y \in E |-> f[y]]
      OBVIOUS
    <3> HIDE DEF E, h
    <3> QED BY <1>1, <2>1, <2>2, <3>1, SumsAgree
  <2>4. g[D] = f[x] + g[D \ {x}]
    BY <1>1, SumsRemove
  <2> QED BY <1>1, <2>2, <2>3, <2>4
<1> QED BY <1>2, <1>3

\* The sum of one more number of a sequence.
LEMMA SumExtends ==
  ASSUME NEW k \in Nat, NEW f \in [1..(k + 1) -> Int]
  PROVE  Sum(f) = Sum([j \in 1..k |-> f[j]]) + f[k + 1]
<1> DEFINE D == 1..(k + 1)
<1>a. k + 1 \in Int /\ 1 \in Int
  OBVIOUS
<1>b. IsFiniteSet(D)
  BY <1>a, FS_Interval
<1>1. IsFiniteSet(D) /\ D \ {k + 1} = 1..k /\ k + 1 \in D
  BY <1>b
<1>c. f \in [D -> Int]
  OBVIOUS
<1> HIDE DEF D
<1>2. Sum(f) = f[k + 1] + Sum([y \in D \ {k + 1} |-> f[y]])
  <2>1. \A x \in D : Sum(f) = f[x] + Sum([y \in D \ {x} |-> f[y]])
    BY <1>1, <1>c, SumRemoves
  <2> QED BY <1>1, <2>1
<1>3. f[k + 1] \in Int /\ Sum([j \in 1..k |-> f[j]]) \in Int
  <2> USE DEF D
  <2>a. 1 \in Int /\ k \in Int
    OBVIOUS
  <2>1. IsFiniteSet(1..k) /\ [j \in 1..k |-> f[j]] \in [1..k -> Int]
    BY <2>a, FS_Interval
  <2> QED BY <2>1, SumRemoves
<1>4. Sum(f) = f[k + 1] + Sum([j \in 1..k |-> f[j]])
  BY <1>1, <1>2
<1> QED BY <1>3, <1>4

\* A prefix of a sequence of numbers
FirstOf(f, k) == [j \in 1..k |-> f[j]]
\* The sums of the first terms, as recursive equations.
LEMMA SumHeads ==
  ASSUME NEW n \in Nat, NEW f \in [1..n -> Int]
  PROVE  /\ Sum(FirstOf(f, 0)) = 0
         /\ \A k \in 0..n : Sum(FirstOf(f, k)) \in Int
         /\ \A k \in 0..(n - 1) : Sum(FirstOf(f, k + 1)) = Sum(FirstOf(f, k)) + f[k + 1]
         /\ FirstOf(f, n) = f
<1>1. Sum(FirstOf(f, 0)) = 0
  <2>1. DOMAIN FirstOf(f, 0) = {}
    BY DEF FirstOf
  <2> QED BY <2>1, SumOfNothing
<1>2. ASSUME NEW k \in 0..n PROVE Sum(FirstOf(f, k)) \in Int
  <2>a. 1 \in Int /\ k \in Int
    OBVIOUS
  <2>1. IsFiniteSet(1..k) /\ FirstOf(f, k) \in [1..k -> Int]
    BY <2>a, FS_Interval DEF FirstOf
  <2> QED BY <2>1, SumRemoves
<1>3. ASSUME NEW k \in 0..(n - 1) PROVE Sum(FirstOf(f, k + 1)) = Sum(FirstOf(f, k)) + f[k + 1]
  <2> DEFINE h == FirstOf(f, k + 1)
  <2>1. k \in Nat /\ h \in [1..(k + 1) -> Int] /\ h[k + 1] = f[k + 1]
    BY DEF FirstOf
  <2>2. [j \in 1..k |-> h[j]] = FirstOf(f, k)
    BY <2>1 DEF FirstOf
  <2> HIDE DEF h
  <2>3. Sum(h) = Sum([j \in 1..k |-> h[j]]) + h[k + 1]
    BY <2>1, SumExtends
  <2> QED BY <2>1, <2>2, <2>3 DEF h
<1>4. FirstOf(f, n) = f
  BY DEF FirstOf
<1> QED BY <1>1, <1>2, <1>3, <1>4

\* Sums of two sequences of numbers are compared, or related, number by number.
LEMMA SumIsMonotone ==
  ASSUME NEW n \in Nat, NEW f \in [1..n -> Int], NEW g \in [1..n -> Int],
         \A j \in 1..n : f[j] <= g[j]
  PROVE  Sum(f) <= Sum(g)
<1> DEFINE S == {k \in Nat : k <= n => Sum(FirstOf(f, k)) <= Sum(FirstOf(g, k))}
<1>1. 0 \in S
  BY SumHeads
<1>2. ASSUME NEW k \in Nat, k \in S PROVE k + 1 \in S
  <2> SUFFICES ASSUME k + 1 <= n PROVE Sum(FirstOf(f, k + 1)) <= Sum(FirstOf(g, k + 1))
    OBVIOUS
  <2>1. k \in 0..n /\ k \in 0..(n - 1) /\ k + 1 \in 1..n
    OBVIOUS
  <2>2. /\ Sum(FirstOf(f, k)) \in Int /\ Sum(FirstOf(g, k)) \in Int
        /\ Sum(FirstOf(f, k + 1)) = Sum(FirstOf(f, k)) + f[k + 1]
        /\ Sum(FirstOf(g, k + 1)) = Sum(FirstOf(g, k)) + g[k + 1]
    BY <2>1, SumHeads
  <2>3. Sum(FirstOf(f, k)) <= Sum(FirstOf(g, k)) /\ f[k + 1] <= g[k + 1] /\ f[k + 1] \in Int /\ g[k + 1] \in Int
    BY <1>2, <2>1
  <2> QED BY <2>2, <2>3
<1> HIDE DEF S
<1>3. n \in S
  BY <1>1, <1>2, Induction
<1> QED BY <1>3, SumHeads DEF S

\* A factor of all terms is one of the sum.
LEMMA SumScales ==
  ASSUME NEW n \in Nat, NEW f \in [1..n -> Int], NEW c \in Int
  PROVE  Sum([j \in 1..n |-> c * f[j]]) = c * Sum(f)
<1> DEFINE g == [j \in 1..n |-> c * f[j]]
           S == {k \in Nat : k <= n => Sum(FirstOf(g, k)) = c * Sum(FirstOf(f, k))}
<1>0. g \in [1..n -> Int]
  OBVIOUS
<1>1. 0 \in S
  BY <1>0, SumHeads
<1>2. ASSUME NEW k \in Nat, k \in S PROVE k + 1 \in S
  <2> SUFFICES ASSUME k + 1 <= n PROVE Sum(FirstOf(g, k + 1)) = c * Sum(FirstOf(f, k + 1))
    OBVIOUS
  <2>1. k \in 0..n /\ k \in 0..(n - 1) /\ k + 1 \in 1..n
    OBVIOUS
  <2>2. g[k + 1] = c * f[k + 1] /\ f[k + 1] \in Int
    BY <2>1
  <2> HIDE DEF g
  <2>3. /\ Sum(FirstOf(f, k)) \in Int
        /\ Sum(FirstOf(f, k + 1)) = Sum(FirstOf(f, k)) + f[k + 1]
        /\ Sum(FirstOf(g, k + 1)) = Sum(FirstOf(g, k)) + g[k + 1]
    BY <1>0, <2>1, SumHeads
  <2>4. Sum(FirstOf(g, k)) = c * Sum(FirstOf(f, k))
    BY <1>2, <2>1
  <2>5. \A a, b \in Int : c * (a + b) = c * a + c * b
    OBVIOUS
  <2> QED BY <2>2, <2>3, <2>4, <2>5
<1> HIDE DEF S
<1>3. n \in S
  BY <1>1, <1>2, Induction
<1> HIDE DEF g
<1>4. FirstOf(f, n) = f /\ FirstOf(g, n) = g
  BY <1>0, SumHeads
<1>5. Sum(g) = c * Sum(f)
  BY <1>3, <1>4 DEF S
<1> QED BY <1>5 DEF g

\* The squared deviations from m add up to what the squares and the numbers add up to.
LEMMA SumOfSquares ==
  ASSUME NEW n \in Nat, NEW f \in [1..n -> Int], NEW m \in Int
  PROVE  Sum([j \in 1..n |-> (f[j] - m) * (f[j] - m)])
           = Sum([j \in 1..n |-> f[j] * f[j]]) - 2 * (m * Sum(f)) + n * (m * m)
<1> DEFINE g == [j \in 1..n |-> (f[j] - m) * (f[j] - m)]
           q == [j \in 1..n |-> f[j] * f[j]]
           Right(k) == Sum(FirstOf(g, k)) = Sum(FirstOf(q, k)) - 2 * (m * Sum(FirstOf(f, k))) + k * (m * m)
           S == {k \in Nat : k <= n => Right(k)}
<1>0. g \in [1..n -> Int] /\ q \in [1..n -> Int]
  OBVIOUS
<1>1. 0 \in S
  <2> HIDE DEF g, q
  <2>1. Sum(FirstOf(f, 0)) = 0 /\ Sum(FirstOf(g, 0)) = 0 /\ Sum(FirstOf(q, 0)) = 0
    BY <1>0, SumHeads
  <2>2. m * 0 = 0 /\ 0 * (m * m) = 0
    OBVIOUS
  <2> QED BY <2>1, <2>2
<1>2. ASSUME NEW k \in Nat, k \in S PROVE k + 1 \in S
  <2> SUFFICES ASSUME k + 1 <= n PROVE Right(k + 1)
    OBVIOUS
  <2> DEFINE w == f[k + 1]
             s == Sum(FirstOf(f, k))
  <2>1. k \in 0..n /\ k \in 0..(n - 1) /\ k + 1 \in 1..n
    OBVIOUS
  <2>2. g[k + 1] = (w - m) * (w - m) /\ q[k + 1] = w * w /\ w \in Int
    BY <2>1
  <2>5. Right(k)
    BY <1>2, <2>1
  <2> HIDE DEF g, q
  <2>3. /\ s \in Int /\ Sum(FirstOf(q, k)) \in Int
        /\ Sum(FirstOf(f, k + 1)) = s + w
        /\ Sum(FirstOf(g, k + 1)) = Sum(FirstOf(g, k)) + g[k + 1]
        /\ Sum(FirstOf(q, k + 1)) = Sum(FirstOf(q, k)) + q[k + 1]
    BY <1>0, <2>1, SumHeads
  <2>6. (w - m) * (w - m) = w * w - 2 * (m * w) + m * m
    BY <2>2
  <2>7. m * (s + w) = m * s + m * w /\ (k + 1) * (m * m) = k * (m * m) + m * m
    BY <2>2, <2>3
  <2> DEFINE a == w * w
             b == m * w
             c == m * m
             d == m * s
             e == k * (m * m)
             u == Sum(FirstOf(q, k))
  <2>8. a \in Int /\ b \in Int /\ c \in Int /\ d \in Int /\ e \in Int /\ u \in Int
    BY <2>2, <2>3
  <2>9. Sum(FirstOf(g, k + 1)) = (u - 2 * d + e) + (a - 2 * b + c)
    BY <2>2, <2>3, <2>5, <2>6
  <2>10. Sum(FirstOf(q, k + 1)) = u + a /\ m * Sum(FirstOf(f, k + 1)) = d + b /\ (k + 1) * (m * m) = e + c
    BY <2>2, <2>3, <2>7
  <2> HIDE DEF a, b, c, d, e, u, w, s
  <2>11. Sum(FirstOf(g, k + 1)) = (u + a) - 2 * (d + b) + (e + c)
    BY <2>8, <2>9
  <2> QED BY <2>10, <2>11
<1> HIDE DEF S
<1>3. n \in S
  BY <1>1, <1>2, Induction
<1> HIDE DEF g, q
<1>4. Right(n) /\ FirstOf(f, n) = f /\ FirstOf(g, n) = g /\ FirstOf(q, n) = q
  BY <1>0, <1>3, SumHeads DEF S
<1> QED BY <1>4 DEF g, q

\* The numbers of a set add up along any order of its elements.
LEMMA SumAlong ==
  ASSUME NEW S, IsFiniteSet(S), NEW f \in [S -> Int], NEW order \in SetToSeqs(S)
  PROVE  Sum(f) = Sum([j \in 1..Cardinality(S) |-> f[order[j]]])
<1> DEFINE n == Cardinality(S)
           Image(k) == {order[j] : j \in 1..k}
           h == [j \in 1..n |-> f[order[j]]]
           N == {k \in Nat : k <= n => Sum([s \in Image(k) |-> f[s]]) = Sum(FirstOf(h, k))}
<1>0. n \in Nat /\ order \in [1..n -> S] /\ \A i, j \in 1..n : i # j => order[i] # order[j]
  BY FS_CardinalityType DEF SetToSeqs
<1>a. h \in [1..n -> Int]
  BY <1>0
<1>1. 0 \in N
  <2> DEFINE none == [s \in Image(0) |-> f[s]]
  <2>a. DOMAIN none = {}
    OBVIOUS
  <2>1. Sum(none) = 0
    BY <2>a, SumOfNothing, Zenon
  <2> HIDE DEF h
  <2>2. Sum(FirstOf(h, 0)) = 0
    BY <1>0, <1>a, SumHeads
  <2> QED BY <2>1, <2>2
<1>2. ASSUME NEW k \in Nat, k \in N PROVE k + 1 \in N
  <2> SUFFICES ASSUME k + 1 <= n PROVE Sum([s \in Image(k + 1) |-> f[s]]) = Sum(FirstOf(h, k + 1))
    OBVIOUS
  <2> DEFINE T == Image(k + 1)
             g == [s \in T |-> f[s]]
             x == order[k + 1]
  <2>1. k \in 0..n /\ k \in 0..(n - 1) /\ k + 1 \in 1..n /\ 1..(k + 1) \subseteq 1..n
    BY <1>0
  <2>2. T \in SUBSET S /\ x \in T
    BY <1>0, <2>1
  <2>3. IsFiniteSet(T) /\ g \in [T -> Int]
    BY <2>2, FS_Subset
  <2>4. T \ {x} = Image(k)
    <3>1. \A j \in 1..k : j \in 1..(k + 1) /\ order[j] # x
      BY <1>0, <2>1
    <3>2. \A j \in 1..(k + 1) : j = k + 1 \/ j \in 1..k
      OBVIOUS
    <3> QED BY <3>1, <3>2
  <2>5. g[x] = f[x] /\ [y \in T \ {x} |-> g[y]] = [y \in Image(k) |-> f[y]]
    BY <2>2, <2>4
  <2>6. h[k + 1] = f[x]
    BY <2>1
  <2>7. Sum([s \in Image(k) |-> f[s]]) = Sum(FirstOf(h, k))
    BY <1>2, <2>1
  <2> HIDE DEF T, g, x, h, Image
  <2>8. Sum(g) = g[x] + Sum([y \in T \ {x} |-> g[y]])
    BY <2>2, <2>3, SumRemoves
  <2>9. Sum(FirstOf(h, k + 1)) = Sum(FirstOf(h, k)) + h[k + 1] /\ Sum(FirstOf(h, k)) \in Int
    BY <1>0, <1>a, <2>1, SumHeads
  <2>10. h[k + 1] \in Int
    BY <1>a, <2>1
  <2>11. Sum(g) = Sum(FirstOf(h, k + 1))
    BY <2>5, <2>6, <2>7, <2>8, <2>9, <2>10
  <2> QED BY <2>11 DEF g, T
<1>3. Image(n) = S
  <2>1. order \in Injection(1..n, S)
    BY <1>0 DEF Injection, IsInjective
  <2>2. IsFiniteSet(1..n) /\ Cardinality(1..n) = n
    BY <1>0, FS_Interval
  <2>3. order \in Surjection(1..n, S)
    BY <2>1, <2>2, FS_Injection
  <2> QED BY <1>0, <2>3 DEF Surjection
<1> HIDE DEF N
<1>4. n \in N
  BY <1>0, <1>1, <1>2, Induction
<1>5. Sum([s \in Image(n) |-> f[s]]) = Sum(FirstOf(h, n))
  BY <1>0, <1>4 DEF N
<1>6. [s \in Image(n) |-> f[s]] = f
  BY <1>3
<1> HIDE DEF h, Image
<1>7. FirstOf(h, n) = h
  BY <1>0, <1>a, SumHeads
<1>8. Sum(f) = Sum(h)
  BY <1>5, <1>6, <1>7
<1> QED BY <1>8 DEF h

-----------------------------------------------------------------------------
(* The greatest of finitely many numbers *)

\* A finite set of integers that is not empty has a greatest one.
LEMMA GreatestExists ==
  ASSUME NEW S, IsFiniteSet(S), S \subseteq Int, S # {}
  PROVE  \E x \in S : \A y \in S : x >= y
<1> DEFINE Top(T) == \E x \in T : \A y \in T : x >= y
           C == {T \in SUBSET S : T # {} => Top(T)}
<1>1. {} \in C
  OBVIOUS
<1>2. ASSUME NEW T \in SUBSET S, T # {}, \A z \in T : T \ {z} \in C
      PROVE  T \in C
  <2>1. PICK z \in T : TRUE
    BY <1>2
  <2>2. CASE T \ {z} = {}
    <3>1. T = {z} /\ z \in Int
      BY <2>1, <2>2
    <3> QED BY <3>1
  <2>3. CASE T \ {z} # {}
    <3>1. PICK x \in T \ {z} : \A y \in T \ {z} : x >= y
      BY <1>2, <2>1, <2>3
    <3>2. x \in Int /\ z \in Int
      BY <2>1, <3>1
    <3>3. CASE x >= z
      BY <3>1, <3>3
    <3>4. CASE ~(x >= z)
      <4>1. \A y \in T : z >= y
        BY <3>1, <3>2, <3>4
      <4> QED BY <2>1, <4>1
    <3> QED BY <3>3, <3>4
  <2> QED BY <2>2, <2>3
<1> HIDE DEF C
<1>3. S \in C
  BY <1>1, <1>2, SubsetInduction
<1> QED BY <1>3 DEF C

\* numpy.max is that one.
LEMMA HighestIsGreatest ==
  ASSUME NEW S, IsFiniteSet(S), S \subseteq Int, S # {}
  PROVE  Highest(S) \in S /\ \A y \in S : Highest(S) >= y
BY GreatestExists DEF Highest

\* Only one integer is the greatest.
LEMMA GreatestIsHighest ==
  ASSUME NEW S, S \subseteq Int, NEW x \in S, \A y \in S : x >= y
  PROVE  Highest(S) = x
<1>1. Highest(S) \in S /\ \A y \in S : Highest(S) >= y
  BY DEF Highest
<1>2. Highest(S) >= x /\ x >= Highest(S) /\ x \in Int /\ Highest(S) \in Int
  BY <1>1
<1> QED BY <1>2

\* A sequence has finitely many values.
LEMMA ImageIsFinite ==
  ASSUME NEW n \in Nat, NEW f, f = [i \in 1..n |-> f[i]]
  PROVE  IsFiniteSet(Range(f))
<1>1. IsFiniteSet(1..n)
  <2>1. 1 \in Int /\ n \in Int
    OBVIOUS
  <2> QED BY <2>1, FS_Interval
<1>2. f \in Surjection(1..n, Range(f))
  <2>1. f \in [1..n -> Range(f)]
    BY DEF Range
  <2> QED BY <2>1 DEF Surjection, Range
<1> QED BY <1>1, <1>2, FS_Surjection

\* An arm with the greatest mean
LEMMA BestIsHighest ==
  ASSUME NEW means, Means(means)
  PROVE  /\ Best(means) \in DOMAIN means
         /\ \A arm \in DOMAIN means : means[Best(means)] >= means[arm]
         /\ Highest(Range(means)) = means[Best(means)]
<1>1. means \in Seq(Int) /\ means # <<>> /\ Len(means) \in Nat /\ DOMAIN means = 1..Len(means)
  BY DEF Means
<1>2. Range(means) \subseteq Int /\ Range(means) # {}
  <2>1. 1 \in DOMAIN means
    BY <1>1
  <2> QED BY <1>1, <2>1 DEF Range
<1>3. IsFiniteSet(Range(means))
  <2>1. means = [i \in 1..Len(means) |-> means[i]]
    BY <1>1
  <2> QED BY <1>1, <2>1, ImageIsFinite
<1>4. PICK x \in Range(means) : \A y \in Range(means) : x >= y
  BY <1>2, <1>3, GreatestExists
<1>5. PICK a \in DOMAIN means : means[a] = x
  BY DEF Range
<1>6. \A b \in DOMAIN means : means[a] >= means[b]
  BY <1>4, <1>5 DEF Range
<1>7. Best(means) \in DOMAIN means /\ \A b \in DOMAIN means : means[Best(means)] >= means[b]
  BY <1>6 DEF Best
<1>8. means[Best(means)] \in Range(means) /\ \A y \in Range(means) : means[Best(means)] >= y
  BY <1>7 DEF Range
<1>9. Highest(Range(means)) = means[Best(means)]
  BY <1>2, <1>8, GreatestIsHighest
<1> QED BY <1>7, <1>9

-----------------------------------------------------------------------------
(* Running sums *)

\* numpy.cumsum has at each position the sum up to it.
LEMMA RunningIsSum ==
  ASSUME NEW n \in Nat, NEW values \in [1..n -> Int]
  PROVE  Running(values) = [i \in 1..n |-> Sum(FirstOf(values, i))]
<1> DEFINE sums == [i \in 0..n |-> Sum(FirstOf(values, i))]
           Is(f) == f = [i \in 0..n |-> IF i = 0 THEN 0 ELSE f[i - 1] + values[i]]
           sum == CHOOSE f : Is(f)
<1>1. Len(values) = n /\ DOMAIN values = 1..n
  OBVIOUS
<1>2. Is(sums)
  <2>1. \A i \in 0..n : i # 0 => i - 1 \in 0..n /\ i - 1 \in 0..(n - 1) /\ (i - 1) + 1 = i
    OBVIOUS
  <2>2. \A i \in 0..n : Sum(FirstOf(values, i)) =
          IF i = 0 THEN 0 ELSE Sum(FirstOf(values, i - 1)) + values[i]
    BY <2>1, SumHeads
  <2>3. \A i \in 0..n : sums[i] = IF i = 0 THEN 0 ELSE sums[i - 1] + values[i]
    BY <2>1, <2>2
  <2>4. sums = [i \in 0..n |-> sums[i]]
    OBVIOUS
  <2> HIDE DEF sums
  <2> QED BY <2>3, <2>4
<1>3. Is(sum)
  BY <1>2
<1>4. Running(values) = [i \in 1..n |-> sum[i]]
  BY <1>1 DEF Running
<1> HIDE DEF sum
<1> DEFINE S == {i \in Nat : i <= n => sum[i] = Sum(FirstOf(values, i))}
<1>5. 0 \in S
  BY <1>3, SumHeads
<1>6. ASSUME NEW i \in Nat, i \in S PROVE i + 1 \in S
  <2> SUFFICES ASSUME i + 1 <= n PROVE sum[i + 1] = Sum(FirstOf(values, i + 1))
    OBVIOUS
  <2>1. i + 1 \in 0..n /\ i + 1 # 0 /\ (i + 1) - 1 = i /\ i \in 0..(n - 1)
    OBVIOUS
  <2>2. sum[i + 1] = sum[i] + values[i + 1]
    BY <1>3, <2>1
  <2>3. sum[i] = Sum(FirstOf(values, i))
    BY <1>6, <2>1
  <2> QED BY <2>1, <2>2, <2>3, SumHeads
<1> HIDE DEF S
<1>7. \A i \in Nat : i \in S
  BY <1>5, <1>6, Induction
<1>8. \A i \in 1..n : sum[i] = Sum(FirstOf(values, i))
  BY <1>7 DEF S
<1> QED BY <1>4, <1>8

-----------------------------------------------------------------------------
(* The points kept of a curve *)

\* The rounded quotient is within a half of the exact one.
LEMMA RoundedIsNearest ==
  ASSUME NEW a \in Nat, NEW b \in Nat \ {0}
  PROVE  LET r == Rounded(a, b)
         IN r \in Nat /\ 2 * (b * r - a) <= b /\ -b <= 2 * (b * r - a)
<1> DEFINE d == a \div b
           m == a % b
           r == Rounded(a, b)
<1>1. d \in Int /\ a = b * d + m /\ m \in 0..(b - 1)
  OBVIOUS
<1>2. r = d \/ r = d + 1
  BY DEF Rounded
<1>3. r = d => 2 * m <= b
  BY DEF Rounded
<1>4. r = d + 1 => 2 * m >= b
  BY DEF Rounded
<1> HIDE DEF d, m, r
<1>5. b * d \in Int /\ b * (d + 1) = b * d + b
  BY <1>1
<1>6. d >= 0
  <2> SUFFICES ASSUME -1 - d \in Nat PROVE FALSE
    BY <1>1
  <2>1. b * (-1 - d) >= 0
    OBVIOUS
  <2>2. b * (-1 - d) = -b - b * d
    BY <1>1
  <2> QED BY <1>1, <1>5, <2>1, <2>2
<1>7. CASE r = d
  <2>1. b * r - a = -m /\ r \in Nat /\ 2 * m <= b /\ 0 <= m /\ m \in Int
    BY <1>1, <1>3, <1>5, <1>6, <1>7
  <2> HIDE <1>1
  <2> QED BY <2>1 DEF r
<1>8. CASE r = d + 1
  <2>1. b * r - a = b - m /\ r \in Nat /\ 2 * m >= b /\ m <= b /\ m \in Int
    BY <1>1, <1>4, <1>5, <1>6, <1>8
  <2> QED BY <2>1 DEF r
<1> QED BY <1>2, <1>7, <1>8

\* The positions kept of a longer curve: both ends, increasing, within half a step of an even
\* spacing.
LEMMA PositionsAreEven ==
  ASSUME NEW points \in Nat \ {0, 1}, NEW length \in Nat, length > points
  PROVE  LET kept == Positions(length, points)
             off(i) == 2 * ((kept[i] - 1) * (points - 1) - (i - 1) * (length - 1))
         IN /\ kept[1] = 1 /\ kept[points] = length
            /\ \A i \in 1..points : kept[i] \in 1..length
            /\ \A i \in 1..(points - 1) : kept[i] < kept[i + 1]
            /\ \A i \in 1..points : off(i) \in -(points - 1)..(points - 1)
<1> DEFINE kept == Positions(length, points)
           b == points - 1
           l == length - 1
           at(i) == (i - 1) * l
           r(i) == Rounded(at(i), b)
<1>1. b \in Nat \ {0} /\ l \in Nat /\ l > b
  OBVIOUS
<1>2. \A i \in 1..points : kept[i] = r(i) + 1
  BY DEF Positions
<1>3. ASSUME NEW i \in 1..points
      PROVE  at(i) \in Nat /\ r(i) \in Nat /\ 2 * (b * r(i) - at(i)) <= b /\ -b <= 2 * (b * r(i) - at(i))
  <2>1. at(i) \in Nat
    <3>1. i - 1 \in Nat /\ l \in Nat
      OBVIOUS
    <3> HIDE DEF l
    <3> QED BY <3>1
  <2> HIDE DEF b, at
  <2> QED BY <1>1, <2>1, RoundedIsNearest
<1>4. at(1) = 0 /\ at(points) = b * l
  OBVIOUS
<1>5. \A i \in 1..(points - 1) : at(i + 1) = at(i) + l
  OBVIOUS
<1> HIDE DEF kept, r, at, b, l
<1>6. ASSUME NEW i \in 1..points, NEW t \in Int, at(i) = b * t
      PROVE  r(i) = t
  <2>1. r(i) \in Nat /\ 2 * (b * r(i) - b * t) <= b /\ -b <= 2 * (b * r(i) - b * t)
    BY <1>3, <1>6
  <2>2. b * r(i) - b * t = b * (r(i) - t)
    BY <1>1, <2>1
  <2>3. CASE r(i) - t >= 1
    <3>1. b * (r(i) - t) >= b
      <4>1. b * (r(i) - t) = b * (r(i) - t - 1) + b
        BY <1>1, <2>1
      <4>2. r(i) - t - 1 \in Nat
        BY <2>1, <2>3
      <4>3. b * (r(i) - t - 1) \in Nat
        BY <1>1, <4>2
      <4> QED BY <1>1, <4>1, <4>3
    <3> QED BY <1>1, <2>1, <2>2, <3>1
  <2>4. CASE t - r(i) >= 1
    <3>1. b * (t - r(i)) >= b
      <4>1. b * (t - r(i)) = b * (t - r(i) - 1) + b
        BY <1>1, <2>1
      <4>2. t - r(i) - 1 \in Nat
        BY <2>1, <2>4
      <4>3. b * (t - r(i) - 1) \in Nat
        BY <1>1, <4>2
      <4> QED BY <1>1, <4>1, <4>3
    <3>2. b * (r(i) - t) = -(b * (t - r(i)))
      BY <1>1, <2>1
    <3>3. b * (r(i) - t) \in Int /\ b * (t - r(i)) \in Int
      BY <1>1, <2>1
    <3> HIDE <1>6
    <3> QED BY <1>1, <2>1, <2>2, <3>1, <3>2, <3>3
  <2> QED BY <2>1, <2>3, <2>4
<1>7. r(1) = 0 /\ r(points) = l
  <2>1. 1 \in 1..points /\ points \in 1..points /\ 0 = b * 0
    BY <1>1
  <2> QED BY <1>1, <1>4, <1>6, <2>1
<1>8. ASSUME NEW i \in 1..(points - 1) PROVE r(i) < r(i + 1)
  <2>1. i \in 1..points /\ i + 1 \in 1..points
    OBVIOUS
  <2>2. /\ at(i) \in Nat /\ r(i) \in Nat /\ 2 * (b * r(i) - at(i)) <= b
        /\ r(i + 1) \in Nat /\ -b <= 2 * (b * r(i + 1) - at(i + 1))
    BY <1>3, <2>1
  <2>3. b * r(i) \in Int /\ b * r(i + 1) \in Int
    BY <1>1, <2>2
  <2>4. b * r(i + 1) > b * r(i)
    BY <1>1, <1>5, <2>2, <2>3
  <2>5. r(i) >= r(i + 1) => b * r(i) >= b * r(i + 1)
    <3> SUFFICES ASSUME r(i) >= r(i + 1) PROVE b * r(i) >= b * r(i + 1)
      OBVIOUS
    <3>1. r(i) - r(i + 1) \in Nat
      BY <2>2
    <3>2. b * (r(i) - r(i + 1)) \in Nat
      BY <1>1, <3>1
    <3>3. b * (r(i) - r(i + 1)) = b * r(i) - b * r(i + 1)
      BY <1>1, <2>2
    <3> QED BY <2>3, <3>2, <3>3
  <2> QED BY <2>2, <2>3, <2>4, <2>5
<1>9. ASSUME NEW i \in 1..points PROVE r(i) <= l
  <2>1. /\ at(i) \in Nat /\ r(i) \in Nat /\ 2 * (b * r(i) - at(i)) <= b
    BY <1>3
  <2>2. at(i) <= b * l
    <3>1. at(points) = at(i) + (points - i) * l
      BY DEF at, b, l
    <3>2. points - i \in Nat
      OBVIOUS
    <3>3. (points - i) * l \in Nat
      BY <1>1, <3>2
    <3> QED BY <1>4, <2>1, <3>1, <3>3
  <2>3. b * r(i) \in Int /\ b * l \in Int
    BY <1>1, <2>1
  <2>4. 2 * (b * r(i) - b * l) <= b
    BY <1>1, <2>1, <2>2, <2>3
  <2>5. r(i) > l => b * r(i) - b * l >= b
    <3> SUFFICES ASSUME r(i) > l PROVE b * r(i) - b * l >= b
      OBVIOUS
    <3>1. r(i) - l - 1 \in Nat
      BY <1>1, <2>1
    <3>2. b * (r(i) - l - 1) \in Nat
      BY <1>1, <3>1
    <3>3. b * (r(i) - l - 1) = b * r(i) - b * l - b
      BY <1>1, <2>1
    <3> QED BY <1>1, <2>3, <3>2, <3>3
  <2> QED BY <1>1, <2>1, <2>3, <2>4, <2>5
<1>10. kept[1] = 1 /\ kept[points] = length
  BY <1>2, <1>7 DEF l
<1>11. \A i \in 1..points : kept[i] \in 1..length
  BY <1>2, <1>3, <1>9 DEF l
<1>12. \A i \in 1..(points - 1) : kept[i] < kept[i + 1]
  <2> TAKE i \in 1..(points - 1)
  <2>1. i \in 1..points /\ i + 1 \in 1..points
    OBVIOUS
  <2> QED BY <1>2, <1>3, <1>8, <2>1
<1>13. \A i \in 1..points :
         2 * ((kept[i] - 1) * (points - 1) - (i - 1) * (length - 1)) \in -(points - 1)..(points - 1)
  <2> TAKE i \in 1..points
  <2>1. kept[i] - 1 = r(i) /\ at(i) \in Nat /\ r(i) \in Nat
    BY <1>2, <1>3
  <2>2. (kept[i] - 1) * (points - 1) = b * r(i) /\ (i - 1) * (length - 1) = at(i)
    BY <1>1, <2>1 DEF b, l, at
  <2>3. 2 * (b * r(i) - at(i)) <= b /\ -b <= 2 * (b * r(i) - at(i))
    BY <1>3
  <2>4. b * r(i) \in Int
    BY <1>1, <2>1
  <2>5. 2 * (b * r(i) - at(i)) \in -b..b
    BY <1>1, <2>1, <2>3, <2>4
  <2> QED BY <2>2, <2>5 DEF b
<1> QED BY <1>10, <1>11, <1>12, <1>13 DEF kept

\* The selection of points is even (pipeline.py: _subsample_summary).
LEMMA EvenSubsamples == EverythingIsExact => SubsampleIsEven
<1> SUFFICES ASSUME EverythingIsExact, config # None, config.points # None
             PROVE  LET points == config.points
                    IN \A length \in (points + 1)..24 :
                         LET kept == Positions(length, points)
                             off(i) == 2 * ((kept[i] - 1) * (points - 1) - (i - 1) * (length - 1))
                         IN /\ kept[1] = 1 /\ kept[points] = length
                            /\ \A i \in 1..(points - 1) : kept[i] < kept[i + 1]
                            /\ \A i \in 1..points : off(i) \in -(points - 1)..(points - 1)
  BY DEF SubsampleIsEven
<1>1. config.points \in Nat \ {0, 1}
  BY ConfigAssumption DEF EverythingIsExact, ConfigIsAccepted
<1> DEFINE points == config.points
<1>2. ASSUME NEW length \in (points + 1)..24 PROVE length \in Nat /\ length > points
  BY <1>1
<1> HIDE DEF points
<1> QED BY <1>1, <1>2, PositionsAreEven DEF points

-----------------------------------------------------------------------------
(* Aggregation *)

IsGroup(group) ==
  group = [x |-> group.x, mean |-> group.mean, squared |-> group.squared, fits |-> group.fits,
           identity |-> group.identity, repetitions |-> group.repetitions, count |-> group.count]

\* An entry that does not belong leaves a group that does not fit.
LEMMA AddRefuses ==
  ASSUME NEW group, IsGroup(group), NEW entry, ~Belongs(group, entry)
  PROVE  LET after == Add(group, entry)
         IN IsGroup(after) /\ ~after.fits /\ after.mean = group.mean
<1> DEFINE after == [group EXCEPT !.fits = FALSE]
<1>1. Add(group, entry) = after
  BY DEF Add
<1>2. PICK a, b, c, d, e, f, g :
        group = [x |-> a, mean |-> b, squared |-> c, fits |-> d, identity |-> e, repetitions |-> f, count |-> g]
  BY DEF IsGroup
<1>3. after = [x |-> a, mean |-> b, squared |-> c, fits |-> FALSE,
               identity |-> e, repetitions |-> f, count |-> g]
  <2>1. /\ DOMAIN group = {"x", "mean", "squared", "fits", "identity", "repetitions", "count"}
        /\ group.x = a /\ group.mean = b /\ group.squared = c /\ group.identity = e
        /\ group.repetitions = f /\ group.count = g
    BY <1>2
  <2>2. after = [p \in DOMAIN group |-> IF p = "fits" THEN FALSE ELSE group[p]]
    BY <2>1
  <2> HIDE DEF after
  <2>3. /\ DOMAIN after = {"x", "mean", "squared", "fits", "identity", "repetitions", "count"}
        /\ after = [p \in DOMAIN group |-> after[p]]
        /\ after["x"] = a /\ after["mean"] = b /\ after["squared"] = c /\ after["identity"] = e
        /\ after["repetitions"] = f /\ after["count"] = g /\ after["fits"] = FALSE
    BY <2>1, <2>2
  <2> QED BY <2>1, <2>3
<1> HIDE DEF after
<1>4. ~after.fits /\ after.mean = group.mean
  BY <1>2, <1>3
<1>5. IsGroup(after)
  BY <1>3 DEF IsGroup
<1> QED BY <1>1, <1>4, <1>5

\* Welford's update at one point
NextMean(group, entry, p) == group.mean[p] + (Scale * entry.curve.values[p] - group.mean[p]) \div (group.count + 1)
NextSquared(group, entry, p) ==
  group.squared[p] + (Scale * entry.curve.values[p] - group.mean[p])
                       * (Scale * entry.curve.values[p] - NextMean(group, entry, p))

\* One that belongs updates the means and the deviations.
LEMMA AddAccepts ==
  ASSUME NEW group, IsGroup(group), NEW entry, Belongs(group, entry)
  PROVE  Add(group, entry) =
           [x |-> group.x, mean |-> [p \in DOMAIN group.mean |-> NextMean(group, entry, p)],
            squared |-> [p \in DOMAIN group.mean |-> NextSquared(group, entry, p)],
            fits |-> group.fits, identity |-> group.identity,
            repetitions |-> group.repetitions \union {entry.repetition}, count |-> group.count + 1]
<1> DEFINE delta == [i \in DOMAIN group.mean |-> Scale * entry.curve.values[i] - group.mean[i]]
           mean == [i \in DOMAIN group.mean |-> group.mean[i] + delta[i] \div (group.count + 1)]
           squared == [i \in DOMAIN group.mean |->
                         group.squared[i] + delta[i] * (Scale * entry.curve.values[i] - mean[i])]
<1>1. Add(group, entry) = [group EXCEPT !.count = group.count + 1,
                             !.repetitions = @ \union {entry.repetition}, !.mean = mean, !.squared = squared]
  BY DEF Add
<1>2. mean = [p \in DOMAIN group.mean |-> NextMean(group, entry, p)]
  BY DEF NextMean
<1>3. squared = [p \in DOMAIN group.mean |-> NextSquared(group, entry, p)]
  BY DEF NextSquared, NextMean
<1> HIDE DEF mean, squared
<1>4. Add(group, entry) = [x |-> group.x, mean |-> mean, squared |-> squared,
            fits |-> group.fits, identity |-> group.identity,
            repetitions |-> group.repetitions \union {entry.repetition}, count |-> group.count + 1]
  BY <1>1 DEF IsGroup
<1> QED BY <1>2, <1>3, <1>4

\* The group before any entry, and after each of them
Empty(entry) ==
  [x |-> entry.curve.x, mean |-> [i \in DOMAIN entry.curve.x |-> 0],
   squared |-> [i \in DOMAIN entry.curve.x |-> 0], fits |-> TRUE,
   identity |-> entry.identity, repetitions |-> {}, count |-> 0]
Grouping(entries, group, n) ==
  group = [i \in 0..n |-> IF i = 0 THEN Empty(entries[1]) ELSE Add(group[i - 1], entries[i])]

\* Any number of entries can be added.
LEMMA GroupingExists ==
  ASSUME NEW entries
  PROVE  \A n \in Nat : \E group : Grouping(entries, group, n)
<1> DEFINE S == {n \in Nat : \E group : Grouping(entries, group, n)}
<1>1. 0 \in S
  <2>1. Grouping(entries, [i \in 0..0 |-> Empty(entries[1])], 0)
    BY DEF Grouping
  <2> QED BY <2>1
<1>2. ASSUME NEW n \in Nat, n \in S PROVE n + 1 \in S
  <2>1. PICK group : Grouping(entries, group, n)
    BY <1>2
  <2> DEFINE longer == [i \in 0..(n + 1) |-> IF i = n + 1 THEN Add(group[n], entries[n + 1]) ELSE group[i]]
  <2>2. \A i \in 0..(n + 1) :
          longer[i] = IF i = 0 THEN Empty(entries[1]) ELSE Add(longer[i - 1], entries[i])
    <3> SUFFICES ASSUME NEW i \in 0..(n + 1)
                 PROVE  longer[i] = IF i = 0 THEN Empty(entries[1]) ELSE Add(longer[i - 1], entries[i])
      OBVIOUS
    <3>1. CASE i = n + 1
      <4>1. longer[i - 1] = group[n] /\ longer[i] = Add(group[n], entries[i]) /\ i # 0
        BY <3>1
      <4> QED BY <4>1
    <3>2. CASE i # n + 1
      <4>1. i \in 0..n /\ longer[i] = group[i] /\ (i # 0 => longer[i - 1] = group[i - 1])
        BY <3>2
      <4>2. group[i] = IF i = 0 THEN Empty(entries[1]) ELSE Add(group[i - 1], entries[i])
        BY <2>1, <4>1 DEF Grouping
      <4> QED BY <4>1, <4>2
    <3> QED BY <3>1, <3>2
  <2>3. Grouping(entries, longer, n + 1)
    BY <2>2, Zenon DEF Grouping
  <2> QED BY <2>3
<1> HIDE DEF S
<1>3. \A n \in Nat : n \in S
  BY <1>1, <1>2, Induction
<1> QED BY <1>3 DEF S

Groups(entries, group, n) ==
  /\ group[0] = Empty(entries[1])
  /\ \A i \in 0..(n - 1) : group[i + 1] = Add(group[i], entries[i + 1])

\* The equations of aggregation: it starts empty and adds entry after entry.
LEMMA AggregateUnfolds ==
  ASSUME NEW n \in Nat, NEW entries, Len(entries) = n
  PROVE  \E group : Groups(entries, group, n) /\ Aggregate(entries) = group[n]
<1> DEFINE group == CHOOSE group : Grouping(entries, group, n)
<1>1. Grouping(entries, group, n)
  BY GroupingExists
<1>2. Aggregate(entries) = group[n]
  BY Zenon DEF Aggregate, Grouping, Empty
<1> HIDE DEF group
<1>3. Groups(entries, group, n)
  BY <1>1 DEF Grouping, Groups
<1> QED BY <1>2, <1>3

\* The first i entries are of one science and one curve length, and of different repetitions.
Alike(entries, i) ==
  \A l \in 1..i :
    /\ entries[l].identity = entries[1].identity /\ entries[l].curve.x = entries[1].curve.x
    /\ \A k \in 1..(l - 1) : entries[k].repetition # entries[l].repetition
Collected(entries, group, i) ==
  /\ IsGroup(group) /\ DOMAIN group.mean = DOMAIN entries[1].curve.x
  /\ group.fits =>
       /\ group.x = entries[1].curve.x /\ group.identity = entries[1].identity /\ group.count = i
       /\ group.repetitions = {entries[l].repetition : l \in 1..i}
       /\ Alike(entries, i)

\* A group that still fits is of entries with one identity, the same points and different
\* repetitions, all of them counted.
LEMMA GroupsCollect ==
  ASSUME NEW n \in Nat, NEW entries, NEW group, Groups(entries, group, n)
  PROVE  \A i \in 0..n : Collected(entries, group[i], i)
<1> DEFINE S == {i \in Nat : i <= n => Collected(entries, group[i], i)}
<1>1. 0 \in S
  <2>1. group[0] = Empty(entries[1])
    BY DEF Groups
  <2>2. IsGroup(Empty(entries[1]))
    BY DEF IsGroup, Empty
  <2>3. Alike(entries, 0) /\ {entries[l].repetition : l \in 1..0} = {}
    BY DEF Alike
  <2> QED BY <2>1, <2>2, <2>3 DEF Collected, Empty
<1>2. ASSUME NEW i \in Nat, i \in S PROVE i + 1 \in S
  <2> SUFFICES ASSUME i + 1 <= n PROVE Collected(entries, group[i + 1], i + 1)
    OBVIOUS
  <2> DEFINE before == group[i]
             entry == entries[i + 1]
  <2>1. Collected(entries, before, i) /\ group[i + 1] = Add(before, entry)
    BY <1>2 DEF Groups
  <2>2. CASE ~Belongs(before, entry)
    BY <2>1, <2>2, AddRefuses DEF Collected
  <2>3. CASE Belongs(before, entry)
    <3> DEFINE after == Add(before, entry)
    <3>1. /\ IsGroup(after) /\ after.fits = before.fits /\ DOMAIN after.mean = DOMAIN before.mean
          /\ after.x = before.x /\ after.identity = before.identity /\ after.count = before.count + 1
          /\ after.repetitions = before.repetitions \union {entry.repetition}
      BY <2>1, <2>3, AddAccepts DEF Collected, IsGroup
    <3>2. /\ before.fits /\ before.identity = entry.identity /\ before.x = entry.curve.x
          /\ entry.repetition \notin before.repetitions
      BY <2>3 DEF Belongs
    <3>3. /\ before.x = entries[1].curve.x /\ before.identity = entries[1].identity /\ before.count = i
          /\ before.repetitions = {entries[l].repetition : l \in 1..i}
          /\ Alike(entries, i)
      BY <2>1, <3>2 DEF Collected
    <3>4. Alike(entries, i + 1)
      <4> SUFFICES ASSUME NEW l \in 1..(i + 1)
                   PROVE  /\ entries[l].identity = entries[1].identity
                          /\ entries[l].curve.x = entries[1].curve.x
                          /\ \A k \in 1..(l - 1) : entries[k].repetition # entries[l].repetition
        BY DEF Alike
      <4>1. CASE l = i + 1
        <5>1. l - 1 = i
          BY <4>1
        <5> QED BY <3>2, <3>3, <4>1, <5>1
      <4>2. CASE l # i + 1
        <5>1. l \in 1..i
          BY <4>2
        <5> QED BY <3>3, <5>1 DEF Alike
      <4> QED BY <4>1, <4>2
    <3>5. after.repetitions = {entries[l].repetition : l \in 1..(i + 1)}
      <4>1. 1..(i + 1) = 1..i \union {i + 1}
        OBVIOUS
      <4> HIDE DEF after
      <4> QED BY <3>1, <3>3, <4>1
    <3> HIDE DEF after
    <3>6. Collected(entries, after, i + 1)
      BY <2>1, <3>1, <3>3, <3>4, <3>5 DEF Collected
    <3> QED BY <2>1, <3>6 DEF after
  <2> QED BY <2>2, <2>3
<1> HIDE DEF S
<1>3. \A i \in Nat : i \in S
  BY <1>1, <1>2, Induction
<1> QED BY <1>3 DEF S

\* An entry that does not fit is never made good.
LEMMA FitsFromTheStart ==
  ASSUME NEW n \in Nat, NEW entries, NEW group, Groups(entries, group, n), group[n].fits
  PROVE  /\ \A i \in 0..n : group[i].fits
         /\ \A i \in 0..(n - 1) : Belongs(group[i], entries[i + 1])
<1>1. \A i \in 0..(n - 1) : group[i + 1].fits => group[i].fits /\ Belongs(group[i], entries[i + 1])
  <2> SUFFICES ASSUME NEW i \in 0..(n - 1), group[i + 1].fits PROVE Belongs(group[i], entries[i + 1])
    BY DEF Belongs
  <2>1. IsGroup(group[i]) /\ group[i + 1] = Add(group[i], entries[i + 1])
    BY GroupsCollect DEF Collected, Groups
  <2> QED BY <2>1, AddRefuses
<1> DEFINE S == {d \in Nat : \A i \in 0..n : i + d = n => group[i].fits}
<1>2. 0 \in S
  OBVIOUS
<1>3. ASSUME NEW d \in Nat, d \in S PROVE d + 1 \in S
  <2> SUFFICES ASSUME NEW i \in 0..n, i + (d + 1) = n PROVE group[i].fits
    OBVIOUS
  <2>1. i \in 0..(n - 1) /\ i + 1 \in 0..n /\ (i + 1) + d = n
    OBVIOUS
  <2> QED BY <1>1, <1>3, <2>1
<1> HIDE DEF S
<1>4. \A d \in Nat : d \in S
  BY <1>2, <1>3, Induction
<1>5. ASSUME NEW i \in 0..n PROVE group[i].fits
  <2>1. n - i \in Nat /\ i + (n - i) = n
    OBVIOUS
  <2> QED BY <1>4, <2>1 DEF S
<1>6. \A i \in 0..(n - 1) : i + 1 \in 0..n
  OBVIOUS
<1> QED BY <1>1, <1>5, <1>6

\* Where a group does not fit, the first entry that does not belong comes after entries that do.
LEMMA RefusedByAnEntry ==
  ASSUME NEW n \in Nat, NEW entries, NEW group, Groups(entries, group, n), ~group[n].fits
  PROVE  \E i \in 0..(n - 1) : group[i].fits /\ ~Belongs(group[i], entries[i + 1])
<1> SUFFICES ASSUME \A i \in 0..(n - 1) : group[i].fits => Belongs(group[i], entries[i + 1])
             PROVE  FALSE
  OBVIOUS
<1> DEFINE S == {i \in Nat : i <= n => group[i].fits}
<1>1. 0 \in S
  BY DEF Groups, Empty
<1>2. ASSUME NEW i \in Nat, i \in S PROVE i + 1 \in S
  <2> SUFFICES ASSUME i + 1 <= n PROVE group[i + 1].fits
    OBVIOUS
  <2>1. i \in 0..(n - 1) /\ i \in 0..n /\ group[i].fits
    BY <1>2
  <2>2. IsGroup(group[i]) /\ group[i + 1] = Add(group[i], entries[i + 1])
    BY <2>1, GroupsCollect DEF Collected, Groups
  <2>3. Belongs(group[i], entries[i + 1])
    BY <2>1
  <2> QED BY <2>1, <2>2, <2>3, AddAccepts
<1> HIDE DEF S
<1>3. n \in S
  BY <1>1, <1>2, Induction
<1> QED BY <1>3 DEF S

\* One update: the new squared deviation is of the new mean.
LEMMA Deviation ==
  ASSUME NEW k \in Int, NEW m \in Int, NEW p \in Int, NEW w \in Int, k * m = (k - 1) * p + w
  PROVE  (w - p) * (w - m) = w * w - k * (m * m) + (k - 1) * (p * p)
<1>1. \A a, b, c \in Int : (a - b) * (a - c) = a * a - a * c - a * b + b * c
  OBVIOUS
<1>2. w = k * m - k * p + p
  BY \A a, b \in Int : (a - 1) * b = a * b - b
<1>3. \A a, b, c, d \in Int : (a * b - a * c + c) * d = a * (b * d) - a * (c * d) + c * d
  OBVIOUS
<1>4. w * m = k * (m * m) - k * (p * m) + p * m
  BY <1>2, <1>3
<1>5. w * p = k * (m * p) - k * (p * p) + p * p
  BY <1>2, <1>3
<1>6. (k - 1) * (p * p) = k * (p * p) - p * p
  BY \A a, b \in Int : (a - 1) * b = a * b - b
<1>7. m * p = p * m
  OBVIOUS
<1>8. (w - p) * (w - m) = w * w - w * m - w * p + p * m
  BY <1>1
<1> DEFINE a1 == k * (m * m)
           a2 == k * (p * m)
           a3 == p * m
           a4 == k * (p * p)
           a5 == p * p
           a6 == w * w
<1>9. a1 \in Int /\ a2 \in Int /\ a3 \in Int /\ a4 \in Int /\ a5 \in Int /\ a6 \in Int
  OBVIOUS
<1>10. w * m = a1 - a2 + a3 /\ w * p = a2 - a4 + a5 /\ (k - 1) * (p * p) = a4 - a5
  BY <1>4, <1>5, <1>6, <1>7
<1>11. (w - p) * (w - m) = a6 - w * m - w * p + a3
  BY <1>8
<1> HIDE DEF a1, a2, a3, a4, a5, a6
<1>12. (w - p) * (w - m) = a6 - a1 + (a4 - a5)
  BY <1>9, <1>10, <1>11
<1> QED BY <1>10, <1>12 DEF a1, a6

\* A multiple is divided exactly.
LEMMA Divided ==
  ASSUME NEW b \in Nat \ {0}, NEW t \in Int
  PROVE  (b * t) \div b = t
OBVIOUS

\* Without a remainder division is exact.
LEMMA Whole ==
  ASSUME NEW a \in Nat, NEW b \in Nat \ {0}, a % b = 0
  PROVE  a = b * (a \div b) /\ a \div b \in Int
OBVIOUS

\* The mean of so many numbers, and of any fewer of them, is a whole number of parts.
Divides(n) == \A i \in 1..n : Scale % i = 0

\* What Welford's updates compute at one point: the exact mean of what was added, and
\* the sum of the squares less those of the mean.
Accumulated(group, w, q, p, i) ==
  LET mean == group.mean[p]
  IN /\ mean \in Int /\ i * mean = Sum(FirstOf(w, i))
     /\ group.squared[p] = Sum(FirstOf(q, i)) - i * (mean * mean)

Adding(entries, group, n, p, v, w, q) ==
  /\ n \in Nat /\ Groups(entries, group, n) /\ group[n].fits
  /\ p \in DOMAIN entries[1].curve.x /\ v \in [1..n -> Int]
  /\ \A j \in 1..n : entries[j].curve.values[p] = v[j]
  /\ w = [j \in 1..n |-> Scale * v[j]] /\ q = [j \in 1..n |-> w[j] * w[j]]

\* Welford's update keeps the exact mean and squared deviation: as Scale is a multiple of every
\* count, no division loses anything.
LEMMA MeansAreExact ==
  ASSUME Scale \in Nat \ {0}, NEW n, Divides(n), NEW entries, NEW group, NEW p, NEW v, NEW w, NEW q,
         Adding(entries, group, n, p, v, w, q)
  PROVE  \A i \in 0..n : Accumulated(group[i], w, q, p, i)
<1>0. /\ n \in Nat /\ Groups(entries, group, n) /\ group[n].fits
      /\ p \in DOMAIN entries[1].curve.x /\ v \in [1..n -> Int]
      /\ \A j \in 1..n : entries[j].curve.values[p] = v[j]
      /\ w = [j \in 1..n |-> Scale * v[j]] /\ q = [j \in 1..n |-> w[j] * w[j]]
  BY DEF Adding
<1> USE <1>0
<1> DEFINE Right(i) == Accumulated(group[i], w, q, p, i)
           S == {i \in Nat : i <= n => Right(i)}
<1>1. w \in [1..n -> Int]
  OBVIOUS
<1>2. q \in [1..n -> Int]
  BY <1>1
<1>w. \A j \in 1..n : w[j] = Scale * v[j]
  OBVIOUS
<1>q. \A j \in 1..n : q[j] = w[j] * w[j]
  OBVIOUS
<1> HIDE DEF Right
<1>3. /\ Sum(FirstOf(w, 0)) = 0 /\ Sum(FirstOf(q, 0)) = 0
      /\ \A k \in 0..n : Sum(FirstOf(w, k)) \in Int /\ Sum(FirstOf(q, k)) \in Int
      /\ \A k \in 0..(n - 1) : /\ Sum(FirstOf(w, k + 1)) = Sum(FirstOf(w, k)) + w[k + 1]
                               /\ Sum(FirstOf(q, k + 1)) = Sum(FirstOf(q, k)) + q[k + 1]
  BY <1>1, <1>2, SumHeads
<1>4. \A k \in 0..n : /\ Sum(FirstOf(v, k)) \in Int
                      /\ Sum(FirstOf(w, k)) = Scale * Sum(FirstOf(v, k))
  <2> SUFFICES ASSUME NEW k \in 0..n
               PROVE  /\ Sum(FirstOf(v, k)) \in Int
                      /\ Sum(FirstOf(w, k)) = Scale * Sum(FirstOf(v, k))
    OBVIOUS
  <2> DEFINE f == FirstOf(v, k)
  <2>1. f \in [1..k -> Int] /\ \A j \in 1..k : f[j] = v[j] /\ w[j] = Scale * v[j]
    BY <1>w DEF FirstOf
  <2>2. FirstOf(w, k) = [j \in 1..k |-> Scale * f[j]]
    <3> HIDE DEF f
    <3> QED BY <2>1 DEF FirstOf
  <2> HIDE DEF f
  <2>3. Sum([j \in 1..k |-> Scale * f[j]]) = Scale * Sum(f)
    <3>1. \A g \in [1..k -> Int] : Sum([j \in 1..k |-> Scale * g[j]]) = Scale * Sum(g)
      <4>1. k \in Nat /\ Scale \in Int
        OBVIOUS
      <4> QED BY <4>1, SumScales
    <3> QED BY <2>1, <3>1
  <2>4. Sum(f) \in Int
    BY <1>3, SumHeads DEF f
  <2> QED BY <2>2, <2>3, <2>4 DEF f
<1>5. 0 \in S
  <2>1. group[0] = Empty(entries[1])
    BY DEF Groups
  <2>2. group[0].mean[p] = 0 /\ group[0].squared[p] = 0
    BY <2>1 DEF Empty
  <2> QED BY <1>3, <2>2 DEF Right, Accumulated
<1>6. ASSUME NEW i \in Nat, i \in S PROVE i + 1 \in S
  <2> SUFFICES ASSUME i + 1 <= n PROVE Right(i + 1)
    OBVIOUS
  <2> DEFINE before == group[i]
             entry == entries[i + 1]
             k == i + 1
             a == before.mean[p]
             x == w[k]
             t == Sum(FirstOf(v, k))
             c == Scale \div k
             m == c * t
  <2>1. i \in 0..(n - 1) /\ i \in 0..n /\ k \in 1..n /\ k \in 0..n /\ k - 1 = i /\ k \in Nat \ {0}
    OBVIOUS
  <2>2. Right(i)
    BY <1>6, <2>1
  <2>a. /\ a \in Int /\ i * a = Sum(FirstOf(w, i))
        /\ before.squared[p] = Sum(FirstOf(q, i)) - i * (a * a)
    BY <2>2 DEF Right, Accumulated
  <2>3. Collected(entries, before, i) /\ group[k] = Add(before, entry) /\ Belongs(before, entry)
    BY <2>1, GroupsCollect, FitsFromTheStart DEF Groups
  <2>4. p \in DOMAIN before.mean
    BY <2>3 DEF Collected
  <2>5. /\ group[k].mean[p] = NextMean(before, entry, p)
        /\ group[k].squared[p] = NextSquared(before, entry, p)
    BY <2>3, <2>4, AddAccepts DEF Collected
  <2>6. before.count = i
    BY <2>3 DEF Collected, Belongs
  <2>7. Scale * entry.curve.values[p] = x
    BY <1>w, <2>1
  <2>8. group[k].mean[p] = a + (x - a) \div k
    BY <2>5, <2>6, <2>7 DEF NextMean
  <2>9. group[k].squared[p] = before.squared[p] + (x - a) * (x - group[k].mean[p])
    BY <2>5, <2>7 DEF NextSquared
  <2>10. Scale = k * c /\ c \in Int
    <3>1. Scale % k = 0
      BY <2>1 DEF Divides
    <3> HIDE DEF k
    <3> QED BY <2>1, <3>1, Whole
  <2>11. t \in Int /\ x \in Int /\ a \in Int
    BY <1>1, <1>4, <2>1, <2>a
  <2>12. i * a + x = Scale * t
    <3>1. i * a = Sum(FirstOf(w, i)) /\ Sum(FirstOf(w, k)) = Sum(FirstOf(w, i)) + x
      BY <1>3, <2>1, <2>a
    <3>2. Sum(FirstOf(w, k)) = Scale * t
      BY <1>4, <2>1
    <3> QED BY <3>1, <3>2
  <2> HIDE DEF t, c, x, a, k
  <2>13. Scale * t = k * m /\ m \in Int
    <3>1. (k * c) * t = k * (c * t) /\ c * t \in Int
      BY <2>1, <2>10, <2>11
    <3> QED BY <2>10, <3>1
  <2> HIDE DEF m
  <2>14. x - a = k * (m - a)
    <3>1. k * (m - a) = k * m - k * a /\ (k - 1) * a = k * a - a
      BY <2>1, <2>11, <2>13
    <3>2. i * a = (k - 1) * a
      BY <2>1
    <3> DEFINE km == k * m
               ka == k * a
               ia == i * a
    <3>3. km \in Int /\ ka \in Int /\ ia \in Int
      BY <2>1, <2>11, <2>13
    <3>4. ia + x = km /\ ia = ka - a /\ k * (m - a) = km - ka
      BY <2>12, <2>13, <3>1, <3>2
    <3>5. k * (m - a) = km - ka
      BY <3>4
    <3> HIDE DEF km, ka, ia
    <3>6. x - a = km - ka
      BY <2>11, <3>3, <3>4
    <3> QED BY <3>5, <3>6
  <2>15. group[k].mean[p] = m
    <3>1. m - a \in Int
      BY <2>11, <2>13
    <3>2. (k * (m - a)) \div k = m - a
      BY <2>1, <3>1, Divided
    <3>3. (x - a) \div k = m - a
      BY <2>14, <3>2
    <3> QED BY <2>8, <2>11, <2>13, <3>3
  <2>16. k * m = (k - 1) * a + x
    BY <2>1, <2>12, <2>13
  <2>17. (x - a) * (x - m) = x * x - k * (m * m) + (k - 1) * (a * a)
    <3>1. k \in Int
      BY <2>1
    <3>2. a \in Int /\ m \in Int /\ x \in Int
      BY <2>11, <2>13
    <3>3. PICK K \in Int, M \in Int, P \in Int, W \in Int : K = k /\ M = m /\ P = a /\ W = x
      BY ONLY <3>1, <3>2
    <3>4. K * M = (K - 1) * P + W
      BY ONLY <2>16, <3>3
    <3>5. (W - P) * (W - M) = W * W - K * (M * M) + (K - 1) * (P * P)
      BY ONLY <3>4, Deviation, K \in Int, M \in Int, P \in Int, W \in Int
    <3> QED BY ONLY <3>3, <3>5
  <2>18. before.squared[p] = Sum(FirstOf(q, i)) - i * (a * a)
    BY <2>a
  <2>19. Sum(FirstOf(q, k)) = Sum(FirstOf(q, i)) + x * x /\ Sum(FirstOf(q, i)) \in Int
    BY <1>3, <1>q, <2>1 DEF k, x
  <2>20. group[k].squared[p] = Sum(FirstOf(q, k)) - k * (m * m)
    <3> DEFINE A == Sum(FirstOf(q, i))
               B == x * x
               C == k * (m * m)
               D == i * (a * a)
    <3>1. A \in Int /\ B \in Int /\ C \in Int /\ D \in Int
      <4>1. m * m \in Int /\ a * a \in Int
        BY <2>11, <2>13
      <4> QED BY <2>1, <2>11, <2>19, <4>1
    <3>2. group[k].squared[p] = (A - D) + (B - C + D) /\ Sum(FirstOf(q, k)) = A + B
      BY <2>1, <2>9, <2>15, <2>17, <2>18, <2>19 DEF a
    <3> HIDE DEF A, B, C, D
    <3>3. group[k].squared[p] = Sum(FirstOf(q, k)) - C
      BY <3>1, <3>2
    <3> QED BY <3>3 DEF C
  <2>21. k * m = Sum(FirstOf(w, k))
    BY <1>4, <2>1, <2>13 DEF t
  <2> QED BY <2>13, <2>15, <2>20, <2>21 DEF k, Right, Accumulated
<1> HIDE DEF S
<1>7. \A i \in Nat : i \in S
  BY <1>5, <1>6, Induction
<1>8. \A i \in 0..n : Right(i)
  BY <1>7 DEF S
<1> QED BY <1>8 DEF Right

\* An order of a finite set is a sequence of its elements, each of them once.
LEMMA OrderCovers ==
  ASSUME NEW S, IsFiniteSet(S), NEW order \in SetToSeqs(S)
  PROVE  /\ Cardinality(S) \in Nat /\ DOMAIN order = 1..Cardinality(S)
         /\ \A i \in DOMAIN order : order[i] \in S
         /\ \A i, j \in DOMAIN order : order[i] = order[j] => i = j
         /\ \A s \in S : \E i \in DOMAIN order : order[i] = s
<1> DEFINE n == Cardinality(S)
<1>1. n \in Nat /\ order \in [1..n -> S] /\ \A i, j \in 1..n : i # j => order[i] # order[j]
  BY FS_CardinalityType DEF SetToSeqs
<1> HIDE DEF n
<1>2. order \in Injection(1..n, S)
  BY <1>1 DEF Injection, IsInjective
<1>3. IsFiniteSet(1..n) /\ Cardinality(1..n) = n
  BY <1>1, FS_Interval
<1>4. order \in Surjection(1..n, S)
  BY <1>2, <1>3, FS_Injection DEF n
<1> QED BY <1>1, <1>4 DEF Surjection, n

\* At a point, the mean and the squared deviation are those of the runs' values.
LEMMA GroupIsExact ==
  ASSUME Scale \in Nat \ {0}, NEW S, IsFiniteSet(S), NEW order \in SetToSeqs(S),
         NEW n, n = Cardinality(S), Divides(n),
         NEW entries, NEW group, Groups(entries, group, n), group[n].fits,
         NEW p \in DOMAIN entries[1].curve.x, NEW f \in [S -> Int],
         \A j \in 1..n : entries[j].curve.values[p] = f[order[j]]
  PROVE  LET v == [s \in S |-> Scale * f[s]]
             mean == group[n].mean[p]
         IN /\ n * mean = Sum(v)
            /\ group[n].squared[p] = Sum([s \in S |-> LET d == v[s] - mean IN d * d])
<1> DEFINE v == [s \in S |-> Scale * f[s]]
           m == group[n].mean[p]
           e == [s \in S |-> (v[s] - m) * (v[s] - m)]
           u == [j \in 1..n |-> f[order[j]]]
           w == [j \in 1..n |-> Scale * u[j]]
           q == [j \in 1..n |-> w[j] * w[j]]
           r == [j \in 1..n |-> (w[j] - m) * (w[j] - m)]
<1>1. n \in Nat /\ \A j \in 1..n : order[j] \in S
  BY OrderCovers
<1>2. u \in [1..n -> Int] /\ v \in [S -> Int]
  BY <1>1
<1>3. w \in [1..n -> Int] /\ \A j \in 1..n : w[j] = v[order[j]]
  BY <1>1, <1>2
<1>4. \A j \in 1..n : entries[j].curve.values[p] = u[j]
  OBVIOUS
<1> HIDE DEF u
<1>5. /\ m \in Int /\ n * m = Sum(FirstOf(w, n))
      /\ group[n].squared[p] = Sum(FirstOf(q, n)) - n * (m * m)
  <2>1. n \in 0..n
    BY <1>1
  <2> HIDE DEF w, q
  <2>2. \A i \in 0..n : Accumulated(group[i], w, q, p, i)
    <3>1. PICK g, W, Q : g \in [1..n -> Int] /\ g = u /\ W = w /\ Q = q
      BY <1>2
    <3>2. \A j \in 1..n : entries[j].curve.values[p] = g[j]
      BY <1>4, <3>1
    <3>3. W = [j \in 1..n |-> Scale * g[j]] /\ Q = [j \in 1..n |-> W[j] * W[j]]
      BY <3>1, Zenon DEF w, q
    <3>4. Adding(entries, group, n, p, g, W, Q)
      BY <1>1, <3>1, <3>2, <3>3 DEF Adding
    <3>5. \A i \in 0..n : Accumulated(group[i], W, Q, p, i)
      BY <3>4, MeansAreExact, Zenon
    <3> QED BY <3>1, <3>5
  <2>3. Accumulated(group[n], w, q, p, n)
    BY <2>1, <2>2
  <2> QED BY <2>3 DEF Accumulated
<1> HIDE DEF m, w, v
<1>6. q \in [1..n -> Int]
  BY <1>3
<1>7. FirstOf(w, n) = w /\ FirstOf(q, n) = q /\ Sum(w) \in Int /\ Sum(q) \in Int
  <2>1. \A g \in [1..n -> Int] : FirstOf(g, n) = g /\ Sum(FirstOf(g, n)) \in Int
    <3>1. n \in 0..n
      BY <1>1
    <3> QED BY <1>1, <3>1, SumHeads
  <2> HIDE DEF q
  <2> QED BY <1>3, <1>6, <2>1
<1>8. Sum(r) = Sum(q) - 2 * (m * Sum(w)) + n * (m * m)
  BY <1>1, <1>3, <1>5, SumOfSquares
<1>9. group[n].squared[p] = Sum(r)
  <2> DEFINE a == Sum(q)
             b == n * (m * m)
  <2>1. m * Sum(w) = b
    BY <1>1, <1>5, <1>7
  <2>2. group[n].squared[p] = a - b /\ Sum(r) = a - 2 * b + b /\ a \in Int /\ b \in Int
    <3>1. m * m \in Int
      BY <1>5
    <3> QED BY <1>1, <1>5, <1>7, <1>8, <2>1, <3>1
  <2> HIDE DEF a, b, r
  <2> QED BY <2>2
<1>a. \A g \in [S -> Int] : Sum(g) = Sum([j \in 1..n |-> g[order[j]]])
  BY SumAlong
<1>10. Sum(v) = Sum(w)
  <2>1. Sum(v) = Sum([j \in 1..n |-> v[order[j]]])
    BY <1>2, <1>a
  <2>2. [j \in 1..n |-> v[order[j]]] = w
    BY <1>3
  <2> QED BY <2>1, <2>2
<1>11. Sum(e) = Sum(r)
  <2>1. e \in [S -> Int]
    BY <1>2, <1>5
  <2>2. \A j \in 1..n : e[order[j]] = (w[j] - m) * (w[j] - m)
    BY <1>1, <1>3
  <2> HIDE DEF e
  <2>3. Sum(e) = Sum([j \in 1..n |-> e[order[j]]])
    BY <2>1, <1>a
  <2>4. [j \in 1..n |-> e[order[j]]] = r
    BY <2>2
  <2> QED BY <2>3, <2>4
<1>12. n * m = Sum(v) /\ group[n].squared[p] = Sum(e)
  BY <1>5, <1>7, <1>9, <1>10, <1>11
<1> QED BY <1>12, Zenon DEF m, v

-----------------------------------------------------------------------------
(* Observations are numbers *)

\* A draw is a number.
LEMMA DrawIsNumber ==
  ASSUME NEW stream, NEW at
  PROVE  Draw(stream, at) \in Nat
<1>1. PICK S \in SUBSET (1..2) : Draw(stream, at) = Cardinality(S)
  BY Zenon DEF Draw
<1>2. IsFiniteSet(1..2)
  <2>1. 1 \in Int /\ 2 \in Int
    OBVIOUS
  <2> QED BY <2>1, FS_Interval
<1> QED BY <1>1, <1>2, FS_Subset, FS_CardinalityType

\* So is what a generator yields.
LEMMA NextIsNumber ==
  ASSUME NEW rng
  PROVE  Next1(rng) \in Int
BY DrawIsNumber DEF Next1

\* The fields that a protocol observes
Fields(science) ==
  IF science["protocol"].type = "online" THEN {"step", "action", "reward"}
  ELSE IF science["protocol"].type = "rl" THEN {"step", "action", "reward", "episode"}
  ELSE {"step", "output"}

-----------------------------------------------------------------------------
(* What bandits observe *)

\* Every step that can be played has its means, as many as the first.
LEMMA MeansAreThere ==
  ASSUME NEW science \in RunIds, science["data"].type \in Bandits, NEW i \in Nat \ {0}, Playable(science, i)
  PROVE  LET instance == CreateInstance(science)
         IN /\ Means(MeansAt(instance, i)) /\ Means(MeansAt(instance, 1))
            /\ DOMAIN MeansAt(instance, i) = DOMAIN MeansAt(instance, 1)
            /\ Stationary(instance) <=> science["data"].type = "stationary_bandit"
            /\ "means" \in DOMAIN instance
            /\ Stationary(instance) => MeansAt(instance, i) = MeansAt(instance, 1)
<1> DEFINE instance == CreateInstance(science)
           params == science["data"].params
<1>1. IsSound(science)
  BY ScienceIsSound
<1>2. CASE science["data"].type = "stationary_bandit"
  <2> DEFINE drawn == [arm \in 1..params["n_arms"] |->
                         Draw(Generator(Stream(science, "instance")).stream, arm - 1)]
  <2>1. instance = [kind |-> "stationary", distribution |-> Distribution(science["data"]),
                    means |-> IF "means" \in DOMAIN params THEN params["means"] ELSE drawn]
    BY <1>2, Zenon DEF CreateInstance
  <2>2. "means" \notin DOMAIN params => Means(drawn)
    <3> SUFFICES ASSUME params["n_arms"] \in Nat \ {0} PROVE Means(drawn)
      BY <1>1, <1>2 DEF IsSound
    <3>1. drawn \in [1..params["n_arms"] -> Int]
      BY DrawIsNumber
    <3> HIDE DEF drawn
    <3>2. drawn \in Seq(Int) /\ 1 \in DOMAIN drawn
      BY <3>1
    <3> QED BY <3>2 DEF Means
  <2>3. "means" \in DOMAIN params => Means(params["means"])
    BY <1>1, <1>2 DEF IsSound
  <2> HIDE DEF drawn, instance
  <2>4. instance.kind = "stationary" /\ Means(instance.means) /\ "means" \in DOMAIN instance
    BY <2>1, <2>2, <2>3
  <2>5. Stationary(instance) /\ \A k : MeansAt(instance, k) = instance.means
    BY <2>4 DEF Stationary, MeansAt
  <2> QED BY <1>2, <2>4, <2>5 DEF instance
<1>3. CASE science["data"].type = "nonstationary_bandit"
  <2> DEFINE schedule == params["schedule"]
  <2>1. instance = [kind |-> "nonstationary", distribution |-> Distribution(science["data"]), means |-> schedule]
    BY <1>3, Zenon DEF CreateInstance
  <2>2. /\ schedule \in Seq(Seq(Int)) /\ schedule # <<>>
        /\ \A k \in DOMAIN schedule : Means(schedule[k]) /\ Len(schedule[k]) = Len(schedule[1])
    BY <1>1, <1>3 DEF IsSound
  <2>3. i <= Len(schedule)
    BY <1>3 DEF Playable
  <2> HIDE DEF schedule, instance
  <2>4. i \in DOMAIN schedule /\ 1 \in DOMAIN schedule
    BY <2>2, <2>3
  <2>5. /\ Means(schedule[i]) /\ Means(schedule[1]) /\ DOMAIN schedule[i] = DOMAIN schedule[1]
    BY <2>2, <2>4 DEF Means
  <2>6. ~Stationary(instance) /\ \A k : MeansAt(instance, k) = schedule[k]
    BY <2>1 DEF Stationary, MeansAt
  <2> QED BY <1>3, <2>1, <2>5, <2>6 DEF instance
<1> QED BY <1>2, <1>3 DEF Bandits

\* The algorithm starts with a draw.
LEMMA ConstructDraws ==
  ASSUME NEW spec, NEW instance
  PROVE  /\ Construct(spec, instance).algorithm \in Int
         /\ spec["protocol"].type = "rl" =>
              Construct(spec, instance).protocol =
                [step |-> 0, observation |-> None, episode |-> 0, needs_reset |-> TRUE]
<1> DEFINE run == Construct(spec, instance)
<1>1. \E b, d, e, g : run = [instance |-> instance, algorithm |-> Next1(g), data |-> b,
         protocol |-> IF spec["protocol"].type = "rl"
                    THEN [step |-> 0, observation |-> None, episode |-> 0, needs_reset |-> TRUE]
                    ELSE [step |-> 0], rngs |-> d, row |-> e]
  BY Zenon DEF Construct
<1> HIDE DEF run
<1> QED BY <1>1, NextIsNumber DEF run

\* A step of the online protocol observes an arm that exists and numbers.
LEMMA OnlineIsNumber ==
  ASSUME NEW spec, NEW run, IsRun(run), run.algorithm \in Int, Means(CurrentMeans(spec, run))
  PROVE  LET after == Online(spec, run)
         IN /\ after.algorithm \in Int /\ after.row \in [{"step", "action", "reward"} -> Int]
            /\ after.row.action + 1 \in DOMAIN CurrentMeans(spec, run)
<1> DEFINE after == Online(spec, run)
           means == CurrentMeans(spec, run)
           drawn == Next1(run.rngs["algorithm"])
<1>1. /\ after.row.step = run.protocol.step + 1
      /\ after.row.reward = Reward(run.instance, Played(spec, run, after), Next1(run.rngs["data"]))
      /\ Records(after.row, {"step", "action", "reward"})
      /\ after.row.action = (run.algorithm + drawn) % Len(means)
      /\ after.algorithm = (run.algorithm + after.row.reward) % 3
  BY OnlineStep DEF Learns
<1> HIDE DEF after
<1>2. after.row.action \in Int /\ after.row.action + 1 \in DOMAIN means
  <2>1. means \in Seq(Int) /\ means # <<>>
    BY DEF Means
  <2>2. Len(means) \in Nat \ {0} /\ DOMAIN means = 1..Len(means)
    BY <2>1
  <2>3. run.algorithm + drawn \in Int
    BY NextIsNumber
  <2> HIDE DEF means, drawn
  <2>4. after.row.action \in 0..(Len(means) - 1)
    BY <1>1, <2>2, <2>3
  <2> QED BY <2>2, <2>4
<1>3. after.row.reward \in Int
  <2>1. Played(spec, run, after) \in Int
    BY <1>2 DEF Means, Played
  <2> QED BY <1>1, <2>1, NextIsNumber DEF Reward
<1>4. after.algorithm \in Int
  BY <1>1, <1>3
<1>5. after.row.step \in Int
  BY <1>1 DEF IsRun
<1>6. after.row \in [{"step", "action", "reward"} -> Int]
  BY <1>1, <1>2, <1>3, <1>5 DEF Records
<1> QED BY <1>2, <1>4, <1>6 DEF after

-----------------------------------------------------------------------------
(* Environments *)

\* An episode is under way.
ProtocolFields == {"step", "observation", "episode", "needs_reset"}
Underway(run) ==
  /\ IsRun(run) /\ run.algorithm \in Int
  /\ ProtocolFields \subseteq DOMAIN run.protocol
  /\ run.protocol.observation \in Int /\ run.protocol.episode \in Int
  /\ run.data.environment.x \in Int

\* After a reset the environment answers.
LEMMA ResetIsUnderway ==
  ASSUME NEW run, IsRun(run), run.algorithm \in Int, ProtocolFields \subseteq DOMAIN run.protocol,
         run.protocol.episode \in Int
  PROVE  Underway(Reset(run))
<1> DEFINE after == Reset(run)
<1>1. PICK g, h : after =
        [run EXCEPT !.data = [environment |-> [x |-> Next1(g) % 2, rng |-> h],
                              initialized |-> TRUE, needs_reset |-> FALSE],
                    !.protocol.observation = Next1(g) % 2, !.protocol.needs_reset = FALSE]
  BY Zenon DEF Reset
<1> DEFINE o == Next1(g) % 2
<1>2. o \in Int
  BY NextIsNumber
<1> HIDE DEF o, after
<1>3. after = [run EXCEPT !.data = [environment |-> [x |-> o, rng |-> h],
                                    initialized |-> TRUE, needs_reset |-> FALSE],
                          !.protocol.observation = o, !.protocol.needs_reset = FALSE]
  BY <1>1, Zenon DEF o
<1>4. after.algorithm = run.algorithm
  BY <1>3 DEF IsRun, RunFields
<1>5. after.data = [environment |-> [x |-> o, rng |-> h], initialized |-> TRUE, needs_reset |-> FALSE]
  BY <1>3 DEF IsRun, RunFields
<1>6. after.data.environment.x = o
  BY <1>5
<1>7. after.protocol = [[run.protocol EXCEPT !.observation = o] EXCEPT !.needs_reset = FALSE]
  BY <1>3 DEF IsRun, RunFields
<1>8. /\ DOMAIN after.protocol = DOMAIN run.protocol /\ after.protocol.observation = o
      /\ after.protocol.episode = run.protocol.episode
  BY <1>7 DEF ProtocolFields
<1>9. IsRun(after)
  BY ResetIsRun DEF after
<1> QED BY <1>2, <1>4, <1>6, <1>8, <1>9 DEF Underway, after

\* A step of the episodic protocol observes numbers, and the environment goes on answering.
LEMMA RLIsNumber ==
  ASSUME NEW run, Underway(run)
  PROVE  Underway(RL(run)) /\ RL(run).row \in [{"step", "action", "reward", "episode"} -> Int]
<1> DEFINE again == [Reset(run) EXCEPT !.protocol.episode = @ + 1]
           before == IF run.protocol.needs_reset THEN again ELSE run
           after == RL(run)
<1>2. Underway(again)
  <2> DEFINE r == Reset(run)
             next == [r EXCEPT !.protocol.episode = @ + 1]
  <2>1. Underway(r)
    BY ResetIsUnderway DEF Underway
  <2> HIDE DEF r
  <2>2. IsRun(r) /\ ProtocolFields \subseteq DOMAIN r.protocol
    BY <2>1 DEF Underway
  <2>3. /\ DOMAIN next = RunFields /\ next = [f \in RunFields |-> next[f]]
        /\ next.algorithm = r.algorithm /\ next.data = r.data
        /\ next.protocol = [r.protocol EXCEPT !.episode = @ + 1]
    BY <2>2 DEF IsRun, RunFields
  <2> HIDE DEF next
  <2>4. /\ DOMAIN next.protocol = DOMAIN r.protocol /\ next.protocol.step = r.protocol.step
        /\ next.protocol.observation = r.protocol.observation
        /\ next.protocol.episode = r.protocol.episode + 1
    BY <2>2, <2>3 DEF ProtocolFields
  <2>5. IsRun(next)
    BY <2>2, <2>3, <2>4 DEF IsRun
  <2>6. Underway(next)
    BY <2>1, <2>3, <2>4, <2>5 DEF Underway
  <2> QED BY <2>6 DEF next, r
<1> HIDE DEF again
<1>3. Underway(before)
  BY <1>2
<1> DEFINE environment == before.data.environment
           action == (before.algorithm + Next1(before.rngs["algorithm"]) + before.protocol.observation) % 2
           x == environment.x + IF action = Next1(environment.rng) % 2 THEN 1 ELSE 0
           over == x >= 2
           row == [step |-> before.protocol.step + 1, action |-> action, reward |-> action + x,
                   episode |-> before.protocol.episode]
           rng == [environment.rng EXCEPT !.at = @ + 1]
           data == [environment |-> [x |-> x, rng |-> rng], initialized |-> TRUE, needs_reset |-> over]
<1>4. after = [before EXCEPT
       !.algorithm = (@ + action + x) % 3,
       !.data = [environment |-> [x |-> x, rng |-> [environment.rng EXCEPT !.at = @ + 1]],
                 initialized |-> TRUE, needs_reset |-> over],
       !.protocol = [step |-> @.step + 1, observation |-> x, episode |-> @.episode, needs_reset |-> over],
       !.rngs["algorithm"].at = @ + 1,
       !.row = row]
  BY Zenon DEF RL, again
<1> HIDE DEF before
<1>6. before.protocol.observation \in Int /\ before.protocol.episode \in Int
  BY <1>3 DEF Underway
<1>7. before.algorithm \in Int /\ environment.x \in Int /\ IsRun(before) /\ before.protocol.step \in Int
  BY <1>3 DEF Underway, IsRun
<1>8. action \in Int
  BY <1>6, <1>7, NextIsNumber
<1>9. x \in Int
  <2> HIDE DEF action
  <2> QED BY <1>7
<1> HIDE DEF action, x, environment, over, rng
<1>11. row \in [{"step", "action", "reward", "episode"} -> Int]
  BY <1>6, <1>7, <1>8, <1>9
<1>12. data.environment.x = x
  OBVIOUS
<1> HIDE DEF row, after
<1>13. /\ after.row = row /\ after.algorithm = (before.algorithm + action + x) % 3 /\ after.data = data
       /\ after.protocol = [step |-> before.protocol.step + 1, observation |-> x,
                            episode |-> before.protocol.episode, needs_reset |-> over]
  BY <1>4, <1>7 DEF IsRun, RunFields, rng
<1> HIDE DEF data
<1>14. /\ ProtocolFields \subseteq DOMAIN after.protocol /\ after.protocol.observation \in Int
       /\ after.protocol.episode \in Int
  BY <1>6, <1>9, <1>13 DEF ProtocolFields
<1>15. IsRun(after)
  BY RLStep DEF Follows, after, Underway
<1>16. after.algorithm \in Int
  BY <1>7, <1>8, <1>9, <1>13
<1>17. Underway(after)
  BY <1>9, <1>12, <1>13, <1>14, <1>15, <1>16 DEF Underway
<1> QED BY <1>11, <1>13, <1>17 DEF after

\* The step of the offline protocol observes numbers.
LEMMA OfflineIsNumber ==
  ASSUME NEW run, IsRun(run), run.algorithm \in Int
  PROVE  Offline(run).algorithm \in Int /\ Offline(run).row \in [{"step", "output"} -> Int]
<1> DEFINE after == Offline(run)
           row == [step |-> 1, output |-> run.algorithm + Next1(run.rngs["data"])]
<1>1. after = [run EXCEPT !.protocol.step = @ + 1, !.rngs["data"].at = @ + 1, !.row = row]
  BY Zenon DEF Offline
<1>2. row \in [{"step", "output"} -> Int]
  BY NextIsNumber
<1> HIDE DEF after, row
<1>3. after.row = row /\ after.algorithm = run.algorithm
  BY <1>1 DEF IsRun, RunFields
<1> QED BY <1>2, <1>3 DEF after

-----------------------------------------------------------------------------
(* Lives in numbers *)

\* What a life observes at a step
IsObserved(science, i) ==
  LET row == Life[science][i].row
  IN /\ row \in [Fields(science) -> Int]
     /\ science["data"].type \in Bandits => row.action + 1 \in DOMAIN MeansAt(CreateInstance(science), i)

\* The means of the next step are those the data has at hand.
LEMMA NextMeans ==
  ASSUME NEW science \in RunIds, science["data"].type \in Bandits, NEW i \in Nat, Playable(science, i + 1)
  PROVE  /\ CurrentMeans(science, Life[science][i]) = MeansAt(CreateInstance(science), i + 1)
         /\ Means(CurrentMeans(science, Life[science][i]))
<1> DEFINE run == Life[science][i]
           instance == CreateInstance(science)
<1>1. run.data.step = i /\ run.instance = instance
  BY BanditsCountSteps, LifeCountsSteps
<1>2. i + 1 \in Nat \ {0}
  OBVIOUS
<1>3. /\ Means(MeansAt(instance, i + 1))
      /\ Stationary(instance) <=> science["data"].type = "stationary_bandit"
  BY <1>2, MeansAreThere
<1> HIDE DEF run, instance
<1>4. CurrentMeans(science, run) = MeansAt(instance, i + 1)
  BY <1>1, <1>3 DEF CurrentMeans, MeansAt, Bandits
<1> QED BY <1>3, <1>4 DEF run, instance

\* The first state, and that after every step, of the life of a science
LEMMA LifeBegins ==
  ASSUME NEW science \in RunIds
  PROVE  /\ Life[science][0].algorithm \in Int
         /\ science["protocol"].type = "rl" => Underway(Life[science][0])
<1> DEFINE run == Construct(science, CreateInstance(science))
<1>1. /\ IsRun(run) /\ run.algorithm \in Int
      /\ science["protocol"].type = "rl" =>
           run.protocol = [step |-> 0, observation |-> None, episode |-> 0, needs_reset |-> TRUE]
  BY ConstructIsRun, ConstructDraws
<1>2. Life[science][0] = Initialize(science, run)
  BY LifeUnfolds
<1> HIDE DEF run
<1>3. CASE science["protocol"].type = "rl"
  <2>1. ProtocolFields \subseteq DOMAIN run.protocol /\ run.protocol.episode \in Int
    BY <1>1, <1>3 DEF ProtocolFields
  <2>2. Underway(Reset(run))
    BY <1>1, <2>1, ResetIsUnderway
  <2> QED BY <1>2, <1>3, <2>2 DEF Initialize, Underway
<1>4. CASE science["protocol"].type # "rl"
  BY <1>1, <1>2, <1>4 DEF Initialize
<1> QED BY <1>3, <1>4

\* After a step that can be played they still do, and the observation is of numbers.
LEMMA LifeGoesOn ==
  ASSUME NEW science \in RunIds, NEW i \in Nat, Playable(science, i + 1),
         Life[science][i].algorithm \in Int,
         science["protocol"].type = "rl" => Underway(Life[science][i])
  PROVE  /\ Life[science][i + 1].algorithm \in Int
         /\ science["protocol"].type = "rl" => Underway(Life[science][i + 1])
         /\ IsObserved(science, i + 1)
<1> DEFINE run == Life[science][i]
           after == Life[science][i + 1]
<1>1. IsRun(run) /\ after = Step(science, run)
  BY LifeCountsSteps, LifeUnfolds
<1>2. IsSound(science)
  BY ScienceIsSound
<1>3. CASE science["protocol"].type = "online"
  <2>1. science["data"].type \in Bandits
    BY <1>2, <1>3 DEF IsSound
  <2>2. /\ CurrentMeans(science, run) = MeansAt(CreateInstance(science), i + 1)
        /\ Means(CurrentMeans(science, run))
    BY <2>1, NextMeans
  <2>3. after = Online(science, run)
    BY <1>1, <1>3, Zenon DEF Step
  <2> HIDE DEF run
  <2>4. /\ Online(science, run).algorithm \in Int
        /\ Online(science, run).row \in [{"step", "action", "reward"} -> Int]
        /\ Online(science, run).row.action + 1 \in DOMAIN CurrentMeans(science, run)
    BY <1>1, <2>2, OnlineIsNumber DEF run
  <2> QED BY <1>3, <2>2, <2>3, <2>4 DEF IsObserved, Fields
<1>4. CASE science["protocol"].type # "online"
  <2>1. science["data"].type \notin Bandits
    BY <1>4, BanditsAreOnline
  <2>2. CASE science["protocol"].type = "rl"
    <3>1. after = RL(run)
      BY <1>1, <2>2 DEF Step
    <3>2. Underway(RL(run)) /\ RL(run).row \in [{"step", "action", "reward", "episode"} -> Int]
      BY <2>2, RLIsNumber
    <3> QED BY <2>1, <2>2, <3>1, <3>2 DEF IsObserved, Fields, Underway
  <2>3. CASE science["protocol"].type # "rl"
    <3>1. after = Offline(run)
      BY <1>1, <1>4, <2>3 DEF Step
    <3>2. Offline(run).algorithm \in Int /\ Offline(run).row \in [{"step", "output"} -> Int]
      BY <1>1, OfflineIsNumber
    <3> QED BY <1>4, <2>1, <2>3, <3>1, <3>2 DEF IsObserved, Fields
  <2> QED BY <2>2, <2>3
<1> QED BY <1>3, <1>4

\* Every step of a life is observed in numbers, of an arm that exists.
LEMMA LifeIsObserved ==
  ASSUME NEW science \in RunIds, NEW i \in Nat \ {0}, Playable(science, i)
  PROVE  IsObserved(science, i)
<1> DEFINE Typed(k) == /\ Life[science][k].algorithm \in Int
                       /\ science["protocol"].type = "rl" => Underway(Life[science][k])
           S == {k \in Nat : k <= i => Typed(k)}
<1>1. 0 \in S
  BY LifeBegins
<1>2. ASSUME NEW k \in Nat, k \in S PROVE k + 1 \in S
  <2> SUFFICES ASSUME k + 1 <= i PROVE Typed(k + 1)
    OBVIOUS
  <2>1. Typed(k) /\ Playable(science, k + 1)
    BY <1>2, PlayedBefore
  <2> QED BY <2>1, LifeGoesOn
<1> HIDE DEF S
<1>3. \A k \in Nat : k \in S
  BY <1>1, <1>2, Induction
<1> DEFINE k == i - 1
<1>4. k \in Nat /\ k <= i /\ k + 1 = i
  OBVIOUS
<1>5. Typed(k)
  BY <1>3, <1>4 DEF S
<1> HIDE DEF k
<1>6. Playable(science, k + 1)
  BY <1>4
<1>7. IsObserved(science, k + 1)
  BY <1>4, <1>5, <1>6, LifeGoesOn
<1> QED BY <1>4, <1>7

-----------------------------------------------------------------------------
(* Pairing *)

\* What an action earns at a step: it depends on the data alone.
Paid(science, step, action) ==
  LET instance == CreateInstance(science)
  IN Reward(instance, MeansAt(instance, step)[action + 1], Draw(Stream(science, "data"), step - 1))

\* Where every arm draws, so does the one that is played.
LEMMA PlayedArmDraws ==
  ASSUME NEW science \in RunIds, science["data"].type \in Bandits, EveryArmDraws(CreateInstance(science)),
         NEW i \in Nat \ {0}, Playable(science, i), NEW arm \in DOMAIN MeansAt(CreateInstance(science), i)
  PROVE  Takes(CreateInstance(science), MeansAt(CreateInstance(science), i)[arm])
<1> DEFINE instance == CreateInstance(science)
           rows == IF Stationary(instance) THEN {instance.means} ELSE Range(instance.means)
<1>1. instance.distribution = "gaussian" \/ \A row \in rows : \A a \in DOMAIN row : row[a] # 0
  BY Zenon DEF EveryArmDraws
<1>2. MeansAt(instance, i) \in rows
  <2>1. CASE Stationary(instance)
    BY <2>1 DEF MeansAt
  <2>2. CASE ~Stationary(instance)
    <3>1. science["data"].type = "nonstationary_bandit"
      BY <2>2, MeansAreThere DEF Bandits
    <3> DEFINE schedule == science["data"].params["schedule"]
    <3>2. schedule \in Seq(Seq(Int)) /\ i <= Len(schedule)
      BY <3>1, ScienceIsSound DEF IsSound, Playable
    <3>3. instance.means = schedule
      BY <3>1, ScheduleIsInstance
    <3> HIDE DEF schedule, instance
    <3>4. i \in DOMAIN instance.means
      BY <3>2, <3>3
    <3> QED BY <2>2, <3>4 DEF MeansAt, Range
  <2> QED BY <2>1, <2>2
<1> HIDE DEF instance, rows
<1>3. instance.distribution = "gaussian" \/ MeansAt(instance, i)[arm] # 0
  BY <1>1, <1>2 DEF instance
<1> QED BY <1>3 DEF Takes, instance

\* A step of a bandit that can be played: what it takes from the data's stream and earns.
LEMMA BanditsStep ==
  ASSUME NEW science \in RunIds, science["data"].type \in Bandits, NEW i \in Nat, Playable(science, i + 1)
  PROVE  LET run == Life[science][i]
             after == Life[science][i + 1]
             instance == CreateInstance(science)
             mean == MeansAt(instance, i + 1)[after.row.action + 1]
         IN /\ after.rngs = [[run.rngs EXCEPT !["algorithm"].at = @ + 1]
                 EXCEPT !["data"].at = IF Takes(instance, mean) THEN run.rngs["data"].at + 1
                                       ELSE run.rngs["data"].at]
            /\ after.row.reward = Reward(instance, mean, Next1(run.rngs["data"]))
            /\ after.row.action + 1 \in DOMAIN MeansAt(instance, i + 1)
<1> DEFINE run == Life[science][i]
           after == Life[science][i + 1]
           instance == CreateInstance(science)
           mean == MeansAt(instance, i + 1)[after.row.action + 1]
<1>1. after = Online(science, run) /\ IsRun(run) /\ run.instance = instance
  BY BanditsAreOnline, LifeUnfolds, LifeCountsSteps DEF Step
<1>2. CurrentMeans(science, run) = MeansAt(instance, i + 1)
  BY NextMeans
<1>3. after.row.action + 1 \in DOMAIN MeansAt(instance, i + 1)
  BY LifeIsObserved DEF IsObserved
<1> HIDE DEF run, after, instance
<1>4. Played(science, run, after) = mean
  BY <1>2 DEF Played
<1>5. /\ after.rngs = [[run.rngs EXCEPT !["algorithm"].at = @ + 1]
            EXCEPT !["data"].at = IF Takes(run.instance, Played(science, run, after))
                                  THEN run.rngs["data"].at + 1 ELSE run.rngs["data"].at]
      /\ after.row.reward = Reward(run.instance, Played(science, run, after), Next1(run.rngs["data"]))
  <2> DEFINE next == Online(science, run)
  <2>1. /\ next.rngs = [[run.rngs EXCEPT !["algorithm"].at = @ + 1]
              EXCEPT !["data"].at = IF Takes(run.instance, Played(science, run, next))
                                    THEN run.rngs["data"].at + 1 ELSE run.rngs["data"].at]
        /\ next.row.reward = Reward(run.instance, Played(science, run, next), Next1(run.rngs["data"]))
    <3>1. IsRun(run)
      BY <1>1
    <3> QED BY ONLY <3>1, OnlineStep
  <2>2. after = next
    BY <1>1
  <2> HIDE DEF next
  <2> QED BY <2>1, <2>2
<1> HIDE DEF mean
<1>6. /\ after.rngs = [[run.rngs EXCEPT !["algorithm"].at = @ + 1]
            EXCEPT !["data"].at = IF Takes(instance, mean) THEN run.rngs["data"].at + 1
                                  ELSE run.rngs["data"].at]
      /\ after.row.reward = Reward(instance, mean, Next1(run.rngs["data"]))
  BY <1>1, <1>4, <1>5, Zenon
<1> QED BY <1>3, <1>6, Zenon DEF run, after, instance, mean

\* Where every arm draws, a bandit has drawn i times from its own stream after i steps: how
\* the algorithm draws, and what it plays, does not shift it.
LEMMA BanditsDrawInOrder ==
  ASSUME NEW science \in RunIds, science["data"].type \in Bandits, EveryArmDraws(CreateInstance(science)),
         NEW i \in Nat, Playable(science, i)
  PROVE  Life[science][i].rngs["data"] = [stream |-> Stream(science, "data"), at |-> i]
<1> DEFINE rngs(n) == Life[science][n].rngs
           Good(n) == /\ {"algorithm", "data"} \subseteq DOMAIN rngs(n)
                      /\ rngs(n)["data"] = [stream |-> Stream(science, "data"), at |-> n]
           S == {n \in Nat : n <= i => Good(n)}
<1>1. 0 \in S
  <2>1. Life[science][0] = Construct(science, CreateInstance(science))
    BY BanditsAreOnline, LifeUnfolds DEF Initialize
  <2> QED BY <2>1, ConstructsBandits
<1>2. ASSUME NEW n \in Nat, n \in S PROVE n + 1 \in S
  <2> SUFFICES ASSUME n + 1 <= i PROVE Good(n + 1)
    OBVIOUS
  <2>1. Good(n) /\ Playable(science, n + 1)
    BY <1>2, PlayedBefore
  <2> DEFINE instance == CreateInstance(science)
             mean == MeansAt(instance, n + 1)[Life[science][n + 1].row.action + 1]
  <2>2. /\ rngs(n + 1) = [[rngs(n) EXCEPT !["algorithm"].at = @ + 1]
              EXCEPT !["data"].at = IF Takes(instance, mean) THEN rngs(n)["data"].at + 1
                                    ELSE rngs(n)["data"].at]
        /\ Life[science][n + 1].row.action + 1 \in DOMAIN MeansAt(instance, n + 1)
    BY <2>1, BanditsStep
  <2>3. Takes(instance, mean)
    BY <2>1, <2>2, PlayedArmDraws
  <2> HIDE DEF rngs, instance, mean
  <2>4. rngs(n + 1) = [[rngs(n) EXCEPT !["algorithm"].at = @ + 1] EXCEPT !["data"].at = rngs(n)["data"].at + 1]
    BY <2>2, <2>3
  <2>5. {"algorithm", "data"} \subseteq DOMAIN rngs(n + 1)
    BY <2>1, <2>4
  <2>6. rngs(n + 1)["data"] = [rngs(n)["data"] EXCEPT !.at = rngs(n)["data"].at + 1]
    BY <2>1, <2>4
  <2>7. rngs(n + 1)["data"] = [stream |-> Stream(science, "data"), at |-> n + 1]
    BY <2>1, <2>6
  <2> QED BY <2>5, <2>7
<1> HIDE DEF S
<1>3. i \in S
  BY <1>1, <1>2, Induction
<1> QED BY <1>3 DEF S

\* Where every arm draws, what a life records as reward depends on the data, the step and
\* the action.
LEMMA BanditsPay ==
  ASSUME NEW science \in RunIds, science["data"].type \in Bandits, EveryArmDraws(CreateInstance(science)),
         NEW i \in Nat \ {0}, Playable(science, i)
  PROVE  LET row == Life[science][i].row IN row.reward = Paid(science, i, row.action)
<1> DEFINE n == i - 1
           run == Life[science][n]
           row == Life[science][n + 1].row
<1>1. n \in Nat /\ n + 1 = i /\ n <= i
  OBVIOUS
<1>2. Playable(science, n)
  BY <1>1, PlayedBefore
<1> HIDE DEF n
<1>3. row.reward
        = Reward(CreateInstance(science), MeansAt(CreateInstance(science), n + 1)[row.action + 1],
                 Next1(run.rngs["data"]))
  BY <1>1, BanditsStep
<1>4. run.rngs["data"] = [stream |-> Stream(science, "data"), at |-> n]
  BY <1>1, <1>2, BanditsDrawInOrder
<1> HIDE DEF run
<1>5. Next1(run.rngs["data"]) = Draw(Stream(science, "data"), i - 1)
  BY <1>4 DEF Next1, n
<1> QED BY <1>1, <1>3, <1>5, Zenon DEF Paid

\* Runs that share data and seed share the science of their data.
LEMMA ExactPairs == EverythingIsExact => DataIsPaired
<1> SUFFICES ASSUME EverythingIsExact, NEW i \in DOMAIN variants, NEW j \in DOMAIN variants,
                    variants[i].spec.group = variants[j].spec.group,
                    variants[i].spec.repetition = variants[j].spec.repetition,
                    variants[i].spec["data"] = variants[j].spec["data"],
                    variants[i].spec.seed = variants[j].spec.seed
             PROVE  LET a == variants[i]
                        b == variants[j]
                        rows(v) == IF v.saved = None THEN {} ELSE Range(FlattenSeq(v.saved.chunks))
                    IN /\ a.instance = b.instance
                       /\ a.spec["data"].type \in Bandits /\ EveryArmDraws(a.instance) =>
                            \A x \in rows(a), y \in rows(b) :
                              x.step = y.step /\ x.action = y.action => x.reward = y.reward
  BY Zenon DEF DataIsPaired
<1> DEFINE a == variants[i]
           b == variants[j]
           rows(v) == IF v.saved = None THEN {} ELSE Range(FlattenSeq(v.saved.chunks))
<1>1. /\ VariantIsExact(i, a) /\ VariantIsExact(j, b)
  BY DEF EverythingIsExact
<1>2. /\ i.science \in RunIds /\ j.science \in RunIds
      /\ a.instance = CreateInstance(i.science) /\ b.instance = CreateInstance(j.science)
      /\ a.spec \in Specs /\ b.spec \in Specs /\ RunId(a.spec) = i.science /\ RunId(b.spec) = j.science
  BY <1>1 DEF VariantIsExact
<1>3. /\ i.science["data"] = j.science["data"] /\ i.science["data"] = a.spec["data"]
      /\ i.science.group = j.science.group /\ i.science.repetition = j.science.repetition
      /\ i.science.seed = j.science.seed
  BY <1>2, RunIdIsTheRun DEF SpecFields
<1>4. ASSUME NEW stream \in {"data", "instance"} PROVE Stream(i.science, stream) = Stream(j.science, stream)
  <2> DEFINE Of(s) == [root |-> IF s["data"].seed = None THEN s.seed ELSE s["data"].seed,
                       stream |-> stream, group |-> s.group, repetition |-> s.repetition,
                       components |-> [p \in {"data"} |-> <<s[p].type, s[p].params>>]]
  <2>1. Stream(i.science, stream) = Of(i.science) /\ Stream(j.science, stream) = Of(j.science)
    BY DEF Stream
  <2>2. [p \in {"data"} |-> <<i.science[p].type, i.science[p].params>>]
          = [p \in {"data"} |-> <<j.science[p].type, j.science[p].params>>]
    BY <1>3
  <2>3. Of(i.science) = Of(j.science)
    BY <1>3, <2>2
  <2> HIDE DEF Of
  <2> QED BY <2>1, <2>3
<1>5. CreateInstance(i.science) = CreateInstance(j.science)
  <2>1. Stream(i.science, "instance") = Stream(j.science, "instance")
    BY <1>4
  <2> QED BY <1>3, <2>1, Zenon DEF CreateInstance
<1>6. ASSUME a.spec["data"].type \in Bandits, EveryArmDraws(a.instance), NEW x \in rows(a), NEW y \in rows(b),
             x.step = y.step, x.action = y.action
      PROVE  x.reward = y.reward
  <2>1. /\ i.science["data"].type \in Bandits /\ j.science["data"].type \in Bandits
        /\ EveryArmDraws(CreateInstance(i.science)) /\ EveryArmDraws(CreateInstance(j.science))
    BY <1>2, <1>3, <1>5, <1>6
  <2>2. ASSUME NEW id, NEW v, VariantIsExact(id, v), id.science["data"].type \in Bandits,
               EveryArmDraws(CreateInstance(id.science)), NEW r \in rows(v)
        PROVE  r.step \in Nat \ {0} /\ r.reward = Paid(id.science, r.step, r.action)
    <3>1. v.saved # None /\ r \in Range(FlattenSeq(v.saved.chunks))
      BY <2>2
    <3>2. PICK step : step \in Nat /\ Playable(id.science, step) /\ FlattenSeq(v.saved.chunks) = Seen(id)[step]
      BY <2>2, <3>1 DEF VariantIsExact, SavedIsExact, Within, Holds
    <3>3. id.science \in RunIds
      BY <2>2 DEF VariantIsExact
    <3>4. Numbered(id.science, step)
      BY <2>2, <3>3, BanditsAreOnline DEF Numbered, Steps
    <3>5. /\ Seen(id)[step] \in Seq(Rows(id.science))
          /\ \A k \in 1..Len(Seen(id)[step]) :
               LET row == Seen(id)[step][k]
               IN row.step \in 1..step /\ row = Life[id.science][row.step].row
      BY <3>2, <3>3, <3>4, SeenIsOrdered
    <3>6. PICK k \in 1..Len(Seen(id)[step]) : r = Seen(id)[step][k]
      BY <3>1, <3>2, <3>5 DEF Range
    <3>7. r.step \in Nat \ {0} /\ r = Life[id.science][r.step].row
      BY <3>2, <3>5, <3>6
    <3>9. Playable(id.science, r.step)
      BY <3>2, <3>3, <3>5, <3>6, PlayedBefore
    <3>8. Life[id.science][r.step].row.reward
            = Paid(id.science, r.step, Life[id.science][r.step].row.action)
      BY <2>2, <3>3, <3>7, <3>9, BanditsPay
    <3> QED BY <3>7, <3>8
  <2>3. x.reward = Paid(i.science, x.step, x.action) /\ y.reward = Paid(j.science, y.step, y.action)
    BY <1>1, <1>6, <2>1, <2>2
  <2>4. Stream(i.science, "data") = Stream(j.science, "data")
    BY <1>4
  <2>5. Paid(i.science, x.step, x.action) = Paid(j.science, x.step, x.action)
    BY <1>5, <2>4 DEF Paid
  <2> QED BY <1>6, <2>3, <2>5
<1> QED BY <1>2, <1>5, <1>6

\* Algorithms are compared on the same data: the same instance, and the same reward for the
\* same action at the same step, if every arm of the bandit draws (rng.py: paired data across
\* algorithms).
THEOREM Pairing == Spec => []DataIsPaired
<1>1. EverythingIsExact => DataIsPaired
  BY ExactPairs
<1> QED BY <1>1, Exactness, PTL

-----------------------------------------------------------------------------
(* Metrics *)

\* Observations of a life, up to a step that it can be played to
Observes(science, rows, n) ==
  /\ science \in RunIds /\ n \in Nat \ {0} /\ Playable(science, n)
  /\ rows = [k \in 1..Len(rows) |-> rows[k]] /\ Len(rows) \in Nat
  /\ \A k \in 1..Len(rows) : rows[k].step \in 1..n /\ rows[k] = Life[science][rows[k].step].row
EveryStep(rows, n) == Len(rows) = n /\ \A k \in 1..n : rows[k].step = k
AResult(science, rows, n) == [rows |-> rows, steps |-> n, instance |-> CreateInstance(science)]

\* The observations of a result are rows of numbers.
LEMMA ObservedInNumbers ==
  ASSUME NEW science, NEW rows, NEW n, Observes(science, rows, n), NEW k \in 1..Len(rows)
  PROVE  rows[k] \in [Fields(science) -> Int] /\ rows[k].step \in 1..n
<1>1. rows[k].step \in 1..n /\ rows[k] = Life[science][rows[k].step].row
  BY DEF Observes
<1>2. rows[k].step \in Nat \ {0} /\ Playable(science, rows[k].step)
  BY <1>1, PlayedBefore DEF Observes
<1>3. IsObserved(science, rows[k].step)
  BY <1>2, LifeIsObserved DEF Observes
<1> QED BY <1>1, <1>3 DEF IsObserved

\* The metric of a field has its value.
LEMMA FieldIsTrue ==
  ASSUME NEW science, NEW rows, NEW n, Observes(science, rows, n), NEW metric, metric.type = "field",
         NEW k \in 1..Len(rows), metric.field \in Fields(science)
  PROVE  LET value == TrueValue(metric, Life[science], rows[k].step)
         IN value \in Int /\ Compute(metric, AResult(science, rows, n)).values[k] = value
<1>1. rows[k] \in [Fields(science) -> Int] /\ rows[k] = Life[science][rows[k].step].row
  BY ObservedInNumbers DEF Observes
<1>2. TrueValue(metric, Life[science], rows[k].step) = rows[k][metric.field]
  BY <1>1 DEF TrueValue
<1>3. DOMAIN rows = 1..Len(rows)
  BY DEF Observes
<1>4. Compute(metric, AResult(science, rows, n)).values = [i \in DOMAIN rows |-> rows[i][metric.field]]
  BY DEF Compute, Column, AResult
<1> QED BY <1>1, <1>2, <1>3, <1>4

\* A cumulative sum is the sum over all steps of the life.
LEMMA TotalIsTrue ==
  ASSUME NEW science, NEW rows, NEW n, Observes(science, rows, n), EveryStep(rows, n),
         NEW metric, metric.type = "cumulative_sum",
         NEW k \in 1..Len(rows), metric.field \in Fields(science)
  PROVE  LET value == TrueValue(metric, Life[science], rows[k].step)
         IN value \in Int /\ Compute(metric, AResult(science, rows, n)).values[k] = value
<1> DEFINE f == metric.field
           v == [i \in 1..n |-> Life[science][i].row[f]]
<1>1. n \in Nat /\ Len(rows) = n /\ rows[k].step = k /\ k \in 1..n /\ k \in 0..n
  BY DEF Observes, EveryStep
<1>2. \A i \in 1..n : rows[i] = Life[science][i].row /\ rows[i][f] \in Int
  BY ObservedInNumbers DEF Observes, EveryStep
<1>3. v \in [1..n -> Int]
  BY <1>2
<1>4. Compute(metric, AResult(science, rows, n)).values = Running([i \in DOMAIN rows |-> rows[i][f]])
  BY DEF Compute, Column, AResult
<1>5. [i \in DOMAIN rows |-> rows[i][f]] = v
  <2>1. DOMAIN rows = 1..n
    BY <1>1 DEF Observes
  <2> QED BY <1>2, <2>1
<1>6. TrueValue(metric, Life[science], k) = Sum([i \in 1..k |-> Life[science][i].row[f]])
  BY DEF TrueValue
<1>7. [i \in 1..k |-> Life[science][i].row[f]] = FirstOf(v, k)
  BY <1>1 DEF FirstOf
<1> HIDE DEF v
<1>8. Running(v) = [i \in 1..n |-> Sum(FirstOf(v, i))]
  BY <1>1, <1>3, RunningIsSum
<1>9. Sum(FirstOf(v, k)) \in Int
  BY <1>1, <1>3, SumHeads
<1> QED BY <1>1, <1>4, <1>5, <1>6, <1>7, <1>8, <1>9

-----------------------------------------------------------------------------
(* Regret *)

\* What an arm would have earned more than the action at a step
Gap(science, i, arm) ==
  LET means == MeansAt(CreateInstance(science), i)
  IN means[arm] - means[Life[science][i].row.action + 1]
BestAt(science, i) == Best(MeansAt(CreateInstance(science), i))

\* The gaps between arms are numbers, and none is larger than that of the best arm.
LEMMA GapsAreNumbers ==
  ASSUME NEW science, NEW rows, NEW n, Observes(science, rows, n), science["data"].type \in Bandits,
         NEW i \in 1..n
  PROVE  LET means == MeansAt(CreateInstance(science), i)
             arms == DOMAIN MeansAt(CreateInstance(science), 1)
         IN /\ Means(means) /\ DOMAIN means = arms
            /\ Life[science][i].row.action + 1 \in arms
            /\ BestAt(science, i) \in arms
            /\ \A arm \in arms : /\ Gap(science, i, arm) \in Int
                                /\ Gap(science, i, arm) <= Gap(science, i, BestAt(science, i))
            /\ Highest(Range(means)) - means[Life[science][i].row.action + 1] = Gap(science, i, BestAt(science, i))
<1> DEFINE means == MeansAt(CreateInstance(science), i)
           arms == DOMAIN MeansAt(CreateInstance(science), 1)
           action == Life[science][i].row.action
<1>1. i \in Nat \ {0} /\ Playable(science, i) /\ science \in RunIds
  BY PlayedBefore DEF Observes
<1>2. Means(means) /\ DOMAIN means = arms
  BY <1>1, MeansAreThere
<1>3. action + 1 \in DOMAIN means
  BY <1>1, LifeIsObserved DEF IsObserved
<1>4. /\ BestAt(science, i) \in DOMAIN means
      /\ \A arm \in DOMAIN means : means[BestAt(science, i)] >= means[arm]
      /\ Highest(Range(means)) = means[BestAt(science, i)]
  BY <1>2, BestIsHighest DEF BestAt
<1>5. \A arm \in DOMAIN means : means[arm] \in Int
  BY <1>2 DEF Means
<1>6. \A arm : Gap(science, i, arm) = means[arm] - means[action + 1]
  BY DEF Gap
<1> HIDE DEF means, arms, action
<1>7. \A arm \in arms : Gap(science, i, arm) \in Int /\ Gap(science, i, arm) <= Gap(science, i, BestAt(science, i))
  BY <1>2, <1>3, <1>4, <1>5, <1>6
<1>8. Highest(Range(means)) - means[action + 1] = Gap(science, i, BestAt(science, i))
  BY <1>4, <1>6
<1> QED BY <1>2, <1>3, <1>4, <1>7, <1>8 DEF means, arms, action

Arms(science) == DOMAIN MeansAt(CreateInstance(science), 1)
\* What these arms would have earned more than the actions of the first k steps
Ahead(science, k, arm) == Sum([i \in 1..k |-> Gap(science, i, arm[i])])

\* What a life lags behind, in terms of the gaps.
LEMMA LagIsAhead ==
  ASSUME NEW science \in RunIds, NEW k, NEW arm
  PROVE  Lag(Life[science], k, arm) = Ahead(science, k, arm)
<1>1. Life[science][0].instance = CreateInstance(science)
  BY LifeCountsSteps
<1> DEFINE instance == CreateInstance(science)
           life == Life[science]
           L == [i \in 1..k |-> MeansAt(life[0].instance, i)[arm[i]]
                                  - MeansAt(life[0].instance, i)[life[i].row.action + 1]]
<1>2. Lag(life, k, arm) = Sum(L)
  BY DEF Lag
<1>3. L = [i \in 1..k |-> Gap(science, i, arm[i])]
  BY <1>1 DEF Gap
<1> QED BY <1>2, <1>3 DEF Ahead

\* The gaps of one choice of arms, added up from the first step
LEMMA AheadIsRunning ==
  ASSUME NEW science, NEW rows, NEW n, Observes(science, rows, n), science["data"].type \in Bandits,
         NEW arm, \A i \in 1..n : arm[i] \in Arms(science),
         NEW g, g = [i \in 1..n |-> Gap(science, i, arm[i])],
         NEW k \in 1..n
  PROVE  Running(g)[k] = Ahead(science, k, arm) /\ Ahead(science, k, arm) \in Int
<1>1. n \in Nat /\ k \in 0..n
  BY DEF Observes
<1>2. g \in [1..n -> Int]
  BY GapsAreNumbers DEF Arms
<1>3. FirstOf(g, k) = [i \in 1..k |-> Gap(science, i, arm[i])]
  BY <1>1 DEF FirstOf
<1>4. Running(g) = [i \in 1..n |-> Sum(FirstOf(g, i))]
  BY <1>1, <1>2, RunningIsSum
<1>5. Sum(FirstOf(g, k)) \in Int
  BY <1>1, <1>2, SumHeads
<1> QED BY <1>3, <1>4, <1>5 DEF Ahead

\* What is gained with one arm throughout
Throughout(k, arm) == [i \in 1..k |-> arm]
OneArm(science, k) == {Ahead(science, k, Throughout(k, arm)) : arm \in Arms(science)}
BestArms(science, k) == [i \in 1..k |-> BestAt(science, i)]

\* Among the arms played throughout one is the best.
LEMMA OneArmIsHighest ==
  ASSUME NEW science, NEW rows, NEW n, Observes(science, rows, n), science["data"].type \in Bandits,
         NEW k \in 1..n
  PROVE  /\ IsFiniteSet(OneArm(science, k)) /\ OneArm(science, k) \subseteq Int /\ OneArm(science, k) # {}
         /\ Highest(OneArm(science, k)) \in Int
<1> DEFINE arms == Arms(science)
           means == MeansAt(CreateInstance(science), 1)
           f == [arm \in arms |-> Ahead(science, k, Throughout(k, arm))]
<1>1. n \in Nat /\ 1 \in 1..n /\ k \in Nat
  BY DEF Observes
<1>2. Means(means)
  BY <1>1, GapsAreNumbers
<1>3. arms = 1..Len(means) /\ Len(means) \in Nat \ {0}
  BY <1>2 DEF Means, Arms
<1>4. \A arm \in arms : Ahead(science, k, Throughout(k, arm)) \in Int
  <2> SUFFICES ASSUME NEW arm \in arms PROVE Ahead(science, k, Throughout(k, arm)) \in Int
    OBVIOUS
  <2> DEFINE always == Throughout(n, arm)
  <2>1. \A i \in 1..n : always[i] \in Arms(science)
    BY DEF Throughout
  <2> HIDE DEF always
  <2>2. Ahead(science, k, always) \in Int
    BY <2>1, AheadIsRunning
  <2>3. Ahead(science, k, always) = Ahead(science, k, Throughout(k, arm))
    BY <1>1 DEF Ahead, always, Throughout
  <2> QED BY <2>2, <2>3
<1>5. Range(f) = OneArm(science, k)
  BY DEF Range, OneArm
<1> HIDE DEF f
<1>6. f = [arm \in 1..Len(means) |-> f[arm]]
  BY <1>3 DEF f
<1>7. IsFiniteSet(Range(f))
  <2> HIDE DEF means, arms
  <2> QED BY <1>3, <1>6, ImageIsFinite
<1>8. OneArm(science, k) \subseteq Int /\ OneArm(science, k) # {}
  <2>1. 1 \in arms
    <3> HIDE DEF arms, means
    <3> QED BY <1>3
  <2>2. Ahead(science, k, Throughout(k, 1)) \in OneArm(science, k)
    BY <2>1 DEF OneArm
  <2> QED BY <1>4, <2>2 DEF OneArm
<1>9. IsFiniteSet(OneArm(science, k))
  BY <1>5, <1>7
<1>10. Highest(OneArm(science, k)) \in OneArm(science, k)
  BY <1>8, <1>9, HighestIsGreatest
<1> QED BY <1>8, <1>9, <1>10

\* Where the means do not change, the best arm of a step is the best arm throughout.
LEMMA BestThroughout ==
  ASSUME NEW science, NEW rows, NEW n, Observes(science, rows, n), science["data"].type \in Bandits,
         NEW k \in 1..n, Stationary(CreateInstance(science))
  PROVE  Highest(OneArm(science, k)) = Ahead(science, k, BestArms(science, k))
<1> DEFINE best == BestAt(science, 1)
           x == Ahead(science, k, Throughout(k, best))
           gap(arm) == [i \in 1..k |-> Gap(science, i, arm)]
<1>1. n \in Nat /\ 1 \in 1..n /\ k \in Nat /\ \A i \in 1..k : i \in 1..n
  BY DEF Observes
<1>2. \A i \in 1..n : BestAt(science, i) = best
  <2> SUFFICES ASSUME NEW i \in 1..n PROVE BestAt(science, i) = best
    OBVIOUS
  <2>1. MeansAt(CreateInstance(science), i) = MeansAt(CreateInstance(science), 1)
    BY DEF MeansAt
  <2> QED BY <2>1 DEF BestAt
<1>3. best \in Arms(science)
  BY <1>1, GapsAreNumbers DEF Arms
<1>4. \A arm \in Arms(science) : \A i \in 1..k :
        Gap(science, i, arm) \in Int /\ Gap(science, i, arm) <= Gap(science, i, best)
  BY <1>1, <1>2, GapsAreNumbers DEF Arms
<1>5. \A arm : Ahead(science, k, Throughout(k, arm)) = Sum(gap(arm))
  BY DEF Ahead, Throughout
<1>6. \A arm \in Arms(science) : Sum(gap(arm)) <= Sum(gap(best))
  <2> SUFFICES ASSUME NEW arm \in Arms(science) PROVE Sum(gap(arm)) <= Sum(gap(best))
    OBVIOUS
  <2> DEFINE a == gap(arm)
             b == gap(best)
  <2>1. a \in [1..k -> Int] /\ b \in [1..k -> Int] /\ \A i \in 1..k : a[i] <= b[i]
    BY <1>3, <1>4
  <2> HIDE DEF a, b
  <2>2. Sum(a) <= Sum(b)
    BY <1>1, <2>1, SumIsMonotone
  <2> QED BY <2>2 DEF a, b
<1>7. x \in OneArm(science, k) /\ OneArm(science, k) \subseteq Int /\ \A y \in OneArm(science, k) : x >= y
  <2>1. OneArm(science, k) \subseteq Int
    BY OneArmIsHighest
  <2>2. x \in OneArm(science, k)
    BY <1>3 DEF OneArm
  <2> HIDE DEF gap
  <2>3. \A arm \in Arms(science) : Ahead(science, k, Throughout(k, arm)) <= x
    BY <1>5, <1>6
  <2>4. \A arm \in Arms(science) : Ahead(science, k, Throughout(k, arm)) \in Int
    BY <2>1 DEF OneArm
  <2>5. \A y \in OneArm(science, k) : x >= y
    <3> HIDE DEF x
    <3> QED BY <2>1, <2>2, <2>3, <2>4 DEF OneArm
  <2> QED BY <2>1, <2>2, <2>5
<1>8. Highest(OneArm(science, k)) = x
  <2> HIDE DEF x
  <2> QED BY <1>7, GreatestIsHighest
<1>9. Ahead(science, k, BestArms(science, k)) = x
  BY <1>1, <1>2 DEF Ahead, BestArms, Throughout
<1> QED BY <1>8, <1>9

\* The definition of the regret, in these terms.
LEMMA TrueRegret ==
  ASSUME NEW science \in RunIds, NEW k, NEW metric, metric.type = "pseudo_regret"
  PROVE  TrueValue(metric, Life[science], k) =
           IF metric.comparator = "dynamic" THEN Ahead(science, k, BestArms(science, k))
           ELSE Highest(OneArm(science, k))
<1> DEFINE life == Life[science]
           fixed == {Lag(life, k, [i \in 1..k |-> arm]) : arm \in DOMAIN MeansAt(life[0].instance, 1)}
           best == [i \in 1..k |-> Best(MeansAt(life[0].instance, i))]
<1>1. life[0].instance = CreateInstance(science)
  BY LifeCountsSteps
<1>2. TrueValue(metric, life, k) =
        IF metric.comparator = "dynamic" THEN Lag(life, k, best) ELSE CHOOSE x \in fixed : \A y \in fixed : x >= y
  BY DEF TrueValue
<1>3. best = BestArms(science, k)
  BY <1>1 DEF BestArms, BestAt
<1>4. \A arm : Lag(life, k, [i \in 1..k |-> arm]) = Ahead(science, k, Throughout(k, arm))
  BY LagIsAhead DEF Throughout
<1>5. fixed = OneArm(science, k)
  BY <1>1, <1>4 DEF OneArm, Arms
<1>6. Lag(life, k, best) = Ahead(science, k, best)
  BY LagIsAhead
<1> HIDE DEF life, fixed, best
<1> QED BY <1>2, <1>3, <1>5, <1>6 DEF Highest, life

\* The pseudo-regret is, at each of its steps, that of the best arms or of the arm that is best
\* up to that step (builtins/metrics.py: PseudoRegretMetric).
LEMMA RegretIsTrue ==
  ASSUME NEW science, NEW rows, NEW n, Observes(science, rows, n), EveryStep(rows, n),
         NEW metric, metric.type = "pseudo_regret", science["data"].type \in Bandits,
         NEW k \in 1..Len(rows)
  PROVE  LET value == TrueValue(metric, Life[science], rows[k].step)
         IN value \in Int /\ Compute(metric, AResult(science, rows, n)).values[k] = value
<1> DEFINE result == AResult(science, rows, n)
           instance == result.instance
           means(i) == MeansAt(instance, i)
           row(i) == Life[science][i].row
           actions == Column(result, "action")
           each == [i \in DOMAIN actions |-> Highest(Range(means(i))) - means(i)[actions[i] + 1]]
           g == [i \in 1..n |-> Gap(science, i, BestAt(science, i))]
           one(arm) == [i \in DOMAIN actions |-> means(i)[arm] - means(i)[actions[i] + 1]]
           ahead == [arm \in DOMAIN means(1) |-> Running(one(arm))]
           value == TrueValue(metric, Life[science], k)
<1>1. n \in Nat /\ Len(rows) = n /\ rows[k].step = k /\ k \in 1..n /\ science \in RunIds /\ 1 \in 1..n
      /\ DOMAIN rows = 1..n
  BY DEF Observes, EveryStep
<1>2. actions = [i \in 1..n |-> row(i).action]
  <2>1. \A i \in 1..n : rows[i] = row(i)
    BY DEF Observes, EveryStep
  <2>2. actions = [i \in DOMAIN rows |-> rows[i]["action"]]
    BY DEF Column, AResult
  <2> HIDE DEF row
  <2> QED BY <1>1, <2>1, <2>2
<1>3. Compute(metric, AResult(science, rows, n)).values =
        IF metric.comparator = "dynamic" \/ Stationary(instance) THEN Running(each)
        ELSE [i \in DOMAIN actions |-> Highest({ahead[arm][i] : arm \in DOMAIN ahead})]
  <2>1. Compute(metric, result).values = PseudoRegret(metric, result)
    BY DEF Compute
  <2> HIDE DEF result
  <2>2. PseudoRegret(metric, result) =
          IF metric.comparator = "dynamic" \/ Stationary(instance) THEN Running(each)
          ELSE [i \in DOMAIN actions |-> Highest({ahead[arm][i] : arm \in DOMAIN ahead})]
    BY Zenon DEF PseudoRegret
  <2> HIDE DEF each, ahead, instance
  <2> QED BY <2>1, <2>2 DEF result
<1>i. instance = CreateInstance(science) /\ \A i : means(i) = MeansAt(CreateInstance(science), i)
  BY DEF AResult
<1> HIDE DEF result
<1>4. value = IF metric.comparator = "dynamic" THEN Ahead(science, k, BestArms(science, k))
              ELSE Highest(OneArm(science, k))
  BY <1>1, TrueRegret
<1>5. each = g
  <2>1. \A i \in 1..n :
          Highest(Range(means(i))) - means(i)[row(i).action + 1] = Gap(science, i, BestAt(science, i))
    BY <1>i, GapsAreNumbers
  <2>2. DOMAIN actions = 1..n /\ \A i \in 1..n : actions[i] = row(i).action
    BY <1>2
  <2> HIDE DEF means, row, actions
  <2> QED BY <2>1, <2>2
<1> HIDE DEF each, value
<1>6. Running(g)[k] = Ahead(science, k, BestArms(science, k)) /\ Ahead(science, k, BestArms(science, k)) \in Int
  <2> DEFINE arm == BestArms(science, n)
  <2>1. \A i \in 1..n : arm[i] = BestAt(science, i) /\ arm[i] \in Arms(science)
    BY GapsAreNumbers DEF Arms, BestArms
  <2> HIDE DEF arm
  <2>2. g = [i \in 1..n |-> Gap(science, i, arm[i])]
    BY <2>1
  <2> HIDE DEF g
  <2>3. Running(g)[k] = Ahead(science, k, arm) /\ Ahead(science, k, arm) \in Int
    BY <1>1, <2>1, <2>2, AheadIsRunning
  <2>4. Ahead(science, k, arm) = Ahead(science, k, BestArms(science, k))
    BY <1>1, <2>1 DEF Ahead, BestArms
  <2> QED BY <2>3, <2>4
<1> HIDE DEF g
<1>7. CASE metric.comparator = "dynamic"
  BY <1>1, <1>3, <1>4, <1>5, <1>6, <1>7 DEF value, result
<1>8. CASE metric.comparator # "dynamic" /\ Stationary(instance)
  <2>1. Highest(OneArm(science, k)) = Ahead(science, k, BestArms(science, k))
    BY <1>1, <1>8, <1>i, BestThroughout
  <2> QED BY <1>1, <1>3, <1>4, <1>5, <1>6, <1>8, <2>1 DEF value, result
<1>9. CASE metric.comparator # "dynamic" /\ ~Stationary(instance)
  <2>1. \A arm \in Arms(science) : one(arm) = [i \in 1..n |-> Gap(science, i, arm)]
    BY <1>2, <1>i DEF Gap
  <2>2. \A arm \in Arms(science) : ahead[arm][k] = Ahead(science, k, Throughout(k, arm))
    <3> SUFFICES ASSUME NEW arm \in Arms(science) PROVE ahead[arm][k] = Ahead(science, k, Throughout(k, arm))
      OBVIOUS
    <3> DEFINE always == Throughout(n, arm)
    <3>1. \A i \in 1..n : always[i] = arm /\ always[i] \in Arms(science)
      BY DEF Throughout
    <3>2. ahead[arm] = Running(one(arm))
      BY <1>i DEF Arms
    <3> HIDE DEF always, one, ahead
    <3>3. one(arm) = [i \in 1..n |-> Gap(science, i, always[i])]
      BY <2>1, <3>1
    <3>4. Running(one(arm))[k] = Ahead(science, k, always)
      BY <1>1, <3>1, <3>3, AheadIsRunning
    <3>5. Ahead(science, k, always) = Ahead(science, k, Throughout(k, arm))
      BY <1>1, <3>1 DEF Ahead, Throughout
    <3> QED BY <3>2, <3>4, <3>5
  <2>3. DOMAIN ahead = Arms(science)
    BY <1>i DEF Arms
  <2> HIDE DEF ahead
  <2>4. {ahead[arm][k] : arm \in DOMAIN ahead} = OneArm(science, k)
    BY <2>2, <2>3 DEF OneArm
  <2>5. k \in DOMAIN actions
    BY <1>1, <1>2
  <2>6. Compute(metric, AResult(science, rows, n)).values[k] = Highest(OneArm(science, k))
    <3> HIDE DEF actions
    <3> QED BY <1>3, <1>9, <2>4, <2>5 DEF result
  <2>7. Highest(OneArm(science, k)) \in Int
    BY <1>1, OneArmIsHighest
  <2> QED BY <1>1, <1>4, <1>9, <2>6, <2>7 DEF value, result
<1> QED BY <1>7, <1>8, <1>9

\* What is computed of a sufficient result, at each of its steps, is what the metric means.
LEMMA CurveIsTrue ==
  ASSUME NEW science, NEW rows, NEW n, Observes(science, rows, n),
         NEW metric, metric.type \in {"field", "cumulative_sum", "pseudo_regret"},
         Sufficient(metric, AResult(science, rows, n))
  PROVE  LET curve == Compute(metric, AResult(science, rows, n))
         IN /\ Len(rows) \in Nat \ {0} /\ curve.x = [k \in 1..Len(rows) |-> rows[k].step]
            /\ \A k \in 1..Len(rows) :
                 LET value == TrueValue(metric, Life[science], rows[k].step)
                 IN value \in Int /\ curve.values[k] = value
<1> DEFINE result == AResult(science, rows, n)
           curve == Compute(metric, result)
<1>1. /\ result.rows = rows /\ result.steps = n /\ result.instance = CreateInstance(science)
      /\ DOMAIN rows = 1..Len(rows) /\ Len(rows) \in Nat /\ n \in Nat
  BY DEF AResult, Observes
<1>2. /\ rows # <<>> /\ Required(metric) \subseteq DOMAIN rows[1]
      /\ metric.type = "pseudo_regret" => "means" \in DOMAIN CreateInstance(science)
      /\ metric.type # "field" => EveryStep(rows, n)
  BY <1>1 DEF Sufficient, EveryStep
<1>3. Len(rows) # 0
  <2>1. rows = [k \in 1..Len(rows) |-> rows[k]]
    BY DEF Observes
  <2>2. Len(rows) = 0 => rows = [k \in {} |-> rows[k]]
    BY <2>1
  <2> QED BY <1>1, <1>2, <2>2
<1>4. curve.x = [k \in 1..Len(rows) |-> rows[k].step]
  BY <1>1 DEF Compute, Column
<1> HIDE DEF result
<1>5. DOMAIN rows[1] = Fields(science)
  <2>1. 1 \in 1..Len(rows)
    BY <1>1, <1>3
  <2> QED BY <2>1, ObservedInNumbers
<1>6. ASSUME NEW k \in 1..Len(rows)
      PROVE  LET value == TrueValue(metric, Life[science], rows[k].step)
             IN value \in Int /\ curve.values[k] = value
  <2>1. CASE metric.type = "field"
    <3>1. metric.field \in Fields(science)
      BY <1>2, <1>5, <2>1 DEF Required
    <3> QED BY <2>1, <3>1, FieldIsTrue DEF result
  <2>2. CASE metric.type = "cumulative_sum"
    <3>1. metric.field \in Fields(science) /\ EveryStep(rows, n)
      BY <1>2, <1>5, <2>2 DEF Required
    <3> QED BY <2>2, <3>1, TotalIsTrue DEF result
  <2>3. CASE metric.type = "pseudo_regret"
    <3>1. science["data"].type \in Bandits
      BY <1>2, <2>3 DEF CreateInstance, Bandits
    <3>2. EveryStep(rows, n)
      BY <1>2, <2>3
    <3> QED BY <2>3, <3>1, <3>2, RegretIsTrue DEF result
  <2> QED BY <2>1, <2>2, <2>3
<1> QED BY <1>1, <1>3, <1>4, <1>6, Zenon DEF result

-----------------------------------------------------------------------------
(* What an analysis reads *)

\* What an analysis reads are observations of the life of the run.
LEMMA ReadIsObserved ==
  ASSUME EverythingIsExact, config # None, NEW spec \in Plan(config), Complete(spec)
  PROVE  /\ Result(spec) = AResult(RunId(spec), Alone(spec), Asked(spec))
         /\ Observes(RunId(spec), Alone(spec), Asked(spec))
<1> DEFINE id == StorageId(config, spec)
           n == Asked(spec)
           rows == Seen(id)[n]
<1>1. ConfigIsAccepted /\ spec \in Specs
  BY PlannedInSpecs DEF EverythingIsExact
<1>2. id.science = RunId(spec) /\ id.science \in RunIds
  BY <1>1, StorageIds
<1>3. /\ Result(spec) = [rows |-> rows, steps |-> n, instance |-> CreateInstance(id.science)]
      /\ Alone(spec) = rows
      /\ n \in Nat \ {0} /\ Numbered(id.science, n) /\ Playable(id.science, n)
  BY ResultIsSeen
<1> HIDE DEF id, n
<1>4. /\ rows \in Seq(Rows(id.science))
      /\ \A k \in 1..Len(rows) : rows[k].step \in 1..n /\ rows[k] = Life[id.science][rows[k].step].row
  BY <1>2, <1>3, SeenIsOrdered
<1> HIDE DEF rows
<1>5. rows = [k \in 1..Len(rows) |-> rows[k]] /\ Len(rows) \in Nat
  BY <1>4
<1>6. Observes(id.science, rows, n)
  BY <1>2, <1>3, <1>4, <1>5 DEF Observes
<1>7. Result(spec) = AResult(id.science, rows, n)
  BY <1>3 DEF AResult
<1> QED BY <1>2, <1>3, <1>6, <1>7 DEF n

\* Where every observation is kept, there is one of each step.
LEMMA NothingIsLeftOut ==
  ASSUME NEW id, id.science \in RunIds, id.every = 1, NEW n \in Nat, Numbered(id.science, n)
  PROVE  EveryStep(Seen(id)[n], n)
<1> DEFINE seen(m) == Seen(id)[m]
           Full(m) == Len(seen(m)) = m /\ \A k \in 1..m : seen(m)[k] = Life[id.science][k].row
           S == {m \in Nat : Full(m)}
<1>1. 0 \in S
  <2>1. seen(0) = <<>>
    BY SeenUnfolds
  <2> HIDE DEF seen
  <2> QED BY <2>1
<1>2. ASSUME NEW m \in Nat, m \in S PROVE m + 1 \in S
  <2> DEFINE row == Life[id.science][m + 1].row
             rows == seen(m)
  <2>1. Full(m)
    BY <1>2
  <2>2. m + 1 \in Keeps(id)
    <3>1. (m + 1) % 1 = 0
      OBVIOUS
    <3> QED BY <3>1 DEF Keeps
  <2>3. seen(m + 1) = Append(rows, row)
    BY <2>2, SeenUnfolds
  <2>4. rows \in Seq(Rows(id.science)) /\ row \in Rows(id.science)
    <3>1. rows \in Seq(Rows(id.science))
      BY SeenIsOrdered
    <3> QED BY <3>1 DEF Rows
  <2> HIDE DEF seen, rows
  <2>5. /\ Len(Append(rows, row)) = m + 1 /\ Append(rows, row)[m + 1] = row
        /\ \A k \in 1..m : Append(rows, row)[k] = rows[k]
    BY <2>1, <2>4 DEF rows
  <2>6. \A k \in 1..(m + 1) : k = m + 1 \/ k \in 1..m
    OBVIOUS
  <2> QED BY <2>1, <2>3, <2>5, <2>6 DEF rows
<1> HIDE DEF S
<1>3. n \in S
  BY <1>1, <1>2, Induction
<1>4. Full(n)
  BY <1>3 DEF S
<1>5. ASSUME NEW k \in 1..n PROVE Life[id.science][k].row.step = k
  <2>1. k \in Nat \ {0} /\ (id.science["protocol"].type \in Steps \/ k = 1)
    BY DEF Numbered
  <2> QED BY <2>1, LifeRecordsSteps
<1> QED BY <1>4, <1>5 DEF EveryStep

\* Runs that keep the observations of the same steps have the same steps to show.
LEMMA SameSteps ==
  ASSUME NEW i, NEW j, i.science \in RunIds, j.science \in RunIds, Keeps(i) = Keeps(j),
         NEW n \in Nat, Numbered(i.science, n), Numbered(j.science, n)
  PROVE  /\ Len(Seen(i)[n]) = Len(Seen(j)[n])
         /\ \A k \in 1..Len(Seen(i)[n]) : Seen(i)[n][k].step = Seen(j)[n][k].step
<1> DEFINE InStep(p, q) == Len(p) = Len(q) /\ \A k \in 1..Len(p) : p[k].step = q[k].step
           S == {m \in Nat : m <= n => InStep(Seen(i)[m], Seen(j)[m])}
<1>1. 0 \in S
  <2>1. Seen(i)[0] = <<>> /\ Seen(j)[0] = <<>>
    BY SeenUnfolds
  <2> QED BY <2>1
<1>2. ASSUME NEW m \in Nat, m \in S PROVE m + 1 \in S
  <2> SUFFICES ASSUME m + 1 <= n PROVE InStep(Seen(i)[m + 1], Seen(j)[m + 1])
    OBVIOUS
  <2> DEFINE p == Seen(i)[m]
             q == Seen(j)[m]
             x == Life[i.science][m + 1].row
             y == Life[j.science][m + 1].row
  <2>1. InStep(p, q)
    BY <1>2
  <2>2. /\ Seen(i)[m + 1] = IF m + 1 \in Keeps(i) THEN Append(p, x) ELSE p
        /\ Seen(j)[m + 1] = IF m + 1 \in Keeps(i) THEN Append(q, y) ELSE q
    BY SeenUnfolds
  <2>3. x.step = m + 1 /\ y.step = m + 1
    <3>1. m + 1 \in Nat \ {0} /\ (n <= 1 => m + 1 = 1)
      OBVIOUS
    <3> QED BY <3>1, LifeRecordsSteps DEF Numbered
  <2>4. p \in Seq(Rows(i.science)) /\ q \in Seq(Rows(j.science)) /\ x \in Rows(i.science) /\ y \in Rows(j.science)
    <3>1. p \in Seq(Rows(i.science)) /\ q \in Seq(Rows(j.science))
      BY SeenIsOrdered
    <3> QED BY <3>1 DEF Rows
  <2> HIDE DEF p, q, x, y
  <2>5. InStep(Append(p, x), Append(q, y))
    <3>1. /\ Len(p) \in Nat /\ Len(Append(p, x)) = Len(p) + 1 /\ Append(p, x)[Len(p) + 1] = x
          /\ \A k \in 1..Len(p) : Append(p, x)[k] = p[k]
      BY <2>4
    <3>2. /\ Len(q) \in Nat /\ Len(Append(q, y)) = Len(q) + 1 /\ Append(q, y)[Len(q) + 1] = y
          /\ \A k \in 1..Len(q) : Append(q, y)[k] = q[k]
      BY <2>4
    <3>3. \A k \in 1..(Len(p) + 1) : k = Len(p) + 1 \/ k \in 1..Len(p)
      BY <3>1
    <3> QED BY <2>1, <2>3, <3>1, <3>2, <3>3
  <2> QED BY <2>1, <2>2, <2>5
<1> HIDE DEF S
<1>3. n \in S
  BY <1>1, <1>2, Induction
<1> QED BY <1>3 DEF S

\* Runs of one science are asked for the same steps.
LEMMA SameScience ==
  ASSUME EverythingIsExact, config # None,
         NEW a \in Plan(config), NEW b \in Plan(config), Complete(a), Complete(b),
         ScientificIdentity(a) = ScientificIdentity(b)
  PROVE  /\ \A f \in SpecFields \ {"repetition"} : a[f] = b[f]
         /\ a.repetition = b.repetition => a = b
         /\ Len(Alone(a)) = Len(Alone(b))
         /\ \A k \in 1..Len(Alone(a)) : Alone(a)[k].step = Alone(b)[k].step
<1> DEFINE i == StorageId(config, a)
           j == StorageId(config, b)
           n == Asked(a)
<1>1. a \in Specs /\ b \in Specs
  BY PlannedInSpecs DEF EverythingIsExact
<1>2. /\ DOMAIN a = SpecFields /\ a = [f \in SpecFields |-> a[f]]
      /\ DOMAIN b = SpecFields /\ b = [f \in SpecFields |-> b[f]]
  BY <1>1, SpecsAreRecords
<1>3. \A f \in SpecFields \ {"repetition"} : a[f] = b[f]
  <2>1. \A f \in SpecFields \ {"repetition"} : ScientificIdentity(a)[f] = a[f] /\ ScientificIdentity(b)[f] = b[f]
    BY <1>2 DEF ScientificIdentity
  <2> QED BY <2>1
<1>4. a.repetition = b.repetition => a = b
  <2> SUFFICES ASSUME a.repetition = b.repetition PROVE a = b
    OBVIOUS
  <2>1. \A f \in SpecFields : a[f] = b[f]
    BY <1>3
  <2> QED BY <1>2, <2>1
<1>5. Asked(b) = n
  BY <1>3 DEF Asked, SpecFields
<1>6. /\ i.science = RunId(a) /\ i.science \in RunIds /\ i.every = config.every
      /\ Extendable(a) <=> Extends(i.science)
      /\ ~Extends(i.science) => Ends(i) = IF a["protocol"].type \in Steps THEN a.budget ELSE 1
  BY <1>1, StorageIds, Zenon
<1>7. /\ j.science = RunId(b) /\ j.science \in RunIds /\ j.every = config.every
      /\ Extendable(b) <=> Extends(j.science)
      /\ ~Extends(j.science) => Ends(j) = IF b["protocol"].type \in Steps THEN b.budget ELSE 1
  BY <1>1, StorageIds, Zenon
<1>8. Extendable(a) <=> Extendable(b)
  BY <1>3 DEF Extendable, Parts, SpecFields
<1> HIDE DEF i, j, n
<1>9. a["protocol"] = b["protocol"] /\ a.budget = b.budget
  BY <1>3 DEF SpecFields
<1>10. Keeps(i) = Keeps(j)
  BY <1>6, <1>7, <1>8, <1>9 DEF Keeps
<1>11. Alone(a) = Seen(i)[n] /\ n \in Nat \ {0} /\ Numbered(i.science, n)
  BY ResultIsSeen DEF i, n
<1>12. Alone(b) = Seen(j)[n] /\ Numbered(j.science, n)
  BY <1>5, ResultIsSeen DEF j
<1>13. /\ Len(Seen(i)[n]) = Len(Seen(j)[n])
       /\ \A k \in 1..Len(Seen(i)[n]) : Seen(i)[n][k].step = Seen(j)[n][k].step
  BY <1>6, <1>7, <1>10, <1>11, <1>12, SameSteps
<1> QED BY <1>3, <1>4, <1>11, <1>12, <1>13

-----------------------------------------------------------------------------
(* One analysis *)

MetricTypes == {"field", "cumulative_sum", "pseudo_regret"}
Repetitions(specs) == {spec.repetition : spec \in specs}

Analyzing(metric, members, order, entries, group, n) ==
  /\ EverythingIsExact /\ config # None /\ metric \in config.metrics
  /\ members \subseteq Plan(config) /\ members # {} /\ n = Cardinality(members)
  /\ \A spec \in members : Complete(spec)
  /\ order \in SetToSeqs(members) /\ entries = [i \in DOMAIN order |-> Entry(metric, order[i])]
  /\ Groups(entries, group, n)

\* What the entries of an analysis are.
LEMMA AnalysisBasics ==
  ASSUME NEW metric, NEW members, NEW order, NEW entries, NEW group, NEW n,
         Analyzing(metric, members, order, entries, group, n)
  PROVE  /\ IsFiniteSet(members) /\ n \in Nat \ {0} /\ metric.type \in MetricTypes
         /\ config.every \in Nat \ {0} /\ Scale \in Nat \ {0} /\ members \subseteq Specs
         /\ \A j \in 1..n : /\ order[j] \in members /\ entries[j] = Entry(metric, order[j])
                            /\ entries[j].repetition = order[j].repetition
                            /\ entries[j].identity = ScientificIdentity(order[j])
                            /\ entries[j].curve = Compute(metric, Result(order[j]))
         /\ \A i, j \in 1..n : order[i] = order[j] => i = j
         /\ \A spec \in members : \E j \in 1..n : order[j] = spec
<1>1. EverythingIsExact /\ config # None /\ metric \in config.metrics /\ members \subseteq Plan(config)
  BY DEF Analyzing
<1>2. ConfigIsAccepted
  BY <1>1 DEF EverythingIsExact
<1>3. /\ IsFiniteSet(Plan(config)) /\ config.every \in Nat \ {0} /\ metric.type \in MetricTypes
      /\ Scale \in Nat \ {0}
  BY <1>1, <1>2, ConfigAssumption DEF ConfigIsAccepted, MetricTypes
<1>4. IsFiniteSet(members)
  BY <1>1, <1>3, FS_Subset
<1>5. n = Cardinality(members) /\ order \in SetToSeqs(members)
  BY DEF Analyzing
<1>6. /\ n \in Nat /\ DOMAIN order = 1..n
      /\ \A i \in DOMAIN order : order[i] \in members
      /\ \A i, j \in DOMAIN order : order[i] = order[j] => i = j
      /\ \A s \in members : \E i \in DOMAIN order : order[i] = s
  BY <1>4, <1>5, OrderCovers
<1>7. n # 0
  BY <1>6 DEF Analyzing
<1>8. \A j \in 1..n : entries[j] = Entry(metric, order[j])
  BY <1>6 DEF Analyzing
<1>9. \A spec : /\ Entry(metric, spec).repetition = spec.repetition
                /\ Entry(metric, spec).identity = ScientificIdentity(spec)
                /\ Entry(metric, spec).curve = Compute(metric, Result(spec))
  BY DEF Entry
<1>10. members \subseteq Specs
  BY <1>1, <1>2, PlannedInSpecs
<1> QED BY <1>3, <1>4, <1>6, <1>7, <1>8, <1>9, <1>10

\* Among runs with different repetitions there are as many runs as repetitions.
LEMMA RepetitionsCount ==
  ASSUME NEW S, IsFiniteSet(S), \A a, b \in S : a.repetition = b.repetition => a = b
  PROVE  IsFiniteSet(Repetitions(S)) /\ Cardinality(Repetitions(S)) = Cardinality(S)
<1> DEFINE f == [s \in S |-> s.repetition]
<1>1. f \in Surjection(S, Repetitions(S))
  BY DEF Surjection, Repetitions
<1>2. f \in Injection(S, Repetitions(S))
  <2>1. f \in [S -> Repetitions(S)]
    BY DEF Repetitions
  <2>2. IsInjective(f)
    BY DEF IsInjective
  <2> QED BY <2>1, <2>2 DEF Injection
<1> HIDE DEF f
<1> QED BY <1>1, <1>2, FS_Surjection

\* Scale is a multiple of every number of runs that are aggregated.
LEMMA ScaleDivides ==
  ASSUME EverythingIsExact, config # None, NEW S, S \subseteq Plan(config), IsFiniteSet(S),
         \A a, b \in S : a.repetition = b.repetition => a = b
  PROVE  Divides(Cardinality(S))
<1> DEFINE all == Repetitions(Plan(config))
           f == [s \in Plan(config) |-> s.repetition]
<1>1. /\ IsFiniteSet(Plan(config))
      /\ \A n \in 1..Cardinality({spec.repetition : spec \in Plan(config)}) : Scale % n = 0
  BY ConfigAssumption DEF EverythingIsExact, ConfigIsAccepted
<1>2. f \in Surjection(Plan(config), all)
  BY DEF Surjection, Repetitions
<1> HIDE DEF f
<1>3. IsFiniteSet(all)
  BY <1>1, <1>2, FS_Surjection
<1>4. Repetitions(S) \in SUBSET all
  BY DEF Repetitions
<1>5. \A n \in 1..Cardinality(all) : Scale % n = 0
  BY <1>1 DEF Repetitions
<1> HIDE DEF all
<1>6. Cardinality(Repetitions(S)) <= Cardinality(all) /\ Cardinality(all) \in Nat
  BY <1>3, <1>4, FS_Subset, FS_CardinalityType
<1>7. Cardinality(Repetitions(S)) = Cardinality(S) /\ Cardinality(S) \in Nat
  BY RepetitionsCount, FS_CardinalityType
<1> QED BY <1>5, <1>6, <1>7 DEF Divides

\* What SummariesAreTrue says of one summary, and at one point of it
TrueAt(metric, members, count, x, mean, squared) ==
  LET v == [spec \in members |-> Scale * TrueValue(metric, Life[RunId(spec)], x)]
  IN /\ count * mean = Sum(v)
     /\ squared = Sum([spec \in members |-> LET d == v[spec] - mean IN d * d])
IsTrue(metric, members, summary) ==
  LET full == Alone(CHOOSE spec \in members : TRUE)
  IN /\ \A a, b \in members : ScientificIdentity(a) = ScientificIdentity(b)
     /\ summary.count = Cardinality({spec.repetition : spec \in members})
     /\ summary.x[1] = full[1].step /\ Last(summary.x) = Last(full).step
     /\ \A i \in DOMAIN summary.x :
          TrueAt(metric, members, summary.count, summary.x[i], summary.mean[i], summary.squared[i])

\* The property, summary by summary.
LEMMA SummariesAreEachTrue ==
  SummariesAreTrue <=> \A key \in DOMAIN summaries : IsTrue(key[1], Members(key[2]), summaries[key])
BY Zenon DEF SummariesAreTrue, IsTrue, TrueAt

\* A group that fits has each run once.
EachOnce(members, entries, g, n) ==
  /\ \A a, b \in members : ScientificIdentity(a) = ScientificIdentity(b)
  /\ \A a, b \in members : a.repetition = b.repetition => a = b
  /\ \A j \in 1..n : g.x = entries[j].curve.x
  /\ g.count = n /\ n = Cardinality({spec.repetition : spec \in members}) /\ Divides(n)
  /\ IsGroup(g)
\* A group that fits has one science and each run once.
LEMMA GroupIsOfRepetitions ==
  ASSUME NEW metric, NEW members, NEW order, NEW entries, NEW group, NEW n,
         Analyzing(metric, members, order, entries, group, n), group[n].fits
  PROVE  EachOnce(members, entries, group[n], n)
<1>1. /\ IsFiniteSet(members) /\ n \in Nat \ {0}
      /\ \A j \in 1..n : /\ order[j] \in members
                         /\ entries[j].repetition = order[j].repetition
                         /\ entries[j].identity = ScientificIdentity(order[j])
      /\ \A spec \in members : \E j \in 1..n : order[j] = spec
  BY AnalysisBasics
<1>2. Groups(entries, group, n) /\ n \in 0..n
  BY <1>1 DEF Analyzing
<1>3. Collected(entries, group[n], n)
  BY <1>1, <1>2, GroupsCollect
<1>4. Alike(entries, n) /\ group[n].x = entries[1].curve.x /\ group[n].count = n /\ IsGroup(group[n])
  BY <1>3 DEF Collected
<1>5. \A j \in 1..n : entries[j].identity = entries[1].identity /\ entries[j].curve.x = entries[1].curve.x
  BY <1>4 DEF Alike
<1>6. \A i, j \in 1..n : i < j => entries[i].repetition # entries[j].repetition
  <2> SUFFICES ASSUME NEW i \in 1..n, NEW j \in 1..n, i < j
               PROVE  entries[i].repetition # entries[j].repetition
    OBVIOUS
  <2>1. i \in 1..(j - 1)
    OBVIOUS
  <2> QED BY <1>4, <2>1 DEF Alike
<1>7. \A a, b \in members : ScientificIdentity(a) = ScientificIdentity(b)
  <2> SUFFICES ASSUME NEW a \in members, NEW b \in members
               PROVE  ScientificIdentity(a) = ScientificIdentity(b)
    OBVIOUS
  <2>1. PICK i \in 1..n, j \in 1..n : order[i] = a /\ order[j] = b
    BY <1>1
  <2> QED BY <1>1, <1>5, <2>1
<1>8. \A a, b \in members : a.repetition = b.repetition => a = b
  <2> SUFFICES ASSUME NEW a \in members, NEW b \in members, a.repetition = b.repetition
               PROVE  a = b
    OBVIOUS
  <2>1. PICK i \in 1..n, j \in 1..n : order[i] = a /\ order[j] = b
    BY <1>1
  <2>2. entries[i].repetition = entries[j].repetition
    BY <1>1, <2>1
  <2>3. ~(i < j) /\ ~(j < i)
    BY <1>6, <2>2
  <2>4. i = j
    BY <1>1, <2>3
  <2> QED BY <2>1, <2>4
<1>9. Cardinality(Repetitions(members)) = Cardinality(members)
  BY <1>1, <1>8, RepetitionsCount
<1>10. n = Cardinality({spec.repetition : spec \in members})
  BY <1>9 DEF Analyzing, Repetitions
<1>11. Divides(n)
  BY <1>1, <1>8, ScaleDivides DEF Analyzing
<1>12. \A j \in 1..n : group[n].x = entries[j].curve.x
  BY <1>4, <1>5
<1> QED BY <1>4, <1>7, <1>8, <1>10, <1>11, <1>12 DEF EachOnce

\* The points of a group are the steps that each of its runs observed.
Lined(group, n, members) ==
  \A spec \in members :
    /\ Len(Alone(spec)) \in Nat \ {0}
    /\ group[n].x = [k \in 1..Len(Alone(spec)) |-> Alone(spec)[k].step]

\* The points of a group are those that each of its runs observed, and each has its true value there.
LEMMA GroupIsLined ==
  ASSUME NEW metric, NEW members, NEW order, NEW entries, NEW group, NEW n,
         Analyzing(metric, members, order, entries, group, n), group[n].fits,
         \A spec \in members : Sufficient(metric, Result(spec))
  PROVE  /\ Lined(group, n, members)
         /\ \A spec \in members : \A k \in 1..Len(Alone(spec)) :
              LET value == TrueValue(metric, Life[RunId(spec)], Alone(spec)[k].step)
              IN value \in Int /\ Compute(metric, Result(spec)).values[k] = value
<1> SUFFICES ASSUME NEW spec \in members
             PROVE  /\ Len(Alone(spec)) \in Nat \ {0}
                    /\ group[n].x = [k \in 1..Len(Alone(spec)) |-> Alone(spec)[k].step]
                    /\ \A k \in 1..Len(Alone(spec)) :
                         LET value == TrueValue(metric, Life[RunId(spec)], Alone(spec)[k].step)
                         IN value \in Int /\ Compute(metric, Result(spec)).values[k] = value
  BY DEF Lined
<1> DEFINE science == RunId(spec)
           rows == Alone(spec)
           m == Asked(spec)
<1>1. EverythingIsExact /\ config # None /\ spec \in Plan(config) /\ Complete(spec)
  BY DEF Analyzing
<1>2. Result(spec) = AResult(science, rows, m) /\ Observes(science, rows, m)
  BY <1>1, ReadIsObserved
<1>3. metric.type \in MetricTypes
  BY AnalysisBasics
<1> HIDE DEF science, rows, m
<1>4. Sufficient(metric, AResult(science, rows, m))
  BY <1>2
<1>5. LET curve == Compute(metric, AResult(science, rows, m))
      IN /\ Len(rows) \in Nat \ {0} /\ curve.x = [k \in 1..Len(rows) |-> rows[k].step]
         /\ \A k \in 1..Len(rows) :
              LET value == TrueValue(metric, Life[science], rows[k].step)
              IN value \in Int /\ curve.values[k] = value
  BY <1>2, <1>3, <1>4, CurveIsTrue DEF MetricTypes
<1>6. PICK j \in 1..n : order[j] = spec
  BY AnalysisBasics
<1>7. entries[j].curve = Compute(metric, Result(spec))
  BY <1>6, AnalysisBasics
<1>8. \A i \in 1..n : group[n].x = entries[i].curve.x
  <2>1. EachOnce(members, entries, group[n], n)
    BY GroupIsOfRepetitions
  <2> QED BY <2>1 DEF EachOnce
<1>9. group[n].x = [k \in 1..Len(rows) |-> rows[k].step]
  BY <1>2, <1>5, <1>6, <1>7, <1>8
<1>10. \A k \in 1..Len(rows) :
         LET value == TrueValue(metric, Life[science], rows[k].step)
         IN value \in Int /\ Compute(metric, Result(spec)).values[k] = value
  BY <1>2, <1>5
<1> QED BY <1>5, <1>9, <1>10 DEF rows, science

Totaling(S, order, n, entries, group, p, f) ==
  /\ Scale \in Nat \ {0} /\ IsFiniteSet(S) /\ order \in SetToSeqs(S)
  /\ n = Cardinality(S) /\ Divides(n) /\ Groups(entries, group, n) /\ group[n].fits
  /\ p \in DOMAIN entries[1].curve.x /\ f \in [S -> Int]
  /\ \A j \in 1..n : entries[j].curve.values[p] = f[order[j]]
ExactAt(S, n, g, p, v) ==
  /\ n * g.mean[p] = Sum(v)
  /\ g.squared[p] = Sum([s \in S |-> LET d == v[s] - g.mean[p] IN d * d])

\* The exactness of a group, point by point.
LEMMA SumsAreExact ==
  ASSUME NEW S, NEW order, NEW n, NEW entries, NEW group, NEW p, NEW f,
         Totaling(S, order, n, entries, group, p, f)
  PROVE  ExactAt(S, n, group[n], p, [s \in S |-> Scale * f[s]])
<1>1. PICK P \in DOMAIN entries[1].curve.x : P = p
  BY DEF Totaling
<1>2. PICK F \in [S -> Int] : F = f
  BY DEF Totaling
<1>3. PICK O \in SetToSeqs(S) : O = order
  BY DEF Totaling
<1>4. /\ Scale \in Nat \ {0} /\ IsFiniteSet(S)
      /\ n = Cardinality(S) /\ Divides(n) /\ Groups(entries, group, n) /\ group[n].fits
  BY DEF Totaling
<1>5. \A j \in 1..n : entries[j].curve.values[P] = F[O[j]]
  BY <1>1, <1>2, <1>3 DEF Totaling
<1>6. LET v == [s \in S |-> Scale * F[s]]
          mean == group[n].mean[P]
      IN /\ n * mean = Sum(v)
         /\ group[n].squared[P] = Sum([s \in S |-> LET d == v[s] - mean IN d * d])
  BY <1>4, <1>5, GroupIsExact
<1>7. ExactAt(S, n, group[n], P, [s \in S |-> Scale * F[s]])
  BY <1>6 DEF ExactAt
<1> QED BY <1>1, <1>2, <1>7

\* A group that fits, of sufficient results, is what the property says of a summary.
LEMMA GroupIsTrue ==
  ASSUME NEW metric, NEW members, NEW order, NEW entries, NEW group, NEW n,
         Analyzing(metric, members, order, entries, group, n), group[n].fits,
         \A spec \in members : Sufficient(metric, Result(spec))
  PROVE  /\ IsTrue(metric, members, group[n]) /\ IsGroup(group[n])
         /\ \E length \in Nat \ {0} : group[n].x = [k \in 1..length |-> group[n].x[k]]
<1> DEFINE g == group[n]
           some == CHOOSE spec \in members : TRUE
           full == Alone(some)
<1> HIDE DEF some
<1>1. /\ \A a, b \in members : ScientificIdentity(a) = ScientificIdentity(b)
      /\ \A j \in 1..n : group[n].x = entries[j].curve.x
      /\ group[n].count = n /\ n = Cardinality({spec.repetition : spec \in members}) /\ Divides(n)
      /\ IsGroup(group[n])
  <2>1. EachOnce(members, entries, group[n], n)
    BY GroupIsOfRepetitions
  <2> QED BY <2>1 DEF EachOnce
<1>2. /\ IsFiniteSet(members) /\ n \in Nat \ {0} /\ Scale \in Nat \ {0}
      /\ \A j \in 1..n : order[j] \in members /\ entries[j].curve = Compute(metric, Result(order[j]))
  BY AnalysisBasics
<1>3. /\ Lined(group, n, members)
      /\ \A spec \in members : \A k \in 1..Len(Alone(spec)) :
           LET value == TrueValue(metric, Life[RunId(spec)], Alone(spec)[k].step)
           IN value \in Int /\ Compute(metric, Result(spec)).values[k] = value
  BY GroupIsLined
<1>4. some \in members
  BY DEF Analyzing, some
<1>5. Len(full) \in Nat \ {0} /\ g.x = [k \in 1..Len(full) |-> full[k].step]
  BY <1>3, <1>4 DEF Lined
<1>6. g.x[1] = full[1].step /\ Last(g.x) = Last(full).step
  <2> HIDE DEF full, g
  <2>1. Len(g.x) = Len(full)
    BY <1>5
  <2> QED BY <1>5, <2>1 DEF Last
<1>7. ASSUME NEW p \in DOMAIN g.x
      PROVE  TrueAt(metric, members, g.count, g.x[p], g.mean[p], g.squared[p])
  <2> DEFINE f == [spec \in members |-> TrueValue(metric, Life[RunId(spec)], g.x[p])]
             v == [spec \in members |-> Scale * f[spec]]
             w == [spec \in members |-> Scale * TrueValue(metric, Life[RunId(spec)], g.x[p])]
  <2>1. \A spec \in members : /\ p \in 1..Len(Alone(spec)) /\ g.x[p] = Alone(spec)[p].step
                              /\ f[spec] \in Int /\ Compute(metric, Result(spec)).values[p] = f[spec]
    <3> SUFFICES ASSUME NEW spec \in members
                 PROVE  /\ p \in 1..Len(Alone(spec)) /\ g.x[p] = Alone(spec)[p].step
                        /\ f[spec] \in Int /\ Compute(metric, Result(spec)).values[p] = f[spec]
      OBVIOUS
    <3>1. g.x = [k \in 1..Len(Alone(spec)) |-> Alone(spec)[k].step]
      BY <1>3 DEF Lined
    <3>2. p \in 1..Len(Alone(spec)) /\ g.x[p] = Alone(spec)[p].step
      BY <3>1
    <3>3. f[spec] = TrueValue(metric, Life[RunId(spec)], Alone(spec)[p].step)
      BY <3>2
    <3> HIDE DEF f
    <3> QED BY <1>3, <3>2, <3>3
  <2>2. f \in [members -> Int]
    BY <2>1
  <2>3. v = w
    OBVIOUS
  <2> HIDE DEF f, w
  <2>4. \A j \in 1..n : entries[j].curve.values[p] = f[order[j]]
    BY <1>2, <2>1
  <2>5. p \in DOMAIN entries[1].curve.x
    BY <1>1, <1>2
  <2>6. order \in SetToSeqs(members) /\ n = Cardinality(members) /\ Groups(entries, group, n)
    BY DEF Analyzing
  <2>7. Totaling(members, order, n, entries, group, p, f)
    BY <1>1, <1>2, <2>2, <2>4, <2>5, <2>6 DEF Totaling
  <2>8. ExactAt(members, n, group[n], p, v)
    BY <2>7, SumsAreExact
  <2> HIDE DEF v
  <2>9. ExactAt(members, g.count, g, p, w)
    BY <1>1, <2>3, <2>8
  <2> QED BY <2>9, Zenon DEF w, ExactAt, TrueAt
<1> HIDE DEF full
<1>8. \E length \in Nat \ {0} : g.x = [k \in 1..length |-> g.x[k]]
  BY <1>5
<1>2a. g.count = Cardinality({spec.repetition : spec \in members})
  BY <1>1, Zenon
<1> HIDE DEF g
<1>9. IsTrue(metric, members, g)
  BY <1>1, <1>2a, <1>6, <1>7, Zenon DEF IsTrue, full, some
<1> QED BY <1>1, <1>8, <1>9 DEF g

\* A summary of which only these points are kept
Thinning(g, length, points, kept) ==
  /\ IsGroup(g) /\ points \in Nat \ {0, 1} /\ length \in Nat /\ length > points
  /\ g.x = [k \in 1..length |-> g.x[k]] /\ kept = Positions(length, points)
Thinned(g, points, kept, after) ==
  /\ after.count = g.count
  /\ after.x = [i \in 1..points |-> g.x[kept[i]]]
  /\ after.mean = [i \in 1..points |-> g.mean[kept[i]]]
  /\ after.squared = [i \in 1..points |-> g.squared[kept[i]]]

\* A subsample keeps the values of its points.
LEMMA SubsampleThins ==
  ASSUME NEW g, NEW length, NEW points, NEW kept, Thinning(g, length, points, kept)
  PROVE  Thinned(g, points, kept, Subsample(g, points))
<1>0. /\ IsGroup(g) /\ points \in Nat \ {0, 1} /\ length \in Nat /\ length > points
      /\ g.x = [k \in 1..length |-> g.x[k]] /\ kept = Positions(length, points)
  BY DEF Thinning
<1>1. Len(g.x) = length
  <2> DEFINE x == g.x
  <2>1. x = [k \in 1..length |-> x[k]] /\ length \in Nat
    BY <1>0
  <2> HIDE DEF x
  <2>2. Len(x) = length
    BY <2>1
  <2> QED BY <2>2 DEF x
<1>2. points # None
  BY <1>0, StudiesAssumption
<1>3. Subsample(g, points) =
        [g EXCEPT !.x = [i \in 1..points |-> @[kept[i]]],
                  !.mean = [i \in 1..points |-> @[kept[i]]],
                  !.squared = [i \in 1..points |-> @[kept[i]]]]
  <2>1. ~(length <= points)
    BY <1>0
  <2> QED BY <1>0, <1>1, <1>2, <2>1, Zenon DEF Subsample
<1>4. PICK x, mean, squared, fits, identity, repetitions, count :
        /\ g = [x |-> x, mean |-> mean, squared |-> squared, fits |-> fits,
                identity |-> identity, repetitions |-> repetitions, count |-> count]
        /\ x = g.x /\ mean = g.mean /\ squared = g.squared /\ count = g.count
  BY <1>0 DEF IsGroup
<1> DEFINE after == Subsample(g, points)
<1>5. /\ after.count = count /\ after.x = [i \in 1..points |-> x[kept[i]]]
      /\ after.mean = [i \in 1..points |-> mean[kept[i]]]
      /\ after.squared = [i \in 1..points |-> squared[kept[i]]]
  BY <1>3, <1>4
<1> HIDE DEF after
<1>6. Thinned(g, points, kept, after)
  BY <1>4, <1>5 DEF Thinned
<1> QED BY <1>6 DEF after

\* And stays true: the ends are among them.
LEMMA SubsampleIsTrue ==
  ASSUME NEW metric, NEW members, NEW g, IsTrue(metric, members, g), IsGroup(g),
         NEW length \in Nat \ {0}, g.x = [k \in 1..length |-> g.x[k]],
         NEW points, points = None \/ points \in Nat \ {0, 1}
  PROVE  IsTrue(metric, members, Subsample(g, points))
<1> DEFINE after == Subsample(g, points)
           kept == Positions(length, points)
           x == g.x
<1>1. Len(x) = length /\ DOMAIN x = 1..length /\ Last(x) = x[length]
  <2>1. x = [k \in 1..length |-> x[k]]
    OBVIOUS
  <2> HIDE DEF x
  <2> QED BY <2>1 DEF Last
<1>2. CASE points = None \/ length <= points
  <2>1. after = g
    BY <1>1, <1>2 DEF Subsample
  <2> QED BY <2>1
<1>3. CASE points # None /\ length > points
  <2>1. /\ after.count = g.count
        /\ after.x = [i \in 1..points |-> x[kept[i]]]
        /\ after.mean = [i \in 1..points |-> g.mean[kept[i]]]
        /\ after.squared = [i \in 1..points |-> g.squared[kept[i]]]
    <3>1. Thinning(g, length, points, kept)
      BY <1>3 DEF Thinning
    <3>2. Thinned(g, points, kept, after)
      BY <3>1, SubsampleThins
    <3> QED BY <3>2 DEF Thinned
  <2>2. kept[1] = 1 /\ kept[points] = length /\ \A i \in 1..points : kept[i] \in 1..length
    BY <1>3, PositionsAreEven
  <2> HIDE DEF kept, after
  <2>3. points \in Nat /\ 1 \in 1..points /\ points \in 1..points
    BY <1>3
  <2>4. after.x[1] = x[1] /\ Last(after.x) = x[length] /\ DOMAIN after.x = 1..points
    <3> DEFINE y == after.x
    <3>1. y = [i \in 1..points |-> x[kept[i]]]
      BY <2>1
    <3> HIDE DEF y, x
    <3>2. Len(y) = points /\ DOMAIN y = 1..points /\ y[1] = x[1] /\ y[points] = x[length]
      BY <2>2, <2>3, <3>1
    <3>3. Last(y) = x[length]
      BY <3>2 DEF Last
    <3> QED BY <3>2, <3>3 DEF y
  <2>5. ASSUME NEW i \in 1..points
        PROVE  /\ kept[i] \in DOMAIN x /\ after.x[i] = x[kept[i]]
               /\ after.mean[i] = g.mean[kept[i]] /\ after.squared[i] = g.squared[kept[i]]
    BY <1>1, <2>1, <2>2
  <2>6. \A i \in DOMAIN x : TrueAt(metric, members, g.count, x[i], g.mean[i], g.squared[i])
    BY DEF IsTrue
  <2>7. \A i \in DOMAIN after.x :
          TrueAt(metric, members, after.count, after.x[i], after.mean[i], after.squared[i])
    BY <2>1, <2>4, <2>5, <2>6
  <2>8. LET full == Alone(CHOOSE spec \in members : TRUE)
        IN /\ \A a, b \in members : ScientificIdentity(a) = ScientificIdentity(b)
           /\ after.count = Cardinality({spec.repetition : spec \in members})
           /\ after.x[1] = full[1].step /\ Last(after.x) = Last(full).step
    <3>1. LET full == Alone(CHOOSE spec \in members : TRUE)
          IN /\ \A a, b \in members : ScientificIdentity(a) = ScientificIdentity(b)
             /\ g.count = Cardinality({spec.repetition : spec \in members})
             /\ x[1] = full[1].step /\ Last(x) = Last(full).step
      BY Zenon DEF IsTrue
    <3> QED BY <1>1, <2>1, <2>4, <3>1, Zenon
  <2>9. IsTrue(metric, members, after)
    BY <2>7, <2>8, Zenon DEF IsTrue
  <2> QED BY <2>9 DEF after
<1> QED BY <1>2, <1>3

\* What RefusalsAreDeserved says of one run, and of one unit
Unsuited(metric, spec) ==
  \/ Alone(spec) = <<>> \/ ~Required(metric) \subseteq DOMAIN Life[RunId(spec)][1].row
  \/ metric.type = "pseudo_regret" /\ spec["data"].type \notin Bandits
  \/ metric.type # "field" /\ config.every > 1
Deserved(metric, members) ==
  \/ \E a, b \in members : ScientificIdentity(a) # ScientificIdentity(b)
  \/ \E spec \in members : Unsuited(metric, spec)

\* The property, refusal by refusal.
LEMMA RefusalsAreEachDeserved ==
  RefusalsAreDeserved <=> \A key \in refused : Deserved(key[1], Members(key[2]))
BY Zenon DEF RefusalsAreDeserved, Deserved, Unsuited

\* A result is insufficient only for one of these reasons.
LEMMA InsufficientIsUnsuited ==
  ASSUME EverythingIsExact, config # None, NEW spec \in Plan(config), Complete(spec),
         config.every \in Nat \ {0}, NEW metric, ~Sufficient(metric, Result(spec))
  PROVE  Unsuited(metric, spec)
<1> DEFINE science == RunId(spec)
           id == StorageId(config, spec)
           rows == Alone(spec)
           m == Asked(spec)
<1> SUFFICES ASSUME ~Unsuited(metric, spec) PROVE Sufficient(metric, Result(spec))
  OBVIOUS
<1>1. /\ rows # <<>> /\ Required(metric) \subseteq DOMAIN Life[science][1].row
      /\ metric.type = "pseudo_regret" => spec["data"].type \in Bandits
      /\ metric.type # "field" => ~(config.every > 1)
  BY DEF Unsuited
<1>2. Result(spec) = AResult(science, rows, m) /\ Observes(science, rows, m)
  BY ReadIsObserved
<1>3. /\ id.science = science /\ id.every = config.every /\ science \in RunIds
      /\ science["data"] = spec["data"]
  <2>1. spec \in Specs
    BY PlannedInSpecs DEF EverythingIsExact
  <2> QED BY <2>1, StorageIds, RunIdIsTheRun DEF SpecFields
<1>4. rows = Seen(id)[m] /\ Numbered(id.science, m)
  BY ResultIsSeen
<1> HIDE DEF science, id, rows, m
<1>5. m \in Nat \ {0} /\ Playable(science, m) /\ rows = [k \in 1..Len(rows) |-> rows[k]] /\ Len(rows) \in Nat
  BY <1>2 DEF Observes
<1>6. Len(rows) # 0
  BY <1>1, <1>5
<1>7. DOMAIN rows[1] = Fields(science)
  <2>1. 1 \in 1..Len(rows)
    BY <1>5, <1>6
  <2>2. rows[1] \in [Fields(science) -> Int]
    BY <1>2, <2>1, ObservedInNumbers
  <2> QED BY <2>2
<1>8. DOMAIN Life[science][1].row = Fields(science)
  <2>1. Playable(science, 1)
    BY <1>3, <1>5, PlayedBefore
  <2>2. IsObserved(science, 1)
    BY <1>3, <2>1, LifeIsObserved
  <2> QED BY <2>2 DEF IsObserved
<1>9. metric.type = "pseudo_regret" => "means" \in DOMAIN CreateInstance(science)
  BY <1>1, <1>3 DEF CreateInstance, Bandits
<1>10. ASSUME metric.type # "field" PROVE EveryStep(rows, m)
  <2>1. id.every = 1
    BY <1>1, <1>3, <1>10
  <2> QED BY <1>3, <1>4, <1>5, <2>1, NothingIsLeftOut
<1>11. metric.type # "field" => Len(rows) = m /\ \A i \in DOMAIN rows : rows[i].step = i
  BY <1>5, <1>10 DEF EveryStep
<1>12. Sufficient(metric, AResult(science, rows, m))
  BY <1>1, <1>7, <1>8, <1>9, <1>11 DEF Sufficient, AResult
<1> QED BY <1>2, <1>12

\* Runs of one science have the same points.
LEMMA SteppedAlike ==
  ASSUME EverythingIsExact, config # None, NEW metric,
         NEW a \in Plan(config), NEW b \in Plan(config), Complete(a), Complete(b),
         ScientificIdentity(a) = ScientificIdentity(b)
  PROVE  Compute(metric, Result(a)).x = Compute(metric, Result(b)).x
<1>1. \A spec \in {a, b} :
        /\ Compute(metric, Result(spec)).x = [k \in 1..Len(Alone(spec)) |-> Alone(spec)[k].step]
        /\ Len(Alone(spec)) \in Nat
  <2> SUFFICES ASSUME NEW spec \in Plan(config), Complete(spec)
               PROVE  /\ Compute(metric, Result(spec)).x = [k \in 1..Len(Alone(spec)) |-> Alone(spec)[k].step]
                      /\ Len(Alone(spec)) \in Nat
    OBVIOUS
  <2> DEFINE rows == Alone(spec)
  <2>1. Result(spec) = AResult(RunId(spec), rows, Asked(spec)) /\ Observes(RunId(spec), rows, Asked(spec))
    BY ReadIsObserved
  <2> HIDE DEF rows
  <2>2. rows = [k \in 1..Len(rows) |-> rows[k]] /\ Len(rows) \in Nat
    BY <2>1 DEF Observes
  <2>3. Result(spec).rows = rows
    BY <2>1 DEF AResult
  <2>4. Compute(metric, Result(spec)).x = [k \in DOMAIN rows |-> rows[k].step]
    BY <2>3 DEF Compute, Column
  <2> QED BY <2>2, <2>4 DEF rows
<1>2. Len(Alone(a)) = Len(Alone(b)) /\ \A k \in 1..Len(Alone(a)) : Alone(a)[k].step = Alone(b)[k].step
  BY SameScience
<1> QED BY <1>1, <1>2

\* A group does not fit only if it pools different sciences: complete runs of one science have
\* different repetitions and the same points.
LEMMA MisfitIsAnotherScience ==
  ASSUME NEW metric, NEW members, NEW order, NEW entries, NEW group, NEW n,
         Analyzing(metric, members, order, entries, group, n), ~group[n].fits
  PROVE  \E a, b \in members : ScientificIdentity(a) # ScientificIdentity(b)
<1> SUFFICES ASSUME \A a, b \in members : ScientificIdentity(a) = ScientificIdentity(b)
             PROVE  FALSE
  OBVIOUS
<1>1. /\ n \in Nat \ {0}
      /\ \A j \in 1..n : /\ order[j] \in members
                         /\ entries[j].repetition = order[j].repetition
                         /\ entries[j].identity = ScientificIdentity(order[j])
                         /\ entries[j].curve = Compute(metric, Result(order[j]))
      /\ \A i, j \in 1..n : order[i] = order[j] => i = j
  BY AnalysisBasics
<1>2. /\ EverythingIsExact /\ config # None /\ Groups(entries, group, n)
      /\ \A spec \in members : spec \in Plan(config) /\ Complete(spec)
  BY DEF Analyzing
<1>3. PICK i \in 0..(n - 1) : group[i].fits /\ ~Belongs(group[i], entries[i + 1])
  BY <1>1, <1>2, RefusedByAnEntry
<1>4. 1 \in 1..n /\ i + 1 \in 1..n /\ i \in 0..n
  BY <1>1, <1>3
<1>5. Collected(entries, group[i], i)
  BY <1>1, <1>2, <1>4, GroupsCollect
<1>6. /\ group[i].x = entries[1].curve.x /\ group[i].identity = entries[1].identity
      /\ group[i].repetitions = {entries[l].repetition : l \in 1..i}
  BY <1>3, <1>5 DEF Collected
<1>7. group[i].identity = entries[i + 1].identity
  BY <1>1, <1>4, <1>6
<1>8. group[i].x = entries[i + 1].curve.x
  <2>1. Compute(metric, Result(order[1])).x = Compute(metric, Result(order[i + 1])).x
    BY <1>1, <1>2, <1>4, SteppedAlike
  <2> QED BY <1>1, <1>4, <1>6, <2>1
<1>9. entries[i + 1].repetition \notin group[i].repetitions
  <2> SUFFICES ASSUME NEW l \in 1..i, entries[l].repetition = entries[i + 1].repetition
               PROVE  FALSE
    BY <1>6
  <2>1. l \in 1..n /\ l # i + 1
    BY <1>1, <1>3
  <2>2. order[l].repetition = order[i + 1].repetition /\ order[l] \in members /\ order[i + 1] \in members
    BY <1>1, <1>4, <2>1
  <2>3. order[l] = order[i + 1]
    BY <1>2, <2>2, SameScience
  <2> QED BY <1>1, <1>4, <2>1, <2>3
<1> QED BY <1>3, <1>7, <1>8, <1>9 DEF Belongs

-----------------------------------------------------------------------------
(* The analyses of a behavior *)

AloneIn(c, spec) ==
  Sampled(Life[RunId(spec)],
          {i \in Nat : \/ Life[RunId(spec)][i].protocol.step % c.every = 0
                       \/ Finished(spec, Life[RunId(spec)][i]) /\ ~Extendable(spec)})
    [IF spec.budget = None THEN 1 ELSE spec.budget]
MembersIn(c, unit) == {spec \in Plan(c) : [l \in c.by |-> Label(spec, l)] = unit}

\* What an analysis means depends on the configuration only.
LEMMA MeaningStays ==
  ASSUME config' = config, NEW metric, NEW members, NEW summary, NEW unit
  PROVE  /\ IsTrue(metric, members, summary)' <=> IsTrue(metric, members, summary)
         /\ Deserved(metric, members)' <=> Deserved(metric, members)
         /\ Members(unit)' = Members(unit)
<1>1. \A spec : Alone(spec)' = Alone(spec)
  <2> TAKE spec
  <2>1. Alone(spec) = AloneIn(config, spec)
    BY Zenon DEF Alone, Observed, Recorded, AloneIn
  <2>2. Alone(spec)' = AloneIn(config', spec)
    BY Zenon DEF Alone, Observed, Recorded, AloneIn
  <2> QED BY <2>1, <2>2, Zenon
<1>2. Members(unit)' = Members(unit)
  <2>1. Members(unit) = MembersIn(config, unit)
    BY Zenon DEF Members, Unit, MembersIn
  <2>2. Members(unit)' = MembersIn(config', unit)
    BY Zenon DEF Members, Unit, MembersIn
  <2> QED BY <2>1, <2>2, Zenon
<1>3. IsTrue(metric, members, summary)' <=> IsTrue(metric, members, summary)
  BY <1>1, Zenon DEF IsTrue
<1>4. Deserved(metric, members)' <=> Deserved(metric, members)
  <2>1. \A spec : Unsuited(metric, spec)' <=> Unsuited(metric, spec)
    BY <1>1, Zenon DEF Unsuited
  <2> QED BY <2>1, Zenon DEF Deserved
<1> QED BY <1>2, <1>3, <1>4

\* Sessions do not touch the analysis.
LEMMA NothingAnalyzedKeeps ==
  ASSUME UNCHANGED <<config, summaries, refused>>, SummariesAreTrue, RefusalsAreDeserved
  PROVE  SummariesAreTrue' /\ RefusalsAreDeserved'
<1>1. \A key \in DOMAIN summaries : IsTrue(key[1], Members(key[2]), summaries[key])
  BY SummariesAreEachTrue
<1>2. \A key \in refused : Deserved(key[1], Members(key[2]))
  BY RefusalsAreEachDeserved
<1>3. \A key \in DOMAIN summaries' : IsTrue(key[1], Members(key[2]), summaries[key])'
  <2> SUFFICES ASSUME NEW key \in DOMAIN summaries
               PROVE  IsTrue(key[1], Members(key[2]), summaries[key])'
    OBVIOUS
  <2> QED BY <1>1, MeaningStays
<1>4. \A key \in refused' : Deserved(key[1], Members(key[2]))'
  BY <1>2, MeaningStays
<1>5. SummariesAreTrue'
  BY <1>3, Zenon DEF SummariesAreTrue, IsTrue, TrueAt
<1>6. RefusalsAreDeserved'
  BY <1>4, Zenon DEF RefusalsAreDeserved, Deserved, Unsuited
<1> QED BY <1>5, <1>6
\* A new request starts without one.
LEMMA RequestAnalyzesNothing ==
  ASSUME NEW c, Request(c)
  PROVE  SummariesAreTrue' /\ RefusalsAreDeserved'
<1>1. summaries' = <<>> /\ refused' = {}
  BY DEF Request
<1>2. DOMAIN summaries' = {}
  BY <1>1
<1> QED BY <1>1, <1>2 DEF SummariesAreTrue, RefusalsAreDeserved

\* One analysis: the entries of its unit are added in some order.
LEMMA AnalysisUnfolds ==
  ASSUME EverythingIsExact, config # None, NEW metric \in config.metrics, NEW unit,
         unit \in {Unit(spec) : spec \in Plan(config)}, Analyze(metric, unit)
  PROVE  \E order, entries, group, n :
           /\ Analyzing(metric, Members(unit), order, entries, group, n)
           /\ IF (\A spec \in Members(unit) : Sufficient(metric, Result(spec))) /\ group[n].fits
              THEN /\ summaries' = With(summaries, <<metric, unit>>, Subsample(group[n], config.points))
                   /\ UNCHANGED refused
              ELSE refused' = refused \union {<<metric, unit>>} /\ UNCHANGED summaries
<1> DEFINE members == Members(unit)
           n == Cardinality(members)
<1>1. PICK order \in SetToSeqs(members) :
        LET entries == [i \in DOMAIN order |-> Entry(metric, order[i])]
            group == Aggregate(entries)
        IN IF (\A spec \in members : Sufficient(metric, Result(spec))) /\ group.fits
           THEN /\ summaries' = With(summaries, <<metric, unit>>, Subsample(group, config.points))
                /\ UNCHANGED refused
           ELSE refused' = refused \union {<<metric, unit>>} /\ UNCHANGED summaries
  BY Zenon DEF Analyze
<1>2. \A spec \in members : Complete(spec)
  BY DEF Analyze
<1>3. members \subseteq Plan(config) /\ members # {}
  BY DEF Members
<1>4. IsFiniteSet(members)
  <2>1. IsFiniteSet(Plan(config))
    BY ConfigAssumption DEF EverythingIsExact, ConfigIsAccepted
  <2> QED BY <1>3, <2>1, FS_Subset
<1> HIDE DEF members
<1>5. n \in Nat /\ DOMAIN order = 1..n
  BY <1>4, OrderCovers
<1> HIDE DEF n
<1> DEFINE entries == [i \in DOMAIN order |-> Entry(metric, order[i])]
<1>6. Len(entries) = n
  BY <1>5
<1>7. PICK group : Groups(entries, group, n) /\ Aggregate(entries) = group[n]
  <2> HIDE DEF entries
  <2> QED BY <1>5, <1>6, AggregateUnfolds
<1>8. Analyzing(metric, members, order, entries, group, n)
  BY <1>2, <1>3, <1>7 DEF Analyzing, n
<1>9. IF (\A spec \in members : Sufficient(metric, Result(spec))) /\ group[n].fits
      THEN /\ summaries' = With(summaries, <<metric, unit>>, Subsample(group[n], config.points))
           /\ UNCHANGED refused
      ELSE refused' = refused \union {<<metric, unit>>} /\ UNCHANGED summaries
  BY <1>1, <1>7, Zenon
<1> HIDE DEF entries
<1> QED BY <1>8, <1>9 DEF members

\* An analysis publishes what is true or refuses what it could not compute.
LEMMA AnalyzeKeepsTrue ==
  ASSUME EverythingIsExact, config # None, NEW metric \in config.metrics, NEW unit,
         unit \in {Unit(spec) : spec \in Plan(config)}, Analyze(metric, unit),
         SummariesAreTrue, RefusalsAreDeserved
  PROVE  SummariesAreTrue' /\ RefusalsAreDeserved'
<1> DEFINE members == Members(unit)
           key == <<metric, unit>>
<1>1. PICK order, entries, group, n :
        /\ Analyzing(metric, members, order, entries, group, n)
        /\ IF (\A spec \in members : Sufficient(metric, Result(spec))) /\ group[n].fits
           THEN /\ summaries' = With(summaries, key, Subsample(group[n], config.points))
                /\ UNCHANGED refused
           ELSE refused' = refused \union {key} /\ UNCHANGED summaries
  BY AnalysisUnfolds
<1>2. config' = config
  BY DEF Analyze
<1>3. \A k \in DOMAIN summaries : IsTrue(k[1], Members(k[2]), summaries[k])
  BY SummariesAreEachTrue
<1>4. \A k \in refused : Deserved(k[1], Members(k[2]))
  BY RefusalsAreEachDeserved
<1>5. key[1] = metric /\ Members(key[2]) = members
  OBVIOUS
<1> HIDE DEF members, key
<1>6. ASSUME \A spec \in members : Sufficient(metric, Result(spec)), group[n].fits
      PROVE  \A k \in DOMAIN summaries' : IsTrue(k[1], Members(k[2]), summaries'[k])
  <2> DEFINE new == Subsample(group[n], config.points)
  <2>1. /\ IsTrue(metric, members, group[n]) /\ IsGroup(group[n])
        /\ \E length \in Nat \ {0} : group[n].x = [k \in 1..length |-> group[n].x[k]]
    BY <1>1, <1>6, GroupIsTrue
  <2>2. config.points = None \/ config.points \in Nat \ {0, 1}
    BY ConfigAssumption DEF EverythingIsExact, ConfigIsAccepted
  <2>3. IsTrue(metric, members, new)
    BY <2>1, <2>2, SubsampleIsTrue
  <2> HIDE DEF new
  <2>4. summaries' = With(summaries, key, new)
    BY <1>1, <1>6 DEF new
  <2>5. /\ DOMAIN summaries' = {key} \union DOMAIN summaries
        /\ summaries'[key] = new
        /\ \A k \in DOMAIN summaries \ {key} : summaries'[k] = summaries[k]
    BY <2>4 DEF With
  <2> QED BY <1>3, <1>5, <2>3, <2>5
<1>7. ASSUME ~((\A spec \in members : Sufficient(metric, Result(spec))) /\ group[n].fits)
      PROVE  Deserved(metric, members)
  <2>1. CASE ~group[n].fits
    BY <1>1, <2>1, MisfitIsAnotherScience DEF Deserved
  <2>2. CASE \E spec \in members : ~Sufficient(metric, Result(spec))
    <3>1. PICK spec \in members : ~Sufficient(metric, Result(spec))
      BY <2>2
    <3>2. spec \in Plan(config) /\ Complete(spec)
      BY <1>1 DEF Analyzing
    <3>3. config.every \in Nat \ {0}
      BY <1>1, AnalysisBasics
    <3>4. Unsuited(metric, spec)
      BY <3>1, <3>2, <3>3, InsufficientIsUnsuited
    <3> QED BY <3>4 DEF Deserved
  <2> QED BY <1>7, <2>1, <2>2
<1>8. \A k \in DOMAIN summaries' : IsTrue(k[1], Members(k[2]), summaries'[k])
  BY <1>1, <1>3, <1>6
<1>9. \A k \in refused' : Deserved(k[1], Members(k[2]))
  BY <1>1, <1>4, <1>5, <1>7
<1>10. \A k \in DOMAIN summaries' : IsTrue(k[1], Members(k[2]), summaries[k])'
  BY <1>2, <1>8, MeaningStays
<1>11. \A k \in refused' : Deserved(k[1], Members(k[2]))'
  BY <1>2, <1>9, MeaningStays
<1>12. SummariesAreTrue'
  BY <1>10, Zenon DEF SummariesAreTrue, IsTrue, TrueAt
<1>13. RefusalsAreDeserved'
  BY <1>11, Zenon DEF RefusalsAreDeserved, Deserved, Unsuited
<1> QED BY <1>12, <1>13

\* The inductive invariant of the analysis: it rests on every variant it reads being exact.
AnalysisIsExact == EverythingIsExact /\ SummariesAreTrue /\ RefusalsAreDeserved

\* For any studies, sessions and order of analysis: a summary is of one science, counts each
\* repetition once and has the exact mean and squared deviation of its metric over uninterrupted
\* runs at every point; a refusal is deserved; and the points kept are even (pipeline.py:
\* _RepetitionAccumulator, _subsample_summary; builtins/metrics.py).
THEOREM Truth == Spec => []AnalysisIsTrue
<1>1. Init => AnalysisIsExact
  <2> SUFFICES ASSUME Init PROVE SummariesAreTrue /\ RefusalsAreDeserved
    BY InitIsExact DEF AnalysisIsExact
  <2>1. summaries = <<>> /\ refused = {}
    BY DEF Init
  <2>2. DOMAIN summaries = {}
    BY <2>1
  <2> QED BY <2>1, <2>2 DEF SummariesAreTrue, RefusalsAreDeserved
<1>2. AnalysisIsExact /\ [Next]_vars => AnalysisIsExact'
  <2> SUFFICES ASSUME EverythingIsExact, SummariesAreTrue, RefusalsAreDeserved, [Next]_vars
               PROVE  SummariesAreTrue' /\ RefusalsAreDeserved'
    BY NextKeeps, UnchangedKeeps DEF AnalysisIsExact
  <2>1. CASE \E c \in study : Request(c)
    BY <2>1, RequestAnalyzesNothing
  <2>2. CASE \E spec \in todo : Skip(spec) \/ Open(spec)
    <3>1. UNCHANGED <<config, summaries, refused>>
      BY <2>2, Zenon DEF Skip, Open
    <3> QED BY <3>1, NothingAnalyzedKeeps
  <2>3. CASE Advance \/ Checkpoint \/ Pause \/ Raise \/ Finish \/ Kill
    <3>1. UNCHANGED <<config, summaries, refused>>
      BY <2>3, Zenon DEF Advance, Checkpoint, Pause, Raise, Finish, Kill, Leave
    <3> QED BY <3>1, NothingAnalyzedKeeps
  <2>4. CASE config # None /\ \E metric \in config.metrics, unit \in {Unit(spec) : spec \in Plan(config)} :
               Analyze(metric, unit)
    BY <2>4, AnalyzeKeepsTrue
  <2>5. CASE UNCHANGED vars
    <3>1. UNCHANGED <<config, summaries, refused>>
      BY <2>5 DEF vars
    <3> QED BY <3>1, NothingAnalyzedKeeps
  <2> QED BY <2>1, <2>2, <2>3, <2>4, <2>5 DEF Next
<1>3. AnalysisIsExact => AnalysisIsTrue
  BY EvenSubsamples DEF AnalysisIsExact, AnalysisIsTrue
<1> QED BY <1>1, <1>2, <1>3, PTL DEF Spec
=============================================================================
