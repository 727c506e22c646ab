---------------------------- MODULE MemoryProofs ----------------------------
(* Proofs about Memory for every set of orders and causes, every capacity of  *)
(* the task store and every number of runs, starts and failed saves.  What    *)
(* holds of the memory of a process holds of what its files would load, so    *)
(* the invariant is stated of any store and index, and of the runs that each  *)
(* has to account for.                                                        *)
EXTENDS Memory, TLAPS, SequenceTheorems, FiniteSetTheorems

-----------------------------------------------------------------------------
(* A store and its index, of which run r[n] is the n-th. *)

Ids == Nat \X Orders
Reports == [order : Orders, second : Nat, cause : Causes, success : BOOLEAN]
IdOf(r, n) == <<r[n].second, r[n].order>>
HeldIn(T) == {T[i] : i \in DOMAIN T}

\* Tasks of runs, each under its own id and once in the index of its order.
Matched(r, T, X) ==
    /\ DOMAIN T \subseteq Ids /\ IsFiniteSet(DOMAIN T)
    /\ T \in [DOMAIN T -> 1..Len(r)]
    /\ \A i \in DOMAIN T : IdOf(r, T[i]) = i
    /\ X \in [Orders -> Seq(Ids)]
    /\ \A o \in Orders : ToSet(X[o]) = {i \in DOMAIN T : i[2] = o}

Sound(r, T, X) == Matched(r, T, X) /\ Cardinality(DOMAIN T) <= MaxKept

\* Run n is in the store, or it is explained why not.
Recalls(r, T, n) ==
    \/ n \in HeldIn(T)
    \/ \E m \in HeldIn(T) : m > n /\ IdOf(r, m) = IdOf(r, n)
    \/ Cardinality(DOMAIN T) >= MaxKept /\ \A m \in HeldIn(T) : m > n

\* The successes with this cause among the runs of S.
Taken(r, S, c) == {n \in S : r[n].success /\ r[n].cause = c}
CountOf(r, S, c) == Cardinality(Taken(r, S, c))

-----------------------------------------------------------------------------
(* The inductive invariant. *)

Labels == {"down", "idle", "recorded", "tasks open", "remembered", "learned", "lessons open", "taught"}

TypeOK ==
    /\ at \in Labels
    /\ runs \in Seq(Reports)
    /\ at \notin {"down", "idle"} => runs # <<>>
    /\ learned \in [Causes -> Nat] /\ LoadedLessons \in [Causes -> Nat]
    /\ log \in Seq(1..Len(runs))
    /\ lost \in Nat /\ unlearned \in Nat

Stored ==
    /\ Sound(runs, tasks, index)
    /\ Sound(runs, LoadedTasks, LoadedIndex)

\* The runs that a part of the memory accounts for: those of the log, and the one that is
\* being remembered once run_task has come so far.
From(labels) == Logged \cup IF at \in labels THEN {Len(runs)} ELSE {}

LoggingLabels == {"taught"}
SavingLabels == {"learned", "lessons open"} \cup LoggingLabels
LearningLabels == {"remembered"} \cup SavingLabels
RecordingLabels == {"recorded", "tasks open"} \cup LearningLabels

Recalled ==
    /\ at # "down" => \A n \in From(RecordingLabels) : n <= lost \/ Recalls(runs, tasks, n)
    /\ taskFile.state # "torn" /\ "tasks" \notin stale =>
           \A n \in From(LearningLabels) : n <= lost \/ Recalls(runs, LoadedTasks, n)

\* The runs that a count of lessons may include, and those that it has to.
AtMost == 1..(IF at \in RecordingLabels \ SavingLabels THEN Len(runs) - 1 ELSE Len(runs))
AtLeast(labels) == {n \in From(labels) : n > unlearned}

Taught ==
    /\ at # "down" => \A c \in Causes :
           /\ CountOf(runs, AtLeast(SavingLabels), c) <= learned[c]
           /\ learned[c] <= CountOf(runs, AtMost, c)
    /\ lessonFile.state # "torn" /\ "lessons" \notin stale =>
           \A c \in Causes : CountOf(runs, AtLeast(LoggingLabels), c) <= LoadedLessons[c]
    /\ \A c \in Causes : LoadedLessons[c] <= CountOf(runs, DOMAIN runs, c)

IInv == TypeOK /\ Stored /\ Recalled /\ Taught
-----------------------------------------------------------------------------
(* Recursion and least elements. *)

\* A nonempty set of naturals has a least element.  The sets 0..(n - 1) stand for the
\* numbers, because finite sets are well founded under strict inclusion.
LEMMA NatMin ==
    ASSUME NEW S \in SUBSET Nat, S # {}
    PROVE  \E m \in S : \A n \in S : m <= n
<1> DEFINE R == StrictSubsetOrdering(Nat)
           Below == {0..(n - 1) : n \in S}
<1>1. IsWellFoundedOn(R, FiniteSubsetsOf(Nat))
  BY FS_StrictSubsetOrderingWellFounded
<1>2. Below \subseteq FiniteSubsetsOf(Nat)
  <2> SUFFICES ASSUME NEW n \in S PROVE 0..(n - 1) \in FiniteSubsetsOf(Nat)
    OBVIOUS
  <2>1. n \in Nat
    OBVIOUS
  <2>2. IsFiniteSet(0..(n - 1))
    BY <2>1, FS_Interval
  <2>3. QED
    BY <2>1, <2>2 DEF FiniteSubsetsOf
<1>3. PICK X \in Below : \A Y \in Below : <<Y, X>> \notin R
  <2> HIDE DEF R, Below
  <2>1. Below # {}
    BY DEF Below
  <2>2. QED
    BY <1>1, <1>2, <2>1, WFMin
<1>4. PICK m \in S : X = 0..(m - 1)
  OBVIOUS
<1>5. ASSUME NEW n \in S, n < m PROVE FALSE
  <2>1. m \in Nat /\ n \in Nat
    OBVIOUS
  <2>2. 0..(n - 1) \subseteq 0..(m - 1)
    BY <1>5, <2>1
  <2>3. n \in 0..(m - 1) /\ n \notin 0..(n - 1)
    BY <1>5, <2>1
  <2>4. <<0..(n - 1), 0..(m - 1)>> \in R
    BY <2>1, <2>2, <2>3 DEF StrictSubsetOrdering
  <2>5. QED
    BY <1>3, <1>4, <2>4
<1>6. QED
  BY <1>5

\* A function on 0..N with values in S whose value at k comes from the one before.
Recurs(N, S, z, g) ==
    \E f \in [0..N -> S] : \A k \in 0..N : f[k] = IF k = 0 THEN z ELSE g[k][f[k - 1]]

\* There is one.
LEMMA Recursion ==
    ASSUME NEW N \in Nat, NEW S, NEW z \in S, NEW g \in [1..N -> [S -> S]]
    PROVE  Recurs(N, S, z, g)
<1> USE DEF Recurs
<1> DEFINE Upto(f, n) == \A k \in 0..n : f[k] = IF k = 0 THEN z ELSE g[k][f[k - 1]]
           Bad == {n \in 0..N : ~ \E f \in [0..n -> S] : Upto(f, n)}
<1>1. SUFFICES ASSUME Bad # {} PROVE FALSE
  <2>1. N \in 0..N
    OBVIOUS
  <2>2. QED
    BY <2>1
<1>2. PICK m \in Bad : \A n \in Bad : m <= n
  <2>1. Bad \in SUBSET Nat
    OBVIOUS
  <2>2. QED
    BY <1>1, <2>1, NatMin
<1>3. m \in 0..N
  OBVIOUS
<1>4. CASE m = 0
  <2>1. [k \in 0..0 |-> z] \in [0..0 -> S] /\ Upto([k \in 0..0 |-> z], 0)
    OBVIOUS
  <2>2. QED
    BY <1>4, <2>1
<1>5. CASE m # 0
  <2>1. m - 1 \in 0..N /\ m - 1 \notin Bad
    <3>1. m - 1 \in 0..N /\ ~(m <= m - 1)
      BY <1>3, <1>5
    <3> HIDE DEF Bad
    <3>2. QED
      BY <1>2, <3>1
  <2>2. PICK f \in [0..(m - 1) -> S] : Upto(f, m - 1)
    BY <2>1
  <2>3. g[m][f[m - 1]] \in S
    BY <1>3, <1>5
  <2> DEFINE h == [k \in 0..m |-> IF k < m THEN f[k] ELSE g[m][f[m - 1]]]
  <2>4. h \in [0..m -> S]
    BY <1>3, <2>3
  <2>5. Upto(h, m)
    <3> SUFFICES ASSUME NEW k \in 0..m PROVE h[k] = IF k = 0 THEN z ELSE g[k][h[k - 1]]
      OBVIOUS
    <3>1. CASE k = m
      <4>1. m - 1 \in 0..m /\ m - 1 < m /\ m \in 0..m /\ ~(m < m)
        BY <1>3, <1>5
      <4>2. h[m - 1] = f[m - 1] /\ h[m] = g[m][f[m - 1]]
        BY <4>1
      <4> HIDE DEF h
      <4>3. QED
        BY <1>5, <3>1, <4>2
    <3>2. CASE k # m
      <4>1. k \in 0..(m - 1) /\ (k # 0 => k - 1 \in 0..m /\ k - 1 < m)
        BY <1>3, <3>2
      <4>2. h[k] = f[k] /\ (k # 0 => h[k - 1] = f[k - 1])
        BY <1>3, <3>2, <4>1
      <4>3. QED
        BY <2>2, <4>1, <4>2
    <3>3. QED
      BY <3>1, <3>2
  <2>6. QED
    BY <2>4, <2>5
<1>6. QED
  BY <1>4, <1>5

\* Taking an id off a list leaves the other ids of the list.
LEMMA UnlistedFacts ==
    ASSUME NEW S, NEW ids \in Seq(S), NEW i
    PROVE  Unlisted(ids, i) \in Seq(S) /\ ToSet(Unlisted(ids, i)) = ToSet(ids) \ {i}
<1>1. PICK N \in Nat : N = Len(ids) /\ ids \in [1..N -> S]
  BY LenProperties
<1> DEFINE g == [n \in 1..N |-> [q \in Seq(S) |-> IF ids[n] # i THEN Append(q, ids[n]) ELSE q]]
<1>2. ASSUME NEW n \in 1..N, NEW q \in Seq(S)
      PROVE  /\ (IF ids[n] # i THEN Append(q, ids[n]) ELSE q) \in Seq(S)
             /\ g[n][q] = IF ids[n] # i THEN Append(q, ids[n]) ELSE q
  <2>1. ids[n] \in S
    BY <1>1
  <2>2. g[n][q] = IF ids[n] # i THEN Append(q, ids[n]) ELSE q
    OBVIOUS
  <2>3. Append(q, ids[n]) \in Seq(S)
    BY <2>1
  <2> HIDE DEF g
  <2>4. QED
    BY <2>2, <2>3
<1>3. g \in [1..N -> [Seq(S) -> Seq(S)]]
  BY <1>2
<1>4. PICK f \in [0..N -> Seq(S)] :
         \A n \in 0..N : f[n] = IF n = 0 THEN <<>> ELSE g[n][f[n - 1]]
  <2>1. <<>> \in Seq(S)
    OBVIOUS
  <2> HIDE DEF g
  <2>2. Recurs(N, Seq(S), <<>>, g)
    BY <1>3, <2>1, Recursion
  <2>3. QED
    BY <2>2 DEF Recurs
<1>5. \A n \in 1..N : n \in 0..N /\ n # 0 /\ n - 1 \in 0..N /\ f[n - 1] \in Seq(S)
  OBVIOUS
<1>6. f = [n \in 0..N |->
             IF n = 0 THEN <<>>
             ELSE IF ids[n] # i THEN Append(f[n - 1], ids[n]) ELSE f[n - 1]]
  <2>1. \A n \in 0..N : n # 0 => n \in 1..N
    OBVIOUS
  <2> HIDE DEF g
  <2>2. \A n \in 0..N : f[n] =
             IF n = 0 THEN <<>>
             ELSE IF ids[n] # i THEN Append(f[n - 1], ids[n]) ELSE f[n - 1]
    BY <1>2, <1>4, <1>5, <2>1
  <2>3. QED
    BY <2>2
<1>7. PICK K : K = CHOOSE h : h = [n \in 0..N |->
             IF n = 0 THEN <<>>
             ELSE IF ids[n] # i THEN Append(h[n - 1], ids[n]) ELSE h[n - 1]]
  OBVIOUS
<1>8. K[N] = Unlisted(ids, i)
  BY <1>1, <1>7 DEF Unlisted
<1>9. K = [n \in 0..N |->
             IF n = 0 THEN <<>>
             ELSE IF ids[n] # i THEN Append(K[n - 1], ids[n]) ELSE K[n - 1]]
  BY <1>6, <1>7
<1> DEFINE Longer(n) == Append(K[n - 1], ids[n])
<1>10. /\ K[0] = <<>>
       /\ \A n \in 1..N : K[n] = IF ids[n] # i THEN Longer(n) ELSE K[n - 1]
  <2>1. \A n \in 0..N : K[n] =
             IF n = 0 THEN <<>> ELSE IF ids[n] # i THEN Longer(n) ELSE K[n - 1]
    BY <1>9
  <2>2. 0 \in 0..N
    OBVIOUS
  <2> HIDE DEF Longer
  <2>3. QED
    BY <1>5, <2>1, <2>2
<1> DEFINE Rest(n) == {ids[j] : j \in 1..n} \ {i}
           Good(n) == K[n] \in Seq(S) /\ ToSet(K[n]) = Rest(n)
           Bad == {n \in 0..N : ~Good(n)}
<1>11. Good(0)
  BY <1>10 DEF ToSet
<1>12. ASSUME NEW n \in 1..N, Good(n - 1) PROVE Good(n)
  <2>1. n \in Nat /\ n - 1 \in Nat /\ 1..n = 1..(n - 1) \cup {n}
    OBVIOUS
  <2>2. Rest(n) = IF ids[n] # i THEN Rest(n - 1) \cup {ids[n]} ELSE Rest(n - 1)
    BY <2>1
  <2>3. PICK q, v : q = K[n - 1] /\ v = ids[n] /\ q \in Seq(S) /\ v \in S
    BY <1>1, <1>12
  <2>4. Append(q, v) \in Seq(S) /\ ToSet(Append(q, v)) = ToSet(q) \cup {v}
    <3>1. PICK l \in Nat : l = Len(q) /\ DOMAIN q = 1..l
      BY <2>3
    <3>2. /\ DOMAIN Append(q, v) = 1..(l + 1)
          /\ Append(q, v)[l + 1] = v
          /\ \A j \in 1..l : Append(q, v)[j] = q[j]
      BY <2>3, <3>1
    <3>3. 1..(l + 1) = 1..l \cup {l + 1}
      OBVIOUS
    <3>4. ToSet(Append(q, v)) = ToSet(q) \cup {v}
      BY <3>1, <3>2, <3>3 DEF ToSet
    <3>5. QED
      BY <2>3, <3>4
  <2>5. K[n] = IF v # i THEN Append(q, v) ELSE q
    BY <1>10, <2>3
  <2>6. ToSet(q) = Rest(n - 1)
    BY <1>12, <2>3
  <2> HIDE DEF Rest
  <2>7. CASE v # i
    BY <2>2, <2>3, <2>4, <2>5, <2>6, <2>7
  <2>8. CASE v = i
    BY <2>2, <2>3, <2>5, <2>6, <2>8
  <2>9. QED
    BY <2>7, <2>8
<1>13. Bad = {}
  <2> HIDE DEF Good
  <2>1. SUFFICES ASSUME Bad # {} PROVE FALSE
    OBVIOUS
  <2>2. PICK m \in Bad : \A b \in Bad : m <= b
    <3>1. Bad \in SUBSET Nat
      OBVIOUS
    <3> HIDE DEF Bad
    <3>2. QED
      BY <2>1, <3>1, NatMin
  <2>3. m \in 1..N /\ m - 1 \in 0..N /\ ~(m <= m - 1)
    BY <1>11
  <2>4. m - 1 \notin Bad
    <3> HIDE DEF Bad
    <3>1. QED
      BY <2>2, <2>3
  <2>5. QED
    BY <1>12, <2>3, <2>4
<1>14. Good(N)
  <2> HIDE DEF Good
  <2>1. N \in 0..N
    OBVIOUS
  <2>2. QED
    BY <1>13, <2>1
<1>15. Rest(N) = ToSet(ids) \ {i}
  BY <1>1 DEF ToSet
<1>16. QED
  BY <1>8, <1>14, <1>15

-----------------------------------------------------------------------------
(* record_task, on any store. *)

\* A report more changes nothing for the runs before it.
LEMMA LongerRuns ==
    ASSUME NEW r \in Seq(Reports), NEW e \in Reports, NEW T, NEW X, Matched(r, T, X)
    PROVE  /\ Matched(Append(r, e), T, X)
           /\ \A n \in 1..Len(r) : Recalls(r, T, n) => Recalls(Append(r, e), T, n)
<1>1. PICK l \in Nat : l = Len(r) /\ DOMAIN r = 1..l
  BY LenProperties
<1>2. PICK q : q = Append(r, e)
  OBVIOUS
<1>3. Len(q) = l + 1 /\ \A n \in 1..l : q[n] = r[n]
  BY <1>1, <1>2
<1>4. \A n \in 1..l : IdOf(q, n) = IdOf(r, n)
  BY <1>3 DEF IdOf
<1>5. \A i \in DOMAIN T : T[i] \in 1..l
  BY <1>1 DEF Matched
<1>6. HeldIn(T) \subseteq 1..l
  BY <1>5 DEF HeldIn
<1>7. Matched(q, T, X)
  <2>1. T \in [DOMAIN T -> 1..(l + 1)]
    BY <1>1 DEF Matched
  <2>2. \A i \in DOMAIN T : IdOf(q, T[i]) = i
    BY <1>4, <1>5 DEF Matched
  <2>3. QED
    BY <1>3, <2>1, <2>2 DEF Matched
<1>8. ASSUME NEW n \in 1..l, Recalls(r, T, n) PROVE Recalls(q, T, n)
  <2>1. CASE \E m \in HeldIn(T) : m > n /\ IdOf(r, m) = IdOf(r, n)
    BY <1>4, <1>6, <2>1 DEF Recalls
  <2>2. QED
    BY <1>8, <2>1 DEF Recalls
<1>9. QED
  BY <1>1, <1>2, <1>7, <1>8

\* The last run put into the store and, once more, into the index.
Stocked(T, i, n) == [j \in DOMAIN T \cup {i} |-> IF j = i THEN n ELSE T[j]]
Indexed(X, i) == [X EXCEPT ![i[2]] = Append(@, i)]

LEMMA Stocking ==
    ASSUME NEW r \in Seq(Reports), NEW T, NEW X, Sound(r, T, X), NEW N \in Nat \ {0}, N = Len(r),
           NEW i \in Ids, i = IdOf(r, N)
    PROVE  /\ Matched(r, Stocked(T, i, N), Indexed(X, i))
           /\ Cardinality(DOMAIN Stocked(T, i, N)) <= MaxKept + 1
           /\ \A n \in 1..(N - 1) : Recalls(r, T, n) => Recalls(r, Stocked(T, i, N), n)
           /\ Recalls(r, Stocked(T, i, N), N)
<1> DEFINE U == Stocked(T, i, N)
           Y == Indexed(X, i)
<1>1. DOMAIN U = DOMAIN T \cup {i} /\ U[i] = N /\ \A j \in DOMAIN T : j # i => U[j] = T[j]
  BY DEF Stocked
<1>2. /\ DOMAIN T \subseteq Ids /\ IsFiniteSet(DOMAIN T) /\ Cardinality(DOMAIN T) <= MaxKept
      /\ T \in [DOMAIN T -> 1..N]
      /\ \A j \in DOMAIN T : IdOf(r, T[j]) = j
  BY DEF Sound, Matched
<1>3. /\ IsFiniteSet(DOMAIN U) /\ Cardinality(DOMAIN U) \in Nat
      /\ Cardinality(DOMAIN U) <= MaxKept + 1 /\ Cardinality(DOMAIN U) >= Cardinality(DOMAIN T)
  <2> HIDE DEF U
  <2>1. /\ IsFiniteSet(DOMAIN T \cup {i})
        /\ Cardinality(DOMAIN T \cup {i})
           = IF i \in DOMAIN T THEN Cardinality(DOMAIN T) ELSE Cardinality(DOMAIN T) + 1
    BY <1>2, FS_AddElement
  <2>2. Cardinality(DOMAIN T) \in Nat
    BY <1>2, FS_CardinalityType
  <2>3. QED
    BY <1>1, <1>2, <2>1, <2>2, BoundAssumption
<1>4. U \in [DOMAIN U -> 1..N]
  <2>1. \A j \in DOMAIN U : U[j] \in 1..N
    BY <1>1, <1>2
  <2>2. U = [j \in DOMAIN U |-> U[j]]
    BY DEF Stocked
  <2> HIDE DEF U
  <2>3. QED
    BY <2>1, <2>2
<1>5. \A j \in DOMAIN U : IdOf(r, U[j]) = j
  BY <1>1, <1>2
<1>6. PICK s, o : i = <<s, o>> /\ s \in Nat /\ o \in Orders /\ i[2] = o
  BY DEF Ids
<1>7. X \in [Orders -> Seq(Ids)] /\ \A p \in Orders : ToSet(X[p]) = {j \in DOMAIN T : j[2] = p}
  BY DEF Sound, Matched
<1>8. Y[o] = Append(X[o], i) /\ \A p \in Orders : p # o => Y[p] = X[p]
  BY <1>6, <1>7 DEF Indexed
<1>9. X[o] \in Seq(Ids) /\ Append(X[o], i) \in Seq(Ids) /\ ToSet(Append(X[o], i)) = ToSet(X[o]) \cup {i}
  <2>1. PICK q : q = X[o] /\ q \in Seq(Ids)
    BY <1>6, <1>7
  <2>2. PICK l \in Nat : l = Len(q) /\ DOMAIN q = 1..l
    BY <2>1
  <2>3. /\ DOMAIN Append(q, i) = 1..(l + 1)
        /\ Append(q, i)[l + 1] = i
        /\ \A j \in 1..l : Append(q, i)[j] = q[j]
    BY <2>1, <2>2
  <2>4. 1..(l + 1) = 1..l \cup {l + 1}
    OBVIOUS
  <2>5. ToSet(Append(q, i)) = ToSet(q) \cup {i}
    BY <2>2, <2>3, <2>4 DEF ToSet
  <2>6. Append(q, i) \in Seq(Ids)
    BY <2>1
  <2>7. QED
    BY <2>1, <2>5, <2>6
<1>10. Y \in [Orders -> Seq(Ids)]
  BY <1>6, <1>7, <1>9 DEF Indexed
<1>11. \A p \in Orders : ToSet(Y[p]) = {j \in DOMAIN U : j[2] = p}
  <2> HIDE DEF U, Y
  <2>1. ToSet(Y[o]) = {j \in DOMAIN T : j[2] = o} \cup {i}
    BY <1>6, <1>7, <1>8, <1>9
  <2>2. ToSet(Y[o]) = {j \in DOMAIN U : j[2] = o}
    BY <1>1, <1>6, <2>1
  <2>3. ASSUME NEW p \in Orders, p # o PROVE ToSet(Y[p]) = {j \in DOMAIN U : j[2] = p}
    BY <1>1, <1>6, <1>7, <1>8, <2>3
  <2>4. QED
    BY <2>2, <2>3
<1>12. Matched(r, U, Y)
  <2> HIDE DEF U, Y
  <2>1. DOMAIN U \subseteq Ids
    BY <1>1, <1>2
  <2>2. QED
    BY <1>3, <1>4, <1>5, <1>10, <1>11, <2>1 DEF Matched
<1>13. N \in HeldIn(U) /\ \A m \in HeldIn(T) : m \in HeldIn(U) \/ IdOf(r, m) = i
  BY <1>1, <1>2 DEF HeldIn
<1>14. \A m \in HeldIn(U) : m = N \/ m \in HeldIn(T)
  BY <1>1 DEF HeldIn
<1>15. ASSUME NEW n \in 1..(N - 1), Recalls(r, T, n) PROVE Recalls(r, U, n)
  <2> HIDE DEF U
  <2>1. N > n
    OBVIOUS
  <2>2. CASE n \in HeldIn(T)
    BY <1>13, <2>1, <2>2 DEF Recalls
  <2>3. CASE \E m \in HeldIn(T) : m > n /\ IdOf(r, m) = IdOf(r, n)
    BY <1>13, <2>1, <2>3 DEF Recalls
  <2>4. CASE Cardinality(DOMAIN T) >= MaxKept /\ \A m \in HeldIn(T) : m > n
    <3>1. Cardinality(DOMAIN T) \in Nat
      BY <1>2, FS_CardinalityType
    <3>2. Cardinality(DOMAIN U) >= MaxKept
      BY <1>3, <2>4, <3>1, BoundAssumption
    <3>3. \A m \in HeldIn(U) : m > n
      BY <1>14, <2>1, <2>4
    <3>4. QED
      BY <3>2, <3>3 DEF Recalls
  <2>5. QED
    BY <1>15, <2>2, <2>3, <2>4 DEF Recalls
<1>16. QED
  BY <1>3, <1>12, <1>13, <1>15 DEF Recalls

\* The oldest of one task too many goes, from the store and from the index, and what went
\* is older than all that stays.
LEMMA Evicting ==
    ASSUME NEW r \in Seq(Reports), NEW T, NEW X, Matched(r, T, X),
           Cardinality(DOMAIN T) <= MaxKept + 1
    PROVE  /\ Sound(r, Evicted(T, X).tasks, Evicted(T, X).index)
           /\ \A n \in Nat : Recalls(r, T, n) => Recalls(r, Evicted(T, X).tasks, n)
<1>1. IsFiniteSet(DOMAIN T) /\ Cardinality(DOMAIN T) \in Nat /\ MaxKept \in Nat
  BY FS_CardinalityType, BoundAssumption DEF Matched
<1>2. CASE ~(Cardinality(DOMAIN T) > MaxKept)
  <2>1. Evicted(T, X).tasks = T /\ Evicted(T, X).index = X
    BY <1>2 DEF Evicted
  <2>2. QED
    BY <1>1, <1>2, <2>1 DEF Sound
<1>3. CASE Cardinality(DOMAIN T) > MaxKept
  <2>1. PICK d : d = Oldest(T)
    OBVIOUS
  <2>2. PICK U, Y : U = Restrict(T, DOMAIN T \ {d}) /\ Y = [X EXCEPT ![d[2]] = Unlisted(@, d)]
    OBVIOUS
  <2>3. Evicted(T, X).tasks = U /\ Evicted(T, X).index = Y
    BY <1>3, <2>1, <2>2 DEF Evicted
  <2>4. \A i \in DOMAIN T : T[i] \in Nat /\ IdOf(r, T[i]) = i /\ i \in Ids
    BY DEF Matched
  <2>5. d \in DOMAIN T /\ \A j \in DOMAIN T : T[d] <= T[j]
    <3>1. DOMAIN T # {}
      <4>1. Cardinality(DOMAIN T) # 0
        BY <1>1, <1>3
      <4>2. QED
        BY <4>1, FS_EmptySet
    <3>2. HeldIn(T) \in SUBSET Nat /\ HeldIn(T) # {}
      BY <2>4, <3>1 DEF HeldIn
    <3>3. PICK m \in HeldIn(T) : \A n \in HeldIn(T) : m <= n
      BY <3>2, NatMin
    <3>4. \E i \in DOMAIN T : \A j \in DOMAIN T : T[i] <= T[j]
      BY <3>3 DEF HeldIn
    <3>5. QED
      BY <2>1, <3>4 DEF Oldest
  <2>6. DOMAIN U = DOMAIN T \ {d} /\ \A j \in DOMAIN U : U[j] = T[j]
    BY <2>2 DEF Restrict
  <2>7. IsFiniteSet(DOMAIN U) /\ Cardinality(DOMAIN U) = MaxKept
    <3>1. /\ IsFiniteSet(DOMAIN T \ {d})
          /\ Cardinality(DOMAIN T \ {d})
             = IF d \in DOMAIN T THEN Cardinality(DOMAIN T) - 1 ELSE Cardinality(DOMAIN T)
      BY <1>1, FS_RemoveElement
    <3>2. QED
      BY <1>1, <1>3, <2>5, <2>6, <3>1
  <2>8. U \in [DOMAIN U -> 1..Len(r)]
    <3>1. \A j \in DOMAIN U : U[j] \in 1..Len(r)
      BY <2>6 DEF Matched
    <3>2. U = [j \in DOMAIN U |-> U[j]]
      BY <2>2 DEF Restrict
    <3>3. QED
      BY <3>1, <3>2
  <2>9. PICK s, o : d = <<s, o>> /\ o \in Orders /\ d[2] = o
    BY <2>4, <2>5 DEF Ids
  <2>10. X \in [Orders -> Seq(Ids)] /\ \A p \in Orders : ToSet(X[p]) = {j \in DOMAIN T : j[2] = p}
    BY DEF Matched
  <2>11. Y[o] = Unlisted(X[o], d) /\ \A p \in Orders : p # o => Y[p] = X[p]
    BY <2>2, <2>9, <2>10
  <2>12. Unlisted(X[o], d) \in Seq(Ids) /\ ToSet(Unlisted(X[o], d)) = ToSet(X[o]) \ {d}
    <3>1. X[o] \in Seq(Ids)
      BY <2>9, <2>10
    <3>2. QED
      BY <3>1, UnlistedFacts
  <2>13. Y \in [Orders -> Seq(Ids)]
    BY <2>2, <2>9, <2>10, <2>12
  <2>14. \A p \in Orders : ToSet(Y[p]) = {j \in DOMAIN U : j[2] = p}
    <3>1. ToSet(Y[o]) = {j \in DOMAIN U : j[2] = o}
      BY <2>6, <2>9, <2>10, <2>11, <2>12
    <3>2. ASSUME NEW p \in Orders, p # o PROVE ToSet(Y[p]) = {j \in DOMAIN U : j[2] = p}
      BY <2>6, <2>9, <2>10, <2>11, <3>2
    <3>3. QED
      BY <3>1, <3>2
  <2>15. Sound(r, U, Y)
    <3>1. DOMAIN U \subseteq Ids /\ \A j \in DOMAIN U : IdOf(r, U[j]) = j
      BY <2>4, <2>6
    <3>2. QED
      BY <1>1, <2>7, <2>8, <2>13, <2>14, <3>1 DEF Sound, Matched
  <2>16. HeldIn(T) = HeldIn(U) \cup {T[d]}
    BY <2>5, <2>6 DEF HeldIn
  <2>17. \A m \in HeldIn(U) : m > T[d]
    <3> SUFFICES ASSUME NEW j \in DOMAIN T, j # d PROVE T[j] > T[d]
      BY <2>6 DEF HeldIn
    <3>1. T[d] # T[j]
      BY <2>4, <2>5
    <3>2. T[d] \in Nat /\ T[j] \in Nat /\ T[d] <= T[j]
      BY <2>4, <2>5
    <3>3. QED
      BY <3>1, <3>2
  <2>18. ASSUME NEW n \in Nat, Recalls(r, T, n) PROVE Recalls(r, U, n)
    <3>1. T[d] \in Nat /\ HeldIn(U) \subseteq Nat
      BY <2>4, <2>5, <2>6 DEF HeldIn
    <3>2. ASSUME n <= T[d] PROVE Recalls(r, U, n)
      <4>1. \A m \in HeldIn(U) : m > n
        BY <2>17, <3>1, <3>2
      <4>2. QED
        BY <1>1, <2>7, <4>1 DEF Recalls
    <3>3. CASE n \in HeldIn(T)
      BY <2>16, <3>1, <3>2, <3>3 DEF Recalls
    <3>4. CASE \E m \in HeldIn(T) : m > n /\ IdOf(r, m) = IdOf(r, n)
      BY <2>16, <3>1, <3>2, <3>4 DEF Recalls
    <3>5. CASE \A m \in HeldIn(T) : m > n
      <4>1. T[d] > n
        BY <2>16, <3>5
      <4>2. QED
        BY <2>18, <3>1, <3>2, <4>1
    <3>6. QED
      BY <2>18, <3>3, <3>4, <3>5 DEF Recalls
  <2>19. QED
    BY <2>3, <2>15, <2>18
<1>4. QED
  BY <1>2, <1>3

-----------------------------------------------------------------------------
(* The steps of the program. *)

LEMMA TypeFacts ==
    ASSUME TypeOK
    PROVE  /\ Len(runs) \in Nat /\ DOMAIN runs = 1..Len(runs)
           /\ \A n \in DOMAIN runs : runs[n] \in Reports
           /\ Logged \subseteq 1..Len(runs)
           /\ \A n \in Logged : n <= Len(runs)
<1>1. Len(runs) \in Nat /\ DOMAIN runs = 1..Len(runs) /\ \A n \in DOMAIN runs : runs[n] \in Reports
  BY LenProperties DEF TypeOK
<1>2. \A j \in DOMAIN log : log[j] \in 1..Len(runs)
  BY DEF TypeOK
<1>3. PICK l \in Nat : l = Len(runs)
  BY <1>1
<1>4. Logged \subseteq 1..l
  BY <1>2, <1>3 DEF Logged, ToSet
<1>5. \A n \in Logged : n <= l
  BY <1>4
<1>6. QED
  BY <1>1, <1>3, <1>4, <1>5

\* What a run adds to the reports, the store and the index.
LEMMA RecordFacts ==
    ASSUME TypeOK, NEW o \in Orders, NEW c \in Causes, NEW success \in BOOLEAN,
           NEW later \in {0, 1}, RecordTask(o, c, success, later)
    PROVE  \E e \in Reports, i \in Ids :
              /\ runs' = Append(runs, e) /\ Len(runs') = Len(runs) + 1
              /\ i = <<e.second, e.order>>
              /\ LET kept == Evicted(Stocked(tasks, i, Len(runs) + 1), Indexed(index, i))
                 IN  tasks' = kept.tasks /\ index' = kept.index
<1> DEFINE second == (IF runs = <<>> THEN 0 ELSE Last(runs).second) + later
           e == [order |-> o, second |-> second, cause |-> c, success |-> success]
           i == <<second, o>>
<1>1. second \in Nat
  <2>1. CASE runs = <<>>
    BY <2>1
  <2>2. CASE runs # <<>>
    <3>1. Len(runs) \in DOMAIN runs
      BY <2>2, TypeFacts DEF TypeOK
    <3>2. Last(runs) \in Reports
      BY <3>1, TypeFacts DEF Last
    <3>3. QED
      BY <2>2, <3>2 DEF Reports
  <2>3. QED
    BY <2>1, <2>2
<1>2. runs' = Append(runs, e)
  BY DEF RecordTask
<1>3. LET kept == Evicted([j \in DOMAIN tasks \cup {i} |-> IF j = i THEN Len(runs) + 1 ELSE tasks[j]],
                          [index EXCEPT ![o] = Append(@, i)])
      IN  tasks' = kept.tasks /\ index' = kept.index
  BY DEF RecordTask
<1> HIDE DEF second
<1>4. e \in Reports /\ i \in Ids /\ i[2] = o /\ i = <<e.second, e.order>>
  BY <1>1 DEF Reports, Ids
<1>5. Len(runs') = Len(runs) + 1
  BY <1>2, <1>4 DEF TypeOK
<1>6. LET kept == Evicted(Stocked(tasks, i, Len(runs) + 1), Indexed(index, i))
      IN  tasks' = kept.tasks /\ index' = kept.index
  BY <1>3, <1>4 DEF Stocked, Indexed
<1>7. QED
  BY <1>2, <1>4, <1>5, <1>6

LEMMA LongerSeq ==
    ASSUME NEW S, NEW s \in Seq(S), NEW e \in S
    PROVE  Append(s, e) \in Seq(S) /\ Append(s, e) # <<>>
<1>1. PICK l \in Nat : l = Len(s)
  OBVIOUS
<1>2. Append(s, e) \in Seq(S) /\ Len(Append(s, e)) = l + 1
  BY <1>1
<1>3. Len(<<>>) = 0 /\ l + 1 # 0
  OBVIOUS
<1>4. QED
  BY <1>2, <1>3

LEMMA OneMore ==
    ASSUME NEW S, NEW f \in [S -> Nat], NEW d
    PROVE  [f EXCEPT ![d] = @ + 1] \in [S -> Nat]
<1>1. CASE d \in S
  BY <1>1
<1>2. CASE d \notin S
  BY <1>2
<1>3. QED
  BY <1>1, <1>2

LEMMA WiderSeq ==
    ASSUME NEW n \in Nat, NEW s \in Seq(1..n)
    PROVE  s \in Seq(1..(n + 1))
<1>1. PICK l \in Nat : l = Len(s) /\ s \in [1..l -> 1..n]
  BY LenProperties
<1>2. s \in [1..l -> 1..(n + 1)]
  BY <1>1
<1>3. QED
  BY <1>1, <1>2

LEMMA TypeStep ==
    ASSUME TypeOK, [Next]_vars
    PROVE  TypeOK'
<1> USE TypeFacts DEF TypeOK, Labels, LoadedLessons, memory, disk, history
<1>1. CASE Start
  BY <1>1 DEF Start
<1>2. CASE Crash
  BY <1>2 DEF Crash
<1>3. ASSUME NEW o \in Orders, NEW c \in Causes, NEW success \in BOOLEAN, NEW later \in {0, 1},
             RecordTask(o, c, success, later)
      PROVE  TypeOK'
  <2>1. PICK e \in Reports : runs' = Append(runs, e) /\ Len(runs') = Len(runs) + 1
    BY <1>3, RecordFacts
  <2>2. runs' \in Seq(Reports) /\ runs' # <<>>
    <3>1. Append(runs, e) \in Seq(Reports) /\ Append(runs, e) # <<>>
      BY LongerSeq
    <3>2. QED
      BY <2>1, <3>1
  <2>3. log' \in Seq(1..Len(runs'))
    <3>1. PICK l \in Nat : l = Len(runs) /\ Len(runs') = l + 1
      BY <2>1
    <3>2. log \in Seq(1..l) /\ log' = log
      BY <1>3, <3>1 DEF RecordTask
    <3>3. QED
      BY <3>1, <3>2, WiderSeq
  <2>4. QED
    BY <1>3, <2>2, <2>3 DEF RecordTask
<1>4. CASE OpenTasks
  BY <1>4 DEF OpenTasks, Open
<1>5. CASE OpenLessons
  BY <1>5 DEF OpenLessons, Open, Torn, NoLessons
<1>6. CASE DumpTasks
  BY <1>6 DEF DumpTasks, Dump
<1>7. CASE DumpLessons
  BY <1>7 DEF DumpLessons, Dump, Whole
<1>8. CASE SaveTasksFails
  BY <1>8 DEF SaveTasksFails, SaveFails
<1>9. CASE SaveLessonsFails
  BY <1>9 DEF SaveLessonsFails, SaveFails
<1>10. CASE Learn
  <2>1. learned' = learned \/ \E d : learned' = [learned EXCEPT ![d] = @ + 1]
    BY <1>10 DEF Learn
  <2>2. learned' \in [Causes -> Nat]
    <3> SUFFICES ASSUME NEW d, learned' = [learned EXCEPT ![d] = @ + 1]
                 PROVE  learned' \in [Causes -> Nat]
      BY <2>1
    <3>1. learned \in [Causes -> Nat]
      OBVIOUS
    <3>2. QED
      BY <3>1, OneMore
  <2>3. QED
    BY <1>10, <2>2 DEF Learn
<1>11. CASE LogTask
  <2>1. Len(runs) \in 1..Len(runs)
    BY <1>11 DEF LogTask
  <2>2. log' \in Seq(1..Len(runs'))
    BY <1>11, <2>1 DEF LogTask
  <2>3. QED
    BY <1>11, <2>2 DEF LogTask
<1>12. CASE UNCHANGED vars
  BY <1>12 DEF vars
<1>13. QED
  BY <1>1, <1>2, <1>3, <1>4, <1>5, <1>6, <1>7, <1>8, <1>9, <1>10, <1>11, <1>12 DEF Next, RunTask

\* A store with nothing in it.
LEMMA EmptySound ==
    ASSUME NEW r \in Seq(Reports)
    PROVE  Sound(r, NoTasks, NoIndex)
<1>1. DOMAIN NoTasks = {} /\ NoTasks \in [DOMAIN NoTasks -> 1..Len(r)]
  BY DEF NoTasks
<1>2. IsFiniteSet({}) /\ Cardinality({}) = 0 /\ MaxKept \in Nat
  BY FS_EmptySet, BoundAssumption
<1>3. NoIndex \in [Orders -> Seq(Ids)] /\ \A o \in Orders : ToSet(NoIndex[o]) = {}
  BY DEF NoIndex, ToSet
<1>4. QED
  BY <1>1, <1>2, <1>3 DEF Sound, Matched

LEMMA LoggedMore ==
    ASSUME TypeOK, NEW l, log' = Append(log, l)
    PROVE  Logged' = Logged \cup {l}
<1>1. PICK n \in Nat : n = Len(log) /\ DOMAIN log = 1..n
  BY LenProperties DEF TypeOK
<1>2. PICK q, v : q = log /\ v = l
  OBVIOUS
<1>3. /\ DOMAIN Append(q, v) = 1..(n + 1) /\ Append(q, v)[n + 1] = v
      /\ \A j \in 1..n : Append(q, v)[j] = q[j]
  BY <1>1, <1>2 DEF TypeOK
<1>4. 1..(n + 1) = 1..n \cup {n + 1}
  OBVIOUS
<1>5. ToSet(Append(q, v)) = ToSet(q) \cup {v}
  BY <1>1, <1>2, <1>3, <1>4 DEF ToSet
<1>6. QED
  BY <1>2, <1>5 DEF Logged

\* A run more, in a sound store: it is sound again, and remembers the new run and all those
\* that it remembered.
LEMMA Remembering ==
    ASSUME NEW r \in Seq(Reports), NEW T, NEW X, Sound(r, T, X), NEW e \in Reports,
           NEW i \in Ids, i = <<e.second, e.order>>, NEW N \in Nat, N = Len(r)
    PROVE  LET kept == Evicted(Stocked(T, i, N + 1), Indexed(X, i))
           IN  /\ Sound(Append(r, e), kept.tasks, kept.index)
               /\ \A n \in 1..N : Recalls(r, T, n) => Recalls(Append(r, e), kept.tasks, n)
               /\ Recalls(Append(r, e), kept.tasks, N + 1)
<1>1. PICK q, M : q = Append(r, e) /\ M = N + 1
  OBVIOUS
<1>2. q \in Seq(Reports) /\ M \in Nat \ {0} /\ M = Len(q) /\ q[M] = e
  BY <1>1
<1>3. i = IdOf(q, M)
  BY <1>2 DEF IdOf
<1>4. Matched(q, T, X) /\ \A n \in 1..N : Recalls(r, T, n) => Recalls(q, T, n)
  BY <1>1, LongerRuns DEF Sound
<1>5. Sound(q, T, X)
  BY <1>4 DEF Sound
<1>6. PICK U, Y : U = Stocked(T, i, M) /\ Y = Indexed(X, i)
  OBVIOUS
<1>7. /\ Matched(q, U, Y) /\ Cardinality(DOMAIN U) <= MaxKept + 1
      /\ \A n \in 1..(M - 1) : Recalls(q, T, n) => Recalls(q, U, n)
      /\ Recalls(q, U, M)
  BY <1>2, <1>3, <1>5, <1>6, Stocking
<1>8. /\ Sound(q, Evicted(U, Y).tasks, Evicted(U, Y).index)
      /\ \A n \in Nat : Recalls(q, U, n) => Recalls(q, Evicted(U, Y).tasks, n)
  BY <1>2, <1>7, Evicting
<1>9. 1..N = 1..(M - 1) /\ 1..N \subseteq Nat
  BY <1>1
<1>10. QED
  BY <1>1, <1>2, <1>4, <1>6, <1>7, <1>8, <1>9

\* The same of a store that nobody touches.
LEMMA LaterSound ==
    ASSUME NEW r \in Seq(Reports), NEW T, NEW X, Sound(r, T, X), NEW e \in Reports,
           NEW N \in Nat, N = Len(r)
    PROVE  /\ Sound(Append(r, e), T, X)
           /\ \A n \in 1..N : Recalls(r, T, n) => Recalls(Append(r, e), T, n)
BY LongerRuns DEF Sound

LEMMA StoredStep ==
    ASSUME TypeOK, Stored, [Next]_vars
    PROVE  Stored'
<1> USE DEF Stored, memory, disk, history
<1>1. CASE Start
  BY <1>1 DEF Start, LoadedTasks, LoadedIndex
<1>2. ASSUME UNCHANGED <<runs, tasks, index, taskFile>> PROVE Stored'
  BY <1>2 DEF LoadedTasks, LoadedIndex
<1>3. ASSUME NEW o \in Orders, NEW c \in Causes, NEW success \in BOOLEAN, NEW later \in {0, 1},
             RecordTask(o, c, success, later)
      PROVE  Stored'
  <2>1. PICK e \in Reports, i \in Ids :
              /\ runs' = Append(runs, e)
              /\ i = <<e.second, e.order>>
              /\ LET kept == Evicted(Stocked(tasks, i, Len(runs) + 1), Indexed(index, i))
                 IN  tasks' = kept.tasks /\ index' = kept.index
    BY <1>3, RecordFacts
  <2>2. runs \in Seq(Reports) /\ Len(runs) \in Nat
    BY TypeFacts DEF TypeOK
  <2>3. PICK r, T, X, N : r = runs /\ T = tasks /\ X = index /\ N = Len(runs)
    OBVIOUS
  <2>4. Sound(Append(r, e), Evicted(Stocked(T, i, N + 1), Indexed(X, i)).tasks,
                            Evicted(Stocked(T, i, N + 1), Indexed(X, i)).index)
    BY <2>1, <2>2, <2>3, Remembering
  <2>5. Sound(runs', tasks', index')
    BY <2>1, <2>3, <2>4
  <2>6. PICK T1, X1 : T1 = LoadedTasks /\ X1 = LoadedIndex
    OBVIOUS
  <2>7. Sound(Append(r, e), T1, X1)
    BY <2>2, <2>3, <2>6, LaterSound
  <2>8. LoadedTasks' = T1 /\ LoadedIndex' = X1
    BY <1>3, <2>6 DEF RecordTask, LoadedTasks, LoadedIndex
  <2>9. Sound(runs', LoadedTasks', LoadedIndex')
    BY <2>1, <2>3, <2>7, <2>8
  <2>10. QED
    BY <2>5, <2>9
<1>4. CASE OpenTasks
  <2>1. UNCHANGED <<runs, tasks, index>> /\ LoadedTasks' = NoTasks /\ LoadedIndex' = NoIndex
    BY <1>4 DEF OpenTasks, Open, LoadedTasks, LoadedIndex, Torn
  <2>2. Sound(runs, NoTasks, NoIndex)
    BY EmptySound DEF TypeOK
  <2>3. QED
    BY <2>1, <2>2
<1>5. CASE DumpTasks
  <2>1. UNCHANGED <<runs, tasks, index>> /\ LoadedTasks' = tasks /\ LoadedIndex' = index
    BY <1>5 DEF DumpTasks, Dump, LoadedTasks, LoadedIndex, Whole
  <2>2. QED
    BY <2>1
<1>6. CASE SaveTasksFails
  BY <1>2, <1>6 DEF SaveTasksFails, SaveFails
<1>7. CASE SaveLessonsFails
  BY <1>2, <1>7 DEF SaveLessonsFails, SaveFails
<1>8. QED
  BY <1>1, <1>2, <1>3, <1>4, <1>5, <1>6, <1>7
     DEF Next, RunTask, Crash, OpenLessons, Open, DumpLessons, Dump, Learn, LogTask, vars

LEMMA RecalledStep ==
    ASSUME TypeOK, Stored, Recalled, [Next]_vars
    PROVE  Recalled'
<1> USE DEF Recalled, From, LoggingLabels, SavingLabels, LearningLabels, RecordingLabels
<1>1. Len(runs) \in Nat /\ Logged \subseteq 1..Len(runs)
  BY TypeFacts
<1>2. \A n \in Logged : n <= Len(runs)
  BY TypeFacts
<1>3. CASE Start
  <2>1. /\ at = "down" /\ at' = "idle" /\ tasks' = LoadedTasks /\ stale' = {}
        /\ lost' = IF taskFile.state = "torn" \/ "tasks" \in stale THEN Len(runs) ELSE lost
        /\ UNCHANGED <<runs, taskFile, log>>
    BY <1>3 DEF Start, disk
  <2>2. Logged' = Logged /\ LoadedTasks' = LoadedTasks
    BY <2>1 DEF Logged, LoadedTasks
  <2>3. \A n \in Logged : n <= lost' \/ Recalls(runs, LoadedTasks, n)
    BY <1>2, <2>1
  <2>4. QED
    BY <2>1, <2>2, <2>3
<1>4. CASE Crash
  BY <1>4 DEF Crash, memory, disk, history, Logged, LoadedTasks
<1>5. ASSUME NEW o \in Orders, NEW c \in Causes, NEW success \in BOOLEAN, NEW later \in {0, 1},
             RecordTask(o, c, success, later)
      PROVE  Recalled'
  <2>1. PICK e \in Reports, i \in Ids :
              /\ runs' = Append(runs, e) /\ Len(runs') = Len(runs) + 1
              /\ i = <<e.second, e.order>>
              /\ LET kept == Evicted(Stocked(tasks, i, Len(runs) + 1), Indexed(index, i))
                 IN  tasks' = kept.tasks /\ index' = kept.index
    BY <1>5, RecordFacts
  <2>2. runs \in Seq(Reports)
    BY DEF TypeOK
  <2>3. PICK r, T, X, N : r = runs /\ T = tasks /\ X = index /\ N = Len(runs)
    OBVIOUS
  <2>4. PICK U : U = Evicted(Stocked(T, i, N + 1), Indexed(X, i)).tasks
    OBVIOUS
  <2>5. /\ \A n \in 1..N : Recalls(r, T, n) => Recalls(Append(r, e), U, n)
        /\ Recalls(Append(r, e), U, N + 1)
    BY <1>1, <2>1, <2>2, <2>3, <2>4, Remembering DEF Stored
  <2>6. tasks' = U /\ runs' = Append(r, e)
    BY <2>1, <2>3, <2>4
  <2>7. PICK T1, X1 : T1 = LoadedTasks /\ X1 = LoadedIndex
    OBVIOUS
  <2>8. \A n \in 1..N : Recalls(r, T1, n) => Recalls(Append(r, e), T1, n)
    BY <1>1, <2>2, <2>3, <2>7, LaterSound DEF Stored
  <2>9. /\ at = "idle" /\ at' = "recorded"
        /\ UNCHANGED <<taskFile, log, lost, stale>>
    BY <1>5 DEF RecordTask, disk, history
  <2>10. Logged' = Logged /\ LoadedTasks' = T1
    BY <2>7, <2>9 DEF Logged, LoadedTasks
  <2>11. \A n \in Logged : n <= lost \/ Recalls(r, T, n)
    BY <2>3, <2>9
  <2>12. taskFile.state # "torn" /\ "tasks" \notin stale =>
            \A n \in Logged : n <= lost \/ Recalls(r, T1, n)
    BY <2>3, <2>7, <2>9
  <2>13. \A n \in Logged : n <= lost \/ Recalls(Append(r, e), U, n)
    BY <1>1, <2>3, <2>5, <2>11
  <2>14. taskFile.state # "torn" /\ "tasks" \notin stale =>
            \A n \in Logged : n <= lost \/ Recalls(Append(r, e), T1, n)
    BY <1>1, <2>3, <2>8, <2>12
  <2>15. Recalls(runs', tasks', Len(runs'))
    BY <2>1, <2>3, <2>5, <2>6
  <2>16. QED
    BY <2>6, <2>9, <2>10, <2>13, <2>14, <2>15
<1>6. CASE OpenTasks
  BY <1>6 DEF OpenTasks, Open, memory, history, Torn, Logged
<1>7. CASE DumpTasks
  <2>1. /\ at = "tasks open" /\ at' = "remembered" /\ LoadedTasks' = tasks
        /\ UNCHANGED <<runs, tasks, log, lost>>
    BY <1>7 DEF DumpTasks, Dump, memory, LoadedTasks, Whole
  <2>2. Logged' = Logged
    BY <2>1 DEF Logged
  <2>3. QED
    BY <2>1, <2>2
<1>8. CASE SaveTasksFails
  BY <1>8 DEF SaveTasksFails, SaveFails, memory, disk, Logged
<1>9. ASSUME UNCHANGED <<runs, tasks, taskFile, log, lost>>,
             "tasks" \notin stale' => "tasks" \notin stale,
             {at, at'} \subseteq LearningLabels
      PROVE  Recalled'
  BY <1>9 DEF Logged, LoadedTasks
<1>10. CASE Learn \/ OpenLessons \/ DumpLessons \/ SaveLessonsFails
  BY <1>9, <1>10 DEF Learn, OpenLessons, Open, DumpLessons, Dump, SaveLessonsFails, SaveFails,
                     memory, disk, history
<1>11. CASE LogTask
  <2>1. /\ at = "taught" /\ at' = "idle"
        /\ UNCHANGED <<runs, tasks, taskFile, lost, stale>>
        /\ log' = Append(log, Len(runs))
    BY <1>11 DEF LogTask, memory, history
  <2>2. Logged' = Logged \cup {Len(runs)} /\ LoadedTasks' = LoadedTasks
    BY <2>1, LoggedMore DEF LoadedTasks
  <2>3. QED
    BY <2>1, <2>2
<1>12. CASE UNCHANGED vars
  BY <1>12 DEF vars, memory, disk, history, Logged, LoadedTasks
<1>13. QED
  BY <1>3, <1>4, <1>5, <1>6, <1>7, <1>8, <1>10, <1>11, <1>12 DEF Next, RunTask

-----------------------------------------------------------------------------
(* Counts of lessons. *)

LEMMA CountFacts ==
    ASSUME NEW r, NEW n \in Nat, NEW c
    PROVE  /\ \A S \in SUBSET (1..n) : CountOf(r, S, c) \in Nat
           /\ \A S, R \in SUBSET (1..n) : S \subseteq R => CountOf(r, S, c) <= CountOf(r, R, c)
<1>1. IsFiniteSet(1..n)
  BY FS_Interval
<1>2. ASSUME NEW S \in SUBSET (1..n) PROVE IsFiniteSet(Taken(r, S, c)) /\ CountOf(r, S, c) \in Nat
  <2>1. Taken(r, S, c) \subseteq 1..n
    BY DEF Taken
  <2>2. QED
    BY <1>1, <2>1, FS_Subset, FS_CardinalityType DEF CountOf
<1>3. ASSUME NEW S \in SUBSET (1..n), NEW R \in SUBSET (1..n), S \subseteq R
      PROVE  CountOf(r, S, c) <= CountOf(r, R, c)
  <2>1. Taken(r, S, c) \subseteq Taken(r, R, c)
    BY <1>3 DEF Taken
  <2>2. QED
    BY <1>2, <2>1, FS_Subset DEF CountOf
<1>4. QED
  BY <1>2, <1>3

\* A run more in the set counts if it is a success with this cause, and only once.
LEMMA CountOne ==
    ASSUME NEW r, NEW n \in Nat, NEW S \in SUBSET (1..n), NEW m \in 1..n, NEW c
    PROVE  CountOf(r, S \cup {m}, c) =
              IF m \notin S /\ r[m].success /\ r[m].cause = c
              THEN CountOf(r, S, c) + 1 ELSE CountOf(r, S, c)
<1>1. IsFiniteSet(Taken(r, S, c)) /\ CountOf(r, S, c) \in Nat
  <2>1. Taken(r, S, c) \subseteq 1..n
    BY DEF Taken
  <2>2. IsFiniteSet(1..n)
    BY FS_Interval
  <2>3. QED
    BY <2>1, <2>2, FS_Subset, FS_CardinalityType DEF CountOf
<1>2. CASE m \notin S /\ r[m].success /\ r[m].cause = c
  <2>1. Taken(r, S \cup {m}, c) = Taken(r, S, c) \cup {m} /\ m \notin Taken(r, S, c)
    BY <1>2 DEF Taken
  <2>2. PICK A : A = Taken(r, S, c)
    OBVIOUS
  <2>3. Cardinality(A \cup {m}) = Cardinality(A) + 1
    BY <1>1, <2>1, <2>2, FS_AddElement
  <2>4. QED
    BY <1>2, <2>1, <2>2, <2>3 DEF CountOf
<1>3. CASE ~(m \notin S /\ r[m].success /\ r[m].cause = c)
  <2>1. Taken(r, S \cup {m}, c) = Taken(r, S, c)
    BY <1>3 DEF Taken
  <2>2. QED
    BY <1>3, <2>1 DEF CountOf
<1>4. QED
  BY <1>2, <1>3

\* A report more changes no count of the runs before it.
LEMMA CountLater ==
    ASSUME NEW r \in Seq(Reports), NEW e \in Reports, NEW n \in Nat, n = Len(r),
           NEW S \in SUBSET (1..n), NEW c
    PROVE  CountOf(Append(r, e), S, c) = CountOf(r, S, c)
<1>1. \A m \in S : Append(r, e)[m] = r[m]
  OBVIOUS
<1>2. Taken(Append(r, e), S, c) = Taken(r, S, c)
  <2>1. PICK q : q = Append(r, e)
    OBVIOUS
  <2>2. \A m \in S : q[m] = r[m]
    BY <1>1, <2>1
  <2>3. Taken(q, S, c) = Taken(r, S, c)
    BY <2>2 DEF Taken
  <2>4. QED
    BY <2>1, <2>3
<1>3. QED
  BY <1>2 DEF CountOf

LEMMA TaughtStep ==
    ASSUME TypeOK, Taught, [Next]_vars
    PROVE  Taught'
<1>1. Len(runs) \in Nat /\ DOMAIN runs = 1..Len(runs) /\ Logged \subseteq 1..Len(runs)
  BY TypeFacts
<1>2. PICK r, N : r = runs /\ N = Len(runs) /\ r \in Seq(Reports) /\ N \in Nat
  BY <1>1 DEF TypeOK
<1>3. PICK L, u : L = Logged /\ u = unlearned /\ L \subseteq 1..N
  BY <1>1, <1>2
<1> DEFINE Since(S) == {n \in S : n > u}
<1>4. \A S \in SUBSET (1..N) : Since(S) \in SUBSET (1..N)
  OBVIOUS
<1>5. \A c : \A S \in SUBSET (1..N) : CountOf(r, S, c) \in Nat
  BY <1>2, CountFacts
<1>6. \A c : \A S, R \in SUBSET (1..N) : S \subseteq R => CountOf(r, S, c) <= CountOf(r, R, c)
  BY <1>2, CountFacts
<1>7. \A c : CountOf(r, {}, c) = 0
  BY FS_EmptySet DEF CountOf, Taken
<1>8. learned \in [Causes -> Nat] /\ LoadedLessons \in [Causes -> Nat]
  BY DEF TypeOK
<1>9. /\ at # "down" => \A c \in Causes :
           /\ CountOf(r, Since(From(SavingLabels)), c) <= learned[c]
           /\ learned[c] <= CountOf(r, AtMost, c)
      /\ lessonFile.state # "torn" /\ "lessons" \notin stale =>
           \A c \in Causes : CountOf(r, Since(From(LoggingLabels)), c) <= LoadedLessons[c]
      /\ \A c \in Causes : LoadedLessons[c] <= CountOf(r, 1..N, c)
  BY <1>1, <1>2, <1>3 DEF Taught, AtLeast
<1>10. CASE Start
  <2>1. /\ at = "down" /\ at' = "idle" /\ learned' = LoadedLessons /\ stale' = {}
        /\ unlearned' = IF lessonFile.state = "torn" \/ "lessons" \in stale THEN N ELSE u
        /\ UNCHANGED <<runs, lessonFile, log>>
    BY <1>2, <1>3, <1>10 DEF Start, disk
  <2>2. Logged' = L /\ LoadedLessons' = LoadedLessons
    BY <1>3, <2>1 DEF Logged, LoadedLessons
  <2>3. /\ From(SavingLabels)' = L /\ From(LoggingLabels)' = L /\ From(LoggingLabels) = L
        /\ AtMost' = 1..N
    BY <1>2, <1>3, <2>1, <2>2 DEF From, AtMost, SavingLabels, LoggingLabels, RecordingLabels,
                                  LearningLabels
  <2>4. PICK u2 : u2 = unlearned'
    OBVIOUS
  <2>5. ASSUME NEW c \in Causes
        PROVE  CountOf(r, {n \in L : n > u2}, c) <= LoadedLessons[c]
    <3>1. CASE lessonFile.state = "torn" \/ "lessons" \in stale
      <4>1. {n \in L : n > u2} = {}
        <5>1. u2 = N /\ N \in Nat
          BY <1>2, <2>1, <2>4, <3>1
        <5>2. \A n \in L : ~(n > N)
          BY <1>3, <5>1
        <5>3. QED
          BY <5>1, <5>2
      <4>2. LoadedLessons[c] \in Nat
        BY <1>8
      <4>3. QED
        BY <1>7, <4>1, <4>2
    <3>2. CASE ~(lessonFile.state = "torn" \/ "lessons" \in stale)
      BY <1>9, <2>1, <2>3, <2>4, <3>2
    <3>3. QED
      BY <3>1, <3>2
  <2>6. /\ AtLeast(SavingLabels)' = {n \in L : n > u2}
        /\ AtLeast(LoggingLabels)' = {n \in L : n > u2}
    BY <2>3, <2>4 DEF AtLeast
  <2>7. runs' = r /\ DOMAIN runs' = 1..N
    BY <1>1, <1>2, <2>1
  <2>8. QED
    BY <1>9, <2>1, <2>2, <2>3, <2>5, <2>6, <2>7 DEF Taught
<1>11. CASE Crash
  <2>1. /\ at' = "down" /\ UNCHANGED <<runs, log, lessonFile, stale, unlearned>>
    BY <1>11 DEF Crash, disk, history
  <2>2. LoadedLessons' = LoadedLessons /\ Logged' = L
    BY <1>3, <2>1 DEF LoadedLessons, Logged
  <2>3. From(LoggingLabels)' = L
    BY <2>1, <2>2 DEF From, LoggingLabels
  <2>4. PICK D : D = From(LoggingLabels)
    OBVIOUS
  <2>5. L \subseteq D /\ D \in SUBSET (1..N)
    <3>1. at \in LoggingLabels => runs # <<>>
      BY DEF TypeOK, LoggingLabels
    <3>2. runs # <<>> => N \in 1..N
      BY <1>2
    <3>3. QED
      BY <1>2, <1>3, <2>4, <3>1, <3>2 DEF From
  <2>6. \A c : CountOf(r, Since(L), c) <= CountOf(r, Since(D), c)
    <3>1. Since(L) \subseteq Since(D) /\ Since(L) \in SUBSET (1..N) /\ Since(D) \in SUBSET (1..N)
      BY <2>5
    <3> HIDE DEF Since
    <3>2. QED
      BY <1>6, <3>1
  <2>7. ASSUME NEW c \in Causes, lessonFile.state # "torn", "lessons" \notin stale
        PROVE  CountOf(r, Since(L), c) <= LoadedLessons[c]
    <3>1. CountOf(r, Since(D), c) <= LoadedLessons[c]
      BY <1>9, <2>4, <2>7
    <3>2. PICK a, b, d : /\ a = CountOf(r, Since(L), c) /\ b = CountOf(r, Since(D), c)
                         /\ d = LoadedLessons[c]
      OBVIOUS
    <3>3. a \in Nat /\ b \in Nat /\ d \in Nat
      <4>1. Since(L) \in SUBSET (1..N) /\ Since(D) \in SUBSET (1..N)
        BY <1>3, <2>5
      <4> HIDE DEF Since
      <4>2. QED
        BY <1>5, <1>8, <3>2, <4>1
    <3>4. QED
      BY <2>6, <3>1, <3>2, <3>3
  <2>8. AtLeast(LoggingLabels)' = Since(L)
    BY <1>3, <2>1, <2>3 DEF AtLeast
  <2>9. runs' = r /\ DOMAIN runs' = 1..N
    BY <1>1, <1>2, <2>1
  <2> HIDE DEF Since
  <2>10. QED
    BY <1>9, <2>1, <2>2, <2>7, <2>8, <2>9 DEF Taught
<1> HIDE DEF Since
<1>12. \A S \in SUBSET (1..N) : Since(S) \in SUBSET (1..N)
  BY <1>4
<1>13. at \notin {"down", "idle"} => N \in 1..N /\ From(SavingLabels) \in SUBSET (1..N)
                                     /\ From(LoggingLabels) \in SUBSET (1..N)
  <2>1. at \notin {"down", "idle"} => N \in 1..N
    BY <1>2 DEF TypeOK
  <2>2. Len(runs) = N
    BY <1>2
  <2>3. QED
    BY <1>3, <2>1, <2>2 DEF From
<1>14. ASSUME NEW o \in Orders, NEW c \in Causes, NEW success \in BOOLEAN, NEW later \in {0, 1},
              RecordTask(o, c, success, later)
       PROVE  Taught'
  <2>1. PICK e \in Reports : runs' = Append(r, e) /\ Len(runs') = N + 1
    BY <1>2, <1>14, RecordFacts
  <2>2. /\ at = "idle" /\ at' = "recorded"
        /\ UNCHANGED <<learned, log, lessonFile, stale, unlearned>>
    BY <1>14 DEF RecordTask, disk, history
  <2>3. Logged' = L /\ LoadedLessons' = LoadedLessons
    BY <1>3, <2>2 DEF Logged, LoadedLessons
  <2>4. From(SavingLabels) = L /\ From(LoggingLabels) = L
    BY <1>3, <2>2 DEF From, SavingLabels, LoggingLabels
  <2>5. From(SavingLabels)' = L /\ From(LoggingLabels)' = L
    BY <2>2, <2>3 DEF From, SavingLabels, LoggingLabels
  <2>6. AtLeast(SavingLabels)' = Since(L) /\ AtLeast(LoggingLabels)' = Since(L)
    BY <1>3, <2>2, <2>5 DEF AtLeast, Since
  <2>7. AtMost = 1..N /\ AtMost' = 1..N
    <3>1. AtMost = 1..N
      BY <1>2, <2>2 DEF AtMost, RecordingLabels, LearningLabels, SavingLabels, LoggingLabels
    <3>2. PICK n2 \in Nat : n2 = Len(runs') /\ n2 = N + 1
      BY <1>2, <2>1
    <3>3. AtMost' = 1..(n2 - 1)
      BY <2>2, <3>2 DEF AtMost, RecordingLabels, LearningLabels, SavingLabels, LoggingLabels
    <3>4. n2 - 1 = N
      BY <1>2, <3>2
    <3>5. QED
      BY <3>1, <3>3, <3>4
  <2>8. PICK q : q = Append(r, e)
    OBVIOUS
  <2>9. ASSUME NEW S \in SUBSET (1..N), NEW b PROVE CountOf(q, S, b) = CountOf(r, S, b)
    BY <1>2, <2>8, CountLater
  <2>10. \A b \in Causes : /\ CountOf(q, Since(L), b) = CountOf(r, Since(L), b)
                           /\ CountOf(q, 1..N, b) = CountOf(r, 1..N, b)
    BY <1>3, <1>12, <2>9
  <2>11. ASSUME NEW b \in Causes PROVE LoadedLessons[b] <= CountOf(q, 1..(N + 1), b)
    <3>1. 1..N \in SUBSET (1..(N + 1)) /\ 1..(N + 1) \in SUBSET (1..(N + 1)) /\ N + 1 \in Nat
      BY <1>2
    <3>2. /\ CountOf(q, 1..N, b) \in Nat /\ CountOf(q, 1..(N + 1), b) \in Nat
          /\ CountOf(q, 1..N, b) <= CountOf(q, 1..(N + 1), b)
      <4>1. PICK M \in Nat : M = N + 1
        BY <3>1
      <4>2. QED
        BY <3>1, <4>1, CountFacts
    <3>3. LoadedLessons[b] <= CountOf(q, 1..N, b) /\ LoadedLessons[b] \in Nat
      BY <1>8, <1>9, <2>10
    <3>4. QED
      BY <3>2, <3>3
  <2>12. runs' = q /\ DOMAIN runs' = 1..(N + 1)
    <3>1. runs' = q /\ DOMAIN q = 1..(N + 1)
      BY <1>2, <2>1, <2>8
    <3>2. QED
      BY <3>1
  <2>13. QED
    BY <1>9, <2>2, <2>3, <2>4, <2>6, <2>7, <2>10, <2>11, <2>12 DEF Taught
<1>15. ASSUME UNCHANGED <<runs, learned, log, lessonFile, unlearned>>,
              "lessons" \notin stale' => "lessons" \notin stale,
              at' = at \/ {at, at'} \subseteq {"recorded", "tasks open", "remembered"}
       PROVE  Taught'
  <2>1. Logged' = L /\ LoadedLessons' = LoadedLessons /\ runs' = r
    BY <1>2, <1>3, <1>15 DEF Logged, LoadedLessons
  <2>2. /\ From(SavingLabels)' = From(SavingLabels) /\ From(LoggingLabels)' = From(LoggingLabels)
        /\ AtMost' = AtMost
    BY <1>2, <1>3, <1>15, <2>1
       DEF From, AtMost, RecordingLabels, LearningLabels, SavingLabels, LoggingLabels
  <2>3. /\ AtLeast(SavingLabels)' = AtLeast(SavingLabels)
        /\ AtLeast(LoggingLabels)' = AtLeast(LoggingLabels)
    BY <1>15, <2>2 DEF AtLeast
  <2>4. at' # "down" => at # "down"
    BY <1>15
  <2>5. QED
    BY <1>2, <1>15, <2>1, <2>2, <2>3, <2>4 DEF Taught
<1>16. CASE OpenTasks \/ DumpTasks \/ SaveTasksFails \/ UNCHANGED vars
  <2>1. /\ UNCHANGED <<runs, learned, log, lessonFile, unlearned>>
        /\ "lessons" \notin stale' => "lessons" \notin stale
        /\ at' = at \/ {at, at'} \subseteq {"recorded", "tasks open", "remembered"}
    BY <1>16 DEF OpenTasks, Open, DumpTasks, Dump, SaveTasksFails, SaveFails, vars,
                 memory, disk, history
  <2>2. QED
    BY <1>15, <2>1
<1>17. CASE Learn
  <2>1. PICK e : e = Last(runs)
    OBVIOUS
  <2>2. /\ at = "remembered"
        /\ IF e.success
           THEN learned' = [learned EXCEPT ![e.cause] = @ + 1] /\ at' = "learned"
           ELSE learned' = learned /\ at' = "taught"
        /\ UNCHANGED <<runs, log, lessonFile, stale, unlearned>>
    BY <1>17, <2>1 DEF Learn, disk, history
  <2>3. N \in 1..N /\ r[N] = e
    BY <1>2, <1>13, <2>1, <2>2 DEF Last
  <2>4. Logged' = L /\ LoadedLessons' = LoadedLessons /\ runs' = r /\ DOMAIN runs' = 1..N
    BY <1>1, <1>2, <1>3, <2>2 DEF Logged, LoadedLessons
  <2>5. From(SavingLabels) = L /\ From(LoggingLabels) = L
    BY <1>3, <2>2 DEF From, SavingLabels, LoggingLabels
  <2>6. /\ From(SavingLabels)' = L \cup {N}
        /\ From(LoggingLabels)' = IF e.success THEN L ELSE L \cup {N}
    BY <1>2, <2>2, <2>4 DEF From, SavingLabels, LoggingLabels
  <2>7. AtMost = 1..(N - 1) /\ AtMost' = 1..N
    BY <1>2, <2>2 DEF AtMost, RecordingLabels, LearningLabels, SavingLabels, LoggingLabels
  <2>8. Since(L \cup {N}) = Since(L) \cup {N} \/ Since(L \cup {N}) = Since(L)
    BY DEF Since
  <2>9. Since(L) \in SUBSET (1..N)
    BY <1>3, <1>12
  <2>10. /\ 1..(N - 1) \in SUBSET (1..N) /\ N \notin 1..(N - 1)
         /\ 1..N = 1..(N - 1) \cup {N}
    BY <1>2, <2>3
  <2>11. ASSUME NEW c, NEW S \in SUBSET (1..N)
         PROVE  CountOf(r, S \cup {N}, c) = IF N \notin S /\ e.success /\ e.cause = c
                                            THEN CountOf(r, S, c) + 1 ELSE CountOf(r, S, c)
    <3>1. CountOf(r, S \cup {N}, c) = IF N \notin S /\ r[N].success /\ r[N].cause = c
                                      THEN CountOf(r, S, c) + 1 ELSE CountOf(r, S, c)
      <4>1. N \in Nat /\ N \in 1..N
        BY <1>2, <2>3
      <4>2. QED
        BY <4>1, CountOne, Zenon
    <3>2. QED
      BY <2>3, <3>1
  <2>12. ASSUME NEW c \in Causes
         PROVE  /\ CountOf(r, Since(L \cup {N}), c) <= learned'[c]
                /\ learned'[c] <= CountOf(r, 1..N, c)
    <3>1. PICK a, b, d \in Nat : /\ a = CountOf(r, Since(L), c) /\ b = learned[c]
                                 /\ d = CountOf(r, 1..(N - 1), c)
      BY <1>5, <1>8, <2>9, <2>10
    <3>2. a <= b /\ b <= d
      BY <1>9, <2>2, <2>5, <2>7, <3>1
    <3>3. CountOf(r, 1..N, c) = IF e.success /\ e.cause = c THEN d + 1 ELSE d
      BY <2>10, <2>11, <3>1
    <3>4. \/ CountOf(r, Since(L \cup {N}), c) = a
          \/ e.success /\ e.cause = c /\ CountOf(r, Since(L \cup {N}), c) = a + 1
      BY <2>8, <2>9, <2>11, <3>1
    <3>5. learned'[c] = IF e.success /\ e.cause = c THEN b + 1 ELSE b
      BY <1>8, <2>2, <3>1
    <3>6. QED
      BY <3>1, <3>2, <3>3, <3>4, <3>5
  <2>13. ASSUME NEW c \in Causes, ~e.success
         PROVE  CountOf(r, Since(L \cup {N}), c) = CountOf(r, Since(L), c)
    BY <2>8, <2>9, <2>11, <2>13
  <2>14. /\ AtLeast(SavingLabels)' = Since(From(SavingLabels)')
         /\ AtLeast(LoggingLabels)' = Since(From(LoggingLabels)')
    BY <1>3, <2>2 DEF AtLeast, Since
  <2>15. ASSUME NEW c \in Causes, lessonFile.state # "torn", "lessons" \notin stale
         PROVE  CountOf(r, Since(From(LoggingLabels)'), c) <= LoadedLessons[c]
    <3>1. CountOf(r, Since(L), c) <= LoadedLessons[c]
      BY <1>9, <2>5, <2>15
    <3>2. CountOf(r, Since(From(LoggingLabels)'), c) = CountOf(r, Since(L), c)
      BY <2>6, <2>13
    <3>3. QED
      BY <3>1, <3>2
  <2>16. QED
    BY <1>9, <2>2, <2>4, <2>6, <2>7, <2>12, <2>14, <2>15 DEF Taught
<1>18. ASSUME {at, at'} \subseteq SavingLabels, UNCHANGED <<runs, learned, log, unlearned>>,
              LoadedLessons' \in {LoadedLessons, learned, NoLessons},
              lessonFile'.state # "torn" /\ "lessons" \notin stale' => LoadedLessons' = learned
       PROVE  Taught'
  <2>1. Logged' = L /\ runs' = r /\ DOMAIN runs' = 1..N /\ Len(runs) = N
    BY <1>1, <1>2, <1>3, <1>18 DEF Logged
  <2>2. /\ From(SavingLabels) = L \cup {N} /\ From(SavingLabels)' = L \cup {N}
        /\ AtMost = 1..N /\ AtMost' = 1..N
    BY <1>3, <1>18, <2>1
       DEF From, AtMost, RecordingLabels, LearningLabels, SavingLabels, LoggingLabels
  <2>3. From(LoggingLabels)' \in {L, L \cup {N}}
    BY <2>1, <1>18 DEF From
  <2>4. /\ AtLeast(SavingLabels)' = Since(L \cup {N})
        /\ AtLeast(LoggingLabels)' \in {Since(L), Since(L \cup {N})}
    BY <1>3, <1>18, <2>2, <2>3 DEF AtLeast, Since
  <2>5. N \in 1..N
    BY <1>13, <1>18 DEF SavingLabels, LoggingLabels
  <2>6. ASSUME NEW c \in Causes
        PROVE  /\ CountOf(r, Since(L), c) <= learned[c]
               /\ CountOf(r, Since(L \cup {N}), c) <= learned[c]
               /\ learned[c] <= CountOf(r, 1..N, c)
    <3>1. Since(L) \subseteq Since(L \cup {N}) /\ Since(L \cup {N}) \in SUBSET (1..N)
      BY <1>3, <1>12, <2>5 DEF Since
    <3>2. CountOf(r, Since(L), c) <= CountOf(r, Since(L \cup {N}), c)
      BY <1>6, <3>1
    <3>3. CountOf(r, Since(L \cup {N}), c) <= learned[c] /\ learned[c] <= CountOf(r, 1..N, c)
      BY <1>9, <1>18, <2>2 DEF SavingLabels, LoggingLabels
    <3>4. PICK a, b, d \in Nat : /\ a = CountOf(r, Since(L), c) /\ b = learned[c]
                                 /\ d = CountOf(r, Since(L \cup {N}), c)
      BY <1>5, <1>8, <3>1
    <3>5. QED
      BY <3>2, <3>3, <3>4
  <2>7. ASSUME NEW c \in Causes PROVE NoLessons[c] <= CountOf(r, 1..N, c)
    <3>1. 1..N \in SUBSET (1..N)
      OBVIOUS
    <3>2. CountOf(r, 1..N, c) \in Nat /\ NoLessons[c] = 0
      BY <1>5, <3>1 DEF NoLessons
    <3>3. QED
      BY <3>2
  <2>8. \A c \in Causes : LoadedLessons'[c] <= CountOf(r, 1..N, c)
    BY <1>9, <1>18, <2>6, <2>7
  <2>9. lessonFile'.state # "torn" /\ "lessons" \notin stale' =>
           \A c \in Causes : CountOf(r, AtLeast(LoggingLabels)', c) <= LoadedLessons'[c]
    BY <1>18, <2>4, <2>6
  <2>10. QED
    BY <1>18, <2>1, <2>2, <2>4, <2>6, <2>8, <2>9 DEF Taught
<1>19. CASE OpenLessons
  BY <1>18, <1>19 DEF OpenLessons, Open, LoadedLessons, Torn, memory, history, SavingLabels
<1>20. CASE DumpLessons
  BY <1>18, <1>20 DEF DumpLessons, Dump, LoadedLessons, Whole, memory, SavingLabels, LoggingLabels
<1>21. CASE SaveLessonsFails
  BY <1>18, <1>21 DEF SaveLessonsFails, SaveFails, LoadedLessons, memory, disk, SavingLabels,
                      LoggingLabels
<1>22. CASE LogTask
  <2>1. /\ at = "taught" /\ at' = "idle" /\ log' = Append(log, N)
        /\ UNCHANGED <<runs, learned, lessonFile, stale, unlearned>>
    BY <1>2, <1>22 DEF LogTask, memory, history
  <2>2. Logged' = L \cup {N} /\ LoadedLessons' = LoadedLessons /\ runs' = r /\ DOMAIN runs' = 1..N
    BY <1>1, <1>2, <1>3, <2>1, LoggedMore DEF LoadedLessons
  <2>3. /\ From(SavingLabels) = L \cup {N} /\ From(SavingLabels)' = L \cup {N}
        /\ From(LoggingLabels) = L \cup {N} /\ From(LoggingLabels)' = L \cup {N}
        /\ AtMost = 1..N /\ AtMost' = 1..N
    BY <1>2, <1>3, <2>1, <2>2
       DEF From, AtMost, RecordingLabels, LearningLabels, SavingLabels, LoggingLabels
  <2>4. /\ AtLeast(SavingLabels)' = Since(L \cup {N})
        /\ AtLeast(LoggingLabels)' = Since(L \cup {N})
    BY <1>3, <2>1, <2>3 DEF AtLeast, Since
  <2>5. QED
    BY <1>9, <2>1, <2>2, <2>3, <2>4 DEF Taught
<1>23. QED
  BY <1>10, <1>11, <1>14, <1>16, <1>17, <1>19, <1>20, <1>21, <1>22 DEF Next, RunTask

-----------------------------------------------------------------------------
(* The theorems. *)

LEMMA InitInv == Init => IInv
<1> SUFFICES ASSUME Init PROVE IInv
  OBVIOUS
<1>1. /\ at = "down" /\ runs = <<>> /\ log = <<>> /\ learned = NoLessons
      /\ tasks = NoTasks /\ index = NoIndex /\ lost = 0 /\ unlearned = 0 /\ stale = {}
      /\ LoadedTasks = NoTasks /\ LoadedIndex = NoIndex /\ LoadedLessons = NoLessons
  BY DEF Init, LoadedTasks, LoadedIndex, LoadedLessons, NoFile
<1>2. runs \in Seq(Reports) /\ log \in Seq(1..Len(runs)) /\ Logged = {}
  BY <1>1 DEF Logged, ToSet
<1>3. TypeOK
  BY <1>1, <1>2 DEF TypeOK, Labels, NoLessons
<1>4. Stored
  BY <1>1, <1>2, EmptySound DEF Stored
<1>5. From(LearningLabels) = {} /\ From(LoggingLabels) = {}
  BY <1>1, <1>2 DEF From, LearningLabels, SavingLabels, LoggingLabels
<1>6. Recalled
  BY <1>1, <1>5 DEF Recalled
<1>7. \A c : CountOf(runs, AtLeast(LoggingLabels), c) = 0
  <2>1. AtLeast(LoggingLabels) = {}
    BY <1>5 DEF AtLeast
  <2>2. QED
    BY <2>1, FS_EmptySet DEF CountOf, Taken
<1>8. \A c : CountOf(runs, DOMAIN runs, c) = 0
  BY <1>1, FS_EmptySet DEF CountOf, Taken
<1>9. \A c \in Causes : LoadedLessons[c] = 0
  BY <1>1 DEF NoLessons
<1>10. Taught
  BY <1>1, <1>7, <1>8, <1>9 DEF Taught
<1>11. QED
  BY <1>3, <1>4, <1>6, <1>10 DEF IInv

\* The invariant holds throughout: of what the process remembers, and of what it would
\* remember if it were started again.
THEOREM Invariance == Spec => []IInv
<1>1. IInv /\ [Next]_vars => IInv'
  BY TypeStep, StoredStep, RecalledStep, TaughtStep DEF IInv
<1>2. QED
  BY <1>1, InitInv, PTL DEF Spec

\* Every variable keeps its type.
THEOREM TypeCorrect == Spec => []TypeOK
<1>1. IInv => TypeOK
  BY DEF IInv
<1>2. QED
  BY <1>1, Invariance, PTL

\* The index of LongTermTaskStore and its tasks agree, order by order, through ids that two
\* runs share, evictions and restarts.
THEOREM IndexAgreesHolds == Spec => []IndexAgrees
<1>1. IInv => IndexAgrees
  BY DEF IInv, Stored, Sound, Matched, IndexAgrees, Listed
<1>2. QED
  BY <1>1, Invariance, PTL

\* A sound store holds as many runs as it has ids.
LEMMA HeldCount ==
    ASSUME NEW r, NEW T, NEW X, Sound(r, T, X)
    PROVE  Cardinality(HeldIn(T)) = Cardinality(DOMAIN T)
<1> DEFINE f == [i \in DOMAIN T |-> T[i]]
<1>1. f \in Bijection(DOMAIN T, HeldIn(T))
  <2>1. f \in Surjection(DOMAIN T, HeldIn(T))
    BY DEF HeldIn, Surjection
  <2>2. \A i, j \in DOMAIN T : T[i] = T[j] => i = j
    BY DEF Sound, Matched
  <2>3. QED
    BY <2>1, <2>2 DEF Injection, IsInjective, Bijection, Surjection
<1>2. ExistsBijection(DOMAIN T, HeldIn(T))
  BY <1>1 DEF ExistsBijection
<1>3. QED
  BY <1>2, FS_Bijection DEF Sound, Matched

\* What was logged is remembered, or was overwritten, crowded out or lost with a file; and
\* each logged success is learned from once, for every capacity and number of runs.
THEOREM HistoryKeptHolds == Spec => []HistoryKept
<1>1. IInv => HistoryKept
  <2> SUFFICES ASSUME IInv, at # "down" PROVE
        /\ \A n \in Logged : n <= lost \/ n \in Held \/ Overwritten(n) \/ CrowdedOut(n)
        /\ \A c \in Causes :
              /\ Lessons({n \in Logged : n > unlearned}, c) <= learned[c]
              /\ learned[c] <= Lessons(DOMAIN runs, c)
    BY DEF HistoryKept
  <2>1. Held = HeldIn(tasks) /\ \A n : Id(n) = IdOf(runs, n)
    BY DEF Held, HeldIn, Id, IdOf
  <2>2. PICK k \in Nat : k = Cardinality(DOMAIN tasks) /\ k = Cardinality(Held) /\ k <= MaxKept
    <3>1. Sound(runs, tasks, index)
      BY DEF IInv, Stored
    <3>2. Cardinality(HeldIn(tasks)) = Cardinality(DOMAIN tasks)
      BY <3>1, HeldCount
    <3>3. Cardinality(DOMAIN tasks) \in Nat /\ Cardinality(DOMAIN tasks) <= MaxKept
      BY <3>1, FS_CardinalityType DEF Sound, Matched
    <3>4. QED
      BY <2>1, <3>2, <3>3
  <2>3. ASSUME NEW n \in Logged
        PROVE  n <= lost \/ n \in Held \/ Overwritten(n) \/ CrowdedOut(n)
    <3>1. n <= lost \/ Recalls(runs, tasks, n)
      BY DEF IInv, Recalled, From
    <3>2. CASE Cardinality(DOMAIN tasks) >= MaxKept /\ \A m \in HeldIn(tasks) : m > n
      <4>1. MaxKept \in Nat
        BY BoundAssumption
      <4>2. k = MaxKept
        BY <2>2, <3>2, <4>1
      <4>3. QED
        BY <2>1, <2>2, <3>2, <4>2 DEF CrowdedOut
    <3>3. CASE \E m \in HeldIn(tasks) : m > n /\ IdOf(runs, m) = IdOf(runs, n)
      BY <2>1, <3>3 DEF Overwritten
    <3>4. QED
      BY <2>1, <3>1, <3>2, <3>3 DEF Recalls
  <2>4. ASSUME NEW c \in Causes
        PROVE  /\ Lessons({n \in Logged : n > unlearned}, c) <= learned[c]
               /\ learned[c] <= Lessons(DOMAIN runs, c)
    <3>1. \A S : Lessons(S, c) = CountOf(runs, S, c)
      BY DEF Lessons, CountOf, Taken
    <3>2. PICK N \in Nat : N = Len(runs) /\ DOMAIN runs = 1..N /\ Logged \subseteq 1..N
      BY TypeFacts DEF IInv
    <3>3. PICK A, B, S, M : /\ A = {n \in Logged : n > unlearned} /\ B = AtLeast(SavingLabels)
                            /\ M = AtMost /\ S = 1..N
      OBVIOUS
    <3>4. A \subseteq B /\ B \in SUBSET (1..N) /\ M \in SUBSET (1..N)
      <4>1. runs \in Seq(Reports) /\ (at \in SavingLabels => runs # <<>>)
        BY DEF IInv, TypeOK, SavingLabels, RecordingLabels, LearningLabels, LoggingLabels
      <4>2. at \in SavingLabels => N \in 1..N
        BY <3>2, <4>1
      <4>3. AtMost \subseteq 1..N
        BY <3>2 DEF AtMost
      <4>4. From(SavingLabels) \subseteq 1..N
        BY <3>2, <4>2 DEF From
      <4>5. Logged \subseteq From(SavingLabels)
        BY DEF From
      <4>6. QED
        BY <3>2, <3>3, <4>3, <4>4, <4>5 DEF AtLeast
    <3>5. CountOf(runs, B, c) <= learned[c] /\ learned[c] <= CountOf(runs, M, c)
      BY <3>3 DEF IInv, Taught
    <3>6. PICK r : r = runs
      OBVIOUS
    <3>7. /\ CountOf(r, A, c) <= CountOf(r, B, c) /\ CountOf(r, M, c) <= CountOf(r, S, c)
          /\ {CountOf(r, A, c), CountOf(r, B, c), CountOf(r, M, c), CountOf(r, S, c)} \subseteq Nat
      <4>1. \A Q \in SUBSET (1..N) : CountOf(r, Q, c) \in Nat
        BY <3>2, CountFacts
      <4>2. \A Q, R \in SUBSET (1..N) : Q \subseteq R => CountOf(r, Q, c) <= CountOf(r, R, c)
        BY <3>2, CountFacts
      <4>3. A \in SUBSET (1..N) /\ S \in SUBSET (1..N) /\ M \subseteq S
        BY <3>3, <3>4
      <4>4. QED
        BY <3>4, <4>1, <4>2, <4>3
    <3>8. learned[c] \in Nat
      BY DEF IInv, TypeOK
    <3>9. CountOf(r, A, c) <= learned[c] /\ learned[c] <= CountOf(r, S, c)
      BY <3>5, <3>6, <3>7, <3>8
    <3>10. QED
      BY <3>1, <3>2, <3>3, <3>6, <3>9
  <2>5. QED
    BY <2>3, <2>4
<1>2. QED
  BY <1>1, Invariance, PTL
=============================================================================
