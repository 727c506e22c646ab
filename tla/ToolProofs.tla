----------------------------- MODULE ToolProofs -----------------------------
(* Proofs about what the agents call.  The circuit breaker of ToolCall, for   *)
(* every number of callers, every threshold, recovery timeout and retry       *)
(* limit, and its rate limiter for every window and number of requests.  The  *)
(* search of Retrieval, for every set of documents, every order of loading    *)
(* and any number of edits between its steps.  The check of PaymentIntegrity, *)
(* for orders with any number of payments and any minutes.  The three share   *)
(* no state; they share the lemmas about recursive functions and sequences.   *)
EXTENDS ToolCall, Retrieval, PaymentIntegrity, TLAPS, SequenceTheorems, FiniteSetTheorems

-----------------------------------------------------------------------------
(* The inductive invariant.  A late failure moves last_failure_time on, so the *)
(* breaker has been open at least as long as its last failure is old; it leaves*)
(* OPEN only when that is RecoveryTimeout, and opens again only by a change.   *)

BreakerTypes ==
    /\ state \in States
    /\ failure_count \in Nat
    /\ lastFailure \in 0..RecoveryTimeout
    /\ opened \in 0..RecoveryTimeout

BreakerInv ==
    /\ BreakerTypes
    /\ state = "open" => opened >= lastFailure
    /\ state # "open" => opened = RecoveryTimeout
    /\ ClosedBelowThreshold

\* Each of the two ages stays in its range when it is advanced or reset.
LEMMA LeastFacts ==
    ASSUME NEW a \in 0..RecoveryTimeout, NEW b \in 0..RecoveryTimeout, a >= b
    PROVE  /\ Least(a + 1, RecoveryTimeout) \in 0..RecoveryTimeout
           /\ Least(a + 1, RecoveryTimeout) >= Least(b + 1, RecoveryTimeout)
           /\ a = RecoveryTimeout => Least(a + 1, RecoveryTimeout) = RecoveryTimeout
BY BreakerAssumption DEF Least

\* A success closes a half-open breaker with a count of zero, and otherwise only takes
\* a failure back.
LEMMA SuccessStep ==
    ASSUME BreakerInv, RecordSuccess
    PROVE  BreakerInv'
BY BreakerAssumption
   DEF BreakerInv, BreakerTypes, ClosedBelowThreshold, RecordSuccess, ClosesOnSuccess,
       CountOnClose, TakenBack, States

\* A failure either stays below the threshold of a closed breaker or leaves it open.
LEMMA FailureStep ==
    ASSUME BreakerInv, RecordFailure
    PROVE  BreakerInv'
<1> USE BreakerAssumption DEF BreakerInv, BreakerTypes, ClosedBelowThreshold, States
<1> DEFINE n == Least(failure_count + 1, CountCap)
           opens == state = "half_open" \/ n >= FailureThreshold
<1>1. /\ n \in Nat
      /\ failure_count' = n /\ lastFailure' = 0
      /\ state' = IF opens THEN "open" ELSE state
      /\ opened' = IF opens /\ state # "open" THEN 0 ELSE opened
  BY DEF RecordFailure, Least
<1> HIDE DEF n
<1>2. CASE opens
  BY <1>1, <1>2
<1>3. CASE ~opens
  BY <1>1, <1>3
<1>4. QED
  BY <1>2, <1>3

\* can_execute() leaves OPEN only when the last failure is old enough.
LEMMA AdmitStep ==
    ASSUME BreakerInv, NEW c \in Callers, Admit(c)
    PROVE  BreakerInv'
<1> USE BreakerAssumption DEF BreakerInv, BreakerTypes, ClosedBelowThreshold, States
<1>1. CASE state = "open" /\ RecoveryElapsed
  BY <1>1 DEF Admit, RecoveryElapsed
<1>2. CASE ~(state = "open" /\ RecoveryElapsed)
  BY <1>2 DEF Admit
<1>3. QED
  BY <1>1, <1>2

\* Time alone keeps the order of the two ages.
LEMMA TickStep ==
    ASSUME BreakerInv, Tick
    PROVE  BreakerInv'
<1> USE BreakerAssumption DEF BreakerInv, BreakerTypes, ClosedBelowThreshold
<1>1. /\ lastFailure' = Least(lastFailure + 1, RecoveryTimeout)
      /\ opened' = Least(opened + 1, RecoveryTimeout)
      /\ UNCHANGED <<state, failure_count>>
  BY DEF Tick
<1>2. lastFailure' \in 0..RecoveryTimeout
  BY <1>1, LeastFacts
<1>3. opened' \in 0..RecoveryTimeout
  BY <1>1, LeastFacts
<1>4. state = "open" => opened' >= lastFailure'
  BY <1>1, LeastFacts
<1>5. state # "open" => opened' = RecoveryTimeout
  BY <1>1, LeastFacts
<1>6. QED
  BY <1>1, <1>2, <1>3, <1>4, <1>5

\* A new breaker is closed, with no failure and no opening in reach.
LEMMA InitBreaker == Init => BreakerInv
BY BreakerAssumption DEF Init, BreakerInv, BreakerTypes, ClosedBelowThreshold, States

\* Every step keeps the breaker's invariant.
LEMMA NextBreaker ==
    ASSUME BreakerInv, [Next]_vars
    PROVE  BreakerInv'
<1>1. CASE Tick
  BY <1>1, TickStep
<1>2. ASSUME UNCHANGED breaker PROVE BreakerInv'
  BY <1>2 DEF breaker, BreakerInv, BreakerTypes, ClosedBelowThreshold
<1>3. ASSUME NEW c \in Callers, Admit(c) PROVE BreakerInv'
  BY <1>3, AdmitStep
<1>4. ASSUME NEW c \in Callers, Succeed(c) PROVE BreakerInv'
  BY <1>4, SuccessStep DEF Succeed
<1>5. ASSUME NEW c \in Callers, Raise(c) \/ GiveUp(c) PROVE BreakerInv'
  BY <1>5, FailureStep DEF Raise, GiveUp
<1>6. ASSUME NEW c \in Callers, Begin(c) \/ Limit(c) \/ Unregistered(c) \/ Refuse(c)
      PROVE  BreakerInv'
  BY <1>2, <1>6 DEF Begin, Limit, Unregistered, Refuse
<1>7. CASE UNCHANGED vars
  BY <1>2, <1>7 DEF vars
<1>8. QED
  BY <1>1, <1>3, <1>4, <1>5, <1>6, <1>7 DEF Next, Proceed

\* Each caller is somewhere in call_tool.
PcType == pc \in [Callers -> Labels]

\* Every step moves callers between the labels of call_tool.
LEMMA PcStep ==
    ASSUME PcType, [Next]_vars
    PROVE  PcType'
BY DEF PcType, Labels, Next, vars, Tick, Begin, Limit, Admit, Proceed, Unregistered, Succeed,
       Refuse, Raise, GiveUp, Leave, NextAttempt, Goto

\* Only can_execute() takes a caller from its question to the tool.
LEMMA OnlyAdmit ==
    ASSUME PcType, Next, NEW c \in Callers, pc[c] = "admit", pc'[c] = "run"
    PROVE  Admit(c)
<1>1. PICK d \in Callers : Begin(d) \/ Proceed(d)
  BY DEF Next, Tick
<1>2. CASE d = c
  BY <1>1, <1>2 DEF PcType, Labels, Begin, Proceed, Limit, Unregistered, Succeed, Refuse,
                    Raise, GiveUp
<1>3. ASSUME d # c PROVE pc'[c] = pc[c]
  BY <1>1, <1>3 DEF PcType, Begin, Proceed, Limit, Admit, Unregistered, Succeed, Refuse,
                    Raise, GiveUp, Leave, NextAttempt, Goto
<1>4. QED
  BY <1>2, <1>3

\* The breaker's invariant holds in every reachable state.
THEOREM BreakerInvariance == Spec => []BreakerInv
<1>1. QED
  BY InitBreaker, NextBreaker, PTL DEF Spec

\* A closed breaker is below its threshold, for every threshold and number of callers.
THEOREM ClosedBelowThresholdHolds == Spec => []ClosedBelowThreshold
<1>1. BreakerInv => ClosedBelowThreshold
  BY DEF BreakerInv
<1>2. QED
  BY <1>1, BreakerInvariance, PTL

\* No call is admitted within RecoveryTimeout of the last change to OPEN, whatever the
\* calls that were admitted before it report, and however many there are.
THEOREM NoEarlyAdmissionHolds == Spec => NoEarlyAdmission
<1>1. BreakerInv /\ PcType /\ [Next]_vars =>
        [\A c \in Callers : pc[c] = "admit" /\ pc'[c] = "run" => opened >= RecoveryTimeout]_vars
  <2> SUFFICES ASSUME BreakerInv, PcType, Next, NEW c \in Callers, pc[c] = "admit", pc'[c] = "run"
               PROVE  opened >= RecoveryTimeout
    BY DEF vars
  <2>1. opened \in 0..RecoveryTimeout /\ RecoveryTimeout \in Nat
    BY BreakerAssumption DEF BreakerInv, BreakerTypes
  <2>2. Admit(c)
    BY OnlyAdmit
  <2>3. MayExecute
    BY <2>2 DEF Admit, Goto, PcType
  <2>4. QED
    BY <2>1, <2>3 DEF MayExecute, RecoveryElapsed, BreakerInv, BreakerTypes
<1>2. Init => PcType
  BY DEF Init, PcType, Labels
<1>3. QED
  BY <1>1, <1>2, PcStep, BreakerInvariance, PTL DEF Spec, NoEarlyAdmission
-----------------------------------------------------------------------------
(* The rate limiter.  The sum over the window and the list comprehension are   *)
(* recursive functions: that each is the function its equation defines, and    *)
(* what it computes, is shown by way of the least number for which it is not.  *)

\* A nonempty set of naturals has a least element.  The sets 0..(n - 1) stand for the
\* numbers, because finite sets are well founded under strict inclusion.
LEMMA NatMin ==
    ASSUME NEW S \in SUBSET Nat, S # {}
    PROVE  \E m \in S : \A n \in S : m <= n
<1> DEFINE R == StrictSubsetOrdering(Nat)
           Below == {0..(n - 1) : n \in S}
<1>1. IsWellFoundedOn(R, FiniteSubsetsOf(Nat))
  BY FS_StrictSubsetOrderingWellFounded
<1>2. Below \subseteq FiniteSubsetsOf(Nat)
  <2> SUFFICES ASSUME NEW n \in S PROVE 0..(n - 1) \in FiniteSubsetsOf(Nat)
    OBVIOUS
  <2>1. n \in Nat
    OBVIOUS
  <2>2. IsFiniteSet(0..(n - 1))
    BY <2>1, FS_Interval
  <2>3. QED
    BY <2>1, <2>2 DEF FiniteSubsetsOf
<1>3. PICK X \in Below : \A Y \in Below : <<Y, X>> \notin R
  <2> HIDE DEF R, Below
  <2>1. Below # {}
    BY DEF Below
  <2>2. QED
    BY <1>1, <1>2, <2>1, WFMin
<1>4. PICK m \in S : X = 0..(m - 1)
  OBVIOUS
<1>5. ASSUME NEW n \in S, n < m PROVE FALSE
  <2>1. m \in Nat /\ n \in Nat
    OBVIOUS
  <2>2. 0..(n - 1) \subseteq 0..(m - 1)
    BY <1>5, <2>1
  <2>3. n \in 0..(m - 1) /\ n \notin 0..(n - 1)
    BY <1>5, <2>1
  <2>4. <<0..(n - 1), 0..(m - 1)>> \in R
    BY <2>1, <2>2, <2>3 DEF StrictSubsetOrdering
  <2>5. QED
    BY <1>3, <1>4, <2>4
<1>6. QED
  BY <1>5

\* A function on 0..N with values in S whose value at k comes from the one before.
Recurs(N, S, z, g) ==
    \E f \in [0..N -> S] : \A k \in 0..N : f[k] = IF k = 0 THEN z ELSE g[k][f[k - 1]]

\* There is one.
LEMMA Recursion ==
    ASSUME NEW N \in Nat, NEW S, NEW z \in S, NEW g \in [1..N -> [S -> S]]
    PROVE  Recurs(N, S, z, g)
<1> USE DEF Recurs
<1> DEFINE Upto(f, n) == \A k \in 0..n : f[k] = IF k = 0 THEN z ELSE g[k][f[k - 1]]
           Bad == {n \in 0..N : ~ \E f \in [0..n -> S] : Upto(f, n)}
<1>1. SUFFICES ASSUME Bad # {} PROVE FALSE
  <2>1. N \in 0..N
    OBVIOUS
  <2>2. QED
    BY <2>1
<1>2. PICK m \in Bad : \A n \in Bad : m <= n
  <2>1. Bad \in SUBSET Nat
    OBVIOUS
  <2>2. QED
    BY <1>1, <2>1, NatMin
<1>3. m \in 0..N
  OBVIOUS
<1>4. CASE m = 0
  <2>1. [k \in 0..0 |-> z] \in [0..0 -> S] /\ Upto([k \in 0..0 |-> z], 0)
    OBVIOUS
  <2>2. QED
    BY <1>4, <2>1
<1>5. CASE m # 0
  <2>1. m - 1 \in 0..N /\ m - 1 \notin Bad
    <3>1. m - 1 \in 0..N /\ ~(m <= m - 1)
      BY <1>3, <1>5
    <3> HIDE DEF Bad
    <3>2. QED
      BY <1>2, <3>1
  <2>2. PICK f \in [0..(m - 1) -> S] : Upto(f, m - 1)
    BY <2>1
  <2>3. g[m][f[m - 1]] \in S
    BY <1>3, <1>5
  <2> DEFINE h == [k \in 0..m |-> IF k < m THEN f[k] ELSE g[m][f[m - 1]]]
  <2>4. h \in [0..m -> S]
    BY <1>3, <2>3
  <2>5. Upto(h, m)
    <3> SUFFICES ASSUME NEW k \in 0..m PROVE h[k] = IF k = 0 THEN z ELSE g[k][h[k - 1]]
      OBVIOUS
    <3>1. CASE k = m
      <4>1. m - 1 \in 0..m /\ m - 1 < m /\ m \in 0..m /\ ~(m < m)
        BY <1>3, <1>5
      <4>2. h[m - 1] = f[m - 1] /\ h[m] = g[m][f[m - 1]]
        BY <4>1
      <4> HIDE DEF h
      <4>3. QED
        BY <1>5, <3>1, <4>2
    <3>2. CASE k # m
      <4>1. k \in 0..(m - 1) /\ (k # 0 => k - 1 \in 0..m /\ k - 1 < m)
        BY <1>3, <3>2
      <4>2. h[k] = f[k] /\ (k # 0 => h[k - 1] = f[k - 1])
        BY <1>3, <3>2, <4>1
      <4>3. QED
        BY <2>2, <4>1, <4>2
    <3>3. QED
      BY <3>1, <3>2
  <2>6. QED
    BY <2>4, <2>5
<1>6. QED
  BY <1>4, <1>5

\* What the two recursive functions satisfy.
LEMMA SumFacts ==
    ASSUME NEW g \in [0..(Window - 1) -> Nat], NEW F,
           F = CHOOSE f : f = [a \in 0..Window |-> IF a = 0 THEN 0 ELSE f[a - 1] + g[a - 1]]
    PROVE  /\ F \in [0..Window -> Nat] /\ F[0] = 0
           /\ \A a \in 1..Window : F[a] = F[a - 1] + g[a - 1]
<1>1. Window \in Nat
  BY LimiterAssumption
<1> DEFINE h == [k \in 1..Window |-> [v \in Nat |-> v + g[k - 1]]]
<1>2. h \in [1..Window -> [Nat -> Nat]]
  BY <1>1
<1>3. PICK f \in [0..Window -> Nat] : \A k \in 0..Window : f[k] = IF k = 0 THEN 0 ELSE h[k][f[k - 1]]
  <2> HIDE DEF h
  <2>1. Recurs(Window, Nat, 0, h)
    BY <1>1, <1>2, Recursion
  <2>2. QED
    BY <2>1 DEF Recurs
<1>4. \A k \in 1..Window : f[k - 1] \in Nat /\ f[k] = f[k - 1] + g[k - 1]
  <2> SUFFICES ASSUME NEW k \in 1..Window PROVE f[k - 1] \in Nat /\ f[k] = f[k - 1] + g[k - 1]
    OBVIOUS
  <2>1. k \in 0..Window /\ k # 0 /\ k - 1 \in 0..Window
    BY <1>1
  <2>2. f[k - 1] \in Nat
    BY <2>1
  <2>3. h[k][f[k - 1]] = f[k - 1] + g[k - 1]
    BY <2>2
  <2> HIDE DEF h
  <2>4. QED
    BY <1>3, <2>1, <2>2, <2>3
<1>5. f = [a \in 0..Window |-> IF a = 0 THEN 0 ELSE f[a - 1] + g[a - 1]]
  <2>1. \A a \in 0..Window : a # 0 => a \in 1..Window
    BY <1>1
  <2>2. \A a \in 0..Window : f[a] = IF a = 0 THEN 0 ELSE f[a - 1] + g[a - 1]
    BY <1>3, <1>4, <2>1
  <2>3. QED
    BY <2>2
<1>6. F = [a \in 0..Window |-> IF a = 0 THEN 0 ELSE F[a - 1] + g[a - 1]]
  BY <1>5
<1>7. \A a \in 1..Window : a \in 0..Window /\ a # 0 /\ a - 1 \in 0..(Window - 1)
  BY <1>1
<1>8. F[0] = 0 /\ \A a \in 1..Window : F[a] = F[a - 1] + g[a - 1]
  <2>1. \A a \in 0..Window : F[a] = IF a = 0 THEN 0 ELSE F[a - 1] + g[a - 1]
    BY <1>6
  <2>2. 0 \in 0..Window
    BY <1>1
  <2>3. QED
    BY <1>7, <2>1, <2>2
<1> DEFINE Bad == {a \in 0..Window : F[a] \notin Nat}
<1>9. Bad = {}
  <2>1. SUFFICES ASSUME Bad # {} PROVE FALSE
    OBVIOUS
  <2>2. PICK m \in Bad : \A n \in Bad : m <= n
    <3>1. Bad \in SUBSET Nat
      BY <1>1
    <3> HIDE DEF Bad
    <3>2. QED
      BY <2>1, <3>1, NatMin
  <2>3. m # 0 /\ m \in 1..Window
    BY <1>1, <1>8
  <2>4. m - 1 \in 0..Window /\ m - 1 \notin Bad
    BY <1>1, <2>2, <2>3
  <2>5. F[m - 1] \in Nat /\ g[m - 1] \in Nat
    BY <1>7, <2>3, <2>4
  <2>6. QED
    BY <1>8, <2>3, <2>5
<1>10. F \in [0..Window -> Nat]
  BY <1>6, <1>9
<1>11. QED
  BY <1>8, <1>10

\* How many entries of s are a.
Count(s, a) == Cardinality({i \in DOMAIN s : s[i] = a})

\* Appending v counts one more v, and nothing else.
CountsOne(s, v) ==
    \A a : /\ Count(s, a) \in Nat
           /\ Count(Append(s, v), a) = IF v = a THEN Count(s, a) + 1 ELSE Count(s, a)

\* Appending an age to the kept ones adds one to its count and to no other.
LEMMA CountAppend ==
    ASSUME NEW T, NEW s \in Seq(T), NEW v \in T
    PROVE  CountsOne(s, v)
<1> SUFFICES ASSUME NEW a
             PROVE  /\ Count(s, a) \in Nat
                    /\ Count(Append(s, v), a) = IF v = a THEN Count(s, a) + 1 ELSE Count(s, a)
  BY DEF CountsOne
<1> DEFINE A == {i \in DOMAIN s : s[i] = a}
           B == {i \in DOMAIN Append(s, v) : Append(s, v)[i] = a}
<1>1. PICK n \in Nat : n = Len(s) /\ DOMAIN s = 1..n
  OBVIOUS
<1>2. /\ DOMAIN Append(s, v) = 1..(n + 1)
      /\ Append(s, v)[n + 1] = v
      /\ \A i \in 1..n : Append(s, v)[i] = s[i]
  BY <1>1
<1>3. IsFiniteSet(A) /\ Cardinality(A) \in Nat
  <2>1. IsFiniteSet(1..n) /\ A \subseteq 1..n
    BY <1>1, FS_Interval
  <2> HIDE DEF A
  <2>2. QED
    BY <2>1, FS_Subset, FS_CardinalityType
<1>4. B = IF v = a THEN A \cup {n + 1} ELSE A
  BY <1>1, <1>2
<1>5. n + 1 \notin A
  BY <1>1
<1>6. Cardinality(B) = IF v = a THEN Cardinality(A) + 1 ELSE Cardinality(A)
  <2> HIDE DEF A, B
  <2>1. QED
    BY <1>3, <1>4, <1>5, FS_AddElement
<1>7. QED
  BY <1>3, <1>6 DEF Count

\* The sums of the counts of the ages below the window count all the entries below it.
LEMMA SumsCount ==
    ASSUME NEW s \in Seq(Nat), NEW g \in [0..(Window - 1) -> Nat], NEW F \in [0..Window -> Nat],
           F[0] = 0, \A a \in 1..Window : F[a] = F[a - 1] + g[a - 1],
           \A a \in 0..(Window - 1) : g[a] = Count(s, a)
    PROVE  F[Window] = Cardinality({i \in DOMAIN s : s[i] < Window})
<1> DEFINE Under(a) == {i \in DOMAIN s : s[i] < a}
           At(a) == {i \in DOMAIN s : s[i] = a}
           Bad == {a \in 0..Window : F[a] # Cardinality(Under(a))}
<1>1. Window \in Nat /\ Window \in 0..Window
  BY LimiterAssumption
<1>2. PICK n \in Nat : n = Len(s) /\ DOMAIN s = 1..n
  OBVIOUS
<1>3. \A i \in DOMAIN s : s[i] \in Nat
  OBVIOUS
<1>4. \A a : IsFiniteSet(Under(a)) /\ IsFiniteSet(At(a))
  <2> SUFFICES ASSUME NEW a PROVE IsFiniteSet(Under(a)) /\ IsFiniteSet(At(a))
    OBVIOUS
  <2>1. IsFiniteSet(1..n)
    BY FS_Interval
  <2>2. Under(a) \subseteq 1..n /\ At(a) \subseteq 1..n
    BY <1>2
  <2> HIDE DEF Under, At
  <2>3. QED
    BY <2>1, <2>2, FS_Subset
<1>5. Bad = {}
  <2>1. SUFFICES ASSUME Bad # {} PROVE FALSE
    OBVIOUS
  <2>2. PICK m \in Bad : \A b \in Bad : m <= b
    <3>1. Bad \in SUBSET Nat
      BY <1>1
    <3> HIDE DEF Bad
    <3>2. QED
      BY <2>1, <3>1, NatMin
  <2>3. m # 0
    <3>1. Under(0) = {}
      BY <1>3
    <3>2. Cardinality(Under(0)) = 0
      BY <3>1, FS_EmptySet
    <3>3. QED
      BY <3>2
  <2>4. m \in 1..Window /\ m - 1 \in 0..Window /\ m - 1 \in 0..(Window - 1) /\ m \in Nat
    BY <1>1, <2>3
  <2>5. F[m - 1] = Cardinality(Under(m - 1))
    <3>1. m - 1 \notin Bad
      <4>1. ~(m <= m - 1)
        BY <2>4
      <4> HIDE DEF Bad
      <4>2. QED
        BY <2>2, <4>1
    <3>2. QED
      BY <2>4, <3>1
  <2>6. Under(m) = Under(m - 1) \cup At(m - 1) /\ Under(m - 1) \cap At(m - 1) = {}
    BY <1>3, <2>4
  <2>7. Cardinality(Under(m)) = Cardinality(Under(m - 1)) + Cardinality(At(m - 1))
    <3>1. PICK U, V : U = Under(m - 1) /\ V = At(m - 1)
      OBVIOUS
    <3>2. IsFiniteSet(U) /\ IsFiniteSet(V) /\ U \cap V = {}
      BY <1>4, <2>6, <3>1
    <3>3. Cardinality(U \cup V) = Cardinality(U) + Cardinality(V)
      <4>1. Cardinality(U \cup V)
            = Cardinality(U) + Cardinality(V) - Cardinality(U \cap V)
        BY <3>2, FS_Union
      <4>2. Cardinality(U) \in Nat /\ Cardinality(V) \in Nat /\ Cardinality(U \cap V) = 0
        BY <3>2, FS_CardinalityType, FS_EmptySet
      <4>3. QED
        BY <4>1, <4>2
    <3>4. QED
      BY <2>6, <3>1, <3>3
  <2>8. g[m - 1] = Cardinality(At(m - 1))
    BY <2>4 DEF Count
  <2>9. F[m] = Cardinality(Under(m))
    BY <2>4, <2>5, <2>7, <2>8
  <2>10. QED
    BY <2>9
<1>6. QED
  BY <1>1, <1>5

\* What the list comprehension keeps: only entries in the window, and all of those.
LEMMA KeptFacts ==
    ASSUME NEW N \in Nat, NEW s \in [1..N -> 0..Window], NEW K,
           K = CHOOSE f : f = [n \in 0..N |->
                  IF n = 0 THEN <<>>
                  ELSE IF InWindow(s[n]) THEN Append(f[n - 1], s[n]) ELSE f[n - 1]]
    PROVE  /\ K[N] \in Seq(0..(Window - 1))
           /\ \A a \in 0..(Window - 1) : Count(K[N], a) = Count(s, a)
<1> DEFINE Ages == 0..(Window - 1)
           S == Seq(Ages)
           g == [n \in 1..N |-> [q \in S |-> IF s[n] \in Ages THEN Append(q, s[n]) ELSE q]]
<1>1. \A n \in 1..N : InWindow(s[n]) <=> s[n] \in Ages
  BY LimiterAssumption DEF InWindow
<1>2. \A n \in 1..N : \A q \in S :
         /\ (IF s[n] \in Ages THEN Append(q, s[n]) ELSE q) \in S
         /\ g[n][q] = IF s[n] \in Ages THEN Append(q, s[n]) ELSE q
  <2> SUFFICES ASSUME NEW n \in 1..N, NEW q \in S
               PROVE  /\ (IF s[n] \in Ages THEN Append(q, s[n]) ELSE q) \in S
                      /\ g[n][q] = IF s[n] \in Ages THEN Append(q, s[n]) ELSE q
    OBVIOUS
  <2>1. g[n][q] = IF s[n] \in Ages THEN Append(q, s[n]) ELSE q
    <3> HIDE DEF S, Ages
    <3>1. QED
      OBVIOUS
  <2>2. ASSUME NEW v \in Ages PROVE Append(q, v) \in S
    <3> HIDE DEF Ages
    <3>1. QED
      OBVIOUS
  <2> HIDE DEF g, S, Ages
  <2>3. QED
    BY <2>1, <2>2
<1>3. g \in [1..N -> [S -> S]]
  BY <1>2
<1>4. PICK f \in [0..N -> S] : \A n \in 0..N : f[n] = IF n = 0 THEN <<>> ELSE g[n][f[n - 1]]
  <2>1. <<>> \in S
    OBVIOUS
  <2> HIDE DEF g, S
  <2>2. Recurs(N, S, <<>>, g)
    BY <1>3, <2>1, Recursion
  <2>3. QED
    BY <2>2 DEF Recurs
<1>5. \A n \in 1..N : n \in 0..N /\ n # 0 /\ n - 1 \in 0..N /\ f[n - 1] \in S
  OBVIOUS
<1>6. f = [n \in 0..N |->
             IF n = 0 THEN <<>>
             ELSE IF InWindow(s[n]) THEN Append(f[n - 1], s[n]) ELSE f[n - 1]]
  <2>1. \A n \in 0..N : n # 0 => n \in 1..N
    OBVIOUS
  <2> HIDE DEF g, S, Ages
  <2>2. \A n \in 0..N : f[n] =
             IF n = 0 THEN <<>>
             ELSE IF InWindow(s[n]) THEN Append(f[n - 1], s[n]) ELSE f[n - 1]
    BY <1>1, <1>2, <1>4, <1>5, <2>1
  <2>3. QED
    BY <2>2
<1>7. K = [n \in 0..N |->
             IF n = 0 THEN <<>>
             ELSE IF InWindow(s[n]) THEN Append(K[n - 1], s[n]) ELSE K[n - 1]]
  BY <1>6
<1> DEFINE Longer(n) == Append(K[n - 1], s[n])
<1>8. /\ K[0] = <<>>
      /\ \A n \in 1..N : K[n] = IF s[n] \in Ages THEN Longer(n) ELSE K[n - 1]
  <2>1. \A n \in 0..N : K[n] =
             IF n = 0 THEN <<>> ELSE IF InWindow(s[n]) THEN Longer(n) ELSE K[n - 1]
    BY <1>7
  <2>2. 0 \in 0..N
    OBVIOUS
  <2> HIDE DEF S, Ages, Longer
  <2>3. K[0] = <<>>
    BY <2>1, <2>2
  <2>4. \A n \in 1..N : K[n] = IF s[n] \in Ages THEN Longer(n) ELSE K[n - 1]
    <3> SUFFICES ASSUME NEW n \in 1..N
                 PROVE  K[n] = IF s[n] \in Ages THEN Longer(n) ELSE K[n - 1]
      OBVIOUS
    <3>1. n \in 0..N /\ n # 0
      BY <1>5
    <3>2. K[n] = IF InWindow(s[n]) THEN Longer(n) ELSE K[n - 1]
      BY <2>1, <3>1
    <3>3. CASE s[n] \in Ages
      <4>1. InWindow(s[n])
        BY <1>1, <3>3
      <4>2. K[n] = Longer(n)
        BY <3>2, <4>1
      <4>3. QED
        BY <3>3, <4>2
    <3>4. CASE s[n] \notin Ages
      <4>1. ~InWindow(s[n])
        BY <1>1, <3>4
      <4>2. K[n] = K[n - 1]
        BY <3>2, <4>1
      <4>3. QED
        BY <3>4, <4>2
    <3>5. QED
      BY <3>3, <3>4
  <2>5. QED
    BY <2>3, <2>4
<1> DEFINE At(n, a) == {i \in 1..n : s[i] = a}
           Good(n) == K[n] \in S /\ \A a \in Ages : Count(K[n], a) = Cardinality(At(n, a))
           Bad == {n \in 0..N : ~Good(n)}
<1>9. Good(0)
  <2>1. \A a : Cardinality(At(0, a)) = 0
    BY FS_EmptySet
  <2>2. \A a : Count(<<>>, a) = 0
    BY FS_EmptySet DEF Count
  <2>3. <<>> \in S
    OBVIOUS
  <2>4. QED
    BY <1>8, <2>1, <2>2, <2>3
<1>10. ASSUME NEW n \in 1..N, Good(n - 1) PROVE Good(n)
  <2>1. n \in Nat /\ n - 1 \in Nat /\ n \notin 1..(n - 1) /\ 1..n = 1..(n - 1) \cup {n}
    OBVIOUS
  <2>2. \A a : At(n, a) = IF s[n] = a THEN At(n - 1, a) \cup {n} ELSE At(n - 1, a)
    BY <2>1
  <2>3. \A a : IsFiniteSet(At(n - 1, a)) /\ Cardinality(At(n - 1, a)) \in Nat
    <3> SUFFICES ASSUME NEW a
                 PROVE  IsFiniteSet(At(n - 1, a)) /\ Cardinality(At(n - 1, a)) \in Nat
      OBVIOUS
    <3>1. IsFiniteSet(1..(n - 1))
      BY <2>1, FS_Interval
    <3>2. At(n - 1, a) \subseteq 1..(n - 1)
      OBVIOUS
    <3> HIDE DEF At
    <3>3. QED
      BY <3>1, <3>2, FS_Subset, FS_CardinalityType
  <2>4. \A a : n \notin At(n - 1, a)
    BY <2>1
  <2>5. \A a : Cardinality(At(n, a)) =
           IF s[n] = a THEN Cardinality(At(n - 1, a)) + 1 ELSE Cardinality(At(n - 1, a))
    <3> HIDE DEF At
    <3>1. QED
      BY <2>2, <2>3, <2>4, FS_AddElement
  <2>6. K[n - 1] \in S /\ \A a \in Ages : Count(K[n - 1], a) = Cardinality(At(n - 1, a))
    BY <1>10
  <2>7. K[n] = IF s[n] \in Ages THEN Longer(n) ELSE K[n - 1]
    BY <1>8
  <2> HIDE DEF At, Bad
  <2>8. CASE s[n] \in Ages
    <3>1. K[n] = Longer(n)
      BY <2>7, <2>8
    <3>2. PICK q, v : q = K[n - 1] /\ v = s[n] /\ q \in Seq(Ages) /\ v \in Ages
      BY <2>6, <2>8
    <3>3. K[n] \in S
      <4>1. Append(q, v) \in Seq(Ages)
        <5> HIDE DEF Ages
        <5>1. QED
          BY <3>2
      <4>2. QED
        BY <3>1, <3>2, <4>1
    <3>4. \A a : Count(Append(q, v), a) = IF v = a THEN Count(q, a) + 1 ELSE Count(q, a)
      <4>1. q \in Seq(Ages) /\ v \in Ages
        BY <3>2
      <4> HIDE DEF Ages
      <4>2. CountsOne(q, v)
        BY <4>1, CountAppend
      <4>3. QED
        BY <4>2 DEF CountsOne
    <3> HIDE DEF Ages, S
    <3>5. \A a \in Ages : Count(K[n], a) = Cardinality(At(n, a))
      BY <2>5, <2>6, <3>1, <3>2, <3>4
    <3>6. QED
      BY <3>3, <3>5
  <2>9. CASE s[n] \notin Ages
    <3> HIDE DEF Ages, S
    <3>1. QED
      BY <2>5, <2>6, <2>7, <2>9
  <2>10. QED
    BY <2>8, <2>9
<1>11. Bad = {}
  <2> HIDE DEF Good
  <2>1. SUFFICES ASSUME Bad # {} PROVE FALSE
    OBVIOUS
  <2>2. PICK m \in Bad : \A b \in Bad : m <= b
    <3>1. Bad \in SUBSET Nat
      OBVIOUS
    <3> HIDE DEF Bad
    <3>2. QED
      BY <2>1, <3>1, NatMin
  <2>3. m \in 1..N /\ m - 1 \in 0..N /\ ~(m <= m - 1)
    BY <1>9
  <2>4. m - 1 \notin Bad
    <3> HIDE DEF Bad
    <3>1. QED
      BY <2>2, <2>3
  <2>5. QED
    BY <1>10, <2>3, <2>4
<1>12. Good(N)
  <2> HIDE DEF Good
  <2>1. N \in 0..N
    OBVIOUS
  <2>2. QED
    BY <1>11, <2>1
<1>13. \A a : At(N, a) = {i \in DOMAIN s : s[i] = a}
  OBVIOUS
<1>14. QED
  BY <1>12, <1>13 DEF Count

\* The inductive invariant of the limiter: for every age in the window the timestamps
\* record exactly the requests let through at that age.
Recorded == \A a \in 0..(Window - 1) : granted[a] = Count(stamps, a)

LimiterTypes ==
    /\ stamps \in Seq(0..Window)
    /\ granted \in [0..(Window - 1) -> Nat]

LimiterInv == LimiterTypes /\ Recorded /\ WindowBound

\* The requests of the last window are the timestamps in the window.
RecentStamps == Cardinality({i \in DOMAIN stamps : stamps[i] < Window})

\* While the time stamps record what was granted, what was let through in the window is the
\* number of stamps inside it.
LEMMA RecentCounted == LimiterTypes /\ Recorded => Recent = RecentStamps
<1> SUFFICES ASSUME LimiterTypes, Recorded PROVE Recent = RecentStamps
  OBVIOUS
<1>1. PICK s, g : s = stamps /\ g = granted
  OBVIOUS
<1>2. s \in Seq(0..Window) /\ g \in [0..(Window - 1) -> Nat]
  BY <1>1 DEF LimiterTypes
<1>3. Window \in Nat /\ s \in Seq(Nat)
  BY <1>2, LimiterAssumption
<1>4. PICK F : F = GrantedUpTo
  OBVIOUS
<1>5. F = CHOOSE f : f = [a \in 0..Window |-> IF a = 0 THEN 0 ELSE f[a - 1] + g[a - 1]]
  BY <1>1, <1>4 DEF GrantedUpTo
<1>6. /\ F \in [0..Window -> Nat] /\ F[0] = 0
      /\ \A a \in 1..Window : F[a] = F[a - 1] + g[a - 1]
  BY <1>2, <1>5, SumFacts
<1>7. \A a \in 0..(Window - 1) : g[a] = Count(s, a)
  BY <1>1 DEF Recorded
<1>8. F[Window] = Cardinality({i \in DOMAIN s : s[i] < Window})
  BY <1>2, <1>3, <1>6, <1>7, SumsCount
<1>9. QED
  BY <1>1, <1>4, <1>8 DEF Recent, RecentStamps

\* What allow() finds once it has dropped the old timestamps.
KeptStamps == Kept[Len(stamps)]

\* What allow_request keeps has all stamps of the window, each as often as it was granted.
LEMMA KeptCounted ==
    ASSUME LimiterTypes, Recorded
    PROVE  /\ KeptStamps \in Seq(0..(Window - 1))
           /\ \A a \in 0..(Window - 1) : granted[a] = Count(KeptStamps, a)
           /\ Recent = Len(KeptStamps)
<1>1. PICK s, g : s = stamps /\ g = granted
  OBVIOUS
<1>2. s \in Seq(0..Window) /\ g \in [0..(Window - 1) -> Nat]
  BY <1>1 DEF LimiterTypes
<1>3. PICK N \in Nat : N = Len(s) /\ s \in [1..N -> 0..Window]
  BY <1>2, LenProperties
<1>4. PICK K : K = Kept
  OBVIOUS
<1>5. K = CHOOSE f : f = [n \in 0..N |->
             IF n = 0 THEN <<>>
             ELSE IF InWindow(s[n]) THEN Append(f[n - 1], s[n]) ELSE f[n - 1]]
  BY <1>1, <1>3, <1>4 DEF Kept
<1>6. /\ K[N] \in Seq(0..(Window - 1))
      /\ \A a \in 0..(Window - 1) : Count(K[N], a) = Count(s, a)
  BY <1>3, <1>5, KeptFacts
<1>7. K[N] = KeptStamps
  BY <1>1, <1>3, <1>4 DEF KeptStamps
<1>8. \A a \in 0..(Window - 1) : g[a] = Count(K[N], a)
  BY <1>1, <1>6 DEF Recorded
<1>9. PICK F : F = GrantedUpTo
  OBVIOUS
<1>10. F = CHOOSE f : f = [a \in 0..Window |-> IF a = 0 THEN 0 ELSE f[a - 1] + g[a - 1]]
  BY <1>1, <1>9 DEF GrantedUpTo
<1>11. /\ F \in [0..Window -> Nat] /\ F[0] = 0
       /\ \A a \in 1..Window : F[a] = F[a - 1] + g[a - 1]
  BY <1>2, <1>10, SumFacts
<1>12. PICK q : q = K[N]
  OBVIOUS
<1>13. Window \in Nat /\ q \in Seq(Nat) /\ q \in Seq(0..(Window - 1))
  BY <1>6, <1>12, LimiterAssumption
<1>14. F[Window] = Cardinality({i \in DOMAIN q : q[i] < Window})
  BY <1>2, <1>8, <1>11, <1>12, <1>13, SumsCount
<1>15. PICK l \in Nat : l = Len(q) /\ DOMAIN q = 1..l
  BY <1>13
<1>16. {i \in DOMAIN q : q[i] < Window} = 1..l
  BY <1>13, <1>15
<1>17. Cardinality(1..l) = l
  BY FS_Interval
<1>18. QED
  BY <1>1, <1>6, <1>7, <1>8, <1>9, <1>12, <1>14, <1>15, <1>16, <1>17 DEF Recent

\* Before the first request nothing is recorded.
LEMMA InitialLimiter == Init => LimiterInv
<1> SUFFICES ASSUME Init PROVE LimiterInv
  OBVIOUS
<1>1. LimiterTypes
  BY LimiterAssumption DEF Init, LimiterTypes
<1>2. stamps = <<>> /\ \A a \in 0..(Window - 1) : granted[a] = 0
  BY DEF Init
<1>3. \A a : Count(<<>>, a) = 0
  BY FS_EmptySet DEF Count
<1>4. Recorded
  BY <1>2, <1>3 DEF Recorded
<1>5. Recent = Cardinality({i \in DOMAIN stamps : stamps[i] < Window})
  BY <1>1, <1>4, RecentCounted DEF RecentStamps
<1>6. {i \in DOMAIN stamps : stamps[i] < Window} = {}
  BY <1>2
<1>7. WindowBound
  BY <1>5, <1>6, FS_EmptySet, LimiterAssumption DEF WindowBound
<1>8. QED
  BY <1>1, <1>4, <1>7 DEF LimiterInv

\* As time passes every age grows by one, in the timestamps and in the record; none
\* comes into the window.
LEMMA TickLimiter ==
    ASSUME LimiterInv, Tick
    PROVE  LimiterInv'
<1> USE LimiterAssumption
<1>1. LimiterTypes /\ Recorded /\ WindowBound
  BY DEF LimiterInv
<1>2. PICK n \in Nat : n = Len(stamps) /\ stamps \in [1..n -> 0..Window] /\ DOMAIN stamps = 1..n
  BY <1>1, LenProperties DEF LimiterTypes
<1>3. stamps' = [i \in 1..n |-> Least(stamps[i] + 1, Window)]
  BY <1>2 DEF Tick
<1>4. \A i \in 1..n : stamps[i] \in 0..Window /\ Least(stamps[i] + 1, Window) \in 0..Window
  BY <1>2 DEF Least
<1>5. stamps' \in Seq(0..Window) /\ DOMAIN stamps' = 1..n
  BY <1>3, <1>4
<1>6. granted' \in [0..(Window - 1) -> Nat]
  BY <1>1 DEF LimiterTypes, Tick
<1>7. LimiterTypes'
  BY <1>5, <1>6 DEF LimiterTypes
<1>8. \A i \in 1..n : stamps'[i] = Least(stamps[i] + 1, Window)
  BY <1>3
<1>9. ASSUME NEW a \in 0..(Window - 1) PROVE granted'[a] = Count(stamps', a)
  <2>1. granted'[a] = IF a = 0 THEN 0 ELSE granted[a - 1]
    BY DEF Tick
  <2>2. CASE a = 0
    <3>1. {i \in DOMAIN stamps' : stamps'[i] = a} = {}
      BY <1>4, <1>5, <1>8, <2>2 DEF Least
    <3>2. QED
      BY <2>1, <2>2, <3>1, FS_EmptySet DEF Count
  <2>3. CASE a # 0
    <3>1. a - 1 \in 0..(Window - 1)
      BY <2>3
    <3>2. {i \in DOMAIN stamps' : stamps'[i] = a} = {i \in DOMAIN stamps : stamps[i] = a - 1}
      BY <1>2, <1>4, <1>5, <1>8, <2>3 DEF Least
    <3>3. granted[a - 1] = Count(stamps, a - 1)
      BY <1>1, <3>1 DEF Recorded
    <3>4. QED
      BY <2>1, <2>3, <3>2, <3>3 DEF Count
  <2>4. QED
    BY <2>2, <2>3
<1>10. Recorded'
  BY <1>9 DEF Recorded
<1>11. WindowBound'
  <2>1. Recent = RecentStamps
    BY <1>1, RecentCounted
  <2>2. (LimiterTypes /\ Recorded => Recent = RecentStamps)'
    BY RecentCounted, PTL
  <2>3. Recent' = RecentStamps'
    BY <1>7, <1>10, <2>2
  <2>4. PICK U, V : /\ U = {i \in DOMAIN stamps' : stamps'[i] < Window}
                    /\ V = {i \in DOMAIN stamps : stamps[i] < Window}
    OBVIOUS
  <2>5. U \subseteq V /\ V \subseteq 1..n
    BY <1>2, <1>4, <1>5, <1>8, <2>4 DEF Least
  <2>6. IsFiniteSet(1..n)
    BY FS_Interval
  <2>7. /\ Cardinality(U) \in Nat /\ Cardinality(V) \in Nat
        /\ Cardinality(U) <= Cardinality(V)
    BY <2>5, <2>6, FS_Subset, FS_CardinalityType
  <2>8. Recent' = Cardinality(U) /\ Recent = Cardinality(V)
    BY <2>1, <2>3, <2>4 DEF RecentStamps
  <2>9. QED
    BY <1>1, <2>7, <2>8 DEF WindowBound
<1>12. QED
  BY <1>7, <1>10, <1>11 DEF LimiterInv

\* allow() lets a request through only into a window that is not full, and records it.
LEMMA LimitStep ==
    ASSUME LimiterInv, NEW c \in Callers, Limit(c)
    PROVE  LimiterInv'
<1> USE LimiterAssumption
<1>1. LimiterTypes /\ Recorded /\ WindowBound
  BY DEF LimiterInv
<1>2. /\ KeptStamps \in Seq(0..(Window - 1))
      /\ \A a \in 0..(Window - 1) : granted[a] = Count(KeptStamps, a)
      /\ Recent = Len(KeptStamps)
  BY <1>1, KeptCounted
<1>3. PICK q : q = KeptStamps
  OBVIOUS
<1>4. PICK l \in Nat : l = Len(q)
  BY <1>2, <1>3
<1>5. q \in Seq(0..Window) /\ Append(q, 0) \in Seq(0..Window)
  <2>1. \A i \in 1..l : q[i] \in 0..(Window - 1)
    BY <1>2, <1>3, <1>4
  <2>2. q \in Seq(0..Window)
    BY <1>2, <1>3, <2>1
  <2>3. QED
    BY <2>2
<1>6. CASE l < MaxRequests
  <2>1. stamps' = Append(q, 0) /\ granted' = [granted EXCEPT ![0] = @ + 1]
    BY <1>3, <1>4, <1>6 DEF Limit, KeptStamps
  <2>2. LimiterTypes'
    BY <1>1, <1>5, <2>1 DEF LimiterTypes
  <2>3. \A a : Count(Append(q, 0), a) = IF 0 = a THEN Count(q, a) + 1 ELSE Count(q, a)
    <3>1. CountsOne(q, 0)
      <4>1. 0 \in 0..Window
        OBVIOUS
      <4>2. QED
        BY <1>5, <4>1, CountAppend
    <3>2. QED
      BY <3>1 DEF CountsOne
  <2>4. \A a \in 0..(Window - 1) : granted[a] = Count(q, a)
    BY <1>2, <1>3
  <2>5. \A a \in 0..(Window - 1) : granted'[a] = IF 0 = a THEN granted[a] + 1 ELSE granted[a]
    BY <1>1, <2>1 DEF LimiterTypes
  <2>6. PICK q1 : q1 = Append(q, 0)
    OBVIOUS
  <2>7. \A a \in 0..(Window - 1) : granted'[a] = Count(q1, a)
    BY <2>3, <2>4, <2>5, <2>6
  <2>8. Recorded'
    BY <2>1, <2>6, <2>7 DEF Recorded
  <2>9. (LimiterTypes /\ Recorded => Recent = RecentStamps)'
    BY RecentCounted, PTL
  <2>10. Recent' = RecentStamps'
    BY <2>2, <2>8, <2>9
  <2>11. Recent' = Cardinality({i \in DOMAIN q1 : q1[i] < Window})
    BY <2>1, <2>6, <2>10 DEF RecentStamps
  <2>12. {i \in DOMAIN q1 : q1[i] < Window} = 1..(l + 1)
    <3>1. DOMAIN q1 = 1..(l + 1) /\ \A i \in 1..(l + 1) : q1[i] < Window
      BY <1>2, <1>3, <1>4, <2>6
    <3>2. QED
      BY <3>1
  <2>13. Cardinality(1..(l + 1)) = l + 1
    <3>1. 1 \in Int /\ l + 1 \in Int
      OBVIOUS
    <3>2. Cardinality(1..(l + 1)) = IF 1 > l + 1 THEN 0 ELSE l + 1 - 1 + 1
      BY <3>1, FS_Interval
    <3>3. QED
      BY <3>2
  <2>14. WindowBound'
    <3>1. Recent' = l + 1
      BY <2>11, <2>12, <2>13
    <3>2. l + 1 <= MaxRequests
      BY <1>6
    <3>3. QED
      BY <3>1, <3>2 DEF WindowBound
  <2>15. QED
    BY <2>2, <2>8, <2>14 DEF LimiterInv
<1>7. CASE ~(l < MaxRequests)
  <2>1. stamps' = q /\ granted' = granted
    BY <1>3, <1>4, <1>7 DEF Limit, KeptStamps
  <2>2. LimiterTypes'
    BY <1>1, <1>5, <2>1 DEF LimiterTypes
  <2>3. Recorded'
    BY <1>2, <1>3, <2>1 DEF Recorded
  <2>4. Recent' = Recent
    BY <2>1 DEF Recent, GrantedUpTo
  <2>5. QED
    BY <1>1, <2>2, <2>3, <2>4 DEF LimiterInv, WindowBound
<1>8. QED
  BY <1>6, <1>7

\* No other step touches the limiter.
LEMMA LimiterKept ==
    ASSUME LimiterInv, UNCHANGED limiter
    PROVE  LimiterInv'
BY DEF LimiterInv, LimiterTypes, Recorded, WindowBound, Recent, GrantedUpTo, limiter

\* Every step keeps the invariant of the limiter.
LEMMA LimiterNext ==
    ASSUME LimiterInv, [Next]_vars
    PROVE  LimiterInv'
<1>1. CASE Tick
  BY <1>1, TickLimiter
<1>2. ASSUME NEW c \in Callers, Limit(c) PROVE LimiterInv'
  BY <1>2, LimitStep
<1>3. ASSUME NEW c \in Callers,
             \/ Begin(c) \/ Admit(c) \/ Unregistered(c) \/ Succeed(c)
             \/ Refuse(c) \/ Raise(c) \/ GiveUp(c)
      PROVE  UNCHANGED limiter
  BY <1>3 DEF Begin, Admit, Unregistered, Succeed, Refuse, Raise, GiveUp, limiter
<1>4. CASE UNCHANGED vars
  <2>1. UNCHANGED limiter
    BY <1>4 DEF vars, limiter
  <2>2. QED
    BY <2>1, LimiterKept
<1>5. QED
  BY <1>1, <1>2, <1>3, <1>4, LimiterKept DEF Next, Proceed

\* The invariant of the limiter holds in every reachable state.
LEMMA LimiterInvariance == Spec => []LimiterInv
BY InitialLimiter, LimiterNext, PTL DEF Spec

\* RateLimiter.allow lets at most max_requests through in any window of window_seconds,
\* whatever the callers interleave and however often it drops old timestamps.
THEOREM WindowBoundHolds == Spec => []WindowBound
<1>1. LimiterInv => WindowBound
  BY DEF LimiterInv
<1>2. QED
  BY <1>1, LimiterInvariance, PTL

\* Only allow() sends a caller that asks it away.
LEMMA OnlyLimit ==
    ASSUME PcType, Next, NEW c \in Callers, pc[c] = "limit", pc'[c] = "idle"
    PROVE  Limit(c)
<1>1. PICK d \in Callers : Begin(d) \/ Proceed(d)
  BY DEF Next, Tick
<1>2. CASE d = c
  BY <1>1, <1>2 DEF PcType, Labels, Begin, Proceed, Admit, Unregistered, Succeed, Refuse,
                    Raise, GiveUp
<1>3. ASSUME d # c PROVE pc'[c] = pc[c]
  BY <1>1, <1>3 DEF PcType, Begin, Proceed, Limit, Admit, Unregistered, Succeed, Refuse,
                    Raise, GiveUp, Leave, NextAttempt, Goto
<1>4. QED
  BY <1>2, <1>3

\* RateLimiter.allow refuses a request only when max_requests were let through in the
\* window that ends now: a refusal, and a request older than the window, take no room.
THEOREM RefusalJustifiedHolds == Spec => RefusalJustified
<1>1. LimiterInv /\ PcType /\ [Next]_vars
        => [\A c \in Callers : pc[c] = "limit" /\ pc'[c] = "idle" => Recent = MaxRequests]_vars
  <2> SUFFICES ASSUME LimiterInv, PcType, Next, NEW c \in Callers, pc[c] = "limit", pc'[c] = "idle"
               PROVE  Recent = MaxRequests
    BY DEF vars
  <2>1. Limit(c)
    BY OnlyLimit
  <2>2. Recent = Len(KeptStamps) /\ KeptStamps \in Seq(0..(Window - 1))
    BY KeptCounted DEF LimiterInv
  <2>3. PICK l \in Nat : l = Len(KeptStamps)
    BY <2>2
  <2>4. ~(l < MaxRequests)
    BY <2>1, <2>3 DEF Limit, Goto, KeptStamps, PcType
  <2>5. l <= MaxRequests
    BY <2>2, <2>3 DEF LimiterInv, WindowBound
  <2>6. QED
    BY <2>2, <2>3, <2>4, <2>5, LimiterAssumption
<1>2. Init => PcType
  BY DEF Init, PcType, Labels
<1>3. QED
  BY <1>1, <1>2, PcStep, LimiterInvariance, PTL DEF Spec, RefusalJustified

-----------------------------------------------------------------------------
(* Sequences: laid end to end, appended to, filtered, cut. *)

\* A sequence of sequences laid end to end has the entries of each.
LEMMA FlattenFacts ==
    ASSUME NEW S, NEW s \in Seq(Seq(S))
    PROVE  /\ FlattenSeq(s) \in Seq(S)
           /\ ToSet(FlattenSeq(s)) = UNION {ToSet(s[i]) : i \in DOMAIN s}
<1>1. PICK N \in Nat : N = Len(s) /\ s \in [1..N -> Seq(S)] /\ DOMAIN s = 1..N
  BY LenProperties
<1>2. CASE N = 0
  <2>1. s = <<>> /\ FlattenSeq(s) = s
    BY <1>1, <1>2 DEF FlattenSeq
  <2>2. DOMAIN s = {} /\ s \in Seq(S)
    BY <1>1, <1>2, <2>1
  <2>3. ToSet(s) = {} /\ UNION {ToSet(s[i]) : i \in DOMAIN s} = {}
    BY <2>2 DEF ToSet
  <2>4. QED
    BY <2>1, <2>2, <2>3
<1>3. CASE N # 0
  <2> DEFINE g == [n \in 1..N |-> [q \in Seq(S) |-> IF n = 1 THEN s[n] ELSE q \o s[n]]]
  <2>1. ASSUME NEW n \in 1..N, NEW q \in Seq(S)
        PROVE  /\ (IF n = 1 THEN s[n] ELSE q \o s[n]) \in Seq(S)
               /\ g[n][q] = IF n = 1 THEN s[n] ELSE q \o s[n]
    <3>1. s[n] \in Seq(S)
      BY <1>1
    <3>2. g[n][q] = IF n = 1 THEN s[n] ELSE q \o s[n]
      OBVIOUS
    <3>3. q \o s[n] \in Seq(S)
      BY <3>1
    <3> HIDE DEF g
    <3>4. QED
      BY <3>1, <3>2, <3>3
  <2>2. g \in [1..N -> [Seq(S) -> Seq(S)]]
    BY <2>1
  <2>3. PICK f \in [0..N -> Seq(S)] :
           \A n \in 0..N : f[n] = IF n = 0 THEN <<>> ELSE g[n][f[n - 1]]
    <3>1. <<>> \in Seq(S)
      OBVIOUS
    <3> HIDE DEF g
    <3>2. Recurs(N, Seq(S), <<>>, g)
      BY <2>2, <3>1, Recursion
    <3>3. QED
      BY <3>2 DEF Recurs
  <2>4. \A n \in 1..N : n \in 0..N /\ n # 0 /\ n - 1 \in 0..N /\ f[n - 1] \in Seq(S)
                        /\ (n # 1 => n - 1 \in 1..N)
    OBVIOUS
  <2> DEFINE e == [n \in 1..N |-> f[n]]
  <2>5. e = [n \in 1..N |-> IF n = 1 THEN s[n] ELSE e[n - 1] \o s[n]]
    <3> HIDE DEF g
    <3>1. \A n \in 1..N : f[n] = IF n = 1 THEN s[n] ELSE f[n - 1] \o s[n]
      BY <2>1, <2>3, <2>4
    <3>2. \A n \in 1..N : e[n] = IF n = 1 THEN s[n] ELSE e[n - 1] \o s[n]
      BY <2>4, <3>1
    <3>3. QED
      BY <3>2
  <2>6. PICK K : K = CHOOSE h : h = [n \in 1..N |-> IF n = 1 THEN s[n] ELSE h[n - 1] \o s[n]]
    OBVIOUS
  <2>7. K[N] = FlattenSeq(s)
    BY <1>1, <1>3, <2>6 DEF FlattenSeq
  <2>8. K = [n \in 1..N |-> IF n = 1 THEN s[n] ELSE K[n - 1] \o s[n]]
    <3> HIDE DEF e
    <3>1. QED
      BY <2>5, <2>6
  <2> DEFINE Joined(n) == K[n - 1] \o s[n]
  <2>9. /\ K[1] = s[1]
        /\ \A n \in 1..N : n # 1 => K[n] = Joined(n)
    <3>1. \A n \in 1..N : K[n] = IF n = 1 THEN s[n] ELSE Joined(n)
      BY <2>8
    <3>2. 1 \in 1..N
      BY <1>3
    <3> HIDE DEF Joined
    <3>3. QED
      BY <3>1, <3>2
  <2> DEFINE First(n) == UNION {ToSet(s[i]) : i \in 1..n}
             Good(n) == K[n] \in Seq(S) /\ ToSet(K[n]) = First(n)
             Bad == {n \in 1..N : ~Good(n)}
  <2>10. Good(1)
    <3>1. First(1) = ToSet(s[1])
      <4>1. 1..1 = {1}
        OBVIOUS
      <4>2. QED
        BY <4>1
    <3>2. s[1] \in Seq(S)
      BY <1>1, <1>3
    <3>3. QED
      BY <2>9, <3>1, <3>2
  <2>11. ASSUME NEW n \in 1..N, n # 1, Good(n - 1) PROVE Good(n)
    <3>1. PICK q, v : q = K[n - 1] /\ v = s[n] /\ q \in Seq(S) /\ v \in Seq(S)
      BY <1>1, <2>11
    <3>2. K[n] = q \o v
      BY <2>9, <2>11, <3>1
    <3>3. q \o v \in Seq(S) /\ ToSet(q \o v) = ToSet(q) \cup ToSet(v)
      <4> HIDE DEF g, e, Joined, First, Good, Bad
      <4>1. q \o v \in Seq(S)
        BY <3>1
      <4>2. Range(q \o v) = Range(q) \cup Range(v)
        BY <3>1, RangeConcatenation
      <4>3. QED
        BY <4>1, <4>2 DEF Range, ToSet
    <3>4. First(n) = First(n - 1) \cup ToSet(s[n])
      <4>1. 1..n = 1..(n - 1) \cup {n}
        BY <2>11
      <4> HIDE DEF Joined
      <4>2. QED
        BY <4>1
    <3>5. QED
      BY <2>11, <3>1, <3>2, <3>3, <3>4
  <2>12. Bad = {}
    <3>1. SUFFICES ASSUME Bad # {} PROVE FALSE
      OBVIOUS
    <3>2. PICK m \in Bad : \A n \in Bad : m <= n
      <4>1. Bad \in SUBSET Nat
        OBVIOUS
      <4> HIDE DEF Bad
      <4>2. QED
        BY <3>1, <4>1, NatMin
    <3>3. m \in 1..N /\ ~Good(m)
      BY <3>2
    <3> HIDE DEF Good
    <3>4. m # 1
      BY <2>10, <3>3
    <3>5. m - 1 \in 1..N /\ ~(m <= m - 1)
      BY <3>3, <3>4
    <3>6. Good(m - 1)
      <4>1. m - 1 \notin Bad
        <5> HIDE DEF Bad
        <5>1. QED
          BY <3>2, <3>5
      <4>2. QED
        BY <3>5, <4>1
    <3>7. QED
      BY <2>11, <3>3, <3>4, <3>6
  <2>13. Good(N)
    <3>1. N \in 1..N
      BY <1>3
    <3> HIDE DEF Good
    <3>2. QED
      BY <2>12, <3>1
  <2>14. QED
    BY <1>1, <2>7, <2>13
<1>4. QED
  BY <1>2, <1>3

\* Appending adds one entry, which may keep the entries distinct.
LEMMA AppendFacts ==
    ASSUME NEW S, NEW q \in Seq(S), NEW v \in S
    PROVE  /\ Append(q, v) \in Seq(S)
           /\ ToSet(Append(q, v)) = ToSet(q) \cup {v}
           /\ IsInjective(q) /\ v \notin ToSet(q) => IsInjective(Append(q, v))
<1>1. PICK l \in Nat : l = Len(q) /\ DOMAIN q = 1..l
  OBVIOUS
<1>2. /\ DOMAIN Append(q, v) = 1..(l + 1)
      /\ Append(q, v)[l + 1] = v
      /\ \A j \in 1..l : Append(q, v)[j] = q[j]
  BY <1>1
<1>3. 1..(l + 1) = 1..l \cup {l + 1} /\ l + 1 \notin 1..l
  OBVIOUS
<1>4. ToSet(Append(q, v)) = ToSet(q) \cup {v}
  BY <1>1, <1>2, <1>3 DEF ToSet
<1>5. Append(q, v) \in Seq(S)
  OBVIOUS
<1>6. ASSUME IsInjective(q), v \notin ToSet(q) PROVE IsInjective(Append(q, v))
  BY <1>1, <1>2, <1>3, <1>6 DEF IsInjective, ToSet
<1>7. QED
  BY <1>4, <1>5, <1>6

\* A filter keeps what is in the set, and distinct entries distinct.
LEMMA ThoseFacts ==
    ASSUME NEW S, NEW s \in Seq(S), NEW P
    PROVE  /\ Those(s, P) \in Seq(S)
           /\ ToSet(Those(s, P)) = ToSet(s) \cap P
           /\ IsInjective(s) => IsInjective(Those(s, P))
<1>1. PICK N \in Nat : N = Len(s) /\ s \in [1..N -> S] /\ DOMAIN s = 1..N
  BY LenProperties
<1> DEFINE g == [n \in 1..N |-> [q \in Seq(S) |-> IF s[n] \in P THEN Append(q, s[n]) ELSE q]]
<1>2. ASSUME NEW n \in 1..N, NEW q \in Seq(S)
      PROVE  /\ (IF s[n] \in P THEN Append(q, s[n]) ELSE q) \in Seq(S)
             /\ g[n][q] = IF s[n] \in P THEN Append(q, s[n]) ELSE q
  <2>1. s[n] \in S
    BY <1>1
  <2>2. g[n][q] = IF s[n] \in P THEN Append(q, s[n]) ELSE q
    OBVIOUS
  <2>3. Append(q, s[n]) \in Seq(S)
    BY <2>1
  <2> HIDE DEF g
  <2>4. QED
    BY <2>2, <2>3
<1>3. g \in [1..N -> [Seq(S) -> Seq(S)]]
  BY <1>2
<1>4. PICK f \in [0..N -> Seq(S)] :
         \A n \in 0..N : f[n] = IF n = 0 THEN <<>> ELSE g[n][f[n - 1]]
  <2>1. <<>> \in Seq(S)
    OBVIOUS
  <2> HIDE DEF g
  <2>2. Recurs(N, Seq(S), <<>>, g)
    BY <1>3, <2>1, Recursion
  <2>3. QED
    BY <2>2 DEF Recurs
<1>5. \A n \in 1..N : n \in 0..N /\ n # 0 /\ n - 1 \in 0..N /\ f[n - 1] \in Seq(S)
  OBVIOUS
<1>6. f = [n \in 0..N |->
             IF n = 0 THEN <<>>
             ELSE IF s[n] \in P THEN Append(f[n - 1], s[n]) ELSE f[n - 1]]
  <2>1. \A n \in 0..N : n # 0 => n \in 1..N
    OBVIOUS
  <2> HIDE DEF g
  <2>2. \A n \in 0..N : f[n] =
             IF n = 0 THEN <<>>
             ELSE IF s[n] \in P THEN Append(f[n - 1], s[n]) ELSE f[n - 1]
    BY <1>2, <1>4, <1>5, <2>1
  <2>3. QED
    BY <2>2
<1>7. PICK K : K = CHOOSE h : h = [n \in 0..N |->
             IF n = 0 THEN <<>>
             ELSE IF s[n] \in P THEN Append(h[n - 1], s[n]) ELSE h[n - 1]]
  OBVIOUS
<1>8. K[N] = Those(s, P)
  BY <1>1, <1>7 DEF Those
<1>9. K = [n \in 0..N |->
             IF n = 0 THEN <<>>
             ELSE IF s[n] \in P THEN Append(K[n - 1], s[n]) ELSE K[n - 1]]
  BY <1>6, <1>7
<1> DEFINE Longer(n) == Append(K[n - 1], s[n])
<1>10. /\ K[0] = <<>>
       /\ \A n \in 1..N : K[n] = IF s[n] \in P THEN Longer(n) ELSE K[n - 1]
  <2>1. \A n \in 0..N : K[n] =
             IF n = 0 THEN <<>> ELSE IF s[n] \in P THEN Longer(n) ELSE K[n - 1]
    BY <1>9
  <2>2. 0 \in 0..N
    OBVIOUS
  <2> HIDE DEF Longer
  <2>3. QED
    BY <1>5, <2>1, <2>2
<1> DEFINE First(n) == {s[j] : j \in 1..n} \cap P
           Good(n) == /\ K[n] \in Seq(S) /\ ToSet(K[n]) = First(n)
                      /\ IsInjective(s) => IsInjective(K[n])
           Bad == {n \in 0..N : ~Good(n)}
<1>11. Good(0)
  BY <1>10 DEF ToSet, IsInjective
<1>12. ASSUME NEW n \in 1..N, Good(n - 1) PROVE Good(n)
  <2>1. n \in Nat /\ n - 1 \in Nat /\ 1..n = 1..(n - 1) \cup {n} /\ n \notin 1..(n - 1)
    OBVIOUS
  <2>2. First(n) = IF s[n] \in P THEN First(n - 1) \cup {s[n]} ELSE First(n - 1)
    BY <2>1
  <2>3. PICK q, v : q = K[n - 1] /\ v = s[n] /\ q \in Seq(S) /\ v \in S
    BY <1>1, <1>12
  <2>4. /\ Append(q, v) \in Seq(S) /\ ToSet(Append(q, v)) = ToSet(q) \cup {v}
        /\ IsInjective(q) /\ v \notin ToSet(q) => IsInjective(Append(q, v))
    BY <2>3, AppendFacts
  <2>5. K[n] = IF v \in P THEN Append(q, v) ELSE q
    BY <1>10, <2>3
  <2>6. ToSet(q) = First(n - 1) /\ (IsInjective(s) => IsInjective(q))
    BY <1>12, <2>3
  <2>7. IsInjective(s) => v \notin First(n - 1)
    <3>1. \A j \in 1..(n - 1) : j \in 1..N /\ j # n
      OBVIOUS
    <3>2. QED
      BY <1>1, <2>3, <3>1 DEF IsInjective
  <2> HIDE DEF First
  <2>8. CASE v \in P
    BY <2>2, <2>3, <2>4, <2>5, <2>6, <2>7, <2>8
  <2>9. CASE v \notin P
    BY <2>2, <2>3, <2>5, <2>6, <2>9
  <2>10. QED
    BY <2>8, <2>9
<1>13. Bad = {}
  <2> HIDE DEF Good
  <2>1. SUFFICES ASSUME Bad # {} PROVE FALSE
    OBVIOUS
  <2>2. PICK m \in Bad : \A b \in Bad : m <= b
    <3>1. Bad \in SUBSET Nat
      OBVIOUS
    <3> HIDE DEF Bad
    <3>2. QED
      BY <2>1, <3>1, NatMin
  <2>3. m \in 0..N /\ ~Good(m)
    BY <2>2
  <2>4. m # 0
    BY <1>11, <2>3
  <2>5. m \in 1..N /\ m - 1 \in 0..N /\ ~(m <= m - 1)
    BY <2>3, <2>4
  <2>6. Good(m - 1)
    <3>1. m - 1 \notin Bad
      <4> HIDE DEF Bad
      <4>1. QED
        BY <2>2, <2>5
    <3>2. QED
      BY <2>5, <3>1
  <2>7. QED
    BY <1>12, <2>3, <2>5, <2>6
<1>14. Good(N) /\ First(N) = ToSet(s) \cap P
  <2>1. N \in 0..N
    OBVIOUS
  <2>2. First(N) = ToSet(s) \cap P
    BY <1>1 DEF ToSet
  <2> HIDE DEF Good, First
  <2>3. QED
    BY <1>13, <2>1, <2>2
<1>15. QED
  BY <1>8, <1>14

\* The first n entries.
LEMMA UpToFacts ==
    ASSUME NEW S, NEW s \in Seq(S), NEW n \in Nat
    PROVE  /\ UpTo(s, n) \in Seq(S)
           /\ Len(UpTo(s, n)) <= n
           /\ Len(UpTo(s, n)) = IF Len(s) < n THEN Len(s) ELSE n
           /\ \A i \in 1..Len(UpTo(s, n)) : i \in 1..Len(s) /\ UpTo(s, n)[i] = s[i]
           /\ ToSet(UpTo(s, n)) \subseteq ToSet(s)
           /\ IsInjective(s) => IsInjective(UpTo(s, n))
<1>1. PICK l \in Nat : l = Len(s) /\ DOMAIN s = 1..l
  OBVIOUS
<1>2. PICK k \in Nat : k = (IF l < n THEN l ELSE n) /\ k <= l /\ k <= n
  BY <1>1
<1>3. UpTo(s, n) = SubSeq(s, 1, k)
  BY <1>1, <1>2 DEF UpTo
<1>4. PICK u : /\ u = UpTo(s, n) /\ u \in Seq(S) /\ Len(u) = k /\ DOMAIN u = 1..k
               /\ \A i \in 1..k : u[i] = s[i]
  BY <1>1, <1>2, <1>3
<1>5. \A i \in 1..k : i \in 1..l
  BY <1>2
<1>6. ToSet(u) \subseteq ToSet(s)
  BY <1>1, <1>4, <1>5 DEF ToSet
<1>7. IsInjective(s) => IsInjective(u)
  BY <1>1, <1>4, <1>5 DEF IsInjective
<1>8. QED
  BY <1>1, <1>2, <1>4, <1>5, <1>6, <1>7

-----------------------------------------------------------------------------
(* Retrieval. *)

\* The types of what a search reads and finds.
SearchTypes ==
    /\ rows \in Seq(Texts) /\ chunks \in Seq(Items)
    /\ deleted \subseteq Texts /\ deleting \subseteq deleted
    /\ at \in {"idle", "filter", "vector", "rule", "assemble", "done"}
    /\ path \in {"none", "deep", "rag", "chat"} \cup DOMAIN Unsearched
    /\ at # "idle" => path # "none"
    /\ vector \in Seq(Items) /\ rule \in Seq(Items)

\* What was deleted before the search and not loaded since has a deleted row or none, and the
\* filter left it out.
Filtered ==
    /\ \A t \in ToSet(rows) : DocOf[t] \in gone => t \in deleted
    /\ candidates \cap gone = {}
    /\ at \in {"idle", "filter"} => candidates = {}

\* The routes keep to the candidates and to the domain.
Routed ==
    /\ at \in {"idle", "filter", "vector"} => vector = <<>>
    /\ Len(vector) <= 15
    /\ candidates # {} => \A x \in ToSet(vector) : DocOf[x[1]] \in candidates
    /\ at \in {"idle", "filter", "vector", "rule"} => rule = <<>>
    /\ Len(rule) <= 15 /\ OwnDocuments(TextsOf(rule)) /\ \A x \in ToSet(rule) : OfDomain(x)

\* The results are the first of a ranking, or the vector route as it came.
KeptOf(top) == [n \in DOMAIN top |-> KeptItem(top[n])[1]]
Ranked ==
    at = "done" =>
        /\ path = "deep" => \E s \in Rankings : results = KeptOf(UpTo(s, TopK))
        /\ path \in {"rag", "chat"} => results = TextsOf(vector)

SearchInv == SearchTypes /\ OwnDocuments(rows) /\ Filtered /\ Routed /\ Ranked

\* Search's bounds are at most three times five.
LEMMA RecallFacts == Recall \in 0..15 /\ 3 * Recall \in Nat
BY TopKAssumption DEF Recall

\* A set of all sequences of a finite set's members: each has every member once.
LEMMA OrdersFacts ==
    ASSUME NEW S, IsFiniteSet(S), NEW s \in SetToSeqs(S)
    PROVE  /\ s \in Seq(S)
           /\ \A d \in S : \E i \in DOMAIN s : s[i] = d
<1>1. PICK C \in Nat : C = Cardinality(S)
  BY FS_CardinalityType
<1>2. s \in [1..C -> S] /\ \A i, j \in 1..C : i # j => s[i] # s[j]
  BY <1>1 DEF SetToSeqs
<1>3. IsInjective(s) /\ s \in Injection(1..C, S)
  BY <1>2 DEF IsInjective, Injection
<1>4. IsFiniteSet(1..C) /\ Cardinality(1..C) = C
  BY FS_Interval
<1>5. s \in Surjection(1..C, S)
  BY <1>1, <1>3, <1>4, FS_Injection
<1>6. s \in Seq(S)
  BY <1>2
<1>7. QED
  BY <1>2, <1>5, <1>6 DEF Surjection

\* What a sequence holds is finite.
LEMMA HeldFinite ==
    ASSUME NEW S, NEW s \in Seq(S)
    PROVE  IsFiniteSet(ToSet(s))
<1>1. PICK N \in Nat : N = Len(s) /\ s \in [1..N -> S] /\ DOMAIN s = 1..N
  BY LenProperties
<1>2. s \in Surjection(1..N, ToSet(s))
  BY <1>1 DEF Surjection, ToSet
<1>3. IsFiniteSet(1..N)
  BY FS_Interval
<1>4. QED
  BY <1>2, <1>3, FS_Surjection

-----------------------------------------------------------------------------

\* A text's chunks are its own.
LEMMA ChunksFacts == \A t \in Texts : ChunksOf(t) \in Seq(Items)
<1> SUFFICES ASSUME NEW t \in Texts PROVE ChunksOf(t) \in Seq(Items)
  OBVIOUS
<1>1. PICK n \in Nat : n = Parts[t]
  BY TextAssumption
<1>2. \A i \in 1..n : <<t, i>> \in Items
  BY <1>1 DEF Items
<1>3. ChunksOf(t) = [i \in 1..n |-> <<t, i>>]
  BY <1>1 DEF ChunksOf
<1>4. ChunksOf(t) \in [1..n -> Items]
  BY <1>2, <1>3
<1>5. QED
  BY <1>4

\* A saved row is in the table, beside the rows of other documents.
LEMMA SavedFacts ==
    ASSUME rows \in Seq(Texts), OwnDocuments(rows), NEW t \in Texts
    PROVE  /\ Saved(t) \in Seq(Texts)
           /\ OwnDocuments(Saved(t))
           /\ \A u \in ToSet(Saved(t)) : u = t \/ (u \in ToSet(rows) /\ DocOf[u] # DocOf[t])
<1>1. PICK N \in Nat : N = Len(rows) /\ rows \in [1..N -> Texts] /\ DOMAIN rows = 1..N
  BY LenProperties
<1>2. CASE \E n \in DOMAIN rows : DocOf[rows[n]] = DocOf[t]
  <2>1. PICK q : q = Saved(t)
    OBVIOUS
  <2>2. q = [n \in 1..N |-> IF DocOf[rows[n]] = DocOf[t] THEN t ELSE rows[n]]
    BY <1>1, <1>2, <2>1 DEF Saved
  <2>3. q \in [1..N -> Texts] /\ DOMAIN q = 1..N
    BY <1>1, <2>2
  <2>4. \A n \in 1..N : /\ DocOf[q[n]] = DocOf[rows[n]]
                        /\ q[n] = t \/ (q[n] = rows[n] /\ DocOf[q[n]] # DocOf[t])
    BY <2>2
  <2>5. OwnDocuments(q)
    BY <1>1, <2>3, <2>4 DEF OwnDocuments
  <2>6. \A u \in ToSet(q) : u = t \/ (u \in ToSet(rows) /\ DocOf[u] # DocOf[t])
    BY <1>1, <2>3, <2>4 DEF ToSet
  <2>7. q \in Seq(Texts)
    BY <2>3
  <2>8. QED
    BY <2>1, <2>5, <2>6, <2>7
<1>3. CASE ~ \E n \in DOMAIN rows : DocOf[rows[n]] = DocOf[t]
  <2>1. PICK q : q = Append(rows, t) /\ q = Saved(t)
    BY <1>3 DEF Saved
  <2>2. /\ q \in Seq(Texts) /\ DOMAIN q = 1..(N + 1) /\ q[N + 1] = t
        /\ \A n \in 1..N : q[n] = rows[n]
    <3>1. PICK r : r = rows /\ r \in Seq(Texts) /\ Len(r) = N
      BY <1>1
    <3>2. q = Append(r, t)
      BY <2>1, <3>1
    <3>3. q \in Seq(Texts) /\ Len(q) = N + 1 /\ q[N + 1] = t /\ \A n \in 1..N : q[n] = r[n]
      BY <3>1, <3>2
    <3>4. DOMAIN q = 1..(N + 1)
      BY <3>3
    <3>5. QED
      BY <3>1, <3>3, <3>4
  <2>3. 1..(N + 1) = 1..N \cup {N + 1} /\ N + 1 \notin 1..N
    OBVIOUS
  <2>4. OwnDocuments(q)
    BY <1>1, <1>3, <2>2, <2>3 DEF OwnDocuments
  <2>5. \A u \in ToSet(q) : u = t \/ (u \in ToSet(rows) /\ DocOf[u] # DocOf[t])
    BY <1>1, <1>3, <2>2, <2>3 DEF ToSet
  <2>6. QED
    BY <2>1, <2>2, <2>4, <2>5
<1>4. QED
  BY <1>2, <1>3

\* Before the search nothing is found.
LEMMA InitSearch == RInit => SearchInv
<1> SUFFICES ASSUME RInit PROVE SearchInv
  OBVIOUS
<1> DEFINE copied == [i \in DOMAIN rows |-> ChunksOf(rows[i])]
<1>1. rows \in Seq(Texts) /\ OwnDocuments(rows) /\ ToSet(rows) \subseteq Texts
  <2>1. rows \in Seq(Texts) /\ OwnDocuments(rows)
    BY ShelfAssumption DEF RInit
  <2>2. PICK N \in Nat : N = Len(rows) /\ rows \in [1..N -> Texts] /\ DOMAIN rows = 1..N
    BY <2>1, LenProperties
  <2>3. QED
    BY <2>1, <2>2 DEF ToSet
<1>2. copied \in Seq(Seq(Items))
  <2>1. PICK N \in Nat : N = Len(rows) /\ rows \in [1..N -> Texts] /\ DOMAIN rows = 1..N
    BY <1>1, LenProperties
  <2>2. copied \in [1..N -> Seq(Items)]
    BY <2>1, ChunksFacts
  <2> HIDE DEF copied
  <2>3. QED
    BY <2>2
<1>3. chunks \in Seq(Items)
  <2>1. chunks = FlattenSeq(copied)
    BY DEF RInit
  <2> HIDE DEF copied
  <2>2. QED
    BY <1>2, <2>1, FlattenFacts
<1>4. SearchTypes
  BY <1>1, <1>3 DEF RInit, SearchTypes, Unsearched
<1>5. Filtered /\ Ranked
  BY <1>1 DEF RInit, Filtered, Ranked
<1>6. Routed
  BY DEF RInit, Routed, OwnDocuments, TextsOf, ToSet
<1>7. QED
  BY <1>1, <1>4, <1>5, <1>6 DEF SearchInv

\* The rankings and what is kept look at the domain, the time and the routes alone.
LEMMA RankingsKept ==
    UNCHANGED <<domain, undated, vector, rule>> =>
        /\ Rankings' = Rankings
        /\ \A s : KeptOf(s)' = KeptOf(s)
BY DEF Rankings, Fused, Fine, RRF, Coarse, OfDomain, Dated, Words, KeptItem, KeptOf

\* Loading and deleting leave what a search has found as it is.
LEMMA FoundKept ==
    ASSUME SearchInv, UNCHANGED <<at, search>>, candidates \cap gone' = {}
    PROVE  /\ candidates' \cap gone' = {} /\ (at' \in {"idle", "filter"} => candidates' = {})
           /\ Routed' /\ Ranked'
<1>1. UNCHANGED <<at, path, domain, undated, candidates, vector, rule, results>>
  BY DEF search
<1>2. Routed'
  BY <1>1 DEF SearchInv, Routed, OfDomain, TextsOf, OwnDocuments
<1>3. Ranked'
  <2>1. Rankings' = Rankings /\ TextsOf(vector)' = TextsOf(vector)
    BY <1>1, RankingsKept DEF TextsOf
  <2>2. \A s : KeptOf(s)' = KeptOf(s)
    BY <1>1, RankingsKept
  <2>3. Ranked
    BY DEF SearchInv
  <2>4. QED
    BY <1>1, <2>1, <2>2, <2>3 DEF Ranked
<1>4. QED
  BY <1>1, <1>2, <1>3 DEF SearchInv, Filtered

\* A load begins with nothing in.
LEMMA StartLoadStep == ASSUME SearchInv, NEW t \in Texts, StartLoad(t) PROVE SearchInv'
<1>1. UNCHANGED <<at, search, rows, deleted, deleting, chunks, gone>>
  BY DEF StartLoad
<1>2. SearchTypes' /\ OwnDocuments(rows)'
  BY <1>1 DEF SearchInv, SearchTypes, search, OwnDocuments
<1>3. candidates \cap gone' = {}
  BY <1>1 DEF SearchInv, Filtered
<1>4. Filtered' /\ Routed' /\ Ranked'
  BY <1>1, <1>3, FoundKept DEF SearchInv, Filtered
<1>5. QED
  BY <1>2, <1>4 DEF SearchInv

\* A chunk of a text is one of its parts.
LEMMA AddChunkStep ==
    ASSUME SearchInv, NEW t \in Texts, NEW n \in 0..Parts[t], AddChunk(t, n)
    PROVE  SearchInv'
<1>1. UNCHANGED <<at, search, rows, deleted, deleting, gone>>
  BY DEF AddChunk
<1>2. chunks' \in Seq(Items)
  <2>1. PICK k \in Nat : k = Parts[t]
    BY TextAssumption
  <2>2. n \in Nat /\ n + 1 \in Nat /\ n + 1 <= k
    BY <2>1 DEF AddChunk
  <2>3. PICK x : x = <<t, n + 1>> /\ x \in Items
    <3>1. <<t, n + 1>> \in Texts \X Nat
      BY <2>2
    <3>2. <<t, n + 1>>[1] = t /\ <<t, n + 1>>[2] = n + 1
      OBVIOUS
    <3>3. QED
      BY <2>1, <2>2, <3>1, <3>2 DEF Items
  <2>4. chunks' = Append(chunks, x) /\ chunks \in Seq(Items)
    BY <2>3 DEF AddChunk, SearchInv, SearchTypes
  <2>5. QED
    BY <2>3, <2>4, AppendFacts
<1>3. SearchTypes' /\ OwnDocuments(rows)'
  BY <1>1, <1>2 DEF SearchInv, SearchTypes, search, OwnDocuments
<1>4. candidates \cap gone' = {}
  BY <1>1 DEF SearchInv, Filtered
<1>5. Filtered' /\ Routed' /\ Ranked'
  BY <1>1, <1>4, FoundKept DEF SearchInv, Filtered
<1>6. QED
  BY <1>3, <1>5 DEF SearchInv

\* A document loaded anew is no longer one deleted before the search.
LEMMA SaveRowStep == ASSUME SearchInv, NEW t \in Texts, SaveRow(t) PROVE SearchInv'
<1>1. /\ UNCHANGED <<at, search, deleted, deleting, chunks>>
      /\ rows' = Saved(t) /\ gone' = gone \ {DocOf[t]}
  BY DEF SaveRow
<1>2. rows \in Seq(Texts) /\ OwnDocuments(rows)
  BY DEF SearchInv, SearchTypes
<1>3. rows' \in Seq(Texts) /\ OwnDocuments(rows)'
  BY <1>1, <1>2, SavedFacts DEF OwnDocuments
<1>4. \A u \in ToSet(rows') : u = t \/ (u \in ToSet(rows) /\ DocOf[u] # DocOf[t])
  BY <1>1, <1>2, SavedFacts
<1>5. SearchTypes'
  BY <1>1, <1>3 DEF SearchInv, SearchTypes, search
<1>6. candidates \cap gone' = {}
  BY <1>1 DEF SearchInv, Filtered
<1>7. \A u \in ToSet(rows') : DocOf[u] \in gone' => u \in deleted'
  BY <1>1, <1>4 DEF SearchInv, Filtered
<1>8. Filtered' /\ Routed' /\ Ranked'
  BY <1>1, <1>6, <1>7, FoundKept DEF Filtered
<1>9. QED
  BY <1>3, <1>5, <1>8 DEF SearchInv

\* A row that is flagged stays in the table.
LEMMA FlagRowStep == ASSUME SearchInv, NEW t \in Texts, FlagRow(t) PROVE SearchInv'
<1>1. /\ UNCHANGED <<at, search, rows, chunks, gone>>
      /\ deleted' = deleted \cup {t} /\ deleting' = deleting \cup {t}
  BY DEF FlagRow
<1>2. SearchTypes' /\ OwnDocuments(rows)'
  BY <1>1 DEF SearchInv, SearchTypes, search, OwnDocuments
<1>3. candidates \cap gone' = {}
  BY <1>1 DEF SearchInv, Filtered
<1>4. Filtered' /\ Routed' /\ Ranked'
  BY <1>1, <1>3, FoundKept DEF SearchInv, Filtered
<1>5. QED
  BY <1>2, <1>4 DEF SearchInv

\* A row saved by a deletion is a deleted one, whatever it replaces.
LEMMA SaveFlaggedStep == ASSUME SearchInv, NEW t \in Texts, SaveFlagged(t) PROVE SearchInv'
<1>1. /\ UNCHANGED <<at, search, deleted, chunks, gone>>
      /\ rows' = Saved(t) /\ t \in deleted /\ deleting' \subseteq deleted
  BY DEF SaveFlagged, SearchInv, SearchTypes
<1>2. rows \in Seq(Texts) /\ OwnDocuments(rows)
  BY DEF SearchInv, SearchTypes
<1>3. rows' \in Seq(Texts) /\ OwnDocuments(rows)'
  BY <1>1, <1>2, SavedFacts DEF OwnDocuments
<1>4. \A u \in ToSet(rows') : u = t \/ (u \in ToSet(rows) /\ DocOf[u] # DocOf[t])
  BY <1>1, <1>2, SavedFacts
<1>5. SearchTypes'
  BY <1>1, <1>3 DEF SearchInv, SearchTypes, search
<1>6. candidates \cap gone' = {}
  BY <1>1 DEF SearchInv, Filtered
<1>7. \A u \in ToSet(rows') : DocOf[u] \in gone' => u \in deleted'
  BY <1>1, <1>4 DEF SearchInv, Filtered
<1>8. Filtered' /\ Routed' /\ Ranked'
  BY <1>1, <1>6, <1>7, FoundKept DEF Filtered
<1>9. QED
  BY <1>3, <1>5, <1>8 DEF SearchInv

\* A search begins with nothing found.
LEMMA BeginStep ==
    ASSUME SearchInv, \/ \E q \in Queries, b \in Domains : Ask(q, b)
                      \/ \E b \in Domains : Chat(b)
    PROVE  SearchInv'
<1>1. /\ at = "idle" /\ at' \in {"filter", "done"}
      /\ path' \in {"deep", "rag", "chat"} \cup DOMAIN Unsearched
      /\ at' = "done" => path' \in DOMAIN Unsearched
      /\ gone' = {DocOf[t] : t \in ToSet(rows) \cap deleted}
      /\ UNCHANGED <<rows, deleted, deleting, chunks, candidates, vector, rule, results>>
  BY DEF Ask, Chat, PathOf, Unsearched, base
<1>2. candidates = {} /\ vector = <<>> /\ rule = <<>>
  BY <1>1 DEF SearchInv, Filtered, Routed
<1>3. SearchTypes'
  BY <1>1, <1>2 DEF SearchInv, SearchTypes, Unsearched
<1>4. OwnDocuments(rows)'
  BY <1>1 DEF SearchInv, OwnDocuments
<1>5. Filtered'
  <2>1. \A t, u \in ToSet(rows) : DocOf[t] = DocOf[u] => t = u
    BY DEF SearchInv, OwnDocuments, ToSet
  <2>2. \A t \in ToSet(rows) : DocOf[t] \in gone' => t \in deleted
    BY <1>1, <2>1
  <2>3. QED
    BY <1>1, <1>2, <2>2 DEF Filtered
<1>6. Routed'
  BY <1>1, <1>2 DEF Routed, OwnDocuments, TextsOf, ToSet
<1>7. Ranked'
  BY <1>1 DEF Ranked, Unsearched
<1>8. QED
  BY <1>3, <1>4, <1>5, <1>6, <1>7 DEF SearchInv

\* The candidates are live now, and so not of those deleted before.
LEMMA PreFilterStep == ASSUME SearchInv, PreFilter PROVE SearchInv'
<1>1. /\ UNCHANGED <<rows, deleted, deleting, chunks, path, domain, vector, rule, gone>>
      /\ at' = "vector" /\ at = "filter" /\ candidates' = CandidatesOf(domain)
  BY DEF PreFilter, base
<1>2. vector = <<>> /\ rule = <<>>
  BY <1>1 DEF SearchInv, Routed
<1>3. candidates' \cap gone = {}
  BY <1>1 DEF CandidatesOf, Live, SearchInv, Filtered
<1>4. SearchTypes' /\ OwnDocuments(rows)'
  BY <1>1 DEF SearchInv, SearchTypes, OwnDocuments
<1>5. Filtered'
  BY <1>1, <1>3 DEF SearchInv, Filtered
<1>6. Routed'
  BY <1>1, <1>2 DEF Routed, OwnDocuments, TextsOf, ToSet
<1>7. Ranked'
  BY <1>1 DEF Ranked
<1>8. QED
  BY <1>4, <1>5, <1>6, <1>7 DEF SearchInv

\* The vector route keeps to what passes, and to the candidates if there are any.
LEMMA VectorSearchStep == ASSUME SearchInv, VectorSearch PROVE SearchInv'
<1>1. PICK perm \in SetToSeqs(DOMAIN chunks) :
        LET raw == UpTo(perm, 3 * Recall)
            found == Those([i \in DOMAIN raw |-> chunks[raw[i]]],
                           {x \in Items : DocOf[x[1]] \in Passing})
        IN  vector' = UpTo(found, Recall)
  BY DEF VectorSearch
<1>2. PICK N \in Nat : N = Len(chunks) /\ chunks \in [1..N -> Items] /\ DOMAIN chunks = 1..N
  BY LenProperties DEF SearchInv, SearchTypes
<1>3. perm \in Seq(1..N)
  BY <1>2, FS_Interval, OrdersFacts
<1>4. PICK r, m : r = Recall /\ m = 3 * Recall /\ r \in 0..15 /\ m \in Nat
  BY RecallFacts
<1>5. PICK raw : raw = UpTo(perm, m) /\ raw \in Seq(1..N)
  BY <1>3, <1>4, UpToFacts
<1>6. PICK s : s = [i \in DOMAIN raw |-> chunks[raw[i]]] /\ s \in Seq(Items)
  <2>1. PICK k \in Nat : k = Len(raw) /\ raw \in [1..k -> 1..N] /\ DOMAIN raw = 1..k
    BY <1>5, LenProperties
  <2>2. PICK s : s = [i \in DOMAIN raw |-> chunks[raw[i]]]
    OBVIOUS
  <2>3. s \in [1..k -> Items]
    BY <1>2, <2>1, <2>2
  <2>4. s \in Seq(Items)
    BY <2>3
  <2>5. QED
    BY <2>2, <2>4
<1>7. PICK P : P = {x \in Items : DocOf[x[1]] \in Passing}
  OBVIOUS
<1>8. PICK found : found = Those(s, P) /\ found \in Seq(Items) /\ ToSet(found) = ToSet(s) \cap P
  BY <1>6, ThoseFacts
<1>9. PICK v : /\ v = UpTo(found, r) /\ v \in Seq(Items)
               /\ Len(v) <= r /\ ToSet(v) \subseteq ToSet(found)
  BY <1>4, <1>8, UpToFacts
<1>10. vector' = v
  BY <1>1, <1>4, <1>5, <1>6, <1>7, <1>8, <1>9
<1>11. Len(v) <= 15
  BY <1>4, <1>9
<1>12. candidates # {} => \A x \in ToSet(v) : DocOf[x[1]] \in candidates
  BY <1>7, <1>8, <1>9 DEF Passing
<1>13. /\ UNCHANGED <<rows, deleted, deleting, chunks, path, domain, candidates, rule, gone>>
       /\ at = "vector" /\ at' \in {"rule", "assemble"}
  BY DEF VectorSearch, base
<1>14. rule = <<>>
  BY <1>13 DEF SearchInv, Routed
<1>15. SearchTypes'
  BY <1>9, <1>10, <1>13 DEF SearchInv, SearchTypes
<1>16. OwnDocuments(rows)' /\ Filtered'
  BY <1>13 DEF SearchInv, OwnDocuments, Filtered
<1>17. Routed'
  BY <1>10, <1>11, <1>12, <1>13, <1>14 DEF Routed, OwnDocuments, TextsOf, ToSet
<1>18. Ranked'
  BY <1>13 DEF Ranked
<1>19. QED
  BY <1>15, <1>16, <1>17, <1>18 DEF SearchInv

\* The rule route keeps to the domain, and has each document once.
LEMMA RuleSearchStep == ASSUME SearchInv, RuleSearch PROVE SearchInv'
<1>1. PICK q, W : /\ q = rows /\ W = FiledUnder(domain) /\ q \in Seq(Texts)
                  /\ OwnDocuments(q)
  BY DEF SearchInv, SearchTypes
<1>2. PICK r : r = Recall /\ r \in 0..15
  BY RecallFacts
<1>3. IsInjective(q) /\ \A t, u \in ToSet(q) : DocOf[t] = DocOf[u] => t = u
  BY <1>1 DEF IsInjective, OwnDocuments, ToSet
<1>4. PICK s : /\ s = Those(q, W) /\ s \in Seq(Texts) /\ ToSet(s) = ToSet(q) \cap W
               /\ IsInjective(s)
  BY <1>1, <1>3, ThoseFacts
<1>5. PICK u : /\ u = UpTo(s, r) /\ u \in Seq(Texts) /\ Len(u) <= r
               /\ ToSet(u) \subseteq ToSet(s) /\ IsInjective(u)
  <2>1. r \in Nat
    BY <1>2
  <2>2. QED
    BY <1>4, <2>1, UpToFacts
<1>6. PICK l \in Nat : l = Len(u) /\ u \in [1..l -> Texts] /\ DOMAIN u = 1..l
  BY <1>5, LenProperties
<1>7. \A n \in 1..l : u[n] \in ToSet(q) /\ u[n] \in W
  BY <1>4, <1>5, <1>6 DEF ToSet
<1>8. \A t \in Texts : <<t, 0>> \in Items
  <2>1. \A t \in Texts : Parts[t] \in Nat
    BY TextAssumption
  <2>2. QED
    BY <2>1 DEF Items
<1>9. PICK v : v = [n \in DOMAIN u |-> <<u[n], 0>>]
  OBVIOUS
<1>10. v \in [1..l -> Items] /\ DOMAIN v = 1..l /\ \A n \in 1..l : v[n][1] = u[n]
  BY <1>6, <1>8, <1>9
<1>11. v \in Seq(Items) /\ Len(v) = l
  BY <1>10
<1>12. rule' = v
  BY <1>1, <1>2, <1>4, <1>5, <1>9 DEF RuleSearch
<1>13. Len(v) <= 15
  BY <1>2, <1>5, <1>6, <1>11
<1>14. OwnDocuments(TextsOf(v))
  <2>1. TextsOf(v) = u
    BY <1>6, <1>10 DEF TextsOf
  <2>2. \A i, j \in 1..l : DocOf[u[i]] = DocOf[u[j]] => i = j
    BY <1>3, <1>5, <1>6, <1>7 DEF IsInjective
  <2>3. QED
    BY <1>6, <2>1, <2>2 DEF OwnDocuments
<1>15. \A x \in ToSet(v) : Domain[x[1]] = domain
  BY <1>1, <1>7, <1>10 DEF ToSet, FiledUnder
<1>16. /\ UNCHANGED <<rows, deleted, deleting, chunks, path, domain, candidates, vector, gone>>
       /\ at = "rule" /\ at' = "assemble"
  BY DEF RuleSearch, base
<1>17. SearchTypes'
  BY <1>11, <1>12, <1>16 DEF SearchInv, SearchTypes
<1>18. OwnDocuments(rows)' /\ Filtered'
  BY <1>16 DEF SearchInv, OwnDocuments, Filtered
<1>19. Routed'
  <2>1. OwnDocuments(TextsOf(rule))'
    BY <1>12, <1>14 DEF OwnDocuments, TextsOf
  <2>2. \A x \in ToSet(rule)' : OfDomain(x)'
    BY <1>12, <1>15, <1>16 DEF OfDomain
  <2>3. Len(rule') <= 15
    BY <1>12, <1>13
  <2>4. QED
    BY <1>16, <2>1, <2>2, <2>3 DEF SearchInv, Routed
<1>20. Ranked'
  BY <1>16 DEF Ranked
<1>21. QED
  BY <1>17, <1>18, <1>19, <1>20 DEF SearchInv

\* An answer comes from what was found.
LEMMA AnswerStep ==
    ASSUME SearchInv, AnswerDeep \/ AnswerRag \/ AnswerChat
    PROVE  SearchInv'
<1>1. /\ at = "assemble" /\ at' = "done"
      /\ UNCHANGED <<rows, deleted, deleting, chunks, path, domain, undated, candidates>>
      /\ UNCHANGED <<vector, rule, gone>>
  BY DEF AnswerDeep, AnswerRag, AnswerChat, base
<1>2. SearchTypes' /\ OwnDocuments(rows)' /\ Filtered'
  BY <1>1 DEF SearchInv, SearchTypes, OwnDocuments, Filtered
<1>3. Routed'
  BY <1>1 DEF SearchInv, Routed, OfDomain, TextsOf, OwnDocuments
<1>4. Ranked'
  <2>1. Rankings' = Rankings /\ TextsOf(vector)' = TextsOf(vector)
    BY <1>1, RankingsKept DEF TextsOf
  <2>2. \A s : KeptOf(s)' = KeptOf(s)
    BY <1>1, RankingsKept
  <2>3. path = "deep" => \E s \in Rankings : results' = KeptOf(UpTo(s, TopK))
    BY DEF AnswerDeep, AnswerRag, AnswerChat, KeptOf
  <2>4. path \in {"rag", "chat"} => results' = TextsOf(vector)
    BY DEF AnswerDeep, AnswerRag, AnswerChat
  <2>5. QED
    BY <1>1, <2>1, <2>2, <2>3, <2>4 DEF Ranked
<1>5. QED
  BY <1>2, <1>3, <1>4 DEF SearchInv

\* Every step keeps the invariant.
LEMMA NextSearch == SearchInv /\ [RNext]_rvars => SearchInv'
<1> SUFFICES ASSUME SearchInv, [RNext]_rvars PROVE SearchInv'
  OBVIOUS
<1>1. CASE RNext
  BY <1>1, StartLoadStep, AddChunkStep, SaveRowStep, FlagRowStep, SaveFlaggedStep, BeginStep,
     PreFilterStep, VectorSearchStep, RuleSearchStep, AnswerStep
  DEF RNext, Search
<1>2. CASE UNCHANGED rvars
  <2>1. UNCHANGED <<at, search, rows, deleted, deleting, chunks, gone>>
    BY <1>2 DEF rvars, base
  <2>2. SearchTypes' /\ OwnDocuments(rows)'
    BY <2>1 DEF SearchInv, SearchTypes, search, OwnDocuments
  <2>3. candidates \cap gone' = {}
    BY <2>1 DEF SearchInv, Filtered
  <2>4. Filtered' /\ Routed' /\ Ranked'
    BY <2>1, <2>3, FoundKept DEF SearchInv, Filtered
  <2>5. QED
    BY <2>2, <2>4 DEF SearchInv
<1>3. QED
  BY <1>1, <1>2

\* Whatever is loaded and deleted meanwhile, each route keeps to its own documents and the
\* answer to what the routes found.
THEOREM SearchInvariance == RSpec => []SearchInv
BY InitSearch, NextSearch, PTL DEF RSpec

-----------------------------------------------------------------------------
(* The properties. *)

\* The weights of the first fifteen ranks.
LEMMA WeightFacts ==
    ASSUME NEW w \in {2, 5}, NEW n \in 1..15
    PROVE  Weight(w, n) \in Nat /\ Weight(w, n) <= 8196 /\ (w = 2 => Weight(w, n) <= 3278)
<1>1. 600 + 10 * n \in 610..750
  OBVIOUS
<1>2. ASSUME NEW b \in 610..750
      PROVE /\ 5000000 \div b \in Nat /\ 5000000 \div b <= 8196
            /\ 2000000 \div b \in Nat /\ 2000000 \div b <= 3278
  OBVIOUS
<1>3. CASE w = 5
  <2>1. Weight(w, n) = 5000000 \div (600 + 10 * n)
    BY <1>3 DEF Weight, Million
  <2>2. QED
    BY <1>1, <1>2, <1>3, <2>1
<1>4. CASE w = 2
  <2>1. Weight(w, n) = 2000000 \div (600 + 10 * n)
    BY <1>4 DEF Weight, Million
  <2>2. QED
    BY <1>1, <1>2, <1>4, <2>1
<1>5. QED
  BY <1>3, <1>4

\* A route of N entries.
RouteOf(s, N) == N = Len(s) /\ DOMAIN s = 1..N

\* An entry makes a sum no more than 8196 greater.
NotFarBelow(a, b) == \E v \in Nat : v <= 8196 /\ (b = a \/ b = a + v)

\* What the defined bound says, for the numbers it is about.
LEMMA NotFarBelowFacts ==
    /\ \A a, m \in Nat : \A b : a <= 8196 * m /\ NotFarBelow(a, b) =>
                                b \in Nat /\ b <= 8196 * (m + 1)
    /\ \A a : NotFarBelow(a, a)
    /\ \A a : \A v \in Nat : v <= 8196 => NotFarBelow(a, a + v)
<1>1. ASSUME NEW a \in Nat, NEW m \in Nat, NEW b, a <= 8196 * m, NotFarBelow(a, b)
      PROVE  b \in Nat /\ b <= 8196 * (m + 1)
  <2>1. PICK v \in Nat : v <= 8196 /\ (b = a \/ b = a + v)
    BY <1>1 DEF NotFarBelow
  <2>2. QED
    BY <1>1, <2>1
<1>2. ASSUME NEW a PROVE NotFarBelow(a, a)
  <2>1. 0 \in Nat /\ 0 <= 8196 /\ a = a
    OBVIOUS
  <2>2. QED
    BY <2>1 DEF NotFarBelow
<1>3. ASSUME NEW a, NEW v \in Nat, v <= 8196 PROVE NotFarBelow(a, a + v)
  <2>1. v <= 8196 /\ a + v = a + v
    BY <1>3
  <2>2. QED
    BY <2>1 DEF NotFarBelow
<1>4. QED
  BY <1>1, <1>2, <1>3

\* A sum of entries.
Grows(K, N) == K[0] = 0 /\ \A n \in 1..N : NotFarBelow(K[n - 1], K[n])

\* So a sum is at most 8196 for each of its entries.
LEMMA GrowthFacts ==
    ASSUME NEW N \in Nat, NEW K, Grows(K, N)
    PROVE  \A n \in 0..N : K[n] \in Nat /\ K[n] <= 8196 * n
<1> DEFINE Good(n) == K[n] \in Nat /\ K[n] <= 8196 * n
           Bad == {n \in 0..N : ~Good(n)}
<1>1. SUFFICES ASSUME Bad # {} PROVE FALSE
  OBVIOUS
<1>2. PICK n \in Bad : \A b \in Bad : n <= b
  <2>1. Bad \in SUBSET Nat
    OBVIOUS
  <2> HIDE DEF Bad
  <2>2. QED
    BY <1>1, <2>1, NatMin
<1>3. n \in 0..N /\ ~Good(n)
  OBVIOUS
<1>4. n # 0
  BY <1>3 DEF Grows
<1>5. PICK i \in 0..N : n = i + 1 /\ n \in 1..N /\ n - 1 = i /\ ~(n <= i)
  <2>1. n - 1 \in 0..N /\ n = (n - 1) + 1 /\ n \in 1..N /\ ~(n <= n - 1)
    BY <1>3, <1>4
  <2>2. QED
    BY <2>1
<1>6. Good(i)
  <2>1. i \notin Bad
    <3> HIDE DEF Bad
    <3>1. QED
      BY <1>2, <1>5
  <2>2. QED
    BY <2>1
<1>7. NotFarBelow(K[i], K[i + 1])
  BY <1>5 DEF Grows
<1>8. K[i + 1] \in Nat /\ K[i + 1] <= 8196 * (i + 1)
  BY <1>6, <1>7, NotFarBelowFacts
<1>9. Good(n)
  BY <1>5, <1>8
<1>10. QED
  BY <1>3, <1>9

\* What a route gives a document for the fusion: a little for each of its entries.
LEMMA RouteFacts ==
    ASSUME NEW N \in 0..15, NEW s, RouteOf(s, N), NEW w \in {2, 5}, NEW d
    PROVE  /\ RouteScore(s, w, d) \in Nat
           /\ RouteScore(s, w, d) <= 122940
           /\ IsInjective(s) /\ w = 2 => RouteScore(s, w, d) <= 3278
           /\ d \notin ToSet(s) => RouteScore(s, w, d) = 0
<1>1. N = Len(s) /\ DOMAIN s = 1..N
  BY DEF RouteOf
<1>2. \A n \in 1..N : /\ Weight(w, n) \in Nat /\ Weight(w, n) <= 8196
                      /\ w = 2 => Weight(w, n) <= 3278
  <2> SUFFICES ASSUME NEW n \in 1..N
               PROVE  /\ Weight(w, n) \in Nat /\ Weight(w, n) <= 8196
                      /\ w = 2 => Weight(w, n) <= 3278
    OBVIOUS
  <2>1. n \in 1..15
    OBVIOUS
  <2>2. QED
    BY <2>1, WeightFacts
<1>3. PICK W \in [1..N -> Nat] :
         \A n \in 1..N : W[n] = Weight(w, n) /\ W[n] <= 8196 /\ (w = 2 => W[n] <= 3278)
  <2> DEFINE W == [n \in 1..N |-> Weight(w, n)]
  <2>1. W \in [1..N -> Nat] /\ \A n \in 1..N : W[n] = Weight(w, n)
    BY <1>2
  <2> HIDE DEF W
  <2>2. \A n \in 1..N : W[n] <= 8196 /\ (w = 2 => W[n] <= 3278)
    BY <1>2, <2>1
  <2>3. QED
    BY <2>1, <2>2
<1> DEFINE g == [n \in 1..N |-> [v \in Nat |-> IF s[n] = d THEN v + W[n] ELSE v]]
<1>4. ASSUME NEW n \in 1..N, NEW v \in Nat
      PROVE  /\ (IF s[n] = d THEN v + W[n] ELSE v) \in Nat
             /\ g[n][v] = IF s[n] = d THEN v + W[n] ELSE v
  BY <1>3
<1>5. g \in [1..N -> [Nat -> Nat]]
  BY <1>4
<1>6. PICK f \in [0..N -> Nat] : \A n \in 0..N : f[n] = IF n = 0 THEN 0 ELSE g[n][f[n - 1]]
  <2> HIDE DEF g
  <2>1. N \in Nat /\ 0 \in Nat
    OBVIOUS
  <2>2. Recurs(N, Nat, 0, g)
    BY <1>5, <2>1, Recursion
  <2>3. QED
    BY <2>2 DEF Recurs
<1>7. \A n \in 1..N : n \in 0..N /\ n # 0 /\ n - 1 \in 0..N /\ f[n - 1] \in Nat
  OBVIOUS
<1>8. f = [n \in 0..N |->
             IF n = 0 THEN 0
             ELSE IF s[n] = d THEN f[n - 1] + Weight(w, n) ELSE f[n - 1]]
  <2>1. \A n \in 0..N : n # 0 => n \in 1..N
    OBVIOUS
  <2> HIDE DEF g
  <2>2. \A n \in 0..N : f[n] =
             IF n = 0 THEN 0
             ELSE IF s[n] = d THEN f[n - 1] + Weight(w, n) ELSE f[n - 1]
    <3> SUFFICES ASSUME NEW n \in 0..N
                 PROVE  f[n] = IF n = 0 THEN 0
                               ELSE IF s[n] = d THEN f[n - 1] + Weight(w, n) ELSE f[n - 1]
      OBVIOUS
    <3>1. CASE n = 0
      BY <1>6, <3>1
    <3>2. CASE n # 0
      <4>1. n \in 1..N /\ f[n - 1] \in Nat
        BY <1>7, <2>1, <3>2
      <4>2. f[n] = g[n][f[n - 1]]
        BY <1>6, <3>2
      <4>3. g[n][f[n - 1]] = IF s[n] = d THEN f[n - 1] + W[n] ELSE f[n - 1]
        BY <1>4, <4>1
      <4>4. W[n] = Weight(w, n)
        BY <1>3, <4>1
      <4>5. QED
        BY <3>2, <4>2, <4>3, <4>4
    <3>3. QED
      BY <3>1, <3>2
  <2>3. QED
    BY <2>2
<1>9. PICK K : K = CHOOSE h : h = [n \in 0..N |->
             IF n = 0 THEN 0
             ELSE IF s[n] = d THEN h[n - 1] + Weight(w, n) ELSE h[n - 1]]
  OBVIOUS
<1>10. K[N] = RouteScore(s, w, d)
  BY <1>1, <1>9 DEF RouteScore
<1>11. K = [n \in 0..N |->
             IF n = 0 THEN 0
             ELSE IF s[n] = d THEN K[n - 1] + Weight(w, n) ELSE K[n - 1]]
  BY <1>8, <1>9
<1> DEFINE More(n) == K[n - 1] + Weight(w, n)
<1>12. /\ K[0] = 0
       /\ \A n \in 1..N : K[n] = IF s[n] = d THEN More(n) ELSE K[n - 1]
  <2>1. \A n \in 0..N : K[n] = IF n = 0 THEN 0 ELSE IF s[n] = d THEN More(n) ELSE K[n - 1]
    BY <1>11
  <2>2. 0 \in 0..N
    OBVIOUS
  <2> HIDE DEF More
  <2>3. QED
    BY <1>7, <2>1, <2>2
<1>13. \A n \in 0..N : K[n] \in Nat /\ K[n] <= 8196 * n
  <2>1. ASSUME NEW n \in 1..N PROVE NotFarBelow(K[n - 1], K[n])
    <3>1. Weight(w, n) \in Nat /\ Weight(w, n) <= 8196
      BY <1>2
    <3>2. K[n] = K[n - 1] \/ K[n] = K[n - 1] + Weight(w, n)
      BY <1>12
    <3>3. QED
      BY <3>1, <3>2, NotFarBelowFacts
  <2>2. Grows(K, N) /\ N \in Nat
    BY <1>12, <2>1 DEF Grows
  <2>3. QED
    BY <2>2, GrowthFacts
<1> DEFINE Absent(n) == \A j \in 1..n : s[j] # d
           Good(n) == /\ IsInjective(s) /\ w = 2 => K[n] <= 3278
                      /\ Absent(n) => K[n] = 0
           Bad == {n \in 0..N : ~Good(n)}
<1>14. Good(0)
  BY <1>12
<1>15. ASSUME NEW n \in 1..N, Good(n - 1) PROVE Good(n)
  <2>1. \A j \in 1..(n - 1) : j \in 1..N /\ j # n /\ j \in 1..n
    OBVIOUS
  <2>2. PICK k, v \in Nat : /\ k = K[n - 1] /\ v = Weight(w, n) /\ v <= 8196
                            /\ w = 2 => v <= 3278
    <3>1. K[n - 1] \in Nat
      BY <1>7, <1>13
    <3>2. Weight(w, n) \in Nat /\ Weight(w, n) <= 8196 /\ (w = 2 => Weight(w, n) <= 3278)
      BY <1>2
    <3>3. QED
      BY <3>1, <3>2
  <2>3. K[n] = IF s[n] = d THEN k + v ELSE k
    BY <1>12, <2>2
  <2>4. (IsInjective(s) /\ w = 2 => k <= 3278) /\ (Absent(n - 1) => k = 0)
    BY <1>15, <2>2
  <2>5. Absent(n) => Absent(n - 1) /\ s[n] # d
    BY <2>1
  <2>6. IsInjective(s) /\ s[n] = d => Absent(n - 1)
    <3> SUFFICES ASSUME IsInjective(s), s[n] = d, NEW j \in 1..(n - 1) PROVE s[j] # d
      OBVIOUS
    <3>1. j \in DOMAIN s /\ n \in DOMAIN s /\ j # n
      BY <1>1, <2>1
    <3>2. QED
      BY <3>1 DEF IsInjective
  <2> HIDE DEF Absent
  <2>7. IsInjective(s) /\ w = 2 => K[n] <= 3278
    BY <2>2, <2>3, <2>4, <2>6
  <2>8. Absent(n) => K[n] = 0
    BY <2>3, <2>4, <2>5
  <2>9. QED
    BY <2>7, <2>8
<1>16. Bad = {}
  <2> HIDE DEF Good
  <2>1. SUFFICES ASSUME Bad # {} PROVE FALSE
    OBVIOUS
  <2>2. PICK m \in Bad : \A b \in Bad : m <= b
    <3>1. Bad \in SUBSET Nat
      OBVIOUS
    <3> HIDE DEF Bad
    <3>2. QED
      BY <2>1, <3>1, NatMin
  <2>3. m \in 0..N /\ ~Good(m)
    BY <2>2
  <2>4. m # 0
    BY <1>14, <2>3
  <2>5. m \in 1..N /\ m - 1 \in 0..N /\ ~(m <= m - 1)
    BY <2>3, <2>4
  <2>6. Good(m - 1)
    <3>1. m - 1 \notin Bad
      <4> HIDE DEF Bad
      <4>1. QED
        BY <2>2, <2>5
    <3>2. QED
      BY <2>5, <3>1
  <2>7. QED
    BY <1>15, <2>3, <2>5, <2>6
<1>17. Good(N)
  <2>1. N \in 0..N
    OBVIOUS
  <2> HIDE DEF Good
  <2>2. QED
    BY <1>16, <2>1
<1>18. d \notin ToSet(s) => Absent(N)
  BY <1>1 DEF ToSet
<1> HIDE DEF Absent
<1>19. K[N] \in Nat /\ K[N] <= 122940
  <2>1. PICK k \in Nat : k = K[N] /\ k <= 8196 * N
    <3>1. N \in 0..N
      OBVIOUS
    <3>2. QED
      BY <1>13, <3>1
  <2>2. k <= 122940
    BY <2>1
  <2>3. QED
    BY <2>1, <2>2
<1>20. (IsInjective(s) /\ w = 2 => K[N] <= 3278) /\ (d \notin ToSet(s) => K[N] = 0)
  BY <1>17, <1>18
<1>21. QED
  BY <1>10, <1>19, <1>20

\* Every route is that short.
LEMMA ShortRoute ==
    ASSUME NEW s \in Seq(Docs)
    PROVE  Len(s) <= 15 => \E N \in 0..15 : RouteOf(s, N)
<1>1. PICK N \in Nat : N = Len(s) /\ DOMAIN s = 1..N
  BY LenProperties
<1>2. N <= 15 => N \in 0..15
  OBVIOUS
<1>3. QED
  BY <1>1, <1>2 DEF RouteOf

\* The documents of a route are those of its items, in their order.
LEMMA DocsOfFacts ==
    ASSUME NEW s \in Seq(Items)
    PROVE  /\ DocsOf(s) \in Seq(Docs) /\ Len(DocsOf(s)) = Len(s)
           /\ \A x \in ToSet(s) : x \in Items /\ DocOf[x[1]] \in ToSet(DocsOf(s))
           /\ \A d \in ToSet(DocsOf(s)) : \E n \in DOMAIN s : DocOf[s[n][1]] = d
           /\ OwnDocuments(TextsOf(s)) => IsInjective(DocsOf(s))
<1>1. PICK N \in Nat : N = Len(s) /\ s \in [1..N -> Items] /\ DOMAIN s = 1..N
  BY LenProperties
<1>2. PICK u : u = DocsOf(s)
  OBVIOUS
<1>3. \A x \in Items : x[1] \in Texts /\ DocOf[x[1]] \in Docs
  BY DEF Items, Docs
<1>4. u \in [1..N -> Docs] /\ DOMAIN u = 1..N /\ \A n \in 1..N : u[n] = DocOf[s[n][1]]
  BY <1>1, <1>2, <1>3 DEF DocsOf
<1>5. u \in Seq(Docs) /\ Len(u) = N
  BY <1>4
<1>6. \A x \in ToSet(s) : x \in Items /\ DocOf[x[1]] \in ToSet(u)
  BY <1>1, <1>4 DEF ToSet
<1>7. \A d \in ToSet(u) : \E n \in DOMAIN s : DocOf[s[n][1]] = d
  BY <1>1, <1>4 DEF ToSet
<1>8. OwnDocuments(TextsOf(s)) => IsInjective(u)
  <2>1. DOMAIN TextsOf(s) = 1..N /\ \A n \in 1..N : TextsOf(s)[n] = s[n][1]
    BY <1>1 DEF TextsOf
  <2>2. QED
    BY <1>4, <2>1 DEF OwnDocuments, IsInjective
<1>9. QED
  BY <1>1, <1>2, <1>5, <1>6, <1>7, <1>8

\* What a document is ranked by is one of its items.
LEMMA KeptItemFacts ==
    ASSUME SearchInv, NEW d \in Fused
    PROVE  /\ KeptItem(d) \in ToSet(vector) \cup ToSet(rule)
           /\ DocOf[KeptItem(d)[1]] = d
           /\ Words(KeptItem(d)) \in Nat
<1>1. PICK v, u : v = vector /\ u = rule /\ v \in Seq(Items) /\ u \in Seq(Items)
  BY DEF SearchInv, SearchTypes
<1>2. PICK M, N \in Nat : /\ M = Len(v) /\ v \in [1..M -> Items] /\ DOMAIN v = 1..M
                          /\ N = Len(u) /\ u \in [1..N -> Items] /\ DOMAIN u = 1..N
  BY <1>1, LenProperties
<1>3. PICK all : all = v \o u
  OBVIOUS
<1>4. /\ DOMAIN all = 1..(M + N)
      /\ \A n \in 1..M : all[n] = v[n] /\ n \in 1..(M + N)
      /\ \A n \in 1..N : all[M + n] = u[n] /\ M + n \in 1..(M + N)
  BY <1>1, <1>2, <1>3
<1>5. \A n \in 1..(M + N) : all[n] \in ToSet(v) \cup ToSet(u)
  <2> SUFFICES ASSUME NEW n \in 1..(M + N) PROVE all[n] \in ToSet(v) \cup ToSet(u)
    OBVIOUS
  <2>1. CASE n <= M
    BY <1>2, <1>4, <2>1 DEF ToSet
  <2>2. CASE ~(n <= M)
    <3>1. n - M \in 1..N /\ n = M + (n - M)
      BY <2>2
    <3>2. QED
      BY <1>2, <1>4, <3>1 DEF ToSet
  <2>3. QED
    BY <2>1, <2>2
<1> DEFINE Its == {n \in 1..(M + N) : DocOf[all[n][1]] = d}
<1>6. Its # {}
  <2>1. d \in ToSet(DocsOf(v)) \/ d \in ToSet(DocsOf(u))
    BY <1>1 DEF Fused
  <2>2. (\E n \in 1..M : DocOf[v[n][1]] = d) \/ (\E n \in 1..N : DocOf[u[n][1]] = d)
    <3>1. CASE d \in ToSet(DocsOf(v))
      <4>1. \E n \in DOMAIN v : DocOf[v[n][1]] = d
        BY <1>1, <3>1, DocsOfFacts
      <4>2. QED
        BY <1>2, <4>1
    <3>2. CASE d \in ToSet(DocsOf(u))
      <4>1. \E n \in DOMAIN u : DocOf[u[n][1]] = d
        BY <1>1, <3>2, DocsOfFacts
      <4>2. QED
        BY <1>2, <4>1
    <3>3. QED
      BY <2>1, <3>1, <3>2
  <2>3. QED
    BY <1>4, <2>2
<1>7. PICK k \in Its : \A n \in Its : k <= n
  <2>1. Its \in SUBSET Nat
    OBVIOUS
  <2> HIDE DEF Its
  <2>2. QED
    BY <1>6, <2>1, NatMin
<1>8. k \in 1..(M + N) /\ DocOf[all[k][1]] = d
  OBVIOUS
<1>9. \A m \in 1..(k - 1) : DocOf[all[m][1]] # d
  <2> SUFFICES ASSUME NEW m \in 1..(k - 1) PROVE DocOf[all[m][1]] # d
    OBVIOUS
  <2>1. m \in 1..(M + N) /\ ~(k <= m)
    BY <1>8
  <2>2. QED
    BY <1>7, <2>1
<1> HIDE DEF Its
<1>10. PICK c : c = CHOOSE n \in DOMAIN all :
                       DocOf[all[n][1]] = d /\ \A m \in 1..(n - 1) : DocOf[all[m][1]] # d
  OBVIOUS
<1>11. c \in 1..(M + N) /\ DocOf[all[c][1]] = d
  BY <1>4, <1>8, <1>9, <1>10
<1>12. KeptItem(d) = all[c]
  BY <1>1, <1>3, <1>10 DEF KeptItem
<1>13. all[c] \in Items
  <2>1. all[c] \in ToSet(v) \cup ToSet(u)
    BY <1>5, <1>11
  <2>2. QED
    BY <1>1, <2>1, DocsOfFacts
<1>14. ASSUME NEW x \in Items PROVE Words(x) \in Nat
  <2>1. x[1] \in Texts /\ Parts[x[1]] \in Nat /\ x[2] \in 0..Parts[x[1]]
    BY TextAssumption DEF Items
  <2>2. Hits[x[1]] \in [0..Parts[x[1]] -> Nat]
    BY <2>1, TextAssumption
  <2>3. QED
    BY <2>1, <2>2 DEF Words
<1>15. QED
  BY <1>1, <1>5, <1>11, <1>12, <1>13, <1>14

\* What RRF gives a document is less than a word of the coarse ranking gives.
LEMMA FusionFacts ==
    ASSUME SearchInv, NEW d
    PROVE  RRF(d) \in Nat /\ RRF(d) <= 126218
<1>1. PICK v, u : /\ v = DocsOf(vector) /\ u = DocsOf(rule)
                  /\ v \in Seq(Docs) /\ Len(v) <= 15
                  /\ u \in Seq(Docs) /\ Len(u) <= 15 /\ IsInjective(u)
  <2>1. /\ vector \in Seq(Items) /\ Len(vector) <= 15
        /\ rule \in Seq(Items) /\ Len(rule) <= 15 /\ OwnDocuments(TextsOf(rule))
    BY DEF SearchInv, SearchTypes, Routed
  <2>2. QED
    BY <2>1, DocsOfFacts
<1>2. RouteScore(v, 5, d) \in Nat /\ RouteScore(v, 5, d) <= 122940
  <2>1. PICK N \in 0..15 : RouteOf(v, N)
    BY <1>1, ShortRoute
  <2>2. QED
    BY <2>1, RouteFacts
<1>3. RouteScore(u, 2, d) \in Nat /\ RouteScore(u, 2, d) <= 3278
  <2>1. PICK N \in 0..15 : RouteOf(u, N)
    BY <1>1, ShortRoute
  <2>2. IsInjective(u)
    BY <1>1
  <2>3. QED
    BY <2>1, <2>2, RouteFacts
<1>4. PICK m, n \in Nat : m = RouteScore(v, 5, d) /\ n = RouteScore(u, 2, d)
  BY <1>2, <1>3
<1>5. RRF(d) = m + n
  BY <1>1, <1>4 DEF RRF
<1>6. QED
  BY <1>2, <1>3, <1>4, <1>5

\* The coarse ranking counts halves of words: the domain ten, the time five.
LEMMA CoarseFacts ==
    ASSUME SearchInv, NEW d \in Fused
    PROVE  /\ Worth(d) \in Nat
           /\ Coarse(d) = 2 * Worth(d) + (IF Dated(KeptItem(d)) THEN 5 ELSE 0)
<1>1. PICK h \in Nat : h = Words(KeptItem(d))
  BY KeptItemFacts
<1>2. QED
  BY <1>1 DEF Coarse, Worth

\* So the domain counts as five words, the time as two or three, and a word more than the
\* fusion can say.
LEMMA FineFacts ==
    ASSUME SearchInv, NEW d \in Fused, NEW e \in Fused, Fine(e) >= Fine(d)
    PROVE  Outweighs(e, d)
<1>1. PICK m \in Nat : m = RRF(d)
  BY FusionFacts
<1>2. PICK n \in Nat : n = RRF(e) /\ n <= 126218
  BY FusionFacts
<1>3. PICK h \in Nat : h = Worth(d) /\ Coarse(d) = 2 * h + (IF Dated(KeptItem(d)) THEN 5 ELSE 0)
  BY CoarseFacts
<1>4. PICK g \in Nat : g = Worth(e) /\ Coarse(e) = 2 * g + (IF Dated(KeptItem(e)) THEN 5 ELSE 0)
  BY CoarseFacts
<1>5. PICK a \in Nat : a = (6 * m) \div 10
  OBVIOUS
<1>6. PICK c \in Nat : c = (6 * n) \div 10 /\ 10 * c <= 6 * n
  OBVIOUS
<1>7. PICK i \in Nat : i = Coarse(d)
  BY <1>3
<1>8. PICK j \in Nat : j = Coarse(e)
  BY <1>4
<1>9. j + 1 >= i
  <2>1. Fine(d) = a + 40000 * i /\ Fine(e) = c + 40000 * j
    BY <1>1, <1>2, <1>5, <1>6, <1>7, <1>8 DEF Fine
  <2>2. c < 80000
    BY <1>2, <1>6
  <2>3. c + 40000 * j >= a + 40000 * i
    BY <2>1
  <2>4. QED
    BY <2>2, <2>3
<1>10. CASE Dated(KeptItem(d)) /\ Dated(KeptItem(e))
  BY <1>3, <1>4, <1>7, <1>8, <1>9, <1>10 DEF Outweighs
<1>11. CASE Dated(KeptItem(d)) /\ ~Dated(KeptItem(e))
  BY <1>3, <1>4, <1>7, <1>8, <1>9, <1>11 DEF Outweighs
<1>12. CASE ~Dated(KeptItem(d)) /\ Dated(KeptItem(e))
  BY <1>3, <1>4, <1>7, <1>8, <1>9, <1>12 DEF Outweighs
<1>13. CASE ~Dated(KeptItem(d)) /\ ~Dated(KeptItem(e))
  BY <1>3, <1>4, <1>7, <1>8, <1>9, <1>13 DEF Outweighs
<1>14. QED
  BY <1>10, <1>11, <1>12, <1>13

\* A ranking has all of what was fused, each before what does not outdo it.
LEMMA RankingFacts ==
    ASSUME SearchInv, NEW s \in Rankings
    PROVE  /\ s \in Seq(Fused)
           /\ \A d \in Fused : \E i \in DOMAIN s : s[i] = d
           /\ \A i, j \in DOMAIN s : i < j => Fine(s[i]) >= Fine(s[j])
<1>1. PICK v, u : /\ v = DocsOf(vector) /\ u = DocsOf(rule)
                  /\ v \in Seq(Docs) /\ u \in Seq(Docs)
  <2>1. vector \in Seq(Items) /\ rule \in Seq(Items)
    BY DEF SearchInv, SearchTypes
  <2>2. QED
    BY <2>1, DocsOfFacts
<1>2. IsFiniteSet(ToSet(v)) /\ IsFiniteSet(ToSet(u))
  BY <1>1, HeldFinite
<1>3. PICK F : F = Fused /\ IsFiniteSet(F)
  BY <1>1, <1>2, FS_Union DEF Fused
<1>4. s \in SetToSeqs(F) /\ \A i, j \in DOMAIN s : i < j => Fine(s[i]) >= Fine(s[j])
  BY <1>3 DEF Rankings
<1>5. s \in Seq(F) /\ \A d \in F : \E i \in DOMAIN s : s[i] = d
  BY <1>3, <1>4, OrdersFacts
<1>6. QED
  BY <1>3, <1>4, <1>5

\* What a deep search answers with: the first of a ranking, and all of it if there is room.
LEMMA DeepFacts ==
    ASSUME SearchInv, at = "done", path = "deep"
    PROVE  \E s \in Rankings : \E l, k \in Nat :
             /\ s \in Seq(Fused) /\ DOMAIN s = 1..l
             /\ k = Len(results) /\ DOMAIN results = 1..k
             /\ k <= l /\ (k < l => k = TopK)
             /\ \A i \in 1..k : /\ s[i] \in Fused /\ results[i] = KeptItem(s[i])[1]
                                /\ DocOf[results[i]] = s[i]
<1>1. PICK s \in Rankings : results = KeptOf(UpTo(s, TopK))
  BY DEF SearchInv, Ranked
<1>2. PICK F : F = Fused /\ s \in Seq(F)
  BY RankingFacts
<1>3. PICK t \in Nat : t = TopK
  BY TopKAssumption
<1>4. PICK u : /\ u = UpTo(s, t) /\ u \in Seq(F)
               /\ Len(u) = (IF Len(s) < t THEN Len(s) ELSE t)
               /\ \A i \in 1..Len(u) : i \in 1..Len(s) /\ u[i] = s[i]
  BY <1>2, <1>3, UpToFacts
<1>5. PICK l \in Nat : l = Len(s) /\ DOMAIN s = 1..l /\ s \in [1..l -> F]
  BY <1>2, LenProperties
<1>6. PICK k \in Nat : k = Len(u) /\ DOMAIN u = 1..k
  BY <1>4, LenProperties
<1>7. k <= l /\ (k < l => k = t)
  <2>1. k = IF l < t THEN l ELSE t
    BY <1>4, <1>5, <1>6, Zenon
  <2>2. QED
    BY <2>1
<1>8. \A i \in 1..k : u[i] = s[i] /\ s[i] \in F
  BY <1>4, <1>5, <1>6
<1>9. results = KeptOf(u)
  BY <1>1, <1>3, <1>4
<1>10. DOMAIN results = 1..k /\ \A i \in 1..k : results[i] = KeptItem(s[i])[1]
  BY <1>6, <1>8, <1>9 DEF KeptOf
<1>11. Len(results) = k
  BY <1>9, <1>6 DEF KeptOf
<1>12. \A i \in 1..k : DocOf[results[i]] = s[i]
  BY <1>2, <1>8, <1>10, KeptItemFacts
<1>13. QED
  BY <1>2, <1>3, <1>5, <1>7, <1>8, <1>10, <1>11, <1>12

\* All that a search finds is in one of the routes.
LEMMA FoundFacts ==
    ASSUME SearchInv, Answered, NEW i \in DOMAIN results
    PROVE  \E x \in ToSet(vector) \cup ToSet(rule) : results[i] = x[1]
<1>1. CASE path = "deep"
  <2>1. PICK s \in Rankings, l, k \in Nat :
          DOMAIN results = 1..k /\ \A j \in 1..k : s[j] \in Fused /\ results[j] = KeptItem(s[j])[1]
    BY <1>1, DeepFacts DEF Answered
  <2>2. s[i] \in Fused /\ results[i] = KeptItem(s[i])[1]
    BY <2>1
  <2>3. QED
    BY <2>2, KeptItemFacts
<1>2. CASE path # "deep"
  <2>1. path \in {"rag", "chat"} /\ at = "done"
    BY <1>2 DEF SearchInv, SearchTypes, Answered
  <2>2. results = TextsOf(vector)
    BY <2>1 DEF SearchInv, Ranked
  <2>3. i \in DOMAIN vector /\ results[i] = vector[i][1]
    BY <2>2 DEF TextsOf
  <2>4. QED
    BY <2>3 DEF ToSet
<1>3. QED
  BY <1>1, <1>2

\* What was deleted before the search began comes back by the rule route alone, unless it is
\* loaded anew.
THEOREM DeletedOnlyByRuleHolds == RSpec => []DeletedOnlyByRule
<1>1. ASSUME SearchInv PROVE DeletedOnlyByRule
  <2> SUFFICES ASSUME Answered, candidates # {}, NEW d \in Found \cap gone
               PROVE  d \in ToSet(DocsOf(rule)) /\ d \notin ToSet(DocsOf(vector))
    BY DEF DeletedOnlyByRule, Validated
  <2>1. vector \in Seq(Items) /\ rule \in Seq(Items)
    BY <1>1 DEF SearchInv, SearchTypes
  <2>2. d \notin candidates
    BY <1>1 DEF SearchInv, Filtered
  <2>3. d \notin ToSet(DocsOf(vector))
    <3> SUFFICES ASSUME d \in ToSet(DocsOf(vector)) PROVE FALSE
      OBVIOUS
    <3>1. PICK n \in DOMAIN vector : DocOf[vector[n][1]] = d
      BY <2>1, DocsOfFacts
    <3>2. vector[n] \in ToSet(vector)
      BY DEF ToSet
    <3>3. QED
      BY <1>1, <2>2, <3>1, <3>2 DEF SearchInv, Routed
  <2>4. PICK i \in DOMAIN results : DocOf[results[i]] = d
    BY DEF Found, ToSet
  <2>5. PICK x \in ToSet(vector) \cup ToSet(rule) : results[i] = x[1]
    BY <1>1, FoundFacts
  <2>6. DocOf[x[1]] \in ToSet(DocsOf(vector)) \/ DocOf[x[1]] \in ToSet(DocsOf(rule))
    BY <2>1, DocsOfFacts
  <2>7. QED
    BY <2>3, <2>4, <2>5, <2>6
<1>2. QED
  BY <1>1, SearchInvariance, PTL

\* A result of another domain is a former content of a candidate, or there was no candidate;
\* and a deep search has it behind everything of the domain that it does not outweigh.
THEOREM ForeignLastHolds == RSpec => []ForeignLast
<1>1. ASSUME SearchInv PROVE ForeignLast
  <2> SUFFICES ASSUME Answered, NEW i \in DOMAIN results, Domain[results[i]] # domain
               PROVE  /\ candidates = {} \/ DocOf[results[i]] \in candidates
                      /\ path = "deep" =>
                           \A d \in Fused :
                             OfDomain(KeptItem(d)) /\ ~Outweighs(DocOf[results[i]], d) =>
                               \E j \in 1..(i - 1) : DocOf[results[j]] = d
    BY DEF ForeignLast
  <2>1. candidates = {} \/ DocOf[results[i]] \in candidates
    <3>1. PICK x \in ToSet(vector) \cup ToSet(rule) : results[i] = x[1]
      BY <1>1, FoundFacts
    <3>2. x \notin ToSet(rule)
      BY <1>1, <3>1 DEF SearchInv, Routed, OfDomain
    <3>3. QED
      BY <1>1, <3>1, <3>2 DEF SearchInv, Routed
  <2>2. ASSUME path = "deep", NEW d \in Fused, ~Outweighs(DocOf[results[i]], d)
        PROVE  \E j \in 1..(i - 1) : DocOf[results[j]] = d
    <3>1. PICK s \in Rankings, l, k \in Nat :
             /\ DOMAIN s = 1..l /\ DOMAIN results = 1..k /\ k <= l
             /\ \A j \in 1..k : s[j] \in Fused /\ DocOf[results[j]] = s[j]
      BY <1>1, <2>2, DeepFacts DEF Answered
    <3>2. PICK j \in 1..l : s[j] = d
      BY <1>1, <2>2, <3>1, RankingFacts
    <3>3. i \in 1..k /\ i \in 1..l /\ DocOf[results[i]] = s[i] /\ s[i] \in Fused
      BY <3>1
    <3>4. ~(Fine(s[i]) >= Fine(d))
      BY <1>1, <2>2, <3>3, FineFacts
    <3>5. Fine(s[i]) >= Fine(s[i])
      <4>1. PICK n \in Nat : n = RRF(s[i])
        BY <1>1, FusionFacts
      <4>2. PICK h \in Nat : h = Coarse(s[i])
        BY <1>1, <3>3, CoarseFacts
      <4>3. QED
        BY <4>1, <4>2 DEF Fine
    <3>6. i # j
      BY <3>2, <3>4, <3>5
    <3>7. ~(i < j)
      BY <1>1, <3>1, <3>2, <3>3, <3>4, RankingFacts
    <3>8. j \in 1..(i - 1) /\ j \in 1..k
      BY <3>2, <3>3, <3>6, <3>7
    <3>9. QED
      BY <3>1, <3>2, <3>8
  <2>3. QED
    BY <2>1, <2>2
<1>2. QED
  BY <1>1, SearchInvariance, PTL

\* A document the rule route recalled is left out of a deep search only for documents that
\* outweigh it.
THEOREM NotDisplacedHolds == RSpec => []NotDisplaced
<1>1. ASSUME SearchInv PROVE NotDisplaced
  <2> SUFFICES ASSUME Answered, path = "deep", NEW d \in ToSet(DocsOf(rule)), d \notin Found
               PROVE  /\ Len(results) = TopK
                      /\ \A e \in Found : Outweighs(e, d)
    BY DEF NotDisplaced
  <2>1. PICK s \in Rankings, l, k \in Nat :
           /\ DOMAIN s = 1..l /\ DOMAIN results = 1..k /\ k = Len(results)
           /\ k <= l /\ (k < l => k = TopK)
           /\ \A j \in 1..k : s[j] \in Fused /\ DocOf[results[j]] = s[j]
    BY <1>1, DeepFacts DEF Answered
  <2>2. d \in Fused
    BY DEF Fused
  <2>3. PICK j \in 1..l : s[j] = d
    BY <1>1, <2>1, <2>2, RankingFacts
  <2>4. j \notin 1..k
    BY <2>1, <2>3 DEF Found, ToSet
  <2>5. k < j /\ k < l
    BY <2>3, <2>4
  <2>6. ASSUME NEW e \in Found PROVE Outweighs(e, d)
    <3>1. PICK i \in 1..k : DocOf[results[i]] = e
      BY <2>1 DEF Found, ToSet
    <3>2. i < j /\ i \in 1..l /\ s[i] = e /\ e \in Fused
      BY <2>1, <2>5, <3>1
    <3>3. Fine(e) >= Fine(d)
      BY <1>1, <2>1, <2>3, <3>2, RankingFacts
    <3>4. QED
      BY <1>1, <2>2, <3>2, <3>3, FineFacts
  <2>7. QED
    BY <2>1, <2>5, <2>6
<1>2. QED
  BY <1>1, SearchInvariance, PTL

-----------------------------------------------------------------------------
(* The check of an order. *)

Severities == {"none", "low", "medium", "high", "critical"}
FindingTypes ==
    {"lost_order", "ip_anomaly", "dropped_order", "payment_failed", "callback_missing",
     "payment_timeout", "state_inconsistency", "field_missing", "field_invalid"}
FindingRecord == [type : FindingTypes, severity : Severities]

\* What an agent may find and still let an order pass.
Mild(fs) == \A f \in ToSet(fs) : f.severity \in {"none", "low"}

\* An order as the checks read it.
Readable(o) ==
    /\ o.payments \in Seq(PaymentRecord) /\ o.state \in OrderState
    /\ o.meta.gap \in Nat /\ o.meta.idle \in Nat

\* One finding is mild by its severity.
LEMMA MildOne ==
    \A t \in FindingTypes, v \in Severities :
                         /\ <<Finding(t, v)>> \in Seq(FindingRecord)
                         /\ Mild(<<Finding(t, v)>>) <=> v \in {"none", "low"}
<1> SUFFICES ASSUME NEW t \in FindingTypes, NEW v \in Severities
             PROVE  /\ <<Finding(t, v)>> \in Seq(FindingRecord)
                    /\ Mild(<<Finding(t, v)>>) <=> v \in {"none", "low"}
  OBVIOUS
<1>1. Finding(t, v) \in FindingRecord /\ Finding(t, v).severity = v
  BY DEF Finding, FindingRecord
<1>2. PICK f : f = Finding(t, v)
  OBVIOUS
<1>3. <<f>> \in Seq(FindingRecord) /\ DOMAIN <<f>> = {1} /\ <<f>>[1] = f
  BY <1>1, <1>2
<1>4. ToSet(<<f>>) = {f}
  BY <1>3 DEF ToSet
<1>5. QED
  BY <1>1, <1>2, <1>3, <1>4 DEF Mild

\* No finding is mild.
LEMMA MildNone == <<>> \in Seq(FindingRecord) /\ Mild(<<>>)
BY DEF Mild, ToSet

\* Findings are mild together if they are apart.
LEMMA MildJoined ==
    ASSUME NEW a \in Seq(FindingRecord), NEW b \in Seq(FindingRecord)
    PROVE  /\ a \o b \in Seq(FindingRecord)
           /\ Mild(a \o b) <=> Mild(a) /\ Mild(b)
<1>1. a \o b \in Seq(FindingRecord)
  OBVIOUS
<1>2. Range(a \o b) = Range(a) \cup Range(b)
  BY RangeConcatenation
<1>3. ToSet(a \o b) = ToSet(a) \cup ToSet(b)
  BY <1>2 DEF Range, ToSet
<1>4. QED
  BY <1>1, <1>3 DEF Mild

\* So are the findings of many payments.
LEMMA MildEach ==
    ASSUME NEW s \in Seq(Seq(FindingRecord))
    PROVE  /\ FlattenSeq(s) \in Seq(FindingRecord)
           /\ Mild(FlattenSeq(s)) <=> \A i \in DOMAIN s : Mild(s[i])
BY FlattenFacts DEF Mild

\* An order without a payment: nobody waits, and the address is not suspicious.
LEMMA LostMild ==
    ASSUME NEW o, Readable(o)
    PROVE  /\ DetectLostOrder(o) \in Seq(FindingRecord)
           /\ Mild(DetectLostOrder(o)) <=>
                (o.payments = <<>> => o.meta.idle = 0 /\ o.meta.address # "suspicious")
<1>1. CASE o.payments # <<>>
  BY <1>1, MildNone DEF DetectLostOrder
<1>2. CASE o.payments = <<>>
  <2>1. PICK v : v = IF o.meta.idle > 120 THEN "high" ELSE "medium"
    OBVIOUS
  <2>2. PICK a : /\ a = FindingIf(Neglected(o.meta.idle), "lost_order", v)
                 /\ a \in Seq(FindingRecord) /\ (Mild(a) <=> o.meta.idle = 0)
    <3>1. v \in Severities /\ v \notin {"none", "low"}
      BY <2>1 DEF Severities
    <3>2. Neglected(o.meta.idle) <=> o.meta.idle # 0
      BY DEF Neglected, Readable
    <3>3. QED
      BY <3>1, <3>2, MildOne, MildNone DEF FindingIf, FindingTypes, Severities
  <2>3. PICK b : /\ b = FindingIf(o.meta.address = "suspicious", "ip_anomaly", "medium")
                 /\ b \in Seq(FindingRecord) /\ (Mild(b) <=> o.meta.address # "suspicious")
    BY MildOne, MildNone DEF FindingIf, FindingTypes, Severities
  <2>4. DetectLostOrder(o) = a \o b
    BY <1>2, <2>1, <2>2, <2>3 DEF DetectLostOrder
  <2>5. QED
    BY <1>2, <2>2, <2>3, <2>4, MildJoined
<1>3. QED
  BY <1>1, <1>2

\* An attempt to pay that nothing is said against.
LEMMA PaymentMild ==
    ASSUME NEW o, Readable(o), NEW p \in PaymentRecord
    PROVE  /\ DiagnosePayment(o, p) \in Seq(FindingRecord)
           /\ Mild(DiagnosePayment(o, p)) <=>
                /\ p.state # "timeout"
                /\ p.state = "failed" => ~p.unknown
                /\ p.state = "success" => p.callback
                /\ p.state = "processing" => o.meta.gap <= 30
<1>1. PICK v : v = (IF p.unknown THEN "medium" ELSE "low")
  OBVIOUS
<1>2. PICK a : /\ a = FindingIf(p.state = "timeout", "dropped_order", "high")
               /\ a \in Seq(FindingRecord) /\ (Mild(a) <=> p.state # "timeout")
  BY MildOne, MildNone DEF FindingIf, FindingTypes, Severities
<1>3. PICK b : /\ b = FindingIf(p.state = "failed", "payment_failed", v)
               /\ b \in Seq(FindingRecord) /\ (Mild(b) <=> (p.state = "failed" => ~p.unknown))
  <2>1. v \in Severities /\ (v \in {"none", "low"} <=> ~p.unknown)
    BY <1>1 DEF Severities
  <2>2. QED
    BY <2>1, MildOne, MildNone DEF FindingIf, FindingTypes, Severities
<1>4. PICK c : /\ c = FindingIf(p.state = "success" /\ ~p.callback, "callback_missing", "high")
               /\ c \in Seq(FindingRecord) /\ (Mild(c) <=> (p.state = "success" => p.callback))
  BY MildOne, MildNone DEF FindingIf, FindingTypes, Severities
<1>5. PICK d : /\ d = FindingIf(p.state = "processing" /\ o.meta.gap > 30, "payment_timeout", "medium")
               /\ d \in Seq(FindingRecord) /\ (Mild(d) <=> (p.state = "processing" => o.meta.gap <= 30))
  <2>1. o.meta.gap > 30 <=> ~(o.meta.gap <= 30)
    BY DEF Readable
  <2>2. QED
    BY <2>1, MildOne, MildNone DEF FindingIf, FindingTypes, Severities
<1>6. DiagnosePayment(o, p) = a \o b \o c \o d
  BY <1>1, <1>2, <1>3, <1>4, <1>5 DEF DiagnosePayment
<1>7. a \o b \in Seq(FindingRecord) /\ (Mild(a \o b) <=> Mild(a) /\ Mild(b))
  BY <1>2, <1>3, MildJoined
<1>8. a \o b \o c \in Seq(FindingRecord) /\ (Mild(a \o b \o c) <=> Mild(a \o b) /\ Mild(c))
  BY <1>4, <1>7, MildJoined
<1>9. /\ a \o b \o c \o d \in Seq(FindingRecord)
      /\ Mild(a \o b \o c \o d) <=> Mild(a \o b \o c) /\ Mild(d)
  BY <1>5, <1>8, MildJoined
<1>10. QED
  BY <1>2, <1>3, <1>4, <1>5, <1>6, <1>7, <1>8, <1>9

\* The state of the order fits each of its payments.
LEMMA ConsistencyMild ==
    ASSUME NEW o, Readable(o)
    PROVE  /\ CheckStateConsistency(o) \in Seq(FindingRecord)
           /\ Mild(CheckStateConsistency(o)) <=>
                IF o.payments = <<>> THEN o.state \notin Sold
                ELSE \A i \in DOMAIN o.payments : IsValidPair(o.state, o.payments[i].state)
<1>1. CASE o.payments = <<>>
  BY <1>1, MildOne, MildNone DEF CheckStateConsistency, FindingIf, FindingTypes, Severities
<1>2. CASE o.payments # <<>>
  <2> DEFINE Of(i) == LET p == o.payments[i].state IN
                      FindingIf(~IsValidPair(o.state, p), "state_inconsistency",
                                IF p \in {"timeout", "failed"} THEN "high" ELSE "medium")
             fs == [i \in DOMAIN o.payments |-> Of(i)]
  <2>1. PICK N \in Nat : N = Len(o.payments) /\ DOMAIN o.payments = 1..N
    BY LenProperties DEF Readable
  <2>2. ASSUME NEW i \in 1..N
        PROVE  /\ Of(i) \in Seq(FindingRecord)
               /\ Mild(Of(i)) <=> IsValidPair(o.state, o.payments[i].state)
    <3>1. PICK v : /\ v = (IF o.payments[i].state \in {"timeout", "failed"} THEN "high" ELSE "medium")
                   /\ v \in {"high", "medium"}
      OBVIOUS
    <3>2. Of(i) = FindingIf(~IsValidPair(o.state, o.payments[i].state), "state_inconsistency", v)
      BY <3>1
    <3>3. v \in Severities /\ v \notin {"none", "low"}
      BY <3>1 DEF Severities
    <3> HIDE DEF Of
    <3>4. QED
      BY <3>2, <3>3, MildOne, MildNone DEF FindingIf, FindingTypes, Severities
  <2>3. CheckStateConsistency(o) = FlattenSeq(fs)
    BY <1>2 DEF CheckStateConsistency
  <2> HIDE DEF Of
  <2>4. fs \in Seq(Seq(FindingRecord)) /\ DOMAIN fs = 1..N /\ \A i \in 1..N : fs[i] = Of(i)
    BY <2>1, <2>2
  <2> HIDE DEF fs
  <2>5. QED
    BY <1>2, <2>1, <2>2, <2>3, <2>4, MildEach
<1>3. QED
  BY <1>1, <1>2

\* The fields are there, and the time since a payment is short.
LEMMA CrossMild ==
    ASSUME NEW o, Readable(o)
    PROVE  /\ CheckCrossField(o) \in Seq(FindingRecord)
           /\ Mild(CheckCrossField(o)) <=> Complete(o)
<1>1. PICK a : /\ a = FindingIf(o.meta.gap > 60, "callback_missing", "high")
               /\ a \in Seq(FindingRecord) /\ (Mild(a) <=> o.meta.gap <= 60)
  <2>1. o.meta.gap > 60 <=> ~(o.meta.gap <= 60)
    BY DEF Readable
  <2>2. QED
    BY <2>1, MildOne, MildNone DEF FindingIf, FindingTypes, Severities
<1>2. PICK b : /\ b = FindingIf(~o.user, "field_missing", "high")
               /\ b \in Seq(FindingRecord) /\ (Mild(b) <=> o.user)
  BY MildOne, MildNone DEF FindingIf, FindingTypes, Severities
<1>3. PICK c : /\ c = FindingIf(~o.amount, "field_invalid", "critical")
               /\ c \in Seq(FindingRecord) /\ (Mild(c) <=> o.amount)
  BY MildOne, MildNone DEF FindingIf, FindingTypes, Severities
<1>4. CheckCrossField(o) = a \o b \o c
  BY <1>1, <1>2, <1>3 DEF CheckCrossField
<1>5. a \o b \in Seq(FindingRecord) /\ (Mild(a \o b) <=> Mild(a) /\ Mild(b))
  BY <1>1, <1>2, MildJoined
<1>6. a \o b \o c \in Seq(FindingRecord) /\ (Mild(a \o b \o c) <=> Mild(a \o b) /\ Mild(c))
  BY <1>3, <1>5, MildJoined
<1>7. QED
  BY <1>1, <1>2, <1>3, <1>4, <1>5, <1>6 DEF Complete

\* The findings of an order are mild exactly if it is complete and healthy.
LEMMA FindingsMild ==
    ASSUME NEW o, Readable(o)
    PROVE  /\ FindingsOf(o) \in Seq(FindingRecord)
           /\ Mild(FindingsOf(o)) <=> Complete(o) /\ Healthy(o)
<1> DEFINE fs == [i \in DOMAIN o.payments |-> DiagnosePayment(o, o.payments[i])]
           Sound(p) == /\ p.state # "timeout"
                       /\ p.state = "failed" => ~p.unknown
                       /\ p.state = "success" => p.callback
                       /\ p.state = "processing" => o.meta.gap <= 30
<1>1. PICK N \in Nat : /\ N = Len(o.payments) /\ DOMAIN o.payments = 1..N
                       /\ \A i \in 1..N : o.payments[i] \in PaymentRecord
  <2>1. PICK ps : ps = o.payments /\ ps \in Seq(PaymentRecord)
    BY DEF Readable
  <2>2. Len(ps) \in Nat /\ DOMAIN ps = 1..Len(ps) /\ ps \in [1..Len(ps) -> PaymentRecord]
    BY <2>1, LenProperties
  <2>3. QED
    BY <2>1, <2>2
<1>2. PICK a : /\ a = DetectLostOrder(o) /\ a \in Seq(FindingRecord)
               /\ Mild(a) <=> (o.payments = <<>> => o.meta.idle = 0 /\ o.meta.address # "suspicious")
  BY LostMild
<1>3. PICK b : /\ b = FlattenSeq(fs) /\ b \in Seq(FindingRecord)
               /\ Mild(b) <=> \A i \in 1..N : Sound(o.payments[i])
  <2>1. /\ fs \in Seq(Seq(FindingRecord)) /\ DOMAIN fs = 1..N
        /\ \A i \in 1..N : Mild(fs[i]) <=> Sound(o.payments[i])
    <3> HIDE DEF Sound
    <3>1. \A i \in 1..N : /\ DiagnosePayment(o, o.payments[i]) \in Seq(FindingRecord)
                          /\ Mild(DiagnosePayment(o, o.payments[i])) <=> Sound(o.payments[i])
      BY <1>1, PaymentMild DEF Sound
    <3>2. QED
      BY <1>1, <3>1
  <2> HIDE DEF fs, Sound
  <2>2. QED
    BY <2>1, MildEach
<1>4. PICK c : /\ c = CheckStateConsistency(o) /\ c \in Seq(FindingRecord)
               /\ Mild(c) <=> IF o.payments = <<>> THEN o.state \notin Sold
                              ELSE \A i \in 1..N : IsValidPair(o.state, o.payments[i].state)
  BY <1>1, ConsistencyMild
<1>5. PICK d : d = CheckCrossField(o) /\ d \in Seq(FindingRecord) /\ (Mild(d) <=> Complete(o))
  BY CrossMild
<1>6. FindingsOf(o) = a \o b \o c \o d
  BY <1>2, <1>3, <1>4, <1>5 DEF FindingsOf
<1>7. a \o b \in Seq(FindingRecord) /\ (Mild(a \o b) <=> Mild(a) /\ Mild(b))
  BY <1>2, <1>3, MildJoined
<1>8. a \o b \o c \in Seq(FindingRecord) /\ (Mild(a \o b \o c) <=> Mild(a \o b) /\ Mild(c))
  BY <1>4, <1>7, MildJoined
<1>9. /\ a \o b \o c \o d \in Seq(FindingRecord)
      /\ Mild(a \o b \o c \o d) <=> Mild(a \o b \o c) /\ Mild(d)
  BY <1>5, <1>8, MildJoined
<1> HIDE DEF fs, Sound
<1>10. CASE o.payments = <<>>
  <2>1. N = 0
    BY <1>1, <1>10
  <2>2. Healthy(o) <=> o.state \notin Sold /\ o.meta.idle = 0 /\ o.meta.address # "suspicious"
    BY <1>10 DEF Healthy
  <2>3. \A i \in 1..N : Sound(o.payments[i])
    BY <2>1
  <2>4. QED
    BY <1>2, <1>3, <1>4, <1>5, <1>6, <1>7, <1>8, <1>9, <1>10, <2>2, <2>3
<1>11. CASE o.payments # <<>>
  <2> DEFINE Fits(p) == Sound(p) /\ IsValidPair(o.state, p.state)
  <2>1. Mild(a \o b \o c \o d) <=> Complete(o) /\ \A i \in 1..N : Fits(o.payments[i])
    BY <1>2, <1>3, <1>4, <1>5, <1>7, <1>8, <1>9, <1>11
  <2>2. o.meta.gap \in Nat /\ o.state \in OrderState
    BY DEF Readable
  <2>3. CASE o.state = "created"
    <3>1. Healthy(o) <=> \A i \in 1..N : o.payments[i].state \in
                {"pending"} \cup (IF o.meta.gap <= 30 THEN {"processing"} ELSE {})
      <4>1. Healthy(o) <=> All(o, LAMBDA p : p.state \in
                {"pending"} \cup (IF o.meta.gap <= 30 THEN {"processing"} ELSE {}))
        BY <1>11, <2>3 DEF Healthy, Sold
      <4>2. QED
        BY <1>1, <4>1 DEF All
    <3>2. ASSUME NEW p \in PaymentRecord
          PROVE  Fits(p) <=> p.state \in
                   {"pending"} \cup (IF o.meta.gap <= 30 THEN {"processing"} ELSE {})
      BY <2>2, <2>3 DEF Sound, IsValidPair, ValidPairs, Sold
    <3> HIDE DEF Fits
    <3>3. QED
      BY <1>1, <1>6, <1>9, <2>1, <3>1, <3>2
  <2>4. CASE o.state \in Sold
    <3>1. Healthy(o) <=> \A i \in 1..N : o.payments[i] = Paid
      BY <1>1, <1>11, <2>4 DEF Healthy, All, Sold
    <3>2. ASSUME NEW p \in PaymentRecord
          PROVE  Fits(p) <=> p = Paid
      <4>1. Fits(p) <=> p.state = "success" /\ p.callback
        BY <2>4 DEF Sound, IsValidPair, ValidPairs, Sold
      <4>2. QED
        BY <4>1 DEF PaymentRecord, Attempt, Paid, FailedUnknown
    <3> HIDE DEF Fits
    <3>3. QED
      BY <1>1, <1>6, <1>9, <2>1, <3>1, <3>2
  <2>5. CASE o.state \in {"cancelled", "refunded"}
    <3>1. Healthy(o) <=> \A i \in 1..N : o.payments[i].state = "refunded"
      BY <1>1, <1>11, <2>5 DEF Healthy, All, Sold
    <3>2. ASSUME NEW p \in PaymentRecord
          PROVE  Fits(p) <=> p.state = "refunded"
      BY <2>5 DEF Sound, IsValidPair, ValidPairs, Sold
    <3> HIDE DEF Fits
    <3>3. QED
      BY <1>1, <1>6, <1>9, <2>1, <3>1, <3>2
  <2>6. QED
    BY <2>2, <2>3, <2>4, <2>5 DEF OrderState, Sold
<1>12. FindingsOf(o) \in Seq(FindingRecord)
  BY <1>6, <1>9
<1>13. QED
  BY <1>10, <1>11, <1>12

\* The report passes if the findings are mild; one that stands for none is.
LEMMA PassedFacts ==
    ASSUME NEW o, Readable(o)
    PROVE  FromFindings(IF FindingsOf(o) = <<>> THEN <<Finding("normal", "none")>>
                        ELSE FindingsOf(o)).passed <=> Complete(o) /\ Healthy(o)
<1>1. PICK fs : fs = FindingsOf(o) /\ (Mild(fs) <=> Complete(o) /\ Healthy(o))
  BY FindingsMild
<1>2. CASE fs = <<>>
  <2>1. FromFindings(<<Finding("normal", "none")>>).passed
    BY DEF FromFindings, Finding
  <2>2. Mild(fs)
    BY <1>2, MildNone
  <2>3. QED
    BY <1>1, <1>2, <2>1, <2>2
<1>3. CASE fs # <<>>
  BY <1>1, <1>3 DEF FromFindings, Mild, ToSet
<1>4. QED
  BY <1>2, <1>3

-----------------------------------------------------------------------------
(* The orders. *)

\* What the attempts of the dataset are.
LEMMA AttemptFacts ==
    /\ \A s \in {"pending", "processing", "success", "failed", "timeout", "refunded"} :
         /\ Attempt(s) \in PaymentRecord
         /\ Attempt(s).state = s /\ ~Attempt(s).callback /\ ~Attempt(s).unknown
    /\ PaidUnnoticed = Attempt("success")
    /\ Paid \in PaymentRecord
    /\ FailedUnknown \in PaymentRecord /\ FailedUnknown.state = "failed" /\ FailedUnknown.unknown
BY DEF PaymentRecord, Attempt, Paid, PaidUnnoticed, FailedUnknown

\* Every order of the dataset is one the checks can read, and healthy exactly if it is
\* labelled as neither dropped nor lost.
Told(o) ==
    /\ Readable(o)
    /\ Complete(o) /\ Healthy(o) <=> o.label \notin {"dropped_order", "lost_order"}
    /\ o.label \in {"normal", "dropped_order", "lost_order", "recon_mismatch", "risk_suspicious"}

\* An order with one payment.
LEMMA OnePayment ==
    \A p \in PaymentRecord :
        /\ <<p>> \in Seq(PaymentRecord) /\ <<p>> # <<>>
        /\ DOMAIN <<p>> = {1} /\ <<p>>[1] = p
OBVIOUS

\* Each kind of order in the dataset.
LEMMA NormalTold == \A o \in NORMAL_ORDERS : Told(o)
<1> SUFFICES ASSUME NEW o \in NORMAL_ORDERS PROVE Told(o)
  OBVIOUS
<1>1. /\ o.payments = <<Paid>> /\ o.state \in Sold /\ o.label = "normal"
      /\ o.meta.gap = 0 /\ o.meta.idle = 0 /\ o.user /\ o.amount
  BY DEF NORMAL_ORDERS, MockOrder, NoMeta, Sold
<1>2. Readable(o)
  BY <1>1, AttemptFacts, OnePayment DEF Readable, Sold, OrderState
<1>3. Complete(o) /\ Healthy(o)
  BY <1>1, AttemptFacts, OnePayment DEF Complete, Healthy, All, Sold
<1>4. QED
  BY <1>1, <1>2, <1>3 DEF Told

\* The check fails the dropped orders.
LEMMA DroppedTold == \A o \in DROPPED_ORDERS : Told(o)
<1> SUFFICES ASSUME NEW o \in DROPPED_ORDERS PROVE Told(o)
  OBVIOUS
<1>1. PICK p \in PaymentRecord, g \in Nat :
         /\ o.payments = <<p>> /\ o.state = "created" /\ o.label = "dropped_order"
         /\ o.meta.gap = g /\ o.meta.idle = 0 /\ o.user /\ o.amount
         /\ p.state # "pending" /\ (p.state = "processing" => g > 30)
  <2>1. PICK p \in {Attempt("timeout"), Attempt("processing"), PaidUnnoticed, FailedUnknown},
             g \in {88, 60, 115, 235, 25} :
          o = Dropped(p, g) /\ (p = Attempt("processing") => g = 60)
    BY AttemptFacts DEF DROPPED_ORDERS
  <2>2. /\ o.payments = <<p>> /\ o.state = "created" /\ o.label = "dropped_order"
        /\ o.meta.gap = g /\ o.meta.idle = 0 /\ o.user /\ o.amount
    BY <2>1 DEF Dropped, MockOrder, NoMeta
  <2>3. p \in PaymentRecord /\ p.state # "pending" /\ (p.state = "processing" => g > 30)
    BY <2>1, AttemptFacts
  <2>4. QED
    BY <2>2, <2>3
<1>2. Readable(o)
  BY <1>1, OnePayment DEF Readable, OrderState
<1>3. ~Healthy(o)
  <2>1. Healthy(o) <=> All(o, LAMBDA q : q.state \in
                {"pending"} \cup (IF o.meta.gap <= 30 THEN {"processing"} ELSE {}))
    BY <1>1, OnePayment DEF Healthy, Sold
  <2>2. QED
    BY <1>1, <2>1, OnePayment DEF All
<1>4. QED
  BY <1>1, <1>2, <1>3 DEF Told

\* The check fails the lost orders, which have no payment.
LEMMA LostTold == \A o \in LOST_ORDERS : Told(o)
<1> SUFFICES ASSUME NEW o \in LOST_ORDERS PROVE Told(o)
  OBVIOUS
<1>1. /\ o.payments = <<>> /\ o.state \in OrderState /\ o.label = "lost_order"
      /\ o.meta.gap = 0 /\ o.meta.idle \in Nat \ {0} /\ o.user /\ o.amount
  <2> DEFINE Fits(x) == /\ x.payments = <<>> /\ x.state \in OrderState /\ x.label = "lost_order"
                        /\ x.meta.gap = 0 /\ x.meta.idle \in Nat \ {0} /\ x.user /\ x.amount
  <2>1. ASSUME NEW s \in {"created", "cancelled"}, NEW n \in Nat \ {0} PROVE Fits(Lost(s, n))
    BY DEF Lost, MockOrder, NoMeta, OrderState
  <2>2. Fits([Lost("created", 480) EXCEPT !.meta.address = "suspicious"])
    <3> DEFINE m == [gap |-> 0, idle |-> 480, address |-> "usual", amounts |-> "agree"]
               r == [label |-> "lost_order", state |-> "created", payments |-> <<>>, meta |-> m,
                     user |-> TRUE, amount |-> TRUE]
               x == [r EXCEPT !.meta.address = "suspicious"]
    <3>1. m = [NoMeta EXCEPT !.idle = 480]
      BY DEF NoMeta
    <3>2. r = Lost("created", 480)
      BY <3>1 DEF Lost, MockOrder
    <3>3. x.meta = [m EXCEPT !.address = "suspicious"]
      OBVIOUS
    <3>4. /\ x.payments = <<>> /\ x.state = "created" /\ x.label = "lost_order"
          /\ x.user /\ x.amount
      OBVIOUS
    <3>5. x.meta.gap = 0 /\ x.meta.idle = 480
      BY <3>3
    <3> HIDE DEF x
    <3>6. Fits(x)
      BY <3>4, <3>5 DEF OrderState
    <3> HIDE DEF r
    <3>7. QED
      BY <3>2, <3>6 DEF x
  <2>3. o \in {Lost("created", 30), Lost("created", 150), Lost("cancelled", 500), Lost("created", 45),
               [Lost("created", 480) EXCEPT !.meta.address = "suspicious"]}
    BY DEF LOST_ORDERS
  <2> HIDE DEF Fits
  <2>4. Fits(o)
    <3>1. /\ Fits(Lost("created", 30)) /\ Fits(Lost("created", 150))
          /\ Fits(Lost("cancelled", 500)) /\ Fits(Lost("created", 45))
      BY <2>1
    <3>2. QED
      BY <2>2, <2>3, <3>1
  <2>5. QED
    BY <2>4 DEF Fits
<1>2. Readable(o)
  BY <1>1 DEF Readable
<1>3. ~Healthy(o)
  BY <1>1 DEF Healthy
<1>4. QED
  BY <1>1, <1>2, <1>3 DEF Told

\* The check passes the orders whose amounts alone disagree with the books.
LEMMA MismatchTold == \A o \in RECONCILIATION_ORDERS : Told(o)
<1> SUFFICES ASSUME NEW o \in RECONCILIATION_ORDERS PROVE Told(o)
  OBVIOUS
<1>1. /\ o.payments \in {<<Paid>>, <<Paid, Paid>>} /\ o.state = "paid" /\ o.label = "recon_mismatch"
      /\ o.meta.gap = 0 /\ o.meta.idle = 0 /\ o.user /\ o.amount
  BY DEF RECONCILIATION_ORDERS, Mismatch, MockOrder, NoMeta
<1>2. /\ o.payments \in Seq(PaymentRecord) /\ o.payments # <<>>
      /\ \A i \in DOMAIN o.payments : o.payments[i] = Paid
  <2>1. \A p \in PaymentRecord : /\ <<p, p>> \in Seq(PaymentRecord) /\ <<p, p>> # <<>>
                                  /\ DOMAIN <<p, p>> = {1, 2} /\ <<p, p>>[1] = p /\ <<p, p>>[2] = p
    OBVIOUS
  <2>2. PICK p : p = Paid /\ p \in PaymentRecord
    BY AttemptFacts
  <2>3. CASE o.payments = <<p>>
    BY <2>2, <2>3, OnePayment
  <2>4. CASE o.payments = <<p, p>>
    BY <2>1, <2>2, <2>4
  <2>5. QED
    BY <1>1, <2>2, <2>3, <2>4
<1>3. Readable(o)
  BY <1>1, <1>2 DEF Readable, OrderState
<1>4. Complete(o) /\ Healthy(o)
  BY <1>1, <1>2 DEF Complete, Healthy, All, Sold
<1>5. QED
  BY <1>1, <1>3, <1>4 DEF Told

\* The check passes the orders that are only suspicious.
LEMMA RiskTold == \A o \in RISK_ORDERS : Told(o)
<1> SUFFICES ASSUME NEW o \in RISK_ORDERS PROVE Told(o)
  OBVIOUS
<1>1. /\ o.payments = <<Paid>> /\ o.state = "paid" /\ o.label = "risk_suspicious"
      /\ o.meta.gap = 0 /\ o.meta.idle = 0 /\ o.user /\ o.amount
  BY DEF RISK_ORDERS, Suspicious, MockOrder, NoMeta
<1>2. Readable(o)
  BY <1>1, AttemptFacts, OnePayment DEF Readable, OrderState
<1>3. Complete(o) /\ Healthy(o)
  BY <1>1, AttemptFacts, OnePayment DEF Complete, Healthy, All, Sold
<1>4. QED
  BY <1>1, <1>2, <1>3 DEF Told

\* Together they are the dataset.
LEMMA MockTold == \A o \in ALL_MOCK_ORDERS : Told(o)
BY NormalTold, DroppedTold, LostTold, MismatchTold, RiskTold DEF ALL_MOCK_ORDERS

\* The orders that are not of the dataset can be read as well.
LEMMA OthersReadable == \A o \in OtherOrders : Readable(o)
<1> SUFFICES ASSUME NEW o \in OtherOrders PROVE Readable(o)
  OBVIOUS
<1>1. PICK s \in OrderState, ps \in Seq(PaymentRecord), g \in Nat, i \in Nat,
           a \in {"usual", "suspicious"}, u \in BOOLEAN, m \in BOOLEAN :
         o = Other(s, ps, g, i, a, u, m)
  <2>1. CASE \E s \in OrderState, g \in Gaps, i \in Idles, a \in {"usual", "suspicious"},
                u, m \in BOOLEAN : o = Other(s, <<>>, g, i, a, u, m)
    <3>1. <<>> \in Seq(PaymentRecord)
      OBVIOUS
    <3>2. QED
      BY <2>1, <3>1, MinutesAssumption
  <2>2. CASE \E n \in 1..MaxPayments : \E s \in OrderState, ps \in [1..n -> PaymentRecord],
                g \in Gaps, u, m \in BOOLEAN : o = Other(s, ps, g, 0, "usual", u, m)
    <3>1. \A n \in 1..MaxPayments : [1..n -> PaymentRecord] \subseteq Seq(PaymentRecord)
      BY MinutesAssumption
    <3>2. QED
      BY <2>2, <3>1, MinutesAssumption
  <2>3. QED
    BY <2>1, <2>2 DEF OtherOrders
<1>2. /\ o.payments = ps /\ o.state = s /\ o.meta.gap = g /\ o.meta.idle = i
      /\ o.user = u /\ o.amount = m
  BY <1>1 DEF Other, MockOrder, NoMeta
<1>3. QED
  BY <1>2 DEF Readable

-----------------------------------------------------------------------------
(* Which agents an order is sent to. *)

Intents == {"payment_integrity", "risk_assessment", "reconciliation"}

\* An intent that is added takes none away.
LEMMA WithIntentFacts ==
    ASSUME NEW q \in Seq(Intents), NEW i \in Intents, NEW wanted
    PROVE  WithIntent(q, i, wanted) \in Seq(Intents) /\ ToSet(q) \subseteq ToSet(WithIntent(q, i, wanted))
<1>1. Append(q, i) \in Seq(Intents) /\ ToSet(Append(q, i)) = ToSet(q) \cup {i}
  BY AppendFacts
<1>2. QED
  BY <1>1 DEF WithIntent

\* All labels but the one for risk send the order to the integrity agent.
LEMMA SentToIntegrity ==
    ASSUME NEW o, o.label \in {"normal", "dropped_order", "lost_order", "recon_mismatch"}
    PROVE  "payment_integrity" \in ToSet(IntentsOf(o))
<1>1. PICK q : q = ANOMALY_INTENT_MAP[o.label] /\ q \in Seq(Intents) /\ "payment_integrity" \in ToSet(q)
  <2>1. ANOMALY_INTENT_MAP[o.label] \in {<<"payment_integrity">>,
                                        <<"payment_integrity", "risk_assessment">>,
                                        <<"reconciliation", "payment_integrity">>}
    BY DEF ANOMALY_INTENT_MAP
  <2>2. PICK p, r, c : p = "payment_integrity" /\ r = "risk_assessment" /\ c = "reconciliation"
                       /\ p \in Intents /\ r \in Intents /\ c \in Intents
    BY DEF Intents
  <2>3. <<p>> \in Seq(Intents) /\ DOMAIN <<p>> = {1} /\ <<p>>[1] = p
    BY <2>2
  <2>4. <<p, r>> \in Seq(Intents) /\ DOMAIN <<p, r>> = {1, 2} /\ <<p, r>>[1] = p
    BY <2>2
  <2>5. <<c, p>> \in Seq(Intents) /\ DOMAIN <<c, p>> = {1, 2} /\ <<c, p>>[2] = p
    BY <2>2
  <2>6. p \in ToSet(<<p>>) /\ p \in ToSet(<<p, r>>) /\ p \in ToSet(<<c, p>>)
    BY <2>3, <2>4, <2>5 DEF ToSet
  <2>7. QED
    BY <2>1, <2>2, <2>3, <2>4, <2>5, <2>6
<1>2. PICK r : /\ r = WithIntent(q, "risk_assessment", o.meta.address # "usual")
               /\ r \in Seq(Intents) /\ ToSet(q) \subseteq ToSet(r)
  BY <1>1, WithIntentFacts DEF Intents
<1>3. PICK c : /\ c = WithIntent(r, "reconciliation", o.meta.amounts # "agree")
               /\ ToSet(r) \subseteq ToSet(c)
  BY <1>2, WithIntentFacts DEF Intents
<1>4. QED
  BY <1>1, <1>2, <1>3 DEF IntentsOf

-----------------------------------------------------------------------------
(* The inductive invariant: what was found is what the order asks for. *)

Reported(o) ==
    FromFindings(IF FindingsOf(o) = <<>> THEN <<Finding("normal", "none")>> ELSE FindingsOf(o))

OrderInv ==
    /\ order \in ALL_MOCK_ORDERS \cup OtherOrders
    /\ intents # Unclassified => intents = IntentsOf(order)
    /\ Checked => report = Reported(order)

\* The report is what the findings of this order make it, and the intents are its own.
THEOREM OrderInvariance == PSpec => []OrderInv
<1>1. PInit => OrderInv
  BY DEF PInit, OrderInv, Checked
<1>2. OrderInv /\ [PNext]_pvars => OrderInv'
  BY DEF OrderInv, Checked, PNext, Classify, Check, Reported, pvars
<1>3. QED
  BY <1>1, <1>2, PTL DEF PSpec

\* A report passes exactly the complete and healthy orders.
LEMMA ReportFacts ==
    ASSUME OrderInv, Checked
    PROVE  report.passed <=> Complete(order) /\ Healthy(order)
<1>1. Readable(order)
  BY MockTold, OthersReadable DEF OrderInv, Told
<1>2. QED
  BY <1>1, PassedFacts DEF OrderInv, Reported

\* What passes is what is healthy by its state, for every order.
THEOREM PassedIffHealthyHolds == PSpec => []PassedIffHealthy
<1>1. OrderInv => PassedIffHealthy
  BY ReportFacts DEF PassedIffHealthy
<1>2. QED
  BY <1>1, OrderInvariance, PTL

\* Of the dataset the agent fails the dropped and the lost orders, and each of them is sent to it.
THEOREM LabelsAgreeHolds == PSpec => []LabelsAgree
<1>1. ASSUME OrderInv PROVE LabelsAgree
  <2> SUFFICES ASSUME Checked, order \in ALL_MOCK_ORDERS
               PROVE  /\ ~report.passed <=> order.label \in {"dropped_order", "lost_order"}
                      /\ ~report.passed /\ intents # Unclassified => "payment_integrity" \in Dispatched
    BY DEF LabelsAgree
  <2>1. ~report.passed <=> order.label \in {"dropped_order", "lost_order"}
    BY <1>1, ReportFacts, MockTold DEF Told
  <2>2. ASSUME ~report.passed, intents # Unclassified PROVE "payment_integrity" \in Dispatched
    <3>1. "payment_integrity" \in ToSet(intents)
      BY <1>1, <2>1, <2>2, SentToIntegrity DEF OrderInv
    <3>2. INTENT_AGENT_MAP["payment_integrity"] = "payment_integrity"
      BY DEF INTENT_AGENT_MAP
    <3>3. QED
      BY <3>1, <3>2 DEF Dispatched, ToSet
  <2>3. QED
    BY <2>1, <2>2
<1>2. QED
  BY <1>1, OrderInvariance, PTL
=============================================================================
