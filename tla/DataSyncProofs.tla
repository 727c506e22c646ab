--------------------------- MODULE DataSyncProofs ---------------------------
(* Proofs about DataSync for every number of calls, retries and documents.    *)
(* Search stays aligned because add() extends metadata and index together or  *)
(* leaves an entry behind that is not of the index's dimension, and delete()  *)
(* rebuilds from what is left; the argument needs that a new call's number is *)
(* in no entry yet.  No record is forgotten because a failed one is in the    *)
(* part of the log that the loop has still to read.                           *)
EXTENDS DataSync, TLAPS, SequenceTheorems, FiniteSetTheorems

\* The numbers in the stores and in the log are those of calls made.
Known ==
    /\ \A p \in DOMAIN meta : meta[p] <= Len(rec)
    /\ \A p \in DOMAIN log : log[p] <= Len(rec)
    /\ \A p \in DOMAIN remaining : remaining[p] <= Len(rec)

\* A failed record with retries left is where the loop, or the next one, will find it.
Reachable ==
    \A n \in Calls : rec[n].status = "failed" /\ rec[n].retries < MaxRetries =>
        \E p \in DOMAIN log : log[p] = n /\ (pc = "retry" => i <= p)

IInv == TypeOK /\ Known /\ SearchAligned /\ Reachable

-----------------------------------------------------------------------------
\* What deleting one element of a sequence leaves.
LEMMA RemoveAtFacts ==
    ASSUME NEW S, NEW s \in Seq(S), NEW k \in 1..Len(s)
    PROVE  /\ RemoveAt(s, k) \in Seq(S)
           /\ Len(RemoveAt(s, k)) = Len(s) - 1
           /\ \A p \in 1..(Len(s) - 1) : RemoveAt(s, k)[p] = IF p < k THEN s[p] ELSE s[p + 1]
<1>0. Len(s) \in Nat /\ \A p \in 1..Len(s) : s[p] \in S
  BY LenProperties, ElementOfSeq
<1> DEFINE a == SubSeq(s, 1, k - 1)
           b == SubSeq(s, k + 1, Len(s))
<1>1. /\ a \in Seq(S)
      /\ Len(a) = k - 1
      /\ \A p \in 1..(k - 1) : a[p] = s[p]
  <2>1. 1 \in Int /\ k - 1 \in Int /\ \A p \in 1..(k - 1) : s[p] \in S BY <1>0
  <2>2. /\ SubSeq(s, 1, k - 1) \in Seq(S)
        /\ Len(SubSeq(s, 1, k - 1)) = IF 1 <= k - 1 THEN (k - 1) - 1 + 1 ELSE 0
        /\ \A p \in 1..((k - 1) - 1 + 1) : SubSeq(s, 1, k - 1)[p] = s[1 + p - 1]
    BY <2>1, SubSeqProperties
  <2> QED BY <1>0, <2>2
<1>2. /\ b \in Seq(S)
      /\ Len(b) = Len(s) - k
      /\ \A p \in 1..(Len(s) - k) : b[p] = s[k + p]
  <2>1. k + 1 \in Int /\ Len(s) \in Int /\ \A p \in (k + 1)..Len(s) : s[p] \in S BY <1>0
  <2>2. /\ SubSeq(s, k + 1, Len(s)) \in Seq(S)
        /\ Len(SubSeq(s, k + 1, Len(s)))
             = IF k + 1 <= Len(s) THEN Len(s) - (k + 1) + 1 ELSE 0
        /\ \A p \in 1..(Len(s) - (k + 1) + 1) :
             SubSeq(s, k + 1, Len(s))[p] = s[(k + 1) + p - 1]
    BY <2>1, SubSeqProperties
  <2> QED BY <1>0, <2>2
<1>3. RemoveAt(s, k) = a \o b BY DEF RemoveAt
<1> HIDE DEF a, b
<1>4. /\ a \o b \in Seq(S)
      /\ Len(a \o b) = Len(a) + Len(b)
      /\ \A p \in 1..(Len(a) + Len(b)) : (a \o b)[p] = IF p <= Len(a) THEN a[p] ELSE b[p - Len(a)]
  BY <1>1, <1>2, ConcatProperties
<1> QED BY <1>0, <1>1, <1>2, <1>3, <1>4

\* What one execution does to the stores, whichever branch it takes.
LEMMA ExecuteTypes ==
    ASSUME TypeOK, NEW r \in Records, NEW n \in 1..MaxCalls, NEW up, Execute(n, r, up)
    PROVE  /\ row' \in [Docs -> 0..MaxCalls \cup {NoRow}]
           /\ meta' \in Seq(0..MaxCalls)
           /\ index' \in Seq(0..MaxCalls)
           /\ log' \in Seq(1..MaxCalls)
<1>0. MaxCalls \in Nat BY BoundAssumption
<1>1. row' \in [Docs -> 0..MaxCalls \cup {NoRow}]
  <2>1. r.doc \in Docs /\ RowAfter(n, r) \in 0..MaxCalls \cup {NoRow}
    BY <1>0 DEF Records, RowAfter
  <2> QED BY <2>1 DEF TypeOK, Execute, stores
<1>2. Removes(r) => Left(r) \in Seq(0..MaxCalls)
  BY RemoveAtFacts DEF TypeOK, Removes, Left
<1>3. meta' \in Seq(0..MaxCalls) /\ index' \in Seq(0..MaxCalls)
  <2>1. CASE UNCHANGED stores BY <2>1 DEF TypeOK, stores
  <2>2. CASE SyncVector(n, r)
    <3>1. n \in 0..MaxCalls BY <1>0
    <3>2. <<>> \in Seq(0..MaxCalls) OBVIOUS
    <3>3. Append(meta, n) \in Seq(0..MaxCalls) /\ Append(index, n) \in Seq(0..MaxCalls)
      BY <3>1 DEF TypeOK
    <3>4. meta \in Seq(0..MaxCalls) /\ index \in Seq(0..MaxCalls) BY DEF TypeOK
    <3> QED BY <1>2, <2>2, <3>2, <3>3, <3>4 DEF SyncVector, IndexAdd, Rebuilt
  <2> QED BY <2>1, <2>2 DEF Execute
<1>4. log' \in Seq(1..MaxCalls)
  <2>1. log' = log \/ log' = Append(log, n) BY DEF Execute, Logged
  <2>2. log \in Seq(1..MaxCalls) BY DEF TypeOK
  <2>3. Append(log, n) \in Seq(1..MaxCalls) BY <2>2
  <2> QED BY <2>1, <2>2, <2>3
<1> QED BY <1>1, <1>3, <1>4

\* The entries of the metadata after an execution are old ones or the call's own.
LEMMA ExecuteEntries ==
    ASSUME TypeOK, NEW r \in Records, NEW n \in 1..MaxCalls, NEW up, Execute(n, r, up),
           NEW p \in DOMAIN meta'
    PROVE  meta'[p] = n \/ \E q \in DOMAIN meta : meta'[p] = meta[q]
<1>0. meta \in Seq(0..MaxCalls) BY DEF TypeOK
<1>1. CASE UNCHANGED stores BY <1>1 DEF stores
<1>2. CASE SyncVector(n, r)
  <2>1. CASE meta' = Append(meta, n) BY <1>0, <2>1
  <2>2. CASE Removes(r) /\ meta' = Left(r)
    <3>1. r.pos \in 1..Len(meta) BY <1>0, <2>2 DEF Removes
    <3>2. /\ meta' \in Seq(0..MaxCalls)
          /\ Len(meta') = Len(meta) - 1
          /\ \A q \in 1..(Len(meta) - 1) : meta'[q] = IF q < r.pos THEN meta[q] ELSE meta[q + 1]
      BY <1>0, <2>2, <3>1, RemoveAtFacts DEF Left
    <3>3. p \in 1..(Len(meta) - 1) /\ Len(meta) \in Nat /\ DOMAIN meta = 1..Len(meta)
      BY <1>0, <3>2, LenProperties
    <3>4. p \in DOMAIN meta /\ p + 1 \in DOMAIN meta BY <3>3
    <3>5. meta'[p] = meta[p] \/ meta'[p] = meta[p + 1] BY <3>2, <3>3
    <3> QED BY <3>4, <3>5
  <2>3. CASE UNCHANGED meta BY <2>3
  <2> QED BY <1>2, <2>1, <2>2, <2>3 DEF SyncVector
<1> QED BY <1>1, <1>2 DEF Execute

\* An execution keeps search aligned.  Good(m) stands for "rebuildable" as judged by the
\* records after the step, which agree on the dimension with those before it.
LEMMA ExecuteAligned ==
    ASSUME TypeOK, SearchAligned, NEW r \in Records, NEW n \in 1..MaxCalls, NEW up,
           Execute(n, r, up), rec' \in Seq(Records), n \in DOMAIN rec', rec'[n].emb = r.emb,
           DOMAIN rec \subseteq DOMAIN rec',
           \A m \in DOMAIN rec : rec'[m].emb = rec[m].emb,
           \A p \in DOMAIN meta : meta[p] \in DOMAIN rec' => meta[p] \in DOMAIN rec
    PROVE  SearchAligned'
<1>0. meta \in Seq(0..MaxCalls) /\ index \in Seq(0..MaxCalls) BY DEF TypeOK
<1>1. Rebuildable(meta)' /\ UNCHANGED meta => Rebuildable(meta)
  BY DEF Rebuildable, Calls
<1>2. CASE UNCHANGED stores BY <1>1, <1>2 DEF stores, SearchAligned
<1>3. CASE SyncVector(n, r)
  <2>1. CASE Adds(r) /\ meta' = Append(meta, n) /\ index' = IndexAdd(n, r)
    <3>0. n \in 0..MaxCalls /\ Len(meta) \in Nat /\ Len(index) \in Nat
      BY <1>0, BoundAssumption
    <3>1. /\ Len(meta') = Len(meta) + 1
          /\ \A p \in 1..Len(meta) : meta'[p] = meta[p]
          /\ meta'[Len(meta) + 1] = n
          /\ DOMAIN meta = 1..Len(meta) /\ DOMAIN meta' = 1..(Len(meta) + 1)
      BY <1>0, <2>1, <3>0, AppendProperties, LenProperties
    <3>2. Len(index') <= Len(meta')
      BY <1>0, <2>1, <3>0, <3>1 DEF IndexAdd, SearchAligned
    <3>3. ASSUME Rebuildable(meta)' PROVE index' = meta'
      <4>1. \A p \in 1..(Len(meta) + 1) : meta'[p] \in DOMAIN rec' /\ rec'[meta'[p]].emb = "good"
        BY <3>1, <3>3 DEF Rebuildable, Calls
      <4>2. Rebuildable(meta)
        BY <3>0, <3>1, <4>1 DEF Rebuildable, Calls
      <4>3. r.emb = "good" BY <3>0, <3>1, <4>1
      <4> QED BY <2>1, <4>2, <4>3 DEF IndexAdd, SearchAligned
    <3> QED BY <3>2, <3>3 DEF SearchAligned
  <2>2. CASE Removes(r) /\ meta' = Left(r) /\ index' = Rebuilt(Left(r))
    <3>1. r.pos \in 1..Len(meta) BY <1>0, <2>2 DEF Removes
    <3>2. /\ meta' \in Seq(0..MaxCalls)
          /\ Len(meta') = Len(meta) - 1
          /\ \A q \in 1..(Len(meta) - 1) : meta'[q] = IF q < r.pos THEN meta[q] ELSE meta[q + 1]
      BY <1>0, <2>2, <3>1, RemoveAtFacts DEF Left
    <3>3. \A q \in DOMAIN meta' : \E p \in DOMAIN meta : meta'[q] = meta[p]
      <4> SUFFICES ASSUME NEW q \in DOMAIN meta'
                   PROVE  \E p \in DOMAIN meta : meta'[q] = meta[p]
        OBVIOUS
      <4>1. q \in 1..(Len(meta) - 1) /\ Len(meta) \in Nat /\ DOMAIN meta = 1..Len(meta)
        BY <1>0, <3>2, LenProperties
      <4>2. q \in DOMAIN meta /\ q + 1 \in DOMAIN meta BY <4>1
      <4>3. meta'[q] = meta[q] \/ meta'[q] = meta[q + 1] BY <3>2, <4>1
      <4> QED BY <4>2, <4>3
    <3>4. Rebuildable(meta)' => Rebuildable(Left(r))
      BY <2>2, <3>3 DEF Rebuildable, Calls
    <3>5. Len(<<>>) = 0 /\ Len(meta') \in Nat BY <3>2
    <3> QED BY <2>2, <3>4, <3>5 DEF Rebuilt, SearchAligned
  <2>3. CASE UNCHANGED <<meta, index>> BY <1>1, <2>3 DEF SearchAligned
  <2> QED BY <1>3, <2>1, <2>2, <2>3 DEF SyncVector
<1> QED BY <1>2, <1>3 DEF Execute

\* The entries of the log after an execution: the old ones, and the record's own at the
\* end if it failed.
LEMMA ExecuteLog ==
    ASSUME TypeOK, NEW r \in Records, NEW n \in 1..MaxCalls, NEW up, Execute(n, r, up)
    PROVE  /\ \A p \in DOMAIN log : p \in DOMAIN log' /\ log'[p] = log[p]
           /\ \A p \in DOMAIN log' : log'[p] = n \/ (p \in DOMAIN log /\ log'[p] = log[p])
           /\ Status(r, up) = "failed" =>
                /\ Len(log) + 1 \in DOMAIN log'
                /\ log'[Len(log) + 1] = n
<1>1. log \in Seq(1..MaxCalls) /\ Len(log) \in Nat /\ DOMAIN log = 1..Len(log)
  BY LenProperties DEF TypeOK
<1>2. log' = IF Status(r, up) = "failed" THEN Append(log, n) ELSE log
  BY DEF Execute, Logged
<1>3. CASE Status(r, up) = "failed"
  <2>1. /\ DOMAIN log' = 1..(Len(log) + 1)
        /\ \A p \in 1..Len(log) : log'[p] = log[p]
        /\ log'[Len(log) + 1] = n
    BY <1>1, <1>2, <1>3, AppendProperties, LenProperties
  <2>2. \A p \in 1..(Len(log) + 1) : p \in 1..Len(log) \/ p = Len(log) + 1 BY <1>1
  <2>3. Len(log) + 1 \in 1..(Len(log) + 1) /\ 1..Len(log) \subseteq 1..(Len(log) + 1) BY <1>1
  <2> QED BY <1>1, <2>1, <2>2, <2>3
<1>4. CASE Status(r, up) # "failed" BY <1>2, <1>4
<1> QED BY <1>3, <1>4

\* A new call keeps the invariant.
LEMMA CallStep ==
    ASSUME IInv, NEW op \in {"put", "mark", "delete"}, NEW d \in Docs, NEW e \in Embeddings,
           NEW p \in Nat, Call(op, d, e, p)
    PROVE  IInv'
<1> USE BoundAssumption
<1> DEFINE r == [op |-> op, doc |-> d, emb |-> e, pos |-> p, retries |-> 0, status |-> "failed"]
           n == Len(rec) + 1
<1>1. PICK up : /\ Execute(n, r, up)
                /\ rec' = Append(rec, [r EXCEPT !.status = Status(r, up)])
  BY DEF Call
<1>2. rec \in Seq(Records) /\ Len(rec) \in Nat /\ DOMAIN rec = 1..Len(rec) /\ TypeOK
  BY LenProperties DEF IInv, TypeOK
<1>3. n \in 1..MaxCalls /\ n <= MaxCalls BY <1>2 DEF Call
<1>4. r \in Records BY DEF Records
<1>5. [r EXCEPT !.status = Status(r, up)] \in Records BY DEF Records, Status
<1>6. /\ rec' \in Seq(Records)
      /\ Len(rec') = n /\ DOMAIN rec' = 1..n
      /\ \A m \in 1..Len(rec) : rec'[m] = rec[m]
      /\ rec'[n] = [r EXCEPT !.status = Status(r, up)]
  BY <1>1, <1>2, <1>5, AppendProperties, LenProperties
<1>7. rec'[n].emb = r.emb /\ rec'[n].status = Status(r, up) BY <1>6
<1>8. UNCHANGED retry /\ pc = "idle" BY DEF Call
<1> HIDE DEF r
<1>9. TypeOK'
  <2>1. /\ row' \in [Docs -> 0..MaxCalls \cup {NoRow}]
        /\ meta' \in Seq(0..MaxCalls)
        /\ index' \in Seq(0..MaxCalls)
        /\ log' \in Seq(1..MaxCalls)
    BY <1>1, <1>2, <1>3, <1>4, ExecuteTypes
  <2> QED BY <1>2, <1>3, <1>6, <1>8, <2>1 DEF TypeOK, NoRow, retry
<1>10. Known'
  <2>1. ASSUME NEW q \in DOMAIN meta' PROVE meta'[q] <= Len(rec')
    <3>1. meta'[q] = n \/ \E x \in DOMAIN meta : meta'[q] = meta[x]
      BY <1>1, <1>2, <1>3, <1>4, ExecuteEntries
    <3>2. \A x \in DOMAIN meta : meta[x] \in 0..MaxCalls /\ meta[x] <= Len(rec)
      BY <1>2, ElementOfSeq DEF IInv, Known, TypeOK
    <3> QED BY <1>2, <1>6, <3>1, <3>2
  <2>2. ASSUME NEW q \in DOMAIN log' PROVE log'[q] <= Len(rec')
    <3>1. log'[q] = n \/ (q \in DOMAIN log /\ log'[q] = log[q])
      BY <1>1, <1>2, <1>3, <1>4, ExecuteLog
    <3>2. \A x \in DOMAIN log : log[x] \in 1..MaxCalls /\ log[x] <= Len(rec)
      BY <1>2, ElementOfSeq DEF IInv, Known, TypeOK
    <3> QED BY <1>2, <1>6, <3>1, <3>2
  <2>3. ASSUME NEW q \in DOMAIN remaining' PROVE remaining'[q] <= Len(rec')
    <3>1. remaining' = remaining BY <1>8 DEF retry
    <3>2. \A x \in DOMAIN remaining : remaining[x] \in 1..MaxCalls /\ remaining[x] <= Len(rec)
      BY <1>2, ElementOfSeq DEF IInv, Known, TypeOK
    <3> QED BY <1>2, <1>6, <3>1, <3>2
  <2> QED BY <2>1, <2>2, <2>3 DEF Known
<1>11. SearchAligned'
  <2>1. \A q \in DOMAIN meta : meta[q] \in DOMAIN rec' => meta[q] \in DOMAIN rec
    <3>1. \A q \in DOMAIN meta : meta[q] <= Len(rec) BY DEF IInv, Known
    <3> QED BY <1>2, <1>6, <3>1
  <2>2. DOMAIN rec \subseteq DOMAIN rec' /\ n \in DOMAIN rec' BY <1>2, <1>6
  <2>3. \A m \in DOMAIN rec : rec'[m].emb = rec[m].emb BY <1>2, <1>6
  <2>4. SearchAligned BY DEF IInv
  <2> HIDE DEF n
  <2> QED BY <1>1, <1>2, <1>3, <1>4, <1>6, <1>7, <2>1, <2>2, <2>3, <2>4, ExecuteAligned
<1>12. Reachable'
  <2> SUFFICES ASSUME NEW m \in DOMAIN rec', rec'[m].status = "failed",
                      rec'[m].retries < MaxRetries
               PROVE  \E q \in DOMAIN log' : log'[q] = m
    BY <1>8 DEF Reachable, Calls, retry
  <2>1. CASE m = n
    <3>1. Status(r, up) = "failed" BY <1>7, <2>1
    <3> QED BY <1>1, <1>2, <1>3, <1>4, <2>1, <3>1, ExecuteLog
  <2>2. CASE m # n
    <3>1. m \in DOMAIN rec /\ rec'[m] = rec[m] BY <1>2, <1>6, <2>2
    <3>2. PICK q \in DOMAIN log : log[q] = m BY <3>1 DEF IInv, Reachable, Calls
    <3> QED BY <1>1, <1>2, <1>3, <1>4, <3>2, ExecuteLog
  <2> QED BY <2>1, <2>2
<1> QED BY <1>9, <1>10, <1>11, <1>12 DEF IInv

\* A record of the list has the fields of its type.
LEMMA RecordFields ==
    ASSUME TypeOK, NEW m \in DOMAIN rec
    PROVE  rec[m] \in Records /\ rec[m].retries \in Nat /\ rec[m].retries <= MaxRetries
<1>1. rec \in Seq(Records) BY DEF TypeOK
<1>2. m \in 1..Len(rec) BY <1>1, LenProperties
<1>3. rec[m] \in Records BY <1>1, <1>2, ElementOfSeq
<1>4. rec[m].retries \in 0..MaxRetries BY <1>3 DEF Records
<1> QED BY <1>3, <1>4, BoundAssumption

\* Changing the count and the status of a record leaves it a record.
LEMMA RecordExcept ==
    ASSUME NEW r \in Records, NEW k \in 0..MaxRetries, NEW s \in {"synced", "failed"}
    PROVE  /\ [r EXCEPT !.retries = k, !.status = s] \in Records
           /\ [r EXCEPT !.retries = k, !.status = s].emb = r.emb
           /\ [r EXCEPT !.retries = k, !.status = s].status = s
BY DEF Records

\* Running a record of the log again keeps the invariant.
LEMMA RetryOneStep ==
    ASSUME IInv, RetryOne
    PROVE  IInv'
<1> USE BoundAssumption
<1> DEFINE n == log[i]
<1>1. PICK up : /\ Execute(n, rec[n], up)
                /\ rec' = [rec EXCEPT ![n].retries = Counted(n),
                                       ![n].status = Status(rec[n], up)]
                /\ remaining' = IF Status(rec[n], up) = "failed" THEN Append(remaining, n)
                                ELSE remaining
  BY DEF RetryOne
<1>2. /\ TypeOK /\ pc = "retry" /\ pc' = "retry" /\ i' = i + 1 /\ i <= Len(log)
      /\ i \in Nat \ {0} /\ Len(log) \in Nat /\ DOMAIN log = 1..Len(log)
      /\ rec \in Seq(Records) /\ Len(rec) \in Nat /\ DOMAIN rec = 1..Len(rec)
      /\ remaining \in Seq(1..MaxCalls)
  BY LenProperties DEF IInv, TypeOK, RetryOne
<1>3. n \in 1..MaxCalls /\ n \in DOMAIN rec
  <2>1. i \in DOMAIN log BY <1>2
  <2>2. n \in 1..MaxCalls BY <1>2, <2>1, ElementOfSeq DEF TypeOK
  <2>3. n <= Len(rec) BY <2>1 DEF IInv, Known
  <2> QED BY <1>2, <2>2, <2>3
<1>4. rec[n] \in Records
  BY <1>2, <1>3, RecordFields
<1> DEFINE new == [rec[n] EXCEPT !.retries = Counted(n), !.status = Status(rec[n], up)]
<1>5. /\ new \in Records
      /\ new.emb = rec[n].emb
      /\ new.status = Status(rec[n], up)
  <2>1. ~(rec[n].retries >= MaxRetries) BY DEF RetryOne, Spent
  <2>2. rec[n].retries \in Nat /\ rec[n].retries <= MaxRetries BY <1>2, <1>3, RecordFields
  <2>3. Counted(n) \in 0..MaxRetries BY <2>1, <2>2 DEF Counted
  <2>4. Status(rec[n], up) \in {"synced", "failed"} BY DEF Status
  <2>5. \A k \in 0..MaxRetries, s \in {"synced", "failed"} :
          /\ [rec[n] EXCEPT !.retries = k, !.status = s] \in Records
          /\ [rec[n] EXCEPT !.retries = k, !.status = s].emb = rec[n].emb
          /\ [rec[n] EXCEPT !.retries = k, !.status = s].status = s
    BY <1>4, RecordExcept
  <2> QED BY <2>3, <2>4, <2>5, Zenon DEF new
<1>6. rec' = [rec EXCEPT ![n] = new] BY <1>1, <1>2, <1>3
<1> HIDE DEF new
<1>7. /\ rec' \in Seq(Records)
      /\ Len(rec') = Len(rec) /\ DOMAIN rec' = 1..Len(rec)
      /\ rec'[n] = new
      /\ \A m \in 1..Len(rec) : m # n => rec'[m] = rec[m]
  <2>1. n \in 1..Len(rec) BY <1>2, <1>3
  <2> HIDE DEF n
  <2>2. [rec EXCEPT ![n] = new] \in Seq(Records) /\ Len([rec EXCEPT ![n] = new]) = Len(rec)
    BY <1>2, <1>5, <2>1, ExceptSeq
  <2>3. DOMAIN rec' = 1..Len(rec) BY <1>2, <1>6
  <2>4. rec'[n] = new /\ \A m \in 1..Len(rec) : m # n => rec'[m] = rec[m]
    BY <1>2, <1>6, <2>1
  <2> QED BY <1>6, <2>2, <2>3, <2>4
<1>8. rec'[n].emb = rec[n].emb /\ rec'[n].status = Status(rec[n], up)
  BY <1>5, <1>7
<1> HIDE DEF n
<1>9. TypeOK'
  <2>1. /\ row' \in [Docs -> 0..MaxCalls \cup {NoRow}]
        /\ meta' \in Seq(0..MaxCalls)
        /\ index' \in Seq(0..MaxCalls)
        /\ log' \in Seq(1..MaxCalls)
    BY <1>1, <1>2, <1>3, <1>4, ExecuteTypes
  <2>2. remaining' \in Seq(1..MaxCalls)
    <3>1. Append(remaining, n) \in Seq(1..MaxCalls) BY <1>2, <1>3
    <3> QED BY <1>1, <1>2, <3>1
  <2>3. Len(rec) <= MaxCalls BY <1>2 DEF TypeOK
  <2> QED BY <1>2, <1>7, <2>1, <2>2, <2>3 DEF TypeOK, NoRow
<1>10. Known'
  <2>0. n <= Len(rec) /\ n \in Nat BY <1>2, <1>3
  <2>1. ASSUME NEW q \in DOMAIN meta' PROVE meta'[q] <= Len(rec')
    <3>1. meta'[q] = n \/ \E x \in DOMAIN meta : meta'[q] = meta[x]
      BY <1>1, <1>2, <1>3, <1>4, ExecuteEntries
    <3>2. \A x \in DOMAIN meta : meta[x] <= Len(rec) BY DEF IInv, Known
    <3> QED BY <1>7, <2>0, <3>1, <3>2
  <2>2. ASSUME NEW q \in DOMAIN log' PROVE log'[q] <= Len(rec')
    <3>1. log'[q] = n \/ (q \in DOMAIN log /\ log'[q] = log[q])
      BY <1>1, <1>2, <1>3, <1>4, ExecuteLog
    <3>2. \A x \in DOMAIN log : log[x] <= Len(rec) BY DEF IInv, Known
    <3> QED BY <1>7, <2>0, <3>1, <3>2
  <2>3. ASSUME NEW q \in DOMAIN remaining' PROVE remaining'[q] <= Len(rec')
    <3>1. \A x \in DOMAIN remaining : remaining[x] <= Len(rec) BY DEF IInv, Known
    <3>2. CASE remaining' = remaining BY <1>7, <3>1, <3>2
    <3>3. CASE remaining' = Append(remaining, n)
      <4>1. Len(remaining) \in Nat /\ DOMAIN remaining = 1..Len(remaining)
        BY <1>2, LenProperties
      <4>2. /\ DOMAIN remaining' = 1..(Len(remaining) + 1)
            /\ \A x \in 1..Len(remaining) : remaining'[x] = remaining[x]
            /\ remaining'[Len(remaining) + 1] = n
        BY <1>2, <1>3, <3>3, AppendProperties, LenProperties
      <4>3. q \in 1..Len(remaining) \/ q = Len(remaining) + 1 BY <4>1, <4>2
      <4> QED BY <1>7, <2>0, <3>1, <4>1, <4>2, <4>3
    <3> QED BY <1>1, <3>2, <3>3
  <2> QED BY <2>1, <2>2, <2>3 DEF Known
<1>11. SearchAligned'
  <2>1. DOMAIN rec' = DOMAIN rec BY <1>2, <1>7
  <2>2. \A m \in DOMAIN rec : rec'[m].emb = rec[m].emb BY <1>2, <1>7, <1>8
  <2>3. SearchAligned BY DEF IInv
  <2> QED BY <1>1, <1>2, <1>3, <1>4, <1>7, <1>8, <2>1, <2>2, <2>3, ExecuteAligned
<1>12. Reachable'
  <2> SUFFICES ASSUME NEW m \in DOMAIN rec', rec'[m].status = "failed",
                      rec'[m].retries < MaxRetries
               PROVE  \E q \in DOMAIN log' : log'[q] = m /\ i + 1 <= q
    BY <1>2 DEF Reachable, Calls
  <2>1. CASE m = n
    <3>1. Status(rec[n], up) = "failed" BY <1>8, <2>1
    <3>2. Len(log) + 1 \in DOMAIN log' /\ log'[Len(log) + 1] = n
      BY <1>1, <1>2, <1>3, <1>4, <3>1, ExecuteLog
    <3> QED BY <1>2, <2>1, <3>2
  <2>2. CASE m # n
    <3>1. m \in DOMAIN rec /\ rec'[m] = rec[m] BY <1>2, <1>7, <2>2
    <3>2. PICK q \in DOMAIN log : log[q] = m /\ i <= q
      BY <1>2, <3>1 DEF IInv, Reachable, Calls
    <3>3. i + 1 <= q BY <1>2, <2>2, <3>2 DEF n
    <3> QED BY <1>1, <1>2, <1>3, <1>4, <3>2, <3>3, ExecuteLog
  <2> QED BY <2>1, <2>2
<1> QED BY <1>9, <1>10, <1>11, <1>12 DEF IInv

\* Starting the loop, passing over a spent record and ending the loop change no store.
LEMMA LoopStep ==
    ASSUME IInv, RetryFailed \/ GiveUp \/ RetryEnd
    PROVE  IInv'
<1>1. UNCHANGED <<rec, stores>> BY DEF RetryFailed, GiveUp, RetryEnd
<1>2. SearchAligned' BY <1>1 DEF IInv, SearchAligned, Rebuildable, Calls, stores
<1>3. log \in Seq(1..MaxCalls) /\ Len(log) \in Nat /\ DOMAIN log = 1..Len(log)
      /\ i \in Nat \ {0} /\ remaining \in Seq(1..MaxCalls)
  BY LenProperties DEF IInv, TypeOK
<1>4. <<>> \in Seq(1..MaxCalls) /\ \A q \in DOMAIN <<>> : FALSE OBVIOUS
<1>5. CASE RetryFailed
  <2>1. log' = log /\ pc' = "retry" /\ i' = 1 /\ remaining' = <<>> BY <1>5 DEF RetryFailed
  <2>2. TypeOK' BY <1>1, <1>4, <2>1 DEF IInv, TypeOK, stores, NoRow
  <2>3. Known' BY <1>1, <1>4, <2>1 DEF IInv, Known, stores
  <2>4. Reachable' BY <1>1, <1>3, <2>1 DEF IInv, Reachable, Calls
  <2> QED BY <1>2, <2>2, <2>3, <2>4 DEF IInv
<1>6. CASE GiveUp
  <2>1. /\ log' = log /\ pc' = "retry" /\ pc = "retry" /\ i' = i + 1 /\ remaining' = remaining
        /\ Spent(log[i])
    BY <1>6 DEF GiveUp, NextPlace
  <2>2. TypeOK' BY <1>1, <1>3, <2>1 DEF IInv, TypeOK, stores, NoRow
  <2>3. Known' BY <1>1, <2>1 DEF IInv, Known, stores
  <2>4. Reachable'
    <3> SUFFICES ASSUME NEW m \in Calls, rec[m].status = "failed", rec[m].retries < MaxRetries
                 PROVE  \E q \in DOMAIN log : log[q] = m /\ i + 1 <= q
      BY <1>1, <2>1 DEF Reachable, Calls
    <3>1. PICK q \in DOMAIN log : log[q] = m /\ i <= q BY <2>1 DEF IInv, Reachable
    <3>2. rec[m].retries \in Nat BY RecordFields DEF IInv, Calls
    <3>3. q # i BY <2>1, <3>1, <3>2, BoundAssumption DEF Spent
    <3> QED BY <1>3, <3>1, <3>3
  <2> QED BY <1>2, <2>2, <2>3, <2>4 DEF IInv
<1>7. CASE RetryEnd
  <2>1. /\ log' = remaining /\ pc' = "idle" /\ pc = "retry" /\ i' = 1 /\ remaining' = <<>>
        /\ i > Len(log)
    BY <1>7 DEF RetryEnd
  <2>2. TypeOK' BY <1>1, <1>3, <1>4, <2>1 DEF IInv, TypeOK, stores, NoRow
  <2>3. Known' BY <1>1, <1>4, <2>1 DEF IInv, Known, stores
  <2>4. \A m \in Calls : ~(rec[m].status = "failed" /\ rec[m].retries < MaxRetries)
    BY <1>3, <2>1 DEF IInv, Reachable
  <2>5. Reachable' BY <1>1, <2>4 DEF Reachable, Calls
  <2> QED BY <1>2, <2>2, <2>3, <2>5 DEF IInv
<1> QED BY <1>5, <1>6, <1>7

\* The inductive invariant holds throughout.
THEOREM Invariance == Spec => []IInv
<1>1. Init => IInv
  <2> SUFFICES ASSUME Init PROVE IInv OBVIOUS
  <2> USE BoundAssumption
  <2>1. PICK n \in 0..MaxLoaded : meta = [p \in 1..n |-> 0] BY DEF Init
  <2>2. n \in Nat /\ 0 \in 0..MaxCalls BY <2>1
  <2>3. meta \in Seq(0..MaxCalls) /\ \A p \in DOMAIN meta : meta[p] = 0 BY <2>1, <2>2
  <2>4. \A S : <<>> \in Seq(S) OBVIOUS
  <2>5. DOMAIN rec = {} /\ DOMAIN log = {} /\ DOMAIN remaining = {} /\ Len(rec) = 0
    BY DEF Init
  <2>6. TypeOK BY <2>3, <2>4, <2>5 DEF Init, TypeOK, NoRow
  <2>7. Known BY <2>3, <2>5 DEF Known
  <2>8. Len(meta) \in Nat BY <2>3
  <2>9. SearchAligned BY <2>8 DEF Init, SearchAligned
  <2>10. Reachable BY <2>5 DEF Reachable, Calls
  <2> QED BY <2>6, <2>7, <2>9, <2>10 DEF IInv
<1>2. IInv /\ [Next]_vars => IInv'
  <2> SUFFICES ASSUME IInv, [Next]_vars PROVE IInv' OBVIOUS
  <2>0. Len(meta) \in Nat BY DEF IInv, TypeOK
  <2>1. ASSUME NEW d \in Docs, NEW e \in Embeddings, Put(d, e) PROVE IInv'
    BY <2>1, CallStep DEF Put
  <2>2. ASSUME NEW d \in Docs, NEW p \in 0..Len(meta), Delete(d, p) PROVE IInv'
    <3>1. p \in Nat /\ "none" \in Embeddings BY <2>0 DEF Embeddings
    <3> QED BY <2>2, <3>1, CallStep DEF Delete
  <2>3. ASSUME NEW d \in Docs, Mark(d) PROVE IInv'
    <3>1. "none" \in Embeddings BY DEF Embeddings
    <3> QED BY <2>3, <3>1, CallStep DEF Mark
  <2>4. CASE RetryFailed \/ GiveUp \/ RetryEnd BY <2>4, LoopStep
  <2>5. CASE RetryOne BY <2>5, RetryOneStep
  <2>6. CASE UNCHANGED vars
    BY <2>6 DEF vars, stores, retry, IInv, TypeOK, Known, SearchAligned, Rebuildable,
                Reachable, Calls, NoRow
  <2> QED BY <2>1, <2>2, <2>3, <2>4, <2>5, <2>6 DEF Next, Loop
<1> QED BY <1>1, <1>2, PTL DEF Spec

\* Every variable keeps its type.
THEOREM TypeCorrect == Spec => []TypeOK
<1>1. IInv => TypeOK BY DEF IInv
<1> QED BY <1>1, Invariance, PTL

\* Metadata and index agree position by position whenever every entry is rebuildable.
THEOREM SearchAlignedHolds == Spec => []SearchAligned
<1>1. IInv => SearchAligned BY DEF IInv
<1> QED BY <1>1, Invariance, PTL

\* A failed record with retries left is in the compensation log between calls.
THEOREM NotForgottenHolds == Spec => []NotForgotten
<1>1. IInv => NotForgotten
  <2> SUFFICES ASSUME IInv, pc = "idle", NEW n \in Calls, rec[n].status = "failed",
                      rec[n].retries < MaxRetries
               PROVE  Contains(log, n)
    BY DEF NotForgotten
  <2>1. PICK p \in DOMAIN log : log[p] = n BY DEF IInv, Reachable
  <2>2. DOMAIN log = 1..Len(log) BY LenProperties DEF IInv, TypeOK
  <2> QED BY <2>1, <2>2 DEF Contains
<1> QED BY <1>1, Invariance, PTL
-----------------------------------------------------------------------------
(* What a call leaves in the stores, relative to how often it was executed.   *)

\* A row is that of a call that was made.
Rows == \A d \in Docs : row[d] = NoRow \/ row[d] \in Calls

Leaves == Rows /\ CopiesBounded /\ OnlyRetriesGoBack

\* Copies before and after an execution: at most one more of the call's own.
LEMMA ExecuteCopies ==
    ASSUME TypeOK, NEW r \in Records, NEW n \in 1..MaxCalls, NEW up, Execute(n, r, up), NEW m
    PROVE  /\ IsFiniteSet(Copies(m)) /\ Cardinality(Copies(m)) \in Nat
           /\ Cardinality(Copies(m)') \in Nat
           /\ Cardinality(Copies(m)') <= Cardinality(Copies(m)) + 1
           /\ m # n => Cardinality(Copies(m)') <= Cardinality(Copies(m))
<1>1. meta \in Seq(0..MaxCalls)
  BY DEF TypeOK
<1>2. PICK k \in Nat : k = Len(meta) /\ DOMAIN meta = 1..k
  BY <1>1, LenProperties
<1>3. IsFiniteSet(Copies(m)) /\ Cardinality(Copies(m)) \in Nat
  <2>1. IsFiniteSet(1..k) /\ Copies(m) \subseteq 1..k
    BY <1>2, FS_Interval DEF Copies
  <2>2. QED
    BY <2>1, FS_Subset, FS_CardinalityType
<1>4. CASE UNCHANGED meta
  <2>1. Copies(m)' = Copies(m)
    BY <1>4 DEF Copies
  <2>2. QED
    BY <1>3, <2>1
<1>5. CASE meta' = Append(meta, n)
  <2>1. /\ DOMAIN meta' = 1..(k + 1) /\ meta'[k + 1] = n
        /\ \A p \in 1..k : meta'[p] = meta[p]
    <3>1. n \in 0..MaxCalls
      BY BoundAssumption
    <3>2. QED
      BY <1>1, <1>2, <1>5, <3>1, AppendProperties, LenProperties
  <2>2. \A p \in 1..(k + 1) : p \in 1..k \/ p = k + 1
    OBVIOUS
  <2>3. Copies(m)' = Copies(m) \/ Copies(m)' = Copies(m) \cup {k + 1}
    BY <1>2, <2>1, <2>2 DEF Copies
  <2>4. m # n => Copies(m)' = Copies(m)
    BY <1>2, <2>1, <2>2 DEF Copies
  <2>5. Cardinality(Copies(m) \cup {k + 1}) \in {Cardinality(Copies(m)), Cardinality(Copies(m)) + 1}
    BY <1>3, FS_AddElement
  <2>6. CASE Copies(m)' = Copies(m)
    BY <1>3, <2>6
  <2>7. CASE Copies(m)' = Copies(m) \cup {k + 1} /\ m = n
    BY <1>3, <2>5, <2>7
  <2>8. QED
    BY <2>3, <2>4, <2>6, <2>7
<1>6. CASE Removes(r) /\ meta' = Left(r)
  <2>1. r.pos \in 1..k
    BY <1>2, <1>6 DEF Removes
  <2>2. PICK j \in 1..k : j = r.pos
    BY <2>1
  <2>3. /\ DOMAIN meta' = 1..(k - 1)
        /\ \A p \in 1..(k - 1) : meta'[p] = IF p < j THEN meta[p] ELSE meta[p + 1]
    <3>1. /\ meta' \in Seq(0..MaxCalls) /\ Len(meta') = k - 1
          /\ \A p \in 1..(k - 1) : meta'[p] = IF p < j THEN meta[p] ELSE meta[p + 1]
      BY <1>1, <1>2, <1>6, <2>2, RemoveAtFacts DEF Left
    <3>2. QED
      BY <3>1, LenProperties
  <2> DEFINE f == [p \in Copies(m)' |-> IF p < j THEN p ELSE p + 1]
  <2>4. f \in [Copies(m)' -> Copies(m)]
    <3> SUFFICES ASSUME NEW p \in Copies(m)' PROVE (IF p < j THEN p ELSE p + 1) \in Copies(m)
      OBVIOUS
    <3>1. p \in 1..(k - 1) /\ meta'[p] = m
      BY <2>3 DEF Copies
    <3>2. p \in 1..k /\ p + 1 \in 1..k
      BY <3>1
    <3>3. QED
      BY <1>2, <2>3, <3>1, <3>2 DEF Copies
  <2>5. \A p, q \in Copies(m)' : f[p] = f[q] => p = q
    <3>1. Copies(m)' \subseteq Nat
      BY <2>3 DEF Copies
    <3>2. QED
      BY <3>1
  <2>6. f \in Injection(Copies(m)', Copies(m))
    BY <2>4, <2>5 DEF Injection, IsInjective
  <2>7. IsFiniteSet(Copies(m)') /\ Cardinality(Copies(m)') <= Cardinality(Copies(m))
    BY <1>3, <2>6, FS_Injection DEF ExistsInjection
  <2>8. QED
    BY <1>3, <2>7, FS_CardinalityType
<1>7. QED
  BY <1>4, <1>5, <1>6 DEF Execute, SyncVector, stores

\* The records after an execution of r as call n: only that of n is another, and it counts
\* a retry if the call was there before.
Counts(r, n, up) ==
    /\ n \in DOMAIN rec' /\ DOMAIN rec' \subseteq DOMAIN rec \cup {n} /\ DOMAIN rec \subseteq DOMAIN rec'
    /\ rec'[n].status = Status(r, up) /\ rec'[n].doc = r.doc /\ rec'[n].op = r.op
    /\ \A m \in DOMAIN rec \ {n} : rec'[m] = rec[m]
    /\ \/ n \in DOMAIN rec /\ rec'[n].retries = rec[n].retries + 1
       \/ /\ \A m \in DOMAIN rec : m < n
          /\ rec'[n].retries = 0

LEMMA LeavesStep ==
    ASSUME IInv, Leaves, NEW r \in Records, NEW n \in 1..MaxCalls, NEW up,
           Execute(n, r, up), Counts(r, n, up)
    PROVE  Leaves'
<1>1. TypeOK /\ Known /\ MaxCalls \in Nat
  BY BoundAssumption DEF IInv
<1>2. PICK c \in Nat : c = Len(rec) /\ DOMAIN rec = 1..c /\ c <= MaxCalls
  BY <1>1, LenProperties DEF TypeOK
<1>3. row \in [Docs -> 0..MaxCalls \cup {NoRow}] /\ NoRow = MaxCalls + 1 /\ r.doc \in Docs
  BY <1>1 DEF TypeOK, NoRow, Records
<1>4. \/ /\ row' = [row EXCEPT ![r.doc] = RowAfter(n, r)]
      \/ UNCHANGED row /\ Status(r, up) = "failed"
  BY DEF Execute, stores, Status
<1>5. RowAfter(n, r) = NoRow \/ RowAfter(n, r) = n
  BY DEF RowAfter
<1>6. Rows'
  <2> SUFFICES ASSUME NEW d \in Docs PROVE row'[d] = NoRow \/ row'[d] \in DOMAIN rec'
    BY DEF Rows, Calls, NoRow
  <2>1. row[d] = NoRow \/ row[d] \in DOMAIN rec'
    BY DEF Leaves, Rows, Calls, Counts
  <2>2. n \in DOMAIN rec'
    BY DEF Counts
  <2>3. QED
    BY <1>3, <1>4, <1>5, <2>1, <2>2
<1>7. CopiesBounded'
  <2> SUFFICES ASSUME NEW m \in DOMAIN rec' PROVE Cardinality(Copies(m)') <= rec'[m].retries + 1
    BY DEF CopiesBounded, Calls
  <2>1. /\ IsFiniteSet(Copies(m)) /\ Cardinality(Copies(m)) \in Nat
        /\ Cardinality(Copies(m)') \in Nat
        /\ Cardinality(Copies(m)') <= Cardinality(Copies(m)) + 1
        /\ m # n => Cardinality(Copies(m)') <= Cardinality(Copies(m))
    BY <1>1, ExecuteCopies
  <2>2. m \in DOMAIN rec => Cardinality(Copies(m)) <= rec[m].retries + 1 /\ rec[m].retries \in Nat
    BY <1>1, RecordFields DEF Leaves, CopiesBounded, Calls
  <2>3. CASE m # n
    BY <2>1, <2>2, <2>3 DEF Counts
  <2>4. CASE m = n /\ n \in DOMAIN rec /\ rec'[n].retries = rec[n].retries + 1
    BY <2>1, <2>2, <2>4
  <2>5. CASE m = n /\ (\A x \in DOMAIN rec : x < n) /\ rec'[n].retries = 0
    <3>1. n > c
      <4>1. c \in DOMAIN rec \/ c = 0
        BY <1>2
      <4>2. QED
        BY <1>2, <2>5, <4>1
    <3>2. \A p \in DOMAIN meta : meta[p] \in Nat /\ meta[p] <= c
      <4>1. meta \in Seq(0..MaxCalls)
        BY <1>1 DEF TypeOK
      <4>2. \A p \in DOMAIN meta : meta[p] \in 0..MaxCalls
        BY <4>1, ElementOfSeq, LenProperties
      <4>3. QED
        BY <1>1, <1>2, <4>2 DEF Known
    <3>3. Copies(m) = {}
      BY <1>2, <2>5, <3>1, <3>2 DEF Copies
    <3>4. Cardinality(Copies(m)) = 0
      BY <3>3, FS_EmptySet
    <3>5. QED
      BY <2>1, <2>5, <3>4
  <2>6. QED
    BY <2>3, <2>4, <2>5 DEF Counts
<1>8. OnlyRetriesGoBack'
  <2> SUFFICES ASSUME NEW m \in DOMAIN rec', rec'[m].status = "synced", rec'[m].op # "delete",
                      row'[rec'[m].doc] < m
               PROVE  rec'[row'[rec'[m].doc]].retries > 0
    BY DEF OnlyRetriesGoBack, Calls
  <2>1. m \in 1..MaxCalls /\ (m \in DOMAIN rec \/ m = n)
    <3>1. m \in DOMAIN rec \/ m = n
      BY DEF Counts
    <3>2. m \in DOMAIN rec => m \in 1..MaxCalls
      BY <1>1, <1>2
    <3>3. QED
      BY <3>1, <3>2
  <2>2. rec'[m].doc \in Docs
    BY <1>1, <1>3, <2>1, RecordFields DEF Counts, Records
  <2>3. PICK k \in 0..MaxCalls \cup {NoRow} : k = row'[rec'[m].doc]
    BY <1>3, <1>4, <1>5, <2>2
  <2>4. k < m /\ k # NoRow /\ k \in Nat
    BY <1>1, <1>3, <2>1, <2>3
  <2>5. CASE k = n
    <3>1. m \in DOMAIN rec
      BY <2>1, <2>4, <2>5
    <3>2. n \in DOMAIN rec /\ rec'[n].retries = rec[n].retries + 1
      BY <2>1, <2>4, <2>5, <3>1 DEF Counts
    <3>3. rec[n].retries \in Nat
      BY <1>1, <3>2, RecordFields
    <3>4. QED
      BY <2>3, <2>5, <3>2, <3>3
  <2>6. CASE k # n
    <3>1. row[rec'[m].doc] = k
      BY <1>3, <1>4, <1>5, <2>2, <2>3, <2>4, <2>6
    <3>2. m # n
      <4>1. ASSUME m = n PROVE FALSE
        <5>1. row' = [row EXCEPT ![r.doc] = RowAfter(n, r)] /\ rec'[m].doc = r.doc
          BY <1>4, <4>1 DEF Counts
        <5>2. k = RowAfter(n, r)
          BY <1>3, <2>3, <5>1
        <5>3. QED
          BY <1>5, <2>4, <2>6, <5>2
      <4>2. QED
        BY <4>1
    <3>3. m \in DOMAIN rec /\ rec'[m] = rec[m]
      BY <2>1, <3>2 DEF Counts
    <3>4. rec[k].retries > 0
      BY <2>4, <3>1, <3>3 DEF Leaves, OnlyRetriesGoBack, Calls
    <3>5. k \in DOMAIN rec
      BY <2>2, <2>4, <3>1 DEF Leaves, Rows, Calls
    <3>6. rec'[k] = rec[k]
      BY <2>6, <3>5 DEF Counts
    <3>7. QED
      BY <2>3, <3>4, <3>6
  <2>7. QED
    BY <2>5, <2>6
<1>9. QED
  BY <1>6, <1>7, <1>8 DEF Leaves

LEMMA CallLeaves ==
    ASSUME IInv, Leaves, NEW op \in {"put", "mark", "delete"}, NEW d \in Docs, NEW e \in Embeddings,
           NEW p \in Nat, Call(op, d, e, p)
    PROVE  Leaves'
<1> DEFINE r == [op |-> op, doc |-> d, emb |-> e, pos |-> p, retries |-> 0, status |-> "failed"]
           n == Len(rec) + 1
<1>1. PICK up : /\ Execute(n, r, up)
                /\ rec' = Append(rec, [r EXCEPT !.status = Status(r, up)])
  BY DEF Call
<1>2. rec \in Seq(Records) /\ Len(rec) \in Nat /\ DOMAIN rec = 1..Len(rec)
  BY LenProperties DEF IInv, TypeOK
<1>3. n \in 1..MaxCalls
  BY <1>2, BoundAssumption DEF Call
<1>4. r \in Records /\ [r EXCEPT !.status = Status(r, up)] \in Records
  BY BoundAssumption DEF Records, Status
<1>5. /\ DOMAIN rec' = 1..n
      /\ \A m \in 1..Len(rec) : rec'[m] = rec[m]
      /\ rec'[n] = [r EXCEPT !.status = Status(r, up)]
  BY <1>1, <1>2, <1>4, AppendProperties, LenProperties
<1>6. /\ rec'[n].status = Status(r, up) /\ rec'[n].retries = 0
      /\ rec'[n].doc = r.doc /\ rec'[n].op = r.op
  BY <1>5
<1>7. 1..n = DOMAIN rec \cup {n} /\ \A m \in DOMAIN rec : m < n
  BY <1>2, <1>3
<1> HIDE DEF r, n
<1>8. Counts(r, n, up)
  BY <1>2, <1>5, <1>6, <1>7 DEF Counts
<1>9. QED
  BY <1>1, <1>3, <1>4, <1>8, LeavesStep

LEMMA RetryLeaves ==
    ASSUME IInv, Leaves, RetryOne
    PROVE  Leaves'
<1> DEFINE n == log[i]
<1>1. PICK up : /\ Execute(n, rec[n], up)
                /\ rec' = [rec EXCEPT ![n].retries = Counted(n),
                                       ![n].status = Status(rec[n], up)]
  BY DEF RetryOne
<1>2. rec \in Seq(Records) /\ Len(rec) \in Nat /\ DOMAIN rec = 1..Len(rec) /\ TypeOK
  BY LenProperties DEF IInv, TypeOK
<1>3. n \in 1..MaxCalls /\ n \in DOMAIN rec
  <2>1. log \in Seq(1..MaxCalls) /\ i \in DOMAIN log
    BY LenProperties DEF IInv, TypeOK, RetryOne
  <2>2. n \in 1..MaxCalls
    BY <2>1, LenProperties, ElementOfSeq
  <2>3. n <= Len(rec)
    BY <2>1 DEF IInv, Known
  <2>4. QED
    BY <1>2, <2>2, <2>3
<1>4. rec[n] \in Records
  BY <1>2, <1>3, RecordFields
<1>5. PICK f : f = rec[n] /\ f \in Records
  BY <1>4
<1>6. /\ DOMAIN rec' = DOMAIN rec /\ \A m \in DOMAIN rec \ {n} : rec'[m] = rec[m]
      /\ rec'[n] = [rec[n] EXCEPT !.retries = Counted(n), !.status = Status(rec[n], up)]
  BY <1>1, <1>2, <1>3
<1> HIDE DEF n
<1>7. /\ rec'[n].status = Status(rec[n], up) /\ rec'[n].retries = rec[n].retries + 1
      /\ rec'[n].doc = rec[n].doc /\ rec'[n].op = rec[n].op
  BY <1>5, <1>6 DEF Records, Counted
<1>8. Counts(rec[n], n, up)
  BY <1>3, <1>6, <1>7 DEF Counts
<1>9. QED
  BY <1>1, <1>3, <1>4, <1>8, LeavesStep

LEMMA LeavesInvariance == Spec => []Leaves
<1>1. Init => Leaves
  <2> SUFFICES ASSUME Init PROVE Leaves
    OBVIOUS
  <2>1. DOMAIN rec = {}
    BY DEF Init
  <2>2. QED
    BY <2>1 DEF Init, Leaves, Rows, CopiesBounded, OnlyRetriesGoBack, Calls
<1>2. IInv /\ Leaves /\ [Next]_vars => Leaves'
  <2> SUFFICES ASSUME IInv, Leaves, [Next]_vars PROVE Leaves'
    OBVIOUS
  <2>0. Len(meta) \in Nat
    BY DEF IInv, TypeOK
  <2>1. ASSUME NEW d \in Docs, NEW e \in Embeddings, Put(d, e) PROVE Leaves'
    BY <2>1, CallLeaves DEF Put
  <2>2. ASSUME NEW d \in Docs, NEW p \in 0..Len(meta), Delete(d, p) PROVE Leaves'
    <3>1. p \in Nat /\ "none" \in Embeddings
      BY <2>0 DEF Embeddings
    <3>2. QED
      BY <2>2, <3>1, CallLeaves DEF Delete
  <2>3. ASSUME NEW d \in Docs, Mark(d) PROVE Leaves'
    <3>1. "none" \in Embeddings
      BY DEF Embeddings
    <3>2. QED
      BY <2>3, <3>1, CallLeaves DEF Mark
  <2>4. CASE RetryOne
    BY <2>4, RetryLeaves
  <2>5. CASE RetryFailed \/ GiveUp \/ RetryEnd \/ UNCHANGED vars
    <3>1. UNCHANGED <<rec, row, meta>>
      BY <2>5 DEF RetryFailed, GiveUp, RetryEnd, vars, stores
    <3>2. \A m : Copies(m)' = Copies(m)
      BY <3>1 DEF Copies
    <3>3. QED
      BY <3>1, <3>2 DEF Leaves, Rows, CopiesBounded, OnlyRetriesGoBack, Calls, NoRow
  <2>6. QED
    BY <2>1, <2>2, <2>3, <2>4, <2>5 DEF Next, Loop
<1>3. QED
  BY <1>1, <1>2, Invariance, PTL DEF Spec

\* A record that stands in the log many times leaves at most one vector for each execution
\* it is allowed.
THEOREM CopiesBoundedHolds == Spec => []CopiesBounded
<1>1. Leaves => CopiesBounded
  BY DEF Leaves
<1>2. QED
  BY <1>1, LeavesInvariance, PTL

\* A row older than the newest successful write of its document was put there by a retry.
THEOREM OnlyRetriesGoBackHolds == Spec => []OnlyRetriesGoBack
<1>1. Leaves => OnlyRetriesGoBack
  BY DEF Leaves
<1>2. QED
  BY <1>1, LeavesInvariance, PTL
=============================================================================
