------------------------------ MODULE DataSync ------------------------------
(* DataSyncManager of memory/storage/sync_manager.py over the structured      *)
(* repository and the vector store: each call writes the row and then the     *)
(* vector, and a failed one goes to the compensation log for retry_failed().  *)
(*                                                                            *)
(* The vector store keeps metadata (with the embeddings beside it) and a      *)
(* FAISS index that search joins to it by position.  Its add() appends to the *)
(* metadata before the index checks the dimension, and its delete() rebuilds  *)
(* the index from the embeddings, which entries loaded from disk do not have. *)
(* A row, a vector and an entry of the log are the number of the call they    *)
(* come from, 0 for what was there at the start.                              *)
EXTENDS Naturals, Sequences, FiniteSets, SequencesExt

CONSTANTS
    Docs,             \* document ids
    MaxCalls,         \* bound: calls made
    MaxRetries,       \* SyncRecord.max_retries
    MaxLoaded,        \* bound: vectors that load() may have found on disk
    RepoOutcomes      \* {TRUE}: the repository never raises; {TRUE, FALSE}: it may

ASSUME BoundAssumption == MaxCalls \in Nat /\ MaxRetries \in Nat /\ MaxLoaded \in Nat
ASSUME RepoAssumption == TRUE \in RepoOutcomes /\ RepoOutcomes \subseteq BOOLEAN

VARIABLES
    rec,              \* the SyncRecord of each call
    row,              \* MySQLMemoryRepo: the call that wrote a document's row
    meta,             \* VectorMemoryStore.metadata: the call of each entry
    index,            \* VectorMemoryStore.index: the call of each vector
    log,              \* _compensation_log
    pc, i, remaining  \* retry_failed: whether it runs, its place in the log, its list

stores == <<row, meta, index>>
retry  == <<pc, i, remaining>>
vars   == <<rec, stores, log, retry>>

NoRow == MaxCalls + 1
Calls == DOMAIN rec
Embeddings == {"none", "good", "bad"}      \* bad: of another dimension than the index

\* pos is the vector_index of a delete, counted from 1, and 0 for None.
Records == [op : {"put", "mark", "delete"}, doc : Docs,
            emb : Embeddings, pos : Nat, retries : 0..MaxRetries,
            status : {"synced", "failed"}]

TypeOK ==
    /\ rec \in Seq(Records) /\ Len(rec) <= MaxCalls
    /\ row \in [Docs -> 0..MaxCalls \cup {NoRow}]
    /\ meta \in Seq(0..MaxCalls)
    /\ index \in Seq(0..MaxCalls)
    /\ log \in Seq(1..MaxCalls)
    /\ remaining \in Seq(1..MaxCalls)
    /\ pc \in {"idle", "retry"}
    /\ i \in Nat \ {0}

Init ==
    /\ rec = <<>>
    /\ row = [d \in Docs |-> NoRow]
    /\ \E n \in 0..MaxLoaded : meta = [p \in 1..n |-> 0]
    /\ index = meta
    /\ log = <<>>
    /\ pc = "idle" /\ i = 1 /\ remaining = <<>>

-----------------------------------------------------------------------------
(* _execute_sync of record r, the record of call n. *)

StructOk(r, up) == up /\ (r.op = "delete" => row[r.doc] # NoRow)

RowKept(n, r) ==                                  \* mutant
    IF row[r.doc] # NoRow /\ r.op # "delete" THEN row[r.doc]
    ELSE IF r.op = "delete" THEN NoRow ELSE n
RowAfter(n, r) == IF r.op = "delete" THEN NoRow ELSE n

\* Every entry has an embedding of the dimension of the index.
Rebuildable(m) == \A p \in DOMAIN m : m[p] \in Calls /\ rec[m[p]].emb = "good"

Adds(r) == r.op = "put" /\ r.emb # "none"
Removes(r) == r.op = "delete" /\ r.pos \in DOMAIN meta
Left(r) == RemoveAt(meta, r.pos)

VectorOk(r) ==
    /\ Adds(r) => r.emb = "good"
    /\ Removes(r) => Rebuildable(Left(r))

IndexAdd(n, r) == IF r.emb = "good" THEN Append(index, n) ELSE index
NotRebuilt(m) == index                            \* mutant
Rebuilt(m) == IF Rebuildable(m) THEN m ELSE <<>>

SyncVector(n, r) ==
    \/ Adds(r) /\ meta' = Append(meta, n) /\ index' = IndexAdd(n, r)
    \/ Removes(r) /\ meta' = Left(r) /\ index' = Rebuilt(Left(r))
    \/ ~Adds(r) /\ ~Removes(r) /\ UNCHANGED <<meta, index>>

Status(r, up) == IF StructOk(r, up) /\ VectorOk(r) THEN "synced" ELSE "failed"

LoggedIfStruct(n, r, up) ==                       \* mutant
    IF ~StructOk(r, up) THEN Append(log, n) ELSE log
Logged(n, r, up) == IF Status(r, up) = "failed" THEN Append(log, n) ELSE log

Execute(n, r, up) ==
    /\ IF StructOk(r, up) THEN row' = [row EXCEPT ![r.doc] = RowAfter(n, r)] /\ SyncVector(n, r)
       ELSE UNCHANGED stores
    /\ log' = Logged(n, r, up)

-----------------------------------------------------------------------------
(* The calls, each a new record executed once. *)

Call(op, d, e, p) ==
    /\ pc = "idle"
    /\ Len(rec) < MaxCalls
    /\ \E up \in RepoOutcomes :
        LET r == [op |-> op, doc |-> d, emb |-> e, pos |-> p, retries |-> 0, status |-> "failed"]
        IN  /\ Execute(Len(rec) + 1, r, up)
            /\ rec' = Append(rec, [r EXCEPT !.status = Status(r, up)])
    /\ UNCHANGED retry

\* insert and update run the same code, and so do soft_delete and archive.
Put(d, e) == Call("put", d, e, 0)
Mark(d) == Call("mark", d, "none", 0)
Delete(d, p) == Call("delete", d, "none", p)

-----------------------------------------------------------------------------
(* retry_failed: a loop over the list that _execute_sync appends to. *)

RetryFailed ==
    /\ pc = "idle"
    /\ log # <<>>
    /\ pc' = "retry" /\ i' = 1 /\ remaining' = <<>>
    /\ UNCHANGED <<rec, stores, log>>

Spent(n) == rec[n].retries >= MaxRetries
StayPut == i                                      \* mutant
NextPlace == i + 1

GiveUp ==
    /\ pc = "retry" /\ i <= Len(log) /\ Spent(log[i])
    /\ i' = NextPlace
    /\ UNCHANGED <<rec, stores, log, pc, remaining>>

NotCounted(n) == rec[n].retries                   \* mutant
Counted(n) == rec[n].retries + 1

RetryOne ==
    /\ pc = "retry" /\ i <= Len(log) /\ ~Spent(log[i])
    /\ \E up \in RepoOutcomes :
        LET n == log[i]
            s == Status(rec[n], up)
        IN  /\ Execute(n, rec[n], up)
            /\ rec' = [rec EXCEPT ![n].retries = Counted(n), ![n].status = s]
            /\ remaining' = IF s = "failed" THEN Append(remaining, n) ELSE remaining
    /\ i' = i + 1
    /\ UNCHANGED pc

RetryEnd ==
    /\ pc = "retry" /\ i > Len(log)
    /\ log' = remaining
    /\ pc' = "idle" /\ i' = 1 /\ remaining' = <<>>
    /\ UNCHANGED <<rec, stores>>

Loop == GiveUp \/ RetryOne \/ RetryEnd

Next ==
    \/ \E d \in Docs :
        \/ \E e \in Embeddings : Put(d, e)
        \/ \E p \in 0..Len(meta) : Delete(d, p)
        \/ Mark(d)
    \/ RetryFailed \/ Loop

Spec == Init /\ [][Next]_vars

\* A retry_failed that was called runs on: the calls are synchronous.
FairSpec == Spec /\ WF_vars(Loop)

-----------------------------------------------------------------------------
(* Properties. *)

\* Search joins index to metadata by position: the two agree whenever no entry is of a bad
\* dimension or without embedding, also after such entries came and went, and the index
\* never runs past the metadata.
SearchAligned ==
    /\ Len(index) <= Len(meta)
    /\ Rebuildable(meta) => index = meta

\* Between calls a failed record that has retries left is in the log.
NotForgotten ==
    pc = "idle" => \A n \in Calls :
        rec[n].status = "failed" /\ rec[n].retries < MaxRetries => Contains(log, n)

Copies(n) == {p \in DOMAIN meta : meta[p] = n}

\* The log holds a record many times over and is appended to while it is read, and yet a
\* call leaves at most one vector for each execution it is allowed.
CopiesBounded == \A n \in Calls : Cardinality(Copies(n)) <= rec[n].retries + 1

\* A row older than the newest successful write of its document was put there by a retry.
OnlyRetriesGoBack ==
    \A m \in Calls :
        LET n == row[rec[m].doc]
        IN  rec[m].status = "synced" /\ rec[m].op # "delete" /\ n < m => rec[n].retries > 0

\* retry_failed comes to the end of a list that grows as long as records fail.
RetryEnds == (pc = "retry") ~> (pc = "idle")

\* _execute_sync: failed records are compensated and the stores become consistent.  Once
\* nothing is left to compensate, the newest synced write of a document is what its row has.
EventuallyConsistent ==
    pc = "idle" /\ log = <<>> =>
        \A m \in Calls :
            /\ rec[m].status = "synced"
            /\ \A n \in Calls : n > m => rec[n].doc # rec[m].doc
            => row[rec[m].doc] = RowAfter(m, rec[m])
=============================================================================
