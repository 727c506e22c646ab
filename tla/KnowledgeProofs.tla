-------------------------- MODULE KnowledgeProofs --------------------------
(* Proofs about Knowledge for every corpus, every number of loaders and of    *)
(* starts.  What is in the files belongs together because nobody loads while  *)
(* init_system saves; search is aligned while at most one loader is inside    *)
(* add(); what has a row is found because all its chunks were appended before *)
(* the row was written and the index catches up with the metadata as soon as  *)
(* no add() is under way; and copies are bounded because a loader counts      *)
(* against the bound from its check of the hash to its last chunk.            *)
EXTENDS Knowledge, TLAPS, FiniteSetTheorems, SequenceTheorems

Adding == {t \in Loaders : job[t].at = "index"}

\* Where init_system is decides who works and what is on disk.
Phased ==
    /\ phase = "down" => meta = <<>> /\ index = <<>>
    /\ phase \in {"down", "open", "dump"} => \A t \in Loaders : job[t] = Idle
    /\ phase = "build" => metaFile = NoFile /\ \A t \in Loaders \ {Main} : job[t] = Idle
    /\ phase # "serving" => ~raced /\ ~mixed
    /\ phase \in {"open", "dump"} /\ meta # <<>> => indexFile = meta

\* The metadata is ahead of the index by the chunk of the one loader inside add().
Tight ==
    ~raced /\ ~mixed =>
        /\ Adding = {} => meta = index
        /\ \A t \in Adding :
            Adding = {t} /\ meta = Append(index, <<job[t].item, job[t].part>>)

\* What a loader has passed, and what a row stands for, has been appended.
Written(x, n) == \E p \in DOMAIN meta : meta[p] = <<x, n>>
Done(j) ==
    CASE j.at = "append" -> 1..(j.part - 1)
      [] j.at = "index"  -> 1..j.part
      [] j.at = "row"    -> 1..Parts[j.item]
      [] OTHER           -> {}
Recorded ==
    /\ \A t \in Loaders : \A n \in Done(job[t]) : Written(job[t].item, n)
    /\ \A d \in Docs : \A x \in {rows[d], deleting[d]} \ {NoItem} :
        DocOf[x] = d /\ \A n \in 1..Parts[x] : Written(x, n)

\* Every entry the index lacks has its loader inside add().
Gap == Len(meta) <= Len(index) + Cardinality(Adding)

\* A loader that has passed the check for a chunk's item and not yet appended the chunk.
Pending(c) ==
    {t \in Loaders :
        /\ job[t].item = c[1]
        /\ \/ job[t].at = "mark"
           \/ job[t].at = "append" /\ job[t].part <= c[2]
           \/ job[t].at = "index" /\ job[t].part < c[2]}
Limit == IF phase \in {"build", "open", "dump"} THEN 1 ELSE 1 + Cardinality(Loaders)
FromFile == IF phase = "build" THEN 0 ELSE 1
Counted ==
    /\ \A c \in Chunks :
        /\ Cardinality(Copies(c)) + Cardinality(Pending(c)) <= Limit
        /\ c[1] \notin hashes => Cardinality(Copies(c)) <= FromFile
        /\ Cardinality({p \in DOMAIN metaFile.list : metaFile.list[p] = c}) <= 1
    /\ \A t \in Loaders : job[t].at \in {"append", "index", "row"} => job[t].item \in hashes

IInv == TypeOK /\ FilesMatch /\ Phased /\ Tight /\ Recorded /\ Gap /\ Counted

-----------------------------------------------------------------------------
(* Types. *)

\* The steps of a loader: what it may be told to do next is a job.
LEMMA JobFacts ==
    ASSUME NEW x \in Items
    PROVE  /\ Idle \in Jobs /\ Job("mark", x, 0) \in Jobs /\ Job("row", x, 0) \in Jobs
           /\ \A n \in 1..Parts[x] : Job("append", x, n) \in Jobs /\ Job("index", x, n) \in Jobs
           /\ \A n \in 1..Parts[x] : <<x, n>> \in Chunks
<1>1. Parts[x] \in Nat BY ItemAssumption
<1>2. \A n \in 1..Parts[x] : n \in Nat BY <1>1
<1>3. \A n \in 1..Parts[x] : <<x, n>> \in Chunks BY <1>2 DEF Chunks
<1>4. \A n \in 1..Parts[x] : Job("append", x, n) \in Jobs /\ Job("index", x, n) \in Jobs
  BY <1>2 DEF Jobs, Job
<1> QED BY <1>3, <1>4 DEF Jobs, Job, Idle

\* What a job's fields say, by what it is at.
LEMMA JobCases ==
    ASSUME NEW j \in Jobs
    PROVE  /\ j.at \in {"idle", "mark", "append", "index", "row"}
           /\ j.at = "idle" <=> j = Idle
           /\ j.at = "idle" <=> j.item = NoItem
           /\ j.at # "idle" => j.item \in Items
           /\ j.at \in {"append", "index"} => j.part \in 1..Parts[j.item] /\ j.part \in Nat
           /\ j = Job(j.at, j.item, j.part)
BY ItemAssumption DEF Jobs, Idle, Job

LEMMA TypeInit == Init => TypeOK
<1> SUFFICES ASSUME Init PROVE TypeOK OBVIOUS
<1>1. <<>> \in Seq(Items) /\ <<>> \in Seq(Chunks) OBVIOUS
<1>2. Idle \in Jobs BY DEF Jobs
<1>3. 0 \in 0..MaxStarts BY StartAssumption
<1>4. phase \in Phases /\ metaFile \in {NoFile, Torn} BY DEF Init, Phases
<1>5. job \in [Loaders -> Jobs] BY <1>2 DEF Init
<1>6. rows \in [Docs -> Items \cup {NoItem}] /\ deleting \in [Docs -> Items \cup {NoItem}]
  BY DEF Init
<1> QED BY <1>1, <1>3, <1>4, <1>5, <1>6 DEF Init, TypeOK

LEMMA TypeStep == TypeOK /\ [Next]_vars => TypeOK'
<1> SUFFICES ASSUME TypeOK, [Next]_vars PROVE TypeOK' OBVIOUS
<1> USE DEF TypeOK
<1>0. <<>> \in Seq(Items) /\ <<>> \in Seq(Chunks) /\ Corpus \in Seq(Items) /\ Idle \in Jobs
  BY CorpusAssumption DEF Jobs
<1>1. CASE Start
  <2>1. metaFile.state = "ok" => metaFile.list \in Seq(Chunks) BY DEF NoFile, Torn
  <2>2. starts' \in 0..MaxStarts BY <1>1, StartAssumption DEF Start
  <2>3. mixed' \in BOOLEAN BY <1>1 DEF Start
  <2> QED BY <1>0, <1>1, <2>1, <2>2, <2>3 DEF Start, Forgotten, IndexFromDisk, Phases, disk
<1>2. CASE SaveIndex
  BY <1>2 DEF SaveIndex, IndexSaved, Phases, memory, history
<1>3. CASE OpenMetadata
  BY <1>3 DEF OpenMetadata, Phases, memory, history
<1>4. CASE DumpMetadata
  BY <1>4 DEF DumpMetadata, Phases, memory, history
<1>5. CASE Crash
  BY <1>0, <1>5 DEF Crash, Forgotten, Phases, disk
<1>6. ASSUME NEW t \in Loaders, NEW x \in Items, Check(t, x) PROVE TypeOK'
  <2>1. todo' \in Seq(Items)
    <3>1. todo # <<>> => Tail(todo) \in Seq(Items) BY HeadTailProperties
    <3> QED BY <1>6, <3>1 DEF Check
  <2>2. job' \in [Loaders -> Jobs] BY <1>0, <1>6, JobFacts DEF Check, Goto
  <2> QED BY <1>6, <2>1, <2>2 DEF Check, disk, history
<1>7. ASSUME NEW t \in Loaders, Mark(t) PROVE TypeOK'
  <2>1. job[t].item \in Items BY <1>7, JobCases DEF Mark
  <2>2. Parts[job[t].item] # 0 => 1 \in 1..Parts[job[t].item]
    BY <2>1, ItemAssumption
  <2>3. job' \in [Loaders -> Jobs]
    <3>1. Job("row", job[t].item, 0) \in Jobs BY <2>1, JobFacts
    <3>2. Parts[job[t].item] # 0 => Job("append", job[t].item, 1) \in Jobs
      BY <2>1, <2>2, JobFacts
    <3>3. PICK j \in Jobs : job' = [job EXCEPT ![t] = j]
      BY <1>0, <1>7, <3>1, <3>2 DEF Mark, Goto, GivenUp
    <3> QED BY <3>3
  <2>4. hashes' \subseteq Items BY <1>7, <2>1 DEF Mark, Marked
  <2> QED BY <1>7, <2>3, <2>4 DEF Mark, disk, history
<1>8. ASSUME NEW t \in Loaders, AppendMetadata(t) PROVE TypeOK'
  <2> DEFINE j == job[t]
  <2>1. j \in Jobs /\ j.at = "append" BY <1>8 DEF AppendMetadata
  <2>2. j.item \in Items /\ j.part \in 1..Parts[j.item] BY <2>1, JobCases
  <2>3. [j EXCEPT !.at = "index"] = Job("index", j.item, j.part) BY <2>1, JobCases DEF Job
  <2>4. job' \in [Loaders -> Jobs]
    BY <1>8, <2>2, <2>3, JobFacts DEF AppendMetadata, Goto
  <2>5. meta' \in Seq(Chunks) BY <1>8, <2>2, JobFacts DEF AppendMetadata
  <2>6. raced' \in BOOLEAN BY <1>8 DEF AppendMetadata
  <2> QED BY <1>8, <2>4, <2>5, <2>6 DEF AppendMetadata, disk
<1>9. ASSUME NEW t \in Loaders, AddToIndex(t) PROVE TypeOK'
  <2> DEFINE j == job[t]
  <2>1. j \in Jobs /\ j.at = "index" BY <1>9 DEF AddToIndex
  <2>2. j.item \in Items /\ j.part \in 1..Parts[j.item] BY <2>1, JobCases
  <2>3. ~LastOne(j) => j.part + 1 \in 1..Parts[j.item]
    BY <2>2, ItemAssumption DEF LastOne
  <2>4. job' \in [Loaders -> Jobs]
    BY <1>9, <2>2, <2>3, JobFacts DEF AddToIndex, Goto
  <2>5. index' \in Seq(Chunks) BY <1>9, <2>2, JobFacts DEF AddToIndex
  <2> QED BY <1>9, <2>4, <2>5 DEF AddToIndex, disk, history
<1>10. ASSUME NEW t \in Loaders, SaveRow(t) PROVE TypeOK'
  <2>1. job[t].item \in Items BY <1>10, JobCases DEF SaveRow
  <2>2. job' \in [Loaders -> Jobs] BY <1>0, <1>10 DEF SaveRow, Goto
  <2>3. rows' \in [Docs -> Items \cup {NoItem}] BY <1>10, <2>1 DEF SaveRow
  <2> QED BY <1>10, <2>2, <2>3 DEF SaveRow, disk, history
<1>11. ASSUME NEW d \in Docs, MarkDeleted(d) PROVE TypeOK'
  BY <1>11 DEF MarkDeleted, disk, history
<1>12. ASSUME NEW d \in Docs, SaveDeleted(d) PROVE TypeOK'
  BY <1>12 DEF SaveDeleted, disk, history
<1>13. CASE UNCHANGED vars BY <1>13 DEF vars, memory, disk, history
<1> QED BY <1>1, <1>2, <1>3, <1>4, <1>5, <1>6, <1>7, <1>8, <1>9, <1>10, <1>11, <1>12, <1>13 DEF Next

\* TypeOK of the knowledge base, for every corpus, set of loaders and number of starts.
THEOREM TypeCorrect == Spec => []TypeOK
BY TypeInit, TypeStep, PTL DEF Spec

-----------------------------------------------------------------------------
(* The files, and who works in which phase. *)

LoaderStep(t) ==
    \/ \E x \in Items : Check(t, x)
    \/ Mark(t) \/ AppendMetadata(t) \/ AddToIndex(t) \/ SaveRow(t)

\* A loader works while the process serves or is the one that builds, and changes no
\* other loader's job and no file.
LEMMA LoaderFacts ==
    ASSUME TypeOK, Phased, NEW t \in Loaders, LoaderStep(t)
    PROVE  /\ phase = "serving" \/ (phase = "build" /\ t = Main)
           /\ \A u \in Loaders \ {t} : job'[u] = job[u]
           /\ UNCHANGED <<phase, indexFile, metaFile, mixed>>
           /\ raced' => raced \/ \E u \in Loaders \ {t} : job[u].at = "index"
<1>1. ASSUME NEW x \in Items, Check(t, x)
      PROVE  /\ phase = "serving" \/ (phase = "build" /\ t = Main)
             /\ UNCHANGED <<phase, indexFile, metaFile, mixed, raced>>
  BY <1>1 DEF Check, disk, history
<1>2. Mark(t) \/ AppendMetadata(t) \/ AddToIndex(t) \/ SaveRow(t) =>
        /\ phase \in {"build", "serving"}
        /\ job[t].at # "idle"
        /\ UNCHANGED <<phase, indexFile, metaFile, mixed>>
        /\ raced' => raced \/ \E u \in Loaders \ {t} : job[u].at = "index"
  <2>1. Mark(t) \/ AddToIndex(t) \/ SaveRow(t) =>
          /\ phase \in {"build", "serving"} /\ job[t].at # "idle"
          /\ UNCHANGED <<phase, indexFile, metaFile, mixed, raced>>
    BY DEF Mark, AddToIndex, SaveRow, Serving, disk, history
  <2>2. AppendMetadata(t) =>
          /\ phase \in {"build", "serving"} /\ job[t].at # "idle"
          /\ UNCHANGED <<phase, indexFile, metaFile, mixed>>
    BY DEF AppendMetadata, Serving, disk
  <2>3. AppendMetadata(t) =>
          (raced' => raced \/ \E u \in Loaders \ {t} : job[u].at = "index")
    BY DEF AppendMetadata
  <2> QED BY <2>1, <2>2, <2>3
<1>3. phase = "build" /\ job[t].at # "idle" => t = Main
  BY DEF Phased, Idle
<1>4. \A u \in Loaders \ {t} : job'[u] = job[u]
  <2>1. \E j : Goto(t, j)
    BY DEF LoaderStep, Check, Mark, AppendMetadata, AddToIndex, SaveRow
  <2> QED BY <2>1 DEF Goto, TypeOK
<1> QED BY <1>1, <1>2, <1>3, <1>4 DEF LoaderStep

LEMMA PhasedInit == Init => Phased /\ FilesMatch /\ Tight /\ Gap
<1> SUFFICES ASSUME Init PROVE Phased /\ FilesMatch /\ Tight /\ Gap OBVIOUS
<1>1. Adding = {} /\ Cardinality(Adding) = 0 BY FS_EmptySet DEF Init, Adding, Idle
<1>2. Len(meta) = 0 /\ Len(index) = 0 BY DEF Init
<1> QED BY <1>1, <1>2 DEF Init, Phased, FilesMatch, Tight, Gap, NoFile

LEMMA PhasedStep == TypeOK /\ Phased /\ FilesMatch /\ Tight /\ [Next]_vars => Phased' /\ FilesMatch'
<1> SUFFICES ASSUME TypeOK, Phased, FilesMatch, Tight, [Next]_vars PROVE Phased' /\ FilesMatch'
  OBVIOUS
<1>0. Main \in Loaders /\ \A t \in Loaders : job[t].at = "idle" => job[t] = Idle
  BY LoaderAssumption, JobCases DEF TypeOK
<1>1. CASE Start
  <2>1. phase' \in {"build", "serving"} /\ (phase' = "build" => metaFile' = NoFile)
    BY <1>1 DEF Start, TypeOK, disk, NoFile, Torn
  <2>2. (\A t \in Loaders : job'[t] = Idle) /\ raced' = FALSE /\ (phase' = "build" => mixed' = FALSE)
    BY <1>1 DEF Start, Forgotten
  <2> QED BY <1>1, <2>1, <2>2 DEF Start, Phased, FilesMatch, disk
<1>2. CASE SaveIndex
  <2>1. \A t \in Loaders : job[t] = Idle BY <1>2 DEF SaveIndex, Phased
  <2>2. meta = index BY <1>2, <2>1 DEF SaveIndex, Phased, Tight, Adding, Idle
  <2> QED BY <1>2, <2>1, <2>2 DEF SaveIndex, IndexSaved, Phased, FilesMatch, memory, history, NoFile
<1>3. CASE OpenMetadata
  BY <1>3 DEF OpenMetadata, Phased, FilesMatch, memory, history, Torn
<1>4. CASE DumpMetadata
  BY <1>4 DEF DumpMetadata, Phased, FilesMatch, memory, history
<1>5. CASE Crash
  BY <1>5 DEF Crash, Forgotten, Phased, FilesMatch, disk
<1>6. ASSUME NEW t \in Loaders, LoaderStep(t) PROVE Phased' /\ FilesMatch'
  <2>1. phase' = "build" => raced' = FALSE /\ t = Main
    BY <1>6, LoaderFacts DEF Phased, Idle, TypeOK
  <2> QED BY <1>6, <2>1, LoaderFacts DEF Phased, FilesMatch
<1>7. ASSUME NEW d \in Docs, MarkDeleted(d) \/ SaveDeleted(d) PROVE Phased' /\ FilesMatch'
  BY <1>7 DEF MarkDeleted, SaveDeleted, Phased, FilesMatch, disk, history
<1>8. CASE UNCHANGED vars BY <1>8 DEF vars, memory, disk, history, Phased, FilesMatch
<1> QED BY <1>1, <1>2, <1>3, <1>4, <1>5, <1>6, <1>7, <1>8 DEF Next, LoaderStep

LEMMA TightStep == TypeOK /\ Phased /\ Tight /\ [Next]_vars => Tight'
<1> SUFFICES ASSUME TypeOK, Phased, Tight, [Next]_vars PROVE Tight' OBVIOUS
<1>1. CASE Start
  <2>1. Adding' = {} BY <1>1 DEF Start, Forgotten, Adding, Idle
  <2> QED BY <1>1, <2>1 DEF Start, Tight, IndexFromDisk
<1>2. CASE UNCHANGED <<memory, raced, mixed>>
  BY <1>2 DEF memory, Tight, Adding
<1>3. CASE Crash
  <2>1. Adding' = {} BY <1>3 DEF Crash, Forgotten, Adding, Idle
  <2> QED BY <1>3, <2>1 DEF Crash, Tight
<1>4. ASSUME NEW t \in Loaders, (\E x \in Items : Check(t, x)) \/ Mark(t) \/ SaveRow(t)
      PROVE  Tight'
  <2>1. UNCHANGED <<meta, index, raced, mixed>>
    BY <1>4 DEF Check, Mark, SaveRow, history
  <2>2. job[t].at # "index" /\ job'[t].at # "index"
    BY <1>4 DEF Check, Mark, SaveRow, Goto, GivenUp, Job, Idle, TypeOK
  <2>3. \A u \in Loaders \ {t} : job'[u] = job[u]
    BY <1>4, LoaderFacts DEF LoaderStep
  <2>4. Adding' = Adding /\ t \notin Adding BY <2>2, <2>3 DEF Adding
  <2> QED BY <2>1, <2>3, <2>4 DEF Tight, Adding
<1>5. ASSUME NEW t \in Loaders, AppendMetadata(t) PROVE Tight'
  <2>1. SUFFICES ASSUME ~raced', ~mixed' PROVE Tight' BY DEF Tight
  <2>2. ~raced /\ ~mixed /\ Adding = {}
    BY <1>5, <2>1 DEF AppendMetadata, Adding
  <2>3. Adding' = {t} /\ job'[t].item = job[t].item /\ job'[t].part = job[t].part
    <3>1. job'[t] = [job[t] EXCEPT !.at = "index"] /\ job[t] \in Jobs
      BY <1>5 DEF AppendMetadata, Goto, TypeOK
    <3>2. job'[t] = Job("index", job[t].item, job[t].part) BY <3>1, JobCases DEF Job
    <3>3. \A u \in Loaders \ {t} : job'[u] = job[u]
      BY <1>5, LoaderFacts DEF LoaderStep
    <3> QED BY <2>2, <3>2, <3>3 DEF Adding, Job
  <2> QED BY <1>5, <2>2, <2>3 DEF AppendMetadata, Tight
<1>6. ASSUME NEW t \in Loaders, AddToIndex(t) PROVE Tight'
  <2>1. SUFFICES ASSUME ~raced', ~mixed' PROVE Tight' BY DEF Tight
  <2>2. t \in Adding /\ ~raced /\ ~mixed BY <1>6, <2>1 DEF AddToIndex, Adding, history
  <2>3. meta' = index' BY <1>6, <2>2 DEF AddToIndex, Tight
  <2>4. job'[t].at # "index" BY <1>6 DEF AddToIndex, Goto, Job, TypeOK
  <2>5. Adding' = {}
    BY <1>6, <2>2, <2>4, LoaderFacts DEF LoaderStep, Tight, Adding
  <2> QED BY <2>3, <2>5 DEF Tight
<1>7. ASSUME NEW d \in Docs, MarkDeleted(d) \/ SaveDeleted(d) PROVE Tight'
  BY <1>7 DEF MarkDeleted, SaveDeleted, Tight, Adding, history
<1>8. SaveIndex \/ OpenMetadata \/ DumpMetadata \/ UNCHANGED vars => UNCHANGED <<memory, raced, mixed>>
  BY DEF SaveIndex, OpenMetadata, DumpMetadata, vars, history
<1> QED BY <1>1, <1>2, <1>3, <1>4, <1>5, <1>6, <1>7, <1>8 DEF Next

-----------------------------------------------------------------------------
(* The index catches up. *)

LEMMA AddingChange ==
    ASSUME TypeOK, Phased, NEW t \in Loaders, LoaderStep(t)
    PROVE  /\ IsFiniteSet(Adding)
           /\ (\E x \in Items : Check(t, x)) \/ Mark(t) \/ SaveRow(t) => Adding' = Adding
           /\ AppendMetadata(t) => Adding' = Adding \cup {t} /\ t \notin Adding
           /\ AddToIndex(t) => Adding' = Adding \ {t} /\ t \in Adding
<1>1. IsFiniteSet(Adding) BY LoaderAssumption, FS_Subset DEF Adding
<1>2. \A u \in Loaders \ {t} : job'[u] = job[u] BY LoaderFacts
<1>3. (\E x \in Items : Check(t, x)) \/ Mark(t) \/ SaveRow(t) =>
        job[t].at # "index" /\ job'[t].at # "index"
  BY DEF Check, Mark, SaveRow, Goto, GivenUp, Job, Idle, TypeOK
<1>4. AppendMetadata(t) => job[t].at # "index" /\ job'[t].at = "index"
  <2>1. SUFFICES ASSUME AppendMetadata(t) PROVE job[t].at # "index" /\ job'[t].at = "index"
    OBVIOUS
  <2>2. job'[t] = [job[t] EXCEPT !.at = "index"] /\ job[t] \in Jobs
    BY <2>1 DEF AppendMetadata, Goto, TypeOK
  <2>3. job'[t] = Job("index", job[t].item, job[t].part) BY <2>2, JobCases DEF Job
  <2> QED BY <2>1, <2>3 DEF AppendMetadata, Job
<1>5. AddToIndex(t) => job[t].at = "index" /\ job'[t].at # "index"
  BY DEF AddToIndex, Goto, Job, TypeOK
<1> QED BY <1>1, <1>2, <1>3, <1>4, <1>5 DEF Adding

LEMMA GapStep == TypeOK /\ Phased /\ FilesMatch /\ Gap /\ [Next]_vars => Gap'
<1> SUFFICES ASSUME TypeOK, Phased, FilesMatch, Gap, [Next]_vars PROVE Gap' OBVIOUS
<1>0. /\ Len(meta) \in Nat /\ Len(index) \in Nat /\ Len(indexFile) \in Nat
      /\ IsFiniteSet(Adding) /\ Cardinality(Adding) \in Nat
  BY LoaderAssumption, FS_Subset, FS_CardinalityType DEF TypeOK, Adding
<1>1. CASE Start
  <2>1. Adding' = {} BY <1>1 DEF Start, Forgotten, Adding, Idle
  <2>2. Cardinality(Adding') = 0 BY <2>1, FS_EmptySet
  <2>3. Len(meta') <= Len(index') /\ Len(index') \in Nat
    <3>1. CASE metaFile.state = "none" /\ meta' = <<>> /\ index' = <<>> BY <3>1
    <3>2. CASE metaFile.state = "ok" /\ meta' = metaFile.list /\ index' = indexFile
      <4>1. CASE metaFile.list = <<>> BY <1>0, <3>2, <4>1
      <4>2. CASE metaFile.list # <<>> BY <1>0, <3>2, <4>2 DEF FilesMatch
      <4> QED BY <4>1, <4>2
    <3> QED BY <1>1, <3>1, <3>2 DEF Start, IndexFromDisk
  <2> QED BY <2>2, <2>3 DEF Gap
<1>2. CASE UNCHANGED memory BY <1>2 DEF memory, Gap, Adding
<1>3. CASE Crash
  <2>1. Adding' = {} BY <1>3 DEF Crash, Forgotten, Adding, Idle
  <2>2. Cardinality(Adding') = 0 /\ Len(meta') = 0 /\ Len(index') = 0
    BY <1>3, <2>1, FS_EmptySet DEF Crash
  <2> QED BY <2>2 DEF Gap
<1>4. ASSUME NEW t \in Loaders, LoaderStep(t) PROVE Gap'
  <2>1. CASE (\E x \in Items : Check(t, x)) \/ Mark(t) \/ SaveRow(t)
    BY <1>4, <2>1, AddingChange DEF Check, Mark, SaveRow, Gap
  <2>2. CASE AppendMetadata(t)
    <3>1. Len(meta') = Len(meta) + 1 /\ index' = index BY <2>2 DEF AppendMetadata, TypeOK
    <3>2. Cardinality(Adding') = Cardinality(Adding) + 1
      BY <1>0, <1>4, <2>2, AddingChange, FS_AddElement
    <3> QED BY <1>0, <3>1, <3>2 DEF Gap
  <2>3. CASE AddToIndex(t)
    <3>1. Len(index') = Len(index) + 1 /\ meta' = meta BY <2>3 DEF AddToIndex, TypeOK
    <3>2. Cardinality(Adding') = Cardinality(Adding) - 1
      BY <1>0, <1>4, <2>3, AddingChange, FS_RemoveElement
    <3> QED BY <1>0, <3>1, <3>2 DEF Gap
  <2> QED BY <1>4, <2>1, <2>2, <2>3 DEF LoaderStep
<1>5. ASSUME NEW d \in Docs, MarkDeleted(d) \/ SaveDeleted(d) PROVE Gap'
  BY <1>5 DEF MarkDeleted, SaveDeleted, Gap, Adding
<1>6. SaveIndex \/ OpenMetadata \/ DumpMetadata \/ UNCHANGED vars => UNCHANGED memory
  BY DEF SaveIndex, OpenMetadata, DumpMetadata, vars
<1> QED BY <1>1, <1>2, <1>3, <1>4, <1>5, <1>6 DEF Next, LoaderStep

-----------------------------------------------------------------------------
(* What has a row has been appended. *)

LEMMA WrittenStays ==
    ASSUME TypeOK, meta' = meta \/ \E c \in Chunks : meta' = Append(meta, c),
           NEW x, NEW n, Written(x, n)
    PROVE  Written(x, n)'
<1>1. meta \in Seq(Chunks) BY DEF TypeOK
<1>2. PICK p \in DOMAIN meta : meta[p] = <<x, n>> BY DEF Written
<1>3. p \in DOMAIN meta' /\ meta'[p] = meta[p] BY <1>1, <1>2
<1> QED BY <1>2, <1>3 DEF Written

LEMMA DoneFacts ==
    ASSUME NEW j
    PROVE  /\ j.at \in {"idle", "mark"} => Done(j) = {}
           /\ j.at = "append" => Done(j) = 1..(j.part - 1)
           /\ j.at = "index" => Done(j) = 1..j.part
           /\ j.at = "row" => Done(j) = 1..Parts[j.item]
BY DEF Done

LEMMA RecordedInit == Init => Recorded
<1> SUFFICES ASSUME Init PROVE Recorded OBVIOUS
<1>1. \A t \in Loaders : Done(job[t]) = {} BY DoneFacts DEF Init, Idle
<1> QED BY <1>1 DEF Init, Recorded

LEMMA RecordedStep == TypeOK /\ Phased /\ Recorded /\ [Next]_vars => Recorded'
<1> SUFFICES ASSUME TypeOK, Phased, Recorded, [Next]_vars PROVE Recorded' OBVIOUS
<1>1. CASE Forgotten
  <2>1. \A t \in Loaders : Done(job'[t]) = {} BY <1>1, DoneFacts DEF Forgotten, Idle
  <2>2. \A d \in Docs : {rows'[d], deleting'[d]} \ {NoItem} = {} BY <1>1 DEF Forgotten
  <2> QED BY <2>1, <2>2 DEF Recorded
<1>2. CASE UNCHANGED memory BY <1>2 DEF memory, Recorded, Written
<1>3. ASSUME NEW t \in Loaders, LoaderStep(t) PROVE Recorded'
  <2> DEFINE j == job[t]
             W(x, n) == \E p \in DOMAIN meta' : meta'[p] = <<x, n>>
  <2>1. j \in Jobs /\ \A u \in Loaders \ {t} : job'[u] = job[u] BY <1>3, LoaderFacts DEF TypeOK
  <2>2. meta' = meta \/ \E c \in Chunks : meta' = Append(meta, c)
    BY <1>3, <2>1, JobCases, JobFacts DEF LoaderStep, Check, Mark, AppendMetadata, AddToIndex, SaveRow
  <2>3. \A x, n : Written(x, n) => W(x, n) BY <2>2, WrittenStays DEF Written
  <2>4. \A n \in Done(job'[t]) : W(job'[t].item, n)
    <3>1. CASE (\E x \in Items : Check(t, x)) \/ SaveRow(t)
      <4>1. job'[t].at \in {"idle", "mark"}
        BY <3>1 DEF Check, SaveRow, Goto, Idle, Job, TypeOK
      <4> QED BY <4>1, DoneFacts
    <3>2. CASE Mark(t)
      <4>1. j.item \in Items /\ Parts[j.item] \in Nat
        BY <2>1, <3>2, JobCases, ItemAssumption DEF Mark
      <4>2. Done(job'[t]) = {}
        <5>1. CASE job'[t] = Job("row", j.item, 0) /\ Parts[j.item] = 0
          BY <5>1, DoneFacts DEF Job
        <5>2. CASE job'[t] = Job("append", j.item, 1) BY <5>2, DoneFacts DEF Job
        <5>3. CASE job'[t] = Idle BY <5>3, DoneFacts DEF Idle
        <5> QED BY <3>2, <5>1, <5>2, <5>3 DEF Mark, GivenUp, Goto, TypeOK
      <4> QED BY <4>2
    <3>3. CASE AppendMetadata(t)
      <4>1. j.part \in Nat /\ j.part >= 1 /\ <<j.item, j.part>> \in Chunks
        BY <2>1, <3>3, JobCases, JobFacts DEF AppendMetadata
      <4>2. j = Job("append", j.item, j.part) BY <2>1, <3>3, JobCases DEF AppendMetadata
      <4>3. job'[t] = Job("index", j.item, j.part)
        BY <3>3, <4>2 DEF AppendMetadata, Goto, Job, TypeOK
      <4>4. \A n \in 1..(j.part - 1) : W(j.item, n)
        BY <2>3, <3>3, DoneFacts DEF AppendMetadata, Recorded
      <4>5. W(j.item, j.part)
        <5>1. meta' = Append(meta, <<j.item, j.part>>) /\ meta \in Seq(Chunks)
          BY <3>3 DEF AppendMetadata, TypeOK
        <5>2. Len(meta) + 1 \in DOMAIN meta' /\ meta'[Len(meta) + 1] = <<j.item, j.part>>
          BY <4>1, <5>1
        <5> QED BY <5>2
      <4>6. Done(job'[t]) = 1..j.part /\ job'[t].item = j.item BY <4>3, DoneFacts DEF Job
      <4> QED BY <4>1, <4>4, <4>5, <4>6
    <3>4. CASE AddToIndex(t)
      <4>1. j.part \in Nat BY <2>1, <3>4, JobCases DEF AddToIndex
      <4>2. j = Job("index", j.item, j.part) BY <2>1, <3>4, JobCases DEF AddToIndex
      <4>3. job'[t] = IF LastOne(j) THEN Job("row", j.item, 0)
                                    ELSE Job("append", j.item, j.part + 1)
        BY <3>4 DEF AddToIndex, Goto, TypeOK
      <4>4. \A n \in 1..j.part : W(j.item, n) BY <2>3, <3>4, DoneFacts DEF AddToIndex, Recorded
      <4>5. job'[t].item = j.item BY <4>3 DEF Job
      <4>6. Done(job'[t]) = 1..j.part
        <5>1. CASE LastOne(j)
          <6>1. job'[t].at = "row" BY <4>3, <5>1 DEF Job
          <6> QED BY <4>5, <5>1, <6>1, DoneFacts DEF LastOne
        <5>2. CASE ~LastOne(j)
          <6>1. job'[t].at = "append" /\ job'[t].part = j.part + 1 BY <4>3, <5>2 DEF Job
          <6>2. job'[t].part - 1 = j.part BY <4>1, <6>1
          <6>3. Done(job'[t]) = 1..(job'[t].part - 1) BY <6>1, DoneFacts
          <6> QED BY <6>2, <6>3
        <5> QED BY <5>1, <5>2
      <4> QED BY <4>4, <4>5, <4>6
    <3> QED BY <1>3, <3>1, <3>2, <3>3, <3>4 DEF LoaderStep
  <2>5. ASSUME NEW d \in Docs, NEW x \in {rows'[d], deleting'[d]} \ {NoItem}
        PROVE  DocOf[x] = d /\ \A n \in 1..Parts[x] : W(x, n)
    <3>1. CASE x \in {rows[d], deleting[d]} BY <2>3, <2>5, <3>1 DEF Recorded
    <3>2. CASE x \notin {rows[d], deleting[d]}
      <4>1. SaveRow(t) /\ x = j.item /\ d = DocOf[j.item]
        BY <1>3, <2>5, <3>2
        DEF LoaderStep, Check, Mark, AppendMetadata, AddToIndex, SaveRow, TypeOK
      <4>2. \A n \in 1..Parts[j.item] : Written(j.item, n)
        <5>1. j.at = "row" BY <4>1 DEF SaveRow
        <5>2. Done(j) = 1..Parts[j.item] BY <5>1, DoneFacts
        <5> QED BY <5>2 DEF Recorded
      <4> QED BY <2>3, <4>1, <4>2
    <3> QED BY <3>1, <3>2
  <2> QED BY <2>1, <2>3, <2>4, <2>5 DEF Recorded, Written
<1>4. ASSUME NEW d \in Docs, MarkDeleted(d) \/ SaveDeleted(d) PROVE Recorded'
  <2>1. UNCHANGED <<meta, job>> BY <1>4 DEF MarkDeleted, SaveDeleted
  <2>2. \A e \in Docs : {rows'[e], deleting'[e]} \ {NoItem} \subseteq {rows[e], deleting[e]} \ {NoItem}
    BY <1>4 DEF MarkDeleted, SaveDeleted, TypeOK
  <2> QED BY <2>1, <2>2 DEF Recorded, Written
<1>5. SaveIndex \/ OpenMetadata \/ DumpMetadata \/ UNCHANGED vars => UNCHANGED memory
  BY DEF SaveIndex, OpenMetadata, DumpMetadata, vars
<1>6. Start \/ Crash => Forgotten BY DEF Start, Crash
<1> QED BY <1>1, <1>2, <1>3, <1>4, <1>5, <1>6 DEF Next, LoaderStep

-----------------------------------------------------------------------------
(* Copies are bounded. *)

LEMMA Finite ==
    ASSUME TypeOK, NEW c
    PROVE  /\ IsFiniteSet(Copies(c)) /\ Cardinality(Copies(c)) \in Nat
           /\ IsFiniteSet(Pending(c)) /\ Cardinality(Pending(c)) \in Nat
           /\ Cardinality(Pending(c)) <= Cardinality(Loaders)
           /\ Cardinality(Loaders) \in Nat /\ Cardinality(Loaders) >= 1
<1>1. DOMAIN meta = 1..Len(meta) /\ Len(meta) \in Nat BY LenProperties DEF TypeOK
<1>2. IsFiniteSet(DOMAIN meta) BY <1>1, FS_Interval
<1>3. IsFiniteSet(Copies(c)) BY <1>2, FS_Subset DEF Copies
<1>4. IsFiniteSet(Pending(c)) /\ Cardinality(Pending(c)) <= Cardinality(Loaders)
  BY LoaderAssumption, FS_Subset DEF Pending
<1>5. Cardinality({Main}) = 1 /\ Cardinality({Main}) <= Cardinality(Loaders)
  BY LoaderAssumption, FS_Singleton, FS_Subset
<1> QED BY <1>3, <1>4, <1>5, LoaderAssumption, FS_CardinalityType

\* What appending one chunk does to the copies of each.
LEMMA CopiesAppend ==
    ASSUME TypeOK, NEW e \in Chunks, meta' = Append(meta, e), NEW c
    PROVE  Cardinality(Copies(c)') = Cardinality(Copies(c)) + (IF c = e THEN 1 ELSE 0)
<1>1. Len(meta) \in Nat /\ DOMAIN meta = 1..Len(meta) BY LenProperties DEF TypeOK
<1>2. /\ DOMAIN meta' = 1..(Len(meta) + 1)
      /\ \A p \in 1..Len(meta) : meta'[p] = meta[p]
      /\ meta'[Len(meta) + 1] = e
  BY <1>1, AppendProperties DEF TypeOK
<1>3. Copies(c)' = IF c = e THEN Copies(c) \cup {Len(meta) + 1} ELSE Copies(c)
  BY <1>1, <1>2 DEF Copies
<1>4. Len(meta) + 1 \notin Copies(c) BY <1>1 DEF Copies
<1>5. IsFiniteSet(Copies(c)) /\ Cardinality(Copies(c)) \in Nat BY Finite
<1>6. CASE c = e
  <2>1. Cardinality(Copies(c) \cup {Len(meta) + 1}) = Cardinality(Copies(c)) + 1
    BY <1>4, <1>5, FS_AddElement
  <2> QED BY <1>3, <1>6, <2>1
<1>7. CASE c # e
  <2>1. Cardinality(Copies(c)') = Cardinality(Copies(c)) BY <1>3, <1>7
  <2> QED BY <1>5, <1>7, <2>1
<1> QED BY <1>6, <1>7

\* No step but a check that finds no hash adds to the loaders that will append a chunk,
\* and the one that appends it is one of them no more.
LEMMA PendingChange ==
    ASSUME TypeOK, Phased, NEW t \in Loaders, LoaderStep(t), NEW c \in Chunks
    PROVE  /\ Pending(c)' \subseteq Pending(c) \cup {t}
           /\ \/ Pending(c)' \subseteq Pending(c)
              \/ Check(t, c[1]) /\ c[1] \notin hashes
           /\ AppendMetadata(t) /\ c = <<job[t].item, job[t].part>> =>
                t \in Pending(c) /\ Pending(c)' \subseteq Pending(c) \ {t}
<1> DEFINE j == job[t]
<1>0. c[2] \in Nat BY DEF Chunks
<1>1. j \in Jobs /\ \A u \in Loaders \ {t} : job'[u] = job[u] BY LoaderFacts DEF TypeOK
<1>2. Pending(c)' \subseteq Pending(c) \cup {t} BY <1>1 DEF Pending
<1>3. t \in Pending(c)' => t \in Pending(c) \/ (Check(t, c[1]) /\ c[1] \notin hashes)
  <2>1. SUFFICES ASSUME t \in Pending(c)'
        PROVE  t \in Pending(c) \/ (Check(t, c[1]) /\ c[1] \notin hashes)
    OBVIOUS
  <2>2. /\ job'[t].item = c[1]
        /\ \/ job'[t].at = "mark"
           \/ job'[t].at = "append" /\ job'[t].part <= c[2]
           \/ job'[t].at = "index" /\ job'[t].part < c[2]
    BY <2>1 DEF Pending
  <2>3. ASSUME NEW x \in Items, Check(t, x) PROVE Check(t, c[1]) /\ c[1] \notin hashes
    BY <2>2, <2>3 DEF Check, Goto, Idle, Job, TypeOK
  <2>4. CASE Mark(t)
    <3>1. j.at = "mark" /\ j.item = c[1]
      BY <2>2, <2>4 DEF Mark, Goto, GivenUp, Idle, Job, TypeOK
    <3> QED BY <3>1 DEF Pending
  <2>5. CASE AppendMetadata(t)
    <3>1. job'[t] = [j EXCEPT !.at = "index"] BY <2>5 DEF AppendMetadata, Goto, TypeOK
    <3>2. j = Job("append", j.item, j.part) /\ j.part \in Nat
      BY <1>1, <2>5, JobCases DEF AppendMetadata
    <3>3. job'[t] = Job("index", j.item, j.part) BY <3>1, <3>2 DEF Job
    <3>4. j.item = c[1] /\ j.part < c[2] BY <2>2, <3>3 DEF Job
    <3> QED BY <1>0, <2>5, <3>2, <3>4 DEF AppendMetadata, Pending
  <2>6. CASE AddToIndex(t)
    <3>1. j.part \in Nat BY <1>1, <2>6, JobCases DEF AddToIndex
    <3>2. job'[t] = Job("append", j.item, j.part + 1)
      BY <2>2, <2>6 DEF AddToIndex, Goto, Job, TypeOK
    <3>3. j.item = c[1] /\ j.part + 1 <= c[2] BY <2>2, <3>2 DEF Job
    <3>4. j.part < c[2] BY <1>0, <3>1, <3>3
    <3> QED BY <2>6, <3>3, <3>4 DEF AddToIndex, Pending
  <2>7. CASE SaveRow(t) BY <2>2, <2>7 DEF SaveRow, Goto, Idle, TypeOK
  <2> QED BY <2>3, <2>4, <2>5, <2>6, <2>7 DEF LoaderStep
<1>4. ASSUME AppendMetadata(t), c = <<j.item, j.part>>
      PROVE  t \in Pending(c) /\ t \notin Pending(c)'
  <2>1. j = Job("append", j.item, j.part) /\ j.part \in Nat
    BY <1>1, <1>4, JobCases DEF AppendMetadata
  <2>2. c[1] = j.item /\ c[2] = j.part BY <1>4
  <2>3. job'[t] = [j EXCEPT !.at = "index"] BY <1>4 DEF AppendMetadata, Goto, TypeOK
  <2>4. job'[t] = Job("index", j.item, j.part) BY <2>1, <2>3 DEF Job
  <2>5. t \in Pending(c) BY <1>4, <2>1, <2>2 DEF AppendMetadata, Pending
  <2>6. ~(j.part < j.part) BY <2>1
  <2>7. t \notin Pending(c)' BY <2>2, <2>4, <2>6 DEF Pending, Job
  <2> QED BY <2>5, <2>7
<1> QED BY <1>2, <1>3, <1>4

LEMMA CountedInit == Init => Counted
<1> SUFFICES ASSUME Init PROVE Counted OBVIOUS
<1>1. \A t \in Loaders : job[t] = Idle BY DEF Init
<1>2. \A c \in Chunks : Copies(c) = {} /\ Pending(c) = {}
  BY <1>1, ItemAssumption DEF Init, Copies, Pending, Idle, Chunks
<1>3. \A c : {p \in DOMAIN metaFile.list : metaFile.list[p] = c} = {} BY DEF Init, NoFile
<1>4. Cardinality({}) = 0 BY FS_EmptySet
<1>5. Cardinality(Loaders) \in Nat BY LoaderAssumption, FS_CardinalityType
<1>6. Limit \in Nat /\ FromFile \in Nat BY <1>5 DEF Limit, FromFile
<1> QED BY <1>1, <1>2, <1>3, <1>4, <1>6 DEF Counted, Idle

LEMMA CountedStep == TypeOK /\ Phased /\ Counted /\ [Next]_vars => Counted'
<1> SUFFICES ASSUME TypeOK, Phased, Counted, [Next]_vars PROVE Counted' OBVIOUS
<1> DEFINE InFile(c) == {p \in DOMAIN metaFile.list : metaFile.list[p] = c}
<1>0. /\ Cardinality({}) = 0
      /\ Cardinality(Loaders) \in Nat /\ Cardinality(Loaders) >= 1
      /\ \A c : Cardinality(Copies(c)) \in Nat /\ Cardinality(Pending(c)) \in Nat
  BY FS_EmptySet, Finite
<1>1. ASSUME Forgotten, metaFile' = metaFile, phase' \in {"build", "serving", "down"},
             \/ meta' = <<>>
             \/ phase' = "serving" /\ meta' = metaFile.list
      PROVE  Counted'
  <2>1. \A t \in Loaders : job'[t] = Idle BY <1>1 DEF Forgotten
  <2>2. \A c \in Chunks : Pending(c)' = {}
    BY <2>1, ItemAssumption DEF Pending, Idle, Chunks
  <2>3. \A c \in Chunks : Cardinality(Copies(c)') <= FromFile' /\ Cardinality(Copies(c)') <= 1
    <3>1. CASE meta' = <<>>
      <4>1. \A c : Copies(c)' = {} BY <3>1 DEF Copies
      <4> QED BY <1>0, <4>1 DEF FromFile
    <3>2. CASE phase' = "serving" /\ meta' = metaFile.list
      <4>1. \A c : Copies(c)' = InFile(c) BY <3>2 DEF Copies
      <4> QED BY <3>2, <4>1 DEF FromFile, Counted
    <3> QED BY <1>1, <3>1, <3>2
  <2>4. Limit' \in Nat /\ Limit' >= 1 BY <1>0, <1>1 DEF Limit
  <2>5. \A c \in Chunks : Cardinality(Copies(c)') \in Nat
    <3>1. CASE meta' = <<>>
      <4>1. \A c : Copies(c)' = {} BY <3>1 DEF Copies
      <4> QED BY <1>0, <4>1
    <3>2. CASE meta' = metaFile.list
      <4>1. metaFile.list \in Seq(Chunks)
        <5>1. CASE metaFile \in {NoFile, Torn}
          <6>1. metaFile.list = <<>> BY <5>1 DEF NoFile, Torn
          <6> QED BY <6>1
        <5>2. CASE metaFile \in [state : {"ok"}, list : Seq(Chunks)] BY <5>2
        <5> QED BY <5>1, <5>2 DEF TypeOK
      <4>2. DOMAIN metaFile.list = 1..Len(metaFile.list) /\ Len(metaFile.list) \in Nat
        BY <4>1, LenProperties
      <4>3. IsFiniteSet(DOMAIN metaFile.list) BY <4>2, FS_Interval
      <4>4. \A c : Copies(c)' = InFile(c) BY <3>2 DEF Copies
      <4>5. \A c : IsFiniteSet(InFile(c)) BY <4>3, FS_Subset
      <4> QED BY <4>4, <4>5, FS_CardinalityType
    <3> QED BY <1>1, <3>1, <3>2
  <2>6. \A c \in Chunks : Cardinality(Copies(c)') + Cardinality(Pending(c)') <= Limit'
    BY <1>0, <2>2, <2>3, <2>4, <2>5
  <2>7. \A c \in Chunks : Cardinality(InFile(c)') <= 1 BY <1>1 DEF Counted
  <2> QED BY <2>1, <2>3, <2>6, <2>7 DEF Counted, Idle
<1>2. CASE SaveIndex \/ OpenMetadata \/ DumpMetadata
  <2>1. UNCHANGED <<hashes, meta, job>>
    BY <1>2 DEF SaveIndex, OpenMetadata, DumpMetadata, memory
  <2>2. \A c : Copies(c)' = Copies(c) /\ Pending(c)' = Pending(c)
    BY <2>1 DEF Copies, Pending
  <2>3. Limit = 1 /\ FromFile' = 1 /\ Limit' \in Nat /\ Limit' >= 1
    BY <1>0, <1>2 DEF SaveIndex, OpenMetadata, DumpMetadata, Limit, FromFile
  <2>4. ASSUME NEW c \in Chunks
        PROVE  /\ Cardinality(Copies(c)) <= 1
               /\ Cardinality(Copies(c)) + Cardinality(Pending(c)) <= Limit'
    <3>1. Cardinality(Copies(c)) + Cardinality(Pending(c)) <= Limit BY DEF Counted
    <3>2. Cardinality(Copies(c)) \in Nat /\ Cardinality(Pending(c)) \in Nat BY <1>0
    <3> QED BY <2>3, <3>1, <3>2
  <2>5. \A c \in Chunks : Cardinality(InFile(c)') <= 1
    <3>1. CASE SaveIndex BY <3>1 DEF SaveIndex, Counted
    <3>2. CASE OpenMetadata
      <4>1. \A c : InFile(c)' = {} BY <3>2 DEF OpenMetadata, Torn
      <4> QED BY <1>0, <4>1
    <3>3. CASE DumpMetadata
      <4>1. \A c : InFile(c)' = Copies(c) BY <3>3 DEF DumpMetadata, Copies
      <4> QED BY <2>4, <4>1
    <3> QED BY <1>2, <3>1, <3>2, <3>3
  <2> QED BY <2>1, <2>2, <2>3, <2>4, <2>5 DEF Counted
<1>3. ASSUME NEW t \in Loaders, LoaderStep(t) PROVE Counted'
  <2>1. UNCHANGED <<phase, metaFile>> /\ \A u \in Loaders \ {t} : job'[u] = job[u]
    BY <1>3, LoaderFacts
  <2>2. Limit' = Limit /\ FromFile' = FromFile /\ Limit \in Nat /\ FromFile \in Nat
    BY <1>0, <2>1 DEF Limit, FromFile
  <2>3. hashes \subseteq hashes'
    BY <1>3 DEF LoaderStep, Check, Mark, Marked, AppendMetadata, AddToIndex, SaveRow
  <2>4. \A u \in Loaders : job'[u].at \in {"append", "index", "row"} => job'[u].item \in hashes'
    <3>1. CASE (\E x \in Items : Check(t, x)) \/ SaveRow(t)
      <4>1. job'[t].at \in {"idle", "mark"}
        BY <3>1 DEF Check, SaveRow, Goto, Idle, Job, TypeOK
      <4> QED BY <2>1, <2>3, <4>1 DEF Counted
    <3>2. CASE Mark(t)
      <4>1. job'[t] = Idle \/ job'[t].item \in hashes'
        BY <3>2 DEF Mark, Marked, Goto, GivenUp, Job, TypeOK
      <4> QED BY <2>1, <2>3, <4>1 DEF Counted, Idle
    <3>3. CASE AppendMetadata(t) \/ AddToIndex(t)
      <4>1. job'[t].item = job[t].item
        <5>1. CASE AppendMetadata(t)
          <6>1. job'[t] = [job[t] EXCEPT !.at = "index"] /\ job[t] \in Jobs
            BY <5>1 DEF AppendMetadata, Goto, TypeOK
          <6> QED BY <6>1, JobCases DEF Job
        <5>2. CASE AddToIndex(t) BY <5>2 DEF AddToIndex, Goto, Job, TypeOK
        <5> QED BY <3>3, <5>1, <5>2
      <4>2. job[t].item \in hashes BY <3>3 DEF AppendMetadata, AddToIndex, Counted
      <4> QED BY <2>1, <2>3, <4>1, <4>2 DEF Counted
    <3> QED BY <1>3, <3>1, <3>2, <3>3 DEF LoaderStep
  <2>5. ASSUME NEW c \in Chunks
        PROVE  /\ Cardinality(Copies(c)') + Cardinality(Pending(c)') <= Limit
               /\ c[1] \notin hashes' => Cardinality(Copies(c)') <= FromFile
    <3>0. /\ IsFiniteSet(Pending(c)) /\ IsFiniteSet(Pending(c)')
          /\ Cardinality(Pending(c)') \in Nat
          /\ Cardinality(Pending(c)') <= Cardinality(Loaders)
      BY LoaderAssumption, FS_Subset, FS_CardinalityType DEF Pending
    <3>1. Cardinality(Copies(c)) + Cardinality(Pending(c)) <= Limit
      BY DEF Counted
    <3>2. CASE AppendMetadata(t)
      <4> DEFINE e == <<job[t].item, job[t].part>>
      <4>1. meta' = Append(meta, e) /\ e \in Chunks /\ hashes' = hashes
        BY <3>2, JobCases, JobFacts DEF AppendMetadata, TypeOK
      <4>2. Cardinality(Copies(c)') = Cardinality(Copies(c)) + (IF c = e THEN 1 ELSE 0)
        BY <4>1, CopiesAppend
      <4>3. CASE c = e
        <5>1. t \in Pending(c) /\ Pending(c)' \subseteq Pending(c) \ {t}
          BY <1>3, <3>2, <4>3, PendingChange
        <5>2. /\ IsFiniteSet(Pending(c) \ {t})
              /\ Cardinality(Pending(c) \ {t}) = Cardinality(Pending(c)) - 1
          BY <3>0, <5>1, FS_RemoveElement
        <5>3. Cardinality(Pending(c)') <= Cardinality(Pending(c)) - 1
          BY <5>1, <5>2, FS_Subset
        <5>4. c[1] \in hashes BY <3>2, <4>3 DEF AppendMetadata, Counted
        <5> QED BY <1>0, <2>2, <3>0, <3>1, <4>1, <4>2, <4>3, <5>3, <5>4
      <4>4. CASE c # e
        <5>1. Pending(c)' \subseteq Pending(c)
          BY <1>3, <3>2, PendingChange DEF AppendMetadata, Check
        <5>2. Cardinality(Pending(c)') <= Cardinality(Pending(c)) BY <3>0, <5>1, FS_Subset
        <5>3. Cardinality(Copies(c)') = Cardinality(Copies(c)) BY <1>0, <4>2, <4>4
        <5>4. c[1] \notin hashes => Cardinality(Copies(c)) <= FromFile BY DEF Counted
        <5> QED BY <1>0, <2>2, <3>0, <3>1, <4>1, <5>2, <5>3, <5>4
      <4> QED BY <4>3, <4>4
    <3>3. CASE ~AppendMetadata(t)
      <4>1. meta' = meta
        BY <1>3, <3>3 DEF LoaderStep, Check, Mark, AddToIndex, SaveRow
      <4>2. Copies(c)' = Copies(c) BY <4>1 DEF Copies
      <4>3. c[1] \notin hashes' => Cardinality(Copies(c)') <= FromFile
        BY <2>3, <4>2 DEF Counted
      <4>4. CASE Pending(c)' \subseteq Pending(c)
        <5>1. Cardinality(Pending(c)') <= Cardinality(Pending(c)) BY <3>0, <4>4, FS_Subset
        <5> QED BY <1>0, <2>2, <3>0, <3>1, <4>2, <4>3, <5>1
      <4>5. CASE Check(t, c[1]) /\ c[1] \notin hashes
        <5>1. Cardinality(Copies(c)) <= FromFile BY <4>5 DEF Counted
        <5>2. Cardinality(Pending(c)') + FromFile <= Limit
          <6>1. CASE phase = "build"
            <7>1. \A u \in Loaders \ {Main} : job'[u] = Idle
              BY <1>3, <2>1, <6>1, LoaderFacts DEF Phased
            <7>2. Pending(c)' \subseteq {Main}
              BY <7>1, ItemAssumption DEF Pending, Idle, Chunks
            <7>3. Cardinality({Main}) = 1 /\ IsFiniteSet({Main}) BY FS_Singleton
            <7>4. Cardinality(Pending(c)') <= 1 BY <7>2, <7>3, FS_Subset
            <7> QED BY <3>0, <6>1, <7>4 DEF Limit, FromFile
          <6>2. CASE phase = "serving" BY <1>0, <3>0, <6>2 DEF Limit, FromFile
          <6> QED BY <1>3, <6>1, <6>2, LoaderFacts
        <5> QED BY <1>0, <2>2, <3>0, <4>2, <4>3, <5>1, <5>2
      <4> QED BY <1>3, <4>4, <4>5, PendingChange
    <3> QED BY <3>2, <3>3
  <2>6. \A c \in Chunks : Cardinality(InFile(c)') <= 1 BY <2>1 DEF Counted
  <2> QED BY <2>2, <2>4, <2>5, <2>6 DEF Counted
<1>4. CASE UNCHANGED <<phase, hashes, meta, job, metaFile>>
  BY <1>4 DEF Counted, Copies, Pending, Limit, FromFile
<1>5. (\E d \in Docs : MarkDeleted(d) \/ SaveDeleted(d)) \/ UNCHANGED vars =>
        UNCHANGED <<phase, hashes, meta, job, metaFile>>
  BY DEF MarkDeleted, SaveDeleted, vars, memory, disk
<1>6. CASE Start \/ Crash
  BY <1>1, <1>6 DEF Start, Crash, disk
<1> QED BY <1>2, <1>3, <1>4, <1>5, <1>6 DEF Next, LoaderStep

-----------------------------------------------------------------------------
(* The inductive invariant and what follows from it. *)

LEMMA InvInit == Init => IInv
BY TypeInit, PhasedInit, RecordedInit, CountedInit DEF IInv

LEMMA InvStep == IInv /\ [Next]_vars => IInv'
BY TypeStep, PhasedStep, TightStep, RecordedStep, GapStep, CountedStep DEF IInv

\* The inductive invariant of loading, deletion, saving, crash and restart.
THEOREM Invariance == Spec => []IInv
BY InvInit, InvStep, PTL DEF Spec

\* FilesMatch: after any crash, metadata that has been written has its own index beside it.
THEOREM FilesMatchHolds == Spec => []FilesMatch
<1>1. IInv => FilesMatch BY DEF IInv
<1> QED BY <1>1, Invariance, PTL

\* Aligned: positions of index and metadata agree unless two loaders met inside add() or
\* the files were of two generations.
THEOREM AlignedHolds == Spec => []Aligned
<1>1. IInv => Aligned
  <2>1. SUFFICES ASSUME IInv, ~raced, ~mixed
        PROVE  Len(index) <= Len(meta) /\ \A p \in DOMAIN index : index[p] = meta[p]
    BY DEF Aligned
  <2>2. Len(index) \in Nat /\ index \in Seq(Chunks) BY <2>1 DEF IInv, TypeOK
  <2>3. CASE Adding = {} BY <2>1, <2>2, <2>3 DEF IInv, Tight
  <2>4. ASSUME NEW t \in Adding
        PROVE  Len(index) <= Len(meta) /\ \A p \in DOMAIN index : index[p] = meta[p]
    BY <2>1, <2>2, <2>4 DEF IInv, Tight
  <2> QED BY <2>3, <2>4
<1> QED BY <1>1, Invariance, PTL

\* Searchable: a document whose row is not deleted is found, with all its chunks, whenever
\* no loader is inside add(), after any restart and any race.
THEOREM SearchableHolds == Spec => []Searchable
<1>1. IInv => Searchable
  <2>1. SUFFICES ASSUME IInv, \A t \in Loaders : job[t].at # "index",
                        NEW d \in Docs \ deleted, rows[d] # NoItem, Kind[rows[d]] = "document"
                 PROVE  Found(rows[d])
    BY DEF Searchable
  <2>2. Adding = {} /\ Cardinality(Adding) = 0 BY <2>1, FS_EmptySet DEF Adding
  <2>3. Len(meta) <= Len(index) /\ Len(meta) \in Nat /\ Len(index) \in Nat
    BY <2>1, <2>2 DEF IInv, Gap, TypeOK
  <2>4. DOMAIN meta \subseteq DOMAIN index
    BY <2>1, <2>3, LenProperties DEF IInv, TypeOK
  <2>5. DocOf[rows[d]] = d /\ \A n \in 1..Parts[rows[d]] : Written(rows[d], n)
    BY <2>1 DEF IInv, Recorded
  <2>6. \A n \in 1..Parts[rows[d]] : <<rows[d], n>> \in Hits
    BY <2>4, <2>5 DEF Written, Hits
  <2>7. d \in Candidates(Domain[rows[d]]) BY <2>1 DEF Candidates
  <2> QED BY <2>5, <2>6, <2>7 DEF Found, Passes
<1> QED BY <1>1, Invariance, PTL

\* CopiesBounded: a chunk is in the store once from the files and once for each loader at
\* most.
THEOREM CopiesBoundedHolds == Spec => []CopiesBounded
<1>1. IInv => CopiesBounded
  <2>1. SUFFICES ASSUME IInv, NEW c \in ToSet(meta)
                 PROVE  Cardinality(Copies(c)) <= 1 + Cardinality(Loaders)
    BY DEF CopiesBounded
  <2>2. c \in Chunks BY <2>1 DEF ToSet, IInv, TypeOK
  <2>3. Cardinality(Copies(c)) + Cardinality(Pending(c)) <= Limit
    BY <2>1, <2>2 DEF IInv, Counted
  <2>4. /\ Cardinality(Copies(c)) \in Nat /\ Cardinality(Pending(c)) \in Nat
        /\ Cardinality(Loaders) \in Nat
    BY <2>1, Finite DEF IInv
  <2> QED BY <2>3, <2>4 DEF Limit
<1> QED BY <1>1, Invariance, PTL
=============================================================================
