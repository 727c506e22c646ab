----------------------------- MODULE Knowledge -----------------------------
(* The knowledge base of infrastructure/kb_loader.py in the process that      *)
(* main.py starts: loader threads with content deduplication, the rows and    *)
(* the vectors they write, deletion, the prefiltered search of                *)
(* memory/storage/hybrid_search.py, and the two files from which a restart    *)
(* loads the vectors alone.                                                   *)
(*                                                                            *)
(* An item is one content of one document, expert case or file, with its hash *)
(* and its chunks.  An embedding is the chunk it was made of, and has the     *)
(* index's dimension.  Ranking is abstracted: search returns all that passes. *)
(* A crash tears the metadata file; write_index is taken to be atomic.        *)
EXTENDS Naturals, Sequences, FiniteSets, SequencesExt

CONSTANTS
    Items,           \* contents that may be loaded
    DocOf,           \* DocOf[x]: doc_id of item x
    Domain,          \* Domain[x]: its biz_domain
    Kind,            \* Kind[x]: loaded by _load_document, _load_case or load_files
    Parts,           \* Parts[x]: the number of its chunks
    Corpus,          \* what init_system loads when it finds no files, in order
    Loaders, Main,   \* threads that load; the one that runs init_system
    MaxStarts,       \* bound: starts of the process
    NoItem

Docs == {DocOf[x] : x \in Items}
Kinds == {"document", "case", "file"}

ASSUME ItemAssumption ==
    /\ NoItem \notin Items
    /\ Kind \in [Items -> Kinds]
    /\ Parts \in [Items -> Nat]
    /\ DOMAIN DocOf = Items /\ DOMAIN Domain = Items
    /\ \A x, y \in Items : DocOf[x] = DocOf[y] => Domain[x] = Domain[y] /\ Kind[x] = Kind[y]
ASSUME CorpusAssumption == Corpus \in Seq(Items)
ASSUME LoaderAssumption == Main \in Loaders /\ IsFiniteSet(Loaders)
ASSUME StartAssumption == MaxStarts \in Nat \ {0}

VARIABLES
    phase, todo,     \* where init_system is, and what it still has to load
    hashes,          \* _content_hashes
    rows, deleted,   \* struct_mysql: the item in a document's row, and is_deleted
    deleting,        \* the row that a delete_document under way has read
    meta, index,     \* VectorMemoryStore.metadata and index
    job,             \* what each loader does
    indexFile, metaFile,
    starts,
    raced,           \* history: two loaders were between the two halves of add()
    mixed            \* history: load() found files of two generations

memory  == <<todo, hashes, rows, deleted, deleting, meta, index, job>>
disk    == <<indexFile, metaFile>>
history == <<starts, raced, mixed>>
vars == <<phase, memory, disk, history>>

Phases == {"down", "build", "open", "dump", "serving"}
Chunks == {c \in Items \X Nat : c[2] \in 1..Parts[c[1]]}
Idle == [at |-> "idle", item |-> NoItem, part |-> 0]
Job(s, x, n) == [at |-> s, item |-> x, part |-> n]
Jobs ==
    {Idle} \cup [at : {"mark", "row"}, item : Items, part : {0}]
    \cup {j \in [at : {"append", "index"}, item : Items, part : Nat] : j.part \in 1..Parts[j.item]}
NoFile == [state |-> "none", list |-> <<>>]
Torn == [state |-> "torn", list |-> <<>>]

TypeOK ==
    /\ phase \in Phases
    /\ todo \in Seq(Items)
    /\ hashes \subseteq Items
    /\ rows \in [Docs -> Items \cup {NoItem}] /\ deleted \subseteq Docs
    /\ deleting \in [Docs -> Items \cup {NoItem}]
    /\ meta \in Seq(Chunks) /\ index \in Seq(Chunks)
    /\ job \in [Loaders -> Jobs]
    /\ indexFile \in Seq(Chunks)
    /\ metaFile \in {NoFile, Torn} \cup [state : {"ok"}, list : Seq(Chunks)]
    /\ starts \in 0..MaxStarts /\ raced \in BOOLEAN /\ mixed \in BOOLEAN

Forgotten ==
    /\ hashes' = {} /\ rows' = [d \in Docs |-> NoItem] /\ deleted' = {}
    /\ deleting' = [d \in Docs |-> NoItem]
    /\ job' = [t \in Loaders |-> Idle]

Init ==
    /\ phase = "down" /\ todo = <<>>
    /\ hashes = {} /\ rows = [d \in Docs |-> NoItem] /\ deleted = {}
    /\ deleting = [d \in Docs |-> NoItem]
    /\ meta = <<>> /\ index = <<>>
    /\ job = [t \in Loaders |-> Idle]
    /\ indexFile = <<>> /\ metaFile = NoFile
    /\ starts = 0 /\ raced = FALSE /\ mixed = FALSE

-----------------------------------------------------------------------------
(* init_system: load the files, or build from the corpus and save. *)

IndexFresh == <<>>                                \* mutant
IndexFromDisk == indexFile

\* A torn metadata file makes load() raise, and the process does not get up.
Start ==
    /\ phase = "down" /\ starts < MaxStarts
    /\ \/ /\ metaFile.state = "none"
          /\ phase' = "build" /\ todo' = Corpus
          /\ meta' = <<>> /\ index' = <<>>
          /\ mixed' = FALSE
       \/ /\ metaFile.state = "ok"
          /\ phase' = "serving" /\ todo' = <<>>
          /\ meta' = metaFile.list /\ index' = IndexFromDisk
          /\ mixed' = (indexFile # metaFile.list)
    /\ Forgotten
    /\ starts' = starts + 1 /\ raced' = FALSE
    /\ UNCHANGED disk

IndexOnce == IF indexFile = <<>> THEN index ELSE indexFile    \* mutant
IndexSaved == IF meta = <<>> THEN indexFile ELSE index

SaveIndex ==
    /\ phase = "build" /\ todo = <<>> /\ job[Main] = Idle
    /\ indexFile' = IndexSaved
    /\ phase' = "open"
    /\ UNCHANGED <<memory, metaFile, history>>

OpenMetadata ==
    /\ phase = "open"
    /\ metaFile' = Torn
    /\ phase' = "dump"
    /\ UNCHANGED <<memory, indexFile, history>>

DumpMetadata ==
    /\ phase = "dump"
    /\ metaFile' = [state |-> "ok", list |-> meta]
    /\ phase' = "serving"
    /\ UNCHANGED <<memory, indexFile, history>>

\* The process ends: what it had in memory is gone.
Crash ==
    /\ phase # "down"
    /\ phase' = "down"
    /\ todo' = <<>> /\ meta' = <<>> /\ index' = <<>>
    /\ Forgotten
    /\ raced' = FALSE /\ mixed' = FALSE
    /\ UNCHANGED <<disk, starts>>

-----------------------------------------------------------------------------
(* _load_document, _load_case and load_files: the same steps on one item. *)

Serving == phase \in {"build", "serving"}
Goto(t, j) == job' = [job EXCEPT ![t] = j]

\* Deduplication; the loader thread of init_system takes the corpus in order.
Check(t, x) ==
    /\ job[t] = Idle
    /\ \/ phase = "serving" /\ UNCHANGED todo
       \/ /\ phase = "build" /\ t = Main
          /\ todo # <<>> /\ x = Head(todo) /\ todo' = Tail(todo)
    /\ Goto(t, IF x \in hashes THEN Idle ELSE Job("mark", x, 0))
    /\ UNCHANGED <<phase, hashes, rows, deleted, deleting, meta, index, disk, history>>

NotMarked(x) == hashes                            \* mutant
Marked(x) == hashes \cup {x}
RowAnyway(x) == Job("row", x, 0)                  \* mutant
GivenUp(x) == Idle

\* The hash is stored, and then every chunk is embedded before the first is added.
Mark(t) ==
    LET x == job[t].item IN
    /\ Serving /\ job[t].at = "mark"
    /\ hashes' = Marked(x)
    /\ \/ Goto(t, IF Parts[x] = 0 THEN Job("row", x, 0) ELSE Job("append", x, 1))
       \/ Goto(t, GivenUp(x))
    /\ UNCHANGED <<phase, todo, rows, deleted, deleting, meta, index, disk, history>>

\* add() extends the metadata, and then the index, without a lock.
AppendMetadata(t) ==
    LET j == job[t] IN
    /\ Serving /\ j.at = "append"
    /\ meta' = Append(meta, <<j.item, j.part>>)
    /\ Goto(t, [j EXCEPT !.at = "index"])
    /\ raced' = (raced \/ \E u \in Loaders \ {t} : job[u].at = "index")
    /\ UNCHANGED <<phase, todo, hashes, rows, deleted, deleting, index, disk, starts, mixed>>

LastOne(j) == j.part = Parts[j.item]

AddToIndex(t) ==
    LET j == job[t] IN
    /\ Serving /\ j.at = "index"
    /\ index' = Append(index, <<j.item, j.part>>)
    /\ Goto(t, IF LastOne(j) THEN Job("row", j.item, 0) ELSE Job("append", j.item, j.part + 1))
    /\ UNCHANGED <<phase, todo, hashes, rows, deleted, deleting, meta, disk, history>>

SaveRow(t) ==
    LET x == job[t].item IN
    /\ Serving /\ job[t].at = "row"
    /\ rows' = [rows EXCEPT ![DocOf[x]] = x]
    /\ deleted' = deleted \ {DocOf[x]}
    /\ Goto(t, Idle)
    /\ UNCHANGED <<phase, todo, hashes, deleting, meta, index, disk, history>>

\* delete_document marks the row it reads in the table of documents, in place, and
\* then saves that row; nothing else of the document changes.
MarkDeleted(d) ==
    /\ phase = "serving" /\ deleting[d] = NoItem
    /\ rows[d] # NoItem /\ Kind[rows[d]] # "case"
    /\ deleted' = deleted \cup {d}
    /\ deleting' = [deleting EXCEPT ![d] = rows[d]]
    /\ UNCHANGED <<phase, todo, hashes, rows, meta, index, job, disk, history>>

SaveDeleted(d) ==
    /\ phase = "serving" /\ deleting[d] # NoItem
    /\ rows' = [rows EXCEPT ![d] = deleting[d]]
    /\ deleted' = deleted \cup {d}
    /\ deleting' = [deleting EXCEPT ![d] = NoItem]
    /\ UNCHANGED <<phase, todo, hashes, meta, index, job, disk, history>>

Next ==
    \/ Start \/ SaveIndex \/ OpenMetadata \/ DumpMetadata \/ Crash
    \/ \E t \in Loaders :
        \/ \E x \in Items : Check(t, x)
        \/ Mark(t) \/ AppendMetadata(t) \/ AddToIndex(t) \/ SaveRow(t)
    \/ \E d \in Docs : MarkDeleted(d) \/ SaveDeleted(d)

Spec == Init /\ [][Next]_vars

-----------------------------------------------------------------------------
(* HybridSearchEngine.search_with_filter in the domain of an item. *)

\* _pre_filter: rows of cases are in another table, and those of files have no
\* is_archived for the filter to match.
Candidates(b) ==
    {d \in Docs \ deleted :
        rows[d] # NoItem /\ Kind[rows[d]] = "document" /\ Domain[rows[d]] = b}

\* No candidate switches the filter off.
Passes(x) == Candidates(Domain[x]) = {} \/ DocOf[x] \in Candidates(Domain[x])

\* A position of the index reports the metadata at that position.
Hits == {meta[p] : p \in DOMAIN meta \cap DOMAIN index}
Found(x) == Passes(x) /\ \A n \in 1..Parts[x] : <<x, n>> \in Hits

-----------------------------------------------------------------------------
(* Properties. *)

Copies(c) == {p \in DOMAIN meta : meta[p] = c}

\* A chunk is in the store once from the files and once for each loader at most,
\* however often an item is loaded, fails, is deleted and loaded again.
CopiesBounded == \A c \in ToSet(meta) : Cardinality(Copies(c)) <= 1 + Cardinality(Loaders)

\* Search joins index and metadata by position: they agree unless two loaders met inside
\* add() or the files were of two generations.
Aligned ==
    ~raced /\ ~mixed =>
        Len(index) <= Len(meta) /\ \A p \in DOMAIN index : index[p] = meta[p]

\* Whatever crashes came before, metadata that has been written has its own index beside
\* it; only an empty store leaves an older index in place.
FilesMatch == metaFile.state = "ok" /\ metaFile.list # <<>> => indexFile = metaFile.list

\* A document with a row that is not deleted is found with all its chunks as soon as no
\* add() is under way, after restarts and races too.
Searchable ==
    (\A t \in Loaders : job[t].at # "index") =>
        \A d \in Docs \ deleted :
            rows[d] # NoItem /\ Kind[rows[d]] = "document" => Found(rows[d])
=============================================================================
