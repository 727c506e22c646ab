----------------------------- MODULE Retrieval ------------------------------
(* One question to the knowledge base while documents are loaded, reloaded    *)
(* and deleted: AgentRAGOrchestrator of agents/rag_orchestrator.py, the       *)
(* vector search tool and RAGPipeline.process_query on the plain path,        *)
(* DeepSearchEngine on the deep one, and the routes, fusion and rankings they *)
(* share.                                                                     *)
(*                                                                            *)
(* A text is one content of a document as it was handed to the loader: its    *)
(* row is the text itself, part 0, and its chunks are the parts from 1 on.  A *)
(* document given a new content has two texts: the table keeps the row of     *)
(* one, the vector index the chunks of both.                                  *)
(*                                                                            *)
(* Embeddings are random or opaque: the vector index may return its chunks in *)
(* any order.  Scores are integers, in millionths.  The BM25 route scores     *)
(* every document zero (its term frequency is the constant 0) and is empty.   *)
(* A case of the experts has a chunk and no row among the documents: here it  *)
(* is a text whose row never comes, and so is one whose loading failed.  Two  *)
(* loads racing for one content are in module Knowledge.  The prompts built   *)
(* from the results are left out.                                             *)
EXTENDS Naturals, Sequences, FiniteSets, SequencesExt

CONSTANTS
    Texts,
    DocOf,           \* DocOf[t]: the document whose content the text is
    Domain,          \* Domain[t]: the biz_domain it is filed under
    Parts,           \* Parts[t]: the number of its chunks
    Hits,            \* Hits[t][i]: how many words of the query part i of it has
    Shelves,         \* the texts loaded at the start, in the order of their rows
    Aged,            \* which rows may be too old for the time a question names
    TopK,
    MaxEdits         \* bound: documents loaded or deleted before and during a search

Docs == {DocOf[t] : t \in Texts}
Items == {x \in Texts \X Nat : x[2] <= Parts[x[1]]}

ASSUME TextAssumption ==
    /\ DOMAIN DocOf = Texts /\ DOMAIN Domain = Texts /\ Parts \in [Texts -> Nat]
    /\ \A t \in Texts : Hits[t] \in [0..Parts[t] -> Nat]
ASSUME AgeAssumption == Aged \subseteq SUBSET Texts
ASSUME BoundAssumption == MaxEdits \in Nat

\* A row is kept by its document.
OwnDocuments(s) == \A i, j \in DOMAIN s : DocOf[s[i]] = DocOf[s[j]] => i = j
ASSUME ShelfAssumption == \A shelf \in Shelves : shelf \in Seq(Texts) /\ OwnDocuments(shelf)

\* No search asks for more than five.  The fusion scores of more results could outweigh a
\* word.
ASSUME TopKAssumption == TopK \in 1..5

VARIABLES
    rows,            \* struct_mysql's table of documents, in its order
    deleted,         \* texts whose row is flagged is_deleted, also when out of the table
    deleting,        \* texts flagged by a delete_document that has not saved them yet
    hashes,          \* KnowledgeBaseLoader._content_hashes
    chunks,          \* VectorMemoryStore.metadata
    loading,         \* <<text, number of its chunks that are in>>, its row to come
    at,              \* where the search is
    path, domain,    \* what was decided, and the domain searched
    undated,         \* texts whose rows get no points for the time the question names
    candidates,      \* the documents the prefilter found
    vector, rule,    \* the two routes
    results,         \* the texts the results are taken from
    answer,
    gone,            \* history: documents deleted before the search and not loaded since
    edits

base == <<rows, deleted, deleting, hashes, chunks, loading>>
search == <<path, domain, undated, candidates, vector, rule, results, answer>>
rvars == <<base, at, search, gone, edits>>

Domains == {Domain[t] : t \in Texts}
Live == ToSet(rows) \ deleted
ChunksOf(t) == [i \in 1..Parts[t] |-> <<t, i>>]

RInit ==
    /\ rows \in Shelves /\ deleted \in SUBSET ToSet(rows) /\ deleting = {}
    /\ hashes = ToSet(rows)
    /\ chunks = FlattenSeq([i \in DOMAIN rows |-> ChunksOf(rows[i])])
    /\ loading = {}
    /\ at = "idle" /\ path = "none" /\ domain \in Domains /\ undated = Texts
    /\ candidates = {} /\ vector = <<>> /\ rule = <<>> /\ results = <<>> /\ answer = "none"
    /\ gone = {} /\ edits = 0

-----------------------------------------------------------------------------
(* KnowledgeBaseLoader meanwhile. *)

\* A content is loaded once, whatever became of it; a known document is no obstacle.
StartLoad(t) ==
    /\ edits < MaxEdits /\ t \notin hashes
    /\ hashes' = hashes \cup {t}
    /\ loading' = loading \cup {<<t, 0>>}
    /\ edits' = edits + 1
    /\ UNCHANGED <<rows, deleted, deleting, chunks, at, search, gone>>

AddChunk(t, n) ==
    /\ <<t, n>> \in loading /\ n < Parts[t]
    /\ chunks' = Append(chunks, <<t, n + 1>>)
    /\ loading' = (loading \ {<<t, n>>}) \cup {<<t, n + 1>>}
    /\ UNCHANGED <<rows, deleted, deleting, hashes, at, search, gone, edits>>

\* A row saved over another of its document takes its place in the table.
Saved(t) ==
    IF \E n \in DOMAIN rows : DocOf[rows[n]] = DocOf[t]
    THEN [n \in DOMAIN rows |-> IF DocOf[rows[n]] = DocOf[t] THEN t ELSE rows[n]]
    ELSE Append(rows, t)

\* The new row is not deleted, even if the one it replaces was.
SaveRow(t) ==
    /\ <<t, Parts[t]>> \in loading
    /\ rows' = Saved(t)
    /\ loading' = loading \ {<<t, Parts[t]>>}
    /\ gone' = gone \ {DocOf[t]}
    /\ UNCHANGED <<deleted, deleting, hashes, chunks, at, search, edits>>

\* delete_document flags the row where it lies and then saves it: over the row of a new
\* content, if that was loaded in between.
FlagRow(t) ==
    /\ edits < MaxEdits /\ t \in ToSet(rows) /\ t \notin deleting
    /\ deleted' = deleted \cup {t}
    /\ deleting' = deleting \cup {t}
    /\ edits' = edits + 1
    /\ UNCHANGED <<rows, hashes, chunks, loading, at, search, gone>>

SaveFlagged(t) ==
    /\ t \in deleting
    /\ rows' = Saved(t)
    /\ deleting' = deleting \ {t}
    /\ UNCHANGED <<deleted, hashes, chunks, loading, at, search, gone, edits>>

-----------------------------------------------------------------------------
(* ToolUsePlanner.decide and AgentRAGOrchestrator.orchestrate. *)

\* What the words of a query match; a trivial one is a single word that matches nothing
\* else (the word for "confirm" is in both lists, and so a plain one).
Queries == {q \in SUBSET {"reference", "topic", "plain", "trivial"} :
              "trivial" \in q => q = {"trivial"}}

\* The words of history and reference books come before those of the agent's domain, and
\* these before plain data queries.
PathOf(q) ==
    CASE "reference" \in q -> "deep"
      [] q \cap {"reference", "topic"} = {} /\ "plain" \in q -> "structured"
      [] "trivial" \in q -> "skip"
      [] OTHER -> "rag"
Unsearched == [structured |-> "structured_query", skip |-> "direct_answer"]

\* A question to a deep search may name a time; the rows saved from now on are recent.
Ask(q, b) ==
    /\ at = "idle"
    /\ path' = PathOf(q) /\ domain' = b
    /\ at' = IF PathOf(q) \in DOMAIN Unsearched THEN "done" ELSE "filter"
    /\ answer' = IF PathOf(q) \in DOMAIN Unsearched THEN Unsearched[PathOf(q)] ELSE "none"
    /\ \/ undated' = Texts
       \/ PathOf(q) = "deep" /\ \E old \in Aged : undated' = old \cap ToSet(rows)
    /\ gone' = {DocOf[t] : t \in ToSet(rows) \cap deleted}
    /\ UNCHANGED <<base, candidates, vector, rule, results, edits>>

\* RAGPipeline.process_query, which the interactive shell calls with any question.
Chat(b) ==
    /\ at = "idle"
    /\ path' = "chat" /\ domain' = b /\ at' = "filter"
    /\ gone' = {DocOf[t] : t \in ToSet(rows) \cap deleted}
    /\ UNCHANGED <<base, undated, candidates, vector, rule, results, answer, edits>>

-----------------------------------------------------------------------------
(* HybridSearchEngine: the routes. *)

UpTo(s, n) == SubSeq(s, 1, IF Len(s) < n THEN Len(s) ELSE n)

\* The entries of s that are in S, in their order.
Those(s, S) ==
    LET kept[n \in 0..Len(s)] ==
            IF n = 0 THEN <<>>
            ELSE IF s[n] \in S THEN Append(kept[n - 1], s[n]) ELSE kept[n - 1]
    IN  kept[Len(s)]

FiledUnder(b) == {t \in Texts : Domain[t] = b}
DocsOf(route) == [n \in DOMAIN route |-> DocOf[route[n][1]]]
TextsOf(route) == [n \in DOMAIN route |-> route[n][1]]

\* DeepSearch recalls three times what it returns.
Recall == IF path = "deep" THEN 3 * TopK ELSE TopK

CandidatesOf(b) == {DocOf[t] : t \in Live \cap FiledUnder(b)}

PreFilter ==
    /\ at = "filter"
    /\ candidates' = CandidatesOf(domain)
    /\ at' = "vector"
    /\ UNCHANGED <<base, path, domain, undated, vector, rule, results, answer, gone, edits>>

\* Deleted documents and former contents still have their chunks: the candidates alone keep
\* them out, a candidate's former contents are not kept out, and without candidates nothing
\* is.
PassingInDomain ==                                                     \* mutant
    IF candidates = {} THEN Docs ELSE {DocOf[t] : t \in FiledUnder(domain)}
PassingLive == {DocOf[t] : t \in Live}                                 \* mutant
Passing == IF candidates = {} THEN Docs ELSE candidates

\* FAISS returns three times as many chunks as are kept after the filter.
VectorSearch ==
    /\ at = "vector"
    /\ \E order \in SetToSeqs(DOMAIN chunks) :
         LET raw == UpTo(order, 3 * Recall)
             found == Those([i \in DOMAIN raw |-> chunks[raw[i]]],
                            {x \in Items : DocOf[x[1]] \in Passing})
         IN  vector' = UpTo(found, Recall)
    /\ at' = IF path = "deep" THEN "rule" ELSE "assemble"
    /\ UNCHANGED <<base, path, domain, undated, candidates, rule, results, answer, gone, edits>>

\* The rows of the domain, deleted ones too, in the table's order.
RuleSearch ==
    /\ at = "rule"
    /\ LET found == UpTo(Those(rows, FiledUnder(domain)), Recall)
       IN  rule' = [n \in DOMAIN found |-> <<found[n], 0>>]
    /\ at' = "assemble"
    /\ UNCHANGED <<base, path, domain, undated, candidates, vector, results, answer, gone, edits>>

-----------------------------------------------------------------------------
(* Fusion, the rankings, cross validation. *)

Million == 1000000

\* rrf_fusion: every chunk of a document counts; w is the route's weight in tenths.
Weight(w, n) == (w * Million) \div (10 * (60 + n))
RouteScore(route, w, d) ==
    LET sum[n \in 0..Len(route)] ==
            IF n = 0 THEN 0
            ELSE IF route[n] = d THEN sum[n - 1] + Weight(w, n) ELSE sum[n - 1]
    IN  sum[Len(route)]
RRF(d) == RouteScore(DocsOf(vector), 5, d) + RouteScore(DocsOf(rule), 2, d)

Fused == ToSet(DocsOf(vector)) \cup ToSet(DocsOf(rule))
Validated(d) == d \in ToSet(DocsOf(vector)) /\ d \in ToSet(DocsOf(rule))

\* A document is ranked and answered with by the first of its items alone: a chunk, if the
\* vector route has one, and its row if not.
KeptItem(d) ==
    LET all == vector \o rule
    IN  all[CHOOSE n \in DOMAIN all :
              DocOf[all[n][1]] = d /\ \A m \in 1..(n - 1) : DocOf[all[m][1]] # d]

\* CoarseRanker: ten points for the domain, five for the time, two for each word.  A chunk
\* carries no time.
OfDomain(x) == Domain[x[1]] = domain
Dated(x) == x[2] = 0 /\ x[1] \notin undated
Words(x) == Hits[x[1]][x[2]]
Coarse(d) ==
    (IF OfDomain(KeptItem(d)) THEN 10 ELSE 0) + (IF Dated(KeptItem(d)) THEN 5 ELSE 0) + 2 * Words(KeptItem(d))

\* FineRanker: after the fusion no item has a distance, and the semantic term is zero.
FineOfFusion(d) == (6 * RRF(d)) \div 10 + 40 * Coarse(d)             \* mutant
Fine(d) == (6 * RRF(d)) \div 10 + 40000 * Coarse(d)

\* Sorted by the final score; equal ones in any order.
Rankings ==
    {s \in SetToSeqs(Fused) : \A i, j \in DOMAIN s : i < j => Fine(s[i]) >= Fine(s[j])}

\* RetrievalResultProcessor.process: a strong result answers, a fair one asks for more.
Processed(strong, fair) ==
    IF strong THEN "direct_answer" ELSE IF fair THEN "continue_tools" ELSE "ask_user"

\* DeepSearchEngine.search, and what becomes of its results: validated ones are strong.
AnswerDeep ==
    /\ at = "assemble" /\ path = "deep"
    /\ \E s \in Rankings :
         LET top == UpTo(s, TopK)
         IN  /\ results' = [n \in DOMAIN top |-> KeptItem(top[n])[1]]
             /\ answer' = Processed(
                  \E d \in ToSet(top) : Validated(d) \/ 10 * Fine(d) > 7 * Million,
                  \E d \in ToSet(top) : 10 * Fine(d) > 3 * Million)
    /\ at' = "done"
    /\ UNCHANGED <<base, path, domain, undated, candidates, vector, rule, gone, edits>>

\* VectorSearchTool makes up a document when it finds none; that one has no score.
MadeUp == vector = <<>>

\* The best score of what was found may be anything.
AnswerRag ==
    /\ at = "assemble" /\ path = "rag"
    /\ results' = TextsOf(vector)
    /\ \E strong, fair \in BOOLEAN :
         /\ MadeUp => ~strong /\ ~fair
         /\ answer' = Processed(strong, fair)
    /\ at' = "done"
    /\ UNCHANGED <<base, path, domain, undated, candidates, vector, rule, gone, edits>>

\* Without a language model the answer to what was found is empty.
AnswerChat ==
    /\ at = "assemble" /\ path = "chat"
    /\ results' = TextsOf(vector)
    /\ answer' \in {"generated"} \cup (IF vector = <<>> THEN {"no documents"} ELSE {"empty"})
    /\ at' = "done"
    /\ UNCHANGED <<base, path, domain, undated, candidates, vector, rule, gone, edits>>

Search ==
    \/ \E q \in Queries, b \in Domains : Ask(q, b)
    \/ \E b \in Domains : Chat(b)
    \/ PreFilter \/ VectorSearch \/ RuleSearch
    \/ AnswerDeep \/ AnswerRag \/ AnswerChat

RNext ==
    \/ Search
    \/ \E t \in Texts :
         \/ StartLoad(t) \/ SaveRow(t) \/ FlagRow(t) \/ SaveFlagged(t)
         \/ \E n \in 0..Parts[t] : AddChunk(t, n)

RSpec == RInit /\ [][RNext]_rvars

-----------------------------------------------------------------------------
(* Properties. *)

Found == {DocOf[t] : t \in ToSet(results)}
Answered == at = "done" /\ path \notin DOMAIN Unsearched

\* A document deleted before the search began, and not loaded anew since, comes back by the
\* rule route alone, and so is never validated, as long as the domain has a live document
\* when the filter looks.
DeletedOnlyByRule ==
    Answered /\ candidates # {} =>
        \A d \in Found \cap gone : d \in ToSet(DocsOf(rule)) /\ ~Validated(d)

\* To come before a document, another has to match as many words in the one item it was
\* ranked by; the domain counts as five words, and the time, where only one of the two is
\* dated, as three for it and as two against it.
Worth(d) == Words(KeptItem(d)) + (IF OfDomain(KeptItem(d)) THEN 5 ELSE 0)
Outweighs(e, d) ==
    Worth(e) + (IF Dated(KeptItem(e)) /\ ~Dated(KeptItem(d)) THEN 3 ELSE 0)
      >= Worth(d) + (IF Dated(KeptItem(d)) /\ ~Dated(KeptItem(e)) THEN 2 ELSE 0)

\* A result filed under another domain is a former content of a document that is of the
\* domain now, or the filter found nothing of the domain at all.  In a deep search it comes
\* behind everything of the domain that was recalled and that it does not outweigh.
ForeignLast ==
    Answered =>
        \A i \in DOMAIN results : Domain[results[i]] # domain =>
            /\ candidates = {} \/ DocOf[results[i]] \in candidates
            /\ path = "deep" =>
                 \A d \in Fused : OfDomain(KeptItem(d)) /\ ~Outweighs(DocOf[results[i]], d) =>
                     \E j \in 1..(i - 1) : DocOf[results[j]] = d

\* What the rule route recalled is missing from a deep search only if the results are full
\* of documents that outweigh it: no fusion score makes up for more than half a word.
NotDisplaced ==
    Answered /\ path = "deep" =>
        \A d \in ToSet(DocsOf(rule)) \ Found :
            /\ Len(results) = TopK
            /\ \A e \in Found : Outweighs(e, d)
=============================================================================
