---------------------------- MODULE MCKnowledge ----------------------------
(* Bounds: a document of two chunks, a later content of it, and an expert     *)
(* case, in one domain; the corpus is the document and the case.  Two threads *)
(* load, and three starts allow a crash between the two files, a rebuild that *)
(* finds nothing to embed, and a load of what they left.                      *)
EXTENDS Knowledge

CONSTANTS old, new, case, main, worker

MCItems == {old, new, case}
MCDocOf == [x \in MCItems |-> IF x = case THEN "case" ELSE "doc"]
MCDomain == [x \in MCItems |-> "order"]
MCKind == [x \in MCItems |-> IF x = case THEN "case" ELSE "document"]
MCParts == [x \in MCItems |-> IF x = old THEN 2 ELSE 1]
MCCorpus == <<old, case>>
MCLoaders == {main, worker}
=============================================================================
