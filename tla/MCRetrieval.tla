---------------------------- MODULE MCRetrieval -----------------------------
(* Bounds: p1 has two contents, the first of two chunks that match a word or  *)
(* none where its row matches two, the second filed under risk; p2 and r1     *)
(* have one content each, of one chunk, and match one and five words.         *)
(* Searches return one document: the plain path takes three of the two to     *)
(* five chunks and keeps one, the deep path recalls three.  A question may    *)
(* find p1 or p2 too old.  Any documents may be deleted from the start, and   *)
(* two edits begin before the search or between its steps.                    *)
EXTENDS Retrieval

CONSTANTS p1, p2, r1, p1a, p1b, p2a, r1a

MCTexts == {p1a, p1b, p2a, r1a}
MCDocOf == [t \in MCTexts |->
              CASE t \in {p1a, p1b} -> p1 [] t = p2a -> p2 [] OTHER -> r1]
MCDomain == [t \in MCTexts |-> IF t \in {p1b, r1a} THEN "risk" ELSE "payment"]
MCParts == [t \in MCTexts |-> IF t = p1a THEN 2 ELSE 1]
MCHits == [t \in MCTexts |->
             CASE t = p1a -> [i \in 0..2 |-> 2 - i]
               [] t = p1b -> [i \in 0..1 |-> 0]
               [] t = p2a -> [i \in 0..1 |-> 1]
               [] OTHER   -> [i \in 0..1 |-> 5]]
MCShelves == {<<p1a, p2a, r1a>>, <<r1a, p2a>>, <<p1a>>}
MCAged == {{p1a}, {p2a}}
=============================================================================
