---------------------------- MODULE MCDiagnosis -----------------------------
(* Bounds: two workers, two orders and two tasks, so that tasks share a       *)
(* plan, overlap, or follow each other.  The rows are those of the presets    *)
(* (timeout without callback, insufficient balance with high risk), a high    *)
(* risk without code, which waits for approval, and no rows at all.  Either   *)
(* all experts are there, or one with a fallback (risk) and one without       *)
(* (order) are not.  One expert raises and one review comes in between.       *)
EXTENDS Diagnosis

CONSTANTS w1, w2, o1, o2

Pay(s, c) == [status |-> s, code |-> c]
Row(o, p, r, c) == [order |-> o, payments |-> p, risk |-> r, recon |-> c]

MCWorkers == {w1, w2}
MCOrders == {o1, o2}
MCCases == {
    Row("pending_payment", <<Pay("timeout", "E2001")>>, "medium", "mismatch_status"),
    Row("pending_payment", <<Pay("failed", "E2002"), Pay("success", None)>>, "high", "match"),
    Row("paid", <<Pay("success", None)>>, "high", "diff_amount"),
    NoRows}
All == {Types[i] : i \in DOMAIN Types}
MCRosters == {All, All \ {"order", "risk"}}
Symmetric == Permutations(MCWorkers) \cup Permutations(MCOrders)
=============================================================================
