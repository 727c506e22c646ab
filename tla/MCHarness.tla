----------------------------- MODULE MCHarness -----------------------------
(* Four tasks on expert types of PlanAgent's plan: a batch of three for two   *)
(* workers, then a task on the caller's thread, with a priority above the     *)
(* others, while tasks of the batch may be late.  The risk agent may be       *)
(* missing, so that the payment agent is shared, or the order agent, which    *)
(* has no fallback.                                                           *)
EXTENDS Harness

MCPlan == <<"advise", "query", "pay", "score">>
MCAgentType == [t \in ToSet(MCPlan) |->
    CASE t = "query" -> "order"              [] t = "pay" -> "payment"
      [] t = "score" -> "risk"               [] t = "advise" -> "operation"]
MCDependsOn == [t \in ToSet(MCPlan) |-> IF t = "advise" THEN {"pay", "score"} ELSE {}]
MCAgentMaps == {Types, Types \ {"risk"}, Types \ {"order"}}
MCRegistrations == {{}, Types}
MCDegrade == [a \in {"payment", "risk", "reconciliation", "operation"} |->
    CASE a = "payment" -> "order"
      [] a = "risk" -> "payment"
      [] a = "reconciliation" -> "order"
      [] a = "operation" -> "reconciliation"]
=============================================================================
