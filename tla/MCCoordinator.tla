--------------------------- MODULE MCCoordinator ---------------------------
(* The first four steps of the plan that PlanAgent builds: payment, risk and *)
(* reconciliation have a fallback, order has none.                           *)
EXTENDS Coordinator

MCPlan == <<"order", "payment", "risk", "reconciliation">>
MCDegrade == [t \in {"payment", "risk", "reconciliation", "operation"} |->
    CASE t = "payment" -> "order"
      [] t = "risk" -> "payment"
      [] t = "reconciliation" -> "order"
      [] t = "operation" -> "reconciliation"]
=============================================================================
