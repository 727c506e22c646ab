------------------------------ MODULE Experts -------------------------------
(* The five expert agents of agents/ as functions of the rows they read: what *)
(* run() returns and which row it leaves in the session's memory.             *)
(*                                                                            *)
(* The rows of an order are a record: the status of the order, its payments   *)
(* in the table's order, its risk level and the result of its reconciliation, *)
(* each possibly missing.  Knowledge found for a step and the wording of the  *)
(* suggestions are left out, except what the operation agent advises.         *)
EXTENDS Sequences, Decision

NoRow == "no row"

\* The rows of the order that a degraded step asks for: there is none of that id.
NoRows == [order |-> NoRow, payments |-> <<>>, risk |-> NoRow, recon |-> NoRow]

\* What a missing row is replaced by.
OrderStatus(rows) == IF rows.order = NoRow THEN "unknown" ELSE rows.order
Primary(rows) ==
    IF rows.payments = <<>>
    THEN [status |-> "unknown", code |-> "E2005"]
    ELSE Head(rows.payments)
RiskOf(rows) == IF rows.risk = NoRow THEN "low" ELSE rows.risk
ReconStatus(rows) == IF rows.recon = NoRow THEN "no_data" ELSE rows.recon

\* A result, with what DecisionEngine looks for at its top level.
Result(type, code, risk, says) == [expert |-> type, code |-> code, risk |-> risk, says |-> says]

\* OrderAgent: the code of an order that does not exist stays inside order_info.
OrderSays(status) ==
    CASE status = "pending_payment" -> "check the payment"
      [] status = "timeout"         -> "close or pay again"
      [] status = "paid"            -> "in order"
      [] OTHER                      -> "to be confirmed"
OrderResult(rows) == Result("order", None, None, OrderSays(OrderStatus(rows)))

\* PaymentAgent: the first payment speaks for the order.
PaymentSays(status) ==
    CASE status = "timeout"  -> "query the channel"
      [] status = "failed"   -> "mark as failed"
      [] status = "reversed" -> "confirm the reversal"
      [] status = "success"  -> "confirm the callback"
      [] OTHER               -> "check further"
PaymentResult(rows) ==
    Result("payment", Primary(rows).code, None, PaymentSays(Primary(rows).status))

RiskSays(level) ==
    CASE level = "high"   -> "review and freeze"
      [] level = "medium" -> "verify and release"
      [] OTHER            -> "release"
RiskResult(rows) == Result("risk", None, RiskOf(rows), RiskSays(RiskOf(rows)))

ReconSays(status) ==
    CASE status = "match"           -> "nothing to do"
      [] status = "mismatch_status" -> "correct the order"
      [] status = "diff_amount"     -> "check the amount by hand"
      [] OTHER                      -> "to be confirmed"
ReconResult(rows) == Result("reconciliation", None, None, ReconSays(ReconStatus(rows)))

\* OperationAgent: needs_manual_intervention, priority, suggestion and action plan from
\* the risk level and the payment status that the session's memory has, None if none.
Advice(risk, payment) ==
    [manual |-> risk = "high" \/ payment \in {"timeout", "reversed"},
     priority |-> CASE risk = "high" -> "high"
                    [] risk # "high" /\ payment \in {"timeout", "failed"} -> "medium"
                    [] OTHER -> "low",
     suggestion |-> CASE risk = "high" -> "review by hand"
                      [] risk # "high" /\ payment \in {"timeout", "failed", "reversed"} -> payment
                      [] OTHER -> "normal flow",
     plan |-> (IF payment = "timeout" THEN <<"query", "reissue", "close">> ELSE <<>>)
              \o (IF risk \in {"high", "medium"} THEN <<"submit", "release">> ELSE <<>>)]
OperationResult(advice) == Result("operation", None, None, advice)

\* run() of the agents that only read their own row.
ExpertResult(type, rows) ==
    CASE type = "order"          -> OrderResult(rows)
      [] type = "payment"        -> PaymentResult(rows)
      [] type = "risk"           -> RiskResult(rows)
      [] type = "reconciliation" -> ReconResult(rows)
=============================================================================
