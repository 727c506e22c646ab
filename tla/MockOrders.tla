----------------------------- MODULE MockOrders -----------------------------
(* The labelled orders of models/mock_orders.py, as far as the checks of an   *)
(* order look at them: its state, the attempts to pay, and the metadata about *)
(* time, address and amounts.  An attempt's callback counts when it succeeded *)
(* and its code when it failed.  Times are minutes.                           *)
EXTENDS Naturals, Sequences

OrderState == {"created", "paid", "processing", "shipped", "completed", "cancelled", "refunded"}

Attempt(s) == [state |-> s, callback |-> FALSE, unknown |-> FALSE]
Paid == [Attempt("success") EXCEPT !.callback = TRUE]
PaidUnnoticed == Attempt("success")
FailedUnknown == [Attempt("failed") EXCEPT !.unknown = TRUE]

\* Every attempt that the checks can tell from another.
PaymentRecord ==
    {Attempt(s) : s \in {"pending", "processing", "success", "failed", "timeout", "refunded"}}
        \cup {Paid, FailedUnknown}

NoMeta == [gap |-> 0, idle |-> 0, address |-> "usual", amounts |-> "agree"]
MockOrder(label, state, payments, meta) ==
    [label |-> label, state |-> state, payments |-> payments, meta |-> meta,
     user |-> TRUE, amount |-> TRUE]

NORMAL_ORDERS ==
    {MockOrder("normal", s, <<Paid>>, NoMeta) : s \in {"paid", "processing", "shipped", "completed"}}

Dropped(attempt, minutes) ==
    MockOrder("dropped_order", "created", <<attempt>>, [NoMeta EXCEPT !.gap = minutes])
DROPPED_ORDERS ==
    {Dropped(Attempt("timeout"), 88), Dropped(Attempt("processing"), 60),
     Dropped(PaidUnnoticed, 115), Dropped(PaidUnnoticed, 235), Dropped(FailedUnknown, 25)}

Lost(state, minutes) == MockOrder("lost_order", state, <<>>, [NoMeta EXCEPT !.idle = minutes])
LOST_ORDERS ==
    {Lost("created", 30), Lost("created", 150), Lost("cancelled", 500), Lost("created", 45),
     [Lost("created", 480) EXCEPT !.meta.address = "suspicious"]}

\* Amounts that differ, two payments of one order, and a payment of nothing, which no
\* difference in the metadata announces.
Mismatch(payments, amounts) ==
    MockOrder("recon_mismatch", "paid", payments, [NoMeta EXCEPT !.amounts = amounts])
RECONCILIATION_ORDERS ==
    {Mismatch(<<Paid>>, "differ"), Mismatch(<<Paid, Paid>>, "twice"), Mismatch(<<Paid>>, "agree")}

Suspicious(address) ==
    MockOrder("risk_suspicious", "paid", <<Paid>>, [NoMeta EXCEPT !.address = address])
RISK_ORDERS == {Suspicious("usual"), Suspicious("overseas")}

ALL_MOCK_ORDERS ==
    NORMAL_ORDERS \cup DROPPED_ORDERS \cup LOST_ORDERS \cup RECONCILIATION_ORDERS \cup RISK_ORDERS
=============================================================================
