-------------------------- MODULE PaymentIntegrity --------------------------
(* Which agents an order is sent to (IntentClassifier of models/intent.py)    *)
(* and what the payment integrity agent finds (PaymentIntegrityAgent.check    *)
(* of agents/payment_integrity_agent.py).  Both only read the order.  A       *)
(* finding is its type and severity; confidence, evidence and advice are left *)
(* out.  Orders are the labelled ones of the dataset and every combination of *)
(* a state, up to MaxPayments attempts and minutes around the limits.         *)
EXTENDS MockOrders, FiniteSets, SequencesExt

CONSTANTS
    MaxPayments,     \* bound: attempts of an order that is not of the dataset
    Gaps, Idles      \* the minutes since a payment, and without one

ASSUME MinutesAssumption == Gaps \subseteq Nat /\ Idles \subseteq Nat /\ MaxPayments \in Nat

VARIABLES order, intents, report

pvars == <<order, intents, report>>

NoReport == [findings |-> <<>>]
Unclassified == <<>>

Other(s, payments, gap, idle, address, user, amount) ==
    [MockOrder("normal", s, payments, [NoMeta EXCEPT !.gap = gap, !.idle = idle, !.address = address])
     EXCEPT !.user = user, !.amount = amount]

\* The label says nothing to the check.  The minutes without a payment are those of an order that has none.
OtherOrders ==
    LET Some == UNION {[1..n -> PaymentRecord] : n \in 1..MaxPayments} IN
    {Other(s, <<>>, g, i, a, u, m) : s \in OrderState, g \in Gaps, i \in Idles,
                                     a \in {"usual", "suspicious"}, u, m \in BOOLEAN}
    \cup {Other(s, ps, g, 0, "usual", u, m) : s \in OrderState, ps \in Some, g \in Gaps,
                                              u, m \in BOOLEAN}

PInit ==
    /\ order \in ALL_MOCK_ORDERS \cup OtherOrders
    /\ intents = Unclassified /\ report = NoReport

-----------------------------------------------------------------------------
(* IntentClassifier.classify. *)

\* Every label is in the map, so that a full audit is never asked for.
ANOMALY_INTENT_MAP ==
    [normal |-> <<"payment_integrity">>,
     dropped_order |-> <<"payment_integrity", "risk_assessment">>,
     lost_order |-> <<"payment_integrity", "risk_assessment">>,
     recon_mismatch |-> <<"reconciliation", "payment_integrity">>,
     risk_suspicious |-> <<"risk_assessment", "reconciliation">>]

\* Added once: the address asks for the risk agent, the amounts for reconciliation.
WithIntent(is, i, wanted) == IF wanted /\ ~Contains(is, i) THEN Append(is, i) ELSE is
IntentsOf(o) ==
    WithIntent(WithIntent(ANOMALY_INTENT_MAP[o.label], "risk_assessment", o.meta.address # "usual"),
               "reconciliation", o.meta.amounts # "agree")

Classify ==
    /\ intents = Unclassified
    /\ intents' = IntentsOf(order)
    /\ UNCHANGED <<order, report>>

INTENT_AGENT_MAP ==
    [payment_integrity |-> "payment_integrity", reconciliation |-> "reconciliation",
     risk_assessment |-> "risk"]
Dispatched == {INTENT_AGENT_MAP[intents[i]] : i \in DOMAIN intents}

-----------------------------------------------------------------------------
(* PaymentIntegrityAgent.check. *)

Finding(type, severity) == [type |-> type, severity |-> severity]
FindingIf(condition, type, severity) == IF condition THEN <<Finding(type, severity)>> ELSE <<>>

Neglected30(minutes) == minutes > 30     \* mutant
Neglected(minutes) == minutes > 0

DetectLostOrder(o) ==
    IF o.payments # <<>> THEN <<>> ELSE
    FindingIf(Neglected(o.meta.idle), "lost_order", IF o.meta.idle > 120 THEN "high" ELSE "medium")
    \o FindingIf(o.meta.address = "suspicious", "ip_anomaly", "medium")

DiagnosePayment(o, p) ==
    FindingIf(p.state = "timeout", "dropped_order", "high")
    \o FindingIf(p.state = "failed", "payment_failed", IF p.unknown THEN "medium" ELSE "low")
    \o FindingIf(p.state = "success" /\ ~p.callback, "callback_missing", "high")
    \o FindingIf(p.state = "processing" /\ o.meta.gap > 30, "payment_timeout", "medium")

Sold == {"paid", "processing", "shipped", "completed"}
ValidPairs ==
    {<<"created", "pending">>, <<"created", "processing">>,
     <<"cancelled", "refunded">>, <<"refunded", "refunded">>} \cup (Sold \X {"success"})
IsValidPairOrFailed(s, p) == <<s, p>> \in ValidPairs \/ p = "failed"     \* mutant
IsValidPair(s, p) == <<s, p>> \in ValidPairs

CheckStateConsistency(o) ==
    IF o.payments = <<>>
    THEN FindingIf(o.state \in Sold, "state_inconsistency", "high")
    ELSE FlattenSeq([i \in DOMAIN o.payments |->
           LET p == o.payments[i].state IN
           FindingIf(~IsValidPair(o.state, p), "state_inconsistency",
                     IF p \in {"timeout", "failed"} THEN "high" ELSE "medium")])

CheckCrossField(o) ==
    FindingIf(o.meta.gap > 60, "callback_missing", "high")
    \o FindingIf(~o.user, "field_missing", "high")
    \o FindingIf(~o.amount, "field_invalid", "critical")

FindingsOf(o) ==
    DetectLostOrder(o)
    \o FlattenSeq([i \in DOMAIN o.payments |-> DiagnosePayment(o, o.payments[i])])
    \o CheckStateConsistency(o)
    \o CheckCrossField(o)

\* AgentReport.from_findings.
FromFindings(fs) ==
    [findings |-> fs, passed |-> \A i \in DOMAIN fs : fs[i].severity \in {"none", "low"}]

Check ==
    /\ report = NoReport
    /\ report' = FromFindings(IF FindingsOf(order) = <<>> THEN <<Finding("normal", "none")>>
                              ELSE FindingsOf(order))
    /\ UNCHANGED <<order, intents>>

PNext == Classify \/ Check

PSpec == PInit /\ [][PNext]_pvars

-----------------------------------------------------------------------------
(* Properties. *)

Checked == report # NoReport

\* The agent fails the dropped and the lost orders of the dataset and no others, and no
\* order that it would fail is sent past it.
LabelsAgree ==
    Checked /\ order \in ALL_MOCK_ORDERS =>
        /\ ~report.passed <=> order.label \in {"dropped_order", "lost_order"}
        /\ ~report.passed /\ intents # Unclassified => "payment_integrity" \in Dispatched

All(o, ok(_)) == \A i \in DOMAIN o.payments : ok(o.payments[i])
Complete(o) == o.user /\ o.amount /\ o.meta.gap <= 60
Healthy(o) ==
    CASE o.payments = <<>> -> o.state \notin Sold /\ o.meta.idle = 0 /\ o.meta.address # "suspicious"
      [] o.payments # <<>> /\ o.state = "created" ->
            All(o, LAMBDA p : p.state \in {"pending"} \cup (IF o.meta.gap <= 30 THEN {"processing"} ELSE {}))
      [] o.payments # <<>> /\ o.state \in Sold -> All(o, LAMBDA p : p = Paid)
      [] OTHER -> All(o, LAMBDA p : p.state = "refunded")

\* What passes is what is healthy by its state: an open order nobody neglects, a sold one
\* each of whose attempts was paid and noticed, a called-off one that was refunded.  So an
\* order paid at the second attempt never passes, and the low severity of a failed
\* attempt that need not be retried decides nothing.
PassedIffHealthy == Checked => (report.passed <=> Complete(order) /\ Healthy(order))
=============================================================================
