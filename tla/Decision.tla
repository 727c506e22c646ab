------------------------------ MODULE Decision ------------------------------
(* infrastructure/decision_engine.py: the rule table, what the engine reads   *)
(* from the results of the steps, and the decision it takes.  Texts (root     *)
(* cause, solution, reasoning) follow from the rule and are left out.         *)
EXTENDS Sequences, SequencesExt

None == ""

\* RuleEngine.RULES: the decision, its risk level and whether it needs approval.
Rule(d, r, a) == [decision |-> d, risk |-> r, approval |-> a]
Rules ==
    [E2001 |-> Rule("compensate", "medium", FALSE),
     E2002 |-> Rule("auto_resolve", "low", FALSE),
     E2003 |-> Rule("escalate", "high", TRUE),
     E2004 |-> Rule("retry", "medium", FALSE),
     E2005 |-> Rule("compensate", "medium", FALSE),
     E3001 |-> Rule("manual_review", "high", TRUE),
     E3002 |-> Rule("refund", "high", TRUE),
     E3004 |-> Rule("manual_review", "medium", TRUE),
     E3005 |-> Rule("compensate", "low", FALSE)]

\* _extract_error_code and _extract_risk_level: the first step that has one.
Codes(results) == {i \in DOMAIN results : results[i].code # None}
ErrorCode(results) == IF Codes(results) = {} THEN None ELSE results[Min(Codes(results))].code

Risks(results) == {i \in DOMAIN results : results[i].risk # None}
RiskOfFirstStep(results) == results[1].risk       \* mutant
RiskLevel(results) == IF Risks(results) = {} THEN "low" ELSE results[Min(Risks(results))].risk

\* Without a rule, the risk level decides.
ByRisk(level) ==
    CASE level = "high"   -> Rule("manual_review", "high", TRUE)
      [] level = "medium" -> Rule("compensate", "medium", FALSE)
      [] OTHER            -> Rule("auto_resolve", "low", FALSE)

\* DecisionEngine.decide: a matching code comes before the risk level.
Decide(results) ==
    IF ErrorCode(results) \in DOMAIN Rules
    THEN Rules[ErrorCode(results)]
    ELSE ByRisk(RiskLevel(results))
=============================================================================
