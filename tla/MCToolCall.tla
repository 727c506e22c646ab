----------------------------- MODULE MCToolCall -----------------------------
(* Bounds: two callers, a window of three ticks for two requests and a       *)
(* recovery timeout of two: a call admitted before the breaker opens can     *)
(* report in every later state of the breaker.                               *)
EXTENDS ToolCall

CONSTANTS c1, c2

MCCallers == {c1, c2}
=============================================================================
