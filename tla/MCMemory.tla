------------------------------ MODULE MCMemory ------------------------------
(* Bounds: two orders and one cause, four runs of which two tasks are kept,   *)
(* so that ids are shared and tasks evicted; two starts with a crash anywhere *)
(* between them, and one save that raises.                                    *)
EXTENDS Memory

CONSTANT c1

MCOrders == {1, 2}
MCCauses == {c1}
=============================================================================
