------------------------- MODULE MCPaymentIntegrity -------------------------
(* Bounds: up to two attempts to pay, which is where one attempt of an order  *)
(* contradicts another, and minutes on both sides of each limit of the code.  *)
EXTENDS PaymentIntegrity

MCGaps == {0, 30, 31, 60, 61}
MCIdles == {0, 1, 30, 120, 121}
=============================================================================
