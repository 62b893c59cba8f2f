-------------------------- MODULE MCPaymentRefund --------------------------
(* Instance of PaymentRefund.                                               *)
EXTENDS PaymentRefund, TLC

CONSTANTS c1, c2

CallSymmetry == Permutations(Calls)
=============================================================================
