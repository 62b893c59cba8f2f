------------------------ MODULE MCPaymentFulfilment ------------------------
(* Instance of PaymentFulfilment.                                           *)
EXTENDS PaymentFulfilment, TLC

CONSTANTS c1, c2, c3

CallSymmetry == Permutations(Calls)
=============================================================================
