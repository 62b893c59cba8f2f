--------------------------- MODULE MCIdempotency ---------------------------
(* Instance of Idempotency: three or four requests on one key.              *)
EXTENDS Idempotency, TLC

CONSTANTS r1, r2, r3, r4, f1, f2

\* r3 asks for something else under the same key.
MCFingerprint == [r \in Callers |-> IF r = r3 THEN f2 ELSE f1]
=============================================================================
