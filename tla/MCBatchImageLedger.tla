------------------------- MODULE MCBatchImageLedger -------------------------
(* Two jobs of one user whose holds do not fit the balance together with    *)
(* other usage, so that reservations fail, a release finds the pool too     *)
(* small, and one job's capture can meet the other job's frozen money.      *)
EXTENDS BatchImageLedger, TLC

CONSTANTS j1, j2
MCJobs == {j1, j2}
MCHold == (j1 :> 1) @@ (j2 :> 2)
=============================================================================
