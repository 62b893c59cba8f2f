-------------------------- MODULE MCBatchImageQueue --------------------------
(* Two jobs on two workers: the heartbeat of one job may be late in the       *)
(* active set, the lock of the other may expire.                             *)
EXTENDS BatchImageQueue, TLC

Symmetry == Permutations(Workers)
=============================================================================
