------------------------ MODULE MCBatchImagePipeline ------------------------
(* Small instances of the pipeline.                                         *)
EXTENDS BatchImagePipeline, TLC

CONSTANTS HoldAmount    \* the same hold for every job
MCHold == [j \in Jobs |-> HoldAmount]
Symmetry == Permutations(Jobs)
=============================================================================
