------------------------ MODULE MCSystemOperationLock ------------------------
(* Instance of SystemOperationLock: three operations; the id of an          *)
(* operation is its own name.                                               *)
EXTENDS SystemOperationLock, TLC

MCFingerprint == [c \in Callers |-> c]
Symmetry == Permutations(Callers)
=============================================================================
