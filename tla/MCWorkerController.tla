------------------------- MODULE MCWorkerController -------------------------
(* Instances of WorkerController for TLC. *)
EXTENDS WorkerController, TLC

CONSTANTS c1, c2, k1, k2, d1

\* Every operation names the same output directory.
SameDir == [c \in Operations |-> d1]
\* Calls are interchangeable where all are operations or all inspections.
CallsSymmetry == Permutations({c1, c2})
=============================================================================
