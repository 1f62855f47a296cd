--------------------------- MODULE MCRetrainWorker ---------------------------
(* RetrainWorker on small instances.                                       *)
EXTENDS RetrainWorker, TLC

\* No definition tells two workers, or two versions, apart.
Interchangeable == Permutations(Procs) \cup Permutations(Versions)

\* Nothing is claimed of the states after an overlap.
BeforeOverlap == ~overlapped
=============================================================================
