--------------------------- MODULE MCParallelSweep ---------------------------
(* Instances of ParallelSweep for TLC; no symmetry, because of the         *)
(* liveness properties.                                                    *)
EXTENDS ParallelSweep
=============================================================================
