---------------------------- MODULE MCSplitWorkers ----------------------------
(* The instance of SplitWorkers for TLC: no symmetry, since its runs check    *)
(* liveness.                                                                  *)
EXTENDS SplitWorkers
=============================================================================
