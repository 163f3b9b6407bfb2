---------------------------- MODULE MCStatusStore ----------------------------
(* An instance of StatusStore for TLC: two servers and an upload on each.     *)
EXTENDS StatusStore, TLC

CONSTANTS r1, r2, p1, p2

OneOnEach == (r1 :> p1) @@ (r2 :> p2)
=============================================================================
