------------------------------ MODULE MCCodebases ------------------------------
(* An instance of Codebases for TLC; clients, uploads and passes are alike.    *)
EXTENDS Codebases, TLC

BothFaults == {"db", "vector"}

Symmetry == Permutations(Clients) \cup Permutations(Uploads) \cup Permutations(Passes)
=============================================================================
