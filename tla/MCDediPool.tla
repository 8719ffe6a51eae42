----------------------------- MODULE MCDediPool -----------------------------
(* DediPool on small pools; the constants are in the cfg files.            *)
EXTENDS DediPool, TLC

Symmetry == Permutations(Pids) \cup Permutations(Groups)
=============================================================================
