----------------------------- MODULE MCGameRoom -----------------------------
(* GameRoom on small rooms; the constants are in the cfg files.            *)
EXTENDS GameRoom, TLC

\* Accounts, items and NPCs are interchangeable in the safety runs.
Symmetry == Permutations(Sessions) \cup Permutations(Items)
=============================================================================
