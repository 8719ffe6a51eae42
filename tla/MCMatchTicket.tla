--------------------------- MODULE MCMatchTicket ---------------------------
(* Small instances of MatchTicket for TLC. *)
EXTENDS MatchTicket, TLC

Symmetry == Permutations(Users) \cup Permutations(Reqs)
=============================================================================
