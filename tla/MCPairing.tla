------------------------------ MODULE MCPairing ------------------------------
(* Finite instances of Pairing for TLC. *)
EXTENDS Pairing, TLC
Symmetry == Permutations(Clients) \cup Permutations(Ids)
=============================================================================
