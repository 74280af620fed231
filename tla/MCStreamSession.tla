-------------------------- MODULE MCStreamSession --------------------------
(* Finite instances of StreamSession for TLC. *)
EXTENDS StreamSession, TLC

Symmetry == Permutations(Sessions)
=============================================================================
