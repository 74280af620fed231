------------------------------- MODULE MCInput -------------------------------
(* Finite instances of Input for TLC. *)
EXTENDS Input
Symmetry == Permutations(Sessions) \cup Permutations(Ids)

(* The default of config.cpp maps the modifiers to their left-hand keys. *)
DefaultBindings == [k \in AllKeys |-> IF k = Mod THEN "left-mod" ELSE k]
=============================================================================
