-------------------------------- MODULE MCAsk --------------------------------
(* Instances of Ask for TLC. *)
EXTENDS Ask, TLC

Symmetry == Permutations(Requests) \cup Permutations(Books)
=============================================================================
