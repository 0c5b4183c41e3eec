---------------------------- MODULE MCBookAdmin ----------------------------
(* Instances of BookAdmin for TLC. *)
EXTENDS BookAdmin, TLC

\* Task ids, worker slots, dispatchers, requests and row ids are interchangeable.
Symmetry == Permutations(Tasks) \cup Permutations(Workers)
                \cup Permutations(Dispatchers) \cup Permutations(Requests)
                \cup Permutations(Jobs)
=============================================================================
