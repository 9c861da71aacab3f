------------------------------- MODULE MCOrders -------------------------------
(* Orders for TLC. *)
EXTENDS Orders, TLC

\* Threads, objects and ids are interchangeable.
Symmetry == Permutations(Threads) \cup Permutations(Objects) \cup Permutations(Ids)
=============================================================================
