---------------------------- MODULE MCSessions ----------------------------
(* Sessions on a small instance: interchangeable requests and revocations. *)
EXTENDS Sessions, TLC

Symmetry == Permutations(Requests) \cup Permutations(Writers)
===========================================================================
