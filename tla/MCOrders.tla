------------------------------ MODULE MCOrders ------------------------------
(* Products and orders on a small instance.                                *)
EXTENDS Orders, TLC

Symmetry == Permutations(ProductIds) \cup Permutations(OrderIds) \cup Permutations(Users)
            \cup Permutations(Slugs) \cup Permutations(Handlers)

=============================================================================
