---------------------------- MODULE MCUserAdmin ----------------------------
(* Small instances of UserAdmin.                                           *)
EXTENDS UserAdmin, TLC

Symmetry == Permutations(Ids) \cup Permutations(Emails \ {AdminEmail}) \cup Permutations(Handlers)

=============================================================================
