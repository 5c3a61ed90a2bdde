---------------------------- MODULE MCAccounts ----------------------------
(* Accounts on a small instance: interchangeable ids, tokens and handlers. *)
EXTENDS Accounts, TLC

Symmetry == Permutations(Ids) \cup Permutations(Emails)
            \cup Permutations(Tokens) \cup Permutations(Handlers)
===========================================================================
