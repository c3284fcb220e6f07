------------------------------ MODULE MCLedger ------------------------------
(* Small instances of Ledger for TLC. *)
EXTENDS Ledger, TLC

CONSTANTS alice, treasury, account1, account2, k1, k2

MCDids == {alice, treasury, account1, account2}
MCAccountOf == k1 :> account1 @@ k2 :> account2
MCOpening == alice :> 4 @@ treasury :> 3 @@ account1 :> 0 @@ account2 :> 0

\* Requests are interchangeable.
Symmetry == Permutations(Requests)
=============================================================================
