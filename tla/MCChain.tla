------------------------------ MODULE MCChain ------------------------------
(* Small instances of Chain for TLC. *)
EXTENDS Chain, TLC

\* Transactions, ticks and callers are interchangeable.
Symmetry ==
  Permutations(Txs) \cup Permutations(Ticks) \cup Permutations(Callers)
=============================================================================
