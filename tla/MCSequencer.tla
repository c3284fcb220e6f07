----------------------------- MODULE MCSequencer -----------------------------
(* Small instances of Sequencer for TLC. *)
EXTENDS Sequencer, TLC

\* Transactions and flushers are interchangeable.
Symmetry == Permutations(Txs) \cup Permutations(Flushers)
=============================================================================
