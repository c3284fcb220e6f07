------------------------------ MODULE MCMining ------------------------------
(***************************************************************************)
(* What runs under mining, for TLC: the sequencer that mines and bundles,  *)
(* and the block store that mineBlock alone writes.  Neither reads the     *)
(* other's state: one of them moves in a behaviour, chosen at its start,   *)
(* and the other stays in its first state.                                 *)
(***************************************************************************)
EXTENDS MCSequencer, BlockStore

VARIABLE component

MiningInit == component \in {"sequencer", "store"} /\ SeqInit /\ BsInit

MiningNext ==
  \/ component = "sequencer" /\ SeqNext /\ UNCHANGED <<component, bsVars>>
  \/ component = "store" /\ BsNext /\ UNCHANGED <<component, allVars>>

MiningSpec == MiningInit /\ [][MiningNext]_<<component, allVars, bsVars>>

\* As in MCSequencer; and so are the blocks at a height.
MiningSymmetry == Symmetry \cup Permutations(Forks)
=============================================================================
