------------------------------ MODULE MCCalls -------------------------------
(***************************************************************************)
(* The calls an embedder makes beside mining, for TLC: submissions on the  *)
(* ledger, and imports and clear() on the block store.  They share no      *)
(* state: one of the two moves in a behaviour, chosen at its start, and    *)
(* the other stays in its first state.                                     *)
(***************************************************************************)
EXTENDS MCLedger, BlockStore

VARIABLE component

CallsInit ==
  /\ component \in {"ledger", "store"}
  /\ Init /\ BsInit
  /\ component = "store" => ~requireSignature

CallsNext ==
  \/ component = "ledger" /\ Next /\ UNCHANGED <<component, bsVars>>
  \/ component = "store" /\ BsNext /\ UNCHANGED <<component, vars>>

CallsSpec == CallsInit /\ [][CallsNext]_<<component, vars, bsVars>>

\* As in MCLedger; and so are the writers of the store.
CallsSymmetry == Symmetry \cup Permutations(Writers)
=============================================================================
