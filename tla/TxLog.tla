------------------------------- MODULE TxLog -------------------------------
(***************************************************************************)
(* What block production promises a user of SpacekitVm, with nothing of    *)
(* how it is done: accepted transactions form a log, a transaction enters  *)
(* it once, and mining moves a boundary forward over the log, by no more   *)
(* than a block's worth at a time.  Chain implements this specification as *)
(* long as mineBlock runs are kept apart.                                  *)
(***************************************************************************)
EXTENDS Naturals, Sequences

CONSTANTS
  Txs,            \* transactions that may be submitted
  MaxTxPerBlock   \* block size limit; 0 stands for no limit

VARIABLES
  log,   \* accepted transactions, oldest first
  cut    \* how many of them are in blocks

Init == log = <<>> /\ cut = 0

\* A submission is acknowledged.
Accept(t) ==
  /\ \A i \in DOMAIN log : log[i] # t
  /\ log' = Append(log, t)
  /\ UNCHANGED cut

\* A block takes the n oldest transactions that are in no block yet.
Mine(n) ==
  /\ n <= Len(log) - cut
  /\ MaxTxPerBlock = 0 \/ n <= MaxTxPerBlock
  /\ cut' = cut + n
  /\ UNCHANGED log

Next == \/ \E t \in Txs : Accept(t)
        \/ \E n \in 1..Len(log) : Mine(n)

Spec == Init /\ [][Next]_<<log, cut>>
=============================================================================
