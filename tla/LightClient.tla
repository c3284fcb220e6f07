----------------------------- MODULE LightClient -----------------------------
(***************************************************************************)
(* Merkle trees (src/vm/merkle.ts), the proofs a VM makes of transactions, *)
(* receipts and storage entries (src/vm/spacekitvm.ts), and the checks a   *)
(* light client makes of them (src/vm/light_client.ts, header_sync.ts).    *)
(*                                                                         *)
(* Hashes do not collide: a digest is the tuple of what it covers.  A      *)
(* proof is made in one turn as far as it reads state: its digests are     *)
(* awaited, but cover values read before.                                  *)
(***************************************************************************)
EXTENDS Integers, Sequences, SequencesExt

CONSTANTS
  LcKeys,        \* storage keys, numbers in the order of their hexadecimal names
  LcValues,      \* their values
  LcEmptyValue,  \* the value of length 0
  LcMaxTxs,      \* bound: transactions
  LcMaxBlocks    \* bound: blocks in memory

ASSUME LcAssumption == LcKeys \subseteq Int /\ LcMaxTxs \in Nat /\ LcMaxBlocks \in Nat

VARIABLES
  lcStorage,     \* the storage adapter: key -> value
  lcBlocks,      \* the blocks in memory
  lcProof        \* the last answer of a proof request

lcVars == <<lcStorage, lcBlocks, lcProof>>

-----------------------------------------------------------------------------
HashLeaf(value) == <<"leaf", value>>
HashPair(left, right) == <<"node", left, right>>
EmptyRoot == <<"merkle:empty">>

\* The next level: an odd node at the end is paired with itself.
NextLevel(level) ==
  [i \in 1 .. (Len(level) + 1) \div 2 |->
     HashPair(level[2 * i - 1], level[IF 2 * i <= Len(level) THEN 2 * i ELSE 2 * i - 1])]

Level(leaves) ==
  LET level[k \in Nat] == IF k = 0 THEN [i \in DOMAIN leaves |-> HashLeaf(leaves[i])]
                          ELSE NextLevel(level[k - 1])
  IN  level

\* The number of levels above the leaves: the loop ends at the first level of one node.
Height(leaves) ==
  CHOOSE k \in 0 .. Len(leaves) :
    Len(Level(leaves)[k]) = 1 /\ \A j \in 0 .. k - 1 : Len(Level(leaves)[j]) > 1

MerkleRoot(leaves) == IF leaves = <<>> THEN EmptyRoot ELSE Level(leaves)[Height(leaves)][1]

\* Bug for the mutant: an odd node at the end gets its left neighbour as sibling.
SiblingLeft(level, idx) ==
  IF idx % 2 = 1 \/ (idx + 1 = Len(level) /\ idx > 0) THEN [sibling |-> level[idx], position |-> "left"]
  ELSE [sibling |-> level[IF idx + 1 < Len(level) THEN idx + 2 ELSE idx + 1], position |-> "right"]

\* The step for the node at idx (from 0): level[siblingIndex] ?? level[idx].
Sibling(level, idx) ==
  IF idx % 2 = 1 THEN [sibling |-> level[idx], position |-> "left"]
  ELSE [sibling |-> level[IF idx + 1 < Len(level) THEN idx + 2 ELSE idx + 1], position |-> "right"]

\* idx, level by level.
Above(index) ==
  LET above[k \in Nat] == IF k = 0 THEN index ELSE above[k - 1] \div 2
  IN  above

MerkleProof(leaves, index) ==
  [k \in 1 .. Height(leaves) |-> Sibling(Level(leaves)[k - 1], Above(index)[k - 1])]

\* The hash after each step of a proof.
StepUp(hash, step) ==
  IF step.position = "left" THEN HashPair(step.sibling, hash) ELSE HashPair(hash, step.sibling)

Climb(leafHash, proof) ==
  LET hash[k \in 0 .. Len(proof)] == IF k = 0 THEN leafHash ELSE StepUp(hash[k - 1], proof[k])
  IN  hash

VerifyMerkleProofFromHash(leafHash, proof, root) == root = Climb(leafHash, proof)[Len(proof)]

VerifyMerkleProof(leaf, proof, root) == VerifyMerkleProofFromHash(HashLeaf(leaf), proof, root)

-----------------------------------------------------------------------------
(* The VM *)

TxHash(tx) == <<"tx", tx>>
ReceiptHash(tx) == <<"receipt", tx>>
NoProof == [kind |-> "none"]

\* computeStateRoot and computeStateProof: the entries in the order of their keys.
InOrder(keys) ==
  [i \in 1 .. Cardinality(keys) |-> CHOOSE k \in keys : Cardinality({j \in keys : j <= k}) = i]
Leaves(storage) ==
  [i \in DOMAIN InOrder(DOMAIN storage) |->
     <<InOrder(DOMAIN storage)[i], storage[InOrder(DOMAIN storage)[i]]>>]
Place(storage, key) == CHOOSE i \in DOMAIN Leaves(storage) : Leaves(storage)[i][1] = key
StateRoot(storage) == MerkleRoot(Leaves(storage))

LcInit ==
  /\ lcStorage = [k \in {} |-> LcEmptyValue]
  /\ lcBlocks = <<>>
  /\ lcProof = NoProof

LcWrite(k, v) ==
  /\ lcStorage' = [j \in DOMAIN lcStorage \cup {k} |-> IF j = k THEN v ELSE lcStorage[j]]
  /\ UNCHANGED <<lcBlocks, lcProof>>

\* Transactions are numbered as they are mined.
Mined == IF lcBlocks = <<>> THEN 0 ELSE Last(Last(lcBlocks).txs)

\* mineBlock: the next n transactions, with the roots of their hashes and of their receipts'.
LcMine(n) ==
  /\ Mined + n <= LcMaxTxs
  /\ Len(lcBlocks) < LcMaxBlocks
  /\ LET txs == [i \in 1 .. n |-> Mined + i]
     IN  lcBlocks' = Append(lcBlocks,
           [txs |-> txs, txRoot |-> MerkleRoot([i \in 1 .. n |-> TxHash(txs[i])]),
            receiptRoot |-> MerkleRoot([i \in 1 .. n |-> ReceiptHash(txs[i])]),
            stateRoot |-> StateRoot(lcStorage), entries |-> Leaves(lcStorage)])
  /\ UNCHANGED <<lcStorage, lcProof>>

\* getTxProof and getReceiptProof look for the block in memory that holds the transaction.
BlocksWith(tx) == {i \in DOMAIN lcBlocks : tx \in ToSet(lcBlocks[i].txs)}
InBlock(kind, b, tx, Hash(_), root) ==
  LET txs == lcBlocks[b].txs
      index == CHOOSE i \in DOMAIN txs : txs[i] = tx
  IN  [kind |-> kind, hash |-> Hash(tx), root |-> root, index |-> index - 1, block |-> b,
       proof |-> MerkleProof([i \in DOMAIN txs |-> Hash(txs[i])], index - 1)]

GetTxProof(tx) ==
  /\ lcProof' = IF BlocksWith(tx) = {} THEN NoProof
                ELSE LET b == CHOOSE i \in BlocksWith(tx) : TRUE
                     IN  InBlock("tx", b, tx, TxHash, lcBlocks[b].txRoot)
  /\ UNCHANGED <<lcStorage, lcBlocks>>

GetReceiptProof(tx) ==
  /\ lcProof' = IF BlocksWith(tx) = {} THEN NoProof
                ELSE LET b == CHOOSE i \in BlocksWith(tx) : TRUE
                     IN  InBlock("receipt", b, tx, ReceiptHash, lcBlocks[b].receiptRoot)
  /\ UNCHANGED <<lcStorage, lcBlocks>>

\* getStateProof: value, root and proof are of one turn; a missing key has an empty proof.
GetStateProof(k) ==
  /\ lcProof' = [kind |-> "state", key |-> k, found |-> k \in DOMAIN lcStorage,
                 value |-> IF k \in DOMAIN lcStorage THEN lcStorage[k] ELSE LcEmptyValue,
                 root |-> StateRoot(lcStorage),
                 proof |-> IF k \in DOMAIN lcStorage
                           THEN MerkleProof(Leaves(lcStorage), Place(lcStorage, k) - 1) ELSE <<>>]
  /\ UNCHANGED <<lcStorage, lcBlocks>>

LcNext ==
  \/ \E k \in LcKeys, v \in LcValues \cup {LcEmptyValue} : LcWrite(k, v)
  \/ \E n \in 1 .. LcMaxTxs : LcMine(n)
  \/ \E tx \in 1 .. LcMaxTxs : GetTxProof(tx) \/ GetReceiptProof(tx)
  \/ \E k \in LcKeys : GetStateProof(k)

LcSpec == LcInit /\ [][LcNext]_lcVars

-----------------------------------------------------------------------------
(* The light client *)

\* verifyComputeNodeTxProof and verifyComputeNodeReceiptProof take the hash for a hashed leaf.
VerifyComputeNodeProof(p, headerRoot) ==
  headerRoot = p.root /\ VerifyMerkleProofFromHash(p.hash, p.proof, p.root)

\* verifyComputeNodeStateProof: no value, or one of length 0, is refused.
VerifyComputeNodeStateProof(p, headerRoot) ==
  /\ p.found /\ p.value # LcEmptyValue
  /\ headerRoot = p.root
  /\ VerifyMerkleProof(<<p.key, p.value>>, p.proof, p.root)

LcTypeOK ==
  /\ DOMAIN lcStorage \subseteq LcKeys
  /\ \A k \in DOMAIN lcStorage : lcStorage[k] \in LcValues \cup {LcEmptyValue}
  /\ Len(lcBlocks) <= LcMaxBlocks
  /\ lcProof.kind \in {"none", "tx", "receipt", "state"}
  /\ lcProof.kind \in {"tx", "receipt"} => lcProof.block \in DOMAIN lcBlocks

\* A proof of a transaction or a receipt passes vm_verifyProof's verifyMerkleProof for its own hash
\* and for no other of the block, wherever it is in a block of whatever size; a proof of a
\* storage entry passes verifyComputeNodeStateProof exactly if the entry exists and is not empty,
\* and for no other value; under the header of the last block it passes only if that block was
\* mined over the same entry (merkleProof, merkleRoot, verifyMerkleProof, getStateProof).
ProofsVerify ==
  /\ lcProof.kind \in {"tx", "receipt"} =>
       LET Hash(tx) == IF lcProof.kind = "tx" THEN TxHash(tx) ELSE ReceiptHash(tx)
       IN  \A tx \in ToSet(lcBlocks[lcProof.block].txs) :
             VerifyMerkleProof(Hash(tx), lcProof.proof, lcProof.root) <=> lcProof.hash = Hash(tx)
  /\ lcProof.kind = "state" =>
       /\ VerifyComputeNodeStateProof(lcProof, lcProof.root) <=>
            lcProof.found /\ lcProof.value # LcEmptyValue
       /\ \A v \in LcValues \ {lcProof.value} :
            ~VerifyComputeNodeStateProof([lcProof EXCEPT !.value = v], lcProof.root)
       /\ lcBlocks # <<>> /\ VerifyComputeNodeStateProof(lcProof, Last(lcBlocks).stateRoot) =>
          \E i \in DOMAIN Last(lcBlocks).entries :
            Last(lcBlocks).entries[i] = <<lcProof.key, lcProof.value>>

\* README.md:396-403 lists vm_txProof among the proofs of the browser VM and
\* verifyComputeNodeTxProof as the helper that verifies them: it accepts what getTxProof made.
TxProofAccepted ==
  lcProof.kind = "tx" => VerifyComputeNodeProof(lcProof, lcBlocks[lcProof.block].txRoot)
=============================================================================
