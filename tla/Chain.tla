------------------------------- MODULE Chain -------------------------------
(***************************************************************************)
(* Block production in SpacekitVm (src/vm/spacekitvm.ts).                  *)
(*                                                                         *)
(* The VM runs on one JavaScript thread: the code between two awaits is    *)
(* one atomic step, and every await is a point where the other handlers    *)
(* may run.  A transaction is executed against storage in one step and     *)
(* queued for mining in a later one; mineBlock suspends on its hashes and  *)
(* state roots before it commits the block; sealBlocks suspends on its     *)
(* digest before it prunes memory.  Two kinds of process call mineBlock:   *)
(* ticks of the auto-miner's interval timer, which the autoMining flag     *)
(* keeps apart, and direct callers (JSON-RPC vm_mine, the sequencer),      *)
(* which nothing keeps apart.                                              *)
(***************************************************************************)
EXTENDS Naturals, Sequences

CONSTANTS
  Txs,                \* transactions that may be submitted
  Ticks,              \* overlapping runs of the auto-miner's timer callback
  Callers,            \* direct callers of mineBlock
  MaxTxPerBlock,      \* block size limit; 0 stands for the code's null
  MaxBlocksInMemory,  \* blocks kept before they are sealed
  Persistent,         \* whether a block store is configured and ready
  MaxFaults           \* bound on the root computations that throw

Miners == Ticks \cup Callers

ASSUME ChainAssumption ==
  /\ MaxTxPerBlock \in Nat
  /\ MaxBlocksInMemory \in Nat \ {0}
  /\ Persistent \in BOOLEAN
  /\ MaxFaults \in Nat
  /\ Ticks \cap Callers = {}

VARIABLES
  submitted,    \* how far submitTransaction got with each transaction
  state,        \* storage: the transactions whose effects it holds
  pending,      \* executed transactions that wait for a block
  totalHeight,  \* height given to the last block started
  blocks,       \* blocks kept in memory
  sealed,       \* archives of the blocks pruned from memory
  autoMining,   \* guard flag of the auto-miner
  pc,           \* await at which each miner is suspended
  draft,        \* the block each miner is building
  archive,      \* the archive each miner is sealing
  faults,       \* root computations that threw so far (bounded)
  mined,        \* history: every block pushed, in order
  minedTxs      \* history: the transactions of those blocks, in order

submitVars == <<submitted, state>>
chainVars  == <<totalHeight, blocks, sealed>>
minerVars  == <<autoMining, pc, draft, archive, faults>>
history    == <<mined, minedTxs>>
vars       == <<submitVars, pending, chainVars, minerVars, history>>

-----------------------------------------------------------------------------
(* A block's hash is a digest of its content, its height included.  Heights
   are never reused (BlocksFollow), so the height stands for the hash;
   0 stands for the literal "genesis".  A state root is a digest of storage:
   the set of transactions whose effects it covers.                        *)
Genesis == 0

Block == [height : Nat, prevHash : Nat, txs : Seq(Txs),
          stateRoot : SUBSET Txs, quantumStateRoot : SUBSET Txs]

Archive == [fromHeight : Nat, toHeight : Nat, blockCount : Nat,
            sealHash : Seq(Nat)]

NoBlock == [height |-> 0, prevHash |-> Genesis, txs |-> <<>>,
            stateRoot |-> {}, quantumStateRoot |-> {}]

NoArchive == [fromHeight |-> 0, toHeight |-> 0, blockCount |-> 0,
              sealHash |-> <<>>]

Elements(s) == {s[i] : i \in DOMAIN s}

\* Mutant of Drop: the whole queue is replaced.
DropAll(s, n) == <<>>

Drop(s, n) == SubSeq(s, n + 1, Len(s))

\* Mutant of TakeCount: the size limit is forgotten.
TakeAll == Len(pending)

TakeCount ==
  IF MaxTxPerBlock # 0 /\ MaxTxPerBlock < Len(pending)
  THEN MaxTxPerBlock
  ELSE Len(pending)

PrevHash == IF blocks = <<>> THEN Genesis ELSE blocks[Len(blocks)].height

\* Mutants of NextHeight: the blocks in memory are counted; the wrong sign.
HeightFromMemory == Len(blocks) + 1
HeightBelow == totalHeight - 1

NextHeight == totalHeight + 1

\* Mutant of ComputeStateRoot: only mined transactions are in it.
RootOfMined == Elements(minedTxs)

\* What computeStateRoot and computeQuantumStateRoot digest when they run.
ComputeStateRoot == state

\* Mutant of ArchiveOf: the newest block is left out.
ArchiveButLast(bs) ==
  [fromHeight |-> bs[1].height, toHeight |-> bs[Len(bs)].height,
   blockCount |-> 0,
   sealHash |-> [i \in 1..(Len(bs) - 1) |-> bs[i].height]]

\* The archive sealBlocks starts from the blocks bs in memory; the count is
\* filled in after the await.
ArchiveOf(bs) ==
  [fromHeight |-> bs[1].height, toHeight |-> bs[Len(bs)].height,
   blockCount |-> 0, sealHash |-> [i \in DOMAIN bs |-> bs[i].height]]

-----------------------------------------------------------------------------
Init ==
  /\ submitted = [t \in Txs |-> "new"]
  /\ state = {}
  /\ pending = <<>>
  /\ totalHeight = 0
  /\ blocks = <<>>
  /\ sealed = <<>>
  /\ autoMining = FALSE
  /\ pc = [m \in Miners |-> "idle"]
  /\ draft = [m \in Miners |-> NoBlock]
  /\ archive = [m \in Miners |-> NoArchive]
  /\ faults = 0
  /\ mined = <<>>
  /\ minedTxs = <<>>

(* submitTransaction up to its await on the receipt hash: the fee, the value
   and the contract's writes are in storage.                               *)
Execute(t) ==
  /\ submitted[t] = "new"
  /\ submitted' = [submitted EXCEPT ![t] = "executed"]
  /\ state' = state \cup {t}
  /\ UNCHANGED <<pending, chainVars, minerVars, history>>

(* The contract is unknown or traps: submitTransaction rejects, but the fee
   and the value it moved before the call stay in storage.                 *)
Trap(t) ==
  /\ submitted[t] = "new"
  /\ submitted' = [submitted EXCEPT ![t] = "trapped"]
  /\ state' = state \cup {t}
  /\ UNCHANGED <<pending, chainVars, minerVars, history>>

(* submitTransaction resumes with the receipt hash and queues the entry. *)
Queue(t) ==
  /\ submitted[t] = "executed"
  /\ submitted' = [submitted EXCEPT ![t] = "queued"]
  /\ pending' = Append(pending, t)
  /\ UNCHANGED <<state, chainVars, minerVars, history>>

-----------------------------------------------------------------------------
(* mineBlock up to its first await: the slice, the previous hash and the
   height are read here.                                                   *)
StartMine(m) ==
  /\ pc[m] = "idle"
  /\ pending # <<>>
  /\ totalHeight' = NextHeight
  /\ draft' = [draft EXCEPT ![m] =
       [NoBlock EXCEPT !.height = totalHeight',
                       !.prevHash = PrevHash,
                       !.txs = SubSeq(pending, 1, TakeCount)]]
  /\ pc' = [pc EXCEPT ![m] = "hashing"]
  /\ UNCHANGED <<submitVars, pending, blocks, sealed, archive, faults, history>>

(* A tick of the auto-miner: nothing happens while another one is mining or
   when nothing is pending.                                                *)
Tick(m) ==
  /\ m \in Ticks
  /\ ~autoMining
  /\ autoMining' = TRUE
  /\ StartMine(m)

Call(m) ==
  /\ m \in Callers
  /\ StartMine(m)
  /\ UNCHANGED autoMining

\* Mutant of Return: no finally clause, the flag stays up.
ReturnBusy(m) ==
  /\ pc' = [pc EXCEPT ![m] = "idle"]
  /\ UNCHANGED autoMining

\* mineBlock settles; a tick's finally clause lowers the flag.
Return(m) ==
  /\ pc' = [pc EXCEPT ![m] = "idle"]
  /\ autoMining' = (autoMining /\ m \notin Ticks)

(* The Merkle roots are done and computeStateRoot reads storage. *)
ReadStateRoot(m) ==
  /\ pc[m] = "hashing"
  /\ draft' = [draft EXCEPT ![m].stateRoot = ComputeStateRoot]
  /\ pc' = [pc EXCEPT ![m] = "rooted"]
  /\ UNCHANGED <<submitVars, pending, chainVars, autoMining, archive, faults,
                 history>>

(* computeQuantumStateRoot reads storage again, after more awaits. *)
ReadQuantumRoot(m) ==
  /\ pc[m] = "rooted"
  /\ draft' = [draft EXCEPT ![m].quantumStateRoot = ComputeStateRoot]
  /\ pc' = [pc EXCEPT ![m] = "digesting"]
  /\ UNCHANGED <<submitVars, pending, chainVars, autoMining, archive, faults,
                 history>>

(* The Verkle computation throws: mineBlock rejects, its height is spent and
   its transactions stay pending.                                          *)
MineFails(m) ==
  /\ pc[m] = "rooted"
  /\ faults < MaxFaults
  /\ faults' = faults + 1
  /\ draft' = [draft EXCEPT ![m] = NoBlock]
  /\ Return(m)
  /\ UNCHANGED <<submitVars, pending, chainVars, archive, history>>

(* mineBlock resumes with the block hash: it pushes the block, drops the
   front of pending and, in the same step, starts to persist or to seal.   *)
Commit(m) ==
  /\ pc[m] = "digesting"
  /\ blocks' = Append(blocks, draft[m])
  /\ pending' = Drop(pending, Len(draft[m].txs))
  /\ mined' = Append(mined, draft[m])
  /\ minedTxs' = minedTxs \o draft[m].txs
  /\ draft' = [draft EXCEPT ![m] = NoBlock]
  /\ \/ /\ Persistent
        /\ pc' = [pc EXCEPT ![m] = "storing"]
        /\ UNCHANGED <<autoMining, archive>>
     \/ /\ ~Persistent /\ Len(blocks') >= MaxBlocksInMemory
        /\ archive' = [archive EXCEPT ![m] = ArchiveOf(blocks')]
        /\ pc' = [pc EXCEPT ![m] = "sealing"]
        /\ UNCHANGED autoMining
     \/ /\ ~Persistent /\ Len(blocks') < MaxBlocksInMemory
        /\ Return(m)
        /\ UNCHANGED archive
  /\ UNCHANGED <<submitVars, totalHeight, sealed, faults>>

(* sealBlocks resumes with the digest: it counts the blocks now in memory,
   keeps the archive and clears every block.                               *)
FinishSeal(m) ==
  /\ pc[m] = "sealing"
  /\ sealed' = Append(sealed, [archive[m] EXCEPT !.blockCount = Len(blocks)])
  /\ blocks' = <<>>
  /\ archive' = [archive EXCEPT ![m] = NoArchive]
  /\ Return(m)
  /\ UNCHANGED <<submitVars, pending, totalHeight, draft, faults, history>>

(* The block store settled, with or without an error. *)
FinishStore(m) ==
  /\ pc[m] = "storing"
  /\ Return(m)
  /\ UNCHANGED <<submitVars, pending, chainVars, draft, archive, faults, history>>

-----------------------------------------------------------------------------
Submission(t) == Execute(t) \/ Trap(t) \/ Queue(t)

Resume(m) ==
  \/ ReadStateRoot(m) \/ ReadQuantumRoot(m) \/ MineFails(m)
  \/ Commit(m) \/ FinishSeal(m) \/ FinishStore(m)

Next ==
  \/ \E t \in Txs : Submission(t)
  \/ \E m \in Miners : Tick(m) \/ Call(m) \/ Resume(m)

Spec == Init /\ [][Next]_vars

(* The interval timer keeps firing and every awaited promise settles; callers
   are under no obligation to submit or to mine.                           *)
Fairness ==
  /\ WF_vars(\E m \in Ticks : Tick(m))
  /\ \A m \in Miners : WF_vars(Resume(m))
  /\ \A t \in Txs : WF_vars(Queue(t))

FairSpec == Spec /\ Fairness

-----------------------------------------------------------------------------
(* Type invariant. *)
TypeOK ==
  /\ submitted \in [Txs -> {"new", "executed", "trapped", "queued"}]
  /\ state \subseteq Txs
  /\ pending \in Seq(Txs)
  /\ totalHeight \in Nat
  /\ blocks \in Seq(Block)
  /\ sealed \in Seq(Archive)
  /\ autoMining \in BOOLEAN
  /\ pc \in [Miners -> {"idle", "hashing", "rooted", "digesting",
                        "sealing", "storing"}]
  /\ draft \in [Miners -> Block]
  /\ archive \in [Miners -> Archive]
  /\ faults \in 0..MaxFaults
  /\ mined \in Seq(Block)
  /\ minedTxs \in Seq(Txs)

\* The transactions accepted so far: mined ones first, then those pending.
Accepted == minedTxs \o pending

AllDistinct(s) == \A i, j \in DOMAIN s : s[i] = s[j] => i = j

(* A transaction whose submission was acknowledged is pending or in a block,
   and never in two places: mineBlock, suspended between its slice of
   pending and the removal of that slice, neither loses nor repeats one.    *)
AcceptedOnce ==
  /\ AllDistinct(Accepted)
  /\ Elements(Accepted) = {t \in Txs : submitted[t] = "queued"}

(* Blocks take transactions in the order they were queued: seen as a log of
   accepted transactions with a boundary between mined and pending, no step
   reorders or drops an entry, and each block moves the boundary over the
   entries it holds, by no more than the block size limit.                  *)
Log == INSTANCE TxLog WITH log <- Accepted, cut <- Len(minedTxs)

ImplementsTxLog == Log!Spec

(* Every block ever mined is in memory or its hash is in one archive, and
   not both, and an archive counts the blocks it digested: sealing, suspended
   on its digest, prunes and counts what it digested and nothing else.      *)
Holders(b) ==
  {a \in DOMAIN sealed : b.height \in Elements(sealed[a].sealHash)}

BlocksAccountedFor ==
  /\ \A b \in Elements(mined) :
        IF b \in Elements(blocks) THEN Holders(b) = {}
                                  ELSE \E a \in DOMAIN sealed : Holders(b) = {a}
  /\ \A a \in DOMAIN sealed : sealed[a].blockCount = Len(sealed[a].sealHash)

(* Blocks are pushed in height order and no height is used twice, also after
   a mining attempt that failed halfway; and within memory, each block names
   the one before it as its predecessor, whatever was sealed meanwhile.     *)
BlocksFollow ==
  /\ \A i, j \in DOMAIN mined : i < j => mined[i].height < mined[j].height
  /\ \A i \in DOMAIN blocks : i > 1 => blocks[i].prevHash = blocks[i - 1].height

(* No two blocks ever carry the same height, however many callers mine. *)
HeightsUnique ==
  \A i, j \in DOMAIN mined : mined[i].height = mined[j].height => i = j

(* Each block names the block mined before it, which is what a header
   synchroniser asserts of consecutive headers.                             *)
HeaderChainLinked ==
  \A i \in DOMAIN mined : i > 1 => mined[i].prevHash = mined[i - 1].height

(* A block's state root covers the effects of the block's own transactions,
   and its Verkle root is no older than its state root.  (When two callers
   mine at once, the block pushed later may have the older root, so a root
   need not cover the transactions of the blocks pushed before it.)         *)
RootsCoverBlock ==
  \A i \in DOMAIN mined :
     /\ Elements(mined[i].txs) \subseteq mined[i].stateRoot
     /\ mined[i].stateRoot \subseteq mined[i].quantumStateRoot

(* At most one tick is past the autoMining guard, and the flag says so. *)
Busy(m) == pc[m] # "idle"

TicksExclude ==
  /\ \A m \in Ticks : Busy(m) => autoMining
  /\ \A m, n \in Ticks : Busy(m) /\ Busy(n) => m = n

(* While a miner is suspended with a slice of pending, that slice stays the
   front of pending, non-empty and within the block size limit: dropping as
   many entries as it took drops exactly the entries it took.               *)
Building(m) == pc[m] \in {"hashing", "rooted", "digesting"}

HoldsFront(m) ==
  /\ Len(draft[m].txs) \in 1..Len(pending)
  /\ draft[m].txs = SubSeq(pending, 1, Len(draft[m].txs))
  /\ MaxTxPerBlock = 0 \/ Len(draft[m].txs) <= MaxTxPerBlock

DraftHoldsFront == \A m \in Miners : Building(m) => HoldsFront(m)

(* While the auto-miner runs, whatever was queued is eventually mined, though
   an attempt may fail and though every attempt takes a bounded slice.      *)
QueuedIsMined ==
  \A t \in Txs : submitted[t] = "queued" ~> t \in Elements(minedTxs)
=============================================================================
