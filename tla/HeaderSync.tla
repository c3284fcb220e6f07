------------------------------ MODULE HeaderSync ------------------------------
(***************************************************************************)
(* HeaderSyncClient and the header cache (src/vm/header_sync.ts,           *)
(* src/vm/header_cache.ts): headers are asked of a VM one by one over      *)
(* JSON-RPC and checked to be linked, while the VM mines, seals the blocks *)
(* it keeps in memory, or replaces them by imported ones.                  *)
(* One request is one step: the client does nothing until its answer.      *)
(* The VM is one without a block store: getBlocks and getBlockHeader.      *)
(***************************************************************************)
EXTENDS Integers, Sequences

CONSTANTS
  HdMaxHash,     \* bound: blocks ever made, here or by the exporter of an import
  HdMaxInMemory  \* maxBlocksInMemory

ASSUME HeaderSyncAssumption == HdMaxHash \in Nat /\ HdMaxInMemory \in Nat \ {0}

VARIABLES
  hdBlocks,   \* the headers of the blocks in memory
  hdTotal,    \* totalHeight
  hdHashes,   \* hashes given out so far
  hdSync,     \* the client's syncHeaders call
  hdCache     \* the entry of the header cache

hdVars == <<hdBlocks, hdTotal, hdHashes, hdSync, hdCache>>

HdGenesis == 0
Header(height, prevHash, blockHash) ==
  [height |-> height, prevHash |-> prevHash, blockHash |-> blockHash]
NoSync == [step |-> "idle"]
NoEntry == [latestHeight |-> 0, headers |-> <<>>]

HdInit ==
  /\ hdBlocks = <<>>
  /\ hdTotal = 0
  /\ hdHashes = 0
  /\ hdSync = NoSync
  /\ hdCache = NoEntry

-----------------------------------------------------------------------------
(* The VM *)

HdPrevHash(blocks) == IF blocks = <<>> THEN HdGenesis ELSE blocks[Len(blocks)].blockHash

\* A block is pushed whatever memory holds: it is sealed later, after an await.
HdMine ==
  /\ hdHashes < HdMaxHash
  /\ hdBlocks' = Append(hdBlocks, Header(hdTotal + 1, HdPrevHash(hdBlocks), hdHashes + 1))
  /\ hdTotal' = hdTotal + 1
  /\ hdHashes' = hdHashes + 1
  /\ UNCHANGED <<hdSync, hdCache>>

\* The memory of the VM is not what it was: a sync that goes on may fail.
Disturbed == IF hdSync.step = "fetching" THEN [hdSync EXCEPT !.whole = FALSE] ELSE hdSync

\* sealBlocks, of mineBlock or of the embedder, empties memory.
HdSeal ==
  /\ hdBlocks # <<>>
  /\ hdBlocks' = <<>>
  /\ hdSync' = Disturbed
  /\ UNCHANGED <<hdTotal, hdHashes, hdCache>>

\* importBlocks of another VM's first n blocks: the newest stay in memory, totalHeight is as it was.
HdImport(n) ==
  /\ hdHashes + n <= HdMaxHash
  /\ LET first == IF n > HdMaxInMemory THEN n - HdMaxInMemory + 1 ELSE 1
         ordered == [i \in 1 .. n |-> Header(i, IF i = 1 THEN HdGenesis ELSE hdHashes + i - 1, hdHashes + i)]
     IN  hdBlocks' = SubSeq(ordered, first, n)
  /\ hdHashes' = hdHashes + n
  /\ hdSync' = Disturbed
  /\ UNCHANGED <<hdTotal, hdCache>>

\* vm_blockHeader: the first block in memory at the height, or null.
BlockHeader(height) ==
  LET found == {i \in DOMAIN hdBlocks : hdBlocks[i].height = height}
  IN  IF found = {} THEN {} ELSE {hdBlocks[CHOOSE i \in found : \A j \in found : i <= j]}

-----------------------------------------------------------------------------
(* The client *)

GetLatestHeight == IF hdBlocks = <<>> THEN 0 ELSE hdBlocks[Len(hdBlocks)].height

\* The heights in memory are 1, 2, and so on.
Whole == \A i \in DOMAIN hdBlocks : hdBlocks[i].height = i

\* syncHeaders(from, to): without a height to stop at the newest one is asked for.
HdBegin(from, to) ==
  /\ hdSync.step \in {"idle", "failed"}
  /\ hdSync' = [step |-> "fetching", from |-> from, to |-> to, height |-> from,
                prevHash |-> HdGenesis, headers |-> <<>>,
                whole |-> Whole /\ to <= Len(hdBlocks) /\ from = 1]
  /\ UNCHANGED <<hdBlocks, hdTotal, hdHashes, hdCache>>

HdFails == hdSync' = [hdSync EXCEPT !.step = "failed"]

\* Bug for the mutant: the hash a header names is not compared.
AcceptsAny(header) == TRUE

HdAccepts(header) == hdSync.height > 1 => header.prevHash = hdSync.prevHash

\* One turn of the loop: the answer is null, does not link to the last header, or is kept.
GetHeader ==
  /\ hdSync.step = "fetching"
  /\ hdSync.height <= hdSync.to
  /\ \/ BlockHeader(hdSync.height) = {} /\ HdFails
     \/ \E header \in BlockHeader(hdSync.height) :
          IF HdAccepts(header)
          THEN hdSync' = [hdSync EXCEPT !.headers = Append(@, header), !.height = @ + 1,
                                        !.prevHash = header.blockHash]
          ELSE HdFails
  /\ UNCHANGED <<hdBlocks, hdTotal, hdHashes, hdCache>>

\* fetch rejects, or the status or the payload reports an error.
HdRequestFails ==
  /\ hdSync.step = "fetching"
  /\ hdSync' = [hdSync EXCEPT !.step = "failed", !.whole = FALSE]
  /\ UNCHANGED <<hdBlocks, hdTotal, hdHashes, hdCache>>

\* The call resolves and its caller saves the result, which replaces the entry.
HdSave ==
  /\ hdSync.step = "fetching"
  /\ hdSync.height > hdSync.to
  /\ hdCache' = [latestHeight |-> hdSync.to, headers |-> hdSync.headers]
  /\ hdSync' = NoSync
  /\ UNCHANGED <<hdBlocks, hdTotal, hdHashes>>

HdNext ==
  \/ HdMine \/ HdSeal \/ GetHeader \/ HdRequestFails \/ HdSave
  \/ \E n \in 1 .. HdMaxInMemory + 1 : HdImport(n)
  \/ HdBegin(1, GetLatestHeight)
  \/ \E from \in 1 .. 2, to \in 1 .. HdMaxInMemory : HdBegin(from, to)

HdSpec == HdInit /\ [][HdNext]_hdVars

-----------------------------------------------------------------------------
HdHeaders == [height : 1 .. HdMaxHash, prevHash : 0 .. HdMaxHash, blockHash : 1 .. HdMaxHash]

HdSyncs == [step : {"fetching", "failed"}, from : 1 .. 2, to : Nat, height : Nat, prevHash : Nat,
            headers : Seq(HdHeaders), whole : BOOLEAN]

HdTypeOK ==
  /\ hdBlocks \in Seq(HdHeaders) /\ Len(hdBlocks) <= hdHashes
  /\ hdTotal \in 0 .. hdHashes /\ hdHashes \in 0 .. HdMaxHash
  /\ hdSync \in HdSyncs \cup {NoSync}
  /\ hdCache \in [latestHeight : Nat, headers : Seq(HdHeaders)]

\* The cached headers are one chain of consecutive heights up to latestHeight, each naming the hash
\* of the one before, although every header was answered from a memory the VM sealed or replaced
\* meanwhile; and a sync from height 1 to one the VM held at its start does not fail unless a
\* request failed or the VM sealed or imported meanwhile (syncHeaders, mineBlock).
SyncIsChain ==
  /\ \A i \in DOMAIN hdCache.headers :
       /\ hdCache.headers[i].height = hdCache.latestHeight - Len(hdCache.headers) + i
       /\ i > 1 => hdCache.headers[i].prevHash = hdCache.headers[i - 1].blockHash
  /\ hdSync.step = "failed" => ~hdSync.whole
=============================================================================
