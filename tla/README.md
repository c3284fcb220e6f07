# SpaceKit-JS in TLA+

SpaceKit-JS is a browser-native contract VM: it executes WASM contracts against
a key-value store, mines the transactions into blocks, keeps the blocks in
memory or in IndexedDB, seals or bundles them, and serves all of it over
JSON-RPC. This directory holds TLA+ models of the parts in which things overlap
or fail, TLC configurations that check them on small instances, and TLAPS proofs
of what holds for every instance. Sources are named relative to the repository
root (`src/vm/spacekitvm.ts` and so on).

One fact shapes every model. The code runs on one JavaScript thread: what stands
between two `await`s is atomic, and at every `await` any other handler may run.
An action is therefore the code between two awaits, and the hard behaviours are
what other actions do while a call is suspended. Nothing serialises the calls:
a JSON-RPC batch is a `Promise.all` (`http_rpc_server.ts:85`), and the
auto-miner and the auto-sync run on timers.

## The system

| Component | State | Operations | Interacts with | What makes it correct |
|---|---|---|---|---|
| Block production (`vm/spacekitvm.ts`) | `pending`, `blocks`, `sealed`, `totalHeight`, `autoMining` | `submitTransaction`, `executeTransaction`, `mineBlock`, `startAutoMiner`, `sealBlocks`, `importBlocks` | storage, block store, Verkle bridge | an accepted transaction is mined once, heights are unique and increase, blocks link, roots cover their block, sealing loses nothing |
| Admission, fees, nonces (`vm/spacekitvm.ts`, `vm/json_rpc.ts`) | native balances in storage, `nonceByDid` | `chargeFeeOrThrow`, `transferValueOrThrow`, `vm_submit`, `vm_submitSigned` and their batches | storage, signature checks | money is conserved on every path, only the caller pays, nonces are unique and protect against replay |
| Block store (`vm/blockstore.ts`) | cache, recency list, hash map, heights; four IndexedDB stores | `init`, `addBlock`, `getBlock`, `getBlockByHash`, `clear` | IndexedDB; called by the VM | what was acknowledged survives and is found, cache agrees with database, a restart resumes above every stored block |
| Sequencer (`vm/sequencer.ts`) | `lastSealedIndex` | `mineAndBundle`, `flushBundle`, export, signing | `mineBlock`, `getBlocks`, `getSealedArchives` | bundles are consistent cuts of the chain, hold each archive once, leave no gap |
| Storage adapters (`storage.ts`) | cache with versions and clocks | `set`, `mergeFromRemote`, `syncAll`, `syncWithStorageNode` | IndexedDB, storage node | replicas converge, no newer value is replaced by an older one |
| VmAutoSync (`vm/autosync.ts`) | two timers | `initFromSnapshot`, `start`, `stop` | VM snapshots, storage adapter | a restart never goes back behind what was persisted |
| IndexedDB backend (`idb-node/`) | sorted pairs per connection, an append-only log, schema and version files | `open`, `put`, `add`, `delete`, `clear`, cursors, commit, compaction, `deleteDatabase` | file system, microtasks | replay of the log gives the pairs in memory, keys stay sorted, compaction changes nothing |
| DID registry, genesis (`vm/genesis.ts`) | DID documents in storage, the lazily imported signature module | genesis, register, update, deactivate | storage, signatures | a document changes only by its own key, a deactivated DID stays so |
| Merkle, light client (`vm/merkle.ts`, `vm/light_client.ts`) | none of their own; they read blocks and storage | root, proof, verification | block headers | a proof made for a leaf verifies, and for no other leaf |
| Header sync (`vm/header_sync.ts`, `vm/header_cache.ts`) | headers cached per node | `syncHeaders` | JSON-RPC | what it accepts is one linked chain |
| Snapshot client (`vm/snapshot_client.ts`, `vm/snapshot_progress.ts`) | chunk progress | verify, download, delta, resume | HTTP | each entry arrives once, whatever is retried |
| Session store (`vm/session.ts`) | one record | load, modify, save | IndexedDB | no deployment is forgotten |
| SpaceTime (`spacetime/`) | documents of a collection, texts as blobs at one of several endpoints | create thread, reply, list, message routing | storage node, classifier | a document stays what its id names, its text stays somewhere |
| Contract calls (`host.ts`, `memory.ts`, `vm/spacekitvm.ts:541-637`) | one context per contract: caller, events, gas, allocator, tokens, LLM; receipts | deploy, execute, host calls, `setLlmAdapter` | WASM, storage | a receipt is its own transaction's, a buffer stays in memory, the adapter in use is the one set last |
| HTTP server (`vm/http_rpc_server.ts`) | rate table | one handler per request | JSON-RPC | the limit holds per window |
| LLM adapter and registry (`llm/`) | one cached answer, a memory of answers, capture mode; registered ids | `precompute`, `precomputeTRM`, `infer`, register | an inference engine, contract calls | an answer is used once, the active adapter is registered |
| Cryptography, platform glue, contract clients | caches at most | — | libraries | — |

Hard behaviours, in order of importance: calls suspended in `mineBlock`,
`sealBlocks`, `addBlock`, `flushBundle` and signature checks while others change
what they read; a root computation, a database write or a contract call that
fails halfway; crashes that lose memory but not storage; imports beside mining;
read-await-write operations on one record; downloads that are retried and resumed
while the server moves on.
`PROJECT.json` lists each hazard at its line with the properties aimed at it.

## Modules

| Module | Models | Used by |
|---|---|---|
| `TxLog` | the promise of block production: a log and a boundary that moves over it | `Chain` |
| `Chain` | `submitTransaction` to `mineBlock`, auto-miner, sealing | `MCChain`, `Sequencer` |
| `Sequencer` | `mineAndBundle`, `flushBundle`; extends `Chain` | `MCSequencer`, `MCMining` |
| `BlockStore` | the store under `mineBlock` and `importBlocks` | `MCMining`, `MCCalls` |
| `Ledger` | balances and nonces under overlapping requests | `MCLedger`, `MCCalls` |
| `Storage` | the IndexedDB adapter and its synchronisation through a storage node | (run directly) |
| `AutoSync` | the timers of `VmAutoSync`, snapshots in the storage, the saved cache, restarts | `MCServices` |
| `Idb` | connections, transactions, the log, replay, compaction, cursors, crashes | `MCServices`, run directly |
| `Host` | deployment, `executeTransaction`, the host calls that keep state | `MCServices` |
| `Did` | the DID resolver, genesis, the signature module | `MCServices` |
| `Session` | the session record | `MCServices` |
| `Snapshot` | the four downloads of the snapshot client and its progress | `MCServices` |
| `HeaderSync` | `syncHeaders` and the header cache over a VM that mines, seals, imports | `MCServices` |
| `LightClient` | Merkle trees, the VM's proofs and their verification | `MCServices`, run directly |
| `Forum` | threads, posts, blobs, routing of messages | `MCServices` |
| `Llm` | the web LLM adapter and the adapter registry | `MCServices` |
| `RateLimit` | admission of HTTP requests | `MCServices` |
| `ChainProofs`, `BlockStoreProofs`, `LedgerProofs`, `SequencerProofs`, `StorageProofs` | theorems about the module of that name | |
| `RecordProofs` | theorems about `Did`, `Session`, `AutoSync`, `Forum` | |
| `ServiceProofs` | theorems about `HeaderSync`, `RateLimit`, `Llm`, `Host`, `LightClient`, `Idb`, `Snapshot`, and about `MCServices` | |
| `SumLemmas` | the sum of a function over a finite set, and what changing one or two values does to it | `LedgerProofs` |

Modules named `MC…` define symmetry sets and constants for TLC; `MCMining`, `MCCalls` and `MCServices` also put
modules that share no state side by side (see Runs). Definitions of one module carry a short
prefix (`Bs`, `Idb`, `Ss`, `Hs`, `Did`, `Sn`, `Lc`, `Hd`, `As`, `Fm`, `Lm`, `Rl`) where names would meet. Each
module also holds mutants, marked as such: a definition changed the way a
plausible bug would change it, which a run then finds to break a property.

### Chain

`pc[m]` is the await at which miner `m` is suspended: `hashing` (transaction
hashes and Merkle roots, line 737), `rooted` (the state root was read, 741),
`digesting` (the Verkle root was read, 742-773), `storing` (814) or `sealing`
(817, 864). `draft[m]` is the block under construction, with what was read
before each await. `Tick` is a timer callback that found `autoMining` down; `Call` is
`vm_mine` or the sequencer, which check nothing. `MineFails` is the Verkle
computation throwing. `Execute`, `Trap` and `Queue` are the two halves of
`submitTransaction` and its failure after money moved.

Abstractions: a block's hash is its height (heights never repeat, which is
proved); a state root is the set of transactions whose effects storage held; an
archive's digest is the sequence of hashes it covers. `mined` and `minedTxs` are
history variables. Not in this module: `importBlocks` and an embedder's own
call of `sealBlocks`; `HeaderSync` has both, over the blocks in memory.

### BlockStore

`memory`, `accessOrder`, `known` are the cache, recency list and hash map. `db` is the
committed database, `queue` the transactions created and not settled. IndexedDB is external:
a write runs alone and in creation order, reads between two writes in any order,
a transaction fails as a whole. A crash drops memory and queue. `TakeHeight`
takes a height long before `AddMined` stores it, as in `mineBlock`; `AddImported` is
`importBlocks`. Starting may fail while the meta record (`StartUnread`) or the blocks (`StartPartly`) are loaded; the
database is set by then, so a second `initBlockStore` goes on with what memory holds. A wipe may fail (`ClearFails`)
after memory was emptied, and a hash the map lacks may then be in the index (`LookupHits`). `recency` and `acked` are
history, and `broken`: a wipe or a start was left half done. The headers store is always written with the blocks
store and not kept apart.

### Ledger

A request is one `submitTransaction`, called directly or by the handler of a signed request.
`Submit` is the whole synchronous run up to the receipt hash; with `requireSignature` it is split
at the await on verification (`SubmitVerified`, `Verified`). `SubmitSigned`, `Checked` and `Bump` are
the three synchronous parts of `vm_submitSigned`. `Refuse`, `KeepFee` and `Accept` are
the exits: nothing happened; the fee is gone, the value was not covered; admitted (whether the contract then
runs, traps or is missing). A batch is a sequence of requests.
Assumptions: storage is configured, contracts do not write `native:` keys, one
treasury, and no caller is the account of the contract it calls.

### Sequencer

Extends `Chain` with `lastSealedIndex` and the bundle each call is digesting. The
sequencer is the only one that mines, and there is no block store. A flush ends delivered (`Deliver`) or rejects
(`RejectFlush`: the digest or `onBundle` threw); the bundle of the latter is in `lost`, a history variable. Export and
signing act on a finished bundle and are left out.

### Storage

Each replica has its `cache`, its committed `db` and the caches captured by transactions in
flight (`saves`). `pc` is the await of `syncWithStorageNode`: `listing`
(line 400, until the answer), `merging` (answered, the body not yet merged), `opening` (402, `openDb`),
`saving` (402, the transaction), `pushing` (404). `pulled` is the answer to be merged, `puts` the
requests in flight; a put whose sender rejected or closed its page has no sender any more (`None`).
`Write` is `set`, `setWithVersion` or `deleteWithVersion`: a deletion is a write whose value is the tombstone,
and a value is the number of its write. `ListRefused` is the error status that
`listDocuments` turns into an empty list, `Rejects` a `fetch` or `openDb` that throws, `Refuse` the error status
`pushEntries` ignores, `Lose` a request or answer lost, `Close` and `Open` the end of a page and `init` of the next.

Abstractions: `Lag` says how far stamps may be out of order (0: one clock, no two writes in a
millisecond; 1: one clock; 2 or more: each machine has its own). `late` is history: the keys a replica wrote on a clock
behind the entry it replaced. Stamps are consecutive numbers; only their order matters
to the code. A replica runs one synchronisation at a time and has a database of its own. Identical
puts without sender count as one. Not in this module: the vector-clock strategy, `clear`; snapshots are in `AutoSync`.

### AutoSync

`asCache` and `asDb` are the adapter's map and IndexedDB, each a state of the contracts' keys and the
snapshot kept under a key of its own. `SyncTick` to `AsCapture` is `syncAll` up to its transaction
(`openDb` is awaited, then the whole cache is captured), `AsSaveCommits` and `AsSaveFails` its end.
`SnapshotTick` is `createSnapshot` up to the awaits on its roots, `SnapshotDone` the `set` of the
snapshot and the second save. `AsRestart` ends the page with any prefix of the saves in flight
committed, loads the cache and restores the snapshot found in it. A snapshot is named by its number;
its entries hold the snapshot before it, as in the code.

### Idb

`idbFile` is the log, whole lines and a torn tail; `idbDisk` the version file and whether the schema
lists the store; `idbConn` one record per `open()` with its own replayed pairs and the buffer of its transaction;
`idbMicro` the microtask queue. A commit is a microtask that appends the lines of the buffer one after
the other and applies each to the pairs; every request of a transaction queues one, and the first runs all of it. A crash
may leave any prefix of the lines and a part of the next one (`Partial`). Events have no effect on the log and are left out. `Replay` skips lines that do not parse.
Keys are numbers, and their encoding is modelled bit by bit at a small width because the order of the
pairs depends on it. Opening goes through the version and schema files with the rejection that an
`onupgradeneeded` handler causes; a database that has its store is among the initial states.
`idbFresh` is history: the connections behind whose back no other wrote, and which wrote behind no torn line
themselves.

### Host

`hsCtx` is the context of each deployed contract, `hsRun` the transaction that runs. A contract has no
await, so its host calls are steps of `hsRun` and only the end of `executeTransaction`, the digest of
the receipt, overlaps others (`hsHashing`). What a contract decides is a choice. `CreateHost` to `DeployContract`
spans the compilation, during which `SetLlmAdapter` updates the contracts it finds. Every call that
writes into the contract's memory goes through the allocator (`memory.ts`), in words of eight bytes
and pages of `HsPage` words. Left out: host calls that only format or copy, and those whose default adapters are empty.

### Did

`didCall` is a call of `update` or `deactivate` with the document it read, at its awaits: the digest of the
message, the import of the signature module, its configuration, the verification. `didModule` is that
module, imported once and used by whoever comes while its SHA-512 is not set yet. A signature is the
key that made it. `since` is history: the documents storage has held for the DID from the beginning of the call on.

### Session

`ssStored` is the record, `ssCall` each caller's operation at its read or write transaction. A record
may have been written by another release. `addContract` that finds no session, or one of a later release, resolves
and stores nothing. A call's `missed` is history, the ids that
others stored since it loaded the session; so is `ssKept`: the deployments stored, less those a save forgets because it
missed them.

### Snapshot

`snCall` is one of the four calls with its document, index, attempt and what it collected. `FetchChunk` is a
request, the hash check and the caller's callback, all inside the retried block; `FetchFails`,
`CallbackThrows` are the ways it is retried or rejects. `onProgress` runs behind that block: it begins to save the index
(`snSaving`), and nobody waits for the save, which commits later or fails (`SaveProgress`); when it throws, the call
rejects (`ProgressThrows`). `Publish` lets the server move on; chunk ids stay
and their bytes change. `SnReload` is a page that closes; the stored progress remains.

### HeaderSync

`hdBlocks` are the headers in memory, which mining extends without a limit until they are sealed; `HdMine`, `HdSeal`, `HdImport` are what the VM does between two requests.
`GetHeader` is one turn of the loop of `syncHeaders`; `HdSave` what its caller keeps. `whole` in a call says that
the VM held what was asked for at the start and neither sealed nor imported since.

### LightClient

Operators: the levels of a Merkle tree, its proof, the verifier, with a digest as the tuple of what it
covers. Actions: storage is written, a block is mined over it, one of the VM's three proofs is asked for. `VerifyCompute…`
are the helpers of the light client.

### Forum

A call is at one of its awaits: `classifying` and `routing` (the two questions to the classifier), `storing`
(the blob), `listing` and `putting` (the document). A request that rejects may have been carried out. Both kinds of document
share one collection, so both readers see both. `fmKept` is history: documents whose call no other overlapped.

### Llm

`lmCall` is a call of `precompute` or `precomputeTRM` at an await of the engine: `asking`, `refining` or `verifying`.
An answer is its number; how alike two answers are is a choice. `Infer` is the synchronous call a contract
makes; `lmUsed` is history. Of the reasoning memory the model keeps the lengths of its entries. The registry is a map of ids and the active one.

### RateLimit

One action per way the handler answers; `rlTable` is the rate table, with the window of each address.
A batch counts its calls before the handler runs. `rlHandled` is history.

## Runs

| Run | Question | Bounds, and why they suffice |
|---|---|---|
| `chain_auto` | Is the auto-miner alone safe and live? | 4 transactions, blocks of at most 2, 3 blocks in memory, one throwing root computation, two ticks: several blocks per queue, a seal, mining after a seal, a retry |
| `chain_direct` | What survives an unguarded second miner? | 3 transactions in blocks of 1, one tick and one caller, so slices and commits overlap in both orders, with a block store |
| `mining` | Are the sequencer's bundles complete and consistent? Is the store right under mining? | sequencer: 4 blocks of one transaction, 2 in memory, one caller and one flusher, a failing root, 5 bundles of which any may be rejected. Store: 3 heights, 2 cached, 4 additions, two failed operations (a start among them) and a crash: eviction, reload and a reused height occur |
| `calls` | Is money conserved, are nonces unique, does only the caller pay? What does the store keep when imports and `clear()` overlap? | ledger: 3 requests, two contracts of which one is deployed, the treasury among the callers, fees and values that exhaust balances, a restart with either setting. Store: 2 heights, 1 cached, 3 additions by 2 writers, a reader, two failed operations (a wipe or a start among them) and a crash |
| `chain_headers` | Do headers link across a seal? (no) | smallest instance with a block after a seal |
| `chain_unsealed` | Does an unguarded miner lose a block when sealing? (yes) | one tick, one caller, blocks of one transaction, 2 in memory |
| `ledger_signed` | Is a signed request admitted once? (no) | two requests |
| `storage` | Do replicas converge, and never step back? | 2 replicas on clocks that differ, one key (keys do not interact but through rejection), 2 writes that may carry one stamp or one behind, one transaction in flight per replica, 2 faults: a late put, a refused list, a closed page with a save in flight occur. `NoStepBack` is proved for all bounds |
| `services` | Are the components around the chain right, each by itself? | see below |
| `tx_proof` | Does the light client accept the proof of a transaction the VM makes? (no) | one block |
| `wal_torn` | Is what was committed replayed? (not behind a torn line) | a crash between two commits |
| `wal_cursor` | Does a cursor show the keys that were put? (no) | one number |

`services` runs eleven modules as one: the first state chooses which moves (the LLM adapter and its registry are two
choices), the others stay in their first state. They share no state, so nothing is lost by not letting them
alternate, and one passing run checks them all. `mining` and `calls` do the same with two modules each.

| Moves | States | Bounds, and why they suffice |
|---|---|---|
| `Idb` | 323 k | two connections, one negative and one positive key of 3 bits, one value, a log of 2 lines before compaction blocks more, 2 microtasks: two connections with different memories, a torn tail, a compaction |
| `Host` | 235 k | one contract, two transactions, a page of two words and two pages, a gas limit of one, two adapters: a transaction during the digest of another's receipt, an allocation that grows memory or fails |
| `Did` | 228 k | two callers, two DIDs of which genesis registers one, two keys: an update and a deactivation of one document, two documents at once |
| `Snapshot` | 173 k | three chunks, a second state that changes one and a third that drops one, two retries, one chunk a caller may know: bytes of another state, a chunk that is gone, a resumed call that starts behind its document, two saves of the progress on their way |
| `AutoSync` | 126 k | two keys, two writes, snapshots and saves: a write while a snapshot's roots are computed, a restart with a save in flight |
| `LightClient` | 94 k | blocks of up to 5 transactions (every shape of a tree of three levels with an odd node at each), 3 storage keys |
| `Forum` | 76 k | two agents, one text, two endpoints, two ids: two agents with one id, a text at the other endpoint |
| `Llm`, registry | 68 k, 8 | two calls, two refinement steps, two answers of one or two characters, two ids |
| `HeaderSync` | 64 k | sealed from 3 blocks in memory on, 6 hashes: a sync across a seal, an import and a mined block |
| `Session` | 15 k | two calls, two ids, two modules: a save that misses the other's deployment |
| `RateLimit` | 8 k | a listed and another address, windows of 2 ms, 2 requests, 6 ms |

Deadlock checking is off: every system stops when its bounded supply of
transactions, calls or requests is used up.

The six violation runs each contradict what the repository says of itself;
`PROJECT.json` quotes the lines. Symmetry is used for interchangeable
transactions, callers, writers, requests, connections and blocks, and not in `chain_auto`, which checks a
liveness property.


### Fairness

`chain_auto` assumes three things. Some tick eventually happens when one stays possible: the
interval timer fires until it is stopped. A suspended miner eventually resumes: awaited
digests settle. A submission that executed is eventually queued: so does its
receipt hash. Nobody has to submit, and direct callers have to do nothing. A
computation may fail, but only `MaxFaults` times: `QueuedIsMined` does not hold
of a Verkle bridge that throws for ever, and is not claimed to.

`storage` assumes that requests and transactions settle and that what awaits
them resumes. Nobody has to write, to save or to synchronise: `Converges` is
stated of replicas that do synchronise again and again. It also supposes that in the end
they do so one at a time, and needs to: two replicas whose synchronisations overlap in the same way each time can
put their own entries over each other's at the node for ever (TLC shows the cycle without
the supposition).

### Seen while modelling, without a run

Chain, money, store, storage:

- With clocks that differ, a local write carries an older stamp than the pulled entry it replaces, and the next pull
  undoes it. `NoStepBack` exempts that key on that replica, and no other.
- `initBlockStore` after a start that failed finds the database set (`blockstore.ts:185-187`) and answers the height in
  memory, 0, although `spacekitvm.ts:383` promises the one in storage.
- After a wipe or a start that failed half-way, the heights in memory begin at zero above a full database:
  `NothingAboveLatest`, `HashMapSuffices`, `NextHeightIsNew` and `LruEviction` fail from then on, which is why each says
  `~broken`. What was acknowledged stays stored and readable.
- The archives of a bundle whose flush rejected are in no later bundle (`sequencer.ts:90`, `104`, `120`).
- A root covers the transactions of its own block. That it covers those of earlier blocks too fails when two miners
  overlap: the block pushed later may have the older root.
- Two tabs with the default database name write their whole caches over each
  other: `syncAll` compares no versions, and never deletes a key from the database.
- A local write in the same millisecond as an earlier one that was pushed is
  undone by the next pull (`>=`, `storage.ts:288`).
- Under the vector strategy, entries written by `set` have no clock and never
  propagate, and a conflict is stored under a key that is not hexadecimal.
- With two direct callers or a caller beside the timer, `mineBlock` mines one
  transaction twice and drops another (`AcceptedOnce` fails): each call takes
  the same slice and each drops as many from the front.
- With a block store the VM's own `blocks` array grows for ever.
- `NextHeightIsNew` fails with imports: `importBlocks` leaves `totalHeight` alone. Two blocks
  at one height make a read by hash answer with the other block (`ReadsAreCurrent`).
- Two readers that miss together enter the recency list twice, so eviction is
  no longer least-recently-used; a read in flight refills a cleared cache.
- A caller that is the account of the contract it calls gains the value:
  `transferValueOrThrow` reads both balances before it writes either.
- With `requireSignature`, nonces repeat and may decrease, a signed RPC is always
  rejected (the handler passes no signature on), and the VM verifies a timestamp
  it chose itself (line 651).
- A signed submission advances the nonce by two (`json_rpc.ts:183`).
- `currentSupply` is the treasury's balance after a restart (line 442), and the
  header reports it as total supply.
- Bundles overlap: blocks stay in memory after a flush. With
  `maxBlocksInMemory` at or below `maxBlocksPerBundle`, `mineAndBundle` never flushes
  (sealing empties memory first) unless a call overlaps.
- A restart restores the last snapshot over entries `syncAll` persisted after
  it, with new stamps that win everywhere (`autosync.ts:38`). Restoring also puts the older snapshot nested in it
  back under the key, so a second restart in a row goes back further. Of two overlapping
  snapshots the older may be stored last. The Verkle root is read after an await and may belong to a later state.

IndexedDB backend:

- Every open of a new database whose upgrade handler uses `request.result` is rejected, as the adapters' handlers do
  (`storage.ts:384`, `blockstore.ts:209`): the handler runs before the result is set (`factory.ts:60-73`), against
  `README.md:243`. The model therefore also starts from a database that exists.
- A second `open()` replays once and never sees what another connection writes. `add` misses an uncommitted `put`.
  `oncomplete` fires once per commit, before the success events.

Contracts, DIDs, clients:

- `contract_call` always answers −2: `host.ts:714` calls a function's own `call`.
- The keys genesis protects (`genesis.ts:119-120`) are not enforced (`host.ts:466-471`). The default
  token registry is one per host and is lost when a contract is deployed again.
- Two overlapping changes of one DID document: the second write undoes the first, a deactivation
  included. `setEd25519` is visible before its SHA-512 is configured, and a verification then throws.
- A header synchronisation from a height above 1 fails unless the first header's `prevHash` is `"genesis"`.
- A contract being compiled while `setLlmAdapter` runs keeps the old adapter.
- Of two deployments that overlap, the one saved last writes back a session without the other (`session.ts:180-187`).
- The reasoning memory may be longer than `memoryBufferSize`: one entry is dropped per answer, however long the new one
  is (`web_adapter.ts:278`).
- A rejected `precompute` leaves the previous answer for the next contract, and the answer of one caller may be given to
  the contract of another.
- The forum: threads and posts are each read as both kinds, so `list_threads` lists replies and one
  sequence numbers both. A refused PUT still resolves to an id, a refused listing gives out id 1 again, and a
  text may be at another endpoint than its reader's.
- A body that does not parse is not counted against the rate limit.


## Proofs

TLAPS proves the following for every value of the constants that satisfies the
modules' assumptions, which TLC evaluates on each run. A theorem that needs more than those
says so as a hypothesis, named in the table with the reason: without it the property fails.

| Theorem | Property | Hypotheses beyond the assumptions, and why |
|---|---|---|
| `ChainProofs!TypeCorrect`, `NoHeightTwice`, `RootsCover` | `TypeOK`, `HeightsUnique`, `RootsCoverBlock` | none |
| `LoneMinerAcceptedOnce`, `LoneMinerImplementsTxLog`, `LoneMinerBlocksFollow`, `LoneMinerSealsAll` | `AcceptedOnce`, `ImplementsTxLog`, `BlocksFollow`, `BlocksAccountedFor` | `OneAtATime`: only the auto-miner mines, or only one process does; `chain_unsealed` shows a loss when two overlap |
| `BlockStoreProofs!TypeCorrect`, `CacheListed`, `EvictionTerminates`, `AckedBlocksStored`, `ReadsSucceed`, `LatestCoversBlocks`, `MapKnowsAllHashes` | `BsTypeOK`, `CachedInOrder`, `AckedStored`, `ReadsFindStored`, `NothingAboveLatest`, `HashMapSuffices` | none: the last two properties themselves speak of the time until a wipe or a start is left half done |
| `NextHeightUnused` | `NextHeightIsNew` | `~Importing`: an import leaves the VM's counter alone (and, in the property, until a wipe or a start is left half done) |
| `NoStaleReads` | `ReadsAreCurrent` | `~Importing`: two blocks at one height; `~Clearing`: a read queued before the wipe refills memory |
| `MetaIsRight` | `MetaMatchesBlocks` | those, and `OneWriter`: with two, a lower block written after a higher one records the higher height, and the higher write may have failed |
| `EvictsLeastRecent` | `LruEviction` | `~Importing`, and `OneReader`: two readers that miss the same height list it twice |
| `LedgerProofs!TypeCorrect`, `NoNonceTwice` | `TypeOK`, `NoncesUnique` | none |
| `MoneyConserved`, `OthersDoNotPay` | `Conservation`, `OnlyCallerPays` | `MoneyFitsWord`: all the money fits one storage word; `NoCallerIsContract`: a caller that is the account of the contract it calls gains the value |
| `SequencerProofs!SeqTypeCorrect`, `SequencerIsChain`, `SequencerHeights`, `ArchivesKept` | `SeqTypeOK` and parts of others | none |
| `BundlesComplete` | `BundlesDeliverChain` | `OneCaller`: as `OneAtATime` for the miners |
| `StorageProofs!TypeCorrect`, `AnswersAwaited` | `TypeOK` | none |
| `NeverStepsBack` | `NoStepBack` | none: the property itself leaves out a key that a replica wrote on a clock behind the entry it replaced |
| `RecordProofs`: `DidTypeCorrect`, `OnlySignedChanges`, `SessionTypeCorrect`, `DeploymentsKept`, `SnapshotsAreCuts`, `ForumIsKept` | `ChangesAreSigned`, `AddsAreKept`, `SnapshotIsCut`, `ForumKeeps` | none |
| `ServiceProofs`: `HdTypeCorrect`, `SyncedChain`, `RateHolds`, `LmTypeCorrect`, `AnswersOnce`, `HsTypeCorrect`, `ReceiptsOwn`, `AdapterSet` | `SyncIsChain`, `RateIsBounded`, `AnswersUsedOnce`, `ReceiptsAreOwn`, `AdapterReachesContracts` | none |
| `OwnLeafVerifies`, `OneLeafVerifies`, `OnlyLeavesVerify`, `LcTypeCorrect`, `MerkleProofs` | `ProofsVerify` | none |
| `EncodingKeepsOrder`, `IdbTypeCorrect`, `LogReplays` | `LogIsMemory` | none: the property itself is about connections behind whose back no other wrote and which wrote behind no torn line |
| `SnTypeCorrect`, `StateBrought` | `BringsTheState` | none: the property itself is about verified downloads |
| `ServicesTypeCorrect` | `ServicesTypeOK` | none |

**Chain.** Type correctness is inductive. `HeightsUnique` needs that the heights of
mined blocks and of drafts are pairwise distinct and at most `totalHeight`;
`RootsCoverBlock` needs that what is pending or drafted is in storage's state and
that a draft's roots grow towards it. Both hold with any miners.
The four theorems about a lone miner rest on `TicksExclude` (at most one miner is past the flag) and
`DraftHoldsFront` (the slice a suspended miner took is still the front of
`pending`), from which dropping as many entries as were taken drops exactly those.
`chain_unsealed` shows what an overlapping caller does. The refinement maps each commit to a `Mine` step of `TxLog`, each `Queue` to an
`Accept` and everything else to a stutter. `BlocksFollow` adds that a draft's predecessor is
still the last block in memory (`FollowInv`); `BlocksAccountedFor` that the archive being digested
holds exactly the heights still in memory (`SealInv`), and that a height stands for one block.

**BlockStore.** `CachedInOrder` is inductive over every way in and out of the cache, and
gives `EvictionTerminates`: shifting the whole recency list empties the cache. `AckedStored`
needs that a queued wipe precedes the acknowledgement of what follows it, and
`ReadsFindStored` that a read which began sure stays behind no wipe.
`NothingAboveLatest`, `HashMapSuffices`, `NextHeightIsNew` and `LruEviction` are proved as long as `broken` is false: a failed
wipe or start breaks what they rest on, the heights and the map in memory.
The other proofs are about the queue, position by position: `QueueSettled`, `QueueAnswered` and `QueueAppended` say
what each kind of step does to the entries and to what is not yet wiped between two of them (`Unwiped`).
`WritesRise` (each queued write records a height not below its own block's and its predecessors', as far back
as the last wipe) gives `NothingAboveLatest`; `WritesKnown` (the map has the hash of every stored or
queued block, and a queued lookup's hash is in no write before it) gives `HashMapSuffices`;
`HeightsNew` (a miner's height is `Fresh`: no block is or will be there) gives `NextHeightIsNew`.
`OneAtHeight` then says that map, cache, database, queue and readers agree on the one block of each height, and
`MetaCurrent` that at most one write is on its way and carries its own height.
`LruEviction` needs that the recency list orders the cached heights as they were used (`OrderIsRecency`), and that
a read that was queued before its height was cached finds nothing (`GetsFindNew`), as it would
list the height again.

**Ledger.** Type correctness includes that no balance goes below zero
or above the word. `NoncesUnique` needs that the nonces of admitted
transactions are below the caller's nonce while no signature is required. `Conservation` is an invariant of its own:
each transfer moves an amount between two accounts, and `SumLemmas` says what that does to the sum. A
balance near the end of the word would wrap; none gets there as long as all the money fits one word.

**Storage.** `NoStepBack` needs `InOrder`: a database, the captured caches in the order of
their transactions, and the cache of an open page increase in their versions, key by key, for the keys that
were never written on a clock behind (`Straight`). A write that keeps its key among them replaces an older or equal
entry; a commit keeps the order because its table is behind none of the later
ones. Nothing is assumed of the clocks. `Awaited` says which answers a synchronisation may still receive: none that was
asked for before its page closed.

**Sequencer.** Every step is a step of `Chain` or leaves it alone, so `Chain`'s theorems
carry over (`SequencerHeights` cites one). `NoArchiveLost`: no archive falls between two overlapping flushes. A bundle whose flush rejected keeps its place among
the bundles, as `lost`.
For `BundlesDeliverChain`, archives and blocks in memory are in the order of their heights
(`ArchiveInv`, from the lone miner's invariants), and each bundle, delivered or in flight, takes the archives
after those of the bundles before it and blocks above them (`BundleInv`).

**Records.** `ChangesAreSigned` needs that what a call read is among the documents storage has held since it began
(`ReadSince`), and that an update read an active one (`UpdatesActive`).
`AddsAreKept` needs that every session an `addContract` is about to save, too, has what is kept but for what the
call missed (`LoadedHolds`).
`SnapshotIsCut` needs that what a page may start from, the database with any prefix of the captured caches written over
it, is a past state or names a snapshot that was begun; and it is, because a captured cache has every
key that is in the database or in a cache captured before it, and so leaves no old value beside its own (`AsInv`).
`ForumKeeps` needs that a call marked alone is the only one at the forum, that the ids given out by listings
which were not refused lie beyond all kept ones, and that the blob of a kept text, or of one being put, is stored
(`FmInv`).

**Services.** `SyncIsChain` needs that what a call holds is linked and of consecutive heights,
by its comparisons alone, whatever the memory was at each request (`Fetched`), and that a call which is still `whole` finds
each next header where it expects it, because the memory is linked under mining, sealing and
imports (`Linked`, `OnCourse`). `RateIsBounded` needs that all calls handled since the entry of an address began
are counted in it (`Windowed`); any `windowMs` meets at most two windows. `AnswersUsedOnce` needs that an answer not yet
given is in one place, the cache or one call (`OnePlace`). `ReceiptsAreOwn` needs that the context of the
running contract holds exactly what the running transaction made, and that no receipt of it was taken yet;
`AdapterReachesContracts` that a context holds the adapter set last or was made before (`HsInv`).

**Merkle trees.** The levels of a tree shrink until one node is left, so a tree of any size has a height, and a
proof made for a leaf climbs through the nodes above it, level by level (`OwnLeafVerifies`). A digest
stands for what it covers, so two values under one root, by proofs of one length, are equal
(`OneLeafVerifies`), and what verifies under the root of a tree is one of its leaves (`OnlyLeavesVerify`).
`ProofsVerify` then needs that each answer of the VM was made from some storage or some block that was mined (`LcInv`).

**IndexedDB log.** The binary search halves an interval around the place of a key, so an insertion or a replacement
keeps the pairs sorted with one of a key; the lines of a commit, replayed one by one, do to the
pairs what its operations did (`LoggedReplays`), and the puts a compaction writes restore them
(`PutsRestore`). `LogIsMemory` needs besides that a connection behind whose back nobody wrote has what the
log replays to (`IdbInv`). The bytes of keys are ordered as the numbers for every width (`EncodingKeepsOrder`).

**Snapshot client.** A verified download under way has given what is due of the chunks it passed (`Due`, `Passed`); it
keeps the same entries and at most the one of the chunk it is trying, from a callback that threw
(`Trying`). Sorting keeps the entries and orders their keys (`InKeyOrderIs`), so what is due of all chunks is what
is returned (`Brought`, `SnInv`).

`ServicesTypeCorrect` puts the invariants of the eleven modules side by side: the one that moves keeps its own.

Sums, searches, replays, tree levels and sorting are defined by recursive functions; that such a function exists, and
what the proofs need of its values, is obtained from the smallest counterexample (`SumLemmas`,
`TurnsExist`, `CountUp`), as the induction theorems of the library cannot be instantiated here.

Only model-checked: liveness (`QueuedIsMined`, `Converges`), which needs fairness. Every other
property that a passing run checks is stated by a theorem. Each property with a hypothesis above is
checked only where the hypothesis holds.

## What remains

- Refinements: the write-ahead log as an atomic key-value store; `addBlock` as an atomic write.
- The vector-clock strategy of `storage.ts`; stores with key paths and several stores in `Idb`; export and signing of bundles.

Not modelled, and not planned:

- Cryptography (`vm/signatures.ts` but for its lazy import, `vm/hash.ts`, `quantum_verkle.ts`): a digest stands for
  what it covers and a signature for the key that made it; what the libraries compute is theirs.
- Argument encoding of the contract clients (`contracts/`), the SpaceTime codec and its command
  parser, platform start-up, exports: code without state, whose correctness is a matter of tables of bytes.
- Host calls that format, copy or ask an empty default adapter.

## Running

    tlc -workers 2 -config MCChainAuto.cfg MCChain.tla
    tlapm ChainProofs.tla
