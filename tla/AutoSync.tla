------------------------------- MODULE AutoSync -------------------------------
(***************************************************************************)
(* VmAutoSync (src/vm/autosync.ts) with createSnapshot and restoreSnapshot *)
(* of the VM (src/vm/spacekitvm.ts) and the IndexedDbStorageAdapter they   *)
(* share (src/storage.ts): a timer saves the adapter's cache, another      *)
(* takes a snapshot of the storage, keeps it in that storage under a key   *)
(* of its own and saves it too; a start-up loads the cache and restores    *)
(* the snapshot it finds.  IndexedDB is external: a transaction is atomic. *)
(*                                                                         *)
(* Keys outside the snapshot's are the state; the value of a write is its  *)
(* number.  A snapshot is named by its place in asSnaps: its entries are   *)
(* those of the moment, the snapshot before it included.                   *)
(***************************************************************************)
EXTENDS Integers, Sequences

CONSTANTS
  AsKeys,        \* storage keys of the contracts
  AsMaxWrites,   \* bound: writes
  AsMaxSnaps,    \* bound: snapshots taken
  AsMaxSaves     \* bound: calls of syncAll that wait for the database, transactions in flight

ASSUME SyncAssumption == AsMaxWrites \in Nat /\ AsMaxSnaps \in Nat /\ AsMaxSaves \in Nat

VARIABLES
  asCache,     \* the adapter's map: the state and the snapshot kept in it, 0 for none
  asDb,        \* what IndexedDB has committed
  asOpening,   \* calls of syncAll whose openDb is awaited
  asSaves,     \* the caches captured by transactions in flight, oldest first
  asTimers,    \* whether start() was called
  asSnaps,     \* every snapshot begun, with the root read in the same turn
  asFlight,    \* snapshots whose roots are awaited
  asWrites,    \* writes so far
  asPast       \* history: every state the storage was in

asVars == <<asCache, asDb, asOpening, asSaves, asTimers, asSnaps, asFlight, asWrites, asPast>>

AsStates == [AsKeys -> 0 .. AsMaxWrites]
AsTable == [state : AsStates, snap : 0 .. AsMaxSnaps]
AsEmpty == [state |-> [k \in AsKeys |-> 0], snap |-> 0]

AsInit ==
  /\ asCache = AsEmpty
  /\ asDb = AsEmpty
  /\ asOpening = 0
  /\ asSaves = <<>>
  /\ asTimers = FALSE
  /\ asSnaps = <<>>
  /\ asFlight = {}
  /\ asWrites = 0
  /\ asPast = {AsEmpty.state}

databaseVars == <<asDb, asOpening, asSaves>>
snapshotVars == <<asSnaps, asFlight>>

\* A contract writes a key.
AsWrite(k) ==
  /\ asWrites < AsMaxWrites
  /\ asWrites' = asWrites + 1
  /\ asCache' = [asCache EXCEPT !.state[k] = asWrites + 1]
  /\ asPast' = asPast \cup {asCache'.state}
  /\ UNCHANGED <<databaseVars, asTimers, snapshotVars>>

AsStart ==
  /\ ~asTimers
  /\ asTimers' = TRUE
  /\ UNCHANGED <<asCache, databaseVars, snapshotVars, asWrites, asPast>>

\* stop() ends the timers; what they began goes on.
AsStop ==
  /\ asTimers
  /\ asTimers' = FALSE
  /\ UNCHANGED <<asCache, databaseVars, snapshotVars, asWrites, asPast>>

SyncTick ==
  /\ asTimers
  /\ asOpening < AsMaxSaves
  /\ asOpening' = asOpening + 1
  /\ UNCHANGED <<asCache, asDb, asSaves, asTimers, snapshotVars, asWrites, asPast>>

\* The database is open: syncAll captures the cache and begins a transaction.
AsCapture ==
  /\ asOpening > 0
  /\ Len(asSaves) < AsMaxSaves
  /\ asOpening' = asOpening - 1
  /\ asSaves' = Append(asSaves, asCache)
  /\ UNCHANGED <<asCache, asDb, asTimers, snapshotVars, asWrites, asPast>>

\* openDb rejects.
AsOpenFails ==
  /\ asOpening > 0
  /\ asOpening' = asOpening - 1
  /\ UNCHANGED <<asCache, asDb, asSaves, asTimers, snapshotVars, asWrites, asPast>>

\* Every entry of the captured cache is put, and no other is removed.
AsOverlay(table, captured) ==
  [state |-> [k \in AsKeys |-> IF captured.state[k] # 0 THEN captured.state[k] ELSE table.state[k]],
   snap |-> IF captured.snap # 0 THEN captured.snap ELSE table.snap]

AsSettles(table) ==
  /\ asSaves # <<>>
  /\ asDb' = table
  /\ asSaves' = Tail(asSaves)
  /\ UNCHANGED <<asCache, asOpening, asTimers, snapshotVars, asWrites, asPast>>

AsSaveCommits == asSaves # <<>> /\ AsSettles(AsOverlay(asDb, Head(asSaves)))
AsSaveFails == AsSettles(asDb)

\* Bug for the mutant: the entries are read when the roots are known.
KeptEntries(table) == asCache

\* What a snapshot holds when it is kept: the entries read before its roots.
Kept(table) == table

\* createSnapshot reads the entries and, in the same turn, the storage the state root is made of.
SnapshotTick ==
  /\ asTimers
  /\ Len(asSnaps) < AsMaxSnaps
  /\ asSnaps' = Append(asSnaps, [entries |-> asCache, stateRoot |-> asCache])
  /\ asFlight' = asFlight \cup {Len(asSnaps) + 1}
  /\ UNCHANGED <<asCache, databaseVars, asTimers, asWrites, asPast>>

\* The roots are known: the snapshot is kept in the storage, and a syncAll begins.  Digests of two
\* snapshots may end in either order.
SnapshotDone(i) ==
  /\ asOpening < AsMaxSaves
  /\ asFlight' = asFlight \ {i}
  /\ asSnaps' = [asSnaps EXCEPT ![i].entries = Kept(@)]
  /\ asCache' = [asCache EXCEPT !.snap = i]
  /\ asOpening' = asOpening + 1
  /\ UNCHANGED <<asDb, asSaves, asTimers, asWrites, asPast>>

\* restoreSnapshot: the cache is cleared, and the entries of the snapshot are set.
RestoreSnapshot(i) == asSnaps[i].entries

\* initFromSnapshot: the cache is loaded, and the snapshot that is in it restored.
Loaded(table) == IF table.snap = 0 THEN table ELSE RestoreSnapshot(table.snap)

\* The page closes, some transactions abort, and the next page loads what has committed.
AsRestart ==
  /\ \E n \in 0 .. Len(asSaves) :
       LET db[i \in 0 .. n] == IF i = 0 THEN asDb ELSE AsOverlay(db[i - 1], asSaves[i])
       IN  /\ asDb' = db[n]
           /\ asCache' = Loaded(db[n])
  /\ asOpening' = 0
  /\ asSaves' = <<>>
  /\ asTimers' = FALSE
  /\ asFlight' = {}
  /\ UNCHANGED <<asSnaps, asWrites, asPast>>

AsNext ==
  \/ \E k \in AsKeys : AsWrite(k)
  \/ AsStart \/ AsStop \/ SyncTick \/ AsCapture \/ AsOpenFails \/ AsSaveCommits \/ AsSaveFails \/ AsRestart
  \/ SnapshotTick
  \/ \E i \in asFlight : SnapshotDone(i)

AsSpec == AsInit /\ [][AsNext]_asVars

-----------------------------------------------------------------------------
AsTypeOK ==
  /\ asCache \in AsTable /\ asDb \in AsTable
  /\ asOpening \in 0 .. AsMaxSaves
  /\ asSaves \in Seq(AsTable) /\ Len(asSaves) <= AsMaxSaves
  /\ asTimers \in BOOLEAN
  /\ asSnaps \in Seq([entries : AsTable, stateRoot : AsTable])
  /\ asFlight \subseteq DOMAIN asSnaps
  /\ asWrites \in 0 .. AsMaxWrites
  /\ asCache.snap \in 0 .. Len(asSnaps) /\ asDb.snap \in 0 .. Len(asSnaps)

\* A snapshot in the storage, in the database or in another snapshot was taken in one cut: its
\* entries are a state that the storage was in, they are what its state root is a digest of, and
\* the snapshot nested in it is an older one, although contracts write, other snapshots are taken
\* and pages close while its roots are awaited; so the storage a VM starts from is a state it was
\* in, never a mixture of two (createSnapshot, restoreSnapshot, syncAll).
SnapshotIsCut ==
  /\ asCache.state \in asPast
  /\ \A i \in DOMAIN asSnaps :
       /\ asSnaps[i].entries.state \in asPast
       /\ asSnaps[i].entries = asSnaps[i].stateRoot
       /\ asSnaps[i].entries.snap < i
=============================================================================
