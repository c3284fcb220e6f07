----------------------------- MODULE BlockStore -----------------------------
(***************************************************************************)
(* The persistent block store (src/vm/blockstore.ts) under the calls the   *)
(* VM makes on it (src/vm/spacekitvm.ts).                                  *)
(*                                                                         *)
(* Blocks live in an in-memory cache with a recency list and in IndexedDB. *)
(* A call updates memory at once and queues a database transaction; the    *)
(* rest of it runs when that transaction settles.  IndexedDB runs a write  *)
(* alone, in the order of creation, and reads between two writes in any    *)
(* order; a transaction may fail as a whole, and a crash loses memory and  *)
(* every transaction still queued.  The headers store always holds the     *)
(* same heights as the blocks store and is not kept apart.                 *)
(***************************************************************************)
EXTENDS Naturals, Sequences, FiniteSets

CONSTANTS
  MaxHeight,          \* bound on heights
  Forks,              \* distinct blocks that may exist at one height
  Absent,             \* no block
  MaxCached,          \* maxBlocksInMemory, the cache size
  Writers,            \* callers of addBlock
  Readers,            \* callers of getBlock and getBlockByHash
  Importing,          \* whether importBlocks is used beside mining
  Clearing,           \* whether clear() is used
  MaxAdds, MaxFailures, MaxCrashes   \* bounds on calls, failed writes, crashes

ASSUME StoreAssumption ==
  /\ MaxHeight \in Nat \ {0} /\ MaxCached \in Nat \ {0}
  /\ MaxAdds \in Nat /\ MaxFailures \in Nat /\ MaxCrashes \in Nat
  /\ Importing \in BOOLEAN /\ Clearing \in BOOLEAN
  /\ Absent \notin Forks

VARIABLES
  up,            \* the store is initialised
  memory,        \* memoryBlocks: the block cached at each height
  accessOrder,   \* heights in the cache's recency list, oldest first
  known,         \* keys of hashToHeight
  latestHeight, oldestHeight,
  db,            \* committed content of IndexedDB
  queue,         \* transactions created and not yet settled
  writer,        \* what each writer is suspended in: mineBlock or addBlock
  reader,        \* the last read of each reader
  vmHeight,      \* totalHeight, the VM's height counter
  adds, failures, crashes,
  recency,       \* history: <<g, h>> when the cached g was last used before h
  acked,         \* history: heights whose addBlock resolved
  broken         \* history: a clear() or an init() was left half done

memVars   == <<memory, accessOrder, known, latestHeight, oldestHeight>>
procVars  == <<writer, reader, vmHeight>>
countVars == <<adds, failures, crashes>>
bsVars    == <<up, broken, memVars, db, queue, procVars, countVars, recency, acked>>

-----------------------------------------------------------------------------
Heights == 1..MaxHeight
Slot    == Forks \cup {Absent}

\* A block; its hash determines it, so a block stands for its hash as well.
BsBlock == [height : Heights, fork : Forks]

Database == [blocks : [Heights -> Slot], hashes : SUBSET BsBlock,
             latest : 0..MaxHeight, oldest : 0..MaxHeight]

\* Mutants of Put: the height before the block; the next free height; the
\* oldest height is recorded by every write.
PutBehind(w, b) == [kind |-> "put", by |-> w, block |-> b,
                    latest |-> latestHeight, first |-> oldestHeight = 0]
PutAhead(w, b) == [kind |-> "put", by |-> w, block |-> b,
                   latest |-> latestHeight' + 1, first |-> oldestHeight = 0]
PutFirst(w, b) == [kind |-> "put", by |-> w, block |-> b,
                   latest |-> latestHeight', first |-> TRUE]

\* The write of block b; first says that it also records the oldest height.
Put(w, b) == [kind |-> "put", by |-> w, block |-> b,
              latest |-> latestHeight', first |-> oldestHeight = 0]
Get(r)    == [kind |-> "get", by |-> r]
Lookup(r) == [kind |-> "lookup", by |-> r]
Wipe      == [kind |-> "clear"]

NoWrite == [pc |-> "idle", height |-> 1]

NoRead == [pc |-> "idle", height |-> 1, want |-> Absent, sure |-> FALSE,
           got |-> Absent]

Members(s) == {s[i] : i \in DOMAIN s}
Cached      == {h \in Heights : memory[h] # Absent}

\* Height h is the last one used.
Use(h) == {p \in recency : p[1] # h /\ p[2] # h} \cup ((Cached \ {h}) \X {h})

\* indexOf, splice, push: only the first occurrence of h is moved to the end.
FirstIndex(s, h) ==
  CHOOSE i \in DOMAIN s : s[i] = h /\ \A j \in 1..(i - 1) : s[j] # h

Without(s, i) == SubSeq(s, 1, i - 1) \o SubSeq(s, i + 1, Len(s))

\* Mutants of MoveToEnd: the height is not pushed back; it is not moved at all.
MoveOut(s, h) == Without(s, FirstIndex(s, h))
StayPut(s, h) == s

MoveToEnd(s, h) == Append(Without(s, FirstIndex(s, h)), h)

-----------------------------------------------------------------------------
EmptyDb == [blocks |-> [h \in Heights |-> Absent], hashes |-> {},
            latest |-> 0, oldest |-> 0]

BsInit ==
  /\ up = FALSE
  /\ memory = [h \in Heights |-> Absent]
  /\ accessOrder = <<>> /\ known = {}
  /\ latestHeight = 0 /\ oldestHeight = 0
  /\ db = EmptyDb /\ queue = <<>>
  /\ writer = [w \in Writers |-> NoWrite]
  /\ reader = [r \in Readers |-> NoRead]
  /\ vmHeight = 0
  /\ adds = 0 /\ failures = 0 /\ crashes = 0
  /\ recency = {} /\ acked = {} /\ broken = FALSE

\* Mutant of ResumeHeight: the VM counts from the start again.
ResumeAtZero == 0

\* What initBlockStore makes of the stored heights.
ResumeHeight == db.latest

\* The hash cursor of loadRecentBlocks visits the whole index.
LoadedHashes == db.hashes

(* init(): the meta record, the whole hash index and the newest blocks are
   read back, and the VM resumes from the latest height.  loaded enumerates
   the heights the cursor visits, in ascending order.                       *)
Window == {h \in Heights : /\ db.blocks[h] # Absent
                           /\ h + MaxCached > db.latest}

Ascending(s) == \A i, j \in DOMAIN s : i < j => s[i] < s[j]

\* The cursors visited the heights seen and the given hashes.
Load(seen, hashes) ==
  /\ memory' = [h \in Heights |-> IF h \in seen THEN db.blocks[h] ELSE Absent]
  /\ \E loaded \in [1..Cardinality(seen) -> Heights] :
        /\ Ascending(loaded) /\ Members(loaded) = seen
        /\ accessOrder' = loaded
  /\ known' = hashes
  /\ recency' = {p \in seen \X seen : p[1] < p[2]}

Start ==
  /\ ~up
  /\ up' = TRUE
  /\ latestHeight' = db.latest /\ oldestHeight' = db.oldest
  /\ vmHeight' = ResumeHeight
  /\ IF db.latest = 0
     THEN UNCHANGED <<memory, accessOrder, known, recency>>
     ELSE Load(Window, LoadedHashes)
  /\ UNCHANGED <<broken, db, queue, writer, reader, countVars, acked>>

(* init() rejects, but this.db is already set: a second initBlockStore finds
   nothing left to do and declares the store ready with what the first one
   left.  Nothing uses the store between the two calls.                     *)
StartHalf ==
  /\ ~up /\ failures < MaxFailures
  /\ up' = TRUE /\ broken' = TRUE
  /\ failures' = failures + 1
  /\ UNCHANGED <<db, queue, writer, reader, adds, crashes, acked>>

\* loadMeta rejects: nothing has been loaded.
StartUnread ==
  /\ StartHalf
  /\ vmHeight' = latestHeight
  /\ UNCHANGED memVars /\ UNCHANGED recency

\* loadRecentBlocks rejects: each cursor has come some way.
StartPartly ==
  /\ StartHalf
  /\ db.latest # 0
  /\ latestHeight' = db.latest /\ oldestHeight' = db.oldest
  /\ vmHeight' = ResumeHeight
  /\ \E top \in 0..MaxHeight, hashes \in SUBSET db.hashes :
        Load({h \in Window : h <= top}, hashes)

-----------------------------------------------------------------------------
(* mineBlock takes the next height and suspends, long before the block is
   there; importBlocks brings blocks of its own and takes no height.       *)
TakeHeight(w) ==
  /\ up /\ writer[w].pc = "idle" /\ adds < MaxAdds
  /\ vmHeight < MaxHeight
  /\ vmHeight' = vmHeight + 1
  /\ writer' = [writer EXCEPT ![w] = [pc |-> "mining", height |-> vmHeight']]
  /\ UNCHANGED <<up, broken, memVars, db, queue, reader, countVars, recency,
                 acked>>

\* A root computation throws: the height is spent and no block has it.
MineAborts(w) ==
  /\ writer[w].pc = "mining"
  /\ failures < MaxFailures
  /\ failures' = failures + 1
  /\ writer' = [writer EXCEPT ![w] = NoWrite]
  /\ UNCHANGED <<up, broken, memVars, db, queue, reader, vmHeight, adds,
                 crashes, recency, acked>>

(* addBlock up to its await: the cache, the hash map and the recency list
   are updated, and the write is queued with the heights as they are now.  *)
Add(w, b) ==
  /\ up /\ adds < MaxAdds
  /\ adds' = adds + 1
  /\ memory' = [memory EXCEPT ![b.height] = b.fork]
  /\ known' = known \cup {b}
  /\ accessOrder' = Append(accessOrder, b.height)
  /\ recency' = Use(b.height)
  /\ latestHeight' = IF b.height > latestHeight THEN b.height ELSE latestHeight
  /\ oldestHeight' = IF oldestHeight = 0 THEN b.height ELSE oldestHeight
  /\ queue' = Append(queue, Put(w, b))
  /\ writer' = [writer EXCEPT ![w] = [pc |-> "storing", height |-> b.height]]
  /\ UNCHANGED <<up, broken, db, reader, vmHeight, failures, crashes,
                 acked>>

AddMined(w, f) ==
  /\ writer[w].pc = "mining"
  /\ Add(w, [height |-> writer[w].height, fork |-> f])

AddImported(w, b) ==
  /\ Importing
  /\ writer[w].pc = "idle"
  /\ Add(w, b)

(* evictFromMemory: shift heights off the recency list until the cache fits.
   n is the number of shifts; none fits if a cached height is not listed,
   and the loop would not end.                                             *)
Left(n) == Cached \ Members(SubSeq(accessOrder, 1, n))

Evict ==
  \E n \in 0..Len(accessOrder) :
    /\ Cardinality(Left(n)) <= MaxCached
    /\ \A k \in 0..(n - 1) : Cardinality(Left(k)) > MaxCached
    /\ memory' = [h \in Heights |-> IF h \in Left(n) THEN memory[h] ELSE Absent]
    /\ accessOrder' = SubSeq(accessOrder, n + 1, Len(accessOrder))
    /\ recency' = {p \in recency : p[1] \in Left(n) /\ p[2] \in Left(n)}

Settle == queue # <<>> /\ queue' = Tail(queue)

\* A read may overtake other reads, and no write.
CanAnswer(i) ==
  /\ i \in DOMAIN queue
  /\ \A j \in 1..i : queue[j].kind \in {"get", "lookup"}

Answer(i) == CanAnswer(i) /\ queue' = Without(queue, i)

\* Mutant of Written: the hash index is left out of the transaction.
WrittenUnindexed(p) ==
  [db EXCEPT !.blocks[p.block.height] = p.block.fork, !.latest = p.latest,
             !.oldest = IF p.first THEN p.block.height ELSE @]

\* The database after write p, which is one transaction over all its stores.
Written(p) ==
  [blocks |-> [db.blocks EXCEPT ![p.block.height] = p.block.fork],
   hashes |-> db.hashes \cup {p.block},
   latest |-> p.latest,
   oldest |-> IF p.first THEN p.block.height ELSE db.oldest]

(* The oldest write commits: block, header, hash and heights together; then
   addBlock resumes and evicts.                                            *)
CommitPut ==
  /\ Settle /\ Head(queue).kind = "put"
  /\ LET p == Head(queue) IN
     /\ db' = Written(p)
     /\ writer' = [writer EXCEPT ![p.by] = NoWrite]
     /\ acked' = acked \cup {p.block.height}
  /\ Evict
  /\ UNCHANGED <<up, broken, known, latestHeight, oldestHeight, reader,
                 vmHeight, countVars>>

\* Mutant of CommitFails: the error is swallowed and addBlock resolves.
CommitFailsSilently ==
  /\ Settle /\ Head(queue).kind = "put"
  /\ failures < MaxFailures
  /\ failures' = failures + 1
  /\ writer' = [writer EXCEPT ![Head(queue).by] = NoWrite]
  /\ acked' = acked \cup {Head(queue).block.height}
  /\ UNCHANGED <<up, broken, memVars, db, reader, vmHeight, adds, crashes,
                 recency>>

(* The oldest write fails as a whole: addBlock rejects before it evicts, and
   what it did to memory stays.                                            *)
CommitFails ==
  /\ Settle /\ Head(queue).kind = "put"
  /\ failures < MaxFailures
  /\ failures' = failures + 1
  /\ writer' = [writer EXCEPT ![Head(queue).by] = NoWrite]
  /\ UNCHANGED <<up, broken, memVars, db, reader, vmHeight, adds, crashes,
                 recency, acked>>

-----------------------------------------------------------------------------
\* Mutant of Seek: the cache alone answers.
SeekCached(q, r, h, want, sure) ==
  /\ reader' = [reader EXCEPT ![r] = [pc |-> "done", height |-> h,
                  want |-> want, sure |-> sure, got |-> memory[h]]]
  /\ queue' = q
  /\ UNCHANGED <<accessOrder, recency>>

(* getBlock(h), also as the tail of getBlockByHash, when q is queued: a hit
   refreshes the recency list, a miss queues a read.                       *)
Seek(q, r, h, want, sure) ==
  \/ /\ memory[h] # Absent
     /\ accessOrder' = IF h \in Members(accessOrder)
                       THEN MoveToEnd(accessOrder, h) ELSE accessOrder
     /\ recency' = Use(h)
     /\ reader' = [reader EXCEPT ![r] = [pc |-> "done", height |-> h,
                     want |-> want, sure |-> sure, got |-> memory[h]]]
     /\ queue' = q
  \/ /\ memory[h] = Absent
     /\ queue' = Append(q, Get(r))
     /\ reader' = [reader EXCEPT ![r] = [pc |-> "reading", height |-> h,
                     want |-> want, sure |-> sure, got |-> Absent]]
     /\ UNCHANGED <<accessOrder, recency>>

GetBlock(r, h) ==
  /\ up /\ reader[r].pc \in {"idle", "done"}
  /\ Seek(queue, r, h, Absent, h \in acked)
  /\ UNCHANGED <<up, broken, memory, known, latestHeight, oldestHeight, db,
                 writer, vmHeight, countVars, acked>>

\* getBlockByHash of a hash the map knows goes on to getBlock.
GetByKnownHash(r, b) ==
  /\ up /\ reader[r].pc \in {"idle", "done"}
  /\ b \in known
  /\ Seek(queue, r, b.height, b.fork, b.height \in acked)
  /\ UNCHANGED <<up, broken, memory, known, latestHeight, oldestHeight, db,
                 writer, vmHeight, countVars, acked>>

\* A hash the map does not know is looked up in the database's index first.
GetByUnknownHash(r, b) ==
  /\ up /\ reader[r].pc \in {"idle", "done"}
  /\ b \notin known
  /\ queue' = Append(queue, Lookup(r))
  /\ reader' = [reader EXCEPT ![r] = [pc |-> "looking", height |-> b.height,
                  want |-> b.fork,
                  sure |-> b.height \in acked /\ b \in db.hashes,
                  got |-> Absent]]
  /\ UNCHANGED <<up, broken, memVars, db, writer, vmHeight, countVars,
                 recency, acked>>

(* A queued read settles: what it found enters the cache and the recency
   list, whatever happened to the cache since the miss.                    *)
Fill(i) ==
  /\ Answer(i) /\ queue[i].kind = "get"
  /\ LET r == queue[i].by
         h == reader[r].height
         f == db.blocks[h] IN
     /\ reader' = [reader EXCEPT ![r].pc = "done", ![r].got = f]
     /\ IF f = Absent
        THEN UNCHANGED <<memory, accessOrder, recency>>
        ELSE /\ memory' = [memory EXCEPT ![h] = f]
             /\ accessOrder' = Append(accessOrder, h)
             /\ recency' = Use(h)
  /\ UNCHANGED <<up, broken, known, latestHeight, oldestHeight, db, writer,
                 vmHeight, countVars, acked>>

\* The hash that reader r looks up.
HashOf(read) == [height |-> read.height, fork |-> read.want]

\* The index lookup settles with null.
LookupMisses(i) ==
  /\ Answer(i) /\ queue[i].kind = "lookup"
  /\ HashOf(reader[queue[i].by]) \notin db.hashes
  /\ reader' = [reader EXCEPT ![queue[i].by].pc = "done"]
  /\ UNCHANGED <<up, broken, memVars, db, writer, vmHeight, countVars,
                 recency, acked>>

(* The index lookup settles with a height: the map learns the hash, and
   getBlock goes on from there.                                            *)
LookupHits(i) ==
  /\ CanAnswer(i) /\ queue[i].kind = "lookup"
  /\ LET r == queue[i].by
         read == reader[r] IN
     /\ HashOf(read) \in db.hashes
     /\ known' = known \cup {HashOf(read)}
     /\ Seek(Without(queue, i), r, read.height, read.want, read.sure)
  /\ UNCHANGED <<up, broken, memory, latestHeight, oldestHeight, db, writer,
                 vmHeight, countVars, acked>>

\* A read request fails and the call rejects.
ReadFails(i) ==
  /\ Answer(i)
  /\ failures < MaxFailures
  /\ failures' = failures + 1
  /\ reader' = [reader EXCEPT ![queue[i].by] = NoRead]
  /\ UNCHANGED <<up, broken, memVars, db, writer, vmHeight, adds, crashes,
                 recency, acked>>

-----------------------------------------------------------------------------
(* clear() empties memory at once and queues the wiping of the database. *)
Clear ==
  /\ Clearing /\ up
  /\ Wipe \notin Members(queue)
  /\ memory' = [h \in Heights |-> Absent]
  /\ accessOrder' = <<>> /\ known' = {} /\ recency' = {}
  /\ latestHeight' = 0 /\ oldestHeight' = 0
  /\ queue' = Append(queue, Wipe)
  /\ acked' = {}
  /\ reader' = [r \in Readers |-> [reader[r] EXCEPT !.sure = FALSE]]
  /\ UNCHANGED <<up, broken, db, writer, vmHeight, countVars>>

ClearSettles ==
  /\ Settle /\ Head(queue).kind = "clear"
  /\ db' = EmptyDb
  /\ acked' = {}
  /\ reader' = [r \in Readers |-> [reader[r] EXCEPT !.sure = FALSE]]
  /\ UNCHANGED <<up, broken, memVars, writer, vmHeight, countVars,
                 recency>>

(* The wiping fails as a whole: clear() rejects, with memory, hash map and
   heights empty already and the database as full as before.               *)
ClearFails ==
  /\ Settle /\ Head(queue).kind = "clear"
  /\ failures < MaxFailures
  /\ failures' = failures + 1
  /\ broken' = TRUE
  /\ UNCHANGED <<up, memVars, db, writer, reader, vmHeight, adds, crashes,
                 recency, acked>>

(* The process ends: memory and queued transactions are gone. *)
Crash ==
  /\ up /\ crashes < MaxCrashes
  /\ up' = FALSE
  /\ crashes' = crashes + 1
  /\ memory' = [h \in Heights |-> Absent]
  /\ accessOrder' = <<>> /\ known' = {} /\ recency' = {}
  /\ latestHeight' = 0 /\ oldestHeight' = 0 /\ vmHeight' = 0
  /\ queue' = <<>>
  /\ writer' = [w \in Writers |-> NoWrite]
  /\ reader' = [r \in Readers |-> NoRead]
  /\ UNCHANGED <<broken, db, adds, failures, acked>>

-----------------------------------------------------------------------------
Write(w) ==
  \/ TakeHeight(w) \/ MineAborts(w)
  \/ \E f \in Forks : AddMined(w, f)
  \/ \E b \in BsBlock : AddImported(w, b)

Read(r) ==
  \/ \E h \in Heights : GetBlock(r, h)
  \/ \E b \in BsBlock : GetByKnownHash(r, b) \/ GetByUnknownHash(r, b)

BsNext ==
  \/ Start \/ StartUnread \/ StartPartly
  \/ CommitPut \/ CommitFails \/ Clear \/ ClearSettles \/ ClearFails \/ Crash
  \/ \E w \in Writers : Write(w)
  \/ \E r \in Readers : Read(r)
  \/ \E i \in DOMAIN queue :
       Fill(i) \/ LookupMisses(i) \/ LookupHits(i) \/ ReadFails(i)

BsSpec == BsInit /\ [][BsNext]_bsVars

-----------------------------------------------------------------------------
Request ==
  [kind : {"put"}, by : Writers, block : BsBlock, latest : 0..MaxHeight,
   first : BOOLEAN]
  \cup [kind : {"get", "lookup"}, by : Readers] \cup [kind : {"clear"}]

WriteState == [pc : {"idle", "mining", "storing"}, height : Heights]
ReadState  == [pc : {"idle", "looking", "reading", "done"}, height : Heights,
               want : Slot, sure : BOOLEAN, got : Slot]

(* Type invariant. *)
BsTypeOK ==
  /\ up \in BOOLEAN
  /\ memory \in [Heights -> Slot]
  /\ accessOrder \in Seq(Heights)
  /\ known \subseteq BsBlock
  /\ latestHeight \in 0..MaxHeight /\ oldestHeight \in 0..MaxHeight
  /\ db \in Database
  /\ queue \in Seq(Request)
  /\ writer \in [Writers -> WriteState]
  /\ reader \in [Readers -> ReadState]
  /\ vmHeight \in 0..MaxHeight
  /\ adds \in 0..MaxAdds /\ failures \in 0..MaxFailures
  /\ crashes \in 0..MaxCrashes
  /\ recency \subseteq Heights \X Heights
  /\ acked \subseteq Heights
  /\ broken \in BOOLEAN

(* Every cached height is in the recency list, through all the ways a block
   enters and leaves the cache.  The eviction loop shifts that list until
   the cache fits, so it ends exactly because of this.                      *)
CachedInOrder == Cached \subseteq Members(accessOrder)

(* A block whose addBlock resolved is in the database, whatever was evicted
   from memory, failed or crashed afterwards.                               *)
AckedStored == \A h \in acked : db.blocks[h] # Absent

(* A read that begins when its block is stored finds a block, by height or by
   hash: it never falls between the cache that is being evicted and the
   database, and it does not need the hash map, which a failed start leaves
   incomplete.                                                              *)
ReadsFindStored ==
  \A r \in Readers : reader[r].pc = "done" /\ reader[r].sure
                     => reader[r].got # Absent

(* Until a wipe or a start is left half done, the stored meta record never
   lags the stored blocks, so a restart does not resume below a block that
   exists.  (Afterwards it may: the heights in memory begin at zero again
   while the blocks are still stored.)                                      *)
NothingAboveLatest ==
  ~broken => \A h \in Heights : db.blocks[h] # Absent => h <= db.latest

(* The height a restart resumes from belongs to a stored block, also when a
   write or a start in between failed; and while nothing failed, the recorded
   oldest height is no later than any stored block.  (After the very first
   write failed it is recorded only by a restart.)                          *)
MetaMatchesBlocks ==
  /\ db.latest # 0 => db.blocks[db.latest] # Absent
  /\ failures = 0 =>
       \A h \in Heights : db.blocks[h] # Absent => db.oldest \in 1..h

(* Every stored block is in the hash index of the database; and until a wipe
   or a start is left half done the map alone suffices: a hash it does not
   know is not in the index either when the lookup there settles.           *)
HashMapSuffices ==
  /\ \A h \in Heights : db.blocks[h] # Absent =>
       [height |-> h, fork |-> db.blocks[h]] \in db.hashes
  /\ ~broken /\ queue # <<>> /\ Head(queue).kind = "lookup" =>
       HashOf(reader[Head(queue).by]) \notin db.hashes

\* A write of a block at height h has not settled.
PutQueued(h) ==
  \E i \in DOMAIN queue : queue[i].kind = "put" /\ queue[i].block.height = h

(* Until a start is left half done, a read by hash returns the block with that
   hash or nothing; and while nothing failed, a cached block whose write has
   settled is the one the database holds: fills that were delayed do not bring
   back an older block.                                                     *)
ReadsAreCurrent ==
  /\ ~broken => \A r \in Readers :
       reader[r].pc = "done" /\ reader[r].want # Absent /\ reader[r].got # Absent
         => reader[r].got = reader[r].want
  /\ failures = 0 =>
       \A h \in Cached : PutQueued(h) \/ memory[h] = db.blocks[h]

(* The VM's next block gets a height no known block has, until a wipe or a
   start is left half done.                                                 *)
NextHeightIsNew ==
  up /\ ~broken => \A b \in known : b.height <= vmHeight

(* When the cache shrinks, what leaves was used less recently than what
   stays, until a wipe or a start is left half done.                        *)
LruEviction ==
  [][~broken => \A h \in Cached \ Cached', g \in Cached \cap Cached' :
       <<h, g>> \in recency]_bsVars
=============================================================================
