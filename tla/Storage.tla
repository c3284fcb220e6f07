------------------------------ MODULE Storage ------------------------------
(***************************************************************************)
(* Replicas of a contract's storage (src/storage.ts): each browser has an  *)
(* IndexedDbStorageAdapter, a cache in memory that syncAll writes to       *)
(* IndexedDB, and shares its entries through a storage node with           *)
(* syncWithStorageNode under the default strategy, last writer wins.       *)
(*                                                                         *)
(* A synchronisation lists the node's documents, merges them into the      *)
(* cache, saves the cache and pushes all of it, awaiting between any two   *)
(* of these.  Contracts write the cache at any moment, VmAutoSync saves it *)
(* on a timer, pages close, requests and transactions fail.  IndexedDB and *)
(* the node are external: a transaction is atomic and they settle in the   *)
(* order of creation; a PUT replaces the document, whatever it held.       *)
(***************************************************************************)
EXTENDS Integers, Sequences, FiniteSets

CONSTANTS
  Replicas,     \* browsers with a database each
  Keys,         \* storage keys
  None,         \* the sender of a PUT nobody awaits any more
  Lag,          \* how far a stamp may be behind the next one of the newest
                \* clock: with 0 or 1 the replicas share a clock, from 2 on
                \* each machine has its own
  MaxWrites,    \* bound on writes
  MaxSaves,     \* bound on the transactions a replica has in flight
  MaxFaults     \* bound on failed requests and transactions and closed pages

ASSUME StorageAssumption ==
  /\ None \notin Replicas
  /\ Lag \in Nat /\ MaxWrites \in Nat /\ MaxSaves \in Nat \ {0}
  /\ MaxFaults \in Nat

VARIABLES
  cache,     \* the adapter's map, per replica
  db,        \* what IndexedDB has committed, per replica
  node,      \* the documents of the collection at the storage node
  saves,     \* the caches captured by transactions in flight, oldest first
  pc,        \* the await at which each replica's synchronisation is
  pulled,    \* the answer each synchronisation is about to merge
  puts,      \* PUT requests in flight
  now,       \* the newest stamp given out
  writes,    \* how many writes there were; a value is the number of its write
  late,      \* history: <<r, k>> where r wrote k on a clock behind the entry
             \* that it replaced
  faults     \* requests and transactions that failed, pages that closed

syncVars == <<pc, pulled>>
clock    == <<now, writes, late>>
vars == <<cache, db, node, saves, syncVars, puts, clock, faults>>

-----------------------------------------------------------------------------
\* A deletion is a write as well: its value is the tombstone.
Entry   == [value : 0..MaxWrites, version : 0..(MaxWrites + Lag)]
NoEntry == [value |-> 0, version |-> 0]
Table   == [Keys -> Entry]
Empty   == [k \in Keys |-> NoEntry]

\* Mutant of Present: keys without an entry are written out as well.
AllKeys(t) == Keys

Present(t) == {k \in Keys : t[k].value # 0}

\* syncAll puts each entry of the captured cache and removes nothing.
Overlay(t, captured) ==
  [k \in Keys |-> IF k \in Present(captured) THEN captured[k] ELSE t[k]]

\* Mutants of MergeFromRemote: the remote entry always wins; never does.
MergeAlways(t, remote) == Overlay(t, remote)
MergeMissing(t, remote) == Overlay(remote, t)

(* mergeFromRemote: the entry with the greater version stays, and the remote
   one of two with the same version.                                        *)
MergeFromRemote(t, remote) ==
  [k \in Keys |-> IF k \in Present(remote) /\ remote[k].version >= t[k].version
                  THEN remote[k] ELSE t[k]]

\* Date.now() of a write, on clocks that are at most Lag apart.
Stamps == (now + 1 - Lag)..(now + 1)

Save == [table : Table, owner : {"sync", "timer", "none"}]
Put  == [from : Replicas \cup {None}, key : Keys, entry : Entry]

Own(r)       == {p \in puts : p.from = r}
Strays(ps)   == {[p EXCEPT !.from = None] : p \in ps}
Pushes(r, t) == {[from |-> r, key |-> k, entry |-> t[k]] : k \in Present(t)}

Init ==
  /\ cache = [r \in Replicas |-> Empty]
  /\ db = [r \in Replicas |-> Empty]
  /\ node = Empty
  /\ saves = [r \in Replicas |-> <<>>]
  /\ pc = [r \in Replicas |-> "idle"]
  /\ pulled = [r \in Replicas |-> Empty]
  /\ puts = {}
  /\ now = Lag /\ writes = 0 /\ late = {} /\ faults = 0

-----------------------------------------------------------------------------
(* The cache and its database. *)

Fail == faults < MaxFaults /\ faults' = faults + 1

\* set, setWithVersion or deleteWithVersion: the existing entry is not read.
Write(r, k) ==
  /\ pc[r] # "closed" /\ writes < MaxWrites
  /\ \E v \in Stamps :
       /\ cache' = [cache EXCEPT ![r][k] = [value |-> writes + 1, version |-> v]]
       /\ now' = IF v > now THEN v ELSE now
       /\ late' = IF v < cache[r][k].version THEN late \cup {<<r, k>>} ELSE late
  /\ writes' = writes + 1
  /\ UNCHANGED <<db, node, saves, syncVars, puts, faults>>

\* syncAll captures the cache when the database is open.
StartSave(r, owner) ==
  /\ Len(saves[r]) < MaxSaves
  /\ saves' = [saves EXCEPT ![r] =
                 Append(@, [table |-> cache[r], owner |-> owner])]

\* The timer of VmAutoSync, which awaits nothing.
SaveTimer(r) ==
  /\ pc[r] # "closed"
  /\ StartSave(r, "timer")
  /\ UNCHANGED <<cache, db, node, syncVars, puts, clock, faults>>

(* The oldest transaction commits; the synchronisation that awaits it reads
   the cache again and pushes that.                                         *)
SaveCommits(r) ==
  /\ saves[r] # <<>>
  /\ LET s == Head(saves[r]) IN
     /\ db' = [db EXCEPT ![r] = Overlay(@, s.table)]
     /\ IF s.owner = "sync"
        THEN /\ pc' = [pc EXCEPT ![r] = "pushing"]
             /\ puts' = puts \cup Pushes(r, cache[r])
        ELSE UNCHANGED <<pc, puts>>
  /\ saves' = [saves EXCEPT ![r] = Tail(@)]
  /\ UNCHANGED <<cache, node, pulled, clock, faults>>

\* It fails: a synchronisation rejects, a timer's promise is dropped.
SaveFails(r) ==
  /\ saves[r] # <<>> /\ Fail
  /\ pc' = IF Head(saves[r]).owner = "sync" THEN [pc EXCEPT ![r] = "idle"] ELSE pc
  /\ saves' = [saves EXCEPT ![r] = Tail(@)]
  /\ UNCHANGED <<cache, db, node, pulled, puts, clock>>

\* The page closes.  Some transactions abort, and nobody awaits the others;
\* some requests are cancelled.
Close(r) ==
  /\ pc[r] # "closed" /\ Fail
  /\ cache' = [cache EXCEPT ![r] = Empty]
  /\ pc' = [pc EXCEPT ![r] = "closed"]
  /\ pulled' = [pulled EXCEPT ![r] = Empty]
  /\ \E n \in 0..Len(saves[r]) :
       saves' = [saves EXCEPT ![r] =
         [i \in 1..n |-> [table |-> saves[r][i].table, owner |-> "none"]]]
  /\ \E sent \in SUBSET Own(r) : puts' = (puts \ Own(r)) \cup Strays(sent)
  /\ UNCHANGED <<db, node, clock>>

\* init of the next page reads the store once the old transactions settled.
Open(r) ==
  /\ pc[r] = "closed" /\ saves[r] = <<>>
  /\ cache' = [cache EXCEPT ![r] = db[r]]
  /\ pc' = [pc EXCEPT ![r] = "idle"]
  /\ UNCHANGED <<db, node, saves, pulled, puts, clock, faults>>

-----------------------------------------------------------------------------
(* syncWithStorageNode, one at a time per replica. *)

StartSync(r) ==
  /\ pc[r] = "idle"
  /\ pc' = [pc EXCEPT ![r] = "listing"]
  /\ UNCHANGED <<cache, db, node, saves, pulled, puts, clock, faults>>

\* The node answers; the answer is merged later.
NodeLists(r) ==
  /\ pc[r] = "listing"
  /\ pulled' = [pulled EXCEPT ![r] = node]
  /\ pc' = [pc EXCEPT ![r] = "merging"]
  /\ UNCHANGED <<cache, db, node, saves, puts, clock, faults>>

\* An error status is taken for an empty list, and the pushing goes ahead.
ListRefused(r) ==
  /\ pc[r] = "listing" /\ Fail
  /\ pc' = [pc EXCEPT ![r] = "merging"]
  /\ UNCHANGED <<cache, db, node, saves, pulled, puts, clock>>

\* fetch or openDb rejects, and the synchronisation with it.
Rejects(r) ==
  /\ pc[r] \in {"listing", "opening"} /\ Fail
  /\ pc' = [pc EXCEPT ![r] = "idle"]
  /\ UNCHANGED <<cache, db, node, saves, pulled, puts, clock>>

Merge(r) ==
  /\ pc[r] = "merging"
  /\ cache' = [cache EXCEPT ![r] = MergeFromRemote(@, pulled[r])]
  /\ pulled' = [pulled EXCEPT ![r] = Empty]
  /\ pc' = [pc EXCEPT ![r] = "opening"]
  /\ UNCHANGED <<db, node, saves, puts, clock, faults>>

SaveMerged(r) ==
  /\ pc[r] = "opening"
  /\ StartSave(r, "sync")
  /\ pc' = [pc EXCEPT ![r] = "saving"]
  /\ UNCHANGED <<cache, db, node, pulled, puts, clock, faults>>

\* Every PUT is answered.
Resolve(r) ==
  /\ pc[r] = "pushing" /\ Own(r) = {}
  /\ pc' = [pc EXCEPT ![r] = "idle"]
  /\ UNCHANGED <<cache, db, node, saves, pulled, puts, clock, faults>>

-----------------------------------------------------------------------------
(* The network and the storage node. *)

Deliver(p) ==
  /\ node' = [node EXCEPT ![p.key] = p.entry]
  /\ puts' = puts \ {p}
  /\ UNCHANGED <<cache, db, saves, syncVars, clock, faults>>

\* An error status, which pushEntries does not look at.
Refuse(p) ==
  /\ Fail
  /\ puts' = puts \ {p}
  /\ UNCHANGED <<cache, db, node, saves, syncVars, clock>>

\* The request or its answer is lost: the synchronisation rejects while its
\* other requests go on.
Lose(p) ==
  /\ Fail
  /\ node' \in {node, [node EXCEPT ![p.key] = p.entry]}
  /\ IF p.from = None
     THEN puts' = puts \ {p} /\ UNCHANGED pc
     ELSE /\ puts' = (puts \ Own(p.from)) \cup Strays(Own(p.from) \ {p})
          /\ pc' = [pc EXCEPT ![p.from] = "idle"]
  /\ UNCHANGED <<cache, db, saves, pulled, clock>>

Delivery == \E p \in puts : Deliver(p)

Next ==
  \/ \E r \in Replicas, k \in Keys : Write(r, k)
  \/ \E r \in Replicas : SaveTimer(r) \/ SaveCommits(r) \/ SaveFails(r)
  \/ \E r \in Replicas : Close(r) \/ Open(r)
  \/ \E r \in Replicas : StartSync(r) \/ NodeLists(r) \/ ListRefused(r)
  \/ \E r \in Replicas : Rejects(r) \/ Merge(r) \/ SaveMerged(r) \/ Resolve(r)
  \/ Delivery
  \/ \E p \in puts : Refuse(p) \/ Lose(p)

(* Requests and transactions settle, and what awaits them resumes.  Nobody
   has to write, to save or to synchronise.                                 *)
Fairness ==
  /\ \A r \in Replicas : /\ WF_vars(NodeLists(r)) /\ WF_vars(Merge(r))
                         /\ WF_vars(SaveMerged(r)) /\ WF_vars(SaveCommits(r))
                         /\ WF_vars(Resolve(r))
  /\ WF_vars(Delivery)

Spec     == Init /\ [][Next]_vars
FairSpec == Spec /\ Fairness

-----------------------------------------------------------------------------
Awaits == {"idle", "listing", "merging", "opening", "saving", "pushing", "closed"}

(* Type invariant; no PUT carries a document without a value. *)
TypeOK ==
  /\ cache \in [Replicas -> Table]
  /\ db \in [Replicas -> Table]
  /\ node \in Table
  /\ saves \in [Replicas -> Seq(Save)]
  /\ pc \in [Replicas -> Awaits]
  /\ pulled \in [Replicas -> Table]
  /\ puts \subseteq Put
  /\ \A p \in puts : p.entry.value # 0
  /\ now \in Lag..(writes + Lag)
  /\ late \subseteq Replicas \X Keys
  /\ writes \in 0..MaxWrites
  /\ faults \in 0..MaxFaults

\* Table u has an older entry than t for some key of ks.
Behind(ks, u, t) == \E k \in ks : u[k].version < t[k].version

\* The keys no write of r has put back itself.
Straight(r) == {k \in Keys : <<r, k>> \notin late}

(* Last writer wins, locally, whatever the clocks show: only a write on a
   clock behind the entry it replaces (set reads no version) puts an older
   entry over a newer one.  Until r makes one to a key, nothing that is
   pulled, saved, refused or pushed, in whatever order, takes that key back
   in r's database, and in r's cache only closing the page does.            *)
NoStepBack ==
  [][\A r \in Replicas :
       /\ ~Behind(Straight(r)', db'[r], db[r])
       /\ Behind(Straight(r)', cache'[r], cache[r]) => Close(r)]_vars

Synchronising == {r \in Replicas : pc[r] \notin {"idle", "closed"}}

\* All replicas hold the same entries, none older than a saved one.
Agreed ==
  \A r, q \in Replicas : cache[r] = cache[q] /\ ~Behind(Keys, cache[r], db[q])

(* Replicas that go on synchronising, and in the end one at a time, converge
   on entries at least as new as any that was saved, though an overlapping,
   failed or late PUT may have put older ones into the node meanwhile.      *)
Converges ==
  /\ <>[](Cardinality(Synchronising) <= 1)
  /\ \A r \in Replicas : []<>(pc[r] = "listing")
  => <>[]Agreed
=============================================================================
