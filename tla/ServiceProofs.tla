---------------------------- MODULE ServiceProofs ----------------------------
(***************************************************************************)
(* Proofs about the services around the chain, for every value of their    *)
(* constants: header synchronisation (HeaderSync), the rate limit of the   *)
(* HTTP server (RateLimit), the adapters of language models (Llm), the     *)
(* contracts with what the host gives them (Host), Merkle proofs with the  *)
(* light client that checks them (LightClient), the log of the IndexedDB   *)
(* backend (Idb), the snapshot client (Snapshot), and all of them with     *)
(* those of RecordProofs side by side (MCServices).                        *)
(***************************************************************************)
EXTENDS MCServices, RecordProofs, SumLemmas, WellFoundedInduction, TLAPS

-----------------------------------------------------------------------------
(* Header synchronisation (HeaderSync).                                     *)
(*                                                                          *)
(* The headers of a call come from memories of different moments, and are   *)
(* a chain only because each was compared with the one before (Fetched).    *)
(* That a call does not fail while the memory stays whole needs more: the   *)
(* memory itself is linked, whatever is mined into it (Linked, OnCourse).   *)

\* Each header names the hash of the one before.
Linked(headers) ==
  \A i \in DOMAIN headers : i > 1 => headers[i].prevHash = headers[i - 1].blockHash

\* A call holds a chain of consecutive heights, and the height and the hash to go on with.
Fetched(sync) ==
  /\ sync.height = sync.from + Len(sync.headers)
  /\ Linked(sync.headers)
  /\ \A i \in DOMAIN sync.headers : sync.headers[i].height = sync.from + i - 1
  /\ sync.headers # <<>> =>
       sync.height <= sync.to + 1 /\ sync.prevHash = sync.headers[Len(sync.headers)].blockHash

\* The heights a call is to bring are in these blocks, and it has read its last hash there.
OnCourse(sync, blocks) ==
  /\ sync.from = 1 /\ sync.height >= 1
  /\ sync.to <= Len(blocks)
  /\ \A i \in 1 .. sync.to : blocks[i].height = i
  /\ sync.height > 1 => sync.height - 1 <= sync.to /\ sync.prevHash = blocks[sync.height - 1].blockHash

\* The cached headers are a chain that ends at latestHeight.
Cached(entry) ==
  /\ Linked(entry.headers)
  /\ \A i \in DOMAIN entry.headers :
       entry.headers[i].height = entry.latestHeight - Len(entry.headers) + i

SyncInv ==
  /\ hdSync.step = "fetching" => Fetched(hdSync)
  /\ hdSync.step = "fetching" /\ hdSync.whole => OnCourse(hdSync, hdBlocks)
  /\ hdSync.step = "failed" => ~hdSync.whole

HdInv == HdTypeOK /\ Linked(hdBlocks) /\ SyncInv /\ Cached(hdCache)

-----------------------------------------------------------------------------
(* Sequences of headers *)

LEMMA HeaderType ==
  ASSUME NEW height \in 1 .. HdMaxHash, NEW prevHash \in 0 .. HdMaxHash, NEW blockHash \in 1 .. HdMaxHash
  PROVE  Header(height, prevHash, blockHash) \in HdHeaders
BY DEF Header, HdHeaders

LEMMA AppendElements ==
  ASSUME NEW S, NEW s \in Seq(S), NEW e \in S
  PROVE  /\ Append(s, e) \in Seq(S) /\ Len(Append(s, e)) = Len(s) + 1
         /\ DOMAIN Append(s, e) = 1 .. Len(s) + 1 /\ DOMAIN s = 1 .. Len(s) /\ Len(s) \in Nat
         /\ \A i \in 1 .. Len(s) : Append(s, e)[i] = s[i]
         /\ Append(s, e)[Len(s) + 1] = e
OBVIOUS

LEMMA AppendLinked ==
  ASSUME NEW s \in Seq(HdHeaders), NEW e \in HdHeaders, Linked(s),
         s # <<>> => e.prevHash = s[Len(s)].blockHash
  PROVE  Linked(Append(s, e))
<1> SUFFICES ASSUME NEW i \in 1 .. Len(s) + 1, i > 1
             PROVE  Append(s, e)[i].prevHash = Append(s, e)[i - 1].blockHash
  BY AppendElements DEF Linked
<1>1. i - 1 \in 1 .. Len(s) /\ Append(s, e)[i - 1] = s[i - 1]
  BY AppendElements
<1>2. CASE i \in 1 .. Len(s)
  BY <1>1, <1>2, AppendElements DEF Linked
<1>3. CASE i = Len(s) + 1
  <2>1. s # <<>> /\ i - 1 = Len(s)
    BY <1>1, <1>3, AppendElements
  <2> QED
    BY <1>1, <1>3, <2>1, AppendElements
<1> QED
  BY <1>2, <1>3, AppendElements

LEMMA EmptyLinked == Linked(<<>>)
BY DEF Linked

\* The blocks that importBlocks leaves in memory.
LEMMA ImportedBlocks ==
  ASSUME NEW n \in 1 .. HdMaxInMemory + 1, NEW hashes \in Nat, hashes + n <= HdMaxHash
  PROVE  LET first == IF n > HdMaxInMemory THEN n - HdMaxInMemory + 1 ELSE 1
             ordered == [i \in 1 .. n |-> Header(i, IF i = 1 THEN HdGenesis ELSE hashes + i - 1, hashes + i)]
         IN  /\ SubSeq(ordered, first, n) \in Seq(HdHeaders)
             /\ Len(SubSeq(ordered, first, n)) <= n
             /\ Linked(SubSeq(ordered, first, n))
<1> DEFINE first == IF n > HdMaxInMemory THEN n - HdMaxInMemory + 1 ELSE 1
           header(i) == Header(i, IF i = 1 THEN HdGenesis ELSE hashes + i - 1, hashes + i)
           ordered == [i \in 1 .. n |-> header(i)]
           kept == SubSeq(ordered, first, n)
<1>1. n \in Nat /\ n >= 1 /\ HdMaxInMemory \in Nat /\ HdMaxInMemory >= 1 /\ HdMaxHash \in Nat
  BY HeaderSyncAssumption
<1>2. \A i \in 1 .. n : header(i) \in HdHeaders
  <2> SUFFICES ASSUME NEW i \in 1 .. n PROVE header(i) \in HdHeaders
    OBVIOUS
  <2>1. i \in 1 .. HdMaxHash /\ hashes + i \in 1 .. HdMaxHash
    BY <1>1
  <2>2. (IF i = 1 THEN HdGenesis ELSE hashes + i - 1) \in 0 .. HdMaxHash
    BY <1>1 DEF HdGenesis
  <2> QED
    BY <2>1, <2>2, HeaderType
<1>3. \A i \in 2 .. n : header(i).prevHash = header(i - 1).blockHash
  BY <1>1 DEF Header
<1> HIDE DEF header
<1>4. ordered \in Seq(HdHeaders) /\ Len(ordered) = n
  BY <1>1, <1>2
<1>5. first \in 1 .. n /\ n - first + 1 <= n
  BY <1>1
<1> HIDE DEF first
<1>6. /\ kept \in Seq(HdHeaders) /\ Len(kept) = n - first + 1
      /\ \A i \in 1 .. n - first + 1 : kept[i] = ordered[first + i - 1]
  BY <1>1, <1>4, <1>5
<1>7. \A i \in 1 .. n - first + 1 : first + i - 1 \in 1 .. n /\ kept[i] = header(first + i - 1)
  BY <1>1, <1>5, <1>6
<1>8. Linked(kept)
  <2> SUFFICES ASSUME NEW i \in DOMAIN kept, i > 1 PROVE kept[i].prevHash = kept[i - 1].blockHash
    BY DEF Linked
  <2>1. i \in 1 .. n - first + 1 /\ i - 1 \in 1 .. n - first + 1
    BY <1>1, <1>5, <1>6
  <2>2. first + i - 1 \in 2 .. n /\ first + (i - 1) - 1 = (first + i - 1) - 1
    BY <1>1, <1>5, <2>1
  <2>3. kept[i] = header(first + i - 1) /\ kept[i - 1] = header((first + i - 1) - 1)
    BY <1>7, <2>1, <2>2
  <2> QED
    BY <1>3, <2>2, <2>3
<1> QED
  BY <1>5, <1>6, <1>8 DEF first, header

-----------------------------------------------------------------------------
(* The answers of the VM *)

\* The block answered for a height: the first at that height.
LEMMA BlockHeaderIsThere ==
  ASSUME hdBlocks \in Seq(HdHeaders), NEW height \in Nat, NEW header \in BlockHeader(height)
  PROVE  header \in HdHeaders /\ header.height = height
<1> DEFINE found == {i \in DOMAIN hdBlocks : hdBlocks[i].height = height}
           k == CHOOSE i \in found : \A j \in found : i <= j
<1>1. found # {} /\ header = hdBlocks[k] /\ found \subseteq Nat
  BY DEF BlockHeader
<1>2. \E m \in found : \A j \in found : m <= j
  <2> HIDE DEF found
  <2>1. \E x \in found : \A y \in found : ~ (<<y, x>> \in OpToRel(<, Nat))
    BY <1>1, NatLessThanWellFounded, WFMin
  <2>2. PICK m \in found : \A j \in found : ~ (j < m)
    BY <1>1, <2>1 DEF OpToRel
  <2>3. \A j \in found : m <= j
    BY <1>1, <2>2
  <2> QED
    BY <2>3
<1>3. k \in found
  <2> HIDE DEF found
  <2> QED
    BY <1>2
<1> QED
  BY <1>1, <1>3

\* In a memory that is whole it is the one at that place, whatever heights follow.
LEMMA BlockHeaderOnCourse ==
  ASSUME hdBlocks \in Seq(HdHeaders), NEW to \in Nat, to <= Len(hdBlocks),
         \A i \in 1 .. to : hdBlocks[i].height = i,
         NEW height \in 1 .. to
  PROVE  BlockHeader(height) = {hdBlocks[height]}
<1> DEFINE found == {i \in DOMAIN hdBlocks : hdBlocks[i].height = height}
           k == CHOOSE i \in found : \A j \in found : i <= j
<1>1. height \in found /\ found \subseteq Nat
  OBVIOUS
<1>2. \A j \in found : height <= j
  OBVIOUS
<1>3. BlockHeader(height) = {hdBlocks[k]}
  BY <1>1 DEF BlockHeader
<1>4. k = height
  <2> HIDE DEF found
  <2>1. k \in found /\ \A j \in found : k <= j
    BY <1>1, <1>2
  <2> HIDE DEF k
  <2>2. k \in Nat /\ k <= height /\ height <= k
    BY <1>1, <1>2, <2>1
  <2> QED
    BY <2>2
<1> QED
  BY <1>3, <1>4

-----------------------------------------------------------------------------
(* The invariant *)

LEMMA HdInitHolds == HdInit => HdInv
<1> SUFFICES ASSUME HdInit PROVE HdInv
  OBVIOUS
<1>1. <<>> \in Seq(HdHeaders) /\ Len(<<>>) = 0 /\ DOMAIN <<>> = {}
  OBVIOUS
<1>2. hdCache \in [latestHeight : Nat, headers : Seq(HdHeaders)]
  BY DEF HdInit, NoEntry
<1>3. HdTypeOK
  BY <1>1, <1>2, HeaderSyncAssumption DEF HdInit, HdTypeOK
<1>4. Cached(hdCache)
  BY <1>1, EmptyLinked DEF HdInit, NoEntry, Cached
<1>5. SyncInv
  BY DEF HdInit, NoSync, SyncInv
<1> QED
  BY <1>3, <1>4, <1>5, EmptyLinked DEF HdInit, HdInv

\* The height asked for when the caller names none.
LEMMA LatestHeightType == ASSUME HdTypeOK PROVE GetLatestHeight \in Nat
<1>1. CASE hdBlocks = <<>>
  BY <1>1 DEF GetLatestHeight
<1>2. CASE hdBlocks # <<>>
  <2>1. hdBlocks[Len(hdBlocks)] \in HdHeaders
    BY <1>2 DEF HdTypeOK
  <2> QED
    BY <1>2, <2>1 DEF GetLatestHeight, HdHeaders
<1> QED
  BY <1>1, <1>2

\* A block is mined on the last one in memory: the blocks before it stay where they are.
LEMMA MineKeeps == ASSUME HdInv, HdMine PROVE HdInv'
<1> DEFINE new == Header(hdTotal + 1, HdPrevHash(hdBlocks), hdHashes + 1)
<1>1. hdBlocks \in Seq(HdHeaders) /\ hdTotal \in Nat /\ hdHashes \in Nat /\ hdTotal <= hdHashes
      /\ hdHashes < HdMaxHash /\ Len(hdBlocks) <= hdHashes /\ HdMaxHash \in Nat
  BY HeaderSyncAssumption DEF HdInv, HdTypeOK, HdMine
<1>2. HdPrevHash(hdBlocks) \in 0 .. HdMaxHash
      /\ (hdBlocks # <<>> => HdPrevHash(hdBlocks) = hdBlocks[Len(hdBlocks)].blockHash)
  <2>1. CASE hdBlocks = <<>>
    BY <1>1, <2>1 DEF HdPrevHash, HdGenesis
  <2>2. CASE hdBlocks # <<>>
    <3>1. hdBlocks[Len(hdBlocks)] \in HdHeaders
      BY <1>1, <2>2
    <3> QED
      BY <1>1, <2>2, <3>1 DEF HdPrevHash, HdHeaders
  <2> QED
    BY <2>1, <2>2
<1>3. new \in HdHeaders /\ new.prevHash = HdPrevHash(hdBlocks)
  <2>1. hdTotal + 1 \in 1 .. HdMaxHash /\ hdHashes + 1 \in 1 .. HdMaxHash
    BY <1>1
  <2> QED
    BY <1>2, <2>1, HeaderType DEF Header
<1>4. hdBlocks' = Append(hdBlocks, new) /\ hdTotal' = hdTotal + 1 /\ hdHashes' = hdHashes + 1
      /\ hdSync' = hdSync /\ hdCache' = hdCache
  BY DEF HdMine
<1> HIDE DEF new
<1>5. hdBlocks' \in Seq(HdHeaders) /\ Len(hdBlocks') = Len(hdBlocks) + 1
      /\ \A i \in 1 .. Len(hdBlocks) : hdBlocks'[i] = hdBlocks[i]
  BY <1>1, <1>3, <1>4, AppendElements
<1>6. Linked(hdBlocks')
  BY <1>1, <1>2, <1>3, <1>4, AppendLinked DEF HdInv
<1>7. HdTypeOK'
  <2>1. hdTotal' \in 0 .. hdHashes' /\ hdHashes' \in 0 .. HdMaxHash /\ Len(hdBlocks') <= hdHashes'
    BY <1>1, <1>4, <1>5
  <2> QED
    BY <1>4, <1>5, <2>1 DEF HdInv, HdTypeOK
<1>8. ASSUME hdSync.step = "fetching", hdSync.whole PROVE OnCourse(hdSync, hdBlocks')
  <2>1. OnCourse(hdSync, hdBlocks) /\ hdSync.to \in Nat /\ hdSync.height \in Nat
    BY <1>8 DEF HdInv, SyncInv, HdTypeOK, HdSyncs, NoSync
  <2>2. \A i \in 1 .. hdSync.to : hdBlocks'[i] = hdBlocks[i]
    BY <1>1, <1>5, <2>1 DEF OnCourse
  <2>3. hdSync.height > 1 => hdSync.height - 1 \in 1 .. hdSync.to
    BY <2>1 DEF OnCourse
  <2> QED
    BY <1>1, <1>5, <2>1, <2>2, <2>3 DEF OnCourse
<1>9. SyncInv'
  BY <1>4, <1>8 DEF HdInv, SyncInv
<1> QED
  BY <1>4, <1>6, <1>7, <1>9 DEF HdInv

\* A call that goes on over another memory is no longer expected to succeed.
LEMMA DisturbedCall ==
  ASSUME HdInv, hdSync' = Disturbed, hdCache' = hdCache
  PROVE  /\ hdSync' \in HdSyncs \cup {NoSync}
         /\ SyncInv' /\ Cached(hdCache')
<1>1. CASE hdSync.step # "fetching"
  BY <1>1 DEF Disturbed, HdInv, HdTypeOK, SyncInv
<1>2. CASE hdSync.step = "fetching"
  <2>1. hdSync \in HdSyncs /\ hdSync' = [hdSync EXCEPT !.whole = FALSE]
    BY <1>2 DEF Disturbed, HdInv, HdTypeOK, NoSync
  <2>2. /\ hdSync' \in HdSyncs /\ ~hdSync'.whole /\ hdSync'.step = "fetching"
        /\ hdSync'.from = hdSync.from /\ hdSync'.to = hdSync.to /\ hdSync'.height = hdSync.height
        /\ hdSync'.prevHash = hdSync.prevHash /\ hdSync'.headers = hdSync.headers
    BY <1>2, <2>1 DEF HdSyncs
  <2>3. Fetched(hdSync')
    BY <1>2, <2>2 DEF HdInv, SyncInv, Fetched
  <2> QED
    BY <2>2, <2>3 DEF HdInv, SyncInv
<1> QED
  BY <1>1, <1>2

LEMMA SealKeeps == ASSUME HdInv, HdSeal PROVE HdInv'
<1>1. hdBlocks' = <<>> /\ hdTotal' = hdTotal /\ hdHashes' = hdHashes /\ hdCache' = hdCache /\ hdSync' = Disturbed
  BY DEF HdSeal
<1>2. <<>> \in Seq(HdHeaders) /\ Len(<<>>) = 0
  OBVIOUS
<1>3. HdTypeOK'
  BY <1>1, <1>2, DisturbedCall, HeaderSyncAssumption DEF HdInv, HdTypeOK
<1> QED
  BY <1>1, <1>3, EmptyLinked, DisturbedCall DEF HdInv

LEMMA ImportKeeps == ASSUME HdInv, NEW n \in 1 .. HdMaxInMemory + 1, HdImport(n) PROVE HdInv'
<1>1. hdHashes \in Nat /\ hdHashes + n <= HdMaxHash /\ hdHashes' = hdHashes + n /\ n \in Nat
      /\ hdTotal' = hdTotal /\ hdTotal \in 0 .. hdHashes /\ hdCache' = hdCache /\ hdSync' = Disturbed
  BY HeaderSyncAssumption DEF HdImport, HdInv, HdTypeOK
<1>2. hdBlocks' \in Seq(HdHeaders) /\ Len(hdBlocks') <= n /\ Linked(hdBlocks')
  BY <1>1, ImportedBlocks DEF HdImport
<1>3. hdTotal' \in 0 .. hdHashes' /\ hdHashes' \in 0 .. HdMaxHash /\ Len(hdBlocks') <= hdHashes'
  <2>1. Len(hdBlocks') \in Nat
    BY <1>2
  <2> QED
    BY <1>1, <1>2, <2>1, HeaderSyncAssumption
<1>4. HdTypeOK'
  BY <1>1, <1>2, <1>3, DisturbedCall DEF HdInv, HdTypeOK
<1> QED
  BY <1>1, <1>2, <1>4, DisturbedCall DEF HdInv

\* A call starts on course when the memory is whole and holds the heights it is to bring.
LEMMA HdBeginKeeps == ASSUME HdInv, NEW from \in 1 .. 2, NEW to \in Nat, HdBegin(from, to) PROVE HdInv'
<1> DEFINE whole == Whole /\ to <= Len(hdBlocks) /\ from = 1
<1>1. hdSync' = [step |-> "fetching", from |-> from, to |-> to, height |-> from,
                 prevHash |-> HdGenesis, headers |-> <<>>, whole |-> whole]
      /\ hdBlocks' = hdBlocks /\ hdTotal' = hdTotal /\ hdHashes' = hdHashes /\ hdCache' = hdCache
  BY DEF HdBegin
<1>2. whole \in BOOLEAN /\ (whole => \A i \in 1 .. to : hdBlocks[i].height = i)
  BY DEF Whole, HdInv, HdTypeOK
<1>3. hdBlocks \in Seq(HdHeaders) /\ Len(hdBlocks) \in Nat
  BY DEF HdInv, HdTypeOK
<1> HIDE DEF whole
<1>4. <<>> \in Seq(HdHeaders) /\ Len(<<>>) = 0 /\ DOMAIN <<>> = {}
  OBVIOUS
<1>5. hdSync' \in HdSyncs
  BY <1>1, <1>2, <1>4 DEF HdSyncs, HdGenesis
<1>6. HdTypeOK'
  BY <1>1, <1>5 DEF HdInv, HdTypeOK
<1>7. Fetched(hdSync')
  BY <1>1, <1>4, EmptyLinked DEF Fetched
<1>8. ASSUME hdSync'.whole PROVE OnCourse(hdSync', hdBlocks')
  <2>1. hdSync'.from = from /\ hdSync'.to = to /\ hdSync'.height = from /\ hdSync'.whole = whole
    BY <1>1
  <2>2. from = 1 /\ to <= Len(hdBlocks)
    BY <1>8, <2>1 DEF whole
  <2>3. \A i \in 1 .. to : hdBlocks[i].height = i
    BY <1>2, <1>8, <2>1
  <2> QED
    BY <1>1, <2>1, <2>2, <2>3 DEF OnCourse
<1>9. hdSync'.step = "fetching"
  BY <1>1
<1> QED
  BY <1>1, <1>6, <1>7, <1>8, <1>9 DEF HdInv, SyncInv

\* While the memory is whole the next header is there, and names the hash of the last one.
LEMMA OnCourseAccepts ==
  ASSUME HdInv, hdSync.step = "fetching", hdSync.whole, hdSync.height <= hdSync.to
  PROVE  /\ BlockHeader(hdSync.height) = {hdBlocks[hdSync.height]}
         /\ HdAccepts(hdBlocks[hdSync.height])
         /\ hdSync.height \in 1 .. hdSync.to
<1>1. hdBlocks \in Seq(HdHeaders) /\ hdSync.to \in Nat /\ hdSync.height \in Nat
      /\ OnCourse(hdSync, hdBlocks) /\ Linked(hdBlocks)
  BY DEF HdInv, HdTypeOK, HdSyncs, NoSync, SyncInv
<1>2. hdSync.height \in 1 .. hdSync.to /\ hdSync.to <= Len(hdBlocks)
  BY <1>1 DEF OnCourse
<1>3. BlockHeader(hdSync.height) = {hdBlocks[hdSync.height]}
  BY <1>1, <1>2, BlockHeaderOnCourse DEF OnCourse
<1>4. hdSync.height \in DOMAIN hdBlocks
  BY <1>1, <1>2
<1>5. HdAccepts(hdBlocks[hdSync.height])
  BY <1>1, <1>4 DEF HdAccepts, Linked, OnCourse
<1> QED
  BY <1>2, <1>3, <1>5

\* A header that is kept links to the last one, and is at the next height.
LEMMA KeepHeader ==
  ASSUME HdInv, hdSync.step = "fetching", hdSync.height <= hdSync.to,
         NEW header \in BlockHeader(hdSync.height), HdAccepts(header),
         hdSync' = [hdSync EXCEPT !.headers = Append(@, header), !.height = @ + 1,
                                  !.prevHash = header.blockHash],
         UNCHANGED <<hdBlocks, hdTotal, hdHashes, hdCache>>
  PROVE  HdInv'
<1> DEFINE headers == hdSync.headers
           n == Len(headers)
<1>1. /\ hdSync \in HdSyncs /\ Fetched(hdSync) /\ hdBlocks \in Seq(HdHeaders)
      /\ hdSync.height \in Nat /\ hdSync.to \in Nat /\ hdSync.from \in 1 .. 2
      /\ headers \in Seq(HdHeaders) /\ n \in Nat
  BY DEF HdInv, HdTypeOK, HdSyncs, NoSync, SyncInv
<1>2. header \in HdHeaders /\ header.height = hdSync.height
  BY <1>1, BlockHeaderIsThere
<1>3. /\ hdSync'.headers = Append(headers, header) /\ hdSync'.height = hdSync.height + 1
      /\ hdSync'.prevHash = header.blockHash /\ hdSync'.from = hdSync.from /\ hdSync'.to = hdSync.to
      /\ hdSync'.step = "fetching" /\ hdSync'.whole = hdSync.whole
      /\ hdSync' = [step |-> "fetching", from |-> hdSync.from, to |-> hdSync.to,
                    height |-> hdSync.height + 1, prevHash |-> header.blockHash,
                    headers |-> Append(headers, header), whole |-> hdSync.whole]
  BY <1>1 DEF HdSyncs
<1>4. header.blockHash \in Nat
  BY <1>2, HeaderSyncAssumption DEF HdHeaders
<1>5. /\ Append(headers, header) \in Seq(HdHeaders) /\ Len(Append(headers, header)) = n + 1
      /\ DOMAIN Append(headers, header) = 1 .. n + 1 /\ DOMAIN headers = 1 .. n
      /\ \A i \in 1 .. n : Append(headers, header)[i] = headers[i]
      /\ Append(headers, header)[n + 1] = header
  BY <1>1, <1>2, AppendElements
<1>6. hdSync' \in HdSyncs
  <2>1. hdSync.whole \in BOOLEAN /\ hdSync.height + 1 \in Nat
    BY <1>1 DEF HdSyncs
  <2> QED
    BY <1>1, <1>3, <1>4, <1>5, <2>1 DEF HdSyncs
<1>7. Linked(Append(headers, header))
  <2>1. ASSUME headers # <<>> PROVE header.prevHash = headers[n].blockHash
    <3>1. hdSync.height > 1 /\ hdSync.prevHash = headers[n].blockHash
      BY <1>1, <2>1 DEF Fetched
    <3> QED
      BY <3>1 DEF HdAccepts
  <2> QED
    BY <1>1, <1>2, <2>1, AppendLinked DEF Fetched
<1>8. \A i \in 1 .. n + 1 : Append(headers, header)[i].height = hdSync.from + i - 1
  <2> TAKE i \in 1 .. n + 1
  <2>1. CASE i \in 1 .. n
    BY <1>1, <1>5, <2>1 DEF Fetched
  <2>2. CASE i = n + 1
    BY <1>1, <1>2, <1>5, <2>2 DEF Fetched
  <2> QED
    BY <1>1, <2>1, <2>2
<1>9. Fetched(hdSync')
  <2>1. hdSync'.height = hdSync'.from + Len(hdSync'.headers) /\ hdSync'.height <= hdSync'.to + 1
    BY <1>1, <1>3, <1>5 DEF Fetched
  <2> QED
    BY <1>3, <1>5, <1>7, <1>8, <2>1 DEF Fetched
<1>10. ASSUME hdSync.whole PROVE OnCourse(hdSync', hdBlocks)
  <2>1. header = hdBlocks[hdSync.height] /\ hdSync.height \in 1 .. hdSync.to
    BY <1>10, OnCourseAccepts
  <2>2. OnCourse(hdSync, hdBlocks)
    BY <1>10 DEF HdInv, SyncInv
  <2>3. hdSync.height + 1 - 1 = hdSync.height
    BY <1>1
  <2>4. /\ hdSync'.from = 1 /\ hdSync'.to <= Len(hdBlocks)
        /\ \A i \in 1 .. hdSync'.to : hdBlocks[i].height = i
    BY <1>3, <2>2 DEF OnCourse
  <2>5. /\ hdSync'.height >= 1 /\ hdSync'.height - 1 <= hdSync'.to
        /\ hdSync'.prevHash = hdBlocks[hdSync'.height - 1].blockHash
    <3>1. /\ hdSync'.height = hdSync.height + 1 /\ hdSync'.to = hdSync.to
          /\ hdSync'.prevHash = hdBlocks[hdSync.height].blockHash
      BY <1>3, <2>1
    <3>2. hdSync.height \in Nat /\ hdSync.height <= hdSync.to
      BY <1>1
    <3>3. hdSync'.height - 1 = hdSync.height /\ hdSync'.height >= 1
      BY <3>1, <3>2
    <3> QED
      BY <3>1, <3>2, <3>3
  <2> QED
    BY <2>4, <2>5 DEF OnCourse
<1>11. HdTypeOK'
  BY <1>6 DEF HdInv, HdTypeOK
<1> QED
  BY <1>3, <1>9, <1>10, <1>11 DEF HdInv, SyncInv

\* A call that failed is expected to, and no header of it is kept.
LEMMA FailKeeps ==
  ASSUME HdInv, hdSync.step = "fetching", ~hdSync'.whole,
         hdSync' = [hdSync EXCEPT !.step = "failed"] \/ hdSync' = [hdSync EXCEPT !.step = "failed", !.whole = FALSE],
         UNCHANGED <<hdBlocks, hdTotal, hdHashes, hdCache>>
  PROVE  HdInv'
<1>1. hdSync \in HdSyncs
  BY DEF HdInv, HdTypeOK, NoSync
<1>2. hdSync' \in HdSyncs /\ hdSync'.step = "failed"
  BY <1>1 DEF HdSyncs
<1> QED
  BY <1>2 DEF HdInv, HdTypeOK, SyncInv

LEMMA GetKeeps == ASSUME HdInv, GetHeader PROVE HdInv'
<1>1. hdSync.step = "fetching" /\ hdSync.height <= hdSync.to
      /\ UNCHANGED <<hdBlocks, hdTotal, hdHashes, hdCache>>
  BY DEF GetHeader
<1>2. hdSync \in HdSyncs
  BY <1>1 DEF HdInv, HdTypeOK, NoSync
<1>3. ASSUME HdFails, BlockHeader(hdSync.height) = {} \/ \E header \in BlockHeader(hdSync.height) : ~HdAccepts(header)
      PROVE  HdInv'
  <2>1. ~hdSync.whole
    BY <1>1, <1>3, OnCourseAccepts
  <2>2. hdSync' = [hdSync EXCEPT !.step = "failed"] /\ ~hdSync'.whole
    BY <1>2, <1>3, <2>1 DEF HdFails, HdSyncs
  <2> QED
    BY <1>1, <2>2, FailKeeps
<1>4. ASSUME NEW header \in BlockHeader(hdSync.height), HdAccepts(header),
             hdSync' = [hdSync EXCEPT !.headers = Append(@, header), !.height = @ + 1,
                                      !.prevHash = header.blockHash]
      PROVE  HdInv'
  BY <1>1, <1>4, KeepHeader
<1> QED
  BY <1>3, <1>4 DEF GetHeader

LEMMA RequestFailsKeeps == ASSUME HdInv, HdRequestFails PROVE HdInv'
<1>1. hdSync \in HdSyncs
  BY DEF HdInv, HdTypeOK, NoSync, HdRequestFails
<1>2. ~hdSync'.whole
  BY <1>1 DEF HdRequestFails, HdSyncs
<1> QED
  BY <1>2, FailKeeps DEF HdRequestFails

\* What a call brought ends at the height it was to stop at.
LEMMA SaveKeeps == ASSUME HdInv, HdSave PROVE HdInv'
<1> DEFINE headers == hdSync.headers
<1>1. /\ hdSync \in HdSyncs /\ Fetched(hdSync) /\ hdSync.height > hdSync.to
      /\ hdCache' = [latestHeight |-> hdSync.to, headers |-> headers] /\ hdSync' = NoSync
      /\ UNCHANGED <<hdBlocks, hdTotal, hdHashes>>
  BY DEF HdInv, HdTypeOK, NoSync, SyncInv, HdSave
<1>2. hdSync.to \in Nat /\ hdSync.height \in Nat /\ hdSync.from \in 1 .. 2 /\ headers \in Seq(HdHeaders)
      /\ Len(headers) \in Nat /\ DOMAIN headers = 1 .. Len(headers)
  BY <1>1 DEF HdSyncs
<1>3. Cached(hdCache')
  <2> SUFFICES ASSUME NEW i \in DOMAIN headers PROVE headers[i].height = hdSync.to - Len(headers) + i
    BY <1>1 DEF Cached, Fetched
  <2>1. headers # <<>>
    BY <1>2
  <2>2. hdSync.height = hdSync.to + 1 /\ hdSync.height = hdSync.from + Len(headers)
    BY <1>1, <1>2, <2>1 DEF Fetched
  <2> QED
    BY <1>1, <1>2, <2>2 DEF Fetched
<1>4. HdTypeOK'
  BY <1>1, <1>2 DEF HdInv, HdTypeOK
<1>5. SyncInv'
  BY <1>1 DEF SyncInv, NoSync
<1> QED
  BY <1>1, <1>3, <1>4, <1>5 DEF HdInv

-----------------------------------------------------------------------------
(* The theorems *)

LEMMA HdNextHolds == HdInv /\ [HdNext]_hdVars => HdInv'
<1> SUFFICES ASSUME HdInv, [HdNext]_hdVars PROVE HdInv'
  OBVIOUS
<1>1. CASE HdMine
  BY <1>1, MineKeeps
<1>2. CASE HdSeal
  BY <1>2, SealKeeps
<1>3. CASE GetHeader
  BY <1>3, GetKeeps
<1>4. CASE HdRequestFails
  BY <1>4, RequestFailsKeeps
<1>5. CASE HdSave
  BY <1>5, SaveKeeps
<1>6. CASE \E n \in 1 .. HdMaxInMemory + 1 : HdImport(n)
  BY <1>6, ImportKeeps
<1>7. CASE HdBegin(1, GetLatestHeight)
  <2>1. GetLatestHeight \in Nat /\ 1 \in 1 .. 2
    BY LatestHeightType DEF HdInv
  <2> QED
    BY <1>7, <2>1, HdBeginKeeps
<1>8. CASE \E from \in 1 .. 2, to \in 1 .. HdMaxInMemory : HdBegin(from, to)
  <2>1. PICK from \in 1 .. 2, to \in 1 .. HdMaxInMemory : HdBegin(from, to)
    BY <1>8
  <2>2. to \in Nat
    BY HeaderSyncAssumption
  <2> QED
    BY <2>1, <2>2, HdBeginKeeps
<1>9. CASE UNCHANGED hdVars
  BY <1>9 DEF hdVars, HdInv, HdTypeOK, SyncInv
<1> QED
  BY <1>1, <1>2, <1>3, <1>4, <1>5, <1>6, <1>7, <1>8, <1>9 DEF HdNext

LEMMA HdInvHolds == HdSpec => []HdInv
BY HdInitHolds, HdNextHolds, PTL DEF HdSpec

\* Type correctness: the memory of the VM, the call of the client and its cache keep their shape,
\* for any number of blocks (vm/header_sync.ts, vm/header_cache.ts).
THEOREM HdTypeCorrect == HdSpec => []HdTypeOK
BY HdInvHolds, PTL DEF HdInv

\* What HeaderSyncClient.syncHeaders caches is one chain up to latestHeight, and a call over a
\* memory that stays whole does not fail, for any number of blocks and any maxBlocksInMemory.
THEOREM SyncedChain == HdSpec => []SyncIsChain
<1>1. HdInv => SyncIsChain
  BY DEF HdInv, Cached, Linked, SyncInv, SyncIsChain
<1> QED
  BY <1>1, HdInvHolds, PTL

-----------------------------------------------------------------------------
(* The rate limit (RateLimit).                                              *)
(*                                                                          *)
(* An entry counts what was handled since its window began, and nothing is  *)
(* handled after the window but by an entry that begins another.  So any    *)
(* windowMs milliseconds meet the window of an entry and the end of what    *)
(* came before it, which is within the limit too (Earlier).                 *)

RlEntries == [count : 0 .. RlMax, resetAt : Nat]

RlTypes ==
  /\ RlTypeOK
  /\ \A c \in DOMAIN rlTable : rlTable[c] \in RlEntries /\ rlTable[c].resetAt >= RlWindow
  /\ rlHandled \in [RlClients -> [RlTimes -> Nat]]

\* A sum of counts over an interval, f the counts of an address.
Counts == [RlTimes -> Nat]
In(f, from, to) == SumOver(f, (from .. to) \cap RlTimes)

\* What counts f hold in the window of an entry, in the one before it, and after it.
InWindow(f, entry) ==
  /\ In(f, entry.resetAt - RlWindow, entry.resetAt) = entry.count
  /\ In(f, entry.resetAt - 2 * RlWindow, entry.resetAt - RlWindow - 1) <= RlMax
  /\ \A t \in RlTimes : t > entry.resetAt => f[t] = 0

Windowed(c) ==
  /\ c \in DOMAIN rlTable => InWindow(rlHandled[c], rlTable[c])
  /\ c \notin DOMAIN rlTable => \A t \in RlTimes : rlHandled[c][t] = 0
  /\ \A t \in RlTimes : t > rlNow => rlHandled[c][t] = 0
  /\ \A t \in Int : In(rlHandled[c], t, t + RlWindow - 1) <= 2 * RlMax
  /\ Denied(c) => \A t \in RlTimes : rlHandled[c][t] = 0

RlInv == RlTypes /\ \A c \in RlClients : Windowed(c)

LEMMA HandledSum == \A c, from, to : HandledIn(c, from, to) = In(rlHandled[c], from, to)
BY DEF HandledIn, In, SumOver, SumFunctionOnSet

LEMMA TimesFinite == \A T \in SUBSET RlTimes : IsFiniteSet(T)
<1>1. IsFiniteSet(RlTimes)
  BY RateAssumption, FS_Interval DEF RlTimes
<1>2. QED
  BY <1>1, FS_Subset

LEMMA InNat == ASSUME NEW f \in Counts, NEW from \in Int, NEW to \in Int PROVE In(f, from, to) \in Nat
<1> DEFINE T == (from .. to) \cap RlTimes
<1>1. IsFiniteSet(T) /\ \A t \in T : f[t] \in Nat
  BY TimesFinite DEF Counts
<1>2. T \in SUBSET T
  OBVIOUS
<1> HIDE DEF T
<1>3. SumOver(f, T) \in Nat
  BY <1>1, <1>2, SumPart
<1>4. QED
  BY <1>3 DEF In, T

\* A longer interval counts no less.
LEMMA InGrows ==
  ASSUME NEW f \in Counts, NEW a \in Int, NEW b \in Int, NEW c \in Int, NEW d \in Int,
         \A t \in (a .. b) \cap RlTimes : t \in c .. d \/ f[t] = 0
  PROVE  In(f, a, b) <= In(f, c, d)
<1> DEFINE T == (a .. b) \cap RlTimes
           U == (c .. d) \cap RlTimes
           N == {t \in T : t \notin U}
<1>1. /\ IsFiniteSet(T) /\ IsFiniteSet(U) /\ IsFiniteSet(N)
      /\ \A t \in T \cup U : f[t] \in Nat
  BY TimesFinite DEF Counts
<1>2. T \ N \in SUBSET U /\ N \in SUBSET T /\ T \in SUBSET T /\ \A t \in N : f[t] = 0
  OBVIOUS
<1>3. \A t \in T : f[t] \in Int
  BY <1>1
<1> HIDE DEF T, U, N
<1>4. SumOver(f, T) = SumOver(f, N) + SumOver(f, T \ N)
  BY <1>1, <1>2, <1>3, SumUnion
<1>5. SumOver(f, N) = 0
  BY <1>1, <1>2, SumZero
<1>6. SumOver(f, T \ N) <= SumOver(f, U) /\ SumOver(f, T \ N) \in Nat
  BY <1>1, <1>2, SumPart
<1>7. SumOver(f, T) <= SumOver(f, U)
  BY <1>4, <1>5, <1>6
<1>8. QED
  BY <1>7 DEF In, T, U

\* An interval split in two.
LEMMA InSplit ==
  ASSUME NEW f \in Counts, NEW a \in Int, NEW m \in Int, NEW b \in Int, a <= m, m <= b + 1
  PROVE  In(f, a, b) = In(f, a, m - 1) + In(f, m, b)
<1> DEFINE T == (a .. b) \cap RlTimes
           L == (a .. (m - 1)) \cap RlTimes
           R == (m .. b) \cap RlTimes
<1>1. IsFiniteSet(T) /\ \A t \in T : f[t] \in Int
  BY TimesFinite DEF Counts
<1>2. L \in SUBSET T /\ T \ L = R /\ T \in SUBSET T
  BY RateAssumption DEF RlTimes
<1> HIDE DEF T, L, R
<1>3. SumOver(f, T) = SumOver(f, L) + SumOver(f, R)
  BY <1>1, <1>2, SumUnion
<1>4. QED
  BY <1>3 DEF In, T, L, R

LEMMA InZero ==
  ASSUME NEW f \in Counts, NEW a \in Int, NEW b \in Int,
         \A t \in (a .. b) \cap RlTimes : f[t] = 0
  PROVE  In(f, a, b) = 0
<1> DEFINE T == (a .. b) \cap RlTimes
<1>1. IsFiniteSet(T) /\ \A t \in T : f[t] = 0
  BY TimesFinite
<1> HIDE DEF T
<1>2. SumOver(f, T) = 0
  BY <1>1, SumZero
<1>3. QED
  BY <1>2 DEF In, T

\* One more count at a time changes the intervals that hold it by as much, and no other.
LEMMA InCounts ==
  ASSUME NEW f \in Counts, NEW g \in Counts, NEW x \in RlTimes, NEW n \in Nat,
         g[x] = f[x] + n, \A t \in RlTimes \ {x} : g[t] = f[t],
         NEW a \in Int, NEW b \in Int
  PROVE  In(g, a, b) = IF x \in a .. b THEN In(f, a, b) + n ELSE In(f, a, b)
<1> DEFINE T == (a .. b) \cap RlTimes
<1>1. IsFiniteSet(T) /\ (\A t \in T : f[t] \in Int /\ g[t] \in Int) /\ f[x] \in Nat
      /\ (\A t \in T \ {x} : g[t] = f[t]) /\ (x \in T <=> x \in a .. b)
  BY TimesFinite DEF Counts
<1>2. In(f, a, b) = SumOver(f, T) /\ In(g, a, b) = SumOver(g, T)
  BY DEF In
<1>3. In(f, a, b) \in Nat
  BY InNat
<1> HIDE DEF T
<1>4. CASE x \in T
  <2>1. SumOver(g, T) = SumOver(f, T) + g[x] - f[x]
    BY <1>1, <1>4, SumChange
  <2>2. QED
    BY <1>1, <1>2, <1>3, <1>4, <2>1
<1>5. CASE x \notin T
  <2>1. SumOver(f, T) = SumOver(g, T)
    BY <1>1, <1>5, SumSame
  <2>2. QED
    BY <1>1, <1>2, <1>5, <2>1
<1>6. QED
  BY <1>4, <1>5

-----------------------------------------------------------------------------
(* The steps *)

\* Nothing is handled: the entry stays, or gives way to one that counts as much.
LEMMA WindowedKept ==
  ASSUME RlInv, NEW c \in RlClients, Windowed(c), rlHandled'[c] = rlHandled[c],
         rlNow \in Int, rlNow' \in Int, rlNow' >= rlNow,
         c \in DOMAIN rlTable <=> c \in DOMAIN rlTable',
         c \in DOMAIN rlTable => InWindow(rlHandled[c], rlTable'[c])
  PROVE  Windowed(c)'
<1>1. \A t \in RlTimes : t \in Int
  BY DEF RlTimes
<1>2. \A t \in RlTimes : t > rlNow' => t > rlNow
  BY <1>1
<1>3. InWindow(rlHandled[c], rlTable[c])' = InWindow(rlHandled[c], rlTable'[c])
  OBVIOUS
<1>4. \A t \in Int : In(rlHandled[c], t, t + RlWindow - 1)' = In(rlHandled[c], t, t + RlWindow - 1)
  OBVIOUS
<1>5. QED
  BY <1>2, <1>3, <1>4 DEF Windowed, Denied

\* The entry a call is counted in is a window around now.
LEMMA EntryWindow ==
  ASSUME RlInv, NEW c \in RlClients
  PROVE  LET e == EntryOf(c)
         IN  /\ e \in RlEntries /\ e.resetAt \in Nat /\ e.count \in 0 .. RlMax
             /\ e.resetAt - RlWindow \in 0 .. rlNow /\ rlNow <= e.resetAt
             /\ InWindow(rlHandled[c], e)
<1> DEFINE e == EntryOf(c)
           f == rlHandled[c]
           old == rlTable[c]
<1>1. /\ rlNow \in Nat /\ RlWindow \in Nat /\ RlMax \in Nat /\ f \in Counts
      /\ \A t \in RlTimes : t \in Nat
  BY RateAssumption DEF RlInv, RlTypes, RlTypeOK, RlTimes, Counts
<1>2. CASE c \in DOMAIN rlTable /\ rlNow <= rlTable[c].resetAt
  <2>1. e = old /\ old \in RlEntries /\ old.resetAt >= RlWindow /\ old.resetAt <= rlNow + RlWindow
    BY <1>2 DEF EntryOf, RlInv, RlTypes, RlTypeOK
  <2>2. InWindow(f, old)
    BY <1>2 DEF RlInv, Windowed
  <2>3. old.resetAt \in Nat /\ old.count \in 0 .. RlMax
    BY <2>1 DEF RlEntries
  <2>4. QED
    BY <1>1, <1>2, <2>1, <2>2, <2>3
<1>3. CASE ~(c \in DOMAIN rlTable /\ rlNow <= rlTable[c].resetAt)
  <2>1. e = RlEntry(0, rlNow + RlWindow)
    BY <1>3 DEF EntryOf
  <2>2. e.count = 0 /\ e.resetAt = rlNow + RlWindow /\ e \in RlEntries
    BY <1>1, <2>1 DEF RlEntry, RlEntries
  <2>3. \A t \in RlTimes : t >= rlNow => f[t] = 0
    <3>1. CASE c \in DOMAIN rlTable
      <4>1. rlTable[c].resetAt < rlNow /\ rlTable[c].resetAt \in Nat
        BY <1>1, <1>3, <3>1 DEF RlInv, RlTypes, RlEntries
      <4>2. InWindow(f, rlTable[c])
        BY <3>1 DEF RlInv, Windowed
      <4>3. QED
        BY <1>1, <4>1, <4>2 DEF InWindow
    <3>2. CASE c \notin DOMAIN rlTable
      BY <3>2 DEF RlInv, Windowed
    <3>3. QED
      BY <3>1, <3>2
  <2> HIDE DEF e, f
  <2>4. In(f, rlNow, rlNow + RlWindow) = 0
    BY <1>1, <2>3, InZero
  <2>5. In(f, rlNow - RlWindow, rlNow - 1) <= RlMax
    <3>1. CASE c \notin DOMAIN rlTable
      <4>1. \A t \in RlTimes : f[t] = 0
        BY <3>1 DEF RlInv, Windowed, f
      <4>2. In(f, rlNow - RlWindow, rlNow - 1) = 0
        BY <1>1, <4>1, InZero
      <4>3. QED
        BY <1>1, <4>2
    <3>2. CASE c \in DOMAIN rlTable
      <4> DEFINE o == rlTable[c].resetAt
      <4>1. o < rlNow /\ o \in Nat /\ rlTable[c].count \in 0 .. RlMax
        BY <1>1, <1>3, <3>2 DEF RlInv, RlTypes, RlEntries
      <4>2. In(f, o - RlWindow, o) = rlTable[c].count /\ \A t \in RlTimes : t > o => f[t] = 0
        BY <3>2 DEF RlInv, Windowed, InWindow, f
      <4> HIDE DEF o
      <4>3. \A t \in ((rlNow - RlWindow) .. (rlNow - 1)) \cap RlTimes :
              t \in (o - RlWindow) .. o \/ f[t] = 0
        BY <1>1, <4>1, <4>2
      <4>4. In(f, rlNow - RlWindow, rlNow - 1) <= In(f, o - RlWindow, o)
        BY <1>1, <4>1, <4>3, InGrows
      <4>5. In(f, rlNow - RlWindow, rlNow - 1) \in Nat
        BY <1>1, InNat
      <4>6. QED
        BY <1>1, <4>1, <4>2, <4>4, <4>5
    <3>3. QED
      BY <3>1, <3>2
  <2>6. InWindow(f, e)
    <3>1. /\ e.resetAt - RlWindow = rlNow /\ e.resetAt - 2 * RlWindow = rlNow - RlWindow
          /\ \A t \in RlTimes : t > e.resetAt => t >= rlNow
      BY <1>1, <2>2
    <3>2. QED
      BY <2>2, <2>3, <2>4, <2>5, <3>1 DEF InWindow
  <2>7. e.resetAt - RlWindow \in 0 .. rlNow /\ rlNow <= e.resetAt
        /\ e.resetAt \in Nat /\ e.count \in 0 .. RlMax
    BY <1>1, <2>2
  <2>8. QED
    BY <2>2, <2>6, <2>7 DEF e, f
<1>4. QED
  BY <1>2, <1>3

\* Refused and malformed requests reset the entry at most.
LEMMA ResetKeeps ==
  ASSUME RlInv, NEW c \in RlClients, rlTable' = ResetInPlace(c), UNCHANGED <<rlNow, rlHandled>>,
         rlStatus' \in {0, 200, 204, 401, 403, 404, 429, 500}
  PROVE  RlInv'
<1> DEFINE e == EntryOf(c)
<1>1. /\ e \in RlEntries /\ e.resetAt \in Nat /\ e.count \in 0 .. RlMax
      /\ e.resetAt - RlWindow \in 0 .. rlNow /\ rlNow <= e.resetAt
      /\ InWindow(rlHandled[c], e)
  BY EntryWindow
<1> HIDE DEF e
<1>2. /\ rlNow \in Nat /\ RlWindow \in Nat
  BY RateAssumption DEF RlInv, RlTypes, RlTypeOK, RlTimes
<1>3. /\ DOMAIN rlTable' = DOMAIN rlTable
      /\ \A d \in DOMAIN rlTable : rlTable'[d] = IF d = c THEN e ELSE rlTable[d]
  BY DEF ResetInPlace, e
<1>4. e.resetAt >= RlWindow /\ e.resetAt <= rlNow + RlWindow
  BY <1>1, <1>2
<1>5. RlTypes'
  BY <1>1, <1>3, <1>4 DEF RlInv, RlTypes, RlTypeOK
<1>6. ASSUME NEW d \in RlClients PROVE Windowed(d)'
  <2>1. d \in DOMAIN rlTable => InWindow(rlHandled[d], rlTable'[d])
    BY <1>1, <1>3 DEF RlInv, Windowed
  <2>2. QED
    BY <1>2, <1>3, <2>1, WindowedKept DEF RlInv
<1>7. QED
  BY <1>5, <1>6 DEF RlInv

\* A request that only gets an answer.
LEMMA AnswerKeeps ==
  ASSUME RlInv, UNCHANGED <<rlNow, rlTable, rlHandled>>,
         rlStatus' \in {0, 200, 204, 401, 403, 404, 429, 500}
  PROVE  RlInv'
<1>1. RlTypes'
  BY DEF RlInv, RlTypes, RlTypeOK
<1>2. \A c \in RlClients : Windowed(c)'
  BY DEF RlInv, Windowed, Denied
<1>3. QED
  BY <1>1, <1>2 DEF RlInv

LEMMA TickKeeps == ASSUME RlInv, RlTick PROVE RlInv'
<1>1. rlNow \in Nat /\ rlNow' = rlNow + 1 /\ rlNow' \in RlTimes /\ RlWindow \in Nat
  BY RateAssumption DEF RlInv, RlTypes, RlTypeOK, RlTimes, RlTick
<1>2. RlTypes'
  <2>1. \A c \in DOMAIN rlTable : rlTable[c].resetAt \in Nat
    BY DEF RlInv, RlTypes, RlEntries
  <2>2. QED
    BY <1>1, <2>1 DEF RlInv, RlTypes, RlTypeOK, RlTick
<1>3. ASSUME NEW c \in RlClients PROVE Windowed(c)'
  <2>1. c \in DOMAIN rlTable => InWindow(rlHandled[c], rlTable'[c])
    BY DEF RlInv, Windowed, RlTick
  <2>2. QED
    BY <1>1, <2>1, WindowedKept DEF RlInv, RlTick
<1>4. QED
  BY <1>2, <1>3 DEF RlInv

\* Calls that are handled.
LEMMA HandledKeeps ==
  ASSUME RlInv, NEW c \in RlClients, NEW hasKey, NEW n \in Nat, Calls(c, hasKey, n),
         EntryOf(c).count + Counted(n) <= RlMax
  PROVE  RlInv'
<1> DEFINE e == EntryOf(c)
           f == rlHandled[c]
           g == rlHandled'[c]
           s == e.resetAt - RlWindow
           k == e.count + n
<1>1. /\ e \in RlEntries /\ e.resetAt \in Nat /\ e.count \in 0 .. RlMax
      /\ s \in 0 .. rlNow /\ rlNow <= e.resetAt /\ InWindow(f, e)
  BY EntryWindow
<1>2. /\ rlNow \in Nat /\ rlNow \in RlTimes /\ RlWindow \in Nat /\ RlMax \in Nat
      /\ f \in Counts /\ \A t \in RlTimes : t \in Nat
  BY RateAssumption DEF RlInv, RlTypes, RlTypeOK, RlTimes, Counts
<1>3. /\ k \in 0 .. RlMax /\ ~Denied(c) /\ UNCHANGED rlNow /\ rlStatus' \in {200, 500}
      /\ rlTable' = [d \in DOMAIN rlTable \cup {c} |->
                       IF d = c THEN RlEntry(k, e.resetAt) ELSE rlTable[d]]
      /\ rlHandled' = [rlHandled EXCEPT ![c][rlNow] = @ + n]
  BY <1>1, <1>2 DEF Calls, Counted, Admitted
<1>4. /\ DOMAIN rlTable' = DOMAIN rlTable \cup {c} /\ rlTable'[c] = RlEntry(k, e.resetAt)
      /\ \A d \in DOMAIN rlTable : d # c => rlTable'[d] = rlTable[d]
  BY <1>3
<1>5. /\ g \in Counts /\ g[rlNow] = f[rlNow] + n
      /\ \A t \in RlTimes \ {rlNow} : g[t] = f[t]
      /\ \A d \in RlClients \ {c} : rlHandled'[d] = rlHandled[d]
      /\ rlHandled' \in [RlClients -> [RlTimes -> Nat]]
  BY <1>2, <1>3 DEF RlInv, RlTypes, Counts
<1> HIDE DEF e, f, g, s, k
<1>6. \A a, b \in Int : In(g, a, b) = IF rlNow \in a .. b THEN In(f, a, b) + n ELSE In(f, a, b)
  BY <1>2, <1>5, InCounts DEF f, g
<1>7. /\ RlEntry(k, e.resetAt) \in RlEntries
      /\ RlEntry(k, e.resetAt).count = k /\ RlEntry(k, e.resetAt).resetAt = e.resetAt
  BY <1>1, <1>3 DEF RlEntry, RlEntries
<1>8. RlTypes'
  <2>1. e.resetAt >= RlWindow /\ e.resetAt <= rlNow + RlWindow
    BY <1>1, <1>2 DEF s
  <2>2. QED
    BY <1>3, <1>4, <1>5, <1>7, <2>1 DEF RlInv, RlTypes, RlTypeOK
<1>9. In(g, s, e.resetAt) = k
  <2>1. s \in Int /\ e.resetAt \in Int /\ rlNow \in s .. e.resetAt
    BY <1>1, <1>2 DEF s
  <2>2. In(f, s, e.resetAt) = e.count
    BY <1>1 DEF InWindow, s
  <2>3. QED
    BY <1>6, <2>1, <2>2 DEF k
<1>10. In(g, s - RlWindow, s - 1) <= RlMax
  <2>1. s \in Int /\ s - RlWindow \in Int /\ s - 1 \in Int /\ rlNow \notin (s - RlWindow) .. (s - 1)
    BY <1>1, <1>2 DEF s
  <2>2. In(f, s - RlWindow, s - 1) <= RlMax
    <3>1. s - RlWindow = e.resetAt - 2 * RlWindow /\ s - 1 = e.resetAt - RlWindow - 1
      BY <1>1, <1>2 DEF s
    <3>2. QED
      BY <1>1, <3>1 DEF InWindow
  <2>3. QED
    BY <1>6, <2>1, <2>2
<1>11. \A t \in RlTimes : t > e.resetAt \/ t > rlNow => g[t] = 0
  <2>1. \A t \in RlTimes : t > rlNow => f[t] = 0
    BY DEF RlInv, Windowed, f
  <2>2. QED
    BY <1>1, <1>2, <1>5, <2>1
<1>12. ASSUME NEW t \in Int PROVE In(g, t, t + RlWindow - 1) <= 2 * RlMax
  <2>1. CASE rlNow \notin t .. (t + RlWindow - 1)
    <3>1. In(f, t, t + RlWindow - 1) <= 2 * RlMax
      BY DEF RlInv, Windowed, f
    <3>2. In(g, t, t + RlWindow - 1) = In(f, t, t + RlWindow - 1)
      BY <1>2, <1>6, <2>1
    <3>3. QED
      BY <3>1, <3>2
  <2>2. CASE rlNow \in t .. (t + RlWindow - 1)
    <3> DEFINE z == t + RlWindow - 1
    <3>1. z \in Int /\ t >= s - RlWindow /\ z <= rlNow + RlWindow /\ s \in Int /\ rlNow >= s
          /\ e.resetAt = s + RlWindow
      BY <1>1, <1>2, <2>2 DEF s
    <3>2. \A x \in (t .. z) \cap RlTimes : x \in (s - RlWindow) .. e.resetAt \/ g[x] = 0
      BY <1>1, <1>2, <1>11, <3>1
    <3>3. In(g, t, z) <= In(g, s - RlWindow, e.resetAt)
      BY <1>1, <1>2, <1>5, <3>1, <3>2, InGrows
    <3>4. In(g, s - RlWindow, e.resetAt) = In(g, s - RlWindow, s - 1) + In(g, s, e.resetAt)
      <4>1. s - RlWindow <= s /\ s <= e.resetAt + 1 /\ s - RlWindow \in Int /\ e.resetAt \in Int
        BY <1>1, <1>2, <3>1
      <4>2. QED
        BY <1>5, <3>1, <4>1, InSplit
    <3>5. In(g, t, z) \in Nat /\ In(g, s - RlWindow, s - 1) \in Nat
      BY <1>2, <1>5, <3>1, InNat
    <3> HIDE DEF z
    <3>6. In(g, t, z) <= 2 * RlMax
      BY <1>2, <1>3, <1>9, <1>10, <3>3, <3>4, <3>5
    <3>7. QED
      BY <3>6 DEF z
  <2>3. QED
    BY <2>1, <2>2
<1>13. Windowed(c)'
  <2>1. InWindow(g, RlEntry(k, e.resetAt))
    <3>1. s - RlWindow = e.resetAt - 2 * RlWindow /\ s - 1 = e.resetAt - RlWindow - 1
          /\ s = e.resetAt - RlWindow
      BY <1>1, <1>2 DEF s
    <3>2. QED
      BY <1>7, <1>9, <1>10, <1>11, <3>1 DEF InWindow
  <2>2. InWindow(rlHandled[c], rlTable[c])' = InWindow(g, RlEntry(k, e.resetAt))
    BY <1>4 DEF g
  <2>3. \A t \in Int : In(rlHandled[c], t, t + RlWindow - 1)' = In(g, t, t + RlWindow - 1)
    BY DEF g
  <2>4. c \in DOMAIN rlTable' /\ rlNow' = rlNow /\ ~Denied(c)
    BY <1>3, <1>4
  <2>5. QED
    BY <1>11, <1>12, <2>1, <2>2, <2>3, <2>4 DEF Windowed, Denied, g
<1>14. ASSUME NEW d \in RlClients, d # c PROVE Windowed(d)'
  <2>1. d \in DOMAIN rlTable => InWindow(rlHandled[d], rlTable'[d])
    BY <1>4, <1>14 DEF RlInv, Windowed
  <2>2. d \in DOMAIN rlTable <=> d \in DOMAIN rlTable'
    BY <1>4, <1>14
  <2>3. Windowed(d) /\ rlHandled'[d] = rlHandled[d] /\ rlNow' >= rlNow /\ rlNow' \in Int
    BY <1>2, <1>3, <1>5, <1>14 DEF RlInv
  <2>4. QED
    BY <1>2, <2>1, <2>2, <2>3, WindowedKept
<1>15. QED
  BY <1>8, <1>13, <1>14 DEF RlInv

LEMMA RlInitHolds == RlInit => RlInv
<1> SUFFICES ASSUME RlInit PROVE RlInv
  OBVIOUS
<1>1. RlTypes
  BY RateAssumption DEF RlInit, RlTypes, RlTypeOK, RlTimes
<1>2. ASSUME NEW c \in RlClients PROVE Windowed(c)
  <2>1. /\ rlHandled[c] \in Counts /\ \A t \in RlTimes : rlHandled[c][t] = 0
        /\ RlWindow \in Nat /\ RlMax \in Nat
    BY RateAssumption DEF RlInit, Counts
  <2>2. ASSUME NEW t \in Int PROVE In(rlHandled[c], t, t + RlWindow - 1) <= 2 * RlMax
    <3>1. In(rlHandled[c], t, t + RlWindow - 1) = 0
      BY <2>1, InZero
    <3>2. QED
      BY <2>1, <3>1
  <2>3. c \notin DOMAIN rlTable
    BY DEF RlInit
  <2>4. QED
    BY <2>1, <2>2, <2>3 DEF Windowed
<1>3. QED
  BY <1>1, <1>2 DEF RlInv

LEMMA RlNextHolds == RlInv /\ [RlNext]_rlVars => RlInv'
<1> SUFFICES ASSUME RlInv, [RlNext]_rlVars PROVE RlInv'
  OBVIOUS
<1>1. CASE RlTick
  BY <1>1, TickKeeps
<1>2. ASSUME NEW method \in {"OPTIONS", "GET"}, NotPost(method) PROVE RlInv'
  BY <1>2, AnswerKeeps DEF NotPost, Answer
<1>3. ASSUME NEW c \in RlClients, NEW hasKey \in BOOLEAN, NotAdmitted(c, hasKey) PROVE RlInv'
  BY <1>3, AnswerKeeps DEF NotAdmitted, Answer
<1>4. ASSUME NEW c \in RlClients, NEW hasKey \in BOOLEAN, Malformed500(c, hasKey) PROVE RlInv'
  BY <1>4, ResetKeeps DEF Malformed500, Answer
<1>5. ASSUME NEW c \in RlClients, NEW hasKey \in BOOLEAN, NEW n \in 0 .. RlMax + 1, Calls(c, hasKey, n)
      PROVE  RlInv'
  <2>1. CASE EntryOf(c).count + Counted(n) > RlMax
    BY <1>5, <2>1, ResetKeeps DEF Calls, Answer
  <2>2. CASE ~(EntryOf(c).count + Counted(n) > RlMax)
    <3>1. EntryOf(c).count \in Nat /\ n \in Nat /\ RlMax \in Nat
      BY EntryWindow, RateAssumption
    <3>2. EntryOf(c).count + Counted(n) <= RlMax
      BY <2>2, <3>1 DEF Counted
    <3>3. QED
      BY <1>5, <3>1, <3>2, HandledKeeps
  <2>3. QED
    BY <2>1, <2>2
<1>6. CASE UNCHANGED rlVars
  <2>1. rlStatus' \in {0, 200, 204, 401, 403, 404, 429, 500}
    BY <1>6 DEF rlVars, RlInv, RlTypes, RlTypeOK
  <2>2. QED
    BY <1>6, <2>1, AnswerKeeps DEF rlVars
<1>7. QED
  BY <1>1, <1>2, <1>3, <1>4, <1>5, <1>6 DEF RlNext

LEMMA RlInvHolds == RlSpec => []RlInv
BY RlInitHolds, RlNextHolds, PTL DEF RlSpec

(* Whatever the requests and the clock: at most maxRequests calls of an
   address are handled in one window and twice as many in any windowMs
   milliseconds, and none of an address that is not admitted.               *)
THEOREM RateHolds == RlSpec => [](RlTypeOK /\ RateIsBounded)
<1>1. ASSUME RlInv PROVE RlTypeOK /\ RateIsBounded
  <2>1. RlTypeOK
    BY <1>1 DEF RlInv, RlTypes
  <2>2. ASSUME NEW c \in RlClients
        PROVE  /\ c \in DOMAIN rlTable =>
                    HandledIn(c, rlTable[c].resetAt - RlWindow, rlTable[c].resetAt) <= RlMax
               /\ \A t \in RlTimes : HandledIn(c, t, t + RlWindow - 1) <= 2 * RlMax
               /\ Denied(c) => HandledIn(c, 0, RlMaxTime) = 0
    <3>1. Windowed(c)
      BY <1>1 DEF RlInv
    <3>2. c \in DOMAIN rlTable =>
            HandledIn(c, rlTable[c].resetAt - RlWindow, rlTable[c].resetAt) <= RlMax
      <4>1. c \in DOMAIN rlTable => rlTable[c].count \in 0 .. RlMax
        BY <1>1 DEF RlInv, RlTypes, RlTypeOK
      <4>2. QED
        BY RateAssumption, HandledSum, <3>1, <4>1 DEF Windowed, InWindow
    <3>3. \A t \in RlTimes : HandledIn(c, t, t + RlWindow - 1) <= 2 * RlMax
      BY <3>1, HandledSum DEF Windowed, RlTimes
    <3>4. Denied(c) => HandledIn(c, 0, RlMaxTime) = 0
      <4>1. rlHandled[c] \in Counts
        BY <1>1 DEF RlInv, RlTypes, Counts
      <4>2. Denied(c) => In(rlHandled[c], 0, RlMaxTime) = 0
        BY RateAssumption, <3>1, <4>1, InZero DEF Windowed
      <4>3. QED
        BY <4>2, HandledSum
    <3>5. QED
      BY <3>2, <3>3, <3>4
  <2>3. QED
    BY <2>1, <2>2 DEF RateIsBounded
<1>2. QED
  BY <1>1, RlInvHolds, PTL

-----------------------------------------------------------------------------
(* The answers of the engine (Llm).                                         *)
(*                                                                          *)
(* An answer is in one place at a time: with the call that got it, in the   *)
(* cache, or given to a contract.                                           *)

Busy == {c \in LmCallers : lmCall[c] # LmIdle}
Given == {lmUsed[i] : i \in DOMAIN lmUsed}

\* An answer that came and was not given to a contract.
Ungiven(a) == a = 0 \/ (a \in 1 .. lmAnswers /\ a \notin Given)

OnePlace ==
  /\ lmAnswers \in Nat /\ lmUsed \in Seq(Nat \ {0})
  /\ Given \subseteq 1 .. lmAnswers
  /\ AnswersUsedOnce
  /\ Ungiven(lmCached)
  /\ \A c \in Busy : /\ Ungiven(lmCall[c].response)
                     /\ lmCall[c].response # 0 => lmCall[c].response # lmCached
  /\ \A c, d \in Busy : c # d /\ lmCall[c].response # 0 => lmCall[c].response # lmCall[d].response

LmFields == {"step", "trm", "config", "steps", "response", "confidence"}
LmCallIs(call) == call = [f \in LmFields |-> call[f]] /\ call.step # "idle"

LmInv ==
  /\ lmCall = [c \in LmCallers |-> lmCall[c]]
  /\ \A c \in Busy : LmCallIs(lmCall[c])
  /\ OnePlace

\* Nothing happened to an answer.
LEMMA OnePlaceKept ==
  ASSUME LmInv, UNCHANGED <<lmCached, lmCall, lmAnswers, lmUsed>> PROVE LmInv'
BY DEF LmInv, OnePlace, Busy, Given, Ungiven, AnswersUsedOnce

\* A call takes over an answer of the engine, or keeps what it had, and goes on or ends.
LEMMA CallGoesOn ==
  ASSUME LmInv, NEW c \in Busy, NEW a \in Nat, EngineAnswers(a), UNCHANGED lmUsed,
         NEW r \in {a, lmCall[c].response},
         \/ /\ lmCached' = r /\ lmCall' = [lmCall EXCEPT ![c] = LmIdle]
         \/ /\ lmCached' = lmCached
            /\ \E call : /\ call.response = r /\ LmCallIs(call) /\ call # LmIdle
                         /\ lmCall' = [lmCall EXCEPT ![c] = call]
  PROVE  LmInv'
<1>1. /\ lmAnswers \in Nat /\ c \in LmCallers /\ lmAnswers' \in Nat
      /\ lmAnswers' >= lmAnswers /\ (a = 0 \/ (a = lmAnswers + 1 /\ lmAnswers' = a))
  BY DEF LmInv, OnePlace, EngineAnswers, Busy
<1>2. Given' = Given
  BY DEF Given
<1>3. \A b : Ungiven(b) => Ungiven(b)'
  BY <1>1, <1>2 DEF Ungiven
<1>4. Ungiven(r)' /\ (a # 0 => a \notin 1 .. lmAnswers)
  <2>1. a # 0 => a \notin 1 .. lmAnswers /\ a \in 1 .. lmAnswers'
    BY <1>1
  <2>2. Ungiven(a)'
    BY <1>2, <2>1 DEF LmInv, OnePlace, Ungiven
  <2>3. Ungiven(lmCall[c].response)
    BY DEF LmInv, OnePlace
  <2>4. \A b : b = a \/ b = lmCall[c].response => Ungiven(b)'
    BY <1>3, <2>2, <2>3
  <2>5. QED
    BY <2>1, <2>4
<1>5. \A d \in Busy \ {c} : r # 0 => r # lmCall[d].response
  BY <1>1, <1>4 DEF LmInv, OnePlace, Ungiven
<1>6. r # 0 => r # lmCached
  BY <1>1, <1>4 DEF LmInv, OnePlace, Ungiven
<1>7. /\ \A d \in LmCallers \ {c} : lmCall'[d] = lmCall[d]
      /\ lmCall' = [d \in LmCallers |-> lmCall'[d]]
  BY DEF LmInv
<1>8. /\ lmUsed' \in Seq(Nat \ {0}) /\ Given' \subseteq 1 .. lmAnswers'
      /\ AnswersUsedOnce'
  BY <1>1, <1>2 DEF LmInv, OnePlace, AnswersUsedOnce
<1>9. CASE lmCached' = r /\ lmCall' = [lmCall EXCEPT ![c] = LmIdle]
  <2>1. Busy' = Busy \ {c}
    BY <1>1, <1>7, <1>9 DEF Busy, LmInv
  <2>2. \A d \in Busy' : lmCall'[d] = lmCall[d] /\ d \in Busy /\ d # c
    BY <1>7, <2>1 DEF Busy
  <2>3. \A d \in Busy' : Ungiven(lmCall[d].response)' /\ (lmCall[d].response # 0 => lmCall[d].response # lmCached)'
    BY <1>3, <1>5, <1>9, <2>2 DEF LmInv, OnePlace
  <2>4. Ungiven(lmCached)'
    BY <1>4, <1>9
  <2>5. \A d, e \in Busy' : d # e /\ lmCall'[d].response # 0 => lmCall'[d].response # lmCall'[e].response
    BY <2>2 DEF LmInv, OnePlace
  <2>6. OnePlace'
    BY <1>1, <1>8, <2>3, <2>4, <2>5 DEF OnePlace
  <2>7. \A d \in Busy' : LmCallIs(lmCall'[d])
    BY <2>2 DEF LmInv
  <2>8. QED
    BY <1>7, <2>6, <2>7 DEF LmInv
<1>10. ASSUME NEW call, call.response = r, LmCallIs(call), call # LmIdle,
              lmCached' = lmCached, lmCall' = [lmCall EXCEPT ![c] = call]
       PROVE  LmInv'
  <2>1. lmCall'[c] = call /\ Busy' = Busy
    BY <1>1, <1>7, <1>10 DEF Busy, LmInv
  <2>2. \A d \in Busy \ {c} : lmCall'[d] = lmCall[d]
    BY <1>7 DEF Busy
  <2>3. \A d \in Busy' : Ungiven(lmCall[d].response)'
    <3>1. \A d \in Busy \ {c} : Ungiven(lmCall[d].response)
      BY DEF LmInv, OnePlace
    <3>2. QED
      BY <1>3, <1>4, <1>10, <2>1, <2>2, <3>1
  <2>4. \A d \in Busy' : (lmCall[d].response # 0 => lmCall[d].response # lmCached)'
    BY <1>6, <1>10, <2>1, <2>2 DEF LmInv, OnePlace
  <2>5. (\A d, e \in Busy : d # e /\ lmCall[d].response # 0 => lmCall[d].response # lmCall[e].response)'
    <3> SUFFICES ASSUME NEW d \in Busy, NEW e \in Busy, d # e, lmCall'[d].response # 0
                 PROVE  lmCall'[d].response # lmCall'[e].response
      BY <2>1
    <3>1. CASE d = c
      BY <1>5, <1>10, <2>1, <2>2, <3>1
    <3>2. CASE e = c
      BY <1>5, <1>10, <2>1, <2>2, <3>2
    <3>3. CASE d # c /\ e # c
      BY <2>2, <3>3 DEF LmInv, OnePlace
    <3>4. QED
      BY <3>1, <3>2, <3>3
  <2>6. Ungiven(lmCached)'
    BY <1>3, <1>10 DEF LmInv, OnePlace
  <2>7. QED
    BY <1>1, <1>7, <1>8, <1>10, <2>1, <2>2, <2>3, <2>4, <2>5, <2>6 DEF LmInv, OnePlace
<1>11. QED
  BY <1>9, <1>10

LEMMA BeginPrecomputeKeeps ==
  ASSUME LmInv, NEW c \in LmCallers, NEW trm, NEW config, BeginPrecompute(c, trm, config)
  PROVE  LmInv'
<1> DEFINE call == [step |-> "asking", trm |-> trm, config |-> config,
                    steps |-> 0, response |-> 0, confidence |-> 0]
<1>1. /\ UNCHANGED <<lmCached, lmAnswers, lmUsed>> /\ lmCall' = [lmCall EXCEPT ![c] = call]
      /\ call.response = 0 /\ LmCallIs(call) /\ call # LmIdle
  BY DEF BeginPrecompute, LmIdle, LmCallIs, LmFields
<1> HIDE DEF call
<1>2. lmCall'[c] = call /\ (\A d \in LmCallers \ {c} : lmCall'[d] = lmCall[d])
      /\ lmCall' = [d \in LmCallers |-> lmCall'[d]]
  BY <1>1 DEF LmInv
<1>3. \A d \in Busy' : d = c \/ (d \in Busy /\ lmCall'[d] = lmCall[d])
  BY <1>2 DEF Busy
<1>4. \A b : Ungiven(b)' <=> Ungiven(b)
  BY <1>1 DEF Ungiven, Given
<1>5. Given' = Given /\ AnswersUsedOnce'
  BY <1>1 DEF Given, AnswersUsedOnce, LmInv, OnePlace
<1>6. Ungiven(0)
  BY DEF Ungiven
<1>7. \A d \in Busy' : Ungiven(lmCall[d].response)'
  BY <1>1, <1>2, <1>3, <1>4, <1>6 DEF LmInv, OnePlace
<1>8. QED
  BY <1>1, <1>2, <1>3, <1>4, <1>5, <1>7 DEF LmInv, OnePlace

LEMMA EngineRejectsKeeps == ASSUME LmInv, NEW c \in LmCallers, EngineRejects(c) PROVE LmInv'
<1>1. /\ UNCHANGED <<lmCached, lmAnswers, lmUsed>> /\ lmCall' = [lmCall EXCEPT ![c] = LmIdle]
  BY DEF EngineRejects
<1>2. lmCall'[c] = LmIdle /\ (\A d \in LmCallers \ {c} : lmCall'[d] = lmCall[d])
      /\ lmCall' = [d \in LmCallers |-> lmCall'[d]]
  BY <1>1 DEF LmInv
<1>3. \A d \in Busy' : d \in Busy /\ lmCall'[d] = lmCall[d]
  BY <1>2 DEF Busy
<1>4. \A b : Ungiven(b)' <=> Ungiven(b)
  BY <1>1 DEF Ungiven, Given
<1>5. Given' = Given /\ AnswersUsedOnce'
  BY <1>1 DEF Given, AnswersUsedOnce, LmInv, OnePlace
<1>7. \A d \in Busy' : Ungiven(lmCall[d].response)'
  BY <1>3, <1>4 DEF LmInv, OnePlace
<1>8. QED
  BY <1>1, <1>2, <1>3, <1>4, <1>5, <1>7 DEF LmInv, OnePlace

\* A contract is given the cached answer, which is in no other place.
LEMMA InferKeeps == ASSUME LmInv, Infer PROVE LmInv'
<1>1. CASE lmCapture.mode \/ lmCached = 0
  <2>1. UNCHANGED <<lmCached, lmCall, lmAnswers, lmUsed>>
    BY <1>1 DEF Infer, AfterInfer
  <2>2. QED
    BY <2>1, OnePlaceKept
<1>2. CASE ~lmCapture.mode /\ lmCached # 0
  <2>1. lmUsed' = Append(lmUsed, lmCached) /\ lmCached' = 0 /\ UNCHANGED <<lmCall, lmAnswers>>
    BY <1>2 DEF Infer, AfterInfer
  <2>2. lmUsed \in Seq(Nat \ {0}) /\ lmCached \in 1 .. lmAnswers /\ lmCached \notin Given /\ lmAnswers \in Nat
    BY <1>2 DEF LmInv, OnePlace, Ungiven
  <2>3. lmUsed' \in Seq(Nat \ {0})
    BY <2>1, <2>2
  <2>4. /\ DOMAIN lmUsed' = DOMAIN lmUsed \cup {Len(lmUsed) + 1}
        /\ lmUsed'[Len(lmUsed) + 1] = lmCached
        /\ \A i \in DOMAIN lmUsed : lmUsed'[i] = lmUsed[i]
    BY <2>1, <2>2
  <2>5. Given' = Given \cup {lmCached}
    BY <2>4 DEF Given
  <2>6. AnswersUsedOnce'
    BY <2>2, <2>4 DEF AnswersUsedOnce, Given, LmInv, OnePlace
  <2>7. Busy' = Busy
    BY <2>1 DEF Busy
  <2>8. \A c \in Busy : Ungiven(lmCall[c].response)'
    BY <1>2, <2>1, <2>5 DEF LmInv, OnePlace, Ungiven
  <2>9. Ungiven(lmCached)'
    BY <2>1 DEF Ungiven
  <2>10. QED
    BY <2>1, <2>2, <2>3, <2>5, <2>6, <2>7, <2>8, <2>9 DEF LmInv, OnePlace
<1>3. QED
  BY <1>1, <1>2

\* A busy call after a field of it was set.
LEMMA CallIsNotIdle == \A call : LmCallIs(call) => call # LmIdle
BY DEF LmCallIs, LmIdle

LEMMA TakenOver ==
  ASSUME LmInv, NEW c \in Busy, NEW a \in Nat, EngineAnswers(a), UNCHANGED lmUsed,
         NEW call, LmCallIs(call), call.response \in {a, lmCall[c].response},
         NEW next \in {"refining", "verifying", "done"}, Proceeds(c, call, next)
  PROVE  LmInv'
<1>1. CASE next = "done"
  <2>1. lmCached' = call.response /\ lmCall' = [lmCall EXCEPT ![c] = LmIdle]
    BY <1>1 DEF Proceeds, Finished
  <2>2. QED
    BY <2>1, CallGoesOn
<1>2. CASE next # "done"
  <2> DEFINE on == [call EXCEPT !.step = next]
  <2>1. lmCached' = lmCached /\ lmCall' = [lmCall EXCEPT ![c] = on]
    BY <1>2 DEF Proceeds
  <2>2. on.response = call.response /\ LmCallIs(on)
    BY DEF LmCallIs, LmFields
  <2> HIDE DEF on
  <2>3. QED
    BY <2>1, <2>2, CallIsNotIdle, CallGoesOn
<1>3. QED
  BY <1>1, <1>2

LEMMA AskedKeeps == ASSUME LmInv, NEW c \in LmCallers, Asked(c) PROVE LmInv'
<1>1. c \in Busy /\ UNCHANGED lmUsed /\ LmCallIs(lmCall[c])
  BY DEF Asked, Busy, LmIdle, LmInv
<1>2. PICK a \in 0 .. LmMaxAnswers :
        /\ EngineAnswers(a)
        /\ LET call == [lmCall[c] EXCEPT !.response = a, !.steps = 1]
           IN  Proceeds(c, call, IF call.trm THEN NextStep(call) ELSE "done")
  BY DEF Asked
<1> DEFINE call == [lmCall[c] EXCEPT !.response = a, !.steps = 1]
           next == IF call.trm THEN NextStep(call) ELSE "done"
<1>3. next \in {"refining", "verifying", "done"} /\ Proceeds(c, call, next)
  BY <1>2 DEF NextStep
<1>4. LmCallIs(call) /\ call.response = a
  BY <1>1 DEF LmCallIs, LmFields
<1> HIDE DEF next, call
<1>5. QED
  BY <1>1, <1>2, <1>3, <1>4, TakenOver

LEMMA RefinedKeeps == ASSUME LmInv, NEW c \in LmCallers, Refined(c) PROVE LmInv'
<1>1. c \in Busy /\ UNCHANGED lmUsed /\ LmCallIs(lmCall[c])
  BY DEF Refined, Busy, LmIdle, LmInv
<1>2. PICK a \in 0 .. LmMaxAnswers : \E alike \in Similarity(lmCall[c].response, a) :
        /\ EngineAnswers(a)
        /\ LET sure == IF alike \in {"same", "near"} THEN LmCapped(lmCall[c].confidence + 3)
                       ELSE lmCall[c].confidence + 1
               call == [lmCall[c] EXCEPT !.confidence = sure]
           IN  IF alike = "same" /\ sure >= LmThreshold
               THEN Proceeds(c, call, IF call.config.selfVerify THEN "verifying" ELSE "done")
               ELSE LET taken == [call EXCEPT !.response = a, !.steps = @ + 1]
                    IN  Proceeds(c, taken, NextStep(taken))
  BY DEF Refined
<1>3. PICK sure : LET call == [lmCall[c] EXCEPT !.confidence = sure]
                      taken == [call EXCEPT !.response = a, !.steps = @ + 1]
                  IN  \/ Proceeds(c, call, IF call.config.selfVerify THEN "verifying" ELSE "done")
                      \/ Proceeds(c, taken, NextStep(taken))
  BY <1>2
<1> DEFINE call == [lmCall[c] EXCEPT !.confidence = sure]
           taken == [call EXCEPT !.response = a, !.steps = @ + 1]
           over == IF call.config.selfVerify THEN "verifying" ELSE "done"
<1>4. /\ LmCallIs(call) /\ call.response = lmCall[c].response
      /\ LmCallIs(taken) /\ taken.response = a
  BY <1>1 DEF LmCallIs, LmFields
<1>5. /\ over \in {"refining", "verifying", "done"}
      /\ NextStep(taken) \in {"refining", "verifying", "done"}
  BY DEF NextStep
<1>6. Proceeds(c, call, over) \/ Proceeds(c, taken, NextStep(taken))
  BY <1>3
<1>7. EngineAnswers(a) /\ a \in Nat
  BY <1>2
<1> HIDE DEF call, taken, over
<1>8. QED
  BY <1>1, <1>4, <1>5, <1>6, <1>7, TakenOver

LEMMA SelfVerifiedKeeps == ASSUME LmInv, NEW c \in LmCallers, SelfVerified(c) PROVE LmInv'
<1>1. c \in Busy /\ UNCHANGED lmUsed /\ LmCallIs(lmCall[c])
  BY DEF SelfVerified, Busy, LmIdle, LmInv
<1>2. PICK a \in 0 .. LmMaxAnswers :
        /\ EngineAnswers(a)
        /\ \E alike, short : Finished(c, [lmCall[c] EXCEPT
             !.confidence = IF alike = "far" THEN @ ELSE LmCapped(@ + 2),
             !.response = IF short THEN @ ELSE a])
  BY DEF SelfVerified
<1>3. PICK alike, short : Finished(c, [lmCall[c] EXCEPT
             !.confidence = IF alike = "far" THEN @ ELSE LmCapped(@ + 2),
             !.response = IF short THEN @ ELSE a])
  BY <1>2
<1> DEFINE call == [lmCall[c] EXCEPT
             !.confidence = IF alike = "far" THEN @ ELSE LmCapped(@ + 2),
             !.response = IF short THEN @ ELSE a]
<1>4. LmCallIs(call) /\ call.response \in {a, lmCall[c].response}
  BY <1>1 DEF LmCallIs, LmFields
<1>5. lmCached' = call.response /\ lmCall' = [lmCall EXCEPT ![c] = LmIdle]
  BY <1>3 DEF Finished
<1>6. EngineAnswers(a) /\ a \in Nat
  BY <1>2
<1> HIDE DEF call
<1>7. QED
  BY <1>1, <1>4, <1>5, <1>6, CallGoesOn

LEMMA LmInitHolds == LmInit => LmInv
BY DEF LmInit, LmInv, OnePlace, Busy, Given, Ungiven, AnswersUsedOnce

LEMMA LmNextHolds == LmInv /\ [LmNext]_lmVars => LmInv'
<1> SUFFICES ASSUME LmInv, [LmNext]_lmVars PROVE LmInv'
  OBVIOUS
<1>1. ASSUME NEW c \in LmCallers, NEW trm \in BOOLEAN, BeginPrecompute(c, trm, lmConfig) PROVE LmInv'
  BY <1>1, BeginPrecomputeKeeps
<1>2. ASSUME NEW c \in LmCallers, Asked(c) \/ Refined(c) \/ SelfVerified(c) \/ EngineRejects(c)
      PROVE  LmInv'
  BY <1>2, AskedKeeps, RefinedKeeps, SelfVerifiedKeeps, EngineRejectsKeeps
<1>3. CASE Infer
  BY <1>3, InferKeeps
<1>4. ASSUME NEW b \in BOOLEAN, SetEngine(b) \/ SetCaptureMode(b) PROVE LmInv'
  BY <1>4, OnePlaceKept DEF SetEngine, SetCaptureMode
<1>5. ASSUME NEW config \in LmConfigs, SetTRMConfig(config) PROVE LmInv'
  BY <1>5, OnePlaceKept DEF SetTRMConfig
<1>6. CASE SetStatus("error") \/ ClearCapturedRequest \/ ClearMemory \/ UNCHANGED lmVars
  BY <1>6, OnePlaceKept DEF SetStatus, ClearCapturedRequest, ClearMemory, lmVars
<1>7. CASE LmRegistryNext
  BY <1>7, OnePlaceKept DEF LmRegistryNext, RegisterLlmAdapter, UnregisterLlmAdapter,
                            SetActiveLlmAdapter, LmRegistryIs
<1>8. QED
  BY <1>1, <1>2, <1>3, <1>4, <1>5, <1>6, <1>7 DEF LmNext, LmAdapterNext

LEMMA LmInvHolds == LmSpec => []LmInv
BY LmInitHolds, LmNextHolds, PTL DEF LmSpec

(* However many calls overlap and end, no answer of the engine is given to
   two contracts.                                                           *)
THEOREM AnswersOnce == LmSpec => []AnswersUsedOnce
<1>1. LmInv => AnswersUsedOnce
  BY DEF LmInv, OnePlace
<1>2. QED
  BY <1>1, LmInvHolds, PTL

-----------------------------------------------------------------------------
(* The types of the adapter and of the registry (Llm).                      *)

\* A call, and its fields.
LmRecords ==
  [step : {"asking", "refining", "verifying"}, trm : BOOLEAN, config : LmConfigs, steps : Nat,
   response : 0 .. LmMaxAnswers, confidence : Nat]

\* The memory size of the first configuration.
LmMostBuffer == CHOOSE n \in LmBuffers : \A m \in LmBuffers : m <= n

\* A call that goes on has steps left.
LmCallOK(call) == call \in LmRecords /\ call.steps <= call.config.maxSteps

LmCallsTyped(calls) ==
  /\ calls = [c \in LmCallers |-> calls[c]]
  /\ \A c \in LmCallers : calls[c] # LmIdle => LmCallOK(calls[c])

\* The invariant of the types: LmTypeOK, with the fields of the calls and the count of the answers.
LmTyped ==
  /\ lmEngine \in BOOLEAN
  /\ lmStatus \in {"not_loaded", "ready", "error"}
  /\ lmConfig \in LmConfigs
  /\ lmCached \in 0 .. LmMaxAnswers
  /\ lmMemory \in Seq(LmLengths)
  /\ lmCapture \in [mode : BOOLEAN, request : BOOLEAN]
  /\ LmCallsTyped(lmCall)
  /\ lmAnswers \in 0 .. LmMaxAnswers
  /\ lmRegistry.active \in lmRegistry.ids \cup {NoAdapter}

\* What is assumed of the bounds.
LEMMA LmMostIs ==
  /\ LmMostBuffer \in LmBuffers
  /\ LmMaxSteps \subseteq Nat /\ LmMaxAnswers \in Nat
BY LmAssumption DEF LmMostBuffer

LEMMA LmTypesStart ==
  ASSUME LmInit PROVE LmTyped
<1>1. lmConfig \in LmConfigs
  <2> DEFINE most == CHOOSE n \in LmMaxSteps : \A m \in LmMaxSteps : m <= n
  <2>1. most \in LmMaxSteps
    BY LmAssumption
  <2>2. lmConfig = [maxSteps |-> most, selfVerify |-> TRUE, buffer |-> LmMostBuffer]
    BY DEF LmInit, LmMostBuffer
  <2> HIDE DEF most
  <2>3. QED
    BY <2>1, <2>2, LmMostIs DEF LmConfigs
<1>2. lmCall = [c \in LmCallers |-> LmIdle]
  BY DEF LmInit
<1>3. LmCallsTyped(lmCall)
  BY <1>2 DEF LmCallsTyped
<1>4. lmCapture \in [mode : BOOLEAN, request : BOOLEAN] /\ lmEngine \in BOOLEAN
  BY DEF LmInit
<1>5. lmRegistry.active \in lmRegistry.ids \cup {NoAdapter}
  BY DEF LmInit
<1>6. /\ lmStatus \in {"not_loaded", "ready", "error"} /\ lmCached \in 0 .. LmMaxAnswers
      /\ lmMemory \in Seq(LmLengths) /\ lmAnswers \in 0 .. LmMaxAnswers
  BY LmMostIs DEF LmInit
<1>7. QED
  BY <1>1, <1>3, <1>4, <1>5, <1>6 DEF LmTyped

\* A call of a caller replaced by another that is typed.
LEMMA LmCallReplaced ==
  ASSUME NEW calls, LmCallsTyped(calls), NEW c \in LmCallers, NEW call, call = LmIdle \/ LmCallOK(call)
  PROVE  LmCallsTyped([calls EXCEPT ![c] = call])
BY DEF LmCallsTyped

LEMMA FinishedTyped ==
  ASSUME LmTyped, NEW c \in LmCallers, NEW call \in LmRecords, Finished(c, call)
  PROVE  /\ lmCached' \in 0 .. LmMaxAnswers /\ lmMemory' \in Seq(LmLengths)
         /\ LmCallsTyped(lmCall')
<1>1. call.response \in 0 .. LmMaxAnswers
  BY DEF LmRecords
<1>3. lmCached' = call.response
  BY DEF Finished
<1>4. lmMemory' \in Seq(LmLengths)
  <2>1. lmMemory \in Seq(LmLengths)
    BY DEF LmTyped
  <2>2. lmMemory' = lmMemory
        \/ \E length \in LmLengths : \/ lmMemory' = Append(lmMemory, length)
                                     \/ lmMemory' = Tail(Append(lmMemory, length))
    BY DEF Finished, Remembered
  <2>3. ASSUME NEW length \in LmLengths
        PROVE  /\ Append(lmMemory, length) \in Seq(LmLengths)
               /\ Tail(Append(lmMemory, length)) \in Seq(LmLengths)
    <3> DEFINE longer == Append(lmMemory, length)
    <3>1. longer \in Seq(LmLengths) /\ Len(longer) = Len(lmMemory) + 1 /\ Len(lmMemory) \in Nat
      BY <2>1, AppendElements
    <3> HIDE DEF longer
    <3>2. longer # <<>>
      BY <3>1
    <3>3. Tail(longer) \in Seq(LmLengths)
      BY <3>1, <3>2
    <3> QED
      BY <3>1, <3>3 DEF longer
  <2>4. QED
    BY <2>1, <2>2, <2>3
<1>5. LmCallsTyped(lmCall')
  <2>1. LmCallsTyped(lmCall) /\ lmCall' = [lmCall EXCEPT ![c] = LmIdle]
    BY DEF LmTyped, Finished
  <2>2. QED
    BY <2>1, LmCallReplaced
<1>6. QED
  BY <1>1, <1>3, <1>4, <1>5

LEMMA ProceedsTyped ==
  ASSUME LmTyped, NEW c \in LmCallers, NEW call \in LmRecords, NEW next, Proceeds(c, call, next),
         next \in {"refining", "verifying", "done"},
         next # "done" => call.steps <= call.config.maxSteps
  PROVE  /\ lmCached' \in 0 .. LmMaxAnswers /\ lmMemory' \in Seq(LmLengths)
         /\ LmCallsTyped(lmCall')
<1>1. CASE next = "done"
  BY <1>1, FinishedTyped DEF Proceeds
<1>2. CASE next # "done"
  <2> DEFINE on == [call EXCEPT !.step = next]
  <2>1. /\ lmCall' = [lmCall EXCEPT ![c] = on] /\ lmCached' = lmCached /\ lmMemory' = lmMemory
    BY <1>2 DEF Proceeds
  <2>2. on \in LmRecords /\ on.steps = call.steps /\ on.config = call.config
    BY <1>2 DEF LmRecords
  <2> HIDE DEF on
  <2>3. LmCallOK(on)
    BY <1>2, <2>2 DEF LmCallOK
  <2>4. LmCallsTyped(lmCall')
    BY <2>1, <2>3, LmCallReplaced DEF LmTyped
  <2>5. QED
    BY <2>1, <2>4 DEF LmTyped
<1>3. QED
  BY <1>1, <1>2

\* What the loop asks for next is asked only while there are steps left.
LEMMA NextStepIs ==
  ASSUME NEW call \in LmRecords
  PROVE  /\ NextStep(call) \in {"refining", "verifying", "done"}
         /\ NextStep(call) # "done" => call.steps <= call.config.maxSteps
<1>1. call.steps \in Nat /\ call.config \in LmConfigs
  BY DEF LmRecords
<1>2. call.config.maxSteps \in Nat
  BY <1>1, LmMostIs DEF LmConfigs
<1>3. QED
  BY <1>1, <1>2 DEF NextStep

LEMMA LmCallTyped ==
  ASSUME LmTyped, NEW c \in LmCallers, lmCall[c].step # "idle"
  PROVE  lmCall[c] \in LmRecords /\ lmCall[c].steps <= lmCall[c].config.maxSteps
BY DEF LmTyped, LmCallsTyped, LmIdle, LmCallOK

LEMMA EngineAnswersTyped ==
  ASSUME LmTyped, NEW a \in 0 .. LmMaxAnswers, EngineAnswers(a)
  PROVE  lmAnswers' \in 0 .. LmMaxAnswers
BY LmMostIs DEF LmTyped, EngineAnswers

\* An answer of the engine, after which the call is over or goes on.
LEMMA AnsweredTyped ==
  ASSUME LmTyped, NEW a \in 0 .. LmMaxAnswers, EngineAnswers(a),
         UNCHANGED <<adapterVars, lmRegistry, lmUsed>>,
         lmCached' \in 0 .. LmMaxAnswers, lmMemory' \in Seq(LmLengths), LmCallsTyped(lmCall')
  PROVE  LmTyped'
BY EngineAnswersTyped DEF LmTyped, adapterVars

LEMMA AskedTyped ==
  ASSUME LmTyped, NEW c \in LmCallers, Asked(c) PROVE LmTyped'
<1>1. PICK a \in 0 .. LmMaxAnswers :
        /\ EngineAnswers(a)
        /\ LET call == [lmCall[c] EXCEPT !.response = a, !.steps = 1]
           IN  Proceeds(c, call, IF call.trm THEN NextStep(call) ELSE "done")
  BY DEF Asked
<1> DEFINE call == [lmCall[c] EXCEPT !.response = a, !.steps = 1]
           next == IF call.trm THEN NextStep(call) ELSE "done"
<1>2. lmCall[c] \in LmRecords
  BY LmCallTyped DEF Asked
<1>3. call \in LmRecords
  BY <1>2 DEF LmRecords
<1>4. Proceeds(c, call, next)
  BY <1>1
<1> HIDE DEF call
<1>5. /\ next \in {"refining", "verifying", "done"}
      /\ next # "done" => call.steps <= call.config.maxSteps
  BY <1>3, NextStepIs
<1> HIDE DEF next
<1>6. QED
  BY <1>1, <1>3, <1>4, <1>5, ProceedsTyped, AnsweredTyped DEF Asked

LEMMA RefinedTyped ==
  ASSUME LmTyped, NEW c \in LmCallers, Refined(c) PROVE LmTyped'
<1> DEFINE was == lmCall[c]
<1>0. PICK a \in 0 .. LmMaxAnswers : \E alike \in Similarity(was.response, a) :
        /\ EngineAnswers(a)
        /\ LET sure == IF alike \in {"same", "near"} THEN LmCapped(was.confidence + 3)
                       ELSE was.confidence + 1
               call == [was EXCEPT !.confidence = sure]
           IN  IF alike = "same" /\ sure >= LmThreshold
               THEN Proceeds(c, call, IF call.config.selfVerify THEN "verifying" ELSE "done")
               ELSE LET taken == [call EXCEPT !.response = a, !.steps = @ + 1]
                    IN  Proceeds(c, taken, NextStep(taken))
  BY DEF Refined
<1>1. PICK alike \in Similarity(was.response, a) :
        /\ EngineAnswers(a)
        /\ LET sure == IF alike \in {"same", "near"} THEN LmCapped(was.confidence + 3)
                       ELSE was.confidence + 1
               call == [was EXCEPT !.confidence = sure]
           IN  IF alike = "same" /\ sure >= LmThreshold
               THEN Proceeds(c, call, IF call.config.selfVerify THEN "verifying" ELSE "done")
               ELSE LET taken == [call EXCEPT !.response = a, !.steps = @ + 1]
                    IN  Proceeds(c, taken, NextStep(taken))
  BY <1>0
<1> DEFINE sure == IF alike \in {"same", "near"} THEN LmCapped(was.confidence + 3)
                   ELSE was.confidence + 1
           call == [was EXCEPT !.confidence = sure]
           taken == [call EXCEPT !.response = a, !.steps = @ + 1]
<1>2. was \in LmRecords /\ was.steps <= was.config.maxSteps
  BY LmCallTyped DEF Refined
<1>3. sure \in Nat
  BY <1>2 DEF LmRecords, LmCapped
<1>4. \/ Proceeds(c, call, IF call.config.selfVerify THEN "verifying" ELSE "done")
      \/ Proceeds(c, taken, NextStep(taken))
  BY <1>1
<1> HIDE DEF sure, was
<1>5. call \in LmRecords /\ call.steps = was.steps /\ call.config = was.config
  BY <1>2, <1>3 DEF LmRecords
<1> HIDE DEF call
<1>6. taken \in LmRecords
  <2> DEFINE n == call.steps + 1
             next == [call EXCEPT !.response = a, !.steps = n]
  <2>1. n \in Nat /\ taken = next
    BY <1>5 DEF LmRecords
  <2> HIDE DEF n, taken
  <2>2. QED
    BY <1>5, <2>1 DEF LmRecords
<1> HIDE DEF taken
<1>7. CASE Proceeds(c, call, IF call.config.selfVerify THEN "verifying" ELSE "done")
  <2> DEFINE next == IF call.config.selfVerify THEN "verifying" ELSE "done"
  <2>1. next \in {"refining", "verifying", "done"} /\ call.steps <= call.config.maxSteps
    BY <1>2, <1>5
  <2> HIDE DEF next
  <2>2. Proceeds(c, call, next)
    BY <1>7 DEF next
  <2>3. QED
    BY <1>1, <1>5, <2>1, <2>2, ProceedsTyped, AnsweredTyped DEF Refined
<1>8. CASE Proceeds(c, taken, NextStep(taken))
  <2>1. /\ NextStep(taken) \in {"refining", "verifying", "done"}
        /\ NextStep(taken) # "done" => taken.steps <= taken.config.maxSteps
    BY <1>6, NextStepIs
  <2>2. QED
    BY <1>1, <1>6, <1>8, <2>1, ProceedsTyped, AnsweredTyped DEF Refined
<1>9. QED
  BY <1>4, <1>7, <1>8

LEMMA SelfVerifiedTyped ==
  ASSUME LmTyped, NEW c \in LmCallers, SelfVerified(c) PROVE LmTyped'
<1> DEFINE was == lmCall[c]
<1>0. PICK a \in 0 .. LmMaxAnswers : \E alike \in Similarity(was.response, a), short \in BOOLEAN :
        /\ EngineAnswers(a)
        /\ Finished(c, [was EXCEPT
             !.confidence = IF alike = "far" THEN @ ELSE LmCapped(@ + 2),
             !.response = IF short THEN @ ELSE a])
  BY DEF SelfVerified
<1>1. PICK alike \in Similarity(was.response, a), short \in BOOLEAN :
        /\ EngineAnswers(a)
        /\ Finished(c, [was EXCEPT
             !.confidence = IF alike = "far" THEN @ ELSE LmCapped(@ + 2),
             !.response = IF short THEN @ ELSE a])
  BY <1>0
<1> DEFINE sure == IF alike = "far" THEN was.confidence ELSE LmCapped(was.confidence + 2)
           answer == IF short THEN was.response ELSE a
           call == [was EXCEPT !.confidence = sure, !.response = answer]
<1>2. was \in LmRecords
  BY LmCallTyped DEF SelfVerified
<1>3. sure \in Nat /\ answer \in 0 .. LmMaxAnswers
  BY <1>2 DEF LmRecords, LmCapped
<1>4. Finished(c, call)
  <2>1. call = [was EXCEPT
             !.confidence = IF alike = "far" THEN @ ELSE LmCapped(@ + 2),
             !.response = IF short THEN @ ELSE a]
    BY <1>2 DEF LmRecords
  <2>2. QED
    BY <1>1, <2>1
<1> HIDE DEF sure, answer, was
<1>5. call \in LmRecords
  BY <1>2, <1>3 DEF LmRecords
<1> HIDE DEF call
<1>6. QED
  BY <1>1, <1>4, <1>5, FinishedTyped, AnsweredTyped DEF SelfVerified

LEMMA LmTypesKept ==
  ASSUME LmTyped, [LmNext]_lmVars PROVE LmTyped'
<1>1. ASSUME NEW c \in LmCallers, Asked(c) \/ Refined(c) \/ SelfVerified(c) PROVE LmTyped'
  BY <1>1, AskedTyped, RefinedTyped, SelfVerifiedTyped
<1>2. ASSUME NEW c \in LmCallers, NEW trm \in BOOLEAN, BeginPrecompute(c, trm, lmConfig) PROVE LmTyped'
  <2> DEFINE call == [step |-> "asking", trm |-> trm, config |-> lmConfig,
                      steps |-> 0, response |-> 0, confidence |-> 0]
  <2>1. lmCall' = [lmCall EXCEPT ![c] = call]
    BY <1>2 DEF BeginPrecompute
  <2>2. lmConfig \in LmConfigs
    BY DEF LmTyped
  <2>3. lmConfig.maxSteps \in Nat
    BY <2>2, LmMostIs DEF LmConfigs
  <2>4. call \in LmRecords /\ call.steps <= call.config.maxSteps
    BY <2>2, <2>3, LmMostIs DEF LmRecords
  <2> HIDE DEF call
  <2>5. LmCallsTyped(lmCall')
    BY <2>1, <2>4, LmCallReplaced DEF LmTyped, LmCallOK
  <2>6. QED
    BY <1>2, <2>5 DEF BeginPrecompute, LmTyped, adapterVars
<1>3. ASSUME NEW c \in LmCallers, EngineRejects(c) PROVE LmTyped'
  <2>1. LmCallsTyped(lmCall')
    BY <1>3, LmCallReplaced DEF EngineRejects, LmTyped
  <2>2. QED
    BY <1>3, <2>1 DEF EngineRejects, LmTyped, adapterVars
<1>4. CASE Infer
  <2>1. lmCached' \in 0 .. LmMaxAnswers
    BY <1>4, LmMostIs DEF Infer, LmTyped, AfterInfer
  <2>2. lmCapture' \in [mode : BOOLEAN, request : BOOLEAN]
    BY <1>4 DEF Infer, LmTyped
  <2>3. QED
    BY <1>4, <2>1, <2>2 DEF Infer, LmTyped
<1>5. ASSUME NEW b \in BOOLEAN, SetEngine(b) PROVE LmTyped'
  BY <1>5 DEF SetEngine, LmTyped
<1>6. ASSUME NEW b \in BOOLEAN, SetCaptureMode(b) PROVE LmTyped'
  <2>1. (lmCapture.request /\ ~b) \in BOOLEAN
    OBVIOUS
  <2>2. lmCapture' \in [mode : BOOLEAN, request : BOOLEAN]
    BY <1>6, <2>1, Zenon DEF SetCaptureMode
  <2>3. QED
    BY <1>6, <2>2 DEF SetCaptureMode, LmTyped
<1>7. ASSUME NEW config \in LmConfigs, SetTRMConfig(config) PROVE LmTyped'
  BY <1>7 DEF SetTRMConfig, LmTyped
<1>8. CASE SetStatus("error")
  BY <1>8 DEF SetStatus, LmTyped
<1>9. CASE ClearCapturedRequest
  BY <1>9 DEF ClearCapturedRequest, LmTyped
<1>10. CASE ClearMemory
  BY <1>10, LmMostIs DEF ClearMemory, LmTyped, adapterVars
<1>11. CASE LmRegistryNext
  BY <1>11 DEF LmRegistryNext, RegisterLlmAdapter, UnregisterLlmAdapter,
               SetActiveLlmAdapter, LmRegistryIs, LmTyped, adapterVars
<1>12. CASE UNCHANGED lmVars
  BY <1>12 DEF lmVars, LmTyped
<1>13. QED
  BY <1>1, <1>2, <1>3, <1>4, <1>5, <1>6, <1>7, <1>8, <1>9, <1>10, <1>11, <1>12
     DEF LmNext, LmAdapterNext

LEMMA LmTypedIs ==
  ASSUME LmTyped PROVE LmTypeOK
<1>1. ASSUME NEW c \in LmCallers, lmCall[c] # LmIdle
      PROVE  /\ lmCall[c].step \in {"asking", "refining", "verifying"}
             /\ lmCall[c].steps <= lmCall[c].config.maxSteps
             /\ lmCall[c].confidence \in Nat
  BY <1>1 DEF LmTyped, LmCallsTyped, LmCallOK, LmRecords
<1>2. QED
  BY <1>1 DEF LmTyped, LmTypeOK, LmMostBuffer

\* Every variable has its type: the memory never holds more entries than some configuration allows, a
\* call that goes on is within its steps, and the active adapter is a registered one (precomputeTRM,
\* registerLlmAdapter, unregisterLlmAdapter).
THEOREM LmTypeCorrect == LmSpec => []LmTypeOK
BY LmTypesStart, LmTypesKept, LmTypedIs, PTL DEF LmSpec

-----------------------------------------------------------------------------
(* Contracts in the VM (Host).                                              *)
(*                                                                          *)
(* The context of the contract that runs holds what its transaction emitted *)
(* and used; a receipt is taken of it and no receipt of that transaction    *)
(* was taken before.  A host that was not missed has the adapter set last,  *)
(* from the moment it is created.                                           *)

HsContexts == [caller : HsDids \cup {"anonymous"}, events : Seq(HsDids), gasUsed : Nat,
               llm : HsAdapters, pages : 1 .. HsMaxPages, offset : Nat, nft : Seq(HsDids),
               missed : BOOLEAN]

\* The allocator stays in the memory of the instance.
Fits(ctx) == ctx.offset <= ctx.pages * HsPage
Current(ctx) == ctx.missed \/ ctx.llm = hsLlm
InLimit(gas) == HsGasLimit > 0 => gas <= HsGasLimit

HsTypes ==
  /\ hsLlm \in HsAdapters
  /\ hsCtx \in [HsContracts -> HsContexts \cup {NoContext}]
  /\ hsDeploying \in [HsContracts -> [step : {"compiling"}, context : HsContexts] \cup {NoDeploy}]
  /\ hsStorage \in [HsKeys -> Nat]
  /\ hsMade \in [HsTxs -> [begun : BOOLEAN, events : Seq(HsDids), gas : Nat]]

HsRunIs(run) ==
  /\ run = [f \in {"tx", "contract", "returned"} |-> run[f]]
  /\ run.tx \in HsTxs /\ run.contract \in Deployed

Taken == hsHashing \cup hsReceipts

ContextsSound ==
  /\ \A c \in Deployed : Fits(hsCtx[c]) /\ Current(hsCtx[c])
  /\ \A c \in HsContracts : hsDeploying[c] # NoDeploy =>
       Fits(hsDeploying[c].context) /\ Current(hsDeploying[c].context)

RunSound ==
  hsRun # NoRun =>
    /\ HsRunIs(hsRun)
    /\ hsMade[hsRun.tx].begun
    /\ Running.events = hsMade[hsRun.tx].events /\ Running.gasUsed = hsMade[hsRun.tx].gas
    /\ InLimit(Running.gasUsed)
    /\ \A r \in Taken : r.tx # hsRun.tx

TakenSound ==
  \A r \in Taken : /\ r.tx \in HsTxs /\ hsMade[r.tx].begun
                   /\ r.events = hsMade[r.tx].events /\ r.gas = hsMade[r.tx].gas
                   /\ InLimit(r.gas)

NotBegun == \A t \in HsTxs : ~hsMade[t].begun => hsMade[t].events = <<>> /\ hsMade[t].gas = 0

HsInv == HsTypes /\ ContextsSound /\ RunSound /\ TakenSound /\ NotBegun

LEMMA ContextIsThere ==
  /\ NoContext \notin HsContexts
  /\ NoDeploy \notin [step : {"compiling"}, context : HsContexts]
BY DEF NoContext, HsContexts, NoDeploy

LEMMA DeployedContexts ==
  ASSUME HsTypes PROVE \A c \in HsContracts : c \in Deployed <=> hsCtx[c] \in HsContexts
BY ContextIsThere DEF HsTypes, Deployed

\* Enough pages for so many words.
LEMMA PagesSuffice ==
  ASSUME NEW x \in Nat
  PROVE  (x + HsPage - 1) \div HsPage \in Nat /\ ((x + HsPage - 1) \div HsPage) * HsPage >= x
<1> DEFINE y == x + HsPage - 1
<1>1. HsPage \in Nat /\ HsPage > 0 /\ y \in Nat
  BY HostAssumption
<1>2. y \div HsPage \in Nat /\ y = HsPage * (y \div HsPage) + (y % HsPage)
      /\ y % HsPage \in 0 .. (HsPage - 1)
  BY <1>1
<1> DEFINE q == y \div HsPage
<1>3. HsPage * q >= y - (HsPage - 1)
  BY <1>1, <1>2
<1>4. q * HsPage = HsPage * q
  BY <1>1, <1>2
<1>5. QED
  BY <1>1, <1>2, <1>3, <1>4

LEMMA AllocFits ==
  ASSUME NEW ctx \in HsContexts, NEW size \in Nat, Fits(ctx), CanAlloc(ctx, size)
  PROVE  LET a == Alloc(ctx, size)
         IN  /\ a \in HsContexts /\ Fits(a) /\ a.events = ctx.events /\ a.gasUsed = ctx.gasUsed
             /\ a.llm = ctx.llm /\ a.missed = ctx.missed
<1> DEFINE a == Alloc(ctx, size)
           p == Pages(ctx, size)
<1>1. /\ ctx.offset \in Nat /\ ctx.pages \in 1 .. HsMaxPages /\ HsPage \in Nat \ {0} /\ HsMaxPages \in Nat
      /\ p <= HsMaxPages
  BY HostAssumption DEF HsContexts, CanAlloc
<1> DEFINE next == ctx.offset + size
           have == ctx.pages * HsPage
<1>2. have \in Nat /\ next \in Nat
  BY <1>1
<1>3. p \in 1 .. HsMaxPages /\ next <= p * HsPage
  <2>1. CASE next <= have
    <3>1. p = ctx.pages
      BY <1>1, <1>2, <2>1 DEF Pages
    <3>2. QED
      BY <1>1, <2>1, <3>1
  <2>2. CASE next > have
    <3> DEFINE x == next - have
               more == (x + HsPage - 1) \div HsPage
    <3>1. x \in Nat
      BY <1>2, <2>2
    <3>2. more \in Nat /\ more * HsPage >= x
      BY <3>1, PagesSuffice
    <3>3. p = ctx.pages + more
      <4>1. p = ctx.pages + ((next - have + HsPage - 1) \div HsPage)
        BY <2>2 DEF Pages
      <4>2. QED
        BY <4>1
    <3> HIDE DEF more, next, p
    <3>4. p * HsPage = have + more * HsPage
      BY <1>1, <3>2, <3>3
    <3>5. QED
      BY <1>1, <1>2, <2>2, <3>1, <3>2, <3>3, <3>4
  <2>3. QED
    BY <1>2, <2>1, <2>2
<1> HIDE DEF p
<1>4. a = [ctx EXCEPT !.offset = next, !.pages = p]
  BY DEF Alloc, p
<1>5. /\ a \in HsContexts /\ a.offset = next /\ a.pages = p
      /\ a.events = ctx.events /\ a.gasUsed = ctx.gasUsed /\ a.llm = ctx.llm /\ a.missed = ctx.missed
  BY <1>1, <1>2, <1>3, <1>4 DEF HsContexts
<1>6. QED
  BY <1>3, <1>5 DEF Fits

LEMMA NewContext ==
  ASSUME hsLlm \in HsAdapters
  PROVE  Context(hsLlm) \in HsContexts /\ Fits(Context(hsLlm)) /\ Current(Context(hsLlm))
<1>1. HsPage \in Nat /\ 1 \in 1 .. HsMaxPages
  BY HostAssumption
<1>2. Context(hsLlm) \in HsContexts
  BY <1>1 DEF Context, HsContexts
<1>3. Context(hsLlm).offset = HsPage /\ Context(hsLlm).pages = 1 /\ Context(hsLlm).llm = hsLlm
  BY DEF Context
<1>4. QED
  BY <1>1, <1>2, <1>3 DEF Fits, Current


-----------------------------------------------------------------------------
(* The steps *)

\* Between two runs, what was made and taken stays.
LEMMA DeploymentKeeps ==
  ASSUME HsInv, hsRun = NoRun, UNCHANGED runVars, HsTypes', ContextsSound'
  PROVE  HsInv'
BY DEF HsInv, RunSound, TakenSound, NotBegun, Taken, runVars

LEMMA CreateHostKeeps == ASSUME HsInv, NEW c \in HsContracts, CreateHost(c) PROVE HsInv'
<1> DEFINE d == [step |-> "compiling", context |-> Context(hsLlm)]
<1>1. /\ hsRun = NoRun /\ UNCHANGED <<hsLlm, hsCtx, runVars>>
      /\ hsDeploying' = [hsDeploying EXCEPT ![c] = d]
  BY DEF CreateHost
<1>2. /\ Context(hsLlm) \in HsContexts /\ Fits(Context(hsLlm)) /\ Current(Context(hsLlm))
  BY NewContext DEF HsInv, HsTypes
<1>3. d \in [step : {"compiling"}, context : HsContexts] /\ d.context = Context(hsLlm)
  BY <1>2
<1> HIDE DEF d
<1>4. HsTypes'
  BY <1>1, <1>3 DEF HsInv, HsTypes, runVars
<1>5. \A ctx : (Current(ctx)' <=> Current(ctx)) /\ (Fits(ctx)' <=> Fits(ctx))
  BY <1>1 DEF Current, Fits
<1>6. \A k \in HsContracts : hsDeploying'[k] = IF k = c THEN d ELSE hsDeploying[k]
  BY <1>1 DEF HsInv, HsTypes
<1>7. \A k \in HsContracts : hsDeploying'[k] # NoDeploy =>
        Fits(hsDeploying'[k].context) /\ Current(hsDeploying'[k].context)
  BY <1>2, <1>3, <1>6 DEF HsInv, ContextsSound
<1>8. ContextsSound'
  BY <1>1, <1>7 DEF HsInv, ContextsSound, Fits, Current, Deployed
<1>9. QED
  BY <1>1, <1>4, <1>8, DeploymentKeeps

LEMMA DeployKeeps ==
  ASSUME HsInv, NEW c \in HsContracts, DeployContract(c) \/ DeployFails(c) PROVE HsInv'
<1>1. /\ hsRun = NoRun /\ UNCHANGED <<hsLlm, runVars>> /\ hsDeploying[c] # NoDeploy
      /\ hsDeploying' = [hsDeploying EXCEPT ![c] = NoDeploy]
      /\ UNCHANGED hsCtx \/ hsCtx' = [hsCtx EXCEPT ![c] = hsDeploying[c].context]
  BY DEF DeployContract, DeployFails
<1>2. /\ hsDeploying[c].context \in HsContexts
      /\ Fits(hsDeploying[c].context) /\ Current(hsDeploying[c].context)
  BY <1>1 DEF HsInv, HsTypes, ContextsSound
<1>3. HsTypes'
  BY <1>1, <1>2 DEF HsInv, HsTypes, runVars
<1>4. \A k \in HsContracts : hsCtx'[k] = hsCtx[k] \/ (k = c /\ hsCtx'[k] = hsDeploying[c].context)
  BY <1>1 DEF HsInv, HsTypes
<1>5. \A k \in HsContracts : hsCtx'[k] # NoContext => Fits(hsCtx'[k]) /\ Current(hsCtx'[k])
  BY <1>2, <1>4 DEF HsInv, ContextsSound, Deployed
<1>6. \A k \in HsContracts : hsDeploying'[k] # NoDeploy => hsDeploying'[k] = hsDeploying[k]
  BY <1>1 DEF HsInv, HsTypes
<1>7. ContextsSound'
  BY <1>1, <1>5, <1>6 DEF HsInv, ContextsSound, Fits, Current, Deployed
<1>8. QED
  BY <1>1, <1>3, <1>7, DeploymentKeeps

LEMMA SetLlmAdapterKeeps ==
  ASSUME HsInv, NEW adapter \in HsAdapters, SetLlmAdapter(adapter) PROVE HsInv'
<1>1. /\ hsRun = NoRun /\ hsLlm' = adapter /\ UNCHANGED runVars
      /\ hsCtx' = [c \in HsContracts |-> IF c \in Deployed THEN [Updated(adapter)[c] EXCEPT !.missed = FALSE]
                                         ELSE NoContext]
      /\ hsDeploying' = [c \in HsContracts |-> IF hsDeploying[c] = NoDeploy THEN NoDeploy
                                               ELSE [hsDeploying[c] EXCEPT !.context.missed = TRUE]]
  BY DEF SetLlmAdapter
<1>2. ASSUME NEW c \in HsContracts, c \in Deployed
      PROVE  /\ hsCtx'[c] \in HsContexts /\ hsCtx'[c].llm = adapter
             /\ hsCtx'[c].offset = hsCtx[c].offset /\ hsCtx'[c].pages = hsCtx[c].pages
  <2>1. hsCtx'[c] = [[hsCtx[c] EXCEPT !.llm = adapter] EXCEPT !.missed = FALSE]
    BY <1>1, <1>2 DEF Updated
  <2>2. hsCtx[c] \in HsContexts
    BY <1>2, DeployedContexts DEF HsInv
  <2>3. QED
    BY <2>1, <2>2 DEF HsContexts
<1>3. ASSUME NEW c \in HsContracts, hsDeploying[c] # NoDeploy
      PROVE  /\ hsDeploying'[c] \in [step : {"compiling"}, context : HsContexts]
             /\ hsDeploying'[c].context.missed
             /\ hsDeploying'[c].context.offset = hsDeploying[c].context.offset
             /\ hsDeploying'[c].context.pages = hsDeploying[c].context.pages
  <2>1. hsDeploying'[c] = [hsDeploying[c] EXCEPT !.context.missed = TRUE]
    BY <1>1, <1>3
  <2>2. hsDeploying[c] \in [step : {"compiling"}, context : HsContexts]
    BY <1>3 DEF HsInv, HsTypes
  <2> DEFINE old == hsDeploying[c].context
             new == [old EXCEPT !.missed = TRUE]
  <2>3. old \in HsContexts
    BY <2>2
  <2>4. new \in HsContexts /\ new.missed /\ new.offset = old.offset /\ new.pages = old.pages
    BY <2>3 DEF HsContexts
  <2>5. hsDeploying'[c] = [hsDeploying[c] EXCEPT !.context = new]
    BY <2>1
  <2> HIDE DEF new, old
  <2>6. /\ hsDeploying'[c] \in [step : {"compiling"}, context : HsContexts]
        /\ hsDeploying'[c].context = new
    BY <2>2, <2>4, <2>5
  <2>7. QED
    BY <2>4, <2>6 DEF old
<1>4. \A c \in HsContracts : /\ c \notin Deployed => hsCtx'[c] = NoContext
                             /\ hsDeploying[c] = NoDeploy => hsDeploying'[c] = NoDeploy
  BY <1>1
<1>5. HsTypes'
  <2>1. hsCtx' \in [HsContracts -> HsContexts \cup {NoContext}]
    BY <1>1, <1>2, <1>4
  <2>2. hsDeploying' \in [HsContracts -> [step : {"compiling"}, context : HsContexts] \cup {NoDeploy}]
    BY <1>1, <1>3, <1>4
  <2>3. QED
    BY <1>1, <2>1, <2>2 DEF HsInv, HsTypes, runVars
<1>6. ContextsSound'
  <2>1. \A c \in HsContracts : hsCtx'[c] # NoContext => Fits(hsCtx'[c]) /\ hsCtx'[c].llm = hsLlm'
    BY <1>1, <1>2, <1>4 DEF HsInv, ContextsSound, Fits
  <2>2. \A c \in HsContracts : hsDeploying'[c] # NoDeploy =>
          Fits(hsDeploying'[c].context) /\ hsDeploying'[c].context.missed
    <3> SUFFICES ASSUME NEW c \in HsContracts, hsDeploying'[c] # NoDeploy
                 PROVE  Fits(hsDeploying'[c].context) /\ hsDeploying'[c].context.missed
      OBVIOUS
    <3>1. hsDeploying[c] # NoDeploy
      BY <1>4
    <3>2. Fits(hsDeploying[c].context)
      BY <3>1 DEF HsInv, ContextsSound
    <3>3. QED
      BY <1>3, <3>1, <3>2 DEF Fits
  <2>3. QED
    BY <2>1, <2>2 DEF ContextsSound, Fits, Current, Deployed
<1>7. QED
  BY <1>1, <1>5, <1>6, DeploymentKeeps

\* The context of one contract changes, and neither its adapter nor what its transaction made.
LEMMA ContextKeeps ==
  ASSUME HsInv, NEW c \in Deployed, NEW ctx \in HsContexts, hsCtx' = [hsCtx EXCEPT ![c] = ctx],
         Fits(ctx), ctx.llm = hsCtx[c].llm, ctx.missed = hsCtx[c].missed,
         UNCHANGED <<hsLlm, hsDeploying>>, hsStorage' \in [HsKeys -> Nat],
         hsMade' \in [HsTxs -> [begun : BOOLEAN, events : Seq(HsDids), gas : Nat]]
  PROVE  /\ HsTypes' /\ ContextsSound' /\ Deployed' = Deployed /\ hsCtx'[c] = ctx
         /\ \A d \in HsContracts \ {c} : hsCtx'[d] = hsCtx[d]
<1>1. c \in HsContracts /\ hsCtx'[c] = ctx /\ \A d \in HsContracts \ {c} : hsCtx'[d] = hsCtx[d]
  BY DEF HsInv, HsTypes, Deployed
<1>2. HsTypes'
  BY DEF HsInv, HsTypes
<1>3. ctx # NoContext /\ Deployed' = Deployed
  BY <1>1, ContextIsThere DEF Deployed
<1>4. Current(ctx)
  BY DEF HsInv, ContextsSound, Current
<1>5. \A d \in Deployed : Fits(hsCtx'[d]) /\ Current(hsCtx'[d])
  BY <1>1, <1>4 DEF HsInv, ContextsSound, Deployed
<1>6. ContextsSound'
  BY <1>3, <1>5 DEF HsInv, ContextsSound, Fits, Current
<1>7. QED
  BY <1>1, <1>2, <1>3, <1>6

\* A host call of the transaction that runs, which makes nothing.
LEMMA CallKeeps ==
  ASSUME HsInv, hsRun # NoRun, HsRunIs(hsRun'), hsRun'.tx = hsRun.tx, hsRun'.contract = hsRun.contract,
         NEW ctx \in HsContexts, hsCtx' = [hsCtx EXCEPT ![hsRun.contract] = ctx],
         Fits(ctx), ctx.llm = Running.llm, ctx.missed = Running.missed,
         ctx.events = Running.events, ctx.gasUsed = Running.gasUsed,
         UNCHANGED <<hsLlm, hsDeploying, hsHashing, hsReceipts, hsMade>>, hsStorage' \in [HsKeys -> Nat]
  PROVE  HsInv'
<1>1. hsRun.contract \in Deployed /\ hsMade \in [HsTxs -> [begun : BOOLEAN, events : Seq(HsDids), gas : Nat]]
  BY DEF HsInv, RunSound, HsRunIs, HsTypes
<1>2. /\ HsTypes' /\ ContextsSound' /\ Deployed' = Deployed /\ hsCtx'[hsRun.contract] = ctx
  BY <1>1, ContextKeeps DEF Running
<1>3. Running' = ctx
  BY <1>2 DEF Running
<1>4. Taken' = Taken
  BY DEF Taken
<1>5. RunSound'
  BY <1>2, <1>3, <1>4 DEF HsInv, RunSound, HsRunIs, InLimit
<1>6. TakenSound' /\ NotBegun'
  BY <1>4 DEF HsInv, TakenSound, NotBegun, InLimit
<1>7. QED
  BY <1>2, <1>5, <1>6 DEF HsInv

\* The run goes on with an answer.
LEMMA AnswersGoesOn ==
  ASSUME HsInv, NEW value, Answers(value)
  PROVE  /\ hsRun # NoRun /\ HsRunIs(hsRun') /\ hsRun'.tx = hsRun.tx
         /\ hsRun'.contract = hsRun.contract /\ Running \in HsContexts /\ Fits(Running)
         /\ hsRun.contract \in Deployed /\ hsCtx = [hsCtx EXCEPT ![hsRun.contract] = Running]
<1>1. hsRun # NoRun /\ hsRun' = [hsRun EXCEPT !.returned = value]
  BY DEF Answers
<1>2. HsRunIs(hsRun)
  BY <1>1 DEF HsInv, RunSound
<1>3. HsRunIs(hsRun') /\ hsRun'.tx = hsRun.tx /\ hsRun'.contract = hsRun.contract
  BY <1>1, <1>2 DEF HsRunIs
<1>4. Running \in HsContexts /\ Fits(Running)
  BY <1>2, DeployedContexts DEF HsRunIs, Running, HsInv, ContextsSound, Deployed
<1>5. hsCtx = [hsCtx EXCEPT ![hsRun.contract] = Running]
  BY DEF Running, HsInv, HsTypes
<1>6. QED
  BY <1>1, <1>2, <1>3, <1>4, <1>5 DEF HsRunIs

LEMMA QuietCallsKeep ==
  ASSUME HsInv, NEW value, Answers(value), UNCHANGED <<otherVars, hsCtx, hsMade>>,
         hsStorage' \in [HsKeys -> Nat]
  PROVE  HsInv'
<1> DEFINE ctx == Running
<1>1. /\ hsRun # NoRun /\ HsRunIs(hsRun') /\ hsRun'.tx = hsRun.tx
      /\ hsRun'.contract = hsRun.contract /\ ctx \in HsContexts /\ Fits(ctx)
      /\ hsCtx = [hsCtx EXCEPT ![hsRun.contract] = ctx]
  BY AnswersGoesOn
<1>2. hsCtx' = [hsCtx EXCEPT ![hsRun.contract] = ctx] /\ UNCHANGED <<hsLlm, hsDeploying, hsHashing, hsReceipts, hsMade>>
  BY <1>1 DEF otherVars
<1>3. /\ ctx.llm = Running.llm /\ ctx.missed = Running.missed
      /\ ctx.events = Running.events /\ ctx.gasUsed = Running.gasUsed
  OBVIOUS
<1> HIDE DEF ctx
<1>4. QED
  BY <1>1, <1>2, <1>3, CallKeeps

LEMMA StorageReadKeeps ==
  ASSUME HsInv, NEW k \in HsKeys, NEW max, NEW missing, StorageRead(k, max, missing) PROVE HsInv'
<1>1. hsStorage' \in [HsKeys -> Nat]
  BY DEF StorageRead, HsInv, HsTypes
<1> DEFINE v == IF hsStorage[k] = 0 THEN missing ELSE HsMin(hsStorage[k], max)
<1>2. Answers(v) /\ UNCHANGED <<otherVars, hsCtx, hsMade>>
  BY DEF StorageRead
<1> HIDE DEF v
<1>3. QED
  BY <1>1, <1>2, QuietCallsKeep

LEMMA StorageWriteKeeps ==
  ASSUME HsInv, NEW k \in HsKeys, NEW length \in Nat, StorageWrite(k, length) PROVE HsInv'
<1>1. hsStorage' \in [HsKeys -> Nat]
  BY DEF StorageWrite, HsInv, HsTypes
<1>2. Answers(length) /\ UNCHANGED <<otherVars, hsCtx, hsMade>>
  BY DEF StorageWrite
<1>3. QED
  BY <1>1, <1>2, QuietCallsKeep

LEMMA NftOwnerOfKeeps ==
  ASSUME HsInv, NEW token, NEW max, NftOwnerOf(token, max) PROVE HsInv'
<1> DEFINE v == IF token \in DOMAIN Running.nft THEN HsMin(1, max) ELSE -1
<1>1. Answers(v) /\ UNCHANGED <<otherVars, hsCtx, hsMade>> /\ UNCHANGED hsStorage
  BY DEF NftOwnerOf
<1>2. hsStorage' \in [HsKeys -> Nat]
  BY <1>1 DEF HsInv, HsTypes
<1> HIDE DEF v
<1>3. QED
  BY <1>1, <1>2, QuietCallsKeep

LEMMA LlmInferenceKeeps ==
  ASSUME HsInv, NEW answer, NEW max, LlmInference(answer, max) PROVE HsInv'
<1> DEFINE v == CASE Running.llm \notin HsReady -> -1
                  [] Running.llm \in HsReady /\ answer = 0 -> -2
                  [] OTHER -> HsMin(answer, max)
<1>1. Answers(v) /\ UNCHANGED <<otherVars, hsCtx, hsMade>> /\ UNCHANGED hsStorage
  BY DEF LlmInference
<1>2. hsStorage' \in [HsKeys -> Nat]
  BY <1>1 DEF HsInv, HsTypes
<1> HIDE DEF v
<1>3. QED
  BY <1>1, <1>2, QuietCallsKeep

LEMMA ContractCallKeeps == ASSUME HsInv, ContractCall PROVE HsInv'
<1>1. hsStorage' \in [HsKeys -> Nat]
  BY DEF ContractCall, HsInv, HsTypes
<1>2. Answers(-2) /\ UNCHANGED <<otherVars, hsCtx, hsMade>>
  BY DEF ContractCall
<1>3. QED
  BY <1>1, <1>2, QuietCallsKeep

\* The tokens of the running contract are another sequence of owners.
LEMMA NftKeeps ==
  ASSUME HsInv, NEW value, Answers(value), NEW owners \in Seq(HsDids),
         hsCtx' = [hsCtx EXCEPT ![hsRun.contract].nft = owners],
         UNCHANGED <<otherVars, hsStorage, hsMade>>
  PROVE  HsInv'
<1> DEFINE ctx == [Running EXCEPT !.nft = owners]
<1>1. /\ hsRun # NoRun /\ HsRunIs(hsRun') /\ hsRun'.tx = hsRun.tx
      /\ hsRun'.contract = hsRun.contract /\ Running \in HsContexts /\ Fits(Running)
  BY AnswersGoesOn
<1>2. hsCtx' = [hsCtx EXCEPT ![hsRun.contract] = ctx] /\ UNCHANGED <<hsLlm, hsDeploying, hsHashing, hsReceipts, hsMade>>
  BY DEF Running, otherVars
<1>3. /\ ctx \in HsContexts /\ ctx.llm = Running.llm /\ ctx.missed = Running.missed
      /\ ctx.events = Running.events /\ ctx.gasUsed = Running.gasUsed
      /\ ctx.offset = Running.offset /\ ctx.pages = Running.pages
  BY <1>1 DEF HsContexts
<1> HIDE DEF ctx
<1>4. Fits(ctx) /\ hsStorage' \in [HsKeys -> Nat]
  BY <1>1, <1>3 DEF Fits, HsInv, HsTypes
<1>5. QED
  BY <1>1, <1>2, <1>3, <1>4, CallKeeps

LEMMA NftMintKeeps == ASSUME HsInv, NEW owner \in HsDids, NftMint(owner) PROVE HsInv'
<1> DEFINE v == Len(Running.nft) + 1
           owners == Append(Running.nft, owner)
<1>1. Answers(v) /\ UNCHANGED <<otherVars, hsStorage, hsMade>>
      /\ hsCtx' = [hsCtx EXCEPT ![hsRun.contract].nft = owners]
  BY DEF NftMint, Running
<1> HIDE DEF v
<1>2. Running \in HsContexts
  BY <1>1, AnswersGoesOn
<1>3. owners \in Seq(HsDids)
  BY <1>2 DEF HsContexts
<1> HIDE DEF owners
<1>4. QED
  BY <1>1, <1>3, NftKeeps

LEMMA NftTransferKeeps ==
  ASSUME HsInv, NEW token, NEW to \in HsDids, NftTransfer(token, to) PROVE HsInv'
<1> DEFINE v == IF token \in DOMAIN Running.nft THEN 1 ELSE 0
           nft == Running.nft
           owners == [i \in DOMAIN nft |-> IF i = token THEN to ELSE nft[i]]
<1>1. Answers(v) /\ UNCHANGED <<otherVars, hsStorage, hsMade>>
      /\ hsCtx' = [hsCtx EXCEPT ![hsRun.contract].nft = owners]
  BY DEF NftTransfer, Running
<1> HIDE DEF v
<1>2. nft \in Seq(HsDids)
  BY <1>1, AnswersGoesOn DEF HsContexts
<1> HIDE DEF nft
<1>3. owners \in Seq(HsDids)
  BY <1>2
<1> HIDE DEF owners
<1>4. QED
  BY <1>1, <1>3, NftKeeps

\* What the run is made of, for the steps that are not a host call with an answer.
LEMMA RunIsSound ==
  ASSUME HsInv, hsRun # NoRun
  PROVE  /\ HsRunIs(hsRun) /\ Running \in HsContexts /\ Fits(Running)
         /\ hsRun.contract \in Deployed /\ hsRun.contract \in HsContracts
         /\ hsRun.tx \in HsTxs /\ hsMade[hsRun.tx].begun
         /\ Running.events = hsMade[hsRun.tx].events /\ Running.gasUsed = hsMade[hsRun.tx].gas
         /\ InLimit(Running.gasUsed) /\ \A r \in Taken : r.tx # hsRun.tx
<1>1. HsRunIs(hsRun)
  BY DEF HsInv, RunSound
<1>2. Running \in HsContexts /\ Fits(Running)
  BY <1>1, DeployedContexts DEF HsRunIs, Running, HsInv, ContextsSound, Deployed
<1>3. QED
  BY <1>1, <1>2 DEF HsInv, RunSound, HsRunIs, Deployed

LEMMA MemoryGrowKeeps == ASSUME HsInv, MemoryGrow PROVE HsInv'
<1> DEFINE ctx == [Running EXCEPT !.pages = @ + 1]
<1>1. /\ hsRun # NoRun /\ Running.pages < HsMaxPages
      /\ hsCtx' = [hsCtx EXCEPT ![hsRun.contract] = ctx]
      /\ UNCHANGED <<hsLlm, hsDeploying, hsHashing, hsReceipts, hsMade>> /\ UNCHANGED <<hsRun, hsStorage>>
  BY DEF MemoryGrow, Running, otherVars
<1>2. HsRunIs(hsRun) /\ Running \in HsContexts /\ Fits(Running)
  BY <1>1, RunIsSound
<1>3. /\ ctx \in HsContexts /\ ctx.llm = Running.llm /\ ctx.missed = Running.missed
      /\ ctx.events = Running.events /\ ctx.gasUsed = Running.gasUsed
      /\ ctx.offset = Running.offset /\ ctx.pages = Running.pages + 1
  BY <1>1, <1>2, HostAssumption DEF HsContexts
<1> HIDE DEF ctx
<1>4. Fits(ctx)
  <2> DEFINE p == Running.pages
             o == Running.offset
  <2>1. p \in Nat /\ o \in Nat /\ HsPage \in Nat /\ o <= p * HsPage
    BY <1>2, HostAssumption DEF HsContexts, Fits
  <2>2. ctx.offset = o /\ ctx.pages = p + 1
    BY <1>3
  <2> HIDE DEF p, o
  <2>3. (p + 1) * HsPage = p * HsPage + HsPage /\ p * HsPage \in Nat
    BY <2>1
  <2>4. QED
    BY <2>1, <2>2, <2>3 DEF Fits
<1>5. hsStorage' \in [HsKeys -> Nat] /\ HsRunIs(hsRun')
  BY <1>1, <1>2 DEF HsInv, HsTypes
<1>6. QED
  BY <1>1, <1>2, <1>3, <1>4, <1>5, CallKeeps

\* The transaction that runs makes more, and no other does.
LEMMA MakingKeeps ==
  ASSUME HsInv, hsRun # NoRun, NEW ctx \in HsContexts,
         hsCtx' = [hsCtx EXCEPT ![hsRun.contract] = ctx],
         Fits(ctx), ctx.llm = Running.llm, ctx.missed = Running.missed,
         UNCHANGED <<otherVars, hsStorage>>, hsRun' = hsRun \/ hsRun' = NoRun,
         NEW made \in [begun : BOOLEAN, events : Seq(HsDids), gas : Nat],
         hsMade' = [hsMade EXCEPT ![hsRun.tx] = made],
         made.begun, made.events = ctx.events, made.gas = ctx.gasUsed,
         hsRun' # NoRun => InLimit(ctx.gasUsed)
  PROVE  HsInv'
<1> DEFINE t == hsRun.tx
           c == hsRun.contract
<1>1. /\ HsRunIs(hsRun) /\ c \in Deployed /\ t \in HsTxs /\ \A r \in Taken : r.tx # t
  BY RunIsSound
<1>2. hsMade \in [HsTxs -> [begun : BOOLEAN, events : Seq(HsDids), gas : Nat]]
  BY DEF HsInv, HsTypes
<1>3. hsMade' \in [HsTxs -> [begun : BOOLEAN, events : Seq(HsDids), gas : Nat]]
  BY <1>2
<1>4. /\ hsMade'[t] = made
      /\ \A s \in HsTxs \ {t} : hsMade'[s] = hsMade[s]
  BY <1>1, <1>2
<1>5. UNCHANGED <<hsLlm, hsDeploying, hsHashing, hsReceipts>> /\ hsStorage' \in [HsKeys -> Nat]
  BY DEF otherVars, HsInv, HsTypes
<1>6. HsTypes' /\ ContextsSound' /\ Deployed' = Deployed /\ hsCtx'[c] = ctx
  BY <1>1, <1>3, <1>5, ContextKeeps DEF Running
<1>7. Taken' = Taken
  BY <1>5 DEF Taken
<1>8. RunSound'
  <2> SUFFICES ASSUME hsRun' # NoRun PROVE (RunSound')
    BY DEF RunSound
  <2>1. hsRun' = hsRun /\ InLimit(ctx.gasUsed)
    OBVIOUS
  <2>2. Running' = ctx
    BY <1>6, <2>1 DEF Running
  <2>3. QED
    BY <1>1, <1>4, <1>6, <1>7, <2>1, <2>2 DEF RunSound, HsRunIs, InLimit
<1>9. TakenSound'
  <2> SUFFICES ASSUME NEW r \in Taken
               PROVE  /\ r.tx \in HsTxs /\ hsMade'[r.tx].begun
                      /\ r.events = hsMade'[r.tx].events /\ r.gas = hsMade'[r.tx].gas
                      /\ InLimit(r.gas)
    BY <1>7 DEF TakenSound, InLimit
  <2>1. r.tx \in HsTxs \ {t}
    BY <1>1 DEF HsInv, TakenSound
  <2>2. hsMade'[r.tx] = hsMade[r.tx]
    BY <1>4, <2>1
  <2>3. QED
    BY <2>1, <2>2 DEF HsInv, TakenSound
<1>10. NotBegun'
  <2>1. \A s \in HsTxs : ~hsMade'[s].begun => hsMade'[s] = hsMade[s]
    BY <1>4
  <2>2. QED
    BY <2>1 DEF HsInv, NotBegun
<1>11. QED
  BY <1>6, <1>8, <1>9, <1>10 DEF HsInv

LEMMA EmitEventKeeps == ASSUME HsInv, NEW e \in HsDids, EmitEvent(e) PROVE HsInv'
<1> DEFINE ctx == [Running EXCEPT !.events = Append(@, e)]
<1>1. /\ hsRun # NoRun /\ hsRun' = hsRun /\ UNCHANGED <<otherVars, hsStorage>>
      /\ hsCtx' = [hsCtx EXCEPT ![hsRun.contract] = ctx]
      /\ hsMade' = [hsMade EXCEPT ![hsRun.tx].events = Append(@, e)]
  BY DEF EmitEvent, Running
<1>2. /\ Running \in HsContexts /\ Fits(Running) /\ InLimit(Running.gasUsed) /\ hsRun.tx \in HsTxs
      /\ hsMade[hsRun.tx].begun
      /\ Running.events = hsMade[hsRun.tx].events /\ Running.gasUsed = hsMade[hsRun.tx].gas
  BY <1>1, RunIsSound
<1>3. /\ ctx \in HsContexts /\ ctx.llm = Running.llm /\ ctx.missed = Running.missed
      /\ ctx.events = Append(Running.events, e) /\ ctx.gasUsed = Running.gasUsed
      /\ ctx.offset = Running.offset /\ ctx.pages = Running.pages
  <2> DEFINE events == Append(Running.events, e)
  <2>1. events \in Seq(HsDids)
    BY <1>2 DEF HsContexts
  <2>2. ctx = [Running EXCEPT !.events = events]
    OBVIOUS
  <2> HIDE DEF events, ctx
  <2>3. /\ ctx \in HsContexts /\ ctx.llm = Running.llm /\ ctx.missed = Running.missed
        /\ ctx.events = events /\ ctx.gasUsed = Running.gasUsed
        /\ ctx.offset = Running.offset /\ ctx.pages = Running.pages
    BY <1>2, <2>1, <2>2 DEF HsContexts
  <2>4. QED
    BY <2>3 DEF events
<1> HIDE DEF ctx
<1>4. hsMade[hsRun.tx] \in [begun : BOOLEAN, events : Seq(HsDids), gas : Nat]
  BY <1>2 DEF HsInv, HsTypes
<1> DEFINE made == [hsMade[hsRun.tx] EXCEPT !.events = Append(@, e)]
<1>5. hsMade' = [hsMade EXCEPT ![hsRun.tx] = made]
  BY <1>1
<1>6. /\ made \in [begun : BOOLEAN, events : Seq(HsDids), gas : Nat] /\ made.begun
      /\ made.events = ctx.events /\ made.gas = ctx.gasUsed
  <2> DEFINE events == Append(hsMade[hsRun.tx].events, e)
  <2>1. events = ctx.events /\ events \in Seq(HsDids)
    BY <1>2, <1>3 DEF HsContexts
  <2>2. made = [hsMade[hsRun.tx] EXCEPT !.events = events]
    OBVIOUS
  <2> HIDE DEF made, events
  <2>3. QED
    BY <1>2, <1>3, <1>4, <2>1, <2>2
<1> HIDE DEF made
<1>7. Fits(ctx) /\ InLimit(ctx.gasUsed)
  BY <1>2, <1>3 DEF Fits
<1>8. QED
  BY <1>1, <1>3, <1>5, <1>6, <1>7, MakingKeeps

LEMMA UseGasKeeps == ASSUME HsInv, NEW amount \in Nat, UseGas(amount) PROVE HsInv'
<1> DEFINE ctx == [Running EXCEPT !.gasUsed = @ + amount]
<1>1. /\ hsRun # NoRun /\ UNCHANGED <<otherVars, hsStorage>>
      /\ hsCtx' = [hsCtx EXCEPT ![hsRun.contract] = ctx]
      /\ hsMade' = [hsMade EXCEPT ![hsRun.tx].gas = @ + amount]
      /\ hsRun' = IF HsGasLimit > 0 /\ Running.gasUsed + amount > HsGasLimit THEN NoRun ELSE hsRun
  BY DEF UseGas, Running
<1>2. /\ Running \in HsContexts /\ Fits(Running) /\ hsRun.tx \in HsTxs
      /\ hsMade[hsRun.tx].begun
      /\ Running.events = hsMade[hsRun.tx].events /\ Running.gasUsed = hsMade[hsRun.tx].gas
  BY <1>1, RunIsSound
<1>3. /\ ctx \in HsContexts /\ ctx.llm = Running.llm /\ ctx.missed = Running.missed
      /\ ctx.events = Running.events /\ ctx.gasUsed = Running.gasUsed + amount
      /\ ctx.offset = Running.offset /\ ctx.pages = Running.pages
  BY <1>2 DEF HsContexts
<1> HIDE DEF ctx
<1>4. hsMade[hsRun.tx] \in [begun : BOOLEAN, events : Seq(HsDids), gas : Nat]
  BY <1>2 DEF HsInv, HsTypes
<1> DEFINE made == [hsMade[hsRun.tx] EXCEPT !.gas = @ + amount]
<1>5. hsMade' = [hsMade EXCEPT ![hsRun.tx] = made]
  BY <1>1
<1>6. /\ made \in [begun : BOOLEAN, events : Seq(HsDids), gas : Nat] /\ made.begun
      /\ made.events = ctx.events /\ made.gas = ctx.gasUsed
  BY <1>2, <1>3, <1>4
<1> HIDE DEF made
<1>7. Fits(ctx)
  BY <1>2, <1>3 DEF Fits
<1>8. hsRun' # NoRun => InLimit(ctx.gasUsed)
  <2>1. Running.gasUsed + amount \in Nat /\ HsGasLimit \in Nat
    BY <1>2, HostAssumption DEF HsContexts
  <2>2. QED
    BY <1>1, <1>3, <2>1 DEF InLimit
<1>9. hsRun' = hsRun \/ hsRun' = NoRun
  BY <1>1
<1>10. QED
  BY <1>1, <1>3, <1>5, <1>6, <1>7, <1>8, <1>9, MakingKeeps

LEMMA ExecuteKeeps ==
  ASSUME HsInv, NEW t \in HsTxs, NEW c \in HsContracts, NEW did \in HsDids, NEW size \in Nat,
         Execute(t, c, did, size)
  PROVE  HsInv'
<1> DEFINE pre == Prepared(hsCtx[c], did)
           fits == CanAlloc(pre, size)
           ctx == IF fits THEN Alloc(pre, size) ELSE pre
<1>1. /\ hsRun = NoRun /\ ~hsMade[t].begun /\ c \in Deployed
      /\ hsMade' = [hsMade EXCEPT ![t].begun = TRUE]
      /\ hsCtx' = [hsCtx EXCEPT ![c] = ctx]
      /\ hsRun' = NoRun \/ hsRun' = [tx |-> t, contract |-> c, returned |-> 0]
      /\ UNCHANGED <<hsLlm, hsDeploying, hsStorage, hsHashing, hsReceipts>>
  BY DEF Execute
<1>2. hsCtx[c] \in HsContexts /\ Fits(hsCtx[c])
  BY <1>1, DeployedContexts DEF HsInv, ContextsSound
<1>3. /\ pre \in HsContexts /\ pre.events = <<>> /\ pre.gasUsed = 0
      /\ pre.llm = hsCtx[c].llm /\ pre.missed = hsCtx[c].missed
      /\ pre.offset = hsCtx[c].offset /\ pre.pages = hsCtx[c].pages
  <2>1. <<>> \in Seq(HsDids) /\ 0 \in Nat /\ did \in HsDids \cup {"anonymous"}
    OBVIOUS
  <2>2. pre = [hsCtx[c] EXCEPT !.caller = did, !.events = <<>>, !.gasUsed = 0]
    BY DEF Prepared
  <2> HIDE DEF pre
  <2>3. QED
    BY <1>2, <2>1, <2>2 DEF HsContexts
<1> HIDE DEF pre
<1>4. Fits(pre)
  BY <1>2, <1>3 DEF Fits
<1>5. /\ ctx \in HsContexts /\ Fits(ctx) /\ ctx.events = <<>> /\ ctx.gasUsed = 0
      /\ ctx.llm = hsCtx[c].llm /\ ctx.missed = hsCtx[c].missed
  <2>1. CASE fits
    BY <1>3, <1>4, <2>1, AllocFits
  <2>2. CASE ~fits
    BY <1>3, <1>4, <2>2
  <2>3. QED
    BY <2>1, <2>2
<1> HIDE DEF fits, ctx
<1>6. hsMade \in [HsTxs -> [begun : BOOLEAN, events : Seq(HsDids), gas : Nat]]
  BY DEF HsInv, HsTypes
<1>7. /\ hsMade' \in [HsTxs -> [begun : BOOLEAN, events : Seq(HsDids), gas : Nat]]
      /\ \A s \in HsTxs : /\ hsMade'[s].events = hsMade[s].events /\ hsMade'[s].gas = hsMade[s].gas
                          /\ hsMade[s].begun => hsMade'[s].begun
                          /\ ~hsMade'[s].begun => ~hsMade[s].begun
      /\ hsMade'[t].begun
  BY <1>1, <1>6
<1>8. hsStorage' \in [HsKeys -> Nat]
  BY <1>1 DEF HsInv, HsTypes
<1>9. HsTypes' /\ ContextsSound' /\ Deployed' = Deployed /\ hsCtx'[c] = ctx
  BY <1>1, <1>5, <1>7, <1>8, ContextKeeps
<1>10. Taken' = Taken
  BY <1>1 DEF Taken
<1>11. RunSound'
  <2> SUFFICES ASSUME hsRun' # NoRun PROVE (RunSound')
    BY DEF RunSound
  <2>1. /\ hsRun' = [tx |-> t, contract |-> c, returned |-> 0]
        /\ hsRun'.tx = t /\ hsRun'.contract = c
    BY <1>1
  <2>2. Running' = ctx
    BY <1>9, <2>1 DEF Running
  <2>3. hsMade'[t].events = <<>> /\ hsMade'[t].gas = 0
    BY <1>1, <1>7 DEF HsInv, NotBegun
  <2>4. \A r \in Taken : r.tx # t
    BY <1>1 DEF HsInv, TakenSound
  <2>5. InLimit(0)
    BY HostAssumption DEF InLimit
  <2>6. hsRun' = [f \in {"tx", "contract", "returned"} |-> hsRun'[f]]
    BY <2>1
  <2>7. QED
    BY <1>1, <1>5, <1>7, <1>9, <1>10, <2>1, <2>2, <2>3, <2>4, <2>5, <2>6 DEF RunSound, HsRunIs, InLimit
<1>12. TakenSound'
  BY <1>7, <1>10 DEF HsInv, TakenSound, InLimit
<1>13. NotBegun'
  BY <1>7 DEF HsInv, NotBegun
<1>14. QED
  BY <1>9, <1>11, <1>12, <1>13 DEF HsInv

LEMMA ReturnKeeps == ASSUME HsInv, NEW status \in Nat, Return(status) PROVE HsInv'
<1> DEFINE t == hsRun.tx
           c == hsRun.contract
           ctx == IF status > 0 THEN Alloc(Running, status) ELSE Running
           new == [tx |-> t, contract |-> c, status |-> status, events |-> ctx.events, gas |-> ctx.gasUsed]
<1>1. /\ hsRun # NoRun /\ hsRun' = NoRun /\ (status > 0 => CanAlloc(Running, status))
      /\ hsCtx' = [hsCtx EXCEPT ![c] = ctx] /\ hsHashing' = hsHashing \cup {new}
      /\ UNCHANGED <<hsLlm, hsDeploying, hsStorage, hsReceipts, hsMade>>
  BY DEF Return
<1>2. /\ Running \in HsContexts /\ Fits(Running) /\ c \in Deployed /\ t \in HsTxs /\ hsMade[t].begun
      /\ Running.events = hsMade[t].events /\ Running.gasUsed = hsMade[t].gas
      /\ InLimit(Running.gasUsed)
  BY <1>1, RunIsSound
<1>3. /\ ctx \in HsContexts /\ Fits(ctx) /\ ctx.events = Running.events /\ ctx.gasUsed = Running.gasUsed
      /\ ctx.llm = Running.llm /\ ctx.missed = Running.missed
  <2>1. CASE status > 0
    BY <1>1, <1>2, <2>1, AllocFits
  <2>2. CASE ~(status > 0)
    BY <1>2, <2>2
  <2>3. QED
    BY <2>1, <2>2
<1>4. new.tx = t /\ new.events = hsMade[t].events /\ new.gas = hsMade[t].gas
  BY <1>2, <1>3
<1> HIDE DEF ctx, new
<1>5. /\ hsStorage' \in [HsKeys -> Nat]
      /\ hsMade' \in [HsTxs -> [begun : BOOLEAN, events : Seq(HsDids), gas : Nat]]
  BY <1>1 DEF HsInv, HsTypes
<1>6. HsTypes' /\ ContextsSound'
  BY <1>1, <1>2, <1>3, <1>5, ContextKeeps DEF Running
<1>7. Taken' = Taken \cup {new}
  BY <1>1 DEF Taken
<1>8. TakenSound'
  <2> SUFFICES ASSUME NEW r \in Taken \cup {new}
               PROVE  /\ r.tx \in HsTxs /\ hsMade[r.tx].begun
                      /\ r.events = hsMade[r.tx].events /\ r.gas = hsMade[r.tx].gas
                      /\ InLimit(r.gas)
    BY <1>1, <1>7 DEF TakenSound, InLimit
  <2>1. CASE r \in Taken
    BY <2>1 DEF HsInv, TakenSound
  <2>2. CASE r = new
    BY <1>2, <1>4, <2>2
  <2>3. QED
    BY <2>1, <2>2
<1>9. NotBegun'
  BY <1>1 DEF HsInv, NotBegun
<1>10. RunSound'
  BY <1>1 DEF RunSound, NoRun
<1>11. QED
  BY <1>6, <1>8, <1>9, <1>10 DEF HsInv

LEMMA HsTrapKeeps == ASSUME HsInv, HsTrap PROVE HsInv'
<1>1. hsRun' = NoRun /\ UNCHANGED <<hsLlm, hsDeploying, hsHashing, hsReceipts, hsCtx, hsStorage, hsMade>>
  BY DEF HsTrap, otherVars
<1>2. HsTypes' /\ ContextsSound'
  BY <1>1 DEF HsInv, HsTypes, ContextsSound, Fits, Current, Deployed
<1>3. TakenSound' /\ NotBegun'
  BY <1>1 DEF HsInv, TakenSound, NotBegun, Taken, InLimit
<1>4. RunSound'
  BY <1>1 DEF RunSound, NoRun
<1>5. QED
  BY <1>2, <1>3, <1>4 DEF HsInv

\* The receipt was taken before its digest was awaited: what is stored is what was taken.
LEMMA StoreReceiptKeeps == ASSUME HsInv, NEW r \in hsHashing, StoreReceipt(r) PROVE HsInv'
<1>1. /\ hsRun = NoRun /\ UNCHANGED <<hsLlm, hsDeploying, hsCtx, hsRun, hsStorage, hsMade>>
      /\ hsHashing' = hsHashing \ {r} /\ hsReceipts' = hsReceipts \cup {r}
  BY DEF StoreReceipt, Receipt
<1>2. Taken' = Taken
  BY <1>1 DEF Taken
<1>3. HsTypes' /\ ContextsSound'
  BY <1>1 DEF HsInv, HsTypes, ContextsSound, Fits, Current, Deployed
<1>4. TakenSound' /\ NotBegun'
  BY <1>1, <1>2 DEF HsInv, TakenSound, NotBegun, InLimit
<1>5. RunSound'
  BY <1>1 DEF RunSound, NoRun
<1>6. QED
  BY <1>3, <1>4, <1>5 DEF HsInv

-----------------------------------------------------------------------------

LEMMA HsInitHolds == HsInit => HsInv
<1> SUFFICES ASSUME HsInit PROVE HsInv
  OBVIOUS
<1>1. HsTypes
  BY HostAssumption DEF HsInit, HsTypes
<1>2. Deployed = {} /\ Taken = {} /\ \A c \in HsContracts : hsDeploying[c] = NoDeploy
  BY DEF HsInit, Deployed, Taken
<1>3. ContextsSound /\ RunSound /\ TakenSound
  BY <1>2 DEF ContextsSound, RunSound, TakenSound, HsInit
<1>4. NotBegun
  BY DEF NotBegun, HsInit
<1>5. QED
  BY <1>1, <1>3, <1>4 DEF HsInv

LEMMA HsStepHolds == HsInv /\ [HsNext]_hsVars => HsInv'
<1> SUFFICES ASSUME HsInv, [HsNext]_hsVars PROVE HsInv'
  OBVIOUS
<1>1. CASE UNCHANGED hsVars
  BY <1>1 DEF hsVars, HsInv, HsTypes, ContextsSound, RunSound, TakenSound, NotBegun, Taken, HsRunIs,
              Running, Deployed, Fits, Current, InLimit
<1>2. ASSUME NEW c \in HsContracts, CreateHost(c) \/ DeployContract(c) \/ DeployFails(c) PROVE HsInv'
  BY <1>2, CreateHostKeeps, DeployKeeps
<1>3. ASSUME NEW a \in HsAdapters, SetLlmAdapter(a) PROVE HsInv'
  BY <1>3, SetLlmAdapterKeeps
<1>4. ASSUME NEW t \in HsTxs, NEW c \in HsContracts, NEW d \in HsDids, NEW n \in 1 .. 2, Execute(t, c, d, n)
      PROVE  HsInv'
  BY <1>4, ExecuteKeeps
<1>5. ASSUME NEW k \in HsKeys, NEW n \in 0 .. 1, StorageRead(k, n, -1) \/ StorageRead(k, n, 0) PROVE HsInv'
  BY <1>5, StorageReadKeeps
<1>6. ASSUME NEW k \in HsKeys, StorageWrite(k, 1) PROVE HsInv'
  BY <1>6, StorageWriteKeeps
<1>7. ASSUME NEW d \in HsDids, EmitEvent(d) \/ NftMint(d) PROVE HsInv'
  BY <1>7, EmitEventKeeps, NftMintKeeps
<1>8. ASSUME NEW d \in HsDids, NEW i \in 1 .. HsMaxTokens, NftTransfer(i, d) PROVE HsInv'
  BY <1>8, NftTransferKeeps
<1>9. ASSUME NEW i \in 1 .. HsMaxTokens, NEW n \in 0 .. 1, NftOwnerOf(i, n) PROVE HsInv'
  BY <1>9, NftOwnerOfKeeps
<1>10. ASSUME NEW n \in 1 .. 2, UseGas(n) PROVE HsInv'
  BY <1>10, UseGasKeeps
<1>11. ASSUME NEW n \in 0 .. 2, LlmInference(n, 1) PROVE HsInv'
  BY <1>11, LlmInferenceKeeps
<1>12. ASSUME ContractCall \/ MemoryGrow \/ HsTrap PROVE HsInv'
  BY <1>12, ContractCallKeeps, MemoryGrowKeeps, HsTrapKeeps
<1>13. ASSUME NEW n \in 0 .. 1, Return(n) PROVE HsInv'
  BY <1>13, ReturnKeeps
<1>14. ASSUME NEW r \in hsHashing, StoreReceipt(r) PROVE HsInv'
  BY <1>14, StoreReceiptKeeps
<1>15. QED
  BY <1>1, <1>2, <1>3, <1>4, <1>5, <1>6, <1>7, <1>8, <1>9, <1>10, <1>11, <1>12, <1>13, <1>14 DEF HsNext

LEMMA HsInvImplies == HsInv => HsTypeOK /\ ReceiptsAreOwn /\ AdapterReachesContracts
<1> SUFFICES ASSUME HsInv PROVE HsTypeOK /\ ReceiptsAreOwn /\ AdapterReachesContracts
  OBVIOUS
<1>1. ASSUME NEW c \in HsContracts, hsCtx[c] # NoContext
      PROVE  /\ hsCtx[c].caller \in HsDids \cup {"anonymous"}
             /\ hsCtx[c].llm \in HsAdapters
             /\ hsCtx[c].nft \in Seq(HsDids)
             /\ hsCtx[c].pages \in 1 .. HsMaxPages
             /\ hsCtx[c].offset <= hsCtx[c].pages * HsPage
  <2>1. hsCtx[c] \in HsContexts /\ Fits(hsCtx[c])
    BY <1>1 DEF HsInv, HsTypes, ContextsSound, Deployed
  <2>2. QED
    BY <2>1 DEF HsContexts, Fits
<1>2. hsRun # NoRun => hsMade[hsRun.tx].begun /\ hsRun.contract \in Deployed
  BY RunIsSound
<1>3. \A r \in hsHashing \cup hsReceipts : r.gas \in Nat /\ (HsGasLimit > 0 => r.gas <= HsGasLimit)
  BY DEF HsInv, TakenSound, Taken, InLimit, HsTypes
<1>4. HsTypeOK
  BY <1>1, <1>2, <1>3 DEF HsTypeOK, HsInv, HsTypes
<1>5. ReceiptsAreOwn
  BY DEF ReceiptsAreOwn, HsInv, TakenSound, Taken
<1>6. AdapterReachesContracts
  BY DEF AdapterReachesContracts, HsInv, ContextsSound, Current
<1>7. QED
  BY <1>4, <1>5, <1>6

\* Contracts in the VM, whatever they do.
LEMMA HsInvHolds == HsSpec => []HsInv
<1>1. HsInit => HsInv
  BY HsInitHolds
<1>2. HsInv /\ [HsNext]_hsVars => HsInv'
  BY HsStepHolds
<1>3. QED
  BY <1>1, <1>2, PTL DEF HsSpec

\* Every reachable state has the types of HsTypeOK: no host buffer reaches past the end of a
\* contract's memory, and no receipt reports more gas than the limit (memory.ts, setGasLimit).
THEOREM HsTypeCorrect == HsSpec => []HsTypeOK
BY HsInvHolds, HsInvImplies, PTL

\* A receipt lists the events its own transaction emitted and the gas it used, although its digest
\* is awaited while other transactions use the same context (executeTransaction).
THEOREM ReceiptsOwn == HsSpec => []ReceiptsAreOwn
BY HsInvHolds, HsInvImplies, PTL

\* Every deployed contract asks the adapter that setLlmAdapter set last, unless its host was made
\* and not yet deployed at the time (deployContract, setLlmAdapter).
THEOREM AdapterSet == HsSpec => []AdapterReachesContracts
BY HsInvHolds, HsInvImplies, PTL

-----------------------------------------------------------------------------
(* Merkle trees and the light client (LightClient).                         *)
(*                                                                          *)
(* A tree, a proof and its verification are three loops: first each has its *)
(* turns (TurnsForever).  Levels shrink, so a tree has a height (HeightIs). *)
(* A proof climbs through the nodes above its leaf (ProofClimbs); as hashes *)
(* do not collide, it climbs to the root from no other leaf                 *)
(* (OneLeafVerifies), and nothing but a leaf is below a root                *)
(* (OnlyLeavesVerify).  Each induction is a least counterexample.           *)

LEMMA LeastNumber ==
  ASSUME NEW T, T \subseteq Nat, T # {}
  PROVE  \E n \in T : \A m \in T : n <= m
<1>1. PICK n \in T : \A m \in T : <<m, n>> \notin OpToRel(<, Nat)
  BY NatLessThanWellFounded, WFMin
<1>2. \A m \in T : ~ (m < n)
  BY <1>1 DEF OpToRel
<1>3. QED
  BY <1>2

\* One chunk more of what a call wants.
WantedOne(call, k, x) ==
  IF k > call.start /\ k \notin call.known THEN Append(x, call.state[k]) ELSE x

\* One turn of a loop: to the next level of a tree, to the place above, a step of a proof, half of
\* a search, a line of the log applied, an operation of a commit, a chunk of a snapshot, an entry
\* sorted in.
Turn(loop, list, k, x) ==
  CASE loop = "level" -> NextLevel(x)
    [] loop = "above" -> x \div 2
    [] loop = "climb" -> StepUp(x, list[k])
    [] loop = "search" -> Halve(list.pairs, list.key, x)
    [] loop = "apply" -> ApplyEntry(x, list[k])
    [] loop = "log" -> LogOp(x, list[k])
    [] loop = "want" -> WantedOne(list, k, x)
    [] loop = "sort" -> Inserted(x, list[k])

\* The values of a loop up to turn n, and of one that goes on.
TurnsTo(loop, proof, start, n, g) ==
  g = [k \in 0 .. n |-> IF k = 0 THEN start ELSE Turn(loop, proof, k, g[k - 1])]

LEMMA TurnsExist ==
  ASSUME NEW loop, NEW proof, NEW start
  PROVE  \A n \in Nat : \E g : TurnsTo(loop, proof, start, n, g)
<1> DEFINE T == {n \in Nat : ~ \E g : TurnsTo(loop, proof, start, n, g)}
<1>1. SUFFICES ASSUME T # {} PROVE FALSE
  OBVIOUS
<1>2. PICK n \in T : \A m \in T : n <= m
  <2>1. T \subseteq Nat
    OBVIOUS
  <2> HIDE DEF T
  <2>2. QED
    BY <1>1, <2>1, LeastNumber
<1>3. n \in Nat /\ ~ \E g : TurnsTo(loop, proof, start, n, g)
  OBVIOUS
<1>4. CASE n = 0
  <2> DEFINE g == [k \in 0 .. 0 |-> start]
  <2>1. g = [k \in 0 .. 0 |-> IF k = 0 THEN start ELSE Turn(loop, proof, k, g[k - 1])]
    OBVIOUS
  <2>2. QED
    BY <1>3, <1>4, <2>1 DEF TurnsTo
<1>5. CASE n # 0
  <2>1. n - 1 \in Nat /\ n - 1 \notin T
    BY <1>2, <1>3, <1>5
  <2>2. PICK h : TurnsTo(loop, proof, start, n - 1, h)
    BY <2>1
  <2> DEFINE g == [k \in 0 .. n |-> IF k < n THEN h[k] ELSE Turn(loop, proof, n, h[n - 1])]
  <2> HIDE DEF T
  <2>3. ASSUME NEW k \in 0 .. n
        PROVE  g[k] = IF k = 0 THEN start ELSE Turn(loop, proof, k, g[k - 1])
    <3>1. CASE k = n
      <4>1. g[k] = Turn(loop, proof, n, h[n - 1]) /\ g[n - 1] = h[n - 1]
        BY <1>3, <1>5, <3>1
      <4>2. QED
        BY <1>5, <3>1, <4>1
    <3>2. CASE k # n
      <4>1. k \in 0 .. (n - 1) /\ g[k] = h[k] /\ (k # 0 => g[k - 1] = h[k - 1])
        BY <1>3, <1>5, <3>2
      <4>2. h[k] = IF k = 0 THEN start ELSE Turn(loop, proof, k, h[k - 1])
        BY <2>2, <4>1 DEF TurnsTo
      <4>3. QED
        BY <4>1, <4>2
    <3>3. QED
      BY <3>1, <3>2
  <2>4. g = [k \in 0 .. n |-> g[k]]
    OBVIOUS
  <2> HIDE DEF g
  <2>5. TurnsTo(loop, proof, start, n, g)
    BY <2>3, <2>4 DEF TurnsTo
  <2>6. QED
    BY <1>3, <2>5
<1>6. QED
  BY <1>4, <1>5

LEMMA TurnsAgree ==
  ASSUME NEW loop, NEW proof, NEW start, NEW m \in Nat, NEW n \in Nat, NEW g, NEW h,
         TurnsTo(loop, proof, start, m, g), TurnsTo(loop, proof, start, n, h)
  PROVE  \A k \in Nat : k <= m /\ k <= n => g[k] = h[k]
<1> DEFINE T == {k \in Nat : k <= m /\ k <= n /\ g[k] # h[k]}
<1>1. SUFFICES ASSUME T # {} PROVE FALSE
  OBVIOUS
<1>2. PICK k \in T : \A j \in T : k <= j
  <2>1. T \subseteq Nat
    OBVIOUS
  <2> HIDE DEF T
  <2>2. QED
    BY <1>1, <2>1, LeastNumber
<1>3. k \in 0 .. m /\ k \in 0 .. n /\ g[k] # h[k] /\ k - 1 \notin T
  BY <1>2
<1>4. /\ g[k] = IF k = 0 THEN start ELSE Turn(loop, proof, k, g[k - 1])
      /\ h[k] = IF k = 0 THEN start ELSE Turn(loop, proof, k, h[k - 1])
  BY <1>3 DEF TurnsTo
<1>5. QED
  BY <1>3, <1>4

Turns(loop, proof, start, g) ==
  g = [k \in Nat |-> IF k = 0 THEN start ELSE Turn(loop, proof, k, g[k - 1])]

LEMMA TurnsForever ==
  ASSUME NEW loop, NEW proof, NEW start
  PROVE  \E g : Turns(loop, proof, start, g)
<1> DEFINE to(n) == CHOOSE g : TurnsTo(loop, proof, start, n, g)
           g == [n \in Nat |-> to(n)[n]]
<1>1. ASSUME NEW n \in Nat PROVE TurnsTo(loop, proof, start, n, to(n))
  BY TurnsExist
<1>2. ASSUME NEW n \in Nat
      PROVE  g[n] = IF n = 0 THEN start ELSE Turn(loop, proof, n, g[n - 1])
  <2>1. to(n)[n] = IF n = 0 THEN start ELSE Turn(loop, proof, n, to(n)[n - 1])
    <3>1. n \in 0 .. n
      OBVIOUS
    <3> HIDE DEF to
    <3>2. QED
      BY <1>1, <3>1 DEF TurnsTo
  <2>2. CASE n = 0
    BY <2>1, <2>2
  <2>3. CASE n # 0
    <3>1. n - 1 \in Nat
      BY <2>3
    <3>2. to(n)[n - 1] = to(n - 1)[n - 1]
      <4>1. TurnsTo(loop, proof, start, n, to(n)) /\ TurnsTo(loop, proof, start, n - 1, to(n - 1))
        BY <1>1, <3>1
      <4> HIDE DEF to
      <4>2. \A k \in Nat : k <= n /\ k <= n - 1 => to(n)[k] = to(n - 1)[k]
        BY <3>1, <4>1, TurnsAgree
      <4>3. QED
        BY <3>1, <4>2
    <3>3. g[n - 1] = to(n - 1)[n - 1] /\ g[n] = to(n)[n]
      BY <3>1
    <3> HIDE DEF g, to
    <3>4. QED
      BY <2>1, <2>3, <3>2, <3>3
  <2>4. QED
    BY <2>2, <2>3
<1>3. g = [n \in Nat |-> g[n]]
  OBVIOUS
<1> HIDE DEF g
<1>4. Turns(loop, proof, start, g)
  BY <1>2, <1>3 DEF Turns
<1>5. QED
  BY <1>4

\* The levels of a tree (merkleRoot).
LEMMA LevelTurns ==
  ASSUME NEW leaves
  PROVE  /\ Level(leaves)[0] = [i \in DOMAIN leaves |-> HashLeaf(leaves[i])]
         /\ \A k \in Nat : Level(leaves)[k + 1] = NextLevel(Level(leaves)[k])
<1> DEFINE start == [i \in DOMAIN leaves |-> HashLeaf(leaves[i])]
<1>1. \E g : g = [k \in Nat |-> IF k = 0 THEN start ELSE NextLevel(g[k - 1])]
  <2>1. PICK g : Turns("level", {}, start, g)
    BY TurnsForever
  <2>2. \A k \in Nat : Turn("level", {}, k, g[k - 1]) = NextLevel(g[k - 1])
    BY DEF Turn
  <2> HIDE DEF start
  <2>3. g = [k \in Nat |-> IF k = 0 THEN start ELSE NextLevel(g[k - 1])]
    BY <2>1, <2>2 DEF Turns
  <2>4. QED
    BY <2>3
<1>2. Level(leaves) = [k \in Nat |-> IF k = 0 THEN start ELSE NextLevel(Level(leaves)[k - 1])]
  BY <1>1 DEF Level
<1> HIDE DEF start
<1>3. Level(leaves)[0] = start
  BY <1>2
<1>4. ASSUME NEW k \in Nat PROVE Level(leaves)[k + 1] = NextLevel(Level(leaves)[k])
  <2>1. k + 1 \in Nat /\ k + 1 # 0 /\ (k + 1) - 1 = k
    OBVIOUS
  <2>2. QED
    BY <1>2, <2>1
<1>5. QED
  BY <1>3, <1>4 DEF start

\* The place of the node above, level by level (merkleProof).
LEMMA AboveTurns ==
  ASSUME NEW index
  PROVE  /\ Above(index)[0] = index
         /\ \A k \in Nat : Above(index)[k + 1] = Above(index)[k] \div 2
<1>1. \E g : g = [k \in Nat |-> IF k = 0 THEN index ELSE g[k - 1] \div 2]
  <2>1. PICK g : Turns("above", {}, index, g)
    BY TurnsForever
  <2>2. \A k \in Nat : Turn("above", {}, k, g[k - 1]) = g[k - 1] \div 2
    BY DEF Turn
  <2>3. g = [k \in Nat |-> IF k = 0 THEN index ELSE g[k - 1] \div 2]
    BY <2>1, <2>2 DEF Turns
  <2>4. QED
    BY <2>3
<1>2. Above(index) = [k \in Nat |-> IF k = 0 THEN index ELSE Above(index)[k - 1] \div 2]
  BY <1>1 DEF Above
<1>3. Above(index)[0] = index
  BY <1>2
<1>4. ASSUME NEW k \in Nat PROVE Above(index)[k + 1] = Above(index)[k] \div 2
  <2>1. k + 1 \in Nat /\ k + 1 # 0 /\ (k + 1) - 1 = k
    OBVIOUS
  <2>2. QED
    BY <1>2, <2>1
<1>5. QED
  BY <1>3, <1>4

\* The hash after each step of a proof (verifyMerkleProofFromHash).
LEMMA ClimbTurns ==
  ASSUME NEW hash, NEW proof, Len(proof) \in Nat
  PROVE  /\ Climb(hash, proof)[0] = hash
         /\ \A k \in 0 .. Len(proof) - 1 :
              Climb(hash, proof)[k + 1] = StepUp(Climb(hash, proof)[k], proof[k + 1])
<1> DEFINE n == Len(proof)
<1>1. \E g : g = [k \in 0 .. n |-> IF k = 0 THEN hash ELSE StepUp(g[k - 1], proof[k])]
  <2>1. PICK g : TurnsTo("climb", proof, hash, n, g)
    BY TurnsExist
  <2>2. \A k \in 0 .. n : Turn("climb", proof, k, g[k - 1]) = StepUp(g[k - 1], proof[k])
    BY DEF Turn
  <2>3. g = [k \in 0 .. n |-> IF k = 0 THEN hash ELSE Turn("climb", proof, k, g[k - 1])]
    BY <2>1 DEF TurnsTo
  <2> HIDE DEF n
  <2>4. g = [k \in 0 .. n |-> IF k = 0 THEN hash ELSE StepUp(g[k - 1], proof[k])]
    BY <2>2, <2>3
  <2>5. QED
    BY <2>4
<1>2. Climb(hash, proof) = [k \in 0 .. n |-> IF k = 0 THEN hash
                                             ELSE StepUp(Climb(hash, proof)[k - 1], proof[k])]
  BY <1>1 DEF Climb
<1>3. n \in Nat
  OBVIOUS
<1> HIDE DEF n
<1>4. Climb(hash, proof)[0] = hash
  BY <1>2, <1>3
<1>5. ASSUME NEW k \in 0 .. n - 1
      PROVE  Climb(hash, proof)[k + 1] = StepUp(Climb(hash, proof)[k], proof[k + 1])
  <2>1. k + 1 \in 0 .. n /\ k + 1 # 0 /\ (k + 1) - 1 = k
    BY <1>3
  <2>2. QED
    BY <1>2, <2>1
<1>6. QED
  BY <1>4, <1>5 DEF n

LEMMA NextShape ==
  ASSUME NEW level, Len(level) \in Nat
  PROVE  /\ Len(NextLevel(level)) = (Len(level) + 1) \div 2
         /\ \A i \in 1 .. (Len(level) + 1) \div 2 :
              NextLevel(level)[i] =
                HashPair(level[2 * i - 1], level[IF 2 * i <= Len(level) THEN 2 * i ELSE 2 * i - 1])
<1> DEFINE n == (Len(level) + 1) \div 2
           pair(i) == HashPair(level[2 * i - 1], level[IF 2 * i <= Len(level) THEN 2 * i ELSE 2 * i - 1])
<1>1. NextLevel(level) = [i \in 1 .. n |-> pair(i)]
  BY DEF NextLevel
<1>2. n \in Nat
  OBVIOUS
<1> HIDE DEF n, pair
<1>3. Len(NextLevel(level)) = n /\ \A i \in 1 .. n : NextLevel(level)[i] = pair(i)
  BY <1>1, <1>2
<1>4. QED
  BY <1>3 DEF n, pair

\* Every level has a node, and as long as it has more than one the next is shorter.
LEMMA LevelWidths ==
  ASSUME NEW S, NEW leaves \in Seq(S), leaves # <<>>
  PROVE  \A k \in Nat :
           /\ Len(Level(leaves)[k]) \in Nat \ {0}
           /\ Len(Level(leaves)[k]) = 1 \/ k + Len(Level(leaves)[k]) <= Len(leaves)
<1> DEFINE width(k) == Len(Level(leaves)[k])
           T == {k \in Nat : ~ (width(k) \in Nat \ {0} /\ (width(k) = 1 \/ k + width(k) <= Len(leaves)))}
<1>1. SUFFICES ASSUME T # {} PROVE FALSE
  OBVIOUS
<1>2. PICK k \in T : \A j \in T : k <= j
  <2>1. T \subseteq Nat
    OBVIOUS
  <2> HIDE DEF T
  <2>2. QED
    BY <1>1, <2>1, LeastNumber
<1>3. k \in Nat /\ ~ (width(k) \in Nat \ {0} /\ (width(k) = 1 \/ k + width(k) <= Len(leaves)))
  OBVIOUS
<1>4. width(0) = Len(leaves) /\ Len(leaves) \in Nat \ {0}
  <2>1. Len(leaves) \in Nat \ {0} /\ DOMAIN leaves = 1 .. Len(leaves)
    OBVIOUS
  <2>2. Level(leaves)[0] = [i \in 1 .. Len(leaves) |-> HashLeaf(leaves[i])]
    BY <2>1, LevelTurns
  <2>3. QED
    BY <2>1, <2>2
<1>5. k # 0
  BY <1>3, <1>4
<1>6. /\ k - 1 \in Nat
      /\ width(k - 1) \in Nat \ {0}
      /\ width(k - 1) = 1 \/ k - 1 + width(k - 1) <= Len(leaves)
  <2>1. k - 1 \in Nat /\ k - 1 \notin T
    BY <1>2, <1>3, <1>5
  <2>2. QED
    BY <2>1
<1>7. width(k) = (width(k - 1) + 1) \div 2
  <2>1. Level(leaves)[(k - 1) + 1] = NextLevel(Level(leaves)[k - 1])
    BY <1>6, LevelTurns
  <2>2. (k - 1) + 1 = k
    BY <1>3
  <2>3. QED
    BY <1>6, <2>1, <2>2, NextShape
<1> HIDE DEF width, T
<1>8. QED
  BY <1>3, <1>4, <1>6, <1>7

\* The loop of merkleRoot ends, at a level of one node.
LEMMA HeightIs ==
  ASSUME NEW S, NEW leaves \in Seq(S), leaves # <<>>
  PROVE  /\ Height(leaves) \in Nat
         /\ Len(Level(leaves)[Height(leaves)]) = 1
<1> DEFINE width(k) == Len(Level(leaves)[k])
           T == {k \in Nat : width(k) = 1}
<1>1. Len(leaves) \in Nat
  OBVIOUS
<1>2. \A k \in Nat : width(k) \in Nat \ {0} /\ (width(k) = 1 \/ k + width(k) <= Len(leaves))
  BY LevelWidths
<1>3. Len(leaves) \in T
  <2> HIDE DEF width
  <2>1. QED
    BY <1>1, <1>2
<1>4. PICK k \in T : \A j \in T : k <= j
  <2>1. T \subseteq Nat
    OBVIOUS
  <2> HIDE DEF T
  <2>2. QED
    BY <1>3, <2>1, LeastNumber
<1>5. k \in 0 .. Len(leaves) /\ width(k) = 1
  BY <1>1, <1>3, <1>4
<1>6. ASSUME NEW j \in 0 .. k - 1 PROVE width(j) > 1
  <2>1. j \in Nat /\ j < k /\ k \in Nat
    BY <1>5
  <2>2. j \notin T
    BY <1>4, <2>1
  <2>3. width(j) # 1 /\ width(j) \in Nat \ {0}
    BY <1>2, <2>1, <2>2
  <2> HIDE DEF width
  <2>4. QED
    BY <2>3
<1>7. Height(leaves) \in 0 .. Len(leaves) /\ width(Height(leaves)) = 1
  BY <1>5, <1>6 DEF Height
<1>8. QED
  BY <1>1, <1>7

\* A step of a proof leads from a node to the one above it.
LEMMA SiblingStep ==
  ASSUME NEW level, Len(level) \in Nat, NEW idx \in 0 .. Len(level) - 1
  PROVE  /\ idx \div 2 \in 0 .. Len(NextLevel(level)) - 1
         /\ StepUp(level[idx + 1], Sibling(level, idx)) = NextLevel(level)[idx \div 2 + 1]
<1> DEFINE q == idx \div 2
<1>1. q \in Nat /\ (idx = 2 * q \/ idx = 2 * q + 1) /\ idx % 2 = idx - 2 * q
  OBVIOUS
<1>2. q + 1 \in 1 .. (Len(level) + 1) \div 2
  OBVIOUS
<1> HIDE DEF q
<1>3. NextLevel(level)[q + 1] =
        HashPair(level[2 * (q + 1) - 1],
                 level[IF 2 * (q + 1) <= Len(level) THEN 2 * (q + 1) ELSE 2 * (q + 1) - 1])
  BY <1>2, NextShape
<1>4. CASE idx = 2 * q
  <2>1. Sibling(level, idx) = [sibling |-> level[IF idx + 1 < Len(level) THEN idx + 2 ELSE idx + 1],
                               position |-> "right"]
    BY <1>1, <1>4 DEF Sibling
  <2>2. StepUp(level[idx + 1], Sibling(level, idx)) =
          HashPair(level[idx + 1], level[IF idx + 1 < Len(level) THEN idx + 2 ELSE idx + 1])
    BY <2>1 DEF StepUp
  <2>3. /\ 2 * (q + 1) - 1 = idx + 1 /\ 2 * (q + 1) = idx + 2
        /\ idx + 1 < Len(level) <=> 2 * (q + 1) <= Len(level)
    BY <1>1, <1>4
  <2>4. StepUp(level[idx + 1], Sibling(level, idx)) = NextLevel(level)[q + 1]
    BY <1>3, <2>2, <2>3
  <2>5. QED
    BY <1>1, <1>2, <2>4, NextShape DEF q
<1>5. CASE idx = 2 * q + 1
  <2>1. Sibling(level, idx) = [sibling |-> level[idx], position |-> "left"]
    BY <1>1, <1>5 DEF Sibling
  <2>2. StepUp(level[idx + 1], Sibling(level, idx)) = HashPair(level[idx], level[idx + 1])
    BY <2>1 DEF StepUp
  <2>3. 2 * (q + 1) - 1 = idx /\ 2 * (q + 1) = idx + 1 /\ 2 * (q + 1) <= Len(level)
    BY <1>1, <1>5
  <2>4. StepUp(level[idx + 1], Sibling(level, idx)) = NextLevel(level)[q + 1]
    BY <1>3, <2>2, <2>3
  <2>5. QED
    BY <1>1, <1>2, <2>4, NextShape DEF q
<1>6. QED
  BY <1>1, <1>4, <1>5

\* merkleProof's place stays within the level.
LEMMA AbovePlaces ==
  ASSUME NEW S, NEW leaves \in Seq(S), leaves # <<>>, NEW index \in 0 .. Len(leaves) - 1
  PROVE  \A k \in Nat : Above(index)[k] \in 0 .. Len(Level(leaves)[k]) - 1
<1> DEFINE width(k) == Len(Level(leaves)[k])
           T == {k \in Nat : ~ (Above(index)[k] \in 0 .. width(k) - 1)}
<1>1. SUFFICES ASSUME T # {} PROVE FALSE
  OBVIOUS
<1>2. PICK k \in T : \A j \in T : k <= j
  <2>1. T \subseteq Nat
    OBVIOUS
  <2> HIDE DEF T
  <2>2. QED
    BY <1>1, <2>1, LeastNumber
<1>3. k \in Nat /\ ~ (Above(index)[k] \in 0 .. width(k) - 1)
  OBVIOUS
<1>4. Above(index)[0] \in 0 .. width(0) - 1
  <2>1. Len(leaves) \in Nat \ {0} /\ DOMAIN leaves = 1 .. Len(leaves)
    OBVIOUS
  <2>2. Level(leaves)[0] = [i \in 1 .. Len(leaves) |-> HashLeaf(leaves[i])]
    BY <2>1, LevelTurns
  <2>3. width(0) = Len(leaves)
    BY <2>1, <2>2
  <2>4. QED
    BY <2>3, AboveTurns
<1>5. k # 0
  BY <1>3, <1>4
<1>6. k - 1 \in Nat /\ Above(index)[k - 1] \in 0 .. width(k - 1) - 1
  <2>1. k - 1 \in Nat /\ k - 1 \notin T
    BY <1>2, <1>3, <1>5
  <2>2. QED
    BY <2>1
<1>7. /\ Level(leaves)[(k - 1) + 1] = NextLevel(Level(leaves)[k - 1])
      /\ Above(index)[(k - 1) + 1] = Above(index)[k - 1] \div 2
  BY <1>6, LevelTurns, AboveTurns
<1>8. (k - 1) + 1 = k
  BY <1>3
<1>9. width(k - 1) \in Nat
  BY <1>6, LevelWidths
<1>10. Above(index)[k - 1] \div 2 \in 0 .. Len(NextLevel(Level(leaves)[k - 1])) - 1
  BY <1>6, <1>9, SiblingStep
<1>11. QED
  BY <1>3, <1>7, <1>8, <1>10

LEMMA ProofSteps ==
  ASSUME NEW S, NEW leaves \in Seq(S), leaves # <<>>, NEW index
  PROVE  /\ Len(MerkleProof(leaves, index)) = Height(leaves)
         /\ \A k \in 0 .. Height(leaves) - 1 :
              MerkleProof(leaves, index)[k + 1] = Sibling(Level(leaves)[k], Above(index)[k])
<1> DEFINE step(k) == Sibling(Level(leaves)[k - 1], Above(index)[k - 1])
           h == Height(leaves)
<1>1. h \in Nat
  BY HeightIs
<1>2. MerkleProof(leaves, index) = [k \in 1 .. h |-> step(k)]
  BY DEF MerkleProof
<1> HIDE DEF step, h
<1>3. Len(MerkleProof(leaves, index)) = h
  BY <1>1, <1>2
<1>4. ASSUME NEW k \in 0 .. h - 1
      PROVE  MerkleProof(leaves, index)[k + 1] = Sibling(Level(leaves)[k], Above(index)[k])
  <2>1. k + 1 \in 1 .. h /\ (k + 1) - 1 = k
    BY <1>1
  <2>2. MerkleProof(leaves, index)[k + 1] = step(k + 1)
    BY <1>2, <2>1
  <2>3. QED
    BY <2>1, <2>2 DEF step
<1>5. QED
  BY <1>3, <1>4 DEF h

\* The proof of a leaf leads from it to the root, through the nodes above it.
LEMMA ProofClimbs ==
  ASSUME NEW S, NEW leaves \in Seq(S), leaves # <<>>, NEW index \in 0 .. Len(leaves) - 1
  PROVE  \A k \in 0 .. Height(leaves) :
           Climb(HashLeaf(leaves[index + 1]), MerkleProof(leaves, index))[k] =
             Level(leaves)[k][Above(index)[k] + 1]
<1> DEFINE h == Height(leaves)
           hash == HashLeaf(leaves[index + 1])
           proof == MerkleProof(leaves, index)
           T == {k \in 0 .. h : Climb(hash, proof)[k] # Level(leaves)[k][Above(index)[k] + 1]}
<1>0. h \in Nat /\ Len(proof) = h
  BY HeightIs, ProofSteps
<1>1. SUFFICES ASSUME T # {} PROVE FALSE
  OBVIOUS
<1>2. PICK k \in T : \A j \in T : k <= j
  <2>1. T \subseteq Nat
    BY <1>0
  <2> HIDE DEF T
  <2>2. QED
    BY <1>1, <2>1, LeastNumber
<1>3. k \in 0 .. h /\ Climb(hash, proof)[k] # Level(leaves)[k][Above(index)[k] + 1]
  OBVIOUS
<1>4. Climb(hash, proof)[0] = Level(leaves)[0][Above(index)[0] + 1]
  <2>1. Climb(hash, proof)[0] = hash
    BY <1>0, ClimbTurns
  <2>2. Above(index)[0] = index
    BY AboveTurns
  <2>3. Level(leaves)[0][index + 1] = hash
    <3>1. index + 1 \in DOMAIN leaves
      OBVIOUS
    <3>2. Level(leaves)[0] = [i \in DOMAIN leaves |-> HashLeaf(leaves[i])]
      BY LevelTurns
    <3>3. QED
      BY <3>1, <3>2
  <2>4. QED
    BY <2>1, <2>2, <2>3
<1>5. k # 0
  BY <1>3, <1>4
<1> DEFINE j == k - 1
<1>6. j \in Nat /\ j \in 0 .. h - 1 /\ j + 1 = k
  BY <1>0, <1>3, <1>5
<1>7. Climb(hash, proof)[j] = Level(leaves)[j][Above(index)[j] + 1]
  <2>1. j \in 0 .. h /\ j \notin T
    BY <1>0, <1>2, <1>6
  <2> HIDE DEF j, h, hash, proof
  <2>2. QED
    BY <2>1
<1> HIDE DEF j, T
<1>8. Climb(hash, proof)[k] = StepUp(Climb(hash, proof)[j], proof[j + 1])
  BY <1>0, <1>6, ClimbTurns
<1>9. proof[j + 1] = Sibling(Level(leaves)[j], Above(index)[j])
  BY <1>6, ProofSteps
<1>10. /\ Level(leaves)[k] = NextLevel(Level(leaves)[j])
       /\ Above(index)[k] = Above(index)[j] \div 2
  BY <1>6, LevelTurns, AboveTurns
<1>11. Len(Level(leaves)[j]) \in Nat /\ Above(index)[j] \in 0 .. Len(Level(leaves)[j]) - 1
  BY <1>6, LevelWidths, AbovePlaces
<1>12. StepUp(Level(leaves)[j][Above(index)[j] + 1], Sibling(Level(leaves)[j], Above(index)[j])) =
         NextLevel(Level(leaves)[j])[Above(index)[j] \div 2 + 1]
  BY <1>11, SiblingStep
<1>13. QED
  BY <1>3, <1>7, <1>8, <1>9, <1>10, <1>12

\* In a tree of any size, the proof of the leaf at any place verifies for that leaf under the
\* root of the tree (merkleProof, merkleRoot, verifyMerkleProof).
THEOREM OwnLeafVerifies ==
  ASSUME NEW S, NEW leaves \in Seq(S), leaves # <<>>, NEW index \in 0 .. Len(leaves) - 1
  PROVE  VerifyMerkleProof(leaves[index + 1], MerkleProof(leaves, index), MerkleRoot(leaves))
<1> DEFINE h == Height(leaves)
           hash == HashLeaf(leaves[index + 1])
           proof == MerkleProof(leaves, index)
<1>1. h \in Nat /\ Len(proof) = h /\ Len(Level(leaves)[h]) = 1
  BY HeightIs, ProofSteps
<1>2. Climb(hash, proof)[h] = Level(leaves)[h][Above(index)[h] + 1]
  BY <1>1, ProofClimbs
<1>3. Above(index)[h] \in 0 .. 0
  <2>1. Above(index)[h] \in 0 .. Len(Level(leaves)[h]) - 1
    BY <1>1, AbovePlaces
  <2>2. QED
    BY <1>1, <2>1
<1>4. Above(index)[h] + 1 = 1
  BY <1>3
<1>5. MerkleRoot(leaves) = Climb(hash, proof)[h]
  BY <1>2, <1>4 DEF MerkleRoot
<1>6. QED
  BY <1>1, <1>5 DEF VerifyMerkleProof, VerifyMerkleProofFromHash

LEMMA Digests ==
  /\ \A v, w : HashLeaf(v) = HashLeaf(w) => v = w
  /\ \A a, b, c, d : HashPair(a, b) = HashPair(c, d) => a = c /\ b = d
  /\ \A v, a, b : HashLeaf(v) # HashPair(a, b)
  /\ \A v : HashLeaf(v) # EmptyRoot
  /\ \A a, b : HashPair(a, b) # EmptyRoot
BY DEF HashLeaf, HashPair, EmptyRoot

LEMMA StepIsPair ==
  ASSUME NEW step, NEW x
  PROVE  \E a, b : StepUp(x, step) = HashPair(a, b) /\ x \in {a, b}
BY DEF StepUp

LEMMA StepIsNoLeaf ==
  ASSUME NEW step, NEW x
  PROVE  StepUp(x, step) # EmptyRoot /\ \A v : StepUp(x, step) # HashLeaf(v)
<1>1. PICK a, b : StepUp(x, step) = HashPair(a, b)
  BY StepIsPair
<1>2. QED
  BY <1>1, Digests

LEMMA PairParts ==
  ASSUME NEW step, NEW x, NEW a, NEW b, StepUp(x, step) = HashPair(a, b)
  PROVE  x = a \/ x = b
<1>1. PICK c, d : StepUp(x, step) = HashPair(c, d) /\ x \in {c, d}
  BY StepIsPair
<1>2. HashPair(c, d) = HashPair(a, b)
  BY <1>1
<1>3. c = a /\ d = b
  BY <1>2, Digests
<1>4. QED
  BY <1>1, <1>3

LEMMA StepInjective ==
  ASSUME NEW step, NEW x, NEW y, StepUp(x, step) = StepUp(y, step)
  PROVE  x = y
BY Digests DEF StepUp

\* One proof leads two hashes to one root only if they are the same.
LEMMA SameEnd ==
  ASSUME NEW proof, Len(proof) \in Nat, NEW x, NEW y,
         Climb(x, proof)[Len(proof)] = Climb(y, proof)[Len(proof)]
  PROVE  x = y
<1> DEFINE n == Len(proof)
           T == {k \in 0 .. n : Climb(x, proof)[k] = Climb(y, proof)[k]}
<1>1. n \in T
  OBVIOUS
<1>2. PICK k \in T : \A j \in T : k <= j
  <2>1. T \subseteq Nat
    OBVIOUS
  <2> HIDE DEF T
  <2>2. QED
    BY <1>1, <2>1, LeastNumber
<1>3. k \in 0 .. n /\ Climb(x, proof)[k] = Climb(y, proof)[k]
  OBVIOUS
<1>4. CASE k = 0
  BY <1>3, <1>4, ClimbTurns
<1>5. CASE k # 0
  <2> DEFINE j == k - 1
  <2>1. j \in 0 .. n - 1 /\ j + 1 = k /\ j \notin T /\ j \in 0 .. n
    BY <1>2, <1>3, <1>5
  <2> HIDE DEF j
  <2>2. /\ Climb(x, proof)[k] = StepUp(Climb(x, proof)[j], proof[j + 1])
        /\ Climb(y, proof)[k] = StepUp(Climb(y, proof)[j], proof[j + 1])
    BY <2>1, ClimbTurns
  <2>3. Climb(x, proof)[j] = Climb(y, proof)[j]
    BY <1>3, <2>2, StepInjective
  <2>4. QED
    BY <2>1, <2>3
<1>6. QED
  BY <1>4, <1>5

\* No proof, made by merkleProof or not, verifies for two values under one root
\* (verifyMerkleProof).
THEOREM OneLeafVerifies ==
  ASSUME NEW proof, Len(proof) \in Nat, NEW root, NEW v, NEW w,
         VerifyMerkleProof(v, proof, root), VerifyMerkleProof(w, proof, root)
  PROVE  v = w
<1>1. HashLeaf(v) = HashLeaf(w)
  BY SameEnd DEF VerifyMerkleProof, VerifyMerkleProofFromHash
<1>2. QED
  BY <1>1, Digests

\* Under the root of a tree only its leaves verify, whatever the proof: no inner node, no value
\* that was not listed, and nothing under the root of an empty list (verifyMerkleProof, merkleRoot).
THEOREM OnlyLeavesVerify ==
  ASSUME NEW S, NEW leaves \in Seq(S), NEW proof, Len(proof) \in Nat, NEW v,
         VerifyMerkleProof(v, proof, MerkleRoot(leaves))
  PROVE  \E i \in DOMAIN leaves : leaves[i] = v
<1> DEFINE n == Len(proof)
           h == Height(leaves)
           c(k) == Climb(HashLeaf(v), proof)[k]
           At(k) == n - k <= h /\ \E i \in 1 .. Len(Level(leaves)[h - (n - k)]) :
                                     c(k) = Level(leaves)[h - (n - k)][i]
           T == {k \in 0 .. n : At(k)}
<1>1. c(n) = MerkleRoot(leaves) /\ c(0) = HashLeaf(v)
  BY ClimbTurns DEF VerifyMerkleProof, VerifyMerkleProofFromHash
<1>2. \A k \in 0 .. n - 1 : c(k + 1) = StepUp(c(k), proof[k + 1])
  BY ClimbTurns
<1>3. leaves # <<>>
  <2>1. SUFFICES ASSUME leaves = <<>> PROVE FALSE
    OBVIOUS
  <2>2. c(n) = EmptyRoot
    BY <1>1, <2>1 DEF MerkleRoot
  <2>3. n # 0
    BY <1>1, <2>2, Digests
  <2>4. n - 1 \in 0 .. n - 1 /\ (n - 1) + 1 = n
    BY <2>3
  <2> HIDE DEF n, c
  <2>5. c(n) = StepUp(c(n - 1), proof[n])
    BY <1>2, <2>4
  <2>6. QED
    BY <2>2, <2>5, StepIsNoLeaf
<1>4. h \in Nat /\ Len(Level(leaves)[h]) = 1
  BY <1>3, HeightIs
<1>5. n \in T
  <2>1. n - n = 0 /\ h - 0 = h /\ n \in 0 .. n
    BY <1>4
  <2>2. c(n) = Level(leaves)[h][1]
    BY <1>1, <1>3 DEF MerkleRoot
  <2> HIDE DEF c, h
  <2>3. At(n)
    BY <1>4, <2>1, <2>2
  <2>4. QED
    BY <2>1, <2>3
<1>6. PICK k \in T : \A j \in T : k <= j
  <2>1. T \subseteq Nat
    OBVIOUS
  <2> HIDE DEF T
  <2>2. QED
    BY <1>5, <2>1, LeastNumber
<1>7. k \in 0 .. n /\ At(k)
  OBVIOUS
<1> DEFINE l == h - (n - k)
<1>8. PICK i \in 1 .. Len(Level(leaves)[l]) : c(k) = Level(leaves)[l][i]
  BY <1>7
<1>9. l \in Nat
  BY <1>4, <1>7
<1> HIDE DEF c, h, T, At
<1>10. CASE l = 0
  <2>1. Level(leaves)[0] = [m \in DOMAIN leaves |-> HashLeaf(leaves[m])]
    BY LevelTurns
  <2>2. i \in DOMAIN leaves
    <3>1. Len(leaves) \in Nat /\ DOMAIN leaves = 1 .. Len(leaves)
      OBVIOUS
    <3>2. Len(Level(leaves)[0]) = Len(leaves)
      BY <2>1, <3>1
    <3>3. QED
      BY <1>8, <1>10, <3>1, <3>2
  <2>3. c(k) = HashLeaf(leaves[i])
    BY <1>8, <1>10, <2>1, <2>2
  <2>4. k = 0
    <3>1. SUFFICES ASSUME k # 0 PROVE FALSE
      OBVIOUS
    <3>2. k - 1 \in 0 .. n - 1 /\ (k - 1) + 1 = k
      BY <1>7, <3>1
    <3>3. c(k) = StepUp(c(k - 1), proof[k])
      BY <1>2, <3>2
    <3>4. QED
      BY <2>3, <3>3, StepIsNoLeaf
  <2>5. QED
    BY <1>1, <2>2, <2>3, <2>4, Digests
<1>11. CASE l # 0
  <2> DEFINE m == l - 1
             w == Len(Level(leaves)[m])
  <2>1. m \in Nat /\ m + 1 = l
    BY <1>9, <1>11
  <2>2. w \in Nat \ {0} /\ Level(leaves)[l] = NextLevel(Level(leaves)[m])
    BY <1>3, <2>1, LevelWidths, LevelTurns
  <2> DEFINE a == 2 * i - 1
             b == IF 2 * i <= w THEN 2 * i ELSE 2 * i - 1
  <2>3. i \in 1 .. (w + 1) \div 2
    BY <1>8, <2>2, NextShape
  <2>4. c(k) = HashPair(Level(leaves)[m][a], Level(leaves)[m][b])
    BY <1>8, <2>2, <2>3, NextShape
  <2> HIDE DEF m, w
  <2>5. a \in 1 .. w /\ b \in 1 .. w
    BY <2>2, <2>3
  <2> HIDE DEF a, b
  <2>6. k # 0
    BY <1>1, <2>4, Digests
  <2> DEFINE j == k - 1
  <2>7. j \in 0 .. n - 1 /\ j + 1 = k /\ j \in 0 .. n
    BY <1>7, <2>6
  <2>8. h - (n - j) = m /\ n - j <= h
    BY <1>4, <1>7, <1>9, <2>1, <2>7 DEF l
  <2> HIDE DEF j, l
  <2>9. c(k) = StepUp(c(j), proof[j + 1])
    BY <1>2, <2>7
  <2>10. c(j) = Level(leaves)[m][a] \/ c(j) = Level(leaves)[m][b]
    BY <2>4, <2>9, PairParts
  <2>11. \E e \in 1 .. w : c(j) = Level(leaves)[m][e]
    BY <2>5, <2>10
  <2>12. At(j)
    BY <2>8, <2>11 DEF At, w
  <2>13. j \in T
    BY <2>7, <2>12 DEF T
  <2>14. QED
    BY <1>6, <1>7, <2>7, <2>13
<1>12. QED
  BY <1>10, <1>11

\* The keys of a storage in their order.
LEMMA OrderIs ==
  ASSUME NEW D, IsFiniteSet(D), D \subseteq Int
  PROVE  /\ Cardinality(D) \in Nat
         /\ InOrder(D) \in [1 .. Cardinality(D) -> D]
         /\ \A k \in D : \E i \in 1 .. Cardinality(D) : InOrder(D)[i] = k
<1> DEFINE n == Cardinality(D)
           below(k) == {j \in D : j <= k}
           rank == [k \in D |-> Cardinality(below(k))]
<1>1. n \in Nat
  BY FS_CardinalityType
<1>2. ASSUME NEW k \in D
      PROVE  IsFiniteSet(below(k)) /\ Cardinality(below(k)) \in 1 .. n
  <2>1. IsFiniteSet(below(k)) /\ Cardinality(below(k)) <= n
    BY FS_Subset
  <2>2. Cardinality(below(k)) \in Nat
    BY <2>1, FS_CardinalityType
  <2>3. below(k) # {}
    BY <1>2
  <2>4. Cardinality(below(k)) # 0
    BY <2>1, <2>3, FS_EmptySet
  <2> HIDE DEF below, n
  <2>5. QED
    BY <1>1, <2>1, <2>2, <2>4
<1>3. ASSUME NEW j \in D, NEW k \in D, j < k PROVE rank[j] # rank[k]
  <2>0. j \in Int /\ k \in Int /\ \A i \in D : i \in Int /\ (i <= j => i <= k)
    BY <1>3
  <2>1. below(j) \in SUBSET below(k)
    BY <2>0
  <2>2. k \in below(k) /\ k \notin below(j)
    BY <1>3, <2>0
  <2>3. below(j) # below(k)
    BY <2>2
  <2>4. IsFiniteSet(below(k))
    BY <1>2
  <2> HIDE DEF below
  <2>5. Cardinality(below(j)) # Cardinality(below(k))
    BY <2>1, <2>3, <2>4, FS_Subset
  <2>6. QED
    BY <2>5
<1>4. rank \in [D -> 1 .. n]
  BY <1>2
<1> HIDE DEF rank
<1>5. ASSUME NEW j \in D, NEW k \in D, rank[j] = rank[k] PROVE j = k
  <2>1. ~ (j < k) /\ ~ (k < j)
    BY <1>3, <1>5
  <2>2. j \in Int /\ k \in Int
    OBVIOUS
  <2>3. QED
    BY <2>1, <2>2
<1>6. rank \in Injection(D, 1 .. n)
  BY <1>4, <1>5 DEF Injection, IsInjective
<1>7. IsFiniteSet(1 .. n) /\ Cardinality(1 .. n) = n
  BY <1>1, FS_Interval
<1>8. rank \in Surjection(D, 1 .. n)
  BY <1>6, <1>7, FS_Injection
<1>9. \A i \in 1 .. n : \E k \in D : rank[k] = i
  BY <1>8 DEF Surjection
<1>10. ASSUME NEW i \in 1 .. n PROVE InOrder(D)[i] \in D /\ rank[InOrder(D)[i]] = i
  <2>1. \A k \in D : rank[k] = Cardinality({j \in D : j <= k})
    BY DEF rank
  <2>2. InOrder(D)[i] = CHOOSE k \in D : Cardinality({j \in D : j <= k}) = i
    BY DEF InOrder
  <2>3. \E k \in D : Cardinality({j \in D : j <= k}) = i
    BY <1>9, <2>1
  <2>4. InOrder(D)[i] \in D /\ Cardinality({j \in D : j <= InOrder(D)[i]}) = i
    BY <2>2, <2>3
  <2>5. QED
    BY <2>1, <2>4
<1>11. InOrder(D) \in [1 .. n -> D]
  <2>1. InOrder(D) = [i \in 1 .. n |-> InOrder(D)[i]]
    BY DEF InOrder
  <2>2. QED
    BY <1>10, <2>1
<1>12. ASSUME NEW k \in D PROVE \E i \in 1 .. n : InOrder(D)[i] = k
  <2>1. rank[k] \in 1 .. n
    BY <1>4
  <2>2. InOrder(D)[rank[k]] = k
    BY <1>5, <1>10, <2>1
  <2>3. QED
    BY <2>1, <2>2
<1>13. QED
  BY <1>1, <1>11, <1>12

\* A storage adapter's entries: finitely many, under keys that have an order.
LcStored(storage) ==
  /\ DOMAIN storage \subseteq LcKeys
  /\ IsFiniteSet(DOMAIN storage)
  /\ \A k \in DOMAIN storage : storage[k] \in LcValues \cup {LcEmptyValue}

LEMMA LeavesAre ==
  ASSUME NEW storage, LcStored(storage)
  PROVE  /\ \E S : Leaves(storage) \in Seq(S)
         /\ \A k \in DOMAIN storage :
              /\ Leaves(storage) # <<>>
              /\ Place(storage, k) \in DOMAIN Leaves(storage)
              /\ Leaves(storage)[Place(storage, k)] = <<k, storage[k]>>
         /\ \A i \in DOMAIN Leaves(storage) :
              \E k \in DOMAIN storage : Leaves(storage)[i] = <<k, storage[k]>>
<1> DEFINE D == DOMAIN storage
           n == Cardinality(D)
           o == InOrder(D)
<1>1. /\ n \in Nat
      /\ o \in [1 .. n -> D]
      /\ \A k \in D : \E i \in 1 .. n : o[i] = k
  <2>1. D \subseteq Int /\ IsFiniteSet(D)
    BY LcAssumption DEF LcStored
  <2> HIDE DEF D
  <2>2. QED
    BY <2>1, OrderIs
<1>2. Leaves(storage) = [i \in 1 .. n |-> <<o[i], storage[o[i]]>>]
  <2>1. DOMAIN o = 1 .. n
    BY <1>1
  <2>2. Leaves(storage) = [i \in DOMAIN o |-> <<o[i], storage[o[i]]>>]
    BY DEF Leaves
  <2> HIDE DEF o, n
  <2>3. QED
    BY <2>1, <2>2
<1> HIDE DEF n, o, D
<1> DEFINE S == {<<o[i], storage[o[i]]>> : i \in 1 .. n}
<1>3. Leaves(storage) \in Seq(S)
  <2>1. Leaves(storage) \in [1 .. n -> S]
    BY <1>2
  <2> HIDE DEF S
  <2>2. QED
    BY <1>1, <2>1
<1>4. DOMAIN Leaves(storage) = 1 .. n
  BY <1>2
<1>5. ASSUME NEW k \in D
      PROVE  /\ Leaves(storage) # <<>>
             /\ Place(storage, k) \in DOMAIN Leaves(storage)
             /\ Leaves(storage)[Place(storage, k)] = <<k, storage[k]>>
  <2>1. PICK i \in 1 .. n : o[i] = k
    BY <1>1
  <2>2. i \in DOMAIN Leaves(storage) /\ Leaves(storage)[i][1] = k
    BY <1>2, <2>1
  <2>3. Place(storage, k) \in DOMAIN Leaves(storage) /\ Leaves(storage)[Place(storage, k)][1] = k
    BY <2>2 DEF Place
  <2>4. Leaves(storage)[Place(storage, k)] = <<o[Place(storage, k)], storage[o[Place(storage, k)]]>>
    BY <1>2, <2>3
  <2>5. o[Place(storage, k)] = k
    BY <2>3, <2>4
  <2>6. Leaves(storage) # <<>>
    BY <2>2
  <2>7. QED
    BY <2>3, <2>4, <2>5, <2>6
<1>6. ASSUME NEW i \in DOMAIN Leaves(storage)
      PROVE  \E k \in D : Leaves(storage)[i] = <<k, storage[k]>>
  <2>1. o[i] \in D /\ Leaves(storage)[i] = <<o[i], storage[o[i]]>>
    BY <1>1, <1>2, <1>4
  <2>2. QED
    BY <2>1
<1>7. QED
  BY <1>3, <1>5, <1>6 DEF D

\* The hash, the list of hashes and the root for either kind of proof.
KindHash(kind, tx) == IF kind = "tx" THEN TxHash(tx) ELSE ReceiptHash(tx)
KindHashes(kind, txs) == [i \in DOMAIN txs |-> KindHash(kind, txs[i])]
KindRoot(kind, b) == IF kind = "tx" THEN b.txRoot ELSE b.receiptRoot

\* A block lists successive transactions, and its roots are those of its lists.
LcBlock(b) ==
  /\ \E m \in Nat, n \in Nat \ {0} : b.txs = [i \in 1 .. n |-> m + i]
  /\ \A kind \in {"tx", "receipt"} : KindRoot(kind, b) = MerkleRoot(KindHashes(kind, b.txs))
  /\ \E s : LcStored(s) /\ b.entries = Leaves(s) /\ b.stateRoot = MerkleRoot(Leaves(s))

\* A proof of a transaction or a receipt is that of its place in its block.
ProvesTx(p) ==
  /\ p.block \in DOMAIN lcBlocks
  /\ \E i \in DOMAIN lcBlocks[p.block].txs :
       /\ p.hash = KindHash(p.kind, lcBlocks[p.block].txs[i])
       /\ p.root = MerkleRoot(KindHashes(p.kind, lcBlocks[p.block].txs))
       /\ p.proof = MerkleProof(KindHashes(p.kind, lcBlocks[p.block].txs), i - 1)

\* A proof of an entry is that of its place in the storage of some moment.
StateAnswer(s, k) ==
  [kind |-> "state", key |-> k, found |-> k \in DOMAIN s,
   value |-> IF k \in DOMAIN s THEN s[k] ELSE LcEmptyValue,
   root |-> MerkleRoot(Leaves(s)),
   proof |-> IF k \in DOMAIN s THEN MerkleProof(Leaves(s), Place(s, k) - 1) ELSE <<>>]

ProvesState(p) == \E s, k : LcStored(s) /\ p = StateAnswer(s, k)

\* The inductive invariant: each answer is what some storage or some block in memory determines,
\* however the storage moved on since.
LcInv ==
  /\ LcStored(lcStorage)
  /\ Len(lcBlocks) \in 0 .. LcMaxBlocks /\ DOMAIN lcBlocks = 1 .. Len(lcBlocks)
  /\ \A i \in DOMAIN lcBlocks : LcBlock(lcBlocks[i])
  /\ \/ lcProof = NoProof
     \/ lcProof.kind \in {"tx", "receipt"} /\ ProvesTx(lcProof)
     \/ lcProof.kind = "state" /\ ProvesState(lcProof)

LEMMA LcInitHolds == LcInit => LcInv
<1> SUFFICES ASSUME LcInit PROVE LcInv
  OBVIOUS
<1>1. DOMAIN lcStorage = {}
  BY DEF LcInit
<1>2. LcStored(lcStorage)
  BY <1>1, FS_EmptySet DEF LcStored
<1>3. lcBlocks = <<>> /\ lcProof = NoProof
  BY DEF LcInit
<1>4. Len(lcBlocks) = 0 /\ DOMAIN lcBlocks = {} /\ 1 .. 0 = {}
  BY <1>3
<1>5. QED
  BY <1>2, <1>3, <1>4, LcAssumption DEF LcInv

LEMMA LcWriteKeeps ==
  ASSUME LcInv, NEW k \in LcKeys, NEW v \in LcValues \cup {LcEmptyValue}, LcWrite(k, v)
  PROVE  LcInv'
<1>1. lcStorage' = [j \in DOMAIN lcStorage \cup {k} |-> IF j = k THEN v ELSE lcStorage[j]]
  BY DEF LcWrite
<1>2. LcStored(lcStorage)
  BY DEF LcInv
<1>3. DOMAIN lcStorage' = DOMAIN lcStorage \cup {k}
  BY <1>1
<1>4. IsFiniteSet(DOMAIN lcStorage')
  BY <1>2, <1>3, FS_AddElement DEF LcStored
<1>5. \A j \in DOMAIN lcStorage' : lcStorage'[j] \in LcValues \cup {LcEmptyValue}
  BY <1>1, <1>2 DEF LcStored
<1>6. LcStored(lcStorage')
  BY <1>2, <1>3, <1>4, <1>5 DEF LcStored
<1>7. UNCHANGED <<lcBlocks, lcProof>>
  BY DEF LcWrite
<1>8. QED
  BY <1>6, <1>7 DEF LcInv, ProvesTx

LEMMA MinedIs == ASSUME LcInv PROVE Mined \in Nat
<1>1. CASE lcBlocks = <<>>
  BY <1>1 DEF Mined
<1>2. CASE lcBlocks # <<>>
  <2> DEFINE b == lcBlocks[Len(lcBlocks)]
  <2>1. Len(lcBlocks) \in DOMAIN lcBlocks
    <3>1. Len(lcBlocks) \in Nat /\ DOMAIN lcBlocks = 1 .. Len(lcBlocks)
      BY DEF LcInv
    <3>2. CASE Len(lcBlocks) = 0
      <4>1. lcBlocks = <<>>
        BY <3>1, <3>2
      <4>2. QED
        BY <1>2, <4>1
    <3>3. QED
      BY <3>1, <3>2
  <2>2. PICK m \in Nat, n \in Nat \ {0} : b.txs = [i \in 1 .. n |-> m + i]
    BY <2>1 DEF LcInv, LcBlock
  <2>3. Len(b.txs) = n /\ b.txs[n] = m + n
    BY <2>2
  <2>4. Mined = m + n
    BY <1>2, <2>3 DEF Mined, Last
  <2>5. QED
    BY <2>4
<1>3. QED
  BY <1>1, <1>2

LEMMA LcMineKeeps == ASSUME LcInv, NEW n \in 1 .. LcMaxTxs, LcMine(n) PROVE LcInv'
<1> DEFINE txs == [i \in 1 .. n |-> Mined + i]
           b == [txs |-> txs, txRoot |-> MerkleRoot([i \in 1 .. n |-> TxHash(txs[i])]),
                 receiptRoot |-> MerkleRoot([i \in 1 .. n |-> ReceiptHash(txs[i])]),
                 stateRoot |-> StateRoot(lcStorage), entries |-> Leaves(lcStorage)]
<1>1. /\ lcBlocks' = Append(lcBlocks, b)
      /\ Len(lcBlocks) < LcMaxBlocks
      /\ lcStorage' = lcStorage /\ lcProof' = lcProof
  BY DEF LcMine
<1>2. n \in Nat \ {0} /\ Mined \in Nat
  BY MinedIs, LcAssumption
<1>3. LcBlock(b)
  <2>1. \E m \in Nat, l \in Nat \ {0} : b.txs = [i \in 1 .. l |-> m + i]
    BY <1>2
  <2>2. DOMAIN b.txs = 1 .. n
    OBVIOUS
  <2>3. KindRoot("tx", b) = MerkleRoot(KindHashes("tx", b.txs))
    BY <2>2 DEF KindRoot, KindHashes, KindHash
  <2>4. KindRoot("receipt", b) = MerkleRoot(KindHashes("receipt", b.txs))
    BY <2>2 DEF KindRoot, KindHashes, KindHash
  <2>5. LcStored(lcStorage) /\ b.entries = Leaves(lcStorage) /\ b.stateRoot = MerkleRoot(Leaves(lcStorage))
    BY DEF LcInv, StateRoot
  <2> HIDE DEF b
  <2>6. QED
    BY <2>1, <2>3, <2>4, <2>5 DEF LcBlock
<1> HIDE DEF b
<1>4. Len(lcBlocks) \in Nat /\ DOMAIN lcBlocks = 1 .. Len(lcBlocks)
  BY DEF LcInv
<1>5. /\ Len(lcBlocks') = Len(lcBlocks) + 1
      /\ DOMAIN lcBlocks' = 1 .. Len(lcBlocks) + 1
      /\ \A i \in 1 .. Len(lcBlocks) : lcBlocks'[i] = lcBlocks[i]
      /\ lcBlocks'[Len(lcBlocks) + 1] = b
  BY <1>1, <1>4
<1>6. ASSUME NEW i \in DOMAIN lcBlocks' PROVE LcBlock(lcBlocks'[i])
  <2>1. CASE i \in 1 .. Len(lcBlocks)
    BY <1>4, <1>5, <2>1 DEF LcInv
  <2>2. CASE i = Len(lcBlocks) + 1
    BY <1>3, <1>5, <2>2
  <2>3. QED
    BY <1>4, <1>5, <2>1, <2>2
<1>7. ASSUME ProvesTx(lcProof) PROVE ProvesTx(lcProof)'
  <2>1. /\ lcProof.block \in DOMAIN lcBlocks /\ lcProof.block \in DOMAIN lcBlocks'
        /\ lcBlocks'[lcProof.block] = lcBlocks[lcProof.block]
    <3>1. lcProof.block \in 1 .. Len(lcBlocks)
      BY <1>4, <1>7 DEF ProvesTx
    <3>2. QED
      BY <1>4, <1>5, <3>1
  <2>2. QED
    BY <1>1, <1>7, <2>1 DEF ProvesTx
<1>8. LcStored(lcStorage)' /\ (ProvesState(lcProof) => ProvesState(lcProof)')
  BY <1>1 DEF LcInv
<1>9. Len(lcBlocks') \in 0 .. LcMaxBlocks /\ DOMAIN lcBlocks' = 1 .. Len(lcBlocks')
  BY <1>1, <1>4, <1>5, LcAssumption
<1>10. \/ lcProof' = NoProof
       \/ lcProof'.kind \in {"tx", "receipt"} /\ ProvesTx(lcProof)'
       \/ lcProof'.kind = "state" /\ ProvesState(lcProof)'
  BY <1>1, <1>7, <1>8 DEF LcInv
<1>11. QED
  BY <1>6, <1>8, <1>9, <1>10 DEF LcInv

LEMMA InBlockProves ==
  ASSUME LcInv, NEW tx, NEW b \in BlocksWith(tx)
  PROVE  /\ ProvesTx(InBlock("tx", b, tx, TxHash, lcBlocks[b].txRoot))
         /\ ProvesTx(InBlock("receipt", b, tx, ReceiptHash, lcBlocks[b].receiptRoot))
<1> DEFINE txs == lcBlocks[b].txs
           index == CHOOSE i \in DOMAIN txs : txs[i] = tx
           hashes(kind) == [i \in DOMAIN txs |-> KindHash(kind, txs[i])]
           p(kind) == [kind |-> kind, hash |-> KindHash(kind, tx), root |-> KindRoot(kind, lcBlocks[b]),
                       index |-> index - 1, block |-> b, proof |-> MerkleProof(hashes(kind), index - 1)]
<1>1. b \in DOMAIN lcBlocks /\ \E i \in DOMAIN txs : txs[i] = tx
  BY DEF BlocksWith, ToSet
<1>2. index \in DOMAIN txs /\ txs[index] = tx
  BY <1>1
<1>3. LcBlock(lcBlocks[b])
  BY <1>1 DEF LcInv
<1>4. ASSUME NEW kind \in {"tx", "receipt"} PROVE ProvesTx(p(kind))
  <2>1. KindRoot(kind, lcBlocks[b]) = MerkleRoot(KindHashes(kind, txs))
    BY <1>3 DEF LcBlock
  <2>2. hashes(kind) = KindHashes(kind, txs)
    BY DEF KindHashes
  <2>3. /\ p(kind).block = b /\ p(kind).kind = kind /\ p(kind).hash = KindHash(kind, tx)
        /\ p(kind).root = MerkleRoot(KindHashes(kind, txs))
        /\ p(kind).proof = MerkleProof(KindHashes(kind, txs), index - 1)
    BY <2>1, <2>2
  <2> HIDE DEF p, index, txs, hashes
  <2>4. QED
    BY <1>1, <1>2, <2>3 DEF ProvesTx, txs
<1>5. InBlock("tx", b, tx, TxHash, lcBlocks[b].txRoot) = p("tx")
  BY DEF InBlock, KindHash, KindRoot
<1>6. InBlock("receipt", b, tx, ReceiptHash, lcBlocks[b].receiptRoot) = p("receipt")
  BY DEF InBlock, KindHash, KindRoot
<1>7. QED
  BY <1>4, <1>5, <1>6

LEMMA TxProofKeeps ==
  ASSUME LcInv, NEW tx, GetTxProof(tx) \/ GetReceiptProof(tx)
  PROVE  LcInv'
<1>1. lcStorage' = lcStorage /\ lcBlocks' = lcBlocks
  BY DEF GetTxProof, GetReceiptProof
<1>2. lcProof' = NoProof \/ (lcProof'.kind \in {"tx", "receipt"} /\ ProvesTx(lcProof'))
  <2>1. CASE BlocksWith(tx) = {}
    BY <2>1 DEF GetTxProof, GetReceiptProof
  <2>2. CASE BlocksWith(tx) # {}
    <3> DEFINE b == CHOOSE i \in BlocksWith(tx) : TRUE
    <3>1. b \in BlocksWith(tx)
      BY <2>2
    <3>2. \/ lcProof' = InBlock("tx", b, tx, TxHash, lcBlocks[b].txRoot)
          \/ lcProof' = InBlock("receipt", b, tx, ReceiptHash, lcBlocks[b].receiptRoot)
      BY <2>2 DEF GetTxProof, GetReceiptProof
    <3> HIDE DEF b
    <3>3. ProvesTx(lcProof')
      BY <3>1, <3>2, InBlockProves
    <3>4. lcProof'.kind \in {"tx", "receipt"}
      BY <3>2 DEF InBlock
    <3>5. QED
      BY <3>3, <3>4
  <2>3. QED
    BY <2>1, <2>2
<1>3. ProvesTx(lcProof') => ProvesTx(lcProof)'
  BY <1>1 DEF ProvesTx
<1>4. QED
  BY <1>1, <1>2, <1>3 DEF LcInv

LEMMA StateProofKeeps == ASSUME LcInv, NEW k, GetStateProof(k) PROVE LcInv'
<1>1. lcStorage' = lcStorage /\ lcBlocks' = lcBlocks
  BY DEF GetStateProof
<1>2. lcProof' = StateAnswer(lcStorage, k) /\ LcStored(lcStorage)
  BY DEF GetStateProof, StateAnswer, StateRoot, LcInv
<1>3. lcProof'.kind = "state"
  BY <1>2 DEF StateAnswer
<1>4. ProvesState(lcProof)'
  BY <1>2 DEF ProvesState
<1>5. QED
  BY <1>1, <1>3, <1>4 DEF LcInv

LEMMA LcNextHolds == LcInv /\ [LcNext]_lcVars => LcInv'
<1> SUFFICES ASSUME LcInv, [LcNext]_lcVars PROVE LcInv'
  OBVIOUS
<1>1. ASSUME NEW k \in LcKeys, NEW v \in LcValues \cup {LcEmptyValue}, LcWrite(k, v) PROVE LcInv'
  BY <1>1, LcWriteKeeps
<1>2. ASSUME NEW n \in 1 .. LcMaxTxs, LcMine(n) PROVE LcInv'
  BY <1>2, LcMineKeeps
<1>3. ASSUME NEW tx \in 1 .. LcMaxTxs, GetTxProof(tx) \/ GetReceiptProof(tx) PROVE LcInv'
  BY <1>3, TxProofKeeps
<1>4. ASSUME NEW k \in LcKeys, GetStateProof(k) PROVE LcInv'
  BY <1>4, StateProofKeeps
<1>5. CASE UNCHANGED lcVars
  BY <1>5 DEF lcVars, LcInv, ProvesTx
<1>6. QED
  BY <1>1, <1>2, <1>3, <1>4, <1>5 DEF LcNext

LEMMA LcInvHolds == LcSpec => []LcInv
BY LcInitHolds, LcNextHolds, PTL DEF LcSpec

LEMMA TxProofVerifies ==
  ASSUME LcInv, lcProof.kind \in {"tx", "receipt"}, ProvesTx(lcProof),
         NEW tx \in ToSet(lcBlocks[lcProof.block].txs)
  PROVE  VerifyMerkleProof(KindHash(lcProof.kind, tx), lcProof.proof, lcProof.root) <=>
           lcProof.hash = KindHash(lcProof.kind, tx)
<1> DEFINE kind == lcProof.kind
           txs == lcBlocks[lcProof.block].txs
           leaves == KindHashes(kind, txs)
           S == {KindHash(kind, txs[j]) : j \in DOMAIN txs}
<1>1. PICK i \in DOMAIN txs :
        /\ lcProof.hash = KindHash(kind, txs[i])
        /\ lcProof.root = MerkleRoot(leaves)
        /\ lcProof.proof = MerkleProof(leaves, i - 1)
  BY DEF ProvesTx
<1>2. PICK m \in Nat, n \in Nat \ {0} : txs = [j \in 1 .. n |-> m + j]
  BY DEF LcInv, ProvesTx, LcBlock
<1>3. DOMAIN txs = 1 .. n /\ i \in 1 .. n
  BY <1>2
<1> HIDE DEF txs, kind
<1>4. leaves = [j \in 1 .. n |-> KindHash(kind, txs[j])]
  BY <1>3 DEF KindHashes
<1>5. leaves \in [1 .. n -> S]
  BY <1>3, <1>4
<1>6. leaves[i] = lcProof.hash
  BY <1>1, <1>3, <1>4
<1> HIDE DEF S, leaves
<1>7. leaves \in Seq(S) /\ Len(leaves) = n
  BY <1>2, <1>5
<1>8. leaves # <<>>
  BY <1>2, <1>7
<1> DEFINE index == i - 1
<1>9. index \in 0 .. Len(leaves) - 1 /\ index + 1 = i
  BY <1>2, <1>3, <1>7
<1> HIDE DEF index
<1>10. VerifyMerkleProof(leaves[index + 1], MerkleProof(leaves, index), MerkleRoot(leaves))
  BY <1>7, <1>8, <1>9, OwnLeafVerifies
<1>11. VerifyMerkleProof(lcProof.hash, lcProof.proof, lcProof.root)
  BY <1>1, <1>6, <1>9, <1>10 DEF index
<1>12. Len(lcProof.proof) \in Nat
  <2>1. Len(MerkleProof(leaves, i - 1)) = Height(leaves) /\ Height(leaves) \in Nat
    BY <1>7, <1>8, ProofSteps, HeightIs
  <2>2. QED
    BY <1>1, <2>1
<1>13. ASSUME VerifyMerkleProof(KindHash(kind, tx), lcProof.proof, lcProof.root)
       PROVE  lcProof.hash = KindHash(kind, tx)
  BY <1>11, <1>12, <1>13, OneLeafVerifies
<1>14. ASSUME lcProof.hash = KindHash(kind, tx)
       PROVE  VerifyMerkleProof(KindHash(kind, tx), lcProof.proof, lcProof.root)
  BY <1>11, <1>14
<1>15. QED
  BY <1>13, <1>14 DEF kind

LEMMA StateProofVerifies ==
  ASSUME ProvesState(lcProof)
  PROVE  /\ lcProof.found => VerifyMerkleProof(<<lcProof.key, lcProof.value>>, lcProof.proof, lcProof.root)
         /\ lcProof.found => Len(lcProof.proof) \in Nat
<1>1. PICK s, k : LcStored(s) /\ lcProof = StateAnswer(s, k)
  BY DEF ProvesState
<1> SUFFICES ASSUME lcProof.found
             PROVE  /\ VerifyMerkleProof(<<lcProof.key, lcProof.value>>, lcProof.proof, lcProof.root)
                    /\ Len(lcProof.proof) \in Nat
  OBVIOUS
<1> DEFINE leaves == Leaves(s)
           index == Place(s, k) - 1
<1>2. k \in DOMAIN s
  BY <1>1 DEF StateAnswer
<1>3. /\ lcProof.key = k /\ lcProof.value = s[k] /\ lcProof.root = MerkleRoot(leaves)
      /\ lcProof.proof = MerkleProof(leaves, index)
  BY <1>1, <1>2 DEF StateAnswer
<1>4. PICK S : leaves \in Seq(S)
  BY <1>1, LeavesAre
<1>5. /\ leaves # <<>>
      /\ Place(s, k) \in DOMAIN leaves
      /\ leaves[Place(s, k)] = <<k, s[k]>>
  BY <1>1, <1>2, LeavesAre
<1> HIDE DEF leaves
<1>6. index \in 0 .. Len(leaves) - 1 /\ index + 1 = Place(s, k)
  <2>1. Place(s, k) \in 1 .. Len(leaves) /\ Len(leaves) \in Nat
    BY <1>4, <1>5
  <2>2. QED
    BY <2>1
<1> HIDE DEF index
<1>7. VerifyMerkleProof(leaves[index + 1], MerkleProof(leaves, index), MerkleRoot(leaves))
  BY <1>4, <1>5, <1>6, OwnLeafVerifies
<1>8. Len(MerkleProof(leaves, index)) \in Nat
  BY <1>4, <1>5, ProofSteps, HeightIs
<1>9. QED
  BY <1>3, <1>5, <1>6, <1>7, <1>8

LEMMA LcInvImplies == LcInv => LcTypeOK /\ ProofsVerify
<1> SUFFICES ASSUME LcInv PROVE LcTypeOK /\ ProofsVerify
  OBVIOUS
<1>1. LcTypeOK
  <2>1. lcProof.kind \in {"none", "tx", "receipt", "state"}
    BY DEF LcInv, NoProof
  <2>2. lcProof.kind \in {"tx", "receipt"} => lcProof.block \in DOMAIN lcBlocks
    BY DEF LcInv, NoProof, ProvesTx
  <2>3. Len(lcBlocks) <= LcMaxBlocks
    BY LcAssumption DEF LcInv
  <2>4. QED
    BY <2>1, <2>2, <2>3 DEF LcTypeOK, LcInv, LcStored
<1>2. ASSUME lcProof.kind \in {"tx", "receipt"}, NEW tx \in ToSet(lcBlocks[lcProof.block].txs)
      PROVE  VerifyMerkleProof(IF lcProof.kind = "tx" THEN TxHash(tx) ELSE ReceiptHash(tx),
                               lcProof.proof, lcProof.root) <=>
               lcProof.hash = IF lcProof.kind = "tx" THEN TxHash(tx) ELSE ReceiptHash(tx)
  <2>1. ProvesTx(lcProof)
    BY <1>2 DEF LcInv, NoProof
  <2>2. KindHash(lcProof.kind, tx) = IF lcProof.kind = "tx" THEN TxHash(tx) ELSE ReceiptHash(tx)
    BY DEF KindHash
  <2>3. VerifyMerkleProof(KindHash(lcProof.kind, tx), lcProof.proof, lcProof.root) <=>
          lcProof.hash = KindHash(lcProof.kind, tx)
    BY <1>2, <2>1, TxProofVerifies
  <2>4. QED
    BY <2>2, <2>3
<1>3. ASSUME lcProof.kind = "state"
      PROVE  /\ VerifyComputeNodeStateProof(lcProof, lcProof.root) <=>
                  lcProof.found /\ lcProof.value # LcEmptyValue
             /\ \A v \in LcValues \ {lcProof.value} :
                  ~VerifyComputeNodeStateProof([lcProof EXCEPT !.value = v], lcProof.root)
             /\ lcBlocks # <<>> /\ VerifyComputeNodeStateProof(lcProof, Last(lcBlocks).stateRoot) =>
                \E i \in DOMAIN Last(lcBlocks).entries :
                  Last(lcBlocks).entries[i] = <<lcProof.key, lcProof.value>>
  <2>1. ProvesState(lcProof)
    BY <1>3 DEF LcInv, NoProof
  <2>2. VerifyComputeNodeStateProof(lcProof, lcProof.root) <=>
          lcProof.found /\ lcProof.value # LcEmptyValue
    BY <2>1, StateProofVerifies DEF VerifyComputeNodeStateProof
  <2>3. ASSUME NEW v \in LcValues \ {lcProof.value},
               VerifyComputeNodeStateProof([lcProof EXCEPT !.value = v], lcProof.root)
        PROVE  FALSE
    <3> DEFINE p == [lcProof EXCEPT !.value = v]
    <3>1. /\ p.found = lcProof.found /\ p.key = lcProof.key /\ p.proof = lcProof.proof
          /\ p.root = lcProof.root /\ p.value = v
      BY <2>1 DEF ProvesState, StateAnswer
    <3> HIDE DEF p
    <3>2. lcProof.found /\ VerifyMerkleProof(<<lcProof.key, v>>, lcProof.proof, lcProof.root)
      <4>1. p.found /\ VerifyMerkleProof(<<p.key, p.value>>, p.proof, p.root)
        BY <2>3 DEF p, VerifyComputeNodeStateProof
      <4>2. QED
        BY <3>1, <4>1
    <3>3. <<lcProof.key, v>> = <<lcProof.key, lcProof.value>>
      BY <2>1, <3>2, StateProofVerifies, OneLeafVerifies
    <3>4. QED
      BY <3>3
  <2>4. ASSUME lcBlocks # <<>>, VerifyComputeNodeStateProof(lcProof, Last(lcBlocks).stateRoot)
        PROVE  \E i \in DOMAIN Last(lcBlocks).entries :
                 Last(lcBlocks).entries[i] = <<lcProof.key, lcProof.value>>
    <3> DEFINE b == Last(lcBlocks)
    <3>1. Len(lcBlocks) \in DOMAIN lcBlocks
      <4>1. Len(lcBlocks) \in Nat /\ DOMAIN lcBlocks = 1 .. Len(lcBlocks)
        BY DEF LcInv
      <4>2. CASE Len(lcBlocks) = 0
        <5>1. lcBlocks = <<>>
          BY <4>1, <4>2
        <5>2. QED
          BY <2>4, <5>1
      <4>3. QED
        BY <4>1, <4>2
    <3>2. LcBlock(b)
      BY <3>1 DEF LcInv, Last
    <3>3. PICK s : LcStored(s) /\ b.entries = Leaves(s) /\ b.stateRoot = MerkleRoot(Leaves(s))
      BY <3>2 DEF LcBlock
    <3>4. PICK S : Leaves(s) \in Seq(S)
      BY <3>3, LeavesAre
    <3>5. /\ lcProof.found /\ b.stateRoot = lcProof.root
          /\ VerifyMerkleProof(<<lcProof.key, lcProof.value>>, lcProof.proof, lcProof.root)
      BY <2>4 DEF VerifyComputeNodeStateProof
    <3>6. Len(lcProof.proof) \in Nat
      BY <2>1, <3>5, StateProofVerifies
    <3> HIDE DEF b
    <3>7. VerifyMerkleProof(<<lcProof.key, lcProof.value>>, lcProof.proof, MerkleRoot(Leaves(s)))
      BY <3>3, <3>5
    <3>8. \E i \in DOMAIN Leaves(s) : Leaves(s)[i] = <<lcProof.key, lcProof.value>>
      BY <3>4, <3>6, <3>7, OnlyLeavesVerify
    <3>9. QED
      BY <3>3, <3>8 DEF b
  <2>5. QED
    BY <2>2, <2>3, <2>4
<1>4. QED
  BY <1>1, <1>2, <1>3 DEF ProofsVerify

\* Storage, blocks and answers have their types: a proof of a transaction or a receipt names a
\* block in memory (getTxProof, getReceiptProof).
THEOREM LcTypeCorrect == LcSpec => []LcTypeOK
BY LcInvHolds, LcInvImplies, PTL

\* For storages and blocks of any size, the VM's proofs verify for what they are about and for
\* nothing else, under the header of a later block too (getTxProof, getReceiptProof,
\* getStateProof, verifyMerkleProof, verifyComputeNodeStateProof).
THEOREM MerkleProofs == LcSpec => []ProofsVerify
BY LcInvHolds, LcInvImplies, PTL

-----------------------------------------------------------------------------
(* The log of the IndexedDB backend (Idb).                                  *)
(*                                                                          *)
(* Its loops turn as often as a list is long: the search halves what is     *)
(* left, and pairs in the order of their keys stay so whatever line is      *)
(* applied.  What a commit appends replays to what it made of the pairs     *)
(* (LoggedReplays), and what compact() writes to the pairs themselves       *)
(* (PutsRestore): the log and the memory of a connection go together.       *)

LEMMA SearchTurns ==
  ASSUME NEW pairs, NEW key, Len(pairs) \in Nat
  PROVE  \E g : /\ BinarySearch(pairs, key) = g[Len(pairs)].lo
                /\ g[0] = [lo |-> 0, hi |-> Len(pairs)]
                /\ \A k \in 0 .. Len(pairs) - 1 : g[k + 1] = Halve(pairs, key, g[k])
<1> DEFINE n == Len(pairs)
           start == [lo |-> 0, hi |-> n]
           list == [pairs |-> pairs, key |-> key]
           search == CHOOSE g : g = [k \in 0 .. n |-> IF k = 0 THEN start ELSE Halve(pairs, key, g[k - 1])]
<1>1. \E g : g = [k \in 0 .. n |-> IF k = 0 THEN start ELSE Halve(pairs, key, g[k - 1])]
  <2>1. PICK g : TurnsTo("search", list, start, n, g)
    BY TurnsExist
  <2>2. \A k, x : Turn("search", list, k, x) = Halve(pairs, key, x)
    BY DEF Turn
  <2>3. g = [k \in 0 .. n |-> IF k = 0 THEN start ELSE Turn("search", list, k, g[k - 1])]
    BY <2>1 DEF TurnsTo
  <2> HIDE DEF n, start, list
  <2>4. g = [k \in 0 .. n |-> IF k = 0 THEN start ELSE Halve(pairs, key, g[k - 1])]
    BY <2>2, <2>3
  <2>5. QED
    BY <2>4
<1>2. search = [k \in 0 .. n |-> IF k = 0 THEN start ELSE Halve(pairs, key, search[k - 1])]
  BY <1>1
<1>3. BinarySearch(pairs, key) = search[n].lo
  BY DEF BinarySearch
<1>4. n \in Nat
  OBVIOUS
<1> HIDE DEF search, n, start
<1>5. search[0] = start
  BY <1>2, <1>4
<1>6. ASSUME NEW k \in 0 .. n - 1 PROVE search[k + 1] = Halve(pairs, key, search[k])
  <2>1. k + 1 \in 0 .. n /\ k + 1 # 0 /\ (k + 1) - 1 = k
    BY <1>4
  <2>2. QED
    BY <1>2, <2>1
<1>7. QED
  BY <1>3, <1>5, <1>6 DEF n, start

\* The pairs after each line.
Applied(pairs, lines) ==
  CHOOSE g : g = [k \in 0 .. Len(lines) |-> IF k = 0 THEN pairs ELSE ApplyEntry(g[k - 1], lines[k])]

LEMMA AppliedTurns ==
  ASSUME NEW pairs, NEW lines, Len(lines) \in Nat
  PROVE  /\ ApplyEntries(pairs, lines) = Applied(pairs, lines)[Len(lines)]
         /\ Applied(pairs, lines)[0] = pairs
         /\ \A k \in 0 .. Len(lines) - 1 :
              Applied(pairs, lines)[k + 1] = ApplyEntry(Applied(pairs, lines)[k], lines[k + 1])
<1> DEFINE n == Len(lines)
           a == Applied(pairs, lines)
<1>1. \E g : g = [k \in 0 .. n |-> IF k = 0 THEN pairs ELSE ApplyEntry(g[k - 1], lines[k])]
  <2>1. PICK g : TurnsTo("apply", lines, pairs, n, g)
    BY TurnsExist
  <2>2. \A k, x : Turn("apply", lines, k, x) = ApplyEntry(x, lines[k])
    BY DEF Turn
  <2>3. g = [k \in 0 .. n |-> IF k = 0 THEN pairs ELSE Turn("apply", lines, k, g[k - 1])]
    BY <2>1 DEF TurnsTo
  <2> HIDE DEF n
  <2>4. g = [k \in 0 .. n |-> IF k = 0 THEN pairs ELSE ApplyEntry(g[k - 1], lines[k])]
    BY <2>2, <2>3
  <2>5. QED
    BY <2>4
<1>2. a = [k \in 0 .. n |-> IF k = 0 THEN pairs ELSE ApplyEntry(a[k - 1], lines[k])]
  BY <1>1 DEF Applied
<1>3. ApplyEntries(pairs, lines) = a[n]
  BY DEF ApplyEntries, Applied
<1>4. n \in Nat
  OBVIOUS
<1> HIDE DEF a, n
<1>5. a[0] = pairs
  BY <1>2, <1>4
<1>6. ASSUME NEW k \in 0 .. n - 1 PROVE a[k + 1] = ApplyEntry(a[k], lines[k + 1])
  <2>1. k + 1 \in 0 .. n /\ k + 1 # 0 /\ (k + 1) - 1 = k
    BY <1>4
  <2>2. QED
    BY <1>2, <2>1
<1>7. QED
  BY <1>3, <1>5, <1>6 DEF a, n

LEMMA LogTurns ==
  ASSUME NEW pairs, NEW ops, Len(ops) \in Nat
  PROVE  \E g : /\ Logged(pairs, ops) = g[Len(ops)]
                /\ g[0] = [pairs |-> pairs, lines |-> <<>>]
                /\ \A k \in 0 .. Len(ops) - 1 : g[k + 1] = LogOp(g[k], ops[k + 1])
<1> DEFINE n == Len(ops)
           start == [pairs |-> pairs, lines |-> <<>>]
           l == CHOOSE g : g = [k \in 0 .. n |-> IF k = 0 THEN start ELSE LogOp(g[k - 1], ops[k])]
<1>1. \E g : g = [k \in 0 .. n |-> IF k = 0 THEN start ELSE LogOp(g[k - 1], ops[k])]
  <2>1. PICK g : TurnsTo("log", ops, start, n, g)
    BY TurnsExist
  <2>2. \A k, x : Turn("log", ops, k, x) = LogOp(x, ops[k])
    BY DEF Turn
  <2>3. g = [k \in 0 .. n |-> IF k = 0 THEN start ELSE Turn("log", ops, k, g[k - 1])]
    BY <2>1 DEF TurnsTo
  <2> HIDE DEF n, start
  <2>4. g = [k \in 0 .. n |-> IF k = 0 THEN start ELSE LogOp(g[k - 1], ops[k])]
    BY <2>2, <2>3
  <2>5. QED
    BY <2>4
<1>2. l = [k \in 0 .. n |-> IF k = 0 THEN start ELSE LogOp(l[k - 1], ops[k])]
  BY <1>1
<1>3. Logged(pairs, ops) = l[n]
  BY DEF Logged
<1>4. n \in Nat
  OBVIOUS
<1> HIDE DEF l, n, start
<1>5. l[0] = start
  BY <1>2, <1>4
<1>6. ASSUME NEW k \in 0 .. n - 1 PROVE l[k + 1] = LogOp(l[k], ops[k + 1])
  <2>1. k + 1 \in 0 .. n /\ k + 1 # 0 /\ (k + 1) - 1 = k
    BY <1>4
  <2>2. QED
    BY <1>2, <2>1
<1>7. QED
  BY <1>3, <1>5, <1>6 DEF n, start
-----------------------------------------------------------------------------
IdbPairs == [key : IdbKeys, value : IdbValues]

\* Pairs of a connection: typed, and in the order of their keys.
InPlace(pairs) == pairs \in Seq(IdbPairs) /\ SortedPairs(pairs)

LEMMA Encoded ==
  ASSUME NEW n \in IdbNumbers
  PROVE  /\ EncodeNumber(n) \in Int
         /\ EncodeNumber(n) = IF n < 0 THEN IdbSign - 1 + n ELSE IdbSign + n
<1>1. n \in Int /\ IdbSign \in Int
  BY IdbAssumption
<1>2. CASE n < 0
  <2>1. EncodeNumber(n) = 2 * IdbSign - 1 - (IdbSign - n)
    BY <1>2 DEF EncodeNumber, IdbInverted, IdbBits
  <2>2. QED
    BY <1>1, <1>2, <2>1
<1>3. CASE ~ (n < 0)
  <2>1. EncodeNumber(n) = n + IdbSign
    BY <1>3 DEF EncodeNumber, IdbBits
  <2>2. QED
    BY <1>1, <1>3, <2>1
<1>4. QED
  BY <1>2, <1>3

LEMMA KeysAreInts == IdbKeys \subseteq Int
BY Encoded DEF IdbKeys

LEMMA InPlaceIs ==
  ASSUME NEW pairs, InPlace(pairs)
  PROVE  /\ pairs \in Seq(IdbPairs) /\ Len(pairs) \in Nat /\ DOMAIN pairs = 1 .. Len(pairs)
         /\ \A i \in 1 .. Len(pairs) :
              /\ pairs[i] \in IdbPairs /\ pairs[i].key \in IdbKeys /\ pairs[i].key \in Int
              /\ pairs[i].value \in IdbValues
              /\ pairs[i] = [key |-> pairs[i].key, value |-> pairs[i].value]
         /\ \A i, j \in 1 .. Len(pairs) : i < j => pairs[i].key < pairs[j].key
<1>1. pairs \in Seq(IdbPairs) /\ Len(pairs) \in Nat /\ DOMAIN pairs = 1 .. Len(pairs)
  BY DEF InPlace
<1>2. ASSUME NEW i \in 1 .. Len(pairs)
      PROVE  /\ pairs[i] \in IdbPairs /\ pairs[i].key \in IdbKeys /\ pairs[i].key \in Int
             /\ pairs[i].value \in IdbValues
             /\ pairs[i] = [key |-> pairs[i].key, value |-> pairs[i].value]
  <2>1. pairs[i] \in IdbPairs
    BY <1>1
  <2>2. QED
    BY <2>1, KeysAreInts DEF IdbPairs
<1>3. QED
  BY <1>1, <1>2 DEF InPlace, SortedPairs

\* The bytes of the keys are in the order of the numbers (encodeNumber).
THEOREM EncodingKeepsOrder == EncodingOrdered
<1>1. SUFFICES ASSUME NEW m \in IdbNumbers, NEW n \in IdbNumbers, m < n
               PROVE  EncodeNumber(m) < EncodeNumber(n)
  BY DEF EncodingOrdered
<1>2. m \in Int /\ n \in Int /\ IdbSign \in Int
  BY IdbAssumption
<1>3. /\ EncodeNumber(m) = IF m < 0 THEN IdbSign - 1 + m ELSE IdbSign + m
      /\ EncodeNumber(n) = IF n < 0 THEN IdbSign - 1 + n ELSE IdbSign + n
  BY Encoded
<1>4. QED
  BY <1>1, <1>2, <1>3

\* What k turns of the search have left.
Narrowed(pairs, key, s, k) ==
  /\ s = [lo |-> s.lo, hi |-> s.hi]
  /\ s.lo \in Nat /\ s.hi \in Nat
  /\ s.lo <= s.hi /\ s.hi <= Len(pairs)
  /\ \A i \in 1 .. s.lo : pairs[i].key < key
  /\ \A i \in s.hi + 1 .. Len(pairs) : pairs[i].key >= key
  /\ s.hi - s.lo <= Len(pairs) - k

LEMMA HalveNarrows ==
  ASSUME NEW pairs, InPlace(pairs), NEW key \in Int, NEW s,
         NEW k \in 0 .. Len(pairs) - 1, Narrowed(pairs, key, s, k)
  PROVE  Narrowed(pairs, key, Halve(pairs, key, s), k + 1)
<1> DEFINE n == Len(pairs)
           lo == s.lo
           hi == s.hi
           mid == (lo + hi) \div 2
<1>1. /\ lo \in Nat /\ hi \in Nat /\ n \in Nat /\ lo <= hi /\ hi <= n /\ hi - lo <= n - k
      /\ \A i \in 1 .. lo : pairs[i].key < key
      /\ \A i \in hi + 1 .. n : pairs[i].key >= key
  BY DEF Narrowed, InPlace
<1>2. \A i \in 1 .. n : pairs[i].key \in Int
  BY InPlaceIs
<1>3. \A i, j \in 1 .. n : i < j => pairs[i].key < pairs[j].key
  BY InPlaceIs
<1>4. k \in 0 .. n - 1
  OBVIOUS
<1>5. CASE lo >= hi
  <2>1. Halve(pairs, key, s) = s
    BY <1>5 DEF Halve
  <2>2. hi - lo <= n - (k + 1)
    BY <1>1, <1>4, <1>5
  <2>3. QED
    BY <2>1, <2>2 DEF Narrowed
<1>6. CASE lo < hi
  <2>1. mid \in Nat /\ lo <= mid /\ mid < hi /\ mid + 1 \in 1 .. n
    BY <1>1, <1>6
  <2>2. s = [lo |-> lo, hi |-> hi]
    BY DEF Narrowed
  <2>3. ~ (lo >= hi)
    BY <1>1, <1>6
  <2>4. CASE pairs[mid + 1].key < key
    <3>1. Halve(pairs, key, s) = [s EXCEPT !.lo = mid + 1]
      BY <2>3, <2>4 DEF Halve
    <3> HIDE DEF mid
    <3>2. Halve(pairs, key, s) = [lo |-> mid + 1, hi |-> hi]
      BY <2>2, <3>1
    <3>3. \A i \in 1 .. mid + 1 : pairs[i].key < key
      <4>1. TAKE i \in 1 .. mid + 1
      <4>2. CASE i = mid + 1
        BY <2>4, <4>2
      <4>3. CASE i # mid + 1
        <5>1. i \in 1 .. n /\ i < mid + 1
          BY <1>1, <2>1, <4>3
        <5>2. pairs[i].key < pairs[mid + 1].key
          BY <1>3, <2>1, <5>1
        <5>3. pairs[i].key \in Int /\ pairs[mid + 1].key \in Int
          BY <1>2, <2>1, <5>1
        <5>4. QED
          BY <2>4, <5>2, <5>3
      <4>4. QED
        BY <4>2, <4>3
    <3>4. mid + 1 \in Nat /\ mid + 1 <= hi /\ hi - (mid + 1) <= n - (k + 1)
      BY <1>1, <1>4, <2>1
    <3> HIDE DEF lo, hi, n
    <3>5. QED
      BY <1>1, <3>2, <3>3, <3>4 DEF Narrowed, n
  <2>5. CASE ~ (pairs[mid + 1].key < key)
    <3>1. Halve(pairs, key, s) = [s EXCEPT !.hi = mid]
      BY <2>3, <2>5 DEF Halve
    <3> HIDE DEF mid
    <3>2. Halve(pairs, key, s) = [lo |-> lo, hi |-> mid]
      BY <2>2, <3>1
    <3>3. \A i \in mid + 1 .. n : pairs[i].key >= key
      <4>1. TAKE i \in mid + 1 .. n
      <4>2. CASE i = mid + 1
        <5>1. pairs[mid + 1].key \in Int
          BY <1>2, <2>1
        <5>2. QED
          BY <2>5, <4>2, <5>1
      <4>3. CASE i # mid + 1
        <5>1. i \in 1 .. n /\ mid + 1 < i
          BY <1>1, <2>1, <4>3
        <5>2. pairs[mid + 1].key < pairs[i].key
          BY <1>3, <2>1, <5>1
        <5>3. pairs[i].key \in Int /\ pairs[mid + 1].key \in Int
          BY <1>2, <2>1, <5>1
        <5>4. QED
          BY <2>5, <5>2, <5>3
      <4>4. QED
        BY <4>2, <4>3
    <3>4. mid \in Nat /\ lo <= mid /\ mid <= n /\ mid - lo <= n - (k + 1)
      BY <1>1, <1>4, <2>1
    <3> HIDE DEF lo, hi, n
    <3>5. QED
      BY <1>1, <3>2, <3>3, <3>4 DEF Narrowed, n
  <2>6. QED
    BY <2>4, <2>5
<1>7. QED
  BY <1>1, <1>5, <1>6

\* The search finds the place of a key: all before it are smaller, all from it on are not.
LEMMA SearchFinds ==
  ASSUME NEW pairs, InPlace(pairs), NEW key \in Int
  PROVE  /\ BinarySearch(pairs, key) \in 0 .. Len(pairs)
         /\ \A i \in 1 .. BinarySearch(pairs, key) : pairs[i].key < key
         /\ \A i \in BinarySearch(pairs, key) + 1 .. Len(pairs) : pairs[i].key >= key
<1> DEFINE n == Len(pairs)
<1>1. n \in Nat
  BY DEF InPlace
<1>2. PICK g : /\ BinarySearch(pairs, key) = g[n].lo
               /\ g[0] = [lo |-> 0, hi |-> n]
               /\ \A k \in 0 .. n - 1 : g[k + 1] = Halve(pairs, key, g[k])
  BY <1>1, SearchTurns
<1> DEFINE T == {k \in 0 .. n : ~ Narrowed(pairs, key, g[k], k)}
<1>3. T = {}
  <2>1. SUFFICES ASSUME T # {} PROVE FALSE
    OBVIOUS
  <2>2. PICK k \in T : \A j \in T : k <= j
    <3>1. T \subseteq Nat
      BY <1>1
    <3> HIDE DEF T
    <3>2. QED
      BY <2>1, <3>1, LeastNumber
  <2>3. k \in 0 .. n /\ ~ Narrowed(pairs, key, g[k], k)
    OBVIOUS
  <2>4. Narrowed(pairs, key, g[0], 0)
    BY <1>1, <1>2 DEF Narrowed
  <2>5. k # 0
    BY <2>3, <2>4
  <2> DEFINE j == k - 1
  <2>6. j \in 0 .. n - 1 /\ j + 1 = k /\ j \in 0 .. n /\ j \notin T
    BY <1>1, <2>2, <2>3, <2>5
  <2> HIDE DEF j
  <2>7. Narrowed(pairs, key, g[j], j)
    BY <2>6
  <2> HIDE DEF T
  <2>8. Narrowed(pairs, key, Halve(pairs, key, g[j]), j + 1)
    BY <2>6, <2>7, HalveNarrows
  <2>9. QED
    BY <1>2, <2>3, <2>6, <2>8
<1>4. Narrowed(pairs, key, g[n], n)
  BY <1>1, <1>3
<1>5. g[n].lo \in Nat /\ g[n].hi = g[n].lo /\ g[n].lo <= n
  BY <1>1, <1>4 DEF Narrowed
<1>6. QED
  BY <1>1, <1>2, <1>4, <1>5 DEF Narrowed

\* Two sequences end to end.
LEMMA Joined ==
  ASSUME NEW S, NEW s \in Seq(S), NEW t \in Seq(S)
  PROVE  /\ s \o t \in Seq(S)
         /\ Len(s \o t) = Len(s) + Len(t)
         /\ \A i \in 1 .. Len(s) : (s \o t)[i] = s[i]
         /\ \A i \in 1 .. Len(t) : (s \o t)[Len(s) + i] = t[i]
         /\ \A i \in Len(s) + 1 .. Len(s) + Len(t) : (s \o t)[i] = t[i - Len(s)]
<1> DEFINE r == s \o t
<1>1. Len(s) \in Nat /\ Len(t) \in Nat
  OBVIOUS
<1>2. r \in Seq(S)
  OBVIOUS
<1>3. Len(r) = Len(s) + Len(t)
  OBVIOUS
<1>4. \A i \in 1 .. Len(s) + Len(t) : r[i] = IF i <= Len(s) THEN s[i] ELSE t[i - Len(s)]
  OBVIOUS
<1> HIDE DEF r
<1>5. \A i \in 1 .. Len(s) : r[i] = s[i]
  BY <1>1, <1>4
<1>6. ASSUME NEW i \in 1 .. Len(t) PROVE r[Len(s) + i] = t[i]
  <2>1. /\ Len(s) + i \in 1 .. Len(s) + Len(t) /\ ~ (Len(s) + i <= Len(s))
        /\ (Len(s) + i) - Len(s) = i
    BY <1>1
  <2>2. QED
    BY <1>4, <2>1
<1>7. ASSUME NEW i \in Len(s) + 1 .. Len(s) + Len(t) PROVE r[i] = t[i - Len(s)]
  <2>1. i \in 1 .. Len(s) + Len(t) /\ ~ (i <= Len(s))
    BY <1>1
  <2>2. QED
    BY <1>4, <2>1
<1>8. QED
  BY <1>2, <1>3, <1>5, <1>6, <1>7 DEF r

\* An insertion and a removal, element by element.
LEMMA InsertedAt ==
  ASSUME NEW S, NEW s \in Seq(S), NEW i \in 0 .. Len(s), NEW e \in S
  PROVE  /\ InsertAt(s, i + 1, e) \in Seq(S)
         /\ Len(InsertAt(s, i + 1, e)) = Len(s) + 1
         /\ \A j \in 1 .. Len(s) + 1 :
              InsertAt(s, i + 1, e)[j] = IF j <= i THEN s[j] ELSE IF j = i + 1 THEN e ELSE s[j - 1]
<1> DEFINE a == SubSeq(s, 1, i)
           b == SubSeq(s, i + 1, Len(s))
<1>1. Len(s) \in Nat /\ i \in Nat /\ i <= Len(s) /\ (i + 1) - 1 = i
  OBVIOUS
<1>2. a \in Seq(S) /\ Len(a) = i /\ \A j \in 1 .. i : a[j] = s[j]
  BY <1>1
<1>3. b \in Seq(S) /\ Len(b) = Len(s) - i /\ \A j \in 1 .. Len(s) - i : b[j] = s[i + j]
  BY <1>1
<1>4. InsertAt(s, i + 1, e) = (a \o <<e>>) \o b
  BY <1>1 DEF InsertAt
<1> DEFINE c == a \o <<e>>
<1> HIDE DEF a, b
<1>5. c \in Seq(S) /\ Len(c) = i + 1 /\ c[i + 1] = e /\ \A j \in 1 .. i : c[j] = s[j]
  <2>1. <<e>> \in Seq(S) /\ Len(<<e>>) = 1 /\ <<e>>[1] = e
    OBVIOUS
  <2> DEFINE o == <<e>>
  <2> HIDE DEF o
  <2>2. o \in Seq(S) /\ Len(o) = 1 /\ o[1] = e /\ c = a \o o
    BY <2>1 DEF o
  <2>3. c \in Seq(S) /\ Len(c) = i + 1
    BY <1>1, <1>2, <2>2
  <2>4. c[i + 1] = o[1]
    BY <1>1, <1>2, <2>2
  <2>5. \A j \in 1 .. i : c[j] = a[j]
    BY <1>1, <1>2, <2>2
  <2>6. QED
    BY <1>2, <2>2, <2>3, <2>4, <2>5
<1> HIDE DEF c
<1> DEFINE r == c \o b
<1>6. r \in Seq(S) /\ Len(r) = Len(s) + 1
  <2>1. r \in Seq(S) /\ Len(r) = Len(c) + Len(b)
    BY <1>3, <1>5, Joined
  <2> HIDE DEF r
  <2>2. QED
    BY <1>1, <1>3, <1>5, <2>1
<1>7. ASSUME NEW j \in 1 .. Len(s) + 1
      PROVE  r[j] = IF j <= i THEN s[j] ELSE IF j = i + 1 THEN e ELSE s[j - 1]
  <2>1. CASE j <= i + 1
    <3>1. r[j] = c[j]
      BY <1>1, <1>3, <1>5, <2>1
    <3>2. QED
      BY <1>1, <1>5, <2>1, <3>1
  <2>2. CASE ~ (j <= i + 1)
    <3>1. r[j] = b[j - (i + 1)]
      BY <1>1, <1>3, <1>5, <2>2
    <3>2. j - (i + 1) \in 1 .. Len(s) - i /\ i + (j - (i + 1)) = j - 1
      BY <1>1, <2>2
    <3>3. QED
      BY <1>1, <1>3, <2>2, <3>1, <3>2
  <2>3. QED
    BY <2>1, <2>2
<1>8. InsertAt(s, i + 1, e) = r
  BY <1>4 DEF c
<1> HIDE DEF r
<1>9. QED
  BY <1>6, <1>7, <1>8

LEMMA RemovedAt ==
  ASSUME NEW S, NEW s \in Seq(S), NEW i \in 1 .. Len(s)
  PROVE  /\ RemoveAt(s, i) \in Seq(S)
         /\ Len(RemoveAt(s, i)) = Len(s) - 1
         /\ \A j \in 1 .. Len(s) - 1 : RemoveAt(s, i)[j] = IF j < i THEN s[j] ELSE s[j + 1]
<1> DEFINE a == SubSeq(s, 1, i - 1)
           b == SubSeq(s, i + 1, Len(s))
<1>1. Len(s) \in Nat /\ i \in Nat /\ 1 <= i /\ i <= Len(s)
  OBVIOUS
<1>2. a \in Seq(S) /\ Len(a) = i - 1 /\ \A j \in 1 .. i - 1 : a[j] = s[j]
  BY <1>1
<1>3. b \in Seq(S) /\ Len(b) = Len(s) - i /\ \A j \in 1 .. Len(s) - i : b[j] = s[i + j]
  BY <1>1
<1>4. RemoveAt(s, i) = a \o b
  BY DEF RemoveAt
<1> HIDE DEF a, b
<1> DEFINE r == a \o b
<1>5. r \in Seq(S) /\ Len(r) = Len(s) - 1
  <2>1. r \in Seq(S) /\ Len(r) = Len(a) + Len(b)
    BY <1>2, <1>3, Joined
  <2> HIDE DEF r
  <2>2. QED
    BY <1>1, <1>2, <1>3, <2>1
<1>6. ASSUME NEW j \in 1 .. Len(s) - 1 PROVE r[j] = IF j < i THEN s[j] ELSE s[j + 1]
  <2>1. CASE j < i
    <3>1. r[j] = a[j]
      BY <1>1, <1>2, <1>3, <2>1
    <3>2. QED
      BY <1>1, <1>2, <2>1, <3>1
  <2>2. CASE ~ (j < i)
    <3>1. r[j] = b[j - (i - 1)]
      BY <1>1, <1>2, <1>3, <2>2
    <3>2. j - (i - 1) \in 1 .. Len(s) - i /\ i + (j - (i - 1)) = j + 1
      BY <1>1, <2>2
    <3>3. QED
      BY <1>1, <1>3, <2>2, <3>1, <3>2
  <2>3. QED
    BY <2>1, <2>2
<1> HIDE DEF r
<1>7. QED
  BY <1>4, <1>5, <1>6 DEF r

LEMMA ApplyIs ==
  ASSUME NEW pairs, NEW line \in IdbLines
  PROVE  LET i == BinarySearch(pairs, line.key)
         IN  /\ line = Malformed => ApplyEntry(pairs, line) = pairs
             /\ line \in IdbOps => line.key \in IdbKeys
             /\ line \in IdbOps => line.op \in {"put", "del"}
             /\ line \in IdbOps /\ line.op = "put" => line.value \in IdbValues
             /\ line \in IdbOps /\ line.op = "put" /\ Finds(pairs, i, line.key) =>
                  ApplyEntry(pairs, line) = [pairs EXCEPT ![i + 1].value = line.value]
             /\ line \in IdbOps /\ line.op = "put" /\ ~Finds(pairs, i, line.key) =>
                  ApplyEntry(pairs, line) =
                    InsertAt(pairs, i + 1, [key |-> line.key, value |-> line.value])
             /\ line \in IdbOps /\ line.op = "del" /\ Finds(pairs, i, line.key) =>
                  ApplyEntry(pairs, line) = RemoveAt(pairs, i + 1)
             /\ line \in IdbOps /\ line.op = "del" /\ ~Finds(pairs, i, line.key) =>
                  ApplyEntry(pairs, line) = pairs
<1> DEFINE i == BinarySearch(pairs, line.key)
<1>1. CASE line = Malformed
  <2>1. line.op = "malformed"
    BY <1>1 DEF Malformed
  <2>2. line \notin IdbOps
    BY <2>1 DEF IdbOps, IdbPut, IdbDel
  <2>3. ApplyEntry(pairs, line) = pairs
    BY <2>1 DEF ApplyEntry
  <2>4. QED
    BY <2>2, <2>3
<1>2. CASE line \in IdbOps
  <2>1. /\ line.op \in {"put", "del"} /\ line.op # "malformed" /\ line.key \in IdbKeys
        /\ line.op = "put" => line.value \in IdbValues
    BY <1>2 DEF IdbOps, IdbPut, IdbDel
  <2>2. line # Malformed
    BY <2>1 DEF Malformed
  <2>3. ApplyEntry(pairs, line) =
          CASE line.op = "put" /\ Finds(pairs, i, line.key) -> [pairs EXCEPT ![i + 1].value = line.value]
            [] line.op = "put" /\ ~Finds(pairs, i, line.key) ->
                 InsertAt(pairs, i + 1, [key |-> line.key, value |-> line.value])
            [] line.op = "del" /\ Finds(pairs, i, line.key) -> RemoveAt(pairs, i + 1)
            [] OTHER -> pairs
    BY <2>1 DEF ApplyEntry
  <2> HIDE DEF i
  <2>4. /\ line.op = "put" /\ Finds(pairs, i, line.key) =>
             ApplyEntry(pairs, line) = [pairs EXCEPT ![i + 1].value = line.value]
        /\ line.op = "put" /\ ~Finds(pairs, i, line.key) =>
             ApplyEntry(pairs, line) = InsertAt(pairs, i + 1, [key |-> line.key, value |-> line.value])
        /\ line.op = "del" /\ Finds(pairs, i, line.key) => ApplyEntry(pairs, line) = RemoveAt(pairs, i + 1)
        /\ line.op = "del" /\ ~Finds(pairs, i, line.key) => ApplyEntry(pairs, line) = pairs
    BY <2>1, <2>3
  <2>5. QED
    BY <2>1, <2>2, <2>4 DEF i
<1>3. QED
  BY <1>1, <1>2 DEF IdbLines

\* A line leaves the pairs in the order of their keys.
LEMMA ApplyKeeps ==
  ASSUME NEW pairs, InPlace(pairs), NEW line \in IdbLines
  PROVE  InPlace(ApplyEntry(pairs, line))
<1> DEFINE n == Len(pairs)
           key == line.key
           i == BinarySearch(pairs, key)
           new == ApplyEntry(pairs, line)
<1>1. /\ n \in Nat /\ pairs \in Seq(IdbPairs)
      /\ \A j \in 1 .. n : pairs[j] \in IdbPairs /\ pairs[j].key \in Int
      /\ \A j, k \in 1 .. n : j < k => pairs[j].key < pairs[k].key
  BY InPlaceIs
<1>2. CASE line = Malformed
  BY <1>2, ApplyIs
<1>3. CASE line \in IdbOps
  <2>1. key \in IdbKeys /\ key \in Int /\ line.op \in {"put", "del"}
    BY <1>3, ApplyIs, KeysAreInts
  <2>2. /\ i \in 0 .. n
        /\ \A j \in 1 .. i : pairs[j].key < key
        /\ \A j \in i + 1 .. n : pairs[j].key >= key
    BY <2>1, SearchFinds
  <2>3. CASE line.op = "put" /\ Finds(pairs, i, key)
    <3>1. line.value \in IdbValues /\ new = [pairs EXCEPT ![i + 1].value = line.value]
      BY <1>3, <2>3, ApplyIs
    <3>2. i + 1 \in 1 .. n
      BY <1>1, <2>2, <2>3 DEF Finds
    <3> DEFINE e == [pairs[i + 1] EXCEPT !.value = line.value]
    <3>3. new = [pairs EXCEPT ![i + 1] = e]
      BY <3>1
    <3>4. e \in IdbPairs /\ e.key = pairs[i + 1].key
      BY <1>1, <3>1, <3>2 DEF IdbPairs
    <3> HIDE DEF e, new, i, key
    <3>5. new \in Seq(IdbPairs) /\ Len(new) = n /\ \A j \in 1 .. n : new[j].key = pairs[j].key
      BY <1>1, <3>2, <3>3, <3>4
    <3> HIDE DEF n
    <3>6. DOMAIN new = 1 .. n
      BY <3>5
    <3>7. \A j, k \in 1 .. n : j < k => new[j].key < new[k].key
      BY <1>1, <3>5
    <3>8. QED
      BY <3>5, <3>6, <3>7 DEF InPlace, SortedPairs, new
  <2>4. CASE line.op = "put" /\ ~Finds(pairs, i, key)
    <3> DEFINE e == [key |-> key, value |-> line.value]
    <3>1. line.value \in IdbValues /\ new = InsertAt(pairs, i + 1, e)
      BY <1>3, <2>4, ApplyIs
    <3>2. e \in IdbPairs /\ e.key = key
      BY <2>1, <3>1 DEF IdbPairs
    <3> HIDE DEF e, new, i, key
    <3>3. /\ new \in Seq(IdbPairs) /\ Len(new) = n + 1
          /\ \A j \in 1 .. n + 1 : new[j] = IF j <= i THEN pairs[j] ELSE IF j = i + 1 THEN e ELSE pairs[j - 1]
      <4>1. i \in 0 .. Len(pairs)
        BY <2>2
      <4> DEFINE more == InsertAt(pairs, i + 1, e)
      <4>2. /\ more \in Seq(IdbPairs) /\ Len(more) = Len(pairs) + 1
            /\ \A j \in 1 .. Len(pairs) + 1 :
                 more[j] = IF j <= i THEN pairs[j] ELSE IF j = i + 1 THEN e ELSE pairs[j - 1]
        BY <1>1, <3>2, <4>1, InsertedAt
      <4>3. new = more
        BY <3>1
      <4> HIDE DEF more
      <4>4. QED
        BY <4>2, <4>3
    <3>4. \A j \in i + 1 .. n : pairs[j].key > key
      <4>1. TAKE j \in i + 1 .. n
      <4>2. i < n /\ i + 1 \in 1 .. n /\ pairs[i + 1].key # key
        BY <1>1, <2>2, <2>4 DEF Finds
      <4>3. pairs[i + 1].key \in Int /\ pairs[i + 1].key >= key
        BY <1>1, <2>2, <4>2
      <4>4. pairs[i + 1].key > key
        BY <2>1, <4>2, <4>3
      <4>5. CASE j = i + 1
        BY <4>4, <4>5
      <4>6. CASE j # i + 1
        <5>1. j \in 1 .. n /\ i + 1 < j
          BY <1>1, <2>2, <4>6
        <5>2. pairs[i + 1].key < pairs[j].key /\ pairs[j].key \in Int
          BY <1>1, <4>2, <5>1
        <5>3. QED
          BY <2>1, <4>3, <4>4, <5>2
      <4>7. QED
        BY <4>5, <4>6
    <3> HIDE DEF n
    <3>5. DOMAIN new = 1 .. n + 1
      BY <1>1, <3>3
    <3>6. ASSUME NEW j \in 1 .. n + 1, NEW k \in 1 .. n + 1, j < k PROVE new[j].key < new[k].key
      <4>1. CASE k <= i
        <5>1. new[j] = pairs[j] /\ new[k] = pairs[k] /\ j \in 1 .. n /\ k \in 1 .. n
          BY <1>1, <2>2, <3>3, <3>6, <4>1
        <5>2. QED
          BY <1>1, <3>6, <5>1
      <4>2. CASE k = i + 1
        <5>1. new[j] = pairs[j] /\ new[k] = e /\ j \in 1 .. i
          BY <1>1, <2>2, <3>3, <3>6, <4>2
        <5>2. QED
          BY <2>2, <3>2, <5>1
      <4>3. CASE k > i + 1 /\ j = i + 1
        <5>1. new[j] = e /\ new[k] = pairs[k - 1] /\ k - 1 \in i + 1 .. n
          BY <1>1, <2>2, <3>3, <3>6, <4>3
        <5>2. pairs[k - 1].key > key /\ pairs[k - 1].key \in Int
          BY <1>1, <2>2, <3>4, <5>1
        <5>3. QED
          BY <2>1, <3>2, <5>1, <5>2
      <4>4. CASE k > i + 1 /\ j <= i
        <5>1. new[j] = pairs[j] /\ new[k] = pairs[k - 1] /\ j \in 1 .. n /\ k - 1 \in 1 .. n /\ j < k - 1
          BY <1>1, <2>2, <3>3, <3>6, <4>4
        <5>2. QED
          BY <1>1, <5>1
      <4>5. CASE k > i + 1 /\ j > i + 1
        <5>1. new[j] = pairs[j - 1] /\ new[k] = pairs[k - 1] /\ j - 1 \in 1 .. n /\ k - 1 \in 1 .. n /\ j - 1 < k - 1
          BY <1>1, <2>2, <3>3, <3>6, <4>5
        <5>2. QED
          BY <1>1, <5>1
      <4>6. QED
        BY <1>1, <2>2, <3>6, <4>1, <4>2, <4>3, <4>4, <4>5
    <3>7. QED
      BY <3>3, <3>5, <3>6 DEF InPlace, SortedPairs, new
  <2>5. CASE line.op = "del" /\ Finds(pairs, i, key)
    <3>1. new = RemoveAt(pairs, i + 1)
      BY <1>3, <2>5, ApplyIs
    <3>2. i + 1 \in 1 .. n /\ i \in Nat
      BY <1>1, <2>2, <2>5 DEF Finds
    <3> HIDE DEF new, i, key
    <3>3. /\ new \in Seq(IdbPairs) /\ Len(new) = n - 1
          /\ \A j \in 1 .. n - 1 : new[j] = IF j < i + 1 THEN pairs[j] ELSE pairs[j + 1]
      BY <1>1, <3>1, <3>2, RemovedAt
    <3> HIDE DEF n
    <3>4. DOMAIN new = 1 .. n - 1
      BY <1>1, <3>3
    <3>5. ASSUME NEW j \in 1 .. n - 1, NEW k \in 1 .. n - 1, j < k PROVE new[j].key < new[k].key
      <4>1. /\ j \in 1 .. n /\ k \in 1 .. n /\ j + 1 \in 1 .. n /\ k + 1 \in 1 .. n
            /\ j < k + 1 /\ j + 1 < k + 1
        BY <1>1, <3>5
      <4>2. CASE k < i + 1
        <5>1. new[j] = pairs[j] /\ new[k] = pairs[k]
          BY <3>2, <3>3, <3>5, <4>2
        <5>2. QED
          BY <1>1, <3>5, <4>1, <5>1
      <4>3. CASE ~ (k < i + 1) /\ j < i + 1
        <5>1. new[j] = pairs[j] /\ new[k] = pairs[k + 1]
          BY <3>3, <4>3
        <5>2. QED
          BY <1>1, <4>1, <5>1
      <4>4. CASE ~ (j < i + 1)
        <5>1. new[j] = pairs[j + 1] /\ new[k] = pairs[k + 1]
          BY <3>2, <3>3, <3>5, <4>4
        <5>2. QED
          BY <1>1, <4>1, <5>1
      <4>5. QED
        BY <4>2, <4>3, <4>4
    <3>6. QED
      BY <3>3, <3>4, <3>5 DEF InPlace, SortedPairs, new
  <2>6. CASE line.op = "del" /\ ~Finds(pairs, i, key)
    <3>1. new = pairs
      BY <1>3, <2>6, ApplyIs
    <3>2. QED
      BY <3>1
  <2>7. QED
    BY <2>1, <2>3, <2>4, <2>5, <2>6
<1>4. QED
  BY <1>2, <1>3 DEF IdbLines

\* A set of numbers that holds 0 and, with each below n, the next holds all up to n.
LEMMA CountUp ==
  ASSUME NEW n \in Nat, NEW G, 0 \in G, \A k \in 0 .. n - 1 : k \in G => k + 1 \in G
  PROVE  \A k \in 0 .. n : k \in G
<1> DEFINE T == {k \in 0 .. n : k \notin G}
<1>1. SUFFICES ASSUME T # {} PROVE FALSE
  OBVIOUS
<1>2. PICK k \in T : \A j \in T : k <= j
  <2>1. T \subseteq Nat
    OBVIOUS
  <2> HIDE DEF T
  <2>2. QED
    BY <1>1, <2>1, LeastNumber
<1>3. k \in 0 .. n /\ k \notin G /\ k # 0
  OBVIOUS
<1> DEFINE j == k - 1
<1>4. j \in 0 .. n - 1 /\ j + 1 = k /\ j \in 0 .. n /\ j \notin T
  BY <1>2, <1>3
<1> HIDE DEF j
<1>5. j \in G
  BY <1>4
<1>6. QED
  BY <1>3, <1>4, <1>5

\* Two sequences of as many elements, one by one the same, are the same.
LEMMA SameSeq ==
  ASSUME NEW S, NEW s \in Seq(S), NEW t, t = [i \in 1 .. Len(s) |-> t[i]],
         \A i \in 1 .. Len(s) : s[i] = t[i]
  PROVE  s = t
<1>1. s = [i \in 1 .. Len(s) |-> s[i]]
  OBVIOUS
<1>2. QED
  BY <1>1

LEMMA NoLines ==
  ASSUME NEW pairs
  PROVE  ApplyEntries(pairs, <<>>) = pairs
<1>1. Len(<<>>) = 0
  OBVIOUS
<1>2. QED
  BY <1>1, AppliedTurns

LEMMA OneLine ==
  ASSUME NEW pairs, NEW line
  PROVE  ApplyEntries(pairs, <<line>>) = ApplyEntry(pairs, line)
<1> DEFINE lines == <<line>>
<1>1. Len(lines) = 1 /\ lines[1] = line
  OBVIOUS
<1> HIDE DEF lines
<1>4. Len(lines) \in Nat
  BY <1>1
<1> DEFINE A == Applied(pairs, lines)
<1>2. /\ ApplyEntries(pairs, lines) = A[Len(lines)] /\ A[0] = pairs
      /\ \A k \in 0 .. Len(lines) - 1 : A[k + 1] = ApplyEntry(A[k], lines[k + 1])
  BY <1>4, AppliedTurns
<1> HIDE DEF A
<1>3. ApplyEntries(pairs, lines) = ApplyEntry(pairs, line)
  <2>1. 0 \in 0 .. Len(lines) - 1 /\ 0 + 1 = 1
    BY <1>1
  <2>2. A[0 + 1] = ApplyEntry(A[0], lines[0 + 1])
    BY <1>2, <2>1
  <2>3. QED
    BY <1>1, <1>2, <2>1, <2>2
<1>5. QED
  BY <1>3 DEF lines

\* Lines behind lines are applied to what the first ones made.
LEMMA EntriesJoin ==
  ASSUME NEW pairs, NEW S, NEW a \in Seq(S), NEW b \in Seq(S)
  PROVE  ApplyEntries(pairs, a \o b) = ApplyEntries(ApplyEntries(pairs, a), b)
<1> DEFINE c == a \o b
           A == Applied(pairs, a)
           mid == ApplyEntries(pairs, a)
           B == Applied(mid, b)
           C == Applied(pairs, c)
           m == Len(a)
           n == Len(b)
<1>1. m \in Nat /\ n \in Nat /\ Len(c) = m + n
  OBVIOUS
<1>2. /\ \A i \in 1 .. m : c[i] = a[i]
      /\ \A i \in 1 .. n : c[m + i] = b[i]
  BY Joined
<1>3. A[0] = pairs /\ mid = A[m] /\ \A k \in 0 .. m - 1 : A[k + 1] = ApplyEntry(A[k], a[k + 1])
  BY <1>1, AppliedTurns
<1> HIDE DEF mid, A
<1>4. B[0] = mid /\ ApplyEntries(mid, b) = B[n] /\ \A k \in 0 .. n - 1 : B[k + 1] = ApplyEntry(B[k], b[k + 1])
  BY <1>1, AppliedTurns
<1> HIDE DEF c, B
<1>5. Len(c) \in Nat
  BY <1>1
<1>6. C[0] = pairs /\ ApplyEntries(pairs, c) = C[Len(c)]
      /\ \A k \in 0 .. Len(c) - 1 : C[k + 1] = ApplyEntry(C[k], c[k + 1])
  BY <1>5, AppliedTurns
<1> HIDE DEF C, m, n
<1> DEFINE G == {k \in 0 .. m : C[k] = A[k]}
           H == {k \in 0 .. n : C[m + k] = B[k]}
<1>7. \A k \in 0 .. m : k \in G
  <2>1. 0 \in G
    BY <1>1, <1>3, <1>6
  <2>2. ASSUME NEW k \in 0 .. m - 1, k \in G PROVE k + 1 \in G
    <3>1. k + 1 \in 1 .. m /\ k \in 0 .. Len(c) - 1
      BY <1>1
    <3>2. C[k + 1] = ApplyEntry(C[k], c[k + 1]) /\ A[k + 1] = ApplyEntry(A[k], a[k + 1])
      BY <1>3, <1>6, <3>1
    <3>3. C[k + 1] = A[k + 1]
      BY <1>2, <2>2, <3>1, <3>2
    <3>4. QED
      BY <1>1, <3>1, <3>3
  <2> HIDE DEF G
  <2>3. QED
    BY <1>1, <2>1, <2>2, CountUp
<1>8. C[m] = mid
  BY <1>1, <1>3, <1>7
<1>9. \A k \in 0 .. n : k \in H
  <2>1. 0 \in H
    <3>1. m + 0 = m
      BY <1>1
    <3>2. QED
      BY <1>1, <1>4, <1>8, <3>1
  <2>2. ASSUME NEW k \in 0 .. n - 1, k \in H PROVE k + 1 \in H
    <3>1. k + 1 \in 1 .. n /\ m + k \in 0 .. Len(c) - 1 /\ (m + k) + 1 = m + (k + 1)
      BY <1>1
    <3>2. C[m + (k + 1)] = ApplyEntry(C[m + k], c[m + (k + 1)]) /\ B[k + 1] = ApplyEntry(B[k], b[k + 1])
      BY <1>4, <1>6, <3>1
    <3>3. C[m + (k + 1)] = B[k + 1]
      BY <1>2, <2>2, <3>1, <3>2
    <3>4. QED
      BY <1>1, <3>1, <3>3
  <2> HIDE DEF H
  <2>3. QED
    BY <1>1, <2>1, <2>2, CountUp
<1>10. C[m + n] = B[n]
  BY <1>1, <1>9
<1>11. QED
  BY <1>1, <1>4, <1>6, <1>10 DEF c, mid

LEMMA EntriesKeep ==
  ASSUME NEW pairs, InPlace(pairs), NEW lines \in Seq(IdbLines)
  PROVE  InPlace(ApplyEntries(pairs, lines))
<1> DEFINE n == Len(lines)
           A == Applied(pairs, lines)
           G == {k \in 0 .. n : InPlace(A[k])}
<1>1. n \in Nat /\ \A k \in 1 .. n : lines[k] \in IdbLines
  OBVIOUS
<1>2. A[0] = pairs /\ ApplyEntries(pairs, lines) = A[n]
      /\ \A k \in 0 .. n - 1 : A[k + 1] = ApplyEntry(A[k], lines[k + 1])
  BY <1>1, AppliedTurns
<1> HIDE DEF A, n
<1>3. 0 \in G
  BY <1>1, <1>2
<1>4. ASSUME NEW k \in 0 .. n - 1, k \in G PROVE k + 1 \in G
  <2>1. k + 1 \in 1 .. n /\ k + 1 \in 0 .. n
    BY <1>1
  <2>2. InPlace(A[k]) /\ lines[k + 1] \in IdbLines /\ A[k + 1] = ApplyEntry(A[k], lines[k + 1])
    BY <1>1, <1>2, <1>4, <2>1
  <2>3. InPlace(A[k + 1])
    BY <2>2, ApplyKeeps
  <2>4. QED
    BY <2>1, <2>3
<1>5. n \in G
  <2> HIDE DEF G
  <2>1. \A k \in 0 .. n : k \in G
    BY <1>1, <1>3, <1>4, CountUp
  <2>2. QED
    BY <1>1, <2>1
<1>6. QED
  BY <1>2, <1>5

LEMMA NothingInPlace == InPlace(<<>>)
BY DEF InPlace, SortedPairs

LEMMA ReplayInPlace ==
  ASSUME NEW lines \in Seq(IdbLines)
  PROVE  InPlace(Replay(lines))
BY NothingInPlace, EntriesKeep DEF Replay

Dels(pairs) == [i \in DOMAIN pairs |-> IdbDel(pairs[i].key)]
Puts(pairs) == [i \in DOMAIN pairs |-> IdbPut(pairs[i].key, pairs[i].value)]

LEMMA PairLines ==
  ASSUME NEW pairs, InPlace(pairs)
  PROVE  /\ Dels(pairs) \in Seq(IdbOps) /\ Len(Dels(pairs)) = Len(pairs)
         /\ Puts(pairs) \in Seq(IdbOps) /\ Len(Puts(pairs)) = Len(pairs)
         /\ \A i \in 1 .. Len(pairs) :
              /\ Dels(pairs)[i] = IdbDel(pairs[i].key)
              /\ Puts(pairs)[i] = IdbPut(pairs[i].key, pairs[i].value)
<1> DEFINE n == Len(pairs)
<1>1. /\ n \in Nat /\ DOMAIN pairs = 1 .. n
      /\ \A i \in 1 .. n : pairs[i].key \in IdbKeys /\ pairs[i].value \in IdbValues
  BY InPlaceIs
<1>2. \A i \in 1 .. n : /\ IdbDel(pairs[i].key) \in IdbOps
                        /\ IdbPut(pairs[i].key, pairs[i].value) \in IdbOps
  BY <1>1 DEF IdbOps
<1>3. /\ Dels(pairs) = [i \in 1 .. n |-> IdbDel(pairs[i].key)]
      /\ Puts(pairs) = [i \in 1 .. n |-> IdbPut(pairs[i].key, pairs[i].value)]
  BY <1>1 DEF Dels, Puts
<1> DEFINE d == Dels(pairs)
           p == Puts(pairs)
<1> HIDE DEF d, p, n
<1>4. d \in [1 .. n -> IdbOps] /\ p \in [1 .. n -> IdbOps]
  BY <1>2, <1>3 DEF d, p
<1>5. d \in Seq(IdbOps) /\ Len(d) = n /\ p \in Seq(IdbOps) /\ Len(p) = n
  BY <1>1, <1>4
<1>6. \A i \in 1 .. n : d[i] = IdbDel(pairs[i].key) /\ p[i] = IdbPut(pairs[i].key, pairs[i].value)
  BY <1>3 DEF d, p
<1>7. QED
  BY <1>5, <1>6 DEF d, p, n

\* The deletions that clear() logs empty the pairs.
LEMMA DelsEmpty ==
  ASSUME NEW pairs, InPlace(pairs)
  PROVE  ApplyEntries(pairs, Dels(pairs)) = <<>>
<1> DEFINE n == Len(pairs)
           lines == Dels(pairs)
           A == Applied(pairs, lines)
           rest(k) == [i \in 1 .. n - k |-> pairs[i + k]]
           G == {k \in 0 .. n : A[k] = rest(k)}
<1>1. /\ n \in Nat /\ pairs \in Seq(IdbPairs) /\ DOMAIN pairs = 1 .. n
      /\ \A i \in 1 .. n : pairs[i] \in IdbPairs /\ pairs[i].key \in IdbKeys /\ pairs[i].key \in Int
      /\ \A i, j \in 1 .. n : i < j => pairs[i].key < pairs[j].key
  BY InPlaceIs
<1>2. Len(lines) = n /\ \A i \in 1 .. n : lines[i] = IdbDel(pairs[i].key)
  BY PairLines
<1> HIDE DEF lines
<1>3. A[0] = pairs /\ ApplyEntries(pairs, lines) = A[n]
      /\ \A k \in 0 .. n - 1 : A[k + 1] = ApplyEntry(A[k], lines[k + 1])
  BY <1>1, <1>2, AppliedTurns
<1> HIDE DEF A
<1>4. ASSUME NEW k \in 0 .. n PROVE InPlace(rest(k)) /\ Len(rest(k)) = n - k
  <2> DEFINE r == rest(k)
  <2>1. n - k \in Nat /\ \A i \in 1 .. n - k : i + k \in 1 .. n
    BY <1>1
  <2>2. r \in [1 .. n - k -> IdbPairs]
    BY <1>1, <2>1
  <2>3. \A i \in 1 .. n - k : r[i] = pairs[i + k]
    OBVIOUS
  <2> HIDE DEF r, n
  <2>4. r \in Seq(IdbPairs) /\ Len(r) = n - k /\ DOMAIN r = 1 .. n - k
    BY <2>1, <2>2
  <2>5. \A i, j \in 1 .. n - k : i < j => r[i].key < r[j].key
    <3>1. TAKE i, j \in 1 .. n - k
    <3>2. HAVE i < j
    <3>3. i + k \in 1 .. n /\ j + k \in 1 .. n /\ i + k < j + k
      BY <1>1, <3>2
    <3>4. QED
      BY <1>1, <2>3, <3>3
  <2>6. QED
    BY <2>4, <2>5 DEF InPlace, SortedPairs, r
<1>5. 0 \in G
  <2> DEFINE r == rest(0)
  <2>1. \A i \in 1 .. n : i + 0 = i
    BY <1>1
  <2>2. r = [i \in 1 .. n |-> pairs[i]]
    BY <1>1, <2>1
  <2> HIDE DEF n, r
  <2>3. pairs = r
    BY <1>1, <2>2
  <2>4. A[0] = rest(0) /\ 0 \in 0 .. n
    BY <1>1, <1>3, <2>3 DEF r
  <2> HIDE DEF rest
  <2>5. QED
    BY <2>4
<1>6. ASSUME NEW k \in 0 .. n - 1, k \in G PROVE k + 1 \in G
  <2> DEFINE x == rest(k)
             line == lines[k + 1]
             key == line.key
             b == BinarySearch(x, key)
             y == ApplyEntry(x, line)
  <2>1. /\ k + 1 \in 1 .. n /\ k \in 0 .. n /\ k + 1 \in 0 .. n /\ 1 \in 1 .. n - k /\ 1 + k = k + 1
        /\ n - k \in Nat
    BY <1>1
  <2>2. line = IdbDel(pairs[k + 1].key)
    BY <1>2, <2>1
  <2>3. /\ key = pairs[k + 1].key /\ key \in IdbKeys /\ key \in Int
        /\ line.op = "del" /\ line \in IdbOps /\ line \in IdbLines
    BY <1>1, <2>1, <2>2 DEF IdbDel, IdbOps, IdbLines
  <2>4. InPlace(x) /\ Len(x) = n - k
    BY <1>4, <2>1
  <2>5. x[1] = pairs[k + 1]
    BY <2>1
  <2>6. A[k] = x
    BY <1>6
  <2> HIDE DEF G
  <2>7. \A j \in 1 .. n - k : x[j] = pairs[j + k]
    OBVIOUS
  <2> HIDE DEF x, rest
  <2>8. b \in 0 .. n - k /\ \A i \in 1 .. b : x[i].key < key
    BY <2>3, <2>4, SearchFinds
  <2> HIDE DEF line, key
  <2>9. b = 0
    <3>1. SUFFICES ASSUME b # 0 PROVE FALSE
      OBVIOUS
    <3>2. 1 \in 1 .. b
      BY <2>1, <2>8, <3>1
    <3>3. x[1].key < key
      BY <2>8, <3>2
    <3>4. QED
      BY <2>3, <2>5, <3>3
  <2>10. Finds(x, b, key)
    BY <2>1, <2>3, <2>4, <2>5, <2>9 DEF Finds
  <2>11. y = RemoveAt(x, 1)
    <3>1. y = RemoveAt(x, b + 1)
      BY <2>3, <2>10, ApplyIs DEF key
    <3>2. QED
      BY <2>9, <3>1
  <2> HIDE DEF b, y
  <2>12. y \in Seq(IdbPairs) /\ Len(y) = n - (k + 1) /\ \A j \in 1 .. n - (k + 1) : y[j] = x[j + 1]
    <3>1. x \in Seq(IdbPairs) /\ 1 \in 1 .. Len(x)
      BY <2>1, <2>4 DEF InPlace
    <3> DEFINE z == RemoveAt(x, 1)
    <3>2. /\ z \in Seq(IdbPairs) /\ Len(z) = Len(x) - 1
          /\ \A j \in 1 .. Len(x) - 1 : z[j] = IF j < 1 THEN x[j] ELSE x[j + 1]
      BY <3>1, RemovedAt
    <3>3. y = z
      BY <2>11
    <3> HIDE DEF z, n
    <3>4. Len(x) - 1 = n - (k + 1)
      BY <1>1, <2>4
    <3>5. QED
      BY <3>2, <3>3, <3>4
  <2>13. \A j \in 1 .. n - (k + 1) : y[j] = pairs[j + (k + 1)]
    <3>1. TAKE j \in 1 .. n - (k + 1)
    <3>2. j + 1 \in 1 .. n - k /\ (j + 1) + k = j + (k + 1)
      BY <1>1
    <3>3. x[j + 1] = pairs[j + (k + 1)]
      BY <2>7, <3>2
    <3>4. QED
      BY <2>12, <3>3
  <2>14. y = [j \in 1 .. n - (k + 1) |-> y[j]]
    <3>1. y = [j \in 1 .. Len(y) |-> y[j]]
      BY <2>12
    <3> HIDE DEF n
    <3>2. QED
      BY <2>12, <3>1
  <2>15. y = rest(k + 1)
    BY <2>13, <2>14 DEF rest
  <2>16. A[k + 1] = y
    BY <1>3, <2>6 DEF y, line
  <2>17. QED
    BY <2>1, <2>15, <2>16 DEF G
<1>7. n \in G
  <2> HIDE DEF G
  <2>1. \A k \in 0 .. n : k \in G
    BY <1>1, <1>5, <1>6, CountUp
  <2>2. QED
    BY <1>1, <2>1
<1>8. rest(n) = <<>>
  <2>1. n \in 0 .. n /\ n - n = 0
    BY <1>1
  <2>2. InPlace(rest(n)) /\ Len(rest(n)) = 0
    BY <1>4, <2>1
  <2> DEFINE r == rest(n)
  <2> HIDE DEF r, rest
  <2>3. r \in Seq(IdbPairs) /\ Len(r) = 0
    BY <2>2 DEF InPlace, r
  <2>4. r = <<>>
    BY <2>3
  <2>5. QED
    BY <2>4 DEF r
<1>9. QED
  BY <1>3, <1>7, <1>8 DEF lines

\* Compaction writes a put for each pair: replaying them gives the pairs back.
LEMMA PutsRestore ==
  ASSUME NEW pairs, InPlace(pairs)
  PROVE  Replay(Puts(pairs)) = pairs
<1> DEFINE n == Len(pairs)
           lines == Puts(pairs)
           A == Applied(<<>>, lines)
           front(k) == [i \in 1 .. k |-> pairs[i]]
           G == {k \in 0 .. n : A[k] = front(k)}
<1>1. /\ n \in Nat /\ pairs \in Seq(IdbPairs) /\ DOMAIN pairs = 1 .. n
      /\ \A i \in 1 .. n : /\ pairs[i] \in IdbPairs /\ pairs[i].key \in IdbKeys
                           /\ pairs[i].key \in Int /\ pairs[i].value \in IdbValues
                           /\ pairs[i] = [key |-> pairs[i].key, value |-> pairs[i].value]
      /\ \A i, j \in 1 .. n : i < j => pairs[i].key < pairs[j].key
  BY InPlaceIs
<1>2. Len(lines) = n /\ \A i \in 1 .. n : lines[i] = IdbPut(pairs[i].key, pairs[i].value)
  BY PairLines
<1> HIDE DEF lines
<1>3. A[0] = <<>> /\ Replay(lines) = A[n]
      /\ \A k \in 0 .. n - 1 : A[k + 1] = ApplyEntry(A[k], lines[k + 1])
  BY <1>1, <1>2, AppliedTurns DEF Replay
<1> HIDE DEF A
<1>4. ASSUME NEW k \in 0 .. n PROVE InPlace(front(k)) /\ Len(front(k)) = k
  <2> DEFINE r == front(k)
  <2>1. k \in Nat /\ \A i \in 1 .. k : i \in 1 .. n
    BY <1>1
  <2>2. r \in [1 .. k -> IdbPairs]
    BY <1>1, <2>1
  <2>3. \A i \in 1 .. k : r[i] = pairs[i]
    OBVIOUS
  <2> HIDE DEF r, n
  <2>4. r \in Seq(IdbPairs) /\ Len(r) = k /\ DOMAIN r = 1 .. k
    BY <2>1, <2>2
  <2>5. \A i, j \in 1 .. k : i < j => r[i].key < r[j].key
    BY <1>1, <2>1, <2>3
  <2>6. QED
    BY <2>4, <2>5 DEF InPlace, SortedPairs, r
<1>5. 0 \in G
  <2> DEFINE r == front(0)
  <2>1. 0 \in 0 .. n
    BY <1>1
  <2>2. InPlace(r) /\ Len(r) = 0
    BY <1>4, <2>1
  <2> HIDE DEF r
  <2>3. r = <<>>
    BY <2>2 DEF InPlace
  <2>4. QED
    BY <1>3, <2>1, <2>3 DEF r
<1>6. ASSUME NEW k \in 0 .. n - 1, k \in G PROVE k + 1 \in G
  <2> DEFINE x == front(k)
             line == lines[k + 1]
             key == line.key
             b == BinarySearch(x, key)
             y == ApplyEntry(x, line)
             e == pairs[k + 1]
  <2>1. k + 1 \in 1 .. n /\ k \in 0 .. n /\ k + 1 \in 0 .. n /\ k \in Nat
    BY <1>1
  <2>2. line = IdbPut(e.key, e.value)
    BY <1>2, <2>1
  <2>3. /\ key = e.key /\ key \in IdbKeys /\ key \in Int /\ line.value = e.value
        /\ line.op = "put" /\ line \in IdbOps /\ line \in IdbLines
        /\ e \in IdbPairs /\ e = [key |-> key, value |-> line.value]
    BY <1>1, <2>1, <2>2 DEF IdbPut, IdbOps, IdbLines
  <2>4. InPlace(x) /\ Len(x) = k
    BY <1>4, <2>1
  <2>6. A[k] = x
    BY <1>6
  <2> HIDE DEF G
  <2>7. \A j \in 1 .. k : x[j] = pairs[j]
    OBVIOUS
  <2> HIDE DEF x, front
  <2>8. b \in 0 .. k /\ \A i \in b + 1 .. k : x[i].key >= key
    BY <2>3, <2>4, SearchFinds
  <2>9. b = k
    <3> HIDE DEF line, key
    <3>1. SUFFICES ASSUME b # k PROVE FALSE
      OBVIOUS
    <3>2. k \in b + 1 .. k /\ k \in 1 .. k /\ k \in 1 .. n /\ k < k + 1
      BY <2>1, <2>8, <3>1
    <3>3. x[k].key >= key /\ x[k] = pairs[k]
      BY <2>7, <2>8, <3>2
    <3>4. pairs[k].key < e.key /\ pairs[k].key \in Int
      BY <1>1, <2>1, <3>2
    <3>5. QED
      BY <2>3, <3>3, <3>4
  <2>10. ~ Finds(x, b, key)
    BY <2>1, <2>4, <2>9 DEF Finds
  <2>11. y = InsertAt(x, k + 1, e)
    <3>1. y = InsertAt(x, b + 1, [key |-> line.key, value |-> line.value])
      BY <2>3, <2>10, ApplyIs
    <3>2. QED
      BY <2>3, <2>9, <3>1
  <2> HIDE DEF b, y, line, key, e
  <2>12. /\ y \in Seq(IdbPairs) /\ Len(y) = k + 1
         /\ \A j \in 1 .. k + 1 : y[j] = IF j <= k THEN x[j] ELSE IF j = k + 1 THEN e ELSE x[j - 1]
    <3> DEFINE i == k
               z == InsertAt(x, i + 1, e)
    <3>1. x \in Seq(IdbPairs) /\ e \in IdbPairs
      BY <2>3, <2>4 DEF InPlace
    <3>2. i \in 0 .. Len(x)
      BY <2>1, <2>4
    <3>3. y = z
      BY <2>11
    <3> HIDE DEF i
    <3>4. /\ z \in Seq(IdbPairs) /\ Len(z) = Len(x) + 1
          /\ \A j \in 1 .. Len(x) + 1 : z[j] = IF j <= i THEN x[j] ELSE IF j = i + 1 THEN e ELSE x[j - 1]
      BY <3>1, <3>2, InsertedAt
    <3> HIDE DEF z, n
    <3>5. /\ y \in Seq(IdbPairs) /\ Len(y) = Len(x) + 1
          /\ \A j \in 1 .. Len(x) + 1 : y[j] = IF j <= i THEN x[j] ELSE IF j = i + 1 THEN e ELSE x[j - 1]
      BY <3>3, <3>4
    <3>6. QED
      BY <2>4, <3>5 DEF i
  <2>13. \A j \in 1 .. k + 1 : y[j] = pairs[j]
    <3>1. TAKE j \in 1 .. k + 1
    <3>2. CASE j <= k
      BY <2>1, <2>7, <2>12, <3>2
    <3>3. CASE ~ (j <= k)
      <4>1. j = k + 1
        BY <2>1, <3>3
      <4>2. y[j] = e
        BY <2>1, <2>12, <4>1
      <4>3. QED
        BY <4>1, <4>2 DEF e
    <3>4. QED
      BY <3>2, <3>3
  <2>14. y = [j \in 1 .. k + 1 |-> y[j]]
    <3>1. y = [j \in 1 .. Len(y) |-> y[j]]
      BY <2>12
    <3>2. QED
      BY <2>12, <3>1
  <2>15. y = front(k + 1)
    BY <2>13, <2>14 DEF front
  <2>16. A[k + 1] = y
    BY <1>3, <2>6 DEF y, line
  <2>17. QED
    BY <2>1, <2>15, <2>16 DEF G
<1>7. n \in G
  <2> HIDE DEF G
  <2>1. \A k \in 0 .. n : k \in G
    BY <1>1, <1>5, <1>6, CountUp
  <2>2. QED
    BY <1>1, <2>1
<1>8. front(n) = pairs
  <2> DEFINE m == Len(pairs)
  <2>1. pairs = [i \in 1 .. Len(pairs) |-> pairs[i]]
    BY <1>1
  <2>2. QED
    BY <2>1
<1>9. QED
  BY <1>3, <1>7, <1>8 DEF lines

\* What a commit logs replays to what it makes of the pairs.
LEMMA LoggedReplays ==
  ASSUME NEW pairs, InPlace(pairs), NEW ops \in Seq(IdbOps \cup {IdbClear})
  PROVE  LET done == Logged(pairs, ops)
         IN  /\ InPlace(done.pairs)
             /\ done.lines \in Seq(IdbOps)
             /\ done.pairs = ApplyEntries(pairs, done.lines)
<1> DEFINE n == Len(ops)
           Good(s) == /\ InPlace(s.pairs) /\ s.lines \in Seq(IdbOps)
                      /\ s.pairs = ApplyEntries(pairs, s.lines)
<1>1. n \in Nat /\ \A k \in 1 .. n : ops[k] \in IdbOps \cup {IdbClear}
  OBVIOUS
<1>2. PICK g : /\ Logged(pairs, ops) = g[n] /\ g[0] = [pairs |-> pairs, lines |-> <<>>]
               /\ \A k \in 0 .. n - 1 : g[k + 1] = LogOp(g[k], ops[k + 1])
  <2>1. Len(ops) \in Nat
    OBVIOUS
  <2> HIDE DEF Good
  <2>2. QED
    BY <2>1, LogTurns
<1> HIDE DEF n
<1> DEFINE G == {k \in 0 .. n : Good(g[k])}
<1>3. 0 \in G
  <2>1. Good(g[0])
    BY <1>2, NoLines
  <2> HIDE DEF Good
  <2>2. QED
    BY <1>1, <2>1
<1>4. ASSUME NEW k \in 0 .. n - 1, k \in G PROVE k + 1 \in G
  <2> DEFINE s == g[k]
             op == ops[k + 1]
             t == LogOp(s, op)
  <2>1. k + 1 \in 1 .. n /\ k + 1 \in 0 .. n
    BY <1>1
  <2>2. op \in IdbOps \cup {IdbClear} /\ g[k + 1] = t
    BY <1>1, <1>2, <2>1
  <2>3. /\ InPlace(s.pairs) /\ s.lines \in Seq(IdbOps)
        /\ s.pairs = ApplyEntries(pairs, s.lines)
    BY <1>4
  <2> HIDE DEF G, s, op
  <2>4. CASE op = IdbClear
    <3> DEFINE d == Dels(s.pairs)
    <3>1. op.op = "clear"
      BY <2>4 DEF IdbClear
    <3>2. t = [pairs |-> <<>>, lines |-> s.lines \o d]
      BY <3>1 DEF LogOp, Dels
    <3>3. d \in Seq(IdbOps) /\ ApplyEntries(s.pairs, d) = <<>>
      BY <2>3, PairLines, DelsEmpty
    <3> HIDE DEF d
    <3>4. s.lines \o d \in Seq(IdbOps)
      BY <2>3, <3>3
    <3>5. ApplyEntries(pairs, s.lines \o d) = <<>>
      BY <2>3, <3>3, EntriesJoin
    <3> HIDE DEF t
    <3>6. Good(t)
      BY <3>2, <3>4, <3>5, NothingInPlace
    <3>7. QED
      BY <2>1, <2>2, <3>6 DEF G
  <2>5. CASE op \in IdbOps
    <3> DEFINE one == <<op>>
    <3>1. op.op # "clear"
      BY <2>5 DEF IdbOps, IdbPut, IdbDel
    <3>2. t = [pairs |-> ApplyEntry(s.pairs, op), lines |-> Append(s.lines, op)]
      BY <3>1 DEF LogOp
    <3>3. Append(s.lines, op) \in Seq(IdbOps) /\ Append(s.lines, op) = s.lines \o one /\ one \in Seq(IdbOps)
      BY <2>3, <2>5
    <3>4. ApplyEntries(s.pairs, one) = ApplyEntry(s.pairs, op)
      BY OneLine
    <3> HIDE DEF one
    <3>5. ApplyEntries(pairs, s.lines \o one) = ApplyEntry(s.pairs, op)
      BY <2>3, <3>3, <3>4, EntriesJoin
    <3>6. InPlace(ApplyEntry(s.pairs, op))
      BY <2>3, <2>5, ApplyKeeps DEF IdbLines
    <3> HIDE DEF t
    <3>7. Good(t)
      BY <3>2, <3>3, <3>5, <3>6
    <3>8. QED
      BY <2>1, <2>2, <3>7 DEF G
  <2>6. QED
    BY <2>2, <2>4, <2>5
<1>5. n \in G
  <2> HIDE DEF G
  <2>1. \A k \in 0 .. n : k \in G
    BY <1>1, <1>3, <1>4, CountUp
  <2>2. QED
    BY <1>1, <2>1
<1>6. QED
  BY <1>2, <1>5

IdbFiles == [lines : Seq(IdbLines), tail : Seq(IdbLines)]
IdbDisks == [version : 0 .. 1, schema : BOOLEAN]
IdbTasks == [task : {"delete"}] \cup [task : {"open", "commit"}, conn : IdbConns]

IdbFileOK(file) == file \in IdbFiles /\ Len(file.tail) <= 1

\* A connection: its pairs in place, a request for each operation not yet committed.
IdbConnOK(conn) ==
  /\ conn \in [state : {"closed", "opening", "upgrading", "open", "rejected"}, stores : BOOLEAN,
               pairs : Seq(IdbPairs), ops : Seq(IdbOps \cup {IdbClear}), requests : Nat]
  /\ InPlace(conn.pairs)
  /\ conn.requests = Len(conn.ops)

\* A queued microtask belongs to a connection that awaits it.
IdbAwaited(micro, conns) ==
  /\ micro \in Seq(IdbTasks)
  /\ \A i \in DOMAIN micro : micro[i].task = "delete" \/ conns[micro[i].conn].state # "closed"

IdbStateOK ==
  /\ IdbFileOK(idbFile)
  /\ idbDisk \in IdbDisks
  /\ idbConn = [c \in IdbConns |-> idbConn[c]]
  /\ \A c \in IdbConns : IdbConnOK(idbConn[c])
  /\ IdbAwaited(idbMicro, idbConn)
  /\ idbFresh \subseteq IdbConns

IdbInv == IdbStateOK /\ LogIsMemory

LEMMA FileIs ==
  ASSUME NEW file, IdbFileOK(file)
  PROVE  /\ file = [lines |-> file.lines, tail |-> file.tail]
         /\ file.lines \in Seq(IdbLines) /\ file.tail \in Seq(IdbLines)
         /\ Content(file) \in Seq(IdbLines) /\ Len(file.tail) <= 1
BY DEF IdbFileOK, IdbFiles, Content

LEMMA FileOf ==
  ASSUME NEW lines \in Seq(IdbLines), NEW tail \in Seq(IdbLines), Len(tail) <= 1
  PROVE  IdbFileOK([lines |-> lines, tail |-> tail])
BY DEF IdbFileOK, IdbFiles

LEMMA EmptyTail == <<>> \in Seq(IdbLines) /\ Len(<<>>) <= 1
OBVIOUS

LEMMA EmptyFile == IdbFileOK(NoFile)
BY EmptyTail, FileOf DEF NoFile

LEMMA OpsAreLines == Seq(IdbOps) \subseteq Seq(IdbLines)
<1>1. ASSUME NEW s \in Seq(IdbOps) PROVE s \in Seq(IdbLines)
  BY DEF IdbLines
<1>2. QED
  BY <1>1

\* Appending keeps the file typed, and the new lines follow what was there unless that is torn.
LEMMA AppendedIs ==
  ASSUME NEW file, IdbFileOK(file), NEW lines \in Seq(IdbLines)
  PROVE  /\ IdbFileOK(Appended(file, lines))
         /\ lines = <<>> => Appended(file, lines) = file
         /\ lines # <<>> /\ file.tail = <<>> =>
              Content(file) = file.lines /\ Content(Appended(file, lines)) = file.lines \o lines
<1> DEFINE all == file.lines \o (IF file.tail = <<>> THEN lines ELSE <<Malformed>> \o Tail(lines))
<1>1. file.lines \in Seq(IdbLines) /\ file.tail \in Seq(IdbLines)
  BY FileIs
<1>2. CASE lines = <<>>
  BY <1>2 DEF Appended
<1>3. CASE lines # <<>>
  <2>1. Appended(file, lines) = [lines |-> all, tail |-> <<>>]
    BY <1>3 DEF Appended
  <2>2. CASE file.tail = <<>>
    <3>1. all = file.lines \o lines
      BY <2>2
    <3>2. all \in Seq(IdbLines)
      BY <1>1, <3>1, Joined
    <3> HIDE DEF all
    <3>3. Content(file) = file.lines /\ Content(Appended(file, lines)) = all
      BY <1>1, <2>1, <2>2, <3>2 DEF Content
    <3>4. IdbFileOK(Appended(file, lines))
      BY <2>1, <3>2, EmptyTail, FileOf
    <3> DEFINE f == Appended(file, lines)
    <3>6. Content(file) = file.lines /\ Content(f) = file.lines \o lines /\ IdbFileOK(f)
      BY <3>1, <3>3, <3>4
    <3> HIDE DEF f
    <3>7. QED
      BY <1>3, <2>2, <3>6, Zenon DEF f
  <2>3. CASE file.tail # <<>>
    <3> DEFINE one == <<Malformed>>
               rest == one \o Tail(lines)
    <3>1. one \in Seq(IdbLines) /\ Len(one) = 1 /\ one[1] = Malformed
      BY DEF IdbLines
    <3>2. Tail(lines) \in Seq(IdbLines)
      BY <1>3
    <3>3. all = file.lines \o rest
      BY <2>3
    <3> HIDE DEF one, all
    <3>4. rest \in Seq(IdbLines)
      <4> DEFINE behind == Tail(lines)
      <4> HIDE DEF behind
      <4>1. behind \in Seq(IdbLines) /\ rest = one \o behind
        BY <3>2 DEF behind
      <4> HIDE DEF rest
      <4>2. QED
        BY <3>1, <4>1, Joined
    <3> HIDE DEF rest
    <3>5. all \in Seq(IdbLines)
      BY <1>1, <3>3, <3>4, Joined
    <3>6. IdbFileOK(Appended(file, lines))
      BY <2>1, <3>5, EmptyTail, FileOf
    <3>7. QED
      BY <1>3, <2>3, <3>6
  <2>4. QED
    BY <2>2, <2>3
<1>4. QED
  BY <1>2, <1>3

LEMMA TornFiles ==
  ASSUME NEW file, IdbFileOK(file), NEW line \in IdbLines, NEW torn \in Tears(file, line)
  PROVE  IdbFileOK(torn)
<1>1. file = [lines |-> file.lines, tail |-> file.tail] /\ file.lines \in Seq(IdbLines)
  BY FileIs
<1>2. CASE torn = file
  BY <1>2
<1>3. CASE torn # file
  <2>1. PICK l \in {Malformed, line} :
          torn = [file EXCEPT !.tail = <<IF file.tail = <<>> THEN l ELSE Malformed>>]
    BY <1>3 DEF Tears
  <2> DEFINE e == IF file.tail = <<>> THEN l ELSE Malformed
             one == <<e>>
  <2>2. e \in IdbLines
    BY <2>1 DEF IdbLines
  <2>3. torn = [file EXCEPT !.tail = one]
    BY <2>1
  <2> HIDE DEF e
  <2>4. one \in Seq(IdbLines) /\ Len(one) = 1
    BY <2>2
  <2> HIDE DEF one
  <2>5. torn = [lines |-> file.lines, tail |-> one]
    BY <1>1, <2>3
  <2>6. QED
    <3>1. Len(one) <= 1
      BY <2>4
    <3>2. QED
      BY <1>1, <2>4, <2>5, <3>1, FileOf
<1>4. QED
  BY <1>2, <1>3

\* A crash inside a microtask leaves typed files.
LEMMA PartialFiles ==
  ASSUME IdbStateOK, NEW micro \in IdbTasks, NEW p \in Partial(micro)
  PROVE  IdbFileOK(p[1]) /\ p[2] \in IdbDisks
<1>1. IdbFileOK(idbFile) /\ idbDisk \in IdbDisks
  BY DEF IdbStateOK
<1>2. [idbDisk EXCEPT !.version = 0] \in IdbDisks /\ [idbDisk EXCEPT !.version = 1] \in IdbDisks
  BY <1>1 DEF IdbDisks
<1>3. CASE micro.task = "delete"
  BY <1>1, <1>2, <1>3, EmptyFile DEF Partial
<1>4. CASE micro.task # "delete"
  <2> DEFINE c == micro.conn
             lines == Logged(idbConn[c].pairs, idbConn[c].ops).lines
  <2>1. c \in IdbConns
    BY <1>4 DEF IdbTasks
  <2>2. CASE idbConn[c].state = "upgrading"
    <3>1. p = <<idbFile, [idbDisk EXCEPT !.version = 1]>>
      BY <1>4, <2>2 DEF Partial
    <3>2. QED
      BY <1>1, <1>2, <3>1
  <2>3. CASE idbConn[c].state # "upgrading"
    <3>1. PICK k \in DOMAIN lines :
            p \in Tears(Appended(idbFile, SubSeq(lines, 1, k - 1)), lines[k]) \X {idbDisk}
      BY <1>4, <2>3 DEF Partial
    <3>2. InPlace(idbConn[c].pairs) /\ idbConn[c].ops \in Seq(IdbOps \cup {IdbClear})
      BY <2>1 DEF IdbStateOK, IdbConnOK
    <3>3. lines \in Seq(IdbOps)
      BY <3>2, LoggedReplays
    <3> DEFINE before == SubSeq(lines, 1, k - 1)
               line == lines[k]
    <3> HIDE DEF c, lines
    <3>4. lines \in Seq(IdbLines) /\ k \in 1 .. Len(lines) /\ Len(lines) \in Nat
      BY <3>1, <3>3, OpsAreLines
    <3>5. before \in Seq(IdbLines) /\ line \in IdbLines
      BY <3>4
    <3> HIDE DEF before, line
    <3> DEFINE file == Appended(idbFile, before)
    <3>6. IdbFileOK(file)
      BY <1>1, <3>5, AppendedIs
    <3>7. p \in Tears(file, line) \X {idbDisk}
      BY <3>1 DEF before, line
    <3> HIDE DEF file
    <3>8. p[1] \in Tears(file, line) /\ p[2] = idbDisk
      BY <3>7
    <3>9. QED
      BY <1>1, <3>5, <3>6, <3>8, TornFiles
  <2>4. QED
    BY <2>2, <2>3
<1>5. QED
  BY <1>3, <1>4

LEMMA ClosedOK == IdbConnOK(Closed)
BY NothingInPlace DEF IdbConnOK, Closed

\* A queue stays awaited when a task is taken, when one is added for a connection that is not
\* closed, and when no connection closes.
LEMMA TaskTaken ==
  ASSUME NEW micro, NEW conns, IdbAwaited(micro, conns), micro # <<>>
  PROVE  IdbAwaited(Tail(micro), conns) /\ Head(micro) \in IdbTasks
<1>1. micro \in Seq(IdbTasks) /\ Len(micro) \in Nat /\ Len(micro) # 0
  BY DEF IdbAwaited
<1>2. Tail(micro) \in Seq(IdbTasks) /\ Head(micro) \in IdbTasks /\ Len(Tail(micro)) = Len(micro) - 1
  BY <1>1
<1>3. \A i \in 1 .. Len(micro) - 1 : Tail(micro)[i] = micro[i + 1] /\ i + 1 \in DOMAIN micro
  BY <1>1
<1>4. DOMAIN Tail(micro) = 1 .. Len(micro) - 1
  BY <1>1, <1>2
<1>5. QED
  BY <1>2, <1>3, <1>4 DEF IdbAwaited

LEMMA TaskAdded ==
  ASSUME NEW micro, NEW conns, IdbAwaited(micro, conns), NEW task \in IdbTasks,
         task.task = "delete" \/ conns[task.conn].state # "closed"
  PROVE  IdbAwaited(Append(micro, task), conns)
<1> DEFINE more == Append(micro, task)
<1>1. micro \in Seq(IdbTasks) /\ Len(micro) \in Nat
  BY DEF IdbAwaited
<1>2. more \in Seq(IdbTasks) /\ DOMAIN more = 1 .. Len(micro) + 1
  BY <1>1
<1>3. \A i \in 1 .. Len(micro) + 1 : more[i] = IF i <= Len(micro) THEN micro[i] ELSE task
  BY <1>1
<1> HIDE DEF more
<1>4. ASSUME NEW i \in DOMAIN more
      PROVE  more[i].task = "delete" \/ conns[more[i].conn].state # "closed"
  <2>1. CASE i <= Len(micro)
    <3>1. i \in DOMAIN micro /\ more[i] = micro[i]
      BY <1>1, <1>2, <1>3, <2>1
    <3>2. QED
      BY <3>1 DEF IdbAwaited
  <2>2. CASE ~ (i <= Len(micro))
    BY <1>2, <1>3, <2>2
  <2>3. QED
    BY <2>1, <2>2
<1>5. QED
  BY <1>2, <1>4 DEF IdbAwaited, more

LEMMA StillAwaited ==
  ASSUME NEW micro, NEW conns, NEW later, IdbAwaited(micro, conns),
         \A c \in IdbConns : conns[c].state # "closed" => later[c].state # "closed"
  PROVE  IdbAwaited(micro, later)
<1>1. micro \in Seq(IdbTasks)
  BY DEF IdbAwaited
<1>2. ASSUME NEW i \in DOMAIN micro
      PROVE  micro[i].task = "delete" \/ later[micro[i].conn].state # "closed"
  <2>1. micro[i] \in IdbTasks
    BY <1>1
  <2>2. micro[i].task = "delete" \/ micro[i].conn \in IdbConns
    BY <2>1 DEF IdbTasks
  <2>3. QED
    BY <2>2 DEF IdbAwaited
<1>3. QED
  BY <1>1, <1>2 DEF IdbAwaited

LEMMA NoneAwaited ==
  ASSUME NEW conns
  PROVE  IdbAwaited(<<>>, conns)
BY DEF IdbAwaited

LEMMA IdbStarts ==
  ASSUME IdbInit
  PROVE  IdbInv
<1>1. IdbFileOK(idbFile)
  BY EmptyFile DEF IdbInit, NoFile
<1>2. idbDisk \in IdbDisks
  BY DEF IdbInit, IdbDisks
<1>3. \A c \in IdbConns : idbConn[c] = Closed /\ IdbConnOK(idbConn[c])
  BY ClosedOK DEF IdbInit
<1>4. idbConn = [c \in IdbConns |-> idbConn[c]]
  BY DEF IdbInit
<1>5. IdbAwaited(idbMicro, idbConn) /\ idbFresh = IdbConns
  BY NoneAwaited DEF IdbInit
<1>6. LogIsMemory
  <2>1. \A c \in IdbConns : idbConn[c].state = "closed"
    BY <1>3 DEF Closed
  <2>2. QED
    BY <1>5, <2>1 DEF LogIsMemory
<1>7. QED
  BY <1>1, <1>2, <1>3, <1>4, <1>5, <1>6 DEF IdbInv, IdbStateOK

\* One connection changes and does not close.
LEMMA OneConnChanges ==
  ASSUME IdbInv, NEW c \in IdbConns, NEW conn, IdbConnOK(conn),
         idbConn' = [idbConn EXCEPT ![c] = conn],
         idbConn[c].state # "closed" => conn.state # "closed"
  PROVE  /\ idbConn' = [d \in IdbConns |-> idbConn'[d]]
         /\ \A d \in IdbConns : IdbConnOK(idbConn'[d])
         /\ idbConn'[c] = conn
         /\ \A d \in IdbConns \ {c} : idbConn'[d] = idbConn[d]
         /\ \A d \in IdbConns : idbConn[d].state # "closed" => idbConn'[d].state # "closed"
<1>1. idbConn = [d \in IdbConns |-> idbConn[d]] /\ \A d \in IdbConns : IdbConnOK(idbConn[d])
  BY DEF IdbInv, IdbStateOK
<1>2. idbConn' = [d \in IdbConns |-> IF d = c THEN conn ELSE idbConn[d]]
  BY <1>1
<1>3. QED
  BY <1>1, <1>2

\* Nothing is written, and no pairs change but those of a connection that has just replayed.
LEMMA MemoryStays ==
  ASSUME IdbInv, idbFile' = idbFile, idbFresh' \subseteq IdbConns,
         \A c \in idbFresh' : idbConn'[c].state # "closed" =>
           \/ idbConn'[c].pairs = Replay(Content(idbFile))
           \/ /\ c \in idbFresh /\ idbConn[c].state # "closed"
              /\ idbConn'[c].pairs = idbConn[c].pairs
  PROVE  LogIsMemory'
BY DEF LogIsMemory, IdbInv

LEMMA ConnIs ==
  ASSUME IdbInv, NEW c \in IdbConns
  PROVE  /\ IdbConnOK(idbConn[c])
         /\ InPlace(idbConn[c].pairs) /\ idbConn[c].ops \in Seq(IdbOps \cup {IdbClear})
         /\ idbConn[c].requests = Len(idbConn[c].ops)
BY DEF IdbInv, IdbStateOK, IdbConnOK

LEMMA ConnMoves ==
  ASSUME NEW conn, IdbConnOK(conn),
         NEW s \in {"closed", "opening", "upgrading", "open", "rejected"}
  PROVE  /\ IdbConnOK([conn EXCEPT !.state = s])
         /\ [conn EXCEPT !.state = s].state = s
         /\ [conn EXCEPT !.state = s].pairs = conn.pairs
BY DEF IdbConnOK

LEMMA OpenKeeps ==
  ASSUME IdbInv, NEW c \in IdbConns, Open(c)
  PROVE  IdbInv'
<1> DEFINE pairs == Replay(Content(idbFile))
           state == IF idbDisk.version < 1 THEN "upgrading" ELSE "opening"
           stores == idbDisk.version >= 1 /\ idbDisk.schema
           conn == [Closed EXCEPT !.state = state, !.stores = stores, !.pairs = pairs]
           task == [task |-> "open", conn |-> c]
<1>1. /\ idbConn' = [idbConn EXCEPT ![c] = conn]
      /\ idbMicro' = Append(idbMicro, task)
      /\ idbFresh' = idbFresh \cup {c}
      /\ idbFile' = idbFile /\ idbDisk' = idbDisk
  BY DEF Open
<1>2. InPlace(pairs)
  BY FileIs, ReplayInPlace DEF IdbInv, IdbStateOK
<1>3. stores \in BOOLEAN /\ state \in {"upgrading", "opening"}
  OBVIOUS
<1> HIDE DEF pairs, state, stores
<1>4. IdbConnOK(conn)
  BY <1>2, <1>3, ClosedOK DEF IdbConnOK, InPlace
<1>5. conn.state = state /\ conn.pairs = pairs
  BY DEF Closed
<1> HIDE DEF conn
<1>6. conn.state # "closed" /\ conn.pairs = pairs
  BY <1>3, <1>5
<1>7. /\ idbConn' = [d \in IdbConns |-> idbConn'[d]]
      /\ \A d \in IdbConns : IdbConnOK(idbConn'[d])
      /\ idbConn'[c] = conn
      /\ \A d \in IdbConns \ {c} : idbConn'[d] = idbConn[d]
      /\ \A d \in IdbConns : idbConn[d].state # "closed" => idbConn'[d].state # "closed"
  BY <1>1, <1>4, <1>6, OneConnChanges
<1>8. IdbAwaited(idbMicro', idbConn')
  <2>1. IdbAwaited(idbMicro, idbConn')
    BY <1>7, StillAwaited DEF IdbInv, IdbStateOK
  <2>2. task \in IdbTasks /\ task.conn = c
    BY DEF IdbTasks
  <2> HIDE DEF task
  <2>3. QED
    BY <1>1, <1>6, <1>7, <2>1, <2>2, TaskAdded
<1>9. idbFresh' \subseteq IdbConns
  BY <1>1 DEF IdbInv, IdbStateOK
<1>10. LogIsMemory'
  <2>1. ASSUME NEW d \in idbFresh', idbConn'[d].state # "closed"
        PROVE  \/ idbConn'[d].pairs = Replay(Content(idbFile))
               \/ /\ d \in idbFresh /\ idbConn[d].state # "closed"
                  /\ idbConn'[d].pairs = idbConn[d].pairs
    <3>1. CASE d = c
      BY <1>6, <1>7, <3>1 DEF pairs
    <3>2. CASE d # c
      BY <1>1, <1>7, <1>9, <2>1, <3>2
    <3>3. QED
      BY <3>1, <3>2
  <2>2. QED
    BY <1>1, <1>9, <2>1, MemoryStays
<1>11. QED
  BY <1>1, <1>7, <1>8, <1>9, <1>10 DEF IdbInv, IdbStateOK

\* The end of an open: the connection moves on with its pairs.
LEMMA OpenEnds ==
  ASSUME IdbInv, NEW c \in IdbConns, Runs("open", c), NEW s \in {"open", "rejected"},
         idbConn[c].state # "closed", idbConn' = [idbConn EXCEPT ![c].state = s],
         idbDisk' \in IdbDisks, idbFile' = idbFile, idbFresh' = idbFresh
  PROVE  IdbInv'
<1> DEFINE conn == [idbConn[c] EXCEPT !.state = s]
<1>1. idbConn' = [idbConn EXCEPT ![c] = conn] /\ idbMicro # <<>> /\ idbMicro' = Tail(idbMicro)
  BY DEF Runs
<1>2. IdbConnOK(conn) /\ conn.state # "closed" /\ conn.pairs = idbConn[c].pairs
  <2>1. IdbConnOK(idbConn[c])
    BY ConnIs
  <2>2. s \in {"closed", "opening", "upgrading", "open", "rejected"} /\ s # "closed"
    OBVIOUS
  <2>3. QED
    BY <2>1, <2>2, ConnMoves
<1> HIDE DEF conn
<1>3. /\ idbConn' = [d \in IdbConns |-> idbConn'[d]]
      /\ \A d \in IdbConns : IdbConnOK(idbConn'[d])
      /\ idbConn'[c] = conn
      /\ \A d \in IdbConns \ {c} : idbConn'[d] = idbConn[d]
      /\ \A d \in IdbConns : idbConn[d].state # "closed" => idbConn'[d].state # "closed"
  BY <1>1, <1>2, OneConnChanges
<1>4. IdbAwaited(idbMicro', idbConn')
  <2>1. IdbAwaited(idbMicro, idbConn')
    <3>1. IdbAwaited(idbMicro, idbConn)
      BY DEF IdbInv, IdbStateOK
    <3>2. \A d \in IdbConns : idbConn[d].state # "closed" => idbConn'[d].state # "closed"
      BY <1>3, Zenon
    <3> DEFINE later == idbConn'
    <3>3. \A d \in IdbConns : idbConn[d].state # "closed" => later[d].state # "closed"
      BY <3>2, Zenon
    <3> HIDE DEF later
    <3>4. IdbAwaited(idbMicro, later)
      BY <3>1, <3>3, StillAwaited, Zenon
    <3>5. QED
      BY <3>4 DEF later
  <2>2. QED
    BY <1>1, <2>1, TaskTaken
<1>5. idbFresh' \subseteq IdbConns
  BY DEF IdbInv, IdbStateOK
<1>6. LogIsMemory'
  <2>1. ASSUME NEW d \in idbFresh', idbConn'[d].state # "closed"
        PROVE  d \in idbFresh /\ idbConn[d].state # "closed" /\ idbConn'[d].pairs = idbConn[d].pairs
    <3>1. CASE d = c
      BY <1>2, <1>3, <3>1
    <3>2. CASE d # c
      BY <1>3, <1>5, <2>1, <3>2
    <3>3. QED
      BY <3>1, <3>2
  <2>2. QED
    BY <1>5, <2>1, MemoryStays
<1>7. QED
  BY <1>3, <1>4, <1>5, <1>6 DEF IdbInv, IdbStateOK

LEMMA EnqueueKeeps ==
  ASSUME IdbInv, NEW c \in IdbConns, NEW op \in IdbOps \cup {IdbClear}, Enqueue(c, op)
  PROVE  IdbInv'
<1> DEFINE conn == [idbConn[c] EXCEPT !.ops = Append(idbConn[c].ops, op), !.requests = idbConn[c].requests + 1]
           task == [task |-> "commit", conn |-> c]
<1>1. /\ idbConn[c].state = "open"
      /\ idbMicro' = Append(idbMicro, task)
      /\ idbFile' = idbFile /\ idbDisk' = idbDisk /\ idbFresh' = idbFresh
  BY DEF Enqueue, Usable
<1>2. idbConn' = [idbConn EXCEPT ![c] = conn]
  BY DEF Enqueue
<1>3. /\ IdbConnOK(idbConn[c]) /\ idbConn[c].ops \in Seq(IdbOps \cup {IdbClear})
      /\ idbConn[c].requests = Len(idbConn[c].ops)
  BY ConnIs
<1>4. IdbConnOK(conn) /\ conn.state = "open" /\ conn.pairs = idbConn[c].pairs
  <2> DEFINE ops == Append(idbConn[c].ops, op)
             requests == idbConn[c].requests + 1
  <2>1. ops \in Seq(IdbOps \cup {IdbClear}) /\ Len(ops) = requests /\ requests \in Nat
    BY <1>3
  <2> HIDE DEF ops, requests
  <2>2. conn = [idbConn[c] EXCEPT !.ops = ops, !.requests = requests]
    BY DEF ops, requests
  <2> HIDE DEF conn
  <2>3. QED
    BY <1>1, <1>3, <2>1, <2>2 DEF IdbConnOK
<1> HIDE DEF conn
<1>5. /\ idbConn' = [d \in IdbConns |-> idbConn'[d]]
      /\ \A d \in IdbConns : IdbConnOK(idbConn'[d])
      /\ idbConn'[c] = conn
      /\ \A d \in IdbConns \ {c} : idbConn'[d] = idbConn[d]
      /\ \A d \in IdbConns : idbConn[d].state # "closed" => idbConn'[d].state # "closed"
  BY <1>2, <1>4, OneConnChanges
<1>6. IdbAwaited(idbMicro', idbConn')
  <2>1. IdbAwaited(idbMicro, idbConn')
    BY <1>5, StillAwaited DEF IdbInv, IdbStateOK
  <2>2. task \in IdbTasks /\ task.conn = c
    BY DEF IdbTasks
  <2> HIDE DEF task
  <2>3. QED
    BY <1>1, <1>4, <1>5, <2>1, <2>2, TaskAdded
<1>7. idbFresh' \subseteq IdbConns
  BY <1>1 DEF IdbInv, IdbStateOK
<1>8. LogIsMemory'
  <2>1. ASSUME NEW d \in idbFresh', idbConn'[d].state # "closed"
        PROVE  d \in idbFresh /\ idbConn[d].state # "closed" /\ idbConn'[d].pairs = idbConn[d].pairs
    <3>1. CASE d = c
      BY <1>1, <1>4, <1>5, <2>1, <3>1
    <3>2. CASE d # c
      BY <1>1, <1>5, <1>7, <2>1, <3>2
    <3>3. QED
      BY <3>1, <3>2
  <2>2. QED
    BY <1>1, <1>7, <2>1, MemoryStays
<1>9. QED
  BY <1>1, <1>5, <1>6, <1>7, <1>8 DEF IdbInv, IdbStateOK

LEMMA CommitKeeps ==
  ASSUME IdbInv, NEW c \in IdbConns, Commit(c)
  PROVE  IdbInv'
<1> DEFINE done == Logged(idbConn[c].pairs, idbConn[c].ops)
           lines == done.lines
           pairs == done.pairs
           file == Appended(idbFile, lines)
           conn == [idbConn[c] EXCEPT !.pairs = pairs, !.ops = <<>>, !.requests = 0]
<1>1. /\ Runs("commit", c)
      /\ idbFile' = file
      /\ idbConn' = [idbConn EXCEPT ![c].pairs = pairs, ![c].ops = <<>>, ![c].requests = 0]
      /\ idbFresh' = IF lines = <<>> THEN idbFresh ELSE (idbFresh \cap WrittenBy(c)) \ TornBy(c)
      /\ idbDisk' = idbDisk
  BY DEF Commit
<1>2. /\ IdbConnOK(idbConn[c]) /\ InPlace(idbConn[c].pairs)
      /\ idbConn[c].ops \in Seq(IdbOps \cup {IdbClear})
  BY ConnIs
<1>3. /\ InPlace(pairs) /\ lines \in Seq(IdbOps)
      /\ pairs = ApplyEntries(idbConn[c].pairs, lines)
  BY <1>2, LoggedReplays
<1> HIDE DEF done, lines, pairs
<1>4. lines \in Seq(IdbLines)
  BY <1>3, OpsAreLines
<1>5. IdbFileOK(idbFile)
  BY DEF IdbInv, IdbStateOK
<1>6. /\ IdbFileOK(file)
      /\ lines = <<>> => file = idbFile
      /\ lines # <<>> /\ idbFile.tail = <<>> =>
           Content(idbFile) = idbFile.lines /\ Content(file) = idbFile.lines \o lines
  BY <1>4, <1>5, AppendedIs
<1> HIDE DEF file
<1>7. idbConn' = [idbConn EXCEPT ![c] = conn]
  BY <1>1
<1>8. IdbConnOK(conn) /\ conn.state = idbConn[c].state /\ conn.pairs = pairs
  <2> DEFINE none == <<>>
  <2>1. none \in Seq(IdbOps \cup {IdbClear}) /\ Len(none) = 0
    OBVIOUS
  <2>2. pairs \in Seq(IdbPairs)
    BY <1>3 DEF InPlace
  <2>3. conn = [idbConn[c] EXCEPT !.pairs = pairs, !.ops = none, !.requests = 0]
    OBVIOUS
  <2> HIDE DEF none, conn
  <2>4. QED
    BY <1>2, <1>3, <2>1, <2>2, <2>3 DEF IdbConnOK
<1> HIDE DEF conn
<1>9. /\ idbConn' = [d \in IdbConns |-> idbConn'[d]]
      /\ \A d \in IdbConns : IdbConnOK(idbConn'[d])
      /\ idbConn'[c] = conn
      /\ \A d \in IdbConns \ {c} : idbConn'[d] = idbConn[d]
      /\ \A d \in IdbConns : idbConn[d].state # "closed" => idbConn'[d].state # "closed"
  BY <1>7, <1>8, OneConnChanges
<1>10. IdbAwaited(idbMicro', idbConn')
  <2>1. IdbAwaited(idbMicro, idbConn')
    BY <1>9, StillAwaited DEF IdbInv, IdbStateOK
  <2>2. QED
    BY <1>1, <2>1, TaskTaken DEF Runs
<1>11. idbFresh' \subseteq idbFresh /\ idbFresh \subseteq IdbConns
  BY <1>1 DEF IdbInv, IdbStateOK
<1>12. LogIsMemory'
  <2>1. CASE lines = <<>>
    <3>1. pairs = idbConn[c].pairs
      BY <1>3, <2>1, NoLines
    <3>2. ASSUME NEW d \in idbFresh', idbConn'[d].state # "closed"
          PROVE  d \in idbFresh /\ idbConn[d].state # "closed" /\ idbConn'[d].pairs = idbConn[d].pairs
      BY <1>8, <1>9, <1>11, <3>1, <3>2
    <3>3. QED
      BY <1>1, <1>6, <1>11, <2>1, <3>2, MemoryStays
  <2>2. CASE lines # <<>>
    <3>1. SUFFICES ASSUME NEW d \in idbFresh', idbConn'[d].state # "closed"
                   PROVE  Replay(Content(file)) = idbConn'[d].pairs
      BY <1>1 DEF LogIsMemory
    <3>2. d = c
      <4>1. d \in WrittenBy(c) /\ d \in IdbConns
        BY <1>1, <1>11, <2>2, <3>1
      <4>2. d = c \/ idbConn[d].state = "closed"
        BY <4>1 DEF WrittenBy
      <4>3. QED
        BY <1>9, <3>1, <4>1, <4>2
    <3>3. Content(idbFile) = idbFile.lines /\ Content(file) = idbFile.lines \o lines
      <4>1. idbFile.tail = <<>>
        BY <1>1, <2>2, <3>1, <3>2 DEF TornBy
      <4>2. QED
        BY <1>6, <2>2, <4>1
    <3>4. idbFile.lines \in Seq(IdbLines)
      BY <1>5, FileIs
    <3>6. c \in idbFresh /\ idbConn[c].state # "closed"
      BY <1>8, <1>9, <1>11, <3>1, <3>2
    <3>7. Replay(idbFile.lines) = idbConn[c].pairs
      BY <3>3, <3>6 DEF IdbInv, LogIsMemory
    <3>8. Replay(idbFile.lines \o lines) = ApplyEntries(Replay(idbFile.lines), lines)
      BY <1>4, <3>4, EntriesJoin DEF Replay
    <3>9. QED
      BY <1>3, <1>8, <1>9, <3>2, <3>3, <3>7, <3>8
  <2>3. QED
    BY <2>1, <2>2
<1>13. QED
  BY <1>1, <1>6, <1>9, <1>10, <1>11, <1>12 DEF IdbInv, IdbStateOK

LEMMA CompactKeeps ==
  ASSUME IdbInv, NEW c \in IdbConns, Compact(c)
  PROVE  IdbInv'
<1> DEFINE pairs == idbConn[c].pairs
           puts == Puts(pairs)
<1>1. /\ idbFile' = [lines |-> puts, tail |-> <<>>]
      /\ idbFresh' = (idbFresh \cap WrittenBy(c)) \cup {c}
      /\ idbDisk' = idbDisk /\ idbConn' = idbConn /\ idbMicro' = idbMicro
  BY DEF Compact, Puts
<1>2. puts \in Seq(IdbOps) /\ Replay(puts) = pairs
  BY ConnIs, PairLines, PutsRestore
<1> HIDE DEF puts
<1>3. puts \in Seq(IdbLines)
  BY <1>2, OpsAreLines
<1>4. IdbFileOK(idbFile')
  BY <1>1, <1>3, EmptyTail, FileOf
<1>5. Content(idbFile') = puts
  <2>1. puts \o <<>> = puts
    BY <1>3
  <2>2. QED
    BY <1>1, <2>1 DEF Content
<1>6. idbFresh' \subseteq IdbConns
  BY <1>1 DEF IdbInv, IdbStateOK
<1>7. LogIsMemory'
  <2>1. SUFFICES ASSUME NEW d \in idbFresh', idbConn[d].state # "closed"
                 PROVE  Replay(Content(idbFile')) = idbConn[d].pairs
    BY <1>1 DEF LogIsMemory
  <2>2. d = c
    BY <1>1, <2>1 DEF WrittenBy
  <2>3. QED
    BY <1>2, <1>5, <2>2
<1>8. QED
  BY <1>1, <1>4, <1>6, <1>7 DEF IdbInv, IdbStateOK

LEMMA DeleteDatabaseKeeps ==
  ASSUME IdbInv, DeleteDatabase
  PROVE  IdbInv'
<1> DEFINE task == [task |-> "delete"]
<1>1. /\ idbMicro' = Append(idbMicro, task)
      /\ UNCHANGED <<idbFile, idbDisk, idbConn, idbFresh>>
  BY DEF DeleteDatabase
<1>2. task \in IdbTasks /\ task.task = "delete"
  BY DEF IdbTasks
<1> HIDE DEF task
<1>3. IdbAwaited(idbMicro', idbConn)
  BY <1>1, <1>2, TaskAdded DEF IdbInv, IdbStateOK
<1>4. LogIsMemory'
  BY <1>1 DEF LogIsMemory, IdbInv
<1>5. QED
  BY <1>1, <1>3, <1>4 DEF IdbInv, IdbStateOK

LEMMA DeletedKeeps ==
  ASSUME IdbInv, Deleted
  PROVE  IdbInv'
<1>1. /\ idbMicro # <<>> /\ idbMicro' = Tail(idbMicro)
      /\ idbFile' = NoFile /\ idbDisk' = [version |-> 0, schema |-> FALSE]
      /\ idbFresh' = {c \in IdbConns : idbConn[c].state = "closed"}
      /\ idbConn' = idbConn
  BY DEF Deleted
<1>2. IdbAwaited(idbMicro', idbConn)
  BY <1>1, TaskTaken DEF IdbInv, IdbStateOK
<1>3. IdbFileOK(idbFile')
  BY <1>1, EmptyFile
<1>4. idbDisk' \in IdbDisks
  BY <1>1 DEF IdbDisks
<1>5. LogIsMemory'
  BY <1>1 DEF LogIsMemory
<1>6. QED
  BY <1>1, <1>2, <1>3, <1>4, <1>5 DEF IdbInv, IdbStateOK

LEMMA IdbCrashKeeps ==
  ASSUME IdbInv, IdbCrash
  PROVE  IdbInv'
<1>1. PICK p \in {<<idbFile, idbDisk>>} \cup (IF idbMicro = <<>> THEN {} ELSE Partial(Head(idbMicro))) :
        idbFile' = p[1] /\ idbDisk' = p[2]
  BY DEF IdbCrash
<1>2. /\ idbConn' = [c \in IdbConns |-> Closed] /\ idbMicro' = <<>> /\ idbFresh' = IdbConns
  BY DEF IdbCrash
<1>3. IdbFileOK(p[1]) /\ p[2] \in IdbDisks
  <2>1. CASE p = <<idbFile, idbDisk>>
    BY <2>1 DEF IdbInv, IdbStateOK
  <2>2. CASE p # <<idbFile, idbDisk>>
    <3>1. idbMicro # <<>> /\ p \in Partial(Head(idbMicro))
      BY <1>1, <2>2
    <3>2. Head(idbMicro) \in IdbTasks
      BY <3>1, TaskTaken DEF IdbInv, IdbStateOK
    <3>3. QED
      BY <3>1, <3>2, PartialFiles DEF IdbInv
  <2>3. QED
    BY <2>1, <2>2
<1>4. \A c \in IdbConns : idbConn'[c] = Closed /\ IdbConnOK(idbConn'[c])
  BY <1>2, ClosedOK
<1>5. idbConn' = [c \in IdbConns |-> idbConn'[c]]
  BY <1>2
<1>6. IdbAwaited(idbMicro', idbConn')
  BY <1>2, NoneAwaited
<1>7. LogIsMemory'
  <2>1. \A c \in IdbConns : idbConn'[c].state = "closed"
    BY <1>4 DEF Closed
  <2>2. QED
    BY <1>2, <2>1 DEF LogIsMemory
<1>8. QED
  BY <1>1, <1>2, <1>3, <1>4, <1>5, <1>6, <1>7 DEF IdbInv, IdbStateOK

LEMMA IdbStepKeeps ==
  ASSUME IdbInv, [IdbNext]_idbVars
  PROVE  IdbInv'
<1>1. ASSUME UNCHANGED <<idbFile, idbDisk, idbConn, idbMicro, idbFresh>>
      PROVE  IdbInv'
  BY <1>1 DEF IdbInv, IdbStateOK, LogIsMemory
<1>2. CASE UNCHANGED idbVars
  BY <1>1, <1>2 DEF idbVars
<1>3. ASSUME Continue PROVE IdbInv'
  BY <1>1, <1>3 DEF Continue, MoveTo
<1>4. ASSUME NEW n \in IdbNumbers, ContinueTo(n) PROVE IdbInv'
  BY <1>1, <1>4 DEF ContinueTo, MoveTo
<1>5. ASSUME NEW c \in IdbConns, Opened(c) \/ UpgradeThrows(c) \/ UpgradeBare(c)
      PROVE  IdbInv'
  <2>1. idbDisk \in IdbDisks /\ [version |-> 1, schema |-> FALSE] \in IdbDisks
    BY DEF IdbInv, IdbStateOK, IdbDisks
  <2>2. PICK s \in {"open", "rejected"} : idbConn' = [idbConn EXCEPT ![c].state = s]
    BY <1>5 DEF Opened, UpgradeThrows, UpgradeBare
  <2>3. /\ Runs("open", c) /\ idbConn[c].state # "closed" /\ idbFile' = idbFile /\ idbFresh' = idbFresh
        /\ idbDisk' \in IdbDisks
    BY <1>5, <2>1 DEF Opened, UpgradeThrows, UpgradeBare
  <2>4. QED
    BY <2>2, <2>3, OpenEnds
<1>6. ASSUME NEW c \in IdbConns, ClearStore(c) PROVE IdbInv'
  BY <1>6, EnqueueKeeps DEF ClearStore
<1>7. ASSUME NEW c \in IdbConns, NEW k \in IdbKeys, NEW v \in IdbValues, Put(c, k, v) \/ Add(c, k, v)
      PROVE  IdbInv'
  <2>1. IdbPut(k, v) \in IdbOps
    BY DEF IdbOps
  <2>2. Enqueue(c, IdbPut(k, v))
    BY <1>7 DEF Put, Add
  <2>3. QED
    BY <2>1, <2>2, EnqueueKeeps
<1>8. ASSUME NEW c \in IdbConns, NEW k \in IdbKeys, Delete(c, k) PROVE IdbInv'
  <2>1. IdbDel(k) \in IdbOps
    BY DEF IdbOps
  <2>2. QED
    BY <1>8, <2>1, EnqueueKeeps DEF Delete
<1>9. ASSUME NEW c \in IdbConns, NEW r \in IdbRanges, NEW d \in {"next", "prev"}, OpenCursor(c, r, d)
      PROVE  IdbInv'
  BY <1>1, <1>9 DEF OpenCursor
<1>10. ASSUME NEW c \in IdbConns, Open(c) PROVE IdbInv'
  BY <1>10, OpenKeeps
<1>11. ASSUME NEW c \in IdbConns, Commit(c) PROVE IdbInv'
  BY <1>11, CommitKeeps
<1>12. ASSUME NEW c \in IdbConns, Compact(c) PROVE IdbInv'
  BY <1>12, CompactKeeps
<1>13. ASSUME IdbCrash \/ DeleteDatabase \/ Deleted PROVE IdbInv'
  BY <1>13, IdbCrashKeeps, DeleteDatabaseKeeps, DeletedKeeps
<1>14. QED
  BY <1>2, <1>3, <1>4, <1>5, <1>6, <1>7, <1>8, <1>9, <1>10, <1>11, <1>12, <1>13 DEF IdbNext

\* The types are part of the invariant.
LEMMA IdbInvTyped ==
  IdbInv => IdbTypeOK
<1>1. SUFFICES ASSUME IdbInv PROVE IdbTypeOK
  OBVIOUS
<1>2. Content(idbFile) \in Seq(IdbLines) /\ Len(idbFile.tail) <= 1
  BY <1>1, FileIs DEF IdbInv, IdbStateOK
<1>3. ASSUME NEW c \in IdbConns
      PROVE  /\ idbConn[c].state \in {"closed", "opening", "upgrading", "open", "rejected"}
             /\ idbConn[c].pairs \in Seq(IdbPairs) /\ SortedPairs(idbConn[c].pairs)
             /\ idbConn[c].ops \in Seq(IdbOps \cup {IdbClear})
             /\ idbConn[c].requests = Len(idbConn[c].ops)
  BY <1>1, ConnIs DEF IdbConnOK, InPlace
<1>4. QED
  BY <1>1, <1>2, <1>3, EncodingKeepsOrder
     DEF IdbTypeOK, IdbInv, IdbStateOK, IdbAwaited, IdbDisks, IdbPairs

\* Every variable has its type, the pairs of every connection stay sorted without two of a key,
\* and no microtask outlives the connection that awaits it (WalBackend, IDBTransaction).
THEOREM IdbTypeCorrect == IdbSpec => []IdbTypeOK
BY IdbStarts, IdbStepKeeps, IdbInvTyped, PTL DEF IdbSpec

\* What a restart replays is the memory of every connection nobody wrote behind the back of: each
\* commit and each compaction leaves a log that gives the pairs back (WalBackend, doCommit,
\* compact).
THEOREM LogReplays == IdbSpec => []LogIsMemory
<1>1. IdbInv => LogIsMemory
  BY DEF IdbInv
<1>2. QED
  BY IdbStarts, IdbStepKeeps, <1>1, PTL DEF IdbSpec

-----------------------------------------------------------------------------
(* The snapshot client (Snapshot).                                          *)
(*                                                                          *)
(* What a finished call brought is compared with the state of its header    *)
(* only at the end; on the way it has given what is due of the chunks it    *)
(* passed (Due, Passed), and keeps at most one entry more, the one of the   *)
(* chunk it tries, from a callback that threw (Trying, Brought).            *)

\* What is wanted of a state, chunk by chunk, and of the chunks before the start.
LEMMA WantedTurns ==
  ASSUME NEW start, NEW known, NEW state, Len(state) \in Nat
  PROVE  LET wanted == Wanted(start, known, state)
         IN  /\ wanted[0] = <<>>
             /\ \A n \in 1 .. Len(state) :
                  wanted[n] = IF n > start /\ n \notin known THEN Append(wanted[n - 1], state[n])
                              ELSE wanted[n - 1]
<1> DEFINE m == Len(state)
           call == [start |-> start, known |-> known, state |-> state]
           One(n, x) == IF n > start /\ n \notin known THEN Append(x, state[n]) ELSE x
           wanted == CHOOSE g : g = [n \in 0 .. m |-> IF n = 0 THEN <<>> ELSE One(n, g[n - 1])]
<1>1. \E g : g = [n \in 0 .. m |-> IF n = 0 THEN <<>> ELSE One(n, g[n - 1])]
  <2>1. PICK g : TurnsTo("want", call, <<>>, m, g)
    BY TurnsExist
  <2>2. \A n, x : Turn("want", call, n, x) = One(n, x)
    BY DEF Turn, WantedOne
  <2>3. g = [n \in 0 .. m |-> IF n = 0 THEN <<>> ELSE Turn("want", call, n, g[n - 1])]
    BY <2>1 DEF TurnsTo
  <2> HIDE DEF m, call, One
  <2>4. g = [n \in 0 .. m |-> IF n = 0 THEN <<>> ELSE One(n, g[n - 1])]
    BY <2>2, <2>3
  <2>5. QED
    BY <2>4
<1>2. wanted = [n \in 0 .. m |-> IF n = 0 THEN <<>> ELSE One(n, wanted[n - 1])]
  BY <1>1
<1>3. Wanted(start, known, state) = wanted
  <2>1. \A n, x : One(n, x) = IF n > start /\ n \notin known THEN Append(x, state[n]) ELSE x
    OBVIOUS
  <2>2. QED
    BY DEF Wanted
<1>4. m \in Nat
  OBVIOUS
<1> HIDE DEF wanted, m
<1>5. wanted[0] = <<>>
  BY <1>2, <1>4
<1>6. ASSUME NEW n \in 1 .. m PROVE wanted[n] = One(n, wanted[n - 1])
  <2>1. n \in 0 .. m /\ n # 0
    BY <1>4
  <2> HIDE DEF One
  <2>2. QED
    BY <1>2, <2>1
<1>7. QED
  BY <1>3, <1>5, <1>6 DEF m

LEMMA WantedNone ==
  ASSUME NEW start \in Nat, NEW known, NEW S, NEW state \in Seq(S)
  PROVE  \A n \in 0 .. Len(state) : n <= start => Wanted(start, known, state)[n] = <<>>
<1> DEFINE m == Len(state)
           W == Wanted(start, known, state)
           G == {n \in 0 .. m : n <= start => W[n] = <<>>}
<1>1. m \in Nat
  OBVIOUS
<1>2. /\ W[0] = <<>>
      /\ \A n \in 1 .. m : W[n] = IF n > start /\ n \notin known THEN Append(W[n - 1], state[n])
                                  ELSE W[n - 1]
  BY <1>1, WantedTurns
<1> HIDE DEF m, W
<1>3. 0 \in G
  BY <1>1, <1>2
<1>4. ASSUME NEW k \in 0 .. m - 1, k \in G PROVE k + 1 \in G
  <2>1. k + 1 \in 1 .. m /\ k + 1 \in 0 .. m /\ (k + 1) - 1 = k
    BY <1>1
  <2>2. k + 1 <= start => W[k + 1] = W[k] /\ k <= start
    BY <1>1, <1>2, <2>1
  <2>3. QED
    BY <1>4, <2>1, <2>2
<1>5. \A n \in 0 .. m : n \in G
  <2> HIDE DEF G
  <2>1. QED
    BY <1>1, <1>3, <1>4, CountUp
<1>6. QED
  BY <1>5 DEF m, W

\* Sorting inserts the entries one after the other.
LEMMA SortTurns ==
  ASSUME NEW entries, Len(entries) \in Nat
  PROVE  \E g : /\ InKeyOrder(entries) = g[Len(entries)]
                /\ g[0] = <<>>
                /\ \A n \in 0 .. Len(entries) - 1 : g[n + 1] = Inserted(g[n], entries[n + 1])
<1> DEFINE m == Len(entries)
           sorted == CHOOSE g : g = [n \in 0 .. m |-> IF n = 0 THEN <<>> ELSE Inserted(g[n - 1], entries[n])]
<1>1. \E g : g = [n \in 0 .. m |-> IF n = 0 THEN <<>> ELSE Inserted(g[n - 1], entries[n])]
  <2>1. PICK g : TurnsTo("sort", entries, <<>>, m, g)
    BY TurnsExist
  <2>2. \A n, x : Turn("sort", entries, n, x) = Inserted(x, entries[n])
    BY DEF Turn
  <2>3. g = [n \in 0 .. m |-> IF n = 0 THEN <<>> ELSE Turn("sort", entries, n, g[n - 1])]
    BY <2>1 DEF TurnsTo
  <2> HIDE DEF m
  <2>4. g = [n \in 0 .. m |-> IF n = 0 THEN <<>> ELSE Inserted(g[n - 1], entries[n])]
    BY <2>2, <2>3
  <2>5. QED
    BY <2>4
<1>2. sorted = [n \in 0 .. m |-> IF n = 0 THEN <<>> ELSE Inserted(sorted[n - 1], entries[n])]
  BY <1>1
<1>3. InKeyOrder(entries) = sorted[m]
  BY DEF InKeyOrder
<1>4. m \in Nat
  OBVIOUS
<1> HIDE DEF sorted, m
<1>5. sorted[0] = <<>>
  BY <1>2, <1>4
<1>6. ASSUME NEW n \in 0 .. m - 1 PROVE sorted[n + 1] = Inserted(sorted[n], entries[n + 1])
  <2>1. n + 1 \in 0 .. m /\ n + 1 # 0 /\ (n + 1) - 1 = n
    BY <1>4
  <2>2. QED
    BY <1>2, <2>1
<1>7. QED
  BY <1>3, <1>5, <1>6 DEF m

\* Entries in the order of their keys.
Ordered(s) == \A i, j \in 1 .. Len(s) : i < j => s[i].key <= s[j].key

\* An entry goes between the smaller keys and the greater ones, and order stays.
LEMMA InsertedIs ==
  ASSUME NEW E, \A e \in E : e.key \in Int, NEW s \in Seq(E), Ordered(s), NEW e \in E
  PROVE  /\ Inserted(s, e) \in Seq(E) /\ Len(Inserted(s, e)) = Len(s) + 1
         /\ Ordered(Inserted(s, e))
         /\ ToSet(Inserted(s, e)) = ToSet(s) \cup {e}
<1> DEFINE n == Len(s)
           p == EntryPlace(s, e)
           t == Inserted(s, e)
<1>1. n \in Nat /\ DOMAIN s = 1 .. n /\ \A i \in 1 .. n : s[i] \in E /\ s[i].key \in Int
  OBVIOUS
<1>2. e.key \in Int
  OBVIOUS
<1>3. \A i, j \in 1 .. n : i < j => s[i].key <= s[j].key
  BY DEF Ordered
<1>4. \E i \in 0 .. n : \A j \in DOMAIN s : j <= i <=> s[j].key <= e.key
  <2> DEFINE T == {k \in 1 .. n + 1 : k = n + 1 \/ s[k].key > e.key}
  <2>1. T \subseteq Nat /\ T # {}
    <3>1. n + 1 \in T
      BY <1>1
    <3>2. QED
      BY <1>1, <3>1
  <2>2. PICK k \in T : \A j \in T : k <= j
    <3> HIDE DEF T
    <3>1. QED
      BY <2>1, LeastNumber
  <2> DEFINE i == k - 1
  <2>3. k \in 1 .. n + 1 /\ i \in 0 .. n /\ i + 1 = k
    BY <1>1
  <2>4. ASSUME NEW j \in 1 .. n PROVE j <= i <=> s[j].key <= e.key
    <3>1. CASE j <= i
      <4>1. j \notin T /\ j \in 1 .. n + 1 /\ j # n + 1
        BY <1>1, <2>2, <2>3, <3>1
      <4>2. ~ (s[j].key > e.key)
        BY <4>1
      <4>3. QED
        BY <1>1, <1>2, <3>1, <4>2
    <3>2. CASE ~ (j <= i)
      <4>1. k \in 1 .. n /\ k <= j
        BY <1>1, <2>3, <3>2
      <4>2. s[k].key > e.key
        BY <1>1, <4>1
      <4> HIDE DEF T
      <4>3. s[k].key <= s[j].key
        BY <1>1, <1>3, <4>1
      <4>4. s[k].key \in Int /\ s[j].key \in Int
        BY <1>1, <4>1
      <4>5. ~ (s[j].key <= e.key)
        BY <1>2, <4>2, <4>3, <4>4
      <4>6. QED
        BY <3>2, <4>5
    <3>3. QED
      BY <3>1, <3>2
  <2> HIDE DEF i
  <2>5. QED
    BY <1>1, <2>3, <2>4
<1>5. p \in 0 .. n /\ \A j \in 1 .. n : j <= p <=> s[j].key <= e.key
  BY <1>1, <1>4 DEF EntryPlace
<1> HIDE DEF p
<1>6. t = InsertAt(s, p + 1, e)
  BY DEF Inserted, p
<1> HIDE DEF t
<1>7. /\ t \in Seq(E) /\ Len(t) = n + 1
      /\ \A j \in 1 .. n + 1 : t[j] = IF j <= p THEN s[j] ELSE IF j = p + 1 THEN e ELSE s[j - 1]
  <2> DEFINE r == InsertAt(s, p + 1, e)
  <2>1. p \in 0 .. Len(s)
    BY <1>5
  <2>2. /\ r \in Seq(E) /\ Len(r) = Len(s) + 1
        /\ \A j \in 1 .. Len(s) + 1 : r[j] = IF j <= p THEN s[j] ELSE IF j = p + 1 THEN e ELSE s[j - 1]
    BY <2>1, InsertedAt
  <2>3. t = r
    BY <1>6
  <2> HIDE DEF r
  <2>4. QED
    BY <2>2, <2>3
<1>8. ASSUME NEW i \in 1 .. n + 1, NEW j \in 1 .. n + 1, i < j PROVE t[i].key <= t[j].key
  <2> HIDE DEF n
  <2>1. CASE j <= p
    <3>1. t[i] = s[i] /\ t[j] = s[j] /\ i \in 1 .. n /\ j \in 1 .. n
      BY <1>1, <1>5, <1>7, <1>8, <2>1
    <3>2. QED
      BY <1>3, <1>8, <3>1
  <2>2. CASE j = p + 1
    <3>1. t[i] = s[i] /\ t[j] = e /\ i \in 1 .. n /\ i <= p
      BY <1>1, <1>5, <1>7, <1>8, <2>2
    <3>2. QED
      BY <1>5, <3>1
  <2>3. CASE j > p + 1 /\ i = p + 1
    <3>1. t[i] = e /\ t[j] = s[j - 1] /\ j - 1 \in 1 .. n /\ ~ (j - 1 <= p)
      BY <1>1, <1>5, <1>7, <1>8, <2>3
    <3>2. ~ (s[j - 1].key <= e.key) /\ s[j - 1].key \in Int
      BY <1>1, <1>5, <3>1
    <3>3. QED
      BY <1>2, <3>1, <3>2
  <2>4. CASE j > p + 1 /\ i <= p
    <3>1. t[i] = s[i] /\ t[j] = s[j - 1] /\ i \in 1 .. n /\ j - 1 \in 1 .. n /\ i < j - 1
      BY <1>1, <1>5, <1>7, <1>8, <2>4
    <3>2. QED
      BY <1>3, <3>1
  <2>5. CASE j > p + 1 /\ i > p + 1
    <3>1. t[i] = s[i - 1] /\ t[j] = s[j - 1] /\ i - 1 \in 1 .. n /\ j - 1 \in 1 .. n /\ i - 1 < j - 1
      BY <1>1, <1>5, <1>7, <1>8, <2>5
    <3>2. QED
      BY <1>3, <3>1
  <2>6. QED
    BY <1>1, <1>5, <1>8, <2>1, <2>2, <2>3, <2>4, <2>5
<1>9. ToSet(t) = ToSet(s) \cup {e}
  <2> HIDE DEF n
  <2>1. ToSet(s) = {s[i] : i \in 1 .. n} /\ ToSet(t) = {t[i] : i \in 1 .. n + 1}
    <3>1. DOMAIN t = 1 .. n + 1
      BY <1>1, <1>7
    <3>2. QED
      BY <1>1, <3>1 DEF ToSet
  <2>2. ASSUME NEW i \in 1 .. n + 1 PROVE t[i] \in ToSet(s) \cup {e}
    <3>1. CASE i <= p
      <4>1. i \in 1 .. n /\ t[i] = s[i]
        BY <1>1, <1>5, <1>7, <3>1
      <4>2. QED
        BY <2>1, <4>1
    <3>2. CASE i = p + 1
      BY <1>1, <1>5, <1>7, <3>2
    <3>3. CASE i > p + 1
      <4>1. i - 1 \in 1 .. n /\ t[i] = s[i - 1]
        BY <1>1, <1>5, <1>7, <3>3
      <4>2. QED
        BY <2>1, <4>1
    <3>4. QED
      BY <1>1, <1>5, <3>1, <3>2, <3>3
  <2>3. ASSUME NEW i \in 1 .. n PROVE s[i] \in ToSet(t)
    <3>1. CASE i <= p
      <4>1. i \in 1 .. n + 1 /\ t[i] = s[i]
        BY <1>1, <1>5, <1>7, <3>1
      <4>2. QED
        BY <2>1, <4>1
    <3>2. CASE ~ (i <= p)
      <4> DEFINE j == i + 1
      <4>1. j \in 1 .. n + 1 /\ ~ (j <= p) /\ j # p + 1 /\ j - 1 = i
        BY <1>1, <1>5, <3>2
      <4>2. t[j] = s[i]
        BY <1>7, <4>1
      <4>3. QED
        BY <2>1, <4>1, <4>2
    <3>3. QED
      BY <3>1, <3>2
  <2>4. e \in ToSet(t)
    <3>1. p + 1 \in 1 .. n + 1 /\ t[p + 1] = e
      BY <1>1, <1>5, <1>7
    <3>2. QED
      BY <2>1, <3>1
  <2>5. QED
    BY <2>1, <2>2, <2>3, <2>4
<1>10. QED
  BY <1>7, <1>8, <1>9 DEF Ordered, t, n

\* The entries of a sequence, and of a longer one.
LEMMA SetOfSeq ==
  ASSUME NEW S, NEW s \in Seq(S)
  PROVE  ToSet(s) = {s[i] : i \in 1 .. Len(s)}
<1>1. DOMAIN s = 1 .. Len(s)
  OBVIOUS
<1>2. QED
  BY <1>1 DEF ToSet

LEMMA SetOfAppend ==
  ASSUME NEW S, NEW s \in Seq(S), NEW e \in S
  PROVE  ToSet(Append(s, e)) = ToSet(s) \cup {e}
<1> DEFINE t == Append(s, e)
<1>1. t \in Seq(S) /\ Len(t) = Len(s) + 1 /\ Len(s) \in Nat
  OBVIOUS
<1>2. \A i \in 1 .. Len(s) + 1 : t[i] = IF i <= Len(s) THEN s[i] ELSE e
  OBVIOUS
<1> HIDE DEF t
<1>3. ToSet(s) = {s[i] : i \in 1 .. Len(s)} /\ ToSet(t) = {t[i] : i \in 1 .. Len(s) + 1}
  BY <1>1, SetOfSeq
<1>4. \A i \in 1 .. Len(s) + 1 : t[i] \in ToSet(s) \cup {e}
  BY <1>1, <1>2, <1>3
<1>5. \A i \in 1 .. Len(s) : i \in 1 .. Len(s) + 1 /\ t[i] = s[i]
  BY <1>1, <1>2
<1>6. Len(s) + 1 \in 1 .. Len(s) + 1 /\ t[Len(s) + 1] = e
  BY <1>1, <1>2
<1>7. QED
  BY <1>3, <1>4, <1>5, <1>6 DEF t

\* Sorting keeps the entries and puts their keys in order.
LEMMA InKeyOrderIs ==
  ASSUME NEW E, \A e \in E : e.key \in Int, NEW entries \in Seq(E)
  PROVE  /\ InKeyOrder(entries) \in Seq(E) /\ Len(InKeyOrder(entries)) = Len(entries)
         /\ Ordered(InKeyOrder(entries))
         /\ ToSet(InKeyOrder(entries)) = ToSet(entries)
<1> DEFINE m == Len(entries)
           First(n) == {entries[i] : i \in 1 .. n}
           Good(s, n) == /\ s \in Seq(E) /\ Len(s) = n /\ Ordered(s)
                         /\ ToSet(s) = First(n)
<1>1. m \in Nat /\ \A i \in 1 .. m : entries[i] \in E
  OBVIOUS
<1>2. PICK g : /\ InKeyOrder(entries) = g[m] /\ g[0] = <<>>
               /\ \A n \in 0 .. m - 1 : g[n + 1] = Inserted(g[n], entries[n + 1])
  <2>1. Len(entries) \in Nat
    OBVIOUS
  <2>2. QED
    BY <2>1, SortTurns
<1> DEFINE G == {n \in 0 .. m : Good(g[n], n)}
<1>3. 0 \in G
  <2> DEFINE none == <<>>
  <2>1. none \in Seq(E) /\ Len(none) = 0
    OBVIOUS
  <2> HIDE DEF none, m
  <2>2. ToSet(none) = {none[i] : i \in 1 .. 0}
    BY <2>1, SetOfSeq
  <2>3. 1 .. 0 = {}
    OBVIOUS
  <2>4. ToSet(none) = First(0)
    BY <2>2, <2>3
  <2>5. Ordered(none)
    BY <2>1, <2>3 DEF Ordered
  <2>6. g[0] = none
    BY <1>2 DEF none
  <2> HIDE DEF First
  <2>7. Good(g[0], 0)
    BY <2>1, <2>4, <2>5, <2>6
  <2> HIDE DEF Good
  <2>8. QED
    BY <1>1, <2>7
<1> HIDE DEF m
<1>4. ASSUME NEW k \in 0 .. m - 1, k \in G PROVE k + 1 \in G
  <2> DEFINE s == g[k]
             e == entries[k + 1]
             t == Inserted(s, e)
  <2>1. k + 1 \in 1 .. m /\ k + 1 \in 0 .. m /\ k \in Nat
    BY <1>1
  <2>2. s \in Seq(E) /\ Len(s) = k /\ Ordered(s) /\ ToSet(s) = First(k)
    BY <1>4
  <2>3. e \in E /\ g[k + 1] = t
    BY <1>1, <1>2, <2>1
  <2>4. First(k + 1) = First(k) \cup {e}
    <3>1. \A i \in 1 .. k + 1 : i \in 1 .. k \/ i = k + 1
      BY <2>1
    <3>2. \A i \in 1 .. k : i \in 1 .. k + 1
      BY <2>1
    <3>3. k + 1 \in 1 .. k + 1
      BY <2>1
    <3>4. QED
      BY <3>1, <3>2, <3>3
  <2> HIDE DEF G, s, e, First
  <2>5. /\ t \in Seq(E) /\ Len(t) = Len(s) + 1 /\ Ordered(t) /\ ToSet(t) = ToSet(s) \cup {e}
    BY <2>2, <2>3, InsertedIs
  <2> HIDE DEF t
  <2>6. Good(t, k + 1)
    BY <2>2, <2>4, <2>5
  <2> HIDE DEF Good
  <2>7. QED
    BY <2>1, <2>3, <2>6 DEF G
<1>5. Good(g[m], m)
  <2> HIDE DEF G
  <2>1. \A n \in 0 .. m : n \in G
    BY <1>1, <1>3, <1>4, CountUp
  <2>2. m \in G
    BY <1>1, <2>1
  <2> HIDE DEF Good
  <2>3. QED
    BY <2>2 DEF G
<1>6. ToSet(entries) = First(m)
  BY SetOfSeq DEF m
<1>7. QED
  BY <1>2, <1>5, <1>6 DEF m

\* A call, and its fields.
SnSteps == {"fetching", "done", "failed"}
SnRecords ==
  [step : SnSteps, mode : SnModes, doc : Seq(SnEntries), start : Nat, known : SUBSET SnKnown,
   verify : BOOLEAN, index : Nat, attempt : Nat, entries : Seq(SnEntries),
   given : Seq(SnEntries), refused : BOOLEAN]

\* A call on the document the header vouches for, somewhere between its start and its end.
SnCallIs(call, header) ==
  /\ call \in SnRecords
  /\ call.doc = SnState[header]
  /\ call.index = call.start + 1 \/ call.index \in call.start + 1 .. Len(call.doc) + 1
  /\ call.attempt <= SnRetries

\* How many chunks of its document a call has passed.
Passed(call) == IF call.index <= Len(call.doc) THEN call.index - 1 ELSE Len(call.doc)
Due(call) == Wanted(call.start, call.known, call.doc)
Bringing(call) == call.mode \in {"download", "delta"} /\ call.verify

\* The chunk a call is at, unless it knows it: its entry may be kept before it is given.
Trying(call) == {call.doc[i] : i \in ({call.index} \cap 1 .. Len(call.doc)) \ call.known}

\* A verified download has given what was due of the chunks passed, and keeps as much.
Brought(call) ==
  /\ call.given = Due(call)[Passed(call)]
  /\ ToSet(call.given) \subseteq ToSet(call.entries)
  /\ ToSet(call.entries) \subseteq ToSet(call.given) \cup Trying(call)
  /\ ~call.refused => Len(call.entries) = Len(call.given)

\* The invariant: a verified download under way has brought what is due so far.
SnInv ==
  /\ snServed \in SnVersions /\ snHeader \in SnVersions /\ snProgress \in Nat /\ snSaving \in Seq(Nat)
  /\ snCall = NoDownload \/ SnCallIs(snCall, snHeader)
  /\ Fetching /\ Bringing(snCall) => Brought(snCall)
  /\ BringsTheState

\* The server publishes states of entries, and begins with the first.
LEMMA SnStatesAre ==
  /\ 1 \in SnVersions
  /\ \A v \in SnVersions : SnState[v] \in Seq(SnEntries)
<1>1. SnState \in Seq(Seq(SnEntries)) /\ SnState # <<>>
  BY SnAssumption
<1>2. QED
  BY <1>1 DEF SnVersions

LEMMA SnStarts ==
  ASSUME SnInit
  PROVE  SnInv
<1>1. snCall.step = "none"
  BY DEF SnInit, NoDownload
<1>2. QED
  BY <1>1, SnStatesAre DEF SnInit, SnInv, Fetching, BringsTheState

\* The state a call brings is that of its document: only a finished call is compared with it.
LEMMA SnUnfinished ==
  ASSUME NEW call, snCall' = call, call.step # "done"
  PROVE  BringsTheState'
BY DEF BringsTheState

LEMMA FetchStateSnapshotKeeps ==
  ASSUME SnInv, NEW m \in SnModes, NEW s \in Starts, NEW k \in SUBSET SnKnown,
         NEW v \in BOOLEAN, FetchStateSnapshot(m, s, k, v)
  PROVE  SnInv'
<1> DEFINE doc == SnState[snServed]
           start == IF m \in {"verifyResumable", "download"} THEN s ELSE 0
           known == IF m = "delta" THEN k ELSE {}
           verify == v \/ m \in {"verify", "verifyResumable"}
           call == [step |-> "fetching", mode |-> m, doc |-> doc, start |-> start, known |-> known,
                    verify |-> verify, index |-> start + 1, attempt |-> 0, entries |-> <<>>,
                    given |-> <<>>, refused |-> FALSE]
<1>1. /\ snCall' = call /\ snServed' = snServed /\ snHeader' = snHeader /\ snProgress' = snProgress
      /\ snServed = snHeader
      /\ snSaving' = snSaving
  BY DEF FetchStateSnapshot, Begun, MatchesHeader
<1>2. /\ snServed \in SnVersions /\ snHeader \in SnVersions /\ snProgress \in Nat
      /\ snSaving \in Seq(Nat) /\ s \in Nat
  BY DEF SnInv, Starts
<1>3. /\ doc \in Seq(SnEntries) /\ doc = SnState[snHeader] /\ start \in Nat
      /\ known \in SUBSET SnKnown /\ verify \in BOOLEAN
  BY <1>1, <1>2, SnStatesAre
<1> DEFINE none == <<>>
<1>4. none \in Seq(SnEntries) /\ Len(none) = 0
  OBVIOUS
<1>5. /\ call.step = "fetching" /\ call.doc = doc /\ call.start = start /\ call.known = known
      /\ call.index = start + 1 /\ call.attempt = 0 /\ call.entries = none /\ call.given = none
      /\ call.mode = m /\ call.verify = verify
  OBVIOUS
<1> HIDE DEF doc, start, known, verify, none
<1>6. call \in SnRecords
  <2>1. start + 1 \in Nat
    BY <1>3
  <2>2. call = [step |-> "fetching", mode |-> m, doc |-> doc, start |-> start, known |-> known,
                verify |-> verify, index |-> start + 1, attempt |-> 0, entries |-> none,
                given |-> none, refused |-> FALSE]
    BY DEF none
  <2> HIDE DEF call
  <2>3. QED
    BY <1>3, <1>4, <2>1, <2>2 DEF SnRecords, SnSteps
<1> HIDE DEF call
<1>7. SnRetries \in Nat
  BY SnAssumption
<1>8. SnCallIs(call, snHeader)
  BY <1>3, <1>5, <1>6, <1>7 DEF SnCallIs
<1>9. Brought(call)
  <2> DEFINE n == Len(doc)
             W == Wanted(start, known, doc)
  <2>1. n \in Nat
    BY <1>3
  <2>2. Passed(call) \in 0 .. n /\ Passed(call) <= start
    BY <1>3, <1>5, <2>1 DEF Passed
  <2>3. W[Passed(call)] = <<>>
    BY <1>3, <2>2, WantedNone
  <2>4. Due(call) = W
    BY <1>5 DEF Due
  <2> HIDE DEF W
  <2>5. QED
    BY <1>4, <1>5, <2>3, <2>4 DEF Brought, none
<1>10. QED
  BY <1>1, <1>2, <1>5, <1>8, <1>9, SnUnfinished DEF SnInv, Fetching

\* A step of a call that does not end it well.
LEMMA SnCallGoesOn ==
  ASSUME SnInv, NEW call, snCall' = call, SnCallIs(call, snHeader), call.step # "done",
         call.step = "fetching" /\ Bringing(call) => Brought(call),
         snServed' = snServed, snHeader' = snHeader, snProgress' \in Nat, snSaving' \in Seq(Nat)
  PROVE  SnInv'
<1>1. BringsTheState'
  BY SnUnfinished
<1>2. QED
  BY <1>1 DEF SnInv, Fetching

\* What is known of a call under way, and of what is due of its chunks.
LEMMA SnUnderWay ==
  ASSUME SnInv, Fetching
  PROVE  /\ SnCallIs(snCall, snHeader) /\ snCall # NoDownload /\ snCall.step = "fetching"
         /\ Bringing(snCall) => Brought(snCall)
         /\ snCall \in SnRecords /\ Len(snCall.doc) \in Nat
         /\ snCall.index \in Nat /\ snCall.start \in Nat /\ snCall.index > snCall.start
         /\ snCall.doc \in Seq(SnEntries) /\ snCall.doc = SnState[snHeader]
         /\ snCall.entries \in Seq(SnEntries) /\ snCall.given \in Seq(SnEntries)
         /\ snServed \in SnVersions /\ snHeader \in SnVersions /\ snProgress \in Nat
         /\ snSaving \in Seq(Nat)
<1>1. snCall # NoDownload
  BY DEF Fetching, NoDownload
<1>2. SnCallIs(snCall, snHeader)
  BY <1>1 DEF SnInv
<1>3. snCall \in SnRecords
  BY <1>2 DEF SnCallIs
<1>4. /\ snCall.index \in Nat /\ snCall.start \in Nat
      /\ snCall.doc \in Seq(SnEntries) /\ snCall.entries \in Seq(SnEntries)
      /\ snCall.given \in Seq(SnEntries)
  BY <1>3 DEF SnRecords
<1>5. Len(snCall.doc) \in Nat
  BY <1>4
<1>6. snCall.index > snCall.start /\ snCall.doc = SnState[snHeader]
  BY <1>2, <1>4, <1>5 DEF SnCallIs
<1>7. QED
  BY <1>1, <1>2, <1>3, <1>4, <1>5, <1>6 DEF SnInv, Fetching

\* With the chunk at its index passed, a call owes that chunk too, unless it knows it.
LEMMA DueOfNext ==
  ASSUME SnInv, Fetching, Index <= Chunks, NEW call,
         call.doc = snCall.doc, call.start = snCall.start, call.known = snCall.known,
         call.index = Index + 1
  PROVE  /\ Passed(snCall) = Index - 1 /\ Passed(call) = Index
         /\ Due(call)[Index] = IF Index \in snCall.known THEN Due(snCall)[Index - 1]
                               ELSE Append(Due(snCall)[Index - 1], snCall.doc[Index])
         /\ Index \in 1 .. Chunks
<1>1. /\ snCall.index \in Nat /\ snCall.start \in Nat /\ snCall.index > snCall.start
      /\ Len(snCall.doc) \in Nat
  BY SnUnderWay
<1>2. Index \in 1 .. Chunks
  BY <1>1 DEF Index, Chunks
<1>3. Passed(snCall) = Index - 1 /\ Passed(call) = Index
  BY <1>1, <1>2 DEF Passed, Index, Chunks
<1> DEFINE W == Wanted(snCall.start, snCall.known, snCall.doc)
<1>4. \A n \in 1 .. Len(snCall.doc) :
        W[n] = IF n > snCall.start /\ n \notin snCall.known THEN Append(W[n - 1], snCall.doc[n])
               ELSE W[n - 1]
  BY <1>1, WantedTurns
<1>5. Due(call) = W /\ Due(snCall) = W
  BY DEF Due
<1> HIDE DEF W
<1>6. QED
  BY <1>1, <1>2, <1>3, <1>4, <1>5 DEF Index, Chunks

LEMMA SkipKnownKeeps ==
  ASSUME SnInv, SkipKnown
  PROVE  SnInv'
<1> DEFINE call == [snCall EXCEPT !.index = @ + 1]
<1>1. /\ Fetching /\ Index <= Chunks /\ Index \in snCall.known /\ snCall' = call
      /\ snServed' = snServed /\ snHeader' = snHeader /\ snProgress' = snProgress /\ snSaving' = snSaving
  BY DEF SkipKnown
<1>2. /\ SnCallIs(snCall, snHeader) /\ snCall.step = "fetching" /\ snCall \in SnRecords
      /\ snCall.index \in Nat /\ snCall.start \in Nat /\ Len(snCall.doc) \in Nat
      /\ snCall.index > snCall.start
      /\ Bringing(snCall) => Brought(snCall)
      /\ snProgress \in Nat /\ snSaving \in Seq(Nat)
  BY <1>1, SnUnderWay
<1>3. /\ call \in SnRecords /\ call.step = snCall.step /\ call.doc = snCall.doc
      /\ call.start = snCall.start /\ call.known = snCall.known /\ call.index = Index + 1
      /\ call.given = snCall.given /\ call.entries = snCall.entries
      /\ call.refused = snCall.refused /\ call.attempt = snCall.attempt
      /\ call.mode = snCall.mode /\ call.verify = snCall.verify
  <2> DEFINE next == snCall.index + 1
             moved == [snCall EXCEPT !.index = next]
  <2>1. next \in Nat /\ snCall \in SnRecords
    BY <1>2
  <2>2. call = moved /\ next = Index + 1
    BY DEF Index
  <2> HIDE DEF next, call
  <2>3. QED
    BY <2>1, <2>2 DEF SnRecords
<1> HIDE DEF call
<1>4. SnCallIs(call, snHeader)
  BY <1>1, <1>2, <1>3 DEF SnCallIs, Index, Chunks
<1>5. /\ Passed(snCall) = Index - 1 /\ Passed(call) = Index
      /\ Due(call)[Index] = Due(snCall)[Index - 1]
  BY <1>1, <1>3, DueOfNext
<1>6. Trying(snCall) = {}
  BY <1>1 DEF Trying, Index
<1>7. ASSUME Bringing(call) PROVE Brought(call)
  <2>1. Brought(snCall)
    BY <1>2, <1>3, <1>7 DEF Bringing
  <2>2. QED
    BY <2>1, <1>3, <1>5, <1>6 DEF Brought
<1>8. QED
  BY <1>1, <1>2, <1>3, <1>4, <1>7, SnCallGoesOn

\* What arrives and is an entry is one of the entries there are.
LEMMA ArrivesIs ==
  ASSUME SnInv, NEW bytes \in Arrives, Decodes(bytes)
  PROVE  bytes \in SnEntries
<1>1. snServed \in SnVersions
  BY DEF SnInv
<1>2. SnState[snServed] \in Seq(SnEntries)
  BY <1>1, SnStatesAre
<1>3. PICK i \in DOMAIN SnState[snServed] : bytes = SnState[snServed][i]
  BY DEF Arrives, Decodes
<1>4. QED
  BY <1>2, <1>3

\* A call past one more chunk.
LEMMA PassingIs ==
  ASSUME SnInv, Fetching, Index <= Chunks, Index \notin snCall.known,
         NEW bytes \in Arrives, Accepted(bytes), Keeps => Decodes(bytes)
  PROVE  /\ SnCallIs(Passing(bytes), snHeader) /\ Passing(bytes).step = "fetching"
         /\ Bringing(Passing(bytes)) => Brought(Passing(bytes))
         /\ snProgress \in Nat /\ snSaving \in Seq(Nat)
<1>1. Fetching /\ Index <= Chunks /\ Index \notin snCall.known
  OBVIOUS
<1>2. /\ Accepted(bytes)
      /\ Keeps => Decodes(bytes)
  OBVIOUS
<1>3. /\ SnCallIs(snCall, snHeader) /\ snCall.step = "fetching" /\ snCall \in SnRecords
      /\ snCall.index \in Nat /\ snCall.start \in Nat /\ Len(snCall.doc) \in Nat
      /\ snCall.index > snCall.start
      /\ Bringing(snCall) => Brought(snCall)
      /\ snCall.entries \in Seq(SnEntries) /\ snCall.given \in Seq(SnEntries)
      /\ snCall.doc \in Seq(SnEntries) /\ snProgress \in Nat /\ snSaving \in Seq(Nat)
  BY <1>1, SnUnderWay
<1>4. Keeps => bytes \in SnEntries
  BY <1>2, ArrivesIs
<1> DEFINE entries == IF Keeps THEN Append(snCall.entries, bytes) ELSE snCall.entries
           given == IF Keeps THEN Append(snCall.given, bytes) ELSE snCall.given
           call == [snCall EXCEPT !.index = @ + 1, !.attempt = 0, !.entries = entries, !.given = given]
<1>5. entries \in Seq(SnEntries) /\ given \in Seq(SnEntries)
  BY <1>3, <1>4
<1>6. Passing(bytes) = call
  <2>1. call = [snCall EXCEPT !.index = @ + 1, !.attempt = 0,
                              !.entries = IF Keeps THEN Append(@, bytes) ELSE @,
                              !.given = IF Keeps THEN Append(@, bytes) ELSE @]
    BY <1>3 DEF SnRecords
  <2>2. QED
    BY <2>1 DEF Passing
<1> HIDE DEF entries, given
<1>7. /\ call \in SnRecords /\ call.step = snCall.step /\ call.doc = snCall.doc
      /\ call.start = snCall.start /\ call.known = snCall.known /\ call.index = Index + 1
      /\ call.given = given /\ call.entries = entries
      /\ call.refused = snCall.refused /\ call.attempt = 0
      /\ call.mode = snCall.mode /\ call.verify = snCall.verify
  <2> DEFINE next == snCall.index + 1
             moved == [snCall EXCEPT !.index = next, !.attempt = 0, !.entries = entries,
                                     !.given = given]
  <2>1. next \in Nat /\ snCall \in SnRecords
    BY <1>3
  <2>2. call = moved /\ next = Index + 1
    BY DEF Index
  <2> HIDE DEF next, call
  <2>3. QED
    BY <1>5, <2>1, <2>2 DEF SnRecords
<1> HIDE DEF call
<1>8. SnCallIs(call, snHeader)
  <2>1. SnRetries \in Nat
    BY SnAssumption
  <2>2. QED
    BY <1>1, <1>3, <1>7, <2>1 DEF SnCallIs, Index, Chunks
<1>9. /\ Passed(snCall) = Index - 1 /\ Passed(call) = Index /\ Index \in 1 .. Chunks
      /\ Due(call)[Index] = Append(Due(snCall)[Index - 1], snCall.doc[Index])
  BY <1>1, <1>7, DueOfNext
<1>10. ASSUME Bringing(call) PROVE Brought(call)
  <2>1. Bringing(snCall) /\ Brought(snCall)
    BY <1>3, <1>7, <1>10 DEF Bringing
  <2>2. Keeps /\ bytes = snCall.doc[Index] /\ bytes \in SnEntries
    BY <1>2, <1>4, <2>1 DEF Bringing, Keeps, Accepted
  <2>3. given = Append(snCall.given, bytes) /\ entries = Append(snCall.entries, bytes)
    BY <2>2 DEF given, entries
  <2>4. ToSet(given) = ToSet(snCall.given) \cup {bytes} /\ ToSet(entries) = ToSet(snCall.entries) \cup {bytes}
    BY <1>3, <2>2, <2>3, SetOfAppend
  <2>5. given = Due(call)[Passed(call)]
    BY <1>9, <2>1, <2>2, <2>3 DEF Brought
  <2>6. Trying(snCall) = {bytes}
    BY <1>1, <1>9, <2>2 DEF Trying, Index, Chunks
  <2>7. snCall.refused \/ Len(entries) = Len(given)
    BY <1>3, <2>1, <2>3 DEF Brought
  <2>8. QED
    BY <1>7, <2>1, <2>4, <2>5, <2>6, <2>7 DEF Brought
<1>11. QED
  BY <1>3, <1>6, <1>7, <1>8, <1>10

LEMMA FetchChunkKeeps ==
  ASSUME SnInv, FetchChunk
  PROVE  SnInv'
<1>1. /\ Fetching /\ Index <= Chunks /\ Index \notin snCall.known
      /\ snServed' = snServed /\ snHeader' = snHeader /\ snProgress' = snProgress
      /\ snSaving' = snSaving \/ snSaving' = Append(snSaving, Index)
  BY DEF FetchChunk
<1>2. PICK bytes \in Arrives : Accepted(bytes) /\ (Keeps => Decodes(bytes)) /\ snCall' = Passing(bytes)
  BY DEF FetchChunk
<1>3. /\ SnCallIs(Passing(bytes), snHeader) /\ Passing(bytes).step = "fetching"
      /\ Bringing(Passing(bytes)) => Brought(Passing(bytes))
      /\ snProgress \in Nat /\ snSaving \in Seq(Nat)
  BY <1>1, <1>2, PassingIs
<1>4. snSaving' \in Seq(Nat)
  <2>1. Index \in Nat
    BY <1>1, SnUnderWay DEF Index
  <2>2. QED
    BY <1>1, <1>3, <2>1, AppendElements
<1>5. QED
  BY <1>1, <1>2, <1>3, <1>4, SnCallGoesOn

\* A call whose onProgress throws is over, and brings nothing.
LEMMA ProgressThrowsKeeps ==
  ASSUME SnInv, ProgressThrows
  PROVE  SnInv'
<1>1. /\ Fetching /\ Index <= Chunks /\ Index \notin snCall.known
      /\ snServed' = snServed /\ snHeader' = snHeader /\ snProgress' = snProgress /\ snSaving' = snSaving
  BY DEF ProgressThrows
<1>2. PICK bytes \in Arrives : /\ Accepted(bytes) /\ (Keeps => Decodes(bytes))
                               /\ snCall' = [Passing(bytes) EXCEPT !.step = "failed"]
  BY DEF ProgressThrows
<1> DEFINE passed == Passing(bytes)
           call == [passed EXCEPT !.step = "failed"]
<1>3. SnCallIs(passed, snHeader) /\ snProgress \in Nat /\ snSaving \in Seq(Nat)
  BY <1>1, <1>2, PassingIs
<1> HIDE DEF passed
<1>4. SnCallIs(call, snHeader) /\ call.step = "failed"
  BY <1>3 DEF SnCallIs, SnRecords, SnSteps
<1>5. snCall' = call
  BY <1>2 DEF passed
<1> HIDE DEF call
<1>6. QED
  BY <1>1, <1>3, <1>4, <1>5, SnCallGoesOn

LEMMA SaveProgressKeeps ==
  ASSUME SnInv, NEW commits \in BOOLEAN, SaveProgress(commits)
  PROVE  SnInv'
<1>1. snSaving \in Seq(Nat) /\ snSaving # <<>> /\ snProgress \in Nat
  BY DEF SaveProgress, SnInv
<1>2. Head(snSaving) \in Nat /\ Tail(snSaving) \in Seq(Nat)
  BY <1>1
<1>3. snProgress' \in Nat /\ snSaving' \in Seq(Nat)
  BY <1>1, <1>2 DEF SaveProgress
<1>4. snServed' = snServed /\ snHeader' = snHeader /\ snCall' = snCall
  BY DEF SaveProgress
<1>5. QED
  BY <1>3, <1>4 DEF SnInv, Fetching, BringsTheState

\* A failed attempt gives the call up or counts.
LEMMA FailedIs ==
  ASSUME NEW call \in SnRecords, NEW header, SnCallIs(call, header), call.step = "fetching"
  PROVE  /\ SnCallIs(Failed(call), header)
         /\ Failed(call).step \in {"fetching", "failed"}
         /\ Bringing(call) /\ Brought(call) => Brought(Failed(call))
         /\ Bringing(Failed(call)) <=> Bringing(call)
<1> DEFINE end == Failed(call)
<1>1. SnRetries \in Nat /\ call.attempt \in Nat
  BY SnAssumption DEF SnRecords
<1>2. Retries(call.mode) <= SnRetries /\ Retries(call.mode) \in Nat
  BY <1>1 DEF Retries
<1>3. /\ end \in SnRecords /\ end.step \in {"fetching", "failed"}
      /\ end.attempt <= SnRetries
  <2>1. CASE call.attempt + 1 > Retries(call.mode)
    <3>1. end = [call EXCEPT !.step = "failed"]
      BY <2>1 DEF Failed
    <3> HIDE DEF end
    <3>2. QED
      BY <3>1 DEF SnRecords, SnSteps, SnCallIs
  <2>2. CASE ~ (call.attempt + 1 > Retries(call.mode))
    <3> DEFINE next == [call EXCEPT !.attempt = @ + 1]
    <3>1. next \in SnRecords /\ next.step = "fetching" /\ next.attempt = call.attempt + 1
      <4> DEFINE n == call.attempt + 1
                 counted == [call EXCEPT !.attempt = n]
      <4>1. n \in Nat /\ n = call.attempt + 1 /\ next = counted
        BY <1>1
      <4> HIDE DEF n, next
      <4>2. QED
        BY <4>1 DEF SnRecords
    <3>2. end = next
      BY <2>2 DEF Failed
    <3>3. QED
      BY <1>1, <1>2, <2>2, <3>1, <3>2
  <2>3. QED
    BY <2>1, <2>2
<1>4. /\ end.doc = call.doc /\ end.index = call.index /\ end.start = call.start
      /\ end.known = call.known /\ end.mode = call.mode /\ end.verify = call.verify
      /\ end.given = call.given /\ end.entries = call.entries /\ end.refused = call.refused
  BY DEF Failed, SnRecords
<1> HIDE DEF end
<1>5. SnCallIs(end, header)
  BY <1>3, <1>4 DEF SnCallIs
<1>6. Passed(end) = Passed(call) /\ Due(end) = Due(call) /\ Trying(end) = Trying(call)
  BY <1>4 DEF Passed, Due, Trying
<1>7. Brought(call) => Brought(end)
  BY <1>4, <1>6 DEF Brought
<1>8. Bringing(end) <=> Bringing(call)
  BY <1>4 DEF Bringing
<1>9. QED
  BY <1>3, <1>5, <1>7, <1>8 DEF end

LEMMA FetchFailsKeeps ==
  ASSUME SnInv, FetchFails
  PROVE  SnInv'
<1> DEFINE call == Failed(snCall)
<1>1. /\ Fetching /\ snCall' = call
      /\ snServed' = snServed /\ snHeader' = snHeader /\ snProgress' = snProgress /\ snSaving' = snSaving
  BY DEF FetchFails
<1>2. /\ SnCallIs(snCall, snHeader) /\ snCall.step = "fetching" /\ snCall \in SnRecords
      /\ Bringing(snCall) => Brought(snCall)
      /\ snProgress \in Nat /\ snSaving \in Seq(Nat)
  BY <1>1, SnUnderWay
<1>3. /\ SnCallIs(call, snHeader) /\ call.step # "done"
      /\ Bringing(snCall) /\ Brought(snCall) => Brought(call)
      /\ Bringing(call) <=> Bringing(snCall)
  BY <1>2, FailedIs
<1> HIDE DEF call
<1>4. QED
  BY <1>1, <1>2, <1>3, SnCallGoesOn

LEMMA CallbackThrowsKeeps ==
  ASSUME SnInv, CallbackThrows
  PROVE  SnInv'
<1>1. /\ Fetching /\ Index <= Chunks /\ Index \notin snCall.known /\ Keeps
      /\ snServed' = snServed /\ snHeader' = snHeader /\ snProgress' = snProgress /\ snSaving' = snSaving
  BY DEF CallbackThrows
<1>2. PICK bytes \in Arrives :
        /\ Accepted(bytes) /\ Decodes(bytes)
        /\ snCall' = Failed([snCall EXCEPT !.entries = Append(@, bytes), !.refused = TRUE])
  BY DEF CallbackThrows
<1>3. /\ SnCallIs(snCall, snHeader) /\ snCall.step = "fetching" /\ snCall \in SnRecords
      /\ snCall.index \in Nat /\ snCall.start \in Nat /\ Len(snCall.doc) \in Nat
      /\ snCall.index > snCall.start
      /\ Bringing(snCall) => Brought(snCall)
      /\ snCall.entries \in Seq(SnEntries) /\ snCall.given \in Seq(SnEntries)
      /\ snProgress \in Nat /\ snSaving \in Seq(Nat)
  BY <1>1, SnUnderWay
<1>4. bytes \in SnEntries
  BY <1>2, ArrivesIs
<1> DEFINE entries == Append(snCall.entries, bytes)
           kept == [snCall EXCEPT !.entries = entries, !.refused = TRUE]
           call == Failed(kept)
<1>5. entries \in Seq(SnEntries) /\ ToSet(entries) = ToSet(snCall.entries) \cup {bytes}
  BY <1>3, <1>4, SetOfAppend
<1>6. snCall' = call
  <2>1. kept = [snCall EXCEPT !.entries = Append(@, bytes), !.refused = TRUE]
    BY <1>3 DEF SnRecords
  <2>2. QED
    BY <1>2, <2>1
<1> HIDE DEF entries
<1>7. /\ kept \in SnRecords /\ kept.step = snCall.step /\ kept.doc = snCall.doc
      /\ kept.start = snCall.start /\ kept.known = snCall.known /\ kept.index = snCall.index
      /\ kept.given = snCall.given /\ kept.entries = entries
      /\ kept.refused = TRUE /\ kept.attempt = snCall.attempt
      /\ kept.mode = snCall.mode /\ kept.verify = snCall.verify
  BY <1>3, <1>5 DEF SnRecords
<1> HIDE DEF kept
<1>8. SnCallIs(kept, snHeader)
  BY <1>3, <1>7 DEF SnCallIs
<1>9. ASSUME Bringing(kept) PROVE Brought(kept)
  <2>1. Bringing(snCall) /\ Brought(snCall)
    BY <1>3, <1>7, <1>9 DEF Bringing
  <2>2. bytes = snCall.doc[snCall.index]
    BY <1>2, <2>1 DEF Bringing, Accepted, Index
  <2>3. snCall.index \in 1 .. Len(snCall.doc)
    BY <1>1, <1>3 DEF Index, Chunks
  <2>4. bytes \in Trying(snCall)
    BY <1>1, <2>2, <2>3 DEF Trying, Index
  <2>5. Passed(kept) = Passed(snCall) /\ Due(kept) = Due(snCall) /\ Trying(kept) = Trying(snCall)
    BY <1>7 DEF Passed, Due, Trying
  <2>6. QED
    BY <1>5, <1>7, <2>1, <2>4, <2>5 DEF Brought
<1>10. /\ SnCallIs(call, snHeader) /\ call.step # "done"
       /\ Bringing(kept) /\ Brought(kept) => Brought(call)
       /\ Bringing(call) <=> Bringing(kept)
  BY <1>3, <1>7, <1>8, FailedIs
<1> HIDE DEF call
<1>11. QED
  BY <1>1, <1>3, <1>6, <1>9, <1>10, SnCallGoesOn

\* A call past its last chunk gave all that was due, and returns it in the order of the keys.
LEMMA FinishKeeps ==
  ASSUME SnInv, Finish
  PROVE  SnInv'
<1> DEFINE sorted == InKeyOrder(snCall.entries)
           call == [snCall EXCEPT !.step = "done", !.entries = sorted]
           n == Len(snCall.doc)
<1>1. /\ Fetching /\ Index > Chunks
      /\ snServed' = snServed /\ snHeader' = snHeader /\ snProgress' = snProgress /\ snSaving' = snSaving
  BY DEF Finish
<1>2. /\ SnCallIs(snCall, snHeader) /\ snCall.step = "fetching" /\ snCall \in SnRecords
      /\ snCall.index \in Nat /\ n \in Nat
      /\ Bringing(snCall) => Brought(snCall)
      /\ snCall.entries \in Seq(SnEntries) /\ snCall.given \in Seq(SnEntries)
      /\ snCall.doc = SnState[snHeader]
      /\ snServed \in SnVersions /\ snHeader \in SnVersions /\ snProgress \in Nat /\ snSaving \in Seq(Nat)
  BY <1>1, SnUnderWay
<1>3. \A e \in SnEntries : e.key \in Int
  BY SnAssumption
<1>4. /\ sorted \in Seq(SnEntries) /\ Len(sorted) = Len(snCall.entries)
      /\ Ordered(sorted) /\ ToSet(sorted) = ToSet(snCall.entries)
  BY <1>2, <1>3, InKeyOrderIs
<1>5. snCall' = call
  BY <1>2 DEF Finish, SnRecords
<1> HIDE DEF sorted
<1>6. /\ call \in SnRecords /\ call.step = "done" /\ call.doc = snCall.doc
      /\ call.start = snCall.start /\ call.known = snCall.known /\ call.index = snCall.index
      /\ call.given = snCall.given /\ call.entries = sorted
      /\ call.refused = snCall.refused /\ call.attempt = snCall.attempt
      /\ call.mode = snCall.mode /\ call.verify = snCall.verify
  BY <1>2, <1>4 DEF SnRecords, SnSteps
<1> HIDE DEF call
<1>7. SnCallIs(call, snHeader)
  BY <1>2, <1>6 DEF SnCallIs
<1>8. Passed(snCall) = n /\ Trying(snCall) = {}
  <2>1. ~ (snCall.index <= n) /\ snCall.index \notin 1 .. n
    BY <1>1, <1>2 DEF Index, Chunks
  <2>2. QED
    BY <2>1 DEF Passed, Trying
<1>9. ASSUME Bringing(call)
      PROVE  LET wanted == Wanted(call.start, call.known, SnState[snHeader])[Len(SnState[snHeader])]
             IN  /\ call.given = wanted
                 /\ ToSet(call.entries) = ToSet(wanted)
                 /\ \A i, j \in DOMAIN call.entries : i < j => call.entries[i].key <= call.entries[j].key
                 /\ ~call.refused => Len(call.entries) = Len(wanted)
  <2> DEFINE wanted == Due(snCall)[n]
  <2>1. Brought(snCall)
    BY <1>2, <1>6, <1>9 DEF Bringing
  <2>2. snCall.given = wanted
    BY <1>8, <2>1 DEF Brought
  <2>3. wanted = Wanted(call.start, call.known, SnState[snHeader])[Len(SnState[snHeader])]
    BY <1>2, <1>6 DEF Due
  <2> HIDE DEF wanted
  <2>4. ToSet(sorted) = ToSet(wanted)
    <3>1. /\ ToSet(snCall.given) \subseteq ToSet(snCall.entries)
          /\ ToSet(snCall.entries) \subseteq ToSet(snCall.given) \cup Trying(snCall)
      BY <2>1 DEF Brought
    <3>2. ToSet(snCall.entries) = ToSet(snCall.given)
      BY <1>8, <3>1
    <3>3. QED
      BY <1>4, <2>2, <3>2
  <2>5. DOMAIN sorted = 1 .. Len(sorted)
    BY <1>4
  <2>6. \A i, j \in DOMAIN sorted : i < j => sorted[i].key <= sorted[j].key
    BY <1>4, <2>5 DEF Ordered
  <2>7. ~snCall.refused => Len(sorted) = Len(wanted)
    BY <1>4, <2>1, <2>2 DEF Brought
  <2>8. QED
    BY <1>6, <2>2, <2>3, <2>4, <2>6, <2>7
<1>10. BringsTheState'
  BY <1>1, <1>5, <1>9 DEF BringsTheState, Bringing
<1>11. QED
  BY <1>1, <1>2, <1>5, <1>6, <1>7, <1>10 DEF SnInv, Fetching

LEMMA SnStepKeeps ==
  ASSUME SnInv, [SnNext]_snVars
  PROVE  SnInv'
<1>1. CASE Publish
  BY <1>1, SnStatesAre DEF Publish, SnInv, Fetching, BringsTheState
<1>2. CASE SkipKnown
  BY <1>2, SkipKnownKeeps
<1>3. CASE FetchChunk
  BY <1>3, FetchChunkKeeps
<1>4. CASE FetchFails
  BY <1>4, FetchFailsKeeps
<1>5. CASE CallbackThrows
  BY <1>5, CallbackThrowsKeeps
<1>6. CASE Finish \/ ProgressThrows \/ \E commits \in BOOLEAN : SaveProgress(commits)
  BY <1>6, FinishKeeps, ProgressThrowsKeeps, SaveProgressKeeps
<1>7. CASE SnReload
  <2>1. snCall'.step = "none" /\ snSaving' \in Seq(Nat)
    BY <1>7 DEF SnReload, NoDownload
  <2>2. QED
    BY <1>7, <2>1 DEF SnReload, SnInv, Fetching, BringsTheState
<1>8. CASE \E m \in SnModes, s \in Starts, k \in SUBSET SnKnown, v \in BOOLEAN :
             FetchStateSnapshot(m, s, k, v)
  BY <1>8, FetchStateSnapshotKeeps
<1>9. CASE UNCHANGED snVars
  BY <1>9 DEF snVars, SnInv, Fetching, BringsTheState
<1>10. QED
  BY <1>1, <1>2, <1>3, <1>4, <1>5, <1>6, <1>7, <1>8, <1>9 DEF SnNext

\* SnInv holds throughout.
LEMMA SnAlways ==
  SnSpec => []SnInv
<1>1. SnInit => SnInv
  BY SnStarts
<1>2. SnInv /\ [SnNext]_snVars => SnInv'
  BY SnStepKeeps
<1>3. QED
  BY <1>1, <1>2, PTL DEF SnSpec

\* The types are part of the invariant.
LEMMA SnInvTyped ==
  SnInv => SnTypeOK
<1>1. SUFFICES ASSUME SnInv PROVE SnTypeOK
  OBVIOUS
<1>2. ASSUME snCall # NoDownload
      PROVE  /\ snCall.step \in {"fetching", "done", "failed"}
             /\ snCall.index = snCall.start + 1 \/ snCall.index \in snCall.start + 1 .. Chunks + 1
             /\ snCall.attempt \in 0 .. SnRetries
             /\ snCall.entries \in Seq(SnEntries) /\ snCall.given \in Seq(SnEntries)
  <2>1. SnCallIs(snCall, snHeader)
    BY <1>1, <1>2 DEF SnInv
  <2>2. /\ snCall.step \in SnSteps /\ snCall.attempt \in Nat
        /\ snCall.entries \in Seq(SnEntries) /\ snCall.given \in Seq(SnEntries)
    BY <2>1 DEF SnCallIs, SnRecords
  <2>3. snCall.attempt <= SnRetries /\ SnRetries \in Nat
    BY <2>1, SnAssumption DEF SnCallIs
  <2>4. snCall.index = snCall.start + 1 \/ snCall.index \in snCall.start + 1 .. Chunks + 1
    BY <2>1 DEF SnCallIs, Chunks
  <2>5. QED
    BY <2>2, <2>3, <2>4 DEF SnSteps
<1>3. QED
  BY <1>1, <1>2 DEF SnInv, SnTypeOK

\* Every variable has its type, and a call goes from its start to the end of its document, with no
\* more attempts at a chunk than are allowed (downloadStateSnapshot, verifySnapshotChunks).
THEOREM SnTypeCorrect == SnSpec => []SnTypeOK
BY SnAlways, SnInvTyped, PTL

\* A verified download that ends well brought the state of its header: each entry that was due, once
\* and in order to onChunkEntries, and sorted by key in what it returns, whatever the server
\* published in between, however often requests or the callback failed, and wherever the call was
\* resumed (downloadStateSnapshot, downloadStateSnapshotDelta).
THEOREM StateBrought == SnSpec => []BringsTheState
<1>1. SnInv => BringsTheState
  BY DEF SnInv
<1>2. QED
  BY <1>1, SnAlways, PTL

-----------------------------------------------------------------------------
(* The components side by side (MCServices).                               *)
(*                                                                          *)
(* The component that moves keeps its own invariant, whichever it is.        *)

ServicesInv ==
  /\ component = "idb" => IdbInv
  /\ component = "session" => SsInv
  /\ component = "host" => HsInv
  /\ component = "did" => DidInv
  /\ component = "snapshot" => SnInv
  /\ component = "light_client" => LcInv
  /\ component = "header_sync" => HdInv
  /\ component = "auto_sync" => AsInv
  /\ component = "forum" => FmInv
  /\ component \in {"llm", "registry"} => LmTyped
  /\ component = "rate_limit" => RlInv

\* Every component begins in its invariant.
LEMMA ServicesStart ==
  ASSUME ServicesInit PROVE ServicesInv
<1>1. IdbInv /\ SsInv /\ HsInv /\ DidInv /\ SnInv /\ LcInv
  BY IdbStarts, SsInitHolds, HsInitHolds, DidInitHolds, SnStarts, LcInitHolds DEF ServicesInit
<1>2. HdInv /\ AsInv /\ FmInv /\ LmTyped /\ RlInv
  BY HdInitHolds, AsInitHolds, FmInitHolds, LmTypesStart, RlInitHolds DEF ServicesInit
<1>3. QED
  BY <1>1, <1>2 DEF ServicesInv

\* A step is one of the component that moves.
LEMMA ServicesStep ==
  ASSUME ServicesInv, ServicesNext PROVE ServicesInv'
<1>1. CASE component = "idb" /\ IdbNext /\ component' = component
  BY <1>1, IdbStepKeeps DEF ServicesInv
<1>2. CASE component = "session" /\ SsNext /\ component' = component
  BY <1>2, SsNextHolds DEF ServicesInv
<1>3. CASE component = "host" /\ HsNext /\ component' = component
  BY <1>3, HsStepHolds DEF ServicesInv
<1>4. CASE component = "did" /\ DidNext /\ component' = component
  BY <1>4, DidNextHolds DEF ServicesInv
<1>5. CASE component = "snapshot" /\ SnNext /\ component' = component
  BY <1>5, SnStepKeeps DEF ServicesInv
<1>6. CASE component = "light_client" /\ LcNext /\ component' = component
  BY <1>6, LcNextHolds DEF ServicesInv
<1>7. CASE component = "header_sync" /\ HdNext /\ component' = component
  BY <1>7, HdNextHolds DEF ServicesInv
<1>8. CASE component = "auto_sync" /\ AsNext /\ component' = component
  BY <1>8, AsNextHolds DEF ServicesInv
<1>9. CASE component = "forum" /\ FmNext /\ component' = component
  BY <1>9, FmStepHolds DEF ServicesInv
<1>10. CASE component \in {"llm", "registry"} /\ LmNext /\ component' = component
  BY <1>10, LmTypesKept DEF ServicesInv
<1>11. CASE component = "rate_limit" /\ RlNext /\ component' = component
  BY <1>11, RlNextHolds DEF ServicesInv
<1>12. QED
  BY <1>1, <1>2, <1>3, <1>4, <1>5, <1>6, <1>7, <1>8, <1>9, <1>10, <1>11 DEF ServicesNext, LmNext

\* What the invariants of the components say of their types.
LEMMA ServicesTyped ==
  ASSUME ServicesInv PROVE ServicesTypeOK
<1>1. SsInv => SsTypeOK
  BY DEF SsInv
<1>2. DidInv => DidTypeOK
  BY DEF DidInv
<1>3. HdInv => HdTypeOK
  BY DEF HdInv
<1>4. AsInv => AsTypeOK
  BY DEF AsInv
<1>5. FmInv => FmTypeOK
  BY DEF FmInv, FmTypes
<1>6. RlInv => RlTypeOK
  BY DEF RlInv, RlTypes
<1>7. LmTyped => LmTypeOK
  BY LmTypedIs
<1>8. QED
  BY <1>1, <1>2, <1>3, <1>4, <1>5, <1>6, <1>7, IdbInvTyped, HsInvImplies, SnInvTyped, LcInvImplies
     DEF ServicesInv, ServicesTypeOK

\* Whichever component around the chain moves, its variables keep their types.
THEOREM ServicesTypeCorrect == ServicesSpec => []ServicesTypeOK
<1> DEFINE vars == <<component, idbVars, ssVars, hsVars, didVars, snVars, lcVars, hdVars, asVars, fmVars,
                     lmVars, rlVars>>
<1>1. ServicesInv /\ UNCHANGED vars => ServicesInv'
  <2>1. SUFFICES ASSUME ServicesInv, UNCHANGED vars PROVE ServicesInv'
    OBVIOUS
  <2>2. IdbInv => IdbInv'
    BY <2>1, IdbStepKeeps
  <2>3. SsInv => SsInv'
    BY <2>1, SsNextHolds
  <2>4. HsInv => HsInv'
    BY <2>1, HsStepHolds
  <2>5. DidInv => DidInv'
    BY <2>1, DidNextHolds
  <2>6. SnInv => SnInv'
    BY <2>1, SnStepKeeps
  <2>7. LcInv => LcInv'
    BY <2>1, LcNextHolds
  <2>8. HdInv => HdInv'
    BY <2>1, HdNextHolds
  <2>9. AsInv => AsInv'
    BY <2>1, AsNextHolds
  <2>10. FmInv => FmInv'
    BY <2>1, FmStepHolds
  <2>11. LmTyped => LmTyped'
    BY <2>1, LmTypesKept
  <2>12. RlInv => RlInv'
    BY <2>1, RlNextHolds
  <2>13. QED
    BY <2>1, <2>2, <2>3, <2>4, <2>5, <2>6, <2>7, <2>8, <2>9, <2>10, <2>11, <2>12 DEF ServicesInv
<1>2. ServicesInv /\ [ServicesNext]_vars => ServicesInv'
  BY <1>1, ServicesStep
<1>3. ServicesInit => ServicesInv
  BY ServicesStart
<1>4. ServicesInv => ServicesTypeOK
  BY ServicesTyped
<1>5. QED
  BY <1>2, <1>3, <1>4, PTL DEF ServicesSpec
=============================================================================
