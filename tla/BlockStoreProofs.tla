-------------------------- MODULE BlockStoreProofs --------------------------
(***************************************************************************)
(* Theorems about BlockStore, for every number of heights, writers and     *)
(* readers, every cache size and every bound on calls and failures.        *)
(***************************************************************************)
EXTENDS BlockStore, SequenceTheorems, WellFoundedInduction, FiniteSetTheorems,
        TLAPS

-----------------------------------------------------------------------------
(* Lemmas about the helpers on sequences. *)

(* A height in a list has a first occurrence there. *)
LEMMA FirstIndexIsIndex ==
  ASSUME NEW S, NEW s \in Seq(S), NEW h \in Members(s)
  PROVE  FirstIndex(s, h) \in DOMAIN s /\ s[FirstIndex(s, h)] = h
<1> DEFINE T == {i \in DOMAIN s : s[i] = h}
<1>1. DOMAIN s = 1..Len(s) /\ Len(s) \in Nat
  BY LenProperties
<1>2. T \subseteq Nat /\ T # {}
  BY <1>1 DEF Members
<1>3. \E x \in T : \A y \in T : ~ (<<y, x>> \in OpToRel(<, Nat))
  BY <1>2, NatLessThanWellFounded, WFMin
<1>4. PICK x \in T : \A y \in T : ~ (y < x)
  BY <1>2, <1>3 DEF OpToRel
<1>5. x \in DOMAIN s /\ s[x] = h /\ \A j \in 1..(x - 1) : s[j] # h
  BY <1>1, <1>4
<1>6. QED
  BY <1>5 DEF FirstIndex

(* Removing one entry of a sequence leaves the others in their order. *)
LEMMA WithoutEntry ==
  ASSUME NEW S, NEW s \in Seq(S), NEW i \in DOMAIN s
  PROVE  /\ Without(s, i) \in Seq(S)
         /\ Len(Without(s, i)) = Len(s) - 1
         /\ \A j \in 1..(Len(s) - 1) :
              Without(s, i)[j] = IF j < i THEN s[j] ELSE s[j + 1]
<1> DEFINE a == SubSeq(s, 1, i - 1)
           b == SubSeq(s, i + 1, Len(s))
<1>1. /\ DOMAIN s = 1..Len(s) /\ Len(s) \in Nat /\ i \in 1..Len(s)
      /\ \A j \in 1..Len(s) : s[j] \in S
  BY LenProperties, ElementOfSeq
<1>2. /\ a \in Seq(S) /\ Len(a) = i - 1
      /\ \A j \in 1..(i - 1) : a[j] = s[j]
  <2>1. \A j \in 1..(i - 1) : s[j] \in S
    BY <1>1
  <2>2. /\ a \in Seq(S)
        /\ Len(a) = IF 1 <= i - 1 THEN i - 1 - 1 + 1 ELSE 0
        /\ \A j \in 1..(i - 1 - 1 + 1) : a[j] = s[1 + j - 1]
    BY <1>1, <2>1, SubSeqProperties
  <2>3. QED
    BY <1>1, <2>2
<1>3. /\ b \in Seq(S) /\ Len(b) = Len(s) - i
      /\ \A j \in 1..(Len(s) - i) : b[j] = s[i + j]
  <2>1. \A j \in (i + 1)..Len(s) : s[j] \in S
    BY <1>1
  <2>2. /\ b \in Seq(S)
        /\ Len(b) = IF i + 1 <= Len(s) THEN Len(s) - (i + 1) + 1 ELSE 0
        /\ \A j \in 1..(Len(s) - (i + 1) + 1) : b[j] = s[(i + 1) + j - 1]
    BY <1>1, <2>1, SubSeqProperties
  <2>3. QED
    BY <1>1, <2>2
<1>4. /\ a \o b \in Seq(S) /\ Len(a \o b) = Len(a) + Len(b)
      /\ \A j \in 1..(Len(a) + Len(b)) :
           (a \o b)[j] = IF j <= Len(a) THEN a[j] ELSE b[j - Len(a)]
  BY <1>2, <1>3, ConcatProperties
<1> HIDE DEF a, b
<1>5. /\ Len(a \o b) = Len(s) - 1
      /\ \A j \in 1..(Len(s) - 1) :
           (a \o b)[j] = IF j < i THEN s[j] ELSE s[j + 1]
  <2>1. ASSUME NEW j \in 1..(Len(s) - 1), j < i
        PROVE  (a \o b)[j] = s[j]
    BY <1>1, <1>2, <1>3, <1>4, <2>1
  <2>2. ASSUME NEW j \in 1..(Len(s) - 1), ~(j < i)
        PROVE  (a \o b)[j] = s[j + 1]
    <3>1. j - (i - 1) \in 1..(Len(s) - i) /\ i + (j - (i - 1)) = j + 1
      BY <1>1, <2>2
    <3>2. (a \o b)[j] = b[j - (i - 1)]
      BY <1>1, <1>2, <1>3, <1>4, <2>2
    <3>3. QED
      BY <1>3, <3>1, <3>2
  <2>3. QED
    BY <1>1, <1>2, <1>3, <1>4, <2>1, <2>2
<1>6. QED
  BY <1>4, <1>5 DEF Without, a, b

(* The elements of a list whose last entry is new. *)
LEMMA AppendElements ==
  ASSUME NEW S, NEW s \in Seq(S), NEW e \in S
  PROVE  Members(Append(s, e)) = Members(s) \cup {e}
<1>1. /\ Append(s, e) \in Seq(S) /\ Len(Append(s, e)) = Len(s) + 1
      /\ \A i \in 1..Len(s) : Append(s, e)[i] = s[i]
      /\ Append(s, e)[Len(s) + 1] = e
  BY AppendProperties
<1>2. /\ DOMAIN s = 1..Len(s) /\ Len(s) \in Nat
      /\ DOMAIN Append(s, e) = 1..(Len(s) + 1)
  BY <1>1, LenProperties
<1>3. QED
  BY <1>1, <1>2 DEF Members

(* Moving a listed height to the end keeps the list's heights. *)
LEMMA MoveToEndKeeps ==
  ASSUME NEW S, NEW s \in Seq(S), NEW h \in Members(s)
  PROVE  /\ MoveToEnd(s, h) \in Seq(S)
         /\ Members(s) \subseteq Members(MoveToEnd(s, h))
<1> DEFINE i == FirstIndex(s, h)
           w == Without(s, i)
<1>1. DOMAIN s = 1..Len(s) /\ Len(s) \in Nat
  BY LenProperties
<1>2. i \in DOMAIN s /\ s[i] = h
  BY FirstIndexIsIndex
<1>3. h \in S
  BY <1>1, <1>2, ElementOfSeq
<1>4. /\ w \in Seq(S) /\ Len(w) = Len(s) - 1
      /\ \A j \in 1..(Len(s) - 1) : w[j] = IF j < i THEN s[j] ELSE s[j + 1]
  BY <1>2, WithoutEntry
<1>5. DOMAIN w = 1..(Len(s) - 1)
  BY <1>4, LenProperties
<1> HIDE DEF i, w
<1>6. Members(s) \subseteq Members(w) \cup {h}
  <2> SUFFICES ASSUME NEW k \in 1..Len(s), k # i PROVE s[k] \in Members(w)
    BY <1>1, <1>2 DEF Members
  <2>1. CASE k < i
    <3>1. k \in 1..(Len(s) - 1) /\ w[k] = s[k]
      BY <1>1, <1>2, <1>4, <2>1
    <3>2. QED
      BY <1>5, <3>1 DEF Members
  <2>2. CASE k > i
    <3>1. k - 1 \in 1..(Len(s) - 1) /\ ~(k - 1 < i) /\ (k - 1) + 1 = k
      BY <1>1, <1>2, <2>2
    <3>2. w[k - 1] = s[k]
      BY <1>4, <3>1
    <3>3. QED
      BY <1>5, <3>1, <3>2 DEF Members
  <2>3. QED
    BY <1>1, <1>2, <2>1, <2>2
<1>7. Append(w, h) \in Seq(S) /\ Members(Append(w, h)) = Members(w) \cup {h}
  BY <1>3, <1>4, AppendProperties, AppendElements
<1>8. QED
  BY <1>6, <1>7 DEF MoveToEnd, i, w

-----------------------------------------------------------------------------
(* Type correctness. *)

\* What the kind of a queued transaction says of its other fields.
LEMMA RequestKinds ==
  ASSUME NEW q \in Request
  PROVE  /\ q.kind = "put" => /\ q.by \in Writers /\ q.block \in BsBlock
                              /\ q.latest \in 0..MaxHeight
         /\ q.kind \in {"get", "lookup"} => q.by \in Readers
BY DEF Request

LEMMA TypeInit == StoreAssumption /\ BsInit => BsTypeOK
<1> SUFFICES ASSUME StoreAssumption, BsInit PROVE BsTypeOK
  OBVIOUS
<1>1. <<>> \in Seq(Heights) /\ <<>> \in Seq(Request)
  BY EmptySeq
<1>2. 0 \in 0..MaxHeight /\ 1 \in Heights
  BY DEF StoreAssumption, Heights
<1>3. EmptyDb \in Database
  BY <1>2 DEF EmptyDb, Database, Slot
<1>4. NoWrite \in WriteState
  BY <1>2 DEF NoWrite, WriteState
<1>5. NoRead \in ReadState
  BY <1>2 DEF NoRead, ReadState, Slot
<1>6. memory \in [Heights -> Slot]
  BY DEF BsInit, Slot
<1>7. writer \in [Writers -> WriteState] /\ reader \in [Readers -> ReadState]
  BY <1>4, <1>5 DEF BsInit
<1>8. /\ known \subseteq BsBlock /\ acked \subseteq Heights
      /\ recency \subseteq Heights \X Heights
  BY DEF BsInit
<1>9. up \in BOOLEAN
  BY Zenon DEF BsInit
<1>10. accessOrder \in Seq(Heights) /\ queue \in Seq(Request)
  BY <1>1, Zenon DEF BsInit
<1>11. adds \in 0..MaxAdds /\ failures \in 0..MaxFailures /\ crashes \in 0..MaxCrashes
  BY DEF BsInit, StoreAssumption
<1>12. QED
  BY <1>2, <1>3, <1>6, <1>7, <1>8, <1>9, <1>10, <1>11 DEF BsInit, BsTypeOK

(* Evict keeps cached only heights that stay listed. *)
LEMMA EvictKeeps ==
  ASSUME BsTypeOK, Evict
  PROVE  /\ memory' \in [Heights -> Slot]
         /\ accessOrder' \in Seq(Heights)
         /\ recency' \subseteq Heights \X Heights
         /\ CachedInOrder => CachedInOrder'
<1> USE DEF BsTypeOK
<1>1. PICK n \in 0..Len(accessOrder) :
        /\ memory' = [h \in Heights |-> IF h \in Left(n) THEN memory[h] ELSE Absent]
        /\ accessOrder' = SubSeq(accessOrder, n + 1, Len(accessOrder))
        /\ recency' = {p \in recency : p[1] \in Left(n) /\ p[2] \in Left(n)}
  BY DEF Evict
<1>2. /\ Len(accessOrder) \in Nat /\ DOMAIN accessOrder = 1..Len(accessOrder)
      /\ \A i \in 1..Len(accessOrder) : accessOrder[i] \in Heights
  BY LenProperties, ElementOfSeq
<1>3. /\ SubSeq(accessOrder, n + 1, Len(accessOrder)) \in Seq(Heights)
      /\ Len(SubSeq(accessOrder, n + 1, Len(accessOrder)))
           = IF n + 1 <= Len(accessOrder) THEN Len(accessOrder) - (n + 1) + 1 ELSE 0
      /\ \A i \in 1..(Len(accessOrder) - (n + 1) + 1) :
           SubSeq(accessOrder, n + 1, Len(accessOrder))[i]
             = accessOrder[(n + 1) + i - 1]
  <2>1. \A i \in (n + 1)..Len(accessOrder) : accessOrder[i] \in Heights
    BY <1>2
  <2>2. n + 1 \in Int /\ Len(accessOrder) \in Int
    BY <1>2
  <2>3. QED
    BY <2>1, <2>2, SubSeqProperties
<1>4. /\ SubSeq(accessOrder, 1, n) \in Seq(Heights)
      /\ Len(SubSeq(accessOrder, 1, n)) = n
      /\ \A i \in 1..n : SubSeq(accessOrder, 1, n)[i] = accessOrder[i]
  <2>1. \A i \in 1..n : accessOrder[i] \in Heights
    BY <1>2
  <2>2. /\ SubSeq(accessOrder, 1, n) \in Seq(Heights)
        /\ Len(SubSeq(accessOrder, 1, n)) = IF 1 <= n THEN n - 1 + 1 ELSE 0
        /\ \A i \in 1..(n - 1 + 1) : SubSeq(accessOrder, 1, n)[i] = accessOrder[1 + i - 1]
    BY <1>2, <2>1, SubSeqProperties
  <2>3. QED
    BY <1>2, <2>2
<1>5. ASSUME CachedInOrder, NEW h \in Left(n) PROVE h \in Members(accessOrder')
  <2>1. DOMAIN SubSeq(accessOrder, 1, n) = 1..n
    BY <1>4, LenProperties
  <2>2. PICK i \in 1..Len(accessOrder) : accessOrder[i] = h
    BY <1>2, <1>5 DEF Left, CachedInOrder, Members
  <2>3. i > n
    <3> SUFFICES ASSUME i <= n PROVE FALSE
      BY <1>2
    <3>1. i \in 1..n
      BY <1>2
    <3>2. h \in Members(SubSeq(accessOrder, 1, n))
      BY <1>4, <2>1, <2>2, <3>1 DEF Members
    <3>3. QED
      BY <1>5, <3>2 DEF Left
  <2>4. /\ i - n \in 1..(Len(accessOrder) - (n + 1) + 1)
        /\ (n + 1) + (i - n) - 1 = i
        /\ Len(accessOrder') = Len(accessOrder) - (n + 1) + 1
    <3>1. n \in Nat /\ n + 1 <= Len(accessOrder)
      BY <1>2, <2>3
    <3>2. Len(accessOrder') = Len(accessOrder) - (n + 1) + 1
      BY <1>1, <1>3, <3>1
    <3>3. QED
      BY <1>2, <2>3, <3>1, <3>2
  <2>5. accessOrder'[i - n] = h /\ i - n \in DOMAIN accessOrder'
    <3>1. accessOrder'[i - n] = h
      BY <1>1, <1>3, <2>2, <2>4
    <3>2. DOMAIN accessOrder' = 1..Len(accessOrder')
      BY <1>1, <1>3, LenProperties
    <3>3. QED
      BY <2>4, <3>1, <3>2
  <2>6. QED
    BY <2>5 DEF Members
<1>6. memory' \in [Heights -> Slot]
  BY <1>1 DEF Slot
<1>7. Cached' \subseteq Left(n)
  BY <1>1 DEF Cached
<1>8. QED
  BY <1>1, <1>3, <1>5, <1>6, <1>7 DEF CachedInOrder

LEMMA SettleType ==
  ASSUME BsTypeOK, Settle PROVE queue' \in Seq(Request) /\ Head(queue) \in Request
BY HeadTailProperties DEF BsTypeOK, Settle

LEMMA AnswerType ==
  ASSUME BsTypeOK, NEW i \in DOMAIN queue, Answer(i)
  PROVE  /\ queue' \in Seq(Request)
         /\ queue[i] \in Request /\ queue[i].by \in Readers
<1>1. queue \in Seq(Request) /\ DOMAIN queue = 1..Len(queue) /\ Len(queue) \in Nat
  BY LenProperties DEF BsTypeOK
<1>2. queue[i] \in Request /\ i \in 1..i
  BY <1>1, ElementOfSeq
<1>3. queue[i].by \in Readers
  BY <1>2, RequestKinds DEF Answer, CanAnswer
<1>4. QED
  BY <1>1, <1>2, <1>3, WithoutEntry DEF Answer

LEMMA UseType ==
  ASSUME BsTypeOK, NEW h \in Heights PROVE Use(h) \subseteq Heights \X Heights
BY DEF BsTypeOK, Use, Cached

LEMMA SeekType ==
  ASSUME StoreAssumption, BsTypeOK, NEW q \in Seq(Request), NEW r \in Readers,
         NEW h \in Heights, NEW want \in Slot, NEW sure \in BOOLEAN,
         Seek(q, r, h, want, sure)
  PROVE  /\ accessOrder' \in Seq(Heights)
         /\ recency' \subseteq Heights \X Heights
         /\ queue' \in Seq(Request)
         /\ reader' \in [Readers -> ReadState]
         /\ Members(accessOrder) \subseteq Members(accessOrder')
<1> USE DEF BsTypeOK
<1>1. CASE memory[h] # Absent
  <2>1. accessOrder' \in Seq(Heights) /\ Members(accessOrder) \subseteq Members(accessOrder')
    BY <1>1, MoveToEndKeeps DEF Seek
  <2>2. recency' \subseteq Heights \X Heights /\ queue' \in Seq(Request)
    BY <1>1, UseType DEF Seek
  <2>3. memory[h] \in Slot
    OBVIOUS
  <2>4. [pc |-> "done", height |-> h, want |-> want, sure |-> sure,
         got |-> memory[h]] \in ReadState
    BY <2>3 DEF ReadState
  <2>5. reader' \in [Readers -> ReadState]
    BY <1>1, <2>4 DEF Seek
  <2>6. QED
    BY <2>1, <2>2, <2>5
<1>2. CASE memory[h] = Absent
  <2>1. Get(r) \in Request
    BY DEF Get, Request
  <2>2. queue' = Append(q, Get(r)) /\ UNCHANGED <<accessOrder, recency>>
    BY <1>2 DEF Seek
  <2>3. queue' \in Seq(Request)
    BY <2>1, <2>2, AppendProperties
  <2>4. [pc |-> "reading", height |-> h, want |-> want, sure |-> sure,
         got |-> Absent] \in ReadState
    BY DEF ReadState, Slot
  <2>5. reader' \in [Readers -> ReadState]
    BY <1>2, <2>4 DEF Seek
  <2>6. QED
    BY <2>2, <2>3, <2>5
<1>3. QED
  BY <1>1, <1>2

(* One read by r leaves every part of the state well typed. *)
LEMMA TypeRead ==
  ASSUME StoreAssumption, BsTypeOK, NEW r \in Readers, Read(r)
  PROVE  BsTypeOK'
<1>0. queue \in Seq(Request)
  BY DEF BsTypeOK
<1>1. Absent \in Slot /\ \A b \in BsBlock : b.height \in Heights /\ b.fork \in Slot
  BY DEF Slot, BsBlock
<1>2. ASSUME NEW h \in Heights, GetBlock(r, h) PROVE BsTypeOK'
  <2>1. (h \in acked) \in BOOLEAN
    OBVIOUS
  <2>2. Seek(queue, r, h, Absent, h \in acked)
    BY <1>2 DEF GetBlock
  <2>3. /\ accessOrder' \in Seq(Heights) /\ recency' \subseteq Heights \X Heights
        /\ queue' \in Seq(Request) /\ reader' \in [Readers -> ReadState]
    BY <1>0, <1>1, <2>1, <2>2, SeekType
  <2>4. QED
    BY <1>2, <2>3, Zenon DEF GetBlock, BsTypeOK, countVars
<1>3. ASSUME NEW b \in BsBlock, GetByKnownHash(r, b) PROVE BsTypeOK'
  <2>1. (b.height \in acked) \in BOOLEAN
    OBVIOUS
  <2>2. Seek(queue, r, b.height, b.fork, b.height \in acked)
    BY <1>3 DEF GetByKnownHash
  <2>3. /\ accessOrder' \in Seq(Heights) /\ recency' \subseteq Heights \X Heights
        /\ queue' \in Seq(Request) /\ reader' \in [Readers -> ReadState]
    BY <1>0, <1>1, <2>1, <2>2, SeekType
  <2>4. QED
    BY <1>3, <2>3, Zenon DEF GetByKnownHash, BsTypeOK, countVars
<1>4. ASSUME NEW b \in BsBlock, GetByUnknownHash(r, b) PROVE BsTypeOK'
  <2>1. Lookup(r) \in Request
    BY DEF Lookup, Request
  <2>2. queue' = Append(queue, Lookup(r)) /\ queue \in Seq(Request)
    BY <1>4 DEF GetByUnknownHash, BsTypeOK
  <2>3. queue' \in Seq(Request)
    BY <2>1, <2>2, AppendProperties
  <2> DEFINE s == b.height \in acked /\ b \in db.hashes
  <2>0. s \in BOOLEAN
    OBVIOUS
  <2> HIDE DEF s
  <2>4. [pc |-> "looking", height |-> b.height, want |-> b.fork, sure |-> s,
         got |-> Absent] \in ReadState
    BY <1>1, <2>0 DEF ReadState
  <2>5. reader' \in [Readers -> ReadState]
    BY <1>4, <2>4 DEF GetByUnknownHash, BsTypeOK, s
  <2>6. QED
    BY <1>4, <2>3, <2>5, Zenon DEF GetByUnknownHash, BsTypeOK, memVars, countVars
<1>5. QED
  BY <1>2, <1>3, <1>4 DEF Read

(* A call or a step of writer w leaves every part of the state well typed. *)
LEMMA TypeWrite ==
  ASSUME StoreAssumption, BsTypeOK, NEW w \in Writers, Write(w)
  PROVE  BsTypeOK'
<1>1. ASSUME TakeHeight(w) PROVE BsTypeOK'
  <2>1. vmHeight' \in 0..MaxHeight /\ vmHeight' \in Heights
    BY <1>1 DEF TakeHeight, BsTypeOK, StoreAssumption, Heights
  <2>2. [pc |-> "mining", height |-> vmHeight'] \in WriteState
    BY <2>1 DEF WriteState
  <2>3. writer' \in [Writers -> WriteState]
    BY <1>1, <2>2 DEF TakeHeight, BsTypeOK
  <2>4. QED
    BY <1>1, <2>1, <2>3, Zenon DEF TakeHeight, BsTypeOK, memVars, countVars
<1>2. ASSUME MineAborts(w) PROVE BsTypeOK'
  <2>1. NoWrite \in WriteState
    BY DEF NoWrite, WriteState, StoreAssumption, Heights
  <2>2. writer' \in [Writers -> WriteState] /\ failures' \in 0..MaxFailures
    BY <1>2, <2>1 DEF MineAborts, BsTypeOK, StoreAssumption
  <2>3. QED
    BY <1>2, <2>2, Zenon DEF MineAborts, BsTypeOK, memVars
<1>3. ASSUME NEW b \in BsBlock, Add(w, b) PROVE BsTypeOK'
  <2>1. b.height \in Heights /\ b.fork \in Slot /\ b.height \in 0..MaxHeight
    BY DEF BsBlock, Slot, Heights, StoreAssumption
  <2>2. /\ latestHeight' \in 0..MaxHeight /\ oldestHeight' \in 0..MaxHeight
        /\ adds' \in 0..MaxAdds
    BY <1>3, <2>1 DEF Add, BsTypeOK, StoreAssumption
  <2>3. /\ memory' \in [Heights -> Slot] /\ known' \subseteq BsBlock
        /\ recency' \subseteq Heights \X Heights
    BY <1>3, <2>1, UseType DEF Add, BsTypeOK
  <2>4. accessOrder' \in Seq(Heights)
    BY <1>3, <2>1, AppendProperties DEF Add, BsTypeOK
  <2>5. Put(w, b) \in Request
    <3>1. (oldestHeight = 0) \in BOOLEAN
      OBVIOUS
    <3>2. QED
      BY <2>2, <3>1 DEF Put, Request
  <2>6. queue' \in Seq(Request)
    BY <1>3, <2>5, AppendProperties DEF Add, BsTypeOK
  <2>7. [pc |-> "storing", height |-> b.height] \in WriteState
    BY <2>1 DEF WriteState
  <2>8. writer' \in [Writers -> WriteState]
    BY <1>3, <2>7 DEF Add, BsTypeOK
  <2>9. QED
    BY <1>3, <2>2, <2>3, <2>4, <2>6, <2>8, Zenon DEF Add, BsTypeOK
<1>4. ASSUME NEW f \in Forks, AddMined(w, f) PROVE BsTypeOK'
  <2>1. /\ [height |-> writer[w].height, fork |-> f] \in BsBlock
        /\ Add(w, [height |-> writer[w].height, fork |-> f])
    BY <1>4 DEF AddMined, BsTypeOK, WriteState, BsBlock
  <2>2. QED
    BY <1>3, <2>1
<1>5. ASSUME NEW b \in BsBlock, AddImported(w, b) PROVE BsTypeOK'
  BY <1>3, <1>5 DEF AddImported
<1>6. QED
  BY <1>1, <1>2, <1>4, <1>5 DEF Write

(* What the cursors load is well typed, and exactly what they saw is listed. *)
LEMMA LoadType ==
  ASSUME StoreAssumption, BsTypeOK, NEW seen \in SUBSET Heights,
         NEW hashes \in SUBSET BsBlock, Load(seen, hashes)
  PROVE  /\ memory' \in [Heights -> Slot] /\ accessOrder' \in Seq(Heights)
         /\ known' \subseteq BsBlock /\ recency' \subseteq Heights \X Heights
         /\ CachedInOrder'
<1>1. db.blocks \in [Heights -> Slot]
  BY DEF BsTypeOK, Database
<1>2. Cardinality(seen) \in Nat
  <2>1. IsFiniteSet(Heights)
    BY FS_Interval DEF Heights, StoreAssumption
  <2>2. QED
    BY <2>1, FS_Subset, FS_CardinalityType
<1>3. /\ memory' = [h \in Heights |-> IF h \in seen THEN db.blocks[h] ELSE Absent]
      /\ known' = hashes /\ recency' = {p \in seen \X seen : p[1] < p[2]}
  BY Zenon DEF Load
<1>4. PICK loaded \in [1..Cardinality(seen) -> Heights] :
        accessOrder' = loaded /\ Members(loaded) = seen
  BY Zenon DEF Load
<1>5. loaded \in Seq(Heights)
  BY <1>2
<1>6. memory' \in [Heights -> Slot] /\ recency' \subseteq Heights \X Heights
  BY <1>1, <1>3 DEF Slot
<1>7. CachedInOrder'
  BY <1>3, <1>4 DEF CachedInOrder, Cached
<1>8. QED
  BY <1>3, <1>4, <1>5, <1>6, <1>7, Zenon

(* An answered index lookup that goes on to getBlock has a reader, which
   asked for a block, and leaves a well typed queue.                        *)
LEMMA HitType ==
  ASSUME BsTypeOK, NEW i \in DOMAIN queue, LookupHits(i)
  PROVE  /\ Without(queue, i) \in Seq(Request)
         /\ queue[i].by \in Readers
         /\ reader[queue[i].by].height \in Heights
         /\ reader[queue[i].by].want \in Slot
         /\ reader[queue[i].by].sure \in BOOLEAN
         /\ HashOf(reader[queue[i].by]) \in db.hashes
         /\ HashOf(reader[queue[i].by]) \in BsBlock
         /\ Seek(Without(queue, i), queue[i].by, reader[queue[i].by].height,
                 reader[queue[i].by].want, reader[queue[i].by].sure)
<1>1. queue \in Seq(Request) /\ DOMAIN queue = 1..Len(queue)
  BY LenProperties DEF BsTypeOK
<1>2. queue[i] \in Request /\ queue[i].kind = "lookup"
  BY <1>1, ElementOfSeq DEF LookupHits
<1>3. queue[i].by \in Readers
  BY <1>2, RequestKinds
<1>4. reader[queue[i].by] \in ReadState
  BY <1>3 DEF BsTypeOK
<1>5. Without(queue, i) \in Seq(Request)
  BY <1>1, WithoutEntry
<1>6. db.hashes \subseteq BsBlock
  BY DEF BsTypeOK, Database
<1>7. QED
  BY <1>3, <1>4, <1>5, <1>6 DEF LookupHits, ReadState

(* Every other step leaves every part of the state well typed. *)
LEMMA TypeStep == StoreAssumption /\ BsTypeOK /\ [BsNext]_bsVars => BsTypeOK'
<1> SUFFICES ASSUME StoreAssumption, BsTypeOK, [BsNext]_bsVars PROVE BsTypeOK'
  OBVIOUS
<1>0. /\ NoWrite \in WriteState /\ NoRead \in ReadState
      /\ EmptyDb \in Database /\ 0 \in 0..MaxHeight
      /\ <<>> \in Seq(Heights) /\ <<>> \in Seq(Request)
  BY EmptySeq DEF NoWrite, WriteState, NoRead, ReadState, EmptyDb, Database,
     StoreAssumption, Heights, Slot
<1>1. ASSUME Start PROVE BsTypeOK'
  <2>1. db \in Database /\ db.latest \in 0..MaxHeight /\ db.oldest \in 0..MaxHeight
        /\ db.blocks \in [Heights -> Slot] /\ db.hashes \subseteq BsBlock
    BY DEF BsTypeOK, Database
  <2>2. Window \in SUBSET Heights /\ db.hashes \in SUBSET BsBlock
    BY <2>1 DEF Window
  <2>3. CASE db.latest = 0
    BY <1>1, <2>1, <2>3, Zenon DEF Start, ResumeHeight, BsTypeOK, countVars
  <2>4. CASE db.latest # 0
    <3>1. Load(Window, db.hashes)
      BY <1>1, <2>4, Zenon DEF Start, LoadedHashes
    <3>2. /\ memory' \in [Heights -> Slot] /\ accessOrder' \in Seq(Heights)
          /\ known' \subseteq BsBlock /\ recency' \subseteq Heights \X Heights
      BY <2>2, <3>1, LoadType
    <3>3. QED
      BY <1>1, <2>1, <3>2, Zenon DEF Start, ResumeHeight, BsTypeOK, countVars
  <2>5. QED
    BY <2>3, <2>4
<1>12. ASSUME StartHalf PROVE up' \in BOOLEAN /\ broken' \in BOOLEAN
                              /\ failures' \in 0..MaxFailures
  BY <1>12 DEF StartHalf, BsTypeOK, StoreAssumption
<1>13. ASSUME StartUnread PROVE BsTypeOK'
  <2>1. StartHalf /\ vmHeight' = latestHeight /\ UNCHANGED <<memVars, recency>>
    BY <1>13 DEF StartUnread
  <2>2. QED
    BY <1>12, <2>1, Zenon DEF StartHalf, BsTypeOK, memVars
<1>14. ASSUME StartPartly PROVE BsTypeOK'
  <2>1. StartHalf /\ latestHeight' = db.latest /\ oldestHeight' = db.oldest
        /\ vmHeight' = db.latest
    BY <1>14 DEF StartPartly, ResumeHeight
  <2>2. PICK top \in 0..MaxHeight :
          \E hashes \in SUBSET db.hashes : Load({h \in Window : h <= top}, hashes)
    BY <1>14 DEF StartPartly
  <2>3. PICK hashes \in SUBSET db.hashes : Load({h \in Window : h <= top}, hashes)
    BY <2>2
  <2>4. /\ db.latest \in 0..MaxHeight /\ db.oldest \in 0..MaxHeight
        /\ hashes \in SUBSET BsBlock /\ {h \in Window : h <= top} \in SUBSET Heights
    BY DEF BsTypeOK, Database, Window
  <2>5. /\ memory' \in [Heights -> Slot] /\ accessOrder' \in Seq(Heights)
        /\ known' \subseteq BsBlock /\ recency' \subseteq Heights \X Heights
    BY <2>3, <2>4, LoadType
  <2>6. QED
    BY <1>12, <2>1, <2>4, <2>5, Zenon DEF StartHalf, BsTypeOK
<1>2. ASSUME CommitPut PROVE BsTypeOK'
  <2>1. queue' \in Seq(Request) /\ Head(queue) \in Request
    BY <1>2, SettleType DEF CommitPut
  <2>2. Head(queue).by \in Writers /\ Head(queue).block \in BsBlock
        /\ Head(queue).latest \in 0..MaxHeight
    BY <1>2, <2>1, RequestKinds DEF CommitPut
  <2>3. /\ memory' \in [Heights -> Slot] /\ accessOrder' \in Seq(Heights)
        /\ recency' \subseteq Heights \X Heights
    BY <1>2, EvictKeeps DEF CommitPut
  <2>4. writer' \in [Writers -> WriteState] /\ acked' \subseteq Heights
    BY <1>2, <1>0, <2>2 DEF CommitPut, BsTypeOK, BsBlock
  <2>5. db' \in Database
    <3>1. /\ [db.blocks EXCEPT ![Head(queue).block.height] = Head(queue).block.fork]
               \in [Heights -> Slot]
          /\ db.hashes \cup {Head(queue).block} \subseteq BsBlock
      BY <2>2 DEF BsTypeOK, Database, BsBlock, Slot
    <3>2. (IF Head(queue).first THEN Head(queue).block.height ELSE db.oldest)
            \in 0..MaxHeight
      BY <2>2 DEF BsTypeOK, Database, BsBlock, Heights, StoreAssumption
    <3>3. QED
      BY <1>2, <2>2, <3>1, <3>2 DEF CommitPut, Written, Database
  <2>6. QED
    BY <1>2, <2>1, <2>3, <2>4, <2>5, Zenon DEF CommitPut, BsTypeOK, countVars
<1>3. ASSUME CommitFails PROVE BsTypeOK'
  <2>1. queue' \in Seq(Request) /\ Head(queue).by \in Writers
    BY <1>3, SettleType, RequestKinds DEF CommitFails
  <2>2. writer' \in [Writers -> WriteState]
    BY <1>3, <1>0, <2>1 DEF CommitFails, BsTypeOK
  <2>4. failures' \in 0..MaxFailures
    BY <1>3 DEF CommitFails, BsTypeOK, StoreAssumption
  <2>3. QED
    BY <1>3, <2>1, <2>2, <2>4, Zenon DEF CommitFails, BsTypeOK, memVars
<1>4. ASSUME Clear PROVE BsTypeOK'
  <2>1. Wipe \in Request
    BY DEF Wipe, Request
  <2>2. queue' \in Seq(Request)
    BY <1>4, <2>1, AppendProperties DEF Clear, BsTypeOK
  <2>3. memory' \in [Heights -> Slot]
    BY <1>4 DEF Clear, Slot
  <2>4. reader' \in [Readers -> ReadState]
    BY <1>4 DEF Clear, BsTypeOK, ReadState
  <2>5. known' \subseteq BsBlock /\ recency' \subseteq Heights \X Heights
        /\ acked' \subseteq Heights
    BY <1>4 DEF Clear
  <2>6. QED
    BY <1>4, <1>0, <2>2, <2>3, <2>4, <2>5, Zenon DEF Clear, BsTypeOK, countVars
<1>5. ASSUME ClearSettles PROVE BsTypeOK'
  <2>1. queue' \in Seq(Request)
    BY <1>5, SettleType DEF ClearSettles
  <2>2. reader' \in [Readers -> ReadState]
    BY <1>5 DEF ClearSettles, BsTypeOK, ReadState
  <2>3. acked' \subseteq Heights
    BY <1>5 DEF ClearSettles
  <2>4. QED
    BY <1>5, <1>0, <2>1, <2>2, <2>3, Zenon DEF ClearSettles, BsTypeOK, memVars, countVars
<1>15. ASSUME ClearFails PROVE BsTypeOK'
  <2>1. queue' \in Seq(Request)
    BY <1>15, SettleType DEF ClearFails
  <2>2. failures' \in 0..MaxFailures /\ broken' \in BOOLEAN
    BY <1>15 DEF ClearFails, BsTypeOK, StoreAssumption
  <2>3. QED
    BY <1>15, <2>1, <2>2, Zenon DEF ClearFails, BsTypeOK, memVars
<1>6. ASSUME Crash PROVE BsTypeOK'
  <2>1. memory' \in [Heights -> Slot] /\ crashes' \in 0..MaxCrashes
    BY <1>6 DEF Crash, Slot, BsTypeOK, StoreAssumption
  <2>2. writer' \in [Writers -> WriteState] /\ reader' \in [Readers -> ReadState]
    BY <1>6, <1>0 DEF Crash
  <2>3. known' \subseteq BsBlock /\ recency' \subseteq Heights \X Heights /\ up' \in BOOLEAN
    BY <1>6 DEF Crash
  <2>4. QED
    BY <1>6, <1>0, <2>1, <2>2, <2>3, Zenon DEF Crash, BsTypeOK
<1>7. ASSUME NEW i \in DOMAIN queue, Fill(i) PROVE BsTypeOK'
  <2>1. queue' \in Seq(Request) /\ queue[i].by \in Readers
    BY <1>7, AnswerType DEF Fill
  <2> DEFINE r == queue[i].by
             h == reader[r].height
  <2>2. h \in Heights /\ db.blocks[h] \in Slot
    BY <2>1 DEF BsTypeOK, ReadState, Database
  <2>3. reader' \in [Readers -> ReadState]
    <3>1. reader' = [reader EXCEPT ![r].pc = "done", ![r].got = db.blocks[h]]
      BY <1>7 DEF Fill
    <3>2. reader \in [Readers -> ReadState]
      BY DEF BsTypeOK
    <3> HIDE DEF h
    <3>3. [reader[r] EXCEPT !.pc = "done", !.got = db.blocks[h]] \in ReadState
      BY <2>1, <2>2, <3>2 DEF ReadState
    <3>4. QED
      BY <2>1, <3>1, <3>2, <3>3
  <2>4. /\ memory' \in [Heights -> Slot] /\ accessOrder' \in Seq(Heights)
        /\ recency' \subseteq Heights \X Heights
    <3>1. /\ memory \in [Heights -> Slot] /\ accessOrder \in Seq(Heights)
          /\ recency \subseteq Heights \X Heights
      BY DEF BsTypeOK
    <3>2. \/ UNCHANGED <<memory, accessOrder, recency>>
          \/ /\ memory' = [memory EXCEPT ![h] = db.blocks[h]]
             /\ accessOrder' = Append(accessOrder, h)
             /\ recency' = Use(h)
      BY <1>7 DEF Fill
    <3> HIDE DEF h, r
    <3>3. Append(accessOrder, h) \in Seq(Heights) /\ Use(h) \subseteq Heights \X Heights
      BY <2>2, <3>1, AppendProperties, UseType
    <3>4. QED
      BY <2>2, <3>1, <3>2, <3>3
  <2>5. QED
    BY <1>7, <2>1, <2>3, <2>4, Zenon DEF Fill, BsTypeOK, countVars
<1>8. ASSUME NEW i \in DOMAIN queue, LookupMisses(i) PROVE BsTypeOK'
  <2>1. queue' \in Seq(Request) /\ queue[i].by \in Readers
    BY <1>8, AnswerType DEF LookupMisses
  <2>2. reader' \in [Readers -> ReadState]
    BY <1>8, <2>1 DEF LookupMisses, BsTypeOK, ReadState
  <2>3. QED
    BY <1>8, <2>1, <2>2, Zenon DEF LookupMisses, BsTypeOK, memVars, countVars
<1>16. ASSUME NEW i \in DOMAIN queue, LookupHits(i) PROVE BsTypeOK'
  <2>1. /\ accessOrder' \in Seq(Heights) /\ recency' \subseteq Heights \X Heights
        /\ queue' \in Seq(Request) /\ reader' \in [Readers -> ReadState]
    BY <1>16, HitType, SeekType
  <2>2. known' \subseteq BsBlock
    BY <1>16, HitType DEF LookupHits, BsTypeOK
  <2>3. QED
    BY <1>16, <2>1, <2>2, Zenon DEF LookupHits, BsTypeOK, countVars
<1>9. ASSUME NEW i \in DOMAIN queue, ReadFails(i) PROVE BsTypeOK'
  <2>1. queue' \in Seq(Request) /\ queue[i].by \in Readers
    BY <1>9, AnswerType DEF ReadFails
  <2>2. reader' \in [Readers -> ReadState] /\ failures' \in 0..MaxFailures
    BY <1>9, <1>0, <2>1 DEF ReadFails, BsTypeOK, StoreAssumption
  <2>3. QED
    BY <1>9, <2>1, <2>2, Zenon DEF ReadFails, BsTypeOK, memVars
<1>10. ASSUME UNCHANGED bsVars PROVE BsTypeOK'
  BY <1>10, Zenon DEF BsTypeOK, bsVars, memVars, procVars, countVars
<1>11. QED
  BY <1>1, <1>2, <1>3, <1>4, <1>5, <1>6, <1>7, <1>8, <1>9, <1>10, <1>13,
     <1>14, <1>15, <1>16, TypeRead, TypeWrite DEF BsNext

(* The state of the store is always well typed. *)
THEOREM TypeCorrect == BsSpec => []BsTypeOK
BY TypeInit, TypeStep, StoreAssumption, PTL DEF BsSpec

-----------------------------------------------------------------------------
(* The eviction loop ends: every cached height is listed. *)

LEMMA OrderStep ==
  ASSUME StoreAssumption, BsTypeOK, CachedInOrder, [BsNext]_bsVars
  PROVE  CachedInOrder'
<1>0. accessOrder \in Seq(Heights) /\ memory \in [Heights -> Slot]
  BY DEF BsTypeOK
<1>1. ASSUME UNCHANGED <<memory, accessOrder>> PROVE CachedInOrder'
  BY <1>1 DEF CachedInOrder, Cached
<1>2. ASSUME memory' = [h \in Heights |-> Absent] PROVE CachedInOrder'
  BY <1>2 DEF CachedInOrder, Cached
<1>3. ASSUME NEW h \in Heights, NEW f,
             memory' = [memory EXCEPT ![h] = f],
             accessOrder' = Append(accessOrder, h)
      PROVE  CachedInOrder'
  <2>1. Members(accessOrder') = Members(accessOrder) \cup {h}
    BY <1>0, <1>3, AppendElements
  <2>2. Cached' \subseteq Cached \cup {h}
    BY <1>0, <1>3 DEF Cached
  <2>3. QED
    BY <2>1, <2>2 DEF CachedInOrder
<1>4. ASSUME NEW r \in Readers, NEW h \in Heights, NEW want \in Slot,
             NEW sure \in BOOLEAN, NEW q \in Seq(Request),
             Seek(q, r, h, want, sure), UNCHANGED memory
      PROVE  CachedInOrder'
  BY <1>4, SeekType DEF CachedInOrder, Cached
<1>5. ASSUME Start PROVE CachedInOrder'
  <2>1. CASE db.latest = 0
    BY <1>1, <1>5, <2>1 DEF Start
  <2>2. CASE db.latest # 0
    <3>1. Load(Window, db.hashes)
      BY <1>5, <2>2, Zenon DEF Start, LoadedHashes
    <3>2. Window \in SUBSET Heights /\ db.hashes \in SUBSET BsBlock
      BY DEF Window, BsTypeOK, Database
    <3>3. QED
      BY <3>1, <3>2, LoadType
  <2>3. QED
    BY <2>1, <2>2
<1>16. ASSUME StartPartly PROVE CachedInOrder'
  <2>1. PICK top \in 0..MaxHeight :
          \E hashes \in SUBSET db.hashes : Load({h \in Window : h <= top}, hashes)
    BY <1>16 DEF StartPartly
  <2>2. PICK hashes \in SUBSET db.hashes : Load({h \in Window : h <= top}, hashes)
    BY <2>1
  <2>3. hashes \in SUBSET BsBlock /\ {h \in Window : h <= top} \in SUBSET Heights
    BY DEF BsTypeOK, Database, Window
  <2>4. QED
    BY <2>2, <2>3, LoadType
<1>6. ASSUME CommitPut PROVE CachedInOrder'
  BY <1>6, EvictKeeps DEF CommitPut
<1>7. ASSUME NEW w \in Writers, NEW b \in BsBlock, Add(w, b) PROVE CachedInOrder'
  BY <1>3, <1>7 DEF Add, BsBlock
<1>8. ASSUME NEW w \in Writers, Write(w) PROVE CachedInOrder'
  <2>1. ASSUME NEW f \in Forks, AddMined(w, f) PROVE CachedInOrder'
    <3>1. [height |-> writer[w].height, fork |-> f] \in BsBlock
      BY DEF BsTypeOK, WriteState, BsBlock
    <3>2. QED
      BY <1>7, <2>1, <3>1 DEF AddMined
  <2>2. ASSUME TakeHeight(w) \/ MineAborts(w) PROVE CachedInOrder'
    BY <1>1, <2>2 DEF TakeHeight, MineAborts, memVars
  <2>3. QED
    BY <1>7, <1>8, <2>1, <2>2 DEF Write, AddImported
<1>9. ASSUME NEW r \in Readers, Read(r) PROVE CachedInOrder'
  <2>1. ASSUME NEW h \in Heights, GetBlock(r, h) PROVE CachedInOrder'
    <3>1. Seek(queue, r, h, Absent, h \in acked) /\ UNCHANGED memory
          /\ queue \in Seq(Request)
      BY <2>1 DEF GetBlock, BsTypeOK
    <3>2. Absent \in Slot /\ (h \in acked) \in BOOLEAN
      BY DEF Slot
    <3>3. QED
      BY <1>4, <3>1, <3>2
  <2>2. ASSUME NEW b \in BsBlock, GetByKnownHash(r, b) PROVE CachedInOrder'
    <3>1. Seek(queue, r, b.height, b.fork, b.height \in acked) /\ UNCHANGED memory
          /\ queue \in Seq(Request)
      BY <2>2 DEF GetByKnownHash, BsTypeOK
    <3>2. b.height \in Heights /\ b.fork \in Slot /\ (b.height \in acked) \in BOOLEAN
      BY DEF Slot, BsBlock
    <3>3. QED
      BY <1>4, <3>1, <3>2
  <2>3. ASSUME NEW b \in BsBlock, GetByUnknownHash(r, b) PROVE CachedInOrder'
    BY <1>1, <2>3 DEF GetByUnknownHash, memVars
  <2>4. QED
    BY <1>9, <2>1, <2>2, <2>3 DEF Read
<1>10. ASSUME NEW i \in DOMAIN queue, Fill(i) PROVE CachedInOrder'
  <2>1. queue[i].by \in Readers /\ reader[queue[i].by].height \in Heights
    BY <1>10, AnswerType DEF Fill, BsTypeOK, ReadState
  <2>2. QED
    BY <1>1, <1>3, <1>10, <2>1 DEF Fill
<1>11. ASSUME NEW i \in DOMAIN queue, LookupMisses(i) \/ ReadFails(i)
       PROVE  CachedInOrder'
  BY <1>1, <1>11 DEF LookupMisses, ReadFails, memVars
<1>17. ASSUME NEW i \in DOMAIN queue, LookupHits(i) PROVE CachedInOrder'
  <2>1. UNCHANGED memory
    BY <1>17 DEF LookupHits
  <2>2. QED
    BY <1>4, <1>17, <2>1, HitType
<1>12. ASSUME CommitFails \/ ClearSettles \/ ClearFails \/ StartUnread
       PROVE  CachedInOrder'
  BY <1>1, <1>12 DEF CommitFails, ClearSettles, ClearFails, StartUnread, memVars
<1>13. ASSUME Clear \/ Crash PROVE CachedInOrder'
  BY <1>2, <1>13 DEF Clear, Crash
<1>14. ASSUME UNCHANGED bsVars PROVE CachedInOrder'
  BY <1>1, <1>14 DEF bsVars, memVars
<1>15. QED
  BY <1>5, <1>6, <1>8, <1>9, <1>10, <1>11, <1>12, <1>13, <1>14, <1>16, <1>17
     DEF BsNext

(* Every cached height is in the recency list, in every reachable state. *)
THEOREM CacheListed == BsSpec => []CachedInOrder
<1>1. BsInit => CachedInOrder
  BY DEF BsInit, CachedInOrder, Cached
<1>2. BsTypeOK /\ CachedInOrder /\ [BsNext]_bsVars => CachedInOrder'
  BY OrderStep, StoreAssumption
<1>3. QED
  BY <1>1, <1>2, TypeCorrect, PTL DEF BsSpec

(* So evictFromMemory, which shifts heights off that list while the cache is
   too large, ends: some number of shifts leaves a cache that fits.         *)
EvictionEnds ==
  \E n \in 0..Len(accessOrder) : Cardinality(Left(n)) <= MaxCached

THEOREM EvictionTerminates == BsSpec => []EvictionEnds
<1>1. BsTypeOK /\ CachedInOrder => EvictionEnds
  <2> SUFFICES ASSUME BsTypeOK, CachedInOrder PROVE EvictionEnds
    OBVIOUS
  <2>1. accessOrder \in Seq(Heights) /\ Len(accessOrder) \in Nat
    BY LenProperties DEF BsTypeOK
  <2>2. SubSeq(accessOrder, 1, Len(accessOrder)) = accessOrder
    BY <2>1, SubSeqFull
  <2>3. Left(Len(accessOrder)) = {}
    BY <2>2 DEF Left, CachedInOrder
  <2>4. Cardinality(Left(Len(accessOrder))) = 0
    BY <2>3, FS_EmptySet
  <2>5. 0 <= MaxCached /\ Len(accessOrder) \in 0..Len(accessOrder)
    BY <2>1, StoreAssumption DEF StoreAssumption
  <2>6. QED
    BY <2>4, <2>5 DEF EvictionEnds
<1>2. QED
  BY <1>1, TypeCorrect, CacheListed, PTL

-----------------------------------------------------------------------------
(* Reads find what is stored.                                               *)
(*                                                                          *)
(* ReadsFindStored is not inductive: when a queued read settles, it finds   *)
(* the block only because the block was in the database when the read was   *)
(* queued and nothing since removed it, and because the settling request is *)
(* the one its reader waits for.                                            *)

\* A queued request is the one its caller waits for, and the only one it has.
IsRead(q) == q.kind \in {"get", "lookup"}

ReadsTracked ==
  /\ \A i \in DOMAIN queue : IsRead(queue[i]) =>
       reader[queue[i].by].pc = IF queue[i].kind = "get" THEN "reading" ELSE "looking"
  /\ \A i, j \in DOMAIN queue :
       IsRead(queue[i]) /\ IsRead(queue[j]) /\ queue[i].by = queue[j].by => i = j

\* A read that must find a block is queued only while the block is stored, and
\* a lookup of its hash only while the index has it.
SureReads ==
  \A r \in Readers : reader[r].sure =>
    /\ reader[r].pc \in {"looking", "reading"} =>
         db.blocks[reader[r].height] # Absent
    /\ reader[r].pc = "looking" => HashOf(reader[r]) \in db.hashes

ReadInv == BsTypeOK /\ AckedStored /\ ReadsTracked /\ SureReads /\ ReadsFindStored

(* What the oldest request and any other leave behind is still tracked, if
   the readers of what is left still wait.                                  *)
LEMMA TrackedAfterSettle ==
  ASSUME BsTypeOK, ReadsTracked, Settle,
         \A r \in Readers : reader'[r].pc = reader[r].pc
  PROVE  ReadsTracked'
<1>1. queue \in Seq(Request) /\ queue # <<>> /\ queue' = Tail(queue)
  BY DEF BsTypeOK, Settle
<1>2. /\ queue' \in Seq(Request) /\ Len(queue') = Len(queue) - 1
      /\ \A i \in 1..Len(queue') : queue'[i] = queue[i + 1]
  BY <1>1, HeadTailProperties
<1>3. /\ DOMAIN queue = 1..Len(queue) /\ Len(queue) \in Nat
      /\ DOMAIN queue' = 1..Len(queue')
      /\ \A i \in 1..Len(queue) : queue[i] \in Request
  BY <1>1, <1>2, LenProperties, ElementOfSeq
<1>4. ASSUME NEW i \in DOMAIN queue'
      PROVE  i + 1 \in DOMAIN queue /\ queue'[i] = queue[i + 1]
  BY <1>2, <1>3
<1>5. ASSUME NEW i \in DOMAIN queue', IsRead(queue'[i])
      PROVE  reader'[queue'[i].by].pc
               = IF queue'[i].kind = "get" THEN "reading" ELSE "looking"
  <2>1. queue'[i].by \in Readers
    BY <1>3, <1>4, <1>5, RequestKinds DEF IsRead
  <2>2. QED
    BY <1>4, <1>5, <2>1 DEF ReadsTracked
<1>6. ASSUME NEW i \in DOMAIN queue', NEW j \in DOMAIN queue',
             IsRead(queue'[i]), IsRead(queue'[j]), queue'[i].by = queue'[j].by
      PROVE  i = j
  <2>1. i + 1 = j + 1
    BY <1>4, <1>6 DEF ReadsTracked
  <2>2. QED
    BY <1>3, <2>1
<1>7. QED
  BY <1>5, <1>6 DEF ReadsTracked

LEMMA TrackedAfterAnswer ==
  ASSUME BsTypeOK, ReadsTracked, NEW i \in DOMAIN queue, Answer(i),
         \A r \in Readers \ {queue[i].by} : reader'[r].pc = reader[r].pc
  PROVE  ReadsTracked'
<1>1. queue \in Seq(Request) /\ queue' = Without(queue, i)
  BY DEF BsTypeOK, Answer, CanAnswer
<1>2. /\ queue' \in Seq(Request) /\ Len(queue') = Len(queue) - 1
      /\ \A j \in 1..(Len(queue) - 1) :
           queue'[j] = IF j < i THEN queue[j] ELSE queue[j + 1]
  BY <1>1, WithoutEntry
<1>3. /\ DOMAIN queue = 1..Len(queue) /\ Len(queue) \in Nat
      /\ DOMAIN queue' = 1..(Len(queue) - 1) /\ i \in Nat
      /\ \A j \in 1..Len(queue) : queue[j] \in Request
  BY <1>1, <1>2, LenProperties, ElementOfSeq
<1> DEFINE from(j) == IF j < i THEN j ELSE j + 1
<1>4. ASSUME NEW j \in DOMAIN queue'
      PROVE  from(j) \in DOMAIN queue /\ from(j) # i /\ queue'[j] = queue[from(j)]
  BY <1>2, <1>3
<1>5. \A j, k \in DOMAIN queue' : from(j) = from(k) => j = k
  BY <1>3
<1> HIDE DEF from
<1>6. IsRead(queue[i])
  BY <1>3 DEF Answer, CanAnswer, IsRead
<1>7. ASSUME NEW j \in DOMAIN queue', IsRead(queue'[j])
      PROVE  reader'[queue'[j].by].pc
               = IF queue'[j].kind = "get" THEN "reading" ELSE "looking"
  <2>1. queue'[j].by \in Readers
    BY <1>3, <1>4, <1>7, RequestKinds DEF IsRead
  <2>2. queue'[j].by # queue[i].by
    BY <1>4, <1>6, <1>7 DEF ReadsTracked
  <2>3. QED
    BY <1>4, <1>7, <2>1, <2>2 DEF ReadsTracked
<1>8. ASSUME NEW j \in DOMAIN queue', NEW k \in DOMAIN queue',
             IsRead(queue'[j]), IsRead(queue'[k]), queue'[j].by = queue'[k].by
      PROVE  j = k
  <2>1. from(j) = from(k)
    BY <1>4, <1>8 DEF ReadsTracked
  <2>2. QED
    BY <1>5, <2>1
<1>9. QED
  BY <1>7, <1>8 DEF ReadsTracked

\* What each position of the queue held before entry i was taken out.
From(i, j) == IF j < i THEN j ELSE j + 1

LEMMA BeforeLast ==
  ASSUME NEW n \in Nat, NEW j \in 1..n, j # n
  PROVE  j \in 1..(n - 1)
OBVIOUS

LEMMA FromIndex ==
  ASSUME NEW n \in Nat, NEW i \in 1..n
  PROVE  /\ \A j \in 1..(n - 1) : From(i, j) \in 1..n /\ From(i, j) # i
         /\ \A j, k \in 1..(n - 1) : From(i, j) = From(i, k) => j = k
BY DEF From

(* A lookup that hits may be followed at once by a read of its own. *)
LEMMA TrackedAfterHit ==
  ASSUME BsTypeOK, ReadsTracked, NEW i \in DOMAIN queue, queue[i].kind = "lookup",
         queue' = Append(Without(queue, i), Get(queue[i].by)),
         reader'[queue[i].by].pc = "reading",
         \A r \in Readers \ {queue[i].by} : reader'[r].pc = reader[r].pc
  PROVE  ReadsTracked'
<1> DEFINE w == Without(queue, i)
           g == Get(queue[i].by)
           from(j) == IF j = Len(queue) THEN i ELSE From(i, j)
<1>1. queue \in Seq(Request) /\ queue[i] \in Request /\ IsRead(queue[i])
  BY ElementOfSeq, LenProperties DEF BsTypeOK, IsRead
<1>2. queue[i].by \in Readers
  BY <1>1, RequestKinds DEF IsRead
<1>3. g \in Request /\ g.by = queue[i].by /\ g.kind = "get"
  BY <1>2 DEF Get, Request
<1>4. /\ w \in Seq(Request) /\ Len(w) = Len(queue) - 1
      /\ \A j \in 1..(Len(queue) - 1) :
           w[j] = IF j < i THEN queue[j] ELSE queue[j + 1]
  BY <1>1, WithoutEntry
<1> HIDE DEF w, g
<1>5. queue' = Append(w, g)
  BY DEF w, g
<1>6. /\ queue' \in Seq(Request) /\ Len(queue') = Len(w) + 1
      /\ \A j \in 1..Len(w) : queue'[j] = w[j]
      /\ queue'[Len(w) + 1] = g
  BY <1>3, <1>4, <1>5, AppendProperties
<1>7. /\ DOMAIN queue = 1..Len(queue) /\ Len(queue) \in Nat
      /\ DOMAIN queue' = 1..Len(queue) /\ i \in 1..Len(queue)
      /\ \A j \in 1..Len(queue) : queue[j] \in Request
  BY <1>1, <1>4, <1>6, LenProperties, ElementOfSeq
<1>f. /\ \A j \in 1..(Len(queue) - 1) : From(i, j) \in 1..Len(queue) /\ From(i, j) # i
      /\ \A j, k \in 1..(Len(queue) - 1) : From(i, j) = From(i, k) => j = k
  BY <1>7, FromIndex
<1>w. \A j \in 1..(Len(queue) - 1) : w[j] = queue[From(i, j)]
  BY <1>4 DEF From
<1>8. ASSUME NEW j \in DOMAIN queue', j # Len(queue)
      PROVE  from(j) \in DOMAIN queue /\ from(j) # i /\ queue'[j] = queue[from(j)]
  <2>n. Len(queue) \in Nat /\ j \in 1..Len(queue)
    BY <1>7
  <2>1. j \in 1..(Len(queue) - 1)
    BY <1>8, <2>n, BeforeLast
  <2>2. queue'[j] = w[j]
    BY <1>4, <1>6, <2>1
  <2>3. from(j) = From(i, j)
    BY <1>8
  <2>4. QED
    BY <1>7, <1>f, <1>w, <2>1, <2>2, <2>3
<1>9. queue'[Len(queue)] = g /\ from(Len(queue)) = i
  BY <1>4, <1>6, <1>7
<1>10. ASSUME NEW j \in DOMAIN queue', NEW k \in DOMAIN queue', from(j) = from(k)
       PROVE  j = k
  <2>1. ASSUME NEW m \in DOMAIN queue', m # Len(queue)
        PROVE  m \in 1..(Len(queue) - 1) /\ from(m) = From(i, m)
    <3>1. Len(queue) \in Nat /\ m \in 1..Len(queue)
      BY <1>7
    <3>2. m \in 1..(Len(queue) - 1)
      BY <2>1, <3>1, BeforeLast
    <3>3. QED
      BY <2>1, <3>2
  <2>2. CASE j = Len(queue) \/ k = Len(queue)
    BY <1>8, <1>9, <1>10, <2>2
  <2>3. CASE j # Len(queue) /\ k # Len(queue)
    BY <1>f, <1>10, <2>1, <2>3
  <2>4. QED
    BY <2>2, <2>3
<1>11. ASSUME NEW j \in DOMAIN queue'
       PROVE  /\ from(j) \in DOMAIN queue
              /\ IsRead(queue'[j]) => /\ IsRead(queue[from(j)])
                                      /\ queue'[j].by = queue[from(j)].by
  <2>1. CASE j = Len(queue)
    BY <1>1, <1>3, <1>7, <1>9, <2>1
  <2>2. CASE j # Len(queue)
    BY <1>8, <2>2
  <2>3. QED
    BY <2>1, <2>2
<1> HIDE DEF from
<1>12. ASSUME NEW j \in DOMAIN queue', IsRead(queue'[j])
       PROVE  reader'[queue'[j].by].pc
                = IF queue'[j].kind = "get" THEN "reading" ELSE "looking"
  <2>1. CASE j = Len(queue)
    BY <1>3, <1>9, <2>1
  <2>2. CASE j # Len(queue)
    <3>1. /\ from(j) \in DOMAIN queue /\ from(j) # i /\ queue'[j] = queue[from(j)]
      BY <1>8, <2>2
    <3>2. queue'[j].by \in Readers
      BY <1>7, <1>12, <3>1, RequestKinds DEF IsRead
    <3>3. queue'[j].by # queue[i].by
      BY <1>1, <1>12, <3>1 DEF ReadsTracked
    <3>4. QED
      BY <1>12, <3>1, <3>2, <3>3 DEF ReadsTracked
  <2>3. QED
    BY <2>1, <2>2
<1>13. ASSUME NEW j \in DOMAIN queue', NEW k \in DOMAIN queue',
              IsRead(queue'[j]), IsRead(queue'[k]), queue'[j].by = queue'[k].by
       PROVE  j = k
  <2>1. from(j) = from(k)
    BY <1>11, <1>13 DEF ReadsTracked
  <2>2. QED
    BY <1>10, <2>1
<1>14. QED
  BY <1>12, <1>13 DEF ReadsTracked

(* A new request is tracked if it is no read, or the read of a caller that
   had none and now waits for it.                                           *)
LEMMA TrackedAfterAppend ==
  ASSUME BsTypeOK, ReadsTracked, NEW q \in Request, queue' = Append(queue, q),
         IsRead(q) => /\ reader[q.by].pc \in {"idle", "done"}
                      /\ reader'[q.by].pc
                           = IF q.kind = "get" THEN "reading" ELSE "looking",
         \A r \in Readers : (IsRead(q) => r # q.by) => reader'[r].pc = reader[r].pc
  PROVE  ReadsTracked'
<1>1. queue \in Seq(Request)
  BY DEF BsTypeOK
<1>2. /\ queue' \in Seq(Request) /\ Len(queue') = Len(queue) + 1
      /\ \A i \in 1..Len(queue) : queue'[i] = queue[i]
      /\ queue'[Len(queue) + 1] = q
  BY <1>1, AppendProperties
<1>3. /\ DOMAIN queue = 1..Len(queue) /\ Len(queue) \in Nat
      /\ DOMAIN queue' = 1..(Len(queue) + 1)
      /\ \A j \in 1..Len(queue) : queue[j] \in Request
  BY <1>1, <1>2, LenProperties, ElementOfSeq
<1>4. ASSUME NEW i \in DOMAIN queue', i \notin DOMAIN queue
      PROVE  i = Len(queue) + 1 /\ queue'[i] = q
  BY <1>2, <1>3, <1>4
<1>5. ASSUME NEW i \in DOMAIN queue, IsRead(queue[i]), IsRead(q)
      PROVE  queue[i].by # q.by
  BY <1>5 DEF ReadsTracked
<1>6. ASSUME NEW i \in DOMAIN queue', IsRead(queue'[i])
      PROVE  reader'[queue'[i].by].pc
               = IF queue'[i].kind = "get" THEN "reading" ELSE "looking"
  <2>1. CASE i \in DOMAIN queue
    <3>1. queue'[i] = queue[i] /\ queue[i].by \in Readers
      BY <1>2, <1>3, <1>6, <2>1, RequestKinds DEF IsRead
    <3>2. IsRead(q) => queue[i].by # q.by
      BY <1>5, <1>6, <2>1, <3>1
    <3>3. QED
      BY <1>6, <2>1, <3>1, <3>2 DEF ReadsTracked
  <2>2. CASE i \notin DOMAIN queue
    BY <1>4, <1>6, <2>2
  <2>3. QED
    BY <2>1, <2>2
<1>7. ASSUME NEW i \in DOMAIN queue', NEW j \in DOMAIN queue',
             IsRead(queue'[i]), IsRead(queue'[j]), queue'[i].by = queue'[j].by
      PROVE  i = j
  <2>1. \A k \in DOMAIN queue : queue'[k] = queue[k]
    BY <1>2, <1>3
  <2>2. CASE i \in DOMAIN queue /\ j \in DOMAIN queue
    BY <1>7, <2>1, <2>2 DEF ReadsTracked
  <2>3. CASE i \in DOMAIN queue /\ j \notin DOMAIN queue
    BY <1>4, <1>5, <1>7, <2>1, <2>3
  <2>4. CASE i \notin DOMAIN queue /\ j \in DOMAIN queue
    BY <1>4, <1>5, <1>7, <2>1, <2>4
  <2>5. CASE i \notin DOMAIN queue /\ j \notin DOMAIN queue
    BY <1>4, <2>5
  <2>6. QED
    BY <2>2, <2>3, <2>4, <2>5
<1>8. QED
  BY <1>6, <1>7 DEF ReadsTracked

\* What a step that neither reads nor wipes must leave alone.
LEMMA ReadFrame ==
  ASSUME BsTypeOK, SureReads, ReadsFindStored, UNCHANGED reader,
         \A h \in Heights : db.blocks[h] # Absent => db'.blocks[h] # Absent,
         db.hashes \subseteq db'.hashes
  PROVE  SureReads' /\ ReadsFindStored'
<1>1. \A r \in Readers : reader[r].height \in Heights
  BY DEF BsTypeOK, ReadState
<1>2. QED
  BY <1>1 DEF SureReads, ReadsFindStored

LEMMA SeekReads ==
  ASSUME ReadInv, NEW r \in Readers, NEW h \in Heights, NEW want \in Slot,
         reader[r].pc \in {"idle", "done"}, Seek(queue, r, h, want, h \in acked),
         UNCHANGED <<db, acked>>
  PROVE  AckedStored' /\ ReadsTracked' /\ SureReads' /\ ReadsFindStored'
<1> USE DEF ReadInv
<1>1. reader \in [Readers -> ReadState]
  BY DEF BsTypeOK
<1>2. AckedStored'
  BY DEF AckedStored
<1>3. CASE memory[h] # Absent
  <2>1. /\ reader' = [reader EXCEPT ![r] = [pc |-> "done", height |-> h,
             want |-> want, sure |-> h \in acked, got |-> memory[h]]]
        /\ UNCHANGED queue
    BY <1>3 DEF Seek
  <2>2. /\ reader'[r].pc = "done" /\ reader'[r].got # Absent
        /\ \A s \in Readers \ {r} : reader'[s] = reader[s]
    BY <1>1, <1>3, <2>1
  <2>3. ReadsTracked'
    <3>1. ASSUME NEW i \in DOMAIN queue, IsRead(queue[i])
          PROVE  queue[i].by # r /\ queue[i].by \in Readers
      <4>1. queue[i] \in Request
        BY ElementOfSeq, LenProperties DEF BsTypeOK
      <4>2. QED
        BY <3>1, <4>1, RequestKinds DEF ReadsTracked, IsRead
    <3>2. QED
      BY <2>1, <2>2, <3>1 DEF ReadsTracked
  <2>4. SureReads' /\ ReadsFindStored'
    BY <2>2 DEF SureReads, ReadsFindStored
  <2>5. QED
    BY <1>2, <2>3, <2>4
<1>4. CASE memory[h] = Absent
  <2>1. /\ reader' = [reader EXCEPT ![r] = [pc |-> "reading", height |-> h,
             want |-> want, sure |-> h \in acked, got |-> Absent]]
        /\ queue' = Append(queue, Get(r))
    BY <1>4 DEF Seek
  <2>2. /\ reader'[r].pc = "reading" /\ reader'[r].height = h
        /\ reader'[r].sure = (h \in acked)
        /\ \A s \in Readers \ {r} : reader'[s] = reader[s]
    BY <1>1, <2>1
  <2>3. Get(r) \in Request /\ Get(r).by = r /\ Get(r).kind = "get"
    BY DEF Get, Request
  <2>4. ReadsTracked'
    BY <2>1, <2>2, <2>3, TrackedAfterAppend DEF IsRead
  <2>5. SureReads'
    BY <2>2 DEF SureReads, AckedStored
  <2>6. ReadsFindStored'
    BY <2>2 DEF ReadsFindStored
  <2>7. QED
    BY <1>2, <2>4, <2>5, <2>6
<1>5. QED
  BY <1>3, <1>4

LEMMA ReadStep ==
  ASSUME StoreAssumption, ReadInv, [BsNext]_bsVars
  PROVE  AckedStored' /\ ReadsTracked' /\ SureReads' /\ ReadsFindStored'
<1> USE DEF ReadInv
<1> DEFINE Goal == AckedStored' /\ ReadsTracked' /\ SureReads' /\ ReadsFindStored'
<1>0. /\ reader \in [Readers -> ReadState] /\ queue \in Seq(Request)
      /\ db.blocks \in [Heights -> Slot]
  BY DEF BsTypeOK, Database
<1>1. ASSUME UNCHANGED <<reader, queue, db, acked>> PROVE Goal
  BY <1>1 DEF AckedStored, ReadsTracked, SureReads, ReadsFindStored
<1>2. ASSUME NEW w \in Writers, NEW b \in BsBlock, Add(w, b) PROVE Goal
  <2>1. Put(w, b) \in Request /\ ~ IsRead(Put(w, b))
    <3>1. latestHeight' \in 0..MaxHeight
      BY <1>2 DEF Add, BsTypeOK, BsBlock, Heights, StoreAssumption
    <3>2. (oldestHeight = 0) \in BOOLEAN
      OBVIOUS
    <3>3. QED
      BY <3>1, <3>2 DEF Put, Request, IsRead
  <2>2. queue' = Append(queue, Put(w, b)) /\ UNCHANGED <<reader, db, acked>>
    BY <1>2 DEF Add
  <2>3. ReadsTracked'
    BY <2>1, <2>2, TrackedAfterAppend
  <2>4. QED
    BY <2>2, <2>3 DEF AckedStored, SureReads, ReadsFindStored
<1>3. ASSUME NEW w \in Writers, Write(w) PROVE Goal
  <2>1. ASSUME NEW f \in Forks, AddMined(w, f) PROVE Goal
    <3>1. [height |-> writer[w].height, fork |-> f] \in BsBlock
      BY DEF BsTypeOK, WriteState, BsBlock
    <3>2. QED
      BY <1>2, <2>1, <3>1 DEF AddMined
  <2>2. ASSUME TakeHeight(w) \/ MineAborts(w) PROVE Goal
    BY <1>1, <2>2 DEF TakeHeight, MineAborts
  <2>3. QED
    BY <1>2, <1>3, <2>1, <2>2 DEF Write, AddImported
<1>4. ASSUME Start \/ StartUnread \/ StartPartly PROVE Goal
  BY <1>1, <1>4 DEF Start, StartUnread, StartPartly, StartHalf
<1>5. ASSUME CommitPut PROVE Goal
  <2>1. Head(queue).block \in BsBlock
    BY <1>5, SettleType, RequestKinds DEF CommitPut
  <2>2. /\ db'.blocks = [db.blocks EXCEPT ![Head(queue).block.height]
                                     = Head(queue).block.fork]
        /\ db'.hashes = db.hashes \cup {Head(queue).block}
        /\ acked' = acked \cup {Head(queue).block.height}
        /\ Settle /\ UNCHANGED reader
    BY <1>5 DEF CommitPut, Written
  <2>3. Head(queue).block.height \in Heights /\ Head(queue).block.fork # Absent
    BY <2>1 DEF BsBlock, StoreAssumption
  <2>4. /\ \A h \in Heights : db.blocks[h] # Absent => db'.blocks[h] # Absent
        /\ db'.blocks[Head(queue).block.height] # Absent
    BY <1>0, <2>2, <2>3
  <2>5. AckedStored'
    BY <2>2, <2>4 DEF AckedStored, BsTypeOK
  <2>6. QED
    BY <2>2, <2>4, <2>5, TrackedAfterSettle, ReadFrame
<1>6. ASSUME CommitFails \/ ClearFails PROVE Goal
  <2>1. Settle /\ UNCHANGED <<reader, db, acked>>
    BY <1>6 DEF CommitFails, ClearFails
  <2>2. QED
    BY <2>1, TrackedAfterSettle, ReadFrame DEF AckedStored
<1>7. ASSUME NEW r \in Readers, Read(r) PROVE Goal
  <2>1. ASSUME NEW h \in Heights, GetBlock(r, h) PROVE Goal
    BY <2>1, SeekReads DEF GetBlock, Slot
  <2>2. ASSUME NEW b \in BsBlock, GetByKnownHash(r, b) PROVE Goal
    BY <2>2, SeekReads DEF GetByKnownHash, Slot, BsBlock
  <2>3. ASSUME NEW b \in BsBlock, GetByUnknownHash(r, b) PROVE Goal
    <3>1. /\ reader[r].pc \in {"idle", "done"}
          /\ queue' = Append(queue, Lookup(r))
          /\ reader' = [reader EXCEPT ![r] = [pc |-> "looking", height |-> b.height,
                          want |-> b.fork,
                          sure |-> b.height \in acked /\ b \in db.hashes,
                          got |-> Absent]]
          /\ UNCHANGED <<db, acked>>
      BY <2>3 DEF GetByUnknownHash
    <3>2. /\ reader'[r].pc = "looking" /\ reader'[r].height = b.height
          /\ reader'[r].want = b.fork
          /\ reader'[r].sure = (b.height \in acked /\ b \in db.hashes)
          /\ \A s \in Readers \ {r} : reader'[s] = reader[s]
      BY <1>0, <3>1
    <3>6. HashOf(reader'[r]) = b
      BY <3>2 DEF HashOf, BsBlock
    <3>3. Lookup(r) \in Request /\ Lookup(r).by = r /\ Lookup(r).kind = "lookup"
      BY DEF Lookup, Request
    <3>4. ReadsTracked'
      BY <3>1, <3>2, <3>3, TrackedAfterAppend DEF IsRead
    <3>5. AckedStored'
      BY <3>1 DEF AckedStored
    <3>7. ASSUME NEW s \in Readers, reader'[s].sure
          PROVE  /\ reader'[s].pc \in {"looking", "reading"} =>
                      db'.blocks[reader'[s].height] # Absent
                 /\ reader'[s].pc = "looking" => HashOf(reader'[s]) \in db'.hashes
      <4>1. CASE s = r
        BY <3>1, <3>2, <3>5, <3>6, <3>7, <4>1 DEF AckedStored
      <4>2. CASE s # r
        BY <3>1, <3>2, <3>7, <4>2 DEF SureReads, HashOf
      <4>3. QED
        BY <4>1, <4>2
    <3>8. ReadsFindStored'
      BY <3>2 DEF ReadsFindStored
    <3>9. QED
      BY <3>4, <3>5, <3>7, <3>8 DEF SureReads, HashOf
  <2>4. QED
    BY <1>7, <2>1, <2>2, <2>3 DEF Read
<1>8. ASSUME NEW i \in DOMAIN queue, Fill(i) PROVE Goal
  <2>1. Answer(i) /\ queue[i].kind = "get" /\ UNCHANGED <<db, acked>>
    BY <1>8 DEF Fill
  <2>2. queue[i].by \in Readers
    BY <2>1, AnswerType
  <2> DEFINE r == queue[i].by
             f == db.blocks[reader[r].height]
  <2>3. reader[r].pc = "reading"
    BY <2>1 DEF ReadsTracked, IsRead
  <2>4. reader' = [reader EXCEPT ![r].pc = "done", ![r].got = f]
    BY <1>8 DEF Fill
  <2>5. /\ reader'[r].pc = "done" /\ reader'[r].got = f
        /\ reader'[r].sure = reader[r].sure
        /\ \A s \in Readers \ {r} : reader'[s] = reader[s]
    BY <1>0, <2>2, <2>4 DEF ReadState
  <2>6. ReadsTracked'
    BY <2>1, <2>5, TrackedAfterAnswer
  <2>7. SureReads' /\ ReadsFindStored'
    BY <2>1, <2>2, <2>3, <2>5 DEF SureReads, ReadsFindStored
  <2>8. QED
    BY <2>1, <2>6, <2>7 DEF AckedStored
<1>9. ASSUME NEW i \in DOMAIN queue, LookupMisses(i) PROVE Goal
  <2>1. Answer(i) /\ queue[i].kind = "lookup" /\ UNCHANGED <<db, acked>>
    BY <1>9 DEF LookupMisses
  <2>2. queue[i].by \in Readers
    BY <2>1, AnswerType
  <2> DEFINE r == queue[i].by
  <2>3. reader[r].pc = "looking" /\ ~ reader[r].sure
    BY <1>9, <2>1, <2>2 DEF ReadsTracked, SureReads, IsRead, LookupMisses
  <2>4. reader' = [reader EXCEPT ![r].pc = "done"]
    BY <1>9 DEF LookupMisses
  <2>5. /\ reader'[r].pc = "done" /\ ~ reader'[r].sure
        /\ \A s \in Readers \ {r} : reader'[s] = reader[s]
    BY <1>0, <2>2, <2>3, <2>4 DEF ReadState
  <2>6. ReadsTracked'
    BY <2>1, <2>5, TrackedAfterAnswer
  <2>7. QED
    BY <2>1, <2>5, <2>6 DEF AckedStored, SureReads, ReadsFindStored
<1>17. ASSUME NEW i \in DOMAIN queue, LookupHits(i) PROVE Goal
  <2> DEFINE r == queue[i].by
             h == reader[r].height
  <2>1. /\ r \in Readers /\ h \in Heights /\ queue[i].kind = "lookup"
        /\ Seek(Without(queue, i), r, h, reader[r].want, reader[r].sure)
        /\ UNCHANGED <<db, acked>>
    BY <1>17, HitType DEF LookupHits
  <2>2. reader[r].sure => db.blocks[h] # Absent
    BY <2>1 DEF ReadsTracked, SureReads, IsRead
  <2>3. CASE memory[h] # Absent
    <3>1. /\ queue' = Without(queue, i)
          /\ reader' = [reader EXCEPT ![r] = [pc |-> "done", height |-> h,
               want |-> reader[r].want, sure |-> reader[r].sure, got |-> memory[h]]]
      BY <2>1, <2>3 DEF Seek
    <3>2. /\ reader'[r].pc = "done" /\ reader'[r].got # Absent
          /\ \A s \in Readers \ {r} : reader'[s] = reader[s]
      BY <1>0, <2>1, <2>3, <3>1
    <3>3. Answer(i)
      BY <1>17, <3>1 DEF Answer, LookupHits
    <3>4. ReadsTracked'
      BY <3>2, <3>3, TrackedAfterAnswer
    <3>5. QED
      BY <2>1, <3>2, <3>4 DEF AckedStored, SureReads, ReadsFindStored
  <2>4. CASE memory[h] = Absent
    <3>1. /\ queue' = Append(Without(queue, i), Get(r))
          /\ reader' = [reader EXCEPT ![r] = [pc |-> "reading", height |-> h,
               want |-> reader[r].want, sure |-> reader[r].sure, got |-> Absent]]
      BY <2>1, <2>4 DEF Seek
    <3>2. /\ reader'[r].pc = "reading" /\ reader'[r].height = h
          /\ reader'[r].sure = reader[r].sure
          /\ \A s \in Readers \ {r} : reader'[s] = reader[s]
      BY <1>0, <2>1, <3>1
    <3>3. ReadsTracked'
      BY <2>1, <3>1, <3>2, TrackedAfterHit
    <3>4. QED
      BY <2>1, <2>2, <3>2, <3>3 DEF AckedStored, SureReads, ReadsFindStored
  <2>5. QED
    BY <2>3, <2>4
<1>10. ASSUME NEW i \in DOMAIN queue, ReadFails(i) PROVE Goal
  <2>1. Answer(i) /\ UNCHANGED <<db, acked>>
        /\ reader' = [reader EXCEPT ![queue[i].by] = NoRead]
    BY <1>10 DEF ReadFails
  <2>2. queue[i].by \in Readers
    BY <2>1, AnswerType
  <2>3. /\ reader'[queue[i].by].pc = "idle" /\ ~ reader'[queue[i].by].sure
        /\ \A s \in Readers \ {queue[i].by} : reader'[s] = reader[s]
    BY <1>0, <2>1, <2>2 DEF NoRead
  <2>4. ReadsTracked'
    BY <2>1, <2>3, TrackedAfterAnswer
  <2>5. QED
    BY <2>1, <2>3, <2>4 DEF AckedStored, SureReads, ReadsFindStored
<1>11. ASSUME reader' = [r \in Readers |-> [reader[r] EXCEPT !.sure = FALSE]]
       PROVE  /\ SureReads' /\ ReadsFindStored'
              /\ \A r \in Readers : reader'[r].pc = reader[r].pc
  <2>1. \A r \in Readers : reader'[r].pc = reader[r].pc /\ ~ reader'[r].sure
    BY <1>0, <1>11 DEF ReadState
  <2>2. QED
    BY <2>1 DEF SureReads, ReadsFindStored
<1>12. ASSUME Clear PROVE Goal
  <2>1. Wipe \in Request /\ ~ IsRead(Wipe)
    BY DEF Wipe, Request, IsRead
  <2>2. queue' = Append(queue, Wipe) /\ acked' = {}
        /\ reader' = [r \in Readers |-> [reader[r] EXCEPT !.sure = FALSE]]
    BY <1>12 DEF Clear
  <2>3. ReadsTracked'
    BY <1>11, <2>1, <2>2, TrackedAfterAppend
  <2>4. QED
    BY <1>11, <2>2, <2>3 DEF AckedStored
<1>13. ASSUME ClearSettles PROVE Goal
  <2>1. Settle /\ acked' = {}
        /\ reader' = [r \in Readers |-> [reader[r] EXCEPT !.sure = FALSE]]
    BY <1>13 DEF ClearSettles
  <2>2. ReadsTracked'
    BY <1>11, <2>1, TrackedAfterSettle
  <2>3. QED
    BY <1>11, <2>1, <2>2 DEF AckedStored
<1>14. ASSUME Crash PROVE Goal
  <2>1. queue' = <<>> /\ reader' = [r \in Readers |-> NoRead] /\ UNCHANGED <<db, acked>>
    BY <1>14 DEF Crash
  <2>2. QED
    BY <2>1 DEF AckedStored, ReadsTracked, SureReads, ReadsFindStored, NoRead
<1>15. ASSUME UNCHANGED bsVars PROVE Goal
  BY <1>1, <1>15 DEF bsVars, procVars
<1>16. QED
  BY <1>3, <1>4, <1>5, <1>6, <1>7, <1>8, <1>9, <1>10, <1>12, <1>13, <1>14,
     <1>15, <1>17 DEF BsNext

LEMMA ReadInvariant == BsSpec => []ReadInv
<1>1. BsInit => AckedStored /\ ReadsTracked /\ SureReads /\ ReadsFindStored
  BY DEF BsInit, AckedStored, ReadsTracked, SureReads, ReadsFindStored, NoRead
<1>2. BsInit => ReadInv
  BY <1>1, TypeInit, StoreAssumption DEF ReadInv
<1>3. ReadInv /\ [BsNext]_bsVars => ReadInv'
  BY ReadStep, TypeStep, StoreAssumption DEF ReadInv
<1>4. QED
  BY <1>2, <1>3, PTL DEF BsSpec

(* A block whose addBlock resolved stays in the database. *)
THEOREM AckedBlocksStored == BsSpec => []AckedStored
BY ReadInvariant, PTL DEF ReadInv

(* A read of a height, or of a hash, that was stored when the read began finds
   a block, also when the hash map has lost the hash.                        *)
THEOREM ReadsSucceed == BsSpec => []ReadsFindStored
BY ReadInvariant, PTL DEF ReadInv
-----------------------------------------------------------------------------
(* The queue of transactions, position by position.                         *)

End   == Len(queue) + 1
Puts  == {i \in DOMAIN queue : queue[i].kind = "put"}
Gets  == {i \in DOMAIN queue : queue[i].kind = "get"}
Lookups == {i \in DOMAIN queue : queue[i].kind = "lookup"}

\* No wipe is queued between positions i and j.
Unwiped(i, j) ==
  \A k \in DOMAIN queue : i < k /\ k < j => queue[k].kind # "clear"

LEMMA QueueShape ==
  ASSUME BsTypeOK
  PROVE  /\ Len(queue) \in Nat /\ End \in Nat
         /\ DOMAIN queue = 1..Len(queue)
         /\ \A i \in DOMAIN queue : queue[i] \in Request /\ i \in Nat
<1>1. Len(queue) \in Nat /\ DOMAIN queue = 1..Len(queue)
  BY LenProperties DEF BsTypeOK
<1>2. \A i \in 1..Len(queue) : queue[i] \in Request
  BY ElementOfSeq DEF BsTypeOK
<1>3. QED
  BY <1>1, <1>2 DEF End

(* After the oldest transaction settled, every other is one place nearer. *)
LEMMA QueueSettled ==
  ASSUME BsTypeOK, Settle
  PROVE  /\ 1 \in DOMAIN queue /\ Head(queue) = queue[1] /\ End' + 1 = End
         /\ \A i \in DOMAIN queue' : i \in Nat \ {0} /\ i + 1 \in DOMAIN queue
                                     /\ queue'[i] = queue[i + 1]
         /\ End' \in Nat
         /\ \A i, j \in Nat : Unwiped(i, j)' => Unwiped(i + 1, j + 1)
         /\ queue[1].kind # "clear" =>
              \A j \in Nat : Unwiped(0, j)' => Unwiped(0, j + 1)
<1>1. queue \in Seq(Request) /\ queue # <<>> /\ queue' = Tail(queue)
  BY DEF BsTypeOK, Settle
<1>2. /\ queue' \in Seq(Request) /\ Len(queue') = Len(queue) - 1
      /\ \A i \in 1..Len(queue') : queue'[i] = queue[i + 1]
  BY <1>1, HeadTailProperties
<1>3. /\ DOMAIN queue = 1..Len(queue) /\ Len(queue) \in Nat
      /\ DOMAIN queue' = 1..Len(queue') /\ Len(queue') \in Nat
  BY <1>1, <1>2, LenProperties
<1>4. Head(queue) = queue[1] /\ 1 \in DOMAIN queue
  BY <1>1, <1>3, EmptySeq
<1>5. \A i \in DOMAIN queue' : i \in Nat \ {0} /\ i + 1 \in DOMAIN queue
                               /\ queue'[i] = queue[i + 1]
  BY <1>2, <1>3
<1>6. ASSUME NEW i \in Nat, NEW j \in Nat, Unwiped(i, j)'
      PROVE  Unwiped(i + 1, j + 1)
  <2> SUFFICES ASSUME NEW k \in DOMAIN queue, i + 1 < k, k < j + 1
               PROVE  queue[k].kind # "clear"
    BY DEF Unwiped
  <2>1. k - 1 \in DOMAIN queue' /\ i < k - 1 /\ k - 1 < j
    BY <1>2, <1>3
  <2>2. queue'[k - 1] = queue[k]
    BY <1>2, <1>3, <2>1
  <2>3. queue'[k - 1].kind # "clear"
    BY <1>6, <2>1 DEF Unwiped
  <2>4. QED
    BY <2>2, <2>3
<1>7. ASSUME queue[1].kind # "clear", NEW j \in Nat, Unwiped(0, j)'
      PROVE  Unwiped(0, j + 1)
  <2>1. Unwiped(1, j + 1)
    BY <1>6, <1>7
  <2>2. QED
    BY <1>3, <1>7, <2>1 DEF Unwiped
<1>8. End' \in Nat /\ End' + 1 = End
  BY <1>2, <1>3 DEF End
<1>9. QED
  BY <1>4, <1>5, <1>6, <1>7, <1>8

(* A read that settles leaves the order of the rest, and wipes nothing. *)
LEMMA QueueAnswered ==
  ASSUME BsTypeOK, NEW i \in DOMAIN queue, Answer(i)
  PROVE  /\ \A j \in DOMAIN queue' :
              /\ j \in Nat /\ From(i, j) \in DOMAIN queue /\ From(i, j) # i
              /\ queue'[j] = queue[From(i, j)]
         /\ \A j, k \in Nat : j < k => From(i, j) < From(i, k)
         /\ From(i, 0) = 0 /\ From(i, End') = End /\ End' \in Nat
         /\ \A j, k \in Nat : Unwiped(j, k)' => Unwiped(From(i, j), From(i, k))
<1>1. queue \in Seq(Request) /\ queue' = Without(queue, i)
  BY DEF BsTypeOK, Answer
<1>2. /\ queue' \in Seq(Request) /\ Len(queue') = Len(queue) - 1
      /\ \A j \in 1..(Len(queue) - 1) :
           queue'[j] = IF j < i THEN queue[j] ELSE queue[j + 1]
  BY <1>1, WithoutEntry
<1>3. /\ DOMAIN queue = 1..Len(queue) /\ Len(queue) \in Nat
      /\ DOMAIN queue' = 1..(Len(queue) - 1) /\ i \in Nat /\ i >= 1
  BY <1>1, <1>2, LenProperties
<1>4. \A j \in DOMAIN queue' :
        /\ j \in Nat /\ From(i, j) \in DOMAIN queue /\ From(i, j) # i
        /\ queue'[j] = queue[From(i, j)]
  BY <1>2, <1>3 DEF From
<1>5. \A j, k \in Nat : j < k => From(i, j) < From(i, k)
  BY <1>3 DEF From
<1>6. From(i, 0) = 0 /\ From(i, End') = End /\ End' \in Nat
  BY <1>2, <1>3 DEF From, End
<1>7. ASSUME NEW j \in Nat, NEW k \in Nat, Unwiped(j, k)'
      PROVE  Unwiped(From(i, j), From(i, k))
  <2> SUFFICES ASSUME NEW m \in DOMAIN queue, From(i, j) < m, m < From(i, k)
               PROVE  queue[m].kind # "clear"
    BY DEF Unwiped
  <2>1. CASE m = i
    BY <1>3, <2>1 DEF Answer, CanAnswer
  <2>2. CASE m # i
    <3> DEFINE n == IF m < i THEN m ELSE m - 1
    <3>1. n \in DOMAIN queue' /\ j < n /\ n < k /\ From(i, n) = m
      BY <1>3, <2>2 DEF From
    <3>2. queue'[n].kind # "clear"
      BY <1>7, <3>1 DEF Unwiped
    <3>3. queue'[n] = queue[m]
      BY <1>4, <3>1
    <3>4. QED
      BY <3>2, <3>3
  <2>3. QED
    BY <2>1, <2>2
<1>8. QED
  BY <1>4, <1>5, <1>6, <1>7

(* A new transaction is behind all others. *)
LEMMA QueueAppended ==
  ASSUME BsTypeOK, NEW q \in Request, queue' = Append(queue, q)
  PROVE  /\ DOMAIN queue' = DOMAIN queue \cup {End} /\ End \notin DOMAIN queue
         /\ \A i \in DOMAIN queue : i \in Nat /\ i < End /\ queue'[i] = queue[i]
         /\ queue'[End] = q /\ End' = End + 1 /\ End \in Nat
         /\ \A i, j \in Nat : Unwiped(i, j)' => Unwiped(i, j)
         /\ \A i \in Nat : Unwiped(i, End)' => Unwiped(i, End)
         /\ \A i \in Nat : Unwiped(i, End)' /\ i < End => q.kind # "clear"
<1>1. queue \in Seq(Request)
  BY DEF BsTypeOK
<1>2. /\ queue' \in Seq(Request) /\ Len(queue') = Len(queue) + 1
      /\ \A i \in 1..Len(queue) : queue'[i] = queue[i]
      /\ queue'[Len(queue) + 1] = q
  BY <1>1, AppendProperties
<1>3. /\ DOMAIN queue = 1..Len(queue) /\ Len(queue) \in Nat
      /\ DOMAIN queue' = 1..(Len(queue) + 1)
  BY <1>1, <1>2, LenProperties
<1>4. /\ DOMAIN queue' = DOMAIN queue \cup {End} /\ End \notin DOMAIN queue
      /\ \A i \in DOMAIN queue : i \in Nat /\ i < End /\ queue'[i] = queue[i]
      /\ queue'[End] = q /\ End' = End + 1 /\ End \in Nat
  BY <1>2, <1>3 DEF End
<1>5. \A i, j \in Nat : Unwiped(i, j)' => Unwiped(i, j)
  BY <1>4 DEF Unwiped
<1>6. ASSUME NEW i \in Nat, Unwiped(i, End)' PROVE Unwiped(i, End)
  <2>1. \A k \in DOMAIN queue' : i < k /\ k < End' => queue'[k].kind # "clear"
    BY <1>6 DEF Unwiped
  <2>2. \A k \in DOMAIN queue : k < End'
    BY <1>4
  <2>3. QED
    BY <1>4, <2>1, <2>2 DEF Unwiped
<1>7. ASSUME NEW i \in Nat, Unwiped(i, End)', i < End PROVE q.kind # "clear"
  <2>1. End \in DOMAIN queue' /\ End < End'
    BY <1>4
  <2>2. queue'[End].kind # "clear"
    BY <1>7, <2>1, <1>4 DEF Unwiped
  <2>3. QED
    BY <1>4, <2>2
<1>8. QED
  BY <1>4, <1>5, <1>6, <1>7

-----------------------------------------------------------------------------
(* The recorded heights never lag the blocks.                               *)
(*                                                                          *)
(* Until a wipe or a start is left half done, NothingAboveLatest holds      *)
(* because writes commit in the order in which latestHeight grew: each      *)
(* queued write records a height not below its block's, its predecessors'   *)
(* and the one recorded last, as far back as the last wipe.                 *)

\* Before the store is initialised there is nothing in memory or on its way.
DownIsEmpty ==
  ~up => /\ queue = <<>> /\ Cached = {} /\ known = {}
         /\ \A w \in Writers : writer[w].pc = "idle"

\* No stored block is above the stored latest height.
LatestCovers == \A h \in Heights : db.blocks[h] # Absent => h <= db.latest

WritesRise ==
  /\ \A b \in db.hashes : b.height <= db.latest
  /\ LatestCovers
  /\ up /\ Unwiped(0, End) => db.latest <= latestHeight
  /\ \A i \in Puts :
       /\ queue[i].block.height <= queue[i].latest
       /\ Unwiped(0, i) => db.latest <= queue[i].latest
       /\ Unwiped(i, End) => queue[i].latest <= latestHeight
       /\ \A j \in Puts : i < j /\ Unwiped(i, j) => queue[i].latest <= queue[j].latest

LEMMA DownStep ==
  ASSUME BsTypeOK, DownIsEmpty, [BsNext]_bsVars PROVE DownIsEmpty'
<1> SUFFICES ASSUME ~up' PROVE DownIsEmpty'
  BY DEF DownIsEmpty
<1>1. CASE Crash
  BY <1>1 DEF Crash, DownIsEmpty, Cached, NoWrite
<1>2. CASE UNCHANGED bsVars
  BY <1>2 DEF DownIsEmpty, Cached, bsVars, memVars, procVars
<1>3. CASE \/ Start \/ StartUnread \/ StartPartly \/ Clear
           \/ \E r \in Readers : Read(r)
  <2>1. ASSUME NEW r \in Readers, Read(r) PROVE up /\ UNCHANGED up
    BY <2>1 DEF Read, GetBlock, GetByKnownHash, GetByUnknownHash
  <2>2. Start \/ StartUnread \/ StartPartly => up'
    BY DEF Start, StartUnread, StartPartly, StartHalf
  <2>3. Clear => up /\ UNCHANGED up
    BY DEF Clear
  <2>4. QED
    BY <1>3, <2>1, <2>2, <2>3
<1>4. ASSUME queue # <<>>, UNCHANGED up PROVE FALSE
  BY <1>4 DEF DownIsEmpty
<1>5. CASE CommitPut \/ CommitFails \/ ClearSettles \/ ClearFails
  BY <1>4, <1>5 DEF CommitPut, CommitFails, ClearSettles, ClearFails, Settle
<1>6. ASSUME NEW i \in DOMAIN queue,
             Fill(i) \/ LookupMisses(i) \/ LookupHits(i) \/ ReadFails(i)
      PROVE  FALSE
  <2>1. queue # <<>>
    BY QueueShape, EmptySeq, <1>6
  <2>2. QED
    BY <1>4, <1>6, <2>1 DEF Fill, LookupMisses, LookupHits, ReadFails
<1>7. ASSUME NEW w \in Writers, Write(w) PROVE FALSE
  <2>1. ~ TakeHeight(w)
    BY DEF TakeHeight
  <2>2. ~ MineAborts(w)
    BY DEF MineAborts, DownIsEmpty
  <2>3. ASSUME NEW b, Add(w, b) PROVE FALSE
    BY <2>3 DEF Add
  <2>4. QED
    BY <1>7, <2>1, <2>2, <2>3 DEF Write, AddMined, AddImported
<1>8. QED
  BY <1>1, <1>2, <1>3, <1>5, <1>6, <1>7 DEF BsNext

LEMMA DownInvariant == BsSpec => []DownIsEmpty
<1>1. BsInit => DownIsEmpty
  BY DEF BsInit, DownIsEmpty, Cached, NoWrite
<1>2. BsTypeOK /\ DownIsEmpty /\ [BsNext]_bsVars => DownIsEmpty'
  BY DownStep
<1>3. QED
  BY <1>1, <1>2, TypeCorrect, PTL DEF BsSpec

(* The steps in which no wipe and no start is left half done and no lookup of
   a hash hits: as long as every step was one of these, the map and the heights
   in memory describe the database.                                           *)
Calm ==
  \/ Start \/ CommitPut \/ CommitFails \/ Clear \/ ClearSettles \/ Crash
  \/ \E w \in Writers : Write(w)
  \/ \E r \in Readers : Read(r)
  \/ \E i \in DOMAIN queue : Fill(i) \/ LookupMisses(i) \/ ReadFails(i)

LEMMA CalmIsNext == [Calm]_bsVars => [BsNext]_bsVars
BY DEF Calm, BsNext

\* What is left half done is never mended.
LEMMA BrokenStays == broken /\ [BsNext]_bsVars => broken'
<1> SUFFICES ASSUME broken, [BsNext]_bsVars PROVE broken'
  OBVIOUS
<1>1. ASSUME NEW w \in Writers, Write(w) PROVE UNCHANGED broken
  BY <1>1, Zenon DEF Write, TakeHeight, MineAborts, AddMined, AddImported, Add
<1>2. ASSUME NEW r \in Readers, Read(r) PROVE UNCHANGED broken
  BY <1>2, Zenon DEF Read, GetBlock, GetByKnownHash, GetByUnknownHash
<1>3. ASSUME NEW i \in DOMAIN queue,
             Fill(i) \/ LookupMisses(i) \/ LookupHits(i) \/ ReadFails(i)
      PROVE  UNCHANGED broken
  BY <1>3, Zenon DEF Fill, LookupMisses, LookupHits, ReadFails
<1>4. ASSUME Start \/ CommitPut \/ CommitFails \/ Clear \/ ClearSettles \/ Crash
      PROVE  UNCHANGED broken
  BY <1>4, Zenon DEF Start, CommitPut, CommitFails, Clear, ClearSettles, Crash
<1>5. ASSUME StartUnread \/ StartPartly \/ ClearFails PROVE broken'
  BY <1>5, Zenon DEF StartUnread, StartPartly, StartHalf, ClearFails
<1>6. ASSUME UNCHANGED bsVars PROVE UNCHANGED broken
  BY <1>6, Zenon DEF bsVars
<1>7. QED
  BY <1>1, <1>2, <1>3, <1>4, <1>5, <1>6, Zenon DEF BsNext

\* It takes a failure.
LEMMA BrokenCounts == BsSpec => [](broken => failures # 0)
<1> DEFINE C == broken => failures # 0
<1>1. BsInit => C
  BY Zenon DEF BsInit
<1>2. BsTypeOK /\ C /\ [BsNext]_bsVars => C'
  <2> SUFFICES ASSUME BsTypeOK, C, [BsNext]_bsVars PROVE C'
    OBVIOUS
  <2>0. failures \in Nat
    BY StoreAssumption DEF BsTypeOK, StoreAssumption
  <2>1. ASSUME failures' = failures + 1 PROVE C'
    BY <2>0, <2>1
  <2>2. ASSUME UNCHANGED <<broken, failures>> PROVE C'
    BY <2>2, Zenon
  <2>3. ASSUME NEW w \in Writers, Write(w) PROVE C'
    BY <2>1, <2>2, <2>3, Zenon DEF Write, TakeHeight, MineAborts, AddMined,
       AddImported, Add, countVars
  <2>4. ASSUME NEW r \in Readers, Read(r) PROVE C'
    BY <2>2, <2>4, Zenon DEF Read, GetBlock, GetByKnownHash, GetByUnknownHash,
       countVars
  <2>5. ASSUME NEW i \in DOMAIN queue,
               Fill(i) \/ LookupMisses(i) \/ LookupHits(i) \/ ReadFails(i)
        PROVE  C'
    BY <2>1, <2>2, <2>5, Zenon DEF Fill, LookupMisses, LookupHits, ReadFails,
       countVars
  <2>6. ASSUME \/ Start \/ StartUnread \/ StartPartly \/ CommitPut \/ CommitFails
               \/ Clear \/ ClearSettles \/ ClearFails \/ Crash
        PROVE  C'
    BY <2>1, <2>2, <2>6, Zenon DEF Start, StartUnread, StartPartly, StartHalf,
       CommitPut, CommitFails, Clear, ClearSettles, ClearFails, Crash, countVars
  <2>7. ASSUME UNCHANGED bsVars PROVE C'
    BY <2>2, <2>7, Zenon DEF bsVars, countVars
  <2>8. QED
    BY <2>3, <2>4, <2>5, <2>6, <2>7, Zenon DEF BsNext
<1>3. QED
  BY <1>1, <1>2, TypeCorrect, PTL DEF BsSpec

\* The heights a queued write carries.
LEMMA PutHeights ==
  ASSUME StoreAssumption, BsTypeOK
  PROVE  /\ \A i \in Puts : /\ queue[i].block \in BsBlock /\ queue[i].latest \in Nat
                            /\ queue[i].block.height \in Heights
                            /\ queue[i].block.height \in Nat
                            /\ queue[i].by \in Writers
         /\ latestHeight \in Nat /\ oldestHeight \in Nat /\ vmHeight \in Nat
         /\ db.latest \in Nat /\ db.oldest \in Nat
         /\ Heights \subseteq Nat \ {0} /\ \A b \in BsBlock : b.height \in Nat
<1>1. /\ Heights \subseteq Nat \ {0} /\ \A b \in BsBlock : b.height \in Heights
      /\ 0..MaxHeight \subseteq Nat
  BY DEF StoreAssumption, Heights, BsBlock
<1>2. \A i \in Puts : /\ queue[i].by \in Writers /\ queue[i].block \in BsBlock
                      /\ queue[i].latest \in 0..MaxHeight
  BY QueueShape, RequestKinds DEF Puts
<1>3. /\ latestHeight \in 0..MaxHeight /\ oldestHeight \in 0..MaxHeight
      /\ vmHeight \in 0..MaxHeight
      /\ db.latest \in 0..MaxHeight /\ db.oldest \in 0..MaxHeight
  BY DEF BsTypeOK, Database
<1>4. QED
  BY <1>1, <1>2, <1>3

(* Appending a transaction: a read, a write that records the new latest
   height, or a wipe.                                                       *)
LEMMA RiseAppended ==
  ASSUME StoreAssumption, BsTypeOK, BsTypeOK', WritesRise, up,
         NEW q \in Request, queue' = Append(queue, q), UNCHANGED <<up, db>>,
         q.kind # "clear" => latestHeight' >= latestHeight,
         q.kind = "put" => q.block.height <= q.latest /\ q.latest = latestHeight'
  PROVE  WritesRise'
<1>1. /\ DOMAIN queue' = DOMAIN queue \cup {End} /\ End \notin DOMAIN queue
      /\ \A i \in DOMAIN queue : i \in Nat /\ i < End /\ queue'[i] = queue[i]
      /\ queue'[End] = q /\ End' = End + 1 /\ End \in Nat
      /\ \A i, j \in Nat : Unwiped(i, j)' => Unwiped(i, j)
      /\ \A i \in Nat : Unwiped(i, End)' => Unwiped(i, End)
      /\ \A i \in Nat : Unwiped(i, End)' /\ i < End => q.kind # "clear"
  BY QueueAppended
<1>2. /\ Puts' = Puts \cup {i \in {End} : q.kind = "put"}
      /\ \A i \in Puts : queue'[i] = queue[i] /\ i \in Nat /\ i < End
      /\ Puts \subseteq DOMAIN queue
  BY <1>1 DEF Puts
<1>3. 0 < End /\ 0 \in Nat
  BY QueueShape DEF End
<1>4. latestHeight \in Nat /\ latestHeight' \in Nat /\ db.latest \in Nat
      /\ \A i \in Puts : queue[i].latest \in Nat
  <2>1. latestHeight \in Nat /\ db.latest \in Nat /\ \A i \in Puts : queue[i].latest \in Nat
    BY PutHeights
  <2>2. latestHeight' \in 0..MaxHeight /\ MaxHeight \in Nat
    BY DEF BsTypeOK, StoreAssumption
  <2>3. QED
    BY <2>1, <2>2
<1>5. (\A b \in db.hashes : b.height <= db.latest)' /\ LatestCovers'
  BY DEF WritesRise, LatestCovers
<1>6. (up /\ Unwiped(0, End) => db.latest <= latestHeight)'
  BY <1>1, <1>3, <1>4 DEF WritesRise
<1>7. ASSUME NEW i \in Puts
      PROVE  /\ (Unwiped(0, i) => db.latest <= queue[i].latest)'
             /\ (queue[i].block.height <= queue[i].latest)'
             /\ (Unwiped(i, End) => queue[i].latest <= latestHeight)'
  <2>1. queue'[i] = queue[i] /\ i \in Nat /\ i < End
    BY <1>2
  <2>2. Unwiped(i, End)' => latestHeight' >= latestHeight /\ Unwiped(i, End)
    BY <1>1, <2>1
  <2>3. QED
    BY <1>1, <1>4, <2>1, <2>2 DEF WritesRise
<1>8. ASSUME NEW i \in Puts, NEW j \in Puts, i < j, Unwiped(i, j)'
      PROVE  queue'[i].latest <= queue'[j].latest
  BY <1>1, <1>2, <1>8 DEF WritesRise
<1>9. ASSUME q.kind = "put"
      PROVE  /\ q.block.height <= q.latest /\ q.latest <= latestHeight'
             /\ Unwiped(0, End) => db.latest <= q.latest
             /\ \A i \in Puts : Unwiped(i, End) => queue[i].latest <= q.latest
  BY <1>4, <1>9 DEF WritesRise
<1>10. ASSUME NEW i \in Puts'
       PROVE  (/\ queue[i].block.height <= queue[i].latest
               /\ Unwiped(0, i) => db.latest <= queue[i].latest
               /\ Unwiped(i, End) => queue[i].latest <= latestHeight)'
  <2>1. CASE i \in Puts
    BY <1>7, <2>1
  <2>2. CASE i = End /\ q.kind = "put"
    BY <1>1, <1>3, <1>9, <2>2
  <2>3. QED
    BY <1>2, <2>1, <2>2
<1>11. ASSUME NEW i \in Puts', NEW j \in Puts', i < j, Unwiped(i, j)'
       PROVE  queue'[i].latest <= queue'[j].latest
  <2>1. CASE i \in Puts /\ j \in Puts
    BY <1>8, <1>11, <2>1
  <2>2. CASE i \in Puts /\ j = End /\ q.kind = "put"
    BY <1>1, <1>2, <1>9, <1>11, <2>2
  <2>3. CASE i = End
    BY <1>1, <1>2, <1>11, <2>3
  <2>4. QED
    BY <1>2, <2>1, <2>2, <2>3
<1>12. QED
  BY <1>5, <1>6, <1>10, <1>11 DEF WritesRise

LEMMA RiseAnswered ==
  ASSUME StoreAssumption, BsTypeOK, WritesRise, NEW i \in DOMAIN queue, Answer(i),
         UNCHANGED <<up, db, latestHeight>>
  PROVE  WritesRise'
<1>1. /\ \A j \in DOMAIN queue' :
           /\ j \in Nat /\ From(i, j) \in DOMAIN queue /\ From(i, j) # i
           /\ queue'[j] = queue[From(i, j)]
      /\ \A j, k \in Nat : j < k => From(i, j) < From(i, k)
      /\ From(i, 0) = 0 /\ From(i, End') = End /\ End' \in Nat
      /\ \A j, k \in Nat : Unwiped(j, k)' => Unwiped(From(i, j), From(i, k))
  BY QueueAnswered
<1>2. \A j \in Puts' : j \in Nat /\ From(i, j) \in Puts /\ queue'[j] = queue[From(i, j)]
  BY <1>1 DEF Puts
<1>3. (\A b \in db.hashes : b.height <= db.latest)' /\ LatestCovers'
  BY DEF WritesRise, LatestCovers
<1>4. (up /\ Unwiped(0, End) => db.latest <= latestHeight)'
  <2>1. Unwiped(0, End)' => Unwiped(0, End)
    BY <1>1
  <2>2. QED
    BY <2>1 DEF WritesRise
<1>5. ASSUME NEW j \in Puts'
      PROVE  (/\ queue[j].block.height <= queue[j].latest
              /\ Unwiped(0, j) => db.latest <= queue[j].latest
              /\ Unwiped(j, End) => queue[j].latest <= latestHeight)'
  <2>1. (Unwiped(0, j))' => Unwiped(0, From(i, j))
    BY <1>1, <1>2
  <2>2. (Unwiped(j, End))' => Unwiped(From(i, j), End)
    BY <1>1, <1>2
  <2>3. QED
    BY <1>2, <2>1, <2>2 DEF WritesRise
<1>6. ASSUME NEW j \in Puts', NEW k \in Puts', j < k, Unwiped(j, k)'
      PROVE  queue'[j].latest <= queue'[k].latest
  <2>1. From(i, j) < From(i, k) /\ Unwiped(From(i, j), From(i, k))
    BY <1>1, <1>2, <1>6
  <2>2. QED
    BY <1>2, <2>1 DEF WritesRise
<1>7. QED
  BY <1>3, <1>4, <1>5, <1>6 DEF WritesRise

\* The oldest write commits, or fails and is dropped; or the wipe runs.
LEMMA RiseSettled ==
  ASSUME StoreAssumption, BsTypeOK, BsTypeOK', WritesRise, Settle,
         UNCHANGED <<up, latestHeight>>,
         \/ Head(queue).kind = "put" /\ db' = Written(Head(queue))
         \/ Head(queue).kind = "put" /\ UNCHANGED db
         \/ Head(queue).kind = "clear" /\ db' = EmptyDb
  PROVE  WritesRise'
<1>1. /\ 1 \in DOMAIN queue /\ Head(queue) = queue[1] /\ End' + 1 = End
      /\ \A i \in DOMAIN queue' : i \in Nat \ {0} /\ i + 1 \in DOMAIN queue
                                  /\ queue'[i] = queue[i + 1]
      /\ End' \in Nat
      /\ \A i, j \in Nat : Unwiped(i, j)' => Unwiped(i + 1, j + 1)
      /\ queue[1].kind # "clear" =>
           \A j \in Nat : Unwiped(0, j)' => Unwiped(0, j + 1)
  BY QueueSettled
<1>2. \A i \in Puts' : i \in Nat \ {0} /\ i + 1 \in Puts /\ queue'[i] = queue[i + 1]
  BY <1>1 DEF Puts
<1>3. \A i \in Puts : 1 < i \/ i = 1
  BY QueueShape DEF Puts
<1>4. /\ latestHeight \in Nat /\ db.latest \in Nat
      /\ \A i \in Puts : queue[i].latest \in Nat /\ queue[i].block.height \in Nat
      /\ \A b \in BsBlock : b.height \in Nat
  BY PutHeights
<1> DEFINE p == queue[1]
<1>5. p.kind = "put" =>
        /\ 1 \in Puts /\ p.block.height <= p.latest /\ db.latest <= p.latest
        /\ p.latest \in Nat /\ p.block \in BsBlock
        /\ \A j \in Puts : j # 1 /\ Unwiped(1, j) => p.latest <= queue[j].latest
        /\ Unwiped(1, End) => p.latest <= latestHeight
  <2>1. Unwiped(0, 1)
    BY QueueShape DEF Unwiped
  <2>2. p.kind = "put" => 1 \in Puts
    BY <1>1 DEF Puts
  <2>3. QED
    BY <1>3, <1>4, <2>1, <2>2, PutHeights DEF WritesRise
<1>6. \/ /\ db'.latest = p.latest /\ p.kind = "put"
         /\ db'.hashes = db.hashes \cup {p.block}
         /\ db'.blocks = [db.blocks EXCEPT ![p.block.height] = p.block.fork]
      \/ db'.latest = db.latest /\ db'.hashes = db.hashes /\ db'.blocks = db.blocks
         /\ p.kind = "put"
      \/ db'.latest = 0 /\ db'.hashes = {} /\ db'.blocks = [h \in Heights |-> Absent]
         /\ p.kind = "clear"
  BY <1>1 DEF Written, EmptyDb
<1>7. (\A b \in db.hashes : b.height <= db.latest)'
  <2>1. \A b \in db.hashes : b.height \in Nat /\ b.height <= db.latest
    BY <1>4 DEF WritesRise, BsTypeOK, Database
  <2>2. QED
    BY <1>4, <1>5, <1>6, <2>1
<1>8. LatestCovers'
  <2>1. \A h \in Heights : h \in Nat /\ (db.blocks[h] # Absent => h <= db.latest)
    BY PutHeights DEF WritesRise, LatestCovers
  <2>2. db.blocks \in [Heights -> Slot]
    BY DEF BsTypeOK, Database
  <2>3. QED
    BY <1>4, <1>5, <1>6, <2>1, <2>2 DEF LatestCovers
<1>9. (up /\ Unwiped(0, End) => db.latest <= latestHeight)'
  <2>1. Unwiped(0, End)' => Unwiped(1, End) /\ (p.kind # "clear" => Unwiped(0, End))
    BY <1>1
  <2>2. QED
    BY <1>4, <1>5, <1>6, <2>1 DEF WritesRise
<1>10. ASSUME NEW i \in Puts'
       PROVE  (/\ queue[i].block.height <= queue[i].latest
               /\ Unwiped(0, i) => db.latest <= queue[i].latest
               /\ Unwiped(i, End) => queue[i].latest <= latestHeight)'
  <2>1. i \in Nat /\ i + 1 \in Puts /\ queue'[i] = queue[i + 1] /\ i + 1 # 1
    BY <1>2
  <2>2. Unwiped(i, End)' => Unwiped(i + 1, End)
    BY <1>1, <2>1
  <2>3. Unwiped(0, i)' => Unwiped(1, i + 1) /\ (p.kind # "clear" => Unwiped(0, i + 1))
    BY <1>1, <2>1
  <2>4. Unwiped(0, i)' => db'.latest <= queue[i + 1].latest
    BY <1>4, <1>5, <1>6, <2>1, <2>3 DEF WritesRise
  <2>5. QED
    BY <2>1, <2>2, <2>4 DEF WritesRise
<1>11. ASSUME NEW i \in Puts', NEW j \in Puts', i < j, Unwiped(i, j)'
       PROVE  queue'[i].latest <= queue'[j].latest
  <2>1. i + 1 < j + 1 /\ Unwiped(i + 1, j + 1)
    BY <1>1, <1>2, <1>11
  <2>2. QED
    BY <1>2, <2>1 DEF WritesRise
<1>12. QED
  BY <1>7, <1>8, <1>9, <1>10, <1>11 DEF WritesRise

\* The transactions a reader, a writer and clear() queue are requests.
LEMMA RequestsMade ==
  ASSUME StoreAssumption, BsTypeOK
  PROVE  /\ \A r \in Readers : /\ Get(r) \in Request /\ Get(r).kind = "get" /\ Get(r).by = r
                               /\ Lookup(r) \in Request /\ Lookup(r).kind = "lookup"
                               /\ Lookup(r).by = r
         /\ Wipe \in Request /\ Wipe.kind = "clear"
         /\ \A w \in Writers, b \in BsBlock : Add(w, b) =>
              /\ Put(w, b) \in Request /\ Put(w, b).kind = "put"
              /\ Put(w, b).block = b /\ Put(w, b).latest = latestHeight'
              /\ Put(w, b).first = (oldestHeight = 0) /\ Put(w, b).by = w
<1>1. ASSUME NEW w \in Writers, NEW b \in BsBlock, Add(w, b) PROVE Put(w, b) \in Request
  <2>1. latestHeight' \in 0..MaxHeight
    BY <1>1 DEF Add, BsTypeOK, BsBlock, Heights, StoreAssumption
  <2>2. (oldestHeight = 0) \in BOOLEAN
    OBVIOUS
  <2>3. QED
    BY <2>1, <2>2 DEF Put, Request
<1>2. \A r \in Readers : Get(r) \in Request /\ Lookup(r) \in Request
  BY DEF Get, Lookup, Request
<1>3. Wipe \in Request
  BY DEF Wipe, Request
<1>4. QED
  BY <1>1, <1>2, <1>3 DEF Get, Lookup, Wipe, Put

\* What the steps do to the queue: each appends, takes out, or leaves it.
LEMMA WriteQueues ==
  ASSUME BsTypeOK, NEW w \in Writers, Write(w)
  PROVE  \/ /\ TakeHeight(w) \/ MineAborts(w)
            /\ UNCHANGED <<up, db, queue, memVars, reader, recency>>
         \/ \E b \in BsBlock : /\ Add(w, b)
                               /\ AddImported(w, b) \/ \E f \in Forks : AddMined(w, f)
                                                       /\ b = [height |-> writer[w].height, fork |-> f]
<1>1. CASE TakeHeight(w) \/ MineAborts(w)
  BY <1>1 DEF TakeHeight, MineAborts
<1>2. ASSUME NEW f \in Forks, AddMined(w, f)
      PROVE  /\ [height |-> writer[w].height, fork |-> f] \in BsBlock
             /\ Add(w, [height |-> writer[w].height, fork |-> f])
  BY <1>2 DEF AddMined, BsTypeOK, WriteState, BsBlock
<1>3. QED
  BY <1>1, <1>2 DEF Write, AddImported

LEMMA ReadQueues ==
  ASSUME BsTypeOK, NEW r \in Readers, Read(r)
  PROVE  /\ up /\ reader[r].pc \in {"idle", "done"}
         /\ UNCHANGED <<up, db, memory, known, latestHeight, oldestHeight, writer,
                        vmHeight, failures>>
         /\ \E h \in Heights, want \in Slot :
              \/ /\ memory[h] # Absent /\ UNCHANGED queue /\ recency' = Use(h)
                 /\ accessOrder' = IF h \in Members(accessOrder)
                                   THEN MoveToEnd(accessOrder, h) ELSE accessOrder
                 /\ \E s \in BOOLEAN : reader' = [reader EXCEPT ![r] =
                      [pc |-> "done", height |-> h, want |-> want, sure |-> s,
                       got |-> memory[h]]]
                 /\ want # Absent => [height |-> h, fork |-> want] \in known
              \/ /\ memory[h] = Absent /\ queue' = Append(queue, Get(r))
                 /\ UNCHANGED <<accessOrder, recency>>
                 /\ \E s \in BOOLEAN : reader' = [reader EXCEPT ![r] =
                      [pc |-> "reading", height |-> h, want |-> want, sure |-> s,
                       got |-> Absent]]
                 /\ want # Absent => [height |-> h, fork |-> want] \in known
              \/ /\ [height |-> h, fork |-> want] \in BsBlock \ known
                 /\ queue' = Append(queue, Lookup(r))
                 /\ UNCHANGED <<accessOrder, recency>>
                 /\ \E s \in BOOLEAN : reader' = [reader EXCEPT ![r] =
                      [pc |-> "looking", height |-> h, want |-> want, sure |-> s,
                       got |-> Absent]]
<1>1. \A b \in BsBlock : /\ b.height \in Heights /\ b.fork \in Slot
                         /\ b = [height |-> b.height, fork |-> b.fork]
  BY DEF BsBlock, Slot
<1>2. Absent \in Slot /\ \A h : (h \in acked) \in BOOLEAN
  BY DEF Slot
<1>3. ASSUME NEW h \in Heights, GetBlock(r, h)
      PROVE  /\ up /\ reader[r].pc \in {"idle", "done"}
             /\ UNCHANGED <<up, db, memory, known, latestHeight, oldestHeight, writer,
                            vmHeight, failures>>
             /\ Seek(queue, r, h, Absent, h \in acked)
  BY <1>3 DEF GetBlock, countVars
<1>4. ASSUME NEW b \in BsBlock, GetByKnownHash(r, b)
      PROVE  /\ up /\ reader[r].pc \in {"idle", "done"}
             /\ UNCHANGED <<up, db, memory, known, latestHeight, oldestHeight, writer,
                            vmHeight, failures>>
             /\ Seek(queue, r, b.height, b.fork, b.height \in acked) /\ b \in known
  BY <1>4 DEF GetByKnownHash, countVars
<1>5. ASSUME NEW b \in BsBlock, GetByUnknownHash(r, b)
      PROVE  /\ up /\ reader[r].pc \in {"idle", "done"} /\ b \notin known
             /\ UNCHANGED <<up, db, memory, known, latestHeight, oldestHeight, writer,
                            vmHeight, failures>>
             /\ UNCHANGED <<accessOrder, recency>>
             /\ queue' = Append(queue, Lookup(r))
             /\ \E s \in BOOLEAN : reader' = [reader EXCEPT ![r] =
                  [pc |-> "looking", height |-> b.height, want |-> b.fork, sure |-> s,
                   got |-> Absent]]
  <2> DEFINE s == b.height \in acked /\ b \in db.hashes
  <2>1. s \in BOOLEAN
    OBVIOUS
  <2>2. reader' = [reader EXCEPT ![r] =
          [pc |-> "looking", height |-> b.height, want |-> b.fork, sure |-> s,
           got |-> Absent]]
    BY <1>5 DEF GetByUnknownHash
  <2> HIDE DEF s
  <2>3. QED
    BY <1>5, <2>1, <2>2 DEF GetByUnknownHash, countVars, memVars
<1>6. CASE \E h \in Heights : GetBlock(r, h)
  BY <1>2, <1>3, <1>6 DEF Seek
<1>7. CASE \E b \in BsBlock : GetByKnownHash(r, b)
  <2>1. PICK b \in BsBlock : GetByKnownHash(r, b)
    BY <1>7
  <2>2. /\ b.height \in Heights /\ b.fork \in Slot /\ (b.height \in acked) \in BOOLEAN
        /\ [height |-> b.height, fork |-> b.fork] \in known
    BY <1>1, <1>4, <2>1
  <2>3. Seek(queue, r, b.height, b.fork, b.height \in acked)
    BY <1>4, <2>1
  <2>4. QED
    BY <1>4, <2>1, <2>2, <2>3 DEF Seek
<1>8. CASE \E b \in BsBlock : GetByUnknownHash(r, b)
  BY <1>1, <1>5, <1>8
<1>9. QED
  BY <1>6, <1>7, <1>8 DEF Read

\* Three kinds of steps take a read out of the queue.
LEMMA AnswerQueues ==
  ASSUME BsTypeOK, NEW i \in DOMAIN queue, Fill(i) \/ LookupMisses(i) \/ ReadFails(i)
  PROVE  /\ Answer(i) /\ queue[i].by \in Readers /\ queue[i].kind \in {"get", "lookup"}
         /\ UNCHANGED <<up, db, known, latestHeight, oldestHeight, writer, vmHeight>>
         /\ \A r \in Readers \ {queue[i].by} : reader'[r] = reader[r]
<1>1. Answer(i) /\ UNCHANGED <<up, db, known, latestHeight, oldestHeight, writer, vmHeight>>
  BY DEF Fill, LookupMisses, ReadFails, memVars
<1>2. queue[i].by \in Readers /\ queue[i].kind \in {"get", "lookup"}
  BY <1>1, AnswerType, QueueShape DEF Answer, CanAnswer
<1>3. \A r \in Readers \ {queue[i].by} : reader'[r] = reader[r]
  BY <1>2 DEF Fill, LookupMisses, ReadFails, BsTypeOK
<1>4. QED
  BY <1>1, <1>2, <1>3

LEMMA RiseStep ==
  ASSUME StoreAssumption, BsTypeOK, DownIsEmpty, WritesRise, [Calm]_bsVars
  PROVE  WritesRise'
<1>0. BsTypeOK'
  BY TypeStep, CalmIsNext
<1>1. ASSUME UNCHANGED <<up, db, queue, latestHeight>> PROVE WritesRise'
  BY <1>1 DEF WritesRise, LatestCovers, Unwiped, Puts, End
<1>2. ASSUME queue' = <<>>, UNCHANGED db, up' => latestHeight' = db.latest
      PROVE  WritesRise'
  <2>1. Puts' = {} /\ db.latest \in Nat
    BY <1>2, PutHeights DEF Puts
  <2>2. QED
    BY <1>2, <2>1 DEF WritesRise, LatestCovers
<1>3. ASSUME NEW q \in Request, queue' = Append(queue, q), UNCHANGED <<up, db, latestHeight>>,
             q.kind # "put", up
      PROVE  WritesRise'
  BY <1>0, <1>3, RiseAppended, PutHeights
<1>4. ASSUME NEW w \in Writers, NEW b \in BsBlock, Add(w, b) PROVE WritesRise'
  <2>1. /\ up /\ UNCHANGED <<up, db>> /\ queue' = Append(queue, Put(w, b))
        /\ latestHeight' = IF b.height > latestHeight THEN b.height ELSE latestHeight
    BY <1>4 DEF Add
  <2>2. latestHeight \in Nat /\ b.height \in Nat
    BY PutHeights
  <2>3. latestHeight' >= latestHeight /\ b.height <= latestHeight'
    BY <2>1, <2>2
  <2>4. QED
    BY <1>0, <1>4, <2>1, <2>3, RequestsMade, RiseAppended
<1>5. ASSUME NEW w \in Writers, Write(w) PROVE WritesRise'
  BY <1>1, <1>4, <1>5, WriteQueues DEF memVars
<1>6. ASSUME NEW r \in Readers, Read(r) PROVE WritesRise'
  <2>1. up /\ UNCHANGED <<up, db, latestHeight>>
        /\ (UNCHANGED queue \/ queue' = Append(queue, Get(r)) \/ queue' = Append(queue, Lookup(r)))
    BY <1>6, ReadQueues
  <2>2. QED
    BY <1>1, <1>3, <2>1, RequestsMade
<1>7. ASSUME NEW i \in DOMAIN queue, Fill(i) \/ LookupMisses(i) \/ ReadFails(i)
      PROVE  WritesRise'
  BY <1>7, AnswerQueues, RiseAnswered
<1>8. ASSUME CommitPut \/ CommitFails \/ ClearSettles PROVE WritesRise'
  BY <1>0, <1>8, RiseSettled DEF CommitPut, CommitFails, ClearSettles, memVars
<1>9. ASSUME Clear PROVE WritesRise'
  <2>1. up /\ UNCHANGED <<up, db>> /\ queue' = Append(queue, Wipe)
    BY <1>9 DEF Clear
  <2>2. QED
    BY <1>0, <2>1, RequestsMade, RiseAppended
<1>10. ASSUME Start \/ Crash PROVE WritesRise'
  BY <1>2, <1>10 DEF Start, Crash, DownIsEmpty
<1>11. ASSUME UNCHANGED bsVars PROVE WritesRise'
  BY <1>1, <1>11 DEF bsVars, memVars
<1>12. QED
  BY <1>5, <1>6, <1>7, <1>8, <1>9, <1>10, <1>11 DEF Calm

RiseInv == ReadInv /\ DownIsEmpty /\ WritesRise

-----------------------------------------------------------------------------
(* The hash map suffices.                                                   *)
(*                                                                          *)
(* A lookup in the database's index misses because its hash was not in the  *)
(* map when it was queued, the map then held every hash of the database and *)
(* of the writes in front of the lookup, and writes behind it must wait.    *)

WritesKnown ==
  /\ \A h \in Heights : db.blocks[h] # Absent =>
       [height |-> h, fork |-> db.blocks[h]] \in db.hashes
  /\ up /\ Unwiped(0, End) => db.hashes \subseteq known
  /\ \A i \in Puts : Unwiped(i, End) => queue[i].block \in known
  /\ \A j \in Lookups :
       /\ Unwiped(0, j) => HashOf(reader[queue[j].by]) \notin db.hashes
       /\ \A i \in Puts : i < j /\ Unwiped(i, j)
                          => queue[i].block # HashOf(reader[queue[j].by])

LEMMA LookupReaders ==
  ASSUME BsTypeOK
  PROVE  \A j \in Lookups : queue[j].by \in Readers /\ IsRead(queue[j])
BY QueueShape, RequestKinds DEF Lookups, IsRead

LEMMA KnownAppended ==
  ASSUME StoreAssumption, BsTypeOK, ReadsTracked, WritesKnown, up,
         NEW q \in Request, queue' = Append(queue, q), UNCHANGED <<up, db>>,
         q.kind # "clear" => known \subseteq known',
         q.kind = "put" => q.block \in known',
         \A r \in Readers : reader[r].pc = "looking" => HashOf(reader'[r]) = HashOf(reader[r]),
         q.kind = "lookup" => HashOf(reader'[q.by]) \notin known /\ q.by \in Readers
  PROVE  WritesKnown'
<1>1. /\ DOMAIN queue' = DOMAIN queue \cup {End} /\ End \notin DOMAIN queue
      /\ \A i \in DOMAIN queue : i \in Nat /\ i < End /\ queue'[i] = queue[i]
      /\ queue'[End] = q /\ End' = End + 1 /\ End \in Nat
      /\ \A i, j \in Nat : Unwiped(i, j)' => Unwiped(i, j)
      /\ \A i \in Nat : Unwiped(i, End)' => Unwiped(i, End)
      /\ \A i \in Nat : Unwiped(i, End)' /\ i < End => q.kind # "clear"
  BY QueueAppended
<1>2. /\ Puts' = Puts \cup {i \in {End} : q.kind = "put"}
      /\ Lookups' = Lookups \cup {i \in {End} : q.kind = "lookup"}
      /\ \A i \in DOMAIN queue : queue'[i] = queue[i] /\ i \in Nat /\ i < End
      /\ Puts \subseteq DOMAIN queue /\ Lookups \subseteq DOMAIN queue
  BY <1>1 DEF Puts, Lookups
<1>3. 0 < End /\ 0 \in Nat
  BY QueueShape DEF End
<1>4. (\A h \in Heights : db.blocks[h] # Absent =>
         [height |-> h, fork |-> db.blocks[h]] \in db.hashes)'
  BY DEF WritesKnown
<1>5. (up /\ Unwiped(0, End) => db.hashes \subseteq known)'
  BY <1>1, <1>3 DEF WritesKnown
<1>6. ASSUME NEW i \in Puts', Unwiped(i, End)' PROVE queue'[i].block \in known'
  <2>1. CASE i \in Puts
    <3>1. Unwiped(i, End) /\ q.kind # "clear" /\ queue'[i] = queue[i]
      BY <1>1, <1>2, <1>6, <2>1
    <3>2. QED
      BY <2>1, <3>1 DEF WritesKnown
  <2>2. CASE i = End /\ q.kind = "put"
    BY <1>1, <2>2
  <2>3. QED
    BY <1>2, <2>1, <2>2
<1>7. ASSUME NEW j \in Lookups, NEW b, b = HashOf(reader'[queue'[j].by])
      PROVE  /\ (Unwiped(0, j))' => b \notin db.hashes
             /\ \A i \in Puts' : i < j /\ (Unwiped(i, j))' => queue'[i].block # b
  <2>1. queue'[j] = queue[j] /\ queue[j].by \in Readers /\ reader[queue[j].by].pc = "looking"
    BY <1>2, LookupReaders DEF ReadsTracked, Lookups
  <2>2. b = HashOf(reader[queue[j].by])
    BY <1>7, <2>1
  <2>3. j \in Nat /\ j < End
    BY <1>2
  <2>4. (Unwiped(0, j))' => Unwiped(0, j)
    BY <1>1, <1>3, <2>3
  <2>5. ASSUME NEW i \in Puts', i < j, (Unwiped(i, j))' PROVE queue'[i].block # b
    <3>1. i \in Puts /\ i \in Nat
      BY <1>1, <1>2, <2>3, <2>5
    <3>2. Unwiped(i, j) /\ queue'[i] = queue[i]
      BY <1>1, <1>2, <2>3, <2>5, <3>1
    <3>3. QED
      BY <2>2, <2>5, <3>1, <3>2 DEF WritesKnown
  <2>6. QED
    BY <2>2, <2>4, <2>5 DEF WritesKnown
<1>8. ASSUME q.kind = "lookup", NEW b, b = HashOf(reader'[q.by])
      PROVE  /\ (Unwiped(0, End) => b \notin db.hashes)
             /\ \A i \in Puts : Unwiped(i, End) => queue[i].block # b
  BY <1>8 DEF WritesKnown
<1>9. ASSUME NEW j \in Lookups', NEW b, b = HashOf(reader'[queue'[j].by])
      PROVE  /\ (Unwiped(0, j))' => b \notin db'.hashes
             /\ \A i \in Puts' : i < j /\ (Unwiped(i, j))' => queue'[i].block # b
  <2>1. CASE j \in Lookups
    BY <1>7, <1>9, <2>1
  <2>2. CASE j = End /\ q.kind = "lookup"
    <3>1. b = HashOf(reader'[q.by]) /\ Puts' = Puts
      BY <1>1, <1>2, <1>9, <2>2
    <3>2. (Unwiped(0, j))' => Unwiped(0, End)
      BY <1>1, <1>3, <2>2
    <3>3. \A i \in Puts : (Unwiped(i, j))' => Unwiped(i, End)
      BY <1>1, <1>2, <2>2
    <3>4. QED
      BY <1>2, <1>8, <2>2, <3>1, <3>2, <3>3
  <2>3. QED
    BY <1>2, <2>1, <2>2
<1>10. QED
  BY <1>4, <1>5, <1>6, <1>9 DEF WritesKnown

LEMMA KnownAnswered ==
  ASSUME StoreAssumption, BsTypeOK, ReadsTracked, WritesKnown,
         NEW i \in DOMAIN queue, Answer(i), UNCHANGED <<up, db, known>>,
         queue[i].kind \in {"get", "lookup"},
         \A r \in Readers \ {queue[i].by} : reader'[r] = reader[r]
  PROVE  WritesKnown'
<1>1. /\ \A j \in DOMAIN queue' :
           /\ j \in Nat /\ From(i, j) \in DOMAIN queue /\ From(i, j) # i
           /\ queue'[j] = queue[From(i, j)]
      /\ \A j, k \in Nat : j < k => From(i, j) < From(i, k)
      /\ From(i, 0) = 0 /\ From(i, End') = End /\ End' \in Nat
      /\ \A j, k \in Nat : Unwiped(j, k)' => Unwiped(From(i, j), From(i, k))
  BY QueueAnswered
<1>2. /\ \A j \in Puts' : j \in Nat /\ From(i, j) \in Puts /\ queue'[j] = queue[From(i, j)]
      /\ \A j \in Lookups' : /\ j \in Nat /\ From(i, j) \in Lookups
                             /\ queue'[j] = queue[From(i, j)] /\ From(i, j) # i
  BY <1>1 DEF Puts, Lookups
<1>3. (\A h \in Heights : db.blocks[h] # Absent =>
         [height |-> h, fork |-> db.blocks[h]] \in db.hashes)'
  BY DEF WritesKnown
<1>4. (up /\ Unwiped(0, End) => db.hashes \subseteq known)'
  <2>1. Unwiped(0, End)' => Unwiped(0, End)
    BY <1>1
  <2>2. QED
    BY <2>1 DEF WritesKnown
<1>5. ASSUME NEW j \in Puts', Unwiped(j, End)' PROVE queue'[j].block \in known'
  <2>1. Unwiped(From(i, j), End)
    BY <1>1, <1>2, <1>5
  <2>2. QED
    BY <1>2, <2>1 DEF WritesKnown
<1>6. ASSUME NEW j \in Lookups', NEW b, b = HashOf(reader'[queue'[j].by])
      PROVE  /\ (Unwiped(0, j))' => b \notin db'.hashes
             /\ \A k \in Puts' : k < j /\ (Unwiped(k, j))' => queue'[k].block # b
  <2>1. queue'[j] = queue[From(i, j)] /\ From(i, j) \in Lookups /\ From(i, j) # i
    BY <1>2
  <2>2. queue'[j].by \in Readers /\ queue'[j].by # queue[i].by
    <3>1. IsRead(queue[From(i, j)]) /\ IsRead(queue[i]) /\ queue[From(i, j)].by \in Readers
      BY <2>1, LookupReaders DEF IsRead
    <3>2. From(i, j) \in DOMAIN queue
      BY <2>1 DEF Lookups
    <3>3. QED
      BY <2>1, <3>1, <3>2 DEF ReadsTracked
  <2>3. b = HashOf(reader[queue[From(i, j)].by])
    BY <1>6, <2>1, <2>2 DEF HashOf
  <2>4. (Unwiped(0, j))' => Unwiped(0, From(i, j))
    BY <1>1, <1>2
  <2>5. ASSUME NEW k \in Puts', k < j, (Unwiped(k, j))' PROVE queue'[k].block # b
    <3>1. From(i, k) < From(i, j) /\ Unwiped(From(i, k), From(i, j))
      BY <1>1, <1>2, <2>5
    <3>2. From(i, k) \in Puts /\ queue'[k] = queue[From(i, k)]
      BY <1>2
    <3>3. QED
      BY <2>1, <2>3, <3>1, <3>2 DEF WritesKnown
  <2>6. QED
    BY <2>1, <2>3, <2>4, <2>5 DEF WritesKnown
<1>7. QED
  BY <1>3, <1>4, <1>5, <1>6 DEF WritesKnown

LEMMA KnownSettled ==
  ASSUME StoreAssumption, BsTypeOK, WritesKnown, Settle, UNCHANGED <<up, known>>,
         \/ Head(queue).kind = "put" /\ db' = Written(Head(queue))
         \/ Head(queue).kind = "put" /\ UNCHANGED db
         \/ Head(queue).kind = "clear" /\ db' = EmptyDb,
         \A r \in Readers : HashOf(reader'[r]) = HashOf(reader[r])
  PROVE  WritesKnown'
<1>1. /\ 1 \in DOMAIN queue /\ Head(queue) = queue[1] /\ End' + 1 = End
      /\ \A i \in DOMAIN queue' : i \in Nat \ {0} /\ i + 1 \in DOMAIN queue
                                  /\ queue'[i] = queue[i + 1]
      /\ End' \in Nat
      /\ \A i, j \in Nat : Unwiped(i, j)' => Unwiped(i + 1, j + 1)
      /\ queue[1].kind # "clear" =>
           \A j \in Nat : Unwiped(0, j)' => Unwiped(0, j + 1)
  BY QueueSettled
<1>2. /\ \A i \in Puts' : i \in Nat \ {0} /\ i + 1 \in Puts /\ queue'[i] = queue[i + 1]
      /\ \A i \in Lookups' : i \in Nat \ {0} /\ i + 1 \in Lookups /\ queue'[i] = queue[i + 1]
  BY <1>1 DEF Puts, Lookups
<1> DEFINE p == queue[1]
<1>3. p.kind = "put" => /\ 1 \in Puts /\ p.block \in BsBlock
                        /\ Unwiped(1, End) => p.block \in known
  <2>1. p.kind = "put" => 1 \in Puts
    BY <1>1 DEF Puts
  <2>2. QED
    BY <2>1, PutHeights DEF WritesKnown
<1>4. \/ /\ db'.hashes = db.hashes \cup {p.block} /\ p.kind = "put"
         /\ db'.blocks = [db.blocks EXCEPT ![p.block.height] = p.block.fork]
      \/ db'.hashes = db.hashes /\ db'.blocks = db.blocks /\ p.kind = "put"
      \/ db'.hashes = {} /\ db'.blocks = [h \in Heights |-> Absent] /\ p.kind = "clear"
  BY <1>1 DEF Written, EmptyDb
<1>5. (\A h \in Heights : db.blocks[h] # Absent =>
         [height |-> h, fork |-> db.blocks[h]] \in db.hashes)'
  <2>1. db.blocks \in [Heights -> Slot]
    BY DEF BsTypeOK, Database
  <2>2. p.kind = "put" => p.block = [height |-> p.block.height, fork |-> p.block.fork]
    BY <1>3 DEF BsBlock
  <2>3. QED
    BY <1>4, <2>1, <2>2 DEF WritesKnown
<1>6. (up /\ Unwiped(0, End) => db.hashes \subseteq known)'
  <2>1. Unwiped(0, End)' => Unwiped(1, End) /\ (p.kind # "clear" => Unwiped(0, End))
    BY <1>1
  <2>2. QED
    BY <1>3, <1>4, <2>1 DEF WritesKnown
<1>7. ASSUME NEW i \in Puts', Unwiped(i, End)' PROVE queue'[i].block \in known'
  <2>1. Unwiped(i + 1, End)
    BY <1>1, <1>2, <1>7
  <2>2. QED
    BY <1>2, <2>1 DEF WritesKnown
<1>8. ASSUME NEW j \in Lookups', NEW b, b = HashOf(reader'[queue'[j].by])
      PROVE  /\ (Unwiped(0, j))' => b \notin db'.hashes
             /\ \A i \in Puts' : i < j /\ (Unwiped(i, j))' => queue'[i].block # b
  <2>1. /\ j \in Nat \ {0} /\ j + 1 \in Lookups /\ queue'[j] = queue[j + 1]
        /\ queue[j + 1].by \in Readers
    BY <1>2, LookupReaders
  <2>2. b = HashOf(reader[queue[j + 1].by])
    BY <1>8, <2>1
  <2>3. (Unwiped(0, j))' => Unwiped(1, j + 1) /\ (p.kind # "clear" => Unwiped(0, j + 1))
    <3>1. 0 \in Nat /\ j \in Nat /\ 0 + 1 = 1
      BY <2>1
    <3>2. (Unwiped(0, j))' => Unwiped(1, j + 1)
      BY <1>1, <3>1
    <3>3. QED
      BY <1>1, <3>1, <3>2
  <2>4. (Unwiped(0, j))' => b \notin db'.hashes
    <3>1. 1 < j + 1
      BY <2>1
    <3>2. p.kind = "put" /\ Unwiped(1, j + 1) => p.block # b
      BY <1>3, <2>1, <2>2, <3>1 DEF WritesKnown
    <3>3. QED
      BY <1>4, <2>1, <2>2, <2>3, <3>2 DEF WritesKnown
  <2>5. ASSUME NEW i \in Puts', i < j, (Unwiped(i, j))' PROVE queue'[i].block # b
    <3>1. i + 1 \in Puts /\ queue'[i] = queue[i + 1] /\ i + 1 < j + 1
          /\ Unwiped(i + 1, j + 1)
      BY <1>1, <1>2, <2>1, <2>5
    <3>2. QED
      BY <2>1, <2>2, <3>1 DEF WritesKnown
  <2>6. QED
    BY <2>4, <2>5
<1>9. QED
  BY <1>5, <1>6, <1>7, <1>8 DEF WritesKnown

LEMMA KnownStep ==
  ASSUME StoreAssumption, RiseInv, WritesKnown, [Calm]_bsVars
  PROVE  WritesKnown'
<1> USE DEF RiseInv, ReadInv
<1>1. ASSUME UNCHANGED <<up, db, queue, known>>,
             \A r \in Readers : reader[r].pc = "looking" => HashOf(reader'[r]) = HashOf(reader[r])
      PROVE  WritesKnown'
  <2>1. \A j \in Lookups : HashOf(reader'[queue[j].by]) = HashOf(reader[queue[j].by])
    <3>1. \A j \in Lookups : queue[j].by \in Readers /\ reader[queue[j].by].pc = "looking"
      BY LookupReaders DEF Lookups, ReadsTracked
    <3>2. QED
      BY <1>1, <3>1 DEF HashOf
  <2>2. Puts' = Puts /\ Lookups' = Lookups /\ End' = End
        /\ \A i, j : Unwiped(i, j)' <=> Unwiped(i, j)
    BY <1>1 DEF Puts, Lookups, End, Unwiped
  <2>3. (up /\ Unwiped(0, End) => db.hashes \subseteq known)'
    BY <1>1, <2>2 DEF WritesKnown
  <2>4. \A i \in Puts' : (Unwiped(i, End) => queue[i].block \in known)'
    BY <1>1, <2>2 DEF WritesKnown
  <2>5. QED
    BY <1>1, <2>1, <2>2, <2>3, <2>4 DEF WritesKnown
<1>2. ASSUME queue' = <<>>, UNCHANGED db, up' => db.hashes \subseteq known'
      PROVE  WritesKnown'
  <2>1. Puts' = {} /\ Lookups' = {}
    BY <1>2 DEF Puts, Lookups
  <2>2. QED
    BY <1>2, <2>1 DEF WritesKnown
<1>3. ASSUME NEW w \in Writers, NEW b \in BsBlock, Add(w, b) PROVE WritesKnown'
  <2>1. /\ up /\ UNCHANGED <<up, db, reader>> /\ queue' = Append(queue, Put(w, b))
        /\ known' = known \cup {b}
    BY <1>3 DEF Add
  <2>2. \A r \in Readers : HashOf(reader'[r]) = HashOf(reader[r])
    BY <2>1 DEF HashOf
  <2>3. QED
    BY <1>3, <2>1, <2>2, RequestsMade, KnownAppended
<1>4. ASSUME UNCHANGED <<up, db, queue, known, reader>> PROVE WritesKnown'
  BY <1>1, <1>4 DEF HashOf
<1>5. ASSUME NEW w \in Writers, Write(w) PROVE WritesKnown'
  BY <1>3, <1>4, <1>5, WriteQueues DEF memVars
<1>6. ASSUME NEW r \in Readers, Read(r) PROVE WritesKnown'
  <2>1. up /\ UNCHANGED <<up, db, known>> /\ reader[r].pc \in {"idle", "done"}
    BY <1>6, ReadQueues
  <2>2. reader \in [Readers -> ReadState]
    BY DEF BsTypeOK
  <2>3. \A s \in Readers : reader[s].pc = "looking" => HashOf(reader'[s]) = HashOf(reader[s])
    <3>1. PICK v : reader' = [reader EXCEPT ![r] = v]
      BY <1>6, ReadQueues
    <3>2. \A s \in Readers : s # r => reader'[s] = reader[s]
      BY <2>2, <3>1
    <3>3. QED
      BY <2>1, <3>2 DEF HashOf
  <2>4. \/ UNCHANGED queue
        \/ queue' = Append(queue, Get(r))
        \/ queue' = Append(queue, Lookup(r)) /\ HashOf(reader'[r]) \notin known
    <3>1. ASSUME NEW h, NEW want, NEW x,
                 reader' = [reader EXCEPT ![r] =
                   [pc |-> "looking", height |-> h, want |-> want, sure |-> x,
                    got |-> Absent]]
          PROVE  HashOf(reader'[r]) = [height |-> h, fork |-> want]
      BY <2>2, <3>1 DEF HashOf
    <3>2. PICK h \in Heights, want \in Slot :
            \/ UNCHANGED queue
            \/ queue' = Append(queue, Get(r))
            \/ /\ [height |-> h, fork |-> want] \in BsBlock \ known
               /\ queue' = Append(queue, Lookup(r))
               /\ \E x \in BOOLEAN : reader' = [reader EXCEPT ![r] =
                    [pc |-> "looking", height |-> h, want |-> want, sure |-> x,
                     got |-> Absent]]
      BY <1>6, ReadQueues
    <3>3. QED
      BY <3>1, <3>2
  <2>5. QED
    BY <1>1, <2>1, <2>3, <2>4, RequestsMade, KnownAppended
<1>7. ASSUME NEW i \in DOMAIN queue, Fill(i) \/ LookupMisses(i) \/ ReadFails(i)
      PROVE  WritesKnown'
  BY <1>7, AnswerQueues, KnownAnswered
<1>8. ASSUME CommitPut \/ CommitFails PROVE WritesKnown'
  BY <1>8, KnownSettled DEF CommitPut, CommitFails, memVars, HashOf
<1>9. ASSUME reader' = [r \in Readers |-> [reader[r] EXCEPT !.sure = FALSE]]
      PROVE  \A r \in Readers : HashOf(reader'[r]) = HashOf(reader[r])
  BY <1>9 DEF HashOf, BsTypeOK, ReadState
<1>10. ASSUME ClearSettles PROVE WritesKnown'
  BY <1>9, <1>10, KnownSettled DEF ClearSettles, memVars
<1>11. ASSUME Clear PROVE WritesKnown'
  <2>1. up /\ UNCHANGED <<up, db>> /\ queue' = Append(queue, Wipe)
        /\ reader' = [r \in Readers |-> [reader[r] EXCEPT !.sure = FALSE]]
    BY <1>11 DEF Clear
  <2>2. QED
    BY <1>9, <2>1, RequestsMade, KnownAppended
<1>12. ASSUME Crash PROVE WritesKnown'
  BY <1>2, <1>12 DEF Crash
<1>13. ASSUME Start PROVE WritesKnown'
  <2>1. db.latest = 0 => db.hashes = {}
    <3>1. \A b \in db.hashes : b.height \in Nat \ {0} /\ b.height <= db.latest
      BY PutHeights DEF WritesRise, BsTypeOK, Database, BsBlock
    <3>2. QED
      BY <3>1
  <2>2. /\ queue' = <<>> /\ UNCHANGED db
        /\ db.latest # 0 => known' = db.hashes
    BY <1>13, Zenon DEF Start, Load, DownIsEmpty, LoadedHashes
  <2>3. QED
    BY <1>2, <2>1, <2>2
<1>14. ASSUME UNCHANGED bsVars PROVE WritesKnown'
  BY <1>4, <1>14 DEF bsVars, memVars, procVars
<1>15. QED
  BY <1>5, <1>6, <1>7, <1>8, <1>10, <1>11, <1>12, <1>13, <1>14 DEF Calm

KnownInv == RiseInv /\ WritesKnown

\* While the map describes the database, no lookup hits.
LEMMA NoHits ==
  ASSUME StoreAssumption, KnownInv, NEW i \in DOMAIN queue PROVE ~ LookupHits(i)
<1> USE DEF KnownInv, RiseInv, ReadInv
<1> SUFFICES ASSUME LookupHits(i) PROVE FALSE
  OBVIOUS
<1>1. /\ i \in Lookups /\ HashOf(reader[queue[i].by]) \in db.hashes
      /\ \A j \in 1..i : queue[j].kind \in {"get", "lookup"}
  BY Zenon DEF LookupHits, CanAnswer, Lookups
<1>2. Unwiped(0, i)
  BY <1>1, QueueShape DEF Unwiped
<1>3. QED
  BY <1>1, <1>2 DEF WritesKnown

\* So a step that leaves nothing half done is a calm one.
LEMMA CalmOrBroken ==
  ASSUME StoreAssumption, KnownInv, [BsNext]_bsVars, ~broken' PROVE [Calm]_bsVars
<1>1. ~ StartUnread /\ ~ StartPartly /\ ~ ClearFails
  BY Zenon DEF StartUnread, StartPartly, StartHalf, ClearFails
<1>2. \A i \in DOMAIN queue : ~ LookupHits(i)
  BY NoHits
<1>3. QED
  BY <1>1, <1>2, Zenon DEF BsNext, Calm

LEMMA KnownInvariant == BsSpec => [](broken \/ KnownInv)
<1>1. BsInit => WritesRise /\ WritesKnown
  BY DEF BsInit, WritesRise, LatestCovers, EmptyDb, Puts, WritesKnown, Lookups
<1>2. /\ ReadInv /\ DownIsEmpty /\ (broken \/ (WritesRise /\ WritesKnown))
      /\ [BsNext]_bsVars
      => (broken \/ (WritesRise /\ WritesKnown))'
  <2> SUFFICES ASSUME ReadInv, DownIsEmpty, broken \/ (WritesRise /\ WritesKnown),
                      [BsNext]_bsVars, ~broken'
               PROVE  WritesRise' /\ WritesKnown'
    BY Zenon
  <2>1. WritesRise /\ WritesKnown
    BY BrokenStays, Zenon
  <2>2. [Calm]_bsVars
    BY <2>1, CalmOrBroken, StoreAssumption DEF KnownInv, RiseInv
  <2>3. QED
    BY <2>1, <2>2, RiseStep, KnownStep, StoreAssumption DEF RiseInv, ReadInv
<1>3. QED
  BY <1>1, <1>2, ReadInvariant, DownInvariant, PTL DEF BsSpec, KnownInv, RiseInv

(* Whatever writers, importers and clear() do at once, and whichever writes
   fail or are lost in a crash, no stored block is above the stored latest
   height, until a wipe or a start is left half done: up to then a restart
   never resumes below a block.                                             *)
THEOREM LatestCoversBlocks == BsSpec => []NothingAboveLatest
<1>1. (broken \/ KnownInv) => NothingAboveLatest
  BY Zenon DEF KnownInv, RiseInv, WritesRise, LatestCovers, NothingAboveLatest
<1>2. QED
  BY <1>1, KnownInvariant, PTL

\* Every stored block is in the hash index.
Indexed ==
  \A h \in Heights : db.blocks[h] # Absent =>
    [height |-> h, fork |-> db.blocks[h]] \in db.hashes

LEMMA IndexInvariant == BsSpec => []Indexed
<1>1. BsInit => Indexed
  BY DEF BsInit, Indexed, EmptyDb
<1>2. BsTypeOK /\ Indexed /\ [BsNext]_bsVars => Indexed'
  <2> SUFFICES ASSUME BsTypeOK, Indexed, [BsNext]_bsVars PROVE Indexed'
    OBVIOUS
  <2>1. ASSUME UNCHANGED db PROVE Indexed'
    BY <2>1 DEF Indexed
  <2>2. ASSUME NEW w \in Writers, Write(w) PROVE UNCHANGED db
    BY <2>2, Zenon DEF Write, TakeHeight, MineAborts, AddMined, AddImported, Add
  <2>3. ASSUME NEW r \in Readers, Read(r) PROVE UNCHANGED db
    BY <2>3, Zenon DEF Read, GetBlock, GetByKnownHash, GetByUnknownHash
  <2>4. ASSUME NEW i \in DOMAIN queue,
               Fill(i) \/ LookupMisses(i) \/ LookupHits(i) \/ ReadFails(i)
        PROVE  UNCHANGED db
    BY <2>4, Zenon DEF Fill, LookupMisses, LookupHits, ReadFails
  <2>5. ASSUME \/ Start \/ StartUnread \/ StartPartly \/ CommitFails \/ Clear
               \/ ClearFails \/ Crash
        PROVE  UNCHANGED db
    BY <2>5, Zenon DEF Start, StartUnread, StartPartly, StartHalf, CommitFails,
       Clear, ClearFails, Crash
  <2>6. ASSUME ClearSettles PROVE Indexed'
    BY <2>6 DEF ClearSettles, EmptyDb, Indexed
  <2>7. ASSUME CommitPut PROVE Indexed'
    <3> DEFINE p == Head(queue)
    <3>1. p.block \in BsBlock
      BY <2>7, SettleType, RequestKinds DEF CommitPut
    <3>2. /\ db'.blocks = [db.blocks EXCEPT ![p.block.height] = p.block.fork]
          /\ db'.hashes = db.hashes \cup {p.block}
      BY <2>7 DEF CommitPut, Written
    <3>3. p.block = [height |-> p.block.height, fork |-> p.block.fork]
          /\ db.blocks \in [Heights -> Slot]
      BY <3>1 DEF BsBlock, BsTypeOK, Database
    <3> HIDE DEF p
    <3>4. QED
      BY <3>2, <3>3 DEF Indexed
  <2>8. ASSUME UNCHANGED bsVars PROVE UNCHANGED db
    BY <2>8, Zenon DEF bsVars
  <2>9. QED
    BY <2>1, <2>2, <2>3, <2>4, <2>5, <2>6, <2>7, <2>8, Zenon DEF BsNext
<1>3. QED
  BY <1>1, <1>2, TypeCorrect, PTL DEF BsSpec

(* Every stored block is in the hash index; and until a wipe or a start is left
   half done, a hash that the map does not know is not in the database either
   when its lookup settles, whatever was written, imported, wiped or lost in
   the meantime.                                                             *)
THEOREM MapKnowsAllHashes == BsSpec => []HashMapSuffices
<1>1. Indexed /\ (broken \/ KnownInv) => HashMapSuffices
  <2> SUFFICES ASSUME Indexed, broken \/ KnownInv PROVE HashMapSuffices
    OBVIOUS
  <2>1. ASSUME ~broken, queue # <<>>, Head(queue).kind = "lookup"
        PROVE  HashOf(reader[Head(queue).by]) \notin db.hashes
    <3>0. KnownInv
      BY <2>1, Zenon
    <3>1. Head(queue) = queue[1] /\ 1 \in DOMAIN queue
      BY <2>1, <3>0, QueueShape, EmptySeq DEF KnownInv, RiseInv, ReadInv, BsTypeOK
    <3>2. 1 \in Lookups /\ Unwiped(0, 1)
      BY <2>1, <3>0, <3>1, QueueShape DEF Lookups, Unwiped, KnownInv, RiseInv, ReadInv
    <3>3. QED
      BY <3>0, <3>1, <3>2 DEF KnownInv, WritesKnown
  <2>2. QED
    BY <2>1, Zenon DEF Indexed, HashMapSuffices
<1>2. QED
  BY <1>1, IndexInvariant, KnownInvariant, PTL

-----------------------------------------------------------------------------
(* Heights, where blocks are only mined.                                    *)

\* The writes that are queued.
Queued == {queue[i] : i \in Puts}

LEMMA QueuedKept ==
  ASSUME BsTypeOK, Settle \/ \E i \in DOMAIN queue : Answer(i)
  PROVE  Queued' \subseteq Queued
<1>1. CASE Settle
  <2>1. \A i \in Puts' : i + 1 \in Puts /\ queue'[i] = queue[i + 1]
    BY <1>1, QueueSettled DEF Puts
  <2>2. QED
    BY <2>1 DEF Queued
<1>2. ASSUME NEW i \in DOMAIN queue, Answer(i) PROVE Queued' \subseteq Queued
  <2>1. \A j \in Puts' : From(i, j) \in Puts /\ queue'[j] = queue[From(i, j)]
    BY <1>2, QueueAnswered DEF Puts
  <2>2. QED
    BY <2>1 DEF Queued
<1>3. QED
  BY <1>1, <1>2

LEMMA QueuedGrows ==
  ASSUME BsTypeOK, NEW q \in Request, queue' = Append(queue, q)
  PROVE  Queued' = Queued \cup {p \in {q} : p.kind = "put"}
<1>1. /\ DOMAIN queue' = DOMAIN queue \cup {End} /\ End \notin DOMAIN queue
      /\ \A i \in DOMAIN queue : queue'[i] = queue[i]
      /\ queue'[End] = q
  BY QueueAppended
<1>2. Puts' = Puts \cup {i \in {End} : q.kind = "put"} /\ \A i \in Puts : queue'[i] = queue[i]
  BY <1>1 DEF Puts
<1>3. QED
  BY <1>1, <1>2 DEF Queued

LEMMA QueuedType ==
  ASSUME StoreAssumption, BsTypeOK
  PROVE  \A p \in Queued : /\ p.block \in BsBlock /\ p.block.height \in Nat /\ p.latest \in Nat
                           /\ p.by \in Writers /\ p.kind = "put"
BY PutHeights DEF Queued, Puts

LEMMA HeadQueued ==
  ASSUME BsTypeOK, Settle, Head(queue).kind = "put" PROVE Head(queue) \in Queued
BY QueueSettled DEF Queued, Puts

LEMMA EvictShrinks ==
  ASSUME BsTypeOK, Evict
  PROVE  \A h \in Heights : memory'[h] = Absent \/ memory'[h] = memory[h]
BY DEF Evict

Mining(w) == writer[w].pc = "mining"

\* Heights that were taken while no block has them or is on its way to them.
Fresh ==
  {h \in Heights :
     /\ h <= vmHeight /\ db.blocks[h] = Absent /\ memory[h] = Absent
     /\ \A b \in known \cup db.hashes : b.height # h
     /\ \A p \in Queued : p.block.height # h}

HeightsNew ==
  /\ up => /\ db.latest <= vmHeight /\ latestHeight <= vmHeight
           /\ \A h \in Cached : h <= vmHeight
           /\ \A b \in known : b.height <= vmHeight
  /\ \A p \in Queued : p.latest <= vmHeight
  /\ \A w \in Writers : Mining(w) =>
       /\ writer[w].height \in Fresh
       /\ \A v \in Writers : Mining(v) /\ writer[v].height = writer[w].height => v = w

LEMMA WriterHeights ==
  ASSUME StoreAssumption, BsTypeOK
  PROVE  \A w \in Writers : writer[w].height \in Heights /\ writer[w].height \in Nat
BY DEF BsTypeOK, WriteState, Heights, StoreAssumption

\* Writers are as they were and no height got a block it did not have.
LEMMA NewFrame ==
  ASSUME BsTypeOK, StoreAssumption, BsTypeOK', HeightsNew,
         UNCHANGED <<vmHeight>>, up' => up,
         up => db'.latest <= vmHeight /\ latestHeight' <= vmHeight,
         Queued' \subseteq Queued, known' \subseteq known,
         db'.hashes \subseteq db.hashes \cup {p.block : p \in Queued},
         \A h \in Heights : db'.blocks[h] # Absent =>
           db.blocks[h] # Absent \/ \E p \in Queued : p.block.height = h,
         \A h \in Heights : memory'[h] # Absent =>
           memory[h] # Absent \/ (db.blocks[h] # Absent /\ h <= vmHeight),
         \A w \in Writers : writer'[w] = writer[w] \/ writer'[w].pc # "mining"
  PROVE  HeightsNew'
<1>1. \A w \in Writers : Mining(w)' => Mining(w) /\ writer'[w] = writer[w]
  BY DEF Mining
<1>2. ASSUME NEW h \in Fresh PROVE h \in Fresh'
  BY DEF Fresh
<1>3. ASSUME NEW w \in Writers, Mining(w)'
      PROVE  (/\ writer[w].height \in Fresh
              /\ \A v \in Writers : Mining(v) /\ writer[v].height = writer[w].height => v = w)'
  BY <1>1, <1>2, <1>3 DEF HeightsNew
<1>4. (up => /\ db.latest <= vmHeight /\ latestHeight <= vmHeight
             /\ \A h \in Cached : h <= vmHeight
             /\ \A b \in known : b.height <= vmHeight)'
  BY DEF HeightsNew, Cached
<1>5. QED
  BY <1>3, <1>4 DEF HeightsNew

LEMMA NewStep ==
  ASSUME StoreAssumption, KnownInv, HeightsNew, ~Importing, [Calm]_bsVars
  PROVE  HeightsNew'
<1> USE DEF KnownInv, RiseInv, ReadInv
<1>0. BsTypeOK'
  BY TypeStep, CalmIsNext
<1>t. /\ \A h \in Heights : h \in Nat \ {0}
      /\ vmHeight \in Nat /\ latestHeight \in Nat /\ db.latest \in Nat
      /\ \A b \in BsBlock : b.height \in Heights
      /\ known \subseteq BsBlock /\ db.hashes \subseteq BsBlock
      /\ db.blocks \in [Heights -> Slot] /\ memory \in [Heights -> Slot]
      /\ writer \in [Writers -> WriteState]
  BY PutHeights DEF BsTypeOK, Database, BsBlock
<1>w. /\ \A b \in db.hashes : b.height <= db.latest
      /\ \A h \in Heights : db.blocks[h] # Absent => h <= db.latest
  BY DEF WritesRise, LatestCovers
<1>h. up => /\ db.latest <= vmHeight /\ latestHeight <= vmHeight
            /\ \A h \in Heights : memory[h] # Absent => h <= vmHeight
            /\ \A b \in known : b.height <= vmHeight
  BY DEF HeightsNew, Cached
<1>q. ASSUME NEW q \in Request, q.kind # "put", queue' = Append(queue, q)
      PROVE  Queued' = Queued
  BY <1>q, QueuedGrows
<1>1. ASSUME UNCHANGED <<up, vmHeight, db, latestHeight, memory, known, writer>>,
             Queued' \subseteq Queued
      PROVE  HeightsNew'
  BY <1>0, <1>1, NewFrame DEF HeightsNew
<1>2. ASSUME NEW w \in Writers, TakeHeight(w) PROVE HeightsNew'
  <2>1. /\ up /\ vmHeight' = vmHeight + 1 /\ vmHeight' \in Heights
        /\ writer' = [writer EXCEPT ![w] = [pc |-> "mining", height |-> vmHeight']]
        /\ UNCHANGED <<up, db, latestHeight, memory, known>> /\ Queued' = Queued
    BY <1>2, <1>t DEF TakeHeight, memVars, Queued, Puts, Heights, StoreAssumption
  <2>2. \A p \in Queued : p.latest \in Nat /\ p.block.height \in Nat
                          /\ p.block.height <= p.latest /\ p.latest <= vmHeight
    BY QueuedType DEF HeightsNew, Queued, WritesRise
  <2>3. vmHeight' \in Fresh'
    <3>1. \A h \in Heights : db.blocks[h] # Absent \/ memory[h] # Absent => h <= vmHeight
      BY <1>t, <1>w, <1>h, <2>1
    <3>2. \A b \in known \cup db.hashes : b.height \in Nat /\ b.height <= vmHeight
      <4>1. \A b \in known \cup db.hashes : b.height \in Nat
        BY <1>t
      <4>2. QED
        BY <1>t, <1>w, <1>h, <2>1, <4>1
    <3>3. QED
      BY <1>t, <2>1, <2>2, <3>1, <3>2 DEF Fresh
  <2>4. \A h \in Fresh : h \in Fresh' /\ h # vmHeight'
    BY <1>t, <2>1 DEF Fresh
  <2>5. /\ Mining(w)' /\ writer'[w].height = vmHeight'
        /\ \A v \in Writers \ {w} : writer'[v] = writer[v] /\ Mining(v)' = Mining(v)
    BY <1>t, <2>1 DEF Mining
  <2>6. \A u \in Writers : Mining(u)' =>
          /\ writer'[u].height \in Fresh'
          /\ \A v \in Writers : Mining(v)' /\ writer'[v].height = writer'[u].height => v = u
    BY <2>3, <2>4, <2>5 DEF HeightsNew
  <2>7. (up => /\ db.latest <= vmHeight /\ latestHeight <= vmHeight
               /\ \A h \in Cached : h <= vmHeight
               /\ \A b \in known : b.height <= vmHeight)'
    <3>1. \A n \in Nat : n <= vmHeight => n <= vmHeight'
      BY <1>t, <2>1
    <3>2. \A h \in Cached' : h <= vmHeight'
      BY <1>t, <1>h, <2>1, <3>1 DEF Cached
    <3>3. \A b \in known' : b.height <= vmHeight'
      BY <1>t, <1>h, <2>1, <3>1
    <3>4. QED
      BY <1>t, <1>h, <2>1, <3>1, <3>2, <3>3
  <2>8. (\A p \in Queued : p.latest <= vmHeight)'
    BY <1>t, <2>1, <2>2
  <2>9. QED
    BY <2>6, <2>7, <2>8 DEF HeightsNew
<1>3. ASSUME NEW w \in Writers, MineAborts(w) PROVE HeightsNew'
  <2>1. /\ UNCHANGED <<up, vmHeight, db, latestHeight, memory, known>> /\ Queued' = Queued
        /\ writer' = [writer EXCEPT ![w] = NoWrite]
    BY <1>3 DEF MineAborts, memVars, Queued, Puts
  <2>2. \A v \in Writers : writer'[v] = writer[v] \/ writer'[v].pc # "mining"
    BY <1>t, <2>1 DEF NoWrite
  <2>3. QED
    BY <1>0, <2>1, <2>2, NewFrame DEF HeightsNew
<1>4. ASSUME NEW w \in Writers, NEW b \in BsBlock, Add(w, b), Mining(w), b.height = writer[w].height
      PROVE  HeightsNew'
  <2>1. /\ up /\ UNCHANGED <<up, vmHeight, db>> /\ known' = known \cup {b}
        /\ memory' = [memory EXCEPT ![b.height] = b.fork]
        /\ latestHeight' = IF b.height > latestHeight THEN b.height ELSE latestHeight
        /\ writer' = [writer EXCEPT ![w] = [pc |-> "storing", height |-> b.height]]
        /\ queue' = Append(queue, Put(w, b))
    BY <1>4 DEF Add
  <2>2. Queued' = Queued \cup {Put(w, b)} /\ Put(w, b).block = b /\ Put(w, b).latest = latestHeight'
    BY <1>4, <2>1, QueuedGrows, RequestsMade
  <2>3. b.height \in Fresh /\ b.height <= vmHeight /\ b.height \in Nat
    BY <1>4, <1>t DEF HeightsNew, Fresh
  <2>4. latestHeight' <= vmHeight
    BY <1>t, <2>1, <2>3 DEF HeightsNew
  <2>5. \A h \in Fresh : h # b.height => h \in Fresh'
    BY <1>t, <2>1, <2>2 DEF Fresh
  <2>6. \A v \in Writers : Mining(v)' => /\ Mining(v) /\ v # w /\ writer'[v] = writer[v]
                                         /\ writer[v].height # b.height
    BY <1>4, <1>t, <2>1 DEF Mining, HeightsNew
  <2>7. \A u \in Writers : Mining(u)' =>
          /\ writer'[u].height \in Fresh'
          /\ \A v \in Writers : Mining(v)' /\ writer'[v].height = writer'[u].height => v = u
    BY <2>5, <2>6 DEF HeightsNew
  <2>8. \A h \in Cached' : h <= vmHeight
    BY <1>t, <2>1, <2>3 DEF HeightsNew, Cached
  <2>9. (\A p \in Queued : p.latest <= vmHeight)'
    BY <2>1, <2>2, <2>4 DEF HeightsNew
  <2>10. QED
    BY <2>1, <2>3, <2>4, <2>7, <2>8, <2>9 DEF HeightsNew
<1>5. ASSUME NEW w \in Writers, Write(w) PROVE HeightsNew'
  <2>1. ASSUME NEW b \in BsBlock, Add(w, b), NEW f \in Forks, AddMined(w, f),
               b = [height |-> writer[w].height, fork |-> f]
        PROVE  HeightsNew'
    BY <1>4, <2>1 DEF AddMined, Mining
  <2>2. \A b : ~ AddImported(w, b)
    BY DEF AddImported
  <2>3. QED
    BY <1>2, <1>3, <1>5, <2>1, <2>2, WriteQueues
<1>6. ASSUME NEW r \in Readers, Read(r) PROVE HeightsNew'
  <2>1. /\ UNCHANGED <<up, vmHeight, db, latestHeight, memory, known, writer>>
        /\ (UNCHANGED queue \/ queue' = Append(queue, Get(r)) \/ queue' = Append(queue, Lookup(r)))
    BY <1>6, ReadQueues
  <2>2. Queued' = Queued
    <3>1. UNCHANGED queue => Queued' = Queued
      BY DEF Queued, Puts
    <3>2. QED
      BY <1>q, <2>1, <3>1, RequestsMade
  <2>3. QED
    BY <1>1, <2>1, <2>2
<1>7. ASSUME NEW i \in DOMAIN queue, Fill(i) \/ LookupMisses(i) \/ ReadFails(i)
      PROVE  HeightsNew'
  <2>1. /\ UNCHANGED <<up, vmHeight, db, latestHeight, known, writer>>
        /\ Queued' \subseteq Queued
    BY <1>7, AnswerQueues, QueuedKept
  <2>2. up
    BY <1>7, QueueShape, EmptySeq DEF DownIsEmpty
  <2>3. \A h \in Heights : memory'[h] # Absent =>
          memory[h] # Absent \/ (db.blocks[h] # Absent /\ h <= vmHeight)
    <3>1. \A h \in Heights : db.blocks[h] # Absent => h <= vmHeight
      BY <1>t, <2>2 DEF WritesRise, LatestCovers, HeightsNew
    <3>2. reader[queue[i].by].height \in Heights
      BY <1>7, AnswerQueues DEF BsTypeOK, ReadState
    <3>3. QED
      BY <1>7, <1>t, <3>1, <3>2 DEF Fill, LookupMisses, ReadFails, memVars
  <2>4. QED
    BY <1>0, <2>1, <2>3, NewFrame DEF HeightsNew
<1>8. ASSUME CommitPut PROVE HeightsNew'
  <2>1. /\ UNCHANGED <<up, vmHeight, latestHeight, known>> /\ Queued' \subseteq Queued
        /\ Head(queue) \in Queued /\ Evict /\ db' = Written(Head(queue))
        /\ writer' = [writer EXCEPT ![Head(queue).by] = NoWrite]
    BY <1>8, QueuedKept, HeadQueued DEF CommitPut
  <2>2. /\ db'.latest = Head(queue).latest
        /\ db'.hashes = db.hashes \cup {Head(queue).block}
        /\ db'.blocks = [db.blocks EXCEPT ![Head(queue).block.height] = Head(queue).block.fork]
    BY <2>1 DEF Written
  <2>3. \A v \in Writers : writer'[v] = writer[v] \/ writer'[v].pc # "mining"
    BY <1>t, <2>1 DEF NoWrite
  <2>4. \A h \in Heights : db'.blocks[h] # Absent =>
          db.blocks[h] # Absent \/ \E p \in Queued : p.block.height = h
    BY <1>t, <2>1, <2>2
  <2>5. db'.latest <= vmHeight
    BY <2>1, <2>2 DEF HeightsNew
  <2>6. QED
    BY <1>0, <2>1, <2>2, <2>3, <2>4, <2>5, EvictShrinks, NewFrame DEF HeightsNew
<1>9. ASSUME CommitFails PROVE HeightsNew'
  <2>1. /\ UNCHANGED <<up, vmHeight, db, latestHeight, memory, known>>
        /\ Queued' \subseteq Queued
        /\ writer' = [writer EXCEPT ![Head(queue).by] = NoWrite]
    BY <1>9, QueuedKept DEF CommitFails, memVars
  <2>2. \A v \in Writers : writer'[v] = writer[v] \/ writer'[v].pc # "mining"
    BY <1>t, <2>1 DEF NoWrite
  <2>3. QED
    BY <1>0, <2>1, <2>2, NewFrame DEF HeightsNew
<1>10. ASSUME ClearSettles PROVE HeightsNew'
  <2>1. /\ UNCHANGED <<up, vmHeight, latestHeight, memory, known, writer>>
        /\ Queued' \subseteq Queued /\ db' = EmptyDb
    BY <1>10, QueuedKept DEF ClearSettles, memVars
  <2>2. db'.latest = 0 /\ db'.hashes = {} /\ \A h \in Heights : db'.blocks[h] = Absent
    BY <2>1 DEF EmptyDb
  <2>3. db'.latest <= vmHeight
    BY <1>t, <2>2
  <2>4. QED
    BY <1>0, <2>1, <2>2, <2>3, NewFrame DEF HeightsNew
<1>11. ASSUME Clear PROVE HeightsNew'
  <2>1. /\ UNCHANGED <<up, vmHeight, db, writer>> /\ latestHeight' = 0 /\ known' = {}
        /\ memory' = [h \in Heights |-> Absent] /\ queue' = Append(queue, Wipe)
    BY <1>11 DEF Clear
  <2>2. Queued' = Queued
    BY <1>q, <2>1, RequestsMade
  <2>3. latestHeight' <= vmHeight
    BY <1>t, <2>1
  <2>4. QED
    BY <1>0, <2>1, <2>2, <2>3, NewFrame DEF HeightsNew
<1>12. ASSUME Crash PROVE HeightsNew'
  <2>1. ~up' /\ Queued' = {} /\ \A w \in Writers : ~ Mining(w)'
    BY <1>12 DEF Crash, Queued, Puts, NoWrite, Mining
  <2>2. QED
    BY <2>1 DEF HeightsNew
<1>13. ASSUME Start PROVE HeightsNew'
  <2>1. /\ vmHeight' = db.latest /\ latestHeight' = db.latest /\ UNCHANGED <<db, writer, queue>>
        /\ queue = <<>> /\ \A w \in Writers : ~ Mining(w)
    BY <1>13 DEF Start, ResumeHeight, DownIsEmpty, Mining
  <2>2. Queued' = {} /\ \A w \in Writers : ~ Mining(w)'
    BY <2>1 DEF Queued, Puts, Mining
  <2>3. known' \subseteq db.hashes /\ \A h \in Cached' : db.blocks[h] # Absent
    <3>1. CASE db.latest = 0
      BY <1>13, <3>1 DEF Start, DownIsEmpty, Cached
    <3>2. CASE db.latest # 0
      BY <1>13, <3>2 DEF Start, Load, LoadedHashes, Cached, Window
    <3>3. QED
      BY <3>1, <3>2
  <2>4. \A h \in Cached' : h <= vmHeight'
    BY <2>1, <2>3 DEF WritesRise, LatestCovers, Cached
  <2>5. QED
    BY <1>t, <2>1, <2>2, <2>3, <2>4 DEF HeightsNew, WritesRise
<1>14. ASSUME UNCHANGED bsVars PROVE HeightsNew'
  BY <1>1, <1>14 DEF bsVars, memVars, procVars, Queued, Puts
<1>15. QED
  BY <1>5, <1>6, <1>7, <1>8, <1>9, <1>10, <1>11, <1>12, <1>13, <1>14 DEF Calm

NewInv == KnownInv /\ HeightsNew

LEMMA NewInvariant == ~Importing => (BsSpec => [](broken \/ NewInv))
<1> SUFFICES ASSUME ~Importing PROVE BsSpec => [](broken \/ NewInv)
  OBVIOUS
<1>1. BsInit => HeightsNew
  BY DEF BsInit, HeightsNew, Queued, Puts, Mining, NoWrite
<1>2. /\ broken \/ KnownInv
      /\ broken \/ HeightsNew
      /\ [BsNext]_bsVars
      => (broken \/ HeightsNew)'
  <2> SUFFICES ASSUME broken \/ KnownInv, broken \/ HeightsNew, [BsNext]_bsVars, ~broken'
               PROVE  HeightsNew'
    BY Zenon
  <2>1. KnownInv /\ HeightsNew
    BY BrokenStays, Zenon
  <2>2. [Calm]_bsVars
    BY <2>1, CalmOrBroken, StoreAssumption
  <2>3. QED
    BY <2>1, <2>2, NewStep, StoreAssumption
<1>3. QED
  BY <1>1, <1>2, KnownInvariant, PTL DEF BsSpec, NewInv

(* Where blocks are only mined, the VM's next height is above every block it
   knows, for any number of mineBlock calls in flight, failed writes, wipes
   and restarts, until a wipe or a start is left half done.                 *)
THEOREM NextHeightUnused == ~Importing => (BsSpec => []NextHeightIsNew)
<1>1. (broken \/ NewInv) => NextHeightIsNew
  BY Zenon DEF NewInv, HeightsNew, NextHeightIsNew
<1>2. QED
  BY <1>1, NewInvariant, PTL

-----------------------------------------------------------------------------
(* One block at each height, where blocks are only mined and none wiped.    *)
(*                                                                          *)
(* The map, the cache, the database and the queue then agree on the block   *)
(* of a height, so what a read by hash finds at that height is that block.  *)

NoWipe == \A i \in DOMAIN queue : queue[i].kind # "clear"

ReadsKnown ==
  \A r \in Readers :
    /\ reader[r].pc = "looking" => reader[r].got = Absent
    /\ reader[r].pc = "reading" /\ reader[r].want # Absent => HashOf(reader[r]) \in known

CacheCurrent ==
  failures = 0 =>
    \A h \in Cached : memory[h] = db.blocks[h] \/ \E p \in Queued : p.block.height = h

ReadsRight ==
  \A r \in Readers :
    reader[r].pc = "done" /\ reader[r].want # Absent /\ reader[r].got # Absent
      => reader[r].got = reader[r].want

OneAtHeight ==
  /\ NoWipe
  /\ \A b, c \in known : b.height = c.height => b = c
  /\ \A b \in db.hashes : db.blocks[b.height] = b.fork
  /\ \A h \in Cached : [height |-> h, fork |-> memory[h]] \in known
  /\ ReadsKnown /\ CacheCurrent /\ ReadsRight

LEMMA CurrentIsCurrent ==
  ASSUME BsTypeOK PROVE CacheCurrent /\ ReadsRight => ReadsAreCurrent
BY DEF CacheCurrent, ReadsRight, ReadsAreCurrent, PutQueued, Queued, Puts

LEMMA KnownBlocks ==
  ASSUME BsTypeOK, WritesKnown, NoWipe
  PROVE  /\ up => db.hashes \subseteq known
         /\ \A p \in Queued : p.block \in known
         /\ \A h \in Heights : db.blocks[h] # Absent =>
              [height |-> h, fork |-> db.blocks[h]] \in db.hashes
<1>1. \A i, j \in Nat : Unwiped(i, j)
  BY DEF Unwiped, NoWipe
<1>2. End \in Nat /\ 0 \in Nat /\ \A i \in Puts : i \in Nat
  BY QueueShape DEF Puts
<1>3. QED
  BY <1>1, <1>2 DEF WritesKnown, Queued

LEMMA WipeFree ==
  ASSUME BsTypeOK, NoWipe,
         \/ UNCHANGED queue \/ queue' = <<>> \/ Settle \/ \E i \in DOMAIN queue : Answer(i)
         \/ \E q \in Request : q.kind # "clear" /\ queue' = Append(queue, q)
  PROVE  NoWipe'
<1>1. CASE UNCHANGED queue \/ queue' = <<>>
  BY <1>1 DEF NoWipe
<1>2. CASE Settle
  BY <1>2, QueueSettled DEF NoWipe
<1>3. ASSUME NEW i \in DOMAIN queue, Answer(i) PROVE NoWipe'
  BY <1>3, QueueAnswered DEF NoWipe
<1>4. ASSUME NEW q \in Request, q.kind # "clear", queue' = Append(queue, q) PROVE NoWipe'
  BY <1>4, QueueAppended DEF NoWipe
<1>5. QED
  BY <1>1, <1>2, <1>3, <1>4

\* Only the write that settles leaves the queue.
LEMMA QueuedLeft ==
  ASSUME BsTypeOK
  PROVE  /\ Settle => Queued \subseteq Queued' \cup {Head(queue)}
         /\ \A i \in DOMAIN queue : Answer(i) => Queued' = Queued
<1>1. ASSUME Settle PROVE Queued \subseteq Queued' \cup {Head(queue)}
  <2>1. /\ Head(queue) = queue[1] /\ Len(queue') = Len(queue) - 1
        /\ queue' \in Seq(Request) /\ \A i \in 1..Len(queue') : queue'[i] = queue[i + 1]
    BY <1>1, QueueSettled, HeadTailProperties DEF BsTypeOK, Settle
  <2>2. DOMAIN queue' = 1..Len(queue')
    BY <2>1, LenProperties
  <2>3. ASSUME NEW i \in Puts, i # 1 PROVE queue[i] \in Queued'
    <3>1. i - 1 \in DOMAIN queue' /\ queue'[i - 1] = queue[i]
      BY <2>1, <2>2, <2>3, QueueShape DEF Puts
    <3>2. i - 1 \in Puts'
      BY <3>1 DEF Puts
    <3>3. QED
      BY <3>1, <3>2 DEF Queued
  <2>4. QED
    BY <2>1, <2>3 DEF Queued
<1>2. ASSUME NEW i \in DOMAIN queue, Answer(i) PROVE Queued' = Queued
  <2>1. /\ queue' \in Seq(Request) /\ Len(queue') = Len(queue) - 1
        /\ \A j \in 1..(Len(queue) - 1) :
             queue'[j] = IF j < i THEN queue[j] ELSE queue[j + 1]
    BY <1>2, WithoutEntry DEF Answer, BsTypeOK
  <2>2. DOMAIN queue' = 1..Len(queue')
    BY <2>1, LenProperties
  <2>3. queue[i].kind # "put"
    BY <1>2, QueueShape DEF Answer, CanAnswer
  <2>4. ASSUME NEW j \in Puts PROVE queue[j] \in Queued'
    <3> DEFINE k == IF j < i THEN j ELSE j - 1
    <3>1. k \in DOMAIN queue' /\ queue'[k] = queue[j]
      BY <2>1, <2>2, <2>3, QueueShape DEF Puts
    <3>2. k \in Puts'
      BY <3>1 DEF Puts
    <3>3. QED
      BY <3>1, <3>2 DEF Queued
  <2>5. QED
    BY <1>2, <2>4, QueuedKept DEF Queued
<1>3. QED
  BY <1>1, <1>2

\* Nothing but the queue, and there no write, changed.
LEMMA OneFrame ==
  ASSUME OneAtHeight, NoWipe',
         UNCHANGED <<db, known, memory, reader>>, Queued' = Queued,
         failures' = 0 => failures = 0
  PROVE  OneAtHeight'
BY DEF OneAtHeight, ReadsKnown, CacheCurrent, ReadsRight, Cached

LEMMA OneStep ==
  ASSUME StoreAssumption, NewInv, OneAtHeight, ~Importing, ~Clearing, [Calm]_bsVars
  PROVE  OneAtHeight'
<1> USE DEF NewInv, KnownInv, RiseInv, ReadInv
<1>t. /\ failures \in Nat /\ \A b \in BsBlock : b = [height |-> b.height, fork |-> b.fork]
      /\ known \subseteq BsBlock /\ db.hashes \subseteq BsBlock
      /\ db.blocks \in [Heights -> Slot] /\ memory \in [Heights -> Slot]
      /\ reader \in [Readers -> ReadState]
      /\ \A b \in BsBlock : b.height \in Heights /\ b.fork \in Forks
      /\ \A r \in Readers : reader[r].height \in Heights
  BY StoreAssumption DEF BsTypeOK, Database, BsBlock, ReadState, StoreAssumption
<1>k. /\ up => db.hashes \subseteq known
      /\ \A p \in Queued : p.block \in known
      /\ \A h \in Heights : db.blocks[h] # Absent =>
           [height |-> h, fork |-> db.blocks[h]] \in db.hashes
  BY KnownBlocks DEF OneAtHeight
<1>q. ASSUME NEW q \in Request, q.kind # "put", queue' = Append(queue, q)
      PROVE  Queued' = Queued
  BY <1>q, QueuedGrows
<1>u. queue # <<>> => up
  BY DEF DownIsEmpty
<1>1. ASSUME UNCHANGED <<db, known, memory, reader, queue>>, failures' = 0 => failures = 0
      PROVE  OneAtHeight'
  <2>1. NoWipe' /\ Queued' = Queued
    BY <1>1, WipeFree DEF OneAtHeight, Queued, Puts
  <2>2. QED
    BY <1>1, <2>1, OneFrame
<1>2. ASSUME NEW w \in Writers, TakeHeight(w) \/ MineAborts(w) PROVE OneAtHeight'
  <2>1. failures' = 0 => failures = 0
    BY <1>2, <1>t DEF TakeHeight, MineAborts, countVars
  <2>2. QED
    BY <1>1, <1>2, <2>1 DEF TakeHeight, MineAborts, memVars
<1>3. ASSUME NEW w \in Writers, NEW b \in BsBlock, Add(w, b), Mining(w), b.height = writer[w].height
      PROVE  OneAtHeight'
  <2>1. /\ UNCHANGED <<db, reader, failures>> /\ known' = known \cup {b}
        /\ memory' = [memory EXCEPT ![b.height] = b.fork]
        /\ queue' = Append(queue, Put(w, b))
    BY <1>3 DEF Add
  <2>2. /\ Queued' = Queued \cup {Put(w, b)} /\ Put(w, b).block = b /\ NoWipe'
    BY <1>3, <2>1, QueuedGrows, RequestsMade, WipeFree DEF OneAtHeight
  <2>3. \A c \in known : c.height # b.height
    BY <1>3 DEF HeightsNew, Fresh
  <2>4. (\A a, c \in known : a.height = c.height => a = c)'
    BY <2>1, <2>3 DEF OneAtHeight
  <2>5. \A h \in Cached' : [height |-> h, fork |-> memory'[h]] \in known'
    <3>1. b = [height |-> b.height, fork |-> b.fork] /\ b.height \in Heights
      BY <1>t
    <3>2. QED
      BY <1>t, <2>1, <3>1 DEF OneAtHeight, Cached
  <2>6. ReadsKnown' /\ ReadsRight'
    BY <2>1 DEF OneAtHeight, ReadsKnown, ReadsRight
  <2>7. CacheCurrent'
    BY <1>t, <2>1, <2>2 DEF OneAtHeight, CacheCurrent, Cached
  <2>8. QED
    BY <2>1, <2>2, <2>4, <2>5, <2>6, <2>7 DEF OneAtHeight
<1>4. ASSUME NEW w \in Writers, Write(w) PROVE OneAtHeight'
  <2>1. ASSUME NEW b \in BsBlock, Add(w, b), NEW f \in Forks, AddMined(w, f),
               b = [height |-> writer[w].height, fork |-> f]
        PROVE  OneAtHeight'
    BY <1>3, <2>1 DEF AddMined, Mining
  <2>2. \A b : ~ AddImported(w, b)
    BY DEF AddImported
  <2>3. QED
    BY <1>2, <1>4, <2>1, <2>2, WriteQueues
<1>5. ASSUME NEW r \in Readers, Read(r) PROVE OneAtHeight'
  <2>1. UNCHANGED <<db, memory, known, failures>>
    BY <1>5, ReadQueues
  <2>2. Queued' = Queued /\ NoWipe'
    <3>1. UNCHANGED queue \/ queue' = Append(queue, Get(r)) \/ queue' = Append(queue, Lookup(r))
      BY <1>5, ReadQueues
    <3>2. UNCHANGED queue => Queued' = Queued
      BY DEF Queued, Puts
    <3>3. Get(r).kind # "clear" /\ Lookup(r).kind # "clear"
          /\ Get(r) \in Request /\ Lookup(r) \in Request
          /\ Get(r).kind # "put" /\ Lookup(r).kind # "put"
      BY RequestsMade
    <3>4. QED
      BY <1>q, <3>1, <3>2, <3>3, WipeFree DEF OneAtHeight
  <2> DEFINE Good(v) == /\ reader' = [reader EXCEPT ![r] = v]
                        /\ v.pc = "looking" => v.got = Absent
                        /\ v.pc = "reading" /\ v.want # Absent => HashOf(v) \in known
                        /\ v.pc = "done" /\ v.want # Absent /\ v.got # Absent => v.got = v.want
  <2>3. PICK v : Good(v)
    <3>1. PICK h \in Heights, want \in Slot :
            \/ /\ memory[h] # Absent
               /\ \E s \in BOOLEAN : reader' = [reader EXCEPT ![r] =
                    [pc |-> "done", height |-> h, want |-> want, sure |-> s,
                     got |-> memory[h]]]
               /\ want # Absent => [height |-> h, fork |-> want] \in known
            \/ /\ \E s \in BOOLEAN : reader' = [reader EXCEPT ![r] =
                    [pc |-> "reading", height |-> h, want |-> want, sure |-> s,
                     got |-> Absent]]
               /\ want # Absent => [height |-> h, fork |-> want] \in known
            \/ \E s \in BOOLEAN : reader' = [reader EXCEPT ![r] =
                    [pc |-> "looking", height |-> h, want |-> want, sure |-> s,
                     got |-> Absent]]
      BY <1>5, ReadQueues
    <3>2. ASSUME memory[h] # Absent, want # Absent, [height |-> h, fork |-> want] \in known
          PROVE  memory[h] = want
      <4>1. [height |-> h, fork |-> memory[h]] \in known
        BY <3>2 DEF OneAtHeight, Cached
      <4>2. [height |-> h, fork |-> memory[h]] = [height |-> h, fork |-> want]
        BY <3>2, <4>1 DEF OneAtHeight
      <4>3. [height |-> h, fork |-> memory[h]].fork = [height |-> h, fork |-> want].fork
        BY <4>2
      <4>4. QED
        BY <4>3
    <3>3. CASE memory[h] # Absent /\ (want # Absent => [height |-> h, fork |-> want] \in known)
               /\ \E s \in BOOLEAN : reader' = [reader EXCEPT ![r] =
                    [pc |-> "done", height |-> h, want |-> want, sure |-> s,
                     got |-> memory[h]]]
      <4>1. PICK x \in BOOLEAN : reader' = [reader EXCEPT ![r] =
              [pc |-> "done", height |-> h, want |-> want, sure |-> x, got |-> memory[h]]]
        BY <3>3
      <4>2. Good([pc |-> "done", height |-> h, want |-> want, sure |-> x, got |-> memory[h]])
        BY <3>2, <3>3, <4>1
      <4> HIDE DEF Good
      <4>3. QED
        BY <4>2
    <3>4. CASE (want # Absent => [height |-> h, fork |-> want] \in known)
               /\ \E s \in BOOLEAN : reader' = [reader EXCEPT ![r] =
                    [pc |-> "reading", height |-> h, want |-> want, sure |-> s,
                     got |-> Absent]]
      <4>1. PICK x \in BOOLEAN : reader' = [reader EXCEPT ![r] =
              [pc |-> "reading", height |-> h, want |-> want, sure |-> x, got |-> Absent]]
        BY <3>4
      <4>2. Good([pc |-> "reading", height |-> h, want |-> want, sure |-> x, got |-> Absent])
        BY <3>4, <4>1 DEF HashOf
      <4> HIDE DEF Good
      <4>3. QED
        BY <4>2
    <3>5. CASE \E s \in BOOLEAN : reader' = [reader EXCEPT ![r] =
                    [pc |-> "looking", height |-> h, want |-> want, sure |-> s,
                     got |-> Absent]]
      <4>1. PICK x \in BOOLEAN : reader' = [reader EXCEPT ![r] =
              [pc |-> "looking", height |-> h, want |-> want, sure |-> x, got |-> Absent]]
        BY <3>5
      <4>2. Good([pc |-> "looking", height |-> h, want |-> want, sure |-> x, got |-> Absent])
        BY <4>1
      <4> HIDE DEF Good
      <4>3. QED
        BY <4>2
    <3>6. QED
      BY <3>1, <3>3, <3>4, <3>5
  <2>4. reader'[r] = v /\ \A s \in Readers \ {r} : reader'[s] = reader[s]
    BY <1>t, <2>3
  <2>5. ReadsKnown' /\ ReadsRight'
    BY <2>1, <2>3, <2>4 DEF OneAtHeight, ReadsKnown, ReadsRight
  <2>6. QED
    BY <2>1, <2>2, <2>5 DEF OneAtHeight, CacheCurrent, Cached
<1>6. ASSUME NEW i \in DOMAIN queue, Fill(i) PROVE OneAtHeight'
  <2>1. /\ UNCHANGED <<db, known, failures>> /\ Answer(i) /\ queue[i].kind = "get"
        /\ queue[i].by \in Readers
    BY <1>6, AnswerQueues DEF Fill, countVars
  <2>2. Queued' = Queued /\ NoWipe'
    BY <2>1, QueuedLeft, WipeFree DEF OneAtHeight
  <2> DEFINE r == queue[i].by
             h == reader[r].height
             f == db.blocks[h]
  <2>3. reader[r].pc = "reading" /\ h \in Heights /\ up
    BY <1>t, <1>u, <2>1, QueueShape, EmptySeq DEF ReadsTracked, IsRead
  <2>4. /\ reader' = [reader EXCEPT ![r].pc = "done", ![r].got = f]
        /\ f = Absent => UNCHANGED memory
        /\ f # Absent => memory' = [memory EXCEPT ![h] = f]
    BY <1>6 DEF Fill
  <2>5. f # Absent => [height |-> h, fork |-> f] \in known
    BY <1>k, <2>3
  <2>6. f # Absent /\ reader[r].want # Absent => f = reader[r].want
    <3>1. HashOf(reader[r]) = [height |-> h, fork |-> reader[r].want]
      BY DEF HashOf
    <3>2. ASSUME f # Absent, reader[r].want # Absent PROVE f = reader[r].want
      <4>1. [height |-> h, fork |-> reader[r].want] \in known
        BY <2>1, <2>3, <3>1, <3>2 DEF OneAtHeight, ReadsKnown
      <4>2. [height |-> h, fork |-> f] = [height |-> h, fork |-> reader[r].want]
        BY <2>5, <3>2, <4>1 DEF OneAtHeight
      <4>3. [height |-> h, fork |-> f].fork = [height |-> h, fork |-> reader[r].want].fork
        BY <4>2
      <4>4. QED
        BY <4>3
    <3>3. QED
      BY <3>2
  <2>7. /\ reader'[r].pc = "done" /\ reader'[r].got = f /\ reader'[r].want = reader[r].want
        /\ \A s \in Readers \ {r} : reader'[s] = reader[s]
    BY <1>t, <2>1, <2>4 DEF ReadState
  <2> HIDE DEF f, h, r
  <2>8. ReadsKnown' /\ ReadsRight'
    BY <2>1, <2>6, <2>7 DEF OneAtHeight, ReadsKnown, ReadsRight
  <2>9. \A g \in Cached' : /\ [height |-> g, fork |-> memory'[g]] \in known'
                           /\ \/ g \in Cached /\ memory'[g] = memory[g]
                              \/ memory'[g] = db.blocks[g]
    <3>1. CASE f = Absent
      BY <2>1, <2>4, <3>1 DEF OneAtHeight, Cached
    <3>2. CASE f # Absent
      <4>1. \A g \in Heights : memory'[g] = IF g = h THEN f ELSE memory[g]
        BY <1>t, <2>4, <3>2
      <4>2. f = db.blocks[h]
        BY DEF f
      <4>3. QED
        BY <2>1, <2>5, <3>2, <4>1, <4>2 DEF OneAtHeight, Cached
    <3>3. QED
      BY <3>1, <3>2
  <2>10. CacheCurrent'
    BY <2>1, <2>2, <2>9 DEF OneAtHeight, CacheCurrent
  <2>11. QED
    BY <2>1, <2>2, <2>8, <2>9, <2>10 DEF OneAtHeight
<1>7. ASSUME NEW i \in DOMAIN queue, LookupMisses(i) \/ ReadFails(i) PROVE OneAtHeight'
  <2>1. /\ UNCHANGED <<db, known, memory>> /\ Answer(i) /\ queue[i].by \in Readers
        /\ failures' = 0 => failures = 0
    BY <1>7, <1>t, AnswerQueues DEF LookupMisses, ReadFails, memVars, countVars
  <2>2. Queued' = Queued /\ NoWipe'
    BY <2>1, QueuedLeft, WipeFree DEF OneAtHeight
  <2> DEFINE r == queue[i].by
  <2>3. CASE LookupMisses(i)
    <3>1. reader[r].pc = "looking" /\ reader' = [reader EXCEPT ![r].pc = "done"]
      BY <2>3 DEF LookupMisses, ReadsTracked, IsRead
    <3>2. /\ reader'[r].pc = "done" /\ reader'[r].got = Absent
          /\ \A s \in Readers \ {r} : reader'[s] = reader[s]
      BY <1>t, <2>1, <3>1 DEF ReadState, OneAtHeight, ReadsKnown
    <3>3. ReadsKnown' /\ ReadsRight'
      BY <2>1, <3>2 DEF OneAtHeight, ReadsKnown, ReadsRight
    <3>4. QED
      BY <2>1, <2>2, <3>3 DEF OneAtHeight, CacheCurrent, Cached
  <2>4. CASE ReadFails(i)
    <3>1. /\ reader'[r].pc = "idle" /\ \A s \in Readers \ {r} : reader'[s] = reader[s]
      BY <1>t, <2>1, <2>4 DEF ReadFails, NoRead
    <3>2. ReadsKnown' /\ ReadsRight'
      BY <2>1, <3>1 DEF OneAtHeight, ReadsKnown, ReadsRight
    <3>3. QED
      BY <2>1, <2>2, <3>2 DEF OneAtHeight, CacheCurrent, Cached
  <2>5. QED
    BY <1>7, <2>3, <2>4
<1>8. ASSUME CommitPut PROVE OneAtHeight'
  <2> DEFINE p == Head(queue)
  <2>1. /\ UNCHANGED <<known, reader, failures>> /\ Settle /\ p \in Queued /\ Evict
        /\ db' = Written(p) /\ up
    BY <1>8, <1>u, HeadQueued DEF CommitPut, countVars, Settle
  <2>2. NoWipe' /\ Queued \subseteq Queued' \cup {p}
    BY <2>1, QueuedLeft, WipeFree DEF OneAtHeight
  <2>3. /\ p.block \in known /\ p.block \in BsBlock
        /\ db'.hashes = db.hashes \cup {p.block}
        /\ db'.blocks = [db.blocks EXCEPT ![p.block.height] = p.block.fork]
    BY <1>k, <1>t, <2>1 DEF Written
  <2> HIDE DEF p
  <2>4. \A h \in Heights : db'.blocks[h] = IF h = p.block.height THEN p.block.fork
                                           ELSE db.blocks[h]
    BY <1>t, <2>3
  <2>5. \A b \in db'.hashes : db'.blocks[b.height] = b.fork
    <3>1. \A b \in db.hashes : b \in known /\ b \in BsBlock
      BY <1>k, <1>t, <2>1
    <3>2. \A b \in db'.hashes : b.height = p.block.height => b = p.block
      BY <2>3, <3>1 DEF OneAtHeight
    <3>3. QED
      BY <1>t, <2>3, <2>4, <3>1, <3>2 DEF OneAtHeight
  <2>6. \A h \in Cached' : h \in Cached /\ memory'[h] = memory[h]
    BY <2>1, EvictShrinks DEF Cached
  <2>7. CacheCurrent'
    <3> SUFFICES ASSUME failures = 0, NEW h \in Cached'
                 PROVE  memory'[h] = db'.blocks[h] \/ \E q \in Queued' : q.block.height = h
      BY <2>1 DEF CacheCurrent
    <3>1. h \in Cached /\ memory'[h] = memory[h] /\ h \in Heights
      BY <2>6 DEF Cached
    <3>2. CASE h = p.block.height
      <4>1. [height |-> h, fork |-> memory[h]] \in known
        BY <3>1 DEF OneAtHeight
      <4>2. [height |-> h, fork |-> memory[h]] = p.block
        BY <2>3, <3>2, <4>1 DEF OneAtHeight
      <4>3. [height |-> h, fork |-> memory[h]].fork = p.block.fork
        BY <4>2
      <4>4. QED
        BY <2>4, <3>1, <3>2, <4>3
    <3>3. CASE h # p.block.height
      BY <2>2, <2>4, <3>1, <3>3 DEF OneAtHeight, CacheCurrent
    <3>4. QED
      BY <3>2, <3>3
  <2>8. ReadsKnown' /\ ReadsRight'
    BY <2>1 DEF OneAtHeight, ReadsKnown, ReadsRight
  <2>9. QED
    BY <2>1, <2>2, <2>5, <2>6, <2>7, <2>8 DEF OneAtHeight
<1>9. ASSUME CommitFails PROVE OneAtHeight'
  <2>1. /\ UNCHANGED <<db, known, memory, reader>> /\ failures' # 0 /\ Settle
    BY <1>9, <1>t DEF CommitFails, memVars
  <2>2. NoWipe'
    BY <2>1, WipeFree DEF OneAtHeight
  <2>3. QED
    BY <2>1, <2>2 DEF OneAtHeight, ReadsKnown, CacheCurrent, ReadsRight, Cached
<1>10. ASSUME Clear \/ ClearSettles PROVE FALSE
  BY <1>10, QueueSettled DEF Clear, ClearSettles, OneAtHeight, NoWipe
<1>11. ASSUME Crash PROVE OneAtHeight'
  <2>1. /\ queue' = <<>> /\ known' = {} /\ Cached' = {} /\ UNCHANGED db
        /\ reader' = [r \in Readers |-> NoRead]
    BY <1>11 DEF Crash, Cached
  <2>2. NoWipe'
    BY <2>1, WipeFree DEF OneAtHeight
  <2>3. QED
    BY <2>1, <2>2 DEF OneAtHeight, ReadsKnown, CacheCurrent, ReadsRight, NoRead
<1>12. ASSUME Start PROVE OneAtHeight'
  <2>1. UNCHANGED <<db, queue, reader, failures>> /\ known = {} /\ Cached = {}
    BY <1>12 DEF Start, DownIsEmpty, countVars
  <2>2. known' \subseteq db.hashes
    BY <1>12, <2>1 DEF Start, Load, LoadedHashes
  <2>3. \A h \in Cached' : memory'[h] = db.blocks[h] /\ [height |-> h, fork |-> memory'[h]] \in known'
    <3>1. CASE db.latest = 0
      BY <1>12, <2>1, <3>1 DEF Start, Cached
    <3>2. CASE db.latest # 0
      <4>1. /\ memory' = [h \in Heights |-> IF h \in Window THEN db.blocks[h] ELSE Absent]
            /\ known' = db.hashes
        BY <1>12, <3>2, Zenon DEF Start, Load, LoadedHashes
      <4>2. QED
        BY <1>k, <4>1 DEF Cached
    <3>3. QED
      BY <3>1, <3>2
  <2>4. (\A b, c \in known : b.height = c.height => b = c)'
    <3>1. ASSUME NEW b \in db.hashes, NEW c \in db.hashes, b.height = c.height PROVE b = c
      <4>1. b.fork = c.fork
        BY <3>1 DEF OneAtHeight
      <4>2. b = [height |-> b.height, fork |-> b.fork] /\ c = [height |-> c.height, fork |-> c.fork]
        BY <1>t
      <4>3. QED
        BY <3>1, <4>1, <4>2
    <3>2. QED
      BY <2>2, <3>1
  <2>5. ReadsKnown'
    <3>1. \A r \in Readers : reader[r].pc = "reading" /\ reader[r].want # Absent => FALSE
      BY <2>1 DEF OneAtHeight, ReadsKnown
    <3>2. QED
      BY <2>1, <3>1 DEF OneAtHeight, ReadsKnown
  <2>6. NoWipe'
    BY <2>1, WipeFree DEF OneAtHeight
  <2>7. QED
    BY <2>1, <2>3, <2>4, <2>5, <2>6 DEF OneAtHeight, CacheCurrent, ReadsRight
<1>13. ASSUME UNCHANGED bsVars PROVE OneAtHeight'
  BY <1>1, <1>13 DEF bsVars, memVars, procVars, countVars
<1>14. QED
  BY <1>4, <1>5, <1>6, <1>7, <1>8, <1>9, <1>10, <1>11, <1>12, <1>13 DEF Calm

OneInv == NewInv /\ OneAtHeight

LEMMA OneInvariant == ~Importing /\ ~Clearing => (BsSpec => [](broken \/ OneInv))
<1> SUFFICES ASSUME ~Importing, ~Clearing PROVE BsSpec => [](broken \/ OneInv)
  OBVIOUS
<1>1. BsInit => OneAtHeight
  BY DEF BsInit, OneAtHeight, NoWipe, ReadsKnown, CacheCurrent, ReadsRight, Cached, NoRead,
         EmptyDb
<1>2. /\ broken \/ NewInv
      /\ broken \/ OneAtHeight
      /\ [BsNext]_bsVars
      => (broken \/ OneAtHeight)'
  <2> SUFFICES ASSUME broken \/ NewInv, broken \/ OneAtHeight, [BsNext]_bsVars, ~broken'
               PROVE  OneAtHeight'
    BY Zenon
  <2>1. NewInv /\ OneAtHeight
    BY BrokenStays, Zenon
  <2>2. [Calm]_bsVars
    BY <2>1, CalmOrBroken, StoreAssumption DEF NewInv
  <2>3. QED
    BY <2>1, <2>2, OneStep, StoreAssumption
<1>3. QED
  BY <1>1, <1>2, NewInvariant, PTL DEF BsSpec, OneInv

(* Where blocks are only mined and none wiped, a read by hash returns the
   block with that hash or nothing until a start is left half done, and until
   the first failure a cached block whose write settled is the stored one,
   with any number of writers and readers: no delayed fill brings back an
   older block.                                                             *)
THEOREM NoStaleReads == ~Importing /\ ~Clearing => (BsSpec => []ReadsAreCurrent)
<1>1. (broken \/ OneInv) /\ (broken => failures # 0) => ReadsAreCurrent
  <2>1. OneInv => CacheCurrent /\ ReadsRight /\ BsTypeOK
    BY DEF OneInv, OneAtHeight, NewInv, KnownInv, RiseInv, ReadInv
  <2>2. OneInv => ReadsAreCurrent
    BY <2>1, CurrentIsCurrent
  <2>3. broken /\ failures # 0 => ReadsAreCurrent
    BY Zenon DEF ReadsAreCurrent
  <2>4. QED
    BY <2>2, <2>3, Zenon
<1>2. QED
  BY <1>1, OneInvariant, BrokenCounts, PTL

-----------------------------------------------------------------------------
(* The meta record, where one writer mines.                                 *)
(*                                                                          *)
(* Then one write at most is on its way, its block is the newest, and the   *)
(* record it carries is its own height.                                     *)

OneWriter == \A v, w \in Writers : v = w

MetaCurrent ==
  /\ NoWipe
  /\ latestHeight <= vmHeight
  /\ \A w \in Writers : Mining(w) =>
       writer[w].height = vmHeight /\ latestHeight < vmHeight
  /\ \A i, j \in Puts : i = j
  /\ Queued # {} => \A w \in Writers : writer[w].pc = "storing"
  /\ \A p \in Queued : p.latest = p.block.height
  /\ failures = 0 =>
       /\ db.oldest <= db.latest
       /\ up /\ Queued = {} => oldestHeight = db.oldest
       /\ \A p \in Queued :
            /\ oldestHeight = IF p.first THEN p.block.height ELSE db.oldest
            /\ p.first => \A h \in Heights : db.blocks[h] = Absent
            /\ ~p.first => db.oldest \in 1..p.block.height
  /\ MetaMatchesBlocks

LEMMA OnePutLeft ==
  ASSUME BsTypeOK, \A i, j \in Puts : i = j
  PROVE  /\ Settle /\ Head(queue).kind = "put" => Puts' = {} /\ Queued' = {}
         /\ \A i \in DOMAIN queue : Answer(i) => \A j, k \in Puts' : j = k
         /\ UNCHANGED queue => \A j, k \in Puts' : j = k
         /\ \A q \in Request : queue' = Append(queue, q) /\ (q.kind = "put" => Queued = {})
                               => \A j, k \in Puts' : j = k
<1>1. ASSUME Settle, Head(queue).kind = "put" PROVE Puts' = {} /\ Queued' = {}
  <2>1. 1 \in Puts /\ \A i \in Puts' : i \in Nat \ {0} /\ i + 1 \in Puts
    BY <1>1, QueueSettled DEF Puts
  <2>2. QED
    BY <2>1 DEF Queued
<1>2. ASSUME NEW i \in DOMAIN queue, Answer(i), NEW j \in Puts', NEW k \in Puts'
      PROVE  j = k
  <2>1. From(i, j) = From(i, k) /\ j \in Nat /\ k \in Nat
    BY <1>2, QueueAnswered DEF Puts
  <2>2. i \in Nat
    BY QueueShape
  <2>3. QED
    BY <2>1, <2>2 DEF From
<1>3. UNCHANGED queue => \A j, k \in Puts' : j = k
  BY DEF Puts
<1>4. ASSUME NEW q \in Request, queue' = Append(queue, q), q.kind = "put" => Queued = {}
      PROVE  \A j, k \in Puts' : j = k
  <2>1. /\ DOMAIN queue' = DOMAIN queue \cup {End} /\ queue'[End] = q
        /\ \A i \in DOMAIN queue : queue'[i] = queue[i]
    BY <1>4, QueueAppended
  <2>2. \A j \in Puts' : j \in Puts \/ (j = End /\ q.kind = "put")
    BY <2>1 DEF Puts
  <2>3. q.kind = "put" => Puts = {}
    BY <1>4 DEF Queued
  <2>4. QED
    BY <2>2, <2>3
<1>5. QED
  BY <1>1, <1>2, <1>3, <1>4

LEMMA MetaStep ==
  ASSUME StoreAssumption, BsTypeOK, DownIsEmpty, failures = 0 => NewInv, MetaCurrent,
         OneWriter, ~Importing, ~Clearing, [BsNext]_bsVars
  PROVE  MetaCurrent'
<1>n. failures = 0 => HeightsNew /\ WritesRise
  BY DEF NewInv, KnownInv, RiseInv
<1>t. /\ failures \in Nat /\ vmHeight \in Nat /\ latestHeight \in Nat /\ oldestHeight \in Nat
      /\ db.latest \in Nat /\ db.oldest \in Nat
      /\ db.blocks \in [Heights -> Slot] /\ writer \in [Writers -> WriteState]
      /\ \A h \in Heights : h \in Nat \ {0}
      /\ \A b \in BsBlock : b.height \in Heights /\ b.fork # Absent
  BY PutHeights, StoreAssumption DEF BsTypeOK, Database, BsBlock, StoreAssumption
<1>1. ASSUME UNCHANGED <<up, db, latestHeight, oldestHeight, vmHeight, writer>>,
             NoWipe', Queued' = Queued, \A i, j \in Puts' : i = j,
             failures' = 0 => failures = 0
      PROVE  MetaCurrent'
  BY <1>1 DEF MetaCurrent, MetaMatchesBlocks, Mining
<1>q. ASSUME NEW q \in Request, q.kind # "put", queue' = Append(queue, q)
      PROVE  Queued' = Queued
  BY <1>q, QueuedGrows
<1>2. ASSUME NEW w \in Writers, TakeHeight(w) PROVE MetaCurrent'
  <2>1. /\ UNCHANGED <<up, db, latestHeight, oldestHeight, failures, queue>>
        /\ writer[w].pc = "idle" /\ vmHeight' = vmHeight + 1
        /\ writer' = [writer EXCEPT ![w] = [pc |-> "mining", height |-> vmHeight']]
    BY <1>2 DEF TakeHeight, memVars, countVars
  <2>2. Queued' = Queued /\ Queued = {} /\ (\A i, j \in Puts' : i = j) /\ NoWipe'
    BY <2>1 DEF Queued, Puts, MetaCurrent, NoWipe
  <2>5. latestHeight' <= vmHeight' /\ latestHeight' < vmHeight'
    BY <1>t, <2>1 DEF MetaCurrent
  <2>3. \A v \in Writers : v = w /\ writer'[v].height = vmHeight'
    BY <1>t, <2>1 DEF OneWriter
  <2>4. QED
    BY <2>1, <2>2, <2>3, <2>5 DEF MetaCurrent, MetaMatchesBlocks
<1>3. ASSUME NEW w \in Writers, MineAborts(w) PROVE MetaCurrent'
  <2>1. /\ UNCHANGED <<up, db, latestHeight, oldestHeight, vmHeight, queue>>
        /\ failures' # 0
        /\ writer' = [writer EXCEPT ![w] = NoWrite] /\ writer[w].pc = "mining"
    BY <1>3, <1>t DEF MineAborts, memVars
  <2>2. Queued' = Queued /\ Queued = {} /\ (\A i, j \in Puts' : i = j) /\ NoWipe'
    BY <2>1 DEF Queued, Puts, MetaCurrent, NoWipe
  <2>3. \A v \in Writers : writer'[v].pc = "idle"
    BY <1>t, <2>1 DEF OneWriter, NoWrite
  <2>4. QED
    BY <2>1, <2>2, <2>3 DEF MetaCurrent, MetaMatchesBlocks, Mining
<1>4. ASSUME NEW w \in Writers, NEW b \in BsBlock, Add(w, b), Mining(w), b.height = writer[w].height
      PROVE  MetaCurrent'
  <2>1. /\ up /\ UNCHANGED <<up, db, vmHeight, failures>>
        /\ latestHeight' = IF b.height > latestHeight THEN b.height ELSE latestHeight
        /\ oldestHeight' = IF oldestHeight = 0 THEN b.height ELSE oldestHeight
        /\ writer' = [writer EXCEPT ![w] = [pc |-> "storing", height |-> b.height]]
        /\ queue' = Append(queue, Put(w, b))
    BY <1>4 DEF Add
  <2>2. Queued = {} /\ b.height = vmHeight
    BY <1>4 DEF MetaCurrent, Mining
  <2>3. /\ Queued' = {Put(w, b)} /\ Put(w, b).block = b /\ Put(w, b).latest = latestHeight'
        /\ Put(w, b).first = (oldestHeight = 0)
    BY <1>4, <2>1, <2>2, QueuedGrows, RequestsMade
  <2>4. \A i, j \in Puts' : i = j
    BY <1>4, <2>1, <2>2, RequestsMade, OnePutLeft DEF MetaCurrent
  <2>9. latestHeight < b.height
    BY <1>4, <2>2 DEF MetaCurrent
  <2>5. latestHeight' = b.height /\ latestHeight' <= vmHeight'
    BY <1>t, <2>1, <2>2, <2>9
  <2>10. NoWipe'
    BY <1>4, <2>1, RequestsMade, WipeFree DEF MetaCurrent
  <2>6. \A v \in Writers : writer'[v].pc = "storing"
    BY <1>t, <2>1 DEF OneWriter
  <2>7. ASSUME failures = 0
        PROVE  /\ oldestHeight' = IF oldestHeight = 0 THEN b.height ELSE db.oldest
               /\ oldestHeight = 0 => \A h \in Heights : db.blocks[h] = Absent
               /\ oldestHeight # 0 => db.oldest \in 1..b.height
    <3>1. oldestHeight = db.oldest
      BY <2>1, <2>2, <2>7 DEF MetaCurrent
    <3>2. db.oldest <= db.latest /\ db.latest <= b.height
      BY <1>n, <2>1, <2>2, <2>7 DEF MetaCurrent, HeightsNew
    <3>3. \A h \in Heights : db.blocks[h] # Absent => db.oldest # 0
      BY <1>t, <2>7 DEF MetaCurrent, MetaMatchesBlocks
    <3>4. b.height \in Nat
      BY <1>t
    <3>5. oldestHeight # 0 => db.oldest \in 1..b.height
      BY <1>t, <3>1, <3>2, <3>4
    <3>6. QED
      BY <2>1, <3>1, <3>3, <3>5
  <2>8. QED
    BY <2>1, <2>3, <2>4, <2>5, <2>6, <2>7, <2>10 DEF MetaCurrent, MetaMatchesBlocks, Mining
<1>5. ASSUME NEW w \in Writers, Write(w) PROVE MetaCurrent'
  <2>1. ASSUME NEW b \in BsBlock, Add(w, b), NEW f \in Forks, AddMined(w, f),
               b = [height |-> writer[w].height, fork |-> f]
        PROVE  MetaCurrent'
    BY <1>4, <2>1 DEF AddMined, Mining
  <2>2. \A b : ~ AddImported(w, b)
    BY DEF AddImported
  <2>3. QED
    BY <1>2, <1>3, <1>5, <2>1, <2>2, WriteQueues
<1>6. ASSUME NEW r \in Readers, Read(r) PROVE MetaCurrent'
  <2>1. UNCHANGED <<up, db, latestHeight, oldestHeight, vmHeight, writer, failures>>
    BY <1>6, ReadQueues
  <2>2. UNCHANGED queue \/ queue' = Append(queue, Get(r)) \/ queue' = Append(queue, Lookup(r))
    BY <1>6, ReadQueues
  <2>3. Get(r).kind # "put" /\ Lookup(r).kind # "put" /\ Get(r) \in Request /\ Lookup(r) \in Request
    BY RequestsMade
  <2>4. Queued' = Queued
    <3>1. UNCHANGED queue => Queued' = Queued
      BY DEF Queued, Puts
    <3>2. QED
      BY <1>q, <2>2, <2>3, <3>1
  <2>5. \A i, j \in Puts' : i = j
    BY <2>2, <2>3, OnePutLeft DEF MetaCurrent
  <2>6. NoWipe'
    BY <2>2, <2>3, RequestsMade, WipeFree DEF MetaCurrent
  <2>7. QED
    BY <1>1, <2>1, <2>4, <2>5, <2>6
<1>7. ASSUME NEW i \in DOMAIN queue, Fill(i) \/ LookupMisses(i) \/ ReadFails(i)
      PROVE  MetaCurrent'
  <2>1. UNCHANGED <<up, db, latestHeight, oldestHeight, vmHeight, writer>> /\ Answer(i)
    BY <1>7 DEF Fill, LookupMisses, ReadFails, memVars
  <2>f. failures' = 0 => failures = 0
    BY <1>7, <1>t DEF Fill, LookupMisses, ReadFails, countVars
  <2>2. Queued' = Queued /\ (\A j, k \in Puts' : j = k) /\ NoWipe'
    BY <2>1, QueuedLeft, OnePutLeft, WipeFree DEF MetaCurrent
  <2>3. QED
    BY <1>1, <2>1, <2>f, <2>2
<1>14. ASSUME NEW i \in DOMAIN queue, LookupHits(i) PROVE MetaCurrent'
  <2> DEFINE w == Without(queue, i)
             r == queue[i].by
  <2>1. /\ UNCHANGED <<up, db, latestHeight, oldestHeight, vmHeight, writer, failures>>
        /\ w \in Seq(Request) /\ r \in Readers /\ queue[i].kind = "lookup"
        /\ queue' = w \/ queue' = Append(w, Get(r))
    BY <1>14, HitType DEF LookupHits, Seek, countVars
  <2>2. /\ queue \in Seq(Request) /\ DOMAIN queue = 1..Len(queue) /\ Len(queue) \in Nat
        /\ i \in 1..Len(queue)
    BY LenProperties DEF BsTypeOK
  <2>3. /\ Len(w) = Len(queue) - 1
        /\ \A j \in 1..(Len(queue) - 1) : w[j] = queue[From(i, j)]
    BY <2>2, WithoutEntry DEF From
  <2>4. Get(r) \in Request /\ Get(r).kind = "get"
    BY <2>1, RequestsMade
  <2> HIDE DEF w, r
  <2>5. /\ \A j \in 1..(Len(queue) - 1) : queue'[j] = w[j]
        /\ Len(queue') \in {Len(queue) - 1, Len(queue)}
        /\ DOMAIN queue' = 1..Len(queue')
        /\ Len(queue') = Len(queue) => queue'[Len(queue)] = Get(r)
    <3>1. CASE queue' = w
      <4>1. /\ Len(queue') = Len(queue) - 1 /\ DOMAIN queue' = 1..Len(queue')
            /\ \A j \in 1..(Len(queue) - 1) : queue'[j] = w[j]
        <5>1. DOMAIN w = 1..Len(w)
          BY <2>1, LenProperties
        <5>2. QED
          BY <2>3, <3>1, <5>1, Zenon
      <4>2. Len(queue') # Len(queue)
        <5>1. \A n \in Nat : n - 1 # n
          OBVIOUS
        <5>2. QED
          BY <2>2, <4>1, <5>1, Zenon
      <4>3. QED
        BY <4>1, <4>2
    <3>2. CASE queue' = Append(w, Get(r))
      <4>1. /\ queue' \in Seq(Request) /\ Len(queue') = Len(w) + 1
            /\ \A j \in 1..Len(w) : queue'[j] = w[j]
            /\ queue'[Len(w) + 1] = Get(r)
        BY <2>1, <2>4, <3>2, AppendProperties
      <4>2. DOMAIN queue' = 1..Len(queue')
        BY <4>1, LenProperties
      <4>3. QED
        BY <2>2, <2>3, <4>1, <4>2
    <3>3. QED
      BY <2>1, <3>1, <3>2
  <2>6. ASSUME NEW j \in DOMAIN queue', queue'[j].kind # "get"
        PROVE  /\ j \in 1..(Len(queue) - 1) /\ From(i, j) \in DOMAIN queue
               /\ queue'[j] = queue[From(i, j)]
    <3>1. ASSUME Len(queue') = Len(queue) PROVE j \in 1..(Len(queue) - 1)
      <4>1. j \in 1..Len(queue) /\ Len(queue) \in Nat
        <5>1. DOMAIN queue' = 1..Len(queue)
          BY <2>5, <3>1
        <5>2. QED
          BY <2>2, <5>1
      <4>2. j # Len(queue)
        BY <2>4, <2>5, <2>6, <3>1, Zenon
      <4>3. QED
        BY <4>1, <4>2, BeforeLast
    <3>2. j \in 1..(Len(queue) - 1)
      BY <2>5, <3>1
    <3>3. QED
      BY <2>2, <2>3, <2>5, <3>2, FromIndex
  <2>7. ASSUME NEW k \in Puts
        PROVE  \E j \in Puts' : queue'[j] = queue[k]
    <3> DEFINE j == IF k < i THEN k ELSE k - 1
    <3>1. k \in 1..Len(queue) /\ queue[k].kind = "put" /\ k # i
      BY <2>1, <2>2 DEF Puts
    <3>2. j \in 1..(Len(queue) - 1) /\ From(i, j) = k
      BY <2>2, <3>1 DEF From
    <3> HIDE DEF j
    <3>3. queue'[j] = queue[k]
      BY <2>3, <2>5, <3>2
    <3>5. j \in DOMAIN queue'
      <4>1. j \in 1..Len(queue)
        BY <2>2, <3>2
      <4>2. QED
        BY <2>5, <3>2, <4>1
    <3>4. QED
      BY <3>1, <3>3, <3>5 DEF Puts
  <2>8. Queued' = Queued
    <3>1. Queued' \subseteq Queued
      BY <2>6 DEF Queued, Puts
    <3>2. Queued \subseteq Queued'
      BY <2>7 DEF Queued
    <3>3. QED
      BY <3>1, <3>2
  <2>9. ASSUME NEW j \in Puts', NEW k \in Puts' PROVE j = k
    <3>1. ASSUME NEW m \in Puts'
          PROVE  m \in 1..(Len(queue) - 1) /\ From(i, m) \in Puts
      BY <2>6, <3>1 DEF Puts
    <3>2. From(i, j) = From(i, k)
      BY <3>1 DEF MetaCurrent
    <3>3. QED
      BY <2>2, <3>1, <3>2, FromIndex
  <2>10. NoWipe'
    BY <2>6 DEF MetaCurrent, NoWipe
  <2>11. QED
    BY <1>1, <2>1, <2>8, <2>9, <2>10
<1>8. ASSUME CommitPut \/ CommitFails PROVE MetaCurrent'
  <2> DEFINE p == Head(queue)
  <2>1. /\ UNCHANGED <<up, latestHeight, oldestHeight, vmHeight>> /\ Settle
        /\ p.kind = "put" /\ up
        /\ writer' = [writer EXCEPT ![p.by] = NoWrite]
    BY <1>8 DEF CommitPut, CommitFails, memVars, DownIsEmpty, Settle
  <2>2. p \in Queued /\ Puts' = {} /\ Queued' = {} /\ NoWipe'
    BY <2>1, HeadQueued, OnePutLeft, WipeFree DEF MetaCurrent
  <2>3. /\ p.block \in BsBlock /\ p.latest = p.block.height /\ p.block.height \in Heights
    BY <1>t, <2>2, QueuedType DEF MetaCurrent
  <2>4. failures = 0 => db.latest <= p.latest
    <3>1. 1 \in Puts /\ p = queue[1]
      BY <2>1, QueueSettled DEF Puts
    <3>2. Unwiped(0, 1)
      BY DEF Unwiped, MetaCurrent, NoWipe
    <3>3. QED
      BY <1>n, <3>1, <3>2 DEF WritesRise
  <2>5. \A w \in Writers : ~ Mining(w)'
    BY <1>t, <2>1, <2>2 DEF MetaCurrent, NoWrite, Mining
  <2> HIDE DEF p
  <2>6. CASE CommitFails
    <3>1. UNCHANGED db /\ failures' # 0
      BY <1>t, <2>6 DEF CommitFails
    <3>2. QED
      BY <2>1, <2>2, <2>5, <3>1 DEF MetaCurrent, MetaMatchesBlocks
  <2>7. CASE CommitPut
    <3>1. /\ UNCHANGED failures /\ db'.latest = p.latest
          /\ db'.blocks = [db.blocks EXCEPT ![p.block.height] = p.block.fork]
          /\ db'.oldest = IF p.first THEN p.block.height ELSE db.oldest
      BY <2>7 DEF CommitPut, Written, countVars, p
    <3>2. /\ db'.blocks[p.block.height] # Absent
          /\ \A h \in Heights : h # p.block.height => db'.blocks[h] = db.blocks[h]
      BY <1>t, <2>3, <3>1
    <3>3. failures = 0 => db'.oldest <= db'.latest
      BY <1>t, <2>3, <2>4, <3>1 DEF MetaCurrent
    <3>4. failures = 0 => /\ oldestHeight = db'.oldest
                          /\ \A h \in Heights : db'.blocks[h] # Absent => db'.oldest \in 1..h
      <4> SUFFICES ASSUME failures = 0
                   PROVE  /\ oldestHeight = db'.oldest
                          /\ \A h \in Heights : db'.blocks[h] # Absent => db'.oldest \in 1..h
        OBVIOUS
      <4>1. /\ oldestHeight = IF p.first THEN p.block.height ELSE db.oldest
            /\ p.first => \A h \in Heights : db.blocks[h] = Absent
            /\ ~p.first => db.oldest \in 1..p.block.height
            /\ \A h \in Heights : db.blocks[h] # Absent => db.oldest \in 1..h
        BY <2>2 DEF MetaCurrent, MetaMatchesBlocks
      <4>2. CASE p.first
        BY <1>t, <2>3, <3>1, <3>2, <4>1, <4>2
      <4>3. CASE ~p.first
        BY <1>t, <2>3, <3>1, <3>2, <4>1, <4>3
      <4>4. QED
        BY <4>2, <4>3
    <3>5. MetaMatchesBlocks'
      BY <2>3, <3>1, <3>2, <3>4 DEF MetaMatchesBlocks
    <3>6. QED
      BY <2>1, <2>2, <2>5, <3>1, <3>3, <3>4, <3>5 DEF MetaCurrent
  <2>8. QED
    BY <1>8, <2>6, <2>7
<1>9. ASSUME Clear \/ ClearSettles \/ ClearFails PROVE FALSE
  BY <1>9, QueueSettled DEF Clear, ClearSettles, ClearFails, MetaCurrent, NoWipe
<1>10. ASSUME Crash PROVE MetaCurrent'
  <2>1. /\ UNCHANGED <<db, failures>> /\ ~up' /\ queue' = <<>>
        /\ latestHeight' = 0 /\ vmHeight' = 0
        /\ \A w \in Writers : ~ Mining(w)'
    BY <1>10 DEF Crash, Mining, NoWrite
  <2>2. Puts' = {} /\ Queued' = {} /\ NoWipe'
    BY <2>1 DEF Queued, Puts, NoWipe
  <2>3. QED
    BY <2>1, <2>2 DEF MetaCurrent, MetaMatchesBlocks
<1>11. ASSUME Start \/ StartUnread \/ StartPartly PROVE MetaCurrent'
  <2>1. /\ UNCHANGED db /\ queue' = <<>> /\ \A w \in Writers : ~ Mining(w)'
    BY <1>11 DEF Start, StartUnread, StartPartly, StartHalf, Mining, DownIsEmpty
  <2>2. Puts' = {} /\ Queued' = {} /\ NoWipe'
    BY <2>1 DEF Queued, Puts, NoWipe
  <2>3. latestHeight' <= vmHeight'
    BY <1>11, <1>t DEF Start, StartUnread, StartPartly, ResumeHeight, memVars
  <2>4. failures' = 0 => failures = 0 /\ oldestHeight' = db'.oldest
    BY <1>11, <1>t DEF Start, StartUnread, StartPartly, StartHalf, countVars
  <2>5. QED
    BY <2>1, <2>2, <2>3, <2>4 DEF MetaCurrent, MetaMatchesBlocks
<1>12. ASSUME UNCHANGED bsVars PROVE MetaCurrent'
  BY <1>1, <1>12 DEF bsVars, memVars, procVars, countVars, Queued, Puts, MetaCurrent, NoWipe
<1>13. QED
  BY <1>5, <1>6, <1>7, <1>8, <1>9, <1>10, <1>11, <1>12, <1>14 DEF BsNext

(* Where one writer mines and nothing is wiped, the height a restart resumes
   from belongs to a stored block, whatever write or start failed before, and
   until the first failure the recorded oldest height is no later than any
   stored block.                                                            *)
THEOREM MetaIsRight ==
  OneWriter /\ ~Importing /\ ~Clearing => (BsSpec => []MetaMatchesBlocks)
<1> SUFFICES ASSUME OneWriter, ~Importing, ~Clearing PROVE BsSpec => []MetaMatchesBlocks
  BY DEF OneWriter
<1>1. BsInit => MetaCurrent
  BY DEF BsInit, MetaCurrent, MetaMatchesBlocks, Mining, NoWrite, EmptyDb, Queued, Puts,
     NoWipe
<1>2. /\ BsTypeOK /\ DownIsEmpty
      /\ broken => failures # 0
      /\ broken \/ NewInv
      /\ MetaCurrent
      /\ [BsNext]_bsVars
      => MetaCurrent'
  <2> SUFFICES ASSUME BsTypeOK, DownIsEmpty, broken => failures # 0, broken \/ NewInv,
                      MetaCurrent, [BsNext]_bsVars
               PROVE  MetaCurrent'
    BY Zenon
  <2>1. failures = 0 => NewInv
    BY Zenon
  <2>2. QED
    BY <2>1, MetaStep, StoreAssumption
<1>3. MetaCurrent => MetaMatchesBlocks
  BY DEF MetaCurrent
<1>4. QED
  BY <1>1, <1>2, <1>3, TypeCorrect, DownInvariant, BrokenCounts, NewInvariant, PTL
     DEF BsSpec

-----------------------------------------------------------------------------
(* Eviction takes the least recently used.                                  *)
(*                                                                          *)
(* The recency list says how recently the cached heights were used only     *)
(* while none is in it twice.  A read that was queued before its height was *)
(* cached would list the height again when it settles, unless it then finds *)
(* nothing: its height is a new one, and the write of it is further back.   *)

OneReader == \A r, s \in Readers : r = s

OrderIsRecency ==
  /\ Members(accessOrder) \subseteq Cached
  /\ \A h \in Heights : <<h, h>> \notin recency
  /\ \A i, j \in DOMAIN accessOrder : i < j => <<accessOrder[i], accessOrder[j]>> \in recency

GetsFindNew ==
  \A i \in Gets :
    LET h == reader[queue[i].by].height IN
    memory[h] # Absent => /\ db.blocks[h] = Absent
                          /\ \A k \in Puts : k < i => queue[k].block.height # h

LruInv == OrderIsRecency /\ GetsFindNew

LEMMA OrderShape ==
  ASSUME BsTypeOK
  PROVE  /\ accessOrder \in Seq(Heights)
         /\ DOMAIN accessOrder = 1..Len(accessOrder) /\ Len(accessOrder) \in Nat
         /\ \A i \in DOMAIN accessOrder : accessOrder[i] \in Heights
         /\ memory \in [Heights -> Slot] /\ recency \subseteq Heights \X Heights
BY LenProperties, ElementOfSeq DEF BsTypeOK

(* Using a height puts it behind all others. *)
LEMMA UseKeepsOrder ==
  ASSUME BsTypeOK, OrderIsRecency, NEW h \in Heights, recency' = Use(h),
         Cached' = Cached \cup {h}, Members(accessOrder') \subseteq Cached',
         \A i, j \in DOMAIN accessOrder' : i < j =>
           /\ accessOrder'[i] # h
           /\ accessOrder'[j] # h => <<accessOrder'[i], accessOrder'[j]>> \in recency
  PROVE  OrderIsRecency'
<1>1. \A g \in Heights : <<g, g>> \notin recency'
  BY DEF OrderIsRecency, Use
<1>2. ASSUME NEW i \in DOMAIN accessOrder', NEW j \in DOMAIN accessOrder', i < j
      PROVE  <<accessOrder'[i], accessOrder'[j]>> \in recency'
  <2> DEFINE a == accessOrder'[i]
             b == accessOrder'[j]
  <2>1. a # h /\ a \in Cached /\ (b # h => <<a, b>> \in recency)
    BY <1>2 DEF Members
  <2> HIDE DEF a, b
  <2>2. <<a, b>> \in Use(h)
    BY <2>1 DEF Use
  <2>3. QED
    BY <2>2 DEF a, b
<1>3. QED
  BY <1>1, <1>2 DEF OrderIsRecency

(* A height that enters the cache is appended to the list. *)
LEMMA AppendKeepsOrder ==
  ASSUME BsTypeOK, OrderIsRecency, NEW h \in Heights, NEW f \in Forks, StoreAssumption,
         memory[h] = Absent, memory' = [memory EXCEPT ![h] = f],
         accessOrder' = Append(accessOrder, h), recency' = Use(h)
  PROVE  OrderIsRecency'
<1>1. /\ DOMAIN accessOrder' = 1..(Len(accessOrder) + 1)
      /\ DOMAIN accessOrder = 1..Len(accessOrder) /\ Len(accessOrder) \in Nat
      /\ \A i \in DOMAIN accessOrder : accessOrder'[i] = accessOrder[i]
      /\ accessOrder'[Len(accessOrder) + 1] = h
      /\ Members(accessOrder') = Members(accessOrder) \cup {h}
  <2>1. /\ accessOrder' \in Seq(Heights) /\ Len(accessOrder') = Len(accessOrder) + 1
        /\ \A i \in 1..Len(accessOrder) : accessOrder'[i] = accessOrder[i]
        /\ accessOrder'[Len(accessOrder) + 1] = h
    BY OrderShape, AppendProperties
  <2>2. QED
    BY <2>1, OrderShape, AppendElements, LenProperties
<1>2. Cached' = Cached \cup {h}
  BY OrderShape DEF Cached, StoreAssumption
<1>3. h \notin Members(accessOrder)
  BY DEF OrderIsRecency, Cached
<1>4. \A i \in DOMAIN accessOrder : accessOrder[i] # h
  BY <1>3 DEF Members
<1>5. \A i \in DOMAIN accessOrder' : i \in DOMAIN accessOrder \/ i = Len(accessOrder) + 1
  BY <1>1
<1>6. ASSUME NEW i \in DOMAIN accessOrder', NEW j \in DOMAIN accessOrder', i < j
      PROVE  /\ accessOrder'[i] # h
             /\ accessOrder'[j] # h => <<accessOrder'[i], accessOrder'[j]>> \in recency
  <2>1. i \in DOMAIN accessOrder
    BY <1>1, <1>6
  <2>2. CASE j \in DOMAIN accessOrder
    BY <1>1, <1>4, <1>6, <2>1, <2>2 DEF OrderIsRecency
  <2>3. CASE j = Len(accessOrder) + 1
    BY <1>1, <1>4, <2>1, <2>3
  <2>4. QED
    BY <1>5, <2>2, <2>3
<1>7. QED
  BY <1>1, <1>2, <1>6, UseKeepsOrder DEF OrderIsRecency

(* A cached height that is used moves to the end of the list. *)
LEMMA MoveKeepsOrder ==
  ASSUME BsTypeOK, OrderIsRecency, CachedInOrder, NEW h \in Heights,
         memory[h] # Absent, UNCHANGED memory, recency' = Use(h),
         accessOrder' = MoveToEnd(accessOrder, h)
  PROVE  OrderIsRecency'
<1> DEFINE s == accessOrder
           f == FirstIndex(s, h)
           w == Without(s, f)
           n == Len(s)
<1>1. /\ s \in Seq(Heights) /\ DOMAIN s = 1..n /\ n \in Nat /\ h \in Members(s)
  BY OrderShape DEF CachedInOrder, Cached
<1>2. f \in DOMAIN s /\ s[f] = h
  BY <1>1, FirstIndexIsIndex
<1>3. /\ w \in Seq(Heights) /\ Len(w) = n - 1
      /\ \A j \in 1..(n - 1) : w[j] = IF j < f THEN s[j] ELSE s[j + 1]
  BY <1>1, <1>2, WithoutEntry
<1>4. accessOrder' = Append(w, h)
  BY DEF MoveToEnd
<1> HIDE DEF f, w
<1>5. /\ DOMAIN accessOrder' = 1..n /\ accessOrder'[n] = h
      /\ \A i \in 1..(n - 1) : accessOrder'[i] = w[i]
  <2>1. /\ Append(w, h) \in Seq(Heights) /\ Len(Append(w, h)) = (n - 1) + 1
        /\ \A i \in 1..(n - 1) : Append(w, h)[i] = w[i]
        /\ Append(w, h)[(n - 1) + 1] = h
    BY <1>3, AppendProperties
  <2>2. (n - 1) + 1 = n
    BY <1>1
  <2>3. DOMAIN Append(w, h) = 1..n
    BY <2>1, <2>2, LenProperties
  <2>4. QED
    BY <1>4, <2>1, <2>2, <2>3
<1>6. \A i \in DOMAIN s : i # f => s[i] # h
  <2> SUFFICES ASSUME NEW i \in DOMAIN s, i # f, s[i] = h PROVE FALSE
    OBVIOUS
  <2>1. i < f \/ f < i
    BY <1>1, <1>2
  <2>2. <<s[i], s[f]>> \in recency \/ <<s[f], s[i]>> \in recency
    BY <1>2, <2>1 DEF OrderIsRecency
  <2>3. QED
    BY <1>2, <2>2 DEF OrderIsRecency
<1>7. \A i \in 1..(n - 1) :
        \E k \in DOMAIN s : /\ k = (IF i < f THEN i ELSE i + 1)
                            /\ k # f /\ accessOrder'[i] = s[k] /\ s[k] # h
  <2> SUFFICES ASSUME NEW i \in 1..(n - 1)
               PROVE  \E k \in DOMAIN s : /\ k = (IF i < f THEN i ELSE i + 1)
                                          /\ k # f /\ accessOrder'[i] = s[k] /\ s[k] # h
    OBVIOUS
  <2> DEFINE k == IF i < f THEN i ELSE i + 1
  <2>1. k \in DOMAIN s /\ k # f
    BY <1>1, <1>2
  <2>2. accessOrder'[i] = s[k]
    BY <1>3, <1>5
  <2>3. QED
    BY <1>6, <2>1, <2>2
<1>8. \A i \in DOMAIN accessOrder' : i \in 1..(n - 1) \/ i = n
  BY <1>5
<1>9. ASSUME NEW i \in DOMAIN accessOrder', NEW j \in DOMAIN accessOrder', i < j
      PROVE  /\ accessOrder'[i] # h
             /\ accessOrder'[j] # h => <<accessOrder'[i], accessOrder'[j]>> \in recency
  <2>1. i \in 1..(n - 1)
    BY <1>1, <1>5, <1>9
  <2>2. PICK k \in DOMAIN s : /\ k = (IF i < f THEN i ELSE i + 1)
                              /\ accessOrder'[i] = s[k] /\ s[k] # h
    BY <1>7, <2>1
  <2>3. CASE j \in 1..(n - 1)
    <3>1. PICK l \in DOMAIN s : /\ l = (IF j < f THEN j ELSE j + 1)
                                /\ accessOrder'[j] = s[l] /\ s[l] # h
      BY <1>7, <2>3
    <3>2. k < l
      BY <1>1, <1>2, <1>9, <2>1, <2>2, <2>3, <3>1
    <3>3. QED
      BY <2>2, <3>1, <3>2 DEF OrderIsRecency
  <2>4. CASE j = n
    BY <1>5, <2>2, <2>4
  <2>5. QED
    BY <1>8, <2>3, <2>4
<1>10. Cached' = Cached \cup {h}
  BY DEF Cached
<1>11. Members(accessOrder') \subseteq Cached'
  <2>1. \A i \in 1..(n - 1) : accessOrder'[i] \in Members(s)
    BY <1>7 DEF Members
  <2>2. QED
    BY <1>5, <1>8, <1>10, <2>1 DEF Members, OrderIsRecency
<1>12. QED
  BY <1>9, <1>10, <1>11, UseKeepsOrder

(* Eviction takes a front part of the list. *)
LEMMA EvictTakesFront ==
  ASSUME BsTypeOK, Evict
  PROVE  \E n \in 0..Len(accessOrder) :
           /\ \A h \in Heights :
                memory'[h] = IF \A i \in 1..n : accessOrder[i] # h THEN memory[h] ELSE Absent
           /\ DOMAIN accessOrder' = 1..(Len(accessOrder) - n)
           /\ \A i \in DOMAIN accessOrder' : /\ accessOrder'[i] = accessOrder[n + i]
                                             /\ n + i \in DOMAIN accessOrder
           /\ recency' = {p \in recency : p[1] \in Cached' /\ p[2] \in Cached'}
<1>1. PICK n \in 0..Len(accessOrder) :
        /\ memory' = [h \in Heights |-> IF h \in Left(n) THEN memory[h] ELSE Absent]
        /\ accessOrder' = SubSeq(accessOrder, n + 1, Len(accessOrder))
        /\ recency' = {p \in recency : p[1] \in Left(n) /\ p[2] \in Left(n)}
  BY DEF Evict
<1> DEFINE l == Len(accessOrder)
           rest == SubSeq(accessOrder, n + 1, l)
           front == SubSeq(accessOrder, 1, n)
<1>2. /\ l \in Nat /\ DOMAIN accessOrder = 1..l /\ n \in Nat /\ n <= l
      /\ \A i \in 1..l : accessOrder[i] \in Heights
  BY OrderShape
<1>3. /\ rest \in Seq(Heights) /\ Len(rest) = IF n + 1 <= l THEN l - (n + 1) + 1 ELSE 0
      /\ \A i \in 1..(l - (n + 1) + 1) : rest[i] = accessOrder[(n + 1) + i - 1]
  <2>1. \A i \in (n + 1)..l : accessOrder[i] \in Heights
    BY <1>2
  <2>2. n + 1 \in Int /\ l \in Int
    BY <1>2
  <2>3. QED
    BY <2>1, <2>2, SubSeqProperties
<1>4. /\ front \in Seq(Heights) /\ Len(front) = IF 1 <= n THEN n - 1 + 1 ELSE 0
      /\ \A i \in 1..(n - 1 + 1) : front[i] = accessOrder[1 + i - 1]
  <2>1. \A i \in 1..n : accessOrder[i] \in Heights
    BY <1>2
  <2>2. 1 \in Int /\ n \in Int
    BY <1>2
  <2>3. QED
    BY <2>1, <2>2, SubSeqProperties
<1> HIDE DEF rest, front, l
<1>5. DOMAIN rest = 1..(l - n)
  <2>1. Len(rest) = l - n
    <3>1. IF n + 1 <= l THEN l - (n + 1) + 1 = l - n ELSE 0 = l - n
      BY <1>2
    <3>2. QED
      BY <1>3, <3>1
  <2>2. QED
    BY <1>3, <2>1, LenProperties
<1>6. \A i \in 1..(l - n) : rest[i] = accessOrder[n + i] /\ n + i \in 1..l
  <2>1. \A i \in 1..(l - n) : i \in 1..(l - (n + 1) + 1) /\ (n + 1) + i - 1 = n + i /\ n + i \in 1..l
    BY <1>2
  <2>2. QED
    BY <1>3, <2>1
<1>7. DOMAIN front = 1..n /\ \A i \in 1..n : front[i] = accessOrder[i]
  <2>1. IF 1 <= n THEN n - 1 + 1 = n ELSE n = 0
    BY <1>2
  <2>2. \A i \in 1..n : i \in 1..(n - 1 + 1) /\ 1 + i - 1 = i
    BY <1>2
  <2>3. Len(front) = n
    BY <1>4, <2>1
  <2>4. QED
    BY <1>4, <2>2, <2>3, LenProperties
<1>8. \A h \in Heights : h \in Left(n) <=> memory[h] # Absent /\ \A i \in 1..n : accessOrder[i] # h
  BY <1>7 DEF Left, Cached, Members, front
<1>9. \A h \in Heights : memory'[h] = IF \A i \in 1..n : accessOrder[i] # h THEN memory[h] ELSE Absent
  BY <1>1, <1>8
<1>10. Cached' = Left(n)
  BY <1>1, <1>8 DEF Cached, Left
<1>11. QED
  BY <1>1, <1>2, <1>5, <1>6, <1>9, <1>10 DEF rest, l

LEMMA EvictKeepsOrder ==
  ASSUME BsTypeOK, OrderIsRecency, Evict
  PROVE  OrderIsRecency'
<1>1. PICK n \in 0..Len(accessOrder) :
           /\ \A h \in Heights :
                memory'[h] = IF \A i \in 1..n : accessOrder[i] # h THEN memory[h] ELSE Absent
           /\ DOMAIN accessOrder' = 1..(Len(accessOrder) - n)
           /\ \A i \in DOMAIN accessOrder' : /\ accessOrder'[i] = accessOrder[n + i]
                                             /\ n + i \in DOMAIN accessOrder
           /\ recency' = {p \in recency : p[1] \in Cached' /\ p[2] \in Cached'}
  BY EvictTakesFront
<1>2. n \in Nat /\ 1..n \subseteq DOMAIN accessOrder
  BY OrderShape
<1>3. \A i \in DOMAIN accessOrder' : accessOrder'[i] \in Cached'
  <2> SUFFICES ASSUME NEW i \in DOMAIN accessOrder' PROVE accessOrder'[i] \in Cached'
    OBVIOUS
  <2> DEFINE h == accessOrder[n + i]
  <2>1. accessOrder'[i] = h /\ n + i \in DOMAIN accessOrder /\ h \in Heights /\ memory[h] # Absent
    BY <1>1, OrderShape DEF OrderIsRecency, Members, Cached
  <2>2. \A k \in 1..n : accessOrder[k] # h
    <3> SUFFICES ASSUME NEW k \in 1..n PROVE accessOrder[k] # h
      OBVIOUS
    <3>1. k \in DOMAIN accessOrder /\ k < n + i
      BY <1>1, <1>2
    <3>2. <<accessOrder[k], h>> \in recency
      BY <2>1, <3>1 DEF OrderIsRecency
    <3>3. QED
      BY <2>1, <3>2 DEF OrderIsRecency
  <2>3. memory'[h] = memory[h]
    BY <1>1, <2>1, <2>2
  <2>4. QED
    BY <2>1, <2>3 DEF Cached
<1>4. ASSUME NEW i \in DOMAIN accessOrder', NEW j \in DOMAIN accessOrder', i < j
      PROVE  <<accessOrder'[i], accessOrder'[j]>> \in recency'
  <2>1. n + i < n + j
    BY <1>1, <1>2, <1>4
  <2>2. <<accessOrder'[i], accessOrder'[j]>> \in recency
    BY <1>1, <2>1 DEF OrderIsRecency
  <2>3. QED
    BY <1>1, <1>3, <2>2
<1>5. \A h \in Heights : <<h, h>> \notin recency'
  BY <1>1 DEF OrderIsRecency
<1>6. QED
  BY <1>3, <1>4, <1>5 DEF OrderIsRecency, Members

\* The only reader has one request in the queue at most.
LEMMA OneRequest ==
  ASSUME BsTypeOK, ReadsTracked, OneReader
  PROVE  /\ \A r \in Readers : reader[r].pc \in {"idle", "done"} => Gets = {}
         /\ \A i \in DOMAIN queue : IsRead(queue[i]) => Gets \subseteq {i}
         /\ \A i \in Gets : queue[i].by \in Readers /\ reader[queue[i].by].height \in Heights
<1>1. \A i \in DOMAIN queue : IsRead(queue[i]) => queue[i].by \in Readers
  BY QueueShape, RequestKinds DEF IsRead
<1>2. \A i \in Gets : IsRead(queue[i]) /\ queue[i].kind = "get" /\ i \in DOMAIN queue
  BY DEF Gets, IsRead
<1>3. \A r \in Readers : reader[r].height \in Heights
  BY DEF BsTypeOK, ReadState
<1>4. \A i \in Gets : reader[queue[i].by].pc = "reading"
  BY <1>2 DEF ReadsTracked
<1>5. QED
  BY <1>1, <1>2, <1>3, <1>4 DEF OneReader, ReadsTracked

LEMMA NewAfterSettle ==
  ASSUME BsTypeOK, GetsFindNew, Settle,
         \A r \in Readers : reader'[r].height = reader[r].height,
         \A h \in Heights : memory'[h] # Absent => memory[h] # Absent,
         \A h \in Heights : db.blocks[h] = Absent /\ db'.blocks[h] # Absent =>
           Head(queue).kind = "put" /\ Head(queue).block.height = h
  PROVE  GetsFindNew'
<1>1. \A j \in DOMAIN queue' : j \in Nat \ {0} /\ j + 1 \in DOMAIN queue
                               /\ queue'[j] = queue[j + 1]
  BY QueueSettled
<1> SUFFICES ASSUME NEW i \in Gets', memory'[reader'[queue'[i].by].height] # Absent
             PROVE  /\ db'.blocks[reader'[queue'[i].by].height] = Absent
                    /\ \A k \in Puts' : k < i =>
                         queue'[k].block.height # reader'[queue'[i].by].height
  BY DEF GetsFindNew
<1> DEFINE h == reader'[queue'[i].by].height
<1>2. /\ i \in Nat \ {0} /\ i + 1 \in Gets /\ queue'[i] = queue[i + 1]
      /\ queue[i + 1].kind = "get" /\ queue[i + 1] \in Request
  BY <1>1, QueueShape DEF Gets
<1>3. h = reader[queue[i + 1].by].height /\ h \in Heights
  BY <1>2, RequestKinds DEF BsTypeOK, ReadState
<1> HIDE DEF h
<1>4. memory'[h] # Absent
  BY DEF h
<1>5. db.blocks[h] = Absent /\ \A k \in Puts : k < i + 1 => queue[k].block.height # h
  BY <1>2, <1>3, <1>4 DEF GetsFindNew
<1>6. db'.blocks[h] = Absent
  <2> SUFFICES ASSUME db'.blocks[h] # Absent PROVE FALSE
    OBVIOUS
  <2>1. queue[1].kind = "put" /\ queue[1].block.height = h /\ 1 \in DOMAIN queue
    BY <1>3, <1>5, QueueSettled
  <2>2. 1 \in Puts /\ 1 < i + 1
    BY <1>2, <2>1 DEF Puts
  <2>3. QED
    BY <1>5, <2>1, <2>2
<1>7. ASSUME NEW k \in Puts', k < i PROVE queue'[k].block.height # h
  <2>1. k \in Nat \ {0} /\ k + 1 \in Puts /\ queue'[k] = queue[k + 1]
    BY <1>1 DEF Puts
  <2>2. k + 1 < i + 1
    BY <1>2, <1>7, <2>1
  <2>3. QED
    BY <1>5, <2>1, <2>2
<1>8. QED
  BY <1>6, <1>7 DEF h

LEMMA NewAfterAppend ==
  ASSUME BsTypeOK, GetsFindNew, NEW q \in Request, q.kind # "get", queue' = Append(queue, q),
         UNCHANGED db, \A r \in Readers : reader'[r].height = reader[r].height,
         \A h \in Heights : memory'[h] # Absent =>
           memory[h] # Absent \/ (db.blocks[h] = Absent /\ \A p \in Queued : p.block.height # h)
  PROVE  GetsFindNew'
<1>1. /\ DOMAIN queue' = DOMAIN queue \cup {End} /\ End \notin DOMAIN queue /\ End \in Nat
      /\ \A i \in DOMAIN queue : i \in Nat /\ i < End /\ queue'[i] = queue[i]
      /\ queue'[End] = q
  BY QueueAppended
<1> SUFFICES ASSUME NEW i \in Gets', memory'[reader'[queue'[i].by].height] # Absent
             PROVE  /\ db'.blocks[reader'[queue'[i].by].height] = Absent
                    /\ \A k \in Puts' : k < i =>
                         queue'[k].block.height # reader'[queue'[i].by].height
  BY DEF GetsFindNew
<1> DEFINE h == reader'[queue'[i].by].height
<1>2. /\ i \in Gets /\ i \in Nat /\ i < End /\ queue'[i] = queue[i]
      /\ queue[i].kind = "get" /\ queue[i] \in Request
  BY <1>1, QueueShape DEF Gets
<1>3. h = reader[queue[i].by].height /\ h \in Heights
  BY <1>2, RequestKinds DEF BsTypeOK, ReadState
<1>4. \A k \in Puts' : k < i => k \in Puts /\ queue'[k] = queue[k] /\ queue[k] \in Queued
  <2> SUFFICES ASSUME NEW k \in Puts', k < i
               PROVE  k \in Puts /\ queue'[k] = queue[k] /\ queue[k] \in Queued
    OBVIOUS
  <2>1. k # End
    BY <1>1, <1>2
  <2>2. k \in Puts /\ queue'[k] = queue[k]
    BY <1>1, <2>1 DEF Puts
  <2>3. QED
    BY <2>2 DEF Queued
<1> HIDE DEF h
<1>5. memory'[h] # Absent
  BY DEF h
<1>6. CASE memory[h] # Absent
  <2>1. db.blocks[h] = Absent /\ \A k \in Puts : k < i => queue[k].block.height # h
    BY <1>2, <1>3, <1>6 DEF GetsFindNew
  <2>2. QED
    BY <1>4, <2>1 DEF h
<1>7. CASE memory[h] = Absent
  <2>1. db.blocks[h] = Absent /\ \A p \in Queued : p.block.height # h
    BY <1>3, <1>5, <1>7
  <2>2. QED
    BY <1>4, <2>1 DEF h
<1>8. QED
  BY <1>6, <1>7

\* A restart lists the loaded heights from the lowest to the highest.
LEMMA StartOrders ==
  ASSUME StoreAssumption, BsTypeOK, DownIsEmpty, LruInv, Start
  PROVE  OrderIsRecency'
<1>1. CASE db.latest = 0
  BY <1>1 DEF Start, LruInv, OrderIsRecency, Cached, Members
<1>2. CASE db.latest # 0
  <2>0. Load(Window, LoadedHashes)
    BY <1>2 DEF Start
  <2>1. PICK loaded \in [1..Cardinality(Window) -> Heights] :
          Ascending(loaded) /\ Members(loaded) = Window /\ accessOrder' = loaded
    BY <2>0 DEF Load
  <2>2. /\ memory' = [h \in Heights |-> IF h \in Window THEN db.blocks[h] ELSE Absent]
        /\ recency' = {p \in Window \X Window : p[1] < p[2]}
    BY <2>0 DEF Load
  <2>3. Cached' = Window /\ \A h \in Heights : h \in Nat
    BY <2>2 DEF Cached, Window, Heights
  <2>4. Members(accessOrder') = Window
    BY <2>1
  <2>5. \A i \in DOMAIN accessOrder' : accessOrder'[i] \in Window
    BY <2>4 DEF Members
  <2>6. \A i, j \in DOMAIN accessOrder' : i < j => accessOrder'[i] < accessOrder'[j]
    BY <2>1 DEF Ascending
  <2>7. \A i, j \in DOMAIN accessOrder' : i < j =>
          <<accessOrder'[i], accessOrder'[j]>> \in recency'
    BY <2>2, <2>5, <2>6
  <2>8. \A h \in Heights : <<h, h>> \notin recency'
    BY <2>2, <2>3
  <2>9. QED
    BY <2>3, <2>4, <2>7, <2>8 DEF OrderIsRecency
<1>3. QED
  BY <1>1, <1>2

LEMMA LruStep ==
  ASSUME StoreAssumption, NewInv, CachedInOrder, LruInv, OneReader, ~Importing, [Calm]_bsVars
  PROVE  LruInv'
<1> USE DEF NewInv, KnownInv, RiseInv, ReadInv
<1>t. /\ memory \in [Heights -> Slot] /\ reader \in [Readers -> ReadState]
      /\ db.blocks \in [Heights -> Slot] /\ Slot = Forks \cup {Absent}
      /\ \A b \in BsBlock : b.height \in Heights /\ b.fork \in Forks
  BY DEF BsTypeOK, Database, BsBlock, Slot
<1>n. Gets' = {} => GetsFindNew'
  BY DEF GetsFindNew
<1>1. ASSUME UNCHANGED <<memory, accessOrder, recency>> PROVE OrderIsRecency'
  BY <1>1 DEF LruInv, OrderIsRecency, Cached
<1>2. ASSUME UNCHANGED <<memory, accessOrder, recency, db, reader, queue>> PROVE LruInv'
  BY <1>1, <1>2 DEF LruInv, GetsFindNew, Gets, Puts
<1>3. ASSUME NEW w \in Writers, NEW b \in BsBlock, Add(w, b), Mining(w), b.height = writer[w].height
      PROVE  LruInv'
  <2>1. /\ UNCHANGED <<db, reader>> /\ memory' = [memory EXCEPT ![b.height] = b.fork]
        /\ accessOrder' = Append(accessOrder, b.height) /\ recency' = Use(b.height)
        /\ queue' = Append(queue, Put(w, b))
    BY <1>3 DEF Add
  <2>2. Put(w, b) \in Request /\ Put(w, b).kind # "get"
    BY <1>3, RequestsMade
  <2>3. /\ memory[b.height] = Absent /\ db.blocks[b.height] = Absent
        /\ \A p \in Queued : p.block.height # b.height
    BY <1>3 DEF HeightsNew, Fresh
  <2>4. OrderIsRecency'
    BY <1>t, <2>1, <2>3, AppendKeepsOrder DEF LruInv
  <2>5. \A h \in Heights : memory'[h] # Absent =>
          memory[h] # Absent \/ (db.blocks[h] = Absent /\ \A p \in Queued : p.block.height # h)
    BY <1>t, <2>1, <2>3
  <2>6. GetsFindNew'
    BY <2>1, <2>2, <2>5, NewAfterAppend DEF LruInv
  <2>7. QED
    BY <2>4, <2>6 DEF LruInv
<1>4. ASSUME NEW w \in Writers, Write(w) PROVE LruInv'
  <2>1. ASSUME NEW b \in BsBlock, Add(w, b), NEW f \in Forks, AddMined(w, f),
               b = [height |-> writer[w].height, fork |-> f]
        PROVE  LruInv'
    BY <1>3, <2>1 DEF AddMined, Mining
  <2>2. \A b : ~ AddImported(w, b)
    BY DEF AddImported
  <2>3. TakeHeight(w) \/ MineAborts(w) =>
           UNCHANGED <<memory, accessOrder, recency, db, reader, queue>>
    BY DEF TakeHeight, MineAborts, memVars
  <2>4. QED
    BY <1>2, <1>4, <2>1, <2>2, <2>3, WriteQueues
<1>5. ASSUME NEW r \in Readers, Read(r) PROVE LruInv'
  <2>1. reader[r].pc \in {"idle", "done"} /\ UNCHANGED <<db, memory>> /\ Gets = {}
    BY <1>5, ReadQueues, OneRequest
  <2>2. PICK h \in Heights :
          \/ /\ memory[h] # Absent /\ UNCHANGED queue /\ recency' = Use(h)
             /\ accessOrder' = IF h \in Members(accessOrder)
                               THEN MoveToEnd(accessOrder, h) ELSE accessOrder
          \/ /\ memory[h] = Absent /\ queue' = Append(queue, Get(r))
             /\ UNCHANGED <<accessOrder, recency>>
             /\ reader'[r].height = h
          \/ queue' = Append(queue, Lookup(r)) /\ UNCHANGED <<accessOrder, recency>>
    <3>1. PICK h \in Heights, want \in Slot :
              \/ /\ memory[h] # Absent /\ UNCHANGED queue /\ recency' = Use(h)
                 /\ accessOrder' = IF h \in Members(accessOrder)
                                   THEN MoveToEnd(accessOrder, h) ELSE accessOrder
              \/ /\ memory[h] = Absent /\ queue' = Append(queue, Get(r))
                 /\ UNCHANGED <<accessOrder, recency>>
                 /\ \E s \in BOOLEAN : reader' = [reader EXCEPT ![r] =
                      [pc |-> "reading", height |-> h, want |-> want, sure |-> s,
                       got |-> Absent]]
              \/ queue' = Append(queue, Lookup(r)) /\ UNCHANGED <<accessOrder, recency>>
      BY <1>5, ReadQueues
    <3>2. (\E s \in BOOLEAN : reader' = [reader EXCEPT ![r] =
              [pc |-> "reading", height |-> h, want |-> want, sure |-> s, got |-> Absent]])
          => reader'[r].height = h
      BY <1>t
    <3>3. QED
      BY <3>1, <3>2
  <2>3. CASE /\ memory[h] # Absent /\ UNCHANGED queue /\ recency' = Use(h)
             /\ accessOrder' = IF h \in Members(accessOrder)
                               THEN MoveToEnd(accessOrder, h) ELSE accessOrder
    <3>1. h \in Members(accessOrder)
      BY <2>3 DEF CachedInOrder, Cached
    <3>2. OrderIsRecency'
      BY <2>1, <2>3, <3>1, MoveKeepsOrder DEF LruInv
    <3>3. Gets' = {}
      BY <2>1, <2>3 DEF Gets
    <3>4. QED
      BY <1>n, <3>2, <3>3 DEF LruInv
  <2>4. CASE /\ memory[h] = Absent /\ queue' = Append(queue, Get(r))
             /\ UNCHANGED <<accessOrder, recency>>
             /\ reader'[r].height = h
    <3>1. Get(r) \in Request /\ Get(r).by = r
      BY RequestsMade
    <3>2. \A i \in Gets' : queue'[i] = Get(r)
      BY <2>1, <2>4, <3>1, QueueAppended DEF Gets
    <3>3. \A i \in Gets' : memory'[reader'[queue'[i].by].height] = Absent
      BY <2>1, <2>4, <3>1, <3>2
    <3>4. QED
      BY <1>1, <2>1, <2>4, <3>3 DEF LruInv, GetsFindNew
  <2>5. CASE queue' = Append(queue, Lookup(r)) /\ UNCHANGED <<accessOrder, recency>>
    <3>1. Gets' = {}
      BY <2>1, <2>5, RequestsMade, QueueAppended DEF Gets
    <3>2. QED
      BY <1>1, <1>n, <2>1, <2>5, <3>1 DEF LruInv
  <2>6. QED
    BY <2>2, <2>3, <2>4, <2>5
<1>6. ASSUME NEW i \in DOMAIN queue, Fill(i) \/ LookupMisses(i) \/ ReadFails(i)
      PROVE  LruInv'
  <2>1. Answer(i) /\ IsRead(queue[i]) /\ queue[i].by \in Readers
    BY <1>6, AnswerQueues DEF IsRead
  <2>2. Gets \subseteq {i}
    BY <2>1, OneRequest
  <2>3. Gets' = {}
    <3>1. \A j \in Gets' : From(i, j) \in Gets /\ From(i, j) # i
      BY <2>1, QueueAnswered DEF Gets
    <3>2. QED
      BY <2>2, <3>1
  <2>4. OrderIsRecency'
    <3>1. CASE UNCHANGED <<memory, accessOrder, recency>>
      BY <1>1, <3>1
    <3>2. CASE ~ UNCHANGED <<memory, accessOrder, recency>>
      <4>1. Fill(i)
        BY <1>6, <3>2 DEF LookupMisses, ReadFails, memVars
      <4> DEFINE h == reader[queue[i].by].height
                 f == db.blocks[h]
      <4>2. /\ f # Absent /\ memory' = [memory EXCEPT ![h] = f]
            /\ accessOrder' = Append(accessOrder, h) /\ recency' = Use(h)
            /\ i \in Gets
        BY <3>2, <4>1 DEF Fill, Gets
      <4>3. h \in Heights /\ f \in Forks
        BY <1>t, <2>1, <4>2 DEF ReadState
      <4>4. memory[h] = Absent
        BY <4>2 DEF LruInv, GetsFindNew
      <4> HIDE DEF h, f
      <4>5. QED
        BY <4>2, <4>3, <4>4, AppendKeepsOrder DEF LruInv
    <3>3. QED
      BY <3>1, <3>2
  <2>5. QED
    BY <1>n, <2>3, <2>4 DEF LruInv
<1>7. ASSUME CommitPut PROVE LruInv'
  <2>1. /\ UNCHANGED reader /\ Settle /\ Head(queue).kind = "put" /\ Evict
        /\ db' = Written(Head(queue)) /\ Head(queue) \in Queued
    BY <1>7, HeadQueued DEF CommitPut
  <2>2. OrderIsRecency'
    BY <2>1, EvictKeepsOrder DEF LruInv
  <2>3. \A h \in Heights : memory'[h] # Absent => memory[h] # Absent
    BY <2>1, EvictShrinks
  <2>4. \A h \in Heights : db.blocks[h] = Absent /\ db'.blocks[h] # Absent =>
           Head(queue).kind = "put" /\ Head(queue).block.height = h
    BY <1>t, <2>1 DEF Written
  <2>5. QED
    BY <2>1, <2>2, <2>3, <2>4, NewAfterSettle DEF LruInv
<1>8. ASSUME CommitFails PROVE LruInv'
  <2>1. UNCHANGED <<reader, memory, accessOrder, recency, db>> /\ Settle
    BY <1>8 DEF CommitFails, memVars
  <2>2. GetsFindNew'
    BY <2>1, NewAfterSettle DEF LruInv
  <2>3. QED
    BY <1>1, <2>1, <2>2 DEF LruInv
<1>9. ASSUME ClearSettles PROVE LruInv'
  <2>1. /\ UNCHANGED <<memory, accessOrder, recency>> /\ Settle
        /\ \A h \in Heights : db'.blocks[h] = Absent
        /\ \A r \in Readers : reader'[r].height = reader[r].height
    BY <1>9, <1>t DEF ClearSettles, memVars, EmptyDb, ReadState
  <2>2. GetsFindNew'
    BY <2>1, NewAfterSettle DEF LruInv
  <2>3. QED
    BY <1>1, <2>1, <2>2 DEF LruInv
<1>10. ASSUME Clear \/ Crash PROVE LruInv'
  <2>1. /\ memory' = [h \in Heights |-> Absent] /\ accessOrder' = <<>> /\ recency' = {}
    BY <1>10 DEF Clear, Crash
  <2>2. OrderIsRecency'
    BY <2>1 DEF OrderIsRecency, Members, Cached
  <2>3. GetsFindNew'
    <3>1. CASE Crash
      BY <1>n, <3>1 DEF Crash, Gets
    <3>2. CASE Clear
      <4>1. /\ queue' = Append(queue, Wipe) /\ UNCHANGED db
            /\ \A r \in Readers : reader'[r].height = reader[r].height
            /\ Wipe \in Request /\ Wipe.kind # "get"
        BY <1>t, <3>2, RequestsMade DEF Clear, ReadState
      <4>2. \A h \in Heights : memory'[h] = Absent
        BY <2>1
      <4>3. QED
        BY <4>1, <4>2, NewAfterAppend DEF LruInv
    <3>3. QED
      BY <1>10, <3>1, <3>2
  <2>4. QED
    BY <2>2, <2>3 DEF LruInv
<1>11. ASSUME Start PROVE LruInv'
  <2>1. Gets' = {}
    BY <1>11 DEF Start, DownIsEmpty, Gets
  <2>2. QED
    BY <1>11, <1>n, <2>1, StartOrders DEF LruInv
<1>12. ASSUME UNCHANGED bsVars PROVE LruInv'
  BY <1>2, <1>12 DEF bsVars, memVars, procVars
<1>13. QED
  BY <1>4, <1>5, <1>6, <1>7, <1>8, <1>9, <1>10, <1>11, <1>12 DEF Calm

\* A height leaves the cache by an eviction, which takes the front of the
\* list, or together with every other one.
LEMMA LeavesOldest ==
  ASSUME StoreAssumption, BsTypeOK, CachedInOrder, OrderIsRecency, DownIsEmpty, [BsNext]_bsVars,
         NEW h \in Cached \ Cached', NEW g \in Cached \cap Cached'
  PROVE  <<h, g>> \in recency
<1>t. /\ memory \in [Heights -> Slot] /\ h \in Heights /\ g \in Heights
      /\ memory[h] # Absent /\ memory'[h] = Absent /\ memory[g] # Absent /\ memory'[g] # Absent
      /\ \A b \in BsBlock : b.fork # Absent
  BY DEF BsTypeOK, Cached, BsBlock, StoreAssumption
<1>1. ASSUME Evict PROVE <<h, g>> \in recency
  <2>1. PICK n \in 0..Len(accessOrder) :
          \A k \in Heights :
            memory'[k] = IF \A i \in 1..n : accessOrder[i] # k THEN memory[k] ELSE Absent
    BY <1>1, EvictTakesFront
  <2>2. PICK i \in 1..n : accessOrder[i] = h
    BY <1>t, <2>1
  <2>3. \A k \in 1..n : accessOrder[k] # g
    BY <1>t, <2>1
  <2>4. PICK j \in DOMAIN accessOrder : accessOrder[j] = g
    BY DEF CachedInOrder, Members
  <2>5. i \in DOMAIN accessOrder /\ i < j
    <3>1. DOMAIN accessOrder = 1..Len(accessOrder) /\ Len(accessOrder) \in Nat
      BY OrderShape
    <3>2. j \notin 1..n
      BY <2>3, <2>4
    <3>3. QED
      BY <2>2, <3>1, <3>2
  <2>6. QED
    BY <2>2, <2>4, <2>5 DEF OrderIsRecency
<1>2. CASE CommitPut
  BY <1>1, <1>2 DEF CommitPut
<1>3. CASE Clear \/ Crash \/ Start \/ StartUnread \/ StartPartly
  BY <1>t, <1>3 DEF Clear, Crash, Start, StartUnread, StartPartly, StartHalf,
     DownIsEmpty, Cached
<1>4. CASE CommitFails \/ ClearSettles \/ ClearFails
  BY <1>t, <1>4 DEF CommitFails, ClearSettles, ClearFails, memVars
<1>10. ASSUME NEW i \in DOMAIN queue, LookupHits(i) PROVE FALSE
  BY <1>t, <1>10 DEF LookupHits
<1>5. ASSUME NEW w \in Writers, Write(w) PROVE FALSE
  <2>1. memory' = memory \/ \E b \in BsBlock : memory' = [memory EXCEPT ![b.height] = b.fork]
    BY <1>5, WriteQueues DEF Add, memVars
  <2>2. QED
    BY <1>t, <2>1
<1>6. ASSUME NEW r \in Readers, Read(r) PROVE FALSE
  BY <1>6, <1>t, ReadQueues
<1>7. ASSUME NEW i \in DOMAIN queue, Fill(i) \/ LookupMisses(i) \/ ReadFails(i) PROVE FALSE
  <2>1. memory' = memory \/ \E k \in Heights, f \in Forks : memory' = [memory EXCEPT ![k] = f]
    <3>1. reader[queue[i].by].height \in Heights /\ db.blocks \in [Heights -> Slot]
      BY <1>7, AnswerQueues DEF BsTypeOK, ReadState, Database
    <3>2. Slot = Forks \cup {Absent}
      BY DEF Slot
    <3>3. QED
      BY <1>7, <3>1, <3>2 DEF Fill, LookupMisses, ReadFails, memVars
  <2>2. QED
    BY <1>t, <2>1 DEF StoreAssumption
<1>8. CASE UNCHANGED bsVars
  BY <1>t, <1>8 DEF bsVars, memVars
<1>9. QED
  BY <1>2, <1>3, <1>4, <1>5, <1>6, <1>7, <1>8, <1>10 DEF BsNext

(* Where blocks are only mined and one caller reads, what an eviction takes
   was used less recently than everything it leaves, through hits, fills,
   failed writes, wipes and restarts, until a wipe or a start is left half
   done.                                                                    *)
THEOREM EvictsLeastRecent == ~Importing /\ OneReader => (BsSpec => LruEviction)
<1> SUFFICES ASSUME ~Importing, OneReader PROVE BsSpec => LruEviction
  OBVIOUS
<1> DEFINE LeastRecent == ~broken => \A h \in Cached \ Cached', g \in Cached \cap Cached' :
                            <<h, g>> \in recency
<1>1. BsInit => LruInv
  BY DEF BsInit, LruInv, OrderIsRecency, GetsFindNew, Gets, Members, Cached
<1>2. /\ broken \/ NewInv
      /\ CachedInOrder
      /\ broken \/ LruInv
      /\ [BsNext]_bsVars
      => (broken \/ LruInv)'
  <2> SUFFICES ASSUME broken \/ NewInv, CachedInOrder, broken \/ LruInv, [BsNext]_bsVars,
                      ~broken'
               PROVE  LruInv'
    BY Zenon
  <2>1. NewInv /\ LruInv
    BY BrokenStays, Zenon
  <2>2. [Calm]_bsVars
    BY <2>1, CalmOrBroken, StoreAssumption DEF NewInv
  <2>3. QED
    BY <2>1, <2>2, LruStep, StoreAssumption
<1>3. /\ broken \/ NewInv
      /\ CachedInOrder
      /\ broken \/ LruInv
      /\ [BsNext]_bsVars
      => [LeastRecent]_bsVars
  <2> SUFFICES ASSUME broken \/ NewInv, CachedInOrder, broken \/ LruInv, [BsNext]_bsVars,
                      ~broken, NEW h \in Cached \ Cached', NEW g \in Cached \cap Cached'
               PROVE  <<h, g>> \in recency
    BY Zenon
  <2>1. NewInv /\ LruInv
    BY Zenon
  <2>2. BsTypeOK /\ OrderIsRecency /\ DownIsEmpty
    BY <2>1, Zenon DEF LruInv, NewInv, KnownInv, RiseInv, ReadInv
  <2>3. QED
    BY <2>2, LeavesOldest, StoreAssumption
<1>4. BsSpec => [][LeastRecent]_bsVars
  BY <1>1, <1>2, <1>3, NewInvariant, CacheListed, PTL DEF BsSpec
<1>5. QED
  BY <1>4 DEF LruEviction
=============================================================================
