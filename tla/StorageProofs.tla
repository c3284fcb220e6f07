--------------------------- MODULE StorageProofs ---------------------------
(* What is proved of Storage for every value of its constants. *)
EXTENDS Storage, TLAPS, SequenceTheorems, FiniteSetTheorems

-----------------------------------------------------------------------------
(* Tables. *)

LEMMA EmptyTable == Empty \in Table
BY StorageAssumption DEF Empty, Table, NoEntry, Entry

LEMMA OverlayTable ==
  ASSUME NEW t \in Table, NEW u \in Table
  PROVE  Overlay(t, u) \in Table
BY DEF Overlay, Table

LEMMA MergedTable ==
  ASSUME NEW t \in Table, NEW u \in Table
  PROVE  MergeFromRemote(t, u) \in Table
BY DEF MergeFromRemote, Table

LEMMA PushesType ==
  ASSUME NEW r \in Replicas, NEW t \in Table, NEW p \in Pushes(r, t)
  PROVE  p \in Put /\ p.entry.value # 0
BY DEF Pushes, Put, Present, Table

LEMMA StraysType ==
  ASSUME NEW ps, ps \subseteq Put, \A p \in ps : p.entry.value # 0,
         NEW q \in Strays(ps)
  PROVE  q \in Put /\ q.entry.value # 0
BY DEF Strays, Put

LEMMA StoredDocument ==
  ASSUME NEW t \in Table, NEW p \in Put
  PROVE  [t EXCEPT ![p.key] = p.entry] \in Table
BY DEF Table, Put

-----------------------------------------------------------------------------
(* Type correctness. *)

LEMMA TypeInit == Init => TypeOK
BY StorageAssumption, EmptyTable, EmptySeq DEF Init, TypeOK, Awaits

LEMMA StartSaveType ==
  ASSUME TypeOK, NEW r \in Replicas, NEW owner \in {"sync", "timer", "none"},
         StartSave(r, owner)
  PROVE  saves' \in [Replicas -> Seq(Save)]
<1> DEFINE s == [table |-> cache[r], owner |-> owner]
<1>1. s \in Save
  BY DEF TypeOK, Save
<1>2. saves' = [saves EXCEPT ![r] = Append(@, s)]
  BY DEF StartSave
<1> HIDE DEF s
<1>3. Append(saves[r], s) \in Seq(Save)
  BY <1>1, AppendProperties DEF TypeOK
<1>4. QED
  BY <1>2, <1>3 DEF TypeOK

LEMMA TailType ==
  ASSUME TypeOK, NEW r \in Replicas, saves[r] # <<>>
  PROVE  /\ Head(saves[r]) \in Save
         /\ [saves EXCEPT ![r] = Tail(@)] \in [Replicas -> Seq(Save)]
<1>1. saves[r] \in Seq(Save)
  BY DEF TypeOK
<1>2. Head(saves[r]) \in Save /\ Tail(saves[r]) \in Seq(Save)
  BY <1>1, HeadTailProperties
<1>3. QED
  BY <1>2 DEF TypeOK

LEMMA WriteType ==
  ASSUME TypeOK, NEW r \in Replicas, NEW k \in Keys, Write(r, k)
  PROVE  TypeOK'
<1>1. PICK v \in Stamps :
        /\ cache' = [cache EXCEPT ![r][k] = [value |-> writes + 1, version |-> v]]
        /\ now' = IF v > now THEN v ELSE now
  BY DEF Write
<1> DEFINE e == [value |-> writes + 1, version |-> v]
<1>2. /\ v \in Nat /\ v <= now + 1 /\ now \in Nat /\ now <= writes + Lag
      /\ writes \in Nat /\ MaxWrites \in Nat /\ writes + 1 <= MaxWrites
      /\ Lag \in Nat /\ Lag <= now
  BY StorageAssumption DEF TypeOK, Stamps, Write
<1>3. e \in Entry
  BY <1>2 DEF Entry
<1> HIDE DEF e
<1>4. [cache[r] EXCEPT ![k] = e] \in Table
  BY <1>3 DEF TypeOK, Table
<1>5. cache' = [cache EXCEPT ![r] = [cache[r] EXCEPT ![k] = e]]
  BY <1>1 DEF TypeOK, e
<1>6. cache' \in [Replicas -> Table]
  BY <1>4, <1>5 DEF TypeOK
<1>7. now' \in Lag..(writes' + Lag) /\ writes' \in 0..MaxWrites
  BY <1>1, <1>2 DEF Write
<1>8. late' \subseteq Replicas \X Keys
  BY DEF Write, TypeOK
<1>9. QED
  BY <1>6, <1>7, <1>8 DEF TypeOK, Write, syncVars

LEMMA SaveCommitsType ==
  ASSUME TypeOK, NEW r \in Replicas, SaveCommits(r)
  PROVE  TypeOK'
<1> DEFINE s == Head(saves[r])
<1>1. /\ s \in Save
      /\ saves' \in [Replicas -> Seq(Save)]
  BY TailType DEF SaveCommits
<1>2. Overlay(db[r], s.table) \in Table
  BY <1>1, OverlayTable DEF TypeOK, Save
<1>3. db' = [db EXCEPT ![r] = Overlay(db[r], s.table)]
  BY DEF SaveCommits, TypeOK
<1>4. db' \in [Replicas -> Table]
  BY <1>2, <1>3 DEF TypeOK
<1>5. puts' \subseteq Put /\ \A p \in puts' : p.entry.value # 0
  BY PushesType DEF SaveCommits, TypeOK
<1>6. pc' \in [Replicas -> Awaits]
  BY DEF SaveCommits, TypeOK, Awaits
<1>7. QED
  BY <1>1, <1>4, <1>5, <1>6 DEF SaveCommits, TypeOK, clock

LEMMA CloseType ==
  ASSUME TypeOK, NEW r \in Replicas, Close(r)
  PROVE  TypeOK'
<1>1. PICK n \in 0..Len(saves[r]) :
        saves' = [saves EXCEPT ![r] =
          [i \in 1..n |-> [table |-> saves[r][i].table, owner |-> "none"]]]
  BY DEF Close
<1> DEFINE left == [i \in 1..n |-> [table |-> saves[r][i].table, owner |-> "none"]]
<1>2. saves[r] \in Seq(Save)
  BY DEF TypeOK
<1>3. n \in Nat /\ \A i \in 1..n : i \in 1..Len(saves[r])
  BY <1>2, LenProperties
<1>4. \A i \in 1..n : saves[r][i] \in Save
  BY <1>2, <1>3, ElementOfSeq
<1>5. \A i \in 1..n : [table |-> saves[r][i].table, owner |-> "none"] \in Save
  BY <1>4 DEF Save
<1>6. left \in Seq(Save)
  BY <1>3, <1>5, IsASeq
<1>7. saves' \in [Replicas -> Seq(Save)]
  <2> HIDE DEF left
  <2>1. QED
    BY <1>1, <1>6 DEF TypeOK, left
<1>8. PICK sent \in SUBSET Own(r) : puts' = (puts \ Own(r)) \cup Strays(sent)
  BY DEF Close
<1>9. puts' \subseteq Put /\ \A p \in puts' : p.entry.value # 0
  <2>1. sent \subseteq Put /\ \A p \in sent : p.entry.value # 0
    BY <1>8 DEF TypeOK, Own
  <2>2. QED
    BY <1>8, <2>1, StraysType DEF TypeOK
<1>10. /\ cache' \in [Replicas -> Table]
       /\ pulled' \in [Replicas -> Table]
       /\ pc' \in [Replicas -> Awaits]
  BY EmptyTable DEF Close, TypeOK, Awaits
<1>11. faults' \in 0..MaxFaults
  BY StorageAssumption DEF Close, Fail, TypeOK
<1>12. QED
  BY <1>7, <1>9, <1>10, <1>11 DEF Close, TypeOK, clock

LEMMA LoseType ==
  ASSUME TypeOK, NEW p \in puts, Lose(p)
  PROVE  TypeOK'
<1>1. p \in Put
  BY DEF TypeOK
<1>2. node' \in Table
  BY <1>1, StoredDocument DEF Lose, TypeOK
<1>3. puts' \subseteq Put /\ \A q \in puts' : q.entry.value # 0
  <2>1. CASE p.from = None
    BY <2>1 DEF Lose, TypeOK
  <2>2. CASE p.from # None
    <3> DEFINE on == Own(p.from) \ {p}
    <3>1. on \subseteq Put /\ \A q \in on : q.entry.value # 0
      BY DEF TypeOK, Own
    <3>2. puts' = (puts \ Own(p.from)) \cup Strays(on)
      BY <2>2 DEF Lose
    <3> HIDE DEF on
    <3>3. QED
      BY <3>1, <3>2, StraysType DEF TypeOK
  <2>3. QED
    BY <2>1, <2>2
<1>4. pc' \in [Replicas -> Awaits]
  BY <1>1 DEF Lose, TypeOK, Put, Awaits
<1>5. faults' \in 0..MaxFaults
  BY StorageAssumption DEF Lose, Fail, TypeOK
<1>6. QED
  BY <1>2, <1>3, <1>4, <1>5 DEF Lose, TypeOK, clock

LEMMA SyncType ==
  ASSUME TypeOK, NEW r \in Replicas,
         \/ StartSync(r) \/ NodeLists(r) \/ ListRefused(r) \/ Rejects(r)
         \/ Merge(r) \/ SaveMerged(r) \/ Resolve(r)
  PROVE  TypeOK'
<1> USE DEF clock
<1>1. CASE StartSync(r) \/ NodeLists(r) \/ Resolve(r)
  BY <1>1 DEF StartSync, NodeLists, Resolve, TypeOK, Awaits
<1>2. CASE ListRefused(r) \/ Rejects(r)
  <2>1. faults' \in 0..MaxFaults
    BY <1>2, StorageAssumption DEF ListRefused, Rejects, Fail, TypeOK
  <2>2. QED
    BY <1>2, <2>1 DEF ListRefused, Rejects, TypeOK, Awaits
<1>3. CASE Merge(r)
  <2>1. MergeFromRemote(cache[r], pulled[r]) \in Table
    BY MergedTable DEF TypeOK
  <2>2. QED
    BY <1>3, <2>1, EmptyTable DEF Merge, TypeOK, Awaits
<1>4. CASE SaveMerged(r)
  BY <1>4, StartSaveType DEF SaveMerged, TypeOK, Awaits
<1>5. QED
  BY <1>1, <1>2, <1>3, <1>4

LEMMA TypeStep == TypeOK /\ [Next]_vars => TypeOK'
<1> SUFFICES ASSUME TypeOK, [Next]_vars PROVE TypeOK'
  OBVIOUS
<1> USE DEF clock, syncVars
<1>1. ASSUME NEW r \in Replicas, SaveTimer(r) PROVE TypeOK'
  BY <1>1, StartSaveType DEF SaveTimer, TypeOK
<1>2. ASSUME NEW r \in Replicas, SaveFails(r) PROVE TypeOK'
  <2>1. faults' \in 0..MaxFaults
    BY <1>2, StorageAssumption DEF SaveFails, Fail, TypeOK
  <2>2. saves' \in [Replicas -> Seq(Save)]
    BY <1>2, TailType DEF SaveFails
  <2>3. QED
    BY <1>2, <2>1, <2>2 DEF SaveFails, TypeOK, Awaits
<1>3. ASSUME NEW r \in Replicas, Open(r) PROVE TypeOK'
  BY <1>3 DEF Open, TypeOK, Awaits
<1>4. ASSUME NEW p \in puts, Deliver(p) PROVE TypeOK'
  <2>1. node' \in Table
    BY <1>4, StoredDocument DEF Deliver, TypeOK
  <2>2. QED
    BY <1>4, <2>1 DEF Deliver, TypeOK
<1>5. ASSUME NEW p \in puts, Refuse(p) PROVE TypeOK'
  <2>1. faults' \in 0..MaxFaults
    BY <1>5, StorageAssumption DEF Refuse, Fail, TypeOK
  <2>2. QED
    BY <1>5, <2>1 DEF Refuse, TypeOK
<1>6. CASE UNCHANGED vars
  BY <1>6 DEF vars, TypeOK
<1>7. QED
  BY <1>1, <1>2, <1>3, <1>4, <1>5, <1>6,
     WriteType, SaveCommitsType, CloseType, LoseType, SyncType
     DEF Next, Delivery

-----------------------------------------------------------------------------
(* No step back.  On the keys a replica has not put back itself, its        *)
(* database, the caches captured for it, oldest first, and the cache of an  *)
(* open page are in the order of their versions.                            *)

\* On keys ks, the transactions s write nothing older than database d or than
\* one another.
Queued(ks, d, s) ==
  /\ \A i \in DOMAIN s : ~Behind(ks, s[i].table, d)
  /\ \A i, j \in DOMAIN s : i < j => ~Behind(ks, s[j].table, s[i].table)

\* Cache c is behind neither.
Leads(ks, c, d, s) ==
  /\ ~Behind(ks, c, d)
  /\ \A i \in DOMAIN s : ~Behind(ks, c, s[i].table)

\* The order of a replica at await w.
Ordered(ks, w, c, d, s) ==
  /\ Queued(ks, d, s)
  /\ IF w = "closed" THEN c = Empty ELSE Leads(ks, c, d, s)

InOrder ==
  \A r \in Replicas : Ordered(Straight(r), pc[r], cache[r], db[r], saves[r])

LEMMA BehindTrans ==
  ASSUME NEW ks \in SUBSET Keys,
         NEW t \in Table, NEW u \in Table, NEW w \in Table,
         ~Behind(ks, u, t), ~Behind(ks, w, u)
  PROVE  ~Behind(ks, w, t)
<1>1. \A k \in Keys : t[k].version \in Int /\ u[k].version \in Int /\ w[k].version \in Int
  BY DEF Table, Entry
<1>2. QED
  BY <1>1 DEF Behind

LEMMA BehindRefl ==
  ASSUME NEW ks \in SUBSET Keys, NEW t \in Table
  PROVE  ~Behind(ks, t, t)
<1>1. \A k \in Keys : t[k].version \in Int
  BY DEF Table, Entry
<1>2. QED
  BY <1>1 DEF Behind

\* A transaction that is not behind its database leaves it behind nothing
\* that neither was behind.
LEMMA OverlayOrder ==
  ASSUME NEW ks \in SUBSET Keys, NEW t \in Table, NEW u \in Table
  PROVE  /\ ~Behind(ks, u, t) => ~Behind(ks, Overlay(t, u), t)
         /\ \A w \in Table : ~Behind(ks, w, t) /\ ~Behind(ks, w, u)
                               => ~Behind(ks, w, Overlay(t, u))
<1>1. \A k \in Keys : t[k].version \in Int /\ u[k].version \in Int
  BY DEF Table, Entry
<1>2. \A k \in Keys : Overlay(t, u)[k] \in {t[k], u[k]}
  BY DEF Overlay
<1>3. \A k \in Keys : Overlay(t, u)[k] = u[k] \/ Overlay(t, u)[k] = t[k]
  BY <1>2
<1>4. ~Behind(ks, u, t) => ~Behind(ks, Overlay(t, u), t)
  BY <1>1, <1>3 DEF Behind
<1>5. ASSUME NEW w \in Table, ~Behind(ks, w, t), ~Behind(ks, w, u)
      PROVE  ~Behind(ks, w, Overlay(t, u))
  BY <1>3, <1>5 DEF Behind
<1>6. QED
  BY <1>4, <1>5

LEMMA MergeOrder ==
  ASSUME NEW ks \in SUBSET Keys, NEW t \in Table, NEW u \in Table
  PROVE  ~Behind(ks, MergeFromRemote(t, u), t)
<1>1. \A k \in Keys : t[k].version \in Int /\ u[k].version \in Int
  BY DEF Table, Entry
<1>2. ASSUME NEW k \in Keys
      PROVE  ~(MergeFromRemote(t, u)[k].version < t[k].version)
  BY <1>1 DEF MergeFromRemote
<1>3. QED
  BY <1>2 DEF Behind

\* The oldest transaction settles, either way.
LEMMA TailOrder ==
  ASSUME NEW ks \in SUBSET Keys, NEW d \in Table, NEW c \in Table,
         NEW s \in Seq(Save), s # <<>>, Queued(ks, d, s)
  PROVE  LET e == Overlay(d, Head(s).table) IN
         /\ ~Behind(ks, e, d)
         /\ Queued(ks, d, Tail(s)) /\ Queued(ks, e, Tail(s))
         /\ Leads(ks, c, d, s) => Leads(ks, c, d, Tail(s)) /\ Leads(ks, c, e, Tail(s))
<1> DEFINE h == s[1].table
           e == Overlay(d, h)
<1>1. /\ Head(s) = s[1] /\ 1 \in DOMAIN s
      /\ DOMAIN Tail(s) = 1..(Len(s) - 1) /\ DOMAIN s = 1..Len(s) /\ Len(s) \in Nat
      /\ \A i \in DOMAIN Tail(s) : i \in Nat /\ i + 1 \in DOMAIN s /\ 1 < i + 1
                                   /\ Tail(s)[i] = s[i + 1]
  BY HeadTailProperties, LenProperties
<1>2. \A i \in DOMAIN s : s[i].table \in Table
  <2>1. \A i \in DOMAIN s : s[i] \in Save
    BY ElementOfSeq, <1>1
  <2>2. QED
    BY <2>1 DEF Save
<1>3. h \in Table /\ ~Behind(ks, h, d)
  BY <1>1, <1>2 DEF Queued
<1> HIDE DEF h
<1>4. ~Behind(ks, e, d) /\ \A w \in Table : ~Behind(ks, w, d) /\ ~Behind(ks, w, h) => ~Behind(ks, w, e)
  BY <1>3, OverlayOrder
<1> HIDE DEF e
<1>5. \A i \in DOMAIN Tail(s) : ~Behind(ks, Tail(s)[i].table, d) /\ ~Behind(ks, Tail(s)[i].table, h)
  BY <1>1 DEF Queued, h
<1>6. \A i, j \in DOMAIN Tail(s) :
        i < j => ~Behind(ks, Tail(s)[j].table, Tail(s)[i].table)
  BY <1>1 DEF Queued
<1>7. \A i \in DOMAIN Tail(s) : ~Behind(ks, Tail(s)[i].table, e)
  BY <1>1, <1>2, <1>4, <1>5
<1>8. Queued(ks, d, Tail(s)) /\ Queued(ks, e, Tail(s))
  BY <1>5, <1>6, <1>7 DEF Queued
<1>9. ASSUME Leads(ks, c, d, s) PROVE Leads(ks, c, d, Tail(s)) /\ Leads(ks, c, e, Tail(s))
  <2>1. ~Behind(ks, c, d) /\ ~Behind(ks, c, h)
    BY <1>1, <1>9 DEF Leads, h
  <2>2. \A i \in DOMAIN Tail(s) : ~Behind(ks, c, Tail(s)[i].table)
    BY <1>1, <1>9 DEF Leads
  <2>3. QED
    BY <1>4, <2>1, <2>2 DEF Leads
<1>10. e = Overlay(d, Head(s).table)
  BY <1>1 DEF e, h
<1>11. QED
  BY <1>4, <1>8, <1>9, <1>10

\* The cache is captured.
LEMMA AppendOrder ==
  ASSUME NEW ks \in SUBSET Keys, NEW d \in Table, NEW c \in Table,
         NEW s \in Seq(Save), NEW owner, [table |-> c, owner |-> owner] \in Save,
         Queued(ks, d, s), Leads(ks, c, d, s)
  PROVE  LET a == Append(s, [table |-> c, owner |-> owner]) IN
         Queued(ks, d, a) /\ Leads(ks, c, d, a)
<1> DEFINE x == [table |-> c, owner |-> owner]
           a == Append(s, x)
<1>1. x.table = c
  OBVIOUS
<1> HIDE DEF x
<1>2. /\ DOMAIN a = 1..(Len(s) + 1) /\ DOMAIN s = 1..Len(s) /\ Len(s) \in Nat
      /\ \A i \in 1..Len(s) : a[i] = s[i]
      /\ a[Len(s) + 1] = x
  BY AppendProperties, LenProperties DEF x
<1> HIDE DEF a
<1>3. \A i \in DOMAIN a : i \in Nat /\ (i \in DOMAIN s \/ i = Len(s) + 1)
  BY <1>2
<1>4. ~Behind(ks, c, c)
  BY BehindRefl
<1>5. \A i \in DOMAIN a : ~Behind(ks, a[i].table, d) /\ ~Behind(ks, c, a[i].table)
  BY <1>1, <1>2, <1>3, <1>4 DEF Queued, Leads
<1>6. ASSUME NEW i \in DOMAIN a, NEW j \in DOMAIN a, i < j
      PROVE  ~Behind(ks, a[j].table, a[i].table)
  <2>1. i \in DOMAIN s
    BY <1>2, <1>3, <1>6
  <2>2. CASE j \in DOMAIN s
    BY <1>2, <1>6, <2>1, <2>2 DEF Queued
  <2>3. CASE j = Len(s) + 1
    BY <1>1, <1>2, <2>1, <2>3 DEF Leads
  <2>4. QED
    BY <1>3, <2>2, <2>3
<1>7. QED
  BY <1>5, <1>6 DEF Queued, Leads, a, x

\* A page closes: a prefix of its transactions is left.
LEMMA PrefixOrder ==
  ASSUME NEW ks \in SUBSET Keys, NEW d \in Table, NEW s \in Seq(Save),
         NEW n \in 0..Len(s), Queued(ks, d, s)
  PROVE  Queued(ks, d, [i \in 1..n |-> [table |-> s[i].table, owner |-> "none"]])
<1>1. DOMAIN s = 1..Len(s) /\ Len(s) \in Nat
  BY LenProperties
<1>2. \A i \in 1..n : i \in DOMAIN s
  BY <1>1
<1>3. QED
  BY <1>2 DEF Queued

-----------------------------------------------------------------------------
(* What a synchronisation awaits is there once and only while it awaits it: *)
(* at most one transaction is its own, and its requests belong to a page    *)
(* that is pushing.  So an answer never resumes a page that was closed.     *)

Awaited ==
  /\ \A r \in Replicas, i \in Nat :
       i \in DOMAIN saves[r] /\ saves[r][i].owner = "sync" =>
         /\ pc[r] = "saving"
         /\ \A j \in Nat : j \in DOMAIN saves[r] /\ saves[r][j].owner = "sync" => j = i
  /\ \A p \in puts : p.from # None => pc[p.from] = "pushing"

LEMMA AwaitedInit == Init => Awaited
BY DEF Init, Awaited

\* One replica's part of Awaited, of transactions s at await w.
OneAwaited(s, w) ==
  \A i \in Nat :
    i \in DOMAIN s /\ s[i].owner = "sync" =>
      /\ w = "saving"
      /\ \A j \in Nat : j \in DOMAIN s /\ s[j].owner = "sync" => j = i

LEMMA AwaitedTail ==
  ASSUME NEW s \in Seq(Save), s # <<>>, NEW w, OneAwaited(s, w)
  PROVE  /\ OneAwaited(Tail(s), w)
         /\ Head(s).owner = "sync" => w = "saving" /\ \A u : OneAwaited(Tail(s), u)
<1>1. /\ Head(s) = s[1] /\ 1 \in DOMAIN s
      /\ \A i \in Nat : i \in DOMAIN Tail(s) => i + 1 \in Nat /\ i + 1 \in DOMAIN s
                          /\ i + 1 # 1 /\ Tail(s)[i] = s[i + 1]
  BY HeadTailProperties, LenProperties
<1>2. \A i, j \in Nat : i + 1 = j + 1 => i = j
  OBVIOUS
<1>3. QED
  BY <1>1, <1>2 DEF OneAwaited

LEMMA AwaitedAppend ==
  ASSUME NEW s \in Seq(Save), NEW w, NEW x \in Save, OneAwaited(s, w)
  PROVE  /\ x.owner # "sync" => OneAwaited(Append(s, x), w)
         /\ w # "saving" => OneAwaited(Append(s, x), "saving")
<1>1. /\ Len(s) \in Nat /\ DOMAIN s = 1..Len(s)
      /\ \A i \in Nat : i \in DOMAIN Append(s, x) =>
           \/ i \in DOMAIN s /\ Append(s, x)[i] = s[i]
           \/ i = Len(s) + 1 /\ Append(s, x)[i] = x
  BY AppendProperties, LenProperties
<1>2. QED
  BY <1>1 DEF OneAwaited

LEMMA AwaitedStep == TypeOK /\ Awaited /\ [Next]_vars => Awaited'
<1> SUFFICES ASSUME TypeOK, Awaited, [Next]_vars PROVE Awaited'
  OBVIOUS
<1> USE StorageAssumption DEF clock, syncVars
<1>1. \A r \in Replicas : OneAwaited(saves[r], pc[r]) /\ saves[r] \in Seq(Save)
  BY DEF Awaited, OneAwaited, TypeOK
<1>2. ASSUME \A r \in Replicas : OneAwaited(saves'[r], pc'[r]),
             \A p \in puts' : p.from # None => pc'[p.from] = "pushing"
      PROVE  Awaited'
  BY <1>2 DEF Awaited, OneAwaited
<1>3. \A p \in puts : p \in Put /\ (p.from # None => p.from \in Replicas /\ pc[p.from] = "pushing")
  BY DEF Awaited, TypeOK, Put
<1>4. ASSUME NEW r \in Replicas, NEW k \in Keys, Write(r, k) PROVE Awaited'
  BY <1>1, <1>2, <1>3, <1>4 DEF Write
<1>5. ASSUME NEW r \in Replicas, SaveTimer(r) PROVE Awaited'
  <2> DEFINE x == [table |-> cache[r], owner |-> "timer"]
  <2>1. x \in Save /\ x.owner # "sync"
    BY DEF TypeOK, Save
  <2>2. saves' = [saves EXCEPT ![r] = Append(saves[r], x)] /\ UNCHANGED <<pc, puts>>
    BY <1>5 DEF SaveTimer, StartSave
  <2> HIDE DEF x
  <2>3. OneAwaited(Append(saves[r], x), pc[r])
    BY <1>1, <2>1, AwaitedAppend
  <2>4. QED
    BY <1>1, <1>2, <1>3, <2>2, <2>3 DEF TypeOK
<1>6. ASSUME NEW r \in Replicas, SaveMerged(r) PROVE Awaited'
  <2> DEFINE x == [table |-> cache[r], owner |-> "sync"]
  <2>1. x \in Save
    BY DEF TypeOK, Save
  <2>2. /\ saves' = [saves EXCEPT ![r] = Append(saves[r], x)] /\ pc[r] = "opening"
        /\ pc' = [pc EXCEPT ![r] = "saving"] /\ puts' = puts
    BY <1>6 DEF SaveMerged, StartSave
  <2> HIDE DEF x
  <2>3. OneAwaited(Append(saves[r], x), "saving")
    BY <1>1, <2>1, <2>2, AwaitedAppend
  <2>4. \A q \in Replicas : OneAwaited(saves'[q], pc'[q])
    BY <1>1, <2>2, <2>3 DEF TypeOK
  <2>5. QED
    BY <1>2, <1>3, <2>2, <2>4 DEF TypeOK
<1>7. ASSUME NEW r \in Replicas, SaveCommits(r) \/ SaveFails(r) PROVE Awaited'
  <2>1. /\ saves[r] # <<>> /\ saves' = [saves EXCEPT ![r] = Tail(saves[r])]
        /\ Head(saves[r]).owner # "sync" => pc' = pc /\ puts' = puts
        /\ Head(saves[r]).owner = "sync" =>
             \/ pc' = [pc EXCEPT ![r] = "idle"] /\ puts' = puts
             \/ pc' = [pc EXCEPT ![r] = "pushing"] /\ puts' = puts \cup Pushes(r, cache[r])
    BY <1>7 DEF SaveCommits, SaveFails, TypeOK
  <2>2. /\ OneAwaited(Tail(saves[r]), pc[r])
        /\ Head(saves[r]).owner = "sync" =>
             pc[r] = "saving" /\ OneAwaited(Tail(saves[r]), pc'[r])
    BY <1>1, <2>1, AwaitedTail
  <2>3. \A q \in Replicas : OneAwaited(saves'[q], pc'[q])
    BY <1>1, <2>1, <2>2 DEF TypeOK
  <2>4. \A p \in Pushes(r, cache[r]) : p.from = r
    BY DEF Pushes
  <2>5. \A p \in puts' : p.from # None => pc'[p.from] = "pushing"
    BY <1>3, <2>1, <2>2, <2>4 DEF TypeOK
  <2>6. QED
    BY <1>2, <2>3, <2>5
<1>8. ASSUME NEW r \in Replicas, Close(r) PROVE Awaited'
  <2>1. PICK n \in 0..Len(saves[r]) :
          saves' = [saves EXCEPT ![r] =
            [i \in 1..n |-> [table |-> saves[r][i].table, owner |-> "none"]]]
    BY <1>8 DEF Close
  <2>2. \A q \in Replicas : OneAwaited(saves'[q], pc'[q])
    BY <1>1, <1>8, <2>1 DEF Close, OneAwaited, TypeOK
  <2>3. PICK sent \in SUBSET Own(r) : puts' = (puts \ Own(r)) \cup Strays(sent)
    BY <1>8 DEF Close
  <2>4. \A p \in Strays(sent) : p.from = None
    BY <1>3, <2>3 DEF Strays, Own, Put
  <2>5. pc' = [pc EXCEPT ![r] = "closed"]
    BY <1>8 DEF Close
  <2>6. \A p \in puts' : p.from # None => pc'[p.from] = "pushing"
    BY <1>3, <2>3, <2>4, <2>5 DEF Own, TypeOK
  <2>7. QED
    BY <1>2, <2>2, <2>6
<1>9. ASSUME NEW r \in Replicas,
             \/ Open(r) \/ StartSync(r) \/ NodeLists(r) \/ ListRefused(r)
             \/ Rejects(r) \/ Merge(r) \/ Resolve(r)
      PROVE  Awaited'
  <2>1. PICK w : pc' = [pc EXCEPT ![r] = w]
    BY <1>9 DEF Open, StartSync, NodeLists, ListRefused, Rejects, Merge, Resolve
  <2>2. saves' = saves /\ puts' = puts /\ pc[r] # "saving"
    BY <1>9 DEF Open, StartSync, NodeLists, ListRefused, Rejects, Merge, Resolve
  <2>3. pc[r] = "pushing" => Own(r) = {}
    BY <1>9 DEF Open, StartSync, NodeLists, ListRefused, Rejects, Merge, Resolve
  <2>4. \A q \in Replicas : OneAwaited(saves'[q], pc'[q])
    BY <1>1, <2>1, <2>2 DEF OneAwaited, TypeOK
  <2>5. \A p \in puts : p.from # r
    BY <1>3, <2>3 DEF Own
  <2>6. \A p \in puts' : p.from # None => pc'[p.from] = "pushing"
    BY <1>3, <2>1, <2>2, <2>5 DEF TypeOK
  <2>7. QED
    BY <1>2, <2>4, <2>6
<1>10. ASSUME NEW p \in puts, Deliver(p) \/ Refuse(p) PROVE Awaited'
  BY <1>1, <1>2, <1>3, <1>10 DEF Deliver, Refuse
<1>11. ASSUME NEW p \in puts, Lose(p) PROVE Awaited'
  <2>1. CASE p.from = None
    BY <1>1, <1>2, <1>3, <1>11, <2>1 DEF Lose
  <2>2. CASE p.from # None
    <3> DEFINE on == Own(p.from) \ {p}
    <3>1. /\ puts' = (puts \ Own(p.from)) \cup Strays(on)
          /\ pc' = [pc EXCEPT ![p.from] = "idle"] /\ saves' = saves
      BY <1>11, <2>2 DEF Lose
    <3>2. \A q \in Strays(on) : q.from = None
      BY <1>3 DEF Strays, Own, Put
    <3> HIDE DEF on
    <3>3. \A q \in puts' : q.from # None => pc'[q.from] = "pushing"
      BY <1>3, <3>1, <3>2 DEF Own, TypeOK
    <3>4. \A q \in Replicas : OneAwaited(saves'[q], pc'[q])
      BY <1>1, <1>3, <2>2, <3>1 DEF OneAwaited, TypeOK
    <3>5. QED
      BY <1>2, <3>3, <3>4
  <2>3. QED
    BY <2>1, <2>2
<1>12. CASE UNCHANGED vars
  BY <1>1, <1>2, <1>3, <1>12 DEF vars
<1>13. QED
  BY <1>4, <1>5, <1>6, <1>7, <1>8, <1>9, <1>10, <1>11, <1>12 DEF Next, Delivery

-----------------------------------------------------------------------------
LEMMA OrderInit == Init => InOrder
BY DEF Init, InOrder, Ordered, Queued, Leads, Straight, Behind, Empty, NoEntry

\* A cache that moves forward leads what it led.
LEMMA LeadsOn ==
  ASSUME NEW ks \in SUBSET Keys, TypeOK, NEW r \in Replicas, NEW c \in Table,
         Leads(ks, cache[r], db[r], saves[r]), ~Behind(ks, c, cache[r])
  PROVE  Leads(ks, c, db[r], saves[r])
<1>1. \A i \in DOMAIN saves[r] : saves[r][i].table \in Table
  <2>1. \A i \in DOMAIN saves[r] : saves[r][i] \in Save
    BY ElementOfSeq, LenProperties DEF TypeOK
  <2>2. QED
    BY <2>1 DEF Save
<1>2. QED
  BY <1>1, BehindTrans DEF Leads, TypeOK

LEMMA EmptyBehind ==
  ASSUME NEW ks \in SUBSET Keys, NEW t \in Table
  PROVE  ~Behind(ks, t, Empty)
<1>1. \A k \in Keys : t[k].version \in Int /\ t[k].version >= 0
  BY DEF Table, Entry
<1>2. QED
  BY <1>1 DEF Behind, Empty, NoEntry

\* Every action of replica r keeps its order and moves it forward.
LEMMA OrderMine ==
  ASSUME TypeOK, TypeOK', Awaited, NEW r \in Replicas, NEW ks \in SUBSET Keys,
         \A k \in ks : <<r, k>> \notin late',
         Ordered(ks, pc[r], cache[r], db[r], saves[r]),
         \/ \E k \in Keys : Write(r, k)
         \/ SaveTimer(r) \/ SaveCommits(r) \/ SaveFails(r) \/ Close(r) \/ Open(r)
         \/ StartSync(r) \/ NodeLists(r) \/ ListRefused(r) \/ Rejects(r)
         \/ Merge(r) \/ SaveMerged(r) \/ Resolve(r)
  PROVE  /\ Ordered(ks, pc'[r], cache'[r], db'[r], saves'[r])
         /\ ~Behind(ks, db'[r], db[r])
         /\ Behind(ks, cache'[r], cache[r]) => Close(r)
<1> DEFINE d == db[r]  s == saves[r]  c == cache[r]
<1>1. /\ d \in Table /\ c \in Table /\ s \in Seq(Save)
      /\ db'[r] \in Table /\ cache'[r] \in Table
  BY DEF TypeOK
<1>2. ~Behind(ks, d, d) /\ ~Behind(ks, c, c)
  BY <1>1, BehindRefl
<1> HIDE DEF d, s, c
<1> USE DEF Ordered, d, s, c, clock, syncVars
<1>3. ASSUME NEW k \in Keys, Write(r, k)
      PROVE  /\ Ordered(ks, pc'[r], cache'[r], db'[r], saves'[r]) /\ db' = db
             /\ ~Behind(ks, cache'[r], c)
  <2>1. PICK v \in Stamps :
          /\ cache' = [cache EXCEPT ![r][k] = [value |-> writes + 1, version |-> v]]
          /\ late' = IF v < c[k].version THEN late \cup {<<r, k>>} ELSE late
    BY <1>3 DEF Write
  <2>2. v \in Int /\ \A j \in Keys : c[j].version \in Int
    BY <1>1, StorageAssumption DEF TypeOK, Stamps, Table, Entry
  <2>3. \A j \in Keys : cache'[r][j] = c[j] \/ (j = k /\ cache'[r][j].version = v)
    BY <2>1 DEF TypeOK, Table
  <2>4. k \in ks => ~(v < c[k].version)
    BY <2>1
  <2>5. ~Behind(ks, cache'[r], c)
    BY <2>2, <2>3, <2>4 DEF Behind
  <2>6. UNCHANGED <<db, saves, pc>> /\ pc[r] # "closed"
    BY <1>3 DEF Write
  <2>7. Leads(ks, cache'[r], d, s)
    BY <1>1, <2>5, <2>6, LeadsOn
  <2>8. QED
    BY <2>5, <2>6, <2>7
<1>4. ASSUME NEW owner \in {"sync", "timer", "none"}, StartSave(r, owner),
             pc[r] # "closed", pc'[r] # "closed", UNCHANGED <<cache, db>>
      PROVE  Ordered(ks, pc'[r], cache'[r], db'[r], saves'[r])
  <2>1. [table |-> c, owner |-> owner] \in Save
    BY <1>1 DEF Save
  <2>2. saves'[r] = Append(s, [table |-> c, owner |-> owner])
    BY <1>4 DEF StartSave, TypeOK
  <2>3. QED
    BY <1>1, <1>4, <2>1, <2>2, AppendOrder
<1>5. CASE SaveTimer(r)
  BY <1>2, <1>4, <1>5 DEF SaveTimer
<1>6. CASE SaveMerged(r)
  <2>1. pc[r] # "closed" /\ pc'[r] # "closed" /\ UNCHANGED <<cache, db>>
    BY <1>6 DEF SaveMerged, TypeOK
  <2>2. QED
    BY <1>2, <1>4, <1>6, <2>1 DEF SaveMerged
<1>7. CASE SaveCommits(r) \/ SaveFails(r)
  <2> DEFINE e == Overlay(d, Head(s).table)
  <2>1. /\ s # <<>> /\ saves'[r] = Tail(s) /\ cache' = cache
        /\ db'[r] \in {d, e}
    BY <1>7 DEF SaveCommits, SaveFails, TypeOK
  <2>2. /\ ~Behind(ks, e, d)
        /\ Queued(ks, d, Tail(s)) /\ Queued(ks, e, Tail(s))
        /\ Leads(ks, c, d, s) => Leads(ks, c, d, Tail(s)) /\ Leads(ks, c, e, Tail(s))
    BY <1>1, <2>1, TailOrder
  <2>3. pc'[r] = "closed" <=> pc[r] = "closed"
    <3>1. Head(s) = s[1] /\ 1 \in DOMAIN s
      BY <1>1, <2>1, HeadTailProperties, LenProperties
    <3>2. Head(s).owner = "sync" => pc[r] = "saving"
      BY <3>1 DEF Awaited
    <3>3. QED
      BY <1>7, <3>2 DEF SaveCommits, SaveFails, TypeOK
  <2>4. QED
    BY <1>2, <2>1, <2>2, <2>3
<1>8. CASE Close(r)
  <2>1. PICK n \in 0..Len(s) :
          saves' = [saves EXCEPT ![r] =
            [i \in 1..n |-> [table |-> s[i].table, owner |-> "none"]]]
    BY <1>8 DEF Close
  <2>2. Queued(ks, d, saves'[r])
    BY <1>1, <2>1, PrefixOrder DEF TypeOK
  <2>3. pc'[r] = "closed" /\ cache'[r] = Empty /\ db' = db
    BY <1>8 DEF Close, TypeOK
  <2>4. QED
    BY <1>2, <1>8, <2>2, <2>3
<1>9. CASE Open(r)
  <2>1. cache'[r] = d /\ pc'[r] = "idle" /\ c = Empty /\ UNCHANGED <<db, saves>>
        /\ s = <<>>
    BY <1>9 DEF Open, TypeOK
  <2>2. Leads(ks, d, d, s)
    BY <1>2, <2>1 DEF Leads
  <2>3. QED
    BY <1>1, <1>2, <2>1, <2>2, EmptyBehind
<1>10. CASE StartSync(r) \/ NodeLists(r) \/ ListRefused(r) \/ Rejects(r) \/ Resolve(r)
  <2>1. UNCHANGED <<cache, db, saves>> /\ pc[r] # "closed" /\ pc'[r] # "closed"
    BY <1>10 DEF StartSync, NodeLists, ListRefused, Rejects, Resolve, TypeOK
  <2>2. QED
    BY <1>2, <2>1
<1>11. CASE Merge(r)
  <2>1. /\ cache'[r] = MergeFromRemote(c, pulled[r])
        /\ UNCHANGED <<db, saves>> /\ pc[r] # "closed" /\ pc'[r] # "closed"
    BY <1>11 DEF Merge, TypeOK
  <2>2. ~Behind(ks, cache'[r], c)
    BY <1>1, <2>1, MergeOrder DEF TypeOK
  <2>3. QED
    BY <1>1, <1>2, <2>1, <2>2, LeadsOn
<1>12. QED
  BY <1>2, <1>3, <1>5, <1>6, <1>7, <1>8, <1>9, <1>10, <1>11

\* What the other replicas and the network do leaves replica r alone.
LEMMA OrderOther ==
  ASSUME TypeOK, TypeOK', Awaited, NEW r \in Replicas, NEW ks \in SUBSET Keys,
         \A k \in ks : <<r, k>> \notin late',
         Ordered(ks, pc[r], cache[r], db[r], saves[r]),
         [Next]_vars
  PROVE  /\ Ordered(ks, pc'[r], cache'[r], db'[r], saves'[r])
         /\ ~Behind(ks, db'[r], db[r])
         /\ Behind(ks, cache'[r], cache[r]) => Close(r)
<1> USE DEF clock, syncVars
<1>1. CASE UNCHANGED <<cache[r], db[r], saves[r]>> /\ (pc'[r] = "closed" <=> pc[r] = "closed")
  BY <1>1, BehindRefl DEF Ordered, TypeOK
<1>2. CASE UNCHANGED vars
  BY <1>1, <1>2 DEF vars
<1>3. CASE \E p \in puts : Deliver(p) \/ Refuse(p) \/ Lose(p)
  <2>1. UNCHANGED <<cache, db, saves>> /\ (pc'[r] = "closed" <=> pc[r] = "closed")
    BY <1>3 DEF Deliver, Refuse, Lose, TypeOK, Awaited
  <2>2. QED
    BY <1>1, <2>1
<1>4. ASSUME NEW q \in Replicas, q # r,
             \/ \E k \in Keys : Write(q, k)
             \/ SaveTimer(q) \/ SaveCommits(q) \/ SaveFails(q) \/ Close(q) \/ Open(q)
             \/ StartSync(q) \/ NodeLists(q) \/ ListRefused(q) \/ Rejects(q)
             \/ Merge(q) \/ SaveMerged(q) \/ Resolve(q)
      PROVE  UNCHANGED <<cache[r], db[r], saves[r], pc[r]>>
  BY <1>4 DEF Write, SaveTimer, SaveCommits, SaveFails, Close, Open, StartSync,
     NodeLists, ListRefused, Rejects, Merge, SaveMerged, Resolve, StartSave, TypeOK
<1>5. QED
  BY <1>1, <1>2, <1>3, <1>4, OrderMine DEF Next, Delivery

-----------------------------------------------------------------------------
Inv == TypeOK /\ Awaited /\ InOrder

LEMMA OrderFewer ==
  ASSUME NEW ks, NEW fewer \in SUBSET ks, NEW w, NEW c, NEW d, NEW s,
         Ordered(ks, w, c, d, s)
  PROVE  Ordered(fewer, w, c, d, s)
BY DEF Ordered, Queued, Leads, Behind

LEMMA InvStep ==
  ASSUME Inv, [Next]_vars
  PROVE  /\ Inv'
         /\ \A r \in Replicas :
              /\ ~Behind(Straight(r)', db'[r], db[r])
              /\ Behind(Straight(r)', cache'[r], cache[r]) => Close(r)
<1>1. TypeOK' /\ Awaited'
  BY TypeStep, AwaitedStep DEF Inv
<1>2. ASSUME NEW r \in Replicas
      PROVE  /\ Ordered(Straight(r)', pc'[r], cache'[r], db'[r], saves'[r])
             /\ ~Behind(Straight(r)', db'[r], db[r])
             /\ Behind(Straight(r)', cache'[r], cache[r]) => Close(r)
  <2> DEFINE ks == Straight(r)'
  <2>1. late \subseteq late'
    BY DEF Next, Write, SaveTimer, SaveCommits, SaveFails, Close, Open, StartSync,
       NodeLists, ListRefused, Rejects, Merge, SaveMerged, Resolve, Delivery,
       Deliver, Refuse, Lose, vars, clock
  <2>2. /\ ks \in SUBSET Keys /\ ks \in SUBSET Straight(r)
        /\ \A k \in ks : <<r, k>> \notin late'
    BY <2>1 DEF Straight
  <2>3. Ordered(Straight(r), pc[r], cache[r], db[r], saves[r])
    BY DEF Inv, InOrder
  <2> HIDE DEF ks
  <2>4. Ordered(ks, pc[r], cache[r], db[r], saves[r])
    BY <2>2, <2>3, OrderFewer
  <2>5. /\ Ordered(ks, pc'[r], cache'[r], db'[r], saves'[r])
        /\ ~Behind(ks, db'[r], db[r])
        /\ Behind(ks, cache'[r], cache[r]) => Close(r)
    BY <1>1, <2>2, <2>4, OrderOther DEF Inv
  <2>6. QED
    BY <2>5 DEF ks
<1>3. InOrder'
  BY <1>2 DEF InOrder
<1>4. QED
  BY <1>1, <1>2, <1>3 DEF Inv

(* Every reachable state of the replicas is of the declared types. *)
THEOREM TypeCorrect == Spec => []TypeOK
BY TypeInit, TypeStep, PTL DEF Spec

(* A transaction or a request is awaited by the page that made it or by
   nobody: no answer resumes a page that closed.                            *)
THEOREM AnswersAwaited == Spec => []Awaited
BY TypeInit, TypeStep, AwaitedInit, AwaitedStep, PTL DEF Spec

(* On the keys a replica has not itself written on a clock behind what it
   replaced, no pull, save, failure or late request puts an older entry over
   a newer one in its database, nor in the cache of a page that stays open,
   however synchronisations, timers and writes interleave and however the
   clocks of the machines differ.                                           *)
THEOREM NeverStepsBack == Spec => NoStepBack
<1>1. Init => Inv
  BY TypeInit, AwaitedInit, OrderInit DEF Inv
<1>2. Inv /\ [Next]_vars => Inv'
  BY InvStep
<1>3. Inv /\ [Next]_vars =>
        [\A r \in Replicas :
           /\ ~Behind(Straight(r)', db'[r], db[r])
           /\ Behind(Straight(r)', cache'[r], cache[r]) => Close(r)]_vars
  BY InvStep
<1>4. QED
  BY <1>1, <1>2, <1>3, PTL DEF Spec, NoStepBack
=============================================================================
