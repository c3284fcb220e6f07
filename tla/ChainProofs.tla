---------------------------- MODULE ChainProofs ----------------------------
(***************************************************************************)
(* Theorems about Chain, for every set of transactions, ticks and callers  *)
(* and every block size, memory and fault bound.                           *)
(***************************************************************************)
EXTENDS Chain, SequenceTheorems, TLAPS

-----------------------------------------------------------------------------
(* Lemmas about the helpers on sequences. *)

(* The front and the rest of a sequence are sequences over the same set, and
   together they are the whole.                                             *)
LEMMA TakeDrop ==
  ASSUME NEW S, NEW s \in Seq(S), NEW n \in 0..Len(s)
  PROVE  /\ SubSeq(s, 1, n) \in Seq(S)
         /\ Len(SubSeq(s, 1, n)) = n
         /\ Drop(s, n) \in Seq(S)
         /\ Len(Drop(s, n)) = Len(s) - n
         /\ SubSeq(s, 1, n) \o Drop(s, n) = s
<1>1. Len(s) \in Nat /\ n \in Nat /\ n <= Len(s)
  BY LenProperties
<1>2. \A i \in 1..Len(s) : s[i] \in S
  BY ElementOfSeq
<1>3. SubSeq(s, 1, n) \in Seq(S) /\ Len(SubSeq(s, 1, n)) = n
  <2>1. \A i \in 1..n : s[i] \in S
    BY <1>1, <1>2
  <2>2. QED
    BY <1>1, <2>1, SubSeqProperties
<1>4. Drop(s, n) \in Seq(S) /\ Len(Drop(s, n)) = Len(s) - n
  <2>1. \A i \in (n + 1)..Len(s) : s[i] \in S
    BY <1>1, <1>2
  <2>2. /\ SubSeq(s, n + 1, Len(s)) \in Seq(S)
        /\ Len(SubSeq(s, n + 1, Len(s)))
             = IF n + 1 <= Len(s) THEN Len(s) - (n + 1) + 1 ELSE 0
    BY <1>1, <2>1, SubSeqProperties
  <2>3. QED
    BY <1>1, <2>2 DEF Drop
<1>5. SubSeq(s, 1, n) \o Drop(s, n) = SubSeq(s, 1, Len(s))
  <2>1. 1 \in 1..(Len(s) + 1) /\ n \in (1 - 1)..Len(s) /\ Len(s) \in n..Len(s)
    BY <1>1
  <2>2. QED
    BY <2>1, ConcatAdjacentSubSeq DEF Drop
<1>6. QED
  BY <1>3, <1>4, <1>5, SubSeqFull

(* The rest of a sequence, and its front, hold only elements of it. *)
LEMMA PartElements ==
  ASSUME NEW S, NEW s \in Seq(S), NEW n \in Nat
  PROVE  /\ Elements(Drop(s, n)) \subseteq Elements(s)
         /\ n <= Len(s) => Elements(SubSeq(s, 1, n)) \subseteq Elements(s)
<1>1. /\ Len(s) \in Nat /\ DOMAIN s = 1..Len(s)
      /\ \A i \in 1..Len(s) : s[i] \in S
  BY LenProperties, ElementOfSeq
<1>2. Elements(Drop(s, n)) \subseteq Elements(s)
  <2>1. \A i \in (n + 1)..Len(s) : s[i] \in S
    BY <1>1
  <2>2. n + 1 \in Int /\ Len(s) \in Int
    BY <1>1
  <2>3. /\ SubSeq(s, n + 1, Len(s)) \in Seq(S)
        /\ Len(SubSeq(s, n + 1, Len(s)))
             = IF n + 1 <= Len(s) THEN Len(s) - (n + 1) + 1 ELSE 0
        /\ \A i \in 1..(Len(s) - (n + 1) + 1) :
             SubSeq(s, n + 1, Len(s))[i] = s[(n + 1) + i - 1]
    BY <2>1, <2>2, SubSeqProperties
  <2>4. DOMAIN SubSeq(s, n + 1, Len(s)) = 1..Len(SubSeq(s, n + 1, Len(s)))
    BY <2>3, LenProperties
  <2>5. \A i \in DOMAIN SubSeq(s, n + 1, Len(s)) :
           /\ n + i \in 1..Len(s)
           /\ SubSeq(s, n + 1, Len(s))[i] = s[n + i]
    <3> SUFFICES ASSUME NEW i \in DOMAIN SubSeq(s, n + 1, Len(s))
                 PROVE  /\ n + i \in 1..Len(s)
                        /\ SubSeq(s, n + 1, Len(s))[i] = s[n + i]
      OBVIOUS
    <3>1. i \in 1..(Len(s) - (n + 1) + 1)
      <4>1. i \in 1..(IF n + 1 <= Len(s) THEN Len(s) - (n + 1) + 1 ELSE 0)
        BY <2>3, <2>4, Zenon
      <4>2. QED
        BY <1>1, <4>1
    <3>2. (n + 1) + i - 1 = n + i /\ n + i \in 1..Len(s)
      BY <1>1, <3>1
    <3>3. QED
      BY <2>3, <3>1, <3>2
  <2>6. QED
    BY <1>1, <2>5 DEF Drop, Elements
<1>3. ASSUME n <= Len(s) PROVE Elements(SubSeq(s, 1, n)) \subseteq Elements(s)
  <2>1. /\ SubSeq(s, 1, n) \in Seq(S) /\ Len(SubSeq(s, 1, n)) = n
        /\ \A i \in 1..n : SubSeq(s, 1, n)[i] = s[i]
    <3>1. 1 \in Int /\ n \in Int /\ n - 1 + 1 = n /\ \A i \in 1..n : 1 + i - 1 = i
      OBVIOUS
    <3>2. \A i \in 1..n : s[i] \in S
      BY <1>1, <1>3
    <3>3. n = 0 \/ 1 <= n
      OBVIOUS
    <3>4. QED
      BY <3>1, <3>2, <3>3, SubSeqProperties
  <2>2. DOMAIN SubSeq(s, 1, n) = 1..n
    BY <2>1, LenProperties
  <2>3. QED
    BY <1>1, <1>3, <2>1, <2>2 DEF Elements
<1>4. QED
  BY <1>2, <1>3

(* A step that moves the front of one sequence to the end of another leaves
   their concatenation as it was.                                           *)
LEMMA MoveFront ==
  ASSUME NEW S, NEW s \in Seq(S), NEW t \in Seq(S), NEW n \in 0..Len(t)
  PROVE  (s \o SubSeq(t, 1, n)) \o Drop(t, n) = s \o t
<1>1. /\ SubSeq(t, 1, n) \in Seq(S) /\ Drop(t, n) \in Seq(S)
      /\ SubSeq(t, 1, n) \o Drop(t, n) = t
  BY TakeDrop
<1>2. \A a, b \in Seq(S) : (s \o a) \o b = s \o (a \o b)
  BY ConcatAssociative
<1>3. (s \o SubSeq(t, 1, n)) \o Drop(t, n) = s \o (SubSeq(t, 1, n) \o Drop(t, n))
  BY <1>1, <1>2, Zenon
<1>4. QED
  BY <1>1, <1>3, Zenon

-----------------------------------------------------------------------------
(* Type correctness. *)

LEMMA TakeCountType ==
  ASSUME ChainAssumption, pending \in Seq(Txs), pending # <<>>
  PROVE  /\ TakeCount \in 1..Len(pending)
         /\ MaxTxPerBlock # 0 => TakeCount <= MaxTxPerBlock
<1>1. Len(pending) \in Nat \ {0}
  BY EmptySeq
<1>2. QED
  BY <1>1 DEF TakeCount, ChainAssumption

LEMMA NoBlockType == NoBlock \in Block /\ NoArchive \in Archive
<1>1. <<>> \in Seq(Txs) /\ <<>> \in Seq(Nat)
  BY EmptySeq
<1>2. QED
  BY <1>1 DEF NoBlock, NoArchive, Block, Archive, Genesis

LEMMA TypeInit == ChainAssumption /\ Init => TypeOK
<1> SUFFICES ASSUME ChainAssumption, Init PROVE TypeOK
  OBVIOUS
<1>1. <<>> \in Seq(Txs) /\ <<>> \in Seq(Block) /\ <<>> \in Seq(Archive)
  BY EmptySeq
<1>2. draft \in [Miners -> Block] /\ archive \in [Miners -> Archive]
  BY NoBlockType DEF Init
<1>3. /\ pending \in Seq(Txs) /\ blocks \in Seq(Block) /\ sealed \in Seq(Archive)
      /\ mined \in Seq(Block) /\ minedTxs \in Seq(Txs)
  BY <1>1, Zenon DEF Init
<1>4. /\ submitted \in [Txs -> {"new", "executed", "trapped", "queued"}]
      /\ state \subseteq Txs /\ totalHeight \in Nat
      /\ faults \in 0..MaxFaults
  BY DEF ChainAssumption, Init
<1>5. pc \in [Miners -> {"idle", "hashing", "rooted", "digesting",
                        "sealing", "storing"}]
  BY DEF Init
<1>6. autoMining \in BOOLEAN
  BY Zenon DEF Init
<1>7. QED
  BY <1>2, <1>3, <1>4, <1>5, <1>6 DEF TypeOK

LEMMA TypeStep == ChainAssumption /\ TypeOK /\ [Next]_vars => TypeOK'
<1> SUFFICES ASSUME ChainAssumption, TypeOK, [Next]_vars PROVE TypeOK'
  OBVIOUS
<1> USE DEF TypeOK, submitVars, chainVars, minerVars, history
<1>1. ASSUME NEW t \in Txs, Execute(t) PROVE TypeOK'
  BY <1>1 DEF Execute
<1>2. ASSUME NEW t \in Txs, Trap(t) PROVE TypeOK'
  BY <1>2 DEF Trap
<1>3. ASSUME NEW t \in Txs, Queue(t) PROVE TypeOK'
  BY <1>3, AppendProperties DEF Queue
<1>4. ASSUME NEW m \in Miners, StartMine(m), autoMining' \in BOOLEAN PROVE TypeOK'
  <2>1. TakeCount \in 0..Len(pending)
    BY <1>4, TakeCountType, LenProperties DEF StartMine, NextHeight, NextHeight
  <2>2. SubSeq(pending, 1, TakeCount) \in Seq(Txs)
    BY <2>1, TakeDrop
  <2>3. PrevHash \in Nat
    <3>1. CASE blocks = <<>>
      BY <3>1 DEF PrevHash, Genesis
    <3>2. CASE blocks # <<>>
      <4>1. Len(blocks) \in 1..Len(blocks)
        BY <3>2, EmptySeq
      <4>2. blocks[Len(blocks)] \in Block
        BY <4>1, ElementOfSeq
      <4>3. QED
        BY <3>2, <4>2 DEF PrevHash, Block
    <3>3. QED
      BY <3>1, <3>2
  <2>4. [NoBlock EXCEPT !.height = totalHeight', !.prevHash = PrevHash,
                        !.txs = SubSeq(pending, 1, TakeCount)] \in Block
    <3>1. totalHeight' \in Nat
      BY <1>4 DEF StartMine, NextHeight, NextHeight
    <3>2. QED
      BY <2>2, <2>3, <3>1 DEF NoBlock, Block
  <2>5. QED
    BY <1>4, <2>4 DEF StartMine, NextHeight, NextHeight
<1>5. ASSUME NEW m \in Miners, ReadStateRoot(m) PROVE TypeOK'
  BY <1>5 DEF ReadStateRoot, ComputeStateRoot, Block
<1>6. ASSUME NEW m \in Miners, ReadQuantumRoot(m) PROVE TypeOK'
  BY <1>6 DEF ReadQuantumRoot, ComputeStateRoot, Block
<1>7. ASSUME NEW m \in Miners, MineFails(m) PROVE TypeOK'
  BY <1>7, NoBlockType DEF MineFails, Return, ChainAssumption
<1>8. ASSUME NEW m \in Miners, Commit(m) PROVE TypeOK'
  <2>1. draft[m] \in Block /\ draft[m].txs \in Seq(Txs)
    BY DEF Block
  <2>2. blocks' \in Seq(Block) /\ blocks' # <<>> /\ mined' \in Seq(Block)
    <3>1. blocks' = Append(blocks, draft[m]) /\ mined' = Append(mined, draft[m])
      BY <1>8 DEF Commit
    <3>2. \A s \in Seq(Block), b \in Block : /\ Append(s, b) \in Seq(Block)
                                            /\ Append(s, b) # <<>>
      BY AppendProperties
    <3>3. QED
      BY <2>1, <3>1, <3>2, Zenon
  <2>3. minedTxs' \in Seq(Txs)
    BY <1>8, <2>1, ConcatProperties DEF Commit
  <2>4. pending' \in Seq(Txs)
    <3>1. /\ Len(pending) \in Nat /\ Len(draft[m].txs) \in Nat
          /\ \A i \in (Len(draft[m].txs) + 1)..Len(pending) : pending[i] \in Txs
      BY <2>1, LenProperties, ElementOfSeq
    <3>2. QED
      BY <1>8, <3>1, SubSeqProperties DEF Commit, Drop
  <2>5. ArchiveOf(blocks') \in Archive
    <3>1. /\ Len(blocks') \in Nat \ {0}
          /\ DOMAIN blocks' = 1..Len(blocks')
          /\ \A i \in 1..Len(blocks') : blocks'[i].height \in Nat
      <4>1. Len(blocks') \in Nat \ {0} /\ DOMAIN blocks' = 1..Len(blocks')
        BY <2>2, EmptySeq, LenProperties
      <4>2. \A i \in 1..Len(blocks') : blocks'[i] \in Block
        BY <2>2, ElementOfSeq
      <4>3. QED
        BY <4>1, <4>2 DEF Block
    <3>2. [i \in DOMAIN blocks' |-> blocks'[i].height] \in Seq(Nat)
      BY <3>1, SeqDef
    <3>3. QED
      BY <3>1, <3>2 DEF ArchiveOf, Archive
  <2>6. draft' \in [Miners -> Block]
    BY <1>8, NoBlockType DEF Commit
  <2>7. QED
    BY <1>8, <2>2, <2>3, <2>4, <2>5, <2>6 DEF Commit, Return
<1>9. ASSUME NEW m \in Miners, FinishSeal(m) PROVE TypeOK'
  <2> DEFINE done == [archive[m] EXCEPT !.blockCount = Len(blocks)]
  <2>a. done \in Archive
    BY LenProperties DEF Archive
  <2>b. sealed' = Append(sealed, done) /\ blocks' = <<>>
    BY <1>9 DEF FinishSeal
  <2> HIDE DEF done
  <2>1. sealed' \in Seq(Archive) /\ blocks' \in Seq(Block)
    BY <2>a, <2>b, AppendProperties, EmptySeq
  <2>2. QED
    BY <1>9, <2>1, NoBlockType DEF FinishSeal, Return
<1>10. ASSUME NEW m \in Miners, FinishStore(m) PROVE TypeOK'
  BY <1>10 DEF FinishStore, Return
<1>11. CASE UNCHANGED vars
  BY <1>11 DEF vars
<1>12. QED
  BY <1>1, <1>2, <1>3, <1>4, <1>5, <1>6, <1>7, <1>8, <1>9, <1>10, <1>11
     DEF Next, Submission, Tick, Call, Resume

(* Every variable keeps its type in every behaviour of the VM. *)
THEOREM TypeCorrect == Spec => []TypeOK
BY TypeInit, TypeStep, ChainAssumption, PTL DEF Spec

-----------------------------------------------------------------------------
(* One miner at a time keeps the log of accepted transactions intact: the    *)
(* auto-miner's ticks behind their flag, or the sequencer as the only caller.*)
(*                                                                          *)
(* AcceptedOnce is not inductive: a Commit step preserves it only because   *)
(* the slice the miner took is still the front of pending, and that is so   *)
(* only because no other miner is between its slice and its commit.         *)

AutoInv == TypeOK /\ TicksExclude /\ DraftHoldsFront /\ AcceptedOnce

LEMMA AutoInit == ChainAssumption /\ Init => AutoInv
<1> SUFFICES ASSUME ChainAssumption, Init PROVE AutoInv
  OBVIOUS
<1>1. TypeOK
  BY TypeInit
<1>2. TicksExclude /\ DraftHoldsFront
  BY DEF Init, TicksExclude, DraftHoldsFront, Busy, Building, Miners
<1>3. Accepted = <<>>
  BY ConcatEmptySeq, EmptySeq DEF Init, Accepted
<1>4. AcceptedOnce
  BY <1>3 DEF AcceptedOnce, AllDistinct, Elements, Init
<1>5. QED
  BY <1>1, <1>2, <1>4 DEF AutoInv

(* Miners are kept apart: either there is no direct caller and the autoMining
   flag keeps the ticks apart, or one process mines and no other does.      *)
OneAtATime == Callers = {} \/ \A m, n \in Miners : m = n

LEMMA TicksExcludeStep ==
  ASSUME ChainAssumption, OneAtATime, TypeOK, TicksExclude, [Next]_vars
  PROVE  TicksExclude'
<1> USE DEF TypeOK, TicksExclude, Busy, Miners, submitVars, chainVars,
            minerVars, history
<1>1. ASSUME NEW t \in Txs, Submission(t) PROVE TicksExclude'
  BY <1>1 DEF Submission, Execute, Trap, Queue
<1>2. ASSUME NEW m \in Miners, Tick(m) PROVE TicksExclude'
  BY <1>2 DEF Tick, StartMine
<1>3. ASSUME NEW m \in Miners, Call(m) PROVE TicksExclude'
  <2>1. m \in Callers /\ \A n \in Miners : n = m
    BY <1>3 DEF Call, OneAtATime
  <2>2. Ticks = {}
    BY <2>1 DEF ChainAssumption
  <2>3. QED
    BY <2>2
<1>4. ASSUME NEW m \in Miners, ReadStateRoot(m) \/ ReadQuantumRoot(m)
      PROVE  TicksExclude'
  BY <1>4 DEF ReadStateRoot, ComputeStateRoot, ReadQuantumRoot
<1>5. ASSUME NEW m \in Miners, MineFails(m) PROVE TicksExclude'
  BY <1>5 DEF MineFails, Return
<1>6. ASSUME NEW m \in Miners, Commit(m) PROVE TicksExclude'
  BY <1>6 DEF Commit, Return
<1>7. ASSUME NEW m \in Miners, FinishSeal(m) \/ FinishStore(m)
      PROVE  TicksExclude'
  BY <1>7 DEF FinishSeal, FinishStore, Return
<1>8. CASE UNCHANGED vars
  BY <1>8 DEF vars
<1>9. QED
  BY <1>1, <1>2, <1>3, <1>4, <1>5, <1>6, <1>7, <1>8 DEF Next, Resume

(* One miner at a time is between its start and its return. *)
LEMMA OneMiner ==
  ASSUME OneAtATime, TicksExclude
  PROVE  /\ \A m, n \in Miners : Busy(m) /\ Busy(n) => m = n
         /\ \A m, n \in Miners : Tick(m) \/ Call(m) => ~Busy(n)
<1>1. CASE Callers = {}
  BY <1>1 DEF Miners, TicksExclude, Tick, Call
<1>2. CASE \A m, n \in Miners : m = n
  BY <1>2 DEF Tick, Call, StartMine, Busy
<1>3. QED
  BY <1>1, <1>2 DEF OneAtATime

(* Appending leaves the front of a sequence as it was. *)
LEMMA FrontOfAppend ==
  ASSUME NEW S, NEW s \in Seq(S), NEW e \in S, NEW n \in 1..Len(s)
  PROVE  /\ SubSeq(Append(s, e), 1, n) = SubSeq(s, 1, n)
         /\ n \in 1..Len(Append(s, e))
<1>1. Len(s) \in Nat
  BY LenProperties
<1>2. /\ Append(s, e) \in Seq(S)
      /\ Len(Append(s, e)) = Len(s) + 1
      /\ \A i \in 1..Len(s) : Append(s, e)[i] = s[i]
  BY AppendProperties
<1>3. \A i \in 1..n : Append(s, e)[i] = s[i] /\ s[i] \in S
  BY <1>1, <1>2, ElementOfSeq
<1>4. /\ SubSeq(s, 1, n) \in Seq(S) /\ Len(SubSeq(s, 1, n)) = n
      /\ \A i \in 1..n : SubSeq(s, 1, n)[i] = s[i]
  <2>1. 1 \in Int /\ n \in Int /\ n - 1 + 1 = n /\ \A i \in 1..n : 1 + i - 1 = i
    BY <1>1
  <2>2. QED
    BY <2>1, <1>3, SubSeqProperties
<1>5. /\ SubSeq(Append(s, e), 1, n) \in Seq(S) /\ Len(SubSeq(Append(s, e), 1, n)) = n
      /\ \A i \in 1..n : SubSeq(Append(s, e), 1, n)[i] = Append(s, e)[i]
  <2>1. 1 \in Int /\ n \in Int /\ n - 1 + 1 = n /\ \A i \in 1..n : 1 + i - 1 = i
    BY <1>1
  <2>2. QED
    BY <2>1, <1>3, SubSeqProperties
<1>6. SubSeq(Append(s, e), 1, n) = SubSeq(s, 1, n)
  BY <1>3, <1>4, <1>5, SeqEqual
<1>7. QED
  BY <1>1, <1>2, <1>6

(* Appending a new element keeps a sequence free of repetitions. *)
LEMMA AppendNew ==
  ASSUME NEW S, NEW s \in Seq(S), NEW e \in S,
         AllDistinct(s), e \notin Elements(s)
  PROVE  /\ AllDistinct(Append(s, e))
         /\ Elements(Append(s, e)) = Elements(s) \cup {e}
<1>1. Len(s) \in Nat /\ DOMAIN s = 1..Len(s)
  BY LenProperties
<1>2. /\ Append(s, e) \in Seq(S)
      /\ Len(Append(s, e)) = Len(s) + 1
      /\ \A i \in 1..Len(s) : Append(s, e)[i] = s[i]
      /\ Append(s, e)[Len(s) + 1] = e
  BY AppendProperties
<1>3. DOMAIN Append(s, e) = 1..(Len(s) + 1)
  BY <1>2, LenProperties
<1>4. QED
  BY <1>1, <1>2, <1>3 DEF AllDistinct, Elements

(* Queuing a transaction appends it to the log; a commit, which takes the
   front of pending, leaves the log as it was.                              *)
LEMMA QueueAppends ==
  ASSUME TypeOK, NEW t \in Txs, Queue(t)
  PROVE  Accepted \in Seq(Txs) /\ Accepted' = Append(Accepted, t)
<1>1. minedTxs \in Seq(Txs) /\ pending \in Seq(Txs) /\ <<t>> \in Seq(Txs)
  BY DEF TypeOK
<1>2. Accepted \in Seq(Txs)
  BY <1>1, ConcatProperties DEF Accepted
<1>3. minedTxs' = minedTxs /\ pending' = pending \o <<t>>
  BY <1>1, AppendIsConcat DEF Queue, history
<1>4. minedTxs \o (pending \o <<t>>) = (minedTxs \o pending) \o <<t>>
  BY <1>1, ConcatAssociative
<1>5. Append(Accepted, t) = Accepted \o <<t>>
  BY <1>2, AppendIsConcat
<1>6. QED
  BY <1>2, <1>3, <1>4, <1>5 DEF Accepted

LEMMA CommitKeepsLog ==
  ASSUME TypeOK, DraftHoldsFront, NEW m \in Miners, Commit(m)
  PROVE  Accepted' = Accepted
<1> DEFINE n == Len(draft[m].txs)
<1>1. minedTxs \in Seq(Txs) /\ pending \in Seq(Txs)
  BY DEF TypeOK
<1>2. n \in 1..Len(pending) /\ draft[m].txs = SubSeq(pending, 1, n)
  BY DEF DraftHoldsFront, HoldsFront, Building, Commit
<1>3. n \in 0..Len(pending)
  BY <1>1, <1>2, LenProperties
<1>4. /\ minedTxs' = minedTxs \o SubSeq(pending, 1, n)
      /\ pending' = Drop(pending, n)
  BY <1>2, Zenon DEF Commit
<1>5. (minedTxs \o SubSeq(pending, 1, n)) \o Drop(pending, n) = minedTxs \o pending
  BY <1>1, <1>3, MoveFront
<1>6. QED
  BY <1>4, <1>5, Zenon DEF Accepted

LEMMA LogFrame ==
  ASSUME UNCHANGED <<minedTxs, pending>> PROVE Accepted' = Accepted
BY DEF Accepted

(* The slice a suspended miner holds stays the front of pending: submissions
   only append, and nobody else commits meanwhile.                          *)
LEMMA DraftHoldsFrontStep ==
  ASSUME ChainAssumption, OneAtATime, TypeOK, TicksExclude,
         DraftHoldsFront, [Next]_vars
  PROVE  DraftHoldsFront'
<1> USE DEF submitVars, chainVars, minerVars, history
<1>1. ASSUME NEW t \in Txs, Execute(t) \/ Trap(t) PROVE DraftHoldsFront'
  BY <1>1 DEF Execute, Trap, DraftHoldsFront, HoldsFront, Building
<1>2. ASSUME NEW t \in Txs, Queue(t) PROVE DraftHoldsFront'
  <2> SUFFICES ASSUME NEW m \in Miners, Building(m)'
               PROVE  HoldsFront(m)'
    BY DEF DraftHoldsFront
  <2>1. /\ Building(m) /\ draft' = draft /\ pending' = Append(pending, t)
        /\ pending \in Seq(Txs)
    BY <1>2 DEF Queue, Building, TypeOK
  <2>2. HoldsFront(m)
    BY <2>1 DEF DraftHoldsFront, HoldsFront
  <2>3. QED
    BY <2>1, <2>2, FrontOfAppend DEF HoldsFront
<1>3. ASSUME NEW m \in Miners, StartMine(m) PROVE DraftHoldsFront'
  <2>1. /\ TakeCount \in 1..Len(pending)
        /\ MaxTxPerBlock = 0 \/ TakeCount <= MaxTxPerBlock
    BY <1>3, TakeCountType DEF StartMine, NextHeight, TypeOK
  <2>2. Len(SubSeq(pending, 1, TakeCount)) = TakeCount
    <3>1. pending \in Seq(Txs) /\ TakeCount \in 0..Len(pending)
      BY <2>1, LenProperties DEF TypeOK
    <3>2. QED
      BY <3>1, TakeDrop
  <2>3. draft'[m].txs = SubSeq(pending, 1, TakeCount)
    BY <1>3 DEF StartMine, NextHeight, TypeOK, NoBlock
  <2>4. \A n \in Miners : n # m => draft'[n] = draft[n] /\ pc'[n] = pc[n]
    BY <1>3 DEF StartMine, NextHeight, TypeOK
  <2>5. pending' = pending
    BY <1>3 DEF StartMine, NextHeight, NextHeight
  <2>6. QED
    BY <2>1, <2>2, <2>3, <2>4, <2>5 DEF DraftHoldsFront, HoldsFront, Building
<1>4. ASSUME NEW m \in Miners, ReadStateRoot(m) \/ ReadQuantumRoot(m)
      PROVE  DraftHoldsFront'
  <2>1. /\ \A n \in Miners : draft'[n].txs = draft[n].txs
        /\ \A n \in Miners : Building(n)' <=> Building(n)
        /\ pending' = pending
    <3>1. CASE ReadStateRoot(m)
      BY <3>1 DEF ReadStateRoot, ComputeStateRoot, TypeOK, Building, Block
    <3>2. CASE ReadQuantumRoot(m)
      BY <3>2 DEF ReadQuantumRoot, ComputeStateRoot, TypeOK, Building, Block
    <3>3. QED
      BY <1>4, <3>1, <3>2
  <2>2. QED
    BY <2>1 DEF DraftHoldsFront, HoldsFront
<1>5. ASSUME NEW m \in Miners,
             MineFails(m) \/ FinishSeal(m) \/ FinishStore(m)
      PROVE  DraftHoldsFront'
  <2>1. /\ \A n \in Miners : Building(n)' => Building(n) /\ draft'[n] = draft[n]
        /\ pending' = pending
    BY <1>5 DEF MineFails, FinishSeal, FinishStore, Return, TypeOK, Building
  <2>2. QED
    BY <2>1 DEF DraftHoldsFront, HoldsFront
<1>6. ASSUME NEW m \in Miners, Commit(m) PROVE DraftHoldsFront'
  <2>1. \A n \in Miners : ~Building(n)'
    BY <1>6, OneMiner DEF Commit, Return, TypeOK, Building, Busy
  <2>2. QED
    BY <2>1 DEF DraftHoldsFront, HoldsFront
<1>7. CASE UNCHANGED vars
  BY <1>7 DEF vars, DraftHoldsFront, HoldsFront, Building
<1>8. QED
  BY <1>1, <1>2, <1>3, <1>4, <1>5, <1>6, <1>7
     DEF Next, Submission, Tick, Call, Resume

LEMMA AcceptedOnceStep ==
  ASSUME ChainAssumption, OneAtATime, AutoInv, [Next]_vars
  PROVE  AcceptedOnce'
<1> USE DEF AutoInv, submitVars, chainVars, minerVars, history
<1>1. ASSUME NEW t \in Txs, Execute(t) \/ Trap(t) PROVE AcceptedOnce'
  <2>1. Accepted' = Accepted
    BY <1>1, LogFrame DEF Execute, Trap
  <2>2. \A u \in Txs : submitted'[u] = "queued" <=> submitted[u] = "queued"
    BY <1>1 DEF Execute, Trap, TypeOK
  <2>3. QED
    BY <2>1, <2>2 DEF AcceptedOnce
<1>2. ASSUME NEW t \in Txs, Queue(t) PROVE AcceptedOnce'
  <2>1. Accepted \in Seq(Txs) /\ Accepted' = Append(Accepted, t)
    BY <1>2, QueueAppends
  <2>2. /\ submitted[t] = "executed" /\ submitted'[t] = "queued"
        /\ \A u \in Txs : u # t => submitted'[u] = submitted[u]
    BY <1>2 DEF Queue, TypeOK
  <2>3. t \notin Elements(Accepted) /\ AllDistinct(Accepted)
    BY <2>2 DEF AcceptedOnce
  <2>4. /\ AllDistinct(Accepted')
        /\ Elements(Accepted') = Elements(Accepted) \cup {t}
    BY <2>1, <2>3, AppendNew
  <2>5. QED
    BY <2>2, <2>4 DEF AcceptedOnce
<1>3. ASSUME UNCHANGED <<submitted, minedTxs, pending>> PROVE AcceptedOnce'
  BY <1>3, LogFrame DEF AcceptedOnce
<1>4. ASSUME NEW m \in Miners, Commit(m) PROVE AcceptedOnce'
  <2>1. Accepted' = Accepted /\ submitted' = submitted
    BY <1>4, CommitKeepsLog DEF Commit
  <2>2. QED
    BY <2>1 DEF AcceptedOnce
<1>5. ASSUME NEW m \in Miners,
             StartMine(m) \/ ReadStateRoot(m) \/ ReadQuantumRoot(m)
               \/ MineFails(m) \/ FinishSeal(m) \/ FinishStore(m)
      PROVE  UNCHANGED <<submitted, minedTxs, pending>>
  BY <1>5 DEF StartMine, NextHeight, ReadStateRoot, ReadQuantumRoot, MineFails, FinishSeal,
     FinishStore
<1>6. CASE UNCHANGED vars
  BY <1>3, <1>6 DEF vars
<1>7. QED
  BY <1>1, <1>2, <1>3, <1>4, <1>5, <1>6
     DEF Next, Submission, Tick, Call, Resume

LEMMA AutoStep ==
  ASSUME ChainAssumption, OneAtATime
  PROVE  AutoInv /\ [Next]_vars => AutoInv'
BY TypeStep, TicksExcludeStep, DraftHoldsFrontStep, AcceptedOnceStep DEF AutoInv

LEMMA AutoInvariant == OneAtATime => (Spec => []AutoInv)
<1> SUFFICES ASSUME OneAtATime PROVE Spec => []AutoInv
  OBVIOUS
<1>1. Init => AutoInv
  BY AutoInit, ChainAssumption
<1>2. AutoInv /\ [Next]_vars => AutoInv'
  BY AutoStep, ChainAssumption
<1>3. QED
  BY <1>1, <1>2, PTL DEF Spec

(* When one process mines at a time, every acknowledged
   transaction is pending or in one block, once.                            *)
THEOREM LoneMinerAcceptedOnce == OneAtATime => (Spec => []AcceptedOnce)
<1> SUFFICES ASSUME OneAtATime PROVE Spec => []AcceptedOnce
  OBVIOUS
<1>1. AutoInv => AcceptedOnce
  BY DEF AutoInv
<1>2. QED
  BY <1>1, AutoInvariant, PTL

-----------------------------------------------------------------------------
(* Refinement: with one miner at a time, block production implements TxLog. *)

LEMMA LogInit == Init => Log!Init
<1> SUFFICES ASSUME Init PROVE Log!Init
  OBVIOUS
<1>1. Accepted = <<>> /\ Len(minedTxs) = 0
  BY ConcatEmptySeq, EmptySeq DEF Init, Accepted
<1>2. QED
  BY <1>1 DEF Log!Init

(* Each step of the VM is a step of the log or leaves the log alone. *)
LEMMA LogStep ==
  ASSUME ChainAssumption, AutoInv, [Next]_vars
  PROVE  [Log!Next]_<<Accepted, Len(minedTxs)>>
<1> USE DEF submitVars, chainVars, minerVars, history
<1>1. ASSUME NEW t \in Txs, Queue(t) PROVE Log!Next
  <2>1. Accepted \in Seq(Txs) /\ Accepted' = Append(Accepted, t)
    BY <1>1, QueueAppends DEF AutoInv
  <2>2. \A i \in DOMAIN Accepted : Accepted[i] # t
    BY <1>1 DEF AutoInv, AcceptedOnce, Elements, Queue
  <2>3. Len(minedTxs)' = Len(minedTxs)
    BY <1>1 DEF Queue
  <2>4. Log!Accept(t)
    BY <2>1, <2>2, <2>3 DEF Log!Accept
  <2>5. QED
    BY <2>4 DEF Log!Next
<1>2. ASSUME NEW m \in Miners, Commit(m) PROVE Log!Next
  <2> DEFINE n == Len(draft[m].txs)
  <2>1. HoldsFront(m) /\ Accepted' = Accepted
    BY <1>2, CommitKeepsLog DEF AutoInv, DraftHoldsFront, Building, Commit
  <2>2. /\ minedTxs \in Seq(Txs) /\ pending \in Seq(Txs)
        /\ draft[m].txs \in Seq(Txs)
    BY DEF AutoInv, TypeOK, Block
  <2>3. /\ Len(minedTxs) \in Nat /\ Len(pending) \in Nat
        /\ Len(Accepted) = Len(minedTxs) + Len(pending)
    BY <2>2, LenProperties, ConcatProperties DEF Accepted
  <2>4. Len(minedTxs') = Len(minedTxs) + n
    <3>1. minedTxs' = minedTxs \o draft[m].txs
      BY <1>2 DEF Commit
    <3>2. Len(minedTxs \o draft[m].txs) = Len(minedTxs) + n
      BY <2>2, ConcatProperties
    <3>3. QED
      BY <3>1, <3>2
  <2>5. /\ n \in 1..Len(Accepted) /\ n <= Len(Accepted) - Len(minedTxs)
        /\ MaxTxPerBlock = 0 \/ n <= MaxTxPerBlock
    BY <2>1, <2>3 DEF HoldsFront
  <2>6. Log!Mine(n)
    BY <2>1, <2>4, <2>5 DEF Log!Mine
  <2>7. QED
    BY <2>5, <2>6 DEF Log!Next
<1>3. ASSUME UNCHANGED <<minedTxs, pending>>
      PROVE  UNCHANGED <<Accepted, Len(minedTxs)>>
  BY <1>3, LogFrame
<1>4. ASSUME NEW t \in Txs, Execute(t) \/ Trap(t)
      PROVE  UNCHANGED <<minedTxs, pending>>
  BY <1>4 DEF Execute, Trap
<1>5. ASSUME NEW m \in Miners,
             StartMine(m) \/ ReadStateRoot(m) \/ ReadQuantumRoot(m)
               \/ MineFails(m) \/ FinishSeal(m) \/ FinishStore(m)
      PROVE  UNCHANGED <<minedTxs, pending>>
  BY <1>5 DEF StartMine, NextHeight, ReadStateRoot, ReadQuantumRoot, MineFails, FinishSeal,
     FinishStore
<1>6. CASE UNCHANGED vars
  BY <1>3, <1>6 DEF vars
<1>7. QED
  BY <1>1, <1>2, <1>3, <1>4, <1>5, <1>6
     DEF Next, Submission, Tick, Call, Resume

(* A lone miner implements the abstract transaction log: no step of it
   reorders, repeats or drops an accepted transaction.                      *)
THEOREM LoneMinerImplementsTxLog == OneAtATime => (Spec => ImplementsTxLog)
<1> SUFFICES ASSUME OneAtATime PROVE Spec => ImplementsTxLog
  OBVIOUS
<1>1. Init => Log!Init
  BY LogInit
<1>2. AutoInv /\ [Next]_vars => [Log!Next]_<<Accepted, Len(minedTxs)>>
  BY LogStep, ChainAssumption
<1>3. QED
  BY <1>1, <1>2, AutoInvariant, PTL DEF Spec, ImplementsTxLog, Log!Spec

-----------------------------------------------------------------------------
(* What holds however many callers mine: no height is used twice, because   *)
(* each attempt takes its height in the step that increments the counter.   *)

HeightsInv ==
  /\ TypeOK
  /\ HeightsUnique
  /\ \A i \in DOMAIN mined : mined[i].height <= totalHeight
  /\ \A m \in Miners : Building(m) =>
       /\ draft[m].height <= totalHeight
       /\ \A i \in DOMAIN mined : mined[i].height # draft[m].height
       /\ \A n \in Miners : Building(n) /\ draft[n].height = draft[m].height
                            => n = m

LEMMA HeightsStep == ChainAssumption /\ HeightsInv /\ [Next]_vars => HeightsInv'
<1> SUFFICES ASSUME ChainAssumption, HeightsInv, [Next]_vars PROVE HeightsInv'
  OBVIOUS
<1> USE DEF HeightsInv, submitVars, chainVars, minerVars, history
<1>1. TypeOK'
  BY TypeStep
<1>2. ASSUME UNCHANGED <<mined, totalHeight>>,
             \A m \in Miners : Building(m)' => /\ Building(m)
                                               /\ draft'[m].height = draft[m].height
      PROVE  HeightsInv'
  BY <1>1, <1>2 DEF HeightsUnique
<1>3. ASSUME NEW t \in Txs, Submission(t) PROVE HeightsInv'
  BY <1>2, <1>3 DEF Submission, Execute, Trap, Queue, Building
<1>4. ASSUME NEW m \in Miners, StartMine(m) PROVE HeightsInv'
  <2>1. /\ totalHeight' = totalHeight + 1 /\ mined' = mined
        /\ draft'[m].height = totalHeight + 1
        /\ \A n \in Miners : n # m => /\ draft'[n] = draft[n]
                                      /\ Building(n)' <=> Building(n)
    BY <1>4 DEF StartMine, NextHeight, TypeOK, NoBlock, Building
  <2>2. /\ totalHeight \in Nat
        /\ \A i \in DOMAIN mined : mined[i].height \in Nat
        /\ \A n \in Miners : draft[n].height \in Nat
    <3>1. mined \in Seq(Block) /\ totalHeight \in Nat
      BY DEF TypeOK
    <3>2. \A i \in DOMAIN mined : mined[i] \in Block
      BY <3>1, LenProperties, ElementOfSeq
    <3>3. QED
      BY <3>1, <3>2 DEF TypeOK, Block
  <2>3. HeightsUnique'
    BY <2>1 DEF HeightsUnique
  <2>4. QED
    BY <1>1, <2>1, <2>2, <2>3
<1>5. ASSUME NEW m \in Miners, ReadStateRoot(m) PROVE HeightsInv'
  <2>1. /\ \A k \in Miners : draft'[k].height = draft[k].height
        /\ \A k \in Miners : Building(k)' => Building(k)
        /\ UNCHANGED <<mined, totalHeight>>
    BY <1>5 DEF ReadStateRoot, ComputeStateRoot, TypeOK, Building, Block
  <2>2. QED
    BY <1>2, <2>1
<1>6. ASSUME NEW m \in Miners, ReadQuantumRoot(m) PROVE HeightsInv'
  <2>1. /\ \A k \in Miners : draft'[k].height = draft[k].height
        /\ \A k \in Miners : Building(k)' => Building(k)
        /\ UNCHANGED <<mined, totalHeight>>
    BY <1>6 DEF ReadQuantumRoot, ComputeStateRoot, TypeOK, Building, Block
  <2>2. QED
    BY <1>2, <2>1
<1>7. ASSUME NEW m \in Miners,
             MineFails(m) \/ FinishSeal(m) \/ FinishStore(m)
      PROVE  HeightsInv'
  BY <1>2, <1>7 DEF MineFails, FinishSeal, FinishStore, Return, TypeOK, Building
<1>8. ASSUME NEW m \in Miners, Commit(m) PROVE HeightsInv'
  <2>1. /\ Building(m) /\ ~Building(m)' /\ totalHeight' = totalHeight
        /\ mined' = Append(mined, draft[m])
        /\ \A n \in Miners : n # m => /\ draft'[n] = draft[n]
                                      /\ Building(n)' <=> Building(n)
    BY <1>8 DEF Commit, Return, TypeOK, Building
  <2>2. mined \in Seq(Block) /\ draft[m] \in Block
    BY DEF TypeOK
  <2>3. /\ Len(mined) \in Nat /\ DOMAIN mined = 1..Len(mined)
        /\ DOMAIN mined' = 1..(Len(mined) + 1)
        /\ \A i \in 1..Len(mined) : mined'[i] = mined[i]
        /\ mined'[Len(mined) + 1] = draft[m]
    BY <2>1, <2>2, LenProperties, AppendProperties
  <2>4. \A i \in DOMAIN mined' : i \in DOMAIN mined \/ i = Len(mined) + 1
    BY <2>3
  <2>5. HeightsUnique'
    BY <2>1, <2>3, <2>4 DEF HeightsUnique
  <2>6. QED
    BY <1>1, <2>1, <2>3, <2>4, <2>5
<1>9. CASE UNCHANGED vars
  BY <1>2, <1>9 DEF vars, Building
<1>10. QED
  BY <1>3, <1>4, <1>5, <1>6, <1>7, <1>8, <1>9
     DEF Next, Tick, Call, Resume

(* Two blocks never carry the same height, with any number of callers. *)
THEOREM NoHeightTwice == Spec => []HeightsUnique
<1>1. Init => HeightsInv
  BY TypeInit, ChainAssumption
     DEF Init, HeightsInv, HeightsUnique, Building
<1>2. HeightsInv => HeightsUnique
  BY DEF HeightsInv
<1>3. QED
  BY <1>1, <1>2, HeightsStep, ChainAssumption, PTL DEF Spec

-----------------------------------------------------------------------------
(* A transaction is executed before it can be queued, and storage only      *)
(* gains effects, so a root read after the slice covers the slice.          *)

RootsInv ==
  /\ TypeOK
  /\ RootsCoverBlock
  /\ \A t \in Txs : submitted[t] \in {"executed", "queued"} => t \in state
  /\ Elements(pending) \subseteq state
  /\ \A m \in Miners :
       /\ Building(m) => Elements(draft[m].txs) \subseteq state
       /\ pc[m] \in {"rooted", "digesting"} =>
            /\ Elements(draft[m].txs) \subseteq draft[m].stateRoot
            /\ draft[m].stateRoot \subseteq state
       /\ pc[m] = "digesting" =>
            draft[m].stateRoot \subseteq draft[m].quantumStateRoot

LEMMA RootsStep == ChainAssumption /\ RootsInv /\ [Next]_vars => RootsInv'
<1> SUFFICES ASSUME ChainAssumption, RootsInv, [Next]_vars PROVE RootsInv'
  OBVIOUS
<1> USE DEF RootsInv, submitVars, chainVars, minerVars, history
<1>1. TypeOK'
  BY TypeStep
<1>2. ASSUME NEW t \in Txs, Execute(t) \/ Trap(t) PROVE RootsInv'
  BY <1>1, <1>2 DEF Execute, Trap, TypeOK, Building, RootsCoverBlock
<1>3. ASSUME NEW t \in Txs, Queue(t) PROVE RootsInv'
  <2>1. /\ Len(pending) \in Nat /\ DOMAIN pending = 1..Len(pending)
        /\ DOMAIN Append(pending, t) = 1..(Len(pending) + 1)
        /\ \A i \in 1..Len(pending) : Append(pending, t)[i] = pending[i]
        /\ Append(pending, t)[Len(pending) + 1] = t
    BY LenProperties, AppendProperties DEF TypeOK
  <2>2. t \in state
    BY <1>3 DEF Queue
  <2>3. Elements(pending') \subseteq state
    BY <1>3, <2>1, <2>2 DEF Queue, Elements
  <2>4. QED
    BY <1>1, <1>3, <2>2, <2>3 DEF Queue, TypeOK, Building, RootsCoverBlock
<1>4. ASSUME NEW m \in Miners, StartMine(m) PROVE RootsInv'
  <2> DEFINE n == TakeCount
  <2>1. pending \in Seq(Txs) /\ n \in 0..Len(pending)
    BY <1>4, TakeCountType, LenProperties DEF StartMine, NextHeight, TypeOK
  <2>2. Elements(SubSeq(pending, 1, n)) \subseteq Elements(pending)
    <3>1. n \in Nat /\ n <= Len(pending)
      BY <2>1, LenProperties
    <3>2. QED
      BY <2>1, <3>1, PartElements
  <2>3. /\ draft'[m].txs = SubSeq(pending, 1, n) /\ pc'[m] = "hashing"
        /\ \A k \in Miners : k # m => draft'[k] = draft[k] /\ pc'[k] = pc[k]
        /\ UNCHANGED <<submitted, state, pending, mined>>
    BY <1>4 DEF StartMine, NextHeight, TypeOK, NoBlock
  <2>4. RootsCoverBlock'
    BY <2>3 DEF RootsCoverBlock
  <2>5. QED
    BY <1>1, <2>2, <2>3, <2>4 DEF Building
<1>5. ASSUME NEW m \in Miners, ReadStateRoot(m) PROVE RootsInv'
  <2>1. /\ draft'[m].txs = draft[m].txs /\ draft'[m].stateRoot = state
        /\ pc'[m] = "rooted" /\ Building(m)
        /\ \A k \in Miners : k # m => draft'[k] = draft[k] /\ pc'[k] = pc[k]
        /\ UNCHANGED <<submitted, state, pending, mined>>
    BY <1>5 DEF ReadStateRoot, ComputeStateRoot, TypeOK, Block, Building
  <2>2. RootsCoverBlock'
    BY <2>1 DEF RootsCoverBlock
  <2>3. QED
    BY <1>1, <2>1, <2>2 DEF Building
<1>6. ASSUME NEW m \in Miners, ReadQuantumRoot(m) PROVE RootsInv'
  <2>1. /\ draft'[m].txs = draft[m].txs /\ draft'[m].stateRoot = draft[m].stateRoot
        /\ draft'[m].quantumStateRoot = state
        /\ pc[m] = "rooted" /\ pc'[m] = "digesting"
        /\ \A k \in Miners : k # m => draft'[k] = draft[k] /\ pc'[k] = pc[k]
        /\ UNCHANGED <<submitted, state, pending, mined>>
    BY <1>6 DEF ReadQuantumRoot, ComputeStateRoot, TypeOK, Block
  <2>2. RootsCoverBlock'
    BY <2>1 DEF RootsCoverBlock
  <2>3. QED
    BY <1>1, <2>1, <2>2 DEF Building
<1>7. ASSUME NEW m \in Miners,
             MineFails(m) \/ FinishSeal(m) \/ FinishStore(m)
      PROVE  RootsInv'
  <2>1. /\ pc'[m] = "idle"
        /\ \A k \in Miners : k # m => draft'[k] = draft[k] /\ pc'[k] = pc[k]
        /\ UNCHANGED <<submitted, state, pending, mined>>
    BY <1>7 DEF MineFails, FinishSeal, FinishStore, Return, TypeOK
  <2>2. RootsCoverBlock'
    BY <2>1 DEF RootsCoverBlock
  <2>3. QED
    BY <1>1, <2>1, <2>2 DEF Building
<1>8. ASSUME NEW m \in Miners, Commit(m) PROVE RootsInv'
  <2>1. /\ pc[m] = "digesting" /\ pc'[m] \in {"idle", "sealing", "storing"}
        /\ mined' = Append(mined, draft[m])
        /\ pending' = Drop(pending, Len(draft[m].txs))
        /\ \A k \in Miners : k # m => draft'[k] = draft[k] /\ pc'[k] = pc[k]
        /\ UNCHANGED <<submitted, state>>
    BY <1>8 DEF Commit, Return, TypeOK
  <2>2. /\ Len(mined) \in Nat /\ DOMAIN mined = 1..Len(mined)
        /\ DOMAIN mined' = 1..(Len(mined) + 1)
        /\ \A i \in 1..Len(mined) : mined'[i] = mined[i]
        /\ mined'[Len(mined) + 1] = draft[m]
    BY <2>1, LenProperties, AppendProperties DEF TypeOK
  <2>3. RootsCoverBlock'
    <3>1. \A i \in DOMAIN mined' : i \in DOMAIN mined \/ i = Len(mined) + 1
      BY <2>2
    <3>2. QED
      BY <2>1, <2>2, <3>1 DEF RootsCoverBlock
  <2>4. Elements(pending') \subseteq Elements(pending)
    <3>1. Len(draft[m].txs) \in Nat /\ pending \in Seq(Txs)
      BY LenProperties DEF TypeOK, Block
    <3>2. QED
      BY <2>1, <3>1, PartElements
  <2>5. QED
    BY <1>1, <2>1, <2>3, <2>4 DEF Building
<1>9. CASE UNCHANGED vars
  BY <1>1, <1>9 DEF vars, Building, RootsCoverBlock
<1>10. QED
  BY <1>2, <1>3, <1>4, <1>5, <1>6, <1>7, <1>8, <1>9
     DEF Next, Submission, Tick, Call, Resume

(* The state root of a block covers the block's transactions and its Verkle
   root is no older, with any number of callers mining.                     *)
THEOREM RootsCover == Spec => []RootsCoverBlock
<1>1. Init => RootsInv
  BY TypeInit, ChainAssumption
     DEF Init, RootsInv, RootsCoverBlock, Building, Elements
<1>2. RootsInv => RootsCoverBlock
  BY DEF RootsInv
<1>3. QED
  BY <1>1, <1>2, RootsStep, ChainAssumption, PTL DEF Spec

-----------------------------------------------------------------------------
(* A miner that is suspended is the only one, so what it read when it        *)
(* started is what it finds when it resumes.                                 *)

(* The last block and the others of an extended chain. *)
LEMMA AppendBlock ==
  ASSUME NEW bs \in Seq(Block), NEW b \in Block
  PROVE  /\ Len(bs) \in Nat /\ DOMAIN bs = 1..Len(bs)
         /\ DOMAIN Append(bs, b) = 1..(Len(bs) + 1) /\ Len(Append(bs, b)) = Len(bs) + 1
         /\ \A i \in 1..Len(bs) : Append(bs, b)[i] = bs[i] /\ bs[i] \in Block
         /\ Append(bs, b)[Len(bs) + 1] = b
         /\ Elements(Append(bs, b)) = Elements(bs) \cup {b}
<1>1. /\ Len(bs) \in Nat /\ DOMAIN bs = 1..Len(bs)
      /\ DOMAIN Append(bs, b) = 1..(Len(bs) + 1) /\ Len(Append(bs, b)) = Len(bs) + 1
      /\ \A i \in 1..Len(bs) : Append(bs, b)[i] = bs[i] /\ bs[i] \in Block
      /\ Append(bs, b)[Len(bs) + 1] = b
  BY LenProperties, AppendProperties, ElementOfSeq
<1>2. \A i \in 1..(Len(bs) + 1) : i \in 1..Len(bs) \/ i = Len(bs) + 1
  BY <1>1
<1>3. 1..Len(bs) \subseteq 1..(Len(bs) + 1) /\ Len(bs) + 1 \in 1..(Len(bs) + 1)
  BY <1>1
<1>4. Elements(Append(bs, b)) = Elements(bs) \cup {b}
  BY <1>1, <1>2, <1>3 DEF Elements
<1>5. QED
  BY <1>1, <1>4

(* BlocksFollow is not inductive: a block follows those in memory because no
   block was pushed or sealed since it took its height and its predecessor. *)
FollowInv ==
  /\ BlocksFollow
  /\ \A i \in DOMAIN mined : mined[i].height <= totalHeight
  /\ \A m \in Miners : Building(m) =>
       /\ draft[m].prevHash = PrevHash
       /\ draft[m].height <= totalHeight
       /\ \A i \in DOMAIN mined : mined[i].height < draft[m].height

LEMMA FollowCommit ==
  ASSUME OneAtATime, TypeOK, TicksExclude, FollowInv, NEW m \in Miners, Commit(m)
  PROVE  FollowInv'
<1> DEFINE d == draft[m]
<1>1. /\ Building(m) /\ d \in Block /\ mined \in Seq(Block) /\ blocks \in Seq(Block)
      /\ mined' = Append(mined, d) /\ blocks' = Append(blocks, d) /\ totalHeight' = totalHeight
      /\ totalHeight \in Nat /\ d.height \in Nat
  BY DEF Commit, Building, TypeOK, Block, chainVars
<1>2. \A n \in Miners : ~Building(n)'
  <2>1. \A n \in Miners : n # m => pc'[n] = pc[n] /\ pc[n] = "idle"
    BY <1>1, OneMiner DEF Commit, Return, TypeOK, Busy, Building
  <2>2. pc'[m] \in {"storing", "sealing", "idle"}
    BY DEF Commit, Return, TypeOK
  <2>3. QED
    BY <2>1, <2>2 DEF Building
<1>3. /\ d.prevHash = PrevHash /\ d.height <= totalHeight
      /\ \A i \in DOMAIN mined : mined[i].height < d.height
  BY <1>1 DEF FollowInv
<1>4. \A i \in DOMAIN mined' : mined'[i].height <= totalHeight'
  BY <1>1, <1>3, AppendBlock DEF FollowInv
<1>5. \A i, j \in DOMAIN mined' : i < j => mined'[i].height < mined'[j].height
  <2> SUFFICES ASSUME NEW i \in DOMAIN mined', NEW j \in DOMAIN mined', i < j
               PROVE  mined'[i].height < mined'[j].height
    OBVIOUS
  <2>1. i \in 1..Len(mined) /\ mined'[i] = mined[i] /\ (j \in 1..Len(mined) \/ j = Len(mined) + 1)
    BY <1>1, AppendBlock
  <2>2. CASE j \in 1..Len(mined)
    BY <1>1, <2>1, <2>2, AppendBlock DEF FollowInv, BlocksFollow
  <2>3. CASE j = Len(mined) + 1
    BY <1>1, <1>3, <2>1, <2>3, AppendBlock
  <2>4. QED
    BY <2>1, <2>2, <2>3
<1>6. \A i \in DOMAIN blocks' : i > 1 => blocks'[i].prevHash = blocks'[i - 1].height
  <2> SUFFICES ASSUME NEW i \in DOMAIN blocks', i > 1
               PROVE  blocks'[i].prevHash = blocks'[i - 1].height
    OBVIOUS
  <2>1. /\ i - 1 \in 1..Len(blocks) /\ blocks'[i - 1] = blocks[i - 1]
        /\ (i \in 1..Len(blocks) \/ i = Len(blocks) + 1)
    BY <1>1, AppendBlock
  <2>2. CASE i \in 1..Len(blocks)
    BY <1>1, <2>1, <2>2, AppendBlock DEF FollowInv, BlocksFollow
  <2>3. CASE i = Len(blocks) + 1
    <3>1. blocks # <<>> /\ i - 1 = Len(blocks)
      BY <1>1, <2>1, <2>3, AppendBlock
    <3>2. d.prevHash = blocks[Len(blocks)].height
      BY <1>3, <3>1 DEF PrevHash
    <3>3. QED
      BY <1>1, <2>1, <2>3, <3>1, <3>2, AppendBlock
  <2>4. QED
    BY <2>1, <2>2, <2>3
<1>7. QED
  BY <1>2, <1>4, <1>5, <1>6 DEF FollowInv, BlocksFollow

LEMMA FollowStep ==
  ASSUME ChainAssumption, OneAtATime, TypeOK, TicksExclude, FollowInv, [Next]_vars
  PROVE  FollowInv'
<1> USE DEF submitVars, chainVars, minerVars, history
<1>1. ASSUME UNCHANGED <<mined, totalHeight, blocks>>,
             \A m \in Miners : Building(m)' => /\ Building(m)
                                               /\ draft'[m].height = draft[m].height
                                               /\ draft'[m].prevHash = draft[m].prevHash
      PROVE  FollowInv'
  BY <1>1 DEF FollowInv, BlocksFollow, PrevHash
<1>2. ASSUME NEW t \in Txs, Submission(t) PROVE FollowInv'
  BY <1>1, <1>2 DEF Submission, Execute, Trap, Queue, Building
<1>3. ASSUME NEW m \in Miners, Tick(m) \/ Call(m) PROVE FollowInv'
  <2>1. /\ totalHeight' = totalHeight + 1 /\ UNCHANGED <<mined, blocks>>
        /\ draft'[m].height = totalHeight + 1 /\ draft'[m].prevHash = PrevHash
        /\ \A n \in Miners : n # m => pc'[n] = pc[n]
    BY <1>3 DEF Tick, Call, StartMine, NextHeight, TypeOK, NoBlock
  <2>2. \A n \in Miners : n # m => ~Building(n)'
    BY <1>3, <2>1, OneMiner DEF Busy, Building
  <2>3. mined \in Seq(Block) /\ totalHeight \in Nat /\ PrevHash' = PrevHash
    BY <2>1 DEF TypeOK, PrevHash
  <2>4. \A i \in DOMAIN mined : mined[i].height \in Nat
    <3>1. \A i \in DOMAIN mined : mined[i] \in Block
      BY <2>3, LenProperties, ElementOfSeq
    <3>2. QED
      BY <3>1 DEF Block
  <2>5. QED
    BY <2>1, <2>2, <2>3, <2>4 DEF FollowInv, BlocksFollow
<1>5. ASSUME NEW m \in Miners, ReadStateRoot(m) \/ ReadQuantumRoot(m) PROVE FollowInv'
  <2>1. CASE ReadStateRoot(m)
    <3>1. /\ \A k \in Miners : draft'[k].height = draft[k].height /\ draft'[k].prevHash = draft[k].prevHash
          /\ \A k \in Miners : Building(k)' => Building(k)
          /\ UNCHANGED <<mined, totalHeight, blocks>>
      BY <2>1 DEF ReadStateRoot, ComputeStateRoot, TypeOK, Building, Block
    <3>2. QED
      BY <1>1, <3>1
  <2>2. CASE ReadQuantumRoot(m)
    <3>1. /\ \A k \in Miners : draft'[k].height = draft[k].height /\ draft'[k].prevHash = draft[k].prevHash
          /\ \A k \in Miners : Building(k)' => Building(k)
          /\ UNCHANGED <<mined, totalHeight, blocks>>
      BY <2>2 DEF ReadQuantumRoot, ComputeStateRoot, TypeOK, Building, Block
    <3>2. QED
      BY <1>1, <3>1
  <2>3. QED
    BY <1>5, <2>1, <2>2
<1>6. ASSUME NEW m \in Miners, MineFails(m) \/ FinishStore(m) PROVE FollowInv'
  BY <1>1, <1>6 DEF MineFails, FinishStore, Return, TypeOK, Building
<1>7. ASSUME NEW m \in Miners, FinishSeal(m) PROVE FollowInv'
  <2>1. UNCHANGED <<mined, totalHeight, draft>> /\ blocks' = <<>> /\ Busy(m)
        /\ pc' = [pc EXCEPT ![m] = "idle"]
    BY <1>7 DEF FinishSeal, Return, Busy
  <2>2. \A n \in Miners : ~Building(n)'
    BY <2>1, OneMiner DEF Busy, Building, TypeOK
  <2>3. DOMAIN blocks' = {}
    BY <2>1
  <2>4. QED
    BY <2>1, <2>2, <2>3 DEF FollowInv, BlocksFollow
<1>8. ASSUME NEW m \in Miners, Commit(m) PROVE FollowInv'
  BY <1>8, FollowCommit
<1>9. CASE UNCHANGED vars
  BY <1>1, <1>9 DEF vars, Building
<1>10. QED
  BY <1>2, <1>3, <1>5, <1>6, <1>7, <1>8, <1>9 DEF Next, Resume

(* With one miner at a time, blocks are pushed in the order of their heights
   and each block in memory names the one before it.                        *)
THEOREM LoneMinerBlocksFollow == OneAtATime => (Spec => []BlocksFollow)
<1> SUFFICES ASSUME OneAtATime PROVE Spec => []BlocksFollow
  OBVIOUS
<1>1. Init => FollowInv
  BY DEF Init, FollowInv, BlocksFollow, Building
<1>2. AutoInv /\ FollowInv /\ [Next]_vars => FollowInv'
  BY FollowStep, ChainAssumption DEF AutoInv
<1>3. FollowInv => BlocksFollow
  BY DEF FollowInv
<1>4. QED
  BY <1>1, <1>2, <1>3, AutoInvariant, PTL DEF Spec

-----------------------------------------------------------------------------
(* Sealing: what sealBlocks digested before its await is what memory holds   *)
(* after it, so pruning memory forgets no block and archives none twice.     *)

(* A height stands for its block: two mined blocks of one height are one. *)
LEMMA BlockOfHeight ==
  ASSUME HeightsUnique, NEW b \in Elements(mined), NEW c \in Elements(mined), b.height = c.height
  PROVE  b = c
BY DEF HeightsUnique, Elements

SealInv ==
  /\ BlocksAccountedFor
  /\ Elements(blocks) \subseteq Elements(mined)
  /\ \A a \in DOMAIN sealed : \A h \in Elements(sealed[a].sealHash) : \E b \in Elements(mined) : b.height = h
  /\ \A m \in Miners : pc[m] = "sealing" => archive[m].sealHash = [i \in DOMAIN blocks |-> blocks[i].height]

LEMMA SealCommit ==
  ASSUME OneAtATime, TypeOK, TicksExclude, HeightsInv, SealInv, NEW m \in Miners, Commit(m)
  PROVE  SealInv'
<1> DEFINE d == draft[m]
<1>1. /\ Building(m) /\ d \in Block /\ mined \in Seq(Block) /\ blocks \in Seq(Block)
      /\ mined' = Append(mined, d) /\ blocks' = Append(blocks, d) /\ sealed' = sealed
  BY DEF Commit, Building, TypeOK, chainVars
<1>2. Elements(mined') = Elements(mined) \cup {d} /\ Elements(blocks') = Elements(blocks) \cup {d}
  BY <1>1, AppendBlock
<1>3. \A b \in Elements(mined) : b.height # d.height
  BY <1>1 DEF HeightsInv, Elements
<1>4. \A b : Holders(b)' = Holders(b)
  BY <1>1 DEF Holders
<1>5. Holders(d) = {}
  BY <1>3 DEF SealInv, Holders
<1>6. \A b \in Elements(mined) : b # d /\ (b \in Elements(blocks') <=> b \in Elements(blocks))
  BY <1>2, <1>3
<1>7. \A b \in Elements(mined') :
        IF b \in Elements(blocks') THEN Holders(b) = {} ELSE \E a \in DOMAIN sealed : Holders(b) = {a}
  BY <1>2, <1>5, <1>6 DEF SealInv, BlocksAccountedFor
<1>8. BlocksAccountedFor'
  BY <1>1, <1>4, <1>7 DEF SealInv, BlocksAccountedFor
<1>9. \A n \in Miners : pc'[n] = "sealing" => archive'[n].sealHash = [i \in DOMAIN blocks' |-> blocks'[i].height]
  <2> SUFFICES ASSUME NEW n \in Miners, pc'[n] = "sealing"
               PROVE  archive'[n].sealHash = [i \in DOMAIN blocks' |-> blocks'[i].height]
    OBVIOUS
  <2>1. n = m
    <3>1. ASSUME n # m PROVE FALSE
      <4>1. pc'[n] = pc[n] /\ Busy(m)
        BY <1>1, <3>1 DEF Commit, Return, TypeOK, Building, Busy
      <4>2. Busy(n)
        BY <4>1 DEF Busy
      <4>3. QED
        BY <3>1, <4>1, <4>2, OneMiner
    <3>2. QED
      BY <3>1
  <2>2. pc'[m] = "sealing"
    BY <2>1
  <2>3. archive' = [archive EXCEPT ![m] = ArchiveOf(blocks')]
    BY <2>2 DEF Commit, Return, TypeOK
  <2>4. archive'[m] = ArchiveOf(blocks')
    BY <2>3 DEF TypeOK
  <2>5. QED
    BY <2>1, <2>4 DEF ArchiveOf
<1>10. QED
  BY <1>1, <1>2, <1>8, <1>9 DEF SealInv

LEMMA SealFinish ==
  ASSUME OneAtATime, TypeOK, TicksExclude, HeightsInv, SealInv, NEW m \in Miners, FinishSeal(m)
  PROVE  SealInv'
<1> DEFINE k == Len(sealed) + 1
           new == [archive[m] EXCEPT !.blockCount = Len(blocks)]
<1>1. /\ pc[m] = "sealing" /\ sealed \in Seq(Archive) /\ archive[m] \in Archive /\ blocks \in Seq(Block)
      /\ sealed' = Append(sealed, new) /\ blocks' = <<>> /\ mined' = mined
  BY DEF FinishSeal, TypeOK, history
<1>2. /\ new \in Archive /\ new.blockCount = Len(blocks)
      /\ new.sealHash = [i \in DOMAIN blocks |-> blocks[i].height]
      /\ Len(new.sealHash) = Len(blocks)
  <2>1. Len(blocks) \in Nat /\ DOMAIN blocks = 1..Len(blocks)
    BY <1>1, LenProperties
  <2>2. archive[m].sealHash = [i \in DOMAIN blocks |-> blocks[i].height] /\ archive[m].sealHash \in Seq(Nat)
    BY <1>1 DEF SealInv, Archive
  <2>3. Len(archive[m].sealHash) \in Nat /\ DOMAIN archive[m].sealHash = 1..Len(archive[m].sealHash)
    BY <2>2, LenProperties
  <2>4. 1..Len(archive[m].sealHash) = 1..Len(blocks)
    BY <2>1, <2>2, <2>3
  <2>5. Len(archive[m].sealHash) = Len(blocks)
    BY <2>1, <2>3, <2>4
  <2>6. new \in Archive /\ new.blockCount = Len(blocks) /\ new.sealHash = archive[m].sealHash
    BY <1>1, <2>1 DEF Archive
  <2>7. QED
    BY <2>2, <2>5, <2>6
<1> HIDE DEF new
<1>3. /\ Len(sealed) \in Nat /\ DOMAIN sealed = 1..Len(sealed) /\ DOMAIN sealed' = 1..k
      /\ \A a \in 1..Len(sealed) : sealed'[a] = sealed[a]
      /\ sealed'[k] = new
  BY <1>1, <1>2, LenProperties, AppendProperties
<1>4. Elements(blocks') = {}
  BY <1>1 DEF Elements
<1>5. \A b : b.height \in Elements(new.sealHash) <=> \E c \in Elements(blocks) : b.height = c.height
  BY <1>2 DEF Elements
<1>6. k \notin DOMAIN sealed /\ \A a \in DOMAIN sealed' : a \in DOMAIN sealed \/ a = k
  BY <1>3
<1>7. \A b : Holders(b)' = IF b.height \in Elements(new.sealHash) THEN Holders(b) \cup {k} ELSE Holders(b)
  BY <1>3, <1>6 DEF Holders
<1>8. \A b \in Elements(mined) : \E a \in DOMAIN sealed' : Holders(b)' = {a}
  <2> SUFFICES ASSUME NEW b \in Elements(mined) PROVE \E a \in DOMAIN sealed' : Holders(b)' = {a}
    OBVIOUS
  <2>1. CASE b \in Elements(blocks)
    <3>1. Holders(b) = {} /\ b.height \in Elements(new.sealHash)
      BY <1>5, <2>1 DEF SealInv, BlocksAccountedFor
    <3>2. Holders(b)' = {k}
      BY <1>7, <3>1
    <3>3. QED
      BY <1>3, <3>2
  <2>2. CASE b \notin Elements(blocks)
    <3>1. b.height \notin Elements(new.sealHash)
      BY <1>5, <2>2, BlockOfHeight DEF SealInv, HeightsInv
    <3>2. Holders(b)' = Holders(b)
      BY <1>7, <3>1
    <3>3. \E a \in DOMAIN sealed : Holders(b) = {a}
      BY <2>2 DEF SealInv, BlocksAccountedFor
    <3>4. QED
      BY <1>3, <3>2, <3>3
  <2>3. QED
    BY <2>1, <2>2
<1>9. \A a \in DOMAIN sealed' : sealed'[a].blockCount = Len(sealed'[a].sealHash)
  BY <1>2, <1>3, <1>6 DEF SealInv, BlocksAccountedFor
<1>10. \A a \in DOMAIN sealed' : \A h \in Elements(sealed'[a].sealHash) : \E b \in Elements(mined) : b.height = h
  <2>1. \A h \in Elements(new.sealHash) : \E c \in Elements(blocks) : c.height = h
    BY <1>2 DEF Elements
  <2>2. QED
    BY <1>3, <1>6, <2>1 DEF SealInv
<1>11. \A n \in Miners : pc'[n] # "sealing"
  <2>1. pc' = [pc EXCEPT ![m] = "idle"]
    BY DEF FinishSeal, Return
  <2>2. \A n \in Miners : pc[n] = "sealing" => n = m
    BY <1>1, OneMiner DEF Busy
  <2>3. QED
    BY <2>1, <2>2 DEF TypeOK
<1>12. QED
  BY <1>1, <1>4, <1>8, <1>9, <1>10, <1>11 DEF SealInv, BlocksAccountedFor

LEMMA SealStep ==
  ASSUME ChainAssumption, OneAtATime, TypeOK, TicksExclude, HeightsInv, SealInv, [Next]_vars
  PROVE  SealInv'
<1> USE DEF submitVars, chainVars, minerVars, history
<1>1. ASSUME UNCHANGED <<mined, blocks, sealed>>,
             \A m \in Miners : pc'[m] = "sealing" => pc[m] = "sealing" /\ archive'[m] = archive[m]
      PROVE  SealInv'
  BY <1>1 DEF SealInv, BlocksAccountedFor, Holders
<1>2. ASSUME NEW t \in Txs, Submission(t) PROVE SealInv'
  BY <1>1, <1>2 DEF Submission, Execute, Trap, Queue
<1>3. ASSUME NEW m \in Miners, StartMine(m) PROVE SealInv'
  BY <1>1, <1>3 DEF StartMine, TypeOK
<1>4. ASSUME NEW m \in Miners, ReadStateRoot(m) \/ ReadQuantumRoot(m) PROVE SealInv'
  BY <1>1, <1>4 DEF ReadStateRoot, ReadQuantumRoot, TypeOK
<1>5. ASSUME NEW m \in Miners, MineFails(m) \/ FinishStore(m) PROVE SealInv'
  BY <1>1, <1>5 DEF MineFails, FinishStore, Return, TypeOK
<1>6. ASSUME NEW m \in Miners, Commit(m) PROVE SealInv'
  BY <1>6, SealCommit
<1>7. ASSUME NEW m \in Miners, FinishSeal(m) PROVE SealInv'
  BY <1>7, SealFinish
<1>8. CASE UNCHANGED vars
  BY <1>1, <1>8 DEF vars
<1>9. QED
  BY <1>2, <1>3, <1>4, <1>5, <1>6, <1>7, <1>8 DEF Next, Tick, Call, Resume

(* With one miner at a time, every block mined is in memory or in exactly one
   archive, and every archive counts the blocks it digested.                *)
THEOREM LoneMinerSealsAll == OneAtATime => (Spec => []BlocksAccountedFor)
<1> SUFFICES ASSUME OneAtATime PROVE Spec => []BlocksAccountedFor
  OBVIOUS
<1>1. Init => HeightsInv /\ SealInv
  BY TypeInit, ChainAssumption
     DEF Init, HeightsInv, HeightsUnique, Building, SealInv, BlocksAccountedFor, Elements
<1>2. HeightsInv /\ [Next]_vars => HeightsInv'
  BY HeightsStep, ChainAssumption
<1>3. AutoInv /\ HeightsInv /\ SealInv /\ [Next]_vars => SealInv'
  BY SealStep, ChainAssumption DEF AutoInv
<1>4. SealInv => BlocksAccountedFor
  BY DEF SealInv
<1>5. QED
  BY <1>1, <1>2, <1>3, <1>4, AutoInvariant, PTL DEF Spec
=============================================================================
