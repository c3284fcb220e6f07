-------------------------- MODULE SequencerProofs --------------------------
(* What is proved of Sequencer for every value of its constants. *)
EXTENDS Sequencer, ChainProofs, FiniteSetTheorems

-----------------------------------------------------------------------------
(* Every step of the sequencer is a step of block production or leaves block
   production alone: the sequencer mines only by way of mineBlock and writes
   nothing of the VM's state.                                               *)
LEMMA SeqStep == [SeqNext]_allVars => [Next]_vars
<1> SUFFICES ASSUME SeqNext PROVE [Next]_vars
  BY DEF allVars
<1>1. ASSUME NEW t \in Txs, Submission(t) PROVE Next
  BY <1>1 DEF Next
<1>2. ASSUME NEW c \in Callers,
             MineAndBundle(c) \/ MineOn(c) \/ MineThrows(c) \/ Mined(c)
      PROVE  [Next]_vars
  <2>1. CASE MineAndBundle(c)
    BY <2>1 DEF MineAndBundle, Next, Miners
  <2>2. CASE MineOn(c)
    BY <2>2 DEF MineOn, Next, Miners, Resume
  <2>3. CASE MineThrows(c)
    BY <2>3 DEF MineThrows, Next, Miners, Resume
  <2>4. CASE Mined(c)
    BY <2>4 DEF Mined, StartFlush
  <2>5. QED
    BY <1>2, <2>1, <2>2, <2>3, <2>4
<1>3. ASSUME NEW c \in Flushers, FlushBundle(c) PROVE UNCHANGED vars
  BY <1>3 DEF FlushBundle, StartFlush
<1>4. ASSUME NEW c \in Clients, Deliver(c) \/ RejectFlush(c) PROVE UNCHANGED vars
  BY <1>4 DEF Deliver, RejectFlush, EndFlush
<1>5. QED
  BY <1>1, <1>2, <1>3, <1>4 DEF SeqNext

(* The VM under a sequencer behaves as Chain allows, so what is proved of
   Chain holds of it.                                                       *)
THEOREM SequencerIsChain == SeqSpec => Spec
<1>1. SeqInit => Init
  BY DEF SeqInit
<1>2. QED
  BY <1>1, SeqStep, PTL DEF SeqSpec, Spec

(* Whatever the sequencer does, heights stay unique. *)
COROLLARY SequencerHeights == SeqSpec => []HeightsUnique
BY SequencerIsChain, NoHeightTwice, PTL

-----------------------------------------------------------------------------
(* Archives are only ever added, which keeps the sequencer's index valid. *)
LEMMA SealedGrows ==
  ASSUME TypeOK, TypeOK', [Next]_vars
  PROVE  Len(sealed) <= Len(sealed')
<1>1. CASE \E m \in Miners : FinishSeal(m)
  <2>1. PICK a : sealed' = Append(sealed, a)
    BY <1>1 DEF FinishSeal
  <2>2. Len(sealed') = Len(sealed) + 1
    BY <2>1, AppendProperties DEF TypeOK
  <2>3. QED
    BY <2>2, LenProperties DEF TypeOK
<1>2. CASE ~\E m \in Miners : FinishSeal(m)
  <2>1. sealed' = sealed
    BY <1>2 DEF Next, Submission, Execute, Trap, Queue, Resume, Tick, Call,
       StartMine, ReadStateRoot, ReadQuantumRoot, MineFails, Commit, FinishStore,
       Return, vars, chainVars
  <2>2. QED
    BY <2>1, LenProperties DEF TypeOK
<1>3. QED
  BY <1>1, <1>2

LEMMA SeqTypeStep ==
  ASSUME TypeOK, TypeOK', SeqTypeOK, [SeqNext]_allVars
  PROVE  SeqTypeOK'
<1> USE DEF seqVars
<1>1. Len(sealed) \in Nat /\ Len(sealed') \in Nat /\ Len(sealed) <= Len(sealed')
  BY SeqStep, SealedGrows, LenProperties DEF TypeOK
<1>2. UnbundledArchives \in Seq(Archive)
  <2>1. UnbundledArchives = Drop(sealed, lastSealedIndex)
    BY DEF UnbundledArchives, Drop
  <2>2. QED
    BY <2>1, TakeDrop DEF TypeOK, SeqTypeOK
<1>3. NoBundle \in Bundle
  BY EmptySeq DEF NoBundle, Bundle
<1>4. ASSUME NEW c \in Clients, StartFlush(c) PROVE SeqTypeOK'
  <2> DEFINE new == [blocks |-> blocks, sealedArchives |-> UnbundledArchives]
  <2>1. new \in Bundle
    BY <1>2 DEF Bundle, TypeOK
  <2>2. bundle' = [bundle EXCEPT ![c] = new]
    BY <1>4 DEF StartFlush
  <2> HIDE DEF new
  <2>3. bundle' \in [Clients -> Bundle]
    BY <2>1, <2>2 DEF SeqTypeOK
  <2>4. sealed' = sealed /\ lastSealedIndex' = Len(sealed)
    BY <1>4 DEF StartFlush, vars, chainVars, BundledCount
  <2>5. QED
    BY <1>1, <1>4, <2>3, <2>4 DEF StartFlush, SeqTypeOK
<1>5. ASSUME NEW c \in Callers,
             MineAndBundle(c) \/ MineOn(c) \/ MineThrows(c) \/ Mined(c)
      PROVE  SeqTypeOK'
  <2>1. c \in Clients
    BY DEF Clients
  <2>2. CASE MineAndBundle(c)
    BY <1>1, <2>1, <2>2 DEF MineAndBundle, SeqTypeOK
  <2>3. CASE MineOn(c)
    BY <1>1, <2>3 DEF MineOn, SeqTypeOK
  <2>4. CASE MineThrows(c)
    BY <1>1, <2>1, <2>4 DEF MineThrows, SeqTypeOK
  <2>5. CASE Mined(c)
    BY <1>1, <1>4, <2>1, <2>5 DEF Mined, SeqTypeOK
  <2>6. QED
    BY <1>5, <2>2, <2>3, <2>4, <2>5
<1>6. ASSUME NEW c \in Flushers, FlushBundle(c) PROVE SeqTypeOK'
  BY <1>4, <1>6 DEF FlushBundle, Clients
<1>7. ASSUME NEW c \in Clients, Deliver(c) \/ RejectFlush(c) PROVE SeqTypeOK'
  <2>1. EndFlush(c) /\ (lost' = lost \/ lost' = lost \cup {Len(bundles) + 1})
    BY <1>7 DEF Deliver, RejectFlush
  <2>2. bundles \in Seq(Bundle) /\ bundle[c] \in Bundle /\ bundles' = Append(bundles, bundle[c])
    BY <2>1 DEF EndFlush, SeqTypeOK
  <2>3. bundles' \in Seq(Bundle) /\ Len(bundles') = Len(bundles) + 1
    BY <2>2, AppendProperties
  <2>4. Len(bundles) \in Nat /\ DOMAIN bundles = 1..Len(bundles) /\ DOMAIN bundles' = 1..(Len(bundles) + 1)
    BY <2>2, <2>3, LenProperties
  <2>5. lost' \subseteq DOMAIN bundles'
    <3>1. lost \subseteq 1..Len(bundles)
      BY <2>4 DEF SeqTypeOK
    <3>2. 1..Len(bundles) \subseteq 1..(Len(bundles) + 1) /\ Len(bundles) + 1 \in 1..(Len(bundles) + 1)
      BY <2>4
    <3>3. QED
      BY <2>1, <2>4, <3>1, <3>2
  <2>6. QED
    BY <1>1, <1>3, <2>1, <2>3, <2>5 DEF EndFlush, SeqTypeOK
<1>8. CASE UNCHANGED seqVars
  BY <1>1, <1>8 DEF SeqTypeOK
<1>9. QED
  BY <1>5, <1>6, <1>7, <1>8 DEF SeqNext, allVars

LEMMA SeqInvariant == SeqSpec => [](TypeOK /\ SeqTypeOK)
<1>1. SeqSpec => []TypeOK
  BY SequencerIsChain, TypeCorrect, PTL
<1>2. SeqInit => SeqTypeOK
  <2> SUFFICES ASSUME SeqInit PROVE SeqTypeOK
    OBVIOUS
  <2>1. NoBundle \in Bundle /\ bundles \in Seq(Bundle)
    BY EmptySeq DEF NoBundle, Bundle, SeqInit
  <2>2. Len(sealed) = 0
    BY DEF SeqInit, Init
  <2>3. QED
    BY <2>1, <2>2 DEF SeqInit, SeqTypeOK
<1>3. TypeOK /\ TypeOK' /\ SeqTypeOK /\ [SeqNext]_allVars => SeqTypeOK'
  BY SeqTypeStep
<1>4. QED
  BY <1>1, <1>2, <1>3, PTL DEF SeqSpec

(* The sequencer's own state keeps its type: lastSealedIndex never runs ahead
   of the archives of the VM, whatever is sealed while a bundle is digested. *)
THEOREM SeqTypeCorrect == SeqSpec => []SeqTypeOK
BY SeqInvariant, PTL

-----------------------------------------------------------------------------
(* No archive is lost: a call that digests nothing holds no bundle, so a new
   flush overwrites none, and it takes all archives not accounted for.       *)
IdleEmpty == \A c \in Clients : flushing[c] # "digesting" => bundle[c] = NoBundle

\* mineBlock runs for a call of the sequencer that awaits it.
MinesInCall == \A c \in Callers : pc[c] # "idle" => flushing[c] = "mining"

SeqInv == TypeOK /\ SeqTypeOK /\ MinesInCall /\ IdleEmpty /\ NoArchiveLost

LEMMA MinesInCallStep ==
  ASSUME TypeOK, SeqTypeOK, MinesInCall, [SeqNext]_allVars
  PROVE  MinesInCall'
<1> USE DEF seqVars
<1> SUFFICES ASSUME NEW d \in Callers, pc'[d] # "idle"
             PROVE  flushing'[d] = "mining"
  BY DEF MinesInCall
<1>1. d \in Clients /\ d \in Miners
  BY DEF Clients, Miners
<1>2. pc[d] # "idle" => flushing[d] = "mining"
  BY DEF MinesInCall
<1>3. ASSUME NEW t \in Txs, Submission(t), UNCHANGED seqVars
      PROVE  flushing'[d] = "mining"
  BY <1>2, <1>3 DEF Submission, Execute, Trap, Queue, minerVars
<1>4. ASSUME NEW c \in Callers, MineAndBundle(c) PROVE flushing'[d] = "mining"
  BY <1>1, <1>2, <1>4
  DEF MineAndBundle, Call, StartMine, TypeOK, SeqTypeOK
<1>5. ASSUME NEW c \in Callers, MineOn(c) PROVE flushing'[d] = "mining"
  <2>1. flushing' = flushing /\ \E v : pc' = [pc EXCEPT ![c] = v]
    BY <1>5 DEF MineOn, ReadStateRoot, ReadQuantumRoot, Commit, FinishSeal, Return
  <2>2. pc[c] # "idle"
    BY <1>5 DEF MineOn, ReadStateRoot, ReadQuantumRoot, Commit, FinishSeal
  <2>3. QED
    BY <1>1, <1>2, <2>1, <2>2 DEF MinesInCall, TypeOK
<1>6. ASSUME NEW c \in Callers, MineThrows(c) PROVE flushing'[d] = "mining"
  BY <1>1, <1>2, <1>6 DEF MineThrows, MineFails, Return, TypeOK, SeqTypeOK
<1>7. ASSUME NEW c \in Callers, Mined(c) PROVE flushing'[d] = "mining"
  BY <1>1, <1>2, <1>7 DEF Mined, StartFlush, vars, minerVars, SeqTypeOK
<1>8. ASSUME NEW c \in Flushers, FlushBundle(c) PROVE flushing'[d] = "mining"
  BY <1>1, <1>2, <1>8, SequencerAssumption
  DEF FlushBundle, StartFlush, vars, minerVars, SeqTypeOK
<1>9. ASSUME NEW c \in Clients, Deliver(c) \/ RejectFlush(c) PROVE flushing'[d] = "mining"
  BY <1>1, <1>2, <1>9 DEF Deliver, RejectFlush, EndFlush, vars, minerVars, SeqTypeOK
<1>10. CASE UNCHANGED allVars
  BY <1>2, <1>10 DEF allVars, vars, minerVars
<1>11. QED
  BY <1>3, <1>4, <1>5, <1>6, <1>7, <1>8, <1>9, <1>10 DEF SeqNext

(* What was sealed stays in its place. *)
LEMMA SealedStays ==
  ASSUME TypeOK, [Next]_vars
  PROVE  \A i \in 1..Len(sealed) : sealed'[i] = sealed[i]
<1>1. CASE \E m \in Miners : FinishSeal(m)
  <2>1. PICK a : sealed' = Append(sealed, a)
    BY <1>1 DEF FinishSeal
  <2>2. QED
    BY <2>1, AppendProperties DEF TypeOK
<1>2. CASE ~\E m \in Miners : FinishSeal(m)
  BY <1>2 DEF Next, Submission, Execute, Trap, Queue, Resume, Tick, Call,
     StartMine, ReadStateRoot, ReadQuantumRoot, MineFails, Commit, FinishStore,
     Return, vars, chainVars
<1>3. QED
  BY <1>1, <1>2

(* The unbundled archives hold each archive past lastSealedIndex. *)
LEMMA UnbundledHolds ==
  ASSUME TypeOK, SeqTypeOK, NEW i \in (lastSealedIndex + 1)..Len(sealed)
  PROVE  sealed[i] \in Elements(UnbundledArchives)
<1> DEFINE m == lastSealedIndex + 1
           n == Len(sealed)
           j == i - lastSealedIndex
<1>1. n \in Nat /\ m \in Nat /\ m <= n /\ i \in m..n
  BY LenProperties DEF TypeOK, SeqTypeOK
<1>2. \A k \in m..n : sealed[k] \in Archive
  <2>1. \A k \in 1..n : sealed[k] \in Archive
    BY ElementOfSeq DEF TypeOK
  <2>2. m >= 1
    BY DEF SeqTypeOK
  <2>3. QED
    BY <1>1, <2>1, <2>2
<1>3. j \in 1..(n - m + 1) /\ m + j - 1 = i
  BY <1>1 DEF SeqTypeOK
<1>4. /\ SubSeq(sealed, m, n) \in Seq(Archive)
      /\ Len(SubSeq(sealed, m, n)) = n - m + 1
      /\ \A k \in 1..(n - m + 1) : SubSeq(sealed, m, n)[k] = sealed[m + k - 1]
  BY <1>1, <1>2, SubSeqProperties
<1>5. UnbundledArchives[j] = sealed[i] /\ j \in DOMAIN UnbundledArchives
  BY <1>3, <1>4, LenProperties DEF UnbundledArchives
<1>6. QED
  BY <1>5 DEF Elements

LEMMA SeqInvStep ==
  ASSUME SeqInv, TypeOK', SeqTypeOK', [SeqNext]_allVars
  PROVE  IdleEmpty' /\ NoArchiveLost'
<1> USE DEF seqVars
<1>1. TypeOK /\ SeqTypeOK /\ IdleEmpty /\ NoArchiveLost
  BY DEF SeqInv
<1>2. /\ lastSealedIndex \in Nat /\ lastSealedIndex <= Len(sealed)
      /\ Len(sealed) \in Nat
  BY <1>1, LenProperties DEF TypeOK, SeqTypeOK
<1>3. \A i \in 1..Len(sealed) : sealed'[i] = sealed[i]
  BY <1>1, SeqStep, SealedStays
<1>4. ASSUME UNCHANGED <<lastSealedIndex, bundles, lost, bundle>> PROVE NoArchiveLost'
  BY <1>1, <1>2, <1>3, <1>4 DEF NoArchiveLost, Bundled, Digested
<1>5. ASSUME NEW c \in Clients, StartFlush(c), flushing[c] # "digesting"
      PROVE  IdleEmpty' /\ NoArchiveLost'
  <2> DEFINE new == [blocks |-> blocks, sealedArchives |-> UnbundledArchives]
  <2>1. bundle[c] = NoBundle
    BY <1>1, <1>5 DEF IdleEmpty
  <2>2. /\ bundle' = [bundle EXCEPT ![c] = new]
        /\ flushing' = [flushing EXCEPT ![c] = "digesting"]
        /\ lastSealedIndex' = Len(sealed) /\ bundles' = bundles
        /\ sealed' = sealed
    BY <1>5 DEF StartFlush, vars, chainVars, BundledCount
  <2>3. new.sealedArchives = UnbundledArchives
    OBVIOUS
  <2> HIDE DEF new
  <2>4. bundle'[c] = new /\ \A d \in Clients \ {c} : bundle'[d] = bundle[d]
    BY <2>2, <1>1 DEF SeqTypeOK
  <2>5. IdleEmpty'
    BY <2>2, <2>4, <1>1 DEF IdleEmpty, SeqTypeOK
  <2>6. ASSUME NEW i \in 1..lastSealedIndex
        PROVE  Bundled(sealed[i])' # {} \/ Digested(sealed[i])' # {}
    <3>1. CASE Bundled(sealed[i]) # {}
      BY <3>1, <2>2 DEF Bundled
    <3>2. CASE Digested(sealed[i]) # {}
      <4>1. PICK d \in Clients : sealed[i] \in Elements(bundle[d].sealedArchives)
        BY <3>2 DEF Digested
      <4>2. d # c
        BY <4>1, <2>1 DEF NoBundle, Elements
      <4>3. QED
        BY <4>1, <4>2, <2>2, <2>4 DEF Digested
    <3>3. QED
      BY <1>1, <3>1, <3>2 DEF NoArchiveLost
  <2>7. ASSUME NEW i \in (lastSealedIndex + 1)..Len(sealed)
        PROVE  Digested(sealed[i])' # {}
    <3>1. sealed[i] \in Elements(bundle'[c].sealedArchives)
      BY <1>1, <2>3, <2>4, UnbundledHolds
    <3>2. QED
      BY <3>1, <2>2 DEF Digested
  <2>8. NoArchiveLost'
    <3> SUFFICES ASSUME NEW i \in 1..Len(sealed)
                 PROVE  Bundled(sealed[i])' # {} \/ Digested(sealed[i])' # {}
      BY <2>2 DEF NoArchiveLost
    <3>1. i \in 1..lastSealedIndex \/ i \in (lastSealedIndex + 1)..Len(sealed)
      BY <1>2
    <3>2. QED
      BY <3>1, <2>6, <2>7
  <2>9. QED
    BY <2>5, <2>8
<1>6. ASSUME NEW c \in Callers,
             MineAndBundle(c) \/ MineOn(c) \/ MineThrows(c) \/ Mined(c)
      PROVE  IdleEmpty' /\ NoArchiveLost'
  <2>1. c \in Clients
    BY DEF Clients
  <2>2. CASE MineAndBundle(c) \/ MineThrows(c)
    <3>1. /\ UNCHANGED <<lastSealedIndex, bundles, lost, bundle>>
          /\ \E v \in {"mining", "idle"} : flushing' = [flushing EXCEPT ![c] = v]
          /\ MineAndBundle(c) => flushing[c] = "idle"
      BY <2>2 DEF MineAndBundle, MineThrows
    <3>2. CASE flushing[c] # "digesting"
      BY <1>1, <1>4, <2>1, <3>1, <3>2 DEF IdleEmpty, SeqTypeOK
    <3>3. flushing[c] # "digesting"
      <4>1. MineThrows(c) => flushing[c] = "mining"
        BY DEF MineThrows, MineFails, SeqInv, MinesInCall
      <4>2. QED
        BY <2>2, <3>1, <4>1
    <3>4. QED
      BY <3>2, <3>3
  <2>3. CASE MineOn(c)
    BY <1>1, <1>4, <2>3 DEF MineOn, IdleEmpty
  <2>4. CASE Mined(c)
    <3>1. CASE StartFlush(c)
      BY <1>5, <2>1, <2>4, <3>1 DEF Mined
    <3>2. CASE ~StartFlush(c)
      BY <1>1, <1>4, <2>1, <2>4, <3>2 DEF Mined, IdleEmpty, SeqTypeOK
    <3>3. QED
      BY <3>1, <3>2
  <2>5. QED
    BY <1>6, <2>2, <2>3, <2>4
<1>7. ASSUME NEW c \in Flushers, FlushBundle(c) PROVE IdleEmpty' /\ NoArchiveLost'
  BY <1>5, <1>7 DEF FlushBundle, Clients
<1>8. ASSUME NEW c \in Clients, EndFlush(c) PROVE IdleEmpty' /\ NoArchiveLost'
  <2>1. /\ bundles' = Append(bundles, bundle[c])
        /\ bundle' = [bundle EXCEPT ![c] = NoBundle]
        /\ flushing' = [flushing EXCEPT ![c] = "idle"]
        /\ sealed' = sealed /\ lastSealedIndex' = lastSealedIndex
    BY <1>8 DEF EndFlush, vars, chainVars
  <2>2. IdleEmpty'
    BY <2>1, <1>1 DEF IdleEmpty, SeqTypeOK
  <2>3. /\ \A k \in DOMAIN bundles : k \in DOMAIN bundles' /\ bundles'[k] = bundles[k]
        /\ Len(bundles) + 1 \in DOMAIN bundles'
        /\ bundles'[Len(bundles) + 1] = bundle[c]
    <3>1. bundles \in Seq(Bundle) /\ bundle[c] \in Bundle
      BY <1>1 DEF SeqTypeOK
    <3>2. /\ bundles' \in Seq(Bundle) /\ Len(bundles') = Len(bundles) + 1
          /\ \A k \in 1..Len(bundles) : bundles'[k] = bundles[k]
          /\ bundles'[Len(bundles) + 1] = bundle[c]
      BY <2>1, <3>1, AppendProperties
    <3>3. Len(bundles) \in Nat /\ DOMAIN bundles = 1..Len(bundles)
          /\ DOMAIN bundles' = 1..(Len(bundles) + 1)
      BY <3>1, <3>2, LenProperties
    <3>4. QED
      BY <3>2, <3>3
  <2>4. ASSUME NEW i \in 1..lastSealedIndex
        PROVE  Bundled(sealed[i])' # {} \/ Digested(sealed[i])' # {}
    <3>1. CASE Bundled(sealed[i]) # {}
      <4>1. PICK k \in DOMAIN bundles :
              sealed[i] \in Elements(bundles[k].sealedArchives)
        BY <3>1 DEF Bundled
      <4>2. k \in Bundled(sealed[i])'
        BY <4>1, <2>1, <2>3 DEF Bundled
      <4>3. QED
        BY <4>2
    <3>2. CASE Digested(sealed[i]) # {}
      <4>1. PICK d \in Clients : sealed[i] \in Elements(bundle[d].sealedArchives)
        BY <3>2 DEF Digested
      <4>2. CASE d = c
        <5>1. Len(bundles) + 1 \in Bundled(sealed[i])'
          BY <4>1, <4>2, <2>1, <2>3 DEF Bundled
        <5>2. QED
          BY <5>1
      <4>3. CASE d # c
        BY <4>1, <4>3, <2>1, <1>1 DEF Digested, SeqTypeOK
      <4>4. QED
        BY <4>2, <4>3
    <3>3. QED
      BY <1>1, <3>1, <3>2 DEF NoArchiveLost
  <2>5. QED
    BY <2>1, <2>2, <2>4 DEF NoArchiveLost
<1>9. CASE UNCHANGED seqVars
  BY <1>1, <1>4, <1>9 DEF IdleEmpty
<1>10. QED
  BY <1>6, <1>7, <1>8, <1>9 DEF SeqNext, allVars, Deliver, RejectFlush

(* Every archive counted as bundled is in a bundle, of a flush under way or of
   one that ended: flushes that overlap drop none between two of them.  One
   that rejects drops its own.                                               *)
THEOREM ArchivesKept == SeqSpec => []NoArchiveLost
<1>1. SeqSpec => [](TypeOK /\ SeqTypeOK)
  BY SeqInvariant
<1>2. SeqInit => MinesInCall /\ IdleEmpty /\ NoArchiveLost
  BY DEF SeqInit, Init, MinesInCall, IdleEmpty, NoArchiveLost, Clients, Miners
<1>3. /\ TypeOK /\ SeqTypeOK /\ TypeOK' /\ SeqTypeOK'
      /\ MinesInCall /\ IdleEmpty /\ NoArchiveLost /\ [SeqNext]_allVars
      => MinesInCall' /\ IdleEmpty' /\ NoArchiveLost'
  BY MinesInCallStep, SeqInvStep DEF SeqInv
<1>4. QED
  BY <1>1, <1>2, <1>3, PTL DEF SeqSpec

-----------------------------------------------------------------------------
(* The bundles deliver the chain.                                           *)
(*                                                                          *)
(* With one caller, block production keeps archives and blocks in the order *)
(* of their heights: a block is pushed above all blocks mined, and sealing  *)
(* moves all of memory into one archive, which is therefore above those     *)
(* before it and below whatever is mined next.                              *)

OneCaller == \A c, d \in Callers : c = d

LEMMA OneCallerMines == OneCaller => OneAtATime
BY SequencerAssumption DEF OneCaller, OneAtATime, Miners

InOrder(a) == a.fromHeight <= a.toHeight

ArchiveInv ==
  /\ \A a \in DOMAIN sealed : /\ InOrder(sealed[a])
                              /\ \E b \in Elements(mined) : sealed[a].toHeight = b.height
  /\ \A a, b \in DOMAIN sealed : a < b => sealed[a].toHeight < sealed[b].fromHeight
  /\ \A a \in DOMAIN sealed, i \in DOMAIN blocks : sealed[a].toHeight < blocks[i].height
  /\ \A i, j \in DOMAIN blocks : i < j => blocks[i].height < blocks[j].height
  /\ \A m \in Miners : pc[m] = "sealing" =>
       /\ blocks # <<>>
       /\ archive[m].fromHeight = blocks[1].height
       /\ archive[m].toHeight = blocks[Len(blocks)].height

LEMMA ArchiveCommit ==
  ASSUME OneAtATime, TypeOK, TicksExclude, FollowInv, SealInv, ArchiveInv,
         NEW m \in Miners, Commit(m)
  PROVE  ArchiveInv'
<1> DEFINE d == draft[m]
<1>1. /\ Building(m) /\ d \in Block /\ mined \in Seq(Block) /\ blocks \in Seq(Block)
      /\ mined' = Append(mined, d) /\ blocks' = Append(blocks, d) /\ sealed' = sealed
      /\ d.height \in Nat
  BY DEF Commit, Building, TypeOK, chainVars, Block
<1>2. Elements(mined') = Elements(mined) \cup {d} /\ Elements(blocks) \subseteq Elements(mined)
  BY <1>1, AppendBlock DEF SealInv
<1>3. \A b \in Elements(mined) : b.height < d.height
  BY <1>1 DEF FollowInv, Elements
<1>4. /\ DOMAIN blocks' = 1..(Len(blocks) + 1) /\ DOMAIN blocks = 1..Len(blocks)
      /\ Len(blocks) \in Nat /\ Len(blocks') = Len(blocks) + 1
      /\ \A i \in 1..Len(blocks) : blocks'[i] = blocks[i] /\ blocks[i] \in Elements(mined)
      /\ blocks'[Len(blocks) + 1] = d
  <2>1. \A i \in DOMAIN blocks : blocks[i] \in Elements(mined)
    BY <1>2 DEF Elements
  <2>2. QED
    BY <1>1, <2>1, AppendBlock
<1> HIDE DEF d
<1>5. \A i \in DOMAIN blocks' : i \in DOMAIN blocks \/ i = Len(blocks) + 1
  BY <1>4
<1>6. \A a \in DOMAIN sealed, i \in DOMAIN blocks' : sealed[a].toHeight < blocks'[i].height
  BY <1>3, <1>4, <1>5 DEF ArchiveInv
<1>7. \A i, j \in DOMAIN blocks' : i < j => blocks'[i].height < blocks'[j].height
  <2> SUFFICES ASSUME NEW i \in DOMAIN blocks', NEW j \in DOMAIN blocks', i < j
               PROVE  blocks'[i].height < blocks'[j].height
    OBVIOUS
  <2>1. i \in DOMAIN blocks
    BY <1>4
  <2>2. CASE j \in DOMAIN blocks
    BY <1>4, <2>1, <2>2 DEF ArchiveInv
  <2>3. CASE j = Len(blocks) + 1
    BY <1>3, <1>4, <2>1, <2>3
  <2>4. QED
    BY <1>5, <2>2, <2>3
<1>8. ASSUME NEW n \in Miners, pc'[n] = "sealing"
      PROVE  /\ blocks' # <<>>
             /\ archive'[n].fromHeight = blocks'[1].height
             /\ archive'[n].toHeight = blocks'[Len(blocks')].height
  <2>1. n = m
    <3>1. ASSUME n # m PROVE FALSE
      <4>1. pc'[n] = pc[n] /\ Busy(m)
        BY <1>1, <3>1 DEF Commit, Return, TypeOK, Building, Busy
      <4>2. Busy(n)
        BY <1>8, <4>1 DEF Busy
      <4>3. QED
        BY <3>1, <4>1, <4>2, OneMiner
    <3>2. QED
      BY <3>1
  <2>2. archive' = [archive EXCEPT ![m] = ArchiveOf(blocks')]
    BY <1>8, <2>1 DEF Commit, Return, TypeOK
  <2>3. archive'[n] = ArchiveOf(blocks')
    BY <2>1, <2>2 DEF TypeOK
  <2>4. blocks' # <<>>
    BY <1>4
  <2>5. QED
    BY <2>3, <2>4 DEF ArchiveOf
<1>9. \A a \in DOMAIN sealed' : /\ InOrder(sealed'[a])
                                /\ \E b \in Elements(mined') : sealed'[a].toHeight = b.height
  BY <1>1, <1>2 DEF ArchiveInv
<1>10. QED
  BY <1>1, <1>6, <1>7, <1>8, <1>9 DEF ArchiveInv, InOrder

LEMMA ArchiveFinish ==
  ASSUME OneAtATime, TypeOK, TicksExclude, SealInv, ArchiveInv,
         NEW m \in Miners, FinishSeal(m)
  PROVE  ArchiveInv'
<1> DEFINE k == Len(sealed) + 1
           new == [archive[m] EXCEPT !.blockCount = Len(blocks)]
<1>1. /\ pc[m] = "sealing" /\ sealed \in Seq(Archive) /\ archive[m] \in Archive /\ blocks \in Seq(Block)
      /\ sealed' = Append(sealed, new) /\ blocks' = <<>> /\ mined' = mined
  BY DEF FinishSeal, TypeOK, history
<1>2. /\ Len(blocks) \in Nat \ {0} /\ DOMAIN blocks = 1..Len(blocks)
      /\ \A i \in DOMAIN blocks : blocks[i].height \in Nat
  <2>1. blocks # <<>>
    BY <1>1 DEF ArchiveInv
  <2>2. \A i \in 1..Len(blocks) : blocks[i] \in Block
    BY <1>1, ElementOfSeq
  <2>3. QED
    BY <1>1, <2>1, <2>2, EmptySeq, LenProperties DEF Block
<1>3. /\ new \in Archive
      /\ new.fromHeight = blocks[1].height /\ new.toHeight = blocks[Len(blocks)].height
  <2>1. new \in Archive /\ new.fromHeight = archive[m].fromHeight /\ new.toHeight = archive[m].toHeight
    BY <1>1, <1>2 DEF Archive
  <2>2. QED
    BY <1>1, <2>1 DEF ArchiveInv
<1> HIDE DEF new
<1>4. InOrder(new)
  <2>1. CASE Len(blocks) = 1
    BY <1>2, <1>3, <2>1 DEF InOrder
  <2>2. CASE 1 < Len(blocks)
    <3>1. blocks[1].height < blocks[Len(blocks)].height
      BY <1>2, <2>2 DEF ArchiveInv
    <3>2. QED
      BY <1>2, <1>3, <3>1 DEF InOrder
  <2>3. QED
    BY <1>2, <2>1, <2>2
<1>5. \E b \in Elements(mined) : new.toHeight = b.height
  <2>1. blocks[Len(blocks)] \in Elements(blocks)
    BY <1>2 DEF Elements
  <2>2. QED
    BY <1>3, <2>1 DEF SealInv
<1>6. /\ Len(sealed) \in Nat /\ DOMAIN sealed = 1..Len(sealed) /\ DOMAIN sealed' = 1..k
      /\ \A a \in 1..Len(sealed) : sealed'[a] = sealed[a]
      /\ sealed'[k] = new
  BY <1>1, <1>3, LenProperties, AppendProperties
<1>7. \A a \in DOMAIN sealed' : a \in DOMAIN sealed \/ a = k
  BY <1>6
<1>8. \A a \in DOMAIN sealed : sealed[a].toHeight < new.fromHeight
  BY <1>2, <1>3 DEF ArchiveInv
<1>9. \A a, b \in DOMAIN sealed' : a < b => sealed'[a].toHeight < sealed'[b].fromHeight
  <2> SUFFICES ASSUME NEW a \in DOMAIN sealed', NEW b \in DOMAIN sealed', a < b
               PROVE  sealed'[a].toHeight < sealed'[b].fromHeight
    OBVIOUS
  <2>1. a \in DOMAIN sealed /\ sealed'[a] = sealed[a]
    BY <1>6
  <2>2. CASE b \in DOMAIN sealed
    BY <1>6, <2>1, <2>2 DEF ArchiveInv
  <2>3. CASE b = k
    BY <1>6, <1>8, <2>1, <2>3
  <2>4. QED
    BY <1>7, <2>2, <2>3
<1>10. \A a \in DOMAIN sealed' : /\ InOrder(sealed'[a])
                                 /\ \E b \in Elements(mined) : sealed'[a].toHeight = b.height
  BY <1>4, <1>5, <1>6, <1>7 DEF ArchiveInv
<1>11. \A n \in Miners : pc'[n] # "sealing"
  <2>1. pc' = [pc EXCEPT ![m] = "idle"]
    BY DEF FinishSeal, Return
  <2>2. \A n \in Miners : pc[n] = "sealing" => n = m
    BY <1>1, OneMiner DEF Busy
  <2>3. QED
    BY <2>1, <2>2 DEF TypeOK
<1>12. DOMAIN blocks' = {}
  BY <1>1
<1>13. QED
  BY <1>1, <1>9, <1>10, <1>11, <1>12 DEF ArchiveInv, InOrder

LEMMA ArchiveStep ==
  ASSUME OneAtATime, TypeOK, TicksExclude, FollowInv, SealInv, ArchiveInv, [Next]_vars
  PROVE  ArchiveInv'
<1> USE DEF submitVars, chainVars, minerVars, history
<1>1. ASSUME UNCHANGED <<mined, blocks, sealed>>,
             \A m \in Miners : pc'[m] = "sealing" => pc[m] = "sealing" /\ archive'[m] = archive[m]
      PROVE  ArchiveInv'
  BY <1>1 DEF ArchiveInv, InOrder
<1>2. ASSUME NEW t \in Txs, Submission(t) PROVE ArchiveInv'
  BY <1>1, <1>2 DEF Submission, Execute, Trap, Queue
<1>3. ASSUME NEW m \in Miners, StartMine(m) PROVE ArchiveInv'
  BY <1>1, <1>3 DEF StartMine, TypeOK
<1>4. ASSUME NEW m \in Miners, ReadStateRoot(m) \/ ReadQuantumRoot(m) PROVE ArchiveInv'
  BY <1>1, <1>4 DEF ReadStateRoot, ReadQuantumRoot, TypeOK
<1>5. ASSUME NEW m \in Miners, MineFails(m) \/ FinishStore(m) PROVE ArchiveInv'
  BY <1>1, <1>5 DEF MineFails, FinishStore, Return, TypeOK
<1>6. ASSUME NEW m \in Miners, Commit(m) PROVE ArchiveInv'
  BY <1>6, ArchiveCommit
<1>7. ASSUME NEW m \in Miners, FinishSeal(m) PROVE ArchiveInv'
  BY <1>7, ArchiveFinish
<1>8. CASE UNCHANGED vars
  BY <1>1, <1>8 DEF vars
<1>9. QED
  BY <1>2, <1>3, <1>4, <1>5, <1>6, <1>7, <1>8 DEF Next, Tick, Call, Resume

\* What one miner at a time keeps of the chain.
ChainInv == AutoInv /\ FollowInv /\ HeightsInv /\ SealInv /\ ArchiveInv

LEMMA ChainInvariant == OneAtATime => (Spec => []ChainInv)
<1> SUFFICES ASSUME OneAtATime PROVE Spec => []ChainInv
  OBVIOUS
<1>1. Init => FollowInv /\ HeightsInv /\ SealInv /\ ArchiveInv
  <2> SUFFICES ASSUME Init PROVE FollowInv /\ HeightsInv /\ SealInv /\ ArchiveInv
    OBVIOUS
  <2>1. FollowInv
    BY DEF Init, FollowInv, BlocksFollow, Building
  <2>2. HeightsInv
    BY TypeInit, ChainAssumption DEF Init, HeightsInv, HeightsUnique, Building
  <2>3. SealInv
    BY DEF Init, SealInv, BlocksAccountedFor, Elements
  <2>4. ArchiveInv
    BY DEF Init, ArchiveInv
  <2>5. QED
    BY <2>1, <2>2, <2>3, <2>4
<1>2. AutoInv /\ FollowInv /\ HeightsInv /\ SealInv /\ ArchiveInv /\ [Next]_vars
        => FollowInv' /\ HeightsInv' /\ SealInv' /\ ArchiveInv'
  BY FollowStep, HeightsStep, SealStep, ArchiveStep, ChainAssumption DEF AutoInv
<1>3. QED
  BY <1>1, <1>2, AutoInvariant, PTL DEF Spec, ChainInv

-----------------------------------------------------------------------------
(* Over such a chain, a bundle is a consistent cut and every archive goes    *)
(* into one bundle.                                                          *)

\* Archive a is in one bundle, of a flush that ended or of one under way.
InOneBundle(a) ==
  \/ Digested(a) = {} /\ \E k \in DOMAIN bundles : Bundled(a) = {k}
  \/ Bundled(a) = {} /\ \E c \in Clients : Digested(a) = {c}

InNoBundle(a) == Bundled(a) = {} /\ Digested(a) = {}

\* Every archive of bundle b is one of the first n.
HoldsFirst(b, n) ==
  \A a \in Elements(b.sealedArchives) : \E i \in 1..n : a = sealed[i]

MinedHeights == {b.height : b \in Elements(mined)}

BundleInv ==
  /\ \A i \in 1..lastSealedIndex : InOneBundle(sealed[i])
  /\ \A k \in DOMAIN bundles : WellFormed(bundles[k]) /\ HoldsFirst(bundles[k], lastSealedIndex)
  /\ \A c \in Clients : WellFormed(bundle[c]) /\ HoldsFirst(bundle[c], lastSealedIndex)
  /\ AllCovered \subseteq MinedHeights
  /\ \A g \in MinedHeights, h \in AllCovered : g < h => g \in AllCovered

(* Archives differ from each other: they are above each other. *)
LEMMA SealedDiffer ==
  ASSUME TypeOK, ArchiveInv, NEW i \in DOMAIN sealed, NEW j \in DOMAIN sealed, sealed[i] = sealed[j]
  PROVE  i = j
<1>1. /\ \A a \in DOMAIN sealed : sealed[a].fromHeight \in Nat /\ sealed[a].toHeight \in Nat
      /\ DOMAIN sealed \subseteq Nat
  <2>1. DOMAIN sealed = 1..Len(sealed) /\ Len(sealed) \in Nat
    BY LenProperties DEF TypeOK
  <2>2. \A a \in DOMAIN sealed : sealed[a] \in Archive
    BY <2>1, ElementOfSeq DEF TypeOK
  <2>3. QED
    BY <2>1, <2>2 DEF Archive
<1>2. sealed[i].fromHeight <= sealed[i].toHeight /\ sealed[j].fromHeight <= sealed[j].toHeight
  BY DEF ArchiveInv, InOrder
<1>3. ~(i < j)
  BY <1>1, <1>2 DEF ArchiveInv
<1>4. ~(j < i)
  BY <1>1, <1>2 DEF ArchiveInv
<1>5. QED
  BY <1>1, <1>3, <1>4

(* The archives a flush takes: those past lastSealedIndex, in their order. *)
LEMMA Unbundled ==
  ASSUME TypeOK, SeqTypeOK
  PROVE  /\ DOMAIN UnbundledArchives = 1..(Len(sealed) - lastSealedIndex)
         /\ Len(UnbundledArchives) = Len(sealed) - lastSealedIndex
         /\ \A k \in DOMAIN UnbundledArchives :
              /\ UnbundledArchives[k] = sealed[lastSealedIndex + k]
              /\ lastSealedIndex + k \in DOMAIN sealed
<1> DEFINE l == lastSealedIndex
           n == Len(sealed)
           u == SubSeq(sealed, l + 1, n)
<1>1. /\ n \in Nat /\ l \in Nat /\ l <= n /\ DOMAIN sealed = 1..n
      /\ \A k \in 1..n : sealed[k] \in Archive
  BY LenProperties, ElementOfSeq DEF TypeOK, SeqTypeOK
<1>2. \A k \in (l + 1)..n : sealed[k] \in Archive
  BY <1>1
<1>3. l + 1 \in Int /\ n \in Int
  BY <1>1
<1>4. /\ u \in Seq(Archive)
      /\ Len(u) = IF l + 1 <= n THEN n - (l + 1) + 1 ELSE 0
      /\ \A k \in 1..(n - (l + 1) + 1) : u[k] = sealed[(l + 1) + k - 1]
  BY <1>2, <1>3, SubSeqProperties
<1> HIDE DEF u
<1>5. Len(u) = n - l
  <2>1. l \in Nat /\ n \in Nat /\ l <= n
    BY <1>1
  <2>2. IF l + 1 <= n THEN n - (l + 1) + 1 = n - l ELSE 0 = n - l
    BY <2>1
  <2>3. QED
    BY <1>4, <2>2
<1>6. \A k \in 1..(n - l) : k \in 1..(n - (l + 1) + 1) /\ (l + 1) + k - 1 = l + k /\ l + k \in 1..n
  BY <1>1
<1>7. DOMAIN u = 1..(n - l)
  BY <1>4, <1>5, LenProperties
<1>8. QED
  BY <1>1, <1>4, <1>5, <1>6, <1>7 DEF UnbundledArchives, u

(* A bundle made from memory and the unbundled archives is a consistent cut. *)
LEMMA FlushIsCut ==
  ASSUME TypeOK, SeqTypeOK, BlocksFollow, ArchiveInv
  PROVE  WellFormed([blocks |-> blocks, sealedArchives |-> UnbundledArchives])
<1>1. DOMAIN blocks = 1..Len(blocks) /\ Len(blocks) \in Nat
  BY LenProperties DEF TypeOK
<1>2. \A i \in 2..Len(blocks) : blocks[i].prevHash = blocks[i - 1].height
  BY <1>1 DEF BlocksFollow
<1>3. \A i \in 2..Len(UnbundledArchives) :
         UnbundledArchives[i - 1].toHeight < UnbundledArchives[i].fromHeight
  <2> SUFFICES ASSUME NEW i \in 2..Len(UnbundledArchives)
               PROVE  UnbundledArchives[i - 1].toHeight < UnbundledArchives[i].fromHeight
    OBVIOUS
  <2>1. lastSealedIndex \in Nat /\ Len(sealed) \in Nat
    BY LenProperties DEF TypeOK, SeqTypeOK
  <2>2. i \in DOMAIN UnbundledArchives /\ i - 1 \in DOMAIN UnbundledArchives
    BY <2>1, Unbundled
  <2>3. lastSealedIndex + (i - 1) < lastSealedIndex + i
    BY <2>1
  <2>4. QED
    BY <2>2, <2>3, Unbundled DEF ArchiveInv
<1>4. \A i \in DOMAIN blocks, j \in DOMAIN UnbundledArchives :
         UnbundledArchives[j].toHeight < blocks[i].height
  BY Unbundled DEF ArchiveInv
<1>5. QED
  BY <1>2, <1>3, <1>4 DEF WellFormed

LEMMA EmptyBundle ==
  WellFormed(NoBundle) /\ Covered(NoBundle) = {} /\ Elements(NoBundle.sealedArchives) = {}
<1>1. /\ NoBundle.blocks = <<>> /\ NoBundle.sealedArchives = <<>>
      /\ DOMAIN NoBundle.blocks = {} /\ DOMAIN NoBundle.sealedArchives = {}
      /\ Len(NoBundle.blocks) = 0 /\ Len(NoBundle.sealedArchives) = 0
  BY DEF NoBundle
<1>2. 2..0 = {}
  OBVIOUS
<1>3. QED
  BY <1>1, <1>2 DEF WellFormed, Covered, Elements

(* What any bundle vouches for. *)
LEMMA CoveredBy ==
  \A h : h \in AllCovered <=> \/ \E k \in DOMAIN bundles : h \in Covered(bundles[k])
                              \/ \E c \in Clients : h \in Covered(bundle[c])
BY DEF AllCovered

(* A step that adds no bundle and leaves those there are alone. *)
LEMMA BundlesStay ==
  ASSUME TypeOK, TypeOK', SeqTypeOK, ChainInv, BundleInv, [Next]_vars,
         UNCHANGED <<lastSealedIndex, bundles, lost, bundle>>
  PROVE  BundleInv'
<1>1. /\ lastSealedIndex \in Nat /\ lastSealedIndex <= Len(sealed) /\ Len(sealed) \in Nat
      /\ \A i \in 1..Len(sealed) : sealed'[i] = sealed[i]
  BY SealedStays, LenProperties DEF TypeOK, SeqTypeOK
<1>2. \A i \in 1..lastSealedIndex : sealed'[i] = sealed[i]
  BY <1>1
<1>3. \A i \in 1..lastSealedIndex : InOneBundle(sealed[i])'
  BY <1>2 DEF BundleInv, InOneBundle, Bundled, Digested
<1>4. /\ \A k \in DOMAIN bundles : WellFormed(bundles[k]) /\ HoldsFirst(bundles[k], lastSealedIndex)'
      /\ \A c \in Clients : WellFormed(bundle[c]) /\ HoldsFirst(bundle[c], lastSealedIndex)'
  BY <1>2 DEF BundleInv, HoldsFirst
<1>5. AllCovered' = AllCovered
  BY DEF AllCovered
<1>6. /\ MinedHeights \subseteq MinedHeights'
      /\ \A g \in MinedHeights' \ MinedHeights : \A h \in MinedHeights : h < g
  <2>1. CASE \E m \in Miners : Commit(m)
    <3>1. PICK m \in Miners : Commit(m)
      BY <2>1
    <3>2. /\ Building(m) /\ draft[m] \in Block /\ mined \in Seq(Block)
          /\ mined' = Append(mined, draft[m])
      BY <3>1 DEF Commit, Building, TypeOK
    <3>3. Elements(mined') = Elements(mined) \cup {draft[m]}
      BY <3>2, AppendBlock
    <3>4. \A b \in Elements(mined) : b.height < draft[m].height
      BY <3>2 DEF ChainInv, FollowInv, Elements
    <3>5. QED
      BY <3>3, <3>4 DEF MinedHeights
  <2>2. CASE ~\E m \in Miners : Commit(m)
    <3>1. mined' = mined
      BY <2>2 DEF Next, Submission, Execute, Trap, Queue, Resume, Tick, Call,
         StartMine, ReadStateRoot, ReadQuantumRoot, MineFails, FinishSeal, FinishStore,
         vars, history
    <3>2. QED
      BY <3>1 DEF MinedHeights
  <2>3. QED
    BY <2>1, <2>2
<1>7. MinedHeights' \subseteq Nat
  <2>1. \A b \in Elements(mined') : b \in Block
    BY LenProperties, ElementOfSeq DEF TypeOK, Elements
  <2>2. QED
    BY <2>1 DEF MinedHeights, Block
<1>8. ASSUME NEW g \in MinedHeights', NEW h \in AllCovered, g < h PROVE g \in AllCovered
  <2>1. h \in MinedHeights /\ h \in Nat /\ g \in Nat
    BY <1>6, <1>7 DEF BundleInv
  <2>2. g \in MinedHeights
    BY <1>6, <1>8, <2>1
  <2>3. QED
    BY <1>8, <2>2 DEF BundleInv
<1>9. AllCovered' \subseteq MinedHeights'
  BY <1>5, <1>6 DEF BundleInv
<1>10. \A g \in MinedHeights', h \in AllCovered' : g < h => g \in AllCovered'
  BY <1>5, <1>8
<1>11. QED
  BY <1>3, <1>4, <1>9, <1>10 DEF BundleInv, WellFormed

(* A flush: the new bundle vouches for every block mined that no bundle
   vouches for yet.                                                         *)
LEMMA FlushDelivers ==
  ASSUME TypeOK, SeqTypeOK, ChainInv, IdleEmpty, BundleInv,
         NEW c \in Clients, StartFlush(c), flushing[c] # "digesting"
  PROVE  BundleInv'
<1> DEFINE l == lastSealedIndex
           n == Len(sealed)
           new == [blocks |-> blocks, sealedArchives |-> UnbundledArchives]
<1>1. /\ bundle[c] = NoBundle /\ bundle' = [bundle EXCEPT ![c] = new]
      /\ lastSealedIndex' = n /\ bundles' = bundles /\ sealed' = sealed
      /\ mined' = mined /\ blocks' = blocks
  BY DEF IdleEmpty, StartFlush, vars, chainVars, history, BundledCount
<1>2. n \in Nat /\ l \in Nat /\ l <= n /\ DOMAIN sealed = 1..n
  BY LenProperties DEF TypeOK, SeqTypeOK
<1>3. TypeOK /\ BlocksFollow /\ ArchiveInv /\ SealInv /\ HeightsInv
  BY DEF ChainInv, FollowInv
<1>4. /\ new.blocks = blocks /\ new.sealedArchives = UnbundledArchives
      /\ WellFormed(new)
  BY <1>3, FlushIsCut
<1>5. /\ bundle'[c] = new /\ \A d \in Clients \ {c} : bundle'[d] = bundle[d]
      /\ WellFormed(NoBundle) /\ Covered(NoBundle) = {}
      /\ Elements(NoBundle.sealedArchives) = {}
  BY <1>1, EmptyBundle DEF SeqTypeOK
<1>6. \A a : a \in Elements(UnbundledArchives) <=> \E i \in (l + 1)..n : a = sealed[i]
  <2>1. ASSUME NEW a, a \in Elements(UnbundledArchives) PROVE \E i \in (l + 1)..n : a = sealed[i]
    <3>1. PICK k \in DOMAIN UnbundledArchives : a = UnbundledArchives[k]
      BY <2>1 DEF Elements
    <3>2. a = sealed[l + k] /\ k \in 1..(n - l)
      BY <3>1, Unbundled
    <3>3. l + k \in (l + 1)..n
      BY <1>2, <3>2
    <3>4. QED
      BY <3>2, <3>3
  <2>2. ASSUME NEW i \in (l + 1)..n PROVE sealed[i] \in Elements(UnbundledArchives)
    BY UnbundledHolds
  <2>3. QED
    BY <2>1, <2>2
<1> HIDE DEF new
<1>7. \A a : Bundled(a)' = Bundled(a)
  BY <1>1 DEF Bundled
<1>8. \A a : Digested(a)' = IF a \in Elements(UnbundledArchives) THEN Digested(a) \cup {c} ELSE Digested(a)
  BY <1>1, <1>4, <1>5 DEF Digested
<1>9. \A i \in 1..n : InOneBundle(sealed[i])'
  <2> SUFFICES ASSUME NEW i \in 1..n PROVE InOneBundle(sealed[i])'
    OBVIOUS
  <2>1. CASE i <= l
    <3>1. sealed[i] \notin Elements(UnbundledArchives)
      <4>1. \A j \in (l + 1)..n : j \in 1..n /\ j # i
        BY <1>2, <2>1
      <4>2. QED
        BY <1>2, <1>3, <1>6, <4>1, SealedDiffer
    <3>2. InOneBundle(sealed[i])
      BY <1>2, <2>1 DEF BundleInv
    <3>3. QED
      BY <1>1, <1>7, <1>8, <3>1, <3>2 DEF InOneBundle
  <2>2. CASE ~(i <= l)
    <3>1. sealed[i] \in Elements(UnbundledArchives)
      BY <1>2, <1>6, <2>2
    <3>2. \A j \in 1..l : j \in 1..n /\ sealed[j] # sealed[i]
      <4>1. \A j \in 1..l : j \in 1..n /\ j # i
        BY <1>2, <2>2
      <4>2. QED
        BY <1>2, <1>3, <4>1, SealedDiffer
    <3>3. Bundled(sealed[i]) = {} /\ Digested(sealed[i]) = {}
      BY <3>2 DEF BundleInv, HoldsFirst, Bundled, Digested
    <3>4. Bundled(sealed[i])' = {} /\ Digested(sealed[i])' = {c}
      BY <1>1, <1>7, <1>8, <3>1, <3>3
    <3>5. QED
      BY <1>1, <3>4 DEF InOneBundle
  <2>3. QED
    BY <2>1, <2>2
<1>10. \A e : HoldsFirst(e, l) => HoldsFirst(e, n)
  <2>1. 1..l \subseteq 1..n
    BY <1>2
  <2>2. QED
    BY <2>1 DEF HoldsFirst
<1>11. HoldsFirst(new, n)
  <2>1. (l + 1)..n \subseteq 1..n
    BY <1>2
  <2>2. QED
    BY <1>4, <1>6, <2>1 DEF HoldsFirst
<1>12. \A k \in DOMAIN bundles' : WellFormed(bundles'[k]) /\ HoldsFirst(bundles'[k], n)
  BY <1>1, <1>10 DEF BundleInv
<1>13. \A d \in Clients : WellFormed(bundle'[d]) /\ HoldsFirst(bundle'[d], n)
  BY <1>4, <1>5, <1>10, <1>11 DEF BundleInv
<1>14. \A h : h \in AllCovered' <=> h \in AllCovered \/ h \in Covered(new)
  <2>1. \A h : h \in AllCovered' <=> \/ \E k \in DOMAIN bundles' : h \in Covered(bundles'[k])
                                     \/ \E d \in Clients : h \in Covered(bundle'[d])
    BY DEF AllCovered
  <2>2. QED
    BY <1>1, <1>5, <2>1, CoveredBy
<1>15. \A h : h \in Covered(new) <=> \/ \E b \in Elements(blocks) : h = b.height
                                     \/ \E i \in (l + 1)..n : h \in Elements(sealed[i].sealHash)
  <2>1. \A h : h \in Covered(new) <=>
           \/ \E i \in DOMAIN blocks : h = blocks[i].height
           \/ \E k \in DOMAIN UnbundledArchives : h \in Elements(UnbundledArchives[k].sealHash)
    BY <1>4 DEF Covered
  <2>2. \A h : (\E i \in DOMAIN blocks : h = blocks[i].height) <=> \E b \in Elements(blocks) : h = b.height
    BY DEF Elements
  <2>3. \A h : (\E k \in DOMAIN UnbundledArchives : h \in Elements(UnbundledArchives[k].sealHash))
                 <=> \E a \in Elements(UnbundledArchives) : h \in Elements(a.sealHash)
    <3>1. \A a : a \in Elements(UnbundledArchives) <=> \E k \in DOMAIN UnbundledArchives : a = UnbundledArchives[k]
      BY DEF Elements
    <3>2. QED
      BY <3>1
  <2>4. \A h : (\E a \in Elements(UnbundledArchives) : h \in Elements(a.sealHash))
                 <=> \E i \in (l + 1)..n : h \in Elements(sealed[i].sealHash)
    BY <1>6
  <2>5. QED
    BY <2>1, <2>2, <2>3, <2>4
<1>16. Covered(new) \subseteq MinedHeights
  <2>1. (l + 1)..n \subseteq DOMAIN sealed
    BY <1>2
  <2>2. QED
    BY <1>3, <1>15, <2>1 DEF SealInv, MinedHeights
<1>17. MinedHeights \subseteq AllCovered'
  <2> SUFFICES ASSUME NEW b \in Elements(mined) PROVE b.height \in AllCovered'
    BY DEF MinedHeights
  <2>1. CASE b \in Elements(blocks)
    BY <1>14, <1>15, <2>1
  <2>2. CASE b \notin Elements(blocks)
    <3>1. PICK i \in DOMAIN sealed : Holders(b) = {i}
      BY <1>3, <2>2 DEF SealInv, BlocksAccountedFor
    <3>2. b.height \in Elements(sealed[i].sealHash)
      BY <3>1 DEF Holders
    <3>3. CASE i <= l
      <4>1. InOneBundle(sealed[i])
        BY <1>2, <3>3 DEF BundleInv
      <4>2. ASSUME NEW e, sealed[i] \in Elements(e.sealedArchives) PROVE b.height \in Covered(e)
        <5>1. \E k \in DOMAIN e.sealedArchives : e.sealedArchives[k] = sealed[i]
          BY <4>2 DEF Elements
        <5>2. QED
          BY <3>2, <5>1 DEF Covered
      <4>3. \/ \E k \in DOMAIN bundles : sealed[i] \in Elements(bundles[k].sealedArchives)
            \/ \E d \in Clients : sealed[i] \in Elements(bundle[d].sealedArchives)
        BY <4>1 DEF InOneBundle, Bundled, Digested
      <4>4. b.height \in AllCovered
        BY <4>2, <4>3, CoveredBy
      <4>5. QED
        BY <1>14, <4>4
    <3>4. CASE ~(i <= l)
      <4>1. i \in (l + 1)..n
        BY <1>2, <3>4
      <4>2. QED
        BY <1>14, <1>15, <3>2, <4>1
    <3>5. QED
      BY <3>3, <3>4
  <2>3. QED
    BY <2>1, <2>2
<1>18. MinedHeights' = MinedHeights
  BY <1>1 DEF MinedHeights
<1>19. AllCovered' \subseteq MinedHeights'
  BY <1>14, <1>16, <1>18 DEF BundleInv
<1>20. \A i \in 1..lastSealedIndex' : InOneBundle(sealed[i])'
  BY <1>1, <1>9
<1>21. /\ \A k \in DOMAIN bundles' : (WellFormed(bundles[k]) /\ HoldsFirst(bundles[k], lastSealedIndex))'
       /\ \A d \in Clients : (WellFormed(bundle[d]) /\ HoldsFirst(bundle[d], lastSealedIndex))'
  <2> HIDE DEF n
  <2>1. sealed' = sealed /\ lastSealedIndex' = n
    BY <1>1
  <2>2. QED
    BY <1>12, <1>13, <2>1 DEF WellFormed, HoldsFirst
<1>22. QED
  BY <1>17, <1>18, <1>19, <1>20, <1>21 DEF BundleInv

(* A flush that ends moves its bundle from its call to the bundles. *)
LEMMA EndMoves ==
  ASSUME TypeOK, SeqTypeOK, ChainInv, BundleInv, NEW c \in Clients, EndFlush(c)
  PROVE  BundleInv'
<1> DEFINE n == Len(bundles) + 1
           b == bundle[c]
<1>1. /\ bundles' = Append(bundles, b) /\ bundle' = [bundle EXCEPT ![c] = NoBundle]
      /\ sealed' = sealed /\ lastSealedIndex' = lastSealedIndex /\ mined' = mined
  BY DEF EndFlush, vars, chainVars, history
<1>2. /\ DOMAIN bundles = 1..Len(bundles) /\ DOMAIN bundles' = 1..n /\ Len(bundles) \in Nat
      /\ \A k \in DOMAIN bundles : bundles'[k] = bundles[k]
      /\ bundles'[n] = b
  <2>1. bundles \in Seq(Bundle) /\ b \in Bundle
    BY DEF SeqTypeOK
  <2>2. /\ Append(bundles, b) \in Seq(Bundle) /\ Len(Append(bundles, b)) = n
        /\ \A k \in 1..Len(bundles) : Append(bundles, b)[k] = bundles[k]
        /\ Append(bundles, b)[n] = b
    BY <2>1, AppendProperties
  <2>3. QED
    BY <1>1, <2>1, <2>2, LenProperties
<1>3. /\ n \notin DOMAIN bundles /\ n \in DOMAIN bundles'
      /\ \A k : k \in DOMAIN bundles' <=> k \in DOMAIN bundles \/ k = n
  BY <1>2
<1>4. /\ bundle'[c] = NoBundle /\ \A d \in Clients \ {c} : bundle'[d] = bundle[d]
      /\ WellFormed(NoBundle) /\ Covered(NoBundle) = {}
      /\ Elements(NoBundle.sealedArchives) = {}
  BY <1>1, EmptyBundle DEF SeqTypeOK
<1> HIDE DEF n
<1>5. \A a : /\ Bundled(a)' = IF a \in Elements(b.sealedArchives) THEN Bundled(a) \cup {n} ELSE Bundled(a)
             /\ Digested(a)' = Digested(a) \ {c}
             /\ a \in Elements(b.sealedArchives) <=> c \in Digested(a)
             /\ n \notin Bundled(a)
  BY <1>2, <1>3, <1>4 DEF Bundled, Digested
<1>6. \A i \in 1..lastSealedIndex : InOneBundle(sealed[i])'
  <2> SUFFICES ASSUME NEW i \in 1..lastSealedIndex PROVE InOneBundle(sealed[i])'
    OBVIOUS
  <2> DEFINE a == sealed[i]
  <2>1. InOneBundle(a)
    BY DEF BundleInv
  <2> HIDE DEF a
  <2>2. InOneBundle(a)'
        <=> \/ Digested(a)' = {} /\ \E k \in DOMAIN bundles' : Bundled(a)' = {k}
            \/ Bundled(a)' = {} /\ \E d \in Clients : Digested(a)' = {d}
    BY <1>1 DEF InOneBundle, a
  <2>3. /\ Bundled(a)' = IF a \in Elements(b.sealedArchives) THEN Bundled(a) \cup {n} ELSE Bundled(a)
        /\ Digested(a)' = Digested(a) \ {c}
    BY <1>1, <1>5 DEF a
  <2>4. CASE c \in Digested(a)
    <3>1. Bundled(a) = {} /\ Digested(a) = {c}
      BY <2>1, <2>4 DEF InOneBundle
    <3>2. Bundled(a)' = {n} /\ Digested(a)' = {}
      BY <1>5, <2>3, <2>4, <3>1
    <3>3. QED
      BY <1>3, <2>2, <3>2 DEF a
  <2>5. CASE c \notin Digested(a)
    <3>1. Bundled(a)' = Bundled(a) /\ Digested(a)' = Digested(a)
      BY <1>5, <2>3, <2>5
    <3>2. QED
      BY <1>3, <2>1, <2>2, <3>1 DEF a, InOneBundle
  <2>6. QED
    BY <2>4, <2>5
<1>7. \A e : HoldsFirst(e, lastSealedIndex)' <=> HoldsFirst(e, lastSealedIndex)
  BY <1>1 DEF HoldsFirst
<1>8. \A k \in DOMAIN bundles' : WellFormed(bundles'[k]) /\ HoldsFirst(bundles'[k], lastSealedIndex)
  BY <1>2, <1>3 DEF BundleInv
<1>9. HoldsFirst(NoBundle, lastSealedIndex)
  BY <1>4 DEF HoldsFirst
<1>10. \A d \in Clients : WellFormed(bundle'[d]) /\ HoldsFirst(bundle'[d], lastSealedIndex)
  BY <1>4, <1>9 DEF BundleInv
<1>11. AllCovered' = AllCovered
  <2>1. \A h : h \in AllCovered' <=> \/ \E k \in DOMAIN bundles' : h \in Covered(bundles'[k])
                                     \/ \E d \in Clients : h \in Covered(bundle'[d])
    BY DEF AllCovered
  <2>2. \A h : (\E k \in DOMAIN bundles' : h \in Covered(bundles'[k]))
                 <=> (\E k \in DOMAIN bundles : h \in Covered(bundles[k])) \/ h \in Covered(b)
    BY <1>2, <1>3
  <2>3. \A h : (\E d \in Clients : h \in Covered(bundle'[d])) \/ h \in Covered(b)
                 <=> \E d \in Clients : h \in Covered(bundle[d])
    BY <1>4
  <2>4. \A h : h \in AllCovered' <=> h \in AllCovered
    BY <2>1, <2>2, <2>3, CoveredBy
  <2>5. QED
    BY <2>4 DEF AllCovered
<1>12. MinedHeights' = MinedHeights
  BY <1>1 DEF MinedHeights
<1>13. QED
  BY <1>1, <1>6, <1>8, <1>10, <1>11, <1>12 DEF BundleInv, WellFormed, HoldsFirst

LEMMA BundleStep ==
  ASSUME TypeOK, TypeOK', SeqTypeOK, ChainInv, MinesInCall, IdleEmpty, BundleInv, [SeqNext]_allVars
  PROVE  BundleInv'
<1>1. [Next]_vars
  BY SeqStep
<1>2. ASSUME UNCHANGED <<lastSealedIndex, bundles, lost, bundle>> PROVE BundleInv'
  BY <1>1, <1>2, BundlesStay
<1>3. ASSUME NEW c \in Callers, Mined(c) PROVE BundleInv'
  BY <1>2, <1>3, FlushDelivers DEF Mined, Clients
<1>4. ASSUME NEW c \in Flushers, FlushBundle(c) PROVE BundleInv'
  BY <1>4, FlushDelivers DEF FlushBundle, Clients
<1>5. ASSUME NEW c \in Clients, Deliver(c) \/ RejectFlush(c) PROVE BundleInv'
  BY <1>5, EndMoves DEF Deliver, RejectFlush
<1>6. QED
  BY <1>2, <1>3, <1>4, <1>5 DEF SeqNext, MineAndBundle, MineOn, MineThrows, seqVars, allVars

LEMMA BundlesDeliver ==
  ASSUME TypeOK, SeqTypeOK, ChainInv, BundleInv
  PROVE  BundlesDeliverChain
<1>1. /\ DOMAIN sealed = 1..Len(sealed) /\ Len(sealed) \in Nat
      /\ lastSealedIndex \in Nat /\ lastSealedIndex <= Len(sealed)
  BY LenProperties DEF TypeOK, SeqTypeOK
<1>2. ASSUME NEW i \in DOMAIN sealed
      PROVE  Cardinality(Bundled(sealed[i])) + Cardinality(Digested(sealed[i]))
               = IF i <= lastSealedIndex THEN 1 ELSE 0
  <2>1. Cardinality({}) = 0 /\ \A x : Cardinality({x}) = 1
    BY FS_EmptySet, FS_Singleton
  <2>2. CASE i <= lastSealedIndex
    <3>1. InOneBundle(sealed[i])
      BY <1>1, <2>2 DEF BundleInv
    <3>2. \/ Digested(sealed[i]) = {} /\ \E k : Bundled(sealed[i]) = {k}
          \/ Bundled(sealed[i]) = {} /\ \E c : Digested(sealed[i]) = {c}
      BY <3>1 DEF InOneBundle
    <3>3. \/ Cardinality(Digested(sealed[i])) = 0 /\ Cardinality(Bundled(sealed[i])) = 1
          \/ Cardinality(Bundled(sealed[i])) = 0 /\ Cardinality(Digested(sealed[i])) = 1
      BY <2>1, <3>2
    <3>4. QED
      BY <2>2, <3>3
  <2>3. CASE ~(i <= lastSealedIndex)
    <3>1. \A j \in 1..lastSealedIndex : j \in DOMAIN sealed /\ j # i
      BY <1>1, <2>3
    <3>2. \A j \in 1..lastSealedIndex : sealed[j] # sealed[i]
      BY <3>1, SealedDiffer DEF ChainInv
    <3>3. Bundled(sealed[i]) = {} /\ Digested(sealed[i]) = {}
      BY <3>2 DEF BundleInv, HoldsFirst, Bundled, Digested
    <3>4. QED
      BY <2>1, <2>3, <3>3
  <2>4. QED
    BY <2>2, <2>3
<1>3. \A i \in DOMAIN mined : mined[i].height \in MinedHeights
  BY DEF MinedHeights, Elements
<1>4. QED
  BY <1>2, <1>3 DEF BundleInv, BundlesDeliverChain

(* With one caller mining, flushes that overlap each other and the sealing of
   blocks put every archive into exactly one bundle, each bundle is a
   consistent cut of the chain, and together they vouch for every block below
   the newest they vouch for.                                               *)
THEOREM BundlesComplete == OneCaller => (SeqSpec => []BundlesDeliverChain)
<1> SUFFICES ASSUME OneCaller PROVE SeqSpec => []BundlesDeliverChain
  OBVIOUS
<1>1. SeqSpec => [](TypeOK /\ SeqTypeOK)
  BY SeqInvariant
<1>2. SeqSpec => []ChainInv
  BY OneCallerMines, SequencerIsChain, ChainInvariant, PTL
<1>3. SeqInit => MinesInCall /\ IdleEmpty /\ NoArchiveLost /\ BundleInv
  <2> SUFFICES ASSUME SeqInit PROVE MinesInCall /\ IdleEmpty /\ NoArchiveLost /\ BundleInv
    OBVIOUS
  <2>1. MinesInCall /\ IdleEmpty /\ NoArchiveLost
    BY DEF SeqInit, Init, MinesInCall, IdleEmpty, NoArchiveLost, Clients, Miners
  <2>2. /\ lastSealedIndex = 0 /\ DOMAIN bundles = {} /\ 1..lastSealedIndex = {}
        /\ \A c \in Clients : bundle[c] = NoBundle
    BY DEF SeqInit
  <2>3. \A c \in Clients : WellFormed(bundle[c]) /\ HoldsFirst(bundle[c], lastSealedIndex)
    BY <2>2, EmptyBundle DEF HoldsFirst
  <2>4. AllCovered = {}
    BY <2>2, CoveredBy, EmptyBundle
  <2>5. QED
    BY <2>1, <2>2, <2>3, <2>4 DEF BundleInv
<1>4. /\ TypeOK /\ SeqTypeOK /\ ChainInv /\ TypeOK' /\ SeqTypeOK'
      /\ MinesInCall /\ IdleEmpty /\ NoArchiveLost /\ BundleInv /\ [SeqNext]_allVars
      => MinesInCall' /\ IdleEmpty' /\ NoArchiveLost' /\ BundleInv'
  BY MinesInCallStep, SeqInvStep, BundleStep DEF SeqInv
<1>5. TypeOK /\ SeqTypeOK /\ ChainInv /\ BundleInv => BundlesDeliverChain
  BY BundlesDeliver
<1>6. QED
  BY <1>1, <1>2, <1>3, <1>4, <1>5, PTL DEF SeqSpec
=============================================================================
