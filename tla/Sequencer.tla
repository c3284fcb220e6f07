----------------------------- MODULE Sequencer -----------------------------
(***************************************************************************)
(* The rollup sequencer (src/vm/sequencer.ts) on top of block production.  *)
(*                                                                         *)
(* mineAndBundle mines a block and, when enough blocks are in memory, goes *)
(* on to flushBundle; flushBundle may also be called on its own.  A flush  *)
(* takes the blocks in memory and the archives sealed since the flush      *)
(* before, and delivers the bundle after an await on its digest, during    *)
(* which blocks are mined, sealed and bundled by other calls.  The digest  *)
(* or the embedder's onBundle may throw: the flush rejects, and nothing of *)
(* what it took is put back.  The sequencer is the only one that mines,    *)
(* and the VM has no block store.                                          *)
(***************************************************************************)
EXTENDS Chain, FiniteSets

CONSTANTS
  Flushers,            \* direct callers of flushBundle
  MaxBlocksPerBundle,  \* blocks in memory that make mineAndBundle flush
  MaxBundles           \* bound on bundles

ASSUME SequencerAssumption ==
  /\ Ticks = {} /\ ~Persistent
  /\ Flushers \cap Callers = {}
  /\ MaxBlocksPerBundle \in Nat \ {0} /\ MaxBundles \in Nat

VARIABLES
  lastSealedIndex,  \* how many archives the bundles account for
  bundles,          \* bundles of the flushes that ended, in that order
  lost,             \* history: those of them whose flush rejected
  flushing,         \* the await at which each call of the sequencer is
  bundle            \* the bundle each call is digesting

seqVars == <<lastSealedIndex, bundles, lost, flushing, bundle>>
allVars == <<vars, seqVars>>

-----------------------------------------------------------------------------
Clients == Callers \cup Flushers

Bundle   == [blocks : Seq(Block), sealedArchives : Seq(Archive)]
NoBundle == [blocks |-> <<>>, sealedArchives |-> <<>>]

\* Mutants of UnbundledArchives: every archive; all but the first new one.
AllArchives == sealed
SkipOneArchive == SubSeq(sealed, lastSealedIndex + 2, Len(sealed))

\* The archives no bundle holds yet.
UnbundledArchives == SubSeq(sealed, lastSealedIndex + 1, Len(sealed))

\* Mutant of BundledCount: one archive is taken as bundled per bundle.
OneMore == lastSealedIndex + 1

\* How many archives the bundles account for after a flush.
BundledCount == Len(sealed)

SeqInit ==
  /\ Init
  /\ lastSealedIndex = 0
  /\ bundles = <<>>
  /\ lost = {}
  /\ flushing = [c \in Clients |-> "idle"]
  /\ bundle = [c \in Clients |-> NoBundle]

\* The bound holds for the calls under way as well.
Room == Len(bundles) + Cardinality({c \in Clients : flushing[c] # "idle"})
          < MaxBundles

(* flushBundle up to its await: what goes into the bundle is read here. *)
StartFlush(c) ==
  /\ bundle' = [bundle EXCEPT ![c] =
                  [blocks |-> blocks, sealedArchives |-> UnbundledArchives]]
  /\ lastSealedIndex' = BundledCount
  /\ flushing' = [flushing EXCEPT ![c] = "digesting"]
  /\ UNCHANGED <<vars, bundles, lost>>

\* A direct call; with no block in memory it rejects.
FlushBundle(c) ==
  /\ flushing[c] = "idle" /\ Room
  /\ blocks # <<>>
  /\ StartFlush(c)

\* mineAndBundle awaits mineBlock, which returns null if nothing is pending.
MineAndBundle(c) ==
  /\ flushing[c] = "idle" /\ Room
  /\ Call(c)
  /\ flushing' = [flushing EXCEPT ![c] = "mining"]
  /\ UNCHANGED <<lastSealedIndex, bundles, lost, bundle>>

MineOn(c) ==
  /\ ReadStateRoot(c) \/ ReadQuantumRoot(c) \/ Commit(c) \/ FinishSeal(c)
  /\ UNCHANGED seqVars

\* mineBlock throws, and mineAndBundle with it.
MineThrows(c) ==
  /\ MineFails(c)
  /\ flushing' = [flushing EXCEPT ![c] = "idle"]
  /\ UNCHANGED <<lastSealedIndex, bundles, lost, bundle>>

\* mineAndBundle resumes with a block: it flushes if enough are in memory.
Mined(c) ==
  /\ flushing[c] = "mining" /\ pc[c] = "idle"
  /\ \/ Len(blocks) >= MaxBlocksPerBundle /\ StartFlush(c)
     \/ /\ Len(blocks) < MaxBlocksPerBundle
        /\ flushing' = [flushing EXCEPT ![c] = "idle"]
        /\ UNCHANGED <<vars, lastSealedIndex, bundles, lost, bundle>>

\* The flush is over: its call keeps nothing, and what it took stays taken.
EndFlush(c) ==
  /\ flushing[c] = "digesting"
  /\ bundles' = Append(bundles, bundle[c])
  /\ bundle' = [bundle EXCEPT ![c] = NoBundle]
  /\ flushing' = [flushing EXCEPT ![c] = "idle"]
  /\ UNCHANGED <<vars, lastSealedIndex>>

\* The digest is there: the bundle is given to onBundle and to the caller.
Deliver(c) == EndFlush(c) /\ UNCHANGED lost

\* The digest or onBundle throws, and the flush with it (MaxFaults bounds how often).
RejectFlush(c) ==
  /\ EndFlush(c)
  /\ Cardinality(lost) < MaxFaults
  /\ lost' = lost \cup {Len(bundles) + 1}

SeqNext ==
  \/ \E t \in Txs : Submission(t) /\ UNCHANGED seqVars
  \/ \E c \in Callers :
        MineAndBundle(c) \/ MineOn(c) \/ MineThrows(c) \/ Mined(c)
  \/ \E c \in Flushers : FlushBundle(c)
  \/ \E c \in Clients : Deliver(c) \/ RejectFlush(c)

SeqSpec == SeqInit /\ [][SeqNext]_allVars

-----------------------------------------------------------------------------
(* Type invariant of the sequencer's own state. *)
SeqTypeOK ==
  /\ lastSealedIndex \in 0..Len(sealed)
  /\ bundles \in Seq(Bundle) /\ lost \subseteq DOMAIN bundles
  /\ flushing \in [Clients -> {"idle", "mining", "digesting"}]
  /\ bundle \in [Clients -> Bundle]

\* The bundles that hold archive a: of the flushes that ended, and of those under way.
Bundled(a) == {i \in DOMAIN bundles : a \in Elements(bundles[i].sealedArchives)}
Digested(a)  == {c \in Clients : a \in Elements(bundle[c].sealedArchives)}

WellFormed(b) ==
  LET bs == b.blocks
      as == b.sealedArchives IN
  /\ \A i \in 2..Len(bs) : bs[i].prevHash = bs[i - 1].height
  /\ \A i \in 2..Len(as) : as[i - 1].toHeight < as[i].fromHeight
  /\ \A i \in DOMAIN bs, j \in DOMAIN as : as[j].toHeight < bs[i].height

\* The heights a bundle vouches for, by a block or by an archive's hash.
Covered(b) ==
  {b.blocks[i].height : i \in DOMAIN b.blocks} \cup
  UNION {Elements(b.sealedArchives[i].sealHash) : i \in DOMAIN b.sealedArchives}

AllCovered == UNION ({Covered(bundles[i]) : i \in DOMAIN bundles}
                     \cup {Covered(bundle[c]) : c \in Clients})

(* Flushes that overlap each other and the sealing of blocks cut the chain
   into bundles: each archive counted as bundled is in exactly one of them,
   and no other archive is in any; a bundle is a consistent cut, its blocks
   linked, its archives in order and before its blocks; and every block below
   the newest height any bundle vouches for is vouched for by a bundle
   (flushBundle).  A bundle is on its way, delivered, or lost with the flush
   that rejected, and the archives of a lost one are in no other: the chain
   is delivered as long as no flush rejects.                                *)
BundlesDeliverChain ==
  /\ \A i \in DOMAIN sealed :
       Cardinality(Bundled(sealed[i])) + Cardinality(Digested(sealed[i]))
         = IF i <= lastSealedIndex THEN 1 ELSE 0
  /\ \A i \in DOMAIN bundles : WellFormed(bundles[i])
  /\ \A c \in Clients : WellFormed(bundle[c])
  /\ \A i \in DOMAIN mined, h \in AllCovered :
       mined[i].height < h => mined[i].height \in AllCovered

(* The part of it that holds however many call mineAndBundle: no archive falls
   between two flushes.  (With a flush that rejects, its archives are lost.)  *)
NoArchiveLost ==
  \A i \in 1..lastSealedIndex :
    Bundled(sealed[i]) # {} \/ Digested(sealed[i]) # {}
=============================================================================
