---------------------------- MODULE RecordProofs ----------------------------
(***************************************************************************)
(* Proofs about records that calls read, and write back later: the DID     *)
(* documents (Did), the session record (Session), the snapshots of the     *)
(* storage (AutoSync) and the documents of the forum (Forum), for every    *)
(* value of their constants.                                               *)
(***************************************************************************)
EXTENDS Did, Session, AutoSync, Forum, WellFoundedInduction, TLAPS

-----------------------------------------------------------------------------
(* The documents (Did).                                                     *)
(*                                                                          *)
(* ChangesAreSigned speaks of what storage held while a call was under way, *)
(* and a call writes what it read at first.  ReadSince joins the two.       *)

\* The document a call read is one that storage has held since the call began.
ReadSince == \A c \in DidCallers : didCall[c] # NoCall => didCall[c].existing \in didCall[c].since

\* An update read a document that was active.
UpdatesActive ==
  \A c \in DidCallers : didCall[c] # NoCall /\ didCall[c].change # Deactivation =>
    didCall[c].existing.active

DidInv == DidTypeOK /\ ReadSince /\ UpdatesActive

-----------------------------------------------------------------------------
(* No value is taken for the absence of one *)

LEMMA NoDocIsNone == NoDoc \notin Docs
BY DEF NoDoc, Docs, Algorithms

LEMMA NoCallIsNone == NoCall \notin DidCalls
BY DEF NoCall, DidCalls

LEMMA NewDocument == ASSUME NEW k \in DidKeys, NEW a \in Algorithms PROVE DidDocument(k, a) \in Docs
BY DEF DidDocument, Docs

\* Genesis gives every initial DID a document and leaves the documents there are.
LEMMA GenesisDocuments ==
  ASSUME NEW doc \in [Dids -> Docs \cup {NoDoc}]
  PROVE  /\ Genesis(doc) \in [Dids -> Docs \cup {NoDoc}]
         /\ \A d \in Dids : doc[d] # NoDoc => Genesis(doc)[d] = doc[d]
         /\ \A d \in DOMAIN InitialDids : Genesis(doc)[d] # NoDoc
<1>1. "ed25519" \in Algorithms
  BY DEF Algorithms
<1>2. \A d \in DOMAIN InitialDids : d \in Dids /\ DidDocument(InitialDids[d], "ed25519") \in Docs
  BY <1>1, NewDocument, InitialDidsAssumption
<1> QED
  BY <1>2, NoDocIsNone DEF Genesis

\* The document a call writes is one, and what the call asked of the one it read.
LEMMA ChangedDocument ==
  ASSUME NEW call \in DidCalls
  PROVE  /\ Changed(call) \in Docs
         /\ /\ call.key = call.existing.publicKey
            /\ call.change # Deactivation => call.existing.active
            => IsAsked(call, call.existing, Changed(call))
<1> DEFINE old == call.existing
<1>1. old \in Docs /\ (old.active \/ ~old.active)
  BY DEF DidCalls
<1>2. old = [active |-> old.active, publicKey |-> old.publicKey, algorithm |-> old.algorithm]
  BY <1>1 DEF Docs
<1>3. CASE call.change \in Updates /\ call.change.field = "publicKey"
  <2>1. call.change.to \in DidKeys
    BY <1>3 DEF Updates
  <2>2. Changed(call) = [old EXCEPT !.publicKey = call.change.to]
    BY <1>3 DEF Changed
  <2>3. call.change # Deactivation
    BY <1>3 DEF Deactivation
  <2> QED
    BY <1>1, <1>3, <2>1, <2>2, <2>3 DEF Docs, IsAsked
<1>4. CASE call.change.field # "publicKey"
  <2>1. /\ call.change.field \in {"active", "deactivate"} /\ call.change.to \in BOOLEAN
        /\ call.change = Deactivation => call.change.to = FALSE
    <3>1. CASE call.change = Deactivation
      BY <3>1 DEF Deactivation
    <3>2. CASE call.change \in [field : {"active"}, to : BOOLEAN]
      BY <3>2 DEF Deactivation
    <3>3. call.change \in [field : {"publicKey"}, to : DidKeys] => call.change.field = "publicKey"
      OBVIOUS
    <3> QED
      BY <1>4, <3>1, <3>2, <3>3 DEF DidCalls, Updates
  <2>2. Changed(call) = [old EXCEPT !.active = call.change.to]
    BY <1>4, <2>1 DEF Changed
  <2>3. Changed(call) \in Docs
    BY <1>1, <2>1, <2>2 DEF Docs
  <2>4. /\ Changed(call).active = call.change.to /\ Changed(call).publicKey = old.publicKey
        /\ Changed(call).algorithm = old.algorithm
    BY <1>1, <2>2 DEF Docs
  <2> QED
    BY <1>4, <2>1, <2>3, <2>4 DEF IsAsked
<1> QED
  BY <1>3, <1>4 DEF DidCalls, Updates, Deactivation

-----------------------------------------------------------------------------
(* The invariant *)

LEMMA DidInitHolds == DidInit => DidInv
<1> SUFFICES ASSUME DidInit PROVE DidInv
  OBVIOUS
<1>1. didDoc \in [Dids -> Docs \cup {NoDoc}] /\ \A d \in DOMAIN InitialDids : didDoc[d] # NoDoc
  BY GenesisDocuments DEF DidInit
<1>2. \A c \in DidCallers : didCall[c] = NoCall
  BY DEF DidInit
<1>3. DidTypeOK
  BY <1>1, <1>2 DEF DidInit, DidTypeOK
<1> QED
  BY <1>2, <1>3 DEF DidInv, ReadSince, UpdatesActive

\* What every step but a registration and a restart does to the calls: one of them goes or ends.
LEMMA CallInFlight ==
  ASSUME DidTypeOK, NEW c \in DidCallers, didCall[c].step \in DidSteps
  PROVE  didCall[c] \in DidCalls /\ didCall[c] # NoCall
<1>1. didCall[c] # NoCall
  BY DEF NoCall, DidSteps
<1> QED
  BY <1>1 DEF DidTypeOK

\* A document that is registered has no call yet.
LEMMA RegisterHolds ==
  ASSUME DidInv, NEW d \in Dids, NEW k \in DidKeys, NEW a \in Algorithms, Register(d, k, a)
  PROVE  DidInv'
<1> USE DEF DidInv
<1>1. DidDocument(k, a) \in Docs /\ DidDocument(k, a) # NoDoc
  BY NewDocument, NoDocIsNone
<1>2. didDoc' = [didDoc EXCEPT ![d] = DidDocument(k, a)] /\ didDoc[d] = NoDoc
  BY DEF Register
<1>3. didCall' = didCall /\ didModule' = didModule
  BY DEF Register
<1>4. \A c \in DidCallers : didCall[c] # NoCall => didCall[c].did # d
  BY <1>2 DEF DidTypeOK
<1>5. DidTypeOK'
  BY <1>1, <1>2, <1>3 DEF DidTypeOK
<1>6. ReadSince'
  BY <1>3 DEF ReadSince
<1>7. UpdatesActive'
  BY <1>3 DEF UpdatesActive
<1> QED
  BY <1>5, <1>6, <1>7

\* A call begins with the document of storage.
LEMMA DidBeginHolds ==
  ASSUME DidInv, NEW c \in DidCallers, NEW d \in Dids, NEW change \in Updates \cup {Deactivation},
         NEW key \in DidKeys, NEW step \in DidSteps, Begin(c, d, change, key, step),
         didDoc[d] # NoDoc, change # Deactivation => didDoc[d].active,
         step \in {"configuring", "verifying"} => didModule # "absent"
  PROVE  DidInv'
<1> DEFINE call == [step |-> step, did |-> d, existing |-> didDoc[d], change |-> change, key |-> key,
                    since |-> {didDoc[d]}]
<1>1. didDoc' = didDoc /\ didModule' = didModule /\ didCall' = [didCall EXCEPT ![c] = call]
  BY DEF Begin
<1>2. call \in DidCalls /\ call # NoCall
  <2>1. didDoc[d] \in Docs
    BY DEF DidInv, DidTypeOK
  <2>2. call \in DidCalls
    BY <2>1 DEF DidCalls
  <2> QED
    BY <2>2, NoCallIsNone
<1>3. call.step = step /\ call.did = d /\ call.existing = didDoc[d] /\ call.change = change
      /\ call.since = {didDoc[d]}
  OBVIOUS
<1> HIDE DEF call
<1>4. didCall'[c] = call /\ \A e \in DidCallers : e # c => didCall'[e] = didCall[e]
  BY <1>1 DEF DidInv, DidTypeOK
<1>5. DidTypeOK'
  <2>1. didCall' \in [DidCallers -> DidCalls \cup {NoCall}]
    BY <1>1, <1>2 DEF DidInv, DidTypeOK
  <2> QED
    BY <1>1, <1>3, <1>4, <2>1 DEF DidInv, DidTypeOK
<1>6. ReadSince' /\ UpdatesActive'
  BY <1>3, <1>4 DEF DidInv, ReadSince, UpdatesActive
<1> QED
  BY <1>5, <1>6 DEF DidInv

\* A call goes to its next await: of what the invariant says of it, only the module changes.
LEMMA GoesHolds ==
  ASSUME DidInv, NEW c \in DidCallers, didCall[c] # NoCall, NEW step \in DidSteps, Goes(c, step),
         didDoc' = didDoc, didModule' \in {"absent", "imported", "ready"},
         didModule # "absent" => didModule' # "absent",
         step \in {"configuring", "verifying"} => didModule' # "absent"
  PROVE  DidInv'
<1>1. didCall[c] \in DidCalls
  BY DEF DidInv, DidTypeOK
<1>2. didCall' = [didCall EXCEPT ![c] = [didCall[c] EXCEPT !.step = step]]
  BY DEF Goes
<1>3. didCall'[c] = [didCall[c] EXCEPT !.step = step]
  BY <1>2 DEF DidInv, DidTypeOK
<1>4. /\ didCall'[c] \in DidCalls /\ didCall'[c].step = step /\ didCall'[c].did = didCall[c].did
      /\ didCall'[c].existing = didCall[c].existing /\ didCall'[c].change = didCall[c].change
      /\ didCall'[c].since = didCall[c].since
  BY <1>1, <1>3 DEF DidCalls
<1>5. didCall'[c] # NoCall
  BY <1>4, NoCallIsNone
<1>6. \A e \in DidCallers : e # c => didCall'[e] = didCall[e]
  BY <1>2 DEF DidInv, DidTypeOK
<1>7. DidTypeOK'
  <2>1. didCall' \in [DidCallers -> DidCalls \cup {NoCall}]
    BY <1>2, <1>3, <1>4 DEF DidInv, DidTypeOK
  <2> QED
    BY <1>4, <1>5, <1>6, <2>1 DEF DidInv, DidTypeOK
<1>8. ReadSince' /\ UpdatesActive'
  BY <1>4, <1>6 DEF DidInv, ReadSince, UpdatesActive
<1> QED
  BY <1>7, <1>8 DEF DidInv

\* A call ends without a new document.
LEMMA EndsHolds ==
  ASSUME DidInv, NEW c \in DidCallers, Returns(c), didModule' = didModule, didDoc' = didDoc
  PROVE  DidInv'
<1>1. didCall'[c] = NoCall /\ \A e \in DidCallers : e # c => didCall'[e] = didCall[e]
  BY DEF Returns, DidInv, DidTypeOK
<1>2. didCall' \in [DidCallers -> DidCalls \cup {NoCall}]
  BY DEF Returns, DidInv, DidTypeOK
<1>3. DidTypeOK'
  BY <1>1, <1>2 DEF DidInv, DidTypeOK
<1> QED
  BY <1>1, <1>3 DEF DidInv, ReadSince, UpdatesActive

\* A call ends and stores a document, which the other calls on its DID have seen in storage.
LEMMA StoresHolds ==
  ASSUME DidInv, NEW c \in DidCallers, NEW d \in Dids, NEW doc \in Docs, Stores(c, d, doc),
         didDoc[d] # NoDoc, didModule' = didModule
  PROVE  DidInv'
<1>1. didCall'[c] = NoCall /\ DOMAIN didCall' = DidCallers
      /\ didCall' = [e \in DidCallers |-> didCall'[e]]
  BY DEF Stores
<1>2. ASSUME NEW e \in DidCallers, didCall'[e] # NoCall
      PROVE  /\ didCall[e] # NoCall /\ didCall'[e] \in DidCalls
             /\ didCall'[e].did = didCall[e].did /\ didCall'[e].step = didCall[e].step
             /\ didCall'[e].existing = didCall[e].existing /\ didCall'[e].change = didCall[e].change
             /\ didCall[e].since \subseteq didCall'[e].since
  <2>1. e # c
    BY <1>1, <1>2
  <2>2. CASE e \in OnDid(d)
    <3>1. didCall'[e] = [didCall[e] EXCEPT !.since = didCall[e].since \cup {doc}]
      BY <2>1, <2>2 DEF Stores
    <3>2. didCall[e] # NoCall /\ didCall[e] \in DidCalls
      BY <2>2 DEF OnDid, DidInv, DidTypeOK
    <3> QED
      BY <3>1, <3>2 DEF DidCalls
  <2>3. CASE e \notin OnDid(d)
    <3>1. didCall'[e] = didCall[e]
      BY <2>1, <2>3 DEF Stores
    <3> QED
      BY <1>2, <3>1 DEF DidInv, DidTypeOK
  <2> QED
    BY <2>2, <2>3
<1>3. /\ didDoc' \in [Dids -> Docs \cup {NoDoc}]
      /\ \A e \in Dids : didDoc[e] # NoDoc => didDoc'[e] # NoDoc
  BY NoDocIsNone DEF Stores, DidInv, DidTypeOK
<1>4. DidTypeOK'
  <2>1. didCall' \in [DidCallers -> DidCalls \cup {NoCall}]
    BY <1>1, <1>2
  <2>2. \A e \in DidCallers : didCall[e] # NoCall => didCall[e].did \in Dids
    BY DEF DidInv, DidTypeOK, DidCalls
  <2>3. \A e \in DidCallers : didCall'[e] # NoCall =>
          /\ didDoc'[didCall'[e].did] # NoDoc
          /\ didCall'[e].step \in {"configuring", "verifying"} => didModule # "absent"
    BY <1>2, <1>3, <2>2 DEF DidInv, DidTypeOK
  <2>4. \A e \in DOMAIN InitialDids : didDoc'[e] # NoDoc
    BY <1>3, InitialDidsAssumption DEF DidInv, DidTypeOK
  <2> QED
    BY <1>3, <2>1, <2>3, <2>4 DEF DidInv, DidTypeOK
<1>5. ReadSince' /\ UpdatesActive'
  BY <1>2 DEF DidInv, ReadSince, UpdatesActive
<1> QED
  BY <1>4, <1>5 DEF DidInv

\* A restart ends every call, and registers only DIDs that have no document.
LEMMA RestartHolds == ASSUME DidInv, DidRestart PROVE DidInv'
<1>1. didDoc' = Genesis(didDoc) /\ didModule' = "absent" /\ didCall' = [c \in DidCallers |-> NoCall]
  BY DEF DidRestart
<1>2. /\ didDoc' \in [Dids -> Docs \cup {NoDoc}]
      /\ \A d \in DOMAIN InitialDids : didDoc'[d] # NoDoc
  BY <1>1, GenesisDocuments DEF DidInv, DidTypeOK
<1>3. \A c \in DidCallers : didCall'[c] = NoCall
  BY <1>1
<1>4. DidTypeOK'
  BY <1>1, <1>2, <1>3 DEF DidTypeOK
<1> QED
  BY <1>3, <1>4 DEF DidInv, ReadSince, UpdatesActive

\* A valid signature: the document written is the one read, changed.
LEMMA VerifiedWrites ==
  ASSUME DidInv, NEW c \in DidCallers, Verified(c)
  PROVE  /\ didCall[c] # NoCall /\ didCall[c] \in DidCalls /\ didCall[c].did \in Dids
         /\ didCall[c].key = didCall[c].existing.publicKey
         /\ Stores(c, didCall[c].did, Changed(didCall[c]))
         /\ Changed(didCall[c]) \in Docs
<1>1. didCall[c].step \in DidSteps
  BY DEF Verified, DidSteps
<1>2. didCall[c] # NoCall /\ didCall[c] \in DidCalls
  BY <1>1, CallInFlight DEF DidInv
<1>3. Changed(didCall[c]) \in Docs
  BY <1>2, ChangedDocument
<1> QED
  BY <1>2, <1>3 DEF Verified, VerifyingKey, DidCalls

LEMMA DidNextHolds == DidInv /\ [DidNext]_didVars => DidInv'
<1> SUFFICES ASSUME DidInv, [DidNext]_didVars PROVE DidInv'
  OBVIOUS
<1>1. ASSUME NEW d \in Dids, NEW k \in DidKeys, NEW a \in Algorithms, Register(d, k, a) PROVE DidInv'
  BY <1>1, RegisterHolds
<1>2. ASSUME NEW c \in DidCallers, NEW d \in Dids, NEW k \in DidKeys, BeginDeactivate(c, d, k) PROVE DidInv'
  <2>1. ToVerify \in DidSteps /\ (ToVerify \in {"configuring", "verifying"} => didModule # "absent")
    BY DEF ToVerify, DidSteps
  <2> QED
    BY <1>2, <2>1, DidBeginHolds DEF BeginDeactivate
<1>3. ASSUME NEW c \in DidCallers, NEW d \in Dids, NEW k \in DidKeys, NEW u \in Updates, BeginUpdate(c, d, u, k)
      PROVE  DidInv'
  <2>1. "hashing" \in DidSteps /\ "hashing" \notin {"configuring", "verifying"}
    BY DEF DidSteps
  <2>2. didDoc[d] # NoDoc
    BY <1>3 DEF BeginUpdate, NoDoc
  <2> QED
    BY <1>3, <2>1, <2>2, DidBeginHolds DEF BeginUpdate
<1>4. ASSUME NEW c \in DidCallers, Hashed(c) \/ ImportFails(c) \/ NotVerified(c), Returns(c) PROVE DidInv'
  <2>1. didCall[c] # NoCall
    BY <1>4 DEF Hashed, ImportFails, NotVerified, NoCall
  <2>2. didDoc' = didDoc /\ didModule' = didModule
    BY <1>4 DEF Hashed, ImportFails, NotVerified
  <2> QED
    BY <1>4, <2>1, <2>2, EndsHolds DEF DidInv, DidTypeOK
<1>5. ASSUME NEW c \in DidCallers, Hashed(c), ~Returns(c) PROVE DidInv'
  <2>1. didCall[c] # NoCall
    BY <1>5 DEF Hashed, NoCall
  <2>2. ToVerify \in DidSteps /\ (ToVerify \in {"configuring", "verifying"} => didModule # "absent")
    BY DEF ToVerify, DidSteps
  <2>3. Goes(c, ToVerify) /\ didDoc' = didDoc /\ didModule' = didModule
    BY <1>5 DEF Hashed
  <2> QED
    BY <2>1, <2>2, <2>3, GoesHolds DEF DidInv, DidTypeOK
<1>6. ASSUME NEW c \in DidCallers, Imported(c) PROVE DidInv'
  <2> DEFINE step == IF didModule = "ready" THEN "verifying" ELSE "configuring"
  <2>1. didCall[c] # NoCall /\ step \in DidSteps /\ Goes(c, step) /\ didDoc' = didDoc
    BY <1>6 DEF Imported, NoCall, DidSteps
  <2>2. didModule' \in {"imported", "ready"}
    BY <1>6 DEF Imported, DidInv, DidTypeOK
  <2> HIDE DEF step
  <2> QED
    BY <2>1, <2>2, GoesHolds
<1>7. ASSUME NEW c \in DidCallers, Configured(c) PROVE DidInv'
  <2>1. didCall[c] # NoCall /\ Goes(c, "verifying") /\ didDoc' = didDoc /\ didModule' = "ready"
    BY <1>7 DEF Configured, NoCall
  <2>2. "verifying" \in DidSteps
    BY DEF DidSteps
  <2> QED
    BY <2>1, <2>2, GoesHolds
<1>8. ASSUME NEW c \in DidCallers, Verified(c) PROVE DidInv'
  <2>1. didDoc[didCall[c].did] # NoDoc /\ didModule' = didModule
    BY <1>8, VerifiedWrites DEF Verified, DidInv, DidTypeOK
  <2> QED
    BY <1>8, <2>1, VerifiedWrites, StoresHolds
<1>9. ASSUME DidRestart PROVE DidInv'
  BY <1>9, RestartHolds
<1>10. ASSUME UNCHANGED didVars PROVE DidInv'
  BY <1>10 DEF didVars, DidInv, DidTypeOK, ReadSince, UpdatesActive
<1>11. \A c \in DidCallers : ImportFails(c) \/ NotVerified(c) => Returns(c)
  BY DEF ImportFails, NotVerified
<1> QED
  BY <1>1, <1>2, <1>3, <1>4, <1>5, <1>6, <1>7, <1>8, <1>9, <1>10, <1>11 DEF DidNext

-----------------------------------------------------------------------------
(* The theorems *)

LEMMA DidInvHolds == DidSpec => []DidInv
BY DidInitHolds, DidNextHolds, PTL DEF DidSpec

\* Every reachable state has the types of DidTypeOK, the initial DIDs always have a document, and a
\* call verifies only when the signature library has been imported (createDidResolver).
THEOREM DidTypeCorrect == DidSpec => []DidTypeOK
BY DidInvHolds, PTL DEF DidInv

\* A step that changes the document of a DID is a call with a valid signature, or a restart or a
\* registration that changes none that is there.
LEMMA StepIsSigned ==
  ASSUME DidInv, [DidNext]_didVars, NEW d \in Dids, didDoc[d] # NoDoc, didDoc'[d] # didDoc[d]
  PROVE  \E c \in OnDid(d), old \in Docs :
           /\ didCall'[c] = NoCall
           /\ old \in didCall[c].since
           /\ IsAsked(didCall[c], old, didDoc'[d])
<1>1. ASSUME NEW e \in Dids, NEW k \in DidKeys, NEW a \in Algorithms, Register(e, k, a) PROVE FALSE
  BY <1>1 DEF Register, DidInv, DidTypeOK
<1>2. ASSUME DidRestart PROVE FALSE
  BY <1>2, GenesisDocuments DEF DidRestart, DidInv, DidTypeOK
<1>3. ASSUME didDoc' = didDoc PROVE FALSE
  BY <1>3
<1>4. PICK c \in DidCallers : Verified(c)
  BY <1>1, <1>2, <1>3
     DEF DidNext, BeginDeactivate, BeginUpdate, Begin, Hashed, Imported, Configured, ImportFails,
         NotVerified, didVars
<1>5. /\ didCall[c] # NoCall /\ didCall[c] \in DidCalls
      /\ didCall[c].key = didCall[c].existing.publicKey
      /\ Stores(c, didCall[c].did, Changed(didCall[c]))
  BY <1>4, VerifiedWrites
<1>6. didCall[c].did = d /\ didDoc'[d] = Changed(didCall[c])
  BY <1>5 DEF Stores, DidInv, DidTypeOK
<1>7. c \in OnDid(d) /\ didCall'[c] = NoCall
  BY <1>5, <1>6 DEF OnDid, Stores
<1>8. didCall[c].existing \in Docs /\ didCall[c].existing \in didCall[c].since
  BY <1>5 DEF DidCalls, DidInv, ReadSince
<1>9. IsAsked(didCall[c], didCall[c].existing, didDoc'[d])
  BY <1>5, <1>6, ChangedDocument DEF DidInv, UpdatesActive
<1> QED
  BY <1>7, <1>8, <1>9

\* Nobody changes, replaces or revives a document but by the change a call asks for, under the key
\* of a document that was in storage since the call began, whatever other callers, restarts and
\* failing imports do (update, deactivate, genesis).
THEOREM OnlySignedChanges == DidSpec => ChangesAreSigned
<1>1. DidInv /\ [DidNext]_didVars =>
        [\A d \in Dids : didDoc[d] # NoDoc /\ didDoc'[d] # didDoc[d] =>
           \E c \in OnDid(d), old \in Docs :
             /\ didCall'[c] = NoCall
             /\ old \in didCall[c].since
             /\ IsAsked(didCall[c], old, didDoc'[d])]_didVars
  BY StepIsSigned
<1> QED
  BY <1>1, DidInvHolds, PTL DEF DidSpec, ChangesAreSigned

-----------------------------------------------------------------------------
(* The session (Session).                                                   *)
(*                                                                          *)
(* AddsAreKept is not inductive: a call writes the session it loaded, which *)
(* says nothing of the one that is stored.  What is kept must be in every   *)
(* session that a call holds, but for what the call missed.                 *)

\* What is kept is in a session, but for what was missed: every id, with the WASM it was deployed with.
Holds(session, missed) ==
  \A i \in DOMAIN ssKept \ missed : i \in DOMAIN session.contracts /\ session.contracts[i] = ssKept[i]

\* A session that holds something is one that loadSession finds.
Loadable == ssKept = NoContracts \/ (ssStored # NoSession /\ ssStored.version <= CURRENT_VERSION)

\* An addContract that is about to save holds what is kept and it did not miss.
LoadedHolds ==
  \A c \in SsCallers :
    ssCall[c].step = "writing" /\ ssCall[c].op.name = "add" => Holds(ssCall[c].loaded, ssCall[c].missed)

SsInv == SsTypeOK /\ Holds(ssStored, {}) /\ Loadable /\ LoadedHolds

-----------------------------------------------------------------------------
(* The sessions *)

LEMMA NoContractsType == NoContracts \in Contracts /\ DOMAIN NoContracts = {}
<1>1. NoContracts \in [{} -> SsWasms] /\ {} \in SUBSET SsIds
  BY DEF NoContracts
<1> QED
  BY <1>1 DEF Contracts, NoContracts

\* addContract's list of deployments: the new one, and every other as it was.
LEMMA WithType ==
  ASSUME NEW contracts \in Contracts, NEW id \in SsIds, NEW wasm \in SsWasms
  PROVE  /\ With(contracts, id, wasm) \in Contracts
         /\ DOMAIN With(contracts, id, wasm) = DOMAIN contracts \cup {id}
         /\ With(contracts, id, wasm)[id] = wasm
         /\ \A i \in DOMAIN contracts : i # id => With(contracts, id, wasm)[i] = contracts[i]
<1>1. PICK ids \in SUBSET SsIds : contracts \in [ids -> SsWasms]
  BY DEF Contracts
<1>2. With(contracts, id, wasm) \in [ids \cup {id} -> SsWasms]
  BY <1>1 DEF With
<1>3. ids \cup {id} \in SUBSET SsIds
  OBVIOUS
<1>4. With(contracts, id, wasm) \in Contracts
  BY <1>2, <1>3 DEF Contracts
<1> QED
  BY <1>4 DEF With

\* What is kept once a deployment is stored: it, and what the call that stored it did not miss.
LEMMA KeptType ==
  ASSUME ssKept \in Contracts, NEW missed \in SUBSET SsIds, NEW id \in SsIds, NEW wasm \in SsWasms
  PROVE  /\ SsKeeps(missed, id, wasm) \in Contracts
         /\ DOMAIN SsKeeps(missed, id, wasm) = (DOMAIN ssKept \ missed) \cup {id}
         /\ SsKeeps(missed, id, wasm)[id] = wasm
         /\ \A i \in DOMAIN ssKept \ missed : i # id => SsKeeps(missed, id, wasm)[i] = ssKept[i]
<1>1. PICK ids \in SUBSET SsIds : ssKept \in [ids -> SsWasms]
  BY DEF Contracts
<1>2. SsKeeps(missed, id, wasm) \in [(ids \ missed) \cup {id} -> SsWasms]
  BY <1>1 DEF SsKeeps
<1>3. (ids \ missed) \cup {id} \in SUBSET SsIds
  BY <1>1
<1>4. SsKeeps(missed, id, wasm) \in Contracts
  BY <1>2, <1>3 DEF Contracts
<1> QED
  BY <1>4 DEF SsKeeps

LEMMA IdleIsNoCall == Idle \notin SsCalls
BY DEF Idle, SsCalls

LEMMA AddOps ==
  ASSUME NEW op \in SsOps, op.name = "add" PROVE op.id \in SsIds /\ op.wasm \in SsWasms
BY DEF SsOps

LEMMA LoadSessionType ==
  ASSUME ssStored \in Sessions \cup {NoSession}
  PROVE  /\ LoadSession \in Sessions \cup {NoSession}
         /\ LoadSession # NoSession => LoadSession.version = CURRENT_VERSION
                                       /\ LoadSession.contracts = ssStored.contracts
<1>1. CASE ssStored # NoSession /\ ssStored.version <= CURRENT_VERSION
  <2>1. ssStored \in Sessions /\ LoadSession = [ssStored EXCEPT !.version = CURRENT_VERSION]
    BY <1>1 DEF LoadSession
  <2> QED
    BY <2>1 DEF Sessions
<1>2. CASE ~(ssStored # NoSession /\ ssStored.version <= CURRENT_VERSION)
  BY <1>2 DEF LoadSession
<1> QED
  BY <1>1, <1>2

-----------------------------------------------------------------------------
(* The invariant *)

LEMMA SsInitHolds == SsInit => SsInv
<1> SUFFICES ASSUME SsInit PROVE SsInv
  OBVIOUS
<1>1. ssStored \in Sessions \cup {NoSession}
  BY NoContractsType DEF SsInit, Sessions, LEGACY_VERSION, CURRENT_VERSION
<1>2. \A c \in SsCallers : ssCall[c] = Idle /\ Idle.step = "idle"
  BY DEF SsInit, Idle
<1>3. ssKept = NoContracts /\ ssCall \in [SsCallers -> SsCalls \cup {Idle}]
  BY DEF SsInit
<1>4. SsTypeOK
  BY <1>1, <1>2, <1>3, NoContractsType DEF SsTypeOK
<1> QED
  BY <1>2, <1>3, <1>4, NoContractsType DEF SsInv, Holds, Loadable, LoadedHolds

\* A caller in flight has a call.
LEMMA CallsInFlight ==
  ASSUME SsTypeOK, NEW c \in SsCallers, ssCall[c].step # "idle" PROVE ssCall[c] \in SsCalls
BY DEF SsTypeOK, Idle

\* A call begins, and holds no session yet.
LEMMA SsBeginHolds ==
  ASSUME SsInv, NEW c \in SsCallers, NEW op \in SsOps, SsBegin(c, op) PROVE SsInv'
<1> DEFINE call == [op |-> op, step |-> IF op.name \in {"save", "clear"} THEN "writing" ELSE "loading",
                    loaded |-> NoSession, missed |-> {}]
<1>1. ssStored' = ssStored /\ ssKept' = ssKept
  BY DEF SsBegin
<1>2. call \in SsCalls /\ (call.step = "writing" => call.op.name # "add" /\ call.op.name # "read")
  BY DEF SsCalls
<1>3. ssCall' = [ssCall EXCEPT ![c] = call]
  BY DEF SsBegin
<1> HIDE DEF call
<1>4. ssCall'[c] = call /\ \A d \in SsCallers : d # c => ssCall'[d] = ssCall[d]
  BY <1>3 DEF SsInv, SsTypeOK
<1>5. SsTypeOK'
  BY <1>1, <1>2, <1>3, <1>4 DEF SsInv, SsTypeOK
<1>6. LoadedHolds'
  BY <1>1, <1>2, <1>4 DEF SsInv, LoadedHolds, Holds
<1> QED
  BY <1>1, <1>5, <1>6 DEF SsInv, Holds, Loadable

\* A call ends without a write.
LEMMA IdleKeeps ==
  ASSUME SsInv, NEW c \in SsCallers, ssCall' = SsIdle(c), ssStored' = ssStored, ssKept' = ssKept
  PROVE  SsInv'
<1>1. ssCall'[c] = Idle /\ \A d \in SsCallers : d # c => ssCall'[d] = ssCall[d]
  BY DEF SsIdle, SsInv, SsTypeOK
<1>2. SsTypeOK'
  BY <1>1 DEF SsInv, SsTypeOK, SsIdle, Idle
<1>3. LoadedHolds'
  BY <1>1 DEF SsInv, LoadedHolds, Holds, Idle
<1> QED
  BY <1>2, <1>3 DEF SsInv, Holds, Loadable

\* The read settles: an addContract goes on with the session that is stored, which holds what is kept.
LEMMA LoadedKeeps == ASSUME SsInv, NEW c \in SsCallers, SsLoaded(c) PROVE SsInv'
<1>1. ssStored' = ssStored /\ ssKept' = ssKept /\ ssCall[c].step = "loading"
  BY DEF SsLoaded
<1>2. ssCall[c] \in SsCalls
  BY <1>1, CallsInFlight DEF SsInv
<1>3. CASE ssCall' = SsIdle(c)
  BY <1>1, <1>3, IdleKeeps
<1>4. CASE ssCall[c].op.name = "add" /\ LoadSession # NoSession
  <2>1. ssCall' = [ssCall EXCEPT ![c] = [ssCall[c] EXCEPT !.step = "writing", !.loaded = LoadSession]]
    BY <1>2, <1>4 DEF SsLoaded, SsInv, SsTypeOK
  <2>2. LoadSession \in Sessions \cup {NoSession} /\ LoadSession.version = CURRENT_VERSION
        /\ LoadSession.contracts = ssStored.contracts
    BY <1>4, LoadSessionType DEF SsInv, SsTypeOK
  <2>3. ssCall'[c] = [ssCall[c] EXCEPT !.step = "writing", !.loaded = LoadSession]
        /\ \A d \in SsCallers : d # c => ssCall'[d] = ssCall[d]
    BY <2>1 DEF SsInv, SsTypeOK
  <2>4. /\ ssCall'[c] \in SsCalls /\ ssCall'[c].step = "writing" /\ ssCall'[c].loaded = LoadSession
        /\ ssCall'[c].op = ssCall[c].op
    BY <1>2, <2>2, <2>3 DEF SsCalls
  <2>5. SsTypeOK'
    BY <1>1, <1>4, <2>1, <2>2, <2>3, <2>4 DEF SsInv, SsTypeOK
  <2>6. LoadedHolds'
    <3>1. \A i \in DOMAIN ssKept : i \in DOMAIN LoadSession.contracts /\ LoadSession.contracts[i] = ssKept[i]
      BY <2>2 DEF SsInv, Holds
    <3> SUFFICES ASSUME NEW d \in SsCallers, ssCall'[d].step = "writing", ssCall'[d].op.name = "add"
        PROVE  Holds(ssCall[d].loaded, ssCall[d].missed)'
      BY DEF LoadedHolds
    <3>2. CASE d = c
      BY <1>1, <2>4, <3>1, <3>2 DEF Holds
    <3>3. CASE d # c
      BY <1>1, <2>3, <3>3 DEF SsInv, LoadedHolds, Holds
    <3> QED
      BY <3>2, <3>3
  <2> QED
    BY <1>1, <2>5, <2>6 DEF SsInv, Holds, Loadable
<1> QED
  BY <1>3, <1>4 DEF SsLoaded

\* A failing transaction ends a call and changes no session.
LEMMA FailsKeeps == ASSUME SsInv, NEW c \in SsCallers, SsFails(c) PROVE SsInv'
BY IdleKeeps DEF SsFails

\* saveSession and clearSession settle: nothing is kept any more.
LEMMA AnewKeeps ==
  ASSUME SsInv, NEW c \in SsCallers, SsWritten(c), ssCall[c].op.name \in {"save", "clear"} PROVE SsInv'
<1> DEFINE call == ssCall[c]
<1>1. call \in SsCalls /\ call.op \in SsOps
  BY CallsInFlight DEF SsWritten, SsInv, SsCalls
<1>2. ssKept' = NoContracts /\ ssCall' = SsIdle(c)
  BY DEF SsWritten
<1>3. ssCall'[c] = Idle /\ \A d \in SsCallers : d # c => ssCall'[d] = ssCall[d]
  BY <1>2 DEF SsIdle, SsInv, SsTypeOK
<1>4. ssStored' \in Sessions \cup {NoSession}
  <2>1. call.op.name = "save" => call.op.contracts = NoContracts
    BY <1>1 DEF SsOps
  <2>2. SaveSession(NoContracts) \in Sessions
    BY NoContractsType DEF SaveSession, Sessions
  <2> QED
    BY <2>1, <2>2 DEF SsWritten
<1>5. SsTypeOK'
  BY <1>2, <1>3, <1>4, NoContractsType DEF SsInv, SsTypeOK, SsIdle, Idle
<1> QED
  BY <1>2, <1>5, NoContractsType DEF SsInv, Holds, Loadable, LoadedHolds

\* A deployment is stored behind the back of another call that has loaded: it misses the id.
LEMMA MissingType ==
  ASSUME SsTypeOK, NEW c \in SsCallers, NEW id \in SsIds, ssCall' = SsMissing(c, id)
  PROVE  /\ ssCall' \in [SsCallers -> SsCalls \cup {Idle}]
         /\ ssCall'[c] = Idle
         /\ \A d \in SsCallers : d # c =>
              /\ ssCall'[d].step = ssCall[d].step /\ ssCall'[d].op = ssCall[d].op
              /\ ssCall'[d].loaded = ssCall[d].loaded
              /\ ssCall[d].step = "writing" => ssCall'[d].missed = ssCall[d].missed \cup {id}
<1>1. ASSUME NEW d \in SsCallers, d # c, ssCall[d].step = "writing"
      PROVE  /\ ssCall'[d] \in SsCalls /\ ssCall'[d].step = ssCall[d].step /\ ssCall'[d].op = ssCall[d].op
             /\ ssCall'[d].loaded = ssCall[d].loaded /\ ssCall'[d].missed = ssCall[d].missed \cup {id}
  <2>1. ssCall[d] \in SsCalls
    BY <1>1, CallsInFlight
  <2>2. ssCall'[d] = [ssCall[d] EXCEPT !.missed = ssCall[d].missed \cup {id}]
    BY <1>1 DEF SsMissing
  <2> QED
    BY <2>1, <2>2 DEF SsCalls
<1>2. ASSUME NEW d \in SsCallers, d # c, ssCall[d].step # "writing" PROVE ssCall'[d] = ssCall[d]
  BY <1>2 DEF SsMissing
<1>3. ssCall'[c] = Idle
  BY DEF SsMissing
<1>4. \A d \in SsCallers : ssCall'[d] \in SsCalls \cup {Idle}
  BY <1>1, <1>2, <1>3 DEF SsTypeOK
<1>5. ssCall' = [d \in SsCallers |-> ssCall'[d]]
  BY DEF SsMissing
<1> QED
  BY <1>1, <1>2, <1>3, <1>4, <1>5

\* addContract settles: what is stored and what other calls hold has what is kept afterwards, as what
\* this call missed is kept no longer and the other calls miss what it stored.
LEMMA AddedKeeps ==
  ASSUME SsInv, NEW c \in SsCallers, SsWritten(c), ssCall[c].op.name = "add" PROVE SsInv'
<1> DEFINE call == ssCall[c]
           session == call.loaded.contracts
           missed == call.missed
           id == call.op.id
           w == call.op.wasm
           new == With(session, id, w)
           kept == SsKeeps(missed, id, w)
<1>1. call.step = "writing" /\ call \in SsCalls /\ call.op \in SsOps
  BY CallsInFlight DEF SsWritten, SsInv, SsCalls
<1>2. id \in SsIds /\ w \in SsWasms
  BY <1>1, AddOps
<1>3. session \in Contracts /\ ssKept \in Contracts /\ missed \in SUBSET SsIds
  BY <1>1, NoContractsType DEF SsCalls, Sessions, NoSession, SsInv, SsTypeOK
<1>4. ssStored' = SaveSession(new) /\ ssKept' = kept /\ ssCall' = SsMissing(c, id)
  BY DEF SsWritten
<1>5. \A i \in DOMAIN ssKept \ missed : i \in DOMAIN session /\ session[i] = ssKept[i]
  BY <1>1 DEF SsInv, LoadedHolds, Holds
<1> HIDE DEF session, missed, id, w
<1>6. /\ new \in Contracts /\ DOMAIN new = DOMAIN session \cup {id} /\ new[id] = w
      /\ \A i \in DOMAIN session : i # id => new[i] = session[i]
  BY <1>2, <1>3, WithType
<1>7. /\ kept \in Contracts /\ DOMAIN kept = (DOMAIN ssKept \ missed) \cup {id} /\ kept[id] = w
      /\ \A i \in DOMAIN ssKept \ missed : i # id => kept[i] = ssKept[i]
  BY <1>2, <1>3, KeptType
<1> HIDE DEF new, kept
<1>8. /\ ssStored' \in Sessions /\ ssStored' # NoSession /\ ssStored'.version = CURRENT_VERSION
      /\ ssStored'.contracts = new
  <2>1. ssStored' = [version |-> CURRENT_VERSION, contracts |-> new]
    BY <1>4 DEF SaveSession
  <2>2. ssStored'.version = 2
    BY <2>1 DEF CURRENT_VERSION
  <2> QED
    BY <1>6, <2>1, <2>2 DEF Sessions, NoSession, CURRENT_VERSION
<1>9. /\ ssCall' \in [SsCallers -> SsCalls \cup {Idle}] /\ ssCall'[c] = Idle
      /\ \A d \in SsCallers : d # c =>
           /\ ssCall'[d].step = ssCall[d].step /\ ssCall'[d].op = ssCall[d].op
           /\ ssCall'[d].loaded = ssCall[d].loaded
           /\ ssCall[d].step = "writing" => ssCall'[d].missed = ssCall[d].missed \cup {id}
  BY <1>2, <1>4, MissingType DEF SsInv
<1>10. SsTypeOK'
  BY <1>4, <1>7, <1>8, <1>9 DEF SsInv, SsTypeOK, Idle
<1>11. Holds(ssStored, {})'
  BY <1>4, <1>5, <1>6, <1>7, <1>8 DEF Holds
<1>12. LoadedHolds'
  <2> SUFFICES ASSUME NEW d \in SsCallers, ssCall'[d].step = "writing", ssCall'[d].op.name = "add"
      PROVE  Holds(ssCall[d].loaded, ssCall[d].missed)'
    BY DEF LoadedHolds
  <2>1. d # c
    BY <1>9 DEF Idle
  <2>2. ssCall[d].step = "writing" /\ ssCall[d].op.name = "add"
    BY <1>9, <2>1
  <2>3. \A i \in DOMAIN ssKept \ ssCall[d].missed :
          i \in DOMAIN ssCall[d].loaded.contracts /\ ssCall[d].loaded.contracts[i] = ssKept[i]
    BY <2>2 DEF SsInv, LoadedHolds, Holds
  <2>4. ssCall'[d].loaded = ssCall[d].loaded /\ ssCall'[d].missed = ssCall[d].missed \cup {id}
    BY <1>9, <2>1, <2>2
  <2> QED
    BY <1>4, <1>7, <2>3, <2>4 DEF Holds
<1>13. Loadable'
  BY <1>8 DEF Loadable, CURRENT_VERSION
<1> QED
  BY <1>10, <1>11, <1>12, <1>13 DEF SsInv

LEMMA WrittenKeeps == ASSUME SsInv, NEW c \in SsCallers, SsWritten(c) PROVE SsInv'
<1>1. ssCall[c] \in SsCalls /\ ssCall[c].step = "writing"
  BY CallsInFlight DEF SsWritten, SsInv
<1>2. ssCall[c].op \in SsOps
  BY <1>1 DEF SsCalls
<1>3. ssCall[c].op.name \in {"add", "save", "clear"}
  BY <1>1, <1>2 DEF SsInv, SsTypeOK, SsOps
<1> QED
  BY <1>3, AnewKeeps, AddedKeeps

LEMMA SsNextHolds == SsInv /\ [SsNext]_ssVars => SsInv'
<1> SUFFICES ASSUME SsInv, [SsNext]_ssVars PROVE SsInv'
  OBVIOUS
<1>1. ASSUME UNCHANGED ssVars PROVE SsInv'
  BY <1>1 DEF ssVars, SsInv, SsTypeOK, Holds, Loadable, LoadedHolds
<1> QED
  BY <1>1, SsBeginHolds, LoadedKeeps, WrittenKeeps, FailsKeeps DEF SsNext

-----------------------------------------------------------------------------
(* The theorems *)

LEMMA SsInvHolds == SsSpec => []SsInv
BY SsInitHolds, SsNextHolds, PTL DEF SsSpec

\* Every reachable state has the types of SsTypeOK: what addContract saves is a session of the
\* current version (SessionStore).
THEOREM SessionTypeCorrect == SsSpec => []SsTypeOK
BY SsInvHolds, PTL DEF SsInv

\* A deployment that was stored is lost to no later addContract but one of the same id, or one that had
\* loaded the session before, however many calls overlap and fail (addContract).
THEOREM DeploymentsKept == SsSpec => []AddsAreKept
<1>1. SsInv => AddsAreKept
  BY DEF SsInv, Holds, AddsAreKept
<1> QED
  BY <1>1, SsInvHolds, PTL

-----------------------------------------------------------------------------
(* Snapshots of the storage (AutoSync).                                     *)
(*                                                                          *)
(* Until the database holds a snapshot, what it has of the state is what    *)
(* one save wrote: a save holds every key that the saves before it hold,    *)
(* as the storage loses no key between two starts.  Once it holds one, its  *)
(* other entries may mix two states, but a start restores the snapshot.     *)

\* The keys a table has.
KeysOf(table) == {k \in AsKeys : table.state[k] # 0}

\* A table a start may load.
Startable(table) ==
  /\ table \in AsTable /\ table.snap \in 0 .. Len(asSnaps)
  /\ table.snap = 0 => table.state \in asPast

AsInv ==
  /\ AsTypeOK /\ Len(asSnaps) <= AsMaxSnaps
  /\ SnapshotIsCut
  /\ Startable(asDb)
  /\ \A i \in DOMAIN asSaves : asSaves[i].state \in asPast /\ asSaves[i].snap <= Len(asSnaps)
  /\ asDb.snap = 0 => KeysOf(asDb) \subseteq KeysOf(asCache)
  /\ \A i \in DOMAIN asSaves :
       /\ asDb.snap = 0 => KeysOf(asDb) \subseteq KeysOf(asSaves[i])
       /\ KeysOf(asSaves[i]) \subseteq KeysOf(asCache)
       /\ \A j \in DOMAIN asSaves : i <= j => KeysOf(asSaves[i]) \subseteq KeysOf(asSaves[j])

LEMMA SavesShape ==
  ASSUME AsTypeOK
  PROVE  /\ Len(asSaves) \in Nat /\ DOMAIN asSaves = 1 .. Len(asSaves)
         /\ \A i \in DOMAIN asSaves : asSaves[i] \in AsTable
         /\ Len(asSnaps) \in Nat /\ DOMAIN asSnaps = 1 .. Len(asSnaps)
         /\ \A i \in DOMAIN asSnaps : asSnaps[i] \in [entries : AsTable, stateRoot : AsTable]
<1> DEFINE S == [entries : AsTable, stateRoot : AsTable]
<1>1. asSnaps \in Seq(S) /\ asSaves \in Seq(AsTable)
  BY DEF AsTypeOK
<1> HIDE DEF S
<1>2. /\ Len(asSnaps) \in Nat /\ DOMAIN asSnaps = 1 .. Len(asSnaps)
      /\ \A i \in DOMAIN asSnaps : asSnaps[i] \in S
  BY <1>1
<1>3. /\ Len(asSaves) \in Nat /\ DOMAIN asSaves = 1 .. Len(asSaves)
      /\ \A i \in DOMAIN asSaves : asSaves[i] \in AsTable
  BY <1>1
<1>4. QED
  BY <1>2, <1>3 DEF S

\* A save that holds every key of the database is what the database has of the state then.
LEMMA OverlayCovers ==
  ASSUME AsInv, NEW table \in AsTable, Startable(table), NEW i \in DOMAIN asSaves,
         table.snap = 0 => KeysOf(table) \subseteq KeysOf(asSaves[i])
  PROVE  LET over == AsOverlay(table, asSaves[i])
         IN  /\ Startable(over)
             /\ over.snap = 0 => over.state = asSaves[i].state /\ table.snap = 0
<1> DEFINE s == asSaves[i]
           over == AsOverlay(table, s)
<1>1. /\ s \in AsTable /\ s.state \in asPast /\ s.snap \in Nat /\ s.snap <= Len(asSnaps)
      /\ table.snap \in 0 .. Len(asSnaps) /\ Len(asSnaps) \in Nat /\ Len(asSnaps) <= AsMaxSnaps
      /\ AsMaxSnaps \in Nat
  BY SavesShape, SyncAssumption DEF AsInv, AsTable, Startable
<1>2. /\ s.state \in AsStates /\ table.state \in AsStates
  BY <1>1 DEF AsTable
<1> HIDE DEF s
<1>3. over \in AsTable /\ over.snap \in 0 .. Len(asSnaps)
  BY <1>1, <1>2 DEF AsOverlay, AsTable, AsStates
<1>4. ASSUME over.snap = 0 PROVE over.state = s.state /\ table.snap = 0
  <2>1. s.snap = 0 /\ table.snap = 0
    BY <1>4 DEF AsOverlay
  <2>2. \A k \in AsKeys : s.state[k] = 0 => table.state[k] = 0
    BY <2>1 DEF KeysOf, s
  <2>3. over.state = [k \in AsKeys |-> s.state[k]]
    BY <2>2 DEF AsOverlay
  <2>4. QED
    BY <1>2, <2>1, <2>3 DEF AsStates
<1>5. QED
  BY <1>1, <1>3, <1>4 DEF Startable, s

-----------------------------------------------------------------------------
(* What a restart finds: the saves that were committed, in their order. *)

Committed(n, db) ==
  db = [i \in 0 .. n |-> IF i = 0 THEN asDb ELSE AsOverlay(db[i - 1], asSaves[i])]

LEMMA CommittedExists == \A n \in Nat : \E db : Committed(n, db)
<1> DEFINE T == {n \in Nat : ~ \E db : Committed(n, db)}
<1>1. SUFFICES ASSUME T # {} PROVE FALSE
  OBVIOUS
<1>2. PICK n \in T : \A m \in T : ~ (m < n)
  <2>1. T \subseteq Nat
    OBVIOUS
  <2> HIDE DEF T
  <2>2. \E x \in T : \A y \in T : ~ (<<y, x>> \in OpToRel(<, Nat))
    BY <1>1, <2>1, NatLessThanWellFounded, WFMin
  <2>3. QED
    BY <2>1, <2>2 DEF OpToRel
<1>3. n \in Nat /\ ~ \E db : Committed(n, db)
  OBVIOUS
<1>4. CASE n = 0
  <2> DEFINE db == [i \in 0 .. 0 |-> asDb]
  <2>1. db = [i \in 0 .. 0 |-> IF i = 0 THEN asDb ELSE AsOverlay(db[i - 1], asSaves[i])]
    OBVIOUS
  <2>2. QED
    BY <1>3, <1>4, <2>1 DEF Committed
<1>5. CASE n # 0
  <2>1. n - 1 \in Nat /\ n - 1 \notin T
    BY <1>2, <1>3, <1>5
  <2>2. PICK h : Committed(n - 1, h)
    BY <2>1
  <2> DEFINE db == [i \in 0 .. n |-> IF i < n THEN h[i] ELSE AsOverlay(h[n - 1], asSaves[n])]
  <2> HIDE DEF T
  <2>3. ASSUME NEW i \in 0 .. n
        PROVE  db[i] = IF i = 0 THEN asDb ELSE AsOverlay(db[i - 1], asSaves[i])
    <3>1. CASE i = n
      <4>1. db[i] = AsOverlay(h[n - 1], asSaves[n]) /\ db[n - 1] = h[n - 1]
        BY <1>3, <1>5, <3>1
      <4>2. QED
        BY <1>5, <3>1, <4>1
    <3>2. CASE i # n
      <4>1. i \in 0 .. (n - 1) /\ db[i] = h[i] /\ (i # 0 => db[i - 1] = h[i - 1])
        BY <1>3, <1>5, <3>2
      <4>2. h[i] = IF i = 0 THEN asDb ELSE AsOverlay(h[i - 1], asSaves[i])
        BY <2>2, <4>1 DEF Committed
      <4>3. QED
        BY <4>1, <4>2
    <3>3. QED
      BY <3>1, <3>2
  <2>4. db = [i \in 0 .. n |-> db[i]]
    OBVIOUS
  <2> HIDE DEF db
  <2>5. Committed(n, db)
    BY <2>3, <2>4 DEF Committed
  <2>6. QED
    BY <1>3, <2>5
<1>6. QED
  BY <1>4, <1>5

LEMMA CommittedStartable ==
  ASSUME AsInv, NEW n \in 0 .. Len(asSaves), NEW db, Committed(n, db)
  PROVE  Startable(db[n])
<1> DEFINE Good(i) == /\ Startable(db[i])
                      /\ \A j \in DOMAIN asSaves :
                           j > i /\ db[i].snap = 0 => KeysOf(db[i]) \subseteq KeysOf(asSaves[j])
           T == {i \in 0 .. n : ~ Good(i)}
<1>1. SUFFICES ASSUME T # {} PROVE FALSE
  <2>1. T = {} => Good(n)
    BY SavesShape DEF AsInv
  <2>2. QED
    BY <2>1
<1>t. n \in Nat /\ Len(asSaves) \in Nat /\ DOMAIN asSaves = 1 .. Len(asSaves)
  BY SavesShape DEF AsInv
<1>2. PICK i \in T : \A m \in T : ~ (m < i)
  <2>1. T \subseteq Nat
    BY <1>t
  <2> HIDE DEF T
  <2>2. \E x \in T : \A y \in T : ~ (<<y, x>> \in OpToRel(<, Nat))
    BY <1>1, <2>1, NatLessThanWellFounded, WFMin
  <2>3. QED
    BY <2>1, <2>2 DEF OpToRel
<1>3. i \in 0 .. n /\ ~Good(i) /\ i \in Nat
  BY <1>t
<1>4. db[i] = IF i = 0 THEN asDb ELSE AsOverlay(db[i - 1], asSaves[i])
  BY <1>3 DEF Committed
<1>5. CASE i = 0
  <2>1. Good(0)
    BY <1>4, <1>5, <1>t DEF AsInv
  <2>2. QED
    BY <1>3, <1>5, <2>1
<1>6. CASE i # 0
  <2>1. i - 1 \in 0 .. n /\ i - 1 < i /\ i \in DOMAIN asSaves
    BY <1>3, <1>6, <1>t
  <2>2. Good(i - 1)
    BY <1>2, <2>1
  <2> DEFINE s == asSaves[i]
             before == db[i - 1]
  <2>3. Startable(before) /\ (before.snap = 0 => KeysOf(before) \subseteq KeysOf(s))
    BY <1>t, <1>3, <2>1, <2>2
  <2>4. before \in AsTable
    BY <2>3 DEF Startable
  <2> HIDE DEF before
  <2>5. /\ Startable(AsOverlay(before, s))
        /\ AsOverlay(before, s).snap = 0 => AsOverlay(before, s).state = s.state
    BY <2>1, <2>3, <2>4, OverlayCovers
  <2>6. db[i] = AsOverlay(before, s)
    BY <1>4, <1>6 DEF before
  <2>7. \A j \in DOMAIN asSaves :
          j > i /\ db[i].snap = 0 => KeysOf(db[i]) \subseteq KeysOf(asSaves[j])
    <3>1. db[i].snap = 0 => KeysOf(db[i]) = KeysOf(s)
      BY <2>5, <2>6 DEF KeysOf
    <3>2. \A j \in DOMAIN asSaves : j > i => KeysOf(s) \subseteq KeysOf(asSaves[j])
      BY <1>t, <2>1 DEF AsInv
    <3>3. QED
      BY <3>1, <3>2
  <2>8. QED
    BY <1>3, <2>5, <2>6, <2>7
<1>7. QED
  BY <1>5, <1>6

-----------------------------------------------------------------------------
(* The steps *)

\* What is saved and stored stays, and the storage loses no key.
LEMMA SavedStays ==
  ASSUME AsInv, AsTypeOK', Len(asSnaps') <= AsMaxSnaps, Len(asSnaps) <= Len(asSnaps'),
         asPast \subseteq asPast', SnapshotIsCut',
         UNCHANGED <<asDb, asSaves>>, KeysOf(asCache) \subseteq KeysOf(asCache')
  PROVE  AsInv'
<1>1. /\ Len(asSnaps) \in Nat /\ Len(asSnaps') \in Nat
  BY DEF AsInv, AsTypeOK
<1>2. Startable(asDb)'
  BY <1>1 DEF AsInv, Startable, AsTable
<1>3. \A i \in DOMAIN asSaves : asSaves[i].snap <= Len(asSnaps')
  BY <1>1, SavesShape, SyncAssumption DEF AsInv, AsTable
<1>4. (\A t : KeysOf(t) = KeysOf(t)') /\ KeysOf(asDb)' = KeysOf(asDb)
      /\ KeysOf(asCache)' = KeysOf(asCache')
      /\ \A i \in DOMAIN asSaves : KeysOf(asSaves[i])' = KeysOf(asSaves[i])
  BY DEF KeysOf
<1>5. QED
  BY <1>2, <1>3, <1>4 DEF AsInv

\* The storage holds another state, or is to be saved.
LEMMA WriteKeeps == ASSUME AsInv, NEW k \in AsKeys, AsWrite(k) PROVE AsInv'
<1>1. /\ asCache \in AsTable /\ asWrites \in 0 .. AsMaxWrites /\ asWrites < AsMaxWrites
      /\ AsMaxWrites \in Nat /\ asWrites' = asWrites + 1
      /\ asCache' = [asCache EXCEPT !.state[k] = asWrites + 1]
      /\ asPast' = asPast \cup {asCache'.state}
      /\ UNCHANGED <<asDb, asOpening, asSaves, asTimers, asSnaps, asFlight>>
  BY SyncAssumption DEF AsInv, AsTypeOK, AsWrite, databaseVars, snapshotVars
<1>2. /\ asCache' \in AsTable /\ asCache'.snap = asCache.snap
      /\ asCache'.state[k] = asWrites + 1
      /\ \A j \in AsKeys \ {k} : asCache'.state[j] = asCache.state[j]
  BY <1>1 DEF AsTable, AsStates
<1>3. AsTypeOK'
  BY <1>1, <1>2 DEF AsInv, AsTypeOK
<1>4. SnapshotIsCut'
  BY <1>1 DEF AsInv, SnapshotIsCut
<1>5. KeysOf(asCache) \subseteq KeysOf(asCache')
  BY <1>1, <1>2 DEF KeysOf
<1>6. Len(asSnaps') <= AsMaxSnaps /\ Len(asSnaps) <= Len(asSnaps')
  BY <1>1, SavesShape DEF AsInv
<1>7. QED
  BY <1>1, <1>3, <1>4, <1>5, <1>6, SavedStays

LEMMA TimersKeep ==
  ASSUME AsInv, UNCHANGED <<asCache, asDb, asSaves, asSnaps, asFlight, asWrites, asPast>>,
         asTimers' \in BOOLEAN, asOpening' \in 0 .. AsMaxSaves
  PROVE  AsInv'
<1>1. AsTypeOK' /\ SnapshotIsCut'
  BY DEF AsInv, AsTypeOK, SnapshotIsCut
<1>2. Len(asSnaps') <= AsMaxSnaps /\ Len(asSnaps) <= Len(asSnaps')
  BY SavesShape DEF AsInv
<1>3. QED
  BY <1>1, <1>2, SavedStays

LEMMA SnapshotTickKeeps == ASSUME AsInv, SnapshotTick PROVE AsInv'
<1> DEFINE snap == [entries |-> asCache, stateRoot |-> asCache]
           n == Len(asSnaps)
<1>1. /\ asSnaps' = Append(asSnaps, snap) /\ asFlight' = asFlight \cup {n + 1} /\ n < AsMaxSnaps
      /\ UNCHANGED <<asCache, asDb, asOpening, asSaves, asTimers, asWrites, asPast>>
      /\ asSnaps \in Seq([entries : AsTable, stateRoot : AsTable]) /\ asCache \in AsTable
      /\ AsMaxSnaps \in Nat
  BY SyncAssumption DEF AsInv, AsTypeOK, SnapshotTick, databaseVars
<1>2. /\ asSnaps' \in Seq([entries : AsTable, stateRoot : AsTable]) /\ Len(asSnaps') = n + 1
      /\ n \in Nat /\ DOMAIN asSnaps = 1 .. n /\ DOMAIN asSnaps' = 1 .. (n + 1)
      /\ asSnaps'[n + 1] = snap /\ \A i \in 1 .. n : asSnaps'[i] = asSnaps[i]
  BY <1>1
<1>3. AsTypeOK'
  BY <1>1, <1>2 DEF AsInv, AsTypeOK
<1>4. SnapshotIsCut'
  <2>1. asCache.snap \in 0 .. n /\ asCache.state \in asPast
    BY DEF AsInv, AsTypeOK, SnapshotIsCut
  <2>2. snap.entries = asCache /\ snap.stateRoot = asCache
    OBVIOUS
  <2> HIDE DEF snap, n
  <2>3. \A i \in 1 .. (n + 1) : i \in 1 .. n \/ i = n + 1
    BY <1>2
  <2>4. QED
    BY <1>1, <1>2, <2>1, <2>2, <2>3 DEF AsInv, SnapshotIsCut
<1>5. QED
  BY <1>1, <1>2, <1>3, <1>4, SavedStays

\* The snapshot's entries stay those of the moment it was begun.
LEMMA SnapshotDoneKeeps == ASSUME AsInv, NEW i \in asFlight, SnapshotDone(i) PROVE AsInv'
<1>1. /\ asSnaps' = [asSnaps EXCEPT ![i].entries = asSnaps[i].entries] /\ asFlight' = asFlight \ {i}
      /\ asCache' = [asCache EXCEPT !.snap = i] /\ asOpening' = asOpening + 1
      /\ asOpening < AsMaxSaves /\ asOpening \in 0 .. AsMaxSaves
      /\ UNCHANGED <<asDb, asSaves, asTimers, asWrites, asPast>>
      /\ asSnaps \in Seq([entries : AsTable, stateRoot : AsTable]) /\ asCache \in AsTable
      /\ AsMaxSnaps \in Nat /\ AsMaxSaves \in Nat /\ i \in DOMAIN asSnaps
  BY SyncAssumption DEF AsInv, AsTypeOK, SnapshotDone, Kept
<1>2. asSnaps' = asSnaps
  <2>1. asSnaps[i] \in [entries : AsTable, stateRoot : AsTable]
    BY <1>1, SavesShape DEF AsInv
  <2>2. asSnaps[i] = [asSnaps[i] EXCEPT !.entries = asSnaps[i].entries]
    BY <2>1
  <2>3. asSnaps = [asSnaps EXCEPT ![i] = [asSnaps[i] EXCEPT !.entries = asSnaps[i].entries]]
    BY <1>1, <2>2
  <2>4. QED
    BY <1>1, <2>3
<1>3. i \in 1 .. Len(asSnaps) /\ Len(asSnaps) \in Nat /\ Len(asSnaps) <= AsMaxSnaps
  BY <1>1 DEF AsInv
<1>4. asCache' \in AsTable /\ asCache'.snap = i /\ asCache'.state = asCache.state
  <2>1. i \in 0 .. AsMaxSnaps
    BY <1>1, <1>3
  <2>2. asCache \in AsTable /\ asCache' = [asCache EXCEPT !.snap = i]
    BY <1>1
  <2>3. QED
    BY <2>1, <2>2 DEF AsTable
<1>5. AsTypeOK'
  <2>1. asOpening' \in 0 .. AsMaxSaves /\ asCache'.snap \in 0 .. Len(asSnaps')
    BY <1>1, <1>2, <1>3, <1>4
  <2>2. QED
    BY <1>1, <1>2, <1>4, <2>1 DEF AsInv, AsTypeOK
<1>6. SnapshotIsCut'
  BY <1>1, <1>2, <1>4 DEF AsInv, SnapshotIsCut
<1>7. KeysOf(asCache) \subseteq KeysOf(asCache')
  BY <1>4 DEF KeysOf
<1>8. QED
  BY <1>1, <1>2, <1>3, <1>5, <1>6, <1>7, SavedStays

\* The cache is the newest save, and holds the keys of every other.
LEMMA CaptureKeeps == ASSUME AsInv, AsCapture PROVE AsInv'
<1> DEFINE n == Len(asSaves)
<1>1. /\ asSaves' = Append(asSaves, asCache) /\ n < AsMaxSaves /\ asOpening' = asOpening - 1
      /\ asOpening > 0 /\ asOpening \in 0 .. AsMaxSaves /\ AsMaxSaves \in Nat
      /\ UNCHANGED <<asCache, asDb, asTimers, asSnaps, asFlight, asWrites, asPast>>
      /\ asSaves \in Seq(AsTable) /\ asCache \in AsTable
  BY SyncAssumption DEF AsInv, AsTypeOK, AsCapture, snapshotVars
<1>2. /\ asSaves' \in Seq(AsTable) /\ Len(asSaves') = n + 1
      /\ n \in Nat /\ DOMAIN asSaves = 1 .. n /\ DOMAIN asSaves' = 1 .. (n + 1)
      /\ asSaves'[n + 1] = asCache /\ \A i \in 1 .. n : asSaves'[i] = asSaves[i]
  BY <1>1
<1> HIDE DEF n
<1>3. AsTypeOK'
  <2>1. Len(asSaves') <= AsMaxSaves /\ asOpening' \in 0 .. AsMaxSaves
    BY <1>1, <1>2
  <2>2. QED
    BY <1>1, <1>2, <2>1 DEF AsInv, AsTypeOK
<1>4. \A i \in DOMAIN asSaves' : (i \in DOMAIN asSaves /\ asSaves'[i] = asSaves[i])
                                  \/ (i = n + 1 /\ asSaves'[i] = asCache)
  BY <1>2
<1>5. SnapshotIsCut' /\ Startable(asDb)' /\ Len(asSnaps') <= AsMaxSnaps
  BY <1>1 DEF AsInv, SnapshotIsCut, Startable
<1>6. asCache.state \in asPast /\ asCache.snap <= Len(asSnaps)
  BY DEF AsInv, SnapshotIsCut, AsTypeOK
<1>7. \A i \in DOMAIN asSaves' : asSaves'[i].state \in asPast /\ asSaves'[i].snap <= Len(asSnaps)
  BY <1>4, <1>6 DEF AsInv
<1>8. asDb.snap = 0 => KeysOf(asDb) \subseteq KeysOf(asCache)
  BY DEF AsInv
<1>9. \A i \in DOMAIN asSaves' :
        /\ asDb.snap = 0 => KeysOf(asDb) \subseteq KeysOf(asSaves'[i])
        /\ KeysOf(asSaves'[i]) \subseteq KeysOf(asCache)
  BY <1>4, <1>8 DEF AsInv
<1>10. ASSUME NEW i \in DOMAIN asSaves', NEW j \in DOMAIN asSaves', i <= j
       PROVE  KeysOf(asSaves'[i]) \subseteq KeysOf(asSaves'[j])
  <2>1. CASE j = n + 1
    BY <1>4, <1>9, <1>2, <2>1
  <2>2. CASE j # n + 1
    <3>1. i \in DOMAIN asSaves /\ j \in DOMAIN asSaves
      BY <1>2, <1>10, <2>2
    <3>2. QED
      BY <1>2, <1>10, <3>1 DEF AsInv
  <2>3. QED
    BY <2>1, <2>2
<1>11. (\A t : KeysOf(t) = KeysOf(t)') /\ KeysOf(asDb)' = KeysOf(asDb)
      /\ KeysOf(asCache)' = KeysOf(asCache)
      /\ \A i \in DOMAIN asSaves' : KeysOf(asSaves[i])' = KeysOf(asSaves'[i])
  BY <1>1 DEF KeysOf
<1>12. QED
  BY <1>1, <1>3, <1>5, <1>7, <1>8, <1>9, <1>10, <1>11 DEF AsInv

\* The oldest save is put into the database, or fails.
LEMMA SettlesKeeps ==
  ASSUME AsInv, NEW table, AsSettles(table), table = asDb \/ table = AsOverlay(asDb, Head(asSaves))
  PROVE  AsInv'
<1> DEFINE n == Len(asSaves)
<1>1. /\ asSaves # <<>> /\ asDb' = table /\ asSaves' = Tail(asSaves)
      /\ UNCHANGED <<asCache, asOpening, asTimers, asSnaps, asFlight, asWrites, asPast>>
      /\ asSaves \in Seq(AsTable) /\ asDb \in AsTable /\ Startable(asDb) /\ n <= AsMaxSaves
  BY DEF AsInv, AsTypeOK, AsSettles, snapshotVars
<1>2. /\ asSaves' \in Seq(AsTable) /\ Len(asSaves') = n - 1
      /\ n \in Nat \ {0} /\ DOMAIN asSaves = 1 .. n /\ DOMAIN asSaves' = 1 .. (n - 1)
      /\ Head(asSaves) = asSaves[1] /\ \A i \in 1 .. (n - 1) : asSaves'[i] = asSaves[i + 1]
  BY <1>1
<1> HIDE DEF n
<1>3. 1 \in DOMAIN asSaves /\ \A i \in DOMAIN asSaves' :
        i \in Nat /\ i + 1 \in DOMAIN asSaves /\ asSaves'[i] = asSaves[i + 1] /\ 1 <= i + 1
  BY <1>2
<1>4. asDb.snap = 0 => KeysOf(asDb) \subseteq KeysOf(asSaves[1])
  BY <1>3 DEF AsInv
<1>5. /\ Startable(table)
      /\ table.snap = 0 => table = asDb \/ KeysOf(table) = KeysOf(asSaves[1])
  <2>1. CASE table = asDb
    BY <1>1, <2>1
  <2>2. CASE table = AsOverlay(asDb, Head(asSaves))
    <3>1. Startable(table) /\ (table.snap = 0 => table.state = asSaves[1].state)
      BY <1>1, <1>2, <1>3, <1>4, <2>2, OverlayCovers
    <3>2. QED
      BY <3>1 DEF KeysOf
  <2>3. QED
    BY <2>1, <2>2
<1>6. AsTypeOK'
  <2>1. Len(asSaves') <= AsMaxSaves
    BY <1>1, <1>2, SyncAssumption
  <2>2. QED
    BY <1>1, <1>2, <1>5, <2>1 DEF AsInv, AsTypeOK, Startable
<1>7. SnapshotIsCut' /\ Startable(asDb)' /\ Len(asSnaps') <= AsMaxSnaps
  BY <1>1, <1>5 DEF AsInv, SnapshotIsCut, Startable
<1>8. \A i \in DOMAIN asSaves' :
        /\ asSaves'[i].state \in asPast /\ asSaves'[i].snap <= Len(asSnaps)
        /\ KeysOf(asSaves'[i]) \subseteq KeysOf(asCache)
        /\ KeysOf(asSaves[1]) \subseteq KeysOf(asSaves'[i])
        /\ asDb.snap = 0 => KeysOf(asDb) \subseteq KeysOf(asSaves'[i])
  BY <1>3 DEF AsInv
<1>9. \A i, j \in DOMAIN asSaves' : i <= j => KeysOf(asSaves'[i]) \subseteq KeysOf(asSaves'[j])
  <2> SUFFICES ASSUME NEW i \in DOMAIN asSaves', NEW j \in DOMAIN asSaves', i <= j
               PROVE  KeysOf(asSaves'[i]) \subseteq KeysOf(asSaves'[j])
    OBVIOUS
  <2>1. i + 1 <= j + 1
    BY <1>3
  <2>2. QED
    BY <1>3, <2>1 DEF AsInv
<1>10. table.snap = 0 => /\ KeysOf(table) \subseteq KeysOf(asCache)
                         /\ \A i \in DOMAIN asSaves' : KeysOf(table) \subseteq KeysOf(asSaves'[i])
  BY <1>3, <1>5, <1>8 DEF AsInv
<1>11. KeysOf(asDb)' = KeysOf(table) /\ KeysOf(asCache)' = KeysOf(asCache)
      /\ \A i \in DOMAIN asSaves' : KeysOf(asSaves[i])' = KeysOf(asSaves'[i])
  BY <1>1 DEF KeysOf
<1>12. QED
  BY <1>1, <1>6, <1>7, <1>8, <1>9, <1>10, <1>11 DEF AsInv

\* A start loads what some of the saves left, or the snapshot in it.
LEMMA RestartKeeps == ASSUME AsInv, AsRestart PROVE AsInv'
<1>1. PICK n \in 0 .. Len(asSaves) :
        LET db[i \in 0 .. n] == IF i = 0 THEN asDb ELSE AsOverlay(db[i - 1], asSaves[i])
        IN  asDb' = db[n] /\ asCache' = Loaded(db[n])
  BY DEF AsRestart
<1> DEFINE db == CHOOSE g : g = [i \in 0 .. n |-> IF i = 0 THEN asDb ELSE AsOverlay(g[i - 1], asSaves[i])]
           table == db[n]
<1>2. asDb' = table /\ asCache' = Loaded(table)
  BY <1>1
<1>3. Committed(n, db)
  <2>1. \E g : Committed(n, g)
    BY CommittedExists, SavesShape DEF AsInv
  <2>2. QED
    BY <2>1 DEF Committed
<1> HIDE DEF db
<1>4. Startable(table)
  BY <1>3, CommittedStartable
<1> HIDE DEF table
<1>5. /\ UNCHANGED <<asSnaps, asWrites, asPast>> /\ asOpening' = 0 /\ asSaves' = <<>>
      /\ asTimers' = FALSE /\ asFlight' = {}
  BY DEF AsRestart
<1>6. /\ asCache' \in AsTable /\ asCache'.snap \in 0 .. Len(asSnaps) /\ asCache'.state \in asPast
      /\ table.snap = 0 => asCache' = table
  <2>1. CASE table.snap = 0
    BY <1>2, <1>4, <2>1 DEF Loaded, Startable
  <2>2. CASE table.snap # 0
    <3>1. table.snap \in DOMAIN asSnaps
      BY <1>4, <2>2, SavesShape DEF Startable, AsInv
    <3> DEFINE e == asSnaps[table.snap].entries
    <3>2. e \in AsTable /\ e.state \in asPast /\ e.snap < table.snap
      BY <3>1, SavesShape DEF AsInv, SnapshotIsCut
    <3>3. e.snap \in 0 .. Len(asSnaps)
      BY <1>4, <3>1, <3>2, SavesShape, SyncAssumption DEF AsTable, AsInv
    <3>4. asCache' = e
      BY <1>2, <2>2 DEF Loaded, RestoreSnapshot
    <3>5. QED
      BY <2>2, <3>2, <3>3, <3>4
  <2>3. QED
    BY <2>1, <2>2
<1>7. AsTypeOK'
  <2>1. asSaves' \in Seq(AsTable) /\ Len(asSaves') = 0 /\ asOpening' \in 0 .. AsMaxSaves
    BY <1>5, SyncAssumption
  <2>2. Len(asSaves') <= AsMaxSaves
    BY <2>1, SyncAssumption
  <2>3. asDb' \in AsTable /\ asDb'.snap \in 0 .. Len(asSnaps')
    BY <1>2, <1>4, <1>5 DEF Startable
  <2>4. QED
    BY <1>5, <1>6, <2>1, <2>2, <2>3 DEF AsInv, AsTypeOK
<1>8. SnapshotIsCut' /\ Startable(asDb)' /\ Len(asSnaps') <= AsMaxSnaps
  BY <1>2, <1>4, <1>5, <1>6 DEF AsInv, SnapshotIsCut, Startable
<1>9. (asDb.snap = 0 => KeysOf(asDb) \subseteq KeysOf(asCache))'
  BY <1>2, <1>6 DEF KeysOf
<1>10. DOMAIN asSaves' = {}
  BY <1>5
<1>11. QED
  BY <1>7, <1>8, <1>9, <1>10 DEF AsInv

LEMMA AsInitHolds == AsInit => AsInv
<1> SUFFICES ASSUME AsInit PROVE AsInv
  OBVIOUS
<1>1. AsEmpty \in AsTable /\ AsEmpty.snap = 0
  BY SyncAssumption DEF AsEmpty, AsTable, AsStates
<1>2. DOMAIN asSnaps = {} /\ DOMAIN asSaves = {} /\ Len(asSnaps) = 0 /\ Len(asSaves) = 0
  BY DEF AsInit
<1>3. AsTypeOK
  <2>1. asSaves \in Seq(AsTable) /\ asSnaps \in Seq([entries : AsTable, stateRoot : AsTable])
    BY DEF AsInit
  <2>2. Len(asSaves) <= AsMaxSaves
    BY <1>2, SyncAssumption
  <2>3. asOpening \in 0 .. AsMaxSaves /\ asWrites \in 0 .. AsMaxWrites
    BY SyncAssumption DEF AsInit
  <2>4. asCache.snap \in 0 .. Len(asSnaps) /\ asDb.snap \in 0 .. Len(asSnaps)
    BY <1>1, <1>2 DEF AsInit
  <2>5. QED
    BY <1>1, <2>1, <2>2, <2>3, <2>4 DEF AsInit, AsTypeOK
<1>4. SnapshotIsCut /\ Startable(asDb) /\ KeysOf(asDb) \subseteq KeysOf(asCache)
  BY <1>1, <1>2 DEF AsInit, SnapshotIsCut, Startable
<1>5. QED
  BY <1>2, <1>3, <1>4, SyncAssumption DEF AsInv

LEMMA AsNextHolds == AsInv /\ [AsNext]_asVars => AsInv'
<1> SUFFICES ASSUME AsInv, [AsNext]_asVars PROVE AsInv'
  OBVIOUS
<1>t. asTimers \in BOOLEAN /\ asOpening \in 0 .. AsMaxSaves /\ AsMaxSaves \in Nat
  BY SyncAssumption DEF AsInv, AsTypeOK
<1>1. ASSUME NEW k \in AsKeys, AsWrite(k) PROVE AsInv'
  BY <1>1, WriteKeeps
<1>2. CASE AsStart \/ AsStop \/ SyncTick \/ AsOpenFails \/ UNCHANGED asVars
  <2>1. UNCHANGED <<asCache, asDb, asSaves, asSnaps, asFlight, asWrites, asPast>>
    BY <1>2 DEF AsStart, AsStop, SyncTick, AsOpenFails, asVars, databaseVars, snapshotVars
  <2>2. asTimers' \in BOOLEAN
    BY <1>2, <1>t DEF AsStart, AsStop, SyncTick, AsOpenFails, asVars
  <2>3. asOpening' \in 0 .. AsMaxSaves
    BY <1>2, <1>t DEF AsStart, AsStop, SyncTick, AsOpenFails, asVars, databaseVars
  <2>4. QED
    BY <2>1, <2>2, <2>3, TimersKeep
<1>3. CASE AsSaveCommits \/ AsSaveFails
  BY <1>3, SettlesKeeps DEF AsSaveCommits, AsSaveFails
<1>4. CASE AsCapture \/ SnapshotTick \/ AsRestart
  BY <1>4, CaptureKeeps, SnapshotTickKeeps, RestartKeeps
<1>5. ASSUME NEW i \in asFlight, SnapshotDone(i) PROVE AsInv'
  BY <1>5, SnapshotDoneKeeps
<1>6. QED
  BY <1>1, <1>2, <1>3, <1>4, <1>5 DEF AsNext

LEMMA AsInvHolds == AsSpec => []AsInv
BY AsInitHolds, AsNextHolds, PTL DEF AsSpec

(* Every snapshot is of one moment, and a VM starts from a state the storage
   was in, whatever was written, snapshotted, saved, aborted and restarted
   before.                                                                  *)
THEOREM SnapshotsAreCuts == AsSpec => [](AsTypeOK /\ SnapshotIsCut)
<1>1. AsInv => AsTypeOK /\ SnapshotIsCut
  BY DEF AsInv
<1>2. QED
  BY <1>1, AsInvHolds, PTL

-----------------------------------------------------------------------------
(* The forum (Forum).                                                       *)
(*                                                                          *)
(* A call that overlaps no other between its listing and its document finds *)
(* its id free; any call whose listing was not refused finds an id beyond   *)
(* those kept, as nothing is kept while it puts its own document.           *)

FmCalls ==
  [step : {"idle", "classifying", "routing"}]
    \cup [step : {"storing"}, kind : FmKinds, text : FmTexts]
    \cup [step : {"listing", "putting"}, kind : FmKinds, text : FmTexts, alone : BOOLEAN,
          refused : BOOLEAN, id : 0 .. FmMaxId]

FmTypes == FmTypeOK /\ fmCall \in [FmCallers -> FmCalls]

Putting(c) == fmCall[c].step = "putting" /\ ~fmCall[c].refused

Stored(text) == \E e \in FmEndpoints : text \in fmBlobs[e]

\* A call that is still alone is the only one at the forum.
AloneIsAlone == \A c \in OnForum : fmCall[c].alone => OnForum = {c}

IdsAreFree ==
  \A c \in FmCallers : Putting(c) =>
    /\ \A d \in fmKept : d.id # fmCall[c].id
    /\ fmCall[c].alone => \A d \in fmDocs : d.id # fmCall[c].id

TextsAreStored ==
  /\ \A c \in OnForum : Stored(fmCall[c].text)
  /\ \A d \in fmKept : Stored(d.text)

KeptIsFound == \A d \in fmKept : GetDocument(d.id) = {d}

FmInv == FmTypes /\ AloneIsAlone /\ IdsAreFree /\ TextsAreStored /\ KeptIsFound

\* The next id is beyond every id listed.
LEMMA NextIdIsFree ==
  ASSUME NEW docs \in SUBSET FmDocuments
  PROVE  NextId(docs) \in Nat \ {0} /\ \A d \in docs : d.id < NextId(docs)
<1> DEFINE ids == Extracted(docs)
<1>1. ids \subseteq 1 .. FmMaxId /\ \A d \in docs : d.id \in ids
  BY DEF Extracted, FmDocuments
<1>2. \A i \in ids : i \in Nat
  BY <1>1, ForumAssumption
<1>3. CASE ids = {}
  BY <1>1, <1>3 DEF NextId
<1>4. CASE ids # {}
  <2> DEFINE below == {FmMaxId - i : i \in ids}
  <2> HIDE DEF ids
  <2>1. below \subseteq Nat /\ below # {}
    <3>1. \A i \in ids : FmMaxId - i \in Nat
      BY <1>1, <1>2, ForumAssumption
    <3>2. QED
      BY <1>4, <3>1
  <2>2. PICK m \in below : \A n \in below : ~ (<<n, m>> \in OpToRel(<, Nat))
    BY <2>1, NatLessThanWellFounded, WFMin
  <2>3. \A n \in below : ~(n < m)
    BY <2>1, <2>2 DEF OpToRel
  <2>4. PICK max \in ids : m = FmMaxId - max
    OBVIOUS
  <2>5. \A j \in ids : j <= max
    BY <1>1, <2>3, <2>4, ForumAssumption
  <2> DEFINE top == CHOOSE i \in ids : \A j \in ids : j <= i
  <2>6. top \in ids /\ \A j \in ids : j <= top
    BY <2>5
  <2>7. NextId(docs) = top + 1
    BY <1>4 DEF NextId, ids
  <2> HIDE DEF top, below
  <2>8. top \in Nat /\ \A d \in docs : d.id \in Nat /\ d.id <= top
    BY <1>1, <1>2, <2>6
  <2>9. QED
    BY <2>7, <2>8
<1>5. QED
  BY <1>3, <1>4

\* A call that leaves the forum, or never was on it, and changes nothing else.
LEMMA GoingKeeps ==
  ASSUME FmInv, NEW c \in FmCallers, NEW call \in FmCalls, FmGoes(c, call),
         call.step \notin {"listing", "putting"}
  PROVE  FmInv'
<1>1. fmCall' = [fmCall EXCEPT ![c] = call] /\ UNCHANGED <<fmDocs, fmBlobs, fmAt, fmKept>>
  BY DEF FmGoes
<1>2. \A d \in FmCallers : fmCall'[d] = IF d = c THEN call ELSE fmCall[d]
  BY <1>1 DEF FmInv, FmTypes
<1>3. FmTypes'
  <2>1. fmCall' \in [FmCallers -> FmCalls]
    BY <1>1 DEF FmInv, FmTypes
  <2>2. \A d \in FmCallers :
          /\ fmCall'[d].step \in {"idle", "classifying", "routing", "storing", "listing", "putting"}
          /\ fmCall'[d].step = "putting" => fmCall'[d].id \in 1 .. FmMaxId
    BY <1>2 DEF FmInv, FmTypes, FmTypeOK, FmCalls
  <2>3. QED
    BY <1>1, <2>1, <2>2 DEF FmInv, FmTypes, FmTypeOK, FmDocuments
<1>4. OnForum' = OnForum \ {c}
  BY <1>2 DEF OnForum
<1>5. AloneIsAlone'
  BY <1>2, <1>4 DEF FmInv, AloneIsAlone, OnForum
<1>6. IdsAreFree'
  BY <1>1, <1>2 DEF FmInv, IdsAreFree, Putting
<1>7. TextsAreStored'
  BY <1>1, <1>2, <1>4 DEF FmInv, TextsAreStored, Stored, OnForum
<1>8. KeptIsFound'
  BY <1>1 DEF FmInv, KeptIsFound, GetDocument
<1>9. QED
  BY <1>3, <1>5, <1>6, <1>7, <1>8 DEF FmInv

\* The calls that are made of a message or by hand, and those that end with nothing put.
LEMMA OffForumKeeps ==
  ASSUME FmInv, NEW c \in FmCallers,
         \/ Ingest(c) \/ Classified(c) \/ Routed(c) \/ FmRejects(c) \/ DocumentRefused(c)
         \/ \E kind \in FmKinds, text \in FmTexts : Act(c, kind, text)
  PROVE  FmInv'
<1>1. \/ \E s \in {"idle", "classifying", "routing"} : FmGoes(c, [step |-> s])
      \/ \E kind \in FmKinds, text \in FmTexts :
           FmGoes(c, [step |-> "storing", kind |-> kind, text |-> text])
  BY DEF Ingest, Classified, Routed, FmRejects, DocumentRefused, Act, FmIdle
<1>2. ASSUME NEW s \in {"idle", "classifying", "routing"}, FmGoes(c, [step |-> s]) PROVE FmInv'
  <2>1. [step |-> s] \in FmCalls /\ [step |-> s].step \notin {"listing", "putting"}
    BY DEF FmCalls
  <2>2. QED
    BY <1>2, <2>1, GoingKeeps
<1>3. ASSUME NEW kind \in FmKinds, NEW text \in FmTexts,
             FmGoes(c, [step |-> "storing", kind |-> kind, text |-> text])
      PROVE  FmInv'
  <2> DEFINE call == [step |-> "storing", kind |-> kind, text |-> text]
  <2>1. call \in FmCalls /\ call.step \notin {"listing", "putting"} /\ FmGoes(c, call)
    BY <1>3 DEF FmCalls
  <2> HIDE DEF call
  <2>2. QED
    BY <2>1, GoingKeeps
<1>4. QED
  BY <1>1, <1>2, <1>3

LEMMA ProbeKeeps == ASSUME FmInv, NEW c \in FmCallers, NEW e \in FmEndpoints, Probe(c, e) PROVE FmInv'
<1>1. fmAt' = [fmAt EXCEPT ![c] = e] /\ UNCHANGED <<fmDocs, fmBlobs, fmCall, fmKept>>
  BY DEF Probe
<1>2. FmTypes'
  BY <1>1 DEF FmInv, FmTypes, FmTypeOK, FmDocuments
<1>3. QED
  BY <1>1, <1>2 DEF FmInv, AloneIsAlone, IdsAreFree, TextsAreStored, KeptIsFound, Putting, Stored,
                    OnForum, GetDocument

LEMMA BlobStoredKeeps == ASSUME FmInv, NEW c \in FmCallers, BlobStored(c) PROVE FmInv'
<1> DEFINE call == fmCall[c]
           new == [step |-> "listing", kind |-> call.kind, text |-> call.text,
                   alone |-> OnForum = {}, refused |-> FALSE, id |-> 0]
<1>1. /\ call.step = "storing"
      /\ fmBlobs' = [fmBlobs EXCEPT ![fmAt[c]] = @ \cup {call.text}]
      /\ fmCall' = [d \in FmCallers |-> IF d = c THEN new
                      ELSE IF d \in OnForum THEN [fmCall[d] EXCEPT !.alone = FALSE] ELSE fmCall[d]]
      /\ UNCHANGED <<fmDocs, fmAt, fmKept>>
  BY DEF BlobStored
<1>2. call \in FmCalls
  BY DEF FmInv, FmTypes
<1>3. call.kind \in FmKinds /\ call.text \in FmTexts
  BY <1>1, <1>2 DEF FmCalls
<1>4. /\ new \in FmCalls /\ new.step = "listing" /\ new.text = call.text
      /\ new.alone = (OnForum = {})
  <2>1. (OnForum = {}) \in BOOLEAN /\ 0 \in 0 .. FmMaxId
    BY ForumAssumption
  <2>2. QED
    BY <1>3, <2>1 DEF FmCalls
<1> HIDE DEF new
<1>5. c \notin OnForum
  BY <1>1 DEF OnForum
<1>6. ASSUME NEW d \in OnForum
      PROVE  /\ fmCall'[d] \in FmCalls /\ fmCall'[d].alone = FALSE
             /\ fmCall'[d].step = fmCall[d].step /\ fmCall'[d].text = fmCall[d].text
             /\ fmCall'[d].refused = fmCall[d].refused /\ fmCall'[d].id = fmCall[d].id
  <2>1. fmCall'[d] = [fmCall[d] EXCEPT !.alone = FALSE] /\ d \in FmCallers
    BY <1>1, <1>5 DEF OnForum
  <2>2. fmCall[d] \in [step : {"listing", "putting"}, kind : FmKinds, text : FmTexts, alone : BOOLEAN,
                       refused : BOOLEAN, id : 0 .. FmMaxId]
    BY <2>1 DEF OnForum, FmInv, FmTypes, FmCalls
  <2>3. QED
    BY <2>1, <2>2 DEF FmCalls
<1>7. \A d \in FmCallers \ {c} : d \notin OnForum => fmCall'[d] = fmCall[d]
  BY <1>1
<1>8. fmCall'[c] = new
  BY <1>1
<1>9. OnForum' = OnForum \cup {c}
  BY <1>4, <1>6, <1>7, <1>8 DEF OnForum
<1>10. fmBlobs' \in [FmEndpoints -> SUBSET FmTexts] /\ fmAt[c] \in FmEndpoints
  BY <1>1, <1>3 DEF FmInv, FmTypes, FmTypeOK
<1> DEFINE Now(text) == \E e \in FmEndpoints : text \in fmBlobs'[e]
<1>11. /\ \A text : Stored(text) => Now(text)
       /\ Now(call.text)
  <2>1. \A e \in FmEndpoints : fmBlobs[e] \subseteq fmBlobs'[e]
    BY <1>1 DEF FmInv, FmTypes, FmTypeOK
  <2>2. call.text \in fmBlobs'[fmAt[c]]
    BY <1>1, <1>10 DEF FmInv, FmTypes, FmTypeOK
  <2>3. QED
    BY <1>10, <2>1, <2>2 DEF Stored
<1>12. FmTypes'
  <2>1. fmCall' \in [FmCallers -> FmCalls]
    <3>1. \A d \in FmCallers : fmCall'[d] \in FmCalls
      BY <1>4, <1>6, <1>7, <1>8 DEF FmInv, FmTypes
    <3>2. QED
      BY <1>1, <3>1
  <2>2. \A d \in FmCallers :
          /\ fmCall'[d].step \in {"idle", "classifying", "routing", "storing", "listing", "putting"}
          /\ fmCall'[d].step = "putting" => fmCall'[d].id \in 1 .. FmMaxId
    BY <1>4, <1>6, <1>7, <1>8 DEF FmInv, FmTypes, FmTypeOK
  <2>3. QED
    BY <1>1, <1>10, <2>1, <2>2 DEF FmInv, FmTypes, FmTypeOK, FmDocuments
<1>13. AloneIsAlone'
  BY <1>4, <1>6, <1>8, <1>9 DEF AloneIsAlone
<1>14. IdsAreFree'
  <2> SUFFICES ASSUME NEW d \in FmCallers, Putting(d)'
               PROVE  /\ \A k \in fmKept : k.id # fmCall'[d].id
                      /\ fmCall'[d].alone => \A k \in fmDocs : k.id # fmCall'[d].id
    BY <1>1 DEF IdsAreFree
  <2>1. d # c
    BY <1>4, <1>8 DEF Putting
  <2>2. d \in OnForum
    BY <1>7, <2>1 DEF Putting, OnForum
  <2>3. Putting(d)
    BY <1>6, <2>2 DEF Putting
  <2>4. QED
    BY <1>6, <2>2, <2>3 DEF FmInv, IdsAreFree
<1>15. TextsAreStored'
  <2>1. ASSUME NEW d \in OnForum \cup {c} PROVE Now(fmCall'[d].text)
    <3>1. CASE d = c
      BY <1>4, <1>8, <1>11, <3>1
    <3>2. CASE d # c
      BY <1>6, <1>11, <3>2 DEF FmInv, TextsAreStored
    <3>3. QED
      BY <3>1, <3>2
  <2>2. \A d \in fmKept : Now(d.text)
    BY <1>11 DEF FmInv, TextsAreStored
  <2>3. QED
    BY <1>1, <1>9, <2>1, <2>2 DEF TextsAreStored, Stored
<1>16. KeptIsFound'
  BY <1>1 DEF FmInv, KeptIsFound, GetDocument
<1>17. QED
  BY <1>12, <1>13, <1>14, <1>15, <1>16 DEF FmInv

LEMMA ListedKeeps ==
  ASSUME FmInv, NEW c \in FmCallers, NEW refused \in BOOLEAN, Listed(c, refused) PROVE FmInv'
<1> DEFINE docs == IF refused THEN {} ELSE fmDocs
           next == NextId(docs)
           new == [fmCall[c] EXCEPT !.step = "putting", !.refused = refused, !.id = next]
<1>1. /\ fmCall[c].step = "listing" /\ next <= FmMaxId
      /\ fmCall' = [fmCall EXCEPT ![c] = new] /\ UNCHANGED <<fmDocs, fmBlobs, fmAt, fmKept>>
  BY DEF Listed, FmGoes
<1>2. docs \in SUBSET FmDocuments
  BY DEF FmInv, FmTypes, FmTypeOK
<1>3. next \in Nat \ {0} /\ \A d \in docs : d.id < next
  BY <1>2, NextIdIsFree
<1> HIDE DEF next
<1>4. next \in 1 .. FmMaxId
  BY <1>1, <1>3, ForumAssumption
<1>5. fmCall[c] \in [step : {"listing", "putting"}, kind : FmKinds, text : FmTexts, alone : BOOLEAN,
                     refused : BOOLEAN, id : 0 .. FmMaxId]
  BY <1>1 DEF FmInv, FmTypes, FmCalls
<1>6. /\ new \in FmCalls /\ new.step = "putting" /\ new.refused = refused /\ new.id = next
      /\ new.alone = fmCall[c].alone /\ new.text = fmCall[c].text
  <2>1. next \in 0 .. FmMaxId
    BY <1>4
  <2>2. QED
    BY <1>5, <2>1 DEF FmCalls
<1> HIDE DEF new
<1>7. \A d \in FmCallers : fmCall'[d] = IF d = c THEN new ELSE fmCall[d]
  BY <1>1 DEF FmInv, FmTypes
<1>8. OnForum' = OnForum
  BY <1>1, <1>6, <1>7 DEF OnForum
<1>9. FmTypes'
  <2>1. fmCall' \in [FmCallers -> FmCalls]
    BY <1>1, <1>6 DEF FmInv, FmTypes
  <2>2. \A d \in FmCallers :
          /\ fmCall'[d].step \in {"idle", "classifying", "routing", "storing", "listing", "putting"}
          /\ fmCall'[d].step = "putting" => fmCall'[d].id \in 1 .. FmMaxId
    BY <1>4, <1>6, <1>7 DEF FmInv, FmTypes, FmTypeOK
  <2>3. QED
    BY <1>1, <2>1, <2>2 DEF FmInv, FmTypes, FmTypeOK, FmDocuments
<1>10. AloneIsAlone'
  BY <1>6, <1>7, <1>8 DEF FmInv, AloneIsAlone, OnForum
<1>11. IdsAreFree'
  <2>1. ~refused => \A d \in fmDocs : d.id # next
    <3>1. fmDocs \in SUBSET FmDocuments
      BY DEF FmInv, FmTypes, FmTypeOK
    <3>2. QED
      BY <1>3, <1>4, <3>1, ForumAssumption DEF FmDocuments
  <2>2. fmKept \subseteq fmDocs
    BY DEF FmInv, KeptIsFound, GetDocument
  <2>3. QED
    BY <1>1, <1>6, <1>7, <2>1, <2>2 DEF FmInv, IdsAreFree, Putting
<1>12. TextsAreStored'
  BY <1>1, <1>6, <1>7, <1>8 DEF FmInv, TextsAreStored, Stored, OnForum
<1>13. KeptIsFound'
  BY <1>1 DEF FmInv, KeptIsFound, GetDocument
<1>14. QED
  BY <1>9, <1>10, <1>11, <1>12, <1>13 DEF FmInv

LEMMA DocumentPutKeeps == ASSUME FmInv, NEW c \in FmCallers, DocumentPut(c) PROVE FmInv'
<1> DEFINE call == fmCall[c]
           doc == FmDoc(call, c)
<1>1. /\ call.step = "putting"
      /\ fmDocs' = {d \in fmDocs : d.kind # doc.kind \/ d.id # doc.id} \cup {doc}
      /\ fmKept' = IF call.refused THEN {d \in fmKept : d.id # doc.id}
                   ELSE IF call.alone THEN fmKept \cup {doc} ELSE fmKept
      /\ fmCall' = [fmCall EXCEPT ![c] = FmIdle] /\ UNCHANGED <<fmBlobs, fmAt>>
  BY DEF DocumentPut
<1>2. call \in [step : {"listing", "putting"}, kind : FmKinds, text : FmTexts, alone : BOOLEAN,
                refused : BOOLEAN, id : 0 .. FmMaxId]
  BY <1>1 DEF FmInv, FmTypes, FmCalls
<1>3. call.id \in 1 .. FmMaxId
  BY <1>1 DEF FmInv, FmTypes, FmTypeOK
<1>4. doc \in FmDocuments /\ doc.id = call.id /\ doc.text = call.text
  BY <1>2, <1>3 DEF FmDoc, FmDocuments
<1>5. c \in OnForum /\ (~call.refused => Putting(c))
  BY <1>1 DEF OnForum, Putting
<1> HIDE DEF doc
<1>6. \A d \in FmCallers : fmCall'[d] = IF d = c THEN FmIdle ELSE fmCall[d]
  BY <1>1 DEF FmInv, FmTypes
<1>7. FmIdle \in FmCalls /\ FmIdle.step = "idle"
  BY DEF FmIdle, FmCalls
<1>8. OnForum' = OnForum \ {c}
  BY <1>6, <1>7 DEF OnForum
<1>9. fmDocs \subseteq FmDocuments /\ fmKept \subseteq FmDocuments
  BY DEF FmInv, FmTypes, FmTypeOK
<1>10. fmDocs' \subseteq FmDocuments /\ fmKept' \subseteq FmDocuments
  BY <1>1, <1>4, <1>9
<1>11. FmTypes'
  <2>1. fmCall' \in [FmCallers -> FmCalls]
    BY <1>1, <1>7 DEF FmInv, FmTypes
  <2>2. \A d \in FmCallers :
          /\ fmCall'[d].step \in {"idle", "classifying", "routing", "storing", "listing", "putting"}
          /\ fmCall'[d].step = "putting" => fmCall'[d].id \in 1 .. FmMaxId
    BY <1>6, <1>7 DEF FmInv, FmTypes, FmTypeOK
  <2>3. QED
    BY <1>1, <1>10, <2>1, <2>2 DEF FmInv, FmTypes, FmTypeOK, FmDocuments
<1>12. AloneIsAlone'
  BY <1>6, <1>8 DEF FmInv, AloneIsAlone, OnForum
\* No kept document has the id, unless it is given up.
<1>13. \A d \in fmKept : d.id # doc.id \/ d \notin fmKept'
  BY <1>1, <1>4, <1>5 DEF FmInv, IdsAreFree
<1>14. fmKept' \subseteq fmKept \cup {doc} /\ (doc \in fmKept' \ fmKept => ~call.refused /\ call.alone)
  BY <1>1
<1>15. IdsAreFree'
  <2> SUFFICES ASSUME NEW d \in FmCallers, Putting(d)'
               PROVE  /\ \A k \in fmKept' : k.id # fmCall'[d].id
                      /\ fmCall'[d].alone => \A k \in fmDocs' : k.id # fmCall'[d].id
    BY DEF IdsAreFree
  <2>1. d # c /\ fmCall'[d] = fmCall[d] /\ Putting(d) /\ d \in OnForum
    BY <1>6, <1>7 DEF Putting, OnForum
  <2>2. OnForum # {c} /\ OnForum # {d}
    BY <1>5, <2>1
  <2>3. ~fmCall[d].alone /\ ~call.alone
    BY <1>5, <2>1, <2>2 DEF FmInv, AloneIsAlone
  <2>4. fmKept' \subseteq fmKept
    BY <1>1, <2>3
  <2>5. QED
    BY <2>1, <2>3, <2>4 DEF FmInv, IdsAreFree
<1>16. TextsAreStored'
  <2>1. Stored(call.text)
    BY <1>5 DEF FmInv, TextsAreStored
  <2>2. \A d \in fmKept' : Stored(d.text)
    BY <1>4, <1>14, <2>1 DEF FmInv, TextsAreStored
  <2>3. \A d \in OnForum' : Stored(fmCall'[d].text)
    BY <1>6, <1>8 DEF FmInv, TextsAreStored, OnForum
  <2>4. QED
    BY <1>1, <2>2, <2>3 DEF TextsAreStored, Stored
<1>17. KeptIsFound'
  <2> SUFFICES ASSUME NEW d \in fmKept' PROVE {k \in fmDocs' : k.id = d.id} = {d}
    BY DEF KeptIsFound, GetDocument
  <2>1. CASE d \in fmKept
    <3>1. d.id # doc.id
      BY <1>13, <2>1
    <3>2. {k \in fmDocs : k.id = d.id} = {d}
      BY <2>1 DEF FmInv, KeptIsFound, GetDocument
    <3>3. QED
      BY <1>1, <3>1, <3>2
  <2>2. CASE d \notin fmKept
    <3>1. d = doc /\ ~call.refused /\ call.alone
      BY <1>14, <2>2
    <3>2. \A k \in fmDocs : k.id # doc.id
      BY <1>4, <1>5, <3>1 DEF FmInv, IdsAreFree
    <3>3. QED
      BY <1>1, <3>1, <3>2
  <2>3. QED
    BY <2>1, <2>2
<1>18. QED
  BY <1>11, <1>12, <1>15, <1>16, <1>17 DEF FmInv

LEMMA FmInitHolds == FmInit => FmInv
<1> SUFFICES ASSUME FmInit PROVE FmInv
  OBVIOUS
<1>1. fmCall = [c \in FmCallers |-> FmIdle] /\ \A c \in FmCallers : fmCall[c].step = "idle"
  BY DEF FmInit, FmIdle
<1>2. FmIdle \in FmCalls
  BY DEF FmIdle, FmCalls
<1>3. FmTypes
  BY <1>1, <1>2, ForumAssumption DEF FmInit, FmTypes, FmTypeOK
<1>4. OnForum = {} /\ fmKept = {} /\ \A c \in FmCallers : ~Putting(c)
  BY <1>1 DEF OnForum, FmInit, Putting
<1>5. QED
  BY <1>3, <1>4 DEF FmInv, AloneIsAlone, IdsAreFree, TextsAreStored, KeptIsFound

LEMMA FmStepHolds == FmInv /\ [FmNext]_fmVars => FmInv'
<1> SUFFICES ASSUME FmInv, [FmNext]_fmVars PROVE FmInv'
  OBVIOUS
<1>1. CASE UNCHANGED fmVars
  BY <1>1 DEF fmVars, FmInv, FmTypes, FmTypeOK, FmDocuments, AloneIsAlone, IdsAreFree, TextsAreStored,
              KeptIsFound, Putting, Stored, OnForum, GetDocument
<1>2. ASSUME NEW c \in FmCallers,
             \/ \E e \in FmEndpoints : Probe(c, e)
             \/ \E kind \in FmKinds, text \in FmTexts : Act(c, kind, text)
             \/ Ingest(c) \/ Classified(c) \/ Routed(c)
             \/ BlobStored(c) \/ FmRejects(c)
             \/ \E refused \in BOOLEAN : Listed(c, refused)
             \/ DocumentPut(c) \/ DocumentRefused(c)
      PROVE  FmInv'
  BY <1>2, OffForumKeeps, ProbeKeeps, BlobStoredKeeps, ListedKeeps, DocumentPutKeeps
<1>3. QED
  BY <1>1, <1>2 DEF FmNext

\* A thread or a post that was put by a call no other overlapped stays what is found under its id,
\* and its text stays at an endpoint, whatever the other agents' calls do, unless one of them takes
\* a refused listing for an empty forum (create_thread, reply; spacetime_contract.ts, storage nodes).
THEOREM ForumIsKept == FmSpec => [](FmTypeOK /\ ForumKeeps)
<1>1. FmInit => FmInv
  BY FmInitHolds
<1>2. FmInv /\ [FmNext]_fmVars => FmInv'
  BY FmStepHolds
<1>3. FmInv => FmTypeOK /\ ForumKeeps
  BY DEF FmInv, FmTypes, KeptIsFound, TextsAreStored, Stored, ForumKeeps
<1>4. QED
  BY <1>1, <1>2, <1>3, PTL DEF FmSpec

=============================================================================
