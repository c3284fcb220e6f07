-------------------------------- MODULE Did --------------------------------
(***************************************************************************)
(* The DID registry: createDidResolver and initializeGenesis               *)
(* (src/vm/genesis.ts, src/vm/spacekitvm.ts) with the lazily imported      *)
(* ed25519 module that its signatures are verified by                      *)
(* (src/vm/signatures.ts).                                                 *)
(*                                                                         *)
(* update and deactivate read a document, await a digest, the import and   *)
(* the verification, and write the whole document back.  A signature is    *)
(* the key it was made with: the message it covers names the operation,    *)
(* the DID and the millisecond, and is rebuilt by the resolver.            *)
(***************************************************************************)
EXTENDS FiniteSets

CONSTANTS
  DidCallers,    \* calls that may be in flight together
  Dids,
  DidKeys,       \* public keys
  InitialDids    \* the registrations of the genesis configuration

VARIABLES
  didDoc,        \* storage: did:document:<did>
  didCall,       \* each caller's call
  didModule      \* ed25519Module: absent, imported, or with its SHA-512 configured

didVars == <<didDoc, didCall, didModule>>

NoDoc == [active |-> FALSE, publicKey |-> "none", algorithm |-> "none"]
Algorithms == {"ed25519", "dilithium3"}
Docs == [active : BOOLEAN, publicKey : DidKeys, algorithm : Algorithms]
DidDocument(key, algorithm) == [active |-> TRUE, publicKey |-> key, algorithm |-> algorithm]
NoCall == [step |-> "idle"]
DidSteps == {"hashing", "importing", "configuring", "verifying"}

ASSUME InitialDidsAssumption ==
  DOMAIN InitialDids \subseteq Dids /\ \A d \in DOMAIN InitialDids : InitialDids[d] \in DidKeys

\* What a caller may ask to change: Partial<DidDocument>; a deactivation sets active only.
Updates == [field : {"publicKey"}, to : DidKeys] \cup [field : {"active"}, to : BOOLEAN]
Deactivation == [field |-> "deactivate", to |-> FALSE]
DidCalls == [step : DidSteps, did : Dids, existing : Docs, change : Updates \cup {Deactivation},
             key : DidKeys, since : SUBSET Docs]

\* Genesis registers the DIDs that are absent from storage, here and at every restart.
Genesis(doc) ==
  [d \in Dids |-> IF d \in DOMAIN InitialDids /\ doc[d] = NoDoc
                  THEN DidDocument(InitialDids[d], "ed25519") ELSE doc[d]]

DidInit ==
  /\ didDoc = Genesis([d \in Dids |-> NoDoc])
  /\ didCall = [c \in DidCallers |-> NoCall]
  /\ didModule = "absent"

\* register: an existing document, active or not, is left alone; no signature is asked.
Register(d, key, algorithm) ==
  /\ didDoc[d] = NoDoc
  /\ didDoc' = [didDoc EXCEPT ![d] = DidDocument(key, algorithm)]
  /\ UNCHANGED <<didCall, didModule>>

OnDid(d) == {c \in DidCallers : didCall[c] # NoCall /\ didCall[c].did = d}

\* A call that holds the document it read, under a signature made with key.  History: since, the
\* documents storage has held for the DID from then on.
Begin(c, d, change, key, step) ==
  /\ didCall[c] = NoCall
  /\ didCall' = [didCall EXCEPT ![c] =
       [step |-> step, did |-> d, existing |-> didDoc[d], change |-> change, key |-> key,
        since |-> {didDoc[d]}]]
  /\ UNCHANGED <<didDoc, didModule>>

\* verifyEd25519 needs the module first.
ToVerify == IF didModule = "absent" THEN "importing" ELSE "verifying"

\* update refuses an inactive document and digests the changes.
BeginUpdate(c, d, change, key) ==
  /\ didDoc[d].active
  /\ Begin(c, d, change, key, "hashing")

\* deactivate takes any document that is there, and only ed25519 can be verified.
BeginDeactivate(c, d, key) ==
  /\ didDoc[d] # NoDoc
  /\ didDoc[d].algorithm = "ed25519"
  /\ Begin(c, d, Deactivation, key, ToVerify)

Goes(c, step) == didCall' = [didCall EXCEPT ![c].step = step]
Returns(c) == didCall' = [didCall EXCEPT ![c] = NoCall]

\* The digest resolves; only ed25519 documents can be updated.
Hashed(c) ==
  /\ didCall[c].step = "hashing"
  /\ IF didCall[c].existing.algorithm # "ed25519" THEN Returns(c)
     ELSE Goes(c, ToVerify)
  /\ UNCHANGED <<didDoc, didModule>>

\* getEd25519: the module is visible to other callers before its SHA-512 is imported.
Imported(c) ==
  /\ didCall[c].step = "importing"
  /\ didModule' = IF didModule = "absent" THEN "imported" ELSE didModule
  /\ Goes(c, IF didModule = "ready" THEN "verifying" ELSE "configuring")
  /\ UNCHANGED didDoc

Configured(c) ==
  /\ didCall[c].step = "configuring"
  /\ didModule' = "ready"
  /\ Goes(c, "verifying")
  /\ UNCHANGED didDoc

\* An import fails: verifyEd25519 answers false.
ImportFails(c) ==
  /\ didCall[c].step \in {"importing", "configuring"}
  /\ Returns(c)
  /\ UNCHANGED <<didDoc, didModule>>

\* Bug for the mutant: a new key vouches for itself.
VerifyingKeyUpdated(call) ==
  IF call.change.field = "publicKey" THEN call.change.to ELSE call.existing.publicKey

\* The key a signature is verified against: that of the document read at first.
VerifyingKey(call) == call.existing.publicKey

Changed(call) ==
  CASE call.change.field = "publicKey" -> [call.existing EXCEPT !.publicKey = call.change.to]
    [] call.change.field \in {"active", "deactivate"} -> [call.existing EXCEPT !.active = call.change.to]

Stores(c, d, doc) ==
  /\ didDoc' = [didDoc EXCEPT ![d] = doc]
  /\ didCall' = [e \in DidCallers |->
       IF e = c THEN NoCall
       ELSE IF e \in OnDid(d) THEN [didCall[e] EXCEPT !.since = @ \cup {doc}] ELSE didCall[e]]

\* The signature is valid: the document read at first is written back, changed.
Verified(c) ==
  LET call == didCall[c]
  IN  /\ call.step = "verifying"
      /\ call.key = VerifyingKey(call)
      /\ Stores(c, call.did, Changed(call))
      /\ UNCHANGED didModule

\* The signature is not valid, or the module has no SHA-512 yet.
NotVerified(c) ==
  /\ didCall[c].step = "verifying"
  /\ didCall[c].key # VerifyingKey(didCall[c]) \/ didModule # "ready"
  /\ Returns(c)
  /\ UNCHANGED <<didDoc, didModule>>

\* The process restarts on the same storage.
DidRestart ==
  /\ didDoc' = Genesis(didDoc)
  /\ didCall' = [c \in DidCallers |-> NoCall]
  /\ didModule' = "absent"

DidNext ==
  \/ \E d \in Dids, k \in DidKeys, a \in Algorithms : Register(d, k, a)
  \/ \E c \in DidCallers :
       \/ \E d \in Dids, k \in DidKeys :
            BeginDeactivate(c, d, k) \/ \E u \in Updates : BeginUpdate(c, d, u, k)
       \/ Hashed(c) \/ Imported(c) \/ Configured(c) \/ ImportFails(c) \/ Verified(c) \/ NotVerified(c)
  \/ DidRestart

DidSpec == DidInit /\ [][DidNext]_didVars

-----------------------------------------------------------------------------
\* Every variable has its type; a call holds a registered document, and verifies only with a module.
DidTypeOK ==
  /\ didDoc \in [Dids -> Docs \cup {NoDoc}]
  /\ didModule \in {"absent", "imported", "ready"}
  /\ didCall \in [DidCallers -> DidCalls \cup {NoCall}]
  /\ \A c \in DidCallers : didCall[c] # NoCall =>
       /\ didDoc[didCall[c].did] # NoDoc
       /\ didCall[c].step \in {"configuring", "verifying"} => didModule # "absent"
  /\ \A d \in DOMAIN InitialDids : didDoc[d] # NoDoc

\* Document new is old with the one change the call asked for, signed with the key in old; an
\* inactive document stays inactive.
IsAsked(call, old, new) ==
  /\ call.key = old.publicKey
  /\ new.publicKey = IF call.change.field = "publicKey" THEN call.change.to ELSE old.publicKey
  /\ new.active = IF call.change.field = "publicKey" THEN old.active ELSE call.change.to
  /\ new.active => old.active
  /\ new.algorithm = old.algorithm

\* A document that is there changes only when a call returns, into a document that was in storage
\* some time since that call began, changed as the call asked under the key of that document: the
\* present one when no other call wrote in between.  Other calls, restarts and a module that is
\* still being configured never change, forge or revive one (update, deactivate, genesis).
ChangesAreSigned ==
  [][\A d \in Dids :
       didDoc[d] # NoDoc /\ didDoc'[d] # didDoc[d] =>
         \E c \in OnDid(d), old \in Docs :
           /\ didCall'[c] = NoCall
           /\ old \in didCall[c].since
           /\ IsAsked(didCall[c], old, didDoc'[d])
    ]_didVars
=============================================================================
