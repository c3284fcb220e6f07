------------------------------ MODULE Session ------------------------------
(***************************************************************************)
(* SessionStore (src/vm/session.ts): one record, "current", that holds the *)
(* contracts deployed from this page.  addContract reads the record, waits *)
(* and writes it back whole.  Read and write transactions of IndexedDB     *)
(* settle one at a time; each may fail, which rejects the call.            *)
(***************************************************************************)
EXTENDS Integers, FiniteSets

CONSTANTS
  SsCallers,     \* calls that may be in flight together
  SsIds,         \* contract ids
  SsWasms        \* WASM modules

VARIABLES
  ssStored,      \* the record in the object store, or NoSession
  ssCall,        \* each caller: the operation it runs, its step and what it loaded
  ssKept         \* history: deployments stored, and forgotten by no call that missed them

ssVars == <<ssStored, ssCall, ssKept>>

LEGACY_VERSION == 1
CURRENT_VERSION == 2
Contracts == UNION {[ids -> SsWasms] : ids \in SUBSET SsIds}
NoContracts == [i \in {} |-> i]
NoSession == [version |-> 0, contracts |-> NoContracts]
Sessions == [version : {LEGACY_VERSION, CURRENT_VERSION, CURRENT_VERSION + 1}, contracts : Contracts]

Idle == [op |-> [name |-> "none"], step |-> "idle", loaded |-> NoSession, missed |-> {}]
SsOps == {[name |-> "add", id |-> i, wasm |-> w] : i \in SsIds, w \in SsWasms}
         \cup {[name |-> "save", contracts |-> NoContracts], [name |-> "clear"], [name |-> "read"]}

\* missed is history: the ids other calls stored since this one loaded the session.
SsCalls == [op : SsOps, step : {"loading", "writing"}, loaded : Sessions \cup {NoSession},
            missed : SUBSET SsIds]

\* The record may be missing, or be one that another release wrote.
SsInit ==
  /\ ssStored \in {NoSession} \cup {[version |-> v, contracts |-> NoContracts] : v \in 1 .. 3}
  /\ ssCall = [c \in SsCallers |-> Idle]
  /\ ssKept = NoContracts

\* A call begins: add and the readers load first, save and clear write at once.
SsBegin(c, op) ==
  /\ ssCall[c].step = "idle"
  /\ ssCall' = [ssCall EXCEPT ![c] =
       [op |-> op, step |-> IF op.name \in {"save", "clear"} THEN "writing" ELSE "loading",
        loaded |-> NoSession, missed |-> {}]]
  /\ UNCHANGED <<ssStored, ssKept>>

\* loadSession: a record of a later version is treated as no session.
LoadSession ==
  IF ssStored # NoSession /\ ssStored.version <= CURRENT_VERSION
  THEN [ssStored EXCEPT !.version = CURRENT_VERSION] ELSE NoSession

SsIdle(c) == [ssCall EXCEPT ![c] = Idle]

\* The read settles: add goes on to save; if there is no session, or one of a later version, it
\* resolves all the same and has stored nothing.  hasSession and getContractWasm answer from what
\* they loaded.
SsLoaded(c) ==
  /\ ssCall[c].step = "loading"
  /\ IF ssCall[c].op.name = "add" /\ LoadSession # NoSession
     THEN ssCall' = [ssCall EXCEPT ![c].step = "writing", ![c].loaded = LoadSession]
     ELSE ssCall' = SsIdle(c)
  /\ UNCHANGED <<ssStored, ssKept>>

\* Bug for the mutant: the filter keeps the replaced deployment alone.
WithAlone(contracts, id, wasm) == [i \in {id} |-> wasm]

\* addContract filters the deployment with the same id out and pushes the new one.
With(contracts, id, wasm) ==
  [i \in DOMAIN contracts \cup {id} |-> IF i = id THEN wasm ELSE contracts[i]]

SaveSession(contracts) == [version |-> CURRENT_VERSION, contracts |-> contracts]

\* A deployment is stored by a call that forgets what it missed: that is kept no longer.
SsKeeps(missed, id, wasm) ==
  [i \in (DOMAIN ssKept \ missed) \cup {id} |-> IF i = id THEN wasm ELSE ssKept[i]]

\* Another call that has loaded the session misses the id stored behind its back.
SsMissing(c, id) ==
  [d \in SsCallers |-> IF d = c THEN Idle
                       ELSE IF ssCall[d].step = "writing" THEN [ssCall[d] EXCEPT !.missed = @ \cup {id}]
                       ELSE ssCall[d]]

\* The write settles, and the call resolves.
SsWritten(c) ==
  LET call == ssCall[c]
  IN  /\ call.step = "writing"
      /\ CASE call.op.name = "add" ->
                /\ ssStored' = SaveSession(With(call.loaded.contracts, call.op.id, call.op.wasm))
                /\ ssKept' = SsKeeps(call.missed, call.op.id, call.op.wasm)
                /\ ssCall' = SsMissing(c, call.op.id)
           [] call.op.name = "save" ->
                /\ ssStored' = SaveSession(call.op.contracts)
                /\ ssKept' = NoContracts
                /\ ssCall' = SsIdle(c)
           [] call.op.name = "clear" ->
                /\ ssStored' = NoSession
                /\ ssKept' = NoContracts
                /\ ssCall' = SsIdle(c)

\* A transaction fails: the call rejects and the record is as it was.
SsFails(c) ==
  /\ ssCall[c].step # "idle"
  /\ ssCall' = SsIdle(c)
  /\ UNCHANGED <<ssStored, ssKept>>

SsNext ==
  \E c \in SsCallers :
    \/ \E op \in SsOps : SsBegin(c, op)
    \/ SsLoaded(c) \/ SsWritten(c) \/ SsFails(c)

SsSpec == SsInit /\ [][SsNext]_ssVars

-----------------------------------------------------------------------------
\* Every variable has its type, and a call that writes loaded a session of the current version.
SsTypeOK ==
  /\ ssStored \in Sessions \cup {NoSession}
  /\ ssKept \in Contracts
  /\ ssCall \in [SsCallers -> SsCalls \cup {Idle}]
  /\ \A c \in SsCallers :
       ssCall[c].step = "writing" =>
         /\ ssCall[c].op.name # "read"
         /\ ssCall[c].op.name = "add" => ssCall[c].loaded.version = CURRENT_VERSION

\* A deployment that addContract stored stays in the session, with the WASM it was deployed with,
\* through every later addContract, however those overlap and fail, until it is deployed again, the
\* session is saved anew or cleared, or an addContract that had loaded the session before writes it
\* back: that one, and no other, forgets the deployment (addContract, saveSession).  An addContract
\* that finds no session resolves too, and its deployment is nowhere.
AddsAreKept ==
  \A i \in DOMAIN ssKept :
    i \in DOMAIN ssStored.contracts /\ ssStored.contracts[i] = ssKept[i]
=============================================================================
