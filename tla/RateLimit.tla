------------------------------ MODULE RateLimit ------------------------------
(***************************************************************************)
(* The HTTP server in front of the JSON-RPC handler                        *)
(* (src/vm/http_rpc_server.ts): allowlist, API key and a fixed window of   *)
(* requests per address.  A request is checked and counted in one turn,    *)
(* when its body has ended; what the handler does with it is in Ledger.    *)
(***************************************************************************)
EXTENDS Integers, FiniteSets, Functions

CONSTANTS
  RlClients,      \* addresses
  RlAllowlist,    \* options.allowlist; {} admits every address
  RlApiKey,       \* whether options.apiKey is set
  RlWindow,       \* rateLimit.windowMs
  RlMax,          \* rateLimit.maxRequests
  RlMaxTime       \* bound: the clock

ASSUME RateAssumption == RlWindow \in Nat /\ RlMax \in Nat /\ RlMaxTime \in Nat

VARIABLES
  rlNow,        \* Date.now()
  rlTable,      \* rateTable: the entries of the addresses that have one
  rlStatus,     \* the status of the last answer
  rlHandled     \* history: how many calls of each address reached the handler, per millisecond

rlVars == <<rlNow, rlTable, rlStatus, rlHandled>>

RlTimes == 0 .. RlMaxTime
RlEntry(count, resetAt) == [count |-> count, resetAt |-> resetAt]

RlInit ==
  /\ rlNow = 0
  /\ rlTable = [c \in {} |-> RlEntry(0, 0)]
  /\ rlStatus = 0
  /\ rlHandled = [c \in RlClients |-> [t \in RlTimes |-> 0]]

RlTick ==
  /\ rlNow < RlMaxTime
  /\ rlNow' = rlNow + 1
  /\ UNCHANGED <<rlTable, rlStatus, rlHandled>>

Answer(status) == rlStatus' = status /\ UNCHANGED <<rlNow, rlHandled>>

\* OPTIONS, or anything else that is not a POST.
NotPost(method) ==
  /\ Answer(IF method = "OPTIONS" THEN 204 ELSE 404)
  /\ UNCHANGED rlTable

Denied(c) == RlAllowlist # {} /\ c \notin RlAllowlist

\* An address that is not on the list, or a key that is missing or another.
NotAdmitted(c, hasKey) ==
  /\ Denied(c) \/ (RlApiKey /\ ~hasKey)
  /\ Answer(IF Denied(c) THEN 403 ELSE 401)
  /\ UNCHANGED rlTable

Admitted(c, hasKey) == ~Denied(c) /\ (RlApiKey => hasKey)

\* The entry of the address; a window that is over is replaced by one that begins now.
EntryOf(c) ==
  IF c \in DOMAIN rlTable /\ rlNow <= rlTable[c].resetAt THEN rlTable[c]
  ELSE RlEntry(0, rlNow + RlWindow)

\* The entry is reset in place, so in the table too if it is there.
ResetInPlace(c) == [d \in DOMAIN rlTable |-> IF d = c THEN EntryOf(c) ELSE rlTable[d]]

\* A body that JSON.parse refuses is not counted.
Malformed500(c, hasKey) ==
  /\ Admitted(c, hasKey)
  /\ Answer(500)
  /\ rlTable' = ResetInPlace(c)

\* Bug for the mutant: a batch counts as one request.
CountedOnce(requested) == 1

\* What a body of so many calls is counted as; a single call is one.
Counted(requested) == requested

\* A single call or a batch, which is handled whole or refused whole.
Calls(c, hasKey, requested) ==
  LET entry == EntryOf(c)
  IN  /\ Admitted(c, hasKey)
      /\ IF entry.count + Counted(requested) > RlMax
         THEN Answer(429) /\ rlTable' = ResetInPlace(c)
         ELSE /\ rlTable' = [d \in DOMAIN rlTable \cup {c} |->
                               IF d = c THEN RlEntry(entry.count + Counted(requested), entry.resetAt)
                               ELSE rlTable[d]]
              /\ rlHandled' = [rlHandled EXCEPT ![c][rlNow] = @ + requested]
              /\ rlStatus' \in {200, 500}   \* 500: the handler throws
              /\ UNCHANGED rlNow

RlNext ==
  \/ RlTick
  \/ \E method \in {"OPTIONS", "GET"} : NotPost(method)
  \/ \E c \in RlClients, hasKey \in BOOLEAN :
       \/ NotAdmitted(c, hasKey) \/ Malformed500(c, hasKey)
       \/ \E n \in 0 .. RlMax + 1 : Calls(c, hasKey, n)

RlSpec == RlInit /\ [][RlNext]_rlVars

-----------------------------------------------------------------------------
RlTypeOK ==
  /\ rlNow \in RlTimes
  /\ DOMAIN rlTable \subseteq RlClients
  /\ \A c \in DOMAIN rlTable : rlTable[c].count \in 0 .. RlMax /\ rlTable[c].resetAt <= rlNow + RlWindow
  /\ rlStatus \in {0, 200, 204, 401, 403, 404, 429, 500}

HandledIn(c, from, to) == SumFunctionOnSet(rlHandled[c], (from .. to) \cap RlTimes)

\* At most maxRequests calls of an address reach the handler in one window, batches counted by
\* their length, at most twice as many in any windowMs milliseconds, and none of an address that
\* is not on the allowlist, whatever refused and malformed requests come between.
RateIsBounded ==
  \A c \in RlClients :
    /\ c \in DOMAIN rlTable =>
         HandledIn(c, rlTable[c].resetAt - RlWindow, rlTable[c].resetAt) <= RlMax
    /\ \A t \in RlTimes : HandledIn(c, t, t + RlWindow - 1) <= 2 * RlMax
    /\ Denied(c) => HandledIn(c, 0, RlMaxTime) = 0
=============================================================================
