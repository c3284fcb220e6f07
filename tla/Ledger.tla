------------------------------- MODULE Ledger -------------------------------
(***************************************************************************)
(* Admission of transactions in SpacekitVm (src/vm/spacekitvm.ts) and the  *)
(* JSON-RPC handlers that call it (src/vm/json_rpc.ts): native balances,   *)
(* fees, values and nonces.                                                *)
(*                                                                         *)
(* A request is one call of submitTransaction, made directly (vm_submit,   *)
(* vm_submitBatch, a local caller) or by the handler of a signed request   *)
(* (vm_submitSigned, one item of vm_submitSignedBatch).  Requests run at   *)
(* the same time: a JSON-RPC batch is a Promise.all, and each await lets   *)
(* another request run.  Balances are in persistent storage and survive a  *)
(* restart of the VM; nonces and requests in flight do not.                *)
(***************************************************************************)
EXTENDS Naturals, FiniteSets, Functions

CONSTANTS
  Dids,          \* accounts: callers, the treasury, the contracts' accounts
  Callers,       \* the accounts that submit
  Treasury,
  Contracts,     \* contract identifiers that requests name
  Deployed,      \* those that are deployed
  AccountOf,     \* the account did:spacekit:contract:<id> of each contract
  Opening,       \* balances found in storage at the start
  Requests,      \* calls made during the run
  None,          \* the parameters of a request not made yet
  Values,        \* values they transfer
  Sizes,         \* lengths of their inputs in bytes
  BaseFee, PerByteFee, GasPerByte, GasLimit,
  Word,          \* balances are stored modulo Word (2^64 in the code)
  Modes,         \* the settings of requireSignature the VM is started with
  MaxRestarts    \* bound on restarts

ASSUME LedgerAssumption ==
  /\ IsFiniteSet(Dids)
  /\ Callers \subseteq Dids /\ Treasury \in Dids
  /\ Deployed \subseteq Contracts
  /\ AccountOf \in [Contracts -> Dids]
  /\ Word \in Nat \ {0}
  /\ Opening \in [Dids -> 0..(Word - 1)]
  /\ Values \subseteq Nat /\ Sizes \subseteq Nat
  /\ BaseFee \in Nat /\ PerByteFee \in Nat
  /\ GasPerByte \in Nat /\ GasLimit \in Nat
  /\ Modes \subseteq BOOLEAN /\ Modes # {}
  /\ MaxRestarts \in Nat

VARIABLES
  requireSignature,  \* whether submitTransaction verifies a signature itself
  balance,           \* storage: native balance of each account
  nonceByDid,        \* next nonce of each caller
  pc,                \* how far each request got
  call,              \* the parameters of each request
  signedNonce,       \* the nonce a signed request carries
  txNonce,           \* the nonce submitTransaction reads for a request
  restarts,
  txs                \* history: requests admitted since the VM started

requestVars == <<pc, call, signedNonce, txNonce>>
vars == <<requireSignature, balance, nonceByDid, requestVars, restarts, txs>>

-----------------------------------------------------------------------------
Call == [signed : BOOLEAN, caller : Callers, contract : Contracts,
         value : Values, size : Sizes]

EstimateFee(bytes) == BaseFee + PerByteFee * bytes
EstimateGas(bytes) == bytes * GasPerByte

\* Mutant of ChargeFee: the treasury's balance is read before the caller's
\* is written.
ChargeFeeStale(c) ==
  LET fee == EstimateFee(c.size) IN
  [balance EXCEPT ![c.caller] = @ - fee,
                  ![Treasury] = (balance[Treasury] + fee) % Word]

\* Balances after the fee: the treasury's is read after the caller's is written.
ChargeFee(c) ==
  LET fee  == EstimateFee(c.size)
      paid == [balance EXCEPT ![c.caller] = @ - fee] IN
  [paid EXCEPT ![Treasury] = (@ + fee) % Word]

\* Mutant of TransferValue: the treasury pays for the caller.
TransferFromTreasury(b, c) ==
  IF c.value = 0 THEN b
  ELSE [b EXCEPT ![Treasury] = @ - c.value,
                 ![AccountOf[c.contract]] = (@ + c.value) % Word]

\* Balances after the value: both are read before either is written.
TransferValue(b, c) ==
  LET to == AccountOf[c.contract] IN
  IF c.value = 0 THEN b
  ELSE [b EXCEPT ![c.caller] = b[c.caller] - c.value,
                 ![to] = (b[to] + c.value) % Word]

Init ==
  /\ requireSignature \in Modes
  /\ balance = Opening
  /\ nonceByDid = [d \in Callers |-> 0]
  /\ pc = [r \in Requests |-> "new"]
  /\ call = [r \in Requests |-> None]
  /\ signedNonce = [r \in Requests |-> 0]
  /\ txNonce = [r \in Requests |-> 0]
  /\ restarts = 0
  /\ txs = {}

-----------------------------------------------------------------------------
\* Mutant of Affordable: the balance is not looked at.
WithinGas(c) == EstimateGas(c.size) <= GasLimit

(* submitTransaction after its signature check, with the nonce n it read at
   its start; the step ends at the await on the receipt hash.               *)
Affordable(c) ==
  /\ EstimateGas(c.size) <= GasLimit
  /\ balance[c.caller] >= EstimateFee(c.size)

\* Over the gas limit, or too poor for the fee: nothing happened.
Refuse(r, c) ==
  /\ ~Affordable(c)
  /\ pc' = [pc EXCEPT ![r] = "failed"]
  /\ UNCHANGED <<balance, nonceByDid, txNonce, txs>>

\* Too poor for the value: the fee is gone and the nonce is not used.
KeepFee(r, c) ==
  /\ Affordable(c)
  /\ ChargeFee(c)[c.caller] < c.value
  /\ balance' = ChargeFee(c)
  /\ pc' = [pc EXCEPT ![r] = "failed"]
  /\ UNCHANGED <<nonceByDid, txNonce, txs>>

\* The nonce stored by a submission that read n.
NextNonce(n) == n + 1

\* Fee, value and nonce are taken; the contract runs, or is missing or traps.
Accept(r, c, n) ==
  /\ Affordable(c)
  /\ ChargeFee(c)[c.caller] >= c.value
  /\ balance' = TransferValue(ChargeFee(c), c)
  /\ nonceByDid' = [nonceByDid EXCEPT ![c.caller] = NextNonce(n)]
  /\ txNonce' = [txNonce EXCEPT ![r] = n]
  /\ txs' = txs \cup {r}
  /\ \/ c.contract \in Deployed /\ pc' = [pc EXCEPT ![r] = "executed"]
     \/ pc' = [pc EXCEPT ![r] = "failed"]

Admit(r, c, n) == Refuse(r, c) \/ KeepFee(r, c) \/ Accept(r, c, n)

-----------------------------------------------------------------------------
(* A direct call that needs no signature runs to the receipt in one step. *)
Submit(r, c) ==
  /\ pc[r] = "new" /\ ~c.signed
  /\ ~requireSignature
  /\ call' = [call EXCEPT ![r] = c]
  /\ Admit(r, c, nonceByDid[c.caller])
  /\ UNCHANGED <<requireSignature, signedNonce, restarts>>

(* A direct call that needs one reads its nonce, then awaits verification. *)
SubmitVerified(r, c) ==
  /\ pc[r] = "new" /\ ~c.signed
  /\ requireSignature
  /\ call' = [call EXCEPT ![r] = c]
  /\ txNonce' = [txNonce EXCEPT ![r] = nonceByDid[c.caller]]
  /\ pc' = [pc EXCEPT ![r] = "verifying"]
  /\ UNCHANGED <<requireSignature, balance, nonceByDid, signedNonce, restarts,
                 txs>>

\* The signature is valid: the submission goes on with the nonce it read.
Verified(r) ==
  /\ pc[r] = "verifying"
  /\ Admit(r, call[r], txNonce[r])
  /\ UNCHANGED <<requireSignature, call, signedNonce, restarts>>

(* A signed request carries the nonce the handler expects, or is answered
   with an error at once; its signatures are then verified.                 *)
SubmitSigned(r, c) ==
  /\ pc[r] = "new" /\ c.signed
  /\ call' = [call EXCEPT ![r] = c]
  /\ signedNonce' = [signedNonce EXCEPT ![r] = nonceByDid[c.caller]]
  /\ pc' = [pc EXCEPT ![r] = "checking"]
  /\ UNCHANGED <<requireSignature, balance, nonceByDid, txNonce, restarts, txs>>

\* The handler resumes and calls submitTransaction, which reads the nonce anew.
Checked(r) ==
  /\ pc[r] = "checking"
  /\ ~requireSignature
  /\ Admit(r, call[r], nonceByDid[call[r].caller])
  /\ UNCHANGED <<requireSignature, call, signedNonce, restarts>>

(* A signature is invalid or missing; the handler of a signed request passes
   none on to submitTransaction, which rejects it where it requires one.    *)
BadSignature(r) ==
  /\ pc[r] \in {"verifying", "checking"}
  /\ pc' = [pc EXCEPT ![r] = "failed"]
  /\ UNCHANGED <<requireSignature, balance, nonceByDid, call, signedNonce,
                 txNonce, restarts, txs>>

\* submitTransaction resumes with the receipt hash and queues the transaction.
Queue(r) ==
  /\ pc[r] = "executed"
  /\ pc' = [pc EXCEPT ![r] = "queued"]
  /\ UNCHANGED <<requireSignature, balance, nonceByDid, call, signedNonce,
                 txNonce, restarts, txs>>

\* Mutant of BumpedNonce: counted from the nonce the request was checked with.
BumpedFromChecked(r) == signedNonce[r] + 2

\* What bumpNonce stores.
BumpedNonce(r) == nonceByDid[call[r].caller] + 1

\* The handler of a signed request resumes and bumps the nonce once more.
Bump(r) ==
  /\ pc[r] = "queued" /\ call[r].signed
  /\ nonceByDid' = [nonceByDid EXCEPT ![call[r].caller] = BumpedNonce(r)]
  /\ pc' = [pc EXCEPT ![r] = "bumped"]
  /\ UNCHANGED <<requireSignature, balance, call, signedNonce, txNonce, restarts,
                 txs>>

(* The VM is started again on the same storage: nonces start over and every
   request that had begun is gone.                                          *)
Restart ==
  /\ restarts < MaxRestarts
  /\ restarts' = restarts + 1
  /\ requireSignature' \in Modes
  /\ nonceByDid' = [d \in Callers |-> 0]
  /\ pc' = [r \in Requests |-> IF pc[r] = "new" THEN "new" ELSE "lost"]
  /\ txs' = {}
  /\ UNCHANGED <<balance, call, signedNonce, txNonce>>

Handle(r) ==
  \/ \E c \in Call : Submit(r, c) \/ SubmitVerified(r, c) \/ SubmitSigned(r, c)
  \/ Verified(r) \/ Checked(r) \/ BadSignature(r) \/ Queue(r) \/ Bump(r)

Next == Restart \/ \E r \in Requests : Handle(r)

Spec == Init /\ [][Next]_vars

-----------------------------------------------------------------------------
(* Type invariant: balances stay within a storage word. *)
TypeOK ==
  /\ requireSignature \in Modes
  /\ balance \in [Dids -> 0..(Word - 1)]
  /\ nonceByDid \in [Callers -> Nat]
  /\ pc \in [Requests -> {"new", "verifying", "checking", "executed", "queued",
                          "bumped", "failed", "lost"}]
  /\ call \in [Requests -> Call \cup {None}]
  /\ signedNonce \in [Requests -> Nat]
  /\ txNonce \in [Requests -> Nat]
  /\ restarts \in 0..MaxRestarts
  /\ txs \subseteq Requests

Total(b) == FoldFunction(+, 0, b)

(* Fees and values move native currency and neither make nor destroy it,
   through every error path, with any account as caller, treasury included,
   that is not the account of the contract called.                          *)
Conservation == Total(balance) = Total(Opening)

(* Where submitTransaction verifies no signature of its own, no two
   transactions one caller got admitted since the VM started carry the same
   nonce, however plain and signed requests overlap.                        *)
NoncesUnique ==
  ~requireSignature =>
    \A r, s \in txs :
      call[r].caller = call[s].caller /\ txNonce[r] = txNonce[s] => r = s

(* No step takes from an account but the one of a request made by it. *)
OnlyCallerPays ==
  [][\A d \in Dids : balance'[d] < balance[d] =>
       \E r \in Requests : pc'[r] # pc[r] /\ call'[r].caller = d]_vars

(* Nonces protect against replay: of the signed requests one caller made with
   one nonce, at most one is admitted.                                      *)
SignedOnce ==
  \A r, s \in txs :
    /\ call[r].signed /\ call[s].signed
    /\ call[r].caller = call[s].caller
    /\ signedNonce[r] = signedNonce[s]
    => r = s
=============================================================================
