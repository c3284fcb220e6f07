---------------------------- MODULE LedgerProofs ----------------------------
(* What is proved of Ledger for every value of its constants. *)
EXTENDS Ledger, SumLemmas, TLAPS

Pcs == {"new", "verifying", "checking", "executed", "queued", "bumped",
        "failed", "lost"}

-----------------------------------------------------------------------------
(* Fees and gas are natural numbers. *)
LEMMA FeeIsNat ==
  ASSUME NEW n \in Nat
  PROVE  EstimateFee(n) \in Nat /\ EstimateGas(n) \in Nat
<1>1. PerByteFee * n \in Nat /\ n * GasPerByte \in Nat
  BY LedgerAssumption
<1>2. QED
  BY <1>1, LedgerAssumption DEF EstimateFee, EstimateGas

(* A sum taken modulo the word size fits a word. *)
LEMMA ModIsWord ==
  ASSUME NEW a \in Nat
  PROVE  a % Word \in 0..(Word - 1)
BY LedgerAssumption

(* Charging a fee the caller can pay leaves words in every account. *)
LEMMA ChargeFeeType ==
  ASSUME balance \in [Dids -> 0..(Word - 1)], NEW c \in Call, Affordable(c)
  PROVE  ChargeFee(c) \in [Dids -> 0..(Word - 1)]
<1> DEFINE fee == EstimateFee(c.size)
           paid == [balance EXCEPT ![c.caller] = @ - fee]
<1>1. c.caller \in Dids /\ c.size \in Nat /\ Treasury \in Dids
  BY LedgerAssumption DEF Call
<1>2. fee \in Nat /\ balance[c.caller] >= fee
  BY <1>1, FeeIsNat DEF Affordable
<1> HIDE DEF fee
<1>3. balance[c.caller] - fee \in 0..(Word - 1)
  BY <1>1, <1>2, LedgerAssumption
<1>4. paid \in [Dids -> 0..(Word - 1)]
  BY <1>3
<1>5. paid[Treasury] + fee \in Nat
  BY <1>1, <1>2, <1>4, LedgerAssumption
<1> HIDE DEF paid
<1>6. [paid EXCEPT ![Treasury] = (@ + fee) % Word] \in [Dids -> 0..(Word - 1)]
  BY <1>4, <1>5, ModIsWord
<1>7. ChargeFee(c) = [paid EXCEPT ![Treasury] = (@ + fee) % Word]
  BY DEF ChargeFee, paid, fee
<1>8. QED
  BY <1>6, <1>7

(* Moving a value the caller has leaves words in every account. *)
LEMMA TransferType ==
  ASSUME NEW b \in [Dids -> 0..(Word - 1)], NEW c \in Call,
         b[c.caller] >= c.value
  PROVE  TransferValue(b, c) \in [Dids -> 0..(Word - 1)]
<1> DEFINE to == AccountOf[c.contract]
           paid == [b EXCEPT ![c.caller] = b[c.caller] - c.value]
<1>1. c.caller \in Dids /\ c.value \in Nat /\ to \in Dids
  BY LedgerAssumption DEF Call
<1>2. b[c.caller] - c.value \in 0..(Word - 1) /\ b[to] + c.value \in Nat
  BY <1>1, LedgerAssumption
<1>3. paid \in [Dids -> 0..(Word - 1)]
  BY <1>2
<1>4. [paid EXCEPT ![to] = (b[to] + c.value) % Word] \in [Dids -> 0..(Word - 1)]
  BY <1>2, <1>3, ModIsWord
<1>5. QED
  BY <1>4 DEF TransferValue

-----------------------------------------------------------------------------
(* The strengthening of NoncesUnique: a request that began has parameters, no
   request is verified where no signature is required, and the nonce of every
   admitted request lies below the next one of its caller.                  *)
Begun == \A r \in Requests : pc[r] \notin {"new", "lost"} => call[r] \in Call

Unverified == \A r \in Requests : pc[r] = "verifying" => requireSignature

AdmittedBegun == \A r \in txs : pc[r] \notin {"new", "lost", "verifying", "checking"}

NonceAhead ==
  ~requireSignature => \A r \in txs : txNonce[r] < nonceByDid[call[r].caller]

Inv == TypeOK /\ Begun /\ Unverified /\ AdmittedBegun /\ NonceAhead /\ NoncesUnique

-----------------------------------------------------------------------------
LEMMA InitInv == Init => Inv
<1> SUFFICES ASSUME Init PROVE Inv
  OBVIOUS
<1>1. TypeOK
  BY LedgerAssumption DEF Init, TypeOK
<1>2. Begun /\ Unverified /\ AdmittedBegun /\ NonceAhead /\ NoncesUnique
  BY DEF Init, Begun, Unverified, AdmittedBegun, NonceAhead, NoncesUnique
<1>3. QED
  BY <1>1, <1>2 DEF Inv

(* What submitTransaction does after its signature check keeps the types. *)
LEMMA AdmitType ==
  ASSUME TypeOK, NEW r \in Requests, NEW c \in Call, NEW n \in Nat,
         Admit(r, c, n)
  PROVE  /\ balance' \in [Dids -> 0..(Word - 1)]
         /\ nonceByDid' \in [Callers -> Nat]
         /\ txNonce' \in [Requests -> Nat]
         /\ txs' \subseteq Requests
         /\ \E v \in {"failed", "executed"} : pc' = [pc EXCEPT ![r] = v]
<1>1. CASE Refuse(r, c)
  BY <1>1 DEF Refuse, TypeOK
<1>2. CASE KeepFee(r, c)
  BY <1>2, ChargeFeeType DEF KeepFee, TypeOK
<1>3. CASE Accept(r, c, n)
  <2>1. ChargeFee(c) \in [Dids -> 0..(Word - 1)]
    BY <1>3, ChargeFeeType DEF Accept, TypeOK
  <2>2. balance' \in [Dids -> 0..(Word - 1)]
    BY <1>3, <2>1, TransferType DEF Accept
  <2>3. NextNonce(n) \in Nat
    BY DEF NextNonce
  <2>4. QED
    BY <1>3, <2>2, <2>3 DEF Accept, TypeOK
<1>4. QED
  BY <1>1, <1>2, <1>3 DEF Admit

(* A submission that reads the nonce in the step that stores it keeps the
   whole invariant; where signatures are required nothing is said of nonces. *)
LEMMA AdmitInv ==
  ASSUME Inv, NEW r \in Requests, NEW c \in Call, NEW n \in Nat,
         pc[r] \in {"new", "verifying", "checking"},
         Admit(r, c, n),
         ~requireSignature => n = nonceByDid[c.caller],
         call' = [call EXCEPT ![r] = c],
         UNCHANGED <<requireSignature, signedNonce, restarts>>
  PROVE  Inv'
<1>1. TypeOK'
  <2>1. PICK v \in {"failed", "executed"} : pc' = [pc EXCEPT ![r] = v]
    BY AdmitType DEF Inv
  <2>2. QED
    BY <2>1, AdmitType DEF Inv, TypeOK
<1>2. pc'[r] \in {"failed", "executed"} /\ \A s \in Requests \ {r} : pc'[s] = pc[s]
  <2>1. PICK v \in {"failed", "executed"} : pc' = [pc EXCEPT ![r] = v]
    BY AdmitType DEF Inv
  <2>2. QED
    BY <2>1 DEF Inv, TypeOK
<1>3. call'[r] = c /\ \A s \in Requests \ {r} : call'[s] = call[s]
  BY DEF Inv, TypeOK
<1>4. Begun' /\ Unverified'
  BY <1>2, <1>3 DEF Inv, Begun, Unverified
<1>5. r \notin txs /\ txs \subseteq Requests
  BY DEF Inv, AdmittedBegun, TypeOK
<1>6. CASE Refuse(r, c) \/ KeepFee(r, c)
  <2>1. UNCHANGED <<nonceByDid, txNonce, txs>>
    BY <1>6 DEF Refuse, KeepFee
  <2>2. AdmittedBegun'
    BY <1>2, <1>5, <2>1 DEF Inv, AdmittedBegun
  <2>3. NonceAhead' /\ NoncesUnique'
    BY <1>3, <1>5, <2>1 DEF Inv, NonceAhead, NoncesUnique
  <2>4. QED
    BY <1>1, <1>4, <2>2, <2>3 DEF Inv
<1>7. CASE Accept(r, c, n)
  <2>1. /\ nonceByDid' = [nonceByDid EXCEPT ![c.caller] = n + 1]
        /\ txNonce' = [txNonce EXCEPT ![r] = n]
        /\ txs' = txs \cup {r}
    BY <1>7 DEF Accept, NextNonce
  <2>2. AdmittedBegun'
    BY <1>2, <1>5, <2>1 DEF Inv, AdmittedBegun
  <2>3. c.caller \in Callers
    BY DEF Call
  <2>4. ASSUME ~requireSignature
        PROVE  \A s \in txs : /\ txNonce'[s] = txNonce[s]
                              /\ txNonce[s] < nonceByDid[call[s].caller]
                              /\ call[s].caller \in Callers
    <3>1. \A s \in txs : call[s] \in Call
      BY <1>5 DEF Inv, AdmittedBegun, Begun
    <3>2. \A s \in txs : call[s].caller \in Callers
      BY <3>1 DEF Call
    <3>3. QED
      BY <1>5, <2>1, <2>4, <3>2 DEF Inv, TypeOK, NonceAhead
  <2>5. NonceAhead'
    <3> SUFFICES ASSUME ~requireSignature, NEW s \in txs'
                 PROVE  txNonce'[s] < nonceByDid'[call'[s].caller]
      BY DEF NonceAhead
    <3>1. CASE s = r
      BY <3>1, <1>3, <2>1, <2>3 DEF Inv, TypeOK
    <3>2. CASE s # r
      <4>1. s \in txs /\ call'[s] = call[s] /\ s \in Requests
        BY <3>2, <1>3, <1>5, <2>1
      <4>2. nonceByDid'[call[s].caller] >= nonceByDid[call[s].caller]
        BY <4>1, <2>1, <2>3, <2>4 DEF Inv, TypeOK
      <4>3. QED
        BY <4>1, <4>2, <2>1, <2>3, <2>4 DEF Inv, TypeOK
    <3>3. QED
      BY <3>1, <3>2
  <2>6. NoncesUnique'
    <3> SUFFICES ASSUME ~requireSignature, NEW s \in txs', NEW t \in txs',
                        call'[s].caller = call'[t].caller,
                        txNonce'[s] = txNonce'[t]
                 PROVE  s = t
      BY DEF NoncesUnique
    <3>1. txNonce'[r] = n /\ n = nonceByDid[c.caller]
      BY <2>1 DEF Inv, TypeOK
    <3>2. \A u \in txs : call'[u] = call[u]
      BY <1>3, <1>5
    <3>3. ASSUME NEW u \in txs, call[u].caller = c.caller
          PROVE  txNonce'[u] # n
      BY <3>1, <3>3, <2>4, <1>5 DEF Inv, TypeOK
    <3>4. CASE s \in txs /\ t \in txs
      BY <3>4, <3>2, <2>4 DEF Inv, NoncesUnique
    <3>5. CASE s = r /\ t \in txs
      BY <3>5, <3>1, <3>2, <3>3, <1>3
    <3>6. CASE s \in txs /\ t = r
      BY <3>6, <3>1, <3>2, <3>3, <1>3
    <3>7. QED
      BY <3>4, <3>5, <3>6, <2>1
  <2>7. QED
    BY <1>1, <1>4, <2>2, <2>5, <2>6 DEF Inv
<1>8. QED
  BY <1>6, <1>7 DEF Admit

-----------------------------------------------------------------------------
LEMMA NextInv == Inv /\ [Next]_vars => Inv'
<1> SUFFICES ASSUME Inv, [Next]_vars PROVE Inv'
  OBVIOUS
<1> USE DEF requestVars
<1>1. ASSUME NEW r \in Requests, NEW c \in Call, Submit(r, c) PROVE Inv'
  <2>1. nonceByDid[c.caller] \in Nat
    BY DEF Inv, TypeOK, Call
  <2>2. QED
    BY <1>1, <2>1, AdmitInv DEF Submit
<1>2. ASSUME NEW r \in Requests, NEW c \in Call, SubmitVerified(r, c) PROVE Inv'
  <2>1. nonceByDid[c.caller] \in Nat
    BY DEF Inv, TypeOK, Call
  <2>2. TypeOK'
    BY <1>2, <2>1 DEF SubmitVerified, Inv, TypeOK
  <2>3. r \notin txs
    BY <1>2 DEF SubmitVerified, Inv, AdmittedBegun
  <2>4. Begun' /\ Unverified'
    BY <1>2 DEF SubmitVerified, Inv, TypeOK, Begun, Unverified
  <2>5. AdmittedBegun'
    BY <1>2, <2>3 DEF SubmitVerified, Inv, TypeOK, AdmittedBegun
  <2>6. NonceAhead' /\ NoncesUnique'
    BY <1>2 DEF SubmitVerified, NonceAhead, NoncesUnique
  <2>7. QED
    BY <2>2, <2>4, <2>5, <2>6 DEF Inv
<1>3. ASSUME NEW r \in Requests, Verified(r) PROVE Inv'
  <2>1. call[r] \in Call /\ requireSignature /\ txNonce[r] \in Nat
    BY <1>3 DEF Verified, Inv, Begun, Unverified, TypeOK
  <2>2. call' = [call EXCEPT ![r] = call[r]]
    BY <1>3 DEF Verified, Inv, TypeOK
  <2>3. QED
    BY <1>3, <2>1, <2>2, AdmitInv DEF Verified
<1>4. ASSUME NEW r \in Requests, NEW c \in Call, SubmitSigned(r, c) PROVE Inv'
  <2>1. nonceByDid[c.caller] \in Nat
    BY DEF Inv, TypeOK, Call
  <2>2. TypeOK'
    BY <1>4, <2>1 DEF SubmitSigned, Inv, TypeOK
  <2>3. r \notin txs /\ txs \subseteq Requests
    BY <1>4 DEF SubmitSigned, Inv, AdmittedBegun, TypeOK
  <2>4. Begun' /\ Unverified'
    BY <1>4 DEF SubmitSigned, Inv, TypeOK, Begun, Unverified
  <2>5. AdmittedBegun'
    BY <1>4, <2>3 DEF SubmitSigned, Inv, TypeOK, AdmittedBegun
  <2>6. \A s \in txs : call'[s] = call[s]
    BY <1>4, <2>3 DEF SubmitSigned, Inv, TypeOK
  <2>7. NonceAhead' /\ NoncesUnique'
    BY <1>4, <2>6 DEF SubmitSigned, Inv, NonceAhead, NoncesUnique
  <2>8. QED
    BY <2>2, <2>4, <2>5, <2>7 DEF Inv
<1>5. ASSUME NEW r \in Requests, Checked(r) PROVE Inv'
  <2>1. call[r] \in Call
    BY <1>5 DEF Checked, Inv, Begun
  <2>2. nonceByDid[call[r].caller] \in Nat
    BY <2>1 DEF Inv, TypeOK, Call
  <2>3. call' = [call EXCEPT ![r] = call[r]]
    BY <1>5 DEF Checked, Inv, TypeOK
  <2>4. QED
    BY <1>5, <2>1, <2>2, <2>3, AdmitInv DEF Checked
<1>6. ASSUME NEW r \in Requests, BadSignature(r) \/ Queue(r) PROVE Inv'
  <2>1. PICK v \in {"failed", "queued"} :
          /\ pc' = [pc EXCEPT ![r] = v]
          /\ pc[r] \in {"verifying", "checking", "executed"}
    BY <1>6 DEF BadSignature, Queue
  <2>2. UNCHANGED <<requireSignature, balance, nonceByDid, call, signedNonce,
                    txNonce, restarts, txs>>
    BY <1>6 DEF BadSignature, Queue
  <2>3. TypeOK'
    BY <2>1, <2>2 DEF Inv, TypeOK
  <2>4. Begun' /\ Unverified' /\ AdmittedBegun'
    BY <2>1, <2>2 DEF Inv, TypeOK, Begun, Unverified, AdmittedBegun
  <2>5. NonceAhead' /\ NoncesUnique'
    BY <2>2 DEF Inv, NonceAhead, NoncesUnique
  <2>6. QED
    BY <2>3, <2>4, <2>5 DEF Inv
<1>7. ASSUME NEW r \in Requests, Bump(r) PROVE Inv'
  <2>1. call[r] \in Call
    BY <1>7 DEF Bump, Inv, Begun
  <2>2. call[r].caller \in Callers
    BY <2>1 DEF Call
  <2>3. nonceByDid' = [nonceByDid EXCEPT ![call[r].caller] = @ + 1]
    BY <1>7 DEF Bump, BumpedNonce
  <2>4. TypeOK'
    BY <1>7, <2>2, <2>3 DEF Bump, Inv, TypeOK
  <2>5. Begun' /\ Unverified' /\ AdmittedBegun'
    BY <1>7 DEF Bump, Inv, TypeOK, Begun, Unverified, AdmittedBegun
  <2>6. NonceAhead'
    <3> SUFFICES ASSUME ~requireSignature, NEW s \in txs
                 PROVE  txNonce[s] < nonceByDid'[call[s].caller]
      BY <1>7 DEF Bump, NonceAhead
    <3>1. call[s] \in Call /\ txNonce[s] \in Nat
      BY DEF Inv, TypeOK, AdmittedBegun, Begun
    <3>2. call[s].caller \in Callers
      BY <3>1 DEF Call
    <3>3. txNonce[s] < nonceByDid[call[s].caller]
      BY DEF Inv, NonceAhead
    <3>4. nonceByDid'[call[s].caller] >= nonceByDid[call[s].caller]
      BY <2>2, <2>3, <3>2 DEF Inv, TypeOK
    <3>5. QED
      BY <3>1, <3>2, <3>3, <3>4, <2>4 DEF Inv, TypeOK
  <2>7. NoncesUnique'
    BY <1>7 DEF Bump, Inv, NoncesUnique
  <2>8. QED
    BY <2>4, <2>5, <2>6, <2>7 DEF Inv
<1>8. ASSUME Restart PROVE Inv'
  <2>1. TypeOK'
    BY <1>8, LedgerAssumption DEF Restart, Inv, TypeOK
  <2>2. Begun' /\ Unverified' /\ AdmittedBegun' /\ NonceAhead' /\ NoncesUnique'
    BY <1>8 DEF Restart, Begun, Unverified, AdmittedBegun, NonceAhead, NoncesUnique
  <2>3. QED
    BY <2>1, <2>2 DEF Inv
<1>9. ASSUME UNCHANGED vars PROVE Inv'
  BY <1>9 DEF vars, Inv, TypeOK, Begun, Unverified, AdmittedBegun, NonceAhead,
              NoncesUnique
<1>10. QED
  BY <1>1, <1>2, <1>3, <1>4, <1>5, <1>6, <1>7, <1>8, <1>9 DEF Next, Handle

LEMMA InvHolds == Spec => []Inv
BY InitInv, NextInv, PTL DEF Spec

-----------------------------------------------------------------------------
(* Balances never leave a storage word, whatever the fees and the values: no
   subtraction goes below zero on any path of submitTransaction.            *)
THEOREM TypeCorrect == Spec => []TypeOK
<1>1. Inv => TypeOK
  BY DEF Inv
<1>2. QED
  BY <1>1, InvHolds, PTL

(* For any number of overlapping requests, plain and signed, no nonce is used
   twice by one caller where the VM does not verify signatures itself.       *)
THEOREM NoNonceTwice == Spec => []NoncesUnique
<1>1. Inv => NoncesUnique
  BY DEF Inv
<1>2. QED
  BY <1>1, InvHolds, PTL

-----------------------------------------------------------------------------
(* Money.  Two facts about the deployment are needed, and the second is what
   MCLedger's comment on Conservation says: all the money there is fits one
   storage word, and no caller is the account of a contract.                *)
MoneyFitsWord == Total(Opening) < Word
NoCallerIsContract == \A k \in Contracts : AccountOf[k] \notin Callers

Balances == [Dids -> 0..(Word - 1)]

LEMMA TotalIsSum == ASSUME NEW b \in Balances PROVE Total(b) = SumOver(b, Dids)
BY DEF Total, SumOver, FoldFunction, Balances

(* No balance exceeds the total. *)
LEMMA TotalBounds ==
  ASSUME NEW b \in Balances
  PROVE  /\ SumOver(b, Dids) \in Nat
         /\ \A d \in Dids : b[d] <= SumOver(b, Dids)
<1>1. IsFiniteSet(Dids) /\ \A d \in Dids : b[d] \in Nat
  BY LedgerAssumption DEF Balances
<1>2. \A s \in SUBSET Dids : SumOver(b, s) \in Nat /\ SumOver(b, s) <= SumOver(b, Dids)
  BY <1>1, SumPart
<1>3. ASSUME NEW d \in Dids PROVE SumOver(b, {d}) = b[d]
  <2>1. IsFiniteSet({d}) /\ {d} \ {d} = {}
    BY FS_Singleton
  <2>2. SumOver(b, {d}) = b[d] + SumOver(b, {d} \ {d})
    <3>1. \A z \in {d} : b[z] \in Int
      BY <1>1
    <3>2. QED
      BY <2>1, <3>1, SumRemove
  <2>3. SumOver(b, {d} \ {d}) = 0
    BY <2>1, SumEmpty
  <2>4. QED
    BY <1>1, <2>2, <2>3
<1>4. QED
  <2>1. Dids \in SUBSET Dids /\ \A d \in Dids : {d} \in SUBSET Dids
    OBVIOUS
  <2>2. QED
    BY <1>2, <1>3, <2>1

(* What one account pays another arrives whole, and changes no total.  The
   payee's balance is read after the payer's was written, so both may be one
   account.                                                                 *)
LEMMA PaymentKeeps ==
  ASSUME NEW b \in Balances, NEW from \in Dids, NEW to \in Dids, NEW n \in Nat,
         b[from] >= n, SumOver(b, Dids) < Word,
         NEW paid \in Balances, paid[from] = b[from] - n,
         \A d \in Dids \ {from} : paid[d] = b[d],
         NEW after \in Balances, after[to] = (paid[to] + n) % Word,
         \A d \in Dids \ {to} : after[d] = paid[d]
  PROVE  /\ SumOver(after, Dids) = SumOver(b, Dids)
         /\ \A d \in Dids : d # from => after[d] >= b[d]
<1>0. /\ Word \in Nat \ {0} /\ IsFiniteSet(Dids)
      /\ SumOver(b, Dids) \in Nat /\ SumOver(paid, Dids) \in Nat
  BY TotalBounds, LedgerAssumption
<1>1. \A z \in Dids : b[z] \in Nat /\ paid[z] \in Nat /\ after[z] \in Nat
  BY <1>0 DEF Balances
<1>2. \A z \in Dids : b[z] \in Int /\ paid[z] \in Int /\ after[z] \in Int
  BY <1>1
<1>3. SumOver(paid, Dids) = SumOver(b, Dids) + paid[from] - b[from]
  BY <1>0, <1>2, SumChange
<1>4. SumOver(after, Dids) = SumOver(paid, Dids) + after[to] - paid[to]
  BY <1>0, <1>2, SumChange
<1>5. paid[to] <= SumOver(paid, Dids) /\ paid[to] \in Nat
  BY <1>1, TotalBounds
<1>6. paid[to] + n \in 0..(Word - 1)
  BY <1>0, <1>1, <1>3, <1>5
<1>7. after[to] = paid[to] + n
  BY <1>0, <1>6
<1>8. SumOver(after, Dids) = SumOver(b, Dids)
  BY <1>0, <1>1, <1>3, <1>4, <1>7
<1>9. \A d \in Dids : d # from => after[d] >= b[d]
  BY <1>1, <1>7
<1>10. QED
  BY <1>8, <1>9

(* Taking n from one account, and adding n to one, in a storage word. *)
LEMMA DebitOf ==
  ASSUME NEW b \in Balances, NEW from \in Dids, NEW n \in Nat, b[from] >= n
  PROVE  /\ [b EXCEPT ![from] = @ - n] \in Balances
         /\ [b EXCEPT ![from] = @ - n][from] = b[from] - n
         /\ \A d \in Dids \ {from} : [b EXCEPT ![from] = @ - n][d] = b[d]
BY LedgerAssumption DEF Balances

LEMMA CreditOf ==
  ASSUME NEW b \in Balances, NEW to \in Dids, NEW n \in Nat
  PROVE  /\ [b EXCEPT ![to] = (@ + n) % Word] \in Balances
         /\ [b EXCEPT ![to] = (@ + n) % Word][to] = (b[to] + n) % Word
         /\ \A d \in Dids \ {to} : [b EXCEPT ![to] = (@ + n) % Word][d] = b[d]
<1>1. (b[to] + n) % Word \in 0..(Word - 1)
  BY LedgerAssumption DEF Balances
<1>2. QED
  BY <1>1 DEF Balances

(* The two payments of a submission: the fee, then the value. *)
LEMMA FeeKeeps ==
  ASSUME balance \in Balances, SumOver(balance, Dids) < Word, NEW c \in Call,
         Affordable(c)
  PROVE  /\ ChargeFee(c) \in Balances
         /\ SumOver(ChargeFee(c), Dids) = SumOver(balance, Dids)
         /\ \A d \in Dids : d # c.caller => ChargeFee(c)[d] >= balance[d]
<1> DEFINE fee == EstimateFee(c.size)
           paid == [balance EXCEPT ![c.caller] = @ - fee]
           after == [paid EXCEPT ![Treasury] = (@ + fee) % Word]
<1>1. c.caller \in Dids /\ Treasury \in Dids /\ c.size \in Nat
  BY LedgerAssumption DEF Call
<1>2. fee \in Nat /\ balance[c.caller] >= fee
  BY <1>1, FeeIsNat DEF Affordable
<1>3. ChargeFee(c) = after
  BY DEF ChargeFee
<1> HIDE DEF fee
<1>4. /\ paid \in Balances /\ paid[c.caller] = balance[c.caller] - fee
      /\ \A d \in Dids \ {c.caller} : paid[d] = balance[d]
  BY <1>1, <1>2, DebitOf
<1> HIDE DEF paid
<1>5. /\ after \in Balances /\ after[Treasury] = (paid[Treasury] + fee) % Word
      /\ \A d \in Dids \ {Treasury} : after[d] = paid[d]
  BY <1>1, <1>2, <1>4, CreditOf
<1> HIDE DEF after
<1>6. /\ SumOver(after, Dids) = SumOver(balance, Dids)
      /\ \A d \in Dids : d # c.caller => after[d] >= balance[d]
  BY <1>1, <1>2, <1>4, <1>5, PaymentKeeps
<1>7. QED
  BY <1>3, <1>5, <1>6

LEMMA TransferKeeps ==
  ASSUME NoCallerIsContract, NEW b \in Balances, SumOver(b, Dids) < Word,
         NEW c \in Call, b[c.caller] >= c.value
  PROVE  /\ TransferValue(b, c) \in Balances
         /\ SumOver(TransferValue(b, c), Dids) = SumOver(b, Dids)
         /\ \A d \in Dids : d # c.caller => TransferValue(b, c)[d] >= b[d]
<1> DEFINE to == AccountOf[c.contract]
           paid == [b EXCEPT ![c.caller] = @ - c.value]
           after == [paid EXCEPT ![to] = (@ + c.value) % Word]
<1>1. c.caller \in Dids /\ to \in Dids /\ c.value \in Nat /\ c.caller # to
  BY LedgerAssumption DEF Call, NoCallerIsContract
<1>2. c.value # 0 => TransferValue(b, c) = after
  BY <1>1 DEF TransferValue, Balances
<1>3. c.value = 0 => TransferValue(b, c) = b
  BY DEF TransferValue
<1> HIDE DEF to
<1>4. /\ paid \in Balances /\ paid[c.caller] = b[c.caller] - c.value
      /\ \A d \in Dids \ {c.caller} : paid[d] = b[d]
  BY <1>1, DebitOf
<1> HIDE DEF paid
<1>5. /\ after \in Balances /\ after[to] = (paid[to] + c.value) % Word
      /\ \A d \in Dids \ {to} : after[d] = paid[d]
  BY <1>1, <1>4, CreditOf
<1> HIDE DEF after
<1>6. /\ SumOver(after, Dids) = SumOver(b, Dids)
      /\ \A d \in Dids : d # c.caller => after[d] >= b[d]
  BY <1>1, <1>4, <1>5, PaymentKeeps
<1>7. \A d \in Dids : b[d] >= b[d]
  BY LedgerAssumption DEF Balances
<1>8. QED
  BY <1>2, <1>3, <1>5, <1>6, <1>7

-----------------------------------------------------------------------------
(* What Admit does to balances, whichever way it ends. *)
LEMMA AdmitKeeps ==
  ASSUME NoCallerIsContract, balance \in Balances, SumOver(balance, Dids) < Word,
         NEW r \in Requests, NEW c \in Call, NEW n \in Nat, Admit(r, c, n)
  PROVE  /\ balance' \in Balances
         /\ SumOver(balance', Dids) = SumOver(balance, Dids)
         /\ \A d \in Dids : d # c.caller => balance'[d] >= balance[d]
<1>1. CASE Refuse(r, c)
  BY <1>1, LedgerAssumption DEF Refuse, Balances
<1>2. CASE KeepFee(r, c)
  BY <1>2, FeeKeeps DEF KeepFee
<1>3. CASE Accept(r, c, n)
  <2> DEFINE b == ChargeFee(c)
  <2>1. /\ b \in Balances /\ SumOver(b, Dids) = SumOver(balance, Dids)
        /\ \A d \in Dids : d # c.caller => b[d] >= balance[d]
    BY <1>3, FeeKeeps DEF Accept
  <2>2. balance' = TransferValue(b, c) /\ b[c.caller] >= c.value
    BY <1>3 DEF Accept
  <2> HIDE DEF b
  <2>3. /\ balance' \in Balances /\ SumOver(balance', Dids) = SumOver(b, Dids)
        /\ \A d \in Dids : d # c.caller => balance'[d] >= b[d]
    BY <2>1, <2>2, TransferKeeps
  <2>4. \A d \in Dids : b[d] \in Int /\ balance[d] \in Int /\ balance'[d] \in Int
    BY <2>1, <2>3, LedgerAssumption DEF Balances
  <2>5. ASSUME NEW d \in Dids, d # c.caller PROVE balance'[d] >= balance[d]
    BY <2>1, <2>3, <2>4, <2>5
  <2>6. QED
    BY <2>1, <2>3, <2>5
<1>4. QED
  BY <1>1, <1>2, <1>3 DEF Admit

\* The step of a request pays from its caller's account, and from no other.
Pays(d) == \E r \in Requests : pc'[r] # pc[r] /\ call'[r].caller = d

MoneyInv == balance \in Balances /\ SumOver(balance, Dids) = Total(Opening)

LEMMA MoneyStep ==
  ASSUME MoneyFitsWord, NoCallerIsContract, Inv, MoneyInv, [Next]_vars
  PROVE  /\ MoneyInv'
         /\ \A d \in Dids : balance'[d] < balance[d] => Pays(d)
<1> USE DEF requestVars
<1>0. SumOver(balance, Dids) < Word
  BY DEF MoneyInv, MoneyFitsWord
<1> DEFINE Goal == MoneyInv' /\ \A d \in Dids : balance'[d] < balance[d] => Pays(d)
<1>1. ASSUME UNCHANGED balance PROVE Goal
  <2>1. \A d \in Dids : ~(balance[d] < balance[d])
    BY LedgerAssumption DEF MoneyInv, Balances
  <2>2. QED
    BY <1>1, <2>1 DEF MoneyInv
<1>2. ASSUME NEW r \in Requests, NEW c \in Call, NEW n \in Nat, Admit(r, c, n),
             pc[r] \in {"new", "verifying", "checking"}, call'[r] = c
      PROVE  Goal
  <2>1. /\ balance' \in Balances
        /\ SumOver(balance', Dids) = SumOver(balance, Dids)
        /\ \A d \in Dids : d # c.caller => balance'[d] >= balance[d]
    BY <1>0, <1>2, AdmitKeeps DEF MoneyInv
  <2>2. PICK v \in {"failed", "executed"} : pc' = [pc EXCEPT ![r] = v]
    BY <1>2, AdmitType DEF Inv
  <2>3. pc'[r] # pc[r]
    BY <1>2, <2>2 DEF Inv, TypeOK
  <2>4. \A d \in Dids : balance[d] \in Int /\ balance'[d] \in Int
    BY <2>1, LedgerAssumption DEF MoneyInv, Balances
  <2>5. ASSUME NEW d \in Dids, balance'[d] < balance[d] PROVE Pays(d)
    <3>1. d = c.caller
      BY <2>1, <2>4, <2>5
    <3>2. QED
      BY <1>2, <2>3, <3>1 DEF Pays
  <2>6. QED
    BY <2>1, <2>5 DEF MoneyInv
<1>3. ASSUME NEW r \in Requests, NEW c \in Call, Submit(r, c) PROVE Goal
  <2>1. nonceByDid[c.caller] \in Nat /\ call'[r] = c
    BY <1>3 DEF Inv, TypeOK, Call, Submit
  <2>2. QED
    BY <1>2, <1>3, <2>1 DEF Submit
<1>4. ASSUME NEW r \in Requests, Verified(r) PROVE Goal
  <2>1. call[r] \in Call /\ txNonce[r] \in Nat /\ call'[r] = call[r]
    BY <1>4 DEF Verified, Inv, Begun, TypeOK
  <2>2. QED
    BY <1>2, <1>4, <2>1 DEF Verified
<1>5. ASSUME NEW r \in Requests, Checked(r) PROVE Goal
  <2>1. call[r] \in Call /\ call'[r] = call[r]
    BY <1>5 DEF Checked, Inv, Begun
  <2>2. nonceByDid[call[r].caller] \in Nat
    BY <2>1 DEF Inv, TypeOK, Call
  <2>3. QED
    BY <1>2, <1>5, <2>1, <2>2 DEF Checked
<1>6. ASSUME NEW r \in Requests, NEW c \in Call, SubmitVerified(r, c) \/ SubmitSigned(r, c)
      PROVE  Goal
  BY <1>1, <1>6 DEF SubmitVerified, SubmitSigned
<1>7. ASSUME NEW r \in Requests, BadSignature(r) \/ Queue(r) \/ Bump(r) PROVE Goal
  BY <1>1, <1>7 DEF BadSignature, Queue, Bump
<1>8. ASSUME Restart \/ UNCHANGED vars PROVE Goal
  BY <1>1, <1>8 DEF Restart, vars
<1>9. QED
  BY <1>3, <1>4, <1>5, <1>6, <1>7, <1>8 DEF Next, Handle

LEMMA MoneyInvariant ==
  MoneyFitsWord /\ NoCallerIsContract => (Spec => [](Inv /\ MoneyInv))
<1> SUFFICES ASSUME MoneyFitsWord, NoCallerIsContract
             PROVE  Spec => [](Inv /\ MoneyInv)
  BY DEF MoneyFitsWord, NoCallerIsContract
<1>1. Init => MoneyInv
  BY TotalIsSum, LedgerAssumption DEF Init, MoneyInv, Balances
<1>2. Inv /\ MoneyInv /\ [Next]_vars => MoneyInv'
  BY MoneyStep
<1>3. QED
  BY <1>1, <1>2, InvHolds, PTL DEF Spec

(* Money is conserved on every path of every overlap of requests and through
   restarts, for any number of accounts: what Conservation states.          *)
THEOREM MoneyConserved ==
  MoneyFitsWord /\ NoCallerIsContract => (Spec => []Conservation)
<1>1. MoneyInv => Conservation
  BY TotalIsSum DEF MoneyInv, Conservation
<1>2. QED
  BY <1>1, MoneyInvariant, PTL

(* No step lowers the balance of an account but that of the caller whose
   request it handles: what OnlyCallerPays states.                          *)
THEOREM OthersDoNotPay ==
  MoneyFitsWord /\ NoCallerIsContract => (Spec => OnlyCallerPays)
<1> SUFFICES ASSUME MoneyFitsWord, NoCallerIsContract PROVE Spec => OnlyCallerPays
  OBVIOUS
<1>1. Spec => [](Inv /\ MoneyInv)
  BY MoneyInvariant
<1>2. Inv /\ MoneyInv /\ [Next]_vars =>
        [\A d \in Dids : balance'[d] < balance[d] =>
           \E r \in Requests : pc'[r] # pc[r] /\ call'[r].caller = d]_vars
  BY MoneyStep DEF Pays
<1>3. QED
  BY <1>1, <1>2, PTL DEF Spec, OnlyCallerPays
=============================================================================
