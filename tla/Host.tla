-------------------------------- MODULE Host --------------------------------
(***************************************************************************)
(* Contracts in the VM: deployContract, executeTransaction and the host    *)
(* calls a contract makes while it runs (src/host.ts, src/memory.ts,       *)
(* src/runtime.ts, and their callers in src/vm/spacekitvm.ts).             *)
(*                                                                         *)
(* Each deployed contract has a host context of its own, shared by all its *)
(* transactions.  A contract runs without an await: one runs at a time,    *)
(* and every host call is a step of it.  What a contract decides (which    *)
(* calls, with what arguments, when it returns or traps) is a choice.      *)
(* The default token, reputation and fact adapters are empty, and nothing  *)
(* the library exposes fills them: their calls answer zero, and are left   *)
(* out with those that only format (log_output, get_timestamp).            *)
(* Sizes are in words of 8 bytes, to which alloc rounds.                   *)
(***************************************************************************)
EXTENDS Integers, Sequences, FiniteSets

CONSTANTS
  HsContracts,   \* contract ids
  HsTxs,         \* transactions
  HsDids,        \* callers and owners
  HsKeys,        \* storage keys
  HsAdapters,    \* LLM adapters; the first is the one of the constructor
  HsFirst,
  HsReady,       \* the adapters whose model is loaded
  HsGasLimit,
  HsPage,        \* words of a WebAssembly page
  HsMaxPages,    \* the maximum of the contract's memory
  HsMaxEvents,   \* bound: events of a transaction
  HsMaxTokens    \* bound: tokens minted

ASSUME HostAssumption ==
  /\ HsFirst \in HsAdapters
  /\ HsGasLimit \in Nat /\ HsPage \in Nat \ {0} /\ HsMaxPages \in Nat \ {0}
  /\ HsMaxEvents \in Nat /\ HsMaxTokens \in Nat

VARIABLES
  hsLlm,         \* hostOptions.llm
  hsDeploying,   \* contract id -> the host created for it, while it is compiled
  hsCtx,         \* contract id -> its context, in VM.contracts
  hsRun,         \* the transaction that runs
  hsStorage,     \* the storage adapter: key -> length of its value, 0 if it has none
  hsHashing,     \* receipts whose digest is awaited
  hsReceipts,    \* receiptIndex
  hsMade         \* history: what each transaction emitted and used

hsVars == <<hsLlm, hsDeploying, hsCtx, hsRun, hsStorage, hsHashing, hsReceipts, hsMade>>

NoContext == [caller |-> "none"]
NoRun == [tx |-> "none"]
NoDeploy == [step |-> "none"]
HsMin(a, b) == IF a < b THEN a ELSE b

\* bindInstance: the allocator starts at the end of the instance's memory, of one page.
Context(llm) == [caller |-> "anonymous", events |-> <<>>, gasUsed |-> 0, llm |-> llm,
                 pages |-> 1, offset |-> HsPage, nft |-> <<>>, missed |-> FALSE]

HsInit ==
  /\ hsLlm = HsFirst
  /\ hsDeploying = [c \in HsContracts |-> NoDeploy]
  /\ hsCtx = [c \in HsContracts |-> NoContext]
  /\ hsRun = NoRun
  /\ hsStorage = [k \in HsKeys |-> 0]
  /\ hsHashing = {}
  /\ hsReceipts = {}
  /\ hsMade = [t \in HsTxs |-> [begun |-> FALSE, events |-> <<>>, gas |-> 0]]

runVars == <<hsRun, hsStorage, hsHashing, hsReceipts, hsMade>>

-----------------------------------------------------------------------------
(* Deployment *)

\* The digest of the module is awaited, then the host is created with the options of the moment.
CreateHost(c) ==
  /\ hsRun = NoRun
  /\ hsDeploying[c] = NoDeploy
  /\ hsDeploying' = [hsDeploying EXCEPT ![c] = [step |-> "compiling", context |-> Context(hsLlm)]]
  /\ UNCHANGED <<hsLlm, hsCtx, runVars>>

\* Compilation is awaited; a contract with the same id is replaced.
DeployContract(c) ==
  /\ hsRun = NoRun
  /\ hsDeploying[c] # NoDeploy
  /\ hsCtx' = [hsCtx EXCEPT ![c] = hsDeploying[c].context]
  /\ hsDeploying' = [hsDeploying EXCEPT ![c] = NoDeploy]
  /\ UNCHANGED <<hsLlm, runVars>>

\* The module does not compile, or exports no memory.
DeployFails(c) ==
  /\ hsRun = NoRun
  /\ hsDeploying[c] # NoDeploy
  /\ hsDeploying' = [hsDeploying EXCEPT ![c] = NoDeploy]
  /\ UNCHANGED <<hsLlm, hsCtx, runVars>>

Deployed == {c \in HsContracts : hsCtx[c] # NoContext}

\* Bug for the mutant: only contracts deployed from now on get the adapter.
UpdatedNone(adapter) == hsCtx

\* The contexts setLlmAdapter reaches: those of deployed contracts.
Updated(adapter) == [c \in HsContracts |-> IF c \in Deployed THEN [hsCtx[c] EXCEPT !.llm = adapter]
                                           ELSE hsCtx[c]]

\* setLlmAdapter; "missed" marks (for the property) a host that was being compiled meanwhile.
SetLlmAdapter(adapter) ==
  /\ hsRun = NoRun
  /\ hsLlm' = adapter
  /\ hsCtx' = [c \in HsContracts |-> IF c \in Deployed THEN [Updated(adapter)[c] EXCEPT !.missed = FALSE]
                                     ELSE NoContext]
  /\ hsDeploying' = [c \in HsContracts |-> IF hsDeploying[c] = NoDeploy THEN NoDeploy
                                           ELSE [hsDeploying[c] EXCEPT !.context.missed = TRUE]]
  /\ UNCHANGED runVars

-----------------------------------------------------------------------------
(* Execution *)

\* alloc: a bump allocator behind what the memory held at first, which grows it when needed.
Pages(ctx, size) ==
  LET next == ctx.offset + size
  IN  IF next > ctx.pages * HsPage
      THEN ctx.pages + (next - ctx.pages * HsPage + HsPage - 1) \div HsPage
      ELSE ctx.pages
CanAlloc(ctx, size) == Pages(ctx, size) <= HsMaxPages
Alloc(ctx, size) == [ctx EXCEPT !.offset = @ + size, !.pages = Pages(ctx, size)]

\* setCaller, the cleared events and the gas limit, before the input is written to memory.
Prepared(ctx, did) == [ctx EXCEPT !.caller = did, !.events = <<>>, !.gasUsed = 0]

\* executeTransaction up to the contract's main(); memory that cannot grow throws.
Execute(t, c, did, size) ==
  /\ hsRun = NoRun
  /\ ~hsMade[t].begun
  /\ c \in Deployed
  /\ hsMade' = [hsMade EXCEPT ![t].begun = TRUE]
  /\ LET ctx == Prepared(hsCtx[c], did)
     IN  IF CanAlloc(ctx, size)
         THEN /\ hsCtx' = [hsCtx EXCEPT ![c] = Alloc(ctx, size)]
              /\ hsRun' = [tx |-> t, contract |-> c, returned |-> 0]
         ELSE /\ hsCtx' = [hsCtx EXCEPT ![c] = ctx]
              /\ UNCHANGED hsRun
  /\ UNCHANGED <<hsLlm, hsDeploying, hsStorage, hsHashing, hsReceipts>>

\* A host call of the running contract: what it answers, and what it leaves alone.
Answers(value) == hsRun # NoRun /\ hsRun' = [hsRun EXCEPT !.returned = value]
otherVars == <<hsLlm, hsDeploying, hsHashing, hsReceipts>>
Running == hsCtx[hsRun.contract]

\* storage_read (missing = -1) and storage_load (missing = 0): at most max words.
StorageRead(k, max, missing) ==
  /\ Answers(IF hsStorage[k] = 0 THEN missing ELSE HsMin(hsStorage[k], max))
  /\ UNCHANGED <<otherVars, hsCtx, hsStorage, hsMade>>

\* storage_write and storage_save: no key is refused, the protected ones included.
StorageWrite(k, length) ==
  /\ Answers(length)
  /\ hsStorage' = [hsStorage EXCEPT ![k] = length]
  /\ UNCHANGED <<otherVars, hsCtx, hsMade>>

EmitEvent(e) ==
  /\ hsRun # NoRun
  /\ Len(Running.events) < HsMaxEvents
  /\ hsCtx' = [hsCtx EXCEPT ![hsRun.contract].events = Append(@, e)]
  /\ hsMade' = [hsMade EXCEPT ![hsRun.tx].events = Append(@, e)]
  /\ UNCHANGED <<otherVars, hsRun, hsStorage>>

\* usegas: gas is used before the limit is looked at; beyond it the call throws, and the throw
\* ends the contract.  What it wrote before stays.
UseGas(amount) ==
  /\ hsRun # NoRun
  /\ hsCtx' = [hsCtx EXCEPT ![hsRun.contract].gasUsed = @ + amount]
  /\ hsMade' = [hsMade EXCEPT ![hsRun.tx].gas = @ + amount]
  /\ hsRun' = IF HsGasLimit > 0 /\ Running.gasUsed + amount > HsGasLimit THEN NoRun ELSE hsRun
  /\ UNCHANGED <<otherVars, hsStorage>>

\* nft_mint: the next id of the registry, which every host has to itself and a deployment loses.
NftMint(owner) ==
  /\ Answers(Len(Running.nft) + 1)
  /\ Len(Running.nft) < HsMaxTokens
  /\ hsCtx' = [hsCtx EXCEPT ![hsRun.contract].nft = Append(@, owner)]
  /\ UNCHANGED <<otherVars, hsStorage, hsMade>>

\* nft_transfer: any token that exists, whoever owns it.
NftTransfer(token, to) ==
  /\ Answers(IF token \in DOMAIN Running.nft THEN 1 ELSE 0)
  /\ hsCtx' = [hsCtx EXCEPT ![hsRun.contract].nft = [i \in DOMAIN @ |-> IF i = token THEN to ELSE @[i]]]
  /\ UNCHANGED <<otherVars, hsStorage, hsMade>>

\* nft_owner_of: at most max words of the owner, -1 for a token that was not minted.
NftOwnerOf(token, max) ==
  /\ Answers(IF token \in DOMAIN Running.nft THEN HsMin(1, max) ELSE -1)
  /\ UNCHANGED <<otherVars, hsCtx, hsStorage, hsMade>>

\* llm_inference: -1 if the model is not loaded, -2 if the answer is empty or infer throws.
LlmInference(answer, max) ==
  /\ Answers(CASE Running.llm \notin HsReady -> -1
               [] Running.llm \in HsReady /\ answer = 0 -> -2
               [] OTHER -> HsMin(answer, max))
  /\ UNCHANGED <<otherVars, hsCtx, hsStorage, hsMade>>

\* contract_call: contractCall is a function, so contractCall.call(id, input, did, 0n) passes the
\* input as the id; no contract is found and the call answers -2, whatever the contract.
ContractCall ==
  /\ Answers(-2)
  /\ UNCHANGED <<otherVars, hsCtx, hsStorage, hsMade>>

\* The contract grows its own memory; the allocator's offset stays where it is.
MemoryGrow ==
  /\ hsRun # NoRun
  /\ Running.pages < HsMaxPages
  /\ hsCtx' = [hsCtx EXCEPT ![hsRun.contract].pages = @ + 1]
  /\ UNCHANGED <<otherVars, hsRun, hsStorage, hsMade>>

\* main returned; a positive status is the length of the result, which is fetched.
Return(status) ==
  /\ hsRun # NoRun
  /\ status > 0 => CanAlloc(Running, status)
  /\ LET ctx == IF status > 0 THEN Alloc(Running, status) ELSE Running
     IN  /\ hsCtx' = [hsCtx EXCEPT ![hsRun.contract] = ctx]
         /\ hsHashing' = hsHashing \cup {[tx |-> hsRun.tx, contract |-> hsRun.contract, status |-> status,
                                          events |-> ctx.events, gas |-> ctx.gasUsed]}
  /\ hsRun' = NoRun
  /\ UNCHANGED <<hsLlm, hsDeploying, hsStorage, hsReceipts, hsMade>>

\* The contract traps, or its result does not fit in memory: the transaction rejects.
HsTrap ==
  /\ hsRun # NoRun
  /\ hsRun' = NoRun
  /\ UNCHANGED <<otherVars, hsCtx, hsStorage, hsMade>>

\* Bug for the mutant: events and gas are read from the context after the await.
ReceiptRead(r) == [r EXCEPT !.events = hsCtx[r.contract].events, !.gas = hsCtx[r.contract].gasUsed]

\* The receipt was taken before the await, its events cloned.
Receipt(r) == r

StoreReceipt(r) ==
  /\ hsRun = NoRun
  /\ hsHashing' = hsHashing \ {r}
  /\ hsReceipts' = hsReceipts \cup {Receipt(r)}
  /\ UNCHANGED <<hsLlm, hsDeploying, hsCtx, hsRun, hsStorage, hsMade>>

HsNext ==
  \/ \E c \in HsContracts : CreateHost(c) \/ DeployContract(c) \/ DeployFails(c)
  \/ \E a \in HsAdapters : SetLlmAdapter(a)
  \/ \E t \in HsTxs, c \in HsContracts, d \in HsDids, n \in 1 .. 2 : Execute(t, c, d, n)
  \/ \E k \in HsKeys, n \in 0 .. 1 : StorageRead(k, n, -1) \/ StorageRead(k, n, 0)
  \/ \E k \in HsKeys : StorageWrite(k, 1)
  \/ \E d \in HsDids : EmitEvent(d) \/ NftMint(d)
  \/ \E d \in HsDids, i \in 1 .. HsMaxTokens : NftTransfer(i, d)
  \/ \E i \in 1 .. HsMaxTokens, n \in 0 .. 1 : NftOwnerOf(i, n)
  \/ \E n \in 1 .. 2 : UseGas(n)
  \/ \E n \in 0 .. 2 : LlmInference(n, 1)
  \/ ContractCall \/ MemoryGrow \/ HsTrap
  \/ \E n \in 0 .. 1 : Return(n)
  \/ \E r \in hsHashing : StoreReceipt(r)

HsSpec == HsInit /\ [][HsNext]_hsVars

-----------------------------------------------------------------------------
\* Every variable has its type; no host buffer reaches past the end of a contract's memory, and a
\* receipt never reports more gas than the limit.
HsTypeOK ==
  /\ hsLlm \in HsAdapters
  /\ \A c \in HsContracts : hsCtx[c] # NoContext =>
       /\ hsCtx[c].caller \in HsDids \cup {"anonymous"}
       /\ hsCtx[c].llm \in HsAdapters
       /\ hsCtx[c].nft \in Seq(HsDids)
       /\ hsCtx[c].pages \in 1 .. HsMaxPages
       /\ hsCtx[c].offset <= hsCtx[c].pages * HsPage
  /\ hsStorage \in [HsKeys -> Nat]
  /\ hsRun # NoRun => hsMade[hsRun.tx].begun /\ hsRun.contract \in Deployed
  /\ \A r \in hsHashing \cup hsReceipts :
       r.gas \in Nat /\ (HsGasLimit > 0 => r.gas <= HsGasLimit)

\* A receipt lists the events its own transaction emitted and the gas it used, although the
\* context is shared and another transaction may run while the receipt's digest is awaited
\* (executeTransaction: the cleared events, setGasLimit, cloneEvents).
ReceiptsAreOwn ==
  \A r \in hsReceipts : r.events = hsMade[r.tx].events /\ r.gas = hsMade[r.tx].gas

\* Every deployed contract asks the adapter that setLlmAdapter set last, except one that was being
\* compiled at the time: its host keeps the adapter it was created with.
AdapterReachesContracts ==
  \A c \in Deployed : hsCtx[c].missed \/ hsCtx[c].llm = hsLlm
=============================================================================
