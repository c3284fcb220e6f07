--------------------------------- MODULE Llm ---------------------------------
(***************************************************************************)
(* The web LLM adapter and the adapter registry (src/llm/web_adapter.ts,   *)
(* src/llm/registry.ts).  A contract's inference is synchronous, so the    *)
(* answer is computed before, by calls that await the engine one to many   *)
(* times and overlap, and waits in the adapter for the contract to run.    *)
(* An answer is a number, 0 an empty one; how alike two answers are is a   *)
(* choice.  Confidence is counted in tenths, the memory's entries by their *)
(* lengths, in characters of any unit.                                     *)
(***************************************************************************)
EXTENDS Integers, Sequences, Functions

CONSTANTS
  LmCallers,      \* calls of precompute and precomputeTRM in flight
  LmIds,          \* adapter ids
  LmMaxSteps,     \* values of TRMConfig.maxSteps
  LmBuffers,      \* values of TRMConfig.memoryBufferSize
  LmLengths,      \* lengths an entry of the memory can have
  LmMaxAnswers    \* bound: answers of the engine

VARIABLES
  lmEngine,     \* whether an engine is set
  lmStatus,
  lmConfig,     \* trmConfig
  lmCached,     \* cachedResponse
  lmMemory,     \* reasoningMemory: the lengths of its entries
  lmCapture,    \* captureMode, and whether a request was captured
  lmCall,       \* the calls in flight
  lmAnswers,    \* answers of the engine so far
  lmRegistry,   \* adapterRegistry and activeAdapterId
  lmUsed        \* history: the answers contracts were given, in order

lmVars == <<lmEngine, lmStatus, lmConfig, lmCached, lmMemory, lmCapture, lmCall, lmAnswers,
            lmRegistry, lmUsed>>
adapterVars == <<lmEngine, lmStatus, lmConfig, lmCapture>>

LmConfigs == [maxSteps : LmMaxSteps, selfVerify : BOOLEAN, buffer : LmBuffers]

ASSUME LmAssumption ==
  /\ LmMaxSteps \subseteq Nat /\ \E n \in LmMaxSteps : \A m \in LmMaxSteps : m <= n
  /\ LmBuffers \subseteq Nat /\ \E n \in LmBuffers : \A m \in LmBuffers : m <= n
  /\ LmLengths \subseteq Nat /\ LmMaxAnswers \in Nat

LmThreshold == 8
LmIdle == [step |-> "idle"]
NoAdapter == "none"

LmInit ==
  /\ lmEngine = FALSE
  /\ lmStatus = "not_loaded"
  /\ lmConfig = [maxSteps |-> CHOOSE n \in LmMaxSteps : \A m \in LmMaxSteps : m <= n, selfVerify |-> TRUE,
                 buffer |-> CHOOSE n \in LmBuffers : \A m \in LmBuffers : m <= n]
  /\ lmCached = 0
  /\ lmMemory = <<>>
  /\ lmCapture = [mode |-> FALSE, request |-> FALSE]
  /\ lmCall = [c \in LmCallers |-> LmIdle]
  /\ lmAnswers = 0
  /\ lmRegistry = [ids |-> {}, active |-> NoAdapter]
  /\ lmUsed = <<>>

-----------------------------------------------------------------------------
(* The adapter *)

SetEngine(loaded) ==
  /\ lmEngine' = loaded
  /\ lmStatus' = IF loaded THEN "ready" ELSE "not_loaded"
  /\ UNCHANGED <<lmConfig, lmCached, lmMemory, lmCapture, lmCall, lmAnswers, lmRegistry, lmUsed>>

SetStatus(status) ==
  /\ lmStatus' = status
  /\ UNCHANGED <<lmEngine, lmConfig, lmCached, lmMemory, lmCapture, lmCall, lmAnswers, lmRegistry, lmUsed>>

SetTRMConfig(config) ==
  /\ lmConfig' = config
  /\ UNCHANGED <<lmEngine, lmStatus, lmCached, lmMemory, lmCapture, lmCall, lmAnswers, lmRegistry, lmUsed>>

\* setCaptureMode; turning it on forgets the request captured before.
SetCaptureMode(enabled) ==
  /\ lmCapture' = [mode |-> enabled, request |-> lmCapture.request /\ ~enabled]
  /\ UNCHANGED <<lmEngine, lmStatus, lmConfig, lmCached, lmMemory, lmCall, lmAnswers, lmRegistry, lmUsed>>

ClearCapturedRequest ==
  /\ lmCapture' = [lmCapture EXCEPT !.request = FALSE]
  /\ UNCHANGED <<lmEngine, lmStatus, lmConfig, lmCached, lmMemory, lmCall, lmAnswers, lmRegistry, lmUsed>>

ClearMemory ==
  /\ lmMemory' = <<>>
  /\ UNCHANGED <<adapterVars, lmCached, lmCall, lmAnswers, lmRegistry, lmUsed>>

\* Bug for the mutant: the answer stays for the next contract.
KeepsCached == lmCached

\* What is left for the next contract once one was answered.
AfterInfer == 0

\* infer, called by a contract that runs.
Infer ==
  /\ IF lmCapture.mode
     THEN lmCapture' = [lmCapture EXCEPT !.request = TRUE] /\ UNCHANGED <<lmCached, lmUsed>>
     ELSE /\ lmUsed' = IF lmCached = 0 THEN lmUsed ELSE Append(lmUsed, lmCached)
          /\ lmCached' = AfterInfer
          /\ UNCHANGED lmCapture
  /\ UNCHANGED <<lmEngine, lmStatus, lmConfig, lmMemory, lmCall, lmAnswers, lmRegistry>>

-----------------------------------------------------------------------------
(* precompute and precomputeTRM *)

\* Without an engine the call throws.  An option of the call replaces the configuration.
BeginPrecompute(c, trm, config) ==
  /\ lmCall[c] = LmIdle
  /\ lmEngine
  /\ lmCall' = [lmCall EXCEPT ![c] = [step |-> "asking", trm |-> trm, config |-> config,
                                      steps |-> 0, response |-> 0, confidence |-> 0]]
  /\ UNCHANGED <<adapterVars, lmCached, lmMemory, lmAnswers, lmRegistry, lmUsed>>

\* The engine answers: with a text of its own, or with an empty one.
EngineAnswers(a) ==
  /\ a \in {0} \cup (IF lmAnswers < LmMaxAnswers THEN {lmAnswers + 1} ELSE {})
  /\ lmAnswers' = IF a = 0 THEN lmAnswers ELSE a

\* computeSimilarity: 1 for equal answers, 0 if one is empty; above 0.95, 0.9, 0.85 or below.
Similarity(a, b) ==
  CASE a = 0 /\ b = 0 -> {"same"}
    [] a = 0 /\ b # 0 -> {"far"}
    [] a # 0 /\ b = 0 -> {"far"}
    [] OTHER -> {"same", "near", "like", "far"}

LmCapped(n) == IF n > 10 THEN 10 ELSE n

\* What the loop asks for next: a refinement, a verification or nothing.
NextStep(call) ==
  IF call.steps < call.config.maxSteps THEN "refining"
  ELSE IF call.config.selfVerify /\ call.steps < call.config.maxSteps + 1 THEN "verifying" ELSE "done"

\* The length of the entries joined by a character.
JoinedLength(memory) == FoldFunction(+, 0, memory) + Len(memory) - 1

\* The memory with an entry more: if that is over the size, the oldest goes, and no other.
Remembered(size, length) ==
  LET memory == Append(lmMemory, length)
  IN  IF JoinedLength(memory) > size THEN Tail(memory) ELSE memory

\* The call resolves: the answer is cached, and a TRM call adds to the memory.
Finished(c, call) ==
  /\ lmCached' = call.response
  /\ IF call.trm THEN \E length \in LmLengths : lmMemory' = Remembered(call.config.buffer, length)
     ELSE UNCHANGED lmMemory
  /\ lmCall' = [lmCall EXCEPT ![c] = LmIdle]

Proceeds(c, call, next) ==
  IF next = "done" THEN Finished(c, call)
  ELSE lmCall' = [lmCall EXCEPT ![c] = [call EXCEPT !.step = next]] /\ UNCHANGED <<lmCached, lmMemory>>

\* The first answer; precompute is done with it.
Asked(c) ==
  /\ lmCall[c].step = "asking"
  /\ \E a \in 0 .. LmMaxAnswers :
       /\ EngineAnswers(a)
       /\ LET call == [lmCall[c] EXCEPT !.response = a, !.steps = 1]
          IN  Proceeds(c, call, IF call.trm THEN NextStep(call) ELSE "done")
  /\ UNCHANGED <<adapterVars, lmRegistry, lmUsed>>

\* A refinement: an answer that is stable enough ends the loop and is not taken over.
Refined(c) ==
  /\ lmCall[c].step = "refining"
  /\ \E a \in 0 .. LmMaxAnswers : \E alike \in Similarity(lmCall[c].response, a) :
       /\ EngineAnswers(a)
       /\ LET sure == IF alike \in {"same", "near"} THEN LmCapped(lmCall[c].confidence + 3)
                      ELSE lmCall[c].confidence + 1
              call == [lmCall[c] EXCEPT !.confidence = sure]
          IN  IF alike = "same" /\ sure >= LmThreshold
              THEN Proceeds(c, call, IF call.config.selfVerify THEN "verifying" ELSE "done")
              ELSE LET taken == [call EXCEPT !.response = a, !.steps = @ + 1]
                   IN  Proceeds(c, taken, NextStep(taken))
  /\ UNCHANGED <<adapterVars, lmRegistry, lmUsed>>

\* The verification's answer is taken over unless it is short.
SelfVerified(c) ==
  /\ lmCall[c].step = "verifying"
  /\ \E a \in 0 .. LmMaxAnswers : \E alike \in Similarity(lmCall[c].response, a), short \in BOOLEAN :
       /\ a = 0 => short
       /\ EngineAnswers(a)
       /\ Finished(c, [lmCall[c] EXCEPT
            !.confidence = IF alike = "far" THEN @ ELSE LmCapped(@ + 2),
            !.response = IF short THEN @ ELSE a])
  /\ UNCHANGED <<adapterVars, lmRegistry, lmUsed>>

\* The engine rejects: the call does, and what was cached stays.
EngineRejects(c) ==
  /\ lmCall[c].step # "idle"
  /\ lmCall' = [lmCall EXCEPT ![c] = LmIdle]
  /\ UNCHANGED <<adapterVars, lmCached, lmMemory, lmAnswers, lmRegistry, lmUsed>>

-----------------------------------------------------------------------------
(* The registry *)

LmRegistryIs(ids, active) ==
  /\ lmRegistry' = [ids |-> ids, active |-> active]
  /\ UNCHANGED <<adapterVars, lmCached, lmMemory, lmCall, lmAnswers, lmUsed>>

\* registerLlmAdapter: an id in use is refused unless it may be overwritten.
RegisterLlmAdapter(id, makeActive, overwrite) ==
  /\ overwrite \/ id \notin lmRegistry.ids
  /\ LmRegistryIs(lmRegistry.ids \cup {id}, IF makeActive THEN id ELSE lmRegistry.active)

UnregisterLlmAdapter(id) ==
  LmRegistryIs(lmRegistry.ids \ {id}, IF lmRegistry.active = id THEN NoAdapter ELSE lmRegistry.active)

SetActiveLlmAdapter(id) ==
  /\ id \in lmRegistry.ids
  /\ LmRegistryIs(lmRegistry.ids, id)

LmAdapterNext ==
  \/ \E b \in BOOLEAN : SetEngine(b) \/ SetCaptureMode(b)
  \/ SetStatus("error")
  \/ \E config \in LmConfigs : SetTRMConfig(config)
  \/ ClearCapturedRequest \/ ClearMemory \/ Infer
  \/ \E c \in LmCallers :
       \/ \E trm \in BOOLEAN : BeginPrecompute(c, trm, lmConfig)
       \/ Asked(c) \/ Refined(c) \/ SelfVerified(c) \/ EngineRejects(c)

LmRegistryNext ==
  \E id \in LmIds :
    \/ \E m, o \in BOOLEAN : RegisterLlmAdapter(id, m, o)
    \/ UnregisterLlmAdapter(id) \/ SetActiveLlmAdapter(id)

LmNext == LmAdapterNext \/ LmRegistryNext

LmSpec == LmInit /\ [][LmNext]_lmVars

-----------------------------------------------------------------------------
\* Every variable has its type; a TRM call asks the engine at most maxSteps + 1 times, and the active
\* adapter is a registered one.
LmTypeOK ==
  /\ lmEngine \in BOOLEAN
  /\ lmStatus \in {"not_loaded", "ready", "error"}
  /\ lmConfig \in LmConfigs
  /\ lmCached \in 0 .. LmMaxAnswers
  /\ lmMemory \in Seq(LmLengths)
  /\ lmCapture \in [mode : BOOLEAN, request : BOOLEAN]
  /\ \A c \in LmCallers : lmCall[c] # LmIdle =>
       /\ lmCall[c].step \in {"asking", "refining", "verifying"}
       /\ lmCall[c].steps <= lmCall[c].config.maxSteps
       /\ lmCall[c].confidence \in Nat
  /\ lmRegistry.active \in lmRegistry.ids \cup {NoAdapter}

\* No answer of the engine is given to two contracts, although calls overlap, end in any order, are
\* rejected half way and take earlier answers over, and capture mode comes and goes (infer,
\* precompute, precomputeTRM).
AnswersUsedOnce ==
  \A i, j \in DOMAIN lmUsed : lmUsed[i] = lmUsed[j] => i = j
=============================================================================
