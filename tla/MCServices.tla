------------------------------ MODULE MCServices ------------------------------
(***************************************************************************)
(* The components around the chain, each with its own next-state relation. *)
(* They share no state: one of them moves in a behaviour, chosen at its    *)
(* start (the LLM adapter and its registry count as two), and the others   *)
(* stay in their first state.                                              *)
(***************************************************************************)
EXTENDS Idb, Session, Host, Did, Snapshot, LightClient, HeaderSync, AutoSync, Forum, Llm,
        RateLimit, TLC

CONSTANTS did1, key1

VARIABLE component

Numbers == {-1, 1}
GenesisDids == did1 :> key1
Entry1(k, v) == [key |-> k, value |-> v]
States == <<<<Entry1(2, "a"), Entry1(1, "b"), Entry1(3, "c")>>,
            <<Entry1(2, "a"), Entry1(1, "d"), Entry1(3, "c")>>,
            <<Entry1(2, "a"), Entry1(1, "d")>>>>
Interchangeable == Permutations(IdbConns) \cup Permutations(SsCallers)

ServicesInit ==
  /\ component \in {"idb", "session", "host", "did", "snapshot", "light_client", "header_sync",
                    "auto_sync", "forum", "llm", "registry", "rate_limit"}
  /\ IdbInit /\ SsInit /\ HsInit /\ DidInit /\ SnInit /\ LcInit /\ HdInit /\ AsInit
  /\ FmInit /\ LmInit /\ RlInit
  /\ component # "idb" => idbDisk.schema
  /\ component # "snapshot" => snHeader = 1
  /\ component # "session" => ssStored = NoSession

ServicesNext ==
  \/ /\ component = "idb" /\ IdbNext
     /\ UNCHANGED <<component, ssVars, hsVars, didVars, snVars, lcVars, hdVars, asVars, fmVars, lmVars, rlVars>>
  \/ /\ component = "session" /\ SsNext
     /\ UNCHANGED <<component, idbVars, hsVars, didVars, snVars, lcVars, hdVars, asVars, fmVars, lmVars, rlVars>>
  \/ /\ component = "host" /\ HsNext
     /\ UNCHANGED <<component, idbVars, ssVars, didVars, snVars, lcVars, hdVars, asVars, fmVars, lmVars, rlVars>>
  \/ /\ component = "did" /\ DidNext
     /\ UNCHANGED <<component, idbVars, ssVars, hsVars, snVars, lcVars, hdVars, asVars, fmVars, lmVars, rlVars>>
  \/ /\ component = "snapshot" /\ SnNext
     /\ UNCHANGED <<component, idbVars, ssVars, hsVars, didVars, lcVars, hdVars, asVars, fmVars, lmVars, rlVars>>
  \/ /\ component = "light_client" /\ LcNext
     /\ UNCHANGED <<component, idbVars, ssVars, hsVars, didVars, snVars, hdVars, asVars, fmVars, lmVars, rlVars>>
  \/ /\ component = "header_sync" /\ HdNext
     /\ UNCHANGED <<component, idbVars, ssVars, hsVars, didVars, snVars, lcVars, asVars, fmVars, lmVars, rlVars>>
  \/ /\ component = "auto_sync" /\ AsNext
     /\ UNCHANGED <<component, idbVars, ssVars, hsVars, didVars, snVars, lcVars, hdVars, fmVars, lmVars, rlVars>>
  \/ /\ component = "forum" /\ FmNext
     /\ UNCHANGED <<component, idbVars, ssVars, hsVars, didVars, snVars, lcVars, hdVars, asVars, lmVars, rlVars>>
  \/ /\ component = "llm" /\ LmAdapterNext
     /\ UNCHANGED <<component, idbVars, ssVars, hsVars, didVars, snVars, lcVars, hdVars, asVars, fmVars, rlVars>>
  \/ /\ component = "registry" /\ LmRegistryNext
     /\ UNCHANGED <<component, idbVars, ssVars, hsVars, didVars, snVars, lcVars, hdVars, asVars, fmVars, rlVars>>
  \/ /\ component = "rate_limit" /\ RlNext
     /\ UNCHANGED <<component, idbVars, ssVars, hsVars, didVars, snVars, lcVars, hdVars, asVars, fmVars, lmVars>>

ServicesSpec == ServicesInit /\ [][ServicesNext]_<<component, idbVars, ssVars, hsVars, didVars, snVars, lcVars, hdVars, asVars, fmVars, lmVars, rlVars>>

\* The type invariant of the component that moves; every other is in its first state.
ServicesTypeOK ==
  /\ component = "idb" => IdbTypeOK
  /\ component = "session" => SsTypeOK
  /\ component = "host" => HsTypeOK
  /\ component = "did" => DidTypeOK
  /\ component = "snapshot" => SnTypeOK
  /\ component = "light_client" => LcTypeOK
  /\ component = "header_sync" => HdTypeOK
  /\ component = "auto_sync" => AsTypeOK
  /\ component = "forum" => FmTypeOK
  /\ component \in {"llm", "registry"} => LmTypeOK
  /\ component = "rate_limit" => RlTypeOK
=============================================================================
