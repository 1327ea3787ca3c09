---------------------------- MODULE MCSharedCache ----------------------------
(***************************************************************************)
(* Two verifiers with a registry each.  The walk of the first comes back   *)
(* to its first key, as a second hop through the same zone does.           *)
(***************************************************************************)
EXTENDS SharedCache, TLC

CONSTANTS w1, w2, k1, k2, r1, r2

MCPlan == (w1 :> <<k1, k2, k1>>) @@ (w2 :> <<k2, k1>>)

MCRegistryOf == (w1 :> r1) @@ (w2 :> r2)
=============================================================================
