----------------------------- MODULE MCVfsBridge -----------------------------
(* VfsBridge for TLC: an instance with two requests on one connection and    *)
(* one request on a connection of its own, and a smaller one with only the   *)
(* two requests that share their connection.                                 *)
EXTENDS VfsBridge, TLC

CONSTANTS r1, r2, r3, d1, d2, v1, v2

MCReqs == {r1, r2, r3}
MCConnOf == r1 :> d1 @@ r2 :> d1 @@ r3 :> d2
MCVfsOf == d1 :> v1 @@ d2 :> v2

MCPair == {r1, r2}
MCPairConnOf == r1 :> d1 @@ r2 :> d1
MCPairVfsOf == d1 :> v1
=============================================================================
