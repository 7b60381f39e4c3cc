---------------------------- MODULE MCClaimBridge ----------------------------
(* Two runs for two calls; one call suits both dispatches, the other one.    *)
EXTENDS ClaimBridge, TLC

CONSTANTS r1, r2, c1, c2, k1, k2

MCCallOf == (r1 :> c1) @@ (r2 :> c2)
MCSuits == (c1 :> {k1, k2}) @@ (c2 :> {k1})
=============================================================================
