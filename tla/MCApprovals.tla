---------------------------- MODULE MCApprovals ----------------------------
(* Two requests for the same key, one at R2 and one raised to R3 by taint,   *)
(* and a third that reuses the fixed id of the first; two approvers on the   *)
(* allowlist, one in an API thread and one on the event loop, so that their  *)
(* answers race, and one who is not on it.                                   *)
EXTENDS Approvals, TLC

CONSTANTS r1, r2, r3, i1, i2, k1, alice, bob, mallory

MCRequests == {r1, r2, r3}
MCIds == {i1, i2}
MCKeys == {k1}
MCApprovers == {alice, bob, mallory}
MCThreads == {alice}
MCAuthorized == {alice, bob}
MCIdOf == r1 :> i1 @@ r2 :> i2 @@ r3 :> i1
MCKeyOf == r1 :> k1 @@ r2 :> k1 @@ r3 :> k1
MCTierOf == r1 :> R2 @@ r2 :> R3 @@ r3 :> R2
=============================================================================
