------------------------------ MODULE RiskTier ------------------------------
(***************************************************************************)
(* The risk tiers of core/primitives/policy.py, in their order.            *)
(***************************************************************************)
EXTENDS Naturals

R0 == 0  \* read-only
R1 == 1  \* reversible
R2 == 2  \* operational: approval
R3 == 3  \* high impact: approval, never remembered
R4 == 4  \* destructive: denied

Tiers == R0..R4

AtLeast(t, floor) == IF t < floor THEN floor ELSE t
AtMost(t, ceiling) == IF t > ceiling THEN ceiling ELSE t

\* policy.bump: one tier up, saturating at R4.
Bump(t) == AtMost(t + 1, R4)
=============================================================================
