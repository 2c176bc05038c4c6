------------------------------- MODULE Policy -------------------------------
(***************************************************************************)
(* The policy decision of core/policy.py decide(), and the tightening by a *)
(* pre_tool hook in core/tools.py invoke().                                *)
(*                                                                         *)
(* A call is a record of what the decision looks at:                       *)
(*   tier      the ToolSpec's risk for these arguments                     *)
(*   readOnly  the ToolSpec's read_only flag                               *)
(*   blocked   hard_deny(args) gave a reason                               *)
(*   matched   the effects ("deny", "ask", "allow") that some rule of the  *)
(*             run, matching the tool name and the argument text, has.     *)
(* Which rule of one effect matches first changes the reason text only, so *)
(* the set of effects stands for the rule list.                            *)
(***************************************************************************)
EXTENDS RiskTier

Modes == {"default", "plan", "read-only", "strict"}
ReadOnlyModes == {"plan", "read-only"}
Effects == {"deny", "ask", "allow"}
CallInfo == [tier : Tiers, readOnly : BOOLEAN, blocked : BOOLEAN, matched : SUBSET Effects]

Decision(verdict, tier, by) == [verdict |-> verdict, tier |-> tier, by |-> by]
Deny(tier) == Decision("DENY", tier, "none")
Ask(tier) == Decision("REQUIRE_APPROVAL", tier, "none")
Allow(tier, by) == Decision("ALLOW", tier, by)

\* The tier after taint: a mutating call is one tier up, R3 at most.
Effective(call, tainted) ==
  IF tainted /\ ~call.readOnly THEN AtMost(Bump(call.tier), R3) ELSE call.tier

\* What is refused before anything can allow it.
HardDenied(call, mode) ==
  \/ call.blocked
  \/ "deny" \in call.matched
  \/ call.tier = R4
  \/ mode \in ReadOnlyModes /\ ~call.readOnly

DeniedTier(call) == IF call.blocked THEN R4 ELSE call.tier

\* An approval given before (in this run, or remembered) for the same arguments
\* covers R2; an allow rule covers R2 in an untainted run.  Strict mode hears neither.
Remembered(eff, preApproved, mode) == preApproved /\ eff = R2 /\ mode # "strict"
RuleAllows(call, eff, tainted, mode) ==
  "allow" \in call.matched /\ eff = R2 /\ ~tainted /\ mode # "strict"

Decide(call, tainted, preApproved, mode) ==
  LET eff == Effective(call, tainted) IN
  CASE HardDenied(call, mode) -> Deny(DeniedTier(call))
    [] ~HardDenied(call, mode) /\ "ask" \in call.matched -> Ask(AtLeast(eff, R2))
    [] OTHER ->
         IF eff \in {R2, R3}
         THEN IF Remembered(eff, preApproved, mode) THEN Allow(eff, "remembered")
              ELSE IF RuleAllows(call, eff, tainted, mode) THEN Allow(eff, "rule")
              ELSE Ask(eff)
         ELSE IF mode = "strict" /\ ~call.readOnly THEN Ask(eff) ELSE Allow(eff, "policy")

\* A pre_tool hook may only tighten: "ask" turns an ALLOW into a question.
Tighten(d, hook) ==
  CASE hook = "deny" -> Deny(d.tier)
    [] hook = "ask" /\ d.verdict = "ALLOW" -> Ask(AtLeast(d.tier, R2))
    [] OTHER -> d
=============================================================================
