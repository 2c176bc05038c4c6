-------------------------- MODULE ApprovalContract --------------------------
(***************************************************************************)
(* What the approval broker promises to the code that asks (core/tools.py  *)
(* invoke, core/modes.py exit_plan_mode, skill promotion): a request that  *)
(* was opened is closed at most once; it is closed "approved" or "denied"  *)
(* only with the name of an approver on the allowlist; an R3 approval is   *)
(* for this call only; and a key is remembered for later calls exactly     *)
(* when an approval of scope "always" below R3 said so.  Every other way   *)
(* out (timeout, cancellation, storage failure) is not an approval.        *)
(***************************************************************************)
EXTENDS RiskTier

CONSTANTS Requests,    \* calls of ApprovalBroker.request
          Keys,        \* (tool, sha256 of the arguments) pairs
          Authorized,  \* the approvers the allowlist accepts
          Nobody,      \* decided_by when no approver decided
          NoKey        \* the key of a request that was not made yet

VARIABLES asked,       \* what each request asks leave for: a key at a tier
          decision,    \* what request() returned or raised, per request
          remembered   \* the approval_rules table

vars == <<asked, decision, remembered>>

Scopes == {"once", "session", "always"}

Question(k, t) == [key |-> k, tier |-> t]
NoQuestion == Question(NoKey, R0)

Verdict(status, by, scope) == [status |-> status, by |-> by, scope |-> scope]
Idle == Verdict("idle", Nobody, "once")
Open == Verdict("open", Nobody, "once")

\* Ways a request ends without any approver having decided it.
Unanswered == {Verdict(s, Nobody, "once") : s \in {"timed_out", "cancelled", "error"}}

Init ==
  /\ asked = [r \in Requests |-> NoQuestion]
  /\ decision = [r \in Requests |-> Idle]
  /\ remembered = {}

\* request() has stored its row, or failed to (a duplicate id, a locked database).
Begin(r, k, t) ==
  /\ decision[r] = Idle
  /\ asked' = [asked EXCEPT ![r] = Question(k, t)]
  /\ decision' = [decision EXCEPT ![r] = Open]
  /\ UNCHANGED remembered

Refuse(r, k, t) ==
  /\ decision[r] = Idle
  /\ asked' = [asked EXCEPT ![r] = Question(k, t)]
  /\ decision' = [decision EXCEPT ![r] = Verdict("error", Nobody, "once")]
  /\ UNCHANGED remembered

Deny(r, a, scope) ==
  /\ decision[r] = Open
  /\ decision' = [decision EXCEPT ![r] = Verdict("denied", a, scope)]
  /\ UNCHANGED <<asked, remembered>>

Approve(r, a, scope) ==
  /\ decision[r] = Open
  /\ asked[r].tier = R3 => scope = "once"
  /\ decision' = [decision EXCEPT ![r] = Verdict("approved", a, scope)]
  /\ remembered' = IF scope = "always" THEN remembered \union {asked[r].key} ELSE remembered
  /\ UNCHANGED asked

GiveUp(r) ==
  /\ decision[r] = Open
  /\ \E v \in Unanswered : decision' = [decision EXCEPT ![r] = v]
  /\ UNCHANGED <<asked, remembered>>

\* The broker's own steps: whatever ends an open request.
Settle(r) ==
  \/ GiveUp(r)
  \/ \E a \in Authorized, scope \in Scopes : Deny(r, a, scope) \/ Approve(r, a, scope)

Next ==
  \E r \in Requests :
    \/ \E k \in Keys, t \in Tiers : Begin(r, k, t) \/ Refuse(r, k, t)
    \/ Settle(r)

Spec == Init /\ [][Next]_vars
=============================================================================
