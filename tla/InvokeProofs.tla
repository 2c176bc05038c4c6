---------------------------- MODULE InvokeProofs ----------------------------
(***************************************************************************)
(* Proofs about Policy, for every call, rule set, taint, earlier approval  *)
(* and permission mode, and about Invoke, the invocation of tools and the  *)
(* scheduler of a turn (core/loop.py _execute_calls), for any runs, turns  *)
(* of any length, tools, hooks and answers of the broker.                  *)
(***************************************************************************)
EXTENDS Invoke, Recursion
----------------------------------------------------------------------------
(* The policy decision. *)

\* How strict a verdict is.
Strictness(d) ==
  CASE d.verdict = "ALLOW" -> 0
    [] d.verdict = "REQUIRE_APPROVAL" -> 1
    [] OTHER -> 2

\* What a decision is, read off case by case, for any record with the fields of CallInfo.
LEMMA AnyCases ==
  ASSUME NEW call, NEW taint \in BOOLEAN, NEW pre \in BOOLEAN, NEW runMode \in Modes
  PROVE  LET d == Decide(call, taint, pre, runMode)
             eff == Effective(call, taint)
         IN /\ HardDenied(call, runMode) => d.verdict = "DENY"
            /\ ~HardDenied(call, runMode) /\ "ask" \in call.matched => d.verdict = "REQUIRE_APPROVAL"
            /\ ~HardDenied(call, runMode) /\ "ask" \notin call.matched =>
                 d.verdict = IF \/ eff \in {R2, R3} /\ ~Remembered(eff, pre, runMode)
                                                    /\ ~RuleAllows(call, eff, taint, runMode)
                                \/ eff \notin {R2, R3} /\ runMode = "strict" /\ ~call.readOnly
                             THEN "REQUIRE_APPROVAL" ELSE "ALLOW"
<1> DEFINE d == Decide(call, taint, pre, runMode)
           eff == Effective(call, taint)
<1>1. CASE HardDenied(call, runMode)
  BY <1>1 DEF Decide, Deny, Decision
<1>2. CASE ~HardDenied(call, runMode) /\ "ask" \in call.matched
  BY <1>2 DEF Decide, Ask, Decision
<1>3. CASE ~HardDenied(call, runMode) /\ "ask" \notin call.matched
  <2>1. d = IF eff \in {R2, R3}
            THEN IF Remembered(eff, pre, runMode) THEN Allow(eff, "remembered")
                 ELSE IF RuleAllows(call, eff, taint, runMode) THEN Allow(eff, "rule")
                 ELSE Ask(eff)
            ELSE IF runMode = "strict" /\ ~call.readOnly THEN Ask(eff) ELSE Allow(eff, "policy")
    BY <1>3 DEF Decide
  <2>2. QED BY <1>3, <2>1 DEF Allow, Ask, Decision
<1>4. QED BY <1>1, <1>2, <1>3

\* The same for the calls of CallInfo.
LEMMA Cases ==
  ASSUME NEW call \in CallInfo, NEW taint \in BOOLEAN, NEW pre \in BOOLEAN, NEW runMode \in Modes
  PROVE  LET d == Decide(call, taint, pre, runMode)
             eff == Effective(call, taint)
         IN /\ HardDenied(call, runMode) => d.verdict = "DENY"
            /\ ~HardDenied(call, runMode) /\ "ask" \in call.matched => d.verdict = "REQUIRE_APPROVAL"
            /\ ~HardDenied(call, runMode) /\ "ask" \notin call.matched =>
                 d.verdict = IF \/ eff \in {R2, R3} /\ ~Remembered(eff, pre, runMode)
                                                    /\ ~RuleAllows(call, eff, taint, runMode)
                                \/ eff \notin {R2, R3} /\ runMode = "strict" /\ ~call.readOnly
                             THEN "REQUIRE_APPROVAL" ELSE "ALLOW"
BY AnyCases

\* The tier that is asked about is no lower than the call's, and what runs unasked at R2 or
\* above has an earlier approval or a rule.
LEMMA LetThrough ==
  ASSUME NEW call, call.tier \in Tiers, NEW taint \in BOOLEAN, NEW pre \in BOOLEAN, NEW runMode \in Modes,
         NEW hook
  PROVE  LET d == Tighten(Decide(call, taint, pre, runMode), hook)
             eff == Effective(call, taint)
         IN /\ d.verdict # "DENY" => ~HardDenied(call, runMode)
            /\ d.verdict = "ALLOW" /\ eff \in {R2, R3} =>
                 Remembered(eff, pre, runMode) \/ RuleAllows(call, eff, taint, runMode)
            /\ d.verdict = "REQUIRE_APPROVAL" => d.tier >= eff /\ d.tier \in Tiers
<1> DEFINE u == Decide(call, taint, pre, runMode)
           d == Tighten(u, hook)
           eff == Effective(call, taint)
<1>0. /\ HardDenied(call, runMode) => u.verdict = "DENY"
      /\ ~HardDenied(call, runMode) /\ "ask" \in call.matched => u.verdict = "REQUIRE_APPROVAL"
      /\ ~HardDenied(call, runMode) /\ "ask" \notin call.matched =>
           u.verdict = IF \/ eff \in {R2, R3} /\ ~Remembered(eff, pre, runMode)
                                              /\ ~RuleAllows(call, eff, taint, runMode)
                          \/ eff \notin {R2, R3} /\ runMode = "strict" /\ ~call.readOnly
                       THEN "REQUIRE_APPROVAL" ELSE "ALLOW"
  BY AnyCases
<1>1. call.tier \in 0..4 /\ eff \in 0..4
  BY DEF Effective, Bump, AtMost, Tiers, R0, R3, R4
<1>2. u.verdict # "DENY" => u.tier \in 0..4 /\ u.tier >= eff
  <2>1. CASE HardDenied(call, runMode)
    BY <1>0, <2>1
  <2>2. CASE ~HardDenied(call, runMode) /\ "ask" \in call.matched
    <3>1. u = Ask(AtLeast(eff, R2))
      BY <2>2 DEF Decide
    <3> QED
      BY <1>1, <3>1 DEF Ask, Decision, AtLeast, R2
  <2>3. CASE ~HardDenied(call, runMode) /\ "ask" \notin call.matched
    <3>1. u \in {Allow(eff, "remembered"), Allow(eff, "rule"), Allow(eff, "policy"), Ask(eff)}
      BY <2>3 DEF Decide
    <3> QED
      BY <1>1, <3>1 DEF Ask, Allow, Decision
  <2> QED
    BY <2>1, <2>2, <2>3
<1>3. \/ hook # "deny" /\ d = u
      \/ d.verdict = "DENY"
      \/ u.verdict = "ALLOW" /\ d = Ask(AtLeast(u.tier, R2))
  BY DEF Tighten, Deny, Decision
<1>4. d.verdict # "DENY" => u.verdict # "DENY"
  BY <1>3
<1>5. d.verdict = "REQUIRE_APPROVAL" => d.tier >= eff /\ d.tier \in 0..4
  <2>1. CASE d = u
    BY <1>2, <2>1
  <2>2. CASE u.verdict = "ALLOW" /\ d = Ask(AtLeast(u.tier, R2))
    <3>1. d.tier = AtLeast(u.tier, R2) /\ u.tier \in 0..4 /\ u.tier >= eff
      BY <1>2, <2>2 DEF Ask, Decision
    <3> HIDE DEF u, d, eff
    <3> QED
      BY <1>1, <3>1 DEF AtLeast, R2
  <2> QED
    BY <1>3, <2>1, <2>2
<1>6. d.verdict = "ALLOW" => u.verdict = "ALLOW"
  BY <1>3 DEF Ask, Decision
<1>7. d.verdict # "DENY" => ~HardDenied(call, runMode)
  BY <1>0, <1>4
<1>8. d.verdict = "ALLOW" /\ eff \in {R2, R3} =>
        Remembered(eff, pre, runMode) \/ RuleAllows(call, eff, taint, runMode)
  BY <1>0, <1>6, <1>7
<1>9. Tiers = 0..4
  BY DEF Tiers, R0, R4
<1> QED
  BY <1>5, <1>7, <1>8, <1>9

\* "R4 stays denied" (core/modes.py), and so does a blocked command, whatever the rules,
\* the mode, the approvals given before, and the hooks.
THEOREM DestructiveDenied ==
  ASSUME NEW call \in CallInfo, NEW taint \in BOOLEAN, NEW pre \in BOOLEAN, NEW runMode \in Modes,
         NEW hook, call.tier = R4 \/ call.blocked
  PROVE  Tighten(Decide(call, taint, pre, runMode), hook).verdict = "DENY"
<1>1. Decide(call, taint, pre, runMode).verdict = "DENY"
  BY Cases DEF HardDenied
<1>2. QED BY <1>1 DEF Tighten, Deny, Decision

\* "R3 always asks" (core/modes.py): no rule, remembered approval or mode lets a call
\* whose tier is R3 after taint run unasked.
THEOREM HighImpactAsks ==
  ASSUME NEW call \in CallInfo, NEW taint \in BOOLEAN, NEW pre \in BOOLEAN, NEW runMode \in Modes,
         Effective(call, taint) = R3
  PROVE  Decide(call, taint, pre, runMode).verdict # "ALLOW"
<1>1. ~Remembered(R3, pre, runMode) /\ ~RuleAllows(call, R3, taint, runMode)
  BY DEF Remembered, RuleAllows, R2, R3
<1>2. QED BY <1>1, Cases

\* In a read-only mode no mutating call gets past the policy.
THEOREM ReadOnlyModesHold ==
  ASSUME NEW call \in CallInfo, NEW taint \in BOOLEAN, NEW pre \in BOOLEAN, NEW runMode \in ReadOnlyModes,
         ~call.readOnly
  PROVE  Decide(call, taint, pre, runMode).verdict = "DENY"
BY Cases DEF HardDenied, Modes, ReadOnlyModes

\* Taint is never to a caller's advantage: what it changes it makes stricter.
THEOREM TaintTightens ==
  ASSUME NEW call \in CallInfo, NEW pre \in BOOLEAN, NEW runMode \in Modes
  PROVE  Strictness(Decide(call, TRUE, pre, runMode)) >= Strictness(Decide(call, FALSE, pre, runMode))
<1> DEFINE t == Decide(call, TRUE, pre, runMode)
           u == Decide(call, FALSE, pre, runMode)
<1>1. call.tier \in 0..4
  BY DEF CallInfo, Tiers, R0, R4
<1>2. Effective(call, FALSE) = call.tier
  BY DEF Effective
<1>3. /\ call.readOnly => Effective(call, TRUE) = call.tier
      /\ ~call.readOnly => Effective(call, TRUE) = IF call.tier >= 2 THEN 3 ELSE call.tier + 1
  BY <1>1 DEF Effective, Bump, AtMost, R3, R4
<1>4. t.verdict = u.verdict \/ t.verdict = "DENY" \/ u.verdict = "ALLOW"
  <2>1. ~RuleAllows(call, Effective(call, TRUE), TRUE, runMode)
    BY DEF RuleAllows
  <2>2. CASE HardDenied(call, runMode) \/ "ask" \in call.matched
    BY <2>2, Cases
  <2>3. CASE ~HardDenied(call, runMode) /\ "ask" \notin call.matched /\ t.verdict = "ALLOW"
    <3> DEFINE e == Effective(call, TRUE)
    <3>1. \/ pre /\ e = 2 /\ runMode # "strict"
          \/ e \notin {2, 3} /\ (runMode # "strict" \/ call.readOnly)
      BY <2>1, <2>3, Cases DEF Remembered, R2, R3
    <3>2. \/ pre /\ call.tier = 2 /\ runMode # "strict"
          \/ call.tier \notin {2, 3} /\ (runMode # "strict" \/ call.readOnly)
      <4>1. \/ call.readOnly /\ e = call.tier
            \/ ~call.readOnly /\ e = (IF call.tier >= 2 THEN 3 ELSE call.tier + 1)
        BY <1>3
      <4> HIDE DEF e
      <4>2. QED BY <1>1, <3>1, <4>1
    <3>3. u.verdict = IF \/ call.tier \in {R2, R3} /\ ~Remembered(call.tier, pre, runMode)
                                                  /\ ~RuleAllows(call, call.tier, FALSE, runMode)
                         \/ call.tier \notin {R2, R3} /\ runMode = "strict" /\ ~call.readOnly
                      THEN "REQUIRE_APPROVAL" ELSE "ALLOW"
      <4> DEFINE eff == Effective(call, FALSE)
      <4> HIDE DEF t
      <4>1. u.verdict = IF \/ eff \in {R2, R3} /\ ~Remembered(eff, pre, runMode)
                                             /\ ~RuleAllows(call, eff, FALSE, runMode)
                           \/ eff \notin {R2, R3} /\ runMode = "strict" /\ ~call.readOnly
                        THEN "REQUIRE_APPROVAL" ELSE "ALLOW"
        BY <2>3, Cases
      <4> HIDE DEF u, eff
      <4>2. eff = call.tier
        BY <1>2 DEF eff
      <4>3. QED BY <4>1, <4>2
    <3> HIDE DEF u
    <3>4. QED BY <3>2, <3>3 DEF Remembered, R2, R3
  <2>4. CASE ~HardDenied(call, runMode) /\ "ask" \notin call.matched /\ t.verdict = "REQUIRE_APPROVAL"
    BY <2>4, Cases
  <2>5. t.verdict \in {"ALLOW", "REQUIRE_APPROVAL", "DENY"}
    BY Cases
  <2>6. QED BY <2>2, <2>3, <2>4, <2>5
<1>5. /\ t.verdict \in {"ALLOW", "REQUIRE_APPROVAL", "DENY"}
      /\ u.verdict \in {"ALLOW", "REQUIRE_APPROVAL", "DENY"}
  BY Cases
<1> HIDE DEF t, u
<1>6. Strictness(t) >= Strictness(u)
  BY <1>4, <1>5 DEF Strictness
<1>7. QED BY <1>6 DEF t, u

\* No permission mode is looser than "default" ("there is deliberately no bypass mode").
THEOREM ModesTighten ==
  ASSUME NEW call \in CallInfo, NEW taint \in BOOLEAN, NEW pre \in BOOLEAN, NEW runMode \in Modes
  PROVE  Strictness(Decide(call, taint, pre, runMode)) >=
         Strictness(Decide(call, taint, pre, "default"))
<1> DEFINE m == Decide(call, taint, pre, runMode)
           u == Decide(call, taint, pre, "default")
           eff == Effective(call, taint)
<1>1. "default" \in Modes
  BY DEF Modes
<1>2. /\ HardDenied(call, "default") => HardDenied(call, runMode)
      /\ Remembered(eff, pre, runMode) => Remembered(eff, pre, "default")
      /\ RuleAllows(call, eff, taint, runMode) => RuleAllows(call, eff, taint, "default")
  BY DEF HardDenied, Remembered, RuleAllows, ReadOnlyModes
<1>3. m.verdict = u.verdict \/ m.verdict = "DENY" \/ u.verdict = "ALLOW"
  BY <1>1, <1>2, Cases
<1>4. /\ m.verdict \in {"ALLOW", "REQUIRE_APPROVAL", "DENY"}
      /\ u.verdict \in {"ALLOW", "REQUIRE_APPROVAL", "DENY"}
  BY <1>1, Cases
<1> HIDE DEF m, u
<1>5. Strictness(m) >= Strictness(u)
  BY <1>3, <1>4 DEF Strictness
<1>6. QED BY <1>5 DEF m, u

\* "Hooks may tighten a decision but never loosen" (core/policy.py).
THEOREM HooksTighten ==
  ASSUME NEW d, d.verdict \in {"ALLOW", "REQUIRE_APPROVAL", "DENY"}, NEW hook
  PROVE  Strictness(Tighten(d, hook)) >= Strictness(d)
<1>1. \/ Tighten(d, hook) = d
      \/ Tighten(d, hook).verdict = "DENY"
      \/ d.verdict = "ALLOW" /\ Tighten(d, hook).verdict = "REQUIRE_APPROVAL"
  BY DEF Tighten, Deny, Ask, Decision
<1>2. QED BY <1>1 DEF Strictness
----------------------------------------------------------------------------
(* The scheduler: which calls of a turn are under way together. *)

Places == {"queued"} \union Active \union Final

\* Calls are started from the front of the turn, and only calls the model asked for.
StartedInOrder ==
  \A c \in Calls : pc[c] # "queued" =>
    /\ Asked(c)
    /\ \A d \in Calls : Run(d) = Run(c) /\ d[2] < c[2] => pc[d] # "queued"

\* A call that may not run beside others is under way alone, and after all that came before it.
SerialAlone ==
  \A c \in Calls :
    pc[c] \in Active /\ ~Parallel(Run(c), c[2]) =>
      /\ \A d \in Calls : d # c /\ Run(d) = Run(c) => pc[d] \notin Active
      /\ \A d \in Calls : Run(d) = Run(c) /\ d[2] < c[2] => pc[d] \in Final

ScheduleInv == turn \in Turns /\ pc \in [Calls -> Places] /\ StartedInOrder /\ SerialAlone

\* A call is a run and a place in its turn; a turn's places are those of calls.
LEMMA CallPlaces ==
  /\ \A c \in Calls : Run(c) \in Runs /\ c[2] \in Nat \ {0} /\ c = <<Run(c), c[2]>>
  /\ \A t \in Turns, r \in Runs : \A i \in DOMAIN t[r] : <<r, i>> \in Calls /\ i \in Nat \ {0}
<1>1. ASSUME NEW t \in Turns, NEW r \in Runs PROVE t[r] \in Seq(Keys)
  BY InvokeAssumption
<1>2. ASSUME NEW t \in Turns, NEW r \in Runs PROVE DOMAIN t[r] = 1..Len(t[r]) /\ Len(t[r]) \in Nat
  BY <1>1
<1>3. ASSUME NEW c \in Calls PROVE Run(c) \in Runs /\ c[2] \in Nat \ {0} /\ c = <<Run(c), c[2]>>
  <2>1. PICK t \in Turns, r \in Runs : c \in {r} \X (1..Len(t[r]))
    BY DEF Calls
  <2> QED
    BY <2>1, <1>2 DEF Run
<1>4. ASSUME NEW t \in Turns, NEW r \in Runs, NEW i \in DOMAIN t[r] PROVE <<r, i>> \in Calls /\ i \in Nat \ {0}
  <2>1. <<r, i>> \in {r} \X (1..Len(t[r])) /\ i \in Nat \ {0}
    BY <1>2
  <2> QED
    BY <2>1 DEF Calls
<1> QED
  BY <1>3, <1>4

\* What a started call does keeps the order: it is under way and goes on, or ends.
LEMMA GoesOn ==
  ASSUME ScheduleInv, NEW c \in Calls, NEW place \in Active \union Final,
         pc[c] \in Active, Goto(c, place), UNCHANGED turn
  PROVE  ScheduleInv'
<1>1. /\ pc' \in [Calls -> Places] /\ pc'[c] = place /\ \A d \in Calls : d # c => pc'[d] = pc[d]
  BY DEF ScheduleInv, Goto, Places
<1>2. /\ \A d \in Calls : /\ pc'[d] \in Active => pc[d] \in Active
                          /\ pc[d] \in Final => pc'[d] \in Final
                          /\ pc'[d] = "queued" <=> pc[d] = "queued"
  BY <1>1 DEF Active, Final
<1>3. StartedInOrder'
  BY <1>2 DEF ScheduleInv, StartedInOrder, Asked
<1>4. SerialAlone'
  BY <1>2 DEF ScheduleInv, SerialAlone, Parallel
<1> QED
  BY <1>1, <1>3, <1>4 DEF ScheduleInv

\* Every step of a call is of that kind.
LEMMA CallStepGoesOn ==
  ASSUME NEW c \in Calls, CallStep(c)
  PROVE  pc[c] \in Active /\ UNCHANGED turn /\ \E place \in Active \union Final : Goto(c, place)
<1>1. ASSUME NEW k \in Keys, NEW hook \in {"none", "ask", "deny"}, Hooked(c, k, hook)
      PROVE  /\ pc[c] = "hooking" /\ UNCHANGED turn
             /\ \E place \in {"refused", "denied", "running", "asking", "raised"} : Goto(c, place)
  BY <1>1 DEF Hooked, Raise, runVars
<1>2. CASE Approved(c) \/ NotApproved(c) \/ AskRaised(c)
  BY <1>2 DEF Approved, NotApproved, AskRaised, Raise, Active, Final, runVars
<1>3. CASE (\E failed \in BOOLEAN : HandlerReturns(c, failed)) \/ AskPlan(c)
  BY <1>3 DEF HandlerReturns, AskPlan, Active, runVars
<1>4. CASE PlanAnswered(c) \/ PlanCancelled(c) \/ Posted(c)
  BY <1>4 DEF PlanAnswered, PlanCancelled, Posted, Raise, Active, Final, runVars
<1> QED
  BY <1>1, <1>2, <1>3, <1>4 DEF CallStep, Active, Final

\* The calls of a group are those from its first on, without a gap, and none that may not run
\* beside others is in a group with another.
LEMMA GroupShape ==
  ASSUME turn \in Turns, NEW r \in Runs, NEW i \in DOMAIN turn[r]
  PROVE  /\ i \in Group(r, i) /\ Group(r, i) \subseteq DOMAIN turn[r]
         /\ \A j \in Group(r, i) : j >= i /\ i..j \subseteq Group(r, i)
         /\ \A j \in Group(r, i) : ~Parallel(r, j) => Group(r, i) = {i} /\ j = i
<1>1. turn[r] \in Seq(Keys) /\ DOMAIN turn[r] = 1..Len(turn[r]) /\ Len(turn[r]) \in Nat /\ i \in Nat \ {0}
  BY InvokeAssumption
<1>2. ASSUME NEW j \in Group(r, i) PROVE j >= i /\ i..j \subseteq Group(r, i) /\ j \in DOMAIN turn[r]
  BY <1>1 DEF Group
<1>3. ASSUME NEW j \in Group(r, i), ~Parallel(r, j) PROVE Group(r, i) = {i} /\ j = i
  <2>1. \A k \in Group(r, i) : k # i => Parallel(r, k) /\ Parallel(r, i)
    BY <1>1 DEF Group
  <2> QED
    BY <1>3, <2>1 DEF Group
<1> QED
  BY <1>2, <1>3 DEF Group

LEMMA GroupStarts ==
  ASSUME ScheduleInv, NEW r \in Runs, StartGroup(r)
  PROVE  ScheduleInv'
<1>0. UNCHANGED turn /\ turn \in Turns
  BY DEF StartGroup, runVars, ScheduleInv
<1>1. PICK i \in DOMAIN turn[r] :
        /\ pc[<<r, i>>] = "queued"
        /\ \A j \in 1..(i - 1) : pc[<<r, j>>] \in Final
        /\ pc' = [c \in Calls |->
                    IF c[1] # r \/ c[2] \notin Group(r, i) THEN pc[c]
                    ELSE IF Info[key[c]].usable THEN "hooking" ELSE "refused"]
  BY DEF StartGroup
<1> DEFINE started == {c \in Calls : Run(c) = r /\ c[2] \in Group(r, i)}
<1>2. <<r, i>> \in Calls /\ i \in Nat \ {0}
  BY <1>0, CallPlaces
<1>3. /\ \A c \in started : pc'[c] \in {"hooking", "refused"}
      /\ \A c \in Calls \ started : pc'[c] = pc[c]
      /\ pc' \in [Calls -> Places]
  BY <1>1 DEF Run, ScheduleInv, Places, Active, Final
\* Before the group everything has ended, after it nothing has begun.
<1>4. \A d \in Calls : Run(d) = r /\ d[2] < i => pc[d] \in Final
  BY <1>1, <1>2, CallPlaces
<1>5. \A d \in Calls : Run(d) = r /\ d[2] >= i => pc[d] = "queued"
  <2> SUFFICES ASSUME NEW d \in Calls, Run(d) = r, d[2] >= i, pc[d] # "queued" PROVE FALSE
    OBVIOUS
  <2>1. Run(<<r, i>>) = r /\ <<r, i>>[2] = i
    BY DEF Run
  <2>2. d = <<r, d[2]>> /\ d[2] \in Nat
    BY CallPlaces
  <2>3. d[2] # i
    BY <1>1, <2>2
  <2> QED
    BY <1>1, <1>2, <2>1, <2>2, <2>3 DEF ScheduleInv, StartedInOrder
<1>6. /\ \A c \in started : c[2] >= i /\ c[2] \in DOMAIN turn[r]
      /\ \A c \in started : \A d \in Calls : Run(d) = r /\ d[2] < c[2] /\ d[2] >= i => d \in started
  <2>1. ASSUME NEW c \in started, NEW d \in Calls, Run(d) = r, d[2] < c[2], d[2] >= i PROVE d \in started
    <3>1. c[2] \in Nat /\ d[2] \in i..c[2]
      BY <1>2, <2>1, CallPlaces
    <3> QED
      BY <1>0, <2>1, <3>1, GroupShape
  <2> QED
    BY <1>0, <2>1, GroupShape
<1>7. StartedInOrder'
  <2> SUFFICES ASSUME NEW c \in Calls, pc'[c] # "queued"
               PROVE  /\ c[2] \in DOMAIN turn'[c[1]]
                      /\ \A d \in Calls : Run(d) = Run(c) /\ d[2] < c[2] => pc'[d] # "queued"
    BY DEF StartedInOrder, Asked
  <2>1. CASE c \in started
    <3>1. c[2] \in DOMAIN turn'[c[1]]
      BY <1>0, <1>6, <2>1 DEF Run
    <3>2. ASSUME NEW d \in Calls, Run(d) = Run(c), d[2] < c[2] PROVE pc'[d] # "queued"
      <4>1. CASE d \in started
        BY <1>3, <4>1
      <4>2. CASE d \notin started
        <5>1. Run(d) = r /\ ~(d[2] >= i)
          BY <1>6, <2>1, <3>2, <4>2
        <5>2. d[2] < i
          BY <1>2, <5>1, CallPlaces
        <5> QED
          BY <1>3, <1>4, <4>2, <5>1, <5>2 DEF Final
      <4> QED
        BY <4>1, <4>2
    <3> QED
      BY <3>1, <3>2
  <2>2. CASE c \notin started
    <3>1. pc[c] # "queued"
      BY <1>3, <2>2
    <3>2. /\ c[2] \in DOMAIN turn[c[1]]
          /\ \A d \in Calls : Run(d) = Run(c) /\ d[2] < c[2] => pc[d] # "queued"
      BY <3>1 DEF ScheduleInv, StartedInOrder, Asked
    <3> QED
      BY <1>0, <1>3, <3>2
  <2> QED
    BY <2>1, <2>2
<1>8. SerialAlone'
  <2> SUFFICES ASSUME NEW c \in Calls, pc'[c] \in Active, ~Parallel(Run(c), c[2])
               PROVE  /\ \A d \in Calls : d # c /\ Run(d) = Run(c) => pc'[d] \notin Active
                      /\ \A d \in Calls : Run(d) = Run(c) /\ d[2] < c[2] => pc'[d] \in Final
    BY <1>0 DEF SerialAlone, Parallel
  <2>1. CASE c \in started
    <3>1. c[2] \in Group(r, i) /\ ~Parallel(r, c[2]) /\ Run(c) = r
      BY <2>1 DEF Run
    <3>2. Group(r, i) = {i} /\ c[2] = i
      BY <1>0, <3>1, GroupShape
    <3>3. \A d \in started : d = c
      BY <3>1, <3>2, CallPlaces
    <3>4. ASSUME NEW d \in Calls, d # c, Run(d) = r PROVE pc'[d] = pc[d] /\ pc[d] \in Final \union {"queued"}
      <4>1. d \notin started /\ (d[2] < i \/ d[2] >= i)
        BY <1>2, <3>3, <3>4, CallPlaces
      <4> QED
        BY <1>3, <1>4, <1>5, <3>4, <4>1
    <3>5. ASSUME NEW d \in Calls, Run(d) = r, d[2] < c[2] PROVE pc'[d] \in Final
      <4>1. d \notin started
        BY <1>2, <3>2, <3>5, CallPlaces
      <4> QED
        BY <1>3, <1>4, <3>2, <3>5, <4>1
    <3> QED
      BY <3>1, <3>4, <3>5 DEF Active, Final
  <2>2. CASE c \notin started
    <3>1. pc[c] \in Active /\ pc[c] # "queued"
      BY <1>3, <2>2 DEF Active
    <3>2. Run(c) # r
      <4> SUFFICES ASSUME Run(c) = r PROVE FALSE
        OBVIOUS
      <4>1. c[2] < i \/ c[2] >= i
        BY <1>2, CallPlaces
      <4> QED
        BY <1>4, <1>5, <3>1, <4>1 DEF Active, Final
    <3>3. \A d \in Calls : Run(d) = Run(c) => pc'[d] = pc[d]
      BY <1>3, <3>2
    <3> QED
      BY <3>1, <3>3 DEF ScheduleInv, SerialAlone
  <2> QED
    BY <2>1, <2>2
<1> QED
  BY <1>0, <1>3, <1>7, <1>8 DEF ScheduleInv

----------------------------------------------------------------------------
(* The hooks: what they make of a call is a call of the same tool. *)

\* What one more hook may make of results.
Further(i, before) ==
  [k \in Keys |->
     IF i = 0 THEN {<<k, "none">>}
     ELSE UNION {{Merged(result, answer) : answer \in Hooks[i][result[1]]} : result \in before[k]}]

\* AfterHooks is the function its recursive definition describes.
LEMMA AfterHooksDefined ==
  /\ AfterHooks[0] = [k \in Keys |-> {<<k, "none">>}]
  /\ \A i \in 1..Len(Hooks) : AfterHooks[i] = Further(i, AfterHooks[i - 1])
<1> DEFINE Upto(f, n) == f = [i \in 0..n |-> Further(i, f[i - 1])]
           S == {n \in Nat : \E f : Upto(f, n)}
<1>1. Nat \subseteq S
  <2>1. 0 \in S
    <3> DEFINE f == [i \in 0..0 |-> [k \in Keys |-> {<<k, "none">>}]]
    <3>1. \A i \in 0..0 : Further(i, f[i - 1]) = [k \in Keys |-> {<<k, "none">>}]
      BY DEF Further
    <3>2. Upto(f, 0)
      BY <3>1
    <3> QED
      BY <3>2
  <2>2. ASSUME NEW n \in Nat, n \in S PROVE n + 1 \in S
    <3>1. PICK f : Upto(f, n)
      BY <2>2
    <3> DEFINE g == [i \in 0..(n + 1) |-> IF i = n + 1 THEN Further(i, f[n]) ELSE f[i]]
    <3>2. \A i \in 0..(n + 1) : g[i] = Further(i, g[i - 1])
      <4> SUFFICES ASSUME NEW i \in 0..(n + 1) PROVE g[i] = Further(i, g[i - 1])
        OBVIOUS
      <4>1. CASE i = n + 1
        BY <4>1
      <4>2. CASE i \in 1..n
        <5>1. g[i] = f[i] /\ g[i - 1] = f[i - 1]
          BY <4>2
        <5>2. f[i] = Further(i, f[i - 1])
          BY <3>1, <4>2
        <5> QED
          BY <5>1, <5>2
      <4>3. CASE i = 0
        <5>1. g[i] = f[0] /\ f[0] = Further(0, f[0 - 1])
          BY <3>1, <4>3
        <5> QED
          BY <4>3, <5>1 DEF Further
      <4> QED
        BY <4>1, <4>2, <4>3
    <3>3. Upto(g, n + 1)
      BY <3>2
    <3>4. \E h : Upto(h, n + 1)
      <4> HIDE DEF g, Upto
      <4> QED
        BY <3>3
    <3> QED
      BY <3>4
  <2> HIDE DEF S
  <2> QED
    BY <2>1, <2>2, SetInduction
<1>2. Len(Hooks) \in Nat
  BY InvokeAssumption
<1>3. \E f : Upto(f, Len(Hooks))
  BY <1>1, <1>2
<1>4. AfterHooks = CHOOSE f : Upto(f, Len(Hooks))
  BY DEF AfterHooks, Further
<1>5. Upto(AfterHooks, Len(Hooks))
  <2> HIDE DEF Upto
  <2> QED
    BY <1>3, <1>4
<1>6. \A i \in 0..Len(Hooks) : AfterHooks[i] = Further(i, AfterHooks[i - 1])
  BY <1>5
<1>7. Further(0, AfterHooks[0 - 1]) = [k \in Keys |-> {<<k, "none">>}]
  BY DEF Further
<1> QED
  BY <1>2, <1>6, <1>7

LEMMA SameToolOrder ==
  /\ \A k : SameTool(k, k)
  /\ \A k, l, m : SameTool(k, l) /\ SameTool(l, m) => SameTool(k, m)
BY DEF SameTool

\* HookBus.emit: the hooks may replace the arguments of a call, one after the other, and never its tool.
LEMMA HooksKeepTool ==
  \A k \in Keys : \A result \in Emit(k) : result[1] \in Keys /\ SameTool(k, result[1])
<1> DEFINE Kept(i) == \A k \in Keys : \A result \in AfterHooks[i][k] : result[1] \in Keys /\ SameTool(k, result[1])
           S == {n \in Nat : n <= Len(Hooks) => Kept(n)}
<1>1. Len(Hooks) \in Nat /\ Hooks \in Seq([Keys -> SUBSET HookAnswers])
  BY InvokeAssumption
<1>2. 0 \in S
  BY AfterHooksDefined, SameToolOrder
<1>3. ASSUME NEW n \in Nat, n \in S PROVE n + 1 \in S
  <2> SUFFICES ASSUME n + 1 <= Len(Hooks), NEW k \in Keys, NEW result \in AfterHooks[n + 1][k]
               PROVE  result[1] \in Keys /\ SameTool(k, result[1])
    OBVIOUS
  <2>1. n + 1 \in DOMAIN Hooks /\ Hooks[n + 1] \in [Keys -> SUBSET HookAnswers] /\ n + 1 # 0
    BY <1>1
  <2>2. AfterHooks[n + 1] = Further(n + 1, AfterHooks[n])
    BY <1>1, <2>1, AfterHooksDefined
  <2>3. PICK before \in AfterHooks[n][k] : \E answer \in Hooks[n + 1][before[1]] : result = Merged(before, answer)
    BY <2>1, <2>2 DEF Further
  <2>4. before[1] \in Keys /\ SameTool(k, before[1])
    BY <1>1, <1>3
  <2>5. PICK answer \in Hooks[n + 1][before[1]] : result = Merged(before, answer)
    BY <2>3
  <2>6. answer[1] \in Keys \union {NoKey}
    BY <2>1, <2>4, <2>5 DEF HookAnswers
  <2>7. answer[1] # NoKey => SameTool(before[1], answer[1])
    BY <2>1, <2>4, ToolAssumption
  <2>8. result[1] = IF answer[1] # NoKey THEN answer[1] ELSE before[1]
    BY <2>5 DEF Merged
  <2> QED
    BY <2>4, <2>6, <2>7, <2>8, SameToolOrder
<1>4. Nat \subseteq S
  <2> HIDE DEF S
  <2> QED
    BY <1>2, <1>3, SetInduction
<1> QED
  BY <1>1, <1>4 DEF Emit
----------------------------------------------------------------------------
(* What a call may rely on from the decision to its start. *)

Statuses == {"idle", "open", "approved", "denied", "timed_out", "cancelled", "error"}
Verdicts == [status : Statuses, by : Authorized \union {Nobody}, scope : Broker!Scopes]
Questions == [key : Keys \union {NoKey}, tier : Tiers]

TypeInv ==
  /\ tainted \in [Runs -> BOOLEAN]
  /\ mode \in [Runs -> Modes]
  /\ approvals \in [Runs -> SUBSET Keys]
  /\ key \in [Calls -> Keys \union {NoKey}]
  /\ asked \in [Requests -> Questions]
  /\ decision \in [Requests -> Verdicts]

\* Whatever the hooks did to its arguments, a call is still of the tool the model asked for.
ToolKept == \A c \in Calls : Asked(c) => key[c] \in Keys /\ SameTool(AskedKey(c), key[c])

\* What was asked of a human is what will run, at no lower a tier than it has now.
AskStands ==
  \A c \in Calls : pc[c] = "asking" =>
    /\ asked[Own(c)].key = key[c]
    /\ asked[Own(c)].tier >= TierNow(c)
    /\ Info[key[c]].tier # R4
    /\ mode[Run(c)] \in ReadOnlyModes => Info[key[c]].readOnly

\* The plan of a run in plan mode is being asked about.
PlanAsked == \A c \in Calls : pc[c] = "planning" => Info[key[c]].exitsPlan /\ mode[Run(c)] = "plan"

\* Approvals are by approvers of the allowlist, and R3 is approved once only.
ByApprovers ==
  \A q \in Requests : decision[q].status = "approved" =>
    decision[q].by \in Authorized /\ (asked[q].tier = R3 => decision[q].scope = "once")

Granted(q, k, scope) == decision[q].status = "approved" /\ asked[q].key = k /\ decision[q].scope = scope

\* What passes unasked later on was approved for the session, or for always.
KnownFromApproval ==
  /\ \A r \in Runs : \A k \in approvals[r] : \E q \in Requests : Granted(q, k, "session") /\ Run(q[1]) = r
  /\ \A k \in remembered : \E q \in Requests : Granted(q, k, "always")

InvokeInv ==
  ScheduleInv /\ TypeInv /\ ToolKept /\ AskStands /\ PlanAsked /\ ByApprovers /\ KnownFromApproval

LEMMA RequestPlaces ==
  /\ \A c \in Calls : Own(c) \in Requests /\ Plan(c) \in Requests /\ Own(c)[1] = c /\ Plan(c)[1] = c
  /\ \A c, d \in Calls : Own(c) # Plan(d) /\ (Own(c) = Own(d) => c = d)
BY DEF Own, Plan, Requests

\* A step that opens and settles no request, changes no call's key, the mode or the taint, and
\* lets no call ask, keeps everything.
LEMMA QuietStep ==
  ASSUME InvokeInv, ScheduleInv', UNCHANGED <<turn, tainted, mode, approvals, key, brokerVars>>,
         \A c \in Calls : pc'[c] \in {"asking", "planning"} => pc'[c] = pc[c]
  PROVE  InvokeInv'
<1>1. UNCHANGED <<turn, tainted, mode, approvals, key, asked, decision, remembered>>
  BY DEF brokerVars
<1>2. TypeInv' /\ ToolKept' /\ ByApprovers'
  BY <1>1 DEF InvokeInv, TypeInv, ToolKept, ByApprovers, Asked, AskedKey
<1>3. AskStands' /\ PlanAsked'
  BY <1>1 DEF InvokeInv, AskStands, PlanAsked, TierNow
<1>4. KnownFromApproval'
  BY <1>1 DEF InvokeInv, KnownFromApproval, Granted
<1> QED
  BY <1>2, <1>3, <1>4 DEF InvokeInv

\* A new request leaves the others and what they granted alone.
LEMMA Requested ==
  ASSUME InvokeInv, NEW q \in Requests, NEW k \in Keys, NEW t \in Tiers,
         Broker!Begin(q, k, t) \/ Broker!Refuse(q, k, t), UNCHANGED approvals
  PROVE  /\ asked' \in [Requests -> Questions]
         /\ decision' \in [Requests -> Verdicts]
         /\ ByApprovers' /\ KnownFromApproval'
         /\ asked'[q].key = k /\ asked'[q].tier = t
         /\ \A p \in Requests : p # q => asked'[p] = asked[p] /\ decision'[p] = decision[p]
<1>1. /\ decision[q] = Broker!Idle /\ remembered' = remembered
      /\ asked' = [asked EXCEPT ![q] = [key |-> k, tier |-> t]]
      /\ \E s \in {"open", "error"} :
           decision' = [decision EXCEPT ![q] = [status |-> s, by |-> Nobody, scope |-> "once"]]
  BY DEF Broker!Begin, Broker!Refuse, Broker!Question, Broker!Open, Broker!Verdict
<1>2. /\ asked \in [Requests -> Questions]
      /\ decision \in [Requests -> Verdicts]
  BY DEF InvokeInv, TypeInv
<1>3. /\ asked'[q].key = k /\ asked'[q].tier = t
      /\ \A p \in Requests : p # q => asked'[p] = asked[p] /\ decision'[p] = decision[p]
      /\ decision[q].status = "idle" /\ decision'[q].status \in {"open", "error"}
  BY <1>1, <1>2 DEF Broker!Idle, Broker!Verdict
<1>4. ByApprovers'
  BY <1>3 DEF InvokeInv, ByApprovers
<1>5. \A p \in Requests : \A l, s : Granted(p, l, s) => Granted(p, l, s)'
  BY <1>3 DEF Granted
<1>6. KnownFromApproval'
  BY <1>1, <1>5 DEF InvokeInv, KnownFromApproval
<1>7. /\ asked' \in [Requests -> Questions]
      /\ decision' \in [Requests -> Verdicts]
  <2>1. \A s \in {"open", "error"} : [status |-> s, by |-> Nobody, scope |-> "once"] \in Verdicts
    BY DEF Verdicts, Statuses, Broker!Scopes
  <2>2. [key |-> k, tier |-> t] \in Questions
    BY DEF Questions
  <2> QED
    BY <1>1, <1>2, <2>1, <2>2
<1> QED
  BY <1>3, <1>4, <1>6, <1>7

LEMMA BrokerSettles ==
  ASSUME InvokeInv, ScheduleInv', NEW q \in Requests, BrokerStep(q)
  PROVE  InvokeInv'
<1>1. UNCHANGED <<turn, tainted, mode, approvals, key, pc, asked>> /\ Broker!Settle(q)
  BY DEF BrokerStep, runVars, Broker!Settle, Broker!GiveUp, Broker!Deny, Broker!Approve
<1>2. decision[q].status = "open"
  BY <1>1 DEF Broker!Settle, Broker!GiveUp, Broker!Deny, Broker!Approve, Broker!Open, Broker!Verdict
<1>3. decision \in [Requests -> Verdicts]
  BY DEF InvokeInv, TypeInv
<1> DEFINE Ends(v) ==
        /\ decision' = [decision EXCEPT ![q] = v]
        /\ v.status = "approved" =>
             /\ v.by \in Authorized /\ (asked[q].tier = R3 => v.scope = "once")
             /\ remembered' = IF v.scope = "always" THEN remembered \union {asked[q].key} ELSE remembered
        /\ v.status # "approved" => remembered' = remembered
<1>4. PICK v \in Verdicts : Ends(v)
  <2>1. CASE Broker!GiveUp(q)
    <3>1. PICK s \in {"timed_out", "cancelled", "error"} :
            decision' = [decision EXCEPT ![q] = [status |-> s, by |-> Nobody, scope |-> "once"]]
      BY <2>1 DEF Broker!GiveUp, Broker!Unanswered, Broker!Verdict
    <3>2. [status |-> s, by |-> Nobody, scope |-> "once"] \in Verdicts
      BY DEF Verdicts, Statuses, Broker!Scopes
    <3>3. remembered' = remembered
      BY <2>1 DEF Broker!GiveUp
    <3>4. Ends([status |-> s, by |-> Nobody, scope |-> "once"])
      BY <3>1, <3>3
    <3> QED
      BY <3>2, <3>4
  <2>2. ASSUME NEW a \in Authorized, NEW scope \in Broker!Scopes, Broker!Deny(q, a, scope)
        PROVE  \E v \in Verdicts : Ends(v)
    <3>1. Ends([status |-> "denied", by |-> a, scope |-> scope])
      BY <2>2 DEF Broker!Deny, Broker!Verdict
    <3>2. [status |-> "denied", by |-> a, scope |-> scope] \in Verdicts
      BY DEF Verdicts, Statuses
    <3> QED
      BY <3>1, <3>2
  <2>3. ASSUME NEW a \in Authorized, NEW scope \in Broker!Scopes, Broker!Approve(q, a, scope)
        PROVE  \E v \in Verdicts : Ends(v)
    <3>1. Ends([status |-> "approved", by |-> a, scope |-> scope])
      BY <2>3 DEF Broker!Approve, Broker!Verdict, R3, Broker!R3
    <3>2. [status |-> "approved", by |-> a, scope |-> scope] \in Verdicts
      BY DEF Verdicts, Statuses
    <3> QED
      BY <3>1, <3>2
  <2> HIDE DEF Ends
  <2> QED
    BY <1>1, <2>1, <2>2, <2>3 DEF Broker!Settle
<1>5. decision'[q] = v /\ \A p \in Requests : p # q => decision'[p] = decision[p]
  BY <1>3, <1>4
<1>6. TypeInv' /\ ToolKept'
  BY <1>1, <1>3, <1>4 DEF InvokeInv, TypeInv, ToolKept, Asked, AskedKey
<1>7. AskStands' /\ PlanAsked'
  BY <1>1 DEF InvokeInv, AskStands, PlanAsked, TierNow
<1>8. ByApprovers'
  BY <1>1, <1>4, <1>5 DEF InvokeInv, ByApprovers
<1>9. KnownFromApproval'
  <2>1. \A p \in Requests : \A k, s : Granted(p, k, s) => Granted(p, k, s)'
    BY <1>1, <1>2, <1>5 DEF Granted
  <2>2. ASSUME NEW k \in remembered' \ remembered PROVE Granted(q, k, "always")'
    BY <1>1, <1>4, <1>5, <2>2 DEF Granted
  <2>3. \A r \in Runs : \A k \in approvals'[r] : \E p \in Requests : Granted(p, k, "session")' /\ Run(p[1]) = r
    BY <1>1, <2>1 DEF InvokeInv, KnownFromApproval
  <2>4. \A k \in remembered' : \E p \in Requests : Granted(p, k, "always")'
    BY <2>1, <2>2 DEF InvokeInv, KnownFromApproval
  <2> QED
    BY <2>3, <2>4 DEF KnownFromApproval
<1> QED
  BY <1>6, <1>7, <1>8, <1>9 DEF InvokeInv

\* Two calls of a run are under way together only if both are of parallel-safe, read-only tools.
LEMMA Together ==
  ASSUME InvokeInv, NEW c \in Calls, pc[c] \in Active
  PROVE  /\ Asked(c) /\ key[c] \in Keys /\ SameTool(AskedKey(c), key[c])
         /\ Info[key[c]].tier \in Tiers /\ Info[key[c]].readOnly \in BOOLEAN
         /\ \A d \in Calls : d # c /\ Run(d) = Run(c) /\ pc[d] \in Active =>
              Info[key[c]].readOnly /\ Info[key[c]].parallelSafe
<1>1. Asked(c) /\ key[c] \in Keys /\ SameTool(AskedKey(c), key[c])
  BY DEF InvokeInv, ScheduleInv, StartedInOrder, ToolKept, Active
<1>2. Info[key[c]] \in KeyInfo
  BY <1>1, InvokeAssumption
<1>3. ASSUME NEW d \in Calls, d # c, Run(d) = Run(c), pc[d] \in Active
      PROVE  Info[key[c]].readOnly /\ Info[key[c]].parallelSafe
  <2>1. Parallel(Run(c), c[2])
    BY <1>3 DEF InvokeInv, ScheduleInv, SerialAlone
  <2>2. Info[AskedKey(c)].readOnly /\ Info[AskedKey(c)].parallelSafe
    BY <2>1 DEF Parallel, AskedKey, Run
  <2> QED
    BY <1>1, <2>2 DEF SameTool
<1> QED
  BY <1>1, <1>2, <1>3 DEF KeyInfo

\* The next place of one call.
LEMMA Moves ==
  ASSUME InvokeInv, NEW c \in Calls, NEW place, Goto(c, place)
  PROVE  pc'[c] = place /\ \A d \in Calls : d # c => pc'[d] = pc[d]
BY DEF InvokeInv, ScheduleInv, Goto

\* What the hooks made of a call is of the same tool, and what is asked of a human, if anything
\* is, is this call at no lower a tier.
LEMMA HookedKeeps ==
  ASSUME InvokeInv, ScheduleInv', NEW c \in Calls, NEW k \in Keys, NEW hook \in {"none", "ask", "deny"},
         Hooked(c, k, hook)
  PROVE  InvokeInv'
<1> DEFINE d == Decided(c, k, hook)
           eff == Effective(Info[k], tainted[Run(c)])
<1>1. /\ pc[c] = "hooking" /\ <<k, hook>> \in Emit(key[c]) /\ key' = [key EXCEPT ![c] = k]
      /\ UNCHANGED <<turn, tainted, mode, approvals>>
      /\ \/ (\E place \in {"refused", "denied", "running", "raised"} : Goto(c, place)) /\ UNCHANGED brokerVars
         \/ /\ d.verdict = "REQUIRE_APPROVAL"
            /\ \/ Broker!Begin(Own(c), k, d.tier) /\ Goto(c, "asking")
               \/ Broker!Refuse(Own(c), k, d.tier) /\ Goto(c, "raised")
  BY DEF Hooked, Raise, runVars
<1>2. Asked(c) /\ key[c] \in Keys /\ SameTool(AskedKey(c), key[c])
  BY <1>1, Together DEF Active
<1>3. k \in Keys /\ SameTool(AskedKey(c), k)
  BY <1>1, <1>2, HooksKeepTool, SameToolOrder
<1>4. /\ key' \in [Calls -> Keys \union {NoKey}]
      /\ key'[c] = k /\ \A e \in Calls : e # c => key'[e] = key[e]
  BY <1>1 DEF InvokeInv, TypeInv
<1>5. ToolKept'
  BY <1>1, <1>3, <1>4 DEF InvokeInv, ToolKept, Asked, AskedKey
<1>6. PlanAsked'
  <2>1. \A e \in Calls : pc'[e] = "planning" => e # c /\ pc[e] = "planning"
    BY <1>1, Moves
  <2> QED
    BY <1>1, <1>4, <2>1 DEF InvokeInv, PlanAsked
<1>7. CASE (\E place \in {"refused", "denied", "running", "raised"} : Goto(c, place)) /\ UNCHANGED brokerVars
  <2>1. \A e \in Calls : pc'[e] = "asking" => e # c /\ pc[e] = "asking"
    BY <1>7, Moves
  <2>2. UNCHANGED <<turn, tainted, mode, approvals, asked, decision, remembered>>
    BY <1>1, <1>7 DEF brokerVars
  <2>3. TypeInv' /\ ByApprovers' /\ KnownFromApproval'
    BY <1>4, <2>2 DEF InvokeInv, TypeInv, ByApprovers, KnownFromApproval, Granted
  <2>4. AskStands'
    BY <1>4, <2>1, <2>2 DEF InvokeInv, AskStands, TierNow
  <2> QED
    BY <1>5, <1>6, <2>3, <2>4 DEF InvokeInv
<1>8. CASE /\ d.verdict = "REQUIRE_APPROVAL"
           /\ \/ Broker!Begin(Own(c), k, d.tier) /\ Goto(c, "asking")
              \/ Broker!Refuse(Own(c), k, d.tier) /\ Goto(c, "raised")
  <2>1. /\ Run(c) \in Runs /\ tainted[Run(c)] \in BOOLEAN /\ mode[Run(c)] \in Modes
        /\ PreApproved(Run(c), k) \in BOOLEAN /\ Info[k] \in KeyInfo
    BY CallPlaces, InvokeAssumption DEF InvokeInv, TypeInv, PreApproved
  <2>2. Info[k].tier \in Tiers
    BY <2>1 DEF KeyInfo
  <2>3. d.tier >= eff /\ d.tier \in Tiers /\ ~HardDenied(Info[k], mode[Run(c)])
    BY <1>8, <2>1, <2>2, LetThrough DEF Decided
  <2>4. Own(c) \in Requests
    BY RequestPlaces
  <2> HIDE DEF d
  <2>5. /\ asked' \in [Requests -> Questions] /\ decision' \in [Requests -> Verdicts]
        /\ ByApprovers' /\ KnownFromApproval'
        /\ asked'[Own(c)].key = k /\ asked'[Own(c)].tier = d.tier
        /\ \A p \in Requests : p # Own(c) => asked'[p] = asked[p] /\ decision'[p] = decision[p]
    BY <1>1, <1>8, <2>3, <2>4, Requested
  <2>6. TypeInv'
    BY <1>1, <1>4, <2>5 DEF InvokeInv, TypeInv
  <2>7. AskStands'
    <3> SUFFICES ASSUME NEW e \in Calls, pc'[e] = "asking"
                 PROVE  /\ asked'[Own(e)].key = key'[e]
                        /\ asked'[Own(e)].tier >= Effective(Info[key'[e]], tainted'[Run(e)])
                        /\ Info[key'[e]].tier # R4
                        /\ mode'[Run(e)] \in ReadOnlyModes => Info[key'[e]].readOnly
      BY DEF AskStands, TierNow
    <3>1. CASE e = c
      BY <1>1, <1>4, <2>3, <2>5, <3>1 DEF HardDenied
    <3>2. CASE e # c
      <4>1. pc[e] = "asking" /\ key'[e] = key[e]
        BY <1>4, <1>8, <3>2, Moves
      <4>2. asked'[Own(e)] = asked[Own(e)]
        BY <2>5, <3>2, RequestPlaces
      <4> QED
        BY <1>1, <4>1, <4>2 DEF InvokeInv, AskStands, TierNow
    <3> QED
      BY <3>1, <3>2
  <2> QED
    BY <1>5, <1>6, <2>5, <2>6, <2>7 DEF InvokeInv
<1> QED
  BY <1>1, <1>7, <1>8

LEMMA ApprovedKeeps ==
  ASSUME InvokeInv, ScheduleInv', NEW c \in Calls, Approved(c)
  PROVE  InvokeInv'
<1>1. /\ pc[c] = "asking" /\ decision[Own(c)].status = "approved" /\ Goto(c, "running")
      /\ UNCHANGED <<turn, tainted, mode, key, asked, decision, remembered>>
      /\ approvals' = IF decision[Own(c)].scope = "session"
                      THEN [approvals EXCEPT ![Run(c)] = @ \union {key[c]}] ELSE approvals
  BY DEF Approved, brokerVars
<1>2. \A e \in Calls : pc'[e] \in {"asking", "planning"} => pc'[e] = pc[e]
  BY <1>1, Moves
<1>3. key[c] \in Keys /\ Run(c) \in Runs /\ Own(c) \in Requests /\ Own(c)[1] = c
  BY <1>1, Together, CallPlaces, RequestPlaces DEF Active
<1>4. asked[Own(c)].key = key[c]
  BY <1>1 DEF InvokeInv, AskStands
<1>5. TypeInv'
  BY <1>1, <1>3 DEF InvokeInv, TypeInv
<1>6. ToolKept' /\ ByApprovers'
  BY <1>1 DEF InvokeInv, ToolKept, ByApprovers, Asked, AskedKey
<1>7. AskStands' /\ PlanAsked'
  BY <1>1, <1>2 DEF InvokeInv, AskStands, PlanAsked, TierNow
<1>8. KnownFromApproval'
  <2>1. \A p, k, s : Granted(p, k, s)' <=> Granted(p, k, s)
    BY <1>1 DEF Granted
  <2>2. ASSUME NEW r \in Runs, NEW k \in approvals'[r]
        PROVE  \E q \in Requests : Granted(q, k, "session") /\ Run(q[1]) = r
    <3>1. CASE k \in approvals[r]
      BY <3>1 DEF InvokeInv, KnownFromApproval
    <3>2. CASE k \notin approvals[r]
      <4>1. r = Run(c) /\ k = key[c] /\ decision[Own(c)].scope = "session"
        BY <1>1, <2>2, <3>2 DEF InvokeInv, TypeInv
      <4> QED
        BY <1>1, <1>3, <1>4, <4>1 DEF Granted
    <3> QED
      BY <3>1, <3>2
  <2> QED
    BY <1>1, <2>1, <2>2 DEF InvokeInv, KnownFromApproval
<1> QED
  BY <1>5, <1>6, <1>7, <1>8 DEF InvokeInv

\* Output of an untrusted tool raises no tier a human is being asked about: a call that taint
\* would raise is under way alone.
LEMMA ReturnKeeps ==
  ASSUME InvokeInv, ScheduleInv', NEW c \in Calls, NEW failed \in BOOLEAN, HandlerReturns(c, failed)
  PROVE  InvokeInv'
<1>1. /\ pc[c] = "running" /\ Goto(c, "posting")
      /\ \E now \in BOOLEAN : tainted' = [tainted EXCEPT ![Run(c)] = now]
      /\ UNCHANGED <<turn, mode, approvals, key, asked, decision, remembered>>
  <2>1. key[c] \in Keys /\ pc[c] = "running"
    BY Together DEF HandlerReturns, Active
  <2>2. Info[key[c]].untrusted \in BOOLEAN
    BY <2>1, InvokeAssumption DEF KeyInfo
  <2>3. tainted[Run(c)] \in BOOLEAN
    BY CallPlaces DEF InvokeInv, TypeInv
  <2>4. tainted' = [tainted EXCEPT ![Run(c)] = tainted[Run(c)] \/ (Info[key[c]].untrusted /\ ~failed)]
    BY DEF HandlerReturns
  <2>5. (tainted[Run(c)] \/ (Info[key[c]].untrusted /\ ~failed)) \in BOOLEAN
    BY <2>2, <2>3
  <2> QED
    BY <2>1, <2>4, <2>5 DEF HandlerReturns, brokerVars
<1>2. \A e \in Calls : pc'[e] \in {"asking", "planning"} => e # c /\ pc'[e] = pc[e]
  BY <1>1, Moves
<1>3. TypeInv'
  BY <1>1, CallPlaces DEF InvokeInv, TypeInv
<1>4. ToolKept' /\ ByApprovers' /\ KnownFromApproval'
  BY <1>1 DEF InvokeInv, ToolKept, ByApprovers, KnownFromApproval, Granted, Asked, AskedKey
<1>5. PlanAsked'
  BY <1>1, <1>2 DEF InvokeInv, PlanAsked
<1>6. ASSUME NEW e \in Calls, pc'[e] = "asking" PROVE TierNow(e)' = TierNow(e)
  <2>1. e # c /\ pc[e] = "asking"
    BY <1>2, <1>6
  <2>2. CASE Run(e) = Run(c)
    <3>1. Info[key[e]].readOnly
      BY <1>1, <2>1, <2>2, Together DEF Active
    <3> QED
      BY <1>1, <3>1 DEF TierNow, Effective
  <2>3. CASE Run(e) # Run(c)
    <3>1. tainted'[Run(e)] = tainted[Run(e)]
      BY <1>1, <2>3, CallPlaces DEF InvokeInv, TypeInv
    <3> QED
      BY <1>1, <3>1 DEF TierNow
  <2> QED
    BY <2>2, <2>3
<1>7. AskStands'
  BY <1>1, <1>2, <1>6 DEF InvokeInv, AskStands
<1> QED
  BY <1>3, <1>4, <1>5, <1>7 DEF InvokeInv

LEMMA AskPlanKeeps ==
  ASSUME InvokeInv, ScheduleInv', NEW c \in Calls, AskPlan(c)
  PROVE  InvokeInv'
<1>1. /\ pc[c] = "running" /\ Info[key[c]].exitsPlan /\ mode[Run(c)] = "plan"
      /\ UNCHANGED <<turn, tainted, mode, approvals, key>>
      /\ Broker!Begin(Plan(c), key[c], R2) \/ Broker!Refuse(Plan(c), key[c], R2)
      /\ \E place \in {"planning", "posting"} : Goto(c, place)
  BY DEF AskPlan, runVars
<1>2. key[c] \in Keys /\ Plan(c) \in Requests /\ R2 \in Tiers
  BY <1>1, Together, RequestPlaces DEF Active, R2, Tiers, R0, R4
<1>3. /\ asked' \in [Requests -> Questions] /\ decision' \in [Requests -> Verdicts]
      /\ ByApprovers' /\ KnownFromApproval'
      /\ \A p \in Requests : p # Plan(c) => asked'[p] = asked[p] /\ decision'[p] = decision[p]
  BY <1>1, <1>2, Requested
<1>4. \A e \in Calls : /\ pc'[e] = "asking" => pc[e] = "asking"
                       /\ pc'[e] = "planning" => e = c \/ pc[e] = "planning"
  BY <1>1, Moves
<1>5. TypeInv' /\ ToolKept'
  BY <1>1, <1>3 DEF InvokeInv, TypeInv, ToolKept, Asked, AskedKey
<1>6. PlanAsked'
  BY <1>1, <1>4 DEF InvokeInv, PlanAsked
<1>7. AskStands'
  BY <1>1, <1>3, <1>4, RequestPlaces DEF InvokeInv, AskStands, TierNow
<1> QED
  BY <1>3, <1>5, <1>6, <1>7 DEF InvokeInv

\* A call of exit_plan_mode runs alone, so the mode changes under no other call of the run.
LEMMA PlanAlone ==
  ASSUME InvokeInv, NEW c \in Calls, pc[c] = "planning"
  PROVE  \A e \in Calls : e # c /\ Run(e) = Run(c) => pc[e] \notin Active
<1>1. key[c] \in Keys /\ Info[key[c]].exitsPlan
  BY Together DEF InvokeInv, PlanAsked, Active
<1>2. ~Info[key[c]].parallelSafe
  BY <1>1, ToolAssumption
<1> QED
  BY <1>2, Together DEF Active

LEMMA PlanAnsweredKeeps ==
  ASSUME InvokeInv, ScheduleInv', NEW c \in Calls, PlanAnswered(c)
  PROVE  InvokeInv'
<1>1. /\ pc[c] = "planning" /\ Goto(c, "posting")
      /\ mode' = [mode EXCEPT ![Run(c)] = AfterPlan[Run(c)]] \/ mode' = mode
      /\ UNCHANGED <<turn, tainted, approvals, key, asked, decision, remembered>>
  BY DEF PlanAnswered, brokerVars
<1>2. \A e \in Calls : pc'[e] \in {"asking", "planning"} => e # c /\ pc'[e] = pc[e]
  BY <1>1, Moves
<1>3. AfterPlan[Run(c)] \in Modes
  BY CallPlaces, InvokeAssumption
<1>4. \A e \in Calls : pc'[e] \in {"asking", "planning"} => mode'[Run(e)] = mode[Run(e)]
  <2> SUFFICES ASSUME NEW e \in Calls, pc'[e] \in {"asking", "planning"} PROVE mode'[Run(e)] = mode[Run(e)]
    OBVIOUS
  <2>1. Run(e) # Run(c)
    BY <1>1, <1>2, PlanAlone DEF Active
  <2> QED
    BY <1>1, <2>1, CallPlaces DEF InvokeInv, TypeInv
<1>5. TypeInv'
  BY <1>1, <1>3 DEF InvokeInv, TypeInv
<1>6. ToolKept' /\ ByApprovers' /\ KnownFromApproval'
  BY <1>1 DEF InvokeInv, ToolKept, ByApprovers, KnownFromApproval, Granted, Asked, AskedKey
<1>7. AskStands' /\ PlanAsked'
  BY <1>1, <1>2, <1>4 DEF InvokeInv, AskStands, PlanAsked, TierNow
<1> QED
  BY <1>5, <1>6, <1>7 DEF InvokeInv

LEMMA CallStepKeeps ==
  ASSUME InvokeInv, ScheduleInv', NEW c \in Calls, CallStep(c)
  PROVE  InvokeInv'
<1>1. ASSUME NEW k \in Keys, NEW hook \in {"none", "ask", "deny"}, Hooked(c, k, hook) PROVE InvokeInv'
  BY <1>1, HookedKeeps
<1>2. CASE Approved(c)
  BY <1>2, ApprovedKeeps
<1>3. CASE NotApproved(c) \/ AskRaised(c) \/ PlanCancelled(c) \/ Posted(c)
  <2>1. /\ UNCHANGED <<turn, tainted, mode, approvals, key, brokerVars>>
        /\ \E place \in {"denied", "raised", "posting", "ran"} : Goto(c, place)
    BY <1>3 DEF NotApproved, AskRaised, PlanCancelled, Posted, Raise, runVars
  <2> QED
    BY <2>1, Moves, QuietStep
<1>4. ASSUME NEW failed \in BOOLEAN, HandlerReturns(c, failed) PROVE InvokeInv'
  BY <1>4, ReturnKeeps
<1>5. CASE AskPlan(c)
  BY <1>5, AskPlanKeeps
<1>6. CASE PlanAnswered(c)
  BY <1>6, PlanAnsweredKeeps
<1> QED
  BY <1>1, <1>2, <1>3, <1>4, <1>5, <1>6 DEF CallStep

LEMMA ScheduleStep ==
  ASSUME ScheduleInv, [Next]_vars
  PROVE  ScheduleInv'
<1>1. ASSUME NEW r \in Runs, StartGroup(r) PROVE ScheduleInv'
  BY <1>1, GroupStarts
<1>2. ASSUME NEW c \in Calls, CallStep(c) PROVE ScheduleInv'
  BY <1>2, CallStepGoesOn, GoesOn
<1>3. ASSUME UNCHANGED <<turn, pc>> PROVE ScheduleInv'
  BY <1>3 DEF ScheduleInv, StartedInOrder, SerialAlone, Asked, Parallel
<1>4. ASSUME NEW q \in Requests, BrokerStep(q) PROVE ScheduleInv'
  BY <1>3, <1>4 DEF BrokerStep, runVars
<1>5. CASE UNCHANGED vars
  BY <1>3, <1>5 DEF vars
<1> QED
  BY <1>1, <1>2, <1>4, <1>5 DEF Next

LEMMA InvokeInit == ASSUME Init PROVE InvokeInv
<1>1. ScheduleInv
  BY DEF Init, ScheduleInv, Places, StartedInOrder, SerialAlone, Active
<1>2. \A c \in Calls : Asked(c) => AskedKey(c) \in Keys
  <2> SUFFICES ASSUME NEW c \in Calls, Asked(c) PROVE AskedKey(c) \in Keys
    OBVIOUS
  <2>1. turn[Run(c)] \in Seq(Keys) /\ c[2] \in DOMAIN turn[Run(c)]
    BY CallPlaces, InvokeAssumption DEF Init, Asked, Run
  <2> QED
    BY <2>1 DEF AskedKey, Run
<1>3. /\ tainted = [r \in Runs |-> FALSE] /\ mode \in [Runs -> Modes] /\ approvals = [r \in Runs |-> {}]
      /\ key = [c \in Calls |-> IF Asked(c) THEN AskedKey(c) ELSE NoKey] /\ pc = [c \in Calls |-> "queued"]
      /\ asked = [q \in Requests |-> [key |-> NoKey, tier |-> R0]]
      /\ decision = [q \in Requests |-> [status |-> "idle", by |-> Nobody, scope |-> "once"]]
      /\ remembered = {}
  BY DEF Init, Broker!Init, Broker!NoQuestion, Broker!Question, Broker!Idle, Broker!Verdict, R0, Broker!R0
<1>4. asked \in [Requests -> Questions] /\ decision \in [Requests -> Verdicts]
  BY <1>3 DEF Questions, Verdicts, Statuses, Broker!Scopes, Tiers, R0, R4
<1>5. TypeInv
  BY <1>2, <1>3, <1>4 DEF TypeInv
<1>6. ToolKept
  BY <1>2, <1>3, SameToolOrder DEF ToolKept
<1>7. AskStands /\ PlanAsked /\ ByApprovers /\ KnownFromApproval
  BY <1>3 DEF AskStands, PlanAsked, ByApprovers, KnownFromApproval
<1> QED
  BY <1>1, <1>5, <1>6, <1>7 DEF InvokeInv

LEMMA InvokeStep ==
  ASSUME InvokeInv, [Next]_vars
  PROVE  InvokeInv'
<1>0. ScheduleInv'
  BY ScheduleStep DEF InvokeInv
<1>1. ASSUME NEW r \in Runs, StartGroup(r) PROVE InvokeInv'
  <2>1. UNCHANGED <<turn, tainted, mode, approvals, key, brokerVars>>
    BY <1>1 DEF StartGroup, runVars
  <2>2. \A c \in Calls : pc'[c] \in {"asking", "planning"} => pc'[c] = pc[c]
    BY <1>1 DEF StartGroup
  <2> QED
    BY <1>0, <2>1, <2>2, QuietStep
<1>2. ASSUME NEW c \in Calls, CallStep(c) PROVE InvokeInv'
  BY <1>0, <1>2, CallStepKeeps
<1>3. ASSUME NEW q \in Requests, BrokerStep(q) PROVE InvokeInv'
  BY <1>0, <1>3, BrokerSettles
<1>4. CASE UNCHANGED vars
  BY <1>0, <1>4, QuietStep DEF vars, brokerVars
<1> QED
  BY <1>1, <1>2, <1>3, <1>4 DEF Next

LEMMA InvokeInvariant == Spec => []InvokeInv
BY InvokeInit, InvokeStep, PTL DEF Spec

\* While a call that may mutate is under way, no other call of its run is, and all earlier ones
\* have ended, for turns of any length and any hooks: MutatingAlone.
THEOREM MutatingAloneCorrect == Spec => []MutatingAlone
<1>1. InvokeInv => MutatingAlone
  BY DEF InvokeInv, ScheduleInv, SerialAlone, MutatingAlone, Parallel, AskedKey, Run
<1> QED
  BY <1>1, InvokeInvariant, PTL
----------------------------------------------------------------------------
(* What starts. *)

\* A handler starts when the policy let the call through, or when its own approval came.
LEMMA HowStarts ==
  ASSUME InvokeInv, Next, NEW c \in Calls, Starts(c)
  PROVE  \/ Approved(c)
         \/ \E k \in Keys, hook \in {"none", "ask", "deny"} :
              /\ Decided(c, k, hook).verdict = "ALLOW"
              /\ <<k, hook>> \in Emit(key[c]) /\ pc[c] = "hooking"
              /\ key' = [key EXCEPT ![c] = k]
              /\ UNCHANGED <<runVars, brokerVars>>
<1>1. ASSUME NEW r \in Runs, StartGroup(r) PROVE FALSE
  BY <1>1 DEF StartGroup, Starts
<1>2. ASSUME NEW q \in Requests, BrokerStep(q) PROVE FALSE
  BY <1>2 DEF BrokerStep, Starts
<1>3. PICK d \in Calls : CallStep(d)
  BY <1>1, <1>2 DEF Next
<1>4. \E place \in Active \union Final : Goto(d, place)
  BY <1>3, CallStepGoesOn
<1>5. d = c
  BY <1>4, Moves DEF Starts
<1>6. Goto(c, "running")
  BY <1>4, <1>5, Moves DEF Starts
<1>7. \A place : Goto(c, place) => place = "running"
  BY Moves DEF Starts
<1>8. pc[c] # "running"
  BY DEF Starts
<1>9. CallStep(c)
  BY <1>3, <1>5
<1>10. ~NotApproved(c) /\ ~AskRaised(c) /\ ~AskPlan(c) /\ ~Posted(c)
  BY <1>7 DEF NotApproved, AskRaised, Raise, AskPlan, Posted
<1>11. ~PlanAnswered(c) /\ ~PlanCancelled(c) /\ \A failed \in BOOLEAN : ~HandlerReturns(c, failed)
  BY <1>7 DEF PlanAnswered, PlanCancelled, Raise, HandlerReturns
<1>12. ASSUME NEW k \in Keys, NEW hook \in {"none", "ask", "deny"}, Hooked(c, k, hook)
       PROVE  /\ Decided(c, k, hook).verdict = "ALLOW"
              /\ <<k, hook>> \in Emit(key[c]) /\ pc[c] = "hooking"
              /\ key' = [key EXCEPT ![c] = k]
              /\ UNCHANGED <<runVars, brokerVars>>
  BY <1>7, <1>12 DEF Hooked, Raise
<1> QED
  BY <1>9, <1>10, <1>11, <1>12 DEF CallStep

LEMMA EffectiveBelow ==
  ASSUME NEW call, call.tier \in Tiers, call.tier # R4, NEW t \in BOOLEAN
  PROVE  Effective(call, t) \in {R0, R1, R2, R3}
BY DEF Effective, Bump, AtMost, Tiers, R0, R1, R2, R3, R4

\* What lets a call through at R2 or above is a rule in a clean run, or an approval that covers it.
LEMMA StartsAllowed ==
  ASSUME InvokeInv, Next, NEW c \in Calls, Starts(c)
  PROVE  /\ TierNow(c)' # R4
         /\ TierNow(c)' >= R2 => RuleCovers(c)' \/ \E q \in Requests : Covers(q, c)'
         /\ mode[Run(c)] \in ReadOnlyModes => Info[key'[c]].readOnly
<1>1. CASE Approved(c)
  <2>1. /\ pc[c] = "asking" /\ decision[Own(c)].status = "approved"
        /\ UNCHANGED <<turn, tainted, mode, key, asked, decision, remembered>>
    BY <1>1 DEF Approved, brokerVars
  <2>2. Own(c) \in Requests /\ Run(c) \in Runs /\ tainted[Run(c)] \in BOOLEAN
    BY RequestPlaces, CallPlaces DEF InvokeInv, TypeInv
  <2>3. TierNow(c)' = TierNow(c)
    BY <2>1 DEF TierNow
  <2>4. /\ asked[Own(c)].key = key[c] /\ asked[Own(c)].tier >= TierNow(c) /\ Info[key[c]].tier # R4
        /\ mode[Run(c)] \in ReadOnlyModes => Info[key[c]].readOnly
    BY <2>1 DEF InvokeInv, AskStands
  <2>5. Info[key[c]].tier \in Tiers
    BY <2>1, Together DEF Active
  <2>6. TierNow(c) # R4
    BY <2>2, <2>4, <2>5, EffectiveBelow DEF TierNow, R0, R1, R2, R3, R4
  <2>7. decision[Own(c)].by \in Authorized
    BY <2>1, <2>2 DEF InvokeInv, ByApprovers
  <2>8. Covers(Own(c), c)'
    BY <2>1, <2>3, <2>4, <2>7 DEF Covers
  <2> QED
    BY <2>1, <2>2, <2>3, <2>4, <2>6, <2>8
<1>2. ASSUME NEW k \in Keys, NEW hook \in {"none", "ask", "deny"},
             Decided(c, k, hook).verdict = "ALLOW", key' = [key EXCEPT ![c] = k],
             UNCHANGED <<runVars, brokerVars>>
      PROVE  /\ TierNow(c)' # R4
             /\ TierNow(c)' >= R2 => RuleCovers(c)' \/ \E q \in Requests : Covers(q, c)'
             /\ mode[Run(c)] \in ReadOnlyModes => Info[key'[c]].readOnly
  <2> DEFINE pre == PreApproved(Run(c), k)
             eff == Effective(Info[k], tainted[Run(c)])
  <2>1. UNCHANGED <<turn, tainted, mode, approvals, asked, decision, remembered>> /\ key'[c] = k
    BY <1>2 DEF runVars, brokerVars, InvokeInv, TypeInv
  <2>2. /\ Run(c) \in Runs /\ tainted[Run(c)] \in BOOLEAN /\ mode[Run(c)] \in Modes
        /\ pre \in BOOLEAN /\ Info[k].tier \in Tiers
    BY CallPlaces, InvokeAssumption DEF InvokeInv, TypeInv, PreApproved, KeyInfo
  <2>3. /\ ~HardDenied(Info[k], mode[Run(c)])
        /\ eff \in {R2, R3} => \/ Remembered(eff, pre, mode[Run(c)])
                               \/ RuleAllows(Info[k], eff, tainted[Run(c)], mode[Run(c)])
    BY <1>2, <2>2, LetThrough DEF Decided
  <2>4. eff \in {R0, R1, R2, R3} /\ TierNow(c)' = eff
    BY <2>1, <2>2, <2>3, EffectiveBelow DEF HardDenied, TierNow
  <2>5. mode[Run(c)] \in ReadOnlyModes => Info[key'[c]].readOnly
    BY <2>1, <2>3 DEF HardDenied
  <2>6. ASSUME eff \in {R2, R3}, RuleAllows(Info[k], eff, tainted[Run(c)], mode[Run(c)])
        PROVE  RuleCovers(c)'
    BY <2>1, <2>4, <2>6 DEF RuleAllows, RuleCovers
  <2>7. ASSUME Remembered(eff, pre, mode[Run(c)])
        PROVE  \E q \in Requests : Covers(q, c)'
    <3>1. eff = R2 /\ mode[Run(c)] # "strict" /\ pre
      BY <2>7 DEF Remembered
    <3>2. PICK q \in Requests : \/ Granted(q, k, "always")
                                \/ Granted(q, k, "session") /\ Run(q[1]) = Run(c)
      BY <2>2, <3>1 DEF PreApproved, InvokeInv, KnownFromApproval
    <3>3. /\ decision[q].status = "approved" /\ asked[q].key = k
          /\ decision[q].by \in Authorized /\ (asked[q].tier = R3 => decision[q].scope = "once")
      BY <3>2 DEF Granted, InvokeInv, ByApprovers
    <3>4. Covers(q, c)'
      BY <2>1, <2>4, <3>1, <3>2, <3>3 DEF Covers, Granted
    <3> QED
      BY <3>4
  <2> HIDE DEF eff, pre
  <2>8. eff >= R2 => eff \in {R2, R3}
    BY <2>4 DEF R0, R1, R2, R3
  <2>9. eff # R4
    BY <2>4 DEF R0, R1, R2, R3, R4
  <2> QED
    BY <2>3, <2>4, <2>5, <2>6, <2>7, <2>8, <2>9
<1>3. CASE ~Approved(c)
  <2>1. PICK k \in Keys, hook \in {"none", "ask", "deny"} :
          /\ Decided(c, k, hook).verdict = "ALLOW"
          /\ <<k, hook>> \in Emit(key[c]) /\ pc[c] = "hooking"
          /\ key' = [key EXCEPT ![c] = k]
          /\ UNCHANGED <<runVars, brokerVars>>
    BY <1>3, HowStarts, Zenon
  <2> QED
    BY <1>2, <2>1
<1> QED
  BY <1>1, <1>3

\* Whatever the hooks rewrote, however long an approval took and whatever the other calls and runs
\* did meanwhile, no call at R4 starts, and one at R2 or above starts only under a human's approval
\* of exactly these arguments or an allow rule in a clean run: HumanInTheLoop.
THEOREM HumanInTheLoopCorrect == Spec => HumanInTheLoop
<1>1. ASSUME InvokeInv, [Next]_vars
      PROVE  [\A c \in Calls : Starts(c) =>
                 /\ TierNow(c)' # R4
                 /\ TierNow(c)' >= R2 => RuleCovers(c)' \/ \E q \in Requests : Covers(q, c)']_vars
  BY <1>1, StartsAllowed
<1> QED
  BY <1>1, InvokeInvariant, PTL DEF Spec, HumanInTheLoop

\* A run leaves plan mode only by a plan a human approved, and in a read-only mode nothing that
\* may mutate starts: PlanHolds.
THEOREM PlanHoldsCorrect == Spec => PlanHolds
<1> DEFINE Left == \A r \in Runs : mode'[r] # mode[r] =>
                     /\ mode[r] = "plan"
                     /\ \E c \in Calls : Run(c) = r /\ decision[Plan(c)].status = "approved"
           Held == \A c \in Calls : Starts(c) /\ mode[Run(c)] \in ReadOnlyModes => Info[key'[c]].readOnly
<1>1. ASSUME InvokeInv, Next PROVE Left
  <2> SUFFICES ASSUME NEW r \in Runs, mode'[r] # mode[r]
               PROVE  /\ mode[r] = "plan"
                      /\ \E c \in Calls : Run(c) = r /\ decision[Plan(c)].status = "approved"
    OBVIOUS
  <2>1. ASSUME NEW c \in Calls, CallStep(c) PROVE PlanAnswered(c) \/ UNCHANGED mode
    <3>1. ASSUME NEW k \in Keys, NEW hook \in {"none", "ask", "deny"}, Hooked(c, k, hook) PROVE UNCHANGED mode
      BY <3>1 DEF Hooked, Raise, runVars
    <3> QED
      BY <2>1, <3>1 DEF CallStep, Approved, NotApproved, AskRaised, HandlerReturns, AskPlan, PlanCancelled,
                        Posted, Raise, runVars
  <2>2. PICK c \in Calls : PlanAnswered(c)
    BY <1>1, <2>1 DEF Next, StartGroup, BrokerStep, runVars
  <2>3. /\ pc[c] = "planning" /\ decision[Plan(c)].status = "approved"
        /\ mode' = [mode EXCEPT ![Run(c)] = AfterPlan[Run(c)]]
    BY <2>2 DEF PlanAnswered
  <2>4. r = Run(c)
    BY <1>1, <2>3 DEF InvokeInv, TypeInv
  <2> QED
    BY <1>1, <2>3, <2>4 DEF InvokeInv, PlanAsked
<1>2. ASSUME InvokeInv, Next PROVE Held
  BY <1>2, StartsAllowed
<1>3. ASSUME InvokeInv, [Next]_vars PROVE [Left /\ Held]_vars
  BY <1>1, <1>2, <1>3
<1> QED
  BY <1>3, InvokeInvariant, PTL DEF Spec, PlanHolds
=============================================================================
