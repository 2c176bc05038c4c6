-------------------------- MODULE ApprovalsProofs --------------------------
(***************************************************************************)
(* Proofs about the approval broker, for any number of requests, ids, keys *)
(* approvers and channels.                                                 *)
(***************************************************************************)
EXTENDS Approvals, TLAPS

\* The state of every request and approver keeps its type; the only arithmetic is
\* the channel counter, so the proof needs that notifying means "not all sent".
TypeInv ==
  /\ TypeOK
  /\ \A r \in Requests : phase[r] = "notifying" => sent[r] < Channels
  /\ \A r \in Requests : phase[r] = "idle" => sent[r] = 0

LEMMA OutcomeType ==
  ASSUME TypeOK, NEW r \in Requests
  PROVE  /\ Outcome(r) \in Verdicts
         /\ Outcome(r).status # "error"
<1>1. answer[r] \in [approved : BOOLEAN, by : Approvers \union {Nobody}, scope : Scopes]
  <2>1. CASE answer[r] \in Answers
    BY <2>1 DEF Answers
  <2>2. CASE answer[r] = NoAnswer
    BY <2>2 DEF NoAnswer, Answer, Scopes
  <2>3. QED BY <2>1, <2>2 DEF TypeOK
<1>2. CASE wake[r] = "timeout"
  BY <1>2 DEF Outcome, Verdict, Verdicts, Statuses, Scopes
<1>3. CASE wake[r] = "cancel"
  BY <1>3 DEF Outcome, Verdict, Verdicts, Statuses, Scopes
<1>4. CASE wake[r] \notin {"timeout", "cancel"}
  <2>1. Outcome(r) = [status |-> IF answer[r].approved THEN "approved" ELSE "denied",
                      by |-> answer[r].by, scope |-> answer[r].scope]
    BY <1>4 DEF Outcome, Verdict
  <2>2. QED BY <2>1, <1>1 DEF Statuses, Verdicts
<1>5. QED BY <1>2, <1>3, <1>4

LEMMA FailedType == Failed \in Verdicts /\ Verdict("cancelled", Nobody, "once") \in Verdicts
  BY DEF Failed, Verdict, Verdicts, Statuses, Scopes

LEMMA TypeInit == Init => TypeInv
  BY ApprovalsAssumption DEF Init, TypeInv, TypeOK, Absent, Undecided, Verdict, NoAnswer, Answer,
     Scopes, Statuses, Phases, FutureStates, Wakes

LEMMA AcceptType ==
  ASSUME TypeInv, NEW r \in Requests, NEW ans \in Answers, Accept(r, ans),
         resolver' \in [Approvers -> Calls \union {NoCall}]
  PROVE  TypeInv'
BY DEF TypeInv, TypeOK, Accept, FutureStates, Acceptances

LEMMA TypeStep == TypeInv /\ [Next]_vars => TypeInv'
<1> SUFFICES ASSUME TypeInv, [Next]_vars PROVE TypeInv'
  OBVIOUS
<1> USE ApprovalsAssumption DEF TypeInv, TypeOK
<1>1. ASSUME NEW r \in Requests, Store(r) PROVE TypeInv'
  BY <1>1 DEF Store, Phases
<1>2. ASSUME NEW r \in Requests, StoreFails(r) PROVE TypeInv'
  BY <1>2, FailedType DEF StoreFails, EndWith, Phases
<1>3. ASSUME NEW r \in Requests, ChannelReturns(r) PROVE TypeInv'
  <2>1. /\ sent[r] \in Nat
        /\ sent[r] < Channels
        /\ sent' = [sent EXCEPT ![r] = @ + 1]
        /\ phase[r] = "notifying"
    BY <1>3 DEF ChannelReturns
  <2>2. sent' \in [Requests -> 0..Channels]
    BY <2>1
  <2>3. /\ sent[r] + 1 = Channels => EnterWait(r)
        /\ sent[r] + 1 # Channels => UNCHANGED <<phase, wake>>
    BY <1>3 DEF ChannelReturns
  <2>4. /\ phase' = phase \/ \E p \in {"resuming", "waiting"} : phase' = [phase EXCEPT ![r] = p]
        /\ wake' = wake \/ wake' = [wake EXCEPT ![r] = "answer"]
    BY <2>3 DEF EnterWait
  <2>5. TypeOK'
    BY <1>3, <2>2, <2>4 DEF ChannelReturns, Phases, Wakes
  <2>6. phase'[r] = "notifying" => sent'[r] < Channels
    BY <2>1, <2>3 DEF EnterWait
  <2>7. \A s \in Requests : s # r => sent'[s] = sent[s] /\ phase'[s] = phase[s]
    BY <2>1, <2>4
  <2>8. phase'[r] # "idle"
    BY <2>1, <2>4
  <2>9. QED BY <2>5, <2>6, <2>7, <2>8
<1>4. ASSUME NEW r \in Requests, CancelNotifying(r) PROVE TypeInv'
  BY <1>4, FailedType DEF CancelNotifying, EndWith, Phases
<1>5. ASSUME NEW r \in Requests, WakeAnswered(r) PROVE TypeInv'
  BY <1>5 DEF WakeAnswered, Phases, Wakes
<1>6. ASSUME NEW r \in Requests, NEW why \in {"timeout", "cancel"}, Interrupt(r, why) PROVE TypeInv'
  BY <1>6 DEF Interrupt, Phases, Wakes, FutureStates
<1>7. ASSUME NEW r \in Requests, Record(r) PROVE TypeInv'
  <2>1. Outcome(r) \in Verdicts
    BY OutcomeType
  <2>2. remembered' \subseteq Keys
    BY <1>7 DEF Record
  <2>3. QED BY <1>7, <2>1, <2>2 DEF Record, EndWith, Phases
<1>8. ASSUME NEW r \in Requests, RecordFails(r) PROVE TypeInv'
  <2>1. Outcome(r) \in Verdicts
    BY OutcomeType
  <2>2. Failed \in Verdicts
    BY FailedType
  <2>3. QED BY <1>8, <2>1, <2>2 DEF RecordFails, EndWith, Phases
<1>9. ASSUME NEW a \in Approvers, NEW i \in Ids, NEW ok \in BOOLEAN, NEW scope \in Scopes,
             Check(a, i, ok, scope)
      PROVE  TypeInv'
  <2>1. Call(entry[i], ok, GrantedScope(entry[i], scope)) \in Calls
    BY <1>9 DEF Check, Resolvable, Call, Calls, GrantedScope, Scopes
  <2>2. QED BY <1>9, <2>1 DEF Check, requestVars
<1>10. ASSUME NEW a \in Approvers, SetResult(a) PROVE TypeInv'
  <2>1. resolver[a] \in Calls
    BY <1>10 DEF SetResult
  <2>2. /\ resolver[a].req \in Requests
        /\ Answer(resolver[a].approved, a, resolver[a].scope) \in Answers
    BY <2>1 DEF Calls, Answer, Answers
  <2>3. QED BY <1>10, <2>2, AcceptType DEF SetResult
<1>11. ASSUME NEW a \in Approvers, SetResultFails(a) PROVE TypeInv'
  BY <1>11 DEF SetResultFails, requestVars
<1>12. ASSUME NEW a \in Approvers, NEW i \in Ids, NEW ok \in BOOLEAN, NEW scope \in Scopes,
             ResolveOnLoop(a, i, ok, scope)
      PROVE  TypeInv'
  <2>1. entry[i] \in Requests
    BY <1>12 DEF ResolveOnLoop, Resolvable
  <2>2. Answer(ok, a, GrantedScope(entry[i], scope)) \in Answers
    BY DEF Answer, Answers, GrantedScope, Scopes
  <2>3. QED BY <1>12, <2>1, <2>2, AcceptType DEF ResolveOnLoop
<1>13. CASE UNCHANGED vars
  BY <1>13 DEF vars
<1>14. QED
  BY <1>1, <1>2, <1>3, <1>4, <1>5, <1>6, <1>7, <1>8, <1>9, <1>10, <1>11, <1>12, <1>13
     DEF Next, RequestStep, ResolveStep

\* Every variable of the broker keeps its type.
THEOREM TypeCorrect == Spec => []TypeOK
<1>1. TypeInv => TypeOK
  BY DEF TypeInv
<1>2. QED BY TypeInit, TypeStep, <1>1, PTL DEF Spec
----------------------------------------------------------------------------
(***************************************************************************)
(* The inductive invariant.  A verdict is read from the future when the    *)
(* task resumes, so the invariant follows an answer from the guards of     *)
(* resolve() (CallsInv), through the future (FuturesInv), to the resumed   *)
(* task (WakeInv); and it keeps the row of a live request pending and its  *)
(* id its own (LiveInv), so that recording one verdict disturbs no other.  *)
(***************************************************************************)
Live(r) == phase[r] \in {"notifying", "waiting", "resuming"}

CallsInv ==
  \A a \in Approvers : resolver[a] # NoCall =>
    /\ a \in Authorized
    /\ TierOf[resolver[a].req] = R3 => resolver[a].scope = "once"

FuturesInv ==
  /\ \A r \in Requests : future[r] = "answered" =>
       /\ [req |-> r, answer |-> answer[r]] \in accepted
       /\ answer[r].by \in Authorized
       /\ TierOf[r] = R3 => answer[r].scope = "once"
  /\ \A x \in accepted : future[x.req] = "answered" /\ x.answer = answer[x.req]

WakeInv ==
  \A r \in Requests : phase[r] = "resuming" =>
    \/ wake[r] \in {"timeout", "cancel"}
    \/ wake[r] = "answer" /\ future[r] = "answered"

LiveInv ==
  \A r \in Requests :
    /\ Live(r) => row[IdOf[r]] = Pending
    /\ \A s \in Requests : Live(r) /\ Live(s) /\ IdOf[r] = IdOf[s] => r = s
    /\ phase[r] # "ended" => decision[r] = Undecided

VerdictInv ==
  \A r \in Requests : decision[r].status \in {"approved", "denied"} =>
    /\ [req |-> r, answer |-> Answer(decision[r].status = "approved",
                                      decision[r].by, decision[r].scope)] \in accepted
    /\ decision[r].by \in Authorized
    /\ TierOf[r] = R3 => decision[r].scope = "once"
    /\ row[IdOf[r]] = decision[r]

Inv == TypeInv /\ CallsInv /\ FuturesInv /\ WakeInv /\ LiveInv /\ VerdictInv /\ RememberedIsEarned

\* A task that resumes with a verdict resumes with the accepted answer.
LEMMA OutcomeIsAccepted ==
  ASSUME TypeOK, FuturesInv, WakeInv, NEW r \in Requests, phase[r] = "resuming",
         Outcome(r).status \in {"approved", "denied"}
  PROVE  /\ [req |-> r, answer |-> Answer(Outcome(r).status = "approved",
                                            Outcome(r).by, Outcome(r).scope)] \in accepted
         /\ Outcome(r).by \in Authorized
         /\ TierOf[r] = R3 => Outcome(r).scope = "once"
<1>1. wake[r] \notin {"timeout", "cancel"}
  BY DEF Outcome, Verdict
<1>2. wake[r] = "answer" /\ future[r] = "answered"
  BY <1>1 DEF WakeInv
<1>3. /\ [req |-> r, answer |-> answer[r]] \in accepted
      /\ answer[r].by \in Authorized
      /\ TierOf[r] = R3 => answer[r].scope = "once"
  BY <1>2 DEF FuturesInv
<1>4. Outcome(r) = [status |-> IF answer[r].approved THEN "approved" ELSE "denied",
                    by |-> answer[r].by, scope |-> answer[r].scope]
  BY <1>1 DEF Outcome, Verdict
<1>5. answer[r] \in Answers
  BY <1>3 DEF TypeOK, Acceptances
<1>6. /\ answer[r] = [approved |-> answer[r].approved, by |-> answer[r].by, scope |-> answer[r].scope]
      /\ answer[r].approved \in BOOLEAN
  BY <1>5 DEF Answers
<1>7. (Outcome(r).status = "approved") = answer[r].approved
  BY <1>4, <1>6
<1>8. Answer(Outcome(r).status = "approved", Outcome(r).by, Outcome(r).scope) = answer[r]
  <2>1. Outcome(r).by = answer[r].by /\ Outcome(r).scope = answer[r].scope
    BY <1>4
  <2>2. Answer(Outcome(r).status = "approved", Outcome(r).by, Outcome(r).scope)
          = [approved |-> answer[r].approved, by |-> answer[r].by, scope |-> answer[r].scope]
    BY <1>7, <2>1 DEF Answer
  <2>3. QED BY <2>2, <1>6
<1>9. QED BY <1>3, <1>4, <1>8

LEMMA InvInit == Init => Inv
<1> SUFFICES ASSUME Init PROVE Inv
  OBVIOUS
<1>1. TypeInv
  BY TypeInit
<1>2. CallsInv /\ FuturesInv /\ WakeInv /\ RememberedIsEarned
  BY DEF Init, CallsInv, FuturesInv, WakeInv, RememberedIsEarned
<1>3. LiveInv /\ VerdictInv
  BY DEF Init, LiveInv, VerdictInv, Live, Undecided, Verdict
<1>4. QED BY <1>1, <1>2, <1>3 DEF Inv

\* The row of a request about to record is nobody's verdict.
LEMMA LiveRowPending ==
  ASSUME LiveInv, NEW r \in Requests, phase[r] = "resuming"
  PROVE  row[IdOf[r]].status = "pending"
<1>1. row[IdOf[r]] = Pending
  BY DEF LiveInv, Live
<1>2. QED BY <1>1 DEF Pending, Verdict

\* An authorised answer to an unset future keeps the invariant, whichever
\* thread it comes from.
LEMMA AcceptKeepsInv ==
  ASSUME Inv, TypeInv', CallsInv', NEW r \in Requests, NEW ans, Accept(r, ans), future[r] = "unset",
         ans.by \in Authorized, TierOf[r] = R3 => ans.scope = "once"
  PROVE  Inv'
<1>1. /\ future' = [future EXCEPT ![r] = "answered"]
      /\ answer' = [answer EXCEPT ![r] = ans]
      /\ accepted' = accepted \union {[req |-> r, answer |-> ans]}
      /\ UNCHANGED <<row, phase, wake, decision, remembered>>
  BY DEF Accept
<1>2. FuturesInv'
  BY <1>1 DEF Inv, FuturesInv, TypeInv, TypeOK
<1>3. WakeInv' /\ LiveInv' /\ RememberedIsEarned'
  BY <1>1 DEF Inv, WakeInv, LiveInv, Live, RememberedIsEarned, TypeInv, TypeOK
<1>4. VerdictInv'
  BY <1>1 DEF Inv, VerdictInv
<1>5. QED BY <1>2, <1>3, <1>4 DEF Inv

LEMMA InvStep == Inv /\ [Next]_vars => Inv'
<1> SUFFICES ASSUME Inv, [Next]_vars PROVE Inv'
  OBVIOUS
<1>0. TypeInv'
  BY TypeStep DEF Inv
<1> USE ApprovalsAssumption DEF Inv, TypeInv, TypeOK
<1>1. ASSUME NEW r \in Requests, Store(r) PROVE Inv'
  <2>1. CallsInv' /\ FuturesInv'
    BY <1>1 DEF CallsInv, FuturesInv, Store, Pending, Absent, Verdict
  <2>2. WakeInv'
    BY <1>1 DEF WakeInv, Store, Pending, Absent, Verdict
  <2>3. LiveInv'
    BY <1>1 DEF LiveInv, Live, Store, Pending, Absent, Verdict
  <2>4. VerdictInv'
    BY <1>1 DEF VerdictInv, LiveInv, Live, Store, Pending, Absent, Verdict
  <2>5. RememberedIsEarned'
    BY <1>1 DEF RememberedIsEarned, LiveInv, Store, Pending, Absent, Verdict
  <2>6. QED BY <1>0, <2>1, <2>2, <2>3, <2>4, <2>5
<1>2. ASSUME NEW r \in Requests, StoreFails(r) PROVE Inv'
  <2>1. CallsInv' /\ FuturesInv'
    BY <1>2 DEF CallsInv, FuturesInv, StoreFails, EndWith, Failed, Verdict, Undecided
  <2>2. WakeInv'
    BY <1>2 DEF WakeInv, StoreFails, EndWith, Failed, Verdict, Undecided
  <2>3. LiveInv'
    BY <1>2 DEF LiveInv, Live, StoreFails, EndWith, Failed, Verdict, Undecided
  <2>4. VerdictInv'
    BY <1>2 DEF VerdictInv, LiveInv, Live, StoreFails, EndWith, Failed, Verdict, Undecided
  <2>5. RememberedIsEarned'
    BY <1>2 DEF RememberedIsEarned, LiveInv, StoreFails, EndWith, Failed, Verdict, Undecided
  <2>6. QED BY <1>0, <2>1, <2>2, <2>3, <2>4, <2>5
<1>3. ASSUME NEW r \in Requests, ChannelReturns(r) PROVE Inv'
  <2>1. CallsInv' /\ FuturesInv'
    BY <1>3 DEF CallsInv, FuturesInv, ChannelReturns, EnterWait
  <2>2. WakeInv'
    BY <1>3 DEF WakeInv, ChannelReturns, EnterWait
  <2>3. LiveInv'
    BY <1>3 DEF LiveInv, Live, ChannelReturns, EnterWait
  <2>4. VerdictInv'
    BY <1>3 DEF VerdictInv, LiveInv, Live, ChannelReturns, EnterWait
  <2>5. RememberedIsEarned'
    BY <1>3 DEF RememberedIsEarned, LiveInv, ChannelReturns, EnterWait
  <2>6. QED BY <1>0, <2>1, <2>2, <2>3, <2>4, <2>5
<1>4. ASSUME NEW r \in Requests, CancelNotifying(r) PROVE Inv'
  <2>1. CallsInv' /\ FuturesInv'
    BY <1>4 DEF CallsInv, FuturesInv, CancelNotifying, EndWith, Verdict, Undecided
  <2>2. WakeInv'
    BY <1>4 DEF WakeInv, CancelNotifying, EndWith, Verdict, Undecided
  <2>3. LiveInv'
    BY <1>4 DEF LiveInv, Live, CancelNotifying, EndWith, Verdict, Undecided
  <2>4. VerdictInv'
    BY <1>4 DEF VerdictInv, LiveInv, Live, CancelNotifying, EndWith, Verdict, Undecided
  <2>5. RememberedIsEarned'
    BY <1>4 DEF RememberedIsEarned, LiveInv, CancelNotifying, EndWith, Verdict, Undecided
  <2>6. QED BY <1>0, <2>1, <2>2, <2>3, <2>4, <2>5
<1>5. ASSUME NEW r \in Requests, WakeAnswered(r) PROVE Inv'
  <2>1. CallsInv' /\ FuturesInv'
    BY <1>5 DEF CallsInv, FuturesInv, WakeAnswered
  <2>2. WakeInv'
    BY <1>5 DEF WakeInv, WakeAnswered
  <2>3. LiveInv'
    BY <1>5 DEF LiveInv, Live, WakeAnswered
  <2>4. VerdictInv'
    BY <1>5 DEF VerdictInv, LiveInv, Live, WakeAnswered
  <2>5. RememberedIsEarned'
    BY <1>5 DEF RememberedIsEarned, LiveInv, WakeAnswered
  <2>6. QED BY <1>0, <2>1, <2>2, <2>3, <2>4, <2>5
<1>6. ASSUME NEW r \in Requests, NEW why \in {"timeout", "cancel"}, Interrupt(r, why) PROVE Inv'
  <2>1. CallsInv' /\ FuturesInv'
    BY <1>6 DEF CallsInv, FuturesInv, Interrupt
  <2>2. WakeInv'
    BY <1>6 DEF WakeInv, Interrupt
  <2>3. LiveInv'
    BY <1>6 DEF LiveInv, Live, Interrupt
  <2>4. VerdictInv'
    BY <1>6 DEF VerdictInv, LiveInv, Live, Interrupt
  <2>5. RememberedIsEarned'
    BY <1>6 DEF RememberedIsEarned, LiveInv, Interrupt
  <2>6. QED BY <1>0, <2>1, <2>2, <2>3, <2>4, <2>5
<1>7. ASSUME NEW r \in Requests, Record(r) PROVE Inv'
  <2> DEFINE v == Outcome(r)
  <2>1. /\ phase[r] = "resuming"
        /\ row' = [row EXCEPT ![IdOf[r]] = v]
        /\ decision' = [decision EXCEPT ![r] = v]
        /\ phase' = [phase EXCEPT ![r] = "ended"]
        /\ UNCHANGED <<future, answer, wake, resolver, accepted>>
    BY <1>7 DEF Record, EndWith
  <2>2. CallsInv' /\ FuturesInv' /\ WakeInv'
    BY <2>1 DEF CallsInv, FuturesInv, WakeInv
  <2>3. LiveInv'
    BY <2>1 DEF LiveInv, Live
  <2>4. VerdictInv'
    <3>1. ASSUME v.status \in {"approved", "denied"}
          PROVE  /\ [req |-> r, answer |-> Answer(v.status = "approved", v.by, v.scope)] \in accepted
                 /\ v.by \in Authorized
                 /\ TierOf[r] = R3 => v.scope = "once"
      BY <2>1, <3>1, OutcomeIsAccepted
    <3>2. ASSUME NEW s \in Requests, s # r, decision[s].status \in {"approved", "denied"}
          PROVE  IdOf[s] # IdOf[r]
      <4>1. row[IdOf[r]].status = "pending"
        BY <2>1, LiveRowPending
      <4>2. row[IdOf[s]] = decision[s]
        BY <3>2 DEF VerdictInv
      <4> HIDE DEF Inv, TypeInv, TypeOK
      <4> QED BY <3>2, <4>1, <4>2
    <3>3. decision'[r] = v /\ row'[IdOf[r]] = v
      BY <2>1
    <3>4. \A s \in Requests : s # r => decision'[s] = decision[s]
      BY <2>1
    <3>5. \A s \in Requests : s # r /\ decision[s].status \in {"approved", "denied"}
                               => row'[IdOf[s]] = row[IdOf[s]]
      BY <2>1, <3>2
    <3> HIDE DEF v
    <3>6. QED BY <2>1, <3>1, <3>3, <3>4, <3>5 DEF VerdictInv
  <2>5. RememberedIsEarned'
    <3>1. \A s \in Requests : decision[s].status = "approved" => decision'[s] = decision[s]
      BY <2>1 DEF LiveInv, Undecided, Verdict
    <3>2. ASSUME Remembers(r)
          PROVE  TierOf[r] # R3 /\ decision'[r].status = "approved" /\ decision'[r].scope = "always"
      BY <2>1, <3>2 DEF Remembers
    <3>3. remembered' = IF Remembers(r) THEN remembered \union {KeyOf[r]} ELSE remembered
      BY <1>7 DEF Record
    <3>4. QED BY <3>1, <3>2, <3>3 DEF RememberedIsEarned
  <2>6. QED BY <1>0, <2>2, <2>3, <2>4, <2>5
<1>8. ASSUME NEW r \in Requests, RecordFails(r) PROVE Inv'
  <2>1. /\ phase[r] = "resuming"
        /\ row' = row \/ row' = [row EXCEPT ![IdOf[r]] = Outcome(r)]
        /\ decision' = [decision EXCEPT ![r] = Failed]
        /\ phase' = [phase EXCEPT ![r] = "ended"]
        /\ UNCHANGED <<future, answer, wake, resolver, accepted, remembered>>
    BY <1>8 DEF RecordFails, EndWith
  <2>2. CallsInv' /\ FuturesInv' /\ WakeInv'
    BY <2>1 DEF CallsInv, FuturesInv, WakeInv
  <2>3. LiveInv'
    BY <2>1 DEF LiveInv, Live
  <2>4. VerdictInv'
    <3>1. ASSUME NEW s \in Requests, s # r, decision[s].status \in {"approved", "denied"}
          PROVE  IdOf[s] # IdOf[r]
      <4>1. row[IdOf[r]].status = "pending"
        BY <2>1, LiveRowPending
      <4>2. row[IdOf[s]] = decision[s]
        BY <3>1 DEF VerdictInv
      <4> HIDE DEF Inv, TypeInv, TypeOK
      <4> QED BY <3>1, <4>1, <4>2
    <3>2. decision'[r].status \notin {"approved", "denied"}
      BY <2>1 DEF Failed, Verdict
    <3>3. QED BY <2>1, <3>1, <3>2 DEF VerdictInv
  <2>5. RememberedIsEarned'
    BY <2>1 DEF RememberedIsEarned, LiveInv, Undecided, Verdict
  <2>6. QED BY <1>0, <2>2, <2>3, <2>4, <2>5
<1>9. ASSUME NEW a \in Approvers, NEW i \in Ids, NEW ok \in BOOLEAN, NEW scope \in Scopes,
             Check(a, i, ok, scope)
      PROVE  Inv'
  <2>1. CallsInv'
    BY <1>9 DEF CallsInv, Check, Resolvable, Call, GrantedScope
  <2>2. UNCHANGED <<requestVars, accepted>>
    BY <1>9 DEF Check
  <2>3. FuturesInv' /\ WakeInv' /\ LiveInv' /\ VerdictInv' /\ RememberedIsEarned'
    BY <2>2 DEF requestVars, FuturesInv, WakeInv, LiveInv, Live, VerdictInv, RememberedIsEarned
  <2>4. QED BY <1>0, <2>1, <2>3
<1>10. ASSUME NEW a \in Approvers, SetResult(a) PROVE Inv'
  <2> DEFINE c == resolver[a]
             ans == Answer(c.approved, a, c.scope)
  <2>1. /\ c \in Calls
        /\ future[c.req] = "unset"
        /\ Accept(c.req, ans)
        /\ resolver' = [resolver EXCEPT ![a] = NoCall]
    BY <1>10 DEF SetResult
  <2>2. c.req \in Requests
    BY <2>1 DEF Calls
  <2>3. a \in Authorized /\ (TierOf[c.req] = R3 => c.scope = "once")
    BY <1>10 DEF CallsInv, SetResult
  <2>4. CallsInv'
    BY <2>1 DEF CallsInv
  <2>5. ans.by = a /\ ans.scope = c.scope
    BY DEF Answer
  <2> HIDE DEF c, ans
  <2>6. QED BY <1>0, <2>1, <2>2, <2>3, <2>4, <2>5, AcceptKeepsInv
<1>11. ASSUME NEW a \in Approvers, SetResultFails(a) PROVE Inv'
  <2>1. CallsInv'
    BY <1>11 DEF CallsInv, SetResultFails
  <2>2. UNCHANGED <<requestVars, accepted>>
    BY <1>11 DEF SetResultFails
  <2>3. FuturesInv' /\ WakeInv' /\ LiveInv' /\ VerdictInv' /\ RememberedIsEarned'
    BY <2>2 DEF requestVars, FuturesInv, WakeInv, LiveInv, Live, VerdictInv, RememberedIsEarned
  <2>4. QED BY <1>0, <2>1, <2>3
<1>12. ASSUME NEW a \in Approvers, NEW i \in Ids, NEW ok \in BOOLEAN, NEW scope \in Scopes,
             ResolveOnLoop(a, i, ok, scope)
      PROVE  Inv'
  <2> DEFINE ans == Answer(ok, a, GrantedScope(entry[i], scope))
  <2>1. /\ a \in Authorized
        /\ entry[i] \in Requests
        /\ future[entry[i]] = "unset"
        /\ Accept(entry[i], ans)
        /\ UNCHANGED resolver
    BY <1>12 DEF ResolveOnLoop, Resolvable
  <2>2. ans.by = a /\ (TierOf[entry[i]] = R3 => ans.scope = "once")
    BY DEF Answer, GrantedScope
  <2>3. CallsInv'
    BY <2>1 DEF CallsInv
  <2> HIDE DEF ans
  <2>4. QED BY <1>0, <2>1, <2>2, <2>3, AcceptKeepsInv
<1>13. CASE UNCHANGED vars
  BY <1>0, <1>13 DEF vars, CallsInv, FuturesInv, WakeInv, LiveInv, Live, VerdictInv, RememberedIsEarned
<1>14. QED
  BY <1>1, <1>2, <1>3, <1>4, <1>5, <1>6, <1>7, <1>8, <1>9, <1>10, <1>11, <1>12, <1>13
     DEF Next, RequestStep, ResolveStep

LEMMA InvCorrect == Spec => []Inv
  BY InvInit, InvStep, PTL DEF Spec

\* First answer wins: at most one resolve() call per request is told True, and a
\* verdict request() returned is that answer, authorised, within its scope, recorded.
THEOREM FirstAnswerWins == Spec => []VerdictIsAccepted
<1>1. Inv => VerdictIsAccepted
  <2> SUFFICES ASSUME Inv, NEW r \in Requests, NEW x \in AcceptedFor(r), NEW y \in AcceptedFor(r)
               PROVE  x = y
    BY DEF Inv, VerdictInv, VerdictIsAccepted
  <2>1. /\ x \in [req : Requests, answer : Answers] /\ x.req = r /\ x.answer = answer[r]
        /\ y \in [req : Requests, answer : Answers] /\ y.req = r /\ y.answer = answer[r]
    BY DEF Inv, FuturesInv, AcceptedFor, TypeInv, TypeOK, Acceptances
  <2>2. QED BY <2>1
<1>2. QED BY InvCorrect, <1>1, PTL

\* No key is remembered without an approval "always" of that key below R3.
THEOREM RememberedCorrect == Spec => []RememberedIsEarned
<1>1. Inv => RememberedIsEarned
  BY DEF Inv
<1>2. QED BY InvCorrect, <1>1, PTL

\* No decided row is ever rewritten, by whatever request.
THEOREM RecordedOnceCorrect == Spec => RecordedOnce
<1>1. ASSUME Inv, [Next]_vars, NEW i \in Ids, row[i].status \in Statuses
      PROVE  row'[i] = row[i]
  <2> USE <1>1, ApprovalsAssumption DEF Inv, TypeInv, TypeOK
  <2>1. ASSUME NEW r \in Requests, Store(r) PROVE row'[i] = row[i]
    <3>1. IdOf[r] # i
      BY <2>1 DEF Store, Absent, Verdict, Statuses
    <3>2. QED BY <2>1, <3>1 DEF Store
  <2>2. ASSUME NEW r \in Requests, Record(r) \/ RecordFails(r) PROVE row'[i] = row[i]
    <3>1. row[IdOf[r]].status = "pending"
      BY <2>2, LiveRowPending DEF Record, RecordFails
    <3>2. IdOf[r] # i
      BY <3>1 DEF Statuses
    <3>3. QED BY <2>2, <3>2 DEF Record, RecordFails
  <2>3. CASE UNCHANGED row
    BY <2>3
  <2>4. QED
    BY <2>1, <2>2, <2>3 DEF Next, RequestStep, ResolveStep, StoreFails, ChannelReturns,
       CancelNotifying, WakeAnswered, Interrupt, Check, SetResult, SetResultFails, ResolveOnLoop,
       Accept, requestVars, vars
<1>2. Inv /\ [Next]_vars => [\A i \in Ids : row[i].status \in Statuses => row'[i] = row[i]]_vars
  BY <1>1
<1>3. QED BY InvCorrect, <1>2, PTL DEF Spec, RecordedOnce
----------------------------------------------------------------------------
(* The refinement: the broker implements ApprovalContract. *)

AbstractAsked == [r \in Requests |-> AbstractQuestion(r)]
AbstractDecision == [r \in Requests |-> Abstract(r)]

\* A step that moves no request between idle, open and ended, and remembers
\* nothing, is a stuttering step of the contract.
LEMMA Stutters ==
  ASSUME UNCHANGED <<decision, remembered>>,
         \A r \in Requests : /\ phase[r] = "idle" <=> phase'[r] = "idle"
                             /\ phase[r] = "ended" <=> phase'[r] = "ended"
  PROVE  UNCHANGED <<AbstractAsked, AbstractDecision, remembered>>
BY DEF AbstractAsked, AbstractQuestion, AbstractDecision, Abstract

\* The end of one request is one step of its abstract decision.
LEMMA EndsOne ==
  ASSUME TypeOK, NEW r \in Requests, NEW v, EndWith(r, v)
  PROVE  /\ AbstractDecision' = [AbstractDecision EXCEPT ![r] = v]
         /\ phase[r] # "idle" => UNCHANGED AbstractAsked
<1>1. phase'[r] = "ended" /\ decision'[r] = v
  BY DEF EndWith, TypeOK
<1>2. \A s \in Requests : s # r => phase'[s] = phase[s] /\ decision'[s] = decision[s]
  BY DEF EndWith, TypeOK
<1>3. \A s \in Requests : Abstract(s)' = IF s = r THEN v ELSE Abstract(s)
  BY <1>1, <1>2 DEF Abstract
<1>4. phase[r] # "idle" => UNCHANGED AbstractAsked
  BY <1>1, <1>2 DEF AbstractAsked, AbstractQuestion
<1>5. QED BY <1>3, <1>4 DEF AbstractDecision

\* A request that leaves "idle" asks its question.
LEMMA AsksOne ==
  ASSUME NEW r \in Requests, phase'[r] # "idle",
         \A s \in Requests : s # r => phase'[s] = phase[s]
  PROVE  AbstractAsked' = [AbstractAsked EXCEPT ![r] = Contract!Question(KeyOf[r], TierOf[r])]
<1>1. \A s \in Requests : AbstractQuestion(s)' = IF s = r THEN Contract!Question(KeyOf[r], TierOf[r])
                                                        ELSE AbstractQuestion(s)
  BY DEF AbstractQuestion, Contract!Question
<1>2. QED BY <1>1 DEF AbstractAsked

LEMMA ContractInit == Init => Contract!Init
BY DEF Init, Abstract, AbstractQuestion, Undecided, Verdict, R0, Contract!Init,
       Contract!NoQuestion, Contract!Question, Contract!R0, Contract!Idle, Contract!Verdict

LEMMA ContractStep == Inv /\ [Next]_vars => [Contract!Next]_(Contract!vars)
<1> SUFFICES ASSUME Inv, [Next]_vars
             PROVE  Contract!Next \/ UNCHANGED <<AbstractAsked, AbstractDecision, remembered>>
  BY DEF Contract!vars, AbstractAsked, AbstractDecision
<1> USE ApprovalsAssumption DEF Inv, TypeInv, TypeOK
<1>1. ASSUME NEW r \in Requests, Store(r) PROVE Contract!Begin(r, KeyOf[r], TierOf[r])
  <2>1. AbstractDecision[r] = Contract!Idle
    BY <1>1 DEF Store, AbstractDecision, Abstract, Undecided, Verdict, Contract!Idle, Contract!Verdict
  <2>2. \A s \in Requests : Abstract(s)' = IF s = r THEN Contract!Open ELSE Abstract(s)
    BY <1>1 DEF Store, Abstract, Verdict, Contract!Open, Contract!Verdict
  <2>3. AbstractDecision' = [AbstractDecision EXCEPT ![r] = Contract!Open]
    BY <2>2 DEF AbstractDecision
  <2>4. AbstractAsked' = [AbstractAsked EXCEPT ![r] = Contract!Question(KeyOf[r], TierOf[r])]
    BY <1>1, AsksOne DEF Store
  <2>5. QED BY <1>1, <2>1, <2>3, <2>4 DEF Store, Contract!Begin, AbstractDecision, AbstractAsked
<1>2. ASSUME NEW r \in Requests, StoreFails(r) PROVE Contract!Refuse(r, KeyOf[r], TierOf[r])
  <2>1. AbstractDecision[r] = Contract!Idle
    BY <1>2 DEF StoreFails, AbstractDecision, Abstract, Undecided, Verdict, Contract!Idle, Contract!Verdict
  <2>2. AbstractDecision' = [AbstractDecision EXCEPT ![r] = Failed]
    BY <1>2, EndsOne DEF StoreFails
  <2>3. AbstractAsked' = [AbstractAsked EXCEPT ![r] = Contract!Question(KeyOf[r], TierOf[r])]
    BY <1>2, AsksOne DEF StoreFails, EndWith
  <2>4. QED BY <1>2, <2>1, <2>2, <2>3 DEF StoreFails, Contract!Refuse, Contract!Verdict, Failed, Verdict,
                AbstractDecision, AbstractAsked
<1>3. ASSUME NEW r \in Requests, Live(r) PROVE AbstractDecision[r] = Contract!Open
  BY <1>3 DEF Live, AbstractDecision, Abstract, Verdict, Contract!Open, Contract!Verdict
<1>4. ASSUME NEW r \in Requests, Live(r), NEW v \in Contract!Unanswered, EndWith(r, v),
             UNCHANGED remembered
      PROVE  Contract!GiveUp(r)
  <2>1. AbstractDecision' = [AbstractDecision EXCEPT ![r] = v] /\ UNCHANGED AbstractAsked
    BY <1>4, EndsOne DEF Live
  <2>2. QED BY <1>3, <1>4, <2>1 DEF Contract!GiveUp, AbstractDecision, AbstractAsked
<1>5. ASSUME NEW r \in Requests, CancelNotifying(r) PROVE Contract!GiveUp(r)
  BY <1>4, <1>5 DEF CancelNotifying, Live, Contract!Unanswered, Contract!Verdict, Verdict
<1>6. ASSUME NEW r \in Requests, RecordFails(r) PROVE Contract!GiveUp(r)
  BY <1>4, <1>6 DEF RecordFails, Live, Contract!Unanswered, Contract!Verdict, Verdict, Failed
<1>7. ASSUME NEW r \in Requests, Record(r) PROVE Contract!Next
  <2> DEFINE v == Outcome(r)
  <2>1. /\ Live(r)
        /\ phase[r] = "resuming"
        /\ EndWith(r, v)
        /\ remembered' = IF Remembers(r) THEN remembered \union {KeyOf[r]} ELSE remembered
    BY <1>7 DEF Record, Live
  <2>2. AbstractDecision[r] = Contract!Open
    BY <2>1, <1>3
  <2>3. AbstractDecision' = [AbstractDecision EXCEPT ![r] = v] /\ UNCHANGED AbstractAsked
    BY <2>1, EndsOne
  <2>4. CASE wake[r] \in {"timeout", "cancel"}
    <3>1. v \in Contract!Unanswered
      BY <2>4 DEF Outcome, Verdict, Contract!Unanswered, Contract!Verdict
    <3>2. ~Remembers(r)
      BY <2>4 DEF Remembers, Outcome, Verdict
    <3>3. Contract!GiveUp(r)
      BY <1>4, <2>1, <3>1, <3>2
    <3>4. QED BY <3>3 DEF Contract!Next, Contract!Settle
  <2>5. CASE wake[r] \notin {"timeout", "cancel"}
    <3>1. v = [status |-> IF answer[r].approved THEN "approved" ELSE "denied",
               by |-> answer[r].by, scope |-> answer[r].scope]
      BY <2>5 DEF Outcome, Verdict
    <3>2. v.status \in {"approved", "denied"}
      BY <3>1
    <3>3. v.by \in Authorized /\ (TierOf[r] = R3 => v.scope = "once")
      BY <2>1, <3>2, OutcomeIsAccepted
    <3>4. v.scope \in Contract!Scopes
      BY OutcomeType DEF Verdicts, Scopes, Contract!Scopes
    <3>5. v = Contract!Verdict(v.status, v.by, v.scope)
      BY <3>1 DEF Contract!Verdict
    <3>6. Remembers(r) <=> v.status = "approved" /\ v.scope = "always"
      BY <3>3 DEF Remembers
    <3> HIDE DEF v
    <3>7. CASE v.status = "approved"
      <4>1. AbstractDecision' = [AbstractDecision EXCEPT ![r] = Contract!Verdict("approved", v.by, v.scope)]
        BY <2>3, <3>5, <3>7
      <4>2. remembered' = IF v.scope = "always" THEN remembered \union {KeyOf[r]} ELSE remembered
        BY <2>1, <3>6, <3>7
      <4>3. Contract!Approve(r, v.by, v.scope)
        <5>1. /\ AbstractAsked[r].key = KeyOf[r]
              /\ AbstractAsked[r].tier = TierOf[r]
          BY <2>1 DEF AbstractAsked, AbstractQuestion, Live
        <5>2. QED BY <2>2, <2>3, <3>3, <4>1, <4>2, <5>1
                  DEF Contract!Approve, AbstractDecision, AbstractAsked, Contract!R3, R3
      <4>4. QED BY <3>3, <3>4, <4>3 DEF Contract!Next, Contract!Settle
    <3>8. CASE v.status = "denied"
      <4>1. AbstractDecision' = [AbstractDecision EXCEPT ![r] = Contract!Verdict("denied", v.by, v.scope)]
        BY <2>3, <3>5, <3>8
      <4>2. remembered' = remembered
        BY <2>1, <3>6, <3>8
      <4>3. Contract!Deny(r, v.by, v.scope)
        BY <2>2, <2>3, <4>1, <4>2 DEF Contract!Deny, AbstractDecision, AbstractAsked
      <4>4. QED BY <3>3, <3>4, <4>3 DEF Contract!Next, Contract!Settle
    <3>9. QED BY <3>2, <3>7, <3>8
  <2>6. QED BY <2>4, <2>5
<1>8. ASSUME NEW r \in Requests,
             ChannelReturns(r) \/ WakeAnswered(r) \/ \E why \in {"timeout", "cancel"} : Interrupt(r, why)
      PROVE  UNCHANGED <<AbstractAsked, AbstractDecision, remembered>>
  BY <1>8, Stutters DEF ChannelReturns, EnterWait, WakeAnswered, Interrupt
<1>9. ASSUME NEW a \in Approvers, ResolveStep(a) PROVE UNCHANGED <<AbstractAsked, AbstractDecision, remembered>>
  <2>1. UNCHANGED <<phase, decision, remembered>>
    BY <1>9 DEF ResolveStep, Check, SetResult, SetResultFails, ResolveOnLoop, Accept, requestVars
  <2>2. QED BY <2>1, Stutters
<1>10. CASE UNCHANGED vars
  BY <1>10, Stutters DEF vars
<1>11. \A r \in Requests : KeyOf[r] \in Keys /\ TierOf[r] \in Contract!Tiers
  BY DEF Tiers, Contract!Tiers, R0, R4, Contract!R0, Contract!R4
<1>12. QED
  BY <1>11, <1>1, <1>2, <1>5, <1>6, <1>7, <1>8, <1>9, <1>10
     DEF Next, RequestStep, Contract!Next, Contract!Settle

\* The broker keeps the contract its callers rely on.
THEOREM BrokerKeepsContract == Spec => KeepsContract
BY InvCorrect, ContractInit, ContractStep, PTL DEF Spec, KeepsContract, Contract!Spec
=============================================================================
