----------------------------- MODULE Approvals -----------------------------
(***************************************************************************)
(* The approval broker, core/approvals.py, as its callers drive it: each   *)
(* request is a coroutine on the event loop; each answer is a call of      *)
(* resolve().  Telegram and the terminal answer on the event loop, in one  *)
(* step.  POST /approvals/{id} has a sync handler, so it answers from a    *)
(* worker thread, and its check of the future and its set_result are two   *)
(* steps between which the loop and other threads may run.                 *)
(*                                                                         *)
(* Abstracted: the rendering of a request and the note of an answer; the   *)
(* fnmatch patterns of the allowlist are the set Authorized; an args hash  *)
(* is part of KeyOf.  The state a resolve() call that returns FALSE leaves *)
(* is the state it found, so a refused call is a stuttering step.          *)
(***************************************************************************)
EXTENDS RiskTier

CONSTANTS Requests, Ids, Keys, Approvers,
          IdOf,        \* ApprovalRequest.id: a fresh uuid4, or the caller's fixed id
          KeyOf,       \* (tool, args_hash) of each request
          TierOf,      \* its risk tier
          Authorized,  \* the approvers that match the allowlist
          Threads,     \* the approvers who answer through the API's worker threads
          Channels,    \* how many notification channels are registered
          Nobody,      \* decided_by NULL
          NoRequest,   \* no entry in _pending
          NoKey        \* the key of a request not made yet, in the contract

ASSUME ApprovalsAssumption ==
  /\ IdOf \in [Requests -> Ids]
  /\ KeyOf \in [Requests -> Keys]
  /\ TierOf \in [Requests -> Tiers]
  /\ Authorized \subseteq Approvers
  /\ Threads \subseteq Approvers
  /\ Channels \in Nat
  /\ Nobody \notin Approvers
  /\ NoRequest \notin Requests

VARIABLES row,         \* the approvals table, by id
          entry,       \* _pending, by id
          phase,       \* where each request() coroutine is
          sent,        \* channels already awaited
          future,      \* state of the asyncio future of each request
          answer,      \* its result, once set_result ran
          wake,        \* what ended the wait
          decision,    \* what request() returned, or raised
          remembered,  \* the approval_rules table
          resolver,    \* per approver, a resolve() call between its check and set_result
          accepted     \* history: the answers whose resolve() returned True

requestVars == <<row, entry, phase, sent, future, answer, wake, decision, remembered>>
vars == <<row, entry, phase, sent, future, answer, wake, decision, remembered, resolver, accepted>>

Scopes == {"once", "session", "always"}

Answer(ok, by, scope) == [approved |-> ok, by |-> by, scope |-> scope]
Answers == [approved : BOOLEAN, by : Approvers, scope : Scopes]
NoAnswer == Answer(FALSE, Nobody, "once")

Verdict(status, by, scope) == [status |-> status, by |-> by, scope |-> scope]
Undecided == Verdict("idle", Nobody, "once")
Absent == Verdict("absent", Nobody, "once")
Pending == Verdict("pending", Nobody, "once")
Failed == Verdict("error", Nobody, "once")

\* A resolve() call at rest, and one that has passed its guards.
NoCall == [req |-> NoRequest, approved |-> FALSE, scope |-> "once"]
Call(r, ok, scope) == [req |-> r, approved |-> ok, scope |-> scope]
Calls == [req : Requests, approved : BOOLEAN, scope : Scopes]

Init ==
  /\ row = [i \in Ids |-> Absent]
  /\ entry = [i \in Ids |-> NoRequest]
  /\ phase = [r \in Requests |-> "idle"]
  /\ sent = [r \in Requests |-> 0]
  /\ future = [r \in Requests |-> "unset"]
  /\ answer = [r \in Requests |-> NoAnswer]
  /\ wake = [r \in Requests |-> "none"]
  /\ decision = [r \in Requests |-> Undecided]
  /\ remembered = {}
  /\ resolver = [a \in Approvers |-> NoCall]
  /\ accepted = {}
----------------------------------------------------------------------------
(* request(): store, notify, wait, record. *)

\* The request ends by raising or returning v.
EndWith(r, v) ==
  /\ phase' = [phase EXCEPT ![r] = "ended"]
  /\ decision' = [decision EXCEPT ![r] = v]

\* The await of wait_for: a future that was answered while the channels were
\* being notified does not suspend the task, so nothing can interrupt it.
EnterWait(r) ==
  IF future[r] = "answered"
  THEN /\ phase' = [phase EXCEPT ![r] = "resuming"]
       /\ wake' = [wake EXCEPT ![r] = "answer"]
  ELSE /\ phase' = [phase EXCEPT ![r] = "waiting"]
       /\ UNCHANGED wake

\* _store: the INSERT fails on a primary key that exists, and may fail on a
\* locked database; request() then raises before it touches _pending.
StoreFails(r) ==
  /\ phase[r] = "idle"
  /\ EndWith(r, Failed)
  /\ UNCHANGED <<row, entry, sent, future, answer, wake, remembered, resolver, accepted>>

\* Mutant of Store: INSERT OR REPLACE, so a second request takes over the id.
StoreReplaces(r) ==
  /\ phase[r] = "idle"
  /\ row' = [row EXCEPT ![IdOf[r]] = Pending]
  /\ entry' = [entry EXCEPT ![IdOf[r]] = r]
  /\ phase' = [phase EXCEPT ![r] = IF Channels = 0 THEN "waiting" ELSE "notifying"]
  /\ UNCHANGED <<sent, future, answer, wake, decision, remembered, resolver, accepted>>

\* _store, the new future, its _pending entry, up to the first await.
Store(r) ==
  /\ phase[r] = "idle"
  /\ row[IdOf[r]] = Absent
  /\ row' = [row EXCEPT ![IdOf[r]] = Pending]
  /\ entry' = [entry EXCEPT ![IdOf[r]] = r]
  /\ phase' = [phase EXCEPT ![r] = IF Channels = 0 THEN "waiting" ELSE "notifying"]
  /\ UNCHANGED <<sent, future, answer, wake, decision, remembered, resolver, accepted>>

\* Mutant of ChannelReturns: one channel too many.
ChannelReturnsLate(r) ==
  /\ phase[r] = "notifying"
  /\ sent' = [sent EXCEPT ![r] = @ + 1]
  /\ IF sent[r] = Channels THEN EnterWait(r) ELSE UNCHANGED <<phase, wake>>
  /\ UNCHANGED <<row, entry, future, answer, decision, remembered, resolver, accepted>>

\* One channel returned or raised an Exception; either way the loop goes on.
ChannelReturns(r) ==
  /\ phase[r] = "notifying"
  /\ sent' = [sent EXCEPT ![r] = @ + 1]
  /\ IF sent[r] + 1 = Channels THEN EnterWait(r) ELSE UNCHANGED <<phase, wake>>
  /\ UNCHANGED <<row, entry, future, answer, decision, remembered, resolver, accepted>>

\* The task is cancelled inside `await channel(req)`.  CancelledError is not an
\* Exception and the loop is outside the try, so it leaves request() at once:
\* the _pending entry and the row stay as they are.
CancelNotifying(r) ==
  /\ phase[r] = "notifying"
  /\ EndWith(r, Verdict("cancelled", Nobody, "once"))
  /\ UNCHANGED <<row, entry, sent, future, answer, wake, remembered, resolver, accepted>>

\* wait_for sees the result.
WakeAnswered(r) ==
  /\ phase[r] = "waiting"
  /\ future[r] = "answered"
  /\ phase' = [phase EXCEPT ![r] = "resuming"]
  /\ wake' = [wake EXCEPT ![r] = "answer"]
  /\ UNCHANGED <<row, entry, sent, future, answer, decision, remembered, resolver, accepted>>

\* Mutant of Interrupt: wait_for without its timeout.
InterruptNoTimer(r, why) ==
  /\ why # "timeout"
  /\ phase[r] = "waiting"
  /\ phase' = [phase EXCEPT ![r] = "resuming"]
  /\ wake' = [wake EXCEPT ![r] = why]
  /\ future' = [future EXCEPT ![r] = IF @ = "unset" THEN "cancelled" ELSE @]
  /\ UNCHANGED <<row, entry, sent, answer, decision, remembered, resolver, accepted>>

\* The timer of wait_for, or Task.cancel().  A future that is still unset is
\* cancelled with the task.  One that was answered but not yet delivered keeps
\* its result, and the interruption wins all the same (from Python 3.12 on; under
\* 3.11 the result wins, which is WakeAnswered).
Interrupt(r, why) ==
  /\ phase[r] = "waiting"
  /\ phase' = [phase EXCEPT ![r] = "resuming"]
  /\ wake' = [wake EXCEPT ![r] = why]
  /\ future' = [future EXCEPT ![r] = IF @ = "unset" THEN "cancelled" ELSE @]
  /\ UNCHANGED <<row, entry, sent, answer, decision, remembered, resolver, accepted>>

\* What request() is about to record and return.
Outcome(r) ==
  CASE wake[r] = "timeout" -> Verdict("timed_out", Nobody, "once")
    [] wake[r] = "cancel"  -> Verdict("cancelled", Nobody, "once")
    [] OTHER -> Verdict(IF answer[r].approved THEN "approved" ELSE "denied",
                        answer[r].by, answer[r].scope)

\* Mutant of Remembers: a session approval is remembered for ever.
RemembersSession(r) ==
  /\ Outcome(r).status = "approved"
  /\ Outcome(r).scope # "once"
  /\ TierOf[r] # R3

Remembers(r) ==
  /\ Outcome(r).status = "approved"
  /\ Outcome(r).scope = "always"
  /\ TierOf[r] # R3

\* The entry is popped, the row updated, the rule remembered, the result returned.
Record(r) ==
  /\ phase[r] = "resuming"
  /\ entry' = [entry EXCEPT ![IdOf[r]] = NoRequest]
  /\ row' = [row EXCEPT ![IdOf[r]] = Outcome(r)]
  /\ remembered' = IF Remembers(r) THEN remembered \union {KeyOf[r]} ELSE remembered
  /\ EndWith(r, Outcome(r))
  /\ UNCHANGED <<sent, future, answer, wake, resolver, accepted>>

\* The database is locked: _finish raises (the row stays pending), or _finish
\* commits and _remember raises.  The entry is popped either way.
RecordFails(r) ==
  /\ phase[r] = "resuming"
  /\ entry' = [entry EXCEPT ![IdOf[r]] = NoRequest]
  /\ \/ UNCHANGED row
     \/ Remembers(r) /\ row' = [row EXCEPT ![IdOf[r]] = Outcome(r)]
  /\ EndWith(r, Failed)
  /\ UNCHANGED <<sent, future, answer, wake, remembered, resolver, accepted>>
----------------------------------------------------------------------------
(* resolve() *)

\* Mutant of GrantedScope: an R3 approval keeps the scope it was given.
GrantedScopeAsGiven(r, scope) == scope

\* An unknown scope is "once", and so is any scope of an R3 approval.
GrantedScope(r, scope) == IF TierOf[r] = R3 THEN "once" ELSE scope

\* The guards: known id, authorised approver, future not done.
Resolvable(a, i) ==
  /\ entry[i] # NoRequest
  /\ a \in Authorized
  /\ future[entry[i]] = "unset"

\* set_result, and resolve() returns True.
Accept(r, ans) ==
  /\ future' = [future EXCEPT ![r] = "answered"]
  /\ answer' = [answer EXCEPT ![r] = ans]
  /\ accepted' = accepted \union {[req |-> r, answer |-> ans]}
  /\ UNCHANGED <<row, entry, phase, sent, wake, decision, remembered>>

ResolveOnLoop(a, i, ok, scope) ==
  /\ a \notin Threads
  /\ Resolvable(a, i)
  /\ Accept(entry[i], Answer(ok, a, GrantedScope(entry[i], scope)))
  /\ UNCHANGED resolver

Check(a, i, ok, scope) ==
  /\ a \in Threads
  /\ resolver[a] = NoCall
  /\ Resolvable(a, i)
  /\ resolver' = [resolver EXCEPT ![a] = Call(entry[i], ok, GrantedScope(entry[i], scope))]
  /\ UNCHANGED <<requestVars, accepted>>

\* Mutant of SetResult: the last answer wins.
SetResultOverwrites(a) ==
  LET c == resolver[a] IN
  /\ c # NoCall
  /\ Accept(c.req, Answer(c.approved, a, c.scope))
  /\ resolver' = [resolver EXCEPT ![a] = NoCall]

SetResult(a) ==
  LET c == resolver[a] IN
  /\ c # NoCall
  /\ future[c.req] = "unset"
  /\ Accept(c.req, Answer(c.approved, a, c.scope))
  /\ resolver' = [resolver EXCEPT ![a] = NoCall]

\* The future was done in between: set_result raises InvalidStateError.
SetResultFails(a) ==
  /\ resolver[a] # NoCall
  /\ future[resolver[a].req] # "unset"
  /\ resolver' = [resolver EXCEPT ![a] = NoCall]
  /\ UNCHANGED <<requestVars, accepted>>
----------------------------------------------------------------------------
RequestStep(r) ==
  \/ Store(r)
  \/ StoreFails(r)
  \/ ChannelReturns(r)
  \/ CancelNotifying(r)
  \/ WakeAnswered(r)
  \/ \E why \in {"timeout", "cancel"} : Interrupt(r, why)
  \/ Record(r)
  \/ RecordFails(r)

ResolveStep(a) ==
  \/ \E i \in Ids, ok \in BOOLEAN, scope \in Scopes :
       ResolveOnLoop(a, i, ok, scope) \/ Check(a, i, ok, scope)
  \/ SetResult(a)
  \/ SetResultFails(a)

Next ==
  \/ \E r \in Requests : RequestStep(r)
  \/ \E a \in Approvers : ResolveStep(a)

Spec == Init /\ [][Next]_vars

\* The event loop runs a task that is ready and fires an expired timer.  Nothing
\* is assumed of the channels (network calls), of the approvers or of cancellation.
Fairness ==
  \A r \in Requests :
    /\ WF_vars(WakeAnswered(r) \/ Interrupt(r, "timeout"))
    /\ WF_vars(Record(r) \/ RecordFails(r))

FairSpec == Spec /\ Fairness
----------------------------------------------------------------------------
(* Properties *)

Statuses == {"approved", "denied", "timed_out", "cancelled", "error"}
Verdicts == [status : Statuses, by : Approvers \union {Nobody}, scope : Scopes]
Phases == {"idle", "notifying", "waiting", "resuming", "ended"}
FutureStates == {"unset", "answered", "cancelled"}
Wakes == {"none", "answer", "timeout", "cancel"}
Acceptances == [req : Requests, answer : Answers]

TypeOK ==
  /\ row \in [Ids -> Verdicts \union {Absent, Pending}]
  /\ entry \in [Ids -> Requests \union {NoRequest}]
  /\ phase \in [Requests -> Phases]
  /\ sent \in [Requests -> 0..Channels]
  /\ future \in [Requests -> FutureStates]
  /\ answer \in [Requests -> Answers \union {NoAnswer}]
  /\ wake \in [Requests -> Wakes]
  /\ decision \in [Requests -> Verdicts \union {Undecided}]
  /\ remembered \subseteq Keys
  /\ resolver \in [Approvers -> Calls \union {NoCall}]
  /\ accepted \subseteq Acceptances

AcceptedFor(r) == {x \in accepted : x.req = r}

\* "First answer wins" (README, "Approval broker"): however the channels, the API
\* threads, the timer and a cancellation race, at most one resolve() call per
\* request is told True, and a verdict that request() returned is that one answer,
\* from an approver on the allowlist, never wider than "once" at R3, and is
\* what the approvals table holds.
VerdictIsAccepted ==
  \A r \in Requests :
    /\ \A x, y \in AcceptedFor(r) : x = y
    /\ decision[r].status \in {"approved", "denied"} =>
         LET v == decision[r] IN
         /\ [req |-> r, answer |-> Answer(v.status = "approved", v.by, v.scope)] \in accepted
         /\ v.by \in Authorized
         /\ TierOf[r] = R3 => v.scope = "once"
         /\ row[IdOf[r]] = v

\* A key in approval_rules, which lets later calls run unasked, was put there by
\* a request for that same key, below R3, that returned an approval of scope
\* "always" ("never always for R3", README).
RememberedIsEarned ==
  \A k \in remembered :
    \E r \in Requests :
      /\ KeyOf[r] = k
      /\ TierOf[r] # R3
      /\ decision[r].status = "approved"
      /\ decision[r].scope = "always"

\* The approvals table is an audit record: once a row holds how a request was
\* decided nothing rewrites it, not even a later request with the same fixed id
\* (skill promotion uses the id of the run).
RecordedOnce ==
  [][\A i \in Ids : row[i].status \in Statuses => row'[i] = row[i]]_vars

\* A request that waits for its answer is decided: the timeout is the answer
\* nobody gave.  (One that still notifies is not covered: a channel may hang.)
WaitingEnds ==
  \A r \in Requests : (phase[r] = "waiting") ~> (phase[r] = "ended")

\* What the dashboard says of the list of pending approvals, "everything waiting
\* for a human" (README): a listed entry has a request() that still waits for it.
ListedIsAwaited ==
  \A i \in Ids :
    entry[i] # NoRequest /\ future[entry[i]] = "unset" =>
      phase[entry[i]] \in {"notifying", "waiting"}

\* The contract the callers rely on: a request is idle, open, or what it returned.
Abstract(r) ==
  CASE phase[r] = "idle"  -> Undecided
    [] phase[r] = "ended" -> decision[r]
    [] OTHER -> Verdict("open", Nobody, "once")

AbstractQuestion(r) ==
  IF phase[r] = "idle" THEN [key |-> NoKey, tier |-> R0]
                       ELSE [key |-> KeyOf[r], tier |-> TierOf[r]]

Contract == INSTANCE ApprovalContract
              WITH asked <- [r \in Requests |-> AbstractQuestion(r)],
                   decision <- [r \in Requests |-> Abstract(r)]

\* The broker keeps that contract: every step of it is one of the contract or
\* none at all.
KeepsContract == Contract!Spec
=============================================================================
