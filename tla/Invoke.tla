------------------------------- MODULE Invoke -------------------------------
(***************************************************************************)
(* The one path every tool call takes, core/tools.py invoke(), under the   *)
(* scheduler of one assistant turn, core/loop.py _execute_calls, for       *)
(* several runs that share one approval broker.                            *)
(*                                                                         *)
(* A call is <<run, position in the turn>>.  Its key is the tool with its  *)
(* arguments (args_hash); Info gives what the ToolSpec says of a key.      *)
(* A pre_tool hook may replace the arguments, hence the key, so key[c] is  *)
(* state.  The broker is its contract, ApprovalContract.                   *)
(*                                                                         *)
(* Abstracted: the output of a tool is only "trusted or not"; snapshots,   *)
(* output limits, verify and the record do not change what may run.        *)
(* Cancelling a run is seen here as its approval requests ending           *)
(* "cancelled"; the rest of cancellation stops calls and starts none.      *)
(***************************************************************************)
EXTENDS Policy, Sequences

CONSTANTS Runs,
          Keys,        \* (tool, arguments) pairs the model may ask for
          Info,        \* per key: CallInfo and the flags below
          Turns,       \* the turns the models may answer with: per run, its calls in order
          Hooks,       \* the pre_tool hooks in order: what each may answer, per key
          StartModes,  \* the permission modes a run may start in
          AfterPlan,   \* extras["after_plan"] of each run
          Authorized, Nobody, NoKey

\* usable: known tool, capability allowed, arguments valid; parallelSafe and
\* untrusted as in the ToolSpec (an unknown tool has neither); exitsPlan: the handler is modes.exit_plan_mode.
KeyInfo == [tier : Tiers, readOnly : BOOLEAN, blocked : BOOLEAN, matched : SUBSET Effects,
            usable : BOOLEAN, parallelSafe : BOOLEAN, untrusted : BOOLEAN, exitsPlan : BOOLEAN]

\* The answer of a hook: a decision, and other arguments (NoKey for none).  One that
\* fails, takes too long or does not return a dict has answered [NoKey, "none"].
HookAnswers == (Keys \union {NoKey}) \X {"none", "allow", "ask", "deny"}

\* The tool of a call is looked up once: its ToolSpec is the same for any arguments.
SameTool(k, l) ==
  /\ Info[k].readOnly = Info[l].readOnly
  /\ Info[k].parallelSafe = Info[l].parallelSafe
  /\ Info[k].untrusted = Info[l].untrusted
  /\ Info[k].exitsPlan = Info[l].exitsPlan

ASSUME InvokeAssumption ==
  /\ NoKey \notin Keys
  /\ Info \in [Keys -> KeyInfo]
  /\ Turns \subseteq [Runs -> Seq(Keys)]
  /\ Hooks \in Seq([Keys -> SUBSET HookAnswers])
  /\ StartModes \in [Runs -> SUBSET Modes]
  /\ AfterPlan \in [Runs -> Modes]

\* Hooks replace arguments, never the tool; exit_plan_mode is not marked parallel_safe.
ASSUME ToolAssumption ==
  /\ \A i \in DOMAIN Hooks, k \in Keys : \A answer \in Hooks[i][k] :
       answer[1] # NoKey => SameTool(k, answer[1])
  /\ \A k \in Keys : Info[k].exitsPlan => ~Info[k].parallelSafe

Calls == UNION {UNION {{r} \X (1..Len(t[r])) : r \in Runs} : t \in Turns}
Requests == Calls \X {"call", "plan"}

VARIABLES turn,        \* what the models answered; never changes
          tainted,     \* ctx.tainted, per run
          mode,        \* ctx.mode, per run
          approvals,   \* ctx.session_approvals, per run
          stopped,     \* an exception left _execute_calls: the run starts no more calls
          key,         \* the key of each call, after its hook
          pc,          \* where each call is
          asked, decision, remembered   \* the broker

runVars == <<turn, tainted, mode, approvals, stopped>>
brokerVars == <<asked, decision, remembered>>
vars == <<turn, tainted, mode, approvals, stopped, key, pc, asked, decision, remembered>>

Broker == INSTANCE ApprovalContract

Run(c) == c[1]
Asked(c) == c[2] \in DOMAIN turn[c[1]]
AskedKey(c) == turn[c[1]][c[2]]
Own(c) == <<c, "call">>
Plan(c) == <<c, "plan">>

Active == {"hooking", "asking", "running", "planning", "posting"}
Final == {"ran", "denied", "refused", "raised"}

Init ==
  /\ turn \in Turns
  /\ tainted = [r \in Runs |-> FALSE]
  /\ mode \in [Runs -> Modes] /\ \A r \in Runs : mode[r] \in StartModes[r]
  /\ approvals = [r \in Runs |-> {}]
  /\ stopped = [r \in Runs |-> FALSE]
  /\ key = [c \in Calls |-> IF Asked(c) THEN AskedKey(c) ELSE NoKey]
  /\ pc = [c \in Calls |-> "queued"]
  /\ Broker!Init

Goto(c, place) == pc' = [pc EXCEPT ![c] = place]
----------------------------------------------------------------------------
(* _execute_calls: what may run beside what. *)

\* Mutant of Parallel: parallel_safe alone decides.
ParallelUnread(r, i) == Info[turn[r][i]].parallelSafe

Parallel(r, i) ==
  /\ Info[turn[r][i]].parallelSafe
  /\ Info[turn[r][i]].readOnly

\* The calls gathered with the i-th: the parallel calls that follow it without a gap.
Group(r, i) == {i} \union {j \in i..Len(turn[r]) : \A k \in i..j : Parallel(r, k)}

\* The loop starts the next group when everything before it has ended.  An unknown
\* tool, a missing capability or invalid arguments answer the call at once.
StartGroup(r) ==
  /\ ~stopped[r]
  /\ \E i \in DOMAIN turn[r] :
       /\ pc[<<r, i>>] = "queued"
       /\ \A j \in 1..(i - 1) : pc[<<r, j>>] \in Final
       /\ pc' = [c \in Calls |->
                   IF c[1] # r \/ c[2] \notin Group(r, i) THEN pc[c]
                   ELSE IF Info[key[c]].usable THEN "hooking" ELSE "refused"]
  /\ UNCHANGED <<runVars, key, brokerVars>>
----------------------------------------------------------------------------
(* invoke(), one call. *)

PreApproved(r, k) == k \in approvals[r] \/ k \in remembered

Decided(c, k, hook) ==
  Tighten(Decide(Info[k], tainted[Run(c)], PreApproved(Run(c), k), mode[Run(c)]), hook)

\* The exception of a failed broker call leaves invoke(), and _execute_calls.
Raise(c) ==
  /\ Goto(c, "raised")
  /\ stopped' = [stopped EXCEPT ![Run(c)] = TRUE]
  /\ UNCHANGED <<turn, tainted, mode, approvals>>

\* HookBus.emit: what came of the hooks so far, and the next answer.  It may replace the
\* arguments that later hooks and the call get, and may only tighten the decision.
Merged(result, answer) ==
  <<IF answer[1] # NoKey THEN answer[1] ELSE result[1],
    IF answer[2] = "deny" \/ (answer[2] = "ask" /\ result[2] # "deny") THEN answer[2] ELSE result[2]>>

\* What may have come of a call after the first i hooks, and after all of them.
AfterHooks[i \in 0..Len(Hooks)] ==
  [k \in Keys |->
     IF i = 0 THEN {<<k, "none">>}
     ELSE UNION {{Merged(result, answer) : answer \in Hooks[i][result[1]]} :
                 result \in AfterHooks[i - 1][k]}]

Emit(k) == AfterHooks[Len(Hooks)][k]

\* The pre_tool hooks have answered; from here to the next await is one step:
\* validation of the replaced arguments, tier, decision.
Hooked(c, k, hook) ==
  LET d == Decided(c, k, hook) IN
  /\ pc[c] = "hooking"
  /\ <<k, hook>> \in Emit(key[c])
  /\ key' = [key EXCEPT ![c] = k]
  /\ \/ ~Info[k].usable /\ Goto(c, "refused") /\ UNCHANGED <<runVars, brokerVars>>
     \/ Info[k].usable /\ d.verdict = "DENY" /\ Goto(c, "denied") /\ UNCHANGED <<runVars, brokerVars>>
     \/ Info[k].usable /\ d.verdict = "ALLOW" /\ Goto(c, "running") /\ UNCHANGED <<runVars, brokerVars>>
     \/ /\ Info[k].usable /\ d.verdict = "REQUIRE_APPROVAL"
        /\ \/ Broker!Begin(Own(c), k, d.tier) /\ Goto(c, "asking") /\ UNCHANGED runVars
           \/ Broker!Refuse(Own(c), k, d.tier) /\ Raise(c)

\* Mutant of Approved: the session scope lets every run of the process through.
ApprovedForAll(c) ==
  /\ pc[c] = "asking"
  /\ decision[Own(c)].status = "approved"
  /\ approvals' = IF decision[Own(c)].scope = "session"
                  THEN [r \in Runs |-> approvals[r] \union {key[c]}] ELSE approvals
  /\ Goto(c, "running")
  /\ UNCHANGED <<turn, tainted, mode, stopped, key, brokerVars>>

Approved(c) ==
  /\ pc[c] = "asking"
  /\ decision[Own(c)].status = "approved"
  /\ approvals' = IF decision[Own(c)].scope = "session"
                  THEN [approvals EXCEPT ![Run(c)] = @ \union {key[c]}] ELSE approvals
  /\ Goto(c, "running")
  /\ UNCHANGED <<turn, tainted, mode, stopped, key, brokerVars>>

\* Mutant of NotApproved: only an explicit "no" is handled.
NotApprovedDenied(c) ==
  /\ pc[c] = "asking"
  /\ decision[Own(c)].status = "denied"
  /\ Goto(c, "denied")
  /\ UNCHANGED <<runVars, key, brokerVars>>

\* Denied, or timed out.
NotApproved(c) ==
  /\ pc[c] = "asking"
  /\ decision[Own(c)].status \in {"denied", "timed_out"}
  /\ Goto(c, "denied")
  /\ UNCHANGED <<runVars, key, brokerVars>>

\* request() raised: the run was cancelled, or the database failed.
AskRaised(c) ==
  /\ pc[c] = "asking"
  /\ decision[Own(c)].status \in {"cancelled", "error"}
  /\ Raise(c)
  /\ UNCHANGED <<key, brokerVars>>

\* The handler returns, fails or times out.  Output of an untrusted tool taints the
\* run; the text of an error does not.  (exit_plan_mode too returns at once without a plan.)
HandlerReturns(c, failed) ==
  /\ pc[c] = "running"
  /\ tainted' = [tainted EXCEPT ![Run(c)] = @ \/ (Info[key[c]].untrusted /\ ~failed)]
  /\ Goto(c, "posting")
  /\ UNCHANGED <<turn, mode, approvals, stopped, key, brokerVars>>

\* exit_plan_mode asks for the plan; an error of the broker is a tool error.
AskPlan(c) ==
  /\ pc[c] = "running"
  /\ Info[key[c]].exitsPlan /\ mode[Run(c)] = "plan"
  /\ \/ Broker!Begin(Plan(c), key[c], R2) /\ Goto(c, "planning")
     \/ Broker!Refuse(Plan(c), key[c], R2) /\ Goto(c, "posting")
  /\ UNCHANGED <<runVars, key>>

\* Mutant of PlanAnswered: a timeout is taken for consent.
PlanAnsweredOrNot(c) ==
  /\ pc[c] = "planning"
  /\ decision[Plan(c)].status \in {"approved", "denied", "timed_out", "error"}
  /\ mode' = IF decision[Plan(c)].status # "denied"
             THEN [mode EXCEPT ![Run(c)] = AfterPlan[Run(c)]] ELSE mode
  /\ Goto(c, "posting")
  /\ UNCHANGED <<turn, tainted, approvals, stopped, key, brokerVars>>

PlanAnswered(c) ==
  /\ pc[c] = "planning"
  /\ decision[Plan(c)].status \in {"approved", "denied", "timed_out", "error"}
  /\ mode' = IF decision[Plan(c)].status = "approved"
             THEN [mode EXCEPT ![Run(c)] = AfterPlan[Run(c)]] ELSE mode
  /\ Goto(c, "posting")
  /\ UNCHANGED <<turn, tainted, approvals, stopped, key, brokerVars>>

\* The run was cancelled, or the handler's own time limit: then it is a tool error.
PlanCancelled(c) ==
  /\ pc[c] = "planning"
  /\ decision[Plan(c)].status = "cancelled"
  /\ Raise(c) \/ (Goto(c, "posting") /\ UNCHANGED runVars)
  /\ UNCHANGED <<key, brokerVars>>

\* The post_tool hooks have run and the result is in its slot.
Posted(c) ==
  /\ pc[c] = "posting"
  /\ Goto(c, "ran")
  /\ UNCHANGED <<runVars, key, brokerVars>>

CallStep(c) ==
  \/ \E k \in Keys, hook \in {"none", "ask", "deny"} : Hooked(c, k, hook)
  \/ Approved(c)
  \/ NotApproved(c)
  \/ AskRaised(c)
  \/ \E failed \in BOOLEAN : HandlerReturns(c, failed)
  \/ AskPlan(c)
  \/ PlanAnswered(c)
  \/ PlanCancelled(c)
  \/ Posted(c)

\* The broker ends an open request.
BrokerStep(q) == Broker!Settle(q) /\ UNCHANGED <<runVars, key, pc>>

Next ==
  \/ \E r \in Runs : StartGroup(r)
  \/ \E c \in Calls : CallStep(c)
  \/ \E q \in Requests : BrokerStep(q)

Spec == Init /\ [][Next]_vars

\* Tasks that are ready run; hooks and handlers have time limits; the broker
\* answers or times out (WaitingEnds in Approvals).
Fairness ==
  /\ \A r \in Runs : WF_vars(StartGroup(r))
  /\ \A c \in Calls : WF_vars(CallStep(c))
  /\ \A q \in Requests : WF_vars(BrokerStep(q))

FairSpec == Spec /\ Fairness
----------------------------------------------------------------------------
(* Properties *)

\* The tier a call has where the run stands now.
TierNow(c) == Effective(Info[key[c]], tainted[Run(c)])

\* A human's approval that covers call c: asked for it at its tier, or, below R3 and
\* outside strict mode, given to an earlier call with the same arguments for the
\* whole session or for always.
Covers(q, c) ==
  /\ decision[q].status = "approved"
  /\ decision[q].by \in Authorized
  /\ asked[q].key = key[c]
  /\ \/ q = Own(c) /\ asked[q].tier >= TierNow(c)
     \/ /\ TierNow(c) = R2
        /\ asked[q].tier # R3
        /\ mode[Run(c)] # "strict"
        /\ \/ decision[q].scope = "always"
           \/ decision[q].scope = "session" /\ Run(q[1]) = Run(c)

RuleCovers(c) ==
  /\ TierNow(c) = R2
  /\ "allow" \in Info[key[c]].matched
  /\ ~tainted[Run(c)]
  /\ mode[Run(c)] # "strict"

Starts(c) == pc[c] # "running" /\ pc'[c] = "running"

\* "R2/R3 ask, R4 is denied" and "after untrusted content enters the context,
\* mutating actions are raised one risk tier" (README), at the moment the handler
\* starts: however long hooks and approvals took and whatever ran meanwhile, a call
\* at R2 or above starts only under a human's approval of these exact arguments, or
\* an allow rule in a run that is still clean; none at R4 starts.
HumanInTheLoop ==
  [][\A c \in Calls : Starts(c) =>
       /\ TierNow(c)' # R4
       /\ TierNow(c)' >= R2 => RuleCovers(c)' \/ \E q \in Requests : Covers(q, c)']_vars

\* A run leaves plan mode only by a plan a human approved, and while it is in a
\* read-only mode nothing that mutates starts, rewritten arguments included.
PlanHolds ==
  [][/\ \A r \in Runs : mode'[r] # mode[r] =>
          /\ mode[r] = "plan"
          /\ \E c \in Calls : Run(c) = r /\ decision[Plan(c)].status = "approved"
     /\ \A c \in Calls : Starts(c) /\ mode[Run(c)] \in ReadOnlyModes => Info[key'[c]].readOnly]_vars

\* "Consecutive parallel-safe read-only calls together, the rest in order"
\* (core/loop.py): while a call that may mutate is under way, no other call of its run
\* is, and all earlier ones have ended.  The decision such a call was given is then
\* still the right one when its handler starts: nothing else can taint the run.
MutatingAlone ==
  \A c \in Calls :
    pc[c] \in Active /\ ~Info[AskedKey(c)].readOnly =>
      /\ \A d \in Calls : d # c /\ Run(d) = Run(c) => pc[d] \notin Active
      /\ \A d \in Calls : Run(d) = Run(c) /\ d[2] < c[2] => pc[d] \in Final

\* Every call of the turn gets an answer, or an exception ends the run.
EveryCallAnswered == \A c \in Calls : <>(~Asked(c) \/ pc[c] \in Final \/ stopped[Run(c)])
=============================================================================
