----------------------------- MODULE Subagents ------------------------------
(***************************************************************************)
(* Runs that delegate to subagents: run_subagent (core/subagents.py), its  *)
(* callers spawn_agent, verify_with_agent and execute_phase, and the       *)
(* budget they share (core/tools.py Budget).                               *)
(*                                                                         *)
(* A run calls spawn_agent like any call that is not parallel-safe, so it  *)
(* has one child at a time; a workflow phase gathers several.  What a run  *)
(* does between its calls is abstracted: it calls the model, spawns, ends. *)
(***************************************************************************)
EXTENDS Naturals, FiniteSets

CONSTANTS Roots,          \* top-level runs
          Phases,         \* workflow phases: parents that are no run
          MaxKids,        \* bound: the subagents there may be
          Capabilities,   \* with "Subagents", the right to spawn
          Requested,      \* capability sets a child is asked for with
          RootCaps,       \* capabilities of a top-level run or phase
          RootModes,      \* permission modes a top-level run may have
          MaxSubagents,   \* permits of subagent_sem
          BudgetLimit,    \* tokens
          MaxTokens       \* bound: tokens of one turn's model calls

ASSUME SubagentsAssumption ==
  /\ "Subagents" \in Capabilities /\ RootCaps \subseteq Capabilities
  /\ Requested \subseteq SUBSET Capabilities
  /\ MaxKids \in Nat /\ IsFiniteSet(Roots)
  /\ Roots \intersect Phases = {} /\ (Roots \union Phases) \intersect (0..MaxKids) = {}
  /\ MaxSubagents \in Nat \ {0} /\ BudgetLimit \in Nat \ {0} /\ MaxTokens \in Nat

VARIABLES place,   \* where a run, phase or subagent is
          boss,    \* the parent of a subagent
          caps,    \* ctx.allowed
          runMode, \* ctx.mode
          child,   \* the sessions row of a subagent
          permits, \* of the semaphore
          spent    \* Budget.used

subagentVars == <<place, boss, caps, runMode, child, permits, spent>>

MAX_DEPTH == 2
ReadOnly == {"plan", "read-only"}
Kids == 1..MaxKids   \* session ids, in the order of their creation
Everyone == Roots \union Phases \union Kids
NoBoss == 0

DepthOf(x) ==
  IF x \notin Kids THEN 0
  ELSE IF boss[x] \notin Kids THEN 1
  ELSE IF boss[boss[x]] \notin Kids THEN 2 ELSE 3
Below(x) == {k \in Kids : boss[k] = x \/ (boss[k] \in Kids /\ boss[boss[k]] = x)}
Alive == {"waiting", "running", "calling", "delegating"}
Holding == {k \in Kids : place[k] \in {"running", "calling", "delegating"}}

SubagentsInit ==
  /\ place = [x \in Everyone |-> IF x \in Kids THEN "unborn" ELSE "running"]
  /\ boss = [k \in Kids |-> NoBoss]
  /\ caps = [x \in Everyone |-> IF x \in Kids THEN {} ELSE RootCaps]
  /\ \E m \in [Roots -> RootModes] :
       runMode = [x \in Everyone |-> IF x \in Roots THEN m[x] ELSE "default"]
  /\ child = [k \in Kids |-> "none"]
  /\ permits = MaxSubagents
  /\ spent = 0

Move(x, to) == place' = [place EXCEPT ![x] = to]
----------------------------------------------------------------------------
(* The shared budget. *)

Exhausted == spent >= BudgetLimit

\* Mutant of BeginTurn: a run looks at the budget only once.
BeginTurnUnchecked(x) ==
  /\ place[x] = "running" /\ x \notin Phases
  /\ spent < BudgetLimit + MaxTokens * 5
  /\ Move(x, "calling")
  /\ UNCHANGED <<boss, caps, runMode, child, permits, spent>>

\* The top of a turn: the budget is checked, then the model is called.
BeginTurn(x) ==
  /\ place[x] = "running" /\ x \notin Phases
  /\ ~Exhausted
  /\ Move(x, "calling")
  /\ UNCHANGED <<boss, caps, runMode, child, permits, spent>>

\* Budget.add, when the answer is there (0 when the model failed).
Charge(x) ==
  /\ place[x] = "calling"
  /\ \E n \in 0..MaxTokens : spent' = spent + n
  /\ Move(x, "running")
  /\ UNCHANGED <<boss, caps, runMode, child, permits>>

\* exit_plan_mode, approved.
LeavePlan(x) ==
  /\ place[x] = "running" /\ runMode[x] = "plan"
  /\ runMode' = [runMode EXCEPT ![x] = "default"]
  /\ UNCHANGED <<place, boss, caps, child, permits, spent>>
----------------------------------------------------------------------------
(* run_subagent. *)

\* Mutant of Granted: what was asked for.
GrantedAsAsked(p, requested) ==
  IF DepthOf(p) + 1 >= MAX_DEPTH THEN requested \ {"Subagents"} ELSE requested

Granted(p, requested) ==
  LET allowed == requested \intersect caps[p] IN
  IF DepthOf(p) + 1 >= MAX_DEPTH THEN allowed \ {"Subagents"} ELSE allowed

ChildMode(mode) == IF mode \in ReadOnly THEN "read-only" ELSE mode

\* run_subagent up to the semaphore.
StartChild(p, k) ==
  /\ place[p] = "running" /\ place[k] = "unborn" /\ \A j \in 1..k-1 : place[j] # "unborn"
  /\ DepthOf(p) < MAX_DEPTH
  /\ \E requested \in Requested : caps' = [caps EXCEPT ![k] = Granted(p, requested)]
  /\ boss' = [boss EXCEPT ![k] = p]
  /\ runMode' = [runMode EXCEPT ![k] = ChildMode(runMode[p])]
  /\ child' = [child EXCEPT ![k] = "pending"]
  /\ UNCHANGED <<permits, spent>>

\* spawn_agent, or the verifier of a top-level run's answer (verify_with_agent), which no
\* capability guards: the run waits for the result.
SpawnAgent(p, k) ==
  /\ p \notin Phases /\ ("Subagents" \in caps[p] \/ p \in Roots)
  /\ StartChild(p, k)
  /\ place' = [place EXCEPT ![k] = "waiting", ![p] = "delegating"]

\* execute_phase starts one of its specs; gather waits for all of them.
PhaseStarts(p, k) ==
  /\ p \in Phases
  /\ StartChild(p, k)
  /\ Move(k, "waiting")

\* async with sem: the child's row says running, and its time limit starts.
Acquire(k) ==
  /\ place[k] = "waiting" /\ permits > 0
  /\ permits' = permits - 1
  /\ Move(k, "running")
  /\ child' = [child EXCEPT ![k] = "running"]
  /\ UNCHANGED <<boss, caps, runMode, spent>>

\* The child k ends, and with it every subagent below it (their tasks are cancelled with
\* k's); rows of those keep what they say.  Its parent goes on with the result.
Leave(k, down) ==
  LET gone == {k} \union down IN
  /\ place' = [x \in Everyone |->
                 IF x \in gone /\ place[x] # "unborn" THEN "ended"
                 ELSE IF k \in Kids /\ x = boss[k] /\ place[x] = "delegating" THEN "running"
                 ELSE place[x]]
  /\ permits' = permits + Cardinality(gone \intersect Holding)

\* The loop ends: the row gets the derived status and the final text goes to the parent.
Return(k) ==
  /\ place[k] = "running"
  /\ Leave(k, {})
  /\ \E status \in {"success", "failure"} : child' = [child EXCEPT ![k] = status]
  /\ UNCHANGED <<boss, caps, runMode, spent>>

\* Mutant of TimeOut: the wait has no limit.
NeverTimesOut(k) == FALSE /\ UNCHANGED subagentVars

\* wait_for(go(), subagent_timeout) expires.
TimeOut(k) ==
  /\ k \in Holding
  /\ Leave(k, Below(k))
  /\ child' = [child EXCEPT ![k] = "failure"]
  /\ UNCHANGED <<boss, caps, runMode, spent>>

\* An exception leaves run_subagent: no final row; the parent's call gets an error.
Raises(k) ==
  /\ place[k] = "running"
  /\ Leave(k, {})
  /\ UNCHANGED <<boss, caps, runMode, child, spent>>

\* A top-level run or phase ends; or it is cancelled with everything below it.
RootEnds(x) ==
  /\ place[x] = "running" /\ \A k \in Below(x) : place[k] \notin Alive
  /\ Move(x, "ended")
  /\ UNCHANGED <<boss, caps, runMode, child, permits, spent>>

RootCancelled(x) ==
  /\ place[x] \in Alive
  /\ Leave(x, Below(x))
  /\ UNCHANGED <<boss, caps, runMode, child, spent>>

SubagentsNext ==
  \/ \E x \in Roots \union Kids : BeginTurn(x) \/ Charge(x)
  \/ \E x \in Roots : LeavePlan(x)
  \/ \E p \in Everyone, k \in Kids : SpawnAgent(p, k) \/ PhaseStarts(p, k)
  \/ \E k \in Kids : Acquire(k) \/ Return(k) \/ TimeOut(k) \/ Raises(k)
  \/ \E x \in Roots \union Phases : RootEnds(x) \/ RootCancelled(x)

SubagentsSpec == SubagentsInit /\ [][SubagentsNext]_subagentVars

\* Tasks that are ready run; wait_for's timer fires.
SubagentsFairness == \A k \in Kids : WF_subagentVars(Acquire(k)) /\ WF_subagentVars(TimeOut(k))
----------------------------------------------------------------------------
\* A subagent never has more rights than the run it works for: its capabilities are among its
\* ancestors', it is read-only when its parent is, a third level cannot exist, and only while
\* its parent is there does it run (run_subagent, child_mode).
NoMoreRights ==
  \A k \in Kids : place[k] \in Alive =>
    /\ caps[k] \subseteq caps[boss[k]]
    /\ runMode[boss[k]] \in ReadOnly => runMode[k] = "read-only"
    /\ DepthOf(k) <= MAX_DEPTH /\ (DepthOf(k) = MAX_DEPTH => "Subagents" \notin caps[k])
    /\ place[boss[k]] \in Alive

\* A budget shared by a tree of runs is overdrawn by at most one turn of each run that can be in
\* one: the top-level runs and the holders of the semaphore's permits.
BudgetBounded ==
  spent + Cardinality({x \in Everyone : place[x] = "calling"}) * MaxTokens
    <= BudgetLimit - 1 + (MaxSubagents + Cardinality(Roots)) * MaxTokens

\* Every subagent ends, although parents keep their permit while their children wait for one:
\* when all permits are held by parents of waiting children, the time limits free them.
SubagentsEnd == \A k \in Kids : place[k] \in Alive ~> place[k] = "ended"
=============================================================================
