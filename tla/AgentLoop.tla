----------------------------- MODULE AgentLoop ------------------------------
(***************************************************************************)
(* What ends a run: the limits, the budget, the stop hooks and the loop    *)
(* guard of run_agent_generator (core/loop.py) over the retries and        *)
(* failovers of complete (core/llm.py) and the prices of core/cost.py.     *)
(*                                                                         *)
(* One run that shares its budget with no other (Subagents has the sharing *)
(* runs, EventLog what is logged).  A tool call is what the loop guard     *)
(* compares: its name, arguments and the start of its error; "fine" stands *)
(* for every result that is no error.                                      *)
(***************************************************************************)
EXTENDS Naturals, Sequences

CONSTANTS Models,        \* the profile's or configured model, then the fallbacks
          Priced,        \* models with an override, a local prefix or a catalogue entry
          LlmRetries,    \* settings.llm_retries, at least 1
          MaxTurns,      \* max_turns
          TokenLimit, CostLimit,   \* of the Budget; CostLimit 0 means none
          GuardRepeats,  \* LOOP_GUARD_REPEATS
          MaxStops,      \* MAX_STOP_CONTINUATIONS
          Errors,        \* failing calls, as the loop guard tells them apart
          Turnfuls       \* bound: the results one turn's calls may have

ASSUME LoopAssumption ==
  /\ Models \in Seq(STRING) /\ Models # <<>> /\ Priced \subseteq STRING
  /\ {LlmRetries, MaxTurns, GuardRepeats} \subseteq Nat \ {0}
  /\ {TokenLimit, CostLimit, MaxStops} \subseteq Nat
  /\ "fine" \notin Errors /\ Turnfuls \subseteq Seq(Errors \union {"fine"}) \ {<<>>}

VARIABLES loopAt,    \* where the run is
          turns,     \* state.usage["turns"]
          try,       \* in complete: index of the model, attempt, and forced compaction done
          budget,    \* Budget.used, cost_used, unpriced_calls
          stops,     \* stop_forced
          guard,     \* loop_key, loop_count
          outcome,   \* state.outcome, "none" while undecided
          verified   \* of the receipt

loopVars == <<loopAt, turns, try, budget, stops, guard, outcome, verified>>

Fine == "fine"
FirstTry == [model |-> 1, attempt |-> 1, forced |-> FALSE]

LoopInit ==
  /\ loopAt = "idle" /\ turns = 0 /\ try = FirstTry
  /\ budget = [used |-> 0, cost |-> 0, unpriced |-> 0]
  /\ stops = 0 /\ guard = [key |-> Fine, count |-> 0]
  /\ outcome = "none" /\ verified = "none"

\* Budget.exhausted
Spent(b) == b.used >= TokenLimit \/ (CostLimit > 0 /\ b.cost >= CostLimit)

\* cost_usd of one call: none for a model without a price.
CostUsd(model) == IF model \in Priced THEN {1} ELSE {}

\* Budget.add of one call: without a price it is counted, not costed.
Charged(b, model) ==
  [used |-> b.used + 1,
   cost |-> b.cost + (IF CostUsd(model) = {} THEN 0 ELSE 1),
   unpriced |-> b.unpriced + (IF CostUsd(model) = {} THEN 1 ELSE 0)]

EndWith(o) == outcome' = o /\ loopAt' = "finish"

\* The generator is asked for its first event: the session starts.
LoopBegins ==
  /\ loopAt = "idle" /\ loopAt' = "top"
  /\ UNCHANGED <<turns, try, budget, stops, guard, outcome, verified>>
----------------------------------------------------------------------------
(* The top of a turn. *)

Stopped ==
  /\ loopAt = "top"
  /\ turns' = turns + 1
  /\ \/ turns' > MaxTurns /\ EndWith("turn_limit")
     \/ turns' <= MaxTurns /\ Spent(budget) /\ EndWith("budget_exhausted")
     \/ turns' <= MaxTurns /\ ~Spent(budget) /\ EndWith("time_limit")
  /\ UNCHANGED <<try, budget, stops, guard, verified>>

\* Before a compaction the model is asked to save memories; that call is charged, the one for
\* the summary is not.  It may fail, or the run have no memory tool.
FlushMemory == budget' \in {budget} \union {Charged(budget, Models[m]) : m \in 1..Len(Models)}

\* Compaction may come first.
LoopTurn ==
  /\ loopAt = "top" /\ turns < MaxTurns /\ ~Spent(budget)
  /\ turns' = turns + 1
  /\ FlushMemory
  /\ loopAt' = "complete" /\ try' = FirstTry
  /\ UNCHANGED <<stops, guard, outcome, verified>>
----------------------------------------------------------------------------
(* complete(). *)

\* The next attempt after a failure; none when all models are exhausted.
NextTry(retryable) ==
  IF retryable /\ try.attempt < LlmRetries THEN {[try EXCEPT !.attempt = @ + 1]}
  ELSE IF try.model < Len(Models) THEN {[try EXCEPT !.model = @ + 1, !.attempt = 1]}
  ELSE {}

CallFails(retryable) ==
  /\ loopAt = "complete"
  /\ IF NextTry(retryable) = {} THEN EndWith("error") /\ UNCHANGED try
     ELSE try' \in NextTry(retryable) /\ UNCHANGED <<loopAt, outcome>>
  /\ UNCHANGED <<turns, budget, stops, guard, verified>>

\* Mutant of Overflows: an overflow is compacted away as often as it comes.
OverflowsAgain ==
  /\ loopAt = "complete"
  /\ \/ try' = FirstTry /\ UNCHANGED <<loopAt, outcome>>
     \/ EndWith("error") /\ UNCHANGED try
  /\ FlushMemory
  /\ UNCHANGED <<turns, stops, guard, verified>>

\* ContextOverflow: one forced compaction and a second complete; or nothing to compact.
Overflows ==
  /\ loopAt = "complete"
  /\ \/ ~try.forced /\ try' = [FirstTry EXCEPT !.forced = TRUE] /\ UNCHANGED <<loopAt, outcome>>
     \/ EndWith("error") /\ UNCHANGED try
  /\ FlushMemory
  /\ UNCHANGED <<turns, stops, guard, verified>>

Answers == loopAt = "complete" /\ budget' = Charged(budget, Models[try.model]) /\ UNCHANGED <<turns, try>>

\* An answer without calls: a stop hook may make the run go on.
FinalAnswer ==
  /\ Answers
  /\ \/ EndWith("completed") /\ UNCHANGED stops
     \/ stops < MaxStops /\ stops' = stops + 1 /\ loopAt' = "top" /\ UNCHANGED outcome
  /\ UNCHANGED <<guard, verified>>

Counted(g, r) ==
  IF r = Fine THEN [key |-> Fine, count |-> 0]
  ELSE IF r = g.key THEN [g EXCEPT !.count = @ + 1] ELSE [key |-> r, count |-> 1]

\* loop_key and loop_count after each result of a turn.
Guarded(results) ==
  LET G[i \in 0..Len(results)] == IF i = 0 THEN guard ELSE Counted(G[i - 1], results[i]) IN G

\* An answer with calls: they are executed in order, unless the answer spent the budget.
ToolTurn(results) ==
  /\ Answers
  /\ IF Spent(budget') THEN EndWith("budget_exhausted") /\ UNCHANGED guard
     ELSE LET G == Guarded(results)
              hit == \E i \in 1..Len(results) : G[i].count >= GuardRepeats
          IN /\ guard' = G[Len(results)]
             /\ IF hit THEN EndWith("loop_guard") ELSE loopAt' = "top" /\ UNCHANGED outcome
  /\ UNCHANGED <<stops, verified>>
----------------------------------------------------------------------------
(* The end. *)

\* An unexpected exception in a turn; a cancellation.
Breaks == loopAt \in {"top", "complete"} /\ EndWith("error") /\ UNCHANGED <<turns, try, budget, stops, guard, verified>>
Cancelled == loopAt \in {"top", "complete"} /\ EndWith("cancelled") /\ UNCHANGED <<turns, try, budget, stops, guard, verified>>

\* _finish: only a completed run is verified, by its verifier (one that raises has failed),
\* then, unless that failed, by an independent agent.
LoopFinish ==
  /\ loopAt = "finish" /\ loopAt' = "ended"
  /\ verified' \in (IF outcome = "completed" THEN {"none", "passed", "failed"} ELSE {"none"})
  /\ UNCHANGED <<turns, try, budget, stops, guard, outcome>>

LoopNext ==
  \/ LoopBegins \/ Stopped \/ LoopTurn
  \/ \E retryable \in BOOLEAN : CallFails(retryable)
  \/ Overflows \/ FinalAnswer
  \/ \E results \in Turnfuls : ToolTurn(results)
  \/ Breaks \/ Cancelled \/ LoopFinish

\* A run that has begun goes on: whatever it awaits (a model, a hook, a tool, a human) has a
\* time limit.
LoopFairness == WF_loopVars(loopAt # "idle" /\ LoopNext)
----------------------------------------------------------------------------
Outcomes == {"completed", "budget_exhausted", "turn_limit", "time_limit", "error", "cancelled", "loop_guard"}

\* A run ends with an outcome that a receipt knows, whatever models, hooks and tools answer:
\* retries, failovers, forced compactions, stop hooks and turns are all bounded, and so is each
\* attempt (llm_timeout).
RunEnds == loopAt # "idle" ~> loopAt = "ended" /\ outcome \in Outcomes
=============================================================================
