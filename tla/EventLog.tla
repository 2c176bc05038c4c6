------------------------------ MODULE EventLog ------------------------------
(***************************************************************************)
(* Sessions as append-only event logs: what core/loop.py appends while a   *)
(* session runs, interrupts queued by the API and drained at a turn's      *)
(* start, compaction, and forks (core/eventlog.py, core/gateway/api.py).   *)
(*                                                                         *)
(* Every append is a transaction of its own (append_event), so another     *)
(* connection may append between any two, and the process may stop between *)
(* any two.  The hash chain, the search index and the events that are no   *)
(* messages are abstracted; the model's answer is the number of its calls. *)
(***************************************************************************)
EXTENDS Transcript

CONSTANTS Sessions, Root,
          MaxSeq,     \* bound: events of a session
          MaxEvents,  \* bound: events of all sessions
          MaxCalls,   \* bound: tool calls of one answer
          Compacting  \* bound: whether contexts grow enough to be compacted

ASSUME EventLogAssumption ==
  Root \in Sessions /\ MaxSeq \in Nat /\ MaxEvents \in Nat /\ MaxCalls \in Nat /\ Compacting \in BOOLEAN

VARIABLES log,    \* the events of each session
          pc,     \* what the session's process is doing
          todo,   \* drain_interrupts' list: queued events still to deliver
          open,   \* the answered calls whose results are still to be appended
          fork,   \* of a session being copied: its source and the last event to copy
          listed  \* history: the events drain_interrupts read for this turn

vars == <<log, pc, todo, open, fork, listed>>

NoId == <<Root, 0>>
EventId(s, i) == <<s, i>>
NoFork == [from |-> Root, upto |-> 0]
AtRest == {"absent", "pending", "ended"}
Prompting == {"turn", "prompt", "retried"}

Init ==
  /\ log = [s \in Sessions |-> <<>>]
  /\ pc = [s \in Sessions |-> IF s = Root THEN "pending" ELSE "absent"]
  /\ todo = [s \in Sessions |-> <<>>]
  /\ open = [s \in Sessions |-> <<>>]
  /\ fork = [s \in Sessions |-> NoFork]
  /\ listed = [s \in Sessions |-> 0]

Goto(s, place) == pc' = [pc EXCEPT ![s] = place]

\* The bounds of the logs.
Room(s) == Len(log[s]) < MaxSeq /\ MapThenSumSet(LAMBDA r : Len(log[r]), Sessions) < MaxEvents

AppendEvent(s, e) ==
  /\ Room(s)
  /\ log' = [log EXCEPT ![s] = Append(@, e)]

\* run_agent_generator's start: a new user message unless the transcript waits for the
\* model already.
NeedsUser(s) ==
  LET ms == MessagesWithSeqs(log[s]) IN ms = <<>> \/ Last(ms).role = "assistant"

Start(s) ==
  /\ pc[s] = "pending"
  /\ Goto(s, "top")
  /\ IF NeedsUser(s) THEN AppendEvent(s, UserMsg(NoId)) ELSE UNCHANGED log
  /\ UNCHANGED <<todo, open, fork, listed>>

\* A line of the chat REPL: always a new user message, whatever was left before.
Say(s) ==
  /\ pc[s] \in {"pending", "ended"}
  /\ AppendEvent(s, UserMsg(NoId))
  /\ Goto(s, "top")
  /\ UNCHANGED <<todo, open, fork, listed>>

\* POST /sessions/{id}/interrupt, at any time; a fork's id is given out when it is complete.
Interrupt(s) ==
  /\ pc[s] \notin {"absent", "copying"}
  /\ AppendEvent(s, InterruptQueued)
  /\ UNCHANGED <<pc, todo, open, fork, listed>>
----------------------------------------------------------------------------
(* One turn. *)

Queued(l) == {i \in DOMAIN l : Is("interrupt_queued", l[i])}
Consumed(l) == {l[i].queuedId : i \in {j \in DOMAIN l : Is("user_msg", l[j])}}
Undelivered(s) == {i \in Queued(log[s]) : EventId(s, i) \notin Consumed(log[s])}

\* Mutant of ListInterrupts: every queued event, delivered or not.
ListEveryInterrupt(s) ==
  /\ pc[s] = "top"
  /\ todo' = [todo EXCEPT ![s] = InOrder(Queued(log[s]), log[s])]
  /\ listed' = [listed EXCEPT ![s] = Len(log[s])]
  /\ Goto(s, "draining")
  /\ UNCHANGED <<log, open, fork>>

\* drain_interrupts reads the log once ...
ListInterrupts(s) ==
  /\ pc[s] = "top"
  /\ todo' = [todo EXCEPT ![s] = InOrder(Undelivered(s), log[s])]
  /\ listed' = [listed EXCEPT ![s] = Len(log[s])]
  /\ Goto(s, "draining")
  /\ UNCHANGED <<log, open, fork>>

\* Mutant of Deliver: the newest first.
DeliverLast(s) ==
  /\ pc[s] = "draining" /\ todo[s] # <<>>
  /\ AppendEvent(s, UserMsg(EventId(s, Last(todo[s]))))
  /\ todo' = [todo EXCEPT ![s] = Front(@)]
  /\ UNCHANGED <<pc, open, fork, listed>>

\* ... and appends one message after another.
Deliver(s) ==
  /\ pc[s] = "draining" /\ todo[s] # <<>>
  /\ AppendEvent(s, UserMsg(EventId(s, Head(todo[s]))))
  /\ todo' = [todo EXCEPT ![s] = Tail(@)]
  /\ UNCHANGED <<pc, open, fork, listed>>

\* Mutant of Drained: one interrupt a turn.
DrainedEarly(s) ==
  /\ pc[s] = "draining"
  /\ Goto(s, "turn")
  /\ UNCHANGED <<log, todo, open, fork, listed>>

Drained(s) ==
  /\ pc[s] = "draining" /\ todo[s] = <<>>
  /\ Goto(s, "turn")
  /\ UNCHANGED <<log, todo, open, fork, listed>>

\* compact(), at most twice a turn: before the model is called, and again ("prompt") when
\* it finds the context too long.
Compacts(s) ==
  /\ Compacting
  /\ \/ pc[s] = "turn" /\ Goto(s, "prompt")
     \/ pc[s] = "prompt" /\ Goto(s, "retried")

\* Pruning more of the old tool outputs is enough, or there is no place to cut.
PruneOnly(s) ==
  /\ Compacts(s)
  /\ LET ms == MessagesWithSeqs(log[s])
         before == LastCompaction(log[s]).pruned
     IN \E upto \in 1..Len(ms) :
          /\ ~(Prunable(ms, upto) \subseteq before)
          /\ AppendEvent(s, Compaction(FALSE, 0, {}, before \union Prunable(ms, upto)))
  /\ UNCHANGED <<todo, open, fork, listed>>

\* What precedes the cut is summarised, the first user message pinned.
Summarise(s) ==
  /\ Compacts(s)
  /\ LET ms == MessagesWithSeqs(log[s])
         before == LastCompaction(log[s]).pruned
     IN \E cut \in Cuts(ms) :
          AppendEvent(s, Compaction(TRUE, ms[cut].seq, Pinned(ms), before \union Prunable(ms, cut)))
  /\ UNCHANGED <<todo, open, fork, listed>>

\* The model answers.  Without calls the run ends, or a stop hook speaks up.
Answer(s) ==
  /\ pc[s] \in Prompting
  /\ \E n \in 0..MaxCalls :
       LET calls == [k \in 1..n |-> <<Len(log[s]) + 1, k>>] IN
       /\ AppendEvent(s, AssistantMsg(calls))
       /\ open' = [open EXCEPT ![s] = calls]
       /\ Goto(s, IF n = 0 THEN "answered" ELSE "calling")
  /\ UNCHANGED <<todo, fork, listed>>

StopHook(s) ==
  /\ pc[s] = "answered"
  /\ AppendEvent(s, UserMsg(NoId))
  /\ Goto(s, "top")
  /\ UNCHANGED <<todo, open, fork, listed>>

\* All calls have ended (or the budget has): their results, in the order of the calls.
AppendResult(s) ==
  /\ pc[s] = "calling"
  /\ AppendEvent(s, ToolResult(Head(open[s])))
  /\ open' = [open EXCEPT ![s] = Tail(@)]
  /\ Goto(s, IF Len(open[s]) = 1 THEN "top" ELSE "calling")
  /\ UNCHANGED <<todo, fork, listed>>

\* The run ends: completed, at a limit, by an error, cancelled, or with its process.
Stop(s) ==
  /\ pc[s] \notin AtRest
  /\ Goto(s, IF pc[s] = "copying" THEN "pending" ELSE "ended")
  /\ todo' = [todo EXCEPT ![s] = <<>>]
  /\ open' = [open EXCEPT ![s] = <<>>]
  /\ fork' = [fork EXCEPT ![s] = NoFork]
  /\ UNCHANGED <<log, listed>>
----------------------------------------------------------------------------
(* Forks. *)

OpensCalls(e) == Is("assistant_msg", e) /\ e.calls # <<>>

\* Answers at the end of the copy that ask for tools are dropped.
ForkEnd(l, cut) == Max({i \in 0..cut : i = 0 \/ ~OpensCalls(l[i])})

\* The source's events are read once ...
Fork(s, t) ==
  /\ pc[s] # "absent" /\ pc[t] = "absent"
  /\ \E cut \in 0..Len(log[s]) :
       fork' = [fork EXCEPT ![t] = [from |-> s, upto |-> ForkEnd(log[s], cut)]]
  /\ Goto(t, "copying")
  /\ UNCHANGED <<log, todo, open, listed>>

\* ... and appended one by one under new ids; payloads are copied as they are.
CopyEvent(t) ==
  /\ pc[t] = "copying"
  /\ Len(log[t]) < fork[t].upto
  /\ AppendEvent(t, log[fork[t].from][Len(log[t]) + 1])
  /\ UNCHANGED <<pc, todo, open, fork, listed>>

\* With goal_override the fork starts from a new user message.
Forked(t) ==
  /\ pc[t] = "copying" /\ Len(log[t]) >= fork[t].upto
  /\ Goto(t, "pending")
  /\ fork' = [fork EXCEPT ![t] = NoFork]
  /\ AppendEvent(t, UserMsg(NoId)) \/ UNCHANGED log
  /\ UNCHANGED <<todo, open, listed>>

Next ==
  \E s \in Sessions :
    \/ Start(s) \/ Say(s) \/ Interrupt(s)
    \/ ListInterrupts(s) \/ Deliver(s) \/ Drained(s)
    \/ PruneOnly(s) \/ Summarise(s)
    \/ Answer(s) \/ StopHook(s) \/ AppendResult(s) \/ Stop(s)
    \/ \E t \in Sessions : Fork(s, t)
    \/ CopyEvent(s) \/ Forked(s)

Spec == Init /\ [][Next]_vars
----------------------------------------------------------------------------
(* Properties *)

\* "Every assistant tool call has exactly one following tool message"
\* (core/transcript.py), for the transcript rebuilt from any log the program can write:
\* stopped between any two events, resumed, compacted and forked in any order.
TranscriptValid == \A s \in Sessions : Valid(MessagesWithSeqs(log[s]))

UserMsgs(s) == {i \in DOMAIN log[s] : Is("user_msg", log[s][i]) /\ log[s][i].queuedId # NoId}

\* "Interrupts become ordered user messages once" (tests/test_eventlog_store.py): each
\* queued event of a session gives at most one user message, after it was queued and in
\* queue order, although interrupts arrive while others are being delivered and the run
\* may stop between two of them.
DeliveredOnceInOrder ==
  \A s \in Sessions : \A i \in UserMsgs(s) :
    /\ log[s][i].queuedId[1] = s => log[s][i].queuedId[2] < i
    /\ \A j \in UserMsgs(s) :
         j < i => /\ log[s][j].queuedId # log[s][i].queuedId
                  /\ log[s][j].queuedId[1] = log[s][i].queuedId[1] =>
                       log[s][j].queuedId[2] < log[s][i].queuedId[2]

\* "Delivered at the next turn boundary" (README): the model is not called while an
\* interrupt queued before the turn's drain is outstanding.
DeliveredBeforeTheModel ==
  \A s \in Sessions :
    pc[s] \in Prompting \union {"answered", "calling"} => \A i \in Undelivered(s) : i > listed[s]

\* The places of the events a transcript shows.
Shown(l) == {i \in DOMAIN l : \E k \in DOMAIN Pairs(l) : Pairs(l)[k].seq = i}

Compacted(s) == log'[s] # log[s] /\ Is("compaction", Last(log'[s]))

\* "Never cut between a tool call and its result" (core/compaction.py): after a
\* compaction the kept messages need no repair, whatever was repaired before.
CutsKeepCallsWhole ==
  [][\A s \in Sessions : Compacted(s) /\ Last(log'[s]).summary => Valid(Pairs(log'[s]))]_vars

\* "Pins the first user message" (README): however often a session is compacted, stopped
\* and forked, its first user message stays in the transcript.
GoalStays ==
  \A s \in Sessions :
    LET us == {i \in DOMAIN log[s] : Is("user_msg", log[s][i])}
    IN us # {} => Min(us) \in Shown(log[s])

\* "Prune large old tool outputs first, then summarise" (README): a compaction takes
\* from the transcript, it does not bring back what an earlier summary replaced.
SummaryStands ==
  [][\A s \in Sessions :
       Compacted(s) => Shown(log'[s]) \subseteq Shown(log[s])]_vars

\* The same over forks: one queued text is said to the model once.
SaidOnce ==
  \A s \in Sessions : \A i, j \in UserMsgs(s) :
    i # j => log[s][i].queuedId[2] # log[s][j].queuedId[2]

\* "Never end a fork between a tool call and its results" (fork_events): a fork that is
\* ready to run needs no repair if its source needed none.
ForkKeepsCallsWhole ==
  [][\A s \in Sessions :
       fork[s] # NoFork /\ pc[s] = "copying" /\ pc'[s] = "pending" /\ Len(log[s]) = fork[s].upto
         /\ Valid(Pairs(log[fork[s].from])) => Valid(Pairs(log[s]))]_vars
=============================================================================
