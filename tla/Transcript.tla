----------------------------- MODULE Transcript -----------------------------
(***************************************************************************)
(* The model's transcript as a projection of a session's event log:        *)
(* core/eventlog.py messages_with_seqs, core/transcript.py                 *)
(* repair_transcript, and the places where core/compaction.py may cut.     *)
(*                                                                         *)
(* A log is a sequence of events; an event's place is its seq.  Only the   *)
(* events the transcript is made of are kept (run_start, llm_call, action, *)
(* verification and outcome events are not messages), and of their         *)
(* payloads only what the projection reads.                                *)
(***************************************************************************)
EXTENDS Naturals, SequencesExt

\* Events.  A tool call is named by the seq of its assistant message in the session
\* that made it, and its place among that message's calls.
UserMsg(queuedId) == [type |-> "user_msg", queuedId |-> queuedId]
AssistantMsg(calls) == [type |-> "assistant_msg", calls |-> calls]
ToolResult(call) == [type |-> "tool_result", call |-> call]
InterruptQueued == [type |-> "interrupt_queued"]
Compaction(summary, firstKept, pinned, pruned) ==
  [type |-> "compaction", summary |-> summary, firstKept |-> firstKept,
   pinned |-> pinned, pruned |-> pruned]

Is(type, e) == e.type = type
MessageTypes == {"user_msg", "assistant_msg", "tool_result"}

\* Messages, with the seq they come from (NoSeq for a summary or a filler).
NoSeq == 0
Message(seq, role, calls, call) == [seq |-> seq, role |-> role, calls |-> calls, call |-> call]
NoCall == <<0, 0>>
Summary == Message(NoSeq, "user", <<>>, NoCall)
Filler(call) == Message(NoSeq, "tool", <<>>, call)

ToMessage(log, i) ==
  LET e == log[i] IN
  CASE Is("user_msg", e) -> Message(i, "user", <<>>, NoCall)
    [] Is("assistant_msg", e) -> Message(i, "assistant", e.calls, NoCall)
    [] Is("tool_result", e) -> Message(i, "tool", <<>>, e.call)

\* A set of places of the log, as a sequence.
InOrder(places, log) ==
  LET upto[n \in 0..Len(log)] == IF n = 0 THEN <<>>
                                 ELSE IF n \in places THEN Append(upto[n - 1], n) ELSE upto[n - 1]
  IN upto[Len(log)]

\* The messages of the events at the given places, in order.
MessagesAt(log, places) ==
  LET is == InOrder({i \in places : log[i].type \in MessageTypes}, log)
  IN [k \in DOMAIN is |-> ToMessage(log, is[k])]

LastCompaction(log) ==
  LET cs == {i \in DOMAIN log : Is("compaction", log[i])}
  IN IF cs = {} THEN Compaction(FALSE, 0, {}, {}) ELSE log[Max(cs)]

\* What is replayed before repair: the pinned messages, the summary, and the events
\* from first_kept_seq on, as the latest compaction says.
Pairs(log) ==
  LET c == LastCompaction(log) IN
  MessagesAt(log, {i \in DOMAIN log : i \in c.pinned /\ i < c.firstKept})
    \o (IF c.summary THEN <<Summary>> ELSE <<>>)
    \o MessagesAt(log, {i \in DOMAIN log : i >= c.firstKept})
----------------------------------------------------------------------------
(* repair_transcript *)

Flush(acc) ==
  [out |-> acc.out \o [k \in DOMAIN acc.pending |-> Filler(acc.pending[k])], pending |-> <<>>]

\* Mutant of RepairStep: calls left open are filled only at the end.
RepairStepAtEnd(acc, m) ==
  CASE m.role = "tool" /\ Contains(acc.pending, m.call) ->
         [out |-> Append(acc.out, m), pending |-> RemoveFirst(acc.pending, m.call)]
    [] m.role = "tool" /\ ~Contains(acc.pending, m.call) -> acc
    [] OTHER -> [out |-> Append(acc.out, m), pending |-> acc.pending \o m.calls]

\* A result is kept when its call is open; any other message first gets the open calls
\* their fillers.
RepairStep(acc, m) ==
  CASE m.role = "tool" /\ Contains(acc.pending, m.call) ->
         [out |-> Append(acc.out, m), pending |-> RemoveFirst(acc.pending, m.call)]
    [] m.role = "tool" /\ ~Contains(acc.pending, m.call) -> acc
    [] OTHER -> [out |-> Append(Flush(acc).out, m), pending |-> m.calls]

RepairTranscript(ms) ==
  LET after[n \in 0..Len(ms)] == IF n = 0 THEN [out |-> <<>>, pending |-> <<>>]
                                 ELSE RepairStep(after[n - 1], ms[n])
  IN Flush(after[Len(ms)]).out

\* messages_with_seqs: the seqs are kept only when repair changed no length.
MessagesWithSeqs(log) ==
  LET pairs == Pairs(log)
      repaired == RepairTranscript(pairs)
  IN [k \in DOMAIN repaired |->
        [repaired[k] EXCEPT !.seq = IF Len(repaired) = Len(pairs) THEN pairs[k].seq ELSE NoSeq]]
----------------------------------------------------------------------------
(* Where loop.compact() may cut, for some sizes of the messages. *)

\* Mutant of CanCut: any message with a seq will do.
CanCutAnywhere(ms, i) == ms[i].seq # NoSeq

CanCut(ms, i) == ms[i].seq # NoSeq /\ ms[i].role \in {"user", "assistant"}

Users(ms) == {i \in DOMAIN ms : ms[i].role = "user" /\ ms[i].seq # NoSeq}
FirstUser(ms) == IF Users(ms) = {} THEN 1 ELSE Min(Users(ms))

\* find_cut beyond the pinned message, or else the last user message; something must
\* be left to summarise.
Cuts(ms) ==
  {i \in 2..Len(ms) :
     /\ CanCut(ms, i)
     /\ i > FirstUser(ms) \/ i = Max(Users(ms))
     /\ (1..(i - 1)) \ {FirstUser(ms)} # {}}

\* Mutant of Pinned: the summary is trusted to carry the goal.
PinnedNone(ms) == {}

Pinned(ms) == IF Users(ms) = {} THEN {} ELSE {ms[FirstUser(ms)].seq}

\* Some of the tool outputs in view, the oldest first.
Prunable(ms, upto) == {ms[i].call : i \in {j \in 1..upto : ms[j].role = "tool"}}
----------------------------------------------------------------------------
\* validate_transcript: after each message that is no tool result come the results of
\* its calls, each once, and no others.
Valid(ms) ==
  LET heads == {i \in DOMAIN ms : ms[i].role # "tool"}
      block(i) == {j \in DOMAIN ms : j > i /\ \A h \in heads : h <= i \/ h > j}
  IN /\ ms # <<>> => 1 \in heads
     /\ \A i \in heads :
          /\ {ms[j].call : j \in block(i)} = ToSet(ms[i].calls)
          /\ Cardinality(block(i)) = Len(ms[i].calls)
=============================================================================
