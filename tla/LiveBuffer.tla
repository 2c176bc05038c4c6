----------------------------- MODULE LiveBuffer -----------------------------
(***************************************************************************)
(* The live stream of a running session: LiveBuffer of core/runs.py and    *)
(* its readers, GET /sessions/{id}/stream of core/gateway/api.py.          *)
(*                                                                         *)
(* Events are their ids, 1, 2, ...; the last one before the buffer closes  *)
(* is the final receipt.  publish() and the code between two suspensions   *)
(* of tail() are one step each; tail is suspended while it yields (the     *)
(* client is slow), while it waits for the condition's lock and while it   *)
(* waits on the condition.                                                 *)
(***************************************************************************)
EXTENDS Naturals

CONSTANTS Viewers,
          BufferSize,   \* maxlen of the deque
          MaxEvents     \* bound: events of a run

ASSUME LiveBufferAssumption == BufferSize \in Nat \ {0} /\ MaxEvents \in Nat

VARIABLES next_id, closed,
          stream   \* per viewer: where its tail is, cursor, the end of the pending list it yields

liveVars == <<next_id, closed, stream>>

Newest == next_id - 1
Oldest == IF Newest > BufferSize THEN next_id - BufferSize ELSE 1
Newer(v) == {i \in Oldest..Newest : i > stream[v].cursor}

LiveInit ==
  /\ next_id = 1 /\ closed = FALSE
  /\ stream = [v \in Viewers |-> [at |-> "away", cursor |-> 0, until |-> 0]]

\* An event, or None: everybody who waits is notified.
Publish ==
  /\ ~closed
  /\ \/ next_id <= MaxEvents /\ next_id' = next_id + 1 /\ UNCHANGED closed
     \/ closed' = TRUE /\ UNCHANGED next_id
  /\ stream' = [v \in Viewers |-> IF stream[v].at = "wait" THEN [stream[v] EXCEPT !.at = "read"] ELSE stream[v]]

Moves(v, from, to) == stream[v].at = from /\ stream' = [stream EXCEPT ![v].at = to] /\ UNCHANGED <<next_id, closed>>

\* GET .../stream, after the last id the client has seen; the client may go away at any time.
Connect(v) == Moves(v, "away", "read")
Disconnect(v) == stream[v].at \notin {"away", "done"} /\ Moves(v, stream[v].at, "away")

\* The list of pending events is made once; the events are yielded one by one.
ReadRing(v) ==
  /\ stream[v].at = "read"
  /\ stream' = [stream EXCEPT ![v].at = IF Newer(v) = {} THEN "check" ELSE "yield",
                              ![v].cursor = IF Newer(v) = {} \/ Oldest <= @ THEN @ ELSE Oldest - 1,
                              ![v].until = Newest]
  /\ UNCHANGED <<next_id, closed>>

Yield(v) ==
  /\ stream[v].at = "yield"
  /\ stream' = [stream EXCEPT ![v].at = IF stream[v].cursor + 1 = stream[v].until THEN "check" ELSE @,
                              ![v].cursor = @ + 1]
  /\ UNCHANGED <<next_id, closed>>

\* Mutant of CheckClosed: a closed buffer ends the stream.
CheckHastily(v) == Moves(v, "check", IF closed THEN "done" ELSE "lock")

\* The stream ends when the buffer is closed and nothing newer came while events were yielded.
CheckClosed(v) == Moves(v, "check", IF closed /\ Newer(v) = {} THEN "done" ELSE "lock")

EnterWait(v) == Moves(v, "lock", "wait")

\* The wait times out: a keepalive is sent and the ring is read again.
Keepalive(v) == Moves(v, "wait", "read")

TailStep(v) == ReadRing(v) \/ Yield(v) \/ CheckClosed(v) \/ EnterWait(v) \/ Keepalive(v)
LiveNext == Publish \/ \E v \in Viewers : Connect(v) \/ Disconnect(v) \/ TailStep(v)
LiveSpec == LiveInit /\ [][LiveNext]_liveVars
----------------------------------------------------------------------------
\* A stream that ends has delivered the last event, the final receipt, although it came while
\* older events were being sent to a slow client (LiveBuffer.tail).
FinalDelivered == \A v \in Viewers : stream[v].at = "done" => stream[v].cursor = Newest

\* Its inductive form: nobody is ahead of the events, the list that is being yielded has some
\* left, and only a closed buffer lets a stream end.
LiveTypeOK ==
  /\ next_id \in Nat \ {0} /\ closed \in BOOLEAN
  /\ stream \in [Viewers -> [at : {"away", "read", "yield", "check", "lock", "wait", "done"},
                             cursor : Nat, until : Nat]]
NobodyAhead ==
  \A v \in Viewers :
    /\ stream[v].cursor < next_id /\ stream[v].until < next_id
    /\ stream[v].at = "yield" => stream[v].cursor < stream[v].until
    /\ stream[v].at = "done" => closed
LiveInv == LiveTypeOK /\ NobodyAhead /\ FinalDelivered
=============================================================================
