-------------------------------- MODULE Runs --------------------------------
(***************************************************************************)
(* The life of a session: core/runs.py RunManager, over the sessions table *)
(* (core/memory/store.py claim_session, update_session,                    *)
(* fail_stale_running), with the end of a run in core/loop.py _finish.     *)
(*                                                                         *)
(* A process runs each of its sessions in a task.  A step of a task is     *)
(* what it does between two awaits; Task.cancel() is heard at the await    *)
(* the task is suspended in.  Several processes (penko serve, penko run)   *)
(* may share the database.                                                 *)
(*                                                                         *)
(* Abstracted: what the run does (Invoke, EventLog), receipts and          *)
(* webhooks; a database that is locked for good.                           *)
(***************************************************************************)
EXTENDS Naturals, FiniteSets

CONSTANTS Sessions, Procs,
          Servers   \* the processes that run crash recovery when they start

ASSUME RunsAssumption == Servers \subseteq Procs

VARIABLES row,      \* the sessions table: status and outcome
          logged,   \* the outcome event of the session's log
          up,       \* the processes that run
          at,       \* where each process' task for a session is
          out,      \* state.outcome of that task
          cancel,   \* Task.cancel(): called and not heard yet, or heard
          buffer,   \* the session's LiveBuffer in that process
          lost      \* history: sessions whose process died, until a server starts

vars == <<row, logged, up, at, out, cancel, buffer, lost>>

Row(status, outcome) == [status |-> status, outcome |-> outcome]
Final == {"success", "failure"}

\* Ends of a run: "unverified" completed, but its verification failed.
Ends == {"completed", "unverified", "stopped"}

\* Mutant of Derived: the row keeps the run's own word for its end.
DerivedRaw(o) == Row(IF o = "completed" THEN "success" ELSE "failure", o)

\* receipts.derive_status, and the outcome stored with it.
Derived(o) ==
  CASE o = "completed"  -> Row("success", "completed")
    [] o = "unverified" -> Row("failure", "completed")
    [] OTHER            -> Row("failure", o)

Live == {"created", "running", "finishing", "finished", "closing"}

Init ==
  /\ row = [s \in Sessions |-> Row("pending", "none")]
  /\ logged = [s \in Sessions |-> "none"]
  /\ up = Procs
  /\ at = [p \in Procs |-> [s \in Sessions |-> "none"]]
  /\ out = [p \in Procs |-> [s \in Sessions |-> "none"]]
  /\ cancel = [p \in Procs |-> [s \in Sessions |-> "none"]]
  /\ buffer = [p \in Procs |-> [s \in Sessions |-> "none"]]
  /\ lost = {}

Goto(p, s, place) == at' = [at EXCEPT ![p][s] = place]
Finalise(s, r) == row' = [row EXCEPT ![s] = r]

\* Mutant of Start: a check that only excludes finished sessions.
StartUnfinished(p, s) ==
  /\ p \in up
  /\ row[s].status \notin Final
  /\ row' = [row EXCEPT ![s].status = "running"]
  /\ buffer' = [buffer EXCEPT ![p][s] = "open"]
  /\ Goto(p, s, "created")
  /\ UNCHANGED <<logged, up, out, cancel, lost>>

\* start(): POST /run, GET /stream, the scheduler or run_inline; claim_session is one
\* conditional UPDATE.
Start(p, s) ==
  /\ p \in up
  /\ row[s].status = "pending"
  /\ row' = [row EXCEPT ![s].status = "running"]
  /\ buffer' = [buffer EXCEPT ![p][s] = "open"]
  /\ Goto(p, s, "created")
  /\ UNCHANGED <<logged, up, out, cancel, lost>>

\* Mutant of Reject: only a live task is looked for.
RejectInactive(p, s) ==
  /\ p \in up
  /\ at[p][s] \notin Live
  /\ Finalise(s, Row("failure", "error"))
  /\ UNCHANGED <<logged, up, at, out, cancel, buffer, lost>>

\* GET /stream of a pending session whose agent is gone.
Reject(p, s) ==
  /\ p \in up
  /\ row[s].status = "pending"
  /\ Finalise(s, Row("failure", "error"))
  /\ UNCHANGED <<logged, up, at, out, cancel, buffer, lost>>

\* cancel(): a task that is not done.
Cancel(p, s) ==
  /\ at[p][s] \in Live
  /\ cancel' = [cancel EXCEPT ![p][s] = "called"]
  /\ UNCHANGED <<row, logged, up, at, out, buffer, lost>>
----------------------------------------------------------------------------
(* Steps of the task that no cancellation interrupts. *)

Undisturbed(p, s, place) == at[p][s] = place /\ cancel[p][s] # "called"

\* Mutant of Close: no finally.
CloseForgotten(p, s) == Goto(p, s, "done") /\ UNCHANGED buffer

\* publish(None): at once, or suspended when a reader holds the condition's lock.
Close(p, s) ==
  \/ Goto(p, s, "done") /\ buffer' = [buffer EXCEPT ![p][s] = "closed"]
  \/ Goto(p, s, "closing") /\ UNCHANGED buffer

\* The task's first step reaches the loop; or the agent is gone, or an exception is
\* caught by _guarded.
Begin(p, s) ==
  /\ Undisturbed(p, s, "created")
  /\ \/ Goto(p, s, "running") /\ UNCHANGED <<row, buffer, lost>>
     \/ Finalise(s, Row("failure", "error")) /\ Close(p, s)
  /\ UNCHANGED <<logged, up, out, cancel, lost>>

\* The loop ends; verification and the rollback of effects are awaited.
End(p, s, o) ==
  /\ Undisturbed(p, s, "running")
  /\ out' = [out EXCEPT ![p][s] = o]
  /\ Goto(p, s, "finishing")
  /\ UNCHANGED <<row, logged, up, cancel, buffer, lost>>

\* _finish appends the outcome event; hooks and the last publish are awaited.
LogOutcome(p, s) ==
  /\ Undisturbed(p, s, "finishing")
  /\ logged' = [logged EXCEPT ![s] = out[p][s]]
  /\ Goto(p, s, "finished")
  /\ UNCHANGED <<row, up, out, cancel, buffer, lost>>

\* Mutant of Save: the row is written from the outcome, whatever verification said.
SaveOutcome(p, s) ==
  /\ Undisturbed(p, s, "finished")
  /\ Finalise(s, IF out[p][s] \in {"completed", "unverified"} THEN Row("success", "completed")
                 ELSE Derived(out[p][s]))
  /\ Close(p, s)
  /\ UNCHANGED <<logged, up, out, cancel, lost>>

\* The receipt is built and the row written; a cancelled run re-raises to _guarded,
\* which writes the same.
Save(p, s) ==
  /\ Undisturbed(p, s, "finished")
  /\ Finalise(s, Derived(out[p][s]))
  /\ Close(p, s)
  /\ UNCHANGED <<logged, up, out, cancel, lost>>

\* An exception in _finish or while the receipt is built.
Fail(p, s) ==
  /\ Undisturbed(p, s, "finishing") \/ Undisturbed(p, s, "finished")
  /\ Finalise(s, Row("failure", "error"))
  /\ Close(p, s)
  /\ UNCHANGED <<logged, up, out, cancel, lost>>

Closed(p, s) ==
  /\ Undisturbed(p, s, "closing")
  /\ Goto(p, s, "done")
  /\ buffer' = [buffer EXCEPT ![p][s] = "closed"]
  /\ UNCHANGED <<row, logged, up, out, cancel, lost>>
----------------------------------------------------------------------------
(* CancelledError, at the await the task is suspended in. *)

Heard(p, s, place) ==
  /\ at[p][s] = place /\ cancel[p][s] = "called"
  /\ cancel' = [cancel EXCEPT ![p][s] = "heard"]

\* A task cancelled before its first step never enters _guarded.
CancelledUnstarted(p, s) ==
  /\ Heard(p, s, "created")
  /\ Goto(p, s, "done")
  /\ UNCHANGED <<row, logged, up, out, buffer, lost>>

\* In the loop: the run finishes as cancelled.
CancelledRunning(p, s) ==
  /\ Heard(p, s, "running")
  /\ out' = [out EXCEPT ![p][s] = "cancelled"]
  /\ Goto(p, s, "finishing")
  /\ UNCHANGED <<row, logged, up, buffer, lost>>

\* Mutant of CancelledLate: the awaits after the outcome event are forgotten.
CancelledBeforeLog(p, s) ==
  /\ Heard(p, s, "finishing")
  /\ Finalise(s, Row("failure", "cancelled"))
  /\ Close(p, s)
  /\ UNCHANGED <<logged, up, out, lost>>

\* Outside the loop's try: _guarded writes the row, and the log keeps what it has.
CancelledLate(p, s) ==
  /\ Heard(p, s, "finishing") \/ Heard(p, s, "finished")
  /\ Finalise(s, Row("failure", "cancelled"))
  /\ Close(p, s)
  /\ UNCHANGED <<logged, up, out, lost>>

\* In _guarded's finally: the buffer stays open.
CancelledClosing(p, s) ==
  /\ Heard(p, s, "closing")
  /\ Goto(p, s, "done")
  /\ UNCHANGED <<row, logged, up, out, buffer, lost>>
----------------------------------------------------------------------------
Crash(p) ==
  /\ p \in up
  /\ up' = up \ {p}
  /\ at' = [at EXCEPT ![p] = [s \in Sessions |-> "none"]]
  /\ out' = [out EXCEPT ![p] = [s \in Sessions |-> "none"]]
  /\ cancel' = [cancel EXCEPT ![p] = [s \in Sessions |-> "none"]]
  /\ buffer' = [buffer EXCEPT ![p] = [s \in Sessions |-> "none"]]
  /\ lost' = lost \union {s \in Sessions : at[p][s] # "none"}
  /\ UNCHANGED <<row, logged>>

\* Mutant of Recover: none.
RecoverNothing == row

\* recover(): what is marked running and has no task here was left by a dead process.
\* A process that has just started has no tasks.
Recover == [s \in Sessions |-> IF row[s].status = "running" THEN Row("failure", "crashed") ELSE row[s]]

Restart(p) ==
  /\ p \notin up
  /\ up' = up \union {p}
  /\ IF p \in Servers THEN row' = Recover /\ lost' = {} ELSE UNCHANGED <<row, lost>>
  /\ UNCHANGED <<logged, at, out, cancel, buffer>>

TaskStep(p, s) ==
  \/ Begin(p, s) \/ (\E o \in Ends : End(p, s, o)) \/ LogOutcome(p, s)
  \/ Save(p, s) \/ Fail(p, s) \/ Closed(p, s)
  \/ CancelledUnstarted(p, s) \/ CancelledRunning(p, s)
  \/ CancelledLate(p, s) \/ CancelledClosing(p, s)

Next ==
  \E p \in Procs :
    \/ Crash(p) \/ Restart(p)
    \/ \E s \in Sessions : Start(p, s) \/ Reject(p, s) \/ Cancel(p, s) \/ TaskStep(p, s)

Spec == Init /\ [][Next]_vars

\* The event loop runs ready tasks; turn, time and tool limits end every run.  Nothing
\* makes a process restart.
FairSpec == Spec /\ \A p \in Procs, s \in Sessions : WF_vars(TaskStep(p, s))
----------------------------------------------------------------------------
(* Properties *)

Rows ==
  [status : {"pending", "running"}, outcome : {"none"}]
    \union [status : Final, outcome : {"completed", "stopped", "cancelled", "error", "crashed"}]

TypeOK ==
  /\ row \in [Sessions -> Rows]
  /\ logged \in [Sessions -> Ends \union {"none", "cancelled"}]
  /\ up \subseteq Procs
  /\ at \in [Procs -> [Sessions -> Live \union {"none", "done"}]]
  /\ out \in [Procs -> [Sessions -> Ends \union {"none", "cancelled"}]]
  /\ cancel \in [Procs -> [Sessions -> {"none", "called", "heard"}]]
  /\ buffer \in [Procs -> [Sessions -> {"none", "open", "closed"}]]
  /\ lost \subseteq Sessions

\* "Claims a pending session atomically" (core/runs.py): however many processes, stream
\* readers and schedulers start a session, one task runs it, and it is never run again.
OneRunner ==
  \A s \in Sessions :
    /\ Cardinality({p \in Procs : at[p][s] \in Live}) <= 1
    /\ row[s].status = "pending" => \A p \in Procs : at[p][s] = "none"

\* "success only when the run completed AND its verification (if any) passed"
\* (core/receipts.py): over crashes, cancellations and other processes' recovery, a row
\* says success only when the log has that outcome.
SuccessIsLogged == \A s \in Sessions : row[s].status = "success" => logged[s] = "completed"

\* A final row stands, except one that a recovery declared crashed.
FinalStands ==
  [][\A s \in Sessions :
       row[s].status \in Final /\ row[s].outcome # "crashed" => row'[s] = row[s]]_vars

\* Nobody is left behind: a session marked running has its task, or its process died and
\* no server started since, or it was cancelled before the task's first step.
RunningIsRun ==
  \A s \in Sessions :
    row[s].status = "running" =>
      \/ \E p \in Procs : at[p][s] \in Live
      \/ \E p \in Procs : at[p][s] = "done" /\ cancel[p][s] = "heard"
      \/ s \in lost

\* A reader's stream ends: a task that is done closed its buffer unless it was cancelled.
StreamsEnd ==
  \A p \in Procs, s \in Sessions :
    at[p][s] = "done" /\ cancel[p][s] = "none" => buffer[p][s] = "closed"

\* A run whose task took its first step is finalised while its process lives.
StartedIsFinalised ==
  \A p \in Procs, s \in Sessions :
    at[p][s] = "running" ~> row[s].status \in Final \/ p \notin up

\* "cancel() stops it; the session is always finalised" (core/runs.py).
AlwaysFinalised ==
  \A p \in Procs, s \in Sessions :
    at[p][s] = "created" ~> row[s].status \in Final \/ p \notin up
=============================================================================
