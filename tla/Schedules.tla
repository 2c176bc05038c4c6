----------------------------- MODULE Schedules ------------------------------
(***************************************************************************)
(* Scheduled jobs: core/background/scheduler.py under the requests of      *)
(* core/gateway/api.py.  The handlers are not async, so each request runs  *)
(* in a thread of its own, and each changes the table and the live         *)
(* scheduler in two steps; the process may stop between them.              *)
(***************************************************************************)
EXTENDS Naturals, FiniteSets

CONSTANTS Jobs,        \* ids add_agent_cron_job and add_heartbeat may draw
          Heartbeats,  \* those of kind heartbeat
          Requesters,  \* threads of the server that may handle requests at once
          MaxFired     \* bound: sessions the jobs start

ASSUME ScheduleAssumption == Heartbeats \subseteq Jobs /\ MaxFired \in Nat

VARIABLES rows,      \* table schedules: "none", "active" or "paused"
          live,      \* APScheduler's jobs: the same
          request,   \* per thread: what it does, to which job
          standing,  \* HEARTBEAT.md has text
          fired,     \* sessions created by jobs: pending or started
          overlap    \* history: jobs on which two set_paused overlapped since the last start

scheduleVars == <<rows, live, request, standing, fired, overlap>>

NoRequest == [op |-> "idle"]
Does(t, op, j) == request[t] = [op |-> op, job |-> j]
Working(j) == {t \in Requesters : request[t] # NoRequest /\ request[t].job = j}
Begins(t, op, j) == request[t] = NoRequest /\ request' = [request EXCEPT ![t] = [op |-> op, job |-> j]]
Ends(t) == request' = [request EXCEPT ![t] = NoRequest]

SchedulesInit ==
  /\ rows = [j \in Jobs |-> "none"] /\ live = [j \in Jobs |-> "none"]
  /\ request = [t \in Requesters |-> NoRequest]
  /\ standing \in BOOLEAN
  /\ fired = [pending |-> 0, started |-> 0]
  /\ overlap = {}
----------------------------------------------------------------------------
\* add_agent_cron_job, add_heartbeat: a new id, scheduled first (a bad expression raises there) ...
AddLive(t, j) ==
  /\ rows[j] = "none" /\ live[j] = "none" /\ Working(j) = {}
  /\ Begins(t, "add", j)
  /\ live' = [live EXCEPT ![j] = "active"]
  /\ UNCHANGED <<rows, standing, fired, overlap>>

\* ... and stored next.
Persist(t, j) ==
  /\ Does(t, "add", j) /\ Ends(t)
  /\ rows' = [rows EXCEPT ![j] = "active"]
  /\ UNCHANGED <<live, standing, fired, overlap>>

\* remove_job: the row ...
DeleteRow(t, j) ==
  /\ rows[j] # "none" /\ Begins(t, "remove", j)
  /\ rows' = [rows EXCEPT ![j] = "none"]
  /\ UNCHANGED <<live, standing, fired, overlap>>

\* Mutant of RemoveLive: a deleted row is answer enough.
RemoveLiveNot(t, j) ==
  /\ Does(t, "remove", j) /\ Ends(t)
  /\ UNCHANGED <<rows, live, standing, fired, overlap>>

\* ... then the live job.
RemoveLive(t, j) ==
  /\ Does(t, "remove", j) /\ Ends(t)
  /\ live' = [live EXCEPT ![j] = "none"]
  /\ UNCHANGED <<rows, standing, fired, overlap>>

\* set_paused: the row ...
Updated(op) == IF op = "pause" THEN "paused" ELSE "active"
UpdateRow(t, j, op) ==
  /\ Begins(t, op, j) /\ \A u \in Requesters : ~Does(u, "add", j)   \* the id is known from the row
  /\ rows' = [rows EXCEPT ![j] = IF @ = "none" THEN @ ELSE Updated(op)]
  /\ overlap' = IF \E u \in Working(j) : request[u].op \in {"pause", "resume"} THEN overlap \union {j} ELSE overlap
  /\ UNCHANGED <<live, standing, fired>>

\* ... then the live job, if it is still there.
UpdateLive(t, j, op) ==
  /\ Does(t, op, j) /\ Ends(t)
  /\ live' = [live EXCEPT ![j] = IF @ = "none" THEN @ ELSE Updated(op)]
  /\ UNCHANGED <<rows, standing, fired, overlap>>

\* A job is due.  A heartbeat without standing instructions starts nothing.
Fire(j) ==
  /\ live[j] = "active" /\ (j \in Heartbeats => standing)
  /\ fired.pending + fired.started < MaxFired
  /\ fired' = [fired EXCEPT !.pending = @ + 1]
  /\ UNCHANGED <<rows, live, request, standing, overlap>>

\* runs.start
StartFired ==
  /\ fired.pending > 0
  /\ fired' = [pending |-> fired.pending - 1, started |-> fired.started + 1]
  /\ UNCHANGED <<rows, live, request, standing, overlap>>

EditHeartbeat ==
  /\ standing' = ~standing
  /\ UNCHANGED <<rows, live, request, fired, overlap>>

\* The server stops anywhere; start_scheduler restores what is stored.  What was created and not
\* started stays pending.
RestartServer ==
  /\ live' = rows
  /\ request' = [t \in Requesters |-> NoRequest] /\ overlap' = {}
  /\ UNCHANGED <<rows, standing, fired>>

SchedulesNext ==
  \/ \E t \in Requesters, j \in Jobs :
       \/ AddLive(t, j) \/ Persist(t, j) \/ DeleteRow(t, j) \/ RemoveLive(t, j)
       \/ \E op \in {"pause", "resume"} : UpdateRow(t, j, op) \/ UpdateLive(t, j, op)
  \/ \E j \in Jobs : Fire(j)
  \/ StartFired \/ EditHeartbeat \/ RestartServer
SchedulesSpec == SchedulesInit /\ [][SchedulesNext]_scheduleVars
----------------------------------------------------------------------------
\* When no request is working on a job, the scheduler has it exactly as the table says: whatever
\* requests overlapped and wherever the server stopped, a deleted job never fires again, a stored
\* one is there, and one that was paused or resumed is (unless two set_paused overlapped: the last
\* word in the table and the one in the scheduler need not be the same thread's).
RowIsLive ==
  \A j \in Jobs : Working(j) = {} =>
    /\ rows[j] = "none" <=> live[j] = "none"
    /\ j \notin overlap => rows[j] = live[j]

\* Its inductive form: a difference between row and live job is the work of a request under way.
JobStates == {"none", "active", "paused"}
Pausing == {"pause", "resume"}
SchedulesTypeOK ==
  /\ rows \in [Jobs -> JobStates] /\ live \in [Jobs -> JobStates]
  /\ request \in [Requesters -> {NoRequest} \union [op : {"add", "remove"} \union Pausing, job : Jobs]]
  /\ fired \in [pending : Nat, started : Nat]
\* A job that is being added has no other request; one that is being removed has no row.
AddsAlone(j) ==
  \A t \in Working(j) :
    /\ request[t].op = "add" => Working(j) = {t} /\ rows[j] = "none" /\ live[j] = "active"
    /\ request[t].op = "remove" => rows[j] = "none"
\* What is stored is live, and what is live only is being added or removed.
OnlyOnTheWay(j) ==
  /\ live[j] = "none" => rows[j] = "none"
  /\ rows[j] = "none" /\ live[j] # "none" => \E t \in Working(j) : request[t].op \in {"add", "remove"}
\* Without overlap one set_paused at most is under way, and only it makes row and job differ.
PausesAlone(j) ==
  j \notin overlap =>
    /\ \A t, u \in Working(j) : request[t].op \in Pausing /\ request[u].op \in Pausing => t = u
    /\ \A t \in Working(j) : request[t].op \in Pausing /\ rows[j] # "none" => rows[j] = Updated(request[t].op)
    /\ rows[j] # "none" /\ rows[j] # live[j] => \E t \in Working(j) : request[t].op \in Pausing
SchedulesInv == SchedulesTypeOK /\ \A j \in Jobs : AddsAlone(j) /\ OnlyOnTheWay(j) /\ PausesAlone(j)
=============================================================================
