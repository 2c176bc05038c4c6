-------------------------------- MODULE Files -------------------------------
(***************************************************************************)
(* The write and edit tools (domains/generic/fs.py) with their checkpoint, *)
(* as invoke runs them (core/tools.py), and POST /sessions/{id}/rewind,    *)
(* on one file that several runs change.                                   *)
(*                                                                         *)
(* The handlers run in threads, which a time limit or a cancellation of    *)
(* the call does not stop.  A text is the set of the actions whose strings *)
(* are in it.                                                              *)
(***************************************************************************)
EXTENDS Naturals, FiniteSets

CONSTANTS FileRuns,   \* runs that use the file
          MaxActions  \* bound: write and edit calls

ASSUME FilesAssumption == MaxActions \in Nat

VARIABLES disk,    \* the file
          job,     \* per action: the thread that works on it
          logged,  \* per action: the pre-state its action event has
          rewound, \* history: actions that were rewound
          excused  \* history: those whose strings may come back

fileVars == <<disk, job, logged, rewound, excused>>

Actions == 1..MaxActions
Text(strings) == [is |-> "text", of |-> strings]
Absent == [is |-> "absent", of |-> {}]
Torn == [is |-> "torn", of |-> {}]       \* truncated, or the mixture of two writes
NoState == [is |-> "no state", of |-> {}]
NoJob == [at |-> "none"]

Awaited(r) == {a \in Actions : job[a] # NoJob /\ job[a].run = r /\ job[a].awaited}
InThread == {a \in Actions : job[a] # NoJob /\ job[a].at \in {"saved", "read", "writing"}}
To(a, at) == [job EXCEPT ![a].at = at]

FilesInit ==
  /\ disk \in {Absent, Text({})}
  /\ job = [a \in Actions |-> NoJob]
  /\ logged = [a \in Actions |-> NoState]
  /\ rewound = {} /\ excused = {}
----------------------------------------------------------------------------
\* A call that was allowed.  A run makes one call that changes something at a time.
CallTool(r, a, tool) ==
  /\ job[a] = NoJob /\ \A b \in 1..a-1 : job[b] # NoJob
  /\ Awaited(r) = {}
  /\ job' = [job EXCEPT ![a] = [at |-> "called", run |-> r, tool |-> tool, awaited |-> TRUE, pre |-> NoState, seen |-> Absent]]
  /\ UNCHANGED <<disk, logged, rewound, excused>>

\* checkpoint_pre: the file is copied to a backup.
CheckpointPre(a) ==
  /\ job[a].at = "called" /\ job[a].awaited
  /\ job' = [To(a, "saved") EXCEPT ![a].pre = disk]
  /\ UNCHANGED <<disk, logged, rewound, excused>>

\* edit_file reads; it fails when the file is not there.
ReadText(a) ==
  /\ job[a].at = "saved" /\ job[a].tool = "edit"
  /\ job' = IF disk = Absent THEN To(a, "failed") ELSE [To(a, "read") EXCEPT ![a].seen = disk]
  /\ UNCHANGED <<disk, logged, rewound, excused>>

\* The text read has no old_string: nothing is written.
NotFound(a) ==
  /\ job[a].at = "read"
  /\ job' = To(a, "failed")
  /\ UNCHANGED <<disk, logged, rewound, excused>>

\* path.write_text truncates ...
Truncate(a) ==
  /\ job[a].at \in {"saved", "read"} /\ (job[a].tool = "edit" => job[a].at = "read")
  /\ disk' = Torn
  /\ job' = To(a, "writing")
  /\ UNCHANGED <<logged, rewound, excused>>

\* ... and writes; with another thread writing too, or no space, the file may be left in pieces.
WriteText(a) ==
  /\ job[a].at = "writing"
  /\ disk' \in {Torn} \union (IF job[a].seen = Torn THEN {} ELSE {Text(job[a].seen.of \union {a})})
  /\ job' = To(a, "written")
  /\ UNCHANGED <<logged, rewound, excused>>

\* Mutant of LogAction: the states are swapped.
LogActionPost(a) ==
  /\ job[a].at \in {"written", "failed"} /\ job[a].awaited
  /\ logged' = [logged EXCEPT ![a] = disk]
  /\ job' = [job EXCEPT ![a].awaited = FALSE]
  /\ UNCHANGED <<disk, rewound, excused>>

\* The handler is done: the action event, with the pre-state.
LogAction(a) ==
  /\ job[a].at \in {"written", "failed"} /\ job[a].awaited
  /\ logged' = [logged EXCEPT ![a] = job[a].pre]
  /\ job' = [job EXCEPT ![a].awaited = FALSE]
  /\ UNCHANGED <<disk, rewound, excused>>

\* wait_for gives up: the action is logged as an error, and its thread goes on.
CallTimesOut(a) ==
  /\ a \in InThread /\ job[a].awaited
  /\ logged' = [logged EXCEPT ![a] = job[a].pre]
  /\ job' = [job EXCEPT ![a].awaited = FALSE]
  /\ UNCHANGED <<disk, rewound, excused>>

\* The run is cancelled: no action event, and the thread goes on.
CallCancelled(a) ==
  /\ job[a] # NoJob /\ job[a].awaited
  /\ job' = [job EXCEPT ![a].awaited = FALSE]
  /\ UNCHANGED <<disk, logged, rewound, excused>>

\* The process stops; the file, the backups and the log stay.
ProcessStops ==
  /\ \E a \in InThread : TRUE
  /\ job' = [a \in Actions |-> IF job[a] = NoJob THEN NoJob ELSE [job[a] EXCEPT !.at = "stopped", !.awaited = FALSE]]
  /\ UNCHANGED <<disk, logged, rewound, excused>>

\* restore_checkpoint: the file as the backup has it, or no file.
RestoreCheckpoint(pre) == disk' \in {pre} \union (IF InThread = {} THEN {} ELSE {Torn})

\* POST /sessions/{id}/rewind
Rewind(a) ==
  /\ logged[a] # NoState
  /\ RestoreCheckpoint(logged[a])
  /\ rewound' = rewound \union {a}
  /\ excused' = excused
       \union (logged[a].of \intersect rewound)
       \union (IF \E b \in InThread : b = a \/ a \in job[b].seen.of THEN {a} ELSE {})
  /\ UNCHANGED <<job, logged>>

FilesNext ==
  \/ \E r \in FileRuns, a \in Actions, tool \in {"write", "edit"} : CallTool(r, a, tool)
  \/ \E a \in Actions :
       \/ CheckpointPre(a) \/ ReadText(a) \/ NotFound(a) \/ Truncate(a) \/ WriteText(a)
       \/ LogAction(a) \/ CallTimesOut(a) \/ CallCancelled(a) \/ Rewind(a)
  \/ ProcessStops

FilesSpec == FilesInit /\ [][FilesNext]_fileVars
----------------------------------------------------------------------------
\* What was rewound is gone for good, whichever runs write and edit the file meanwhile and wherever
\* a call times out, is cancelled or dies: the strings of a rewound action are in the file again
\* only if a later action was rewound after it (whose checkpoint has them), or a thread was between
\* reading and writing at the time.
RewoundStaysAway == disk.of \intersect (rewound \ excused) = {}
=============================================================================
