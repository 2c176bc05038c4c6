------------------------------ MODULE Workflow ------------------------------
(***************************************************************************)
(* Phased workflows: execute_plan (core/orchestration/executor.py), its    *)
(* checkpoints (core/memory/store.py) and the command that starts and      *)
(* resumes it (core/gateway/workflow.py).                                  *)
(*                                                                         *)
(* One command runs at a time; it may be killed anywhere and be started    *)
(* again.  What the subagents of a phase answer is a value never seen      *)
(* before, so that a result tells which run of which phase it comes from   *)
(* and what that run was given.                                            *)
(***************************************************************************)
EXTENDS Naturals, Sequences

CONSTANTS PhaseCount,   \* Len(plan.phases)
          MaxRuns,      \* bound: runs of phases
          MaxCommands   \* bound: commands given

ASSUME WorkflowAssumption == PhaseCount \in Nat \ {0} /\ MaxRuns \in Nat /\ MaxCommands \in Nat

VARIABLES checkpoints,  \* the table: per plan id and phase, status and result
          plan,         \* the id of the running command's plan, NoPlan when none runs
          wfAt,           \* where execute_plan is
          all_results,  \* its local of that name
          answer,       \* what the phase's subagents returned
          phaseRuns,    \* phases run so far: the name of the next result
          commands      \* commands given so far

workflowVars == <<checkpoints, plan, wfAt, all_results, answer, phaseRuns, commands>>

\* --resume takes the fixed id 0; without it every command has an id of its own.
PlanIds == 0..MaxCommands
NoPlan == MaxCommands + 1
PhaseIdx == 1..PhaseCount
NoResult == [run |-> 0, given |-> 0]

WorkflowInit ==
  /\ checkpoints = [p \in PlanIds |-> [i \in PhaseIdx |-> [status |-> "none", result |-> NoResult]]]
  /\ plan = NoPlan /\ wfAt = "idle"
  /\ all_results = <<>> /\ answer = NoResult
  /\ phaseRuns = 0 /\ commands = 0

\* The phase execute_plan is at: it appended one result for each phase before.
Idx == Len(all_results) + 1
GetCheckpoint == checkpoints[plan][Idx]

\* save_workflow_checkpoint: the row is inserted or overwritten, its result too.
SaveCheckpoint(status, result) ==
  checkpoints' = [checkpoints EXCEPT ![plan][Idx] = [status |-> status, result |-> result]]

\* run_audit_workflow
Command(resume) ==
  /\ plan = NoPlan /\ commands < MaxCommands
  /\ commands' = commands + 1
  /\ plan' = IF resume THEN 0 ELSE commands + 1
  /\ wfAt' = "check" /\ all_results' = <<>>
  /\ UNCHANGED <<checkpoints, answer, phaseRuns>>

\* A completed phase is not run again; its recorded result counts.
SkipPhase ==
  /\ wfAt = "check" /\ Idx <= PhaseCount /\ GetCheckpoint.status = "completed"
  /\ all_results' = Append(all_results, GetCheckpoint.result)
  /\ UNCHANGED <<checkpoints, plan, wfAt, answer, phaseRuns, commands>>

\* Mutant of BeginPhase: the checkpoint is not looked at.
BeginAnyPhase ==
  /\ wfAt = "check" /\ Idx <= PhaseCount
  /\ SaveCheckpoint("in_progress", NoResult)
  /\ wfAt' = "running"
  /\ UNCHANGED <<plan, all_results, answer, phaseRuns, commands>>

BeginPhase ==
  /\ wfAt = "check" /\ Idx <= PhaseCount /\ GetCheckpoint.status # "completed"
  /\ SaveCheckpoint("in_progress", NoResult)
  /\ wfAt' = "running"
  /\ UNCHANGED <<plan, all_results, answer, phaseRuns, commands>>

\* execute_phase returns (failed subagents are results too): it was given the last result.
PhaseEnds ==
  /\ wfAt = "running" /\ phaseRuns < MaxRuns
  /\ phaseRuns' = phaseRuns + 1
  /\ answer' = [run |-> phaseRuns + 1, given |-> IF Idx = 1 THEN 0 ELSE all_results[Idx - 1].run]
  /\ wfAt' = "save"
  /\ UNCHANGED <<checkpoints, plan, all_results, commands>>

Save ==
  /\ wfAt = "save"
  /\ SaveCheckpoint("completed", answer)
  /\ all_results' = Append(all_results, answer)
  /\ wfAt' = "check"
  /\ UNCHANGED <<plan, answer, phaseRuns, commands>>

\* The results of the last phase are printed; or the command is killed, wherever it is.
CommandEnds ==
  /\ plan # NoPlan
  /\ plan' = NoPlan /\ wfAt' = "idle" /\ all_results' = <<>> /\ answer' = NoResult
  /\ UNCHANGED <<checkpoints, phaseRuns, commands>>

WorkflowNext ==
  \/ \E resume \in BOOLEAN : Command(resume)
  \/ SkipPhase \/ BeginPhase \/ PhaseEnds \/ Save \/ CommandEnds
WorkflowSpec == WorkflowInit /\ [][WorkflowNext]_workflowVars
----------------------------------------------------------------------------
\* However often a workflow is killed and resumed, its recorded phases are one history: each
\* completed phase was run on the result recorded for the phase before it, what a resumed plan
\* hands on is what is recorded, and no phase is recorded before its predecessors.
BuiltOnRecorded ==
  \A p \in PlanIds : \A i \in PhaseIdx :
    LET before == IF i = 1 THEN [status |-> "completed", result |-> NoResult] ELSE checkpoints[p][i - 1] IN
    /\ checkpoints[p][i].status # "none" => before.status = "completed"
    /\ checkpoints[p][i].status = "completed" =>
         /\ checkpoints[p][i].result.run > 0
         /\ checkpoints[p][i].result.given = before.result.run
    /\ p = plan /\ i <= Len(all_results) => all_results[i] = checkpoints[p][i].result

\* Its inductive form: what execute_plan holds is completed and recorded as it holds it, the phase
\* it runs is recorded as begun, and what waits to be saved was given the last result.
PhaseResult == [run : Nat, given : Nat]
WorkflowTypeOK ==
  /\ checkpoints \in [PlanIds -> [PhaseIdx -> [status : {"none", "in_progress", "completed"}, result : PhaseResult]]]
  /\ plan \in 0..NoPlan /\ wfAt \in {"idle", "check", "running", "save"}
  /\ all_results \in Seq(PhaseResult) /\ answer \in PhaseResult
  /\ phaseRuns \in Nat /\ commands \in 0..MaxCommands
  /\ wfAt = "idle" <=> plan = NoPlan
ResultsRecorded ==
  /\ Len(all_results) <= PhaseCount
  /\ \A i \in 1..Len(all_results) :
       /\ plan # NoPlan /\ checkpoints[plan][i].status = "completed"
       /\ all_results[i] = checkpoints[plan][i].result
PhaseBegun ==
  wfAt \in {"running", "save"} => Idx <= PhaseCount /\ GetCheckpoint.status = "in_progress"
AnswerFits ==
  wfAt = "save" => answer.run > 0 /\ answer.given = IF Idx = 1 THEN 0 ELSE all_results[Idx - 1].run
OneHistory ==
  \A p \in PlanIds : \A i \in PhaseIdx :
    /\ checkpoints[p][i].status # "none" /\ i > 1 => checkpoints[p][i - 1].status = "completed"
    /\ checkpoints[p][i].status = "completed" =>
         /\ checkpoints[p][i].result.run > 0
         /\ checkpoints[p][i].result.given = IF i = 1 THEN 0 ELSE checkpoints[p][i - 1].result.run
WorkflowInv == WorkflowTypeOK /\ ResultsRecorded /\ PhaseBegun /\ AnswerFits /\ OneHistory
=============================================================================
