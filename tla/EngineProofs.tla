---------------------------- MODULE EngineProofs ----------------------------
(***************************************************************************)
(* Proofs about the live stream (LiveBuffer), for any viewers and sizes of *)
(* the ring, checkpoints (Workflow), for any phases, scheduled jobs        *)
(* (Schedules), for any jobs and threads, subagents (Subagents), for any   *)
(* runs, phases, capabilities and budgets, and plugins (Plugins), for any  *)
(* manifests and versions.                                                 *)
(***************************************************************************)
EXTENDS LiveBuffer, Workflow, Schedules, Subagents, Plugins, Recursion, FiniteSetTheorems

StreamPlaces == {"away", "read", "yield", "check", "lock", "wait", "done"}
StreamState == [at : StreamPlaces, cursor : Nat, until : Nat]

\* A step of one viewer keeps the invariant if that viewer's new state is fit.
LEMMA StreamMoves ==
  ASSUME LiveInv, NEW v \in Viewers, UNCHANGED <<next_id, closed>>,
         stream' \in [Viewers -> StreamState], \A w \in Viewers \ {v} : stream'[w] = stream[w],
         stream'[v].cursor < next_id, stream'[v].until < next_id,
         stream'[v].at = "yield" => stream'[v].cursor < stream'[v].until,
         stream'[v].at = "done" => closed /\ stream'[v].cursor = Newest
  PROVE  LiveInv'
<1>1. LiveTypeOK'
  BY DEF LiveInv, LiveTypeOK, StreamState, StreamPlaces
<1>2. NobodyAhead'
  BY DEF LiveInv, NobodyAhead
<1>3. FinalDelivered'
  BY DEF LiveInv, FinalDelivered, Newest
<1> QED
  BY <1>1, <1>2, <1>3 DEF LiveInv

\* What a move makes of a viewer.
LEMMA StreamUpdates ==
  ASSUME LiveTypeOK, NEW v \in Viewers, NEW STATE a, a \in StreamPlaces, stream' = [stream EXCEPT ![v].at = a]
  PROVE
    /\ stream' \in [Viewers -> StreamState] /\ \A w \in Viewers \ {v} : stream'[w] = stream[w]
    /\ stream'[v].at = a /\ stream'[v].cursor = stream[v].cursor /\ stream'[v].until = stream[v].until
BY DEF LiveTypeOK, StreamState, StreamPlaces

\* A viewer that goes from one place to another, neither of which yields or ends.
LEMMA StreamGoes ==
  ASSUME LiveInv, NEW v \in Viewers, NEW STATE from, NEW STATE to, to \in {"away", "read", "check", "lock", "wait"},
         Moves(v, from, to)
  PROVE  LiveInv'
<1>1. /\ stream' \in [Viewers -> StreamState] /\ \A w \in Viewers \ {v} : stream'[w] = stream[w]
      /\ stream'[v].at = to /\ stream'[v].cursor = stream[v].cursor /\ stream'[v].until = stream[v].until
  BY StreamUpdates DEF LiveInv, Moves, StreamPlaces
<1>2. stream'[v].cursor < next_id /\ stream'[v].until < next_id
  BY <1>1 DEF LiveInv, NobodyAhead
<1>3. to \notin {"yield", "done"} /\ UNCHANGED <<next_id, closed>>
  BY DEF Moves
<1> QED
  BY <1>1, <1>2, <1>3, StreamMoves

\* A stream that ends has delivered the last event, for any viewers, ring and rate: FinalDelivered.
THEOREM LiveCorrect == LiveSpec => []FinalDelivered
<1>1. LiveInit => LiveInv
  <2> SUFFICES ASSUME LiveInit PROVE LiveInv
    OBVIOUS
  <2>1. \A v \in Viewers : stream[v] = [at |-> "away", cursor |-> 0, until |-> 0]
    BY DEF LiveInit
  <2>2. closed \in BOOLEAN
    BY DEF LiveInit
  <2>3. LiveTypeOK
    BY <2>2 DEF LiveInit, LiveTypeOK
  <2>4. NobodyAhead /\ FinalDelivered
    BY <2>1 DEF LiveInit, NobodyAhead, FinalDelivered
  <2> QED
    BY <2>3, <2>4 DEF LiveInv
<1>2. LiveInv /\ [LiveNext]_liveVars => LiveInv'
  <2> SUFFICES ASSUME LiveInv, [LiveNext]_liveVars PROVE LiveInv'
    OBVIOUS
  <2>0. LiveTypeOK /\ NobodyAhead /\ FinalDelivered
    BY DEF LiveInv
  <2>1. CASE Publish
    <3>1. \A v \in Viewers : /\ stream'[v].cursor = stream[v].cursor /\ stream'[v].until = stream[v].until
                             /\ stream'[v].at = stream[v].at \/ stream'[v].at = "read"
      BY <2>0, <2>1 DEF Publish, LiveTypeOK
    <3>a. closed' \in BOOLEAN
      BY <2>0, <2>1 DEF Publish, LiveTypeOK
    <3>b. next_id' \in Nat \ {0} /\ next_id' >= next_id
      BY <2>0, <2>1 DEF Publish, LiveTypeOK
    <3>2. next_id' \in Nat \ {0} /\ next_id' >= next_id /\ closed' \in BOOLEAN
      BY <2>0, <3>a, <3>b
    <3>3. stream' \in [Viewers -> StreamState]
      BY <2>0, <2>1 DEF Publish, LiveTypeOK, StreamState, StreamPlaces
    <3>4. \A v \in Viewers : stream[v].at # "done"
      BY <2>0, <2>1 DEF Publish, NobodyAhead
    <3>5. LiveTypeOK'
      BY <2>0, <3>2, <3>3 DEF LiveTypeOK, StreamState, StreamPlaces
    <3>6. NobodyAhead'
      BY <2>0, <3>1, <3>2, <3>4 DEF NobodyAhead, LiveTypeOK
    <3> QED
      BY <3>1, <3>4, <3>5, <3>6 DEF LiveInv, FinalDelivered
  <2>2. ASSUME NEW v \in Viewers, Connect(v) \/ Disconnect(v) \/ EnterWait(v) \/ Keepalive(v) PROVE LiveInv'
    BY <2>2, StreamGoes DEF Connect, Disconnect, EnterWait, Keepalive
  <2>3. ASSUME NEW v \in Viewers, ReadRing(v) PROVE LiveInv'
    <3>1. stream[v] \in StreamState /\ stream[v].cursor < next_id
      BY <2>0 DEF LiveTypeOK, StreamState, StreamPlaces, NobodyAhead
    <3>2. /\ Newest \in Nat /\ Oldest \in Nat \ {0} /\ Newest < next_id
          /\ Newer(v) # {} => Oldest <= Newest /\ stream[v].cursor < Newest
      BY <2>0, <3>1, LiveBufferAssumption DEF Newest, Oldest, Newer, LiveTypeOK, StreamState, StreamPlaces
    <3>3. /\ stream' \in [Viewers -> StreamState] /\ \A w \in Viewers \ {v} : stream'[w] = stream[w]
          /\ stream'[v].at = IF Newer(v) = {} THEN "check" ELSE "yield"
          /\ stream'[v].cursor = IF Newer(v) = {} \/ Oldest <= stream[v].cursor THEN stream[v].cursor ELSE Oldest - 1
          /\ stream'[v].until = Newest
      <4> DEFINE to == IF Newer(v) = {} THEN "check" ELSE "yield"
                 next == IF Newer(v) = {} \/ Oldest <= stream[v].cursor THEN stream[v].cursor ELSE Oldest - 1
      <4>1. stream' = [stream EXCEPT ![v].at = to, ![v].cursor = next, ![v].until = Newest]
        BY <2>0, <2>3 DEF ReadRing
      <4>2. to \in StreamPlaces /\ next \in Nat /\ Newest \in Nat
        BY <2>0, <3>1, <3>2 DEF StreamState, StreamPlaces
      <4> HIDE DEF to, next
      <4>3. /\ stream' \in [Viewers -> StreamState] /\ \A w \in Viewers \ {v} : stream'[w] = stream[w]
            /\ stream'[v].at = to /\ stream'[v].cursor = next /\ stream'[v].until = Newest
        BY <2>0, <4>1, <4>2 DEF LiveTypeOK, StreamState, StreamPlaces
      <4> QED
        BY <4>3 DEF to, next
    <3>4. /\ stream'[v].cursor < next_id /\ stream'[v].until < next_id /\ stream'[v].at # "done"
          /\ stream'[v].at = "yield" => stream'[v].cursor < stream'[v].until
      <4>1. stream[v].cursor \in Nat /\ next_id \in Nat
        BY <2>0, <3>1 DEF LiveTypeOK, StreamState, StreamPlaces
      <4>2. CASE Newer(v) = {}
        BY <2>0, <3>1, <3>2, <3>3, <4>1, <4>2
      <4>3. CASE Newer(v) # {}
        BY <2>0, <3>1, <3>2, <3>3, <4>1, <4>3
      <4> QED
        BY <2>0, <4>2, <4>3
    <3>5. UNCHANGED <<next_id, closed>>
      BY <2>0, <2>3 DEF ReadRing
    <3> QED
      BY <3>3, <3>4, <3>5, StreamMoves
  <2>4. ASSUME NEW v \in Viewers, Yield(v) PROVE LiveInv'
    <3>1. stream[v] \in StreamState /\ stream[v].cursor < stream[v].until /\ stream[v].until < next_id
      BY <2>0, <2>4 DEF LiveTypeOK, StreamState, StreamPlaces, NobodyAhead, Yield
    <3>2. /\ stream' \in [Viewers -> StreamState] /\ \A w \in Viewers \ {v} : stream'[w] = stream[w]
          /\ stream'[v].at = IF stream[v].cursor + 1 = stream[v].until THEN "check" ELSE "yield"
          /\ stream'[v].cursor = stream[v].cursor + 1 /\ stream'[v].until = stream[v].until
      BY <2>0, <2>4, <3>1 DEF Yield, LiveTypeOK, StreamState, StreamPlaces
    <3>3. /\ stream'[v].cursor < next_id /\ stream'[v].until < next_id /\ stream'[v].at # "done"
          /\ stream'[v].at = "yield" => stream'[v].cursor < stream'[v].until
      <4>1. /\ stream[v].cursor \in Nat /\ stream[v].until \in Nat /\ next_id \in Nat
            /\ stream[v].cursor < stream[v].until /\ stream[v].until < next_id
        BY <2>0, <3>1 DEF LiveTypeOK, StreamState
      <4> QED
        BY <4>1, <3>2
    <3>4. UNCHANGED <<next_id, closed>>
      BY <2>0, <2>4 DEF Yield
    <3> QED
      BY <3>2, <3>3, <3>4, StreamMoves
  <2>5. ASSUME NEW v \in Viewers, CheckClosed(v) PROVE LiveInv'
    <3>1. stream[v] \in StreamState /\ stream[v].cursor < next_id /\ stream[v].until < next_id
      BY <2>0 DEF NobodyAhead, LiveTypeOK, StreamState, StreamPlaces
    <3>2. /\ stream' \in [Viewers -> StreamState] /\ \A w \in Viewers \ {v} : stream'[w] = stream[w]
          /\ stream'[v].at = IF closed /\ Newer(v) = {} THEN "done" ELSE "lock"
          /\ stream'[v].cursor = stream[v].cursor /\ stream'[v].until = stream[v].until
          /\ UNCHANGED <<next_id, closed>>
      <4> DEFINE to == IF closed /\ Newer(v) = {} THEN "done" ELSE "lock"
      <4>1. stream' = [stream EXCEPT ![v].at = to] /\ UNCHANGED <<next_id, closed>>
        BY <2>0, <2>5 DEF CheckClosed, Moves
      <4>2. to \in StreamPlaces
        BY <2>0 DEF StreamPlaces
      <4> HIDE DEF to
      <4>3. /\ stream' \in [Viewers -> StreamState] /\ \A w \in Viewers \ {v} : stream'[w] = stream[w]
            /\ stream'[v].at = to /\ stream'[v].cursor = stream[v].cursor /\ stream'[v].until = stream[v].until
        BY <2>0, <4>1, <4>2, StreamUpdates
      <4> QED
        BY <4>1, <4>3 DEF to
    <3>3. Newer(v) = {} => stream[v].cursor = Newest
      BY <2>0, <3>1, LiveBufferAssumption DEF Newer, Newest, Oldest, LiveTypeOK, StreamState, StreamPlaces
    <3> QED
      BY <3>1, <3>2, <3>3, StreamMoves
  <2>6. CASE UNCHANGED liveVars
    BY <2>0, <2>6 DEF liveVars, LiveInv, LiveTypeOK, NobodyAhead, FinalDelivered, Newest
  <2> QED
    BY <2>1, <2>2, <2>3, <2>4, <2>5, <2>6 DEF LiveNext, TailStep
<1>3. LiveInv => FinalDelivered
  BY DEF LiveInv
<1> QED
  BY <1>1, <1>2, <1>3, PTL DEF LiveSpec

-----------------------------------------------------------------------------
Checkpoint == [status : {"none", "in_progress", "completed"}, result : PhaseResult]

\* What the invariant says of a stored result is what the property asks for.
LEMMA WorkflowInvEnough == WorkflowInv => BuiltOnRecorded
<1> SUFFICES ASSUME WorkflowInv PROVE BuiltOnRecorded
  OBVIOUS
<1>1. WorkflowTypeOK /\ ResultsRecorded /\ OneHistory
  BY DEF WorkflowInv
<1> SUFFICES ASSUME NEW p \in PlanIds, NEW i \in PhaseIdx
             PROVE LET before == IF i = 1 THEN [status |-> "completed", result |-> NoResult] ELSE checkpoints[p][i - 1] IN
                   /\ checkpoints[p][i].status # "none" => before.status = "completed"
                   /\ checkpoints[p][i].status = "completed" =>
                        /\ checkpoints[p][i].result.run > 0
                        /\ checkpoints[p][i].result.given = before.result.run
                   /\ p = plan /\ i <= Len(all_results) => all_results[i] = checkpoints[p][i].result
  BY DEF BuiltOnRecorded
<1>2. p = plan /\ i <= Len(all_results) => all_results[i] = checkpoints[p][i].result
  BY <1>1 DEF ResultsRecorded, PhaseIdx, WorkflowTypeOK
<1>3. CASE i = 1
  BY <1>1, <1>2, <1>3 DEF OneHistory, NoResult
<1>4. CASE i # 1
  BY <1>1, <1>2, <1>4 DEF OneHistory, PhaseIdx
<1> QED
  BY <1>3, <1>4

\* A checkpoint is written, all others stay.
LEMMA CheckpointSaved ==
  ASSUME WorkflowTypeOK, plan \in PlanIds, Idx \in PhaseIdx,
         NEW status \in {"none", "in_progress", "completed"}, NEW STATE result, result \in PhaseResult,
         SaveCheckpoint(status, result)
  PROVE  /\ checkpoints' \in [PlanIds -> [PhaseIdx -> Checkpoint]]
         /\ checkpoints'[plan][Idx].status = status /\ checkpoints'[plan][Idx].result = result
         /\ \A p \in PlanIds, i \in PhaseIdx : p # plan \/ i # Idx => checkpoints'[p][i] = checkpoints[p][i]
<1>1. [status |-> status, result |-> result] \in Checkpoint
  BY DEF Checkpoint
<1>2. checkpoints \in [PlanIds -> [PhaseIdx -> Checkpoint]]
  BY DEF WorkflowTypeOK, Checkpoint
<1> QED
  BY <1>1, <1>2 DEF SaveCheckpoint

\* However often a workflow is killed and resumed, its recorded phases are one history, for any
\* number of phases and commands: BuiltOnRecorded.
THEOREM WorkflowCorrect == WorkflowSpec => []BuiltOnRecorded
<1>1. WorkflowInit => WorkflowInv
  <2> SUFFICES ASSUME WorkflowInit PROVE WorkflowInv
    OBVIOUS
  <2>1. \A p \in PlanIds, i \in PhaseIdx : checkpoints[p][i] = [status |-> "none", result |-> NoResult]
    BY DEF WorkflowInit
  <2>2. NoResult \in PhaseResult
    BY DEF NoResult, PhaseResult
  <2>3. WorkflowTypeOK
    BY <2>2, WorkflowAssumption DEF WorkflowInit, WorkflowTypeOK, NoPlan
  <2>4. ResultsRecorded /\ PhaseBegun /\ AnswerFits
    BY WorkflowAssumption DEF WorkflowInit, ResultsRecorded, PhaseBegun, AnswerFits
  <2>5. OneHistory
    BY <2>1 DEF OneHistory
  <2> QED
    BY <2>3, <2>4, <2>5 DEF WorkflowInv
<1>2. WorkflowInv /\ [WorkflowNext]_workflowVars => WorkflowInv'
  <2> SUFFICES ASSUME WorkflowInv, [WorkflowNext]_workflowVars PROVE WorkflowInv'
    OBVIOUS
  <2>0. WorkflowTypeOK /\ ResultsRecorded /\ PhaseBegun /\ AnswerFits /\ OneHistory
    BY DEF WorkflowInv
  <2>a. /\ PhaseCount \in Nat \ {0} /\ MaxCommands \in Nat
        /\ all_results \in Seq(PhaseResult) /\ Len(all_results) \in Nat
        /\ wfAt # "idle" => plan \in PlanIds
        /\ Idx = Len(all_results) + 1 /\ (Idx <= PhaseCount => Idx \in PhaseIdx)
    BY <2>0, WorkflowAssumption DEF WorkflowTypeOK, PlanIds, NoPlan, Idx, PhaseIdx
  <2>1. ASSUME NEW resume \in BOOLEAN, Command(resume) PROVE WorkflowInv'
    <3>1. plan' \in PlanIds /\ plan' \in 0..NoPlan /\ plan' # NoPlan /\ commands' \in 0..MaxCommands
      BY <2>0, <2>a, <2>1 DEF Command, WorkflowTypeOK, PlanIds, NoPlan
    <3>2. all_results' = <<>> /\ wfAt' = "check" /\ UNCHANGED <<checkpoints, answer, phaseRuns>>
      BY <2>1 DEF Command
    <3>3. WorkflowTypeOK'
      BY <2>0, <3>1, <3>2 DEF WorkflowTypeOK, NoPlan
    <3>4. ResultsRecorded' /\ PhaseBegun' /\ AnswerFits'
      BY <2>a, <3>2 DEF ResultsRecorded, PhaseBegun, AnswerFits
    <3>5. OneHistory'
      BY <2>0, <3>2 DEF OneHistory
    <3> QED
      BY <3>3, <3>4, <3>5 DEF WorkflowInv
  <2>2. CASE SkipPhase
    <3>1. /\ Idx \in PhaseIdx /\ plan \in PlanIds /\ plan # NoPlan /\ wfAt = "check"
          /\ checkpoints[plan][Idx].status = "completed"
          /\ all_results' = Append(all_results, checkpoints[plan][Idx].result)
          /\ UNCHANGED <<checkpoints, plan, wfAt, answer, phaseRuns, commands>>
      BY <2>0, <2>2, <2>a DEF SkipPhase, GetCheckpoint, WorkflowTypeOK
    <3>2. checkpoints[plan][Idx].result \in PhaseResult
      BY <2>0, <3>1 DEF WorkflowTypeOK
    <3>3. /\ all_results' \in Seq(PhaseResult) /\ Len(all_results') = Idx
          /\ all_results'[Idx] = checkpoints[plan][Idx].result
          /\ \A i \in 1..Len(all_results) : all_results'[i] = all_results[i]
      BY <2>a, <3>1, <3>2
    <3>4. WorkflowTypeOK'
      BY <2>0, <3>1, <3>3 DEF WorkflowTypeOK
    <3>5. ResultsRecorded'
      BY <2>0, <2>a, <3>1, <3>3 DEF ResultsRecorded, PhaseIdx
    <3>6. PhaseBegun' /\ AnswerFits'
      BY <3>1 DEF PhaseBegun, AnswerFits
    <3>7. OneHistory'
      BY <2>0, <3>1 DEF OneHistory
    <3> QED
      BY <3>4, <3>5, <3>6, <3>7 DEF WorkflowInv
  <2>3. CASE BeginPhase
    <3>1. /\ Idx \in PhaseIdx /\ plan \in PlanIds /\ plan # NoPlan /\ wfAt' = "running"
          /\ checkpoints[plan][Idx].status # "completed" /\ SaveCheckpoint("in_progress", NoResult)
          /\ UNCHANGED <<plan, all_results, answer, phaseRuns, commands>>
      BY <2>0, <2>3, <2>a DEF BeginPhase, GetCheckpoint, WorkflowTypeOK
    <3>2. NoResult \in PhaseResult
      BY DEF NoResult, PhaseResult
    <3>3. /\ checkpoints' \in [PlanIds -> [PhaseIdx -> Checkpoint]]
          /\ checkpoints'[plan][Idx].status = "in_progress"
          /\ \A p \in PlanIds, i \in PhaseIdx : p # plan \/ i # Idx => checkpoints'[p][i] = checkpoints[p][i]
      BY <2>0, <3>1, <3>2, CheckpointSaved
    <3>4. WorkflowTypeOK'
      BY <2>0, <3>1, <3>3 DEF WorkflowTypeOK, Checkpoint
    <3>5. ResultsRecorded'
      BY <2>0, <2>a, <3>1, <3>3 DEF ResultsRecorded, PhaseIdx
    <3>6. PhaseBegun' /\ AnswerFits'
      BY <2>a, <3>1, <3>3 DEF PhaseBegun, AnswerFits, GetCheckpoint, Idx, PhaseIdx
    <3>7. OneHistory'
      <4> SUFFICES ASSUME NEW p \in PlanIds, NEW i \in PhaseIdx
                   PROVE /\ checkpoints'[p][i].status # "none" /\ i > 1 => checkpoints'[p][i - 1].status = "completed"
                         /\ checkpoints'[p][i].status = "completed" =>
                              /\ checkpoints'[p][i].result.run > 0
                              /\ checkpoints'[p][i].result.given = IF i = 1 THEN 0 ELSE checkpoints'[p][i - 1].result.run
        BY DEF OneHistory
      <4>1. i > 1 => i - 1 \in PhaseIdx
        BY <2>a DEF PhaseIdx
      <4>2. CASE p # plan \/ (i # Idx /\ i # Idx + 1)
        <5>1. checkpoints'[p][i] = checkpoints[p][i]
          BY <3>3, <4>2
        <5>2. i > 1 => checkpoints'[p][i - 1] = checkpoints[p][i - 1]
          BY <2>a, <3>3, <4>1, <4>2 DEF PhaseIdx
        <5>3. i = 1 \/ i > 1
          BY <2>a DEF PhaseIdx
        <5> QED
          BY <2>0, <5>1, <5>2, <5>3 DEF OneHistory
      <4>3. CASE p = plan /\ i = Idx
        <5>1. i > 1 => checkpoints[p][i - 1].status = "completed"
          BY <2>0, <2>a, <4>1, <4>3 DEF ResultsRecorded, PhaseIdx
        <5> QED
          BY <2>a, <3>3, <4>1, <4>3, <5>1 DEF PhaseIdx
      <4>4. CASE p = plan /\ i = Idx + 1
        <5>1. i > 1 /\ i - 1 = Idx
          BY <2>a, <4>4
        <5>2. checkpoints[p][i].status = "none"
          BY <2>0, <3>1, <4>4, <5>1 DEF OneHistory
        <5>3. checkpoints'[p][i].status = "none"
          BY <2>a, <3>3, <4>4, <5>2
        <5> QED
          BY <5>3
      <4> QED
        BY <4>2, <4>3, <4>4
    <3> QED
      BY <3>4, <3>5, <3>6, <3>7 DEF WorkflowInv
  <2>4. CASE PhaseEnds
    <3>1. /\ wfAt = "running" /\ wfAt' = "save" /\ UNCHANGED <<checkpoints, plan, all_results, commands>>
          /\ phaseRuns \in Nat /\ phaseRuns' = phaseRuns + 1
      BY <2>0, <2>4 DEF PhaseEnds, WorkflowTypeOK
    <3>2. Idx # 1 => all_results[Idx - 1] \in PhaseResult
      BY <2>a
    <3>3. /\ answer' = [run |-> phaseRuns + 1, given |-> IF Idx = 1 THEN 0 ELSE all_results[Idx - 1].run]
      BY <2>4 DEF PhaseEnds
    <3>4. answer' \in PhaseResult /\ answer'.run > 0
      BY <3>1, <3>2, <3>3 DEF PhaseResult
    <3>5. WorkflowTypeOK'
      BY <2>0, <3>1, <3>4 DEF WorkflowTypeOK
    <3>6. ResultsRecorded' /\ OneHistory'
      BY <2>0, <3>1 DEF ResultsRecorded, OneHistory
    <3>7. PhaseBegun' /\ AnswerFits'
      BY <2>0, <3>1, <3>3, <3>4 DEF PhaseBegun, AnswerFits, GetCheckpoint, Idx
    <3> QED
      BY <3>5, <3>6, <3>7 DEF WorkflowInv
  <2>5. CASE Save
    <3>1. /\ Idx \in PhaseIdx /\ plan \in PlanIds /\ plan # NoPlan /\ wfAt = "save" /\ wfAt' = "check"
          /\ checkpoints[plan][Idx].status = "in_progress" /\ SaveCheckpoint("completed", answer)
          /\ all_results' = Append(all_results, answer) /\ answer \in PhaseResult
          /\ UNCHANGED <<plan, answer, phaseRuns, commands>>
      BY <2>0, <2>5, <2>a DEF Save, GetCheckpoint, WorkflowTypeOK, PhaseBegun
    <3>2. /\ all_results' \in Seq(PhaseResult) /\ Len(all_results') = Idx /\ all_results'[Idx] = answer
          /\ \A i \in 1..Len(all_results) : all_results'[i] = all_results[i]
      BY <2>a, <3>1
    <3>3. /\ checkpoints' \in [PlanIds -> [PhaseIdx -> Checkpoint]]
          /\ checkpoints'[plan][Idx].status = "completed" /\ checkpoints'[plan][Idx].result = answer
          /\ \A p \in PlanIds, i \in PhaseIdx : p # plan \/ i # Idx => checkpoints'[p][i] = checkpoints[p][i]
      BY <2>0, <3>1, CheckpointSaved
    <3>4. WorkflowTypeOK'
      BY <2>0, <3>1, <3>2, <3>3 DEF WorkflowTypeOK, Checkpoint
    <3>5. ResultsRecorded'
      BY <2>0, <2>a, <3>1, <3>2, <3>3 DEF ResultsRecorded, PhaseIdx
    <3>6. PhaseBegun' /\ AnswerFits'
      BY <3>1 DEF PhaseBegun, AnswerFits
    <3>7. OneHistory'
      <4> SUFFICES ASSUME NEW p \in PlanIds, NEW i \in PhaseIdx
                   PROVE /\ checkpoints'[p][i].status # "none" /\ i > 1 => checkpoints'[p][i - 1].status = "completed"
                         /\ checkpoints'[p][i].status = "completed" =>
                              /\ checkpoints'[p][i].result.run > 0
                              /\ checkpoints'[p][i].result.given = IF i = 1 THEN 0 ELSE checkpoints'[p][i - 1].result.run
        BY DEF OneHistory
      <4>1. i > 1 => i - 1 \in PhaseIdx
        BY <2>a DEF PhaseIdx
      <4>2. CASE p # plan \/ (i # Idx /\ i # Idx + 1)
        <5>1. checkpoints'[p][i] = checkpoints[p][i]
          BY <3>3, <4>2
        <5>2. i > 1 => checkpoints'[p][i - 1] = checkpoints[p][i - 1]
          BY <2>a, <3>3, <4>1, <4>2 DEF PhaseIdx
        <5>3. i = 1 \/ i > 1
          BY <2>a DEF PhaseIdx
        <5> QED
          BY <2>0, <5>1, <5>2, <5>3 DEF OneHistory
      <4>3. CASE p = plan /\ i = Idx
        <5>1. i > 1 => /\ checkpoints[p][i - 1].status = "completed"
                       /\ checkpoints[p][i - 1].result = all_results[i - 1]
          BY <2>0, <2>a, <4>1, <4>3 DEF ResultsRecorded, PhaseIdx
        <5>2. i > 1 => checkpoints'[p][i - 1] = checkpoints[p][i - 1]
          BY <2>a, <3>3, <4>1, <4>3 DEF PhaseIdx
        <5>3. answer.run > 0 /\ answer.given = IF i = 1 THEN 0 ELSE all_results[i - 1].run
          BY <2>0, <3>1, <4>3 DEF AnswerFits
        <5> QED
          BY <2>a, <3>3, <4>3, <5>1, <5>2, <5>3 DEF PhaseIdx
      <4>4. CASE p = plan /\ i = Idx + 1
        <5>1. i > 1 /\ i - 1 = Idx
          BY <2>a, <4>4
        <5>2. checkpoints[p][i].status = "none"
          BY <2>0, <3>1, <4>4, <5>1 DEF OneHistory
        <5>3. checkpoints'[p][i].status = "none"
          BY <2>a, <3>3, <4>4, <5>2
        <5> QED
          BY <5>3
      <4> QED
        BY <4>2, <4>3, <4>4
    <3> QED
      BY <3>4, <3>5, <3>6, <3>7 DEF WorkflowInv
  <2>6. CASE CommandEnds
    <3>1. /\ plan' = NoPlan /\ wfAt' = "idle" /\ all_results' = <<>> /\ answer' = NoResult
          /\ UNCHANGED <<checkpoints, phaseRuns, commands>>
      BY <2>6 DEF CommandEnds
    <3>2. NoResult \in PhaseResult
      BY DEF NoResult, PhaseResult
    <3>3. WorkflowTypeOK'
      BY <2>0, <2>a, <3>1, <3>2 DEF WorkflowTypeOK, NoPlan
    <3>4. ResultsRecorded' /\ PhaseBegun' /\ AnswerFits'
      BY <2>a, <3>1 DEF ResultsRecorded, PhaseBegun, AnswerFits
    <3>5. OneHistory'
      BY <2>0, <3>1 DEF OneHistory
    <3> QED
      BY <3>3, <3>4, <3>5 DEF WorkflowInv
  <2>7. CASE UNCHANGED workflowVars
    BY <2>0, <2>7 DEF workflowVars, WorkflowInv, WorkflowTypeOK, ResultsRecorded, PhaseBegun, AnswerFits, OneHistory,
                      GetCheckpoint, Idx
  <2> QED
    BY <2>1, <2>2, <2>3, <2>4, <2>5, <2>6, <2>7 DEF WorkflowNext
<1> QED
  BY <1>1, <1>2, WorkflowInvEnough, PTL DEF WorkflowSpec

-----------------------------------------------------------------------------
Ops == {"add", "remove"} \union Pausing
JobOk(j) == AddsAlone(j) /\ OnlyOnTheWay(j) /\ PausesAlone(j)

\* A request under way is one of the operations on a job.
LEMMA AtWork ==
  ASSUME SchedulesTypeOK, NEW t \in Requesters, NEW j \in Jobs
  PROVE  /\ t \in Working(j) => request[t].op \in Ops /\ request[t].job = j
         /\ \A op \in Ops : Does(t, op, j) => t \in Working(j) /\ request[t].op = op
         /\ request[t] = NoRequest => t \notin Working(j)
<1>1. request[t] = NoRequest \/ request[t] \in [op : Ops, job : Jobs]
  BY DEF SchedulesTypeOK, Ops
<1>2. \A r \in [op : Ops, job : Jobs] : r.op \in Ops /\ r # NoRequest
  <2>1. SUFFICES ASSUME NEW r \in [op : Ops, job : Jobs] PROVE r.op \in Ops /\ r # NoRequest
    OBVIOUS
  <2>2. NoRequest.op = "idle" /\ "idle" \notin Ops
    BY DEF NoRequest, Ops, Pausing
  <2> QED
    BY <2>2
<1>3. t \in Working(j) => request[t].op \in Ops /\ request[t].job = j
  BY <1>1, <1>2 DEF Working
<1>4. ASSUME NEW op \in Ops, Does(t, op, j) PROVE t \in Working(j) /\ request[t].op = op
  <2>1. request[t] = [op |-> op, job |-> j] /\ [op |-> op, job |-> j] \in [op : Ops, job : Jobs]
    BY <1>4 DEF Does
  <2> QED
    BY <2>1, <1>2 DEF Working
<1>5. request[t] = NoRequest => t \notin Working(j)
  BY DEF Working
<1> QED
  BY <1>3, <1>4, <1>5

\* A request begins: one more thread works on the job, nobody else notices.
LEMMA WorkBegins ==
  ASSUME SchedulesTypeOK, NEW t \in Requesters, NEW j \in Jobs, NEW op \in Ops, Begins(t, op, j)
  PROVE  /\ request' \in [Requesters -> {NoRequest} \union [op : Ops, job : Jobs]]
         /\ t \notin Working(j) /\ Working(j)' = Working(j) \union {t} /\ request'[t].op = op
         /\ \A k \in Jobs \ {j} : t \notin Working(k) /\ Working(k)' = Working(k)
         /\ \A u \in Requesters \ {t} : request'[u] = request[u]
<1> DEFINE r == [op |-> op, job |-> j]
<1>1. r \in [op : Ops, job : Jobs] /\ r.op = op /\ r.job = j
  OBVIOUS
<1>2. request[t] = NoRequest /\ request' = [request EXCEPT ![t] = r]
  BY DEF Begins
<1>3. NoRequest.op = "idle" /\ "idle" \notin Ops
  BY DEF NoRequest, Ops, Pausing
<1> HIDE DEF r
<1>4. r # NoRequest
  BY <1>1, <1>3
<1>5. /\ request' \in [Requesters -> {NoRequest} \union [op : Ops, job : Jobs]]
      /\ request'[t] = r /\ \A u \in Requesters \ {t} : request'[u] = request[u]
  BY <1>1, <1>2 DEF SchedulesTypeOK, Ops
<1>6. \A k \in Jobs : t \notin Working(k)
  BY <1>2 DEF Working
<1>7. Working(j)' = Working(j) \union {t}
  BY <1>1, <1>4, <1>5 DEF Working
<1>8. \A k \in Jobs \ {j} : Working(k)' = Working(k)
  BY <1>1, <1>5, <1>6 DEF Working
<1> QED
  BY <1>1, <1>5, <1>6, <1>7, <1>8

\* A request ends: its thread no longer works on the job.
LEMMA WorkEnds ==
  ASSUME SchedulesTypeOK, NEW t \in Requesters, NEW j \in Jobs, NEW op \in Ops, Does(t, op, j), Ends(t)
  PROVE  /\ request' \in [Requesters -> {NoRequest} \union [op : Ops, job : Jobs]]
         /\ t \in Working(j) /\ request[t].op = op /\ Working(j)' = Working(j) \ {t}
         /\ \A k \in Jobs \ {j} : t \notin Working(k) /\ Working(k)' = Working(k)
         /\ \A u \in Requesters \ {t} : request'[u] = request[u]
<1>1. t \in Working(j) /\ request[t].op = op /\ request[t].job = j
  BY AtWork
<1>2. /\ request' \in [Requesters -> {NoRequest} \union [op : Ops, job : Jobs]]
      /\ request'[t] = NoRequest /\ \A u \in Requesters \ {t} : request'[u] = request[u]
  BY DEF Ends, SchedulesTypeOK, Ops
<1>3. Working(j)' = Working(j) \ {t}
  BY <1>2 DEF Working
<1>4. \A k \in Jobs \ {j} : t \notin Working(k) /\ Working(k)' = Working(k)
  BY <1>1, <1>2 DEF Working
<1> QED
  BY <1>1, <1>2, <1>3, <1>4

\* A job that a step does not touch stays as it should be.
LEMMA JobUntouched ==
  ASSUME NEW k \in Jobs, JobOk(k), rows'[k] = rows[k], live'[k] = live[k], Working(k)' = Working(k),
         \A u \in Working(k) : request'[u] = request[u], k \in overlap' <=> k \in overlap
  PROVE  JobOk(k)'
<1>1. AddsAlone(k)'
  BY DEF JobOk, AddsAlone
<1>2. OnlyOnTheWay(k)'
  BY DEF JobOk, OnlyOnTheWay
<1>3. PausesAlone(k)'
  BY DEF JobOk, PausesAlone, Updated
<1> QED
  BY <1>1, <1>2, <1>3 DEF JobOk

\* When no request is working on a job, scheduler and table agree on it, for any jobs and
\* threads: RowIsLive.
THEOREM SchedulesCorrect == SchedulesSpec => []RowIsLive
<1>1. SchedulesInit => SchedulesInv
  <2> SUFFICES ASSUME SchedulesInit PROVE SchedulesInv
    OBVIOUS
  <2>1. \A j \in Jobs : rows[j] = "none" /\ live[j] = "none" /\ Working(j) = {}
    BY DEF SchedulesInit, Working
  <2>2. SchedulesTypeOK
    BY DEF SchedulesInit, SchedulesTypeOK, JobStates
  <2> QED
    BY <2>1, <2>2 DEF SchedulesInv, AddsAlone, OnlyOnTheWay, PausesAlone
<1>2. SchedulesInv /\ [SchedulesNext]_scheduleVars => SchedulesInv'
  <2> SUFFICES ASSUME SchedulesInv, [SchedulesNext]_scheduleVars PROVE SchedulesInv'
    OBVIOUS
  <2>0. SchedulesTypeOK /\ \A j \in Jobs : JobOk(j)
    BY DEF SchedulesInv, JobOk
  <2>a. /\ rows \in [Jobs -> JobStates] /\ live \in [Jobs -> JobStates]
        /\ fired \in [pending : Nat, started : Nat]
        /\ {"none", "active", "paused"} = JobStates /\ Ops = {"add", "remove", "pause", "resume"}
    BY <2>0 DEF SchedulesTypeOK, JobStates, Ops, Pausing
  <2>b. \A j \in Jobs : \A u \in Working(j) : u \in Requesters /\ request[u].op \in Ops
    BY <2>0, AtWork DEF Working
  <2>c. \A j \in Jobs : \A u \in Working(j)' : u \in Requesters
    BY DEF Working
  \* A step of one thread on one job: it is enough to look at that job.
  <2>d. ASSUME NEW t \in Requesters, NEW j \in Jobs,
               rows' \in [Jobs -> JobStates], live' \in [Jobs -> JobStates], UNCHANGED fired,
               request' \in [Requesters -> {NoRequest} \union [op : Ops, job : Jobs]],
               \A k \in Jobs \ {j} : t \notin Working(k) /\ Working(k)' = Working(k),
               \A u \in Requesters \ {t} : request'[u] = request[u],
               \A k \in Jobs \ {j} : rows'[k] = rows[k] /\ live'[k] = live[k] /\ (k \in overlap' <=> k \in overlap),
               JobOk(j)'
        PROVE  SchedulesInv'
    <3>1. SchedulesTypeOK'
      BY <2>a, <2>d DEF SchedulesTypeOK, Ops
    <3>2. ASSUME NEW k \in Jobs \ {j} PROVE JobOk(k)'
      <4>1. \A u \in Working(k) : request'[u] = request[u]
        BY <2>b, <2>d
      <4>2. k \in Jobs /\ JobOk(k)
        BY <2>0
      <4>3. rows'[k] = rows[k] /\ live'[k] = live[k] /\ Working(k)' = Working(k) /\ (k \in overlap' <=> k \in overlap)
        BY <2>d
      <4> QED
        BY <4>1, <4>2, <4>3, JobUntouched
    <3> QED
      BY <2>d, <3>1, <3>2 DEF SchedulesInv, JobOk
  <2>1. ASSUME NEW t \in Requesters, NEW j \in Jobs, AddLive(t, j) PROVE SchedulesInv'
    <3>1. /\ Begins(t, "add", j) /\ live' = [live EXCEPT ![j] = "active"] /\ UNCHANGED <<rows, fired, overlap>>
          /\ rows[j] = "none" /\ Working(j) = {}
      BY <2>1 DEF AddLive
    <3>2. /\ request' \in [Requesters -> {NoRequest} \union [op : Ops, job : Jobs]]
          /\ Working(j)' = {t} /\ request'[t].op = "add"
          /\ \A k \in Jobs \ {j} : t \notin Working(k) /\ Working(k)' = Working(k)
          /\ \A u \in Requesters \ {t} : request'[u] = request[u]
      BY <2>0, <2>a, <3>1, WorkBegins
    <3>3. live' \in [Jobs -> JobStates] /\ live'[j] = "active" /\ \A k \in Jobs \ {j} : live'[k] = live[k]
      BY <2>a, <3>1
    <3>4. JobOk(j)'
      BY <3>1, <3>2, <3>3 DEF JobOk, AddsAlone, OnlyOnTheWay, PausesAlone, Pausing
    <3> QED
      BY <2>a, <2>d, <3>1, <3>2, <3>3, <3>4
  <2>2. ASSUME NEW t \in Requesters, NEW j \in Jobs, Persist(t, j) PROVE SchedulesInv'
    <3>1. Does(t, "add", j) /\ Ends(t) /\ rows' = [rows EXCEPT ![j] = "active"] /\ UNCHANGED <<live, fired, overlap>>
      BY <2>2 DEF Persist
    <3>2. /\ request' \in [Requesters -> {NoRequest} \union [op : Ops, job : Jobs]]
          /\ t \in Working(j) /\ request[t].op = "add" /\ Working(j)' = Working(j) \ {t}
          /\ \A k \in Jobs \ {j} : t \notin Working(k) /\ Working(k)' = Working(k)
          /\ \A u \in Requesters \ {t} : request'[u] = request[u]
      BY <2>0, <2>a, <3>1, WorkEnds
    <3>3. rows' \in [Jobs -> JobStates] /\ rows'[j] = "active" /\ \A k \in Jobs \ {j} : rows'[k] = rows[k]
      BY <2>a, <3>1
    <3>4. live[j] = "active" /\ Working(j)' = {}
      BY <2>0, <3>2 DEF JobOk, AddsAlone
    <3>5. JobOk(j)'
      BY <3>1, <3>3, <3>4 DEF JobOk, AddsAlone, OnlyOnTheWay, PausesAlone
    <3> QED
      BY <2>a, <2>d, <3>1, <3>2, <3>3, <3>5
  <2>3. ASSUME NEW t \in Requesters, NEW j \in Jobs, DeleteRow(t, j) PROVE SchedulesInv'
    <3>1. /\ Begins(t, "remove", j) /\ rows' = [rows EXCEPT ![j] = "none"] /\ UNCHANGED <<live, fired, overlap>>
          /\ rows[j] # "none"
      BY <2>3 DEF DeleteRow
    <3>2. /\ request' \in [Requesters -> {NoRequest} \union [op : Ops, job : Jobs]]
          /\ t \notin Working(j) /\ Working(j)' = Working(j) \union {t} /\ request'[t].op = "remove"
          /\ \A k \in Jobs \ {j} : t \notin Working(k) /\ Working(k)' = Working(k)
          /\ \A u \in Requesters \ {t} : request'[u] = request[u]
      BY <2>0, <2>a, <3>1, WorkBegins
    <3>3. rows' \in [Jobs -> JobStates] /\ rows'[j] = "none" /\ \A k \in Jobs \ {j} : rows'[k] = rows[k]
      BY <2>a, <3>1
    <3>4. \A u \in Working(j) : request'[u] = request[u] /\ u # t /\ request[u].op # "add"
      BY <2>0, <2>b, <3>1, <3>2 DEF JobOk, AddsAlone
    <3>5. AddsAlone(j)' /\ OnlyOnTheWay(j)'
      BY <3>2, <3>3, <3>4 DEF AddsAlone, OnlyOnTheWay
    <3>6. PausesAlone(j)'
      BY <2>0, <3>1, <3>2, <3>3, <3>4 DEF JobOk, PausesAlone, Pausing
    <3> QED
      BY <2>a, <2>d, <3>1, <3>2, <3>3, <3>5, <3>6 DEF JobOk
  <2>4. ASSUME NEW t \in Requesters, NEW j \in Jobs, RemoveLive(t, j) PROVE SchedulesInv'
    <3>1. Does(t, "remove", j) /\ Ends(t) /\ live' = [live EXCEPT ![j] = "none"] /\ UNCHANGED <<rows, fired, overlap>>
      BY <2>4 DEF RemoveLive
    <3>2. /\ request' \in [Requesters -> {NoRequest} \union [op : Ops, job : Jobs]]
          /\ t \in Working(j) /\ request[t].op = "remove" /\ Working(j)' = Working(j) \ {t}
          /\ \A k \in Jobs \ {j} : t \notin Working(k) /\ Working(k)' = Working(k)
          /\ \A u \in Requesters \ {t} : request'[u] = request[u]
      BY <2>0, <2>a, <3>1, WorkEnds
    <3>3. live' \in [Jobs -> JobStates] /\ live'[j] = "none" /\ \A k \in Jobs \ {j} : live'[k] = live[k]
      BY <2>a, <3>1
    <3>4. rows[j] = "none"
      BY <2>0, <3>2 DEF JobOk, AddsAlone
    <3>5. \A u \in Working(j)' : u \in Working(j) /\ request'[u] = request[u] /\ request[u].op # "add"
      BY <2>0, <2>b, <3>2 DEF JobOk, AddsAlone
    <3>6. AddsAlone(j)' /\ OnlyOnTheWay(j)'
      BY <3>1, <3>3, <3>4, <3>5 DEF AddsAlone, OnlyOnTheWay
    <3>7. PausesAlone(j)'
      BY <2>0, <3>1, <3>4, <3>5 DEF JobOk, PausesAlone
    <3> QED
      BY <2>a, <2>d, <3>1, <3>2, <3>3, <3>6, <3>7 DEF JobOk
  <2>5. ASSUME NEW t \in Requesters, NEW j \in Jobs, NEW op \in {"pause", "resume"}, UpdateRow(t, j, op) PROVE SchedulesInv'
    <3>1. /\ Begins(t, op, j) /\ rows' = [rows EXCEPT ![j] = IF @ = "none" THEN @ ELSE Updated(op)]
          /\ UNCHANGED <<live, fired>> /\ \A u \in Requesters : ~Does(u, "add", j)
          /\ overlap' = IF \E u \in Working(j) : request[u].op \in Pausing THEN overlap \union {j} ELSE overlap
      BY <2>5 DEF UpdateRow, Pausing
    <3>2. /\ request' \in [Requesters -> {NoRequest} \union [op : Ops, job : Jobs]]
          /\ t \notin Working(j) /\ Working(j)' = Working(j) \union {t} /\ request'[t].op = op
          /\ \A k \in Jobs \ {j} : t \notin Working(k) /\ Working(k)' = Working(k)
          /\ \A u \in Requesters \ {t} : request'[u] = request[u]
      BY <2>0, <2>a, <3>1, WorkBegins
    <3>3. /\ Updated(op) \in JobStates \ {"none"}
          /\ rows' \in [Jobs -> JobStates] /\ rows'[j] = IF rows[j] = "none" THEN "none" ELSE Updated(op)
          /\ \A k \in Jobs \ {j} : rows'[k] = rows[k]
      BY <2>a, <3>1 DEF Updated
    <3>4. \A u \in Working(j) : request[u].op # "add"
      <4> SUFFICES ASSUME NEW u \in Working(j), request[u].op = "add" PROVE FALSE
        OBVIOUS
      <4>1. u \in Requesters /\ request[u].job = j /\ request[u] # NoRequest
        BY DEF Working
      <4>2. request[u] \in [op : Ops, job : Jobs]
        BY <2>0, <4>1 DEF SchedulesTypeOK, Ops
      <4>3. request[u] = [op |-> "add", job |-> j]
        BY <4>1, <4>2
      <4> QED
        BY <3>1, <4>1, <4>3 DEF Does
    <3>5. \A u \in Working(j) : request'[u] = request[u] /\ u # t
      BY <2>b, <3>2
    <3>6. AddsAlone(j)' /\ OnlyOnTheWay(j)'
      BY <2>0, <3>1, <3>2, <3>3, <3>4, <3>5 DEF JobOk, AddsAlone, OnlyOnTheWay
    <3>7. PausesAlone(j)'
      <4> SUFFICES ASSUME j \notin overlap' PROVE PausesAlone(j)'
        BY DEF PausesAlone
      <4>1. \A u \in Working(j) : request[u].op \notin Pausing
        BY <3>1
      <4>2. op \in Pausing
        BY DEF Pausing
      <4> QED
        BY <3>2, <3>3, <3>5, <4>1, <4>2 DEF PausesAlone
    <3>8. \A k \in Jobs \ {j} : k \in overlap' <=> k \in overlap
      BY <3>1
    <3> QED
      BY <2>a, <2>d, <3>1, <3>2, <3>3, <3>6, <3>7, <3>8 DEF JobOk
  <2>6. ASSUME NEW t \in Requesters, NEW j \in Jobs, NEW op \in {"pause", "resume"}, UpdateLive(t, j, op) PROVE SchedulesInv'
    <3>1. /\ Does(t, op, j) /\ Ends(t) /\ live' = [live EXCEPT ![j] = IF @ = "none" THEN @ ELSE Updated(op)]
          /\ UNCHANGED <<rows, fired, overlap>>
      BY <2>6 DEF UpdateLive
    <3>2. /\ request' \in [Requesters -> {NoRequest} \union [op : Ops, job : Jobs]]
          /\ t \in Working(j) /\ request[t].op = op /\ Working(j)' = Working(j) \ {t}
          /\ \A k \in Jobs \ {j} : t \notin Working(k) /\ Working(k)' = Working(k)
          /\ \A u \in Requesters \ {t} : request'[u] = request[u]
      BY <2>0, <2>a, <3>1, WorkEnds
    <3>3. /\ Updated(op) \in JobStates \ {"none"}
          /\ live' \in [Jobs -> JobStates] /\ live'[j] = IF live[j] = "none" THEN "none" ELSE Updated(op)
          /\ \A k \in Jobs \ {j} : live'[k] = live[k]
      BY <2>a, <3>1 DEF Updated
    <3>4. \A u \in Working(j)' : u \in Working(j) /\ u # t /\ request'[u] = request[u]
      BY <2>b, <3>2
    <3>5. \A u \in Working(j) : request[u].op # "add"
      BY <2>0, <3>2 DEF JobOk, AddsAlone
    <3>6. AddsAlone(j)' /\ OnlyOnTheWay(j)'
      BY <2>0, <3>1, <3>2, <3>3, <3>4, <3>5 DEF JobOk, AddsAlone, OnlyOnTheWay
    <3>7. PausesAlone(j)'
      <4> SUFFICES ASSUME j \notin overlap PROVE PausesAlone(j)'
        BY <3>1 DEF PausesAlone
      <4>1. op \in Pausing
        BY DEF Pausing
      <4>2. \A u \in Working(j)' : request[u].op \notin Pausing
        BY <2>0, <3>2, <3>4, <4>1 DEF JobOk, PausesAlone
      <4>3. rows[j] # "none" => rows[j] = Updated(op) /\ live[j] # "none"
        BY <2>0, <3>2, <4>1 DEF JobOk, PausesAlone, OnlyOnTheWay
      <4> QED
        BY <3>1, <3>3, <3>4, <4>2, <4>3 DEF PausesAlone
    <3> QED
      BY <2>a, <2>d, <3>1, <3>2, <3>3, <3>6, <3>7 DEF JobOk
  <2>7. ASSUME UNCHANGED <<rows, live, request, overlap>>, fired' \in [pending : Nat, started : Nat] PROVE SchedulesInv'
    BY <2>0, <2>7 DEF SchedulesInv, SchedulesTypeOK, JobOk, AddsAlone, OnlyOnTheWay, PausesAlone, Working, Updated
  <2>8. ASSUME NEW j \in Jobs, Fire(j) PROVE SchedulesInv'
    <3>1. fired' \in [pending : Nat, started : Nat]
      BY <2>a, <2>8 DEF Fire
    <3> QED
      BY <2>7, <2>8, <3>1 DEF Fire
  <2>9. CASE StartFired
    <3>1. fired' \in [pending : Nat, started : Nat]
      BY <2>a, <2>9 DEF StartFired
    <3> QED
      BY <2>7, <2>9, <3>1 DEF StartFired
  <2>10. CASE EditHeartbeat
    BY <2>7, <2>10, <2>a DEF EditHeartbeat
  <2>11. CASE RestartServer
    <3>1. \A j \in Jobs : live'[j] = rows'[j] /\ Working(j)' = {}
      BY <2>11 DEF RestartServer, Working
    <3>2. SchedulesTypeOK'
      BY <2>0, <2>11 DEF RestartServer, SchedulesTypeOK
    <3> QED
      BY <3>1, <3>2 DEF SchedulesInv, AddsAlone, OnlyOnTheWay, PausesAlone
  <2>12. CASE UNCHANGED scheduleVars
    BY <2>7, <2>12, <2>a DEF scheduleVars
  <2> QED
    BY <2>1, <2>2, <2>3, <2>4, <2>5, <2>6, <2>8, <2>9, <2>10, <2>11, <2>12 DEF SchedulesNext
<1>3. SchedulesInv => RowIsLive
  BY DEF SchedulesInv, SchedulesTypeOK, JobStates, OnlyOnTheWay, PausesAlone, RowIsLive
<1> QED
  BY <1>1, <1>2, <1>3, PTL DEF SchedulesSpec
----------------------------------------------------------------------------
(* Subagents. *)

SubagentTypes ==
  /\ place \in [Everyone -> Alive \union {"unborn", "ended"}]
  /\ boss \in [Kids -> Everyone \union {NoBoss}]
  /\ caps \in [Everyone -> SUBSET Capabilities]
  /\ DOMAIN runMode = Everyone
  /\ \A x \in Phases : place[x] \in {"running", "ended"}

\* Bosses were there first, and are no third level.
BossesFirst ==
  \A k \in Kids :
    /\ place[k] = "unborn" => boss[k] = NoBoss
    /\ place[k] # "unborn" => boss[k] \in Everyone /\ place[boss[k]] # "unborn"
    /\ boss[k] \in Kids => boss[boss[k]] \notin Kids

\* A run or subagent waits for the one child it has; only a phase has several.
OneChild ==
  \A k \in Kids : place[k] \in Alive =>
    /\ place[boss[k]] \in Alive
    /\ boss[k] \notin Phases =>
         /\ place[boss[k]] = "delegating"
         /\ \A j \in Kids : place[j] \in Alive /\ boss[j] = boss[k] => j = k

RightsPassedDown ==
  \A k \in Kids : place[k] # "unborn" =>
    /\ caps[k] \subseteq caps[boss[k]]
    /\ runMode[boss[k]] \in ReadOnly => runMode[k] = "read-only"
    /\ boss[k] \in Kids => "Subagents" \notin caps[k]

TreeInv == SubagentTypes /\ BossesFirst /\ OneChild /\ RightsPassedDown

\* Every permit is there or held.
PermitsCounted ==
  permits \in Nat /\ permits + Cardinality(Holding) = MaxSubagents

Calling == {x \in Everyone : place[x] = "calling"}

SpendingInv == TreeInv /\ PermitsCounted /\ spent \in Nat /\ BudgetBounded

LEMMA KidsApart ==
  /\ Kids \subseteq Nat /\ NoBoss \notin Kids /\ IsFiniteSet(Kids) /\ IsFiniteSet(Roots)
  /\ \A k \in Kids : k \in Everyone /\ k \notin Roots /\ k \notin Phases
  /\ \A x \in Everyone : x \in Kids \/ x \in Roots \/ x \in Phases
  /\ \A x \in Roots : x \notin Phases /\ x \notin Kids /\ x \in Everyone
  /\ \A x \in Phases : x \notin Kids /\ x \in Everyone
<1>1. MaxKids \in Nat /\ Kids \subseteq 0..MaxKids /\ Kids \subseteq Nat /\ NoBoss \notin Kids
  BY SubagentsAssumption DEF Kids, NoBoss
<1>2. IsFiniteSet(Kids) /\ IsFiniteSet(Roots)
  BY <1>1, SubagentsAssumption, FS_Interval DEF Kids
<1>3. /\ Roots \intersect Phases = {} /\ (Roots \union Phases) \intersect Kids = {}
      /\ Everyone = Roots \union Phases \union Kids
  BY <1>1, SubagentsAssumption DEF Everyone
<1> QED
  BY <1>1, <1>2, <1>3

\* No depth but 0, 1 and 2.
LEMMA Depths ==
  ASSUME BossesFirst, NEW x
  PROVE  /\ DepthOf(x) \in 0..2
         /\ DepthOf(x) = 0 <=> x \notin Kids
         /\ DepthOf(x) = 2 <=> x \in Kids /\ boss[x] \in Kids
<1>1. CASE x \notin Kids
  BY <1>1 DEF DepthOf
<1>2. CASE x \in Kids
  <2>1. boss[x] \in Kids => boss[boss[x]] \notin Kids
    BY <1>2 DEF BossesFirst
  <2> QED
    BY <1>2, <2>1 DEF DepthOf
<1> QED
  BY <1>1, <1>2

LEMMA TreeEnough == ASSUME TreeInv PROVE NoMoreRights
<1> SUFFICES ASSUME NEW k \in Kids, place[k] \in Alive
             PROVE  /\ caps[k] \subseteq caps[boss[k]]
                    /\ runMode[boss[k]] \in ReadOnly => runMode[k] = "read-only"
                    /\ DepthOf(k) <= MAX_DEPTH /\ (DepthOf(k) = MAX_DEPTH => "Subagents" \notin caps[k])
                    /\ place[boss[k]] \in Alive
  BY DEF NoMoreRights
<1>1. /\ caps[k] \subseteq caps[boss[k]]
      /\ runMode[boss[k]] \in ReadOnly => runMode[k] = "read-only"
      /\ boss[k] \in Kids => "Subagents" \notin caps[k]
      /\ place[boss[k]] \in Alive
  BY DEF TreeInv, RightsPassedDown, OneChild, Alive
<1>2. DepthOf(k) \in 0..2 /\ (DepthOf(k) = 2 => boss[k] \in Kids)
  BY Depths DEF TreeInv
<1> QED
  BY <1>1, <1>2 DEF MAX_DEPTH

\* A step that moves runs about without ending or starting any.
LEMMA StaysAlive ==
  ASSUME TreeInv, UNCHANGED <<boss, caps, runMode>>, place' \in [Everyone -> Alive \union {"unborn", "ended"}],
         \A x \in Everyone : /\ place[x] = "unborn" <=> place'[x] = "unborn"
                             /\ place'[x] \in Alive <=> place[x] \in Alive
                             /\ place[x] = "delegating" => place'[x] = "delegating",
         \A x \in Phases : place'[x] = place[x]
  PROVE  TreeInv'
<1>1. SubagentTypes'
  BY DEF TreeInv, SubagentTypes
<1>2. BossesFirst'
  BY KidsApart DEF TreeInv, BossesFirst
<1>3. OneChild'
  <2> SUFFICES ASSUME NEW k \in Kids, place'[k] \in Alive
               PROVE  /\ place'[boss[k]] \in Alive
                      /\ boss[k] \notin Phases =>
                           /\ place'[boss[k]] = "delegating"
                           /\ \A j \in Kids : place'[j] \in Alive /\ boss[j] = boss[k] => j = k
    BY DEF OneChild
  <2>1. place[k] \in Alive /\ boss[k] \in Everyone
    BY KidsApart DEF TreeInv, BossesFirst, Alive
  <2> QED
    BY <2>1, KidsApart DEF TreeInv, OneChild
<1>4. RightsPassedDown'
  BY KidsApart DEF TreeInv, RightsPassedDown
<1> QED
  BY <1>1, <1>2, <1>3, <1>4 DEF TreeInv

\* One run goes from one place to another.
LEMMA OneMoves ==
  ASSUME TreeInv, UNCHANGED <<boss, caps, runMode>>, NEW x \in Everyone, NEW STATE to,
         x \notin Phases, place[x] \in Alive \ {"delegating"}, to \in Alive, Move(x, to)
  PROVE  TreeInv'
<1>1. /\ place' \in [Everyone -> Alive \union {"unborn", "ended"}]
      /\ place'[x] = to /\ \A y \in Everyone : y # x => place'[y] = place[y]
  BY DEF Move, TreeInv, SubagentTypes
<1> QED
  BY <1>1, StaysAlive, KidsApart DEF Alive

\* A new child: asked for by a run that is not itself a second level, with no more than it has.
LEMMA ChildStarts ==
  ASSUME TreeInv, NEW p \in Everyone, NEW k \in Kids, SpawnAgent(p, k) \/ PhaseStarts(p, k)
  PROVE  TreeInv'
<1>0. k \in Everyone /\ k \notin Phases /\ NoBoss \notin Kids
  BY KidsApart
<1>1. /\ place[p] = "running" /\ place[k] = "unborn" /\ DepthOf(p) < MAX_DEPTH /\ p # k
      /\ \E requested \in Requested : caps' = [caps EXCEPT ![k] = Granted(p, requested)]
      /\ boss' = [boss EXCEPT ![k] = p] /\ runMode' = [runMode EXCEPT ![k] = ChildMode(runMode[p])]
  BY DEF SpawnAgent, PhaseStarts, StartChild
<1>2. /\ place' \in [Everyone -> Alive \union {"unborn", "ended"}]
      /\ place'[k] = "waiting"
      /\ \A x \in Everyone : x # k /\ x # p => place'[x] = place[x]
      /\ p \in Phases => place'[p] = "running"
      /\ p \notin Phases => place'[p] = "delegating"
  BY <1>0, <1>1 DEF SpawnAgent, PhaseStarts, Move, TreeInv, SubagentTypes, Alive
<1>3. PICK requested \in Requested : caps' = [caps EXCEPT ![k] = Granted(p, requested)]
  BY <1>1
<1>4. /\ boss'[k] = p /\ caps'[k] = Granted(p, requested) /\ runMode'[k] = ChildMode(runMode[p])
      /\ \A j \in Kids : j # k => boss'[j] = boss[j]
      /\ \A x \in Everyone : x # k => caps'[x] = caps[x] /\ runMode'[x] = runMode[x]
      /\ boss' \in [Kids -> Everyone \union {NoBoss}] /\ DOMAIN runMode' = Everyone
  BY <1>0, <1>1, <1>3 DEF TreeInv, SubagentTypes
<1>5. /\ Granted(p, requested) \subseteq caps[p] /\ caps[p] \subseteq Capabilities
      /\ p \in Kids => "Subagents" \notin Granted(p, requested)
  <2>1. caps[p] \in SUBSET Capabilities
    BY DEF TreeInv, SubagentTypes
  <2>2. p \in Kids => DepthOf(p) + 1 >= MAX_DEPTH
    BY Depths DEF TreeInv, MAX_DEPTH
  <2> QED
    BY <2>1, <2>2 DEF Granted
<1>6. caps' \in [Everyone -> SUBSET Capabilities]
  BY <1>0, <1>3, <1>5 DEF TreeInv, SubagentTypes
<1>7. \A x \in Phases : place'[x] \in {"running", "ended"}
  BY <1>0, <1>1, <1>2, KidsApart DEF TreeInv, SubagentTypes
<1>8. p \in Kids => boss[p] \notin Kids
  <2>1. DepthOf(p) # 2
    BY <1>1 DEF MAX_DEPTH
  <2> QED
    BY <2>1, Depths DEF TreeInv
\* Nobody has the unborn child for a boss.
<1>9. \A j \in Kids : boss[j] # k
  BY <1>0, <1>1 DEF TreeInv, BossesFirst
<1>10. BossesFirst'
  <2> SUFFICES ASSUME NEW j \in Kids
               PROVE  /\ place'[j] = "unborn" => boss'[j] = NoBoss
                      /\ place'[j] # "unborn" => boss'[j] \in Everyone /\ place'[boss'[j]] # "unborn"
                      /\ boss'[j] \in Kids => boss'[boss'[j]] \notin Kids
    BY DEF BossesFirst
  <2>1. CASE j = k
    BY <1>1, <1>2, <1>4, <1>8, <2>1
  <2>2. CASE j # k
    <3>1. boss'[j] = boss[j] /\ j \in Everyone
      BY <1>4, <2>2, KidsApart
    <3>2. place'[j] = "unborn" <=> place[j] = "unborn"
      BY <1>1, <1>2, <2>2, <3>1
    <3>3. boss[j] \in Kids => boss'[boss[j]] = boss[boss[j]]
      BY <1>4, <1>9
    <3>4. \A x \in Everyone : place[x] # "unborn" => place'[x] # "unborn"
      BY <1>1, <1>2
    <3> QED
      BY <3>1, <3>2, <3>3, <3>4 DEF TreeInv, BossesFirst
  <2> QED
    BY <2>1, <2>2
\* A run that starts a child has none that lives.
<1>11. p \notin Phases => \A j \in Kids : place[j] \in Alive => boss[j] # p
  BY <1>1 DEF TreeInv, OneChild
<1>12. OneChild'
  <2> SUFFICES ASSUME NEW j \in Kids, place'[j] \in Alive
               PROVE  /\ place'[boss'[j]] \in Alive
                      /\ boss'[j] \notin Phases =>
                           /\ place'[boss'[j]] = "delegating"
                           /\ \A i \in Kids : place'[i] \in Alive /\ boss'[i] = boss'[j] => i = j
    BY DEF OneChild
  <2>1. \A i \in Kids : i # k /\ place'[i] \in Alive => place[i] \in Alive /\ boss'[i] = boss[i]
    BY <1>1, <1>2, <1>4, KidsApart DEF Alive
  <2>2. CASE j = k
    <3>1. place'[p] \in Alive /\ (p \notin Phases => place'[p] = "delegating")
      BY <1>2 DEF Alive
    <3>2. p \notin Phases => \A i \in Kids : place'[i] \in Alive /\ boss'[i] = p => i = k
      BY <1>11, <2>1
    <3> QED
      BY <1>4, <2>2, <3>1, <3>2
  <2>3. CASE j # k
    <3>1. place[j] \in Alive /\ boss'[j] = boss[j]
      BY <2>1, <2>3
    <3>2. boss[j] \in Everyone /\ boss[j] # k
      BY <1>9, <3>1 DEF TreeInv, BossesFirst, Alive
    <3>3. boss[j] \notin Phases => boss[j] # p
      BY <1>11, <3>1
    <3>4. place'[boss[j]] \in Alive
      BY <1>2, <3>1, <3>2, <3>3 DEF TreeInv, OneChild, Alive
    <3>5. boss[j] \notin Phases =>
            /\ place'[boss[j]] = "delegating"
            /\ \A i \in Kids : place'[i] \in Alive /\ boss'[i] = boss[j] => i = j
      BY <1>2, <1>4, <2>1, <3>1, <3>2, <3>3 DEF TreeInv, OneChild
    <3> QED
      BY <3>1, <3>4, <3>5
  <2> QED
    BY <2>2, <2>3
<1>13. RightsPassedDown'
  <2> SUFFICES ASSUME NEW j \in Kids, place'[j] # "unborn"
               PROVE  /\ caps'[j] \subseteq caps'[boss'[j]]
                      /\ runMode'[boss'[j]] \in ReadOnly => runMode'[j] = "read-only"
                      /\ boss'[j] \in Kids => "Subagents" \notin caps'[j]
    BY DEF RightsPassedDown
  <2>1. CASE j = k
    BY <1>1, <1>4, <1>5, <2>1 DEF ChildMode
  <2>2. CASE j # k
    <3>1. place[j] # "unborn" /\ j \in Everyone
      BY <1>1, <1>2, <2>2, KidsApart
    <3>2. boss'[j] = boss[j] /\ boss[j] \in Everyone /\ boss[j] # k
      BY <1>4, <1>9, <2>2, <3>1 DEF TreeInv, BossesFirst
    <3> QED
      BY <1>4, <2>2, <3>1, <3>2 DEF TreeInv, RightsPassedDown
  <2> QED
    BY <2>1, <2>2
<1>14. SubagentTypes'
  BY <1>2, <1>4, <1>6, <1>7 DEF SubagentTypes
<1> QED
  BY <1>10, <1>12, <1>13, <1>14 DEF TreeInv

\* Who ends with x and those below it: nobody that stays alive had one of them for a boss.
LEMMA Leaves ==
  ASSUME TreeInv, NEW x \in Everyone, NEW STATE down, down \subseteq Kids, x \notin down,
         place[x] \in Alive, Leave(x, down), UNCHANGED <<boss, caps, runMode>>,
         \A j \in Kids : place[j] \in Alive /\ boss[j] \in {x} \union down => j \in down
  PROVE  TreeInv'
<1> DEFINE gone == {x} \union down
           resumed(y) == x \in Kids /\ y = boss[x] /\ place[y] = "delegating"
<1>1. /\ place' \in [Everyone -> Alive \union {"unborn", "ended"}]
      /\ \A y \in Everyone : y \in gone /\ place[y] # "unborn" => place'[y] = "ended"
      /\ \A y \in Everyone : ~(y \in gone /\ place[y] # "unborn") /\ resumed(y) => place'[y] = "running"
      /\ \A y \in Everyone : ~(y \in gone /\ place[y] # "unborn") /\ ~resumed(y) => place'[y] = place[y]
  BY DEF Leave, TreeInv, SubagentTypes, Alive
<1>2. \A y \in Everyone : /\ place'[y] = "unborn" <=> place[y] = "unborn"
                          /\ place'[y] \in Alive <=> place[y] \in Alive /\ y \notin gone
  BY <1>1 DEF Alive
<1>3. \A y \in Phases : place'[y] \in {"running", "ended"}
  <2> SUFFICES ASSUME NEW y \in Phases PROVE place'[y] \in {"running", "ended"}
    OBVIOUS
  <2>1. y \in Everyone /\ place[y] \in {"running", "ended"}
    BY KidsApart DEF TreeInv, SubagentTypes
  <2> QED
    BY <1>1, <2>1
<1>4. SubagentTypes'
  BY <1>1, <1>3 DEF TreeInv, SubagentTypes
<1>5. BossesFirst'
  BY <1>2, KidsApart DEF TreeInv, BossesFirst
<1>6. OneChild'
  <2> SUFFICES ASSUME NEW k \in Kids, place'[k] \in Alive
               PROVE  /\ place'[boss[k]] \in Alive
                      /\ boss[k] \notin Phases =>
                           /\ place'[boss[k]] = "delegating"
                           /\ \A j \in Kids : place'[j] \in Alive /\ boss[j] = boss[k] => j = k
    BY DEF OneChild
  <2>1. place[k] \in Alive /\ k \notin gone
    BY <1>2, KidsApart
  <2>2. /\ place[boss[k]] \in Alive
        /\ boss[k] \notin Phases =>
             /\ place[boss[k]] = "delegating"
             /\ \A j \in Kids : place[j] \in Alive /\ boss[j] = boss[k] => j = k
    BY <2>1 DEF TreeInv, OneChild
  <2>3. boss[k] \in Everyone /\ boss[k] \notin gone
    BY <2>1 DEF TreeInv, BossesFirst, Alive
  <2>4. boss[k] \notin Phases => ~resumed(boss[k])
    BY <2>1, <2>2
  <2>5. boss[k] \notin Phases => place'[boss[k]] = "delegating"
    BY <1>1, <2>2, <2>3, <2>4
  <2>6. \A j \in Kids : place'[j] \in Alive => place[j] \in Alive
    BY <1>2, KidsApart
  <2> QED
    BY <1>2, <2>2, <2>3, <2>5, <2>6
<1>7. RightsPassedDown'
  <2> SUFFICES ASSUME NEW k \in Kids, place'[k] # "unborn"
               PROVE  /\ caps[k] \subseteq caps[boss[k]]
                      /\ runMode[boss[k]] \in ReadOnly => runMode[k] = "read-only"
                      /\ boss[k] \in Kids => "Subagents" \notin caps[k]
    BY DEF RightsPassedDown
  <2>1. place[k] # "unborn"
    BY <1>2, KidsApart
  <2> QED
    BY <2>1 DEF TreeInv, RightsPassedDown
<1> QED
  BY <1>4, <1>5, <1>6, <1>7 DEF TreeInv

\* A subagent that runs, rather than delegates, has no child that lives; nor does one that
\* takes all below it with it leave one behind.
LEMMA NobodyBelow ==
  ASSUME TreeInv, NEW x \in Everyone
  PROVE  /\ x \notin Phases /\ place[x] = "running" =>
              \A j \in Kids : place[j] \in Alive => boss[j] # x
         /\ \A j \in Kids : place[j] \in Alive /\ boss[j] \in {x} \union Below(x) => j \in Below(x)
         /\ x \notin Below(x)
<1>1. ASSUME x \notin Phases, place[x] = "running", NEW j \in Kids, place[j] \in Alive PROVE boss[j] # x
  BY <1>1 DEF TreeInv, OneChild
<1>2. ASSUME NEW j \in Kids, place[j] \in Alive, boss[j] \in {x} \union Below(x) PROVE j \in Below(x)
  BY <1>2 DEF Below, TreeInv, BossesFirst
<1>3. x \notin Below(x)
  BY DEF Below, TreeInv, BossesFirst
<1> QED
  BY <1>1, <1>2, <1>3

LEMMA TreeInit == ASSUME SubagentsInit PROVE TreeInv
<1>1. PICK m \in [Roots -> RootModes] : runMode = [x \in Everyone |-> IF x \in Roots THEN m[x] ELSE "default"]
  BY DEF SubagentsInit
<1>2. /\ place = [x \in Everyone |-> IF x \in Kids THEN "unborn" ELSE "running"]
      /\ boss = [k \in Kids |-> NoBoss]
      /\ caps = [x \in Everyone |-> IF x \in Kids THEN {} ELSE RootCaps]
  BY DEF SubagentsInit
<1>3. SubagentTypes
  BY <1>1, <1>2, SubagentsAssumption, KidsApart DEF SubagentTypes, Alive
<1>4. BossesFirst /\ OneChild /\ RightsPassedDown
  BY <1>2, KidsApart DEF BossesFirst, OneChild, RightsPassedDown, Alive
<1> QED
  BY <1>3, <1>4 DEF TreeInv

LEMMA TreeStep == ASSUME TreeInv, [SubagentsNext]_subagentVars PROVE TreeInv'
<1>0. "running" \in Alive /\ "calling" \in Alive /\ "delegating" \in Alive /\ "waiting" \in Alive
  BY DEF Alive
<1>1. ASSUME NEW x \in Roots \union Kids, BeginTurn(x) \/ Charge(x) PROVE TreeInv'
  <2>1. /\ x \in Everyone /\ x \notin Phases /\ UNCHANGED <<boss, caps, runMode>>
        /\ \/ place[x] = "running" /\ Move(x, "calling")
           \/ place[x] = "calling" /\ Move(x, "running")
    BY <1>1, KidsApart DEF BeginTurn, Charge
  <2>2. CASE place[x] = "running" /\ Move(x, "calling")
    BY <1>0, <2>1, <2>2, OneMoves
  <2>3. CASE place[x] = "calling" /\ Move(x, "running")
    BY <1>0, <2>1, <2>3, OneMoves
  <2> QED
    BY <2>1, <2>2, <2>3
<1>2. ASSUME NEW x \in Roots, LeavePlan(x) PROVE TreeInv'
  <2>1. /\ UNCHANGED <<place, boss, caps>> /\ runMode' = [runMode EXCEPT ![x] = "default"]
    BY <1>2 DEF LeavePlan
  <2>2. /\ DOMAIN runMode' = Everyone /\ runMode'[x] = "default" /\ "default" \notin ReadOnly
        /\ \A y \in Everyone : y # x => runMode'[y] = runMode[y]
    BY <2>1, KidsApart DEF TreeInv, SubagentTypes, ReadOnly
  <2>3. RightsPassedDown'
    <3> SUFFICES ASSUME NEW k \in Kids, place[k] # "unborn"
                 PROVE  /\ caps[k] \subseteq caps[boss[k]]
                        /\ runMode'[boss[k]] \in ReadOnly => runMode'[k] = "read-only"
                        /\ boss[k] \in Kids => "Subagents" \notin caps[k]
      BY <2>1 DEF RightsPassedDown
    <3>1. k \in Everyone /\ k # x /\ boss[k] \in Everyone
      BY KidsApart DEF TreeInv, BossesFirst
    <3> QED
      BY <2>2, <3>1 DEF TreeInv, RightsPassedDown
  <2> QED
    BY <2>1, <2>2, <2>3 DEF TreeInv, SubagentTypes, BossesFirst, OneChild
<1>3. ASSUME NEW p \in Everyone, NEW k \in Kids, SpawnAgent(p, k) \/ PhaseStarts(p, k) PROVE TreeInv'
  BY <1>3, ChildStarts
<1>4. ASSUME NEW k \in Kids, Acquire(k) PROVE TreeInv'
  BY <1>0, <1>4, OneMoves, KidsApart DEF Acquire
<1>5. ASSUME NEW k \in Kids, Return(k) \/ Raises(k) PROVE TreeInv'
  <2>1. /\ k \in Everyone /\ k \notin Phases /\ place[k] = "running" /\ Leave(k, {})
        /\ UNCHANGED <<boss, caps, runMode>>
    BY <1>5, KidsApart DEF Return, Raises
  <2>2. \A j \in Kids : place[j] \in Alive /\ boss[j] \in {k} \union {} => j \in {}
    BY <2>1, NobodyBelow
  <2> QED
    BY <1>0, <2>1, <2>2, Leaves
<1>6. ASSUME NEW k \in Kids, TimeOut(k) PROVE TreeInv'
  <2>1. k \in Everyone /\ place[k] \in Alive /\ Leave(k, Below(k)) /\ UNCHANGED <<boss, caps, runMode>>
    BY <1>6, KidsApart DEF TimeOut, Holding, Alive
  <2>2. Below(k) \subseteq Kids
    BY DEF Below
  <2> QED
    BY <2>1, <2>2, NobodyBelow, Leaves
<1>7. ASSUME NEW x \in Roots \union Phases, RootEnds(x) PROVE TreeInv'
  <2>1. /\ x \in Everyone /\ x \notin Kids /\ place[x] = "running" /\ Move(x, "ended")
        /\ UNCHANGED <<boss, caps, runMode>> /\ \A k \in Below(x) : place[k] \notin Alive
    BY <1>7, KidsApart DEF RootEnds
  <2>2. /\ place' \in [Everyone -> Alive \union {"unborn", "ended"}]
        /\ place'[x] = "ended" /\ \A y \in Everyone : y # x => place'[y] = place[y]
    BY <2>1 DEF Move, TreeInv, SubagentTypes
  <2>3. \A j \in Kids : place[j] \in Alive => boss[j] # x
    BY <2>1 DEF Below
  <2>4. SubagentTypes'
    BY <2>1, <2>2, KidsApart DEF TreeInv, SubagentTypes
  <2>5. BossesFirst' /\ RightsPassedDown'
    BY <2>1, <2>2, KidsApart DEF TreeInv, BossesFirst, RightsPassedDown
  <2>6. OneChild'
    <3> SUFFICES ASSUME NEW k \in Kids, place'[k] \in Alive
                 PROVE  /\ place'[boss[k]] \in Alive
                        /\ boss[k] \notin Phases =>
                             /\ place'[boss[k]] = "delegating"
                             /\ \A j \in Kids : place'[j] \in Alive /\ boss[j] = boss[k] => j = k
      BY <2>1 DEF OneChild
    <3>1. place[k] \in Alive /\ boss[k] \in Everyone /\ boss[k] # x
      BY <2>1, <2>2, <2>3, KidsApart DEF TreeInv, BossesFirst, Alive
    <3>2. \A j \in Kids : place'[j] = place[j]
      BY <2>1, <2>2, KidsApart
    <3> QED
      BY <2>2, <3>1, <3>2 DEF TreeInv, OneChild
  <2> QED
    BY <2>4, <2>5, <2>6 DEF TreeInv
<1>8. ASSUME NEW x \in Roots \union Phases, RootCancelled(x) PROVE TreeInv'
  <2>1. x \in Everyone /\ place[x] \in Alive /\ Leave(x, Below(x)) /\ UNCHANGED <<boss, caps, runMode>>
    BY <1>8, KidsApart DEF RootCancelled
  <2>2. Below(x) \subseteq Kids
    BY DEF Below
  <2> QED
    BY <2>1, <2>2, NobodyBelow, Leaves
<1>9. CASE UNCHANGED subagentVars
  BY <1>9 DEF subagentVars, TreeInv, SubagentTypes, BossesFirst, OneChild, RightsPassedDown
<1> QED
  BY <1>1, <1>2, <1>3, <1>4, <1>5, <1>6, <1>7, <1>8, <1>9 DEF SubagentsNext

\* A subagent never has more rights than those it works for, and never outlives them, for any
\* number of runs, phases and subagents: NoMoreRights.
THEOREM RightsCorrect == SubagentsSpec => []NoMoreRights
BY TreeInit, TreeStep, TreeEnough, PTL DEF SubagentsSpec

LEMMA Times ==
  ASSUME NEW a \in Nat, NEW b \in Nat, NEW m \in Nat
  PROVE  /\ a * m \in Nat /\ (a <= b => a * m <= b * m)
         /\ a > 0 => (a - 1) * m = a * m - m
OBVIOUS

\* Those who call the model are top-level runs or hold a permit.
LEMMA CallersBounded ==
  ASSUME NEW callers, NEW holders, IsFiniteSet(holders), callers \subseteq Roots \union holders,
         Cardinality(holders) <= MaxSubagents
  PROVE  /\ IsFiniteSet(callers) /\ Cardinality(callers) \in Nat
         /\ Cardinality(callers) <= MaxSubagents + Cardinality(Roots)
         /\ Cardinality(callers) * MaxTokens <= (MaxSubagents + Cardinality(Roots)) * MaxTokens
<1>1. /\ IsFiniteSet(Roots \union holders) /\ Cardinality(Roots) \in Nat /\ Cardinality(holders) \in Nat
      /\ Cardinality(Roots \intersect holders) \in Nat
      /\ Cardinality(Roots \union holders) = Cardinality(Roots) + Cardinality(holders) - Cardinality(Roots \intersect holders)
  BY KidsApart, FS_Union, FS_Intersection, FS_CardinalityType
<1>2. /\ IsFiniteSet(callers) /\ Cardinality(callers) \in Nat
      /\ Cardinality(callers) <= Cardinality(Roots \union holders)
  BY <1>1, FS_Subset, FS_CardinalityType
<1>3. MaxSubagents \in Nat /\ MaxTokens \in Nat
  BY SubagentsAssumption
<1>4. Cardinality(callers) <= MaxSubagents + Cardinality(Roots) /\ MaxSubagents + Cardinality(Roots) \in Nat
  BY <1>1, <1>2, <1>3
<1> QED
  BY <1>2, <1>3, <1>4, Times

LEMMA HoldersFinite ==
  /\ IsFiniteSet(Holding) /\ Cardinality(Holding) \in Nat
  /\ \A S : IsFiniteSet(Holding \ S) /\ Cardinality(Holding \ S) = Cardinality(Holding) - Cardinality(S \intersect Holding)
  /\ \A S : Cardinality(S \intersect Holding) \in Nat
<1>1. IsFiniteSet(Holding)
  BY KidsApart, FS_Subset DEF Holding
<1>2. ASSUME NEW S
      PROVE  /\ IsFiniteSet(Holding \ S) /\ Cardinality(S \intersect Holding) \in Nat
             /\ Cardinality(Holding \ S) = Cardinality(Holding) - Cardinality(S \intersect Holding)
  <2>1. S \intersect Holding = Holding \intersect S
    OBVIOUS
  <2>2. IsFiniteSet(Holding \ S) /\ Cardinality(Holding \ S) = Cardinality(Holding) - Cardinality(Holding \intersect S)
    BY <1>1, FS_Difference
  <2>3. IsFiniteSet(Holding \intersect S)
    BY <1>1, FS_Intersection
  <2> QED
    BY <2>1, <2>2, <2>3, FS_CardinalityType
<1>3. Cardinality(Holding) \in Nat
  BY <1>1, FS_CardinalityType
<1> QED
  BY <1>1, <1>2, <1>3

\* The permits of those who end come back, and nobody else's.
LEMMA PermitsReturn ==
  ASSUME TreeInv, PermitsCounted, NEW x \in Everyone, NEW STATE down, Leave(x, down)
  PROVE  PermitsCounted' /\ Calling' \subseteq Calling
<1> DEFINE gone == {x} \union down
<1>1. /\ place' = [y \in Everyone |->
                     IF y \in gone /\ place[y] # "unborn" THEN "ended"
                     ELSE IF x \in Kids /\ y = boss[x] /\ place[y] = "delegating" THEN "running"
                     ELSE place[y]]
      /\ permits' = permits + Cardinality(gone \intersect Holding)
  BY DEF Leave
<1>2. Holding' = Holding \ gone
  BY <1>1, KidsApart DEF Holding
<1>3. Calling' \subseteq Calling
  BY <1>1 DEF Calling
<1>4. MaxSubagents \in Nat
  BY SubagentsAssumption
<1> HIDE DEF gone
<1>5. /\ Cardinality(Holding') = Cardinality(Holding) - Cardinality(gone \intersect Holding)
      /\ Cardinality(gone \intersect Holding) \in Nat /\ Cardinality(Holding) \in Nat
  BY <1>2, HoldersFinite
<1> QED
  BY <1>1, <1>3, <1>4, <1>5 DEF PermitsCounted

\* Steps that take no permit and start no call of the model.
LEMMA SpendsNothing ==
  ASSUME SpendingInv, TreeInv', PermitsCounted', UNCHANGED spent, Calling' \subseteq Calling
  PROVE  SpendingInv'
<1>1. /\ IsFiniteSet(Calling) /\ Cardinality(Calling) \in Nat
  <2>1. Calling \subseteq Roots \union Holding
    BY KidsApart DEF Calling, Holding, SpendingInv, TreeInv, SubagentTypes
  <2>2. Cardinality(Holding) <= MaxSubagents
    BY HoldersFinite, SubagentsAssumption DEF SpendingInv, PermitsCounted
  <2> QED
    BY <2>1, <2>2, HoldersFinite, CallersBounded
<1>2. Cardinality(Calling') \in Nat /\ Cardinality(Calling') <= Cardinality(Calling)
  BY <1>1, FS_Subset, FS_CardinalityType
<1>3. MaxTokens \in Nat /\ MaxSubagents \in Nat /\ BudgetLimit \in Nat /\ Cardinality(Roots) \in Nat
  BY SubagentsAssumption, FS_CardinalityType
<1>4. /\ Cardinality(Calling') * MaxTokens <= Cardinality(Calling) * MaxTokens
      /\ Cardinality(Calling') * MaxTokens \in Nat /\ Cardinality(Calling) * MaxTokens \in Nat
      /\ (MaxSubagents + Cardinality(Roots)) * MaxTokens \in Nat
  BY <1>1, <1>2, <1>3, Times
<1>5. spent + Cardinality(Calling) * MaxTokens <= BudgetLimit - 1 + (MaxSubagents + Cardinality(Roots)) * MaxTokens
  BY DEF SpendingInv, BudgetBounded, Calling
<1>6. spent' + Cardinality(Calling') * MaxTokens <= BudgetLimit - 1 + (MaxSubagents + Cardinality(Roots)) * MaxTokens
  BY <1>3, <1>4, <1>5 DEF SpendingInv
<1>7. BudgetBounded'
  BY <1>6 DEF BudgetBounded, Calling
<1> QED
  BY <1>7 DEF SpendingInv

LEMMA PermitsStep ==
  ASSUME TreeInv, PermitsCounted, [SubagentsNext]_subagentVars
  PROVE  PermitsCounted'
<1>0. /\ DOMAIN place = Everyone /\ Kids \subseteq Everyone /\ MaxSubagents \in Nat
      /\ permits \in Nat /\ permits + Cardinality(Holding) = MaxSubagents
  BY KidsApart, SubagentsAssumption DEF TreeInv, SubagentTypes, PermitsCounted
<1>1. ASSUME Holding' = Holding, UNCHANGED permits PROVE PermitsCounted'
  BY <1>1 DEF PermitsCounted
<1>2. ASSUME NEW x \in Roots \union Kids, BeginTurn(x) \/ Charge(x) PROVE PermitsCounted'
  <2>1. Holding' = Holding
    BY <1>0, <1>2 DEF BeginTurn, Charge, Move, Holding
  <2> QED
    BY <1>1, <1>2, <2>1 DEF BeginTurn, Charge
<1>3. ASSUME NEW x \in Roots, LeavePlan(x) PROVE PermitsCounted'
  BY <1>1, <1>3 DEF LeavePlan, Holding
<1>4. ASSUME NEW p \in Everyone, NEW k \in Kids, SpawnAgent(p, k) \/ PhaseStarts(p, k) PROVE PermitsCounted'
  <2>1. Holding' = Holding
    BY <1>0, <1>4 DEF SpawnAgent, PhaseStarts, StartChild, Move, Holding
  <2> QED
    BY <1>1, <1>4, <2>1 DEF SpawnAgent, PhaseStarts, StartChild
<1>5. ASSUME NEW k \in Kids, Acquire(k) PROVE PermitsCounted'
  <2>1. Holding' = Holding \union {k} /\ k \notin Holding /\ permits > 0 /\ permits' = permits - 1
    BY <1>0, <1>5 DEF Acquire, Move, Holding
  <2>2. Cardinality(Holding') = Cardinality(Holding) + 1 /\ Cardinality(Holding) \in Nat
    BY <2>1, HoldersFinite, FS_AddElement
  <2> QED
    BY <1>0, <2>1, <2>2 DEF PermitsCounted
<1>6. ASSUME NEW x \in Everyone, NEW STATE down, Leave(x, down) PROVE PermitsCounted'
  BY <1>6, PermitsReturn
<1>7. ASSUME NEW k \in Kids, Return(k) \/ TimeOut(k) \/ Raises(k) PROVE PermitsCounted'
  BY <1>0, <1>6, <1>7 DEF Return, TimeOut, Raises
<1>8. ASSUME NEW x \in Roots \union Phases, RootEnds(x) \/ RootCancelled(x) PROVE PermitsCounted'
  <2>1. CASE RootEnds(x)
    <3>1. Holding' = Holding
      BY <1>0, <2>1, KidsApart DEF RootEnds, Move, Holding
    <3> QED
      BY <1>1, <2>1, <3>1 DEF RootEnds
  <2> QED
    BY <1>6, <1>8, <2>1, KidsApart DEF RootCancelled
<1>9. CASE UNCHANGED subagentVars
  BY <1>1, <1>9 DEF subagentVars, Holding
<1> QED
  BY <1>2, <1>3, <1>4, <1>5, <1>7, <1>8, <1>9 DEF SubagentsNext

\* A turn begins only below the limit, with at most one turn of each holder and root in flight.
LEMMA TurnSpends ==
  ASSUME SpendingInv, TreeInv', PermitsCounted', NEW x \in Roots \union Kids, BeginTurn(x) \/ Charge(x)
  PROVE  SpendingInv'
<1>0. MaxTokens \in Nat /\ MaxSubagents \in Nat /\ BudgetLimit \in Nat /\ Cardinality(Roots) \in Nat /\ spent \in Nat
  BY KidsApart, SubagentsAssumption, FS_CardinalityType DEF SpendingInv
<1>1. CASE BeginTurn(x)
  <2>1. spent' = spent /\ spent < BudgetLimit
    BY <1>0, <1>1 DEF BeginTurn, Exhausted
  <2>2. Calling' \subseteq Roots \union Holding'
    BY KidsApart DEF Calling, Holding, TreeInv, SubagentTypes
  <2>3. IsFiniteSet(Holding') /\ Cardinality(Holding') <= MaxSubagents
    <3>1. Holding' \subseteq Kids
      BY DEF Holding
    <3>2. IsFiniteSet(Holding') /\ Cardinality(Holding') \in Nat
      BY <3>1, KidsApart, FS_Subset, FS_CardinalityType
    <3> QED
      BY <1>0, <3>2 DEF PermitsCounted
  <2>4. /\ Cardinality(Calling') * MaxTokens <= (MaxSubagents + Cardinality(Roots)) * MaxTokens
        /\ Cardinality(Calling') \in Nat
    BY <2>2, <2>3, CallersBounded
  <2>5. Cardinality(Calling') * MaxTokens \in Nat /\ (MaxSubagents + Cardinality(Roots)) * MaxTokens \in Nat
    BY <1>0, <2>4, Times
  <2>6. spent' + Cardinality(Calling') * MaxTokens <= BudgetLimit - 1 + (MaxSubagents + Cardinality(Roots)) * MaxTokens
    BY <1>0, <2>1, <2>4, <2>5
  <2>7. BudgetBounded'
    BY <2>6 DEF BudgetBounded, Calling
  <2> QED
    BY <1>0, <2>1, <2>7 DEF SpendingInv
<1>2. CASE Charge(x)
  <2>1. PICK n \in 0..MaxTokens : spent' = spent + n
    BY <1>2 DEF Charge
  <2>2. x \in Calling /\ Calling' = Calling \ {x}
    BY <1>2, KidsApart DEF Charge, Move, Calling, SpendingInv, TreeInv, SubagentTypes
  <2>3. IsFiniteSet(Calling)
    <3>1. Calling \subseteq Roots \union Holding
      BY KidsApart DEF Calling, Holding, SpendingInv, TreeInv, SubagentTypes
    <3> QED
      BY <3>1, KidsApart, HoldersFinite, FS_Union, FS_Subset
  <2>4. /\ Cardinality(Calling') = Cardinality(Calling) - 1 /\ Cardinality(Calling') \in Nat
        /\ Cardinality(Calling) \in Nat
    BY <2>2, <2>3, FS_RemoveElement, FS_CardinalityType
  <2>5. /\ Cardinality(Calling') * MaxTokens = Cardinality(Calling) * MaxTokens - MaxTokens
        /\ Cardinality(Calling') * MaxTokens \in Nat /\ Cardinality(Calling) * MaxTokens \in Nat
        /\ (MaxSubagents + Cardinality(Roots)) * MaxTokens \in Nat
    BY <1>0, <2>4, Times
  <2>6. spent + Cardinality(Calling) * MaxTokens <= BudgetLimit - 1 + (MaxSubagents + Cardinality(Roots)) * MaxTokens
    BY DEF SpendingInv, BudgetBounded, Calling
  <2>7. spent' + Cardinality(Calling') * MaxTokens <= BudgetLimit - 1 + (MaxSubagents + Cardinality(Roots)) * MaxTokens
    BY <1>0, <2>1, <2>5, <2>6
  <2>8. BudgetBounded' /\ spent' \in Nat
    BY <1>0, <2>1, <2>7 DEF BudgetBounded, Calling
  <2> QED
    BY <2>8 DEF SpendingInv
<1> QED
  BY <1>1, <1>2

LEMMA SpendingInit == ASSUME SubagentsInit PROVE SpendingInv
<1>1. TreeInv
  BY TreeInit
<1>2. MaxTokens \in Nat /\ MaxSubagents \in Nat /\ BudgetLimit \in Nat \ {0} /\ Cardinality(Roots) \in Nat
  BY KidsApart, SubagentsAssumption, FS_CardinalityType
<1>3. Holding = {} /\ Calling = {} /\ permits = MaxSubagents /\ spent = 0
  BY KidsApart DEF SubagentsInit, Holding, Calling
<1>4. Cardinality({}) = 0
  BY FS_EmptySet
<1>5. PermitsCounted
  BY <1>2, <1>3, <1>4 DEF PermitsCounted
<1>6. 0 * MaxTokens = 0 /\ (MaxSubagents + Cardinality(Roots)) * MaxTokens \in Nat
  BY <1>2, Times
<1>7. spent + Cardinality(Calling) * MaxTokens <= BudgetLimit - 1 + (MaxSubagents + Cardinality(Roots)) * MaxTokens
  <2>1. spent + Cardinality(Calling) * MaxTokens = 0
    BY <1>3, <1>4, <1>6
  <2> QED
    BY <1>2, <1>6, <2>1
<1>8. BudgetBounded
  BY <1>7 DEF BudgetBounded, Calling
<1> QED
  BY <1>1, <1>3, <1>5, <1>8 DEF SpendingInv

LEMMA SpendingStep == ASSUME SpendingInv, [SubagentsNext]_subagentVars PROVE SpendingInv'
<1>0. TreeInv' /\ PermitsCounted' /\ TreeInv /\ PermitsCounted /\ DOMAIN place = Everyone /\ Kids \subseteq Everyone
  BY TreeStep, PermitsStep, KidsApart DEF SpendingInv, TreeInv, SubagentTypes
<1>1. ASSUME UNCHANGED spent, Calling' \subseteq Calling PROVE SpendingInv'
  BY <1>0, <1>1, SpendsNothing
<1>2. ASSUME NEW x \in Roots \union Kids, BeginTurn(x) \/ Charge(x) PROVE SpendingInv'
  BY <1>0, <1>2, TurnSpends
<1>3. ASSUME NEW x \in Roots, LeavePlan(x) PROVE SpendingInv'
  BY <1>1, <1>3 DEF LeavePlan, Calling
<1>4. ASSUME NEW p \in Everyone, NEW k \in Kids, SpawnAgent(p, k) \/ PhaseStarts(p, k) PROVE SpendingInv'
  <2>1. Calling' \subseteq Calling
    BY <1>0, <1>4 DEF SpawnAgent, PhaseStarts, StartChild, Move, Calling
  <2> QED
    BY <1>1, <1>4, <2>1 DEF SpawnAgent, PhaseStarts, StartChild
<1>5. ASSUME NEW k \in Kids, Acquire(k) PROVE SpendingInv'
  <2>1. Calling' \subseteq Calling
    BY <1>0, <1>5 DEF Acquire, Move, Calling
  <2> QED
    BY <1>1, <1>5, <2>1 DEF Acquire
<1>6. ASSUME NEW x \in Everyone, NEW STATE down, Leave(x, down), UNCHANGED spent PROVE SpendingInv'
  BY <1>0, <1>1, <1>6, PermitsReturn
<1>7. ASSUME NEW k \in Kids, Return(k) \/ TimeOut(k) \/ Raises(k) PROVE SpendingInv'
  BY <1>0, <1>6, <1>7 DEF Return, TimeOut, Raises
<1>8. ASSUME NEW x \in Roots \union Phases, RootEnds(x) \/ RootCancelled(x) PROVE SpendingInv'
  <2>1. CASE RootEnds(x)
    <3>1. Calling' \subseteq Calling
      BY <1>0, <2>1 DEF RootEnds, Move, Calling
    <3> QED
      BY <1>1, <2>1, <3>1 DEF RootEnds
  <2> QED
    BY <1>6, <1>8, <2>1, KidsApart DEF RootCancelled
<1>9. CASE UNCHANGED subagentVars
  BY <1>1, <1>9 DEF subagentVars, Calling
<1> QED
  BY <1>2, <1>3, <1>4, <1>5, <1>7, <1>8, <1>9 DEF SubagentsNext

\* The shared budget is overdrawn by at most one turn of each run that can be in one, for any
\* number of runs and permits and any tokens: BudgetBounded.
THEOREM BudgetCorrect == SubagentsSpec => []BudgetBounded
<1>1. SpendingInv => BudgetBounded
  BY DEF SpendingInv
<1> QED
  BY <1>1, SpendingInit, SpendingStep, PTL DEF SubagentsSpec
----------------------------------------------------------------------------
(* Passes over a list that take something each time they change anything. *)

\* Only zero times b is nearer to zero than b.
LEMMA NoMultiple ==
  ASSUME NEW b \in Nat \ {0}, NEW d \in Int, b * d < b, -b < b * d
  PROVE  d = 0
<1>1. CASE d >= 1
  <2>1. b * d >= b
    BY <1>1
  <2> QED BY <2>1
<1>2. CASE d <= -1
  <2>1. b * d <= -b
    BY <1>2
  <2> QED BY <2>1
<1> QED BY <1>1, <1>2

\* The remainder of a place in a pass.
LEMMA Remainder ==
  ASSUME NEW b \in Nat \ {0}, NEW p \in Nat, NEW r \in 0..(b - 1)
  PROVE  (b * p + r) % b = r
<1> DEFINE a == b * p + r
           q == a \div b
           s == a % b
<1>1. b * p \in Nat
  OBVIOUS
<1>2. a \in Nat
  BY <1>1
<1> HIDE DEF a
<1>3. a = b * q + s /\ s \in 0..(b - 1) /\ q \in Int
  BY <1>2
<1> HIDE DEF q, s
<1>4. b * p + r = b * q + s
  BY <1>3 DEF a
<1>5. b * (p - q) = b * p - b * q
  BY <1>3
<1> DEFINE d == p - q
<1>6. d \in Int /\ b * d = s - r
  <2>1. b * p \in Int /\ b * q \in Int
    BY <1>3
  <2> QED BY <1>3, <1>4, <1>5, <2>1
<1> HIDE DEF d
<1>7. d = 0
  <2>1. b * d < b /\ -b < b * d
    BY <1>3, <1>6
  <2> QED BY <1>6, <2>1, NoMultiple
<1>8. s = r
  BY <1>3, <1>6, <1>7
<1> QED BY <1>8 DEF s, a

\* The places a pass visits: the k-th step of pass p is number size * p + k.
LEMMA PassPlaces ==
  ASSUME NEW size \in Nat \ {0}, NEW p \in 0..(size + 1), NEW k \in 1..size
  PROVE  /\ size * p + k \in 1..(size * (size + 2)) /\ size * p \in Nat
         /\ ((size * p + k - 1) % size) + 1 = k
         /\ size * (p + 1) = size * p + size
<1>1. size * p \in Nat /\ size * (p + 1) = size * p + size
  OBVIOUS
<1>2. size * p <= size * (size + 1)
  <2> DEFINE d == size + 1 - p
  <2>1. d \in Nat /\ size * d \in Nat
    OBVIOUS
  <2>2. size * (size + 1) = size * p + size * d
    OBVIOUS
  <2> HIDE DEF d
  <2> QED BY <1>1, <2>1, <2>2
<1>3. size * (size + 2) = size * (size + 1) + size /\ size * (size + 1) \in Nat
  OBVIOUS
<1>4. size * p + k \in 1..(size * (size + 2))
  BY <1>1, <1>2, <1>3
<1>5. (size * p + (k - 1)) % size = k - 1
  BY Remainder
<1>6. size * p + (k - 1) = size * p + k - 1
  BY <1>1
<1> QED BY <1>1, <1>4, <1>5, <1>6

\* Steps that never leave Good and that take something from W when they change anything.
Taking(size, Good, One, W) ==
  \A k \in 1..size : \A s \in Good :
    /\ One[k][s] \in Good /\ W[One[k][s]] \subseteq W[s]
    /\ W[One[k][s]] = W[s] => One[k][s] = s

\* No step changes s.
Unchanging(size, One, s) == \A k \in 1..size : One[k][s] = s

\* One after the other, the steps of a pass.
OneByOne(size, One, g) == \A k \in 1..size : g[k] = One[k][g[k - 1]]

\* One pass over size places, where a step that changes the state takes something from W.
LEMMA OnePass ==
  ASSUME NEW size \in Nat \ {0}, NEW Good, NEW One, NEW W,
         Taking(size, Good, One, W),
         NEW g, g[0] \in Good, OneByOne(size, One, g)
  PROVE  /\ g[size] \in Good /\ W[g[size]] \subseteq W[g[0]]
         /\ Unchanging(size, One, g[0]) => g[size] = g[0]
         /\ W[g[size]] = W[g[0]] => Unchanging(size, One, g[0])
<1> DEFINE Fix == Unchanging(size, One, g[0])
           S == {j \in Nat : j <= size =>
                   /\ g[j] \in Good /\ W[g[j]] \subseteq W[g[0]]
                   /\ Fix => g[j] = g[0]
                   /\ W[g[j]] = W[g[0]] => \A i \in 0..j : g[i] = g[0]}
<1>1. 0 \in S
  <2>1. \A i \in 0..0 : i = 0
    OBVIOUS
  <2> HIDE DEF Fix
  <2> QED
    BY <2>1
<1>2. ASSUME NEW j \in Nat, j \in S PROVE j + 1 \in S
  <2> SUFFICES ASSUME j + 1 <= size
               PROVE  /\ g[j + 1] \in Good /\ W[g[j + 1]] \subseteq W[g[0]]
                      /\ Fix => g[j + 1] = g[0]
                      /\ W[g[j + 1]] = W[g[0]] => \A i \in 0..(j + 1) : g[i] = g[0]
    <3> HIDE DEF Fix
    <3> QED
      OBVIOUS
  <2>1. j + 1 \in 1..size /\ (j + 1) - 1 = j /\ j <= size
    OBVIOUS
  <2>2. /\ g[j] \in Good /\ W[g[j]] \subseteq W[g[0]]
        /\ Fix => g[j] = g[0]
        /\ W[g[j]] = W[g[0]] => \A i \in 0..j : g[i] = g[0]
    <3> HIDE DEF Fix
    <3> QED
      BY <1>2, <2>1
  <2>3. g[j + 1] = One[j + 1][g[j]]
    BY <2>1 DEF OneByOne
  <2>4. /\ g[j + 1] \in Good /\ W[g[j + 1]] \subseteq W[g[j]]
        /\ W[g[j + 1]] = W[g[j]] => g[j + 1] = g[j]
    BY <2>1, <2>2, <2>3 DEF Taking
  <2>5. Fix => One[j + 1][g[0]] = g[0]
    BY <2>1 DEF Unchanging
  <2>6. \A i \in 0..(j + 1) : i \in 0..j \/ i = j + 1
    OBVIOUS
  <2> HIDE DEF Fix
  <2>7. W[g[j + 1]] = W[g[0]] => W[g[j]] = W[g[0]] /\ g[j + 1] = g[j]
    BY <2>2, <2>4
  <2>8. j \in 0..j
    OBVIOUS
  <2>9. W[g[j + 1]] = W[g[0]] => \A i \in 0..(j + 1) : g[i] = g[0]
    BY <2>2, <2>6, <2>7, <2>8
  <2>10. Fix => g[j + 1] = g[0]
    BY <2>2, <2>3, <2>5
  <2> QED
    BY <2>2, <2>4, <2>9, <2>10
<1>3. size \in S
  <2>1. Nat \subseteq S
    <3> HIDE DEF S
    <3> QED
      BY <1>1, <1>2, SetInduction
  <2> HIDE DEF S
  <2> QED
    BY <2>1
<1>4. /\ g[size] \in Good /\ W[g[size]] \subseteq W[g[0]]
      /\ Fix => g[size] = g[0]
      /\ W[g[size]] = W[g[0]] => \A i \in 0..size : g[i] = g[0]
  <2> HIDE DEF Fix
  <2> QED
    BY <1>3
<1>5. ASSUME W[g[size]] = W[g[0]] PROVE Fix
  <2> SUFFICES ASSUME NEW k \in 1..size PROVE One[k][g[0]] = g[0]
    BY DEF Unchanging
  <2>1. k \in 0..size /\ k - 1 \in 0..size
    OBVIOUS
  <2>2. g[k] = g[0] /\ g[k - 1] = g[0]
    BY <1>4, <1>5, <2>1
  <2>3. g[k] = One[k][g[k - 1]]
    BY DEF OneByOne
  <2> QED
    BY <2>2, <2>3
<1> QED
  BY <1>4, <1>5

\* Passes over size places: if, once the first is over, every step that changes the state takes
\* something from a set that has no more than size members, size + 1 more passes reach a state
\* that no step changes.
LEMMA PassesSettle ==
  ASSUME NEW size \in Nat \ {0}, NEW Good, NEW One, NEW W,
         Taking(size, Good, One, W),
         \A s \in Good : IsFiniteSet(W[s]) /\ Cardinality(W[s]) <= size,
         NEW f, f[size] \in Good
  PROVE  (\A i \in 1..(size * (size + 2)) : f[i] = One[((i - 1) % size) + 1][f[i - 1]])
         => LET last == f[size * (size + 2)] IN last \in Good /\ Unchanging(size, One, last)
<1> DEFINE N == size * (size + 2)
           At(i) == ((i - 1) % size) + 1
           Fix(s) == Unchanging(size, One, s)
           C == {p \in Nat : p <= size + 1 =>
                   LET s == f[size * (p + 1)] IN
                   s \in Good /\ (Fix(s) \/ Cardinality(W[s]) + p <= size)}
<1>1. SUFFICES ASSUME \A i \in 1..N : f[i] = One[At(i)][f[i - 1]] PROVE f[N] \in Good /\ Fix(f[N])
  OBVIOUS
<1>2. \A s \in Good : IsFiniteSet(W[s]) /\ Cardinality(W[s]) \in Nat /\ Cardinality(W[s]) <= size
  BY FS_CardinalityType
<1>3. 0 \in C
  <2>1. size * (0 + 1) = size
    OBVIOUS
  <2> DEFINE c == Cardinality(W[f[size]])
  <2>2. c \in Nat /\ c <= size
    BY <1>2
  <2>3. c + 0 <= size
    <3> HIDE DEF c
    <3> QED
      BY <2>2
  <2> HIDE DEF Fix
  <2> QED
    BY <2>1, <2>3
<1>4. ASSUME NEW p \in Nat, p \in C PROVE p + 1 \in C
  <2> SUFFICES ASSUME p + 1 <= size + 1
               PROVE  LET s == f[size * ((p + 1) + 1)] IN
                      s \in Good /\ (Fix(s) \/ Cardinality(W[s]) + (p + 1) <= size)
    <3> HIDE DEF Fix
    <3> QED
      OBVIOUS
  <2> DEFINE a == size * (p + 1)
             b == size * ((p + 1) + 1)
             g == [j \in 0..size |-> f[a + j]]
  <2>1. p + 1 \in 0..(size + 1) /\ 1 \in 1..size
    OBVIOUS
  <2>2. a \in Nat /\ b = a + size /\ \A k \in 1..size : a + k \in 1..N /\ At(a + k) = k
    <3> DEFINE q == p + 1
    <3>1. q \in 0..(size + 1)
      BY <2>1
    <3> HIDE DEF q
    <3>2. \A k \in 1..size : /\ size * q + k \in 1..N /\ size * q \in Nat /\ At(size * q + k) = k
                             /\ size * (q + 1) = size * q + size
      BY <3>1, PassPlaces DEF N, At
    <3> HIDE DEF N, At
    <3>3. a = size * q /\ b = size * (q + 1)
      BY DEF q
    <3> HIDE DEF a, b
    <3> QED
      BY <2>1, <3>2, <3>3
  <2>3. f[a] \in Good /\ (Fix(f[a]) \/ Cardinality(W[f[a]]) + p <= size)
    <3> HIDE DEF Fix
    <3>1. p <= size + 1
      OBVIOUS
    <3> QED
      BY <1>4, <3>1
  <2> HIDE DEF a, b, N, At
  <2>4. g[0] = f[a] /\ g[size] = f[b]
    BY <2>2
  <2>5. OneByOne(size, One, g)
    <3> SUFFICES ASSUME NEW k \in 1..size PROVE g[k] = One[k][g[k - 1]]
      BY DEF OneByOne
    <3>1. k \in 0..size /\ k - 1 \in 0..size /\ a + (k - 1) = a + k - 1
      BY <2>2
    <3>2. f[a + k] = One[k][f[a + k - 1]]
      BY <1>1, <2>2
    <3>3. g[k] = f[a + k] /\ g[k - 1] = f[a + (k - 1)]
      BY <3>1
    <3> HIDE DEF g
    <3> QED
      BY <3>1, <3>2, <3>3
  <2> HIDE DEF g
  <2>6. g[0] \in Good
    BY <2>3, <2>4
  <2>7. /\ g[size] \in Good /\ W[g[size]] \subseteq W[g[0]]
        /\ Unchanging(size, One, g[0]) => g[size] = g[0]
        /\ W[g[size]] = W[g[0]] => Unchanging(size, One, g[0])
    BY <2>5, <2>6, OnePass
  <2>8. /\ f[b] \in Good /\ W[f[b]] \subseteq W[f[a]]
        /\ Fix(f[a]) => f[b] = f[a]
        /\ W[f[b]] = W[f[a]] => Fix(f[a])
    BY <2>4, <2>7
  <2> HIDE DEF Fix
  <2>9. CASE Fix(f[a])
    BY <2>8, <2>9 DEF b
  <2>10. CASE ~Fix(f[a])
    <3> DEFINE ca == Cardinality(W[f[a]])
               cb == Cardinality(W[f[b]])
    <3>1. ca \in Nat /\ cb \in Nat /\ IsFiniteSet(W[f[a]])
      BY <1>2, <2>3, <2>8
    <3>2. cb < ca
      <4>1. W[f[b]] # W[f[a]]
        BY <2>8, <2>10
      <4>2. W[f[b]] \subseteq W[f[a]]
        BY <2>8
      <4>3. cb <= ca /\ (cb = ca => W[f[b]] = W[f[a]])
        BY <3>1, <4>2, FS_Subset
      <4> HIDE DEF ca, cb
      <4> QED
        BY <3>1, <4>1, <4>3
    <3>3. ca + p <= size
      BY <2>3, <2>10
    <3>4. cb + (p + 1) <= size
      <4> HIDE DEF ca, cb
      <4> QED
        BY <3>1, <3>2, <3>3
    <3> QED
      BY <2>8, <3>4 DEF b
  <2> QED
    BY <2>9, <2>10
<1>5. size + 1 \in C
  <2>1. Nat \subseteq C
    <3> HIDE DEF C
    <3> QED
      BY <1>3, <1>4, SetInduction
  <2> HIDE DEF C
  <2> QED
    BY <2>1
<1>6. f[N] \in Good /\ Fix(f[N])
  <2>1. N = size * ((size + 1) + 1)
    OBVIOUS
  <2>2. f[N] \in Good /\ (Fix(f[N]) \/ Cardinality(W[f[N]]) + (size + 1) <= size)
    <3> HIDE DEF Fix, N
    <3> QED
      BY <1>5, <2>1
  <2> DEFINE c == Cardinality(W[f[N]])
  <2>3. c \in Nat
    BY <1>2, <2>2
  <2>4. ~(c + (size + 1) <= size)
    <3> HIDE DEF c
    <3> QED
      BY <2>3
  <2> HIDE DEF Fix, N
  <2> QED
    BY <2>2, <2>4
<1> QED
  BY <1>6
----------------------------------------------------------------------------
(* What plugins leave behind. *)

RecordStatuses == {"ABSENT", "INACTIVE", "ACTIVE", "FAILED"}
PluginManagers ==
  [order : Seq(Names), st : [Names -> RecordStatuses], ver : [Names -> Versions \union {NoVersion}],
   tools : [Tools -> Versions \union {NoVersion}], services : SUBSET STRING,
   live : SUBSET Versions, cleanup : SUBSET Versions, settled : BOOLEAN]

\* A recorded plugin's version is one of it, ...
Recording(m) ==
  \A n \in Names : /\ m.ver[n] = NoVersion \/ m.ver[n] \in VersionsOf(n)
                   /\ m.st[n] # "ABSENT" => m.ver[n] \in VersionsOf(n)

\* ... an active one is all there, ...
Whole(m) ==
  \A n \in Names :
    m.st[n] = "ACTIVE" =>
      /\ m.ver[n] \in m.live /\ Manifest[m.ver[n]].hookOk
      /\ \A t \in Manifest[m.ver[n]].tools : m.tools[t] = m.ver[n]

\* ... and there is nothing else.  A version that waits for its cleanup can never be active.
NothingElse(m) ==
  /\ \A t \in Tools : \/ m.tools[t] \in m.cleanup \union {NoVersion}
                      \/ \E n \in Names : m.st[n] = "ACTIVE" /\ m.tools[t] = m.ver[n]
  /\ \A k \in m.services : \E n \in Names : m.st[n] = "ACTIVE" /\ k \in Manifest[m.ver[n]].provides
  /\ \A v \in m.cleanup : ~Manifest[v].hookOk

Sound == {m \in PluginManagers : Recording(m) /\ Whole(m) /\ NothingElse(m)}

\* What a version's manifest declares.
LEMMA Manifests ==
  ASSUME NEW v \in Versions
  PROVE  /\ Manifest[v].name \in Names /\ v \in VersionsOf(Manifest[v].name) /\ v # NoVersion
         /\ Manifest[v].tools \subseteq Tools /\ Manifest[v].provides \subseteq STRING
         /\ Manifest[v].hookOk \in BOOLEAN
<1>1. Manifest[v] \in [name: STRING, requires: SUBSET STRING, provides: SUBSET STRING, tools: SUBSET STRING, hookOk: BOOLEAN]
      /\ v # NoVersion
  BY PluginsAssumption
<1>2. Manifest[v].name \in Names /\ v \in VersionsOf(Manifest[v].name)
  BY DEF Names, VersionsOf
<1>3. Manifest[v].tools \subseteq Tools
  BY DEF Tools
<1> QED
  BY <1>1, <1>2, <1>3

\* The versions of different plugins are different.
LEMMA VersionsApart ==
  ASSUME NEW n, NEW v \in VersionsOf(n)
  PROVE  v \in Versions /\ Manifest[v].name = n /\ v # NoVersion
BY Manifests DEF VersionsOf

\* A version that is committed beside what others have registered.
LEMMA CommitSound ==
  ASSUME NEW w \in Sound, NEW r \in PluginManagers, NEW v \in Versions, NEW n, n = Manifest[v].name,
         w.st[n] # "ACTIVE", Manifest[v].hookOk,
         \A t \in Manifest[v].tools : w.tools[t] # NoVersion => Manifest[w.tools[t]].name = n,
         r.st = [w.st EXCEPT ![n] = "ACTIVE"], r.ver = [w.ver EXCEPT ![n] = v],
         \A t \in Tools : r.tools[t] = IF t \in Manifest[v].tools THEN v ELSE w.tools[t],
         r.services = w.services \union Manifest[v].provides,
         r.live = w.live \union {v}, r.cleanup = w.cleanup
  PROVE  r \in Sound
<1>1. /\ w \in PluginManagers /\ Recording(w) /\ Whole(w) /\ NothingElse(w)
      /\ n \in Names /\ v \in VersionsOf(n) /\ v # NoVersion /\ Manifest[v].tools \subseteq Tools
  BY Manifests DEF Sound
<1>2. /\ r.st[n] = "ACTIVE" /\ r.ver[n] = v
      /\ \A x \in Names \ {n} : r.st[x] = w.st[x] /\ r.ver[x] = w.ver[x]
  BY <1>1 DEF PluginManagers
<1>3. Recording(r)
  BY <1>1, <1>2 DEF Recording
<1>4. ASSUME NEW x \in Names, r.st[x] = "ACTIVE"
      PROVE  /\ r.ver[x] \in r.live /\ Manifest[r.ver[x]].hookOk
             /\ \A t \in Manifest[r.ver[x]].tools : r.tools[t] = r.ver[x]
  <2>1. CASE x = n
    BY <1>1, <1>2, <2>1
  <2>2. CASE x # n
    <3>1. /\ w.st[x] = "ACTIVE" /\ r.ver[x] = w.ver[x] /\ w.ver[x] \in VersionsOf(x)
          /\ w.ver[x] \in w.live /\ Manifest[w.ver[x]].hookOk
          /\ \A t \in Manifest[w.ver[x]].tools : w.tools[t] = w.ver[x]
      BY <1>1, <1>2, <1>4, <2>2 DEF Recording, Whole
    <3>2. Manifest[w.ver[x]].name = x /\ w.ver[x] # NoVersion /\ Manifest[w.ver[x]].tools \subseteq Tools
      BY <3>1, VersionsApart, Manifests
    <3> QED BY <2>2, <3>1, <3>2
  <2> QED BY <2>1, <2>2
<1>5. NothingElse(r)
  <2>1. ASSUME NEW t \in Tools
        PROVE  \/ r.tools[t] \in r.cleanup \union {NoVersion}
               \/ \E x \in Names : r.st[x] = "ACTIVE" /\ r.tools[t] = r.ver[x]
    <3>1. CASE t \in Manifest[v].tools
      BY <1>1, <1>2, <3>1
    <3>2. CASE t \notin Manifest[v].tools
      <4>1. \/ w.tools[t] \in w.cleanup \union {NoVersion}
            \/ \E x \in Names : w.st[x] = "ACTIVE" /\ w.tools[t] = w.ver[x]
        BY <1>1 DEF NothingElse
      <4> QED BY <1>2, <3>2, <4>1
    <3> QED BY <3>1, <3>2
  <2>2. ASSUME NEW k \in r.services PROVE \E x \in Names : r.st[x] = "ACTIVE" /\ k \in Manifest[r.ver[x]].provides
    <3>1. CASE k \in w.services
      <4>1. PICK x \in Names : w.st[x] = "ACTIVE" /\ k \in Manifest[w.ver[x]].provides
        BY <1>1, <3>1 DEF NothingElse
      <4> QED BY <1>2, <4>1
    <3>2. CASE k \in Manifest[v].provides
      BY <1>1, <1>2, <3>2
    <3> QED BY <3>1, <3>2
  <2>3. \A u \in r.cleanup : ~Manifest[u].hookOk
    BY <1>1 DEF NothingElse
  <2> QED BY <2>1, <2>2, <2>3 DEF NothingElse
<1> QED
  BY <1>3, <1>4, <1>5 DEF Sound, Whole

\* A version whose commit fails: what it has registered waits for its cleanup.
LEMMA FailSound ==
  ASSUME NEW w \in Sound, NEW r \in PluginManagers, NEW v \in Versions, NEW n, n = Manifest[v].name,
         w.st[n] # "ACTIVE", r.st[n] # "ACTIVE", ~Manifest[v].hookOk,
         \A t \in Manifest[v].tools : w.tools[t] # NoVersion => Manifest[w.tools[t]].name = n,
         \A x \in Names \ {n} : r.st[x] = w.st[x] /\ r.ver[x] = w.ver[x],
         r.ver[n] \in VersionsOf(n),
         \A t \in Tools : r.tools[t] = IF t \in Manifest[v].tools THEN v ELSE w.tools[t],
         r.services = w.services, w.live \subseteq r.live, r.cleanup = w.cleanup \union {v}
  PROVE  r \in Sound
<1>1. /\ w \in PluginManagers /\ Recording(w) /\ Whole(w) /\ NothingElse(w)
      /\ n \in Names /\ v \in VersionsOf(n) /\ v # NoVersion /\ Manifest[v].tools \subseteq Tools
  BY Manifests DEF Sound
<1>2. Recording(r)
  BY <1>1 DEF Recording
<1>3. ASSUME NEW x \in Names, r.st[x] = "ACTIVE"
      PROVE  /\ r.ver[x] \in r.live /\ Manifest[r.ver[x]].hookOk
             /\ \A t \in Manifest[r.ver[x]].tools : r.tools[t] = r.ver[x]
  <2>1. x # n
    BY <1>3
  <2>2. /\ w.st[x] = "ACTIVE" /\ r.ver[x] = w.ver[x] /\ w.ver[x] \in VersionsOf(x)
        /\ w.ver[x] \in w.live /\ Manifest[w.ver[x]].hookOk
        /\ \A t \in Manifest[w.ver[x]].tools : w.tools[t] = w.ver[x]
    BY <1>1, <1>3, <2>1 DEF Recording, Whole
  <2>3. Manifest[w.ver[x]].name = x /\ w.ver[x] # NoVersion /\ Manifest[w.ver[x]].tools \subseteq Tools
    BY <2>2, VersionsApart, Manifests
  <2> QED BY <2>1, <2>2, <2>3
<1>4. NothingElse(r)
  <2>1. ASSUME NEW t \in Tools
        PROVE  \/ r.tools[t] \in r.cleanup \union {NoVersion}
               \/ \E x \in Names : r.st[x] = "ACTIVE" /\ r.tools[t] = r.ver[x]
    <3>1. CASE t \in Manifest[v].tools
      BY <3>1
    <3>2. CASE t \notin Manifest[v].tools
      <4>1. \/ w.tools[t] \in w.cleanup \union {NoVersion}
            \/ \E x \in Names : w.st[x] = "ACTIVE" /\ w.tools[t] = w.ver[x]
        BY <1>1 DEF NothingElse
      <4> QED BY <3>2, <4>1
    <3> QED BY <3>1, <3>2
  <2>2. ASSUME NEW k \in r.services PROVE \E x \in Names : r.st[x] = "ACTIVE" /\ k \in Manifest[r.ver[x]].provides
    <3>1. PICK x \in Names : w.st[x] = "ACTIVE" /\ k \in Manifest[w.ver[x]].provides
      BY <1>1 DEF NothingElse
    <3> QED BY <3>1
  <2>3. \A u \in r.cleanup : ~Manifest[u].hookOk
    BY <1>1 DEF NothingElse
  <2> QED BY <2>1, <2>2, <2>3 DEF NothingElse
<1> QED
  BY <1>2, <1>3, <1>4 DEF Sound, Whole

\* What _deactivate takes away.
LEMMA WithdrawSound ==
  ASSUME NEW m \in Sound, NEW ns \in SUBSET Names, \A x \in ns : m.st[x] # "ABSENT"
  PROVE  LET r == Withdraw(m, ns) IN
         /\ r \in Sound /\ r.ver = m.ver /\ r.cleanup = m.cleanup /\ r.order = m.order /\ r.settled = m.settled
         /\ r.services = m.services \ UNION {Manifest[m.ver[x]].provides : x \in ns}
         /\ \A x \in Names : r.st[x] = IF x \in ns THEN "INACTIVE" ELSE m.st[x]
         /\ \A t \in Tools : r.tools[t] \in {m.tools[t], NoVersion}
<1> DEFINE vs == {m.ver[x] : x \in ns}
           tools == [t \in Tools |-> IF m.tools[t] \in vs THEN NoVersion ELSE m.tools[t]]
           st == [x \in Names |-> IF x \in ns THEN "INACTIVE" ELSE m.st[x]]
           services == m.services \ UNION {Manifest[v].provides : v \in vs}
           alive == m.live \ vs
           r == Withdraw(m, ns)
<1>1. m \in PluginManagers /\ Recording(m) /\ Whole(m) /\ NothingElse(m)
  BY DEF Sound
<1>2. r = [m EXCEPT !.tools = tools, !.st = st, !.services = services, !.live = alive]
  BY <1>1 DEF Withdraw, WithoutTools, PluginManagers
<1>3. /\ tools \in [Tools -> Versions \union {NoVersion}] /\ st \in [Names -> RecordStatuses]
      /\ services \in SUBSET STRING /\ alive \in SUBSET Versions
      /\ \A t \in Tools : tools[t] = IF m.tools[t] \in vs THEN NoVersion ELSE m.tools[t]
      /\ \A x \in Names : st[x] = IF x \in ns THEN "INACTIVE" ELSE m.st[x]
      /\ alive = m.live \ vs /\ services = m.services \ UNION {Manifest[v].provides : v \in vs}
  BY <1>1 DEF PluginManagers, RecordStatuses
<1> HIDE DEF tools, st, services, alive, r
<1>4. /\ r \in PluginManagers /\ r.tools = tools /\ r.st = st /\ r.services = services /\ r.live = alive
      /\ r.ver = m.ver /\ r.cleanup = m.cleanup /\ r.order = m.order /\ r.settled = m.settled
  BY <1>1, <1>2, <1>3 DEF PluginManagers
<1>5. ASSUME NEW x \in Names, r.st[x] = "ACTIVE"
      PROVE  /\ x \notin ns /\ m.st[x] = "ACTIVE" /\ m.ver[x] \in VersionsOf(x) /\ m.ver[x] \notin vs
             /\ Manifest[m.ver[x]].tools \subseteq Tools
  <2>1. x \notin ns /\ m.st[x] = "ACTIVE" /\ m.ver[x] \in VersionsOf(x)
    BY <1>1, <1>3, <1>4, <1>5 DEF Recording
  <2>2. \A y \in ns : m.ver[y] # m.ver[x]
    BY <1>1, <2>1, VersionsApart DEF Recording
  <2> QED BY <2>1, <2>2, VersionsApart, Manifests
<1>6. Recording(r)
  BY <1>1, <1>3, <1>4 DEF Recording, PluginManagers, RecordStatuses
<1>7. Whole(r)
  BY <1>1, <1>3, <1>4, <1>5 DEF Whole
<1>8. NothingElse(r)
  <2>1. ASSUME NEW t \in Tools
        PROVE  \/ r.tools[t] \in r.cleanup \union {NoVersion}
               \/ \E x \in Names : r.st[x] = "ACTIVE" /\ r.tools[t] = r.ver[x]
    <3>1. CASE m.tools[t] \in vs
      BY <1>3, <1>4, <3>1
    <3>2. CASE m.tools[t] \notin vs
      <4>1. \/ m.tools[t] \in m.cleanup \union {NoVersion}
            \/ \E x \in Names : m.st[x] = "ACTIVE" /\ m.tools[t] = m.ver[x]
        BY <1>1 DEF NothingElse
      <4> QED BY <1>3, <1>4, <3>2, <4>1
    <3> QED BY <3>1, <3>2
  <2>2. ASSUME NEW k \in r.services PROVE \E x \in Names : r.st[x] = "ACTIVE" /\ k \in Manifest[r.ver[x]].provides
    <3>1. PICK x \in Names : m.st[x] = "ACTIVE" /\ k \in Manifest[m.ver[x]].provides
      BY <1>1, <1>3, <1>4 DEF NothingElse
    <3>2. x \notin ns
      BY <1>3, <1>4, <3>1
    <3> QED BY <1>3, <1>4, <3>1, <3>2
  <2> QED BY <1>1, <1>4, <2>1, <2>2 DEF NothingElse
<1> QED
  BY <1>3, <1>4, <1>6, <1>7, <1>8 DEF Sound, r

\* Finitely many versions have finitely many names.
LEMMA NamesFinite == IsFiniteSet(Names) /\ Cardinality(Names) \in Nat
<1>1. Names = {Manifest[v].name : v \in Versions}
  BY DEF Names
<1> DEFINE name == [v \in Versions |-> Manifest[v].name]
<1>2. name \in Surjection(Versions, Names)
  BY <1>1 DEF Surjection
<1> HIDE DEF name
<1>3. IsFiniteSet(Names)
  BY <1>2, PluginsAssumption, FS_Surjection DEF ExistsSurjection
<1> QED
  BY <1>3, FS_CardinalityType

\* What Reached grows through, inside a set that the steps do not leave.
Growing(step, S, C, grow) ==
  /\ Reached(step, S) = grow[Cardinality(Names)] /\ grow[0] = S
  /\ \A k \in 0..Cardinality(Names) : S \subseteq grow[k] /\ grow[k] \subseteq C
  /\ \A k \in 1..Cardinality(Names) : grow[k] = grow[k - 1] \union UNION {step[x] : x \in grow[k - 1]}

LEMMA ReachedSteps ==
  ASSUME NEW step, NEW C, NEW S \in SUBSET C, \A x \in C : step[x] \subseteq C
  PROVE  \E grow : Growing(step, S, C, grow)
<1> DEFINE size == Cardinality(Names)
           More(R) == R \union UNION {step[x] : x \in R}
           F(f) == [k \in 0..size |-> IF k = 0 THEN S ELSE More(f[k - 1])]
           V == {R \in SUBSET C : S \subseteq R}
           N == [k \in 1..size |-> [R \in V |-> More(R)]]
           grow == CHOOSE f : f = F(f)
<1>1. size \in Nat /\ S \in V
  BY NamesFinite
<1>2. \A R \in V : More(R) \in V
  OBVIOUS
<1>3. Reached(step, S) = grow[size]
  BY DEF Reached
<1> HIDE DEF size, More, V
<1>4. N \in [1..size -> [V -> V]]
  BY <1>2
<1> HIDE DEF N
<1>5. PICK g \in [0..size -> V] : g[0] = S /\ \A k \in 1..size : g[k] = N[k][g[k - 1]]
  <2> HIDE DEF F, grow
  <2>1. N \in StepsOn(V, size)
    BY <1>4 DEF StepsOn
  <2>2. PICK g : Unfolds(g, V, S, size, N)
    BY <1>1, <2>1, RecursiveFunction
  <2> QED BY <2>2 DEF Unfolds
<1>6. g = F(g)
  <2>1. ASSUME NEW k \in 0..size PROVE g[k] = IF k = 0 THEN S ELSE More(g[k - 1])
    <3>1. CASE k = 0
      BY <1>5, <3>1
    <3>2. CASE k # 0
      <4>1. k \in 1..size /\ g[k - 1] \in V
        BY <1>1, <1>5, <3>2
      <4> QED BY <1>5, <3>2, <4>1 DEF N
    <3> QED BY <3>1, <3>2
  <2> QED BY <1>5, <2>1
<1>7. grow = F(grow)
  <2> HIDE DEF F
  <2> QED BY <1>6
<1> HIDE DEF grow
<1>8. \A k \in 0..size : grow[k] = IF k = 0 THEN S ELSE More(grow[k - 1])
  BY <1>7
<1>9. \A k \in 1..size : grow[k - 1] \in V => grow[k] = N[k][grow[k - 1]]
  BY <1>1, <1>8 DEF N
<1>10. grow[0] \in V
  BY <1>1, <1>8
<1>11. \A k \in 0..size : grow[k] \in V
  BY <1>1, <1>4, <1>9, <1>10, RecursiveValues
<1>12. \A k \in 0..size : S \subseteq grow[k] /\ grow[k] \subseteq C
  BY <1>11 DEF V
<1>13. grow[0] = S /\ \A k \in 1..size : grow[k] = grow[k - 1] \union UNION {step[x] : x \in grow[k - 1]}
  <2>1. grow[0] = S
    BY <1>1, <1>8
  <2>2. \A k \in 1..size : grow[k] = More(grow[k - 1])
    BY <1>1, <1>8
  <2> QED BY <2>1, <2>2 DEF More
<1>14. Growing(step, S, C, grow)
  BY <1>3, <1>12, <1>13 DEF Growing, size
<1> QED
  BY <1>14

\* Reached holds what it starts from, and nothing outside a set that the steps do not leave.
LEMMA ReachedHolds ==
  ASSUME NEW step, NEW C, NEW S \in SUBSET C, \A x \in C : step[x] \subseteq C
  PROVE  S \subseteq Reached(step, S) /\ Reached(step, S) \subseteq C
<1>1. Cardinality(Names) \in 0..Cardinality(Names)
  BY NamesFinite
<1>2. PICK grow : Growing(step, S, C, grow)
  BY ReachedSteps
<1> QED
  BY <1>1, <1>2 DEF Growing

\* Once Reached has taken as many steps as there are names, one more finds nothing new.
LEMMA ReachedClosed ==
  ASSUME NEW step \in [Names -> SUBSET Names], NEW S \in SUBSET Names
  PROVE  \A x \in Reached(step, S) : step[x] \subseteq Reached(step, S)
<1> DEFINE size == Cardinality(Names)
           More(R) == R \union UNION {step[x] : x \in R}
           V == SUBSET Names
<1>1. size \in Nat
  BY NamesFinite
<1> DEFINE All == Names
<1>2. PICK grow : Growing(step, S, Names, grow)
  <2>1. S \in SUBSET All /\ \A x \in All : step[x] \subseteq All
    OBVIOUS
  <2> HIDE DEF All
  <2>2. \E grow : Growing(step, S, All, grow)
    BY <2>1, ReachedSteps
  <2> QED BY <2>2 DEF All
<1> DEFINE C == {k \in Nat : k <= size => More(grow[k]) = grow[k] \/ Cardinality(grow[k]) >= k}
<1>3. Reached(step, S) = grow[size] /\ \A k \in 0..size : grow[k] \in V
  BY <1>2 DEF Growing
<1>4. \A k \in 1..size : grow[k] = More(grow[k - 1])
  BY <1>2 DEF Growing
<1> HIDE DEF size, V, More
<1>5. \A R \in V : IsFiniteSet(R) /\ Cardinality(R) \in Nat /\ R \subseteq Names /\ Cardinality(R) <= size
  <2> SUFFICES ASSUME NEW R \in V
               PROVE  IsFiniteSet(R) /\ Cardinality(R) \in Nat /\ R \subseteq Names /\ Cardinality(R) <= size
    OBVIOUS
  <2>1. R \in SUBSET Names
    BY DEF V
  <2>2. IsFiniteSet(R) /\ Cardinality(R) <= Cardinality(Names)
    BY <2>1, NamesFinite, FS_Subset
  <2> QED BY <2>1, <2>2, FS_CardinalityType DEF size
<1>6. 0 \in C
  <2>1. Cardinality(grow[0]) \in Nat
    BY <1>1, <1>3, <1>5
  <2> DEFINE c == Cardinality(grow[0])
  <2>2. c >= 0
    BY <2>1
  <2> QED BY <2>2
<1>7. ASSUME NEW k \in Nat, k \in C PROVE k + 1 \in C
  <2> SUFFICES ASSUME k + 1 <= size
               PROVE  More(grow[k + 1]) = grow[k + 1] \/ Cardinality(grow[k + 1]) >= k + 1
    OBVIOUS
  <2>1. k \in 0..size /\ k + 1 \in 0..size /\ k + 1 \in 1..size /\ k + 1 - 1 = k /\ k <= size
    BY <1>1
  <2>2. grow[k + 1] = More(grow[k]) /\ grow[k] \in V /\ grow[k + 1] \in V
    BY <1>3, <1>4, <2>1
  <2>3. CASE More(grow[k]) = grow[k]
    BY <2>2, <2>3
  <2>4. CASE More(grow[k]) # grow[k]
    <3> DEFINE ca == Cardinality(grow[k])
               cb == Cardinality(grow[k + 1])
    <3>1. grow[k] \subseteq grow[k + 1] /\ grow[k] # grow[k + 1]
      BY <2>2, <2>4 DEF More
    <3>2. ca <= cb /\ (cb = ca => grow[k + 1] = grow[k])
      BY <1>5, <2>2, <3>1, FS_Subset
    <3>3. ca \in Nat /\ cb \in Nat /\ ca >= k
      BY <1>5, <1>7, <2>1, <2>2, <2>4
    <3>4. cb >= k + 1
      <4> HIDE DEF ca, cb
      <4> QED BY <3>1, <3>2, <3>3
    <3> QED BY <3>4
  <2> QED BY <2>3, <2>4
<1>8. size \in C
  <2>1. Nat \subseteq C
    <3> HIDE DEF C
    <3> QED BY <1>6, <1>7, SetInduction
  <2> HIDE DEF C
  <2> QED BY <1>1, <2>1
<1>9. size \in 0..size /\ size <= size
  BY <1>1
<1>10. CASE More(grow[size]) = grow[size]
  BY <1>3, <1>10 DEF More
<1>11. CASE Cardinality(grow[size]) >= size
  <2>1. grow[size] \in V
    BY <1>3, <1>9
  <2> DEFINE c == Cardinality(grow[size])
  <2>2. c \in Nat /\ c <= size /\ grow[size] \subseteq Names
    BY <1>5, <2>1
  <2>3. c = size
    <3>1. c >= size
      BY <1>11
    <3> HIDE DEF c
    <3> QED BY <1>1, <2>2, <3>1
  <2>4. grow[size] = Names
    BY <2>2, <2>3, NamesFinite, FS_Subset DEF size
  <2>5. \A x \in Names : step[x] \subseteq Names
    OBVIOUS
  <2> QED BY <1>3, <2>4, <2>5
<1> QED
  BY <1>8, <1>9, <1>10, <1>11

\* _deactivate: the plugin is not active any more and keeps its version.
LEMMA DeactivateSound ==
  ASSUME NEW m \in Sound, NEW n \in Names, m.st[n] # "ABSENT"
  PROVE  LET r == Deactivate(m, n) IN
         /\ r \in Sound /\ r.ver = m.ver /\ r.cleanup = m.cleanup /\ r.order = m.order
         /\ r.st[n] \in {"INACTIVE", "FAILED"}
         /\ \A t \in Tools : r.tools[t] \in {m.tools[t], NoVersion}
<1> DEFINE r == Deactivate(m, n)
           uses == [x \in Names |-> {y \in ActiveIn(m) : x \in ActiveIn(m) /\
                     Manifest[m.ver[x]].provides \intersect Manifest[m.ver[y]].requires # {}}]
<1>1. m \in PluginManagers /\ Recording(m) /\ Whole(m) /\ NothingElse(m)
  BY DEF Sound
<1>2. CASE m.st[n] = "ACTIVE"
  <2> DEFINE C == ActiveIn(m)
             ns == Reached(uses, {n})
  <2>1. r = Withdraw(m, ns)
    BY <1>2 DEF Deactivate
  <2>2. {n} \in SUBSET C /\ \A x \in C : uses[x] \subseteq C
    BY <1>2 DEF ActiveIn
  <2> HIDE DEF uses, r, C
  <2>3. n \in ns /\ ns \subseteq C
    BY <2>2, ReachedHolds
  <2> HIDE DEF ns
  <2>4. ns \in SUBSET Names /\ \A x \in ns : m.st[x] # "ABSENT"
    BY <2>3 DEF C, ActiveIn
  <2>5. /\ r \in Sound /\ r.ver = m.ver /\ r.cleanup = m.cleanup /\ r.order = m.order
        /\ \A x \in Names : r.st[x] = IF x \in ns THEN "INACTIVE" ELSE m.st[x]
        /\ \A t \in Tools : r.tools[t] \in {m.tools[t], NoVersion}
    BY <2>1, <2>4, WithdrawSound
  <2>6. r.st[n] = "INACTIVE"
    BY <2>3, <2>5
  <2> QED BY <2>5, <2>6 DEF r
<1>3. CASE m.st[n] # "ACTIVE"
  <2> DEFINE s == IF m.st[n] = "FAILED" THEN "FAILED" ELSE "INACTIVE"
             st == [m.st EXCEPT ![n] = s]
  <2>1. r = [m EXCEPT !.st = st]
    BY <1>1, <1>3 DEF Deactivate, PluginManagers
  <2>2. /\ st \in [Names -> RecordStatuses] /\ st[n] \in {"INACTIVE", "FAILED"}
        /\ \A x \in Names : (st[x] = "ACTIVE" <=> m.st[x] = "ACTIVE") /\ (st[x] # "ABSENT" => m.st[x] # "ABSENT")
    BY <1>1, <1>3 DEF PluginManagers, RecordStatuses
  <2> HIDE DEF st, s, r
  <2>3. /\ r \in PluginManagers /\ r.st = st /\ r.tools = m.tools /\ r.services = m.services /\ r.live = m.live
        /\ r.ver = m.ver /\ r.cleanup = m.cleanup /\ r.order = m.order
    BY <1>1, <2>1, <2>2 DEF PluginManagers
  <2>4. Recording(r) /\ Whole(r) /\ NothingElse(r)
    BY <1>1, <2>2, <2>3 DEF Recording, Whole, NothingElse
  <2> QED BY <2>2, <2>3, <2>4 DEF Sound, r
<1> QED
  BY <1>2, <1>3

\* What the commits change, field by field.
LEMMA CommitsIs ==
  ASSUME NEW m \in PluginManagers, NEW v \in Versions
  PROVE  LET r == Commits(m, v) IN
         /\ r \in PluginManagers /\ r.st = [m.st EXCEPT ![Manifest[v].name] = "ACTIVE"]
         /\ \A t \in Tools : r.tools[t] = IF t \in Manifest[v].tools THEN v ELSE m.tools[t]
         /\ r.services = m.services \union Manifest[v].provides /\ r.live = m.live \union {v}
         /\ r.ver = m.ver /\ r.cleanup = m.cleanup /\ r.order = m.order /\ r.settled = m.settled
<1> DEFINE tools == [t \in Tools |-> IF t \in Manifest[v].tools THEN v ELSE m.tools[t]]
           st == [m.st EXCEPT ![Manifest[v].name] = "ACTIVE"]
           services == m.services \union Manifest[v].provides
           alive == m.live \union {v}
           r == Commits(m, v)
<1>1. r = [m EXCEPT !.tools = tools, !.services = services, !.live = alive, !.st = st]
  BY DEF Commits, WithTools, PluginManagers
<1>2. /\ tools \in [Tools -> Versions \union {NoVersion}] /\ st \in [Names -> RecordStatuses]
      /\ services \in SUBSET STRING /\ alive \in SUBSET Versions
      /\ \A t \in Tools : tools[t] = IF t \in Manifest[v].tools THEN v ELSE m.tools[t]
  BY Manifests DEF PluginManagers, RecordStatuses
<1> HIDE DEF tools, st, services, alive, r
<1>3. /\ r \in PluginManagers /\ r.tools = tools /\ r.st = st /\ r.services = services /\ r.live = alive
      /\ r.ver = m.ver /\ r.cleanup = m.cleanup /\ r.order = m.order /\ r.settled = m.settled
  BY <1>1, <1>2 DEF PluginManagers
<1> QED
  BY <1>2, <1>3 DEF st, services, alive, r

\* What a failed commit changes.
LEMMA CommitFailsIs ==
  ASSUME NEW m \in PluginManagers, NEW v \in Versions
  PROVE  LET r == CommitFails(m, v) IN
         /\ r \in PluginManagers /\ r.st = m.st
         /\ \A t \in Tools : r.tools[t] = IF t \in Manifest[v].tools THEN v ELSE m.tools[t]
         /\ r.services = m.services /\ r.live = m.live
         /\ r.ver = m.ver /\ r.cleanup = m.cleanup \union {v} /\ r.order = m.order /\ r.settled = m.settled
<1> DEFINE tools == [t \in Tools |-> IF t \in Manifest[v].tools THEN v ELSE m.tools[t]]
           cleanup == m.cleanup \union {v}
           r == CommitFails(m, v)
<1>1. r = [m EXCEPT !.tools = tools, !.cleanup = cleanup]
  BY DEF CommitFails, WithTools, PluginManagers
<1>2. /\ tools \in [Tools -> Versions \union {NoVersion}] /\ cleanup \in SUBSET Versions
      /\ \A t \in Tools : tools[t] = IF t \in Manifest[v].tools THEN v ELSE m.tools[t]
  BY DEF PluginManagers
<1> HIDE DEF tools, cleanup, r
<1>3. /\ r \in PluginManagers /\ r.tools = tools /\ r.st = m.st /\ r.services = m.services /\ r.live = m.live
      /\ r.ver = m.ver /\ r.cleanup = cleanup /\ r.order = m.order /\ r.settled = m.settled
  BY <1>1, <1>2 DEF PluginManagers
<1> QED
  BY <1>2, <1>3 DEF cleanup, r

\* What recording a version changes.
LEMMA RecordedIs ==
  ASSUME NEW m \in PluginManagers, NEW v \in Versions, NEW status \in RecordStatuses
  PROVE  LET r == Recorded(m, v, status) IN
         /\ r \in PluginManagers
         /\ r.st = [m.st EXCEPT ![Manifest[v].name] = status]
         /\ r.ver = [m.ver EXCEPT ![Manifest[v].name] = v]
         /\ r.tools = m.tools /\ r.services = m.services /\ r.live = m.live /\ r.cleanup = m.cleanup
         /\ r.settled = m.settled /\ Range(r.order) = Range(m.order) \union {Manifest[v].name}
<1> DEFINE n == Manifest[v].name
           order == IF Contains(m.order, n) THEN m.order ELSE Append(m.order, n)
           st == [m.st EXCEPT ![n] = status]
           ver == [m.ver EXCEPT ![n] = v]
           r == Recorded(m, v, status)
<1>1. r = [m EXCEPT !.st = st, !.ver = ver, !.order = order]
  BY DEF Recorded, PluginManagers
<1>2. st \in [Names -> RecordStatuses] /\ ver \in [Names -> Versions \union {NoVersion}] /\ order \in Seq(Names)
  BY Manifests DEF PluginManagers
<1>3. Range(order) = Range(m.order) \union {n}
  <2>1. m.order \in Seq(Names)
    BY DEF PluginManagers
  <2>2. CASE Contains(m.order, n)
    BY <2>1, <2>2 DEF Contains, Range
  <2>3. CASE ~Contains(m.order, n)
    <3> DEFINE app == Append(m.order, n)
    <3>1. /\ DOMAIN m.order = 1..Len(m.order) /\ DOMAIN app = 1..(Len(m.order) + 1) /\ Len(m.order) \in Nat
          /\ app[Len(m.order) + 1] = n /\ \A i \in 1..Len(m.order) : app[i] = m.order[i]
      BY <2>1
    <3>2. order = app
      BY <2>3
    <3> HIDE DEF app, order
    <3>3. \A i \in 1..(Len(m.order) + 1) : i \in 1..Len(m.order) \/ i = Len(m.order) + 1
      BY <3>1
    <3>4. 1..Len(m.order) \subseteq 1..(Len(m.order) + 1) /\ Len(m.order) + 1 \in 1..(Len(m.order) + 1)
      BY <3>1
    <3>5. Range(app) \subseteq Range(m.order) \union {n}
      BY <3>1, <3>3 DEF Range
    <3>6. Range(m.order) \union {n} \subseteq Range(app)
      BY <3>1, <3>4 DEF Range
    <3> QED BY <3>2, <3>5, <3>6
  <2> QED BY <2>2, <2>3
<1> HIDE DEF st, ver, order, r
<1>4. /\ r \in PluginManagers /\ r.st = st /\ r.ver = ver /\ r.order = order /\ r.settled = m.settled
      /\ r.tools = m.tools /\ r.services = m.services /\ r.live = m.live /\ r.cleanup = m.cleanup
  BY <1>1, <1>2 DEF PluginManagers
<1> QED
  BY <1>3, <1>4 DEF st, ver, r

\* A plugin that is not active is recorded with another version.
LEMMA RecordedSound ==
  ASSUME NEW m \in Sound, NEW v \in Versions, m.st[Manifest[v].name] # "ACTIVE",
         NEW status \in {"INACTIVE", "FAILED"}
  PROVE  LET r == Recorded(m, v, status) IN
         /\ r \in Sound /\ r.st[Manifest[v].name] = status /\ r.tools = m.tools
<1> DEFINE n == Manifest[v].name
           r == Recorded(m, v, status)
<1>1. m \in PluginManagers /\ Recording(m) /\ Whole(m) /\ NothingElse(m) /\ status \in RecordStatuses
  BY DEF Sound, RecordStatuses
<1>2. n \in Names /\ v \in VersionsOf(n)
  BY Manifests
<1>3. /\ r \in PluginManagers /\ r.st = [m.st EXCEPT ![n] = status] /\ r.ver = [m.ver EXCEPT ![n] = v]
      /\ r.tools = m.tools /\ r.services = m.services /\ r.live = m.live /\ r.cleanup = m.cleanup
  BY <1>1, RecordedIs
<1> HIDE DEF n, r
<1>4. /\ r.st[n] = status /\ r.ver[n] = v
      /\ \A x \in Names \ {n} : r.st[x] = m.st[x] /\ r.ver[x] = m.ver[x]
  BY <1>1, <1>2, <1>3 DEF PluginManagers
<1>5. m.st[n] # "ACTIVE"
  BY DEF n
<1>6. Recording(r)
  BY <1>1, <1>2, <1>4 DEF Recording
<1>7. Whole(r)
  BY <1>1, <1>3, <1>4 DEF Whole
<1>8. NothingElse(r)
  <2>1. ASSUME NEW t \in Tools
        PROVE  \/ r.tools[t] \in r.cleanup \union {NoVersion}
               \/ \E x \in Names : r.st[x] = "ACTIVE" /\ r.tools[t] = r.ver[x]
    BY <1>1, <1>3, <1>4, <1>5 DEF NothingElse
  <2>2. ASSUME NEW k \in r.services PROVE \E x \in Names : r.st[x] = "ACTIVE" /\ k \in Manifest[r.ver[x]].provides
    BY <1>1, <1>3, <1>4, <1>5 DEF NothingElse
  <2> QED BY <1>1, <1>3, <2>1, <2>2 DEF NothingElse
<1> QED
  BY <1>3, <1>4, <1>6, <1>7, <1>8 DEF Sound, n, r

\* _reconcile at one record.
LEMMA ReconcileOneSound ==
  ASSUME NEW m \in Sound, NEW n \in Names, NEW raising
  PROVE  ReconcileOne(m, n, raising) \in Sound
<1> DEFINE v == m.ver[n]
<1>1. m \in PluginManagers /\ Recording(m) /\ Whole(m) /\ NothingElse(m)
  BY DEF Sound
<1>2. CASE m.st[n] = "ACTIVE" /\ ~Satisfied(m, v)
  BY <1>2, DeactivateSound DEF ReconcileOne
<1>3. CASE m.st[n] = "INACTIVE" /\ Satisfied(m, v)
  <2>1. v \in VersionsOf(n) /\ v \in Versions /\ Manifest[v].name = n
    BY <1>1, <1>3, VersionsApart DEF Recording
  <2>2. CASE ~CanStage(m, v, raising)
    <3> DEFINE r == [m EXCEPT !.st[n] = "FAILED"]
    <3>1. ReconcileOne(m, n, raising) = r
      BY <1>3, <2>2 DEF ReconcileOne
    <3>2. /\ r \in PluginManagers /\ r.ver = m.ver /\ r.tools = m.tools /\ r.services = m.services
          /\ r.live = m.live /\ r.cleanup = m.cleanup /\ r.st = [m.st EXCEPT ![n] = "FAILED"]
      BY <1>1 DEF PluginManagers, RecordStatuses
    <3> HIDE DEF r
    <3>3. \A x \in Names : /\ r.st[x] = "ACTIVE" <=> m.st[x] = "ACTIVE"
                           /\ r.st[x] # "ABSENT" => m.st[x] # "ABSENT"
      BY <1>1, <1>3, <3>2 DEF PluginManagers
    <3>4. Recording(r) /\ Whole(r) /\ NothingElse(r)
      BY <1>1, <3>2, <3>3 DEF Recording, Whole, NothingElse
    <3> QED BY <3>1, <3>2, <3>4 DEF Sound
  <2>3. CASE CanStage(m, v, raising) /\ Manifest[v].hookOk
    <3>1. ReconcileOne(m, n, raising) = Commits(m, v)
      BY <1>3, <2>3 DEF ReconcileOne
    <3>2. \A t \in Manifest[v].tools : m.tools[t] # NoVersion => Manifest[m.tools[t]].name = n
      BY <2>1, <2>3 DEF CanStage
    <3>3. m.ver = [m.ver EXCEPT ![n] = v]
      BY <1>1 DEF PluginManagers
    <3> DEFINE r == Commits(m, v)
    <3> HIDE DEF v
    <3>4. /\ r \in PluginManagers /\ r.st = [m.st EXCEPT ![Manifest[v].name] = "ACTIVE"]
          /\ \A t \in Tools : r.tools[t] = IF t \in Manifest[v].tools THEN v ELSE m.tools[t]
          /\ r.services = m.services \union Manifest[v].provides /\ r.live = m.live \union {v}
          /\ r.ver = m.ver /\ r.cleanup = m.cleanup
      BY <1>1, <2>1, CommitsIs
    <3> HIDE DEF r
    <3>5. r \in Sound
      <4>1. r.st = [m.st EXCEPT ![n] = "ACTIVE"] /\ r.ver = [m.ver EXCEPT ![n] = v] /\ n = Manifest[v].name
        BY <2>1, <3>3, <3>4
      <4>2. m.st[n] # "ACTIVE"
        BY <1>3
      <4> QED BY <2>1, <2>3, <3>2, <3>4, <4>1, <4>2, CommitSound
    <3> QED BY <3>1, <3>5 DEF r
  <2>4. CASE CanStage(m, v, raising) /\ ~Manifest[v].hookOk
    <3> DEFINE f == CommitFails(m, v)
               r == [f EXCEPT !.st[n] = "FAILED", !.live = @ \union {v}]
    <3>1. ReconcileOne(m, n, raising) = r
      BY <1>3, <2>4 DEF ReconcileOne
    <3>2. \A t \in Manifest[v].tools : m.tools[t] # NoVersion => Manifest[m.tools[t]].name = n
      BY <2>1, <2>4 DEF CanStage
    <3>3. /\ f \in PluginManagers /\ f.st = m.st /\ f.services = m.services /\ f.live = m.live
          /\ \A t \in Tools : f.tools[t] = IF t \in Manifest[v].tools THEN v ELSE m.tools[t]
          /\ f.ver = m.ver /\ f.cleanup = m.cleanup \union {v}
      BY <1>1, <2>1, CommitFailsIs
    <3> HIDE DEF f, v
    <3>4. /\ r \in PluginManagers /\ r.st = [m.st EXCEPT ![n] = "FAILED"] /\ r.services = m.services
          /\ r.live = m.live \union {v} /\ r.tools = f.tools /\ r.ver = m.ver /\ r.cleanup = m.cleanup \union {v}
      BY <2>1, <3>3 DEF PluginManagers, RecordStatuses
    <3> HIDE DEF r
    <3>5. r.st[n] # "ACTIVE" /\ \A x \in Names \ {n} : r.st[x] = m.st[x]
      BY <1>1, <3>4 DEF PluginManagers
    <3>6. r.ver[n] \in VersionsOf(n) /\ \A x \in Names \ {n} : r.ver[x] = m.ver[x]
      BY <2>1, <3>4 DEF v
    <3>7. \A t \in Tools : r.tools[t] = IF t \in Manifest[v].tools THEN v ELSE m.tools[t]
      BY <3>3, <3>4
    <3>8. m.st[n] # "ACTIVE" /\ m.live \subseteq r.live
      BY <1>3, <3>4
    <3>9. r \in Sound
      <4>1. n = Manifest[v].name /\ v \in Versions
        BY <2>1
      <4>2. \A x \in Names \ {n} : r.st[x] = m.st[x] /\ r.ver[x] = m.ver[x]
        BY <3>5, <3>6
      <4>3. r.services = m.services /\ r.cleanup = m.cleanup \union {v} /\ r \in PluginManagers
        BY <3>4
      <4>4. ~Manifest[v].hookOk /\ r.st[n] # "ACTIVE" /\ r.ver[n] \in VersionsOf(n)
        BY <2>4, <3>5, <3>6
      <4> QED BY <3>2, <3>7, <3>8, <4>1, <4>2, <4>3, <4>4, FailSound
    <3> QED BY <3>1, <3>9
  <2> QED BY <2>1, <2>2, <2>3, <2>4, Manifests
<1>4. CASE ~(m.st[n] = "ACTIVE" /\ ~Satisfied(m, v)) /\ ~(m.st[n] = "INACTIVE" /\ Satisfied(m, v))
  BY <1>4 DEF ReconcileOne
<1> QED
  BY <1>2, <1>3, <1>4

\* Every record is in the list the passes go over, ...
Listed(m) == \A n \in Names : m.st[n] # "ABSENT" => n \in Range(m.order)

\* ... the active ones among some have what they require, ...
FedOn(m, S) == \A n \in S : m.st[n] = "ACTIVE" => Satisfied(m, m.ver[n])

\* ... and when no load has rolled back since _reconcile, what is active and what waits is right.
Settles(m) ==
  m.settled => \A n \in Names : /\ m.st[n] = "ACTIVE" => Satisfied(m, m.ver[n])
                                /\ m.st[n] = "INACTIVE" => ~Satisfied(m, m.ver[n])

Tidy == {m \in Sound : Listed(m) /\ Settles(m)}

PluginsInv == mgr \in Tidy /\ file \in [Dynamic -> Versions \union {NoVersion}]

\* The records that wait for services.
Waiting(m) == {n \in Names : m.st[n] = "INACTIVE"}

\* _deactivate takes no service away from a plugin that it leaves active.
LEMMA DeactivateFeeds ==
  ASSUME NEW m \in Sound, NEW n \in Names, m.st[n] # "ABSENT"
  PROVE  LET r == Deactivate(m, n) IN
         /\ r.settled = m.settled
         /\ \A x \in Names : r.st[x] = "ABSENT" <=> m.st[x] = "ABSENT"
         /\ \A x \in Names : r.st[x] = "ACTIVE" =>
              m.st[x] = "ACTIVE" /\ (Satisfied(m, m.ver[x]) => Satisfied(r, m.ver[x]))
<1> DEFINE r == Deactivate(m, n)
           uses == [x \in Names |-> {y \in ActiveIn(m) : x \in ActiveIn(m) /\
                     Manifest[m.ver[x]].provides \intersect Manifest[m.ver[y]].requires # {}}]
<1>1. m \in PluginManagers
  BY DEF Sound
<1>2. CASE m.st[n] = "ACTIVE"
  <2> DEFINE C == ActiveIn(m)
             ns == Reached(uses, {n})
  <2>1. r = Withdraw(m, ns)
    BY <1>2 DEF Deactivate
  <2>2. /\ {n} \in SUBSET C /\ \A x \in C : uses[x] \subseteq C
        /\ uses \in [Names -> SUBSET Names] /\ {n} \in SUBSET Names /\ C \subseteq Names
    BY <1>2 DEF ActiveIn
  <2>3. \A x, y \in C : Manifest[m.ver[x]].provides \intersect Manifest[m.ver[y]].requires # {} => y \in uses[x]
    BY DEF ActiveIn
  <2> HIDE DEF uses, r, C
  <2>4. ns \subseteq C
    BY <2>2, ReachedHolds
  <2>5. \A x \in ns : uses[x] \subseteq ns
    BY <2>2, ReachedClosed
  <2> HIDE DEF ns
  <2>6. ns \in SUBSET Names /\ \A x \in ns : m.st[x] = "ACTIVE"
    BY <2>2, <2>4 DEF C, ActiveIn
  <2>7. /\ r.settled = m.settled /\ r.services = m.services \ UNION {Manifest[m.ver[x]].provides : x \in ns}
        /\ \A x \in Names : r.st[x] = IF x \in ns THEN "INACTIVE" ELSE m.st[x]
    BY <2>1, <2>6, WithdrawSound
  <2>8. \A x \in Names : r.st[x] = "ABSENT" <=> m.st[x] = "ABSENT"
    BY <2>6, <2>7
  <2>9. ASSUME NEW x \in Names, r.st[x] = "ACTIVE"
        PROVE  m.st[x] = "ACTIVE" /\ (Satisfied(m, m.ver[x]) => Satisfied(r, m.ver[x]))
    <3>1. x \notin ns /\ m.st[x] = "ACTIVE" /\ x \in C
      BY <2>7, <2>9 DEF C, ActiveIn
    <3>2. ASSUME NEW k \in Manifest[m.ver[x]].requires, k \in m.services PROVE k \in r.services
      <4>1. ASSUME NEW y \in ns PROVE k \notin Manifest[m.ver[y]].provides
        <5>1. y \in C /\ x \notin uses[y]
          BY <2>4, <2>5, <3>1
        <5> QED BY <2>3, <3>1, <5>1
      <4> QED BY <2>7, <3>2, <4>1
    <3> QED BY <3>1, <3>2 DEF Satisfied
  <2> QED BY <2>7, <2>8, <2>9 DEF r
<1>3. CASE m.st[n] # "ACTIVE"
  <2> DEFINE s == IF m.st[n] = "FAILED" THEN "FAILED" ELSE "INACTIVE"
             st == [m.st EXCEPT ![n] = s]
  <2>1. r = [m EXCEPT !.st = st]
    BY <1>1, <1>3 DEF Deactivate, PluginManagers
  <2>2. \A x \in Names : (st[x] = "ACTIVE" <=> m.st[x] = "ACTIVE") /\ (st[x] = "ABSENT" <=> m.st[x] = "ABSENT")
    BY <1>1, <1>3 DEF PluginManagers, RecordStatuses
  <2> HIDE DEF st, s, r
  <2>3. r.st = st /\ r.services = m.services /\ r.settled = m.settled
    BY <1>1, <2>1 DEF PluginManagers
  <2> QED BY <2>2, <2>3 DEF r, Satisfied
<1> QED
  BY <1>2, <1>3

\* What _reconcile does at one record.
LEMMA ReconcileOneIs ==
  ASSUME NEW m \in Sound, NEW n \in Names, NEW raising
  PROVE  LET r == ReconcileOne(m, n, raising)
             v == m.ver[n]
         IN \/ m.st[n] = "ACTIVE" /\ ~Satisfied(m, v) /\ r = Deactivate(m, n)
            \/ /\ m.st[n] = "INACTIVE" /\ Satisfied(m, v)
               /\ \E s \in {"ACTIVE", "FAILED"} : r.st = [m.st EXCEPT ![n] = s]
               /\ r.ver = m.ver /\ m.services \subseteq r.services /\ r.order = m.order /\ r.settled = m.settled
            \/ /\ r = m
               /\ m.st[n] = "ACTIVE" => Satisfied(m, v)
               /\ m.st[n] = "INACTIVE" => ~Satisfied(m, v)
<1> DEFINE v == m.ver[n]
           r == ReconcileOne(m, n, raising)
<1>1. m \in PluginManagers /\ Recording(m)
  BY DEF Sound
<1>2. CASE m.st[n] = "INACTIVE" /\ Satisfied(m, v)
  <2>1. v \in Versions /\ Manifest[v].name = n
    BY <1>1, <1>2, VersionsApart DEF Recording
  <2>2. CASE ~CanStage(m, v, raising)
    <3>1. r = [m EXCEPT !.st[n] = "FAILED"]
      BY <1>2, <2>2 DEF ReconcileOne
    <3>2. /\ r.st = [m.st EXCEPT ![n] = "FAILED"] /\ r.ver = m.ver /\ r.services = m.services
          /\ r.order = m.order /\ r.settled = m.settled
      BY <1>1, <3>1 DEF PluginManagers
    <3> QED BY <1>2, <3>2
  <2>3. CASE CanStage(m, v, raising) /\ Manifest[v].hookOk
    <3>1. r = Commits(m, v)
      BY <1>2, <2>3 DEF ReconcileOne
    <3> HIDE DEF r
    <3>2. /\ r.st = [m.st EXCEPT ![n] = "ACTIVE"] /\ r.ver = m.ver /\ m.services \subseteq r.services
          /\ r.order = m.order /\ r.settled = m.settled
      BY <1>1, <2>1, <3>1, CommitsIs
    <3> QED BY <1>2, <3>2 DEF r
  <2>4. CASE CanStage(m, v, raising) /\ ~Manifest[v].hookOk
    <3> DEFINE f == CommitFails(m, v)
    <3>1. r = [f EXCEPT !.st[n] = "FAILED", !.live = @ \union {v}]
      BY <1>2, <2>4 DEF ReconcileOne
    <3>2. /\ f \in PluginManagers /\ f.st = m.st /\ f.services = m.services
          /\ f.ver = m.ver /\ f.order = m.order /\ f.settled = m.settled
      BY <1>1, <2>1, CommitFailsIs
    <3> HIDE DEF f, v, r
    <3>3. /\ r.st = [m.st EXCEPT ![n] = "FAILED"] /\ r.ver = m.ver /\ r.services = m.services
          /\ r.order = m.order /\ r.settled = m.settled
      BY <3>1, <3>2 DEF PluginManagers
    <3> QED BY <1>2, <3>3 DEF r, v
  <2>5. Manifest[v].hookOk \in BOOLEAN
    BY <2>1, Manifests
  <2> QED BY <2>2, <2>3, <2>4, <2>5
<1>3. CASE ~(m.st[n] = "INACTIVE" /\ Satisfied(m, v))
  BY <1>3 DEF ReconcileOne
<1> QED
  BY <1>2, <1>3

\* It feeds the record it is at, starves none, and leaves the list alone.
LEMMA ReconcileOneFeeds ==
  ASSUME NEW m \in Sound, NEW n \in Names, NEW raising
  PROVE  LET r == ReconcileOne(m, n, raising) IN
         /\ r.order = m.order /\ r.settled = m.settled
         /\ \A x \in Names : r.st[x] = "ABSENT" <=> m.st[x] = "ABSENT"
         /\ \A S \in SUBSET Names : FedOn(m, S) => FedOn(r, S \union {n})
<1> DEFINE r == ReconcileOne(m, n, raising)
           v == m.ver[n]
<1>1. m \in PluginManagers
  BY DEF Sound
<1>2. CASE m.st[n] = "ACTIVE" /\ ~Satisfied(m, v) /\ r = Deactivate(m, n)
  <2>1. /\ r.order = m.order /\ r.settled = m.settled /\ r.ver = m.ver /\ r.st[n] # "ACTIVE"
        /\ \A x \in Names : r.st[x] = "ABSENT" <=> m.st[x] = "ABSENT"
        /\ \A x \in Names : r.st[x] = "ACTIVE" =>
             m.st[x] = "ACTIVE" /\ (Satisfied(m, m.ver[x]) => Satisfied(r, m.ver[x]))
    BY <1>2, DeactivateSound, DeactivateFeeds
  <2> HIDE DEF r
  <2> QED BY <2>1 DEF FedOn, r
<1>3. CASE /\ m.st[n] = "INACTIVE" /\ Satisfied(m, v)
           /\ \E s \in {"ACTIVE", "FAILED"} : r.st = [m.st EXCEPT ![n] = s]
           /\ r.ver = m.ver /\ m.services \subseteq r.services /\ r.order = m.order /\ r.settled = m.settled
  <2> HIDE DEF r
  <2>1. /\ \A x \in Names \ {n} : r.st[x] = m.st[x]
        /\ \A x \in Names : r.st[x] = "ABSENT" <=> m.st[x] = "ABSENT"
    BY <1>1, <1>3 DEF PluginManagers
  <2>2. \A S \in SUBSET Names : FedOn(m, S) => FedOn(r, S \union {n})
    BY <1>3, <2>1 DEF FedOn, Satisfied
  <2> QED BY <1>3, <2>1, <2>2 DEF r
<1>4. CASE r = m /\ (m.st[n] = "ACTIVE" => Satisfied(m, v))
  <2> HIDE DEF r
  <2> QED BY <1>4 DEF FedOn, r
<1> QED
  BY <1>2, <1>3, <1>4, ReconcileOneIs

\* When every active plugin has what it requires, it changes only the record of one that waits, ...
LEMMA ReconcileOneTakes ==
  ASSUME NEW m \in Sound, NEW n \in Names, NEW raising, FedOn(m, Names)
  PROVE  LET r == ReconcileOne(m, n, raising) IN
         Waiting(r) \subseteq Waiting(m) /\ (Waiting(r) = Waiting(m) => r = m)
<1> DEFINE r == ReconcileOne(m, n, raising)
           v == m.ver[n]
<1>1. m \in PluginManagers
  BY DEF Sound
<1>2. ~(m.st[n] = "ACTIVE" /\ ~Satisfied(m, v))
  BY DEF FedOn
<1>3. CASE m.st[n] = "INACTIVE" /\ \E s \in {"ACTIVE", "FAILED"} : r.st = [m.st EXCEPT ![n] = s]
  <2> HIDE DEF r
  <2>1. r.st[n] # "INACTIVE" /\ \A x \in Names \ {n} : r.st[x] = m.st[x]
    BY <1>1, <1>3 DEF PluginManagers
  <2> QED BY <1>3, <2>1 DEF Waiting, r
<1>4. CASE r = m
  BY <1>4
<1> QED
  BY <1>2, <1>3, <1>4, ReconcileOneIs

\* ... and leaves a record alone only when it is right.
LEMMA ReconcileOneLeaves ==
  ASSUME NEW m \in Sound, NEW n \in Names, NEW raising, ReconcileOne(m, n, raising) = m
  PROVE  /\ m.st[n] = "ACTIVE" => Satisfied(m, m.ver[n])
         /\ m.st[n] = "INACTIVE" => ~Satisfied(m, m.ver[n])
<1>1. m \in PluginManagers
  BY DEF Sound
<1>2. ~(m.st[n] = "ACTIVE" /\ m = Deactivate(m, n))
  BY DeactivateSound
<1>3. ~(m.st[n] = "INACTIVE" /\ \E s \in {"ACTIVE", "FAILED"} : m.st = [m.st EXCEPT ![n] = s])
  BY <1>1 DEF PluginManagers
<1> QED
  BY <1>2, <1>3, ReconcileOneIs

\* The history bit matters to none of it.
LEMMA SettledSound ==
  ASSUME NEW m \in Sound, NEW b \in BOOLEAN
  PROVE  LET r == [m EXCEPT !.settled = b] IN
         /\ r \in Sound /\ r.st = m.st /\ r.ver = m.ver /\ r.tools = m.tools /\ r.order = m.order
         /\ r.services = m.services /\ r.settled = b
<1> DEFINE r == [m EXCEPT !.settled = b]
<1>1. m \in PluginManagers /\ Recording(m) /\ Whole(m) /\ NothingElse(m)
  BY DEF Sound
<1>2. /\ r \in PluginManagers /\ r.st = m.st /\ r.ver = m.ver /\ r.tools = m.tools /\ r.order = m.order
      /\ r.services = m.services /\ r.live = m.live /\ r.cleanup = m.cleanup /\ r.settled = b
  BY <1>1 DEF PluginManagers
<1> HIDE DEF r
<1>3. Recording(r) /\ Whole(r) /\ NothingElse(r)
  BY <1>1, <1>2 DEF Recording, Whole, NothingElse
<1> QED
  BY <1>2, <1>3 DEF Sound, r

\* A recorded version, staged beside what others have registered, is committed ...
LEMMA CommitsSound ==
  ASSUME NEW w \in Sound, NEW v \in Versions, NEW n, n = Manifest[v].name, w.ver[n] = v,
         w.st[n] # "ACTIVE", Manifest[v].hookOk,
         \A t \in Manifest[v].tools : w.tools[t] # NoVersion => Manifest[w.tools[t]].name = n
  PROVE  Commits(w, v) \in Sound
<1> DEFINE r == Commits(w, v)
<1>1. w \in PluginManagers /\ n \in Names
  BY Manifests DEF Sound
<1>2. /\ r \in PluginManagers /\ r.st = [w.st EXCEPT ![Manifest[v].name] = "ACTIVE"]
      /\ \A t \in Tools : r.tools[t] = IF t \in Manifest[v].tools THEN v ELSE w.tools[t]
      /\ r.services = w.services \union Manifest[v].provides /\ r.live = w.live \union {v}
      /\ r.ver = w.ver /\ r.cleanup = w.cleanup
  BY <1>1, CommitsIs
<1> HIDE DEF r
<1>3. w.ver = [w.ver EXCEPT ![n] = v]
  BY <1>1 DEF PluginManagers
<1>4. r.st = [w.st EXCEPT ![n] = "ACTIVE"] /\ r.ver = [w.ver EXCEPT ![n] = v]
  BY <1>2, <1>3
<1>5. r \in Sound
  BY <1>2, <1>4, CommitSound
<1> QED
  BY <1>5 DEF r

\* ... or its commit fails.
LEMMA CommitFailsSound ==
  ASSUME NEW w \in Sound, NEW v \in Versions, NEW n, n = Manifest[v].name, w.ver[n] \in VersionsOf(n),
         w.st[n] # "ACTIVE", ~Manifest[v].hookOk,
         \A t \in Manifest[v].tools : w.tools[t] # NoVersion => Manifest[w.tools[t]].name = n
  PROVE  LET r == CommitFails(w, v) IN r \in Sound /\ r.st = w.st /\ r.ver = w.ver
<1> DEFINE r == CommitFails(w, v)
<1>1. w \in PluginManagers
  BY DEF Sound
<1>2. /\ r \in PluginManagers /\ r.st = w.st
      /\ \A t \in Tools : r.tools[t] = IF t \in Manifest[v].tools THEN v ELSE w.tools[t]
      /\ r.services = w.services /\ r.live = w.live /\ r.ver = w.ver /\ r.cleanup = w.cleanup \union {v}
  BY <1>1, CommitFailsIs
<1> HIDE DEF r
<1>3. /\ \A x \in Names \ {n} : r.st[x] = w.st[x] /\ r.ver[x] = w.ver[x]
      /\ r.st[n] # "ACTIVE" /\ r.ver[n] \in VersionsOf(n) /\ w.live \subseteq r.live
  BY <1>2
<1>4. r \in Sound
  BY <1>2, <1>3, FailSound
<1> QED
  BY <1>2, <1>4 DEF r

\* The arithmetic of the passes over the records.
LEMMA Passes ==
  ASSUME NEW b \in Nat
  PROVE  b * (b + 2) \in Nat /\ (b * (b + 2) # 0 => b # 0)
OBVIOUS

LEMMA Places ==
  ASSUME NEW a \in Nat, NEW b \in Nat \ {0}
  PROVE  (a % b) + 1 \in 1..b
OBVIOUS

\* The places of the first pass.
LEMMA FirstPlaces ==
  ASSUME NEW b \in Nat \ {0}, NEW k \in 1..b
  PROVE  k \in 1..(b * (b + 2)) /\ ((k - 1) % b) + 1 = k
<1>1. b * (b + 2) = b * (b + 1) + b /\ b * (b + 1) \in Nat
  OBVIOUS
<1>2. k \in 1..(b * (b + 2))
  BY <1>1
<1> DEFINE z == 0
<1>3. z \in Nat /\ b * z = 0 /\ k - 1 \in 0..(b - 1)
  OBVIOUS
<1> HIDE DEF z
<1>4. (b * z + (k - 1)) % b = k - 1
  BY <1>3, Remainder
<1>5. b * z + (k - 1) = k - 1
  BY <1>3
<1>6. (k - 1) % b = k - 1
  BY <1>4, <1>5
<1> QED
  BY <1>2, <1>6

\* A number of steps that are each sound.
LEMMA SoundSteps ==
  ASSUME NEW base \in Sound, NEW N \in Nat, NEW Step \in [1..N -> [Sound -> Sound]]
  PROVE  \E f : Unfolds(f, Sound, base, N, Step)
<1> DEFINE V == Sound
<1>1. base \in V /\ Step \in [1..N -> [V -> V]]
  OBVIOUS
<1> HIDE DEF V
<1>2. Step \in StepsOn(V, N)
  BY <1>1 DEF StepsOn
<1>3. PICK f : Unfolds(f, V, base, N, Step)
  BY <1>1, <1>2, RecursiveFunction
<1> QED
  BY <1>3 DEF V

\* _reconcile, as many passes as it makes: after i steps the state is f[i].
Passing(m, raising, f) ==
  LET size == Len(m.order)
      steps == size * (size + 2)
  IN /\ f[0] = [m EXCEPT !.settled = TRUE] /\ Reconcile(m, raising) = f[steps]
     /\ \A i \in 0..steps : f[i] \in Sound
     /\ \A i \in 1..steps : f[i] = ReconcileOne(f[i - 1], m.order[((i - 1) % size) + 1], raising)

LEMMA ReconcileSteps ==
  ASSUME NEW m \in Sound, NEW raising
  PROVE  \E f : Passing(m, raising, f)
<1> DEFINE size == Len(m.order)
           steps == size * Rounds(m)
           At(i) == m.order[((i - 1) % size) + 1]
           base == [m EXCEPT !.settled = TRUE]
           Step(i, x) == ReconcileOne(x, At(i), raising)
           F(f) == [i \in 0..steps |-> IF i = 0 THEN base ELSE Step(i, f[i - 1])]
           N == [i \in 1..steps |-> [x \in Sound |-> Step(i, x)]]
           after == CHOOSE f : f = F(f)
<1>1. m.order \in Seq(Names) /\ size \in Nat
  BY DEF Sound, PluginManagers
<1>2. steps \in Nat /\ (steps # 0 => size # 0)
  <2>1. steps = size * (size + 2)
    BY DEF Rounds
  <2> HIDE DEF size, steps
  <2> QED BY <1>1, <2>1, Passes
<1>3. \A i \in 1..steps : At(i) \in Names
  <2> SUFFICES ASSUME NEW i \in 1..steps PROVE At(i) \in Names
    OBVIOUS
  <2> HIDE DEF steps
  <2>1. i - 1 \in Nat /\ size \in Nat \ {0}
    BY <1>1, <1>2
  <2>2. ((i - 1) % size) + 1 \in 1..size
    <3> HIDE DEF size
    <3> QED BY <2>1, Places
  <2> DEFINE k == ((i - 1) % size) + 1
  <2>3. At(i) = m.order[k]
    OBVIOUS
  <2> HIDE DEF k, At
  <2>4. k \in 1..Len(m.order)
    BY <2>2 DEF k
  <2> QED BY <1>1, <2>3, <2>4
<1>4. base \in Sound
  BY SettledSound
<1>5. Reconcile(m, raising) = after[steps] /\ steps = Len(m.order) * (Len(m.order) + 2)
  BY DEF Reconcile, Rounds
<1> HIDE DEF base, At, size
<1>6. \A i \in 1..steps : \A x \in Sound : Step(i, x) \in Sound
  BY <1>3, ReconcileOneSound
<1> HIDE DEF Step, steps
<1>7. N \in [1..steps -> [Sound -> Sound]]
  BY <1>6
<1> HIDE DEF N
<1>8. PICK g \in [0..steps -> Sound] : g[0] = base /\ \A i \in 1..steps : g[i] = N[i][g[i - 1]]
  <2> HIDE DEF F, after
  <2>1. \E g \in [0..steps -> Sound] : g[0] = base /\ \A i \in 1..steps : g[i] = N[i][g[i - 1]]
    <3>1. steps \in Nat
      BY <1>2
    <3> HIDE DEF steps
    <3>2. PICK g : Unfolds(g, Sound, base, steps, N)
      BY <3>1, <1>4, <1>7, SoundSteps
    <3> QED BY <3>2 DEF Unfolds
  <2> QED BY <2>1
<1>9. g = F(g)
  <2>1. ASSUME NEW i \in 0..steps PROVE g[i] = IF i = 0 THEN base ELSE Step(i, g[i - 1])
    <3>1. CASE i = 0
      BY <1>8, <3>1
    <3>2. CASE i # 0
      <4>1. i \in 1..steps /\ g[i - 1] \in Sound
        BY <1>2, <1>8, <3>2
      <4> QED BY <1>8, <3>2, <4>1 DEF N
    <3> QED BY <3>1, <3>2
  <2> QED BY <1>8, <2>1
<1>10. after = F(after)
  <2> HIDE DEF F
  <2> QED BY <1>9
<1> HIDE DEF after
<1>11. \A i \in 0..steps : after[i] = IF i = 0 THEN base ELSE Step(i, after[i - 1])
  BY <1>10
<1>12. \A i \in 1..steps : after[i - 1] \in Sound => after[i] = N[i][after[i - 1]]
  BY <1>2, <1>11 DEF N
<1>13. after[0] \in Sound
  BY <1>2, <1>4, <1>11
<1>14. \A i \in 0..steps : after[i] \in Sound
  BY <1>2, <1>7, <1>12, <1>13, RecursiveValues
<1>15. \A i \in 1..steps : after[i] = ReconcileOne(after[i - 1], m.order[((i - 1) % Len(m.order)) + 1], raising)
  <2>1. \A i \in 1..steps : after[i] = Step(i, after[i - 1])
    BY <1>2, <1>11
  <2> QED BY <2>1 DEF Step, At, size
<1>16. after[0] = [m EXCEPT !.settled = TRUE]
  <2>1. after[0] = base
    BY <1>2, <1>11
  <2> QED BY <2>1 DEF base
<1>17. Passing(m, raising, after)
  BY <1>5, <1>14, <1>15, <1>16 DEF Passing
<1> QED
  BY <1>17

\* The list of the records, and how many it names.
LEMMA RecordsListed ==
  ASSUME NEW m \in Sound
  PROVE  /\ m.order \in Seq(Names) /\ Len(m.order) \in Nat /\ Len(m.order) * (Len(m.order) + 2) \in Nat
         /\ \A k \in 1..Len(m.order) : m.order[k] \in Names
         /\ Range(m.order) = {m.order[k] : k \in 1..Len(m.order)}
         /\ IsFiniteSet(Range(m.order)) /\ Cardinality(Range(m.order)) <= Len(m.order)
<1> DEFINE size == Len(m.order)
           named == [k \in 1..size |-> m.order[k]]
<1>1. m.order \in Seq(Names) /\ size \in Nat /\ DOMAIN m.order = 1..size
  BY DEF Sound, PluginManagers
<1>2. Range(m.order) = {m.order[k] : k \in 1..size} /\ \A k \in 1..size : m.order[k] \in Names
  BY <1>1 DEF Range
<1>3. named \in Surjection(1..size, Range(m.order))
  BY <1>2 DEF Surjection
<1>4. IsFiniteSet(1..size) /\ Cardinality(1..size) = size
  <2> HIDE DEF size
  <2>1. 0 \in Int /\ 1 \in Int /\ size \in Int
    BY <1>1
  <2>2. IsFiniteSet(1..size) /\ Cardinality(1..size) = IF 1 > size THEN 0 ELSE size - 1 + 1
    BY <2>1, FS_Interval
  <2> QED BY <1>1, <2>2
<1> HIDE DEF named
<1>5. IsFiniteSet(Range(m.order)) /\ Cardinality(Range(m.order)) <= size
  <2> HIDE DEF size
  <2> QED BY <1>3, <1>4, FS_Surjection
<1>6. size * (size + 2) \in Nat
  <2> HIDE DEF size
  <2> QED BY <1>1, Passes
<1> QED
  BY <1>1, <1>2, <1>5, <1>6


\* _reconcile, whatever it starts from: the first pass leaves no active plugin without what it
\* requires, and each later one that changes anything has one waiting record less.
LEMMA ReconcileTidy ==
  ASSUME NEW m \in Sound, NEW raising, Listed(m)
  PROVE  Reconcile(m, raising) \in Tidy
<1> DEFINE size == Len(m.order)
           steps == size * (size + 2)
           Kept(s) == s \in Sound /\ s.order = m.order /\ s.settled /\ Listed(s)
<1>1. PICK f : Passing(m, raising, f)
  BY ReconcileSteps
<1>2. /\ f[0] = [m EXCEPT !.settled = TRUE] /\ Reconcile(m, raising) = f[steps]
      /\ \A i \in 0..steps : f[i] \in Sound
      /\ \A i \in 1..steps : f[i] = ReconcileOne(f[i - 1], m.order[((i - 1) % size) + 1], raising)
  BY <1>1 DEF Passing
<1>3. /\ size \in Nat /\ steps \in Nat /\ (steps # 0 => size # 0)
      /\ \A k \in 1..size : m.order[k] \in Names
      /\ Range(m.order) = {m.order[k] : k \in 1..size}
      /\ IsFiniteSet(Range(m.order)) /\ Cardinality(Range(m.order)) <= size
  <2>1. size \in Nat /\ steps \in Nat /\ (steps # 0 => size # 0)
    BY RecordsListed, Passes
  <2> QED BY <2>1, RecordsListed
<1>4. Kept(f[0])
  <2>1. f[0] \in Sound /\ f[0].st = m.st /\ f[0].order = m.order /\ f[0].settled
    BY <1>2, SettledSound
  <2> QED BY <2>1 DEF Listed
<1>5. CASE size = 0
  <2>1. Range(m.order) = {}
    BY <1>3, <1>5
  <2>2. \A n \in Names : f[0].st[n] = "ABSENT"
    BY <1>4, <2>1 DEF Listed
  <2>3. steps = 0
    BY <1>5
  <2> HIDE DEF steps
  <2> QED BY <1>2, <1>4, <2>2, <2>3 DEF Tidy, Settles
<1>6. CASE size # 0
  <2> DEFINE Good == {s \in Sound : Kept(s) /\ FedOn(s, Names)}
             One == [k \in 1..size |-> [s \in Sound |-> ReconcileOne(s, m.order[k], raising)]]
             W == [s \in Sound |-> Waiting(s)]
             At(i) == ((i - 1) % size) + 1
             First(j) == {m.order[k] : k \in 1..j}
  <2>1. size \in Nat \ {0}
    BY <1>3, <1>6
  <2>2. \A i \in 1..steps : At(i) \in 1..size
    <3> SUFFICES ASSUME NEW i \in 1..steps PROVE At(i) \in 1..size
      OBVIOUS
    <3> HIDE DEF size, steps
    <3>1. i - 1 \in Nat
      BY <1>3
    <3> QED BY <2>1, <3>1, Places
  <2>3. \A i \in 1..steps : f[i - 1] \in Sound /\ f[i] = ReconcileOne(f[i - 1], m.order[At(i)], raising)
    <3> HIDE DEF size, steps
    <3>1. \A i \in 1..steps : i - 1 \in 0..steps
      BY <1>3
    <3> QED BY <1>2, <3>1
  <2>4. size \in 0..steps /\ \A k \in 1..size : k \in 1..steps /\ At(k) = k
    <3>1. size \in 1..size
      BY <2>1
    <3> HIDE DEF size
    <3>2. \A k \in 1..size : k \in 1..(size * (size + 2)) /\ ((k - 1) % size) + 1 = k
      BY <2>1, FirstPlaces
    <3>3. \A k \in 1..size : k \in 1..steps /\ At(k) = k
      BY <3>2
    <3> HIDE DEF steps
    <3> QED BY <1>3, <3>1, <3>3
  <2> HIDE DEF At
  <2>5. ASSUME NEW s \in Sound, Kept(s), NEW n \in Names
        PROVE  LET r == ReconcileOne(s, n, raising) IN
               Kept(r) /\ \A S \in SUBSET Names : FedOn(s, S) => FedOn(r, S \union {n})
    <3> DEFINE r == ReconcileOne(s, n, raising)
    <3>1. /\ r \in Sound /\ r.order = s.order /\ r.settled = s.settled
          /\ \A x \in Names : r.st[x] = "ABSENT" <=> s.st[x] = "ABSENT"
          /\ \A S \in SUBSET Names : FedOn(s, S) => FedOn(r, S \union {n})
      BY ReconcileOneSound, ReconcileOneFeeds
    <3> HIDE DEF r
    <3>2. Kept(r)
      BY <2>5, <3>1 DEF Listed
    <3> QED BY <3>1, <3>2 DEF r
  <2>6. \A j \in 0..size : Kept(f[j]) /\ FedOn(f[j], First(j))
    <3> DEFINE S == {j \in Nat : j <= size => Kept(f[j]) /\ FedOn(f[j], First(j))}
    <3>1. 0 \in S
      <4>1. First(0) = {}
        OBVIOUS
      <4> HIDE DEF Kept, First
      <4> QED BY <1>4, <4>1 DEF FedOn
    <3>2. ASSUME NEW j \in Nat, j \in S PROVE j + 1 \in S
      <4> SUFFICES ASSUME j + 1 <= size PROVE Kept(f[j + 1]) /\ FedOn(f[j + 1], First(j + 1))
        <5> HIDE DEF Kept, First
        <5> QED OBVIOUS
      <4>1. j + 1 \in 1..size /\ j + 1 - 1 = j /\ j <= size
        BY <2>1
      <4> HIDE DEF Kept
      <4>2. Kept(f[j]) /\ FedOn(f[j], First(j))
        BY <3>2, <4>1
      <4>3. f[j] \in Sound /\ f[j + 1] = ReconcileOne(f[j], m.order[j + 1], raising)
        <5> DEFINE i == j + 1
        <5>1. i \in 1..size /\ i - 1 = j
          BY <4>1
        <5> HIDE DEF i, size, steps
        <5>2. i \in 1..steps /\ At(i) = i
          BY <2>4, <5>1
        <5>3. f[i - 1] \in Sound /\ f[i] = ReconcileOne(f[i - 1], m.order[i], raising)
          BY <2>3, <5>2
        <5> QED BY <5>1, <5>3 DEF i
      <4>4. m.order[j + 1] \in Names /\ First(j) \in SUBSET Names
        <5>1. \A k \in 1..j : k \in 1..size
          BY <4>1
        <5> HIDE DEF size
        <5> QED BY <1>3, <4>1, <5>1
      <4>5. First(j + 1) = First(j) \union {m.order[j + 1]}
        <5>1. \A k : k \in 1..(j + 1) <=> k \in 1..j \/ k = j + 1
          OBVIOUS
        <5> QED BY <5>1
      <4> HIDE DEF First
      <4> QED BY <2>5, <4>2, <4>3, <4>4, <4>5
    <3>3. Nat \subseteq S
      <4> HIDE DEF S
      <4> QED BY <3>1, <3>2, SetInduction
    <3> HIDE DEF Kept, First
    <3> QED BY <3>3
  <2>7. f[size] \in Good
    <3>1. size \in 0..size
      BY <2>1
    <3>2. Kept(f[size]) /\ FedOn(f[size], Range(m.order)) /\ f[size] \in Sound
      <4> HIDE DEF size, Kept
      <4> QED BY <1>2, <1>3, <2>4, <2>6, <3>1
    <3>3. \A n \in Names : n \in Range(m.order) \/ f[size].st[n] = "ABSENT"
      BY <3>2 DEF Listed
    <3>4. FedOn(f[size], Names)
      BY <3>2, <3>3 DEF FedOn
    <3> HIDE DEF Kept
    <3> QED BY <3>2, <3>4
  <2>8. Taking(size, Good, One, W)
    <3> SUFFICES ASSUME NEW k \in 1..size, NEW s \in Good
                 PROVE  /\ One[k][s] \in Good /\ W[One[k][s]] \subseteq W[s]
                        /\ W[One[k][s]] = W[s] => One[k][s] = s
      <4> HIDE DEF Good, One, W
      <4> QED BY DEF Taking
    <3> DEFINE n == m.order[k]
               r == ReconcileOne(s, n, raising)
    <3>1. n \in Names /\ s \in Sound /\ Kept(s) /\ FedOn(s, Names)
      BY <1>3
    <3>2. One[k][s] = r
      BY <3>1
    <3> HIDE DEF n, Kept
    <3>3. Kept(r) /\ FedOn(r, Names)
      <4>1. Names \union {n} = Names /\ Names \in SUBSET Names
        BY <3>1
      <4> HIDE DEF r
      <4>2. Kept(r) /\ \A S \in SUBSET Names : FedOn(s, S) => FedOn(r, S \union {n})
        BY <2>5, <3>1 DEF r
      <4> QED BY <3>1, <4>1, <4>2
    <3>4. Waiting(r) \subseteq Waiting(s) /\ (Waiting(r) = Waiting(s) => r = s)
      BY <3>1, ReconcileOneTakes
    <3> HIDE DEF r
    <3>5. r \in Sound
      BY <3>3 DEF Kept
    <3> HIDE DEF One
    <3> QED BY <3>1, <3>2, <3>3, <3>4, <3>5
  <2>9. \A s \in Good : IsFiniteSet(W[s]) /\ Cardinality(W[s]) <= size
    <3> SUFFICES ASSUME NEW s \in Good PROVE IsFiniteSet(W[s]) /\ Cardinality(W[s]) <= size
      OBVIOUS
    <3>1. W[s] \in SUBSET Range(m.order)
      BY DEF Waiting, Listed
    <3> DEFINE c == Cardinality(W[s])
               d == Cardinality(Range(m.order))
    <3>2. IsFiniteSet(W[s]) /\ c <= d
      <4> HIDE DEF W
      <4> QED BY <1>3, <3>1, FS_Subset
    <3>3. c \in Nat /\ d \in Nat /\ d <= size
      BY <1>3, <3>2, FS_CardinalityType
    <3>4. c <= size
      <4> HIDE DEF c, d, size
      <4> QED BY <1>3, <3>2, <3>3
    <3> QED BY <3>2, <3>4
  <2>10. \A i \in 1..(size * (size + 2)) : f[i] = One[((i - 1) % size) + 1][f[i - 1]]
    <3> SUFFICES ASSUME NEW i \in 1..steps PROVE f[i] = One[At(i)][f[i - 1]]
      BY DEF At
    <3>1. At(i) \in 1..size /\ f[i - 1] \in Sound /\ f[i] = ReconcileOne(f[i - 1], m.order[At(i)], raising)
      <4> HIDE DEF size, steps
      <4> QED BY <2>2, <2>3
    <3> HIDE DEF size, steps
    <3> QED BY <3>1
  <2> DEFINE last == f[steps]
  <2>11. last \in Good /\ Unchanging(size, One, last)
    <3> HIDE DEF Good, One, W, size
    <3> QED BY <2>1, <2>7, <2>8, <2>9, <2>10, PassesSettle
  <2> HIDE DEF last, steps
  <2>12. Kept(last) /\ last \in Sound
    BY <2>11
  <2>13. ASSUME NEW n \in Names
         PROVE  /\ last.st[n] = "ACTIVE" => Satisfied(last, last.ver[n])
                /\ last.st[n] = "INACTIVE" => ~Satisfied(last, last.ver[n])
    <3>1. CASE last.st[n] = "ABSENT"
      BY <3>1
    <3>2. CASE last.st[n] # "ABSENT"
      <4>1. n \in Range(m.order)
        BY <2>12, <3>2 DEF Listed
      <4>2. PICK k \in 1..size : n = m.order[k]
        BY <1>3, <4>1
      <4>3. One[k][last] = last
        <5> HIDE DEF One
        <5> QED BY <2>11 DEF Unchanging
      <4>4. ReconcileOne(last, n, raising) = last
        BY <2>12, <4>2, <4>3
      <4> QED BY <2>12, <4>4, ReconcileOneLeaves
    <3> QED BY <3>1, <3>2
  <2> QED BY <1>2, <2>12, <2>13 DEF Tidy, Settles, last
<1> QED
  BY <1>5, <1>6

\* Every record stays in the list of all of them, ...
LEMMA ListedStays ==
  ASSUME NEW m \in PluginManagers, NEW v \in Versions, Listed(m)
  PROVE  /\ \A status \in RecordStatuses : Listed(Recorded(m, v, status))
         /\ m.st[Manifest[v].name] # "ABSENT" => Listed(Commits(m, v))
         /\ Listed(CommitFails(m, v))
<1> DEFINE n == Manifest[v].name
<1>1. ASSUME NEW status \in RecordStatuses PROVE Listed(Recorded(m, v, status))
  <2> DEFINE r == Recorded(m, v, status)
  <2>1. /\ r \in PluginManagers
        /\ r.st = [m.st EXCEPT ![Manifest[v].name] = status]
        /\ r.ver = [m.ver EXCEPT ![Manifest[v].name] = v]
        /\ r.tools = m.tools /\ r.services = m.services /\ r.live = m.live /\ r.cleanup = m.cleanup
        /\ r.settled = m.settled /\ Range(r.order) = Range(m.order) \union {Manifest[v].name}
    BY RecordedIs
  <2> HIDE DEF r
  <2> QED BY <2>1 DEF Listed, PluginManagers, r
<1>2. ASSUME m.st[n] # "ABSENT" PROVE Listed(Commits(m, v))
  <2> DEFINE r == Commits(m, v)
  <2>1. r.st = [m.st EXCEPT ![n] = "ACTIVE"] /\ r.order = m.order
    BY CommitsIs
  <2> HIDE DEF r
  <2> QED BY <1>2, <2>1 DEF Listed, PluginManagers, r
<1>3. Listed(CommitFails(m, v))
  <2> DEFINE r == CommitFails(m, v)
  <2>1. r.st = m.st /\ r.order = m.order
    BY CommitFailsIs
  <2> HIDE DEF r
  <2> QED BY <2>1 DEF Listed, r
<1> QED
  BY <1>1, <1>2, <1>3

\* ... also of what _deactivate leaves.
LEMMA DeactivateListed ==
  ASSUME NEW m \in Sound, Listed(m), NEW n \in Names, m.st[n] # "ABSENT"
  PROVE  Listed(Deactivate(m, n))
BY DeactivateSound, DeactivateFeeds DEF Listed

\* load(), when the commit of a version that replaces another fails.
LEMMA RollBackTidy ==
  ASSUME NEW m \in Tidy, NEW v \in Versions, NEW n, n = Manifest[v].name, NEW raising,
         m.st[n] # "ABSENT", ~Manifest[v].hookOk, CanStage(m, v, raising)
  PROVE  RollBack(m, v, raising).m \in Tidy
<1> DEFINE d == Deactivate(m, n)
           f == CommitFails(d, v)
           gone == [f EXCEPT !.settled = FALSE]
           old == m.ver[n]
<1>1. n \in Names /\ m \in PluginManagers /\ old \in VersionsOf(n) /\ old \in Versions /\ Manifest[old].name = n
      /\ Manifest[v].tools \subseteq Tools /\ m \in Sound /\ Listed(m)
  BY Manifests, VersionsApart DEF Tidy, Sound, Recording
<1>2. /\ d \in Sound /\ d.ver = m.ver /\ d.st[n] \in {"INACTIVE", "FAILED"} /\ Listed(d)
      /\ \A t \in Tools : d.tools[t] \in {m.tools[t], NoVersion}
  BY <1>1, DeactivateSound, DeactivateListed
<1> HIDE DEF d
<1>3. \A t \in Manifest[v].tools : d.tools[t] # NoVersion => Manifest[d.tools[t]].name = n
  BY <1>1, <1>2 DEF CanStage
<1>4. f \in Sound /\ f.st = d.st /\ f.ver = d.ver /\ Listed(f)
  <2>1. d \in PluginManagers
    BY <1>2 DEF Sound
  <2>2. Listed(f)
    BY <1>2, <2>1, ListedStays
  <2>3. d.ver[n] \in VersionsOf(n) /\ d.st[n] # "ACTIVE"
    BY <1>1, <1>2
  <2> QED BY <1>2, <1>3, <2>2, <2>3, CommitFailsSound
<1> HIDE DEF f
<1>5. gone \in Sound /\ gone.st = f.st /\ gone.ver = f.ver /\ gone.order = f.order /\ ~gone.settled
  BY <1>4, SettledSound
<1>6. RollBack(m, v, raising).m = IF ~CanStage(gone, old, raising) THEN gone
                                  ELSE IF Manifest[old].hookOk THEN Commits(gone, old) ELSE CommitFails(gone, old)
  BY DEF RollBack, Raised, gone, f, d, old
<1> HIDE DEF gone
<1>7. gone.st[n] \in {"INACTIVE", "FAILED"} /\ gone.ver[n] = old /\ gone \in PluginManagers /\ Listed(gone)
  BY <1>2, <1>4, <1>5 DEF Listed, Sound
<1> HIDE DEF old
<1>8. ASSUME CanStage(gone, old, raising)
      PROVE  \A t \in Manifest[old].tools : gone.tools[t] # NoVersion => Manifest[gone.tools[t]].name = n
  BY <1>1, <1>8 DEF CanStage
<1>9. n = Manifest[old].name /\ gone.ver[n] \in VersionsOf(n) /\ gone.st[n] \notin {"ACTIVE", "ABSENT"}
  BY <1>1, <1>7
<1> DEFINE last == RollBack(m, v, raising).m
<1>10. last \in Sound /\ Listed(last) /\ ~last.settled
  <2> HIDE DEF last
  <2>1. CASE ~CanStage(gone, old, raising)
    <3>1. last = gone
      BY <1>6, <2>1 DEF last
    <3> QED BY <1>5, <1>7, <3>1
  <2>2. CASE CanStage(gone, old, raising) /\ Manifest[old].hookOk
    <3>1. last = Commits(gone, old)
      BY <1>6, <2>2 DEF last
    <3>2. last \in Sound
      BY <1>1, <1>5, <1>7, <1>8, <1>9, <2>2, <3>1, CommitsSound
    <3>3. last.settled = gone.settled
      BY <1>1, <1>7, <3>1, CommitsIs
    <3>4. Listed(last)
      BY <1>1, <1>7, <1>9, <3>1, ListedStays
    <3> QED BY <1>5, <3>2, <3>3, <3>4
  <2>3. CASE CanStage(gone, old, raising) /\ ~Manifest[old].hookOk
    <3>1. last = CommitFails(gone, old)
      BY <1>6, <2>3 DEF last
    <3>2. last \in Sound
      BY <1>1, <1>5, <1>7, <1>8, <1>9, <2>3, <3>1, CommitFailsSound
    <3>3. last.settled = gone.settled
      BY <1>1, <1>7, <3>1, CommitFailsIs
    <3>4. Listed(last)
      BY <1>1, <1>7, <3>1, ListedStays
    <3> QED BY <1>5, <3>2, <3>3, <3>4
  <2> QED BY <2>1, <2>2, <2>3
<1> HIDE DEF last
<1>11. last \in Tidy
  BY <1>10 DEF Tidy, Settles
<1> QED
  BY <1>11 DEF last

\* load()
LEMMA LoadTidy ==
  ASSUME NEW m \in Tidy, NEW v \in Versions, NEW raising
  PROVE  Load(m, v, raising).m \in Tidy
<1> DEFINE n == Manifest[v].name
           replaces == m.st[n] # "ABSENT"
           without == IF replaces THEN Deactivate(m, n) ELSE m
           out == Load(m, v, raising)
<1>1. n \in Names /\ m \in PluginManagers /\ Manifest[v].tools \subseteq Tools /\ v \in VersionsOf(n)
      /\ m \in Sound /\ Listed(m) /\ Settles(m)
  BY Manifests DEF Tidy, Sound
<1>2. /\ without \in Sound /\ without.st[n] # "ACTIVE" /\ Listed(without)
      /\ \A t \in Tools : without.tools[t] \in {m.tools[t], NoVersion}
  <2>1. CASE replaces
    BY <1>1, <2>1, DeactivateSound, DeactivateListed
  <2>2. CASE ~replaces
    BY <1>1, <2>2
  <2> QED BY <2>1, <2>2
<1> HIDE DEF without
<1>3. CASE HasCycle(m, v) \/ (Satisfied(m, v) /\ ~CanStage(m, v, raising))
  <2>1. CASE replaces
    BY <1>3, <2>1 DEF Load, Raised
  <2>2. CASE ~replaces
    <3> DEFINE r == Recorded(m, v, "FAILED")
    <3>1. out.m = r
      BY <1>3, <2>2 DEF Load, Loaded
    <3>2. "FAILED" \in RecordStatuses
      BY DEF RecordStatuses
    <3>3. r \in Sound /\ Listed(r)
      BY <1>1, <2>2, <3>2, RecordedSound, ListedStays
    <3>4. /\ r.st = [m.st EXCEPT ![n] = "FAILED"] /\ r.ver = [m.ver EXCEPT ![n] = v]
          /\ r.services = m.services /\ r.settled = m.settled
      BY <1>1, <3>2, RecordedIs
    <3> HIDE DEF r
    <3>5. r.st[n] = "FAILED" /\ \A x \in Names \ {n} : r.st[x] = m.st[x] /\ r.ver[x] = m.ver[x]
      BY <1>1, <3>4 DEF PluginManagers
    <3>6. Settles(r)
      BY <1>1, <3>4, <3>5 DEF Settles, Satisfied
    <3> HIDE DEF out
    <3> QED BY <3>1, <3>3, <3>6 DEF Tidy, out
  <2> QED BY <2>1, <2>2
<1>4. CASE ~HasCycle(m, v) /\ ~Satisfied(m, v)
  <2>1. out.m = Reconcile(Recorded(without, v, "INACTIVE"), raising)
    BY <1>4 DEF Load, Loaded, without
  <2>2. "INACTIVE" \in RecordStatuses /\ without \in PluginManagers
    BY <1>2 DEF RecordStatuses, Sound
  <2>3. Recorded(without, v, "INACTIVE") \in Sound /\ Listed(Recorded(without, v, "INACTIVE"))
    BY <1>2, <2>2, RecordedSound, ListedStays
  <2> QED BY <2>1, <2>3, ReconcileTidy
<1>5. ASSUME CanStage(m, v, raising)
      PROVE  \A t \in Manifest[v].tools : without.tools[t] # NoVersion => Manifest[without.tools[t]].name = n
  BY <1>1, <1>2, <1>5 DEF CanStage
<1>6. CASE ~HasCycle(m, v) /\ Satisfied(m, v) /\ CanStage(m, v, raising) /\ Manifest[v].hookOk
  <2> DEFINE w == Recorded(without, v, "ACTIVE")
             r == Commits(w, v)
  <2>1. out.m = Reconcile(r, raising)
    BY <1>6 DEF Load, Loaded, without
  <2>2. /\ w \in PluginManagers /\ Listed(w) /\ w.st = [without.st EXCEPT ![n] = "ACTIVE"] /\ w.ver = [without.ver EXCEPT ![n] = v]
        /\ w.tools = without.tools /\ w.services = without.services /\ w.live = without.live
        /\ w.cleanup = without.cleanup /\ without \in PluginManagers
    <3>1. without \in PluginManagers /\ "ACTIVE" \in RecordStatuses
      BY <1>2 DEF Sound, RecordStatuses
    <3> QED BY <1>2, <3>1, RecordedIs, ListedStays
  <2> HIDE DEF w
  <2>3. /\ r \in PluginManagers /\ r.st = [w.st EXCEPT ![n] = "ACTIVE"]
        /\ \A t \in Tools : r.tools[t] = IF t \in Manifest[v].tools THEN v ELSE w.tools[t]
        /\ r.services = w.services \union Manifest[v].provides /\ r.live = w.live \union {v}
        /\ r.ver = w.ver /\ r.cleanup = w.cleanup /\ Listed(r)
    <3>1. w.st[n] # "ABSENT"
      BY <1>1, <2>2 DEF PluginManagers
    <3>2. w.st[Manifest[v].name] # "ABSENT"
      BY <3>1
    <3>3. Listed(Commits(w, v))
      BY <2>2, <3>2, ListedStays
    <3> HIDE DEF n
    <3>4. /\ r \in PluginManagers /\ r.st = [w.st EXCEPT ![Manifest[v].name] = "ACTIVE"]
          /\ \A t \in Tools : r.tools[t] = IF t \in Manifest[v].tools THEN v ELSE w.tools[t]
          /\ r.services = w.services \union Manifest[v].provides /\ r.live = w.live \union {v}
          /\ r.ver = w.ver /\ r.cleanup = w.cleanup
      BY <2>2, CommitsIs
    <3> QED BY <3>3, <3>4 DEF n
  <2> HIDE DEF r
  <2>4. r.st = [without.st EXCEPT ![n] = "ACTIVE"]
    BY <1>1, <2>2, <2>3 DEF PluginManagers
  <2>5. r \in Sound
    BY <1>2, <1>5, <1>6, <2>2, <2>3, <2>4, CommitSound
  <2> QED BY <2>1, <2>3, <2>5, ReconcileTidy
<1>7. CASE ~HasCycle(m, v) /\ Satisfied(m, v) /\ CanStage(m, v, raising) /\ ~Manifest[v].hookOk
  <2>1. CASE replaces
    <3>1. out = RollBack(m, v, raising)
      BY <1>7, <2>1 DEF Load
    <3> QED BY <1>7, <2>1, <3>1, RollBackTidy
  <2>2. CASE ~replaces
    <3> DEFINE w == Recorded(m, v, "FAILED")
    <3>1. out.m = Reconcile(CommitFails(w, v), raising)
      BY <1>7, <2>2 DEF Load, Loaded
    <3>2. w \in Sound /\ w.st[n] = "FAILED" /\ w.tools = m.tools
      BY <1>1, <2>2, RecordedSound
    <3>3. w.ver = [m.ver EXCEPT ![n] = v] /\ w \in PluginManagers /\ Listed(w)
      <4>1. "FAILED" \in RecordStatuses
        BY DEF RecordStatuses
      <4>2. w.ver = [m.ver EXCEPT ![n] = v] /\ w \in PluginManagers
        BY <1>1, <4>1, RecordedIs
      <4>3. Listed(w)
        BY <1>1, <4>1, ListedStays
      <4> QED BY <4>2, <4>3
    <3> HIDE DEF w
    <3>4. w.ver[n] \in VersionsOf(n)
      BY <1>1, <3>3 DEF PluginManagers
    <3>5. \A t \in Manifest[v].tools : w.tools[t] # NoVersion => Manifest[w.tools[t]].name = n
      BY <1>7, <3>2 DEF CanStage
    <3>6. CommitFails(w, v) \in Sound
      BY <1>7, <3>2, <3>4, <3>5, CommitFailsSound
    <3>7. Listed(CommitFails(w, v))
      BY <3>3, ListedStays
    <3> QED BY <3>1, <3>6, <3>7, ReconcileTidy
  <2> QED BY <2>1, <2>2
<1> QED
  BY <1>3, <1>4, <1>6, <1>7, Manifests


\* Unloading a plugin leaves the records of the others.
LEMMA RemovedNames ==
  ASSUME NEW s \in Seq(Names), NEW n
  PROVE  RemoveFirst(s, n) \in Seq(Names) /\ Range(s) \ {n} \subseteq Range(RemoveFirst(s, n))
<1> DEFINE I == {i \in 1..Len(s) : s[i] = n}
           i == Min(I)
           r == RemoveFirst(s, n)
<1>1. CASE \E k \in 1..Len(s) : s[k] = n
  <2>1. I # {} /\ I \subseteq Nat
    BY <1>1
  <2>2. r = SubSeq(s, 1, i - 1) \o SubSeq(s, i + 1, Len(s))
    BY <1>1, <2>1 DEF RemoveFirst, SelectInSeq, RemoveAt
  <2>3. i \in I
    <3> HIDE DEF I
    <3> QED BY <2>1, LeastNumber DEF Min
  <2>4. i \in 1..Len(s)
    BY <2>3
  <2> HIDE DEF i, r
  <2> DEFINE a == SubSeq(s, 1, i - 1)
             b == SubSeq(s, i + 1, Len(s))
  <2>5. /\ a \in Seq(Names) /\ Len(a) = i - 1 /\ \A k \in 1..(i - 1) : a[k] = s[k]
        /\ b \in Seq(Names) /\ Len(b) = Len(s) - i /\ \A k \in 1..(Len(s) - i) : b[k] = s[i + k]
    BY <2>4
  <2>6. s[i] = n
    BY <2>3
  <2> HIDE DEF a, b
  <2>7. /\ a \o b \in Seq(Names) /\ DOMAIN (a \o b) = 1..(Len(a) + Len(b))
        /\ \A k \in 1..Len(a) : (a \o b)[k] = a[k]
        /\ \A k \in 1..Len(b) : (a \o b)[Len(a) + k] = b[k]
    <3>1. a \in Seq(Names) /\ b \in Seq(Names)
      BY <2>5
    <3>2. a \o b \in Seq(Names) /\ DOMAIN (a \o b) = 1..(Len(a) + Len(b))
      BY <3>1
    <3>3. \A k \in 1..Len(a) : (a \o b)[k] = a[k]
      BY <3>1
    <3>4. \A k \in 1..Len(b) : (a \o b)[Len(a) + k] = b[k]
      BY <3>1
    <3> QED BY <3>2, <3>3, <3>4
  <2>8. ASSUME NEW k \in 1..Len(s), s[k] # n PROVE s[k] \in Range(a \o b)
    <3>1. k # i
      BY <2>6, <2>8
    <3>2. CASE k < i
      <4>1. k \in 1..Len(a) /\ k \in 1..(Len(a) + Len(b)) /\ k \in 1..(i - 1)
        BY <2>4, <2>5, <3>2
      <4> QED BY <2>5, <2>7, <4>1 DEF Range
    <3>3. CASE k > i
      <4>1. k - i \in 1..(Len(s) - i) /\ k - i \in 1..Len(b) /\ i + (k - i) = k
            /\ Len(a) + (k - i) \in 1..(Len(a) + Len(b))
        BY <2>4, <2>5, <3>3
      <4>2. (a \o b)[Len(a) + (k - i)] = s[k]
        BY <2>5, <2>7, <4>1
      <4> QED BY <2>7, <4>1, <4>2 DEF Range
    <3> QED BY <2>4, <3>1, <3>2, <3>3
  <2>9. Range(s) \ {n} \subseteq Range(a \o b)
    BY <2>8 DEF Range
  <2>10. r = a \o b
    BY <2>2 DEF a, b
  <2> QED BY <2>7, <2>9, <2>10 DEF r
<1>2. CASE ~\E k \in 1..Len(s) : s[k] = n
  BY <1>2 DEF RemoveFirst
<1> QED
  BY <1>1, <1>2

\* unload().
LEMMA UnloadTidy ==
  ASSUME NEW m \in Tidy, NEW n \in Names, NEW raising
  PROVE  Unload(m, n, raising) \in Tidy
<1> DEFINE w == IF m.st[n] = "ABSENT" THEN m ELSE Deactivate(m, n)
           gone == Deactivate(m, n)
           v == m.ver[n]
           r == [gone EXCEPT !.live = @ \ {v}, !.st[n] = "ABSENT", !.ver[n] = NoVersion,
                             !.order = RemoveFirst(@, n)]
           st == [w.st EXCEPT ![n] = "ABSENT"]
           ver == [w.ver EXCEPT ![n] = NoVersion]
           alive == w.live \ {v}
           order == RemoveFirst(w.order, n)
<1>1. /\ m \in PluginManagers /\ w \in Sound /\ w \in PluginManagers /\ w.st[n] # "ACTIVE" /\ w.ver = m.ver
      /\ Recording(w) /\ Whole(w) /\ NothingElse(w) /\ Recording(m) /\ Listed(w)
  <2>1. m \in Sound /\ Listed(m)
    BY DEF Tidy
  <2>2. w \in Sound /\ Listed(w) /\ w.st[n] # "ACTIVE" /\ w.ver = m.ver
    BY <2>1, DeactivateSound, DeactivateListed
  <2> QED BY <2>1, <2>2 DEF Sound
<1>2. r = [w EXCEPT !.live = alive, !.st = st, !.ver = ver, !.order = order]
  <2>1. CASE m.st[n] = "ABSENT"
    <3> DEFINE st0 == [m.st EXCEPT ![n] = "INACTIVE"]
    <3>1. gone = [m EXCEPT !.st = st0]
      BY <1>1, <2>1 DEF Deactivate, PluginManagers
    <3>2. /\ gone.live = m.live /\ gone.ver = m.ver /\ gone.order = m.order /\ gone.st = st0
          /\ [st0 EXCEPT ![n] = "ABSENT"] = [m.st EXCEPT ![n] = "ABSENT"]
      BY <1>1, <3>1 DEF PluginManagers
    <3>3. r = [gone EXCEPT !.live = m.live \ {v}, !.st = [st0 EXCEPT ![n] = "ABSENT"],
                           !.ver = [m.ver EXCEPT ![n] = NoVersion], !.order = RemoveFirst(m.order, n)]
      <4> HIDE DEF gone, st0, v
      <4> QED BY <3>2
    <3> HIDE DEF gone, st0, v, r
    <3>4. r = [m EXCEPT !.live = m.live \ {v}, !.st = [m.st EXCEPT ![n] = "ABSENT"],
                        !.ver = [m.ver EXCEPT ![n] = NoVersion], !.order = RemoveFirst(m.order, n)]
      BY <1>1, <3>1, <3>2, <3>3 DEF PluginManagers
    <3> QED BY <2>1, <3>4
  <2>2. CASE m.st[n] # "ABSENT"
    BY <1>1, <2>2 DEF PluginManagers
  <2> QED BY <2>1, <2>2
<1>3. /\ st \in [Names -> RecordStatuses] /\ ver \in [Names -> Versions \union {NoVersion}]
      /\ alive \in SUBSET Versions /\ order \in Seq(Names) /\ alive = w.live \ {v}
      /\ Range(w.order) \ {n} \subseteq Range(order)
      /\ st[n] = "ABSENT" /\ ver[n] = NoVersion
      /\ \A x \in Names \ {n} : st[x] = w.st[x] /\ ver[x] = w.ver[x]
  BY <1>1, RemovedNames DEF PluginManagers, RecordStatuses
<1>4. Unload(m, n, raising) = Reconcile(r, raising)
  BY DEF Unload
<1> HIDE DEF w, r, st, ver, alive, order, gone
<1>5. /\ r \in PluginManagers /\ r.st = st /\ r.ver = ver /\ r.live = alive /\ r.order = order
      /\ r.tools = w.tools /\ r.services = w.services /\ r.cleanup = w.cleanup
  BY <1>1, <1>2, <1>3 DEF PluginManagers
<1>6. Recording(r)
  BY <1>1, <1>3, <1>5 DEF Recording
<1>7. Whole(r)
  <2> SUFFICES ASSUME NEW x \in Names, r.st[x] = "ACTIVE"
               PROVE  /\ r.ver[x] \in r.live /\ Manifest[r.ver[x]].hookOk
                      /\ \A t \in Manifest[r.ver[x]].tools : r.tools[t] = r.ver[x]
    BY DEF Whole
  <2>1. x # n
    BY <1>3, <1>5
  <2>2. /\ w.st[x] = "ACTIVE" /\ r.ver[x] = w.ver[x] /\ w.ver[x] \in VersionsOf(x)
        /\ w.ver[x] \in w.live /\ Manifest[w.ver[x]].hookOk
        /\ \A t \in Manifest[w.ver[x]].tools : w.tools[t] = w.ver[x]
    BY <1>1, <1>3, <1>5, <2>1 DEF Recording, Whole
  <2>3. v # w.ver[x]
    <3>1. v = NoVersion \/ v \in VersionsOf(n)
      BY <1>1 DEF Recording
    <3> QED BY <2>1, <2>2, <3>1, VersionsApart
  <2> QED BY <1>3, <1>5, <2>2, <2>3
<1>8. NothingElse(r)
  <2>1. \A x \in Names : w.st[x] = "ACTIVE" => r.st[x] = "ACTIVE" /\ r.ver[x] = w.ver[x]
    BY <1>1, <1>3, <1>5
  <2> QED BY <1>1, <1>5, <2>1 DEF NothingElse
<1>9. Listed(r)
  BY <1>1, <1>3, <1>5 DEF Listed
<1> QED
  BY <1>4, <1>5, <1>6, <1>7, <1>8, <1>9, ReconcileTidy DEF Sound


\* shutdown(), as many unloads as there are records.
LEMMA ShutdownTidy ==
  ASSUME NEW m \in Tidy, NEW raising
  PROVE  LET names == m.order
             After[i \in 0..Len(names)] ==
               IF i = 0 THEN m ELSE Unload(After[i - 1], names[Len(names) + 1 - i], raising)
         IN After[Len(names)] \in Tidy
<1> DEFINE steps == Len(m.order)
           At(i) == m.order[Len(m.order) + 1 - i]
           Step(i, x) == Unload(x, At(i), raising)
           F(f) == [i \in 0..steps |-> IF i = 0 THEN m ELSE Step(i, f[i - 1])]
           N == [i \in 1..steps |-> [x \in Tidy |-> Step(i, x)]]
           after == CHOOSE f : f = F(f)
<1>1. m.order \in Seq(Names) /\ steps \in Nat
  BY DEF Tidy, Sound, PluginManagers
<1>2. \A i \in 1..steps : At(i) \in Names
  <2> SUFFICES ASSUME NEW i \in 1..steps PROVE At(i) \in Names
    OBVIOUS
  <2>1. Len(m.order) + 1 - i \in 1..Len(m.order)
    BY <1>1
  <2> QED BY <1>1, <2>1
<1> HIDE DEF At
<1>3. \A i \in 1..steps : \A x \in Tidy : Step(i, x) \in Tidy
  BY <1>2, UnloadTidy
<1> HIDE DEF Step
<1>4. N \in [1..steps -> [Tidy -> Tidy]]
  BY <1>3
<1>5. PICK g \in [0..steps -> Tidy] : g[0] = m /\ \A i \in 1..steps : g[i] = N[i][g[i - 1]]
  <2> HIDE DEF F, after, N, steps
  <2> DEFINE V == Tidy
  <2>1. m \in V /\ N \in [1..steps -> [V -> V]]
    BY <1>4
  <2> HIDE DEF V
  <2>2. N \in StepsOn(V, steps)
    BY <2>1 DEF StepsOn
  <2>3. PICK g : Unfolds(g, V, m, steps, N)
    BY <1>1, <2>1, <2>2, RecursiveFunction
  <2> QED BY <2>3 DEF V, Unfolds
<1> SUFFICES after[steps] \in Tidy
  BY DEF Step, At
<1> HIDE DEF N, steps
<1>6. g = F(g)
  <2>1. ASSUME NEW i \in 0..steps PROVE g[i] = IF i = 0 THEN m ELSE Step(i, g[i - 1])
    <3>1. CASE i = 0
      BY <1>5, <3>1
    <3>2. CASE i # 0
      <4>1. i \in 1..steps /\ g[i - 1] \in Tidy
        BY <1>1, <1>5, <3>2
      <4> QED BY <1>5, <3>2, <4>1 DEF N
    <3> QED BY <3>1, <3>2
  <2> QED BY <1>5, <2>1
<1>7. after = F(after)
  <2> HIDE DEF F
  <2> QED BY <1>6
<1> HIDE DEF after
<1>8. \A i \in 0..steps : after[i] = IF i = 0 THEN m ELSE Step(i, after[i - 1])
  BY <1>7
<1>9. \A i \in 1..steps : after[i - 1] \in Tidy => after[i] = N[i][after[i - 1]]
  BY <1>1, <1>8 DEF N
<1>10. after[0] \in Tidy
  BY <1>1, <1>8
<1>11. \A i \in 0..steps : after[i] \in Tidy
  BY <1>1, <1>4, <1>9, <1>10, RecursiveValues
<1> QED
  BY <1>1, <1>11

Sources == [Dynamic -> Versions \union {NoVersion}]
Starts == [m : Tidy, file : Sources]

\* One stored tool is loaded, or quarantined.
LEMMA LoadFileTidy ==
  ASSUME NEW s \in Starts, NEW n \in Dynamic, NEW raising
  PROVE  LoadFile(s, n, raising) \in Starts
<1>1. s = [m |-> s.m, file |-> s.file] /\ s.m \in Tidy /\ s.file \in Sources
  BY DEF Starts
<1>2. CASE s.file[n] = NoVersion
  BY <1>2 DEF LoadFile
<1>3. CASE s.file[n] # NoVersion
  <2> DEFINE out == Load(s.m, s.file[n], raising)
             kept == [s.file EXCEPT ![n] = IF out.raised \/ out.m.st[n] = "FAILED" THEN NoVersion ELSE @]
  <2>1. s.file[n] \in Versions
    BY <1>1, <1>3 DEF Sources
  <2>2. out.m \in Tidy
    BY <1>1, <2>1, LoadTidy
  <2>3. LoadFile(s, n, raising) = [m |-> out.m, file |-> kept]
    BY <1>3 DEF LoadFile
  <2> HIDE DEF out
  <2>4. kept \in Sources
    BY <1>1, <2>1 DEF Sources
  <2> QED BY <2>2, <2>3, <2>4 DEF Starts
<1> QED
  BY <1>2, <1>3

\* The self-written tools, in some order.
LEMMA DynamicSequence == SetToSeq(Dynamic) \in Seq(Dynamic)
<1>1. PICK f : f \in Bijection(1..Cardinality(Dynamic), Dynamic)
  BY PluginsAssumption, FS_CardinalityType DEF ExistsBijection
<1>2. Cardinality(Dynamic) \in Nat
  BY PluginsAssumption, FS_CardinalityType
<1>3. f \in [1..Cardinality(Dynamic) -> Dynamic] /\ IsInjective(f)
  BY <1>1 DEF Bijection, Injection, IsInjective
<1>4. SetToSeq(Dynamic) \in [1..Cardinality(Dynamic) -> Dynamic]
  BY <1>3 DEF SetToSeq
<1> QED
  BY <1>2, <1>4

\* A manager with no records.
LEMMA EmptyTidy == NoRecords \in Tidy
<1> DEFINE r == NoRecords
<1>1. r \in PluginManagers
  BY DEF NoRecords, NoTools, PluginManagers, RecordStatuses
<1>2. r.st = [n \in Names |-> "ABSENT"] /\ r.ver = [n \in Names |-> NoVersion] /\ r.tools = [t \in Tools |-> NoVersion]
      /\ r.services = {} /\ r.cleanup = {}
  BY DEF NoRecords, NoTools
<1> HIDE DEF r
<1>3. Recording(r) /\ Whole(r) /\ NothingElse(r) /\ Listed(r) /\ Settles(r)
  BY <1>2 DEF Recording, Whole, NothingElse, Listed, Settles
<1> QED
  BY <1>1, <1>3 DEF Tidy, Sound, r


\* ensure_started: the initial plugins, then the self-written tools.
LEMMA StartTidy ==
  ASSUME NEW f0 \in Sources, NEW raising
  PROVE  LET dynamic == SetToSeq(Dynamic)
             steps == Len(Initial) + Len(dynamic)
             Following(i, s) == IF i <= Len(Initial) THEN [s EXCEPT !.m = Load(@, Initial[i], raising).m]
                                ELSE LoadFile(s, dynamic[i - Len(Initial)], raising)
             After[i \in 0..steps] == IF i = 0 THEN [m |-> NoRecords, file |-> f0] ELSE Following(i, After[i - 1])
         IN After[steps] \in Starts
<1> DEFINE dynamic == SetToSeq(Dynamic)
           steps == Len(Initial) + Len(dynamic)
           base == [m |-> NoRecords, file |-> f0]
           Step(i, s) == IF i <= Len(Initial) THEN [s EXCEPT !.m = Load(s.m, Initial[i], raising).m]
                         ELSE LoadFile(s, dynamic[i - Len(Initial)], raising)
           F(f) == [i \in 0..steps |-> IF i = 0 THEN base ELSE Step(i, f[i - 1])]
           N == [i \in 1..steps |-> [s \in Starts |-> Step(i, s)]]
           after == CHOOSE f : f = F(f)
<1>1. dynamic \in Seq(Dynamic) /\ Initial \in Seq(Versions)
  BY DynamicSequence, PluginsAssumption
<1> SUFFICES after[steps] \in Starts
  OBVIOUS
<1> HIDE DEF dynamic
<1>2. steps \in Nat /\ base \in Starts
  BY <1>1, EmptyTidy DEF Starts
<1>3. ASSUME NEW i \in 1..steps, NEW s \in Starts PROVE Step(i, s) \in Starts
  <2>1. s.m \in Tidy /\ s.file \in Sources /\ s = [m |-> s.m, file |-> s.file]
    BY DEF Starts
  <2>2. CASE i <= Len(Initial)
    <3>1. Initial[i] \in Versions
      BY <1>1, <2>2
    <3>2. Load(s.m, Initial[i], raising).m \in Tidy
      BY <2>1, <3>1, LoadTidy
    <3>3. Step(i, s) = [m |-> Load(s.m, Initial[i], raising).m, file |-> s.file]
      BY <2>1, <2>2
    <3> HIDE DEF Step
    <3> QED BY <2>1, <3>2, <3>3 DEF Starts
  <2>3. CASE ~(i <= Len(Initial))
    <3>1. i - Len(Initial) \in 1..Len(dynamic)
      BY <1>1, <2>3
    <3>2. dynamic[i - Len(Initial)] \in Dynamic
      BY <1>1, <3>1
    <3>3. Step(i, s) = LoadFile(s, dynamic[i - Len(Initial)], raising)
      BY <2>3
    <3> HIDE DEF Step
    <3> QED BY <3>2, <3>3, LoadFileTidy
  <2> QED BY <2>2, <2>3
<1> HIDE DEF Step, base, steps
<1>4. N \in [1..steps -> [Starts -> Starts]]
  BY <1>3
<1> HIDE DEF N
<1>5. PICK g \in [0..steps -> Starts] : g[0] = base /\ \A i \in 1..steps : g[i] = N[i][g[i - 1]]
  <2> HIDE DEF F, after
  <2> DEFINE V == Starts
  <2>1. base \in V /\ N \in [1..steps -> [V -> V]]
    BY <1>2, <1>4
  <2> HIDE DEF V
  <2>2. N \in StepsOn(V, steps)
    BY <2>1 DEF StepsOn
  <2>3. PICK g : Unfolds(g, V, base, steps, N)
    BY <1>2, <2>1, <2>2, RecursiveFunction
  <2> QED BY <2>3 DEF V, Unfolds
<1>6. g = F(g)
  <2>1. ASSUME NEW i \in 0..steps PROVE g[i] = IF i = 0 THEN base ELSE Step(i, g[i - 1])
    <3>1. CASE i = 0
      BY <1>5, <3>1
    <3>2. CASE i # 0
      <4>1. i \in 1..steps /\ g[i - 1] \in Starts
        BY <1>2, <1>5, <3>2
      <4> QED BY <1>5, <3>2, <4>1 DEF N
    <3> QED BY <3>1, <3>2
  <2> QED BY <1>5, <2>1
<1>7. after = F(after)
  <2> HIDE DEF F
  <2> QED BY <1>6
<1> HIDE DEF after
<1>8. \A i \in 0..steps : after[i] = IF i = 0 THEN base ELSE Step(i, after[i - 1])
  BY <1>7
<1>9. \A i \in 1..steps : after[i - 1] \in Starts => after[i] = N[i][after[i - 1]]
  BY <1>2, <1>8 DEF N
<1>10. after[0] \in Starts
  BY <1>2, <1>8
<1>11. \A i \in 0..steps : after[i] \in Starts
  BY <1>2, <1>4, <1>9, <1>10, RecursiveValues
<1> QED
  BY <1>2, <1>11

\* The task of _run_sync takes away a version that is not active.
LEMMA CleanupTidy ==
  ASSUME NEW m \in Tidy, NEW v \in m.cleanup
  PROVE  [WithoutTools(m, {v}) EXCEPT !.cleanup = @ \ {v}] \in Tidy
<1> DEFINE tools == [t \in Tools |-> IF m.tools[t] \in {v} THEN NoVersion ELSE m.tools[t]]
           cleanup == m.cleanup \ {v}
           r == [WithoutTools(m, {v}) EXCEPT !.cleanup = @ \ {v}]
<1>1. m \in PluginManagers /\ Recording(m) /\ Whole(m) /\ NothingElse(m) /\ ~Manifest[v].hookOk
      /\ Listed(m) /\ Settles(m)
  BY DEF Tidy, Sound, NothingElse
<1>2. r = [m EXCEPT !.tools = tools, !.cleanup = cleanup]
  BY <1>1 DEF WithoutTools, PluginManagers
<1>3. /\ tools \in [Tools -> Versions \union {NoVersion}] /\ cleanup \in SUBSET Versions
      /\ \A t \in Tools : tools[t] = IF m.tools[t] = v THEN NoVersion ELSE m.tools[t]
      /\ cleanup = m.cleanup \ {v}
  BY <1>1 DEF PluginManagers
<1> HIDE DEF tools, cleanup, r
<1>4. /\ r \in PluginManagers /\ r.tools = tools /\ r.cleanup = cleanup /\ r.st = m.st /\ r.ver = m.ver
      /\ r.services = m.services /\ r.live = m.live /\ r.order = m.order /\ r.settled = m.settled
  BY <1>1, <1>2, <1>3 DEF PluginManagers
<1>5. Recording(r)
  BY <1>1, <1>4 DEF Recording
<1>6. Whole(r)
  <2> SUFFICES ASSUME NEW x \in Names, r.st[x] = "ACTIVE"
               PROVE  /\ r.ver[x] \in r.live /\ Manifest[r.ver[x]].hookOk
                      /\ \A t \in Manifest[r.ver[x]].tools : r.tools[t] = r.ver[x]
    BY DEF Whole
  <2>1. /\ m.ver[x] \in VersionsOf(x) /\ m.ver[x] \in m.live /\ Manifest[m.ver[x]].hookOk
        /\ \A t \in Manifest[m.ver[x]].tools : m.tools[t] = m.ver[x]
    BY <1>1, <1>4 DEF Recording, Whole
  <2>2. Manifest[m.ver[x]].tools \subseteq Tools /\ m.ver[x] # v
    BY <1>1, <2>1, VersionsApart, Manifests
  <2> QED BY <1>3, <1>4, <2>1, <2>2
<1>7. NothingElse(r)
  BY <1>1, <1>3, <1>4 DEF NothingElse
<1>8. Listed(r) /\ Settles(r)
  BY <1>1, <1>4 DEF Listed, Settles, Satisfied
<1> QED
  BY <1>4, <1>5, <1>6, <1>7, <1>8 DEF Tidy, Sound, r
----------------------------------------------------------------------------
\* A new manager, ...
LEMMA PluginsStart == PluginsInit => PluginsInv
<1> SUFFICES ASSUME PluginsInit PROVE PluginsInv
  OBVIOUS
<1>1. file \in [Dynamic -> Versions \union {NoVersion}]
  BY DEF PluginsInit
<1> QED
  BY <1>1, EmptyTidy DEF PluginsInit, PluginsInv

\* ... each operation, whole, ...
LEMMA PluginsStep == PluginsInv /\ [PluginsNext]_pluginVars => PluginsInv'
<1> SUFFICES ASSUME PluginsInv, [PluginsNext]_pluginVars PROVE PluginsInv'
  OBVIOUS
<1>1. mgr \in Tidy /\ file \in Sources
  BY DEF PluginsInv, Sources
<1> SUFFICES mgr' \in Tidy /\ file' \in Sources
  <2>1. Tidy' = Tidy
    BY DEF Tidy, Sound, PluginManagers, Recording, Whole, NothingElse, Listed, Settles, Satisfied
  <2> QED BY DEF PluginsInv, Sources
<1>2. CASE EnsureStarted
  <2>1. PICK raising \in Raising :
          LET dynamic == SetToSeq(Dynamic)
              steps == Len(Initial) + Len(dynamic)
              Following(i, s) == IF i <= Len(Initial) THEN [s EXCEPT !.m = Load(@, Initial[i], raising).m]
                                 ELSE LoadFile(s, dynamic[i - Len(Initial)], raising)
              After[i \in 0..steps] == IF i = 0 THEN [m |-> NoRecords, file |-> file] ELSE Following(i, After[i - 1])
          IN mgr' = After[steps].m /\ file' = After[steps].file
    BY <1>2 DEF EnsureStarted
  <2> DEFINE dynamic == SetToSeq(Dynamic)
             steps == Len(Initial) + Len(dynamic)
             Following(i, s) == IF i <= Len(Initial) THEN [s EXCEPT !.m = Load(@, Initial[i], raising).m]
                                ELSE LoadFile(s, dynamic[i - Len(Initial)], raising)
             After[i \in 0..steps] == IF i = 0 THEN [m |-> NoRecords, file |-> file] ELSE Following(i, After[i - 1])
             last == After[steps]
  <2>2. mgr' = last.m /\ file' = last.file
    BY <2>1
  <2>3. last \in Starts
    BY <1>1, StartTidy
  <2> HIDE DEF last
  <2> QED BY <2>2, <2>3 DEF Starts
<1>3. ASSUME NEW v \in Versions, LoadPlugin(v) PROVE mgr' \in Tidy /\ file' \in Sources
  BY <1>1, <1>3, LoadTidy DEF LoadPlugin
<1>4. ASSUME NEW n \in Names, UnloadPlugin(n) PROVE mgr' \in Tidy /\ file' \in Sources
  BY <1>1, <1>4, UnloadTidy DEF UnloadPlugin
<1>5. ASSUME NEW v \in Versions, DisposersRun(v) PROVE mgr' \in Tidy /\ file' \in Sources
  BY <1>1, <1>5, CleanupTidy DEF DisposersRun
<1>6. ASSUME NEW n \in Dynamic, NEW v \in VersionsOf(n), WriteAndRegister(v)
      PROVE  mgr' \in Tidy /\ file' \in Sources
  <2>1. v \in Versions /\ Manifest[v].name = n
    BY VersionsApart
  <2>2. PICK raising \in Raising :
          /\ mgr' = Load(mgr, v, raising).m
          /\ \E x \in {file[n], v} : file' = [file EXCEPT ![n] = x]
    BY <1>6, <2>1 DEF WriteAndRegister
  <2>3. mgr' \in Tidy
    BY <1>1, <2>1, <2>2, LoadTidy
  <2> QED BY <1>1, <2>1, <2>2, <2>3 DEF Sources
<1>7. CASE Crash
  <2>1. mgr' \in Tidy
    BY <1>7, EmptyTidy DEF Crash
  <2>2. file' = file \/ \E n \in Dynamic : \E v \in VersionsOf(n) : file' = [file EXCEPT ![n] = v]
    BY <1>7 DEF Crash
  <2>3. file' \in Sources
    BY <1>1, <2>2, VersionsApart DEF Sources
  <2> QED BY <2>1, <2>3
<1>8. CASE Shutdown
  <2>1. PICK raising \in Raising :
          LET names == mgr.order
              After[i \in 0..Len(names)] ==
                IF i = 0 THEN mgr ELSE Unload(After[i - 1], names[Len(names) + 1 - i], raising)
          IN mgr' = After[Len(names)]
    BY <1>8 DEF Shutdown
  <2>2. mgr' \in Tidy
    BY <1>1, <2>1, ShutdownTidy
  <2> QED BY <1>1, <1>8, <2>2 DEF Shutdown
<1>9. CASE UNCHANGED pluginVars
  BY <1>1, <1>9 DEF pluginVars
<1> QED
  BY <1>2, <1>3, <1>4, <1>5, <1>6, <1>7, <1>8, <1>9 DEF PluginsNext

\* ... and what it comes to.
LEMMA PluginsInvImplies == PluginsInv => NothingLeftBehind /\ Reconciled
<1> SUFFICES ASSUME PluginsInv PROVE NothingLeftBehind /\ Reconciled
  OBVIOUS
<1>1. Whole(mgr) /\ NothingElse(mgr) /\ Settles(mgr)
  BY DEF PluginsInv, Tidy, Sound
<1>2. NothingLeftBehind
  BY <1>1 DEF NothingLeftBehind, ActiveIn, Whole, NothingElse
<1>3. Reconciled
  BY <1>1 DEF Reconciled, Settles
<1> QED
  BY <1>2, <1>3

\* Whatever is loaded, fails to commit, is rolled back, unloaded or cut off by a crash, for any
\* manifests and versions: the registry, the services and the resources are those of the active
\* records, and of versions whose cleanup is still to run (NothingLeftBehind).
THEOREM PluginsCorrect == PluginsSpec => []NothingLeftBehind
<1>1. PluginsSpec => []PluginsInv
  BY PluginsStart, PluginsStep, PTL DEF PluginsSpec
<1> QED
  BY <1>1, PluginsInvImplies, PTL

\* After every load or unload that reached _reconcile, for any manifests and whichever register()
\* raises: no active plugin lacks a service it requires and none waits for services that are all
\* there.  As many passes as there are records and two more suffice (Reconciled).
THEOREM ReconciledCorrect == PluginsSpec => []Reconciled
<1>1. PluginsSpec => []PluginsInv
  BY PluginsStart, PluginsStep, PTL DEF PluginsSpec
<1> QED
  BY <1>1, PluginsInvImplies, PTL
=============================================================================
