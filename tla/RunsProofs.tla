----------------------------- MODULE RunsProofs -----------------------------
(***************************************************************************)
(* Proofs about the run manager, for any number of processes and sessions, *)
(* servers or not, over any crashes, restarts and cancellations.           *)
(***************************************************************************)
EXTENDS Runs, FiniteSetTheorems, TLAPS

\* The states of a task that has not written its session's row yet.
Unsaved == {"created", "running", "finishing", "finished"}

LEMMA DerivedRow == \A o \in Ends \union {"cancelled"} : Derived(o) \in Rows
BY DEF Derived, Ends, Rows, Row, Final

\* The tasks' outcomes: what is known of out and logged at each place.
OutInv ==
  \A p \in Procs, s \in Sessions :
    /\ at[p][s] \in {"finishing", "finished"} => out[p][s] \in Ends \union {"cancelled"}
    /\ at[p][s] = "finished" => logged[s] = out[p][s]

\* A session has one task in its life, and none while it is pending.
TaskInv ==
  \A s \in Sessions :
    /\ \A p, q \in Procs : at[p][s] # "none" /\ at[q][s] # "none" => p = q
    /\ row[s].status = "pending" => \A p \in Procs : at[p][s] = "none"

\* A final row is written last, unless by another process' recovery: no task is left to
\* write it again or to change the log, which says of a success that it is one.
Concluded(r) == r.status \in Final /\ r.outcome # "crashed"

RowInv ==
  \A s \in Sessions :
    /\ row[s].status = "success" => Concluded(row[s]) /\ logged[s] = "completed"
    /\ Concluded(row[s]) => \A p \in Procs : at[p][s] \notin Unsaved

Inv == TypeOK /\ OutInv /\ TaskInv /\ RowInv

LEMMA InvInit == Init => Inv
BY DEF Init, Inv, TypeOK, OutInv, TaskInv, RowInv, Row, Rows, Final, Concluded

\* A function of process and session, changed at one place.
LEMMA UpdateType ==
  ASSUME NEW S, NEW f \in [Procs -> [Sessions -> S]],
         NEW p \in Procs, NEW s \in Sessions, NEW v \in S
  PROVE  [f EXCEPT ![p][s] = v] \in [Procs -> [Sessions -> S]]
OBVIOUS

LEMMA HeardType ==
  ASSUME TypeOK, NEW p \in Procs, NEW s \in Sessions, NEW place, Heard(p, s, place)
  PROVE  cancel' \in [Procs -> [Sessions -> {"none", "called", "heard"}]]
<1>1. cancel \in [Procs -> [Sessions -> {"none", "called", "heard"}]]
  BY DEF TypeOK
<1>2. cancel' = [cancel EXCEPT ![p][s] = "heard"]
  BY DEF Heard
<1> QED BY <1>1, <1>2

\* Moving a task and closing its buffer keep the types; so does a final row.
LEMMA CloseType ==
  ASSUME TypeOK, NEW p \in Procs, NEW s \in Sessions, Close(p, s)
  PROVE  /\ at' \in [Procs -> [Sessions -> Live \union {"none", "done"}]]
         /\ buffer' \in [Procs -> [Sessions -> {"none", "open", "closed"}]]
<1>1. CASE Goto(p, s, "done") /\ buffer' = [buffer EXCEPT ![p][s] = "closed"]
  BY <1>1 DEF TypeOK, Goto
<1>2. CASE Goto(p, s, "closing") /\ UNCHANGED buffer
  BY <1>2 DEF TypeOK, Goto, Live
<1> QED BY <1>1, <1>2 DEF Close

LEMMA FinaliseType ==
  ASSUME TypeOK, NEW s \in Sessions, NEW r \in Rows, Finalise(s, r)
  PROVE  row' \in [Sessions -> Rows]
BY DEF TypeOK, Finalise

LEMMA FailureRows == Row("failure", "error") \in Rows /\ Row("failure", "cancelled") \in Rows
BY DEF Row, Rows, Final

\* Every step keeps the types.
LEMMA TypeStep == TypeOK /\ OutInv /\ [Next]_vars => TypeOK'
<1> SUFFICES ASSUME TypeOK, OutInv, [Next]_vars PROVE TypeOK'
  OBVIOUS
<1> USE DEF TypeOK
<1>1. CASE UNCHANGED vars
  BY <1>1 DEF vars
<1>2. ASSUME NEW p \in Procs, NEW s \in Sessions, Start(p, s) PROVE TypeOK'
  <2>1. row'[s] \in Rows
    <3>1. row'[s] = [row[s] EXCEPT !.status = "running"] /\ row[s] \in Rows /\ row[s].status = "pending"
      BY <1>2 DEF Start
    <3> HIDE DEF TypeOK
    <3>2. row[s] \in [status : {"pending", "running"}, outcome : {"none"}]
      BY <3>1 DEF Rows, Final
    <3>3. row'[s] \in [status : {"pending", "running"}, outcome : {"none"}]
      BY <3>1, <3>2
    <3> QED BY <3>3 DEF Rows
  <2>2. row' \in [Sessions -> Rows]
    BY <1>2, <2>1 DEF Start
  <2>3. /\ at' \in [Procs -> [Sessions -> Live \union {"none", "done"}]]
        /\ buffer' \in [Procs -> [Sessions -> {"none", "open", "closed"}]]
    BY <1>2 DEF Start, Goto, Live
  <2> QED BY <1>2, <2>2, <2>3 DEF Start
<1>3. ASSUME NEW p \in Procs, NEW s \in Sessions, Reject(p, s) PROVE TypeOK'
  BY <1>3 DEF Reject, Finalise, Row, Rows, Final
<1>4. ASSUME NEW p \in Procs, NEW s \in Sessions, Cancel(p, s) PROVE TypeOK'
  BY <1>4 DEF Cancel
<1>5. ASSUME NEW p \in Procs, NEW s \in Sessions, TaskStep(p, s) PROVE TypeOK'
  <2>1. CASE Begin(p, s)
    <3>1. CASE Goto(p, s, "running") /\ UNCHANGED <<row, buffer, lost>>
      BY <2>1, <3>1 DEF Begin, Goto, Live
    <3>2. CASE Finalise(s, Row("failure", "error")) /\ Close(p, s)
      BY <2>1, <3>2, CloseType, FinaliseType, FailureRows DEF Begin
    <3> QED BY <2>1, <3>1, <3>2 DEF Begin
  <2>2. ASSUME NEW o \in Ends, End(p, s, o) PROVE TypeOK'
    BY <2>2 DEF End, Goto, Live
  <2>3. CASE LogOutcome(p, s)
    BY <2>3 DEF LogOutcome, Undisturbed, OutInv, Goto, Live
  <2>4. CASE Save(p, s)
    <3>1. Derived(out[p][s]) \in Rows
      BY <2>4, DerivedRow DEF Save, Undisturbed, OutInv
    <3> QED BY <2>4, <3>1, CloseType, FinaliseType DEF Save
  <2>5. CASE Fail(p, s)
    BY <2>5, CloseType, FinaliseType, FailureRows DEF Fail
  <2>6. CASE Closed(p, s)
    BY <2>6 DEF Closed, Goto, Live
  <2>7. CASE CancelledUnstarted(p, s) \/ CancelledRunning(p, s) \/ CancelledClosing(p, s)
    <3>0. cancel' \in [Procs -> [Sessions -> {"none", "called", "heard"}]]
      BY <2>7, HeardType DEF CancelledUnstarted, CancelledRunning, CancelledClosing
    <3>1. at' \in [Procs -> [Sessions -> Live \union {"none", "done"}]]
      <4>1. Goto(p, s, "done") \/ Goto(p, s, "finishing")
        BY <2>7 DEF CancelledUnstarted, CancelledRunning, CancelledClosing
      <4>2. {"done", "finishing"} \subseteq Live \union {"none", "done"}
        BY DEF Live
      <4>3. at' = [at EXCEPT ![p][s] = "done"] \/ at' = [at EXCEPT ![p][s] = "finishing"]
        BY <4>1 DEF Goto
      <4>4. at \in [Procs -> [Sessions -> Live \union {"none", "done"}]]
        OBVIOUS
      <4>5. /\ [at EXCEPT ![p][s] = "done"] \in [Procs -> [Sessions -> Live \union {"none", "done"}]]
            /\ [at EXCEPT ![p][s] = "finishing"] \in [Procs -> [Sessions -> Live \union {"none", "done"}]]
        <5> HIDE DEF TypeOK
        <5> QED BY <4>2, <4>4, UpdateType
      <4> QED BY <4>3, <4>5
    <3>2. out' \in [Procs -> [Sessions -> Ends \union {"none", "cancelled"}]]
      <4>1. out' = out \/ out' = [out EXCEPT ![p][s] = "cancelled"]
        BY <2>7 DEF CancelledUnstarted, CancelledRunning, CancelledClosing
      <4>2. out \in [Procs -> [Sessions -> Ends \union {"none", "cancelled"}]]
        OBVIOUS
      <4>3. [out EXCEPT ![p][s] = "cancelled"] \in [Procs -> [Sessions -> Ends \union {"none", "cancelled"}]]
        <5>1. "cancelled" \in Ends \union {"none", "cancelled"}
          OBVIOUS
        <5> HIDE DEF TypeOK
        <5> QED BY <4>2, <5>1, UpdateType
      <4> QED BY <4>1, <4>2, <4>3
    <3> QED BY <2>7, <3>0, <3>1, <3>2 DEF CancelledUnstarted, CancelledRunning, CancelledClosing
  <2>8. CASE CancelledLate(p, s)
    <3>1. cancel' \in [Procs -> [Sessions -> {"none", "called", "heard"}]]
      BY <2>8, HeardType DEF CancelledLate
    <3> QED BY <2>8, <3>1, CloseType, FinaliseType, FailureRows DEF CancelledLate
  <2> QED BY <1>5, <2>1, <2>2, <2>3, <2>4, <2>5, <2>6, <2>7, <2>8 DEF TaskStep
<1>6. ASSUME NEW p \in Procs, Crash(p) PROVE TypeOK'
  BY <1>6 DEF Crash
<1>7. ASSUME NEW p \in Procs, Restart(p) PROVE TypeOK'
  <2>1. Recover \in [Sessions -> Rows]
    BY DEF Recover, Row, Rows, Final
  <2> QED BY <1>7, <2>1 DEF Restart
<1> QED BY <1>1, <1>2, <1>3, <1>4, <1>5, <1>6, <1>7 DEF Next

\* A step of a task: it is the session's only task, and moves on; the row stays what it
\* was or becomes final; success needs a logged completion; the log changes only when
\* the outcome is appended.
LEMMA TaskStepShape ==
  ASSUME TypeOK, OutInv, TaskInv, NEW p \in Procs, NEW s \in Sessions, TaskStep(p, s)
  PROVE  /\ at[p][s] # "none"
         /\ \E place \in {"running", "finishing", "finished", "closing", "done"} :
              at' = [at EXCEPT ![p][s] = place]
         /\ \A t \in Sessions : t # s => row'[t] = row[t] /\ logged'[t] = logged[t]
         /\ row'[s].status # "pending"
         /\ row'[s] = row[s] \/ (at[p][s] \in Unsaved /\ at'[p][s] \notin Unsaved)
         /\ row'[s] # row[s] /\ row'[s].status = "success" =>
              row'[s].outcome = "completed" /\ logged'[s] = "completed"
         /\ at[p][s] \notin Unsaved => at'[p][s] \notin Unsaved
         /\ logged'[s] # logged[s] => at[p][s] = "finishing"
         /\ at'[p][s] \in {"finishing", "finished"} => out'[p][s] \in Ends \union {"cancelled"}
         /\ at'[p][s] = "finished" => logged'[s] = out'[p][s]
         /\ \A q \in Procs, t \in Sessions : q # p \/ t # s => out'[q][t] = out[q][t]
<1> USE DEF TypeOK, Unsaved
<1>0. at[p][s] # "none" => row[s].status # "pending"
  BY DEF TaskInv
<1>1. CASE Begin(p, s)
  BY <1>0, <1>1 DEF Begin, Undisturbed, Goto, Finalise, Close, Row
<1>2. ASSUME NEW o \in Ends, End(p, s, o) PROVE at[p][s] # "none" /\ out' = [out EXCEPT ![p][s] = o]
             /\ at' = [at EXCEPT ![p][s] = "finishing"] /\ at[p][s] = "running" /\ UNCHANGED <<row, logged>>
  BY <1>2 DEF End, Undisturbed, Goto
<1>3. CASE LogOutcome(p, s)
  BY <1>0, <1>3 DEF LogOutcome, Undisturbed, Goto, OutInv
<1>4. CASE Save(p, s)
  <2>1. /\ logged[s] = out[p][s]
        /\ out[p][s] \in Ends \union {"cancelled"}
        /\ at[p][s] = "finished"
    BY <1>4 DEF Save, Undisturbed, OutInv
  <2>2. /\ Derived(out[p][s]).status \in Final
        /\ Derived(out[p][s]).status = "success" =>
             out[p][s] = "completed" /\ Derived(out[p][s]).outcome = "completed"
    BY <2>1 DEF Derived, Row, Final, Ends
  <2> QED BY <1>4, <2>1, <2>2 DEF Save, Goto, Finalise, Close, Final
<1>5. CASE Fail(p, s)
  BY <1>5 DEF Fail, Undisturbed, Goto, Finalise, Close, Row
<1>6. CASE Closed(p, s)
  BY <1>0, <1>6 DEF Closed, Undisturbed, Goto
<1>7. CASE CancelledUnstarted(p, s) \/ CancelledRunning(p, s) \/ CancelledClosing(p, s)
  BY <1>0, <1>7 DEF CancelledUnstarted, CancelledRunning, CancelledClosing, Heard, Goto
<1>8. CASE CancelledLate(p, s)
  BY <1>8 DEF CancelledLate, Heard, Goto, Finalise, Close, Row
<1>9. CASE \E o \in Ends : End(p, s, o)
  BY <1>0, <1>2, <1>9
<1> QED BY <1>1, <1>3, <1>4, <1>5, <1>6, <1>7, <1>8, <1>9 DEF TaskStep

LEMMA InvStep == Inv /\ [Next]_vars => Inv'
<1> SUFFICES ASSUME Inv, [Next]_vars PROVE Inv'
  OBVIOUS
<1>0. TypeOK' /\ TypeOK /\ OutInv /\ TaskInv /\ RowInv
  BY TypeStep DEF Inv
<1> USE DEF TypeOK
<1>1. CASE UNCHANGED vars
  BY <1>0, <1>1 DEF Inv, OutInv, TaskInv, RowInv, vars
<1>2. ASSUME NEW p \in Procs, NEW s \in Sessions, Start(p, s) PROVE Inv'
  <2>1. /\ \A q \in Procs : at[q][s] = "none"
        /\ row[s].status = "pending"
        /\ row'[s].status = "running"
        /\ \A t \in Sessions : t # s => row'[t] = row[t]
        /\ at' = [at EXCEPT ![p][s] = "created"]
        /\ UNCHANGED <<logged, out>>
    BY <1>0, <1>2 DEF Start, Goto, TaskInv, Rows
  <2>2. OutInv'
    BY <1>0, <2>1 DEF OutInv
  <2>3. TaskInv'
    BY <1>0, <2>1 DEF TaskInv
  <2>4. RowInv'
    <3>1. ~Concluded(row'[s]) /\ row'[s].status # "success"
      BY <2>1 DEF Concluded, Final
    <3>2. \A t \in Sessions : t # s => \A q \in Procs : at'[q][t] = at[q][t]
      BY <2>1
    <3> QED BY <1>0, <2>1, <3>1, <3>2 DEF RowInv
  <2> QED BY <1>0, <2>2, <2>3, <2>4 DEF Inv
<1>3. ASSUME NEW p \in Procs, NEW s \in Sessions, Reject(p, s) PROVE Inv'
  <2>1. /\ \A q \in Procs : at[q][s] = "none"
        /\ row'[s].status = "failure"
        /\ \A t \in Sessions : t # s => row'[t] = row[t]
        /\ UNCHANGED <<at, logged, out>>
    BY <1>0, <1>3 DEF Reject, Finalise, Row, TaskInv
  <2>2. OutInv'
    BY <1>0, <2>1 DEF OutInv
  <2>4. TaskInv'
    <3>1. ASSUME NEW t \in Sessions
          PROVE  row'[t].status = "pending" => row[t].status = "pending"
      BY <2>1
    <3> QED BY <1>0, <2>1, <3>1 DEF TaskInv
  <2>3. RowInv'
    BY <1>0, <2>1 DEF RowInv, Unsaved
  <2> QED BY <1>0, <2>2, <2>3, <2>4 DEF Inv
<1>4. ASSUME NEW p \in Procs, NEW s \in Sessions, Cancel(p, s) PROVE Inv'
  BY <1>0, <1>4 DEF Inv, Cancel, OutInv, TaskInv, RowInv
<1>5. ASSUME NEW p \in Procs, NEW s \in Sessions, TaskStep(p, s) PROVE Inv'
  <2>1. /\ at[p][s] # "none"
        /\ \A t \in Sessions : t # s => row'[t] = row[t] /\ logged'[t] = logged[t]
        /\ row'[s].status # "pending"
        /\ row'[s] = row[s] \/ (at[p][s] \in Unsaved /\ at'[p][s] \notin Unsaved)
        /\ row'[s] # row[s] /\ row'[s].status = "success" =>
             row'[s].outcome = "completed" /\ logged'[s] = "completed"
        /\ at[p][s] \notin Unsaved => at'[p][s] \notin Unsaved
        /\ logged'[s] # logged[s] => at[p][s] = "finishing"
        /\ at'[p][s] \in {"finishing", "finished"} => out'[p][s] \in Ends \union {"cancelled"}
        /\ at'[p][s] = "finished" => logged'[s] = out'[p][s]
        /\ \A q \in Procs, t \in Sessions : q # p \/ t # s => out'[q][t] = out[q][t]
    BY <1>0, <1>5, TaskStepShape
  <2>2. PICK place \in {"running", "finishing", "finished", "closing", "done"} :
          at' = [at EXCEPT ![p][s] = place]
    BY <1>0, <1>5, TaskStepShape
  <2>3. /\ \A q \in Procs, t \in Sessions : q # p \/ t # s => at'[q][t] = at[q][t]
        /\ \A q \in Procs : q # p => at[q][s] = "none"
    BY <1>0, <2>1, <2>2 DEF TaskInv
  <2>4. OutInv'
    <3>1. ASSUME NEW q \in Procs, NEW t \in Sessions
          PROVE  /\ at'[q][t] \in {"finishing", "finished"} => out'[q][t] \in Ends \union {"cancelled"}
                 /\ at'[q][t] = "finished" => logged'[t] = out'[q][t]
      <4>1. CASE q = p /\ t = s
        BY <2>1, <4>1
      <4>2. CASE q # p /\ t = s
        <5>1. at'[q][t] = "none"
          BY <2>3, <4>2
        <5> QED BY <5>1
      <4>3. CASE t # s
        <5>1. at'[q][t] = at[q][t] /\ out'[q][t] = out[q][t] /\ logged'[t] = logged[t]
          BY <2>1, <2>3, <4>3
        <5> QED BY <1>0, <5>1 DEF OutInv
      <4> QED BY <4>1, <4>2, <4>3
    <3> QED BY <3>1 DEF OutInv
  <2>5. TaskInv'
    <3>1. ASSUME NEW t \in Sessions
          PROVE  /\ \A q, r \in Procs : at'[q][t] # "none" /\ at'[r][t] # "none" => q = r
                 /\ row'[t].status = "pending" => \A q \in Procs : at'[q][t] = "none"
      <4>1. CASE t = s
        BY <2>1, <2>3, <4>1
      <4>2. CASE t # s
        <5>1. row'[t] = row[t] /\ \A q \in Procs : at'[q][t] = at[q][t]
          BY <2>1, <2>3, <4>2
        <5> QED BY <1>0, <5>1 DEF TaskInv
      <4> QED BY <4>1, <4>2
    <3> QED BY <3>1 DEF TaskInv
  <2>6. RowInv'
    <3>1. ASSUME NEW t \in Sessions, t # s
          PROVE  /\ row'[t].status = "success" => Concluded(row'[t]) /\ logged'[t] = "completed"
                 /\ Concluded(row'[t]) => \A q \in Procs : at'[q][t] \notin Unsaved
      BY <1>0, <2>1, <2>3, <3>1 DEF RowInv
    <3>2. CASE row'[s] = row[s]
      <4>1. /\ Concluded(row[s]) => at[p][s] \notin Unsaved
            /\ row[s].status = "success" => Concluded(row[s]) /\ logged[s] = "completed"
        BY <1>0 DEF RowInv
      <4>2. at[p][s] \notin Unsaved => logged'[s] = logged[s] /\ at'[p][s] \notin Unsaved
        BY <2>1 DEF Unsaved
      <4>3. /\ row'[s].status = "success" => Concluded(row'[s]) /\ logged'[s] = "completed"
            /\ Concluded(row'[s]) => at'[p][s] \notin Unsaved
        BY <3>2, <4>1, <4>2
      <4> QED BY <2>3, <3>1, <4>3 DEF RowInv, Unsaved
    <3>3. CASE row'[s] # row[s]
      <4>1. at'[p][s] \notin Unsaved
        BY <2>1, <3>3
      <4>2. row'[s].status = "success" => Concluded(row'[s]) /\ logged'[s] = "completed"
        BY <2>1, <3>3 DEF Concluded, Final
      <4> QED BY <2>3, <3>1, <4>1, <4>2 DEF RowInv, Unsaved
    <3> QED BY <3>2, <3>3
  <2> QED BY <1>0, <2>4, <2>5, <2>6 DEF Inv
<1>6. ASSUME NEW p \in Procs, Crash(p) PROVE Inv'
  <2>1. ASSUME NEW q \in Procs, NEW s \in Sessions
        PROVE  at'[q][s] = "none" \/ (at'[q][s] = at[q][s] /\ out'[q][s] = out[q][s])
    <3>1. CASE q = p
      <4>1. at' = [at EXCEPT ![p] = [t \in Sessions |-> "none"]]
        BY <1>6 DEF Crash
      <4>2. at'[p] = [t \in Sessions |-> "none"]
        BY <1>0, <4>1
      <4> QED BY <3>1, <4>2
    <3>2. CASE q # p
      BY <1>6, <3>2 DEF Crash
    <3> QED BY <3>1, <3>2
  <2>2. UNCHANGED <<row, logged>>
    BY <1>6 DEF Crash
  <2>3. OutInv'
    <3> SUFFICES ASSUME NEW q \in Procs, NEW s \in Sessions
                 PROVE  /\ at'[q][s] \in {"finishing", "finished"} => out'[q][s] \in Ends \union {"cancelled"}
                        /\ at'[q][s] = "finished" => logged'[s] = out'[q][s]
      BY DEF OutInv
    <3>1. /\ at[q][s] \in {"finishing", "finished"} => out[q][s] \in Ends \union {"cancelled"}
          /\ at[q][s] = "finished" => logged[s] = out[q][s]
      BY <1>0 DEF OutInv
    <3> HIDE DEF TypeOK
    <3> QED BY <2>1, <2>2, <3>1
  <2>4. TaskInv'
    BY <1>0, <2>1, <2>2 DEF TaskInv
  <2>5. RowInv'
    <3>1. \A q \in Procs, s \in Sessions : at[q][s] \notin Unsaved => at'[q][s] \notin Unsaved
      BY <2>1 DEF Unsaved
    <3> QED BY <1>0, <2>2, <3>1 DEF RowInv
  <2> QED BY <1>0, <2>3, <2>4, <2>5 DEF Inv
<1>7. ASSUME NEW p \in Procs, Restart(p) PROVE Inv'
  <2>1. /\ \A s \in Sessions : row'[s] = row[s] \/ row'[s] = Row("failure", "crashed")
        /\ UNCHANGED <<logged, at, out>>
    BY <1>7 DEF Restart, Recover
  <2>2. OutInv'
    BY <1>0, <2>1 DEF OutInv
  <2>3. ASSUME NEW s \in Sessions
        PROVE  row'[s] = row[s] \/ (row'[s].status = "failure" /\ row'[s].outcome = "crashed")
    BY <2>1 DEF Row
  <2>4. TaskInv'
    BY <1>0, <2>1, <2>3 DEF TaskInv
  <2>5. RowInv'
    <3>1. ASSUME NEW s \in Sessions
          PROVE  /\ row'[s].status = "success" => Concluded(row'[s]) /\ logged'[s] = "completed"
                 /\ Concluded(row'[s]) => \A q \in Procs : at'[q][s] \notin Unsaved
      <4>1. CASE row'[s] = row[s]
        BY <1>0, <2>1, <4>1 DEF RowInv
      <4>2. CASE row'[s].status = "failure" /\ row'[s].outcome = "crashed"
        BY <4>2 DEF Concluded
      <4> QED BY <2>3, <4>1, <4>2
    <3> QED BY <3>1 DEF RowInv
  <2> QED BY <1>0, <2>2, <2>4, <2>5 DEF Inv
<1> QED BY <1>1, <1>2, <1>3, <1>4, <1>5, <1>6, <1>7 DEF Next

LEMMA InvCorrect == Spec => []Inv
BY InvInit, InvStep, PTL DEF Spec

\* The state of every session and task keeps its type.
THEOREM TypeCorrect == Spec => []TypeOK
<1>1. Inv => TypeOK
  BY DEF Inv
<1> QED BY InvCorrect, <1>1, PTL

\* "Claims a pending session atomically" (core/runs.py): however many processes start a
\* session, at most one task runs it, and a session that runs or ran is not pending.
THEOREM OneRunnerCorrect == Spec => []OneRunner
<1>1. Inv => OneRunner
  <2> SUFFICES ASSUME Inv, NEW s \in Sessions
               PROVE  /\ Cardinality({p \in Procs : at[p][s] \in Live}) <= 1
                      /\ row[s].status = "pending" => \A p \in Procs : at[p][s] = "none"
    BY DEF OneRunner
  <2> DEFINE L == {p \in Procs : at[p][s] \in Live}
  <2>1. CASE L = {}
    <3>1. Cardinality(L) = 0
      BY <2>1, FS_EmptySet
    <3> QED BY <3>1 DEF Inv, TaskInv
  <2>2. CASE L # {}
    <3>1. PICK p \in L : TRUE
      BY <2>2
    <3>2. L = {p}
      BY <3>1 DEF Inv, TaskInv, Live
    <3>3. Cardinality(L) = 1
      BY <3>2, FS_Singleton
    <3> QED BY <3>3 DEF Inv, TaskInv
  <2> QED BY <2>1, <2>2
<1> QED BY InvCorrect, <1>1, PTL

\* "success only when the run completed AND its verification (if any) passed"
\* (core/receipts.py): a row says success only when the session's log does.
THEOREM SuccessCorrect == Spec => []SuccessIsLogged
<1>1. Inv => SuccessIsLogged
  BY DEF Inv, RowInv, SuccessIsLogged
<1> QED BY InvCorrect, <1>1, PTL

\* A final row stands, whoever starts, cancels, rejects or recovers what: only one that a
\* recovery declared crashed while its task still ran can be written again.
THEOREM FinalStandsCorrect == Spec => FinalStands
<1>1. Inv /\ [Next]_vars =>
        [\A s \in Sessions :
           row[s].status \in Final /\ row[s].outcome # "crashed" => row'[s] = row[s]]_vars
  <2> SUFFICES ASSUME Inv, Next, NEW s \in Sessions, Concluded(row[s]) PROVE row'[s] = row[s]
    BY DEF Concluded
  <2>1. /\ row[s].status \in Final
        /\ \A p \in Procs : at[p][s] \notin Unsaved
        /\ row \in [Sessions -> Rows]
    BY DEF Inv, RowInv, Concluded, TypeOK
  <2>2. ASSUME NEW p \in Procs, NEW t \in Sessions, Start(p, t) \/ Reject(p, t) PROVE row'[s] = row[s]
    BY <2>1, <2>2 DEF Start, Reject, Finalise, Final
  <2>3. ASSUME NEW p \in Procs, NEW t \in Sessions, TaskStep(p, t) PROVE row'[s] = row[s]
    <3>1. row'[t] = row[t] \/ at[p][t] \in Unsaved
      BY <2>3, TaskStepShape DEF Inv
    <3>2. t # s => row'[s] = row[s]
      BY <2>3, TaskStepShape DEF Inv
    <3> QED BY <2>1, <3>1, <3>2
  <2>4. ASSUME NEW p \in Procs, Restart(p) PROVE row'[s] = row[s]
    BY <2>1, <2>4 DEF Restart, Recover, Final
  <2>5. ASSUME NEW p \in Procs, Crash(p) \/ \E t \in Sessions : Cancel(p, t) PROVE row'[s] = row[s]
    BY <2>5 DEF Crash, Cancel
  <2> QED BY <2>2, <2>3, <2>4, <2>5 DEF Next
<1> QED BY InvCorrect, <1>1, PTL DEF Spec, FinalStands

\* A task that is closing its buffer has written the row, which no longer says running.
ClosingInv == \A p \in Procs, s \in Sessions : at[p][s] = "closing" => row[s].status \in Final

LeftInv == Inv /\ ClosingInv /\ RunningIsRun /\ StreamsEnd

\* A step of a task, for who waits for its end: it goes on living, or ends having been
\* cancelled, or ends with a row that is final and, unless it was cancelled, a closed buffer.
LEMMA TaskStepEnds ==
  ASSUME TypeOK, ClosingInv, NEW p \in Procs, NEW s \in Sessions, TaskStep(p, s)
  PROVE  /\ at'[p][s] \in Live \union {"done"}
         /\ at'[p][s] = "closing" => row'[s].status \in Final
         /\ at'[p][s] = "done" => cancel'[p][s] = "heard" \/ row'[s].status \in Final
         /\ at'[p][s] = "done" /\ cancel'[p][s] = "none" => buffer'[p][s] = "closed"
         /\ row'[s] # row[s] => row'[s].status \in Final
         /\ \A q \in Procs, t \in Sessions : q # p \/ t # s =>
              at'[q][t] = at[q][t] /\ cancel'[q][t] = cancel[q][t] /\ buffer'[q][t] = buffer[q][t]
         /\ \A t \in Sessions : t # s => row'[t] = row[t]
         /\ UNCHANGED lost
<1> USE DEF TypeOK
<1>1. CASE Begin(p, s)
  BY <1>1 DEF Begin, Undisturbed, Goto, Finalise, Close, Row, Final, Live
<1>2. CASE \E o \in Ends : End(p, s, o)
  BY <1>2 DEF End, Undisturbed, Goto, Live
<1>3. CASE LogOutcome(p, s)
  BY <1>3 DEF LogOutcome, Undisturbed, Goto, Live
<1>4. CASE Save(p, s) \/ Fail(p, s)
  <2>1. Derived(out[p][s]).status \in Final /\ Row("failure", "error").status \in Final
    BY DEF Derived, Row, Final
  <2>2. /\ row' = [row EXCEPT ![s] = Derived(out[p][s])] \/ row' = [row EXCEPT ![s] = Row("failure", "error")]
        /\ Close(p, s) /\ UNCHANGED <<cancel, lost>>
    BY <1>4 DEF Save, Fail, Finalise
  <2>3. row'[s].status \in Final /\ \A t \in Sessions : t # s => row'[t] = row[t]
    BY <2>1, <2>2
  <2> QED
    BY <2>2, <2>3 DEF Close, Goto, Live
<1>5. CASE Closed(p, s)
  BY <1>5 DEF Closed, Undisturbed, Goto, ClosingInv, Live
<1>6. CASE CancelledUnstarted(p, s) \/ CancelledRunning(p, s) \/ CancelledClosing(p, s)
  BY <1>6 DEF CancelledUnstarted, CancelledRunning, CancelledClosing, Heard, Goto, Live
<1>7. CASE CancelledLate(p, s)
  BY <1>7 DEF CancelledLate, Heard, Goto, Finalise, Close, Row, Final, Live
<1> QED
  BY <1>1, <1>2, <1>3, <1>4, <1>5, <1>6, <1>7 DEF TaskStep

LEMMA LeftInvStep == LeftInv /\ [Next]_vars => LeftInv'
<1> SUFFICES ASSUME LeftInv, [Next]_vars PROVE LeftInv'
  OBVIOUS
<1>0. Inv' /\ TypeOK /\ TypeOK' /\ TaskInv /\ ClosingInv /\ RunningIsRun /\ StreamsEnd
  BY InvStep DEF LeftInv, Inv
<1>1. CASE UNCHANGED vars
  BY <1>0, <1>1 DEF vars, LeftInv, ClosingInv, RunningIsRun, StreamsEnd
<1>2. ASSUME NEW p \in Procs, NEW s \in Sessions, Start(p, s) PROVE LeftInv'
  <2>1. /\ row' = [row EXCEPT ![s].status = "running"] /\ at' = [at EXCEPT ![p][s] = "created"]
        /\ buffer' = [buffer EXCEPT ![p][s] = "open"] /\ UNCHANGED <<cancel, lost>>
        /\ \A q \in Procs : at[q][s] = "none"
    BY <1>0, <1>2 DEF Start, Goto, TaskInv
  <2>2. /\ at'[p][s] = "created" /\ \A q \in Procs \ {p} : at'[q][s] = "none"
        /\ \A t \in Sessions \ {s} : row'[t] = row[t] /\ \A q \in Procs : at'[q][t] = at[q][t]
        /\ \A q \in Procs, t \in Sessions \ {s} : buffer'[q][t] = buffer[q][t]
    BY <1>0, <2>1 DEF TypeOK
  <2>3. ClosingInv'
    BY <1>0, <2>2 DEF ClosingInv
  <2>4. RunningIsRun'
    BY <1>0, <2>1, <2>2 DEF RunningIsRun, Live
  <2>5. StreamsEnd'
    BY <1>0, <2>1, <2>2 DEF StreamsEnd
  <2> QED
    BY <1>0, <2>3, <2>4, <2>5 DEF LeftInv
<1>3. ASSUME NEW p \in Procs, NEW s \in Sessions, Reject(p, s) PROVE LeftInv'
  <2>1. /\ row'[s].status \in Final /\ \A t \in Sessions \ {s} : row'[t] = row[t]
        /\ UNCHANGED <<at, cancel, buffer, lost>>
    BY <1>0, <1>3 DEF Reject, Finalise, Row, Final, TypeOK
  <2>2. ClosingInv'
    BY <1>0, <2>1 DEF ClosingInv
  <2>3. RunningIsRun'
    BY <1>0, <2>1 DEF RunningIsRun, Final
  <2> QED
    BY <1>0, <2>1, <2>2, <2>3 DEF LeftInv, StreamsEnd
<1>4. ASSUME NEW p \in Procs, NEW s \in Sessions, Cancel(p, s) PROVE LeftInv'
  <2>1. /\ \A q \in Procs, t \in Sessions : q # p \/ t # s => cancel'[q][t] = cancel[q][t]
        /\ at[p][s] # "done" /\ UNCHANGED <<row, at, buffer, lost>>
    BY <1>0, <1>4 DEF Cancel, TypeOK, Live
  <2>2. \A q \in Procs, t \in Sessions : at[q][t] = "done" => cancel'[q][t] = cancel[q][t]
    BY <2>1
  <2> QED
    BY <1>0, <2>1, <2>2 DEF LeftInv, ClosingInv, RunningIsRun, StreamsEnd
<1>5. ASSUME NEW p \in Procs, NEW s \in Sessions, TaskStep(p, s) PROVE LeftInv'
  <2>1. /\ at'[p][s] \in Live \union {"done"}
        /\ at'[p][s] = "closing" => row'[s].status \in Final
        /\ at'[p][s] = "done" => cancel'[p][s] = "heard" \/ row'[s].status \in Final
        /\ at'[p][s] = "done" /\ cancel'[p][s] = "none" => buffer'[p][s] = "closed"
        /\ row'[s] # row[s] => row'[s].status \in Final
        /\ \A q \in Procs, t \in Sessions : q # p \/ t # s =>
             at'[q][t] = at[q][t] /\ cancel'[q][t] = cancel[q][t] /\ buffer'[q][t] = buffer[q][t]
        /\ \A t \in Sessions : t # s => row'[t] = row[t]
        /\ UNCHANGED lost
    BY <1>0, <1>5, TaskStepEnds
  <2>2. ClosingInv'
    BY <1>0, <2>1 DEF ClosingInv
  <2>3. RunningIsRun'
    <3> SUFFICES ASSUME NEW t \in Sessions, row'[t].status = "running"
                 PROVE  \/ \E q \in Procs : at'[q][t] \in Live
                        \/ \E q \in Procs : at'[q][t] = "done" /\ cancel'[q][t] = "heard"
                        \/ t \in lost'
      BY DEF RunningIsRun
    <3>1. CASE t # s
      <4>1. row[t].status = "running" /\ \A q \in Procs : at'[q][t] = at[q][t] /\ cancel'[q][t] = cancel[q][t]
        BY <2>1, <3>1
      <4> QED
        BY <1>0, <2>1, <4>1 DEF RunningIsRun
    <3>2. CASE t = s
      BY <2>1, <3>2 DEF Final
    <3> QED
      BY <3>1, <3>2
  <2>4. StreamsEnd'
    BY <1>0, <2>1 DEF StreamsEnd
  <2> QED
    BY <1>0, <2>2, <2>3, <2>4 DEF LeftInv
<1>6. ASSUME NEW p \in Procs, Crash(p) PROVE LeftInv'
  <2>1. /\ \A s \in Sessions : at'[p][s] = "none"
        /\ \A q \in Procs \ {p}, s \in Sessions :
             at'[q][s] = at[q][s] /\ cancel'[q][s] = cancel[q][s] /\ buffer'[q][s] = buffer[q][s]
        /\ UNCHANGED row
    BY <1>0, <1>6 DEF Crash, TypeOK
  <2>2. lost \subseteq lost' /\ \A s \in Sessions : at[p][s] # "none" => s \in lost'
    BY <1>6 DEF Crash
  <2>3. ClosingInv'
    BY <1>0, <2>1 DEF ClosingInv
  <2>4. RunningIsRun'
    BY <1>0, <2>1, <2>2 DEF RunningIsRun, Live
  <2>5. StreamsEnd'
    BY <1>0, <2>1 DEF StreamsEnd
  <2> QED
    BY <1>0, <2>3, <2>4, <2>5 DEF LeftInv
<1>7. ASSUME NEW p \in Procs, Restart(p) PROVE LeftInv'
  <2>1. UNCHANGED <<at, cancel, buffer>>
    BY <1>7 DEF Restart
  <2>2. CASE UNCHANGED <<row, lost>>
    BY <1>0, <2>1, <2>2 DEF LeftInv, ClosingInv, RunningIsRun, StreamsEnd
  <2>3. CASE row' = Recover
    <3>1. \A s \in Sessions : /\ row'[s].status # "running"
                              /\ row[s].status \in Final => row'[s].status \in Final
      BY <2>3 DEF Recover, Row, Final
    <3> QED
      BY <1>0, <2>1, <3>1 DEF LeftInv, ClosingInv, RunningIsRun, StreamsEnd
  <2> QED
    BY <1>7, <2>2, <2>3 DEF Restart
<1> QED
  BY <1>1, <1>2, <1>3, <1>4, <1>5, <1>6, <1>7 DEF Next

LEMMA LeftInvCorrect == Spec => []LeftInv
<1>1. Init => LeftInv
  BY InvInit DEF Init, LeftInv, ClosingInv, RunningIsRun, StreamsEnd, Row
<1> QED BY <1>1, LeftInvStep, PTL DEF Spec

\* Nobody is left behind: a session marked running has its task, or its process died and no
\* server started since, or it was cancelled before the task's first step.
THEOREM RunningIsRunCorrect == Spec => []RunningIsRun
<1>1. LeftInv => RunningIsRun
  BY DEF LeftInv
<1> QED BY LeftInvCorrect, <1>1, PTL

\* A reader's stream ends: a task that is done has closed its buffer unless it was cancelled.
THEOREM StreamsEndCorrect == Spec => []StreamsEnd
<1>1. LeftInv => StreamsEnd
  BY DEF LeftInv
<1> QED BY LeftInvCorrect, <1>1, PTL
=============================================================================
