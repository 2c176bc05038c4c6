----------------------------- MODULE PodRestart -----------------------------
(***************************************************************************)
(* kubectl_restart_pod: the pod is deleted with a grace period of 30 s,    *)
(* then looked up by name every 2 s until it runs or the time is up        *)
(* (domains/devops/plugin.py, snapshots.py, tools/kubectl_tools.py).       *)
(*                                                                         *)
(* The handler runs in a thread beside the cluster, which is external: a   *)
(* deleted pod goes on running until its grace period ends, and then its   *)
(* controller creates another, under the same name (a stateful set) or a   *)
(* new one.  Names are bounded by the pods that exist here at all.         *)
(***************************************************************************)
EXTENDS Naturals

CONSTANTS PodNames,   \* names of pods
          Stateful,   \* names a stateful set will use again
          Restarts,   \* calls of the tool that a human approved
          MaxUid      \* bound: pods per name

ASSUME PodAssumption == Stateful \subseteq PodNames /\ MaxUid \in Nat

VARIABLES pod,     \* per name: [uid, phase, ready, deleted]; uid 0 when there is none
          uids,    \* per name: the pods created so far
          restart  \* per call: where it is, its pod, the uid it deleted and what it saw

podVars == <<pod, uids, restart>>

NoPod == [uid |-> 0, phase |-> "none", ready |-> FALSE, deleted |-> FALSE]

PodInit ==
  /\ pod = [p \in PodNames |-> [uid |-> 1, phase |-> "Running", ready |-> TRUE, deleted |-> FALSE]]
  /\ uids = [p \in PodNames |-> 1]
  /\ restart = [c \in Restarts |-> [at |-> "new", name |-> "", deleted |-> 0, saw |-> 0, ready |-> FALSE]]

-----------------------------------------------------------------------------
\* The snapshot before and the delete request; without a pod of that name both raise.
DeletePod(c, p) ==
  /\ restart[c].at = "new"
  /\ IF pod[p].uid = 0
     THEN restart' = [restart EXCEPT ![c].at = "failed", ![c].name = p] /\ UNCHANGED pod
     ELSE /\ restart' = [restart EXCEPT ![c].at = "polling", ![c].name = p, ![c].deleted = pod[p].uid]
          /\ pod' = [pod EXCEPT ![p].deleted = TRUE]
  /\ UNCHANGED uids

\* pod_snapshot_after_restart: the first pod of that name that runs is the answer.
PollPod(c) ==
  LET p == restart[c].name IN
  /\ restart[c].at \in {"polling", "missed"} /\ pod[p].phase = "Running"
  /\ restart' = [restart EXCEPT ![c].at = "saw", ![c].saw = pod[p].uid, ![c].ready = pod[p].ready]
  /\ UNCHANGED <<pod, uids>>

\* There is none (404) or none that runs; two seconds later it is looked up again ...
PollMisses(c) ==
  /\ restart[c].at = "polling" /\ pod[restart[c].name].phase # "Running"
  /\ restart' = [restart EXCEPT ![c].at = "missed"]
  /\ UNCHANGED <<pod, uids>>

\* ... unless the time is up.
PollGivesUp(c) ==
  /\ restart[c].at = "missed"
  /\ restart' = [restart EXCEPT ![c].at = "failed"]
  /\ UNCHANGED <<pod, uids>>

\* _restart: the result of the call is that of the delete if the pod was ready.
ReportRestart(c) ==
  /\ restart[c].at = "saw"
  /\ restart' = [restart EXCEPT ![c].at = IF restart[c].ready THEN "done" ELSE "failed"]
  /\ UNCHANGED <<pod, uids>>

\* The grace period of a deleted pod is over.
PodGoes(p) ==
  /\ pod[p].deleted
  /\ pod' = [pod EXCEPT ![p] = NoPod]
  /\ UNCHANGED <<uids, restart>>

\* A controller creates the next pod of that name.
PodComes(p) ==
  /\ pod[p].uid = 0 /\ p \in Stateful /\ uids[p] < MaxUid
  /\ uids' = [uids EXCEPT ![p] = @ + 1]
  /\ pod' = [pod EXCEPT ![p] = [uid |-> uids[p] + 1, phase |-> "Pending", ready |-> FALSE, deleted |-> FALSE]]
  /\ UNCHANGED restart

\* Its containers start; it passes or fails its readiness probe.
PodRuns(p) ==
  /\ pod[p].phase = "Pending"
  /\ pod' = [pod EXCEPT ![p].phase = "Running"]
  /\ UNCHANGED <<uids, restart>>

PodProbed(p) ==
  /\ pod[p].phase = "Running"
  /\ pod' = [pod EXCEPT ![p].ready = ~@]
  /\ UNCHANGED <<uids, restart>>

PodNext ==
  \/ \E c \in Restarts, p \in PodNames : DeletePod(c, p)
  \/ \E c \in Restarts : PollPod(c) \/ PollMisses(c) \/ PollGivesUp(c) \/ ReportRestart(c)
  \/ \E p \in PodNames : PodGoes(p) \/ PodComes(p) \/ PodRuns(p) \/ PodProbed(p)

PodSpec == PodInit /\ [][PodNext]_podVars

-----------------------------------------------------------------------------
\* A restart that is reported as done was confirmed on a pod that replaced the deleted
\* one.  The code does not keep this: the deleted pod still runs when it is looked up.
RestartIsConfirmed ==
  \A c \in Restarts : restart[c].at = "done" => restart[c].saw # restart[c].deleted
=============================================================================
