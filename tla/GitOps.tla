------------------------------- MODULE GitOps -------------------------------
(***************************************************************************)
(* create_change_pr (domains/devops/git_actions.py): a change proposed     *)
(* from a temporary worktree on a new branch of the user's repository.     *)
(*                                                                         *)
(* Calls run in threads of their own, beside each other and beside a user  *)
(* who creates branches; a call whose tool timed out goes on.  git and gh  *)
(* are modelled by what the code relies on: `worktree add -b` and `branch` *)
(* create a branch that must not exist, `branch -D` deletes one that no    *)
(* worktree has checked out, a push or a pull request may fail.            *)
(***************************************************************************)
EXTENDS FiniteSets

CONSTANTS PrCalls,  \* calls of gitops_propose_change that a human approved
          Branches  \* names that pass _BRANCH_PATTERN

ASSUME GitOpsAssumption == "" \notin Branches /\ PrCalls \cap {"", "user"} = {}

VARIABLES head,    \* per branch of the repository: who made it ("" when there is none)
          pr,      \* per call: where it is, its branch, whether its worktree is there, and
                   \* whether the user made that branch after the call had looked for it
          pushed,  \* branches of the remote
          users    \* branches the user ever made

prVars == <<head, pr, pushed, users>>

PrSteps == {"new", "checked", "added", "committed", "pushed", "removing", "deleting", "refused", "ended"}
PrTypeOK ==
  /\ head \in [Branches -> {"", "user"} \cup PrCalls]
  /\ pr \in [PrCalls -> [at : PrSteps, branch : Branches \cup {""}, tree : BOOLEAN, raced : BOOLEAN]]
  /\ pushed \subseteq Branches /\ users \subseteq Branches

PrInit ==
  /\ head = [b \in Branches |-> ""]
  /\ pr = [c \in PrCalls |-> [at |-> "new", branch |-> "", tree |-> FALSE, raced |-> FALSE]]
  /\ pushed = {} /\ users = {}

-----------------------------------------------------------------------------
At(c, step) == pr' = [pr EXCEPT ![c].at = step]

\* Mutant of CheckBranch: the check is made inside the try.
CheckBranchInTry(c, b) ==
  /\ pr[c].at = "new"
  /\ pr' = [pr EXCEPT ![c].branch = b, ![c].at = IF head[b] = "" THEN "checked" ELSE "removing"]
  /\ UNCHANGED <<head, pushed, users>>

\* The arguments are valid, the remote is there; a branch of that name ends the call.
CheckBranch(c, b) ==
  /\ pr[c].at = "new"
  /\ pr' = [pr EXCEPT ![c].branch = b, ![c].at = IF head[b] = "" THEN "checked" ELSE "refused"]
  /\ UNCHANGED <<head, pushed, users>>

\* git worktree add -b: by now the branch may be there.
AddWorktree(c) ==
  LET b == pr[c].branch IN
  /\ pr[c].at = "checked"
  /\ IF head[b] = ""
     THEN /\ head' = [head EXCEPT ![b] = c]
          /\ pr' = [pr EXCEPT ![c].at = "added", ![c].tree = TRUE]
     ELSE At(c, "removing") /\ UNCHANGED head
  /\ UNCHANGED <<pushed, users>>

\* The file is written and committed.
CommitChange(c) ==
  /\ pr[c].at = "added" /\ At(c, "committed")
  /\ UNCHANGED <<head, pushed, users>>

\* The push is accepted (the branch may already be on the remote and be fast-forwarded).
PushBranch(c) ==
  /\ pr[c].at = "committed" /\ At(c, "pushed")
  /\ pushed' = pushed \cup {pr[c].branch}
  /\ UNCHANGED <<head, users>>

\* The pull request is opened or not: what was pushed stays pushed.  Or one of the
\* steps before raised: a path outside of the worktree, no change, a push refused.
LeaveTry(c) ==
  /\ pr[c].at \in {"added", "committed", "pushed"} /\ At(c, "removing")
  /\ UNCHANGED <<head, pushed, users>>

\* finally: the worktree is removed (git's way, or rmtree and prune).
RemoveWorktree(c) ==
  /\ pr[c].at = "removing"
  /\ pr' = [pr EXCEPT ![c].at = "deleting", ![c].tree = FALSE]
  /\ UNCHANGED <<head, pushed, users>>

\* finally: git branch -D, which git refuses while a worktree has the branch.
DeleteBranch(c) ==
  LET b == pr[c].branch
      inUse == \E d \in PrCalls : pr[d].tree /\ pr[d].branch = b IN
  /\ pr[c].at = "deleting" /\ At(c, "ended")
  /\ head' = IF inUse THEN head ELSE [head EXCEPT ![b] = ""]
  /\ UNCHANGED <<pushed, users>>

\* The user creates a branch (without leaving the one that is checked out).
UserBranches(b) ==
  /\ head[b] = "" /\ b \notin users
  /\ head' = [head EXCEPT ![b] = "user"]
  /\ users' = users \cup {b}
  /\ pr' = [c \in PrCalls |->
              [pr[c] EXCEPT !.raced = @ \/ (pr[c].branch = b /\ pr[c].at \notin {"refused", "ended"})]]
  /\ UNCHANGED pushed

PrNext ==
  \/ \E c \in PrCalls, b \in Branches : CheckBranch(c, b)
  \/ \E c \in PrCalls : \/ AddWorktree(c)
                        \/ CommitChange(c)
                        \/ PushBranch(c)
                        \/ LeaveTry(c)
                        \/ RemoveWorktree(c)
                        \/ DeleteBranch(c)
  \/ \E b \in Branches : UserBranches(b)

PrSpec == PrInit /\ [][PrNext]_prVars

-----------------------------------------------------------------------------
\* Whatever calls do beside each other, a branch the user made is there unless it was
\* made in the middle of a call for the same name, and a call that has ended has left
\* neither a branch nor a worktree: the repository is as if it had never run.
RepositoryRestored ==
  /\ \A b \in users : head[b] = "user" \/ \E c \in PrCalls : pr[c].branch = b /\ pr[c].raced
  /\ \A c \in PrCalls : pr[c].at \in {"refused", "ended"} =>
        ~pr[c].tree /\ \A b \in Branches : head[b] # c

\* Its inductive form: a branch that a call made belongs to a call that still goes on, a worktree
\* holds its branch, and a user's branch that a call goes on with was made in the middle of one.
Going == PrSteps \ {"new", "refused", "ended"}
BranchesOwned ==
  \A c \in PrCalls, b \in Branches :
    head[b] = c => pr[c].branch = b /\ pr[c].at \in Going \ {"checked"}
TreesHold ==
  \A c \in PrCalls : pr[c].tree =>
    pr[c].at \in {"added", "committed", "pushed", "removing"} /\ pr[c].branch \in Branches /\ head[pr[c].branch] = c
RacesKnown ==
  \A c \in PrCalls : pr[c].at \in Going /\ pr[c].branch \in users =>
    \E d \in PrCalls : pr[d].branch = pr[c].branch /\ pr[d].raced
NewIsNew == \A c \in PrCalls : IF pr[c].at = "new" THEN ~pr[c].raced /\ pr[c].branch = "" ELSE pr[c].branch \in Branches
UsersKept == \A b \in users : head[b] = "user" \/ \E c \in PrCalls : pr[c].branch = b /\ pr[c].raced
PrInv == PrTypeOK /\ BranchesOwned /\ TreesHold /\ RacesKnown /\ NewIsNew /\ UsersKept
=============================================================================
