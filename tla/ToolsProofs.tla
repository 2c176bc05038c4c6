---------------------------- MODULE ToolsProofs ----------------------------
(***************************************************************************)
(* Proofs about what tools share: GitOps, for any calls and branches,      *)
(* Secrets, for any threads, values, time to live and clock, Skills, for   *)
(* any names, calls, promotions and bounds, Keystore, for any secrets and  *)
(* values, Files, for any runs and number of actions, and Memory, for any  *)
(* texts, threads, dreams and sizes.                                       *)
(***************************************************************************)
EXTENDS GitOps, Secrets, Skills, Keystore, Files, Memory, FiniteSetTheorems, TLAPS

PrCall == [at : PrSteps, branch : Branches \cup {""}, tree : BOOLEAN, raced : BOOLEAN]

\* A call that takes a step, one whose worktree the step makes or removes, and one that
\* has its branch: the other fields stay.
Moved(x, at) == [x EXCEPT !.at = at]
Settled(x, at, tree) == [x EXCEPT !.at = at, !.tree = tree]
Asked(x, at, branch) == [x EXCEPT !.branch = branch, !.at = at]

LEMMA CallAt ==
  ASSUME NEW x \in PrCall, NEW at \in PrSteps
  PROVE  LET y == Moved(x, at) IN
         /\ y \in PrCall
         /\ y.at = at
         /\ y.branch = x.branch
         /\ y.tree = x.tree
         /\ y.raced = x.raced
<1> DEFINE y == Moved(x, at)
           B == Branches \cup {""}
           T == BOOLEAN
<1>1. x \in [at : PrSteps, branch : B, tree : T, raced : T]
  BY DEF PrCall
<1> HIDE DEF B, T
<1>2. y = [at |-> at, branch |-> x.branch, tree |-> x.tree, raced |-> x.raced]
  BY <1>1 DEF Moved
<1> HIDE DEF y
<1>3. y \in [at : PrSteps, branch : B, tree : T, raced : T]
  BY <1>1, <1>2
<1>4. y.at = at /\ y.branch = x.branch /\ y.tree = x.tree /\ y.raced = x.raced
  BY <1>2
<1> QED BY <1>3, <1>4 DEF y, B, T, PrCall

LEMMA CallAtTree ==
  ASSUME NEW x \in PrCall, NEW at \in PrSteps, NEW tree \in BOOLEAN
  PROVE  LET y == Settled(x, at, tree) IN
         /\ y \in PrCall
         /\ y.at = at
         /\ y.branch = x.branch
         /\ y.tree = tree
         /\ y.raced = x.raced
<1> DEFINE y == Settled(x, at, tree)
           B == Branches \cup {""}
           T == BOOLEAN
<1>1. x \in [at : PrSteps, branch : B, tree : T, raced : T]
  BY DEF PrCall
<1> HIDE DEF B, T
<1> DEFINE z == [x EXCEPT !.at = at]
<1>5. z = [at |-> at, branch |-> x.branch, tree |-> x.tree, raced |-> x.raced]
  BY <1>1
<1>6. y = [z EXCEPT !.tree = tree]
  BY DEF Settled
<1> HIDE DEF y, z
<1>2. y = [at |-> at, branch |-> x.branch, tree |-> tree, raced |-> x.raced]
  BY <1>5, <1>6
<1>3. y \in [at : PrSteps, branch : B, tree : T, raced : T]
  BY <1>1, <1>2 DEF T
<1>4. y.at = at /\ y.branch = x.branch /\ y.tree = tree /\ y.raced = x.raced
  BY <1>2
<1> QED BY <1>3, <1>4 DEF y, B, T, PrCall

LEMMA CallBranchAt ==
  ASSUME NEW x \in PrCall, NEW at \in PrSteps, NEW branch \in Branches
  PROVE  LET y == Asked(x, at, branch) IN
         /\ y \in PrCall
         /\ y.at = at
         /\ y.branch = branch
         /\ y.tree = x.tree
         /\ y.raced = x.raced
<1> DEFINE y == Asked(x, at, branch)
           B == Branches \cup {""}
           T == BOOLEAN
<1>1. x \in [at : PrSteps, branch : B, tree : T, raced : T]
  BY DEF PrCall
<1> HIDE DEF B, T
<1> DEFINE z == [x EXCEPT !.branch = branch]
<1>5. z = [at |-> x.at, branch |-> branch, tree |-> x.tree, raced |-> x.raced]
  BY <1>1
<1>6. y = [z EXCEPT !.at = at]
  BY DEF Asked
<1> HIDE DEF y, z
<1>2. y = [at |-> at, branch |-> branch, tree |-> x.tree, raced |-> x.raced]
  BY <1>5, <1>6
<1>3. y \in [at : PrSteps, branch : B, tree : T, raced : T]
  BY <1>1, <1>2 DEF B
<1>4. y.at = at /\ y.branch = branch /\ y.tree = x.tree /\ y.raced = x.raced
  BY <1>2
<1> QED BY <1>3, <1>4 DEF y, B, T, PrCall

\* A step that moves one call: what the others hold is left as it is.
LEMMA CallMoves ==
  ASSUME PrTypeOK, NEW c \in PrCalls, NEW r \in PrCall, pr' = [pr EXCEPT ![c] = r]
  PROVE  pr' \in [PrCalls -> PrCall] /\ pr'[c] = r /\ \A d \in PrCalls \ {c} : pr'[d] = pr[d]
BY DEF PrTypeOK, PrCall

\* A call that has ended owns nothing: the invariant gives the property.
LEMMA PrInvEnough == PrInv => RepositoryRestored
<1> SUFFICES ASSUME PrInv PROVE RepositoryRestored
  OBVIOUS
<1>1. \A b \in users : head[b] = "user" \/ \E c \in PrCalls : pr[c].branch = b /\ pr[c].raced
  BY DEF PrInv, UsersKept
<1>2. ASSUME NEW c \in PrCalls, pr[c].at \in {"refused", "ended"}
      PROVE  ~pr[c].tree /\ \A b \in Branches : head[b] # c
  <2>1. ~pr[c].tree
    BY <1>2 DEF PrInv, TreesHold
  <2>2. \A b \in Branches : head[b] # c
    BY <1>2 DEF PrInv, BranchesOwned, Going
  <2> QED BY <2>1, <2>2
<1> QED BY <1>1, <1>2 DEF RepositoryRestored

\* A step of one call that leaves branches and users alone, and neither starts nor ends it.
LEMMA CallGoesOn ==
  ASSUME PrInv, NEW c \in PrCalls, NEW r \in PrCall, pr' = [pr EXCEPT ![c] = r],
         UNCHANGED <<head, pushed, users>> \/ (UNCHANGED <<head, users>> /\ pushed' \subseteq Branches),
         r.branch = pr[c].branch, r.raced = pr[c].raced, pr[c].at \in Going \ {"checked"}, r.at \in Going \ {"checked"},
         r.tree => pr[c].tree /\ r.at \in {"added", "committed", "pushed", "removing"}
  PROVE  PrInv'
<1>1. pr' \in [PrCalls -> PrCall] /\ pr'[c] = r /\ \A d \in PrCalls \ {c} : pr'[d] = pr[d]
  <2>1. PrTypeOK
    BY DEF PrInv
  <2> QED BY <2>1, CallMoves
<1>2. PrTypeOK'
  BY <1>1 DEF PrInv, PrTypeOK, PrCall
<1>3. BranchesOwned'
  BY <1>1 DEF PrInv, BranchesOwned
<1>4. TreesHold'
  BY <1>1 DEF PrInv, TreesHold
<1>5. \A d \in PrCalls : pr'[d].branch = pr[d].branch /\ pr'[d].raced = pr[d].raced /\ (pr'[d].at \in Going => pr[d].at \in Going)
  BY <1>1
<1>6. RacesKnown'
  BY <1>5 DEF PrInv, RacesKnown
<1>7. NewIsNew'
  <2>1. pr[c].at # "new" /\ r.at # "new"
    BY DEF Going
  <2>2. pr[c].branch \in Branches
    BY <2>1 DEF PrInv, NewIsNew
  <2> QED BY <1>1, <2>1, <2>2 DEF PrInv, NewIsNew
<1>8. UsersKept'
  BY <1>5 DEF PrInv, UsersKept
<1> QED BY <1>2, <1>3, <1>4, <1>6, <1>7, <1>8 DEF PrInv

\* The repository is as if an ended call had never run, and what the user made is there,
\* however many calls, branches and steps of the user: RepositoryRestored.
THEOREM RepositoryCorrect == PrSpec => []RepositoryRestored
<1>1. PrInit => PrInv
  <2> SUFFICES ASSUME PrInit PROVE PrInv
    OBVIOUS
  <2> USE DEF PrInit
  <2>1. PrTypeOK
    BY DEF PrTypeOK, PrSteps
  <2>2. BranchesOwned
    BY GitOpsAssumption DEF BranchesOwned
  <2>3. TreesHold /\ RacesKnown /\ NewIsNew /\ UsersKept
    BY DEF TreesHold, RacesKnown, NewIsNew, UsersKept, Going
  <2> QED BY <2>1, <2>2, <2>3 DEF PrInv
<1>2. PrInv /\ [PrNext]_prVars => PrInv'
  <2> SUFFICES ASSUME PrInv, [PrNext]_prVars PROVE PrInv'
    OBVIOUS
  <2>t. pr \in [PrCalls -> PrCall] /\ head \in [Branches -> {"", "user"} \cup PrCalls]
        /\ pushed \subseteq Branches /\ users \subseteq Branches
    BY DEF PrInv, PrTypeOK, PrCall
  <2>1. ASSUME NEW c \in PrCalls, NEW b \in Branches, CheckBranch(c, b) PROVE PrInv'
    <3> DEFINE r == [pr[c] EXCEPT !.branch = b, !.at = IF head[b] = "" THEN "checked" ELSE "refused"]
    <3>1. pr[c].at = "new" /\ UNCHANGED <<head, pushed, users>> /\ pr' = [pr EXCEPT ![c] = r]
      BY <2>1 DEF CheckBranch
    <3>2. r \in PrCall /\ r.branch = b /\ r.raced = pr[c].raced /\ r.tree = pr[c].tree
          /\ r.at = IF head[b] = "" THEN "checked" ELSE "refused"
      <4> DEFINE at == IF head[b] = "" THEN "checked" ELSE "refused"
      <4>1. at \in PrSteps
        BY DEF PrSteps
      <4>2. pr[c] \in PrCall
        BY <2>t
      <4>3. r = Asked(pr[c], at, b)
        BY DEF Asked
      <4> HIDE DEF at, r
      <4> DEFINE x == pr[c]
      <4>4. x \in PrCall /\ r = Asked(x, at, b)
        BY <4>2, <4>3
      <4> HIDE DEF x
      <4>5. r \in PrCall /\ r.branch = b /\ r.raced = x.raced /\ r.tree = x.tree /\ r.at = at
        BY <4>1, <4>4, CallBranchAt
      <4> QED BY <4>5 DEF x, at
    <3>3. ~pr[c].raced /\ pr[c].branch = ""
      BY <3>1 DEF PrInv, NewIsNew
    <3>4. ~pr[c].tree
      BY <3>1 DEF PrInv, TreesHold
    <3> HIDE DEF r
    <3>5. pr' \in [PrCalls -> PrCall] /\ pr'[c] = r /\ \A d \in PrCalls \ {c} : pr'[d] = pr[d]
      BY <3>1, <3>2, CallMoves DEF PrInv
    <3>6. PrTypeOK'
      BY <3>1, <3>5, <2>t DEF PrTypeOK, PrCall
    <3>7. BranchesOwned'
      <4>1. \A e \in Branches : head[e] # c
        BY <3>1 DEF PrInv, BranchesOwned, Going
      <4>2. BranchesOwned
        BY DEF PrInv
      <4>3. head' = head /\ \A d \in PrCalls \ {c} : pr'[d] = pr[d]
        BY <3>1, <3>5
      <4> SUFFICES ASSUME NEW d \in PrCalls, NEW e \in Branches, head'[e] = d
                   PROVE  pr'[d].branch = e /\ pr'[d].at \in Going \ {"checked"}
        BY DEF BranchesOwned
      <4>4. head[e] = d /\ d # c
        BY <4>1, <4>3
      <4>5. pr[d].branch = e /\ pr[d].at \in Going \ {"checked"}
        BY <4>2, <4>4 DEF BranchesOwned
      <4> QED BY <4>3, <4>4, <4>5
    <3>8. TreesHold'
      <4>1. TreesHold
        BY DEF PrInv
      <4>2. head' = head /\ ~pr'[c].tree /\ \A d \in PrCalls \ {c} : pr'[d] = pr[d]
        BY <3>1, <3>2, <3>4, <3>5
      <4> SUFFICES ASSUME NEW d \in PrCalls, pr'[d].tree
                   PROVE  /\ pr'[d].at \in {"added", "committed", "pushed", "removing"}
                          /\ pr'[d].branch \in Branches /\ head'[pr'[d].branch] = d
        BY DEF TreesHold
      <4>3. pr'[d] = pr[d]
        BY <4>2
      <4>4. /\ pr[d].at \in {"added", "committed", "pushed", "removing"}
            /\ pr[d].branch \in Branches /\ head[pr[d].branch] = d
        BY <4>1, <4>3 DEF TreesHold
      <4>5. head' = head
        BY <4>2
      <4> QED BY <4>3, <4>4, <4>5
    <3>9. \A e \in users : head[e] = "user" \/ \E d \in PrCalls : pr'[d].branch = e /\ pr'[d].raced
      <4>1. ~pr[c].raced /\ \A d \in PrCalls \ {c} : pr'[d] = pr[d]
        BY <3>3, <3>5
      <4> SUFFICES ASSUME NEW e \in users, head[e] # "user"
                   PROVE  \E d \in PrCalls : pr'[d].branch = e /\ pr'[d].raced
        OBVIOUS
      <4>2. PICK d \in PrCalls : pr[d].branch = e /\ pr[d].raced
        BY DEF PrInv, UsersKept
      <4>3. d # c
        BY <4>1, <4>2
      <4> QED BY <4>1, <4>2, <4>3
    <3>10. RacesKnown'
      <4>1. ASSUME NEW d \in PrCalls, pr'[d].at \in Going, pr'[d].branch \in users
            PROVE  \E f \in PrCalls : pr'[f].branch = pr'[d].branch /\ pr'[f].raced
        <5>1. CASE d = c
          BY <3>2, <3>5, <3>9, <4>1, <5>1 DEF Going
        <5>2. CASE d # c
          <6>1. PICK f \in PrCalls : pr[f].branch = pr[d].branch /\ pr[f].raced
            BY <3>5, <4>1, <5>2 DEF PrInv, RacesKnown
          <6> QED BY <3>3, <3>5, <5>2, <6>1
        <5> QED BY <5>1, <5>2
      <4> QED BY <3>1, <4>1 DEF RacesKnown
    <3>11. NewIsNew'
      BY <3>2, <3>5 DEF PrInv, NewIsNew
    <3>12. UsersKept'
      BY <3>1, <3>9 DEF UsersKept
    <3> QED BY <3>6, <3>7, <3>8, <3>10, <3>11, <3>12 DEF PrInv
  <2>2. ASSUME NEW c \in PrCalls, AddWorktree(c) PROVE PrInv'
    <3> DEFINE b == pr[c].branch
    <3>1. pr[c].at = "checked" /\ b \in Branches
      BY <2>2 DEF AddWorktree, PrInv, NewIsNew
    <3>0. ~pr[c].tree /\ \A e \in Branches : head[e] # c
      BY <3>1 DEF PrInv, TreesHold, BranchesOwned
    <3> DEFINE r == IF head[b] = "" THEN [pr[c] EXCEPT !.at = "added", !.tree = TRUE] ELSE [pr[c] EXCEPT !.at = "removing"]
    <3>2. pr' = [pr EXCEPT ![c] = r] /\ UNCHANGED <<pushed, users>>
          /\ head' = IF head[b] = "" THEN [head EXCEPT ![b] = c] ELSE head
      BY <2>2 DEF AddWorktree, At
    <3>3. r \in PrCall /\ r.branch = b /\ r.raced = pr[c].raced /\ r.at \in {"added", "removing"}
          /\ (r.tree => head[b] = "" /\ r.at = "added")
      <4>1. CASE head[b] = ""
        <5>1. r = Settled(pr[c], "added", TRUE)
          BY <4>1 DEF Settled
        <5>2. pr[c] \in PrCall
          BY <2>t
        <5>3. "added" \in PrSteps
          BY DEF PrSteps
        <5> HIDE DEF r
        <5>4. r \in PrCall /\ r.branch = b /\ r.raced = pr[c].raced /\ r.at = "added"
          BY <5>1, <5>2, <5>3, CallAtTree
        <5> QED BY <4>1, <5>4
      <4>2. CASE head[b] # ""
        <5>1. r = Moved(pr[c], "removing")
          BY <4>2 DEF Moved
        <5>2. pr[c] \in PrCall
          BY <2>t
        <5>3. "removing" \in PrSteps
          BY DEF PrSteps
        <5> HIDE DEF r
        <5>4. r \in PrCall /\ r.branch = b /\ r.raced = pr[c].raced /\ r.at = "removing" /\ r.tree = pr[c].tree
          BY <5>1, <5>2, <5>3, CallAt
        <5> QED BY <3>0, <5>4
      <4> QED BY <4>1, <4>2
    <3> HIDE DEF r
    <3>5. pr' \in [PrCalls -> PrCall] /\ pr'[c] = r /\ \A d \in PrCalls \ {c} : pr'[d] = pr[d]
      BY <3>2, <3>3, CallMoves DEF PrInv
    <3>6. head' \in [Branches -> {"", "user"} \cup PrCalls]
          /\ \A e \in Branches : head'[e] = IF e = b /\ head[b] = "" THEN c ELSE head[e]
      BY <2>t, <3>1, <3>2
    <3>7. PrTypeOK'
      BY <3>2, <3>5, <3>6, <2>t DEF PrTypeOK, PrCall
    <3>8. BranchesOwned'
      <4>1. ASSUME NEW d \in PrCalls, NEW e \in Branches, head'[e] = d
            PROVE  pr'[d].branch = e /\ pr'[d].at \in Going \ {"checked"}
        <5>1. CASE e = b /\ head[b] = ""
          BY <3>3, <3>5, <3>6, <4>1, <5>1 DEF Going, PrSteps
        <5>2. CASE ~(e = b /\ head[b] = "")
          <6>1. head[e] = d
            BY <3>6, <4>1, <5>2
          <6>2. d # c /\ pr'[d] = pr[d]
            BY <3>0, <3>5, <6>1
          <6> QED BY <6>1, <6>2 DEF PrInv, BranchesOwned
        <5> QED BY <5>1, <5>2
      <4> QED BY <4>1 DEF BranchesOwned
    <3>9. TreesHold'
      <4>1. ASSUME NEW d \in PrCalls, pr'[d].tree
            PROVE  pr'[d].at \in {"added", "committed", "pushed", "removing"} /\ pr'[d].branch \in Branches /\ head'[pr'[d].branch] = d
        <5>1. CASE d = c
          <6>1. pr'[d] = r
            BY <3>5, <5>1
          <6>2. head[b] = "" /\ r.at = "added" /\ r.branch = b
            BY <3>3, <4>1, <6>1
          <6>3. head'[b] = c
            BY <3>1, <3>6, <6>2
          <6> QED BY <3>1, <5>1, <6>1, <6>2, <6>3
        <5>2. CASE d # c
          <6>1. pr'[d] = pr[d]
            BY <3>5, <5>2
          <6>2. pr[d].at \in {"added", "committed", "pushed", "removing"} /\ pr[d].branch \in Branches /\ head[pr[d].branch] = d
            BY <4>1, <6>1 DEF PrInv, TreesHold
          <6>3. head[pr[d].branch] # ""
            BY <6>2, GitOpsAssumption
          <6> QED BY <3>6, <6>1, <6>2, <6>3
        <5> QED BY <5>1, <5>2
      <4> QED BY <4>1 DEF TreesHold
    <3>10. \A d \in PrCalls : pr'[d].branch = pr[d].branch /\ (pr[d].raced => pr'[d].raced)
           /\ (pr'[d].at \in Going => pr[d].at \in Going)
      BY <3>1, <3>3, <3>5 DEF Going, PrSteps
    <3>14. users' = users /\ pushed' = pushed
      BY <3>2
    <3>11. RacesKnown'
      BY <3>10, <3>14 DEF PrInv, RacesKnown
    <3>12. NewIsNew'
      BY <3>1, <3>3, <3>5 DEF PrInv, NewIsNew
    <3>13. UsersKept'
      <4>1. \A e \in users : head[e] = "user" => head'[e] = "user"
        BY <2>t, <3>6
      <4>2. UsersKept
        BY DEF PrInv
      <4> QED BY <3>10, <3>14, <4>1, <4>2 DEF UsersKept
    <3> QED BY <3>7, <3>8, <3>9, <3>11, <3>12, <3>13 DEF PrInv
  <2>3. ASSUME NEW c \in PrCalls, CommitChange(c) \/ PushBranch(c) \/ LeaveTry(c) \/ RemoveWorktree(c) PROVE PrInv'
    <3>1. PICK at \in {"committed", "pushed", "removing", "deleting"}, tree \in {pr[c].tree, FALSE} :
             /\ pr' = [pr EXCEPT ![c] = [pr[c] EXCEPT !.at = at, !.tree = tree]]
             /\ at = "deleting" => ~tree
      <4>1. CASE RemoveWorktree(c)
        <5>1. pr' = [pr EXCEPT ![c] = [pr[c] EXCEPT !.at = "deleting", !.tree = FALSE]]
          BY <4>1 DEF RemoveWorktree
        <5> QED BY <5>1
      <4>2. \A at \in {"committed", "pushed", "removing"} : At(c, at) =>
              pr' = [pr EXCEPT ![c] = [pr[c] EXCEPT !.at = at, !.tree = pr[c].tree]]
        BY <2>t DEF At, PrCall
      <4>3. CASE CommitChange(c) \/ PushBranch(c) \/ LeaveTry(c)
        BY <4>2, <4>3 DEF CommitChange, PushBranch, LeaveTry
      <4> QED BY <2>3, <4>1, <4>3
    <3>2. pr[c].at \in Going \ {"checked"} /\ UNCHANGED <<head, users>> /\ (UNCHANGED pushed \/ pushed' = pushed \cup {pr[c].branch})
      BY <2>3 DEF CommitChange, PushBranch, LeaveTry, RemoveWorktree, Going, PrSteps
    <3> DEFINE r == [pr[c] EXCEPT !.at = at, !.tree = tree]
    <3>3. r \in PrCall /\ r.branch = pr[c].branch /\ r.raced = pr[c].raced /\ r.at = at /\ r.tree = tree
      <4>1. at \in PrSteps /\ pr[c].tree \in BOOLEAN
        BY <2>t DEF PrCall, PrSteps
      <4>2. pr[c] \in PrCall /\ tree \in BOOLEAN
        BY <2>t, <4>1
      <4>3. r = Settled(pr[c], at, tree)
        BY DEF Settled
      <4> HIDE DEF r
      <4> DEFINE x == pr[c]
      <4>4. x \in PrCall /\ r = Settled(x, at, tree)
        BY <4>2, <4>3
      <4> HIDE DEF x
      <4>5. r \in PrCall /\ r.branch = x.branch /\ r.raced = x.raced /\ r.at = at /\ r.tree = tree
        BY <4>1, <4>2, <4>4, CallAtTree
      <4> QED BY <4>5 DEF x
    <3>4. r.at \in Going \ {"checked"} /\ (r.tree => pr[c].tree /\ r.at \in {"added", "committed", "pushed", "removing"})
      BY <3>1, <3>3 DEF Going, PrSteps
    <3>5. pushed' \subseteq Branches
      <4>1. pr[c].branch \in Branches
        BY <3>2 DEF PrInv, NewIsNew, Going
      <4> QED BY <2>t, <3>2, <4>1
    <3> HIDE DEF r
    <3>6. pr' = [pr EXCEPT ![c] = r]
      BY <3>1 DEF r
    <3> QED BY <3>2, <3>3, <3>4, <3>5, <3>6, CallGoesOn
  <2>4. ASSUME NEW c \in PrCalls, DeleteBranch(c) PROVE PrInv'
    <3> DEFINE b == pr[c].branch
               inUse == \E d \in PrCalls : pr[d].tree /\ pr[d].branch = b
               r == [pr[c] EXCEPT !.at = "ended"]
    <3>1. pr[c].at = "deleting" /\ UNCHANGED <<pushed, users>> /\ pr' = [pr EXCEPT ![c] = r]
          /\ head' = IF inUse THEN head ELSE [head EXCEPT ![b] = ""]
      BY <2>4 DEF DeleteBranch, At
    <3>2. b \in Branches /\ ~pr[c].tree
      BY <3>1 DEF PrInv, NewIsNew, TreesHold
    <3>3. r \in PrCall /\ r.branch = b /\ r.raced = pr[c].raced /\ r.at = "ended" /\ ~r.tree
      <4>1. pr[c] \in PrCall /\ "ended" \in PrSteps
        BY <2>t DEF PrSteps
      <4>2. r = Moved(pr[c], "ended")
        BY DEF Moved
      <4> HIDE DEF r
      <4> DEFINE x == pr[c]
      <4>3. x \in PrCall /\ "ended" \in PrSteps /\ r = Moved(x, "ended")
        BY <4>1, <4>2
      <4> HIDE DEF x
      <4>4. r \in PrCall /\ r.branch = x.branch /\ r.raced = x.raced /\ r.at = "ended" /\ r.tree = x.tree
        BY <4>3, CallAt
      <4> QED BY <3>2, <4>4 DEF x
    <3> HIDE DEF r
    <3>5. pr' \in [PrCalls -> PrCall] /\ pr'[c] = r /\ \A d \in PrCalls \ {c} : pr'[d] = pr[d]
      BY <3>1, <3>3, CallMoves DEF PrInv
    <3>6. head' \in [Branches -> {"", "user"} \cup PrCalls]
          /\ \A e \in Branches : head'[e] = IF e = b /\ ~inUse THEN "" ELSE head[e]
      BY <2>t, <3>1, <3>2
    <3>7. PrTypeOK'
      BY <3>1, <3>5, <3>6, <2>t DEF PrTypeOK, PrCall
    <3>8. \A e \in Branches : head'[e] # c
      <4>1. \A e \in Branches : head[e] = c => e = b
        BY DEF PrInv, BranchesOwned
      <4>2. inUse => head[b] # c
        BY <3>2 DEF PrInv, TreesHold
      <4> QED BY <3>6, <4>1, <4>2, GitOpsAssumption
    <3>9. BranchesOwned'
      <4>1. ASSUME NEW d \in PrCalls, NEW e \in Branches, head'[e] = d
            PROVE  pr'[d].branch = e /\ pr'[d].at \in Going \ {"checked"}
        <5>1. d # c /\ pr'[d] = pr[d]
          BY <3>5, <3>8, <4>1
        <5>2. head[e] = d
          BY <3>6, GitOpsAssumption, <4>1
        <5> QED BY <5>1, <5>2 DEF PrInv, BranchesOwned
      <4> QED BY <4>1 DEF BranchesOwned
    <3>10. TreesHold'
      <4>1. ASSUME NEW d \in PrCalls, pr'[d].tree
            PROVE  pr'[d].at \in {"added", "committed", "pushed", "removing"} /\ pr'[d].branch \in Branches /\ head'[pr'[d].branch] = d
        <5>1. d # c /\ pr[d].tree /\ pr'[d] = pr[d]
          BY <3>3, <3>5, <4>1
        <5>2. pr[d].branch = b => inUse
          BY <5>1
        <5>3. \A e \in Branches : e # b \/ inUse => head'[e] = head[e]
          BY <3>6
        <5>4. /\ pr[d].at \in {"added", "committed", "pushed", "removing"}
              /\ pr[d].branch \in Branches /\ head[pr[d].branch] = d
          BY <5>1 DEF PrInv, TreesHold
        <5>5. head'[pr[d].branch] = head[pr[d].branch]
          BY <5>2, <5>3, <5>4
        <5> QED BY <5>1, <5>4, <5>5
      <4> QED BY <4>1 DEF TreesHold
    <3>11. \A d \in PrCalls : pr'[d].branch = pr[d].branch /\ (pr[d].raced => pr'[d].raced)
           /\ (pr'[d].at \in Going => pr[d].at \in Going)
      BY <3>3, <3>5 DEF Going
    <3>15. users' = users
      BY <3>1
    <3>12. RacesKnown'
      BY <3>11, <3>15 DEF PrInv, RacesKnown
    <3>13. NewIsNew'
      BY <3>2, <3>3, <3>5 DEF PrInv, NewIsNew
    <3>14. UsersKept'
      <4>1. b \in users => \E d \in PrCalls : pr[d].branch = b /\ pr[d].raced
        BY <3>1 DEF PrInv, RacesKnown, Going, PrSteps
      <4>2. \A e \in users : e # b => head'[e] = head[e]
        BY <2>t, <3>6
      <4>3. ASSUME NEW e \in users
            PROVE  head'[e] = "user" \/ \E d \in PrCalls : pr'[d].branch = e /\ pr'[d].raced
        <5>1. (head[e] = "user" /\ e # b) \/ \E d \in PrCalls : pr[d].branch = e /\ pr[d].raced
          BY <4>1 DEF PrInv, UsersKept
        <5> QED BY <3>11, <4>2, <5>1
      <4> QED BY <3>15, <4>3 DEF UsersKept
    <3> QED BY <3>7, <3>9, <3>10, <3>12, <3>13, <3>14 DEF PrInv
  <2>5. ASSUME NEW b \in Branches, UserBranches(b) PROVE PrInv'
    <3>1. head[b] = "" /\ head' = [head EXCEPT ![b] = "user"] /\ users' = users \cup {b} /\ UNCHANGED pushed
      BY <2>5 DEF UserBranches
    <3>2. \A c \in PrCalls : pr'[c] =
            [pr[c] EXCEPT !.raced = pr[c].raced \/ (pr[c].branch = b /\ pr[c].at \notin {"refused", "ended"})]
      BY <2>5 DEF UserBranches
    <3>3. \A c \in PrCalls : /\ pr'[c] \in PrCall
                             /\ pr'[c].at = pr[c].at /\ pr'[c].branch = pr[c].branch /\ pr'[c].tree = pr[c].tree
                             /\ pr[c].raced => pr'[c].raced
                             /\ pr[c].branch = b /\ pr[c].at \notin {"refused", "ended"} => pr'[c].raced
                             /\ pr'[c].raced => pr[c].raced \/ (pr[c].branch = b /\ pr[c].at \notin {"refused", "ended"})
      <4> SUFFICES ASSUME NEW c \in PrCalls
                   PROVE  /\ pr'[c] \in PrCall
                          /\ pr'[c].at = pr[c].at /\ pr'[c].branch = pr[c].branch /\ pr'[c].tree = pr[c].tree
                          /\ pr[c].raced => pr'[c].raced
                          /\ pr[c].branch = b /\ pr[c].at \notin {"refused", "ended"} => pr'[c].raced
                          /\ pr'[c].raced => pr[c].raced \/ (pr[c].branch = b /\ pr[c].at \notin {"refused", "ended"})
        OBVIOUS
      <4> DEFINE lost == pr[c].raced \/ (pr[c].branch = b /\ pr[c].at \notin {"refused", "ended"})
      <4>1. pr'[c] = [pr[c] EXCEPT !.raced = lost] /\ pr[c] \in PrCall
        BY <2>t, <3>2
      <4>2. lost \in BOOLEAN
        OBVIOUS
      <4>3. lost <=> pr[c].raced \/ (pr[c].branch = b /\ pr[c].at \notin {"refused", "ended"})
        OBVIOUS
      <4> HIDE DEF lost
      <4>4. /\ pr'[c] \in PrCall /\ pr'[c].at = pr[c].at /\ pr'[c].branch = pr[c].branch
            /\ pr'[c].tree = pr[c].tree /\ pr'[c].raced = lost
        BY <4>1, <4>2 DEF PrCall
      <4> QED BY <4>3, <4>4
    <3>4. pr' \in [PrCalls -> PrCall]
      <4>1. pr' = [c \in PrCalls |-> pr'[c]]
        BY <2>5 DEF UserBranches
      <4> QED BY <3>3, <4>1
    <3>5. head' \in [Branches -> {"", "user"} \cup PrCalls]
          /\ \A e \in Branches : head'[e] = IF e = b THEN "user" ELSE head[e]
      BY <2>t, <3>1
    <3>6. PrTypeOK'
      BY <2>t, <3>1, <3>4, <3>5 DEF PrTypeOK, PrCall
    <3>7. BranchesOwned'
      <4>1. ASSUME NEW c \in PrCalls, NEW e \in Branches, head'[e] = c
            PROVE  pr'[c].branch = e /\ pr'[c].at \in Going \ {"checked"}
        <5>1. head[e] = c
          BY <3>5, <4>1, GitOpsAssumption
        <5> QED BY <3>3, <5>1 DEF PrInv, BranchesOwned
      <4> QED BY <4>1 DEF BranchesOwned
    <3>8. TreesHold'
      <4>1. ASSUME NEW c \in PrCalls, pr'[c].tree
            PROVE  pr'[c].at \in {"added", "committed", "pushed", "removing"} /\ pr'[c].branch \in Branches /\ head'[pr'[c].branch] = c
        <5>0. pr[c].tree
          BY <3>3, <4>1
        <5>1. pr[c].at \in {"added", "committed", "pushed", "removing"} /\ pr[c].branch \in Branches /\ head[pr[c].branch] = c
          BY <5>0 DEF PrInv, TreesHold
        <5>2. pr[c].branch # b
          BY <3>1, <5>1, GitOpsAssumption
        <5> QED BY <3>3, <3>5, <5>1, <5>2
      <4> QED BY <4>1 DEF TreesHold
    <3>9. RacesKnown'
      <4>1. ASSUME NEW c \in PrCalls, pr'[c].at \in Going, pr'[c].branch \in users'
            PROVE  \E d \in PrCalls : pr'[d].branch = pr'[c].branch /\ pr'[d].raced
        <5>1. CASE pr[c].branch = b
          <6>1. pr'[c].raced
            BY <3>3, <4>1, <5>1 DEF Going
          <6> QED BY <6>1
        <5>2. CASE pr[c].branch # b
          <6>1. pr[c].at \in Going /\ pr[c].branch \in users
            BY <3>1, <3>3, <4>1, <5>2
          <6>2. PICK d \in PrCalls : pr[d].branch = pr[c].branch /\ pr[d].raced
            BY <6>1 DEF PrInv, RacesKnown
          <6> QED BY <3>3, <6>2
        <5> QED BY <5>1, <5>2
      <4> QED BY <4>1 DEF RacesKnown
    <3>10. NewIsNew'
      <4> SUFFICES ASSUME NEW c \in PrCalls
                   PROVE  IF pr'[c].at = "new" THEN ~pr'[c].raced /\ pr'[c].branch = "" ELSE pr'[c].branch \in Branches
        BY DEF NewIsNew
      <4>1. CASE pr[c].at = "new"
        <5>1. ~pr[c].raced /\ pr[c].branch = ""
          BY <4>1 DEF PrInv, NewIsNew
        <5>2. pr[c].branch # b
          BY <5>1, GitOpsAssumption
        <5> QED BY <3>3, <4>1, <5>1, <5>2
      <4>2. CASE pr[c].at # "new"
        <5>1. pr[c].branch \in Branches
          BY <4>2 DEF PrInv, NewIsNew
        <5> QED BY <3>3, <4>2, <5>1
      <4> QED BY <4>1, <4>2
    <3>11. UsersKept'
      <4>1. ASSUME NEW e \in users'
            PROVE  head'[e] = "user" \/ \E c \in PrCalls : pr'[c].branch = e /\ pr'[c].raced
        <5>1. CASE e = b
          BY <3>5, <5>1
        <5>2. CASE e # b
          <6>1. e \in users /\ e \in Branches /\ head'[e] = head[e]
            BY <2>t, <3>1, <3>5, <5>2
          <6>2. head[e] = "user" \/ \E c \in PrCalls : pr[c].branch = e /\ pr[c].raced
            BY <6>1 DEF PrInv, UsersKept
          <6> QED BY <3>3, <6>1, <6>2
        <5> QED BY <5>1, <5>2
      <4> QED BY <4>1 DEF UsersKept
    <3> QED BY <3>6, <3>7, <3>8, <3>9, <3>10, <3>11 DEF PrInv
  <2>6. CASE UNCHANGED prVars
    <3>1. head' = head /\ pr' = pr /\ pushed' = pushed /\ users' = users
      BY <2>6 DEF prVars
    <3>2. PrTypeOK'
      BY <3>1 DEF PrInv, PrTypeOK
    <3>3. BranchesOwned' /\ TreesHold'
      BY <3>1 DEF PrInv, BranchesOwned, TreesHold
    <3>4. RacesKnown'
      BY <3>1 DEF PrInv, RacesKnown
    <3>5. NewIsNew' /\ UsersKept'
      BY <3>1 DEF PrInv, NewIsNew, UsersKept
    <3> QED BY <3>2, <3>3, <3>4, <3>5 DEF PrInv
  <2> QED BY <2>1, <2>2, <2>3, <2>4, <2>5, <2>6 DEF PrNext
<1> QED BY <1>1, <1>2, PrInvEnough, PTL DEF PrSpec
----------------------------------------------------------------------------
ReaderState == [at : {"idle", "asking", "read", "has"}, now : Nat, value : SUBSET SecretValues]

\* What the vault had it still has had: later ticks only add to the values.
LEMMA StillHad ==
  ASSUME vault \in Seq(SecretValues), NEW w \in SecretValues, vault' = Append(vault, w) \/ vault' = vault,
         NEW v, NEW n \in Nat \ {0}, HadSince(v, n)
  PROVE  HadSince(v, n)'
<1>1. PICK i \in n..Len(vault) : vault[i] = v
  BY DEF HadSince, Present
<1>2. i \in n..Len(vault') /\ vault'[i] = v
  BY <1>1
<1> QED BY <1>2 DEF HadSince, Present

\* What one thread may bring about: it has asked, and what it read the vault had since.
Sound(r) ==
  /\ r \in ReaderState
  /\ r.at # "idle" => r.now \in 1..Present
  /\ r.at = "read" => \A v \in r.value : HadSince(v, r.now)
  /\ r.at = "has" => \A v \in r.value : \E i \in 1..Present : vault[i] = v /\ r.now < i + TTL

\* A step of one thread that leaves the vault alone.
LEMMA ReaderMoves ==
  ASSUME SecretsInv, UNCHANGED vault, NEW t \in SecretReaders, NEW r, Sound(r),
         reader' = [reader EXCEPT ![t] = r],
         cached' \subseteq Entry, \A e \in cached' : e.stamp > 0 /\ HadSince(e.value, e.stamp)
  PROVE  SecretsInv'
<1>1. reader \in [SecretReaders -> ReaderState] /\ r \in ReaderState
  BY DEF SecretsInv, SecretsTypeOK, ReaderState, Sound
<1>2. reader' \in [SecretReaders -> ReaderState] /\ reader'[t] = r /\ \A u \in SecretReaders \ {t} : reader'[u] = reader[u]
  BY <1>1
<1>3. SecretsTypeOK'
  BY <1>2 DEF SecretsInv, SecretsTypeOK, ReaderState, Present, Entry
<1>4. EntriesHad'
  BY DEF EntriesHad, HadSince, Present
<1>5. ReadersHad'
  BY <1>2 DEF SecretsInv, ReadersHad, Sound, HadSince, Present
<1>6. SecretIsRecent'
  BY <1>2 DEF SecretsInv, SecretIsRecent, Sound, Present
<1> QED BY <1>3, <1>4, <1>5, <1>6 DEF SecretsInv

\* The same for a step that leaves the cache alone, too.
LEMMA ReaderMovesAlone ==
  ASSUME SecretsInv, vault' = vault, cached' = cached, NEW t \in SecretReaders, NEW r, Sound(r),
         reader' = [reader EXCEPT ![t] = r]
  PROVE  SecretsInv'
<1>1. cached' \subseteq Entry /\ \A e \in cached' : e.stamp > 0 /\ HadSince(e.value, e.stamp)
  BY DEF SecretsInv, SecretsTypeOK, EntriesHad
<1> QED BY <1>1, ReaderMoves

\* A secret that was rotated is gone from every answer asked for TTL after the rotation, for any
\* threads, however slow the vault and whenever the cache is cleared: SecretIsRecent.
THEOREM SecretsCorrect == SecretsSpec => []SecretIsRecent
<1> USE SecretsAssumption
<1>1. SecretsInit => SecretsInv
  <2> SUFFICES ASSUME SecretsInit PROVE SecretsInv
    OBVIOUS
  <2>1. SecretsTypeOK
    BY DEF SecretsInit, SecretsTypeOK, Present
  <2>2. EntriesHad /\ ReadersHad /\ SecretIsRecent
    BY DEF SecretsInit, EntriesHad, ReadersHad, SecretIsRecent
  <2> QED BY <2>1, <2>2 DEF SecretsInv
<1>2. SecretsInv /\ [SecretsNext]_secretVars => SecretsInv'
  <2> SUFFICES ASSUME SecretsInv, [SecretsNext]_secretVars PROVE SecretsInv'
    OBVIOUS
  <2>t. vault \in Seq(SecretValues) /\ Present \in Nat \ {0} /\ cached \subseteq Entry
        /\ reader \in [SecretReaders -> ReaderState]
    BY DEF SecretsInv, SecretsTypeOK, Present, ReaderState
  <2>e. \A e \in cached : e.stamp \in Nat \ {0} /\ e.value \in SecretValues /\ HadSince(e.value, e.stamp)
    BY <2>t DEF SecretsInv, EntriesHad, Entry
  <2>1. ASSUME NEW t \in SecretReaders, Ask(t) PROVE SecretsInv'
    <3> DEFINE hits == {e \in cached : Fresh(e, Present)}
               r == [at |-> IF hits # {} THEN "has" ELSE "asking", now |-> Present, value |-> {e.value : e \in hits}]
    <3>1. UNCHANGED <<vault, cached>> /\ reader' = [reader EXCEPT ![t] = r]
      BY <2>1 DEF Ask
    <3>2. ASSUME NEW e \in hits PROVE \E i \in 1..Present : vault[i] = e.value /\ Present < i + TTL
      <4>1. PICK i \in e.stamp..Present : vault[i] = e.value
        BY <2>e DEF HadSince
      <4>2. Present < e.stamp + TTL
        BY DEF Fresh
      <4> QED BY <2>t, <2>e, <4>1, <4>2
    <3>3. \A v \in r.value : \E e \in hits : v = e.value
      OBVIOUS
    <3>4. r.at \in {"has", "asking"} /\ r.now = Present /\ r \in ReaderState
      BY <2>t, <2>e DEF ReaderState
    <3>5. \A v \in r.value : \E i \in 1..Present : vault[i] = v /\ r.now < i + TTL
      BY <3>2, <3>3, <3>4
    <3> HIDE DEF r
    <3>6. Sound(r)
      BY <2>t, <3>4, <3>5 DEF Sound
    <3> QED BY <3>1, <3>6, ReaderMovesAlone
  <2>2. ASSUME NEW t \in SecretReaders, VaultAnswers(t) PROVE SecretsInv'
    <3> DEFINE r == [reader[t] EXCEPT !.at = "read", !.value = {vault[Present]}]
    <3>1. UNCHANGED <<vault, cached>> /\ reader[t].at = "asking" /\ reader' = [reader EXCEPT ![t] = r]
      BY <2>2 DEF VaultAnswers
    <3>2. vault[Present] \in SecretValues /\ reader[t].now \in 1..Present
      BY <2>t, <3>1 DEF SecretsInv, ReadersHad, Present
    <3>3. r \in ReaderState /\ r.at = "read" /\ r.now = reader[t].now /\ r.value = {vault[Present]}
      BY <2>t, <3>2 DEF ReaderState
    <3>4. HadSince(vault[Present], reader[t].now)
      BY <2>t, <3>2 DEF HadSince
    <3> HIDE DEF r
    <3>5. Sound(r)
      BY <3>2, <3>3, <3>4 DEF Sound
    <3> QED BY <3>1, <3>5, ReaderMovesAlone
  <2>3. ASSUME NEW t \in SecretReaders, VaultRefuses(t) PROVE SecretsInv'
    <3> DEFINE r == [reader[t] EXCEPT !.at = "idle"]
    <3>1. UNCHANGED <<vault, cached>> /\ reader' = [reader EXCEPT ![t] = r]
      BY <2>3 DEF VaultRefuses
    <3>2. r \in ReaderState /\ r.at = "idle"
      BY <2>t DEF ReaderState
    <3> HIDE DEF r
    <3>3. Sound(r)
      BY <3>2 DEF Sound
    <3> QED BY <3>1, <3>3, ReaderMovesAlone
  <2>4. ASSUME NEW t \in SecretReaders, CacheIt(t) PROVE SecretsInv'
    <3> DEFINE r == [reader[t] EXCEPT !.at = "has"]
    <3>1. UNCHANGED vault /\ reader[t].at = "read" /\ reader' = [reader EXCEPT ![t] = r]
          /\ cached' = {[stamp |-> reader[t].now, value |-> v] : v \in reader[t].value}
      BY <2>4 DEF CacheIt
    <3>2. reader[t].now \in 1..Present /\ reader[t].value \subseteq SecretValues
          /\ \A v \in reader[t].value : HadSince(v, reader[t].now)
      BY <2>t, <3>1 DEF SecretsInv, ReadersHad, ReaderState
    <3>3. cached' \subseteq Entry /\ \A e \in cached' : e.stamp > 0 /\ HadSince(e.value, e.stamp)
      BY <2>t, <3>1, <3>2 DEF Entry
    <3>4. r \in ReaderState /\ r.at = "has" /\ r.now = reader[t].now /\ r.value = reader[t].value
      BY <2>t DEF ReaderState
    <3>5. ASSUME NEW v \in r.value PROVE \E i \in 1..Present : vault[i] = v /\ r.now < i + TTL
      <4>1. PICK i \in r.now..Present : vault[i] = v
        BY <3>2, <3>4 DEF HadSince
      <4> QED BY <2>t, <3>2, <3>4, <4>1
    <3> HIDE DEF r
    <3>6. Sound(r)
      BY <3>2, <3>4, <3>5 DEF Sound
    <3> QED BY <3>1, <3>3, <3>6, ReaderMoves
  <2>5. ASSUME NEW t \in SecretReaders, Forget(t) PROVE SecretsInv'
    <3> DEFINE r == [at |-> "idle", now |-> 0, value |-> {}]
    <3>1. UNCHANGED <<vault, cached>> /\ reader' = [reader EXCEPT ![t] = r]
      BY <2>5 DEF Forget
    <3>2. Sound(r)
      BY DEF Sound, ReaderState
    <3> QED BY <3>1, <3>2, ReaderMovesAlone
  <2>6. ASSUME ClearCache PROVE SecretsInv'
    <3>1. UNCHANGED <<vault, reader>> /\ cached' = {}
      BY <2>6 DEF ClearCache
    <3>2. SecretsTypeOK'
      BY <3>1 DEF SecretsInv, SecretsTypeOK, Present
    <3>3. EntriesHad'
      BY <3>1 DEF EntriesHad
    <3>4. ReadersHad' /\ SecretIsRecent'
      BY <3>1 DEF SecretsInv, ReadersHad, SecretIsRecent, HadSince, Present
    <3> QED BY <3>2, <3>3, <3>4 DEF SecretsInv
  <2>7. ASSUME NEW v \in SecretValues, Tick(v) PROVE SecretsInv'
    <3>1. vault' = Append(vault, v) /\ cached' = cached /\ reader' = reader
      BY <2>7 DEF Tick
    <3>2. vault' \in Seq(SecretValues) /\ Present' = Present + 1 /\ \A i \in 1..Present : vault'[i] = vault[i]
      BY <2>t, <3>1 DEF Present
    <3>3. SecretsTypeOK'
      BY <2>t, <3>1, <3>2 DEF SecretsInv, SecretsTypeOK, Entry
    <3>4. EntriesHad'
      BY <2>t, <2>e, <3>1, StillHad DEF EntriesHad
    <3>5. ReadersHad'
      <4>1. ASSUME NEW t \in SecretReaders, reader[t].at # "idle" PROVE reader[t].now \in 1..Present'
        BY <2>t, <3>2, <4>1 DEF SecretsInv, ReadersHad
      <4>2. ASSUME NEW t \in SecretReaders, reader[t].at = "read", NEW w \in reader[t].value
            PROVE  HadSince(w, reader[t].now)'
        <5>1. reader[t].now \in Nat \ {0} /\ HadSince(w, reader[t].now)
          BY <2>t, <4>2 DEF SecretsInv, ReadersHad
        <5>2. PICK i \in reader[t].now..Present : vault[i] = w
          BY <5>1 DEF HadSince
        <5>4. reader'[t].now = reader[t].now
          BY <3>1
        <5>5. i \in 1..Present /\ i \in reader[t].now..(Present + 1)
          BY <2>t, <5>1, <5>2
        <5>3. i \in reader'[t].now..Present' /\ vault'[i] = w
          BY <3>2, <5>2, <5>4, <5>5
        <5> QED BY <5>3 DEF HadSince
      <4> QED BY <3>1, <4>1, <4>2 DEF ReadersHad
    <3>6. SecretIsRecent'
      <4>1. ASSUME NEW t \in SecretReaders, reader[t].at = "has", NEW w \in reader[t].value
            PROVE  \E i \in 1..Present' : vault'[i] = w /\ reader[t].now < i + TTL
        <5>1. PICK i \in 1..Present : vault[i] = w /\ reader[t].now < i + TTL
          BY <4>1 DEF SecretsInv, SecretIsRecent
        <5> QED BY <2>t, <3>2, <5>1
      <4> QED BY <3>1, <4>1 DEF SecretIsRecent
    <3> QED BY <3>3, <3>4, <3>5, <3>6 DEF SecretsInv
  <2>8. CASE UNCHANGED secretVars
    <3>1. vault' = vault /\ cached' = cached /\ reader' = reader
      BY <2>8 DEF secretVars
    <3>2. SecretsTypeOK'
      BY <3>1 DEF SecretsInv, SecretsTypeOK, Present
    <3>3. EntriesHad' /\ ReadersHad'
      BY <3>1 DEF SecretsInv, EntriesHad, ReadersHad, HadSince, Present
    <3>4. SecretIsRecent'
      BY <3>1 DEF SecretsInv, SecretIsRecent, Present
    <3> QED BY <3>2, <3>3, <3>4 DEF SecretsInv
  <2> QED BY <2>1, <2>2, <2>3, <2>4, <2>5, <2>6, <2>7, <2>8 DEF SecretsNext
<1>3. SecretsInv => SecretIsRecent
  BY DEF SecretsInv
<1> QED BY <1>1, <1>2, <1>3, PTL DEF SecretsSpec
----------------------------------------------------------------------------
(* Skills *)

\* What the steps make of a directory.
LEMMA FoldersMade ==
  /\ NoFolder \in Folders /\ EmptyFolder \in Folders
  /\ \A n \in SkillDirs, by \in Authorship : SkillFile(n, by) \in Folders
<1>1. NoFolder \in Folders /\ EmptyFolder \in Folders
  BY DEF NoFolder, EmptyFolder, Folders
<1>2. ASSUME NEW n \in SkillDirs, NEW by \in Authorship PROVE SkillFile(n, by) \in Folders
  <2>1. [name |-> n, by |-> by] \in [name : SkillDirs, by : Authorship]
    OBVIOUS
  <2>2. {[name |-> n, by |-> by]} \subseteq [name : SkillDirs, by : Authorship]
    BY <2>1
  <2> QED BY <2>2 DEF SkillFile, Folders
<1> QED BY <1>1, <1>2

\* The state keeps its type (rows, directories and threads of skill_manage, promotions, curator).
THEOREM SkillsTypeCorrect == SkillsSpec => []SkillsTypeOK
<1> USE SkillsAssumption
<1>1. SkillsInit => SkillsTypeOK
  BY DEF SkillsInit, SkillsTypeOK, NoFolder, Human, SkillFile, Resting, NoPromotion, NotCurating, Authorship, Folders
<1>2. SkillsTypeOK /\ [SkillsNext]_skillVars => SkillsTypeOK'
  <2> SUFFICES ASSUME SkillsTypeOK, [SkillsNext]_skillVars PROVE SkillsTypeOK'
    OBVIOUS
  <2> USE DEF SkillsTypeOK
  <2>1. ASSUME NEW c \in Managers, NEW d \in SkillDirs, CreateChecks(c, d) PROVE SkillsTypeOK'
    BY <2>1 DEF CreateChecks, Goes
  <2>2. ASSUME NEW c \in Managers, NEW d \in SkillDirs, NEW action \in {"patch", "delete"},
               ReadsAuthor(c, d, action)
        PROVE SkillsTypeOK'
    BY <2>2 DEF ReadsAuthor, Goes
  <2>3. ASSUME NEW c \in Managers, CreateMakes(c) PROVE SkillsTypeOK'
    <3>1. manager' \in [Managers -> [at : {"idle", "create", "write", "patch", "delete"}, dir : SkillDirs \union {0}]]
      BY <2>3 DEF CreateMakes, Goes
    <3>2. folder' \in [SkillDirs -> Folders]
      BY <2>3, FoldersMade DEF CreateMakes
    <3>5. UNCHANGED <<promotion, metrics, legacy, curator>>
      BY <2>3 DEF CreateMakes
    <3> QED BY <3>1, <3>2, <3>5
  <2>4. ASSUME NEW c \in Managers, CreateWrites(c) PROVE SkillsTypeOK'
    <3>1. manager' \in [Managers -> [at : {"idle", "create", "write", "patch", "delete"}, dir : SkillDirs \union {0}]]
      BY <2>4 DEF CreateWrites, Goes
    <3>2. folder' \in [SkillDirs -> Folders]
      BY <2>4, FoldersMade DEF CreateWrites, Authorship
    <3>5. UNCHANGED <<promotion, metrics, legacy, curator>>
      BY <2>4 DEF CreateWrites
    <3> QED BY <3>1, <3>2, <3>5
  <2>5. ASSUME NEW c \in Managers, Deletes(c) PROVE SkillsTypeOK'
    BY <2>5, FoldersMade DEF Deletes, Goes
  <2>6. ASSUME NEW c \in Managers, Patches(c) PROVE SkillsTypeOK'
    <3>1. manager' \in [Managers -> [at : {"idle", "create", "write", "patch", "delete"}, dir : SkillDirs \union {0}]]
      BY <2>6 DEF Patches, Goes
    <3>2. folder' \in [SkillDirs -> Folders]
      BY <2>6, FoldersMade DEF Patches
    <3>5. UNCHANGED <<promotion, metrics, legacy, curator>>
      BY <2>6 DEF Patches
    <3> QED BY <3>1, <3>2, <3>5
  <2>7. ASSUME NEW p \in Promotions, NEW candidate \in Candidate, Proposes(p, candidate) PROVE SkillsTypeOK'
    BY <2>7 DEF Proposes
  <2>8. ASSUME NEW p \in Promotions, Rejected(p) PROVE SkillsTypeOK'
    <3>1. promotion[p].status = "pending_approval"
      BY <2>8 DEF Rejected, TransitionTo, Transitions
    <3>2. promotion[p] \in [status : {"pending_approval", "validated", "rejected"}, candidate : Candidate]
      BY <3>1 DEF NoPromotion
    <3> QED BY <2>8, <3>2 DEF Rejected, TransitionTo
  <2>9. ASSUME NEW p \in Promotions, Validated(p) PROVE SkillsTypeOK'
    <3>1. promotion[p] \in [status : {"pending_approval", "validated", "rejected"}, candidate : Candidate]
      BY <2>9 DEF Validated, NoPromotion
    <3>2. promotion[p].candidate.name \in SkillDirs
      BY <3>1 DEF Candidate
    <3>3. promotion' \in [Promotions -> {NoPromotion} \union
                      [status : {"pending_approval", "validated", "rejected"}, candidate : Candidate]]
      BY <2>9, <3>1 DEF Validated, TransitionTo, Forgets
    <3>4. folder' \in [SkillDirs -> Folders]
      BY <2>9, <3>2, FoldersMade DEF Validated
    <3>5. UNCHANGED <<manager, metrics, legacy, curator>>
      BY <2>9 DEF Validated
    <3> QED BY <3>3, <3>4, <3>5
  <2>10. ASSUME NEW p \in Promotions, RegistryWrites(p) PROVE SkillsTypeOK'
    <3>1. promotion' \in [Promotions -> {NoPromotion} \union
                      [status : {"pending_approval", "validated", "rejected"}, candidate : Candidate]]
      BY <2>10 DEF RegistryWrites, Forgets
    <3>2. promotion[p].candidate.name \in SkillDirs
      BY <2>10 DEF RegistryWrites, NoPromotion, Candidate
    <3>3. folder' \in [SkillDirs -> Folders]
      BY <2>10, <3>2, FoldersMade DEF RegistryWrites, Authorship
    <3>5. UNCHANGED <<manager, metrics, legacy, curator>>
      BY <2>10 DEF RegistryWrites
    <3> QED BY <3>1, <3>3, <3>5
  <2>11. ASSUME NEW n \in SkillDirs, Prunes(n) PROVE SkillsTypeOK'
    <3>1. folder' \in [SkillDirs -> Folders]
      BY <2>11, FoldersMade DEF Prunes
    <3> QED BY <2>11, <3>1 DEF Prunes
  <2>12. ASSUME NEW n \in SkillDirs, NEW ok \in BOOLEAN, RecordsOutcome(n, ok) PROVE SkillsTypeOK'
    <3> DEFINE old == IF metrics[n] = {} THEN [good |-> 0, bad |-> 0] ELSE CHOOSE m \in metrics[n] : TRUE
    <3>1. old \in [good : 0..MaxUses, bad : 0..MaxUses]
      OBVIOUS
    <3>2. (IF ok THEN old.good ELSE old.bad) < MaxUses
          /\ metrics' = [metrics EXCEPT ![n] = {IF ok THEN [old EXCEPT !.good = @ + 1] ELSE [old EXCEPT !.bad = @ + 1]}]
      BY <2>12 DEF RecordsOutcome
    <3> HIDE DEF old
    <3>3. metrics' \in [SkillDirs -> SUBSET [good : 0..MaxUses, bad : 0..MaxUses]]
      BY <3>1, <3>2
    <3> QED BY <2>12, <3>3 DEF RecordsOutcome
  <2>13. ASSUME Curates PROVE SkillsTypeOK'
    BY <2>13 DEF Curates, Discovered
  <2>14. ASSUME PruneEnds PROVE SkillsTypeOK'
    BY <2>14 DEF PruneEnds, NotCurating
  <2>15. ASSUME SkillsStop PROVE SkillsTypeOK'
    BY <2>15 DEF SkillsStop, NotCurating, Resting
  <2>16. CASE UNCHANGED skillVars
    BY <2>16 DEF skillVars
  <2> QED
    BY <2>1, <2>2, <2>3, <2>4, <2>5, <2>6, <2>7, <2>8, <2>9, <2>10, <2>11, <2>12, <2>13, <2>14, <2>15, <2>16
    DEF SkillsNext
<1> QED BY <1>1, <1>2, PTL DEF SkillsSpec
----------------------------------------------------------------------------
\* The frontmatter of what a human wrote is a human's: a thread, promotion or curator that goes
\* by the author or by an empty place keeps away from it.
LEMMA HumanIsKnown ==
  ASSUME HumanSkillsStay, NEW d \in HumanDirs
  PROVE  folder[d].made /\ ~OfAgent(d)
<1>1. folder[d] = [made |-> TRUE, skill |-> {[name |-> d, by |-> "human-authored"]}]
  BY DEF HumanSkillsStay, Human, SkillFile
<1>2. folder[d].made /\ folder[d].skill = {[name |-> d, by |-> "human-authored"]}
  BY <1>1
<1>3. \A s \in folder[d].skill : s.by = "human-authored"
  BY <1>2
<1> QED BY <1>2, <1>3 DEF OfAgent

\* A directory that is not a human's may change.
LEMMA HumanKept ==
  ASSUME SkillsTypeOK, HumanSkillsStay, NEW e, e \notin HumanDirs, NEW f,
         folder' = [folder EXCEPT ![e] = f]
  PROVE  HumanSkillsStay'
BY SkillsAssumption DEF SkillsTypeOK, HumanSkillsStay, Human

\* What a human wrote stays as it is, whatever skill_manage, promote_candidate_skill and the
\* curator do, in any number and order.
THEOREM HumanSkillsCorrect == SkillsSpec => []HumanSkillsStay
<1> USE SkillsAssumption
<1>1. SkillsInit => SkillsInv
  <2> SUFFICES ASSUME SkillsInit PROVE SkillsInv
    OBVIOUS
  <2>1. HumanSkillsStay
    BY DEF SkillsInit, HumanSkillsStay
  <2>2. ManagersAway
    BY DEF SkillsInit, ManagersAway, Resting
  <2>3. PromotionsAway
    BY DEF SkillsInit, PromotionsAway, NoPromotion
  <2>4. CuratorAway
    BY DEF SkillsInit, CuratorAway, NotCurating
  <2> QED BY <2>1, <2>2, <2>3, <2>4 DEF SkillsInv
<1>2. SkillsTypeOK /\ SkillsInv /\ [SkillsNext]_skillVars => SkillsInv'
  <2> SUFFICES ASSUME SkillsTypeOK, SkillsInv, [SkillsNext]_skillVars PROVE SkillsInv'
    OBVIOUS
  <2>0. HumanSkillsStay /\ ManagersAway /\ PromotionsAway /\ CuratorAway
    BY DEF SkillsInv
  <2>p. SkillsInv' <=> HumanSkillsStay' /\ ManagersAway' /\ PromotionsAway' /\ CuratorAway'
    BY DEF SkillsInv
  <2>m. manager \in [Managers -> [at : {"idle", "create", "write", "patch", "delete"}, dir : SkillDirs \union {0}]]
    BY DEF SkillsTypeOK
  <2>n. DOMAIN promotion = Promotions
    BY DEF SkillsTypeOK
  <2>1. ASSUME NEW c \in Managers, NEW d \in SkillDirs, CreateChecks(c, d) PROVE SkillsInv'
    BY <2>0, <2>1, <2>m, <2>p DEF CreateChecks, Goes, HumanSkillsStay, ManagersAway, PromotionsAway, CuratorAway
  <2>2. ASSUME NEW c \in Managers, NEW d \in SkillDirs, NEW action \in {"patch", "delete"},
               ReadsAuthor(c, d, action)
        PROVE SkillsInv'
    <3>1. d \notin HumanDirs
      BY <2>0, <2>2, HumanIsKnown DEF ReadsAuthor
    <3>2. ManagersAway'
      BY <2>0, <2>2, <2>m, <3>1 DEF ReadsAuthor, Goes, ManagersAway
    <3> QED BY <2>0, <2>2, <2>p, <3>2 DEF ReadsAuthor, HumanSkillsStay, PromotionsAway, CuratorAway
  <2>3. ASSUME NEW c \in Managers, CreateMakes(c) PROVE SkillsInv'
    <3>1. PromotionsAway' /\ CuratorAway'
      BY <2>0, <2>3 DEF CreateMakes, PromotionsAway, CuratorAway
    <3>2. CASE folder[manager[c].dir].made
      <4>1. ManagersAway'
        BY <2>0, <2>3, <2>m, <3>2 DEF CreateMakes, Goes, ManagersAway
      <4> QED BY <2>0, <2>3, <2>p, <3>1, <3>2, <4>1 DEF CreateMakes, HumanSkillsStay
    <3>3. CASE ~folder[manager[c].dir].made
      <4>1. manager[c].dir \notin HumanDirs
        BY <2>0, <3>3, HumanIsKnown
      <4>2. HumanSkillsStay'
        BY <2>0, <2>3, <3>3, <4>1, HumanKept DEF CreateMakes
      <4>3. ManagersAway'
        BY <2>0, <2>3, <2>m, <3>3, <4>1 DEF CreateMakes, Goes, ManagersAway
      <4> QED BY <2>p, <3>1, <4>2, <4>3
    <3> QED BY <3>2, <3>3
  <2>4. ASSUME NEW c \in Managers, CreateWrites(c) PROVE SkillsInv'
    <3>1. manager[c].dir \notin HumanDirs
      BY <2>0, <2>4 DEF CreateWrites, ManagersAway
    <3>2. HumanSkillsStay'
      BY <2>0, <2>4, <3>1, HumanKept DEF CreateWrites, HumanSkillsStay
    <3>3. ManagersAway'
      BY <2>0, <2>4, <2>m DEF CreateWrites, Goes, ManagersAway
    <3> QED BY <2>0, <2>4, <2>p, <3>2, <3>3 DEF CreateWrites, PromotionsAway, CuratorAway
  <2>5. ASSUME NEW c \in Managers, Deletes(c) PROVE SkillsInv'
    <3>1. manager[c].dir \notin HumanDirs
      BY <2>0, <2>5 DEF Deletes, ManagersAway
    <3>2. HumanSkillsStay'
      BY <2>0, <2>5, <3>1, HumanKept DEF Deletes
    <3>3. ManagersAway'
      BY <2>0, <2>5, <2>m DEF Deletes, Goes, ManagersAway
    <3> QED BY <2>0, <2>5, <2>p, <3>2, <3>3 DEF Deletes, PromotionsAway, CuratorAway
  <2>6. ASSUME NEW c \in Managers, Patches(c) PROVE SkillsInv'
    <3>1. manager[c].dir \notin HumanDirs
      BY <2>0, <2>6 DEF Patches, ManagersAway
    <3>2. HumanSkillsStay'
      BY <2>0, <2>6, <3>1, HumanKept DEF Patches, HumanSkillsStay
    <3>3. ManagersAway'
      BY <2>0, <2>6, <2>m DEF Patches, Goes, ManagersAway
    <3> QED BY <2>0, <2>6, <2>p, <3>2, <3>3 DEF Patches, PromotionsAway, CuratorAway
  <2>7. ASSUME NEW p \in Promotions, NEW candidate \in Candidate, Proposes(p, candidate) PROVE SkillsInv'
    BY <2>0, <2>7, <2>n, <2>p DEF Proposes, HumanSkillsStay, ManagersAway, PromotionsAway, CuratorAway
  <2>8. ASSUME NEW p \in Promotions, Rejected(p) PROVE SkillsInv'
    <3>1. PromotionsAway'
      BY <2>0, <2>8, <2>n DEF Rejected, TransitionTo, PromotionsAway
    <3> QED BY <2>0, <2>8, <2>p, <3>1 DEF Rejected, HumanSkillsStay, ManagersAway, CuratorAway
  <2>9. ASSUME NEW p \in Promotions, Validated(p) PROVE SkillsInv'
    <3> DEFINE d == promotion[p].candidate.name
    <3>1. ManagersAway' /\ CuratorAway'
      BY <2>0, <2>9 DEF Validated, ManagersAway, CuratorAway
    <3>2. CASE folder[d].made
      <4>1. PromotionsAway'
        BY <2>0, <2>9, <2>n, <3>2 DEF Validated, Forgets, NoPromotion, PromotionsAway
      <4> QED BY <2>0, <2>9, <2>p, <3>1, <3>2, <4>1 DEF Validated, HumanSkillsStay
    <3>3. CASE ~folder[d].made
      <4>1. d \notin HumanDirs
        BY <2>0, <3>3, HumanIsKnown
      <4>2. HumanSkillsStay'
        BY <2>0, <2>9, <3>3, <4>1, HumanKept DEF Validated
      <4>4. promotion' = [promotion EXCEPT ![p] = [promotion[p] EXCEPT !.status = "validated"]]
        BY <2>9, <3>3 DEF Validated, TransitionTo
      <4>5. promotion[p] \in [status : {"pending_approval", "validated", "rejected"}, candidate : Candidate]
        BY <2>9 DEF Validated, NoPromotion, SkillsTypeOK
      <4>6. promotion'[p].candidate = promotion[p].candidate
        BY <2>n, <4>4, <4>5
      <4>7. \A q \in Promotions \ {p} : promotion'[q] = promotion[q]
        BY <2>n, <4>4
      <4>3. PromotionsAway'
        BY <2>0, <4>1, <4>6, <4>7 DEF PromotionsAway
      <4> QED BY <2>p, <3>1, <4>2, <4>3
    <3> QED BY <3>2, <3>3
  <2>10. ASSUME NEW p \in Promotions, RegistryWrites(p) PROVE SkillsInv'
    <3>1. promotion[p].candidate.name \notin HumanDirs
      BY <2>0, <2>10 DEF RegistryWrites, PromotionsAway
    <3>2. HumanSkillsStay'
      BY <2>0, <2>10, <3>1, HumanKept DEF RegistryWrites, HumanSkillsStay
    <3>3. PromotionsAway'
      BY <2>0, <2>10, <2>n DEF RegistryWrites, Forgets, NoPromotion, PromotionsAway
    <3> QED BY <2>0, <2>10, <2>p, <3>2, <3>3 DEF RegistryWrites, ManagersAway, CuratorAway
  <2>11. ASSUME NEW n \in SkillDirs, Prunes(n) PROVE SkillsInv'
    <3>1. ManagersAway' /\ PromotionsAway'
      BY <2>0, <2>11 DEF Prunes, ManagersAway, PromotionsAway
    <3>4. curator'.found = curator.found
      BY <2>11 DEF Prunes, SkillsTypeOK
    <3>2. CuratorAway'
      BY <2>0, <3>4 DEF CuratorAway
    <3>3. HumanSkillsStay'
      <4>1. CASE UNCHANGED folder
        BY <2>0, <4>1 DEF HumanSkillsStay
      <4>2. CASE \E f \in curator.found : f.by = "agent-created" /\ folder' = [folder EXCEPT ![f.dir] = NoFolder]
        BY <2>0, <4>2, HumanKept DEF CuratorAway
      <4> QED BY <2>11, <4>1, <4>2 DEF Prunes
    <3> QED BY <2>p, <3>1, <3>2, <3>3
  <2>12. ASSUME NEW n \in SkillDirs, NEW ok \in BOOLEAN, RecordsOutcome(n, ok) PROVE SkillsInv'
    BY <2>0, <2>12, <2>p DEF RecordsOutcome, HumanSkillsStay, ManagersAway, PromotionsAway, CuratorAway
  <2>13. ASSUME Curates PROVE SkillsInv'
    <3>1. ASSUME NEW f \in Discovered, f.by = "agent-created" PROVE f.dir \notin HumanDirs
      <4>1. f.dir \in SkillDirs /\ [name |-> f.name, by |-> f.by] \in folder[f.dir].skill
        BY DEF Discovered
      <4>2. OfAgent(f.dir)
        BY <3>1, <4>1 DEF OfAgent
      <4> QED BY <2>0, <4>2, HumanIsKnown
    <3>2. CuratorAway'
      BY <2>13, <3>1 DEF Curates, CuratorAway
    <3> QED BY <2>0, <2>13, <2>p, <3>2 DEF Curates, HumanSkillsStay, ManagersAway, PromotionsAway
  <2>14. ASSUME PruneEnds PROVE SkillsInv'
    BY <2>0, <2>14, <2>p DEF PruneEnds, NotCurating, HumanSkillsStay, ManagersAway, PromotionsAway, CuratorAway
  <2>15. ASSUME SkillsStop PROVE SkillsInv'
    BY <2>0, <2>15, <2>p DEF SkillsStop, NotCurating, Resting, NoPromotion, HumanSkillsStay, ManagersAway, PromotionsAway, CuratorAway
  <2>16. CASE UNCHANGED skillVars
    BY <2>0, <2>16, <2>p DEF skillVars, HumanSkillsStay, ManagersAway, PromotionsAway, CuratorAway
  <2> QED
    BY <2>1, <2>2, <2>3, <2>4, <2>5, <2>6, <2>7, <2>8, <2>9, <2>10, <2>11, <2>12, <2>13, <2>14, <2>15, <2>16
    DEF SkillsNext
<1>3. SkillsInv => HumanSkillsStay
  BY DEF SkillsInv
<1> QED BY <1>1, <1>2, <1>3, SkillsTypeCorrect, PTL DEF SkillsSpec

----------------------------------------------------------------------------
(* Where the secrets live. *)

Kept == Values \union {NoValue}
WriteCommand ==
  [at : Stores, merged : [Secrets -> Kept], items : SUBSET Secrets, new : [Secrets -> Kept],
   unread : SUBSET Secrets, todo : SUBSET Secrets]

KeystoreTypeOK ==
  /\ dotenv \in [values : [Secrets -> Kept], items : SUBSET Secrets]
  /\ keyring \in [Secrets -> Kept]
  /\ usable \in BOOLEAN
  /\ cmd \in {NoCommand} \union WriteCommand \union [at : {"delete"}, name : Secrets]
  /\ meant \in [Secrets -> SUBSET Kept]
  /\ dropped \subseteq Secrets

\* What a process would read if the keyring answered, ...
Reads(n) ==
  IF dotenv.values[n] # NoValue THEN dotenv.values[n]
  ELSE IF n \in dotenv.items THEN keyring[n] ELSE NoValue

\* ... and what it will read after the write that is under way, if the keyring answers that.
WillRead(n) ==
  IF cmd.merged[n] # NoValue THEN cmd.merged[n]
  ELSE IF n \in (IF cmd.at = "keyring" THEN cmd.items ELSE cmd.todo) THEN keyring[n] ELSE NoValue

\* The inductive form: as it is, and as the command will leave it.
WriteStands ==
  cmd \in WriteCommand =>
    /\ cmd.todo \subseteq (IF cmd.at = "keyring" THEN {n \in Secrets : cmd.merged[n] # NoValue} ELSE cmd.items)
    /\ \A n \in Secrets :
         /\ cmd.new[n] # NoValue => cmd.new[n] \in meant[n] /\ WillRead(n) = cmd.new[n]
         /\ cmd.new[n] = NoValue /\ n \notin dropped \union cmd.unread => WillRead(n) \in meant[n]
    /\ IF cmd.at = "keyring" THEN cmd.unread = {}
                             ELSE \A n \in Secrets : cmd.new[n] # NoValue => cmd.merged[n] = cmd.new[n]

KeystoreInv ==
  /\ KeystoreTypeOK
  /\ \A n \in Secrets \ dropped : Reads(n) \in meant[n]
  /\ WriteStands

LEMMA CommandKinds ==
  ASSUME KeystoreTypeOK
  PROVE  /\ cmd.at \in Stores => cmd \in WriteCommand
         /\ cmd.at = "delete" => cmd.name \in Secrets /\ cmd \notin WriteCommand
         /\ NoCommand \notin WriteCommand
BY DEF KeystoreTypeOK, WriteCommand, NoCommand, Stores

\* A write begins: nothing has moved yet.
LEMMA WriteBegins ==
  ASSUME KeystoreInv, NEW values \in [Secrets -> Kept], NEW store \in Stores, WriteEnv(values, store)
  PROVE  KeystoreInv'
<1> DEFINE merged == [n \in Secrets |-> IF values[n] # NoValue THEN values[n] ELSE dotenv.values[n]]
           todo == IF store = "keyring" THEN {n \in Secrets : merged[n] # NoValue} ELSE dotenv.items
           begun == [at |-> store, merged |-> merged, items |-> dotenv.items, new |-> values, unread |-> {}, todo |-> todo]
<1>1. /\ cmd' = begun /\ dotenv' = dotenv /\ keyring' = keyring /\ usable' = usable /\ dropped' = dropped
      /\ meant' = [n \in Secrets |-> IF values[n] # NoValue THEN meant[n] \union {values[n]} ELSE meant[n]]
  BY DEF WriteEnv
<1>2. KeystoreTypeOK /\ \A n \in Secrets \ dropped : Reads(n) \in meant[n]
  BY DEF KeystoreInv
<1>3. dotenv.values \in [Secrets -> Kept] /\ dotenv.items \subseteq Secrets /\ meant \in [Secrets -> SUBSET Kept]
  BY <1>2 DEF KeystoreTypeOK
<1>4. merged \in [Secrets -> Kept]
  BY <1>3
<1>5. todo \subseteq Secrets /\ todo \subseteq (IF store = "keyring" THEN {n \in Secrets : merged[n] # NoValue} ELSE dotenv.items)
  BY <1>3
<1>6. \A n \in Secrets : merged[n] = IF values[n] # NoValue THEN values[n] ELSE dotenv.values[n]
  OBVIOUS
<1>7. store # "keyring" => todo = dotenv.items
  OBVIOUS
<1> HIDE DEF merged, todo
<1>8. begun \in WriteCommand
  BY <1>3, <1>4, <1>5 DEF WriteCommand
<1>9. meant' \in [Secrets -> SUBSET Kept] /\ \A n \in Secrets : meant[n] \subseteq meant'[n] /\ (values[n] # NoValue => values[n] \in meant'[n])
  BY <1>1, <1>3
<1>10. KeystoreTypeOK'
  BY <1>1, <1>2, <1>8, <1>9 DEF KeystoreTypeOK
<1>11. \A n \in Secrets : Reads(n)' = Reads(n) /\ WillRead(n)' = IF values[n] # NoValue THEN values[n] ELSE Reads(n)
  BY <1>1, <1>6, <1>7 DEF Reads, WillRead
<1>12. WriteStands'
  <2>1. \A n \in Secrets : values[n] # NoValue => merged[n] = values[n]
    BY <1>6
  <2>2. \A n \in Secrets :
          /\ values[n] # NoValue => values[n] \in meant'[n] /\ WillRead(n)' = values[n]
          /\ values[n] = NoValue /\ n \notin dropped => WillRead(n)' \in meant'[n]
    BY <1>2, <1>9, <1>11
  <2> QED
    BY <1>1, <1>5, <2>1, <2>2 DEF WriteStands
<1> QED
  BY <1>1, <1>2, <1>9, <1>10, <1>11, <1>12 DEF KeystoreInv

\* Steps of commands, one per action.
LEMMA KeystoreStep == ASSUME KeystoreInv, [KeystoreNext]_keystoreVars PROVE KeystoreInv'
<1> USE KeystoreAssumption
<1>1. /\ KeystoreTypeOK /\ WriteStands /\ \A n \in Secrets \ dropped : Reads(n) \in meant[n]
      /\ dotenv.values \in [Secrets -> Kept] /\ dotenv.items \subseteq Secrets /\ keyring \in [Secrets -> Kept]
      /\ meant \in [Secrets -> SUBSET Kept]
  BY DEF KeystoreInv, KeystoreTypeOK
<1>2. \A n \in Secrets, v \in Kept : Setting(n, v) \in [Secrets -> Kept]
  BY DEF Setting, Kept
<1>3. ASSUME NEW store \in Stores, PenkoInit(store) PROVE KeystoreInv'
  <2>1. LoadEnv(Token) \in Kept
    BY <1>1 DEF LoadEnv, Get, Kept
  <2>2. PICK n \in Secrets \ {Token}, v \in Kept :
          WriteEnv([Setting(n, v) EXCEPT ![Token] = IF LoadEnv(Token) # NoValue THEN LoadEnv(Token) ELSE Drawn], store)
    BY <1>3 DEF PenkoInit, Kept
  <2>3. [Setting(n, v) EXCEPT ![Token] = IF LoadEnv(Token) # NoValue THEN LoadEnv(Token) ELSE Drawn] \in [Secrets -> Kept]
    BY <1>2, <2>1 DEF Kept
  <2> QED
    BY <2>2, <2>3, WriteBegins
<1>4. ASSUME NEW n \in Secrets, NEW v \in Values, SecretSet(n, v) PROVE KeystoreInv'
  BY <1>2, <1>4, WriteBegins DEF SecretSet, Kept, Stores
<1>5. CASE ThemeSet
  <2>1. [n \in Secrets |-> NoValue] \in [Secrets -> Kept]
    BY DEF Kept
  <2> QED
    BY <1>5, <2>1, WriteBegins DEF ThemeSet, Stores
<1>6. ASSUME NEW n \in Secrets, MoveToKeyring(n) PROVE KeystoreInv'
  <2>1. /\ cmd.at = "keyring" /\ n \in cmd.todo /\ keyring' = [keyring EXCEPT ![n] = cmd.merged[n]]
        /\ cmd' = [cmd EXCEPT !.merged[n] = NoValue, !.items = @ \union {n}, !.todo = @ \ {n}]
        /\ dotenv' = dotenv /\ usable' = usable /\ meant' = meant /\ dropped' = dropped
    BY <1>6 DEF MoveToKeyring
  <2>2. cmd \in WriteCommand
    BY <1>1, <2>1, CommandKinds DEF Stores
  <2>3. /\ cmd'.at = "keyring" /\ cmd'.merged = [cmd.merged EXCEPT ![n] = NoValue] /\ cmd'.items = cmd.items \union {n}
        /\ cmd'.todo = cmd.todo \ {n} /\ cmd'.new = cmd.new /\ cmd'.unread = cmd.unread /\ cmd' \in WriteCommand
    BY <2>1, <2>2 DEF WriteCommand, Kept
  <2>4. cmd.merged \in [Secrets -> Kept] /\ cmd.merged[n] # NoValue /\ WillRead(n) = cmd.merged[n]
    BY <1>1, <2>1, <2>2 DEF WriteCommand, WriteStands, WillRead
  <2>5. keyring' \in [Secrets -> Kept] /\ keyring'[n] = cmd.merged[n] /\ \A m \in Secrets \ {n} : keyring'[m] = keyring[m]
    BY <1>1, <2>1, <2>4
  <2>6. \A m \in Secrets : WillRead(m)' = WillRead(m)
    <3> SUFFICES ASSUME NEW m \in Secrets PROVE WillRead(m)' = WillRead(m)
      OBVIOUS
    <3>1. CASE m = n
      BY <2>1, <2>3, <2>4, <2>5, <3>1 DEF WillRead
    <3>2. CASE m # n
      BY <2>1, <2>3, <2>4, <2>5, <3>2 DEF WillRead
    <3> QED BY <3>1, <3>2
  <2>7. KeystoreTypeOK'
    BY <1>1, <2>1, <2>3, <2>5 DEF KeystoreTypeOK
  <2>8. ASSUME NEW m \in Secrets \ dropped PROVE Reads(m)' \in meant[m]
    <3>1. CASE Reads(m)' = Reads(m)
      BY <1>1, <3>1
    <3>2. CASE Reads(m)' # Reads(m)
      <4>1. m = n /\ Reads(m)' = WillRead(n)
        BY <2>1, <2>4, <2>5, <3>2 DEF Reads
      <4> QED BY <1>1, <2>1, <2>2, <4>1 DEF WriteStands
    <3> QED BY <3>1, <3>2
  <2>9. cmd'.todo \subseteq {m \in Secrets : cmd'.merged[m] # NoValue}
    BY <1>1, <2>1, <2>2, <2>3, <2>4 DEF WriteStands
  <2>10. WriteStands'
    BY <1>1, <2>1, <2>2, <2>3, <2>6, <2>9 DEF WriteStands
  <2> QED BY <2>1, <2>7, <2>8, <2>10 DEF KeystoreInv
<1>7. ASSUME NEW n \in Secrets, BringBack(n) PROVE KeystoreInv'
  <2> DEFINE got == IF cmd.merged[n] = NoValue THEN Get(n) ELSE cmd.merged[n]
             unread == IF cmd.merged[n] = NoValue /\ ~usable THEN cmd.unread \union {n} ELSE cmd.unread
  <2>1. /\ cmd.at = "file" /\ n \in cmd.todo
        /\ cmd' = [cmd EXCEPT !.merged[n] = IF @ = NoValue THEN Get(n) ELSE @, !.todo = @ \ {n},
                        !.unread = IF cmd.merged[n] = NoValue /\ ~usable THEN @ \union {n} ELSE @]
        /\ dotenv' = dotenv /\ keyring' = keyring /\ usable' = usable /\ meant' = meant /\ dropped' = dropped
    BY <1>7 DEF BringBack
  <2>2. cmd \in WriteCommand
    BY <1>1, <2>1, CommandKinds DEF Stores
  <2>3. Get(n) \in Kept
    BY <1>1 DEF Get, Kept
  <2>4. cmd.merged \in [Secrets -> Kept] /\ got \in Kept /\ unread \subseteq Secrets
    BY <2>2, <2>3 DEF WriteCommand
  <2>5. /\ cmd'.at = "file" /\ cmd'.merged = [cmd.merged EXCEPT ![n] = got] /\ cmd'.items = cmd.items
        /\ cmd'.todo = cmd.todo \ {n} /\ cmd'.new = cmd.new /\ cmd'.unread = unread
    BY <2>1, <2>2 DEF WriteCommand
  <2>6. cmd' \in WriteCommand
    <3>1. cmd'.merged \in [Secrets -> Kept]
      BY <2>4, <2>5
    <3> QED BY <2>1, <2>2, <2>4, <2>5, <3>1 DEF WriteCommand
  <2>7. cmd.unread \subseteq unread /\ (n \notin unread => got = WillRead(n))
    BY <2>1 DEF WillRead, Get
  <2>8. cmd.new[n] # NoValue => got = cmd.new[n]
    <3>1. cmd.new[n] # NoValue => cmd.merged[n] = cmd.new[n]
      BY <1>1, <2>1, <2>2 DEF WriteStands
    <3> QED BY <3>1
  <2> HIDE DEF got, unread
  <2>9. \A m \in Secrets : IF m = n THEN WillRead(m)' = got ELSE WillRead(m)' = WillRead(m)
    BY <2>1, <2>4, <2>5 DEF WillRead
  <2>10. KeystoreTypeOK'
    BY <1>1, <2>1, <2>6 DEF KeystoreTypeOK
  <2>11. WriteStands'
    <3>1. cmd'.todo \subseteq cmd'.items /\ cmd'.at # "keyring"
      BY <1>1, <2>1, <2>2, <2>5 DEF WriteStands
    <3>2. ASSUME NEW m \in Secrets
          PROVE  /\ cmd'.new[m] # NoValue => cmd'.new[m] \in meant'[m] /\ WillRead(m)' = cmd'.new[m]
                 /\ cmd'.new[m] = NoValue /\ m \notin dropped' \union cmd'.unread => WillRead(m)' \in meant'[m]
      <4>1. /\ cmd.new[m] # NoValue => cmd.new[m] \in meant[m] /\ WillRead(m) = cmd.new[m]
            /\ cmd.new[m] = NoValue /\ m \notin dropped \union cmd.unread => WillRead(m) \in meant[m]
        BY <1>1, <2>2 DEF WriteStands
      <4>2. IF m = n THEN WillRead(m)' = got ELSE WillRead(m)' = WillRead(m)
        BY <2>9
      <4> QED BY <2>1, <2>5, <2>7, <2>8, <4>1, <4>2
    <3>3. \A m \in Secrets : cmd'.new[m] # NoValue => cmd'.merged[m] = cmd'.new[m]
      <4>1. \A m \in Secrets : cmd.new[m] # NoValue => cmd.merged[m] = cmd.new[m]
        BY <1>1, <2>1, <2>2 DEF WriteStands
      <4> QED BY <2>4, <2>5, <2>8, <4>1
    <3> QED BY <3>1, <3>2, <3>3 DEF WriteStands
  <2>12. \A m \in Secrets : Reads(m)' = Reads(m)
    BY <2>1 DEF Reads
  <2> QED BY <1>1, <2>1, <2>10, <2>11, <2>12 DEF KeystoreInv
<1>8. CASE ReplaceFile
  <2>1. /\ cmd.at \in Stores /\ cmd.todo = {} /\ cmd' = NoCommand /\ keyring' = keyring /\ usable' = usable
        /\ dotenv' = [values |-> cmd.merged, items |-> IF cmd.at = "keyring" THEN cmd.items ELSE {}]
        /\ meant' = [n \in Secrets |-> IF cmd.new[n] # NoValue THEN {cmd.new[n]} ELSE meant[n]]
        /\ dropped' = {n \in dropped \union cmd.unread : cmd.new[n] = NoValue}
    BY <1>8 DEF ReplaceFile
  <2>2. cmd \in WriteCommand /\ cmd' \notin WriteCommand
    BY <1>1, <2>1, CommandKinds
  <2>3. cmd.merged \in [Secrets -> Kept] /\ cmd.items \subseteq Secrets /\ cmd.new \in [Secrets -> Kept] /\ cmd.unread \subseteq Secrets
    BY <2>2 DEF WriteCommand
  <2>4. \A n \in Secrets : Reads(n)' = WillRead(n)
    BY <2>1 DEF Reads, WillRead
  <2>5. meant' \in [Secrets -> SUBSET Kept] /\ dropped' \subseteq Secrets
        /\ dotenv' \in [values : [Secrets -> Kept], items : SUBSET Secrets]
    <3>1. dropped \subseteq Secrets
      BY <1>1 DEF KeystoreTypeOK
    <3> QED BY <1>1, <2>1, <2>3, <3>1
  <2>6. KeystoreTypeOK'
    BY <1>1, <2>1, <2>5 DEF KeystoreTypeOK
  <2>7. ASSUME NEW n \in Secrets \ dropped' PROVE Reads(n)' \in meant'[n]
    BY <1>1, <2>1, <2>2, <2>4, <2>7 DEF WriteStands
  <2> QED BY <2>2, <2>6, <2>7 DEF KeystoreInv, WriteStands
<1>9. ASSUME NEW n \in Secrets, DeleteSecret(n) PROVE KeystoreInv'
  <2>1. /\ keyring' = keyring \/ keyring' = [keyring EXCEPT ![n] = NoValue]
        /\ cmd' = [at |-> "delete", name |-> n] /\ meant' = [meant EXCEPT ![n] = @ \union {NoValue}]
        /\ dotenv' = dotenv /\ usable' = usable /\ dropped' = dropped
    BY <1>9 DEF DeleteSecret
  <2>2. keyring' \in [Secrets -> Kept] /\ meant' \in [Secrets -> SUBSET Kept]
        /\ \A m \in Secrets \ {n} : keyring'[m] = keyring[m] /\ meant'[m] = meant[m]
        /\ keyring'[n] \in {keyring[n], NoValue} /\ meant'[n] = meant[n] \union {NoValue}
    BY <1>1, <2>1 DEF Kept
  <2>3. cmd' \notin WriteCommand
    BY <2>1 DEF WriteCommand, Stores
  <2>4. KeystoreTypeOK'
    BY <1>1, <2>1, <2>2 DEF KeystoreTypeOK
  <2>5. \A m \in Secrets : Reads(m)' = Reads(m) \/ (m = n /\ Reads(m)' = NoValue)
    BY <2>1, <2>2 DEF Reads
  <2> QED BY <1>1, <2>1, <2>2, <2>3, <2>4, <2>5 DEF KeystoreInv, WriteStands
<1>10. CASE DeleteInFile
  <2>1. /\ cmd.at = "delete" /\ cmd' = NoCommand /\ keyring' = keyring /\ usable' = usable
        /\ dotenv' = [values |-> [dotenv.values EXCEPT ![cmd.name] = NoValue], items |-> dotenv.items \ {cmd.name}]
        /\ meant' = [meant EXCEPT ![cmd.name] = {NoValue}] /\ dropped' = dropped \ {cmd.name}
    BY <1>10 DEF DeleteInFile
  <2>2. cmd.name \in Secrets /\ NoCommand \notin WriteCommand
    BY <1>1, <2>1, CommandKinds
  <2>3. meant' \in [Secrets -> SUBSET Kept] /\ [dotenv.values EXCEPT ![cmd.name] = NoValue] \in [Secrets -> Kept]
    BY <1>1, <2>1, <2>2 DEF Kept
  <2>4. KeystoreTypeOK'
    BY <1>1, <2>1, <2>3 DEF KeystoreTypeOK
  <2>5. \A m \in Secrets : IF m = cmd.name THEN Reads(m)' = NoValue /\ meant'[m] = {NoValue}
                                         ELSE Reads(m)' = Reads(m) /\ meant'[m] = meant[m]
    BY <1>1, <2>1 DEF Reads
  <2> QED BY <1>1, <2>1, <2>2, <2>4, <2>5 DEF KeystoreInv, WriteStands
<1>11. CASE CommandEndsEarly
  <2>1. cmd' = NoCommand /\ dotenv' = dotenv /\ keyring' = keyring /\ usable' = usable /\ meant' = meant /\ dropped' = dropped
    BY <1>11 DEF CommandEndsEarly
  <2>2. cmd' \notin WriteCommand
    BY <1>1, <2>1, CommandKinds
  <2> QED BY <1>1, <2>1, <2>2 DEF KeystoreInv, KeystoreTypeOK, WriteStands, Reads
<1>12. CASE KeyringToggles \/ UNCHANGED keystoreVars
  <2>1. cmd' = cmd /\ dotenv' = dotenv /\ keyring' = keyring /\ usable' \in BOOLEAN /\ meant' = meant /\ dropped' = dropped
    BY <1>1, <1>12 DEF KeyringToggles, keystoreVars, KeystoreTypeOK
  <2>2. KeystoreTypeOK'
    BY <1>1, <2>1 DEF KeystoreTypeOK
  <2>3. \A n \in Secrets : Reads(n)' = Reads(n) /\ WillRead(n)' = WillRead(n)
    BY <2>1 DEF Reads, WillRead
  <2> QED BY <1>1, <2>1, <2>2, <2>3 DEF KeystoreInv, WriteStands
<1> QED
  BY <1>3, <1>4, <1>5, <1>6, <1>7, <1>8, <1>9, <1>10, <1>11, <1>12 DEF KeystoreNext

\* Whatever commands moved secrets between file and keyring, wherever they were killed and
\* whenever the keyring answered, a process that starts finds what was last set or deleted
\* (write_env, delete_secret, load_env): StoredSecretsStay.
THEOREM KeystoreCorrect == KeystoreSpec => []StoredSecretsStay
<1>1. KeystoreInit => KeystoreInv
  <2> SUFFICES ASSUME KeystoreInit PROVE KeystoreInv
    OBVIOUS
  <2>1. KeystoreTypeOK /\ cmd \notin WriteCommand
    BY DEF KeystoreInit, KeystoreTypeOK, Kept, NoCommand, WriteCommand, Stores
  <2>2. \A n \in Secrets : Reads(n) \in meant[n]
    BY DEF KeystoreInit, Reads
  <2> QED BY <2>1, <2>2 DEF KeystoreInv, WriteStands
<1>2. KeystoreInv /\ [KeystoreNext]_keystoreVars => KeystoreInv'
  BY KeystoreStep
<1>3. KeystoreInv => StoredSecretsStay
  BY DEF KeystoreInv, StoredSecretsStay, LoadEnv, Get, Reads
<1> QED
  BY <1>1, <1>2, <1>3, PTL DEF KeystoreSpec

----------------------------------------------------------------------------
(* The file and its checkpoints. *)

FileStates == [is : {"text", "absent", "torn", "no state"}, of : SUBSET Actions]
Threads == {"saved", "read", "writing"}
FileJob ==
  [at : Threads \union {"called", "written", "failed", "stopped"}, run : FileRuns, tool : {"write", "edit"},
   awaited : BOOLEAN, pre : FileStates, seen : FileStates]

FilesTypeOK ==
  /\ disk \in FileStates \ {NoState}
  /\ job \in [Actions -> {NoJob} \union FileJob]
  /\ logged \in [Actions -> FileStates]
  /\ rewound \subseteq Actions

\* Strings come from actions that have written.
Wrote == {a \in Actions : job[a] # NoJob /\ job[a].at \in {"written", "stopped"}}

\* A checkpoint is older than its action.
CheckpointsOlder ==
  /\ disk.of \subseteq Wrote
  /\ \A a \in Actions :
       /\ logged[a].of \subseteq Wrote \ {a}
       /\ job[a] # NoJob => job[a].pre.of \subseteq Wrote \ {a} /\ job[a].seen.of \subseteq Wrote
       /\ job[a] # NoJob /\ job[a].at = "called" => job[a].seen.of = {}

Handling == Threads \union {"written", "failed"}

\* Only what was logged is rewound, and it was logged after its checkpoint.
RewoundHasStarted ==
  \A a \in Actions :
    /\ a \in rewound => logged[a] # NoState
    /\ logged[a] # NoState => job[a] # NoJob /\ job[a].at # "called"
    /\ job[a] # NoJob /\ job[a].at \in Handling => job[a].pre # NoState

\* No thread that may still write knows what is gone.
ThreadsClean ==
  \A a \in InThread : a \notin rewound \ excused /\ job[a].seen.of \intersect (rewound \ excused) = {}

FilesInv == FilesTypeOK /\ CheckpointsOlder /\ RewoundHasStarted /\ ThreadsClean /\ RewoundStaysAway

\* A step of one action's thread, which may write its own strings.
LEMMA ThreadMoves ==
  ASSUME FilesInv, NEW a \in Actions, NEW j \in FileJob, job' = [job EXCEPT ![a] = j],
         \/ disk' = disk
         \/ /\ disk' \in FileStates \ {NoState} /\ disk'.of \intersect (rewound \ excused) = {}
            /\ disk'.of \subseteq Wrote \union (IF j.at = "written" THEN {a} ELSE {}),
         logged' = logged \/ (logged' = [logged EXCEPT ![a] = job[a].pre] /\ job[a] # NoJob /\ job[a].at \in Handling),
         rewound' = rewound, excused' = excused,
         a \in Wrote => j.at \in {"written", "stopped"},
         j.pre.of \subseteq Wrote \ {a}, j.seen.of \subseteq Wrote,
         job[a] # NoJob /\ job[a].at # "called" => j.at # "called",
         j.at \in Handling => j.pre # NoState, j.at = "called" => j.seen.of = {},
         j.at \in Threads => a \notin rewound \ excused /\ j.seen.of \intersect (rewound \ excused) = {}
  PROVE  FilesInv'
<1>1. /\ job \in [Actions -> {NoJob} \union FileJob] /\ logged \in [Actions -> FileStates]
      /\ disk \in FileStates \ {NoState} /\ rewound \subseteq Actions
  BY DEF FilesInv, FilesTypeOK
<1>2. j # NoJob
  BY DEF FileJob, NoJob
<1>3. /\ job' \in [Actions -> {NoJob} \union FileJob] /\ job'[a] = j
      /\ \A b \in Actions \ {a} : job'[b] = job[b]
  BY <1>1
<1>4. /\ logged' \in [Actions -> FileStates] /\ \A b \in Actions \ {a} : logged'[b] = logged[b]
      /\ logged'[a] = logged[a] \/ (/\ logged'[a] = job[a].pre /\ job[a].pre # NoState
                                      /\ job[a] # NoJob /\ job[a].at # "called")
  <2>1. job[a] # NoJob /\ job[a].at \in Handling => job[a].pre # NoState /\ job[a].at # "called"
    BY DEF FilesInv, RewoundHasStarted, Handling, Threads
  <2>2. job[a] # NoJob => job[a].pre \in FileStates
    BY <1>1 DEF FileJob
  <2> QED BY <1>1, <2>1, <2>2
<1>5. Wrote \subseteq Wrote'
  BY <1>2, <1>3 DEF Wrote
<1>6. FilesTypeOK' /\ disk'.of \subseteq Wrote' /\ disk'.of \intersect (rewound \ excused) = {}
  <2>1. j.at = "written" => a \in Wrote'
    BY <1>2, <1>3 DEF Wrote
  <2>2. disk.of \subseteq Wrote /\ disk.of \intersect (rewound \ excused) = {}
    BY DEF FilesInv, CheckpointsOlder, RewoundStaysAway
  <2>3. disk' \in FileStates \ {NoState} /\ disk'.of \subseteq Wrote'
    BY <1>1, <1>5, <2>1, <2>2
  <2> QED BY <1>1, <1>3, <1>4, <2>2, <2>3 DEF FilesTypeOK
<1>7. CheckpointsOlder'
  <2>1. disk'.of \subseteq Wrote'
    BY <1>6
  <2>2. \A b \in Actions : logged'[b].of \subseteq Wrote' \ {b}
    BY <1>4, <1>5 DEF FilesInv, CheckpointsOlder
  <2>3. \A b \in Actions :
          /\ job'[b] # NoJob => job'[b].pre.of \subseteq Wrote' \ {b} /\ job'[b].seen.of \subseteq Wrote'
          /\ job'[b] # NoJob /\ job'[b].at = "called" => job'[b].seen.of = {}
    BY <1>3, <1>5 DEF FilesInv, CheckpointsOlder
  <2> QED BY <2>1, <2>2, <2>3 DEF CheckpointsOlder
<1>8. RewoundHasStarted'
  <2> SUFFICES ASSUME NEW b \in Actions
               PROVE  /\ b \in rewound' => logged'[b] # NoState
                      /\ logged'[b] # NoState => job'[b] # NoJob /\ job'[b].at # "called"
                      /\ job'[b] # NoJob /\ job'[b].at \in Handling => job'[b].pre # NoState
    BY DEF RewoundHasStarted
  <2>0. /\ b \in rewound => logged[b] # NoState
        /\ logged[b] # NoState => job[b] # NoJob /\ job[b].at # "called"
        /\ job[b] # NoJob /\ job[b].at \in Handling => job[b].pre # NoState
    BY DEF FilesInv, RewoundHasStarted
  <2>1. CASE b # a
    BY <1>3, <1>4, <2>0, <2>1
  <2>2. CASE b = a
    BY <1>2, <1>3, <1>4, <2>0, <2>2
  <2> QED BY <2>1, <2>2
<1>9. ThreadsClean'
  BY <1>2, <1>3 DEF FilesInv, ThreadsClean, InThread, Threads
<1> QED
  BY <1>6, <1>7, <1>8, <1>9 DEF FilesInv, RewoundStaysAway

\* The file changes under a thread's step, a rewind or a stop: the rest stays.
LEMMA FilesStep == ASSUME FilesInv, [FilesNext]_fileVars PROVE FilesInv'
<1> USE DEF To
<1>1. /\ job \in [Actions -> {NoJob} \union FileJob] /\ logged \in [Actions -> FileStates]
      /\ disk \in FileStates \ {NoState} /\ rewound \subseteq Actions /\ CheckpointsOlder /\ RewoundHasStarted
      /\ ThreadsClean /\ RewoundStaysAway
  BY DEF FilesInv, FilesTypeOK
<1>2. /\ NoState \in FileStates /\ Absent \in FileStates /\ Torn \in FileStates /\ NoState.of = {} /\ Torn.of = {}
      /\ Absent.of = {} /\ Torn # NoState /\ NoJob \notin FileJob
  BY DEF NoState, Absent, Torn, FileStates, NoJob, FileJob
<1>3. \A a \in Actions : NoJob.at = "none" /\ (job[a].at # "none" => job[a] # NoJob /\ job[a] \in FileJob)
  BY <1>1 DEF NoJob
<1>4. ASSUME NEW r \in FileRuns, NEW a \in Actions, NEW tool \in {"write", "edit"}, CallTool(r, a, tool)
      PROVE  FilesInv'
  <2> DEFINE j == [at |-> "called", run |-> r, tool |-> tool, awaited |-> TRUE, pre |-> NoState, seen |-> Absent]
  <2>1. /\ job[a] = NoJob /\ job' = [job EXCEPT ![a] = j] /\ disk' = disk /\ logged' = logged
        /\ rewound' = rewound /\ excused' = excused
    BY <1>4 DEF CallTool
  <2>2. j \in FileJob
    BY <1>2 DEF FileJob
  <2>3. j.at = "called" /\ j.pre.of = {} /\ j.seen.of = {} /\ a \notin Wrote
    BY <1>2, <2>1 DEF Wrote
  <2> HIDE DEF j
  <2> QED BY <2>1, <2>2, <2>3, ThreadMoves DEF Threads, Handling
<1>5. ASSUME NEW a \in Actions, CheckpointPre(a) PROVE FilesInv'
  <2> DEFINE j == [job[a] EXCEPT !.at = "saved", !.pre = disk]
  <2>1. /\ job[a].at = "called" /\ disk' = disk /\ logged' = logged /\ rewound' = rewound /\ excused' = excused
        /\ job' = [[job EXCEPT ![a].at = "saved"] EXCEPT ![a].pre = disk]
    BY <1>5 DEF CheckpointPre
  <2>2. job[a] \in FileJob /\ job[a] # NoJob
    BY <1>3, <2>1
  <2>3. job' = [job EXCEPT ![a] = j]
    BY <1>1, <2>1
  <2>4. j \in FileJob /\ j.at = "saved" /\ j.pre = disk /\ j.seen = job[a].seen
    BY <1>1, <2>2 DEF FileJob, Threads
  <2>5. a \notin Wrote /\ logged[a] = NoState /\ a \notin rewound
    BY <1>1, <2>1 DEF Wrote, RewoundHasStarted
  <2>6. disk.of \subseteq Wrote /\ j.seen.of = {}
    BY <1>1, <2>1, <2>2, <2>4 DEF CheckpointsOlder
  <2> HIDE DEF j
  <2>7. /\ a \notin rewound \ excused /\ j.seen.of \intersect (rewound \ excused) = {} /\ j.pre # NoState
        /\ j.pre.of \subseteq Wrote \ {a} /\ j.seen.of \subseteq Wrote /\ j.at # "called"
    BY <1>1, <2>4, <2>5, <2>6
  <2> QED BY <2>1, <2>3, <2>4, <2>5, <2>7, ThreadMoves
<1>6. ASSUME NEW a \in Actions, ReadText(a) PROVE FilesInv'
  <2> DEFINE j == IF disk = Absent THEN [job[a] EXCEPT !.at = "failed"] ELSE [job[a] EXCEPT !.at = "read", !.seen = disk]
  <2>1. /\ job[a].at = "saved" /\ disk' = disk /\ logged' = logged /\ rewound' = rewound /\ excused' = excused
        /\ job' = IF disk = Absent THEN [job EXCEPT ![a].at = "failed"]
                                   ELSE [[job EXCEPT ![a].at = "read"] EXCEPT ![a].seen = disk]
    BY <1>6 DEF ReadText
  <2>2. job[a] \in FileJob /\ job[a] # NoJob
    BY <1>3, <2>1
  <2>3. job' = [job EXCEPT ![a] = j]
    BY <1>1, <2>1
  <2>4. /\ j \in FileJob /\ j.at \in {"failed", "read"} /\ j.pre = job[a].pre
        /\ j.seen \in {disk, job[a].seen} /\ (j.at = "read" => j.seen = disk)
    BY <1>1, <2>2 DEF FileJob, Threads
  <2>5. a \notin Wrote /\ a \notin rewound \ excused /\ job[a].pre # NoState
    BY <1>1, <2>1, <2>2 DEF Wrote, RewoundHasStarted, ThreadsClean, InThread, Handling, Threads
  <2>6. disk.of \subseteq Wrote /\ job[a].seen.of \subseteq Wrote /\ job[a].pre.of \subseteq Wrote \ {a}
    BY <1>1, <2>2 DEF CheckpointsOlder
  <2> HIDE DEF j
  <2>7. disk.of \intersect (rewound \ excused) = {} /\ job[a].seen.of \intersect (rewound \ excused) = {}
    <3>1. disk.of \intersect (rewound \ excused) = {}
      BY <1>1 DEF RewoundStaysAway
    <3>2. a \in InThread
      BY <2>1, <2>2 DEF InThread, Threads
    <3> QED BY <1>1, <3>1, <3>2 DEF ThreadsClean
  <2>8. /\ a \notin Wrote /\ j.pre # NoState /\ j.pre.of \subseteq Wrote \ {a} /\ j.seen.of \subseteq Wrote
        /\ j.at # "called" /\ j.seen.of \intersect (rewound \ excused) = {}
    BY <2>4, <2>5, <2>6, <2>7
  <2> QED BY <2>1, <2>3, <2>4, <2>5, <2>8, ThreadMoves
<1>7. ASSUME NEW a \in Actions, NotFound(a) PROVE FilesInv'
  <2> DEFINE j == [job[a] EXCEPT !.at = "failed"]
  <2>1. /\ job[a].at = "read" /\ disk' = disk /\ logged' = logged /\ rewound' = rewound /\ excused' = excused
        /\ job' = [job EXCEPT ![a].at = "failed"]
    BY <1>7 DEF NotFound
  <2>2. job[a] \in FileJob /\ job[a] # NoJob
    BY <1>3, <2>1
  <2>3. job' = [job EXCEPT ![a] = j]
    BY <1>1, <2>1
  <2>4. j \in FileJob /\ j.at = "failed" /\ j.pre = job[a].pre /\ j.seen = job[a].seen
    BY <1>1, <2>2 DEF FileJob
  <2>5. a \notin Wrote /\ job[a].pre # NoState
    BY <1>1, <2>1, <2>2 DEF Wrote, RewoundHasStarted, Handling, Threads
  <2>6. job[a].seen.of \subseteq Wrote /\ job[a].pre.of \subseteq Wrote \ {a}
    BY <1>1, <2>2 DEF CheckpointsOlder
  <2> HIDE DEF j
  <2> QED BY <2>1, <2>3, <2>4, <2>5, <2>6, ThreadMoves DEF Threads, Handling
<1>8. ASSUME NEW a \in Actions, Truncate(a) PROVE FilesInv'
  <2> DEFINE j == [job[a] EXCEPT !.at = "writing"]
  <2>1. /\ job[a].at \in {"saved", "read"} /\ disk' = Torn /\ logged' = logged /\ rewound' = rewound
        /\ excused' = excused /\ job' = [job EXCEPT ![a].at = "writing"]
    BY <1>8 DEF Truncate
  <2>2. job[a] \in FileJob /\ job[a] # NoJob
    BY <1>3, <2>1
  <2>3. job' = [job EXCEPT ![a] = j]
    BY <1>1, <2>1
  <2>4. j \in FileJob /\ j.at = "writing" /\ j.pre = job[a].pre /\ j.seen = job[a].seen
    BY <1>1, <2>2 DEF FileJob, Threads
  <2>5. /\ a \notin Wrote /\ job[a].pre # NoState
        /\ a \notin rewound \ excused /\ job[a].seen.of \intersect (rewound \ excused) = {}
    BY <1>1, <2>1, <2>2 DEF Wrote, RewoundHasStarted, Handling, Threads, ThreadsClean, InThread
  <2>6. job[a].seen.of \subseteq Wrote /\ job[a].pre.of \subseteq Wrote \ {a}
    BY <1>1, <2>2 DEF CheckpointsOlder
  <2> HIDE DEF j
  <2>7. /\ disk' \in FileStates \ {NoState} /\ disk'.of \intersect (rewound \ excused) = {} /\ disk'.of \subseteq Wrote
    BY <1>2, <2>1
  <2>8. /\ a \notin Wrote /\ j.pre # NoState /\ j.pre.of \subseteq Wrote \ {a} /\ j.seen.of \subseteq Wrote
        /\ j.at = "writing" /\ a \notin rewound \ excused /\ j.seen.of \intersect (rewound \ excused) = {}
    BY <2>4, <2>5, <2>6
  <2> QED BY <2>1, <2>3, <2>4, <2>7, <2>8, ThreadMoves
<1>9. ASSUME NEW a \in Actions, WriteText(a) PROVE FilesInv'
  <2> DEFINE j == [job[a] EXCEPT !.at = "written"]
  <2>1. /\ job[a].at = "writing" /\ logged' = logged /\ rewound' = rewound
        /\ excused' = excused /\ job' = [job EXCEPT ![a].at = "written"]
        /\ disk' = Torn \/ disk' = Text(job[a].seen.of \union {a})
    BY <1>9 DEF WriteText
  <2>2. job[a] \in FileJob /\ job[a] # NoJob
    BY <1>3, <2>1
  <2>3. job' = [job EXCEPT ![a] = j]
    BY <1>1, <2>1
  <2>4. j \in FileJob /\ j.at = "written" /\ j.pre = job[a].pre /\ j.seen = job[a].seen /\ job[a].seen.of \subseteq Actions
    BY <1>1, <2>2 DEF FileJob, FileStates
  <2>5. /\ a \notin Wrote /\ job[a].pre # NoState
        /\ a \notin rewound \ excused /\ job[a].seen.of \intersect (rewound \ excused) = {}
    BY <1>1, <2>1, <2>2 DEF Wrote, RewoundHasStarted, Handling, Threads, ThreadsClean, InThread
  <2>6. job[a].seen.of \subseteq Wrote /\ job[a].pre.of \subseteq Wrote \ {a}
    BY <1>1, <2>2 DEF CheckpointsOlder
  <2>7. /\ disk' \in FileStates \ {NoState} /\ disk'.of \intersect (rewound \ excused) = {}
        /\ disk'.of \subseteq Wrote \union {a}
    <3>1. CASE disk' = Torn
      BY <1>2, <3>1
    <3>2. CASE disk' = Text(job[a].seen.of \union {a})
      BY <2>4, <2>5, <2>6, <3>2 DEF Text, FileStates, NoState
    <3> QED BY <2>1, <3>1, <3>2
  <2> HIDE DEF j
  <2> QED BY <1>2, <2>1, <2>3, <2>4, <2>5, <2>6, <2>7, ThreadMoves DEF Threads, Handling
<1>10. ASSUME NEW a \in Actions, LogAction(a) \/ CallTimesOut(a) \/ CallCancelled(a) PROVE FilesInv'
  <2> DEFINE j == [job[a] EXCEPT !.awaited = FALSE]
  <2>1. /\ disk' = disk /\ rewound' = rewound /\ excused' = excused /\ job' = [job EXCEPT ![a].awaited = FALSE]
        /\ job[a] # NoJob
        /\ logged' = logged \/ (logged' = [logged EXCEPT ![a] = job[a].pre] /\ job[a].at \in Handling)
    <3>1. CASE LogAction(a) \/ CallTimesOut(a)
      BY <1>3, <3>1 DEF LogAction, CallTimesOut, InThread, Handling, Threads
    <3>2. CASE CallCancelled(a)
      BY <3>2 DEF CallCancelled
    <3> QED BY <1>10, <3>1, <3>2
  <2>2. job[a] \in FileJob
    BY <1>1, <2>1
  <2>3. job' = [job EXCEPT ![a] = j]
    BY <1>1, <2>1
  <2>4. j \in FileJob /\ j.at = job[a].at /\ j.pre = job[a].pre /\ j.seen = job[a].seen
    BY <1>1, <2>2 DEF FileJob
  <2>5. /\ a \in Wrote => j.at \in {"written", "stopped"}
        /\ j.at \in Handling => job[a].pre # NoState
        /\ j.at \in Threads => a \notin rewound \ excused /\ job[a].seen.of \intersect (rewound \ excused) = {}
        /\ j.at = "called" => job[a].seen.of = {}
    BY <1>1, <2>1, <2>4 DEF Wrote, RewoundHasStarted, Handling, Threads, ThreadsClean, InThread, CheckpointsOlder
  <2>6. job[a].seen.of \subseteq Wrote /\ job[a].pre.of \subseteq Wrote \ {a}
    BY <1>1, <2>1 DEF CheckpointsOlder
  <2> HIDE DEF j
  <2>7. /\ a \in Wrote => j.at \in {"written", "stopped"}
        /\ j.at \in Handling => j.pre # NoState
        /\ j.at \in Threads => a \notin rewound \ excused /\ j.seen.of \intersect (rewound \ excused) = {}
        /\ j.at = "called" => j.seen.of = {}
        /\ job[a] # NoJob /\ job[a].at # "called" => j.at # "called"
        /\ j.pre.of \subseteq Wrote \ {a} /\ j.seen.of \subseteq Wrote
    BY <2>4, <2>5, <2>6
  <2>8. logged' = logged \/ (logged' = [logged EXCEPT ![a] = job[a].pre] /\ job[a] # NoJob /\ job[a].at \in Handling)
    BY <2>1
  <2> HIDE DEF Wrote, Handling, Threads
  <2> QED BY <2>1, <2>3, <2>4, <2>7, <2>8, ThreadMoves
<1>11. CASE ProcessStops
  <2>1. /\ disk' = disk /\ logged' = logged /\ rewound' = rewound /\ excused' = excused
        /\ job' = [a \in Actions |-> IF job[a] = NoJob THEN NoJob ELSE [job[a] EXCEPT !.at = "stopped", !.awaited = FALSE]]
    BY <1>11 DEF ProcessStops
  <2>2. \A a \in Actions :
          IF job[a] = NoJob THEN job'[a] = NoJob
          ELSE /\ job'[a] \in FileJob /\ job'[a].at = "stopped"
               /\ job'[a].pre = job[a].pre /\ job'[a].seen = job[a].seen
    <3> SUFFICES ASSUME NEW a \in Actions, job[a] # NoJob
                 PROVE  /\ job'[a] \in FileJob /\ job'[a].at = "stopped"
                        /\ job'[a].pre = job[a].pre /\ job'[a].seen = job[a].seen
      BY <2>1
    <3>1. job'[a] = [job[a] EXCEPT !.at = "stopped", !.awaited = FALSE]
      BY <2>1
    <3>2. job[a] \in FileJob
      BY <1>1
    <3> QED BY <3>1, <3>2 DEF FileJob
  <2>3. FilesTypeOK'
    <3>1. job' \in [Actions -> {NoJob} \union FileJob]
      <4>1. DOMAIN job' = Actions /\ job' = [a \in Actions |-> job'[a]]
        BY <2>1
      <4> QED BY <2>2, <4>1
    <3> QED BY <1>1, <2>1, <3>1 DEF FilesTypeOK
  <2>4. Wrote \subseteq Wrote'
    BY <1>2, <2>2 DEF Wrote
  <2>5. CheckpointsOlder'
    BY <1>1, <2>1, <2>2, <2>4 DEF CheckpointsOlder
  <2>6. RewoundHasStarted'
    BY <1>1, <1>2, <2>1, <2>2 DEF RewoundHasStarted, Handling, Threads
  <2>7. InThread' = {}
    BY <2>2 DEF InThread
  <2> QED BY <1>1, <2>1, <2>3, <2>5, <2>6, <2>7 DEF FilesInv, ThreadsClean, RewoundStaysAway
<1>12. ASSUME NEW a \in Actions, Rewind(a) PROVE FilesInv'
  <2>1. /\ logged[a] # NoState /\ disk' \in {logged[a], Torn} /\ rewound' = rewound \union {a}
        /\ job' = job /\ logged' = logged
        /\ excused' = excused \union (logged[a].of \intersect rewound)
                        \union (IF \E b \in InThread : b = a \/ a \in job[b].seen.of THEN {a} ELSE {})
    BY <1>12 DEF Rewind, RestoreCheckpoint
  <2>2. FilesTypeOK'
    BY <1>1, <1>2, <2>1 DEF FilesTypeOK
  <2>3. Wrote' = Wrote /\ InThread' = InThread
    BY <2>1 DEF Wrote, InThread
  <2>4. logged[a].of \subseteq Wrote \ {a}
    BY <1>1 DEF CheckpointsOlder
  <2>5. CheckpointsOlder'
    BY <1>1, <1>2, <2>1, <2>3, <2>4 DEF CheckpointsOlder
  <2>6. RewoundHasStarted'
    BY <1>1, <2>1 DEF RewoundHasStarted
  <2>7. ThreadsClean'
    <3> SUFFICES ASSUME NEW b \in InThread
                 PROVE  b \notin rewound' \ excused' /\ job[b].seen.of \intersect (rewound' \ excused') = {}
      BY <2>1, <2>3 DEF ThreadsClean
    <3>1. b \notin rewound \ excused /\ job[b].seen.of \intersect (rewound \ excused) = {}
      BY <1>1 DEF ThreadsClean
    <3>2. b = a \/ a \in job[b].seen.of => a \in excused'
      BY <2>1
    <3>3. rewound' \ excused' \subseteq (rewound \ excused) \union ({a} \ excused')
      BY <2>1
    <3> QED BY <3>1, <3>2, <3>3
  <2>8. disk'.of \intersect (rewound' \ excused') = {}
    BY <1>2, <2>1, <2>4
  <2> QED BY <2>2, <2>5, <2>6, <2>7, <2>8 DEF FilesInv, RewoundStaysAway
<1>13. CASE UNCHANGED fileVars
  <2>1. disk' = disk /\ job' = job /\ logged' = logged /\ rewound' = rewound /\ excused' = excused
    BY <1>13 DEF fileVars
  <2>2. Wrote' = Wrote /\ InThread' = InThread
    BY <2>1 DEF Wrote, InThread
  <2>3. FilesTypeOK' /\ RewoundHasStarted' /\ RewoundStaysAway'
    BY <1>1, <2>1 DEF FilesInv, FilesTypeOK, RewoundHasStarted, RewoundStaysAway
  <2>4. CheckpointsOlder' /\ ThreadsClean'
    BY <1>1, <2>1, <2>2 DEF CheckpointsOlder, ThreadsClean
  <2> QED BY <2>3, <2>4 DEF FilesInv
<1> QED
  BY <1>4, <1>5, <1>6, <1>7, <1>8, <1>9, <1>10, <1>11, <1>12, <1>13 DEF FilesNext

\* Whatever runs and threads write, are timed out, cancelled or killed meanwhile, the strings
\* of a rewound action come back only in the two ways the history excuses (write_file,
\* edit_file, rewind_session): RewoundStaysAway.
THEOREM FilesCorrect == FilesSpec => []RewoundStaysAway
<1>1. FilesInit => FilesInv
  <2> SUFFICES ASSUME FilesInit PROVE FilesInv
    OBVIOUS
  <2>1. /\ disk \in {Absent, Text({})} /\ \A a \in Actions : job[a] = NoJob /\ logged[a] = NoState
        /\ job \in [Actions -> {NoJob}] /\ logged \in [Actions -> {NoState}] /\ rewound = {} /\ NoState.of = {}
    BY DEF FilesInit, NoState
  <2>2. disk \in FileStates \ {NoState} /\ disk.of = {} /\ NoState \in FileStates
    <3>1. CASE disk = Absent
      BY <3>1 DEF Absent, FileStates, NoState
    <3>2. CASE disk = Text({})
      BY <3>2 DEF Text, FileStates, NoState
    <3> QED BY <2>1, <3>1, <3>2
  <2>3. FilesTypeOK
    BY <2>1, <2>2 DEF FilesTypeOK
  <2>4. InThread = {}
    BY <2>1 DEF InThread
  <2> QED BY <2>1, <2>2, <2>3, <2>4 DEF FilesInv, CheckpointsOlder, RewoundHasStarted, ThreadsClean, RewoundStaysAway
<1>2. FilesInv /\ [FilesNext]_fileVars => FilesInv'
  BY FilesStep
<1>3. FilesInv => RewoundStaysAway
  BY DEF FilesInv
<1> QED
  BY <1>1, <1>2, <1>3, PTL DEF FilesSpec

----------------------------------------------------------------------------
(* What the dreamer replaces. *)

AllTexts == Texts \union {Saved[i] : i \in 1..Len(Saved)}
MemoryRow == [is : {"row"}, texts : SUBSET AllTexts, theme : BOOLEAN, superseded_by : Nat]
Reading == [ids : SUBSET EntryIds, texts : SUBSET AllTexts]
MemoryCall ==
  [op : {"add"}, text : Texts] \union [op : {"remove"}, id : EntryIds]
    \union [op : {"replace"}, id : EntryIds, text : Texts]

MemoryTypeOK ==
  /\ entry \in [EntryIds -> {NoEntry, Removed} \union MemoryRow]
  /\ call \in [Callers -> {NoCall} \union MemoryCall]
  /\ dream \in [Dreams -> [chunks : Seq(Reading), themes : Seq(Reading)]]
  /\ locked \in Dreams \union {Unlocked}

\* Rows are inserted one after another.
Filled(k) == \A e \in EntryIds : entry[e] = NoEntry <=> e > k
Spaces == Cardinality({e \in EntryIds : entry[e] = NoEntry})

\* A dream under way has chunks to do; one with themes has the lock, and there is room for them.
DreamsHold ==
  \A d \in Dreams :
    /\ dream[d] = NoDream \/ dream[d].chunks # <<>>
    /\ dream[d].themes # <<>> => locked = d /\ Len(dream[d].themes) <= Spaces

Holds(d) == {dream[d].chunks[i] : i \in DOMAIN dream[d].chunks}
              \union {dream[d].themes[i] : i \in DOMAIN dream[d].themes}

\* What was read of an entry covers what it says, unless it was replaced since.
Covers(c) ==
  \A e \in c.ids : /\ entry[e] # NoEntry
                   /\ e \in Stored => ~entry[e].theme /\ (e \in raced \/ entry[e].texts \subseteq c.texts)
ReadingsCover == \A d \in Dreams : \A c \in Holds(d) : Covers(c)

\* No summary is summarised.
ThemesLive == \A e \in Themes : e \in Live

\* An agent has named a row that there is, or was.
NamedWere == \A c \in Callers : call[c].op \in {"remove", "replace"} => entry[call[c].id] # NoEntry

MemoryInv ==
  /\ MemoryTypeOK /\ NamedWere /\ \E k \in 0..MaxEntries : Filled(k)
  /\ DreamsHold /\ ReadingsCover /\ ThemesLive /\ NothingForgotten

LEMMA EntryKinds ==
  ASSUME MemoryTypeOK
  PROVE  /\ NoEntry \notin MemoryRow /\ Removed \notin MemoryRow /\ NoEntry # Removed
         /\ \A e \in EntryIds : e \in Stored <=> entry[e] \in MemoryRow
         /\ Stored \subseteq EntryIds
BY DEF MemoryTypeOK, MemoryRow, NoEntry, Removed, Stored

LEMMA HeldIsRead ==
  ASSUME MemoryTypeOK, NEW d \in Dreams, NEW c \in Holds(d)
  PROVE  c \in Reading /\ \A e \in c.ids : e \in ReadBy(d) /\ e \in EntryIds
<1> DEFINE chunks == dream[d].chunks
           themes == dream[d].themes
<1>1. chunks \in Seq(Reading) /\ themes \in Seq(Reading)
  BY DEF MemoryTypeOK
<1>2. /\ \A i \in DOMAIN chunks : chunks[i] \in Reading
      /\ \A i \in DOMAIN themes : themes[i] \in Reading
  <2> HIDE DEF chunks, themes
  <2> QED BY <1>1
<1>3. CASE c \in {chunks[i] : i \in DOMAIN chunks}
  <2>1. PICK i \in DOMAIN chunks : c = chunks[i]
    BY <1>3
  <2>2. \A e \in c.ids : e \in UNION {chunks[j].ids : j \in DOMAIN chunks}
    BY <2>1
  <2> QED BY <1>2, <2>1, <2>2 DEF ReadBy, Reading
<1>4. CASE c \in {themes[i] : i \in DOMAIN themes}
  <2>1. PICK i \in DOMAIN themes : c = themes[i]
    BY <1>4
  <2>2. \A e \in c.ids : e \in UNION {themes[j].ids : j \in DOMAIN themes}
    BY <2>1
  <2> QED BY <1>2, <2>1, <2>2 DEF ReadBy, Reading
<1> QED
  BY <1>3, <1>4 DEF Holds

LEMMA SpacesCount ==
  ASSUME MaxEntries \in Nat, NEW k \in 0..MaxEntries, Filled(k)
  PROVE  Spaces = MaxEntries - k
<1>1. {e \in EntryIds : entry[e] = NoEntry} = (k + 1)..MaxEntries
  BY DEF Filled, EntryIds
<1>2. Cardinality((k + 1)..MaxEntries) = MaxEntries - k
  <2>1. k + 1 \in Int /\ MaxEntries \in Int /\ k <= MaxEntries /\ k \in Int
    OBVIOUS
  <2>2. Cardinality((k + 1)..MaxEntries) = IF k + 1 > MaxEntries THEN 0 ELSE MaxEntries - (k + 1) + 1
    BY <2>1, FS_Interval
  <2> QED BY <2>1, <2>2
<1> QED
  BY <1>1, <1>2 DEF Spaces

\* A step of the memory tool, or of a dream that commits nothing, which keeps what dreams have read
\* covered and what hides entries in place.
LEMMA MemoryStays ==
  ASSUME MemoryInv, MemoryTypeOK', NamedWere', \E k \in 0..MaxEntries : Filled(k)',
         Spaces' = Spaces \/ locked = Unlocked, locked' = locked, dream' = dream,
         raced \subseteq raced', touched \subseteq touched',
         \A e \in EntryIds :
           \/ entry'[e] = entry[e]
           \/ entry[e] = NoEntry /\ \E texts \in SUBSET AllTexts : entry'[e] = Row(texts, FALSE)
           \/ /\ e \in Stored /\ (e \in Themes => e \in touched')
              /\ \/ entry'[e] = Removed
                 \/ /\ entry'[e] \in MemoryRow /\ ~entry'[e].theme
                    /\ entry'[e].superseded_by = entry[e].superseded_by
                    /\ e \notin Live => e \in raced'
                    /\ (\E d \in Dreams : e \in ReadBy(d)) => e \in raced'
  PROVE  MemoryInv'
<1> USE MemoryAssumption
<1>1. /\ MemoryTypeOK /\ DreamsHold /\ ReadingsCover /\ ThemesLive /\ NothingForgotten
      /\ entry \in [EntryIds -> {NoEntry, Removed} \union MemoryRow]
  BY DEF MemoryInv, MemoryTypeOK
<1>2. /\ NoEntry \notin MemoryRow /\ Removed \notin MemoryRow /\ NoEntry # Removed
      /\ \A e \in EntryIds : e \in Stored <=> entry[e] \in MemoryRow
      /\ \A e \in EntryIds : e \in Stored' <=> entry'[e] \in MemoryRow
      /\ Stored \subseteq EntryIds /\ Stored' \subseteq EntryIds
  <2>1. /\ NoEntry \notin MemoryRow /\ Removed \notin MemoryRow /\ NoEntry # Removed
        /\ \A e \in EntryIds : e \in Stored <=> entry[e] \in MemoryRow
        /\ Stored \subseteq EntryIds
    BY <1>1, EntryKinds
  <2>2. entry' \in [EntryIds -> {NoEntry, Removed} \union MemoryRow]
    BY DEF MemoryTypeOK
  <2>3. \A e \in EntryIds : e \in Stored' <=> entry'[e] \in MemoryRow
    BY <2>2 DEF Stored, MemoryRow, NoEntry, Removed
  <2>4. Stored' \subseteq EntryIds
    BY DEF Stored
  <2> QED BY <2>1, <2>3, <2>4
<1>3. \A texts \in SUBSET AllTexts :
        Row(texts, FALSE) \in MemoryRow /\ ~Row(texts, FALSE).theme /\ Row(texts, FALSE).superseded_by = 0
  BY DEF Row, MemoryRow
<1>4. DreamsHold'
  <2> SUFFICES ASSUME NEW d \in Dreams
               PROVE  /\ dream[d] = NoDream \/ dream[d].chunks # <<>>
                      /\ dream[d].themes # <<>> => locked = d /\ Len(dream[d].themes) <= Spaces'
    BY DEF DreamsHold
  <2>1. /\ dream[d] = NoDream \/ dream[d].chunks # <<>>
        /\ dream[d].themes # <<>> => locked = d /\ Len(dream[d].themes) <= Spaces
    BY <1>1 DEF DreamsHold
  <2>2. d # Unlocked
    BY DEF Unlocked
  <2> QED BY <2>1, <2>2
<1>5. ReadingsCover'
  <2> SUFFICES ASSUME NEW d \in Dreams, NEW c \in Holds(d), NEW e \in c.ids
               PROVE  /\ entry'[e] # NoEntry
                      /\ e \in Stored' => ~entry'[e].theme /\ (e \in raced' \/ entry'[e].texts \subseteq c.texts)
    BY DEF ReadingsCover, Covers, Holds
  <2>1. /\ entry[e] # NoEntry
        /\ e \in Stored => ~entry[e].theme /\ (e \in raced \/ entry[e].texts \subseteq c.texts)
    BY <1>1 DEF ReadingsCover, Covers
  <2>2. e \in ReadBy(d) /\ e \in EntryIds
    BY HeldIsRead, <1>1
  <2> QED BY <1>2, <2>1, <2>2
<1>6. ASSUME NEW e \in Themes' PROVE entry'[e] = entry[e] /\ e \in Themes /\ e \in Live /\ e \in Live'
  <2>1. e \in Stored' /\ entry'[e].theme /\ e \in EntryIds /\ entry'[e] \in MemoryRow
    BY <1>2, <1>6 DEF Themes
  <2>2. entry'[e] = entry[e]
    BY <1>2, <1>3, <2>1
  <2>3. e \in Themes
    BY <1>2, <2>1, <2>2 DEF Themes
  <2> QED BY <1>1, <2>1, <2>2, <2>3 DEF ThemesLive, Live
<1>7. ThemesLive'
  BY <1>6 DEF ThemesLive
<1>8. NothingForgotten'
  <2> SUFFICES ASSUME NEW e \in Stored' \ (Live' \union raced'), entry'[e].superseded_by \notin touched'
               PROVE  LET theme == entry'[e].superseded_by IN
                      theme \in Live' /\ entry'[theme].theme /\ entry'[e].texts \subseteq entry'[theme].texts
    BY DEF NothingForgotten
  <2>1. e \in EntryIds /\ entry'[e] \in MemoryRow /\ entry'[e].superseded_by # 0
    BY <1>2 DEF Live
  <2>2. entry'[e] = entry[e]
    <3>1. entry[e] # NoEntry \/ entry'[e] = entry[e]
      BY <1>2, <1>3, <2>1
    <3>2. ASSUME entry'[e] \in MemoryRow, e \in Stored, entry'[e].superseded_by = entry[e].superseded_by
          PROVE  e \notin Live
      BY <2>1, <3>2 DEF Live
    <3>3. entry'[e] # Removed
      BY <1>2, <2>1
    <3>4. e \notin raced'
      OBVIOUS
    <3> QED BY <2>1, <3>1, <3>2, <3>3, <3>4
  <2> DEFINE theme == entry[e].superseded_by
  <2>3. e \in Stored \ (Live \union raced) /\ theme \notin touched
    BY <1>2, <2>1, <2>2 DEF Live
  <2>4. theme \in Live /\ entry[theme].theme /\ entry[e].texts \subseteq entry[theme].texts
    BY <1>1, <2>3 DEF NothingForgotten
  <2>5. theme \in EntryIds /\ theme \in Themes /\ theme \notin touched' /\ entry[theme] # NoEntry
    BY <1>2, <2>2, <2>4 DEF Live, Themes
  <2>6. entry'[theme] = entry[theme]
    BY <2>5
  <2>7. theme \in Live'
    BY <1>2, <2>4, <2>5, <2>6 DEF Live
  <2> QED BY <2>2, <2>4, <2>6, <2>7
<1> QED
  BY <1>4, <1>5, <1>7, <1>8 DEF MemoryInv

\* What a dream commits: its themes are new rows, what they were made of is hidden under them.
LEMMA CommitIs ==
  ASSUME MemoryTypeOK, NEW k \in 0..MaxEntries, Filled(k), NEW themes \in Seq(Reading),
         Len(themes) <= MaxEntries - k
  PROVE  LET new == Committed(themes) IN
         /\ new = [e \in EntryIds |-> new[e]]
         /\ \A i \in 1..Len(themes) : k + i \in EntryIds /\ new[k + i] = Row(themes[i].texts, TRUE)
         /\ \A e \in EntryIds : e > k + Len(themes) => new[e] = entry[e]
         /\ \A e \in 1..k : \/ new[e] = entry[e] /\ (e \in Stored => \A i \in 1..Len(themes) : e \notin themes[i].ids)
                            \/ /\ e \in Stored
                               /\ \E i \in 1..Len(themes) :
                                    e \in themes[i].ids /\ new[e] = [entry[e] EXCEPT !.superseded_by = k + i]
<1> USE MemoryAssumption
<1> DEFINE next == CHOOSE e \in 1..MaxEntries + 1 : \A f \in EntryIds : f < e <=> entry[f] # NoEntry
           ids == {next + i - 1 : i \in DOMAIN themes}
           hidden(e) == [entry[e] EXCEPT !.superseded_by = next + (CHOOSE i \in Superseding(themes, e) : TRUE) - 1]
           new == [e \in EntryIds |->
                     IF e \in ids THEN Row(themes[e - next + 1].texts, TRUE)
                     ELSE IF e \in Stored /\ Superseding(themes, e) # {} THEN hidden(e) ELSE entry[e]]
<1>1. next = k + 1
  <2>1. k + 1 \in 1..MaxEntries + 1 /\ \A f \in EntryIds : f < k + 1 <=> entry[f] # NoEntry
    BY DEF Filled, EntryIds
  <2>2. next \in 1..MaxEntries + 1 /\ \A f \in EntryIds : f < next <=> entry[f] # NoEntry
    BY <2>1
  <2> HIDE DEF next
  <2>3. \A f \in EntryIds : f < k + 1 <=> f < next
    BY <2>1, <2>2
  <2>4. k + 1 < next => k + 1 \in EntryIds
    BY <2>1, <2>2 DEF EntryIds
  <2>5. next < k + 1 => next \in EntryIds
    BY <2>1, <2>2 DEF EntryIds
  <2> QED BY <2>1, <2>2, <2>3, <2>4, <2>5
<1>2. Committed(themes) = new
  BY DEF Committed
<1> HIDE DEF next
<1>3. DOMAIN themes = 1..Len(themes) /\ Len(themes) \in Nat
  OBVIOUS
<1>4. ids = (k + 1)..(k + Len(themes))
  <2>1. ASSUME NEW e \in (k + 1)..(k + Len(themes)) PROVE e \in ids
    <3>1. e - k \in DOMAIN themes /\ e = next + (e - k) - 1
      BY <1>1, <1>3
    <3> QED BY <3>1
  <2> QED BY <1>1, <1>3, <2>1
<1> HIDE DEF ids, hidden
<1>5. new = [e \in EntryIds |-> new[e]]
  OBVIOUS
<1>6. ASSUME NEW e \in EntryIds, e \in ids PROVE new[e] = Row(themes[e - next + 1].texts, TRUE)
  BY <1>6
<1>7. ASSUME NEW i \in 1..Len(themes) PROVE k + i \in EntryIds /\ new[k + i] = Row(themes[i].texts, TRUE)
  <2>1. k + i \in EntryIds /\ k + i \in ids /\ (k + i) - next + 1 = i
    BY <1>1, <1>3, <1>4 DEF EntryIds
  <2> HIDE DEF new
  <2>2. new[k + i] = Row(themes[(k + i) - next + 1].texts, TRUE)
    BY <1>6, <2>1
  <2> QED BY <2>1, <2>2
<1>8. ASSUME NEW e \in EntryIds, e > k + Len(themes) PROVE new[e] = entry[e]
  <2>1. e \notin ids /\ entry[e] = NoEntry
    BY <1>3, <1>4, <1>8 DEF Filled, EntryIds
  <2>2. e \notin Stored
    BY <2>1 DEF Stored, NoEntry
  <2> QED BY <2>1, <2>2
<1>9. ASSUME NEW e \in 1..k
      PROVE  \/ new[e] = entry[e] /\ (e \in Stored => \A i \in 1..Len(themes) : e \notin themes[i].ids)
             \/ /\ e \in Stored
                /\ \E i \in 1..Len(themes) :
                     e \in themes[i].ids /\ new[e] = [entry[e] EXCEPT !.superseded_by = k + i]
  <2>1. e \in EntryIds /\ e \notin ids
    BY <1>3, <1>4 DEF EntryIds
  <2>2. Superseding(themes, e) = {i \in 1..Len(themes) : e \in themes[i].ids}
    BY <1>3 DEF Superseding
  <2>3. CASE e \in Stored /\ Superseding(themes, e) # {}
    <3> DEFINE j == CHOOSE i \in Superseding(themes, e) : TRUE
    <3>1. j \in Superseding(themes, e)
      BY <2>3
    <3>2. new[e] = [entry[e] EXCEPT !.superseded_by = next + j - 1]
      <4>1. new[e] = hidden(e)
        BY <2>1, <2>3
      <4>2. hidden(e) = [entry[e] EXCEPT !.superseded_by = next + j - 1]
        BY DEF hidden
      <4> QED BY <4>1, <4>2
    <3> HIDE DEF j
    <3>3. j \in 1..Len(themes) /\ e \in themes[j].ids /\ next + j - 1 = k + j
      BY <1>1, <2>2, <3>1
    <3> HIDE DEF new
    <3> QED BY <2>3, <3>2, <3>3
  <2>4. CASE ~(e \in Stored /\ Superseding(themes, e) # {})
    BY <2>1, <2>2, <2>4
  <2> QED BY <2>3, <2>4
<1> HIDE DEF new
<1> QED
  BY <1>2, <1>5, <1>7, <1>8, <1>9

\* A step of a dream that commits nothing: it holds readings that cover what they were read from.
LEMMA DreamStep ==
  ASSUME MemoryInv, NEW d \in Dreams, NEW row \in [chunks : Seq(Reading), themes : Seq(Reading)],
         row = NoDream \/ row.chunks # <<>>,
         row.themes # <<>> => locked' = d /\ Len(row.themes) <= Spaces,
         \A i \in 1..Len(row.chunks) : Covers(row.chunks[i]),
         \A i \in 1..Len(row.themes) : Covers(row.themes[i]),
         dream' = [dream EXCEPT ![d] = row],
         locked' \in Dreams \union {Unlocked}, locked' = locked \/ locked \in {Unlocked, d},
         entry' = entry, call' = call, raced' = raced, touched' = touched
  PROVE  MemoryInv'
<1> USE MemoryAssumption
<1>1. /\ MemoryTypeOK /\ DreamsHold /\ ReadingsCover /\ ThemesLive /\ NothingForgotten
      /\ dream \in [Dreams -> [chunks : Seq(Reading), themes : Seq(Reading)]]
  BY DEF MemoryInv, MemoryTypeOK
<1>2. dream'[d] = row /\ \A d2 \in Dreams \ {d} : dream'[d2] = dream[d2]
  BY <1>1
<1>3. MemoryTypeOK'
  BY <1>1 DEF MemoryTypeOK
<1>4. (\E k \in 0..MaxEntries : Filled(k)') /\ NamedWere'
  BY DEF MemoryInv, Filled, NamedWere
<1>5. Spaces' = Spaces
  BY DEF Spaces
<1>6. DreamsHold'
  <2> SUFFICES ASSUME NEW d2 \in Dreams
               PROVE  /\ dream'[d2] = NoDream \/ dream'[d2].chunks # <<>>
                      /\ dream'[d2].themes # <<>> => locked' = d2 /\ Len(dream'[d2].themes) <= Spaces'
    BY DEF DreamsHold, NoDream
  <2>1. CASE d2 = d
    BY <1>2, <1>5, <2>1
  <2>2. CASE d2 # d
    <3>1. dream'[d2] = dream[d2]
      BY <1>2, <2>2
    <3>2. /\ dream[d2] = NoDream \/ dream[d2].chunks # <<>>
          /\ dream[d2].themes # <<>> => locked = d2 /\ Len(dream[d2].themes) <= Spaces
      BY <1>1 DEF DreamsHold
    <3>3. d2 # Unlocked
      BY DEF Unlocked
    <3> QED BY <1>5, <2>2, <3>1, <3>2, <3>3
  <2> QED BY <2>1, <2>2
<1>7. ReadingsCover'
  <2> SUFFICES ASSUME NEW d2 \in Dreams, NEW c \in Holds(d2)' PROVE Covers(c)
    BY DEF ReadingsCover, Covers, Stored
  <2>1. CASE d2 = d
    <3>1. Holds(d)' = {row.chunks[i] : i \in DOMAIN row.chunks} \union {row.themes[i] : i \in DOMAIN row.themes}
      BY <1>2 DEF Holds
    <3>2. DOMAIN row.chunks = 1..Len(row.chunks) /\ DOMAIN row.themes = 1..Len(row.themes)
      OBVIOUS
    <3> QED BY <2>1, <3>1, <3>2
  <2>2. CASE d2 # d
    BY <1>1, <1>2, <2>2 DEF Holds, ReadingsCover
  <2> QED BY <2>1, <2>2
<1>8. ThemesLive' /\ NothingForgotten'
  BY <1>1 DEF ThemesLive, NothingForgotten, Themes, Live, Stored
<1> QED
  BY <1>3, <1>4, <1>6, <1>7, <1>8 DEF MemoryInv

\* A dream goes on: it holds no more than it has read, and it has the lock if it has themes.
LEMMA ContinuesStep ==
  ASSUME MemoryInv, NEW d \in Dreams, NEW chunks \in Seq(Reading), NEW themes \in Seq(Reading),
         themes # <<>> => locked \in {Unlocked, d}, Len(themes) <= Spaces,
         \A i \in 1..Len(chunks) : chunks[i] \in Holds(d),
         \A i \in 1..Len(themes) : themes[i] \in Holds(d),
         Continues(d, chunks, themes), call' = call, raced' = raced, touched' = touched
  PROVE  MemoryInv'
<1> USE MemoryAssumption
<1>1. /\ MemoryTypeOK /\ DreamsHold /\ ReadingsCover /\ ThemesLive /\ NothingForgotten
      /\ entry \in [EntryIds -> {NoEntry, Removed} \union MemoryRow]
      /\ call \in [Callers -> {NoCall} \union MemoryCall]
      /\ dream \in [Dreams -> [chunks : Seq(Reading), themes : Seq(Reading)]]
      /\ locked \in Dreams \union {Unlocked}
  BY DEF MemoryInv, MemoryTypeOK
<1>2. PICK k \in 0..MaxEntries : Filled(k)
  BY DEF MemoryInv
<1>3. /\ d # Unlocked
      /\ \A d2 \in Dreams : dream[d2].themes # <<>> => locked = d2
      /\ DOMAIN themes = 1..Len(themes) /\ DOMAIN chunks = 1..Len(chunks)
      /\ Len(themes) \in Nat
      /\ themes = <<>> => Len(themes) = 0
  BY <1>1 DEF Unlocked, DreamsHold
<1>4. Spaces = MaxEntries - k
  BY <1>2, SpacesCount
<1>5. NoDream \in [chunks : Seq(Reading), themes : Seq(Reading)] /\ NoDream.chunks = <<>> /\ NoDream.themes = <<>>
  BY DEF NoDream
<1>6. CASE chunks # <<>>
  <2> DEFINE row == [chunks |-> chunks, themes |-> themes]
  <2>1. /\ dream' = [dream EXCEPT ![d] = row]
        /\ locked' = IF themes # <<>> THEN d ELSE locked
        /\ entry' = entry
    BY <1>6 DEF Continues
  <2>2. /\ row \in [chunks : Seq(Reading), themes : Seq(Reading)]
        /\ row = NoDream \/ row.chunks # <<>>
        /\ row.themes # <<>> => locked' = d /\ Len(row.themes) <= Spaces
        /\ \A i \in 1..Len(row.chunks) : Covers(row.chunks[i])
        /\ \A i \in 1..Len(row.themes) : Covers(row.themes[i])
    BY <1>1, <1>6, <2>1 DEF ReadingsCover
  <2>3. locked' = locked \/ locked \in {Unlocked, d}
    BY <2>1
  <2>4. locked' \in Dreams \union {Unlocked}
    BY <1>1, <2>1
  <2> HIDE DEF row
  <2> QED BY <2>1, <2>2, <2>3, <2>4, DreamStep
<1>7. CASE chunks = <<>>
  <2>1. /\ dream' = [dream EXCEPT ![d] = NoDream]
        /\ locked' = IF locked = d THEN Unlocked ELSE locked
        /\ entry' = Committed(themes)
    BY <1>7 DEF Continues
  <2>2. /\ dream'[d] = NoDream
        /\ \A d2 \in Dreams \ {d} : dream'[d2] = dream[d2]
    BY <1>1, <2>1
  <2>3. /\ entry' = [e \in EntryIds |-> entry'[e]]
        /\ \A i \in 1..Len(themes) : k + i \in EntryIds /\ entry'[k + i] = Row(themes[i].texts, TRUE)
        /\ \A e \in EntryIds : e > k + Len(themes) => entry'[e] = entry[e]
        /\ \A e \in 1..k : \/ entry'[e] = entry[e] /\ (e \in Stored => \A i \in 1..Len(themes) : e \notin themes[i].ids)
                           \/ /\ e \in Stored
                              /\ \E i \in 1..Len(themes) :
                                   e \in themes[i].ids /\ entry'[e] = [entry[e] EXCEPT !.superseded_by = k + i]
    <3> DEFINE new == Committed(themes)
    <3>1. Len(themes) <= MaxEntries - k
      BY <1>4
    <3>2. /\ new = [e \in EntryIds |-> new[e]]
          /\ \A i \in 1..Len(themes) : k + i \in EntryIds /\ new[k + i] = Row(themes[i].texts, TRUE)
          /\ \A e \in EntryIds : e > k + Len(themes) => new[e] = entry[e]
          /\ \A e \in 1..k : \/ new[e] = entry[e] /\ (e \in Stored => \A i \in 1..Len(themes) : e \notin themes[i].ids)
                             \/ /\ e \in Stored
                                /\ \E i \in 1..Len(themes) :
                                     e \in themes[i].ids /\ new[e] = [entry[e] EXCEPT !.superseded_by = k + i]
      <4>1. MemoryTypeOK /\ k \in 0..MaxEntries /\ Filled(k) /\ themes \in Seq(Reading)
        BY <1>1, <1>2
      <4> QED BY <3>1, <4>1, CommitIs
    <3>3. entry' = new
      BY <2>1
    <3> HIDE DEF new
    <3> QED BY <3>2, <3>3
  <2>4. /\ NoEntry \notin MemoryRow /\ Removed \notin MemoryRow /\ NoEntry # Removed
        /\ \A e \in EntryIds : e \in Stored <=> entry[e] \in MemoryRow
        /\ Stored \subseteq EntryIds
    BY <1>1, EntryKinds
  <2>5. ASSUME NEW e \in EntryIds
        PROVE  \/ e \in 1..k
               \/ e > k + Len(themes)
               \/ \E i \in 1..Len(themes) : e = k + i
    <3>1. e \in Nat /\ e >= 1
      BY DEF EntryIds
    <3>2. ASSUME e > k, ~(e > k + Len(themes)) PROVE e - k \in 1..Len(themes) /\ e = k + (e - k)
      BY <1>3, <3>1, <3>2
    <3> QED BY <1>3, <3>1, <3>2
  <2>6. \A i \in 1..Len(themes) : /\ themes[i].texts \in SUBSET AllTexts
                                  /\ Row(themes[i].texts, TRUE) \in MemoryRow
    <3>1. \A i \in 1..Len(themes) : themes[i] \in Reading
      OBVIOUS
    <3> QED BY <3>1 DEF Row, MemoryRow, Reading
  <2>7. ASSUME NEW e \in Stored, NEW i \in 1..Len(themes)
        PROVE  /\ [entry[e] EXCEPT !.superseded_by = k + i] \in MemoryRow
               /\ [entry[e] EXCEPT !.superseded_by = k + i].theme = entry[e].theme
               /\ [entry[e] EXCEPT !.superseded_by = k + i].texts = entry[e].texts
               /\ [entry[e] EXCEPT !.superseded_by = k + i].superseded_by = k + i
    <3> DEFINE row == entry[e]
               n == k + i
    <3>1. row \in MemoryRow /\ n \in Nat
      BY <2>4
    <3> HIDE DEF row, n
    <3>2. /\ [row EXCEPT !.superseded_by = n] \in MemoryRow
          /\ [row EXCEPT !.superseded_by = n].theme = row.theme
          /\ [row EXCEPT !.superseded_by = n].texts = row.texts
          /\ [row EXCEPT !.superseded_by = n].superseded_by = n
      BY <3>1 DEF MemoryRow
    <3> QED BY <3>2 DEF row, n
  <2>8. ASSUME NEW e \in EntryIds, e \in Stored \/ entry'[e] \in MemoryRow
        PROVE  /\ entry'[e] \in MemoryRow
               /\ \/ e \in Stored /\ entry'[e] = entry[e] /\ \A i \in 1..Len(themes) : e \notin themes[i].ids
                  \/ /\ e \in Stored /\ entry'[e].theme = entry[e].theme /\ entry'[e].texts = entry[e].texts
                     /\ \E i \in 1..Len(themes) : e \in themes[i].ids /\ entry'[e].superseded_by = k + i
                  \/ e \notin Stored /\ \E i \in 1..Len(themes) : e = k + i
    <3>1. CASE e \in 1..k
      <4>1. CASE entry'[e] = entry[e] /\ (e \in Stored => \A i \in 1..Len(themes) : e \notin themes[i].ids)
        BY <2>4, <2>8, <4>1
      <4>2. ASSUME e \in Stored, NEW i \in 1..Len(themes), e \in themes[i].ids,
                   entry'[e] = [entry[e] EXCEPT !.superseded_by = k + i]
            PROVE  /\ entry'[e] \in MemoryRow /\ entry'[e].superseded_by = k + i
                   /\ entry'[e].theme = entry[e].theme /\ entry'[e].texts = entry[e].texts
        BY <2>7, <4>2
      <4> QED BY <2>3, <3>1, <4>1, <4>2
    <3>2. CASE e > k + Len(themes)
      <4>1. entry[e] = NoEntry
        BY <1>2, <1>3, <3>2 DEF Filled, EntryIds
      <4> QED BY <2>3, <2>4, <2>8, <3>2, <4>1
    <3>3. CASE \E i \in 1..Len(themes) : e = k + i
      <4>1. entry[e] = NoEntry
        BY <1>2, <3>3 DEF Filled
      <4>2. entry'[e] \in MemoryRow
        BY <2>3, <2>6, <3>3
      <4> QED BY <2>4, <3>3, <4>1, <4>2
    <3> QED BY <2>5, <3>1, <3>2, <3>3
  <2>9. entry' \in [EntryIds -> {NoEntry, Removed} \union MemoryRow]
    <3>1. entry' = [e \in EntryIds |-> entry'[e]]
      BY <2>3
    <3>2. ASSUME NEW e \in EntryIds PROVE entry'[e] \in {NoEntry, Removed} \union MemoryRow
      <4>1. CASE e \in Stored
        BY <2>8, <4>1
      <4>2. CASE e \in 1..k /\ e \notin Stored
        <5>1. entry'[e] = entry[e]
          BY <2>3, <4>2
        <5> QED BY <1>1, <5>1
      <4>3. CASE e > k + Len(themes)
        <5>1. entry'[e] = entry[e]
          BY <2>3, <4>3
        <5> QED BY <1>1, <5>1
      <4>4. CASE \E i \in 1..Len(themes) : e = k + i
        <5>1. PICK i \in 1..Len(themes) : e = k + i
          BY <4>4
        <5>2. entry'[e] = Row(themes[i].texts, TRUE)
          BY <2>3, <5>1
        <5> QED BY <2>6, <5>2
      <4> QED BY <2>5, <4>1, <4>2, <4>3, <4>4
    <3> QED BY <3>1, <3>2
  <2>10. \A e \in EntryIds : e \in Stored' <=> entry'[e] \in MemoryRow
    BY <2>9 DEF Stored, MemoryRow, NoEntry, Removed
  <2>11. MemoryTypeOK'
    BY <1>1, <1>5, <2>1, <2>9 DEF MemoryTypeOK
  <2>12. k + Len(themes) \in 0..MaxEntries /\ Filled(k + Len(themes))'
    <3>1. k + Len(themes) \in 0..MaxEntries
      BY <1>3, <1>4
    <3>2. ASSUME NEW e \in EntryIds PROVE entry'[e] = NoEntry <=> e > k + Len(themes)
      <4>1. e \in Nat
        BY DEF EntryIds
      <4>2. e > k + Len(themes) => entry'[e] = NoEntry
        BY <1>2, <1>3, <2>3, <4>1 DEF Filled
      <4>3. \A i \in 1..Len(themes) : e = k + i => entry'[e] # NoEntry
        <5> SUFFICES ASSUME NEW i \in 1..Len(themes), e = k + i PROVE entry'[e] # NoEntry
          OBVIOUS
        <5>1. entry'[e] = Row(themes[i].texts, TRUE)
          BY <2>3
        <5> QED BY <2>4, <2>6, <5>1
      <4>4. e \in 1..k => entry'[e] # NoEntry
        <5>1. e \in 1..k => entry[e] # NoEntry
          BY <1>2, <4>1 DEF Filled
        <5>2. e \in Stored => entry'[e] \in MemoryRow
          BY <2>8
        <5> QED BY <2>3, <2>4, <5>1, <5>2
      <4> QED BY <2>5, <4>2, <4>3, <4>4
    <3> QED BY <3>1, <3>2 DEF Filled
  <2>13. Spaces' = MaxEntries - (k + Len(themes))
    <3>1. {e \in EntryIds : entry'[e] = NoEntry} = (k + Len(themes) + 1)..MaxEntries
      BY <2>12, <1>3 DEF Filled, EntryIds
    <3>2. \A n \in 0..MaxEntries : Cardinality((n + 1)..MaxEntries) = MaxEntries - n
      <4> TAKE n \in 0..MaxEntries
      <4>1. n + 1 \in Int /\ MaxEntries \in Int /\ n <= MaxEntries /\ n \in Int
        OBVIOUS
      <4>2. Cardinality((n + 1)..MaxEntries) = IF n + 1 > MaxEntries THEN 0 ELSE MaxEntries - (n + 1) + 1
        BY <4>1, FS_Interval
      <4> QED BY <4>1, <4>2
    <3> QED BY <2>12, <3>1, <3>2 DEF Spaces
  <2>14. DreamsHold'
    <3> SUFFICES ASSUME NEW d2 \in Dreams
                 PROVE  /\ dream'[d2] = NoDream \/ dream'[d2].chunks # <<>>
                        /\ dream'[d2].themes # <<>> => locked' = d2 /\ Len(dream'[d2].themes) <= Spaces'
      BY DEF DreamsHold, NoDream
    <3>1. CASE d2 = d
      BY <1>5, <2>2, <3>1
    <3>2. CASE d2 # d
      <4>1. dream'[d2] = dream[d2]
        BY <2>2, <3>2
      <4>2. /\ dream[d2] = NoDream \/ dream[d2].chunks # <<>>
            /\ dream[d2].themes # <<>> => locked = d2 /\ Len(dream[d2].themes) <= Spaces
        BY <1>1 DEF DreamsHold
      <4>3. dream[d2].themes # <<>> => locked' = locked /\ themes = <<>>
        <5>1. d2 # Unlocked
          BY DEF Unlocked
        <5> QED BY <2>1, <3>2, <4>2, <5>1
      <4>4. themes = <<>> => Spaces' = Spaces
        BY <1>3, <1>4, <2>13
      <4> QED BY <4>1, <4>2, <4>3, <4>4
    <3> QED BY <3>1, <3>2
  <2>15. ReadingsCover'
    <3> SUFFICES ASSUME NEW d2 \in Dreams, NEW c \in Holds(d2)', NEW e \in c.ids
                 PROVE  /\ entry'[e] # NoEntry
                        /\ e \in Stored' => ~entry'[e].theme /\ (e \in raced \/ entry'[e].texts \subseteq c.texts)
      BY DEF ReadingsCover, Covers
    <3>1. c \in Holds(d2)
      <4>1. Holds(d)' = {}
        <5>1. Holds(d)' = {dream'[d].chunks[i] : i \in DOMAIN dream'[d].chunks}
                            \union {dream'[d].themes[i] : i \in DOMAIN dream'[d].themes}
          BY DEF Holds
        <5>2. dream'[d].chunks = <<>> /\ dream'[d].themes = <<>>
          BY <1>5, <2>2
        <5> QED BY <5>1, <5>2
      <4>2. CASE d2 # d
        BY <2>2, <4>2 DEF Holds
      <4> QED BY <4>1, <4>2
    <3>2. /\ entry[e] # NoEntry /\ e \in EntryIds
          /\ e \in Stored => ~entry[e].theme /\ (e \in raced \/ entry[e].texts \subseteq c.texts)
      BY <1>1, <3>1, HeldIsRead DEF ReadingsCover, Covers
    <3>3. e \in 1..k
      BY <1>2, <3>2 DEF Filled, EntryIds
    <3>4. CASE e \in Stored
      BY <2>8, <2>4, <3>2, <3>4
    <3>5. CASE e \notin Stored
      <4>1. entry'[e] = entry[e]
        BY <2>3, <3>3, <3>5
      <4> QED BY <2>4, <2>10, <3>2, <3>5, <4>1
    <3> QED BY <3>4, <3>5
  <2>16. ASSUME NEW e \in Stored, entry[e].theme
         PROVE  entry'[e] = entry[e] /\ entry[e] \in MemoryRow /\ e \in EntryIds
    <3>1. \A i \in 1..Len(themes) : e \notin themes[i].ids
      BY <1>1, <2>16 DEF ReadingsCover, Covers
    <3> QED BY <2>4, <2>8, <3>1
  <2>17. ThemesLive'
    <3> SUFFICES ASSUME NEW e \in Stored', entry'[e].theme PROVE entry'[e].superseded_by = 0
      BY DEF ThemesLive, Themes, Live
    <3>1. e \in EntryIds /\ entry'[e] \in MemoryRow
      BY <2>10 DEF Stored
    <3>2. CASE e \in Stored
      <4>1. entry[e].theme
        BY <2>8, <3>1, <3>2
      <4>2. entry'[e] = entry[e]
        BY <2>16, <3>2, <4>1
      <4> QED BY <1>1, <3>2, <4>1, <4>2 DEF ThemesLive, Themes, Live
    <3>3. CASE e \notin Stored
      <4>1. PICK i \in 1..Len(themes) : e = k + i
        BY <2>8, <3>1, <3>3
      <4>2. entry'[e] = Row(themes[i].texts, TRUE)
        BY <2>3, <4>1
      <4> QED BY <4>2 DEF Row
    <3> QED BY <3>2, <3>3
  <2>18. NothingForgotten'
    <3> SUFFICES ASSUME NEW e \in Stored', entry'[e].superseded_by # 0, e \notin raced,
                        entry'[e].superseded_by \notin touched
                 PROVE  LET theme == entry'[e].superseded_by IN
                        /\ theme \in Stored' /\ entry'[theme].superseded_by = 0
                        /\ entry'[theme].theme /\ entry'[e].texts \subseteq entry'[theme].texts
      BY DEF NothingForgotten, Live
    <3>1. e \in EntryIds /\ entry'[e] \in MemoryRow
      BY <2>10 DEF Stored
    <3>2. e \in Stored
      <4>1. ASSUME NEW i \in 1..Len(themes), e = k + i PROVE FALSE
        <5>1. entry'[e] = Row(themes[i].texts, TRUE)
          BY <2>3, <4>1
        <5> QED BY <5>1 DEF Row
      <4> QED BY <2>8, <3>1, <4>1
    <3>3. CASE entry'[e] = entry[e]
      <4> DEFINE theme == entry[e].superseded_by
      <4>1. theme \in Live /\ entry[theme].theme /\ entry[e].texts \subseteq entry[theme].texts
        BY <1>1, <3>2, <3>3 DEF NothingForgotten, Live
      <4>2. entry'[theme] = entry[theme] /\ entry[theme] \in MemoryRow /\ theme \in EntryIds
        BY <2>16, <4>1 DEF Live
      <4> QED BY <2>10, <3>3, <4>1, <4>2 DEF Live
    <3>4. ASSUME NEW i \in 1..Len(themes), e \in themes[i].ids, entry'[e].superseded_by = k + i,
                 entry'[e].texts = entry[e].texts
          PROVE  /\ k + i \in Stored' /\ entry'[k + i].superseded_by = 0
                 /\ entry'[k + i].theme /\ entry'[e].texts \subseteq entry'[k + i].texts
      <4>1. entry[e].texts \subseteq themes[i].texts
        BY <1>1, <3>2, <3>4 DEF ReadingsCover, Covers
      <4>2. k + i \in EntryIds /\ entry'[k + i] = Row(themes[i].texts, TRUE) /\ entry'[k + i] \in MemoryRow
        BY <2>3, <2>6
      <4> QED BY <2>10, <3>4, <4>1, <4>2 DEF Row
    <3> QED BY <2>8, <3>1, <3>2, <3>3, <3>4
  <2>19. NamedWere'
    <3> SUFFICES ASSUME NEW c \in Callers, call[c].op \in {"remove", "replace"} PROVE entry'[call[c].id] # NoEntry
      BY DEF NamedWere
    <3>1. call[c].id \in EntryIds /\ entry[call[c].id] # NoEntry
      <4>1. NamedWere /\ call[c] \in MemoryCall
        BY <1>1 DEF MemoryInv, NoCall
      <4> QED BY <4>1 DEF NamedWere, MemoryCall
    <3>2. call[c].id <= k
      BY <1>2, <3>1 DEF Filled, EntryIds
    <3> QED BY <1>3, <2>12, <3>1, <3>2 DEF Filled, EntryIds
  <2> QED BY <2>11, <2>12, <2>14, <2>15, <2>17, <2>18, <2>19 DEF MemoryInv
<1> QED BY <1>6, <1>7

\* What a dream reads: chunks of live rows that are no themes, as they read now.
LEMMA ReadingsAre ==
  ASSUME MemoryTypeOK
  PROVE  /\ Readings \in Seq(Reading)
         /\ \A i \in 1..Len(Readings) : Covers(Readings[i])
<1> USE MemoryAssumption
<1> DEFINE plain == {e \in Live : ~entry[e].theme}
           chunks == Chunks(plain)
           large == {i \in DOMAIN chunks : Cardinality(chunks[i]) >= 2}
           count == Cardinality(large)
           ReadingOf(i) == [ids |-> chunks[i], texts |-> UNION {entry[e].texts : e \in chunks[i]}]
<1>1. /\ Live \subseteq Stored /\ Stored \subseteq EntryIds
      /\ \A e \in Stored : entry[e] \in MemoryRow /\ entry[e].texts \in SUBSET AllTexts /\ entry[e] # NoEntry
  <2>1. \A e \in Stored : entry[e] \in MemoryRow /\ entry[e] # NoEntry
    BY EntryKinds
  <2> QED BY <2>1, EntryKinds DEF Live, MemoryRow
<1>2. PICK n \in Int : /\ DOMAIN chunks = 1..n
                       /\ \A i \in 1..n : chunks[i] \subseteq plain
  <2> DEFINE m == (Cardinality(plain) + ChunkSize - 1) \div ChunkSize
  <2>1. IsFiniteSet(plain)
    <3>1. IsFiniteSet(EntryIds)
      <4>1. 1 \in Int /\ MaxEntries \in Int
        OBVIOUS
      <4> QED BY <4>1, FS_Interval DEF EntryIds
    <3>2. plain \subseteq EntryIds
      BY <1>1
    <3> QED BY <3>1, <3>2, FS_Subset
  <2>2. Cardinality(plain) \in Nat
    BY <2>1, FS_CardinalityType
  <2>3. m \in Int
    <3> DEFINE c == Cardinality(plain)
    <3>1. c \in Nat
      BY <2>2
    <3> HIDE DEF c
    <3>2. (c + ChunkSize - 1) \div ChunkSize \in Int
      BY <3>1
    <3> QED BY <3>2 DEF c
  <2> HIDE DEF m
  <2>4. DOMAIN chunks = 1..m /\ \A i \in 1..m : chunks[i] \subseteq plain
    BY DEF Chunks, m
  <2> QED BY <2>3, <2>4
<1> HIDE DEF chunks, plain
<1>3. count \in Nat /\ \A i \in 1..count : i \in 1..n
  <2>1. IsFiniteSet(1..n)
    BY FS_Interval
  <2>2. Cardinality(1..n) = IF 1 > n THEN 0 ELSE n - 1 + 1
    BY FS_Interval
  <2>3. large \subseteq 1..n
    BY <1>2
  <2> HIDE DEF large
  <2>4. count \in Nat /\ Cardinality(1..n) \in Nat /\ count <= Cardinality(1..n)
    <3>1. IsFiniteSet(large) /\ count <= Cardinality(1..n)
      BY <2>1, <2>3, FS_Subset
    <3> QED BY <2>1, <3>1, FS_CardinalityType
  <2> HIDE DEF count
  <2> QED BY <2>2, <2>4
<1> HIDE DEF large
<1>4. Readings = [i \in 1..count |-> ReadingOf(i)]
  BY DEF Readings, plain, chunks, large
<1> HIDE DEF count
<1>5. ASSUME NEW i \in 1..count PROVE ReadingOf(i) \in Reading /\ Covers(ReadingOf(i))
  <2>1. chunks[i] \subseteq plain
    BY <1>2, <1>3
  <2>2. \A e \in chunks[i] : e \in Stored /\ ~entry[e].theme
    BY <1>1, <2>1 DEF plain
  <2>3. UNION {entry[e].texts : e \in chunks[i]} \in SUBSET AllTexts
    BY <1>1, <2>2
  <2>4. chunks[i] \in SUBSET EntryIds
    BY <1>1, <2>2
  <2>5. \A e \in chunks[i] : entry[e].texts \subseteq UNION {entry[f].texts : f \in chunks[i]}
    OBVIOUS
  <2>6. ReadingOf(i) \in Reading
    BY <2>3, <2>4 DEF Reading
  <2>7. Covers(ReadingOf(i))
    BY <1>1, <2>2, <2>5 DEF Covers
  <2> QED BY <2>6, <2>7
<1> HIDE DEF ReadingOf
<1>6. Readings \in Seq(Reading) /\ Len(Readings) = count /\ \A i \in 1..count : Readings[i] = ReadingOf(i)
  BY <1>3, <1>4, <1>5
<1> QED
  BY <1>5, <1>6

LEMMA MemoryInitInv == MemoryInit => MemoryInv
<1> SUFFICES ASSUME MemoryInit PROVE MemoryInv
  OBVIOUS
<1> USE MemoryAssumption
<1>1. /\ entry = [e \in EntryIds |-> IF e <= Len(Saved) THEN Row({Saved[e]}, FALSE) ELSE NoEntry]
      /\ call = [c \in Callers |-> NoCall] /\ dream = [d \in Dreams |-> NoDream] /\ locked = Unlocked
  BY DEF MemoryInit
<1>2. \A e \in EntryIds : e <= Len(Saved) =>
        /\ entry[e] = Row({Saved[e]}, FALSE) /\ Row({Saved[e]}, FALSE) \in MemoryRow
        /\ entry[e] # NoEntry /\ entry[e].superseded_by = 0 /\ ~entry[e].theme
  <2> SUFFICES ASSUME NEW e \in EntryIds, e <= Len(Saved)
               PROVE  /\ entry[e] = Row({Saved[e]}, FALSE) /\ Row({Saved[e]}, FALSE) \in MemoryRow
                      /\ entry[e] # NoEntry /\ entry[e].superseded_by = 0 /\ ~entry[e].theme
    OBVIOUS
  <2>1. entry[e] = Row({Saved[e]}, FALSE)
    BY <1>1
  <2>2. {Saved[e]} \in SUBSET AllTexts
    BY DEF AllTexts, EntryIds
  <2> QED BY <2>1, <2>2 DEF Row, MemoryRow, NoEntry
<1>3. \A e \in EntryIds : e > Len(Saved) => entry[e] = NoEntry
  <2>1. \A e \in EntryIds : e > Len(Saved) => ~(e <= Len(Saved))
    BY DEF EntryIds
  <2> QED BY <1>1, <2>1
<1>4. \A e \in EntryIds : e <= Len(Saved) \/ e > Len(Saved)
  BY DEF EntryIds
<1>5. MemoryTypeOK
  <2>1. entry \in [EntryIds -> {NoEntry, Removed} \union MemoryRow]
    BY <1>1, <1>2, <1>3, <1>4
  <2>2. NoDream \in [chunks : Seq(Reading), themes : Seq(Reading)]
    BY DEF NoDream
  <2> QED BY <1>1, <2>1, <2>2 DEF MemoryTypeOK
<1>6. Filled(Len(Saved)) /\ Len(Saved) \in 0..MaxEntries
  BY <1>2, <1>3, <1>4 DEF Filled, EntryIds
<1>7. \A e \in Stored : e \in EntryIds /\ e <= Len(Saved)
  BY <1>3, <1>4 DEF Stored, NoEntry
<1>8. ThemesLive /\ NothingForgotten
  BY <1>2, <1>7 DEF ThemesLive, NothingForgotten, Themes, Live
<1>9. DreamsHold /\ ReadingsCover /\ NamedWere
  <2>1. \A d \in Dreams : dream[d] = NoDream /\ dream[d].chunks = <<>> /\ dream[d].themes = <<>>
    BY <1>1 DEF NoDream
  <2>2. \A d \in Dreams : Holds(d) = {}
    BY <2>1 DEF Holds
  <2>3. \A c \in Callers : call[c].op = "none"
    BY <1>1 DEF NoCall
  <2> QED BY <2>1, <2>2, <2>3 DEF DreamsHold, ReadingsCover, NamedWere
<1> QED
  BY <1>5, <1>6, <1>8, <1>9 DEF MemoryInv

\* A step that changes a call only.
LEMMA CallStep ==
  ASSUME MemoryInv, NEW c \in Callers, NEW write \in {NoCall} \union MemoryCall,
         write.op \in {"remove", "replace"} => entry[write.id] # NoEntry,
         call' = [call EXCEPT ![c] = write],
         entry' = entry, dream' = dream, locked' = locked, raced' = raced, touched' = touched
  PROVE  MemoryInv'
<1>1. MemoryTypeOK /\ NamedWere /\ call \in [Callers -> {NoCall} \union MemoryCall]
  BY DEF MemoryInv, MemoryTypeOK
<1>2. MemoryTypeOK'
  BY <1>1 DEF MemoryTypeOK
<1>3. NamedWere'
  BY <1>1 DEF NamedWere
<1>4. (\E k \in 0..MaxEntries : Filled(k)') /\ Spaces' = Spaces
  BY DEF MemoryInv, Filled, Spaces
<1> QED
  BY <1>2, <1>3, <1>4, MemoryStays

\* A write of a thread that has decided on it.
LEMMA WriteStep ==
  ASSUME MemoryInv, NEW c \in Callers, locked = Unlocked, Written(c),
         entry' \in [EntryIds -> {NoEntry, Removed} \union MemoryRow],
         \E k \in 0..MaxEntries : Filled(k)',
         \A e \in EntryIds : entry[e] # NoEntry => entry'[e] # NoEntry,
         raced \subseteq raced', touched \subseteq touched',
         \A e \in EntryIds :
           \/ entry'[e] = entry[e]
           \/ entry[e] = NoEntry /\ \E texts \in SUBSET AllTexts : entry'[e] = Row(texts, FALSE)
           \/ /\ e \in Stored /\ (e \in Themes => e \in touched')
              /\ \/ entry'[e] = Removed
                 \/ /\ entry'[e] \in MemoryRow /\ ~entry'[e].theme
                    /\ entry'[e].superseded_by = entry[e].superseded_by
                    /\ e \notin Live => e \in raced'
                    /\ (\E d \in Dreams : e \in ReadBy(d)) => e \in raced'
  PROVE  MemoryInv'
<1>1. /\ MemoryTypeOK /\ NamedWere /\ call \in [Callers -> {NoCall} \union MemoryCall]
      /\ call' = [call EXCEPT ![c] = NoCall] /\ dream' = dream /\ locked' = locked
  BY DEF MemoryInv, MemoryTypeOK, Written
<1>2. MemoryTypeOK'
  BY <1>1 DEF MemoryTypeOK
<1>3. NamedWere'
  <2> SUFFICES ASSUME NEW c2 \in Callers, call'[c2].op \in {"remove", "replace"} PROVE entry'[call'[c2].id] # NoEntry
    BY DEF NamedWere
  <2>1. call'[c2] = call[c2]
    BY <1>1 DEF NoCall
  <2>2. call[c2].id \in EntryIds /\ entry[call[c2].id] # NoEntry
    BY <1>1, <2>1 DEF NamedWere, NoCall, MemoryCall
  <2> QED BY <2>1, <2>2
<1> QED
  BY <1>1, <1>2, <1>3, MemoryStays

LEMMA MemoryNextInv == MemoryInv /\ [MemoryNext]_memoryVars => MemoryInv'
<1> SUFFICES ASSUME MemoryInv, [MemoryNext]_memoryVars PROVE MemoryInv'
  OBVIOUS
<1> USE MemoryAssumption
<1>1. /\ MemoryTypeOK /\ DreamsHold /\ ReadingsCover /\ NamedWere
      /\ entry \in [EntryIds -> {NoEntry, Removed} \union MemoryRow]
      /\ call \in [Callers -> {NoCall} \union MemoryCall]
      /\ dream \in [Dreams -> [chunks : Seq(Reading), themes : Seq(Reading)]]
      /\ locked \in Dreams \union {Unlocked}
  BY DEF MemoryInv, MemoryTypeOK
<1>2. PICK k \in 0..MaxEntries : Filled(k)
  BY DEF MemoryInv
<1>3. /\ NoEntry \notin MemoryRow /\ Removed \notin MemoryRow /\ NoEntry # Removed
      /\ \A e \in EntryIds : e \in Stored <=> entry[e] \in MemoryRow
      /\ Stored \subseteq EntryIds /\ Live \subseteq Stored
  BY <1>1, EntryKinds DEF Live
<1>4. NoCall \in {NoCall} \union MemoryCall /\ NoCall.op = "none"
  BY DEF NoCall
<1>5. \A e \in EntryIds : e \in Stored => entry[e] # NoEntry
  BY <1>3
<1>6. ASSUME NEW c \in Callers, NEW text \in Texts, DecideAdd(c, text) PROVE MemoryInv'
  <2> DEFINE write == [op |-> "add", text |-> text]
  <2>1. write \in MemoryCall /\ write.op = "add"
    BY DEF MemoryCall
  <2>2. call' = [call EXCEPT ![c] = write]
        /\ entry' = entry /\ dream' = dream /\ locked' = locked /\ raced' = raced /\ touched' = touched
    BY <1>6 DEF DecideAdd, Decides
  <2> HIDE DEF write
  <2> QED BY <2>1, <2>2, CallStep
<1>7. ASSUME NEW c \in Callers, NEW e \in Named, NEW text \in Texts, DecideReplace(c, e, text) PROVE MemoryInv'
  <2> DEFINE write == [op |-> "replace", id |-> e, text |-> text]
  <2>1. e \in EntryIds /\ entry[e] # NoEntry
    BY <1>3, <1>5, <1>7 DEF DecideReplace
  <2>2. write \in MemoryCall /\ write.op = "replace" /\ write.id = e
    BY <2>1 DEF MemoryCall
  <2>3. call' = [call EXCEPT ![c] = write]
        /\ entry' = entry /\ dream' = dream /\ locked' = locked /\ raced' = raced /\ touched' = touched
    BY <1>7 DEF DecideReplace, Decides
  <2> HIDE DEF write
  <2> QED BY <2>1, <2>2, <2>3, CallStep
<1>8. ASSUME NEW c \in Callers, NEW e \in Named, DecideRemove(c, e) PROVE MemoryInv'
  <2> DEFINE write == [op |-> "remove", id |-> e]
  <2>1. e \in EntryIds /\ entry[e] # NoEntry
    BY <1>3, <1>5, <1>8 DEF DecideRemove
  <2>2. write \in MemoryCall /\ write.op = "remove" /\ write.id = e
    BY <2>1 DEF MemoryCall
  <2>3. call' = [call EXCEPT ![c] = write]
        /\ entry' = entry /\ dream' = dream /\ locked' = locked /\ raced' = raced /\ touched' = touched
    BY <1>8 DEF DecideRemove, Decides
  <2> HIDE DEF write
  <2> QED BY <2>1, <2>2, <2>3, CallStep
<1>9. ASSUME NEW c \in Callers, WriteFails(c) PROVE MemoryInv'
  BY <1>4, <1>9, CallStep DEF WriteFails, Written
<1>10. ASSUME NEW c \in Callers, InsertEntry(c) PROVE MemoryInv'
  <2> DEFINE row == Row({call[c].text}, FALSE)
  <2>1. call[c].text \in Texts /\ locked = Unlocked /\ Written(c) /\ raced' = raced /\ touched' = touched
    BY <1>1, <1>10 DEF InsertEntry, NoCall, MemoryCall
  <2>2. PICK e \in EntryIds : IsNext(e) /\ entry' = [entry EXCEPT ![e] = row]
    BY <1>10 DEF InsertEntry
  <2>3. {call[c].text} \in SUBSET AllTexts
    BY <2>1 DEF AllTexts
  <2>4. row \in MemoryRow
    BY <2>3 DEF Row, MemoryRow
  <2>5. e = k + 1 /\ entry[e] = NoEntry
    <3>1. e > k /\ entry[e] = NoEntry
      BY <1>2, <2>2 DEF IsNext, Filled
    <3>2. k + 1 < e => k + 1 \in EntryIds /\ k + 1 \in 1..e-1 /\ k + 1 > k
      BY DEF EntryIds
    <3>3. ~(k + 1 < e)
      BY <1>2, <2>2, <3>2 DEF IsNext, Filled
    <3> QED BY <3>1, <3>3 DEF EntryIds
  <2>6. \A f \in EntryIds : entry'[f] = IF f = e THEN row ELSE entry[f]
    BY <1>1, <2>2
  <2>7. entry' \in [EntryIds -> {NoEntry, Removed} \union MemoryRow]
    BY <1>1, <2>2, <2>4
  <2> HIDE DEF row
  <2>8. k + 1 \in 0..MaxEntries /\ Filled(k + 1)'
    <3>1. k + 1 \in 0..MaxEntries
      BY <2>5 DEF EntryIds
    <3>2. ASSUME NEW f \in EntryIds PROVE entry'[f] = NoEntry <=> f > k + 1
      <4>1. f \in Nat
        BY DEF EntryIds
      <4>2. entry[f] = NoEntry <=> f > k
        BY <1>2 DEF Filled
      <4>3. CASE f = e
        BY <1>3, <2>4, <2>5, <2>6, <4>3
      <4>4. CASE f # e
        BY <2>5, <2>6, <4>1, <4>2, <4>4
      <4> QED BY <4>3, <4>4
    <3> QED BY <3>1, <3>2 DEF Filled
  <2>9. entry[e] = NoEntry /\ \E texts \in SUBSET AllTexts : entry'[e] = Row(texts, FALSE)
    BY <2>3, <2>5, <2>6 DEF row
  <2>10. \A f \in EntryIds : entry[f] # NoEntry => entry'[f] # NoEntry
    BY <1>3, <2>4, <2>6
  <2> QED BY <2>1, <2>6, <2>7, <2>8, <2>9, <2>10, WriteStep
<1>11. ASSUME NEW c \in Callers, DeleteEntry(c) PROVE MemoryInv'
  <2> DEFINE e == call[c].id
  <2>1. /\ locked = Unlocked /\ Written(c) /\ raced' = raced
        /\ entry' = [entry EXCEPT ![e] = Removed] /\ touched' = touched \union ({e} \intersect Themes)
        /\ e \in EntryIds /\ entry[e] # NoEntry
    BY <1>1, <1>11 DEF DeleteEntry, NoCall, MemoryCall, NamedWere
  <2> HIDE DEF e
  <2>2. \A f \in EntryIds : entry'[f] = IF f = e THEN Removed ELSE entry[f]
    BY <1>1, <2>1
  <2>3. entry' \in [EntryIds -> {NoEntry, Removed} \union MemoryRow]
    BY <1>1, <2>1
  <2>4. Filled(k)'
    BY <1>2, <1>3, <2>1, <2>2 DEF Filled
  <2>5. \A f \in EntryIds : entry[f] # NoEntry => entry'[f] # NoEntry
    BY <1>3, <2>2
  <2>6. entry'[e] = Removed /\ (entry[e] = Removed \/ e \in Stored) /\ (e \in Themes => e \in touched')
    BY <1>1, <1>3, <2>1, <2>2
  <2> QED BY <2>1, <2>2, <2>3, <2>4, <2>5, <2>6, WriteStep
<1>12. ASSUME NEW c \in Callers, UpdateEntry(c) PROVE MemoryInv'
  <2> DEFINE e == call[c].id
             text == call[c].text
  <2>1. /\ locked = Unlocked /\ Written(c)
        /\ entry' = IF e \in Stored THEN [entry EXCEPT ![e].texts = {text}, ![e].theme = FALSE] ELSE entry
        /\ touched' = touched \union ({e} \intersect Themes)
        /\ raced' = IF e \in Stored \ Live \/ \E d \in Dreams : e \in ReadBy(d) THEN raced \union {e} ELSE raced
        /\ e \in EntryIds /\ text \in Texts
    <3>1. call[c].op = "replace" /\ call[c] \in {NoCall} \union MemoryCall
      BY <1>1, <1>12 DEF UpdateEntry
    <3>2. e \in EntryIds /\ text \in Texts
      BY <3>1 DEF NoCall, MemoryCall
    <3> HIDE DEF e, text
    <3>3. /\ locked = Unlocked /\ Written(c)
          /\ entry' = IF e \in Stored THEN [entry EXCEPT ![e].texts = {text}, ![e].theme = FALSE] ELSE entry
          /\ touched' = touched \union ({e} \intersect Themes)
          /\ raced' = IF e \in Stored \ Live \/ \E d \in Dreams : e \in ReadBy(d) THEN raced \union {e} ELSE raced
      BY <1>12 DEF UpdateEntry, e, text
    <3> QED BY <3>2, <3>3
  <2>2. {text} \in SUBSET AllTexts
    BY <2>1 DEF AllTexts
  <2> HIDE DEF e, text
  <2>3. CASE e \notin Stored
    <3>1. entry' = entry /\ Filled(k)'
      BY <1>2, <2>1, <2>3 DEF Filled
    <3> QED BY <1>1, <2>1, <3>1, WriteStep
  <2>4. CASE e \in Stored
    <3>1. entry[e] \in MemoryRow
      BY <1>3, <2>4
    <3>2. /\ entry'[e] \in MemoryRow /\ ~entry'[e].theme /\ entry'[e].superseded_by = entry[e].superseded_by
          /\ \A f \in EntryIds \ {e} : entry'[f] = entry[f]
          /\ entry' = [f \in EntryIds |-> entry'[f]]
      BY <1>1, <2>1, <2>2, <2>4, <3>1 DEF MemoryRow
    <3>3. entry' \in [EntryIds -> {NoEntry, Removed} \union MemoryRow]
      BY <1>1, <3>2
    <3>4. Filled(k)'
      BY <1>2, <1>3, <3>1, <3>2 DEF Filled
    <3>5. \A f \in EntryIds : entry[f] # NoEntry => entry'[f] # NoEntry
      BY <1>3, <3>2
    <3>6. (e \in Themes => e \in touched') /\ (e \notin Live => e \in raced')
          /\ ((\E d \in Dreams : e \in ReadBy(d)) => e \in raced')
      BY <2>1, <2>4
    <3>7. raced \subseteq raced' /\ touched \subseteq touched'
      BY <2>1
    <3>8. \A f \in EntryIds :
            \/ entry'[f] = entry[f]
            \/ /\ f \in Stored /\ (f \in Themes => f \in touched')
               /\ entry'[f] \in MemoryRow /\ ~entry'[f].theme
               /\ entry'[f].superseded_by = entry[f].superseded_by
               /\ f \notin Live => f \in raced'
               /\ (\E d \in Dreams : f \in ReadBy(d)) => f \in raced'
      BY <2>4, <3>2, <3>6
    <3> QED BY <2>1, <3>3, <3>4, <3>5, <3>7, <3>8, WriteStep
  <2> QED BY <2>3, <2>4
<1>13. ASSUME NEW d \in Dreams, DreamReads(d) PROVE MemoryInv'
  <2> DEFINE row == [chunks |-> Readings, themes |-> <<>>]
  <2>1. /\ dream[d] = NoDream /\ dream' = [dream EXCEPT ![d].chunks = Readings] /\ Readings # <<>>
        /\ entry' = entry /\ call' = call /\ locked' = locked /\ raced' = raced /\ touched' = touched
    BY <1>13 DEF DreamReads
  <2>2. dream' = [dream EXCEPT ![d] = row]
    <3>1. dream' = [dream EXCEPT ![d] = [dream[d] EXCEPT !.chunks = Readings]]
      BY <2>1
    <3>2. [NoDream EXCEPT !.chunks = Readings] = row
      BY DEF NoDream
    <3> QED BY <2>1, <3>1, <3>2
  <2>3. Readings \in Seq(Reading) /\ \A i \in 1..Len(Readings) : Covers(Readings[i])
    BY <1>1, ReadingsAre
  <2>4. /\ row \in [chunks : Seq(Reading), themes : Seq(Reading)]
        /\ row.chunks = Readings /\ row.themes = <<>>
    BY <2>3
  <2> HIDE DEF row
  <2>5. Len(row.themes) = 0 /\ locked' \in Dreams \union {Unlocked}
    BY <1>1, <2>1, <2>4
  <2>6. /\ \A i \in 1..Len(row.chunks) : Covers(row.chunks[i])
        /\ \A i \in 1..Len(row.themes) : Covers(row.themes[i])
        /\ row.themes # <<>> => locked' = d /\ Len(row.themes) <= Spaces
        /\ row = NoDream \/ row.chunks # <<>>
    BY <2>1, <2>3, <2>4, <2>5
  <2> QED BY <2>1, <2>2, <2>4, <2>5, <2>6, DreamStep
<1>14. ASSUME NEW d \in Dreams, dream[d] # NoDream
       PROVE  LET row == dream[d] IN
              /\ row.chunks \in Seq(Reading) /\ row.themes \in Seq(Reading) /\ row.chunks # <<>>
              /\ Tail(row.chunks) \in Seq(Reading) /\ Head(row.chunks) \in Holds(d) /\ Head(row.chunks) \in Reading
              /\ \A i \in 1..Len(Tail(row.chunks)) : Tail(row.chunks)[i] \in Holds(d)
              /\ \A i \in 1..Len(row.themes) : row.themes[i] \in Holds(d)
              /\ row.themes # <<>> => locked = d /\ Len(row.themes) <= Spaces
  <2> DEFINE chunks == dream[d].chunks
             themes == dream[d].themes
  <2>1. /\ chunks \in Seq(Reading) /\ themes \in Seq(Reading) /\ chunks # <<>>
        /\ themes # <<>> => locked = d /\ Len(themes) <= Spaces
    BY <1>1, <1>14 DEF DreamsHold
  <2>2. /\ \A i \in 1..Len(chunks) : chunks[i] \in Holds(d)
        /\ \A i \in 1..Len(themes) : themes[i] \in Holds(d)
    BY <2>1 DEF Holds
  <2> HIDE DEF chunks, themes
  <2>3. /\ Tail(chunks) \in Seq(Reading) /\ Head(chunks) = chunks[1] /\ 1 \in 1..Len(chunks)
        /\ \A i \in 1..Len(Tail(chunks)) : i + 1 \in 1..Len(chunks) /\ Tail(chunks)[i] = chunks[i + 1]
    BY <2>1
  <2>4. Head(chunks) \in Reading
    BY <2>1, <2>3
  <2> QED BY <2>1, <2>2, <2>3, <2>4 DEF chunks, themes
<1>15. ASSUME NEW d \in Dreams, Summarise(d) PROVE MemoryInv'
  <2> DEFINE chunks == dream[d].chunks
             themes == dream[d].themes
             more == Append(themes, Head(chunks))
  <2>1. /\ locked \in {Unlocked, d} /\ Spaces > Len(themes) /\ dream[d] # NoDream
        /\ Continues(d, Tail(chunks), more) /\ call' = call /\ raced' = raced /\ touched' = touched
    BY <1>15 DEF Summarise, Spaces
  <2>2. /\ Tail(chunks) \in Seq(Reading) /\ themes \in Seq(Reading) /\ Head(chunks) \in Reading
        /\ Head(chunks) \in Holds(d)
        /\ \A i \in 1..Len(Tail(chunks)) : Tail(chunks)[i] \in Holds(d)
        /\ \A i \in 1..Len(themes) : themes[i] \in Holds(d)
    BY <1>14, <2>1
  <2> HIDE DEF chunks, themes
  <2>3. more \in Seq(Reading) /\ Len(more) = Len(themes) + 1
        /\ \A i \in 1..Len(more) : more[i] = IF i = Len(themes) + 1 THEN Head(chunks) ELSE themes[i]
    BY <2>2
  <2>4. Len(more) <= Spaces
    <3>1. Spaces \in Nat
      BY <1>2, SpacesCount
    <3> QED BY <2>1, <2>2, <2>3, <3>1
  <2>5. \A i \in 1..Len(more) : more[i] \in Holds(d)
    BY <2>2, <2>3
  <2> HIDE DEF more
  <2> QED BY <2>1, <2>2, <2>3, <2>4, <2>5, ContinuesStep
<1>16. ASSUME NEW d \in Dreams, SummariseNothing(d) PROVE MemoryInv'
  <2> DEFINE chunks == dream[d].chunks
             themes == dream[d].themes
  <2>1. /\ dream[d] # NoDream
        /\ Continues(d, Tail(chunks), themes) /\ call' = call /\ raced' = raced /\ touched' = touched
    BY <1>16 DEF SummariseNothing
  <2>2. /\ Tail(chunks) \in Seq(Reading) /\ themes \in Seq(Reading)
        /\ \A i \in 1..Len(Tail(chunks)) : Tail(chunks)[i] \in Holds(d)
        /\ \A i \in 1..Len(themes) : themes[i] \in Holds(d)
        /\ themes # <<>> => locked = d /\ Len(themes) <= Spaces
    BY <1>14, <2>1
  <2> HIDE DEF chunks, themes
  <2>3. Len(themes) <= Spaces
    <3>1. Spaces \in Nat
      BY <1>2, SpacesCount
    <3> QED BY <2>2, <3>1
  <2> QED BY <2>1, <2>2, <2>3, ContinuesStep
<1>17. ASSUME NEW d \in Dreams, DreamFails(d) PROVE MemoryInv'
  <2>1. /\ dream' = [dream EXCEPT ![d] = NoDream] /\ locked' = IF locked = d THEN Unlocked ELSE locked
        /\ entry' = entry /\ call' = call /\ raced' = raced /\ touched' = touched
    BY <1>17 DEF DreamFails
  <2>2. NoDream \in [chunks : Seq(Reading), themes : Seq(Reading)] /\ NoDream.chunks = <<>> /\ NoDream.themes = <<>>
    BY DEF NoDream
  <2>3. /\ \A i \in 1..Len(NoDream.chunks) : Covers(NoDream.chunks[i])
        /\ \A i \in 1..Len(NoDream.themes) : Covers(NoDream.themes[i])
    BY <2>2
  <2> QED BY <1>1, <2>1, <2>2, <2>3, DreamStep
<1>18. CASE UNCHANGED memoryVars
  <2>1. entry' = entry /\ call' = call /\ dream' = dream /\ locked' = locked /\ raced' = raced /\ touched' = touched
    BY <1>18 DEF memoryVars
  <2>2. MemoryTypeOK' /\ NamedWere' /\ (\E n \in 0..MaxEntries : Filled(n)') /\ Spaces' = Spaces
    BY <1>1, <1>2, <2>1 DEF MemoryTypeOK, NamedWere, Filled, Spaces
  <2> QED BY <2>1, <2>2, MemoryStays
<1> QED
  BY <1>6, <1>7, <1>8, <1>9, <1>10, <1>11, <1>12, <1>13, <1>15, <1>16, <1>17, <1>18 DEF MemoryNext

\* What a dream hides is not forgotten: any number of dreams at once, dreams that fail half way,
\* agents that write between any two steps of theirs.
THEOREM MemoryCorrect == MemorySpec => []NothingForgotten
<1>1. MemoryInv => NothingForgotten
  BY DEF MemoryInv
<1> QED
  BY MemoryInitInv, MemoryNextInv, <1>1, PTL DEF MemorySpec
=============================================================================
