------------------------------- MODULE Skills -------------------------------
(***************************************************************************)
(* Skills: skill_manage (core/plugins/skills_tool.py), their discovery     *)
(* (core/skills.py), the curator (core/memory/curator.py) and the          *)
(* promotion of what a run has learned (core/primitives/learning.py).      *)
(*                                                                         *)
(* skill_manage works in threads, promotions in the event loop, the        *)
(* curator in a job of the scheduler, and all of them on the directories   *)
(* of settings.skills_dir.  A directory is the number of its name in       *)
(* alphabetical order.  Calls are those a human approved and the scan let  *)
(* through; of a SKILL.md only the two lines of its frontmatter that the   *)
(* code acts upon are kept.                                                *)
(***************************************************************************)
EXTENDS Naturals

CONSTANTS SkillDirs,   \* names of skills, which directories are named after
          HumanDirs,   \* directories there with a skill that a human wrote
          Managers,    \* calls of skill_manage
          Promotions,  \* POST /sessions/{id}/skill/promote
          MinUses,     \* min_uses of the curator
          MaxUses      \* bound: outcomes counted per skill and column

ASSUME SkillsAssumption ==
  SkillDirs \subseteq Nat /\ HumanDirs \subseteq SkillDirs /\ MinUses \in Nat \ {0} /\ MaxUses \in Nat

VARIABLES folder,   \* per name: the directory and its SKILL.md
          manager,  \* per call: the thread that works on it
          promotion,\* per request: where promote_candidate_skill is
          metrics,  \* the table skill_metrics; {} is no row
          legacy,   \* memory entries made by agents whose id is a skill's name
          curator   \* the curator: what it found, and what it still has to look at

skillVars == <<folder, manager, promotion, metrics, legacy, curator>>

Authorship == {"agent-created", "human-authored"}
NoFolder == [made |-> FALSE, skill |-> {}]
EmptyFolder == [made |-> TRUE, skill |-> {}]
SkillFile(name, by) == [made |-> TRUE, skill |-> {[name |-> name, by |-> by]}]
Human(d) == SkillFile(d, "human-authored")
Resting == [at |-> "idle", dir |-> 0]
NoPromotion == [status |-> "none", candidate |-> [name |-> 0, exact |-> FALSE]]
NotCurating == [at |-> "idle", found |-> {}, rows |-> {}]

SkillsInit ==
  /\ folder = [d \in SkillDirs |-> IF d \in HumanDirs THEN Human(d) ELSE NoFolder]
  /\ manager = [c \in Managers |-> Resting]
  /\ promotion = [p \in Promotions |-> NoPromotion]
  /\ metrics = [n \in SkillDirs |-> {}]
  /\ legacy \in {{}, SkillDirs \ HumanDirs}
  /\ curator = NotCurating

\* discover_skills: of several files that give the same name the last one counts.
Discovered ==
  {f \in [name : SkillDirs, by : Authorship, dir : SkillDirs] :
     /\ [name |-> f.name, by |-> f.by] \in folder[f.dir].skill
     /\ \A d \in SkillDirs : d > f.dir => \A s \in folder[d].skill : s.name # f.name}

Known(n) == \E f \in Discovered : f.name = n
OfAgent(d) == \E s \in folder[d].skill : s.by = "agent-created"
----------------------------------------------------------------------------
(* skill_manage. *)

Goes(c, at, d) == manager' = [manager EXCEPT ![c] = [at |-> at, dir |-> d]]

CreateChecks(c, d) ==
  /\ manager[c] = Resting
  /\ ~folder[d].made /\ ~Known(d)
  /\ Goes(c, "create", d)
  /\ UNCHANGED <<folder, promotion, metrics, legacy, curator>>

\* mkdir: it raises when somebody else has made the directory meanwhile.
CreateMakes(c) ==
  /\ manager[c].at = "create"
  /\ IF folder[manager[c].dir].made THEN Goes(c, "idle", 0) /\ UNCHANGED folder
     ELSE /\ folder' = [folder EXCEPT ![manager[c].dir] = EmptyFolder]
          /\ Goes(c, "write", manager[c].dir)
  /\ UNCHANGED <<promotion, metrics, legacy, curator>>

\* The new file; there is no directory to write to when it was removed again.
CreateWrites(c) ==
  /\ manager[c].at = "write"
  /\ folder' = IF folder[manager[c].dir].made
               THEN [folder EXCEPT ![manager[c].dir] = SkillFile(manager[c].dir, "agent-created")] ELSE folder
  /\ Goes(c, "idle", 0)
  /\ UNCHANGED <<promotion, metrics, legacy, curator>>

\* Mutant of ReadsAuthor: the author is not looked at.
ReadsNoAuthor(c, d, action) ==
  /\ manager[c] = Resting
  /\ folder[d].skill # {}
  /\ Goes(c, action, d)
  /\ UNCHANGED <<folder, promotion, metrics, legacy, curator>>

\* Patch and delete: the frontmatter must say that an agent wrote the skill.
ReadsAuthor(c, d, action) ==
  /\ manager[c] = Resting
  /\ OfAgent(d)
  /\ Goes(c, action, d)
  /\ UNCHANGED <<folder, promotion, metrics, legacy, curator>>

Deletes(c) ==
  /\ manager[c].at = "delete"
  /\ folder' = [folder EXCEPT ![manager[c].dir] = NoFolder]
  /\ Goes(c, "idle", 0)
  /\ UNCHANGED <<promotion, metrics, legacy, curator>>

\* old_string is counted in the body and replaced in the whole file: the first place where it
\* stands may be the frontmatter, whose name or author then changes.
Patches(c) ==
  /\ manager[c].at = "patch"
  /\ \/ \E n \in SkillDirs, by \in Authorship :
          /\ folder[manager[c].dir].skill # {}
          /\ folder' = [folder EXCEPT ![manager[c].dir] = SkillFile(n, by)]
     \/ UNCHANGED folder
  /\ Goes(c, "idle", 0)
  /\ UNCHANGED <<promotion, metrics, legacy, curator>>
----------------------------------------------------------------------------
(* Promotion.  The candidate is read from the receipt, pending, whenever it is asked for. *)

\* What a verified run may have drafted: a name, and a test of whether what its verifier observed
\* is exactly what it expected (a verifier may pass more than that).
Candidate == [name : SkillDirs, exact : BOOLEAN]

Transitions == {<<"pending_approval", "validated">>, <<"pending_approval", "rejected">>}

TransitionTo(p, next_status) ==
  /\ <<promotion[p].status, next_status>> \in Transitions
  /\ promotion' = [promotion EXCEPT ![p].status = next_status]

Forgets(p) == promotion' = [promotion EXCEPT ![p] = NoPromotion]

\* The body passes the scan: a human is asked.
Proposes(p, candidate) ==
  /\ promotion[p].status \in {"none", "rejected"}
  /\ promotion' = [promotion EXCEPT ![p] = [status |-> "pending_approval", candidate |-> candidate]]
  /\ UNCHANGED <<folder, manager, metrics, legacy, curator>>

Rejected(p) ==
  /\ TransitionTo(p, "rejected")
  /\ UNCHANGED <<folder, manager, metrics, legacy, curator>>

\* Approved, and its test holds.  The directory must be new: mkdir raises otherwise.
Validated(p) ==
  LET d == promotion[p].candidate.name IN
  /\ promotion[p].status = "pending_approval" /\ promotion[p].candidate.exact
  /\ IF folder[d].made THEN Forgets(p) /\ UNCHANGED folder
     ELSE TransitionTo(p, "validated") /\ folder' = [folder EXCEPT ![d] = EmptyFolder]
  /\ UNCHANGED <<manager, metrics, legacy, curator>>

RegistryWrites(p) ==
  LET d == promotion[p].candidate.name IN
  /\ promotion[p].status = "validated"
  /\ folder' = IF folder[d].made THEN [folder EXCEPT ![d] = SkillFile(d, "agent-created")] ELSE folder
  /\ Forgets(p)
  /\ UNCHANGED <<manager, metrics, legacy, curator>>
----------------------------------------------------------------------------
(* Outcomes and the curator. *)

\* A run that viewed a skill ends: _record_skill_outcomes.
RecordsOutcome(n, ok) ==
  LET old == IF metrics[n] = {} THEN [good |-> 0, bad |-> 0] ELSE CHOOSE m \in metrics[n] : TRUE IN
  /\ Known(n) /\ (IF ok THEN old.good ELSE old.bad) < MaxUses
  /\ metrics' = [metrics EXCEPT ![n] = {IF ok THEN [old EXCEPT !.good = @ + 1] ELSE [old EXCEPT !.bad = @ + 1]}]
  /\ UNCHANGED <<folder, manager, promotion, legacy, curator>>

Poor(n) == \E m \in metrics[n] : m.good + m.bad >= MinUses /\ m.good < m.bad

\* prune_agent_created_skills reads all skills and all rows ...
Curates ==
  /\ curator.at = "idle"
  /\ curator' = [at |-> "pruning", found |-> Discovered, rows |-> {n \in SkillDirs : Poor(n)}]
  /\ UNCHANGED <<folder, manager, promotion, metrics, legacy>>

\* ... then goes through the rows with a poor record: the skill of that name is removed when an
\* agent wrote it; where there is none, the memory entry.
Prunes(n) ==
  /\ curator.at = "pruning" /\ n \in curator.rows
  /\ \/ \E f \in curator.found :
          /\ f.name = n /\ f.by = "agent-created"
          /\ folder' = [folder EXCEPT ![f.dir] = NoFolder]
          /\ metrics' = [metrics EXCEPT ![n] = {}]
          /\ UNCHANGED legacy
     \/ /\ \A f \in curator.found : f.name # n
        /\ n \in legacy
        /\ legacy' = legacy \ {n}
        /\ metrics' = [metrics EXCEPT ![n] = {}]
        /\ UNCHANGED folder
  /\ curator' = [curator EXCEPT !.rows = @ \ {n}]
  /\ UNCHANGED <<manager, promotion>>

PruneEnds ==
  /\ curator.at = "pruning"
  /\ curator' = NotCurating
  /\ UNCHANGED <<folder, manager, promotion, metrics, legacy>>

\* The process stops: what was going on is gone, a directory without its file stays.
SkillsStop ==
  /\ \E c \in Managers : manager[c] # Resting
  /\ manager' = [c \in Managers |-> Resting] /\ promotion' = [p \in Promotions |-> NoPromotion]
  /\ curator' = NotCurating
  /\ UNCHANGED <<folder, metrics, legacy>>

SkillsNext ==
  \/ \E c \in Managers :
       \/ \E d \in SkillDirs : CreateChecks(c, d) \/ \E action \in {"patch", "delete"} : ReadsAuthor(c, d, action)
       \/ CreateMakes(c) \/ CreateWrites(c) \/ Deletes(c) \/ Patches(c)
  \/ \E p \in Promotions :
       \/ \E candidate \in Candidate : Proposes(p, candidate)
       \/ Rejected(p) \/ Validated(p) \/ RegistryWrites(p)
  \/ \E n \in SkillDirs : Prunes(n) \/ \E ok \in BOOLEAN : RecordsOutcome(n, ok)
  \/ Curates \/ PruneEnds \/ SkillsStop

SkillsSpec == SkillsInit /\ [][SkillsNext]_skillVars
----------------------------------------------------------------------------
Folders == [made : BOOLEAN, skill : SUBSET [name : SkillDirs, by : Authorship]]

SkillsTypeOK ==
  /\ folder \in [SkillDirs -> Folders]
  /\ manager \in [Managers -> [at : {"idle", "create", "write", "patch", "delete"}, dir : SkillDirs \union {0}]]
  /\ promotion \in [Promotions -> {NoPromotion} \union
                      [status : {"pending_approval", "validated", "rejected"}, candidate : Candidate]]
  /\ metrics \in [SkillDirs -> SUBSET [good : 0..MaxUses, bad : 0..MaxUses]]
  /\ legacy \subseteq SkillDirs
  /\ curator \in [at : {"idle", "pruning"}, found : SUBSET [name : SkillDirs, by : Authorship, dir : SkillDirs],
                  rows : SUBSET SkillDirs]

\* What a human wrote stays as it is: no tool call, promotion or pruning changes or removes it,
\* also when a skill of an agent has been patched to bear its name, when the directory was read
\* long before it is written, and when several of them work on the same name.
HumanSkillsStay == \A d \in HumanDirs : folder[d] = Human(d)

\* Its inductive form: nobody is about to write to a human's directory.
ManagersAway ==
  \A c \in Managers : manager[c].at \in {"write", "patch", "delete"} => manager[c].dir \notin HumanDirs
PromotionsAway ==
  \A p \in Promotions : promotion[p].status = "validated" => promotion[p].candidate.name \notin HumanDirs
CuratorAway == \A f \in curator.found : f.by = "agent-created" => f.dir \notin HumanDirs
SkillsInv == HumanSkillsStay /\ ManagersAway /\ PromotionsAway /\ CuratorAway
=============================================================================
