------------------------------ MODULE Plugins -------------------------------
(***************************************************************************)
(* The plugin manager (core/plugins/base.py over core/effects.py and the   *)
(* registry of core/tools.py), the engine that starts it (core/engine.py)  *)
(* and self-written tools (core/plugins/dynamic.py).                       *)
(*                                                                         *)
(* A version of a plugin is what one Plugin object registers.  Between     *)
(* start and shutdown only plugins whose register() and disposers do not   *)
(* suspend are loaded, so one load or unload is one step; rollbacks that   *)
(* _run_sync leaves to a task are steps of their own.  Every register()    *)
(* acquires one resource (ctx.effect), and hooks, whose disposers work as  *)
(* the tools', appear only as what makes a commit fail (hookOk).           *)
(***************************************************************************)
EXTENDS Naturals, FiniteSets, SequencesExt

CONSTANTS Versions, NoVersion,
          Manifest,   \* of a version: its plugin's name, requires, provides, tools, hookOk
          Dynamic,    \* the plugins that are self-written tools, one tool each
          Flaky,      \* bound: the versions whose register() may raise
          Touched,    \* bound: the plugins that are loaded and unloaded while the engine runs
          Initial     \* the plugins engine start loads before the dynamic ones, in order

ASSUME PluginsAssumption ==
  /\ NoVersion \notin Versions /\ IsFiniteSet(Versions) /\ IsFiniteSet(Dynamic)
  /\ Manifest \in [Versions -> [name: STRING, requires: SUBSET STRING, provides: SUBSET STRING,
                                tools: SUBSET STRING, hookOk: BOOLEAN]]
  /\ Flaky \subseteq Versions /\ Touched \intersect Dynamic = {} /\ Initial \in Seq(Versions)

Names == {Manifest[v].name : v \in Versions}
Tools == UNION {Manifest[v].tools : v \in Versions}
VersionsOf(n) == {v \in Versions : Manifest[v].name = n}

VARIABLES mgr,      \* records in order, their states and versions, registry, services, resources,
                    \* and (history) whether _reconcile has run since a load rolled back
          started,  \* engine._started
          file      \* the stored source of each self-written tool

pluginVars == <<mgr, started, file>>

NoTools == [t \in Tools |-> NoVersion]
NoRecords ==
  [order |-> <<>>, st |-> [n \in Names |-> "ABSENT"], ver |-> [n \in Names |-> NoVersion],
   tools |-> NoTools, services |-> {}, live |-> {}, cleanup |-> {}, settled |-> TRUE]
----------------------------------------------------------------------------
(* Helpers on the manager's state m. *)

ActiveIn(m) == {n \in Names : m.st[n] = "ACTIVE"}
Satisfied(m, v) == Manifest[v].requires \subseteq m.services

\* The names reached from S along step, in zero or more steps.
Reached(step, S) ==
  LET Grow[k \in 0..Cardinality(Names)] ==
        IF k = 0 THEN S ELSE LET R == Grow[k - 1] IN R \union UNION {step[x] : x \in R}
  IN Grow[Cardinality(Names)]

\* _cycle: the last record that declares a key counts as its provider.
HasCycle(m, v) ==
  LET n == Manifest[v].name
      Of == [x \in Names |-> IF x = n THEN v ELSE m.ver[x]]
      order == Append(SelectSeq(m.order, LAMBDA x : x # n), n)
      Provider(k) == SelectLastInSeq(order, LAMBDA x : k \in Manifest[Of[x]].provides)
      edges == [x \in Names |->
                 IF x \notin Range(order) THEN {}
                 ELSE {order[Provider(k)] : k \in {j \in Manifest[Of[x]].requires : Provider(j) > 0}}]
  IN \E x \in Reached(edges, {n}) : x \in Reached(edges, edges[x])

\* _stage; raising are the versions whose register() raises just now.
CanStage(m, v, raising) ==
  /\ v \notin raising
  /\ \A t \in Manifest[v].tools :
       m.tools[t] # NoVersion => Manifest[m.tools[t]].name = Manifest[v].name

WithTools(m, v) ==
  [m EXCEPT !.tools = [t \in Tools |-> IF t \in Manifest[v].tools THEN v ELSE @[t]]]

\* _commit of a staged version.
Commits(m, v) ==
  [WithTools(m, v) EXCEPT !.services = @ \union Manifest[v].provides,
                          !.live = @ \union {v},
                          !.st[Manifest[v].name] = "ACTIVE"]

\* _commit that raised: _run_sync leaves what was registered to a task.
CommitFails(m, v) == [WithTools(m, v) EXCEPT !.cleanup = @ \union {v}]

\* Mutant of WithoutTools: entries are removed by name.
WithoutToolsNamed(m, vs) ==
  [m EXCEPT !.tools = [t \in Tools |-> IF \E v \in vs : t \in Manifest[v].tools THEN NoVersion ELSE @[t]]]

\* Registry.register's disposer: only the entry it made.
WithoutTools(m, vs) ==
  [m EXCEPT !.tools = [t \in Tools |-> IF @[t] \in vs THEN NoVersion ELSE @[t]]]

\* _deactivate of an active plugin: the dependents of what it provides go first.
Withdraw(m, ns) ==
  LET vs == {m.ver[n] : n \in ns} IN
  [WithoutTools(m, vs) EXCEPT !.st = [n \in Names |-> IF n \in ns THEN "INACTIVE" ELSE @[n]],
                              !.services = @ \ UNION {Manifest[v].provides : v \in vs},
                              !.live = @ \ vs]

\* _deactivate
Deactivate(m, n) ==
  LET uses == [x \in Names |-> {y \in ActiveIn(m) : x \in ActiveIn(m) /\
                 Manifest[m.ver[x]].provides \intersect Manifest[m.ver[y]].requires # {}}]
  IN IF m.st[n] # "ACTIVE" THEN [m EXCEPT !.st[n] = IF @ = "FAILED" THEN @ ELSE "INACTIVE"]
     ELSE Withdraw(m, Reached(uses, {n}))

ReconcileOne(m, n, raising) ==
  LET v == m.ver[n] IN
  CASE m.st[n] = "ACTIVE" /\ ~Satisfied(m, v) -> Deactivate(m, n)
    [] m.st[n] = "INACTIVE" /\ Satisfied(m, v) ->
         IF ~CanStage(m, v, raising) THEN [m EXCEPT !.st[n] = "FAILED"]
         ELSE IF Manifest[v].hookOk THEN Commits(m, v)
         ELSE [CommitFails(m, v) EXCEPT !.st[n] = "FAILED", !.live = @ \union {v}]
    [] OTHER -> m

\* Mutant of Rounds: one pass over the records.
OneRound(m) == 1

\* A pass that changes nothing is the last; those after it would change nothing either.
Rounds(m) == Len(m.order) + 2

Reconcile(m, raising) ==
  LET size == Len(m.order)
      After[i \in 0..size * Rounds(m)] ==
        IF i = 0 THEN [m EXCEPT !.settled = TRUE]
        ELSE ReconcileOne(After[i - 1], m.order[((i - 1) % size) + 1], raising)
  IN After[size * Rounds(m)]

Recorded(m, v, status) ==
  LET n == Manifest[v].name IN
  [m EXCEPT !.st[n] = status, !.ver[n] = v,
            !.order = IF Contains(@, n) THEN @ ELSE Append(@, n)]

Loaded(m) == [m |-> m, raised |-> FALSE]
Raised(m) == [m |-> m, raised |-> TRUE]

\* The commit of v failed: the previous version is staged and committed again.
RollBack(m, v, raising) ==
  LET old == m.ver[Manifest[v].name]
      gone == [CommitFails(Deactivate(m, Manifest[v].name), v) EXCEPT !.settled = FALSE]
  IN Raised(IF ~CanStage(gone, old, raising) THEN gone
            ELSE IF Manifest[old].hookOk THEN Commits(gone, old)
            ELSE CommitFails(gone, old))

\* load()
Load(m, v, raising) ==
  LET n == Manifest[v].name
      replaces == m.st[n] # "ABSENT"
      without == IF replaces THEN Deactivate(m, n) ELSE m
      Rejected == IF replaces THEN Raised(m) ELSE Loaded(Recorded(m, v, "FAILED"))
  IN IF HasCycle(m, v) THEN Rejected
     ELSE IF ~Satisfied(m, v) THEN Loaded(Reconcile(Recorded(without, v, "INACTIVE"), raising))
     ELSE IF ~CanStage(m, v, raising) THEN Rejected
     ELSE IF Manifest[v].hookOk THEN Loaded(Reconcile(Commits(Recorded(without, v, "ACTIVE"), v), raising))
     ELSE IF replaces THEN RollBack(m, v, raising)
     ELSE Loaded(Reconcile(CommitFails(Recorded(m, v, "FAILED"), v), raising))

\* unload()
Unload(m, n, raising) ==
  LET gone == Deactivate(m, n) IN
  Reconcile([gone EXCEPT !.live = @ \ {m.ver[n]}, !.st[n] = "ABSENT", !.ver[n] = NoVersion,
                         !.order = RemoveFirst(@, n)], raising)
----------------------------------------------------------------------------
(* The operations. *)

PluginsInit ==
  /\ mgr = NoRecords
  /\ started = FALSE
  /\ file = [n \in Dynamic |-> NoVersion]

Raising == {{}} \union {{v} : v \in Flaky}

\* load_dynamic_tools on one file: an invalid one is moved to the quarantine.
LoadFile(s, n, raising) ==
  IF s.file[n] = NoVersion THEN s
  ELSE LET out == Load(s.m, s.file[n], raising) IN
       [m |-> out.m,
        file |-> [s.file EXCEPT ![n] = IF out.raised \/ out.m.st[n] = "FAILED" THEN NoVersion ELSE @]]

\* ensure_started: its lock is held throughout and every user of the engine waits for it.
EnsureStarted ==
  /\ ~started
  /\ \E raising \in Raising :
       LET dynamic == SetToSeq(Dynamic)
           steps == Len(Initial) + Len(dynamic)
           Next(i, s) == IF i <= Len(Initial) THEN [s EXCEPT !.m = Load(@, Initial[i], raising).m]
                         ELSE LoadFile(s, dynamic[i - Len(Initial)], raising)
           After[i \in 0..steps] ==
             IF i = 0 THEN [m |-> NoRecords, file |-> file] ELSE Next(i, After[i - 1])
       IN mgr' = After[steps].m /\ file' = After[steps].file
  /\ started' = TRUE

LoadPlugin(v) ==
  /\ started /\ Manifest[v].name \in Touched
  /\ \E raising \in Raising : mgr' = Load(mgr, v, raising).m
  /\ UNCHANGED <<started, file>>

UnloadPlugin(n) ==
  /\ started /\ n \in Touched /\ mgr.st[n] # "ABSENT"
  /\ \E raising \in Raising : mgr' = Unload(mgr, n, raising)
  /\ UNCHANGED <<started, file>>

\* The task _run_sync created.
DisposersRun(v) ==
  /\ v \in mgr.cleanup
  /\ mgr' = [WithoutTools(mgr, {v}) EXCEPT !.cleanup = @ \ {v}]
  /\ UNCHANGED <<started, file>>

\* write_and_register, approved: the file is replaced, loaded, and put back when that fails.
WriteAndRegister(v) ==
  LET n == Manifest[v].name IN
  /\ started
  /\ \E raising \in Raising :
       LET out == Load(mgr, v, raising)
           fails == out.raised \/ out.m.st[n] = "FAILED"
       IN mgr' = out.m /\ file' = [file EXCEPT ![n] = IF fails THEN @ ELSE v]
  /\ UNCHANGED started

\* The process stops; possibly inside write_and_register, when the file is replaced already.
Crash ==
  /\ started
  /\ mgr' = NoRecords /\ started' = FALSE
  /\ \/ UNCHANGED file
     \/ \E n \in Dynamic : \E v \in VersionsOf(n) : file' = [file EXCEPT ![n] = v]

\* shutdown(): unload_all, the last loaded first.
Shutdown ==
  /\ started
  /\ \E raising \in Raising :
       LET names == mgr.order
           After[i \in 0..Len(names)] ==
             IF i = 0 THEN mgr ELSE Unload(After[i - 1], names[Len(names) + 1 - i], raising)
       IN mgr' = After[Len(names)]
  /\ started' = FALSE
  /\ UNCHANGED file

PluginsNext ==
  \/ EnsureStarted \/ Crash \/ Shutdown
  \/ \E v \in Versions : LoadPlugin(v) \/ DisposersRun(v)
  \/ \E n \in Names : UnloadPlugin(n)
  \/ \E n \in Dynamic : \E v \in VersionsOf(n) : WriteAndRegister(v)

PluginsSpec == PluginsInit /\ [][PluginsNext]_pluginVars
----------------------------------------------------------------------------
\* What the disposers leave behind and take away: a tool is registered exactly when it is one
\* of an active version's (or waits for _run_sync's task), every service is an active plugin's,
\* and no resource of an active plugin was released (registry, services and effects agree with
\* the records through failed commits, cascades and reloads).
NothingLeftBehind ==
  LET active == {mgr.ver[n] : n \in ActiveIn(mgr)} IN
  /\ \A v \in active : (\A t \in Manifest[v].tools : mgr.tools[t] = v) /\ v \in mgr.live
  /\ \A t \in Tools : mgr.tools[t] \in active \union mgr.cleanup \union {NoVersion}
  /\ mgr.services \subseteq UNION {Manifest[v].provides : v \in active}

\* After every load or unload that reached _reconcile, no active plugin lacks a service it
\* requires and none waits for services that are all there: the number of passes suffices.
Reconciled ==
  started /\ mgr.settled => \A n \in Names :
    /\ mgr.st[n] = "ACTIVE" => Satisfied(mgr, mgr.ver[n])
    /\ mgr.st[n] = "INACTIVE" => ~Satisfied(mgr, mgr.ver[n])
=============================================================================
