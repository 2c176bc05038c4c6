------------------------------ MODULE MCHarness ------------------------------
(***************************************************************************)
(* The components that share no state with each other, checked in one run: *)
(* a behaviour is a behaviour of one of them, the others stay as they were *)
(* initially.                                                              *)
(***************************************************************************)
EXTENDS Plugins, Subagents, Workflow, AgentLoop, LiveBuffer, Schedules, Memory, Keystore,
        Files, Skills, Chat, GitOps, Channels, PodRestart, Secrets, Admission

CONSTANT Parts   \* the components that take part

VARIABLE part    \* the one that moves

Plugin(n, req, prov, ts, ok) == [name |-> n, requires |-> req, provides |-> prov, tools |-> ts, hookOk |-> ok]

\* Chains of services (a, b, c), a self-written tool that collides with a plugin's (p, d),
\* a version whose commit fails (a2) and one that would close a cycle (a3).
MCManifest ==
 [a1 |-> Plugin("a", {}, {"k"}, {"ta"}, TRUE),
  a2 |-> Plugin("a", {}, {"k"}, {"ta", "tx"}, FALSE),
  a3 |-> Plugin("a", {"k2"}, {"k"}, {}, TRUE),
  b1 |-> Plugin("b", {"k"}, {"k2"}, {"tb"}, TRUE),
  c1 |-> Plugin("c", {"k2"}, {}, {}, TRUE),
  p1 |-> Plugin("p", {}, {"k"}, {"td"}, TRUE),
  d1 |-> Plugin("d", {}, {}, {"td"}, TRUE),
  d2 |-> Plugin("d", {}, {}, {"td"}, TRUE)]
MCVersions == DOMAIN MCManifest
MCInitial == <<"c1", "b1", "a1">>
MCRequested == {Capabilities}
MCModels == <<"a", "b">>
MCTurnfuls == {<<"fine">>, <<"x">>, <<"x", "x">>, <<"y", "x">>, <<"x", "x", "x", "fine">>, <<"x", "fine">>}
MCSaved == <<"a", "b", "c", "d">>
MCOldPresses == {<<>>, <<"a1">>}
MCNeeded == {<<"admin">>, <<"runs", "write">>}
MCScopesOf == [t \in ApiTokens |-> {<<"runs", "*">>}]

harnessVars ==
  <<part, pluginVars, subagentVars, workflowVars, loopVars, liveVars, scheduleVars, memoryVars,
    keystoreVars, fileVars, skillVars, chatVars, prVars, channelVars, podVars, secretVars, admissionVars>>

HarnessInit ==
  /\ part \in Parts
  /\ PluginsInit /\ SubagentsInit /\ WorkflowInit /\ LoopInit /\ LiveInit /\ SchedulesInit
  /\ MemoryInit /\ KeystoreInit /\ FilesInit /\ SkillsInit /\ ChatInit /\ PrInit /\ ChannelsInit
  /\ PodInit /\ SecretsInit /\ AdmissionInit
  \* One initial state of each component that stays in it.
  /\ part # "schedules" => standing
  /\ part # "keystore" => usable
  /\ part # "files" => disk = Absent
  /\ part # "skills" => legacy = {}
  /\ part # "channels" => presses = <<>>
  /\ part # "secrets" => vault = <<"v1">>

Rest(p) ==
  /\ part = p /\ UNCHANGED part
  /\ p # "plugins" => UNCHANGED pluginVars
  /\ p # "subagents" => UNCHANGED subagentVars
  /\ p # "workflow" => UNCHANGED workflowVars
  /\ p # "loop" => UNCHANGED loopVars
  /\ p # "live" => UNCHANGED liveVars
  /\ p # "schedules" => UNCHANGED scheduleVars
  /\ p # "memory" => UNCHANGED memoryVars
  /\ p # "keystore" => UNCHANGED keystoreVars
  /\ p # "files" => UNCHANGED fileVars
  /\ p # "skills" => UNCHANGED skillVars
  /\ p # "chat" => UNCHANGED chatVars
  /\ p # "gitops" => UNCHANGED prVars
  /\ p # "channels" => UNCHANGED channelVars
  /\ p # "pods" => UNCHANGED podVars
  /\ p # "secrets" => UNCHANGED secretVars
  /\ p # "admission" => UNCHANGED admissionVars

HarnessNext ==
  \/ Rest("plugins") /\ PluginsNext
  \/ Rest("subagents") /\ SubagentsNext
  \/ Rest("workflow") /\ WorkflowNext
  \/ Rest("loop") /\ LoopNext
  \/ Rest("live") /\ LiveNext
  \/ Rest("schedules") /\ SchedulesNext
  \/ Rest("memory") /\ MemoryNext
  \/ Rest("keystore") /\ KeystoreNext
  \/ Rest("files") /\ FilesNext
  \/ Rest("skills") /\ SkillsNext
  \/ Rest("chat") /\ ChatNext
  \/ Rest("gitops") /\ PrNext
  \/ Rest("channels") /\ ChannelsNext
  \/ Rest("pods") /\ PodNext
  \/ Rest("secrets") /\ SecretsNext
  \/ Rest("admission") /\ AdmissionNext

HarnessSpec ==
  /\ HarnessInit /\ [][HarnessNext]_harnessVars
  /\ SubagentsFairness /\ LoopFairness
=============================================================================
