SPECIFICATION HarnessSpec
CONSTANTS
  Parts = {"plugins", "subagents", "workflow", "loop", "live", "schedules", "memory", "keystore",
           "files", "skills", "chat", "gitops", "channels", "pods", "secrets",
           "admission"}
  \* Plugins
  Versions <- MCVersions
  NoVersion = "none"
  Manifest <- MCManifest
  Dynamic = {"d"}
  Flaky = {"b1", "d2", "a1"}
  Touched = {"a", "p"}
  Initial <- MCInitial
  \* Subagents
  Roots = {r}
  Phases = {w}
  MaxKids = 3
  Capabilities = {"Read", "Edit", "Subagents"}
  Requested <- MCRequested
  RootCaps = {"Read", "Subagents"}
  RootModes = {"plan"}
  MaxSubagents = 1
  BudgetLimit = 1
  MaxTokens = 1
  \* Workflow
  PhaseCount = 3
  MaxRuns = 5
  MaxCommands = 3
  \* AgentLoop
  Models <- MCModels
  Priced = {"a"}
  LlmRetries = 2
  MaxTurns = 4
  TokenLimit = 4
  CostLimit = 3
  GuardRepeats = 3
  MaxStops = 1
  Errors = {"x", "y"}
  Turnfuls <- MCTurnfuls
  \* LiveBuffer
  Viewers = {"w1", "w2"}
  BufferSize = 2
  MaxEvents = 4
  \* Schedules
  Jobs = {"j1", "j2"}
  Heartbeats = {"j2"}
  Requesters = {"t1", "t2"}
  MaxFired = 1
  \* Memory
  Texts = {"e"}
  Saved <- MCSaved
  MaxEntries = 6
  Named = {1, 5}
  Callers = {"c1"}
  Dreams = {"d1", "d2"}
  Limit = 4
  ChunkSize = 2
  \* Keystore
  Secrets = {"TOKEN", "KEY"}
  Token = "TOKEN"
  Values = {"v1", "v2"}
  NoValue = "none"
  Drawn = "v1"
  \* Files
  FileRuns = {"r1", "r2"}
  MaxActions = 2
  \* Skills
  SkillDirs = {1, 2}
  HumanDirs = {1}
  Managers = {"m1"}
  Promotions = {"p1"}
  MinUses = 1
  MaxUses = 1
  \* Chat
  ChatSessions = {"s1", "s2"}
  ChatModes = {"plan", "default"}
  FlagModes = {"none"}
  ProfileMode = "default"
  ChatBudget = 2
  UsageLimit = 1
  MaxChatTokens = 1
  \* GitOps
  PrCalls = {"q1", "q2", "q3"}
  Branches = {"x", "y"}
  \* Channels
  Asks = {"a1", "a2"}
  OldPresses <- MCOldPresses
  MaxPresses = 2
  \* PodRestart
  PodNames = {"web-0"}
  Stateful = {"web-0"}
  Restarts = {"k1", "k2"}
  MaxUid = 3
  \* Secrets
  SecretReaders = {"t1", "t2"}
  SecretValues = {"v1", "v2"}
  TTL = 1
  MaxClock = 3
  \* Admission
  Workers = {"h1", "h2"}
  ApiTokens = {"t"}
  VaultToken = "v"
  Bearers = {"", "t", "other"}
  NoBearer = ""
  Needed <- MCNeeded
  ScopesOf <- MCScopesOf
  RateLimit = 1
  RateSpan = 1
  MaxTime = 3
INVARIANTS NothingLeftBehind Reconciled NoMoreRights BudgetBounded BuiltOnRecorded FinalDelivered
   NothingForgotten StoredSecretsStay RewoundStaysAway HumanSkillsStay AccountKept
  RepositoryRestored  SecretIsRecent WindowBounded
PROPERTIES SubagentsEnd RunEnds
CHECK_DEADLOCK FALSE
