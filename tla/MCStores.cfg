SPECIFICATION StoresSpec
CONSTANTS
  VaultProcs = {p1, p2}
  VaultKeys = {ka, kb}
  VaultValues = {u}
  MaxVaultCalls = 4
  RotProcs = {p1, p2}
  RotKeys = {ka}
  RotMaxAges = {1, 2}
  DefaultMaxAge = 3
  RotHorizon = 3
  MaxRotCalls = 4
  Packs = {pa, pb}
  Items = {"a", "b"}
  OwnItems = {"b"}
  PackVersions <- MCPackVersions
  MaxPackChanges = 1
  Templates = {t1}
  MaxShipped = 1
  MaxTemplateEdits = 2
  MaxTemplateCalls = 3
  Requests = {r1, r2, r3}
  Conversations = {c1}
  MemProcs = {p1, p2}
  MemKeys = {ka, kb}
  KeepDays = 1
  MemDays = 3
  MaxMemories = 3
  Hosts = {h1, h2}
  Skills = {s1, s2}
  MaxSkillEdits = 2
  MaxHubCommits = 2
  Releases = {"v1", "v2"}
  History <- MCHistory
  BumpOf <- MCBumps
  AgentDirs = 2
  Manifests <- MCManifests
  KeywordTargets <- MCKeywordTargets
  TechAgents <- MCTechAgents
  SignalTech <- MCSignalTech
  BaseTech <- MCBaseTech
  AgentTasks <- MCTasks
  AgentRepos <- MCRepos
  Callers = {c1}
  MaxWalked = 2
  TopN = 1
  MaxAgentEdits = 2
  Aliases = {"nas", "pve"}
  Groups = {"all", "lab"}
  GroupsOf <- MCGroupsOf
  ByPassword = {}
  SshSecrets = {}
  SshCallers = {"t1", "t2"}
  SharedPool = TRUE
  WithVault = {}
  MaxClients = 2
  MaxOutages = 1
  Ids = {a, b, c}
  MaxDeps = 2
INVARIANTS
  StoresTypesOK
  NoAlertMeansRotated PacksSound EditsKept MemorySafe Announced RankingSound AnswersTrue ValidationSound
PROPERTIES ChatSafe VaultSafe HubSafe
CHECK_DEADLOCK FALSE
