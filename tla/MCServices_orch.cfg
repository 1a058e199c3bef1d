SPECIFICATION ServicesSpec
CONSTANTS
  MaxSteps = 3
  MaxRollback = 2
  Jobs = {j1, j2}
  Files = {doc, code}
  AllowedFiles = {doc}
  SeveralRunners = FALSE
  MaxJobRuns = 2
  clientA = clientA
  clientB = clientB
  userA = userA
  IPs = {clientA, clientB}
  Users = {userA}
  NoUser = none
  BucketCapacity <- MCCapacity
  RequestCost = 2
  IdleLimit = 3
  RateHorizon = 6
  ProviderNames = {"claude", "openai", "ollama"}
  OpenAI = "openai"
  Ollama = "ollama"
  FallbackOn = TRUE
  MaxChain = 2
  Spellings = {"rm", "push", "link", "passwd"}
  ResolvedPath <- MCResolved
  Secrets = {"key", "pin"}
  BuiltInSecrets = {"key"}
  BuiltIn <- MCBuiltIn
  PolicyNames = {"destructive", "approval", "files", "secrets", "mine"}
  PolicyConfigs <- MCPolicyConfigs
  MaxPolicies = 6
  pkg = pkg
  cveA = cveA
  cveB = cveB
  Packages = {pkg}
  Vulns = {cveA, cveB}
  PackageOf <- MCPackageOf
  FixedIn <- MCFixedIn
  Rating <- MCRating
  Lines <- MCLines
  Services = {{"openPort", "noHealthcheck"}}
  CacheAge = 1
  NewestVersion = 2
  ScanDays = 3
  Intakes = {a, b}
  Requirements = {"ping hosts", "check subnet", "brew tea"}
  SkillNames = {"network-scan", "brew-tea"}
  Requests <- MCRequests
  SharesWord <- MCShares
  TemplateFor <- MCTemplateFor
  NameFor <- MCNameFor
  TemplateAbout <- MCAbout
  OwnedSkills <- MCAbout
  RoleOf <- MCRole
  MaxWorkers = 2
  MaxBreaks = 1
  procA = procA
  procB = procB
  OrchRuns = {procA, procB}
  ServerOf <- MCDashboard
  Commands = {"daily"}
  Repos = {"r1", "r2"}
  LastSecond = 1
  MaxMoves = 1
  Scenarios = {1, 2, 3}
  MemoryOf <- MCMemory
  MemoryLimit <- MCMemoryLimit
  Timed = {2}
  NoLimit = none
  Parallels = {FALSE}
  PyFiles = {f1, f2}
  FileContents <- MCFileContents
  Absent = absent
  TestOutcomes = {"warning", "nothing"}
  MaxEdits = 1
  MaxRuns = 2
  Addresses = {h1, h2}
  HostSettings = {{h1}}
  Subnets = {{}, {{h2}}}
  CriticalSettings = {{}, {h1, h2}}
  ScanPorts = {22}
  ScanWorkers = 2
  MaxFlaps = 3
  Deployments = {d1, d2}
  MaxCommits = 2
  HealthRetries = 3
  DeployOverlap = FALSE
INVARIANTS OwnDirectory
CHECK_DEADLOCK FALSE
