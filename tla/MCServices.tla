------------------------------ MODULE MCServices ------------------------------
(* What acts: workflows, jobs, requests, questions, scans, deployments.  A       *)
(* behaviour is about one of them.                                              *)
EXTENDS WorkflowEngine, JobRunner, RateLimiter, LLMProviders, PolicyEngine,
        SecuritySentinel, SkillIntake, Orchestrator, Benchmark, QAGuardian,
        NetworkScan, Deployment, TLC

CONSTANTS
  clientA, clientB, userA, procA, procB, pkg, cveA, cveB

VARIABLE part \* the component this behaviour is about; the others stay as they start

ServicesVars == <<part, vars, jobVars, rateVars, llmVars, policyVars, sentinelVars, intakeVars,
          orchVars, benchVars, qaVars, scanVars, deployVars>>

MCCapacity == (clientA :> 2) @@ (clientB :> 3) @@ (userA :> 3)

Rule(a, c, s) == [action |-> a, covers |-> c, secrets |-> s]
Pol(n, rs) == [kind |-> "policy", name |-> n, rules |-> rs]
MCResolved == ("rm" :> "rm") @@ ("push" :> "push") @@ ("link" :> "passwd") @@ ("passwd" :> "passwd")
MCBuiltIn == <<Pol("destructive", {Rule("deny", {"rm"}, {})}),
               Pol("approval", {Rule("require_approval", {"push", "rm"}, {})}),
               Pol("files", {Rule("deny", {"passwd"}, {})}),
               Pol("secrets", {Rule("deny", {}, {"key"})})>>
MCPolicyConfigs ==
  {<<Pol("mine", {Rule("allow", {"rm"}, {}), Rule("deny", {"push"}, {"pin"})}), [kind |-> "other"]>>,
   <<Pol("mine", {Rule("unknown", {"push"}, {}), Rule("require_approval", {"link", "passwd"}, {})}),
     [kind |-> "raises"], Pol("files", {Rule("deny", {"link"}, {})})>>,
   <<Pol("files", {Rule("require_approval", {"rm", "link"}, {"pin"})})>>}

MCPackageOf == [v \in {cveA, cveB} |-> pkg]
MCFixedIn == (cveA :> 2) @@ (cveB :> 0)
MCRating == (cveA :> "HIGH") @@ (cveB :> "MEDIUM")
Line(by, severity) == [by |-> by, severity |-> severity, secret |-> by = "regex", test |-> TRUE,
                       comment |-> FALSE, suppressed |-> TRUE, parses |-> by # "percent"]
MCLines == {Line("call", "MEDIUM"), Line("fstring", "CRITICAL"), Line("percent", "CRITICAL"),
            Line("regex", "CRITICAL")}

MCRequests == {<<"check subnet", "brew tea">>}
MCShares == [r \in Requirements |-> {r}]
MCTemplateFor == [r \in Requirements |-> IF r = "brew tea" THEN NoSkill ELSE "network-scan"]
MCNameFor == [r \in Requirements |-> IF r = "brew tea" THEN "brew-tea" ELSE NoSkill]
MCAbout == ("network-scan" :> {"ping hosts"})
MCRole == [r \in Requirements |-> IF r = "check subnet" THEN "verifier" ELSE "executor"]

\* Orchestrator: each `claw orchestrate run` is a process of its own, or all run
\* in the dashboard.
MCOwnProcess == [r \in OrchRuns |-> r]
MCDashboard == [r \in OrchRuns |-> procA]

MCMemory == <<3, 1, 2>>
MCMemoryLimit == <<2, NoLimit, 1>>

MCFileContents == {[smells |-> {"eval_exec"}, parses |-> "raises"],
                   [smells |-> {"unused_import"}, parses |-> "yes"]}

ServicesInit ==
  /\ part \in {"workflow", "jobs", "rate", "llm", "policy", "sentinel", "intake",
               "orchestrator", "benchmark", "qa", "scan", "deploy"}
  \* One initial state of each is enough for the others.
  /\ part # "workflow" => steps = <<>> /\ undo = 0 /\ notify = FALSE /\ dry = FALSE
  /\ part # "qa" => source = [f \in PyFiles |-> Absent]
  /\ part # "llm" => chain = <<OpenAI>> /\ serving = {}
  /\ part # "sentinel" => pinned = [q \in Packages |-> 1]
  /\ part # "scan" => listening = [a \in Addresses |-> Down]
  /\ Init /\ JobsInit /\ RateInit /\ LLMInit
  /\ PolicyInit /\ SentinelInit /\ IntakeInit /\ OrchInit
  /\ BenchInit /\ QAInit /\ ScanInit /\ DeployInit
  \* Who is told matters only once the steps are over, a rollback section only
  \* where a step asks for it.
  /\ part = "workflow" => /\ notify = ~dry
                          /\ \/ undo = 0
                             \/ /\ ~dry /\ undo = MaxRollback
                                /\ \E i \in Steps : steps[i].on_failure = "rollback"

ServicesNext ==
  /\ UNCHANGED part
  /\ \/ /\ part = "workflow" /\ Next
        /\ UNCHANGED <<jobVars, rateVars, llmVars, policyVars, sentinelVars,
                      intakeVars, orchVars, benchVars, qaVars, scanVars, deployVars>>
     \/ /\ part = "jobs" /\ JobsNext
        /\ UNCHANGED <<vars, rateVars, llmVars, policyVars, sentinelVars, intakeVars,
                      orchVars, benchVars, qaVars, scanVars, deployVars>>
     \/ /\ part = "rate" /\ RateNext
        /\ UNCHANGED <<vars, jobVars, llmVars, policyVars, sentinelVars, intakeVars,
                      orchVars, benchVars, qaVars, scanVars, deployVars>>
     \/ /\ part = "llm" /\ LLMNext
        /\ UNCHANGED <<vars, jobVars, rateVars, policyVars, sentinelVars, intakeVars,
                      orchVars, benchVars, qaVars, scanVars, deployVars>>
     \/ /\ part = "policy" /\ PolicyNext
        /\ UNCHANGED <<vars, jobVars, rateVars, llmVars, sentinelVars, intakeVars,
                      orchVars, benchVars, qaVars, scanVars, deployVars>>
     \/ /\ part = "sentinel" /\ SentinelNext
        /\ UNCHANGED <<vars, jobVars, rateVars, llmVars, policyVars, intakeVars,
                      orchVars, benchVars, qaVars, scanVars, deployVars>>
     \/ /\ part = "intake" /\ IntakeNext
        /\ UNCHANGED <<vars, jobVars, rateVars, llmVars, policyVars, sentinelVars,
                      orchVars, benchVars, qaVars, scanVars, deployVars>>
     \/ /\ part = "orchestrator" /\ OrchNext
        /\ UNCHANGED <<vars, jobVars, rateVars, llmVars, policyVars, sentinelVars,
                      intakeVars, benchVars, qaVars, scanVars, deployVars>>
     \/ /\ part = "benchmark" /\ BenchNext
        /\ UNCHANGED <<vars, jobVars, rateVars, llmVars, policyVars, sentinelVars,
                      intakeVars, orchVars, qaVars, scanVars, deployVars>>
     \/ /\ part = "qa" /\ QANext
        /\ UNCHANGED <<vars, jobVars, rateVars, llmVars, policyVars, sentinelVars,
                      intakeVars, orchVars, benchVars, scanVars, deployVars>>
     \/ /\ part = "scan" /\ ScanNext
        /\ UNCHANGED <<vars, jobVars, rateVars, llmVars, policyVars, sentinelVars,
                      intakeVars, orchVars, benchVars, qaVars, deployVars>>
     \/ /\ part = "deploy" /\ DeployNext
        /\ UNCHANGED <<vars, jobVars, rateVars, llmVars, policyVars, sentinelVars,
                      intakeVars, orchVars, benchVars, qaVars, scanVars>>

ServicesSpec == ServicesInit /\ [][ServicesNext]_ServicesVars

\* The types of all of them, and the invariants the proofs are built on.
ServicesTypesOK ==
  /\ TypeOK /\ JobsTypeOK /\ RateTypeOK /\ LLMTypeOK
  /\ PolicyTypeOK /\ SentinelTypeOK /\ IntakeTypeOK /\ OrchTypeOK
  /\ BenchTypeOK /\ QATypeOK /\ ScanTypeOK /\ DeployTypeOK
  /\ DeployInv /\ DirInv /\ ScanInv /\ CacheSound /\ QAInv
  /\ LLMInv /\ SessionInv /\ JobsInv /\ BenchInv
==============================================================================
