--------------------------- MODULE Services_proofs ---------------------------
(***************************************************************************)
(* What acts, for any number of clients, jobs, runs and hosts: the types   *)
(* and the safety of rate limits, deployments, jobs, orchestrations, scans *)
(* of networks and of packages, QA runs, language model providers,         *)
(* benchmarks and intake sessions.  Each component has its own behaviours; *)
(* a section is about one of them and cites nothing of the others.         *)
(***************************************************************************)
EXTENDS MCServices, WorkflowEngine_proofs, FiniteSetTheorems, SequenceTheorems,
        WellFoundedInduction, TLAPS


-----------------------------------------------------------------------------
\* RateLimiter: the budget of every client.

\* What is in a bucket now.
LEMMA RefilledType ==
  ASSUME RateTypeOK, NEW c \in Clients
  PROVE  Refilled(c) \in Nat /\ Refilled(c) <= BucketCapacity[c] /\ Refilled(c) >= tokens[c]
<1>1. tokens[c] \in Nat /\ lastRefill[c] \in Nat /\ rateClock \in Nat /\ BucketCapacity[c] \in Nat
  BY RateAssumption DEF RateTypeOK
<1>2. lastRefill[c] <= rateClock /\ tokens[c] <= BucketCapacity[c]
  BY DEF RateTypeOK
<1> QED BY <1>1, <1>2 DEF Refilled, Lesser

\* A bucket that a cleanup takes away had filled up again.
LEMMA ForgottenWasFull ==
  ASSUME RateTypeOK, NEW c \in buckets \ Kept
  PROVE  Refilled(c) = BucketCapacity[c]
<1>1. c \in Clients /\ CleanupDue /\ ~(lastRefill[c] >= rateClock - IdleLimit)
  BY DEF RateTypeOK, Kept, NotStale
<1>2. tokens[c] \in Nat /\ lastRefill[c] \in Nat /\ rateClock \in Nat
      /\ BucketCapacity[c] \in Nat /\ IdleLimit \in Nat /\ IdleLimit >= BucketCapacity[c]
  BY <1>1, RateAssumption DEF RateTypeOK
<1> QED BY <1>1, <1>2 DEF Refilled, Lesser

\* Dispatch in terms of what a client may ask for.
LEMMA DispatchEffect ==
  ASSUME RateTypeOK, NEW ip \in IPs, NEW user \in Users \cup {NoUser}, Dispatch(ip, user)
  PROVE  /\ Kept \subseteq buckets
         /\ \A c \in Clients : (IF c \in Kept THEN Refilled(c) ELSE BucketCapacity[c]) = Allowance(c)
         /\ \E asked \in SUBSET Clients :
              /\ asked = IF Allowance(ip) < RequestCost THEN {ip} ELSE {ip, user} \ {NoUser}
              /\ buckets' = Kept \cup asked
              /\ tokens' = [c \in Clients |->
                   IF c \in asked
                   THEN Allowance(c) - (IF Allowance(c) >= RequestCost THEN RequestCost ELSE 0)
                   ELSE IF c \in Kept THEN tokens[c] ELSE 0]
              /\ lastRefill' = [c \in Clients |-> IF c \in asked THEN rateClock
                                                  ELSE IF c \in Kept THEN lastRefill[c] ELSE 0]
              /\ lastRequest' = [ip |-> ip, user |-> user,
                                 ok |-> \A c \in asked : Allowance(c) >= RequestCost]
         /\ lastCleanup' \in {lastCleanup, rateClock} /\ rateClock' = rateClock
<1>1. Kept \subseteq buckets
  BY DEF Kept, NotStale
<1>2. \A c \in Clients : (IF c \in Kept THEN Refilled(c) ELSE BucketCapacity[c]) = Allowance(c)
  BY <1>1, ForgottenWasFull DEF Allowance
<1>3. ip \in Clients /\ {ip, user} \ {NoUser} \subseteq Clients
  BY DEF Clients
<1> DEFINE asked == IF Allowance(ip) < RequestCost THEN {ip} ELSE {ip, user} \ {NoUser}
<1>4. asked \in SUBSET Clients
  BY <1>3
<1>5. buckets' = Kept \cup asked
  BY <1>2, <1>3 DEF Dispatch
<1>6. /\ lastRefill' = [c \in Clients |-> IF c \in asked THEN rateClock
                                          ELSE IF c \in Kept THEN lastRefill[c] ELSE 0]
      /\ lastCleanup' \in {lastCleanup, rateClock} /\ rateClock' = rateClock
  BY <1>2, <1>3 DEF Dispatch
<1>7. tokens' = [c \in Clients |->
                   IF c \in asked
                   THEN Allowance(c) - (IF Allowance(c) >= RequestCost THEN RequestCost ELSE 0)
                   ELSE IF c \in Kept THEN tokens[c] ELSE 0]
  BY <1>2, <1>3, <1>4 DEF Dispatch
<1>8. lastRequest' = [ip |-> ip, user |-> user, ok |-> \A c \in asked : Allowance(c) >= RequestCost]
  BY <1>2, <1>3, <1>4 DEF Dispatch
<1> QED BY <1>1, <1>2, <1>4, <1>5, <1>6, <1>7, <1>8

\* What a client may ask for is within its capacity.
LEMMA AllowanceType ==
  ASSUME RateTypeOK, NEW c \in Clients
  PROVE  Allowance(c) \in Nat /\ Allowance(c) <= BucketCapacity[c] /\ BucketCapacity[c] \in Nat
<1>1. BucketCapacity[c] \in Nat
  BY RateAssumption
<1> QED BY <1>1, RefilledType DEF Allowance

\* Every step keeps the types.
LEMMA RateTypeStep == RateTypeOK /\ [RateNext]_rateVars => RateTypeOK'
<1> SUFFICES ASSUME RateTypeOK, [RateNext]_rateVars PROVE RateTypeOK'
  OBVIOUS
<1>1. CASE RateTick
  BY <1>1 DEF RateTick, RateTypeOK
<1>2. ASSUME NEW ip \in IPs, NEW user \in Users \cup {NoUser}, Dispatch(ip, user)
      PROVE  RateTypeOK'
  <2>1. PICK asked \in SUBSET Clients :
          /\ buckets' = Kept \cup asked
          /\ tokens' = [c \in Clients |->
               IF c \in asked
               THEN Allowance(c) - (IF Allowance(c) >= RequestCost THEN RequestCost ELSE 0)
               ELSE IF c \in Kept THEN tokens[c] ELSE 0]
          /\ lastRefill' = [c \in Clients |-> IF c \in asked THEN rateClock
                                              ELSE IF c \in Kept THEN lastRefill[c] ELSE 0]
          /\ lastRequest' = [ip |-> ip, user |-> user,
                             ok |-> \A c \in asked : Allowance(c) >= RequestCost]
    BY <1>2, DispatchEffect
  <2>2. Kept \subseteq buckets /\ lastCleanup' \in {lastCleanup, rateClock} /\ rateClock' = rateClock
    BY <1>2, DispatchEffect
  <2>3. /\ rateClock \in Nat /\ buckets \subseteq Clients /\ lastCleanup \in Nat /\ lastCleanup <= rateClock
        /\ RequestCost \in Nat
    BY RateAssumption DEF RateTypeOK
  <2>4. ASSUME NEW c \in Clients
        PROVE  /\ tokens'[c] \in Nat /\ tokens'[c] <= BucketCapacity[c]
               /\ lastRefill'[c] \in Nat /\ lastRefill'[c] <= rateClock
    <3>1. /\ tokens[c] \in Nat /\ tokens[c] <= BucketCapacity[c]
          /\ lastRefill[c] \in Nat /\ lastRefill[c] <= rateClock
      BY DEF RateTypeOK
    <3>2. Allowance(c) \in Nat /\ Allowance(c) <= BucketCapacity[c] /\ BucketCapacity[c] \in Nat
      BY AllowanceType
    <3> QED BY <2>1, <2>3, <3>1, <3>2
  <2>5. lastRequest' \in [ip : IPs \cup {NoUser}, user : Users \cup {NoUser}, ok : BOOLEAN]
    BY <2>1
  <2>6. tokens' \in [Clients -> Nat] /\ lastRefill' \in [Clients -> Nat]
    <3>1. DOMAIN tokens' = Clients /\ DOMAIN lastRefill' = Clients
          /\ tokens' = [c \in Clients |-> tokens'[c]] /\ lastRefill' = [c \in Clients |-> lastRefill'[c]]
      BY <2>1
    <3> QED BY <2>4, <3>1
  <2>7. buckets' \subseteq Clients /\ lastCleanup' \in Nat /\ lastCleanup' <= rateClock'
    BY <2>1, <2>2, <2>3
  <2> QED BY <2>2, <2>3, <2>4, <2>5, <2>6, <2>7 DEF RateTypeOK
<1>3. CASE UNCHANGED rateVars
  BY <1>3 DEF rateVars, RateTypeOK
<1> QED BY <1>1, <1>2, <1>3 DEF RateNext

\* The types of all variables, in every reachable state.
THEOREM RateTypes == RateSpec => []RateTypeOK
<1>1. RateInit => RateTypeOK
  BY RateAssumption DEF RateInit, RateTypeOK
<1> QED BY <1>1, RateTypeStep, PTL DEF RateSpec

-----------------------------------------------------------------------------
\* A tick gives every client one unit, up to its capacity.
LEMMA TickGives ==
  ASSUME RateTypeOK, RateTick, NEW c \in Clients
  PROVE  Allowance(c)' = Lesser(BucketCapacity[c], Allowance(c) + 1)
<1>1. /\ tokens[c] \in Nat /\ lastRefill[c] \in Nat /\ rateClock \in Nat /\ BucketCapacity[c] \in Nat
      /\ rateClock' = rateClock + 1 /\ UNCHANGED <<buckets, tokens, lastRefill>>
  BY RateAssumption DEF RateTypeOK, RateTick
<1>2. CASE c \in buckets
  BY <1>1, <1>2 DEF Allowance, Refilled, Lesser
<1>3. CASE c \notin buckets
  BY <1>1, <1>3 DEF Allowance, Lesser
<1> QED BY <1>2, <1>3

\* A request takes from a client what it costs it, and nothing else changes
\* what a client may ask for.
LEMMA DispatchTakes ==
  ASSUME RateTypeOK, NEW ip \in IPs, NEW user \in Users \cup {NoUser}, Dispatch(ip, user),
         NEW c \in Clients
  PROVE  /\ rateClock' = rateClock
         /\ Allowance(c)' = Allowance(c) - Spent(c, lastRequest', Allowance(c))
         /\ Allowance(c)' >= 0
<1>1. PICK asked \in SUBSET Clients :
        /\ asked = IF Allowance(ip) < RequestCost THEN {ip} ELSE {ip, user} \ {NoUser}
        /\ buckets' = Kept \cup asked
        /\ tokens' = [d \in Clients |->
             IF d \in asked
             THEN Allowance(d) - (IF Allowance(d) >= RequestCost THEN RequestCost ELSE 0)
             ELSE IF d \in Kept THEN tokens[d] ELSE 0]
        /\ lastRefill' = [d \in Clients |-> IF d \in asked THEN rateClock
                                            ELSE IF d \in Kept THEN lastRefill[d] ELSE 0]
        /\ lastRequest' = [ip |-> ip, user |-> user,
                           ok |-> \A d \in asked : Allowance(d) >= RequestCost]
  BY DispatchEffect
<1>2. /\ rateClock' = rateClock
      /\ Allowance(c) = IF c \in Kept THEN Refilled(c) ELSE BucketCapacity[c]
  BY DispatchEffect
<1>3. /\ Allowance(c) \in Nat /\ Allowance(c) <= BucketCapacity[c] /\ BucketCapacity[c] \in Nat
      /\ Allowance(ip) \in Nat /\ RequestCost \in Nat /\ rateClock \in Nat /\ ip \in Clients
  BY AllowanceType, RateAssumption DEF RateTypeOK, Clients
<1>4. user # ip /\ c # NoUser /\ ip # NoUser
  BY RateAssumption DEF Clients
<1>5. CASE c \in asked
  <2>1. Allowance(c)' = Allowance(c) - (IF Allowance(c) >= RequestCost THEN RequestCost ELSE 0)
    <3>1. c \in buckets' /\ lastRefill'[c] = rateClock
          /\ tokens'[c] = Allowance(c) - (IF Allowance(c) >= RequestCost THEN RequestCost ELSE 0)
      BY <1>1, <1>5
    <3>2. tokens'[c] \in Nat /\ tokens'[c] <= BucketCapacity[c]
      BY <1>3, <3>1
    <3>3. Allowance(c)' = tokens'[c]
      BY <1>2, <1>3, <3>1, <3>2 DEF Allowance, Refilled, Lesser
    <3> QED BY <3>1, <3>3
  <2>2. Spent(c, lastRequest', Allowance(c))
          = IF Allowance(c) >= RequestCost THEN RequestCost ELSE 0
    <3>1. CASE c = ip
      BY <1>1, <1>3, <1>5, <3>1 DEF Spent
    <3>2. CASE c # ip
      <4>1. c = user /\ ~(Allowance(ip) < RequestCost) /\ asked = {ip, user}
        BY <1>1, <1>4, <1>5, <3>2
      <4>2. lastRequest'.ip = ip /\ lastRequest'.user = user
            /\ (lastRequest'.ok <=> \A d \in asked : Allowance(d) >= RequestCost)
        BY <1>1
      <4>3. Allowance(ip) >= RequestCost
        BY <1>3, <4>1
      <4>4. lastRequest'.ok <=> Allowance(c) >= RequestCost
        BY <4>1, <4>2, <4>3, Zenon
      <4> QED BY <3>2, <4>1, <4>2, <4>4 DEF Spent
    <3> QED BY <3>1, <3>2
  <2> QED BY <1>2, <1>3, <2>1, <2>2
<1>6. CASE c \notin asked
  <2>1. Allowance(c)' = Allowance(c)
    <3>1. CASE c \in Kept
      BY <1>1, <1>2, <1>6, <3>1 DEF Allowance, Refilled
    <3>2. CASE c \notin Kept
      BY <1>1, <1>2, <1>6, <3>2 DEF Allowance
    <3> QED BY <3>1, <3>2
  <2>2. Spent(c, lastRequest', Allowance(c)) = 0
    <3>1. c # ip /\ (c = user => Allowance(ip) < RequestCost /\ asked = {ip})
      BY <1>1, <1>4, <1>6
    <3>2. c = user => ~lastRequest'.ok
      BY <1>1, <1>3, <3>1
    <3> QED BY <1>1, <3>1, <3>2 DEF Spent
  <2> QED BY <1>2, <1>3, <2>1, <2>2
<1> QED BY <1>5, <1>6

\* In any time t a client has at most its capacity and t units' worth of
\* requests, though buckets that are idle are forgotten and made anew.
THEOREM BudgetIsKept == RateSpec => BudgetKept
<1>1. RateTypeOK /\ [RateNext]_rateVars =>
        UNCHANGED rateVars \/
        \A c \in Clients :
          IF rateClock' # rateClock
          THEN Allowance(c)' = Lesser(BucketCapacity[c], Allowance(c) + 1)
          ELSE /\ Allowance(c)' = Allowance(c) - Spent(c, lastRequest', Allowance(c))
               /\ Allowance(c)' >= 0
  <2> SUFFICES ASSUME RateTypeOK, RateNext, NEW c \in Clients
               PROVE  IF rateClock' # rateClock
                      THEN Allowance(c)' = Lesser(BucketCapacity[c], Allowance(c) + 1)
                      ELSE /\ Allowance(c)' = Allowance(c) - Spent(c, lastRequest', Allowance(c))
                           /\ Allowance(c)' >= 0
    OBVIOUS
  <2>1. CASE RateTick
    <3>1. rateClock' # rateClock
      BY <2>1 DEF RateTick, RateTypeOK
    <3> QED BY <2>1, <3>1, TickGives
  <2>2. ASSUME NEW ip \in IPs, NEW user \in Users \cup {NoUser}, Dispatch(ip, user)
        PROVE  /\ rateClock' = rateClock
               /\ Allowance(c)' = Allowance(c) - Spent(c, lastRequest', Allowance(c))
               /\ Allowance(c)' >= 0
    BY <2>2, DispatchTakes
  <2> QED BY <2>1, <2>2 DEF RateNext
<1> QED BY <1>1, RateTypes, PTL DEF RateSpec, BudgetKept

-----------------------------------------------------------------------------
\* Deployment: what a deployment that succeeds has put in place.

\* Every step keeps the types.
LEMMA DeployTypeStep == DeployTypeOK /\ [DeployNext]_deployVars => DeployTypeOK'
<1> SUFFICES ASSUME DeployTypeOK, [DeployNext]_deployVars PROVE DeployTypeOK'
  OBVIOUS
<1> USE DeployAssumption DEF DeployTypeOK, DeployState, Over
<1>1. ASSUME NEW d \in Deployments, StartDeploy(d) PROVE DeployTypeOK'
  BY <1>1 DEF StartDeploy, Go, Log, HostUnchanged, InStage
<1>2. ASSUME NEW d \in Deployments, DeployStepFails(d) PROVE DeployTypeOK'
  BY <1>2, ZenonT(40) DEF DeployStepFails, Log, HalfDone, InStage
<1>3. ASSUME NEW d \in Deployments, StepTimesOut(d) PROVE DeployTypeOK'
  BY <1>3, ZenonT(40) DEF StepTimesOut, HalfDone, InStage
<1>4. ASSUME NEW d \in Deployments, GitPull(d) PROVE DeployTypeOK'
  BY <1>4, ZenonT(40) DEF GitPull, InStage
<1>5. ASSUME NEW d \in Deployments, PipInstall(d) PROVE DeployTypeOK'
  BY <1>5 DEF PipInstall, Go, InStage
<1>6. ASSUME NEW d \in Deployments, BeginBuild(d) PROVE DeployTypeOK'
  BY <1>6, ZenonT(40) DEF BeginBuild, HostUnchanged, InStage
<1>7. ASSUME NEW d \in Deployments, EndBuild(d) PROVE DeployTypeOK'
  BY <1>7 DEF EndBuild, Go, InStage
<1>8. ASSUME NEW d \in Deployments, DockerUp(d) PROVE DeployTypeOK'
  BY <1>8 DEF DockerUp, Go, InStage
<1>9. ASSUME NEW d \in Deployments, HealthCheck(d) PROVE DeployTypeOK'
  BY <1>9 DEF HealthCheck, Go, Log, HostUnchanged, InStage
<1>10. ASSUME NEW d \in Deployments, QuickTests(d) PROVE DeployTypeOK'
  <2>1. audit' \in [Deployments -> SUBSET {"start", "fail", "success"}]
    BY <1>10 DEF QuickTests, Log
  <2>2. deployment' \in [Deployments -> DeployState]
    BY <1>10, ZenonT(40) DEF QuickTests, InStage
  <2> QED BY <1>10, <2>1, <2>2 DEF QuickTests, HostUnchanged
<1>11. CASE PushCommits
  BY <1>11 DEF PushCommits, HostUnchanged
<1>12. CASE ServiceMoves
  BY <1>12 DEF ServiceMoves
<1>13. CASE UNCHANGED deployVars
  BY <1>13 DEF deployVars
<1> QED BY <1>1, <1>2, <1>3, <1>4, <1>5, <1>6, <1>7, <1>8, <1>9, <1>10, <1>11, <1>12, <1>13
        DEF DeployNext

\* The host and the deployments keep their types.
THEOREM DeployTypes == DeploySpec => []DeployTypeOK
<1>1. DeployInit => DeployTypeOK
  BY DeployAssumption DEF DeployInit, DeployTypeOK, DeployState, NotBegun, Over
<1> QED BY <1>1, DeployTypeStep, PTL DEF DeploySpec

\* One deployment at a time, and the host is where it has brought it.
LEMMA DeployInvStep == DeployTypeOK /\ DeployInv /\ [DeployNext]_deployVars => DeployInv'
<1> SUFFICES ASSUME DeployTypeOK, DeployInv, [DeployNext]_deployVars, ~DeployOverlap
             PROVE  /\ \A d, e \in Deployments :
                         d = e \/ deployment'[d].at \in Over \/ deployment'[e].at \in Over
                    /\ \A d \in Deployments : BroughtTo(d)'
  BY DEF DeployInv
<1> USE DEF DeployTypeOK, DeployState, Over, DeployInv, BroughtTo
<1>1. ASSUME NEW d \in Deployments, StartDeploy(d)
      PROVE  /\ \A c, e \in Deployments :
                  c = e \/ deployment'[c].at \in Over \/ deployment'[e].at \in Over
             /\ \A e \in Deployments : BroughtTo(e)'
  BY <1>1 DEF StartDeploy, Go, Log, HostUnchanged, InStage
<1>2. ASSUME NEW d \in Deployments, DeployStepFails(d) \/ StepTimesOut(d)
      PROVE  /\ \A c, e \in Deployments :
                  c = e \/ deployment'[c].at \in Over \/ deployment'[e].at \in Over
             /\ \A e \in Deployments : BroughtTo(e)'
  BY <1>2, SMTT(30) DEF DeployStepFails, StepTimesOut, Log, HalfDone, InStage
<1>3. ASSUME NEW d \in Deployments,
             GitPull(d) \/ PipInstall(d) \/ BeginBuild(d) \/ EndBuild(d) \/ DockerUp(d)
      PROVE  /\ \A c, e \in Deployments :
                  c = e \/ deployment'[c].at \in Over \/ deployment'[e].at \in Over
             /\ \A e \in Deployments : BroughtTo(e)'
  BY <1>3 DEF GitPull, PipInstall, BeginBuild, EndBuild, DockerUp, Go, HostUnchanged, InStage
<1>4. ASSUME NEW d \in Deployments, HealthCheck(d) \/ QuickTests(d)
      PROVE  /\ \A c, e \in Deployments :
                  c = e \/ deployment'[c].at \in Over \/ deployment'[e].at \in Over
             /\ \A e \in Deployments : BroughtTo(e)'
  BY <1>4 DEF HealthCheck, QuickTests, Go, Log, HostUnchanged, InStage
<1>5. CASE PushCommits \/ ServiceMoves \/ UNCHANGED deployVars
  BY <1>5 DEF PushCommits, ServiceMoves, HostUnchanged, deployVars
<1> QED BY <1>1, <1>2, <1>3, <1>4, <1>5 DEF DeployNext

\* The invariant of deployments that do not overlap.
LEMMA DeployInvariance == DeploySpec => [](DeployTypeOK /\ DeployInv)
<1>1. DeployInit => DeployInv
  BY DEF DeployInit, DeployInv, BroughtTo, NotBegun, Over
<1> QED BY <1>1, DeployTypes, DeployInvStep, PTL DEF DeploySpec

\* Only the last step ends a deployment with status 0.
LEMMA OnlyTestsSucceed ==
  ASSUME DeployTypeOK, [DeployNext]_deployVars, NEW d \in Deployments,
         deployment'[d].exit = "0", deployment[d].exit # "0"
  PROVE  QuickTests(d)
<1> USE DEF DeployTypeOK, DeployState
<1>1. PICK e \in Deployments :
        \/ StartDeploy(e) \/ DeployStepFails(e) \/ StepTimesOut(e) \/ GitPull(e) \/ PipInstall(e)
        \/ BeginBuild(e) \/ EndBuild(e) \/ DockerUp(e) \/ HealthCheck(e) \/ QuickTests(e)
  BY DEF DeployNext, PushCommits, ServiceMoves, deployVars
<1>2. QuickTests(e)
  BY <1>1 DEF StartDeploy, DeployStepFails, StepTimesOut, GitPull, PipInstall, BeginBuild, EndBuild,
              DockerUp, HealthCheck, Go
<1>3. e = d
  BY <1>2 DEF QuickTests
<1> QED BY <1>2, <1>3

\* A deployment that no other overlaps and that ends with status 0 leaves the
\* host with the code it pulled, and no failure stands in its audit log.
THEOREM SuccessHolds == ~DeployOverlap /\ DeploySpec => SuccessRuns
<1> SUFFICES ASSUME ~DeployOverlap PROVE DeploySpec => SuccessRuns
  OBVIOUS
<1>1. DeployTypeOK /\ DeployInv /\ [DeployNext]_deployVars =>
        \A d \in Deployments : deployment'[d].exit = "0" /\ deployment[d].exit = "none" =>
          /\ running' = deployment[d].pulled /\ installed' = deployment[d].pulled
          /\ "fail" \notin audit'[d]
  <2> SUFFICES ASSUME DeployTypeOK, DeployInv, [DeployNext]_deployVars, NEW d \in Deployments,
                      deployment'[d].exit = "0", deployment[d].exit = "none"
               PROVE  /\ running' = deployment[d].pulled /\ installed' = deployment[d].pulled
                      /\ "fail" \notin audit'[d]
    OBVIOUS
  <2>1. QuickTests(d)
    BY OnlyTestsSucceed
  <2> QED BY <2>1 DEF QuickTests, InStage, Log, HostUnchanged, DeployTypeOK, DeployState,
                      DeployInv, BroughtTo, Over
<1> QED BY <1>1, DeployInvariance, PTL DEF DeploySpec, SuccessRuns

-----------------------------------------------------------------------------
\* JobRunner: one working tree for the job and for the developer.

\* The result of a job.
JobResults ==
  [at : {"idle", "branch", "execute", "stage", "return", "raise", "ran", "merge", "done"},
   status : {"pending", "running", "completed", "failed", "merged"},
   from : Branches, changed : SUBSET Files, committed : BOOLEAN,
   pr : {"none", "url", "branch"}]

\* What one writes over a file is a version of it.
LEMMA MergeTypes ==
  ASSUME JobsTypeOK, NEW j \in Jobs, NEW b \in DOMAIN tree, j \in DOMAIN tree
  PROVE  Merge(j, b) \in Contents /\ AfterCheckout(b) \in Contents /\ Changed \subseteq Files
BY DEF JobsTypeOK, Merge, AfterCheckout, Contents, Changed

\* Every step of the runners and of the developer keeps the types.
LEMMA JobsTypeStep == JobsTypeOK /\ JobsInv /\ [JobsNext]_jobVars => JobsTypeOK'
<1> SUFFICES ASSUME JobsTypeOK, JobsInv, [JobsNext]_jobVars PROVE JobsTypeOK'
  OBVIOUS
<1>0. /\ {head, "main"} \subseteq DOMAIN tree /\ DOMAIN tree \subseteq Branches
      /\ \A b \in DOMAIN tree : tree[b] \in Contents
      /\ worktree \in Contents /\ base \in [Jobs -> Contents] /\ job \in [Jobs -> JobResults]
      /\ jobRuns \in 0..MaxJobRuns /\ edited \subseteq Files /\ MaxJobRuns \in Nat
  BY JobsAssumption DEF JobsTypeOK, JobResults
<1>n. /\ [NoJob EXCEPT !.at = "branch", !.from = head] \in JobResults
      /\ [NoJob EXCEPT !.at = "done"] \in JobResults
  BY <1>0 DEF NoJob, JobResults, Branches
<1>1. ASSUME NEW j \in Jobs, StartJob(j) PROVE JobsTypeOK'
  <2>1. job' \in [Jobs -> JobResults]
    BY <1>0, <1>1, <1>n DEF StartJob, Moves
  <2>2. jobRuns' \in 0..MaxJobRuns
    BY <1>0, <1>1 DEF StartJob
  <2> QED BY <1>0, <1>1, <2>1, <2>2 DEF StartJob, JobsTypeOK, JobResults
<1>2. ASSUME NEW j \in Jobs, CreateBranch(j) PROVE JobsTypeOK'
  <2>1. job' \in [Jobs -> JobResults]
    BY <1>0, <1>2, ZenonT(40) DEF CreateBranch, Moves, JobResults
  <2>2. /\ DOMAIN tree' = DOMAIN tree \cup {j} /\ head' = j
        /\ \A b \in DOMAIN tree' : tree'[b] \in Contents
        /\ base' \in [Jobs -> Contents]
    BY <1>0, <1>2 DEF CreateBranch
  <2>3. DOMAIN tree' \subseteq Branches
    BY <1>0, <2>2 DEF Branches
  <2> QED BY <1>0, <1>2, <2>1, <2>2, <2>3 DEF CreateBranch, JobsTypeOK, JobResults
<1>3. ASSUME NEW j \in Jobs, BranchExists(j) \/ CreatePR(j) \/ LeaveUnmerged(j) PROVE JobsTypeOK'
  <2>1. PICK x \in JobResults : job' = [job EXCEPT ![j] = x]
    <3>1. job[j] \in JobResults
      BY <1>0
    <3>2. CASE BranchExists(j)
      <4>1. [job[j] EXCEPT !.at = "raise"] \in JobResults
        BY <3>1 DEF JobResults
      <4> QED BY <3>2, <4>1 DEF BranchExists, Moves
    <3>3. CASE CreatePR(j)
      <4>1. PICK p \in {"none", "url", "branch"} :
              job' = [job EXCEPT ![j] = [job[j] EXCEPT !.at = "merge", !.pr = p]]
        BY <3>3 DEF CreatePR, Moves
      <4>2. [job[j] EXCEPT !.at = "merge", !.pr = p] \in JobResults
        BY <3>1 DEF JobResults
      <4> QED BY <4>1, <4>2
    <3>4. CASE LeaveUnmerged(j)
      <4>1. [job[j] EXCEPT !.at = "done"] \in JobResults
        BY <3>1 DEF JobResults
      <4> QED BY <3>4, <4>1 DEF LeaveUnmerged, Moves
    <3> QED BY <1>3, <3>2, <3>3, <3>4
  <2> QED BY <1>0, <1>3, <2>1 DEF BranchExists, CreatePR, LeaveUnmerged, JobsTypeOK, JobResults
<1>4. ASSUME NEW j \in Jobs, Execute(j) PROVE JobsTypeOK'
  <2>1. job' \in [Jobs -> JobResults]
    <3>1. PICK at \in {"return", "stage"}, status \in {"running", "failed"} :
            job' = [job EXCEPT ![j] = [job[j] EXCEPT !.at = at, !.status = status]]
      BY <1>4 DEF Execute, Moves
    <3>2. job[j] \in JobResults
      BY <1>0
    <3>3. [job[j] EXCEPT !.at = at, !.status = status] \in JobResults
      BY <3>2 DEF JobResults
    <3> QED BY <1>0, <3>1, <3>3
  <2>2. worktree' \in Contents /\ edited' \subseteq Files
    BY <1>0, <1>4 DEF Execute, Contents, Versions
  <2> QED BY <1>0, <1>4, <2>1, <2>2 DEF Execute, JobsTypeOK, JobResults
<1>5. ASSUME NEW j \in Jobs, Stage(j) PROVE JobsTypeOK'
  <2>1. PICK made \in BOOLEAN, gitFails \in BOOLEAN :
          /\ tree' = IF made THEN [tree EXCEPT ![head] = worktree] ELSE tree
          /\ job' = [job EXCEPT ![j] = [job[j] EXCEPT
               !.at = "return", !.changed = Changed, !.committed = made,
               !.status = IF gitFails \/ job[j].status = "failed" THEN "failed" ELSE "completed"]]
    BY <1>5 DEF Stage, Moves
  <2>2. Changed \subseteq Files
    BY DEF Changed
  <2>3. job' \in [Jobs -> JobResults]
    <3>1. PICK status \in {"completed", "failed"} :
            job' = [job EXCEPT ![j] = [job[j] EXCEPT
              !.at = "return", !.changed = Changed, !.committed = made, !.status = status]]
      BY <2>1
    <3>2. job[j] \in JobResults
      BY <1>0
    <3>3. [job[j] EXCEPT !.at = "return", !.changed = Changed, !.committed = made, !.status = status]
            \in JobResults
      BY <2>2, <3>2 DEF JobResults
    <3> QED BY <1>0, <3>1, <3>3
  <2>4. DOMAIN tree' = DOMAIN tree /\ \A b \in DOMAIN tree' : tree'[b] \in Contents
    BY <1>0, <2>1
  <2> QED BY <1>0, <1>5, <2>3, <2>4 DEF Stage, JobsTypeOK, JobResults
<1>6. ASSUME NEW j \in Jobs, ReturnToBranch(j) PROVE JobsTypeOK'
  <2>1. job[j].from \in DOMAIN tree
    BY <1>6 DEF ReturnToBranch, JobsInv, Runners
  <2>2. job' \in [Jobs -> JobResults]
    BY <1>0, <1>6 DEF ReturnToBranch, Moves, JobResults
  <2>3. AfterCheckout(job[j].from) \in Contents
    BY <1>0, <2>1 DEF AfterCheckout, Contents
  <2> QED BY <1>0, <1>6, <2>1, <2>2, <2>3 DEF ReturnToBranch, JobsTypeOK, JobResults
<1>7. ASSUME NEW j \in Jobs, AutoMerge(j) PROVE JobsTypeOK'
  <2>1. j \in DOMAIN tree
    BY <1>7 DEF AutoMerge, JobsInv, Runners, Begun, OnBranch
  <2>2. job' \in [Jobs -> JobResults]
    <3>1. PICK status \in {"merged", job[j].status} :
            job' = [job EXCEPT ![j] = [job[j] EXCEPT !.at = "done", !.status = status]]
      BY <1>7 DEF AutoMerge, Moves
    <3>2. job[j] \in JobResults
      BY <1>0
    <3>3. [job[j] EXCEPT !.at = "done", !.status = status] \in JobResults
      BY <3>2 DEF JobResults
    <3> QED BY <1>0, <3>1, <3>3
  <2>3. Merge(j, head) \in Contents
    BY <1>0, <2>1, MergeTypes
  <2>4. /\ worktree' \in Contents
        /\ DOMAIN tree' = DOMAIN tree /\ \A b \in DOMAIN tree' : tree'[b] \in Contents
    <3>1. [f \in Files |-> IF f \in Changed THEN worktree[f] ELSE Merge(j, head)[f]] \in Contents
      BY <1>0, <2>3 DEF Contents
    <3> QED BY <1>0, <1>7, <2>3, <3>1 DEF AutoMerge
  <2> QED BY <1>0, <1>7, <2>2, <2>4 DEF AutoMerge, JobsTypeOK, JobResults
<1>8. ASSUME NEW j \in Jobs, RunnerDies(j) PROVE JobsTypeOK'
  <2>1. job' \in [Jobs -> JobResults]
    BY <1>0, <1>8, <1>n DEF RunnerDies, Moves
  <2> QED BY <1>0, <1>8, <2>1 DEF RunnerDies, JobsTypeOK, JobResults
<1>9. ASSUME NEW f \in Files, Edit(f) PROVE JobsTypeOK'
  <2>1. worktree' \in Contents /\ edited' \subseteq Files
    BY <1>0, <1>9 DEF Edit, Contents, Versions
  <2> QED BY <1>0, <1>9, <2>1 DEF Edit, JobsTypeOK, JobResults
<1>10. CASE UNCHANGED jobVars
  BY <1>10 DEF jobVars, JobsTypeOK
<1> QED BY <1>1, <1>2, <1>3, <1>4, <1>5, <1>6, <1>7, <1>8, <1>9, <1>10 DEF JobsNext, JobStep

\* What is known of a runner at work, and of the files of the developer.
AtWork(j) ==
  /\ job[j].from \in DOMAIN tree
  /\ job[j].at \in {"branch", "raise"} => head = job[j].from
  /\ job[j].at \in {"branch", "raise", "execute", "stage"} => ~job[j].committed
  /\ job[j].at \in Begun => OnBranch(j)
  /\ job[j].at \in {"return", "ran", "merge"} => EditsAside(j)
  /\ job[j].at \in {"ran", "merge"} =>
       \/ head = job[j].from
       \/ head = j /\ \E f \in edited : worktree[f] = "edit" /\ tree[j][f] # tree[job[j].from][f]

\* What holds of the branches and the files, whoever runs.
FilesHeld ==
  /\ \A f \in edited : worktree[f] \in {"edit", tree[head][f]}
  /\ MainKept /\ EditsSurvive

\* The inductive invariant of the safety of jobs.
JobsHold == JobsInv /\ HeadRestored /\ MainKept /\ EditsSurvive

\* JobsHold runner by runner.
LEMMA ByRunner ==
  JobsHold <=> (\A i, j \in Runners : i = j) /\ (\A j \in Runners : AtWork(j)) /\ FilesHeld
BY DEF JobsHold, JobsInv, HeadRestored, AtWork, FilesHeld, Runners

\* A step of the only runner is judged by what holds of that runner after it.
LEMMA OneRunner ==
  ASSUME JobsTypeOK, NEW j \in Jobs, Runners \subseteq {j}, NEW x, Moves(j, x),
         x.at \notin {"idle", "done"} => AtWork(j)', FilesHeld'
  PROVE  JobsHold'
<1>1. job'[j] = x /\ \A i \in Jobs \ {j} : job'[i] = job[i]
  BY DEF JobsTypeOK, Moves
<1>2. Runners' \subseteq {j} /\ (j \in Runners' => x.at \notin {"idle", "done"})
  BY <1>1 DEF Runners
<1>3. \A i, k \in Runners' : i = k
  BY <1>2
<1>4. \A i \in Runners' : AtWork(i)'
  BY <1>2
<1> QED BY <1>3, <1>4 DEF JobsHold, JobsInv, HeadRestored, AtWork, FilesHeld, Runners

\* Moving on without touching a branch or a file leaves the files held.
LEMMA FilesStay ==
  FilesHeld /\ UNCHANGED <<head, tree, worktree, edited>> => FilesHeld'
BY DEF FilesHeld, MainKept, EditsSurvive

\* The only runner starts on the branch that is checked out.
LEMMA StartKeeps ==
  ASSUME JobsTypeOK, JobsHold, ~SeveralRunners, NEW j \in Jobs, StartJob(j)
  PROVE  JobsHold'
<1> DEFINE x == [NoJob EXCEPT !.at = "branch", !.from = head]
<1>1. Moves(j, x) /\ Runners = {} /\ UNCHANGED <<head, tree, worktree, base, edited>>
  BY DEF StartJob
<1>2. x.at = "branch" /\ x.from = head /\ x.committed = FALSE
  BY DEF NoJob
<1> HIDE DEF x
<1>3. job'[j] = x
  BY <1>1 DEF JobsTypeOK, Moves
<1>4. AtWork(j)'
  BY <1>1, <1>2, <1>3 DEF AtWork, Begun, JobsTypeOK
<1>5. FilesHeld'
  BY <1>1, ByRunner, FilesStay
<1> QED BY <1>1, <1>4, <1>5, OneRunner

\* A new branch is the one it started from; the runner goes there with the working tree.
LEMMA BranchKeeps ==
  ASSUME JobsTypeOK, JobsHold, NEW j \in Jobs, CreateBranch(j)
  PROVE  JobsHold'
<1> DEFINE x == [job[j] EXCEPT !.at = "execute", !.status = "running"]
<1>1. /\ Moves(j, x) /\ UNCHANGED <<worktree, edited>> /\ j \notin DOMAIN tree
      /\ tree' = [b \in DOMAIN tree \cup {j} |-> IF b = j THEN tree[head] ELSE tree[b]]
      /\ base' = [base EXCEPT ![j] = tree[head]] /\ head' = j
      /\ j \in Runners /\ job[j].at = "branch"
  BY DEF CreateBranch, Runners
<1>2. /\ Runners \subseteq {j} /\ AtWork(j) /\ FilesHeld
  BY <1>1, ByRunner
<1>3. job[j] \in JobResults
  BY DEF JobsTypeOK, JobResults
<1>4. /\ x.at = "execute" /\ x.status = "running" /\ x.committed = FALSE
      /\ x.from = head /\ x.from \in DOMAIN tree
  BY <1>1, <1>2, <1>3 DEF AtWork, JobResults
<1> HIDE DEF x
<1>5. job'[j] = x
  BY <1>1 DEF JobsTypeOK, Moves
<1>6. /\ DOMAIN tree' = DOMAIN tree \cup {j} /\ tree'[j] = tree[head] /\ base'[j] = tree[head]
      /\ \A b \in DOMAIN tree : b # j /\ tree'[b] = tree[b]
  BY <1>1 DEF JobsTypeOK
<1>7. OnBranch(j)'
  BY <1>1, <1>4, <1>5, <1>6 DEF OnBranch
<1>8. AtWork(j)'
  BY <1>4, <1>5, <1>6, <1>7 DEF AtWork
<1>9. FilesHeld'
  <2>1. \A f \in edited' : worktree'[f] \in {"edit", tree'[head'][f]}
    BY <1>1, <1>2, <1>6 DEF FilesHeld
  <2>2. MainKept'
    <3>1. tree'["main"] = tree["main"]
      BY <1>6 DEF JobsTypeOK
    <3> QED BY <1>2, <3>1 DEF FilesHeld, MainKept
  <2>3. EditsSurvive'
    BY <1>1, <1>2, <1>6 DEF FilesHeld, EditsSurvive
  <2> QED BY <2>1, <2>2, <2>3 DEF FilesHeld
<1> QED BY <1>1, <1>2, <1>8, <1>9, OneRunner

\* A runner that goes on, or ends, leaves what is known of its branch and of the files.
LEMMA GoOnKeeps ==
  ASSUME JobsTypeOK, JobsHold, NEW j \in Jobs,
         BranchExists(j) \/ CreatePR(j) \/ LeaveUnmerged(j) \/ RunnerDies(j)
  PROVE  JobsHold'
<1>1. j \in Runners /\ UNCHANGED <<head, tree, worktree, base, edited>>
  BY DEF BranchExists, CreatePR, LeaveUnmerged, RunnerDies, Runners
<1>2. Runners \subseteq {j} /\ AtWork(j) /\ FilesHeld
  BY <1>1, ByRunner
<1>3. job[j] \in JobResults /\ Changed' = Changed
  BY <1>1 DEF JobsTypeOK, JobResults, Changed
<1>4. FilesHeld'
  BY <1>1, <1>2, FilesStay
<1>5. CASE BranchExists(j)
  <2> DEFINE x == [job[j] EXCEPT !.at = "raise"]
  <2>1. Moves(j, x) /\ job[j].at = "branch"
    BY <1>5 DEF BranchExists
  <2>2. x.at = "raise" /\ x.from = job[j].from /\ x.committed = job[j].committed
    BY <1>3 DEF JobResults
  <2> HIDE DEF x
  <2>3. job'[j] = x
    BY <2>1 DEF JobsTypeOK, Moves
  <2>4. AtWork(j)'
    BY <1>1, <1>2, <2>1, <2>2, <2>3 DEF AtWork, Begun
  <2> QED BY <1>2, <1>4, <2>1, <2>4, OneRunner
<1>6. CASE CreatePR(j)
  <2>1. PICK p \in {"none", "url", "branch"} : Moves(j, [job[j] EXCEPT !.at = "merge", !.pr = p])
    BY <1>6 DEF CreatePR
  <2> DEFINE x == [job[j] EXCEPT !.at = "merge", !.pr = p]
  <2>2. /\ x.at = "merge" /\ x.from = job[j].from /\ x.committed = job[j].committed
        /\ x.status = job[j].status /\ x.changed = job[j].changed
    BY <1>3 DEF JobResults
  <2> HIDE DEF x
  <2>3. job'[j] = x /\ job[j].at = "ran"
    BY <1>6, <2>1 DEF JobsTypeOK, Moves, CreatePR, x
  <2>4. OnBranch(j)'
    BY <1>1, <1>2, <2>2, <2>3 DEF AtWork, Begun, OnBranch
  <2>5. EditsAside(j)'
    BY <1>1, <1>2, <1>3, <2>2, <2>3 DEF AtWork, EditsAside
  <2>6. AtWork(j)'
    BY <1>1, <1>2, <2>2, <2>3, <2>4, <2>5 DEF AtWork
  <2> QED BY <1>2, <1>4, <2>1, <2>6, OneRunner DEF x
<1>7. CASE LeaveUnmerged(j) \/ RunnerDies(j)
  <2>1. PICK x : Moves(j, x) /\ x.at = "done"
    BY <1>3, <1>7 DEF LeaveUnmerged, RunnerDies, NoJob, JobResults
  <2> QED BY <1>2, <1>4, <2>1, OneRunner
<1> QED BY <1>5, <1>6, <1>7

\* The command writes only the working tree, and what it overwrites is not an edit any more.
LEMMA ExecuteKeeps ==
  ASSUME JobsTypeOK, JobsHold, NEW j \in Jobs, Execute(j)
  PROVE  JobsHold'
<1>1. PICK written \in SUBSET Files, at \in {"return", "stage"}, status \in {"running", "failed"} :
        /\ worktree' = [f \in Files |-> IF f \in written THEN j ELSE worktree[f]]
        /\ edited' = edited \ written
        /\ Moves(j, [job[j] EXCEPT !.at = at, !.status = status])
  BY DEF Execute
<1>2. j \in Runners /\ job[j].at = "execute" /\ UNCHANGED <<head, tree, base>>
  BY DEF Execute, Runners
<1>3. Runners \subseteq {j} /\ AtWork(j) /\ FilesHeld
  BY <1>2, ByRunner
<1> DEFINE x == [job[j] EXCEPT !.at = at, !.status = status]
<1>4. /\ x.at = at /\ x.status = status /\ x.from = job[j].from
      /\ x.committed = job[j].committed /\ job[j].committed \in BOOLEAN
  BY DEF JobsTypeOK
<1> HIDE DEF x
<1>5. job'[j] = x
  BY <1>1 DEF JobsTypeOK, Moves, x
<1>6. OnBranch(j)' /\ tree[j] = base[j] /\ x.committed = FALSE
  BY <1>2, <1>3, <1>4, <1>5 DEF AtWork, Begun, OnBranch
<1>7. EditsAside(j)'
  BY <1>2, <1>5, <1>6 DEF EditsAside
<1>8. AtWork(j)'
  BY <1>2, <1>3, <1>4, <1>5, <1>6, <1>7 DEF AtWork
<1>9. FilesHeld'
  <2>1. \A f \in edited' : f \in edited /\ worktree'[f] = worktree[f]
    BY <1>1 DEF JobsTypeOK
  <2>2. MainKept'
    BY <1>2, <1>3 DEF FilesHeld, MainKept
  <2>3. EditsSurvive'
    BY <1>2, <1>3, <2>1 DEF FilesHeld, EditsSurvive
  <2> QED BY <1>2, <1>3, <2>1, <2>2, <2>3 DEF FilesHeld
<1> QED BY <1>1, <1>3, <1>8, <1>9, OneRunner DEF x

\* The commit holds the working tree, and the result lists what is new in it.
LEMMA StageKeeps ==
  ASSUME JobsTypeOK, JobsHold, NEW j \in Jobs, Stage(j)
  PROVE  JobsHold'
<1>1. PICK made \in BOOLEAN, status \in {"completed", "failed"} :
        /\ tree' = IF made THEN [tree EXCEPT ![head] = worktree] ELSE tree
        /\ Moves(j, [job[j] EXCEPT !.at = "return", !.changed = Changed,
                                   !.committed = made, !.status = status])
  BY DEF Stage
<1>2. j \in Runners /\ job[j].at = "stage" /\ UNCHANGED <<head, worktree, base, edited>>
  BY DEF Stage, Runners
<1>3. Runners \subseteq {j} /\ AtWork(j) /\ FilesHeld
  BY <1>2, ByRunner
<1> DEFINE x == [job[j] EXCEPT !.at = "return", !.changed = Changed,
                               !.committed = made, !.status = status]
<1>4. /\ x.at = "return" /\ x.status = status /\ x.from = job[j].from
      /\ x.committed = made /\ x.changed = Changed
  BY DEF JobsTypeOK
<1> HIDE DEF x
<1>5. job'[j] = x
  BY <1>1 DEF JobsTypeOK, Moves, x
<1>6. OnBranch(j) /\ head = j /\ tree[j] = base[j]
  BY <1>2, <1>3 DEF AtWork, Begun, OnBranch
<1>7. /\ DOMAIN tree' = DOMAIN tree /\ \A b \in DOMAIN tree : b # j => tree'[b] = tree[b]
      /\ tree'[j] = IF made THEN worktree ELSE tree[j]
  BY <1>1, <1>6 DEF OnBranch
<1>8. made => Changed' = {}
  BY <1>2, <1>6, <1>7 DEF Changed
<1>9. {f \in Files : tree'[j][f] # base[j][f]} \subseteq Changed
  BY <1>6, <1>7 DEF Changed
<1>10. OnBranch(j)'
  BY <1>2, <1>4, <1>5, <1>6, <1>7, <1>9 DEF OnBranch
<1>11. EditsAside(j)'
  <2>1. ASSUME NEW f \in edited, tree'[j][f] \notin {base[j][f], "edit"} PROVE FALSE
    BY <1>3, <1>6, <1>7, <2>1 DEF FilesHeld
  <2> QED BY <1>2, <1>4, <1>5, <1>8, <2>1 DEF EditsAside
<1>12. AtWork(j)'
  BY <1>2, <1>3, <1>4, <1>5, <1>7, <1>10, <1>11 DEF AtWork
<1>13. FilesHeld'
  <2>1. \A f \in edited' : worktree'[f] \in {"edit", tree'[head'][f]}
    BY <1>2, <1>3, <1>6, <1>7 DEF FilesHeld
  <2>2. MainKept'
    BY <1>3, <1>7, JobsAssumption DEF FilesHeld, MainKept, JobsTypeOK
  <2>3. ASSUME NEW f \in edited PROVE worktree'[f] = "edit" \/ \E b \in DOMAIN tree' : tree'[b][f] = "edit"
    <3>1. worktree[f] = "edit" \/ \E b \in DOMAIN tree : tree[b][f] = "edit"
      BY <1>3 DEF FilesHeld, EditsSurvive
    <3>2. worktree[f] \in {"edit", tree[j][f]}
      BY <1>3, <1>6 DEF FilesHeld
    <3>3. ASSUME worktree[f] # "edit", NEW b \in DOMAIN tree, tree[b][f] = "edit"
          PROVE  tree'[b][f] = "edit"
      BY <1>7, <3>2, <3>3
    <3> QED BY <1>2, <1>7, <3>1, <3>3
  <2>4. EditsSurvive'
    BY <1>2, <2>3 DEF EditsSurvive
  <2> QED BY <2>1, <2>2, <2>4 DEF FilesHeld
<1> QED BY <1>1, <1>3, <1>12, <1>13, OneRunner DEF x

\* The developer's save is seen by the runner, and by the commit if there was none yet.
LEMMA EditKeeps ==
  ASSUME JobsTypeOK, JobsHold, NEW f \in Files, Edit(f)
  PROVE  JobsHold'
<1>1. /\ worktree[f] # "edit" /\ edited' = edited \cup {f}
      /\ worktree'[f] = "edit" /\ \A g \in Files \ {f} : worktree'[g] = worktree[g]
      /\ UNCHANGED <<head, tree, base, job>>
  BY DEF Edit, JobsTypeOK, Contents
<1>2. \A g \in edited' : g \in Files
  BY <1>1 DEF JobsTypeOK
<1>3. Changed' \subseteq Changed \cup {f}
  BY <1>1 DEF Changed
<1>4. ASSUME NEW j \in Runners PROVE AtWork(j)'
  <2>1. AtWork(j) /\ FilesHeld
    BY ByRunner
  <2>2. job[j].at \in Begun => OnBranch(j)'
    BY <1>1, <2>1 DEF AtWork, OnBranch
  <2>3. ASSUME job[j].at \in {"return", "ran", "merge"} PROVE EditsAside(j)'
    <3>1. EditsAside(j) /\ OnBranch(j)
      BY <2>1, <2>3 DEF AtWork, Begun
    <3>2. job[j].committed => \A g \in Changed' : worktree'[g] = "edit" /\ g \in edited'
      BY <1>1, <1>3, <3>1 DEF EditsAside, Changed
    <3>3. ASSUME tree[j][f] \notin {base[j][f], "edit"}, head # j PROVE tree[head][f] # "edit"
      <4> SUFFICES ASSUME tree[head][f] = "edit" PROVE FALSE
        OBVIOUS
      <4>1. f \in Changed
        BY <1>1 DEF Changed
      <4>2. job[j].committed
        BY <3>1, <3>3 DEF OnBranch, JobsTypeOK
      <4> QED BY <1>1, <3>1, <4>1, <4>2 DEF EditsAside
    <3>4. ASSUME NEW g \in edited', tree[j][g] \notin {base[j][g], "edit"}
          PROVE  worktree'[g] = "edit" /\ (head = j \/ tree[head][g] # "edit")
      <4>1. CASE g = f
        BY <1>1, <3>3, <3>4, <4>1
      <4>2. CASE g # f
        BY <1>1, <1>2, <3>1, <3>4, <4>2 DEF EditsAside
      <4> QED BY <4>1, <4>2
    <3> QED BY <1>1, <3>2, <3>4 DEF EditsAside
  <2>4. job[j].at \in {"ran", "merge"} =>
          \/ head = job[j].from
          \/ head = j /\ \E g \in edited' : worktree'[g] = "edit" /\ tree[j][g] # tree[job[j].from][g]
    BY <1>1, <2>1, <1>2 DEF AtWork
  <2> QED BY <1>1, <2>1, <2>2, <2>3, <2>4 DEF AtWork
<1>5. FilesHeld'
  BY <1>1, <1>2, ByRunner DEF FilesHeld, MainKept, EditsSurvive
<1>6. Runners' = Runners /\ \A i, k \in Runners : i = k
  BY <1>1, ByRunner DEF Runners
<1> QED BY <1>4, <1>5, <1>6 DEF JobsHold, JobsInv, HeadRestored, AtWork, FilesHeld, Runners

\* Back on the first branch the working tree differs from it in no file it did not differ
\* in before, and git has refused if that would lose an edit.
LEMMA ReturnKeeps ==
  ASSUME JobsTypeOK, JobsHold, NEW j \in Jobs, ReturnToBranch(j)
  PROVE  JobsHold'
<1> DEFINE b == job[j].from
<1>1. PICK at \in {"done", "ran"} :
        /\ Moves(j, [job[j] EXCEPT !.at = at])
        /\ at = "ran" => job[j].at = "return"
        /\ at = "done" => job[j].at = "raise"
  BY DEF ReturnToBranch
<1>2. j \in Runners /\ job[j].at \in {"return", "raise"} /\ UNCHANGED <<tree, base, edited>>
  BY DEF ReturnToBranch, Runners
<1>3. Runners \subseteq {j} /\ AtWork(j) /\ FilesHeld
  BY <1>2, ByRunner
<1> DEFINE x == [job[j] EXCEPT !.at = at]
<1>4. /\ x.at = at /\ x.status = job[j].status /\ x.from = b
      /\ x.committed = job[j].committed /\ x.changed = job[j].changed
  BY DEF JobsTypeOK
<1> HIDE DEF x
<1>5. job'[j] = x
  BY <1>1 DEF JobsTypeOK, Moves, x
<1>6. b \in DOMAIN tree /\ worktree \in Contents /\ edited \subseteq Files
  BY <1>3 DEF AtWork, JobsTypeOK
<1>7. CASE CanCheckout(b)
  <2>1. head' = b /\ worktree' = AfterCheckout(b)
    BY <1>7 DEF ReturnToBranch
  <2>2. ASSUME NEW f \in Changed
        PROVE  f \in Files /\ worktree'[f] = worktree[f] /\ tree[b][f] = tree[head][f]
    BY <1>7, <2>1, <2>2 DEF CanCheckout, AfterCheckout, Changed
  <2>3. ASSUME NEW f \in Files \ Changed PROVE worktree'[f] = tree[b][f] /\ worktree[f] = tree[head][f]
    BY <2>1 DEF AfterCheckout, Changed
  <2>4. Changed' \subseteq Changed
    BY <1>2, <2>1, <2>3 DEF Changed
  <2>5. ASSUME at = "ran" PROVE AtWork(j)'
    <3>1. OnBranch(j) /\ EditsAside(j) /\ head = j
      BY <1>1, <1>3, <2>5 DEF AtWork, Begun, OnBranch
    <3>2. OnBranch(j)'
      BY <1>2, <1>4, <1>5, <2>5, <3>1 DEF OnBranch
    <3>3. ASSUME NEW f \in edited, tree[j][f] \notin {base[j][f], "edit"}
          PROVE  worktree'[f] = "edit" /\ tree[b][f] # "edit"
      <4>1. worktree[f] = "edit" /\ f \in Changed
        BY <1>6, <3>1, <3>3 DEF EditsAside, Changed
      <4> QED BY <2>2, <3>1, <3>3, <4>1
    <3>4. x.committed => \A f \in Changed' : worktree'[f] = "edit" /\ f \in edited
      BY <1>4, <2>2, <2>4, <3>1 DEF EditsAside
    <3>5. EditsAside(j)'
      BY <1>2, <1>5, <2>1, <3>3, <3>4 DEF EditsAside
    <3> QED BY <1>2, <1>4, <1>5, <1>6, <2>1, <2>5, <3>2, <3>5 DEF AtWork
  <2>6. FilesHeld'
    <3>1. \A f \in edited : worktree'[f] \in {"edit", tree[b][f]}
      BY <1>3, <1>6, <2>2, <2>3 DEF FilesHeld
    <3>2. ASSUME NEW f \in edited PROVE worktree'[f] = "edit" \/ \E c \in DOMAIN tree : tree[c][f] = "edit"
      <4>1. CASE f \in Changed
        BY <1>3, <2>2, <4>1 DEF FilesHeld, EditsSurvive
      <4>2. CASE f \notin Changed
        BY <1>3, <1>6, <2>3, <4>2 DEF FilesHeld, EditsSurvive, JobsTypeOK
      <4> QED BY <4>1, <4>2
    <3>3. MainKept' /\ EditsSurvive'
      BY <1>2, <1>3, <3>2 DEF FilesHeld, MainKept, EditsSurvive
    <3> QED BY <1>2, <2>1, <3>1, <3>3 DEF FilesHeld
  <2> QED BY <1>1, <1>3, <1>4, <2>5, <2>6, OneRunner DEF x
<1>8. CASE ~CanCheckout(b)
  <2>1. UNCHANGED <<head, worktree>>
    BY <1>8 DEF ReturnToBranch
  <2>2. Changed' = Changed
    BY <1>2, <2>1 DEF Changed
  <2>3. ASSUME at = "ran" PROVE AtWork(j)'
    <3>1. OnBranch(j) /\ EditsAside(j) /\ head = j
      BY <1>1, <1>3, <2>3 DEF AtWork, Begun, OnBranch
    <3>2. OnBranch(j)'
      BY <1>2, <1>4, <1>5, <2>1, <2>3, <3>1 DEF OnBranch
    <3>3. EditsAside(j)'
      BY <1>2, <1>4, <1>5, <2>1, <2>2, <3>1 DEF EditsAside
    <3>4. PICK f \in Changed : tree[b][f] # tree[j][f]
      BY <1>8, <3>1 DEF CanCheckout
    <3>5. job[j].committed
      BY <3>1, <3>4 DEF OnBranch
    <3>6. worktree[f] = "edit" /\ f \in edited
      BY <3>1, <3>4, <3>5 DEF EditsAside
    <3> QED BY <1>2, <1>4, <1>5, <1>6, <2>1, <2>3, <3>1, <3>2, <3>3, <3>4, <3>6 DEF AtWork
  <2>4. FilesHeld'
    BY <1>2, <1>3, <2>1, FilesStay
  <2> QED BY <1>1, <1>3, <1>4, <2>3, <2>4, OneRunner DEF x
<1> QED BY <1>7, <1>8

\* A merge writes what the job changed, allowed files only, and takes no edit back.
LEMMA MergeKeeps ==
  ASSUME JobsTypeOK, JobsHold, NEW j \in Jobs, AutoMerge(j)
  PROVE  JobsHold'
<1> DEFINE merged == Merge(j, head)
           ok == MergeConflicts(j, head) = {} /\ \A f \in Changed : merged[f] = tree[head][f]
<1>1. /\ j \in Runners /\ job[j].at = "merge" /\ CanAutoMerge(j) /\ UNCHANGED <<head, base, edited>>
      /\ tree' = IF ok THEN [tree EXCEPT ![head] = merged] ELSE tree
      /\ worktree' = IF ok THEN [f \in Files |-> IF f \in Changed THEN worktree[f] ELSE merged[f]]
                     ELSE worktree
  BY DEF AutoMerge, Runners
<1>2. PICK status \in {"merged", job[j].status} :
        Moves(j, [job[j] EXCEPT !.at = "done", !.status = status])
  BY DEF AutoMerge
<1>3. Runners \subseteq {j} /\ AtWork(j) /\ FilesHeld
  BY <1>1, ByRunner
<1>4. OnBranch(j) /\ EditsAside(j) /\ edited \subseteq Files /\ head \in DOMAIN tree
  BY <1>1, <1>3 DEF AtWork, Begun, JobsTypeOK
<1>5. [job[j] EXCEPT !.at = "done", !.status = status].at = "done"
  BY DEF JobsTypeOK
<1>6. FilesHeld'
  <2>1. CASE ~ok
    BY <1>1, <1>3, <2>1, FilesStay
  <2>2. CASE ok
    <3>1. /\ DOMAIN tree' = DOMAIN tree /\ tree'[head] = merged
          /\ \A b \in DOMAIN tree : b # head => tree'[b] = tree[b]
      BY <1>1, <1>4, <2>2
    <3>2. ASSUME NEW f \in Files
          PROVE  merged[f] = IF tree[j][f] # base[j][f] THEN tree[j][f] ELSE tree[head][f]
      BY DEF Merge
    <3>3. ASSUME NEW f \in Changed PROVE worktree'[f] = worktree[f] /\ merged[f] = tree[head][f]
      BY <1>1, <2>2, <3>3 DEF Changed
    <3>4. ASSUME NEW f \in Files \ Changed PROVE worktree'[f] = merged[f] /\ worktree[f] = tree[head][f]
      BY <1>1, <2>2 DEF Changed
    <3>5. ASSUME NEW f \in Files
          PROVE  tree[j][f] # base[j][f] => tree[head][f] = base[j][f] \/ tree[head][f] = tree[j][f]
      BY <2>2 DEF MergeConflicts
    <3> HIDE DEF merged, ok
    <3>6. \A f \in edited : worktree'[f] \in {"edit", merged[f]}
      BY <1>3, <1>4, <3>3, <3>4 DEF FilesHeld
    <3>7. MainKept'
      <4>1. ASSUME NEW f \in Files \ AllowedFiles PROVE tree'["main"][f] = "old"
        <5>1. tree[j][f] = base[j][f]
          BY <1>1, <1>4 DEF CanAutoMerge, OnBranch
        <5>2. tree["main"][f] = "old"
          BY <1>3 DEF FilesHeld, MainKept
        <5> QED BY <3>1, <3>2, <5>1, <5>2 DEF JobsTypeOK
      <4> QED BY <4>1 DEF MainKept
    <3>8. ASSUME NEW f \in edited PROVE worktree'[f] = "edit" \/ \E b \in DOMAIN tree : tree'[b][f] = "edit"
      <4>1. CASE f \in Changed
        BY <1>3, <1>4, <3>3, <4>1 DEF FilesHeld, Changed
      <4>2. CASE f \notin Changed
        <5>1. worktree'[f] = merged[f] /\ worktree[f] = tree[head][f] /\ f \in Files
          BY <1>4, <3>4, <4>2
        <5>2. CASE merged[f] = tree[head][f]
          <6>1. worktree'[f] = worktree[f]
            BY <5>1, <5>2
          <6>2. \A b \in DOMAIN tree : tree'[b][f] = tree[b][f]
            BY <3>1, <5>2
          <6> QED BY <1>3, <6>1, <6>2 DEF FilesHeld, EditsSurvive
        <5>3. CASE merged[f] # tree[head][f]
          <6>1. tree[j][f] # base[j][f] /\ merged[f] = tree[j][f] /\ tree[head][f] = base[j][f]
            BY <3>2, <3>5, <5>1, <5>3
          <6>2. CASE tree[j][f] = "edit"
            BY <5>1, <6>1, <6>2
          <6>3. CASE tree[j][f] # "edit"
            <7>1. worktree[f] = "edit" /\ (head = j \/ tree[head][f] # "edit")
              BY <1>4, <6>1, <6>3 DEF EditsAside
            <7> QED BY <5>1, <5>3, <6>1, <7>1
          <6> QED BY <6>2, <6>3
        <5> QED BY <5>2, <5>3
      <4> QED BY <4>1, <4>2
    <3>9. EditsSurvive'
      BY <1>1, <3>1, <3>8 DEF EditsSurvive
    <3> QED BY <1>1, <3>1, <3>6, <3>7, <3>9 DEF FilesHeld
  <2> QED BY <2>1, <2>2
<1> QED BY <1>2, <1>3, <1>5, <1>6, OneRunner

\* One step of one runner, of the developer, or none.
LEMMA JobsStepHolds ==
  ASSUME ~SeveralRunners
  PROVE  JobsTypeOK /\ JobsHold /\ [JobsNext]_jobVars => JobsHold'
<1> SUFFICES ASSUME JobsTypeOK, JobsHold, [JobsNext]_jobVars PROVE JobsHold'
  OBVIOUS
<1>1. CASE UNCHANGED jobVars
  BY <1>1 DEF jobVars, JobsHold, JobsInv, HeadRestored, MainKept, EditsSurvive, Runners, Begun,
     OnBranch, EditsAside, Changed
<1> QED BY <1>1, StartKeeps, BranchKeeps, ExecuteKeeps, StageKeeps, ReturnKeeps, MergeKeeps,
           GoOnKeeps, EditKeeps DEF JobsNext, JobStep

\* Before the first job nothing is changed.
LEMMA JobsStart == JobsInit => JobsTypeOK /\ JobsHold
<1> SUFFICES ASSUME JobsInit PROVE JobsTypeOK /\ JobsHold
  OBVIOUS
<1>1. Runners = {}
  BY DEF JobsInit, Runners, NoJob
<1>2. JobsTypeOK
  BY JobsAssumption DEF JobsInit, JobsTypeOK, NoJob, Branches, Contents, Versions
<1>3. FilesHeld
  BY DEF JobsInit, FilesHeld, MainKept, EditsSurvive
<1> QED BY <1>1, <1>2, <1>3, ByRunner

\* With one runner at a time the repository is what JobsTypeOK says of it, and the
\* invariant of the jobs holds, in every state.
LEMMA JobsInvariance == ~SeveralRunners => (JobsSpec => [](JobsTypeOK /\ JobsInv))
<1> SUFFICES ASSUME ~SeveralRunners PROVE JobsSpec => [](JobsTypeOK /\ JobsInv)
  OBVIOUS
<1>1. JobsHold => JobsInv
  BY DEF JobsHold
<1> QED BY <1>1, JobsStart, JobsTypeStep, JobsStepHolds, PTL DEF JobsSpec

\* With one runner at a time the repository is what JobsTypeOK says of it (JobRunner.run).
THEOREM JobsTypes == ~SeveralRunners => (JobsSpec => []JobsTypeOK)
<1> SUFFICES ASSUME ~SeveralRunners PROVE JobsSpec => []JobsTypeOK
  OBVIOUS
<1> QED BY JobsInvariance, PTL

\* One runner at a time leaves the developer where it found them and what they wrote where
\* it can be found, keeps main to allowed files, and says merged only of what is merged,
\* for any number of jobs and files (run's finally block, 237-241, and auto_merge, 496-525).
THEOREM JobsAreSafe == ~SeveralRunners => (JobsSpec => JobsSafe)
<1> SUFFICES ASSUME ~SeveralRunners PROVE JobsSpec => JobsSafe
  OBVIOUS
<1>1. JobsHold => JobsInv /\ HeadRestored /\ MainKept /\ EditsSurvive
  BY DEF JobsHold
<1>2. JobsTypeOK /\ JobsHold /\ [JobsNext]_jobVars
        => [\A j \in Jobs : (job'[j].status = "merged" /\ job[j].status # "merged")
              => \A f \in Files : tree[j][f] # base[j][f] => tree'[head][f] = tree[j][f]]_jobVars
  <2> SUFFICES ASSUME JobsTypeOK, JobsNext, NEW j \in Jobs,
                      job'[j].status = "merged", job[j].status # "merged"
               PROVE  \A f \in Files : tree[j][f] # base[j][f] => tree'[head][f] = tree[j][f]
    OBVIOUS
  <2>1. CASE AutoMerge(j)
    <3>1. MergeConflicts(j, head) = {} /\ tree' = [tree EXCEPT ![head] = Merge(j, head)]
      BY <2>1 DEF AutoMerge, Moves, JobsTypeOK
    <3>2. tree'[head] = Merge(j, head)
      BY <3>1 DEF JobsTypeOK
    <3> QED BY <3>2 DEF Merge
  <2>2. ASSUME NEW i \in Jobs, StartJob(i) \/ JobStep(i) \/ RunnerDies(i), ~AutoMerge(j)
        PROVE  FALSE
    <3>1. PICK x : Moves(i, x) /\ (x.status # "merged" \/ x.status = job[i].status \/ AutoMerge(i))
      <4>1. job[i] \in JobResults
        BY DEF JobsTypeOK, JobResults
      <4>2. CASE StartJob(i) \/ RunnerDies(i)
        <5> DEFINE begins == [NoJob EXCEPT !.at = "branch", !.from = head]
                   dies == [NoJob EXCEPT !.at = "done"]
        <5>1. Moves(i, begins) \/ Moves(i, dies)
          BY <4>2 DEF StartJob, RunnerDies
        <5>2. begins.status # "merged" /\ dies.status # "merged"
          BY DEF NoJob
        <5> HIDE DEF begins, dies
        <5> QED BY <5>1, <5>2
      <4>3. CASE BranchExists(i) \/ LeaveUnmerged(i) \/ ReturnToBranch(i)
        <5>1. PICK at : Moves(i, [job[i] EXCEPT !.at = at])
          BY <4>3 DEF BranchExists, LeaveUnmerged, ReturnToBranch
        <5>2. [job[i] EXCEPT !.at = at].status = job[i].status
          BY <4>1 DEF JobResults
        <5> QED BY <5>1, <5>2
      <4>4. CASE CreateBranch(i)
        <5> DEFINE y == [job[i] EXCEPT !.at = "execute", !.status = "running"]
        <5>1. Moves(i, y)
          BY <4>4 DEF CreateBranch
        <5>2. y.status # "merged"
          BY <4>1 DEF JobResults
        <5> HIDE DEF y
        <5> QED BY <5>1, <5>2
      <4>5. CASE CreatePR(i)
        <5>1. PICK p : Moves(i, [job[i] EXCEPT !.at = "merge", !.pr = p])
          BY <4>5 DEF CreatePR
        <5>2. [job[i] EXCEPT !.at = "merge", !.pr = p].status = job[i].status
          BY <4>1 DEF JobResults
        <5> QED BY <5>1, <5>2
      <4>6. CASE Execute(i)
        <5>1. PICK at \in {"return", "stage"}, status \in {"running", "failed"} :
                Moves(i, [job[i] EXCEPT !.at = at, !.status = status])
          BY <4>6 DEF Execute
        <5>2. [job[i] EXCEPT !.at = at, !.status = status].status # "merged"
          BY <4>1 DEF JobResults
        <5> QED BY <5>1, <5>2
      <4>7. CASE Stage(i)
        <5>1. PICK made \in BOOLEAN, status \in {"completed", "failed"} :
                Moves(i, [job[i] EXCEPT !.at = "return", !.changed = Changed,
                                        !.committed = made, !.status = status])
          BY <4>7 DEF Stage
        <5>2. [job[i] EXCEPT !.at = "return", !.changed = Changed,
                             !.committed = made, !.status = status].status # "merged"
          BY <4>1 DEF JobResults
        <5> QED BY <5>1, <5>2
      <4>8. CASE AutoMerge(i)
        BY <4>8 DEF AutoMerge
      <4> QED BY <2>2, <4>2, <4>3, <4>4, <4>5, <4>6, <4>7, <4>8 DEF JobStep
    <3>2. job'[i] = x /\ (i # j => job'[j] = job[j])
      BY <3>1 DEF Moves, JobsTypeOK
    <3> QED BY <2>2, <3>1, <3>2
  <2>3. ASSUME NEW f \in Files, Edit(f) PROVE FALSE
    BY <2>3 DEF Edit
  <2> QED BY <2>1, <2>2, <2>3 DEF JobsNext
<1>3. JobsSpec => []JobsTypeOK
  BY JobsTypes
<1> QED BY <1>1, <1>2, <1>3, JobsStart, JobsStepHolds, PTL DEF JobsSpec, JobsSafe, MergedMeansMerged

-----------------------------------------------------------------------------
\* Orchestrator: each run works in its own directory.

\* A run that goes from one step to the next.
LEMMA StepFields ==
  ASSUME OrchTypeOK, NEW r \in OrchRuns, NEW from, NEW to, OrchStep(r, from, to)
  PROVE  /\ orch[r].at = from /\ orch'[r].at = to
         /\ orch'[r].repo = orch[r].repo /\ orch'[r].back = orch[r].back
         /\ \A q \in OrchRuns \ {r} : orch'[q] = orch[q]
         /\ to \in {"steps", "raising", "leave", "stamp", "raised", "latest", "writing", "done"} =>
              orch' \in [OrchRuns -> OrchState]
<1>1. orch[r] \in OrchState
  BY DEF OrchTypeOK
<1>2. orch'[r] = [orch[r] EXCEPT !.at = to] /\ \A q \in OrchRuns \ {r} : orch'[q] = orch[q]
  BY DEF OrchStep, OrchTypeOK
<1>3. to \in {"steps", "raising", "leave", "stamp", "raised", "latest", "writing", "done"} =>
        [orch[r] EXCEPT !.at = to] \in OrchState
  BY <1>1 DEF OrchState
<1> QED BY <1>1, <1>2, <1>3 DEF OrchStep, OrchState, OrchTypeOK

\* Every step of the runs keeps the types.
LEMMA OrchTypeStep == OrchTypeOK /\ [OrchNext]_orchVars => OrchTypeOK'
<1> SUFFICES ASSUME OrchTypeOK, [OrchNext]_orchVars PROVE OrchTypeOK'
  OBVIOUS
<1> USE OrchAssumption DEF OrchTypeOK, NoReport
<1>1. ASSUME NEW r \in OrchRuns, NEW c \in Commands, NEW repo \in Repos \cup {NoRepo}, Trigger(r, c, repo)
      PROVE  OrchTypeOK'
  <2>1. ASSUME NEW at \in {"load", "error"}
        PROVE  [orch[r] EXCEPT !.at = at, !.command = c, !.repo = repo] \in OrchState
    BY ZenonT(40) DEF OrchState
  <2>2. PICK at \in {"load", "error"} :
          orch' = [orch EXCEPT ![r] = [orch[r] EXCEPT !.at = at, !.command = c, !.repo = repo]]
    BY <1>1 DEF Trigger
  <2>3. orch' \in [OrchRuns -> OrchState]
    BY <2>1, <2>2
  <2> QED BY <1>1, <2>3 DEF Trigger
<1>2. ASSUME NEW r \in OrchRuns, RememberDir(r) PROVE OrchTypeOK'
  <2>1. Cwd(r) \in Repos \cup {Home}
    BY DEF Cwd
  <2>2. ASSUME NEW at \in {"steps", "chdir"}, NEW dir \in Repos \cup {Home}
        PROVE  [orch[r] EXCEPT !.at = at, !.back = dir] \in OrchState
    <3>1. orch[r] \in OrchState
      OBVIOUS
    <3> HIDE DEF OrchTypeOK
    <3> QED BY <2>2, <3>1 DEF OrchState
  <2>4. PICK at \in {"steps", "chdir"} :
          orch' = [orch EXCEPT ![r] = [orch[r] EXCEPT !.at = at, !.back = Cwd(r)]]
    BY <1>2 DEF RememberDir
  <2>5. orch' \in [OrchRuns -> OrchState]
    BY <2>1, <2>2, <2>4
  <2> QED BY <1>2, <2>5 DEF RememberDir
<1>3. ASSUME NEW r \in OrchRuns, EnterRepo(r) PROVE OrchTypeOK'
  <2>1. orch' \in [OrchRuns -> OrchState]
    BY <1>3, StepFields DEF EnterRepo
  <2>2. cwd' \in [OrchRuns -> Repos \cup {Home}]
    BY <1>3 DEF EnterRepo, ChangeDir
  <2> QED BY <1>3, <2>1, <2>2 DEF EnterRepo
<1>4. ASSUME NEW r \in OrchRuns, RunStep(r) PROVE OrchTypeOK'
  <2>1. ASSUME NEW b \in BOOLEAN PROVE [orch[r] EXCEPT !.failed = b] \in OrchState
    BY ZenonT(40) DEF OrchState
  <2>2. orch[r].failed \in BOOLEAN /\ Cwd(r) \in Repos \cup {Home}
    BY DEF OrchState, Cwd
  <2>5. PICK b \in BOOLEAN : orch' = [orch EXCEPT ![r].failed = b]
    BY <1>4, <2>2 DEF RunStep
  <2>6. orch' = [orch EXCEPT ![r] = [orch[r] EXCEPT !.failed = b]]
    BY <2>5
  <2>3. orch' \in [OrchRuns -> OrchState]
    BY <2>1, <2>6
  <2>4. ranIn' \in [OrchRuns -> SUBSET (Repos \cup {Home})]
    BY <1>4, <2>2 DEF RunStep
  <2> QED BY <1>4, <2>3, <2>4 DEF RunStep
<1>5. ASSUME NEW r \in OrchRuns, EndEngine(r) PROVE OrchTypeOK'
  BY <1>5, StepFields DEF EndEngine
<1>6. ASSUME NEW r \in OrchRuns, LeaveRepo(r) PROVE OrchTypeOK'
  <2>1. orch' \in [OrchRuns -> OrchState]
    BY <1>6, StepFields DEF LeaveRepo
  <2>2. cwd' \in [OrchRuns -> Repos \cup {Home}]
    BY <1>6 DEF LeaveRepo, ChangeDir, OrchState
  <2> QED BY <1>6, <2>1, <2>2 DEF LeaveRepo
<1>7. ASSUME NEW r \in OrchRuns, Stamp(r) PROVE OrchTypeOK'
  <2>1. [orch[r] EXCEPT !.at = "report", !.stamp = second] \in OrchState
    BY ZenonT(40) DEF OrchState
  <2>2. orch' \in [OrchRuns -> OrchState]
    BY <1>7, <2>1 DEF Stamp
  <2>3. reports' \in [ReportFiles -> OrchRuns \cup {"none", "torn"}]
    BY <1>7 DEF Stamp
  <2> QED BY <1>7, <2>2, <2>3 DEF Stamp
<1>8. ASSUME NEW r \in OrchRuns, WriteReport(r) PROVE OrchTypeOK'
  <2>1. orch' \in [OrchRuns -> OrchState]
    BY <1>8, StepFields DEF WriteReport
  <2>2. reports' \in [ReportFiles -> OrchRuns \cup {"none", "torn"}]
    BY <1>8 DEF WriteReport
  <2> QED BY <1>8, <2>1, <2>2 DEF WriteReport
<1>9. ASSUME NEW r \in OrchRuns, WriteLatest(r) PROVE OrchTypeOK'
  BY <1>9, StepFields DEF WriteLatest
<1>10. CASE OrchTick
  BY <1>10 DEF OrchTick
<1>11. ASSUME NEW repo \in Repos, MoveRepo(repo) PROVE OrchTypeOK'
  BY <1>11 DEF MoveRepo
<1>12. CASE UNCHANGED orchVars
  BY <1>12 DEF orchVars
<1> QED BY <1>1, <1>2, <1>3, <1>4, <1>5, <1>6, <1>7, <1>8, <1>9, <1>10, <1>11, <1>12 DEF OrchNext

\* The runs keep their types.
THEOREM OrchTypes == OrchSpec => []OrchTypeOK
<1>1. OrchInit => OrchTypeOK
  BY OrchAssumption DEF OrchInit, OrchTypeOK, OrchState
<1> QED BY <1>1, OrchTypeStep, PTL DEF OrchSpec

\* A run's change of directory is its own process's only.
LEMMA OwnChange ==
  ASSUME OrchTypeOK, OwnProcess, NEW r \in OrchRuns, NEW dir, ChangeDir(r, dir)
  PROVE  /\ Cwd(r)' = dir /\ \A q \in OrchRuns \ {r} : Cwd(q)' = Cwd(q)
         /\ \A p \in OrchRuns : (\A q \in OrchRuns : ServerOf[q] # p) => cwd'[p] = cwd[p]
BY OrchAssumption DEF OrchTypeOK, OwnProcess, ChangeDir, Cwd

\* The part of the invariant that is about one run.
DirOf(r) ==
  /\ ranIn[r] \subseteq {Asked(r)} /\ (orch[r].at \in {"new", "load"} => ranIn[r] = {})
  /\ ~Inside(r) => Cwd(r) = Home
  /\ orch[r].at \in {"chdir", "steps", "leave", "raising"} => orch[r].back = Home
  /\ orch[r].at = "chdir" => orch[r].repo # NoRepo
  /\ orch[r].at \in {"steps", "leave"} => Cwd(r) = Asked(r)
  /\ orch[r].at = "raising" => Cwd(r) \in {Home, Asked(r)}

\* A run that nothing is done to stays where it is.
LEMMA OthersStay ==
  ASSUME NEW q \in OrchRuns, DirOf(q), orch'[q] = orch[q], ranIn'[q] = ranIn[q], Cwd(q)' = Cwd(q)
  PROVE  DirOf(q)'
BY DEF DirOf, Asked, Inside

\* Where the processes are after each step, when each run has its own.
LEMMA DirInvStep == OwnProcess /\ OrchTypeOK /\ DirInv /\ [OrchNext]_orchVars => DirInv'
<1> SUFFICES ASSUME OwnProcess, OrchTypeOK, DirInv, [OrchNext]_orchVars PROVE DirInv'
  OBVIOUS
<1>d. DirInv <=> /\ \A r \in OrchRuns : DirOf(r)
                 /\ \A p \in OrchRuns : (\A r \in OrchRuns : ServerOf[r] # p) => cwd[p] = Home
  BY DEF DirInv, DirOf
<1>e. DirInv' <=> /\ \A r \in OrchRuns : DirOf(r)'
                  /\ \A p \in OrchRuns : (\A r \in OrchRuns : ServerOf[r] # p) => cwd'[p] = Home
  BY DEF DirInv, DirOf
<1>s. UNCHANGED cwd => \A q \in OrchRuns : Cwd(q)' = Cwd(q)
  BY DEF Cwd
<1> USE OrchAssumption
\* What is left to show of a step of one run.
<1>r. ASSUME NEW r \in OrchRuns, DirOf(r)',
             \A q \in OrchRuns \ {r} : orch'[q] = orch[q] /\ ranIn'[q] = ranIn[q],
             UNCHANGED cwd \/ \E dir : ChangeDir(r, dir)
      PROVE  DirInv'
  <2>1. \A q \in OrchRuns \ {r} : Cwd(q)' = Cwd(q)
    BY <1>r, <1>s, OwnChange
  <2>2. \A q \in OrchRuns \ {r} : DirOf(q)'
    BY <1>d, <1>r, <2>1, OthersStay
  <2>3. \A p \in OrchRuns : (\A q \in OrchRuns : ServerOf[q] # p) => cwd'[p] = Home
    BY <1>d, <1>r, OwnChange
  <2> QED BY <1>e, <1>r, <2>2, <2>3
<1>1. ASSUME NEW r \in OrchRuns, NEW c \in Commands, NEW repo \in Repos \cup {NoRepo}, Trigger(r, c, repo)
      PROVE  DirInv'
  <2>1. /\ orch[r].at = "new" /\ orch'[r].at \in {"load", "error"} /\ UNCHANGED <<cwd, ranIn>>
        /\ \A q \in OrchRuns \ {r} : orch'[q] = orch[q]
    BY <1>1 DEF Trigger, OrchTypeOK, OrchState
  <2>2. DirOf(r)'
    BY <1>d, <1>s, <2>1 DEF DirOf, Inside, Asked
  <2> QED BY <1>r, <2>1, <2>2
<1>2. ASSUME NEW r \in OrchRuns, RememberDir(r) PROVE DirInv'
  <2>1. /\ orch[r].at = "load" /\ UNCHANGED <<cwd, ranIn>>
        /\ orch'[r].at = IF orch[r].repo = NoRepo THEN "steps" ELSE "chdir"
        /\ orch'[r].back = Cwd(r) /\ orch'[r].repo = orch[r].repo
        /\ \A q \in OrchRuns \ {r} : orch'[q] = orch[q]
    BY <1>2 DEF RememberDir, OrchTypeOK, OrchState
  <2>2. DirOf(r)'
    BY <1>d, <1>s, <2>1 DEF DirOf, Inside, Asked
  <2> QED BY <1>r, <2>1, <2>2
<1>3. ASSUME NEW r \in OrchRuns, EnterRepo(r) PROVE DirInv'
  <2>1. CASE OrchStep(r, "chdir", "steps") /\ ChangeDir(r, orch[r].repo)
    <3>1. DirOf(r)'
      BY <1>3, <1>d, <2>1, StepFields, OwnChange DEF EnterRepo, DirOf, Inside, Asked
    <3> QED BY <1>3, <1>r, <2>1, <3>1, StepFields DEF EnterRepo
  <2>2. CASE OrchStep(r, "chdir", "raising") /\ UNCHANGED cwd
    <3>1. DirOf(r)'
      BY <1>3, <1>d, <1>s, <2>2, StepFields DEF EnterRepo, DirOf, Inside, Asked
    <3> QED BY <1>3, <1>r, <2>2, <3>1, StepFields DEF EnterRepo
  <2> QED BY <1>3, <2>1, <2>2 DEF EnterRepo
<1>4. ASSUME NEW r \in OrchRuns, RunStep(r) PROVE DirInv'
  <2>1. /\ orch[r].at = "steps" /\ UNCHANGED cwd /\ ranIn'[r] = ranIn[r] \cup {Cwd(r)}
        /\ orch'[r].at = orch[r].at /\ orch'[r].repo = orch[r].repo /\ orch'[r].back = orch[r].back
        /\ \A q \in OrchRuns \ {r} : orch'[q] = orch[q] /\ ranIn'[q] = ranIn[q]
    BY <1>4 DEF RunStep, OrchTypeOK, OrchState
  <2>2. DirOf(r)'
    BY <1>d, <1>s, <2>1 DEF DirOf, Inside, Asked
  <2> QED BY <1>r, <2>1, <2>2
<1>5. ASSUME NEW r \in OrchRuns, EndEngine(r) PROVE DirInv'
  <2>1. PICK to \in {"leave", "raising"} : OrchStep(r, "steps", to)
    BY <1>5 DEF EndEngine
  <2>2. UNCHANGED <<cwd, ranIn>>
    BY <1>5 DEF EndEngine
  <2>3. DirOf(r)'
    BY <1>d, <1>s, <2>1, <2>2, StepFields DEF DirOf, Inside, Asked
  <2> QED BY <1>r, <2>1, <2>2, <2>3, StepFields
<1>6. ASSUME NEW r \in OrchRuns, LeaveRepo(r) PROVE DirInv'
  <2>1. PICK from \in {"leave", "raising"}, to \in {"stamp", "raised"} : OrchStep(r, from, to)
    BY <1>6 DEF LeaveRepo
  <2>2. ranIn' = ranIn
    BY <1>6 DEF LeaveRepo
  <2>3. CASE orch[r].repo = NoRepo /\ UNCHANGED cwd
    <3>1. DirOf(r)'
      BY <1>d, <1>s, <2>1, <2>2, <2>3, StepFields DEF DirOf, Inside, Asked
    <3> QED BY <1>r, <2>1, <2>2, <2>3, <3>1, StepFields
  <2>4. CASE ChangeDir(r, orch[r].back)
    <3>1. DirOf(r)'
      BY <1>d, <2>1, <2>2, <2>4, StepFields, OwnChange DEF DirOf, Inside, Asked
    <3> QED BY <1>r, <2>1, <2>2, <2>4, <3>1, StepFields
  <2> QED BY <1>6, <2>3, <2>4 DEF LeaveRepo
<1>7. ASSUME NEW r \in OrchRuns, Stamp(r) \/ WriteReport(r) \/ WriteLatest(r) PROVE DirInv'
  <2>1. /\ orch[r].at \in {"stamp", "report", "latest", "writing"}
        /\ orch'[r].at \in {"report", "latest", "writing", "done"} /\ orch'[r].repo = orch[r].repo
        /\ UNCHANGED <<cwd, ranIn>> /\ \A q \in OrchRuns \ {r} : orch'[q] = orch[q]
    BY <1>7 DEF Stamp, WriteReport, WriteLatest, OrchStep, OrchTypeOK, OrchState
  <2>2. DirOf(r)'
    BY <1>d, <1>s, <2>1 DEF DirOf, Inside, Asked
  <2> QED BY <1>r, <2>1, <2>2
<1>8. ASSUME OrchTick \/ (\E repo \in Repos : MoveRepo(repo)) \/ UNCHANGED orchVars PROVE DirInv'
  <2>1. UNCHANGED <<cwd, orch, ranIn>>
    BY <1>8 DEF OrchTick, MoveRepo, orchVars
  <2> QED BY <1>d, <1>e, <1>s, <2>1, OthersStay
<1> QED BY <1>1, <1>2, <1>3, <1>4, <1>5, <1>6, <1>7, <1>8 DEF OrchNext

\* A process is where the run it serves is.
LEMMA DirInvariance == OwnProcess => (OrchSpec => [](OrchTypeOK /\ DirInv))
<1> SUFFICES ASSUME OwnProcess PROVE OrchSpec => [](OrchTypeOK /\ DirInv)
  OBVIOUS
<1>1. OrchInit => DirInv
  BY OrchAssumption DEF OrchInit, DirInv, Inside, Asked, Cwd
<1>2. OrchTypeOK /\ DirInv /\ [OrchNext]_orchVars => DirInv'
  BY DirInvStep
<1> QED BY <1>1, <1>2, OrchTypes, PTL DEF OrchSpec

\* With a process for each run, all steps of a run are executed in the
\* repository it was asked for, for any runs, repositories and failures.
THEOREM DirectoryIsOwn == OwnProcess => (OrchSpec => []OwnDirectory)
<1> SUFFICES ASSUME OwnProcess PROVE OrchSpec => []OwnDirectory
  OBVIOUS
<1>1. OrchTypeOK /\ DirInv => OwnDirectory
  BY DEF DirInv, OwnDirectory, Cwd
<1> QED BY <1>1, DirInvariance, PTL

-----------------------------------------------------------------------------
\* NetworkScan: a scan that ends with 0 found its hosts up.

\* What a host may be.
LEMMA HostStates ==
  {Down, [up |-> TRUE, open |-> {}], [up |-> TRUE, open |-> ScanPorts]}
    \subseteq [up : BOOLEAN, open : SUBSET ScanPorts]
<1>1. Down \in [up : BOOLEAN, open : SUBSET ScanPorts]
  BY DEF Down
<1>2. [up |-> TRUE, open |-> {}] \in [up : BOOLEAN, open : SUBSET ScanPorts]
  OBVIOUS
<1>3. [up |-> TRUE, open |-> ScanPorts] \in [up : BOOLEAN, open : SUBSET ScanPorts]
  OBVIOUS
<1> QED BY <1>1, <1>2, <1>3

\* The future of a host, one step on.
LEMMA ProbeSteps ==
  ASSUME ScanTypeOK, NEW a \in Addresses
  PROVE  /\ \A at \in {"ping", "done", "raised"} : [probe[a] EXCEPT !.at = at] \in ProbeState
         /\ probe[a].alive \in BOOLEAN /\ probe[a].open \in SUBSET ScanPorts
         /\ probe[a].left \in SUBSET ScanPorts
<1>1. probe[a] \in ProbeState
  BY DEF ScanTypeOK
<1> QED BY <1>1 DEF ProbeState

\* Every step of the scan keeps the types.
LEMMA ScanTypeStep == ScanTypeOK /\ [ScanNext]_scanVars => ScanTypeOK'
<1> SUFFICES ASSUME ScanTypeOK, [ScanNext]_scanVars PROVE ScanTypeOK'
  OBVIOUS
<1> USE ScanAssumption DEF ScanTypeOK
<1>1. CASE LoadConfig
  <2>1. scan' \in [at : {"config", "scan", "end"}, targets : SUBSET Addresses, critical : SUBSET Addresses]
    BY <1>1 DEF LoadConfig
  <2> QED BY <1>1, <2>1 DEF LoadConfig
<1>2. ASSUME NEW a \in Addresses, StartProbe(a) \/ ProbeRaises(a) PROVE ScanTypeOK'
  <2>1. PICK at \in {"ping", "raised"} : probe' = [probe EXCEPT ![a].at = at]
    BY <1>2 DEF StartProbe, ProbeRaises
  <2>2. probe' = [probe EXCEPT ![a] = [probe[a] EXCEPT !.at = at]]
    BY <2>1
  <2>3. probe' \in [Addresses -> ProbeState]
    BY <2>2, ProbeSteps
  <2> QED BY <1>2, <2>3 DEF StartProbe, ProbeRaises
<1>3. ASSUME NEW a \in Addresses, PingHost(a) PROVE ScanTypeOK'
  <2>1. PICK alive \in BOOLEAN :
          probe' = [probe EXCEPT ![a] = [at |-> IF alive THEN "ports" ELSE "done", alive |-> alive,
                                         open |-> probe[a].open, left |-> IF alive THEN ScanPorts ELSE {}]]
    BY <1>3, ZenonT(40) DEF PingHost
  <2>2. probe' \in [Addresses -> ProbeState]
    BY <2>1, ProbeSteps DEF ProbeState
  <2> QED BY <1>3, <2>2 DEF PingHost
<1>4. ASSUME NEW a \in Addresses, CheckPort(a) PROVE ScanTypeOK'
  <2>1. probe' \in [Addresses -> ProbeState]
    <3>1. CASE probe' = [probe EXCEPT ![a].at = "done"]
      BY <3>1, ProbeSteps
    <3>2. ASSUME NEW port \in probe[a].left, NEW open \in {{}, {port} \cap listening[a].open},
                 probe' = [probe EXCEPT ![a] = [at |-> "ports", alive |-> probe[a].alive,
                             open |-> probe[a].open \cup open, left |-> probe[a].left \ {port}]]
          PROVE  probe' \in [Addresses -> ProbeState]
      <4>1. open \in SUBSET ScanPorts
        OBVIOUS
      <4>2. [at |-> "ports", alive |-> probe[a].alive, open |-> probe[a].open \cup open,
             left |-> probe[a].left \ {port}] \in ProbeState
        BY <4>1, ProbeSteps DEF ProbeState
      <4> QED BY <3>2, <4>2
    <3> QED BY <1>4, <3>1, <3>2 DEF CheckPort
  <2> QED BY <1>4, <2>1 DEF CheckPort
<1>5. ASSUME NEW a \in Addresses, Collect(a) PROVE ScanTypeOK'
  <2>1. PICK alive \in BOOLEAN, open \in SUBSET ScanPorts, error \in BOOLEAN :
          Enter(a, Result(alive, open, error))
    BY <1>5 DEF Collect, ProbeState
  <2>2. /\ DOMAIN hostResults' = DOMAIN hostResults \cup {a}
        /\ \A b \in DOMAIN hostResults' :
             hostResults'[b] = IF b = a THEN Result(alive, open, error) ELSE hostResults[b]
    BY <2>1 DEF Enter
  <2>3. \A b \in DOMAIN hostResults' :
          hostResults'[b] \in [alive : BOOLEAN, open : SUBSET ScanPorts, error : BOOLEAN]
    BY <2>2 DEF Result
  <2>4. UNCHANGED <<listening, flaps, scan, probe, criticalDown, exit, lively>>
    BY <1>5 DEF Collect
  <2> QED BY <2>2, <2>3, <2>4
<1>6. CASE EndScan
  BY <1>6 DEF EndScan, ScanComplete
<1>7. ASSUME NEW a \in Addresses, Flap(a) PROVE ScanTypeOK'
  <2>1. PICK state \in {Down, [up |-> TRUE, open |-> {}], [up |-> TRUE, open |-> ScanPorts]} :
          listening' = [listening EXCEPT ![a] = state]
    BY <1>7 DEF Flap
  <2>2. state \in [up : BOOLEAN, open : SUBSET ScanPorts]
    BY HostStates
  <2>3. lively' \subseteq Addresses
    BY <1>7 DEF Flap
  <2> QED BY <1>7, <2>1, <2>2, <2>3 DEF Flap
<1>8. CASE UNCHANGED scanVars
  BY <1>8 DEF scanVars
<1> QED BY <1>1, <1>2, <1>3, <1>4, <1>5, <1>6, <1>7, <1>8 DEF ScanNext

\* The scan keeps its types.
THEOREM ScanTypes == ScanSpec => []ScanTypeOK
<1>1. ScanInit => ScanTypeOK
  <2> SUFFICES ASSUME ScanInit PROVE ScanTypeOK
    OBVIOUS
  <2>1. Waiting \in ProbeState
    BY DEF ProbeState, Waiting
  <2>2. listening \in [Addresses -> [up : BOOLEAN, open : SUBSET ScanPorts]]
    BY HostStates DEF ScanInit
  <2>3. DOMAIN hostResults = {} /\ criticalDown = {} /\ lively = {} /\ exit = "none" /\ flaps = 0
    BY DEF ScanInit
  <2>4. scan \in [at : {"config", "scan", "end"}, targets : SUBSET Addresses, critical : SUBSET Addresses]
    BY DEF ScanInit
  <2>5. probe \in [Addresses -> ProbeState]
    BY <2>1 DEF ScanInit
  <2> QED BY <2>2, <2>3, <2>4, <2>5, ScanAssumption DEF ScanTypeOK
<1> QED BY <1>1, ScanTypeStep, PTL DEF ScanSpec

\* No step lets a host answer that was not up.
LEMMA ScanInvStep == ScanTypeOK /\ ScanInv /\ [ScanNext]_scanVars => ScanInv'
<1> SUFFICES ASSUME ScanTypeOK, ScanInv, [ScanNext]_scanVars PROVE ScanInv'
  OBVIOUS
<1> USE ScanAssumption DEF ScanInv
<1>1. CASE LoadConfig
  <2>1. scan.at = "config" /\ scan'.at # "config"
        /\ UNCHANGED <<listening, probe, hostResults>> /\ lively' = {a \in Addresses : listening[a].up}
    BY <1>1 DEF LoadConfig, ScanTypeOK
  <2>2. exit' # "0"
    BY <1>1 DEF LoadConfig
  <2> QED BY <2>1, <2>2 DEF Waiting
<1>2. ASSUME NEW a \in Addresses, StartProbe(a) \/ ProbeRaises(a) PROVE ScanInv'
  <2>1. scan.at # "config"
    BY <1>2 DEF StartProbe, ProbeRaises, Waiting, ScanTypeOK
  <2>2. \A b \in Addresses : probe'[b].alive <=> probe[b].alive
    BY <1>2 DEF StartProbe, ProbeRaises, ScanTypeOK, ProbeState
  <2> QED BY <1>2, <2>1, <2>2 DEF StartProbe, ProbeRaises
<1>3. ASSUME NEW a \in Addresses, PingHost(a) PROVE ScanInv'
  <2>1. scan.at # "config"
    BY <1>3 DEF PingHost, Waiting
  <2>2. /\ probe'[a].alive => listening[a].up
        /\ \A b \in Addresses \ {a} : probe'[b] = probe[b]
    <3>1. PICK alive \in {FALSE, listening[a].up} :
            probe' = [probe EXCEPT ![a] = [at |-> IF alive THEN "ports" ELSE "done", alive |-> alive,
                                           open |-> probe[a].open, left |-> IF alive THEN ScanPorts ELSE {}]]
      BY <1>3 DEF PingHost
    <3>2. probe'[a].alive = alive
      BY <3>1 DEF ScanTypeOK
    <3>3. \A b \in Addresses \ {a} : probe'[b] = probe[b]
      BY <3>1 DEF ScanTypeOK
    <3> QED BY <3>2, <3>3
  <2> QED BY <1>3, <2>1, <2>2 DEF PingHost
<1>4. ASSUME NEW a \in Addresses, CheckPort(a) PROVE ScanInv'
  <2>1. scan.at # "config"
    BY <1>4 DEF CheckPort, Waiting
  <2>2. \A b \in Addresses : probe'[b].alive <=> probe[b].alive
    BY <1>4 DEF CheckPort, ScanTypeOK, ProbeState
  <2> QED BY <1>4, <2>1, <2>2 DEF CheckPort
<1>5. ASSUME NEW a \in Addresses, Collect(a) PROVE ScanInv'
  <2>1. PICK alive \in BOOLEAN, open \in SUBSET ScanPorts, error \in BOOLEAN :
          Enter(a, Result(alive, open, error)) /\ (alive => probe[a].alive)
    BY <1>5 DEF Collect, ScanTypeOK, ProbeState
  <2>2. /\ DOMAIN hostResults' = DOMAIN hostResults \cup {a}
        /\ hostResults'[a].alive = alive
        /\ \A b \in DOMAIN hostResults \ {a} : hostResults'[b] = hostResults[b]
    BY <2>1 DEF Enter, Result
  <2>3. scan.at = "scan" /\ UNCHANGED <<listening, scan, probe, exit, lively>>
    BY <1>5 DEF Collect
  <2> QED BY <2>1, <2>2, <2>3
<1>6. CASE EndScan
  <2>1. /\ scan.at = "scan" /\ scan'.at = "end" /\ scan'.critical = scan.critical
        /\ scan'.targets = scan.targets /\ scan.targets \subseteq DOMAIN hostResults
        /\ UNCHANGED <<listening, probe, hostResults, lively>>
    BY <1>6 DEF EndScan, ScanComplete, ScanTypeOK
  <2>2. exit' = "0" => \A a \in scan.critical \cap scan.targets : hostResults[a].alive
    BY <1>6, <2>1 DEF EndScan
  <2> QED BY <2>1, <2>2
<1>7. ASSUME NEW a \in Addresses, Flap(a) PROVE ScanInv'
  <2>1. lively \subseteq lively' /\ (listening'[a].up => a \in lively')
        /\ \A b \in Addresses \ {a} : listening'[b] = listening[b]
    BY <1>7 DEF Flap, ScanTypeOK
  <2> QED BY <1>7, <2>1 DEF Flap
<1>8. CASE UNCHANGED scanVars
  BY <1>8 DEF scanVars
<1> QED BY <1>1, <1>2, <1>3, <1>4, <1>5, <1>6, <1>7, <1>8 DEF ScanNext

\* The invariant of a scan holds in every state.
LEMMA ScanInvariance == ScanSpec => []ScanInv
<1>1. ScanInit => ScanInv
  BY DEF ScanInit, ScanInv, Waiting
<1> QED BY <1>1, ScanTypes, ScanInvStep, PTL DEF ScanSpec

\* Status 0 means that every critical target was up at some time of the scan,
\* for any networks, settings, workers and hosts that come and go.
THEOREM ZeroHolds == ScanSpec => []ZeroMeansUp
<1>1. ScanInv => ZeroMeansUp
  BY DEF ScanInv, ZeroMeansUp
<1> QED BY <1>1, ScanInvariance, PTL

-----------------------------------------------------------------------------
\* SecuritySentinel: every vulnerability the sources know of is reported.

\* What OSV answers about a version are vulnerabilities.
LEMMA CacheTypes ==
  ASSUME SentinelTypeOK, NEW asked, NEW outcome, CachePut(asked, outcome)
  PROVE  osvCache' \in [Packages \X PackageVersions -> [day : 0..scanDay, vulns : SUBSET Vulns]]
<1> USE DEF SentinelTypeOK
<1>1. NotCached \in [day : 0..scanDay, vulns : SUBSET Vulns]
  BY DEF NotCached, Never
<1>2. ASSUME NEW k \in Packages \X PackageVersions
      PROVE  [day |-> scanDay, vulns |-> Affected(k[1], k[2])] \in [day : 0..scanDay, vulns : SUBSET Vulns]
  <2>1. scanDay \in 0..scanDay
    OBVIOUS
  <2> QED BY <2>1 DEF Affected
<1> QED BY <1>1, <1>2 DEF CachePut

\* Every step keeps the types.
LEMMA SentinelTypeStep == SentinelTypeOK /\ [SentinelNext]_sentinelVars => SentinelTypeOK'
<1> SUFFICES ASSUME SentinelTypeOK, [SentinelNext]_sentinelVars PROVE SentinelTypeOK'
  OBVIOUS
<1> USE SentinelAssumption DEF SentinelTypeOK
<1>1. ASSUME NEW offline, NEW skipDeps, NEW skipCode, NEW skipDocker,
             SkillScan(offline, skipDeps, skipCode, skipDocker)
      PROVE  SentinelTypeOK'
  <2>1. PICK asked, outcome : RunFullScan("scan", asked, skipCode, skipDocker, outcome)
    BY <1>1 DEF SkillScan
  <2>2. osvCache' \in [Packages \X PackageVersions -> [day : 0..scanDay, vulns : SUBSET Vulns]]
    BY <2>1, CacheTypes DEF RunFullScan
  <2>3. lastScan'.call = "scan"
    BY <2>1 DEF RunFullScan
  <2> QED BY <2>1, <2>2, <2>3 DEF RunFullScan, world, project
<1>2. ASSUME NEW fmt \in {"json", "markdown", "text"}, ClawScan(fmt) PROVE SentinelTypeOK'
  <2>1. CASE fmt = "text"
    BY <1>2, <2>1 DEF ClawScan, world, project
  <2> QED BY <1>1, <1>2, <2>1 DEF ClawScan
<1>3. ASSUME NEW outcome, ApplyFix(outcome) PROVE SentinelTypeOK'
  <2>1. osvCache' \in [Packages \X PackageVersions -> [day : 0..scanDay, vulns : SUBSET Vulns]]
    BY <1>3, CacheTypes DEF ApplyFix
  <2>2. pinned' \in [Packages -> PackageVersions]
    <3>1. Unpinned \in PackageVersions
      BY DEF Unpinned, PackageVersions
    <3>2. \E fixed : pinned' = [p \in Packages |-> IF p \in fixed THEN Unpinned ELSE pinned[p]]
      <4> DEFINE vulns == ScanDependencies(Packages, outcome)
                 fixable == {p \in Packages : /\ compose /\ ~outcome.broken
                                              /\ PatchTargets(vulns, p) # {} /\ pinned[p] # Unpinned}
      <4>1. pinned' = [p \in Packages |-> IF p \in fixable THEN Unpinned ELSE pinned[p]]
        BY <1>3 DEF ApplyFix
      <4> HIDE DEF fixable
      <4> QED BY <4>1
    <3> QED BY <3>1, <3>2
  <2> QED BY <1>3, <2>1, <2>2 DEF ApplyFix, world
<1>4. ASSUME NEW v \in Vulns, Publish(v) PROVE SentinelTypeOK'
  BY <1>4 DEF Publish, project, NoScan
<1>5. CASE NextDay
  <2>1. scanDay' \in 1..ScanDays /\ 0..scanDay \subseteq 0..scanDay'
    BY <1>5 DEF NextDay
  <2>2. osvCache' \in [Packages \X PackageVersions -> [day : 0..scanDay', vulns : SUBSET Vulns]]
    BY <1>5, <2>1 DEF NextDay
  <2> QED BY <1>5, <2>1, <2>2 DEF NextDay, project, NoScan
<1>6. CASE EditCompose
  BY <1>6 DEF EditCompose, world, NoScan
<1>7. ASSUME NEW p \in Packages, NEW version \in PackageVersions \ {Unpinned}, Pin(p, version) PROVE SentinelTypeOK'
  BY <1>7 DEF Pin, world, NoScan
<1>8. CASE UNCHANGED sentinelVars
  BY <1>8 DEF sentinelVars
<1> QED BY <1>1, <1>2, <1>3, <1>4, <1>5, <1>6, <1>7, <1>8 DEF SentinelNext, ClawFix

\* The project, the cache and the answers keep their types.
THEOREM SentinelTypes == SentinelSpec => []SentinelTypeOK
<1>1. SentinelInit => SentinelTypeOK
  BY SentinelAssumption DEF SentinelInit, SentinelTypeOK, NotCached, NoScan, Never
<1> QED BY <1>1, SentinelTypeStep, PTL DEF SentinelSpec

\* Asking OSV leaves in the cache what was there, or what OSV knows now.
LEMMA CachePutSound ==
  ASSUME SentinelTypeOK, CacheSound, NEW asked, NEW outcome, CachePut(asked, outcome), UNCHANGED published
  PROVE  CacheSound'
<1> SUFFICES ASSUME NEW p \in Packages, NEW version \in PackageVersions, NEW v \in Affected(p, version)',
                    osvCache'[<<p, version>>].day # Never, published[v] < osvCache'[<<p, version>>].day
             PROVE  v \in osvCache'[<<p, version>>].vulns
  BY DEF CacheSound
<1>1. v \in Affected(p, version)
  BY DEF Affected
<1>2. <<p, version>> \in DOMAIN osvCache
  BY DEF SentinelTypeOK
<1>3. CASE osvCache'[<<p, version>>] = osvCache[<<p, version>>]
  BY <1>1, <1>3 DEF CacheSound
<1>4. CASE osvCache'[<<p, version>>] = [day |-> scanDay, vulns |-> Affected(p, version)]
  BY <1>1, <1>4
<1>5. CASE osvCache'[<<p, version>>] = NotCached
  BY <1>5 DEF NotCached
<1> QED BY <1>2, <1>3, <1>4, <1>5 DEF CachePut

\* Every step keeps the cache sound: OSV learns of a vulnerability today, and a
\* cached answer is of today at the latest.
LEMMA CacheSoundStep == SentinelTypeOK /\ CacheSound /\ [SentinelNext]_sentinelVars => CacheSound'
<1> SUFFICES ASSUME SentinelTypeOK, CacheSound, [SentinelNext]_sentinelVars PROVE CacheSound'
  OBVIOUS
<1>1. ASSUME NEW v \in Vulns, Publish(v) PROVE CacheSound'
  <2> SUFFICES ASSUME NEW p \in Packages, NEW version \in PackageVersions, NEW w \in Affected(p, version)',
                      osvCache[<<p, version>>].day # Never, published'[w] < osvCache[<<p, version>>].day
               PROVE  w \in osvCache[<<p, version>>].vulns
    BY <1>1 DEF Publish, CacheSound
  <2>1. osvCache[<<p, version>>].day \in 0..scanDay
    BY DEF SentinelTypeOK
  <2>2. published' = [published EXCEPT ![v] = scanDay] /\ scanDay \in Nat
    BY <1>1 DEF Publish, SentinelTypeOK
  <2>3. w \in Vulns /\ published \in [Vulns -> 0..scanDay]
    BY DEF Affected, SentinelTypeOK
  <2>4. w # v
    BY <2>1, <2>2, <2>3
  <2>5. w \in Affected(p, version) /\ published'[w] = published[w]
    BY <2>2, <2>3, <2>4 DEF Affected
  <2> QED BY <2>5 DEF CacheSound
<1>2. ASSUME UNCHANGED <<published, osvCache>> PROVE CacheSound'
  BY <1>2 DEF CacheSound, Affected
<1>3. ASSUME NEW asked, NEW outcome, CachePut(asked, outcome), UNCHANGED published PROVE CacheSound'
  BY <1>3, CachePutSound
<1>4. ASSUME NEW offline, NEW skipDeps, NEW skipCode, NEW skipDocker,
             SkillScan(offline, skipDeps, skipCode, skipDocker)
      PROVE  CacheSound'
  BY <1>3, <1>4 DEF SkillScan, RunFullScan, world
<1>5. CASE ClawFix
  BY <1>3, <1>5 DEF ClawFix, ApplyFix, world
<1>6. ASSUME NEW fmt, ClawScan(fmt) PROVE CacheSound'
  BY <1>2, <1>4, <1>6 DEF ClawScan, world
<1>7. ASSUME NextDay \/ EditCompose \/ (\E p \in Packages, version \in PackageVersions : Pin(p, version))
      PROVE  CacheSound'
  BY <1>2, <1>7 DEF NextDay, EditCompose, Pin, world
<1>8. CASE UNCHANGED sentinelVars
  BY <1>2, <1>8 DEF sentinelVars
<1> QED BY <1>1, <1>4, <1>5, <1>6, <1>7, <1>8 DEF SentinelNext

\* What the scan takes for a package's answer holds what OSV has known for longer than an
\* answer is cached, if the request and the write were done.
LEMMA QuerySound ==
  ASSUME SentinelTypeOK, CacheSound, NEW p \in Packages, NEW v \in Affected(p, pinned[p]),
         NEW outcome, p \notin outcome.lost \cup outcome.unwritten, published[v] + CacheAge < scanDay
  PROVE  v \in QueryOSV(p, outcome)
<1>1. pinned[p] \in PackageVersions /\ v \in Vulns
  BY DEF SentinelTypeOK, Affected
<1>2. published[v] \in Nat /\ scanDay \in Nat /\ CacheAge \in Nat /\ osvCache[<<p, pinned[p]>>].day \in Nat
  BY <1>1, SentinelAssumption DEF SentinelTypeOK
<1>3. ASSUME CacheGet(p) PROVE v \in osvCache[<<p, pinned[p]>>].vulns
  <2>1. osvCache[<<p, pinned[p]>>].day # Never /\ published[v] < osvCache[<<p, pinned[p]>>].day
    BY <1>2, <1>3 DEF CacheGet
  <2> QED BY <1>1, <2>1 DEF CacheSound
<1> QED BY <1>3 DEF QueryOSV

\* A scan that ends with a report names them, but for the packages whose request or whose
\* write failed, with the exit code that fails a build.
LEMMA ReportedStep ==
  SentinelTypeOK /\ CacheSound /\ KnownIsReported /\ [SentinelNext]_sentinelVars => KnownIsReported'
<1> SUFFICES ASSUME SentinelTypeOK, CacheSound, KnownIsReported, [SentinelNext]_sentinelVars PROVE KnownIsReported'
  OBVIOUS
<1>1. ASSUME NEW offline \in BOOLEAN, NEW skipDeps \in BOOLEAN, NEW skipCode \in BOOLEAN, NEW skipDocker \in BOOLEAN,
             SkillScan(offline, skipDeps, skipCode, skipDocker)
      PROVE  KnownIsReported'
  <2> DEFINE asked == IF offline \/ skipDeps THEN {} ELSE Packages
             code == IF skipCode THEN {} ELSE CodeFindings
             docker == IF skipDocker THEN {} ELSE DockerFindings
  <2>1. PICK outcome \in RequestOutcomes(asked) : RunFullScan("scan", asked, skipCode, skipDocker, outcome)
    BY <1>1 DEF SkillScan
  <2> HIDE DEF asked
  <2>2. /\ lastScan'.asked = asked /\ lastScan'.outcome = outcome /\ asked \subseteq Packages
        /\ lastScan'.vulns = ScanDependencies(asked, outcome)
    BY <2>1 DEF RunFullScan, asked
  <2>3. ~lastScan'.raised => lastScan'.exit = ExitCode(Found(ScanDependencies(asked, outcome), code, docker))
    BY <2>1 DEF RunFullScan
  <2> SUFFICES ASSUME NEW p \in asked \ (outcome.lost \cup outcome.unwritten), NEW v \in Affected(p, pinned[p])',
                      (published[v] + CacheAge < scanDay)', ~lastScan'.raised
               PROVE  v \in lastScan'.vulns /\ (Rating[v] \in {"CRITICAL", "HIGH"} => lastScan'.exit = 2)
    BY <2>2 DEF KnownIsReported, Reports
  <2>4. p \in Packages /\ v \in Affected(p, pinned[p]) /\ published[v] + CacheAge < scanDay
    BY <2>1, <2>2 DEF RunFullScan, world, project, Affected
  <2>5. v \in QueryOSV(p, outcome)
    BY <2>4, QuerySound
  <2>6. v \in ScanDependencies(asked, outcome)
    BY <2>5 DEF ScanDependencies
  <2>7. ASSUME Rating[v] \in {"CRITICAL", "HIGH"} PROVE lastScan'.exit = 2
    <3>1. Rating[v] \in Found(ScanDependencies(asked, outcome), code, docker)
      BY <2>6 DEF Found
    <3>2. ExitCode(Found(ScanDependencies(asked, outcome), code, docker)) = 2
      BY <2>7, <3>1 DEF ExitCode
    <3> QED BY <2>3, <3>2
  <2> QED BY <2>2, <2>6, <2>7
<1>2. ASSUME NEW fmt \in {"json", "markdown", "text"}, ClawScan(fmt) PROVE KnownIsReported'
  <2>1. CASE fmt = "text"
    BY <1>2, <2>1 DEF ClawScan, KnownIsReported
  <2> QED BY <1>1, <1>2, <2>1 DEF ClawScan
<1>3. ASSUME lastScan'.call # "scan" PROVE KnownIsReported'
  BY <1>3 DEF KnownIsReported
<1>4. CASE ClawFix
  BY <1>3, <1>4 DEF ClawFix, ApplyFix
<1>5. ASSUME lastScan' = NoScan PROVE KnownIsReported'
  BY <1>3, <1>5 DEF NoScan
<1>6. CASE UNCHANGED sentinelVars
  BY <1>6 DEF sentinelVars, KnownIsReported, Reports, Affected
<1> QED BY <1>1, <1>2, <1>4, <1>5, <1>6 DEF SentinelNext, Publish, NextDay, EditCompose, Pin

\* The cache is sound in every state, and what is known is reported.
LEMMA SentinelInvariance == SentinelSpec => [](CacheSound /\ KnownIsReported)
<1>1. SentinelInit => CacheSound /\ KnownIsReported
  BY DEF SentinelInit, CacheSound, Affected, KnownIsReported, NoScan
<1>2. SentinelTypeOK /\ CacheSound /\ KnownIsReported /\ [SentinelNext]_sentinelVars => (CacheSound /\ KnownIsReported)'
  BY CacheSoundStep, ReportedStep
<1> QED BY <1>1, <1>2, SentinelTypes, PTL DEF SentinelSpec

\* KnownIsReported: no answer of the cache hides for longer than its age what OSV knows of a
\* dependency, and each is reported unless the request, or the write of its answer, failed.
THEOREM ScansReport == SentinelSpec => []KnownIsReported
  BY SentinelInvariance, PTL

-----------------------------------------------------------------------------
\* QAGuardian: a report says what the files held.

\* The twelve checks, and which of them read the files.
LEMMA TheChecks ==
  /\ Len(Checks) = 12 /\ DOMAIN Checks = 1..12
  /\ \A i \in 1..12 : Checks[i] \in Smells \cup ProjectChecks
  /\ \A check \in Smells : \E i \in 1..12 : check = Checks[i]
  /\ Smells \cap ProjectChecks = {} /\ OnTree \subseteq Smells
<1>1. Len(Checks) = 12 /\ DOMAIN Checks = 1..12
  BY DEF Checks
<1>2. Smells = {Checks[i] : i \in 1..12} \ ProjectChecks
  BY <1>1 DEF Smells, ToSet
<1>3. Checks[7] = "duplicate_function" /\ Checks[10] = "unused_import"
  BY DEF Checks
<1>4. "duplicate_function" \in Smells /\ "unused_import" \in Smells
  BY <1>2, <1>3 DEF ProjectChecks
<1> QED BY <1>1, <1>2, <1>4 DEF OnTree

\* The states of a run, and the next one of a check.
LEMMA CheckTypes ==
  ASSUME QATypeOK, QAInv, NextCheck, qa.at \in {"list", "read"}
  PROVE  qa' \in [at : {"list", "report"}, check : 1 .. Len(Checks) + 1, unread : SUBSET PyFiles]
<1>1. qa.check \in 1..12 /\ qa.check + 1 \in 1..13
  BY TheChecks DEF QAInv
<1> QED BY <1>1, TheChecks DEF NextCheck

\* After a check comes the next, or the report.
LEMMA AfterCheck ==
  ASSUME QATypeOK, QAInv, NextCheck, qa.at \in {"list", "read"}
  PROVE  /\ qa'.at \in {"list", "report"} /\ (qa'.at = "list" => qa'.check \in 1 .. Len(Checks))
         /\ (qa'.at = "report" => qa'.check = Len(Checks) + 1)
<1>1. qa.check \in 1..12
  BY TheChecks DEF QAInv
<1> QED BY <1>1, TheChecks DEF NextCheck

\* Every step keeps the types; that a check has a next one takes the invariant.
LEMMA QATypeStep == QATypeOK /\ QAInv /\ [QANext]_qaVars => QATypeOK'
<1> SUFFICES ASSUME QATypeOK, QAInv, [QANext]_qaVars PROVE QATypeOK'
  OBVIOUS
<1> USE QAAssumption DEF QATypeOK
<1> DEFINE Run == [at : {"idle", "list", "read", "report", "save", "history"}, check : 0 .. Len(Checks) + 1,
                   unread : SUBSET PyFiles]
<1>a. [at : {"list", "report"}, check : 1 .. Len(Checks) + 1, unread : SUBSET PyFiles] \subseteq Run
  BY TheChecks
<1>1. CASE StartRun
  <2>1. qaRuns' \in 0..MaxRuns /\ saved \in [latest : 0..qaRuns', history : 0..qaRuns']
    BY <1>1 DEF StartRun, BeginChecks
  <2>2. qa' \in Run
    BY <1>1, TheChecks DEF StartRun, BeginChecks
  <2>3. answer' \in [findings : SUBSET QAFindings, clean : BOOLEAN]
    BY <1>1 DEF StartRun, BeginChecks, NoAnswer
  <2>4. seen' \in [PyFiles -> SUBSET (FileContents \cup {Absent})]
    BY <1>1 DEF StartRun, BeginChecks
  <2> QED BY <1>1, <2>1, <2>2, <2>3, <2>4 DEF StartRun, BeginChecks, QAFindings
<1>2. CASE ListFiles
  <2>1. qa' \in Run
    BY <1>2 DEF ListFiles
  <2> QED BY <1>2, <2>1 DEF ListFiles, QAFindings
<1>3. ASSUME NEW f \in PyFiles, ReadFile(f) PROVE QATypeOK'
  <2> DEFINE check == Checks[qa.check]
  <2>1. CASE NextCheck /\ cutShort' = cutShort \cup {check} /\ UNCHANGED findings /\ check \in OnTree
    <3>1. qa' \in Run
      BY <1>3, <2>1, <1>a, CheckTypes DEF ReadFile
    <3> QED BY <1>3, <2>1, <3>1 DEF ReadFile, QAFindings
  <2>2. CASE /\ qa' = [qa EXCEPT !.unread = @ \ {f}] /\ UNCHANGED cutShort
             /\ findings' = findings \/ (findings' = findings \cup {<<check, f>>} /\ source[f] # Absent /\ check \in source[f].smells)
    <3>1. qa' \in Run
      BY <2>2
    <3>2. findings' \subseteq QAFindings
      BY <2>2 DEF QAFindings
    <3> QED BY <1>3, <2>2, <3>1, <3>2 DEF ReadFile, QAFindings
  <2> QED BY <1>3, <2>1, <2>2 DEF ReadFile
<1>4. CASE EndCheck
  <2>1. qa' \in Run
    BY <1>4, <1>a, CheckTypes DEF EndCheck
  <2> QED BY <1>4, <2>1 DEF EndCheck, QAFindings
<1>5. CASE ProjectCheck
  <2>1. qa' \in Run
    BY <1>5, <1>a, CheckTypes DEF ProjectCheck
  <2>2. findings' \subseteq QAFindings
    BY <1>5 DEF ProjectCheck, QAFindings
  <2> QED BY <1>5, <2>1, <2>2 DEF ProjectCheck, QAFindings
<1>6. CASE MakeReport
  <2>1. answer' \in [findings : SUBSET QAFindings, clean : BOOLEAN]
    BY <1>6 DEF MakeReport, IsClean
  <2>2. qa' \in Run
    BY <1>6 DEF MakeReport
  <2> QED BY <1>6, <2>1, <2>2 DEF MakeReport, QAFindings
<1>7. CASE SaveQA
  <2>1. qa' \in Run
    BY <1>7 DEF SaveQA
  <2>2. saved' \in [latest : 0..qaRuns, history : 0..qaRuns]
    BY <1>7 DEF SaveQA
  <2> QED BY <1>7, <2>1, <2>2 DEF SaveQA, QAFindings
<1>8. ASSUME NEW f \in PyFiles, EditFile(f) PROVE QATypeOK'
  <2>1. PICK content \in FileContents \cup {Absent} :
          source' = [source EXCEPT ![f] = content] /\ seen' = [seen EXCEPT ![f] = @ \cup {content}]
    BY <1>8 DEF EditFile
  <2>2. edits' \in 0..MaxEdits
    BY <1>8 DEF EditFile
  <2> QED BY <1>8, <2>1, <2>2 DEF EditFile, QAFindings
<1>9. CASE UNCHANGED qaVars
  BY <1>9 DEF qaVars, QAFindings
<1> QED BY <1>1, <1>2, <1>3, <1>4, <1>5, <1>6, <1>7, <1>8, <1>9 DEF QANext

\* What the findings of a run are, kept by a step that ends a check, or nothing,
\* for one file and one check.
LEMMA FindingsKept ==
  ASSUME QATypeOK, QAInv, qa.at # "idle", UNCHANGED seen, findings \subseteq findings', cutShort \subseteq cutShort',
         NEW i \in 1 .. Len(Checks), NEW f \in PyFiles,
         Checks[i] \in Smells \ cutShort', OverFor(i, f), \A content \in seen[f] : Reported(Checks[i], content)
  PROVE  <<Checks[i], f>> \in findings'
BY DEF QAInv

\* Reading a file adds to the findings what it holds now, and nothing else.
LEMMA ReadFinds ==
  ASSUME QATypeOK, QAInv, NEW f \in PyFiles, ReadFile(f)
  PROVE  /\ qa.check \in 1 .. Len(Checks) /\ Checks[qa.check] \in Smells \cup ProjectChecks
         /\ source[f] \in seen[f] /\ seen' = seen /\ source' = source /\ answer' = answer
         /\ findings \subseteq findings' /\ cutShort \subseteq cutShort'
         /\ \A x \in findings' : x \in findings \/ (x = <<Checks[qa.check], f>> /\ Reported(Checks[qa.check], source[f]))
         /\ \/ NextCheck /\ Checks[qa.check] \in cutShort'
            \/ /\ qa' = [qa EXCEPT !.unread = qa.unread \ {f}]
               /\ Reported(Checks[qa.check], source[f]) => <<Checks[qa.check], f>> \in findings'
<1>1. qa.check \in 1 .. Len(Checks) /\ source[f] \in seen[f]
  BY DEF QAInv, ReadFile
<1>2. Checks[qa.check] \in Smells \cup ProjectChecks
  BY <1>1, TheChecks
<1>3. CASE NextCheck /\ cutShort' = cutShort \cup {Checks[qa.check]} /\ UNCHANGED findings
  BY <1>1, <1>2, <1>3 DEF ReadFile
<1>4. CASE ~(NextCheck /\ cutShort' = cutShort \cup {Checks[qa.check]} /\ UNCHANGED findings)
  BY <1>1, <1>2, <1>4 DEF ReadFile, Reported
<1> QED BY <1>3, <1>4

\* The parts of the invariant, one after the other, hold after each step.
LEMMA QAInvStep == QATypeOK /\ QAInv /\ [QANext]_qaVars => QAInv'
<1> SUFFICES ASSUME QATypeOK, QAInv, [QANext]_qaVars PROVE QAInv'
  OBVIOUS
<1> DEFINE Sound == \A check \in Smells, f \in PyFiles :
             <<check, f>> \in findings => \E content \in seen[f] : Reported(check, content)
           Complete == \A i \in 1 .. Len(Checks), f \in PyFiles :
             Checks[i] \in Smells \ cutShort /\ OverFor(i, f) /\ (\A content \in seen[f] : Reported(Checks[i], content))
               => <<Checks[i], f>> \in findings
<1>a. Sound /\ (qa.at # "idle" => Complete)
  BY DEF QAInv
<1>b. \A i, f : OverFor(i, f)' <=> i < qa'.check \/ (i = qa'.check /\ qa'.at = "read" /\ f \notin qa'.unread)
  BY DEF OverFor
<1>1. CASE StartRun
  <2>1. qa' = [at |-> "list", check |-> 1, unread |-> {}] /\ findings' = {} /\ source' = source
        /\ seen' = [f \in PyFiles |-> {source[f]}]
    BY <1>1 DEF StartRun, BeginChecks
  <2>2. \A i \in 1 .. Len(Checks), f \in PyFiles : ~OverFor(i, f)'
    BY <2>1, <1>b, TheChecks
  <2> QED BY <2>1, <2>2, TheChecks DEF QAInv
<1>2. CASE ListFiles
  <2>1. /\ qa' = [qa EXCEPT !.at = "read", !.unread = {f \in PyFiles : source[f] # Absent}] /\ qa.at = "list"
        /\ UNCHANGED <<source, findings, answer, seen, cutShort>>
    BY <1>2 DEF ListFiles
  <2>2. qa' = [at |-> "read", check |-> qa.check, unread |-> {f \in PyFiles : source[f] # Absent}]
    BY <2>1 DEF QATypeOK
  <2>3. ASSUME NEW i \in 1 .. Len(Checks), NEW f \in PyFiles, Checks[i] \in Smells \ cutShort', OverFor(i, f)',
               \A content \in seen'[f] : Reported(Checks[i], content)
        PROVE  <<Checks[i], f>> \in findings'
    <3>1. source[f] # Absent
      BY <2>1, <2>3 DEF QAInv, Reported
    <3>2. i < qa.check
      BY <2>2, <2>3, <3>1, <1>b
    <3> QED BY <2>1, <2>3, <3>2 DEF QAInv, OverFor
  <2> QED BY <2>1, <2>2, <2>3 DEF QAInv, Reported
<1>3. ASSUME NEW g \in PyFiles, ReadFile(g) PROVE QAInv'
  <2>1. qa.at = "read"
    BY <1>3 DEF ReadFile
  <2>2. QATypeOK /\ QAInv
    OBVIOUS
  <2>3. Sound'
    <3> SUFFICES ASSUME NEW check \in Smells, NEW f \in PyFiles, <<check, f>> \in findings'
                 PROVE  \E content \in seen[f] : Reported(check, content)
      BY <1>3, ReadFinds DEF Reported
    <3>1. <<check, f>> \in findings \/ (<<check, f>> = <<Checks[qa.check], g>> /\ Reported(check, source[g]) /\ source[g] \in seen[g])
      BY <1>3, ReadFinds
    <3> QED BY <3>1, <1>a
  <2>4. ASSUME NEW i \in 1 .. Len(Checks), NEW f \in PyFiles, Checks[i] \in Smells \ cutShort', OverFor(i, f)',
               \A content \in seen'[f] : Reported(Checks[i], content)
        PROVE  <<Checks[i], f>> \in findings'
    <3>1. CASE OverFor(i, f)
      BY <1>3, <2>1, <2>4, <3>1, ReadFinds, FindingsKept DEF Reported
    <3>2. CASE ~OverFor(i, f) /\ NextCheck /\ Checks[qa.check] \in cutShort'
      <4>1. i = qa.check
        <5>1. qa'.check = qa.check + 1 /\ qa'.at # "read"
          BY <3>2 DEF NextCheck
        <5>2. i < qa.check + 1
          BY <1>b, <2>4, <5>1
        <5>3. qa.check \in Nat /\ i \in Nat
          <6>1. qa.check \in 1 .. Len(Checks)
            BY <1>3, ReadFinds
          <6> QED BY <6>1, TheChecks
        <5>4. ~(i < qa.check)
          BY <3>2 DEF OverFor
        <5> QED BY <5>2, <5>3, <5>4
      <4> QED BY <1>3, <2>4, <4>1, ReadFinds, <3>2
    <3>3. CASE ~OverFor(i, f) /\ qa' = [qa EXCEPT !.unread = qa.unread \ {g}]
      <4>1. qa' = [at |-> "read", check |-> qa.check, unread |-> qa.unread \ {g}]
        BY <2>1, <3>3 DEF QATypeOK
      <4>2. i = qa.check /\ f = g
        BY <1>b, <2>1, <2>4, <3>3, <4>1 DEF OverFor
      <4>3. Reported(Checks[i], source[g])
        BY <1>3, <2>4, <4>2, ReadFinds DEF Reported
      <4> QED BY <1>3, <4>2, <4>3, ReadFinds, <4>1, <2>4
    <3> QED BY <1>3, <3>1, <3>2, <3>3, ReadFinds
  <2>5. /\ qa'.at \in {"list", "read"} => qa'.check \in 1 .. Len(Checks)
        /\ qa'.at = "report" => qa'.check = Len(Checks) + 1
        /\ qa'.at \notin {"save", "history"}
    <3>1. CASE NextCheck
      BY <2>1, <3>1, AfterCheck
    <3>2. CASE qa' = [qa EXCEPT !.unread = qa.unread \ {g}]
      BY <1>3, <2>1, <3>2, ReadFinds DEF QATypeOK
    <3> QED BY <1>3, <3>1, <3>2, ReadFinds
  <2>6. \A f \in PyFiles : source'[f] \in seen'[f]
    BY <1>3, <2>1, ReadFinds DEF QAInv
  <2> QED BY <2>3, <2>4, <2>5, <2>6 DEF QAInv, Reported
<1>4. ASSUME NextCheck, qa.at \in {"list", "read"}, UNCHANGED <<source, seen, cutShort>>,
             findings \subseteq findings', Sound',
             \A i \in 1 .. Len(Checks), f \in PyFiles :
               i = qa.check /\ Checks[i] \in Smells => OverFor(i, f) \/ ~Reported(Checks[i], source[f])
      PROVE  QAInv'
  <2>1. ASSUME NEW i \in 1 .. Len(Checks), NEW f \in PyFiles, Checks[i] \in Smells \ cutShort', OverFor(i, f)',
               \A content \in seen'[f] : Reported(Checks[i], content)
        PROVE  <<Checks[i], f>> \in findings'
    <3>1. i <= qa.check
      BY <1>4, <1>b, <2>1, TheChecks DEF NextCheck, QAInv
    <3>2. source[f] \in seen[f]
      BY <1>4 DEF QAInv
    <3>3. OverFor(i, f)
      BY <1>4, <2>1, <3>1, <3>2, TheChecks DEF OverFor, QAInv, Reported
    <3> QED BY <1>4, <2>1, <3>3, FindingsKept DEF Reported
  <2>2. /\ qa'.at \in {"list", "read"} => qa'.check \in 1 .. Len(Checks)
        /\ qa'.at = "report" => qa'.check = Len(Checks) + 1
        /\ qa'.at \notin {"save", "history"}
    BY <1>4, AfterCheck
  <2>3. \A f \in PyFiles : source'[f] \in seen'[f]
    BY <1>4 DEF QAInv
  <2> QED BY <1>4, <2>1, <2>2, <2>3 DEF QAInv, Reported
<1>5. CASE EndCheck
  <2>1. /\ NextCheck /\ qa.at = "read" /\ qa.unread = {} /\ UNCHANGED <<source, findings, seen, cutShort>>
    BY <1>5 DEF EndCheck
  <2>2. Sound'
    BY <1>a, <2>1 DEF Reported
  <2> QED BY <1>4, <2>1, <2>2 DEF OverFor
<1>6. CASE ProjectCheck
  <2>1. /\ NextCheck /\ qa.at = "list" /\ Checks[qa.check] \in ProjectChecks /\ findings \subseteq findings'
        /\ UNCHANGED <<source, seen, cutShort>>
        /\ \A x \in findings' : x \in findings \/ \E outcome : x = <<Checks[qa.check], outcome>>
    BY <1>6 DEF ProjectCheck
  <2>2. Sound'
    <3> SUFFICES ASSUME NEW check \in Smells, NEW f \in PyFiles, <<check, f>> \in findings'
                 PROVE  \E content \in seen[f] : Reported(check, content)
      BY <2>1 DEF Reported
    <3>1. check # Checks[qa.check]
      BY <2>1, TheChecks
    <3>2. <<check, f>> \in findings
      BY <2>1, <3>1
    <3> QED BY <1>a, <3>2
  <2>3. \A i : i = qa.check => Checks[i] \notin Smells
    BY <2>1, TheChecks
  <2> QED BY <1>4, <2>1, <2>2, <2>3
<1>7. ASSUME qa.at # "idle", UNCHANGED <<source, findings, seen, cutShort>>, qa'.check = qa.check,
             qa'.at = "idle" \/ (/\ qa.at \in {"report", "save", "history"} /\ qa'.at \in {"save", "history"}
                                 /\ answer'.findings = findings)
      PROVE  QAInv'
  <2>1. Sound'
    BY <1>a, <1>7 DEF Reported
  <2>2. CASE qa'.at = "idle"
    BY <2>1, <2>2 DEF QAInv, Reported
  <2>3. CASE qa'.at # "idle"
    <3>1. Complete'
      BY <1>a, <1>b, <1>7, <2>3 DEF OverFor, Reported
    <3> QED BY <1>7, <2>1, <2>3, <3>1 DEF QAInv, Reported
  <2> QED BY <2>2, <2>3
<1>8. CASE MakeReport
  BY <1>7, <1>8 DEF MakeReport, QATypeOK
<1>9. CASE SaveQA
  BY <1>7, <1>9 DEF SaveQA, QATypeOK, QAInv
<1>10. ASSUME NEW g \in PyFiles, EditFile(g) PROVE QAInv'
  <2>1. PICK content \in FileContents \cup {Absent} :
          source' = [source EXCEPT ![g] = content] /\ seen' = [seen EXCEPT ![g] = @ \cup {content}]
    BY <1>10 DEF EditFile
  <2>2. qa' = qa /\ findings' = findings /\ answer' = answer /\ cutShort' = cutShort
    BY <1>10 DEF EditFile
  <2>3. \A f \in PyFiles : seen[f] \subseteq seen'[f] /\ (source[f] \in seen[f] => source'[f] \in seen'[f])
    BY <2>1 DEF QATypeOK
  <2>4. Sound'
    BY <1>a, <2>2, <2>3 DEF Reported
  <2>5. qa.at # "idle" => Complete'
    BY <1>a, <1>b, <2>2, <2>3 DEF OverFor, Reported
  <2> QED BY <2>2, <2>3, <2>4, <2>5 DEF QAInv, Reported
<1>11. CASE UNCHANGED qaVars
  <2>1. Sound' /\ (qa'.at # "idle" => Complete')
    BY <1>a, <1>b, <1>11 DEF qaVars, OverFor, Reported
  <2> QED BY <1>11, <2>1 DEF qaVars, QAInv, Reported
<1> QED BY <1>1, <1>2, <1>3, <1>5, <1>6, <1>8, <1>9, <1>10, <1>11 DEF QANext

\* What holds of a run at every step.
LEMMA QAInvariance == QASpec => [](QATypeOK /\ QAInv)
<1>1. QAInit => QATypeOK /\ QAInv
  <2> SUFFICES ASSUME QAInit PROVE QATypeOK /\ QAInv
    OBVIOUS
  <2>1. qa \in [at : {"idle", "list", "read", "report", "save", "history"}, check : 0 .. Len(Checks) + 1,
               unread : SUBSET PyFiles]
    BY TheChecks DEF QAInit
  <2>2. QATypeOK
    BY <2>1, QAAssumption DEF QAInit, QATypeOK, NoAnswer
  <2> QED BY <2>2 DEF QAInit, QAInv
<1> QED BY <1>1, QATypeStep, QAInvStep, PTL DEF QASpec

\* The files, the run, its findings and its report keep their types.
THEOREM QATypes == QASpec => []QATypeOK
BY QAInvariance, PTL

\* ReportTrue: the report of a run misses no smell that was there throughout,
\* and names none that was not there at all.
THEOREM ReportsAreTrue == QASpec => []ReportTrue
<1>1. QATypeOK /\ QAInv => ReportTrue
  <2> SUFFICES ASSUME QATypeOK, QAInv, qa.at \in {"save", "history"}, NEW check \in Smells, NEW f \in PyFiles
               PROVE  /\ (\A content \in seen[f] : Reported(check, content)) /\ check \notin cutShort
                           => <<check, f>> \in answer.findings
                      /\ <<check, f>> \in answer.findings => \E content \in seen[f] : Reported(check, content)
    BY DEF ReportTrue
  <2>1. PICK i \in 1 .. Len(Checks) : check = Checks[i]
    BY TheChecks
  <2>2. OverFor(i, f)
    BY TheChecks DEF QAInv, OverFor
  <2> QED BY <2>1, <2>2 DEF QAInv
<1> QED BY <1>1, QAInvariance, PTL

-----------------------------------------------------------------------------
\* LLMProviders: a chain hands out a provider that serves.

\* A set of numbers that has a member has a least one.
LEMMA LeastExists ==
  ASSUME NEW S \in SUBSET Nat, S # {}
  PROVE  \E m \in S : \A x \in S : m <= x
<1>1. IsWellFoundedOn(OpToRel(<, Nat), Nat)
  BY NatLessThanWellFounded, Zenon
<1>2. PICK m \in S : \A x \in S : <<x, m>> \notin OpToRel(<, Nat)
  BY <1>1, WFMin, Zenon
<1>3. ASSUME NEW x \in S PROVE ~(x < m)
  BY <1>2 DEF OpToRel
<1>4. \A x \in S : m <= x
  BY <1>3
<1> QED BY <1>4

\* list.remove: the others stay, in their order.
LEMMA RemovedFirst ==
  ASSUME NEW T, NEW s \in Seq(T), NEW e, Contains(s, e)
  PROVE  /\ RemoveFirst(s, e) \in Seq(T) /\ Len(RemoveFirst(s, e)) = Len(s) - 1
         /\ ToSet(s) \ {e} \subseteq ToSet(RemoveFirst(s, e))
<1> DEFINE I == {i \in 1..Len(s) : s[i] = e}
           k == Min(I)
           r == SubSeq(s, 1, k - 1) \o SubSeq(s, k + 1, Len(s))
<1>1. I # {} /\ I \in SUBSET Nat
  BY DEF Contains
<1>2. k \in I
  BY <1>1, LeastExists DEF Min
<1>3. RemoveFirst(s, e) = r
  BY <1>1 DEF RemoveFirst, SelectInSeq, Contains, RemoveAt
<1>4. k \in 1..Len(s) /\ s[k] = e
  BY <1>2
<1> HIDE DEF k, I
<1> DEFINE A == SubSeq(s, 1, k - 1)
           B == SubSeq(s, k + 1, Len(s))
<1>5. A \in Seq(T) /\ Len(A) = k - 1 /\ \A i \in 1..(k - 1) : A[i] = s[i]
  <2>1. 1 \in 1..(Len(s) + 1) /\ k - 1 \in 0..Len(s)
    BY <1>4
  <2> QED BY <1>4, <2>1, SubSeqProperties
<1>6. B \in Seq(T) /\ Len(B) = Len(s) - k /\ \A i \in 1..(Len(s) - k) : B[i] = s[k + i]
  <2>1. k + 1 \in 1..(Len(s) + 1) /\ Len(s) \in 0..Len(s)
    BY <1>4
  <2> QED BY <1>4, <2>1, SubSeqProperties
<1> HIDE DEF A, B
<1>7. r = A \o B
  BY DEF A, B
<1> HIDE DEF r
<1>8. r \in Seq(T) /\ Len(r) = Len(s) - 1
  BY <1>4, <1>5, <1>6, <1>7
<1>9. ASSUME NEW x \in ToSet(s), x # e PROVE x \in ToSet(r)
  <2>1. PICK i \in 1..Len(s) : x = s[i]
    BY <1>9 DEF ToSet
  <2>2. CASE i < k
    <3>1. r[i] = s[i] /\ i \in DOMAIN r
      BY <1>4, <1>5, <1>6, <1>7, <1>8, <2>2
    <3> QED BY <2>1, <3>1 DEF ToSet
  <2>3. CASE i > k
    <3>1. i - 1 \in DOMAIN r /\ r[i - 1] = B[i - k] /\ B[i - k] = s[i]
      <4>1. i - k \in 1..(Len(s) - k) /\ k + (i - k) = i /\ i - 1 \in 1..Len(r) /\ i - 1 > Len(A) /\ i - 1 - Len(A) = i - k
        BY <1>4, <1>5, <1>8, <2>3, SMTT(30)
      <4>2. B[i - k] = s[i]
        BY <1>6, <4>1
      <4>3. r[i - 1] = B[i - 1 - Len(A)]
        BY <1>5, <1>6, <1>7, <1>8, <4>1, ConcatProperties
      <4> QED BY <4>1, <4>2, <4>3, <1>8
    <3> QED BY <2>1, <3>1 DEF ToSet
  <2> QED BY <1>4, <1>9, <2>1, <2>2, <2>3
<1> QED BY <1>3, <1>8, <1>9

\* A chain is a sequence of at most MaxChain names.
LEMMA ChainsAreSequences == Chains = {s \in Seq(ProviderNames) : Len(s) <= MaxChain}
<1>1. ASSUME NEW s \in Chains PROVE s \in Seq(ProviderNames) /\ Len(s) <= MaxChain
  <2>1. PICK n \in 0..MaxChain : s \in [1..n -> ProviderNames]
    BY DEF Chains
  <2>2. s \in Seq(ProviderNames) /\ Len(s) = n
    BY <2>1, ProviderAssumption, SeqDef
  <2> QED BY <2>2, ProviderAssumption
<1>2. ASSUME NEW s \in Seq(ProviderNames), Len(s) <= MaxChain PROVE s \in Chains
  <2>1. s \in [1..Len(s) -> ProviderNames] /\ Len(s) \in 0..MaxChain
    BY <1>2, ProviderAssumption
  <2> QED BY <2>1 DEF Chains
<1> QED BY <1>1, <1>2

\* Every change of the registry keeps its types, and every provider in the chain.
LEMMA RegistryStep ==
  ASSUME LLMTypeOK, LLMInv, NEW n \in ProviderNames, Add(n) \/ RemoveName(n)
  PROVE  /\ chain' \in Chains /\ registered' \subseteq ProviderNames /\ preferred' \in registered' \cup {NoProvider}
         /\ registered' \subseteq ToSet(chain')
<1>1. chain \in Seq(ProviderNames) /\ Len(chain) <= MaxChain
  BY ChainsAreSequences DEF LLMTypeOK
<1>2. CASE Add(n)
  <2>1. chain' \in Seq(ProviderNames) /\ Len(chain') <= MaxChain
    BY <1>1, <1>2 DEF Add
  <2>2. CASE Contains(chain, n)
    <3>1. n \in ToSet(chain)
      BY <1>1, <2>2 DEF Contains, ToSet
    <3> QED BY <1>2, <2>1, <2>2, <3>1, ChainsAreSequences DEF Add, LLMTypeOK, LLMInv
  <2>3. CASE chain' = Append(chain, n)
    <3>1. \A i \in 1..Len(chain) : chain'[i] = chain[i] /\ i \in DOMAIN chain'
      BY <1>1, <2>3
    <3>2. chain'[Len(chain) + 1] = n /\ Len(chain) + 1 \in DOMAIN chain'
      BY <1>1, <2>3
    <3>3. ToSet(chain) \cup {n} \subseteq ToSet(chain')
      BY <1>1, <3>1, <3>2 DEF ToSet
    <3> QED BY <1>2, <2>1, <3>3, ChainsAreSequences DEF Add, LLMTypeOK, LLMInv
  <2> QED BY <1>2, <2>2, <2>3 DEF Add
<1>3. CASE RemoveName(n)
  <2>1. CASE Contains(chain, n)
    <3>1. chain' \in Seq(ProviderNames) /\ Len(chain') <= MaxChain /\ ToSet(chain) \ {n} \subseteq ToSet(chain')
      BY <1>1, <1>3, <2>1, RemovedFirst, ProviderAssumption DEF RemoveName
    <3> QED BY <1>3, <3>1, ChainsAreSequences DEF RemoveName, LLMTypeOK, LLMInv
  <2>2. CASE ~Contains(chain, n)
    BY <1>3, <2>2 DEF RemoveName, LLMTypeOK, LLMInv
  <2> QED BY <2>1, <2>2
<1> QED BY <1>2, <1>3

\* Every step keeps the types, the chain complete, and a walk honest about the
\* names behind it.
LEMMA LLMStep == LLMTypeOK /\ LLMInv /\ [LLMNext]_llmVars => (LLMTypeOK /\ LLMInv)'
<1> SUFFICES ASSUME LLMTypeOK, LLMInv, [LLMNext]_llmVars PROVE (LLMTypeOK /\ LLMInv)'
  OBVIOUS
<1> DEFINE Passed == \A i \in 1..Len(chain) : i < walk => chain[i] \notin registered \cap steady
<1>a. chain \in Seq(ProviderNames) /\ Len(chain) \in 0..MaxChain
  BY ChainsAreSequences, ProviderAssumption DEF LLMTypeOK
<1>1. ASSUME NEW n \in ProviderNames, Add(n) \/ RemoveName(n) PROVE (LLMTypeOK /\ LLMInv)'
  <2>1. /\ chain' \in Chains /\ registered' \subseteq ProviderNames /\ preferred' \in registered' \cup {NoProvider}
        /\ registered' \subseteq ToSet(chain')
    BY <1>1, RegistryStep
  <2>2. walk' = 0 /\ UNCHANGED <<serving, steady, found, question>>
    BY <1>1 DEF Add, RemoveName
  <2>3. Len(chain') \in Nat
    BY <2>1, ChainsAreSequences
  <2>4. Passed'
    BY <2>2, <2>3
  <2> QED BY <2>1, <2>2, <2>4, ProviderAssumption DEF LLMTypeOK, LLMInv
<1>2. ASSUME NEW n \in ProviderNames \cup {NoProvider}, SetDefault(n) PROVE (LLMTypeOK /\ LLMInv)'
  BY <1>2 DEF SetDefault, LLMTypeOK, LLMInv, ToSet
<1>3. ASSUME NEW n \in ProviderNames, GetNamed(n) \/ AskRole(n) PROVE (LLMTypeOK /\ LLMInv)'
  <2>1. question' \in {"none", "falling", "answered", "failed", "escaped"} /\ found' = n
    BY <1>3 DEF GetNamed, AskRole, Outcomes, LLMTypeOK
  <2>2. UNCHANGED <<registry, serving, walk, steady>>
    BY <1>3 DEF GetNamed, AskRole
  <2> QED BY <2>1, <2>2 DEF LLMTypeOK, LLMInv, registry, ToSet
<1>4. ASSUME NEW n \in ProviderNames, ServiceChanges(n) PROVE (LLMTypeOK /\ LLMInv)'
  BY <1>4 DEF ServiceChanges, LLMTypeOK, LLMInv, registry, ToSet
<1>5. CASE GetStarts
  <2>1. Passed'
    BY <1>5, <1>a DEF GetStarts, registry, LLMInv
  <2>2. registered' \subseteq ToSet(chain')
    BY <1>5 DEF GetStarts, registry, LLMInv, ToSet
  <2> QED BY <1>5, <2>1, <2>2, ProviderAssumption DEF GetStarts, LLMTypeOK, LLMInv, registry
<1>6. CASE Look
  <2>1. UNCHANGED <<chain, registered, preferred, serving, steady, question>> /\ walk \in 1..Len(chain)
    BY <1>6 DEF Look, registry
  <2>2. registered' \subseteq ToSet(chain')
    BY <2>1 DEF LLMInv, ToSet
  <2>3. CASE walk' = 0 /\ found' = chain[walk]
    BY <1>a, <2>1, <2>2, <2>3, ProviderAssumption DEF LLMTypeOK, LLMInv
  <2>4. CASE walk' = walk + 1 /\ UNCHANGED found /\ chain[walk] \notin registered \cap serving
    <3>1. Passed'
      BY <1>a, <2>1, <2>4 DEF LLMTypeOK, LLMInv
    <3> QED BY <1>a, <2>1, <2>2, <2>4, <3>1, ProviderAssumption DEF LLMTypeOK, LLMInv
  <2> QED BY <1>6, <2>3, <2>4 DEF Look
<1>7. CASE LookEnds
  <2>1. UNCHANGED <<chain, registered, preferred, serving, steady, question>> /\ walk' = 0
    BY <1>7 DEF LookEnds, registry
  <2>2. found' \in ProviderNames \cup {NoProvider, "raised"}
    BY <1>7 DEF LookEnds, LLMTypeOK
  <2>3. registered' \subseteq ToSet(chain') /\ Passed'
    BY <1>a, <2>1 DEF LLMInv, ToSet
  <2> QED BY <2>1, <2>2, <2>3, ProviderAssumption DEF LLMTypeOK, LLMInv
<1>8. CASE Invoke \/ AskFallback \/ Forget
  <2>1. question' \in {"none", "falling", "answered", "failed", "escaped"} /\ found' \in {found, NoProvider}
    BY <1>8 DEF Invoke, AskFallback, Forget, Outcomes
  <2>2. UNCHANGED <<registry, serving, walk, steady>>
    BY <1>8 DEF Invoke, AskFallback, Forget
  <2> QED BY <2>1, <2>2 DEF LLMTypeOK, LLMInv, registry, ToSet
<1>9. CASE UNCHANGED llmVars
  BY <1>9 DEF llmVars, LLMTypeOK, LLMInv, ToSet
<1> QED BY <1>1, <1>2, <1>3, <1>4, <1>5, <1>6, <1>7, <1>8, <1>9 DEF LLMNext

\* The registry, the walks and the questions keep their types, and the chain
\* all of the registered names.
LEMMA LLMInvariance == LLMSpec => [](LLMTypeOK /\ LLMInv)
<1>1. LLMInit => LLMTypeOK /\ LLMInv
  <2> SUFFICES ASSUME LLMInit PROVE LLMTypeOK /\ LLMInv
    OBVIOUS
  <2>1. chain \in Seq(ProviderNames)
    BY ChainsAreSequences DEF LLMInit
  <2>2. registered \subseteq ProviderNames
    BY <2>1 DEF LLMInit, ToSet
  <2> QED BY <2>1, <2>2, ProviderAssumption DEF LLMInit, LLMTypeOK, LLMInv
<1> QED BY <1>1, LLMStep, PTL DEF LLMSpec

\* The types of the registry, its walks and its questions.
THEOREM LLMTypes == LLMSpec => []LLMTypeOK
BY LLMInvariance, PTL

\* GetServes: a walk that ends with nothing, or by raising, passed over no
\* registered provider that served all along.
THEOREM GetServesAlways == LLMSpec => GetServes
<1>1. LLMTypeOK /\ LLMInv /\ [LLMNext]_llmVars =>
        [walk # 0 /\ walk' = 0 /\ found' \notin serving => registered \cap steady = {}]_llmVars
  <2> SUFFICES ASSUME LLMTypeOK, LLMInv, LLMNext, walk # 0, walk' = 0, found' \notin serving
               PROVE  registered \cap steady = {}
    OBVIOUS
  <2>1. Look \/ LookEnds
    BY DEF LLMNext, Add, RemoveName, SetDefault, GetNamed, AskRole, ServiceChanges, GetStarts, Invoke,
           AskFallback, Forget
  <2>2. CASE Look
    <3>1. walk \in Nat
      BY ProviderAssumption DEF LLMTypeOK
    <3> QED BY <2>2, <3>1 DEF Look
  <2>3. CASE LookEnds
    <3>1. chain \in Seq(ProviderNames) /\ walk > Len(chain)
      BY <2>3, ChainsAreSequences DEF LookEnds, LLMTypeOK
    <3>2. ASSUME NEW n \in registered PROVE n \notin steady
      <4>1. PICK i \in 1..Len(chain) : n = chain[i]
        BY <3>1 DEF LLMInv, ToSet
      <4>2. i < walk
        BY <3>1, ProviderAssumption DEF LLMTypeOK
      <4> QED BY <4>1, <4>2 DEF LLMInv
    <3> QED BY <3>2
  <2> QED BY <2>1, <2>2, <2>3
<1>2. LLMSpec => [][walk # 0 /\ walk' = 0 /\ found' \notin serving => registered \cap steady = {}]_llmVars
  BY <1>1, LLMInvariance, PTL DEF LLMSpec
<1> QED BY <1>2 DEF GetServes

-----------------------------------------------------------------------------
\* PolicyEngine: no load or addition weakens a decision.

\* Among finitely many places there is an n-th, for every n up to their number.
LEMMA PlaceExists ==
  ASSUME NEW m \in Nat, NEW S \in SUBSET (1..m)
  PROVE  /\ IsFiniteSet(S) /\ Cardinality(S) \in Nat
         /\ \A n \in 1..Cardinality(S) : \E i \in S : Cardinality({j \in S : j <= i}) = n
<1> DEFINE k == Cardinality(S)
           upTo(i) == {j \in S : j <= i}
           f == [i \in S |-> Cardinality(upTo(i))]
<1>1. IsFiniteSet(S) /\ k \in Nat
  <2>1. 1 \in Int /\ m \in Int
    OBVIOUS
  <2>2. IsFiniteSet(1..m)
    BY <2>1, FS_Interval
  <2>3. IsFiniteSet(S)
    BY <2>2, FS_Subset
  <2> QED BY <2>3, FS_CardinalityType
<1>2. ASSUME NEW i \in S
      PROVE  IsFiniteSet(upTo(i)) /\ Cardinality(upTo(i)) \in 1..k
  <2>1. upTo(i) \in SUBSET S /\ upTo(i) # {}
    OBVIOUS
  <2>2. IsFiniteSet(upTo(i)) /\ Cardinality(upTo(i)) <= k
    BY <1>1, <2>1, FS_Subset
  <2>3. Cardinality(upTo(i)) \in Nat /\ Cardinality(upTo(i)) # 0
    BY <2>1, <2>2, FS_CardinalityType, FS_EmptySet
  <2> HIDE DEF upTo, k
  <2> QED BY <1>1, <2>2, <2>3
<1>3. ASSUME NEW i \in S, NEW j \in S, i < j PROVE Cardinality(upTo(i)) # Cardinality(upTo(j))
  <2>0. S \subseteq Int
    OBVIOUS
  <2>1. upTo(i) \in SUBSET upTo(j) /\ j \in upTo(j) /\ j \notin upTo(i)
    <3>1. j <= j /\ ~(j <= i)
      BY <1>3, <2>0
    <3>2. \A x \in S : x <= i => x <= j
      BY <1>3, <2>0
    <3> QED BY <3>1, <3>2
  <2>2. IsFiniteSet(upTo(j))
    BY <1>2
  <2>3. Cardinality(upTo(j)) = Cardinality(upTo(i)) => upTo(j) = upTo(i)
    BY <2>1, <2>2, FS_Subset
  <2> QED BY <2>1, <2>3
<1>4. f \in [S -> 1..k]
  <2> HIDE DEF upTo
  <2> QED BY <1>2
<1>5. \A i, j \in S : f[i] = f[j] => i = j
  <2>1. \A i, j \in S : i # j => i < j \/ j < i
    OBVIOUS
  <2> HIDE DEF upTo
  <2> QED BY <1>3, <2>1
<1> HIDE DEF f, k
<1>6. f \in Injection(S, 1..k)
  BY <1>4, <1>5 DEF Injection, IsInjective
<1>7. IsFiniteSet(1..k) /\ Cardinality(1..k) = k
  <2>1. 1 \in Int /\ k \in Int
    BY <1>1
  <2>2. IsFiniteSet(1..k) /\ Cardinality(1..k) = IF 1 > k THEN 0 ELSE k - 1 + 1
    BY <2>1, FS_Interval
  <2> QED BY <1>1, <2>2
<1>8. f \in Surjection(S, 1..k)
  BY <1>1, <1>6, <1>7, FS_Injection DEF k
<1>9. \A n \in 1..k : \E i \in S : f[i] = n
  BY <1>8 DEF Surjection
<1> QED BY <1>1, <1>9 DEF f, k

\* The items at some places of a list are a list of such items.
LEMMA ItemsTyped ==
  ASSUME NEW T, NEW list \in Seq(T), NEW places \in SUBSET (DOMAIN list)
  PROVE  /\ Cardinality(places) \in Nat /\ Cardinality(places) <= Len(list)
         /\ ItemsAt(list, places) \in Seq(T)
         /\ DOMAIN ItemsAt(list, places) = 1..Cardinality(places) /\ Len(ItemsAt(list, places)) = Cardinality(places)
         /\ \A n \in 1..Cardinality(places) : \E i \in places : ItemsAt(list, places)[n] = list[i]
<1> DEFINE k == Cardinality(places)
           place(n) == CHOOSE i \in places : Cardinality({j \in places : j <= i}) = n
<1>1. Len(list) \in Nat /\ DOMAIN list = 1..Len(list)
  OBVIOUS
<1>2. places \in SUBSET (1..Len(list))
  BY <1>1
<1>3. k \in Nat /\ \A n \in 1..k : \E i \in places : Cardinality({j \in places : j <= i}) = n
  BY <1>1, <1>2, PlaceExists
<1>4. k <= Len(list)
  <2>1. 1 \in Int /\ Len(list) \in Int
    BY <1>1
  <2>2. IsFiniteSet(1..Len(list)) /\ Cardinality(1..Len(list)) = IF 1 > Len(list) THEN 0 ELSE Len(list) - 1 + 1
    BY <2>1, FS_Interval
  <2>3. k <= Cardinality(1..Len(list))
    BY <1>2, <2>2, FS_Subset
  <2> QED BY <1>1, <2>2, <2>3
<1>5. \A n \in 1..k : place(n) \in places
  BY <1>3
<1> HIDE DEF place, k
<1>6. ItemsAt(list, places) = [n \in 1..k |-> list[place(n)]]
  BY DEF ItemsAt, place, k
<1>7. \A n \in 1..k : list[place(n)] \in T
  BY <1>5
<1>8. [n \in 1..k |-> list[place(n)]] \in Seq(T)
  BY <1>3, <1>7
<1>9. \A n \in 1..k : ItemsAt(list, places)[n] = list[place(n)]
  BY <1>6
<1>10. DOMAIN ItemsAt(list, places) = 1..k
  BY <1>6
<1>11. Len(ItemsAt(list, places)) = k
  BY <1>3, <1>6, <1>8, <1>10
<1> QED BY <1>3, <1>4, <1>5, <1>6, <1>8, <1>9, <1>10, <1>11 DEF k

\* What is read of a file are policies with rules the engine knows.
LEMMA ReadTyped ==
  ASSUME NEW config \in PolicyConfigs
  PROVE  Read(config) \in PolicyList
<1> DEFINE read == {i \in DOMAIN config : config[i].kind = "policy" /\ \A j \in 1 .. i : config[j].kind # "raises"}
           entries == ItemsAt(config, read)
           k == Cardinality(read)
<1>1. config \in Seq(ConfigEntries) /\ read \in SUBSET (DOMAIN config)
  BY PolicyAssumption
<1>2. k \in Nat /\ \A n \in 1..k : \E i \in read : entries[n] = config[i]
  <2> HIDE DEF read
  <2> QED BY <1>1, ItemsTyped
<1>3. \A i \in DOMAIN config : config[i] \in ConfigEntries
  BY <1>1
<1>4. Read(config) = [n \in 1..k |-> Readable(entries[n])]
  BY DEF Read
<1> HIDE DEF entries, k
<1>5. ASSUME NEW n \in 1..k PROVE Readable(entries[n]) \in PoliciesOf(PolicyRules)
  <2>1. PICK i \in read : entries[n] = config[i]
    BY <1>2
  <2>2. config[i] \in ConfigEntries /\ config[i].kind = "policy"
    BY <1>3
  <2>3. entries[n] \in PoliciesOf(ConfigRules)
    BY <2>1, <2>2 DEF ConfigEntries
  <2>4. ASSUME NEW r \in ConfigRules, r.action \in RuleActions PROVE r \in PolicyRules
    BY <2>4 DEF ConfigRules, PolicyRules
  <2>5. {r \in entries[n].rules : r.action \in RuleActions} \in SUBSET PolicyRules
    BY <2>3, <2>4 DEF PoliciesOf
  <2> QED BY <2>3, <2>5 DEF Readable, PoliciesOf
<1>6. [n \in 1..k |-> Readable(entries[n])] \in Seq(PoliciesOf(PolicyRules))
  BY <1>2, <1>5
<1> QED BY <1>4, <1>6 DEF PolicyList

\* Every call keeps the list a list of policies.
LEMMA PolicyTypeStep == PolicyTypeOK /\ [PolicyNext]_policyVars => PolicyTypeOK'
<1> SUFFICES ASSUME PolicyTypeOK, [PolicyNext]_policyVars PROVE PolicyTypeOK'
  OBVIOUS
<1>1. policies \in Seq(PoliciesOf(PolicyRules))
  BY DEF PolicyTypeOK, PolicyList
<1>2. ASSUME NEW config \in PolicyConfigs, LoadPolicies(config) PROVE PolicyTypeOK'
  BY <1>1, <1>2, ReadTyped DEF LoadPolicies, PolicyTypeOK, PolicyList
<1>3. ASSUME NEW config \in PolicyConfigs, NEW i \in DOMAIN Read(config), AddPolicy(Read(config)[i])
      PROVE  PolicyTypeOK'
  <2>1. Read(config)[i] \in PoliciesOf(PolicyRules)
    BY ReadTyped DEF PolicyList
  <2> QED BY <1>1, <1>3, <2>1 DEF AddPolicy, PolicyTypeOK, PolicyList
<1>4. ASSUME NEW name, RemovePolicy(name) PROVE PolicyTypeOK'
  <2> DEFINE kept == {i \in DOMAIN policies : policies[i].name # name}
  <2>1. kept \in SUBSET (DOMAIN policies)
    OBVIOUS
  <2>2. policies' = ItemsAt(policies, kept) /\ lastEdit' = "remove"
    BY <1>4 DEF RemovePolicy
  <2> HIDE DEF kept
  <2>3. /\ ItemsAt(policies, kept) \in Seq(PoliciesOf(PolicyRules)) /\ Cardinality(kept) \in Nat
        /\ Cardinality(kept) <= Len(policies) /\ Len(ItemsAt(policies, kept)) = Cardinality(kept)
    BY <1>1, <2>1, ItemsTyped
  <2>4. Len(policies) \in Nat /\ Len(policies) <= MaxPolicies /\ MaxPolicies \in Nat
    BY <1>1, PolicyAssumption DEF PolicyTypeOK
  <2>5. Len(policies') <= MaxPolicies
    BY <2>2, <2>3, <2>4
  <2> QED BY <2>2, <2>3, <2>5 DEF PolicyTypeOK, PolicyList
<1>5. CASE UNCHANGED policyVars
  BY <1>5 DEF policyVars, PolicyTypeOK
<1> QED BY <1>2, <1>3, <1>4, <1>5 DEF PolicyNext

\* The built-in policies are within the bound.
LEMMA PolicyStart == PolicyInit => PolicyTypeOK
BY PolicyAssumption DEF PolicyInit, PolicyTypeOK

\* The list holds policies with known actions only, whatever files are loaded.
THEOREM PolicyTypes == PolicySpec => []PolicyTypeOK
BY PolicyStart, PolicyTypeStep, PTL DEF PolicySpec

\* A pass finds the first policy that matches, or none.
LEMMA FirstMatchIs ==
  ASSUME PolicyTypeOK, NEW action, NEW names
  PROVE  LET matched == Matches(action, names)
             first == FirstMatch(action, names)
         IN /\ matched \subseteq 1..Len(policies) /\ Len(policies) \in Nat
            /\ matched = {} => first = 0
            /\ matched # {} => first \in matched /\ first # 0 /\ \A j \in matched : first <= j
<1> DEFINE matched == Matches(action, names)
<1>1. Len(policies) \in Nat /\ DOMAIN policies = 1..Len(policies)
  BY DEF PolicyTypeOK, PolicyList
<1>2. matched \subseteq 1..Len(policies)
  BY <1>1 DEF Matches
<1>3. matched # {} => \E i \in matched : \A j \in matched : i <= j
  <2>1. matched \in SUBSET Nat
    BY <1>1, <1>2
  <2> HIDE DEF matched
  <2> QED BY <2>1, LeastExists
<1> HIDE DEF matched
<1>4. FirstMatch(action, names) = IF matched = {} THEN 0 ELSE CHOOSE i \in matched : \A j \in matched : i <= j
  BY DEF FirstMatch, matched
<1>5. CASE matched = {}
  BY <1>1, <1>2, <1>4, <1>5 DEF matched
<1>6. CASE matched # {}
  <2>1. FirstMatch(action, names) \in matched /\ \A j \in matched : FirstMatch(action, names) <= j
    BY <1>3, <1>4, <1>6
  <2>2. FirstMatch(action, names) # 0
    BY <1>1, <1>2, <2>1
  <2> QED BY <1>1, <1>2, <1>6, <2>1, <2>2 DEF matched
<1> QED BY <1>5, <1>6

\* A decision is as strong as the strongest rule that matches.
LEMMA DecisionIs ==
  ASSUME PolicyTypeOK, NEW names
  PROVE  Decide(names).action = IF Matches("deny", names) # {} THEN "deny"
                                ELSE IF Matches("require_approval", names) # {} THEN "require_approval"
                                ELSE "allow"
<1>1. FirstMatch("deny", names) # 0 <=> Matches("deny", names) # {}
  BY FirstMatchIs
<1>2. FirstMatch("require_approval", names) # 0 <=> Matches("require_approval", names) # {}
  BY FirstMatchIs
<1> QED BY <1>1, <1>2 DEF Decide

\* When every rule that matched still matches, the decision is no weaker.
LEMMA MoreMatches ==
  ASSUME NEW d, NEW e, NEW denied \in BOOLEAN, NEW asked \in BOOLEAN, NEW denied2 \in BOOLEAN, NEW asked2 \in BOOLEAN,
         d.action = IF denied THEN "deny" ELSE IF asked THEN "require_approval" ELSE "allow",
         e.action = IF denied2 THEN "deny" ELSE IF asked2 THEN "require_approval" ELSE "allow",
         denied => denied2, asked => asked2
  PROVE  ~Weaker(e, d)
<1>1. Strength("allow") = 0 /\ Strength("require_approval") = 1 /\ Strength("deny") = 2
  BY DEF Strength
<1>2. CASE denied
  <2>1. d.action = "deny" /\ e.action = "deny"
    BY <1>2
  <2> QED BY <1>1, <2>1 DEF Weaker
<1>3. CASE ~denied /\ asked
  <2>1. d.action = "require_approval" /\ e.action \in {"deny", "require_approval"}
    BY <1>3
  <2> QED BY <1>1, <2>1 DEF Weaker
<1>4. CASE ~denied /\ ~asked
  <2>1. d.action = "allow" /\ e.action \in {"deny", "require_approval", "allow"}
    BY <1>4
  <2> QED BY <1>1, <2>1 DEF Weaker
<1> QED BY <1>2, <1>3, <1>4

\* A list that grows at its end: what matched still does, and a denial stays where it was.
LEMMA GrownDecides ==
  ASSUME PolicyTypeOK, PolicyTypeOK', NEW more \in PolicyList, policies' = policies \o more, NEW names
  PROVE  /\ ~Weaker(Decide(names)', Decide(names))
         /\ Decide(names).action = "deny" => Decide(names)' = Decide(names)
<1>1. /\ Len(policies) \in Nat /\ DOMAIN policies = 1..Len(policies)
      /\ 1..Len(policies) \subseteq DOMAIN policies'
      /\ \A i \in 1..Len(policies) : policies'[i] = policies[i]
  BY DEF PolicyTypeOK, PolicyList
<1>2. ASSUME NEW action
      PROVE  /\ Matches(action, names) \subseteq Matches(action, names)'
             /\ \A i \in Matches(action, names)' : i \in 1..Len(policies) => i \in Matches(action, names)
  BY <1>1 DEF Matches
<1>3. ~Weaker(Decide(names)', Decide(names))
  <2> DEFINE denied == Matches("deny", names) # {}
             asked == Matches("require_approval", names) # {}
  <2>1. Decide(names).action = IF denied THEN "deny" ELSE IF asked THEN "require_approval" ELSE "allow"
    BY DecisionIs
  <2>2. (Decide(names).action = IF denied THEN "deny" ELSE IF asked THEN "require_approval" ELSE "allow")'
    <3>1. (PolicyTypeOK => Decide(names).action = IF denied THEN "deny"
                                                 ELSE IF asked THEN "require_approval" ELSE "allow")'
      BY DecisionIs, PTL
    <3> QED BY <3>1
  <2>3. (denied => denied') /\ (asked => asked')
    BY <1>2
  <2>4. denied \in BOOLEAN /\ asked \in BOOLEAN /\ denied' \in BOOLEAN /\ asked' \in BOOLEAN
    OBVIOUS
  <2> HIDE DEF denied, asked
  <2> QED BY <2>1, <2>2, <2>3, <2>4, MoreMatches
<1>4. ASSUME Decide(names).action = "deny" PROVE Decide(names)' = Decide(names)
  <2>1. Matches("deny", names) # {}
    BY <1>4, DecisionIs
  <2> DEFINE first == FirstMatch("deny", names)
  <2>2. /\ first \in Matches("deny", names) /\ first \in 1..Len(policies) /\ first # 0
        /\ \A j \in Matches("deny", names) : first <= j
    BY <2>1, FirstMatchIs
  <2>3. first' = first
    <3>1. first \in Matches("deny", names)' /\ \A j \in Matches("deny", names)' : j \in Nat
      BY <1>2, <2>2 DEF Matches, PolicyTypeOK, PolicyList
    <3>2. ASSUME NEW j \in Matches("deny", names)' PROVE first <= j
      <4>1. CASE j \in 1..Len(policies)
        BY <1>2, <2>2, <4>1
      <4>2. CASE j \notin 1..Len(policies)
        <5>1. j \in Nat /\ j # 0
          BY DEF Matches, PolicyTypeOK, PolicyList
        <5> QED BY <1>1, <2>2, <4>2, <5>1
      <4> QED BY <4>1, <4>2
    <3>3. ASSUME NEW i \in Matches("deny", names)', \A j \in Matches("deny", names)' : i <= j PROVE i = first
      <4>1. i <= first /\ first <= i /\ i \in Nat /\ first \in Nat
        BY <2>2, <3>1, <3>2, <3>3
      <4> QED BY <4>1
    <3>4. first' = CHOOSE i \in Matches("deny", names)' : \A j \in Matches("deny", names)' : i <= j
      BY <3>1 DEF FirstMatch
    <3> HIDE DEF first
    <3> QED BY <3>1, <3>2, <3>3, <3>4
  <2>4. policies'[first] = policies[first]
    BY <1>1, <2>2
  <2> QED BY <2>2, <2>3, <2>4 DEF Decide
<1> QED BY <1>3, <1>4

\* More rules redact no fewer secrets.
LEMMA GrownRedacts ==
  ASSUME PolicyTypeOK, NEW more \in PolicyList, policies' = policies \o more
  PROVE  CheckOutput(Secrets)' \subseteq CheckOutput(Secrets)
<1>1. /\ DOMAIN policies \subseteq DOMAIN policies'
      /\ \A i \in DOMAIN policies : policies'[i] = policies[i]
  BY DEF PolicyTypeOK, PolicyList
<1> QED BY <1>1 DEF CheckOutput

\* A file is treated no better than what it resolves to.
LEMMA ResolvedNoBetter ==
  ASSUME PolicyTypeOK, NEW s \in Spellings
  PROVE  ~Weaker(CheckFileAccess(s), CheckFileAccess(ResolvedPath[s]))
<1> DEFINE whole == {s, ResolvedPath[s]}
           piece == {ResolvedPath[s]}
<1>1. CheckFileAccess(s) = Decide(whole) /\ CheckFileAccess(ResolvedPath[s]) = Decide(piece)
  <2>1. {ResolvedPath[s], ResolvedPath[ResolvedPath[s]]} = piece
    BY PolicyAssumption
  <2> QED BY <2>1 DEF CheckFileAccess
<1>2. \A action : Matches(action, piece) \subseteq Matches(action, whole)
  BY DEF Matches
<1> HIDE DEF whole, piece
<1> DEFINE denied(n) == Matches("deny", n) # {}
           asked(n) == Matches("require_approval", n) # {}
<1>3. /\ Decide(whole).action = IF denied(whole) THEN "deny" ELSE IF asked(whole) THEN "require_approval" ELSE "allow"
      /\ Decide(piece).action = IF denied(piece) THEN "deny" ELSE IF asked(piece) THEN "require_approval" ELSE "allow"
  BY DecisionIs
<1>4. (denied(piece) => denied(whole)) /\ (asked(piece) => asked(whole))
  BY <1>2
<1>5. denied(piece) \in BOOLEAN /\ asked(piece) \in BOOLEAN /\ denied(whole) \in BOOLEAN /\ asked(whole) \in BOOLEAN
  OBVIOUS
<1> HIDE DEF denied, asked
<1>6. ~Weaker(Decide(whole), Decide(piece))
  BY <1>3, <1>4, <1>5, MoreMatches
<1> QED BY <1>1, <1>6

\* NeverWeaker: no load, half-done load or addition weakens a decision, takes it from the
\* policy that denied, or lets a secret through; and a link is treated no better than what
\* it points to.
THEOREM DecisionsNeverWeaken == PolicySpec => NeverWeaker
<1>1. PolicyTypeOK /\ PolicyTypeOK' /\ [PolicyNext]_policyVars =>
        [policies' # policies /\ lastEdit' # "remove" =>
           \A s \in Spellings :
             /\ ~Weaker(CheckCommand(s)', CheckCommand(s)) /\ ~Weaker(CheckFileAccess(s)', CheckFileAccess(s))
             /\ ~Weaker(CheckFileAccess(s), CheckFileAccess(ResolvedPath[s]))
             /\ CheckCommand(s).action = "deny" => CheckCommand(s)' = CheckCommand(s)
             /\ CheckOutput(Secrets)' \subseteq CheckOutput(Secrets)]_policyVars
  <2> SUFFICES ASSUME PolicyTypeOK, PolicyTypeOK', PolicyNext, lastEdit' # "remove", NEW s \in Spellings
               PROVE  /\ ~Weaker(CheckCommand(s)', CheckCommand(s)) /\ ~Weaker(CheckFileAccess(s)', CheckFileAccess(s))
                      /\ ~Weaker(CheckFileAccess(s), CheckFileAccess(ResolvedPath[s]))
                      /\ CheckCommand(s).action = "deny" => CheckCommand(s)' = CheckCommand(s)
                      /\ CheckOutput(Secrets)' \subseteq CheckOutput(Secrets)
    OBVIOUS
  <2>1. \E more \in PolicyList : policies' = policies \o more
    <3>1. CASE \E config \in PolicyConfigs : LoadPolicies(config)
      BY <3>1, ReadTyped DEF LoadPolicies
    <3>2. ASSUME NEW config \in PolicyConfigs, NEW i \in DOMAIN Read(config), AddPolicy(Read(config)[i])
          PROVE  \E more \in PolicyList : policies' = policies \o more
      <4>1. Read(config)[i] \in PoliciesOf(PolicyRules)
        BY ReadTyped DEF PolicyList
      <4>2. <<Read(config)[i]>> \in PolicyList
        BY <4>1 DEF PolicyList
      <4>3. Append(policies, Read(config)[i]) = policies \o <<Read(config)[i]>>
        BY <4>1, AppendIsConcat DEF PolicyTypeOK, PolicyList
      <4> QED BY <3>2, <4>2, <4>3 DEF AddPolicy
    <3> QED BY <3>1, <3>2 DEF PolicyNext, RemovePolicy
  <2>2. PICK more \in PolicyList : policies' = policies \o more
    BY <2>1
  <2>3. /\ ~Weaker(CheckCommand(s)', CheckCommand(s))
        /\ CheckCommand(s).action = "deny" => CheckCommand(s)' = CheckCommand(s)
    BY <2>2, GrownDecides DEF CheckCommand
  <2>4. ~Weaker(CheckFileAccess(s)', CheckFileAccess(s))
    BY <2>2, GrownDecides DEF CheckFileAccess
  <2> QED BY <2>2, <2>3, <2>4, GrownRedacts, ResolvedNoBetter
<1> QED BY <1>1, PolicyTypes, PTL DEF PolicySpec, NeverWeaker

-----------------------------------------------------------------------------
\* Benchmark: the peak of memory a scenario is reported with is its own.

\* Scenarios are numbers.
LEMMA ScenarioNumbers ==
  /\ \A s \in Scenarios : s \in Nat /\ MemoryOf[s] \in Nat
  /\ \A s, q \in Scenarios : q < s => q \in 1 .. s - 1
<1>1. Cardinality(Scenarios) \in Nat /\ Scenarios = 1 .. Cardinality(Scenarios)
  BY BenchAssumption, FS_CardinalityType
<1>2. \A s \in Scenarios : MemoryOf[s] \in Nat
  BY BenchAssumption
<1> QED BY <1>1, <1>2

\* What is measured of a scenario.
BenchResults == [status : {"none", "pass", "error"}, quick : BOOLEAN, peak : Nat]

\* Every step of the suite keeps the types.
LEMMA BenchTypeStep == BenchTypeOK /\ [BenchNext]_benchVars => BenchTypeOK'
<1> SUFFICES ASSUME BenchTypeOK, [BenchNext]_benchVars PROVE BenchTypeOK'
  OBVIOUS
<1>0. /\ suite \in [at : {"new", "run", "saving", "exit 0", "exit 1"}, parallel : BOOLEAN]
      /\ measure \in [Scenarios -> {"idle", "running", "high", "ran", "raised", "read", "done"}]
      /\ results \in [Scenarios -> BenchResults] /\ lastReport \in {"none", "torn", "PASS", "FAIL"}
  BY DEF BenchTypeOK, BenchResults
<1>n. peak \in Nat /\ allocated \in Int
  BY DEF BenchTypeOK
<1>t. tracing \in BOOLEAN
  BY DEF BenchTypeOK
<1>r. NoResult \in BenchResults
  BY DEF NoResult, BenchResults
<1>1. CASE StartSuite
  <2>1. PICK parallel \in Parallels : suite' = [at |-> "run", parallel |-> parallel]
    BY <1>1 DEF StartSuite
  <2>2. suite' \in [at : {"new", "run", "saving", "exit 0", "exit 1"}, parallel : BOOLEAN]
    BY <2>1, BenchAssumption
  <2>3. results' \in [Scenarios -> BenchResults]
    BY <1>1, <1>r DEF StartSuite
  <2> QED BY <1>0, <1>1, <1>n, <1>t, <2>2, <2>3 DEF StartSuite, BenchTypeOK, BenchResults
<1>2. CASE SaveReport \/ KillSuite \/ NextCommand
  <2>1. PICK at \in {"new", "saving", "exit 0", "exit 1"} : suite' = [suite EXCEPT !.at = at]
    BY <1>2 DEF SaveReport, KillSuite, NextCommand
  <2>2. suite' \in [at : {"new", "run", "saving", "exit 0", "exit 1"}, parallel : BOOLEAN]
    BY <1>0, <2>1
  <2>3. lastReport' \in {"none", "torn", "PASS", "FAIL"}
        /\ UNCHANGED <<measure, allocated, tracing, peak, results>>
    BY <1>0, <1>2 DEF SaveReport, KillSuite, NextCommand
  <2> QED BY <1>0, <1>n, <1>t, <2>2, <2>3 DEF BenchTypeOK, BenchResults
<1>3. ASSUME NEW s \in Scenarios, StartTrace(s) \/ StopTrace(s) PROVE BenchTypeOK'
  <2>1. measure' \in [Scenarios -> {"idle", "running", "high", "ran", "raised", "read", "done"}]
    BY <1>0, <1>3 DEF StartTrace, StopTrace, Measured
  <2>2. UNCHANGED <<suite, allocated, results, lastReport>>
    BY <1>3 DEF StartTrace, StopTrace
  <2>3. peak' \in {peak, 0}
    BY <1>3 DEF StartTrace, StopTrace
  <2>4. peak' \in Nat
    BY <1>n, <2>3
  <2>5. tracing' \in BOOLEAN
    BY <1>3 DEF StartTrace, StopTrace
  <2> QED BY <1>0, <1>n, <2>1, <2>2, <2>4, <2>5 DEF BenchTypeOK, BenchResults
<1>4. ASSUME NEW s \in Scenarios, RunScenario(s) PROVE BenchTypeOK'
  <2>1. MemoryOf[s] \in Nat
    BY ScenarioNumbers
  <2>2. UNCHANGED <<suite, tracing, results, lastReport>>
    BY <1>4 DEF RunScenario
  <2>3. /\ allocated' \in {allocated, allocated + MemoryOf[s], allocated - MemoryOf[s]}
        /\ peak' = peak \/ (peak' = allocated' /\ allocated' > peak)
    <3>1. CASE allocated' = allocated + MemoryOf[s] /\ peak' = IF tracing /\ allocated' > peak THEN allocated' ELSE peak
      BY <3>1
    <3>2. CASE allocated' = allocated - MemoryOf[s] /\ peak' = peak
      BY <3>2
    <3>3. CASE UNCHANGED <<allocated, peak>>
      BY <3>3
    <3> QED BY <1>4, <3>1, <3>2, <3>3 DEF RunScenario
  <2>4. allocated' \in Int
    BY <1>n, <2>1, <2>3
  <2>5. peak' \in Nat
    BY <1>n, <2>3, <2>4
  <2>6. measure' \in [Scenarios -> {"idle", "running", "high", "ran", "raised", "read", "done"}]
    BY <1>0, <1>4 DEF RunScenario, Measured
  <2> QED BY <1>0, <1>t, <2>2, <2>4, <2>5, <2>6 DEF BenchTypeOK, BenchResults
<1>5. ASSUME NEW s \in Scenarios, ReadTrace(s) PROVE BenchTypeOK'
  <2>1. PICK quick \in BOOLEAN : ResultOf(s, quick, Traced)
    BY <1>5 DEF ReadTrace
  <2>2. [status |-> IF measure[s] = "raised" THEN "error" ELSE "pass", quick |-> quick, peak |-> Traced]
          \in BenchResults
    BY <1>n DEF Traced, BenchResults
  <2>3. results' \in [Scenarios -> BenchResults]
    BY <1>0, <2>1, <2>2 DEF ResultOf
  <2> QED BY <1>0, <1>5, <1>n, <1>t, <2>3 DEF ReadTrace, Measured, BenchTypeOK, BenchResults
<1>6. CASE UNCHANGED benchVars
  BY <1>6 DEF benchVars, BenchTypeOK
<1> QED BY <1>1, <1>2, <1>3, <1>4, <1>5, <1>6 DEF BenchNext

\* One after the other, at most one scenario is measured.
LEMMA OneMeasured ==
  ASSUME BenchTypeOK, BenchInv, NEW s \in Measuring
  PROVE  Measuring = {s}
<1>1. ASSUME NEW q \in Measuring PROVE q = s
  <2>1. s \in Int /\ q \in Int
    BY ScenarioNumbers DEF Measuring
  <2>2. ~(q < s) /\ ~(s < q)
    BY DEF BenchInv, Measuring
  <2> QED BY <2>1, <2>2
<1> QED BY <1>1

\* Its step is judged by what holds of it alone.
LEMMA MeasuredStep ==
  ASSUME BenchTypeOK, BenchInv, NEW s \in Measuring, NEW from, NEW to, Measured(s, from, to),
         to # "idle"
  PROVE  /\ measure'[s] = to /\ Measuring' = IF to = "done" THEN {} ELSE {s}
         /\ \A q \in Scenarios : q < s => measure'[q] = "done"
<1>1. measure'[s] = to /\ \A q \in Scenarios \ {s} : measure'[q] = measure[q]
  BY DEF Measured, Measuring, BenchTypeOK
<1>2. Measuring = {s}
  BY OneMeasured
<1>3. Measuring' = IF to = "done" THEN {} ELSE {s}
  BY <1>1, <1>2 DEF Measuring
<1>4. ASSUME NEW q \in Scenarios, q < s PROVE measure'[q] = "done"
  <2>1. q # s
    BY <1>4, ScenarioNumbers DEF Measuring
  <2> QED BY <1>1, <1>4, <2>1 DEF BenchInv
<1> QED BY <1>1, <1>3, <1>4

\* Every step of a suite that runs one scenario after the other keeps its peaks true.
LEMMA BenchInvStep ==
  ASSUME Parallels = {FALSE}
  PROVE  BenchTypeOK /\ BenchInv /\ [BenchNext]_benchVars => BenchInv'
<1> SUFFICES ASSUME BenchTypeOK, BenchInv, [BenchNext]_benchVars PROVE BenchInv'
  OBVIOUS
<1>0. \A s \in Scenarios : MemoryOf[s] \in Nat /\ s \in Int
  BY ScenarioNumbers
<1>1. CASE StartSuite
  <2>1. Measuring = {} /\ Measuring' = {} /\ allocated' = 0 /\ suite'.parallel = FALSE
    BY <1>1 DEF StartSuite, BenchInv, Measuring
  <2>2. \A s \in Scenarios : results'[s].status = "none"
    BY <1>1 DEF StartSuite, NoResult
  <2> QED BY <2>1, <2>2 DEF BenchInv
<1>2. CASE SaveReport \/ KillSuite \/ NextCommand
  <2>1. UNCHANGED <<measure, allocated, tracing, peak, results>> /\ suite'.parallel = suite.parallel
    BY <1>2 DEF SaveReport, KillSuite, NextCommand, BenchTypeOK
  <2>2. Measuring' = {}
    BY <1>2, <2>1 DEF SaveReport, KillSuite, NextCommand, Measuring, BenchInv
  <2>3. Measuring = {}
    BY <2>1, <2>2 DEF Measuring
  <2> QED BY <2>1, <2>2, <2>3 DEF BenchInv
<1>3. ASSUME NEW s \in Scenarios, StartTrace(s) PROVE BenchInv'
  <2>1. /\ suite.at = "run" /\ measure[s] = "idle" /\ measure' = [measure EXCEPT ![s] = "running"]
        /\ tracing' = TRUE /\ UNCHANGED <<suite, allocated, results>>
        /\ \A q \in 1 .. s - 1 : measure[q] = "done"
    BY <1>3 DEF StartTrace, MayStart, Measured, BenchInv
  <2>2. ASSUME NEW q \in Scenarios, q < s PROVE measure[q] = "done"
    <3>1. q \in 1 .. s - 1
      BY <2>2, ScenarioNumbers
    <3> QED BY <2>1, <3>1
  <2>3. Measuring = {}
    <3> SUFFICES ASSUME NEW t \in Measuring PROVE FALSE
      OBVIOUS
    <3>1. t # s /\ ~(t < s)
      BY <2>1, <2>2 DEF Measuring
    <3>2. s < t
      BY <3>1, <1>0 DEF Measuring
    <3> QED BY <2>1, <3>2 DEF BenchInv
  <2>4. measure'[s] = "running" /\ \A q \in Scenarios \ {s} : measure'[q] = measure[q]
    BY <2>1 DEF BenchTypeOK
  <2>5. Measuring' = {s}
    BY <2>3, <2>4 DEF Measuring
  <2>6. \A q \in Scenarios : q < s => measure'[q] = "done"
    BY <1>0, <2>2, <2>4
  <2> QED BY <2>1, <2>3, <2>4, <2>5, <2>6 DEF BenchInv
<1>4. ASSUME NEW s \in Scenarios, RunScenario(s) PROVE BenchInv'
  <2>1. PICK from \in {"running", "high"}, to \in {"high", "ran", "raised"} : Measured(s, from, to)
    BY <1>4 DEF RunScenario
  <2>2. s \in Measuring /\ UNCHANGED <<suite, tracing, results>>
    BY <1>4, <2>1 DEF RunScenario, Measured, Measuring
  <2>3. Measuring = {s} /\ measure'[s] = to /\ Measuring' = {s}
        /\ \A q \in Scenarios : q < s => measure'[q] = "done"
    BY <2>1, <2>2, OneMeasured, MeasuredStep
  <2>4. tracing /\ suite.at = "run" /\ ~suite.parallel
        /\ allocated = (IF measure[s] = "high" THEN MemoryOf[s] ELSE 0)
        /\ (measure[s] = "high" => peak >= MemoryOf[s])
    BY <2>2 DEF BenchInv
  <2>5. /\ allocated' = (IF measure'[s] = "high" THEN MemoryOf[s] ELSE 0)
        /\ measure'[s] \in {"high", "ran"} => peak' >= MemoryOf[s]
    <3>1. CASE Measured(s, "running", "high") /\ allocated' = allocated + MemoryOf[s]
               /\ peak' = (IF tracing /\ allocated' > peak THEN allocated' ELSE peak)
      <4>1. allocated = 0 /\ measure'[s] = "high"
        BY <2>2, <2>4, <3>1 DEF Measured, BenchTypeOK
      <4>2. allocated' = MemoryOf[s]
        BY <1>0, <3>1, <4>1
      <4>3. peak' = (IF allocated' > peak THEN allocated' ELSE peak) /\ peak \in Nat
        BY <2>4, <3>1 DEF BenchTypeOK
      <4> QED BY <1>0, <4>1, <4>2, <4>3
    <3>2. CASE (Measured(s, "high", "ran") \/ Measured(s, "high", "raised"))
               /\ allocated' = allocated - MemoryOf[s] /\ UNCHANGED peak
      <4>1. measure[s] = "high" /\ measure'[s] \in {"ran", "raised"}
        BY <2>2, <3>2 DEF Measured, BenchTypeOK
      <4>2. allocated = MemoryOf[s] /\ peak >= MemoryOf[s]
        BY <2>4, <4>1
      <4>3. allocated' = 0
        BY <1>0, <3>2, <4>2
      <4>4. peak' >= MemoryOf[s]
        BY <3>2, <4>2
      <4> QED BY <4>1, <4>3, <4>4
    <3>3. CASE Measured(s, "running", "raised") /\ UNCHANGED <<allocated, peak>>
      BY <2>2, <2>4, <3>3 DEF Measured, BenchTypeOK
    <3>4. \/ Measured(s, "running", "high") /\ allocated' = allocated + MemoryOf[s]
             /\ peak' = (IF tracing /\ allocated' > peak THEN allocated' ELSE peak)
          \/ (Measured(s, "high", "ran") \/ Measured(s, "high", "raised"))
             /\ allocated' = allocated - MemoryOf[s] /\ UNCHANGED peak
          \/ Measured(s, "running", "raised") /\ UNCHANGED <<allocated, peak>>
      BY <1>4, Zenon DEF RunScenario
    <3> QED BY <3>1, <3>2, <3>3, <3>4
  <2> QED BY <2>2, <2>3, <2>4, <2>5 DEF BenchInv
<1>5. ASSUME NEW s \in Scenarios, ReadTrace(s) PROVE BenchInv'
  <2>1. PICK quick \in BOOLEAN : ResultOf(s, quick, Traced)
    BY <1>5 DEF ReadTrace
  <2>2. PICK from \in {"ran", "raised"} : Measured(s, from, "read")
    BY <1>5 DEF ReadTrace
  <2>3. s \in Measuring /\ measure[s] = from /\ UNCHANGED <<suite, allocated, tracing, peak>>
    BY <1>5, <2>2 DEF ReadTrace, Measured, Measuring
  <2>4. Measuring = {s} /\ measure'[s] = "read" /\ Measuring' = {s}
        /\ \A q \in Scenarios : q < s => measure'[q] = "done"
    BY <2>2, <2>3, OneMeasured, MeasuredStep
  <2>5. tracing /\ suite.at = "run" /\ ~suite.parallel /\ allocated = 0 /\ (from = "ran" => peak >= MemoryOf[s])
    BY <2>3 DEF BenchInv
  <2>6. ASSUME NEW q \in Scenarios, results'[q].status = "pass" PROVE results'[q].peak >= MemoryOf[q]
    <3>1. CASE q = s
      <4>1. results'[s] = [status |-> IF measure[s] = "raised" THEN "error" ELSE "pass",
                           quick |-> quick, peak |-> peak]
        BY <2>1, <2>5 DEF ResultOf, Traced, BenchTypeOK
      <4> QED BY <2>3, <2>5, <2>6, <3>1, <4>1
    <3>2. CASE q # s
      BY <2>1, <2>6, <3>2 DEF ResultOf, BenchTypeOK, BenchInv
    <3> QED BY <3>1, <3>2
  <2> QED BY <2>3, <2>4, <2>5, <2>6 DEF BenchInv
<1>6. ASSUME NEW s \in Scenarios, StopTrace(s) PROVE BenchInv'
  <2>1. Measured(s, "read", "done") /\ UNCHANGED <<suite, allocated, peak, results>>
    BY <1>6 DEF StopTrace
  <2>2. s \in Measuring /\ measure[s] = "read"
    BY <2>1 DEF Measured, Measuring
  <2>3. Measuring' = {}
    BY <2>1, <2>2, MeasuredStep
  <2>4. allocated = 0
    BY <2>2 DEF BenchInv
  <2> QED BY <2>1, <2>3, <2>4 DEF BenchInv
<1>7. CASE UNCHANGED benchVars
  BY <1>7 DEF benchVars, BenchInv, Measuring
<1> QED BY <1>1, <1>2, <1>3, <1>4, <1>5, <1>6, <1>7 DEF BenchNext

\* The state of the suite is what BenchTypeOK says (BenchmarkSuite, benchmark.py).
THEOREM BenchTypes == BenchSpec => []BenchTypeOK
<1>1. BenchInit => BenchTypeOK
  <2> SUFFICES ASSUME BenchInit PROVE BenchTypeOK
    OBVIOUS
  <2>1. NoResult \in BenchResults
    BY DEF NoResult, BenchResults
  <2>2. suite \in [at : {"new", "run", "saving", "exit 0", "exit 1"}, parallel : BOOLEAN]
    BY DEF BenchInit
  <2>3. tracing \in BOOLEAN
    BY DEF BenchInit
  <2>4. peak \in Nat /\ allocated \in Int /\ lastReport \in {"none", "torn", "PASS", "FAIL"}
    BY DEF BenchInit
  <2>5. /\ measure \in [Scenarios -> {"idle", "running", "high", "ran", "raised", "read", "done"}]
        /\ results \in [Scenarios -> BenchResults]
    BY <2>1 DEF BenchInit
  <2> QED BY <2>2, <2>3, <2>4, <2>5 DEF BenchTypeOK, BenchResults
<1> QED BY <1>1, BenchTypeStep, PTL DEF BenchSpec

\* One after the other, the invariant of a suite holds in every state.
LEMMA BenchInvariance == Parallels = {FALSE} => (BenchSpec => []BenchInv)
<1> SUFFICES ASSUME Parallels = {FALSE} PROVE BenchSpec => []BenchInv
  OBVIOUS
<1>1. BenchInit => BenchInv
  BY DEF BenchInit, BenchInv, Measuring, NoResult
<1> QED BY <1>1, BenchTypes, BenchInvStep, PTL DEF BenchSpec

\* Where scenarios run one after the other, none that is reported within its threshold of
\* memory needed more, for any scenarios, needs and thresholds (_measure 190-213 and
\* _check_thresholds, benchmark.py).
THEOREM PeaksAreTrue == Parallels = {FALSE} => (BenchSpec => []PeakIsTrue)
<1> SUFFICES ASSUME Parallels = {FALSE} PROVE BenchSpec => []PeakIsTrue
  OBVIOUS
<1>1. BenchTypeOK /\ BenchInv => PeakIsTrue
  <2> SUFFICES ASSUME BenchTypeOK, BenchInv, NEW s \in Scenarios, results[s].status = "pass",
                      MemoryLimit[s] # NoLimit, MemoryOf[s] > MemoryLimit[s]
               PROVE  ~Met(s)
    BY DEF PeakIsTrue
  <2>1. results[s].peak \in Nat /\ MemoryOf[s] \in Nat /\ MemoryLimit[s] \in Nat
    BY BenchAssumption DEF BenchTypeOK
  <2>2. results[s].peak >= MemoryOf[s]
    BY DEF BenchInv
  <2> QED BY <2>1, <2>2 DEF Met
<1> QED BY <1>1, BenchTypes, BenchInvariance, PTL

-----------------------------------------------------------------------------
\* SkillIntake: a saved session is what the run came to.

\* A change of one task leaves the others, and the other intakes, as they are.
LEMMA TaskSet ==
  ASSUME IntakeTypeOK, NEW i \in Intakes, NEW k \in DOMAIN tasks[i], NEW skill \in SkillNames \cup {NoSkill},
         NEW status \in {"planned", "running", "ok", "failed", "skipped"}, SetTask(i, k, skill, status)
  PROVE  /\ tasks' \in [Intakes -> Seq(Task)] /\ \A j \in Intakes : DOMAIN tasks'[j] = DOMAIN tasks[j]
         /\ tasks'[i][k] = [requirement |-> tasks[i][k].requirement, skill |-> skill, status |-> status]
         /\ \A l \in DOMAIN tasks[i] \ {k} : tasks'[i][l] = tasks[i][l]
         /\ \A j \in Intakes \ {i} : tasks'[j] = tasks[j]
<1>1. tasks[i] \in Seq(Task) /\ k \in 1..Len(tasks[i])
  BY DEF IntakeTypeOK
<1>2. tasks[i][k] \in Task
  BY <1>1
<1> DEFINE new == [requirement |-> tasks[i][k].requirement, skill |-> skill, status |-> status]
<1>3. new \in Task
  BY <1>2 DEF Task
<1> HIDE DEF new
<1>4. [tasks[i] EXCEPT ![k] = new] \in Seq(Task)
  BY <1>1, <1>3, ExceptSeq
<1>5. tasks' = [tasks EXCEPT ![i] = [tasks[i] EXCEPT ![k] = new]] /\ tasks \in [Intakes -> Seq(Task)]
  BY DEF SetTask, new, IntakeTypeOK
<1> QED BY <1>4, <1>5 DEF new

\* The states of an intake.
LEMMA IntakeMoves ==
  ASSUME IntakeTypeOK, NEW i \in Intakes, NEW at \in IntakeStates, Step(i, at) \/ GoOn(i)
  PROVE  /\ intake' \in [Intakes -> [at : IntakeStates, wants : {"all", "planner", "executor", "verifier"},
                                     execute : BOOLEAN, next : Nat]]
         /\ intake'[i].wants = intake[i].wants /\ intake'[i].execute = intake[i].execute
         /\ Step(i, at) => intake'[i].at = at
         /\ GoOn(i) => intake'[i].at = intake[i].at
         /\ \A j \in Intakes \ {i} : intake'[j] = intake[j]
<1> DEFINE State == [at : IntakeStates, wants : {"all", "planner", "executor", "verifier"}, execute : BOOLEAN, next : Nat]
<1>1. intake \in [Intakes -> State] /\ intake[i] \in State
  BY DEF IntakeTypeOK
<1>2. CASE Step(i, at)
  <2>1. [intake[i] EXCEPT !.at = at] \in State
    BY <1>1
  <2>2. intake' = [intake EXCEPT ![i] = [intake[i] EXCEPT !.at = at]]
    BY <1>2 DEF Step
  <2>3. GoOn(i) => intake'[i].at = intake[i].at
    BY <1>1 DEF GoOn
  <2> QED BY <1>1, <1>2, <2>1, <2>2, <2>3
<1>3. CASE GoOn(i)
  <2>1. [intake[i] EXCEPT !.next = intake[i].next + 1] \in State
    BY <1>1
  <2>2. intake' = [intake EXCEPT ![i] = [intake[i] EXCEPT !.next = intake[i].next + 1]]
    BY <1>3 DEF GoOn
  <2>3. Step(i, at) => intake'[i].at = at
    BY <1>1 DEF Step
  <2> QED BY <1>1, <1>3, <2>1, <2>2, <2>3
<1> QED BY <1>2, <1>3

\* A skill that a task is mapped to has a directory of the kind they have.
LEMMA SkillsMade ==
  ASSUME IntakeTypeOK, NEW requirement \in Requirements, NEW skill \in SkillNames \cup {NoSkill},
         CheckAndInstall(requirement, skill)
  PROVE  skillDirs' \in [SkillNames -> [made : {"absent", "owner", "template", "stub"},
                                        manifest : {"good", "broken", "empty"}, about : SUBSET Requirements]]
<1>1. ASSUME NEW n \in SkillNames, NEW made \in {"template", "stub"}, NEW about \in SUBSET Requirements,
             CreateSkill(n, made, about)
      PROVE  skillDirs' \in [SkillNames -> [made : {"absent", "owner", "template", "stub"},
                                            manifest : {"good", "broken", "empty"}, about : SUBSET Requirements]]
  BY <1>1 DEF CreateSkill, IntakeTypeOK
<1>2. CASE UNCHANGED skillDirs
  BY <1>2 DEF IntakeTypeOK
<1>3. CASE /\ TemplateFor[requirement] # NoSkill
           /\ CreateSkill(TemplateFor[requirement], "template", TemplateAbout[TemplateFor[requirement]])
  <2>1. TemplateFor[requirement] \in Templates
    BY <1>3, IntakeAssumption
  <2>2. TemplateFor[requirement] \in SkillNames /\ TemplateAbout[TemplateFor[requirement]] \in SUBSET Requirements
    BY <2>1, IntakeAssumption
  <2> QED BY <1>1, <1>3, <2>2
<1>4. CASE skill # NoSkill /\ CreateSkill(skill, "stub", SharesWord[requirement])
  <2>1. skill \in SkillNames /\ SharesWord[requirement] \in SUBSET Requirements
    BY <1>4, IntakeAssumption
  <2> QED BY <1>1, <1>4, <2>1
<1> QED BY <1>2, <1>3, <1>4 DEF CheckAndInstall

\* The counts of runs, after one more.
LEMMA RanOnce ==
  ASSUME IntakeTypeOK, NEW i \in Intakes, NEW k \in DOMAIN tasks[i],
         ran' = [ran EXCEPT ![i] = [ran[i] EXCEPT ![k] = ran[i][k] + 1]]
  PROVE  /\ DOMAIN ran' = Intakes /\ ran'[i] \in [DOMAIN tasks[i] -> Nat] /\ ran'[i][k] = ran[i][k] + 1
         /\ \A l \in DOMAIN tasks[i] \ {k} : ran'[i][l] = ran[i][l]
         /\ \A j \in Intakes \ {i} : ran'[j] = ran[j]
<1>1. ran[i] \in [DOMAIN tasks[i] -> Nat] /\ DOMAIN ran = Intakes
  BY DEF IntakeTypeOK
<1>2. [ran[i] EXCEPT ![k] = ran[i][k] + 1] \in [DOMAIN tasks[i] -> Nat]
  BY <1>1
<1> QED BY <1>1, <1>2

\* Every step of the intakes keeps the types.
LEMMA IntakeTypeStep == IntakeTypeOK /\ SessionInv /\ [IntakeNext]_intakeVars => IntakeTypeOK'
<1> SUFFICES ASSUME IntakeTypeOK, SessionInv, [IntakeNext]_intakeVars PROVE IntakeTypeOK'
  OBVIOUS
<1> DEFINE State == [at : IntakeStates, wants : {"all", "planner", "executor", "verifier"}, execute : BOOLEAN, next : Nat]
           Dir == [made : {"absent", "owner", "template", "stub"}, manifest : {"good", "broken", "empty"},
                   about : SUBSET Requirements]
           Counted(i) == /\ pool[i] \cup submitted[i] \subseteq DOMAIN tasks[i] /\ pool[i] \cap submitted[i] = {}
                         /\ ran[i] \in [DOMAIN tasks[i] -> Nat]
<1>a. /\ skillDirs \in [SkillNames -> Dir] /\ intake \in [Intakes -> State] /\ tasks \in [Intakes -> Seq(Task)]
      /\ \A i \in Intakes : Counted(i)
      /\ DOMAIN pool = Intakes /\ DOMAIN submitted = Intakes /\ DOMAIN ran = Intakes
      /\ sessionFile \in [by : Intakes \cup {"none", "cleared"}, tasks : Seq(Task)] /\ manifestEdits \in 0..MaxBreaks
  BY DEF IntakeTypeOK
<1>1. ASSUME NEW i \in Intakes, StartIntake(i) PROVE IntakeTypeOK'
  <2>1. PICK request \in Requests, wants \in {"all", "planner", "executor", "verifier"}, execute \in BOOLEAN :
          /\ intake' = [intake EXCEPT ![i] = [at |-> "map", wants |-> wants, execute |-> execute, next |-> 1]]
          /\ tasks' = [tasks EXCEPT ![i] = [k \in DOMAIN request |->
               [requirement |-> request[k], skill |-> NoSkill,
                status |-> IF wants \in {"all", RoleOf[request[k]]} THEN "planned" ELSE "skipped"]]]
          /\ ran' = [ran EXCEPT ![i] = [k \in DOMAIN request |-> 0]]
    BY <1>1 DEF StartIntake
  <2> DEFINE T == [k \in DOMAIN request |-> [requirement |-> request[k], skill |-> NoSkill,
                     status |-> IF wants \in {"all", RoleOf[request[k]]} THEN "planned" ELSE "skipped"]]
  <2>2. request \in Seq(Requirements)
    BY IntakeAssumption
  <2>3. \A k \in 1..Len(request) : T[k] \in Task
    BY <2>2 DEF Task
  <2>4. T \in Seq(Task) /\ DOMAIN T = DOMAIN request
    <3>1. DOMAIN request = 1..Len(request) /\ Len(request) \in Nat
      BY <2>2
    <3>2. T = [k \in 1..Len(request) |-> T[k]]
      BY <3>1
    <3> HIDE DEF T
    <3>3. [k \in 1..Len(request) |-> T[k]] \in Seq(Task)
      BY <2>3, <3>1, IsASeq
    <3> QED BY <3>1, <3>2, <3>3
  <2>5. tasks' = [tasks EXCEPT ![i] = T]
    BY <2>1
  <2> HIDE DEF T
  <2>6. tasks' \in [Intakes -> Seq(Task)] /\ tasks'[i] = T /\ \A j \in Intakes \ {i} : tasks'[j] = tasks[j]
    BY <1>a, <2>4, <2>5
  <2>7. intake' \in [Intakes -> State]
    BY <1>a, <2>1 DEF IntakeStates
  <2>8. UNCHANGED <<skillDirs, pool, submitted, manifestEdits>> /\ sessionFile' = Cleared
    BY <1>1 DEF StartIntake
  <2>9. pool[i] = {} /\ submitted[i] = {}
    BY <1>1 DEF StartIntake, SessionInv, IntakeInv
  <2>10. DOMAIN ran' = Intakes /\ ran'[i] \in [DOMAIN request -> Nat] /\ \A j \in Intakes \ {i} : ran'[j] = ran[j]
    BY <1>a, <2>1
  <2>11. \A j \in Intakes : Counted(j)'
    BY <1>a, <2>4, <2>6, <2>8, <2>9, <2>10
  <2>12. sessionFile' \in [by : Intakes \cup {"none", "cleared"}, tasks : Seq(Task)]
    BY <2>8 DEF Cleared
  <2> QED BY <1>a, <2>6, <2>7, <2>8, <2>10, <2>11, <2>12 DEF IntakeTypeOK
<1>b. ASSUME NEW i \in Intakes, NEW k \in DOMAIN tasks[i], NEW skill \in SkillNames \cup {NoSkill},
             NEW status \in {"planned", "running", "ok", "failed", "skipped"}, SetTask(i, k, skill, status)
      PROVE  tasks' \in [Intakes -> Seq(Task)] /\ \A j \in Intakes : DOMAIN tasks'[j] = DOMAIN tasks[j]
  BY <1>b, TaskSet
<1>c. \A i \in Intakes : \A k \in DOMAIN tasks[i] : tasks[i][k] \in Task
  <2>1. ASSUME NEW i \in Intakes, NEW k \in DOMAIN tasks[i] PROVE tasks[i][k] \in Task
    <3>1. tasks[i] \in Seq(Task)
      BY <1>a
    <3> QED BY <3>1
  <2> QED BY <2>1
<1>2. ASSUME NEW i \in Intakes, MapTask(i) PROVE IntakeTypeOK'
  <2> DEFINE k == intake[i].next
  <2>0. UNCHANGED <<pool, submitted, sessionFile, ran, manifestEdits>>
    BY <1>2 DEF MapTask
  <2>1. k \in DOMAIN tasks[i]
    <3>1. tasks[i] \in Seq(Task) /\ intake[i].next \in Nat
      BY <1>a
    <3>2. k # 0 /\ k <= Len(tasks[i])
      BY <1>2 DEF MapTask, SessionInv, IntakeInv
    <3> QED BY <3>1, <3>2
  <2>2. intake' \in [Intakes -> State]
    BY <1>2, IntakeMoves DEF MapTask, IntakeStates
  <2>3. CASE UNCHANGED <<tasks, skillDirs>>
    BY <1>a, <2>0, <2>2, <2>3 DEF IntakeTypeOK
  <2>4. ASSUME NEW skill \in SkillNames \cup {NoSkill}, CheckAndInstall(tasks[i][k].requirement, skill),
               SetTask(i, k, skill, IF skill = NoSkill THEN "failed" ELSE tasks[i][k].status)
        PROVE  IntakeTypeOK'
    <3>1. tasks[i][k] \in Task
      BY <1>c, <2>1
    <3>2. tasks[i][k].requirement \in Requirements
          /\ (IF skill = NoSkill THEN "failed" ELSE tasks[i][k].status) \in {"planned", "running", "ok", "failed", "skipped"}
      BY <3>1 DEF Task
    <3>3. skillDirs' \in [SkillNames -> Dir]
      BY <2>4, <3>2, SkillsMade
    <3>4. tasks' \in [Intakes -> Seq(Task)] /\ \A j \in Intakes : DOMAIN tasks'[j] = DOMAIN tasks[j]
      BY <1>b, <2>1, <2>4, <3>2
    <3>5. \A j \in Intakes : Counted(j)'
      BY <1>a, <2>0, <3>4
    <3> QED BY <1>a, <2>0, <2>2, <3>3, <3>4, <3>5 DEF IntakeTypeOK
  <2> QED BY <1>2, <2>3, <2>4 DEF MapTask
<1>3. ASSUME NEW i \in Intakes, SubmitTasks(i) PROVE IntakeTypeOK'
  <2>1. intake' \in [Intakes -> State]
    BY <1>3, IntakeMoves DEF SubmitTasks, IntakeStates
  <2>2. pool[i] = {}
    BY <1>3 DEF SubmitTasks, SessionInv, IntakeInv
  <2>3. DOMAIN submitted' = Intakes /\ submitted'[i] \in SUBSET (DOMAIN tasks[i] \cup submitted[i])
        /\ \A j \in Intakes \ {i} : submitted'[j] = submitted[j]
    BY <1>3, <1>a DEF SubmitTasks
  <2>4. UNCHANGED <<skillDirs, tasks, pool, sessionFile, ran, manifestEdits>>
    BY <1>3 DEF SubmitTasks
  <2>5. \A j \in Intakes : Counted(j)'
    BY <1>a, <2>2, <2>3, <2>4
  <2> QED BY <1>a, <2>1, <2>3, <2>4, <2>5 DEF IntakeTypeOK
<1>4. ASSUME NEW i \in Intakes, NEW k \in DOMAIN tasks[i], BeginTask(i, k) PROVE IntakeTypeOK'
  <2>1. tasks[i][k].skill \in SkillNames \cup {NoSkill}
    BY <1>c DEF Task
  <2>2. tasks' \in [Intakes -> Seq(Task)] /\ \A j \in Intakes : DOMAIN tasks'[j] = DOMAIN tasks[j]
    BY <1>4, <1>b, <2>1 DEF BeginTask, SetStatus
  <2>3. DOMAIN ran' = Intakes /\ \A j \in Intakes : ran'[j] \in [DOMAIN tasks[j] -> Nat]
    <3>1. CASE UNCHANGED ran
      BY <1>a, <3>1
    <3>2. CASE ran' = [ran EXCEPT ![i] = [ran[i] EXCEPT ![k] = ran[i][k] + 1]]
      BY <1>a, <3>2, RanOnce
    <3> QED BY <1>4, <3>1, <3>2 DEF BeginTask
  <2>4. /\ UNCHANGED <<skillDirs, intake, sessionFile, manifestEdits>> /\ k \in submitted[i]
        /\ submitted' = [submitted EXCEPT ![i] = submitted[i] \ {k}]
        /\ pool' = pool \/ pool' = [pool EXCEPT ![i] = pool[i] \cup {k}]
    BY <1>4 DEF BeginTask
  <2>5. \A j \in Intakes : Counted(j)'
    BY <1>a, <2>2, <2>3, <2>4
  <2> QED BY <1>a, <2>2, <2>3, <2>4, <2>5 DEF IntakeTypeOK
<1>5. ASSUME NEW i \in Intakes, NEW k \in DOMAIN tasks[i], EndTask(i, k) PROVE IntakeTypeOK'
  <2>1. tasks[i][k].skill \in SkillNames \cup {NoSkill}
    BY <1>c DEF Task
  <2>2. tasks' \in [Intakes -> Seq(Task)] /\ \A j \in Intakes : DOMAIN tasks'[j] = DOMAIN tasks[j]
    BY <1>5, <1>a, <1>b, <2>1, SMTT(30) DEF EndTask, SetStatus
  <2>3. intake' \in [Intakes -> State]
    BY <1>5, <1>a, IntakeMoves DEF EndTask, IntakeStates
  <2>4. /\ UNCHANGED <<skillDirs, submitted, sessionFile, ran, manifestEdits>>
        /\ pool' = [pool EXCEPT ![i] = pool[i] \ {k}]
    BY <1>5 DEF EndTask
  <2>5. \A j \in Intakes : Counted(j)'
    BY <1>a, <2>2, <2>4
  <2> QED BY <1>a, <2>2, <2>3, <2>4, <2>5 DEF IntakeTypeOK
<1>6. ASSUME NEW i \in Intakes, JoinPool(i) PROVE IntakeTypeOK'
  <2>1. intake' \in [Intakes -> State]
    BY <1>6, IntakeMoves DEF JoinPool, IntakeStates
  <2>2. UNCHANGED <<skillDirs, tasks, pool, submitted, sessionFile, ran, manifestEdits>>
    BY <1>6 DEF JoinPool
  <2> QED BY <1>a, <2>1, <2>2 DEF IntakeTypeOK
<1>7. ASSUME NEW i \in Intakes, SaveSession(i) PROVE IntakeTypeOK'
  <2>1. intake' \in [Intakes -> State]
    BY <1>7, IntakeMoves DEF SaveSession, IntakeStates
  <2>2. UNCHANGED <<skillDirs, tasks, pool, submitted, ran, manifestEdits>>
    BY <1>7 DEF SaveSession
  <2>3. sessionFile' \in [by : Intakes \cup {"none", "cleared"}, tasks : Seq(Task)]
    BY <1>7, <1>a DEF SaveSession
  <2> QED BY <1>a, <2>1, <2>2, <2>3 DEF IntakeTypeOK
<1>8. ASSUME NEW n \in SkillNames, EditManifest(n) PROVE IntakeTypeOK'
  <2>1. manifestEdits' \in 0..MaxBreaks
    BY <1>8, <1>a, IntakeAssumption DEF EditManifest
  <2>2. PICK manifest \in {"good", "broken", "empty"} :
          skillDirs' = [skillDirs EXCEPT ![n] = [skillDirs[n] EXCEPT !.manifest = manifest]]
    BY <1>8 DEF EditManifest
  <2>3. [skillDirs[n] EXCEPT !.manifest = manifest] \in Dir
    <3>1. skillDirs[n] \in Dir /\ manifest \in {"good", "broken", "empty"}
      BY <1>a
    <3> QED BY ONLY <3>1
  <2>4. skillDirs' \in [SkillNames -> Dir]
    BY <1>a, <2>2, <2>3
  <2> QED BY <1>8, <1>a, <2>1, <2>4 DEF EditManifest, IntakeTypeOK
<1>9. CASE UNCHANGED intakeVars
  BY <1>9, <1>a DEF intakeVars, IntakeTypeOK
<1> QED BY <1>1, <1>2, <1>3, <1>4, <1>5, <1>6, <1>7, <1>8, <1>9 DEF IntakeNext

\* An intake that a step leaves alone keeps what holds of it, whatever becomes
\* of the session file, short of the step saving under its name.
LEMMA IntakeLeftAlone ==
  ASSUME NEW j \in Intakes, IntakeInv(j), intake'[j] = intake[j], tasks'[j] = tasks[j], ran'[j] = ran[j],
         pool'[j] = pool[j], submitted'[j] = submitted[j],
         sessionFile' = sessionFile \/ sessionFile'.tasks = <<>> \/ sessionFile'.by # j
  PROVE  IntakeInv(j)'
<1>1. \A k : TaskInv(j, k)' <=> TaskInv(j, k)
  BY DEF TaskInv, Foreign
<1> QED BY <1>1 DEF IntakeInv

\* While an intake maps or runs its tasks, no file under its name says what
\* became of them.
LEMMA NotYetSaved ==
  ASSUME NEW i \in Intakes, IntakeInv(i), intake[i].at # "done", UNCHANGED sessionFile
  PROVE  sessionFile'.by = i => sessionFile'.tasks = <<>>
BY DEF IntakeInv

\* Every step keeps what holds of each intake.
LEMMA SessionInvStep == IntakeTypeOK /\ SessionInv /\ [IntakeNext]_intakeVars => SessionInv'
<1> SUFFICES ASSUME IntakeTypeOK, SessionInv, [IntakeNext]_intakeVars PROVE SessionInv'
  OBVIOUS
<1>a. \A i \in Intakes : IntakeInv(i) /\ \A k \in DOMAIN tasks[i] : TaskInv(i, k)
  BY DEF SessionInv, IntakeInv
<1>b. /\ DOMAIN pool = Intakes /\ DOMAIN submitted = Intakes /\ DOMAIN ran = Intakes
      /\ \A i \in Intakes : pool[i] \cup submitted[i] \subseteq DOMAIN tasks[i] /\ ran[i] \in [DOMAIN tasks[i] -> Nat]
  BY DEF IntakeTypeOK
<1>c. \A i \in Intakes : \A k \in DOMAIN tasks[i] : tasks[i][k] \in Task
  <2>1. ASSUME NEW i \in Intakes, NEW k \in DOMAIN tasks[i] PROVE tasks[i][k] \in Task
    <3>1. tasks[i] \in Seq(Task)
      BY DEF IntakeTypeOK
    <3> QED BY <3>1
  <2> QED BY <2>1
<1>1. ASSUME NEW i \in Intakes, StartIntake(i) PROVE SessionInv'
  <2>1. PICK request \in Requests, wants \in {"all", "planner", "executor", "verifier"}, execute \in BOOLEAN :
          /\ intake' = [intake EXCEPT ![i] = [at |-> "map", wants |-> wants, execute |-> execute, next |-> 1]]
          /\ tasks' = [tasks EXCEPT ![i] = [k \in DOMAIN request |->
               [requirement |-> request[k], skill |-> NoSkill,
                status |-> IF wants \in {"all", RoleOf[request[k]]} THEN "planned" ELSE "skipped"]]]
          /\ ran' = [ran EXCEPT ![i] = [k \in DOMAIN request |-> 0]]
    BY <1>1 DEF StartIntake
  <2>2. UNCHANGED <<pool, submitted>> /\ sessionFile' = Cleared /\ intake[i].at = "new"
    BY <1>1 DEF StartIntake
  <2>3. \A j \in Intakes \ {i} : intake'[j] = intake[j] /\ tasks'[j] = tasks[j] /\ ran'[j] = ran[j]
    BY <2>1, <1>b DEF IntakeTypeOK
  <2>4. intake'[i] = [at |-> "map", wants |-> wants, execute |-> execute, next |-> 1] /\ DOMAIN tasks'[i] = DOMAIN request
    BY <2>1 DEF IntakeTypeOK
  <2>5. pool[i] = {} /\ submitted[i] = {}
    BY <1>a, <2>2 DEF IntakeInv
  <2>6. ASSUME NEW k \in DOMAIN request PROVE TaskInv(i, k)'
    <3>1. /\ tasks'[i][k] = [requirement |-> request[k], skill |-> NoSkill,
                             status |-> IF wants \in {"all", RoleOf[request[k]]} THEN "planned" ELSE "skipped"]
          /\ ran'[i][k] = 0
      BY <2>1, <1>b DEF IntakeTypeOK
    <3> QED BY <2>2, <2>4, <2>5, <3>1 DEF TaskInv, Foreign
  <2>7. IntakeInv(i)'
    BY <2>2, <2>4, <2>5, <2>6 DEF IntakeInv, Cleared
  <2>8. \A j \in Intakes \ {i} : IntakeInv(j)'
    BY <1>a, <2>2, <2>3, IntakeLeftAlone DEF Cleared
  <2> QED BY <2>7, <2>8 DEF SessionInv
<1>2. ASSUME NEW i \in Intakes, MapTask(i) PROVE SessionInv'
  <2> DEFINE k == intake[i].next
  <2>0. UNCHANGED <<pool, submitted, sessionFile, ran>> /\ intake[i].at = "map"
    BY <1>2 DEF MapTask
  <2>1. k \in DOMAIN tasks[i]
    <3>1. tasks[i] \in Seq(Task) /\ intake[i].next \in Nat
      BY DEF IntakeTypeOK
    <3>2. k # 0 /\ k <= Len(tasks[i])
      BY <1>2, <1>a DEF MapTask, IntakeInv
    <3> QED BY <3>1, <3>2
  <2>2. /\ intake'[i].at \in {"map", "raised"} /\ intake'[i].wants = intake[i].wants
        /\ intake'[i].execute = intake[i].execute /\ (intake'[i].at = "map" => intake'[i].next # 0)
        /\ \A j \in Intakes \ {i} : intake'[j] = intake[j]
    <3>1. intake[i].next \in Nat
      BY DEF IntakeTypeOK
    <3>2. GoOn(i) => intake'[i].next = intake[i].next + 1
      BY DEF GoOn, IntakeTypeOK
    <3>3. GoOn(i) \/ Step(i, "raised")
      BY <1>2 DEF MapTask
    <3> QED BY <2>0, <3>1, <3>2, <3>3, IntakeMoves DEF IntakeStates
  <2>3. /\ \A j \in Intakes \ {i} : tasks'[j] = tasks[j]
        /\ DOMAIN tasks'[i] = DOMAIN tasks[i]
        /\ \A l \in DOMAIN tasks[i] : \/ tasks'[i][l] = tasks[i][l]
                                      \/ /\ tasks[i][l].status # "skipped" /\ tasks'[i][l].requirement = tasks[i][l].requirement
                                         /\ tasks'[i][l].status \in {"failed", tasks[i][l].status}
    <3>1. CASE UNCHANGED tasks
      BY <3>1
    <3>2. ASSUME NEW skill \in SkillNames \cup {NoSkill}, ~Skipped(i, k),
                 SetTask(i, k, skill, IF skill = NoSkill THEN "failed" ELSE tasks[i][k].status)
          PROVE  <2>3!1 /\ <2>3!2 /\ <2>3!3
      <4> DEFINE status == IF skill = NoSkill THEN "failed" ELSE tasks[i][k].status
      <4>1. status \in {"planned", "running", "ok", "failed", "skipped"}
        BY <1>c, <2>1 DEF Task
      <4>2. tasks[i][k].status # "skipped"
        BY <3>2 DEF Skipped
      <4>3. SetTask(i, k, skill, status) /\ status \in {"failed", tasks[i][k].status}
        BY <3>2
      <4> HIDE DEF status, k
      <4>4. /\ tasks'[i][k] = [requirement |-> tasks[i][k].requirement, skill |-> skill, status |-> status]
            /\ \A l \in DOMAIN tasks[i] \ {k} : tasks'[i][l] = tasks[i][l]
            /\ DOMAIN tasks'[i] = DOMAIN tasks[i] /\ \A j \in Intakes \ {i} : tasks'[j] = tasks[j]
        <5>1. SetTask(i, k, skill, status)
          BY <4>3
        <5> HIDE <4>3
        <5>2. /\ tasks'[i][k] = [requirement |-> tasks[i][k].requirement, skill |-> skill, status |-> status]
              /\ \A l \in DOMAIN tasks[i] \ {k} : tasks'[i][l] = tasks[i][l]
              /\ \A j \in Intakes \ {i} : tasks'[j] = tasks[j]
              /\ \A j \in Intakes : DOMAIN tasks'[j] = DOMAIN tasks[j]
          BY <2>1, <4>1, <5>1, TaskSet, ZenonT(90)
        <5> QED BY <5>2
      <4> QED BY <4>2, <4>3, <4>4
    <3> QED BY <1>2, <3>1, <3>2 DEF MapTask
  <2>4. ASSUME NEW l \in DOMAIN tasks[i] PROVE TaskInv(i, l)'
    <3>1. TaskInv(i, l) /\ ran[i][l] \in Nat
      BY <1>a, <1>b
    <3>2. ran[i][l] = 0 /\ l \notin pool[i] \cup submitted[i] /\ tasks[i][l].status \notin {"running", "ok"}
      BY <1>a, <2>0, <3>1 DEF TaskInv, IntakeInv
    <3>3. CASE tasks'[i][l] = tasks[i][l]
      BY <2>0, <2>2, <3>1, <3>2, <3>3 DEF TaskInv, Foreign
    <3>4. CASE tasks[i][l].status # "skipped" /\ tasks'[i][l].requirement = tasks[i][l].requirement
               /\ tasks'[i][l].status \in {"failed", tasks[i][l].status}
      BY <2>0, <2>2, <3>1, <3>2, <3>4 DEF TaskInv, Foreign
    <3> QED BY <2>3, <3>3, <3>4
  <2>5. pool[i] \cup submitted[i] = {}
    BY <1>a, <2>0 DEF IntakeInv
  <2>6. IntakeInv(i)'
    BY <1>a, <2>0, <2>2, <2>3, <2>4, <2>5, NotYetSaved DEF IntakeInv
  <2>7. \A j \in Intakes \ {i} : IntakeInv(j)'
    BY <1>a, <2>0, <2>2, <2>3, IntakeLeftAlone
  <2> QED BY <2>6, <2>7 DEF SessionInv
<1>d. ASSUME NEW i \in Intakes, NEW at \in IntakeStates, Step(i, at)
      PROVE  /\ intake'[i].at = at /\ intake'[i].wants = intake[i].wants /\ intake'[i].execute = intake[i].execute
             /\ \A j \in Intakes \ {i} : intake'[j] = intake[j]
  BY <1>d, IntakeMoves
<1>3. ASSUME NEW i \in Intakes, SubmitTasks(i) PROVE SessionInv'
  <2>1. UNCHANGED <<tasks, pool, sessionFile, ran>> /\ intake[i].at = "map"
    BY <1>3 DEF SubmitTasks
  <2>2. pool[i] = {} /\ submitted[i] = {}
    BY <1>a, <2>1 DEF IntakeInv
  <2>3. \A k \in DOMAIN tasks[i] : ran[i][k] = 0 /\ tasks[i][k].status \notin {"running", "ok"}
    <3>1. ASSUME NEW k \in DOMAIN tasks[i] PROVE ran[i][k] = 0 /\ tasks[i][k].status \notin {"running", "ok"}
      BY <1>a, <2>1 DEF TaskInv
    <3> QED BY <3>1
  <2>4. \A j \in Intakes \ {i} : intake'[j] = intake[j] /\ submitted'[j] = submitted[j]
    <3>1. Step(i, "execute") \/ Step(i, "save")
      BY <1>3 DEF SubmitTasks
    <3>2. "execute" \in IntakeStates /\ "save" \in IntakeStates
      BY DEF IntakeStates
    <3>3. \A j \in Intakes \ {i} : intake'[j] = intake[j]
      BY <1>d, <3>1, <3>2
    <3>4. \A j \in Intakes \ {i} : submitted'[j] = submitted[j]
      BY <1>3, <1>b DEF SubmitTasks
    <3> QED BY <3>3, <3>4
  <2>5. ASSUME intake[i].execute, Step(i, "execute"),
               submitted' = [submitted EXCEPT ![i] = {k \in DOMAIN tasks[i] : tasks[i][k].status # "failed"}]
        PROVE  IntakeInv(i)'
    <3>1. intake'[i].at = "execute" /\ intake'[i].wants = intake[i].wants /\ intake'[i].execute
      BY <1>d, <2>5 DEF IntakeStates
    <3>2. submitted'[i] = {k \in DOMAIN tasks[i] : tasks[i][k].status # "failed"}
      BY <1>b, <2>5
    <3>3. ASSUME NEW k \in DOMAIN tasks[i] PROVE TaskInv(i, k)'
      <4>1. TaskInv(i, k)
        BY <1>a
      <4> QED BY <2>1, <2>2, <2>3, <3>1, <3>2, <4>1 DEF TaskInv, Foreign
    <3> QED BY <1>a, <2>1, <3>1, <3>3, NotYetSaved DEF IntakeInv
  <2>6. ASSUME ~intake[i].execute, Step(i, "save"), UNCHANGED submitted PROVE IntakeInv(i)'
    <3>1. intake'[i].at = "save" /\ intake'[i].wants = intake[i].wants /\ ~intake'[i].execute
      BY <1>d, <2>6 DEF IntakeStates
    <3>2. ASSUME NEW k \in DOMAIN tasks[i] PROVE TaskInv(i, k)'
      <4>1. TaskInv(i, k)
        BY <1>a
      <4> QED BY <2>1, <2>2, <2>3, <2>6, <3>1, <4>1 DEF TaskInv, Foreign
    <3> QED BY <1>a, <2>1, <2>2, <2>6, <3>1, <3>2, NotYetSaved DEF IntakeInv
  <2>7. IntakeInv(i)'
    BY <1>3, <2>5, <2>6 DEF SubmitTasks
  <2>8. \A j \in Intakes \ {i} : IntakeInv(j)'
    BY <1>a, <2>1, <2>4, IntakeLeftAlone
  <2> QED BY <2>7, <2>8 DEF SessionInv
<1>e. ASSUME NEW i \in Intakes, NEW k \in DOMAIN tasks[i],
             NEW status \in {"running", "ok", "failed", "skipped"}, SetStatus(i, k, status)
      PROVE  /\ tasks'[i][k].requirement = tasks[i][k].requirement /\ tasks'[i][k].skill = tasks[i][k].skill
             /\ tasks'[i][k].status = status
             /\ \A l \in DOMAIN tasks[i] \ {k} : tasks'[i][l] = tasks[i][l]
             /\ DOMAIN tasks'[i] = DOMAIN tasks[i] /\ \A j \in Intakes \ {i} : tasks'[j] = tasks[j]
  <2> DEFINE skill == tasks[i][k].skill
  <2>1. skill \in SkillNames \cup {NoSkill} /\ status \in {"planned", "running", "ok", "failed", "skipped"}
    BY <1>c DEF Task
  <2>2. SetTask(i, k, skill, status)
    BY <1>e DEF SetStatus
  <2> HIDE DEF skill
  <2>3. /\ tasks'[i][k] = [requirement |-> tasks[i][k].requirement, skill |-> skill, status |-> status]
        /\ \A l \in DOMAIN tasks[i] \ {k} : tasks'[i][l] = tasks[i][l]
        /\ \A j \in Intakes \ {i} : tasks'[j] = tasks[j]
        /\ \A j \in Intakes : DOMAIN tasks'[j] = DOMAIN tasks[j]
    BY <2>1, <2>2, TaskSet, ZenonT(90)
  <2> QED BY <2>3 DEF skill
<1>4. ASSUME NEW i \in Intakes, NEW k \in DOMAIN tasks[i], BeginTask(i, k) PROVE SessionInv'
  <2>1. UNCHANGED <<intake, sessionFile>> /\ k \in submitted[i] /\ submitted' = [submitted EXCEPT ![i] = submitted[i] \ {k}]
    BY <1>4 DEF BeginTask
  <2>2. PICK status \in {"running", "failed", "skipped"} :
          /\ SetStatus(i, k, status) /\ (status = "skipped" <=> tasks[i][k].skill = NoSkill)
          /\ IF status = "running"
             THEN /\ pool' = [pool EXCEPT ![i] = pool[i] \cup {k}]
                  /\ ran' = [ran EXCEPT ![i] = [ran[i] EXCEPT ![k] = ran[i][k] + 1]]
             ELSE UNCHANGED <<pool, ran>>
    BY <1>4 DEF BeginTask
  <2>3. /\ tasks'[i][k].requirement = tasks[i][k].requirement /\ tasks'[i][k].skill = tasks[i][k].skill
        /\ tasks'[i][k].status = status
        /\ \A l \in DOMAIN tasks[i] \ {k} : tasks'[i][l] = tasks[i][l]
        /\ DOMAIN tasks'[i] = DOMAIN tasks[i] /\ \A j \in Intakes \ {i} : tasks'[j] = tasks[j]
    BY <1>e, <2>2
  <2>4. /\ intake[i].execute /\ intake[i].at \in {"execute", "raising"} /\ ran[i][k] = 0
        /\ Foreign(i, tasks[i][k].requirement) => tasks[i][k].skill = NoSkill
    BY <1>a, <2>1 DEF IntakeInv, TaskInv
  <2>5. /\ submitted'[i] = submitted[i] \ {k}
        /\ pool'[i] = IF status = "running" THEN pool[i] \cup {k} ELSE pool[i]
        /\ \A j \in Intakes \ {i} : submitted'[j] = submitted[j] /\ pool'[j] = pool[j]
    BY <1>b, <2>1, <2>2
  <2>6. /\ ran'[i][k] = IF status = "running" THEN 1 ELSE 0
        /\ \A l \in DOMAIN tasks[i] \ {k} : ran'[i][l] = ran[i][l]
        /\ \A j \in Intakes \ {i} : ran'[j] = ran[j]
    <3>1. CASE status = "running"
      BY <2>2, <2>4, <3>1, RanOnce
    <3>2. CASE status # "running"
      BY <2>2, <2>4, <3>2
    <3> QED BY <3>1, <3>2
  <2>7. ASSUME NEW l \in DOMAIN tasks[i] PROVE TaskInv(i, l)'
    <3>1. TaskInv(i, l)
      BY <1>a
    <3>2. CASE l = k
      <4>1. k \notin submitted'[i] /\ (k \in pool'[i] => status = "running")
        <5>1. k \notin pool[i]
          BY <2>1 DEF IntakeTypeOK
        <5> QED BY <2>5, <5>1
      <4>2. status = "running" => k \in pool'[i]
        BY <2>5
      <4>3. Foreign(i, tasks[i][k].requirement)' => status = "skipped" /\ tasks'[i][k].skill = NoSkill
        BY <2>1, <2>2, <2>3, <2>4 DEF Foreign
      <4> QED BY <2>1, <2>2, <2>3, <2>4, <2>6, <3>2, <4>1, <4>2, <4>3 DEF TaskInv
    <3>3. CASE l # k
      BY <2>1, <2>3, <2>5, <2>6, <3>1, <3>3 DEF TaskInv, Foreign
    <3> QED BY <3>2, <3>3
  <2>8. IntakeInv(i)'
    BY <1>a, <2>1, <2>3, <2>4, <2>5, <2>7, NotYetSaved DEF IntakeInv
  <2>9. \A j \in Intakes \ {i} : IntakeInv(j)'
    BY <1>a, <2>1, <2>3, <2>5, <2>6, IntakeLeftAlone
  <2> QED BY <2>8, <2>9 DEF SessionInv
<1>5. ASSUME NEW i \in Intakes, NEW k \in DOMAIN tasks[i], EndTask(i, k) PROVE SessionInv'
  <2>1. /\ UNCHANGED <<submitted, ran, sessionFile>> /\ k \in pool[i] /\ pool' = [pool EXCEPT ![i] = pool[i] \ {k}]
    BY <1>5 DEF EndTask
  <2>2. pool'[i] = pool[i] \ {k} /\ \A j \in Intakes \ {i} : pool'[j] = pool[j]
    BY <1>b, <2>1
  <2>3. /\ intake[i].execute /\ intake[i].at \in {"execute", "raising"} /\ k \notin submitted[i]
        /\ tasks[i][k].status = "running" /\ ran[i][k] = 1 /\ ~Foreign(i, tasks[i][k].requirement)
        /\ tasks[i][k].skill # NoSkill
    <3>1. k \notin submitted[i]
      BY <2>1 DEF IntakeTypeOK
    <3>2. TaskInv(i, k)
      BY <1>a
    <3> QED BY <1>a, <2>1, <3>1, <3>2 DEF IntakeInv, TaskInv
  <2>4. ASSUME NEW status \in {"ok", "failed"}, SetStatus(i, k, status), UNCHANGED intake PROVE SessionInv'
    <3>1. /\ tasks'[i][k].requirement = tasks[i][k].requirement /\ tasks'[i][k].skill = tasks[i][k].skill
          /\ tasks'[i][k].status = status
          /\ \A l \in DOMAIN tasks[i] \ {k} : tasks'[i][l] = tasks[i][l]
          /\ DOMAIN tasks'[i] = DOMAIN tasks[i] /\ \A j \in Intakes \ {i} : tasks'[j] = tasks[j]
      BY <1>e, <2>4
    <3>2. ASSUME NEW l \in DOMAIN tasks[i] PROVE TaskInv(i, l)'
      <4>1. TaskInv(i, l)
        BY <1>a
      <4>2. CASE l = k
        BY <2>1, <2>2, <2>3, <2>4, <3>1, <4>2 DEF TaskInv, Foreign
      <4>3. CASE l # k
        BY <2>1, <2>2, <2>4, <3>1, <4>1, <4>3 DEF TaskInv, Foreign
      <4> QED BY <4>2, <4>3
    <3>3. IntakeInv(i)'
      BY <1>a, <2>1, <2>2, <2>3, <2>4, <3>1, <3>2, NotYetSaved DEF IntakeInv
    <3>4. \A j \in Intakes \ {i} : IntakeInv(j)'
      BY <1>a, <2>1, <2>2, <2>4, <3>1, IntakeLeftAlone
    <3> QED BY <3>3, <3>4 DEF SessionInv
  <2>5. ASSUME Step(i, "raising"), UNCHANGED tasks PROVE SessionInv'
    <3>1. /\ intake'[i].at = "raising" /\ intake'[i].wants = intake[i].wants /\ intake'[i].execute = intake[i].execute
          /\ \A j \in Intakes \ {i} : intake'[j] = intake[j]
      BY <1>d, <2>5 DEF IntakeStates
    <3>2. ASSUME NEW l \in DOMAIN tasks[i] PROVE TaskInv(i, l)'
      <4>1. TaskInv(i, l)
        BY <1>a
      <4> QED BY <2>1, <2>2, <2>3, <2>5, <3>1, <4>1 DEF TaskInv, Foreign
    <3>3. IntakeInv(i)'
      BY <1>a, <2>1, <2>2, <2>3, <2>5, <3>1, <3>2, NotYetSaved DEF IntakeInv
    <3>4. \A j \in Intakes \ {i} : IntakeInv(j)'
      BY <1>a, <2>1, <2>2, <2>5, <3>1, IntakeLeftAlone
    <3> QED BY <3>3, <3>4 DEF SessionInv
  <2> QED BY <1>5, <2>4, <2>5 DEF EndTask
<1>6. ASSUME NEW i \in Intakes, JoinPool(i) PROVE SessionInv'
  <2>1. /\ UNCHANGED <<tasks, pool, submitted, sessionFile, ran>> /\ pool[i] = {} /\ submitted[i] = {}
        /\ intake[i].at \in {"execute", "raising"}
    BY <1>6 DEF JoinPool
  <2>2. /\ intake'[i].at = (IF intake[i].at = "execute" THEN "save" ELSE "raised")
        /\ intake'[i].wants = intake[i].wants /\ intake'[i].execute = intake[i].execute
        /\ \A j \in Intakes \ {i} : intake'[j] = intake[j]
    BY <1>6, <1>d DEF JoinPool, IntakeStates
  <2>3. ASSUME NEW l \in DOMAIN tasks[i] PROVE TaskInv(i, l)'
    <3>1. TaskInv(i, l)
      BY <1>a
    <3> QED BY <2>1, <2>2, <3>1 DEF TaskInv, Foreign
  <2>4. IntakeInv(i)'
    BY <1>a, <2>1, <2>2, <2>3, NotYetSaved DEF IntakeInv
  <2>5. \A j \in Intakes \ {i} : IntakeInv(j)'
    BY <1>a, <2>1, <2>2, IntakeLeftAlone
  <2> QED BY <2>4, <2>5 DEF SessionInv
<1>7. ASSUME NEW i \in Intakes, SaveSession(i) PROVE SessionInv'
  <2>1. /\ UNCHANGED <<tasks, pool, submitted, ran>> /\ intake[i].at = "save" /\ Step(i, "done")
        /\ sessionFile' = [by |-> i, tasks |-> tasks[i]]
    BY <1>7 DEF SaveSession
  <2>2. /\ intake'[i].at = "done" /\ intake'[i].wants = intake[i].wants /\ intake'[i].execute = intake[i].execute
        /\ \A j \in Intakes \ {i} : intake'[j] = intake[j]
    BY <1>d, <2>1 DEF IntakeStates
  <2>3. ASSUME NEW l \in DOMAIN tasks[i] PROVE TaskInv(i, l)'
    <3>1. TaskInv(i, l)
      BY <1>a
    <3> QED BY <2>1, <2>2, <3>1 DEF TaskInv, Foreign
  <2>4. IntakeInv(i)'
    BY <1>a, <2>1, <2>2, <2>3 DEF IntakeInv
  <2>5. \A j \in Intakes \ {i} : IntakeInv(j)'
    BY <1>a, <2>1, <2>2, IntakeLeftAlone
  <2> QED BY <2>4, <2>5 DEF SessionInv
<1>8. ASSUME UNCHANGED <<intake, tasks, pool, submitted, sessionFile, ran>> PROVE SessionInv'
  BY <1>a, <1>8, IntakeLeftAlone DEF SessionInv
<1> QED BY <1>1, <1>2, <1>3, <1>4, <1>5, <1>6, <1>7, <1>8 DEF IntakeNext, EditManifest, intakeVars

\* What holds of every intake at every step.
LEMMA SessionInvariance == IntakeSpec => [](IntakeTypeOK /\ SessionInv)
<1>1. IntakeInit => IntakeTypeOK /\ SessionInv
  <2> SUFFICES ASSUME IntakeInit PROVE IntakeTypeOK /\ SessionInv
    OBVIOUS
  <2>1. <<>> \in Seq(Task) /\ DOMAIN <<>> = {} /\ Nat \cap {} = {}
    OBVIOUS
  <2>2. skillDirs \in [SkillNames -> [made : {"absent", "owner", "template", "stub"},
                                     manifest : {"good", "broken", "empty"}, about : SUBSET Requirements]]
    BY IntakeAssumption DEF IntakeInit, NoDir
  <2>3. \A i \in Intakes : tasks[i] = <<>> /\ ran[i] = [k \in {} |-> 0] /\ pool[i] = {} /\ submitted[i] = {}
                           /\ intake[i] = NotStarted
    BY <2>1 DEF IntakeInit
  <2>4. IntakeTypeOK
    BY <2>1, <2>2, <2>3, IntakeAssumption DEF IntakeInit, IntakeTypeOK, NotStarted, NoSession, IntakeStates
  <2>5. SessionInv
    BY <2>1, <2>3 DEF IntakeInit, SessionInv, IntakeInv, NotStarted, NoSession
  <2> QED BY <2>4, <2>5
<1> QED BY <1>1, IntakeTypeStep, SessionInvStep, PTL DEF IntakeSpec

\* The intakes, their tasks, the skills and the session file keep their types.
THEOREM IntakeTypes == IntakeSpec => []IntakeTypeOK
BY SessionInvariance, PTL

\* SessionTrue: the session file says of each task what became of it.
THEOREM SessionsAreTrue == IntakeSpec => []SessionTrue
<1>1. IntakeTypeOK /\ SessionInv => SessionTrue
  <2> SUFFICES ASSUME IntakeTypeOK, SessionInv, NEW i \in Intakes, sessionFile.by = i,
                      NEW k \in DOMAIN sessionFile.tasks
               PROVE  LET task == sessionFile.tasks[k]
                          foreign == intake[i].wants \notin {"all", RoleOf[task.requirement]} IN
                      /\ task.status # "running" /\ ran[i][k] <= 1 /\ (task.status = "ok" => ran[i][k] = 1)
                      /\ (task.status = "planned" => ~intake[i].execute)
                      /\ (foreign => task.status = "skipped") /\ (foreign \/ ~intake[i].execute => ran[i][k] = 0)
    BY DEF SessionTrue
  <2>1. intake[i].at = "done" /\ sessionFile.tasks = tasks[i] /\ pool[i] = {} /\ submitted[i] = {}
    BY DEF SessionInv, IntakeInv
  <2>2. TaskInv(i, k)
    BY <2>1 DEF SessionInv, IntakeInv
  <2>3. ran[i][k] \in Nat
    BY <2>1 DEF IntakeTypeOK
  <2> QED BY <2>1, <2>2, <2>3 DEF TaskInv, Foreign
<1> QED BY <1>1, SessionInvariance, PTL

-----------------------------------------------------------------------------
\* All of them.

\* A behaviour of all of them is one of each of them: where a behaviour is about
\* another, this one stays as it starts.
LEMMA ServicesParts ==
  ServicesSpec => /\ Spec /\ JobsSpec /\ RateSpec /\ LLMSpec
                  /\ PolicySpec /\ SentinelSpec /\ IntakeSpec /\ OrchSpec
                  /\ BenchSpec /\ QASpec /\ ScanSpec /\ DeploySpec
<1>1. ServicesInit => /\ Init /\ JobsInit /\ RateInit /\ LLMInit
                      /\ PolicyInit /\ SentinelInit /\ IntakeInit /\ OrchInit
                      /\ BenchInit /\ QAInit /\ ScanInit /\ DeployInit
  BY DEF ServicesInit
<1>2. [ServicesNext]_ServicesVars => [Next]_vars
  BY DEF ServicesNext, ServicesVars
<1>3. [ServicesNext]_ServicesVars => [JobsNext]_jobVars
  BY DEF ServicesNext, ServicesVars
<1>4. [ServicesNext]_ServicesVars => [RateNext]_rateVars
  BY DEF ServicesNext, ServicesVars
<1>5. [ServicesNext]_ServicesVars => [LLMNext]_llmVars
  BY DEF ServicesNext, ServicesVars
<1>6. [ServicesNext]_ServicesVars => [PolicyNext]_policyVars
  BY DEF ServicesNext, ServicesVars
<1>7. [ServicesNext]_ServicesVars => [SentinelNext]_sentinelVars
  BY DEF ServicesNext, ServicesVars
<1>8. [ServicesNext]_ServicesVars => [IntakeNext]_intakeVars
  BY DEF ServicesNext, ServicesVars
<1>9. [ServicesNext]_ServicesVars => [OrchNext]_orchVars
  BY DEF ServicesNext, ServicesVars
<1>10. [ServicesNext]_ServicesVars => [BenchNext]_benchVars
  BY DEF ServicesNext, ServicesVars
<1>11. [ServicesNext]_ServicesVars => [QANext]_qaVars
  BY DEF ServicesNext, ServicesVars
<1>12. [ServicesNext]_ServicesVars => [ScanNext]_scanVars
  BY DEF ServicesNext, ServicesVars
<1>13. [ServicesNext]_ServicesVars => [DeployNext]_deployVars
  BY DEF ServicesNext, ServicesVars
<1> QED BY <1>1, <1>2, <1>3, <1>4, <1>5, <1>6, <1>7, <1>8, <1>9, <1>10, <1>11, <1>12, <1>13, PTL
        DEF ServicesSpec, Spec, JobsSpec, RateSpec, LLMSpec, PolicySpec, SentinelSpec, IntakeSpec, OrchSpec, BenchSpec, QASpec, ScanSpec, DeploySpec

\* The types of the services, and the invariants the proofs above are built on, hold of
\* all of them together, where one job runs at a time, each orchestration is a process of
\* its own and scenarios run one after the other.
THEOREM ServicesTypes == ~SeveralRunners /\ OwnProcess /\ Parallels = {FALSE} => (ServicesSpec => []ServicesTypesOK)
<1> SUFFICES ASSUME ~SeveralRunners /\ OwnProcess /\ Parallels = {FALSE} PROVE ServicesSpec => []ServicesTypesOK
  OBVIOUS
<1> QED BY ServicesParts, TypeCorrect, JobsInvariance, RateTypes, LLMInvariance, PolicyTypes,
        SentinelTypes, SentinelInvariance, SessionInvariance, DirInvariance, BenchTypes,
        BenchInvariance, QAInvariance, ScanTypes, ScanInvariance, DeployInvariance, PTL DEF
        ServicesTypesOK
=============================================================================
