------------------------------ MODULE Deployment ------------------------------
(* skills/deploy/run.py: pull, install, build, up, health check and tests, one   *)
(* after the other, on a host where commits keep arriving.  Nothing keeps two    *)
(* deployments apart; versions are numbers of commits.                           *)
EXTENDS Naturals, FiniteSets

CONSTANTS Deployments, MaxCommits, HealthRetries, DeployOverlap

ASSUME DeployAssumption == MaxCommits \in Nat /\ HealthRetries \in Nat \ {0} /\ DeployOverlap \in BOOLEAN

VARIABLES
  remote, checkout, installed, image, running,   \* the commit each of them is at
  healthy,     \* whether the dashboard answers
  deployment,  \* deployment -> [at, pulled, building, attempts, exit]
  audit        \* audit log: deployment -> the entries it made

deployVars == <<remote, checkout, installed, image, running, healthy, deployment, audit>>

NotBegun == [at |-> "new", pulled |-> 0, building |-> 0, attempts |-> 0, exit |-> "none"]

DeployInit ==
  /\ remote = 0 /\ checkout = 0 /\ installed = 0 /\ image = 0 /\ running = 0 /\ healthy = TRUE
  /\ deployment = [d \in Deployments |-> NotBegun] /\ audit = [d \in Deployments |-> {}]

Over == {"new", "ended", "raised"}
InStage(d, stage) == deployment[d].at = stage
Go(d, stage) == deployment' = [deployment EXCEPT ![d].at = stage]
\* _audit_log swallows what it cannot write.
Log(d, entry) == UNCHANGED audit \/ audit' = [audit EXCEPT ![d] = @ \cup {entry}]
HostUnchanged == UNCHANGED <<checkout, installed, image, running, healthy>>

StartDeploy(d) ==
  /\ InStage(d, "new") /\ (DeployOverlap \/ \A e \in Deployments : deployment[e].at \in Over)
  /\ Go(d, "pull") /\ Log(d, "start") /\ UNCHANGED remote /\ HostUnchanged

\* A command that fails or is killed may have done its work.
HalfDone(d) ==
  /\ installed' \in IF InStage(d, "install") THEN {installed, checkout} ELSE {installed}
  /\ running' \in IF InStage(d, "up") THEN {running, image} ELSE {running}
  /\ healthy' \in IF InStage(d, "up") THEN BOOLEAN ELSE {healthy}
  /\ UNCHANGED <<remote, checkout, image>>

\* A step whose command fails is told, logged and ends the deployment.
DeployStepFails(d) ==
  /\ deployment[d].at \in {"pull", "install", "build", "building", "up", "tests"}
  /\ deployment' = [deployment EXCEPT ![d].at = "ended", ![d].exit = "2"]
  /\ Log(d, "fail") /\ HalfDone(d)

\* subprocess.run kills the command after 300 s and raises TimeoutExpired, which nothing
\* catches: no log entry, no message.
StepTimesOut(d) ==
  /\ deployment[d].at \in {"pull", "install", "build", "building", "up", "tests"}
  /\ deployment' = [deployment EXCEPT ![d].at = "raised", ![d].exit = "1"]
  /\ UNCHANGED audit /\ HalfDone(d)

\* git pull --ff-only.
GitPull(d) ==
  /\ InStage(d, "pull") /\ checkout' = remote
  /\ deployment' = [deployment EXCEPT ![d].at = "install", ![d].pulled = remote]
  /\ UNCHANGED <<remote, installed, image, running, healthy, audit>>

PipInstall(d) ==
  /\ InStage(d, "install") /\ installed' = checkout /\ Go(d, "build")
  /\ UNCHANGED <<remote, checkout, image, running, healthy, audit>>

\* docker compose build takes the context when it begins and tags the image when it is done.
BeginBuild(d) ==
  /\ InStage(d, "build")
  /\ deployment' = [deployment EXCEPT ![d].at = "building", ![d].building = checkout]
  /\ UNCHANGED <<remote, audit>> /\ HostUnchanged

EndBuild(d) ==
  /\ InStage(d, "building") /\ image' = deployment[d].building /\ Go(d, "up")
  /\ UNCHANGED <<remote, checkout, installed, running, healthy, audit>>

\* Mutant: the containers that run are left as they are.
DockerStart(d) ==
  /\ InStage(d, "up") /\ running' = running /\ healthy' \in BOOLEAN /\ Go(d, "health")
  /\ UNCHANGED <<remote, checkout, installed, image, audit>>

\* docker compose up -d makes the containers of an older image anew; they may not come up.
DockerUp(d) ==
  /\ InStage(d, "up") /\ running' = image /\ healthy' \in BOOLEAN /\ Go(d, "health")
  /\ UNCHANGED <<remote, checkout, installed, image, audit>>

HealthCheck(d) ==
  LET attempt == deployment[d].attempts + 1 IN
  /\ InStage(d, "health")
  /\ \/ healthy /\ Go(d, "tests") /\ UNCHANGED audit
     \/ attempt < HealthRetries /\ deployment' = [deployment EXCEPT ![d].attempts = attempt] /\ UNCHANGED audit
     \/ /\ attempt = HealthRetries /\ Log(d, "fail")
        /\ deployment' = [deployment EXCEPT ![d].at = "ended", ![d].exit = "1"]
  /\ UNCHANGED remote /\ HostUnchanged

QuickTests(d) ==
  /\ InStage(d, "tests")
  /\ deployment' = [deployment EXCEPT ![d].at = "ended", ![d].exit = "0"]
  /\ Log(d, "success") /\ UNCHANGED remote /\ HostUnchanged

\* Bound: MaxCommits.
PushCommits == remote < MaxCommits /\ remote' = remote + 1 /\ UNCHANGED <<deployment, audit>> /\ HostUnchanged

\* Containers come up late or fail.
ServiceMoves == healthy' = ~healthy /\ UNCHANGED <<remote, checkout, installed, image, running, deployment, audit>>

DeployNext ==
  \/ \E d \in Deployments : \/ StartDeploy(d) \/ DeployStepFails(d) \/ StepTimesOut(d) \/ GitPull(d) \/ PipInstall(d)
                            \/ BeginBuild(d) \/ EndBuild(d) \/ DockerUp(d) \/ HealthCheck(d) \/ QuickTests(d)
  \/ PushCommits \/ ServiceMoves

DeploySpec == DeployInit /\ [][DeployNext]_deployVars

DeployState ==
  [at : Over \cup {"pull", "install", "build", "building", "up", "health", "tests"},
   pulled : 0 .. MaxCommits, building : 0 .. MaxCommits, attempts : 0 .. HealthRetries,
   exit : {"none", "0", "1", "2"}]

DeployTypeOK ==
  /\ remote \in 0 .. MaxCommits /\ checkout \in 0 .. MaxCommits /\ installed \in 0 .. MaxCommits
  /\ image \in 0 .. MaxCommits /\ running \in 0 .. MaxCommits /\ healthy \in BOOLEAN
  /\ deployment \in [Deployments -> DeployState]
  /\ audit \in [Deployments -> SUBSET {"start", "fail", "success"}]

\* How far a deployment that is alone has brought the host.
BroughtTo(d) ==
  LET here == deployment[d] IN
  /\ here.at = "new" => audit[d] = {}
  /\ here.at \notin Over => audit[d] \subseteq {"start"}
  /\ here.at \notin Over \cup {"pull"} => checkout = here.pulled
  /\ here.at \notin Over \cup {"pull", "install"} => installed = here.pulled
  /\ here.at = "building" => here.building = here.pulled
  /\ here.at \in {"up", "health", "tests"} => image = here.pulled
  /\ here.at \in {"health", "tests"} => running = here.pulled

DeployInv ==
  ~DeployOverlap =>
    /\ \A d, e \in Deployments : d = e \/ deployment[d].at \in Over \/ deployment[e].at \in Over
    /\ \A d \in Deployments : BroughtTo(d)

(* deploy(): a deployment that ends with status 0 leaves the host with the     *)
(* code it pulled, in the containers and in the environment, and no failure    *)
(* stands in its audit log.                                                    *)
SuccessRuns ==
  [][\A d \in Deployments : deployment'[d].exit = "0" /\ deployment[d].exit = "none" =>
       /\ running' = deployment[d].pulled /\ installed' = deployment[d].pulled
       /\ "fail" \notin audit'[d]]_deployVars

(* It has logged its start and its success, which the code does not keep:      *)
(* _audit_log passes over an entry it cannot write (deploy/run.py:65-72).      *)
SuccessLogged == \A d \in Deployments : deployment[d].exit = "0" => audit[d] = {"start", "success"}

(* A finished deployment is not undone: the host never runs an older commit    *)
(* again.                                                                      *)
NeverOlder == [][running' >= running]_deployVars
==============================================================================
