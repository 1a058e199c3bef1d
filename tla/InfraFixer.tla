------------------------------- MODULE InfraFixer -------------------------------
(* superpowers/infra_fixer.py: one cycle of run_check after another (the      *)
(* infra-fixer skill), each of them a listing, an inspection of what does not *)
(* run well, and then docker commands one by one, while docker and the owner  *)
(* go on moving the containers of DockerFleet.                                *)
EXTENDS DockerFleet

CONSTANTS Expected,      \* containers in an expected_running list
          ProjectOf,     \* the compose project of each container
          Composed,      \* projects whose docker-compose.yml the fixer finds
          FixerThreshold \* CRASH_LOOP_THRESHOLD

VARIABLES fixer \* pc, listed statuses, crash loops to stop, containers to start

NoCycle == [pc |-> "idle", seen |-> [c \in Conts |-> "up"], loops |-> {}, skip |-> {}, down |-> {}]

FixerInit == fixer = NoCycle

\* docker ps -a; if it fails nothing is fixed in this cycle.
Gather == /\ fixer.pc = "idle"
          /\ fixer' = [fixer EXCEPT !.pc = "inspect", !.seen = [c \in Conts |-> cont[c].st]]
          /\ UNCHANGED fleetVars

\* Crash loops are not told from other stopped containers.
DiagnoseBlind ==
    /\ fixer.pc = "inspect"
    /\ fixer' = [fixer EXCEPT !.pc = "fix", !.skip = {c \in Conts : fixer.seen[c] = "exited"},
                              !.down = {c \in Expected : fixer.seen[c] \in {"restarting", "exited"}}]
    /\ UNCHANGED fleetVars

\* The restart counts of the containers that were not plainly up; an inspect
\* that fails leaves the count at zero. Then what the checks make of it: crash
\* loops are stopped, other expected containers that do not run are started.
Diagnose ==
    /\ fixer.pc = "inspect"
    /\ \E failed \in SUBSET {c \in Conts : fixer.seen[c] # "up"} :
         LET loops == {c \in Conts \ failed : fixer.seen[c] # "up" /\ cont[c].restarts >= FixerThreshold}
         IN fixer' = [fixer EXCEPT !.pc = "fix", !.loops = loops, !.skip = loops,
                                   !.down = {c \in Expected : fixer.seen[c] \in {"restarting", "exited"}}]
    /\ UNCHANGED fleetVars

\* apply_fixes, first loop: docker stop. A command that fails is only noted.
StopLoop(c) == /\ fixer.pc = "fix" /\ c \in fixer.loops
               /\ fixer' = [fixer EXCEPT !.loops = @ \ {c}]
               /\ cont' \in {cont, Stopped(c)}
               /\ UNCHANGED <<faults, programs>>

\* Second loop: docker compose up -d for the whole project of a container that
\* was listed as stopped, unless it is one of the crash loops.
StartDown(c, ok) ==
    /\ fixer.pc = "fix" /\ fixer.loops = {} /\ c \in fixer.down
    /\ fixer' = [fixer EXCEPT !.down = @ \ {c}]
    /\ cont' = IF ok /\ c \notin fixer.skip /\ ProjectOf[c] \in Composed
               THEN Started({d \in Conts : ProjectOf[d] = ProjectOf[c]})
               ELSE cont
    /\ UNCHANGED <<faults, programs>>

EndCycle == /\ fixer.pc = "fix" /\ fixer.loops = {} /\ fixer.down = {}
            /\ fixer' = NoCycle
            /\ UNCHANGED fleetVars

InstalledFixer == "fixer" \in programs

FixerStep == /\ InstalledFixer
             /\ \/ Gather \/ Diagnose \/ EndCycle
                \/ \E c \in Conts : StopLoop(c) \/ \E ok \in BOOLEAN : StartDown(c, ok)

FixerNext == FixerStep \/ (FleetNext /\ UNCHANGED fixer)

\* The skill is run again and again, and of many commands docker obeys one.
FixerFairness == /\ WF_<<fixer, fleetVars>>(FixerStep)
                 /\ \A c \in Conts : SF_<<fixer, fleetVars>>(InstalledFixer /\ StartDown(c, TRUE))

FixerSpec == FleetInit /\ FixerInit /\ [][FixerNext]_<<fixer, fleetVars>> /\ FixerFairness

FixerTypeOK == fixer \in [pc : {"idle", "inspect", "fix"},
                          seen : [Conts -> {"up", "unhealthy", "restarting", "exited"}],
                          loops : SUBSET Conts, skip : SUBSET Conts, down : SUBSET Expected]

\* What is to be stopped is not to be started, and no cycle leaves work to the
\* next one.
OneCycle == /\ fixer.loops \subseteq fixer.skip
            /\ fixer.pc # "fix" => fixer.loops = {} /\ fixer.skip = {} /\ fixer.down = {}

\* An expected container that is stopped below the threshold, in a project with
\* a compose file, is started again, whatever the listing missed.
Restored == \A c \in Expected : ProjectOf[c] \in Composed =>
    ("fixer" \in programs /\ cont[c].st = "exited" /\ cont[c].restarts < FixerThreshold)
        ~> cont[c].st # "exited"

\* apply_fixes, "Don't restart something we just stopped": a cycle that stopped
\* a crash loop starts only other containers.
StoppedStays == [][\A c \in Conts :
    (fixer.pc = "fix" /\ c \in fixer.skip /\ fixer' # fixer) =>
        ~(cont[c].st = "exited" /\ cont'[c].st # "exited")]_<<fixer, fleetVars>>
================================================================================
