--------------------------- MODULE CloudflaredMonitor ---------------------------
(* superpowers/cloudflared_monitor.py: run_check of the cloudflared-fixer     *)
(* skill, which inspects the tunnel's container, diagnoses it and acts, over  *)
(* the containers of DockerFleet.                                             *)
EXTENDS DockerFleet

CONSTANTS Tunnel,           \* the container of the tunnel
          HereProject,      \* containers of the compose project of the working directory
          MonitorThreshold  \* CRASH_LOOP_THRESHOLD

ASSUME MonitorAssumption == Tunnel \in Conts /\ HereProject \subseteq Conts

VARIABLES monitor \* pc, what was inspected, and the diagnosis

monitorVars == <<monitor, fleetVars>>
NoCheck == [pc |-> "idle", st |-> "up", restarts |-> 0, status |-> "unknown"]

MonitorInit == monitor = NoCheck

\* get_container_state; an inspect that fails ends the check.
Inspect == /\ monitor.pc = "idle"
           /\ monitor' = [monitor EXCEPT !.pc = "diagnose", !.st = cont[Tunnel].st,
                                         !.restarts = cont[Tunnel].restarts]
           /\ UNCHANGED fleetVars

\* diagnose: the token in .env, the restart count, patterns in the last log
\* lines. Only a bad token asks for the owner.
DiagnoseTunnel ==
    /\ monitor.pc = "diagnose"
    /\ \E network \in BOOLEAN :
         LET bad == cont[Tunnel].config = "placeholder"
             loop == monitor.restarts >= MonitorThreshold
         IN monitor' = [monitor EXCEPT
              !.pc = IF bad /\ ~loop THEN "idle" ELSE "fix",
              !.status = IF loop THEN "crash_loop"
                         ELSE IF bad \/ monitor.st = "exited" THEN "down"
                         ELSE IF network THEN "degraded" ELSE "healthy"]
    /\ UNCHANGED fleetVars

\* apply_fixes: a crash loop is stopped, with a bad token or not.
StopTunnel == /\ monitor.pc = "fix" /\ monitor.status = "crash_loop"
              /\ cont' \in {cont, Stopped(Tunnel)}
              /\ monitor' = NoCheck
              /\ UNCHANGED <<faults, programs>>

\* docker compose restart after a network error, or up -d for a tunnel that is
\* down: both without a directory or a file, so for the project docker finds
\* from the working directory of the skill.
ComposeUp(S) == /\ monitor.pc = "fix" /\ monitor.status # "crash_loop" /\ monitor.st = "exited"
                /\ cont' \in {cont, Started(S)}
                /\ monitor' = NoCheck
                /\ UNCHANGED <<faults, programs>>

StartTunnel == ComposeUp(HereProject)

NothingToFix == /\ monitor.pc = "fix" /\ monitor.status # "crash_loop" /\ monitor.st # "exited"
                /\ monitor' = NoCheck
                /\ UNCHANGED fleetVars

MonitorStep == /\ "monitor" \in programs
               /\ Inspect \/ DiagnoseTunnel \/ StopTunnel \/ StartTunnel \/ NothingToFix

MonitorNext == MonitorStep \/ (FleetNext /\ UNCHANGED monitor)

\* The skill is run every few minutes, and docker does what it is told in one
\* of many runs.
MonitorFairness == /\ WF_monitorVars(MonitorStep)
                   /\ SF_monitorVars("monitor" \in programs /\ StartTunnel /\ cont' = Started(HereProject))

MonitorSpec == FleetInit /\ MonitorInit /\ [][MonitorNext]_monitorVars /\ MonitorFairness

MonitorTypeOK == monitor \in [pc : {"idle", "diagnose", "fix"},
                              st : {"up", "unhealthy", "restarting", "exited"},
                              restarts : 0..RestartCap,
                              status : {"unknown", "healthy", "degraded", "down", "crash_loop"}]

\* What is about to be done follows from what was inspected: a crash loop is what
\* had the restarts, and a stopped tunnel is never taken for a healthy one.
Diagnosed == monitor.pc = "fix" =>
    /\ monitor.status = "crash_loop" <=> monitor.restarts >= MonitorThreshold
    /\ monitor.st = "exited" => monitor.status \in {"crash_loop", "down"}
    /\ monitor.status # "unknown"

\* docs/guides/cloudflared-setup.md, "Auto-recovery: Restarts the container for
\* transient failures": a tunnel that stays down with a good configuration and
\* few restarts is started again.
Recovers == []("monitor" \in programs /\ cont[Tunnel].st = "exited" /\ cont[Tunnel].config = "ok" /\ cont[Tunnel].restarts < MonitorThreshold
                 => <>(cont[Tunnel].st # "exited" \/ cont[Tunnel].config # "ok"))
================================================================================
