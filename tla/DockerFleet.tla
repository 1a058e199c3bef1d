------------------------------ MODULE DockerFleet ------------------------------
(* The containers of the host as docker and their owner move them: what the   *)
(* container watchdog, the infra fixer and the tunnel monitor all look at and *)
(* act on. A container with a restart policy that fails is started again by   *)
(* docker; one that is stopped, or has no policy, stays as it is.             *)
EXTENDS Naturals, FiniteSets

CONSTANTS Conts,      \* the containers
          RestartCap, \* bound: docker's restart count is not followed further
          MaxFaults,  \* bound: failures, stops and edits in a behaviour
          Installed   \* the sets of programs a host may have

ASSUME FleetAssumption == RestartCap \in Nat /\ MaxFaults \in Nat

VARIABLES cont,    \* Conts -> status, docker's restart count, configuration
          faults,  \* how many of the bounded events have happened
          programs \* which of the watchdog, the fixer and the monitor are installed

fleetVars == <<cont, faults, programs>>

ContStates == [st : {"up", "unhealthy", "restarting", "exited"},
               restarts : 0..RestartCap,
               config : {"ok", "placeholder", "broken"}]

FleetInit == /\ cont = [c \in Conts |-> [st |-> "up", restarts |-> 0, config |-> "ok"]]
             /\ faults = 0
             /\ programs \in Installed

\* State.Running of docker inspect, and the listing of docker ps: a container
\* docker is restarting counts as running.
Running(c) == cont[c].st # "exited"

\* One more failed start of c.
Again(c) == [cont[c] EXCEPT !.st = "restarting",
                            !.restarts = IF @ < RestartCap THEN @ + 1 ELSE @]

\* docker stop, and docker (compose) start: the latter begins a new count.
Stopped(c) == [cont EXCEPT ![c].st = "exited"]
Started(S) == [c \in Conts |->
    IF c \notin S \/ Running(c) THEN cont[c]
    ELSE [cont[c] EXCEPT !.st = IF @ = "exited" /\ cont[c].config = "ok" THEN "up" ELSE "restarting",
                         !.restarts = 0]]

Fault == faults < MaxFaults /\ faults' = faults + 1

\* The program of c ends: docker starts it again, or it has no restart policy.
Fail(c) == /\ cont[c].st \in {"up", "unhealthy"}
           /\ Fault
           /\ cont' \in {[cont EXCEPT ![c] = Again(c)], Stopped(c)}

\* Docker's next try: it comes up only if its configuration works.
Retry(c) == /\ cont[c].st = "restarting"
            /\ cont' = [cont EXCEPT ![c] = IF cont[c].config = "ok" THEN [@ EXCEPT !.st = "up"] ELSE Again(c)]
            /\ UNCHANGED faults

\* The healthcheck of a running container.
Health(c) == /\ cont[c].st \in {"up", "unhealthy"}
             /\ Fault
             /\ cont' = [cont EXCEPT ![c].st = IF @ = "up" THEN "unhealthy" ELSE "up"]

\* The owner stops or starts a container, or edits its configuration.
Owner(c) == /\ Fault
            /\ \/ Running(c) /\ cont' = Stopped(c)
               \/ ~Running(c) /\ cont' = Started({c})
               \/ \E v \in {"ok", "placeholder", "broken"} :
                     v # cont[c].config /\ cont' = [cont EXCEPT ![c].config = v]

FleetNext == /\ \E c \in Conts : Fail(c) \/ Retry(c) \/ Health(c) \/ Owner(c)
             /\ UNCHANGED programs

FleetTypeOK == /\ cont \in [Conts -> ContStates] /\ faults \in 0..MaxFaults
               /\ programs \in Installed
================================================================================
