--------------------------- MODULE ContainerWatchdog ---------------------------
(* superpowers/container_watchdog.py: the event listener, the threads it      *)
(* starts to look again after the grace period, the hourly sweep and the      *)
(* check at the start, which share one table of alert cooldowns, over the     *)
(* containers of DockerFleet. The lock covers a look-up or an entry, never    *)
(* both, and the alert is sent in between.                                    *)
EXTENDS DockerFleet, Sequences

CONSTANTS Watched,  \* ALL_WATCHED
          Graces,   \* bound: threads that wait for the end of a grace period
          MaxEvents \* bound: events docker has reported and nobody has read

ASSUME WatchAssumption == Watched \subseteq Conts /\ MaxEvents \in Nat

VARIABLES hot,       \* containers whose last alert is within the cooldown
          events,    \* what docker events has written
          listening, \* docker events runs
          sender,    \* what each thread that may send a down alert is doing
          sweep,     \* containers the sweep still has to alert for, "idle" between sweeps
          told       \* last thing the owner was told of a container

watchVars == <<hot, events, listening, sender, sweep, told>>

Senders == Graces \cup {"sweep", "main"}
Free == [pc |-> "idle", c |-> {}]
Busy(a, pc, c) == sender' = [sender EXCEPT ![a] = [pc |-> pc, c |-> {c}]]

\* run_daemon: the threads are started, then the main thread looks itself.
WatchInit == /\ hot = {}
             /\ events = <<>>
             /\ listening = TRUE
             /\ sender = [a \in Senders |-> Free]
             /\ sweep = [a \in {"sweep", "main"} |-> IF a = "main" THEN {"look"} ELSE {}]
             /\ told = [c \in Watched |-> "none"]

\* What docker events writes when a watched container starts or ends; the lines
\* about others are passed over.
Reported == LET gone == {c \in Watched : cont[c].st \in {"up", "unhealthy"}
                                       /\ cont'[c].st \in {"restarting", "exited"}}
                back == {c \in Watched : cont[c].st \in {"restarting", "exited"} /\ cont'[c].st = "up"}
            IN [c \in gone \cup back |-> IF c \in gone THEN "die" ELSE "start"]

\* A container moves while the daemon runs; nobody hears it while docker events
\* is being started again.
FleetMoves == /\ FleetNext
              /\ IF ~listening \/ DOMAIN Reported = {} THEN UNCHANGED events
                 ELSE /\ Len(events) < MaxEvents
                      /\ \E c \in DOMAIN Reported : events' = Append(events, <<c, Reported[c]>>)
              /\ UNCHANGED <<hot, listening, sender, sweep, told>>

\* send_down_alert up to the call of notify.
MayAlert(a, c) == IF c \in hot THEN sender' = [sender EXCEPT ![a] = Free] ELSE Busy(a, "notify", c)

\* event_listener reads a line: a start is told and clears the cooldown, an end
\* starts a thread that waits.
ReadEvent ==
    /\ events # <<>>
    /\ events' = Tail(events)
    /\ LET c == Head(events)[1] IN
       IF Head(events)[2] = "start"
       THEN /\ hot' = hot \ {c}
            /\ told' \in {told, [told EXCEPT ![c] = "up"]}
            /\ UNCHANGED sender
       ELSE /\ \E g \in Graces : sender[g] = Free /\ Busy(g, "grace", c)
            /\ UNCHANGED <<hot, told>>
    /\ UNCHANGED <<listening, sweep>>

\* docker events ends, and is started again some seconds later.
Deaf == /\ listening' = ~listening
        /\ events' = IF listening THEN <<>> ELSE events
        /\ UNCHANGED <<hot, sender, sweep, told>>

\* The end of the grace period; an inspect that fails reads as not running.
GraceEnds(g) ==
    /\ sender[g].pc = "grace"
    /\ \E c \in sender[g].c :
          \/ Running(c) /\ sender' = [sender EXCEPT ![g] = Free]
          \/ MayAlert(g, c)
    /\ UNCHANGED <<hot, events, listening, sweep, told>>

\* notify succeeds or not; only then, in another step, the alert is entered.
Send(a) ==
    /\ sender[a].pc = "notify"
    /\ \E c \in sender[a].c :
          told' = [told EXCEPT ![c] = "down"] /\ Busy(a, "record", c)
    /\ UNCHANGED <<hot, events, listening, sweep>>

SendFails(a) ==
    /\ sender[a].pc = "notify"
    /\ sender' = [sender EXCEPT ![a] = Free]
    /\ UNCHANGED <<hot, events, listening, sweep, told>>

Enter(a) ==
    /\ sender[a].pc = "record"
    /\ hot' = hot \cup sender[a].c
    /\ sender' = [sender EXCEPT ![a] = Free]
    /\ UNCHANGED <<events, listening, sweep, told>>

\* The hourly sweep, and the check at the start, list what runs; a docker ps
\* that fails lists nothing.
SweepTime == /\ sweep["sweep"] = {} /\ sender["sweep"] = Free
             /\ sweep' = [sweep EXCEPT !["sweep"] = {"look"}]
             /\ UNCHANGED <<hot, events, listening, sender, told>>

\* A sweep that only lists the containers it was not told of.
LookUntold(a) ==
    /\ sweep[a] = {"look"}
    /\ sweep' = [sweep EXCEPT ![a] = {c \in Watched : ~Running(c) /\ told[c] = "none"}]
    /\ UNCHANGED <<hot, events, listening, sender, told>>

Look(a) ==
    /\ sweep[a] = {"look"}
    /\ sweep' \in {[sweep EXCEPT ![a] = {c \in Watched : ~Running(c)}], [sweep EXCEPT ![a] = Watched]}
    /\ UNCHANGED <<hot, events, listening, sender, told>>

\* The next container that was listed as down.
NextDown(a) ==
    /\ sender[a] = Free /\ sweep[a] \cap Watched # {}
    /\ \E c \in sweep[a] : /\ sweep' = [sweep EXCEPT ![a] = @ \ {c}]
                           /\ MayAlert(a, c)
    /\ UNCHANGED <<hot, events, listening, told>>

\* ALERT_COOLDOWN_SECS after its alert.
CooledDown(c) == /\ c \in hot
                 /\ hot' = hot \ {c}
                 /\ UNCHANGED <<events, listening, sender, sweep, told>>

Daemon == "watchdog" \in programs /\ UNCHANGED fleetVars

Threads == \/ \E a \in Senders : Send(a) \/ SendFails(a) \/ Enter(a)
           \/ \E g \in Graces : GraceEnds(g)
           \/ \E a \in {"sweep", "main"} : Look(a) \/ NextDown(a)
           \/ SweepTime \/ ReadEvent \/ Deaf
           \/ \E c \in Watched : CooledDown(c)

WatchNext == FleetMoves \/ (Daemon /\ Threads)

\* Time passes, the thread of the sweep goes on, and Telegram answers one try
\* of its many.  Nothing is assumed of the other threads.
WatchFairness ==
    /\ WF_watchVars(Daemon /\ SweepTime)
    /\ WF_watchVars(Daemon /\ (Look("sweep") \/ NextDown("sweep")))
    /\ SF_watchVars(Daemon /\ Send("sweep"))
    /\ WF_watchVars(Daemon /\ Enter("sweep"))
    /\ \A c \in Watched : WF_watchVars(Daemon /\ CooledDown(c))

WatchSpec == FleetInit /\ WatchInit /\ [][WatchNext]_<<watchVars, fleetVars>> /\ WatchFairness

WatchTypeOK == /\ hot \subseteq Watched
               /\ events \in Seq(Watched \X {"die", "start"}) /\ Len(events) <= MaxEvents
               /\ listening \in BOOLEAN
               /\ sender \in [Senders -> [pc : {"idle", "grace", "notify", "record"}, c : SUBSET Watched]]
               /\ sweep \in [{"sweep", "main"} -> (SUBSET Watched) \cup {{"look"}}]
               /\ told \in [Watched -> {"none", "down", "up"}]

\* A thread that is busy has one container in hand, only the threads of the
\* listener wait for a grace period, and nobody writes events while docker events
\* is not running.
InHand == /\ \A a \in Senders : IF sender[a].pc = "idle" THEN sender[a] = Free
                                ELSE \E c \in Watched : sender[a].c = {c}
          /\ \A a \in Senders \ Graces : sender[a].pc # "grace"
          /\ ~listening => events = <<>>

\* A container that stays down is reported in the end, whatever events were
\* missed, alerts refused by Telegram or cooldowns entered too late by another
\* thread: the hourly sweep comes after every cooldown.
DownIsTold == \A c \in Watched :
    ("watchdog" \in programs /\ cont[c].st = "exited") ~> (told[c] = "down" \/ cont[c].st # "exited")
================================================================================
