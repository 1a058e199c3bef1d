------------------------------- MODULE MCFleet -------------------------------
(* The programs that look after the host: the container watchdog with its     *)
(* threads, the infra fixer and the tunnel monitor, which meet in the          *)
(* containers; and the file watcher and the file transfers, each in behaviours *)
(* of its own.                                                                 *)
EXTENDS ContainerWatchdog, InfraFixer, CloudflaredMonitor, Watcher, RsyncEngine

hostVars == <<fleetVars, watchVars, fixer, monitor>>
allVars == <<hostVars, watcherVars, rsyncVars>>

ProjectsMC == [c \in Conts |-> IF c = Tunnel THEN "cloudflared" ELSE "home_media"]
OneOfEach == {{"watchdog"}, {"fixer", "monitor"}, {"watcher"}, {"rsync"}}
MonitorOnly == {{"monitor"}}
WatcherOnly == {{"watcher"}}

FileRule(d, on, action, target) ==
  [dir |-> d, names |-> {"f"}, events |-> on, action |-> action, target |-> target,
   enabled |-> TRUE, valid |-> TRUE]
MCRules == {FileRule("in", {"created", "modified", "moved"}, "copy", "out"),
            FileRule("out", {"created", "deleted"}, "shell", "out"),
            FileRule("drop", {"created", "modified"}, "move", "in"),
            [FileRule("out", {"created"}, "move", "in") EXCEPT !.enabled = FALSE],
            [FileRule("out", {"created"}, "move", "in") EXCEPT !.valid = FALSE]}

HostInit == /\ FleetInit /\ WatchInit /\ FixerInit /\ MonitorInit
            /\ WatcherInit /\ RsyncInit

Alone == {"watcher", "rsync"}

HostStep == \/ "watchdog" \in programs /\ WatchNext /\ UNCHANGED <<fixer, monitor>>
            \/ FixerStep /\ UNCHANGED <<watchVars, monitor>>
            \/ MonitorStep /\ UNCHANGED <<watchVars, fixer>>
            \/ /\ "watchdog" \notin programs /\ programs \cap Alone = {}
               /\ FleetNext
               /\ UNCHANGED <<watchVars, fixer, monitor>>

HostNext ==
  \/ HostStep /\ UNCHANGED <<watcherVars, rsyncVars>>
  \/ "watcher" \in programs /\ WatcherNext /\ UNCHANGED <<hostVars, rsyncVars>>
  \/ "rsync" \in programs /\ RsyncNext /\ UNCHANGED <<hostVars, watcherVars>>

\* Each program's threads go on while it is the one of the behaviour.
AloneFairness ==
  /\ WF_watcherVars("watcher" \in programs /\ Handle)
  /\ \A r \in 1..MaxStarts :
       /\ WF_rsyncVars("rsync" \in programs /\ r \in DOMAIN runs /\ Thread(r))
       /\ WF_rsyncVars("rsync" \in programs /\ r \in DOMAIN runs /\ Exit(r))
  /\ \A f \in Followers : WF_rsyncVars("rsync" \in programs /\ Take(f))

HostSpec == HostInit /\ [][HostNext]_allVars /\ WatchFairness /\ FixerFairness /\ AloneFairness

\* The monitor alone, run again and again.
TunnelSpec == HostInit /\ [][HostNext]_allVars /\ MonitorFairness

\* The file watcher alone.
WatcherHostSpec == HostInit /\ [][HostNext]_allVars /\ AloneFairness

\* What each of them keeps, with the invariants that make it hold: above all,
\* that the row of a transfer is settled when its threads have ended.
HostSafe == /\ FleetTypeOK /\ WatchTypeOK /\ InHand /\ FixerTypeOK /\ OneCycle
            /\ MonitorTypeOK /\ Diagnosed /\ WatcherTypeOK /\ NothingInHand /\ CopyAhead
            /\ RsyncTypeOK /\ Settled /\ RowAhead
==============================================================================
