----------------------------- MODULE Fleet_proofs -----------------------------
(* The programs that look after the host, for any number of containers,       *)
(* threads, rules, files and transfers: what the containers' programs, the    *)
(* file watcher and the transfers keep, whatever the others do.               *)
EXTENDS MCFleet, SequenceTheorems, TLAPS

-----------------------------------------------------------------------------
\* DockerFleet: the containers.

\* Stopping and starting leaves containers in a state docker knows.
LEMMA StoppedType ==
  ASSUME FleetTypeOK, NEW c \in Conts
  PROVE  Stopped(c) \in [Conts -> ContStates]
BY DEF FleetTypeOK, Stopped, ContStates

LEMMA StartedType ==
  ASSUME FleetTypeOK, NEW S
  PROVE  Started(S) \in [Conts -> ContStates]
<1> SUFFICES ASSUME NEW c \in Conts, c \in S, ~Running(c)
             PROVE  [cont[c] EXCEPT !.st = IF @ = "exited" /\ cont[c].config = "ok" THEN "up" ELSE "restarting",
                                    !.restarts = 0] \in ContStates
  BY DEF FleetTypeOK, Started
<1>1. cont[c] \in ContStates
  BY DEF FleetTypeOK
<1>2. 0 \in 0..RestartCap
  BY FleetAssumption
<1> QED BY <1>1, <1>2 DEF ContStates

LEMMA AgainType ==
  ASSUME FleetTypeOK, NEW c \in Conts
  PROVE  Again(c) \in ContStates
<1>1. cont[c] \in ContStates
  BY DEF FleetTypeOK
<1>2. cont[c].restarts \in 0..RestartCap
  BY <1>1 DEF ContStates
<1>3. (IF cont[c].restarts < RestartCap THEN cont[c].restarts + 1 ELSE cont[c].restarts) \in 0..RestartCap
  BY <1>2, FleetAssumption
<1> QED BY <1>1, <1>3 DEF ContStates, Again

\* What docker and the owner do.
LEMMA FleetMovesType ==
  ASSUME FleetTypeOK, FleetNext
  PROVE  FleetTypeOK'
<1>1. PICK c \in Conts : Fail(c) \/ Retry(c) \/ Health(c) \/ Owner(c)
  BY DEF FleetNext
<1>2. programs' = programs
  BY DEF FleetNext
<1>3. cont \in [Conts -> ContStates] /\ cont[c] \in ContStates /\ faults \in 0..MaxFaults
  BY DEF FleetTypeOK
<1>4. CASE Fail(c)
  <2>1. [cont EXCEPT ![c] = Again(c)] \in [Conts -> ContStates]
    BY <1>3, AgainType
  <2> QED BY <1>2, <1>3, <1>4, <2>1, StoppedType, FleetAssumption DEF Fail, Fault, FleetTypeOK
<1>5. CASE Retry(c)
  <2>1. [cont[c] EXCEPT !.st = "up"] \in ContStates
    BY <1>3 DEF ContStates
  <2> QED BY <1>2, <1>3, <1>5, <2>1, AgainType DEF Retry, FleetTypeOK
<1>6. CASE Health(c)
  <2>1. \A s \in {"up", "unhealthy"} : [cont EXCEPT ![c].st = s] \in [Conts -> ContStates]
    BY <1>3 DEF ContStates
  <2> QED BY <1>2, <1>3, <1>6, <2>1, FleetAssumption DEF Health, Fault, FleetTypeOK
<1>7. CASE Owner(c)
  <2>1. \A v \in {"ok", "placeholder", "broken"} : [cont EXCEPT ![c].config = v] \in [Conts -> ContStates]
    BY <1>3 DEF ContStates
  <2>2. faults' \in 0..MaxFaults
    BY <1>3, <1>7, FleetAssumption DEF Owner, Fault
  <2>3. cont' \in [Conts -> ContStates]
    BY <1>7, <2>1, StoppedType, StartedType DEF Owner
  <2> QED BY <1>2, <2>2, <2>3 DEF FleetTypeOK
<1> QED BY <1>1, <1>4, <1>5, <1>6, <1>7

\* What the programs do to the containers: they stop and start.
LEMMA FleetStep ==
  ASSUME FleetTypeOK, HostStep
  PROVE  FleetTypeOK'
<1>1. CASE FleetNext
  BY <1>1, FleetMovesType
<1>2. CASE UNCHANGED fleetVars
  BY <1>2 DEF FleetTypeOK, fleetVars
<1>3. CASE WatchNext
  BY <1>1, <1>2, <1>3 DEF WatchNext, FleetMoves, Daemon
<1>4. CASE FixerStep
  <2>1. ASSUME NEW c \in Conts, StopLoop(c) PROVE FleetTypeOK'
    BY <2>1, StoppedType DEF StopLoop, FleetTypeOK
  <2>2. ASSUME NEW c \in Conts, NEW ok \in BOOLEAN, StartDown(c, ok) PROVE FleetTypeOK'
    BY <2>2, StartedType DEF StartDown, FleetTypeOK
  <2> QED BY <1>2, <1>4, <2>1, <2>2 DEF FixerStep, Gather, Diagnose, EndCycle
<1>5. CASE MonitorStep
  <2>1. CASE StopTunnel
    BY <2>1, StoppedType, MonitorAssumption DEF StopTunnel, FleetTypeOK
  <2>2. CASE StartTunnel
    BY <2>2, StartedType DEF StartTunnel, ComposeUp, FleetTypeOK
  <2> QED BY <1>2, <1>5, <2>1, <2>2 DEF MonitorStep, Inspect, DiagnoseTunnel, NothingToFix
<1> QED BY <1>1, <1>3, <1>4, <1>5 DEF HostStep

-----------------------------------------------------------------------------
\* ContainerWatchdog: its threads.

LEMMA WatchStep ==
  ASSUME WatchTypeOK, InHand, WatchNext
  PROVE  WatchTypeOK' /\ InHand'
<1> USE DEF WatchTypeOK, InHand
<1>0. /\ sender \in [Senders -> [pc : {"idle", "grace", "notify", "record"}, c : SUBSET Watched]]
      /\ Free \in [pc : {"idle", "grace", "notify", "record"}, c : SUBSET Watched]
      /\ Graces \subseteq Senders /\ {"sweep", "main"} \subseteq Senders
  BY DEF Free, Senders
<1>1. CASE FleetMoves
  <2>1. sender' = sender /\ hot' = hot /\ listening' = listening /\ sweep' = sweep /\ told' = told
    BY <1>1 DEF FleetMoves
  <2>2. CASE UNCHANGED events
    BY <2>1, <2>2
  <2>3. CASE events' # events
    <3>1. PICK c \in DOMAIN Reported : events' = Append(events, <<c, Reported[c]>>)
      BY <1>1, <2>3 DEF FleetMoves
    <3>2. c \in Watched /\ Reported[c] \in {"die", "start"}
      BY <3>1 DEF Reported
    <3>3. Len(events) < MaxEvents /\ listening
      BY <1>1, <2>3 DEF FleetMoves
    <3>4. events' \in Seq(Watched \X {"die", "start"}) /\ Len(events') = Len(events) + 1
      BY <3>1, <3>2
    <3> QED BY <2>1, <3>3, <3>4, WatchAssumption
  <2> QED BY <2>2, <2>3
\* a thread that takes up a container, or ends
<1>2. ASSUME NEW a \in Senders, NEW pc \in {"grace", "notify", "record"}, NEW c \in Watched,
             pc = "grace" => a \in Graces, Busy(a, pc, c),
             UNCHANGED listening, events' = events \/ events' = Tail(events),
             hot' \subseteq Watched,
             sweep' \in [{"sweep", "main"} -> (SUBSET Watched) \cup {{"look"}}],
             told' \in [Watched -> {"none", "down", "up"}], events = <<>> => events' = events
      PROVE  WatchTypeOK' /\ InHand'
  <2>1. sender' = [sender EXCEPT ![a] = [pc |-> pc, c |-> {c}]]
    BY <1>2 DEF Busy
  <2>2. [pc |-> pc, c |-> {c}] \in [pc : {"idle", "grace", "notify", "record"}, c : SUBSET Watched]
    OBVIOUS
  <2>3. sender' \in [Senders -> [pc : {"idle", "grace", "notify", "record"}, c : SUBSET Watched]]
    BY <1>0, <2>1, <2>2
  <2>4. \A b \in Senders : IF sender'[b].pc = "idle" THEN sender'[b] = Free
                           ELSE \E d \in Watched : sender'[b].c = {d}
    BY <1>0, <2>1
  <2>5. \A b \in Senders \ Graces : sender'[b].pc # "grace"
    BY <1>0, <1>2, <2>1
  <2>6. events' \in Seq(Watched \X {"die", "start"}) /\ Len(events') <= MaxEvents
    <3>1. CASE events' = events
      BY <3>1
    <3>2. CASE events # <<>> /\ events' = Tail(events)
      <4>1. Tail(events) \in Seq(Watched \X {"die", "start"}) /\ Len(Tail(events)) = Len(events) - 1
        BY <3>2
      <4> QED BY <3>2, <4>1, WatchAssumption
    <3> QED BY <1>2, <3>1, <3>2
  <2> QED BY <1>2, <2>3, <2>4, <2>5, <2>6
<1>3. ASSUME NEW a \in Senders, sender' = [sender EXCEPT ![a] = Free],
             UNCHANGED listening, events' = events, told' = told, hot' \subseteq Watched,
             sweep' \in [{"sweep", "main"} -> (SUBSET Watched) \cup {{"look"}}]
      PROVE  WatchTypeOK' /\ InHand'
  <2>1. sender' \in [Senders -> [pc : {"idle", "grace", "notify", "record"}, c : SUBSET Watched]]
    BY <1>0, <1>3
  <2>2. \A b \in Senders : IF sender'[b].pc = "idle" THEN sender'[b] = Free
                           ELSE \E d \in Watched : sender'[b].c = {d}
    BY <1>0, <1>3 DEF Free
  <2>3. \A b \in Senders \ Graces : sender'[b].pc # "grace"
    BY <1>0, <1>3 DEF Free
  <2> QED BY <1>3, <2>1, <2>2, <2>3
<1>4. ASSUME NEW a \in Senders, NEW c \in Watched, MayAlert(a, c),
             UNCHANGED <<hot, events, listening, told>>,
             sweep' \in [{"sweep", "main"} -> (SUBSET Watched) \cup {{"look"}}]
      PROVE  WatchTypeOK' /\ InHand'
  <2>1. CASE c \in hot
    BY <1>3, <1>4, <2>1 DEF MayAlert
  <2>2. CASE c \notin hot
    BY <1>2, <1>4, <2>2 DEF MayAlert
  <2> QED BY <2>1, <2>2
<1>5. ASSUME UNCHANGED <<sender, told>>, hot' \subseteq hot,
             listening' \in BOOLEAN, events' = <<>> \/ (events' = events /\ listening' = listening),
             sweep' \in [{"sweep", "main"} -> (SUBSET Watched) \cup {{"look"}}]
      PROVE  WatchTypeOK' /\ InHand'
  <2>1. events' \in Seq(Watched \X {"die", "start"}) /\ Len(events') <= MaxEvents
    <3>1. <<>> \in Seq(Watched \X {"die", "start"}) /\ Len(<<>>) = 0
      OBVIOUS
    <3>2. 0 <= MaxEvents
      BY WatchAssumption
    <3>3. CASE events' = <<>>
      BY <3>1, <3>2, <3>3
    <3>4. CASE events' = events
      BY <3>4
    <3> QED BY <1>5, <3>3, <3>4
  <2> QED BY <1>5, <2>1
<1>6. ASSUME NEW a \in Senders, Send(a) PROVE WatchTypeOK' /\ InHand'
  <2>1. PICK c \in sender[a].c : told' = [told EXCEPT ![c] = "down"] /\ Busy(a, "record", c)
    BY <1>6 DEF Send
  <2>2. c \in Watched
    BY <1>0, <2>1
  <2>3. told' \in [Watched -> {"none", "down", "up"}]
    BY <2>1
  <2> QED BY <1>2, <1>6, <2>1, <2>2, <2>3 DEF Send
<1>7. ASSUME NEW a \in Senders, SendFails(a) PROVE WatchTypeOK' /\ InHand'
  BY <1>3, <1>7 DEF SendFails
<1>8. ASSUME NEW a \in Senders, Enter(a) PROVE WatchTypeOK' /\ InHand'
  <2>1. sender[a].c \subseteq Watched
    BY <1>0
  <2> QED BY <1>3, <1>8, <2>1 DEF Enter
<1>9. ASSUME NEW g \in Graces, GraceEnds(g) PROVE WatchTypeOK' /\ InHand'
  <2>1. PICK c \in sender[g].c : \/ Running(c) /\ sender' = [sender EXCEPT ![g] = Free]
                                 \/ MayAlert(g, c)
    BY <1>9 DEF GraceEnds
  <2>2. c \in Watched /\ g \in Senders
    BY <1>0, <2>1
  <2> QED BY <1>3, <1>4, <1>9, <2>1, <2>2 DEF GraceEnds
<1>10. ASSUME NEW a \in {"sweep", "main"}, Look(a) PROVE WatchTypeOK' /\ InHand'
  <2>1. sweep' \in [{"sweep", "main"} -> (SUBSET Watched) \cup {{"look"}}]
    BY <1>10 DEF Look
  <2> QED BY <1>5, <1>10, <2>1 DEF Look
<1>11. ASSUME NEW a \in {"sweep", "main"}, NextDown(a) PROVE WatchTypeOK' /\ InHand'
  <2>1. PICK c \in sweep[a] : sweep' = [sweep EXCEPT ![a] = @ \ {c}] /\ MayAlert(a, c)
    BY <1>11 DEF NextDown
  <2>2. sweep[a] \subseteq Watched
    BY <1>11 DEF NextDown
  <2>3. c \in Watched /\ a \in Senders
    BY <1>0, <2>1, <2>2
  <2>4. sweep' \in [{"sweep", "main"} -> (SUBSET Watched) \cup {{"look"}}]
    BY <2>1, <2>2
  <2> QED BY <1>4, <1>11, <2>1, <2>3, <2>4 DEF NextDown
<1>12. CASE SweepTime
  <2>1. sweep' \in [{"sweep", "main"} -> (SUBSET Watched) \cup {{"look"}}]
    BY <1>12 DEF SweepTime
  <2> QED BY <1>5, <1>12, <2>1 DEF SweepTime
<1>13. CASE ReadEvent
  <2>1. events # <<>> /\ Head(events) \in Watched \X {"die", "start"}
    BY <1>13 DEF ReadEvent
  <2>2. PICK c \in Watched : c = Head(events)[1]
    BY <2>1
  <2>3. events' = Tail(events) /\ UNCHANGED <<listening, sweep>>
    BY <1>13 DEF ReadEvent
  <2>4. CASE Head(events)[2] = "start"
    <3>1. hot' = hot \ {c} /\ told' \in {told, [told EXCEPT ![c] = "up"]} /\ sender' = sender
      BY <1>13, <2>2, <2>4 DEF ReadEvent
    <3>2. events' \in Seq(Watched \X {"die", "start"}) /\ Len(events') <= MaxEvents
      <4>1. Tail(events) \in Seq(Watched \X {"die", "start"}) /\ Len(Tail(events)) = Len(events) - 1
        BY <2>1
      <4> QED BY <2>3, <4>1, WatchAssumption
    <3>3. told' \in [Watched -> {"none", "down", "up"}]
      BY <3>1
    <3>4. listening
      BY <2>1
    <3> QED BY <2>3, <3>1, <3>2, <3>3, <3>4
  <2>5. CASE Head(events)[2] # "start"
    <3>1. PICK g \in Graces : Busy(g, "grace", c)
      BY <1>13, <2>2, <2>5 DEF ReadEvent
    <3>2. hot' = hot /\ told' = told
      BY <1>13, <2>5 DEF ReadEvent
    <3> QED BY <1>0, <1>2, <2>1, <2>3, <3>1, <3>2
  <2> QED BY <2>4, <2>5
<1>14. CASE Deaf
  <2>1. listening' = ~listening /\ events' = <<>> /\ UNCHANGED <<hot, sender, sweep, told>>
    BY <1>14 DEF Deaf
  <2> QED BY <1>5, <2>1
<1>15. ASSUME NEW c \in Watched, CooledDown(c) PROVE WatchTypeOK' /\ InHand'
  BY <1>5, <1>15 DEF CooledDown
<1> QED BY <1>1, <1>6, <1>7, <1>8, <1>9, <1>10, <1>11, <1>12, <1>13, <1>14, <1>15
        DEF WatchNext, Threads

-----------------------------------------------------------------------------
\* InfraFixer and CloudflaredMonitor: their cycles.

LEMMA FixerTypeStep ==
  ASSUME FleetTypeOK, FixerTypeOK, OneCycle, FixerStep
  PROVE  FixerTypeOK' /\ OneCycle'
<1> USE DEF FixerTypeOK, OneCycle
<1>1. \A c \in Conts : cont[c].st \in {"up", "unhealthy", "restarting", "exited"}
  BY DEF FleetTypeOK, ContStates
<1>2. CASE Gather
  BY <1>1, <1>2 DEF Gather
<1>3. CASE Diagnose
  BY <1>3, ZenonT(40) DEF Diagnose
<1>4. CASE EndCycle
  BY <1>4 DEF EndCycle, NoCycle
<1>5. ASSUME NEW c \in Conts, StopLoop(c) PROVE FixerTypeOK' /\ OneCycle'
  BY <1>5 DEF StopLoop
<1>6. ASSUME NEW c \in Conts, NEW ok \in BOOLEAN, StartDown(c, ok) PROVE FixerTypeOK' /\ OneCycle'
  BY <1>6 DEF StartDown
<1> QED BY <1>2, <1>3, <1>4, <1>5, <1>6 DEF FixerStep

LEMMA MonitorTypeStep ==
  ASSUME FleetTypeOK, MonitorTypeOK, Diagnosed, MonitorStep
  PROVE  MonitorTypeOK' /\ Diagnosed'
<1> USE DEF MonitorTypeOK, Diagnosed
<1>1. /\ cont[Tunnel].st \in {"up", "unhealthy", "restarting", "exited"}
      /\ cont[Tunnel].restarts \in 0..RestartCap
  BY MonitorAssumption DEF FleetTypeOK, ContStates
<1>2. NoCheck \in [pc : {"idle", "diagnose", "fix"}, st : {"up", "unhealthy", "restarting", "exited"},
                   restarts : 0..RestartCap,
                   status : {"unknown", "healthy", "degraded", "down", "crash_loop"}]
  BY FleetAssumption DEF NoCheck
<1>3. CASE Inspect
  BY <1>1, <1>3 DEF Inspect
<1>4. CASE DiagnoseTunnel
  BY <1>4 DEF DiagnoseTunnel
<1>5. CASE monitor' = NoCheck
  BY <1>2, <1>5 DEF NoCheck
<1> QED BY <1>3, <1>4, <1>5 DEF MonitorStep, StopTunnel, StartTunnel, ComposeUp, NothingToFix

-----------------------------------------------------------------------------
\* Watcher: files, events and the event in hand.

\* An event is queued for a directory of a rule, by its name.
LEMMA PutType ==
  ASSUME NEW q \in Seq([event : EventTypes, dir : Folders, name : FileNames]),
         NEW d, NEW type \in EventTypes, NEW n \in FileNames
  PROVE  /\ Put(q, d, type, n) \in Seq([event : EventTypes, dir : Folders, name : FileNames])
         /\ ~daemon.observing => Put(q, d, type, n) = q
<1> DEFINE e == [event |-> type, dir |-> d, name |-> n]
<1>1. CASE Observed(d)
  <2>1. d \in Folders /\ daemon.observing
    BY <1>1 DEF Observed, ActiveRules
  <2>2. e \in [event : EventTypes, dir : Folders, name : FileNames]
    BY <2>1
  <2>3. Append(q, e) \in Seq([event : EventTypes, dir : Folders, name : FileNames])
    BY <2>2
  <2>4. Put(q, d, type, n) \in {q, Append(q, e)}
    BY DEF Put
  <2> QED BY <2>1, <2>3, <2>4
<1>2. CASE ~Observed(d)
  BY <1>2 DEF Put
<1> QED BY <1>1, <1>2

\* One file of one folder changes.
LEMMA FileType ==
  ASSUME NEW S, NEW F \in [Folders -> [FileNames -> S]], NEW d, NEW n, NEW v \in S
  PROVE  [F EXCEPT ![d][n] = v] \in [Folders -> [FileNames -> S]]
OBVIOUS

LEMMA WatcherTypeStep ==
  ASSUME WatcherTypeOK, NothingInHand, WatcherNext
  PROVE  WatcherTypeOK' /\ NothingInHand'
<1> DEFINE Events == [event : EventTypes, dir : Folders, name : FileNames]
           Handlings == [event : EventTypes \cup {"none"}, dir : Folders \cup {"none"},
                         name : FileNames \cup {"none"}, todo : SUBSET ActiveRules,
                         rule : SUBSET ActiveRules, read : Versions]
           Ways == {"no", "written", "moved"}
           Logs == SUBSET (ActiveRules \X FileNames \X Versions)
<1>a. /\ fs \in [Folders -> [FileNames -> Versions]]
      /\ queue \in Seq(Events) /\ handling \in Handlings
      /\ daemon \in [at : {"boot", "armed", "started", "paused", "gone"}, observing : BOOLEAN]
      /\ changes \in 0..MaxChanges /\ signals \in 0..MaxSignals
      /\ arrival \in [Folders -> [FileNames -> Ways]] /\ logged \in Logs
  BY DEF WatcherTypeOK
<1>b. /\ IF daemon.observing THEN daemon.at \in {"started", "paused"} ELSE queue = <<>> /\ handling = Idle
      /\ IF handling.todo = {} THEN handling = Idle ELSE handling.name \in FileNames
      /\ handling.rule = {} \/ \E r \in handling.todo : handling.rule = {r} /\ r.action = "copy"
  BY DEF NothingInHand
<1>d. /\ 0 \in 0..MaxChanges /\ MaxChanges \in Nat /\ MaxSignals \in Nat
      /\ 0..MaxChanges \subseteq Versions /\ 0 \in Versions /\ Partial \in Versions
  BY WatcherAssumption DEF Versions, Partial
<1>c. Idle \in Handlings /\ Idle.todo = {} /\ Idle.rule = {}
  BY <1>d DEF Idle
<1>e. \A r \in ActiveRules : r.dir \in Folders
  BY DEF ActiveRules
\* people and rules change files; what is in hand stays or shrinks
<1>1. ASSUME fs' \in [Folders -> [FileNames -> Versions]],
             queue' \in Seq(Events), ~daemon.observing => queue' = queue,
             arrival' \in [Folders -> [FileNames -> Ways]],
             changes' \in 0..MaxChanges, UNCHANGED <<handling, daemon, signals, logged>>
      PROVE  WatcherTypeOK' /\ NothingInHand'
  BY <1>a, <1>b, <1>1 DEF WatcherTypeOK, NothingInHand
<1>2. ASSUME NEW r \in handling.todo, handling' = Without(r), daemon.observing,
             fs' \in [Folders -> [FileNames -> Versions]], queue' \in Seq(Events),
             arrival' \in [Folders -> [FileNames -> Ways]], logged' \in Logs,
             UNCHANGED <<daemon, changes, signals>>
      PROVE  WatcherTypeOK' /\ NothingInHand'
  <2>1. CASE handling.todo = {r}
    BY <1>a, <1>b, <1>c, <1>2, <2>1 DEF WatcherTypeOK, NothingInHand, Without
  <2>2. CASE handling.todo # {r}
    <3>1. handling' = [handling EXCEPT !.todo = @ \ {r}, !.rule = {}, !.read = 0]
      BY <1>2, <2>2 DEF Without
    <3>2. handling' \in Handlings /\ handling'.todo # {} /\ handling'.rule = {} /\ handling'.name = handling.name
      BY <1>a, <1>d, <1>2, <2>2, <3>1, ZenonT(40)
    <3> QED BY <1>a, <1>b, <1>2, <3>2 DEF WatcherTypeOK, NothingInHand
  <2> QED BY <2>1, <2>2
<1>3. ASSUME NEW d \in Folders, NEW n \in FileNames, UserWrite(d, n) PROVE WatcherTypeOK' /\ NothingInHand'
  <2>1. changes + 1 \in 0..MaxChanges /\ changes + 1 \in Versions
    BY <1>a, <1>d, <1>3 DEF UserWrite
  <2>2. fs' = [fs EXCEPT ![d][n] = changes + 1]
    BY <1>3 DEF UserWrite, Store
  <2>3. fs' \in [Folders -> [FileNames -> Versions]]
    BY <1>a, <2>1, <2>2, FileType
  <2>4. queue' = Put(queue, d, IF fs[d][n] = 0 THEN "created" ELSE "modified", n)
    BY <1>3 DEF UserWrite, Store
  <2>5. queue' \in Seq(Events) /\ (~daemon.observing => queue' = queue)
    BY <1>a, <2>4, PutType, ZenonT(40) DEF EventTypes
  <2>6. arrival' = [arrival EXCEPT ![d][n] = IF Observed(d) THEN "written" ELSE "no"]
    BY <1>3 DEF UserWrite, Store
  <2>7. arrival' \in [Folders -> [FileNames -> Ways]]
    BY <1>a, <2>6, FileType
  <2> QED BY <1>1, <1>3, <2>1, <2>3, <2>5, <2>7 DEF UserWrite
<1>4. ASSUME NEW d \in Folders, NEW n \in FileNames, UserRemove(d, n) PROVE WatcherTypeOK' /\ NothingInHand'
  <2>1. changes' \in 0..MaxChanges
    BY <1>a, <1>d, <1>4 DEF UserRemove
  <2>2. /\ fs' = [fs EXCEPT ![d][n] = 0] /\ queue' = Put(queue, d, "deleted", n)
        /\ arrival' = [arrival EXCEPT ![d][n] = "no"]
    BY <1>4 DEF UserRemove
  <2>3. fs' \in [Folders -> [FileNames -> Versions]] /\ arrival' \in [Folders -> [FileNames -> Ways]]
    BY <1>a, <1>d, <2>2, FileType
  <2>4. queue' \in Seq(Events) /\ (~daemon.observing => queue' = queue)
    BY <1>a, <2>2, PutType DEF EventTypes
  <2> QED BY <1>1, <1>4, <2>1, <2>3, <2>4 DEF UserRemove
<1>5. ASSUME NEW d \in Folders, NEW n \in FileNames, NEW m \in FileNames, UserRename(d, n, m)
      PROVE  WatcherTypeOK' /\ NothingInHand'
  <2>1. changes' \in 0..MaxChanges
    BY <1>a, <1>d, <1>5 DEF UserRename
  <2>2. /\ fs' = [fs EXCEPT ![d][m] = fs[d][n], ![d][n] = 0] /\ queue' = Put(queue, d, "moved", n)
        /\ arrival' = [arrival EXCEPT ![d][m] = IF Observed(d) THEN "moved" ELSE "no", ![d][n] = "no"]
    BY <1>5 DEF UserRename
  <2>3. fs[d][n] \in Versions
    BY <1>a
  <2>4. fs' \in [Folders -> [FileNames -> Versions]] /\ arrival' \in [Folders -> [FileNames -> Ways]]
    BY <1>a, <1>d, <2>2, <2>3, FileType
  <2>5. queue' \in Seq(Events) /\ (~daemon.observing => queue' = queue)
    BY <1>a, <2>2, PutType DEF EventTypes
  <2> QED BY <1>1, <1>5, <2>1, <2>4, <2>5 DEF UserRename
<1>6. CASE InstallHandlers \/ EngineStart \/ Pause \/ Signal \/ SignalInStart \/ Restart
  <2> USE DEF WatcherTypeOK, NothingInHand
  <2>1. CASE InstallHandlers
    BY <1>a, <1>b, <2>1 DEF InstallHandlers
  <2>2. CASE EngineStart
    BY <1>a, <1>b, <2>2 DEF EngineStart
  <2>3. CASE Pause
    BY <1>a, <1>b, <2>3 DEF Pause
  <2>4. CASE Signal
    <3>1. signals' \in 0..MaxSignals
      BY <1>a, <1>d, <2>4 DEF Signal
    <3>2. <<>> \in Seq(Events)
      OBVIOUS
    <3>3. daemon' \in [at : {"boot", "armed", "started", "paused", "gone"}, observing : BOOLEAN] /\ ~daemon'.observing
      BY <2>4 DEF Signal
    <3>4. queue' = <<>> /\ handling' = Idle /\ UNCHANGED <<fs, changes, arrival, logged>>
      BY <2>4 DEF Signal
    <3> QED BY <1>a, <1>c, <3>1, <3>2, <3>3, <3>4
  <2>5. CASE SignalInStart
    <3>1. signals' \in 0..MaxSignals
      BY <1>a, <1>d, <2>5 DEF SignalInStart
    <3> QED BY <1>a, <1>b, <2>5, <3>1 DEF SignalInStart
  <2>6. CASE Restart
    BY <1>a, <1>b, <2>6 DEF Restart
  <2> QED BY <1>6, <2>1, <2>2, <2>3, <2>4, <2>5, <2>6
<1>7. CASE TakeEvent
  <2>1. queue # <<>> /\ queue' = Tail(queue) /\ daemon.observing /\ UNCHANGED <<fs, daemon, changes, signals, arrival, logged>>
    BY <1>7 DEF TakeEvent
  <2>2. Head(queue) \in Events /\ Tail(queue) \in Seq(Events)
    BY <1>a, <2>1, HeadTailProperties
  <2> DEFINE e == Head(queue)
             h == [Idle EXCEPT !.event = e.event, !.dir = e.dir, !.name = e.name, !.todo = Matching(e)]
  <2>3. Matching(e) \subseteq ActiveRules
    BY DEF Matching
  <2>4. h \in Handlings /\ h.todo = Matching(e) /\ h.name = e.name /\ h.rule = {}
    BY <1>c, <2>2, <2>3 DEF Idle
  <2>5. handling' = IF Matching(e) = {} THEN Idle ELSE h
    BY <1>7 DEF TakeEvent
  <2>6. handling' \in Handlings /\ handling'.rule = {}
        /\ IF handling'.todo = {} THEN handling' = Idle ELSE handling'.name \in FileNames
    BY <1>c, <2>2, <2>4, <2>5
  <2> QED BY <1>a, <1>b, <2>1, <2>2, <2>6 DEF WatcherTypeOK, NothingInHand
<1>8. ASSUME NEW r \in handling.todo PROVE r \in ActiveRules /\ daemon.observing /\ handling.name \in FileNames
  BY <1>a, <1>b, <1>c, <1>8
<1>9. ASSUME NEW r \in handling.todo, ActElsewhere(r) PROVE WatcherTypeOK' /\ NothingInHand'
  BY <1>a, <1>2, <1>8, <1>9 DEF ActElsewhere
<1>10. ASSUME NEW r \in handling.todo, ActMove(r) PROVE WatcherTypeOK' /\ NothingInHand'
  <2> DEFINE n == handling.name
             v == fs[r.dir][n]
             q == Put(queue, r.dir, "deleted", n)
  <2>1. n \in FileNames /\ r.dir \in Folders /\ v \in Versions
    BY <1>a, <1>e, <1>8
  <2>2. /\ fs' = [fs EXCEPT ![r.dir][n] = 0, ![r.target][n] = v]
        /\ queue' = Put(q, r.target, "created", n)
        /\ arrival' = [arrival EXCEPT ![r.dir][n] = "no",
                                      ![r.target][n] = IF Observed(r.target) THEN "written" ELSE "no"]
        /\ handling' = Without(r) /\ UNCHANGED <<daemon, changes, signals, logged>>
    BY <1>10 DEF ActMove
  <2>3. fs' \in [Folders -> [FileNames -> Versions]]
    BY <1>a, <1>d, <2>1, <2>2, FileType
  <2>4. arrival' \in [Folders -> [FileNames -> Ways]]
    BY <1>a, <2>2, FileType
  <2>5. q \in Seq(Events)
    BY <1>a, <2>1, PutType DEF EventTypes
  <2>6. queue' \in Seq(Events)
    BY <2>1, <2>2, <2>5, PutType DEF EventTypes
  <2> QED BY <1>2, <1>a, <1>8, <2>2, <2>3, <2>4, <2>6
<1>11. ASSUME NEW r \in handling.todo, ActRead(r) PROVE WatcherTypeOK' /\ NothingInHand'
  <2>1. fs[r.dir][handling.name] \in Versions
    BY <1>a, <1>e, <1>8
  <2>2. handling' = [handling EXCEPT !.rule = {r}, !.read = fs[r.dir][handling.name]]
    BY <1>11 DEF ActRead
  <2>3. handling' \in Handlings /\ handling'.todo = handling.todo /\ handling'.name = handling.name /\ handling'.rule = {r}
    BY <1>a, <1>8, <2>1, <2>2
  <2> QED BY <1>a, <1>b, <1>8, <1>11, <2>3 DEF ActRead, WatcherTypeOK, NothingInHand
<1>12. ASSUME NEW r \in handling.todo, ActWrite(r) PROVE WatcherTypeOK' /\ NothingInHand'
  <2>1. /\ fs' = [fs EXCEPT ![r.target][handling.name] = handling.read]
        /\ queue' = Put(queue, r.target, IF fs[r.target][handling.name] = 0 THEN "created" ELSE "modified", handling.name)
        /\ arrival' = [arrival EXCEPT ![r.target][handling.name] = IF Observed(r.target) THEN "written" ELSE "no"]
        /\ handling' = Without(r) /\ UNCHANGED <<daemon, changes, signals, logged>>
    BY <1>12 DEF ActWrite, Store
  <2>2. handling.read \in Versions
    BY <1>a
  <2>3. fs' \in [Folders -> [FileNames -> Versions]]
    BY <1>a, <2>1, <2>2, FileType
  <2>4. arrival' \in [Folders -> [FileNames -> Ways]]
    BY <1>a, <2>1, FileType
  <2>5. queue' \in Seq(Events)
    BY <1>a, <1>8, <2>1, PutType DEF EventTypes
  <2> QED BY <1>2, <1>a, <1>8, <2>1, <2>3, <2>4, <2>5
<1>15. ASSUME NEW r \in handling.todo, ActFails(r) PROVE WatcherTypeOK' /\ NothingInHand'
  <2> DEFINE n == handling.name
             v == IF handling.rule = {r} THEN handling.read ELSE fs[r.dir][n]
  <2>1. n \in FileNames /\ r \in ActiveRules /\ v \in Versions
    BY <1>a, <1>e, <1>8
  <2> HIDE DEF v
  <2>2. /\ logged' = logged \cup {<<r, n, v>>} /\ handling' = Without(r)
        /\ UNCHANGED <<daemon, changes, signals>>
        /\ \/ UNCHANGED <<fs, queue, arrival>>
           \/ \E w \in {v, Partial} : Store(r.target, n, w)
    BY <1>15 DEF ActFails, v
  <2>3. logged' \in Logs
    BY <1>a, <2>1, <2>2
  <2>4. CASE UNCHANGED <<fs, queue, arrival>>
    BY <1>a, <1>2, <1>8, <2>2, <2>3, <2>4
  <2>5. ASSUME NEW w \in Versions, Store(r.target, n, w) PROVE WatcherTypeOK' /\ NothingInHand'
    <3>1. /\ fs' = [fs EXCEPT ![r.target][n] = w]
          /\ queue' = Put(queue, r.target, IF fs[r.target][n] = 0 THEN "created" ELSE "modified", n)
          /\ arrival' = [arrival EXCEPT ![r.target][n] = IF Observed(r.target) THEN "written" ELSE "no"]
      BY <2>5 DEF Store
    <3>2. fs' \in [Folders -> [FileNames -> Versions]]
      BY <1>a, <3>1, FileType
    <3>3. arrival' \in [Folders -> [FileNames -> Ways]]
      BY <1>a, <3>1, FileType
    <3>4. queue' \in Seq(Events)
      BY <1>a, <1>8, <3>1, PutType DEF EventTypes
    <3> QED BY <1>2, <1>8, <2>2, <2>3, <3>2, <3>3, <3>4
  <2> QED BY <1>d, <2>1, <2>2, <2>4, <2>5
<1>13. CASE Handle
  BY <1>7, <1>9, <1>10, <1>11, <1>12, <1>13, <1>15 DEF Handle
<1>14. ASSUME NEW d \in UserFolders, NEW n \in FileNames,
              UserWrite(d, n) \/ UserRemove(d, n) \/ \E m \in FileNames : UserRename(d, n, m)
       PROVE  WatcherTypeOK' /\ NothingInHand'
  BY <1>3, <1>4, <1>5, <1>14, WatcherAssumption
<1> QED BY <1>6, <1>13, <1>14 DEF WatcherNext

-----------------------------------------------------------------------------
\* Watcher: what is written is copied.

\* p is q with something behind it, and an event is in it.
Keeps(q, p) == \A i \in DOMAIN q : i \in DOMAIN p /\ p[i] = q[i]
Holds(p, e) == \E i \in DOMAIN p : p[i] = e

\* The queue keeps what it has, and a watched folder's event is in it.
LEMMA PutKeeps ==
  ASSUME NEW q \in Seq([event : EventTypes, dir : Folders, name : FileNames]),
         NEW d \in Folders, NEW type \in EventTypes, NEW n \in FileNames
  PROVE  /\ Keeps(q, Put(q, d, type, n))
         /\ Observed(d) => Holds(Put(q, d, type, n), [event |-> type, dir |-> d, name |-> n])
<1> USE DEF Keeps, Holds
<1> DEFINE e == [event |-> type, dir |-> d, name |-> n]
           p == Put(q, d, type, n)
<1>1. e \in [event : EventTypes, dir : Folders, name : FileNames]
  OBVIOUS
<1> HIDE DEF e
<1>2. /\ DOMAIN q = 1..Len(q) /\ Len(q) \in Nat
      /\ DOMAIN Append(q, e) = 1..(Len(q) + 1) /\ Append(q, e)[Len(q) + 1] = e
      /\ \A i \in DOMAIN q : Append(q, e)[i] = q[i]
  BY <1>1
<1>3. CASE p = Append(q, e)
  <2>1. \A i \in DOMAIN q : i \in DOMAIN p /\ p[i] = q[i]
    BY <1>2, <1>3
  <2>2. Len(q) + 1 \in DOMAIN p /\ p[Len(q) + 1] = e
    BY <1>2, <1>3
  <2> QED BY <2>1, <2>2 DEF e
<1>4. CASE p = q /\ Observed(d)
  <2>1. q # <<>> /\ Last(q) = e
    <3>1. q # Append(q, e)
      <4>1. Len(q) + 1 \in DOMAIN Append(q, e) /\ Len(q) + 1 \notin DOMAIN q
        BY <1>2
      <4> QED BY <4>1
    <3> QED BY <1>4, <3>1 DEF Put, e
  <2>2. Len(q) \in DOMAIN q /\ q[Len(q)] = e
    BY <1>2, <2>1 DEF Last
  <2> QED BY <1>4, <2>2 DEF e
<1>5. CASE p = q /\ ~Observed(d)
  BY <1>5
<1>6. p = q \/ p = Append(q, e)
  BY DEF Put, e
<1> QED BY <1>3, <1>4, <1>5, <1>6

\* A file that is written is copied, or its event waits, or its rule is in hand, or
\* its copy has failed.
Followed(r, n) ==
  \/ EventWaits(r, n) \/ <<r, n, fs[r.dir][n]>> \in logged
  \/ /\ fs[r.target][n] = fs[r.dir][n] \/ (r \in handling.todo /\ handling.name = n)
     /\ handling.rule = {r} /\ r \in handling.todo /\ handling.name = n
          => handling.read = fs[r.dir][n]

Written(r, n) == fs[r.dir][n] # 0 /\ arrival[r.dir][n] = "written"

\* One file of one folder changes, and nothing else.
LEMMA OneFile ==
  ASSUME NEW S, NEW F \in [Folders -> [FileNames -> S]], NEW d, NEW n \in FileNames, NEW v,
         NEW a \in Folders, NEW m \in FileNames
  PROVE  [F EXCEPT ![d][n] = v][a][m] = IF a = d /\ m = n THEN v ELSE F[a][m]
OBVIOUS

LEMMA CopyStep ==
  ASSUME WatcherTypeOK, NothingInHand, CopyAhead, WatcherNext
  PROVE  CopyAhead'
<1> DEFINE Events == [event : EventTypes, dir : Folders, name : FileNames]
<1>a. /\ fs \in [Folders -> [FileNames -> Versions]] /\ queue \in Seq(Events)
      /\ arrival \in [Folders -> [FileNames -> {"no", "written", "moved"}]]
      /\ handling.todo \subseteq ActiveRules /\ handling.rule \subseteq ActiveRules
      /\ signals \in Nat
  BY WatcherAssumption DEF WatcherTypeOK
<1>v. 0 \in Versions
  BY WatcherAssumption DEF Versions, Partial
<1>t. {"created", "modified", "deleted", "moved"} \subseteq EventTypes
  BY DEF EventTypes
<1>b. /\ handling.todo # {} => daemon.observing /\ handling.name \in FileNames
      /\ handling.rule # {} => \E s \in handling.todo : handling.rule = {s} /\ s.action = "copy"
  BY DEF NothingInHand, Idle
<1> SUFFICES ASSUME NEW r \in CopyRules({"created", "modified"}), NEW n \in FileNames,
                    OwnsTarget(r), n \in r.names, signals' = 0, Written(r, n)'
             PROVE  Followed(r, n)'
  BY DEF CopyAhead, Followed, Written, Arrived
<1>l. logged \subseteq logged'
  BY DEF WatcherNext, UserWrite, UserRemove, UserRename, InstallHandlers, EngineStart, Pause, Signal,
         SignalInStart, Restart, Handle, TakeEvent, ActElsewhere, ActMove, ActRead, ActWrite, ActFails
<1>c. /\ r \in ActiveRules /\ r.action = "copy" /\ r.dir \in Folders
      /\ r.target \in Folders /\ r.target \notin UserFolders /\ r.target # r.dir
      /\ "created" \in r.events /\ "modified" \in r.events
  BY DEF CopyRules, ActiveRules, OwnsTarget
<1>o. Observed(r.dir) <=> daemon.observing
  BY <1>c DEF Observed
<1> DEFINE D == r.dir
           T == r.target
           Kept == Keeps(queue, queue')
           Same == /\ fs'[D][n] = fs[D][n] /\ arrival'[D][n] = arrival[D][n]
                   /\ fs'[T][n] = fs[T][n]
<1>d. signals = 0 => (Written(r, n) => Followed(r, n))
  BY DEF CopyAhead, Followed, Written, Arrived
<1>e. ASSUME Kept, EventWaits(r, n) PROVE EventWaits(r, n)'
  BY <1>e DEF EventWaits, Keeps
<1>f. ASSUME Same, Kept, handling' = handling, signals' = signals PROVE Followed(r, n)'
  BY <1>d, <1>e, <1>f, <1>l DEF Written, Followed
\* a rule other than r is done with
<1>g. ASSUME NEW s \in handling.todo, s # r, handling' = Without(s), Same, Kept, signals' = signals
      PROVE  Followed(r, n)'
  <2>1. Followed(r, n)
    BY <1>d, <1>g DEF Written
  <2>2. CASE handling.todo = {s}
    <3>1. handling'.todo = {} /\ handling'.rule = {} /\ r \notin handling.todo
      BY <1>g, <2>2 DEF Without, Idle
    <3> QED BY <1>e, <1>g, <1>l, <2>1, <3>1 DEF Followed
  <2>3. CASE handling.todo # {s}
    <3>1. handling' = [handling EXCEPT !.todo = @ \ {s}, !.rule = {}, !.read = 0]
      BY <1>g, <2>3 DEF Without
    <3>2. /\ handling'.todo = handling.todo \ {s} /\ handling'.rule = {}
          /\ handling'.name = handling.name
      BY <3>1 DEF WatcherTypeOK
    <3> QED BY <1>e, <1>g, <1>l, <2>1, <3>2 DEF Followed
  <2> QED BY <2>2, <2>3
\* an event of the file has just been put into the queue
<1>h. ASSUME NEW q \in Seq(Events), NEW type \in {"created", "modified"}, daemon.observing,
             queue' = Put(q, D, type, n)
      PROVE  Followed(r, n)'
  <2>1. Holds(queue', [event |-> type, dir |-> D, name |-> n])
    BY <1>c, <1>h, <1>o, <1>t, PutKeeps
  <2>2. EventWaits(r, n)'
    BY <1>h, <2>1 DEF EventWaits, Holds
  <2> QED BY <2>2 DEF Followed
<1>1. ASSUME NEW d \in UserFolders, NEW m \in FileNames, UserWrite(d, m) PROVE Followed(r, n)'
  <2> DEFINE type == IF fs[d][m] = 0 THEN "created" ELSE "modified"
  <2>1. /\ fs' = [fs EXCEPT ![d][m] = changes + 1]
        /\ queue' = Put(queue, d, type, m)
        /\ arrival' = [arrival EXCEPT ![d][m] = IF Observed(d) THEN "written" ELSE "no"]
        /\ handling' = handling /\ signals' = signals
    BY <1>1 DEF UserWrite, Store
  <2>2. d \in Folders /\ d # T /\ type \in {"created", "modified"}
    BY <1>c, WatcherAssumption
  <2> HIDE DEF type
  <2>3. Kept
    BY <1>a, <2>1, <2>2, <1>t, PutKeeps
  <2>4. CASE d = D /\ m = n
    <3>1. arrival'[D][n] = IF Observed(D) THEN "written" ELSE "no"
      BY <1>a, <1>c, <2>1, <2>4, OneFile
    <3>2. daemon.observing
      BY <1>o, <3>1 DEF Written
    <3> QED BY <1>a, <1>h, <2>1, <2>2, <2>4, <3>2
  <2>5. CASE ~(d = D /\ m = n)
    <3>1. Same
      BY <1>a, <1>c, <2>1, <2>2, <2>5, OneFile
    <3> QED BY <1>f, <2>1, <2>3, <3>1
  <2> QED BY <2>4, <2>5
<1>2. ASSUME NEW d \in UserFolders, NEW m \in FileNames, UserRemove(d, m) PROVE Followed(r, n)'
  <2>1. /\ fs' = [fs EXCEPT ![d][m] = 0] /\ queue' = Put(queue, d, "deleted", m)
        /\ arrival' = [arrival EXCEPT ![d][m] = "no"]
        /\ handling' = handling /\ signals' = signals
    BY <1>2 DEF UserRemove
  <2>2. d \in Folders /\ d # T
    BY <1>c, WatcherAssumption
  <2>3. Kept
    BY <1>a, <2>1, <2>2, <1>t, PutKeeps
  <2>4. ~(d = D /\ m = n)
    BY <1>a, <1>c, <2>1, OneFile DEF Written
  <2>5. Same
    BY <1>a, <1>c, <2>1, <2>2, <2>4, OneFile
  <2> QED BY <1>f, <2>1, <2>3, <2>5
<1>3. ASSUME NEW d \in UserFolders, NEW m \in FileNames, NEW k \in FileNames, UserRename(d, m, k)
      PROVE  Followed(r, n)'
  <2> DEFINE moved == [fs EXCEPT ![d][k] = fs[d][m]]
             came == [arrival EXCEPT ![d][k] = IF Observed(d) THEN "moved" ELSE "no"]
  <2>1. /\ fs' = [moved EXCEPT ![d][m] = 0] /\ queue' = Put(queue, d, "moved", m)
        /\ arrival' = [came EXCEPT ![d][m] = "no"]
        /\ handling' = handling /\ signals' = signals
    BY <1>3 DEF UserRename
  <2>2. d \in Folders /\ d # T
    BY <1>c, WatcherAssumption
  <2>3. Kept
    BY <1>a, <2>1, <2>2, <1>t, PutKeeps
  <2>4. /\ moved \in [Folders -> [FileNames -> Versions]]
        /\ came \in [Folders -> [FileNames -> {"no", "written", "moved"}]]
    <3>1. fs[d][m] \in Versions
      BY <1>a, <2>2
    <3> QED BY <1>a, <3>1, FileType
  <2>5. \A a \in Folders, x \in FileNames :
          /\ moved[a][x] = IF a = d /\ x = k THEN fs[d][m] ELSE fs[a][x]
          /\ came[a][x] = IF a = d /\ x = k THEN (IF Observed(d) THEN "moved" ELSE "no")
                          ELSE arrival[a][x]
    BY <1>a, OneFile
  <2> HIDE DEF moved, came
  <2>6. \A a \in Folders, x \in FileNames :
          /\ fs'[a][x] = IF a = d /\ x = m THEN 0 ELSE moved[a][x]
          /\ arrival'[a][x] = IF a = d /\ x = m THEN "no" ELSE came[a][x]
    BY <2>1, <2>4, OneFile
  <2>7. ~(d = D /\ (m = n \/ k = n))
    BY <1>c, <2>5, <2>6 DEF Written
  <2>8. Same
    BY <1>c, <2>2, <2>5, <2>6, <2>7
  <2> QED BY <1>f, <2>1, <2>3, <2>8
<1>4. CASE InstallHandlers \/ EngineStart \/ Pause \/ Restart
  BY <1>4, <1>f DEF Keeps, InstallHandlers, EngineStart, Pause, Restart
<1>5. CASE Signal \/ SignalInStart
  BY <1>5, <1>a DEF Signal, SignalInStart
<1>6. CASE TakeEvent
  <2>1. /\ queue # <<>> /\ queue' = Tail(queue) /\ handling = Idle
        /\ UNCHANGED <<fs, signals, arrival>>
        /\ handling' = IF Matching(Head(queue)) = {} THEN Idle
                       ELSE [Idle EXCEPT !.event = Head(queue).event, !.dir = Head(queue).dir,
                                         !.name = Head(queue).name, !.todo = Matching(Head(queue))]
    BY <1>6 DEF TakeEvent
  <2>2. handling.todo = {} /\ handling'.rule = {} /\ Followed(r, n)
    BY <1>d, <2>1 DEF Idle, Written
  <2>3. CASE ~EventWaits(r, n)
    BY <1>l, <2>1, <2>2, <2>3 DEF Followed
  <2>4. ASSUME NEW i \in DOMAIN queue, queue[i].dir = D, queue[i].name = n,
               queue[i].event \in {"created", "modified"}
        PROVE  Followed(r, n)'
    <3>1. DOMAIN queue = 1..Len(queue) /\ Len(queue) \in Nat /\ Head(queue) = queue[1]
      BY <1>a, <2>1
    <3>2. CASE i = 1
      <4>1. r \in Matching(Head(queue))
        BY <1>c, <2>4, <3>1, <3>2 DEF Matching
      <4>2. r \in handling'.todo /\ handling'.name = n
        BY <2>1, <2>4, <3>1, <3>2, <4>1 DEF Idle
      <4> QED BY <2>2, <4>2 DEF Followed
    <3>3. CASE i # 1
      <4>1. i - 1 \in DOMAIN Tail(queue) /\ Tail(queue)[i - 1] = queue[i]
        BY <1>a, <2>1, <3>1, <3>3, SMTT(30)
      <4>2. EventWaits(r, n)'
        BY <2>1, <2>4, <4>1 DEF EventWaits
      <4> QED BY <4>2 DEF Followed
    <3> QED BY <3>2, <3>3
  <2> QED BY <2>3, <2>4 DEF EventWaits
<1>7. ASSUME NEW s \in handling.todo, ActElsewhere(s) PROVE Followed(r, n)'
  <2>1. /\ handling' = Without(s) /\ UNCHANGED <<fs, queue, signals, arrival>>
        /\ s.action \in {"move", "copy"} => fs[s.dir][handling.name] = 0 \/ s.target = s.dir
    BY <1>7 DEF ActElsewhere
  <2>2. CASE s # r
    BY <1>g, <2>1, <2>2 DEF Keeps
  <2>3. CASE s = r
    <3>1. handling.name # n
      BY <1>c, <2>1, <2>3 DEF Written
    <3>2. Followed(r, n) /\ handling'.rule = {}
      <4>1. handling'.rule = {}
        BY <2>1 DEF Without, Idle, WatcherTypeOK
      <4> QED BY <1>d, <2>1, <4>1 DEF Written
    <3> QED BY <1>l, <2>1, <3>1, <3>2 DEF Followed, EventWaits
  <2> QED BY <2>2, <2>3
<1>8. ASSUME NEW s \in handling.todo, ActMove(s) PROVE Followed(r, n)'
  <2> DEFINE m == handling.name
             v == fs[s.dir][m]
             left == [fs EXCEPT ![s.dir][m] = 0]
             gone == [arrival EXCEPT ![s.dir][m] = "no"]
             q == Put(queue, s.dir, "deleted", m)
  <2>1. /\ fs' = [left EXCEPT ![s.target][m] = v]
        /\ queue' = Put(q, s.target, "created", m)
        /\ arrival' = [gone EXCEPT ![s.target][m] = IF Observed(s.target) THEN "written" ELSE "no"]
        /\ handling' = Without(s) /\ signals' = signals
        /\ s.action = "move" /\ s.target # s.dir
    BY <1>8 DEF ActMove
  <2>2. /\ m \in FileNames /\ s \in ActiveRules /\ s.dir \in Folders /\ v \in Versions
        /\ daemon.observing
    BY <1>a, <1>b DEF ActiveRules
  <2>3. s # r /\ s.dir # T /\ s.target # T
    BY <1>c, <2>1, <2>2 DEF OwnsTarget
  <2>4. q \in Seq(Events) /\ Keeps(queue, q)
    BY <1>a, <2>2, <1>t, PutType, PutKeeps
  <2>5. /\ left \in [Folders -> [FileNames -> Versions]]
        /\ gone \in [Folders -> [FileNames -> {"no", "written", "moved"}]]
    BY <1>a, <1>v, <2>2, FileType
  <2>6. \A a \in Folders, x \in FileNames :
          /\ left[a][x] = IF a = s.dir /\ x = m THEN 0 ELSE fs[a][x]
          /\ gone[a][x] = IF a = s.dir /\ x = m THEN "no" ELSE arrival[a][x]
    BY <1>a, <2>2, OneFile
  <2> HIDE DEF left, gone, q, m, v
  <2>7. \A a \in Folders, x \in FileNames :
          /\ fs'[a][x] = IF a = s.target /\ x = m THEN v ELSE left[a][x]
          /\ arrival'[a][x] = IF a = s.target /\ x = m
                              THEN (IF Observed(s.target) THEN "written" ELSE "no") ELSE gone[a][x]
    BY <2>1, <2>2, <2>5, OneFile
  <2>8. CASE s.target = D /\ m = n
    BY <1>h, <2>1, <2>2, <2>4, <2>8
  <2>9. CASE ~(s.target = D /\ m = n)
    <3>1. ~(s.dir = D /\ m = n)
      BY <1>c, <2>6, <2>7, <2>9 DEF Written
    <3>2. Same
      BY <1>c, <2>3, <2>6, <2>7, <2>9, <3>1
    <3>3. Kept
      <4>1. CASE s.target \in Folders
        <5>1. Keeps(q, queue')
          BY <1>t, <2>1, <2>2, <2>4, <4>1, PutKeeps
        <5> QED BY <2>4, <5>1 DEF Keeps
      <4>2. CASE s.target \notin Folders
        BY <2>1, <2>4, <4>2 DEF Put, Observed, ActiveRules
      <4> QED BY <4>1, <4>2
    <3> QED BY <1>g, <2>1, <2>3, <3>2, <3>3
  <2> QED BY <2>8, <2>9
<1>9. ASSUME NEW s \in handling.todo, ActRead(s) PROVE Followed(r, n)'
  <2>1. /\ handling' = [handling EXCEPT !.rule = {s}, !.read = fs[s.dir][handling.name]]
        /\ UNCHANGED <<fs, queue, signals, arrival>>
    BY <1>9 DEF ActRead
  <2>2. /\ handling'.todo = handling.todo /\ handling'.name = handling.name
        /\ handling'.rule = {s} /\ handling'.read = fs[s.dir][handling.name]
    BY <2>1 DEF WatcherTypeOK
  <2>3. Followed(r, n)
    BY <1>d, <2>1 DEF Written
  <2>4. {s} = {r} => s = r
    OBVIOUS
  <2> QED BY <1>l, <2>1, <2>2, <2>3, <2>4 DEF Followed, EventWaits
<1>10. ASSUME NEW s \in handling.todo, ActWrite(s) PROVE Followed(r, n)'
  <2> DEFINE m == handling.name
             type == IF fs[s.target][m] = 0 THEN "created" ELSE "modified"
  <2>1. /\ handling.rule = {s} /\ handling' = Without(s) /\ signals' = signals
        /\ fs' = [fs EXCEPT ![s.target][m] = handling.read]
        /\ queue' = Put(queue, s.target, type, m)
        /\ arrival' = [arrival EXCEPT ![s.target][m] = IF Observed(s.target) THEN "written" ELSE "no"]
    BY <1>10 DEF ActWrite, Store
  <2>2. /\ m \in FileNames /\ s \in ActiveRules /\ s.action = "copy" /\ daemon.observing
        /\ type \in {"created", "modified"}
    BY <1>a, <1>b, <2>1
  <2> HIDE DEF m, type
  <2>3. \A a \in Folders, x \in FileNames :
          /\ fs'[a][x] = IF a = s.target /\ x = m THEN handling.read ELSE fs[a][x]
          /\ arrival'[a][x] = IF a = s.target /\ x = m
                              THEN (IF Observed(s.target) THEN "written" ELSE "no") ELSE arrival[a][x]
    BY <1>a, <2>1, <2>2, OneFile
  <2>4. Kept
    <3>1. CASE s.target \in Folders
      BY <1>a, <2>1, <2>2, <3>1, <1>t, PutKeeps
    <3>2. CASE s.target \notin Folders
      BY <2>1, <3>2 DEF Put, Observed, ActiveRules, Keeps
    <3> QED BY <3>1, <3>2
  <2>5. CASE s = r
    <3>1. fs'[D][n] = fs[D][n] /\ arrival'[D][n] = arrival[D][n]
      BY <1>c, <2>3, <2>5
    <3>2. Followed(r, n) /\ handling'.rule = {}
      <4>1. handling'.rule = {}
        BY <2>1 DEF Without, Idle, WatcherTypeOK
      <4> QED BY <1>d, <2>1, <3>1, <4>1 DEF Written
    <3>3. CASE EventWaits(r, n)
      BY <1>e, <2>4, <3>3 DEF Followed
    <3>6. CASE <<r, n, fs[D][n]>> \in logged
      BY <1>l, <3>1, <3>6 DEF Followed
    <3>4. CASE ~EventWaits(r, n) /\ <<r, n, fs[D][n]>> \notin logged /\ m = n
      <4>1. handling.read = fs[D][n]
        BY <2>1, <2>5, <3>2, <3>4 DEF Followed, m
      <4>2. fs'[T][n] = fs'[D][n]
        BY <1>c, <2>3, <2>5, <3>1, <3>4, <4>1
      <4> QED BY <3>2, <4>2 DEF Followed
    <3>5. CASE ~EventWaits(r, n) /\ <<r, n, fs[D][n]>> \notin logged /\ m # n
      <4>1. fs[T][n] = fs[D][n]
        BY <3>2, <3>5 DEF Followed, m
      <4>2. fs'[T][n] = fs[T][n]
        BY <1>c, <2>3, <3>5
      <4> QED BY <3>1, <3>2, <4>1, <4>2 DEF Followed
    <3> QED BY <3>3, <3>4, <3>5, <3>6
  <2>6. CASE s # r
    <3>1. s.target # T
      BY <2>2, <2>6 DEF OwnsTarget
    <3>2. CASE s.target = D /\ m = n
      BY <1>a, <1>h, <2>1, <2>2, <3>2
    <3>3. CASE ~(s.target = D /\ m = n)
      <4>1. Same
        BY <1>c, <2>3, <3>1, <3>3
      <4> QED BY <1>g, <2>1, <2>4, <2>6, <4>1
    <3> QED BY <3>2, <3>3
  <2> QED BY <2>5, <2>6
<1>11. ASSUME NEW s \in handling.todo, ActFails(s) PROVE Followed(r, n)'
  <2> DEFINE m == handling.name
             v == IF handling.rule = {s} THEN handling.read ELSE fs[s.dir][m]
             type == IF fs[s.target][m] = 0 THEN "created" ELSE "modified"
  <2>1. /\ handling.rule = {s} \/ (handling.rule = {} /\ s.action = "move")
        /\ handling' = Without(s) /\ signals' = signals /\ logged' = logged \cup {<<s, m, v>>}
        /\ \/ UNCHANGED <<fs, queue, arrival>>
           \/ \E w \in {v, Partial} :
                /\ fs' = [fs EXCEPT ![s.target][m] = w]
                /\ queue' = Put(queue, s.target, type, m)
                /\ arrival' = [arrival EXCEPT ![s.target][m] = IF Observed(s.target) THEN "written" ELSE "no"]
    <3>1. \A w : Store(s.target, m, w) =>
                  /\ fs' = [fs EXCEPT ![s.target][m] = w]
                  /\ queue' = Put(queue, s.target, type, m)
                  /\ arrival' = [arrival EXCEPT ![s.target][m] = IF Observed(s.target) THEN "written" ELSE "no"]
      BY DEF Store
    <3> HIDE DEF type
    <3> QED BY <1>11, <3>1, ZenonT(40) DEF ActFails
  <2>2. /\ m \in FileNames /\ s \in ActiveRules /\ s.action \in {"move", "copy"} /\ daemon.observing
        /\ type \in {"created", "modified"}
    BY <1>a, <1>b, <2>1
  <2>3. s = r => handling.rule = {r} /\ v = handling.read
    BY <1>c, <2>1
  <2> HIDE DEF m, type, v
  <2>4. \/ UNCHANGED <<fs, queue, arrival>>
        \/ \E w \in {v, Partial} :
             /\ queue' = Put(queue, s.target, type, m)
             /\ \A a \in Folders, x \in FileNames :
                  /\ fs'[a][x] = IF a = s.target /\ x = m THEN w ELSE fs[a][x]
                  /\ arrival'[a][x] = IF a = s.target /\ x = m
                                      THEN (IF Observed(s.target) THEN "written" ELSE "no") ELSE arrival[a][x]
    BY <1>a, <2>1, <2>2, OneFile
  <2>5. Kept
    <3>1. CASE queue' = queue
      BY <3>1 DEF Keeps
    <3>2. CASE queue' = Put(queue, s.target, type, m) /\ s.target \in Folders
      BY <1>a, <2>2, <3>2, <1>t, PutKeeps
    <3>3. CASE queue' = Put(queue, s.target, type, m) /\ s.target \notin Folders
      BY <3>3 DEF Put, Observed, ActiveRules, Keeps
    <3> QED BY <2>4, <3>1, <3>2, <3>3
  <2>6. CASE s = r
    <3>1. fs'[D][n] = fs[D][n] /\ arrival'[D][n] = arrival[D][n]
      BY <1>c, <2>4, <2>6
    <3>2. Followed(r, n) /\ handling'.rule = {}
      <4>1. handling'.rule = {}
        BY <2>1 DEF Without, Idle, WatcherTypeOK
      <4> QED BY <1>d, <2>1, <3>1, <4>1 DEF Written
    <3>3. CASE EventWaits(r, n)
      BY <1>e, <2>5, <3>3 DEF Followed
    <3>4. CASE <<r, n, fs[D][n]>> \in logged
      BY <1>l, <3>1, <3>4 DEF Followed
    <3>5. CASE ~EventWaits(r, n) /\ <<r, n, fs[D][n]>> \notin logged /\ m = n
      <4>1. v = fs[D][n]
        BY <2>3, <2>6, <3>2, <3>5 DEF Followed, m
      <4>2. <<r, n, fs'[D][n]>> \in logged'
        BY <2>1, <2>6, <3>1, <3>5, <4>1
      <4> QED BY <4>2 DEF Followed
    <3>6. CASE ~EventWaits(r, n) /\ <<r, n, fs[D][n]>> \notin logged /\ m # n
      <4>1. fs[T][n] = fs[D][n]
        BY <3>2, <3>6 DEF Followed, m
      <4>2. fs'[T][n] = fs[T][n]
        BY <1>c, <2>4, <3>6
      <4> QED BY <3>1, <3>2, <4>1, <4>2 DEF Followed
    <3> QED BY <3>3, <3>4, <3>5, <3>6
  <2>7. CASE s # r
    <3>1. s.target # T
      BY <2>2, <2>7 DEF OwnsTarget
    <3>2. CASE Same
      BY <1>g, <2>1, <2>5, <2>7, <3>2
    <3>3. CASE ~Same
      <4>1. s.target = D /\ m = n /\ queue' = Put(queue, D, type, n)
        BY <1>c, <2>4, <3>1, <3>3
      <4> QED BY <1>a, <1>h, <2>2, <4>1
    <3> QED BY <3>2, <3>3
  <2> QED BY <2>6, <2>7
<1> QED BY <1>1, <1>2, <1>3, <1>4, <1>5, <1>6, <1>7, <1>8, <1>9, <1>10, <1>11 DEF WatcherNext, Handle

-----------------------------------------------------------------------------
\* RsyncEngine: rows, threads and processes.

\* Some thread has still to write the row.
Ahead(r) == runs[r].pc \in {"open", "read", "raised"}

\* One run goes on, and the row is final or its own thread's to write: what holds
\* of the others holds still.
LEMMA RunGoesOn ==
  ASSUME RsyncTypeOK, RowAhead, Settled, NEW r \in DOMAIN runs, NEW new \in RunRecord,
         Set(r, new), row' \in {"pending", "running"} \cup FinalStatus,
         tracked' \in 0..Len(runs), follower' \in [Followers -> 0..Len(runs)],
         new.pc \in {"update", "open"} => new.proc = "none",
         new.done <=> new.pc \in {"timer", "over"},
         new.pc = "read" => new.proc # "none",
         runs[r].escaped => new.escaped,
         row' = "pending" => row = "pending" /\ new.pc \in {"update", "dead"},
         row' = "running" => \/ new.pc \in {"open", "read", "raised"} \/ new.escaped
                             \/ row = "running" /\ ~Ahead(r),
         row' = "completed" => \/ new.proc = "exited" /\ new.code = 0
                               \/ row = "completed" /\ ~(runs[r].proc = "exited" /\ runs[r].code = 0)
  PROVE  RsyncTypeOK' /\ RowAhead' /\ Settled'
<1>1. runs \in Seq(RunRecord) /\ Len(runs) \in Nat /\ Len(runs) <= MaxStarts /\ DOMAIN runs = 1..Len(runs)
  BY DEF RsyncTypeOK
<1>2. runs' = [runs EXCEPT ![r] = new]
  BY DEF Set
<1>3. runs' \in Seq(RunRecord) /\ Len(runs') = Len(runs) /\ DOMAIN runs' = DOMAIN runs
  BY <1>1, <1>2
<1>4. \A k \in DOMAIN runs : runs'[k] = IF k = r THEN new ELSE runs[k]
  BY <1>1, <1>2
<1>5. RsyncTypeOK'
  BY <1>1, <1>3 DEF RsyncTypeOK
<1>6. RowAhead'
  <2>1. ASSUME row' = "running"
        PROVE  \E k \in DOMAIN runs' : runs'[k].pc \in {"open", "read", "raised"} \/ runs'[k].escaped
    <3>1. CASE new.pc \in {"open", "read", "raised"} \/ new.escaped
      BY <1>3, <1>4, <3>1
    <3>2. CASE row = "running" /\ ~Ahead(r)
      <4>1. PICK k \in DOMAIN runs : runs[k].pc \in {"open", "read", "raised"} \/ runs[k].escaped
        BY <3>2 DEF RowAhead
      <4>2. k = r => new.escaped
        BY <3>2, <4>1 DEF Ahead
      <4> QED BY <1>3, <1>4, <4>1, <4>2
    <3> QED BY <2>1, <3>1, <3>2
  <2>2. row' = "pending" => \A k \in DOMAIN runs' : runs'[k].pc \in {"update", "dead"}
    BY <1>3, <1>4 DEF RowAhead
  <2>3. \A k \in DOMAIN runs' : /\ runs'[k].pc \in {"update", "open"} => runs'[k].proc = "none"
                                /\ (runs'[k].done <=> runs'[k].pc \in {"timer", "over"})
                                /\ runs'[k].pc = "read" => runs'[k].proc # "none"
    BY <1>3, <1>4 DEF RowAhead
  <2> QED BY <2>1, <2>2, <2>3 DEF RowAhead
<1>7. Settled'
  <2>1. ASSUME runs' # <<>>, \A k \in DOMAIN runs' : runs'[k].done \/ runs'[k].pc = "dead"
        PROVE  \/ row' \in FinalStatus
               \/ row' = "pending" /\ \A k \in DOMAIN runs' : runs'[k].pc = "dead"
               \/ row' = "running" /\ \E k \in DOMAIN runs' : runs'[k].escaped
    <3>1. \A k \in DOMAIN runs' : runs'[k].pc \in {"timer", "over", "dead"}
      BY <1>6, <2>1 DEF RowAhead
    <3>2. CASE row' = "pending"
      BY <1>6, <3>1, <3>2 DEF RowAhead
    <3>3. CASE row' = "running"
      BY <1>6, <3>1, <3>3 DEF RowAhead
    <3> QED BY <3>2, <3>3
  <2>2. ASSUME row' = "completed" PROVE \E k \in DOMAIN runs' : runs'[k].proc = "exited" /\ runs'[k].code = 0
    <3>1. CASE new.proc = "exited" /\ new.code = 0
      BY <1>3, <1>4, <3>1
    <3>2. CASE row = "completed" /\ ~(runs[r].proc = "exited" /\ runs[r].code = 0)
      <4>1. PICK k \in DOMAIN runs : runs[k].proc = "exited" /\ runs[k].code = 0
        BY <3>2 DEF Settled
      <4> QED BY <1>3, <1>4, <3>2, <4>1
    <3> QED BY <2>2, <3>1, <3>2
  <2> QED BY <2>1, <2>2 DEF Settled, At
<1> QED BY <1>5, <1>6, <1>7

LEMMA RsyncStep ==
  ASSUME RsyncTypeOK, RowAhead, Settled, RsyncNext
  PROVE  RsyncTypeOK' /\ RowAhead' /\ Settled'
<1>1. /\ runs \in Seq(RunRecord) /\ Len(runs) \in Nat /\ DOMAIN runs = 1..Len(runs)
      /\ row \in {"pending", "running"} \cup FinalStatus
      /\ tracked \in 0..Len(runs) /\ follower \in [Followers -> 0..Len(runs)]
  BY DEF RsyncTypeOK
<1>2. CASE StartTransfer
  <2>1. /\ runs' = Append(runs, NewRun) /\ tracked' = Len(runs) + 1
        /\ Len(runs) < MaxStarts /\ UNCHANGED <<row, follower>>
    BY <1>2 DEF StartTransfer
  <2>2. NewRun \in RunRecord
    BY RsyncAssumption DEF NewRun, RunRecord
  <2>3. /\ runs' \in Seq(RunRecord) /\ Len(runs') = Len(runs) + 1 /\ DOMAIN runs' = 1..(Len(runs) + 1)
        /\ \A k \in DOMAIN runs : runs'[k] = runs[k]
        /\ runs'[Len(runs) + 1] = NewRun
    BY <1>1, <2>1, <2>2
  <2>4. follower' \in [Followers -> 0..Len(runs')]
    BY <1>1, <2>1, <2>3
  <2>5. RsyncTypeOK'
    BY <1>1, <2>1, <2>3, <2>4, RsyncAssumption DEF RsyncTypeOK
  <2>6. Len(runs) + 1 \in DOMAIN runs' /\ NewRun.pc = "update" /\ NewRun.proc = "none" /\ NewRun.done = FALSE
    BY <1>1, <2>3 DEF NewRun
  <2>7. \A k \in DOMAIN runs' : k \in DOMAIN runs \/ k = Len(runs) + 1
    BY <1>1, <2>3
  <2>8. RowAhead'
    BY <2>1, <2>3, <2>6, <2>7, SMTT(60) DEF RowAhead
  <2>9. Settled'
    <3>1. ~(\A k \in DOMAIN runs' : runs'[k].done \/ runs'[k].pc = "dead")
      BY <2>3, <2>6
    <3>2. row' = "completed" => \E k \in DOMAIN runs' : runs'[k].proc = "exited" /\ runs'[k].code = 0
      BY <1>1, <2>1, <2>3 DEF Settled
    <3> QED BY <3>1, <3>2 DEF Settled, At
  <2> QED BY <2>5, <2>8, <2>9
<1>3. ASSUME NEW r \in DOMAIN runs PROVE runs[r] \in RunRecord
  BY <1>1
<1>4. CASE Cancel
  <2> DEFINE new == [runs[tracked] EXCEPT !.cancel = TRUE,
                 !.proc = IF @ = "alive" THEN "exited" ELSE @,
                 !.code = IF runs[tracked].proc = "alive" THEN 1 ELSE @]
  <2>1. tracked \in DOMAIN runs /\ Set(tracked, new) /\ UNCHANGED <<row, tracked, follower>>
    BY <1>1, <1>4 DEF Cancel
  <2>2. runs[tracked] \in RunRecord
    BY <1>3, <2>1
  <2>3. new \in RunRecord
    BY <2>2 DEF RunRecord
  <2>4. /\ new.pc = runs[tracked].pc /\ new.done = runs[tracked].done /\ new.escaped = runs[tracked].escaped
        /\ new.proc = "none" => runs[tracked].proc = "none"
        /\ runs[tracked].proc # "alive" => new.proc = runs[tracked].proc /\ new.code = runs[tracked].code
    BY <2>2 DEF RunRecord
  <2>5. /\ new.pc \in {"update", "open"} => new.proc = "none"
        /\ (new.done <=> new.pc \in {"timer", "over"})
        /\ new.pc = "read" => new.proc # "none"
    BY <2>1, <2>4 DEF RowAhead
  <2> HIDE DEF new
  <2> QED BY <1>1, <2>1, <2>3, <2>4, <2>5, RunGoesOn DEF RowAhead, Ahead
<1>5. ASSUME NEW r \in DOMAIN runs, Thread(r) \/ Write(r) \/ Exit(r)
      PROVE  RsyncTypeOK' /\ RowAhead' /\ Settled'
  <2>1. runs[r] \in RunRecord
    BY <1>3
  <2>2. \A new \in RunRecord :
          (/\ Set(r, new) /\ row' \in {"pending", "running"} \cup FinalStatus
           /\ tracked' \in 0..Len(runs) /\ follower' = follower
           /\ new.pc \in {"update", "open"} => new.proc = "none"
           /\ (new.done <=> new.pc \in {"timer", "over"})
           /\ new.pc = "read" => new.proc # "none"
           /\ new.escaped \/ new.escaped = runs[r].escaped
           /\ row' = "pending" => row = "pending" /\ new.pc \in {"update", "dead"}
           /\ row' = "running" => \/ new.pc \in {"open", "read", "raised"} \/ new.escaped
                                  \/ row = "running" /\ ~Ahead(r)
           /\ row' = "completed" => \/ new.proc = "exited" /\ new.code = 0
                                    \/ row = "completed" /\ ~(runs[r].proc = "exited" /\ runs[r].code = 0))
          => RsyncTypeOK' /\ RowAhead' /\ Settled'
    BY <1>1, RunGoesOn
  <2>3. /\ runs[r].pc \in {"update", "open"} => runs[r].proc = "none"
        /\ (runs[r].done <=> runs[r].pc \in {"timer", "over"})
        /\ runs[r].pc = "read" => runs[r].proc # "none"
        /\ row = "pending" => runs[r].pc \in {"update", "dead"}
    BY DEF RowAhead
  <2>4. 0 \in 0..Len(runs) /\ 0 \in 0..MaxLines
    BY <1>1, RsyncAssumption
  <2> USE DEF At, Ahead, FinalStatus
  <2>5. CASE UpdateRow(r)
    <3> DEFINE new == [runs[r] EXCEPT !.pc = "open"]
    <3>1. new \in RunRecord /\ new.pc = "open" /\ new.proc = runs[r].proc /\ new.done = runs[r].done /\ new.escaped = runs[r].escaped
      BY <2>1 DEF RunRecord
    <3>2. Set(r, new) /\ row' = "running" /\ UNCHANGED <<tracked, follower>> /\ runs[r].pc = "update"
      BY <2>5 DEF UpdateRow
    <3> HIDE DEF new
    <3> QED BY <1>1, <2>2, <2>3, <3>1, <3>2
  <2>6. CASE Popen(r)
    <3> DEFINE alive == [runs[r] EXCEPT !.pc = "read", !.proc = "alive"]
               raised == [runs[r] EXCEPT !.pc = "raised"]
    <3>1. /\ alive \in RunRecord /\ alive.pc = "read" /\ alive.proc = "alive" /\ alive.done = runs[r].done /\ alive.escaped = runs[r].escaped
          /\ raised \in RunRecord /\ raised.pc = "raised" /\ raised.done = runs[r].done /\ raised.escaped = runs[r].escaped
          /\ raised.proc = runs[r].proc /\ raised.code = runs[r].code
      BY <2>1 DEF RunRecord
    <3>2. /\ runs[r].pc = "open" /\ UNCHANGED <<tracked, follower>>
          /\ \/ Set(r, alive) /\ row' = "running"
             \/ Set(r, raised) /\ row' = row
      BY <2>6 DEF Popen
    <3> HIDE DEF alive, raised
    <3>3. CASE Set(r, alive) /\ row' = "running"
      BY <1>1, <2>2, <2>3, <3>1, <3>2, <3>3
    <3>4. CASE Set(r, raised) /\ row' = row
      BY <1>1, <2>2, <2>3, <3>1, <3>2, <3>4
    <3> QED BY <3>2, <3>3, <3>4
  <2>7. CASE Write(r)
    <3> DEFINE new == [runs[r] EXCEPT !.lines = @ + 1]
    <3>1. runs[r].lines + 1 \in 0..MaxLines
      BY <2>1, <2>7, RsyncAssumption DEF RunRecord, Write
    <3>2. /\ new \in RunRecord /\ new.pc = runs[r].pc /\ new.proc = runs[r].proc
          /\ new.done = runs[r].done /\ new.escaped = runs[r].escaped /\ new.code = runs[r].code
      BY <2>1, <3>1 DEF RunRecord
    <3>3. Set(r, new) /\ UNCHANGED <<row, tracked, follower>>
      BY <2>7 DEF Write
    <3> HIDE DEF new
    <3> QED BY <1>1, <2>2, <2>3, <3>2, <3>3
  <2>8. CASE Exit(r)
    <3>1. PICK code \in {0, 1} : Set(r, [runs[r] EXCEPT !.proc = "exited", !.code = code])
      BY <2>8 DEF Exit
    <3> DEFINE new == [runs[r] EXCEPT !.proc = "exited", !.code = code]
    <3>2. new \in RunRecord /\ new.pc = runs[r].pc /\ new.proc = "exited" /\ new.done = runs[r].done /\ new.escaped = runs[r].escaped
      BY <2>1 DEF RunRecord
    <3>3. Set(r, new) /\ UNCHANGED <<row, tracked, follower>> /\ runs[r].proc = "alive"
      BY <2>8, <3>1 DEF Exit
    <3> HIDE DEF new
    <3> QED BY <1>1, <2>2, <2>3, <3>2, <3>3
  <2>9. CASE ReadLine(r)
    <3>1. runs[r].pc = "read" /\ UNCHANGED <<tracked, follower>>
      BY <2>9 DEF ReadLine
    <3>2. CASE runs[r].cancel
      <4> DEFINE new == [runs[r] EXCEPT !.pc = "audit", !.lines = 0, !.proc = "exited",
                                        !.code = IF runs[r].proc = "alive" THEN 1 ELSE @]
      <4>1. new \in RunRecord /\ new.pc = "audit" /\ new.done = runs[r].done /\ new.escaped = runs[r].escaped
        BY <2>1, <2>4 DEF RunRecord
      <4>2. Set(r, new) /\ row' = "cancelled"
        BY <2>9, <3>2 DEF ReadLine
      <4> HIDE DEF new
      <4> QED BY <1>1, <2>2, <2>3, <3>1, <4>1, <4>2
    <3>3. CASE ~runs[r].cancel
      <4> DEFINE new == [runs[r] EXCEPT !.lines = @ - 1]
      <4>1. runs[r].lines - 1 \in 0..MaxLines
        BY <2>1, <2>9, RsyncAssumption DEF RunRecord, ReadLine
      <4>2. /\ new \in RunRecord /\ new.pc = runs[r].pc /\ new.proc = runs[r].proc
            /\ new.done = runs[r].done /\ new.escaped = runs[r].escaped /\ new.code = runs[r].code
        BY <2>1, <4>1 DEF RunRecord
      <4>3. Set(r, new) /\ row' = row
        BY <2>9, <3>3 DEF ReadLine
      <4> HIDE DEF new
      <4> QED BY <1>1, <2>2, <2>3, <3>1, <4>2, <4>3
    <3> QED BY <3>2, <3>3
  <2>10. CASE Complete(r)
    <3> DEFINE new == [runs[r] EXCEPT !.pc = "push"]
    <3>1. new \in RunRecord /\ new.pc = "push" /\ new.proc = runs[r].proc /\ new.done = runs[r].done /\ new.escaped = runs[r].escaped /\ new.code = runs[r].code
      BY <2>1 DEF RunRecord
    <3>2. /\ Set(r, new) /\ UNCHANGED <<tracked, follower>> /\ runs[r].pc = "read" /\ runs[r].proc = "exited"
          /\ row' = IF runs[r].code = 0 THEN "completed" ELSE "failed"
      BY <2>10 DEF Complete
    <3> HIDE DEF new
    <3> QED BY <1>1, <2>2, <2>3, <3>1, <3>2
  <2>11. ASSUME NEW p \in {"audit", "finally"}, NEW q \in Seq({"done"}), row' = row \/ row' = "failed",
                runs[r].pc \in {"push", "audit", "raised"}, p = "finally" /\ runs[r].pc = "raised" => row' = "failed",
                UNCHANGED <<tracked, follower>>, Set(r, [runs[r] EXCEPT !.pc = p, !.queue = q]),
                p = "audit" => runs[r].pc = "push"
         PROVE  RsyncTypeOK' /\ RowAhead' /\ Settled'
    <3> DEFINE new == [runs[r] EXCEPT !.pc = p, !.queue = q]
    <3>1. new \in RunRecord /\ new.pc = p /\ new.proc = runs[r].proc /\ new.done = runs[r].done /\ new.escaped = runs[r].escaped /\ new.code = runs[r].code
      BY <2>1, <2>11 DEF RunRecord
    <3>2. Set(r, new)
      BY <2>11
    <3> HIDE DEF new
    <3> QED BY <1>1, <2>2, <2>3, <2>11, <3>1, <3>2
  <2>12. runs[r].queue \in Seq({"done"}) /\ Append(runs[r].queue, "done") \in Seq({"done"})
    BY <2>1 DEF RunRecord
  <2>13. CASE Push(r)
    BY <2>11, <2>12, <2>13 DEF Push
  <2>14. CASE Raised(r)
    BY <2>11, <2>12, <2>14 DEF Raised
  <2>15. CASE Audit(r)
    <3>1. PICK p \in {"finally", "raised"} : Set(r, [runs[r] EXCEPT !.pc = p])
      BY <2>15 DEF Audit
    <3> DEFINE new == [runs[r] EXCEPT !.pc = p]
    <3>2. new \in RunRecord /\ new.pc = p /\ new.proc = runs[r].proc /\ new.done = runs[r].done /\ new.escaped = runs[r].escaped /\ new.code = runs[r].code
      BY <2>1, <3>1 DEF RunRecord
    <3>3. Set(r, new) /\ UNCHANGED <<row, tracked, follower>> /\ runs[r].pc = "audit"
      BY <2>15, <3>1 DEF Audit
    <3> HIDE DEF new
    <3> QED BY <1>1, <2>2, <2>3, <3>2, <3>3
  <2>16. CASE Finally(r)
    <3> DEFINE new == [runs[r] EXCEPT !.pc = "timer", !.done = TRUE]
    <3>1. new \in RunRecord /\ new.pc = "timer" /\ new.proc = runs[r].proc /\ new.code = runs[r].code /\ new.done = TRUE /\ new.escaped = runs[r].escaped
      BY <2>1 DEF RunRecord
    <3>2. Set(r, new) /\ UNCHANGED <<row, tracked, follower>> /\ runs[r].pc = "finally"
      BY <2>16 DEF Finally
    <3> HIDE DEF new
    <3> QED BY <1>1, <2>2, <2>3, <3>1, <3>2
  <2>18. CASE StartFails(r)
    <3> DEFINE new == [runs[r] EXCEPT !.pc = "dead"]
    <3>1. new \in RunRecord /\ new.pc = "dead" /\ new.proc = runs[r].proc /\ new.code = runs[r].code
          /\ new.done = runs[r].done /\ new.escaped = runs[r].escaped
      BY <2>1 DEF RunRecord
    <3>2. Set(r, new) /\ UNCHANGED <<row, tracked, follower>> /\ runs[r].pc = "update"
      BY <2>18 DEF StartFails
    <3> HIDE DEF new
    <3> QED BY <1>1, <2>2, <2>3, <3>1, <3>2
  <2>19. CASE ReadRaises(r)
    <3> DEFINE new == [runs[r] EXCEPT !.pc = "raised", !.lines = 0]
    <3>1. new \in RunRecord /\ new.pc = "raised" /\ new.proc = runs[r].proc /\ new.code = runs[r].code
          /\ new.done = runs[r].done /\ new.escaped = runs[r].escaped
      BY <2>1, <2>4 DEF RunRecord
    <3>2. Set(r, new) /\ UNCHANGED <<row, tracked, follower>> /\ runs[r].pc = "read"
      BY <2>19 DEF ReadRaises
    <3> HIDE DEF new
    <3> QED BY <1>1, <2>2, <2>3, <3>1, <3>2
  <2>20. CASE Escapes(r)
    <3> DEFINE new == [runs[r] EXCEPT !.pc = "finally", !.escaped = TRUE, !.lines = 0,
                                      !.proc = IF At(r, "open") THEN "alive" ELSE @]
    <3>1. /\ new \in RunRecord /\ new.pc = "finally" /\ new.code = runs[r].code
          /\ runs[r].proc = "exited" => new.proc = "exited" \/ runs[r].pc = "open"
          /\ new.done = runs[r].done /\ new.escaped = TRUE
      BY <2>1, <2>4 DEF RunRecord
    <3>2. /\ Set(r, new) /\ UNCHANGED <<row, tracked, follower>>
          /\ runs[r].pc \in {"open", "read", "raised"}
      BY <2>20 DEF Escapes
    <3> HIDE DEF new
    <3> QED BY <1>1, <2>2, <2>3, <3>1, <3>2
  <2>17. CASE CleanupJob(r)
    <3> DEFINE new == [runs[r] EXCEPT !.pc = "over"]
    <3>1. new \in RunRecord /\ new.pc = "over" /\ new.proc = runs[r].proc /\ new.code = runs[r].code /\ new.done = runs[r].done /\ new.escaped = runs[r].escaped
      BY <2>1 DEF RunRecord
    <3>2. Set(r, new) /\ tracked' = 0 /\ UNCHANGED <<row, follower>> /\ runs[r].pc = "timer"
      BY <2>17 DEF CleanupJob
    <3> HIDE DEF new
    <3> QED BY <1>1, <2>2, <2>3, <2>4, <3>1, <3>2
  <2> QED BY <1>5, <2>5, <2>6, <2>7, <2>8, <2>9, <2>10, <2>13, <2>14, <2>15, <2>16, <2>17, <2>18, <2>19, <2>20 DEF Thread
<1>6. ASSUME UNCHANGED <<row, runs, tracked>>, follower' \in [Followers -> 0..Len(runs)]
      PROVE  RsyncTypeOK' /\ RowAhead' /\ Settled'
  BY <1>6 DEF RsyncTypeOK, RowAhead, Settled, At
<1>7. ASSUME NEW f \in Followers, Follow(f) PROVE RsyncTypeOK' /\ RowAhead' /\ Settled'
  BY <1>1, <1>6, <1>7 DEF Follow
<1>8. ASSUME NEW f \in Followers, Take(f) PROVE RsyncTypeOK' /\ RowAhead' /\ Settled'
  <2> DEFINE r == follower[f]
  <2>1. r \in DOMAIN runs /\ UNCHANGED <<row, tracked>>
    BY <1>1, <1>8 DEF Take
  <2>2. runs[r] \in RunRecord
    BY <1>3, <2>1
  <2>3. follower' \in [Followers -> 0..Len(runs)]
    BY <1>1, <1>8 DEF Take
  <2>4. CASE runs[r].queue = <<>>
    BY <1>6, <1>8, <2>1, <2>3, <2>4 DEF Take
  <2>5. CASE runs[r].queue # <<>>
    <3> DEFINE new == [runs[r] EXCEPT !.queue = Tail(@)]
    <3>1. Tail(runs[r].queue) \in Seq({"done"})
      BY <2>2, <2>5 DEF RunRecord
    <3>2. /\ new \in RunRecord /\ new.pc = runs[r].pc /\ new.proc = runs[r].proc
          /\ new.done = runs[r].done /\ new.escaped = runs[r].escaped /\ new.code = runs[r].code
      BY <2>2, <3>1 DEF RunRecord
    <3>3. Set(r, new)
      BY <1>8, <2>5 DEF Take
    <3> HIDE DEF new, r
    <3> QED BY <1>1, <2>1, <2>3, <3>2, <3>3, RunGoesOn DEF RowAhead, Ahead
  <2> QED BY <2>4, <2>5
<1> QED BY <1>2, <1>4, <1>5, <1>7, <1>8 DEF RsyncNext

-----------------------------------------------------------------------------
\* All of them.

\* Whatever program of the host moves, each keeps its own, and the containers stay
\* containers: no cycle acts on what another one left half done, a sender has one
\* container in hand, a stopped watcher has nothing, and rows of transfers are settled.
LEMMA HostInvariance == HostInit /\ [][HostNext]_allVars => []HostSafe
<1>1. HostInit => HostSafe
  <2> SUFFICES ASSUME HostInit PROVE HostSafe
    OBVIOUS
  <2> USE DEF HostInit
  <2>1. FleetTypeOK
    <3>1. 0 \in 0..RestartCap /\ 0 \in 0..MaxFaults
      BY FleetAssumption
    <3> QED BY <3>1 DEF FleetInit, FleetTypeOK, ContStates
  <2>2. WatchTypeOK /\ InHand
    <3>1. <<>> \in Seq(Watched \X {"die", "start"}) /\ Len(<<>>) <= MaxEvents
      BY WatchAssumption
    <3>2. Free \in [pc : {"idle", "grace", "notify", "record"}, c : SUBSET Watched] /\ Free.pc = "idle"
      BY DEF Free
    <3>3. sweep \in [{"sweep", "main"} -> (SUBSET Watched) \cup {{"look"}}]
      BY DEF WatchInit
    <3> QED BY <3>1, <3>2, <3>3 DEF WatchInit, WatchTypeOK, InHand
  <2>3. FixerTypeOK /\ OneCycle
    BY DEF FixerInit, NoCycle, FixerTypeOK, OneCycle
  <2>4. MonitorTypeOK /\ Diagnosed
    BY FleetAssumption DEF MonitorInit, NoCheck, MonitorTypeOK, Diagnosed
  <2>5. WatcherTypeOK /\ NothingInHand /\ CopyAhead
    <3>1. 0 \in 0..MaxChanges /\ 0 \in 0..MaxSignals /\ 0 \in Versions
      BY WatcherAssumption DEF Versions, Partial
    <3>2. <<>> \in Seq([event : EventTypes, dir : Folders, name : FileNames])
      OBVIOUS
    <3>3. CopyAhead
      BY DEF WatcherInit, CopyAhead, CopyRules, ActiveRules, Arrived
    <3> QED BY <3>1, <3>2, <3>3 DEF WatcherInit, Idle, WatcherTypeOK, NothingInHand
  <2>6. RsyncTypeOK /\ Settled /\ RowAhead
    <3>1. runs = <<>> /\ <<>> \in Seq(RunRecord) /\ Len(<<>>) = 0 /\ DOMAIN <<>> = {}
      BY DEF RsyncInit
    <3>2. 0 <= MaxStarts
      BY RsyncAssumption
    <3>3. row = "pending" /\ tracked \in 0..Len(runs) /\ follower \in [Followers -> 0..Len(runs)]
      BY <3>1 DEF RsyncInit
    <3> QED BY <3>1, <3>2, <3>3 DEF RsyncTypeOK, Settled, RowAhead, FinalStatus
  <2> QED BY <2>1, <2>2, <2>3, <2>4, <2>5, <2>6 DEF HostSafe
<1>2. HostSafe /\ [HostNext]_allVars => HostSafe'
  <2> SUFFICES ASSUME HostSafe, [HostNext]_allVars PROVE HostSafe'
    OBVIOUS
  <2>1. FleetTypeOK'
    <3>1. HostStep \/ UNCHANGED fleetVars
      BY DEF HostNext, allVars, hostVars
    <3> QED BY <3>1, FleetStep DEF HostSafe, FleetTypeOK, fleetVars
  <2>2. WatchTypeOK' /\ InHand'
    <3>1. WatchNext \/ UNCHANGED watchVars
      BY DEF HostNext, HostStep, allVars, hostVars
    <3>2. CASE UNCHANGED watchVars
      BY <3>2 DEF HostSafe, watchVars, WatchTypeOK, InHand
    <3> QED BY <3>1, <3>2, WatchStep DEF HostSafe
  <2>3. FixerTypeOK' /\ OneCycle'
    <3>1. FixerStep \/ UNCHANGED fixer
      BY DEF HostNext, HostStep, allVars, hostVars
    <3> QED BY <3>1, FixerTypeStep DEF HostSafe, FixerTypeOK, OneCycle
  <2>4. MonitorTypeOK' /\ Diagnosed'
    <3>1. MonitorStep \/ UNCHANGED monitor
      BY DEF HostNext, HostStep, allVars, hostVars
    <3> QED BY <3>1, MonitorTypeStep DEF HostSafe, MonitorTypeOK, Diagnosed
  <2>5. WatcherTypeOK' /\ NothingInHand' /\ CopyAhead'
    <3>1. WatcherNext \/ UNCHANGED watcherVars
      BY DEF HostNext, allVars
    <3>2. CASE UNCHANGED watcherVars
      <4>1. CopyAhead'
        BY <3>2 DEF HostSafe, watcherVars, CopyAhead, EventWaits, Arrived
      <4> QED BY <3>2, <4>1 DEF HostSafe, watcherVars, WatcherTypeOK, NothingInHand
    <3> QED BY <3>1, <3>2, WatcherTypeStep, CopyStep DEF HostSafe
  <2>6. RsyncTypeOK' /\ Settled' /\ RowAhead'
    <3>1. RsyncNext \/ UNCHANGED rsyncVars
      BY DEF HostNext, allVars
    <3>2. CASE UNCHANGED rsyncVars
      BY <3>2 DEF HostSafe, rsyncVars, RsyncTypeOK, Settled, RowAhead, At
    <3> QED BY <3>1, <3>2, RsyncStep DEF HostSafe
  <2> QED BY <2>1, <2>2, <2>3, <2>4, <2>5, <2>6 DEF HostSafe
<1> QED BY <1>1, <1>2, PTL

\* HostSafe: whatever program of the host moves, each keeps its own; no cycle of the
\* fixer acts on what another left half done, a thread of the watchdog has one container
\* in hand, a watcher that was told to stop has nothing in hand, a version that is not in
\* the target has an event waiting unless its copy failed and was logged, and when the
\* threads of a job's transfers have ended its row is final, but for a job whose threads
\* all died at their start and a last word that the database refused.
THEOREM HostIsSafe == HostSpec => []HostSafe
BY HostInvariance, PTL DEF HostSpec

\* The row of a transfer does not say that it runs when nobody works on it, and says
\* that it is complete only if some process ended well, though a job is started again
\* while it runs, cancelled, or its thread raises; it is left pending only where every
\* thread died before its try (rsync_engine.py:202, 207), and running only where a
\* thread could not write its last word (290, 322).
THEOREM RowsAreSettled == RsyncSpec => []Settled
<1>1. RsyncInit => RsyncTypeOK /\ RowAhead /\ Settled
  <2> SUFFICES ASSUME RsyncInit PROVE RsyncTypeOK /\ RowAhead /\ Settled
    OBVIOUS
  <2>1. runs = <<>> /\ <<>> \in Seq(RunRecord) /\ Len(<<>>) = 0 /\ DOMAIN <<>> = {} /\ 0 <= MaxStarts
    BY RsyncAssumption DEF RsyncInit
  <2>2. row = "pending" /\ tracked \in 0..Len(runs) /\ follower \in [Followers -> 0..Len(runs)]
    BY <2>1 DEF RsyncInit
  <2> QED BY <2>1, <2>2 DEF RsyncTypeOK, Settled, RowAhead, FinalStatus
<1>2. RsyncTypeOK /\ RowAhead /\ Settled /\ [RsyncNext]_rsyncVars => (RsyncTypeOK /\ RowAhead /\ Settled)'
  <2>1. CASE UNCHANGED rsyncVars
    BY <2>1 DEF rsyncVars, RsyncTypeOK, Settled, RowAhead, At
  <2> QED BY <2>1, RsyncStep
<1> QED BY <1>1, <1>2, PTL DEF RsyncSpec
==============================================================================
