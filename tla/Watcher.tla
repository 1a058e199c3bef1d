------------------------------ MODULE Watcher ------------------------------
(* superpowers/watcher: the daemon (runner.py, `claw watcher start`) and its  *)
(* engine.  The watchdog library turns changes of watched directories into    *)
(* events of one queue; one thread takes them and runs the actions of the     *)
(* rules, some of which change files themselves.                              *)
EXTENDS Naturals, Sequences, FiniteSets, SequencesExt

CONSTANTS
  RuleFile,    \* items of watchers.yaml: dir, names, events, action, target, enabled, valid
  Folders,     \* directories that exist
  UserFolders, \* those people work in
  FileNames,
  MaxChanges,  \* bound: changes made by people
  MaxSignals,  \* bound: SIGTERMs and SIGINTs
  MaxFailures  \* bound: actions on files that fail

ASSUME WatcherAssumption ==
  /\ UserFolders \subseteq Folders
  /\ MaxChanges \in Nat /\ MaxSignals \in Nat /\ MaxFailures \in Nat

VARIABLES
  fs,       \* the version each file of each folder is at, 0 when there is none
  queue,    \* events not yet handled
  handling, \* the event being handled, the rules left, the copy under way
  daemon,   \* how far runner.main is, and whether the observer runs
  changes,  \* bounded by MaxChanges
  signals,  \* bounded by MaxSignals
  arrival,  \* history: how the watched folder came by its present version
  logged    \* history: rule, file and version of each action that failed

watcherVars == <<fs, queue, handling, daemon, changes, signals, arrival, logged>>

\* What is in a file: 0 when there is none; what a copy leaves that fails half-way.
Partial == MaxChanges + 1
Versions == 0..Partial

EventTypes == {"created", "modified", "deleted", "moved"}

\* _load_rules leaves out the items that do not parse; start() those that are
\* disabled or whose directory is missing.
LoadedRules == {r \in RuleFile : r.valid}
ActiveRules == {r \in LoadedRules : r.enabled /\ r.dir \in Folders}

Idle == [event |-> "none", dir |-> "none", name |-> "none", todo |-> {}, rule |-> {}, read |-> 0]

WatcherInit ==
  /\ fs = [d \in Folders |-> [n \in FileNames |-> 0]]
  /\ queue = <<>>
  /\ handling = Idle
  /\ daemon = [at |-> "boot", observing |-> FALSE]
  /\ changes = 0 /\ signals = 0
  /\ arrival = [d \in Folders |-> [n \in FileNames |-> "no"]]
  /\ logged = {}

Observed(d) == daemon.observing /\ \E r \in ActiveRules : r.dir = d

\* The queue skips an event equal to the last one still in it.
Put(q, d, type, n) ==
  LET e == [event |-> type, dir |-> d, name |-> n]
  IN IF ~Observed(d) \/ (q # <<>> /\ Last(q) = e) THEN q ELSE Append(q, e)

\* A file gets version v.
Store(d, n, v) ==
  /\ fs' = [fs EXCEPT ![d][n] = v]
  /\ queue' = Put(queue, d, IF fs[d][n] = 0 THEN "created" ELSE "modified", n)
  /\ arrival' = [arrival EXCEPT ![d][n] = IF Observed(d) THEN "written" ELSE "no"]

-----------------------------------------------------------------------------
UserWrite(d, n) ==
  /\ changes < MaxChanges
  /\ changes' = changes + 1
  /\ Store(d, n, changes + 1)
  /\ UNCHANGED <<handling, daemon, signals, logged>>

UserRemove(d, n) ==
  /\ changes < MaxChanges
  /\ fs[d][n] # 0
  /\ changes' = changes + 1
  /\ fs' = [fs EXCEPT ![d][n] = 0]
  /\ queue' = Put(queue, d, "deleted", n)
  /\ arrival' = [arrival EXCEPT ![d][n] = "no"]
  /\ UNCHANGED <<handling, daemon, signals, logged>>

\* What editors and browsers do with a finished file; the event bears the old name.
UserRename(d, n, m) ==
  /\ changes < MaxChanges
  /\ fs[d][n] # 0 /\ n # m
  /\ changes' = changes + 1
  /\ fs' = [fs EXCEPT ![d][m] = fs[d][n], ![d][n] = 0]
  /\ queue' = Put(queue, d, "moved", n)
  /\ arrival' = [arrival EXCEPT ![d][m] = IF Observed(d) THEN "moved" ELSE "no", ![d][n] = "no"]
  /\ UNCHANGED <<handling, daemon, signals, logged>>

-----------------------------------------------------------------------------
\* main: the handlers are installed, then the engine starts, then it pauses.
InstallHandlers ==
  /\ daemon.at = "boot"
  /\ daemon' = [daemon EXCEPT !.at = "armed"]
  /\ UNCHANGED <<fs, queue, handling, changes, signals, arrival, logged>>

EngineStart ==
  /\ daemon.at = "armed"
  /\ daemon' = [at |-> "started", observing |-> TRUE]
  /\ UNCHANGED <<fs, queue, handling, changes, signals, arrival, logged>>

Pause ==
  /\ daemon.at = "started"
  /\ daemon' = [daemon EXCEPT !.at = "paused"]
  /\ UNCHANGED <<fs, queue, handling, changes, signals, arrival, logged>>

\* handle_signal stops the observer, if there is one, and joins its thread: the
\* action under way is finished, the rest of the rules and the queue are lost.
\* Only signal.pause() ends with the signal; before it main goes on.
Signal ==
  /\ signals < MaxSignals
  /\ daemon.at \in {"armed", "started", "paused"}
  /\ signals' = signals + 1
  /\ handling.rule = {}
  /\ handling' = Idle
  /\ queue' = <<>>
  /\ daemon' = [at |-> IF daemon.at = "paused" THEN "gone" ELSE daemon.at, observing |-> FALSE]
  /\ UNCHANGED <<fs, changes, arrival, logged>>

\* One that arrives inside start() joins a thread that is not started: the
\* error ends the daemon with code 1.
SignalInStart ==
  /\ signals < MaxSignals
  /\ daemon.at = "armed"
  /\ signals' = signals + 1
  /\ daemon' = [daemon EXCEPT !.at = "gone"]
  /\ UNCHANGED <<fs, queue, handling, changes, arrival, logged>>

Restart ==
  /\ daemon.at = "gone"
  /\ daemon' = [daemon EXCEPT !.at = "boot"]
  /\ UNCHANGED <<fs, queue, handling, changes, signals, arrival, logged>>

-----------------------------------------------------------------------------
\* Mutant: a file already known is not looked at again.
MatchingNew(e) == {r \in ActiveRules : r.dir = e.dir /\ e.event = "created" /\ e.name \in r.names}

\* The rules of the event's directory: the event is one of the rule's and the
\* name, the old one when it moved, matches.
Matching(e) ==
  {r \in ActiveRules : r.dir = e.dir /\ e.event \in r.events /\ e.name \in r.names}

TakeEvent ==
  /\ daemon.observing /\ handling = Idle
  /\ queue # <<>>
  /\ queue' = Tail(queue)
  /\ handling' = LET e == Head(queue)
                 IN IF Matching(e) = {} THEN Idle
                    ELSE [Idle EXCEPT !.event = e.event, !.dir = e.dir, !.name = e.name,
                                      !.todo = Matching(e)]
  /\ UNCHANGED <<fs, daemon, changes, signals, arrival, logged>>

Without(r) ==
  IF handling.todo = {r} THEN Idle
  ELSE [handling EXCEPT !.todo = @ \ {r}, !.rule = {}, !.read = 0]

\* A shell command or a skill runs, a workflow is not implemented, an action on a
\* file that is gone or already there fails: it is logged and the next rule is next.
ActElsewhere(r) ==
  /\ r \in handling.todo /\ handling.rule = {}
  /\ r.action \in {"move", "copy"} => fs[r.dir][handling.name] = 0 \/ r.target = r.dir
  /\ handling' = Without(r)
  /\ UNCHANGED <<fs, queue, daemon, changes, signals, arrival, logged>>

\* shutil.move replaces a file of the same name in the target.
ActMove(r) ==
  LET n == handling.name
      v == fs[r.dir][n]
      q == Put(queue, r.dir, "deleted", n)
  IN /\ r \in handling.todo /\ handling.rule = {}
     /\ r.action = "move" /\ v # 0 /\ r.target # r.dir
     /\ fs' = [fs EXCEPT ![r.dir][n] = 0, ![r.target][n] = v]
     /\ queue' = Put(q, r.target, "created", n)
     /\ arrival' = [arrival EXCEPT ![r.dir][n] = "no",
                             ![r.target][n] = IF Observed(r.target) THEN "written" ELSE "no"]
     /\ handling' = Without(r)
     /\ UNCHANGED <<daemon, changes, signals, logged>>

\* copy2 reads the file ...
ActRead(r) ==
  /\ r \in handling.todo /\ handling.rule = {}
  /\ r.action = "copy" /\ fs[r.dir][handling.name] # 0 /\ r.target # r.dir
  /\ handling' = [handling EXCEPT !.rule = {r}, !.read = fs[r.dir][handling.name]]
  /\ UNCHANGED <<fs, queue, daemon, changes, signals, arrival, logged>>

\* ... and writes what it has read.
ActWrite(r) ==
  /\ handling.rule = {r}
  /\ Store(r.target, handling.name, handling.read)
  /\ handling' = Without(r)
  /\ UNCHANGED <<daemon, changes, signals, logged>>

\* An action on a file raises: _on_event logs it, the next rule is next, and nobody
\* tries again.  The target is as it was, or has a part of the file or, when only
\* its times could not be set or the source not be removed, all of it.
ActFails(r) ==
  LET n == handling.name
      v == IF handling.rule = {r} THEN handling.read ELSE fs[r.dir][n]
  IN /\ r \in handling.todo /\ Cardinality(logged) < MaxFailures
     /\ \/ handling.rule = {r}
        \/ handling.rule = {} /\ r.action = "move" /\ v # 0 /\ r.target # r.dir
     /\ \/ UNCHANGED <<fs, queue, arrival>>
        \/ \E w \in {v, Partial} : Store(r.target, n, w)
     /\ logged' = logged \cup {<<r, n, v>>}
     /\ handling' = Without(r)
     /\ UNCHANGED <<daemon, changes, signals>>

Handle ==
  \/ TakeEvent
  \/ \E r \in handling.todo :
       ActElsewhere(r) \/ ActMove(r) \/ ActRead(r) \/ ActWrite(r) \/ ActFails(r)

WatcherNext ==
  \/ \E d \in UserFolders, n \in FileNames :
       UserWrite(d, n) \/ UserRemove(d, n) \/ \E m \in FileNames : UserRename(d, n, m)
  \/ InstallHandlers \/ EngineStart \/ Pause \/ Signal \/ SignalInStart \/ Restart
  \/ Handle

\* The observer's thread keeps taking events: that is its loop.
WatcherFairness == WF_watcherVars(Handle)

WatcherSpec == WatcherInit /\ [][WatcherNext]_watcherVars /\ WatcherFairness

-----------------------------------------------------------------------------
WatcherTypeOK ==
  /\ fs \in [Folders -> [FileNames -> Versions]]
  /\ queue \in Seq([event : EventTypes, dir : Folders, name : FileNames])
  /\ handling \in [event : EventTypes \cup {"none"}, dir : Folders \cup {"none"},
                   name : FileNames \cup {"none"}, todo : SUBSET ActiveRules,
                   rule : SUBSET ActiveRules, read : Versions]
  /\ daemon \in [at : {"boot", "armed", "started", "paused", "gone"}, observing : BOOLEAN]
  /\ changes \in 0..MaxChanges /\ signals \in 0..MaxSignals
  /\ arrival \in [Folders -> [FileNames -> {"no", "written", "moved"}]]
  /\ logged \subseteq ActiveRules \X FileNames \X Versions

\* A daemon that no longer observes has nothing in hand, and an event is in hand
\* as long as one of its rules is; only a copy is ever half done.
NothingInHand ==
  /\ IF daemon.observing THEN daemon.at \in {"started", "paused"} ELSE queue = <<>> /\ handling = Idle
  /\ IF handling.todo = {} THEN handling = Idle ELSE handling.name \in FileNames
  /\ handling.rule = {} \/ \E r \in handling.todo : handling.rule = {r} /\ r.action = "copy"

\* The version v of a file that reached folder d in the way `how`.
Arrived(d, n, v, how) == fs[d][n] = v /\ v # 0 /\ arrival[d][n] = how

CopyRules(events) == {r \in ActiveRules : r.action = "copy" /\ events \subseteq r.events}

\* Nobody but rule r, neither people nor another rule, changes the folder it fills.
OwnsTarget(r) ==
  /\ r.target \in Folders \ UserFolders /\ r.target # r.dir
  /\ \A s \in ActiveRules :
       /\ (s.action \in {"move", "copy"} /\ s # r) => s.target # r.target
       /\ s.action = "move" => s.dir # r.target

\* An event that makes rule r look at file n is still to be taken.
EventWaits(r, n) ==
  \E i \in DOMAIN queue :
    /\ queue[i].dir = r.dir /\ queue[i].name = n
    /\ queue[i].event \in {"created", "modified"}

\* Why copies catch up: until a version written while the daemon watches is in the
\* folder that is filled with copies, an event of it waits, or its rule is in hand,
\* and a copy under way that has read another version is followed by an event; or
\* a copy of that very version has failed, which is logged and forgotten.
CopyAhead ==
  \A r \in CopyRules({"created", "modified"}), n \in FileNames :
    LET v == fs[r.dir][n]
        inHand == r \in handling.todo /\ handling.name = n
    IN  (OwnsTarget(r) /\ n \in r.names /\ signals = 0 /\ Arrived(r.dir, n, v, "written"))
          => \/ EventWaits(r, n) \/ <<r, n, v>> \in logged
             \/ /\ fs[r.target][n] = v \/ inHand
                /\ (handling.rule = {r} /\ inHand) => handling.read = v

CopiedOrGone(r, n, v) ==
  fs[r.target][n] = v \/ fs[r.dir][n] # v \/ signals # 0 \/ <<r, n, v>> \in logged

\* A rule that copies what is created or modified (watcher/engine.py _on_event,
\* _action_copy) catches up: each version written while the daemon watches is in
\* the target in the end, unless a later one replaced it, the daemon was told to
\* stop, or the copy of that version failed, which nobody tries again, although a
\* copy may read the file before its writer is done.
CopiesCatchUp ==
  \A r \in CopyRules({"created", "modified"}), n \in FileNames, v \in 1..MaxChanges :
    n \in r.names => (Arrived(r.dir, n, v, "written") ~> CopiedOrGone(r, n, v))

\* docs/reference/CUSTOMIZATION.md says that `moved` triggers for a file that is
\* renamed within the directory and that `copy` copies the triggering file: a
\* file renamed into a folder with such a rule is copied in the end.
RenamedAreCopied ==
  \A r \in CopyRules({"moved"}), n \in FileNames, v \in 1..MaxChanges :
    n \in r.names => (Arrived(r.dir, n, v, "moved") ~> CopiedOrGone(r, n, v))
=============================================================================
