----------------------------- MODULE CronEngine -----------------------------
(***************************************************************************)
(* superpowers/cron_engine.py: scheduled jobs.  Every process (the daemon, *)
(* each command of the CLI, each tool call of the MCP server, the          *)
(* dashboard) builds an engine of its own.  The engines share three files: *)
(* jobs.json, which an engine reads once, when it is built, and rewrites   *)
(* as a whole; scheduler.db, the job store of APScheduler; and the pid     *)
(* file.                                                                   *)
(*                                                                         *)
(* APScheduler is external: a scheduler that is not started keeps what is  *)
(* added to it in memory and writes it to the store when it starts; a      *)
(* started one works on the store and runs the due jobs it finds there.    *)
(* A stored entry names the engine that registered it, and no other engine *)
(* runs it (_dispatch_job); to the others it is due to no effect.          *)
(*                                                                         *)
(* jobs.json may not be read, and os.write may write a part of it only: in  *)
(* both cases an engine goes on without the jobs, and its next save writes *)
(* the file without them.  blind and wiped keep count of the jobs lost so. *)
(*                                                                         *)
(* Of a job only its being enabled is kept: run times, status and output   *)
(* are what it reports, not what it does.                                  *)
(***************************************************************************)
EXTENDS Naturals, FiniteSets, TLC

CONSTANTS
  Jobs,           \* job ids, each used by one call of add_job
  Engines,        \* engine instances, one per process
  NoEngine,
  MaxAlive,       \* scenario: engines that exist at the same time
  MaxSaves        \* scenario: threads inside _save_jobs at the same time

ASSUME NoEngineAssumption == NoEngine \notin Engines /\ IsFiniteSet(Engines)

VARIABLES
  proc,           \* life of the engine's process
  mem,            \* _jobs of each engine
  unsent,         \* jobs added to a scheduler that is not started
  executing,      \* jobs in _execute_job
  saves,          \* calls of _save_jobs that have built their payload
  manifest,       \* jobs.json
  store,          \* scheduler.db: the engine named by a job's entry
  pid,            \* the engine named by the pid file
  known,          \* ids that are taken
  told,           \* what the last operation that saved told of a job; "unset": nothing
  blind,          \* history: jobs that were in jobs.json when an engine could not read it
  wiped           \* history: jobs whose entries such an engine, or a cut write, took away

losses == <<blind, wiped>>
vars == <<proc, mem, unsent, executing, saves, manifest, store, pid, known, told, losses>>

Job  == {"none", "on", "off"}
Life == {"new", "ready", "started", "gone"}

Told == Job \cup {"unset"}

NoJobs == [j \in Jobs |-> "none"]
Alive == {e \in Engines : proc[e] \in {"ready", "started"}}

Init ==
  /\ proc = [e \in Engines |-> "new"]
  /\ mem = [e \in Engines |-> NoJobs]
  /\ unsent = [e \in Engines |-> {}]
  /\ executing = [e \in Engines |-> {}]
  /\ saves = {}
  /\ manifest = NoJobs
  /\ store = [j \in Jobs |-> NoEngine]
  /\ pid = NoEngine
  /\ known = {}
  /\ told = [j \in Jobs |-> "unset"]
  /\ blind = [e \in Engines |-> {}]
  /\ wiped = {}

-----------------------------------------------------------------------------
(* Registration with APScheduler, and the manifest *)

Register(e, j) ==
  IF proc[e] = "started"
  THEN store' = [store EXCEPT ![j] = e] /\ UNCHANGED unsent
  ELSE unsent' = [unsent EXCEPT ![e] = @ \cup {j}] /\ UNCHANGED store

\* Mutant: a disabled job keeps its entry.
UnregisterNothing(e, j) == UNCHANGED <<unsent, store>>

\* A job that is not found is no error (_unregister_from_scheduler).
Unregister(e, j) ==
  IF proc[e] = "started"
  THEN store' = [store EXCEPT ![j] = NoEngine] /\ UNCHANGED unsent
  ELSE unsent' = [unsent EXCEPT ![e] = @ \ {j}] /\ UNCHANGED store

SetJob(e, j, v) == mem' = [mem EXCEPT ![e][j] = v]

\* _save_jobs: the payload holds all jobs of the engine; ops are what its
\* caller is told when the file is in place.
BeginSave(e, ops) ==
  /\ Cardinality(saves) < MaxSaves
  /\ saves' = saves \cup {[engine |-> e, payload |-> mem'[e], ops |-> ops]}

\* The entries of a payload.
Listed(payload) == {j \in Jobs : payload[j] # "none"}

\* The save is over and its caller is told.
Saved(s) ==
  /\ saves' = saves \ {s}
  /\ told' = [j \in Jobs |-> IF j \in s.ops THEN s.payload[j] ELSE told[j]]
  /\ UNCHANGED <<proc, mem, unsent, executing, store, pid, known, blind>>

\* os.replace: the file has the old contents or the new ones, never a mixture.
Replace(s) ==
  /\ Saved(s)
  /\ manifest' = s.payload
  /\ wiped' = ((wiped \ s.ops) \ Listed(s.payload)) \cup blind[s.engine]

\* os.write says how much it has written and nobody asks: cut JSON is put in
\* place, and who reads it finds no jobs.
ReplaceCut(s) ==
  /\ Saved(s)
  /\ Listed(s.payload) # {}
  /\ manifest' = NoJobs
  /\ wiped' = (wiped \ s.ops) \cup Listed(s.payload) \cup blind[s.engine]

\* The write or os.replace fails: the operation raises, the file is as it was and
\* the change stays in memory; its caller is told nothing of the job.
SaveFails(s) ==
  /\ saves' = saves \ {s}
  /\ told' = [j \in Jobs |-> IF j \in s.ops THEN "unset" ELSE told[j]]
  /\ UNCHANGED <<proc, mem, unsent, executing, manifest, store, pid, known, losses>>

-----------------------------------------------------------------------------
(* The life of an engine *)

\* Mutant: jobs that are disabled are not loaded.
ConstructEnabled(e) ==
  /\ proc[e] = "new"
  /\ Cardinality(Alive) < MaxAlive
  /\ proc' = [proc EXCEPT ![e] = "ready"]
  /\ mem' = [mem EXCEPT ![e] = [j \in Jobs |-> IF manifest[j] = "on" THEN "on" ELSE "none"]]
  /\ UNCHANGED <<unsent, executing, saves, manifest, store, pid, known, told, losses>>

\* __init__: _load_jobs fills _jobs; nothing is registered.
Construct(e) ==
  /\ proc[e] = "new"
  /\ Cardinality(Alive) < MaxAlive
  /\ proc' = [proc EXCEPT ![e] = "ready"]
  /\ mem' = [mem EXCEPT ![e] = manifest]
  /\ UNCHANGED <<unsent, executing, saves, manifest, store, pid, known, told, losses>>

\* _load_jobs cannot read the file, or finds no JSON in it: the engine goes on
\* with no jobs.
ConstructUnread(e) ==
  /\ proc[e] = "new"
  /\ Cardinality(Alive) < MaxAlive
  /\ Listed(manifest) # {}
  /\ proc' = [proc EXCEPT ![e] = "ready"]
  /\ mem' = [mem EXCEPT ![e] = NoJobs]
  /\ blind' = [blind EXCEPT ![e] = Listed(manifest)]
  /\ UNCHANGED <<unsent, executing, saves, manifest, store, pid, known, told, wiped>>

\* start(): APScheduler writes what was added before to the store.
Start(e) ==
  /\ proc[e] = "ready"
  /\ proc' = [proc EXCEPT ![e] = "started"]
  /\ store' = [j \in Jobs |-> IF j \in unsent[e] THEN e ELSE store[j]]
  /\ unsent' = [unsent EXCEPT ![e] = {}]
  /\ pid' = e
  /\ UNCHANGED <<mem, executing, saves, manifest, known, told, losses>>

\* stop(): the scheduler waits for the jobs it runs; the pid file is removed,
\* whoever wrote it.
Stop(e) ==
  /\ e \in Alive
  /\ executing[e] = {} /\ \A s \in saves : s.engine # e
  /\ proc' = [proc EXCEPT ![e] = "gone"]
  /\ unsent' = [unsent EXCEPT ![e] = {}]
  /\ pid' = NoEngine
  /\ UNCHANGED <<mem, executing, saves, manifest, store, known, told, losses>>

\* The process dies: what was in memory is lost, the files stay.
Crash(e) ==
  /\ e \in Alive
  /\ proc' = [proc EXCEPT ![e] = "gone"]
  /\ unsent' = [unsent EXCEPT ![e] = {}]
  /\ executing' = [executing EXCEPT ![e] = {}]
  /\ saves' = {s \in saves : s.engine # e}
  /\ UNCHANGED <<mem, manifest, store, pid, known, told, losses>>

\* daemon_status(): a pid file whose process is gone is removed.
DaemonStatus ==
  /\ pid # NoEngine /\ pid \notin Alive
  /\ pid' = NoEngine
  /\ UNCHANGED <<proc, mem, unsent, executing, saves, manifest, store, known, told, losses>>

-----------------------------------------------------------------------------
(* The operations *)

AddJob(e, j, v) ==
  /\ e \in Alive /\ j \notin known
  /\ known' = known \cup {j}
  /\ SetJob(e, j, v)
  /\ IF v = "on" THEN Register(e, j) ELSE UNCHANGED <<store, unsent>>
  /\ BeginSave(e, {j})
  /\ UNCHANGED <<proc, executing, manifest, pid, told, losses>>

\* add_job with a schedule that parse_schedule refuses raises after the job was
\* put into _jobs and before anything is registered or saved.
AddJobRaises(e, j) ==
  /\ e \in Alive /\ j \notin known
  /\ known' = known \cup {j}
  /\ SetJob(e, j, "on")
  /\ UNCHANGED <<proc, unsent, executing, saves, manifest, store, pid, told, losses>>

RemoveJob(e, j) ==
  /\ e \in Alive /\ mem[e][j] # "none"
  /\ Unregister(e, j)
  /\ SetJob(e, j, "none")
  /\ BeginSave(e, {j})
  /\ UNCHANGED <<proc, executing, manifest, pid, known, told, losses>>

\* Enabling an enabled job does nothing.
EnableJob(e, j) ==
  /\ e \in Alive /\ mem[e][j] = "off"
  /\ SetJob(e, j, "on")
  /\ Register(e, j)
  /\ BeginSave(e, {j})
  /\ UNCHANGED <<proc, executing, manifest, pid, known, told, losses>>

DisableJob(e, j) ==
  /\ e \in Alive /\ mem[e][j] = "on"
  /\ SetJob(e, j, "off")
  /\ Unregister(e, j)
  /\ BeginSave(e, {j})
  /\ UNCHANGED <<proc, executing, manifest, pid, known, told, losses>>

\* The scheduler finds the entry due and _dispatch_job finds its engine; a job
\* the engine does not know is passed over.
Fire(e, j) ==
  /\ proc[e] = "started" /\ store[j] = e
  /\ mem[e][j] # "none" /\ j \notin executing[e]
  /\ executing' = [executing EXCEPT ![e] = @ \cup {j}]
  /\ UNCHANGED <<proc, mem, unsent, saves, manifest, store, pid, known, told, losses>>

\* run_job: enabled or not.  A job may be executed twice at the same time, which
\* is no more than once to what is kept here.
RunJob(e, j) ==
  /\ e \in Alive
  /\ mem[e][j] # "none" /\ j \notin executing[e]
  /\ executing' = [executing EXCEPT ![e] = @ \cup {j}]
  /\ UNCHANGED <<proc, mem, unsent, saves, manifest, store, pid, known, told, losses>>

\* The end of _execute_job saves all jobs of the engine.
FinishJob(e, j) ==
  /\ j \in executing[e]
  /\ executing' = [executing EXCEPT ![e] = @ \ {j}]
  /\ UNCHANGED mem
  /\ BeginSave(e, {})
  /\ UNCHANGED <<proc, unsent, manifest, store, pid, known, told, losses>>

\* What the command or _route_output raises and nothing catches skips the save.
FinishJobRaises(e, j) ==
  /\ j \in executing[e]
  /\ executing' = [executing EXCEPT ![e] = @ \ {j}]
  /\ UNCHANGED <<proc, mem, unsent, saves, manifest, store, pid, known, told, losses>>

-----------------------------------------------------------------------------
Operation(e, j) ==
  \/ \E v \in {"on", "off"} : AddJob(e, j, v)
  \/ AddJobRaises(e, j) \/ RemoveJob(e, j) \/ EnableJob(e, j) \/ DisableJob(e, j)
  \/ Fire(e, j) \/ RunJob(e, j)
  \/ FinishJob(e, j) \/ FinishJobRaises(e, j)

Next ==
  \/ \E e \in Engines : Construct(e) \/ ConstructUnread(e) \/ Start(e) \/ Stop(e) \/ Crash(e)
  \/ \E e \in Engines, j \in Jobs : Operation(e, j)
  \/ \E s \in saves : Replace(s) \/ ReplaceCut(s) \/ SaveFails(s)
  \/ DaemonStatus

Spec == Init /\ [][Next]_vars

-----------------------------------------------------------------------------
(* Properties *)

TypeOK ==
  /\ proc \in [Engines -> Life]
  /\ mem \in [Engines -> [Jobs -> Job]]
  /\ unsent \in [Engines -> SUBSET Jobs]
  /\ executing \in [Engines -> SUBSET Jobs]
  /\ \A s \in saves : /\ s.engine \in Engines
                      /\ s.payload \in [Jobs -> Job]
                      /\ s.ops \in SUBSET Jobs
  /\ manifest \in [Jobs -> Job]
  /\ store \in [Jobs -> Engines \cup {NoEngine}]
  /\ pid \in Engines \cup {NoEngine}
  /\ known \subseteq Jobs
  /\ told \in [Jobs -> Told]
  /\ blind \in [Engines -> SUBSET Jobs]
  /\ wiped \subseteq Jobs

\* An entry of the store that a running scheduler would execute is that of a
\* job its engine has and has enabled: no disabled or removed job is fired,
\* whatever the other engines do to the files.
FiresOnlyEnabled ==
  \A j \in Jobs :
     LET e == store[j]
     IN  (e # NoEngine /\ proc[e] = "started") => mem[e][j] = "on"

\* What jobs says of a job is what its caller was told, or nothing where the job
\* is among those that are gone.
Agrees(jobs, j, gone) == jobs[j] = told[j] \/ (jobs[j] = "none" /\ j \in gone)

\* jobs.json says of every job what the last operation that saved it told its
\* caller, over crashes at any point, restarts, failing writes, and jobs that end
\* after they were removed: what is added stays, what is removed does not come
\* back.  An operation that failed leaves open what the file will say.  The one
\* way for a job to get lost, and it is lost then and never changed: an engine
\* could not read the file and saved, or a write was cut short (wiped).
\* "Jobs persist across restarts" (docs/reference/cron.md:7).
Durable == \A j \in Jobs : told[j] # "unset" => Agrees(manifest, j, wiped)

\* The same without the exception, which does not hold: a file that cannot be read
\* for a moment is taken for an empty one (cron_engine.py:417-421).
NothingWiped == \A j \in Jobs : told[j] # "unset" => manifest[j] = told[j]

\* "When the daemon starts, it reconciles jobs.json with the SQLite store"
\* (docs/reference/cron.md:230): the jobs in the file whose callers were told
\* that they are enabled have an entry that it runs.
ReconcilesAtStart ==
  [][\A e \in Engines :
       (proc[e] = "ready" /\ proc'[e] = "started" /\ mem[e] = manifest) =>
          \A j \in Jobs : manifest[j] = "on" /\ told[j] = "on" => store'[j] = e]_vars

\* "so CLI can detect the daemon" (cron_engine.py:236): while an engine is
\* started, the pid file names a started engine.
DaemonDetected ==
  (\E e \in Engines : proc[e] = "started") => pid # NoEngine /\ proc[pid] = "started"

\* Nothing anywhere names an id that was not given out.
FreshIds ==
  \A j \in Jobs \ known :
     /\ manifest[j] = "none" /\ store[j] = NoEngine /\ told[j] = "unset"
     /\ \A e \in Engines : mem[e][j] = "none" /\ j \notin unsent[e]
     /\ \A s \in saves : s.payload[j] = "none" /\ j \notin s.ops

\* Inductive strengthening of FiresOnlyEnabled: what waits to be registered is
\* enabled, and only engines that have been started own entries.
EntriesInv ==
  /\ FiresOnlyEnabled
  /\ FreshIds
  /\ \A e \in Engines :
       /\ \A j \in unsent[e] : mem[e][j] = "on"
       /\ proc[e] # "ready" => unsent[e] = {}
       /\ proc[e] \in {"new", "ready"} => \A j \in Jobs : store[j] # e

\* Inductive strengthening of Durable for one engine and one save at a time:
\* what an engine and an unfinished save hold of a job is what its caller was
\* told, except for the jobs the save is about and those that could not be read.
DurableInv ==
  /\ Durable
  /\ FreshIds
  /\ \A d, e \in Alive : d = e
  /\ \A e \in Engines \ Alive : executing[e] = {}
  /\ IsFiniteSet(saves) /\ \A s, t \in saves : s = t
  /\ \A s \in saves :
       /\ s.engine \in Alive
       /\ \A j \in Jobs : j \in s.ops \/ told[j] # "unset" => mem[s.engine][j] = s.payload[j]
  /\ \A e \in Alive, j \in Jobs :
       (told[j] # "unset" /\ \A s \in saves : j \notin s.ops)
          => Agrees(mem[e], j, wiped \cup blind[e])

\* No job and no engine is special: the symmetry of the instances.
CronSymmetry == Permutations(Jobs) \cup Permutations(Engines)
=============================================================================
