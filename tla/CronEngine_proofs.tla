------------------------- MODULE CronEngine_proofs -------------------------
(***************************************************************************)
(* CronEngine for any number of jobs and engines: its types; that only     *)
(* enabled jobs are fired, however many engines share the files; and, for  *)
(* one engine and one save at a time, that jobs.json keeps what callers    *)
(* were told.                                                              *)
(***************************************************************************)
EXTENDS CronEngine, FiniteSetTheorems, TLAPS

-----------------------------------------------------------------------------
(* Types *)

\* What a save starts with has the types of saves.
LEMMA SaveTypes ==
  ASSUME TypeOK, NEW e \in Engines, NEW ops \in SUBSET Jobs,
         mem' \in [Engines -> [Jobs -> Job]], BeginSave(e, ops)
  PROVE  \A s \in saves' : /\ s.engine \in Engines
                           /\ s.payload \in [Jobs -> Job]
                           /\ s.ops \in SUBSET Jobs
BY DEF TypeOK, BeginSave

\* Registering, or not, keeps the types of what is registered.
LEMMA RegisterTypes ==
  ASSUME TypeOK, NEW e \in Engines, NEW j \in Jobs,
         Register(e, j) \/ Unregister(e, j) \/ UNCHANGED <<store, unsent>>
  PROVE  /\ store' \in [Jobs -> Engines \cup {NoEngine}]
         /\ unsent' \in [Engines -> SUBSET Jobs]
<1> USE DEF TypeOK
<1>1. CASE Register(e, j)
  BY <1>1 DEF Register
<1>2. CASE Unregister(e, j)
  BY <1>2 DEF Unregister
<1>3. CASE UNCHANGED <<store, unsent>>
  BY <1>3
<1> QED BY <1>1, <1>2, <1>3

\* Changing one job of an engine keeps the type of _jobs.
LEMMA MemTypes ==
  ASSUME TypeOK, NEW e \in Engines, NEW j \in Jobs, NEW v \in Job, SetJob(e, j, v)
  PROVE  mem' \in [Engines -> [Jobs -> Job]]
BY DEF TypeOK, SetJob

\* Every step keeps the types.
LEMMA TypeStep == TypeOK /\ [Next]_vars => TypeOK'
<1> SUFFICES ASSUME TypeOK, [Next]_vars PROVE TypeOK'
  OBVIOUS
<1> USE NoEngineAssumption DEF TypeOK, Job, Life, Told, losses
<1>1. ASSUME NEW e \in Engines, Construct(e) \/ ConstructUnread(e) PROVE TypeOK'
  <2>1. NoJobs \in [Jobs -> Job] /\ Listed(manifest) \in SUBSET Jobs
    BY DEF NoJobs, Listed
  <2>2. CASE Construct(e)
    BY <2>2 DEF Construct
  <2>3. CASE ConstructUnread(e)
    BY <2>1, <2>3 DEF ConstructUnread
  <2> QED BY <1>1, <2>2, <2>3
<1>2. ASSUME NEW e \in Engines, Start(e) PROVE TypeOK'
  BY <1>2 DEF Start
<1>3. ASSUME NEW e \in Engines, Stop(e) \/ Crash(e) PROVE TypeOK'
  BY <1>3 DEF Stop, Crash, Alive
<1>4. ASSUME NEW e \in Engines, NEW j \in Jobs, Operation(e, j) PROVE TypeOK'
  <2>1. ASSUME NEW v \in {"on", "off"}, AddJob(e, j, v) PROVE TypeOK'
    <3>1. SetJob(e, j, v) /\ v \in Job /\ BeginSave(e, {j})
      BY <2>1 DEF AddJob
    <3>2. Register(e, j) \/ Unregister(e, j) \/ UNCHANGED <<store, unsent>>
      BY <2>1 DEF AddJob
    <3>3. mem' \in [Engines -> [Jobs -> Job]]
      BY <3>1, MemTypes
    <3>4. /\ store' \in [Jobs -> Engines \cup {NoEngine}]
          /\ unsent' \in [Engines -> SUBSET Jobs]
      BY <3>2, RegisterTypes
    <3>5. \A s \in saves' : /\ s.engine \in Engines
                            /\ s.payload \in [Jobs -> Job]
                            /\ s.ops \in SUBSET Jobs
      BY <3>1, <3>3, SaveTypes
    <3> QED BY <2>1, <3>3, <3>4, <3>5 DEF AddJob
  <2>2. CASE AddJobRaises(e, j)
    BY <2>2, MemTypes DEF AddJobRaises
  <2>3. CASE RemoveJob(e, j)
    BY <2>3, MemTypes, SaveTypes, RegisterTypes DEF RemoveJob
  <2>4. CASE EnableJob(e, j)
    BY <2>4, MemTypes, SaveTypes, RegisterTypes DEF EnableJob
  <2>5. CASE DisableJob(e, j)
    BY <2>5, MemTypes, SaveTypes, RegisterTypes DEF DisableJob
  <2>6. CASE Fire(e, j) \/ RunJob(e, j)
    BY <2>6 DEF Fire, RunJob
  <2>7. CASE FinishJob(e, j)
    BY <2>7, SaveTypes DEF FinishJob
  <2>8. CASE FinishJobRaises(e, j)
    BY <2>8 DEF FinishJobRaises
  <2> QED BY <1>4, <2>1, <2>2, <2>3, <2>4, <2>5, <2>6, <2>7, <2>8 DEF Operation
<1>5. ASSUME NEW s \in saves, Replace(s) \/ ReplaceCut(s) \/ SaveFails(s) PROVE TypeOK'
  BY <1>5 DEF Replace, ReplaceCut, Saved, SaveFails, Listed, NoJobs
<1>6. CASE DaemonStatus
  BY <1>6 DEF DaemonStatus
<1>7. CASE UNCHANGED vars
  BY <1>7 DEF vars
<1> QED BY <1>1, <1>2, <1>3, <1>4, <1>5, <1>6, <1>7 DEF Next

\* The types of all variables, in every reachable state.
THEOREM TypeCorrect == Spec => []TypeOK
<1>1. Init => TypeOK
  BY NoEngineAssumption DEF Init, TypeOK, NoJobs, Job, Life, Told
<1> QED BY <1>1, TypeStep, PTL DEF Spec

-----------------------------------------------------------------------------
(* Ids *)

\* Every step keeps FreshIds: an operation names the id it is given, and every
\* other step copies what is there.
LEMMA FreshStep == TypeOK /\ FreshIds /\ [Next]_vars => FreshIds'
<1> SUFFICES ASSUME TypeOK, FreshIds, [Next]_vars PROVE FreshIds'
  OBVIOUS
<1> USE NoEngineAssumption DEF TypeOK, FreshIds
<1>1. ASSUME NEW e \in Engines, Construct(e) \/ ConstructUnread(e) PROVE FreshIds'
  BY <1>1 DEF Construct, ConstructUnread, NoJobs
<1>2. ASSUME NEW e \in Engines, Start(e) PROVE FreshIds'
  BY <1>2 DEF Start
<1>3. ASSUME NEW e \in Engines, Stop(e) \/ Crash(e) PROVE FreshIds'
  BY <1>3 DEF Stop, Crash
<1>4. ASSUME NEW e \in Engines, NEW j \in Jobs, Operation(e, j) PROVE FreshIds'
  <2>1. ASSUME NEW v \in {"on", "off"}, AddJob(e, j, v) PROVE FreshIds'
    <3>1. known' = known \cup {j} /\ UNCHANGED <<manifest, told>>
      BY <2>1 DEF AddJob
    <3>2. ASSUME NEW i \in Jobs \ known'
          PROVE  store'[i] = NoEngine /\ \A d \in Engines : i \notin unsent'[d]
      BY <2>1, <3>1, <3>2 DEF AddJob, Register
    <3>3. ASSUME NEW i \in Jobs \ known'
          PROVE  \A d \in Engines : mem'[d][i] = "none"
      BY <2>1, <3>1, <3>3 DEF AddJob, SetJob
    <3>4. ASSUME NEW i \in Jobs \ known'
          PROVE  \A s \in saves' : s.payload[i] = "none" /\ i \notin s.ops
      BY <2>1, <3>1, <3>3, <3>4 DEF AddJob, BeginSave
    <3> QED BY <3>1, <3>2, <3>3, <3>4
  <2>2. CASE AddJobRaises(e, j)
    BY <2>2 DEF AddJobRaises, SetJob
  <2>3. ASSUME NEW v \in Job, SetJob(e, j, v), BeginSave(e, {j}), mem[e][j] # "none",
               Register(e, j) \/ Unregister(e, j), UNCHANGED <<manifest, known, told>>
        PROVE  FreshIds'
    <3>1. j \in known
      BY <2>3
    <3>2. ASSUME NEW i \in Jobs \ known
          PROVE  store'[i] = NoEngine /\ \A d \in Engines : i \notin unsent'[d]
      <4>1. CASE Register(e, j)
        BY <3>1, <3>2, <4>1 DEF Register
      <4>2. CASE Unregister(e, j)
        BY <3>1, <3>2, <4>2 DEF Unregister
      <4> QED BY <2>3, <4>1, <4>2
    <3>3. ASSUME NEW i \in Jobs \ known
          PROVE  \A d \in Engines : mem'[d][i] = "none"
      BY <2>3, <3>1, <3>3 DEF SetJob
    <3>4. ASSUME NEW i \in Jobs \ known
          PROVE  \A s \in saves' : s.payload[i] = "none" /\ i \notin s.ops
      BY <2>3, <3>1, <3>3, <3>4 DEF BeginSave
    <3> QED BY <2>3, <3>2, <3>3, <3>4
  <2>4. CASE RemoveJob(e, j)
    BY <2>3, <2>4 DEF RemoveJob, Job
  <2>5. CASE EnableJob(e, j)
    BY <2>3, <2>5 DEF EnableJob, Job
  <2>6. CASE DisableJob(e, j)
    BY <2>3, <2>6 DEF DisableJob, Job
  <2>7. CASE Fire(e, j) \/ RunJob(e, j) \/ FinishJobRaises(e, j)
    BY <2>7 DEF Fire, RunJob, FinishJobRaises
  <2>8. CASE FinishJob(e, j)
    BY <2>8 DEF FinishJob, BeginSave
  <2> QED BY <1>4, <2>1, <2>2, <2>4, <2>5, <2>6, <2>7, <2>8 DEF Operation
<1>5. ASSUME NEW s \in saves, Replace(s) \/ ReplaceCut(s) \/ SaveFails(s) PROVE FreshIds'
  BY <1>5 DEF Replace, ReplaceCut, Saved, SaveFails, NoJobs
<1>6. CASE DaemonStatus
  BY <1>6 DEF DaemonStatus
<1>7. CASE UNCHANGED vars
  BY <1>7 DEF vars
<1> QED BY <1>1, <1>2, <1>3, <1>4, <1>5, <1>6, <1>7 DEF Next

-----------------------------------------------------------------------------
(* Only enabled jobs are fired *)

\* Every step keeps EntriesInv: an entry appears with the job that is enabled,
\* and goes with it.
LEMMA EntriesStep == TypeOK /\ EntriesInv /\ [Next]_vars => EntriesInv'
<1> SUFFICES ASSUME TypeOK, EntriesInv, [Next]_vars PROVE EntriesInv'
  OBVIOUS
<1> DEFINE Others == \A e \in Engines :
                        /\ \A j \in unsent[e] : mem[e][j] = "on"
                        /\ proc[e] # "ready" => unsent[e] = {}
                        /\ proc[e] \in {"new", "ready"} => \A j \in Jobs : store[j] # e
<1>0. FreshIds /\ FreshIds'
  BY FreshStep DEF EntriesInv
<1> SUFFICES FiresOnlyEnabled' /\ Others'
  BY <1>0 DEF EntriesInv
<1> USE NoEngineAssumption DEF TypeOK, EntriesInv, FiresOnlyEnabled, Life
<1>1. ASSUME NEW e \in Engines, Construct(e) \/ ConstructUnread(e)
      PROVE  FiresOnlyEnabled' /\ Others'
  BY <1>1 DEF Construct, ConstructUnread
<1>2. ASSUME NEW e \in Engines, Start(e) PROVE FiresOnlyEnabled' /\ Others'
  BY <1>2 DEF Start
<1>3. ASSUME NEW e \in Engines, Stop(e) \/ Crash(e) PROVE FiresOnlyEnabled' /\ Others'
  <2>1. /\ proc' = [proc EXCEPT ![e] = "gone"] /\ e \in Alive
        /\ unsent' = [unsent EXCEPT ![e] = {}]
        /\ UNCHANGED <<mem, store>>
    BY <1>3 DEF Stop, Crash
  <2> QED BY <2>1 DEF Alive
<1>4. ASSUME NEW e \in Engines, NEW j \in Jobs, Operation(e, j)
      PROVE  FiresOnlyEnabled' /\ Others'
  <2>1. ASSUME SetJob(e, j, "on"), Register(e, j), e \in Alive, UNCHANGED proc
        PROVE  FiresOnlyEnabled' /\ Others'
    <3>1. CASE proc[e] = "started"
      BY <2>1, <3>1 DEF SetJob, Register
    <3>2. CASE proc[e] = "ready"
      BY <2>1, <3>2 DEF SetJob, Register
    <3> QED BY <2>1, <3>1, <3>2 DEF Alive
  <2>2. ASSUME NEW v \in Job, SetJob(e, j, v), Unregister(e, j), e \in Alive, UNCHANGED proc
        PROVE  FiresOnlyEnabled' /\ Others'
    <3>1. CASE proc[e] = "started"
      BY <2>2, <3>1 DEF SetJob, Unregister
    <3>2. CASE proc[e] = "ready"
      BY <2>2, <3>2 DEF SetJob, Unregister
    <3> QED BY <2>2, <3>1, <3>2 DEF Alive
  <2>3. ASSUME NEW v \in Job, SetJob(e, j, v), j \notin known, UNCHANGED <<proc, store, unsent>>
        PROVE  FiresOnlyEnabled' /\ Others'
    BY <1>0, <2>3 DEF FreshIds, SetJob
  <2>4. CASE \E v \in {"on", "off"} : AddJob(e, j, v)
    BY <2>1, <2>3, <2>4 DEF AddJob, Job
  <2>5. CASE AddJobRaises(e, j)
    BY <2>3, <2>5 DEF AddJobRaises, Job
  <2>6. CASE RemoveJob(e, j) \/ DisableJob(e, j)
    BY <2>2, <2>6 DEF RemoveJob, DisableJob, Job
  <2>7. CASE EnableJob(e, j)
    BY <2>1, <2>7 DEF EnableJob
  <2>8. CASE Fire(e, j) \/ RunJob(e, j) \/ FinishJob(e, j) \/ FinishJobRaises(e, j)
    BY <2>8 DEF Fire, RunJob, FinishJob, FinishJobRaises
  <2> QED BY <1>4, <2>4, <2>5, <2>6, <2>7, <2>8 DEF Operation
<1>5. ASSUME NEW s \in saves, Replace(s) \/ ReplaceCut(s) \/ SaveFails(s)
      PROVE  FiresOnlyEnabled' /\ Others'
  BY <1>5 DEF Replace, ReplaceCut, Saved, SaveFails
<1>6. CASE DaemonStatus
  BY <1>6 DEF DaemonStatus
<1>7. CASE UNCHANGED vars
  BY <1>7 DEF vars
<1> QED BY <1>1, <1>2, <1>3, <1>4, <1>5, <1>6, <1>7 DEF Next

\* Entries of the job store that a running scheduler would execute are those of
\* enabled jobs, for any number of engines and saves at the same time.
THEOREM Entries == Spec => []EntriesInv
<1>1. Init => EntriesInv
  BY NoEngineAssumption DEF Init, EntriesInv, FiresOnlyEnabled, FreshIds, NoJobs
<1> QED BY <1>1, TypeCorrect, EntriesStep, PTL DEF Spec

\* No disabled or removed job is fired.
THEOREM Firing == Spec => []FiresOnlyEnabled
<1>1. EntriesInv => FiresOnlyEnabled
  BY DEF EntriesInv
<1> QED BY <1>1, Entries, PTL

-----------------------------------------------------------------------------
(* jobs.json keeps what callers were told *)

\* With room for one save, a save begins when there is none.
LEMMA OneSave ==
  ASSUME MaxSaves = 1, IsFiniteSet(saves), NEW e, NEW ops, BeginSave(e, ops)
  PROVE  saves = {} /\ saves' = {[engine |-> e, payload |-> mem'[e], ops |-> ops]}
<1>1. Cardinality(saves) \in Nat /\ Cardinality(saves) < 1
  BY FS_CardinalityType DEF BeginSave
<1>2. saves = {}
  BY <1>1, FS_EmptySet
<1> QED BY <1>2 DEF BeginSave

\* With room for one engine, an engine is built when there is none.
LEMMA OneEngine ==
  ASSUME MaxAlive = 1, NEW e \in Engines, Construct(e) \/ ConstructUnread(e)
  PROVE  Alive = {}
<1>1. IsFiniteSet(Alive)
  BY NoEngineAssumption, FS_Subset DEF Alive
<1>2. Cardinality(Alive) \in Nat /\ Cardinality(Alive) < 1
  BY <1>1, FS_CardinalityType DEF Construct, ConstructUnread
<1> QED BY <1>1, <1>2, FS_EmptySet

\* An operation that changes at most its own job and saves.
LEMMA SavingStep ==
  ASSUME MaxSaves = 1, TypeOK, DurableInv, FreshIds',
         NEW e \in Engines, NEW j \in Jobs, NEW ops \in SUBSET {j},
         e \in Alive, BeginSave(e, ops), mem' \in [Engines -> [Jobs -> Job]],
         \A i \in Jobs \ ops : mem'[e][i] = mem[e][i],
         UNCHANGED <<proc, manifest, told, losses>>,
         \A d \in Engines \ Alive : executing'[d] = {}
  PROVE  DurableInv'
<1>1. saves = {} /\ saves' = {[engine |-> e, payload |-> mem'[e], ops |-> ops]}
  BY OneSave DEF DurableInv
<1>2. Durable' /\ Alive' = Alive
  BY DEF DurableInv, Durable, Alive, Agrees, losses
<1>3. \A d \in Alive : d = e
  BY DEF DurableInv
<1>4. \A i \in Jobs \ ops :
         told[i] # "unset" => Agrees(mem[e], i, wiped \cup blind[e])
  BY <1>1 DEF DurableInv
<1>0. ASSUME NEW d \in Alive', NEW i \in Jobs \ ops, told'[i] # "unset"
      PROVE  Agrees(mem[d], i, wiped \cup blind[d])'
  <2>1. d = e /\ told'[i] = told[i] /\ mem'[e][i] = mem[e][i]
    BY <1>0, <1>2, <1>3
  <2> QED BY <1>0, <1>4, <2>1 DEF Agrees, losses
<1>5. \A s \in saves' : s.engine = e /\ s.payload = mem'[e] /\ s.ops = ops
  BY <1>1
<1>6. \A s, t \in saves' : s = t
  BY <1>1
<1>7. IsFiniteSet(saves')
  BY <1>1, FS_Singleton
<1>8. [engine |-> e, payload |-> mem'[e], ops |-> ops] \in saves'
  BY <1>1
<1>9. ASSUME NEW i \in Jobs, \A s \in saves' : i \notin s.ops PROVE i \notin ops
  BY <1>5, <1>8, <1>9
<1> QED BY <1>0, <1>2, <1>3, <1>5, <1>6, <1>7, <1>9 DEF DurableInv

\* Every step keeps DurableInv.
LEMMA DurableStep ==
  ASSUME MaxAlive = 1, MaxSaves = 1, TypeOK, TypeOK', DurableInv, [Next]_vars
  PROVE  DurableInv'
<1>0. FreshIds /\ FreshIds'
  BY FreshStep DEF DurableInv
<1> USE DEF TypeOK, losses, Agrees
<1>1. ASSUME NEW e \in Engines, Construct(e) \/ ConstructUnread(e) PROVE DurableInv'
  <2>1. Alive = {} /\ saves = {}
    BY <1>1, OneEngine DEF DurableInv
  <2>2. Alive' = {e} /\ saves' = {}
    BY <1>1, <2>1 DEF Construct, ConstructUnread, Alive
  <2>3. UNCHANGED <<manifest, told, executing, wiped>>
    BY <1>1 DEF Construct, ConstructUnread
  <2>4. mem'[e] = manifest \/ (mem'[e] = NoJobs /\ blind'[e] = Listed(manifest))
    BY <1>1 DEF Construct, ConstructUnread
  <2>5. ASSUME NEW j \in Jobs, told'[j] # "unset"
        PROVE  Agrees(mem[e], j, wiped \cup blind[e])'
    <3>1. Agrees(manifest, j, wiped)
      BY <2>3, <2>5 DEF DurableInv, Durable
    <3>2. CASE mem'[e] = manifest
      BY <2>3, <3>1, <3>2
    <3>3. CASE mem'[e] = NoJobs /\ blind'[e] = Listed(manifest)
      BY <2>3, <3>1, <3>3 DEF Listed, NoJobs
    <3> QED BY <2>4, <3>2, <3>3
  <2> QED BY <1>0, <2>1, <2>2, <2>3, <2>5, FS_EmptySet DEF DurableInv, Durable
<1>2. ASSUME NEW e \in Engines, Start(e) PROVE DurableInv'
  <2>1. Alive' = Alive /\ UNCHANGED <<mem, executing, saves, manifest, told, losses>>
    BY <1>2 DEF Start, Alive
  <2> QED BY <1>0, <2>1 DEF DurableInv, Durable
<1>3. ASSUME NEW e \in Engines, Stop(e) \/ Crash(e) PROVE DurableInv'
  <2>1. e \in Alive /\ \A d \in Alive : d = e
    BY <1>3 DEF Stop, Crash, DurableInv
  <2>2. Alive' = {}
    BY <1>3, <2>1 DEF Stop, Crash, Alive
  <2>3. saves' = {} /\ UNCHANGED <<mem, manifest, told, losses>>
    BY <1>3, <2>1, SMTT(30) DEF Stop, Crash, DurableInv
  <2>4. \A d \in Engines : executing'[d] = {}
    BY <1>3, <2>1, SMTT(30) DEF Stop, Crash, DurableInv
  <2> QED BY <1>0, <2>2, <2>3, <2>4, FS_EmptySet DEF DurableInv, Durable
<1>4. ASSUME NEW e \in Engines, NEW j \in Jobs, Operation(e, j) PROVE DurableInv'
  <2>1. ASSUME NEW v, SetJob(e, j, v)
        PROVE  \A i \in Jobs \ {j} : mem'[e][i] = mem[e][i]
    BY <2>1 DEF SetJob
  <2>2. mem' \in [Engines -> [Jobs -> Job]]
    OBVIOUS
  <2>3. CASE (\E v \in {"on", "off"} : AddJob(e, j, v))
             \/ RemoveJob(e, j) \/ EnableJob(e, j) \/ DisableJob(e, j)
    <3>1. /\ e \in Alive /\ BeginSave(e, {j})
          /\ UNCHANGED <<proc, executing, manifest, told, losses>>
          /\ \E v : SetJob(e, j, v)
      BY <2>3 DEF AddJob, RemoveJob, EnableJob, DisableJob
    <3>2. \A i \in Jobs \ {j} : mem'[e][i] = mem[e][i]
      BY <2>1, <3>1
    <3>3. \A d \in Engines \ Alive : executing'[d] = {}
      BY <3>1 DEF DurableInv
    <3>4. {j} \in SUBSET {j} /\ mem' \in [Engines -> [Jobs -> Job]]
      BY <2>2
    <3> HIDE DEF TypeOK
    <3> QED BY <1>0, <3>1, <3>2, <3>3, <3>4, SavingStep
  <2>4. CASE FinishJob(e, j)
    <3>1. e \in Alive /\ BeginSave(e, {}) /\ UNCHANGED <<proc, mem, manifest, told, losses>>
      BY <2>4 DEF FinishJob, DurableInv
    <3>2. \A d \in Engines \ Alive : executing'[d] = {}
      BY <2>4 DEF FinishJob, DurableInv
    <3> QED BY <1>0, <2>2, <3>1, <3>2, SavingStep
  <2>5. CASE AddJobRaises(e, j)
    <3>1. /\ Alive' = Alive /\ told[j] = "unset"
          /\ \A s \in saves : j \notin s.ops
          /\ UNCHANGED <<executing, saves, manifest, told, losses>>
      BY <1>0, <2>5 DEF AddJobRaises, Alive, FreshIds
    <3>2. \A d \in Engines, i \in Jobs \ {j} : mem'[d][i] = mem[d][i]
      BY <2>5 DEF AddJobRaises, SetJob
    <3>3. \A s \in saves : \A i \in Jobs :
            i \in s.ops \/ told[i] # "unset" => mem'[s.engine][i] = s.payload[i]
      BY <3>1, <3>2 DEF DurableInv
    <3>4. ASSUME NEW d \in Alive, NEW i \in Jobs, told[i] # "unset",
                 \A s \in saves : i \notin s.ops
          PROVE  Agrees(mem[d], i, wiped \cup blind[d])'
      <4>1. Agrees(mem[d], i, wiped \cup blind[d])
        BY <3>4 DEF DurableInv
      <4>2. mem'[d][i] = mem[d][i]
        BY <3>1, <3>2, <3>4 DEF Alive
      <4> QED BY <3>1, <4>1, <4>2
    <3> HIDE DEF TypeOK
    <3> QED BY <1>0, <3>1, <3>3, <3>4 DEF DurableInv, Durable
  <2>6. CASE Fire(e, j) \/ RunJob(e, j)
    <3>1. e \in Alive /\ Alive' = Alive /\ UNCHANGED <<mem, saves, manifest, told, losses>>
      BY <2>6 DEF Fire, RunJob, Alive
    <3>2. \A d \in Engines \ Alive : executing'[d] = {}
      BY <2>6, <3>1 DEF Fire, RunJob, DurableInv
    <3> QED BY <1>0, <3>1, <3>2 DEF DurableInv, Durable
  <2>7. CASE FinishJobRaises(e, j)
    <3>1. Alive' = Alive /\ UNCHANGED <<mem, saves, manifest, told, losses>>
      BY <2>7 DEF FinishJobRaises, Alive
    <3>2. \A d \in Engines \ Alive : executing'[d] = {}
      BY <2>7 DEF FinishJobRaises, DurableInv
    <3> QED BY <1>0, <3>1, <3>2 DEF DurableInv, Durable
  <2> QED BY <1>4, <2>3, <2>4, <2>5, <2>6, <2>7 DEF Operation
<1>5. ASSUME NEW s \in saves, Replace(s) \/ ReplaceCut(s) PROVE DurableInv'
  <2>1. saves = {s} /\ saves' = {}
    BY <1>5 DEF Replace, ReplaceCut, Saved, DurableInv
  <2>2. /\ Alive' = Alive /\ UNCHANGED <<mem, executing, blind>>
        /\ told' = [j \in Jobs |-> IF j \in s.ops THEN s.payload[j] ELSE told[j]]
    BY <1>5 DEF Replace, ReplaceCut, Saved, Alive
  <2>3. s.engine \in Alive /\ \A e \in Alive : e = s.engine
    BY DEF DurableInv
  <2>4. ASSUME NEW j \in Jobs, told'[j] # "unset"
        PROVE  Agrees(mem[s.engine], j, wiped \cup blind[s.engine])' /\ Agrees(manifest, j, wiped)'
    <3>1. mem[s.engine][j] = s.payload[j]
      BY <2>2, <2>4 DEF DurableInv
    <3>2. CASE j \in s.ops
      BY <1>5, <2>2, <3>1, <3>2 DEF Replace, ReplaceCut, Listed, NoJobs
    <3>3. CASE j \notin s.ops
      <4>1. told'[j] = told[j]
        BY <2>2, <3>3
      <4>2. Agrees(mem[s.engine], j, wiped \cup blind[s.engine])
        BY <2>1, <2>3, <2>4, <3>3, <4>1 DEF DurableInv
      <4>3. CASE Replace(s)
        BY <2>2, <3>1, <3>3, <4>1, <4>2, <4>3 DEF Replace, Listed
      <4>4. CASE ReplaceCut(s)
        BY <2>2, <3>1, <3>3, <4>1, <4>2, <4>4 DEF ReplaceCut, Listed, NoJobs
      <4> QED BY <1>5, <4>3, <4>4
    <3> QED BY <3>2, <3>3
  <2> QED BY <1>0, <2>1, <2>2, <2>3, <2>4, FS_EmptySet DEF DurableInv, Durable
<1>6. ASSUME NEW s \in saves, SaveFails(s) PROVE DurableInv'
  <2>1. saves = {s} /\ saves' = {}
    BY <1>6 DEF SaveFails, DurableInv
  <2>2. /\ Alive' = Alive /\ UNCHANGED <<mem, executing, manifest, losses>>
        /\ \A j \in Jobs : told'[j] # "unset" => j \notin s.ops /\ told'[j] = told[j]
    BY <1>6 DEF SaveFails, Alive
  <2>3. \A j \in Jobs : told'[j] # "unset" => Agrees(manifest, j, wiped)'
    BY <2>2 DEF DurableInv, Durable
  <2>4. \A e \in Alive, j \in Jobs :
          told'[j] # "unset" => Agrees(mem[e], j, wiped \cup blind[e])'
    BY <2>1, <2>2 DEF DurableInv
  <2> QED BY <1>0, <2>1, <2>2, <2>3, <2>4, FS_EmptySet DEF DurableInv, Durable
<1>7. CASE DaemonStatus \/ UNCHANGED vars
  <2>1. Alive' = Alive /\ UNCHANGED <<mem, executing, saves, manifest, told, losses>>
    BY <1>7 DEF DaemonStatus, vars, Alive
  <2> QED BY <1>0, <2>1 DEF DurableInv, Durable
<1> QED BY <1>1, <1>2, <1>3, <1>4, <1>5, <1>6, <1>7 DEF Next

\* While at most one engine exists at a time and its saves do not overlap,
\* jobs.json says of every job what its caller was told, over any number of
\* crashes and restarts; or has lost it to an engine that could not read the file
\* or to a cut write, and then it has nothing of it.
THEOREM Persistence ==
  ASSUME MaxAlive = 1, MaxSaves = 1
  PROVE  Spec => []Durable
<1>1. Init => DurableInv
  BY FS_EmptySet DEF Init, DurableInv, Durable, FreshIds, Alive, NoJobs
<1>2. DurableInv => Durable
  BY DEF DurableInv
<1>3. TypeOK /\ TypeOK' /\ DurableInv /\ [Next]_vars => DurableInv'
  BY DurableStep
<1> QED BY <1>1, <1>2, <1>3, TypeCorrect, PTL DEF Spec
=============================================================================
