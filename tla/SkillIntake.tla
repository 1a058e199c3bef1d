----------------------------- MODULE SkillIntake -----------------------------
(* run_intake (superpowers/intake.py) with the skills it maps its tasks to:   *)
(* role_router, auto_install, skill_creator, skill_registry, skill_loader.    *)
(* Several intakes share the directory of skills and the session file. Words  *)
(* are left out: a skill says for which requirements it shares a word with.   *)
EXTENDS Naturals, Sequences, FiniteSets, SequencesExt

CONSTANTS
  Intakes, Requirements, SkillNames,
  Requests,          \* what an intake may be asked: sequences of requirements
  SharesWord,        \* requirement -> the requirements with a word in common
  TemplateFor,       \* requirement -> template its words match, or NoSkill
  NameFor,           \* requirement -> name made of its letters, or NoSkill
  TemplateAbout,     \* template -> requirements that its text shares a word with
  OwnedSkills,       \* skills of the owner, with the requirements they share a word with
  RoleOf,            \* requirement -> role by its keywords
  MaxWorkers, MaxBreaks  \* the pool; bound: edits of a manifest

NoSkill == "none"
Templates == DOMAIN TemplateAbout

ASSUME IntakeAssumption ==
  /\ Requests \subseteq Seq(Requirements) \ {<<>>} /\ NoSkill \notin SkillNames
  /\ TemplateFor \in [Requirements -> Templates \cup {NoSkill}] /\ NameFor \in [Requirements -> SkillNames \cup {NoSkill}]
  /\ Templates \subseteq SkillNames /\ \A t \in Templates : TemplateAbout[t] \subseteq Requirements
  /\ DOMAIN OwnedSkills \subseteq SkillNames /\ \A n \in DOMAIN OwnedSkills : OwnedSkills[n] \subseteq Requirements
  /\ SharesWord \in [Requirements -> SUBSET Requirements] /\ MaxWorkers \in Nat /\ MaxBreaks \in Nat

VARIABLES
  skillDirs,    \* name -> [made, manifest, about]: the directories of skills
  intake,       \* intake -> [at, wants, execute, todo]: its main thread
  tasks,        \* intake -> its list of tasks
  pool,         \* intake -> indices of the tasks its workers run
  submitted,    \* intake -> indices that wait for a worker
  sessionFile,  \* current_request.json: the intake that wrote it, with its tasks
  ran,          \* history: intake -> index -> how often its skill was started
  manifestEdits

intakeVars == <<skillDirs, intake, tasks, pool, submitted, sessionFile, ran, manifestEdits>>

NoDir == [made |-> "absent", manifest |-> "good", about |-> {}]
NoSession == [by |-> "none", tasks |-> <<>>]
Cleared == [by |-> "cleared", tasks |-> <<>>]
NotStarted == [at |-> "new", wants |-> "all", execute |-> FALSE, next |-> 0]

IntakeInit ==
  /\ skillDirs = [n \in SkillNames |-> IF n \in DOMAIN OwnedSkills
                    THEN [made |-> "owner", manifest |-> "good", about |-> OwnedSkills[n]] ELSE NoDir]
  /\ intake = [i \in Intakes |-> NotStarted] /\ tasks = [i \in Intakes |-> <<>>]
  /\ pool = [i \in Intakes |-> {}] /\ submitted = [i \in Intakes |-> {}]
  /\ sessionFile = NoSession /\ manifestEdits = 0
  /\ ran = [i \in Intakes |-> [k \in Nat \cap {} |-> 0]]

Step(i, at) == intake' = [intake EXCEPT ![i] = [intake[i] EXCEPT !.at = at]]
GoOn(i) == intake' = [intake EXCEPT ![i] = [intake[i] EXCEPT !.next = intake[i].next + 1]]
SetTask(i, k, skill, status) ==
  tasks' = [tasks EXCEPT ![i] = [tasks[i] EXCEPT ![k] =
              [requirement |-> tasks[i][k].requirement, skill |-> skill, status |-> status]]]
SetStatus(i, k, status) == SetTask(i, k, tasks[i][k].skill, status)

\* The session is cleared, the requirements become tasks with a role, and those of
\* another role than the one asked for are skipped before anything is mapped.
StartIntake(i) ==
  /\ intake[i].at = "new"
  /\ \E request \in Requests, wants \in {"all", "planner", "executor", "verifier"}, execute \in BOOLEAN :
       /\ intake' = [intake EXCEPT ![i] = [at |-> "map", wants |-> wants, execute |-> execute, next |-> 1]]
       /\ tasks' = [tasks EXCEPT ![i] = [k \in DOMAIN request |->
            [requirement |-> request[k], skill |-> NoSkill,
             status |-> IF wants \in {"all", RoleOf[request[k]]} THEN "planned" ELSE "skipped"]]]
       /\ ran' = [ran EXCEPT ![i] = [k \in DOMAIN request |-> 0]]
  /\ sessionFile' = Cleared
  /\ UNCHANGED <<skillDirs, pool, submitted, manifestEdits>>

\* discover: manifests that are not YAML are passed over, an empty one raises.
Discovered == {n \in SkillNames : skillDirs[n].made # "absent" /\ skillDirs[n].manifest = "good"}
DiscoverRaises == \E n \in SkillNames : skillDirs[n].made # "absent" /\ skillDirs[n].manifest = "empty"

\* create_skill writes manifest and script into the directory of that name, whatever it holds.
CreateSkill(n, made, about) == skillDirs' = [skillDirs EXCEPT ![n] = [made |-> made, manifest |-> "good", about |-> about]]

\* check_and_install: a discovered skill with a word in common (the first in the order of
\* directories; any, here), else the template, else a stub of the requirement's name.
CheckAndInstall(requirement, skill) ==
  LET known == {n \in Discovered : requirement \in skillDirs[n].about}
      template == TemplateFor[requirement]
  IN \/ skill \in known /\ UNCHANGED skillDirs
     \/ known = {} /\ template # NoSkill /\ skill = template /\ CreateSkill(template, "template", TemplateAbout[template])
     \/ known = {} /\ template = NoSkill /\ skill = NameFor[requirement]
        /\ IF skill = NoSkill THEN UNCHANGED skillDirs ELSE CreateSkill(skill, "stub", SharesWord[requirement])

Skipped(i, k) == tasks[i][k].status = "skipped"

MapTask(i) ==
  LET k == intake[i].next task == tasks[i][k] IN
  /\ intake[i].at = "map" /\ k <= Len(tasks[i])
  /\ \/ Skipped(i, k) /\ GoOn(i) /\ UNCHANGED <<tasks, skillDirs>>
     \/ ~Skipped(i, k) /\ DiscoverRaises /\ Step(i, "raised") /\ UNCHANGED <<tasks, skillDirs>>
     \/ /\ ~Skipped(i, k) /\ ~DiscoverRaises /\ GoOn(i)
        /\ \E skill \in SkillNames \cup {NoSkill} :
             /\ CheckAndInstall(task.requirement, skill)
             /\ SetTask(i, k, skill, IF skill = NoSkill THEN "failed" ELSE task.status)
  /\ UNCHANGED <<pool, submitted, sessionFile, ran, manifestEdits>>

\* All tasks that have not failed are submitted, the skipped ones too.
SubmitTasks(i) ==
  /\ intake[i].at = "map" /\ intake[i].next > Len(tasks[i])
  /\ IF intake[i].execute
     THEN /\ submitted' = [submitted EXCEPT ![i] = {k \in DOMAIN tasks[i] : tasks[i][k].status # "failed"}]
          /\ Step(i, "execute")
     ELSE Step(i, "save") /\ UNCHANGED submitted
  /\ UNCHANGED <<skillDirs, tasks, pool, sessionFile, ran, manifestEdits>>

\* _execute_one up to the start of the process: without a skill the task is skipped; a skill
\* that is not registered or lacks a dependency fails it.
BeginTask(i, k) ==
  /\ k \in submitted[i] /\ Cardinality(pool[i]) < MaxWorkers
  /\ submitted' = [submitted EXCEPT ![i] = @ \ {k}]
  /\ \/ /\ tasks[i][k].skill = NoSkill /\ SetStatus(i, k, "skipped") /\ UNCHANGED <<pool, ran>>
     \/ /\ tasks[i][k].skill # NoSkill /\ SetStatus(i, k, "failed") /\ UNCHANGED <<pool, ran>>
     \/ /\ tasks[i][k].skill # NoSkill /\ SetStatus(i, k, "running")
        /\ pool' = [pool EXCEPT ![i] = @ \cup {k}] /\ ran' = [ran EXCEPT ![i] = [ran[i] EXCEPT ![k] = ran[i][k] + 1]]
  /\ UNCHANGED <<skillDirs, intake, sessionFile, manifestEdits>>

\* The process ends, or is killed after 300 s: TimeoutExpired is not among the errors that
\* _execute_one catches, and result() raises it in the main thread.
EndTask(i, k) ==
  /\ k \in pool[i] /\ pool' = [pool EXCEPT ![i] = @ \ {k}]
  /\ \/ (\E status \in {"ok", "failed"} : SetStatus(i, k, status)) /\ UNCHANGED intake
     \/ Step(i, "raising") /\ UNCHANGED tasks
  /\ UNCHANGED <<skillDirs, submitted, sessionFile, ran, manifestEdits>>

\* Mutant: the session is saved when every task has been handed out.
JoinEarly(i) ==
  /\ intake[i].at \in {"execute", "raising"} /\ submitted[i] = {}
  /\ Step(i, IF intake[i].at = "execute" THEN "save" ELSE "raised")
  /\ UNCHANGED <<skillDirs, tasks, pool, submitted, sessionFile, ran, manifestEdits>>

\* The pool waits for the tasks that are left, in either case.
JoinPool(i) ==
  /\ intake[i].at \in {"execute", "raising"} /\ pool[i] = {} /\ submitted[i] = {}
  /\ Step(i, IF intake[i].at = "execute" THEN "save" ELSE "raised")
  /\ UNCHANGED <<skillDirs, tasks, pool, submitted, sessionFile, ran, manifestEdits>>

SaveSession(i) ==
  /\ intake[i].at = "save" /\ Step(i, "done")
  /\ sessionFile' = [by |-> i, tasks |-> tasks[i]]
  /\ UNCHANGED <<skillDirs, tasks, pool, submitted, ran, manifestEdits>>

\* The owner writes a manifest, or an editor leaves an empty one for a moment.
EditManifest(n) ==
  /\ manifestEdits < MaxBreaks /\ manifestEdits' = manifestEdits + 1 /\ skillDirs[n].made # "absent"
  /\ \E manifest \in {"good", "broken", "empty"} : skillDirs' = [skillDirs EXCEPT ![n] = [skillDirs[n] EXCEPT !.manifest = manifest]]
  /\ UNCHANGED <<intake, tasks, pool, submitted, sessionFile, ran>>

IntakeNext ==
  \/ \E i \in Intakes : StartIntake(i) \/ MapTask(i) \/ SubmitTasks(i) \/ JoinPool(i) \/ SaveSession(i)
  \/ \E i \in Intakes : \E k \in DOMAIN tasks[i] : BeginTask(i, k) \/ EndTask(i, k)
  \/ \E n \in SkillNames : EditManifest(n)

IntakeSpec == IntakeInit /\ [][IntakeNext]_intakeVars

\* Types of the intakes, their tasks, the skills and the session file (intake.py).
IntakeStates == {"new", "map", "execute", "raising", "raised", "save", "done"}
Task == [requirement : Requirements, skill : SkillNames \cup {NoSkill},
         status : {"planned", "running", "ok", "failed", "skipped"}]

IntakeTypeOK ==
  /\ skillDirs \in [SkillNames -> [made : {"absent", "owner", "template", "stub"}, manifest : {"good", "broken", "empty"},
                                  about : SUBSET Requirements]]
  /\ intake \in [Intakes -> [at : IntakeStates, wants : {"all", "planner", "executor", "verifier"}, execute : BOOLEAN,
                            next : Nat]]
  /\ tasks \in [Intakes -> Seq(Task)]
  /\ \A i \in Intakes : /\ pool[i] \cup submitted[i] \subseteq DOMAIN tasks[i] /\ pool[i] \cap submitted[i] = {}
                        /\ ran[i] \in [DOMAIN tasks[i] -> Nat]
  /\ DOMAIN pool = Intakes /\ DOMAIN submitted = Intakes /\ DOMAIN ran = Intakes
  /\ sessionFile \in [by : Intakes \cup {"none", "cleared"}, tasks : Seq(Task)] /\ manifestEdits \in 0..MaxBreaks

\* Only the pool runs tasks, each at most once: those that are planned wait for a worker, if
\* the intake executes, and none of another role, or of a plan, ever runs (_execute_one).
Foreign(i, requirement) == intake[i].wants \notin {"all", RoleOf[requirement]}

TaskInv(i, k) ==
  LET task == tasks[i][k] started == intake[i].at \notin {"new", "map"} IN
  /\ Foreign(i, task.requirement) => task.status = "skipped" /\ task.skill = NoSkill
  /\ ran[i][k] <= 1 /\ (task.status \in {"running", "ok"} => ran[i][k] = 1)
  /\ ran[i][k] # 0 => task.skill # NoSkill /\ intake[i].execute /\ started
  /\ k \in pool[i] => task.status = "running"
  /\ task.status = "running" => k \in pool[i] \/ intake[i].at \in {"raising", "raised"}
  /\ k \in submitted[i] => ran[i][k] = 0
  /\ task.status = "planned" /\ intake[i].execute => intake[i].at \in {"map", "raised"} \/ k \in submitted[i]

IntakeInv(i) ==
  /\ intake[i].at = "new" => tasks[i] = <<>>
  /\ intake[i].at = "map" => intake[i].next # 0
  /\ pool[i] \cup submitted[i] # {} => intake[i].execute /\ intake[i].at \in {"execute", "raising"}
  /\ \A k \in DOMAIN tasks[i] : TaskInv(i, k)
  /\ sessionFile.by = i => sessionFile.tasks = <<>> \/ (intake[i].at = "done" /\ sessionFile.tasks = tasks[i])

SessionInv == \A i \in Intakes : IntakeInv(i)

\* A session file tells what happened to every task of its intake: a task that succeeded ran
\* once, none is left running, only a plan keeps tasks planned, and neither a plan nor another
\* role's task ever started anything (run_intake, _execute_one, the pool).
SessionTrue ==
  \A i \in Intakes : sessionFile.by = i =>
    \A k \in DOMAIN sessionFile.tasks :
      LET task == sessionFile.tasks[k] foreign == intake[i].wants \notin {"all", RoleOf[task.requirement]} IN
      /\ task.status # "running" /\ ran[i][k] <= 1 /\ (task.status = "ok" => ran[i][k] = 1)
      /\ (task.status = "planned" => ~intake[i].execute)
      /\ (foreign => task.status = "skipped") /\ (foreign \/ ~intake[i].execute => ran[i][k] = 0)
=============================================================================
