----------------------------- MODULE JobRunner -----------------------------
(* superpowers/job_runner.py and the command that drives it (cli_jobs.py,   *)
(* `claw jobs run --pr --auto-merge`): a job works on its own branch of the *)
(* repository the developer is working in, in the same working tree, and    *)
(* the runner goes back to the branch it came from.                         *)
(*                                                                          *)
(* A version of a file is named after who wrote it: "old" is the first      *)
(* commit, "edit" the developer, a job its own writes.                      *)
EXTENDS Naturals, FiniteSets

CONSTANTS
  Jobs,           \* job ids; job/<id> is the branch of the job
  Files,          \* the files of the repository
  AllowedFiles,   \* those that match allowed_auto_merge_paths
  SeveralRunners, \* whether a second runner may start while one is at work
  MaxJobRuns      \* bound: runs started

ASSUME JobsAssumption ==
  /\ AllowedFiles \subseteq Files
  /\ SeveralRunners \in BOOLEAN
  /\ MaxJobRuns \in Nat
  /\ "main" \notin Jobs /\ "old" \notin Jobs /\ "edit" \notin Jobs

VARIABLES
  head,      \* the branch that is checked out
  tree,      \* what each branch holds; its domain is the set of branches
  worktree,  \* what the working tree holds
  base,      \* the commit each job's branch started from
  job,       \* the JobResult of each id and how far its runner is
  jobRuns,   \* bounded by MaxJobRuns
  edited     \* history: files whose last writer is the developer

jobVars == <<head, tree, worktree, base, job, jobRuns, edited>>

Versions == {"old", "edit"} \cup Jobs
Branches == {"main"} \cup Jobs
Contents == [Files -> Versions]

NoJob == [at |-> "idle", status |-> "pending", from |-> "main",
          changed |-> {}, committed |-> FALSE, pr |-> "none"]

Runners == {j \in Jobs : job[j].at \notin {"idle", "done"}}

\* _changed_files: what `git diff` and `git ls-files --others` list.
Changed == {f \in Files : worktree[f] # tree[head][f]}

\* git keeps uncommitted changes across a checkout and refuses one that would
\* overwrite them.
CanCheckout(b) == \A f \in Changed : tree[b][f] = tree[head][f]

AfterCheckout(b) ==
  [f \in Files |-> IF f \in Changed THEN worktree[f] ELSE tree[b][f]]

\* A three-way merge of branch j into b.
MergeConflicts(j, b) ==
  {f \in Files : tree[j][f] # base[j][f] /\ tree[b][f] # base[j][f]
                   /\ tree[j][f] # tree[b][f]}
Merge(j, b) ==
  [f \in Files |-> IF tree[j][f] # base[j][f] THEN tree[j][f] ELSE tree[b][f]]

JobsInit ==
  /\ head = "main"
  /\ tree = [b \in {"main"} |-> [f \in Files |-> "old"]]
  /\ worktree = [f \in Files |-> "old"]
  /\ base = [j \in Jobs |-> [f \in Files |-> "old"]]
  /\ job = [j \in Jobs |-> NoJob]
  /\ jobRuns = 0
  /\ edited = {}

-----------------------------------------------------------------------------
Moves(j, result) == job' = [job EXCEPT ![j] = result]

\* run() notes the branch it starts from; the same id may be used again.
StartJob(j) ==
  /\ job[j].at \in {"idle", "done"}
  /\ SeveralRunners \/ Runners = {}
  /\ jobRuns < MaxJobRuns
  /\ jobRuns' = jobRuns + 1
  /\ Moves(j, [NoJob EXCEPT !.at = "branch", !.from = head])
  /\ UNCHANGED <<head, tree, worktree, base, edited>>

\* git checkout -b, which starts the branch at whatever is checked out.
CreateBranch(j) ==
  /\ job[j].at = "branch"
  /\ j \notin DOMAIN tree
  /\ tree' = [b \in DOMAIN tree \cup {j} |-> IF b = j THEN tree[head] ELSE tree[b]]
  /\ base' = [base EXCEPT ![j] = tree[head]]
  /\ head' = j
  /\ Moves(j, [job[j] EXCEPT !.at = "execute", !.status = "running"])
  /\ UNCHANGED <<worktree, jobRuns, edited>>

\* The branch is there already: JobRunnerError, by way of the finally block.
BranchExists(j) ==
  /\ job[j].at = "branch"
  /\ j \in DOMAIN tree
  /\ Moves(j, [job[j] EXCEPT !.at = "raise"])
  /\ UNCHANGED <<head, tree, worktree, base, jobRuns, edited>>

\* The command writes files and ends, fails, or is killed after 300 s; only
\* the last skips the commit step.
Execute(j) ==
  /\ job[j].at = "execute"
  /\ \E written \in SUBSET Files, end \in {"ok", "fails", "timeout"} :
       /\ worktree' = [f \in Files |-> IF f \in written THEN j ELSE worktree[f]]
       /\ edited' = edited \ written
       /\ Moves(j, [job[j] EXCEPT !.at = IF end = "timeout" THEN "return" ELSE "stage",
                                  !.status = IF end = "ok" THEN "running" ELSE "failed"])
  /\ UNCHANGED <<head, tree, base, jobRuns>>

\* git add -A and git commit, on the branch that is checked out now.  The
\* commit's own exit status is not looked at; one of the other git calls may
\* fail or time out, before the commit or after it.
Stage(j) ==
  /\ job[j].at = "stage"
  /\ LET commits == Changed # {} /\ job[j].status # "failed"
     IN \E made, gitFails \in BOOLEAN :
          /\ (made \/ gitFails) => commits
          /\ tree' = IF made THEN [tree EXCEPT ![head] = worktree] ELSE tree
          /\ Moves(j, [job[j] EXCEPT
               !.at = "return", !.changed = Changed, !.committed = made,
               !.status = IF gitFails \/ job[j].status = "failed" THEN "failed" ELSE "completed"])
  /\ UNCHANGED <<head, worktree, base, jobRuns, edited>>

\* The finally block: git checkout of the first branch, its failure ignored.
ReturnToBranch(j) ==
  /\ job[j].at \in {"return", "raise"}
  /\ IF CanCheckout(job[j].from)
     THEN head' = job[j].from /\ worktree' = AfterCheckout(job[j].from)
     ELSE UNCHANGED <<head, worktree>>
  /\ Moves(j, [job[j] EXCEPT !.at = IF job[j].at = "raise" THEN "done" ELSE "ran"])
  /\ UNCHANGED <<tree, base, jobRuns, edited>>

\* create_pr, for a completed job: with gh, without it, or not asked for.
CreatePR(j) ==
  /\ job[j].at = "ran"
  /\ \E p \in {"none", "url", "branch"} :
       /\ p # "none" => job[j].status = "completed"
       /\ Moves(j, [job[j] EXCEPT !.at = "merge", !.pr = p])
  /\ UNCHANGED <<head, tree, worktree, base, jobRuns, edited>>

CanAutoMerge(j) ==
  /\ job[j].status = "completed"
  /\ job[j].changed # {}
  /\ job[j].changed \subseteq AllowedFiles

\* Mutant: the status is set before the merge has succeeded.
StatusFirst(j) ==
  /\ job[j].at = "merge"
  /\ CanAutoMerge(j)
  /\ Moves(j, [job[j] EXCEPT !.at = "done", !.status = "merged"])
  /\ IF MergeConflicts(j, head) = {} /\ \A f \in Changed : Merge(j, head)[f] = tree[head][f]
     THEN /\ tree' = [tree EXCEPT ![head] = Merge(j, head)]
          /\ worktree' = [f \in Files |-> IF f \in Changed THEN worktree[f] ELSE Merge(j, head)[f]]
     ELSE UNCHANGED <<tree, worktree>>
  /\ UNCHANGED <<head, base, jobRuns, edited>>

\* auto_merge into the branch that is checked out.  git refuses when the
\* working tree's own changes are in the way, and a conflict is aborted.
AutoMerge(j) ==
  /\ job[j].at = "merge"
  /\ CanAutoMerge(j)
  /\ LET merged == Merge(j, head)
         ok == /\ MergeConflicts(j, head) = {}
               /\ \A f \in Changed : merged[f] = tree[head][f]
     IN /\ Moves(j, [job[j] EXCEPT !.at = "done", !.status = IF ok THEN "merged" ELSE job[j].status])
        /\ tree' = IF ok THEN [tree EXCEPT ![head] = merged] ELSE tree
        /\ worktree' = IF ok
                       THEN [f \in Files |-> IF f \in Changed THEN worktree[f] ELSE merged[f]]
                       ELSE worktree
  /\ UNCHANGED <<head, base, jobRuns, edited>>

\* Without --auto-merge, or when can_auto_merge says no.
LeaveUnmerged(j) ==
  /\ job[j].at = "merge"
  /\ Moves(j, [job[j] EXCEPT !.at = "done"])
  /\ UNCHANGED <<head, tree, worktree, base, jobRuns, edited>>

\* The process is killed wherever it is: nothing is undone.
RunnerDies(j) ==
  /\ j \in Runners
  /\ Moves(j, [NoJob EXCEPT !.at = "done"])
  /\ UNCHANGED <<head, tree, worktree, base, jobRuns, edited>>

\* The developer saves a file.
Edit(f) ==
  /\ worktree[f] # "edit"
  /\ worktree' = [worktree EXCEPT ![f] = "edit"]
  /\ edited' = edited \cup {f}
  /\ UNCHANGED <<head, tree, base, job, jobRuns>>

JobStep(j) ==
  \/ CreateBranch(j) \/ BranchExists(j) \/ Execute(j) \/ Stage(j)
  \/ ReturnToBranch(j) \/ CreatePR(j) \/ AutoMerge(j) \/ LeaveUnmerged(j)

JobsNext ==
  \/ \E j \in Jobs : StartJob(j) \/ JobStep(j) \/ RunnerDies(j)
  \/ \E f \in Files : Edit(f)

JobsSpec == JobsInit /\ [][JobsNext]_jobVars

-----------------------------------------------------------------------------
JobsTypeOK ==
  /\ {head, "main"} \subseteq DOMAIN tree
  /\ DOMAIN tree \subseteq Branches
  /\ \A b \in DOMAIN tree : tree[b] \in Contents
  /\ worktree \in Contents
  /\ base \in [Jobs -> Contents]
  /\ job \in [Jobs ->
       [at : {"idle", "branch", "execute", "stage", "return", "raise", "ran", "merge", "done"},
        status : {"pending", "running", "completed", "failed", "merged"},
        from : Branches, changed : SUBSET Files, committed : BOOLEAN,
        pr : {"none", "url", "branch"}]]
  /\ jobRuns \in 0..MaxJobRuns
  /\ edited \subseteq Files

\* Where a runner is while the branch of its job is its own.
Begun == {"execute", "stage", "return", "ran", "merge"}

\* A runner works on its own branch, which starts at the one it came from, has its commit
\* or nothing on it, and lists in its result every file of that commit.
OnBranch(j) ==
  /\ j \in DOMAIN tree /\ job[j].from \in DOMAIN tree \ {j}
  /\ base[j] = tree[job[j].from]
  /\ job[j].at \in {"execute", "stage", "return"} => head = j
  /\ ~job[j].committed => tree[j] = base[j]
  /\ job[j].status = "completed" => {f \in Files : tree[j][f] # base[j][f]} \subseteq job[j].changed

\* After a commit only the developer's files differ from it; one that the job changed too is
\* in the working tree, and not on the branch the runner went back to.
EditsAside(j) ==
  /\ job[j].committed => \A f \in Changed : worktree[f] = "edit" /\ f \in edited
  /\ \A f \in edited : tree[j][f] \notin {base[j][f], "edit"} =>
       worktree[f] = "edit" /\ (head = j \/ tree[head][f] # "edit")

\* What holds of one runner at a time: where it is on its own branch, and where a file the
\* developer edited last may be.
JobsInv ==
  /\ \A i, j \in Runners : i = j
  /\ \A f \in edited : worktree[f] \in {"edit", tree[head][f]}
  /\ \A j \in Runners :
       /\ job[j].from \in DOMAIN tree
       /\ job[j].at \in {"branch", "raise"} => head = job[j].from
       /\ job[j].at \in {"branch", "raise", "execute", "stage"} => ~job[j].committed
       /\ job[j].at \in Begun => OnBranch(j)
       /\ job[j].at \in {"return", "ran", "merge"} => EditsAside(j)

\* A runner that got through leaves the developer on the branch it found,
\* whatever the command did and whether or not the commit was made (237-241).
\* One thing can keep it on the job's branch: an edit the developer made after
\* the commit, to a file the job changed.
HeadRestored ==
  \A j \in Jobs : job[j].at \in {"ran", "merge"} =>
    \/ head = job[j].from
    \/ head = j /\ \E f \in edited : worktree[f] = "edit" /\ tree[j][f] # tree[job[j].from][f]

\* No job writes main except by an auto-merge of allowed files
\* (job-runner.md:7, "path-restricted auto-merge").
MainKept == \A f \in Files \ AllowedFiles : tree["main"][f] = "old"

\* What the developer wrote and no command overwrote is still somewhere: in
\* the working tree, or swept into a job's commit by `git add -A` (217).
EditsSurvive ==
  \A f \in edited : worktree[f] = "edit" \/ \E b \in DOMAIN tree : tree[b][f] = "edit"

\* A status of merged means the target has all the job committed (515).
MergedMeansMerged ==
  [][\A j \in Jobs :
       (job'[j].status = "merged" /\ job[j].status # "merged")
         => \A f \in Files : tree[j][f] # base[j][f] => tree'[head][f] = tree[j][f]]_jobVars

\* A job leaves the developer's branch, edits and main branch as they were, and
\* its status is true.
JobsSafe == []HeadRestored /\ []MainKept /\ []EditsSurvive /\ MergedMeansMerged

\* The work of a failed job is in no commit (test_job_runner.py:180).  It is
\* not: it stays in the working tree and the next job commits it.
FailedWorkUncommitted ==
  \A j \in Jobs : job[j].at = "done" /\ job[j].status = "failed" /\ ~job[j].committed
    => \A b \in DOMAIN tree, f \in Files : tree[b][f] # j
=============================================================================
