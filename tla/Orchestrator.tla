----------------------------- MODULE Orchestrator -----------------------------
(* Orchestrator.run (superpowers/orchestrator.py): a workflow is run in the     *)
(* directory of a repository and its report saved.  A run of the command line   *)
(* has a process of its own; the dashboard starts each one in a thread of its   *)
(* process (dashboard/routers/orchestrations.py).  All write to one directory   *)
(* of reports.  What the steps of a workflow do is WorkflowEngine's part.       *)
EXTENDS Naturals

CONSTANTS
  OrchRuns,
  ServerOf,      \* run -> the process it runs in
  Commands, Repos,
  LastSecond,    \* bound: seconds of the clock that names the reports
  MaxMoves       \* bound: repositories that are removed or come back

NoRepo == "none"     \* no repo_path: the run stays where its process is
Home == "home"       \* where a process was started

ASSUME OrchAssumption ==
  /\ ServerOf \in [OrchRuns -> OrchRuns]
  /\ NoRepo \notin Repos /\ Home \notin Repos /\ LastSecond \in Nat /\ MaxMoves \in Nat

VARIABLES
  cwd,        \* process -> its working directory
  orch,       \* run -> [at, command, repo, back, stamp, failed]
  ranIn,      \* run -> directories its steps were executed in
  present,    \* repositories that exist
  second, moves,
  reports,    \* <<command, second>> -> run whose report the file holds, or "torn"
  latest      \* command -> likewise, latest.json

orchVars == <<cwd, orch, ranIn, present, second, moves, reports, latest>>

ReportFiles == Commands \X (0 .. LastSecond)

OrchInit ==
  /\ cwd = [r \in OrchRuns |-> Home]
  /\ orch = [r \in OrchRuns |-> [at |-> "new", command |-> "none", repo |-> NoRepo, back |-> Home, stamp |-> 0, failed |-> FALSE]]
  /\ ranIn = [r \in OrchRuns |-> {}]
  /\ present = Repos /\ second = 0 /\ moves = 0
  /\ reports = [f \in ReportFiles |-> "none"] /\ latest = [c \in Commands |-> "none"]

\* cwd is kept by the run that stands for its process.
Cwd(r) == cwd[ServerOf[r]]
ChangeDir(r, dir) == cwd' = [cwd EXCEPT ![ServerOf[r]] = dir]
OrchStep(r, from, to) == orch[r].at = from /\ orch' = [orch EXCEPT ![r].at = to]
NoReport == UNCHANGED <<second, moves, present, reports, latest>>

\* trigger_run or the command line.  A command whose workflow is gone ends without a report.
Trigger(r, command, repo) ==
  /\ orch[r].at = "new"
  /\ \E at \in {"load", "error"} :
       orch' = [orch EXCEPT ![r] = [@ EXCEPT !.at = at, !.command = command, !.repo = repo]]
  /\ UNCHANGED <<cwd, ranIn>> /\ NoReport

\* os.getcwd, before the try.
RememberDir(r) ==
  /\ orch[r].at = "load"
  /\ LET at == IF orch[r].repo = NoRepo THEN "steps" ELSE "chdir"
     IN orch' = [orch EXCEPT ![r] = [orch[r] EXCEPT !.at = at, !.back = Cwd(r)]]
  /\ UNCHANGED <<cwd, ranIn>> /\ NoReport

\* os.chdir(repo_path); a missing repository raises, and finally goes back all the same.
EnterRepo(r) ==
  /\ IF orch[r].repo \in present
     THEN OrchStep(r, "chdir", "steps") /\ ChangeDir(r, orch[r].repo)
     ELSE OrchStep(r, "chdir", "raising") /\ UNCHANGED cwd
  /\ UNCHANGED ranIn /\ NoReport

\* A step of the workflow is executed wherever the process is by now.
RunStep(r) ==
  /\ orch[r].at = "steps"
  /\ ranIn' = [ranIn EXCEPT ![r] = @ \cup {Cwd(r)}]
  /\ \E failed \in {orch[r].failed, TRUE} : orch' = [orch EXCEPT ![r].failed = failed]
  /\ UNCHANGED cwd /\ NoReport

\* The workflow ends, or the engine raises.
EndEngine(r) ==
  /\ \E to \in {"leave", "raising"} : OrchStep(r, "steps", to)
  /\ UNCHANGED <<cwd, ranIn>> /\ NoReport

\* Mutant: the way back is not in a finally clause.
LeaveOnSuccess(r) ==
  /\ OrchStep(r, "leave", "stamp") \/ OrchStep(r, "raising", "raised")
  /\ IF orch[r].repo = NoRepo \/ orch[r].at = "raising" THEN UNCHANGED cwd ELSE ChangeDir(r, orch[r].back)
  /\ UNCHANGED ranIn /\ NoReport

\* finally: os.chdir(original_cwd).
LeaveRepo(r) ==
  /\ OrchStep(r, "leave", "stamp") \/ OrchStep(r, "raising", "raised")
  /\ IF orch[r].repo = NoRepo THEN UNCHANGED cwd ELSE ChangeDir(r, orch[r].back)
  /\ UNCHANGED ranIn /\ NoReport

\* _save_report: four files named by command and second (of which the two .md are left
\* out), each first emptied and then written.
Stamp(r) ==
  /\ orch[r].at = "stamp"
  /\ orch' = [orch EXCEPT ![r].at = "report", ![r].stamp = second]
  /\ reports' = [reports EXCEPT ![<<orch[r].command, second>>] = "torn"]
  /\ UNCHANGED <<cwd, ranIn, present, second, moves, latest>>

WriteReport(r) ==
  /\ OrchStep(r, "report", "latest")
  /\ reports' = [reports EXCEPT ![<<orch[r].command, orch[r].stamp>>] = r]
  /\ UNCHANGED <<cwd, ranIn, present, second, moves, latest>>

WriteLatest(r) ==
  /\ \/ OrchStep(r, "latest", "writing") /\ latest' = [latest EXCEPT ![orch[r].command] = "torn"]
     \/ OrchStep(r, "writing", "done") /\ latest' = [latest EXCEPT ![orch[r].command] = r]
  /\ UNCHANGED <<cwd, ranIn, present, second, moves, reports>>

\* _list_runs_for_command: reports that are no JSON are passed over.
Listed(command) == {s \in 0 .. LastSecond : reports[<<command, s>>] \notin {"none", "torn"}}

OrchTick == second < LastSecond /\ second' = second + 1 /\ UNCHANGED <<cwd, orch, ranIn, present, moves, reports, latest>>

\* Bound: MaxMoves.
MoveRepo(repo) ==
  /\ moves < MaxMoves /\ moves' = moves + 1
  /\ present' = IF repo \in present THEN present \ {repo} ELSE present \cup {repo}
  /\ UNCHANGED <<cwd, orch, ranIn, second, reports, latest>>

OrchNext ==
  \/ \E r \in OrchRuns :
       \/ \E c \in Commands, repo \in Repos \cup {NoRepo} : Trigger(r, c, repo)
       \/ RememberDir(r) \/ EnterRepo(r) \/ RunStep(r) \/ EndEngine(r) \/ LeaveRepo(r)
       \/ Stamp(r) \/ WriteReport(r) \/ WriteLatest(r)
  \/ OrchTick
  \/ \E repo \in Repos : MoveRepo(repo)

OrchSpec == OrchInit /\ [][OrchNext]_orchVars

OrchState ==
  [at : {"new", "load", "error", "chdir", "steps", "leave", "raising", "raised", "stamp", "report",
         "latest", "writing", "done"},
   command : Commands \cup {"none"}, repo : Repos \cup {NoRepo}, back : Repos \cup {Home},
   stamp : 0 .. LastSecond, failed : BOOLEAN]

OrchTypeOK ==
  /\ cwd \in [OrchRuns -> Repos \cup {Home}] /\ present \subseteq Repos
  /\ orch \in [OrchRuns -> OrchState] /\ ranIn \in [OrchRuns -> SUBSET (Repos \cup {Home})]
  /\ second \in 0 .. LastSecond /\ moves \in 0 .. MaxMoves
  /\ reports \in [ReportFiles -> OrchRuns \cup {"none", "torn"}]

\* Where run r was asked to work.
Asked(r) == IF orch[r].repo = NoRepo THEN Home ELSE orch[r].repo
Inside(r) == orch[r].at \in {"steps", "leave", "raising"}

\* Each run has a process of its own, as on the command line.
OwnProcess == \A r, q \in OrchRuns : ServerOf[r] = ServerOf[q] => r = q

\* Where the process of each run is, at every step of the run.
DirInv ==
  /\ \A r \in OrchRuns :
       /\ ranIn[r] \subseteq {Asked(r)} /\ (orch[r].at \in {"new", "load"} => ranIn[r] = {})
       /\ ~Inside(r) => Cwd(r) = Home
       /\ orch[r].at \in {"chdir", "steps", "leave", "raising"} => orch[r].back = Home
       /\ orch[r].at = "chdir" => orch[r].repo # NoRepo
       /\ orch[r].at \in {"steps", "leave"} => Cwd(r) = Asked(r)
       /\ orch[r].at = "raising" => Cwd(r) \in {Home, Asked(r)}
  /\ \A p \in OrchRuns : (\A r \in OrchRuns : ServerOf[r] # p) => cwd[p] = Home

(* run(): every step of a run is executed in the repository the run was asked  *)
(* for, and a process that is between runs is back where it was started,       *)
(* however its runs ended.                                                     *)
OwnDirectory ==
  /\ \A r \in OrchRuns : ranIn[r] \subseteq {Asked(r)}
  /\ \A p \in OrchRuns : (\A r \in OrchRuns : ServerOf[r] = p => ~Inside(r)) => cwd[p] = Home

(* _save_report: the report of a run that has been saved stays listed, unless  *)
(* another run of the same command was stamped in the same second.             *)
ReportStays ==
  \A r \in OrchRuns : orch[r].at = "done" =>
    \/ reports[<<orch[r].command, orch[r].stamp>>] = r /\ orch[r].stamp \in Listed(orch[r].command)
    \/ \E q \in OrchRuns \ {r} : orch[q].command = orch[r].command /\ orch[q].stamp = orch[r].stamp
                                 /\ orch[q].at \in {"report", "latest", "writing", "done"}
===============================================================================
