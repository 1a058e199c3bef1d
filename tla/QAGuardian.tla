------------------------------ MODULE QAGuardian ------------------------------
(* QAGuardian.run_all (superpowers/qa_guardian.py): twelve checks, most of which *)
(* read every Python file again while its owner may be editing.  A guardian may  *)
(* be run again.  What the patterns match is data: a file has a set of smells.   *)
EXTENDS Naturals, Sequences, FiniteSets, SequencesExt

CONSTANTS
  PyFiles,       \* the Python files, in any order
  FileContents,      \* what a file may hold: [smells, parses], or Absent
  Absent,
  TestOutcomes,  \* what check_test_suite may find, "nothing" included
  MaxEdits, MaxRuns  \* bounds: edits during the behaviour, runs

\* The checks in the order of run_all.
Checks == <<"shell_true", "bare_except", "hardcoded_secret", "eval_exec", "long_file", "test_coverage_gap",
            "duplicate_function", "todo_count", "test_suite", "unused_import", "stub_file", "dead_module">>
\* Checks of the project as a whole, which here have one finding, a severity, or none.
ProjectChecks == {"test_coverage_gap", "todo_count", "test_suite", "dead_module"}
Smells == ToSet(Checks) \ ProjectChecks

ASSUME QAAssumption ==
  /\ \A c \in FileContents : c.smells \subseteq Smells /\ c.parses \in {"yes", "no", "raises"}
  /\ Absent \notin FileContents /\ TestOutcomes \subseteq {"critical", "warning", "info", "nothing"}
  /\ MaxEdits \in Nat /\ MaxRuns \in Nat

VARIABLES
  source,      \* file -> its content
  qa,          \* [at, check, unread]: the run, the check it is at, files it has not read
  findings,    \* _findings: <<check, file>>
  answer,      \* the report: [findings, clean], while a run is saved and reported
  saved,       \* the qaRuns whose reports latest.json and the newest history file hold
  edits, qaRuns,
  seen,        \* history: file -> the contents it has had during this run
  cutShort     \* history: the checks of this run that an error ended

qaVars == <<source, qa, findings, answer, saved, edits, qaRuns, seen, cutShort>>

NoAnswer == [findings |-> {}, clean |-> FALSE]

QAInit ==
  /\ source \in [PyFiles -> FileContents \cup {Absent}]
  /\ qa = [at |-> "idle", check |-> 0, unread |-> {}]
  /\ findings = {} /\ answer = NoAnswer /\ saved = [latest |-> 0, history |-> 0]
  /\ edits = 0 /\ qaRuns = 0 /\ seen = [f \in PyFiles |-> {}] /\ cutShort = {}

BeginChecks ==
  /\ qa.at = "idle" /\ qaRuns < MaxRuns /\ qaRuns' = qaRuns + 1
  /\ qa' = [at |-> "list", check |-> 1, unread |-> {}]
  /\ answer' = NoAnswer /\ seen' = [f \in PyFiles |-> {source[f]}] /\ cutShort' = {}

\* Mutant: the findings of the run before are kept.
StartRunKeeps == BeginChecks /\ UNCHANGED <<source, findings, saved, edits>>

StartRun == BeginChecks /\ findings' = {} /\ UNCHANGED <<source, saved, edits>>

\* _python_files: every check lists the files anew.
ListFiles ==
  /\ qa.at = "list" /\ Checks[qa.check] \notin ProjectChecks
  /\ qa' = [qa EXCEPT !.at = "read", !.unread = {f \in PyFiles : source[f] # Absent}]
  /\ UNCHANGED <<source, findings, answer, saved, edits, qaRuns, seen, cutShort>>

NextCheck == qa' = [at |-> IF qa.check < Len(Checks) THEN "list" ELSE "report", check |-> qa.check + 1, unread |-> {}]

\* Checks that read the syntax tree pass over a file without one.  An error that is not a
\* SyntaxError ends the check, and run_all goes on to the next.
OnTree == {"duplicate_function", "unused_import"}

ReadFile(f) ==
  LET check == Checks[qa.check] IN
  /\ qa.at = "read" /\ f \in qa.unread
  /\ IF source[f] # Absent /\ check \in OnTree /\ source[f].parses = "raises"
     THEN NextCheck /\ cutShort' = cutShort \cup {check} /\ UNCHANGED findings
     ELSE /\ qa' = [qa EXCEPT !.unread = @ \ {f}]
          /\ findings' = IF source[f] # Absent /\ check \in source[f].smells /\ (check \in OnTree => source[f].parses = "yes")
                         THEN findings \cup {<<check, f>>} ELSE findings
          /\ UNCHANGED cutShort
  /\ UNCHANGED <<source, answer, saved, edits, qaRuns, seen>>

EndCheck ==
  /\ qa.at = "read" /\ qa.unread = {} /\ NextCheck
  /\ UNCHANGED <<source, findings, answer, saved, edits, qaRuns, seen, cutShort>>

\* check_test_suite finds nothing when pytest cannot be executed for another reason than a
\* missing file.  The other three count or compare files, and only inform.
ProjectCheck ==
  LET check == Checks[qa.check] IN
  /\ qa.at = "list" /\ check \in ProjectChecks /\ NextCheck
  /\ \E outcome \in IF check = "test_suite" THEN TestOutcomes ELSE {"info", "nothing"} :
       findings' = IF outcome = "nothing" THEN findings ELSE findings \cup {<<check, outcome>>}
  /\ UNCHANGED <<source, answer, saved, edits, qaRuns, seen, cutShort>>

Severity(finding) ==
  CASE finding[1] \in {"hardcoded_secret", "eval_exec"} -> "critical"
    [] finding[1] \in {"shell_true", "bare_except", "long_file", "duplicate_function"} -> "warning"
    [] finding[1] \in ProjectChecks -> finding[2]
    [] OTHER -> "info"

IsClean(found) == \A x \in found : Severity(x) = "info"

MakeReport ==
  /\ qa.at = "report" /\ qa' = [qa EXCEPT !.at = "save"]
  /\ answer' = [findings |-> findings, clean |-> IsClean(findings)]
  /\ UNCHANGED <<source, findings, saved, edits, qaRuns, seen, cutShort>>

\* save_report: latest.json, then the history; an error is only printed.
SaveQA ==
  /\ \/ qa.at = "save" /\ qa' = [qa EXCEPT !.at = "history"] /\ saved' = [saved EXCEPT !.latest = qaRuns]
     \/ qa.at = "history" /\ qa' = [qa EXCEPT !.at = "idle"] /\ saved' = [saved EXCEPT !.history = qaRuns]
     \/ qa.at \in {"save", "history"} /\ qa' = [qa EXCEPT !.at = "idle"] /\ UNCHANGED saved
  /\ UNCHANGED <<source, findings, answer, edits, qaRuns, seen, cutShort>>

\* The owner edits, adds or removes a file.  Bound: MaxEdits.
EditFile(f) ==
  /\ edits < MaxEdits /\ edits' = edits + 1
  /\ \E content \in (FileContents \cup {Absent}) \ {source[f]} :
       /\ source' = [source EXCEPT ![f] = content]
       /\ seen' = [seen EXCEPT ![f] = @ \cup {content}]
  /\ UNCHANGED <<qa, findings, answer, saved, qaRuns, cutShort>>

QANext ==
  \/ StartRun \/ ListFiles \/ EndCheck \/ ProjectCheck \/ MakeReport \/ SaveQA
  \/ \E f \in PyFiles : ReadFile(f) \/ EditFile(f)

QASpec == QAInit /\ [][QANext]_qaVars

QAFindings == (Smells \X PyFiles) \cup (ProjectChecks \X (TestOutcomes \cup {"info"}))

QATypeOK ==
  /\ source \in [PyFiles -> FileContents \cup {Absent}]
  /\ qa \in [at : {"idle", "list", "read", "report", "save", "history"}, check : 0 .. Len(Checks) + 1,
             unread : SUBSET PyFiles]
  /\ findings \subseteq QAFindings /\ answer \in [findings : SUBSET QAFindings, clean : BOOLEAN]
  /\ seen \in [PyFiles -> SUBSET (FileContents \cup {Absent})] /\ cutShort \subseteq OnTree
  /\ edits \in 0..MaxEdits /\ qaRuns \in 0..MaxRuns /\ saved \in [latest : 0..qaRuns, history : 0..qaRuns]

\* A check reports file f when it reads this content.
Reported(check, content) ==
  content # Absent /\ check \in content.smells /\ (check \in OnTree => content.parses = "yes")

\* The checks that are over for a file: the earlier ones, and the one that has read it.
OverFor(i, f) == i < qa.check \/ (i = qa.check /\ qa.at = "read" /\ f \notin qa.unread)

\* During a run the findings are those of the checks that are over: of what they may have
\* read, and of all that was there throughout (run_all).
QAInv ==
  /\ qa.at \in {"list", "read"} => qa.check \in 1 .. Len(Checks)
  /\ qa.at \in {"report", "save", "history"} => qa.check = Len(Checks) + 1
  /\ qa.at \in {"save", "history"} => answer.findings = findings
  /\ qa.at # "idle" => \A f \in PyFiles : source[f] \in seen[f]
  /\ \A check \in Smells, f \in PyFiles :
       <<check, f>> \in findings => \E content \in seen[f] : Reported(check, content)
  /\ qa.at # "idle" => \A i \in 1 .. Len(Checks), f \in PyFiles :
       Checks[i] \in Smells \ cutShort /\ OverFor(i, f) /\ (\A content \in seen[f] : Reported(Checks[i], content))
         => <<Checks[i], f>> \in findings

(* run_all and save_report: while the owner edits, a report names every smell   *)
(* that its file had during the whole run, unless an error ended that check,   *)
(* and no smell that the file had at no time of this run.                      *)
ReportTrue ==
  qa.at \in {"save", "history"} =>
    \A check \in Smells, f \in PyFiles :
      /\ (\A content \in seen[f] : Reported(check, content)) /\ check \notin cutShort => <<check, f>> \in answer.findings
      /\ <<check, f>> \in answer.findings => \E content \in seen[f] : Reported(check, content)
==============================================================================
