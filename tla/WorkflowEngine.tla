--------------------------- MODULE WorkflowEngine ---------------------------
(***************************************************************************)
(* superpowers/workflow/engine.py: one call of WorkflowEngine.run().  The  *)
(* steps of a workflow run one after the other; a step may be skipped for  *)
(* a failure before it or for its condition, and a step that fails may     *)
(* stop the workflow or start its rollback section.                        *)
(*                                                                         *)
(* A step is what run() reads of it: on_failure and condition.  Neither is *)
(* validated before a run, so each may hold a word the engine does not     *)
(* know ("other"); an empty condition acts as "always".  What a command    *)
(* does is external: it passes, fails, or raises what _execute_step does   *)
(* not catch (Ctrl-C at an approval gate).                                 *)
(***************************************************************************)
EXTENDS Integers

CONSTANTS
  MaxSteps,       \* scenario: length of a workflow
  MaxRollback     \* scenario: length of its rollback section

ASSUME WorkflowBounds == MaxSteps \in Nat /\ MaxRollback \in Nat

VARIABLES
  steps,          \* config.steps
  undo,           \* number of config.rollback_steps
  notify,         \* config.notify_profile is set
  dry,            \* dry_run
  cur,            \* the step the loop of run() is at
  failed,
  result,         \* status of each step's entry in results; "none": no entry
  undoCur,        \* the step the loop of _run_rollback is at
  undone,         \* status of each rollback step's entry
  phase,
  commands        \* commands that were really executed: steps and rollback steps

workflow == <<steps, undo, notify, dry>>
vars == <<workflow, cur, failed, result, undoCur, undone, phase, commands>>

OnFailure  == {"abort", "continue", "rollback", "other"}
Condition  == {"always", "previous.ok", "previous.failed", "other"}
StepConfig == [on_failure : OnFailure, condition : Condition]
StepStatus == {"none", "passed", "failed", "skipped"}
Phase      == {"steps", "rollback", "notify", "returned", "raised"}

Steps == DOMAIN steps
Undo  == 1..undo

Init ==
  /\ \E n \in 0..MaxSteps :
       /\ steps \in [1..n -> StepConfig]
       /\ result = [i \in 1..n |-> "none"]
  /\ undo \in 0..MaxRollback
  /\ notify \in BOOLEAN /\ dry \in BOOLEAN
  /\ cur = 1
  /\ failed = FALSE
  /\ undoCur = 1
  /\ undone = [k \in 1..undo |-> "none"]
  /\ phase = "steps"
  /\ commands = {}

-----------------------------------------------------------------------------
(* The loop over the steps *)

\* _check_condition; results[-1] is the entry of the step before.
ConditionMet(i) ==
  LET c == steps[i].condition
  IN  \/ c = "always"
      \/ i > 1 /\ c = "other"
      \/ i > 1 /\ c = "previous.ok" /\ result[i - 1] = "passed"
      \/ i > 1 /\ c = "previous.failed" /\ result[i - 1] = "failed"

Suppressed(i) == failed /\ steps[i].on_failure # "continue"

Skip ==
  /\ phase = "steps" /\ cur \in Steps
  /\ Suppressed(cur) \/ ~ConditionMet(cur)
  /\ result' = [result EXCEPT ![cur] = "skipped"]
  /\ cur' = cur + 1
  /\ UNCHANGED <<workflow, failed, undoCur, undone, phase, commands>>

\* A step whose turn it is and that neither a failure nor its condition skips.
Runs == phase = "steps" /\ cur \in Steps /\ ~Suppressed(cur) /\ ConditionMet(cur)

\* A dry run says what it would do; gates are approved without asking.
DryStep ==
  /\ dry /\ Runs
  /\ result' = [result EXCEPT ![cur] = "passed"]
  /\ cur' = cur + 1
  /\ UNCHANGED <<workflow, failed, undoCur, undone, phase, commands>>

StepPasses ==
  /\ ~dry /\ Runs
  /\ result' = [result EXCEPT ![cur] = "passed"]
  /\ commands' = commands \cup {<<"step", cur>>}
  /\ cur' = cur + 1
  /\ UNCHANGED <<workflow, failed, undoCur, undone, phase>>

\* Mutants: a failure is not remembered; the loop goes on after the rollback
\* section was run; a step that aborts is not entered in the results.
StepFailsForgotten ==
  /\ ~dry /\ Runs
  /\ result' = [result EXCEPT ![cur] = "failed"]
  /\ commands' = commands \cup {<<"step", cur>>}
  /\ phase' = IF steps[cur].on_failure = "rollback" /\ undo > 0 THEN "rollback"
              ELSE IF steps[cur].on_failure = "abort" THEN "notify" ELSE "steps"
  /\ cur' = cur + 1
  /\ UNCHANGED <<workflow, failed, undoCur, undone>>

StepFails ==
  /\ ~dry /\ Runs
  /\ result' = [result EXCEPT ![cur] = "failed"]
  /\ commands' = commands \cup {<<"step", cur>>}
  /\ failed' = TRUE
  /\ phase' = IF steps[cur].on_failure = "rollback" /\ undo > 0 THEN "rollback"
              ELSE IF steps[cur].on_failure = "abort" THEN "notify" ELSE "steps"
  /\ cur' = cur + 1
  /\ UNCHANGED <<workflow, undoCur, undone>>

\* An exception that _execute_step does not catch leaves run(): the results
\* are lost, and neither the rollback section nor _notify is reached.
StepRaises ==
  /\ ~dry /\ Runs
  /\ commands' = commands \cup {<<"step", cur>>}
  /\ phase' = "raised"
  /\ UNCHANGED <<workflow, cur, failed, result, undoCur, undone>>

EndSteps ==
  /\ phase = "steps" /\ cur \notin Steps
  /\ phase' = "notify"
  /\ UNCHANGED <<workflow, cur, failed, result, undoCur, undone, commands>>

-----------------------------------------------------------------------------
(* The rollback section and the notification *)

\* Mutant: the rollback section ends before its last step.
RollbackShort ==
  /\ phase = "rollback" /\ undoCur < undo
  /\ \E s \in {"passed", "failed"} : undone' = [undone EXCEPT ![undoCur] = s]
  /\ commands' = commands \cup {<<"rollback", undoCur>>}
  /\ undoCur' = undoCur + 1
  /\ phase' = IF undoCur' = undo THEN "notify" ELSE phase
  /\ UNCHANGED <<workflow, cur, failed, result>>

\* _run_rollback executes for real, whatever fails; dry_run is not handed on.
Rollback ==
  /\ phase = "rollback" /\ undoCur <= undo
  /\ \E s \in {"passed", "failed"} : undone' = [undone EXCEPT ![undoCur] = s]
  /\ commands' = commands \cup {<<"rollback", undoCur>>}
  /\ undoCur' = undoCur + 1
  /\ UNCHANGED <<workflow, cur, failed, result, phase>>

RollbackRaises ==
  /\ phase = "rollback" /\ undoCur <= undo
  /\ commands' = commands \cup {<<"rollback", undoCur>>}
  /\ phase' = "raised"
  /\ UNCHANGED <<workflow, cur, failed, result, undoCur, undone>>

EndRollback ==
  /\ phase = "rollback" /\ undoCur > undo
  /\ phase' = "notify"
  /\ UNCHANGED <<workflow, cur, failed, result, undoCur, undone, commands>>

\* What _notify does not catch leaves run() with its results.
Notify ==
  /\ phase = "notify"
  /\ phase' = "returned" \/ (notify /\ ~dry /\ phase' = "raised")
  /\ UNCHANGED <<workflow, cur, failed, result, undoCur, undone, commands>>

-----------------------------------------------------------------------------
Next ==
  \/ Skip \/ DryStep \/ StepPasses \/ StepFails \/ StepRaises \/ EndSteps
  \/ Rollback \/ RollbackRaises \/ EndRollback
  \/ Notify

Spec == Init /\ [][Next]_vars

-----------------------------------------------------------------------------
(* Properties *)

Ran == {"passed", "failed"}

TypeOK ==
  /\ \E n \in 0..MaxSteps : steps \in [1..n -> StepConfig] /\ cur \in 1..(n + 1)
  /\ undo \in 0..MaxRollback /\ undoCur \in 1..(undo + 1)
  /\ notify \in BOOLEAN /\ dry \in BOOLEAN /\ failed \in BOOLEAN
  /\ result \in [Steps -> StepStatus]
  /\ undone \in [Undo -> StepStatus]
  /\ phase \in Phase
  /\ commands \subseteq ({"step"} \X Steps) \cup ({"rollback"} \X Undo)

\* The failed step that stops the loop of run().
Stopper(k) ==
  /\ result[k] = "failed"
  /\ steps[k].on_failure = "abort" \/ (steps[k].on_failure = "rollback" /\ undo > 0)

\* After a failure only steps that say on_failure: continue are executed, and
\* none after a failure that aborts or starts the rollback section.
AfterFailure ==
  \A k, i \in Steps :
     (k < i /\ result[k] = "failed" /\ result[i] \in Ran) =>
        steps[i].on_failure = "continue" /\ ~Stopper(k)

\* Commands of the rollback section are executed only behind a failed step that
\* asks for it, and when run() has ended the loop without an exception, all of
\* them have been.
RollbackWhole ==
  LET asked == \E k \in Steps : result[k] = "failed" /\ steps[k].on_failure = "rollback"
  IN  /\ \A k \in Undo : <<"rollback", k>> \in commands => asked
      /\ (phase \in {"notify", "returned"} /\ asked) =>
            \A k \in Undo : <<"rollback", k>> \in commands /\ undone[k] \in Ran

\* run() drops no step silently: a step without an entry in the results comes
\* behind a failed one that stops the workflow.
Accounted ==
  phase \in {"notify", "returned"} =>
     \A i \in Steps : result[i] = "none" => \E k \in 1..(i - 1) : Stopper(k)

\* A dry run executes nothing, not even a rollback section, which is handed no
\* dry_run: in a dry run nothing fails.
DryPure == dry => commands = {}

\* Only tolerant steps run after a failure, the rollback section runs as a whole
\* or not at all, no step is dropped silently, and a dry run executes nothing.
WorkflowSafe == TypeOK /\ AfterFailure /\ RollbackWhole /\ Accounted /\ DryPure

\* "continue (proceed)" (docs/reference/CONFIGURATION.md:324), with the example
\* of docs/reference/CUSTOMIZATION.md:430: behind a failed step that says
\* continue, a step for that case is executed.
ContinueProceeds ==
  \A i \in Steps :
     (/\ i > 1 /\ result[i - 1] = "failed" /\ steps[i - 1].on_failure = "continue"
      /\ steps[i].condition = "previous.failed") => result[i] # "skipped"

\* Inductive strengthening of the above: the entries are those of the steps
\* before cur, and the loop is left at a stopper or at the end.
WfInv ==
  /\ AfterFailure /\ RollbackWhole /\ Accounted /\ DryPure
  /\ \A i \in Steps : (result[i] # "none") <=> (i < cur)
  /\ (\E k \in Steps : result[k] = "failed") => failed /\ ~dry
  /\ phase = "steps" => (\A k \in Steps : ~Stopper(k)) /\ undoCur = 1
  /\ phase = "rollback" => \E k \in Steps : Stopper(k) /\ steps[k].on_failure = "rollback"
  /\ \A k \in Undo : k < undoCur => <<"rollback", k>> \in commands /\ undone[k] \in Ran
=============================================================================
