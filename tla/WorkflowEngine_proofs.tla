----------------------- MODULE WorkflowEngine_proofs -----------------------
(***************************************************************************)
(* WorkflowEngine for workflows and rollback sections of any length.       *)
(***************************************************************************)
EXTENDS WorkflowEngine, TLAPS

\* Every step keeps the types.
LEMMA TypeStep == TypeOK /\ [Next]_vars => TypeOK'
<1> SUFFICES ASSUME TypeOK, [Next]_vars PROVE TypeOK'
  OBVIOUS
<1>1. PICK n \in 0..MaxSteps : steps \in [1..n -> StepConfig] /\ cur \in 1..(n + 1)
  BY DEF TypeOK
<1>2. Steps = 1..n /\ n \in Nat /\ undo \in Nat
  BY <1>1, WorkflowBounds DEF Steps, TypeOK
<1> SUFFICES /\ UNCHANGED workflow /\ cur' \in 1..(n + 1) /\ undoCur' \in 1..(undo + 1)
             /\ failed' \in BOOLEAN
             /\ result' \in [Steps -> StepStatus] /\ undone' \in [Undo -> StepStatus]
             /\ phase' \in Phase
             /\ commands' \subseteq ({"step"} \X Steps) \cup ({"rollback"} \X Undo)
  BY <1>1 DEF TypeOK, workflow, Steps, Undo
<1> USE DEF TypeOK, StepStatus, Phase
<1>3. CASE Skip
  BY <1>1, <1>2, <1>3 DEF Skip
<1>4. CASE DryStep
  BY <1>1, <1>2, <1>4 DEF DryStep, Runs
<1>5. CASE StepPasses
  BY <1>1, <1>2, <1>5 DEF StepPasses, Runs
<1>6. CASE StepFails
  BY <1>1, <1>2, <1>6 DEF StepFails, Runs
<1>7. CASE StepRaises
  BY <1>1, <1>2, <1>7 DEF StepRaises, Runs
<1>8. CASE Rollback
  BY <1>1, <1>2, <1>8 DEF Rollback, Undo
<1>9. CASE RollbackRaises
  BY <1>1, <1>2, <1>9 DEF RollbackRaises, Undo
<1>10. CASE EndSteps \/ EndRollback \/ Notify
  BY <1>1, <1>2, <1>10 DEF EndSteps, EndRollback, Notify
<1>11. CASE UNCHANGED vars
  BY <1>1, <1>2, <1>11 DEF vars
<1> QED BY <1>3, <1>4, <1>5, <1>6, <1>7, <1>8, <1>9, <1>10, <1>11 DEF Next

\* The types of all variables, in every reachable state.
THEOREM TypeCorrect == Spec => []TypeOK
<1>1. Init => TypeOK
  <2> SUFFICES ASSUME Init PROVE TypeOK
    OBVIOUS
  <2>1. PICK n \in 0..MaxSteps : steps \in [1..n -> StepConfig]
                                 /\ result = [i \in 1..n |-> "none"]
    BY DEF Init
  <2>2. n \in Nat /\ Steps = 1..n /\ cur \in 1..(n + 1)
    BY <2>1, WorkflowBounds DEF Init, Steps
  <2>3. undo \in Nat /\ undoCur \in 1..(undo + 1)
    BY WorkflowBounds DEF Init
  <2> QED BY <2>1, <2>2, <2>3 DEF Init, TypeOK, StepStatus, Phase, Undo
<1> QED BY <1>1, TypeStep, PTL DEF Spec

-----------------------------------------------------------------------------
\* The parts of WfInv about the loop over the steps.
LoopInv ==
  /\ AfterFailure /\ Accounted
  /\ \A i \in Steps : (result[i] # "none") <=> (i < cur)
  /\ (\E k \in Steps : result[k] = "failed") => failed /\ ~dry
  /\ phase = "steps" => (\A k \in Steps : ~Stopper(k)) /\ undoCur = 1

\* The parts about the rollback section and what was executed.
UndoInv ==
  /\ RollbackWhole /\ DryPure
  /\ phase = "rollback" => \E k \in Steps : Stopper(k) /\ steps[k].on_failure = "rollback"
  /\ \A k \in Undo : k < undoCur => <<"rollback", k>> \in commands /\ undone[k] \in Ran

LEMMA WfParts == WfInv <=> LoopInv /\ UndoInv
BY DEF WfInv, LoopInv, UndoInv

\* What entering a result s for the current step c changes, and what it keeps.
Entered(c, s) ==
  /\ \A i \in Steps : (result'[i] # "none") <=> (i < cur')
  /\ \A i \in Steps \ {c} : result'[i] = result[i]
  /\ \A i \in Steps \ {c} : Stopper(i)' <=> Stopper(i)
  /\ result[c] = "none" /\ result'[c] = s
  /\ \A i \in Steps : i < cur' <=> i < c \/ i = c

LEMMA EntryOrder ==
  ASSUME TypeOK, LoopInv, UNCHANGED <<steps, undo>>, NEW c \in Steps, c = cur, cur' = c + 1,
         NEW s \in {"passed", "failed", "skipped"}, result' = [result EXCEPT ![c] = s]
  PROVE  Entered(c, s)
BY WorkflowBounds DEF TypeOK, LoopInv, Steps, Stopper, Entered

\* Every step keeps the loop's part.
LEMMA LoopStep == TypeOK /\ WfInv /\ [Next]_vars => LoopInv'
<1> SUFFICES ASSUME TypeOK, WfInv, [Next]_vars PROVE LoopInv'
  OBVIOUS
<1>1. PICK n \in 0..MaxSteps : steps \in [1..n -> StepConfig] /\ cur \in 1..(n + 1)
  BY DEF TypeOK
<1>2. Steps = 1..n /\ n \in Nat /\ LoopInv
  BY <1>1, WorkflowBounds, WfParts DEF Steps
<1>3. CASE Skip
  <2> PICK c \in Steps : c = cur
    BY <1>3 DEF Skip
  <2>1. /\ UNCHANGED <<steps, undo, dry, failed, undoCur, phase>>
        /\ phase = "steps"
    BY <1>3 DEF Skip, workflow
  <2>2. cur' = c + 1 /\ result' = [result EXCEPT ![c] = "skipped"]
    BY <1>3 DEF Skip
  <2>3. Entered(c, "skipped") /\ Steps' = Steps
    BY <1>2, <2>1, <2>2, EntryOrder DEF Steps
  <2>4. ~Stopper(c)'
    BY <2>2, <2>3 DEF Stopper, Entered
  <2> QED BY <1>2, <2>1, <2>2, <2>3, <2>4
          DEF LoopInv, AfterFailure, Accounted, Ran, Entered
<1>4. CASE DryStep \/ StepPasses
  <2> PICK c \in Steps : c = cur
    BY <1>4 DEF DryStep, StepPasses, Runs
  <2>1. /\ UNCHANGED <<steps, undo, dry, failed, undoCur, phase>>
        /\ phase = "steps"
    BY <1>4 DEF DryStep, StepPasses, Runs, workflow
  <2>2. cur' = c + 1 /\ result' = [result EXCEPT ![c] = "passed"] /\ ~Suppressed(c)
    BY <1>4 DEF DryStep, StepPasses, Runs
  <2>3. Entered(c, "passed") /\ Steps' = Steps
    BY <1>2, <2>1, <2>2, EntryOrder DEF Steps
  <2>4. ~Stopper(c)'
    BY <2>2, <2>3 DEF Stopper, Entered
  <2> QED BY <1>2, <2>1, <2>2, <2>3, <2>4
          DEF LoopInv, AfterFailure, Accounted, Ran, Suppressed, Entered
<1>5. CASE StepFails
  <2> PICK c \in Steps : c = cur
    BY <1>5 DEF StepFails, Runs
  <2>1. UNCHANGED <<steps, undo, dry, undoCur>> /\ phase = "steps" /\ ~dry
    BY <1>5 DEF StepFails, Runs, workflow
  <2>2. cur' = c + 1 /\ result' = [result EXCEPT ![c] = "failed"] /\ ~Suppressed(c)
    BY <1>5 DEF StepFails, Runs
  <2>3. Entered(c, "failed") /\ Steps' = Steps
    BY <1>2, <2>1, <2>2, EntryOrder DEF Steps
  <2>4. /\ failed' = TRUE /\ (phase' = "steps" => ~Stopper(c)')
        /\ phase' = "notify" => Stopper(c)'
        /\ phase' \in {"steps", "rollback", "notify"}
    BY <1>5, <2>1, <2>3 DEF StepFails, Stopper, Entered
  <2>5. AfterFailure'
    BY <1>2, <2>1, <2>2, <2>3 DEF LoopInv, AfterFailure, Suppressed, Ran, Entered
  <2>6. Accounted'
    BY <1>1, <1>2, <2>1, <2>2, <2>3, <2>4 DEF Accounted, Entered
  <2>7. phase' = "steps" => (\A k \in Steps : ~Stopper(k)') /\ undoCur' = 1
    BY <1>2, <2>1, <2>3, <2>4 DEF LoopInv, Entered
  <2> QED BY <2>1, <2>3, <2>4, <2>5, <2>6, <2>7 DEF LoopInv, Entered
<1>6. CASE EndSteps
  <2>1. UNCHANGED <<workflow, cur, failed, result>> /\ phase = "steps" /\ phase' = "notify"
    BY <1>6 DEF EndSteps
  <2>2. \A i \in Steps : result[i] # "none"
    BY <1>1, <1>2, <1>6 DEF EndSteps, LoopInv
  <2> QED BY <1>2, <2>1, <2>2
          DEF LoopInv, AfterFailure, Accounted, Stopper, workflow, Steps, Ran
<1>7. CASE StepRaises \/ Rollback \/ RollbackRaises \/ Notify \/ UNCHANGED vars
  <2>1. UNCHANGED <<workflow, cur, failed, result>>
        /\ (phase' = phase \/ phase' = "raised" \/ (phase = "notify" /\ phase' = "returned"))
        /\ (phase' = "steps" => undoCur' = undoCur)
    BY <1>7 DEF StepRaises, Rollback, RollbackRaises, Notify, vars
  <2> QED BY <1>2, <2>1 DEF LoopInv, AfterFailure, Accounted, Stopper, workflow, Steps, Ran
<1>8. CASE EndRollback
  <2>1. UNCHANGED <<workflow, cur, failed, result>> /\ phase = "rollback" /\ phase' = "notify"
    BY <1>8 DEF EndRollback
  <2>2. PICK k \in Steps : Stopper(k)
    BY <2>1, WfParts DEF UndoInv
  <2>3. \A i \in Steps : result[i] = "none" => k < i
    BY <1>1, <1>2, <2>2 DEF LoopInv, Stopper
  <2> QED BY <1>2, <2>1, <2>2, <2>3
          DEF LoopInv, AfterFailure, Accounted, Stopper, workflow, Steps, Ran
<1> QED BY <1>3, <1>4, <1>5, <1>6, <1>7, <1>8 DEF Next

\* Every step keeps the rollback section's part.
LEMMA UndoStep == TypeOK /\ WfInv /\ [Next]_vars => UndoInv'
<1> SUFFICES ASSUME TypeOK, WfInv, [Next]_vars PROVE UndoInv'
  OBVIOUS
<1> DEFINE Asked == \E k \in Steps : result[k] = "failed" /\ steps[k].on_failure = "rollback"
<1>1. PICK n \in 0..MaxSteps : steps \in [1..n -> StepConfig] /\ cur \in 1..(n + 1)
  BY DEF TypeOK
<1>2. Steps = 1..n /\ n \in Nat /\ undo \in Nat /\ LoopInv /\ UndoInv
  BY <1>1, WorkflowBounds, WfParts DEF Steps, TypeOK
<1>3. phase = "steps" /\ undo > 0 => ~Asked
  BY <1>2 DEF LoopInv, Stopper
<1>4. \A i \in Steps : <<"step", i>> \notin {<<"rollback", k>> : k \in Undo}
  OBVIOUS
<1>5. CASE Skip \/ DryStep \/ StepPasses
  <2> PICK c \in Steps : c = cur
    BY <1>5 DEF Skip, DryStep, StepPasses, Runs
  <2>1. /\ UNCHANGED <<steps, undo, dry, undoCur, undone, phase>>
        /\ phase = "steps" /\ cur' = c + 1
        /\ commands' = commands \/ (~dry /\ commands' = commands \cup {<<"step", c>>})
    BY <1>5 DEF Skip, DryStep, StepPasses, Runs, workflow
  <2>2. PICK s \in {"skipped", "passed"} : result' = [result EXCEPT ![c] = s]
    BY <1>5 DEF Skip, DryStep, StepPasses
  <2>3. Entered(c, s) /\ Steps' = Steps /\ Undo' = Undo
    BY <1>2, <2>1, <2>2, EntryOrder DEF Steps, Undo
  <2>4. \A k \in Undo : <<"rollback", k>> \in commands' <=> <<"rollback", k>> \in commands
    BY <2>1
  <2>5. \A k \in Steps : result[k] = "failed" => result'[k] = "failed"
    BY <2>2, <2>3 DEF Entered
  <2> QED BY <1>2, <2>1, <2>3, <2>4, <2>5 DEF UndoInv, RollbackWhole, DryPure
<1>6. CASE StepFails
  <2> PICK c \in Steps : c = cur
    BY <1>6 DEF StepFails, Runs
  <2>1. /\ UNCHANGED <<steps, undo, dry, undoCur, undone>>
        /\ phase = "steps" /\ ~dry
        /\ commands' = commands \cup {<<"step", c>>} /\ cur' = c + 1
        /\ result' = [result EXCEPT ![c] = "failed"]
    BY <1>6 DEF StepFails, Runs, workflow
  <2>2. Entered(c, "failed") /\ Steps' = Steps /\ Undo' = Undo
    BY <1>2, <2>1, EntryOrder DEF Steps, Undo
  <2>3. \A k \in Steps : result[k] = "failed" => result'[k] = "failed"
    BY <2>2 DEF Entered
  <2>4. \A k \in Undo : <<"rollback", k>> \in commands' <=> <<"rollback", k>> \in commands
    BY <2>1
  <2>5. phase' = "rollback" => Stopper(c)' /\ steps'[c].on_failure = "rollback"
    BY <1>2, <1>6, <2>1, <2>2 DEF StepFails, Stopper, Entered
  <2>6. phase' = "notify" /\ undo > 0 => ~Asked'
    BY <1>3, <1>6, <2>1, <2>2 DEF StepFails, Entered
  <2>7. phase' # "returned" /\ (undo = 0 => Undo = {})
    BY <1>6 DEF StepFails, Undo
  <2>8. RollbackWhole'
    BY <1>2, <2>1, <2>2, <2>3, <2>4, <2>6, <2>7 DEF UndoInv, RollbackWhole
  <2> QED BY <1>2, <2>1, <2>2, <2>4, <2>5, <2>8 DEF UndoInv, DryPure
<1>7. CASE EndSteps \/ StepRaises
  <2>1. /\ UNCHANGED <<workflow, result, undoCur, undone>> /\ phase = "steps"
        /\ phase' \in {"notify", "raised"}
        /\ commands' = commands \/ (~dry /\ commands' = commands \cup {<<"step", cur>>})
    BY <1>7 DEF EndSteps, StepRaises, Runs
  <2>2. \A k \in Undo : <<"rollback", k>> \in commands' <=> <<"rollback", k>> \in commands
    BY <2>1
  <2> QED BY <1>2, <1>3, <2>1, <2>2 DEF UndoInv, RollbackWhole, DryPure, workflow, Undo, Steps
<1>8. CASE Rollback \/ RollbackRaises
  <2>1. /\ UNCHANGED <<workflow, result>> /\ phase = "rollback" /\ undoCur \in Undo
        /\ commands' = commands \cup {<<"rollback", undoCur>>}
        /\ phase' \in {"rollback", "raised"}
    BY <1>2, <1>8 DEF Rollback, RollbackRaises, Undo, TypeOK
  <2>2. \/ undoCur' = undoCur /\ undone' = undone
        \/ /\ undoCur' = undoCur + 1
           /\ \E s \in Ran : undone' = [undone EXCEPT ![undoCur] = s]
    BY <1>8 DEF Rollback, RollbackRaises, Ran
  <2>3. PICK j \in Steps : Stopper(j) /\ steps[j].on_failure = "rollback"
    BY <1>2, <2>1 DEF UndoInv
  <2>4. ~dry /\ Asked
    BY <1>2, <2>3 DEF LoopInv, Stopper
  <2>5. \A k \in Undo : k < undoCur' => <<"rollback", k>> \in commands' /\ undone'[k] \in Ran
    BY <1>2, <2>1, <2>2 DEF UndoInv, TypeOK, Undo
  <2>6. Stopper(j)'
    BY <2>1, <2>3 DEF Stopper, workflow
  <2> QED BY <1>2, <2>1, <2>3, <2>4, <2>5, <2>6
          DEF UndoInv, RollbackWhole, DryPure, workflow, Undo, Steps
<1>9. CASE EndRollback
  <2>1. UNCHANGED <<workflow, result, undoCur, undone, commands>> /\ undoCur > undo
    BY <1>9 DEF EndRollback
  <2>2. \A k \in Undo : <<"rollback", k>> \in commands /\ undone[k] \in Ran
    <3>1. undoCur \in Int
      BY <1>2 DEF TypeOK
    <3>2. \A k \in Undo : k < undoCur
      BY <1>2, <2>1, <3>1 DEF Undo
    <3> QED BY <1>2, <3>2 DEF UndoInv
  <2>3. phase' = "notify"
    BY <1>9 DEF EndRollback
  <2> QED BY <1>2, <2>1, <2>2, <2>3 DEF UndoInv, RollbackWhole, DryPure, workflow, Undo, Steps
<1>10. CASE Notify \/ UNCHANGED vars
  <2>1. /\ UNCHANGED <<workflow, result, undoCur, undone, commands>>
        /\ phase' = phase \/ (phase = "notify" /\ phase' \in {"returned", "raised"})
    BY <1>10 DEF Notify, vars
  <2> QED BY <1>2, <2>1 DEF UndoInv, RollbackWhole, DryPure, Stopper, workflow, Undo, Steps
<1> QED BY <1>5, <1>6, <1>7, <1>8, <1>9, <1>10 DEF Next

-----------------------------------------------------------------------------
\* WfInv holds in every reachable state, whatever the workflow.
THEOREM WorkflowInvariant == Spec => []WfInv
<1>1. Init => WfInv
  <2> SUFFICES ASSUME Init PROVE WfInv
    OBVIOUS
  <2>1. PICK n \in 0..MaxSteps : steps \in [1..n -> StepConfig]
                                 /\ result = [i \in 1..n |-> "none"]
    BY DEF Init
  <2>2. Steps = 1..n /\ n \in Nat
    BY <2>1, WorkflowBounds DEF Steps
  <2> QED BY <2>1, <2>2 DEF Init, WfInv, AfterFailure, RollbackWhole, Accounted, DryPure,
          Stopper, Ran, Undo
<1>2. TypeOK /\ WfInv /\ [Next]_vars => WfInv'
  BY LoopStep, UndoStep, WfParts, PTL
<1> QED BY <1>1, <1>2, TypeCorrect, PTL DEF Spec

\* After a failure only tolerant steps run, and nothing runs behind a stopper.
THEOREM FailureStops == Spec => []AfterFailure
<1>1. WfInv => AfterFailure
  BY DEF WfInv
<1> QED BY <1>1, WorkflowInvariant, PTL

\* A rollback section runs only when it is asked for, and then to its end.
THEOREM RollbackRuns == Spec => []RollbackWhole
<1>1. WfInv => RollbackWhole
  BY DEF WfInv
<1> QED BY <1>1, WorkflowInvariant, PTL

\* A dry run executes nothing.
THEOREM DryRun == Spec => []DryPure
<1>1. WfInv => DryPure
  BY DEF WfInv
<1> QED BY <1>1, WorkflowInvariant, PTL

\* Only tolerant steps run after a failure, the rollback section is whole or
\* absent, no step is dropped silently, and a dry run executes nothing.
THEOREM WorkflowSafety == Spec => []WorkflowSafe
<1>1. WfInv /\ TypeOK => WorkflowSafe
  BY DEF WfInv, WorkflowSafe
<1> QED BY <1>1, WorkflowInvariant, TypeCorrect, PTL
=============================================================================
