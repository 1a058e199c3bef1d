------------------------- MODULE DAGExecutor_proofs -------------------------
(***************************************************************************)
(* Safety of DAGExecutor for any number of nodes, resources, workers and   *)
(* calls.  The inductive invariant is IInv of the specification.           *)
(***************************************************************************)
EXTENDS DAGExecutor, FiniteSetTheorems, TLAPS

\* _mark_skipped touches only nodes that are neither done nor failed.
LEMMA ReachedLive == ASSUME NEW S PROVE Reached(S) \subseteq Live
BY DEF Reached

\* _mark_skipped stays within every closed set of live nodes.
LEMMA ReachedWithin ==
  ASSUME NEW S, NEW C \in SUBSET Live, SkipClosed(S, C)
  PROVE  Reached(S) \subseteq C
BY DEF Reached

\* What a call of _mark_skipped changes, whatever its arguments.
LEMMA MarkSkippedEffect ==
  ASSUME NEW S, TypeOK, MarkSkipped(S)
  PROVE  /\ status' \in [Nodes -> Status]
         /\ pending' \subseteq pending
         /\ \A n \in Nodes : status[n] \in {"done", "failed"} => status'[n] = status[n]
         /\ \A n \in Nodes : status'[n] \in {status[n], "skipped"}
         /\ \A n \in Nodes : status'[n] # status[n] => n \in Reached(S)
BY ReachedLive DEF MarkSkipped, TypeOK, Live, Status

-----------------------------------------------------------------------------
LEMMA TypeInit == Init => TypeOK
BY RunsAssumption DEF Init, TypeOK, Status, Points, Stage, Outcome

\* Every step keeps the types.
LEMMA TypeStep == TypeOK /\ [Next]_vars => TypeOK'
<1> SUFFICES ASSUME TypeOK, [Next]_vars PROVE TypeOK'
  OBVIOUS
<1> USE DEF TypeOK, graphVars, mainVars, poolVars
<1>1. CASE \E n \in Nodes, D \in SUBSET Nodes, R \in SUBSET Resources : AddNode(n, D, R)
  BY <1>1 DEF AddNode
<1>2. CASE Execute
  BY <1>2, RunsAssumption DEF Execute, Stage, Outcome, Points
<1>3. ASSUME NEW n \in Nodes, ScanSkipped(n) \/ ScanWait(n) PROVE TypeOK'
  BY <1>3 DEF ScanSkipped, ScanWait, AtNode
<1>4. ASSUME NEW n \in Nodes, ScanDepFailed(n) PROVE TypeOK'
  BY <1>4, MarkSkippedEffect DEF ScanDepFailed, AtNode
<1>5. ASSUME NEW n \in Nodes, Submit(n) PROVE TypeOK'
  BY <1>5 DEF Submit, AtNode, Stage
<1>6. ASSUME NEW n \in Nodes, Block(n) PROVE TypeOK'
  BY <1>6 DEF Block, Finished, Points
<1>7. ASSUME NEW n \in Nodes, Reap(n) PROVE TypeOK'
  <2>1. status' \in [Nodes -> Status] /\ pending' \subseteq nodes
    BY <1>7, MarkSkippedEffect DEF Reap
  <2>2. pc' \in Points /\ todo' \subseteq nodes
    BY <1>7, <2>1 DEF Reap, NextRound, Points
  <2> QED BY <1>7, <2>1, <2>2 DEF Reap
<1>8. CASE EndScan
  <2>1. status' \in [Nodes -> Status] /\ pending' \subseteq nodes /\ pc' \in Points
    BY <1>8, MarkSkippedEffect DEF EndScan, Points
  <2> QED BY <1>8, <2>1 DEF EndScan
<1>9. CASE Poll
  BY <1>9 DEF Poll, Finished, Points
<1>10. CASE BlockTimeout
  BY <1>10 DEF BlockTimeout, NextRound, Points
<1>11. ASSUME NEW n \in Nodes, Worker(n) PROVE TypeOK'
  BY <1>11 DEF Worker, WorkerStart, WorkerFinish, WorkerResolve, Stage, Status, Outcome
<1>12. CASE UNCHANGED vars
  BY <1>12 DEF vars
<1> QED
  BY <1>1, <1>2, <1>3, <1>4, <1>5, <1>6, <1>7, <1>8, <1>9, <1>10, <1>11, <1>12
     DEF Next, Main, Rest

\* All variables keep to their types.
THEOREM TypeCorrect == Spec => []TypeOK
BY TypeInit, TypeStep, PTL DEF Spec

-----------------------------------------------------------------------------
\* Resources and work items stay in step in every call.
LEMMA CallStep == TypeOK /\ CallInv /\ [Next]_vars => CallInv'
<1> SUFFICES ASSUME TypeOK, CallInv, [Next]_vars PROVE CallInv'
  OBVIOUS
<1> USE DEF TypeOK, CallInv, graphVars, mainVars, poolVars
<1>1. CASE \E n \in Nodes, D \in SUBSET Nodes, R \in SUBSET Resources : AddNode(n, D, R)
  <2> PICK n \in Nodes, D \in SUBSET Nodes, R \in SUBSET Resources : AddNode(n, D, R)
    BY <1>1
  <2>1. \A m \in inFlight : uses'[m] = uses[m]
    BY DEF AddNode
  <2> QED BY <2>1 DEF AddNode
<1>2. CASE Execute
  BY <1>2 DEF Execute
<1>3. ASSUME NEW n \in Nodes, ScanSkipped(n) \/ ScanWait(n) PROVE CallInv'
  BY <1>3 DEF ScanSkipped, ScanWait, AtNode
<1>4. ASSUME NEW n \in Nodes, ScanDepFailed(n) PROVE CallInv'
  BY <1>4, MarkSkippedEffect DEF ScanDepFailed, AtNode
<1>5. ASSUME NEW n \in Nodes, Submit(n) PROVE CallInv'
  <2> USE <1>5 DEF Submit, AtNode, CanAcquire
  <2>1. \A m \in inFlight : uses[m] \cap uses[n] = {}
    <3> SUFFICES ASSUME NEW m \in inFlight, NEW r \in uses[m], r \in uses[n] PROVE FALSE
      OBVIOUS
    <3>1. r \in Resources /\ r \in held
      OBVIOUS
    <3> QED BY <3>1
  <2>2. \A k, m \in inFlight' : k # m => uses'[k] \cap uses'[m] = {}
    BY <2>1
  <2>3. \A r \in Resources : r \in held' <=> \E m \in inFlight' : r \in uses'[m]
    OBVIOUS
  <2>4. \A m \in Nodes : fut'[m] \in {"queued", "running", "ending"} => m \in inFlight'
    OBVIOUS
  <2>5. \A m \in completed' : fut'[m] = "finished"
    OBVIOUS
  <2> QED BY <2>2, <2>3, <2>4, <2>5
<1>6. ASSUME NEW n \in Nodes, Block(n) PROVE CallInv'
  BY <1>6 DEF Block, Finished
<1>7. ASSUME NEW n \in Nodes, Reap(n) PROVE CallInv'
  <2>1. pending' \subseteq pending
    BY <1>7, MarkSkippedEffect DEF Reap
  <2>2. (todo' \cup pending') \cap inFlight' = {}
    BY <1>7, <2>1 DEF Reap, NextRound
  <2>3. \A r \in Resources : r \in held' <=> \E m \in inFlight' : r \in uses'[m]
    <3> TAKE r \in Resources
    <3>1. n \in inFlight
      BY <1>7 DEF Reap
    <3>2. ASSUME NEW m \in inFlight, m # n, r \in uses[m] PROVE r \notin uses[n]
      BY <3>1, <3>2
    <3> QED BY <1>7, <3>1, <3>2 DEF Reap
  <2>4. \A m \in Nodes : fut'[m] \in {"queued", "running", "ending"} => m \in inFlight'
    BY <1>7 DEF Reap
  <2>5. \A m \in completed' : fut'[m] = "finished"
    BY <1>7 DEF Reap
  <2> QED BY <1>7, <2>2, <2>3, <2>4, <2>5 DEF Reap
<1>8. CASE EndScan
  <2>1. pending' \subseteq pending
    BY <1>8, MarkSkippedEffect DEF EndScan
  <2> QED BY <1>8, <2>1 DEF EndScan
<1>9. CASE Poll
  BY <1>9 DEF Poll, Finished
<1>10. CASE BlockTimeout
  BY <1>10 DEF BlockTimeout, NextRound
<1>11. ASSUME NEW n \in Nodes, Worker(n) PROVE CallInv'
  BY <1>11 DEF Worker, WorkerStart, WorkerFinish, WorkerResolve
<1>12. CASE UNCHANGED vars
  BY <1>12 DEF vars
<1> QED
  BY <1>1, <1>2, <1>3, <1>4, <1>5, <1>6, <1>7, <1>8, <1>9, <1>10, <1>11, <1>12
     DEF Next, Main, Rest

\* Types, resources and work items: what holds in every call.
THEOREM CallSafe == Spec => [](TypeOK /\ CallInv)
<1>1. Init => TypeOK /\ CallInv
  BY TypeInit DEF Init, CallInv
<1>2. TypeOK /\ CallInv /\ [Next]_vars => (TypeOK /\ CallInv)'
  BY TypeStep, CallStep
<1> QED BY <1>1, <1>2, PTL DEF Spec

\* Two nodes that share a resource never run at the same time, in any call.
THEOREM Exclusion == Spec => []ResourceExclusion
<1>1. TypeOK /\ CallInv => ResourceExclusion
  BY DEF TypeOK, CallInv, ResourceExclusion, Busy
<1> QED BY <1>1, CallSafe, PTL

-----------------------------------------------------------------------------
\* The passes of the main thread keep hold of what the pool works on.
LEMMA LoopStep == TypeOK /\ CallInv /\ LoopInv /\ [Next]_vars => LoopInv'
<1> SUFFICES ASSUME TypeOK, CallInv, LoopInv, [Next]_vars PROVE LoopInv'
  OBVIOUS
<1> USE DEF TypeOK, LoopInv, graphVars, mainVars, poolVars
<1>1. CASE \E n \in Nodes, D \in SUBSET Nodes, R \in SUBSET Resources : AddNode(n, D, R)
  BY <1>1 DEF AddNode
<1>2. CASE Execute
  BY <1>2 DEF Execute
<1>3. ASSUME NEW n \in Nodes, ScanSkipped(n) \/ ScanWait(n) \/ ScanDepFailed(n) PROVE LoopInv'
  BY <1>3 DEF ScanSkipped, ScanWait, ScanDepFailed, AtNode
<1>4. ASSUME NEW n \in Nodes, Submit(n) PROVE LoopInv'
  BY <1>4 DEF Submit, AtNode
<1>5. ASSUME NEW n \in Nodes, Block(n) PROVE LoopInv'
  BY <1>5 DEF Block, Finished
<1>6. ASSUME NEW n \in Nodes, Reap(n) PROVE LoopInv'
  <2>1. CASE completed' = {}
    BY <1>6, <2>1 DEF Reap, NextRound
  <2>2. CASE completed' # {}
    BY <1>6, <2>2 DEF Reap
  <2> QED BY <2>1, <2>2
<1>7. CASE EndScan
  BY <1>7 DEF EndScan
<1>8. CASE Poll
  BY <1>8 DEF Poll, Finished
<1>9. CASE BlockTimeout
  BY <1>9 DEF BlockTimeout, NextRound
<1>10. ASSUME NEW n \in Nodes, Worker(n) PROVE LoopInv'
  BY <1>10 DEF Worker, WorkerStart, WorkerFinish, WorkerResolve
<1>11. CASE UNCHANGED vars
  BY <1>11 DEF vars
<1> QED
  BY <1>1, <1>2, <1>3, <1>4, <1>5, <1>6, <1>7, <1>8, <1>9, <1>10, <1>11
     DEF Next, Main, Rest

\* No call of execute() waits for a future that nobody will resolve, and none
\* returns before its work items: the pool is busy, or a worker is free.
THEOREM NoIdleWait == Spec => []WaitsForWork
<1>1. Init => LoopInv
  BY DEF Init, LoopInv
<1>2. TypeOK /\ CallInv /\ LoopInv => WaitsForWork
  <2> SUFFICES ASSUME TypeOK, CallInv, LoopInv PROVE WaitsForWork
    OBVIOUS
  <2>1. Busy \subseteq inFlight
    BY DEF Busy, CallInv
  <2>2. Busy = {} => Cardinality(Busy) < MaxWorkers
    BY FS_EmptySet, WorkersAssumption
  <2>3. ASSUME pc \in {"poll", "block"}
        PROVE  \E n \in inFlight : \/ fut[n] \in {"running", "ending", "finished"}
                                   \/ fut[n] = "queued" /\ Cardinality(Busy) < MaxWorkers
    <3>1. CASE Busy # {}
      BY <2>1, <3>1 DEF Busy
    <3>2. CASE Busy = {}
      <4>1. PICK n \in inFlight : fut[n] # "none"
        BY <2>3 DEF LoopInv
      <4>2. fut[n] \in {"queued", "finished"}
        BY <3>2, <4>1 DEF Busy, TypeOK, Stage
      <4> QED BY <2>2, <3>2, <4>1, <4>2
    <3> QED BY <3>1, <3>2
  <2>4. pc = "returned" => Quiet
    BY DEF Quiet, LoopInv, CallInv, TypeOK, Stage
  <2> QED BY <2>3, <2>4 DEF WaitsForWork
<1> QED BY <1>1, <1>2, CallSafe, LoopStep, PTL DEF Spec

-----------------------------------------------------------------------------
\* In the first call _mark_skipped, called on live nodes that were not handed to
\* the pool, reaches only such nodes: a child that was handed to the pool has
\* none of them among its dependencies.
LEMMA ReachedIdle ==
  ASSUME TypeOK, FirstRunInv, NEW S,
         \A n \in S \cap Live : fut[n] = "none"
  PROVE  \A n \in Reached(S) : fut[n] = "none"
<1> DEFINE C == {n \in Live : fut[n] = "none"}
<1>1. \A n \in C : Children(n) \cap Live \subseteq C
  <2> SUFFICES ASSUME NEW n \in C, NEW m \in Children(n) \cap Live PROVE fut[m] = "none"
    OBVIOUS
  <2>1. m \in nodes /\ n \in deps[m] /\ n \in Nodes
    BY DEF Children, Live, TypeOK
  <2>2. outcome[n] = "none"
    BY <2>1 DEF FirstRunInv
  <2> QED BY <2>1, <2>2 DEF FirstRunInv, DepsReturned
<1>2. C \in SUBSET Live /\ SkipClosed(S, C)
  BY <1>1 DEF SkipClosed
<1> HIDE DEF C
<1>3. Reached(S) \subseteq C
  BY <1>2, ReachedWithin
<1> QED BY <1>3 DEF C

\* A call of _mark_skipped on such nodes keeps the first-run invariant, as long
\* as the step changes the scan lists only by removing nodes.
LEMMA MarkSkippedFirst ==
  ASSUME TypeOK, FirstRunInv, run # 0, pc' # "idle", NEW S,
         \A n \in S \cap Live : fut[n] = "none",
         MarkSkipped(S), todo' \subseteq todo \cup pending,
         UNCHANGED <<graphVars, run, poolVars>>
  PROVE  FirstRunInv'
<1> USE DEF TypeOK, graphVars, poolVars
<1>1. \A n \in Nodes : status'[n] # status[n] => fut[n] = "none" /\ status'[n] = "skipped"
                                                 /\ status[n] \notin {"done", "failed"}
  BY ReachedIdle, MarkSkippedEffect
<1>2. pending' \subseteq pending
  BY MarkSkippedEffect
<1>3. \A n \in Nodes :
        /\ fut'[n] \in {"none", "queued", "running"} <=> outcome'[n] = "none"
        /\ n \in todo' \cup pending' => fut'[n] = "none"
  BY <1>2 DEF FirstRunInv
<1>4. \A n \in Nodes :
        /\ status'[n] = "done" <=> outcome'[n] = "ok"
        /\ status'[n] = "failed" <=> outcome'[n] = "error"
        /\ status'[n] = "skipped" => fut'[n] = "none"
  BY <1>1 DEF FirstRunInv
<1>5. DepsReturned'
  BY DEF FirstRunInv, DepsReturned
<1> QED BY <1>3, <1>4, <1>5 DEF FirstRunInv

\* The steps of the first call, and those before it, keep FirstRunInv.
LEMMA FirstStep == IInv /\ [Next]_vars => (run' <= 1 => FirstRunInv')
<1> SUFFICES ASSUME IInv, [Next]_vars, run' <= 1 PROVE FirstRunInv'
  OBVIOUS
<1>r. run <= 1 /\ run \in Nat /\ FirstRunInv
  <2>1. run' = run \/ run' = run + 1
    BY DEF Next, vars, AddNode, Execute, Main, ScanSkipped, ScanDepFailed, ScanWait,
       Submit, EndScan, Poll, Block, BlockTimeout, Reap, Worker, WorkerStart,
       WorkerFinish, WorkerResolve, Rest, mainVars
  <2> QED BY <2>1 DEF IInv, TypeOK
<1>t. TypeOK /\ CallInv
  BY DEF IInv
<1> USE <1>r, <1>t DEF TypeOK, graphVars, mainVars, poolVars
<1>1. CASE \E n \in Nodes, D \in SUBSET Nodes, R \in SUBSET Resources : AddNode(n, D, R)
  <2> PICK n \in Nodes, D \in SUBSET Nodes, R \in SUBSET Resources : AddNode(n, D, R)
    BY <1>1
  <2>1. run = 0
    BY DEF AddNode, FirstRunInv
  <2> QED BY <2>1 DEF AddNode, FirstRunInv, DepsReturned
<1>2. CASE Execute
  <2>1. run = 0
    BY <1>2 DEF Execute
  <2> QED BY <1>2, <2>1 DEF Execute, FirstRunInv, DepsReturned
<1>n. ASSUME pc # "idle" PROVE run # 0
  BY <1>n DEF FirstRunInv
<1>3. ASSUME NEW n \in Nodes, ScanSkipped(n) \/ ScanWait(n) PROVE FirstRunInv'
  BY <1>3, <1>n DEF ScanSkipped, ScanWait, AtNode, FirstRunInv, DepsReturned
<1>4. ASSUME NEW n \in Nodes, ScanDepFailed(n) PROVE FirstRunInv'
  <2>1. fut[n] = "none" /\ run # 0
    BY <1>4, <1>n DEF ScanDepFailed, AtNode, FirstRunInv
  <2> QED BY <1>4, <2>1, MarkSkippedFirst DEF ScanDepFailed, AtNode
<1>5. ASSUME NEW n \in Nodes, Submit(n) PROVE FirstRunInv'
  <2> USE <1>5 DEF Submit, AtNode
  <2>1. fut[n] = "none" /\ run # 0 /\ outcome[n] = "none"
    BY <1>n DEF FirstRunInv
  <2>2. \A d \in deps[n] : outcome[d] = "ok"
    BY DEF DepsReady, FirstRunInv
  <2>3. DepsReturned'
    BY <2>2 DEF FirstRunInv, DepsReturned
  <2>4. \A m \in todo' \cup pending' : m # n
    OBVIOUS
  <2> QED BY <2>1, <2>3, <2>4 DEF FirstRunInv
<1>6. ASSUME NEW n \in Nodes, Block(n) PROVE FirstRunInv'
  BY <1>6, <1>n DEF Block, FirstRunInv, DepsReturned
<1>7. ASSUME NEW n \in Nodes, Reap(n) PROVE FirstRunInv'
  <2>1. run # 0
    BY <1>7, <1>n DEF Reap
  <2>2. todo' \subseteq todo \cup pending /\ pc' # "idle"
    BY <1>7, MarkSkippedEffect DEF Reap, NextRound
  <2>3. CASE status[n] = "failed"
    <3>1. ASSUME NEW m \in Children(n) PROVE fut[m] = "none"
      <4>1. m \in nodes /\ n \in deps[m] /\ outcome[n] # "ok"
        BY <2>3, <3>1 DEF Children, FirstRunInv
      <4> QED BY <4>1 DEF FirstRunInv, DepsReturned
    <3> QED BY <1>7, <2>1, <2>2, <2>3, <3>1, MarkSkippedFirst DEF Reap
  <2>4. CASE status[n] # "failed"
    BY <1>7, <2>1, <2>2, <2>4 DEF Reap, FirstRunInv, DepsReturned
  <2> QED BY <2>3, <2>4
<1>8. CASE EndScan
  <2>1. run # 0
    BY <1>8, <1>n DEF EndScan
  <2>2. CASE inFlight = {}
    <3>1. \A m \in pending : fut[m] = "none"
      BY DEF FirstRunInv
    <3> QED BY <1>8, <2>1, <2>2, <3>1, MarkSkippedFirst DEF EndScan
  <2>3. CASE inFlight # {}
    BY <1>8, <2>1, <2>3 DEF EndScan, FirstRunInv, DepsReturned
  <2> QED BY <2>2, <2>3
<1>9. CASE Poll
  BY <1>9, <1>n DEF Poll, FirstRunInv, DepsReturned
<1>10. CASE BlockTimeout
  BY <1>10, <1>n DEF BlockTimeout, NextRound, FirstRunInv, DepsReturned
<1>w. ASSUME NEW n \in Nodes, fut[n] # "none" PROVE run # 0
  BY <1>w DEF FirstRunInv
<1>11. ASSUME NEW n \in Nodes, WorkerStart(n) PROVE FirstRunInv'
  BY <1>11, <1>w DEF WorkerStart, FirstRunInv, DepsReturned
<1>12. ASSUME NEW n \in Nodes, NEW o \in Outcome \ {"none"}, WorkerFinish(n, o)
       PROVE FirstRunInv'
  <2> USE <1>12 DEF WorkerFinish
  <2>1. run # 0 /\ outcome[n] = "none" /\ fut'[n] = "ending" /\ outcome'[n] = o
    BY <1>w DEF FirstRunInv
  <2>2. \A m \in Nodes : m # n => /\ status'[m] = status[m]
                                  /\ fut'[m] = fut[m] /\ outcome'[m] = outcome[m]
    OBVIOUS
  <2>3. /\ status'[n] = "done" <=> o = "ok"
        /\ status'[n] = "failed" <=> o = "error"
        /\ status'[n] # "skipped"
    <3>1. status[n] \notin {"done", "failed", "skipped"}
      BY <2>1 DEF FirstRunInv
    <3>2. CASE o = "ok"
      BY <3>2
    <3>3. CASE o = "error"
      BY <3>3
    <3>4. CASE o \notin {"ok", "error"}
      BY <3>1, <3>4
    <3> QED BY <3>2, <3>3, <3>4
  <2>4. DepsReturned'
    BY <2>1, <2>2 DEF FirstRunInv, DepsReturned
  <2>5. \A m \in Nodes : m \in todo' \cup pending' => fut'[m] = "none"
    BY <2>2 DEF FirstRunInv
  <2>6. o # "none" /\ run' # 0
    BY <2>1
  <2> QED BY <2>1, <2>2, <2>3, <2>4, <2>5, <2>6 DEF FirstRunInv
<1>13. ASSUME NEW n \in Nodes, WorkerResolve(n) PROVE FirstRunInv'
  BY <1>13, <1>w DEF WorkerResolve, FirstRunInv, DepsReturned
<1>14. CASE UNCHANGED vars
  BY <1>14 DEF vars, FirstRunInv, DepsReturned
<1> QED
  BY <1>1, <1>2, <1>3, <1>4, <1>5, <1>6, <1>7, <1>8, <1>9, <1>10, <1>11, <1>12,
     <1>13, <1>14 DEF Next, Main, Rest, Worker

-----------------------------------------------------------------------------
\* _mark_skipped reaches the live nodes it is called on, and every other node it
\* reaches depends on one that it reaches.
LEMMA ReachedCause ==
  ASSUME TypeOK, NEW S
  PROVE  /\ S \cap Live \subseteq Reached(S)
         /\ \A n \in Reached(S) : n \in S \/ \E d \in deps[n] : d \in Reached(S)
<1>1. S \cap Live \subseteq Reached(S)
  BY DEF Reached, SkipClosed
<1>2. \A n \in Reached(S) : Children(n) \cap Live \subseteq Reached(S)
  BY DEF Reached, SkipClosed
<1>3. ASSUME NEW n \in Reached(S), n \notin S, \A d \in deps[n] : d \notin Reached(S)
      PROVE  FALSE
  <2> DEFINE C == Reached(S) \ {n}
  <2>1. C \in SUBSET Live
    BY ReachedLive
  <2>2. S \cap Live \subseteq C
    BY <1>1, <1>3
  <2>3. \A m \in C : Children(m) \cap Live \subseteq C
    BY <1>2, <1>3 DEF Children
  <2>4. SkipClosed(S, C)
    BY <2>2, <2>3 DEF SkipClosed
  <2> QED BY <1>3, <2>1, <2>4, ReachedWithin
<1> QED BY <1>1, <1>3

\* A call of _mark_skipped on nodes with a cause to be skipped keeps the cover.
LEMMA MarkSkippedCover ==
  ASSUME TypeOK, FirstRunCover, NEW S, S \subseteq nodes, MarkSkipped(S),
         \A n \in S \cap Live : \E d \in deps[n] : \/ status[d] = "skipped"
                                                   \/ outcome[d] \in {"error", "exit"}
                                                   \/ d \in S \cap Live,
         \A n \in Reached(S) : fut[n] = "none",
         UNCHANGED <<graphVars, poolVars>>,
         pc' = "scan" /\ inFlight' = {} =>
           \A n \in pending' \ todo' : \E d \in deps[n] : status[d] # "done",
         pc' = "returned" => pending' = {} /\ inFlight' = {}
  PROVE  FirstRunCover'
<1> USE DEF TypeOK, graphVars, poolVars
<1>1. \A n \in Nodes : status'[n] = IF n \in Reached(S) THEN "skipped" ELSE status[n]
  BY DEF MarkSkipped
<1>2. pending' = pending \ Reached(S)
  BY DEF MarkSkipped
<1>3. Reached(S) \subseteq nodes
  BY ReachedLive DEF Live
<1>4. \A n \in nodes : fut'[n] = "none" => status'[n] \in {"pending", "skipped"}
  BY <1>1 DEF FirstRunCover
<1>5. \A n \in nodes : status'[n] = "pending" => n \in pending' \/ fut'[n] = "queued"
  BY <1>1, <1>2 DEF FirstRunCover
<1>6. \A n \in pending' : status'[n] = "pending"
  BY <1>1, <1>2 DEF FirstRunCover
<1>7. ASSUME NEW n \in nodes, status'[n] = "skipped"
      PROVE  \E d \in deps[n] : status'[d] = "skipped" \/ outcome[d] \in {"error", "exit"}
  <2>1. CASE n \in Reached(S)
    <3>1. n \in Live
      BY <2>1, ReachedLive
    <3>2. \/ \E d \in deps[n] : \/ status[d] = "skipped"
                                \/ outcome[d] \in {"error", "exit"}
                                \/ d \in S \cap Live
          \/ \E d \in deps[n] : d \in Reached(S)
      BY <2>1, <3>1, ReachedCause
    <3>3. PICK d \in deps[n] : \/ status[d] = "skipped"
                               \/ outcome[d] \in {"error", "exit"}
                               \/ d \in Reached(S)
      BY <3>2, ReachedCause
    <3>4. d \in Nodes
      OBVIOUS
    <3> QED BY <1>1, <3>3, <3>4
  <2>2. CASE n \notin Reached(S)
    <3>1. status[n] = "skipped"
      BY <1>1, <1>7, <2>2
    <3>2. PICK d \in deps[n] : status[d] = "skipped" \/ outcome[d] \in {"error", "exit"}
      BY <3>1 DEF FirstRunCover
    <3> QED BY <1>1, <3>2
  <2> QED BY <2>1, <2>2
<1>8. ASSUME pc' = "scan", inFlight' = {}, NEW n \in pending' \ todo'
      PROVE  \E d \in deps[n] : status'[d] # "done"
  <2>1. PICK d \in deps[n] : status[d] # "done"
    BY <1>8
  <2>2. n \in Nodes /\ d \in Nodes
    BY <1>2
  <2> QED BY <1>1, <2>1, <2>2
<1> QED BY <1>4, <1>5, <1>6, <1>7, <1>8 DEF FirstRunCover

\* The steps of the first call keep the cover.
LEMMA CoverStep == IInv /\ [Next]_vars => (run' = 1 => FirstRunCover')
<1> SUFFICES ASSUME IInv, [Next]_vars, run' = 1 PROVE FirstRunCover'
  OBVIOUS
<1>t. TypeOK /\ CallInv
  BY DEF IInv
<1>1. CASE Execute
  <2>1. run = 0 /\ FirstRunInv
    BY <1>1, <1>t DEF Execute, IInv, TypeOK
  <2> QED BY <1>1, <1>t, <2>1 DEF Execute, Valid, FirstRunInv, FirstRunCover, TypeOK, graphVars
<1>2. CASE ~Execute
  <2>1. run = 1
    BY <1>2 DEF Next, vars, AddNode, Main, ScanSkipped, ScanDepFailed, ScanWait,
       Submit, EndScan, Poll, Block, BlockTimeout, Reap, Worker, WorkerStart,
       WorkerFinish, WorkerResolve, Rest, mainVars
  <2>i. FirstRunInv /\ FirstRunCover
    BY <2>1 DEF IInv
  <2> USE <2>1, <2>i, <1>t DEF TypeOK, graphVars, mainVars, poolVars
  <2>2. ~ \E n \in Nodes, D \in SUBSET Nodes, R \in SUBSET Resources : AddNode(n, D, R)
    BY DEF AddNode, FirstRunInv
  <2>3. ASSUME NEW n \in Nodes, ScanSkipped(n) PROVE FirstRunCover'
    BY <2>3 DEF ScanSkipped, AtNode, FirstRunCover
  <2>4. ASSUME NEW n \in Nodes, ScanDepFailed(n) PROVE FirstRunCover'
    <3> USE <2>4 DEF ScanDepFailed, AtNode
    <3>1. fut[n] = "none" /\ n \in nodes
      BY DEF FirstRunInv
    <3>2. n \in Live /\ n \in Reached({n})
      BY <3>1, ReachedCause DEF Live, FirstRunCover
    <3>3. \A m \in Reached({n}) : fut[m] = "none"
      BY <3>1, ReachedIdle
    <3>4. \E d \in deps[n] : status[d] = "skipped" \/ outcome[d] \in {"error", "exit"}
      BY <3>1 DEF DepFailed, FirstRunInv
    <3>5. pending' = pending \ Reached({n})
      BY DEF MarkSkipped
    <3>6. inFlight' = {} =>
            \A m \in pending' \ todo' : \E d \in deps[m] : status[d] # "done"
      BY <3>2, <3>5 DEF FirstRunCover
    <3> QED BY <3>1, <3>3, <3>4, <3>6, MarkSkippedCover
  <2>5. ASSUME NEW n \in Nodes, ScanWait(n) PROVE FirstRunCover'
    <3> USE <2>5 DEF ScanWait, AtNode
    <3>1. ASSUME inFlight = {} PROVE \E d \in deps[n] : status[d] # "done"
      <4>1. held = {}
        BY <3>1 DEF CallInv
      <4> QED BY <4>1 DEF DepsReady, CanAcquire
    <3> QED BY <3>1 DEF FirstRunCover
  <2>6. ASSUME NEW n \in Nodes, Submit(n) PROVE FirstRunCover'
    BY <2>6 DEF Submit, AtNode, FirstRunCover
  <2>7. ASSUME NEW n \in Nodes, Block(n) PROVE FirstRunCover'
    BY <2>7 DEF Block, FirstRunCover
  <2>8. ASSUME NEW n \in Nodes, Reap(n) PROVE FirstRunCover'
    <3>1. n \in nodes /\ fut[n] = "finished" /\ pc = "reap"
      BY <2>8 DEF Reap, CallInv
    <3>2. pending' \subseteq pending
      BY <2>8, MarkSkippedEffect DEF Reap
    <3>3. pc' = "scan" => todo' = pending'
      BY <2>8, <3>1 DEF Reap, NextRound
    <3>4. pc' = "returned" => pending' = {} /\ inFlight' = {}
      BY <2>8, <3>1 DEF Reap, NextRound
    <3>5. CASE status[n] = "failed"
      <4>1. MarkSkipped(Children(n)) /\ UNCHANGED <<graphVars, poolVars>>
        BY <2>8, <3>5 DEF Reap
      <4>2. \A m \in Children(n) : n \in deps[m] /\ fut[m] = "none"
        BY <3>1, <3>5 DEF Children, FirstRunInv, DepsReturned
      <4>3. outcome[n] = "error"
        BY <3>1, <3>5 DEF FirstRunInv
      <4>4. \A m \in Reached(Children(n)) : fut[m] = "none"
        BY <4>2, ReachedIdle
      <4>5. Children(n) \subseteq nodes
        BY DEF Children
      <4> HIDE DEF TypeOK
      <4> QED BY <3>3, <3>4, <4>1, <4>2, <4>3, <4>4, <4>5, MarkSkippedCover
    <3>6. CASE status[n] # "failed"
      <4>1. UNCHANGED <<graphVars, status, pending, poolVars>>
        BY <2>8, <3>6 DEF Reap
      <4> QED BY <3>3, <3>4, <4>1 DEF FirstRunCover
    <3> QED BY <3>5, <3>6
  <2>9. CASE EndScan
    <3>1. CASE inFlight # {}
      BY <2>9, <3>1 DEF EndScan, FirstRunCover
    <3>2. CASE inFlight = {}
      <4>1. MarkSkipped(pending) /\ pc' = "returned" /\ todo = {} /\ pc = "scan" /\ inFlight' = {}
            /\ UNCHANGED <<graphVars, poolVars>>
        BY <2>9, <3>2 DEF EndScan
      <4>2. \A m \in Reached(pending) : fut[m] = "none"
        BY ReachedIdle DEF FirstRunInv
      <4>3. pending \subseteq Live
        BY DEF Live, FirstRunCover
      <4>4. pending' = {}
        BY <4>1, <4>3, ReachedCause DEF MarkSkipped
      <4>5. ASSUME NEW m \in pending
            PROVE  \E d \in deps[m] : \/ status[d] = "skipped"
                                      \/ outcome[d] \in {"error", "exit"}
                                      \/ d \in pending
        <5>1. PICK d \in deps[m] : status[d] # "done"
          BY <3>2, <4>1 DEF FirstRunCover
        <5>2. d \in nodes /\ d \in Nodes
          BY DEF FirstRunCover
        <5>3. fut[d] \in {"none", "finished"}
          BY <3>2, <5>2 DEF CallInv, Stage
        <5>4. CASE fut[d] = "none"
          BY <5>2, <5>4 DEF FirstRunCover
        <5>5. CASE fut[d] = "finished"
          BY <5>1, <5>2, <5>5 DEF FirstRunInv, Outcome
        <5> QED BY <5>3, <5>4, <5>5
      <4>6. \A m \in pending \cap Live : \E d \in deps[m] :
               \/ status[d] = "skipped"
               \/ outcome[d] \in {"error", "exit"}
               \/ d \in pending \cap Live
        BY <4>3, <4>5
      <4>7. pending \subseteq nodes
        OBVIOUS
      <4>8. pc' = "scan" /\ inFlight' = {} =>
              \A m \in pending' \ todo' : \E d \in deps[m] : status[d] # "done"
        BY <4>1
      <4>9. pc' = "returned" => pending' = {} /\ inFlight' = {}
        BY <4>1, <4>4
      <4> HIDE DEF TypeOK
      <4> QED BY <4>1, <4>2, <4>6, <4>7, <4>8, <4>9, MarkSkippedCover
    <3> QED BY <3>1, <3>2
  <2>10. CASE Poll
    BY <2>10 DEF Poll, FirstRunCover
  <2>11. CASE BlockTimeout
    BY <2>11 DEF BlockTimeout, NextRound, FirstRunCover
  <2>12. ASSUME NEW n \in Nodes, WorkerStart(n) PROVE FirstRunCover'
    <3>1. n \in inFlight /\ fut[n] = "queued" /\ status[n] # "skipped"
      BY <2>12 DEF WorkerStart, CallInv, FirstRunInv
    <3> QED BY <2>12, <3>1 DEF WorkerStart, FirstRunCover, FirstRunInv
  <2>13. ASSUME NEW n \in Nodes, NEW o \in Outcome \ {"none"}, WorkerFinish(n, o)
         PROVE FirstRunCover'
    <3>1. n \in inFlight /\ status[n] # "skipped" /\ outcome[n] = "none"
      BY <2>13 DEF WorkerFinish, CallInv, FirstRunInv
    <3>2. status[n] # "pending"
      BY <2>13, <3>1 DEF WorkerFinish, FirstRunCover, FirstRunInv
    <3> QED BY <2>13, <3>1, <3>2 DEF WorkerFinish, FirstRunCover
  <2>14. ASSUME NEW n \in Nodes, WorkerResolve(n) PROVE FirstRunCover'
    BY <2>14 DEF WorkerResolve, FirstRunCover
  <2>15. CASE UNCHANGED vars
    BY <2>15 DEF vars, FirstRunCover
  <2> QED
    BY <1>2, <2>2, <2>3, <2>4, <2>5, <2>6, <2>7, <2>8, <2>9, <2>10, <2>11, <2>12,
       <2>13, <2>14, <2>15 DEF Next, Main, Rest, Worker
<1> QED BY <1>1, <1>2

\* The inductive invariant of the executor.
THEOREM Invariance == Spec => []IInv
<1>1. Init => IInv
  BY TypeInit DEF Init, IInv, CallInv, FirstRunInv, DepsReturned
<1>2. IInv /\ [Next]_vars => IInv'
  BY TypeStep, CallStep, FirstStep, CoverStep DEF IInv
<1> QED BY <1>1, <1>2, PTL DEF Spec

\* In the first call a node starts only after its dependencies returned.
THEOREM Order == Spec => []FirstRunOrder
<1>1. IInv => FirstRunOrder
  BY DEF IInv, FirstRunInv, FirstRunOrder
<1> QED BY <1>1, Invariance, PTL

\* In the first call a node that is skipped was never handed to the pool.
THEOREM SkippedNeverRun == Spec => []FirstRunSkipped
<1>1. IInv => FirstRunSkipped
  BY DEF IInv, FirstRunInv, FirstRunSkipped, TypeOK
<1> QED BY <1>1, Invariance, PTL

\* What the first call returns is determined by what the actions did.
THEOREM Result == Spec => []FirstRunResult
<1>1. IInv => FirstRunResult
  <2> SUFFICES ASSUME IInv, run = 1, pc = "returned", NEW n \in nodes
               PROVE  IF \E d \in deps[n] : status[d] = "skipped" \/ outcome[d] # "ok"
                      THEN status[n] = "skipped" /\ outcome[n] = "none"
                      ELSE \/ outcome[n] = "ok" /\ status[n] = "done"
                           \/ outcome[n] = "error" /\ status[n] = "failed"
                           \/ outcome[n] = "exit" /\ status[n] = "running"
    BY DEF FirstRunResult
  <2> USE DEF TypeOK
  <2>1. TypeOK /\ CallInv /\ FirstRunInv /\ FirstRunCover /\ n \in Nodes
    BY DEF IInv
  <2>2. fut[n] \in {"none", "finished"}
    BY <2>1 DEF CallInv, FirstRunCover, Stage
  <2>3. CASE fut[n] = "none"
    <3>1. status[n] = "skipped" /\ outcome[n] = "none"
      BY <2>1, <2>3 DEF FirstRunCover, FirstRunInv
    <3>2. \E d \in deps[n] : status[d] = "skipped" \/ outcome[d] # "ok"
      BY <2>1, <3>1 DEF FirstRunCover
    <3> QED BY <3>1, <3>2
  <2>4. CASE fut[n] = "finished"
    <3>1. \A d \in deps[n] : outcome[d] = "ok" /\ status[d] # "skipped"
      <4>1. \A d \in deps[n] : outcome[d] = "ok"
        BY <2>1, <2>4 DEF FirstRunInv, DepsReturned
      <4>2. \A d \in deps[n] : status[d] = "done"
        BY <2>1, <4>1 DEF FirstRunInv
      <4> QED BY <4>1, <4>2
    <3>2. outcome[n] # "none" /\ status[n] \notin {"skipped"}
      BY <2>1, <2>4 DEF FirstRunInv
    <3>3. status[n] # "pending"
      BY <2>1, <2>4 DEF FirstRunCover, FirstRunInv
    <3> QED BY <2>1, <3>1, <3>2, <3>3 DEF FirstRunInv, Outcome, Status
  <2> QED BY <2>2, <2>3, <2>4
<1> QED BY <1>1, Invariance, PTL

\* One call of execute() keeps resources apart and dependencies in order, what it
\* returns follows from what the actions did, and it never waits in vain.
THEOREM ExecutorSafety == Spec => []ExecutorSafe
<1>1. /\ TypeOK /\ ResourceExclusion /\ FirstRunOrder /\ FirstRunSkipped /\ FirstRunResult
      /\ WaitsForWork
      => ExecutorSafe
  BY DEF ExecutorSafe
<1> QED BY <1>1, TypeCorrect, Exclusion, NoIdleWait, Order, SkippedNeverRun, Result, PTL

\* Within the first call a node that is done, failed or skipped stays so.
THEOREM Final == Spec => FinalWithinCall
<1>1. IInv /\ [Next]_vars =>
        (run' = run => \A n \in nodes :
           (run = 1 /\ status[n] \in {"done", "failed", "skipped"})
             => status'[n] = status[n])
  <2> SUFFICES ASSUME IInv, [Next]_vars, run = 1, NEW n \in nodes,
                      status[n] \in {"done", "failed", "skipped"}
               PROVE  status'[n] = status[n]
    OBVIOUS
  <2>i. TypeOK /\ CallInv /\ FirstRunInv /\ n \in Nodes
    BY DEF IInv, TypeOK
  <2>1. ASSUME NEW S, MarkSkipped(S) PROVE status'[n] = status[n]
    BY <2>1, <2>i, MarkSkippedEffect
  <2>2. ASSUME NEW m \in Nodes, WorkerStart(m) \/ \E o \in Outcome \ {"none"} : WorkerFinish(m, o)
        PROVE  status'[n] = status[n]
    <3>1. outcome[m] = "none" /\ fut[m] # "none"
      BY <2>2, <2>i DEF WorkerStart, WorkerFinish, FirstRunInv, TypeOK
    <3>2. m # n
      BY <2>i, <3>1 DEF FirstRunInv
    <3> QED BY <2>2, <2>i, <3>2 DEF WorkerStart, WorkerFinish, TypeOK
  <2>3. \/ UNCHANGED status
        \/ \E S : MarkSkipped(S)
        \/ \E m \in Nodes : WorkerStart(m) \/ \E o \in Outcome \ {"none"} : WorkerFinish(m, o)
    BY DEF Next, vars, AddNode, Execute, Main, ScanSkipped, ScanDepFailed, ScanWait,
       Submit, EndScan, Poll, Block, BlockTimeout, Reap, Worker, WorkerResolve, Rest
  <2>4. CASE \E S : MarkSkipped(S)
    <3> PICK S : MarkSkipped(S)
      BY <2>4
    <3> QED BY <2>1
  <2>5. CASE \E m \in Nodes : WorkerStart(m) \/ \E o \in Outcome \ {"none"} : WorkerFinish(m, o)
    BY <2>2, <2>5
  <2> QED BY <2>3, <2>4, <2>5
<1> QED BY <1>1, Invariance, PTL DEF Spec, FinalWithinCall

-----------------------------------------------------------------------------
(* Refinement: with one call, every step is a step of DAGSchedule or none.   *)

Abs == [n \in Nodes |-> AbstractState(n)]

\* Nodes whose abstract state is waiting and becomes dropped form a legal drop.
LEMMA DropStep ==
  ASSUME IInv, IInv', run = 1, NEW S, MarkSkipped(S),
         UNCHANGED <<graphVars, run, poolVars>>,
         \A n \in Reached(S) : fut[n] = "none"
  PROVE  \/ Abs' = Abs
         \/ \E D \in SUBSET Nodes : Schedule!CanDrop(D) /\ Abs' = Schedule!Dropped(D)
<1> USE DEF TypeOK, graphVars, poolVars, Abs, AbstractState
<1> DEFINE D == {n \in Reached(S) : status[n] # "skipped"}
<1>i. TypeOK /\ CallInv /\ FirstRunInv /\ FirstRunCover /\ FirstRunCover' /\ run' = 1
  BY DEF IInv
<1>1. D \in SUBSET Nodes /\ D \subseteq nodes
  BY <1>i, ReachedLive DEF Live
<1>2. \A n \in Nodes : status'[n] = IF n \in D THEN "skipped" ELSE status[n]
  BY <1>i, <1>1 DEF MarkSkipped
<1>3. \A n \in D : outcome[n] = "none" /\ fut[n] = "none"
  BY <1>i, <1>1 DEF FirstRunInv
<1>4. Abs' = Schedule!Dropped(D)
  BY <1>i, <1>1, <1>2, <1>3 DEF Schedule!Dropped
<1>5. CASE D = {}
  BY <1>2, <1>5
<1>6. CASE D # {}
  <2>1. ASSUME NEW n \in D
        PROVE  /\ Abs[n] = "waiting"
               /\ \E d \in deps[n] : d \in D \/ Abs[d] \in {"bad", "dropped"}
    <3>1. Abs[n] = "waiting"
      BY <1>1, <1>3
    <3>2. PICK d \in deps[n] : status'[d] = "skipped" \/ outcome[d] \in {"error", "exit"}
      BY <1>i, <1>1, <1>2 DEF FirstRunCover
    <3>3. d \in nodes /\ d \in Nodes
      BY <1>i, <1>1 DEF FirstRunCover
    <3>4. status[d] = "skipped" \/ outcome[d] \in {"error", "exit"} => Abs[d] \in {"bad", "dropped"}
      BY <3>3
    <3>5. status'[d] = "skipped" => d \in D \/ status[d] = "skipped"
      BY <1>2, <3>3
    <3> QED BY <3>1, <3>2, <3>4, <3>5
  <2>2. Schedule!CanDrop(D)
    BY <1>6, <2>1 DEF Schedule!CanDrop
  <2> QED BY <1>1, <1>4, <2>2
<1> QED BY <1>5, <1>6

\* Every step of the first call maps to a step or a stutter.
LEMMA ScheduleStep ==
  IInv /\ IInv' /\ run' <= 1 /\ [Next]_vars => [Schedule!Next]_Schedule!vars
<1> SUFFICES ASSUME IInv, IInv', run' <= 1, [Next]_vars
             PROVE  Schedule!Next \/ UNCHANGED Schedule!vars
  OBVIOUS
<1>i. TypeOK /\ CallInv
  BY DEF IInv
<1>f. run <= 1 /\ FirstRunInv
  <2>1. run' = run \/ run' = run + 1
    BY DEF Next, vars, AddNode, Execute, Main, ScanSkipped, ScanDepFailed, ScanWait,
       Submit, EndScan, Poll, Block, BlockTimeout, Reap, Worker, WorkerStart,
       WorkerFinish, WorkerResolve, Rest, mainVars
  <2> QED BY <2>1 DEF IInv, TypeOK
<1>c. ASSUME pc # "idle" PROVE run = 1 /\ FirstRunCover
  <2>1. run = 1
    BY <1>i, <1>f, <1>c DEF FirstRunInv, TypeOK
  <2> QED BY <2>1 DEF IInv
<1> USE <1>i, <1>f DEF TypeOK, graphVars, mainVars, poolVars
<1>s. ASSUME UNCHANGED <<graphVars, inFlight>>, Abs' = Abs
      PROVE  UNCHANGED Schedule!vars
  BY <1>s DEF Schedule!vars, Abs
<1>1. ASSUME NEW n \in Nodes, NEW D \in SUBSET Nodes, NEW R \in SUBSET Resources,
             AddNode(n, D, R)
      PROVE  Schedule!Declare(n, D, R)
  <2>1. run = 0
    BY <1>1 DEF AddNode, FirstRunInv
  <2>2. \A m \in Nodes : outcome[m] = "none" /\ fut[m] = "none" /\ status[m] = "pending"
    BY <2>1 DEF FirstRunInv
  <2>3. \A m \in Nodes : AbstractState(m) = IF m \in nodes THEN "waiting" ELSE "absent"
    BY <2>2 DEF AbstractState
  <2>4. \A m \in Nodes : AbstractState(m)' = IF m \in nodes \cup {n} THEN "waiting" ELSE "absent"
    BY <1>1, <2>2 DEF AddNode, AbstractState
  <2> QED BY <1>1, <2>3, <2>4 DEF AddNode, Schedule!Declare
<1>2. CASE Execute
  <2>1. run = 0
    BY <1>2 DEF Execute
  <2>2. \A m \in Nodes : /\ outcome[m] = "none" /\ fut[m] = "none"
                         /\ outcome'[m] = "none" /\ fut'[m] = "none"
    BY <1>2, <2>1 DEF Execute, FirstRunInv
  <2>3. inFlight' = inFlight
    BY <1>2, <2>1 DEF Execute, FirstRunInv
  <2>4. Abs' = Abs
    BY <1>2, <2>2 DEF Execute, Abs, AbstractState
  <2> QED BY <1>2, <1>s, <2>3, <2>4 DEF Execute
<1>3. ASSUME NEW n \in Nodes, ScanSkipped(n) \/ ScanWait(n) PROVE UNCHANGED Schedule!vars
  <2>1. Abs' = Abs
    BY <1>3 DEF ScanSkipped, ScanWait, Abs, AbstractState
  <2> QED BY <1>3, <1>s, <2>1 DEF ScanSkipped, ScanWait
<1>d. ASSUME NEW S, MarkSkipped(S), UNCHANGED <<graphVars, run, poolVars, inFlight>>,
             pc # "idle", \A n \in S \cap Live : fut[n] = "none"
      PROVE  Schedule!Next \/ UNCHANGED Schedule!vars
  <2>1. \A n \in Reached(S) : fut[n] = "none"
    BY <1>d, ReachedIdle
  <2>2. \/ Abs' = Abs
        \/ \E D \in SUBSET Nodes : Schedule!CanDrop(D) /\ Abs' = Schedule!Dropped(D)
    BY <1>c, <1>d, <2>1, DropStep
  <2>3. CASE Abs' = Abs
    BY <1>d, <1>s, <2>3
  <2>4. CASE \E D \in SUBSET Nodes : Schedule!CanDrop(D) /\ Abs' = Schedule!Dropped(D)
    <3>1. Schedule!Drop
      BY <1>d, <2>4 DEF Schedule!Drop, Abs
    <3> QED BY <3>1 DEF Schedule!Next
  <2> QED BY <2>2, <2>3, <2>4
<1>4. ASSUME NEW n \in Nodes, ScanDepFailed(n)
      PROVE  Schedule!Next \/ UNCHANGED Schedule!vars
  <2>1. fut[n] = "none"
    BY <1>4 DEF ScanDepFailed, AtNode, FirstRunInv
  <2> QED BY <1>4, <1>d, <2>1 DEF ScanDepFailed, AtNode
<1>5. ASSUME NEW n \in Nodes, Submit(n) PROVE Schedule!Begin(n)
  <2> USE <1>5 DEF Submit, AtNode
  <2>1. run = 1 /\ FirstRunCover /\ n \in nodes
    BY <1>c
  <2>2. fut[n] = "none" /\ outcome[n] = "none" /\ status[n] # "skipped"
    BY <2>1 DEF FirstRunInv
  <2>3. \A d \in deps[n] : d \in Nodes /\ AbstractState(d) = "good"
    <3> SUFFICES ASSUME NEW d \in deps[n] PROVE d \in Nodes /\ AbstractState(d) = "good"
      OBVIOUS
    <3>1. d \in nodes /\ status[d] = "done" /\ d \in Nodes
      BY <2>1 DEF DepsReady, FirstRunCover
    <3>2. outcome[d] = "ok"
      BY <3>1 DEF FirstRunInv
    <3> QED BY <3>1, <3>2 DEF AbstractState
  <2>4. \A m \in inFlight : uses[m] \cap uses[n] = {}
    <3> SUFFICES ASSUME NEW m \in inFlight, NEW r \in uses[m], r \in uses[n] PROVE FALSE
      OBVIOUS
    <3>1. r \in Resources /\ r \in held
      BY DEF CallInv
    <3> QED BY <3>1 DEF CanAcquire
  <2>5. AbstractState(n) = "waiting" /\ AbstractState(n)' = "active"
    BY <2>1, <2>2 DEF AbstractState
  <2>6. \A m \in Nodes : m # n => AbstractState(m)' = AbstractState(m)
    BY DEF AbstractState
  <2> QED BY <2>3, <2>4, <2>5, <2>6 DEF Schedule!Begin
<1>6. ASSUME NEW n \in Nodes, Block(n) PROVE UNCHANGED Schedule!vars
  <2>1. Abs' = Abs
    BY <1>6 DEF Block, Abs, AbstractState
  <2> QED BY <1>6, <1>s, <2>1 DEF Block
<1>7. ASSUME NEW n \in Nodes, Reap(n) PROVE Schedule!Release(n)
  <2>1. run = 1 /\ FirstRunCover /\ n \in nodes /\ n \in inFlight /\ fut[n] = "finished"
    BY <1>7, <1>c DEF Reap, CallInv
  <2>2. outcome[n] # "none" /\ status[n] # "skipped"
    BY <2>1 DEF FirstRunInv
  <2>3. AbstractState(n) \in {"good", "bad"}
    BY <2>1, <2>2 DEF AbstractState
  <2>4. \/ Abs' = Abs
        \/ \E D \in SUBSET Nodes : Schedule!CanDrop(D) /\ Abs' = Schedule!Dropped(D)
    <3>1. CASE status[n] = "failed"
      <4>1. \A m \in Children(n) : fut[m] = "none"
        BY <2>1, <3>1 DEF Children, FirstRunInv, DepsReturned
      <4>2. \A m \in Reached(Children(n)) : fut[m] = "none"
        BY <4>1, ReachedIdle
      <4> QED BY <1>7, <2>1, <3>1, <4>2, DropStep DEF Reap
    <3>2. CASE status[n] # "failed"
      BY <1>7, <3>2 DEF Reap, Abs, AbstractState
    <3> QED BY <3>1, <3>2
  <2> QED BY <1>7, <2>1, <2>3, <2>4 DEF Reap, Schedule!Release, Abs
<1>8. CASE EndScan
  <2>1. CASE inFlight = {}
    BY <1>8, <1>d, <2>1 DEF EndScan, FirstRunInv
  <2>2. CASE inFlight # {}
    <3>1. Abs' = Abs
      BY <1>8, <2>2 DEF EndScan, Abs, AbstractState
    <3> QED BY <1>8, <1>s, <2>2, <3>1 DEF EndScan
  <2> QED BY <2>1, <2>2
<1>9. CASE Poll
  <2>1. Abs' = Abs
    BY <1>9 DEF Poll, Abs, AbstractState
  <2> QED BY <1>9, <1>s, <2>1 DEF Poll
<1>10. CASE BlockTimeout
  <2>1. Abs' = Abs
    BY <1>10 DEF BlockTimeout, Abs, AbstractState
  <2> QED BY <1>10, <1>s, <2>1 DEF BlockTimeout
<1>11. ASSUME NEW n \in Nodes, WorkerStart(n) \/ WorkerResolve(n)
       PROVE  UNCHANGED Schedule!vars
  <2>1. (outcome[n] = "none" /\ status[n] # "skipped") \/ fut[n] = "ending"
    BY <1>11 DEF WorkerStart, WorkerResolve, FirstRunInv
  <2>2. \A m \in Nodes : AbstractState(m)' = AbstractState(m)
    BY <1>11, <2>1 DEF WorkerStart, WorkerResolve, AbstractState, FirstRunInv
  <2>3. Abs' = Abs
    BY <1>11, <2>2 DEF Abs, WorkerStart, WorkerResolve
  <2> QED BY <1>11, <1>s, <2>3 DEF WorkerStart, WorkerResolve
<1>12. ASSUME NEW n \in Nodes, NEW o \in Outcome \ {"none"}, WorkerFinish(n, o)
       PROVE  Schedule!End(n)
  <2> USE <1>12 DEF WorkerFinish
  <2>1. n \in nodes /\ outcome[n] = "none" /\ status[n] # "skipped" /\ outcome'[n] = o
    BY DEF FirstRunInv, CallInv
  <2>2. status'[n] # "skipped"
    BY <2>1, <1>12
  <2>3. AbstractState(n) = "active" /\ AbstractState(n)' \in {"good", "bad"}
    BY <2>1, <2>2 DEF AbstractState
  <2>4. \A m \in Nodes : m # n => AbstractState(m)' = AbstractState(m)
    BY DEF AbstractState
  <2> QED BY <2>3, <2>4 DEF Schedule!End
<1>13. CASE UNCHANGED vars
  <2>1. Abs' = Abs
    BY <1>13 DEF vars, Abs, AbstractState
  <2> QED BY <1>13, <1>s, <2>1 DEF vars
<1> QED
  BY <1>1, <1>2, <1>3, <1>4, <1>5, <1>6, <1>7, <1>8, <1>9, <1>10, <1>11, <1>12, <1>13
     DEF Next, Main, Rest, Worker, Schedule!Next

\* One call of execute() implements the abstract scheduler.
THEOREM Refinement == ASSUME MaxRuns = 1 PROVE Spec => ImplementsSchedule
<1>1. Init => Schedule!Init
  BY DEF Init, Schedule!Init, AbstractState
<1>2. IInv /\ IInv' /\ [Next]_vars => [Schedule!Next]_Schedule!vars
  <2>1. IInv' => run' <= 1
    BY DEF IInv, TypeOK
  <2> QED BY <2>1, ScheduleStep
<1> QED BY <1>1, <1>2, Invariance, PTL DEF Spec, ImplementsSchedule, Schedule!Spec
=============================================================================
