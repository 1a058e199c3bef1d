---------------------------- MODULE DAGExecutor ----------------------------
(***************************************************************************)
(* superpowers/dag_executor.py: a graph of task nodes is executed on a     *)
(* thread pool.  One main thread runs the loop of execute(); the workers   *)
(* of the pool run _run_node.  They share node.status, which the workers   *)
(* write and the main thread reads without the lock.                       *)
(*                                                                         *)
(* Abstracted: results, timestamps and error texts; the order in which the *)
(* pool's queue is served and the order in which Python iterates a set     *)
(* (both nondeterministic here); resource_waiters, which the code writes   *)
(* and never reads.                                                        *)
(***************************************************************************)
EXTENDS Naturals, FiniteSets

CONSTANTS
  Nodes,          \* identifiers a caller may use for nodes
  Resources,      \* names of shared resources
  MaxWorkers,     \* max_workers of the thread pool
  MaxRuns         \* bound: how often execute() is called on one object

ASSUME NodesAssumption == IsFiniteSet(Nodes)
ASSUME WorkersAssumption == MaxWorkers \in Nat \ {0}
ASSUME RunsAssumption == MaxRuns \in Nat

VARIABLES
  nodes,          \* keys of _nodes
  deps,           \* node.depends_on
  uses,           \* node.resources
  status,         \* node.status
  run,            \* calls of execute() so far
  pc,             \* where the main thread is in execute()
  todo,           \* rest of list(pending) in the submission scan
  pending,        \* local variable pending
  inFlight,       \* keys of in_flight
  held,           \* held_resources
  completed,      \* rest of completed
  fut,            \* progress of the node's work item in the pool
  outcome         \* what the node's action did

graphVars == <<nodes, deps, uses>>
mainVars  == <<run, pc, todo, pending, inFlight, held, completed>>
poolVars  == <<fut, outcome>>
vars == <<graphVars, status, mainVars, poolVars>>

Status  == {"pending", "running", "done", "failed", "skipped"}
Stage   == {"none", "queued", "running", "ending", "finished"}
Outcome == {"none", "ok", "error", "exit"}
Points  == {"idle", "scan", "poll", "block", "reap", "returned", "raised"}

-----------------------------------------------------------------------------
(* The graph *)

Children(n) == {m \in nodes : n \in deps[m]}

\* _validate: every dependency is known and there is no cycle (Kahn's
\* algorithm itself is module DAGValidate).
Acyclic ==
  \A S \in SUBSET nodes : S # {} => \E n \in S : deps[n] \cap S = {}

Valid ==
  /\ \A n \in nodes : deps[n] \subseteq nodes
  /\ Acyclic

\* The nodes _mark_skipped does not turn back from.
Live == {n \in nodes : status[n] \notin {"done", "failed"}}

\* The nodes _mark_skipped marks when it is called on each member of S: the
\* least set with the live members of S and the live children of its members.
SkipClosed(S, C) ==
  /\ S \cap Live \subseteq C
  /\ \A n \in C : Children(n) \cap Live \subseteq C

Reached(S) == {n \in Live : \A C \in SUBSET Live : SkipClosed(S, C) => n \in C}

MarkSkipped(S) ==
  /\ status' = [n \in Nodes |-> IF n \in Reached(S) THEN "skipped" ELSE status[n]]
  /\ pending' = pending \ Reached(S)

Init ==
  /\ nodes = {}
  /\ deps = [n \in Nodes |-> {}]
  /\ uses = [n \in Nodes |-> {}]
  /\ status = [n \in Nodes |-> "pending"]
  /\ run = 0
  /\ pc = "idle"
  /\ todo = {} /\ pending = {} /\ inFlight = {}
  /\ held = {} /\ completed = {}
  /\ fut = [n \in Nodes |-> "none"]
  /\ outcome = [n \in Nodes |-> "none"]

\* add_node: a duplicate id is refused.  A dependency may name a node that is
\* added later, or never.
AddNode(n, D, R) ==
  /\ pc = "idle"
  /\ n \notin nodes
  /\ nodes' = nodes \cup {n}
  /\ deps' = [deps EXCEPT ![n] = D]
  /\ uses' = [uses EXCEPT ![n] = R]
  /\ UNCHANGED <<status, mainVars, poolVars>>

\* The call returned, or it raised and the pool has been shut down.
Quiet ==
  /\ pc \in {"idle", "returned", "raised"}
  /\ \A n \in Nodes : fut[n] \in {"none", "finished"}

\* The entry of execute(): an invalid graph raises DAGError and changes
\* nothing.  The locals are fresh, the statuses are those of the last call.
Execute ==
  /\ Quiet
  /\ run < MaxRuns
  /\ nodes # {} /\ Valid
  /\ run' = run + 1
  /\ pc' = "scan"
  /\ pending' = nodes /\ todo' = nodes
  /\ inFlight' = {} /\ held' = {} /\ completed' = {}
  /\ fut' = [n \in Nodes |-> "none"]
  /\ outcome' = [n \in Nodes |-> "none"]
  /\ UNCHANGED <<graphVars, status>>

-----------------------------------------------------------------------------
(* The main thread: the submission scan *)

\* Mutants: a dependency that has started counts as done; resources unchecked.
DepsStarted(n) == \A d \in deps[n] : status[d] \in {"running", "done"}
AcquireUnchecked(n) == uses[n] \subseteq Resources

DepFailed(n) == \E d \in deps[n] : status[d] \in {"failed", "skipped"}
DepsReady(n) == \A d \in deps[n] : status[d] = "done"
CanAcquire(n) == uses[n] \cap held = {}

AtNode(n) == pc = "scan" /\ n \in todo /\ todo' = todo \ {n}

\* A node that was marked skipped is dropped.
ScanSkipped(n) ==
  /\ AtNode(n)
  /\ status[n] = "skipped"
  /\ pending' = pending \ {n}
  /\ UNCHANGED <<graphVars, status, run, pc, inFlight, held, completed, poolVars>>

\* A dependency failed or was skipped.
ScanDepFailed(n) ==
  /\ AtNode(n)
  /\ status[n] # "skipped"
  /\ DepFailed(n)
  /\ MarkSkipped({n})
  /\ UNCHANGED <<graphVars, run, pc, inFlight, held, completed, poolVars>>

\* Dependencies unfinished, or a resource held: the node stays pending.
ScanWait(n) ==
  /\ AtNode(n)
  /\ status[n] # "skipped" /\ ~DepFailed(n)
  /\ ~DepsReady(n) \/ ~CanAcquire(n)
  /\ UNCHANGED <<graphVars, status, run, pc, pending, inFlight, held,
                 completed, poolVars>>

\* Dependencies done and resources free: acquire and submit to the pool.
Submit(n) ==
  /\ AtNode(n)
  /\ status[n] # "skipped"
  /\ DepsReady(n) /\ CanAcquire(n)
  /\ held' = held \cup uses[n]
  /\ pending' = pending \ {n}
  /\ inFlight' = inFlight \cup {n}
  /\ fut' = [fut EXCEPT ![n] = "queued"]
  /\ UNCHANGED <<graphVars, status, run, pc, completed, outcome>>

\* Mutant: the loop is not left.
EndScanSpins ==
  /\ pc = "scan" /\ todo = {}
  /\ pc' = "poll"
  /\ UNCHANGED <<graphVars, status, run, todo, pending, inFlight, held, completed, poolVars>>

\* The scan is over: with nothing in flight the rest is skipped and the loop
\* is left.
EndScan ==
  /\ pc = "scan" /\ todo = {}
  /\ IF inFlight = {}
     THEN MarkSkipped(pending) /\ pc' = "returned"
     ELSE pc' = "poll" /\ UNCHANGED <<status, pending>>
  /\ UNCHANGED <<graphVars, run, todo, inFlight, held, completed, poolVars>>

-----------------------------------------------------------------------------
(* The main thread: waiting for futures and reaping them *)

Finished == {n \in inFlight : fut[n] = "finished"}

\* The pass over future.done().
Poll ==
  /\ pc = "poll"
  /\ completed' = Finished
  /\ pc' = IF Finished = {} THEN "block" ELSE "reap"
  /\ UNCHANGED <<graphVars, status, run, todo, pending, inFlight, held, poolVars>>

\* future.result(timeout=0.05) of the futures in turn: the first one found done
\* ends the pass, and an exception that is no Exception leaves execute().
Block(n) ==
  /\ pc = "block" /\ n \in Finished
  /\ IF outcome[n] = "exit"
     THEN pc' = "raised" /\ UNCHANGED completed
     ELSE pc' = "reap" /\ completed' = {n}
  /\ UNCHANGED <<graphVars, status, run, todo, pending, inFlight, held, poolVars>>

\* Back to the head of the loop, whose condition is evaluated again.
NextRound ==
  IF pending' \cup inFlight' = {}
  THEN pc' = "returned" /\ todo' = {}
  ELSE pc' = "scan" /\ todo' = pending'

\* No future was done when its turn came.
BlockTimeout ==
  /\ pc = "block"
  /\ UNCHANGED <<graphVars, status, run, pending, inFlight, held, completed, poolVars>>
  /\ NextRound

\* One completed node: release its resources; skip the dependents if it failed.
Reap(n) ==
  /\ pc = "reap" /\ n \in completed
  /\ completed' = completed \ {n}
  /\ inFlight' = inFlight \ {n}
  /\ held' = held \ uses[n]
  /\ IF status[n] = "failed"
     THEN MarkSkipped(Children(n))
     ELSE UNCHANGED <<status, pending>>
  /\ IF completed' = {} THEN NextRound ELSE UNCHANGED <<pc, todo>>
  /\ UNCHANGED <<graphVars, run, poolVars>>

-----------------------------------------------------------------------------
(* The workers: _run_node in a thread of the pool *)

Busy == {n \in Nodes : fut[n] \in {"running", "ending"}}

WorkerStart(n) ==
  /\ fut[n] = "queued"
  /\ Cardinality(Busy) < MaxWorkers
  /\ fut' = [fut EXCEPT ![n] = "running"]
  /\ status' = [status EXCEPT ![n] = "running"]
  /\ UNCHANGED <<graphVars, mainVars, outcome>>

\* The action returns, raises an Exception, or raises SystemExit, which
\* _run_node does not catch and which leaves the status as it is.
WorkerFinish(n, o) ==
  /\ fut[n] = "running"
  /\ fut' = [fut EXCEPT ![n] = "ending"]
  /\ outcome' = [outcome EXCEPT ![n] = o]
  /\ status' = [status EXCEPT ![n] = CASE o = "ok" -> "done"
                                       [] o = "error" -> "failed"
                                       [] OTHER -> @]
  /\ UNCHANGED <<graphVars, mainVars>>

\* The pool resolves the future after _run_node is left.
WorkerResolve(n) ==
  /\ fut[n] = "ending"
  /\ fut' = [fut EXCEPT ![n] = "finished"]
  /\ UNCHANGED <<graphVars, status, mainVars, outcome>>

-----------------------------------------------------------------------------
Main ==
  \/ \E n \in Nodes : \/ ScanSkipped(n) \/ ScanDepFailed(n)
                      \/ ScanWait(n) \/ Submit(n)
                      \/ Block(n) \/ Reap(n)
  \/ EndScan \/ Poll \/ BlockTimeout

Worker(n) ==
  \/ WorkerStart(n)
  \/ \E o \in Outcome \ {"none"} : WorkerFinish(n, o)
  \/ WorkerResolve(n)

\* A caller need not call again.
Rest == Quiet /\ UNCHANGED vars

Next ==
  \/ \E n \in Nodes, D \in SUBSET Nodes, R \in SUBSET Resources : AddNode(n, D, R)
  \/ Execute
  \/ Main
  \/ \E n \in Nodes : Worker(n)
  \/ Rest

Spec == Init /\ [][Next]_vars

\* The interpreter schedules the main thread and the workers, and the nodes'
\* actions end; nobody is obliged to call execute().
FairSpec == Spec /\ WF_vars(Main) /\ \A n \in Nodes : WF_vars(Worker(n))
-----------------------------------------------------------------------------
(* Properties *)

TypeOK ==
  /\ nodes \subseteq Nodes
  /\ deps \in [Nodes -> SUBSET Nodes]
  /\ uses \in [Nodes -> SUBSET Resources]
  /\ status \in [Nodes -> Status]
  /\ run \in 0 .. MaxRuns
  /\ pc \in Points
  /\ todo \subseteq nodes /\ pending \subseteq nodes
  /\ inFlight \subseteq nodes /\ completed \subseteq inFlight
  /\ held \subseteq Resources
  /\ fut \in [Nodes -> Stage]
  /\ outcome \in [Nodes -> Outcome]

\* "Two nodes that share a resource will never run concurrently"
\* (dag_executor.py:101), on every call of execute(): no two workers are in
\* the actions of nodes that use a common resource.
ResourceExclusion ==
  \A m, n \in Busy : m # n => uses[m] \cap uses[n] = {}

\* A node is handed to the pool only after the action of each of its
\* dependencies has returned in this call.
DepsReturned ==
  \A n \in nodes : fut[n] # "none" => \A d \in deps[n] : outcome[d] = "ok"

\* The first call keeps the order of the graph.
FirstRunOrder == run <= 1 => DepsReturned

\* Nothing that is marked skipped was ever handed to the pool, so no worker
\* writes the status of a node the main thread has written off.
FirstRunSkipped ==
  run <= 1 => \A n \in nodes : status[n] = "skipped" => fut[n] = "none"

\* What the caller of execute() finds when the first call returns follows from
\* what the actions did, however the threads were scheduled: a node is skipped
\* exactly if some dependency did not return, and else it ran.
FirstRunResult ==
  (run = 1 /\ pc = "returned") =>
     \A n \in nodes :
        IF \E d \in deps[n] : status[d] = "skipped" \/ outcome[d] # "ok"
        THEN status[n] = "skipped" /\ outcome[n] = "none"
        ELSE \/ outcome[n] = "ok" /\ status[n] = "done"
             \/ outcome[n] = "error" /\ status[n] = "failed"
             \/ outcome[n] = "exit" /\ status[n] = "running"

\* The main thread goes round until something in flight is done, and something will
\* be: a work item is done, or runs, or a worker is free to take it up; and when
\* execute() returns, in whichever call, nothing is left in the pool.
WaitsForWork ==
  /\ pc \in {"poll", "block"} =>
       \E n \in inFlight : \/ fut[n] \in {"running", "ending", "finished"}
                           \/ fut[n] = "queued" /\ Cardinality(Busy) < MaxWorkers
  /\ pc = "returned" => Quiet

\* What one call of execute() keeps, under every schedule of the pool: no two
\* nodes that share a resource run at once (256-260), dependencies first, what is
\* skipped never runs, the result follows from the actions, and the loop never
\* waits for a future nobody will resolve.
ExecutorSafe == /\ TypeOK /\ ResourceExclusion
                /\ FirstRunOrder /\ FirstRunSkipped /\ FirstRunResult
                /\ WaitsForWork

\* "When a node fails, all transitive dependents are marked as skipped"
\* (dag_executor.py:181), whichever call it fails in.
FailureSkipsDependents ==
  pc = "returned" =>
     \A n \in nodes, m \in nodes :
        (status[m] = "failed" /\ m \in deps[n]) => status[n] = "skipped"

\* While a call of execute() is under way, no node it has finished with is run
\* again: done, failed and skipped are final within the call.
FinalWithinCall ==
  [][run' = run =>
       \A n \in nodes :
          (run = 1 /\ status[n] \in {"done", "failed", "skipped"})
             => status'[n] = status[n]]_vars

\* A call of execute() ends: no lost completion and no resource that is never
\* released keeps the loop going for ever.
Terminates == (pc = "scan") ~> Quiet

\* Inductive for every call.  The resources held are those of the nodes in
\* flight, which share none; a work item that is not finished is in flight; a
\* node to be scanned is not.
CallInv ==
  /\ \A r \in Resources : r \in held <=> \E n \in inFlight : r \in uses[n]
  /\ \A m, n \in inFlight : m # n => uses[m] \cap uses[n] = {}
  /\ \A n \in Nodes : fut[n] \in {"queued", "running", "ending"} => n \in inFlight
  /\ \A n \in completed : fut[n] = "finished"
  /\ (todo \cup pending) \cap inFlight = {}

\* Inductive for every call.  A node in flight has a work item, the passes that wait
\* have something in flight, and the loop is left with nothing in flight.
LoopInv ==
  /\ \A n \in inFlight : fut[n] # "none"
  /\ pc \in {"poll", "block"} => inFlight # {}
  /\ pc = "reap" => completed # {}
  /\ pc \in {"idle", "returned"} => inFlight = {}

\* Inductive for the first call, where a status says what the action did.
FirstRunInv ==
  /\ run = 0 <=> pc = "idle"
  /\ run = 0 => inFlight = {} /\ \A n \in Nodes : status[n] = "pending" /\ fut[n] = "none"
  /\ \A n \in Nodes :
       /\ fut[n] \in {"none", "queued", "running"} <=> outcome[n] = "none"
       /\ status[n] = "done" <=> outcome[n] = "ok"
       /\ status[n] = "failed" <=> outcome[n] = "error"
       /\ status[n] = "skipped" => fut[n] = "none"
       /\ n \in todo \cup pending => fut[n] = "none"
  /\ DepsReturned

\* No node of the first call is forgotten, and none is skipped without a cause.
FirstRunCover ==
  /\ \A n \in nodes : deps[n] \subseteq nodes
  /\ \A n \in nodes : fut[n] = "none" => status[n] \in {"pending", "skipped"}
  /\ \A n \in nodes : status[n] = "pending" => n \in pending \/ fut[n] = "queued"
  /\ \A n \in pending : status[n] = "pending"
  /\ \A n \in nodes :
       status[n] = "skipped" =>
         \E d \in deps[n] : status[d] = "skipped" \/ outcome[d] \in {"error", "exit"}
  /\ (pc = "scan" /\ inFlight = {}) =>
       \A n \in pending \ todo : \E d \in deps[n] : status[d] # "done"
  /\ pc = "returned" => pending = {} /\ inFlight = {}

IInv ==
  /\ TypeOK /\ CallInv
  /\ run <= 1 => FirstRunInv
  /\ run = 1 => FirstRunCover

-----------------------------------------------------------------------------
(* The first call implements DAGSchedule: a node holds its resources from    *)
(* submission until it is reaped, and is over for its dependents as soon as  *)
(* its action has ended.                                                     *)

AbstractState(n) ==
  IF n \notin nodes THEN "absent"
  ELSE IF status[n] = "skipped" THEN "dropped"
  ELSE IF outcome[n] = "ok" THEN "good"
  ELSE IF outcome[n] # "none" THEN "bad"
  ELSE IF fut[n] = "none" THEN "waiting" ELSE "active"

Schedule ==
  INSTANCE DAGSchedule
    WITH st <- [n \in Nodes |-> AbstractState(n)], holders <- inFlight

\* One call of execute() is an execution of the abstract scheduler: order,
\* exclusion, one start per node, and no node dropped without a cause.
ImplementsSchedule == Schedule!Spec

=============================================================================
