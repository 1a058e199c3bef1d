---------------------------- MODULE DAGSchedule ----------------------------
(***************************************************************************)
(* What superpowers/dag_executor.py promises of one call of execute(),     *)
(* without loops, queues and threads: a declared node waits until all its  *)
(* dependencies are good and its resources are free, is active, and ends   *)
(* well or badly; a node that can never become ready is dropped.           *)
(***************************************************************************)
EXTENDS FiniteSets

CONSTANTS Nodes, Resources

VARIABLES
  deps, uses,     \* the graph
  st,             \* state of each node
  holders         \* the nodes that own their resources

vars == <<deps, uses, st, holders>>

St == {"absent", "waiting", "active", "good", "bad", "dropped"}

Init ==
  /\ deps = [n \in Nodes |-> {}] /\ uses = [n \in Nodes |-> {}]
  /\ st = [n \in Nodes |-> "absent"]
  /\ holders = {}

\* The caller declares a node before anything has run.
Declare(n, D, R) ==
  /\ \A m \in Nodes : st[m] \in {"absent", "waiting"}
  /\ st[n] = "absent"
  /\ st' = [st EXCEPT ![n] = "waiting"]
  /\ deps' = [deps EXCEPT ![n] = D] /\ uses' = [uses EXCEPT ![n] = R]
  /\ UNCHANGED holders

Begin(n) ==
  /\ st[n] = "waiting"
  /\ \A d \in deps[n] : st[d] = "good"
  /\ \A m \in holders : uses[m] \cap uses[n] = {}
  /\ st' = [st EXCEPT ![n] = "active"]
  /\ holders' = holders \cup {n}
  /\ UNCHANGED <<deps, uses>>

End(n) ==
  /\ st[n] = "active"
  /\ \E e \in {"good", "bad"} : st' = [st EXCEPT ![n] = e]
  /\ UNCHANGED <<deps, uses, holders>>

\* Some waiting nodes, each with a bad or dropped dependency or one that is
\* dropped with it.
CanDrop(D) ==
  /\ D # {}
  /\ \A n \in D : /\ st[n] = "waiting"
                  /\ \E d \in deps[n] : d \in D \/ st[d] \in {"bad", "dropped"}

Dropped(D) == [n \in Nodes |-> IF n \in D THEN "dropped" ELSE st[n]]

Drop ==
  /\ \E D \in SUBSET Nodes : CanDrop(D) /\ st' = Dropped(D)
  /\ UNCHANGED <<deps, uses, holders>>

\* The owner of resources gives them up, which may settle others' fate.
Release(n) ==
  /\ n \in holders /\ st[n] \in {"good", "bad"}
  /\ holders' = holders \ {n}
  /\ \/ UNCHANGED st
     \/ \E D \in SUBSET Nodes : CanDrop(D) /\ st' = Dropped(D)
  /\ UNCHANGED <<deps, uses>>

Next ==
  \/ \E n \in Nodes :
       \/ \E D \in SUBSET Nodes, R \in SUBSET Resources : Declare(n, D, R)
       \/ Begin(n) \/ End(n) \/ Release(n)
  \/ Drop

Spec == Init /\ [][Next]_vars
=============================================================================
