---------------------------- MODULE DAGValidate ----------------------------
(***************************************************************************)
(* superpowers/dag_executor.py: Kahn's algorithm, which the file holds     *)
(* twice.  _validate refuses a graph with an unknown dependency or a       *)
(* cycle; _topological_sort gives to_ascii an order to draw and checks     *)
(* nothing.  They differ in what they take from the deque first, which is  *)
(* left open here.  depends_on is a list: it may name a node twice.        *)
(***************************************************************************)
EXTENDS Naturals, Sequences, FiniteSets

CONSTANTS
  Ids,            \* node ids, and ids that dependencies may name
  MaxDeps         \* scenario: length of depends_on

ASSUME IdsAssumption == IsFiniteSet(Ids)

VARIABLES
  nodes,          \* keys of _nodes
  depends_on,
  caller,         \* which of the two copies runs
  in_degree,
  queue,          \* what is in the deque
  order,          \* nodes taken from the deque; _validate counts them (visited)
  phase

vars == <<nodes, depends_on, caller, in_degree, queue, order, phase>>

Init ==
  /\ nodes \in SUBSET Ids
  /\ depends_on \in [nodes -> UNION {[1..n -> Ids] : n \in 0..MaxDeps}]
  /\ caller \in {"_validate", "_topological_sort"}
  /\ in_degree = [n \in nodes |-> 0]
  /\ queue = {}
  /\ order = <<>>
  /\ phase = "start"

\* The entries of n's depends_on that name a node of D.
Entries(n, D) == {k \in DOMAIN depends_on[n] : depends_on[n][k] \in D}

Known == \A n \in nodes : \A k \in DOMAIN depends_on[n] : depends_on[n][k] \in nodes

\* _validate raises DAGError; _topological_sort raises KeyError at adj[dep_id].
Refuse ==
  /\ phase = "start" /\ ~Known
  /\ phase' = "unknown"
  /\ UNCHANGED <<nodes, depends_on, caller, in_degree, queue, order>>

Build ==
  /\ phase = "start" /\ Known
  /\ in_degree' = [n \in nodes |-> Cardinality(Entries(n, nodes))]
  /\ queue' = {n \in nodes : in_degree'[n] = 0}
  /\ phase' = "loop"
  /\ UNCHANGED <<nodes, depends_on, caller, order>>

\* Mutants: a child is counted down once for all its entries; a child joins the
\* queue at every entry.
DequeueOnce(n) ==
  /\ phase = "loop" /\ n \in queue
  /\ order' = Append(order, n)
  /\ in_degree' = [m \in nodes |-> IF Entries(m, {n}) = {} THEN in_degree[m] ELSE in_degree[m] - 1]
  /\ queue' = (queue \ {n}) \cup {m \in nodes : in_degree[m] > 0 /\ in_degree'[m] = 0}
  /\ UNCHANGED <<nodes, depends_on, caller, phase>>

\* adj[n] holds a child as often as the child's depends_on names n.
Dequeue(n) ==
  /\ phase = "loop" /\ n \in queue
  /\ order' = Append(order, n)
  /\ in_degree' = [m \in nodes |-> in_degree[m] - Cardinality(Entries(m, {n}))]
  /\ queue' = (queue \ {n}) \cup {m \in nodes : in_degree[m] > 0 /\ in_degree'[m] = 0}
  /\ UNCHANGED <<nodes, depends_on, caller, phase>>

Finish ==
  /\ phase = "loop" /\ queue = {}
  /\ phase' = IF caller = "_validate" /\ Len(order) # Cardinality(nodes)
              THEN "circular" ELSE "accepted"
  /\ UNCHANGED <<nodes, depends_on, caller, in_degree, queue, order>>

Next == Refuse \/ Build \/ (\E n \in nodes : Dequeue(n)) \/ Finish

Spec == Init /\ [][Next]_vars

-----------------------------------------------------------------------------
(* Properties *)

Visited == {order[i] : i \in DOMAIN order}
Deps(n) == {depends_on[n][k] : k \in DOMAIN depends_on[n]}

TypeOK ==
  /\ nodes \in SUBSET Ids
  /\ depends_on \in [nodes -> Seq(Ids)]
  /\ caller \in {"_validate", "_topological_sort"}
  /\ in_degree \in [nodes -> Nat]
  /\ queue \in SUBSET nodes
  /\ order \in Seq(nodes)
  /\ phase \in {"start", "unknown", "loop", "circular", "accepted"}

\* No set of nodes in which each waits for another of the set.
Acyclic == \A S \in SUBSET nodes : S # {} => \E n \in S : Deps(n) \cap S = {}

\* _validate accepts exactly the graphs that execute() can run to the end:
\* every dependency is a node, and there is no cycle.
Verdict ==
  /\ phase = "unknown" => ~Known
  /\ phase = "circular" => Known /\ ~Acyclic
  /\ phase = "accepted" /\ caller = "_validate" => Known /\ Acyclic

\* Nodes are taken behind all their dependencies, each once; without a cycle
\* all of them are.
Ordered ==
  /\ \A i \in DOMAIN order : Deps(order[i]) \subseteq {order[j] : j \in 1..(i - 1)}
  /\ Len(order) = Cardinality(Visited)
  /\ phase = "accepted" /\ Acyclic => Visited = nodes

\* The two callers of the same loop get a right verdict and a right order.
ValidationSound == Verdict /\ Ordered

\* Inductive strengthening of Verdict and Ordered: the queue holds the nodes
\* whose dependencies have all been taken, and no taken one waits for others.
KahnInv ==
  /\ Verdict /\ Ordered
  /\ phase = "start" => order = <<>> /\ queue = {}
  /\ phase \notin {"start", "unknown"} =>
       /\ Known
       /\ \A n \in nodes : in_degree[n] = Cardinality(Entries(n, nodes \ Visited))
       /\ queue = {n \in nodes \ Visited : in_degree[n] = 0}
       /\ \A S \in SUBSET Visited : S # {} => \E n \in S : Deps(n) \cap S = {}
       /\ \A n \in Visited : Deps(n) \subseteq Visited
=============================================================================
