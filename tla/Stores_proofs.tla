---------------------------- MODULE Stores_proofs ----------------------------
(***************************************************************************)
(* What is kept, for any number of processes, keys, files and hosts: the   *)
(* types and the safety of task graphs, the vault, the rotation policies,  *)
(* packs, templates, conversations, memories, shared skills, releases,     *)
(* rankings of agents and SSH clients.  Each component has its own behaviours; a    *)
(* section is about one of them and cites nothing of the others.           *)
(***************************************************************************)
EXTENDS MCStores, FiniteSetTheorems, SequenceTheorems,
        WellFoundedInduction, TLAPS


-----------------------------------------------------------------------------
\* DAGValidate: Kahn's algorithm, for every graph.

\* Entries of one list are finitely many.
LEMMA EntriesFinite ==
  ASSUME TypeOK, NEW m \in nodes, NEW D
  PROVE  IsFiniteSet(Entries(m, D)) /\ Cardinality(Entries(m, D)) \in Nat
<1>1. DOMAIN depends_on[m] = 1..Len(depends_on[m]) /\ Len(depends_on[m]) \in Nat
  BY DEF TypeOK
<1>2. IsFiniteSet(DOMAIN depends_on[m])
  BY <1>1, FS_Interval
<1>3. Entries(m, D) \subseteq DOMAIN depends_on[m]
  BY DEF Entries
<1> QED BY <1>2, <1>3, FS_Subset, FS_CardinalityType

\* Taking n out of D takes the entries that name it out of the count.
LEMMA CountDown ==
  ASSUME TypeOK, NEW m \in nodes, NEW D, NEW n \in D
  PROVE  Cardinality(Entries(m, D \ {n}))
           = Cardinality(Entries(m, D)) - Cardinality(Entries(m, {n}))
<1> DEFINE A == Entries(m, D \ {n})
           B == Entries(m, {n})
<1>1. A \cup B = Entries(m, D) /\ A \cap B = {}
  BY DEF Entries
<1>2. IsFiniteSet(A) /\ IsFiniteSet(B) /\ Cardinality(A) \in Nat /\ Cardinality(B) \in Nat
  BY EntriesFinite
<1>3. Cardinality(A \cup B) = Cardinality(A) + Cardinality(B) - Cardinality(A \cap B)
  BY <1>2, FS_Union
<1>4. Cardinality(A \cap B) = 0
  BY <1>1, FS_EmptySet
<1>5. Cardinality(Entries(m, D)) = Cardinality(A) + Cardinality(B)
  <2> HIDE DEF A, B
  <2> QED BY <1>1, <1>2, <1>3, <1>4
<1>6. Cardinality(A) = Cardinality(Entries(m, D)) - Cardinality(B)
  <2> HIDE DEF A, B
  <2> QED BY <1>2, <1>5
<1> QED BY <1>6

\* A node without entries for D depends on nothing of D.
LEMMA NoEntries ==
  ASSUME TypeOK, NEW m \in nodes, NEW D
  PROVE  Cardinality(Entries(m, D)) = 0 <=> Deps(m) \cap D = {}
<1>1. Entries(m, D) = {} <=> Deps(m) \cap D = {}
  BY DEF Entries, Deps
<1> QED BY <1>1, EntriesFinite, FS_EmptySet

\* Nodes that were taken are nodes, and finitely many.
LEMMA VisitedFinite ==
  ASSUME TypeOK
  PROVE  Visited \subseteq nodes /\ IsFiniteSet(Visited) /\ IsFiniteSet(nodes)
<1>1. Visited \subseteq nodes
  BY DEF TypeOK, Visited
<1>2. IsFiniteSet(nodes)
  BY IdsAssumption, FS_Subset DEF TypeOK
<1> QED BY <1>1, <1>2, FS_Subset

\* What taking a node does to the order.
LEMMA AppendVisited ==
  ASSUME TypeOK, NEW n \in nodes, order' = Append(order, n)
  PROVE  /\ Visited' = Visited \cup {n} /\ Len(order') = Len(order) + 1
         /\ DOMAIN order = 1..Len(order) /\ DOMAIN order' = 1..(Len(order) + 1)
         /\ Len(order) \in Nat
         /\ \A i \in DOMAIN order : order'[i] = order[i]
         /\ order'[Len(order) + 1] = n
<1>1. order \in Seq(nodes)
  BY DEF TypeOK
<1>2. /\ Len(order') = Len(order) + 1 /\ Len(order) \in Nat
      /\ DOMAIN order = 1..Len(order) /\ DOMAIN order' = 1..(Len(order) + 1)
      /\ \A i \in 1..Len(order) : order'[i] = order[i]
      /\ order'[Len(order) + 1] = n
  BY <1>1
<1>3. 1..(Len(order) + 1) = 1..Len(order) \cup {Len(order) + 1}
  BY <1>2
<1>4. Visited' = {order'[i] : i \in 1..Len(order)} \cup {n}
  BY <1>2, <1>3 DEF Visited
<1> QED BY <1>2, <1>4 DEF Visited

\* No step changes the graph, or what is said of the graph alone.
LEMMA SameGraph ==
  ASSUME UNCHANGED <<nodes, depends_on>>
  PROVE  /\ Known' = Known /\ Acyclic' = Acyclic
         /\ \A n : Deps(n)' = Deps(n)
         /\ \A n, D : Entries(n, D)' = Entries(n, D)
<1>1. \A n : Deps(n)' = Deps(n)
  BY DEF Deps
<1>2. \A n, D : Entries(n, D)' = Entries(n, D)
  BY DEF Entries
<1>3. Known' = Known
  BY DEF Known
<1>4. Acyclic' = Acyclic
  BY <1>1 DEF Acyclic, Deps
<1> QED BY <1>1, <1>2, <1>3, <1>4

\* A step that takes no node keeps Visited, and what Ordered says of the order.
LEMMA SameOrder ==
  ASSUME KahnInv, UNCHANGED <<nodes, depends_on, order>>
  PROVE  /\ Visited' = Visited
         /\ (\A i \in DOMAIN order : Deps(order[i]) \subseteq {order[j] : j \in 1..(i - 1)})'
         /\ Len(order') = Cardinality(Visited')
<1>1. Visited' = Visited
  BY DEF Visited
<1>3. (\A i \in DOMAIN order : Deps(order[i]) \subseteq {order[j] : j \in 1..(i - 1)})'
  <2>1. \A i \in DOMAIN order : Deps(order[i]) \subseteq {order[j] : j \in 1..(i - 1)}
    BY DEF KahnInv, Ordered
  <2> QED BY <2>1 DEF Deps
<1> QED BY <1>1, <1>3 DEF KahnInv, Ordered

-----------------------------------------------------------------------------
\* Every step keeps the types; that in_degree stays a natural number is part
\* of what KahnInv says.
LEMMA TypeStep == TypeOK /\ KahnInv /\ [Next]_vars => TypeOK'
<1> SUFFICES ASSUME TypeOK, KahnInv, [Next]_vars PROVE TypeOK'
  OBVIOUS
<1>1. CASE Refuse \/ Finish \/ UNCHANGED vars
  BY <1>1 DEF Refuse, Finish, vars, TypeOK
<1>2. CASE Build
  <2>1. in_degree' \in [nodes -> Nat]
    BY <1>2, EntriesFinite DEF Build
  <2> QED BY <1>2, <2>1 DEF Build, TypeOK
<1>3. ASSUME NEW n \in nodes, Dequeue(n) PROVE TypeOK'
  <2>1. n \in nodes \ Visited
    BY <1>3 DEF Dequeue, KahnInv
  <2>2. in_degree' \in [nodes -> Nat]
    <3>1. ASSUME NEW m \in nodes
          PROVE  in_degree[m] - Cardinality(Entries(m, {n})) \in Nat
      <4>1. in_degree[m] = Cardinality(Entries(m, nodes \ Visited))
        BY <1>3 DEF Dequeue, KahnInv
      <4>2. Cardinality(Entries(m, (nodes \ Visited) \ {n}))
              = Cardinality(Entries(m, nodes \ Visited)) - Cardinality(Entries(m, {n}))
        BY <2>1, CountDown
      <4>3. Cardinality(Entries(m, (nodes \ Visited) \ {n})) \in Nat
        BY EntriesFinite
      <4> QED BY <4>1, <4>2, <4>3
    <3> QED BY <1>3, <3>1 DEF Dequeue
  <2>3. order' \in Seq(nodes) /\ queue' \in SUBSET nodes
    BY <1>3 DEF Dequeue, TypeOK
  <2> QED BY <1>3, <2>2, <2>3 DEF Dequeue, TypeOK
<1> QED BY <1>1, <1>2, <1>3 DEF Next

\* Every step keeps KahnInv.
LEMMA KahnStep == TypeOK /\ KahnInv /\ [Next]_vars => KahnInv'
<1> SUFFICES ASSUME TypeOK, KahnInv, [Next]_vars PROVE KahnInv'
  OBVIOUS
<1>0. CASE UNCHANGED vars
  <2>1. UNCHANGED <<nodes, depends_on, caller, in_degree, queue, order, phase>>
    BY <1>0 DEF vars
  <2>2. Verdict'
    BY <2>1, SameGraph DEF KahnInv, Verdict
  <2>3. Visited' = Visited
    BY <2>1 DEF Visited
  <2>4. Ordered'
    BY <2>1, <2>3, SameGraph DEF KahnInv, Ordered
  <2> QED BY <2>1, <2>2, <2>3, <2>4, SameGraph, ZenonT(40) DEF KahnInv
<1>1. CASE Refuse
  <2>1. /\ UNCHANGED <<nodes, depends_on, order>> /\ ~Known
        /\ phase' = "unknown" /\ phase = "start"
    BY <1>1 DEF Refuse
  <2>2. Verdict' /\ Ordered'
    BY <2>1 DEF KahnInv, Verdict, Ordered, Known, Visited, Deps
  <2> QED BY <2>1, <2>2 DEF KahnInv
<1>2. CASE Build
  <2>1. /\ UNCHANGED <<nodes, depends_on, caller, order>> /\ phase' = "loop" /\ Known
        /\ order = <<>> /\ Visited = {} /\ phase = "start"
    BY <1>2 DEF Build, KahnInv, Visited
  <2>2. /\ in_degree' = [n \in nodes |-> Cardinality(Entries(n, nodes \ Visited))]
        /\ queue' = {n \in nodes \ Visited : in_degree'[n] = 0}
    BY <1>2, <2>1 DEF Build
  <2>3. Ordered'
    BY <2>1 DEF KahnInv, Ordered, Visited, Deps
  <2> QED BY <2>1, <2>2, <2>3 DEF KahnInv, Verdict, Known, Visited, Deps, Entries
<1>3. ASSUME NEW n \in nodes, Dequeue(n) PROVE KahnInv'
  <2>1. /\ UNCHANGED <<nodes, depends_on, caller, phase>> /\ phase = "loop"
        /\ order' = Append(order, n) /\ Known
        /\ n \in nodes \ Visited /\ in_degree[n] = 0
    BY <1>3 DEF Dequeue, KahnInv
  <2>2. Visited' = Visited \cup {n}
    BY <2>1, AppendVisited
  <2>3. Deps(n) \subseteq Visited
    <3>1. Deps(n) \cap (nodes \ Visited) = {}
      BY <2>1, NoEntries DEF KahnInv
    <3> QED BY <2>1, <3>1 DEF Known, Deps
  <2>4. \A m \in nodes :
          /\ in_degree'[m] = Cardinality(Entries(m, nodes \ Visited'))
          /\ in_degree[m] \in Nat /\ in_degree'[m] \in Nat /\ in_degree'[m] <= in_degree[m]
    <3> SUFFICES ASSUME NEW m \in nodes
                 PROVE  /\ in_degree'[m] = Cardinality(Entries(m, nodes \ Visited'))
                        /\ in_degree[m] \in Nat /\ in_degree'[m] \in Nat
                        /\ in_degree'[m] <= in_degree[m]
      OBVIOUS
    <3>1. nodes \ Visited' = (nodes \ Visited) \ {n}
      BY <2>2
    <3>2. in_degree[m] = Cardinality(Entries(m, nodes \ Visited))
      BY <2>1 DEF KahnInv
    <3>3. in_degree'[m] = in_degree[m] - Cardinality(Entries(m, {n}))
      BY <1>3 DEF Dequeue
    <3>4. Cardinality(Entries(m, (nodes \ Visited) \ {n}))
            = Cardinality(Entries(m, nodes \ Visited)) - Cardinality(Entries(m, {n}))
      BY <2>1, CountDown
    <3>5. /\ Cardinality(Entries(m, nodes \ Visited)) \in Nat
          /\ Cardinality(Entries(m, {n})) \in Nat
          /\ Cardinality(Entries(m, (nodes \ Visited) \ {n})) \in Nat
      BY EntriesFinite
    <3>6. Cardinality(Entries(m, nodes \ Visited'))
            = Cardinality(Entries(m, (nodes \ Visited) \ {n}))
      BY <3>1
    <3> QED BY <3>2, <3>3, <3>4, <3>5, <3>6
  <2>5. queue' = {m \in nodes \ Visited' : in_degree'[m] = 0}
    <3>1. queue = {m \in nodes \ Visited : in_degree[m] = 0}
      BY <2>1 DEF KahnInv
    <3>2. queue' = (queue \ {n}) \cup {m \in nodes : in_degree[m] > 0 /\ in_degree'[m] = 0}
      BY <1>3 DEF Dequeue
    <3>3. \A m \in Visited' : in_degree[m] = 0
      <4>1. \A m \in Visited : Cardinality(Entries(m, nodes \ Visited)) = 0
        BY <2>1, NoEntries, VisitedFinite DEF KahnInv
      <4> QED BY <2>1, <2>2, <4>1, VisitedFinite DEF KahnInv
    <3> QED BY <2>2, <2>4, <3>1, <3>2, <3>3
  <2>6. \A S \in SUBSET Visited' : S # {} => \E m \in S : Deps(m) \cap S = {}
    <3> SUFFICES ASSUME NEW S \in SUBSET Visited', S # {}
                 PROVE  \E m \in S : Deps(m) \cap S = {}
      OBVIOUS
    <3>1. CASE S = {n}
      BY <2>1, <2>3, <3>1
    <3>2. CASE S # {n}
      <4>0. S \ {n} \in SUBSET Visited /\ S \ {n} # {}
        BY <2>2, <3>2
      <4>1. PICK m \in S \ {n} : Deps(m) \cap (S \ {n}) = {}
        BY <2>1, <4>0 DEF KahnInv
      <4>2. Deps(m) \subseteq Visited
        BY <2>1, <2>2, <4>1 DEF KahnInv
      <4> QED BY <2>1, <4>1, <4>2
    <3> QED BY <3>1, <3>2
  <2>7. \A m \in Visited' : Deps(m) \subseteq Visited'
    BY <2>1, <2>2, <2>3 DEF KahnInv
  <2>8. \A m : Deps(m)' = Deps(m)
    BY <2>1 DEF Deps
  <2>9. Ordered'
    <3>1. ASSUME NEW i \in DOMAIN order' PROVE Deps(order'[i]) \subseteq {order'[j] : j \in 1..(i - 1)}
      <4>1. CASE i \in DOMAIN order
        BY <2>1, <4>1, AppendVisited DEF KahnInv, Ordered
      <4>2. CASE i = Len(order) + 1
        <5>1. {order'[j] : j \in 1..(i - 1)} = Visited
          BY <2>1, <4>2, AppendVisited DEF Visited
        <5> QED BY <2>1, <2>3, <4>2, <5>1, AppendVisited
      <4>3. DOMAIN order = 1..Len(order) /\ DOMAIN order' = 1..(Len(order) + 1)
            /\ Len(order) \in Nat
        BY <2>1, AppendVisited
      <4>4. i \in DOMAIN order \/ i = Len(order) + 1
        BY <3>1, <4>3
      <4> QED BY <4>1, <4>2, <4>4
    <3>2. Len(order') = Cardinality(Visited')
      <4>1. Cardinality(Visited \cup {n}) = Cardinality(Visited) + 1
        BY <2>1, VisitedFinite, FS_AddElement
      <4> QED BY <2>1, <2>2, <4>1, AppendVisited DEF KahnInv, Ordered
    <3> QED BY <2>1, <2>8, <3>1, <3>2 DEF Ordered
  <2>10. Entries(n, nodes)' = Entries(n, nodes) /\ Known' /\ Verdict'
    BY <2>1 DEF Entries, Known, Verdict
  <2> QED BY <2>1, <2>4, <2>5, <2>6, <2>7, <2>8, <2>9, <2>10 DEF KahnInv, Entries
<1>4. CASE Finish
  <2>1. /\ UNCHANGED <<nodes, depends_on, caller, in_degree, queue, order>>
        /\ phase = "loop" /\ queue = {} /\ Known
        /\ phase' = IF caller = "_validate" /\ Len(order) # Cardinality(nodes)
                    THEN "circular" ELSE "accepted"
    BY <1>4 DEF Finish, KahnInv
  <2>2. Len(order) # Cardinality(nodes) <=> Visited # nodes
    <3>1. Len(order) = Cardinality(Visited)
      BY DEF KahnInv, Ordered
    <3> QED BY <3>1, VisitedFinite, FS_Subset
  <2>3. Visited # nodes => ~Acyclic
    <3> SUFFICES ASSUME Visited # nodes PROVE ~Acyclic
      OBVIOUS
    <3>1. nodes \ Visited # {}
      BY VisitedFinite
    <3>2. \A m \in nodes \ Visited : Deps(m) \cap (nodes \ Visited) # {}
      BY <2>1, NoEntries DEF KahnInv
    <3> QED BY <3>1, <3>2 DEF Acyclic
  <2>4. Visited = nodes => Acyclic
    BY <2>1 DEF KahnInv, Acyclic
  <2>5. Verdict'
    <3>1. phase' = "circular" => Known' /\ ~Acyclic'
      BY <2>1, <2>2, <2>3, SameGraph
    <3>2. phase' = "accepted" /\ caller' = "_validate" => Known' /\ Acyclic'
      BY <2>1, <2>2, <2>4, SameGraph
    <3> QED BY <2>1, <3>1, <3>2 DEF Verdict
  <2>6. Ordered'
    <3>1. phase' = "accepted" /\ Acyclic' => Visited' = nodes'
      BY <2>1, <2>3, SameGraph, SameOrder
    <3> QED BY <2>1, <3>1, SameOrder DEF Ordered
  <2>7. phase' # "start"
    BY <2>1
  <2> QED BY <2>1, <2>5, <2>6, <2>7, SameGraph, SameOrder DEF KahnInv
<1> QED BY <1>0, <1>1, <1>2, <1>3, <1>4 DEF Next

-----------------------------------------------------------------------------
\* KahnInv, and the types, hold in every reachable state.
THEOREM KahnInvariant == Spec => [](TypeOK /\ KahnInv)
<1>1. Init => TypeOK /\ KahnInv
  <2> SUFFICES ASSUME Init PROVE TypeOK /\ KahnInv
    OBVIOUS
  <2>1. TypeOK
    BY DEF Init, TypeOK
  <2>2. Visited = {} /\ Cardinality({}) = 0
    BY FS_EmptySet DEF Init, Visited
  <2> QED BY <2>1, <2>2 DEF Init, KahnInv, Verdict, Ordered
<1> QED BY <1>1, TypeStep, KahnStep, PTL DEF Spec

\* _validate accepts a graph exactly if all its dependencies are nodes and it
\* has no cycle.
THEOREM Validation == Spec => []Verdict
<1>1. KahnInv => Verdict
  BY DEF KahnInv
<1> QED BY <1>1, KahnInvariant, PTL

\* _topological_sort puts every node behind its dependencies, and leaves out
\* none if there is no cycle.
THEOREM Sorting == Spec => []Ordered
<1>1. KahnInv => Ordered
  BY DEF KahnInv
<1> QED BY <1>1, KahnInvariant, PTL

\* The loop both callers share gives a right verdict and a right order.
THEOREM Soundness == Spec => []ValidationSound
<1>1. Verdict /\ Ordered => ValidationSound
  BY DEF ValidationSound
<1> QED BY <1>1, Validation, Sorting, PTL

-----------------------------------------------------------------------------
\* Vault: what a vault holds, and that nothing is lost from it.

\* What a process does nothing with.
LEMMA IdleState == Idle \in VaultState /\ EmptyVault \in Secrets
<1>1. (CHOOSE k \in VaultKeys : TRUE) \in VaultKeys
  BY VaultAssumption
<1>2. EmptyVault \in Secrets
  BY DEF EmptyVault, Secrets
<1> QED BY <1>1, <1>2 DEF Idle, VaultState

\* Every step keeps the types.
LEMMA VaultTypeStep == VaultTypeOK /\ [VaultNext]_vaultVars => VaultTypeOK'
<1> SUFFICES ASSUME VaultTypeOK, [VaultNext]_vaultVars PROVE VaultTypeOK'
  OBVIOUS
<1> USE DEF VaultTypeOK
<1>1. ASSUME NEW p \in VaultProcs, VaultRaises(p) PROVE VaultTypeOK'
  BY <1>1, IdleState DEF VaultRaises
<1>2. ASSUME NEW p \in VaultProcs, CallInit(p) PROVE VaultTypeOK'
  <2>1. [Idle EXCEPT !.at = IF identity = "none" THEN "keygen" ELSE "pubkey", !.call = "init"]
          \in VaultState
    BY IdleState DEF VaultState
  <2> QED BY <1>2, <2>1, VaultAssumption DEF CallInit
<1>3. ASSUME NEW p \in VaultProcs, CallSet(p) PROVE VaultTypeOK'
  <2>1. ASSUME NEW k \in VaultKeys, NEW v \in VaultValues \cup {"none"}
        PROVE  [Idle EXCEPT !.at = "decrypt", !.call = IF v = "none" THEN "delete" ELSE "set",
                            !.name = k, !.value = v] \in VaultState
    BY IdleState DEF VaultState
  <2>2. \E r \in VaultState : vault' = [vault EXCEPT ![p] = r]
    BY <1>3, <2>1 DEF CallSet
  <2>3. vaultCalls' \in 0..MaxVaultCalls /\ UNCHANGED <<identity, vaultFile, raced>>
    BY <1>3, VaultAssumption DEF CallSet
  <2> QED BY <2>2, <2>3
<1>4. ASSUME NEW p \in VaultProcs, OpenIdentity(p) \/ WriteIdentity(p) PROVE VaultTypeOK'
  <2>1. ASSUME NEW to \in {"identity", "pubkey"} PROVE [vault[p] EXCEPT !.at = to] \in VaultState
    BY DEF VaultState
  <2> QED BY <1>4, <2>1 DEF OpenIdentity, WriteIdentity
<1>5. ASSUME NEW p \in VaultProcs, ReadPubkey(p) \/ Encrypt(p) PROVE VaultTypeOK'
  <2>1. CASE VaultRaises(p)
    BY <2>1, <1>1
  <2>2. CASE HasIdentity /\ UNCHANGED <<identity, vaultFile, raced, vaultCalls>>
             /\ vault' = [vault EXCEPT ![p].at = "replace", ![p].key = identity]
    <3>1. [vault[p] EXCEPT !.at = "replace", !.key = identity] \in VaultState
      <4>1. vault[p] \in VaultState /\ identity \in VaultProcs
        BY <2>2 DEF HasIdentity
      <4> QED BY <4>1 DEF VaultState
    <3> QED BY <2>2, <3>1
  <2> QED BY <1>5, <2>1, <2>2 DEF ReadPubkey, Encrypt
<1>6. ASSUME NEW p \in VaultProcs, Decrypt(p) PROVE VaultTypeOK'
  <2>1. CASE VaultRaises(p)
    BY <2>1, <1>1
  <2>2. CASE /\ vault' = [vault EXCEPT ![p].at = "encrypt",
                            ![p].data = [vaultFile.data EXCEPT ![vault[p].name] = vault[p].value]]
             /\ UNCHANGED <<identity, vaultFile, raced, vaultCalls>>
    <3>1. [vaultFile.data EXCEPT ![vault[p].name] = vault[p].value] \in Secrets
      BY DEF Secrets, VaultState
    <3>2. ASSUME NEW d \in Secrets PROVE [vault[p] EXCEPT !.at = "encrypt", !.data = d] \in VaultState
      <4>1. vault[p] \in VaultState
        OBVIOUS
      <4> QED BY <4>1 DEF VaultState
    <3> QED BY <2>2, <3>1, <3>2
  <2> QED BY <1>6, <2>1, <2>2 DEF Decrypt
<1>7. ASSUME NEW p \in VaultProcs, Replace(p) PROVE VaultTypeOK'
  <2>1. ASSUME NEW q \in VaultProcs
        PROVE  [vault[q] EXCEPT !.stale = @ \/ vault[q].at \in {"encrypt", "replace"}] \in VaultState
    <3>1. vault[q] \in VaultState
      OBVIOUS
    <3>2. ASSUME NEW b \in BOOLEAN PROVE [vault[q] EXCEPT !.stale = b] \in VaultState
      BY <3>1 DEF VaultState
    <3> QED BY <3>2
  <2>2. vaultFile' \in [key : {"none", "cut"} \cup VaultProcs, data : Secrets]
    BY <1>7, IdleState DEF Replace, VaultState
  <2> QED BY <1>7, <2>1, <2>2, IdleState DEF Replace
<1>8. CASE UNCHANGED vaultVars
  BY <1>8 DEF vaultVars
<1> QED BY <1>1, <1>2, <1>3, <1>4, <1>5, <1>6, <1>7, <1>8 DEF VaultNext, VaultStep, VaultProcDies

\* The types of all variables, in every reachable state.
THEOREM VaultTypes == VaultSpec => []VaultTypeOK
<1>1. VaultInit => VaultTypeOK
  <2> SUFFICES ASSUME VaultInit PROVE VaultTypeOK
    OBVIOUS
  <2>1. NoVault \in [key : {"none", "cut"} \cup VaultProcs, data : Secrets]
    BY IdleState DEF NoVault
  <2>2. vault \in [VaultProcs -> VaultState]
    BY IdleState DEF VaultInit
  <2>3. vaultCalls \in 0..MaxVaultCalls /\ identity = "none" /\ vaultFile = NoVault /\ raced = FALSE
    BY VaultAssumption DEF VaultInit
  <2> QED BY <2>1, <2>2, <2>3 DEF VaultTypeOK
<1> QED BY <1>1, VaultTypeStep, PTL DEF VaultSpec

-----------------------------------------------------------------------------
\* Until two inits make an identity each, a vault is only ever encrypted to the identity
\* that is there.
LEMMA IdentityStep == VaultTypeOK /\ IdentityInv /\ [VaultNext]_vaultVars => IdentityInv'
<1> SUFFICES ASSUME VaultTypeOK, IdentityInv, [VaultNext]_vaultVars PROVE IdentityInv'
  OBVIOUS
<1>i. Idle.at = "idle"
  BY DEF Idle
<1>t. vault \in [VaultProcs -> VaultState] /\ identity \in {"none", "empty"} \cup VaultProcs
  BY DEF VaultTypeOK
<1> USE DEF IdentityInv, HasIdentity
<1>1. ASSUME NEW p \in VaultProcs, VaultRaises(p) PROVE IdentityInv'
  BY <1>1, <1>i, <1>t DEF VaultRaises
<1>2. ASSUME NEW p \in VaultProcs, CallInit(p) PROVE IdentityInv'
  <2>1. UNCHANGED <<identity, vaultFile, raced>> /\ \A q \in VaultProcs \ {p} : vault'[q] = vault[q]
    BY <1>2, <1>t DEF CallInit
  <2>2. /\ vault'[p].at = IF identity = "none" THEN "keygen" ELSE "pubkey"
        /\ vault'[p].call = "init"
    BY <1>2, <1>t DEF CallInit, Idle
  <2>3. raced' = raced
    BY <1>2 DEF CallInit
  <2> QED BY <2>1, <2>2, <2>3
<1>3. ASSUME NEW p \in VaultProcs, CallSet(p) PROVE IdentityInv'
  <2>1. UNCHANGED <<identity, vaultFile, raced>> /\ \A q \in VaultProcs \ {p} : vault'[q] = vault[q]
    BY <1>3, <1>t DEF CallSet
  <2>2. vault'[p].at = "decrypt"
    BY <1>3, <1>t DEF CallSet, Idle
  <2> QED BY <2>1, <2>2
<1>4. ASSUME NEW p \in VaultProcs, OpenIdentity(p) PROVE IdentityInv'
  BY <1>4, <1>t DEF OpenIdentity, VaultState
<1>5. ASSUME NEW p \in VaultProcs, WriteIdentity(p) PROVE IdentityInv'
  BY <1>5, <1>t, VaultAssumption DEF WriteIdentity, VaultState
<1>6. ASSUME NEW p \in VaultProcs, ReadPubkey(p) \/ Encrypt(p) PROVE IdentityInv'
  <2>1. CASE VaultRaises(p)
    BY <2>1, <1>1
  <2>2. CASE HasIdentity /\ UNCHANGED <<identity, vaultFile, raced, vaultCalls>>
             /\ vault' = [vault EXCEPT ![p].at = "replace", ![p].key = identity]
    BY <2>2, <1>t DEF VaultState
  <2> QED BY <1>6, <2>1, <2>2 DEF ReadPubkey, Encrypt
<1>7. ASSUME NEW p \in VaultProcs, Decrypt(p) PROVE IdentityInv'
  <2>1. CASE VaultRaises(p)
    BY <2>1, <1>1
  <2>2. CASE /\ vault' = [vault EXCEPT ![p].at = "encrypt",
                            ![p].data = [vaultFile.data EXCEPT ![vault[p].name] = vault[p].value]]
             /\ UNCHANGED <<identity, vaultFile, raced, vaultCalls>>
    BY <2>2, <1>t DEF VaultState
  <2> QED BY <1>7, <2>1, <2>2 DEF Decrypt
<1>8. ASSUME NEW p \in VaultProcs, Replace(p) PROVE IdentityInv'
  <2>1. /\ identity' = identity /\ raced' = raced
        /\ ~raced => vaultFile'.key \in {identity, "cut"} /\ HasIdentity
    BY <1>8 DEF Replace
  <2>2. \A q \in VaultProcs : /\ vault'[q].at = IF q = p THEN "idle" ELSE vault[q].at
                              /\ q # p => vault'[q].key = vault[q].key /\ vault'[q].call = vault[q].call
    BY <1>8, <1>i, <1>t DEF Replace, VaultState
  <2> QED BY <2>1, <2>2
<1>9. CASE UNCHANGED vaultVars
  BY <1>9 DEF vaultVars
<1> QED BY <1>1, <1>2, <1>3, <1>4, <1>5, <1>6, <1>7, <1>8, <1>9
        DEF VaultNext, VaultStep, VaultProcDies

\* A process that is not stale holds the vault with its own change.
LEMMA CopyStep == VaultTypeOK /\ CopyInv /\ [VaultNext]_vaultVars => CopyInv'
<1> SUFFICES ASSUME VaultTypeOK, CopyInv, [VaultNext]_vaultVars PROVE CopyInv'
  OBVIOUS
<1>i. Idle.at = "idle" /\ Idle.call = "get" /\ Idle.data = EmptyVault
  BY DEF Idle
<1>t. vault \in [VaultProcs -> VaultState] /\ vaultFile.data \in Secrets
  BY DEF VaultTypeOK
<1> USE DEF CopyInv
<1>1. ASSUME NEW p \in VaultProcs, VaultRaises(p) PROVE CopyInv'
  BY <1>1, <1>i, <1>t DEF VaultRaises
<1>2. ASSUME NEW p \in VaultProcs, CallInit(p) PROVE CopyInv'
  <2>1. UNCHANGED vaultFile /\ \A q \in VaultProcs \ {p} : vault'[q] = vault[q]
    BY <1>2, <1>t DEF CallInit
  <2>2. /\ vault'[p].at \in {"keygen", "pubkey"} /\ vault'[p].call = "init"
        /\ vault'[p].data = EmptyVault
    BY <1>2, <1>t DEF CallInit, Idle
  <2> QED BY <2>1, <2>2
<1>3. ASSUME NEW p \in VaultProcs, CallSet(p) PROVE CopyInv'
  <2>1. UNCHANGED vaultFile /\ \A q \in VaultProcs \ {p} : vault'[q] = vault[q]
    BY <1>3, <1>t DEF CallSet
  <2>2. \E v \in VaultValues \cup {"none"} :
          /\ vault'[p].at = "decrypt" /\ vault'[p].value = v
          /\ vault'[p].call = IF v = "none" THEN "delete" ELSE "set"
    BY <1>3, <1>t DEF CallSet, Idle
  <2> QED BY <2>1, <2>2
<1>4. ASSUME NEW p \in VaultProcs, OpenIdentity(p) \/ WriteIdentity(p) PROVE CopyInv'
  <2>1. UNCHANGED vaultFile /\ \A q \in VaultProcs \ {p} : vault'[q] = vault[q]
    BY <1>4, <1>t DEF OpenIdentity, WriteIdentity
  <2>2. vault[p].at \in {"keygen", "identity"} /\ vault'[p].at \in {"identity", "pubkey"}
        /\ vault'[p].call = vault[p].call /\ vault'[p].data = vault[p].data
    BY <1>4, <1>t DEF OpenIdentity, WriteIdentity, VaultState
  <2>3. vault[p].call = "init" /\ vault[p].data = EmptyVault
    BY <2>2
  <2> QED BY <2>1, <2>2, <2>3
<1>5. ASSUME NEW p \in VaultProcs, ReadPubkey(p) PROVE CopyInv'
  <2>1. CASE VaultRaises(p)
    BY <2>1, <1>1
  <2>2. CASE vaultFile = NoVault /\ UNCHANGED <<identity, vaultFile, raced, vaultCalls>>
             /\ vault' = [vault EXCEPT ![p].at = "replace", ![p].key = identity]
    <3>1. UNCHANGED vaultFile /\ \A q \in VaultProcs \ {p} : vault'[q] = vault[q]
      BY <2>2, <1>t
    <3>2. /\ vault'[p].at = "replace" /\ vault'[p].call = vault[p].call
          /\ vault'[p].name = vault[p].name /\ vault'[p].value = vault[p].value
          /\ vault'[p].data = vault[p].data /\ vault'[p].stale = vault[p].stale
      BY <2>2, <1>t DEF VaultState
    <3>3. vault[p].at = "pubkey" /\ vaultFile = NoVault
      BY <2>2, <1>5 DEF ReadPubkey
    <3> QED BY <3>1, <3>2, <3>3
  <2> QED BY <1>5, <2>1, <2>2 DEF ReadPubkey
<1>6. ASSUME NEW p \in VaultProcs, Encrypt(p) PROVE CopyInv'
  <2>1. CASE VaultRaises(p)
    BY <2>1, <1>1
  <2>2. CASE UNCHANGED <<identity, vaultFile, raced, vaultCalls>>
             /\ vault' = [vault EXCEPT ![p].at = "replace", ![p].key = identity]
    <3>1. UNCHANGED vaultFile /\ \A q \in VaultProcs \ {p} : vault'[q] = vault[q]
      BY <2>2, <1>t
    <3>2. /\ vault'[p].at = "replace" /\ vault'[p].call = vault[p].call
          /\ vault'[p].name = vault[p].name /\ vault'[p].value = vault[p].value
          /\ vault'[p].data = vault[p].data /\ vault'[p].stale = vault[p].stale
      BY <2>2, <1>t DEF VaultState
    <3>3. vault[p].at = "encrypt"
      BY <1>6 DEF Encrypt
    <3> QED BY <3>1, <3>2, <3>3
  <2> QED BY <1>6, <2>1, <2>2 DEF Encrypt
<1>7. ASSUME NEW p \in VaultProcs, Decrypt(p) PROVE CopyInv'
  <2>1. CASE VaultRaises(p)
    BY <2>1, <1>1
  <2>2. CASE /\ vault' = [vault EXCEPT ![p].at = "encrypt",
                            ![p].data = [vaultFile.data EXCEPT ![vault[p].name] = vault[p].value]]
             /\ UNCHANGED <<identity, vaultFile, raced, vaultCalls>>
    <3>1. UNCHANGED vaultFile /\ \A q \in VaultProcs \ {p} : vault'[q] = vault[q]
      BY <2>2, <1>t
    <3>2. /\ vault'[p].at = "encrypt" /\ vault'[p].call = vault[p].call
          /\ vault'[p].name = vault[p].name /\ vault'[p].value = vault[p].value
          /\ vault'[p].data = [vaultFile.data EXCEPT ![vault[p].name] = vault[p].value]
      BY <2>2, <1>t DEF VaultState
    <3>3. vault[p].at = "decrypt"
      BY <1>7 DEF Decrypt
    <3> QED BY <3>1, <3>2, <3>3
  <2> QED BY <1>7, <2>1, <2>2 DEF Decrypt
<1>8. ASSUME NEW p \in VaultProcs, Replace(p) PROVE CopyInv'
  <2>1. \A q \in VaultProcs \ {p} :
          /\ vault'[q].at = vault[q].at /\ vault'[q].call = vault[q].call
          /\ vault'[q].value = vault[q].value /\ vault'[q].data = vault[q].data
          /\ vault[q].at \in {"encrypt", "replace"} => vault'[q].stale
    <3> SUFFICES ASSUME NEW q \in VaultProcs \ {p}
                 PROVE  /\ vault'[q].at = vault[q].at /\ vault'[q].call = vault[q].call
                        /\ vault'[q].value = vault[q].value /\ vault'[q].data = vault[q].data
                        /\ vault[q].at \in {"encrypt", "replace"} => vault'[q].stale
      OBVIOUS
    <3>1. vault'[q] = [vault[q] EXCEPT !.stale = @ \/ vault[q].at \in {"encrypt", "replace"}]
      BY <1>8 DEF Replace
    <3>2. vault[q] \in VaultState
      BY <1>t
    <3>3. /\ vault'[q].at = vault[q].at /\ vault'[q].call = vault[q].call
          /\ vault'[q].value = vault[q].value /\ vault'[q].data = vault[q].data
          /\ vault'[q].stale = (vault[q].stale \/ vault[q].at \in {"encrypt", "replace"})
      BY <3>1, <3>2 DEF VaultState
    <3> QED BY <3>3
  <2>2. vault'[p] = Idle
    BY <1>8 DEF Replace
  <2>3. ASSUME NEW q \in VaultProcs \ {p}, vault'[q].at \in {"encrypt", "replace"}
        PROVE  vault'[q].stale
    BY <2>1, <2>3
  <2> SUFFICES ASSUME NEW q \in VaultProcs
               PROVE  LET v == vault'[q] IN
                 /\ v.at \in {"decrypt", "encrypt"} => v.call \in {"set", "delete"}
                 /\ v.at \in {"keygen", "identity", "pubkey"} => v.call = "init" /\ v.data = EmptyVault
                 /\ v.call = "set" => v.value # "none"
                 /\ v.call = "delete" => v.value = "none"
                 /\ v.at \notin {"encrypt", "replace"} \/ v.stale
                 /\ v.at = "replace" => v.call \in {"init", "set", "delete"}
    OBVIOUS
  <2>4. CASE q = p
    BY <2>2, <2>4, <1>i
  <2>5. CASE q # p
    BY <2>1, <2>3, <2>5, ZenonT(40)
  <2> QED BY <2>4, <2>5
<1>9. CASE UNCHANGED vaultVars
  BY <1>9 DEF vaultVars
<1> QED BY <1>1, <1>2, <1>3, <1>4, <1>5, <1>6, <1>7, <1>8, <1>9
        DEF VaultNext, VaultStep, VaultProcDies

\* The two facts hold throughout.
LEMMA VaultInvariance == VaultSpec => [](VaultTypeOK /\ IdentityInv /\ CopyInv)
<1>1. VaultInit => IdentityInv /\ CopyInv
  BY DEF VaultInit, IdentityInv, CopyInv, HasIdentity, Idle
<1> QED BY <1>1, IdentityStep, CopyStep, VaultTypes, PTL DEF VaultSpec
\* The vault can be decrypted with the identity that is there, unless two inits made an
\* identity each or the file was written short.
THEOREM VaultStaysReadable == VaultSpec => []VaultReadable
<1>1. IdentityInv => VaultReadable
  BY DEF IdentityInv, VaultReadable
<1> QED BY <1>1, VaultInvariance, PTL

\* What a replacement by a process that is not stale does to a credential.
LEMMA Replaced ==
  ASSUME VaultTypeOK, CopyInv, NEW p \in VaultProcs, Replace(p), vaultFile'.key # "cut", ~vault[p].stale, NEW k \in VaultKeys
  PROVE  \/ vaultFile'.data[k] = vaultFile.data[k]
         \/ vault[p].call # "init" /\ k = vault[p].name /\ vaultFile'.data[k] = vault[p].value
<1>1. vault[p].at = "replace" /\ vaultFile'.data = vault[p].data
  BY DEF Replace
<1>2. CASE vault[p].call = "init"
  <2>1. vaultFile = NoVault /\ vault[p].data = EmptyVault
    BY <1>1, <1>2 DEF CopyInv
  <2> QED BY <1>1, <2>1 DEF NoVault
<1>3. CASE vault[p].call # "init"
  <2>1. vault[p].data = [vaultFile.data EXCEPT ![vault[p].name] = vault[p].value]
    BY <1>1, <1>3 DEF CopyInv
  <2>2. vaultFile.data \in Secrets
    BY DEF VaultTypeOK
  <2> QED BY <1>1, <1>3, <2>1, <2>2 DEF Secrets
<1> QED BY <1>2, <1>3

\* Credentials are changed and taken out only by the call that is asked to, by a
\* process that read the vault before another one replaced it, or by a short write.
THEOREM SecretsAreKept == VaultSpec => OnlyOwnSecret /\ NoSecretVanishes
<1>1. VaultTypeOK /\ CopyInv /\ [VaultNext]_vaultVars =>
        \A p \in VaultProcs, k \in VaultKeys :
          Replace(p) /\ vaultFile'.key # "cut" /\ ~vault[p].stale /\ (vault[p].call = "init" \/ k # vault[p].name)
            => vaultFile'.data[k] = vaultFile.data[k]
  BY Replaced
<1>2. VaultTypeOK /\ CopyInv /\ [VaultNext]_vaultVars =>
        \A k \in VaultKeys :
          vaultFile.data[k] # "none" /\ vaultFile'.data[k] = "none"
            => \E p \in VaultProcs : /\ vault[p].at = "replace"
                                    /\ \/ vault[p].call = "delete" /\ vault[p].name = k
                                       \/ vault[p].stale
                                       \/ vaultFile'.key = "cut"
  <2> SUFFICES ASSUME VaultTypeOK, CopyInv, [VaultNext]_vaultVars, NEW k \in VaultKeys,
                      vaultFile.data[k] # "none", vaultFile'.data[k] = "none"
               PROVE  \E p \in VaultProcs : /\ vault[p].at = "replace"
                                           /\ \/ vault[p].call = "delete" /\ vault[p].name = k
                                              \/ vault[p].stale
                                              \/ vaultFile'.key = "cut"
    OBVIOUS
  <2>1. vaultFile' # vaultFile
    OBVIOUS
  <2>2. PICK p \in VaultProcs : Replace(p)
    BY <2>1 DEF VaultNext, VaultStep, VaultProcDies, VaultRaises, CallInit, CallSet, OpenIdentity,
                WriteIdentity, ReadPubkey, Decrypt, Encrypt, vaultVars
  <2>3. vault[p].at = "replace"
    BY <2>2 DEF Replace
  <2>4. CASE ~vault[p].stale /\ vaultFile'.key # "cut"
    <3>1. vault[p].call # "init" /\ k = vault[p].name /\ vault[p].value = "none"
      BY <2>2, <2>4, Replaced
    <3>2. vault[p].call = "delete"
      BY <2>3, <3>1 DEF CopyInv
    <3> QED BY <2>3, <3>1, <3>2
  <2> QED BY <2>3, <2>4
<1> QED BY <1>1, <1>2, VaultInvariance, PTL DEF VaultSpec, OnlyOwnSecret, NoSecretVanishes

\* The vault is readable until two inits race or a write is cut short, and credentials
\* are lost to stale and cut writes only, for every number of processes that may be
\* killed anywhere.
THEOREM VaultIsSafe == VaultSpec => VaultSafe
BY VaultStaysReadable, SecretsAreKept, PTL DEF VaultSafe

-----------------------------------------------------------------------------
\* CredentialRotation: a credential with no alert was rotated in time.

\* The policies a credential may have.
LEMMA PolicyTypes ==
  /\ NoPolicies \in Policies
  /\ \A ps \in Policies, k \in RotKeys : ps[k].last \in Int /\ ps[k].last >= -1 /\ ps[k].maxAge \in Nat
  /\ \A k \in RotKeys : NoPolicies[k].last = -1 /\ NoPolicies[k].maxAge = DefaultMaxAge
<1> USE RotAssumption DEF Policies
<1>1. NoPolicy \in [maxAge : RotMaxAges \cup {DefaultMaxAge}, last : -1..RotHorizon]
  BY DEF NoPolicy
<1>2. NoPolicies \in Policies
  BY <1>1 DEF NoPolicies
<1>3. ASSUME NEW ps \in Policies, NEW k \in RotKeys
      PROVE  ps[k].last \in Int /\ ps[k].last >= -1 /\ ps[k].maxAge \in Nat
  <2>1. ps[k] \in [maxAge : RotMaxAges \cup {DefaultMaxAge}, last : -1..RotHorizon]
    OBVIOUS
  <2>2. ps[k].last \in -1..RotHorizon /\ ps[k].maxAge \in RotMaxAges \cup {DefaultMaxAge}
    BY <2>1
  <2>3. ps[k].last \in Int /\ ps[k].last >= -1
    BY <2>2
  <2>4. ps[k].maxAge \in Nat
    BY <2>2
  <2> QED BY <2>3, <2>4
<1>4. \A k \in RotKeys : NoPolicies[k].last = -1 /\ NoPolicies[k].maxAge = DefaultMaxAge
  BY DEF NoPolicies, NoPolicy
<1> QED BY <1>2, <1>3, <1>4

\* Loaded policies of which one is given another value.
LEMMA OtherPolicy ==
  ASSUME NEW ps \in Policies, NEW k \in RotKeys,
         NEW new \in [maxAge : RotMaxAges \cup {DefaultMaxAge}, last : -1..RotHorizon]
  PROVE  /\ [ps EXCEPT ![k] = new] \in Policies /\ [ps EXCEPT ![k] = new][k] = new
         /\ \A j \in RotKeys \ {k} : [ps EXCEPT ![k] = new][j] = ps[j]
BY DEF Policies

\* A new limit, and a new day of rotation.
LEMMA NewPolicy ==
  ASSUME RotTypeOK, NEW c \in RotProcs, NEW k \in RotKeys
  PROVE  /\ \A days \in RotMaxAges : [maxAge |-> days, last |-> checker[c].loaded[k].last]
                                       \in [maxAge : RotMaxAges \cup {DefaultMaxAge}, last : -1..RotHorizon]
         /\ [maxAge |-> checker[c].loaded[k].maxAge, last |-> today]
              \in [maxAge : RotMaxAges \cup {DefaultMaxAge}, last : -1..RotHorizon]
<1>1. checker[c].loaded \in Policies
  BY DEF RotTypeOK
<1>2. checker[c].loaded[k] \in [maxAge : RotMaxAges \cup {DefaultMaxAge}, last : -1..RotHorizon]
  BY <1>1 DEF Policies
<1>3. today \in -1..RotHorizon
  BY RotAssumption DEF RotTypeOK
<1> QED BY <1>2, <1>3

\* Every step of the checkers keeps the types.
LEMMA RotTypeStep == RotTypeOK /\ [RotNext]_rotVars => RotTypeOK'
<1> SUFFICES ASSUME RotTypeOK, [RotNext]_rotVars PROVE RotTypeOK'
  OBVIOUS
<1> USE RotAssumption DEF RotTypeOK
<1>1. CASE Day
  BY <1>1 DEF Day
<1>2. ASSUME NEW c \in RotProcs, LoadPolicies(c) PROVE RotTypeOK'
  BY <1>2 DEF LoadPolicies
<1>3. ASSUME NEW c \in RotProcs, SetPolicy(c) PROVE RotTypeOK'
  <2>1. PICK k \in RotKeys, days \in RotMaxAges :
          /\ checker' = [checker EXCEPT ![c] = [at |-> "open",
               loaded |-> [checker[c].loaded EXCEPT ![k] = [maxAge |-> days, last |-> checker[c].loaded[k].last]]]]
          /\ limits' = [limits EXCEPT ![k] = @ \cup {days}]
    BY <1>3 DEF SetPolicy
  <2>2. [checker[c].loaded EXCEPT ![k] = [maxAge |-> days, last |-> checker[c].loaded[k].last]] \in Policies
    <3>1. checker[c].loaded \in Policies
      OBVIOUS
    <3> QED BY <3>1, NewPolicy, OtherPolicy
  <2>3. checker' \in [RotProcs -> [at : {"idle", "loaded", "open", "write"}, loaded : Policies]]
    BY <2>1, <2>2
  <2>4. limits' \in [RotKeys -> SUBSET (RotMaxAges \cup {DefaultMaxAge})]
    BY <2>1
  <2> QED BY <1>3, <2>3, <2>4 DEF SetPolicy
<1>4. ASSUME NEW c \in RotProcs, MarkRotated(c) PROVE RotTypeOK'
  <2>1. PICK k \in RotKeys :
          /\ checker' = [checker EXCEPT ![c] = [at |-> "open",
               loaded |-> [checker[c].loaded EXCEPT ![k] = [maxAge |-> checker[c].loaded[k].maxAge, last |-> today]]]]
          /\ rotated' = [rotated EXCEPT ![k] = today]
    BY <1>4 DEF MarkRotated
  <2>2. [checker[c].loaded EXCEPT ![k] = [maxAge |-> checker[c].loaded[k].maxAge, last |-> today]] \in Policies
    <3>1. checker[c].loaded \in Policies
      OBVIOUS
    <3> QED BY <3>1, NewPolicy, OtherPolicy
  <2>3. checker' \in [RotProcs -> [at : {"idle", "loaded", "open", "write"}, loaded : Policies]]
    BY <2>1, <2>2
  <2>4. rotated' \in [RotKeys -> -1..RotHorizon]
    BY <2>1
  <2> QED BY <1>4, <2>3, <2>4 DEF MarkRotated
<1>5. ASSUME NEW c \in RotProcs, OpenPolicies(c) \/ WritePolicies(c) \/ LeavePolicies(c)
      PROVE  RotTypeOK'
  BY <1>5, PolicyTypes DEF OpenPolicies, WritePolicies, LeavePolicies
<1>6. CASE UNCHANGED rotVars
  BY <1>6 DEF rotVars
<1> QED BY <1>1, <1>2, <1>3, <1>4, <1>5, <1>6 DEF RotNext

\* The rotation policies keep their types.
THEOREM RotTypes == RotSpec => []RotTypeOK
<1>1. RotInit => RotTypeOK
  BY RotAssumption, PolicyTypes DEF RotInit, RotTypeOK
<1> QED BY <1>1, RotTypeStep, PTL DEF RotSpec

\* No step lets a file or a checker know more than what was done.
LEMMA RotInvStep == RotTypeOK /\ RotInv /\ [RotNext]_rotVars => RotInv'
<1> SUFFICES ASSUME RotTypeOK, RotInv, [RotNext]_rotVars PROVE RotInv'
  OBVIOUS
<1>t. /\ today \in Nat /\ \A k \in RotKeys : rotated[k] \in Int /\ rotated[k] >= -1
      /\ policies \in Policies /\ \A c \in RotProcs : checker[c].loaded \in Policies
  BY RotAssumption DEF RotTypeOK
<1> USE RotAssumption DEF RotInv, Recorded
<1>1. CASE Day
  BY <1>1, <1>t DEF Day
<1>2. ASSUME NEW c \in RotProcs, LoadPolicies(c) PROVE RotInv'
  BY <1>2 DEF LoadPolicies, RotTypeOK
<1>3. ASSUME NEW c \in RotProcs, SetPolicy(c) PROVE RotInv'
  <2>1. PICK k \in RotKeys, days \in RotMaxAges :
          /\ checker' = [checker EXCEPT ![c] = [at |-> "open",
               loaded |-> [checker[c].loaded EXCEPT ![k] = [maxAge |-> days, last |-> checker[c].loaded[k].last]]]]
          /\ limits' = [limits EXCEPT ![k] = @ \cup {days}]
    BY <1>3 DEF SetPolicy
  <2>2. /\ limits'[k] = limits[k] \cup {days}
        /\ \A j \in RotKeys \ {k} : limits'[j] = limits[j]
    BY <2>1 DEF RotTypeOK
  <2> DEFINE new == [maxAge |-> days, last |-> checker[c].loaded[k].last]
  <2>3. new.maxAge = days /\ new.last = checker[c].loaded[k].last
        /\ new \in [maxAge : RotMaxAges \cup {DefaultMaxAge}, last : -1..RotHorizon]
    BY <1>t, NewPolicy
  <2>4. /\ \A d \in RotProcs \ {c} : checker'[d] = checker[d]
        /\ checker'[c].loaded = [checker[c].loaded EXCEPT ![k] = new]
    BY <2>1 DEF RotTypeOK
  <2>6. /\ checker'[c].loaded[k] = new
        /\ \A j \in RotKeys \ {k} : checker'[c].loaded[j] = checker[c].loaded[j]
    <3> HIDE DEF new
    <3> QED BY <1>t, <2>3, <2>4, OtherPolicy
  <2>5. UNCHANGED <<policies, today, rotated>>
    BY <1>3 DEF SetPolicy
  <2> HIDE DEF new
  <2> QED BY <2>2, <2>3, <2>4, <2>5, <2>6
<1>4. ASSUME NEW c \in RotProcs, MarkRotated(c) PROVE RotInv'
  <2>1. PICK k \in RotKeys :
          /\ checker' = [checker EXCEPT ![c] = [at |-> "open",
               loaded |-> [checker[c].loaded EXCEPT ![k] = [maxAge |-> checker[c].loaded[k].maxAge, last |-> today]]]]
          /\ rotated' = [rotated EXCEPT ![k] = today]
    BY <1>4 DEF MarkRotated
  <2>2. rotated'[k] = today /\ \A j \in RotKeys \ {k} : rotated'[j] = rotated[j]
    BY <2>1 DEF RotTypeOK
  <2> DEFINE new == [maxAge |-> checker[c].loaded[k].maxAge, last |-> today]
  <2>3. new.last = today /\ new.maxAge = checker[c].loaded[k].maxAge
        /\ new \in [maxAge : RotMaxAges \cup {DefaultMaxAge}, last : -1..RotHorizon]
    BY <1>t, NewPolicy
  <2>4. /\ \A d \in RotProcs \ {c} : checker'[d] = checker[d]
        /\ checker'[c].loaded = [checker[c].loaded EXCEPT ![k] = new]
    BY <2>1 DEF RotTypeOK
  <2>6. /\ checker'[c].loaded[k] = new
        /\ \A j \in RotKeys \ {k} : checker'[c].loaded[j] = checker[c].loaded[j]
    <3> HIDE DEF new
    <3> QED BY <1>t, <2>3, <2>4, OtherPolicy
  <2>5. UNCHANGED <<policies, today, limits>>
    BY <1>4 DEF MarkRotated
  <2>7. \A ps \in Policies, j \in RotKeys : ps[j].last <= rotated[j] => ps[j].last <= rotated'[j]
    BY <1>t, <2>2, PolicyTypes
  <2> HIDE DEF new
  <2>8. \A j \in RotKeys : rotated'[j] <= today' /\ DefaultMaxAge \in limits'[j] /\ Recorded(policies[j], j)'
    BY <1>t, <2>2, <2>5, <2>7
  <2>9. \A j \in RotKeys : Recorded(checker[c].loaded[j], j)'
    BY <1>t, <2>2, <2>3, <2>5, <2>6, <2>7
  <2>10. \A d \in RotProcs \ {c}, j \in RotKeys : Recorded(checker[d].loaded[j], j)'
    BY <1>t, <2>4, <2>5, <2>7
  <2> QED BY <2>8, <2>9, <2>10
<1>5. ASSUME NEW c \in RotProcs, OpenPolicies(c) PROVE RotInv'
  <2>1. \A d \in RotProcs : checker'[d].loaded = checker[d].loaded
    BY <1>5 DEF OpenPolicies, RotTypeOK
  <2>2. \A k \in RotKeys : rotated'[k] <= today' /\ DefaultMaxAge \in limits'[k] /\ Recorded(policies[k], k)'
    BY <1>5, <1>t, PolicyTypes DEF OpenPolicies
  <2>3. \A d \in RotProcs, k \in RotKeys : Recorded(checker[d].loaded[k], k)'
    BY <1>5, <2>1 DEF OpenPolicies
  <2> QED BY <2>2, <2>3
<1>6. ASSUME NEW c \in RotProcs, WritePolicies(c) \/ LeavePolicies(c) PROVE RotInv'
  <2>1. \A d \in RotProcs : checker'[d].loaded = checker[d].loaded
    BY <1>6, SMTT(30) DEF WritePolicies, LeavePolicies, RotTypeOK
  <2> QED BY <1>6, <2>1 DEF WritePolicies, LeavePolicies
<1>7. CASE UNCHANGED rotVars
  BY <1>7 DEF rotVars
<1> QED BY <1>1, <1>2, <1>3, <1>4, <1>5, <1>6, <1>7 DEF RotNext

\* What the policies and the checkers know is what was done.
LEMMA RotInvariance == RotSpec => [](RotTypeOK /\ RotInv)
<1>1. RotInit => RotInv
  BY RotAssumption, PolicyTypes DEF RotInit, RotInv, Recorded
<1> QED BY <1>1, RotTypes, RotInvStep, PTL DEF RotSpec

\* A credential no alert names was rotated, and less than its largest limit
\* ago, for any processes, limits and calls that overwrite each other.
THEOREM SilenceMeansRotated == RotSpec => []NoAlertMeansRotated
<1>1. RotTypeOK /\ RotInv => NoAlertMeansRotated
  <2> SUFFICES ASSUME RotTypeOK, RotInv, NEW k \in RotKeys, AlertOf(policies[k], today) = "ok"
               PROVE  rotated[k] # -1 /\ \E days \in limits[k] : today - rotated[k] < days
    BY DEF NoAlertMeansRotated, Actionable
  <2>1. policies[k].last # -1 /\ ~(today - policies[k].last >= policies[k].maxAge)
    BY SMTT(30) DEF AlertOf
  <2>2. /\ today \in Nat /\ rotated[k] \in Int /\ policies[k].last \in Int
        /\ policies[k].last >= -1 /\ policies[k].maxAge \in Nat
    BY RotAssumption, PolicyTypes DEF RotTypeOK
  <2> QED BY <2>1, <2>2 DEF RotInv, Recorded
<1> QED BY <1>1, RotInvariance, PTL

-----------------------------------------------------------------------------
\* PackManager: what the registry lists is installed, whole, and nothing else is.

\* Every step of the packs keeps the types.
LEMMA PackTypeStep == PackTypeOK /\ [PackNext]_packVars => PackTypeOK'
<1> SUFFICES ASSUME PackTypeOK, [PackNext]_packVars PROVE PackTypeOK'
  OBVIOUS
<1> USE PackAssumption DEF PackTypeOK
<1>n. NoCall \in [at : {"idle", "copy", "remove"}, pack : Packs \cup {"none"},
                  items : SUBSET Items, todo : SUBSET Items, found : SUBSET Items]
     /\ NoCall.todo \subseteq NoCall.items /\ NoCall.found = {}
     /\ NoCall.at = "idle"
  BY DEF NoCall
<1>1. ASSUME NEW p \in Packs, Publish(p) PROVE PackTypeOK'
  BY <1>1 DEF Publish
<1>2. ASSUME NEW p \in Packs, Install(p) \/ Uninstall(p) PROVE PackTypeOK'
  BY <1>2 DEF Install, Uninstall
<1>3. ASSUME NEW i \in Items, Clear(i) PROVE PackTypeOK'
  BY <1>3 DEF Clear
<1>4. ASSUME NEW i \in Items, Copy(i) \/ PassOver(i) \/ RemoveItem(i) PROVE PackTypeOK'
  <2>1. \/ manager' = [manager EXCEPT !.todo = @ \ {i}, !.found = {}]
        \/ manager' = [manager EXCEPT !.todo = @ \ {i}] /\ manager.found = {}
    BY <1>4 DEF Copy, PassOver, RemoveItem
  <2>2. /\ manager' \in [at : {"idle", "copy", "remove"}, pack : Packs \cup {"none"},
                         items : SUBSET Items, todo : SUBSET Items, found : SUBSET Items]
        /\ manager'.todo \subseteq manager'.items /\ manager'.found \subseteq manager'.todo
        /\ manager'.at = manager.at /\ manager'.pack = manager.pack /\ manager'.found = {}
    <3>1. manager'.todo = manager.todo \ {i} /\ manager'.found = {} /\ manager'.items = manager.items
      BY <2>1
    <3>2. manager'.at = manager.at /\ manager'.pack = manager.pack
      BY <2>1
    <3>3. manager' \in [at : {"idle", "copy", "remove"}, pack : Packs \cup {"none"},
                        items : SUBSET Items, todo : SUBSET Items, found : SUBSET Items]
      <4>1. manager.todo \ {i} \in SUBSET Items /\ {} \in SUBSET Items /\ manager.found \in SUBSET Items
        OBVIOUS
      <4>2. CASE manager' = [manager EXCEPT !.todo = @ \ {i}, !.found = {}]
        BY <4>1, <4>2
      <4>3. CASE manager' = [manager EXCEPT !.todo = @ \ {i}]
        BY <4>1, <4>3
      <4> QED BY <2>1, <4>2, <4>3
    <3> QED BY <3>1, <3>2, <3>3
  <2>3. CASE Copy(i)
    <3>1. manager.pack \in Packs
      BY <2>3 DEF Copy
    <3>2. installed' \in [Items -> Packs \cup {"owner", "none"}] /\ movers' \in [Items -> SUBSET Packs]
      BY <2>3, <3>1 DEF Copy
    <3> QED BY <2>2, <2>3, <3>1, <3>2 DEF Copy
  <2>4. CASE RemoveItem(i)
    BY <2>2, <2>4 DEF RemoveItem
  <2>5. CASE PassOver(i)
    BY <2>2, <2>5 DEF PassOver
  <2> QED BY <1>4, <2>3, <2>4, <2>5
<1>5. CASE Record
  <2>1. DOMAIN registry' = DOMAIN registry \cup {manager.pack}
        /\ \A p \in DOMAIN registry' :
             registry'[p] = IF p = manager.pack THEN manager.items ELSE registry[p]
    BY <1>5 DEF Record
  <2>2. DOMAIN registry' \subseteq Packs /\ \A p \in DOMAIN registry' : registry'[p] \subseteq Items
    <3>1. manager.pack \in Packs
      BY <1>5 DEF Record
    <3> QED BY <2>1, <3>1
  <2>3. dropped' \subseteq Items
    BY <1>5 DEF Record
  <2>4. manager' = NoCall /\ UNCHANGED <<source, intact, installed, published, torn, missed, movers>>
    BY <1>5 DEF Record
  <2> QED BY <1>n, <2>2, <2>3, <2>4
<1>6. CASE Forget
  <2>1. DOMAIN registry' = DOMAIN registry \ {manager.pack}
        /\ \A p \in DOMAIN registry' : registry'[p] = registry[p]
    BY <1>6 DEF Forget
  <2>2. DOMAIN registry' \subseteq Packs /\ \A p \in DOMAIN registry' : registry'[p] \subseteq Items
    BY <2>1
  <2>3. manager' = NoCall /\ UNCHANGED <<source, intact, installed, published, torn, missed, movers, dropped>>
    BY <1>6 DEF Forget
  <2> QED BY <1>n, <2>2, <2>3
<1>7. CASE ManagerDies
  <2>1. /\ DOMAIN registry' \subseteq DOMAIN registry
        /\ \A p \in DOMAIN registry' : registry'[p] = registry[p]
    BY <1>7 DEF ManagerDies
  <2>2. DOMAIN registry' \subseteq Packs /\ \A p \in DOMAIN registry' : registry'[p] \subseteq Items
    BY <2>1
  <2>3. torn' \subseteq Items
    BY <1>7 DEF ManagerDies
  <2>4. manager' = NoCall /\ UNCHANGED <<source, intact, installed, published, missed, movers, dropped>>
    BY <1>7 DEF ManagerDies
  <2> QED BY <1>n, <2>2, <2>3, <2>4
<1>8. CASE UNCHANGED packVars
  BY <1>8 DEF packVars
<1> QED BY <1>1, <1>2, <1>3, <1>4, <1>5, <1>6, <1>7, <1>8 DEF PackNext

\* The packs keep their types.
THEOREM PackTypes == PackSpec => []PackTypeOK
<1>1. PackInit => PackTypeOK
  BY PackAssumption DEF PackInit, PackTypeOK, NoCall
<1> QED BY <1>1, PackTypeStep, PTL DEF PackSpec

\* The fields of the call in progress when an item is done.
LEMMA ItemDone ==
  ASSUME PackTypeOK, NEW i,
         \/ manager' = [manager EXCEPT !.todo = @ \ {i}, !.found = {}]
         \/ manager' = [manager EXCEPT !.todo = @ \ {i}]
  PROVE  /\ manager'.at = manager.at /\ manager'.pack = manager.pack
         /\ manager'.items = manager.items /\ manager'.todo = manager.todo \ {i}
BY DEF PackTypeOK

\* Every step keeps what the registry and the disk say of each other.
LEMMA PackInvStep == PackTypeOK /\ PackInv /\ [PackNext]_packVars => PackInv'
<1> SUFFICES ASSUME PackTypeOK, CallSound, Registered, Accounted, [PackNext]_packVars
             PROVE  CallSound' /\ Registered' /\ Accounted'
  BY DEF PackInv
<1> USE PackAssumption
<1>n. NoCall.at = "idle" /\ NoCall.items = {} /\ NoCall.todo = {}
  BY DEF NoCall
<1>t. /\ \A i \in Items : installed[i] \in Packs \cup {"owner", "none"} /\ movers[i] \subseteq Packs
      /\ manager.todo \subseteq manager.items /\ manager.items \subseteq Items
      /\ (manager.at # "idle" => manager.pack \in Packs)
      /\ DOMAIN registry \subseteq Packs /\ \A p \in DOMAIN registry : registry[p] \subseteq Items
  BY DEF PackTypeOK
<1>1. ASSUME NEW p \in Packs, Publish(p) PROVE CallSound' /\ Registered' /\ Accounted'
  BY <1>1 DEF Publish, CallSound, Registered, Accounted
<1>2. ASSUME NEW p \in Packs, Install(p) PROVE CallSound' /\ Registered' /\ Accounted'
  <2>1. manager'.at = "copy" /\ manager'.pack = p /\ manager'.items = manager'.todo /\ manager.at = "idle"
        /\ UNCHANGED <<installed, registry, torn, missed, movers, dropped>>
    BY <1>2 DEF Install
  <2>2. manager.todo = {} /\ manager.at # "remove"
    BY <2>1, <1>n DEF CallSound
  <2> QED BY <2>1, <2>2 DEF CallSound, Registered, Accounted
<1>3. ASSUME NEW p \in Packs, Uninstall(p) PROVE CallSound' /\ Registered' /\ Accounted'
  <2>1. /\ manager'.at = "remove" /\ manager'.pack = p /\ manager'.items = registry[p]
        /\ manager'.todo = registry[p] /\ p \in DOMAIN registry /\ manager.at = "idle"
        /\ UNCHANGED <<installed, registry, torn, missed, movers, dropped>>
    BY <1>3 DEF Uninstall
  <2>2. manager.todo = {} /\ manager.at # "remove" /\ manager.at # "copy"
    BY <2>1, <1>n DEF CallSound
  <2> QED BY <2>1, <2>2 DEF CallSound, Registered, Accounted
<1>4. ASSUME NEW i \in Items, Clear(i) PROVE CallSound' /\ Registered' /\ Accounted'
  <2>1. /\ manager.at = "copy" /\ i \in manager.todo /\ installed'[i] = "none"
        /\ \A j \in Items \ {i} : installed'[j] = installed[j]
        /\ manager'.at = manager.at /\ manager'.pack = manager.pack
        /\ manager'.items = manager.items /\ manager'.todo = manager.todo
        /\ UNCHANGED <<registry, torn, missed, movers, dropped>>
    BY <1>4 DEF Clear, PackTypeOK
  <2>2. CallSound'
    BY <1>t, <2>1 DEF CallSound
  <2>3. Registered'
    BY <1>t, <2>1 DEF Registered
  <2>4. Accounted'
    BY <1>t, <2>1 DEF Accounted
  <2> QED BY <2>2, <2>3, <2>4
<1>5. ASSUME NEW i \in Items, Copy(i) PROVE CallSound' /\ Registered' /\ Accounted'
  <2>1. /\ manager.at = "copy" /\ i \in manager.todo
        /\ installed'[i] = manager.pack /\ movers'[i] = movers[i] \cup {manager.pack}
        /\ \A j \in Items \ {i} : installed'[j] = installed[j] /\ movers'[j] = movers[j]
        /\ UNCHANGED <<registry, torn, missed, dropped>>
    <3>1. manager.at = "copy" /\ i \in manager.todo /\ manager.pack \in Packs
      BY <1>5 DEF Copy, PackTypeOK
    <3> QED BY <1>5, <3>1 DEF Copy, PackTypeOK
  <2>2. /\ manager'.at = manager.at /\ manager'.pack = manager.pack
        /\ manager'.items = manager.items /\ manager'.todo = manager.todo \ {i}
    BY <1>5, ItemDone DEF Copy
  <2>3. CallSound'
    BY <1>t, <2>1, <2>2 DEF CallSound
  <2>4. Registered'
    BY <1>t, <2>1, <2>2 DEF Registered
  <2>5. Accounted'
    BY <1>t, <2>1, <2>2 DEF Accounted
  <2> QED BY <2>3, <2>4, <2>5
<1>6. ASSUME NEW i \in Items, RemoveItem(i) PROVE CallSound' /\ Registered' /\ Accounted'
  <2>1. /\ manager.at = "remove" /\ i \in manager.todo /\ installed'[i] = "none"
        /\ \A j \in Items \ {i} : installed'[j] = installed[j]
        /\ UNCHANGED <<registry, torn, missed, movers, dropped>>
    BY <1>6 DEF RemoveItem, PackTypeOK
  <2>2. /\ manager'.at = manager.at /\ manager'.pack = manager.pack
        /\ manager'.items = manager.items /\ manager'.todo = manager.todo \ {i}
    BY <1>6, ItemDone DEF RemoveItem
  <2>3. CallSound'
    BY <1>t, <2>1, <2>2 DEF CallSound
  <2>4. Registered'
    \* Another pack's item that this one recorded as well has had two movers, or was missed.
    <3>1. manager.pack \in movers[i] \/ i \in missed
      BY <1>t, <2>1 DEF CallSound, Registered
    <3> QED BY <1>t, <2>1, <2>2, <3>1 DEF Registered
  <2>5. Accounted'
    BY <1>t, <2>1, <2>2 DEF Accounted
  <2> QED BY <2>3, <2>4, <2>5
<1>7. CASE Record
  <2>1. /\ manager.at = "copy" /\ manager.todo = {} /\ manager' = NoCall
        /\ DOMAIN registry' = DOMAIN registry \cup {manager.pack}
        /\ registry'[manager.pack] = manager.items
        /\ \A p \in DOMAIN registry \ {manager.pack} : registry'[p] = registry[p]
        /\ UNCHANGED <<installed, torn, missed, movers>>
    BY <1>7 DEF Record
  <2>2. \A i \in manager.items \ missed : installed[i] = manager.pack /\ manager.pack \in movers[i]
    BY <2>1 DEF CallSound
  <2>3. CallSound'
    BY <1>n, <2>1 DEF CallSound
  <2>4. Registered'
    BY <1>n, <1>t, <2>1, <2>2 DEF Registered
  <2>5. Accounted'
    <3>1. ASSUME NEW i \in Items, i \notin torn, i \notin dropped', installed[i] \in Packs
          PROVE  installed[i] \in DOMAIN registry' /\ i \in registry'[installed[i]]
      <4>1. CASE i \in manager.items /\ installed[i] = manager.pack
        BY <2>1, <4>1
      <4>2. CASE i \notin manager.items
        <5>1. i \notin dropped /\ (manager.pack \in DOMAIN registry => i \notin registry[manager.pack])
          BY <1>7, <3>1, <4>2 DEF Record
        <5>2. installed[i] \in DOMAIN registry /\ i \in registry[installed[i]]
          BY <3>1, <4>2, <5>1 DEF Accounted
        <5> QED BY <2>1, <5>1, <5>2
      <4>3. CASE i \in manager.items /\ installed[i] # manager.pack
        <5>1. i \in missed
          BY <2>2, <4>3
        <5>2. i \notin dropped
          BY <1>7, <3>1, <5>1 DEF Record
        <5> QED BY <2>1, <3>1, <4>3, <5>2 DEF Accounted
      <4> QED BY <4>1, <4>2, <4>3
    <3> QED BY <1>n, <2>1, <3>1 DEF Accounted
  <2> QED BY <2>3, <2>4, <2>5
<1>8. CASE Forget
  <2>1. /\ manager.at = "remove" /\ manager.todo = {} /\ manager' = NoCall
        /\ DOMAIN registry' = DOMAIN registry \ {manager.pack}
        /\ \A p \in DOMAIN registry \ {manager.pack} : registry'[p] = registry[p]
        /\ UNCHANGED <<installed, torn, missed, movers, dropped>>
    BY <1>8 DEF Forget
  <2>2. manager.items = registry[manager.pack] /\ \A i \in manager.items : installed[i] = "none"
    BY <2>1 DEF CallSound
  <2>3. CallSound'
    BY <1>n, <2>1 DEF CallSound
  <2>4. Registered'
    BY <1>n, <1>t, <2>1 DEF Registered
  <2>5. Accounted'
    BY <1>n, <1>t, <2>1, <2>2 DEF Accounted
  <2> QED BY <2>3, <2>4, <2>5
<1>9. CASE ManagerDies
  <2>1. manager.at # "idle" /\ manager' = NoCall /\ UNCHANGED <<installed, missed, movers, dropped>>
    BY <1>9 DEF ManagerDies
  <2>2. CASE torn' = torn \cup manager.items /\ UNCHANGED registry
    <3>1. Registered'
      BY <1>n, <1>t, <2>1, <2>2 DEF CallSound, Registered
    <3>2. Accounted'
      BY <1>n, <2>1, <2>2 DEF Accounted
    <3> QED BY <1>n, <2>1, <3>1, <3>2 DEF CallSound
  <2>3. CASE /\ registry' = [p \in {} |-> {}]
             /\ torn' = torn \cup manager.items \cup UNION {registry[p] : p \in DOMAIN registry}
    <3>1. Accounted'
      BY <1>n, <2>1, <2>3 DEF Accounted
    <3> QED BY <1>n, <2>1, <2>3, <3>1 DEF CallSound, Registered
  <2> QED BY <1>9, <2>2, <2>3 DEF ManagerDies
<1>10. CASE UNCHANGED packVars
  BY <1>10 DEF packVars, CallSound, Registered, Accounted
<1>11. ASSUME NEW i \in Items, PassOver(i) PROVE CallSound' /\ Registered' /\ Accounted'
  <2>1. /\ manager.at = "copy" /\ i \in manager.todo /\ missed' = missed \cup {i}
        /\ UNCHANGED <<installed, registry, torn, movers, dropped>>
    BY <1>11 DEF PassOver
  <2>2. /\ manager'.at = manager.at /\ manager'.pack = manager.pack
        /\ manager'.items = manager.items /\ manager'.todo = manager.todo \ {i}
    BY <1>11, ItemDone DEF PassOver
  <2>3. CallSound'
    BY <1>t, <2>1, <2>2 DEF CallSound
  <2>4. Registered'
    BY <1>t, <2>1, <2>2 DEF Registered
  <2>5. Accounted'
    BY <1>t, <2>1, <2>2 DEF Accounted
  <2> QED BY <2>3, <2>4, <2>5
<1> QED BY <1>1, <1>2, <1>3, <1>4, <1>5, <1>6, <1>7, <1>8, <1>9, <1>10, <1>11 DEF PackNext

\* The registry and the disk, at every step of every call.
LEMMA PackInvariance == PackSpec => [](PackTypeOK /\ PackInv)
<1>1. PackInit => PackInv
  BY PackAssumption DEF PackInit, PackInv, CallSound, Registered, Accounted, NoCall
<1> QED BY <1>1, PackTypes, PackInvStep, PTL DEF PackSpec

\* What the registry says is on disk, but for items whose source was gone when they were to be
\* copied and calls that were killed, and what packs put on disk is in the
\* registry, for any packs, items and versions of them.
THEOREM PacksAreSound == PackSpec => []PacksSound
<1>1. PackTypeOK /\ PackInv => PacksSound
  <2> SUFFICES ASSUME PackTypeOK, CallSound, Registered, Accounted, manager.at = "idle"
               PROVE  RegisteredPresent /\ NoOrphans
    BY DEF PackInv, PacksSound, RegisteredPresent, NoOrphans
  <2>1. manager.todo = {}
    BY DEF CallSound, NoCall
  <2> QED BY <2>1 DEF Registered, Accounted, RegisteredPresent, NoOrphans
<1> QED BY <1>1, PackInvariance, PTL

-----------------------------------------------------------------------------
\* TemplateManager: files a user edited are kept.

\* An edit is no release, not missing and no half of a copy.
LEMMA EditsDiffer ==
  /\ \A n : IsEdit(UserEdit(n))
  /\ \A v : ~IsEdit(Release(v)) /\ Release(v) # Missing
  /\ ~IsEdit(Missing) /\ ~IsEdit(Cut)
BY DEF Release, UserEdit, Missing, Cut, IsEdit

\* The edits there may be.
UserEdits == {UserEdit(n) : n \in 1..MaxTemplateEdits}

\* What the templates, and the calls on them, may hold.
LEMMA TmContents ==
  /\ \A v \in 0..MaxShipped : Release(v) \in FileContents /\ Release(v) \in TmRecords
  /\ \A n \in 1..MaxTemplateEdits : UserEdit(n) \in FileContents
  /\ Missing \in FileContents /\ Cut \in FileContents /\ Unknown \in TmRecords
  /\ NoRecords \in TmManifests /\ NoTmCall \in TmCalls
<1>1. /\ \A v \in 0..MaxShipped : Release(v) \in FileContents /\ Release(v) \in TmRecords
      /\ \A n \in 1..MaxTemplateEdits : UserEdit(n) \in FileContents
      /\ Missing \in FileContents /\ Cut \in FileContents /\ Unknown \in TmRecords
  BY DEF FileContents, TmRecords
<1>2. NoRecords \in TmManifests
  BY <1>1 DEF NoRecords, TmManifests
<1> QED BY <1>1, <1>2 DEF NoTmCall, TmCalls

\* A call that takes a template in hand, passes over it or has handled it is a call.
LEMMA TmMoves ==
  ASSUME TmTypeOK, NEW t \in Templates
  PROVE  /\ PassedOver(t) \in TmCalls
         /\ \A step \in {"check", "backup", "copy", "record"} :
              /\ Take(t, step) \in TmCalls
              /\ \A hash \in TmRecords : [Take(t, step) EXCEPT !.hash = hash] \in TmCalls
         /\ \A hash \in TmRecords : Handled(t, hash) \in TmCalls
<1>1. tm \in TmCalls /\ dest[t] \in FileContents
  BY DEF TmTypeOK
<1>2. PassedOver(t) \in TmCalls
  BY <1>1 DEF PassedOver, TmCalls
<1>3. ASSUME NEW step \in {"check", "backup", "copy", "record"}
      PROVE  /\ Take(t, step) \in TmCalls
             /\ \A hash \in TmRecords : [Take(t, step) EXCEPT !.hash = hash] \in TmCalls
  <2>1. Take(t, step) \in TmCalls
    BY <1>1 DEF Take, TmCalls
  <2> QED BY <2>1 DEF TmCalls
<1>4. ASSUME NEW hash \in TmRecords PROVE Handled(t, hash) \in TmCalls
  <2>1. [tm.loaded EXCEPT ![t] = hash] \in TmManifests
    BY <1>1 DEF TmManifests, TmCalls
  <2>2. tm.at \in {"idle", "init", "reset", "upgrade"} /\ tm.todo \ {t} \in SUBSET Templates
    BY <1>1 DEF TmCalls
  <2> QED BY <2>1, <2>2, TmContents DEF Handled, TmCalls
<1> QED BY <1>2, <1>3, <1>4

\* What is lost is an edit.
LEMMA LostEdits ==
  ASSUME NEW c \in FileContents, NEW cause \in Causes
  PROVE  Lost(cause, c) \subseteq Causes \X UserEdits
BY EditsDiffer DEF Lost, FileContents, UserEdits

\* A backup changes what it is written over, and nothing else.
LEMMA BackUpTypes ==
  ASSUME TmTypeOK, NEW t \in Templates, NEW c \in FileContents, BackUp(t, c), tm' \in TmCalls
  PROVE  TmTypeOK'
<1>1. /\ bak[t] \in FileContents /\ \A o \in {Missing} \cup dated[t] : o \in FileContents
      /\ \A e \in FileContents : Lost("reset", e) \cup Lost("second", e) \subseteq Causes \X UserEdits
  BY LostEdits, TmContents DEF TmTypeOK, Causes
<1>2. UNCHANGED <<shipped, dest, manifest, edits, templateCalls>>
  BY DEF BackUp
<1>3. CASE bak' = [bak EXCEPT ![t] = c] /\ lost' = lost \cup Lost("reset", bak[t]) /\ UNCHANGED dated
  BY <1>1, <1>2, <1>3 DEF TmTypeOK, UserEdits
<1>4. CASE /\ \E over \in {Missing} \cup dated[t] :
                /\ dated' = [dated EXCEPT ![t] = (@ \ {over}) \cup {c}]
                /\ lost' = lost \cup Lost("second", over)
           /\ UNCHANGED bak
  <2>1. PICK over \in {Missing} \cup dated[t] :
          /\ dated' = [dated EXCEPT ![t] = (@ \ {over}) \cup {c}]
          /\ lost' = lost \cup Lost("second", over)
    BY <1>4
  <2>2. dated' \in [Templates -> SUBSET FileContents]
    BY <2>1 DEF TmTypeOK
  <2>3. lost' \subseteq Causes \X UserEdits
    BY <2>1, <1>1 DEF TmTypeOK, UserEdits
  <2> QED BY <1>2, <1>4, <2>2, <2>3 DEF TmTypeOK, UserEdits
<1> QED BY <1>3, <1>4 DEF BackUp

\* So does a copy.
LEMMA OverwriteTypes ==
  ASSUME TmTypeOK, NEW t \in Templates, NEW c \in FileContents, Overwrite(t, c), tm' \in TmCalls
  PROVE  TmTypeOK'
<1>1. dest[t] \in FileContents
  BY DEF TmTypeOK
<1>2. Lost("unseen", dest[t]) \cup Lost("untracked", dest[t]) \subseteq Causes \X UserEdits
  BY <1>1, LostEdits DEF Causes
<1>3. lost' \subseteq lost \cup Lost("unseen", dest[t]) \cup Lost("untracked", dest[t])
  BY DEF Overwrite
<1>4. /\ dest' = [dest EXCEPT ![t] = c]
      /\ UNCHANGED <<shipped, bak, dated, manifest, edits, templateCalls>>
  BY DEF Overwrite
<1> QED BY <1>2, <1>3, <1>4 DEF TmTypeOK, UserEdits

\* Every step of the templates keeps the types.
LEMMA TmTypeStep == TmTypeOK /\ [TmNext]_tmVars => TmTypeOK'
<1> SUFFICES ASSUME TmTypeOK, [TmNext]_tmVars PROVE TmTypeOK'
  OBVIOUS
<1>0. \A t \in Templates : Release(shipped[t]) \in FileContents /\ Release(shipped[t]) \in TmRecords
  BY TmContents DEF TmTypeOK
<1>k. ASSUME FilesUntouched, tm' \in TmCalls PROVE TmTypeOK'
  BY <1>k DEF FilesUntouched, TmTypeOK
<1>1. ASSUME NEW t \in Templates, Ship(t) PROVE TmTypeOK'
  BY <1>1, TemplateAssumption DEF Ship, TmTypeOK
<1>2. ASSUME NEW t \in Templates, OwnerWrites(t) PROVE TmTypeOK'
  <2>1. Lost("owner", dest[t]) \subseteq Causes \X UserEdits
    BY LostEdits DEF TmTypeOK, Causes
  <2>2. lost' \subseteq Causes \X UserEdits /\ UNCHANGED <<shipped, bak, dated, manifest, tm, templateCalls>>
    BY <1>2, <2>1 DEF OwnerWrites, TmTypeOK, UserEdits
  <2>3. CASE edits < MaxTemplateEdits /\ edits' = edits + 1 /\ dest' = [dest EXCEPT ![t] = UserEdit(edits + 1)]
    <3>1. edits + 1 \in 1..MaxTemplateEdits
      BY <2>3, TemplateAssumption DEF TmTypeOK
    <3>2. dest' \in [Templates -> FileContents] /\ edits' \in 0..MaxTemplateEdits
      BY <2>3, <3>1, TmContents DEF TmTypeOK
    <3> QED BY <2>2, <3>2 DEF TmTypeOK, UserEdits
  <2>4. CASE dest' = [dest EXCEPT ![t] = Missing] /\ UNCHANGED edits
    <3>1. dest' \in [Templates -> FileContents]
      BY <2>4, TmContents DEF TmTypeOK
    <3> QED BY <2>2, <2>4, <3>1 DEF TmTypeOK, UserEdits
  <2> QED BY <1>2, <2>3, <2>4 DEF OwnerWrites
<1>3. ASSUME NEW word \in {"init", "reset", "upgrade"}, NEW ts \in SUBSET Templates, CallTemplates(word, ts)
      PROVE  TmTypeOK'
  <2>1. PICK m \in {manifest, NoRecords} :
          tm' = [NoTmCall EXCEPT !.at = word, !.todo = ts, !.loaded = m]
    BY <1>3 DEF CallTemplates
  <2>2. m \in TmManifests
    BY TmContents DEF TmTypeOK
  <2>3. tm' \in TmCalls
    BY <2>1, <2>2, TmContents DEF TmCalls
  <2>4. /\ templateCalls' \in 0..MaxTemplateCalls
        /\ UNCHANGED <<shipped, dest, bak, dated, manifest, edits, lost>>
    BY <1>3, TemplateAssumption DEF CallTemplates, TmTypeOK
  <2> QED BY <2>3, <2>4 DEF TmTypeOK
<1>4. ASSUME NEW t \in Templates, NoSource(t) \/ LookInit(t) \/ CheckInit(t) \/ LookReset(t) \/ LookUpgrade(t)
      PROVE  TmTypeOK'
  <2>1. FilesUntouched
    BY <1>4 DEF NoSource, LookInit, CheckInit, LookReset, LookUpgrade
  <2>2. tm' \in TmCalls
    <3>1. CASE NoSource(t)
      BY <3>1, TmMoves DEF NoSource
    <3>2. CASE LookInit(t)
      BY <3>2, TmMoves DEF LookInit
    <3>3. CASE CheckInit(t)
      BY <3>3, TmMoves DEF CheckInit
    <3>4. CASE LookReset(t)
      BY <3>4, TmMoves DEF LookReset
    <3>5. CASE LookUpgrade(t)
      BY <3>5, <1>0, TmMoves DEF LookUpgrade
    <3> QED BY <1>4, <3>1, <3>2, <3>3, <3>4, <3>5
  <2> QED BY <1>k, <2>1, <2>2
<1>5. ASSUME NEW t \in Templates, SaveBackup(t) PROVE TmTypeOK'
  <2>1. tm' \in TmCalls /\ dest[t] \in FileContents /\ BackUp(t, dest[t])
    BY <1>5, TmMoves DEF SaveBackup, TmTypeOK
  <2> QED BY <2>1, BackUpTypes
<1>6. ASSUME NEW t \in Templates, CopyShipped(t) PROVE TmTypeOK'
  <2>1. tm.hash \in TmRecords
    BY DEF TmTypeOK, TmCalls
  <2>2. tm' \in TmCalls /\ Overwrite(t, Release(shipped[t]))
    BY <1>6, <2>1, TmMoves DEF CopyShipped
  <2> QED BY <1>0, <2>2, OverwriteTypes
<1>7. ASSUME NEW t \in Templates, RecordShipped(t) PROVE TmTypeOK'
  BY <1>7, <1>0, <1>k, TmMoves DEF RecordShipped
<1>8. CASE SaveManifest
  <2>1. tm.loaded \in TmManifests
    BY DEF TmTypeOK, TmCalls
  <2> QED BY <1>8, <2>1, TmContents DEF SaveManifest, TmTypeOK
<1>9. CASE TmDies
  <2>1. tm' \in TmCalls
    BY <1>9, TmContents DEF TmDies
  <2>2. CASE FilesUntouched
    BY <1>k, <2>1, <2>2
  <2>3. CASE \E t \in Templates : BackUp(t, Cut) \/ Overwrite(t, Cut)
    BY <2>1, <2>3, TmContents, BackUpTypes, OverwriteTypes
  <2>4. CASE manifest' = NoRecords /\ UNCHANGED <<shipped, dest, bak, dated, edits, templateCalls, lost>>
    BY <2>1, <2>4, TmContents DEF TmTypeOK
  <2> QED BY <1>9, <2>2, <2>3, <2>4 DEF TmDies
<1>10. CASE UNCHANGED tmVars
  BY <1>10 DEF tmVars, TmTypeOK
<1> QED BY <1>1, <1>2, <1>3, <1>4, <1>5, <1>6, <1>7, <1>8, <1>9, <1>10 DEF TmNext

\* The templates keep their types.
THEOREM TmTypes == TmSpec => []TmTypeOK
<1>1. TmInit => TmTypeOK
  BY TemplateAssumption, TmContents DEF TmInit, TmTypeOK, FileContents
<1> QED BY <1>1, TmTypeStep, PTL DEF TmSpec

\* No step makes a copy overwrite an edit it has seen that is not backed up.
LEMMA SeenSafeStep == TmTypeOK /\ SeenSafe /\ [TmNext]_tmVars => SeenSafe'
<1> SUFFICES ASSUME TmTypeOK, SeenSafe, [TmNext]_tmVars PROVE SeenSafe'
  OBVIOUS
<1>0. tm \in TmCalls /\ \A t \in Templates : tm.loaded[t] \in TmRecords
  BY DEF TmTypeOK, TmCalls, TmManifests
<1>i. ~IsEdit(Missing) /\ \A r \in TmRecords : ~IsEdit(r)
  BY EditsDiffer DEF TmRecords, Unknown
<1>n. ASSUME tm'.step # "copy" PROVE SeenSafe'
  BY <1>n DEF SeenSafe, InHand
<1>k. ASSUME UNCHANGED <<tm, bak, dated>> PROVE SeenSafe'
  BY <1>k DEF SeenSafe, InHand
<1>c. NoTmCall.step = "next"
  BY DEF NoTmCall
<1>m. \A t \in Templates, step \in {"check", "backup", "copy", "record"} :
        /\ Take(t, step).step = step /\ Take(t, step).on = t /\ Take(t, step).seen = dest[t]
        /\ Take(t, step).at = tm.at /\ Take(t, step).loaded = tm.loaded
        /\ PassedOver(t).step = tm.step
  BY <1>0 DEF Take, PassedOver, TmCalls
<1>1. ASSUME NEW t \in Templates, Ship(t) \/ OwnerWrites(t) PROVE SeenSafe'
  BY <1>1, <1>k DEF Ship, OwnerWrites
<1>2. ASSUME NEW word, NEW ts, CallTemplates(word, ts) PROVE SeenSafe'
  <2>1. tm'.step = "next"
    BY <1>2 DEF CallTemplates, NoTmCall
  <2> QED BY <2>1, <1>n
<1>3. ASSUME NEW t \in Templates, NoSource(t) PROVE SeenSafe'
  BY <1>3, <1>m, <1>n DEF NoSource, Turn
<1>4. ASSUME NEW t \in Templates, LookInit(t) PROVE SeenSafe'
  BY <1>4, <1>m, <1>n DEF LookInit, Turn
<1>5. ASSUME NEW t \in Templates, CheckInit(t) \/ LookReset(t) PROVE SeenSafe'
  <2>1. CASE dest[t] # Missing
    BY <1>5, <2>1, <1>m, <1>n DEF CheckInit, LookReset
  <2>2. CASE dest[t] = Missing
    <3>1. tm' = Take(t, "copy")
      BY <1>5, <2>2 DEF CheckInit, LookReset
    <3>2. ~IsEdit(tm'.seen)
      BY <3>1, <2>2, <1>m, <1>i
    <3> QED BY <3>2 DEF SeenSafe
  <2> QED BY <2>1, <2>2
<1>6. ASSUME NEW t \in Templates, LookUpgrade(t) PROVE SeenSafe'
  <2>1. CASE dest[t] = Missing
    BY <1>6, <2>1, <1>m, <1>n DEF LookUpgrade, Turn
  <2> DEFINE changed == tm.loaded[t] # Unknown /\ dest[t] # tm.loaded[t]
  <2>2. CASE dest[t] # Missing /\ changed
    <3>1. tm' = [Take(t, "backup") EXCEPT !.hash = Release(shipped[t])]
      BY <1>6, <2>2 DEF LookUpgrade
    <3>2. Take(t, "backup") \in TmCalls /\ Take(t, "backup").step = "backup"
      BY <1>m, TmMoves
    <3>3. tm'.step = "backup"
      BY <3>1, <3>2 DEF TmCalls
    <3> QED BY <3>3, <1>n
  <2>3. CASE dest[t] # Missing /\ ~changed
    <3>1. tm' = [Take(t, "copy") EXCEPT !.hash = Release(shipped[t])] /\ tm.at = "upgrade"
      BY <1>6, <2>3 DEF LookUpgrade, Turn
    <3>2. Take(t, "copy") \in TmCalls
      BY TmMoves
    <3>3. tm'.on = t /\ tm'.seen = dest[t] /\ tm'.at = "upgrade" /\ tm'.loaded = tm.loaded
      BY <3>1, <3>2, <1>m DEF TmCalls
    <3>4. IsEdit(dest[t]) => tm.loaded[t] = Unknown
      BY <2>3, <1>0, <1>i
    <3> QED BY <3>3, <3>4 DEF SeenSafe, InHand
  <2> QED BY <2>1, <2>2, <2>3
<1>7. ASSUME NEW t \in Templates, SaveBackup(t) PROVE SeenSafe'
  <2>1. tm' = Take(t, "copy") /\ BackUp(t, dest[t])
    BY <1>7 DEF SaveBackup
  <2>2. dest[t] \in {bak'[t]} \cup dated'[t]
    BY <2>1 DEF BackUp, TmTypeOK
  <2>3. tm'.on = t /\ tm'.seen = dest[t]
    BY <2>1, <1>m
  <2> QED BY <2>2, <2>3 DEF SeenSafe, InHand
<1>8. ASSUME NEW t \in Templates, CopyShipped(t) PROVE SeenSafe'
  <2>1. tm'.step \in {"next", "record"}
    BY <1>8, <1>m DEF CopyShipped, Handled, NoTmCall
  <2> QED BY <2>1, <1>n
<1>9. ASSUME NEW t \in Templates, RecordShipped(t) PROVE SeenSafe'
  <2>1. tm'.step = "next"
    BY <1>9 DEF RecordShipped, Handled, NoTmCall
  <2> QED BY <2>1, <1>n
<1>10. CASE SaveManifest \/ TmDies
  BY <1>10, <1>c, <1>n DEF SaveManifest, TmDies
<1>11. CASE UNCHANGED tmVars
  BY <1>11, <1>k DEF tmVars
<1> QED BY <1>1, <1>2, <1>3, <1>4, <1>5, <1>6, <1>7, <1>8, <1>9, <1>10, <1>11 DEF TmNext

\* Where the nth edit is.
LEMMA EditsKeptStep == TmTypeOK /\ SeenSafe /\ EditsKept /\ [TmNext]_tmVars => EditsKept'
<1> SUFFICES ASSUME TmTypeOK, SeenSafe, EditsKept, [TmNext]_tmVars, NEW n \in 1..edits'
             PROVE  \/ \E cause \in Causes : <<cause, UserEdit(n)>> \in lost'
                    \/ \E t \in Templates : UserEdit(n) \in {dest'[t], bak'[t]} \cup dated'[t]
  BY DEF EditsKept
<1> DEFINE e == UserEdit(n)
           Safe == \/ \E cause \in Causes : <<cause, e>> \in lost'
                   \/ \E t \in Templates : e \in {dest'[t], bak'[t]} \cup dated'[t]
           Was == \/ \E cause \in Causes : <<cause, e>> \in lost
                  \/ \E t \in Templates : e \in {dest[t], bak[t]} \cup dated[t]
<1>w. n \in 1..edits => Was
  BY DEF EditsKept
<1>e. \A c, cause : c = e => <<cause, e>> \in Lost(cause, c)
  BY EditsDiffer DEF Lost
<1> HIDE DEF e
<1>k. ASSUME UNCHANGED <<dest, bak, dated, edits, lost>> PROVE Safe
  BY <1>k, <1>w
<1>b. ASSUME NEW t \in Templates, NEW c, BackUp(t, c) PROVE Safe
  <2>1. /\ \A s \in Templates \ {t} : bak'[s] = bak[s] /\ dated'[s] = dated[s]
        /\ lost \subseteq lost' /\ UNCHANGED <<dest, edits>>
    BY <1>b DEF BackUp, TmTypeOK
  <2>2. bak[t] = e => bak'[t] = e \/ <<"reset", e>> \in lost'
    BY <1>b, <1>e DEF BackUp
  <2>3. e \in dated[t] => e \in dated'[t] \/ <<"second", e>> \in lost'
    <3>1. CASE UNCHANGED dated
      BY <3>1
    <3>2. CASE \E over \in {Missing} \cup dated[t] :
                 /\ dated' = [dated EXCEPT ![t] = (@ \ {over}) \cup {c}]
                 /\ lost' = lost \cup Lost("second", over)
      <4>1. PICK over : /\ dated' = [dated EXCEPT ![t] = (@ \ {over}) \cup {c}]
                        /\ lost' = lost \cup Lost("second", over)
        BY <3>2
      <4>2. CASE over = e
        BY <4>1, <4>2, <1>e
      <4>3. CASE over # e
        BY <4>1, <4>3 DEF TmTypeOK
      <4> QED BY <4>2, <4>3
    <3> QED BY <1>b, <3>1, <3>2 DEF BackUp
  <2>4. CASE \E cause \in Causes : <<cause, e>> \in lost
    BY <2>1, <2>4
  <2>5. CASE \E s \in Templates : e \in {dest[s], bak[s]} \cup dated[s]
    <3>1. PICK s \in Templates : e \in {dest[s], bak[s]} \cup dated[s]
      BY <2>5
    <3>2. CASE s = t
      BY <3>1, <3>2, <2>1, <2>2, <2>3 DEF Causes
    <3>3. CASE s # t
      BY <3>1, <3>3, <2>1
    <3> QED BY <3>2, <3>3
  <2> QED BY <1>w, <2>1, <2>4, <2>5
<1>o. ASSUME NEW t \in Templates, NEW c, Overwrite(t, c) PROVE Safe
  <2>1. /\ \A s \in Templates \ {t} : dest'[s] = dest[s]
        /\ lost \subseteq lost' /\ UNCHANGED <<bak, dated, edits>>
    BY <1>o DEF Overwrite, TmTypeOK
  <2>2. dest[t] = e => Safe
    <3> SUFFICES ASSUME dest[t] = e PROVE Safe
      OBVIOUS
    <3>1. CASE tm.seen # e
      <4>1. <<"unseen", e>> \in lost'
        BY <1>o, <1>e, <3>1 DEF Overwrite
      <4> QED BY <4>1 DEF Causes
    <3>2. CASE tm.seen = e /\ tm.loaded[t] = Unknown /\ tm.at = "upgrade"
      <4>1. <<"untracked", e>> \in lost'
        BY <1>o, <1>e, <3>2 DEF Overwrite
      <4> QED BY <4>1 DEF Causes
    <3>3. CASE tm.seen = e /\ ~(tm.loaded[t] = Unknown /\ tm.at = "upgrade")
      <4>1. IsEdit(tm.seen) /\ InHand(t, "copy")
        BY <3>3, <1>o, EditsDiffer DEF Overwrite, e
      <4>2. e \in {bak[t]} \cup dated[t]
        BY <3>3, <4>1 DEF SeenSafe
      <4> QED BY <4>2, <2>1
    <3> QED BY <3>1, <3>2, <3>3
  <2>3. CASE \E cause \in Causes : <<cause, e>> \in lost
    BY <2>1, <2>3
  <2>4. CASE \E s \in Templates : e \in {dest[s], bak[s]} \cup dated[s]
    <3>1. PICK s \in Templates : e \in {dest[s], bak[s]} \cup dated[s]
      BY <2>4
    <3>2. CASE e = dest[s] /\ s = t
      BY <3>2, <2>2
    <3>3. CASE e = dest[s] /\ s # t
      BY <3>3, <2>1
    <3>4. CASE e \in {bak[s]} \cup dated[s]
      BY <3>4, <2>1
    <3> QED BY <3>1, <3>2, <3>3, <3>4
  <2> QED BY <1>w, <2>1, <2>3, <2>4
<1>1. ASSUME NEW t \in Templates, OwnerWrites(t) PROVE Safe
  <2>1. /\ lost' = lost \cup Lost("owner", dest[t])
        /\ \A s \in Templates \ {t} : dest'[s] = dest[s]
        /\ UNCHANGED <<bak, dated>>
    BY <1>1 DEF OwnerWrites, TmTypeOK
  <2>2. CASE n \in 1..edits
    BY <1>w, <1>e, <2>1, <2>2 DEF Causes
  <2>3. CASE n \notin 1..edits
    <3>1. n = edits + 1 /\ dest' = [dest EXCEPT ![t] = UserEdit(edits + 1)]
      BY <1>1, <2>3, TemplateAssumption DEF OwnerWrites, TmTypeOK
    <3> QED BY <3>1 DEF TmTypeOK, e
  <2> QED BY <2>2, <2>3
<1>2. ASSUME NEW t \in Templates,
             \/ Ship(t) \/ NoSource(t) \/ LookInit(t) \/ CheckInit(t) \/ LookReset(t)
             \/ LookUpgrade(t) \/ RecordShipped(t)
      PROVE  Safe
  BY <1>2, <1>k DEF Ship, NoSource, LookInit, CheckInit, LookReset, LookUpgrade, RecordShipped, FilesUntouched
<1>3. ASSUME NEW word, NEW ts, CallTemplates(word, ts) PROVE Safe
  BY <1>3, <1>k DEF CallTemplates
<1>4. ASSUME NEW t \in Templates, SaveBackup(t) \/ CopyShipped(t) PROVE Safe
  BY <1>4, <1>b, <1>o DEF SaveBackup, CopyShipped
<1>5. ASSUME SaveManifest \/ TmDies \/ UNCHANGED tmVars PROVE Safe
  BY <1>5, <1>k, <1>b, <1>o DEF SaveManifest, TmDies, FilesUntouched, tmVars
<1>6. Safe
  BY <1>1, <1>2, <1>3, <1>4, <1>5 DEF TmNext
<1> QED BY <1>6 DEF e

\* At every step of every call.
LEMMA TmInvariance == TmSpec => [](TmTypeOK /\ SeenSafe)
<1>1. TmInit => SeenSafe
  BY DEF TmInit, SeenSafe, InHand, NoTmCall
<1> QED BY <1>1, TmTypes, SeenSafeStep, PTL DEF TmSpec

\* Every edit is in place or in a backup, or is gone in one of the ways that Causes names,
\* for any templates, releases, edits and calls: what a call has seen to be edited, of a
\* file the manifest knows, is backed up before it is overwritten.
THEOREM EditsAreKept == TmSpec => []EditsKept
<1>1. TmInit => EditsKept
  BY DEF TmInit, EditsKept
<1> QED BY <1>1, TmInvariance, EditsKeptStep, PTL DEF TmSpec

-----------------------------------------------------------------------------
\* DashboardChat: the history of a conversation, though its requests run at once.

\* The places a chat request passes through, and what is kept of one.
ChatPlaces == {"waiting", "user", "writeUser", "generate", "assistant", "writeAssistant", "done"}
\* What a request is.
ChatRequest == [at : ChatPlaces, conv : Conversations \cup {"none"}, copy : Row, stale : BOOLEAN]

\* The row a request writes has one message more than its copy.
LEMMA ExtendedRow ==
  ASSUME ChatTypeOK, NEW r \in Requests, NEW role \in {"user", "assistant"}
  PROVE  LET m == request[r].copy.messages
             e == Extended(r, role)
         IN /\ m \in Seq(Message) /\ e \in Row /\ Len(e.messages) = Len(m) + 1
            /\ \A i \in 1..Len(m) : e.messages[i] = m[i]
            /\ e.messages[Len(m) + 1] = Said(role, r)
            /\ e.title = IF request[r].copy.title = "new" /\ role = "user" THEN r
                         ELSE request[r].copy.title
<1> DEFINE m == request[r].copy.messages
           e == Extended(r, role)
<1>1. request[r].copy \in Row
  BY DEF ChatTypeOK
<1>2. m \in Seq(Message) /\ request[r].copy.title \in {"new"} \cup Requests
  BY <1>1 DEF Row
<1>3. Said(role, r) \in Message
  BY DEF Said, Message
<1>4. e.messages = Append(m, Said(role, r))
      /\ e.title = IF request[r].copy.title = "new" /\ role = "user" THEN r
                   ELSE request[r].copy.title
  BY DEF Extended
<1>5. e.messages \in Seq(Message) /\ e.title \in {"new"} \cup Requests
  BY <1>2, <1>3, <1>4, AppendProperties
<1>6. e \in Row
  BY <1>5 DEF Extended, Row
<1>7. /\ Len(e.messages) = Len(m) + 1 /\ e.messages[Len(m) + 1] = Said(role, r)
      /\ \A i \in 1..Len(m) : e.messages[i] = m[i]
  BY <1>2, <1>3, <1>4, AppendProperties
<1> QED BY <1>2, <1>4, <1>6, <1>7

\* It is named as the copy if that has a name, and else after the user who writes.
LEMMA ExtendedName ==
  ASSUME ChatTypeOK, NEW r \in Requests, NEW role \in {"user", "assistant"},
         NamedAfterFirst(request[r].copy)
  PROVE  NamedAfterFirst(Extended(r, role))
<1> DEFINE m == request[r].copy.messages
           e == Extended(r, role)
           n == Len(m)
<1>1. /\ m \in Seq(Message) /\ e \in Row /\ Len(e.messages) = n + 1
      /\ \A i \in 1..n : e.messages[i] = m[i]
      /\ e.messages[n + 1] = Said(role, r)
      /\ e.title = IF request[r].copy.title = "new" /\ role = "user" THEN r
                   ELSE request[r].copy.title
  BY ExtendedRow
<1>2. n \in Nat /\ DOMAIN m = 1..n /\ e.messages \in Seq(Message) /\ DOMAIN e.messages = 1..(n + 1)
  BY <1>1 DEF Row
<1>3. /\ \A i \in 1..n : i \in Users(e) <=> i \in Users(request[r].copy)
      /\ n + 1 \in Users(e) <=> role = "user"
      /\ Users(e) \subseteq 1..(n + 1) /\ Users(request[r].copy) \subseteq 1..n
  BY <1>1, <1>2, SMTT(30) DEF Users, Said
<1> HIDE DEF m, e, n
<1>4. CASE Users(request[r].copy) = {}
  <2>1. request[r].copy.title = "new"
    BY <1>4 DEF NamedAfterFirst
  <2>2. CASE role = "user"
    <3>1. n + 1 \in Users(e) /\ \A j \in Users(e) : j = n + 1
      BY <1>2, <1>3, <1>4, <2>2
    <3>2. e.title = e.messages[n + 1].by
      BY <1>1, <2>1, <2>2 DEF Said
    <3> QED BY <3>1, <3>2, <1>2 DEF NamedAfterFirst, e
  <2>3. CASE role = "assistant"
    <3>1. Users(e) = {}
      BY <1>2, <1>3, <1>4, <2>3
    <3> QED BY <3>1, <2>1, <2>3, <1>1 DEF NamedAfterFirst, e
  <2> QED BY <2>2, <2>3
<1>5. CASE Users(request[r].copy) # {}
  <2>1. PICK i \in Users(request[r].copy) :
          (\A j \in Users(request[r].copy) : i <= j) /\ request[r].copy.title = m[i].by
    BY <1>5 DEF NamedAfterFirst, m
  <2>2. i \in 1..n /\ m[i] \in Message
    BY <2>1, <1>1, <1>2, <1>3
  <2>3. request[r].copy.title # "new"
    BY <2>1, <2>2, ChatAssumption DEF Message
  <2>4. i \in Users(e) /\ \A j \in Users(e) : i <= j
    BY <2>1, <2>2, <1>2, <1>3
  <2>5. e.title = e.messages[i].by
    BY <2>1, <2>2, <2>3, <1>1
  <2> QED BY <2>4, <2>5 DEF NamedAfterFirst, e
<1> QED BY <1>4, <1>5

\* Every step of the conversations keeps the types.
LEMMA ChatTypeStep == ChatTypeOK /\ [ChatNext]_chatVars => ChatTypeOK'
<1> SUFFICES ASSUME ChatTypeOK, [ChatNext]_chatVars PROVE ChatTypeOK'
  OBVIOUS
<1>0. /\ rows \in [DOMAIN rows -> Row] /\ DOMAIN rows \subseteq usedIds
      /\ usedIds \subseteq Conversations /\ overlapped \subseteq Conversations
      /\ request \in [Requests -> ChatRequest]
  BY DEF ChatTypeOK, ChatRequest, ChatPlaces
<1>e. EmptyRow \in Row
  <2>1. <<>> \in Seq(Message)
    OBVIOUS
  <2> QED BY <2>1 DEF EmptyRow, Row
<1>1. ASSUME NEW r \in Requests, Open(r) PROVE ChatTypeOK'
  <2>1. PICK c \in Conversations :
          /\ \/ c \in DOMAIN rows /\ UNCHANGED <<rows, usedIds>>
             \/ /\ c \notin usedIds
                /\ rows' = [d \in DOMAIN rows \cup {c} |-> IF d = c THEN EmptyRow ELSE rows[d]]
                /\ usedIds' = usedIds \cup {c}
          /\ overlapped' = IF \E q \in Active : request[q].conv = c
                           THEN overlapped \cup {c} ELSE overlapped
          /\ request' = [request EXCEPT ![r] = [Waiting EXCEPT !.at = "user", !.conv = c]]
    BY <1>1 DEF Open
  <2>2. [Waiting EXCEPT !.at = "user", !.conv = c] \in ChatRequest
    BY <1>e DEF Waiting, ChatRequest, ChatPlaces
  <2>3. request' \in [Requests -> ChatRequest] /\ overlapped' \subseteq Conversations
    BY <2>1, <2>2, <1>0
  <2>4. rows' \in [DOMAIN rows' -> Row] /\ DOMAIN rows' \subseteq usedIds' /\ usedIds' \subseteq Conversations
    BY <2>1, <1>0, <1>e
  <2> QED BY <2>3, <2>4 DEF ChatTypeOK, ChatRequest, ChatPlaces
<1>2. ASSUME NEW r \in Requests, ReadRow(r) PROVE ChatTypeOK'
  <2>1. CASE request[r].conv \in DOMAIN rows
    <3> DEFINE x == [at |-> IF request[r].at = "user" THEN "writeUser" ELSE "writeAssistant",
                     conv |-> request[r].conv, copy |-> rows[request[r].conv], stale |-> FALSE]
    <3>1. x \in ChatRequest
      BY <2>1, <1>0 DEF ChatRequest, ChatPlaces
    <3>2. request' = [request EXCEPT ![r] = x] /\ UNCHANGED <<rows, usedIds, overlapped>>
      BY <1>2, <2>1 DEF ReadRow
    <3> HIDE DEF x
    <3>3. request' \in [Requests -> ChatRequest]
      BY <3>1, <3>2, <1>0
    <3> QED BY <3>2, <3>3, <1>0 DEF ChatTypeOK, ChatRequest, ChatPlaces
  <2>2. CASE request[r].conv \notin DOMAIN rows
    BY <1>2, <2>2, <1>0 DEF ReadRow, At, ChatTypeOK, ChatRequest, ChatPlaces
  <2> QED BY <2>1, <2>2
<1>3. ASSUME NEW r \in Requests, WriteRow(r) PROVE ChatTypeOK'
  <2> DEFINE c == request[r].conv
             role == IF request[r].at = "writeUser" THEN "user" ELSE "assistant"
  <2>1. /\ rows' = IF c \in DOMAIN rows THEN [rows EXCEPT ![c] = Extended(r, role)] ELSE rows
        /\ request' = [q \in Requests |->
             IF q = r THEN [request[r] EXCEPT !.at = IF role = "user" THEN "generate" ELSE "done"]
             ELSE [request[q] EXCEPT !.stale = request[q].stale \/ (request[q].conv = c /\ Writing(q))]]
        /\ UNCHANGED <<usedIds, overlapped>>
    BY <1>3 DEF WriteRow
  <2>2. role \in {"user", "assistant"}
    OBVIOUS
  <2>3. Extended(r, role) \in Row
    BY <2>2, ExtendedRow
  <2> HIDE DEF role
  <2>4. [request[r] EXCEPT !.at = IF role = "user" THEN "generate" ELSE "done"] \in ChatRequest
    BY <1>0 DEF ChatRequest, ChatPlaces
  <2>5. ASSUME NEW q \in Requests
        PROVE  [request[q] EXCEPT !.stale = request[q].stale \/ (request[q].conv = c /\ Writing(q))] \in ChatRequest
    BY <1>0 DEF ChatRequest, Writing
  <2>6. request' \in [Requests -> ChatRequest]
    BY <2>1, <2>4, <2>5
  <2>7. rows' \in [DOMAIN rows' -> Row] /\ DOMAIN rows' = DOMAIN rows
    BY <2>1, <2>3, <1>0
  <2> QED BY <2>1, <2>6, <2>7, <1>0 DEF ChatTypeOK, ChatRequest, ChatPlaces
<1>4. ASSUME NEW r \in Requests, Generate(r) \/ Disconnect(r) PROVE ChatTypeOK'
  BY <1>4, <1>0 DEF Generate, Disconnect, At, ChatTypeOK, ChatRequest, ChatPlaces
<1>5. ASSUME NEW c \in Conversations, Delete(c) PROVE ChatTypeOK'
  BY <1>5, <1>0 DEF Delete, ChatTypeOK, ChatRequest, ChatPlaces
<1>6. CASE UNCHANGED chatVars
  BY <1>6 DEF chatVars, ChatTypeOK
<1> QED BY <1>1, <1>2, <1>3, <1>4, <1>5, <1>6 DEF ChatNext, ChatStep

\* Stored conversations and the requests at work on them.
ChatRows == ChatInv /\ TitleIsFirst /\ AnswersFollow

\* What ChatInv says of one request: its copy has its name, is the row unless that is
\* stale, and a request that is alone put its question last.
CopyHolds(r) ==
  /\ NamedAfterFirst(request[r].copy)
  /\ Writing(r) /\ ~request[r].stale /\ request[r].conv \in DOMAIN rows
       => request[r].copy = rows[request[r].conv]
  /\ r \in Active => request[r].conv \in usedIds

\* A request no other has overlapped is alone in its conversation, and its question is last.
AloneHolds(r) ==
  r \in Active /\ request[r].conv \notin overlapped =>
    /\ \A q \in Active : request[q].conv = request[r].conv => q = r
    /\ Writing(r) => ~request[r].stale
    /\ request[r].at \in {"generate", "assistant", "writeAssistant"} /\ request[r].conv \in DOMAIN rows =>
         LET list == rows[request[r].conv].messages IN list # <<>> /\ list[Len(list)] = Said("user", r)

\* ChatRows request by request.
LEMMA RowsByRequest ==
  ChatRows <=> /\ \A r \in Requests : CopyHolds(r) /\ AloneHolds(r)
               /\ TitleIsFirst /\ AnswersFollow
BY DEF ChatRows, ChatInv, CopyHolds, AloneHolds, Active

\* A row with an answer written by the request whose question is last stays in turns.
LEMMA TurnsExtended ==
  ASSUME ChatTypeOK, NEW r \in Requests, NEW role \in {"user", "assistant"},
         InTurns(request[r].copy),
         role = "assistant" => LET m == request[r].copy.messages
                               IN m # <<>> /\ m[Len(m)] = Said("user", r)
  PROVE  InTurns(Extended(r, role))
<1> DEFINE m == request[r].copy.messages
           e == Extended(r, role)
           n == Len(m)
<1>1. /\ m \in Seq(Message) /\ e \in Row /\ Len(e.messages) = n + 1
      /\ \A i \in 1..n : e.messages[i] = m[i]
      /\ e.messages[n + 1] = Said(role, r)
  BY ExtendedRow
<1>2. n \in Nat /\ DOMAIN m = 1..n /\ DOMAIN e.messages = 1..(n + 1)
  BY <1>1 DEF Row
<1>3. role = "assistant" => n > 0 /\ m[n] = Said("user", r)
  BY <1>1
<1>4. \A i \in 1..n : m[i].role = "assistant" => i > 1 /\ m[i - 1] = Said("user", m[i].by)
  BY <1>2 DEF InTurns
<1> HIDE DEF m, e, n
<1>5. ASSUME NEW i \in 1..(n + 1), e.messages[i].role = "assistant"
      PROVE  i > 1 /\ e.messages[i - 1] = Said("user", e.messages[i].by)
  <2>1. CASE i \in 1..n
    BY <2>1, <1>1, <1>2, <1>4, <1>5
  <2>2. CASE i = n + 1
    <3>1. role = "assistant" /\ e.messages[i].by = r
      BY <2>2, <1>1, <1>5 DEF Said
    <3>2. n \in 1..n /\ i - 1 = n /\ i > 1
      BY <3>1, <2>2, <1>2, <1>3
    <3> QED BY <3>1, <3>2, <1>1, <1>3
  <2> QED BY <2>1, <2>2, <1>2
<1> QED BY <1>2, <1>5 DEF InTurns, e

\* A request that opens a conversation marks it overlapped unless it is alone there.
LEMMA OpenKeeps ==
  ASSUME ChatTypeOK, ChatRows, NEW r \in Requests, Open(r)
  PROVE  ChatRows'
<1>0. /\ DOMAIN rows \subseteq usedIds /\ request \in [Requests -> ChatRequest]
      /\ \A q \in Requests : CopyHolds(q) /\ AloneHolds(q)
      /\ TitleIsFirst /\ AnswersFollow
  BY RowsByRequest DEF ChatTypeOK, ChatRequest, ChatPlaces
<1>1. PICK c \in Conversations :
        /\ \/ c \in DOMAIN rows /\ UNCHANGED <<rows, usedIds>>
           \/ /\ c \notin usedIds
              /\ rows' = [d \in DOMAIN rows \cup {c} |-> IF d = c THEN EmptyRow ELSE rows[d]]
              /\ usedIds' = usedIds \cup {c}
        /\ overlapped' = IF \E q \in Active : request[q].conv = c
                         THEN overlapped \cup {c} ELSE overlapped
        /\ request' = [request EXCEPT ![r] = [Waiting EXCEPT !.at = "user", !.conv = c]]
  BY DEF Open
<1>2. /\ request'[r] = [at |-> "user", conv |-> c, copy |-> EmptyRow, stale |-> FALSE]
      /\ \A q \in Requests \ {r} : request'[q] = request[q]
      /\ r \notin Active /\ Active' = Active \cup {r}
  BY <1>0, <1>1, ZenonT(90) DEF Waiting, Active, Open
<1>3. /\ \A d \in DOMAIN rows : d \in DOMAIN rows' /\ rows'[d] = rows[d]
      /\ \A d \in DOMAIN rows' \ DOMAIN rows : d = c /\ c \notin usedIds /\ rows'[d] = EmptyRow
      /\ usedIds \subseteq usedIds' /\ c \in usedIds' /\ overlapped \subseteq overlapped'
  BY <1>0, <1>1
<1>4. Users(EmptyRow) = {} /\ NamedAfterFirst(EmptyRow) /\ InTurns(EmptyRow)
  BY DEF Users, NamedAfterFirst, InTurns, EmptyRow
<1>5. ASSUME NEW q \in Requests PROVE CopyHolds(q)'
  <2>1. CASE q = r
    BY <2>1, <1>2, <1>3, <1>4 DEF CopyHolds, Writing, Active
  <2>2. CASE q # r
    <3>1. request'[q] = request[q] /\ (q \in Active' => q \in Active) /\ CopyHolds(q)
      BY <2>2, <1>0, <1>2
    <3>2. Writing(q) => request[q].conv \in usedIds
      BY <3>1 DEF CopyHolds, Writing, Active
    <3>3. Writing(q) /\ ~request[q].stale /\ request[q].conv \in DOMAIN rows'
            => request[q].copy = rows'[request[q].conv]
      BY <3>1, <3>2, <1>3 DEF CopyHolds
    <3> QED BY <3>1, <3>3, <1>3 DEF CopyHolds, Writing
  <2> QED BY <2>1, <2>2
<1>6. ASSUME NEW q \in Requests PROVE AloneHolds(q)'
  <2> SUFFICES ASSUME q \in Active', request'[q].conv \notin overlapped'
               PROVE  AloneHolds(q)'
    BY DEF AloneHolds
  <2>1. CASE q = r
    <3>1. \A p \in Active : request[p].conv # c
      BY <2>1, <1>1, <1>2
    <3>2. \A p \in Active' : request'[p].conv = c => p = r
      BY <3>1, <1>2 DEF Active
    <3> QED BY <2>1, <3>2, <1>2 DEF AloneHolds, Writing
  <2>2. CASE q # r
    <3>1. request'[q] = request[q] /\ q \in Active /\ request[q].conv \notin overlapped
      BY <2>2, <1>2, <1>3
    <3>2. request[q].conv # c
      BY <3>1, <1>1, <2>2, <1>2
    <3>3. \A p \in Active' : request'[p].conv = request[q].conv => p = q
      BY <3>1, <3>2, <1>0, <1>2 DEF AloneHolds, Active
    <3>4. request[q].conv \in DOMAIN rows'
            => request[q].conv \in DOMAIN rows /\ rows'[request[q].conv] = rows[request[q].conv]
      BY <3>2, <1>3
    <3>5. AloneHolds(q)
      BY <1>0
    <3>6. Writing(q)' = Writing(q)
      BY <3>1 DEF Writing
    <3> QED BY <3>1, <3>3, <3>4, <3>5, <3>6 DEF AloneHolds
  <2> QED BY <2>1, <2>2
<1>7. TitleIsFirst' /\ AnswersFollow'
  <2>1. ASSUME NEW d \in DOMAIN rows' PROVE NamedAfterFirst(rows'[d])
    BY <1>0, <1>3, <1>4 DEF TitleIsFirst
  <2>2. ASSUME NEW d \in DOMAIN rows' \ overlapped' PROVE InTurns(rows'[d])
    BY <1>0, <1>3, <1>4 DEF AnswersFollow
  <2> QED BY <2>1, <2>2 DEF TitleIsFirst, AnswersFollow, NamedAfterFirst, InTurns, Users
<1> QED BY <1>5, <1>6, <1>7 DEF ChatRows, ChatInv, CopyHolds, AloneHolds, Active

\* A request that moves on without a write keeps what is known of the others.
LEMMA MoveKeeps ==
  ASSUME ChatTypeOK, ChatRows, NEW r \in Requests, NEW x, UNCHANGED <<rows, usedIds, overlapped>>,
         request' = [request EXCEPT ![r] = x], x.conv = request[r].conv,
         x.at \notin {"waiting", "done"} => r \in Active,
         CopyHolds(r)', AloneHolds(r)'
  PROVE  ChatRows'
<1>0. /\ request \in [Requests -> ChatRequest]
      /\ \A q \in Requests : CopyHolds(q) /\ AloneHolds(q)
      /\ TitleIsFirst /\ AnswersFollow
  BY RowsByRequest DEF ChatTypeOK, ChatRequest, ChatPlaces
<1>1. /\ \A q \in Requests \ {r} : request'[q] = request[q]
      /\ request'[r] = x /\ Active' \subseteq Active
  BY <1>0 DEF Active
<1>2. ASSUME NEW q \in Requests PROVE CopyHolds(q)' /\ AloneHolds(q)'
  <2>1. CASE q = r
    BY <2>1
  <2>2. CASE q # r
    <3>1. request'[q] = request[q] /\ Writing(q)' = Writing(q) /\ (q \in Active' => q \in Active)
      BY <2>2, <1>1 DEF Writing
    <3>2. \A p \in Active' : p \in Active /\ request'[p].conv = request[p].conv
      BY <1>1 DEF Active
    <3>3. CopyHolds(q) /\ AloneHolds(q)
      BY <1>0
    <3>4. CopyHolds(q)'
      BY <3>1, <3>3 DEF CopyHolds
    <3>5. AloneHolds(q)'
      BY <3>1, <3>2, <3>3 DEF AloneHolds
    <3> QED BY <3>4, <3>5
  <2> QED BY <2>1, <2>2
<1>3. TitleIsFirst' /\ AnswersFollow'
  BY <1>0 DEF TitleIsFirst, AnswersFollow, NamedAfterFirst, InTurns, Users
<1> QED BY <1>2, <1>3 DEF ChatRows, ChatInv, CopyHolds, AloneHolds, Active

\* A request that reads takes the row as it is, its name included.
LEMMA ReadKeeps ==
  ASSUME ChatTypeOK, ChatRows, NEW r \in Requests, ReadRow(r)
  PROVE  ChatRows'
<1>0. /\ request \in [Requests -> ChatRequest] /\ CopyHolds(r) /\ AloneHolds(r) /\ TitleIsFirst
  BY RowsByRequest DEF ChatTypeOK, ChatRequest, ChatPlaces
<1>a. r \in Active /\ UNCHANGED <<rows, usedIds, overlapped>>
  BY DEF ReadRow, Active
<1>1. CASE request[r].conv \in DOMAIN rows
  <2> DEFINE x == [at |-> IF request[r].at = "user" THEN "writeUser" ELSE "writeAssistant",
                   conv |-> request[r].conv, copy |-> rows[request[r].conv], stale |-> FALSE]
  <2>1. request' = [request EXCEPT ![r] = x]
    BY <1>1 DEF ReadRow
  <2>2. /\ x.conv = request[r].conv /\ x.copy = rows[request[r].conv] /\ x.stale = FALSE
        /\ x.at \in {"writeUser", "writeAssistant"}
        /\ x.at = "writeAssistant" => request[r].at = "assistant"
    BY DEF ReadRow
  <2> HIDE DEF x
  <2>3. request'[r] = x /\ \A q \in Requests \ {r} : request'[q] = request[q]
    BY <2>1, <1>0
  <2>4. CopyHolds(r)'
    BY <1>0, <1>1, <1>a, <2>2, <2>3 DEF CopyHolds, TitleIsFirst, NamedAfterFirst, Users
  <2>5. \A p \in Active' : p \in Active /\ request'[p].conv = request[p].conv
    BY <1>a, <2>2, <2>3 DEF Active
  <2>6. AloneHolds(r)'
    BY <1>0, <1>a, <2>2, <2>3, <2>5 DEF AloneHolds
  <2> QED BY <1>a, <2>1, <2>2, <2>4, <2>6, MoveKeeps
<1>2. CASE request[r].conv \notin DOMAIN rows
  <2>1. request' = [request EXCEPT ![r] = [request[r] EXCEPT !.at = "done"]]
    BY <1>2 DEF ReadRow, At
  <2>2. /\ request'[r].at = "done" /\ request'[r].copy = request[r].copy
        /\ [request[r] EXCEPT !.at = "done"].conv = request[r].conv
        /\ [request[r] EXCEPT !.at = "done"].at = "done"
    BY <1>0, <2>1 DEF ChatRequest
  <2>3. CopyHolds(r)' /\ AloneHolds(r)'
    BY <1>0, <2>2 DEF CopyHolds, AloneHolds, Active, Writing, NamedAfterFirst, Users
  <2> QED BY <1>a, <2>1, <2>2, <2>3, MoveKeeps
<1> QED BY <1>1, <1>2

\* So does one that has its answer, or that is given up.
LEMMA GoKeeps ==
  ASSUME ChatTypeOK, ChatRows, NEW r \in Requests, Generate(r) \/ Disconnect(r)
  PROVE  ChatRows'
<1>0. /\ request \in [Requests -> ChatRequest] /\ CopyHolds(r) /\ AloneHolds(r)
  BY RowsByRequest DEF ChatTypeOK, ChatRequest, ChatPlaces
<1>a. r \in Active /\ UNCHANGED <<rows, usedIds, overlapped>>
  BY DEF Generate, Disconnect, Active
<1>1. PICK l \in {"assistant", "done"} :
        /\ request' = [request EXCEPT ![r] = [request[r] EXCEPT !.at = l]]
        /\ l = "assistant" => request[r].at = "generate"
  BY DEF Generate, Disconnect, At
<1> DEFINE x == [request[r] EXCEPT !.at = l]
<1>2. x.at = l /\ x.copy = request[r].copy /\ x.conv = request[r].conv
  BY <1>0 DEF ChatRequest
<1> HIDE DEF x
<1>3. request'[r] = x /\ \A q \in Requests \ {r} : request'[q] = request[q]
  BY <1>0, <1>1 DEF x
<1>4. ~Writing(r)'
  BY <1>2, <1>3 DEF Writing
<1>5. \A p \in Active' : p \in Active /\ request'[p].conv = request[p].conv
  BY <1>a, <1>2, <1>3 DEF Active
<1>6. CopyHolds(r)'
  BY <1>0, <1>a, <1>2, <1>3, <1>4 DEF CopyHolds, NamedAfterFirst, Users
<1>7. AloneHolds(r)'
  <2>1. CASE l = "done"
    BY <2>1, <1>2, <1>3 DEF AloneHolds, Active
  <2>2. CASE l = "assistant"
    BY <2>2, <1>0, <1>1, <1>a, <1>2, <1>3, <1>4, <1>5 DEF AloneHolds
  <2> QED BY <2>1, <2>2
<1> QED BY <1>1, <1>2, <1>6, <1>7, <1>a, MoveKeeps DEF x

\* A request that writes leaves the copies of the others stale.
LEMMA WriteKeeps ==
  ASSUME ChatTypeOK, ChatRows, NEW r \in Requests, WriteRow(r)
  PROVE  ChatRows'
<1> DEFINE c == request[r].conv
           role == IF request[r].at = "writeUser" THEN "user" ELSE "assistant"
<1>0. /\ request \in [Requests -> ChatRequest] /\ rows \in [DOMAIN rows -> Row]
      /\ \A q \in Requests : CopyHolds(q) /\ AloneHolds(q)
      /\ TitleIsFirst /\ AnswersFollow
  BY RowsByRequest DEF ChatTypeOK, ChatRequest, ChatPlaces
<1>1. /\ rows' = IF c \in DOMAIN rows THEN [rows EXCEPT ![c] = Extended(r, role)] ELSE rows
      /\ request' = [q \in Requests |->
           IF q = r THEN [request[r] EXCEPT !.at = IF role = "user" THEN "generate" ELSE "done"]
           ELSE [request[q] EXCEPT !.stale = request[q].stale \/ (request[q].conv = c /\ Writing(q))]]
      /\ UNCHANGED <<usedIds, overlapped>> /\ r \in Active /\ Writing(r)
      /\ role \in {"user", "assistant"} /\ (role = "assistant" => request[r].at = "writeAssistant")
  BY DEF WriteRow, Active, Writing
<1> HIDE DEF role
<1>2. /\ request'[r].conv = c /\ request'[r].copy = request[r].copy
      /\ request'[r].at = (IF role = "user" THEN "generate" ELSE "done")
  BY <1>0, <1>1 DEF ChatRequest
<1>3. ASSUME NEW q \in Requests \ {r}
      PROVE  /\ request'[q].conv = request[q].conv /\ request'[q].copy = request[q].copy
             /\ request'[q].at = request[q].at /\ Writing(q)' = Writing(q)
             /\ request'[q].stale = (request[q].stale \/ (request[q].conv = c /\ Writing(q)))
  BY <1>0, <1>1 DEF ChatRequest, Writing
<1>4. /\ DOMAIN rows' = DOMAIN rows /\ (c \in DOMAIN rows => rows'[c] = Extended(r, role))
      /\ \A d \in DOMAIN rows : d # c => rows'[d] = rows[d]
  BY <1>0, <1>1
<1>5. \A p \in Active' : p \in Active /\ request'[p].conv = request[p].conv
  BY <1>1, <1>2, <1>3 DEF Active
<1>6. ~Writing(r)'
  BY <1>2 DEF Writing
<1> HIDE DEF c
<1>7. ASSUME NEW q \in Requests PROVE CopyHolds(q)'
  <2>1. CASE q = r
    BY <2>1, <1>0, <1>1, <1>2, <1>6 DEF CopyHolds, NamedAfterFirst, Users, c
  <2>2. CASE q # r
    <3>1. CopyHolds(q)
      BY <1>0
    <3>2. NamedAfterFirst(request'[q].copy)
      BY <3>1, <2>2, <1>3 DEF CopyHolds
    <3>3. q \in Active' => request'[q].conv \in usedIds'
      BY <3>1, <2>2, <1>1, <1>3, <1>5 DEF CopyHolds
    <3>4. Writing(q)' /\ ~request'[q].stale /\ request'[q].conv \in DOMAIN rows'
            => request'[q].copy = rows'[request'[q].conv]
      BY <3>1, <2>2, <1>3, <1>4 DEF CopyHolds
    <3> QED BY <3>2, <3>3, <3>4 DEF CopyHolds, NamedAfterFirst, Users
  <2> QED BY <2>1, <2>2
<1>8. ASSUME NEW q \in Requests PROVE AloneHolds(q)'
  <2> SUFFICES ASSUME q \in Active', request'[q].conv \notin overlapped'
               PROVE  AloneHolds(q)'
    BY DEF AloneHolds
  <2>1. /\ q \in Active /\ request'[q].conv = request[q].conv /\ request[q].conv \notin overlapped
        /\ AloneHolds(q)
    <3>1. q \in Active /\ request'[q].conv = request[q].conv
      BY <1>5
    <3>2. request[q].conv \notin overlapped
      BY <3>1, <1>1
    <3> QED BY <3>1, <3>2, <1>0
  <2>2. \A p \in Active' : request'[p].conv = request'[q].conv => p = q
    BY <2>1, <1>5 DEF AloneHolds
  <2>3. CASE q = r
    <3>1. role = "user" /\ request'[q].at = "generate"
      BY <2>3, <1>1, <1>2 DEF Active
    <3>2. c \in DOMAIN rows' =>
            LET list == rows'[c].messages IN list # <<>> /\ list[Len(list)] = Said("user", r)
      <4> SUFFICES ASSUME c \in DOMAIN rows'
                   PROVE  LET list == rows'[c].messages
                          IN list # <<>> /\ list[Len(list)] = Said("user", r)
        OBVIOUS
      <4>1. rows'[c] = Extended(r, "user")
        BY <3>1, <1>4
      <4>2. LET m == request[r].copy.messages
                e == Extended(r, "user")
            IN m \in Seq(Message) /\ Len(e.messages) = Len(m) + 1 /\ e.messages[Len(m) + 1] = Said("user", r)
        BY ExtendedRow
      <4> QED BY <4>1, <4>2
    <3> QED BY <2>2, <2>3, <3>2, <1>2, <1>6 DEF AloneHolds, Said
  <2>4. CASE q # r
    <3>1. request[q].conv # c
      BY <2>1, <2>4, <1>1 DEF AloneHolds, c
    <3>2. Writing(q)' => ~request'[q].stale
      BY <3>1, <2>1, <2>4, <1>3 DEF AloneHolds
    <3>3. request'[q].conv \in DOMAIN rows' =>
            request[q].conv \in DOMAIN rows /\ rows'[request'[q].conv] = rows[request[q].conv]
      BY <3>1, <2>1, <1>4
    <3>4. request'[q].at \in {"generate", "assistant", "writeAssistant"} /\ request'[q].conv \in DOMAIN rows' =>
            LET list == rows'[request'[q].conv].messages IN list # <<>> /\ list[Len(list)] = Said("user", q)
      BY <3>3, <2>1, <2>4, <1>3 DEF AloneHolds
    <3> QED BY <2>2, <3>2, <3>4 DEF AloneHolds, Said
  <2> QED BY <2>3, <2>4
<1>9. TitleIsFirst'
  <2>1. c \in DOMAIN rows => NamedAfterFirst(rows'[c])
    BY <1>0, <1>1, <1>4, ExtendedName DEF CopyHolds
  <2>2. ASSUME NEW d \in DOMAIN rows' PROVE NamedAfterFirst(rows'[d])
    BY <2>1, <1>0, <1>4 DEF TitleIsFirst
  <2> QED BY <2>2 DEF TitleIsFirst, NamedAfterFirst, Users
<1>10. AnswersFollow'
  <2>1. ASSUME c \in DOMAIN rows, c \notin overlapped PROVE InTurns(rows'[c])
    <3>1. request[r].copy = rows[c]
      BY <2>1, <1>0, <1>1 DEF CopyHolds, AloneHolds, c
    <3>2. InTurns(request[r].copy)
      BY <2>1, <3>1, <1>0 DEF AnswersFollow
    <3>3. role = "assistant" => LET m == request[r].copy.messages
                                IN m # <<>> /\ m[Len(m)] = Said("user", r)
      BY <2>1, <3>1, <1>0, <1>1 DEF AloneHolds, c
    <3>4. InTurns(Extended(r, role))
      BY <3>2, <3>3, <1>1, TurnsExtended
    <3> QED BY <2>1, <3>4, <1>4
  <2>2. ASSUME NEW d \in DOMAIN rows' \ overlapped' PROVE InTurns(rows'[d])
    BY <2>1, <1>0, <1>1, <1>4 DEF AnswersFollow
  <2> QED BY <2>2 DEF AnswersFollow, InTurns
<1> QED BY <1>7, <1>8, <1>9, <1>10 DEF ChatRows, ChatInv, CopyHolds, AloneHolds, Active

\* A conversation that is deleted is one that no copy can be written to.
LEMMA DeleteKeeps ==
  ASSUME ChatTypeOK, ChatRows, NEW c \in Conversations, Delete(c)
  PROVE  ChatRows'
<1>1. /\ DOMAIN rows' = DOMAIN rows \ {c} /\ UNCHANGED <<request, usedIds, overlapped>>
      /\ \A d \in DOMAIN rows' : rows'[d] = rows[d]
  BY DEF Delete
<1>2. ASSUME NEW q \in Requests PROVE CopyHolds(q)' /\ AloneHolds(q)'
  <2>1. CopyHolds(q) /\ AloneHolds(q)
    BY RowsByRequest
  <2>2. CopyHolds(q)'
    BY <1>1, <2>1 DEF CopyHolds, Writing, Active, NamedAfterFirst, Users
  <2>3. AloneHolds(q)'
    BY <1>1, <2>1 DEF AloneHolds, Writing, Active, Said
  <2> QED BY <2>2, <2>3
<1>3. TitleIsFirst'
  <2>1. \A d \in DOMAIN rows' : NamedAfterFirst(rows'[d])
    BY <1>1, RowsByRequest DEF TitleIsFirst
  <2> QED BY <2>1 DEF TitleIsFirst, NamedAfterFirst, Users
<1>4. AnswersFollow'
  <2>1. \A d \in DOMAIN rows' \ overlapped' : InTurns(rows'[d])
    BY <1>1, RowsByRequest DEF AnswersFollow
  <2> QED BY <2>1 DEF AnswersFollow, InTurns
<1> QED BY <1>2, <1>3, <1>4 DEF ChatRows, ChatInv, CopyHolds, AloneHolds, Active

\* Every step of the conversations keeps what is known of rows and copies.
LEMMA ChatStepHolds == ChatTypeOK /\ ChatRows /\ [ChatNext]_chatVars => ChatRows'
<1> SUFFICES ASSUME ChatTypeOK, ChatRows, [ChatNext]_chatVars PROVE ChatRows'
  OBVIOUS
<1>1. CASE UNCHANGED chatVars
  BY <1>1, SMTT(30) DEF chatVars, ChatRows, ChatInv, TitleIsFirst, AnswersFollow, NamedAfterFirst, InTurns, Users,
     Writing, Active, Said
<1> QED BY <1>1, OpenKeeps, ReadKeeps, WriteKeeps, GoKeeps, DeleteKeeps DEF ChatNext, ChatStep

\* The types of the conversations and of the requests are what ChatTypeOK says, for any
\* number of requests and of conversations (ConversationsDB, db.py).
THEOREM ChatTypes == ChatSpec => []ChatTypeOK
<1>1. ChatInit => ChatTypeOK
  <2> SUFFICES ASSUME ChatInit PROVE ChatTypeOK
    OBVIOUS
  <2>1. EmptyRow \in Row
    <3>1. <<>> \in Seq(Message)
      OBVIOUS
    <3> QED BY <3>1 DEF EmptyRow, Row
  <2> QED BY <2>1 DEF ChatInit, ChatTypeOK, Waiting
<1> QED BY <1>1, ChatTypeStep, PTL DEF ChatSpec

\* The messages of a conversation change by one more at the end, except where a request
\* writes back a copy from before another's write.
LEMMA ChatAppends ==
  ASSUME ChatTypeOK, ChatRows, ChatNext, NEW c \in DOMAIN rows \cap DOMAIN rows', rows'[c] # rows[c]
  PROVE  \/ \E m \in Message : rows'[c].messages = Append(rows[c].messages, m)
         \/ c \in overlapped /\ \E r \in Requests : WriteRow(r) /\ request[r].conv = c /\ request[r].stale
<1>0. rows \in [DOMAIN rows -> Row] /\ DOMAIN rows \subseteq usedIds
  BY DEF ChatTypeOK
<1>1. PICK r \in Requests : WriteRow(r)
  <2>1. ASSUME NEW r \in Requests, Open(r) PROVE FALSE
    BY <2>1, <1>0 DEF Open
  <2>2. ASSUME NEW r \in Requests, ReadRow(r) \/ Generate(r) \/ Disconnect(r) PROVE FALSE
    BY <2>2 DEF ReadRow, Generate, Disconnect
  <2>3. ASSUME NEW d \in Conversations, Delete(d) PROVE FALSE
    BY <2>3 DEF Delete
  <2> QED BY <2>1, <2>2, <2>3 DEF ChatNext, ChatStep
<1>2. PICK role \in {"user", "assistant"} :
        rows' = IF request[r].conv \in DOMAIN rows
                THEN [rows EXCEPT ![request[r].conv] = Extended(r, role)] ELSE rows
  BY <1>1 DEF WriteRow
<1>3. request[r].conv = c /\ rows'[c] = Extended(r, role)
  BY <1>0, <1>2
<1>4. CASE request[r].stale
  <2>1. r \in Active /\ Writing(r)
    BY <1>1 DEF WriteRow, Writing, Active
  <2>2. c \in overlapped
    BY <1>3, <1>4, <2>1, RowsByRequest DEF AloneHolds
  <2> QED BY <1>1, <1>3, <1>4, <2>2
<1>5. CASE ~request[r].stale
  <2>1. request[r].copy = rows[c]
    BY <1>1, <1>3, <1>5, RowsByRequest DEF CopyHolds, WriteRow
  <2>2. Extended(r, role).messages = Append(rows[c].messages, Said(role, r))
    BY <2>1 DEF Extended
  <2>3. Said(role, r) \in Message
    BY DEF Said, Message
  <2> QED BY <1>3, <2>2, <2>3
<1> QED BY <1>4, <1>5

\* A conversation that one request at a time works on keeps its messages, their order, and
\* an answer after each question; any conversation keeps its name, and stays deleted.  The
\* message that a stale copy overwrites, where two requests meet, is not kept, and not
\* claimed (add_message reads the row and writes it back, db.py 75-97).
THEOREM ChatIsSafe == ChatSpec => ChatSafe
<1>1. ChatInit => ChatRows
  <2> SUFFICES ASSUME ChatInit PROVE ChatRows
    OBVIOUS
  <2>1. Users(EmptyRow) = {} /\ NamedAfterFirst(EmptyRow)
    BY DEF Users, NamedAfterFirst, EmptyRow
  <2>2. DOMAIN rows = {} /\ Active = {} /\ \A r \in Requests : request[r] = Waiting
    BY DEF ChatInit, Active, Waiting
  <2>3. \A r \in Requests : CopyHolds(r) /\ AloneHolds(r)
    BY <2>1, <2>2 DEF CopyHolds, AloneHolds, Waiting, Writing
  <2>4. TitleIsFirst /\ AnswersFollow
    BY <2>2 DEF TitleIsFirst, AnswersFollow
  <2> QED BY <2>3, <2>4, RowsByRequest
<1>2. ChatTypeOK /\ ChatRows /\ [ChatNext]_chatVars
        => [\A c \in DOMAIN rows \cap DOMAIN rows' :
              \/ rows'[c] = rows[c]
              \/ \E m \in Message : rows'[c].messages = Append(rows[c].messages, m)
              \/ /\ c \in overlapped
                 /\ \E r \in Requests : WriteRow(r) /\ request[r].conv = c /\ request[r].stale]_chatVars
  BY ChatAppends
<1>3. ChatTypeOK /\ [ChatNext]_chatVars
        => [\A c \in usedIds : c \notin DOMAIN rows => c \notin DOMAIN rows']_chatVars
  <2> SUFFICES ASSUME ChatTypeOK, ChatNext, NEW c \in usedIds, c \notin DOMAIN rows
               PROVE  c \notin DOMAIN rows'
    OBVIOUS
  <2>1. CASE \E r \in Requests : Open(r)
    BY <2>1 DEF Open
  <2>2. CASE \E r \in Requests : ChatStep(r) \/ Disconnect(r)
    BY <2>2 DEF ChatStep, ReadRow, WriteRow, Generate, Disconnect, ChatTypeOK
  <2>3. CASE \E d \in Conversations : Delete(d)
    BY <2>3 DEF Delete
  <2> QED BY <2>1, <2>2, <2>3 DEF ChatNext
<1>4. ChatSpec => []ChatTypeOK
  BY ChatTypes
<1>5. ChatRows => ChatInv /\ TitleIsFirst /\ AnswersFollow
  BY DEF ChatRows
<1> QED BY <1>1, <1>2, <1>3, <1>4, <1>5, ChatStepHolds, PTL
     DEF ChatSpec, ChatSafe, OnlyAppends, DeletedStays

-----------------------------------------------------------------------------
\* MemoryStore: one row for a key, and a use that decay does not overtake.

\* The rows a step of the store may write.
MemRows == [id : 1..(nextRow - 1), key : MemKeys, accessed : 0..memDay]

\* A touched row is the same row, used today.
LEMMA TouchedRow ==
  ASSUME MemTypeOK, NEW m \in memories
  PROVE  /\ Touched(m) \in MemRows /\ Touched(m).id = m.id /\ Touched(m).key = m.key
         /\ Touched(m).accessed = memDay /\ m.accessed <= memDay
<1>1. m \in MemRows /\ memDay \in Nat
  BY MemoryAssumption DEF MemTypeOK, MemRows
<1> QED BY <1>1 DEF Touched, MemRows

\* Every step of the store keeps the types.
LEMMA MemTypeStep == MemTypeOK /\ [MemNext]_memVars => MemTypeOK'
<1> SUFFICES ASSUME MemTypeOK, [MemNext]_memVars PROVE MemTypeOK'
  OBVIOUS
<1> USE MemoryAssumption DEF MemTypeOK
<1>1. ASSUME NEW k \in MemKeys, Remember(k) PROVE MemTypeOK'
  <2>1. lastUsed' \in [MemKeys -> -1..MemDays] /\ memDay' = memDay /\ recalling' = recalling
    BY <1>1 DEF Remember
  <2>2. CASE memories' = {IF m.key = k THEN Touched(m) ELSE m : m \in memories} /\ UNCHANGED nextRow
    <3>1. memories' \subseteq MemRows
      BY <2>2, TouchedRow DEF MemRows
    <3> QED BY <2>1, <2>2, <3>1 DEF MemRows
  <2>3. CASE nextRow <= MaxMemories /\ memories' = memories \cup {NewRow(k)} /\ nextRow' = nextRow + 1
    <3>1. nextRow' \in 1..(MaxMemories + 1) /\ 0..(nextRow - 1) \subseteq 0..(nextRow' - 1)
      BY <2>3
    <3>2. NewRow(k) \in [id : 1..(nextRow' - 1), key : MemKeys, accessed : 0..memDay]
      BY <2>3 DEF NewRow
    <3>3. memories \subseteq [id : 1..(nextRow' - 1), key : MemKeys, accessed : 0..memDay]
      BY <2>3
    <3>4. recalling \in [MemProcs -> [id : 0..(nextRow' - 1), key : MemKeys]]
      BY <3>1
    <3> QED BY <2>1, <2>3, <3>1, <3>2, <3>3, <3>4
  <2> QED BY <1>1, <2>2, <2>3 DEF Remember
<1>2. ASSUME NEW k \in MemKeys, ForgetKey(k) PROVE MemTypeOK'
  BY <1>2 DEF ForgetKey
<1>3. ASSUME NEW k \in MemKeys, NEW p \in MemProcs, RecallSelect(p, k) PROVE MemTypeOK'
  BY <1>3 DEF RecallSelect
<1>4. ASSUME NEW p \in MemProcs, RecallUpdate(p) PROVE MemTypeOK'
  <2>1. memories' \subseteq MemRows
    BY <1>4, TouchedRow DEF RecallUpdate, MemRows
  <2>2. lastUsed' \in [MemKeys -> -1..MemDays]
    BY <1>4 DEF RecallUpdate
  <2>3. recalling' \in [MemProcs -> [id : 0..(nextRow - 1), key : MemKeys]]
    BY <1>4 DEF RecallUpdate
  <2> QED BY <1>4, <2>1, <2>2, <2>3 DEF RecallUpdate, MemRows
<1>5. CASE Decay
  BY <1>5 DEF Decay
<1>6. CASE MemDay
  <2>1. memDay' \in 0..MemDays /\ 0..memDay \subseteq 0..memDay'
    BY <1>6 DEF MemDay
  <2> QED BY <1>6, <2>1 DEF MemDay
<1>7. CASE UNCHANGED memVars
  BY <1>7 DEF memVars
<1> QED BY <1>1, <1>2, <1>3, <1>4, <1>5, <1>6, <1>7 DEF MemNext

\* The memories keep their types.
THEOREM MemTypes == MemSpec => []MemTypeOK
<1>1. MemInit => MemTypeOK
  BY MemoryAssumption DEF MemInit, MemTypeOK
<1> QED BY <1>1, MemTypeStep, PTL DEF MemSpec

\* Rows touched in place keep their ids and their keys, and age no further.
LEMMA TouchedRows ==
  ASSUME MemTypeOK, OneRowPerKey, NEW S \in SUBSET memories,
         memories' = {IF m \in S THEN Touched(m) ELSE m : m \in memories}
  PROVE  /\ OneRowPerKey'
         /\ \A n \in memories' : \E m \in memories : n.id = m.id /\ n.key = m.key
         /\ \A m \in memories : \E n \in memories' :
              n.key = m.key /\ n.accessed \in Int /\ n.accessed >= m.accessed
              /\ (m \in S => n.accessed = memDay)
<1>1. ASSUME NEW n \in memories' PROVE \E m \in memories : n = IF m \in S THEN Touched(m) ELSE m
  OBVIOUS
<1>2. ASSUME NEW m \in memories
      PROVE  LET n == IF m \in S THEN Touched(m) ELSE m
             IN  /\ n \in memories' /\ n.id = m.id /\ n.key = m.key
                 /\ n.accessed \in Int /\ n.accessed >= m.accessed /\ (m \in S => n.accessed = memDay)
  <2>1. m.accessed \in Nat /\ memDay \in Nat
    BY DEF MemTypeOK
  <2> QED BY <2>1, TouchedRow
<1>3. \A n \in memories' : \E m \in memories : n.id = m.id /\ n.key = m.key
  BY <1>1, <1>2
<1>4. ASSUME NEW a \in memories', NEW b \in memories', a.key = b.key \/ a.id = b.id PROVE a = b
  <2>1. PICK m \in memories : a = IF m \in S THEN Touched(m) ELSE m
    BY <1>1
  <2>2. PICK n \in memories : b = IF n \in S THEN Touched(n) ELSE n
    BY <1>1
  <2>3. m = n
    BY <1>2, <1>4, <2>1, <2>2 DEF OneRowPerKey
  <2> QED BY <2>1, <2>2, <2>3
<1> QED BY <1>2, <1>3, <1>4 DEF OneRowPerKey

\* The rows of the next state, for each thing the store may do.
LEMMA MemSafeStep == MemTypeOK /\ MemorySafe /\ [MemNext]_memVars => MemorySafe'
<1> SUFFICES ASSUME MemTypeOK, OneRowPerKey, UsedIsKept, RecallsOwnRow, [MemNext]_memVars
             PROVE  OneRowPerKey' /\ UsedIsKept' /\ RecallsOwnRow'
  BY DEF MemorySafe
<1> USE MemoryAssumption
<1>t. memDay \in Nat /\ nextRow \in Nat /\ \A k \in MemKeys : lastUsed[k] \in Int
  BY DEF MemTypeOK
<1>r. \A m \in memories : m.id \in 1..(nextRow - 1) /\ m.key \in MemKeys /\ m.accessed \in Int
  BY DEF MemTypeOK
<1>s. \A p \in MemProcs : recalling[p].id \in 0..(nextRow - 1) /\ recalling[p].key \in MemKeys
  BY DEF MemTypeOK
<1>1. ASSUME NEW k \in MemKeys, Remember(k) PROVE OneRowPerKey' /\ UsedIsKept' /\ RecallsOwnRow'
  <2>1. lastUsed' = [lastUsed EXCEPT ![k] = memDay] /\ memDay' = memDay /\ recalling' = recalling
    BY <1>1 DEF Remember
  <2>2. lastUsed'[k] = memDay /\ \A j \in MemKeys \ {k} : lastUsed'[j] = lastUsed[j]
    BY <2>1 DEF MemTypeOK
  <2>3. CASE /\ \E m \in memories : m.key = k
             /\ memories' = {IF m.key = k THEN Touched(m) ELSE m : m \in memories}
    <3> DEFINE S == {m \in memories : m.key = k}
    <3>1. memories' = {IF m \in S THEN Touched(m) ELSE m : m \in memories}
      BY <2>3
    <3>2. /\ OneRowPerKey'
          /\ \A n \in memories' : \E m \in memories : n.id = m.id /\ n.key = m.key
          /\ \A m \in memories : \E n \in memories' :
               n.key = m.key /\ n.accessed \in Int /\ n.accessed >= m.accessed
              /\ (m \in S => n.accessed = memDay)
      <4>1. S \in SUBSET memories
        OBVIOUS
      <4> HIDE DEF S
      <4> QED BY <3>1, <4>1, TouchedRows
    <3>3. UsedIsKept'
      BY <1>t, <1>r, <2>1, <2>2, <2>3, <3>2, SMTT(30) DEF UsedIsKept
    <3>4. RecallsOwnRow'
      BY <2>1, <3>2 DEF RecallsOwnRow
    <3> QED BY <3>2, <3>3, <3>4
  <2>4. CASE (\A m \in memories : m.key # k) /\ memories' = memories \cup {NewRow(k)}
    <3>1. NewRow(k).id = nextRow /\ NewRow(k).key = k /\ NewRow(k).accessed = memDay
      BY DEF NewRow
    <3>2. \A m \in memories : m.id # nextRow
      BY <1>r, <1>t
    <3>3. \A p \in MemProcs : recalling[p].id # nextRow
      BY <1>s, <1>t
    <3>4. OneRowPerKey'
      BY <2>4, <3>1, <3>2 DEF OneRowPerKey
    <3>5. UsedIsKept'
      BY <1>t, <2>1, <2>2, <2>4, <3>1 DEF UsedIsKept
    <3>6. RecallsOwnRow'
      BY <2>1, <2>4, <3>1, <3>3 DEF RecallsOwnRow
    <3> QED BY <3>4, <3>5, <3>6
  <2> QED BY <1>1, <2>3, <2>4 DEF Remember
<1>2. ASSUME NEW k \in MemKeys, ForgetKey(k) PROVE OneRowPerKey' /\ UsedIsKept' /\ RecallsOwnRow'
  <2>1. lastUsed'[k] = -1 /\ \A j \in MemKeys \ {k} : lastUsed'[j] = lastUsed[j]
    BY <1>2 DEF ForgetKey, MemTypeOK
  <2> QED BY <1>2, <2>1 DEF ForgetKey, OneRowPerKey, UsedIsKept, RecallsOwnRow
<1>3. ASSUME NEW k \in MemKeys, NEW p \in MemProcs, RecallSelect(p, k)
      PROVE  OneRowPerKey' /\ UsedIsKept' /\ RecallsOwnRow'
  <2>1. PICK m \in memories : m.key = k /\ recalling' = [recalling EXCEPT ![p] = [id |-> m.id, key |-> k]]
    BY <1>3 DEF RecallSelect
  <2>2. recalling'[p].id = m.id /\ recalling'[p].key = k
        /\ \A q \in MemProcs \ {p} : recalling'[q] = recalling[q]
    BY <2>1 DEF MemTypeOK
  <2>3. RecallsOwnRow'
    BY <1>3, <2>1, <2>2 DEF RecallSelect, RecallsOwnRow, OneRowPerKey
  <2> QED BY <1>3, <2>3 DEF RecallSelect, OneRowPerKey, UsedIsKept
<1>4. ASSUME NEW p \in MemProcs, RecallUpdate(p) PROVE OneRowPerKey' /\ UsedIsKept' /\ RecallsOwnRow'
  <2> DEFINE S == {m \in memories : m.id = recalling[p].id}
  <2>1. memories' = {IF m \in S THEN Touched(m) ELSE m : m \in memories}
    BY <1>4 DEF RecallUpdate
  <2>2. /\ OneRowPerKey'
        /\ \A n \in memories' : \E m \in memories : n.id = m.id /\ n.key = m.key
        /\ \A m \in memories : \E n \in memories' :
             n.key = m.key /\ n.accessed \in Int /\ n.accessed >= m.accessed
              /\ (m \in S => n.accessed = memDay)
    <3> HIDE DEF S
    <3>1. S \in SUBSET memories
      BY DEF S
    <3> QED BY <2>1, <3>1, TouchedRows
  <2>3. recalling'[p].id = 0 /\ \A q \in MemProcs \ {p} : recalling'[q] = recalling[q]
    BY <1>4 DEF RecallUpdate, MemTypeOK
  <2>4. RecallsOwnRow'
    BY <1>r, <2>2, <2>3 DEF RecallsOwnRow
  <2>5. ASSUME NEW k \in MemKeys, lastUsed'[k] # -1, memDay - lastUsed'[k] <= KeepDays
        PROVE  \E m \in memories' : m.key = k /\ m.accessed >= lastUsed'[k]
    <3>1. CASE lastUsed'[k] = lastUsed[k]
      BY <1>t, <1>r, <2>2, <2>5, <3>1 DEF UsedIsKept
    <3>2. CASE lastUsed'[k] # lastUsed[k]
      <4>1. /\ \E m \in memories : m.id = recalling[p].id
            /\ k = recalling[p].key /\ lastUsed'[k] = memDay
        BY <1>4, <3>2 DEF RecallUpdate, MemTypeOK
      <4>2. PICK m \in memories : m.id = recalling[p].id
        BY <4>1
      <4>3. m \in S /\ m.key = k
        BY <4>1, <4>2 DEF RecallsOwnRow
      <4> QED BY <1>t, <2>2, <4>1, <4>3
    <3> QED BY <3>1, <3>2
  <2>6. memDay' = memDay
    BY <1>4 DEF RecallUpdate
  <2> QED BY <2>2, <2>4, <2>5, <2>6 DEF UsedIsKept
<1>5. CASE Decay
  <2>1. UsedIsKept'
    BY <1>t, <1>r, <1>5 DEF Decay, UsedIsKept
  <2> QED BY <1>5, <2>1 DEF Decay, OneRowPerKey, RecallsOwnRow
<1>6. CASE MemDay
  BY <1>t, <1>6 DEF MemDay, OneRowPerKey, UsedIsKept, RecallsOwnRow
<1>7. CASE UNCHANGED memVars
  BY <1>7 DEF memVars, OneRowPerKey, UsedIsKept, RecallsOwnRow
<1> QED BY <1>1, <1>2, <1>3, <1>4, <1>5, <1>6, <1>7 DEF MemNext

\* A key has one row, a row that was used less than KeepDays ago is there, and
\* a recall touches the row it looked up, for any processes, keys and days.
THEOREM MemoryIsSafe == MemSpec => []MemorySafe
<1>1. MemInit => MemorySafe
  BY DEF MemInit, MemorySafe, OneRowPerKey, UsedIsKept, RecallsOwnRow
<1> QED BY <1>1, MemTypes, MemSafeStep, PTL DEF MemSpec

-----------------------------------------------------------------------------
\* SkillHub: what hosts push to one another through the remote.

\* Files of a clone that are put in place of others.
LEMMA HubFiles ==
  ASSUME HubTypeOK, NEW h \in Hosts
  PROVE  /\ hub[h] \in Repos /\ CleanRepo(hub[h]) \in Repos /\ FastForward(hub[h]) \in Repos
         /\ \A s \in Skills, edit \in 0..skillEdits :
              /\ [hub[h] EXCEPT !.tree = [hub[h].tree EXCEPT ![s] = edit]] \in Repos
              /\ [hub[h] EXCEPT !.tree = [hub[h].tree EXCEPT ![s] = edit],
                                !.index = [hub[h].index EXCEPT ![s] = edit]] \in Repos
<1>1. hub[h] \in Repos /\ remote \in Repos
  BY DEF HubTypeOK
<1>2. ASSUME NEW files \in Trees, NEW from \in Trees PROVE Merged(files, from) \in Trees
  BY <1>1, <1>2 DEF Merged, Trees, Repos
<1>3. CleanRepo(hub[h]) \in Repos /\ FastForward(hub[h]) \in Repos
  BY <1>1, <1>2 DEF CleanRepo, FastForward, Repos
<1>4. ASSUME NEW s \in Skills, NEW edit \in 0..skillEdits
      PROVE  /\ [hub[h] EXCEPT !.tree = [hub[h].tree EXCEPT ![s] = edit]] \in Repos
             /\ [hub[h] EXCEPT !.tree = [hub[h].tree EXCEPT ![s] = edit],
                               !.index = [hub[h].index EXCEPT ![s] = edit]] \in Repos
  <2>1. \A files \in Trees : [files EXCEPT ![s] = edit] \in Trees
    BY DEF Trees
  <2> QED BY <1>1, <2>1 DEF Repos
<1> QED BY <1>1, <1>3, <1>4

\* What a call goes on to, and returns, is a call.
LEMMA HubMoves ==
  ASSUME HubTypeOK, NEW h \in Hosts, NEW s \in Skills, NEW at \in HubPlaces, NEW failed \in BOOLEAN,
         NEW result \in HubResults, HubGoes(h, at, s, failed) \/ HubReturns(h, result)
  PROVE  sync' \in [Hosts -> HubCalls]
<1>1. AnySkill \in Skills
  BY HubAssumption DEF AnySkill
<1>2. /\ SyncCall(at, s, failed, "other") \in HubCalls
      /\ SyncCall("idle", AnySkill, FALSE, result) \in HubCalls
  BY <1>1 DEF SyncCall, HubCalls, HubPlaces, HubResults
<1> QED BY <1>2 DEF HubGoes, HubReturns, HubTypeOK

\* Every step of the hosts keeps the types.
LEMMA HubTypeStep == HubTypeOK /\ [HubNext]_hubVars => HubTypeOK'
<1> SUFFICES ASSUME HubTypeOK, [HubNext]_hubVars PROVE HubTypeOK'
  OBVIOUS
<1>a. /\ skillEdits \in 0..MaxSkillEdits /\ hubCommits \in 0..MaxHubCommits
      /\ MaxSkillEdits \in Nat /\ MaxHubCommits \in Nat
      /\ skills \in [Hosts -> Trees] /\ hub \in [Hosts -> Repos]
      /\ remote \in Repos /\ origin \subseteq Hosts /\ sync \in [Hosts -> HubCalls]
  BY HubAssumption DEF HubTypeOK
<1>b. \A h \in Hosts : sync[h].skill \in Skills /\ sync[h].failed \in BOOLEAN
  BY <1>a DEF HubCalls
<1>c. \A h \in Hosts, s \in Skills, at \in HubPlaces, failed \in BOOLEAN, result \in HubResults :
        HubGoes(h, at, s, failed) \/ HubReturns(h, result) => sync' \in [Hosts -> HubCalls]
  BY HubMoves
<1>k. ASSUME hub' \in [Hosts -> Repos], remote' \in Repos, sync' \in [Hosts -> HubCalls],
             skills' \in [Hosts -> Trees], UNCHANGED <<origin, skillEdits, hubCommits>>
      PROVE  HubTypeOK'
  BY <1>a, <1>k DEF HubTypeOK, Repos, Trees
<1>1. ASSUME NEW h \in Hosts, NEW s \in Skills, EditSkill(h, s) PROVE HubTypeOK'
  <2>1. skillEdits' = skillEdits + 1 /\ skillEdits' \in 0..MaxSkillEdits
    BY <1>1, <1>a DEF EditSkill
  <2>2. 0..skillEdits \subseteq 0..skillEdits'
    BY <1>a, <2>1
  <2>3. \A t \in Trees : t \in Trees'
    BY <2>2 DEF Trees
  <2>4. [skills[h] EXCEPT ![s] = skillEdits + 1] \in Trees'
    BY <1>a, <2>1, <2>3 DEF Trees
  <2>5. skills' \in [Hosts -> Trees']
    BY <1>1, <1>a, <2>3, <2>4 DEF EditSkill
  <2>6. hubCommits' = hubCommits
    BY <1>1 DEF EditSkill
  <2>7. \A r \in Repos : r \in Repos'
    BY <2>3, <2>6 DEF Repos
  <2> QED BY <1>1, <1>a, <2>1, <2>5, <2>7 DEF EditSkill, HubTypeOK
<1>2. ASSUME NEW h \in Hosts, NEW s \in Skills, PushCopy(h, s) \/ PushCopyDies(h, s) PROVE HubTypeOK'
  <2>1. skills[h][s] \in 0..skillEdits /\ 0 \in 0..skillEdits
    BY <1>a DEF Trees
  <2>2. hub' \in [Hosts -> Repos]
    <3>1. PICK new \in Repos : hub' = [hub EXCEPT ![h] = new]
      <4>1. CASE PushCopy(h, s)
        <5> DEFINE copied == [hub[h] EXCEPT !.tree = [hub[h].tree EXCEPT ![s] = skills[h][s]]]
                   added == [copied EXCEPT !.index = [hub[h].index EXCEPT ![s] = skills[h][s]]]
        <5>1. hub[h] \in Repos /\ copied \in Repos
          BY <2>1, HubFiles
        <5>2. [hub[h].index EXCEPT ![s] = skills[h][s]] \in Trees
          BY <5>1, <2>1 DEF Repos, Trees
        <5>3. added \in Repos
          BY <5>1, <5>2 DEF Repos
        <5>4. hub' = [hub EXCEPT ![h] = added] \/ hub' = [hub EXCEPT ![h] = copied]
          BY <4>1 DEF PushCopy
        <5> QED BY <5>1, <5>3, <5>4
      <4>2. CASE PushCopyDies(h, s)
        BY <4>2, <2>1, HubFiles DEF PushCopyDies
      <4> QED BY <1>2, <4>1, <4>2
    <3> QED BY <3>1, <1>a
  <2>3. sync' \in [Hosts -> HubCalls]
    BY <1>2, <1>c DEF PushCopy, PushCopyDies, HubPlaces, HubResults
  <2> QED BY <1>2, <1>a, <1>k, <2>2, <2>3 DEF PushCopy, PushCopyDies
<1>3. ASSUME NEW h \in Hosts, PushCommit(h) PROVE HubTypeOK'
  <2>1. sync' \in [Hosts -> HubCalls]
    BY <1>3, <1>b, <1>c DEF PushCommit, HubPlaces, HubResults
  <2>2. CASE UNCHANGED <<hub, hubCommits>>
    BY <1>3, <1>a, <1>k, <2>1, <2>2 DEF PushCommit
  <2>3. CASE /\ hubCommits < MaxHubCommits /\ hubCommits' = hubCommits + 1
             /\ hub' = [hub EXCEPT ![h] = [hub[h] EXCEPT !.log = hub[h].log \cup {hubCommits + 1},
                                                         !.head = hub[h].index]]
    <3>1. hubCommits' \in 0..MaxHubCommits /\ 1..hubCommits \subseteq 1..hubCommits' /\ hubCommits + 1 \in 1..hubCommits'
      BY <2>3, <1>a
    <3>2. UNCHANGED <<skills, remote, origin, skillEdits>>
      BY <1>3 DEF PushCommit
    <3>3. Trees' = Trees
      BY <3>2 DEF Trees
    <3>4. \A r \in Repos : r \in Repos'
      BY <3>1, <3>3 DEF Repos
    <3>5. [hub[h] EXCEPT !.log = hub[h].log \cup {hubCommits + 1}, !.head = hub[h].index] \in Repos'
      <4>1. hub[h] \in Repos
        BY <1>a
      <4> QED BY <4>1, <3>1, <3>3 DEF Repos
    <3>6. hub' \in [Hosts -> Repos']
      BY <1>a, <2>3, <3>4, <3>5
    <3> QED BY <1>a, <2>1, <3>1, <3>2, <3>3, <3>4, <3>6 DEF HubTypeOK
  <2> QED BY <1>3, <2>2, <2>3 DEF PushCommit
<1>4. ASSUME NEW h \in Hosts, PushRemote(h) PROVE HubTypeOK'
  <2>1. sync' \in [Hosts -> HubCalls] /\ remote' \in Repos
    BY <1>4, <1>a, <1>b, <1>c, HubFiles DEF PushRemote, HubPlaces, HubResults
  <2> QED BY <1>4, <1>a, <1>k, <2>1 DEF PushRemote
<1>5. ASSUME NEW h \in Hosts, NEW s \in Skills, PullRemote(h, s) PROVE HubTypeOK'
  <2>1. sync' \in [Hosts -> HubCalls]
    BY <1>5, <1>c DEF PullRemote, HubPlaces, HubResults
  <2>2. hub' \in [Hosts -> Repos]
    BY <1>5, <1>a, HubFiles DEF PullRemote
  <2> QED BY <1>5, <1>a, <1>k, <2>1, <2>2 DEF PullRemote
<1>6. ASSUME NEW h \in Hosts, PullCopy(h) \/ SyncDies(h) PROVE HubTypeOK'
  <2>1. sync' \in [Hosts -> HubCalls]
    BY <1>6, <1>b, <1>c DEF PullCopy, SyncDies, HubPlaces, HubResults
  <2>2. hub[h].tree[sync[h].skill] \in 0..skillEdits /\ 0 \in 0..skillEdits /\ skills[h] \in Trees
    BY <1>a, <1>b DEF Repos, Trees
  <2>3. \A edit \in 0..skillEdits : [skills[h] EXCEPT ![sync[h].skill] = edit] \in Trees
    BY <2>2 DEF Trees
  <2>4. skills' \in [Hosts -> Trees]
    BY <1>6, <1>a, <2>2, <2>3 DEF PullCopy, SyncDies
  <2> QED BY <1>6, <1>a, <1>k, <2>1, <2>4 DEF PullCopy, SyncDies
<1>7. CASE UNCHANGED hubVars
  BY <1>7, <1>a, <1>k DEF hubVars
<1> QED BY <1>1, <1>2, <1>3, <1>4, <1>5, <1>6, <1>7 DEF HubNext

\* Between its steps a push keeps the copy it made, and what git did with it: only
\* the call a host is in touches the clone, and a call starts where none is under way.
LEMMA HubInvStep == HubTypeOK /\ HubInv /\ [HubNext]_hubVars => HubInv'
<1> DEFINE Holds(h) == LET s == sync[h].skill IN
                       /\ sync[h].at = "commit" /\ ~sync[h].failed => hub[h].index[s] = hub[h].tree[s]
                       /\ sync[h].at = "push" /\ ~sync[h].failed => hub[h].head[s] = hub[h].tree[s]
<1> SUFFICES ASSUME HubTypeOK, HubInv, [HubNext]_hubVars, NEW g \in Hosts PROVE Holds(g)'
  BY DEF HubInv
<1>a. /\ hub \in [Hosts -> Repos] /\ sync \in [Hosts -> HubCalls] /\ Holds(g)
      /\ \A h \in Hosts : hub[h] \in Repos /\ sync[h].skill \in Skills
  BY DEF HubTypeOK, HubInv, HubCalls
<1>k. ASSUME hub'[g] = hub[g], sync'[g] = sync[g] PROVE Holds(g)'
  BY <1>a, <1>k
<1>i. ASSUME sync'[g].at \in {"idle", "copy"} PROVE Holds(g)'
  BY <1>i
<1> HIDE DEF Holds
<1>r. \A h \in Hosts, result \in HubResults : HubReturns(h, result) =>
        sync'[h].at = "idle" /\ \A g2 \in Hosts \ {h} : sync'[g2] = sync[g2]
  BY <1>a DEF HubReturns, SyncCall
<1>1. ASSUME NEW h \in Hosts, NEW s \in Skills, EditSkill(h, s) PROVE Holds(g)'
  BY <1>1, <1>k DEF EditSkill
<1>2. ASSUME NEW h \in Hosts, NEW s \in Skills, PushCopy(h, s) PROVE Holds(g)'
  <2>1. CASE h # g
    BY <1>2, <1>a, <1>k, <2>1 DEF PushCopy, HubGoes
  <2>2. CASE h = g
    <3> DEFINE copied == [hub[h] EXCEPT !.tree = [hub[h].tree EXCEPT ![s] = skills[h][s]]]
               added == [copied EXCEPT !.index = [hub[h].index EXCEPT ![s] = skills[h][s]]]
    <3>1. added.index[s] = skills[h][s] /\ added.tree[s] = skills[h][s]
      BY <1>a DEF Repos, Trees
    <3>2. \/ hub' = [hub EXCEPT ![h] = added] /\ HubGoes(h, "commit", s, FALSE)
          \/ hub' = [hub EXCEPT ![h] = copied] /\ HubGoes(h, "commit", s, TRUE)
      BY <1>2 DEF PushCopy
    <3> HIDE DEF added, copied
    <3>3. \/ hub'[g] = added /\ sync'[g].at = "commit" /\ sync'[g].skill = s /\ ~sync'[g].failed
          \/ sync'[g].failed
      BY <2>2, <3>2, <1>a DEF HubGoes, SyncCall
    <3>4. sync'[g].at = "commit"
      BY <2>2, <3>2, <1>a DEF HubGoes, SyncCall
    <3> QED BY <3>1, <3>3, <3>4 DEF Holds
  <2> QED BY <2>1, <2>2
<1>3. ASSUME NEW h \in Hosts, PushCommit(h) PROVE Holds(g)'
  <2>1. CASE h # g
    BY <1>3, <1>a, <1>k, <2>1 DEF PushCommit, HubGoes, HubReturns
  <2>2. CASE h = g /\ HubReturns(h, "up-to-date")
    BY <2>2, <1>r, <1>i DEF HubResults
  <2>3. CASE h = g /\ HubGoes(h, "push", sync[h].skill, TRUE)
    <3>1. sync'[g].at = "push" /\ sync'[g].failed
      BY <2>3, <1>a DEF HubGoes, SyncCall
    <3> QED BY <3>1 DEF Holds
  <2>4. CASE /\ h = g
             /\ hub' = [hub EXCEPT ![h] = [hub[h] EXCEPT !.log = hub[h].log \cup {hubCommits + 1},
                                                         !.head = hub[h].index]]
             /\ HubGoes(h, "push", sync[h].skill, sync[h].failed)
    <3>1. /\ sync'[g].at = "push" /\ sync'[g].skill = sync[g].skill /\ sync'[g].failed = sync[g].failed
      BY <2>4, <1>a DEF HubGoes, SyncCall
    <3>2. hub'[g].head = hub[g].index /\ hub'[g].tree = hub[g].tree
      BY <2>4, <1>a DEF Repos
    <3>3. sync[g].at = "commit"
      BY <1>3, <2>4 DEF PushCommit
    <3> QED BY <1>a, <3>1, <3>2, <3>3 DEF Holds
  <2> QED BY <1>3, <2>1, <2>2, <2>3, <2>4 DEF PushCommit
<1>4. ASSUME NEW h \in Hosts, PushRemote(h) \/ PullCopy(h) \/ SyncDies(h) PROVE Holds(g)'
  <2>1. hub' = hub /\ \E result \in HubResults : HubReturns(h, result)
    BY <1>4 DEF PushRemote, PullCopy, SyncDies, HubResults
  <2> QED BY <2>1, <1>r, <1>k, <1>i
<1>5. ASSUME NEW h \in Hosts, NEW s \in Skills, PushCopyDies(h, s) \/ PullRemote(h, s) PROVE Holds(g)'
  <2>1. CASE h # g
    BY <1>5, <1>a, <1>k, <2>1 DEF PushCopyDies, PullRemote, HubGoes, HubReturns
  <2>2. CASE h = g
    <3>1. sync'[g].at \in {"idle", "copy"}
      BY <1>5, <2>2, <1>a DEF PushCopyDies, PullRemote, HubGoes, HubReturns, SyncCall
    <3> QED BY <3>1, <1>i
  <2> QED BY <2>1, <2>2
<1>6. CASE UNCHANGED hubVars
  BY <1>6, <1>k DEF hubVars
<1> QED BY <1>1, <1>2, <1>3, <1>4, <1>5, <1>6 DEF HubNext

\* What holds of the clones and the calls holds always.
LEMMA HubInvariance == HubSpec => [](HubTypeOK /\ HubInv)
<1>1. HubInit => HubTypeOK /\ HubInv
  <2> SUFFICES ASSUME HubInit PROVE HubTypeOK /\ HubInv
    OBVIOUS
  <2>1. AnySkill \in Skills
    BY HubAssumption DEF AnySkill
  <2>2. NoSkills \in Trees /\ skillEdits = 0 /\ hubCommits = 0
    BY DEF HubInit, NoSkills, Trees
  <2>3. EmptyRepo \in Repos
    BY <2>2 DEF EmptyRepo, Repos
  <2>4. SyncCall("idle", AnySkill, FALSE, "other") \in HubCalls
    BY <2>1 DEF SyncCall, HubCalls, HubPlaces, HubResults
  <2>5. HubTypeOK
    <3>1. skills = [h \in Hosts |-> NoSkills] /\ hub = [h \in Hosts |-> EmptyRepo] /\ remote = EmptyRepo
          /\ origin \in SUBSET Hosts
      BY DEF HubInit
    <3>2. sync = [h \in Hosts |-> SyncCall("idle", AnySkill, FALSE, "other")]
      BY DEF HubInit
    <3>3. sync \in [Hosts -> HubCalls]
      BY <2>4, <3>2
    <3>4. skills \in [Hosts -> Trees] /\ hub \in [Hosts -> Repos] /\ remote \in Repos
      BY <2>2, <2>3, <3>1
    <3> QED BY <2>2, <3>1, <3>3, <3>4, HubAssumption DEF HubTypeOK
  <2>6. HubInv
    BY DEF HubInit, HubInv, SyncCall
  <2> QED BY <2>5, <2>6
<1> QED BY <1>1, HubTypeStep, HubInvStep, PTL DEF HubSpec

\* The clones, the remote and the calls keep their types.
THEOREM HubTypes == HubSpec => []HubTypeOK
BY HubInvariance, PTL

\* A step of the hosts only adds to the remote's history, and reports "pushed"
\* for a copy that is there, where there is a remote and no git command failed.
LEMMA HubSafeStep ==
  HubTypeOK /\ HubInv /\ [HubNext]_hubVars =>
    /\ remote.log \subseteq remote'.log
    /\ \A h \in Hosts : /\ sync[h].result # "pushed" /\ sync'[h].result = "pushed"
                        /\ h \in origin /\ ~sync[h].failed
         => remote'.head[sync[h].skill] = hub[h].tree[sync[h].skill]
<1> SUFFICES ASSUME HubTypeOK, HubInv, [HubNext]_hubVars
             PROVE  /\ remote.log \subseteq remote'.log
                    /\ \A g \in Hosts : /\ sync[g].result # "pushed" /\ sync'[g].result = "pushed"
                                        /\ g \in origin /\ ~sync[g].failed
                         => remote'.head[sync[g].skill] = hub[g].tree[sync[g].skill]
  OBVIOUS
<1>a. sync \in [Hosts -> HubCalls] /\ \A h \in Hosts : hub[h] \in Repos
  BY DEF HubTypeOK
<1>1. ASSUME NEW h \in Hosts, PushRemote(h)
      PROVE  /\ remote.log \subseteq remote'.log
             /\ \A g \in Hosts : /\ sync[g].result # "pushed" /\ sync'[g].result = "pushed"
                                 /\ g \in origin /\ ~sync[g].failed
                  => remote'.head[sync[g].skill] = hub[g].tree[sync[g].skill]
  <2>1. \A g \in Hosts \ {h} : sync'[g] = sync[g]
    BY <1>1, <1>a DEF PushRemote, HubReturns
  <2>2. CASE h \in origin /\ Accepted(h) /\ remote' = CleanRepo(hub[h])
    <3>1. remote.log \subseteq remote'.log /\ remote'.head = hub[h].head
      BY <2>2 DEF Accepted, CleanRepo
    <3>2. ~sync[h].failed => hub[h].head[sync[h].skill] = hub[h].tree[sync[h].skill]
      BY <1>1 DEF PushRemote, HubInv
    <3> QED BY <2>1, <3>1, <3>2
  <2>3. CASE UNCHANGED remote /\ (h \notin origin \/ HubReturns(h, "other"))
    <3>1. h \in origin => sync'[h].result = "other"
      BY <2>3, <1>a DEF HubReturns, SyncCall
    <3> QED BY <2>1, <2>3, <3>1
  <2> QED BY <1>1, <2>2, <2>3 DEF PushRemote
<1>2. ASSUME NEW h \in Hosts, NEW s \in Skills,
             \/ EditSkill(h, s) \/ PushCopy(h, s) \/ PushCopyDies(h, s) \/ PullRemote(h, s)
             \/ PushCommit(h) \/ PullCopy(h) \/ SyncDies(h)
      PROVE  /\ remote' = remote
             /\ \A g \in Hosts : sync'[g].result = "pushed" => sync[g].result = "pushed"
  <2>1. remote' = remote
    BY <1>2 DEF EditSkill, PushCopy, PushCopyDies, PullRemote, PushCommit, PullCopy, SyncDies
  <2>2. \/ sync' = sync
        \/ \E at, t, failed : HubGoes(h, at, t, failed)
        \/ HubReturns(h, "other") \/ HubReturns(h, "up-to-date")
    BY <1>2 DEF EditSkill, PushCopy, PushCopyDies, PullRemote, PushCommit, PullCopy, SyncDies
  <2> QED BY <1>a, <2>1, <2>2 DEF HubGoes, HubReturns, SyncCall
<1>3. CASE UNCHANGED hubVars
  BY <1>3 DEF hubVars
<1> QED BY <1>1, <1>2, <1>3, HubAssumption DEF HubNext

\* RemoteGrows and PushedIsThere: hosts that push at the same time do not undo each
\* other's commits, and a host is told "pushed" with its copy at the remote, or where its
\* clone has no remote, or after a git add or commit failed of which it is told nothing.
THEOREM HubIsSafe == HubSpec => HubSafe
<1>1. HubTypeOK /\ HubInv /\ [HubNext]_hubVars => [remote.log \subseteq remote'.log]_hubVars
  BY HubSafeStep
<1>2. HubTypeOK /\ HubInv /\ [HubNext]_hubVars =>
        [\A h \in Hosts : /\ sync[h].result # "pushed" /\ sync'[h].result = "pushed"
                          /\ h \in origin /\ ~sync[h].failed
           => remote'.head[sync[h].skill] = hub[h].tree[sync[h].skill]]_hubVars
  BY HubSafeStep
<1>3. HubSpec => RemoteGrows
  BY <1>1, HubInvariance, PTL DEF HubSpec, RemoteGrows
<1>4. HubSpec => PushedIsThere
  BY <1>2, HubInvariance, PTL DEF HubSpec, PushedIsThere
<1> QED BY <1>3, <1>4 DEF HubSafe

-----------------------------------------------------------------------------
\* Release: the changelog announces each commit once.

\* A set of numbers that has a member has a least one.
LEMMA LeastExists ==
  ASSUME NEW S \in SUBSET Nat, S # {}
  PROVE  \E m \in S : \A x \in S : m <= x
<1>1. IsWellFoundedOn(OpToRel(<, Nat), Nat)
  BY NatLessThanWellFounded, Zenon
<1>2. PICK m \in S : \A x \in S : <<x, m>> \notin OpToRel(<, Nat)
  BY <1>1, WFMin, Zenon
<1>3. ASSUME NEW x \in S PROVE ~(x < m)
  BY <1>2 DEF OpToRel
<1>4. \A x \in S : m <= x
  BY <1>3
<1> QED BY <1>4

\* A bounded set of numbers that has a member has a greatest one.
LEMMA MaxOfBounded ==
  ASSUME NEW n \in Nat, NEW S \in SUBSET (0..n), S # {}
  PROVE  Max(S) \in S /\ \A x \in S : x <= Max(S)
<1> DEFINE T == {n - x : x \in S}
<1>1. T # {} /\ T \in SUBSET Nat
  <2>1. \A x \in S : n - x \in Nat
    OBVIOUS
  <2>2. PICK x \in S : TRUE
    OBVIOUS
  <2>3. n - x \in T
    BY <2>2
  <2> QED BY <2>1, <2>3
<1>2. PICK m \in T : \A x \in T : m <= x
  BY <1>1, LeastExists
<1>3. PICK y \in S : m = n - y
  BY <1>2
<1>4. \A x \in S : n - y <= n - x
  BY <1>2, <1>3
<1>5. \A x \in S : y >= x
  BY <1>4
<1> QED BY <1>5 DEF Max

\* Every step of a release keeps the types.
LEMMA ReleaseTypeStep == ReleaseTypeOK /\ [ReleaseNext]_releaseVars => ReleaseTypeOK'
<1> SUFFICES ASSUME ReleaseTypeOK, [ReleaseNext]_releaseVars PROVE ReleaseTypeOK'
  OBVIOUS
<1> USE DEF ReleaseTypeOK
<1>a. head \in Nat /\ head # 0 /\ Commits \subseteq Nat
  <2>1. Cardinality(Commits) \in Nat
    BY ReleaseAssumption, FS_CardinalityType
  <2> QED BY <2>1, ReleaseAssumption
<1>1. CASE Work \/ CommitAll
  <2>1. head' \in Commits /\ head' \in Nat /\ head <= head' /\ UNCHANGED <<tagOf, prepared, noted, late>>
    <3>1. head' = head \/ (head' = head + 1 /\ head + 1 \in Commits)
      BY <1>1 DEF Work, CommitAll
    <3>2. UNCHANGED <<tagOf, prepared, noted, late>>
      BY <1>1 DEF Work, CommitAll
    <3> QED BY <1>a, <3>1, <3>2
  <2>2. 0..head \subseteq 0..head' /\ 1..head \subseteq 1..head'
    BY <1>a, <2>1
  <2>3. prepared \in [Releases -> [head : 0..head', changelog : SUBSET (1..head')]]
    BY <2>2
  <2>4. tagOf \in [Releases -> 0..head']
    BY <2>2
  <2> QED BY <1>1, <2>1, <2>2, <2>3, <2>4 DEF Work, CommitAll, Answers
<1>2. ASSUME NEW v \in Releases, PrepareRelease(v) PROVE ReleaseTypeOK'
  <2>1. LastTag \in 0..head
    <3> DEFINE S == {tagOf[w] : w \in Tags} \cup {NoCommit}
    <3>1. S \in SUBSET (0..head) /\ S # {}
      BY <1>a DEF Tags, NoCommit
    <3> HIDE DEF S
    <3>2. Max(S) \in S
      BY <1>a, <3>1, MaxOfBounded
    <3> QED BY <3>1, <3>2 DEF LastTag, S
  <2>2. [head |-> head, changelog |-> BuildChangelog(LastTag)] \in [head : 0..head, changelog : SUBSET (1..head)]
    BY <1>a, <2>1 DEF BuildChangelog
  <2> QED BY <1>2, <2>2 DEF PrepareRelease, Answers
<1>3. ASSUME NEW v \in Releases, CreateTag(v) PROVE ReleaseTypeOK'
  <2>1. prepared[v].changelog \subseteq 1..head /\ prepared[v].head + 1..head \subseteq 1..head
    BY <1>a
  <2>2. tagOf' \in [Releases -> 0..head]
    <3>1. head \in 0..head
      BY <1>a
    <3> QED BY <1>3, <3>1 DEF CreateTag
  <2> QED BY <1>3, <2>1, <2>2 DEF CreateTag, Answers
<1>4. ASSUME NEW v \in Releases, VerifyRelease(v) PROVE ReleaseTypeOK'
  BY <1>4 DEF VerifyRelease, Answers
<1>5. ASSUME NEW v \in Releases, RollbackRelease(v) PROVE ReleaseTypeOK'
  <2>1. NoCommit \in 0..head
    BY <1>a DEF NoCommit
  <2> QED BY <1>5, <2>1 DEF RollbackRelease, Answers
<1>6. ASSUME NEW from \in Releases, NEW to \in Releases, GenerateMigrationGuide(from, to) PROVE ReleaseTypeOK'
  BY <1>6 DEF GenerateMigrationGuide, Answers
<1>7. CASE UNCHANGED releaseVars
  BY <1>7 DEF releaseVars
<1> QED BY <1>1, <1>2, <1>3, <1>4, <1>5, <1>6, <1>7 DEF ReleaseNext

\* The repository and its answers keep their types.
THEOREM ReleaseTypes == ReleaseSpec => []ReleaseTypeOK
<1>1. ReleaseInit => ReleaseTypeOK
  <2> SUFFICES ASSUME ReleaseInit PROVE ReleaseTypeOK
    OBVIOUS
  <2>1. Unprepared \in [head : 0..head, changelog : SUBSET (1..head)] /\ NoCommit \in 0..head
    <3>1. head = 1
      BY DEF ReleaseInit
    <3>2. NoCommit \in 0..head /\ {} \in SUBSET (1..head)
      BY <3>1 DEF NoCommit
    <3> QED BY <3>2 DEF Unprepared
  <2> QED BY <2>1, ReleaseAssumption DEF ReleaseInit, ReleaseTypeOK, Answers
<1> QED BY <1>1, ReleaseTypeStep, PTL DEF ReleaseSpec

\* What lies below the last tag has been announced.
LEMMA BelowLastTag ==
  ASSUME ReleaseTypeOK, Announced
  PROVE  LastTag \in 0..head /\ 1..LastTag \subseteq noted \cup late
<1> DEFINE S == {tagOf[w] : w \in Tags} \cup {NoCommit}
<1>1. head \in Nat
  <2>1. Cardinality(Commits) \in Nat
    BY ReleaseAssumption, FS_CardinalityType
  <2> QED BY <2>1, ReleaseAssumption DEF ReleaseTypeOK
<1>2. S \in SUBSET (0..head) /\ S # {}
  BY <1>1 DEF ReleaseTypeOK, Tags, NoCommit
<1>3. \A x \in S : 1..x \subseteq noted \cup late
  BY DEF Announced, NoCommit
<1> HIDE DEF S
<1>4. Max(S) \in S
  BY <1>1, <1>2, MaxOfBounded
<1> QED BY <1>2, <1>3, <1>4 DEF LastTag, S

\* Every step keeps the changelogs complete and the tags announced.
LEMMA AnnouncedStep ==
  ReleaseTypeOK /\ ChangelogsComplete /\ Announced /\ [ReleaseNext]_releaseVars => (ChangelogsComplete /\ Announced)'
<1> SUFFICES ASSUME ReleaseTypeOK, ChangelogsComplete, Announced, [ReleaseNext]_releaseVars
             PROVE  ChangelogsComplete' /\ Announced'
  OBVIOUS
<1> USE DEF ReleaseTypeOK
<1>1. ASSUME NEW v \in Releases, PrepareRelease(v) PROVE ChangelogsComplete' /\ Announced'
  <2>1. prepared' = [prepared EXCEPT ![v] = [head |-> head, changelog |-> LastTag + 1..head]]
        /\ UNCHANGED <<head, tagOf, noted, late>>
    BY <1>1 DEF PrepareRelease, BuildChangelog
  <2>2. LastTag \in 0..head /\ 1..LastTag \subseteq noted \cup late
    BY BelowLastTag
  <2>3. 1..head \subseteq (LastTag + 1..head) \cup (1..LastTag)
    BY <2>2
  <2> QED BY <2>1, <2>2, <2>3 DEF ChangelogsComplete, Announced, Tags
<1>2. ASSUME NEW v \in Releases, CreateTag(v) PROVE ChangelogsComplete' /\ Announced'
  <2>1. CASE UNCHANGED <<tagOf, noted, late>>
    BY <1>2, <2>1 DEF CreateTag, ChangelogsComplete, Announced, Tags
  <2>2. CASE /\ tagOf' = [tagOf EXCEPT ![v] = head] /\ noted' = noted \cup prepared[v].changelog
             /\ late' = late \cup (prepared[v].head + 1..head)
    <3>1. 1..head \subseteq (1..prepared[v].head) \cup (prepared[v].head + 1..head)
      OBVIOUS
    <3>2. 1..head \subseteq noted' \cup late'
      BY <2>2, <3>1 DEF ChangelogsComplete
    <3>3. \A w \in Tags' : tagOf'[w] = head \/ (w \in Tags /\ tagOf'[w] = tagOf[w])
      BY <2>2 DEF Tags
    <3>4. Announced'
      BY <2>2, <3>2, <3>3 DEF Announced
    <3>5. ChangelogsComplete'
      BY <1>2, <2>2 DEF CreateTag, ChangelogsComplete
    <3> QED BY <3>4, <3>5
  <2> QED BY <1>2, <2>1, <2>2 DEF CreateTag
<1>3. ASSUME NEW v \in Releases, RollbackRelease(v) PROVE ChangelogsComplete' /\ Announced'
  BY <1>3 DEF RollbackRelease, ChangelogsComplete, Announced, Tags, NoCommit
<1>4. ASSUME UNCHANGED <<tagOf, prepared, noted, late>> PROVE ChangelogsComplete' /\ Announced'
  BY <1>4 DEF ChangelogsComplete, Announced, Tags
<1> QED BY <1>1, <1>2, <1>3, <1>4
        DEF ReleaseNext, Work, CommitAll, VerifyRelease, GenerateMigrationGuide, releaseVars

\* So they are so in every state.
LEMMA ReleaseInvariance == ReleaseSpec => [](ChangelogsComplete /\ Announced)
<1>1. ReleaseInit => ChangelogsComplete /\ Announced
  <2> SUFFICES ASSUME ReleaseInit PROVE ChangelogsComplete /\ Announced
    OBVIOUS
  <2>1. 1..NoCommit = {} /\ Tags = {}
    <3>1. 1..NoCommit = {}
      BY DEF NoCommit
    <3>2. Tags = {}
      BY DEF ReleaseInit, Tags
    <3> QED BY <3>1, <3>2
  <2>2. \A v \in Releases : prepared[v].head = NoCommit
    BY DEF ReleaseInit, Unprepared
  <2> QED BY <2>1, <2>2 DEF ChangelogsComplete, Announced
<1>2. ReleaseTypeOK /\ ChangelogsComplete /\ Announced /\ [ReleaseNext]_releaseVars => (ChangelogsComplete /\ Announced)'
  BY AnnouncedStep
<1> QED BY <1>1, <1>2, ReleaseTypes, PTL DEF ReleaseSpec

\* Announced: whatever is tagged, rolled back and tagged again, a release
\* contains nothing that no changelog told of.
THEOREM ReleasesAnnounce == ReleaseSpec => []Announced
  BY ReleaseInvariance, PTL

-----------------------------------------------------------------------------
\* AgentRouter: the ranking of agents a caller is shown.

\* What CacheTrue says of the call x.
WellCached(x) ==
  /\ IsFiniteSet(DOMAIN x.cache)
  /\ \A n \in DOMAIN x.cache : x.cache[n].agent.name = n /\ x.cache[n].met \notin x.todo
  /\ \A n, o \in DOMAIN x.cache : x.cache[n].met = x.cache[o].met => n = o
  /\ x.at = "skills" => x.kind = "job" /\ x.answer # <<>>

\* What RankingSound says of the call x, part by part.
InOrder(answer) ==
  \A i, j \in DOMAIN answer :
    i < j => answer[i].agent.name # answer[j].agent.name /\ answer[i].score >= answer[j].score
OwnScores(x) == \A i \in DOMAIN x.answer : x.answer[i].score = Earned(x, x.answer[i].agent)
NoneBetter(x) ==
  \A n \in DOMAIN x.cache :
    LET m == x.cache[n].agent
    IN \/ \E i \in DOMAIN x.answer : x.answer[i].agent = m
       \/ Earned(x, m) = 0
       \/ x.kind # "recommend" /\ Len(x.answer) = TopN /\ Earned(x, m) <= x.answer[TopN].score
RanItsOwn(x) ==
  x.kind = "workflow" /\ x.ran # "none" => x.answer # <<>> /\ x.ran = x.answer[1].agent.skills[1]
WellRanked(x) ==
  x.at \in {"ranked", "skills", "done"} =>
    InOrder(x.answer) /\ OwnScores(x) /\ (x.at = "ranked" => NoneBetter(x)) /\ RanItsOwn(x)

\* A skill has run only in a call that is over.
NotRanYet(x) == x.at # "done" => x.ran = "none"

CallHolds(x) == WellCached(x) /\ WellRanked(x) /\ NotRanYet(x)

\* CacheTrue and RankingSound call by call.
LEMMA ByCall ==
  (\A c \in Callers : CallHolds(call[c])) => CacheTrue /\ RankingSound
BY DEF CallHolds, CacheTrue, RankingSound, WellCached, WellRanked, InOrder, OwnScores, NoneBetter, RanItsOwn

\* A cache that is a function from names to entries is one of Caches.
LEMMA CacheType ==
  ASSUME NEW cache
  PROVE  cache \in Caches <=>
           /\ cache \in [DOMAIN cache -> [agent : Manifests, met : 1..AgentDirs]]
           /\ DOMAIN cache \subseteq {m.name : m \in Manifests}
BY DEF Caches

\* Names are numbers.
LEMMA CacheNames ==
  ASSUME NEW x \in RouterCall
  PROVE  /\ DOMAIN x.cache \subseteq Nat
         /\ \A n \in DOMAIN x.cache : x.cache[n].agent \in Manifests /\ x.cache[n].met \in Nat
<1>1. x.cache \in Caches
  BY DEF RouterCall
<1>2. /\ x.cache \in [DOMAIN x.cache -> [agent : Manifests, met : 1..AgentDirs]]
      /\ DOMAIN x.cache \subseteq {m.name : m \in Manifests}
  BY <1>1, CacheType
<1> QED BY <1>2, RouterAssumption

-----------------------------------------------------------------------------
\* Points are counted.
LEMMA PointsCounted ==
  ASSUME NEW x, NEW m \in Manifests
  PROVE  Earned(x, m) \in Nat
<1>1. \A S : IsFiniteSet(S) => Cardinality(S) \in Nat
  BY FS_CardinalityType
<1>2. ASSUME NEW S, NEW T, IsFiniteSet(S), T \subseteq S PROVE Cardinality(T) \in Nat
  <2>1. T \in SUBSET S
    BY <1>2
  <2>2. IsFiniteSet(T)
    BY <1>2, <2>1, FS_Subset
  <2> QED BY <1>1, <2>2
<1>3. KeywordScore(m, x.task) \in Nat
  <2>1. IsFiniteSet(m.tags) /\ IsFiniteSet(m.triggers)
    BY RouterAssumption
  <2>2. m.tags \cap x.task \subseteq m.tags /\ m.triggers \cap x.task \subseteq m.triggers
    OBVIOUS
  <2>3. Cardinality(m.tags \cap x.task) \in Nat
    BY <1>2, <2>1, <2>2
  <2>4. Cardinality(m.triggers \cap x.task) \in Nat
    BY <1>2, <2>1, <2>2
  <2> QED BY <2>3, <2>4 DEF KeywordScore
<1>4. Score(m, x.task, x.repo) \in Nat
  <2> DEFINE W == {w \in x.task \cap DOMAIN KeywordTargets : m.name \in KeywordTargets[w]}
             T == {t \in TechKeywords(x.repo) \cap DOMAIN TechAgents : m.name \in TechAgents[t]}
             L == {l \in Primary(x.repo) : m.name \in TechAgents[l]}
  <2>1. W \subseteq DOMAIN KeywordTargets /\ T \subseteq DOMAIN TechAgents
    OBVIOUS
  <2>2. L \subseteq DOMAIN TechAgents
    BY DEF Primary, Languages
  <2>3. IsFiniteSet(DOMAIN KeywordTargets) /\ IsFiniteSet(DOMAIN TechAgents)
    BY RouterAssumption
  <2>4. Cardinality(W) \in Nat
    BY <1>2, <2>1, <2>3
  <2>5. Cardinality(T) \in Nat
    BY <1>2, <2>1, <2>3
  <2>6. Cardinality(L) \in Nat
    BY <1>2, <2>2, <2>3
  <2>7. Score(m, x.task, x.repo) = 2 * KeywordScore(m, x.task) + 4 * Cardinality(W)
                                   + 3 * Cardinality(T) + 2 * Cardinality(L)
    BY DEF Score
  <2> HIDE DEF W, T, L
  <2> QED BY <1>3, <2>4, <2>5, <2>6, <2>7
<1> QED BY <1>3, <1>4 DEF Earned

-----------------------------------------------------------------------------
(* The ranking.  The names with points have places from 1 to as many as they are. *)

\* Of two names one is ahead, not both, and being ahead is transitive.
LEMMA AheadOrders ==
  ASSUME NEW x \in RouterCall, WellCached(x), NEW points \in [DOMAIN x.cache -> Nat]
  PROVE  /\ \A n \in DOMAIN x.cache : ~Ahead(x, points, n, n)
         /\ \A n, o \in DOMAIN x.cache : n # o => Ahead(x, points, n, o) \/ Ahead(x, points, o, n)
         /\ \A n, o, p \in DOMAIN x.cache :
              Ahead(x, points, n, o) /\ Ahead(x, points, o, p) => Ahead(x, points, n, p)
<1>1. \A n \in DOMAIN x.cache : n \in Nat /\ x.cache[n].met \in Nat /\ points[n] \in Nat
  BY CacheNames
<1>2. \A n, o \in DOMAIN x.cache : x.cache[n].met = x.cache[o].met => n = o
  BY DEF WellCached
<1>3. CASE x.kind = "recommend"
  BY <1>1, <1>2, <1>3 DEF Ahead
<1>4. CASE x.kind # "recommend"
  BY <1>1, <1>4 DEF Ahead
<1> QED BY <1>3, <1>4

\* The places of the names with points are 1, 2, ... without a gap and without a tie, and
\* a name with a lower place is ahead.
LEMMA PlacesCount ==
  ASSUME NEW x \in RouterCall, WellCached(x), NEW points \in [DOMAIN x.cache -> Nat]
  PROVE  LET N == WithPoints(x, points)
             k == Cardinality(N)
         IN /\ IsFiniteSet(N) /\ k \in Nat /\ N \subseteq DOMAIN x.cache
            /\ \A n \in N : Place(x, points, n) \in 1..k
            /\ \A i \in 1..k : \E n \in N : Place(x, points, n) = i
            /\ \A n, o \in N : Place(x, points, n) < Place(x, points, o) => Ahead(x, points, n, o)
            /\ \A n, o \in N : Place(x, points, n) = Place(x, points, o) => n = o
<1> DEFINE N == WithPoints(x, points)
           k == Cardinality(N)
           front(n) == {o \in N : Ahead(x, points, o, n)}
<1>1. N \subseteq DOMAIN x.cache
  BY DEF WithPoints
<1>2. IsFiniteSet(N) /\ k \in Nat
  <2>1. N \in SUBSET DOMAIN x.cache /\ IsFiniteSet(DOMAIN x.cache)
    BY <1>1 DEF WellCached
  <2>2. IsFiniteSet(N)
    BY <2>1, FS_Subset
  <2> QED BY <2>2, FS_CardinalityType
<1>3. \A n \in N : Place(x, points, n) = 1 + Cardinality(front(n))
  BY DEF Place
<1>4. ASSUME NEW n \in N
      PROVE  IsFiniteSet(front(n)) /\ Cardinality(front(n)) \in Nat /\ Cardinality(front(n)) < k
  <2>1. front(n) \in SUBSET N /\ n \notin front(n)
    BY <1>1, AheadOrders
  <2>2. IsFiniteSet(front(n)) /\ Cardinality(front(n)) <= k /\ (k = Cardinality(front(n)) => N = front(n))
    BY <1>2, <2>1, FS_Subset
  <2>3. Cardinality(front(n)) \in Nat
    BY <2>2, FS_CardinalityType
  <2> QED BY <1>2, <2>1, <2>2, <2>3
<1>5. ASSUME NEW n \in N, NEW o \in N, Ahead(x, points, n, o)
      PROVE  Cardinality(front(n)) < Cardinality(front(o))
  <2>1. front(n) \in SUBSET front(o)
    BY <1>1, <1>5, AheadOrders
  <2>2. n \in front(o) /\ n \notin front(n)
    BY <1>1, <1>5, AheadOrders
  <2>3. IsFiniteSet(front(o)) /\ Cardinality(front(o)) \in Nat /\ Cardinality(front(n)) \in Nat
    BY <1>4
  <2>4. Cardinality(front(n)) <= Cardinality(front(o))
        /\ (Cardinality(front(o)) = Cardinality(front(n)) => front(o) = front(n))
    BY <2>1, <2>3, FS_Subset
  <2> HIDE DEF front
  <2> QED BY <2>2, <2>3, <2>4
<1>6. \A n, o \in N : n # o => Ahead(x, points, n, o) \/ Ahead(x, points, o, n)
  BY <1>1, AheadOrders
<1> DEFINE f == [n \in N |-> 1 + Cardinality(front(n))]
<1>7. f \in [N -> 1..k]
  <2> HIDE DEF front, N
  <2> QED BY <1>2, <1>4
<1>8. \A n, o \in N : f[n] = f[o] => n = o
  <2> SUFFICES ASSUME NEW n \in N, NEW o \in N, n # o PROVE f[n] # f[o]
    OBVIOUS
  <2>1. Cardinality(front(n)) \in Nat /\ Cardinality(front(o)) \in Nat
    BY <1>4
  <2>2. Cardinality(front(n)) < Cardinality(front(o)) \/ Cardinality(front(o)) < Cardinality(front(n))
    BY <1>5, <1>6
  <2> HIDE DEF front, N
  <2> QED BY <2>1, <2>2
<1> HIDE DEF f, front, N
<1>9. f \in Injection(N, 1..k)
  BY <1>7, <1>8 DEF Injection, IsInjective
<1>10. IsFiniteSet(1..k) /\ Cardinality(1..k) = k
  <2>1. 1 \in Int /\ k \in Int
    BY <1>2
  <2>2. IsFiniteSet(1..k) /\ Cardinality(1..k) = IF 1 > k THEN 0 ELSE k - 1 + 1
    BY <2>1, FS_Interval
  <2> QED BY <1>2, <2>2
<1>11. f \in Surjection(N, 1..k)
  BY <1>9, <1>10, FS_Injection
<1>12. \A i \in 1..k : \E n \in N : f[n] = i
  BY <1>11 DEF Surjection
<1>13. \A n \in N : Place(x, points, n) = f[n]
  BY <1>3 DEF f
<1>14. ASSUME NEW n \in N, NEW o \in N, f[n] < f[o] PROVE Ahead(x, points, n, o)
  <2> SUFFICES ASSUME ~Ahead(x, points, n, o) PROVE FALSE
    OBVIOUS
  <2>1. f[n] \in Int /\ f[o] \in Int
    BY <1>7
  <2>2. n # o
    BY <1>14, <2>1
  <2>3. Cardinality(front(o)) < Cardinality(front(n))
    BY <1>5, <1>6, <2>2
  <2>4. f[o] < f[n]
    BY <1>4, <2>3 DEF f
  <2> QED BY <1>14, <2>1, <2>4
<1> QED BY <1>1, <1>2, <1>7, <1>8, <1>12, <1>13, <1>14 DEF N

\* The names listed are those with the places from 1 to as many as are listed, which
\* are all names with points, or TopN.
LEMMA ListedCount ==
  ASSUME NEW x \in RouterCall, WellCached(x), NEW points \in [DOMAIN x.cache -> Nat]
  PROVE  LET N == WithPoints(x, points)
             L == Listed(x, points)
             k == Cardinality(L)
         IN /\ k \in Nat
            /\ \A n \in L : Place(x, points, n) \in 1..k
            /\ \A i \in 1..k : \E n \in L : Place(x, points, n) = i
            /\ N # L => x.kind # "recommend" /\ k = TopN
            /\ \A n \in N \ L : Place(x, points, n) \in Nat /\ Place(x, points, n) > k
<1> DEFINE N == WithPoints(x, points)
           L == Listed(x, points)
           all == Cardinality(N)
           k == IF x.kind = "recommend" \/ all <= TopN THEN all ELSE TopN
           place(n) == Place(x, points, n)
<1>1. /\ IsFiniteSet(N) /\ all \in Nat
      /\ \A n \in N : place(n) \in 1..all
      /\ \A i \in 1..all : \E n \in N : place(n) = i
      /\ \A n, o \in N : place(n) = place(o) => n = o
  BY PlacesCount
<1>2. L = {n \in N : x.kind = "recommend" \/ place(n) <= TopN} /\ TopN \in Nat \ {0}
  BY RouterAssumption DEF Listed
<1> HIDE DEF N, L, place, all
<1>3. k \in Nat /\ k <= all
  BY <1>1, <1>2
<1>4. \A n \in L : n \in N /\ place(n) \in 1..k
  BY <1>1, <1>2
<1>5. ASSUME NEW i \in 1..k PROVE \E n \in L : place(n) = i
  <2>1. i \in 1..all /\ (x.kind = "recommend" \/ i <= TopN)
    BY <1>1, <1>2, <1>3
  <2>2. PICK n \in N : place(n) = i
    BY <1>1, <2>1
  <2> QED BY <1>2, <2>1, <2>2
<1>6. Cardinality(L) = k
  <2> DEFINE f == [n \in L |-> place(n)]
  <2>1. f \in [L -> 1..k]
    BY <1>4
  <2>2. f \in Injection(L, 1..k)
    BY <1>1, <1>4, <2>1 DEF Injection, IsInjective
  <2>3. f \in Surjection(L, 1..k)
    BY <1>5, <2>1 DEF Surjection
  <2>4. IsFiniteSet(1..k) /\ Cardinality(1..k) = k
    <3>1. 1 \in Int /\ k \in Int
      BY <1>3
    <3>2. IsFiniteSet(1..k) /\ Cardinality(1..k) = IF 1 > k THEN 0 ELSE k - 1 + 1
      BY <3>1, FS_Interval
    <3> QED BY <1>3, <3>2
  <2> HIDE DEF f, k
  <2> QED BY <2>2, <2>3, <2>4, FS_Injection
<1>7. N # L => x.kind # "recommend" /\ k = TopN
  <2> SUFFICES ASSUME N # L PROVE x.kind # "recommend" /\ k = TopN
    OBVIOUS
  <2>1. PICK n \in N : n \notin L
    BY <1>4
  <2>2. x.kind # "recommend" /\ ~(place(n) <= TopN) /\ place(n) \in 1..all
    BY <1>1, <1>2, <2>1
  <2> QED BY <1>1, <1>2, <2>2
<1>8. ASSUME NEW n \in N \ L PROVE place(n) \in Nat /\ place(n) > k
  <2>1. k = TopN
    BY <1>7
  <2> HIDE DEF k
  <2> QED BY <1>1, <1>2, <2>1
<1> QED BY <1>3, <1>4, <1>5, <1>6, <1>7, <1>8 DEF N, L, place

\* What a ranking is: entries of the cache with their points, in order, each agent once,
\* and whoever is left out has no points or fewer than the last of TopN.
LEMMA RankingHolds ==
  ASSUME NEW x \in RouterCall, WellCached(x), NEW points \in [DOMAIN x.cache -> Nat]
  PROVE  LET R == Ranked(x, points)
         IN /\ R \in Rankings
            /\ InOrder(R)
            /\ \A i \in DOMAIN R : \E n \in DOMAIN x.cache :
                 R[i] = [agent |-> x.cache[n].agent, score |-> points[n]]
            /\ \A n \in DOMAIN x.cache :
                 \/ \E i \in DOMAIN R : R[i].agent = x.cache[n].agent
                 \/ points[n] = 0
                 \/ x.kind # "recommend" /\ Len(R) = TopN /\ points[n] <= R[TopN].score
<1> DEFINE N == WithPoints(x, points)
           L == Listed(x, points)
           k == Cardinality(L)
           place(n) == Place(x, points, n)
           at(i) == CHOOSE n \in L : place(n) = i
           R == [i \in 1..k |-> [agent |-> x.cache[at(i)].agent, score |-> points[at(i)]]]
<1>1. /\ N \subseteq DOMAIN x.cache
      /\ \A n, o \in N : place(n) < place(o) => Ahead(x, points, n, o)
  BY PlacesCount
<1>2. /\ k \in Nat /\ L \subseteq N
      /\ \A n \in L : place(n) \in 1..k
      /\ \A i \in 1..k : \E n \in L : place(n) = i
      /\ N # L => x.kind # "recommend" /\ k = TopN
      /\ \A n \in N \ L : place(n) \in Nat /\ place(n) > k
  BY ListedCount DEF Listed
<1>3. R = Ranked(x, points)
  BY DEF Ranked
<1>4. \A n \in DOMAIN x.cache : x.cache[n].agent \in Manifests /\ points[n] \in Nat /\ x.cache[n].agent.name = n
  BY CacheNames DEF WellCached
<1>5. \A n, o \in DOMAIN x.cache : Ahead(x, points, n, o) => points[n] >= points[o]
  BY <1>4 DEF Ahead
<1>6. \A n \in DOMAIN x.cache : n \in N <=> points[n] # 0
  BY <1>4 DEF WithPoints
<1> HIDE DEF N, L, k, place
<1>7. \A i \in 1..k : at(i) \in L /\ at(i) \in DOMAIN x.cache /\ place(at(i)) = i
  BY <1>1, <1>2
<1> HIDE DEF at
<1>8. \A i \in 1..k : R[i] \in [agent : Manifests, score : Nat]
  BY <1>4, <1>7
<1>9. DOMAIN R = 1..k /\ R \in Rankings /\ Len(R) = k
  <2>1. R \in [1..k -> [agent : Manifests, score : Nat]]
    BY <1>8
  <2>2. ASSUME NEW T, NEW f \in [1..k -> T] PROVE f \in Seq(T) /\ Len(f) = k
    BY <1>2
  <2> HIDE DEF R
  <2>3. R \in Seq([agent : Manifests, score : Nat]) /\ Len(R) = k
    BY <2>1, <2>2
  <2> QED BY <2>1, <2>3 DEF Rankings
<1>10. \A i \in 1..k : R[i].agent = x.cache[at(i)].agent /\ R[i].score = points[at(i)]
  OBVIOUS
<1>11. InOrder(R)
  <2> SUFFICES ASSUME NEW i \in 1..k, NEW j \in 1..k, i < j
               PROVE  R[i].agent.name # R[j].agent.name /\ R[i].score >= R[j].score
    BY <1>9 DEF InOrder
  <2>1. at(i) # at(j) /\ place(at(i)) < place(at(j)) /\ at(i) \in N /\ at(j) \in N
    BY <1>2, <1>7
  <2>2. Ahead(x, points, at(i), at(j))
    BY <1>1, <2>1
  <2>3. points[at(i)] >= points[at(j)]
    BY <1>5, <1>7, <2>2
  <2>4. x.cache[at(i)].agent.name # x.cache[at(j)].agent.name
    BY <1>4, <1>7, <2>1
  <2> HIDE DEF R
  <2> QED BY <1>10, <2>3, <2>4
<1>12. ASSUME NEW i \in DOMAIN R
       PROVE  \E n \in DOMAIN x.cache : R[i] = [agent |-> x.cache[n].agent, score |-> points[n]]
  BY <1>7, <1>9, <1>12
<1>13. ASSUME NEW n \in DOMAIN x.cache
       PROVE  \/ \E i \in DOMAIN R : R[i].agent = x.cache[n].agent
              \/ points[n] = 0
              \/ x.kind # "recommend" /\ Len(R) = TopN /\ points[n] <= R[TopN].score
  <2>1. CASE n \in L
    <3>1. place(n) \in 1..k /\ at(place(n)) \in L
      BY <1>2, <1>7, <2>1
    <3>2. at(place(n)) = n
      <4>1. place(at(place(n))) = place(n)
        BY <1>7, <3>1
      <4>2. \A o, p \in N : place(o) = place(p) => o = p
        BY PlacesCount DEF N, place
      <4> QED BY <1>2, <2>1, <3>1, <4>1, <4>2
    <3> QED BY <1>9, <1>10, <3>1, <3>2
  <2>2. CASE n \notin N
    BY <1>6, <2>2
  <2>3. CASE n \in N /\ n \notin L
    <3>1. x.kind # "recommend" /\ k = TopN /\ place(n) > k /\ place(n) \in Nat
      BY <1>2, <2>3
    <3>2. TopN \in 1..k
      BY <3>1, RouterAssumption
    <3>3. at(TopN) \in N /\ place(at(TopN)) < place(n)
      BY <1>2, <1>7, <3>1, <3>2
    <3>4. Ahead(x, points, at(TopN), n)
      BY <1>1, <2>3, <3>3
    <3>5. points[n] <= points[at(TopN)]
      <4>1. points[at(TopN)] >= points[n] /\ points[n] \in Nat /\ points[at(TopN)] \in Nat
        BY <1>4, <1>5, <1>7, <3>2, <3>4
      <4> QED BY <4>1
    <3> HIDE DEF R
    <3> QED BY <1>9, <1>10, <3>1, <3>2, <3>5
  <2> QED BY <2>1, <2>2, <2>3
<1> HIDE DEF R
<1> QED BY <1>3, <1>9, <1>11, <1>12, <1>13

-----------------------------------------------------------------------------
(* The behaviour of the calls. *)

\* A call that changes into a call that holds keeps the types and what holds.
LEMMA OneCallChanges ==
  ASSUME RouterTypeOK, \A b \in Callers : CallHolds(call[b]), NEW c \in Callers,
         NEW x \in RouterCall, CallHolds(x), CallIs(c, x)
  PROVE  RouterTypeOK' /\ \A b \in Callers : CallHolds(call'[b])
<1>1. call \in [Callers -> RouterCall]
  BY DEF RouterTypeOK
<1>2. call' = [call EXCEPT ![c] = x] /\ UNCHANGED <<agentFiles, agentEdits>>
  BY DEF CallIs
<1> HIDE DEF RouterCall
<1>3. call'[c] = x /\ \A b \in Callers \ {c} : call'[b] = call[b]
  BY <1>1, <1>2
<1>4. call' \in [Callers -> RouterCall]
  BY <1>1, <1>2
<1> QED BY <1>2, <1>3, <1>4 DEF RouterTypeOK

\* An empty cache is a cache.
LEMMA NothingCached ==
  NoCache \in Caches /\ DOMAIN NoCache = {} /\ IsFiniteSet(DOMAIN NoCache)
<1>1. DOMAIN NoCache = {}
  BY DEF NoCache
<1>2. NoCache \in [{} -> [agent : Manifests, met : 1..AgentDirs]]
  BY DEF NoCache
<1> QED BY <1>1, <1>2, CacheType, FS_EmptySet

\* discover() of a call that has not run a skill and is neither ranked nor over.
LEMMA DiscoverHolds ==
  ASSUME NEW x \in RouterCall, NEW at \in {"scan", "again", "skills"}, x.ran = "none",
         at = "skills" => x.kind = "job" /\ x.answer # <<>> /\ InOrder(x.answer) /\ OwnScores(x)
  PROVE  Discover(x, at) \in RouterCall /\ CallHolds(Discover(x, at))
<1> DEFINE todo == {d \in 1..AgentDirs : agentFiles[d] # NoAgentMd}
           y == Discover(x, at)
<1>1. todo \in SUBSET (1..AgentDirs)
  OBVIOUS
<1>2. y = [x EXCEPT !.at = at, !.cache = NoCache, !.todo = todo]
  BY DEF Discover
<1> HIDE DEF todo, y
<1>3. y \in RouterCall
  BY <1>1, <1>2, NothingCached DEF RouterCall
<1>4. y.at = at /\ y.cache = NoCache /\ y.kind = x.kind /\ y.task = x.task /\ y.repo = x.repo
      /\ y.answer = x.answer /\ y.ran = x.ran
  BY <1>2 DEF RouterCall
<1>5. WellCached(y)
  BY <1>4, NothingCached DEF WellCached
<1>6. WellRanked(y)
  <2>1. at # "ranked" /\ at # "done"
    OBVIOUS
  <2>2. OwnScores(x) => OwnScores(y)
    BY <1>4 DEF OwnScores, Earned
  <2> QED BY <1>4, <2>1, <2>2 DEF WellRanked, RanItsOwn
<1>7. NotRanYet(y)
  BY <1>4 DEF NotRanYet
<1> QED BY <1>3, <1>5, <1>6, <1>7 DEF CallHolds, y

\* A call that ends with its ranking, having run nothing or the first skill of its first.
LEMMA EndHolds ==
  ASSUME NEW x \in RouterCall, CallHolds(x), x.at \in {"ranked", "skills"},
         NEW did \in FirstSkills \cup {"none"}, NEW status \in {"shown", "passed", "failed", "completed"},
         x.kind = "workflow" /\ did # "none" => x.answer # <<>> /\ did = x.answer[1].agent.skills[1]
  PROVE  LET y == [x EXCEPT !.at = "done", !.ran = did, !.status = status]
         IN y \in RouterCall /\ CallHolds(y)
<1> DEFINE y == [x EXCEPT !.at = "done", !.ran = did, !.status = status]
<1>1. y \in RouterCall
  BY DEF RouterCall
<1>2. y.at = "done" /\ y.ran = did /\ y.kind = x.kind /\ y.task = x.task /\ y.repo = x.repo
      /\ y.answer = x.answer /\ y.cache = x.cache /\ y.todo = x.todo
  BY DEF RouterCall
<1> HIDE DEF y
<1>3. OwnScores(x) => OwnScores(y)
  BY <1>2 DEF OwnScores, Earned
<1>4. WellCached(y) /\ NotRanYet(y)
  BY <1>2 DEF CallHolds, WellCached, NotRanYet
<1>5. WellRanked(y)
  BY <1>2, <1>3 DEF CallHolds, WellRanked, RanItsOwn
<1> QED BY <1>1, <1>4, <1>5 DEF CallHolds, y

\* Reading a file enters an agent under its name, at a place no other name has.
LEMMA ReadHolds ==
  ASSUME RouterTypeOK, NEW x \in RouterCall, CallHolds(x), x.at \in {"scan", "again", "skills"},
         NEW d \in x.todo, NEW cache,
         cache = IF agentFiles[d] \in Manifests THEN Entered(x.cache, agentFiles[d], d) ELSE x.cache
  PROVE  LET y == [x EXCEPT !.todo = x.todo \ {d}, !.cache = cache]
         IN y \in RouterCall /\ CallHolds(y)
<1> DEFINE y == [x EXCEPT !.todo = x.todo \ {d}, !.cache = cache]
           m == agentFiles[d]
<1>1. x.cache \in Caches /\ x.todo \in SUBSET (1..AgentDirs) /\ d \in 1..AgentDirs
  BY DEF RouterCall
<1>2. /\ x.cache \in [DOMAIN x.cache -> [agent : Manifests, met : 1..AgentDirs]]
      /\ DOMAIN x.cache \subseteq {k.name : k \in Manifests}
  BY <1>1, CacheType
<1>3. /\ IsFiniteSet(DOMAIN x.cache)
      /\ \A n \in DOMAIN x.cache : x.cache[n].agent.name = n /\ x.cache[n].met \notin x.todo
      /\ \A n, o \in DOMAIN x.cache : x.cache[n].met = x.cache[o].met => n = o
  BY DEF CallHolds, WellCached
<1>4. /\ cache \in Caches /\ IsFiniteSet(DOMAIN cache)
      /\ \A n \in DOMAIN cache : cache[n].agent.name = n /\ cache[n].met \notin x.todo \ {d}
      /\ \A n, o \in DOMAIN cache : cache[n].met = cache[o].met => n = o
  <2>1. CASE m \notin Manifests
    BY <1>1, <1>3, <2>1
  <2>2. CASE m \in Manifests
    <3> DEFINE met == IF m.name \in DOMAIN x.cache THEN x.cache[m.name].met ELSE d
               entry == [agent |-> m, met |-> met]
    <3>1. cache = [n \in DOMAIN x.cache \cup {m.name} |-> IF n # m.name THEN x.cache[n] ELSE entry]
      BY <2>2 DEF Entered
    <3>2. met \in 1..AgentDirs
      BY <1>1, <1>2
    <3>3. entry \in [agent : Manifests, met : 1..AgentDirs]
      BY <2>2, <3>2
    <3>4. /\ DOMAIN cache = DOMAIN x.cache \cup {m.name}
          /\ \A n \in DOMAIN x.cache : n # m.name => cache[n] = x.cache[n]
          /\ cache[m.name] = entry
      BY <3>1
    <3>5. entry.agent = m /\ entry.met = met
      OBVIOUS
    <3>6. met \notin x.todo \ {d} /\ \A n \in DOMAIN x.cache : x.cache[n].met = met => n = m.name
      BY <1>3
    <3> HIDE DEF entry, met
    <3>7. cache \in [DOMAIN cache -> [agent : Manifests, met : 1..AgentDirs]]
      BY <1>2, <3>1, <3>3, <3>4
    <3>8. DOMAIN cache \subseteq {k.name : k \in Manifests}
      BY <1>2, <2>2, <3>4
    <3>9. IsFiniteSet(DOMAIN cache)
      BY <1>3, <3>4, FS_AddElement
    <3>10. ASSUME NEW n \in DOMAIN cache
           PROVE  cache[n].agent.name = n /\ cache[n].met \notin x.todo \ {d}
      BY <1>3, <3>4, <3>5, <3>6
    <3>11. ASSUME NEW n \in DOMAIN cache, NEW o \in DOMAIN cache, cache[n].met = cache[o].met
           PROVE  n = o
      BY <1>3, <3>4, <3>5, <3>6, <3>11
    <3>12. cache \in Caches
      BY <3>7, <3>8, CacheType
    <3> QED BY <3>9, <3>10, <3>11, <3>12
  <2> QED BY <2>1, <2>2
<1>5. y \in RouterCall
  BY <1>1, <1>4 DEF RouterCall
<1>6. y.at = x.at /\ y.ran = x.ran /\ y.kind = x.kind /\ y.task = x.task /\ y.repo = x.repo
      /\ y.answer = x.answer /\ y.cache = cache /\ y.todo = x.todo \ {d}
  BY DEF RouterCall
<1> HIDE DEF y
<1>7. OwnScores(x) => OwnScores(y)
  BY <1>6 DEF OwnScores, Earned
<1>8. WellCached(y) /\ NotRanYet(y)
  BY <1>4, <1>6 DEF CallHolds, WellCached, NotRanYet
<1>9. WellRanked(y)
  BY <1>6, <1>7 DEF CallHolds, WellRanked, RanItsOwn
<1> QED BY <1>5, <1>8, <1>9 DEF CallHolds, y

\* A call that is ranked by the scores of the agents it has cached.
LEMMA RankHolds ==
  ASSUME NEW x \in RouterCall, CallHolds(x), x.at \in {"scan", "again"},
         NEW points, points = [n \in DOMAIN x.cache |-> Earned(x, x.cache[n].agent)]
  PROVE  LET y == [x EXCEPT !.at = "ranked", !.answer = Ranked(x, points)]
         IN y \in RouterCall /\ CallHolds(y)
<1> DEFINE R == Ranked(x, points)
           y == [x EXCEPT !.at = "ranked", !.answer = R]
<1>1. \A n \in DOMAIN x.cache : points[n] = Earned(x, x.cache[n].agent)
  OBVIOUS
<1>2. points \in [DOMAIN x.cache -> Nat]
  BY CacheNames, PointsCounted
<1>3. WellCached(x)
  BY DEF CallHolds
<1>4. /\ R \in Rankings
      /\ InOrder(R)
      /\ \A i \in DOMAIN R : \E n \in DOMAIN x.cache :
           R[i] = [agent |-> x.cache[n].agent, score |-> points[n]]
      /\ \A n \in DOMAIN x.cache :
           \/ \E i \in DOMAIN R : R[i].agent = x.cache[n].agent
           \/ points[n] = 0
           \/ x.kind # "recommend" /\ Len(R) = TopN /\ points[n] <= R[TopN].score
  BY <1>2, <1>3, RankingHolds
<1> HIDE DEF R
<1>5. y \in RouterCall
  BY <1>4 DEF RouterCall
<1>6. y.at = "ranked" /\ y.ran = x.ran /\ y.kind = x.kind /\ y.task = x.task /\ y.repo = x.repo
      /\ y.answer = R /\ y.cache = x.cache /\ y.todo = x.todo
  BY DEF RouterCall
<1> HIDE DEF y
<1>7. \A m : Earned(y, m) = Earned(x, m)
  BY <1>6 DEF Earned
<1>8. \A i \in DOMAIN R : R[i].score = Earned(x, R[i].agent)
  <2> SUFFICES ASSUME NEW i \in DOMAIN R PROVE R[i].score = Earned(x, R[i].agent)
    OBVIOUS
  <2>1. PICK n \in DOMAIN x.cache : R[i] = [agent |-> x.cache[n].agent, score |-> points[n]]
    BY <1>4
  <2>2. R[i].agent = x.cache[n].agent /\ R[i].score = points[n]
    BY <2>1
  <2> QED BY <1>1, <2>2
<1>9. OwnScores(y)
  BY <1>6, <1>7, <1>8 DEF OwnScores
<1>10. NoneBetter(y)
  <2> SUFFICES ASSUME NEW n \in DOMAIN x.cache
               PROVE  \/ \E i \in DOMAIN R : R[i].agent = x.cache[n].agent
                      \/ Earned(y, x.cache[n].agent) = 0
                      \/ x.kind # "recommend" /\ Len(R) = TopN /\ Earned(y, x.cache[n].agent) <= R[TopN].score
    BY <1>6, Zenon DEF NoneBetter
  <2>1. Earned(y, x.cache[n].agent) = points[n]
    BY <1>1, <1>7
  <2> QED BY <1>4, <2>1
<1>11. WellCached(y) /\ NotRanYet(y) /\ x.ran = "none"
  BY <1>6 DEF CallHolds, WellCached, NotRanYet
<1>12. WellRanked(y)
  BY <1>4, <1>6, <1>9, <1>10, <1>11 DEF WellRanked, RanItsOwn
<1> QED BY <1>5, <1>11, <1>12 DEF CallHolds, y, R

\* What holds before and after every step.
RouterHolds == RouterTypeOK /\ \A c \in Callers : CallHolds(call[c])

\* A call that has not begun holds, whatever it is about.
LEMMA IdleHolds ==
  ASSUME NEW kind \in CallKinds, NEW task \in AgentTasks \cup {{}}, NEW repo \in AgentRepos \cup {NoRepo}
  PROVE  LET x == NewCall(kind, task, repo)
         IN x \in RouterCall /\ CallHolds(x) /\ x.ran = "none"
<1> DEFINE x == NewCall(kind, task, repo)
<1>2. <<>> \in Rankings
  BY DEF Rankings
<1>3. x \in RouterCall
  BY <1>2, NothingCached DEF RouterCall, NewCall
<1>4. x.at = "idle" /\ x.cache = NoCache /\ x.ran = "none"
  BY DEF NewCall
<1> HIDE DEF x
<1>5. CallHolds(x)
  BY <1>4, NothingCached DEF CallHolds, WellCached, WellRanked, NotRanYet
<1> QED BY <1>3, <1>4, <1>5 DEF x

\* Nobody has called yet.
LEMMA RouterStart == RouterInit => RouterHolds
<1> SUFFICES ASSUME RouterInit PROVE RouterHolds
  OBVIOUS
<1> DEFINE x == NewCall("select", {}, NoRepo)
<1>1. call = [c \in Callers |-> x]
  BY DEF RouterInit
<1>2. "select" \in CallKinds
  BY DEF CallKinds
<1>3. x \in RouterCall /\ CallHolds(x)
  BY <1>2, IdleHolds
<1> HIDE DEF x
<1>4. call \in [Callers -> RouterCall] /\ \A c \in Callers : CallHolds(call[c])
  BY <1>1, <1>3
<1> QED BY <1>4 DEF RouterInit, RouterTypeOK, RouterHolds

\* Every edit of a file and every step of a caller keeps it.
LEMMA RouterStep == RouterHolds /\ [RouterNext]_routerVars => RouterHolds'
<1> SUFFICES ASSUME RouterHolds, [RouterNext]_routerVars PROVE RouterHolds'
  OBVIOUS
<1>1. RouterTypeOK /\ \A c \in Callers : CallHolds(call[c]) /\ call[c] \in RouterCall
  BY DEF RouterHolds, RouterTypeOK
<1>2. ASSUME NEW c \in Callers, NEW x \in RouterCall, CallHolds(x), CallIs(c, x) PROVE RouterHolds'
  BY <1>1, <1>2, OneCallChanges DEF RouterHolds
<1>3. ASSUME NEW d \in 1..AgentDirs, EditAgent(d) PROVE RouterHolds'
  <2>1. /\ agentEdits' = agentEdits + 1 /\ UNCHANGED call
        /\ \E m \in Manifests \cup {NoAgentMd, BadAgentMd} : agentFiles' = [agentFiles EXCEPT ![d] = m]
    BY <1>3 DEF EditAgent
  <2> QED BY <1>1, <2>1 DEF RouterHolds, RouterTypeOK
<1>4. ASSUME NEW c \in Callers, NEW kind \in CallKinds, NEW task \in AgentTasks,
             NEW repo \in AgentRepos \cup {NoRepo}, StartCall(c, kind, task, repo)
      PROVE  RouterHolds'
  <2> DEFINE x == NewCall(kind, task, repo)
  <2>1. x \in RouterCall /\ x.ran = "none"
    BY IdleHolds
  <2>2. CallIs(c, Discover(x, "scan"))
    BY <1>4 DEF StartCall
  <2> HIDE DEF x
  <2>3. Discover(x, "scan") \in RouterCall /\ CallHolds(Discover(x, "scan"))
    BY <2>1, DiscoverHolds
  <2> QED BY <1>2, <2>2, <2>3
<1>5. ASSUME NEW c \in Callers, ReadAgent(c) PROVE RouterHolds'
  <2>1. PICK d \in call[c].todo :
          CallIs(c, [call[c] EXCEPT !.todo = call[c].todo \ {d},
                       !.cache = IF agentFiles[d] \in Manifests THEN Entered(call[c].cache, agentFiles[d], d)
                                 ELSE call[c].cache])
    BY <1>5 DEF ReadAgent
  <2> DEFINE cache == IF agentFiles[d] \in Manifests THEN Entered(call[c].cache, agentFiles[d], d)
                      ELSE call[c].cache
             y == [call[c] EXCEPT !.todo = call[c].todo \ {d}, !.cache = cache]
  <2>2. call[c].at \in {"scan", "again", "skills"}
    BY <1>5 DEF ReadAgent
  <2>3. y \in RouterCall /\ CallHolds(y)
    BY <1>1, <2>2, ReadHolds
  <2> QED BY <1>2, <2>1, <2>3
<1>6. ASSUME NEW c \in Callers, ScanAgain(c) PROVE RouterHolds'
  <2>1. call[c].at = "scan" /\ CallIs(c, Discover(call[c], "again"))
    BY <1>6 DEF ScanAgain
  <2>2. call[c].ran = "none"
    BY <1>1, <2>1 DEF CallHolds, NotRanYet
  <2>3. Discover(call[c], "again") \in RouterCall /\ CallHolds(Discover(call[c], "again"))
    BY <1>1, <2>2, DiscoverHolds
  <2> QED BY <1>2, <2>1, <2>3
<1>7. ASSUME NEW c \in Callers, Rank(c) PROVE RouterHolds'
  <2> DEFINE points == [n \in DOMAIN call[c].cache |-> Earned(call[c], call[c].cache[n].agent)]
             y == [call[c] EXCEPT !.at = "ranked", !.answer = Ranked(call[c], points)]
  <2>1. CallIs(c, y) /\ call[c].at \in {"scan", "again"}
    BY <1>7 DEF Rank, Scanned
  <2>2. y \in RouterCall /\ CallHolds(y)
    BY <1>1, <2>1, RankHolds
  <2> QED BY <1>2, <2>1, <2>2
<1>8. ASSUME NEW c \in Callers, call[c].at \in {"ranked", "skills"},
             NEW did \in FirstSkills \cup {"none"}, NEW status \in {"shown", "passed", "failed", "completed"},
             call[c].kind = "workflow" /\ did # "none" =>
               call[c].answer # <<>> /\ did = call[c].answer[1].agent.skills[1],
             CallIs(c, [call[c] EXCEPT !.at = "done", !.ran = did, !.status = status])
      PROVE  RouterHolds'
  <2> DEFINE y == [call[c] EXCEPT !.at = "done", !.ran = did, !.status = status]
  <2>1. y \in RouterCall /\ CallHolds(y)
    BY <1>1, <1>8, EndHolds
  <2> QED BY <1>2, <1>8, <2>1
<1>9. ASSUME NEW c \in Callers, call[c].at \in {"ranked", "skills"},
             NEW status \in {"shown", "passed", "failed", "completed"},
             CallIs(c, [call[c] EXCEPT !.at = "done", !.status = status])
      PROVE  RouterHolds'
  <2>1. call[c].ran = "none"
    BY <1>1, <1>9 DEF CallHolds, NotRanYet
  <2>2. [call[c] EXCEPT !.at = "done", !.status = status]
        = [call[c] EXCEPT !.at = "done", !.ran = "none", !.status = status]
    BY <1>1, <2>1 DEF RouterCall
  <2> QED BY <1>8, <1>9, <2>2
<1>10. ASSUME NEW c \in Callers, Show(c) PROVE RouterHolds'
  BY <1>9, <1>10 DEF Show
<1>11. ASSUME NEW c \in Callers, RunStepAgent(c) PROVE RouterHolds'
  <2> DEFINE answer == call[c].answer
             theirs == answer[1].agent.skills
  <2>1. CASE \E status \in {"passed", "failed"} : CallIs(c, [call[c] EXCEPT !.at = "done", !.status = status])
    BY <1>9, <1>11, <2>1 DEF RunStepAgent
  <2>2. ASSUME answer # <<>>, theirs # <<>>, NEW status \in {"passed", "failed"},
               CallIs(c, [call[c] EXCEPT !.at = "done", !.ran = theirs[1], !.status = status])
        PROVE  RouterHolds'
    <3>1. answer \in Seq([agent : Manifests, score : Nat])
      BY <1>1 DEF RouterCall, Rankings
    <3>2. answer[1] \in [agent : Manifests, score : Nat]
      <4>1. ASSUME NEW T, NEW s \in Seq(T), s # <<>> PROVE s[1] \in T
        BY <4>1
      <4> HIDE DEF answer
      <4> QED BY <2>2, <3>1, <4>1
    <3>3. theirs[1] \in FirstSkills
      BY <2>2, <3>2 DEF FirstSkills
    <3> QED BY <1>8, <1>11, <2>2, <3>3 DEF RunStepAgent
  <2> QED BY <1>11, <2>1, <2>2 DEF RunStepAgent
<1>12. ASSUME NEW c \in Callers, LookUpAgent(c) PROVE RouterHolds'
  <2>1. call[c].at = "ranked" /\ call[c].kind = "job"
    BY <1>12 DEF LookUpAgent
  <2>2. CASE call[c].answer = <<>>
    BY <1>9, <1>12, <2>2 DEF LookUpAgent
  <2>3. CASE call[c].answer # <<>>
    <3>1. call[c].ran = "none" /\ InOrder(call[c].answer) /\ OwnScores(call[c])
      BY <1>1, <2>1 DEF CallHolds, NotRanYet, WellRanked
    <3>2. Discover(call[c], "skills") \in RouterCall /\ CallHolds(Discover(call[c], "skills"))
      BY <1>1, <2>1, <2>3, <3>1, DiscoverHolds
    <3>3. CallIs(c, Discover(call[c], "skills"))
      BY <1>12, <2>3 DEF LookUpAgent
    <3> QED BY <1>2, <3>2, <3>3
  <2> QED BY <2>2, <2>3
<1>13. ASSUME NEW c \in Callers, RunJobAgent(c) PROVE RouterHolds'
  <2> DEFINE name == call[c].answer[1].agent.name
             theirs == IF name \in DOMAIN call[c].cache THEN call[c].cache[name].agent.skills ELSE <<>>
  <2>1. call[c].at = "skills" /\ call[c].kind = "job"
    BY <1>1, <1>13 DEF RunJobAgent, CallHolds, WellCached
  <2>2. CASE CallIs(c, [call[c] EXCEPT !.at = "done", !.status = "completed"])
    BY <1>9, <2>1, <2>2
  <2>3. ASSUME theirs # <<>>, NEW status \in {"completed", "failed"},
               CallIs(c, [call[c] EXCEPT !.at = "done", !.ran = theirs[1], !.status = status])
        PROVE  RouterHolds'
    <3>1. name \in DOMAIN call[c].cache /\ call[c].cache[name].agent \in Manifests
      BY <1>1, <2>3, CacheNames
    <3>2. theirs[1] \in FirstSkills
      BY <2>3, <3>1 DEF FirstSkills
    <3> HIDE DEF theirs
    <3> QED BY <1>8, <2>1, <2>3, <3>2
  <2> QED BY <1>13, <2>2, <2>3 DEF RunJobAgent
<1>14. CASE UNCHANGED routerVars
  BY <1>1, <1>14 DEF routerVars, RouterHolds, RouterTypeOK
<1> QED BY <1>3, <1>4, <1>5, <1>6, <1>7, <1>10, <1>11, <1>12, <1>13, <1>14 DEF RouterNext

\* Calls, caches and rankings keep their types, however files are edited meanwhile.
THEOREM RouterTypes == RouterSpec => []RouterTypeOK
<1>1. RouterHolds => RouterTypeOK
  BY DEF RouterHolds
<1> QED BY <1>1, RouterStart, RouterStep, PTL DEF RouterSpec

\* RankingSound: what a caller is shown is in order, every agent once with the score it
\* earned, nobody better is left out, and a step runs a skill of the agent it names; and
\* the registry caches an agent under its own name.
THEOREM RankingsAreSound == RouterSpec => [](CacheTrue /\ RankingSound)
<1>1. RouterHolds => CacheTrue /\ RankingSound
  BY ByCall DEF RouterHolds
<1> QED BY <1>1, RouterStart, RouterStep, PTL DEF RouterSpec

-----------------------------------------------------------------------------
\* SSHFabric: what a caller is told of the command it sent.

\* A client of the pool, and where a call may be.
PoolClient == [host : Aliases, old : BOOLEAN, live : BOOLEAN, open : BOOLEAN]
SshPlaces == {"idle", "next", "get", "drop", "connect", "exec", "running", "answered", "raised"}

\* The calls when so many clients have been made.
CallsUpTo(n) ==
  [at : SshPlaces, health : BOOLEAN, todo : SUBSET Aliases, host : Aliases \cup {"none"}, client : 0..n,
   results : SUBSET [host : Aliases, ok : BOOLEAN], report : SUBSET [host : Aliases, ping : BOOLEAN]]

\* Clients are only ever added: a call of before is one of after.
LEMMA SshCallSet ==
  ASSUME SshTypeOK, NEW c \in SshCallers, NEW r \in CallsUpTo(Len(clients')), ssh' = [ssh EXCEPT ![c] = r],
         Len(clients) <= Len(clients'), Len(clients') \in Nat
  PROVE  /\ ssh' \in [SshCallers -> CallsUpTo(Len(clients'))] /\ ssh'[c] = r
         /\ \A d \in SshCallers \ {c} : ssh'[d] = ssh[d]
<1>1. Len(clients) \in Nat /\ ssh \in [SshCallers -> CallsUpTo(Len(clients))]
  BY DEF SshTypeOK, SshCalls, CallsUpTo, SshPlaces
<1>2. 0..Len(clients) \subseteq 0..Len(clients')
  BY <1>1
<1>3. CallsUpTo(Len(clients)) \subseteq CallsUpTo(Len(clients'))
  BY <1>2 DEF CallsUpTo
<1>4. ssh \in [SshCallers -> CallsUpTo(Len(clients'))]
  BY <1>1, <1>3
<1> QED BY <1>1, <1>4

\* What a step leaves of a call that only goes on.
LEMMA CallGoes ==
  ASSUME SshTypeOK, NEW c \in SshCallers, NEW at \in SshPlaces, Goes(c, at),
         Len(clients) <= Len(clients'), Len(clients') \in Nat
  PROVE  /\ ssh' \in [SshCallers -> CallsUpTo(Len(clients'))]
         /\ ssh'[c] = [ssh[c] EXCEPT !.at = at] /\ \A d \in SshCallers \ {c} : ssh'[d] = ssh[d]
<1>1. Len(clients) \in Nat /\ ssh[c] \in CallsUpTo(Len(clients))
  BY DEF SshTypeOK, SshCalls, CallsUpTo, SshPlaces
<1>2. [ssh[c] EXCEPT !.at = at] \in CallsUpTo(Len(clients'))
  BY <1>1 DEF CallsUpTo
<1> QED BY <1>2, SshCallSet DEF Goes

\* ... or gets a client,
LEMMA CallExecutes ==
  ASSUME SshTypeOK, NEW c \in SshCallers, NEW i \in 0..Len(clients'), Executes(c, i),
         Len(clients) <= Len(clients'), Len(clients') \in Nat
  PROVE  /\ ssh' \in [SshCallers -> CallsUpTo(Len(clients'))]
         /\ ssh'[c] = [ssh[c] EXCEPT !.at = "exec", !.client = i] /\ \A d \in SshCallers \ {c} : ssh'[d] = ssh[d]
<1>1. Len(clients) \in Nat /\ ssh[c] \in CallsUpTo(Len(clients))
  BY DEF SshTypeOK, SshCalls, CallsUpTo, SshPlaces
<1>2. [ssh[c] EXCEPT !.at = "exec", !.client = i] \in CallsUpTo(Len(clients'))
  BY <1>1 DEF CallsUpTo, SshPlaces
<1> QED BY <1>2, SshCallSet DEF Executes

\* ... or has the result of the host it has at hand.
LEMMA CallAnswers ==
  ASSUME SshTypeOK, NEW c \in SshCallers, ssh[c].host \in Aliases, NEW code \in {-1, 0, 1}, NEW error,
         AnswersWith(c, code, error), clients' = clients
  PROVE  /\ ssh' \in [SshCallers -> CallsUpTo(Len(clients'))]
         /\ ssh'[c] = Result(c, code, error) /\ \A d \in SshCallers \ {c} : ssh'[d] = ssh[d]
<1>1. Len(clients) \in Nat /\ ssh[c] \in CallsUpTo(Len(clients))
  BY DEF SshTypeOK, SshCalls, CallsUpTo, SshPlaces
<1>2. (code = 0 /\ error = "none") \in BOOLEAN
  OBVIOUS
<1>3. [host |-> ssh[c].host, ok |-> code = 0 /\ error = "none"] \in [host : Aliases, ok : BOOLEAN]
  BY <1>2
<1> DEFINE X == ssh[c].results \cup {[host |-> ssh[c].host, ok |-> code = 0 /\ error = "none"]}
<1>4. X \in SUBSET [host : Aliases, ok : BOOLEAN]
  BY <1>1, <1>3 DEF CallsUpTo
<1>5. Result(c, code, error) = [ssh[c] EXCEPT !.at = "next", !.client = 0, !.results = X]
  BY DEF Result
<1> HIDE DEF X
<1>6. [ssh[c] EXCEPT !.at = "next", !.client = 0, !.results = X] \in CallsUpTo(Len(clients'))
  <2>1. 0 \in 0..Len(clients')
    BY <1>1
  <2> QED BY <1>1, <1>4, <2>1 DEF CallsUpTo, SshPlaces
<1>7. Len(clients) <= Len(clients') /\ Len(clients') \in Nat
  BY <1>1
<1>8. ssh' = [ssh EXCEPT ![c] = [ssh[c] EXCEPT !.at = "next", !.client = 0, !.results = X]]
  BY <1>5 DEF AnswersWith
<1> QED BY <1>5, <1>6, <1>7, <1>8, SshCallSet

\* Every step of the fabric keeps the types; a call that works for a host has a host.
LEMMA SshTypeStep == SshTypeOK /\ FabricInv /\ [SshNext]_sshVars => SshTypeOK'
<1> SUFFICES ASSUME SshTypeOK, FabricInv, [SshNext]_sshVars PROVE SshTypeOK'
  OBVIOUS
<1>a. /\ up \subseteq Aliases /\ outages \in 0..MaxOutages /\ clients \in Seq(PoolClient) /\ Len(clients) \in Nat
      /\ pool \in [Pools -> [Aliases -> 0..Len(clients)]]
      /\ ssh \in [SshCallers -> CallsUpTo(Len(clients))] /\ ran \subseteq SshCallers \X Aliases
  BY DEF SshTypeOK, SshCalls, CallsUpTo, SshPlaces, PoolClient
<1>b. ASSUME up' \subseteq Aliases, outages' \in 0..MaxOutages, clients' \in Seq(PoolClient),
             pool' \in [Pools -> [Aliases -> 0..Len(clients')]],
             ssh' \in [SshCallers -> CallsUpTo(Len(clients'))], ran' \subseteq SshCallers \X Aliases
      PROVE  SshTypeOK'
  BY <1>b DEF SshTypeOK, SshCalls, CallsUpTo, SshPlaces, PoolClient
<1>c. \A c \in SshCallers : PoolOf(c) \in Pools
  BY DEF PoolOf, Pools
<1>d. ASSUME NEW c \in SshCallers, ssh[c].at \in {"get", "drop", "connect", "exec", "running"} PROVE ssh[c].host \in Aliases
  BY <1>d DEF FabricInv, CallInv, AtHand
<1>e. ASSUME NEW i \in DOMAIN clients, NEW x \in PoolClient
      PROVE  [clients EXCEPT ![i] = x] \in Seq(PoolClient) /\ Len([clients EXCEPT ![i] = x]) = Len(clients)
  BY <1>a, <1>e, ExceptSeq
<1>f. \A i \in DOMAIN clients : clients[i] \in PoolClient
  BY <1>a
<1>h. \A at \in {"drop", "connect", "running", "answered", "raised"} : at \in SshPlaces
  BY DEF SshPlaces
<1>i. NoFabricCall \in CallsUpTo(Len(clients))
  <2>1. 0 \in 0..Len(clients)
    BY <1>a
  <2> QED BY <2>1 DEF NoFabricCall, CallsUpTo, SshPlaces
<1>1. ASSUME NEW a \in Aliases, HostChanges(a) PROVE SshTypeOK'
  BY <1>1, <1>a, <1>b, SshAssumption DEF HostChanges
<1>2. ASSUME NEW i \in DOMAIN clients, ConnectionDrops(i) PROVE SshTypeOK'
  <2>1. [clients[i] EXCEPT !.live = FALSE] \in PoolClient
    BY <1>f DEF PoolClient
  <2>2. clients' \in Seq(PoolClient) /\ Len(clients') = Len(clients)
    BY <1>2, <1>e, <2>1 DEF ConnectionDrops
  <2>3. outages' \in 0..MaxOutages
    BY <1>2, <1>a, SshAssumption DEF ConnectionDrops
  <2> QED BY <1>2, <1>a, <1>b, <2>2, <2>3 DEF ConnectionDrops
<1>g. ASSUME NEW f, DOMAIN f = DOMAIN clients, clients' = [i \in DOMAIN clients |-> f[i]],
             \A i \in DOMAIN clients : f[i] \in PoolClient
      PROVE  clients' \in Seq(PoolClient) /\ Len(clients') = Len(clients)
  <2>1. DOMAIN clients = 1..Len(clients)
    BY <1>a
  <2>2. [i \in 1..Len(clients) |-> f[i]] \in Seq(PoolClient)
    BY <1>a, <1>g, <2>1, IsASeq
  <2> QED BY <1>a, <1>g, <2>1, <2>2
<1>3. ASSUME TimePasses PROVE SshTypeOK'
  <2>1. \A i \in DOMAIN clients : [clients[i] EXCEPT !.old = TRUE] \in PoolClient
    BY <1>f DEF PoolClient
  <2> DEFINE F == [i \in DOMAIN clients |-> [clients[i] EXCEPT !.old = TRUE]]
  <2>2. DOMAIN F = DOMAIN clients /\ clients' = [i \in DOMAIN clients |-> F[i]] /\ \A i \in DOMAIN clients : F[i] \in PoolClient
    BY <1>3, <2>1 DEF TimePasses
  <2> HIDE DEF F
  <2>3. clients' \in Seq(PoolClient) /\ Len(clients') = Len(clients)
    BY <1>g, <2>2
  <2>4. outages' \in 0..MaxOutages
    BY <1>3, <1>a, SshAssumption DEF TimePasses
  <2> QED BY <1>3, <1>a, <1>b, <2>3, <2>4 DEF TimePasses
<1>4. ASSUME NEW c \in SshCallers, NEW t, StartSsh(c, t) \/ StartHealth(c) PROVE SshTypeOK'
  <2>1. Resolve(t) \subseteq Aliases
    BY DEF Resolve
  <2>2. PICK r \in CallsUpTo(Len(clients)) : ssh' = [ssh EXCEPT ![c] = r]
    <3>1. CASE StartSsh(c, t) /\ Resolve(t) = {}
      <4>1. [NoFabricCall EXCEPT !.at = "raised"] \in CallsUpTo(Len(clients))
        BY <1>i DEF CallsUpTo, SshPlaces
      <4> QED BY <3>1, <4>1 DEF StartSsh
    <3>2. CASE StartSsh(c, t) /\ Resolve(t) # {}
      <4>1. [NoFabricCall EXCEPT !.at = "next", !.todo = Resolve(t)] \in CallsUpTo(Len(clients))
        BY <1>i, <2>1 DEF CallsUpTo, SshPlaces
      <4> QED BY <3>2, <4>1 DEF StartSsh
    <3>3. CASE StartHealth(c)
      <4>1. [NoFabricCall EXCEPT !.at = "next", !.health = TRUE, !.todo = Aliases] \in CallsUpTo(Len(clients))
        BY <1>i DEF CallsUpTo, SshPlaces
      <4> QED BY <3>3, <4>1 DEF StartHealth
    <3> QED BY <1>4, <3>1, <3>2, <3>3
  <2>3. UNCHANGED <<up, clients, pool, outages>> /\ ran' \subseteq ran
    BY <1>4 DEF StartSsh, StartHealth
  <2>4. ssh' \in [SshCallers -> CallsUpTo(Len(clients'))]
    BY <1>a, <2>2, <2>3
  <2> QED BY <1>a, <1>b, <2>3, <2>4
<1>5. ASSUME NEW c \in SshCallers, NextHost(c) PROVE SshTypeOK'
  <2> DEFINE X(a) == ssh[c].report \cup IF ssh[c].health THEN {[host |-> a, ping |-> a \in up]} ELSE {}
  <2>1. PICK a \in ssh[c].todo :
          ssh' = [ssh EXCEPT ![c] = [ssh[c] EXCEPT !.at = "get", !.host = a, !.todo = ssh[c].todo \ {a}, !.report = X(a)]]
    BY <1>5 DEF NextHost
  <2>2. ssh[c] \in CallsUpTo(Len(clients)) /\ a \in Aliases /\ (a \in up) \in BOOLEAN
    BY <1>a DEF CallsUpTo
  <2>3. X(a) \in SUBSET [host : Aliases, ping : BOOLEAN]
    <3>1. [host |-> a, ping |-> a \in up] \in [host : Aliases, ping : BOOLEAN]
      BY <2>2
    <3>2. ssh[c].report \in SUBSET [host : Aliases, ping : BOOLEAN]
      BY <2>2 DEF CallsUpTo
    <3> QED BY <3>1, <3>2
  <2> HIDE DEF X
  <2>4. [ssh[c] EXCEPT !.at = "get", !.host = a, !.todo = ssh[c].todo \ {a}, !.report = X(a)] \in CallsUpTo(Len(clients))
    BY <2>2, <2>3 DEF CallsUpTo, SshPlaces
  <2>5. UNCHANGED <<up, clients, pool, outages, ran>>
    BY <1>5 DEF NextHost
  <2>6. ssh' \in [SshCallers -> CallsUpTo(Len(clients'))]
    BY <1>a, <2>1, <2>4, <2>5
  <2> QED BY <1>a, <1>b, <2>5, <2>6
<1>6. ASSUME NEW c \in SshCallers, GetClient(c) PROVE SshTypeOK'
  <2> DEFINE i == pool[PoolOf(c)][ssh[c].host]
  <2>1. i \in 0..Len(clients) /\ (i # 0 => i \in DOMAIN clients)
    BY <1>6, <1>a, <1>c, <1>d DEF GetClient
  <2>2. UNCHANGED <<up, pool, outages, ran>>
    BY <1>6 DEF GetClient
  <2>3. i # 0 => [clients[i] EXCEPT !.live = FALSE, !.open = FALSE] \in PoolClient
    BY <1>f, <2>1 DEF PoolClient
  <2>4. \/ Goes(c, "connect") /\ clients' = clients
        \/ Executes(c, i) /\ clients' = clients
        \/ i # 0 /\ clients' = [clients EXCEPT ![i] = [clients[i] EXCEPT !.live = FALSE, !.open = FALSE]] /\ Goes(c, "drop")
    BY <1>6 DEF GetClient
  <2> HIDE DEF i
  <2>5. clients' \in Seq(PoolClient) /\ Len(clients') = Len(clients)
    BY <1>a, <1>e, <2>1, <2>3, <2>4
  <2>6. ssh' \in [SshCallers -> CallsUpTo(Len(clients'))]
    <3>1. Len(clients) <= Len(clients') /\ Len(clients') \in Nat /\ i \in 0..Len(clients')
      BY <1>a, <2>1, <2>5
    <3> QED BY <1>h, <2>4, <3>1, CallGoes, CallExecutes
  <2> QED BY <1>a, <1>b, <2>2, <2>5, <2>6
<1>7. ASSUME NEW c \in SshCallers, DropClient(c) PROVE SshTypeOK'
  <2>1. UNCHANGED <<up, clients, outages, ran>>
    BY <1>7 DEF DropClient
  <2>2. ssh[c].host \in Aliases
    BY <1>7, <1>d DEF DropClient
  <2>3. pool' \in [Pools -> [Aliases -> 0..Len(clients)]]
    BY <1>7, <1>a, <1>c, <2>2 DEF DropClient
  <2>4. AnswersWith(c, -1, "KeyError") \/ Goes(c, "connect")
    BY <1>7 DEF DropClient
  <2>5. ssh' \in [SshCallers -> CallsUpTo(Len(clients'))]
    <3>1. Len(clients) <= Len(clients') /\ Len(clients') \in Nat /\ clients' = clients
      BY <1>a, <2>1
    <3>2. CASE Goes(c, "connect")
      BY <1>h, <3>1, <3>2, CallGoes
    <3>3. CASE AnswersWith(c, -1, "KeyError")
      BY <2>2, <3>1, <3>3, CallAnswers
    <3> QED BY <2>4, <3>2, <3>3
  <2> QED BY <1>a, <1>b, <2>1, <2>3, <2>5
<1>8. ASSUME NEW c \in SshCallers, Connect(c) PROVE SshTypeOK'
  <2> DEFINE a == ssh[c].host
  <2>1. a \in Aliases /\ UNCHANGED <<up, outages, ran>>
    BY <1>8, <1>d DEF Connect
  <2>2. CASE CanConnect(c, a)
    <3>1. [host |-> a, old |-> FALSE, live |-> TRUE, open |-> TRUE] \in PoolClient
      BY <2>1 DEF PoolClient
    <3>2. /\ clients' = Append(clients, [host |-> a, old |-> FALSE, live |-> TRUE, open |-> TRUE])
          /\ pool' = [pool EXCEPT ![PoolOf(c)] = [pool[PoolOf(c)] EXCEPT ![a] = Len(clients) + 1]]
          /\ Executes(c, Len(clients) + 1)
      BY <1>8, <2>2 DEF Connect
    <3>3. clients' \in Seq(PoolClient) /\ Len(clients') = Len(clients) + 1
      BY <1>a, <3>1, <3>2, AppendProperties
    <3>4. 0..Len(clients) \subseteq 0..Len(clients') /\ Len(clients) + 1 \in 0..Len(clients')
      BY <1>a, <3>3
    <3>5. pool \in [Pools -> [Aliases -> 0..Len(clients')]]
      BY <1>a, <3>4
    <3>6. pool' \in [Pools -> [Aliases -> 0..Len(clients')]]
      BY <1>c, <2>1, <3>2, <3>4, <3>5
    <3>7. ssh' \in [SshCallers -> CallsUpTo(Len(clients'))]
      <4>1. Len(clients) <= Len(clients') /\ Len(clients') \in Nat
        BY <1>a, <3>3
      <4> QED BY <3>2, <3>4, <4>1, CallExecutes
    <3> QED BY <1>a, <1>b, <2>1, <3>3, <3>6, <3>7
  <2>3. CASE ~CanConnect(c, a)
    <3>1. AnswersWith(c, -1, "SSHError") /\ UNCHANGED <<clients, pool>>
      BY <1>8, <2>3 DEF Connect
    <3>2. ssh' \in [SshCallers -> CallsUpTo(Len(clients'))]
      BY <2>1, <3>1, CallAnswers
    <3> QED BY <1>a, <1>b, <2>1, <3>1, <3>2
  <2> QED BY <2>2, <2>3
<1>9. ASSUME NEW c \in SshCallers, ExecRaises(c) PROVE SshTypeOK'
  <2>1. [ssh[c] EXCEPT !.at = "raised", !.results = {}, !.report = {}] \in CallsUpTo(Len(clients))
    BY <1>a, ZenonT(60) DEF CallsUpTo, SshPlaces
  <2>2. ssh' \in [SshCallers -> CallsUpTo(Len(clients'))] /\ UNCHANGED <<up, clients, pool, outages, ran>>
    BY <1>9, <1>a, <2>1 DEF ExecRaises
  <2> QED BY <1>a, <1>b, <2>2
<1>10. ASSUME NEW c \in SshCallers, ExecStarts(c) PROVE SshTypeOK'
  <2>1. Goes(c, "running") /\ UNCHANGED <<up, clients, pool, outages, ran>>
    BY <1>10 DEF ExecStarts
  <2>3. Len(clients) <= Len(clients') /\ Len(clients') \in Nat
    BY <1>a, <2>1
  <2>2. ssh' \in [SshCallers -> CallsUpTo(Len(clients'))]
    BY <1>h, <2>1, <2>3, CallGoes
  <2> QED BY <1>a, <1>b, <2>1, <2>2
<1>11. ASSUME NEW c \in SshCallers, ExecEnds(c) PROVE SshTypeOK'
  <2>1. ssh[c].host \in Aliases /\ UNCHANGED <<up, clients, pool, outages>>
    BY <1>11, <1>d DEF ExecEnds
  <2>2. ran' \subseteq ran \cup {<<c, ssh[c].host>>} /\ \E code \in {-1, 0, 1}, error \in {"none", "timeout"} : AnswersWith(c, code, error)
    BY <1>11 DEF ExecEnds
  <2>3. ssh' \in [SshCallers -> CallsUpTo(Len(clients'))]
    BY <2>1, <2>2, CallAnswers
  <2> QED BY <1>a, <1>b, <2>1, <2>2, <2>3
<1>12. ASSUME NEW c \in SshCallers, ReturnSsh(c) PROVE SshTypeOK'
  <2>1. UNCHANGED <<up, outages, ran>> /\ (Goes(c, "raised") \/ Goes(c, "answered"))
    BY <1>12 DEF ReturnSsh
  <2>2. CASE SharedPool
    <3>1. UNCHANGED <<clients, pool>>
      BY <1>12, <2>2 DEF ReturnSsh
    <3>2. ssh' \in [SshCallers -> CallsUpTo(Len(clients'))]
      <4>1. Len(clients) <= Len(clients') /\ Len(clients') \in Nat
        BY <1>a, <3>1
      <4> QED BY <1>h, <2>1, <4>1, CallGoes
    <3> QED BY <1>a, <1>b, <2>1, <3>1, <3>2
  <2>3. CASE ~SharedPool
    <3>1. clients' = CloseAll(c) /\ pool' = [pool EXCEPT ![c] = [a \in Aliases |-> 0]]
      BY <1>12, <2>3 DEF ReturnSsh
    <3>2. \A i \in DOMAIN clients : [clients[i] EXCEPT !.live = FALSE, !.open = FALSE] \in PoolClient
      BY <1>f DEF PoolClient
    <3> DEFINE F == CloseAll(c)
    <3>3. DOMAIN F = DOMAIN clients /\ clients' = [i \in DOMAIN clients |-> F[i]] /\ \A i \in DOMAIN clients : F[i] \in PoolClient
      BY <1>f, <3>1, <3>2 DEF CloseAll
    <3> HIDE DEF F
    <3>4. clients' \in Seq(PoolClient) /\ Len(clients') = Len(clients)
      BY <1>g, <3>3
    <3>5. pool' \in [Pools -> [Aliases -> 0..Len(clients')]]
      <4>1. [a \in Aliases |-> 0] \in [Aliases -> 0..Len(clients)]
        BY <1>a
      <4> QED BY <1>a, <3>1, <3>4, <4>1
    <3>6. ssh' \in [SshCallers -> CallsUpTo(Len(clients'))]
      <4>1. Len(clients) <= Len(clients') /\ Len(clients') \in Nat
        BY <1>a, <3>4
      <4> QED BY <1>h, <2>1, <4>1, CallGoes
    <3> QED BY <1>a, <1>b, <2>1, <3>4, <3>5, <3>6
  <2> QED BY <2>2, <2>3
<1>13. CASE UNCHANGED sshVars
  BY <1>13, <1>a, <1>b DEF sshVars
<1> QED BY <1>1, <1>2, <1>3, <1>4, <1>5, <1>6, <1>7, <1>8, <1>9, <1>10, <1>11, <1>12, <1>13 DEF SshNext

\* The call of another caller stays what it was: no step of one takes from `ran`
\* what another has done.
LEMMA OthersKeep ==
  ASSUME FabricInv, NEW d \in SshCallers, ssh'[d] = ssh[d],
         \A a \in Aliases : <<d, a>> \in ran => <<d, a>> \in ran', SshTypeOK
  PROVE  CallInv(d)'
<1>1. CallInv(d) /\ \A r \in ssh[d].results : r.host \in Aliases
  BY DEF FabricInv, SshTypeOK, SshCalls
<1> QED BY <1>1 DEF CallInv, AtHand, DoneHosts

\* A call that goes on with the host it has at hand, or with its client.
LEMMA SameHostKeeps ==
  ASSUME FabricInv, SshTypeOK, NEW c \in SshCallers, ran' = ran,
         ssh[c].at \in {"get", "drop", "connect", "exec"}, ssh'[c].at \in {"drop", "connect", "exec", "running"},
         ssh'[c].host = ssh[c].host, ssh'[c].todo = ssh[c].todo, ssh'[c].results = ssh[c].results,
         ssh'[c].health = ssh[c].health
  PROVE  CallInv(c)'
<1>1. CallInv(c)
  BY DEF FabricInv
<1>2. AtHand(c)' = AtHand(c) /\ DoneHosts(c)' = DoneHosts(c)
  BY DEF AtHand, DoneHosts
<1> QED BY <1>1, <1>2 DEF CallInv

\* A call that has a result for the host at hand: it is a new one, and only ok
\* when the command is known to have ended with 0.
LEMMA AnswerKeeps ==
  ASSUME FabricInv, SshTypeOK, NEW c \in SshCallers, ssh[c].at \in {"drop", "connect", "running"},
         NEW ok \in BOOLEAN, ok => <<c, ssh[c].host>> \in ran', ran \subseteq ran',
         ssh'[c] = [ssh[c] EXCEPT !.at = "next", !.client = 0,
                      !.results = ssh[c].results \cup {[host |-> ssh[c].host, ok |-> ok]}]
  PROVE  CallInv(c)'
<1>1. CallInv(c) /\ AtHand(c) = {ssh[c].host} /\ ssh[c] \in SshCalls
  BY DEF FabricInv, AtHand, SshTypeOK
<1> DEFINE new == [host |-> ssh[c].host, ok |-> ok]
<1>2. /\ ssh'[c].at = "next" /\ ssh'[c].todo = ssh[c].todo /\ ssh'[c].health = ssh[c].health
      /\ ssh'[c].results = ssh[c].results \cup {new}
  BY <1>1 DEF SshCalls
<1>3. new.host = ssh[c].host /\ new.ok = ok
  OBVIOUS
<1> HIDE DEF new
<1>4. AtHand(c)' = {} /\ DoneHosts(c)' = DoneHosts(c) \cup {ssh[c].host}
  BY <1>2, <1>3 DEF AtHand, DoneHosts
<1>5. \A r \in ssh[c].results : r.host # new.host
  BY <1>1, <1>3 DEF CallInv, DoneHosts
<1>6. \A r \in ssh'[c].results : r.ok => <<c, r.host>> \in ran'
  BY <1>1, <1>2, <1>3 DEF CallInv
<1>7. \A r, s \in ssh'[c].results : r.host = s.host => r = s
  BY <1>1, <1>2, <1>5 DEF CallInv
<1>8. DoneHosts(c)' \cap ssh'[c].todo = {}
  BY <1>1, <1>2, <1>4 DEF CallInv
<1>9. ssh'[c].health => Aliases \subseteq ssh'[c].todo \cup AtHand(c)' \cup DoneHosts(c)'
  BY <1>1, <1>2, <1>4 DEF CallInv
<1> QED BY <1>2, <1>4, <1>6, <1>7, <1>8, <1>9 DEF CallInv

\* Every step of the fabric keeps what a call knows of its hosts.
LEMMA FabricStep == SshTypeOK /\ FabricInv /\ [SshNext]_sshVars => FabricInv'
<1> SUFFICES ASSUME SshTypeOK, FabricInv, [SshNext]_sshVars PROVE FabricInv'
  OBVIOUS
<1>a. SUFFICES ASSUME NEW c \in SshCallers PROVE CallInv(c)'
  BY DEF FabricInv
<1>b. \A d \in SshCallers : ssh[d] \in SshCalls
  BY DEF SshTypeOK
<1>c. ASSUME ssh'[c] = ssh[c], ran' = ran PROVE CallInv(c)'
  BY <1>c, OthersKeep
<1>1. ASSUME NEW d \in SshCallers, NEW t, StartSsh(d, t) \/ StartHealth(d) PROVE CallInv(c)'
  <2>1. CASE c # d
    <3>1. ssh'[c] = ssh[c] /\ \A a \in Aliases : <<c, a>> \in ran => <<c, a>> \in ran'
      BY <1>1, <2>1 DEF StartSsh, StartHealth, SshTypeOK
    <3> QED BY <3>1, OthersKeep
  <2>2. CASE c = d
    <3>1. /\ ssh'[c].results = {} /\ ssh'[c].at \in {"next", "raised"}
          /\ ssh'[c].health /\ ssh'[c].at = "next" => ssh'[c].todo = Aliases
      <4>1. CASE StartSsh(c, t) /\ Resolve(t) = {}
        BY <4>1 DEF StartSsh, NoFabricCall, SshTypeOK
      <4>2. CASE StartSsh(c, t) /\ Resolve(t) # {}
        BY <4>2 DEF StartSsh, NoFabricCall, SshTypeOK
      <4>3. CASE StartHealth(c)
        BY <4>3 DEF StartHealth, NoFabricCall, SshTypeOK
      <4> QED BY <1>1, <2>2, <4>1, <4>2, <4>3
    <3>2. AtHand(c)' = {} /\ DoneHosts(c)' = {}
      BY <3>1 DEF AtHand, DoneHosts
    <3> QED BY <3>1, <3>2 DEF CallInv
  <2> QED BY <2>1, <2>2
<1>2. ASSUME NEW d \in SshCallers, NextHost(d) PROVE CallInv(c)'
  <2>1. PICK a, x :
          a \in ssh[d].todo /\ ssh' = [ssh EXCEPT ![d] = [ssh[d] EXCEPT !.at = "get", !.host = a, !.todo = ssh[d].todo \ {a}, !.report = x]]
    BY <1>2 DEF NextHost
  <2>2. ran' = ran /\ ssh[d].at = "next"
    BY <1>2 DEF NextHost
  <2>3. CASE c # d
    BY <1>c, <2>1, <2>2, <2>3 DEF SshTypeOK
  <2>4. CASE c = d
    <3>1. /\ ssh'[c].at = "get" /\ ssh'[c].host = a /\ ssh'[c].todo = ssh[c].todo \ {a}
          /\ ssh'[c].results = ssh[c].results /\ ssh'[c].health = ssh[c].health
      BY <1>b, <2>1, <2>4 DEF SshTypeOK, SshCalls
    <3>2. AtHand(c) = {} /\ AtHand(c)' = {a} /\ DoneHosts(c)' = DoneHosts(c) /\ a \in Aliases /\ CallInv(c)
      BY <1>b, <2>1, <2>2, <2>4, <3>1 DEF AtHand, DoneHosts, FabricInv, SshCalls
    <3> QED BY <2>1, <2>2, <2>4, <3>1, <3>2 DEF CallInv
  <2> QED BY <2>3, <2>4
<1>3. ASSUME NEW d \in SshCallers, NEW at, NEW i, Goes(d, at) \/ Executes(d, i)
      PROVE  /\ c # d => ssh'[c] = ssh[c]
             /\ ssh'[d].host = ssh[d].host /\ ssh'[d].todo = ssh[d].todo /\ ssh'[d].results = ssh[d].results
             /\ ssh'[d].health = ssh[d].health
             /\ ssh'[d].at = IF Goes(d, at) THEN at ELSE "exec"
  <2>1. ASSUME Goes(d, at) PROVE (c # d => ssh'[c] = ssh[c]) /\ ssh'[d] = [ssh[d] EXCEPT !.at = at]
    BY <2>1 DEF Goes, SshTypeOK
  <2>2. ASSUME Executes(d, i) PROVE (c # d => ssh'[c] = ssh[c]) /\ ssh'[d] = [ssh[d] EXCEPT !.at = "exec", !.client = i]
    BY <2>2 DEF Executes, SshTypeOK
  <2>3. ssh[d] \in SshCalls
    BY <1>b
  <2>4. CASE Goes(d, at)
    BY <2>1, <2>3, <2>4 DEF SshCalls
  <2>5. CASE ~Goes(d, at)
    BY <1>3, <2>2, <2>3, <2>5 DEF SshCalls
  <2> QED BY <2>4, <2>5
<1>4. ASSUME NEW d \in SshCallers, NEW code, NEW error, AnswersWith(d, code, error), ssh[d].at \in {"drop", "connect", "running"},
             ran \subseteq ran', code = 0 /\ error = "none" => <<d, ssh[d].host>> \in ran'
      PROVE  CallInv(c)'
  <2>1. CASE c # d
    BY <1>4, <2>1, OthersKeep DEF AnswersWith, SshTypeOK
  <2>2. CASE c = d
    <3>1. (code = 0 /\ error = "none") \in BOOLEAN
      OBVIOUS
    <3>2. ssh'[d] = Result(d, code, error)
      BY <1>4 DEF AnswersWith, SshTypeOK
    <3> QED BY <1>4, <2>2, <3>1, <3>2, AnswerKeeps DEF Result
  <2> QED BY <2>1, <2>2
<1>5. ASSUME NEW d \in SshCallers, GetClient(d) PROVE CallInv(c)'
  <2>1. ran' = ran /\ ssh[d].at = "get"
    BY <1>5 DEF GetClient
  <2>2. Goes(d, "connect") \/ Goes(d, "drop") \/ Executes(d, pool[PoolOf(d)][ssh[d].host])
    BY <1>5 DEF GetClient
  <2>3. CASE c # d
    BY <1>3, <1>c, <2>1, <2>2, <2>3
  <2>4. CASE c = d
    BY <1>3, <2>1, <2>2, <2>4, SameHostKeeps
  <2> QED BY <2>3, <2>4
<1>6. ASSUME NEW d \in SshCallers, DropClient(d) PROVE CallInv(c)'
  <2>1. ran' = ran /\ ssh[d].at = "drop" /\ (AnswersWith(d, -1, "KeyError") \/ Goes(d, "connect"))
    BY <1>6 DEF DropClient
  <2>2. CASE AnswersWith(d, -1, "KeyError")
    BY <1>4, <2>1, <2>2
  <2>3. CASE Goes(d, "connect") /\ c # d
    BY <1>3, <1>c, <2>1, <2>3
  <2>4. CASE Goes(d, "connect") /\ c = d
    BY <1>3, <2>1, <2>4, SameHostKeeps
  <2> QED BY <2>1, <2>2, <2>3, <2>4
<1>7. ASSUME NEW d \in SshCallers, Connect(d) PROVE CallInv(c)'
  <2>1. ran' = ran /\ ssh[d].at = "connect" /\ (AnswersWith(d, -1, "SSHError") \/ Executes(d, Len(clients) + 1))
    BY <1>7 DEF Connect
  <2>2. CASE AnswersWith(d, -1, "SSHError")
    BY <1>4, <2>1, <2>2
  <2>3. CASE Executes(d, Len(clients) + 1) /\ c # d
    BY <1>3, <1>c, <2>1, <2>3
  <2>4. CASE Executes(d, Len(clients) + 1) /\ c = d
    <3>1. ssh'[d].at = "exec"
      BY <1>b, <2>4 DEF Executes, SshTypeOK, SshCalls
    <3> QED BY <1>3, <2>1, <2>4, <3>1, SameHostKeeps
  <2> QED BY <2>1, <2>2, <2>3, <2>4
<1>8. ASSUME NEW d \in SshCallers, ExecRaises(d) PROVE CallInv(c)'
  <2>1. ran' = ran /\ (c # d => ssh'[c] = ssh[c])
    BY <1>8 DEF ExecRaises, SshTypeOK
  <2>2. CASE c = d
    <3>1. ssh'[c].at = "raised" /\ ssh'[c].results = {}
      BY <1>8, <1>b, <2>2 DEF ExecRaises, SshTypeOK, SshCalls
    <3>2. AtHand(c)' = {} /\ DoneHosts(c)' = {}
      BY <3>1 DEF AtHand, DoneHosts
    <3> QED BY <3>1, <3>2 DEF CallInv
  <2> QED BY <1>c, <2>1, <2>2
<1>9. ASSUME NEW d \in SshCallers, ExecStarts(d) PROVE CallInv(c)'
  <2>1. ran' = ran /\ ssh[d].at = "exec" /\ Goes(d, "running")
    BY <1>9 DEF ExecStarts
  <2>2. CASE c # d
    BY <1>3, <1>c, <2>1, <2>2
  <2>3. CASE c = d
    BY <1>3, <2>1, <2>3, SameHostKeeps
  <2> QED BY <2>2, <2>3
<1>10. ASSUME NEW d \in SshCallers, ExecEnds(d) PROVE CallInv(c)'
  <2>1. ssh[d].at = "running"
    BY <1>10 DEF ExecEnds
  <2>2. ASSUME ran' = ran, NEW error, AnswersWith(d, -1, error) PROVE CallInv(c)'
    <3>1. ~(-1 = 0)
      OBVIOUS
    <3> QED BY <1>4, <2>1, <2>2, <3>1
  <2>3. ASSUME NEW code \in {0, 1}, AnswersWith(d, code, "none"), ran' = IF code = 0 THEN ran \cup {<<d, ssh[d].host>>} ELSE ran
        PROVE  CallInv(c)'
    BY <1>4, <2>1, <2>3
  <2> QED BY <1>10, <2>2, <2>3 DEF ExecEnds
<1>11. ASSUME NEW d \in SshCallers, ReturnSsh(d) PROVE CallInv(c)'
  <2>1. ran' = ran /\ Goes(d, IF ssh[d].at = "raised" THEN "raised" ELSE "answered")
    BY <1>11 DEF ReturnSsh
  <2>2. ssh[d].at = "raised" \/ (ssh[d].at = "next" /\ ssh[d].todo = {})
    BY <1>11 DEF ReturnSsh
  <2>3. CASE c # d
    BY <1>3, <1>c, <2>1, <2>3
  <2>4. CASE c = d
    <3>1. /\ ssh'[c].at = IF ssh[c].at = "raised" THEN "raised" ELSE "answered"
          /\ ssh'[c].todo = ssh[c].todo /\ ssh'[c].results = ssh[c].results /\ ssh'[c].health = ssh[c].health
      BY <1>3, <2>1, <2>4
    <3>2. AtHand(c) = {} /\ AtHand(c)' = {} /\ DoneHosts(c)' = DoneHosts(c) /\ CallInv(c)
      BY <2>2, <2>4, <3>1 DEF AtHand, DoneHosts, FabricInv
    <3> QED BY <2>1, <2>2, <2>4, <3>1, <3>2 DEF CallInv
  <2> QED BY <2>3, <2>4
<1>12. ASSUME \/ \E a \in Aliases : HostChanges(a)
              \/ \E i \in DOMAIN clients : ConnectionDrops(i)
              \/ TimePasses \/ UNCHANGED sshVars
       PROVE  CallInv(c)'
  BY <1>12, <1>c DEF HostChanges, ConnectionDrops, TimePasses, sshVars
<1> QED BY <1>1, <1>2, <1>5, <1>6, <1>7, <1>8, <1>9, <1>10, <1>11, <1>12 DEF SshNext

\* What holds of the calls holds always.
LEMMA FabricInvariance == SshSpec => [](SshTypeOK /\ FabricInv)
<1>1. SshInit => SshTypeOK /\ FabricInv
  <2> SUFFICES ASSUME SshInit PROVE SshTypeOK /\ FabricInv
    OBVIOUS
  <2>1. clients = <<>> /\ Len(clients) = 0 /\ clients \in Seq([host : Aliases, old : BOOLEAN, live : BOOLEAN, open : BOOLEAN])
    BY DEF SshInit
  <2>2. 0 \in 0..Len(clients)
    BY <2>1
  <2>3. NoFabricCall \in SshCalls
    BY <2>2 DEF NoFabricCall, SshCalls
  <2>4. pool \in [Pools -> [Aliases -> 0..Len(clients)]]
    BY <2>2 DEF SshInit
  <2>5. SshTypeOK
    BY <2>1, <2>3, <2>4, SshAssumption DEF SshInit, SshTypeOK
  <2>6. FabricInv
    BY DEF SshInit, FabricInv, CallInv, AtHand, DoneHosts, NoFabricCall
  <2> QED BY <2>5, <2>6
<1> QED BY <1>1, SshTypeStep, FabricStep, PTL DEF SshSpec

\* The clients, the pools and the calls keep their types.
THEOREM SshTypes == SshSpec => []SshTypeOK
BY FabricInvariance, PTL

\* AnswersTrue: a call has one result for each host it got to, a host is only
\* reported ok when its own command ran to the end and returned 0, and a health
\* report is only "all ok" when that is so of every host, whatever other threads
\* do to the clients of the pool.
THEOREM AnswersAreTrue == SshSpec => []AnswersTrue
<1>1. SshTypeOK /\ FabricInv => AnswersTrue
  <2> SUFFICES ASSUME SshTypeOK, FabricInv, NEW c \in SshCallers
               PROVE  /\ \A r \in ssh[c].results : r.ok => <<c, r.host>> \in ran
                      /\ \A r, s \in ssh[c].results : r.host = s.host => r = s
                      /\ ssh[c].at = "answered" /\ ssh[c].health /\ AllOk(c) => \A a \in Aliases : <<c, a>> \in ran
    BY DEF AnswersTrue
  <2>1. CallInv(c)
    BY DEF FabricInv
  <2>2. ASSUME ssh[c].at = "answered", ssh[c].health, AllOk(c), NEW a \in Aliases PROVE <<c, a>> \in ran
    <3>1. a \in DoneHosts(c)
      BY <2>1, <2>2 DEF CallInv, AtHand
    <3>2. PICK r \in ssh[c].results : r.host = a
      BY <3>1 DEF DoneHosts
    <3> QED BY <2>1, <2>2, <3>2 DEF CallInv, AllOk
  <2> QED BY <2>1, <2>2 DEF CallInv
<1> QED BY <1>1, FabricInvariance, PTL

-----------------------------------------------------------------------------
\* All of them.

\* A behaviour of all of them is one of each of them: where a behaviour is about
\* another, this one stays as it starts.
LEMMA StoresParts ==
  StoresSpec => /\ VaultSpec /\ RotSpec /\ PackSpec /\ TmSpec
                /\ ChatSpec /\ MemSpec /\ HubSpec /\ ReleaseSpec
                /\ RouterSpec /\ SshSpec /\ Spec
<1>1. StoresInit => /\ VaultInit /\ RotInit /\ PackInit /\ TmInit
                    /\ ChatInit /\ MemInit /\ HubInit /\ ReleaseInit
                    /\ RouterInit /\ SshInit /\ Init
  BY DEF StoresInit
<1>2. [StoresNext]_StoresVars => [VaultNext]_vaultVars
  BY DEF StoresNext, StoresVars
<1>3. [StoresNext]_StoresVars => [RotNext]_rotVars
  BY DEF StoresNext, StoresVars
<1>4. [StoresNext]_StoresVars => [PackNext]_packVars
  BY DEF StoresNext, StoresVars
<1>5. [StoresNext]_StoresVars => [TmNext]_tmVars
  BY DEF StoresNext, StoresVars
<1>6. [StoresNext]_StoresVars => [ChatNext]_chatVars
  BY DEF StoresNext, StoresVars
<1>7. [StoresNext]_StoresVars => [MemNext]_memVars
  BY DEF StoresNext, StoresVars
<1>8. [StoresNext]_StoresVars => [HubNext]_hubVars
  BY DEF StoresNext, StoresVars
<1>9. [StoresNext]_StoresVars => [ReleaseNext]_releaseVars
  BY DEF StoresNext, StoresVars
<1>10. [StoresNext]_StoresVars => [RouterNext]_routerVars
  BY DEF StoresNext, StoresVars
<1>11. [StoresNext]_StoresVars => [SshNext]_sshVars
  BY DEF StoresNext, StoresVars
<1>12. [StoresNext]_StoresVars => [Next]_vars
  BY DEF StoresNext, StoresVars
<1> QED BY <1>1, <1>2, <1>3, <1>4, <1>5, <1>6, <1>7, <1>8, <1>9, <1>10, <1>11, <1>12, PTL
        DEF StoresSpec, VaultSpec, RotSpec, PackSpec, TmSpec, ChatSpec, MemSpec, HubSpec, ReleaseSpec, RouterSpec, SshSpec, Spec

\* The types of the stores, and the invariants the proofs above are built on, hold of all
\* of them together, for any vault, packs, conversations, hosts, agents and graphs.
THEOREM StoresTypes == StoresSpec => []StoresTypesOK
<1> QED BY StoresParts, VaultInvariance, RotInvariance, PackInvariance, TmInvariance, ChatTypes,
        MemTypes, HubInvariance, ReleaseTypes, ReleaseInvariance, RouterTypes, RankingsAreSound,
        FabricInvariance, KahnInvariant, PTL DEF StoresTypesOK
=============================================================================
