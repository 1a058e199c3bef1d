----------------------------- MODULE MemoryStore -----------------------------
(* superpowers/memory/store.py: what the assistant remembers, in a table that *)
(* several processes use.  A statement is atomic; recall is three of them, and *)
(* only from its UPDATE on does it hold the database.                          *)
EXTENDS Integers, FiniteSets

CONSTANTS
  MemProcs,        \* processes with a MemoryStore
  MemKeys,         \* (category, key, project) triples
  KeepDays,        \* the days given to decay()
  MemDays,         \* bound: days that pass
  MaxMemories      \* bound: rows ever inserted

ASSUME MemoryAssumption ==
  KeepDays \in Nat /\ MemDays \in Nat /\ MaxMemories \in Nat /\ MemKeys # {}

VARIABLES
  memories,   \* the rows: id, key and day of last access; the access count is left out
  nextRow,    \* AUTOINCREMENT
  recalling,  \* the row each process has read and not yet touched; 0 for none
  memDay,
  lastUsed    \* history: the day each key was last stored or recalled, -1 if gone

memVars == <<memories, nextRow, recalling, memDay, lastUsed>>

\* Mutant: the next id is one above those in use.
ReusedId(k) ==
  [id |-> CHOOSE i \in 1..(MaxMemories + 1) : \A m \in memories : m.id # i,
   key |-> k, accessed |-> memDay]

NewRow(k) == [id |-> nextRow, key |-> k, accessed |-> memDay]

MemInit ==
  /\ memories = {} /\ nextRow = 1
  /\ recalling = [p \in MemProcs |-> [id |-> 0, key |-> CHOOSE k \in MemKeys : TRUE]]
  /\ memDay = 0
  /\ lastUsed = [k \in MemKeys |-> -1]

\* Mutant: the date is tomorrow's.
TouchedTomorrow(m) == [m EXCEPT !.accessed = memDay + 1]

Touched(m) == [m EXCEPT !.accessed = memDay]

\* INSERT ... ON CONFLICT DO UPDATE.
Remember(k) ==
  /\ \/ /\ \E m \in memories : m.key = k
        /\ memories' = {IF m.key = k THEN Touched(m) ELSE m : m \in memories}
        /\ UNCHANGED nextRow
     \/ /\ \A m \in memories : m.key # k
        /\ nextRow <= MaxMemories
        /\ memories' = memories \cup {NewRow(k)}
        /\ nextRow' = nextRow + 1
  /\ lastUsed' = [lastUsed EXCEPT ![k] = memDay]
  /\ UNCHANGED <<recalling, memDay>>

\* recall: the row is looked up by its key ...
RecallSelect(p, k) ==
  /\ recalling[p].id = 0
  /\ \E m \in memories : m.key = k /\ recalling' = [recalling EXCEPT ![p] = [id |-> m.id, key |-> k]]
  /\ UNCHANGED <<memories, nextRow, memDay, lastUsed>>

\* ... and touched and read again by its id, if it is still there.
RecallUpdate(p) ==
  /\ recalling[p].id # 0
  /\ memories' = {IF m.id = recalling[p].id THEN Touched(m) ELSE m : m \in memories}
  /\ lastUsed' = IF \E m \in memories : m.id = recalling[p].id
                 THEN [lastUsed EXCEPT ![recalling[p].key] = memDay] ELSE lastUsed
  /\ recalling' = [recalling EXCEPT ![p].id = 0]
  /\ UNCHANGED <<nextRow, memDay>>

ForgetKey(k) ==
  /\ memories' = {m \in memories : m.key # k}
  /\ lastUsed' = [lastUsed EXCEPT ![k] = -1]
  /\ UNCHANGED <<nextRow, recalling, memDay>>

Decay ==
  /\ memories' = {m \in memories : m.accessed >= memDay - KeepDays}
  /\ UNCHANGED <<nextRow, recalling, memDay, lastUsed>>

MemDay ==
  /\ memDay < MemDays
  /\ memDay' = memDay + 1
  /\ UNCHANGED <<memories, nextRow, recalling, lastUsed>>

MemNext ==
  \/ \E k \in MemKeys : Remember(k) \/ ForgetKey(k) \/ \E p \in MemProcs : RecallSelect(p, k)
  \/ \E p \in MemProcs : RecallUpdate(p)
  \/ Decay \/ MemDay

MemSpec == MemInit /\ [][MemNext]_memVars

-----------------------------------------------------------------------------
MemTypeOK ==
  /\ memories \subseteq [id : 1..(nextRow - 1), key : MemKeys, accessed : 0..memDay]
  /\ recalling \in [MemProcs -> [id : 0..(nextRow - 1), key : MemKeys]]
  /\ memDay \in 0..MemDays /\ nextRow \in 1..(MaxMemories + 1)
  /\ lastUsed \in [MemKeys -> -1..MemDays]

\* One row for each key, and a key of its own for each row.
OneRowPerKey == \A m, n \in memories : m.key = n.key \/ m.id = n.id => m = n

\* What was stored or recalled less than KeepDays ago is there, unless it was
\* forgotten on purpose, whatever decay and recall do in between.
UsedIsKept ==
  \A k \in MemKeys : lastUsed[k] # -1 /\ memDay - lastUsed[k] <= KeepDays
    => \E m \in memories : m.key = k /\ m.accessed >= lastUsed[k]

\* The row a recall touches is the one it looked up, although it may have been
\* deleted and another stored since (id AUTOINCREMENT, 54).
RecallsOwnRow ==
  \A p \in MemProcs, m \in memories : recalling[p].id = m.id => m.key = recalling[p].key

\* The rows stay the rows of their keys, with decay between the two steps of a
\* recall.
MemorySafe == OneRowPerKey /\ UsedIsKept /\ RecallsOwnRow
=============================================================================
