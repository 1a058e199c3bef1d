--------------------------- MODULE SessionHistory ---------------------------
(***************************************************************************)
(* msg_gateway/telegram/session.py without Redis: _memory holds a list of  *)
(* entries per chat.  The poll thread, the voice and attachment threads    *)
(* and the conversation workers call add, get and clear on it without a    *)
(* lock, so each access to _memory is a step of its own.  A list that is   *)
(* read, cut and written back later is kept in view meanwhile.             *)
(***************************************************************************)
EXTENDS Naturals, Sequences, FiniteSets, SequencesExt

CONSTANTS
  Jobs,           \* threads, named by the update they work for
  Chats,
  MaxHistory      \* _max_history

VARIABLES
  memory,         \* _memory: chat -> entries, for the chats that have a list
  step,           \* where a thread is inside add or get
  view,           \* the list a thread has cut and not written back
  cleared         \* history: the entries /reset has removed

historyVars == <<memory, step, view, cleared>>

Roles == {"user", "assistant"}
Entry == [job : Jobs, role : Roles]

Listed == DOMAIN memory
Entries(c) == IF c \in Listed THEN memory[c] ELSE <<>>

SetList(c, list) ==
  memory' = [x \in Listed \cup {c} |-> IF x = c THEN list ELSE memory[x]]

InStep(j, s) == step[j] = s
Step(j, from, to) == InStep(j, from) /\ step' = [step EXCEPT ![j] = to]

HistoryInit ==
  /\ memory = [c \in {} |-> <<>>]
  /\ step = [j \in Jobs |-> "out"]
  /\ view = [j \in Jobs |-> <<>>]
  /\ cleared = {}

-----------------------------------------------------------------------------
(* add *)

\* Is there a list for the chat?
AddLook(j, c) ==
  /\ Step(j, "out", IF c \in Listed THEN "append" ELSE "create")
  /\ UNCHANGED <<memory, view, cleared>>

AddCreate(j, c) ==
  /\ Step(j, "create", "append")
  /\ SetList(c, <<>>)
  /\ UNCHANGED <<view, cleared>>

AddAppend(j, c, role) ==
  /\ Step(j, "append", "trim")
  /\ c \in Listed
  /\ SetList(c, Append(memory[c], [job |-> j, role |-> role]))
  /\ UNCHANGED <<view, cleared>>

Window(list) == SubSeq(list, Len(list) - MaxHistory + 1, Len(list))

\* A list that is too long is cut; add is done otherwise.
AddTrim(j, c) ==
  /\ InStep(j, "trim")
  /\ c \in Listed
  /\ IF Len(memory[c]) > MaxHistory
     THEN /\ Step(j, "trim", "store")
          /\ view' = [view EXCEPT ![j] = Window(memory[c])]
     ELSE /\ Step(j, "trim", "out")
          /\ UNCHANGED view
  /\ UNCHANGED <<memory, cleared>>

\* /reset has removed the list in between: KeyError.
AddRaises(j, c) ==
  /\ step[j] \in {"append", "trim"}
  /\ c \notin Listed
  /\ step' = [step EXCEPT ![j] = "out"]
  /\ UNCHANGED <<memory, view, cleared>>

\* add and get write back the list they have cut.
Store(j, c) ==
  /\ step[j] \in {"store", "got"}
  /\ step' = [step EXCEPT ![j] = "out"]
  /\ SetList(c, view[j])
  /\ view' = [view EXCEPT ![j] = <<>>]
  /\ UNCHANGED cleared

-----------------------------------------------------------------------------
(* get and clear *)

\* get drops the expired entries, the oldest ones.
GetRead(j, c) ==
  /\ Step(j, "out", "got")
  /\ \E n \in 0 .. Len(Entries(c)) :
       view' = [view EXCEPT ![j] = SubSeq(Entries(c), n + 1, Len(Entries(c)))]
  /\ UNCHANGED <<memory, cleared>>

Clear(c) ==
  /\ memory' = [x \in Listed \ {c} |-> memory[x]]
  /\ cleared' = cleared \cup ToSet(Entries(c))
  /\ UNCHANGED <<step, view>>

-----------------------------------------------------------------------------
(* Properties *)

HistoryTypeOK ==
  /\ Listed \subseteq Chats
  /\ memory \in [Listed -> Seq(Entry)]
  /\ step \in [Jobs -> {"out", "create", "append", "trim", "store", "got"}]
  /\ view \in [Jobs -> Seq(Entry)]
  /\ cleared \subseteq Entry

\* The window: a list is longer than MaxHistory by no more than the additions
\* that have not come to cutting it, although lists cut by several threads
\* overwrite each other.
WindowKept ==
  \A c \in Listed :
    Len(memory[c]) <= MaxHistory + Cardinality({j \in Jobs : step[j] \in {"trim", "store"}})

\* Cut lists that overwrite newer ones may lose entries, but never repeat or
\* reorder them: what a prompt shows of a conversation has every entry once
\* and no answer before its question.
Conversation(list) ==
  \A a, b \in DOMAIN list :
    a < b => /\ list[a] # list[b]
             /\ ~ (list[a].job = list[b].job /\ list[a].role = "assistant")

HistoryInOrder == /\ \A c \in Listed : Conversation(memory[c])
                  /\ \A j \in Jobs : Conversation(view[j])

\* "Conversation history cleared." (commands.py:254): what /reset removed does
\* not come back.
ResetHolds == \A c \in Listed : ToSet(memory[c]) \cap cleared = {}
=============================================================================
