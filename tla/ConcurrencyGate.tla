-------------------------- MODULE ConcurrencyGate --------------------------
(***************************************************************************)
(* msg_gateway/telegram/concurrency.py: at most MaxPerChat jobs of a chat  *)
(* and MaxGlobal jobs in all run at a time, and a chat with QueueOverflow  *)
(* jobs waiting is refused more.  A job calls try_acquire and, when its    *)
(* work is done, release; the poll thread, the voice threads and the       *)
(* attachment threads of the poller call it concurrently.                  *)
(*                                                                         *)
(* Each step is what one thread does under the gate's lock, or one         *)
(* operation of a semaphore.  threading.Semaphore does not serve its       *)
(* waiters in order: a released unit goes to any of them.                  *)
(***************************************************************************)
EXTENDS Integers, FiniteSets

CONSTANTS
  Jobs,           \* callers
  Chats,          \* chat ids
  MaxPerChat, MaxGlobal, QueueOverflow,
  MaxCalls        \* bound: calls of try_acquire by each job

ASSUME GateJobs == IsFiniteSet(Jobs)
ASSUME GateLimits == /\ MaxPerChat \in Nat /\ MaxGlobal \in Nat
                     /\ QueueOverflow \in Nat /\ MaxCalls \in Nat

VARIABLES
  chat,           \* the chat a job works for
  pc,             \* where the job is
  calls,          \* calls it has made
  known,          \* keys of _chat_sems
  queued,         \* _chat_queued
  chatSem,        \* values of the semaphores in _chat_sems
  globalSem,      \* value of _global_sem
  active          \* _active_count

vars == <<chat, pc, calls, known, queued, chatSem, globalSem, active>>

(* idle -> counted -> wait_chat -> wait_global -> entering -> active         *)
(*      -> leaving -> unlocked -> idle                                       *)
Points == {"idle", "counted", "wait_chat", "wait_global", "entering", "active",
           "leaving", "unlocked"}

Max0(x) == IF x < 0 THEN 0 ELSE x

Goto(j, from, to) == pc[j] = from /\ pc' = [pc EXCEPT ![j] = to]

Init ==
  /\ chat \in [Jobs -> Chats]
  /\ pc = [j \in Jobs |-> "idle"]
  /\ calls = [j \in Jobs |-> 0]
  /\ known = {}
  /\ queued = [c \in Chats |-> 0]
  /\ chatSem = [c \in Chats |-> MaxPerChat]
  /\ globalSem = MaxGlobal
  /\ active = 0

-----------------------------------------------------------------------------
(* try_acquire *)

\* The call is counted as waiting.
Call(j, c) ==
  /\ calls[j] < MaxCalls
  /\ Goto(j, "idle", "counted")
  /\ queued[c] < QueueOverflow
  /\ chat' = [chat EXCEPT ![j] = c]
  /\ calls' = [calls EXCEPT ![j] = @ + 1]
  /\ queued' = [queued EXCEPT ![c] = @ + 1]
  /\ UNCHANGED <<known, chatSem, globalSem, active>>

\* The queue is full: the call returns False.
Reject(j, c) ==
  /\ calls[j] < MaxCalls
  /\ pc[j] = "idle"
  /\ queued[c] >= QueueOverflow
  /\ chat' = [chat EXCEPT ![j] = c]
  /\ calls' = [calls EXCEPT ![j] = @ + 1]
  /\ UNCHANGED <<pc, known, queued, chatSem, globalSem, active>>

\* What _get_chat_sem and stats do to a chat: the first one creates the
\* semaphore and sets the count of waiting jobs to zero.
Touch(c) ==
  /\ known' = known \cup {c}
  /\ queued' = IF c \in known THEN queued ELSE [queued EXCEPT ![c] = 0]

GetChatSem(j) ==
  /\ Goto(j, "counted", "wait_chat")
  /\ Touch(chat[j])
  /\ UNCHANGED <<chat, calls, chatSem, globalSem, active>>

AcquireChat(j) ==
  /\ Goto(j, "wait_chat", "wait_global")
  /\ chatSem[chat[j]] > 0
  /\ chatSem' = [chatSem EXCEPT ![chat[j]] = @ - 1]
  /\ UNCHANGED <<chat, calls, known, queued, globalSem, active>>

AcquireGlobal(j) ==
  /\ Goto(j, "wait_global", "entering")
  /\ globalSem > 0
  /\ globalSem' = globalSem - 1
  /\ UNCHANGED <<chat, calls, known, queued, chatSem, active>>

\* Mutant: the job is still counted as waiting.
EnterKeepsCount(j) ==
  /\ Goto(j, "entering", "active")
  /\ active' = active + 1
  /\ UNCHANGED <<chat, calls, known, queued, chatSem, globalSem>>

\* Counted as running, no longer as waiting; try_acquire returns True.
Enter(j) ==
  /\ Goto(j, "entering", "active")
  /\ active' = active + 1
  /\ queued' = [queued EXCEPT ![chat[j]] = Max0(@ - 1)]
  /\ UNCHANGED <<chat, calls, known, chatSem, globalSem>>

-----------------------------------------------------------------------------
(* release *)

Leave(j) ==
  /\ Goto(j, "active", "leaving")
  /\ active' = Max0(active - 1)
  /\ UNCHANGED <<chat, calls, known, queued, chatSem, globalSem>>

ReleaseGlobal(j) ==
  /\ Goto(j, "leaving", "unlocked")
  /\ globalSem' = globalSem + 1
  /\ UNCHANGED <<chat, calls, known, queued, chatSem, active>>

\* Mutants: the chat's unit is not given back; it is given back twice.
ReleaseNothing(j) ==
  /\ Goto(j, "unlocked", "idle")
  /\ UNCHANGED <<chat, calls, known, queued, chatSem, globalSem, active>>

ReleaseTwice(j) ==
  /\ Goto(j, "unlocked", "idle")
  /\ chatSem' = [chatSem EXCEPT ![chat[j]] = @ + 2]
  /\ UNCHANGED <<chat, calls, known, queued, globalSem, active>>

ReleaseChat(j) ==
  /\ Goto(j, "unlocked", "idle")
  /\ Touch(chat[j])
  /\ chatSem' = [chatSem EXCEPT ![chat[j]] = @ + 1]
  /\ UNCHANGED <<chat, calls, globalSem, active>>

\* stats() of a chat, which may be the first to touch it.
Stats(c) ==
  /\ Touch(c)
  /\ UNCHANGED <<chat, pc, calls, chatSem, globalSem, active>>

-----------------------------------------------------------------------------
\* What a job does by itself once it has called.
Proceed(j) ==
  \/ GetChatSem(j) \/ AcquireChat(j) \/ AcquireGlobal(j) \/ Enter(j)
  \/ Leave(j) \/ ReleaseGlobal(j) \/ ReleaseChat(j)

Next ==
  \/ \E j \in Jobs : \E c \in Chats : Call(j, c) \/ Reject(j, c)
  \/ \E j \in Jobs : Proceed(j)
  \/ \E c \in Chats : Stats(c)

Spec == Init /\ [][Next]_vars

\* Threads are scheduled and a job's work ends.  Weak fairness only: a waiter
\* may be overtaken at a semaphore by later callers.
FairSpec == Spec /\ \A j \in Jobs : WF_vars(Proceed(j))

-----------------------------------------------------------------------------
(* Properties *)

TypeOK ==
  /\ chat \in [Jobs -> Chats]
  /\ pc \in [Jobs -> Points]
  /\ calls \in [Jobs -> 0 .. MaxCalls]
  /\ known \subseteq Chats
  /\ queued \in [Chats -> Nat]
  /\ chatSem \in [Chats -> Nat]
  /\ globalSem \in Nat
  /\ active \in Nat

At(P) == {j \in Jobs : pc[j] \in P}
Of(c) == {j \in Jobs : chat[j] = c}

ChatHolders(c) == Of(c) \cap At({"wait_global", "entering", "active", "leaving", "unlocked"})
GlobalHolders == At({"entering", "active", "leaving"})
Waiting(c) == Of(c) \cap At({"counted", "wait_chat", "wait_global", "entering"})

\* Every unit of a semaphore is either free or held by one job: none is lost
\* or made on any path through try_acquire and release.
UnitsConserved ==
  /\ globalSem + Cardinality(GlobalHolders) = MaxGlobal
  /\ \A c \in Chats : chatSem[c] + Cardinality(ChatHolders(c)) = MaxPerChat

\* "Maximum concurrent jobs per chat", "across all chats" (concurrency.py:27).
Limits ==
  /\ Cardinality(At({"active"})) <= MaxGlobal
  /\ \A c \in Chats : Cardinality(Of(c) \cap At({"active"})) <= MaxPerChat

\* The counter stats() reports is the number of jobs running; the floor at zero
\* never hides a second release.
ActiveExact == active = Cardinality(At({"active"}))

\* The count of waiting jobs may be too small, since the first touch of a chat
\* resets it, but is never too large: a chat whose jobs have all been served is
\* not refused.
QueuedAtMost == \A c \in Chats : queued[c] <= Cardinality(Waiting(c))

\* Job j has a next step that waits for nobody.
CanGoOn(j) ==
  \/ pc[j] \in {"counted", "entering", "active", "leaving", "unlocked"}
  \/ pc[j] = "wait_chat" /\ chatSem[chat[j]] > 0
  \/ pc[j] = "wait_global" /\ globalSem > 0

\* A job may wait for the global semaphore while it holds its chat's, yet whoever
\* waits waits for a job that can go on: in the end for one that holds a global
\* unit, and that one waits for nothing.  With a limit of zero everybody waits.
NobodyStuck ==
  MaxPerChat > 0 /\ MaxGlobal > 0 =>
    \A j \in Jobs :
      /\ pc[j] = "wait_global" => \E h \in {j} \cup GlobalHolders : CanGoOn(h)
      /\ pc[j] = "wait_chat" =>
           \E h \in {j} \cup ChatHolders(chat[j]) \cup GlobalHolders : CanGoOn(h)

\* The accounts of the gate are right at every point between its locks: units
\* are neither lost nor made, the limits are kept, no counter is too large, and
\* nobody waits for jobs that all wait themselves.
GateSafe ==
  TypeOK /\ UnitsConserved /\ Limits /\ ActiveExact /\ QueuedAtMost /\ NobodyStuck

\* Jobs of a chat that stand before its semaphore while no unit is free.
Blocked(c) == IF chatSem[c] = 0 THEN Of(c) \cap At({"wait_chat"}) ELSE {}

\* "Maximum queued jobs per chat before rejecting" (concurrency.py:29): no more
\* than QueueOverflow jobs are blocked for a slot of their chat.
QueueBounded == \A c \in Chats : Cardinality(Blocked(c)) <= QueueOverflow

\* Once admitted, a job gets its slots when the finitely many calls allowed
\* here have been made: no unit leaks and the two semaphores, taken in one
\* order, never block each other.
Served == \A j \in Jobs : (pc[j] = "counted") ~> (pc[j] = "active")

\* A job waits from the moment it is counted and runs from the return of
\* try_acquire to the call of release.
JobState(j) ==
  IF pc[j] \in {"counted", "wait_chat", "wait_global", "entering"} THEN "waiting"
  ELSE IF pc[j] = "active" THEN "running" ELSE "out"

Slots == INSTANCE GateSlots WITH st <- [j \in Jobs |-> JobState(j)]

\* To its callers the gate is the one of GateSlots, whatever its locks and counters
\* do: a job starts only within both limits, and is refused only by a chat that
\* really has QueueOverflow jobs waiting ("returns ... False if queue full",
\* concurrency.py:56).
ImplementsSlots == Slots!Spec
=============================================================================
