----------------------------- MODULE GateSlots -----------------------------
(***************************************************************************)
(* What msg_gateway/telegram/concurrency.py promises its callers, without  *)
(* locks, semaphores and counters: a job waits, runs while its chat and    *)
(* the gate have room, and is turned away only by a chat in which          *)
(* QueueOverflow jobs really wait.                                         *)
(***************************************************************************)
EXTENDS Integers, FiniteSets

CONSTANTS Jobs, Chats, MaxPerChat, MaxGlobal, QueueOverflow

VARIABLES
  chat,           \* the chat a job last asked for
  calls,          \* how often it has asked
  st              \* what it does

vars == <<chat, calls, st>>

St == {"out", "waiting", "running"}

Among(s, c) == {j \in Jobs : st[j] = s /\ chat[j] = c}
Running == {j \in Jobs : st[j] = "running"}

Asks(j, c) ==
  /\ st[j] = "out"
  /\ chat' = [chat EXCEPT ![j] = c]
  /\ calls' = [calls EXCEPT ![j] = @ + 1]

Init ==
  /\ chat \in [Jobs -> Chats]
  /\ calls = [j \in Jobs |-> 0]
  /\ st = [j \in Jobs |-> "out"]

Admit(j, c) == Asks(j, c) /\ st' = [st EXCEPT ![j] = "waiting"]

TurnAway(j, c) ==
  /\ Asks(j, c)
  /\ Cardinality(Among("waiting", c)) >= QueueOverflow
  /\ UNCHANGED st

Start(j) ==
  /\ st[j] = "waiting"
  /\ Cardinality(Among("running", chat[j])) < MaxPerChat
  /\ Cardinality(Running) < MaxGlobal
  /\ st' = [st EXCEPT ![j] = "running"]
  /\ UNCHANGED <<chat, calls>>

Finish(j) ==
  /\ st[j] = "running"
  /\ st' = [st EXCEPT ![j] = "out"]
  /\ UNCHANGED <<chat, calls>>

Next ==
  \E j \in Jobs :
    \/ \E c \in Chats : Admit(j, c) \/ TurnAway(j, c)
    \/ Start(j) \/ Finish(j)

Spec == Init /\ [][Next]_vars
=============================================================================
