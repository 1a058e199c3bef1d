--------------------------- MODULE TelegramPoller ---------------------------
(***************************************************************************)
(* msg_gateway/telegram/poller.py in polling mode.  One thread fetches     *)
(* updates and routes them one by one; voice messages and attachments get  *)
(* a thread each; a text, or what such a thread has extracted, is put into *)
(* the chat's history, waits at the ConcurrencyGate, and is answered by a  *)
(* worker thread that gives the slot back.                                 *)
(*                                                                         *)
(* An update is a job of the gate and a thread of the history: one thread  *)
(* at a time works for it.  The server, Telegram, forgets the updates      *)
(* below the offset it is asked for, and only those.                       *)
(***************************************************************************)
EXTENDS ConcurrencyGate, Sequences

CONSTANTS
  MaxHistory,       \* _max_history
  MaxCrashes,       \* bound: deaths of the process
  MaxSpawnFailures  \* bound: threads that could not be started

ASSUME UpdateIds == Jobs = 1 .. Cardinality(Jobs)
ASSUME OneCall == MaxCalls = 1
ASSUME PollerBounds == MaxHistory \in Nat /\ MaxCrashes \in Nat /\ MaxSpawnFailures \in Nat

VARIABLES
  kind,             \* what an update is
  at,               \* how far an update has come in this process
  next, last,       \* the updates next .. last of the fetched batch are left
  offset,           \* _offset
  confirmed,        \* the server has forgotten the updates below
  loop,             \* TRUE while the poll thread lives
  taken,            \* history: how often an update was taken up
  sent,             \* history: whether this process told the chat anything about an update
  crashes,          \* history
  leaked,           \* history: updates whose slot no thread will give back
  memory, step, view, cleared     \* the history of SessionHistory

INSTANCE SessionHistory

pollVars == <<kind, at, next, last, offset, confirmed, loop, taken, sent, crashes, leaked>>
history == <<memory, step, view, cleared>>
progress == <<next, last, offset, confirmed, loop, taken, crashes>>
pollerVars == <<vars, pollVars, history>>

Kinds == {"text", "media", "reset", "look", "other"}

\* new -> (media) -> adding -> gate -> spawn -> worker -> answer -> record
\*     -> send -> release -> done
Stages == {"new", "media", "look", "adding", "gate", "spawn", "worker", "answer",
           "record", "send", "release", "done"}

Move(u, from, to) == at[u] = from /\ at' = [at EXCEPT ![u] = to]

\* What the chat hears of an update: a reply, an error or a refusal; or nothing at all
\* because an exception passed every handler of the thread.
Say(u, what) == sent' = [sent EXCEPT ![u] = what]

\* The poll thread is still inside _handle_update for u.
OnPollThread(u) ==
  \/ at[u] = "look"
  \/ kind[u] = "text" /\ at[u] \in {"adding", "gate", "spawn"}

Free == loop /\ \A u \in Jobs : ~ OnPollThread(u)

PollerInit ==
  /\ Init
  /\ HistoryInit
  /\ kind \in [Jobs -> Kinds]
  /\ at = [u \in Jobs |-> "new"]
  /\ next = 1 /\ last = 0
  /\ offset = 0
  /\ confirmed = 1
  /\ loop = TRUE
  /\ taken = [u \in Jobs |-> 0]
  /\ sent = [u \in Jobs |-> "nothing"]
  /\ crashes = 0
  /\ leaked = {}

-----------------------------------------------------------------------------
(* The poll thread *)

\* getUpdates: the server forgets what lies below the offset and sends some of
\* the rest; it sends nothing, or its answer is lost, when n is too small.
Fetch(n) ==
  LET first == IF offset > confirmed THEN offset ELSE confirmed
  IN  /\ Free /\ next > last
      /\ n \in first - 1 .. Cardinality(Jobs)
      /\ confirmed' = first
      /\ next' = first
      /\ last' = n
      /\ UNCHANGED <<vars, history, kind, at, offset, loop, taken, sent, crashes, leaked>>

\* What the poll thread runs into: an exception that start() catches drops the rest of
\* the batch, which is fetched again; any other one ends the loop for good.
PollRaises ==
  \/ last' = next' - 1 /\ UNCHANGED loop
  \/ loop' = FALSE /\ UNCHANGED last

FetchDies ==
  /\ Free /\ next > last
  /\ loop' = FALSE
  /\ UNCHANGED <<vars, history, kind, at, next, last, offset, confirmed, taken, sent, crashes, leaked>>

\* The offset is advanced before the update is handled.
Advance(u) ==
  /\ Free /\ u = next /\ next <= last
  /\ offset' = u + 1
  /\ taken' = [taken EXCEPT ![u] = @ + 1]
  /\ UNCHANGED <<vars, kind, confirmed, crashes>>

\* The rest of the batch stays.
Proceeds(u) == next' = u + 1 /\ UNCHANGED <<last, loop>>

TakeText(u) ==
  /\ kind[u] = "text" /\ Advance(u) /\ Proceeds(u)
  /\ at' = [at EXCEPT ![u] = "adding"]
  /\ UNCHANGED <<history, sent, leaked>>

TakeMedia(u) ==
  /\ kind[u] = "media" /\ Advance(u) /\ Proceeds(u)
  /\ at' = [at EXCEPT ![u] = "media"]
  /\ UNCHANGED <<history, sent, leaked>>

\* /reset
TakeReset(u) ==
  /\ kind[u] = "reset" /\ Advance(u) /\ Proceeds(u)
  /\ Clear(chat[u])
  /\ at' = [at EXCEPT ![u] = "done"]
  /\ Say(u, "told")
  /\ UNCHANGED leaked

\* /history and /status read the history.
TakeLook(u) ==
  /\ kind[u] = "look" /\ Advance(u) /\ Proceeds(u)
  /\ at' = [at EXCEPT ![u] = "look"]
  /\ UNCHANGED <<history, sent, leaked>>

\* Callbacks, triggers, other commands, chats that are not allowed.
TakeOther(u) ==
  /\ kind[u] = "other" /\ Advance(u) /\ Proceeds(u)
  /\ at' = [at EXCEPT ![u] = "done"]
  /\ UNCHANGED <<history, sent, leaked>>

\* The handler raises: a request to Telegram, a trigger, the start of a thread.
TakeRaises(u) ==
  /\ Advance(u)
  /\ next' = u + 1 /\ PollRaises
  /\ at' = [at EXCEPT ![u] = "done"]
  /\ UNCHANGED history \/ (kind[u] = "reset" /\ Clear(chat[u]))
  /\ UNCHANGED <<sent, leaked>>

Take(u) ==
  \/ TakeText(u) \/ TakeMedia(u) \/ TakeReset(u)
  \/ TakeLook(u) \/ TakeOther(u) \/ TakeRaises(u)

\* A message that thread u sends outside a handler: on the poll thread an exception
\* leaves the update, any other thread just ends.
Tell(u) ==
  \/ Say(u, "told") /\ UNCHANGED progress
  \/ /\ Say(u, "silence")
     /\ IF OnPollThread(u) THEN UNCHANGED <<next, offset, confirmed, taken, crashes>> /\ PollRaises
        ELSE UNCHANGED progress

Look(u) ==
  /\ at[u] = "look"
  /\ \/ GetRead(u, chat[u]) /\ UNCHANGED <<at, sent, progress>>
     \/ Store(u, chat[u]) /\ Move(u, "look", "done") /\ Tell(u)
  /\ UNCHANGED <<vars, kind, leaked>>

-----------------------------------------------------------------------------
(* A voice or attachment thread *)

\* Something was extracted, or the chat is told that it was not, or the thread
\* dies of an exception nobody catches.
Extract(u) ==
  /\ \/ Move(u, "media", "adding") /\ UNCHANGED sent
     \/ Move(u, "media", "done") /\ (Say(u, "told") \/ UNCHANGED sent)
  /\ UNCHANGED <<vars, kind, progress, leaked, history>>

-----------------------------------------------------------------------------
(* _route_conversation, on the poll thread or on a media thread *)

\* One step of session.add by u, which is done when it is out again.
AddStep(u, role) ==
  \/ AddLook(u, chat[u]) \/ AddCreate(u, chat[u]) \/ AddAppend(u, chat[u], role)
  \/ AddTrim(u, chat[u]) \/ Store(u, chat[u])

\* The user's entry; its add raises when a /reset comes between, which only a
\* media thread can meet: the poll thread runs /reset itself.
AddUser(u) ==
  /\ at[u] = "adding"
  /\ \/ /\ AddStep(u, "user")
        /\ at' = [at EXCEPT ![u] = IF step'[u] = "out" THEN "gate" ELSE @]
     \/ /\ AddRaises(u, chat[u])
        /\ at' = [at EXCEPT ![u] = "done"]
  /\ UNCHANGED <<vars, kind, progress, sent, leaked>>

\* try_acquire blocks the thread that calls it.
TryAcquire(u) ==
  /\ at[u] = "gate"
  /\ \/ /\ pc[u] = "idle" /\ Call(u, chat[u])
        /\ UNCHANGED <<at, sent, progress>>
     \/ /\ GetChatSem(u) \/ AcquireChat(u) \/ AcquireGlobal(u)
        /\ UNCHANGED <<at, sent, progress>>
     \/ /\ Enter(u)
        /\ at' = [at EXCEPT ![u] = "spawn"] /\ UNCHANGED <<sent, progress>>
     \/ /\ Reject(u, chat[u])
        /\ at' = [at EXCEPT ![u] = "done"] /\ Tell(u)
  /\ UNCHANGED <<kind, leaked, history>>

\* Mutant: the slot is given back by nobody although the thread runs.
SpawnForgets(u) ==
  /\ Move(u, "spawn", "done")
  /\ UNCHANGED <<vars, kind, progress, sent, leaked, history>>

SpawnWorker(u) ==
  /\ Move(u, "spawn", "worker")
  /\ UNCHANGED <<vars, kind, progress, sent, leaked, history>>

\* "can't start new thread" (RuntimeError): the slot stays taken.  On the poll
\* thread nothing catches it; an attachment's thread tells the chat.
SpawnFails(u) ==
  /\ Cardinality(leaked) < MaxSpawnFailures
  /\ Move(u, "spawn", "done")
  /\ loop' = (kind[u] # "text" /\ loop)
  /\ leaked' = leaked \cup {u}
  /\ UNCHANGED sent \/ (kind[u] = "media" /\ Say(u, "told"))
  /\ UNCHANGED <<vars, kind, next, last, offset, confirmed, taken, crashes, history>>

-----------------------------------------------------------------------------
(* _conversation_worker *)

\* Chat mode reads the history for the prompt, skill mode does not.
ReadContext(u) ==
  /\ at[u] = "worker"
  /\ \/ GetRead(u, chat[u]) /\ UNCHANGED at
     \/ Store(u, chat[u]) /\ at' = [at EXCEPT ![u] = "answer"]
     \/ /\ InStep(u, "out") /\ UNCHANGED history
        /\ at' = [at EXCEPT ![u] = "answer"]
  /\ UNCHANGED <<vars, kind, progress, sent, leaked>>

\* The provider answers, or what it raises is made the answer.
Answer(u) ==
  /\ Move(u, "answer", "record")
  /\ UNCHANGED <<vars, kind, progress, sent, leaked, history>>

\* Something raises on the way: the chat is told of the error; or it is of a kind the
\* worker does not catch, or the message about it raises in its turn.
WorkerRaises(u) ==
  /\ at[u] \in {"worker", "answer", "send"} /\ InStep(u, "out")
  /\ at' = [at EXCEPT ![u] = "release"]
  /\ \E what \in {"told", "silence"} : Say(u, what)
  /\ UNCHANGED <<vars, kind, progress, leaked, history>>

\* The assistant's entry.  A /reset in between raises KeyError, which the worker
\* does not catch: nothing is sent.
Record(u) ==
  /\ at[u] = "record"
  /\ \/ /\ AddStep(u, "assistant")
        /\ at' = [at EXCEPT ![u] = IF step'[u] = "out" THEN "send" ELSE @]
     \/ /\ AddRaises(u, chat[u])
        /\ at' = [at EXCEPT ![u] = "release"]
  /\ UNCHANGED <<vars, kind, progress, sent, leaked>>

Send(u) ==
  /\ Move(u, "send", "release")
  /\ Say(u, "told")
  /\ UNCHANGED <<vars, kind, progress, leaked, history>>

\* finally: release
GiveBack(u) ==
  /\ at[u] = "release"
  /\ \/ (Leave(u) \/ ReleaseGlobal(u)) /\ UNCHANGED at
     \/ ReleaseChat(u) /\ at' = [at EXCEPT ![u] = "done"]
  /\ UNCHANGED <<kind, progress, sent, leaked, history>>

-----------------------------------------------------------------------------
\* The process dies and is started again: the offset is 0, all threads, the
\* history and the slots are gone, and so are the answers not yet given.
Crash ==
  /\ crashes < MaxCrashes
  /\ crashes' = crashes + 1
  /\ pc' = [u \in Jobs |-> "idle"] /\ calls' = [u \in Jobs |-> 0]
  /\ known' = {} /\ queued' = [c \in Chats |-> 0]
  /\ chatSem' = [c \in Chats |-> MaxPerChat] /\ globalSem' = MaxGlobal /\ active' = 0
  /\ memory' = [c \in {} |-> <<>>]
  /\ step' = [u \in Jobs |-> "out"] /\ view' = [u \in Jobs |-> <<>>] /\ cleared' = {}
  /\ at' = [u \in Jobs |-> IF u < confirmed THEN "done" ELSE "new"]
  /\ next' = 1 /\ last' = 0 /\ offset' = 0
  /\ loop' = TRUE /\ leaked' = {} /\ sent' = [u \in Jobs |-> "nothing"]
  /\ UNCHANGED <<chat, kind, confirmed, taken>>

\* What the thread that works for u does next.
Thread(u) ==
  \/ Look(u) \/ Extract(u) \/ AddUser(u) \/ TryAcquire(u) \/ SpawnWorker(u) \/ SpawnFails(u)
  \/ ReadContext(u) \/ Answer(u) \/ Record(u) \/ Send(u) \/ WorkerRaises(u) \/ GiveBack(u)

PollThread ==
  (\E n \in 0 .. Cardinality(Jobs) : Fetch(n)) \/ FetchDies \/ (\E u \in Jobs : Take(u))

PollerNext == PollThread \/ (\E u \in Jobs : Thread(u)) \/ Crash

PollerSpec == PollerInit /\ [][PollerNext]_pollerVars

\* Threads are scheduled and what they wait for ends.  A server that has updates
\* sends the next one sooner or later.
PollerFairness ==
  /\ \A u \in Jobs : WF_pollerVars(Thread(u)) /\ WF_pollerVars(Take(u))
  /\ WF_pollerVars(\E n \in 0 .. Cardinality(Jobs) : Fetch(n) /\ next' <= last')

\* The names of the chats are interchangeable, so a run takes the first update to
\* come from one of them.
NamedInit == PollerInit /\ chat[1] = CHOOSE c \in Chats : TRUE
PollerRunSpec == NamedInit /\ [][PollerNext]_pollerVars /\ PollerFairness

-----------------------------------------------------------------------------
(* Properties *)

PollerTypeOK ==
  /\ TypeOK /\ HistoryTypeOK
  /\ kind \in [Jobs -> Kinds] /\ at \in [Jobs -> Stages]
  /\ next \in Nat /\ last \in Nat /\ offset \in Nat /\ confirmed \in Nat
  /\ loop \in BOOLEAN /\ taken \in [Jobs -> Nat] /\ crashes \in Nat
  /\ sent \in [Jobs -> {"nothing", "told", "silence"}]
  /\ leaked \subseteq Jobs

\* How far an update has come tells where its thread is at the gate; a thread that
\* could not be started leaves its caller's slot taken.
GateStage(u) ==
  /\ at[u] \in {"new", "media", "look", "adding"} => pc[u] = "idle" /\ calls[u] = 0
  /\ at[u] = "gate" => \/ pc[u] = "idle" /\ calls[u] = 0
                       \/ pc[u] \in {"counted", "wait_chat", "wait_global", "entering"} /\ calls[u] = 1
  /\ at[u] \in {"spawn", "worker", "answer", "record", "send"} => pc[u] = "active" /\ calls[u] = 1
  /\ at[u] = "release" => pc[u] \in {"active", "leaving", "unlocked"} /\ calls[u] = 1
  /\ at[u] = "done" => pc[u] = IF u \in leaked THEN "active" ELSE "idle"
  /\ u \in leaked => at[u] = "done"

\* Below both offsets every update was taken up, above them none was by this process.
Offsets ==
  /\ confirmed >= 1 /\ next >= 1
  /\ next <= last =>
       /\ next >= offset /\ next >= confirmed
       /\ \A u \in Jobs : u < next => taken[u] >= 1
  /\ \A u \in Jobs : /\ u < offset => taken[u] >= 1
                     /\ u >= offset /\ u >= confirmed => at[u] = "new"
                     /\ at[u] = "new" => taken[u] <= crashes

\* Only /reset takes a chat's list away, from under an add or an answer of it.
ResetRan(c) == \E r \in Jobs : kind[r] = "reset" /\ chat[r] = c /\ taken[r] > 0
ListStage(u) ==
  /\ step[u] \in {"append", "trim"} => chat[u] \in Listed \/ ResetRan(chat[u])
  /\ at[u] = "release" /\ sent[u] = "nothing" => ResetRan(chat[u])

\* The poll thread is inside one update at a time, and only texts and what a media
\* thread extracted go through the gate.
OnePollThread == \A u, v \in Jobs : OnPollThread(u) /\ OnPollThread(v) => u = v
KindStage(u) ==
  /\ at[u] = "media" => kind[u] = "media"
  /\ at[u] \in {"adding", "gate"} => kind[u] \in {"text", "media"}

\* What the server forgets was taken up, and an update is taken up a second
\* time only by a new process: an exception half-way through a batch neither
\* loses nor repeats the others.
Delivery ==
  \A u \in Jobs : /\ u < confirmed => taken[u] >= 1
                  /\ taken[u] <= 1 + crashes

\* Slots are held for the threads that work on a conversation and for those
\* that could not be started, and for nothing else.
SlotsAccounted ==
  \A u \in Jobs :
    pc[u] \in {"active", "leaving", "unlocked"}
      <=> u \in leaked \/ at[u] \in {"spawn", "worker", "answer", "record", "send", "release"}

\* The poll thread waits at the gate itself, so a text that would be turned away
\* finds the queue full of voice messages and attachments of its chat.
TextsWait ==
  \A u \in Jobs :
    kind[u] = "text" /\ at[u] = "gate" /\ pc[u] = "idle" /\ queued[chat[u]] >= QueueOverflow
      => Cardinality({v \in Waiting(chat[u]) : kind[v] = "media"}) >= QueueOverflow

\* All units of the chat, or all there are, belong to threads that never started.
Starved(c) == Cardinality(leaked \cap Of(c)) = MaxPerChat \/ Cardinality(leaked) = MaxGlobal

\* Whoever waits at the gate waits for a thread that lives and can go on; a chat is
\* shut for good only when every slot of its own, or every slot there is, has leaked.
WaitsForTheLiving ==
  \A u \in Jobs :
    at[u] = "gate" /\ pc[u] # "idle"
      => Starved(chat[u]) \/ \E v \in Jobs \ leaked : CanGoOn(v)

\* A worker that is done has told the chat something, unless a /reset of the
\* chat ran while it recorded the answer, or an exception went past its handler:
\* nothing else makes a worker end without a word.
Answered ==
  \A u \in Jobs :
    (at[u] = "done" /\ calls[u] = 1 /\ u \notin leaked /\ sent[u] = "nothing")
      => ResetRan(chat[u])

\* Without the exceptions, which the code does not keep: a worker never leaves the
\* chat without a word.
NeverSilent ==
  \A u \in Jobs : at[u] = "done" /\ calls[u] = 1 /\ u \notin leaked => sent[u] = "told"

\* What the poll thread, the workers and the gate keep together: updates are
\* delivered, slots belong to a thread, workers answer or raise, a text is not
\* turned away for other texts, and nobody waits for the dead alone while a slot
\* of his chat has not leaked.
PollerSafe ==
  /\ PollerTypeOK /\ Offsets /\ OnePollThread
  /\ \A u \in Jobs : GateStage(u) /\ ListStage(u) /\ KindStage(u)
  /\ Delivery /\ SlotsAccounted /\ Answered /\ TextsWait /\ WaitsForTheLiving

\* One chat may hold up the poll thread, but not for ever: as long as all
\* threads can be started, every update is taken up and comes to its end.
AllHandled == <>[](loop /\ leaked = {}) => \A u \in Jobs : <>[](at[u] = "done")
=============================================================================
