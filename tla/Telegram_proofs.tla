-------------------------- MODULE Telegram_proofs ---------------------------
(***************************************************************************)
(* The gate and the poller, for any number of updates, chats, slots,       *)
(* workers and deaths of the process.                                      *)
(*                                                                         *)
(* The gate comes first: its units are conserved, nobody is stuck in it,   *)
(* and it implements GateSlots.  Then every step of the poller is a step   *)
(* of the gate its jobs run through or leaves the gate alone, no update is *)
(* lost or taken up twice by a process, and slots are held by the threads  *)
(* that work for a chat and by nothing else.                               *)
(***************************************************************************)
EXTENDS TelegramPoller, FiniteSetTheorems, SequenceTheorems, TLAPS

-----------------------------------------------------------------------------
(* ConcurrencyGate *)

\* Sets of jobs are finite, and one job changes their size by one.
LEMMA JobSets ==
  \A S \in SUBSET Jobs :
     /\ IsFiniteSet(S) /\ Cardinality(S) \in Nat
     /\ \A j \in Jobs \ S : Cardinality(S \cup {j}) = Cardinality(S) + 1
     /\ \A j \in S : Cardinality(S \ {j}) = Cardinality(S) - 1
<1> SUFFICES ASSUME NEW S \in SUBSET Jobs
             PROVE  /\ IsFiniteSet(S) /\ Cardinality(S) \in Nat
                    /\ \A j \in Jobs \ S : Cardinality(S \cup {j}) = Cardinality(S) + 1
                    /\ \A j \in S : Cardinality(S \ {j}) = Cardinality(S) - 1
  OBVIOUS
<1>1. IsFiniteSet(S)
  BY GateJobs, FS_Subset
<1> QED BY <1>1, FS_CardinalityType, FS_AddElement, FS_RemoveElement

\* Jobs that run hold a unit of both semaphores.
LEMMA LimitsFromUnits == TypeOK /\ UnitsConserved => Limits
<1> SUFFICES ASSUME TypeOK, UnitsConserved PROVE Limits
  OBVIOUS
<1>1. Cardinality(At({"active"})) <= Cardinality(GlobalHolders)
  <2>1. At({"active"}) \subseteq GlobalHolders /\ GlobalHolders \in SUBSET Jobs
    BY DEF At, GlobalHolders
  <2> QED BY <2>1, JobSets, FS_Subset
<1>2. ASSUME NEW c \in Chats
      PROVE  Cardinality(Of(c) \cap At({"active"})) <= Cardinality(ChatHolders(c))
  <2>1. Of(c) \cap At({"active"}) \subseteq ChatHolders(c) /\ ChatHolders(c) \in SUBSET Jobs
    BY DEF At, Of, ChatHolders
  <2> QED BY <2>1, JobSets, FS_Subset
<1>3. \A S \in SUBSET Jobs : Cardinality(S) \in Nat
  BY JobSets
<1>4. GlobalHolders \in SUBSET Jobs /\ At({"active"}) \in SUBSET Jobs
      /\ \A c \in Chats : ChatHolders(c) \in SUBSET Jobs
                          /\ Of(c) \cap At({"active"}) \in SUBSET Jobs
  BY DEF At, Of, GlobalHolders, ChatHolders
<1>5. Cardinality(At({"active"})) <= MaxGlobal
  BY <1>1, <1>3, <1>4, GateLimits DEF UnitsConserved, TypeOK
<1>6. ASSUME NEW c \in Chats PROVE Cardinality(Of(c) \cap At({"active"})) <= MaxPerChat
  <2>1. chatSem[c] \in Nat /\ chatSem[c] + Cardinality(ChatHolders(c)) = MaxPerChat
    BY DEF UnitsConserved, TypeOK
  <2> QED BY <1>2, <1>3, <1>4, <2>1, GateLimits
<1> QED BY <1>5, <1>6 DEF Limits

\* A semaphore without a free unit is held by somebody, and a holder of a global
\* unit can always go on.
LEMMA NobodyStuckFromUnits == TypeOK /\ UnitsConserved => NobodyStuck
<1> SUFFICES ASSUME TypeOK, UnitsConserved, MaxPerChat > 0, MaxGlobal > 0, NEW j \in Jobs
             PROVE  /\ pc[j] = "wait_global" => \E h \in {j} \cup GlobalHolders : CanGoOn(h)
                    /\ pc[j] = "wait_chat" =>
                         \E h \in {j} \cup ChatHolders(chat[j]) \cup GlobalHolders : CanGoOn(h)
  BY DEF NobodyStuck
<1>1. \A h \in GlobalHolders : CanGoOn(h)
  BY DEF GlobalHolders, At, CanGoOn
<1>2. globalSem = 0 => GlobalHolders # {}
  BY FS_EmptySet, GateLimits DEF UnitsConserved
<1>3. globalSem > 0 \/ \E h \in GlobalHolders : CanGoOn(h)
  BY <1>1, <1>2 DEF TypeOK
<1>4. chatSem[chat[j]] = 0 => ChatHolders(chat[j]) # {}
  <2>1. chat[j] \in Chats
    BY DEF TypeOK
  <2>2. chatSem[chat[j]] + Cardinality(ChatHolders(chat[j])) = MaxPerChat
    BY <2>1 DEF UnitsConserved
  <2> QED BY <2>2, FS_EmptySet, GateLimits
<1>5. \A h \in ChatHolders(chat[j]) : CanGoOn(h) \/ pc[h] = "wait_global"
  BY DEF ChatHolders, Of, At, CanGoOn
<1>6. ASSUME pc[j] = "wait_global" PROVE \E h \in {j} \cup GlobalHolders : CanGoOn(h)
  BY <1>3, <1>6 DEF CanGoOn
<1>7. ASSUME pc[j] = "wait_chat"
      PROVE  \E h \in {j} \cup ChatHolders(chat[j]) \cup GlobalHolders : CanGoOn(h)
  <2>1. CASE chatSem[chat[j]] > 0
    BY <1>7, <2>1 DEF CanGoOn
  <2>2. CASE chatSem[chat[j]] = 0
    <3>1. PICK h \in ChatHolders(chat[j]) : TRUE
      BY <1>4, <2>2
    <3>2. CanGoOn(h) \/ \E g \in GlobalHolders : CanGoOn(g)
      BY <1>3, <1>5 DEF CanGoOn
    <3> QED BY <3>2
  <2> QED BY <2>1, <2>2 DEF TypeOK
<1> QED BY <1>6, <1>7

-----------------------------------------------------------------------------
\* Every step keeps the types.
LEMMA TypeStep == TypeOK /\ [Next]_vars => TypeOK'
<1> SUFFICES ASSUME TypeOK, [Next]_vars PROVE TypeOK'
  OBVIOUS
<1> USE GateLimits DEF TypeOK, Goto, Points
<1>1. ASSUME NEW j \in Jobs, NEW c \in Chats, Call(j, c) \/ Reject(j, c) PROVE TypeOK'
  BY <1>1 DEF Call, Reject
<1>2. ASSUME NEW j \in Jobs, Proceed(j) PROVE TypeOK'
  <2>1. CASE GetChatSem(j) BY <2>1 DEF GetChatSem, Touch
  <2>2. CASE AcquireChat(j) BY <2>2 DEF AcquireChat
  <2>3. CASE AcquireGlobal(j) BY <2>3 DEF AcquireGlobal
  <2>4. CASE Enter(j)
    BY <2>4 DEF Enter, Max0
  <2>5. CASE Leave(j) BY <2>5 DEF Leave, Max0
  <2>6. CASE ReleaseGlobal(j) BY <2>6 DEF ReleaseGlobal
  <2>7. CASE ReleaseChat(j) BY <2>7 DEF ReleaseChat, Touch
  <2> QED BY <1>2, <2>1, <2>2, <2>3, <2>4, <2>5, <2>6, <2>7 DEF Proceed
<1>3. ASSUME NEW c \in Chats, Stats(c) PROVE TypeOK'
  BY <1>3 DEF Stats, Touch
<1>4. CASE UNCHANGED vars
  BY <1>4 DEF vars
<1> QED BY <1>1, <1>2, <1>3, <1>4 DEF Next

\* A step of one job changes the sets below by that job at most.
LEMMA UnitsStep == TypeOK /\ UnitsConserved /\ [Next]_vars => UnitsConserved'
<1> SUFFICES ASSUME TypeOK, UnitsConserved, [Next]_vars PROVE UnitsConserved'
  OBVIOUS
<1> USE DEF Goto
<1>t. chat \in [Jobs -> Chats] /\ pc \in [Jobs -> Points] /\ globalSem \in Nat
      /\ chatSem \in [Chats -> Nat]
  BY DEF TypeOK
<1>g. GlobalHolders \in SUBSET Jobs /\ \A c \in Chats : ChatHolders(c) \in SUBSET Jobs
  BY DEF GlobalHolders, ChatHolders, At, Of
<1>n. /\ Cardinality(GlobalHolders) \in Nat
      /\ \A c \in Chats : Cardinality(ChatHolders(c)) \in Nat
  BY <1>g, JobSets
<1>s. ASSUME GlobalHolders' = GlobalHolders, \A c \in Chats : ChatHolders(c)' = ChatHolders(c),
             globalSem' = globalSem, chatSem' = chatSem
      PROVE  UnitsConserved'
  BY <1>s DEF UnitsConserved
<1>1. ASSUME NEW j \in Jobs, NEW c \in Chats, Call(j, c) \/ Reject(j, c) PROVE UnitsConserved'
  <2>1. GlobalHolders' = GlobalHolders
    BY <1>1, <1>t DEF Call, Reject, GlobalHolders, At
  <2>2. \A d \in Chats : ChatHolders(d)' = ChatHolders(d)
    BY <1>1, <1>t DEF Call, Reject, ChatHolders, At, Of
  <2> QED BY <1>1, <1>s, <2>1, <2>2 DEF Call, Reject
<1>2. ASSUME NEW j \in Jobs, GetChatSem(j) \/ Enter(j) \/ Leave(j) PROVE UnitsConserved'
  <2>1. GlobalHolders' = GlobalHolders
    BY <1>2, <1>t DEF GetChatSem, Enter, Leave, GlobalHolders, At
  <2>2. \A d \in Chats : ChatHolders(d)' = ChatHolders(d)
    BY <1>2, <1>t DEF GetChatSem, Enter, Leave, ChatHolders, At, Of
  <2> QED BY <1>2, <1>s, <2>1, <2>2 DEF GetChatSem, Enter, Leave
<1>3. ASSUME NEW j \in Jobs, AcquireChat(j) PROVE UnitsConserved'
  <2> USE <1>3 DEF AcquireChat
  <2>1. GlobalHolders' = GlobalHolders
    BY <1>t DEF GlobalHolders, At
  <2>2. \A d \in Chats : d # chat[j] => ChatHolders(d)' = ChatHolders(d)
    BY <1>t DEF ChatHolders, At, Of
  <2>3. ChatHolders(chat[j])' = ChatHolders(chat[j]) \cup {j} /\ j \notin ChatHolders(chat[j])
    BY <1>t DEF ChatHolders, At, Of
  <2>4. Cardinality(ChatHolders(chat[j])') = Cardinality(ChatHolders(chat[j])) + 1
    BY <1>g, <1>t, <2>3, JobSets
  <2>5. \A d \in Chats : chatSem'[d] + Cardinality(ChatHolders(d)') = MaxPerChat
    BY <1>t, <1>n, <2>2, <2>4, GateLimits DEF UnitsConserved
  <2> QED BY <2>1, <2>5 DEF UnitsConserved
<1>4. ASSUME NEW j \in Jobs, AcquireGlobal(j) PROVE UnitsConserved'
  <2> USE <1>4 DEF AcquireGlobal
  <2>1. GlobalHolders' = GlobalHolders \cup {j} /\ j \notin GlobalHolders
    BY <1>t DEF GlobalHolders, At
  <2>2. \A d \in Chats : ChatHolders(d)' = ChatHolders(d)
    BY <1>t DEF ChatHolders, At, Of
  <2>3. Cardinality(GlobalHolders') = Cardinality(GlobalHolders) + 1
    BY <1>g, <2>1, JobSets
  <2> QED BY <1>t, <1>n, <2>2, <2>3, GateLimits DEF UnitsConserved
<1>5. ASSUME NEW j \in Jobs, ReleaseGlobal(j) PROVE UnitsConserved'
  <2> USE <1>5 DEF ReleaseGlobal
  <2>1. GlobalHolders' = GlobalHolders \ {j} /\ j \in GlobalHolders
    BY <1>t DEF GlobalHolders, At
  <2>2. \A d \in Chats : ChatHolders(d)' = ChatHolders(d)
    BY <1>t DEF ChatHolders, At, Of
  <2>3. Cardinality(GlobalHolders') = Cardinality(GlobalHolders) - 1
    BY <1>g, <2>1, JobSets
  <2> QED BY <1>t, <1>n, <2>2, <2>3, GateLimits DEF UnitsConserved
<1>6. ASSUME NEW j \in Jobs, ReleaseChat(j) PROVE UnitsConserved'
  <2> USE <1>6 DEF ReleaseChat
  <2>1. GlobalHolders' = GlobalHolders
    BY <1>t DEF GlobalHolders, At
  <2>2. \A d \in Chats : d # chat[j] => ChatHolders(d)' = ChatHolders(d)
    BY <1>t DEF ChatHolders, At, Of
  <2>3. ChatHolders(chat[j])' = ChatHolders(chat[j]) \ {j} /\ j \in ChatHolders(chat[j])
    BY <1>t DEF ChatHolders, At, Of
  <2>4. Cardinality(ChatHolders(chat[j])') = Cardinality(ChatHolders(chat[j])) - 1
    BY <1>g, <1>t, <2>3, JobSets
  <2>5. \A d \in Chats : chatSem'[d] + Cardinality(ChatHolders(d)') = MaxPerChat
    BY <1>t, <1>n, <2>2, <2>4, GateLimits DEF UnitsConserved
  <2> QED BY <2>1, <2>5 DEF UnitsConserved
<1>7. ASSUME NEW c \in Chats, Stats(c) PROVE UnitsConserved'
  BY <1>7, <1>s DEF Stats, GlobalHolders, ChatHolders, At, Of
<1>8. CASE UNCHANGED vars
  BY <1>8, <1>s DEF vars, GlobalHolders, ChatHolders, At, Of
<1> QED BY <1>1, <1>2, <1>3, <1>4, <1>5, <1>6, <1>7, <1>8 DEF Next, Proceed

\* No unit of a semaphore is lost or made.
THEOREM Units == Spec => [](TypeOK /\ UnitsConserved)
<1>1. Init => TypeOK /\ UnitsConserved
  <2> SUFFICES ASSUME Init PROVE TypeOK /\ UnitsConserved
    OBVIOUS
  <2>1. TypeOK
    BY GateLimits DEF Init, TypeOK, Points
  <2>2. GlobalHolders = {} /\ \A c \in Chats : ChatHolders(c) = {}
    BY DEF Init, GlobalHolders, ChatHolders, At, Of
  <2>3. UnitsConserved
    BY <2>2, FS_EmptySet, GateLimits DEF Init, UnitsConserved
  <2> QED BY <2>1, <2>3
<1>2. TypeOK /\ UnitsConserved /\ [Next]_vars => (TypeOK /\ UnitsConserved)'
  BY TypeStep, UnitsStep
<1> QED BY <1>1, <1>2, PTL DEF Spec

\* At most MaxPerChat jobs of a chat and MaxGlobal jobs in all run at a time.
THEOREM Capacity == Spec => []Limits
BY Units, LimitsFromUnits, PTL

\* Whoever waits at a semaphore waits for a job that can go on.
THEOREM NoDeadlock == Spec => []NobodyStuck
BY Units, NobodyStuckFromUnits, PTL

\* Only a job that becomes or stops being active changes the counter.
LEMMA CounterStep == TypeOK /\ ActiveExact /\ [Next]_vars => ActiveExact'
<1> SUFFICES ASSUME TypeOK, ActiveExact, [Next]_vars PROVE ActiveExact'
  OBVIOUS
<1> DEFINE A == At({"active"})
<1>t. pc \in [Jobs -> Points] /\ A \in SUBSET Jobs /\ Cardinality(A) \in Nat /\ active \in Nat
  <2>1. A \in SUBSET Jobs
    BY DEF At
  <2> QED BY <2>1, JobSets DEF TypeOK
<1>1. ASSUME NEW j \in Jobs, Enter(j) PROVE ActiveExact'
  <2>1. A' = A \cup {j} /\ j \notin A
    BY <1>1, <1>t DEF Enter, Goto, At
  <2> HIDE DEF A
  <2>2. Cardinality(A') = Cardinality(A) + 1
    BY <1>t, <2>1, JobSets
  <2> QED BY <1>1, <1>t, <2>2 DEF Enter, ActiveExact, A
<1>2. ASSUME NEW j \in Jobs, Leave(j) PROVE ActiveExact'
  <2>1. A' = A \ {j} /\ j \in A
    BY <1>2, <1>t DEF Leave, Goto, At
  <2> HIDE DEF A
  <2>2. Cardinality(A') = Cardinality(A) - 1
    BY <1>t, <2>1, JobSets
  <2>3. Cardinality(A') \in Nat
    BY <1>t, <2>1, JobSets
  <2> QED BY <1>2, <1>t, <2>2, <2>3 DEF Leave, ActiveExact, Max0, A
<1>3. ASSUME A' = A, active' = active PROVE ActiveExact'
  BY <1>3 DEF ActiveExact
<1>4. ASSUME NEW j \in Jobs, NEW c \in Chats, Call(j, c) \/ Reject(j, c) PROVE ActiveExact'
  BY <1>3, <1>4, <1>t DEF Call, Reject, Goto, At
<1>5. ASSUME NEW j \in Jobs, GetChatSem(j) \/ AcquireChat(j) \/ AcquireGlobal(j)
                             \/ ReleaseGlobal(j) \/ ReleaseChat(j)
      PROVE  ActiveExact'
  BY <1>3, <1>5, <1>t DEF GetChatSem, AcquireChat, AcquireGlobal, ReleaseGlobal,
                          ReleaseChat, Goto, At
<1>6. ASSUME NEW c \in Chats, Stats(c) PROVE ActiveExact'
  BY <1>3, <1>6 DEF Stats, At
<1>7. CASE UNCHANGED vars
  BY <1>3, <1>7 DEF vars, At
<1> QED BY <1>1, <1>2, <1>4, <1>5, <1>6, <1>7 DEF Next, Proceed

\* The counter of running jobs is exact.
THEOREM Counter == Spec => []ActiveExact
<1>1. Init => ActiveExact
  <2> SUFFICES ASSUME Init PROVE ActiveExact
    OBVIOUS
  <2>1. At({"active"}) = {}
    BY DEF Init, At
  <2> QED BY <2>1, FS_EmptySet DEF Init, ActiveExact
<1> QED BY <1>1, CounterStep, Units, PTL DEF Spec

-----------------------------------------------------------------------------
\* The count of waiting jobs grows only when a job begins to wait.
LEMMA WaitingStep == TypeOK /\ QueuedAtMost /\ [Next]_vars => QueuedAtMost'
<1> SUFFICES ASSUME TypeOK, QueuedAtMost, [Next]_vars PROVE QueuedAtMost'
  OBVIOUS
<1> USE DEF Goto
<1>t. pc \in [Jobs -> Points] /\ chat \in [Jobs -> Chats] /\ queued \in [Chats -> Nat]
  BY DEF TypeOK
<1>w. \A c \in Chats : /\ Waiting(c) \in SUBSET Jobs
                       /\ Cardinality(Waiting(c)) \in Nat
                       /\ queued[c] <= Cardinality(Waiting(c))
  <2>1. \A c \in Chats : Waiting(c) \in SUBSET Jobs
    BY DEF Waiting, Of, At
  <2> QED BY <2>1, JobSets DEF QueuedAtMost
<1>1. ASSUME NEW j \in Jobs, NEW c \in Chats, Call(j, c) PROVE QueuedAtMost'
  <2>1. Waiting(c)' = Waiting(c) \cup {j} /\ j \notin Waiting(c)
    BY <1>1, <1>t DEF Call, Waiting, Of, At
  <2>2. \A d \in Chats : d # c => Waiting(d)' = Waiting(d)
    BY <1>1, <1>t DEF Call, Waiting, Of, At
  <2>3. Cardinality(Waiting(c)') = Cardinality(Waiting(c)) + 1
    BY <1>w, <2>1, JobSets
  <2> QED BY <1>1, <1>t, <1>w, <2>2, <2>3 DEF Call, QueuedAtMost
<1>2. ASSUME NEW j \in Jobs, NEW c \in Chats, Reject(j, c) PROVE QueuedAtMost'
  <2>1. \A d \in Chats : Waiting(d)' = Waiting(d)
    BY <1>2, <1>t DEF Reject, Waiting, Of, At
  <2> QED BY <1>2, <1>w, <2>1 DEF Reject, QueuedAtMost
<1>3. ASSUME \A c \in Chats : Waiting(c)' = Waiting(c) /\ queued'[c] \in {queued[c], 0}
      PROVE  QueuedAtMost'
  BY <1>3, <1>t, <1>w DEF QueuedAtMost
<1>4. ASSUME NEW j \in Jobs, GetChatSem(j) \/ AcquireChat(j) \/ AcquireGlobal(j)
               \/ Leave(j) \/ ReleaseGlobal(j) \/ ReleaseChat(j)
      PROVE  QueuedAtMost'
  <2>1. \A c \in Chats : Waiting(c)' = Waiting(c)
    BY <1>4, <1>t DEF GetChatSem, AcquireChat, AcquireGlobal, Leave, ReleaseGlobal,
                      ReleaseChat, Waiting, Of, At
  <2>2. \A c \in Chats : queued'[c] \in {queued[c], 0}
    BY <1>4, <1>t DEF GetChatSem, AcquireChat, AcquireGlobal, Leave, ReleaseGlobal,
                      ReleaseChat, Touch
  <2> QED BY <1>3, <2>1, <2>2
<1>5. ASSUME NEW j \in Jobs, Enter(j) PROVE QueuedAtMost'
  <2> PICK c \in Chats : c = chat[j]
    BY <1>t
  <2>1. Waiting(c)' = Waiting(c) \ {j} /\ j \in Waiting(c) /\ c \in Chats
    BY <1>5, <1>t DEF Enter, Waiting, Of, At
  <2>2. \A d \in Chats : d # c => Waiting(d)' = Waiting(d)
    BY <1>5, <1>t DEF Enter, Waiting, Of, At
  <2>3. Cardinality(Waiting(c)') = Cardinality(Waiting(c)) - 1 /\ Cardinality(Waiting(c)') \in Nat
    BY <1>w, <2>1, JobSets
  <2>4. \A d \in Chats : d # c => queued'[d] = queued[d]
    BY <1>5, <1>t DEF Enter
  <2>5. queued'[c] = IF queued[c] - 1 < 0 THEN 0 ELSE queued[c] - 1
    BY <1>5, <1>t, <2>1 DEF Enter, Max0
  <2>6. queued'[c] <= Cardinality(Waiting(c)')
    BY <1>t, <1>w, <2>1, <2>3, <2>5
  <2> QED BY <1>w, <2>2, <2>4, <2>6 DEF QueuedAtMost
<1>6. ASSUME NEW c \in Chats, Stats(c) PROVE QueuedAtMost'
  <2>1. \A d \in Chats : Waiting(d)' = Waiting(d) /\ queued'[d] \in {queued[d], 0}
    BY <1>6, <1>t DEF Stats, Touch, Waiting, Of, At
  <2> QED BY <1>3, <2>1
<1>7. CASE UNCHANGED vars
  BY <1>7, <1>w DEF vars, QueuedAtMost, Waiting, Of, At
<1> QED BY <1>1, <1>2, <1>4, <1>5, <1>6, <1>7 DEF Next, Proceed

\* The count of waiting jobs never exceeds the jobs that wait.
THEOREM Undercount == Spec => [](TypeOK /\ QueuedAtMost)
<1>1. Init => QueuedAtMost
  <2> SUFFICES ASSUME Init PROVE QueuedAtMost
    OBVIOUS
  <2>1. \A c \in Chats : Waiting(c) = {}
    BY DEF Init, Waiting, Of, At
  <2> QED BY <2>1, FS_EmptySet DEF Init, QueuedAtMost
<1>2. Init => TypeOK
  BY GateLimits DEF Init, TypeOK, Points
<1> QED BY <1>1, <1>2, TypeStep, WaitingStep, PTL DEF Spec

\* At every point between the gate's locks its accounts are right.
THEOREM GateSafety == Spec => []GateSafe
<1>1. TypeOK /\ UnitsConserved /\ Limits /\ ActiveExact /\ QueuedAtMost /\ NobodyStuck
        => GateSafe
  BY DEF GateSafe
<1> QED BY <1>1, Units, Capacity, NoDeadlock, Counter, Undercount, PTL

-----------------------------------------------------------------------------
\* Sizes mean the same in both modules.
LEMMA SlotSizes == \A S : Slots!Cardinality(S) = Cardinality(S)
BY DEF Slots!Cardinality, Cardinality

\* What the abstract gate sees of the sets of jobs.
LEMMA SlotSets ==
  /\ \A c \in Chats : Slots!Among("waiting", c) = Waiting(c)
  /\ \A c \in Chats : Slots!Among("running", c) = Of(c) \cap At({"active"})
  /\ Slots!Running = At({"active"})
BY DEF Slots!Among, Slots!Running, JobState, Waiting, Of, At

\* A job that is let in adds itself to jobs that, with it, hold a unit each.
LEMMA StartsWithin ==
  ASSUME TypeOK, UnitsConserved, NEW j \in Jobs, pc[j] = "entering"
  PROVE  /\ Cardinality(At({"active"})) < MaxGlobal
         /\ Cardinality(Of(chat[j]) \cap At({"active"})) < MaxPerChat
<1> DEFINE A == At({"active"})
           C == Of(chat[j]) \cap At({"active"})
           G == GlobalHolders
           H == ChatHolders(chat[j])
<1>1. /\ G \in SUBSET Jobs /\ j \in G /\ A \subseteq G \ {j}
      /\ H \in SUBSET Jobs /\ j \in H /\ C \subseteq H \ {j}
  BY DEF GlobalHolders, ChatHolders, At, Of
<1>2. /\ globalSem \in Nat /\ globalSem + Cardinality(G) = MaxGlobal
      /\ chatSem[chat[j]] \in Nat /\ chatSem[chat[j]] + Cardinality(H) = MaxPerChat
  BY DEF TypeOK, UnitsConserved
<1> HIDE DEF A, C, G, H
<1>3. /\ Cardinality(G) \in Nat /\ Cardinality(G \ {j}) = Cardinality(G) - 1
      /\ Cardinality(H) \in Nat /\ Cardinality(H \ {j}) = Cardinality(H) - 1
  BY <1>1, JobSets
<1>4. /\ Cardinality(A) <= Cardinality(G \ {j}) /\ Cardinality(A) \in Nat
      /\ Cardinality(C) <= Cardinality(H \ {j}) /\ Cardinality(C) \in Nat
  <2>1. \A S \in SUBSET Jobs, T \in SUBSET Jobs : T \subseteq S => Cardinality(T) <= Cardinality(S)
    BY JobSets, FS_Subset
  <2>2. G \ {j} \in SUBSET Jobs /\ H \ {j} \in SUBSET Jobs /\ A \in SUBSET Jobs /\ C \in SUBSET Jobs
    BY <1>1
  <2> QED BY <1>1, <2>1, <2>2, JobSets
<1>5. Cardinality(A) < MaxGlobal /\ Cardinality(C) < MaxPerChat
  BY <1>2, <1>3, <1>4, GateLimits
<1> QED BY <1>5 DEF A, C

\* One step of a thread is one step of the abstract gate, or none.
LEMMA SlotStep ==
  ASSUME TypeOK, UnitsConserved, QueuedAtMost, [Next]_vars
  PROVE  [Slots!Next]_(Slots!vars)
<1> USE DEF TypeOK, Goto
<1>s. ASSUME chat' = chat, calls' = calls, \A k \in Jobs : JobState(k)' = JobState(k)
      PROVE  UNCHANGED Slots!vars
  BY <1>s DEF Slots!vars
<1>1. ASSUME NEW j \in Jobs, NEW c \in Chats, Call(j, c) PROVE Slots!Next
  <2>1. JobState(j) = "out" /\ JobState(j)' = "waiting"
        /\ \A k \in Jobs \ {j} : JobState(k)' = JobState(k)
    BY <1>1 DEF Call, JobState
  <2>2. Slots!Admit(j, c)
    BY <1>1, <2>1 DEF Call, Slots!Admit, Slots!Asks
  <2> QED BY <2>2 DEF Slots!Next
<1>2. ASSUME NEW j \in Jobs, NEW c \in Chats, Reject(j, c) PROVE Slots!Next
  <2>1. JobState(j) = "out" /\ \A k \in Jobs : JobState(k)' = JobState(k)
    BY <1>2 DEF Reject, JobState
  <2>2. Cardinality(Slots!Among("waiting", c)) >= QueueOverflow
    <3>1. Waiting(c) \in SUBSET Jobs
      BY DEF Waiting, Of, At
    <3>2. Cardinality(Waiting(c)) \in Nat /\ queued[c] \in Nat /\ queued[c] >= QueueOverflow
          /\ queued[c] <= Cardinality(Waiting(c))
      BY <1>2, <3>1, JobSets DEF Reject, QueuedAtMost
    <3>3. Cardinality(Waiting(c)) >= QueueOverflow
      BY <3>2, GateLimits
    <3> QED BY <3>3, SlotSets, SlotSizes
  <2>3. Slots!TurnAway(j, c)
    BY <1>2, <2>1, <2>2, SlotSizes DEF Reject, Slots!TurnAway, Slots!Asks
  <2> QED BY <2>3 DEF Slots!Next
<1>3. ASSUME NEW j \in Jobs, Enter(j) PROVE Slots!Next
  <2>1. JobState(j) = "waiting" /\ JobState(j)' = "running"
        /\ \A k \in Jobs \ {j} : JobState(k)' = JobState(k)
    BY <1>3 DEF Enter, JobState
  <2>2. Cardinality(Slots!Running) < MaxGlobal
        /\ Cardinality(Slots!Among("running", chat[j])) < MaxPerChat
    BY <1>3, StartsWithin, SlotSets DEF Enter
  <2>3. Slots!Start(j)
    BY <1>3, <2>1, <2>2, SlotSizes DEF Enter, Slots!Start
  <2> QED BY <2>3 DEF Slots!Next
<1>4. ASSUME NEW j \in Jobs, Leave(j) PROVE Slots!Next
  <2>1. JobState(j) = "running" /\ JobState(j)' = "out"
        /\ \A k \in Jobs \ {j} : JobState(k)' = JobState(k)
    BY <1>4 DEF Leave, JobState
  <2>2. Slots!Finish(j)
    BY <1>4, <2>1 DEF Leave, Slots!Finish
  <2> QED BY <2>2 DEF Slots!Next
<1>5. ASSUME NEW j \in Jobs, GetChatSem(j) \/ AcquireChat(j) \/ AcquireGlobal(j)
                             \/ ReleaseGlobal(j) \/ ReleaseChat(j)
      PROVE  UNCHANGED Slots!vars
  <2>1. \A k \in Jobs : JobState(k)' = JobState(k)
    BY <1>5 DEF GetChatSem, AcquireChat, AcquireGlobal, ReleaseGlobal, ReleaseChat, JobState
  <2> QED BY <1>5, <1>s, <2>1
          DEF GetChatSem, AcquireChat, AcquireGlobal, ReleaseGlobal, ReleaseChat
<1>6. ASSUME NEW c \in Chats, Stats(c) PROVE UNCHANGED Slots!vars
  BY <1>6, <1>s DEF Stats, JobState
<1>7. CASE UNCHANGED vars
  BY <1>7, <1>s DEF vars, JobState
<1> QED BY <1>1, <1>2, <1>3, <1>4, <1>5, <1>6, <1>7 DEF Next, Proceed

\* The gate implements GateSlots: for every number of threads, chats and slots its
\* locks and counters keep the promise made to the callers.
THEOREM GateRefinement == Spec => ImplementsSlots
<1>1. Init => Slots!Init
  BY DEF Init, Slots!Init, JobState
<1>2. TypeOK /\ UnitsConserved /\ QueuedAtMost /\ [Next]_vars => [Slots!Next]_(Slots!vars)
  BY SlotStep
<1> QED BY <1>1, <1>2, Units, Undercount, PTL DEF Spec, ImplementsSlots, Slots!Spec

-----------------------------------------------------------------------------
(* TelegramPoller *)

\* A step of add, get or clear keeps the lists lists of entries.
LEMMA HistoryTypeStep ==
  ASSUME HistoryTypeOK, NEW u \in Jobs, NEW c \in Chats, NEW role \in Roles,
         \/ AddLook(u, c) \/ AddCreate(u, c) \/ AddAppend(u, c, role) \/ AddTrim(u, c) \/ AddRaises(u, c)
         \/ Store(u, c) \/ GetRead(u, c) \/ Clear(c) \/ UNCHANGED history
  PROVE  HistoryTypeOK'
<1> DEFINE Steps == {"out", "create", "append", "trim", "store", "got"}
<1>a. /\ Listed \subseteq Chats /\ memory \in [Listed -> Seq(Entry)] /\ step \in [Jobs -> Steps]
      /\ view \in [Jobs -> Seq(Entry)] /\ cleared \subseteq Entry
  BY DEF HistoryTypeOK
<1>b. Entries(c) \in Seq(Entry)
  BY <1>a DEF Entries
<1>s. ASSUME NEW list \in Seq(Entry), SetList(c, list)
      PROVE  Listed' \subseteq Chats /\ memory' \in [Listed' -> Seq(Entry)]
  BY <1>a, <1>s DEF SetList, Listed
<1>1. CASE AddLook(u, c)
  BY <1>a, <1>1 DEF AddLook, Step, HistoryTypeOK, Listed
<1>2. CASE AddCreate(u, c)
  <2>1. <<>> \in Seq(Entry)
    OBVIOUS
  <2>2. Listed' \subseteq Chats /\ memory' \in [Listed' -> Seq(Entry)]
    BY <1>2, <1>s, <2>1 DEF AddCreate
  <2>3. step' \in [Jobs -> Steps] /\ UNCHANGED <<view, cleared>>
    BY <1>a, <1>2 DEF AddCreate, Step
  <2> QED BY <1>a, <2>2, <2>3 DEF HistoryTypeOK
<1>3. CASE AddAppend(u, c, role)
  <2>1. [job |-> u, role |-> role] \in Entry /\ memory[c] \in Seq(Entry)
    BY <1>a, <1>3 DEF AddAppend, Entry
  <2>2. Append(memory[c], [job |-> u, role |-> role]) \in Seq(Entry)
    BY <2>1, AppendProperties
  <2>3. Listed' \subseteq Chats /\ memory' \in [Listed' -> Seq(Entry)]
    BY <1>3, <1>s, <2>2 DEF AddAppend
  <2>4. step' \in [Jobs -> Steps] /\ UNCHANGED <<view, cleared>>
    BY <1>a, <1>3 DEF AddAppend, Step
  <2> QED BY <1>a, <2>3, <2>4 DEF HistoryTypeOK
<1>4. CASE AddTrim(u, c)
  <2>1. memory' = memory /\ cleared' = cleared /\ c \in Listed /\ step' \in [Jobs -> Steps]
    BY <1>a, <1>4 DEF AddTrim, Step
  <2>2. ASSUME Len(memory[c]) > MaxHistory PROVE Window(memory[c]) \in Seq(Entry)
    <3>1. memory[c] \in Seq(Entry) /\ Len(memory[c]) \in Nat
      BY <1>a, <2>1
    <3>2. /\ Len(memory[c]) - MaxHistory + 1 \in 1 .. Len(memory[c]) + 1
          /\ Len(memory[c]) \in Len(memory[c]) - MaxHistory + 1 - 1 .. Len(memory[c])
      BY <2>2, <3>1, PollerBounds
    <3> QED BY <3>1, <3>2, SubSeqProperties DEF Window
  <2>3. view' \in [Jobs -> Seq(Entry)]
    BY <1>a, <1>4, <2>2 DEF AddTrim
  <2> QED BY <1>a, <2>1, <2>3 DEF HistoryTypeOK, Listed
<1>5. CASE AddRaises(u, c)
  BY <1>a, <1>5 DEF AddRaises, HistoryTypeOK, Listed
<1>6. CASE Store(u, c)
  <2>1. view[u] \in Seq(Entry) /\ <<>> \in Seq(Entry)
    BY <1>a
  <2>2. Listed' \subseteq Chats /\ memory' \in [Listed' -> Seq(Entry)]
    BY <1>6, <1>s, <2>1 DEF Store
  <2>3. step' \in [Jobs -> Steps] /\ view' \in [Jobs -> Seq(Entry)] /\ cleared' = cleared
    BY <1>a, <1>6, <2>1 DEF Store
  <2> QED BY <1>a, <2>2, <2>3 DEF HistoryTypeOK
<1>7. CASE GetRead(u, c)
  <2>1. PICK n \in 0 .. Len(Entries(c)) : view' = [view EXCEPT ![u] = SubSeq(Entries(c), n + 1, Len(Entries(c)))]
    BY <1>7 DEF GetRead
  <2>2. n + 1 \in 1 .. Len(Entries(c)) + 1 /\ Len(Entries(c)) \in n + 1 - 1 .. Len(Entries(c))
    BY <1>b
  <2>3. SubSeq(Entries(c), n + 1, Len(Entries(c))) \in Seq(Entry)
    BY <1>b, <2>2, SubSeqProperties
  <2>4. memory' = memory /\ cleared' = cleared /\ step' \in [Jobs -> Steps]
    BY <1>a, <1>7 DEF GetRead, Step
  <2>5. view' \in [Jobs -> Seq(Entry)]
    BY <1>a, <2>1, <2>3
  <2> QED BY <1>a, <2>4, <2>5 DEF HistoryTypeOK, Listed
<1>8. CASE Clear(c)
  <2>1. Listed' \subseteq Chats /\ memory' \in [Listed' -> Seq(Entry)] /\ UNCHANGED <<step, view>>
    BY <1>a, <1>8 DEF Clear, Listed
  <2>2. ToSet(Entries(c)) \subseteq Entry
    BY <1>b DEF ToSet
  <2>3. cleared' \subseteq Entry
    BY <1>a, <1>8, <2>2 DEF Clear
  <2> QED BY <1>a, <2>1, <2>3 DEF HistoryTypeOK
<1>9. CASE UNCHANGED history
  BY <1>a, <1>9 DEF history, HistoryTypeOK, Listed
<1> QED BY <1>1, <1>2, <1>3, <1>4, <1>5, <1>6, <1>7, <1>8, <1>9

\* What the poll thread and the threads of updates do at the gate are steps of the
\* gate; only the death of the process is not.
LEMMA GateSteps == ASSUME PollerTypeOK, PollThread \/ \E u \in Jobs : Thread(u) PROVE [Next]_vars
<1>1. CASE PollThread
  BY <1>1 DEF PollThread, Fetch, FetchDies, Take, Advance, TakeText, TakeMedia, TakeReset, TakeLook, TakeOther, TakeRaises
<1>2. ASSUME NEW u \in Jobs, Thread(u) PROVE [Next]_vars
  <2>1. chat[u] \in Chats
    BY DEF PollerTypeOK, TypeOK
  <2>2. CASE TryAcquire(u)
    BY <2>1, <2>2 DEF TryAcquire, Next, Proceed
  <2>3. CASE GiveBack(u)
    BY <2>3 DEF GiveBack, Next, Proceed
  <2>4. CASE Look(u) \/ Extract(u) \/ AddUser(u) \/ SpawnWorker(u) \/ SpawnFails(u)
    BY <2>4 DEF Look, Extract, AddUser, SpawnWorker, SpawnFails
  <2>5. CASE ReadContext(u) \/ Answer(u) \/ Record(u) \/ Send(u) \/ WorkerRaises(u)
    BY <2>5 DEF ReadContext, Answer, Record, Send, WorkerRaises
  <2> QED BY <1>2, <2>2, <2>3, <2>4, <2>5 DEF Thread
<1> QED BY <1>1, <1>2

\* And what they do to the lists are steps of add, get and clear.
LEMMA ListSteps == ASSUME PollerTypeOK, PollThread \/ \E u \in Jobs : Thread(u) PROVE HistoryTypeOK'
<1>a. HistoryTypeOK /\ \A u \in Jobs : chat[u] \in Chats
  BY DEF PollerTypeOK, TypeOK
<1>b. "user" \in Roles /\ "assistant" \in Roles
  BY DEF Roles
<1>c. ASSUME UNCHANGED history PROVE HistoryTypeOK'
  BY <1>a, <1>c DEF history, HistoryTypeOK, Listed
<1>1. CASE FetchDies \/ \E n \in 0 .. Cardinality(Jobs) : Fetch(n)
  BY <1>1, <1>c DEF Fetch, FetchDies
<1>2. ASSUME NEW u \in Jobs, Take(u) PROVE HistoryTypeOK'
  <2>1. CASE TakeReset(u)
    BY <1>a, <1>b, <2>1, HistoryTypeStep DEF TakeReset
  <2>2. CASE TakeText(u) \/ TakeMedia(u) \/ TakeLook(u) \/ TakeOther(u)
    BY <1>c, <2>2 DEF TakeText, TakeMedia, TakeLook, TakeOther
  <2>3. CASE TakeRaises(u)
    BY <1>a, <1>b, <1>c, <2>3, HistoryTypeStep DEF TakeRaises
  <2> QED BY <1>2, <2>1, <2>2, <2>3 DEF Take
<1>3. ASSUME NEW u \in Jobs, Thread(u) PROVE HistoryTypeOK'
  <2>1. CASE Look(u)
    BY <1>a, <1>b, <2>1, HistoryTypeStep DEF Look
  <2>2. CASE AddUser(u)
    BY <1>a, <1>b, <2>2, HistoryTypeStep DEF AddUser, AddStep
  <2>3. CASE ReadContext(u)
    BY <1>a, <1>b, <1>c, <2>3, HistoryTypeStep DEF ReadContext
  <2>4. CASE Record(u)
    BY <1>a, <1>b, <2>4, HistoryTypeStep DEF Record, AddStep
  <2>5. CASE \/ Extract(u) \/ TryAcquire(u) \/ SpawnWorker(u) \/ SpawnFails(u) \/ Answer(u) \/ Send(u)
             \/ WorkerRaises(u) \/ GiveBack(u)
    BY <1>c, <2>5 DEF Extract, TryAcquire, SpawnWorker, SpawnFails, Answer, Send, WorkerRaises, GiveBack
  <2> QED BY <1>3, <2>1, <2>2, <2>3, <2>4, <2>5 DEF Thread
<1> QED BY <1>1, <1>2, <1>3 DEF PollThread

\* A thread moves its own update, from a stage of its own to the next, and what it
\* tells a chat is about that update; an exception on the poll thread ends the batch
\* or the loop.
LEMMA ThreadMoves ==
  ASSUME PollerTypeOK, NEW u \in Jobs, Thread(u)
  PROVE  /\ at' \in [Jobs -> Stages] /\ sent' \in [Jobs -> {"nothing", "told", "silence"}]
         /\ at[u] \notin {"new", "done"} /\ at'[u] # "new"
         /\ \A v \in Jobs \ {u} : at'[v] = at[v] /\ sent'[v] = sent[v]
         /\ UNCHANGED <<kind, next, offset, confirmed, taken, crashes>> /\ last' \in {last, next - 1}
         /\ leaked \subseteq leaked' /\ leaked' \subseteq leaked \cup {u} /\ loop' \in BOOLEAN
<1>a. at \in [Jobs -> Stages] /\ sent \in [Jobs -> {"nothing", "told", "silence"}] /\ loop \in BOOLEAN
  BY DEF PollerTypeOK
<1> USE DEF Move, Say, Stages, progress
<1>t. ASSUME Tell(u)
      PROVE  /\ sent' \in [Jobs -> {"nothing", "told", "silence"}] /\ \A v \in Jobs \ {u} : sent'[v] = sent[v]
             /\ UNCHANGED <<next, offset, confirmed, taken, crashes>> /\ last' \in {last, next - 1} /\ loop' \in BOOLEAN
  BY <1>a, <1>t DEF Tell, PollRaises
<1>1. CASE Look(u)
  BY <1>a, <1>t, <1>1 DEF Look
<1>2. CASE Extract(u)
  BY <1>a, <1>2 DEF Extract
<1>3. CASE AddUser(u)
  BY <1>a, <1>3 DEF AddUser
<1>4. CASE TryAcquire(u)
  BY <1>a, <1>t, <1>4 DEF TryAcquire
<1>5. CASE SpawnWorker(u)
  BY <1>a, <1>5 DEF SpawnWorker
<1>6. CASE SpawnFails(u)
  BY <1>a, <1>6 DEF SpawnFails
<1>7. CASE ReadContext(u)
  BY <1>a, <1>7 DEF ReadContext
<1>8. CASE Answer(u)
  BY <1>a, <1>8 DEF Answer
<1>9. CASE Record(u)
  BY <1>a, <1>9 DEF Record
<1>10. CASE Send(u)
  BY <1>a, <1>10 DEF Send
<1>11. CASE GiveBack(u)
  BY <1>a, <1>11 DEF GiveBack
<1>12. CASE WorkerRaises(u)
  BY <1>a, <1>12 DEF WorkerRaises
<1> QED BY <1>1, <1>2, <1>3, <1>4, <1>5, <1>6, <1>7, <1>8, <1>9, <1>10, <1>11, <1>12 DEF Thread

\* An update that is taken up was not before by this process, and the offset is
\* behind it from then on.
LEMMA TakeMoves ==
  ASSUME PollerTypeOK, NEW u \in Jobs, Take(u)
  PROVE  /\ at' \in [Jobs -> Stages] /\ sent' \in [Jobs -> {"nothing", "told", "silence"}]
         /\ at'[u] \in {"adding", "media", "look", "done"}
         /\ \A v \in Jobs \ {u} : at'[v] = at[v] /\ sent'[v] = sent[v]
         /\ u = next /\ next <= last /\ offset' = u + 1 /\ next' = u + 1 /\ last' \in {u, last}
         /\ taken' = [taken EXCEPT ![u] = taken[u] + 1]
         /\ UNCHANGED <<chat, pc, calls, kind, confirmed, crashes, leaked>> /\ loop' \in BOOLEAN
<1>a. next \in Nat /\ loop \in BOOLEAN /\ at \in [Jobs -> Stages] /\ sent \in [Jobs -> {"nothing", "told", "silence"}]
  BY DEF PollerTypeOK
<1>b. Advance(u)
  BY DEF Take, TakeText, TakeMedia, TakeReset, TakeLook, TakeOther, TakeRaises
<1>c. /\ u = next /\ next <= last /\ offset' = u + 1 /\ taken' = [taken EXCEPT ![u] = taken[u] + 1]
      /\ UNCHANGED <<chat, pc, calls, kind, confirmed, crashes>>
  BY <1>b DEF Advance, vars
<1> USE DEF Say, Stages, Proceeds
<1>1. CASE TakeText(u)
  BY <1>a, <1>c, <1>1 DEF TakeText
<1>2. CASE TakeMedia(u)
  BY <1>a, <1>c, <1>2 DEF TakeMedia
<1>3. CASE TakeReset(u)
  BY <1>a, <1>c, <1>3 DEF TakeReset
<1>4. CASE TakeLook(u)
  BY <1>a, <1>c, <1>4 DEF TakeLook
<1>5. CASE TakeOther(u)
  BY <1>a, <1>c, <1>5 DEF TakeOther
<1>6. CASE TakeRaises(u)
  <2>1. at' = [at EXCEPT ![u] = "done"] /\ UNCHANGED <<sent, leaked>> /\ next' = u + 1
    BY <1>6 DEF TakeRaises
  <2>2. (last' = next' - 1 /\ loop' = loop) \/ (loop' = FALSE /\ last' = last)
    BY <1>6 DEF TakeRaises, PollRaises
  <2>3. u \in Nat /\ next' - 1 = u
    BY <1>a, <1>c, <2>1
  <2>4. last' \in {u, last} /\ loop' \in BOOLEAN
    BY <1>a, <2>2, <2>3, Zenon
  <2> QED BY <1>a, <1>c, <2>1, <2>4
<1> QED BY <1>1, <1>2, <1>3, <1>4, <1>5, <1>6 DEF Take

\* Every step keeps the types.
LEMMA PollerTypeStep == PollerTypeOK /\ Offsets /\ [PollerNext]_pollerVars => PollerTypeOK'
<1> SUFFICES ASSUME PollerTypeOK, Offsets, [PollerNext]_pollerVars PROVE PollerTypeOK'
  OBVIOUS
<1>a. /\ kind \in [Jobs -> Kinds] /\ at \in [Jobs -> Stages] /\ next \in Nat /\ last \in Nat /\ offset \in Nat
      /\ confirmed \in Nat /\ loop \in BOOLEAN /\ taken \in [Jobs -> Nat] /\ crashes \in Nat
      /\ sent \in [Jobs -> {"nothing", "told", "silence"}] /\ leaked \subseteq Jobs
  BY DEF PollerTypeOK
<1>b. \A u \in Jobs : u \in Nat
  <2>1. Cardinality(Jobs) \in Nat
    BY GateJobs, FS_CardinalityType
  <2> QED BY <2>1, UpdateIds
<1>c. ASSUME PollThread \/ \E u \in Jobs : Thread(u) PROVE TypeOK' /\ HistoryTypeOK'
  <2>1. TypeOK
    BY DEF PollerTypeOK
  <2> QED BY <1>c, <2>1, GateSteps, ListSteps, TypeStep
<1>1. ASSUME NEW n \in 0 .. Cardinality(Jobs), Fetch(n) PROVE PollerTypeOK'
  <2>1. n \in Nat
    BY <1>1, GateJobs, FS_CardinalityType
  <2>2. confirmed' \in Nat /\ next' \in Nat /\ last' \in Nat
    BY <1>1, <1>a, <2>1 DEF Fetch
  <2>3. UNCHANGED <<kind, at, offset, loop, taken, sent, crashes, leaked>>
    BY <1>1 DEF Fetch
  <2> QED BY <1>1, <1>a, <1>c, <2>2, <2>3 DEF PollerTypeOK, PollThread
<1>2. ASSUME NEW u \in Jobs, Take(u) PROVE PollerTypeOK'
  <2>1. /\ at' \in [Jobs -> Stages] /\ sent' \in [Jobs -> {"nothing", "told", "silence"}]
        /\ offset' = u + 1 /\ next' = u + 1 /\ last' \in {u, last}
        /\ taken' = [taken EXCEPT ![u] = taken[u] + 1] /\ UNCHANGED <<kind, confirmed, crashes, leaked>>
        /\ loop' \in BOOLEAN
    BY <1>2, TakeMoves
  <2>2. offset' \in Nat /\ next' \in Nat /\ last' \in Nat /\ taken' \in [Jobs -> Nat]
    BY <1>a, <1>b, <2>1
  <2> QED BY <1>2, <1>a, <1>c, <2>1, <2>2 DEF PollerTypeOK, PollThread
<1>3. ASSUME NEW u \in Jobs, Thread(u) PROVE PollerTypeOK'
  <2>1. /\ at' \in [Jobs -> Stages] /\ sent' \in [Jobs -> {"nothing", "told", "silence"}]
        /\ UNCHANGED <<kind, next, offset, confirmed, taken, crashes>> /\ last' \in {last, next - 1}
        /\ leaked' \subseteq leaked \cup {u} /\ loop' \in BOOLEAN
    BY <1>3, ThreadMoves
  <2>2. last' \in Nat
    BY <1>a, <2>1 DEF Offsets
  <2> QED BY <1>3, <1>a, <1>c, <2>1, <2>2 DEF PollerTypeOK
<1>4. CASE Crash
  <2>1. TypeOK'
    BY <1>4, GateLimits DEF Crash, PollerTypeOK, TypeOK, Points
  <2>2. HistoryTypeOK'
    BY <1>4 DEF Crash, HistoryTypeOK, Listed
  <2>3. at' \in [Jobs -> Stages]
    BY <1>4 DEF Crash, Stages
  <2>4. crashes' \in Nat /\ next' \in Nat /\ last' \in Nat /\ offset' \in Nat /\ loop' \in BOOLEAN /\ leaked' \subseteq Jobs
    BY <1>4, <1>a DEF Crash
  <2>5. UNCHANGED <<kind, confirmed, taken>> /\ sent' \in [Jobs -> {"nothing", "told", "silence"}]
    BY <1>4 DEF Crash
  <2> QED BY <1>a, <2>1, <2>2, <2>3, <2>4, <2>5 DEF PollerTypeOK
<1>5. CASE UNCHANGED pollerVars
  BY <1>5 DEF pollerVars, vars, pollVars, history, PollerTypeOK, TypeOK, HistoryTypeOK, Listed
<1>6. CASE FetchDies
  BY <1>a, <1>c, <1>6 DEF FetchDies, PollerTypeOK, PollThread
<1> QED BY <1>1, <1>2, <1>3, <1>4, <1>5, <1>6 DEF PollerNext, PollThread

\* An update is known by its number.
LEMMA UpdateNumbers == \A u \in Jobs : u \in Nat
<1>1. Cardinality(Jobs) \in Nat
  BY GateJobs, FS_CardinalityType
<1> QED BY <1>1, UpdateIds

\* The offsets: what lies below was taken up, what lies above not by this process,
\* and a new process takes up an update once more at most.
LEMMA OffsetsStep ==
  PollerTypeOK /\ Offsets /\ Delivery /\ [PollerNext]_pollerVars => Offsets' /\ Delivery'
<1> SUFFICES ASSUME PollerTypeOK, Offsets, Delivery, [PollerNext]_pollerVars PROVE Offsets' /\ Delivery'
  OBVIOUS
<1>a. /\ at \in [Jobs -> Stages] /\ next \in Nat /\ last \in Nat /\ offset \in Nat
      /\ confirmed \in Nat /\ taken \in [Jobs -> Nat] /\ crashes \in Nat /\ \A u \in Jobs : u \in Nat
  BY UpdateNumbers DEF PollerTypeOK
<1>1. ASSUME NEW n \in 0 .. Cardinality(Jobs), Fetch(n) PROVE Offsets' /\ Delivery'
  <2>1. /\ confirmed' \in {offset, confirmed} /\ confirmed' >= offset /\ confirmed' >= confirmed /\ next' = confirmed'
        /\ UNCHANGED <<at, offset, taken, crashes>> /\ next > last
    BY <1>1, <1>a DEF Fetch
  <2>2. confirmed' >= 1 /\ confirmed' \in Nat
    BY <1>a, <2>1 DEF Offsets
  <2>3. \A u \in Jobs : u < confirmed' => taken[u] >= 1
    BY <1>a, <2>1 DEF Offsets, Delivery
  <2> QED BY <1>a, <2>1, <2>2, <2>3 DEF Offsets, Delivery
<1>2. ASSUME NEW u \in Jobs, Take(u) PROVE Offsets' /\ Delivery'
  <2>1. /\ at'[u] # "new" /\ \A v \in Jobs \ {u} : at'[v] = at[v]
        /\ u = next /\ next <= last /\ offset' = u + 1 /\ next' = u + 1 /\ last' \in {u, last}
        /\ taken' = [taken EXCEPT ![u] = taken[u] + 1] /\ UNCHANGED <<confirmed, crashes>>
    BY <1>2, TakeMoves
  <2>2. confirmed' >= 1 /\ next' >= offset' /\ next' >= confirmed'
    BY <1>a, <2>1 DEF Offsets
  <2>3. \A v \in Jobs : taken'[v] >= taken[v] /\ taken'[u] >= 1
    BY <1>a, <2>1
  <2>4. \A v \in Jobs : v < u + 1 => taken'[v] >= 1
    BY <1>a, <2>1, <2>3 DEF Offsets
  <2>5. \A v \in Jobs : v >= u + 1 => v # u /\ v >= offset
    BY <1>a, <2>1 DEF Offsets
  <2>6. \A v \in Jobs : at'[v] = "new" => v # u /\ at[v] = "new" /\ taken'[v] = taken[v]
    BY <1>a, <2>1
  <2>7. Offsets'
    BY <1>a, <2>1, <2>2, <2>4, <2>5, <2>6 DEF Offsets
  <2>8. u >= offset /\ u >= confirmed /\ taken[u] <= crashes
    BY <1>a, <2>1 DEF Offsets
  <2>9. \A v \in Jobs : taken'[v] <= 1 + crashes'
    BY <1>a, <2>1, <2>8 DEF Delivery
  <2>10. \A v \in Jobs : v < confirmed' => taken'[v] >= 1
    BY <1>a, <2>1, <2>3 DEF Delivery
  <2> QED BY <2>7, <2>9, <2>10 DEF Delivery
<1>3. ASSUME NEW u \in Jobs, Thread(u) PROVE Offsets' /\ Delivery'
  <2>1. /\ at[u] # "new" /\ at'[u] # "new" /\ \A v \in Jobs \ {u} : at'[v] = at[v]
        /\ UNCHANGED <<next, offset, confirmed, taken, crashes>> /\ last' \in {last, next - 1}
    BY <1>3, ThreadMoves
  <2>2. \A v \in Jobs : at'[v] = "new" <=> at[v] = "new"
    BY <2>1
  <2>3. next' <= last' => next <= last
    BY <1>a, <2>1
  <2> QED BY <2>1, <2>2, <2>3 DEF Offsets, Delivery
<1>4. CASE Crash
  <2>1. /\ at' = [u \in Jobs |-> IF u < confirmed THEN "done" ELSE "new"] /\ next' = 1 /\ last' = 0 /\ offset' = 0
        /\ crashes' = crashes + 1 /\ UNCHANGED <<confirmed, taken>>
    BY <1>4 DEF Crash
  <2> QED BY <1>a, <2>1 DEF Offsets, Delivery
<1>5. CASE UNCHANGED pollerVars
  BY <1>5 DEF pollerVars, vars, pollVars, Offsets, Delivery
<1>6. CASE FetchDies
  BY <1>6 DEF FetchDies, Offsets, Delivery
<1> QED BY <1>1, <1>2, <1>3, <1>4, <1>5, <1>6 DEF PollerNext, PollThread

\* A thread calls and releases the gate at the stages of its update that do so.
LEMMA GateStageStep ==
  PollerTypeOK /\ Offsets /\ (\A u \in Jobs : GateStage(u)) /\ [PollerNext]_pollerVars => \A u \in Jobs : GateStage(u)'
<1> SUFFICES ASSUME PollerTypeOK, Offsets, \A u \in Jobs : GateStage(u), [PollerNext]_pollerVars, NEW v \in Jobs
             PROVE  GateStage(v)'
  OBVIOUS
<1>a. /\ at \in [Jobs -> Stages] /\ pc \in [Jobs -> Points] /\ calls \in [Jobs -> 0 .. 1] /\ GateStage(v)
      /\ leaked \subseteq Jobs
  BY OneCall DEF PollerTypeOK, TypeOK
<1>b. ASSUME at'[v] = at[v], pc'[v] = pc[v], calls'[v] = calls[v], v \in leaked' <=> v \in leaked PROVE GateStage(v)'
  BY <1>a, <1>b DEF GateStage
<1>1. ASSUME NEW n \in 0 .. Cardinality(Jobs), Fetch(n) PROVE GateStage(v)'
  BY <1>1, <1>b DEF Fetch, vars
<1>2. ASSUME NEW u \in Jobs, Take(u) PROVE GateStage(v)'
  <2>1. /\ at'[u] \in {"adding", "media", "look", "done"} /\ \A w \in Jobs \ {u} : at'[w] = at[w]
        /\ u = next /\ next <= last /\ UNCHANGED <<pc, calls, leaked>>
    BY <1>2, TakeMoves
  <2>2. CASE v # u
    BY <1>b, <2>1, <2>2
  <2>3. CASE v = u
    <3>1. at[v] = "new"
      BY <2>1, <2>3 DEF Offsets
    <3>2. pc[v] = "idle" /\ calls[v] = 0 /\ v \notin leaked
      BY <1>a, <3>1 DEF GateStage
    <3> QED BY <2>1, <2>3, <3>2 DEF GateStage
  <2> QED BY <2>2, <2>3
<1>3. ASSUME NEW u \in Jobs, Thread(u) PROVE GateStage(v)'
  <2>1. \A w \in Jobs \ {u} : at'[w] = at[w]
    BY <1>3, ThreadMoves
  <2>2. leaked \subseteq leaked' /\ leaked' \subseteq leaked \cup {u}
    BY <1>3, ThreadMoves
  <2>3. \A w \in Jobs \ {u} : pc'[w] = pc[w] /\ calls'[w] = calls[w]
    <3>1. CASE TryAcquire(u)
      BY <1>a, <3>1 DEF TryAcquire, Call, GetChatSem, AcquireChat, AcquireGlobal, Enter, Reject, Goto
    <3>2. CASE GiveBack(u)
      BY <1>a, <3>2 DEF GiveBack, Leave, ReleaseGlobal, ReleaseChat, Goto
    <3>3. CASE Look(u) \/ Extract(u) \/ AddUser(u) \/ SpawnWorker(u) \/ SpawnFails(u)
      BY <3>3 DEF Look, Extract, AddUser, SpawnWorker, SpawnFails, vars
    <3>4. CASE ReadContext(u) \/ Answer(u) \/ Record(u) \/ Send(u) \/ WorkerRaises(u)
      BY <3>4 DEF ReadContext, Answer, Record, Send, WorkerRaises, vars
    <3> QED BY <1>3, <3>1, <3>2, <3>3, <3>4 DEF Thread
  <2>4. CASE v # u
    BY <1>b, <2>1, <2>2, <2>3, <2>4
  <2>5. CASE v = u
    <3> USE <1>a, <2>5 DEF Move, GateStage, progress
    <3>1. CASE Look(u)
      BY <3>1 DEF Look, vars
    <3>2. CASE Extract(u)
      BY <3>2 DEF Extract, vars
    <3>3. CASE AddUser(u)
      BY <3>3 DEF AddUser, vars
    <3>4. CASE TryAcquire(u)
      <4>1. at[u] = "gate" /\ leaked' = leaked /\ v \notin leaked
        BY <3>4 DEF TryAcquire
      <4>2. CASE Call(u, chat[u]) /\ at' = at
        BY <4>1, <4>2 DEF Call, Goto
      <4>3. CASE (GetChatSem(u) \/ AcquireChat(u) \/ AcquireGlobal(u)) /\ at' = at
        BY <4>1, <4>3 DEF GetChatSem, AcquireChat, AcquireGlobal, Goto
      <4>4. CASE Enter(u) /\ at' = [at EXCEPT ![u] = "spawn"]
        BY <4>1, <4>4 DEF Enter, Goto
      <4>5. CASE Reject(u, chat[u]) /\ at' = [at EXCEPT ![u] = "done"]
        BY <4>1, <4>5 DEF Reject
      <4> QED BY <3>4, <4>2, <4>3, <4>4, <4>5 DEF TryAcquire
    <3>5. CASE SpawnWorker(u)
      BY <3>5 DEF SpawnWorker, vars
    <3>6. CASE SpawnFails(u)
      BY <3>6 DEF SpawnFails, vars
    <3>7. CASE ReadContext(u)
      BY <3>7 DEF ReadContext, vars
    <3>8. CASE Answer(u)
      BY <3>8 DEF Answer, vars
    <3>9. CASE Record(u)
      BY <3>9 DEF Record, vars
    <3>10. CASE Send(u)
      BY <3>10 DEF Send, vars
    <3>11. CASE GiveBack(u)
      <4>1. at[u] = "release" /\ leaked' = leaked /\ v \notin leaked
        BY <3>11 DEF GiveBack
      <4>2. CASE (Leave(u) \/ ReleaseGlobal(u)) /\ at' = at
        BY <4>1, <4>2 DEF Leave, ReleaseGlobal, Goto
      <4>3. CASE ReleaseChat(u) /\ at' = [at EXCEPT ![u] = "done"]
        BY <4>1, <4>3 DEF ReleaseChat, Goto
      <4> QED BY <3>11, <4>2, <4>3 DEF GiveBack
    <3>12. CASE WorkerRaises(u)
      BY <3>12 DEF WorkerRaises, vars
    <3> QED BY <1>3, <3>1, <3>2, <3>3, <3>4, <3>5, <3>6, <3>7, <3>8, <3>9, <3>10, <3>11, <3>12 DEF Thread
  <2> QED BY <2>4, <2>5
<1>4. CASE Crash
  BY <1>4 DEF Crash, GateStage
<1>5. CASE UNCHANGED pollerVars
  BY <1>5, <1>b DEF pollerVars, vars, pollVars
<1>6. CASE FetchDies
  BY <1>6, <1>b DEF FetchDies, vars
<1> QED BY <1>1, <1>2, <1>3, <1>4, <1>5, <1>6 DEF PollerNext, PollThread

\* add and get only add to the lists, and a thread that is in add after its look
\* had a list there; /reset takes one away.
LEMMA ListsGrow ==
  ASSUME PollerTypeOK, NEW u \in Jobs, NEW role,
         \/ AddStep(u, role) \/ AddRaises(u, chat[u]) \/ GetRead(u, chat[u]) \/ UNCHANGED history
  PROVE  /\ Listed \subseteq Listed' /\ \A v \in Jobs \ {u} : step'[v] = step[v]
         /\ step'[u] \in {"append", "trim"} => step'[u] = step[u] \/ chat[u] \in Listed'
<1>a. step \in [Jobs -> {"out", "create", "append", "trim", "store", "got"}]
  BY DEF PollerTypeOK, HistoryTypeOK
<1> USE DEF Step, InStep, Listed, SetList
<1>1. CASE AddLook(u, chat[u])
  BY <1>a, <1>1 DEF AddLook
<1>2. CASE AddCreate(u, chat[u])
  BY <1>a, <1>2 DEF AddCreate
<1>3. CASE AddAppend(u, chat[u], role)
  BY <1>a, <1>3 DEF AddAppend
<1>4. CASE AddTrim(u, chat[u])
  BY <1>a, <1>4 DEF AddTrim
<1>5. CASE AddRaises(u, chat[u])
  BY <1>a, <1>5 DEF AddRaises
<1>6. CASE Store(u, chat[u])
  BY <1>a, <1>6 DEF Store
<1>7. CASE GetRead(u, chat[u])
  BY <1>a, <1>7 DEF GetRead
<1>8. CASE UNCHANGED history
  BY <1>8 DEF history
<1> QED BY <1>1, <1>2, <1>3, <1>4, <1>5, <1>6, <1>7, <1>8 DEF AddStep

\* What a thread does to the lists.
LEMMA ThreadLists ==
  ASSUME PollerTypeOK, NEW u \in Jobs, Thread(u)
  PROVE  /\ Listed \subseteq Listed' /\ \A v \in Jobs \ {u} : step'[v] = step[v]
         /\ step'[u] \in {"append", "trim"} => step'[u] = step[u] \/ chat[u] \in Listed'
         /\ chat' = chat
<1>a. chat \in [Jobs -> Chats]
  BY DEF PollerTypeOK, TypeOK
<1>1. chat' = chat
  <2>1. CASE TryAcquire(u)
    BY <1>a, <2>1 DEF TryAcquire, Call, GetChatSem, AcquireChat, AcquireGlobal, Enter, Reject
  <2>2. CASE GiveBack(u)
    BY <2>2 DEF GiveBack, Leave, ReleaseGlobal, ReleaseChat
  <2>3. CASE Look(u) \/ Extract(u) \/ AddUser(u) \/ SpawnWorker(u) \/ SpawnFails(u)
    BY <2>3 DEF Look, Extract, AddUser, SpawnWorker, SpawnFails, vars
  <2>4. CASE ReadContext(u) \/ Answer(u) \/ Record(u) \/ Send(u) \/ WorkerRaises(u)
    BY <2>4 DEF ReadContext, Answer, Record, Send, WorkerRaises, vars
  <2> QED BY <2>1, <2>2, <2>3, <2>4 DEF Thread
<1>2. \E role : \/ AddStep(u, role) \/ AddRaises(u, chat[u]) \/ GetRead(u, chat[u]) \/ UNCHANGED history
  BY DEF Thread, Look, Extract, AddUser, TryAcquire, SpawnWorker, SpawnFails, ReadContext, Answer, Record, Send, GiveBack,
         WorkerRaises, AddStep
<1> QED BY <1>1, <1>2, ListsGrow

\* A chat that was reset stays one that was.
LEMMA ResetStays ==
  ASSUME PollerTypeOK, PollThread \/ \E u \in Jobs : Thread(u)
  PROVE  chat' = chat /\ \A c \in Chats : ResetRan(c) => ResetRan(c)'
<1>a. taken \in [Jobs -> Nat]
  BY DEF PollerTypeOK
<1>1. ASSUME chat' = chat, kind' = kind, \A r \in Jobs : taken'[r] >= taken[r], taken' \in [Jobs -> Nat]
      PROVE  chat' = chat /\ \A c \in Chats : ResetRan(c) => ResetRan(c)'
  BY <1>a, <1>1 DEF ResetRan
<1>2. CASE FetchDies \/ \E n \in 0 .. Cardinality(Jobs) : Fetch(n)
  BY <1>a, <1>1, <1>2 DEF Fetch, FetchDies, vars
<1>3. ASSUME NEW u \in Jobs, Take(u) PROVE chat' = chat /\ \A c \in Chats : ResetRan(c) => ResetRan(c)'
  <2>1. taken' = [taken EXCEPT ![u] = taken[u] + 1] /\ kind' = kind /\ chat' = chat
    BY <1>3, TakeMoves
  <2> QED BY <1>a, <1>1, <2>1
<1>4. ASSUME NEW u \in Jobs, Thread(u) PROVE chat' = chat /\ \A c \in Chats : ResetRan(c) => ResetRan(c)'
  BY <1>a, <1>1, <1>4, ThreadMoves, ThreadLists
<1> QED BY <1>2, <1>3, <1>4 DEF PollThread

\* A worker that ends without a word recorded its answer in a chat that was reset.
LEMMA AnsweredStep ==
  /\ PollerTypeOK /\ Offsets /\ (\A u \in Jobs : GateStage(u) /\ ListStage(u)) /\ Answered /\ [PollerNext]_pollerVars
  => (\A u \in Jobs : ListStage(u)') /\ Answered'
<1> SUFFICES ASSUME PollerTypeOK, Offsets, \A u \in Jobs : GateStage(u) /\ ListStage(u), Answered,
                    [PollerNext]_pollerVars, NEW v \in Jobs
             PROVE  /\ ListStage(v)'
                    /\ at'[v] = "done" /\ calls'[v] = 1 /\ v \notin leaked' /\ sent'[v] = "nothing" => ResetRan(chat[v])'
  BY DEF Answered
<1>a. /\ at \in [Jobs -> Stages] /\ calls \in [Jobs -> 0 .. 1] /\ chat \in [Jobs -> Chats] /\ GateStage(v) /\ ListStage(v)
      /\ sent \in [Jobs -> {"nothing", "told", "silence"}]
      /\ at[v] = "done" /\ calls[v] = 1 /\ v \notin leaked /\ sent[v] = "nothing" => ResetRan(chat[v])
  BY OneCall DEF PollerTypeOK, TypeOK, Answered
<1> DEFINE Goal == /\ ListStage(v)'
                   /\ at'[v] = "done" /\ calls'[v] = 1 /\ v \notin leaked' /\ sent'[v] = "nothing" => ResetRan(chat[v])'
<1>b. ASSUME chat' = chat, ResetRan(chat[v]) => ResetRan(chat[v])', chat[v] \in Listed => chat[v] \in Listed' \/ ResetRan(chat[v])',
             at'[v] = at[v], sent'[v] = sent[v], calls'[v] = calls[v], v \in leaked <=> v \in leaked',
             step'[v] = step[v]
      PROVE  Goal
  BY <1>a, <1>b DEF ListStage
<1>1. ASSUME NEW n \in 0 .. Cardinality(Jobs), Fetch(n) PROVE Goal
  <2>1. chat' = chat /\ (ResetRan(chat[v]) => ResetRan(chat[v])')
    BY <1>1, <1>a, ResetStays DEF PollThread
  <2>2. UNCHANGED <<at, sent, calls, leaked, step>> /\ Listed' = Listed
    BY <1>1 DEF Fetch, vars, history, Listed
  <2> QED BY <1>b, <2>1, <2>2
<1>2. ASSUME NEW u \in Jobs, Take(u) PROVE Goal
  <2>1. chat' = chat /\ (ResetRan(chat[v]) => ResetRan(chat[v])')
    BY <1>2, <1>a, ResetStays DEF PollThread
  <2>2. /\ at'[u] \in {"adding", "media", "look", "done"} /\ \A w \in Jobs \ {u} : at'[w] = at[w] /\ sent'[w] = sent[w]
        /\ u = next /\ next <= last /\ UNCHANGED <<calls, leaked, kind>> /\ taken' = [taken EXCEPT ![u] = taken[u] + 1]
    BY <1>2, TakeMoves
  <2>3. step' = step /\ (chat[v] \in Listed => chat[v] \in Listed' \/ ResetRan(chat[v])')
    <3>1. CASE kind[u] = "reset" /\ Clear(chat[u])
      <4>1. step' = step /\ Listed' = Listed \ {chat[u]} /\ kind[u] = "reset"
        BY <3>1 DEF Clear, Listed
      <4>2. taken'[u] > 0
        BY <2>2 DEF PollerTypeOK
      <4>3. ResetRan(chat[u])'
        BY <2>1, <2>2, <4>1, <4>2 DEF ResetRan
      <4>4. chat[v] # chat[u] => (chat[v] \in Listed => chat[v] \in Listed')
        BY <4>1
      <4>5. chat[v] = chat[u] => ResetRan(chat[v])'
        BY <2>1, <4>3 DEF ResetRan
      <4> QED BY <4>1, <4>4, <4>5
    <3>2. CASE TakeText(u) \/ TakeMedia(u) \/ TakeLook(u) \/ TakeOther(u) \/ (TakeRaises(u) /\ UNCHANGED history)
      BY <3>2 DEF TakeText, TakeMedia, TakeLook, TakeOther, TakeRaises, history, Listed
    <3> QED BY <1>2, <3>1, <3>2 DEF Take, TakeReset, TakeRaises
  <2>4. CASE v # u
    BY <1>b, <2>1, <2>2, <2>3, <2>4
  <2>5. CASE v = u
    <3>1. at[v] = "new"
      BY <2>2, <2>5 DEF Offsets
    <3>2. calls'[v] = 0
      BY <1>a, <2>2, <3>1 DEF GateStage
    <3>3. at'[v] # "release"
      BY <2>2, <2>5
    <3>4. step'[v] \in {"append", "trim"} => chat'[v] \in Listed' \/ ResetRan(chat[v])'
      BY <1>a, <2>1, <2>3 DEF ListStage
    <3> QED BY <3>2, <3>3, <3>4 DEF ListStage
  <2> QED BY <2>4, <2>5
<1>3. ASSUME NEW u \in Jobs, Thread(u) PROVE Goal
  <2>1. chat' = chat /\ (ResetRan(chat[v]) => ResetRan(chat[v])')
    BY <1>3, <1>a, ResetStays
  <2>2. /\ Listed \subseteq Listed' /\ \A w \in Jobs \ {u} : step'[w] = step[w]
        /\ step'[u] \in {"append", "trim"} => step'[u] = step[u] \/ chat[u] \in Listed'
    BY <1>3, ThreadLists
  <2>3. /\ \A w \in Jobs \ {u} : at'[w] = at[w] /\ sent'[w] = sent[w]
        /\ leaked \subseteq leaked' /\ leaked' \subseteq leaked \cup {u}
    BY <1>3, ThreadMoves
  <2>4. CASE v # u
    <3>1. calls'[v] = calls[v]
      <4>1. CASE TryAcquire(u)
        BY <1>a, <2>4, <4>1 DEF TryAcquire, Call, GetChatSem, AcquireChat, AcquireGlobal, Enter, Reject
      <4>2. CASE ~TryAcquire(u)
        BY <1>3, <4>2 DEF Thread, Look, Extract, AddUser, SpawnWorker, SpawnFails, ReadContext, Answer, Record, Send,
                          WorkerRaises, GiveBack, Leave, ReleaseGlobal, ReleaseChat, vars
      <4> QED BY <4>1, <4>2
    <3> QED BY <1>b, <2>1, <2>2, <2>3, <2>4, <3>1
  <2>5. CASE v = u
    <3>1. step'[v] \in {"append", "trim"} => chat'[v] \in Listed' \/ ResetRan(chat[v])'
      BY <1>a, <2>1, <2>2, <2>5 DEF ListStage
    <3>2. SUFFICES /\ at'[v] = "release" /\ sent'[v] = "nothing" => ResetRan(chat[v])
                   /\ at'[v] = "done" /\ calls'[v] = 1 /\ v \notin leaked' /\ sent'[v] = "nothing" => ResetRan(chat[v])
      BY <2>1, <3>1 DEF ListStage
    <3> USE DEF Move, Say
    <3>3. CASE Look(u)
      BY <1>a, <2>5, <3>3 DEF Look, GateStage, vars
    <3>4. CASE Extract(u)
      BY <1>a, <2>5, <3>4 DEF Extract, GateStage, vars
    <3>5. CASE AddUser(u)
      BY <1>a, <2>5, <3>5 DEF AddUser, GateStage, vars
    <3>6. CASE TryAcquire(u)
      <4>1. at'[v] # "release" /\ (at'[v] = "done" => Tell(u))
        BY <1>a, <2>5, <3>6 DEF TryAcquire
      <4>2. Tell(u) => sent'[v] # "nothing"
        BY <1>a, <2>5 DEF Tell
      <4> QED BY <4>1, <4>2
    <3>7. CASE SpawnWorker(u)
      BY <1>a, <2>5, <3>7 DEF SpawnWorker
    <3>8. CASE SpawnFails(u)
      BY <1>a, <2>5, <3>8 DEF SpawnFails
    <3>9. CASE ReadContext(u)
      BY <1>a, <2>5, <3>9 DEF ReadContext
    <3>10. CASE Answer(u)
      BY <1>a, <2>5, <3>10 DEF Answer
    <3>11. CASE Record(u)
      <4>1. CASE at' = [at EXCEPT ![u] = IF step'[u] = "out" THEN "send" ELSE at[u]]
        BY <1>a, <2>5, <3>11, <4>1 DEF Record
      <4>2. CASE AddRaises(u, chat[u])
        <5>1. step[v] \in {"append", "trim"} /\ chat[v] \notin Listed
          BY <2>5, <4>2 DEF AddRaises
        <5>2. ResetRan(chat[v])
          BY <1>a, <5>1 DEF ListStage
        <5> QED BY <5>2
      <4> QED BY <3>11, <4>1, <4>2 DEF Record
    <3>12. CASE Send(u)
      BY <1>a, <2>5, <3>12 DEF Send
    <3>13. CASE GiveBack(u)
      BY <1>a, <2>5, <3>13 DEF GiveBack, ListStage
    <3>14. CASE WorkerRaises(u)
      BY <1>a, <2>5, <3>14 DEF WorkerRaises
    <3> QED BY <1>3, <3>3, <3>4, <3>5, <3>6, <3>7, <3>8, <3>9, <3>10, <3>11, <3>12, <3>13, <3>14 DEF Thread
  <2> QED BY <2>4, <2>5
<1>4. CASE Crash
  <2>1. step'[v] = "out" /\ at'[v] # "release" /\ calls'[v] = 0
    BY <1>4 DEF Crash
  <2> QED BY <2>1 DEF ListStage
<1>5. CASE UNCHANGED pollerVars
  <2>1. UNCHANGED <<chat, at, sent, calls, leaked, step, kind, taken, memory>>
    BY <1>5 DEF pollerVars, vars, pollVars, history
  <2>2. Listed' = Listed /\ (ResetRan(chat[v]) => ResetRan(chat[v])')
    BY <2>1 DEF Listed, ResetRan
  <2> QED BY <1>b, <2>1, <2>2
<1>6. CASE FetchDies
  <2>1. chat' = chat /\ (ResetRan(chat[v]) => ResetRan(chat[v])')
    BY <1>6, <1>a, ResetStays DEF PollThread
  <2>2. UNCHANGED <<at, sent, calls, leaked, step>> /\ Listed' = Listed
    BY <1>6 DEF FetchDies, vars, history, Listed
  <2> QED BY <1>b, <2>1, <2>2
<1> QED BY <1>1, <1>2, <1>3, <1>4, <1>5, <1>6 DEF PollerNext, PollThread

\* Texts are on the poll thread until their worker runs, and it takes up the next
\* update only when it is out of the last one.
LEMMA OneAtATime ==
  /\ PollerTypeOK /\ Offsets /\ OnePollThread /\ (\A u \in Jobs : KindStage(u)) /\ [PollerNext]_pollerVars
  => OnePollThread' /\ \A u \in Jobs : KindStage(u)'
<1> SUFFICES ASSUME PollerTypeOK, Offsets, OnePollThread, \A u \in Jobs : KindStage(u), [PollerNext]_pollerVars
             PROVE  OnePollThread' /\ \A u \in Jobs : KindStage(u)'
  OBVIOUS
<1>a. at \in [Jobs -> Stages]
  BY DEF PollerTypeOK
<1>b. ASSUME UNCHANGED <<at, kind>> PROVE OnePollThread' /\ \A u \in Jobs : KindStage(u)'
  BY <1>b DEF OnePollThread, OnPollThread, KindStage
<1>1. CASE FetchDies \/ \E n \in 0 .. Cardinality(Jobs) : Fetch(n)
  BY <1>1, <1>b DEF Fetch, FetchDies
<1>2. ASSUME NEW u \in Jobs, Take(u) PROVE OnePollThread' /\ \A v \in Jobs : KindStage(v)'
  <2>1. \A v \in Jobs \ {u} : at'[v] = at[v]
    BY <1>2, TakeMoves
  <2>2. kind' = kind /\ at'[u] \in {"adding", "media", "look", "done"}
    BY <1>2, TakeMoves
  <2>3. \A v \in Jobs : ~ OnPollThread(v)
    BY <1>2 DEF Take, TakeText, TakeMedia, TakeReset, TakeLook, TakeOther, TakeRaises, Advance, Free
  <2>4. \A v \in Jobs \ {u} : ~ OnPollThread(v)'
    BY <2>1, <2>2, <2>3 DEF OnPollThread
  <2>5. /\ at'[u] = "media" => kind[u] = "media"
        /\ at'[u] = "adding" => kind[u] = "text"
    BY <1>2, <1>a DEF Take, TakeText, TakeMedia, TakeReset, TakeLook, TakeOther, TakeRaises
  <2>6. \A v \in Jobs : KindStage(v)'
    BY <2>1, <2>2, <2>5 DEF KindStage
  <2> QED BY <2>4, <2>6 DEF OnePollThread
<1>3. ASSUME NEW u \in Jobs, Thread(u) PROVE OnePollThread' /\ \A v \in Jobs : KindStage(v)'
  <2>1. \A v \in Jobs \ {u} : at'[v] = at[v]
    BY <1>3, ThreadMoves
  <2>2. kind' = kind
    BY <1>3, ThreadMoves
  <2>3. /\ at'[u] # "media" \/ at'[u] = at[u]
        /\ at'[u] \in {"adding", "gate", "spawn"} => at[u] \in {"media", "adding", "gate"} \/ at'[u] = at[u]
        /\ at'[u] = "look" => at[u] = "look"
        /\ at'[u] = "spawn" => at[u] \in {"gate", "spawn"}
    BY <1>a, <1>3 DEF Thread, Look, Extract, AddUser, TryAcquire, SpawnWorker, SpawnFails, ReadContext, Answer, Record, Send,
                      WorkerRaises, GiveBack, Move
  <2>4. KindStage(u)' /\ (OnPollThread(u)' => OnPollThread(u))
    BY <2>2, <2>3 DEF KindStage, OnPollThread
  <2>5. \A v \in Jobs : KindStage(v)' /\ (OnPollThread(v)' => OnPollThread(v))
    BY <2>1, <2>2, <2>4 DEF KindStage, OnPollThread
  <2> QED BY <2>5 DEF OnePollThread
<1>4. CASE Crash
  BY <1>4 DEF Crash, OnePollThread, OnPollThread, KindStage
<1>5. CASE UNCHANGED pollerVars
  BY <1>5, <1>b DEF pollerVars, pollVars
<1> QED BY <1>1, <1>2, <1>3, <1>4, <1>5 DEF PollerNext, PollThread

\* A gate nobody has called has its accounts in order.
LEMMA FreshGate ==
  ASSUME pc = [u \in Jobs |-> "idle"], queued = [c \in Chats |-> 0], chatSem = [c \in Chats |-> MaxPerChat],
         globalSem = MaxGlobal, active = 0
  PROVE  UnitsConserved /\ ActiveExact /\ QueuedAtMost
<1>1. /\ At({"active"}) = {} /\ GlobalHolders = {}
      /\ \A c \in Chats : ChatHolders(c) = {} /\ Waiting(c) = {}
  BY DEF At, GlobalHolders, ChatHolders, Waiting
<1> QED BY <1>1, FS_EmptySet, GateLimits DEF UnitsConserved, ActiveExact, QueuedAtMost

\* The threads keep the accounts of the gate, and a new process starts with fresh ones.
LEMMA AccountsStep ==
  /\ PollerTypeOK /\ UnitsConserved /\ ActiveExact /\ QueuedAtMost /\ [PollerNext]_pollerVars
  => (UnitsConserved /\ ActiveExact /\ QueuedAtMost)'
<1> SUFFICES ASSUME PollerTypeOK, UnitsConserved, ActiveExact, QueuedAtMost, [PollerNext]_pollerVars
             PROVE  (UnitsConserved /\ ActiveExact /\ QueuedAtMost)'
  OBVIOUS
<1>1. ASSUME [Next]_vars PROVE (UnitsConserved /\ ActiveExact /\ QueuedAtMost)'
  <2>1. TypeOK
    BY DEF PollerTypeOK
  <2> QED BY <1>1, <2>1, UnitsStep, CounterStep, WaitingStep
<1>2. CASE PollThread \/ \E u \in Jobs : Thread(u)
  BY <1>1, <1>2, GateSteps
<1>3. CASE Crash
  <2>1. /\ At({"active"})' = {} /\ GlobalHolders' = {}
        /\ \A c \in Chats : ChatHolders(c)' = {} /\ Waiting(c)' = {}
    BY <1>3 DEF Crash, At, GlobalHolders, ChatHolders, Waiting
  <2>2. queued' = [c \in Chats |-> 0] /\ chatSem' = [c \in Chats |-> MaxPerChat] /\ globalSem' = MaxGlobal /\ active' = 0
    BY <1>3 DEF Crash
  <2>3. UnitsConserved'
    BY <2>1, <2>2, FS_EmptySet, GateLimits DEF UnitsConserved
  <2>4. ActiveExact'
    BY <2>1, <2>2, FS_EmptySet DEF ActiveExact
  <2>5. QueuedAtMost'
    BY <2>1, <2>2, FS_EmptySet, SMTT(30) DEF QueuedAtMost
  <2> QED BY <2>3, <2>4, <2>5
<1>4. CASE UNCHANGED pollerVars
  BY <1>1, <1>4 DEF pollerVars
<1> QED BY <1>2, <1>3, <1>4 DEF PollerNext

\* What holds of the poll thread and its threads holds always.
LEMMA PollerInvariance ==
  PollerSpec => [](/\ PollerTypeOK /\ Offsets /\ Delivery /\ (\A u \in Jobs : GateStage(u) /\ ListStage(u)) /\ Answered
                   /\ OnePollThread /\ (\A u \in Jobs : KindStage(u)) /\ UnitsConserved /\ ActiveExact /\ QueuedAtMost)
<1> DEFINE Inv == /\ PollerTypeOK /\ Offsets /\ Delivery /\ (\A u \in Jobs : GateStage(u) /\ ListStage(u)) /\ Answered
                  /\ OnePollThread /\ (\A u \in Jobs : KindStage(u)) /\ UnitsConserved /\ ActiveExact /\ QueuedAtMost
<1>1. PollerInit => Inv
  <2> SUFFICES ASSUME PollerInit PROVE Inv
    OBVIOUS
  <2> USE DEF PollerInit, Init, HistoryInit
  <2>1. TypeOK
    BY GateLimits DEF TypeOK, Points
  <2>2. HistoryTypeOK
    <3>1. Listed = {} /\ memory \in [Listed -> Seq(Entry)]
      BY DEF Listed
    <3>2. <<>> \in Seq(Entry)
      OBVIOUS
    <3> QED BY <3>1, <3>2 DEF HistoryTypeOK
  <2>3. PollerTypeOK
    BY <2>1, <2>2 DEF PollerTypeOK, Stages
  <2>4. Offsets /\ Delivery
    BY UpdateNumbers, UpdateIds, GateJobs, FS_CardinalityType DEF Offsets, Delivery
  <2>5. (\A u \in Jobs : GateStage(u) /\ ListStage(u) /\ KindStage(u)) /\ OnePollThread
    BY DEF GateStage, ListStage, KindStage, OnePollThread, OnPollThread
  <2>6. Answered
    BY DEF Answered
  <2>7. UnitsConserved /\ ActiveExact /\ QueuedAtMost
    BY FreshGate
  <2> QED BY <2>3, <2>4, <2>5, <2>6, <2>7
<1>2. Inv /\ [PollerNext]_pollerVars => Inv'
  <2> SUFFICES ASSUME Inv, [PollerNext]_pollerVars PROVE Inv'
    OBVIOUS
  <2>1. PollerTypeOK' /\ Offsets' /\ Delivery'
    BY PollerTypeStep, OffsetsStep
  <2>2. \A u \in Jobs : GateStage(u)'
    BY GateStageStep
  <2>3. (\A u \in Jobs : ListStage(u)') /\ Answered'
    BY AnsweredStep
  <2>4. OnePollThread' /\ \A u \in Jobs : KindStage(u)'
    BY OneAtATime
  <2>5. (UnitsConserved /\ ActiveExact /\ QueuedAtMost)'
    BY AccountsStep
  <2> QED BY <2>1, <2>2, <2>3, <2>4, <2>5
<1> QED BY <1>1, <1>2, PTL DEF PollerSpec

\* Updates, stages, slots and lists keep their types.
THEOREM PollerTypes == PollerSpec => []PollerTypeOK
BY PollerInvariance, PTL

\* The gate keeps its accounts inside the poller: no unit is lost or made, the
\* limits are kept and no counter is too large, also over the deaths of the process.
THEOREM GateInPoller == PollerSpec => []GateSafe
<1>1. PollerTypeOK /\ UnitsConserved /\ ActiveExact /\ QueuedAtMost => GateSafe
  BY LimitsFromUnits, NobodyStuckFromUnits DEF GateSafe, PollerTypeOK
<1> QED BY <1>1, PollerInvariance, PTL

\* A text at a full queue finds media in it: the poll thread works for the text, so
\* no other text is at the gate.
LEMMA TextRefused ==
  ASSUME PollerTypeOK, \A u \in Jobs : GateStage(u) /\ KindStage(u), OnePollThread, QueuedAtMost
  PROVE  TextsWait
<1> SUFFICES ASSUME NEW u \in Jobs,
                    kind[u] = "text", at[u] = "gate", pc[u] = "idle", queued[chat[u]] >= QueueOverflow
             PROVE  Cardinality({v \in Waiting(chat[u]) : kind[v] = "media"}) >= QueueOverflow
  BY DEF TextsWait
<1>1. /\ at \in [Jobs -> Stages] /\ chat \in [Jobs -> Chats] /\ queued \in [Chats -> Nat]
      /\ pc \in [Jobs -> Points]
  BY DEF PollerTypeOK, TypeOK
<1>2. ASSUME NEW v \in Waiting(chat[u]) PROVE kind[v] = "media"
  <2>1. v \in Jobs /\ pc[v] \in {"counted", "wait_chat", "wait_global", "entering"} /\ v # u
    BY <1>2 DEF Waiting, Of, At
  <2>2. at[v] = "gate"
    BY <1>1, <2>1 DEF GateStage, Stages
  <2>3. kind[v] # "text"
    BY <2>1, <2>2 DEF OnePollThread, OnPollThread
  <2> QED BY <2>1, <2>2, <2>3 DEF KindStage
<1>3. {v \in Waiting(chat[u]) : kind[v] = "media"} = Waiting(chat[u])
  BY <1>2
<1>4. Waiting(chat[u]) \in SUBSET Jobs /\ chat[u] \in Chats
  BY <1>1 DEF Waiting, Of, At
<1>5. queued[chat[u]] <= Cardinality(Waiting(chat[u])) /\ Cardinality(Waiting(chat[u])) \in Nat
  BY <1>4, JobSets DEF QueuedAtMost
<1> QED BY <1>1, <1>3, <1>4, <1>5, GateLimits, SMTT(30)

\* A unit that is missing is held, and its holder lives unless it has leaked: the slot
\* of a thread that could not be started is the only one nobody gives back.
LEMMA GateWaits ==
  ASSUME PollerTypeOK, \A u \in Jobs : GateStage(u), UnitsConserved
  PROVE  WaitsForTheLiving
<1> SUFFICES ASSUME NEW u \in Jobs, at[u] = "gate", pc[u] # "idle", ~ Starved(chat[u])
             PROVE  \E v \in Jobs \ leaked : CanGoOn(v)
  BY DEF WaitsForTheLiving
<1> DEFINE c == chat[u]
<1>1. /\ c \in Chats /\ chatSem \in [Chats -> Nat] /\ globalSem \in Nat /\ leaked \in SUBSET Jobs
      /\ pc \in [Jobs -> Points]
  BY DEF PollerTypeOK, TypeOK
<1>2. \A v \in leaked : pc[v] = "active"
  BY <1>1 DEF GateStage
<1>3. /\ u \notin leaked
      /\ pc[u] \in {"counted", "wait_chat", "wait_global", "entering"}
  BY DEF GateStage
<1>4. /\ Cardinality(leaked) # MaxGlobal
      /\ Cardinality(leaked \cap Of(c)) # MaxPerChat
  BY DEF Starved
<1>5. globalSem > 0 \/ \E v \in Jobs \ leaked : CanGoOn(v)
  <2> SUFFICES ASSUME globalSem = 0
               PROVE  \E v \in Jobs \ leaked : CanGoOn(v)
    BY <1>1
  <2>1. GlobalHolders \in SUBSET Jobs
    BY DEF GlobalHolders, At
  <2>2. Cardinality(GlobalHolders) = MaxGlobal
    BY <2>1, JobSets, GateLimits DEF UnitsConserved
  <2>3. leaked \subseteq GlobalHolders
    BY <1>1, <1>2 DEF GlobalHolders, At
  <2>4. PICK v \in GlobalHolders : v \notin leaked
    BY <1>4, <2>2, <2>3
  <2>5. CanGoOn(v)
    BY <2>4 DEF GlobalHolders, At, CanGoOn
  <2> QED BY <2>1, <2>4, <2>5
<1>6. CASE pc[u] \in {"counted", "entering"} \/ (pc[u] = "wait_chat" /\ chatSem[c] > 0)
  BY <1>3, <1>6 DEF CanGoOn
<1>7. CASE pc[u] = "wait_global"
  BY <1>3, <1>5, <1>7 DEF CanGoOn
<1>8. CASE pc[u] = "wait_chat" /\ chatSem[c] = 0
  <2>1. ChatHolders(c) \in SUBSET Jobs
    BY DEF ChatHolders, Of, At
  <2>2. Cardinality(ChatHolders(c)) = MaxPerChat
    <3>1. chatSem[c] + Cardinality(ChatHolders(c)) = MaxPerChat
      BY <1>1 DEF UnitsConserved
    <3>2. Cardinality(ChatHolders(c)) \in Nat
      BY <2>1, JobSets
    <3> QED BY <1>8, <3>1, <3>2, GateLimits
  <2>3. leaked \cap Of(c) \subseteq ChatHolders(c) /\ ChatHolders(c) \subseteq Of(c)
    BY <1>1, <1>2 DEF ChatHolders, Of, At
  <2>4. PICK v \in ChatHolders(c) : v \notin leaked
    <3>1. ChatHolders(c) # leaked \cap Of(c)
      BY <1>4, <2>2
    <3> QED BY <2>3, <3>1
  <2>5. CanGoOn(v) \/ pc[v] = "wait_global"
    BY DEF ChatHolders, At, CanGoOn
  <2> QED BY <1>5, <2>1, <2>4, <2>5 DEF CanGoOn
<1> QED BY <1>1, <1>3, <1>6, <1>7, <1>8

\* No update is lost or taken up twice by a process, slots are held by the threads
\* that work for a chat and by nothing else, a worker that ends without a word did so
\* because its chat was reset or an exception went past its handler, a text is not turned away for other texts, and whoever
\* waits for a slot waits for a living thread, unless all slots of his chat, or all
\* there are, have leaked.
THEOREM PollerIsSafe == PollerSpec => []PollerSafe
<1>1. ASSUME PollerTypeOK, \A u \in Jobs : GateStage(u) PROVE SlotsAccounted
  <2> SUFFICES ASSUME NEW u \in Jobs
               PROVE  pc[u] \in {"active", "leaving", "unlocked"}
                        <=> u \in leaked \/ at[u] \in {"spawn", "worker", "answer", "record", "send", "release"}
    BY DEF SlotsAccounted
  <2>1. at[u] \in Stages /\ GateStage(u)
    BY <1>1 DEF PollerTypeOK
  <2> QED BY <2>1 DEF GateStage, Stages
<1>2. /\ PollerTypeOK /\ Offsets /\ Delivery /\ (\A u \in Jobs : GateStage(u) /\ ListStage(u)) /\ Answered
      /\ OnePollThread /\ (\A u \in Jobs : KindStage(u)) /\ UnitsConserved /\ ActiveExact /\ QueuedAtMost
      => PollerSafe
  BY <1>1, TextRefused, GateWaits DEF PollerSafe
<1> QED BY <1>2, PollerInvariance, PTL
=============================================================================
