----------------------------- MODULE RateLimiter -----------------------------
(* The token buckets of msg_gateway/middleware.py and dashboard/middleware.py *)
(* (RateLimitMiddleware). A tick is the time in which one unit flows into a   *)
(* bucket; a request costs RequestCost units. dispatch holds no lock, but it  *)
(* awaits nothing before the request is let through.                          *)
EXTENDS Integers

CONSTANTS
  IPs, Users,      \* addresses of clients, users in request.state
  NoUser,          \* a request without a user
  BucketCapacity,  \* client -> units its bucket holds (per_ip or per_user requests)
  RequestCost,     \* units of one request
  IdleLimit,       \* the 600 s of _cleanup_stale_buckets, in ticks
  RateHorizon      \* bound: the ticks that pass

Clients == IPs \cup Users

ASSUME RateAssumption ==
  /\ IPs \cap Users = {} /\ NoUser \notin Clients
  /\ BucketCapacity \in [Clients -> Nat] /\ RequestCost \in Nat \ {0}
  /\ \A c \in Clients : BucketCapacity[c] >= RequestCost /\ IdleLimit >= BucketCapacity[c]
  /\ IdleLimit \in Nat /\ RateHorizon \in Nat

VARIABLES
  rateClock,    \* time.monotonic()
  buckets,      \* the clients that have a bucket
  tokens,       \* client -> units in its bucket
  lastRefill,   \* client -> time they were counted
  lastCleanup,
  lastRequest   \* history: who asked last, and whether the request was let through

rateVars == <<rateClock, buckets, tokens, lastRefill, lastCleanup, lastRequest>>

Lesser(a, b) == IF a <= b THEN a ELSE b

\* Mutant: a bucket is filled up with what the time allows, and over.
RefilledOver(c) == tokens[c] + (rateClock - lastRefill[c])

\* The first half of consume.
Refilled(c) == Lesser(BucketCapacity[c], tokens[c] + (rateClock - lastRefill[c]))

\* Mutant: every bucket that was not used just now is stale.
NotStaleEager == {c \in buckets : lastRefill[c] >= rateClock}

\* The buckets that a cleanup leaves.
NotStale == {c \in buckets : lastRefill[c] >= rateClock - IdleLimit}

\* _cleanup_stale_buckets: at most once in IdleLimit.
CleanupDue == rateClock - lastCleanup >= IdleLimit
Kept == IF CleanupDue THEN NotStale ELSE buckets

RateInit ==
  /\ rateClock = 0 /\ buckets = {} /\ lastCleanup = 0
  /\ tokens = [c \in Clients |-> 0] /\ lastRefill = [c \in Clients |-> 0]
  /\ lastRequest = [ip |-> NoUser, user |-> NoUser, ok |-> FALSE]

\* dispatch: the bucket of the address first, that of the user only if it gave.
Dispatch(ip, user) ==
  LET available(c) == IF c \in Kept THEN Refilled(c) ELSE BucketCapacity[c]
      asked == IF available(ip) < RequestCost THEN {ip} ELSE {ip, user} \ {NoUser}
      gives(c) == available(c) >= RequestCost
  IN /\ buckets' = Kept \cup asked
     /\ tokens' = [c \in Clients |->
                     IF c \in asked THEN available(c) - (IF gives(c) THEN RequestCost ELSE 0)
                     ELSE IF c \in Kept THEN tokens[c] ELSE 0]
     /\ lastRefill' = [c \in Clients |-> IF c \in asked THEN rateClock
                                         ELSE IF c \in Kept THEN lastRefill[c] ELSE 0]
     /\ lastCleanup' = IF CleanupDue THEN rateClock ELSE lastCleanup
     /\ lastRequest' = [ip |-> ip, user |-> user, ok |-> \A c \in asked : gives(c)]
     /\ UNCHANGED rateClock

RateTick ==
  /\ rateClock < RateHorizon
  /\ rateClock' = rateClock + 1
  /\ UNCHANGED <<buckets, tokens, lastRefill, lastCleanup, lastRequest>>

RateNext == RateTick \/ \E ip \in IPs, user \in Users \cup {NoUser} : Dispatch(ip, user)

RateSpec == RateInit /\ [][RateNext]_rateVars

-----------------------------------------------------------------------------
RateTypeOK ==
  /\ rateClock \in Nat /\ buckets \subseteq Clients
  /\ tokens \in [Clients -> Nat] /\ lastRefill \in [Clients -> Nat] /\ lastCleanup \in Nat
  /\ \A c \in Clients : tokens[c] <= BucketCapacity[c] /\ lastRefill[c] <= rateClock
  /\ lastCleanup <= rateClock
  /\ lastRequest \in [ip : IPs \cup {NoUser}, user : Users \cup {NoUser}, ok : BOOLEAN]

\* What a client may still ask for at this moment; a client without a bucket
\* is given a full one.
Allowance(c) == IF c \in buckets THEN Refilled(c) ELSE BucketCapacity[c]

\* The units the last request took from a client: those of a refused one too,
\* from the address when it was the user's bucket that was empty.
Spent(c, request, had) ==
  IF c \in {request.ip, request.user} /\ (request.ok \/ (c = request.ip /\ had >= RequestCost))
  THEN RequestCost ELSE 0

\* A client's allowance grows by one unit in a tick, up to its capacity, and by
\* nothing else: neither forgetting a bucket that has been idle for IdleLimit
\* nor making a new one gives a client requests, and every request that is let
\* through is paid for by its address and its user. So in any time t a client
\* has at most capacity + t units' worth of requests.
BudgetKept ==
  [][\A c \in Clients :
       IF rateClock' # rateClock
       THEN Allowance(c)' = Lesser(BucketCapacity[c], Allowance(c) + 1)
       ELSE /\ Allowance(c)' = Allowance(c) - Spent(c, lastRequest', Allowance(c))
            /\ Allowance(c)' >= 0]_rateVars
=============================================================================
