------------------------- MODULE CredentialRotation -------------------------
(* superpowers/credential_rotation.py: when each credential was last rotated, *)
(* how long it may be kept, and the alerts `claw vault rotation check` makes  *)
(* of it.  The policies are a YAML file that each call loads, changes and     *)
(* writes back in place.                                                      *)
EXTENDS Integers, FiniteSets

CONSTANTS
  RotProcs,        \* processes that use the policies
  RotKeys,         \* names of credentials
  RotMaxAges,      \* the limits, in days, an owner may set
  DefaultMaxAge,   \* DEFAULT_MAX_AGE_DAYS (90)
  RotHorizon,      \* bound: days that pass
  MaxRotCalls      \* bound: calls made

ASSUME RotAssumption ==
  /\ RotMaxAges \subseteq Nat /\ DefaultMaxAge \in Nat
  /\ RotHorizon \in Nat /\ MaxRotCalls \in Nat

VARIABLES
  policies,  \* rotation_policies.yaml
  checker,   \* each process's CredentialRotationChecker and the call it is in
  today, rotCalls,
  rotated,   \* history: the day each credential was last really rotated, or -1
  limits     \* history: every limit ever set for each credential, and the default

rotVars == <<policies, checker, today, rotCalls, rotated, limits>>

NoPolicy == [maxAge |-> DefaultMaxAge, last |-> -1]
NoPolicies == [k \in RotKeys |-> NoPolicy]
Policies == [RotKeys -> [maxAge : RotMaxAges \cup {DefaultMaxAge}, last : -1..RotHorizon]]

\* Mutant: past its limit a credential is left out.
LateIsOk(p, day) ==
  IF p.last = -1 THEN "warning"
  ELSE IF day - p.last > p.maxAge THEN "ok"
  ELSE IF day - p.last >= (p.maxAge * 4) \div 5 THEN "warning" ELSE "ok"

\* check_key on a given day; the warning starts at int(0.8 * max_age).
AlertOf(p, day) ==
  IF p.last = -1 \/ day - p.last >= p.maxAge THEN "expired"
  ELSE IF day - p.last >= (p.maxAge * 4) \div 5 THEN "warning" ELSE "ok"

RotInit ==
  /\ policies = NoPolicies
  /\ checker = [c \in RotProcs |-> [at |-> "idle", loaded |-> NoPolicies]]
  /\ today = 0 /\ rotCalls = 0
  /\ rotated = [k \in RotKeys |-> -1]
  /\ limits = [k \in RotKeys |-> {DefaultMaxAge}]

\* __init__ loads the file; one that is empty or cannot be read is no policies.
LoadPolicies(c) ==
  /\ checker[c].at = "idle"
  /\ rotCalls < MaxRotCalls
  /\ rotCalls' = rotCalls + 1
  /\ checker' = [checker EXCEPT ![c] = [at |-> "loaded", loaded |-> policies]]
  /\ UNCHANGED <<policies, today, rotated, limits>>

SetPolicy(c) ==
  /\ checker[c].at = "loaded"
  /\ \E k \in RotKeys, days \in RotMaxAges :
       /\ checker' = [checker EXCEPT ![c] = [at |-> "open", loaded |->
            [checker[c].loaded EXCEPT ![k] = [maxAge |-> days, last |-> checker[c].loaded[k].last]]]]
       /\ limits' = [limits EXCEPT ![k] = @ \cup {days}]
  /\ UNCHANGED <<policies, today, rotCalls, rotated>>

\* Called once the credential has been rotated.
MarkRotated(c) ==
  /\ checker[c].at = "loaded"
  /\ \E k \in RotKeys :
       /\ checker' = [checker EXCEPT ![c] = [at |-> "open", loaded |->
            [checker[c].loaded EXCEPT ![k] = [maxAge |-> checker[c].loaded[k].maxAge, last |-> today]]]]
       /\ rotated' = [rotated EXCEPT ![k] = today]
  /\ UNCHANGED <<policies, today, rotCalls, limits>>

\* _save: write_text empties the file and then fills it.
OpenPolicies(c) ==
  /\ checker[c].at = "open"
  /\ policies' = NoPolicies
  /\ checker' = [checker EXCEPT ![c].at = "write"]
  /\ UNCHANGED <<today, rotCalls, rotated, limits>>

WritePolicies(c) ==
  /\ checker[c].at = "write"
  /\ policies' = checker[c].loaded
  /\ checker' = [checker EXCEPT ![c].at = "idle"]
  /\ UNCHANGED <<today, rotCalls, rotated, limits>>

\* A check that only reads, or a process killed with the file half written.
LeavePolicies(c) ==
  /\ checker[c].at # "idle"
  /\ checker' = [checker EXCEPT ![c].at = "idle"]
  /\ UNCHANGED <<policies, today, rotCalls, rotated, limits>>

Day ==
  /\ today < RotHorizon
  /\ today' = today + 1
  /\ UNCHANGED <<policies, checker, rotCalls, rotated, limits>>

RotNext ==
  \/ Day
  \/ \E c \in RotProcs : \/ LoadPolicies(c) \/ SetPolicy(c) \/ MarkRotated(c)
                         \/ OpenPolicies(c) \/ WritePolicies(c) \/ LeavePolicies(c)

RotSpec == RotInit /\ [][RotNext]_rotVars

-----------------------------------------------------------------------------
\* run_rotation_check: the credentials of the vault worth an alert.
Actionable(keys, day) == {k \in keys : AlertOf(policies[k], day) # "ok"}

RotTypeOK ==
  /\ policies \in Policies
  /\ checker \in [RotProcs -> [at : {"idle", "loaded", "open", "write"}, loaded : Policies]]
  /\ today \in 0..RotHorizon /\ rotCalls \in 0..MaxRotCalls
  /\ rotated \in [RotKeys -> -1..RotHorizon]
  /\ limits \in [RotKeys -> SUBSET (RotMaxAges \cup {DefaultMaxAge})]

\* What a file or a checker says of a credential never goes beyond what was done:
\* a rotation at most as late as the last one, and a limit that was once set.
Recorded(p, k) == p.last <= rotated[k] /\ p.maxAge \in limits[k]

\* It is so of the file and of every checker that has yet to write it.
RotInv ==
  /\ \A k \in RotKeys : rotated[k] <= today /\ DefaultMaxAge \in limits[k] /\ Recorded(policies[k], k)
  /\ \A c \in RotProcs, k \in RotKeys : Recorded(checker[c].loaded[k], k)

\* A credential left out of the alert was rotated, and less than its largest
\* limit ago: calls that overwrite each other and a process killed while it
\* writes make the file forget, and forgetting errs on the side of an alert.
NoAlertMeansRotated ==
  \A k \in RotKeys \ Actionable(RotKeys, today) :
    /\ rotated[k] # -1
    /\ \E days \in limits[k] : today - rotated[k] < days
=============================================================================
