----------------------------- MODULE PolicyEngine -----------------------------
(* superpowers/policy_engine.py: the list of policies, built in, loaded and   *)
(* added, and the three checks against it. A pattern is the set of commands,  *)
(* paths or secrets it matches; one that does not compile is empty.           *)
EXTENDS Integers, Sequences, FiniteSets

CONSTANTS
  Spellings,       \* commands, and file paths as they are written
  ResolvedPath,    \* spelling -> what resolve() makes of it, a command itself
  Secrets,         \* kinds of secrets in an output
  BuiltInSecrets,  \* those of _DEFAULT_SECRET_PATTERNS
  BuiltIn,         \* _default_policies()
  PolicyNames,     \* names of policies
  PolicyConfigs,   \* contents of policies.yaml: sequences of entries
  MaxPolicies      \* bound: policies in the list

RuleActions == {"allow", "deny", "require_approval"}
PolicyRules == [action : RuleActions, covers : SUBSET Spellings, secrets : SUBSET Secrets]
PoliciesOf(rules) == [kind : {"policy"}, name : PolicyNames, rules : SUBSET rules]
PolicyList == Seq(PoliciesOf(PolicyRules))

\* An entry of policies.yaml: a policy, whose rules may name an unknown action, something
\* that is not a mapping, or one at which the loop raises ("rules:" without a value).
ConfigRules == [action : RuleActions \cup {"unknown"}, covers : SUBSET Spellings, secrets : SUBSET Secrets]
ConfigEntries == PoliciesOf(ConfigRules) \cup [kind : {"other", "raises"}]

ASSUME PolicyAssumption ==
  /\ ResolvedPath \in [Spellings -> Spellings] /\ BuiltInSecrets \subseteq Secrets
  /\ \A s \in Spellings : ResolvedPath[ResolvedPath[s]] = ResolvedPath[s]
  /\ BuiltIn \in PolicyList /\ PolicyConfigs \subseteq Seq(ConfigEntries)
  /\ MaxPolicies \in Nat /\ MaxPolicies >= Len(BuiltIn)

VARIABLES
  policies,   \* _policies
  lastEdit    \* history: what the last call was: init, load, add or remove

policyVars == <<policies, lastEdit>>

\* The items of a list at the given places, in order.
ItemsAt(list, places) ==
  LET place(n) == CHOOSE i \in places : Cardinality({j \in places : j <= i}) = n
  IN [n \in 1..Cardinality(places) |-> list[place(n)]]

\* Rules with an unknown action are left out.
Readable(entry) == [entry EXCEPT !.rules = {r \in entry.rules : r.action \in RuleActions}]

\* What is no mapping is passed over; the entries before one that raises are in the list
\* already.
Read(config) ==
  LET read == {i \in DOMAIN config : config[i].kind = "policy" /\ \A j \in 1 .. i : config[j].kind # "raises"}
      entries == ItemsAt(config, read)
  IN [n \in 1..Cardinality(read) |-> Readable(entries[n])]

PolicyInit == policies = BuiltIn /\ lastEdit = "init"

\* Mutant: what is loaded takes the place of what was there.
LoadReplaces(config) ==
  /\ policies' = Read(config) /\ Len(policies') <= MaxPolicies /\ lastEdit' = "load"

\* load_policies; the constructor calls it, and a second load appends again.
LoadPolicies(config) ==
  /\ policies' = policies \o Read(config) /\ Len(policies') <= MaxPolicies /\ lastEdit' = "load"

AddPolicy(policy) ==
  /\ policies' = Append(policies, policy) /\ Len(policies') <= MaxPolicies /\ lastEdit' = "add"

\* Every policy of that name goes, a built-in one too.
RemovePolicy(name) ==
  /\ policies' = ItemsAt(policies, {i \in DOMAIN policies : policies[i].name # name}) /\ lastEdit' = "remove"

\* ---- the checks

\* A pass over all policies: the first with a rule of this action for one of
\* the names; 0 when there is none.
Matches(action, names) ==
  {i \in DOMAIN policies : \E r \in policies[i].rules : r.action = action /\ r.covers \cap names # {}}
FirstMatch(action, names) ==
  LET found == Matches(action, names)
  IN IF found = {} THEN 0 ELSE CHOOSE i \in found : \A j \in found : i <= j

\* check_command and check_file_access: two passes, deny before approval.
Decide(names) ==
  LET deny == FirstMatch("deny", names)
      approve == FirstMatch("require_approval", names)
  IN IF deny # 0 THEN [action |-> "deny", policy |-> policies[deny].name]
     ELSE IF approve # 0 THEN [action |-> "require_approval", policy |-> policies[approve].name]
     ELSE [action |-> "allow", policy |-> ""]

CheckCommand(command) == Decide({command})
CheckFileAccess(path) == Decide({path, ResolvedPath[path]})

\* check_output: what remains of the secrets in an output.
CheckOutput(output) ==
  (output \ BuiltInSecrets) \ UNION {UNION {r.secrets : r \in policies[i].rules} : i \in DOMAIN policies}

PolicyNext ==
  \/ \E config \in PolicyConfigs : LoadPolicies(config)
  \/ \E config \in PolicyConfigs : \E i \in DOMAIN Read(config) : AddPolicy(Read(config)[i])
  \/ \E i \in DOMAIN policies : RemovePolicy(policies[i].name)

PolicySpec == PolicyInit /\ [][PolicyNext]_policyVars

-----------------------------------------------------------------------------
PolicyTypeOK ==
  /\ policies \in PolicyList /\ Len(policies) <= MaxPolicies
  /\ lastEdit \in {"init", "load", "add", "remove"}

Strength(action) == CASE action = "allow" -> 0 [] action = "require_approval" -> 1 [] action = "deny" -> 2

Weaker(d, e) == Strength(d.action) < Strength(e.action)

\* No load, half-done load or addition weakens a decision about any command or
\* file, takes the decision from the policy that denied it, or lets a secret
\* through that was redacted before; only remove_policy may. A file is treated
\* no better than its resolved path.
NeverWeaker ==
  [][policies' # policies /\ lastEdit' # "remove" =>
       \A s \in Spellings :
         /\ ~Weaker(CheckCommand(s)', CheckCommand(s)) /\ ~Weaker(CheckFileAccess(s)', CheckFileAccess(s))
         /\ ~Weaker(CheckFileAccess(s), CheckFileAccess(ResolvedPath[s]))
         /\ CheckCommand(s).action = "deny" => CheckCommand(s)' = CheckCommand(s)
         /\ CheckOutput(Secrets)' \subseteq CheckOutput(Secrets)]_policyVars
=============================================================================
