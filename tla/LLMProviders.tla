----------------------------- MODULE LLMProviders -----------------------------
(* superpowers/llm_provider.py: the registry with its chain of names, get()   *)
(* walking it while servers come and go, and a question put to what it found, *)
(* or to the provider of a role with OpenAI behind it. What is asked and      *)
(* answered is left out; register_provider and GenericProvider differ from    *)
(* the built-in CLI provider in the command only.                             *)
EXTENDS Naturals, Sequences, FiniteSets, SequencesExt

CONSTANTS
  ProviderNames,   \* canonical names; aliases are the same name given twice
  OpenAI, Ollama,  \* the names of two built-in providers; the others are commands
  FallbackOn,      \* OPENAI_API_KEY is set and LLM_FALLBACK is not "false"
  MaxChain         \* bound: names in a chain

ASSUME ProviderAssumption ==
  {OpenAI, Ollama} \subseteq ProviderNames /\ FallbackOn \in BOOLEAN /\ MaxChain \in Nat

NoProvider == "none"

VARIABLES
  chain,       \* _chain
  registered,  \* the keys of _providers
  preferred,   \* _default
  serving,     \* the providers that would answer: on PATH, with a key, reachable
  walk,        \* get(): the place in the chain, 0 when none is under way
  steady,      \* history: providers that served ever since the walk began
  found,       \* what get() returned
  question     \* where invoke() stands

llmVars == <<chain, registered, preferred, serving, walk, steady, found, question>>
registry == <<chain, registered, preferred>>

Chains == UNION {[1..n -> ProviderNames] : n \in 0..MaxChain}

\* ProviderRegistry.__init__: LLM_PROVIDERS may name a provider twice, by its
\* alias as well.
LLMInit ==
  /\ chain \in Chains /\ registered = ToSet(chain) /\ preferred = NoProvider
  /\ serving \in SUBSET ProviderNames
  /\ walk = 0 /\ steady = {} /\ found = NoProvider /\ question = "none"

\* Mutant: a name that is not new is put into _providers only.
AddOnly(n) ==
  /\ walk = 0 /\ registered' = registered \cup {n}
  /\ UNCHANGED <<chain, preferred, serving, walk, steady, found, question>>

Add(n) ==
  /\ walk = 0
  /\ registered' = registered \cup {n}
  /\ chain' = IF Contains(chain, n) THEN chain ELSE Append(chain, n)
  /\ Len(chain') <= MaxChain
  /\ UNCHANGED <<preferred, serving, walk, steady, found, question>>

\* remove: list.remove takes the first of equal names away.
RemoveName(n) ==
  /\ walk = 0
  /\ registered' = registered \ {n}
  /\ chain' = IF Contains(chain, n) THEN RemoveFirst(chain, n) ELSE chain
  /\ preferred' = IF preferred = n THEN NoProvider ELSE preferred
  /\ UNCHANGED <<serving, walk, steady, found, question>>

\* set_default, which raises for a name it does not know, and clear_default.
SetDefault(n) ==
  /\ walk = 0 /\ n \in registered \cup {NoProvider} /\ preferred' = n
  /\ UNCHANGED <<chain, registered, serving, walk, steady, found, question>>

\* get(name), and get() with a default: no look at whether it serves.
GetNamed(n) ==
  /\ walk = 0 /\ question = "none" /\ n \in registered
  /\ found' = n
  /\ UNCHANGED <<registry, serving, walk, steady, question>>

GetStarts ==
  /\ walk = 0 /\ question = "none"
  /\ IF preferred \in registered
     THEN found' = preferred /\ UNCHANGED <<walk, steady>>
     ELSE walk' = 1 /\ steady' = serving /\ found' = NoProvider
  /\ UNCHANGED <<registry, serving, question>>

\* One turn of the loop: the name may be left over from a removed provider.
Look ==
  /\ walk \in 1..Len(chain)
  /\ IF chain[walk] \in registered \cap serving
     THEN walk' = 0 /\ found' = chain[walk]
     ELSE walk' = walk + 1 /\ UNCHANGED found
  /\ UNCHANGED <<registry, serving, steady, question>>

\* Nothing serves: the first of the chain, if it has a provider.
LookEnds ==
  /\ walk > Len(chain)
  /\ found' = IF chain # <<>> /\ chain[1] \in registered THEN chain[1] ELSE "raised"
  /\ walk' = 0
  /\ UNCHANGED <<registry, serving, steady, question>>

\* get_default_provider and get_provider_with_fallback: OpenAI behind any other
\* provider.
Fallback(n) == IF n # OpenAI /\ FallbackOn THEN OpenAI ELSE NoProvider

\* invoke of a provider: an answer, or what it raises: RuntimeError and the
\* errors of a missing or slow command are "failed"; a reply of Ollama that is
\* not JSON and the SDK's own errors are "escaped", and no fallback sees them.
Outcomes(n) ==
  IF n \in serving THEN {"answered"} \cup IF n = Ollama THEN {"escaped"} ELSE {}
  ELSE {"failed"} \cup IF n = OpenAI THEN {"escaped"} ELSE {}

Invoke ==
  /\ walk = 0 /\ found \in ProviderNames /\ question = "none"
  /\ question' \in Outcomes(found)
  /\ UNCHANGED <<registry, serving, walk, steady, found>>

\* FallbackProvider.invoke, first half: the provider of a role is asked.
AskRole(n) ==
  /\ walk = 0 /\ question = "none" /\ found' = n
  /\ question' \in {IF o = "failed" /\ Fallback(n) # NoProvider THEN "falling" ELSE o : o \in Outcomes(n)}
  /\ UNCHANGED <<registry, serving, walk, steady>>

\* ... second half: the fallback answers, or raises to the caller.
AskFallback ==
  /\ question = "falling"
  /\ question' \in Outcomes(OpenAI)
  /\ UNCHANGED <<registry, serving, walk, steady, found>>

Forget == /\ question \in {"answered", "failed", "escaped"} \/ found = "raised"
          /\ question' = "none" /\ found' = NoProvider
          /\ UNCHANGED <<registry, serving, walk, steady>>

\* A server or command comes or goes.
ServiceChanges(n) ==
  /\ serving' = IF n \in serving THEN serving \ {n} ELSE serving \cup {n}
  /\ steady' = steady \ {n}
  /\ UNCHANGED <<registry, walk, found, question>>

LLMNext ==
  \/ \E n \in ProviderNames : \/ Add(n) \/ RemoveName(n) \/ SetDefault(n) \/ GetNamed(n)
                              \/ AskRole(n) \/ ServiceChanges(n)
  \/ SetDefault(NoProvider) \/ GetStarts \/ Look \/ LookEnds \/ Invoke \/ AskFallback \/ Forget

LLMSpec == LLMInit /\ [][LLMNext]_llmVars

-----------------------------------------------------------------------------
LLMTypeOK ==
  /\ chain \in Chains /\ registered \subseteq ProviderNames
  /\ preferred \in registered \cup {NoProvider}
  /\ serving \subseteq ProviderNames /\ walk \in 0..(MaxChain + 1) /\ steady \subseteq serving
  /\ found \in ProviderNames \cup {NoProvider, "raised"}
  /\ question \in {"none", "falling", "answered", "failed", "escaped"}

\* A provider that is registered has its name in the chain, and those a walk has
\* passed did not serve all along (add, remove, get).
LLMInv ==
  /\ registered \subseteq ToSet(chain)
  /\ \A i \in 1..Len(chain) : i < walk => chain[i] \notin registered \cap steady

\* After any add, remove and set_default, and with names given twice or left
\* behind in the chain: a walk of get() that ends without a provider that
\* serves, or by raising, has met no registered provider that served all along.
GetServes ==
  [][walk # 0 /\ walk' = 0 /\ found' \notin serving => registered \cap steady = {}]_llmVars
=============================================================================
