---------------------------- MODULE AgentRouter ----------------------------
(* superpowers/agent_registry.py and agent_router.py with their callers: the *)
(* command line (`claw agent recommend`), the dashboard, the `agent: auto`   *)
(* step of a workflow and the auto-agent job.  Agents are files that people  *)
(* edit while a call scans them one after the other.                         *)
(*                                                                           *)
(* A task is the set of known words found in its text.  Scores are counted   *)
(* in halves, so that 1.5 is 3.  A name is a number: its alphabetical rank.  *)
EXTENDS Integers, FiniteSets, Sequences

CONSTANTS
  AgentDirs,      \* how many directories subagents/<name> there are
  Manifests,      \* contents an agent.md may have: name, tags, triggers, skills
  KeywordTargets, \* _TASK_KEYWORD_BOOSTS: word -> set of names
  TechAgents,     \* _TECH_AGENT_MAP: technology -> set of names
  SignalTech,     \* _FRAMEWORK_SIGNALS and _TOOL_SIGNALS: file -> technology
  BaseTech,       \* "docker-compose" -> "docker": the part before the dash
  AgentTasks,     \* sets of words
  AgentRepos,     \* repositories: [config, files], files in the order walked
  Callers,        \* calls that may be under way at once
  MaxWalked,      \* _MAX_FILES
  TopN,           \* top_n
  MaxAgentEdits   \* bound: edits of agent files

NoAgentMd == [name |-> 0, kind |-> "missing"]
BadAgentMd == [name |-> 0, kind |-> "unreadable"]  \* no frontmatter, or no name

ASSUME RouterAssumption ==
  /\ AgentDirs \in Nat /\ MaxWalked \in Nat /\ TopN \in Nat \ {0}
  /\ MaxAgentEdits \in Nat
  /\ \A m \in Manifests : /\ m.name \in Nat /\ m # NoAgentMd /\ m # BadAgentMd
                          /\ IsFiniteSet(m.tags) /\ IsFiniteSet(m.triggers)
  /\ IsFiniteSet(DOMAIN KeywordTargets) /\ IsFiniteSet(DOMAIN TechAgents)

VARIABLES
  agentFiles, \* agent.md of each directory
  call,       \* the call of each caller
  agentEdits  \* bounded by MaxAgentEdits

routerVars == <<agentFiles, call, agentEdits>>

NoRepo == [config |-> {}, files |-> <<>>]
CallKinds == {"recommend", "select", "workflow", "job"}

NoCache == [n \in {} |-> 0]

NewCall(kind, task, repo) ==
  [at |-> "idle", kind |-> kind, task |-> task, repo |-> repo, todo |-> {},
   cache |-> NoCache, answer |-> <<>>, ran |-> "none", status |-> "none"]

\* AgentRegistry.recommend: a word listed as tag and as trigger counts twice.
KeywordScore(m, task) == Cardinality(m.tags \cap task) + Cardinality(m.triggers \cap task)

\* The files _walk_files yields, up to _MAX_FILES, and the languages in them.
Walked(repo) == SubSeq(repo.files, 1, IF Len(repo.files) < MaxWalked THEN Len(repo.files)
                                                                     ELSE MaxWalked)
Languages(repo) == {Walked(repo)[i] : i \in DOMAIN Walked(repo)} \cap DOMAIN TechAgents
Occurrences(lang, repo) == {i \in DOMAIN Walked(repo) : Walked(repo)[i] = lang}

\* Counter.most_common(1): of the most frequent the one met first.
Primary(repo) ==
  {l \in Languages(repo) : \A o \in Languages(repo) \ {l} :
     \/ Cardinality(Occurrences(l, repo)) > Cardinality(Occurrences(o, repo))
     \/ /\ Cardinality(Occurrences(l, repo)) = Cardinality(Occurrences(o, repo))
        /\ \E i \in Occurrences(l, repo) : \A j \in Occurrences(o, repo) : i < j}

\* detect_tech_stack and TechStack.all_keywords.
TechKeywords(repo) ==
  LET found == {SignalTech[f] : f \in repo.config}
  IN Languages(repo) \cup found \cup {BaseTech[t] : t \in found \cap DOMAIN BaseTech}

\* select_agents: the keyword score, the boosts of the words of the task, of the
\* technologies of the repository and of its primary language.
Score(m, task, repo) ==
    2 * KeywordScore(m, task)
  + 4 * Cardinality({w \in task \cap DOMAIN KeywordTargets : m.name \in KeywordTargets[w]})
  + 3 * Cardinality({t \in TechKeywords(repo) \cap DOMAIN TechAgents : m.name \in TechAgents[t]})
  + 2 * Cardinality({l \in Primary(repo) : m.name \in TechAgents[l]})

\* The points the call x gives an agent.
Earned(x, m) ==
  IF x.kind = "recommend" THEN 2 * KeywordScore(m, x.task) ELSE Score(m, x.task, x.repo)

\* The more points the earlier.  Of equals the one met first in recommend(), whose sort
\* is stable, and the one first in the alphabet in select_agents.
Ahead(x, points, n, o) ==
  \/ points[n] > points[o]
  \/ points[n] = points[o] /\ IF x.kind = "recommend" THEN x.cache[n].met < x.cache[o].met ELSE n < o

\* The names with points, the n-th of them with n - 1 ahead of it; select_agents keeps TopN.
WithPoints(x, points) == {n \in DOMAIN x.cache : points[n] > 0}
Place(x, points, n) == 1 + Cardinality({o \in WithPoints(x, points) : Ahead(x, points, o, n)})
Listed(x, points) == {n \in WithPoints(x, points) : x.kind = "recommend" \/ Place(x, points, n) <= TopN}

Ranked(x, points) ==
  LET at(i) == CHOOSE n \in Listed(x, points) : Place(x, points, n) = i
  IN [i \in 1..Cardinality(Listed(x, points)) |->
        [agent |-> x.cache[at(i)].agent, score |-> points[at(i)]]]

RouterInit ==
  /\ agentFiles \in [1..AgentDirs -> Manifests \cup {NoAgentMd}]
  /\ call = [c \in Callers |-> NewCall("select", {}, NoRepo)]
  /\ agentEdits = 0

-----------------------------------------------------------------------------
\* Somebody writes, breaks or removes an agent.md.
EditAgent(d) ==
  /\ agentEdits < MaxAgentEdits
  /\ agentEdits' = agentEdits + 1
  /\ \E m \in (Manifests \cup {NoAgentMd, BadAgentMd}) \ {agentFiles[d]} :
       agentFiles' = [agentFiles EXCEPT ![d] = m]
  /\ UNCHANGED call

\* What becomes of a call.
CallIs(c, x) == call' = [call EXCEPT ![c] = x] /\ UNCHANGED <<agentFiles, agentEdits>>

\* discover() clears the cache and lists the directories that have an agent.md.
Discover(record, at) ==
  [record EXCEPT !.at = at, !.cache = NoCache,
                 !.todo = {d \in 1..AgentDirs : agentFiles[d] # NoAgentMd}]

\* Each caller has a registry of its own.
StartCall(c, kind, task, repo) ==
  /\ call[c].at \in {"idle", "done"}
  /\ CallIs(c, Discover(NewCall(kind, task, repo), "scan"))

\* A name keeps the place in the dictionary it was first entered at.
Entered(cache, m, d) ==
  [n \in DOMAIN cache \cup {m.name} |->
     IF n # m.name THEN cache[n]
     ELSE [agent |-> m, met |-> IF n \in DOMAIN cache THEN cache[n].met ELSE d]]

\* The next file is read.  One that is gone or does not parse is left out; of two
\* with the same name the later one stays in the cache.
ReadAgent(c) ==
  /\ call[c].at \in {"scan", "again", "skills"}
  /\ \E d \in call[c].todo :
       /\ \A e \in call[c].todo : d <= e
       /\ LET m == agentFiles[d]
          IN CallIs(c, [call[c] EXCEPT !.todo = call[c].todo \ {d},
                          !.cache = IF m \in Manifests THEN Entered(call[c].cache, m, d) ELSE call[c].cache])

\* `claw agent recommend`: recommend() scans once more when the first scan found nothing.
ScanAgain(c) ==
  /\ call[c].at = "scan" /\ call[c].todo = {}
  /\ call[c].kind = "recommend" /\ call[c].cache = NoCache
  /\ CallIs(c, Discover(call[c], "again"))

Scanned(c) ==
  /\ call[c].at \in {"scan", "again"} /\ call[c].todo = {}
  /\ call[c].kind = "recommend" /\ call[c].at = "scan" => call[c].cache # NoCache

\* Mutant: recommend() scans again, so the scores are those of other files.
RankRescanned(c) ==
  /\ Scanned(c)
  /\ LET again == {agentFiles[d] : d \in 1..AgentDirs} \cap Manifests
         now(n) == IF \E o \in again : o.name = n THEN CHOOSE o \in again : o.name = n
                   ELSE call[c].cache[n].agent
         points == [n \in DOMAIN call[c].cache |-> Earned(call[c], now(n))]
     IN CallIs(c, [call[c] EXCEPT !.at = "ranked", !.answer = Ranked(call[c], points)])

\* list() and recommend() share one scan: the cache is only filled when empty.
Rank(c) ==
  /\ Scanned(c)
  /\ LET points == [n \in DOMAIN call[c].cache |-> Earned(call[c], call[c].cache[n].agent)]
     IN CallIs(c, [call[c] EXCEPT !.at = "ranked", !.answer = Ranked(call[c], points)])

\* The command line and the dashboard show the ranking.
Show(c) ==
  /\ call[c].at = "ranked"
  /\ call[c].kind \in {"recommend", "select"}
  /\ CallIs(c, [call[c] EXCEPT !.at = "done", !.status = "shown"])

\* `agent: auto`: the first skill of the manifest that was ranked first; the step
\* passes when the skill returns 0.
RunStepAgent(c) ==
  /\ call[c].at = "ranked" /\ call[c].kind = "workflow"
  /\ LET answer == call[c].answer
         skills == answer[1].agent.skills
     IN \/ answer = <<>> /\ CallIs(c, [call[c] EXCEPT !.at = "done", !.status = "failed"])
        \/ answer # <<>> /\ skills = <<>> /\ CallIs(c, [call[c] EXCEPT !.at = "done", !.status = "passed"])
        \/ /\ answer # <<>> /\ skills # <<>>
           /\ \E status \in {"passed", "failed"} :
                CallIs(c, [call[c] EXCEPT !.at = "done", !.ran = skills[1], !.status = status])

\* run_auto_agent keeps the name only and looks it up in a new registry.
LookUpAgent(c) ==
  /\ call[c].at = "ranked" /\ call[c].kind = "job"
  /\ CallIs(c, IF call[c].answer = <<>>
               THEN [call[c] EXCEPT !.at = "done", !.status = "completed"]
               ELSE Discover(call[c], "skills"))

\* An agent that is gone by now, or has no skill, has its task echoed.  The code the
\* skill returns is not looked at: only one that raises fails the job.
RunJobAgent(c) ==
  /\ call[c].at = "skills" /\ call[c].todo = {}
  /\ LET name == call[c].answer[1].agent.name
         skills == IF name \in DOMAIN call[c].cache THEN call[c].cache[name].agent.skills ELSE <<>>
     IN \/ skills = <<>> /\ CallIs(c, [call[c] EXCEPT !.at = "done", !.status = "completed"])
        \/ /\ skills # <<>>
           /\ \E status \in {"completed", "failed"} :
                CallIs(c, [call[c] EXCEPT !.at = "done", !.ran = skills[1], !.status = status])

RouterNext ==
  \/ \E d \in 1..AgentDirs : EditAgent(d)
  \/ \E c \in Callers :
       \/ \E kind \in CallKinds, task \in AgentTasks, repo \in AgentRepos \cup {NoRepo} :
            StartCall(c, kind, task, repo)
       \/ ReadAgent(c) \/ ScanAgain(c) \/ Rank(c) \/ Show(c)
       \/ RunStepAgent(c) \/ LookUpAgent(c) \/ RunJobAgent(c)

RouterSpec == RouterInit /\ [][RouterNext]_routerVars

-----------------------------------------------------------------------------
\* What a registry has cached, the lists it is ranked into, the skills there are.
Caches == UNION {[N -> [agent : Manifests, met : 1..AgentDirs]] : N \in SUBSET {m.name : m \in Manifests}}
Rankings == Seq([agent : Manifests, score : Nat])
FirstSkills == {m.skills[1] : m \in {m \in Manifests : m.skills # <<>>}}

RouterCall ==
  [at : {"idle", "scan", "again", "ranked", "skills", "done"}, kind : CallKinds,
   task : AgentTasks \cup {{}}, repo : AgentRepos \cup {NoRepo}, todo : SUBSET (1..AgentDirs),
   cache : Caches, answer : Rankings, ran : FirstSkills \cup {"none"},
   status : {"none", "shown", "passed", "failed", "completed"}]

RouterTypeOK ==
  /\ agentFiles \in [1..AgentDirs -> Manifests \cup {NoAgentMd, BadAgentMd}] /\ agentEdits \in Nat
  /\ call \in [Callers -> RouterCall]

\* A cached agent is under its own name, no two were met at one directory, one still to be
\* read was met by none, and only a job scans for skills.
CacheTrue ==
  \A c \in Callers :
    LET x == call[c]
    IN /\ IsFiniteSet(DOMAIN x.cache)
       /\ \A n \in DOMAIN x.cache : x.cache[n].agent.name = n /\ x.cache[n].met \notin x.todo
       /\ \A n, o \in DOMAIN x.cache : x.cache[n].met = x.cache[o].met => n = o
       /\ x.at = "skills" => x.kind = "job" /\ x.answer # <<>>

\* What a caller is shown (agent_router.py, select_agents, and the callers that
\* read the list) hangs together however the files are edited meanwhile: every
\* agent is listed once, with the score its own listed tags and triggers earn,
\* the best first, nobody better left out, and a workflow step only ever runs a
\* skill the agent it names listed.
RankingSound ==
  \A c \in Callers : call[c].at \in {"ranked", "skills", "done"} =>
    LET x == call[c]
        answer == x.answer
    IN /\ \A i, j \in DOMAIN answer :
            i < j => /\ answer[i].agent.name # answer[j].agent.name
                     /\ answer[i].score >= answer[j].score
       /\ \A i \in DOMAIN answer : answer[i].score = Earned(x, answer[i].agent)
       /\ x.at = "ranked" =>
            \A n \in DOMAIN x.cache :
              LET m == x.cache[n].agent
              IN \/ \E i \in DOMAIN answer : answer[i].agent = m
                 \/ Earned(x, m) = 0
                 \/ /\ x.kind # "recommend" /\ Len(answer) = TopN
                    /\ Earned(x, m) <= answer[TopN].score
       /\ x.kind = "workflow" /\ x.ran # "none" =>
            answer # <<>> /\ x.ran = answer[1].agent.skills[1]
=============================================================================
