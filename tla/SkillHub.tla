------------------------------ MODULE SkillHub ------------------------------
(* superpowers/skillhub.py: the skills of several machines are copied through *)
(* a git repository each of them has a clone of.  Of the exit statuses of git  *)
(* only those of diff --cached and of push are looked at.  The history of a    *)
(* clone is the set of its commits; a version of a skill is the edit it is at. *)
EXTENDS Naturals, FiniteSets

CONSTANTS
  Hosts,         \* machines with a skills directory and a clone of the hub
  Skills,        \* names of skills
  MaxSkillEdits, \* bound: edits made
  MaxHubCommits  \* bound: commits made

ASSUME HubAssumption == MaxSkillEdits \in Nat /\ MaxHubCommits \in Nat /\ Skills # {}

VARIABLES
  skills,    \* the skills directory of each host: the edit each skill is at
  hub,       \* the clone of each host: its commits, index and working tree
  remote,    \* the repository they push to
  origin,    \* the hosts whose clone has a remote
  sync,      \* the call each host is in and what the last one returned
  skillEdits, hubCommits

hubVars == <<skills, hub, remote, origin, sync, skillEdits, hubCommits>>

NoSkills == [s \in Skills |-> 0]    \* 0 is a skill that is not there, or not whole
AnySkill == CHOOSE s \in Skills : TRUE
EmptyRepo == [log |-> {}, head |-> NoSkills, index |-> NoSkills, tree |-> NoSkills]
\* A call: its next step, its skill, whether a git command failed unnoticed, and
\* what it returned: "other" is "error", "pulled", or nothing yet.
SyncCall(at, s, failed, result) == [at |-> at, skill |-> s, failed |-> failed, result |-> result]

HubInit ==
  /\ skills = [h \in Hosts |-> NoSkills]
  /\ hub = [h \in Hosts |-> EmptyRepo]
  /\ remote = EmptyRepo
  /\ origin \in SUBSET Hosts
  /\ sync = [h \in Hosts |-> SyncCall("idle", AnySkill, FALSE, "other")]
  /\ skillEdits = 0 /\ hubCommits = 0

EditSkill(h, s) ==
  /\ skillEdits < MaxSkillEdits
  /\ skillEdits' = skillEdits + 1
  /\ skills' = [skills EXCEPT ![h] = [skills[h] EXCEPT ![s] = skillEdits + 1]]
  /\ UNCHANGED <<hub, remote, origin, sync, hubCommits>>

HubReturns(h, result) == sync' = [sync EXCEPT ![h] = SyncCall("idle", AnySkill, FALSE, result)]
HubGoes(h, at, s, failed) == sync' = [sync EXCEPT ![h] = SyncCall(at, s, failed, "other")]

\* push: the copy in the clone is removed, the skill copied in its place, and
\* added to the index; a git add that fails is not looked at ...
PushCopy(h, s) ==
  /\ sync[h].at = "idle"
  /\ skills[h][s] # 0
  /\ LET copied == [hub[h] EXCEPT !.tree = [hub[h].tree EXCEPT ![s] = skills[h][s]]]
         added == [copied EXCEPT !.index = [hub[h].index EXCEPT ![s] = skills[h][s]]]
     IN \/ hub' = [hub EXCEPT ![h] = added] /\ HubGoes(h, "commit", s, FALSE)
        \/ hub' = [hub EXCEPT ![h] = copied] /\ HubGoes(h, "commit", s, TRUE)
  /\ UNCHANGED <<skills, remote, origin, skillEdits, hubCommits>>

\* ... or the call ends in between: the copy is gone, or there and not added.
PushCopyDies(h, s) ==
  /\ sync[h].at = "idle"
  /\ skills[h][s] # 0
  /\ \E edit \in {0, skills[h][s]} :
       hub' = [hub EXCEPT ![h] = [hub[h] EXCEPT !.tree = [hub[h].tree EXCEPT ![s] = edit]]]
  /\ HubReturns(h, "other")
  /\ UNCHANGED <<skills, remote, origin, skillEdits, hubCommits>>

\* diff --cached sees the whole index, whatever skill is pushed: with nothing in
\* it to commit the skill is "up-to-date".  Else, or when diff itself fails, all
\* of it is committed; a commit that fails is not looked at.
PushCommit(h) ==
  LET clone == hub[h]
      s == sync[h].skill
  IN /\ sync[h].at = "commit"
     /\ \/ clone.index = clone.head /\ HubReturns(h, "up-to-date") /\ UNCHANGED <<hub, hubCommits>>
        \/ /\ clone.index # clone.head /\ hubCommits < MaxHubCommits
           /\ hubCommits' = hubCommits + 1
           /\ hub' = [hub EXCEPT ![h] = [clone EXCEPT !.log = clone.log \cup {hubCommits + 1},
                                                      !.head = clone.index]]
           /\ HubGoes(h, "push", s, sync[h].failed)
        \/ HubGoes(h, "push", s, TRUE) /\ UNCHANGED <<hub, hubCommits>>
     /\ UNCHANGED <<skills, remote, origin, skillEdits>>

\* A repository whose files are those of its last commit.
CleanRepo(repo) == [log |-> repo.log, head |-> repo.head, index |-> repo.head, tree |-> repo.head]

\* git push is refused when the remote has commits this clone has not.
Accepted(h) == hub[h].log # {} /\ remote.log \subseteq hub[h].log

\* Mutant: the exit status of git push is not looked at.
PushUnchecked(h) ==
  /\ sync[h].at = "push"
  /\ remote' = IF h \in origin /\ Accepted(h) THEN CleanRepo(hub[h]) ELSE remote
  /\ HubReturns(h, "pushed")
  /\ UNCHANGED <<skills, hub, origin, skillEdits, hubCommits>>

\* Without a remote nothing is pushed; with one git push is accepted, or refused,
\* or does not reach it.
PushRemote(h) ==
  /\ sync[h].at = "push"
  /\ \/ h \notin origin /\ HubReturns(h, "pushed") /\ UNCHANGED remote
     \/ h \in origin /\ Accepted(h) /\ remote' = CleanRepo(hub[h]) /\ HubReturns(h, "pushed")
     \/ h \in origin /\ HubReturns(h, "other") /\ UNCHANGED remote
  /\ UNCHANGED <<skills, hub, origin, skillEdits, hubCommits>>

\* git pull fast-forwards where it is behind, and nothing is in its way: a skill
\* the remote has changed, and the clone has copied or added and not committed.
Behind(h) ==
  /\ h \in origin /\ hub[h].log \subseteq remote.log
  /\ \A s \in Skills : remote.head[s] # hub[h].head[s]
       => hub[h].index[s] = hub[h].head[s] /\ hub[h].tree[s] = hub[h].head[s]
Merged(files, head) == [s \in Skills |-> IF files[s] = head[s] THEN remote.head[s] ELSE files[s]]
FastForward(clone) ==
  [log |-> remote.log, head |-> remote.head,
   index |-> Merged(clone.index, clone.head), tree |-> Merged(clone.tree, clone.head)]

\* pull: git pull fast-forwards, or fails, which is not looked at.
PullRemote(h, s) ==
  /\ sync[h].at = "idle"
  /\ \/ Behind(h) /\ hub' = [hub EXCEPT ![h] = FastForward(hub[h])]
     \/ UNCHANGED hub
  /\ HubGoes(h, "copy", s, FALSE)
  /\ UNCHANGED <<skills, remote, origin, skillEdits, hubCommits>>

\* Then the skill of the clone takes the place of the local one.
PullCopy(h) ==
  LET s == sync[h].skill
  IN /\ sync[h].at = "copy"
     /\ IF hub[h].tree[s] = 0
        THEN UNCHANGED skills
        ELSE skills' = [skills EXCEPT ![h] = [skills[h] EXCEPT ![s] = hub[h].tree[s]]]
     /\ HubReturns(h, "other")
     /\ UNCHANGED <<hub, remote, origin, skillEdits, hubCommits>>

\* Killed, or git timed out, between two steps, or with the local skill removed.
SyncDies(h) ==
  /\ sync[h].at # "idle"
  /\ HubReturns(h, "other")
  /\ \/ UNCHANGED skills
     \/ sync[h].at = "copy" /\ skills' = [skills EXCEPT ![h] = [skills[h] EXCEPT ![sync[h].skill] = 0]]
  /\ UNCHANGED <<hub, remote, origin, skillEdits, hubCommits>>

HubNext ==
  \E h \in Hosts :
    \/ \E s \in Skills : EditSkill(h, s) \/ PushCopy(h, s) \/ PushCopyDies(h, s) \/ PullRemote(h, s)
    \/ PushCommit(h) \/ PushRemote(h) \/ PullCopy(h) \/ SyncDies(h)

HubSpec == HubInit /\ [][HubNext]_hubVars

-----------------------------------------------------------------------------
\* Edits and commits are numbered; a tree holds edits made, a history commits made.
Trees == [Skills -> 0..skillEdits]
Repos == [log : SUBSET (1..hubCommits), head : Trees, index : Trees, tree : Trees]
HubPlaces == {"idle", "commit", "push", "copy"}
HubResults == {"other", "up-to-date", "pushed"}
HubCalls == [at : HubPlaces, skill : Skills, failed : BOOLEAN, result : HubResults]

HubTypeOK ==
  /\ skillEdits \in 0..MaxSkillEdits /\ hubCommits \in 0..MaxHubCommits
  /\ skills \in [Hosts -> Trees]
  /\ hub \in [Hosts -> Repos] /\ remote \in Repos /\ origin \subseteq Hosts
  /\ sync \in [Hosts -> HubCalls]

\* A push none of whose git commands failed has its copy in the index, and then
\* at the head (72-89).
HubInv ==
  \A h \in Hosts :
    LET s == sync[h].skill IN
    /\ sync[h].at = "commit" /\ ~sync[h].failed => hub[h].index[s] = hub[h].tree[s]
    /\ sync[h].at = "push" /\ ~sync[h].failed => hub[h].head[s] = hub[h].tree[s]

\* The remote loses nothing: a commit that got there stays in its history,
\* whoever pushes what next (89-96).
RemoteGrows == [][remote.log \subseteq remote'.log]_hubVars

\* "pushed" means the copy made by this call is at the remote, if the clone has
\* one and neither git add nor git commit failed, of which nobody is told (77-96).
PushedIsThere ==
  [][\A h \in Hosts : /\ sync[h].result # "pushed" /\ sync'[h].result = "pushed"
                      /\ h \in origin /\ ~sync[h].failed
       => remote'.head[sync[h].skill] = hub[h].tree[sync[h].skill]]_hubVars

\* Hosts that push at the same time never undo each other's commits, and one
\* whose git commands did their work is not told so unless its copy arrived.
HubSafe == RemoteGrows /\ PushedIsThere

\* What "pushed" (21, 96) says, and the code does not keep: without a remote, or
\* after an add or a commit that failed, the copy of this call is nowhere else.
PushedMeansPushed ==
  [][\A h \in Hosts : sync[h].result # "pushed" /\ sync'[h].result = "pushed"
       => remote'.head[sync[h].skill] = hub[h].tree[sync[h].skill]]_hubVars

\* "up-to-date", "No changes to push" (85): the remote has it.  After a push
\* the remote refused, or a process killed before it, it has not.
UpToDateIsThere ==
  \A h \in origin : sync[h].at = "idle" /\ sync[h].result = "up-to-date"
    => hub[h].log \subseteq remote.log
=============================================================================
