------------------------------- MODULE Release -------------------------------
(* superpowers/release.py and `claw release`: ReleaseManager over the tags of *)
(* one repository and MigrationChecker over the trees they stand on. History  *)
(* is one line of commits, numbered from 1. A tree is the set of public       *)
(* definitions (commands, settings, APIs) with the place each one stands at.  *)
EXTENDS Naturals, FiniteSets, FiniteSetsExt

CONSTANTS
  Releases,     \* semver versions; any other argument raises before it has an effect
  History,      \* commit -> its tree, a set of <<public name, place>>
  BumpOf        \* commit -> version in its pyproject.toml, or NoRelease

NoCommit == 0
NoRelease == "unreleased"
Commits == DOMAIN History

ASSUME ReleaseAssumption ==
  /\ IsFiniteSet(Commits) /\ Commits = 1..Cardinality(Commits) /\ 1 \in Commits
  /\ DOMAIN BumpOf = Commits /\ NoRelease \notin Releases

VARIABLES
  head,       \* number of commits
  edited,     \* uncommitted changes
  tagOf,      \* version -> commit its tag stands on, or NoCommit
  prepared,   \* version -> head and changelog of the last prepare_release
  noted,      \* history: commits in the changelogs of the releases that were tagged
  late,       \* history: commits between a prepare_release and its tag
  told        \* the last answer

releaseVars == <<head, edited, tagOf, prepared, noted, late, told>>

Answers == {"", "ready", "not ready", "error", "verified", "not verified", "deleted", "not found", "drop-in", "breaking"}
Tags == {v \in Releases : tagOf[v] # NoCommit}
Unprepared == [head |-> NoCommit, changelog |-> {}]

ReleaseInit ==
  /\ head = 1 /\ edited = FALSE /\ noted = {} /\ late = {} /\ told = ""
  /\ tagOf = [v \in Releases |-> NoCommit] /\ prepared = [v \in Releases |-> Unprepared]

\* Someone works on the repository.
Work == edited' = TRUE /\ told' = "" /\ UNCHANGED <<head, tagOf, prepared, noted, late>>
CommitAll == edited /\ edited' = FALSE /\ told' = "" /\ head + 1 \in Commits /\ head' = head + 1
             /\ UNCHANGED <<tagOf, prepared, noted, late>>

\* git describe: the newest tag reachable from HEAD, or the beginning.
LastTag == Max({tagOf[v] : v \in Tags} \cup {NoCommit})

\* Mutant: the newest commit is taken for the version bump and left out.
ChangelogBeforeBump(from) == from + 1..head - 1

\* build_changelog: the subjects of git log from..HEAD.
BuildChangelog(from) == from + 1..head

PrepareRelease(v) ==
  /\ told' = IF ~edited /\ BumpOf[head] = v THEN "ready" ELSE "not ready"
  /\ prepared' = [prepared EXCEPT ![v] = [head |-> head, changelog |-> BuildChangelog(LastTag)]]
  /\ UNCHANGED <<head, edited, tagOf, noted, late>>

\* git tag -a on HEAD: it fails when the tag exists. Nothing asks for a clean tree,
\* the version or an answer "ready"; the owner has prepared v at some time before.
CreateTag(v) ==
  /\ prepared[v] # Unprepared
  /\ IF tagOf[v] # NoCommit THEN told' = "error" /\ UNCHANGED <<tagOf, noted, late>>
     ELSE /\ tagOf' = [tagOf EXCEPT ![v] = head] /\ told' = ""
          /\ noted' = noted \cup prepared[v].changelog
          /\ late' = late \cup (prepared[v].head + 1..head)
  /\ UNCHANGED <<head, edited, prepared>>

\* The version is the one of the working tree, wherever the tag stands.
VerifyRelease(v) ==
  /\ told' = IF tagOf[v] # NoCommit /\ BumpOf[head] = v THEN "verified" ELSE "not verified"
  /\ UNCHANGED <<head, edited, tagOf, prepared, noted, late>>

RollbackRelease(v) ==
  /\ told' = IF tagOf[v] # NoCommit THEN "deleted" ELSE "not found"
  /\ tagOf' = [tagOf EXCEPT ![v] = NoCommit]
  /\ UNCHANGED <<head, edited, prepared, noted, late>>

PublicNames(v) == {d[1] : d \in History[tagOf[v]]}

\* The removed lines of git diff that one of the three detectors reads as a definition:
\* a definition that moved is among them.
RemovedLines(from, to) == {d[1] : d \in History[tagOf[from]] \ History[tagOf[to]]}

\* check_breaking_changes: a diff that fails, as it does without one of the tags, finds nothing.
CheckBreakingChanges(from, to) == IF {from, to} \subseteq Tags THEN RemovedLines(from, to) ELSE {}

GenerateMigrationGuide(from, to) ==
  /\ told' = IF CheckBreakingChanges(from, to) = {} THEN "drop-in" ELSE "breaking"
  /\ UNCHANGED <<head, edited, tagOf, prepared, noted, late>>

ReleaseNext ==
  \/ Work \/ CommitAll
  \/ \E v \in Releases : PrepareRelease(v) \/ CreateTag(v) \/ VerifyRelease(v) \/ RollbackRelease(v)
  \/ \E from, to \in Releases : GenerateMigrationGuide(from, to)

ReleaseSpec == ReleaseInit /\ [][ReleaseNext]_releaseVars

\* Types of the repository and the last answer (release.py).
ReleaseTypeOK ==
  /\ head \in Commits /\ edited \in BOOLEAN /\ told \in Answers
  /\ tagOf \in [Releases -> 0..head] /\ noted \subseteq 1..head /\ late \subseteq 1..head
  /\ prepared \in [Releases -> [head : 0..head, changelog : SUBSET (1..head)]]

\* A release announces all it contains: a commit below a tag is in the changelog of a release
\* that was tagged, now or before a rollback, unless it was made between the changelog and the
\* tag (prepare_release, build_changelog, create_tag, rollback_release).
Announced == \A v \in Tags : 1..tagOf[v] \subseteq noted \cup late

\* A changelog that waits for its tag leaves out what an earlier release announced, and
\* nothing else (prepare_release, build_changelog).
ChangelogsComplete ==
  \A v \in Releases : 1..prepared[v].head \subseteq prepared[v].changelog \cup noted \cup late

\* What a guide between two tags leaves out is still there to be used: every public name of the
\* old tree that the new one lacks is listed (check_breaking_changes).
GuideComplete ==
  \A from, to \in Tags : PublicNames(from) \ PublicNames(to) \subseteq CheckBreakingChanges(from, to)
=============================================================================
