--------------------------- MODULE SecuritySentinel ---------------------------
(* skills/security-sentinel/run.py behind `claw security scan` and `fix`        *)
(* (superpowers/security_sentinel.py): the OSV cache, the three scans of a      *)
(* project, the exit code, and what fix writes into pyproject.toml. A version   *)
(* is a number; Unpinned is a dependency without one.                           *)
EXTENDS Naturals, FiniteSets

CONSTANTS
  Packages, Vulns,       \* dependencies; vulnerabilities that OSV may publish
  PackageOf, FixedIn,    \* vulnerability -> its package, and the version that repairs it (0: none)
  Rating,                \* vulnerability -> severity, by its rating or else its score
  Lines,                 \* suspicious lines: [by, severity, secret, test, comment, suppressed, parses]
  Services,              \* services of the compose files: the faults each of them has
  CacheAge,              \* the 86400 s for which a cached answer is used
  NewestVersion, ScanDays  \* bounds: versions, time

Severities == {"CRITICAL", "HIGH", "MEDIUM", "LOW", "INFO"}
Unpinned == 0
Never == 0
PackageVersions == 0..NewestVersion

ASSUME SentinelAssumption ==
  /\ PackageOf \in [Vulns -> Packages] /\ FixedIn \in [Vulns -> PackageVersions] /\ Rating \in [Vulns -> Severities]
  /\ CacheAge \in Nat /\ NewestVersion \in Nat \ {0} /\ ScanDays \in Nat \ {0}

VARIABLES
  scanDay,     \* the clock of the cache
  published,   \* vulnerability -> day OSV learned of it, or Never
  pinned,      \* package -> version in pyproject.toml
  osvCache,    \* <<package, version>> -> day and content of the cached answer
  compose,     \* whether the compose files are valid YAML
  lastScan     \* what the last call told its caller

sentinelVars == <<scanDay, published, pinned, osvCache, compose, lastScan>>
project == <<pinned, compose>>
world == <<scanDay, published>>

NotCached == [day |-> Never, vulns |-> {}]
NoScan == [call |-> "none"]

SentinelInit ==
  /\ scanDay = 1 /\ published = [v \in Vulns |-> Never] /\ compose = TRUE
  /\ pinned \in [Packages -> PackageVersions \ {Unpinned}] /\ lastScan = NoScan
  /\ osvCache = [k \in Packages \X PackageVersions |-> NotCached]

\* What OSV answers for a version; without one it knows of every version.
Affected(p, version) ==
  {v \in Vulns : /\ published[v] # Never /\ PackageOf[v] = p
                 /\ version = Unpinned \/ FixedIn[v] = 0 \/ version < FixedIn[v]}

\* Mutant: an answer is kept as long as there is one.
CacheGetForever(p) == osvCache[<<p, pinned[p]>>].day # Never

CacheGet(p) ==
  LET entry == osvCache[<<p, pinned[p]>>] IN entry.day # Never /\ scanDay - entry.day <= CacheAge

\* What becomes of the requests of a scan: the packages whose request failed (no network, or it
\* broke off), those whose answer could not be written to the cache, and whether an answer broke
\* off in a way that _query_osv does not catch. Only what is not cached is asked about.
RequestOutcomes(asked) ==
  LET sent == {p \in asked : ~CacheGet(p)} IN
  {o \in [lost : SUBSET sent, unwritten : SUBSET sent, broken : BOOLEAN] :
     o.lost \cap o.unwritten = {} /\ (o.broken => o.lost # {})}

\* _query_osv: the cache, then the service. A request that fails is no vulnerability, and so is
\* an answer that cannot be cached: the write stands in the same try.
QueryOSV(p, outcome) ==
  IF CacheGet(p) THEN osvCache[<<p, pinned[p]>>].vulns
  ELSE IF p \in outcome.lost \cup outcome.unwritten THEN {} ELSE Affected(p, pinned[p])

\* _cache_put, for each package that the scan asked OSV about. A write that fails leaves no file,
\* a cut one, which _cache_get does not read, or the one that is too old.
CachePut(asked, outcome) ==
  osvCache' = [k \in DOMAIN osvCache |->
    IF k[1] \in asked \ outcome.lost /\ k[2] = pinned[k[1]] /\ ~CacheGet(k[1])
    THEN IF k[1] \in outcome.unwritten THEN NotCached ELSE [day |-> scanDay, vulns |-> Affected(k[1], k[2])]
    ELSE osvCache[k]]

ScanDependencies(asked, outcome) == UNION {QueryOSV(p, outcome) : p \in asked}

\* The visitor of the syntax tree finds calls whether the line is marked or not; of the SQL
\* strings it passes over marked f-strings only.
CallFindings == {l \in Lines : l.by = "call" /\ l.parses}
StringFindings == {l \in Lines : l.parses /\ (l.by = "percent" \/ (l.by = "fstring" /\ ~l.suppressed))}

\* The patterns see each line, in files that do not parse as well; secrets of tests are fixtures.
LineFindings == {l \in Lines : l.by = "regex" /\ ~l.comment /\ ~l.suppressed /\ ~(l.secret /\ l.test)}
CodeFindings == CallFindings \cup StringFindings \cup LineFindings

DockerSeverity ==
  [privileged |-> "CRITICAL", hostNetwork |-> "HIGH", unpinnedImage |-> "MEDIUM", noHealthcheck |-> "LOW",
   rootUser |-> "MEDIUM", openPort |-> "MEDIUM", secretInEnvironment |-> "HIGH"]
DockerFindings == UNION Services

\* exit_code.
ExitCode(found) ==
  IF found \cap {"CRITICAL", "HIGH"} # {} THEN 2 ELSE IF "MEDIUM" \in found THEN 1 ELSE 0

\* generate_patch_diff: each finding rewrites the line; the last one of a package stays.
PatchTargets(vulns, p) == {FixedIn[v] : v \in {w \in vulns : PackageOf[w] = p /\ FixedIn[w] # 0}}

Found(vulns, code, docker) ==
  {Rating[v] : v \in vulns} \cup {l.severity : l \in code} \cup {DockerSeverity[f] : f \in docker}

\* run_full_scan and main. Compose files that are no YAML, or an answer that broke off, end the
\* process with a traceback, whose exit status is that of a report with warnings.
RunFullScan(call, asked, skipCode, skipDocker, outcome) ==
  LET vulns == ScanDependencies(asked, outcome)
      found == Found(vulns, IF skipCode THEN {} ELSE CodeFindings, IF skipDocker THEN {} ELSE DockerFindings)
      raised == outcome.broken \/ (~skipDocker /\ ~compose)
  IN /\ CachePut(asked, outcome)
     /\ lastScan' = [call |-> call, asked |-> asked, raised |-> raised, outcome |-> outcome,
                     vulns |-> vulns, exit |-> IF raised THEN 1 ELSE ExitCode(found)]
     /\ UNCHANGED <<world, project>>

SkillScan(offline, skipDeps, skipCode, skipDocker) ==
  LET asked == IF offline \/ skipDeps THEN {} ELSE Packages IN
  \E outcome \in RequestOutcomes(asked) : RunFullScan("scan", asked, skipCode, skipDocker, outcome)

\* `claw security scan`: the format "text", its default, is none of the skill, which exits with 2.
ClawScan(fmt) ==
  IF fmt = "text" THEN /\ lastScan' = [call |-> "usage", exit |-> 2] /\ UNCHANGED <<world, project, osvCache>>
  ELSE SkillScan(FALSE, FALSE, FALSE, FALSE)

\* `claw security fix`: a scan, then the word that holds ">=" of each fix is put in the place of
\* the version; in "Upgrade p to >= 2" it stands alone, and the version is gone. A scan that ends
\* with a traceback has nothing to fix.
ApplyFix(outcome) ==
  LET vulns == ScanDependencies(Packages, outcome)
      fixable == {p \in Packages : /\ compose /\ ~outcome.broken
                                   /\ PatchTargets(vulns, p) # {} /\ pinned[p] # Unpinned}
  IN /\ CachePut(Packages, outcome)
     /\ pinned' = [p \in Packages |-> IF p \in fixable THEN Unpinned ELSE pinned[p]]
     /\ lastScan' = [call |-> "fix", fixed |-> fixable, vulns |-> vulns]
     /\ UNCHANGED <<world, compose>>

ClawFix == \E outcome \in RequestOutcomes(Packages) : ApplyFix(outcome)

\* OSV learns, time passes, and the owner edits the project.
Publish(v) == published[v] = Never /\ published' = [published EXCEPT ![v] = scanDay]
              /\ lastScan' = NoScan /\ UNCHANGED <<scanDay, project, osvCache>>
NextDay == scanDay < ScanDays /\ scanDay' = scanDay + 1
           /\ lastScan' = NoScan /\ UNCHANGED <<published, project, osvCache>>
Pin(p, version) == pinned' = [pinned EXCEPT ![p] = version]
                   /\ lastScan' = NoScan /\ UNCHANGED <<world, compose, osvCache>>
EditCompose == compose' = ~compose /\ lastScan' = NoScan /\ UNCHANGED <<world, pinned, osvCache>>

SentinelNext ==
  \/ \E offline, skipDeps, skipCode, skipDocker \in BOOLEAN : SkillScan(offline, skipDeps, skipCode, skipDocker)
  \/ \E fmt \in {"json", "markdown", "text"} : ClawScan(fmt)
  \/ ClawFix
  \/ \E v \in Vulns : Publish(v)
  \/ NextDay \/ EditCompose
  \/ \E p \in Packages, version \in PackageVersions \ {Unpinned} : version > pinned[p] /\ Pin(p, version)

SentinelSpec == SentinelInit /\ [][SentinelNext]_sentinelVars

\* Types of the project, the cache and the last answer (run.py, security_sentinel.py).
SentinelTypeOK ==
  /\ scanDay \in 1..ScanDays /\ compose \in BOOLEAN
  /\ published \in [Vulns -> 0..scanDay] /\ pinned \in [Packages -> PackageVersions]
  /\ osvCache \in [Packages \X PackageVersions -> [day : 0..scanDay, vulns : SUBSET Vulns]]
  /\ lastScan.call \in {"none", "scan", "usage", "fix"}

\* A cached answer holds what OSV knew of its package and version before the day it was
\* asked on (_cache_put).
CacheSound ==
  \A p \in Packages, version \in PackageVersions :
    \A v \in Affected(p, version) :
      LET entry == osvCache[<<p, version>>] IN
      entry.day # Never /\ published[v] < entry.day => v \in entry.vulns

\* What a scan that ends with a report has to say, but for the silent packages, of the
\* vulnerabilities that OSV has known for longer than an answer is cached.
Reports(silent) ==
  lastScan.call = "scan" /\ ~lastScan.raised =>
    \A p \in lastScan.asked \ silent : \A v \in Affected(p, pinned[p]) :
      published[v] + CacheAge < scanDay =>
        v \in lastScan.vulns /\ (Rating[v] \in {"CRITICAL", "HIGH"} => lastScan.exit = 2)

\* A scan reports each vulnerability of a dependency that has been known for longer than an
\* answer is cached, and its exit code fails the build for a severe one, but for a dependency
\* whose request failed or whose answer could not be written to the cache: there it says the
\* same as of a sound one (_cache_get, _cache_put, _query_osv, scan_dependencies, exit_code).
KnownIsReported ==
  lastScan.call = "scan" => Reports(lastScan.outcome.lost \cup lastScan.outcome.unwritten)

\* The same of every dependency that OSV answered for, which the code does not keep: when the
\* cache cannot be written the answer is dropped with it (_query_osv, run.py:354-358).
AnsweredIsReported == lastScan.call = "scan" => Reports(lastScan.outcome.lost)

\* "Auto-apply safe dependency fixes." (security_sentinel.py:75): a dependency that fix reports
\* as fixed is pinned to a version that repairs a vulnerability found in it.
FixUpgrades ==
  lastScan.call = "fix" =>
    \A p \in lastScan.fixed : \E v \in lastScan.vulns : PackageOf[v] = p /\ FixedIn[v] # 0 /\ pinned[p] >= FixedIn[v]
=============================================================================
