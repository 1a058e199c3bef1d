------------------------------ MODULE Benchmark ------------------------------
(* BenchmarkSuite.run_all (superpowers/benchmark.py), one after the other or in *)
(* a pool with a thread for each scenario, around the tracer of memory, of      *)
(* which a process has one.  Times are "quick" or not; memory is a level.       *)
EXTENDS Integers, FiniteSets

CONSTANTS
  Scenarios,     \* the scenarios by number, in the order of their names
  MemoryOf,      \* scenario -> the memory its function needs at the most
  MemoryLimit,   \* scenario -> threshold of memory_peak_mb, or NoLimit
  Timed,         \* scenarios with a threshold of duration_ms or ops_per_sec
  NoLimit,
  Parallels      \* the values of --parallel that are tried

ASSUME BenchAssumption ==
  /\ IsFiniteSet(Scenarios) /\ Scenarios = 1 .. Cardinality(Scenarios)
  /\ MemoryOf \in [Scenarios -> Nat] /\ NoLimit \notin Nat
  /\ MemoryLimit \in [Scenarios -> Nat \cup {NoLimit}] /\ Timed \subseteq Scenarios /\ Parallels \subseteq BOOLEAN

VARIABLES
  suite,      \* [at, parallel]: the thread that runs the suite
  measure,    \* scenario -> "idle", "tracing", "done", ...: _measure in its thread
  allocated,  \* the memory the scenarios hold now
  tracing, peak,   \* tracemalloc: whether it traces, and the highest level since it began
  results,    \* scenario -> [status, quick, peak] once it is there
  lastReport  \* benchmark-latest.json: "none", "torn" or whether it says PASS

benchVars == <<suite, measure, allocated, tracing, peak, results, lastReport>>

NoResult == [status |-> "none", quick |-> FALSE, peak |-> 0]

BenchInit ==
  /\ suite = [at |-> "new", parallel |-> FALSE]
  /\ measure = [s \in Scenarios |-> "idle"] /\ allocated = 0
  /\ tracing = FALSE /\ peak = 0
  /\ results = [s \in Scenarios |-> NoResult] /\ lastReport = "none"

Measured(s, from, to) == measure[s] = from /\ measure' = [measure EXCEPT ![s] = to]

StartSuite ==
  /\ suite.at = "new"
  /\ \E parallel \in Parallels : suite' = [at |-> "run", parallel |-> parallel]
  /\ results' = [s \in Scenarios |-> NoResult] /\ measure' = [s \in Scenarios |-> "idle"]
  /\ UNCHANGED <<allocated, tracing, peak, lastReport>>

\* The pool starts every scenario, the loop one when the ones before it are done.
MayStart(s) == suite.at = "run" /\ (suite.parallel \/ \A q \in 1 .. s - 1 : measure[q] = "done")

\* tracemalloc.start(): does nothing when it traces already.
StartTrace(s) ==
  /\ MayStart(s) /\ Measured(s, "idle", "running")
  /\ tracing' = TRUE /\ peak' = IF tracing THEN peak ELSE 0
  /\ UNCHANGED <<suite, allocated, results, lastReport>>

\* The iterations: the function allocates what it needs, or raises before or after.
RunScenario(s) ==
  \/ /\ Measured(s, "running", "high")
     /\ allocated' = allocated + MemoryOf[s]
     /\ peak' = IF tracing /\ allocated' > peak THEN allocated' ELSE peak
     /\ UNCHANGED <<suite, tracing, results, lastReport>>
  \/ /\ Measured(s, "high", "ran") \/ Measured(s, "high", "raised")
     /\ allocated' = allocated - MemoryOf[s]
     /\ UNCHANGED <<suite, tracing, peak, results, lastReport>>
  \/ /\ Measured(s, "running", "raised") /\ UNCHANGED <<suite, allocated, tracing, peak, results, lastReport>>

\* get_traced_memory: (0, 0) when nothing is traced.
Traced == IF tracing THEN peak ELSE 0

ResultOf(s, quick, traced) ==
  results' = [results EXCEPT ![s] = [status |-> IF measure[s] = "raised" THEN "error" ELSE "pass", quick |-> quick, peak |-> traced]]

\* Mutant: the tracer is stopped before it is asked.
ReadAfterStop(s) ==
  /\ Measured(s, "ran", "read") \/ Measured(s, "raised", "read")
  /\ tracing' = FALSE
  /\ \E quick \in BOOLEAN : ResultOf(s, quick, 0)
  /\ UNCHANGED <<suite, allocated, peak, lastReport>>

ReadTrace(s) ==
  /\ Measured(s, "ran", "read") \/ Measured(s, "raised", "read")
  /\ \E quick \in BOOLEAN : ResultOf(s, quick, Traced)
  /\ UNCHANGED <<suite, allocated, tracing, peak, lastReport>>

\* tracemalloc.stop(): for every thread of the process.
StopTrace(s) ==
  /\ Measured(s, "read", "done") /\ tracing' = FALSE
  /\ UNCHANGED <<suite, allocated, peak, results, lastReport>>

\* _check_thresholds: a threshold is met by the result's field, whatever its status.
Met(s) ==
  /\ MemoryLimit[s] = NoLimit \/ results[s].peak <= MemoryLimit[s]
  /\ s \in Timed => results[s].quick
ThresholdsPassed == \A s \in Scenarios : Met(s)
AllPassed == \A s \in Scenarios : results[s].status = "pass"

\* The report is saved, first as an empty file; the command's status is that of AllPassed
\* alone.
SaveReport ==
  \/ /\ suite.at = "run" /\ \A s \in Scenarios : measure[s] = "done"
     /\ suite' = [suite EXCEPT !.at = "saving"] /\ lastReport' \in {"torn", lastReport}
     /\ UNCHANGED <<measure, allocated, tracing, peak, results>>
  \/ /\ suite.at = "saving" /\ suite' = [suite EXCEPT !.at = IF AllPassed THEN "exit 0" ELSE "exit 1"]
     /\ lastReport' = IF lastReport = "torn" THEN (IF AllPassed /\ ThresholdsPassed THEN "PASS" ELSE "FAIL") ELSE lastReport
     /\ UNCHANGED <<measure, allocated, tracing, peak, results>>

\* The command is killed while it saves; load_last_report then finds no JSON and has no report.
KillSuite ==
  /\ suite.at = "saving" /\ suite' = [suite EXCEPT !.at = "new"]
  /\ UNCHANGED <<measure, allocated, tracing, peak, results, lastReport>>
LastShown == IF lastReport = "torn" THEN "none" ELSE lastReport

\* The next run of the command.
NextCommand ==
  /\ suite.at \in {"exit 0", "exit 1"} /\ suite' = [suite EXCEPT !.at = "new"]
  /\ UNCHANGED <<measure, allocated, tracing, peak, results, lastReport>>

BenchNext ==
  \/ StartSuite \/ SaveReport \/ KillSuite \/ NextCommand
  \/ \E s \in Scenarios : StartTrace(s) \/ RunScenario(s) \/ ReadTrace(s) \/ StopTrace(s)

BenchSpec == BenchInit /\ [][BenchNext]_benchVars

BenchTypeOK ==
  /\ suite \in [at : {"new", "run", "saving", "exit 0", "exit 1"}, parallel : BOOLEAN]
  /\ measure \in [Scenarios -> {"idle", "running", "high", "ran", "raised", "read", "done"}]
  /\ results \in [Scenarios -> [status : {"none", "pass", "error"}, quick : BOOLEAN, peak : Nat]]
  /\ tracing \in BOOLEAN /\ peak \in Nat /\ allocated \in Int /\ lastReport \in {"none", "torn", "PASS", "FAIL"}

\* The scenarios that are being measured.
Measuring == {s \in Scenarios : measure[s] \notin {"idle", "done"}}

\* One after the other, a scenario is measured only after those before it, the tracer is its
\* own, and the peak is at least what it has allocated.
BenchInv ==
  /\ ~suite.parallel
  /\ Measuring # {} => suite.at = "run"
  /\ \A s \in Measuring : \A q \in Scenarios : q < s => measure[q] = "done"
  /\ Measuring # {} => tracing
  /\ \A s \in Measuring : allocated = IF measure[s] = "high" THEN MemoryOf[s] ELSE 0
  /\ Measuring = {} => allocated = 0
  /\ \A s \in Measuring : measure[s] \in {"high", "ran"} => peak >= MemoryOf[s]
  /\ \A s \in Scenarios : results[s].status = "pass" => results[s].peak >= MemoryOf[s]

(* _check_thresholds: a scenario that ran to its end and is reported within    *)
(* its threshold of memory did not need more.                                  *)
PeakIsTrue ==
  \A s \in Scenarios :
    results[s].status = "pass" /\ MemoryLimit[s] # NoLimit /\ MemoryOf[s] > MemoryLimit[s] => ~Met(s)
==============================================================================
