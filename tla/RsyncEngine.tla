------------------------------ MODULE RsyncEngine ------------------------------
(* superpowers/rsync_engine.py and the rows of dashboard/db.py (RsyncDB): one *)
(* job that callers start, cancel and follow, each start with a thread and a  *)
(* process of its own, the record of the latest start, its queue and the      *)
(* timer that drops the record. Of what a process prints only single lines    *)
(* count, and that it ends; a dry run is a transfer like another.             *)
EXTENDS Naturals, Sequences, FiniteSets

CONSTANTS Followers, \* callers of get_progress_stream
          MaxStarts, \* bound: calls of start for the job
          MaxLines,  \* bound: lines of a process that wait to be read
          MaxBroken  \* bound: threads that die at their start or that an error escapes

ASSUME RsyncAssumption == MaxStarts \in Nat /\ MaxLines \in Nat /\ MaxBroken \in Nat

VARIABLES row,      \* status of the job in the database
          runs,     \* one record per start: thread, process, record of _running
          tracked,  \* the run _running has for the job, 0 if none
          follower  \* follower -> run whose queue it reads, 0 if none

rsyncVars == <<row, runs, tracked, follower>>

FinalStatus == {"completed", "failed", "cancelled"}

\* _RunningJob and its process: lines not yet read, exit code; escaped is history,
\* that an exception passed the except clause of _run_job.
NewRun == [pc |-> "update", proc |-> "none", lines |-> 0, code |-> 0, cancel |-> FALSE,
           done |-> FALSE, queue |-> <<>>, escaped |-> FALSE]

RsyncInit == /\ row = "pending" /\ runs = <<>> /\ tracked = 0
             /\ follower = [f \in Followers |-> 0]

Set(r, new) == runs' = [runs EXCEPT ![r] = new]
At(r, pc) == runs[r].pc = pc
MayBreak == Cardinality({r \in DOMAIN runs : At(r, "dead") \/ runs[r].escaped}) < MaxBroken

\* start: the record replaces that of an earlier start.
StartTransfer == /\ Len(runs) < MaxStarts
                 /\ runs' = Append(runs, NewRun)
                 /\ tracked' = Len(runs) + 1
                 /\ UNCHANGED <<row, follower>>

\* _run_job: the row is running, then the process is started, or cannot be.
UpdateRow(r) == /\ At(r, "update") /\ row' = "running"
                /\ Set(r, [runs[r] EXCEPT !.pc = "open"])
                /\ UNCHANGED <<tracked, follower>>

\* The thread cannot be started, or its first log entry or that update raises,
\* outside the try: nobody goes on with the run, and its record stays.
StartFails(r) == /\ At(r, "update") /\ MayBreak
                 /\ Set(r, [runs[r] EXCEPT !.pc = "dead"])
                 /\ UNCHANGED <<row, tracked, follower>>

Popen(r) == /\ At(r, "open")
            /\ \/ Set(r, [runs[r] EXCEPT !.pc = "read", !.proc = "alive"]) /\ row' = "running"
               \/ Set(r, [runs[r] EXCEPT !.pc = "raised"]) /\ UNCHANGED row
            /\ UNCHANGED <<tracked, follower>>

\* The process writes, or ends with a code of its own.
Write(r) == /\ At(r, "read") /\ runs[r].proc = "alive" /\ runs[r].lines < MaxLines
            /\ Set(r, [runs[r] EXCEPT !.lines = @ + 1])
            /\ UNCHANGED <<row, tracked, follower>>
Exit(r) == /\ runs[r].proc = "alive"
           /\ \E code \in {0, 1} : Set(r, [runs[r] EXCEPT !.proc = "exited", !.code = code])
           /\ UNCHANGED <<row, tracked, follower>>

\* A line is read: after a cancellation the process is ended and the job
\* cancelled; otherwise it is at most progress for the queue,
\* which a reader passes on and which is left out.
ReadLine(r) ==
    /\ At(r, "read") /\ runs[r].lines > 0
    /\ IF runs[r].cancel
       THEN /\ Set(r, [runs[r] EXCEPT !.pc = "audit", !.lines = 0, !.proc = "exited",
                                      !.code = IF runs[r].proc = "alive" THEN 1 ELSE @])
            /\ row' = "cancelled"
       ELSE /\ Set(r, [runs[r] EXCEPT !.lines = @ - 1])
            /\ UNCHANGED row
    /\ UNCHANGED <<tracked, follower>>

\* The loop ends with the output; the row is completed before the last message.
Complete(r) == /\ At(r, "read") /\ runs[r].lines = 0 /\ runs[r].proc = "exited"
               /\ row' = IF runs[r].code = 0 THEN "completed" ELSE "failed"
               /\ Set(r, [runs[r] EXCEPT !.pc = "push"])
               /\ UNCHANGED <<tracked, follower>>

Push(r) == /\ At(r, "push")
           /\ Set(r, [runs[r] EXCEPT !.pc = "audit", !.queue = Append(@, "done")])
           /\ UNCHANGED <<row, tracked, follower>>

\* The audit log may fail, after the completion: the job is then failed.
Audit(r) == /\ At(r, "audit")
            /\ \E pc \in {"finally", "raised"} : Set(r, [runs[r] EXCEPT !.pc = pc])
            /\ UNCHANGED <<row, tracked, follower>>

\* What is read cannot be decoded or parsed: a ValueError, which is caught.
ReadRaises(r) == /\ At(r, "read")
                 /\ Set(r, [runs[r] EXCEPT !.pc = "raised", !.lines = 0])
                 /\ UNCHANGED <<row, tracked, follower>>

\* The database raises, when the process is there, at progress, at the end or in
\* the exception handler: sqlite3's errors are not caught, the row stays as it is.
Escapes(r) == /\ runs[r].pc \in {"open", "read", "raised"} /\ MayBreak
              /\ Set(r, [runs[r] EXCEPT !.pc = "finally", !.escaped = TRUE, !.lines = 0,
                                        !.proc = IF At(r, "open") THEN "alive" ELSE @])
              /\ UNCHANGED <<row, tracked, follower>>

\* Mutant: the exception handler leaves the row as it is.
RaisedQuiet(r) == /\ At(r, "raised")
                  /\ Set(r, [runs[r] EXCEPT !.pc = "finally", !.queue = Append(@, "done")])
                  /\ UNCHANGED <<row, tracked, follower>>

Raised(r) == /\ At(r, "raised")
             /\ row' = "failed"
             /\ Set(r, [runs[r] EXCEPT !.pc = "finally", !.queue = Append(@, "done")])
             /\ UNCHANGED <<tracked, follower>>

\* done_event is left to the caller.
FinallyQuiet(r) == /\ At(r, "finally")
                   /\ Set(r, [runs[r] EXCEPT !.pc = "timer"])
                   /\ UNCHANGED <<row, tracked, follower>>

\* done_event, and a timer that drops whatever record the job has by then.
Finally(r) == /\ At(r, "finally")
              /\ Set(r, [runs[r] EXCEPT !.pc = "timer", !.done = TRUE])
              /\ UNCHANGED <<row, tracked, follower>>

CleanupJob(r) == /\ At(r, "timer")
                 /\ Set(r, [runs[r] EXCEPT !.pc = "over"])
                 /\ tracked' = 0
                 /\ UNCHANGED <<row, follower>>

\* cancel: the flag, and the process if there is one by now.
Cancel == /\ tracked # 0
          /\ Set(tracked, [runs[tracked] EXCEPT !.cancel = TRUE,
                 !.proc = IF @ = "alive" THEN "exited" ELSE @,
                 !.code = IF runs[tracked].proc = "alive" THEN 1 ELSE @])
          /\ UNCHANGED <<row, tracked, follower>>

\* get_progress_stream: without a record it ends at once; otherwise it takes
\* from the queue until the last message, or until it is empty and all is done.
Follow(f) == /\ follower[f] = 0 /\ tracked # 0
             /\ follower' = [follower EXCEPT ![f] = tracked]
             /\ UNCHANGED <<row, runs, tracked>>
Take(f) ==
    /\ follower[f] # 0
    /\ LET r == follower[f] IN
       IF runs[r].queue # <<>>
       THEN /\ Set(r, [runs[r] EXCEPT !.queue = Tail(@)])
            /\ follower' = IF Head(runs[r].queue) = "done" THEN [follower EXCEPT ![f] = 0] ELSE follower
       ELSE /\ runs[r].done
            /\ follower' = [follower EXCEPT ![f] = 0]
            /\ UNCHANGED runs
    /\ UNCHANGED <<row, tracked>>

Thread(r) == \/ UpdateRow(r) \/ StartFails(r) \/ Popen(r) \/ ReadLine(r) \/ ReadRaises(r)
             \/ Complete(r) \/ Push(r) \/ Audit(r) \/ Raised(r) \/ Escapes(r)
             \/ Finally(r) \/ CleanupJob(r)

RsyncNext == \/ StartTransfer \/ Cancel
             \/ \E r \in DOMAIN runs : Thread(r) \/ Write(r) \/ Exit(r)
             \/ \E f \in Followers : Follow(f) \/ Take(f)

\* Threads run, callers read, and a transfer ends some time.
RsyncFairness ==
    /\ \A r \in 1..MaxStarts : /\ WF_rsyncVars(r \in DOMAIN runs /\ Thread(r))
                               /\ WF_rsyncVars(r \in DOMAIN runs /\ Exit(r))
    /\ \A f \in Followers : WF_rsyncVars(Take(f))

RsyncSpec == RsyncInit /\ [][RsyncNext]_rsyncVars /\ RsyncFairness

RunRecord ==
  [pc : {"update", "open", "read", "push", "audit", "raised", "finally", "timer", "over", "dead"},
   proc : {"none", "alive", "exited"}, lines : 0..MaxLines, code : {0, 1},
   cancel : BOOLEAN, done : BOOLEAN, queue : Seq({"done"}), escaped : BOOLEAN]

RsyncTypeOK == /\ row \in {"pending", "running"} \cup FinalStatus
               /\ runs \in Seq(RunRecord) /\ Len(runs) <= MaxStarts
               /\ tracked \in 0..Len(runs)
               /\ follower \in [Followers -> 0..Len(runs)]

\* When every thread has ended, cancelled, raised or not, the row is final, and
\* completed only if the process of some run ended well.  It is left pending only
\* where every thread died at its start, and running only where the database
\* refused the last word of one (rsync_engine.py:182-207, 290, 322).
Settled ==
  /\ (runs # <<>> /\ \A r \in DOMAIN runs : runs[r].done \/ At(r, "dead"))
       => \/ row \in FinalStatus
          \/ row = "pending" /\ \A r \in DOMAIN runs : At(r, "dead")
          \/ row = "running" /\ \E r \in DOMAIN runs : runs[r].escaped
  /\ row = "completed" => \E r \in DOMAIN runs : runs[r].proc = "exited" /\ runs[r].code = 0

\* Without the exceptions, which the code does not keep: whatever a thread meets,
\* the row is final when all have ended.
AlwaysSettled ==
  (runs # <<>> /\ \A r \in DOMAIN runs : runs[r].done \/ At(r, "dead")) => row \in FinalStatus

\* Why the row is settled: a row that says running is one that some thread has
\* still to write, or that the database would not let one write, and before
\* that no thread has come further than its start; a process is started once and
\* read only when it is there, and whoever follows a transfer finds it over as soon
\* as its thread has nothing more to say, whether or not somebody else got the
\* last message.
RowAhead ==
  /\ row = "pending" => \A r \in DOMAIN runs : runs[r].pc \in {"update", "dead"}
  /\ row = "running" => \E r \in DOMAIN runs : runs[r].pc \in {"open", "read", "raised"} \/ runs[r].escaped
  /\ \A r \in DOMAIN runs : /\ runs[r].pc \in {"update", "open"} => runs[r].proc = "none"
                            /\ (runs[r].done <=> runs[r].pc \in {"timer", "over"})
                            /\ runs[r].pc = "read" => runs[r].proc # "none"

\* Every stream of progress ends, though several share one queue and only one
\* of them gets the last message, the job is cancelled or started again, the
\* database fails, and its record is dropped; except the stream of a run whose
\* thread died before its try, which nobody ever ends.
TransfersEnd ==
  \A f \in Followers, r \in 1..MaxStarts :
    follower[f] = r ~> follower[f] # r \/ At(r, "dead")
================================================================================
