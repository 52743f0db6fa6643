------------------------------ MODULE JobLifecycle ------------------------------
(***************************************************************************)
(* Background jobs: the rows of the jobs table, the in-process workers     *)
(* that run them (ecl, analysis and agent job_worker.py), and the cleaning *)
(* of interrupted jobs when serve starts (reset_stale_running_jobs).       *)
(*                                                                         *)
(* A job is run by the serve process, except an analysis the command line  *)
(* runs in a process of its own on the same table.  Every progress point   *)
(* is a commit.  An analysis keeps the Job object it loaded first          *)
(* (expire_on_commit=False), so an assignment reaches the database only    *)
(* when it changes what that object already says.  The other workers' rows *)
(* are changed by no one else while they run.                              *)
(***************************************************************************)
EXTENDS Naturals, Sequences

CONSTANTS
    Jobs,
    Kind,          \* "ingest", "analyze" or "agent"
    Origin,        \* who submits it: the "api", the "cli", or a tool of an "agent"
    Loads,         \* which of them are asked for together in a behaviour
    Faults,        \* what may go wrong: "db" a failed commit, "start" a worker
                   \* that fails before its try block, "reset" a failed cleaning
    MaxFaults, MaxCrashes   \* bounds on failures and on ends of the serve process

ASSUME JobAssumption ==
    /\ Kind \in [Jobs -> {"ingest", "analyze", "agent"}]
    /\ Origin \in [Jobs -> {"api", "cli", "agent"}]
    /\ \A j \in Jobs : Origin[j] # "api" => Kind[j] = "analyze"
    /\ Loads \subseteq SUBSET Jobs
    /\ Faults \subseteq {"db", "start", "reset"}
    /\ MaxFaults \in Nat /\ MaxCrashes \in Nat

VARIABLES
    job,      \* the jobs table
    report,   \* the jobs that have a row in analysis_reports
    run,      \* the agent_runs row of each agent job
    log,      \* the outcomes each job's worker has entered in audit_logs
    worker,   \* the background task of each job; "errors" counts what it ran into
    serve,    \* the serve process
    doomed,   \* the jobs a starting serve has loaded as interrupted
    faults, crashes

vars == <<job, report, run, log, worker, serve, doomed, faults, crashes>>

(* Mutant: a progress above 100. *)
PointsBeyond == [ingest |-> <<5, 60, 190>>, analyze |-> <<10, 25, 60, 80, 95>>, agent |-> <<10, 10, 50>>]

(* The progress points a worker commits, in order; the agent's second one adds *)
(* the run row.                                                                *)
Points == [ingest |-> <<5, 60, 90>>, analyze |-> <<10, 25, 60, 80, 95>>, agent |-> <<10, 10, 50>>]
Last(j) == Len(Points[Kind[j]])

(* Mutants: only running jobs are cleaned; everything without an error is. *)
RunningOnly == {"running"}
NotFailed == {"pending", "running", "succeeded"}
Unfinished == {"pending", "running"}
Terminal == {"succeeded", "failed"}
Active == {"queued", "run", "done", "refused", "failing", "failed"}

Init ==
    /\ job = [j \in Jobs |-> [status |-> "none", progress |-> 0, result |-> FALSE]]
    /\ report = {}
    /\ run = [j \in Jobs |-> "none"]
    /\ log = [j \in Jobs |-> {}]
    /\ \E asked \in Loads :
         worker = [j \in Jobs |-> [pc |-> IF j \in asked THEN "none" ELSE "unasked",
                                  at |-> 0, seen |-> "none", errors |-> 0]]
    /\ serve = "down" /\ doomed = {}
    /\ faults = 0 /\ crashes = 0

(* Where a worker is, and how it is left by a step. *)
InRun(j, points) == worker[j].pc = "run" /\ worker[j].at \in points
Goto(j, pc) == worker' = [worker EXCEPT ![j].pc = pc]
Trip(j, pc) == worker' = [worker EXCEPT ![j].pc = pc, ![j].errors = @ + 1]

(* Assignments to the worker's own Job object, flushed by the commit. *)
Save(j, status, progress, result) ==
    job' = [job EXCEPT ![j] = [status |-> IF status = worker[j].seen THEN @.status ELSE status,
                               progress |-> progress, result |-> @.result \/ result]]

(* The row is committed before the background task is scheduled. *)
Submit(j) ==
    /\ worker[j].pc = "none"
    /\ Origin[j] # "cli" => serve = "up"
    /\ Origin[j] = "agent" => \E a \in Jobs : Kind[a] = "agent" /\ InRun(a, {3})
    /\ job' = [job EXCEPT ![j].status = "pending"]
    /\ Goto(j, "queued")
    /\ UNCHANGED <<report, run, log, serve, doomed, faults, crashes>>

(* The worker loads its job. *)
Begin(j) ==
    /\ worker[j].pc = "queued"
    /\ worker' = [worker EXCEPT ![j].pc = "run", ![j].seen = job[j].status]
    /\ UNCHANGED <<job, report, run, log, serve, doomed, faults, crashes>>

(* _update_job, and the agent worker's assignments up to the graph stage. *)
Advance(j) ==
    /\ worker[j].pc = "run" /\ worker[j].at < Last(j)
    /\ Save(j, "running", Points[Kind[j]][worker[j].at + 1], FALSE)
    /\ worker' = [worker EXCEPT ![j].at = @ + 1, ![j].seen = "running"]
    /\ run' = [run EXCEPT ![j] = IF Kind[j] = "agent" /\ worker[j].at = 1 THEN "running" ELSE @]
    /\ UNCHANGED <<report, log, serve, doomed, faults, crashes>>

(* _finish_succeeded: the outcome is committed, then its audit entry. *)
Succeed(j) ==
    /\ Kind[j] # "agent" /\ InRun(j, {Last(j)})
    /\ Save(j, "succeeded", 100, TRUE)
    /\ report' = IF Kind[j] = "analyze" THEN report \cup {j} ELSE report
    /\ Goto(j, "done")
    /\ UNCHANGED <<run, log, serve, doomed, faults, crashes>>

(* A finished turn: run, job and audit entry in one commit.  A turn that ran out *)
(* of budget is a failed run of a succeeded job.                                 *)
SucceedAgent(j) ==
    /\ Kind[j] = "agent" /\ InRun(j, {Last(j)})
    /\ Save(j, "succeeded", 100, TRUE)
    /\ \E s \in Terminal : run' = [run EXCEPT ![j] = s]
    /\ log' = [log EXCEPT ![j] = @ \cup {"succeeded"}]
    /\ Goto(j, "ended")
    /\ UNCHANGED <<report, serve, doomed, faults, crashes>>

(* The engine raises, the submitter is gone, or there is no visible material. *)
Raise(j) ==
    /\ \/ Kind[j] = "ingest" /\ InRun(j, {1})
       \/ Kind[j] = "analyze" /\ InRun(j, {1, 2})
    /\ Trip(j, "failing")
    /\ UNCHANGED <<job, report, run, log, serve, doomed, faults, crashes>>

(* An analysis that failed as a whole is finished in the worker's own session. *)
Refuse(j) ==
    /\ Kind[j] = "analyze" /\ InRun(j, {4})
    /\ Save(j, "failed", job[j].progress, FALSE)
    /\ Goto(j, "refused")
    /\ UNCHANGED <<report, run, log, serve, doomed, faults, crashes>>

(* The session is no longer accessible, or run_turn raises: one commit again. *)
FailAgent(j) ==
    /\ Kind[j] = "agent" /\ InRun(j, {1, 3})
    /\ Save(j, "failed", job[j].progress, FALSE)
    /\ run' = [run EXCEPT ![j] = IF @ = "running" THEN "failed" ELSE @]
    /\ log' = [log EXCEPT ![j] = @ \cup {"failed"}]
    /\ Goto(j, "ended")
    /\ UNCHANGED <<report, serve, doomed, faults, crashes>>

(* _finish_failed: a fresh session loads the row as it is now. *)
FinishFailed(j) ==
    /\ worker[j].pc = "failing"
    /\ job' = [job EXCEPT ![j].status = "failed"]
    /\ Goto(j, "failed")
    /\ UNCHANGED <<report, run, log, serve, doomed, faults, crashes>>

(* The audit entry of an outcome, in a commit of its own. *)
Audit(j) ==
    /\ worker[j].pc \in {"done", "refused", "failed"}
    /\ log' = [log EXCEPT ![j] =
                 @ \cup {IF worker[j].pc = "done" THEN "succeeded" ELSE "failed"}]
    /\ Goto(j, "ended")
    /\ UNCHANGED <<job, report, run, serve, doomed, faults, crashes>>

Work(j) == Begin(j) \/ Advance(j) \/ Succeed(j) \/ SucceedAgent(j) \/ Raise(j)
           \/ Refuse(j) \/ FailAgent(j) \/ FinishFailed(j) \/ Audit(j)
-----------------------------------------------------------------------------
Fault(kind) == kind \in Faults /\ faults < MaxFaults /\ faults' = faults + 1

(* A database call fails.  The ingest and analysis workers catch it and record a *)
(* failure, unless that is what failed; the agent worker does not catch it.      *)
DbError(j) ==
    /\ Fault("db")
    /\ worker[j].pc \in Active
    /\ Trip(j, IF Kind[j] = "agent" \/ worker[j].pc \in {"failing", "failed"}
               THEN "ended" ELSE "failing")
    /\ UNCHANGED <<job, report, run, log, serve, doomed, crashes>>

(* The uploaded file is gone, which is asserted before the try block, or the     *)
(* engine of an analysis an agent asked for cannot be built.                     *)
NeverStarts(j) ==
    /\ Fault("start")
    /\ worker[j].pc = "queued"
    /\ Kind[j] = "ingest" \/ Origin[j] = "agent"
    /\ Trip(j, "ended")
    /\ UNCHANGED <<job, report, run, log, serve, doomed, crashes>>

(* Mutant: the tasks outlive the process that serves. *)
CrashAlone ==
    /\ serve # "down" /\ crashes < MaxCrashes
    /\ serve' = "down" /\ doomed' = {}
    /\ crashes' = crashes + 1
    /\ UNCHANGED <<job, report, run, log, worker, faults>>

(* The serve process ends, and its background tasks with it. *)
Crash ==
    /\ serve # "down" /\ crashes < MaxCrashes
    /\ serve' = "down" /\ doomed' = {}
    /\ crashes' = crashes + 1
    /\ worker' = [j \in Jobs |-> IF Origin[j] # "cli" /\ worker[j].pc \in Active
                                 THEN [worker[j] EXCEPT !.pc = "lost"] ELSE worker[j]]
    /\ UNCHANGED <<job, report, run, log, faults>>

(* reset_stale_running_jobs, before uvicorn accepts requests: load, then update. *)
ResetRead ==
    /\ serve = "down"
    /\ serve' = "resetting"
    /\ doomed' = {j \in Jobs : job[j].status \in Unfinished}
    /\ UNCHANGED <<job, report, run, log, worker, faults, crashes>>

ResetWrite ==
    /\ serve = "resetting"
    /\ serve' = "up" /\ doomed' = {}
    /\ job' = [j \in Jobs |-> IF j \in doomed THEN [job[j] EXCEPT !.status = "failed"] ELSE job[j]]
    /\ UNCHANGED <<report, run, log, worker, faults, crashes>>

(* A cleaning that fails is logged and does not keep serve from starting. *)
ResetFails ==
    /\ Fault("reset")
    /\ serve = "resetting"
    /\ serve' = "up" /\ doomed' = {}
    /\ UNCHANGED <<job, report, run, log, worker, crashes>>

Next ==
    \/ \E j \in Jobs : Submit(j) \/ Work(j) \/ DbError(j) \/ NeverStarts(j)
    \/ Crash \/ ResetRead \/ ResetWrite \/ ResetFails

Spec == Init /\ [][Next]_vars

(* A scheduled task runs to its end while its process lives, and whoever operates *)
(* the service starts it again when it went down.                                 *)
FairSpec ==
    /\ Spec
    /\ \A j \in Jobs : WF_vars(Work(j))
    /\ WF_vars(ResetRead \/ ResetWrite)
-----------------------------------------------------------------------------
Submitted(j) == job[j].status # "none"
Finished(j) == job[j].status \in Terminal

(* Every variable keeps its type; a progress is a percentage. *)
JobTypeOK ==
    /\ job \in [Jobs -> [status: {"none"} \cup Unfinished \cup Terminal,
                         progress: 0 .. 100, result: BOOLEAN]]
    /\ report \subseteq Jobs /\ doomed \subseteq Jobs
    /\ run \in [Jobs -> {"none", "running"} \cup Terminal]
    /\ log \in [Jobs -> SUBSET Terminal]
    /\ worker \in [Jobs -> [pc: Active \cup {"none", "unasked", "ended", "lost"}, at: 0 .. 5,
                            seen: {"none"} \cup Unfinished \cup Terminal,
                            errors: 0 .. MaxFaults + 1]]
    /\ serve \in {"down", "resetting", "up"}
    /\ faults \in 0 .. MaxFaults /\ crashes \in 0 .. MaxCrashes

(* A job that has ended stays as it ended (JobStatus: pending -> running ->    *)
(* succeeded/failed), whatever serve's restarts and late workers do.           *)
FinalIsFinal == [][\A j \in Jobs : Finished(j) => job'[j].status = job[j].status]_vars

(* The jobs serve runs, as long as their workers have met no error.            *)
Untroubled(j) == Origin[j] # "cli" /\ worker[j].errors = 0

(* So it is for every job serve runs, whatever its restarts and the other jobs *)
(* do, until an error of the database strikes after its outcome was committed. *)
(* And whoever polls never sees a progress go back or a result disappear.      *)
JobsGoForward == [][\A j \in Jobs :
    /\ Untroubled(j) /\ Finished(j) => job'[j].status = job[j].status
    /\ job[j].progress <= job'[j].progress /\ (job[j].result => job'[j].result)]_vars

(* A job serve runs shows as succeeded exactly when its outcome is stored: the *)
(* result, the report of an analysis, the settled run of an agent; an error    *)
(* after the commit of a success is the one way apart.  The audit log tells    *)
(* the outcome the jobs table shows, and only one.                             *)
OutcomeStored == \A j \in Jobs :
    /\ job[j].status = "succeeded" => job[j].result
    /\ Untroubled(j) => (job[j].status = "succeeded" <=> job[j].result)
    /\ j \in report <=> Kind[j] = "analyze" /\ job[j].result
    /\ Kind[j] = "agent" /\ job[j].status = "succeeded" => run[j] \in Terminal
    /\ Untroubled(j) => log[j] \subseteq {job[j].status}

(* Whoever polls a submitted job eventually sees it end, unless something      *)
(* failed: a failed task or a failed cleaning leaves it to the next restart.   *)
(* And one error is always recorded: an ingest or an analysis whose worker has *)
(* begun ends, unless its process dies or a second error strikes.              *)
JobsEnd == \A j \in Jobs :
    /\ Submitted(j) ~> (Finished(j) \/ faults > 0)
    /\ Kind[j] # "agent" =>
         (worker[j].pc = "run" ~> (Finished(j) \/ worker[j].pc = "lost" \/ worker[j].errors > 1))
-----------------------------------------------------------------------------
(* How a worker's place and its job's row go together.  The flag of a worker   *)
(* that met no error is what an outcome can be read off.                       *)
Unborn == {"none", "unasked", "queued"}
Early == Unborn \cup {"run", "done", "refused"}
InPlace(j) == LET w == worker[j] IN
    /\ w.pc \in Unborn => w.at = 0 /\ job[j].progress = 0
    /\ w.pc \in {"none", "unasked"} => job[j].status = "none"
    /\ w.pc = "run" =>
         /\ w.at <= Last(j)
         /\ w.seen \in IF w.at = 0 THEN {"pending", "failed"} ELSE {"running"}
         /\ job[j].progress = IF w.at = 0 THEN 0 ELSE Points[Kind[j]][w.at]
    /\ w.pc = "queued" => job[j].status \in {"pending", "failed"}
    /\ w.pc \in Unborn \cup {"run", "refused"} => ~job[j].result
    /\ w.pc = "done" => job[j].result
    /\ w.pc \in {"failing", "failed"} => w.errors > 0
    /\ w.errors <= faults + (IF w.pc \in Early THEN 0 ELSE 1)
    /\ log[j] # {} => w.pc = "ended"
    /\ Untroubled(j) => /\ w.pc \in {"queued", "run"} => job[j].status \in Unfinished
                        /\ w.pc = "refused" => job[j].status = "failed"

(* Serve runs no task before it listens, so what its cleaning has loaded stays *)
(* as it was loaded, the jobs of the command line aside.                       *)
CleanedFirst(j) ==
    /\ serve # "up" /\ Origin[j] # "cli" => worker[j].pc \notin Active
    /\ j \in doomed => /\ serve = "resetting" /\ job[j].status # "none"
                       /\ Origin[j] # "cli" => job[j].status \in Unfinished

(* What every step preserves.                                                  *)
JobIInv == JobTypeOK /\ OutcomeStored /\ \A j \in Jobs : InPlace(j) /\ CleanedFirst(j)
================================================================================
