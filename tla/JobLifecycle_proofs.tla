-------------------------- MODULE JobLifecycle_proofs --------------------------
(***************************************************************************)
(* For every set of jobs, with any number of restarts and failures: an     *)
(* outcome is stored whole and told truthfully, and a job serve runs never *)
(* changes how it ended.                                                   *)
(***************************************************************************)
EXTENDS JobLifecycle, TLAPS

Statuses == {"none"} \cup Unfinished \cup Terminal
Places == Active \cup {"none", "unasked", "ended", "lost"}
JobRow == [status: Statuses, progress: 0 .. 100, result: BOOLEAN]
Worker == [pc: Places, at: 0 .. 5, seen: Statuses, errors: 0 .. MaxFaults + 1]

LEMMA Names ==
    /\ \A p \in Active \cup {"none", "unasked", "ended", "lost"} : p \in Places
    /\ \A s \in Terminal \cup Unfinished : s \in Statuses
    /\ "running" \in Statuses /\ "pending" \in Statuses /\ "none" \in Statuses
    /\ "failed" \in Statuses /\ "succeeded" \in Statuses
  BY DEF Places, Statuses, Unfinished, Terminal

(* The parts of OutcomeStored and of the invariant that are about one job. *)
StoredFor(j) ==
    /\ job[j].status = "succeeded" => job[j].result
    /\ Untroubled(j) => (job[j].status = "succeeded" <=> job[j].result)
    /\ j \in report <=> Kind[j] = "analyze" /\ job[j].result
    /\ Kind[j] = "agent" /\ job[j].status = "succeeded" => run[j] \in Terminal
    /\ Untroubled(j) => log[j] \subseteq {job[j].status}
Sound(j) == StoredFor(j) /\ InPlace(j) /\ CleanedFirst(j)

LEMMA InvariantByJob == JobIInv <=> JobTypeOK /\ \A j \in Jobs : Sound(j)
  BY DEF JobIInv, OutcomeStored, Sound, StoredFor

LEMMA TypeByJob == JobTypeOK <=>
    /\ job \in [Jobs -> JobRow] /\ worker \in [Jobs -> Worker]
    /\ report \subseteq Jobs /\ doomed \subseteq Jobs
    /\ run \in [Jobs -> {"none", "running"} \cup Terminal]
    /\ log \in [Jobs -> SUBSET Terminal]
    /\ serve \in {"down", "resetting", "up"}
    /\ faults \in 0 .. MaxFaults /\ crashes \in 0 .. MaxCrashes
  BY DEF JobTypeOK, JobRow, Worker, Statuses, Places

(* Every worker has up to five progress points, each a percentage and none *)
(* below the one before.                                                   *)
LEMMA PointsRise ==
    ASSUME NEW j \in Jobs
    PROVE  /\ Last(j) \in 1 .. 5
           /\ \A i \in 1 .. Last(j) : Points[Kind[j]][i] \in 0 .. 100
           /\ \A i, k \in 1 .. Last(j) : k = i + 1 => Points[Kind[j]][i] <= Points[Kind[j]][k]
           /\ Kind[j] = "agent" => Last(j) = 3
           /\ Kind[j] = "analyze" => Last(j) = 5
           /\ Kind[j] = "ingest" => Last(j) = 3
  <1>1. Kind[j] \in {"ingest", "analyze", "agent"}
    BY JobAssumption DEF JobAssumption
  <1>2. CASE Kind[j] = "ingest"
    BY <1>2 DEF Last, Points
  <1>3. CASE Kind[j] = "analyze"
    BY <1>3 DEF Last, Points
  <1>4. CASE Kind[j] = "agent"
    BY <1>4 DEF Last, Points
  <1> QED BY <1>1, <1>2, <1>3, <1>4

(* A job no step touches stays sound, whatever happens to the others. *)
LEMMA Untouched ==
    ASSUME JobTypeOK, NEW j \in Jobs, Sound(j),
           job'[j] = job[j], worker'[j] = worker[j], run'[j] = run[j], log'[j] = log[j],
           j \in report' <=> j \in report, j \in doomed' <=> j \in doomed, serve' = serve,
           faults' \in {faults, faults + 1}
    PROVE  Sound(j)'
  <1>1. worker[j].errors \in Nat /\ faults \in Nat
    BY TypeByJob, JobAssumption DEF Worker, JobAssumption
  <1>2. StoredFor(j)' /\ CleanedFirst(j)'
    BY DEF Sound, StoredFor, CleanedFirst, Untroubled
  <1>3. InPlace(j)'
    BY <1>1 DEF Sound, InPlace, Untroubled
  <1> QED BY <1>2, <1>3 DEF Sound

(* A step that touches one job, and keeps that one sound and all of them   *)
(* typed, keeps the invariant.                                             *)
Elsewhere(j) == \A k \in Jobs \ {j} :
    /\ job'[k] = job[k] /\ worker'[k] = worker[k] /\ run'[k] = run[k] /\ log'[k] = log[k]
    /\ k \in report' <=> k \in report
Rows(jobs, workers, runs, logs) ==
    /\ jobs \in [Jobs -> JobRow] /\ workers \in [Jobs -> Worker]
    /\ runs \in [Jobs -> {"none", "running"} \cup Terminal] /\ logs \in [Jobs -> SUBSET Terminal]
LEMMA OneJob ==
    ASSUME JobIInv, NEW j \in Jobs, Rows(job', worker', run', log'), Elsewhere(j), Sound(j)',
           report' \subseteq Jobs, doomed' = doomed, serve' = serve, crashes' = crashes,
           faults' \in {faults, faults + 1}, faults' <= MaxFaults
    PROVE  JobIInv'
  <1>1. ASSUME NEW k \in Jobs, k # j PROVE Sound(k)'
    BY <1>1, InvariantByJob, Untouched DEF Elsewhere
  <1>2. JobTypeOK'
    BY JobAssumption DEF JobIInv, JobTypeOK, Rows, JobRow, Worker, Statuses, Places, JobAssumption
  <1> QED BY <1>1, <1>2 DEF JobIInv, OutcomeStored, Sound, StoredFor

LEMMA Known ==
    ASSUME JobIInv, NEW j \in Jobs
    PROVE  /\ Rows(job, worker, run, log)
           /\ job[j] \in JobRow /\ worker[j] \in Worker /\ log[j] \subseteq Terminal
           /\ run[j] \in {"none", "running"} \cup Terminal
           /\ report \subseteq Jobs /\ faults \in Nat /\ faults <= MaxFaults /\ MaxFaults \in Nat
           /\ serve \in {"down", "resetting", "up"}
           /\ StoredFor(j) /\ InPlace(j) /\ CleanedFirst(j)
  <1>1. JobTypeOK /\ Sound(j)
    BY InvariantByJob
  <1> QED BY <1>1, TypeByJob, JobAssumption DEF Rows, Sound, JobAssumption

LEMMA SubmitKeeps ==
    ASSUME JobIInv, NEW j \in Jobs, Submit(j)
    PROVE  JobIInv'
  <1> USE Known DEF Submit, Goto
  <1>1. job'[j] = [job[j] EXCEPT !.status = "pending"] /\ worker'[j] = [worker[j] EXCEPT !.pc = "queued"]
    BY DEF Rows
  <1>2. /\ worker'[j] \in Worker /\ worker'[j].pc = "queued" /\ worker'[j].at = worker[j].at
        /\ worker'[j].errors = worker[j].errors
    <2> "queued" \in Places
      BY Names DEF Active
    <2> QED BY <1>1 DEF Worker
  <1>a. job'[j] \in JobRow
    BY <1>1, Names DEF JobRow
  <1>3. Rows(job', worker', run', log')
    BY <1>2, <1>a DEF Rows
  <1>4. Elsewhere(j)
    BY DEF Elsewhere, Rows
  <1>5. StoredFor(j)'
    BY <1>1, <1>2 DEF StoredFor, InPlace, JobRow, Unborn, Untroubled
  <1>6. InPlace(j)'
    BY <1>1, <1>2 DEF InPlace, JobRow, Unborn, Early, Untroubled, Unfinished
  <1>7. CleanedFirst(j)'
    BY <1>1, <1>2 DEF CleanedFirst, InPlace, JobRow, Unfinished
  <1> QED BY <1>3, <1>4, <1>5, <1>6, <1>7, OneJob DEF Sound

LEMMA BeginKeeps ==
    ASSUME JobIInv, NEW j \in Jobs, Begin(j)
    PROVE  JobIInv'
  <1> USE Known DEF Begin
  <1>1. job'[j] = job[j] /\ worker'[j] = [worker[j] EXCEPT !.pc = "run", !.seen = job[j].status]
    BY DEF Rows
  <1>2. /\ worker'[j] \in Worker /\ worker'[j].pc = "run" /\ worker'[j].at = worker[j].at
        /\ worker'[j].errors = worker[j].errors /\ worker'[j].seen = job[j].status
    <2>1. "run" \in Places /\ job[j].status \in Statuses
      BY Names DEF Active, JobRow
    <2>2. worker[j] \in Worker
      OBVIOUS
    <2> QED BY ONLY <1>1, <2>1, <2>2 DEF Worker
  <1>3. Rows(job', worker', run', log')
    BY <1>2 DEF Rows
  <1>4. Elsewhere(j)
    BY DEF Elsewhere, Rows
  <1>5. StoredFor(j)'
    BY <1>1, <1>2 DEF StoredFor, Untroubled
  <1>6. InPlace(j)'
    <2>1. worker'[j].at = 0 /\ 0 <= Last(j)
      BY <1>2, PointsRise DEF InPlace, Unborn
    <2> QED BY <1>1, <1>2, <2>1 DEF InPlace, Unborn, Early, Untroubled
  <1>7. CleanedFirst(j)'
    BY <1>1, <1>2 DEF CleanedFirst, Active
  <1> QED BY <1>3, <1>4, <1>5, <1>6, <1>7, OneJob DEF Sound

(* A worker's own object has said "running" since its first commit, so the *)
(* outcome it assigns reaches the database.                                *)
LEMMA SavedOutcome ==
    ASSUME JobIInv, NEW j \in Jobs, worker[j].pc = "run", worker[j].at > 0,
           NEW status \in Terminal, NEW progress \in 0 .. 100, NEW result \in BOOLEAN,
           Save(j, status, progress, result)
    PROVE  /\ job'[j] = [status |-> status, progress |-> progress, result |-> job[j].result \/ result]
           /\ job'[j] \in JobRow /\ job' \in [Jobs -> JobRow]
           /\ \A k \in Jobs \ {j} : job'[k] = job[k]
  <1> USE Known
  <1>1. worker[j].seen = "running"
    BY DEF InPlace, Worker
  <1>2. job'[j] = [status |-> status, progress |-> progress, result |-> job[j].result \/ result]
    BY <1>1 DEF Save, Rows, Terminal
  <1>3. job'[j] \in JobRow
    BY <1>2, Names DEF JobRow
  <1> QED BY <1>2, <1>3 DEF Save, Rows

LEMMA AdvanceKeeps ==
    ASSUME JobIInv, NEW j \in Jobs, Advance(j)
    PROVE  JobIInv'
  <1> DEFINE i == worker[j].at + 1
             p == Points[Kind[j]][i]
  <1> USE Known DEF Advance
  <1>0. /\ worker[j].at \in Nat /\ i \in 1 .. Last(j) /\ i \in 0 .. 5 /\ p \in 0 .. 100
        /\ worker[j].pc = "run"
    <2>1. worker[j].at \in Nat /\ worker[j].at < Last(j) /\ worker[j].pc = "run"
      BY DEF Worker
    <2>2. Last(j) \in 1 .. 5 /\ \A n \in 1 .. Last(j) : Points[Kind[j]][n] \in 0 .. 100
      BY PointsRise
    <2>3. i \in 1 .. Last(j) /\ i \in 0 .. 5
      BY ONLY <2>1, <2>2
    <2> HIDE DEF i
    <2> QED BY ONLY <2>1, <2>2, <2>3
  <1>1. /\ worker'[j] = [worker[j] EXCEPT !.at = i, !.seen = "running"]
        /\ job'[j].progress = p /\ job'[j].result = job[j].result
        /\ job'[j].status = IF worker[j].seen = "running" THEN job[j].status ELSE "running"
        /\ job'[j] \in JobRow
    BY <1>0, Names DEF Rows, Save, JobRow
  <1>2. /\ worker'[j] \in Worker /\ worker'[j].pc = "run" /\ worker'[j].at = i
        /\ worker'[j].seen = "running" /\ worker'[j].errors = worker[j].errors
    <2>1. "running" \in Statuses /\ worker[j] \in Worker
      BY Names
    <2> HIDE DEF i
    <2> QED BY ONLY <1>0, <1>1, <2>1 DEF Worker
  <1>b. run'[j] \in {run[j], "running"}
    BY DEF Rows
  <1>3. Rows(job', worker', run', log')
    BY <1>1, <1>2, <1>b DEF Rows, Save
  <1>4. Elsewhere(j)
    BY DEF Elsewhere, Rows, Save
  <1>a. ~job[j].result /\ job[j].status # "succeeded" /\ job'[j].status # "succeeded"
    <2>1. StoredFor(j) /\ InPlace(j)
      OBVIOUS
    <2>2. ~job[j].result
      BY ONLY <1>0, <2>1 DEF InPlace
    <2>3. job[j].status # "succeeded"
      BY ONLY <2>1, <2>2 DEF StoredFor
    <2> HIDE Known DEF Advance, p, i
    <2> QED BY ONLY <1>1, <2>2, <2>3
  <1>5. StoredFor(j)'
    <2>1. log[j] = {}
      BY <1>0 DEF InPlace
    <2> QED BY <1>1, <1>2, <1>a, <2>1 DEF StoredFor, Untroubled
  <1>6. InPlace(j)'
    <2>1. i > 0 /\ i <= Last(j) /\ i # 0
      <3>1. Last(j) \in 1 .. 5
        BY PointsRise
      <3> HIDE DEF i
      <3> QED BY ONLY <1>0, <3>1
    <2>2. job'[j].progress = Points[Kind[j]][worker'[j].at]
      BY <1>1, <1>2
    <2>3. Untroubled(j)' => job'[j].status \in Unfinished
      BY <1>0, <1>1, <1>2 DEF InPlace, Untroubled, Unfinished
    <2>4. /\ log'[j] = {} /\ ~job'[j].result
          /\ worker'[j].errors \in Nat /\ faults' \in Nat /\ worker'[j].errors <= faults' + 0
      <3>1. worker[j].errors \in Nat /\ worker[j].errors <= faults + 0 /\ log[j] = {}
        <4>1. worker[j] \in Worker /\ MaxFaults \in Nat /\ InPlace(j)
          OBVIOUS
        <4>2. worker[j].pc \in Early
          BY ONLY <1>0 DEF Early
        <4> HIDE Known DEF i, p, Advance
        <4>3. worker[j].errors <= faults + 0 /\ log[j] = {}
          BY ONLY <1>0, <4>1, <4>2 DEF InPlace
        <4> QED BY ONLY <4>1, <4>3 DEF Worker
      <3>2. log' = log /\ faults' = faults /\ faults \in Nat
        OBVIOUS
      <3> HIDE Known DEF i, p, Advance
      <3> QED BY ONLY <1>1, <1>2, <1>a, <3>1, <3>2
    <2> HIDE Known DEF i, p, Advance
    <2> QED BY ONLY <1>2, <2>1, <2>2, <2>3, <2>4 DEF InPlace, Unborn, Early
  <1>7. CleanedFirst(j)'
    BY <1>0, <1>1, <1>2 DEF CleanedFirst, Active, Unfinished
  <1> QED BY <1>3, <1>4, <1>5, <1>6, <1>7, OneJob DEF Sound

LEMMA SucceedKeeps ==
    ASSUME JobIInv, NEW j \in Jobs, Succeed(j)
    PROVE  JobIInv'
  <1> USE Known DEF Succeed, Goto, InRun
  <1>0. worker[j].at \in Nat /\ worker[j].at > 0 /\ worker[j].pc = "run"
    BY PointsRise DEF Worker
  <1>1. /\ job'[j] = [status |-> "succeeded", progress |-> 100, result |-> TRUE]
        /\ job' \in [Jobs -> JobRow] /\ \A k \in Jobs \ {j} : job'[k] = job[k]
    <2>1. "succeeded" \in Terminal /\ 100 \in 0 .. 100 /\ TRUE \in BOOLEAN
      BY DEF Terminal
    <2>2. Save(j, "succeeded", 100, TRUE)
      OBVIOUS
    <2> HIDE Known DEF Succeed, Goto, InRun
    <2> QED BY <1>0, <2>1, <2>2, SavedOutcome
  <1>b. worker'[j] = [worker[j] EXCEPT !.pc = "done"]
    BY DEF Rows
  <1>2. /\ worker'[j] \in Worker /\ worker'[j].pc = "done" /\ worker'[j].errors = worker[j].errors
    <2>1. "done" \in Places
      BY Names DEF Active
    <2> QED BY <1>b, <2>1 DEF Worker
  <1>3. Rows(job', worker', run', log') /\ report' \subseteq Jobs
    BY <1>1, <1>2 DEF Rows
  <1>4. Elsewhere(j)
    BY <1>1 DEF Elsewhere, Rows
  <1>5. StoredFor(j)'
    <2>1. log[j] = {}
      BY <1>0 DEF InPlace
    <2>2. j \in report' <=> Kind[j] = "analyze" \/ j \in report
      OBVIOUS
    <2> QED BY <1>0, <1>1, <1>2, <2>1, <2>2 DEF StoredFor, InPlace, Untroubled
  <1>6. InPlace(j)'
    BY <1>0, <1>1, <1>2 DEF InPlace, Unborn, Early, Untroubled
  <1>7. CleanedFirst(j)'
    BY <1>0, <1>1, <1>2 DEF CleanedFirst, Active
  <1> QED BY <1>3, <1>4, <1>5, <1>6, <1>7, OneJob DEF Sound

LEMMA SucceedAgentKeeps ==
    ASSUME JobIInv, NEW j \in Jobs, SucceedAgent(j)
    PROVE  JobIInv'
  <1> USE Known DEF SucceedAgent, Goto, InRun
  <1>0. worker[j].at \in Nat /\ worker[j].at > 0 /\ worker[j].pc = "run"
    BY PointsRise DEF Worker
  <1>1. /\ job'[j] = [status |-> "succeeded", progress |-> 100, result |-> TRUE]
        /\ job' \in [Jobs -> JobRow] /\ \A k \in Jobs \ {j} : job'[k] = job[k]
    <2>1. "succeeded" \in Terminal /\ 100 \in 0 .. 100 /\ TRUE \in BOOLEAN
      BY DEF Terminal
    <2>2. Save(j, "succeeded", 100, TRUE)
      OBVIOUS
    <2> HIDE Known DEF SucceedAgent, Goto, InRun
    <2> QED BY <1>0, <2>1, <2>2, SavedOutcome
  <1>b. worker'[j] = [worker[j] EXCEPT !.pc = "ended"]
    BY DEF Rows
  <1>2. /\ worker'[j] \in Worker /\ worker'[j].pc = "ended" /\ worker'[j].errors = worker[j].errors
    <2>1. "ended" \in Places
      BY Names
    <2> QED BY <1>b, <2>1 DEF Worker
  <1>a. log'[j] = log[j] \cup {"succeeded"} /\ run'[j] \in Terminal
    BY DEF Rows
  <1>3. Rows(job', worker', run', log')
    BY <1>1, <1>2 DEF Rows, Terminal
  <1>4. Elsewhere(j)
    BY <1>1 DEF Elsewhere, Rows
  <1>5. StoredFor(j)'
    <2>1. log'[j] = {"succeeded"}
      BY <1>0, <1>a DEF InPlace
    <2>2. job'[j].status = "succeeded" /\ job'[j].result /\ Kind[j] = "agent"
      BY <1>1
    <2>3. j \notin report
      BY DEF StoredFor
    <2> QED BY <1>2, <1>a, <2>1, <2>2, <2>3 DEF StoredFor, Untroubled
  <1>6. InPlace(j)'
    BY <1>0, <1>1, <1>2 DEF InPlace, Unborn, Early, Untroubled, Worker
  <1>7. CleanedFirst(j)'
    BY <1>0, <1>1, <1>2 DEF CleanedFirst, Active
  <1> QED BY <1>3, <1>4, <1>5, <1>6, <1>7, OneJob DEF Sound

LEMMA RefuseKeeps ==
    ASSUME JobIInv, NEW j \in Jobs, Refuse(j)
    PROVE  JobIInv'
  <1> USE Known DEF Refuse, Goto, InRun
  <1>0. worker[j].at > 0 /\ worker[j].pc = "run" /\ ~job[j].result /\ log[j] = {}
    BY DEF Worker, InPlace
  <1>1. /\ job'[j] = [status |-> "failed", progress |-> job[j].progress, result |-> job[j].result]
        /\ job' \in [Jobs -> JobRow] /\ \A k \in Jobs \ {j} : job'[k] = job[k]
    <2>1. "failed" \in Terminal /\ job[j].progress \in 0 .. 100 /\ FALSE \in BOOLEAN
      BY DEF Terminal, JobRow
    <2>2. Save(j, "failed", job[j].progress, FALSE)
      OBVIOUS
    <2>3. (job[j].result \/ FALSE) = job[j].result
      BY DEF JobRow
    <2>4. /\ job'[j] = [status |-> "failed", progress |-> job[j].progress,
                         result |-> job[j].result \/ FALSE]
          /\ job' \in [Jobs -> JobRow] /\ \A k \in Jobs \ {j} : job'[k] = job[k]
      BY <1>0, <2>1, <2>2, SavedOutcome
    <2> QED BY <2>3, <2>4
  <1>b. worker'[j] = [worker[j] EXCEPT !.pc = "refused"]
    BY DEF Rows
  <1>2. /\ worker'[j] \in Worker /\ worker'[j].pc = "refused" /\ worker'[j].at = worker[j].at
        /\ worker'[j].errors = worker[j].errors
    <2>1. "refused" \in Places
      BY Names DEF Active
    <2> QED BY <1>b, <2>1 DEF Worker
  <1>3. Rows(job', worker', run', log')
    BY <1>1, <1>2 DEF Rows
  <1>4. Elsewhere(j)
    BY <1>1 DEF Elsewhere, Rows
  <1>5. StoredFor(j)'
    BY <1>0, <1>1, <1>2 DEF StoredFor, Untroubled
  <1>6. InPlace(j)'
    BY <1>0, <1>1, <1>2 DEF InPlace, Unborn, Early, Untroubled
  <1>7. CleanedFirst(j)'
    BY <1>0, <1>1, <1>2 DEF CleanedFirst, Active
  <1> QED BY <1>3, <1>4, <1>5, <1>6, <1>7, OneJob DEF Sound

LEMMA FailAgentKeeps ==
    ASSUME JobIInv, NEW j \in Jobs, FailAgent(j)
    PROVE  JobIInv'
  <1> USE Known DEF FailAgent, Goto, InRun
  <1>0. worker[j].at > 0 /\ worker[j].pc = "run" /\ ~job[j].result /\ log[j] = {}
    BY DEF Worker, InPlace
  <1>1. /\ job'[j] = [status |-> "failed", progress |-> job[j].progress, result |-> job[j].result]
        /\ job' \in [Jobs -> JobRow] /\ \A k \in Jobs \ {j} : job'[k] = job[k]
    <2>1. "failed" \in Terminal /\ job[j].progress \in 0 .. 100 /\ FALSE \in BOOLEAN
      BY DEF Terminal, JobRow
    <2>2. Save(j, "failed", job[j].progress, FALSE)
      OBVIOUS
    <2>3. (job[j].result \/ FALSE) = job[j].result
      BY DEF JobRow
    <2>4. /\ job'[j] = [status |-> "failed", progress |-> job[j].progress,
                         result |-> job[j].result \/ FALSE]
          /\ job' \in [Jobs -> JobRow] /\ \A k \in Jobs \ {j} : job'[k] = job[k]
      BY <1>0, <2>1, <2>2, SavedOutcome
    <2> QED BY <2>3, <2>4
  <1>b. worker'[j] = [worker[j] EXCEPT !.pc = "ended"]
    BY DEF Rows
  <1>2. /\ worker'[j] \in Worker /\ worker'[j].pc = "ended" /\ worker'[j].at = worker[j].at
        /\ worker'[j].errors = worker[j].errors
    <2>1. "ended" \in Places
      BY Names DEF Active
    <2> QED BY <1>b, <2>1 DEF Worker
  <1>a. log'[j] = {"failed"} /\ run'[j] \in {"none", "running"} \cup Terminal
    BY <1>0 DEF Rows, Terminal
  <1>3. Rows(job', worker', run', log')
    BY <1>1, <1>2, <1>a DEF Rows, Terminal
  <1>4. Elsewhere(j)
    BY <1>1 DEF Elsewhere, Rows
  <1>5. StoredFor(j)'
    BY <1>0, <1>1, <1>2, <1>a DEF StoredFor, Untroubled
  <1>6. InPlace(j)'
    BY <1>0, <1>1, <1>2 DEF InPlace, Unborn, Early, Untroubled, Worker
  <1>7. CleanedFirst(j)'
    BY <1>0, <1>1, <1>2 DEF CleanedFirst, Active
  <1> QED BY <1>3, <1>4, <1>5, <1>6, <1>7, OneJob DEF Sound

(* A job whose worker is failing has met an error, so nothing is read off it. *)
LEMMA FinishFailedKeeps ==
    ASSUME JobIInv, NEW j \in Jobs, FinishFailed(j)
    PROVE  JobIInv'
  <1> USE Known DEF FinishFailed, Goto
  <1>0. worker[j].errors # 0 /\ log[j] = {}
    BY DEF Worker, InPlace
  <1>1. /\ job'[j] = [job[j] EXCEPT !.status = "failed"]
        /\ job'[j] \in JobRow /\ job'[j].status = "failed"
        /\ job'[j].result = job[j].result /\ job'[j].progress = job[j].progress
    BY Names DEF Rows, JobRow
  <1>b. worker'[j] = [worker[j] EXCEPT !.pc = "failed"]
    BY DEF Rows
  <1>2. /\ worker'[j] \in Worker /\ worker'[j].pc = "failed" /\ worker'[j].at = worker[j].at
        /\ worker'[j].errors = worker[j].errors
    <2>1. "failed" \in Places
      BY Names DEF Active
    <2> QED BY <1>b, <2>1 DEF Worker
  <1>3. Rows(job', worker', run', log')
    BY <1>1, <1>2 DEF Rows
  <1>4. Elsewhere(j)
    BY DEF Elsewhere, Rows
  <1>5. StoredFor(j)'
    BY <1>0, <1>1, <1>2 DEF StoredFor, Untroubled
  <1>6. InPlace(j)'
    BY <1>0, <1>1, <1>2 DEF InPlace, Unborn, Early, Untroubled, Worker
  <1>7. CleanedFirst(j)'
    BY <1>0, <1>1, <1>2 DEF CleanedFirst, Active
  <1> QED BY <1>3, <1>4, <1>5, <1>6, <1>7, OneJob DEF Sound

LEMMA AuditKeeps ==
    ASSUME JobIInv, NEW j \in Jobs, Audit(j)
    PROVE  JobIInv'
  <1> DEFINE outcome == IF worker[j].pc = "done" THEN "succeeded" ELSE "failed"
  <1> USE Known DEF Audit, Goto
  <1>0. log[j] = {} /\ job'[j] = job[j]
    BY DEF InPlace
  <1>b. worker'[j] = [worker[j] EXCEPT !.pc = "ended"]
    BY DEF Rows
  <1>2. /\ worker'[j] \in Worker /\ worker'[j].pc = "ended" /\ worker'[j].at = worker[j].at
        /\ worker'[j].errors = worker[j].errors
    <2>1. "ended" \in Places
      BY Names DEF Active
    <2> QED BY <1>b, <2>1 DEF Worker
  <1>a. log'[j] = {outcome} /\ outcome \in Terminal
    BY <1>0 DEF Rows, Terminal
  <1>c. Untroubled(j) => job[j].status = outcome
    BY DEF InPlace, StoredFor, Untroubled
  <1>3. Rows(job', worker', run', log')
    BY <1>2, <1>a DEF Rows
  <1>4. Elsewhere(j)
    BY DEF Elsewhere, Rows
  <1> HIDE DEF outcome
  <1>5. StoredFor(j)'
    BY <1>0, <1>2, <1>a, <1>c DEF StoredFor, Untroubled
  <1>6. InPlace(j)'
    BY <1>0, <1>2 DEF InPlace, Unborn, Early, Untroubled, Worker
  <1>7. CleanedFirst(j)'
    BY <1>0, <1>2 DEF CleanedFirst, Active
  <1> QED BY <1>3, <1>4, <1>5, <1>6, <1>7, OneJob DEF Sound

(* An error is counted at most once more than the faults that struck, and  *)
(* leaves the rows alone.                                                  *)
LEMMA TripKeeps ==
    ASSUME JobIInv, NEW j \in Jobs, NEW pc \in {"failing", "ended"}, Trip(j, pc),
           UNCHANGED <<job, report, run, log, serve, doomed, crashes>>,
           \/ faults' = faults /\ worker[j].pc = "run"
           \/ faults' = faults + 1 /\ faults < MaxFaults /\ worker[j].pc \in Active,
           pc = "failing" => worker[j].pc \in {"run", "done", "refused", "queued"}
    PROVE  JobIInv'
  <1> USE Known DEF Trip
  <1>0. /\ worker[j].errors \in Nat /\ worker[j].pc \in Active /\ log[j] = {}
        /\ worker[j].errors + 1 <= faults' + 1 /\ faults' \in 0 .. MaxFaults
    BY DEF Worker, InPlace, Active, Early, Unborn
  <1>b. worker'[j] = [worker[j] EXCEPT !.pc = pc, !.errors = worker[j].errors + 1]
    BY DEF Rows
  <1>2. /\ worker'[j] \in Worker /\ worker'[j].pc = pc /\ worker'[j].at = worker[j].at
        /\ worker'[j].errors = worker[j].errors + 1 /\ worker'[j].errors # 0
    <2>1. pc \in Places /\ worker[j] \in Worker
      BY Names DEF Active
    <2>2. worker[j].errors + 1 \in 0 .. MaxFaults + 1 /\ worker[j].errors + 1 # 0
      BY <1>0
    <2> DEFINE e == worker[j].errors + 1
    <2> HIDE DEF e
    <2>3. worker'[j] = [worker[j] EXCEPT !.pc = pc, !.errors = e] /\ e \in 0 .. MaxFaults + 1
      BY <1>b, <2>2 DEF e
    <2>4. worker'[j] \in Worker /\ worker'[j].pc = pc /\ worker'[j].at = worker[j].at /\ worker'[j].errors = e
      BY ONLY <2>1, <2>3 DEF Worker
    <2> QED BY <2>2, <2>4 DEF e
  <1>3. Rows(job', worker', run', log')
    BY <1>2 DEF Rows
  <1>4. Elsewhere(j)
    BY DEF Elsewhere, Rows
  <1>5. StoredFor(j)'
    BY <1>2 DEF StoredFor, Untroubled
  <1>6. InPlace(j)'
    BY <1>0, <1>2 DEF InPlace, Unborn, Early, Untroubled
  <1>7. CleanedFirst(j)'
    BY <1>0, <1>2 DEF CleanedFirst, Active
  <1>8. faults' \in {faults, faults + 1} /\ faults' <= MaxFaults
    BY <1>0
  <1> QED BY <1>3, <1>4, <1>5, <1>6, <1>7, <1>8, OneJob DEF Sound

LEMMA WorkKeeps ==
    ASSUME JobIInv, NEW j \in Jobs, Submit(j) \/ Work(j) \/ DbError(j) \/ NeverStarts(j)
    PROVE  JobIInv'
  <1> USE Known
  <1>1. ASSUME Raise(j) PROVE JobIInv'
    BY <1>1, TripKeeps DEF Raise, InRun
  <1>2. ASSUME DbError(j) PROVE JobIInv'
    <2> DEFINE pc == IF Kind[j] = "agent" \/ worker[j].pc \in {"failing", "failed"}
                     THEN "ended" ELSE "failing"
    <2>1. pc \in {"failing", "ended"} /\ Trip(j, pc) /\ worker[j].pc \in Active
          /\ faults' = faults + 1 /\ faults < MaxFaults
          /\ UNCHANGED <<job, report, run, log, serve, doomed, crashes>>
      BY <1>2 DEF DbError, Fault
    <2>2. pc = "failing" => worker[j].pc \in {"run", "done", "refused", "queued"}
      BY <2>1 DEF Active
    <2> HIDE DEF pc
    <2> QED BY <2>1, <2>2, TripKeeps
  <1>3. ASSUME NeverStarts(j) PROVE JobIInv'
    BY <1>3, TripKeeps DEF NeverStarts, Fault, Active
  <1> QED BY <1>1, <1>2, <1>3, SubmitKeeps, BeginKeeps, AdvanceKeeps, SucceedKeeps,
            SucceedAgentKeeps, RefuseKeeps, FailAgentKeeps, FinishFailedKeeps, AuditKeeps DEF Work

(* What the end of a serve process and its restart leave, job by job.      *)
LEMMA EveryJob ==
    ASSUME JobIInv, Rows(job', worker', run', log'), \A j \in Jobs : Sound(j)',
           report' = report, doomed' \subseteq Jobs, serve' \in {"down", "resetting", "up"},
           faults' \in 0 .. MaxFaults, crashes' \in 0 .. MaxCrashes
    PROVE  JobIInv'
  <1>1. JobTypeOK'
    BY JobAssumption DEF JobIInv, JobTypeOK, Rows, JobRow, Worker, Statuses, Places, JobAssumption
  <1> QED BY <1>1 DEF JobIInv, OutcomeStored, Sound, StoredFor

LEMMA CrashKeeps ==
    ASSUME JobIInv, Crash
    PROVE  JobIInv'
  <1> USE DEF Crash
  <1>1. crashes' \in 0 .. MaxCrashes /\ faults' \in 0 .. MaxFaults /\ Rows(job, worker, run, log)
    BY JobAssumption, TypeByJob DEF JobIInv, JobAssumption, Rows
  <1>2. ASSUME NEW j \in Jobs PROVE worker'[j] \in Worker /\ Sound(j)'
    <2> DEFINE struck == Origin[j] # "cli" /\ worker[j].pc \in Active
    <2> USE Known
    <2>1. worker'[j] = IF struck THEN [worker[j] EXCEPT !.pc = "lost"] ELSE worker[j]
      OBVIOUS
    <2>2. /\ worker'[j] \in Worker /\ worker'[j].at = worker[j].at
          /\ worker'[j].errors = worker[j].errors /\ worker'[j].seen = worker[j].seen
          /\ worker'[j].pc = IF struck THEN "lost" ELSE worker[j].pc
      <3>1. "lost" \in Places /\ worker[j] \in Worker
        BY Names
      <3> HIDE DEF struck
      <3> QED BY ONLY <2>1, <3>1 DEF Worker
    <2>3. struck => log[j] = {}
      BY DEF InPlace, Active
    <2>4. StoredFor(j)'
      BY <2>2 DEF StoredFor, Untroubled
    <2>5. InPlace(j)'
      BY <2>2, <2>3 DEF InPlace, Unborn, Early, Untroubled, Worker
    <2>6. CleanedFirst(j)'
      BY <2>2 DEF CleanedFirst, Active
    <2> QED BY <2>2, <2>4, <2>5, <2>6 DEF Sound
  <1>3. Rows(job', worker', run', log')
    BY <1>1, <1>2 DEF Rows
  <1> QED BY <1>1, <1>2, <1>3, EveryJob

LEMMA ResetReadKeeps ==
    ASSUME JobIInv, ResetRead
    PROVE  JobIInv'
  <1> USE DEF ResetRead
  <1>1. /\ crashes' \in 0 .. MaxCrashes /\ faults' \in 0 .. MaxFaults
        /\ Rows(job', worker', run', log')
    BY TypeByJob DEF JobIInv, Rows
  <1>2. ASSUME NEW j \in Jobs PROVE Sound(j)'
    <2> USE Known
    <2>1. StoredFor(j)' /\ InPlace(j)'
      BY DEF StoredFor, InPlace, Untroubled
    <2>2. CleanedFirst(j)'
      BY DEF CleanedFirst, Unfinished
    <2> QED BY <2>1, <2>2 DEF Sound
  <1> QED BY <1>1, <1>2, EveryJob

(* Nothing that serve runs is touched in an unexpected state: what was     *)
(* loaded as interrupted still is, and no worker of it is alive.           *)
LEMMA ResetWriteKeeps ==
    ASSUME JobIInv, ResetWrite
    PROVE  JobIInv'
  <1> USE DEF ResetWrite
  <1>1. /\ crashes' \in 0 .. MaxCrashes /\ faults' \in 0 .. MaxFaults
        /\ Rows(job, worker, run, log)
    BY TypeByJob DEF JobIInv, Rows
  <1>2. ASSUME NEW j \in Jobs PROVE job'[j] \in JobRow /\ Sound(j)'
    <2> USE Known
    <2>1. /\ job'[j] \in JobRow
          /\ job'[j].progress = job[j].progress /\ job'[j].result = job[j].result
          /\ job'[j].status = IF j \in doomed THEN "failed" ELSE job[j].status
      BY Names DEF JobRow
    <2>2. StoredFor(j)'
      BY <2>1 DEF StoredFor, CleanedFirst, Untroubled, Unfinished, Terminal
    <2>3. InPlace(j)'
      BY <2>1 DEF InPlace, CleanedFirst, Untroubled, Unborn, Active
    <2>4. CleanedFirst(j)'
      BY DEF CleanedFirst
    <2> QED BY <2>1, <2>2, <2>3, <2>4 DEF Sound
  <1>3. Rows(job', worker', run', log')
    BY <1>1, <1>2 DEF Rows
  <1> QED BY <1>1, <1>2, <1>3, EveryJob

LEMMA ResetFailsKeeps ==
    ASSUME JobIInv, ResetFails
    PROVE  JobIInv'
  <1> USE DEF ResetFails, Fault
  <1>1. /\ crashes' \in 0 .. MaxCrashes /\ faults' \in 0 .. MaxFaults
        /\ Rows(job', worker', run', log')
    BY TypeByJob, JobAssumption DEF JobIInv, Rows, JobAssumption
  <1>2. ASSUME NEW j \in Jobs PROVE Sound(j)'
    <2> USE Known
    <2>1. StoredFor(j)' /\ CleanedFirst(j)'
      BY DEF StoredFor, CleanedFirst, Untroubled
    <2>2. InPlace(j)'
      BY DEF InPlace, Untroubled, Worker
    <2> QED BY <2>1, <2>2 DEF Sound
  <1> QED BY <1>1, <1>2, EveryJob

LEMMA InitJobIInv == Init => JobIInv
  <1> SUFFICES ASSUME Init PROVE JobIInv
    OBVIOUS
  <1> USE DEF Init
  <1>1. JobTypeOK
    <2>1. worker \in [Jobs -> Worker]
      BY JobAssumption DEF Worker, Places, Statuses, JobAssumption
    <2>2. job \in [Jobs -> JobRow]
      BY DEF JobRow, Statuses
    <2> QED BY <2>1, <2>2, TypeByJob, JobAssumption DEF JobAssumption
  <1>2. ASSUME NEW j \in Jobs PROVE Sound(j)
    <2>1. /\ worker[j].pc \in {"none", "unasked"} /\ worker[j].at = 0 /\ worker[j].errors = 0
          /\ job[j] = [status |-> "none", progress |-> 0, result |-> FALSE]
          /\ log[j] = {} /\ run[j] = "none" /\ j \notin report /\ j \notin doomed
      OBVIOUS
    <2>2. StoredFor(j)
      BY <2>1 DEF StoredFor
    <2>3. InPlace(j) /\ CleanedFirst(j)
      BY <2>1 DEF InPlace, CleanedFirst, Unborn, Early, Active
    <2> QED BY <2>2, <2>3 DEF Sound
  <1> QED BY <1>1, <1>2, InvariantByJob

LEMMA NextJobIInv == JobIInv /\ [Next]_vars => JobIInv'
  <1> SUFFICES ASSUME JobIInv, [Next]_vars PROVE JobIInv'
    OBVIOUS
  <1>1. CASE UNCHANGED vars
    BY <1>1 DEF vars, JobIInv, JobTypeOK, OutcomeStored, InPlace, CleanedFirst, Untroubled
  <1>2. CASE Next
    BY <1>2, WorkKeeps, CrashKeeps, ResetReadKeeps, ResetWriteKeeps, ResetFailsKeeps DEF Next
  <1> QED BY <1>1, <1>2

(* The invariant that carries the other three.                             *)
THEOREM JobInvariant == Spec => []JobIInv
  BY InitJobIInv, NextJobIInv, PTL DEF Spec

(* Every variable keeps its type, and a progress is a percentage, for any  *)
(* jobs and any number of failures and restarts.                           *)
THEOREM JobTypes == Spec => []JobTypeOK
  <1>1. JobIInv => JobTypeOK
    BY DEF JobIInv
  <1> QED BY <1>1, JobInvariant, PTL

(* A job serve runs shows as succeeded exactly when its outcome is stored, *)
(* and the audit log tells the outcome the jobs table shows.               *)
THEOREM OutcomesAreStored == Spec => []OutcomeStored
  <1>1. JobIInv => OutcomeStored
    BY DEF JobIInv
  <1> QED BY <1>1, JobInvariant, PTL

(* What one step does to the row of one job.                               *)
Forward(j) ==
    /\ Untroubled(j) /\ Finished(j) => job'[j].status = job[j].status
    /\ job[j].progress <= job'[j].progress /\ (job[j].result => job'[j].result)

LEMMA RowForward ==
    ASSUME JobIInv, NEW j \in Jobs, Submit(j) \/ Work(j)
    PROVE  Forward(j)
  <1> USE Known DEF Forward, Finished, Terminal
  <1>0. job[j].progress \in 0 .. 100 /\ worker[j].at \in Nat
    BY DEF JobRow, Worker
  <1>1. CASE job' = job
    BY <1>0, <1>1
  <1>2. CASE Submit(j)
    BY <1>0, <1>2 DEF Submit, Rows, JobRow, InPlace
  <1>3. CASE FinishFailed(j)
    BY <1>0, <1>3 DEF FinishFailed, Rows, JobRow, InPlace, Untroubled, Worker
  <1>4. CASE Advance(j)
    <2>1. /\ job'[j].progress = Points[Kind[j]][worker[j].at + 1] /\ job'[j].result = job[j].result
          /\ worker[j].pc = "run" /\ worker[j].at + 1 \in 1 .. Last(j)
      <3>1. /\ job'[j].progress = Points[Kind[j]][worker[j].at + 1] /\ job'[j].result = job[j].result
            /\ worker[j].pc = "run" /\ worker[j].at < Last(j)
        <4>1. /\ worker[j].pc = "run" /\ worker[j].at < Last(j)
              /\ Save(j, "running", Points[Kind[j]][worker[j].at + 1], FALSE)
          BY <1>4 DEF Advance
        <4>2. job \in [Jobs -> JobRow] /\ job[j].result \in BOOLEAN
          BY DEF Rows, JobRow
        <4>3. job'[j] = [status |-> IF "running" = worker[j].seen THEN job[j].status ELSE "running",
                         progress |-> Points[Kind[j]][worker[j].at + 1], result |-> job[j].result \/ FALSE]
          BY ONLY <4>1, <4>2, j \in Jobs DEF Save
        <4> QED BY ONLY <4>1, <4>2, <4>3
      <3>2. Last(j) \in 1 .. 5
        BY PointsRise
      <3>3. worker[j].at + 1 \in 1 .. Last(j)
        BY ONLY <1>0, <3>1, <3>2
      <3> QED BY ONLY <3>1, <3>3
    <2>2. CASE worker[j].at = 0
      <3>1. 1 \in 1 .. Last(j) /\ job[j].progress = 0 /\ job'[j].progress = Points[Kind[j]][1]
        BY <1>0, <2>1, <2>2 DEF InPlace
      <3>2. Points[Kind[j]][1] \in 0 .. 100
        BY <3>1, PointsRise
      <3>3. job[j].progress <= job'[j].progress
        BY ONLY <3>1, <3>2
      <3> QED BY <2>1, <3>3 DEF InPlace, Untroubled, Unfinished
    <2>3. CASE worker[j].at > 0
      <3>1. worker[j].at \in 1 .. Last(j) /\ job[j].progress = Points[Kind[j]][worker[j].at]
        BY <1>0, <2>1, <2>3, PointsRise DEF InPlace
      <3>2. job[j].progress <= job'[j].progress
        <4>1. PICK n \in 1 .. Last(j), m \in 1 .. Last(j) : n = worker[j].at /\ m = n + 1
          BY ONLY <2>1, <3>1
        <4>2. Points[Kind[j]][n] <= Points[Kind[j]][m]
          BY ONLY <4>1, PointsRise, j \in Jobs
        <4> QED BY ONLY <2>1, <3>1, <4>1, <4>2
      <3> QED BY <2>1, <3>2 DEF InPlace, Untroubled, Unfinished
    <2>4. worker[j].at = 0 \/ worker[j].at > 0
      BY ONLY <1>0
    <2> HIDE Known DEF Forward
    <2> QED BY <2>2, <2>3, <2>4
  <1>5. CASE Succeed(j) \/ SucceedAgent(j) \/ Refuse(j) \/ FailAgent(j)
    <2>1. worker[j].pc = "run" /\ (job[j].result => job'[j].result) /\ job[j].progress <= job'[j].progress
      BY <1>0, <1>5 DEF Succeed, SucceedAgent, Refuse, FailAgent, InRun, Save, Rows, JobRow
    <2> QED BY <2>1 DEF InPlace, Untroubled, Unfinished
  <1> QED BY <1>1, <1>2, <1>3, <1>4, <1>5 DEF Work, Begin, Raise, Audit

LEMMA StepForward ==
    ASSUME JobIInv, [Next]_vars, NEW j \in Jobs
    PROVE  Forward(j)
  <1> USE Known
  <1>0. job[j].progress \in 0 .. 100
    BY DEF JobRow
  <1>1. CASE job'[j] = job[j]
    BY <1>0, <1>1 DEF Forward
  <1>2. ASSUME NEW k \in Jobs, Submit(k) \/ Work(k) PROVE Forward(j)
    <2>1. CASE k = j
      BY <1>2, <2>1, RowForward
    <2>2. CASE k # j
      <3>1. job'[j] = job[j]
        BY <1>2, <2>2 DEF Submit, Work, Begin, Advance, Succeed, SucceedAgent, Raise, Refuse,
             FailAgent, FinishFailed, Audit, Save, Rows
      <3> QED BY <3>1, <1>1
    <2> QED BY <2>1, <2>2
  <1>3. CASE ResetWrite
    <2>1. /\ job'[j].progress = job[j].progress /\ job'[j].result = job[j].result
          /\ j \in doomed \/ job'[j] = job[j]
      BY <1>3 DEF ResetWrite, JobRow
    <2>2. j \in doomed /\ Untroubled(j) => ~Finished(j)
      BY DEF CleanedFirst, Untroubled, Finished, Unfinished, Terminal
    <2> QED BY <1>0, <2>1, <2>2 DEF Forward
  <1>4. (\E k \in Jobs : Submit(k) \/ Work(k)) \/ ResetWrite \/ job' = job
    BY DEF Next, vars, DbError, NeverStarts, Crash, ResetRead, ResetFails
  <1> QED BY <1>1, <1>2, <1>3, <1>4

(* A job serve runs stays as it ended until a database error strikes after *)
(* the commit of its outcome, and no progress or result is ever taken back.*)
THEOREM OutcomesStand == Spec => JobsGoForward
  <1>1. JobIInv /\ [Next]_vars =>
          [\A j \in Jobs :
             /\ Untroubled(j) /\ Finished(j) => job'[j].status = job[j].status
             /\ job[j].progress <= job'[j].progress /\ (job[j].result => job'[j].result)]_vars
    BY StepForward DEF Forward
  <1> QED BY <1>1, JobInvariant, PTL DEF Spec, JobsGoForward
=============================================================================
