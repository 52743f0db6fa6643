------------------------------ MODULE AgentSession ------------------------------
(***************************************************************************)
(* Conversations with the agent: the /agent endpoints, the worker that     *)
(* runs one turn (agent/job_worker.py), the ReAct graph of a turn          *)
(* (agent/graph.py) with its budget and history window, and LangGraph's    *)
(* checkpointer, which keeps the messages of a session between turns.      *)
(* Administrators change the accounts meanwhile.                           *)
(*                                                                         *)
(* A turn loads the last checkpoint of its session once, works on its own  *)
(* copy, and writes the whole of it as the last checkpoint after each      *)
(* step of the graph.  "level" is the highest clearance that what a        *)
(* message says was taken from.                                            *)
(***************************************************************************)
EXTENDS AccessAdministration, SequencesExt

CONSTANTS
    Sessions, Runs,
    Settings    \* what a behaviour has: requests, entries and seeds (what administrators
                \* do, and how often), owners and questions (who may converse, and in
                \* how many runs), saver (the checkpointer: "memory", "postgres" or
                \* "none"), faults (restarts of serve and lost workers, at most),
                \* window and steps (the history window and the budget), calls (an answer asks for at most so many tools)

(* The window keeps at least one turn. *)
ASSUME AgentAssumption ==
    Settings \subseteq [requests: SUBSET Requests, entries: Nat, seeds: BOOLEAN, owners: SUBSET Users,
                        questions: SUBSET Runs, saver: {"memory", "postgres", "none"}, faults: Nat,
                        window: Nat \ {0}, steps: Nat, calls: Nat]

VARIABLES
    setting,
    sess,       \* agent_sessions
    rows,       \* agent_messages, in the order of their creation
    run,        \* the status of each agent_runs row
    job,        \* the status of each job of type "agent"
    turn,       \* the worker of each job and its graph
    thread,     \* the last checkpoint of each session
    faults,
    raised,     \* the sessions whose owner has had a higher clearance since
    disturbed   \* the sessions where turns overlapped or memory was lost

agent == <<setting, sess, rows, run, job, turn, thread, faults, raised, disturbed>>
vars == <<admin, agent>>

NoSession == [owner |-> None, clearance |-> 0]
NoTurn == [pc |-> "none", session |-> None, ctx |-> None, local |-> << >>, steps |-> 0,
           exceeded |-> FALSE]
Working == {"start", "model", "tools", "converge", "finish"}

Init ==
    /\ AdminInit
    /\ setting \in Settings
    /\ sess = [s \in Sessions |-> NoSession]
    /\ rows = << >>
    /\ run = [r \in Runs |-> "none"] /\ job = [r \in Runs |-> "none"]
    /\ turn = [r \in Runs |-> NoTurn]
    /\ thread = [s \in Sessions |-> << >>]
    /\ faults = 0 /\ raised = {} /\ disturbed = {}

(* Mutant: visible_to alone, without the clearance the session was created with. *)
OpensVisible(s, ctx) ==
    sess[s].owner # None /\ VisibleTo([level |-> 1, scope |-> "personal", owner |-> sess[s].owner], ctx)

(* verify_session_access: a session is a personal record of level INTERNAL, and *)
(* its reader must still have the clearance of the user who created it.         *)
Opens(s, ctx) ==
    /\ sess[s].owner # None /\ ctx.clearance >= sess[s].clearance
    /\ VisibleTo([level |-> 1, scope |-> "personal", owner |-> sess[s].owner], ctx)

MayQuery(u) == HasContext(u) /\ "query" \in Context(u).permissions

CreateSession(s, u) ==
    /\ u \in setting.owners /\ sess[s].owner = None /\ MayQuery(u)
    /\ sess' = [sess EXCEPT ![s] = [owner |-> u, clearance |-> account[u].clearance]]
    /\ UNCHANGED <<admin, setting, rows, run, job, turn, thread, faults, raised, disturbed>>

(* submit_run; every engine gets the application's checkpointer. *)
Ask(r, s, u) ==
    /\ r \in setting.questions /\ job[r] = "none"
    /\ MayQuery(u) /\ Opens(s, Context(u))
    /\ job' = [job EXCEPT ![r] = "pending"]
    /\ turn' = [turn EXCEPT ![r].pc = "queued", ![r].session = s]
    /\ UNCHANGED <<admin, setting, sess, rows, run, thread, faults, raised, disturbed>>

Rebuild(r) ==
    /\ turn[r].pc = "queued"
    /\ job' = [job EXCEPT ![r] = "running"]
    /\ turn' = [turn EXCEPT ![r].pc = "rebuild"]
    /\ UNCHANGED <<admin, setting, sess, rows, run, thread, faults, raised, disturbed>>

(* The job's user is the session's owner: no one else passed Opens. *)
Admitted(s) == HasContext(sess[s].owner) /\ Opens(s, Context(sess[s].owner))

Check(r) ==
    /\ turn[r].pc = "rebuild"
    /\ LET s == turn[r].session IN
         IF Admitted(s)
         THEN /\ run' = [run EXCEPT ![r] = "running"]
              /\ rows' = Append(rows, [session |-> s, role |-> "user", run |-> r, level |-> 0])
              /\ turn' = [turn EXCEPT ![r].pc = "start", ![r].ctx = Context(sess[s].owner)]
              /\ disturbed' = IF \E q \in Runs : turn[q].pc \in Working /\ turn[q].session = s
                              THEN disturbed \cup {s} ELSE disturbed
              /\ UNCHANGED job
         ELSE /\ job' = [job EXCEPT ![r] = "failed"]
              /\ turn' = [turn EXCEPT ![r].pc = "done"]
              /\ UNCHANGED <<rows, run, disturbed>>
    /\ UNCHANGED <<admin, setting, sess, thread, faults, raised>>

Says(type, r, calls, level) == [type |-> type, run |-> r, calls |-> calls, level |-> level]
LevelOf(ms) == LET levels == {ms[i].level : i \in DOMAIN ms} \cup {0}
               IN CHOOSE l \in levels : \A m \in levels : m <= l

(* A step of the graph: the turn's messages, and the checkpoint it leaves. *)
Step(r, pc, messages, steps, exceeded) ==
    /\ turn' = [turn EXCEPT ![r].pc = pc, ![r].local = messages, ![r].steps = steps,
                            ![r].exceeded = exceeded]
    /\ thread' = IF setting.saver = "none" THEN thread
                 ELSE [thread EXCEPT ![turn[r].session] = messages]
    /\ UNCHANGED <<admin, setting, sess, rows, run, job, faults, raised, disturbed>>

(* Mutant: the engine does not get the application's checkpointer. *)
RememberedNothing(s) == << >>

(* Without a checkpointer every engine has an InMemorySaver of its own, and *)
(* thread stays empty.                                                      *)
Remembered(s) == thread[s]

(* run_turn: the checkpoint is loaded and the question added; counters start again. *)
Start(r) ==
    /\ turn[r].pc = "start"
    /\ Step(r, "model", Append(Remembered(turn[r].session), Says("human", r, {}, 0)), 0, FALSE)

(* Mutant: the last messages, twice the window of them, wherever a turn begins. *)
TruncatedAnywhere(ms, window) ==
    IF Len(ms) <= 2 * window THEN ms ELSE SubSeq(ms, Len(ms) - 2 * window + 1, Len(ms))

(* truncate_history: the last turns, each beginning with a human message. *)
TurnStarts(ms) == {i \in DOMAIN ms : i = 1 \/ ms[i].type = "human"}
Truncated(ms, window) ==
    IF Cardinality(TurnStarts(ms)) <= window THEN ms
    ELSE LET first == CHOOSE i \in TurnStarts(ms) :
                          Cardinality({j \in TurnStarts(ms) : j >= i}) = window
         IN SubSeq(ms, first, Len(ms))
Window(r) == Truncated(turn[r].local, setting.window)

(* The model answers, or asks for tools; what it says may come from all it is shown. *)
(* The budget is looked at when it asks for tools: its steps, or tokens and time.    *)
Model(r) ==
    /\ turn[r].pc = "model"
    /\ \E n \in 0 .. setting.calls, dear \in BOOLEAN :
         LET steps == turn[r].steps + 1
             exceeded == n > 0 /\ (steps >= setting.steps \/ dear)
             calls == {<<r, steps, k>> : k \in 1 .. n}
         IN /\ dear => n > 0 /\ steps < setting.steps
            /\ Step(r, IF n = 0 THEN "finish" ELSE IF exceeded THEN "converge" ELSE "tools",
                    Append(turn[r].local, Says("ai", r, calls, LevelOf(Window(r)))),
                    steps, exceeded)

(* Every call of the message, in its order. *)
Dispatched(asked) == Cardinality(asked)

(* dispatch: whatever becomes of a call, one tool message answers it; what a tool *)
(* reads is visible to the context of the turn.  An error says nothing of it.     *)
Evidence(r) == {0} \cup {l \in Clearances : l = turn[r].ctx.clearance}
Tools(r) ==
    /\ turn[r].pc = "tools"
    /\ LET asked == turn[r].local[Len(turn[r].local)].calls IN
       \E level \in [asked -> Evidence(r)] :
         Step(r, "model",
              turn[r].local \o [k \in 1 .. Dispatched(asked) |->
                 LET id == <<r, turn[r].steps, k>> IN Says("tool", r, {id}, level[id])],
              turn[r].steps, FALSE)

(* converge_node: a fixed text for an answer; the calls stay unanswered. *)
Converge(r) ==
    /\ turn[r].pc = "converge"
    /\ Step(r, "finish", Append(turn[r].local, Says("ai", r, {}, 0)), turn[r].steps, TRUE)

(* Mutant: the answer has LangChain's role. *)
AnswerOfAi(r) ==
    Append(rows, [session |-> turn[r].session, role |-> "ai", run |-> r, level |-> 0])

(* The answer is the content of the last ai message. *)
Answer(r) ==
    Append(rows, [session |-> turn[r].session, role |-> "assistant", run |-> r,
                  level |-> turn[r].local[Len(turn[r].local)].level])

(* Run, answer, job and audit entry in one commit. *)
Finish(r) ==
    /\ turn[r].pc = "finish"
    /\ run' = [run EXCEPT ![r] = IF turn[r].exceeded THEN "failed" ELSE "succeeded"]
    /\ rows' = Answer(r)
    /\ job' = [job EXCEPT ![r] = "succeeded"]
    /\ turn' = [turn EXCEPT ![r].pc = "done"]
    /\ UNCHANGED <<admin, setting, sess, thread, faults, raised, disturbed>>

(* Mutant: the job fails, its run is forgotten. *)
RaiseForgetsRun(r) ==
    /\ turn[r].pc = "model"
    /\ job' = [job EXCEPT ![r] = "failed"]
    /\ turn' = [turn EXCEPT ![r].pc = "done"]
    /\ UNCHANGED <<admin, setting, sess, rows, run, thread, faults, raised, disturbed>>

(* The model call raises, the only error the tools do not turn into a message. *)
Raise(r) ==
    /\ turn[r].pc = "model"
    /\ run' = [run EXCEPT ![r] = "failed"]
    /\ job' = [job EXCEPT ![r] = "failed"]
    /\ turn' = [turn EXCEPT ![r].pc = "done"]
    /\ UNCHANGED <<admin, setting, sess, rows, thread, faults, raised, disturbed>>

Fault == faults < setting.faults /\ faults' = faults + 1

(* A commit fails, or something raises outside run_turn: no one catches it. *)
Lose(r) ==
    /\ Fault
    /\ turn[r].pc \in {"queued", "rebuild", "start", "model", "finish"}
    /\ turn' = [turn EXCEPT ![r].pc = "cut"]
    /\ disturbed' = IF turn[r].pc \in Working THEN disturbed \cup {turn[r].session} ELSE disturbed
    /\ UNCHANGED <<admin, setting, sess, rows, run, job, thread, raised>>

(* serve ends and starts: its tasks are gone, its unfinished jobs are failed, and *)
(* only a checkpointer in the database remembers.                                 *)
InFlight(r) == turn[r].pc \notin {"none", "done", "cut"}
Restart ==
    /\ Fault
    /\ job' = [r \in Runs |-> IF job[r] \in {"pending", "running"} THEN "failed" ELSE job[r]]
    /\ turn' = [r \in Runs |-> IF InFlight(r) THEN [turn[r] EXCEPT !.pc = "cut"] ELSE turn[r]]
    /\ thread' = IF setting.saver = "memory" THEN [s \in Sessions |-> << >>] ELSE thread
    /\ disturbed' = disturbed \cup {s \in Sessions :
         \/ setting.saver = "memory"
         \/ \E r \in Runs : turn[r].session = s /\ turn[r].pc \in Working}
    /\ UNCHANGED <<admin, setting, sess, rows, run, raised>>

(* The administrators' calls and `db seed`. *)
Administer ==
    /\ \/ \E c \in Calls, by \in Users : \E req \in setting.requests : Arrive(c, by, req)
       \/ \E c \in Calls : Write(c)
       \/ \E by \in Users, g \in Teams \cup Projects : setting.seeds /\ CreateGroup(by, g)
       \/ setting.seeds /\ ~seeded /\ Seed
    /\ Len(trail') <= setting.entries
    /\ raised' = raised \cup {s \in Sessions :
         sess[s].owner # None /\ account'[sess[s].owner].clearance > sess[s].clearance}
    /\ UNCHANGED <<setting, sess, rows, run, job, turn, thread, faults, disturbed>>

Proceed(r) == Rebuild(r) \/ Check(r) \/ Start(r) \/ Model(r) \/ Tools(r) \/ Converge(r)
              \/ Finish(r) \/ Raise(r)

Next ==
    \/ Administer
    \/ Restart
    \/ \E s \in Sessions, u \in Users :
         CreateSession(s, u) \/ \E r \in Runs : Ask(r, s, u)
    \/ \E r \in Runs : Proceed(r) \/ Lose(r)

(* A task that can run is run by the event loop; the model answers or times out. *)
FairSpec == Init /\ [][Next]_vars /\ \A r \in Runs : WF_vars(Proceed(r))
-----------------------------------------------------------------------------
Levels == 0 .. 3
AgentTypeOK ==
    /\ AdminTypeOK
    /\ sess \in [Sessions -> [owner: Users \cup {None}, clearance: Levels]]
    /\ rows \in Seq([session: Sessions, role: {"user", "assistant"}, run: Runs, level: Levels])
    /\ run \in [Runs -> {"none", "running", "succeeded", "failed"}]
    /\ job \in [Runs -> {"none", "pending", "running", "succeeded", "failed"}]
    /\ \A r \in Runs : turn[r].pc \in Working \cup {"none", "queued", "rebuild", "done", "cut"}

(* The window cuts a conversation between turns only: whatever a model is shown *)
(* has its own turn whole, and no tool's result without the message that asked  *)
(* for it, with turns of one session under way at once and after restarts too.  *)
CutBetweenTurns == \A r \in Runs : turn[r].pc = "model" =>
    LET W == Window(r) IN
    /\ \A i \in DOMAIN W : W[i].type = "tool" =>
          \E j \in 1 .. i - 1 : W[j].type = "ai" /\ W[i].calls \subseteq W[j].calls
    /\ \A m \in Range(turn[r].local) : m.run = r => m \in Range(W)

(* A tool call a model is shown has been answered, unless its turn ran out of   *)
(* budget or turns overlapped or were cut off.                                  *)
CallsAnswered == \A r \in Runs : turn[r].pc = "model" /\ turn[r].session \notin disturbed =>
    LET W == Window(r) IN
    \A i \in DOMAIN W : W[i].type = "ai" =>
       \/ turn[W[i].run].exceeded
       \/ \A id \in W[i].calls : \E j \in i + 1 .. Len(W) : W[j].calls = {id}

(* What a model is shown is a conversation it can go on with: whole turns, each *)
(* result after its call and each call with its result.                         *)
WindowSound == CutBetweenTurns /\ CallsAnswered

(* The messages of a session in the database: each question that was admitted   *)
(* once, and after it one answer if and only if its job succeeded.              *)
QuestionAnswered == \A r \in Runs :
    LET at(role) == {i \in DOMAIN rows : rows[i].run = r /\ rows[i].role = role} IN
    /\ Cardinality(at("user")) = IF run[r] = "none" THEN 0 ELSE 1
    /\ Cardinality(at("assistant")) = IF job[r] = "succeeded" THEN 1 ELSE 0
    /\ \A i \in at("user"), j \in at("assistant") : i < j

(* What the model remembers of a session is what the database says was said in  *)
(* it, as long as its turns follow each other and none is cut off or forgotten: *)
(* message by message, in the order of the rows.                                *)
SpokenAt(ms) == {i \in DOMAIN ms : ms[i].type # "tool" /\ ms[i].calls = {}}
RecordedAt(rs, s) == {j \in DOMAIN rs : rs[j].session = s}
Corresponds(ms, spoken, rs, recorded) == \E at \in [spoken -> recorded] :
    /\ \A j \in recorded : \E i \in spoken : at[i] = j
    /\ \A i, k \in spoken : i < k => at[i] < at[k]
    /\ \A i \in spoken : /\ ms[i].run = rs[at[i]].run
                         /\ ms[i].type = "ai" <=> rs[at[i]].role = "assistant"
ThreadFollowsRows == \A s \in Sessions \ disturbed :
    setting.saver # "none" /\ (\A r \in Runs : turn[r].session = s => ~(turn[r].pc \in Working))
        => Corresponds(thread[s], SpokenAt(thread[s]), rows, RecordedAt(rows, s))

(* A conversation is kept: in the database by questions and their answers, and  *)
(* for the model as in the database.                                            *)
ConversationKept == QuestionAnswered /\ ThreadFollowsRows

(* Clearance is not laundered: a user whose clearance was lowered and never     *)
(* raised above what it was when the session was created cannot open it if      *)
(* something in it is above the user now, turns still under way included.       *)
NotLaundered == \A s \in Sessions \ raised, u \in Users :
    MayQuery(u) /\ Opens(s, Context(u)) =>
        \A i \in DOMAIN rows : rows[i].session = s => rows[i].level <= account[u].clearance

(* A run that began ends: the budget stops the turn, and an error of the turn   *)
(* is recorded. Only the end of serve, or an error outside the turn, leaves a   *)
(* run that is running for ever.                                                *)
RunsSettle == \A r \in Runs :
    run[r] = "running" ~> run[r] \in {"succeeded", "failed"} \/ turn[r].pc = "cut"

(* What db/models_agent.py says of a message: nothing above the session's level *)
(* (INTERNAL; no endpoint sets another).                                        *)
EvidenceWithinSession == \A i \in DOMAIN rows : rows[i].level <= 1
=============================================================================
