# TLA+ models of Calliodesmo

Calliodesmo is a library of documents for teams: it ingests files into text
chunks, a graph of entities and communities of them, answers questions over
what a user may see, runs longer analyses and agent conversations as background
jobs, and lets users offer documents of their personal library to a project or
team library through a reviewed *contribution*, in the manner of a pull request.

This directory holds TLA+ modules translated from the Python code, TLC
configurations that check them on small instances, and TLAPS proofs about the
contribution workflow and its merges, the background jobs, the library, the
curation of communities, the agent's conversations and the analyses. Paths below are relative to the Python package
(`src/calliodesmo/` of the repository) unless they start with `docs/`.
`PROJECT.json` maps every definition to the lines it stands for, and lists the
hazards, runs, mutants, findings and theorems.

- [1. The system](#1-the-system)
- [2. Modules, and how they correspond to the code](#2-modules-and-how-they-correspond-to-the-code)
- [3. Runs](#3-runs)
- [4. Bounds, symmetry, fairness](#4-bounds-symmetry-fairness)
- [5. Proofs](#5-proofs)
- [6. Where code and documents disagree](#6-where-code-and-documents-disagree)
- [7. What is left out](#7-what-is-left-out)
- [8. Plan](#8-plan)

## 1. The system

One `serve` process (FastAPI on one event loop) handles requests and, in the
same process, runs background tasks. Relational data (users, contributions,
jobs, reports, agent sessions, audit log, community versions) is in SQLite or
PostgreSQL through SQLAlchemy sessions, one per request. The content stores
(vector, graph, community) are either in memory, in the serve process, or
PostgreSQL and Neo4j. The command line opens the same database in a process of
its own, beside a running serve.

That gives four sources of difficulty:

1. *Interleaving.* Requests and tasks switch at every `await`. The in-memory
   stores are `async` but never suspend, so a sequence of calls on them is
   atomic; on PostgreSQL and Neo4j each call is a point where others run.
2. *Stale objects.* `expire_on_commit=False`, and a `SELECT ... FOR UPDATE`
   that does not refresh an object its session already holds. What a handler
   decides on may be older than the row it writes.
3. *Several stores, several commits.* A merge, an ingest, a deletion, a PATCH
   of a community and the end of a job each consist of several commits. Any of
   them may be the last one.
4. *Restarts.* In-memory stores, BM25 index, profile cards and background tasks
   are lost; rows, caches and fingerprints stay.

### Components

| Component | State | Operations | Interacts with | What makes it correct |
|---|---|---|---|---|
| Contribution workflow (`collab/service.py`, `api/collab.py`) | `contributions` rows with `version_id_col`, audit entries | create, submit, approve, reject, reopen, merge, close; diff view (writes the manifest once) | called by API and CLI; merge drives the content stores | one status graph; no review of one's own work; a merge rests on a standing approval and commits once; every write is audited |
| Merge and alignment review (`collab/merge.py`, `push.py`, `graph_merge.py`, `alignment_review.py`) | the three content stores, the manifest's review queue | collect, merge, approve or reject an entity pair | workflow above; ingestion overwrites the same records | text enters a library by approval only, other evidence by approval or by the verdict on a pair; what is shown as merged has arrived; joins lose no evidence and lower no access level |
| Background jobs (`ecl/`, `analysis/`, `agent/job_worker.py`, `api/jobs.py`) | `jobs`, `analysis_reports`, `agent_runs`, audit entries; in-process tasks | submit, progress points, finish, fail, clean at start | uploads, analyses, agent turns; the CLI runs analyses in its own process | every submitted job ends; a final status is final; outcome, report, run and audit entry agree |
| Ingestion (`ecl/engine.py`, `load.py`, `extractor.py`, `cognify.py`, `community_deriver.py`, `api/ingest.py`) | content stores, content hashes | ingest, upload, delete | models; content stores; demo seeding | a recorded hash means the text is stored; the graph cites stored text |
| Demo seeding (`ecl/demo_seed.py`, `cli.py`) | `seed-cache.json` | load from cache or ingest before serve listens | ingestion; stores | what serve starts with is what the files say now |
| Content stores (`providers/*_store.py`, `stores/`) | chunks, entities, relations, communities, profile cards | upsert, delete, list, search | everything | one record per key; a record is listed only to whom its library admits, and cites no text of another library unless a verdict had it do so |
| Retrieval (`retrieval/`) | BM25 index | vector, keyword, graph and community search; fusion, rewriting, reranking, the answer and its sources, a corrective second query, self-check | content stores, models | nothing is returned that the user may not see, unless an approved pair has had a record they see cite it; fusion keeps what all indexes agree on; the sources of an answer are what it cites of what the model was shown; every query ends |
| Community editing (`api/admin.py`, `collab/community_version.py`) | community store, `community_versions` | PATCH, merge, split, rollback | ingestion derives the same communities | hand edits survive derivation; history is gapless; any version can be restored |
| Agent (`agent/`, `api/agent.py`) | `agent_sessions`, `agent_runs`, `agent_messages`; the checkpoint of each session's thread | create a session, ask; a turn: model, tools, convergence; history window | jobs, retrieval, analysis, access | a turn ends within its budget; tool calls are answered; what is recorded is what was said; a lowered clearance closes a session that says more |
| Analysis engine (`analysis/`, `api/analysis.py`) | `analysis_reports` | submission, materials, graph block, prompt, replies with retries and repair, evidence, level, status | stores, search, models, jobs | a report says what the model said of what the user may read, graded as it deserves, for nobody else |
| Access and administration (`auth/`, `stores/visibility.py`, `api/admin.py`) | users, roles, teams, projects, memberships | context of a request; create, update, deactivate, assign, add and remove; seeding of roles | everything | visibility by library and clearance; the audit log tells the accounts |
| Audit log (`audit/`) | `audit_logs` | append | workflow, jobs, API | an entry commits with what it describes |
| Entity alignment and templates (`collab/entity_alignment.py`, `template_review.py`) | none; template files | pair entities by type and likeness; review templates | the first view of a diff | only pairs of one type enter a review queue |
| Command line, configuration and schema, providers of models and file formats, evaluation, frontend and deployment | rows and files | | | |

`PROJECT.json` says for each of them whether it is modelled.

## 2. Modules, and how they correspond to the code

| Module | Extends | Holds |
|---|---|---|
| `ContributionLifecycle` | | the promised workflow, abstract |
| `ContributionService` | | the workflow as concurrent calls with sessions, versions, locks |
| `ContributionService_proofs` | `ContributionService`, `TLAPS` | theorems about the workflow |
| `ContributionMerge` | `ContributionService` | the store work of merges and alignment pairs, composed with the workflow |
| `ContributionMerge_proofs` | `ContributionMerge`, `ContributionService_proofs` | theorems about merges |
| `JobLifecycle` | | jobs, workers, cleaning at start |
| `JobLifecycle_proofs` | `JobLifecycle`, `TLAPS` | theorems about jobs |
| `DocumentLibrary` | | ingestion, seeding, deletion and retrieval |
| `DocumentLibrary_proofs` | `DocumentLibrary`, `NumberLemmas` | theorems about the library |
| `CommunityCuration` | | manual editing and versions of communities |
| `CommunityCuration_proofs` | `CommunityCuration`, `TLAPS` | theorems about the curation |
| `AccessAdministration` | | accounts, groups, roles, the endpoints that change them, and the context computed from them |
| `AgentSession` | `AccessAdministration` | conversations, turns and checkpoints, while accounts change |
| `AgentSession_proofs` | `AgentSession`, `NumberLemmas`, `SequenceTheorems` | theorems about conversations and accounts |
| `NumberLemmas` | `TLAPS` | facts about numbers that stand in for induction |
| `AnswerPipeline` | | one question put to a search engine |
| `AnalysisPipeline` | `AnswerPipeline` | an analysis from its submission to its report, while the submitter's context changes |
| `AnalysisPipeline_proofs` | `AnalysisPipeline`, `NumberLemmas`, `SequenceTheorems` | theorems about materials and reports |
| `MC<Module>` | the module | the values of its constants for TLC, and symmetry |

Definitions named as the mutant of another one, each beside the definition it
replaces and introduced by a comment that starts with "Mutant", are slips that
code of this kind is prone to; with one of them in place the property listed
for it in `PROJECT.json` fails. Nothing else refers to them.

*Settings.* Where a component has many configurations (which checkpointer,
which search engine, which shape of a report), the module has a variable
`setting` that `Init` chooses from the constant `Settings` and no step changes.
A run is then the sum of a few scenarios, each small enough to be exhausted, and
not the product of all options. `MCContributionService` does the same for a
constant of the module: its variable `postgres` chooses between the module as it
is and an instance of it with row locks.

### ContributionService

A call is a *request* with an ORM session of its own: `req[r]` holds the
operation, the user, and in `seen` the object the session's identity map holds.

| Model | Code |
|---|---|
| `row[c]` | the `contributions` row; `version` is `version_id_col` |
| `audit[c]` | the committed `audit_logs` entries about it, in order |
| `Create` | `create_contribution`: one commit, by a holder of the push permission |
| `Load` | the plain `session.get` of submit, merge, diff and alignment review, with what the handler checks before it goes on (`Admissible`) |
| `Select` | `_transition` on a fresh session: `SELECT ... FOR UPDATE` reads the committed row |
| `Reselect` | `_transition` after a plain read: it takes the lock and keeps the object as it was read |
| `Commit` | the flush `UPDATE ... WHERE version = seen.version`, the audit entry and the commit |
| `BuildManifest` | `get_diff`: the first view writes the manifest and its review queue |
| `SettlePair` | `_resolve_pair`: writes the whole manifest back from the object it holds |
| `Stale` | the flush matches no row: `StaleDataError`, rolled back |
| `Abort` | the call ends before its commit |

`RowLocks` distinguishes PostgreSQL from SQLite, which ignores `FOR UPDATE`.
`reopen` and `close` exist in the service and its tests but no endpoint or
command calls them, so the deployment with SQLite takes the operations the
endpoints expose and the one with PostgreSQL all of them.

`ContributionLifecycle` is the abstract specification: a `ticket` with status,
author and reviewer that walks one graph of statuses. `LifecycleSpec`
instantiates it with the row seen through these three columns; every `Commit`
is a `Move`, a `Review` or a `Merge`, everything else a stutter.

### ContributionMerge

Adds the three stores (`chunk` by document, `graph` by entity name or relation
triple, `comm` by document) and, in `work[r]`, what the call in flight has
collected and how far it has come. A record has a `home` (a user's personal
library, a project or a team), an access level, its evidence (`sources`) and
the contribution that brought it (`prov`). Merging *moves* records: keys know
nothing of libraries, so an upsert into the target overwrites the one in the
author's library. The graph's keys are entities and, among them, `Triples`, the
relations: read by calls of their own, otherwise treated alike.

On stores that suspend (`setting.suspends`), a merge is `CollectChunks`,
`CollectEntities`, `CollectRelations`, `CollectComms`, `ReadEntities`,
`ReadRelations`, `PutChunks`, then a `PutRecord` for each record of the graph, as
Neo4j takes them, and `PutComms`, in the order of `MergeService.merge`; on
in-memory stores it is the one step `MoveAll`. An approved pair is `ReadPairTarget`, `ReadPairSource`, `PutPair`, or `JoinAtOnce`.
`ServiceStep` composes them with the workflow: the store work lies between the
plain read of the row and its status change (or verdict), and an `Abort` may
strike between any two steps. `Reingest` is the author's ingestion, which
overwrites. `CliUsers` merge in the command line's process, whose in-memory
stores are empty.

The review queue of a contribution is what the first view of its diff computes
(`FirstView`, from `get_diff`): the graph records that its viewer sees of the
contribution, against all that the viewer sees (`SeenBy`), in pairs of one type
that are alike enough (`Overlapping`, `AlignmentPending`); none if the embedding
model fails. Who viewed first belongs to the setting. The likeness of a pair's
vectors is a constant, as the embedding model decides it.

### JobLifecycle

| Model | Code |
|---|---|
| `job`, `report`, `run`, `log` | rows of `jobs`, `analysis_reports`, `agent_runs`, `audit_logs` |
| `worker[j]` | the background task: where it is, how many of its progress points are committed, and the status its own `Job` object says (`seen`) |
| `Save` | an assignment to that object: SQLAlchemy writes a column only if the object says something else, so an equal status is not written |
| `Submit`, `Begin`, `Advance`, `Succeed`, `Raise`, `Refuse`, `FinishFailed`, `Audit` | the ingest and analysis workers, one step per commit |
| `SucceedAgent`, `FailAgent` | the agent worker, which commits outcome, run and audit entry together and has no outer handler |
| `ResetRead`, `ResetWrite`, `ResetFails` | `reset_stale_running_jobs`, which runs before serve listens; a failure is logged |
| `Crash`, `DbError`, `NeverStarts` | the serve process ends; a database call fails; the worker fails before its `try` block |

The last definitions of the module, from `Unborn` to `JobIInv`, are no code: they
are the inductive invariant of section 5. The same holds of what follows
`SharedEntityKept` in `DocumentLibrary`, `AnyVersionRestorable` in
`CommunityCuration` and `StepsOnlyAdd` in `ContributionMerge`.

### DocumentLibrary

Content is given: for each version of a document the names in the text of each
chunk, the entities the model names and the pairs it relates. What is *derived*
from it is translated: evidence of entities and relations (`Found`,
`RelationsOf`), connected components (`Component`: the names in every set of names
that is closed under the links and holds the one) and their ids, the document community,
what an upsert overwrites. In memory an ingest is `LoadAtOnce` and `DeriveAtOnce`,
separated by the wait for a model; on databases it is the sequence `Order` of
store calls, with Neo4j taking entities one by one (`PutNode`) and dropping
edges whose ends are missing, one by one as well (`PutEdge`). `Start`, `NextSeed`, `SeedIngested` and
`Listen` are serve's seeding, with the cache in memory mode and content hashes
on databases. `Delete` prunes the evidence and is implemented by the in-memory
stores only. `Dense`, `Sparse`, `Local` and `Global` say which chunks the
retrievers may return; the last two end in `get_chunks_by_ids`, which filters
nothing.

The library has one more writer of entities: the verdict on an alignment pair.
A member of the team approves a pair of an upload that another user contributed,
and the target is written back with the evidence of both, in memory in the one step
`JoinAtOnce`, on databases in `ReadTarget`, `ReadSource` and `PutPair`, of one
verdict at a time (`verdict`). `disclosed` remembers what the verdicts have had
which library's records cite. Merges, which move chunks together with what cites
them, are `ContributionMerge`'s and not in this module.

### CommunityCuration

`comms` is the community store, `versions` the history table in the order of its
commits, `call` the curators' requests. On PostgreSQL a PATCH is `PatchReads`,
then for each edit `PatchMarks` (the manual mark, one transaction), `PatchLoads`
and `PatchWrites` (the edit, another, which reads the row and updates it later); a merge is `MergeReads` (target locked, source
only read) and `MergeCommits`, which may wait for a lock on its source and be
ended by `Deadlock`. In memory each is one step. Every edit ends by reading the
highest version number (`Numbers`) and inserting the next (`Commits`) in a
session of its own. `Restart` lets ingestion derive communities again, which
spares those that carry the mark.

### AccessAdministration

`account[u]` is the row of `users` with the user's roles and memberships, `grants`
the table of roles and permissions, `trail` the `manage_user` entries of the
audit log. An endpoint is `Arrive` (it checks the caller's permission, loads the
row and answers 404 or 409 if it must) and `Write` (flush, audit entry and
commit together). In between another administrator may write: SQLAlchemy
updates the columns whose new value differs from the *loaded* one (`Assigned`),
and unique keys decide the rest (`Flushes`). `clashed` remembers the users two
calls were changing at once. `Context` is `get_access_context`, `Seed` the backfill
of built-in roles by `db seed`.

### AgentSession

| Model | Code |
|---|---|
| `sess`, `rows`, `run`, `job` | `agent_sessions`, `agent_messages` in the order of creation, the statuses of `agent_runs` and of the job |
| `thread[s]` | the last checkpoint of LangGraph's saver for the session's thread |
| `turn[r]` | the worker: its step, the context it computed once, its own copy of the messages, its steps |
| `CreateSession`, `Ask` | the endpoints, with `verify_session_access` (`Opens`) |
| `Rebuild`, `Check` | the worker computes the context again and admits the question or fails the job |
| `Start`, `Model`, `Tools`, `Converge` | `run_turn` and the nodes of the graph; each ends in a checkpoint (`Step`) |
| `Truncated` | `truncate_history`: what a model call is shown |
| `Finish`, `Raise` | run, answer, job and audit entry in one commit; a failing turn |
| `Lose`, `Restart` | an error nobody catches; the end of serve, with the saver in memory or in the database |

A message is its type, the run it belongs to, the tool calls it asks for or
answers, and a `level`: the highest clearance that what it says was taken from.
A tool returns something of the turn's clearance or nothing; the model's words
may come from everything in its window. That is what makes the level of an
answer a matter of history. `Administer` composes the module with
`AccessAdministration`. Two runs of one session may be under way at once, as
nothing in the code prevents it; `disturbed` remembers the sessions where that,
or a loss of memory, has happened.

### AnswerPipeline

`search` is one query: `Retrieve` (the lanes of hybrid retrieval with the rewriting
and context decorators, or what the graph and community modes find), `Rerank`,
`Synthesize`, `Assess` (the corrective second query), `Judge` (the self-check around
it), `Break`. An index is any of a few orders of the library, filtered by what the
caller may read; what the graph or the communities name (`Named`) is fetched by id
and filtered by nobody (`Kept`). Rewriting puts up to `MaxQueries` other queries
in place of the question (`Rewritings`). Fusion (`RRF`) is computed as in the code,
with its 1/(60 + rank) in integers and the same rounding and ties;
`InnermostLanes` keeps what the indexes returned before anything was fused. An
answer cites chunks; `setting.citable` says which ids the pattern of a citation
`Matches`. None of those that ingestion makes does (see 6), those of the
code's own tests do, so the runs have both.

### AnalysisPipeline

| Model | Code |
|---|---|
| `Submit`, `Ask`, `ImageFails` | `submit_analysis_task` with the checks of a custom schema (`Acceptable`, `Trimmed`), `POST /query` and the one with an image |
| `Gather`, `Disown` | the worker computes the context again, reads the visible chunks of the documents asked for, applies the limits (`Select`) and adds what the graph says of them (`Fold`) |
| `Attempt` | a reply: extraction of JSON, validation, feedback and another request within the budget |
| `Conclude` | the end of `parse_with_retry`: repair of a bad last reply (`Salvaged`), evidence check (`Checked`), status, level and the stored row |
| `Answered` | a question as an analysis stores the answer of the search, `/query` returns it |
| `Change` | the submitter's context becomes another one, or the account inactive |

A schema is a tree, given as the kind of value at each path of keys, so that the
trimming is translated path by path; of its bytes those of the values count (`Bytes`). A text is a sequence of words, a quote one
word, a reply a list of objects whose required, optional, confidence and
evidence fields are right, wrong or absent; what validation, repair and checks
make of each is what the code makes of it. The fields of a custom report are open,
and what has the form of evidence somewhere in them (`nested`) is counted and graded
with the rest (`Quotations`), as `verify_evidence` does.

## 3. Runs

Each run asks one question of one part of the system, over the deployments and
actors the second column lists. The last column gives the distinct states TLC
visits.

| Run | Deployments and actors | Checks | States |
|---|---|---|---|
| `service_deployments` | two calls on one contribution with one alignment pair: on SQLite without row locks and the endpoints' operations; on PostgreSQL with row locks, every operation, and fairness | `TypeOK`, `VersionIdentifiesRow`, `ReviewedByOthers`, `ApprovedMerges`, `VerdictsStand`, `LifecycleSpec` (refinement), `LockedCallsEnd` (liveness) | 228 000 |
| `merge_stores` | in memory: two contributions that share an entity, one first viewed by its author, who finds a pair, one by the reviewer; the embedding model answers or fails; API and CLI merge, a document ingested again. On databases: one contribution with a pair, every store call a step | `MergeTypeOK`, `EnteredApproved`, `ContentArrives`, `VerdictApplied`, `StepsOnlyAdd` | 512 000 |
| `merge_lost_union` | the databases alone | `MergesOnlyAdd` is violated: see 6 | |
| `job_serve` | an upload, an agent run and the analysis it asks for, or either beside an analysis of the command line; two crashes of serve, one failure of any kind; fairness | `JobTypeOK`, `OutcomeStored`, `JobsGoForward`, `JobsEnd` (liveness) | 83 000 |
| `job_cli_race` | serve starts while the CLI analyses | `FinalIsFinal` is violated: see 6 | |
| `library_serve` | two demo files, uploads of two users that share an entity, both kinds of stores; two edits, two restarts, a deletion, a failure, an approved pair | `LibraryTypeOK`, `RetrievalVisible`, `EvidenceStored`, `HashMeansIngested`, `SeedsCurrent` | 704 000 |
| `library_shared_entity` | the same in memory, with every entity found in its document's text | `SharedEntityKept` is violated: see 6 | |
| `curation_edits` | two curators, two documents, both kinds of stores, three edits, a restart | `CurationTypeOK`, `VersionsGapless`, `HandEditsKept`, `MergeKeepsEdits` | 569 000 |
| `curation_versions` | two edits at the same time | `AnyVersionRestorable` is violated: see 6 | |
| `agent` | eight settings: administrators at once; a release seeded meanwhile; a conversation whose owner's account changes; conversations of two overlapping turns with each checkpointer, restarts, two windows and two budgets; fairness | `AgentTypeOK`, `TrailTells`, `WindowSound`, `ConversationKept`, `NotLaundered`, `RunsSettle` (liveness) | 344 000 |
| `agent_evidence` | one question of a user cleared above INTERNAL | `EvidenceWithinSession` is violated: see 6 | |
| `analysis` | twenty-two settings: summaries, a timeline, a relation map and custom reports with eight schemas, under tight and wide limits; questions to plain, rewriting, doubting, remotely and locally reranked and global engines; permissions change at any time; fairness | `AnalysisTypeOK`, `SchemaTrimmed`, `MaterialsWithinAsked`, `GradedHonestly`, `NothingInvented`, `ReportCoversMaterials`, `FusionKeepsOrder`, `SourcesHonest`, `AnalysesEnd` (liveness) | 30 000 |

What they show, in the order of the hazards:

- *Workflow.* The plain read before `FOR UPDATE` means that submit and merge act
  on a stale object; the only thing that stops a double merge, a merge of a
  contribution whose approval has been undone, or a lost alignment verdict is
  the version in the `UPDATE`. It suffices, with and without row locks
  (`ApprovedMerges`, `VerdictsStand`). With row locks no call waits for ever.
- *Merge.* Content is moved long before the status changes, so an aborted merge
  leaves content in the target library of a contribution that shows as
  approved. Its text and communities are approved all the same, and a graph record
  is there with evidence of an approved contribution (`EnteredApproved`). There is
  one way past the approval, and the property names it: a verdict on an alignment pair is
  refused only once its contribution is merged (`collab/alignment_review.py:63-88`),
  so on one that is submitted or rejected it joins evidence that nobody has approved
  into the target, a library's record. The retry of an aborted merge brings the text and
  the communities (`ContentArrives`). On databases no more than that: after an abort
  between `PutChunks` and the graph the retry collects no graph records and finishes as
  merged with those still in the author's library. What `ContentArrives` says of
  them is therefore about the in-memory stores. It says where content is, not that the
  author's library keeps or loses it; and it leaves out merges by the CLI. Where a call's store work is one
  step, as in memory, it takes evidence from no record (`StepsOnlyAdd`); on
  databases a merge may write back what it read before a pair was joined
  (`merge_lost_union`).
- *Jobs.* Cleaning at start is what ends a job whose task died with its process;
  it is sufficient because serve cleans before it accepts requests, and it is
  unsound for a CLI analysis that is still alive. One failed database call is
  always recorded, two need not be.
- *Library.* The unfiltered fetch by ids rests on every record being as private as
  the text it cites. An ingest replaces records whole, evidence and library together,
  and keeps it so; the verdict on a pair does not: it joins evidence of a personal
  library into a record of the team's, and the team's searches return the personal text
  from then on, whether or not the contribution is ever approved.
  `RetrievalVisible` says exactly this much: what a user finds and may not see has been
  disclosed to a library of theirs by a verdict. It is no promise of privacy where
  pairs are approved. A
  fingerprint can be trusted but for one course of events, which
  `HashMeansIngested` names (`torn`): see *Library* in 6.
- *Curation.* The mark set before the edit protects everything a curator's
  unfinished call leaves behind, except when a rollback slips between the two
  transactions; `HandEditsKept` excludes that order by name (`overtaken`).
- *Administration.* With one administrator at a time the audit log tells every
  account as it is (`TrailTells`). With two at once the second may write nothing,
  because the value it asks for is the one it had loaded, and is logged all the
  same. Two calls that create one name make one account: the unique key
  decides, not the look before.
- *Agent.* The budget may end a turn right after the model asked for tools, and
  a restart may end one anywhere; both leave calls without results in the
  checkpoint. `WindowSound` states what holds nevertheless: the window begins
  at a turn, a result is never shown without its call, and a call shown without
  a result belongs to a turn that ran out of budget, overlapped another or was
  cut off. `ConversationKept` compares the checkpoint with the rows: they agree
  until turns overlap or memory is lost, and each admitted question has one row
  and, if and only if its job succeeded, one answer after it. `NotLaundered`:
  answers may be more confidential than the session says (`agent_evidence`), but
  the clearance kept with the session closes it to an owner who was lowered,
  turns still under way included; only an owner who had been raised above that
  clearance in between can read back what was answered then.
- *Analysis.* Permissions are read once, when the job begins, and the report is
  stored under them however they change until it is done; it is for the
  submitter alone and needs the clearance of the chunks in its prompt
  (`ReportCoversMaterials`, of reports made from a template; a question as an analysis
  is answered from everything the submitter may see, see 6). The limits are applied twice, once before and once
  after the graph's block is added, and the second time cuts no material
  (`MaterialsWithinAsked`). A trimmed schema is within the limits of depth and
  keys and trimming it again changes nothing; keys the code does not know remain only
  where values are kept whole, and it may have more bytes than allowed
  (`SchemaTrimmed`). A repaired reply never says what the model did not
  (`NothingInvented`), is never graded as if it had been valid, and nothing
  unsupported keeps a high confidence (`GradedHonestly`).
- *Search.* A chunk that is before another one in the list of every index that returned
  the other is before it in the end, however often lists are fused, cut and
  fused again (`FusionKeepsOrder`). What an inner cut drops although several indexes had
  it is not its subject. The sources of an answer are what it cites of what was shown,
  in order and once each, or all that was shown; after an index's search the user may
  read them all, after one of the graph or the communities this is a matter of
  the library's records (`SourcesHonest`, and `RetrievalVisible` above). A correction and a self-check around each other still end.

What the properties do *not* see, though they are near it: `OutcomeStored` allows an
outcome without its audit entry, since serve may end between the two commits, and
says only that an entry there is tells the truth. `JobsEnd` excuses what failed, and its
end may be one that overrides a success (`analysis/job_worker.py:194`).
`HandEditsKept` does not follow what a rollback brings back from a first version
without a mark (`api/admin.py:467`). `MergeKeepsEdits` is about the target of a merge and
not its source, `TrailTells` not about accounts two calls changed at once, and the thread
part of `ConversationKept` not about sessions whose turns overlapped. Each exception
is in the property by name, with the hazard it leaves uncovered in `PROJECT.json`.

## 4. Bounds, symmetry, fairness

| Bound | Value | Why it is enough |
|---|---|---|
| `Requests` | 2 | a row and its lock are shared pairwise; a third call adds writes between two others, which one call ending and beginning again does too |
| `MaxVersion`, `PgMaxVersion`; `MaxVersion` of `merge_stores` | 5, 4; 6 | create, submit, approve, merge is the shortest course of a contribution and five writes leave room for a manifest or a verdict anywhere in it; six, for all of them, are allowed where merges are the subject |
| contributions | 1; 2 in memory in `merge_stores` | the workflow keeps contributions apart; merges meet in a shared entity |
| `Pairs` | 1 | verdicts of different pairs meet in the version, as two calls on one pair do |
| `MaxCrashes`, `MaxFaults` (jobs) | 2, 1 | a second crash may strike the cleaning after the first; two failures of one job need not be recorded, and are outside what is promised |
| `MaxStarts`, `MaxEdits`, `MaxDeletes`, `MaxFaults` (library) | 3, 2, 1, 1 | a second start finds what the first one, and an interruption of it, left; with two edits a file may be changed back, and a third start takes the file up again |
| `MaxJoins` | 1 | one joined record already cites text of another library; ingests, a deletion, a failure and, on databases, a restart follow it or come between its steps |
| `Hops` | 1 | one expansion already leaves the entities a user's own chunks name |
| `MaxCalls`, `MaxRestarts` (curation) | 3, 1 | two overlapping edits, and one after them |
| `Calls`, `entries` (administration) | 2; at most 3 entries | two calls clash pairwise, and one more entry shows what is told after |
| `questions`, `window`, `steps`, `calls`, `faults` (agent) | at most 2, 2, 3, 2, 1 | two turns overlap or follow each other; a window of one turn already cuts the second; with two steps a turn converges, with three it uses tools twice; two tools are answered in order; a restart between any two steps |
| `MaxQueries`, `top_k` (analysis) | 3; 1 to 3 | the rewriting asks for three queries; with `top_k` 1 and 2 inner and outer fusions cut |
| replies and words (analysis) | texts of at most 3 words, at most 2 replies, 2 objects | the limits 2, 6 and 7 words cut within, between and after materials; one retry follows one bad reply; two objects are one kept and one dropped |

Symmetry is over interchangeable calls (`Requests`, `Curators`), only where no
liveness is checked.

Deadlock checking is off in every configuration: with every bound used up the
modelled system has nothing left to do. That nobody waits for ever is stated as
`LockedCallsEnd`, `JobsEnd`, `RunsSettle` and `AnalysesEnd`.

Fairness is assumed in four places, of what has begun and never of requests,
submissions, crashes or failures:

- `MCContributionService!Deployments`, strong, of each call on PostgreSQL: the
  event loop resumes whatever is ready, and PostgreSQL serves the waiters of a
  row lock in a queue, so a call whose lock becomes free again and again gets it.
- `JobLifecycle!FairSpec`, weak, of each worker (a scheduled task runs while its
  process lives) and of serve's start (whoever operates the service restarts it).
- `AgentSession!FairSpec`, weak, of each turn: the event loop runs the task, and a
  model call ends in an answer or an error, at the latest by its client's timeout.
- `AnalysisPipeline!FairSpec`, weak, of the one analysis: the same.

## 5. Proofs

| Theorem | Statement | Property of run |
|---|---|---|
| *ContributionService_proofs* | | |
| `Invariant` | `Spec => []IInv` | |
| `TypeCorrect` | `Spec => []TypeOK` | `service_deployments` |
| `VersionsIdentify` | `Spec => []VersionIdentifiesRow` | `service_deployments` |
| `SelfReviewNever` | `Spec => []ReviewedByOthers` | `service_deployments` |
| `MergesAreApproved` | `Spec => []ApprovedMerges` | `service_deployments` |
| `VerdictsFinal` | `Spec => VerdictsStand` | `service_deployments` |
| `ImplementsLifecycle` | `Spec => LifecycleSpec` | `service_deployments` |
| *ContributionMerge_proofs* | | |
| `MergeInvariant` | `MergeSpec => []MergeIInv` | |
| `MergeTypes` | `MergeSpec => []MergeTypeOK` | `merge_stores` |
| `WorkflowStands` | `MergeSpec => [](ReviewedByOthers /\ ApprovedMerges)` | |
| `MergesFollowLifecycle` | `MergeSpec => [][Lifecycle!Next]_Tickets /\ VerdictsStand` | |
| `OnlyApprovedEnters` | `MergeSpec => []EnteredApproved` | `merge_stores` |
| `InMemoryOnlyAdds` | `MergeSpec => StepsOnlyAdd` | `merge_stores` |
| `VerdictsLast` | `PairsLast => (MergeSpec => []VerdictApplied)` | `merge_stores` |
| `MergedHasArrived` | `MergeSpec => []ContentArrives` | `merge_stores` |
| *JobLifecycle_proofs* | | |
| `JobInvariant` | `Spec => []JobIInv` | |
| `JobTypes` | `Spec => []JobTypeOK` | `job_serve` |
| `OutcomesAreStored` | `Spec => []OutcomeStored` | `job_serve` |
| `OutcomesStand` | `Spec => JobsGoForward` | `job_serve` |
| *DocumentLibrary_proofs* | | |
| `LibraryInvariant` | `Spec => [](LibraryIInv /\ VerdictIInv)` | |
| `SearchesVisible` | `Spec => []RetrievalVisible` | `library_serve` |
| `CitationsStored` | `Spec => []EvidenceStored` | `library_serve` |
| `FingerprintsTell` | `Spec => []HashMeansIngested` | `library_serve` |
| `ListensToCurrent` | `Spec => SeedsCurrent` | `library_serve` |
| `StoresTyped` | `Spec => []LibraryTypeOK` | `library_serve` |
| *CommunityCuration_proofs* | | |
| `CurationInvariant` | `Spec => []CurationIInv` | |
| `CurationTypes` | `Spec => []CurationTypeOK` | `curation_edits` |
| `HistoryGapless` | `Spec => []VersionsGapless` | `curation_edits` |
| `EditsSurviveIngestion` | `Spec => HandEditsKept` | `curation_edits` |
| `MergesUndoNothing` | `Spec => MergeKeepsEdits` | `curation_edits` |
| *AgentSession_proofs* | | |
| `AgentTypes` | `FairSpec => []AgentTypeOK` | `agent` |
| `TrailTold` | `FairSpec => []TrailTells` | `agent` |
| `WindowIsSound` | `FairSpec => []WindowSound` | `agent` |
| `QuestionsAnswered` | `FairSpec => []QuestionAnswered` | |
| `ConversationsKept` | `FairSpec => []ConversationKept` | `agent` |
| `ClearanceNotLaundered` | `FairSpec => []NotLaundered` | `agent` |
| *AnalysisPipeline_proofs* | | |
| `MaterialsAreAsked` | `FairSpec => []MaterialsWithinAsked` | `analysis` |
| `GradesAreHonest` | `FairSpec => []GradedHonestly` | `analysis` |
| `ReportsQuote` | `FairSpec => []NothingInvented` | `analysis` |
| `ReportsConfidential` | `FairSpec => []ReportCoversMaterials` | `analysis` |
| `SourcesAreHonest` | `FairSpec => []SourcesHonest` | `analysis` |
| `FusionAgrees` | `FairSpec => [](setting.top_k <= 50 => FusionKeepsOrder)` | `analysis` |
| `AnalysesTyped` | `FairSpec => []AnalysisTypeOK` | `analysis` |
| `SchemasAreTrimmed` | `FairSpec => []SchemaTrimmed` | `analysis` |

Every theorem is for all values of its module's constants that satisfy the
assumption of that module. An assumption gives the constants their types and
says what the code's own types and checks give it: that identifiers of different
kinds differ, that an API request carries a clearance only where it may. Each one
is evaluated by TLC for the values of the runs. Bounds such as `MaxVersion` or
`MaxFaults` are constants like others: the theorems hold for any of them, hence
for behaviours of any length. The inductive invariants that the components' modules
define, and `ArrivalIInv`, were checked by TLC on the configurations of their runs
before they were proved.

### The workflow

In `ContributionService_proofs`, for all users, libraries,
contributions, pairs and calls in flight, any bound on versions, with and
without row locks. The only assumption is `ServiceAssumption`: the constants have
their types and `None` is none of the users, contributions, libraries or pairs.

The argument is that of optimistic locking. A call commits what it decided on
an old object, so no property of the table is inductive by itself. The
invariant adds:

- `CallsChecked`: what each call in flight checked holds of the object it saw,
  and that object's version is not in the future;
- `VersionIdentifiesRow`: a call whose version still matches has seen the
  present row. A write of another call raises the version and so makes this
  true of everybody else; this is where every step that commits is decided.
  Together they give that the checks hold of the row that is overwritten;
- `ApprovalOnRecord` and `MergeOnRecord`: while a contribution is approved its
  history ends, as to status changes, in the approval; no merge is on record
  before it is merged. They carry `ApprovedMerges` over the commit of a merge;
- `Existence`, `QueueInManifest`: an absent row has no history to begin with, and a
  manifest is built only once, so `BuildManifest` cannot undo a verdict.

The proof separates steps that do not commit (`CallStep`) from those that do.
`CommitsWrite` shows that `Commit`, `BuildManifest` and `SettlePair` are one kind of
step (`ChecksHold` and `Write`), an overwriting of exactly what the caller has
seen, and
`CreateKeepsRecord`, `WriteKeepsRecord`, `CreateKeepsCalls` and `WriteKeepsCalls`
preserve the two halves of the invariant. `VerdictsFinal` and
`ImplementsLifecycle` follow from the same effects step by step (`VerdictStays`,
`StepsFollow`).

### Merges

`ContributionMerge_proofs` rests on the workflow's invariant: every step of the
composition is a step of the workflow or leaves its variables alone, so `IInv`
holds of it too, and with it `WorkflowStands`: what was proved of calls that do
nothing but commit stays true of calls that are suspended in the middle of moving
content. So do `VerdictStays` and `StepsFollow`: `MergesFollowLifecycle` says that every
step of the composition is one of `ContributionLifecycle` or leaves its state
alone. It is about steps because the composition begins with contributions that are
already submitted, which is not where the lifecycle begins. For any documents, pairs, libraries and calls, on both kinds of stores,
the invariant adds

- `WorkWarranted`: a merge that has begun is of a contribution that is approved
  *or already merged by somebody else*, by one who may merge, and has collected only
  records of that contribution's documents; what any call has read was warranted when
  it was read and stays so. It stays so because an approved contribution can only go
  on to be merged (`ClearedStays`). This is what makes the blind writing back of stale
  records harmless to `EnteredApproved`, while it is the cause of `merge_lost_union`;
- `StoresWarranted`: a graph record a library did not hold from the start has evidence
  of an approved contribution (`Evidenced`), and all evidence in a record is there
  by an entitlement (`Lawful`): an approval, the record's beginning, an author who may
  merge and joins what is their own. Verdicts join evidence without one; hence the
  targets of pairs are excepted, and nothing else is: a merge joins only under the key it
  has read, so what a verdict brought stays under the target's. That the records of
  *personal* libraries are as ingested unless a pair was joined into them is part of
  `Lawful`, since the next merge takes them along.

`InMemoryOnlyAdds` looks at the one step in which in-memory stores do all the
work of a call. `VerdictsLast` needs two more facts while the stores do not suspend
(`Sourced`: a record extracted from documents has one of them as a source;
`JoinedFirst`: the join is there before its verdict is), and it has a premise,
`PairsLast`: the author does not ingest a document that mentions the pair's target
again, as that overwrites the joined record. The constants of the run
satisfy it.

`MergedHasArrived` is about where content is after a merge. For which content this can be said
is part of the property and needs no premise: documents that the contribution's author
owns, may read and does not ingest again. The others a merge may leave where they are: a
document's level comes from the prefix of its file name and not from its author's
clearance, so a merge may not find it, finish all the same and leave it. The libraries
are not told apart, since a later merge to another library may take a community along
that mentions an entity it collects. `ArrivalIInv` adds to
`MergeIInv`: what no library holds is as its author's ingestion left it (`Personal`),
hence seen by the author and collected by their merge; where a merge is one step, a
document whose text has moved has no graph record of its own behind, but for the targets
of pairs (`TextTakesAll`); a merge in flight has collected the text and communities it
has not found moved, and has moved them once it has written them (`TextKnown`). An
aborted merge leaves text moved and the status as it was; the retry then finds it
moved, which `TextKnown` allows at every stage. On databases the graph has no
such argument: see *Merge* in 3.

### Jobs

The theorems are in `JobLifecycle_proofs`, for any jobs of any kinds and origins
(analyses of the command line among them) and any number of failures and
restarts, from `JobAssumption`: only analyses are asked for by the command line or
by an agent, and the constants have their types.

That a job's outcome is stored, told and final cannot be seen from its row: it
depends on where its worker is. `JobIInv` adds, per job,

- `InPlace`: what the worker's own object says, and how far the row's progress and
  result have come, at each place of the worker. An object says "running" from
  its first commit on, so its outcome does reach the row (`SavedOutcome`); a worker
  that met no error and has not ended finds its row unfinished; nothing is in
  the audit log before the worker ended; and errors are counted by faults;
- `CleanedFirst`: while serve is down or cleaning, no task of serve is alive, and
  what the cleaning has loaded is still as it was loaded. This is what makes
  `ResetWrite`, which writes without looking again, harmless to serve's jobs; it
  says nothing of the command line's, and `job_cli_race` shows why.

Each action of a worker touches one job. `OneJob` reduces a step to that job, and
one lemma per action (`AdvanceKeeps`, ..., `TripKeeps` for the three ways into an
error) checks it; the end of serve and the three steps of its start touch many
jobs and are done job by job (`EveryJob`). `OutcomesStand` is proved from the
invariant by the same cases, with `PointsRise` for the progress.

### The library

`DocumentLibrary_proofs` is about any documents with any versions of any contents,
any users and hops of a search, and any number of starts, edits, deletions and
failures, on both kinds of stores. The parts of `LibraryIInv`:

- `RecordsPrivate`: a chunk, stored, indexed or cached, is in its document's
  library, and an entity or relation cites chunks of its own library or what a verdict
  has disclosed to it. From it alone `SearchesVisible` follows, for the expansions
  along relations and for the communities too, which filter records and never the
  chunks they end at. That no ingest, cache or stale write of a verdict takes evidence
  into a library in which neither its text nor a disclosure has put it is the content of the theorem;
- `VerdictIInv`, beside it: what a verdict in progress has read was stored, mirrored and as
  private, and is so still when it writes, as nothing is deleted on databases;
- `CacheWhole`: what the cache holds cites its own chunks, and these are what the
  demo files said when the key was computed. Its key is compared with the files
  as they are, so loading it brings the files' text;
- `IngestsInTurn`: which ingests may be under way while serve seeds and while it
  listens, and what the demo files already taken up have left in the stores. It
  carries `ListensToCurrent`, and it keeps the steps of two ingests of one
  document apart;
- `StepsStored`: on databases, each step finds what the earlier steps of the same
  ingest have stored. This gives the citations of the entities, which are
  written after the chunks, and Neo4j's agreement with PostgreSQL;
- `HashesTell`: a fingerprint tells of the text of the version it was taken of,
  whatever the file says by now. `HashMeansIngested` is its instance for the
  present version and is not inductive: the file may be changed and changed back.

`StoresTyped` needs that the communities of one ingest have keys of their own. Their
key is the number of components that begin before theirs, so two with one number
would have to begin alike, hence meet, hence be the same: components are the classes of an
equivalence (`ComponentClosed`, `SameComponent`; what remains of a closed set without a component is
closed), and `NumbersDiffer` compares the sets of components before them. That is
why `Component` is defined by closed sets and not by repeated growing, which
would need induction. `LibraryFits` is the
invariant: every store, and the cache, holds one record for a key, and in memory
no community bears the name yet that the renaming after a demo file (`SeedIngested`)
gives, since every file still to come renames only its own (`NamesFree`).

What a derivation computes is used through a few lemmas (`UpsertKeys`, what an
upsert keeps, who is cited by what it returns). The restrictions to `torn` documents in
`HashMeansIngested` and `SeedsCurrent` are not the prover's: section 6 has the
course of events that makes them necessary.

### Curation

In `CommunityCuration_proofs`, for any communities, curators, edits and restarts, on both
kinds of stores. `CurationIInv` adds to the types and to `VersionsGapless`

- `LocksHold`: a merge under way has its target as it read it, and no other merge
  has the same target; a patch writes only where no merge holds the lock. Hence
  `MergesUndoNothing`;
- `EditsMarked`: on PostgreSQL, whatever is not as derivation would leave it bears
  the manual mark, in the store, in every version that a rollback could bring
  back, and in what a call in flight has read. This is the history of the mark
  that `EditsSurviveIngestion` is about, with `overtaken` for the order that
  defeats it;
- `NumbersFollow`: the number a call is about to insert has its predecessor in the
  history, or is the first. Two calls may hold the same number
  (`curation_versions`), yet neither leaves a hole.

### Conversations and accounts

`AgentSession_proofs` is for any users, roles, groups and administrators, any
sessions and runs, any window, budget and checkpointer, with accounts changing at
any time and restarts in between.

- `TrailTold` rests on `AdminIInv`: a call that has loaded a user whom no other call
  changes holds the user's present row (`CallsSee`), so the columns it finds
  different are those that change; from `Blank`, that an account that does not exist has
  no roles or memberships, it follows that the trail of an account begins with its creation.
- `ClearanceNotLaundered` rests on `Cleared`: for a session whose owner was never
  raised above it, its clearance bounds its rows, what the checkpointer remembers, the messages a
  turn holds and the clearance of the context under which a turn works. Admission
  looks at the owner's *present* clearance, a turn at that of its beginning;
  both are below the session's.
- `QuestionsAnswered` counts rows per run (`Counted`) by the status of run and job,
  which are tied to the place of the worker (`Tasks`).
- `WindowIsSound`: `Coherence` says that a tool's result comes after its
  call within the same turn, in every checkpoint and every turn's copy, also
  when turns overlap; `Completed`, of sessions that are not disturbed, that one
  turn at a time is under way and that calls are open only while it dispatches
  them. `Truncated` is then a suffix that begins at a question (`FromTheEnd`), and
  both properties pass to such suffixes.
- `ConversationsKept`: `Followed` is a correspondence between a thread and the
  rows of its session, kept for each place of a turn: before its first
  step the thread lacks the question's row, after its last the row of the answer
  is still to come. Finishing extends it by that one message.

### Analyses

`AnalysisPipeline_proofs` is for any finite library, graph, contexts, schemas,
limits and replies, with the submitter's context changing at any time.
`AnalysisAssumption` gives chunks and replies the types of the code's dataclasses
and models, says that a chunk's id is its own, and takes the configured limits not
to be negative; both may be 0, which is why `MaterialsWithinAsked` mentions a limit
of no chunks. Schemas are finite trees (`Schema`): with each path of keys the paths above
it, none of them of a scalar. `SearchAssumption` says that an index ranks a chunk once.

- The invariant `Sound` has little to remember: where an analysis is and what it
  already has (`UnderWay`), and that a report has the level of its materials and
  its submitter as owner, and if made from a template shows what was given (`Reported`). Every step but `Gather`, `Conclude` and
  `Answered` leaves materials and report alone (`StepsAside`).
- The work is in what those steps compute. `Ordered` picks the i-th element as one
  with i - 1 elements before it; `Enumerated` shows that for a strict total order on
  a finite set this lists each element once and in order, because ranks differ
  (`BelowSmaller`) and an injection between finite sets of one size is onto
  (`RanksTaken`). `GatheredInOrder` applies it to the chunks asked for.
- `MaterialsAreAsked`: `LimitsAllow` gives the number `Select` keeps, `SelectedFirst`
  what is kept, the shortened first chunk included, and `FirstStay` that applying
  the limits again to the materials with the graph's block behind them keeps them
  all, since they are among the lengths that fit.
- `GradesAreHonest` and `ReportsQuote`: one lemma for each thing done to an object
  (`RepairedObject`, `CompletedObject`, `CheckedObject`) says what it leaves as it
  was (`From`), `SalvagedReply` that what is dropped leaves the order of the rest, and
  `ReportMade` puts them together. Evidence is counted after the defaults and
  before the grading, the theorem speaks of the report as stored;
  `MissedAlike` shows that the count is the same.
- `ReportsConfidential` follows from `Reported` and `LevelCovers`: a chunk in the prompt is one
  of the materials, whose highest level is the report's.
- `SourcesAreHonest` rests on `SearchSound`: at every step of a search what was found and
  shown are chunks, each once and no more than asked for, which the caller may read if they
  come from an index, and the sources are the citations (`Credited`). `At`, which takes
  what a sequence has at some places, carries it through index, reranker and citations.
- `FusionAgrees` follows an agreement of all indexes outwards through each fusion: a
  candidate with better ranks in every lane it shares scores no less, lane by lane
  (`SumsCompared`), hence outranks the other and is cut later; so the agreement
  holds of the fused lists, and of what is fused of them. That it scores *more* after
  rounding is where the number of candidates matters: ranks n and n + 1 differ by
  1/((60 + n)(61 + n)), which falls below what six digits tell at rank 940 or so; then
  ties are broken by id. With `top_k` to 50 the longest lane, under a fusion of the
  rewriting within one of the context, has 900. The default is 10; the API sets no upper limit
  (`api/schemas.py:28`).
- `SchemasAreTrimmed`: what becomes of a value depends on the keys above it
  (`PartOf`, defined along the path). Two paths, in the schema and in what is left of
  it, are followed key by key: what is kept is kept for the same reason in
  both, so trimming again changes nothing; and a key the code does not know can only be reached
  through a value that is kept whole, or as a property's name. Nothing is said of bytes.
- `AnalysesTyped` joins the types of the search (`SearchSound`) and of the
  analysis (`Typed`).

### Numbers

`NumberLemmas` stands in for induction over numbers: that a set of numbers has a
smallest element is proved from the well-foundedness of strict inclusion of finite sets.
From it follow, without a theorem that takes an operator as a parameter: that a
function defined by steps along 0 .. n exists (`Recursion`, by the smallest length for which it would
not) and that two which take the same steps agree (`SameSteps`); and of sums along a
sequence that they exist, are numbers, and compare as their terms do (`SumExists`,
`SumsAreNumbers`, `SumsCompared`). These carry the scores of a fusion and what becomes of a path
of a schema.

### Not proved

- *Liveness* (`LockedCallsEnd`, `JobsEnd`, `RunsSettle`, `AnalysesEnd`) is out of reach of
  the provers and stays with TLC.
- Every other property of a passing run is the subject of a theorem, one under a
  premise, `VerdictApplied` under `PairsLast`, and one for a bounded `top_k`,
  `FusionKeepsOrder`. Without these they are false, as said above.
- That the arithmetic of scores is that of the code is a matter of translation: the code adds
  floating-point numbers and rounds the sum to six digits, the model adds whole hundred-millionths
  and rounds that; their order could differ where two sums nearly tie.

## 6. Where code and documents disagree

Five runs end in a violation of what a document or comment says, by what the
code does:

1. `merge_lost_union`: a merge reads all the target records it can see and
   writes them all back, so a pair that an alignment review joins in between
   loses the union that `collab/alignment_review.py:130` promises.
2. `job_cli_race`: `reset_stale_running_jobs` fails an analysis that the command
   line is running; its worker then writes its own status, and a failed job
   runs again (`db/models_job.py:32`).
3. `library_shared_entity`: an upsert overwrites an entity's evidence, so
   deleting the last document that names it removes it although an earlier one
   still does (`docs/plans/phases/P4.5-persistence-production.md:142`).
4. `curation_versions`: two edits at once store two versions of one number, and
   no rollback finds either (`docs/plans/phases/P4-git-collab.md:146`).
5. `agent_evidence`: the worker compares the session's level with itself, so
   nothing keeps an answer above it out of a session (`db/models_agent.py:8`).

Smaller things noticed while translating, which no run is about:

- *Verdicts on pairs.* An approval of a pair is refused only when its contribution is
  merged, so a pair of one that is submitted or rejected joins evidence nobody approved
  into a library's record (`EnteredApproved` excepts it; no document forbids it). That
  evidence is the chunk ids of a *personal* library, and graph and community searches end in
  `get_chunks_by_ids`, which filters nothing: from then on they return personal text
  to the readers of the target's library, although `tests/test_search_engine.py:236`
  has all three modes keep to `visible_to`. `RetrievalVisible` names these chunks
  as its exception; with the exception dropped (`Sees(u, c.lib)` alone), TLC finds an
  upload, a verdict and a search that returns the upload's text to another user.
- *Workflow and merges.* A merge into one library takes communities out of another,
  if they mention an entity it collects and its author sees them (`collab/merge.py`,
  section 5). A merge of a document its own author may not see moves none of it and
  is recorded as merged. `docs/plans/phases/P4-git-collab.md:88` says the records of
  the source library are kept, for provenance; the merge rewrites them under their own
  keys, so they are gone from it (`collab/merge.py:98`; line 15 of the same document
  describes this rewriting, and `docs/verification/P4-verification.md:103` speaks of overwriting). No property says
  either. A merge by the CLI with in-memory stores moves nothing, since its process has
  none of the content.
  The first view of a diff decides the manifest and the review queue for good,
  with the access of its viewer (`api/collab.py:178`): a reviewer, who does not see the
  author's personal library, leaves both empty; the note at
  `docs/plans/phases/P4-git-collab.md:167` knows of empty diffs. The queue takes every
  pair from the review threshold on, those above the threshold for automatic
  merging too, while `collab/push.py:88` says only the band between them enters;
  `score_alignment`, which knows the band, is called by tests only.
- *Jobs.* A success whose audit entry fails to commit is recorded as a failure,
  since both are in one `try` (`analysis/job_worker.py:194`). `ecl/job_worker.py:47`
  asserts before the `try` that its docstring says covers everything; such a job
  ends only with the next start of serve. So does an agent run with an error
  outside `run_turn`, and its `agent_runs` row says running for good.
- *Library.* Deleting a document on database stores answers 204 and deletes
  nothing (`delete_by_doc` is not there; a TODO in P4.5 says so). A file that was
  ingested, then changed, then changed back is passed over by its old
  fingerprint, although the ingest of the change may have been cut off between
  its chunks and its fingerprint, so that the chunks of the change stay in place
  of the file's (`ecl/engine.py:97`, `_filter_changed`): the upsert of the chunks
  does not invalidate the fingerprint. This came out while looking for an
  inductive invariant. The fingerprint is
  recorded before the document's community and the profile cards are derived,
  so an error there is never made up for. A deletion in memory leaves the
  document's level-1 community and cards. With database stores the demo's
  profile cards exist only while serve seeds: the stores are built again before
  it listens (`cli.py:165`).
- *Curation.* The version a PATCH leaves holds the state before the edit on
  PostgreSQL and after it in memory; two overlapping merges a <- b and b <- c on
  PostgreSQL lose the members of c: b is only read, and deleted, by the first;
  entity communities (`comm-0`, ...) are overwritten by every ingest whether or
  not they carry the manual mark.
- *Agent.* The `audit_hook` of the tool registry (`agent/registry.py`,
  `docs/plans/phases/P7-agent-mode.md:226`) is never given one; the same document
  (:251) has a refused session audited, which `api/agent.py` does not do. A user of
  PUBLIC clearance cannot open the INTERNAL session they have just created. A
  history window of 0 keeps everything.
- *Search.* The pattern of citations (`retrieval/answer_synthesizer.py:24`) admits
  no "#", and every id that ingestion gives to a chunk has one
  (`interfaces/chunker.py:52`), so the sources of an answer over ingested documents are
  always all candidates, although line 78 says so only of answers without
  citations; the tests use ids the pattern admits. `SourcesHonest` holds for either
  kind, since it asks which of the ids are citable. The context-enriched lane ranks as the dense lane does,
  since its vector is a scaled one. A second answer of the corrective engine
  replaces the first even if it has fewer sources. A remote reranker that
  answers without results leaves "no evidence".
- *Analysis.* The trimming of a schema says it measures depth as the check before it
  does (`analysis/sanitize.py:125`); the check measures every object and list, the
  trimming schemas only, and an empty object it puts for a scalar property may lie one
  level below the limit. Its result is within the depth
  all the same, when that object is not counted (`SchemaTrimmed`); within the limit of
  bytes it need not be, since `{}` may be longer than the scalar it replaces
  (`analysis/sanitize.py:131`). `sanitize.py:12` and `:122` have unknown keys always removed;
  within a list under `items`, an `enum`, or a `title` that is an object they are
  kept with the whole value (`:145`). This came out of the proof, and so did
  that the limits alone do not keep `properties` from being a list, whose members are
  taken as they are. A question as an analysis searches all the submitter may see
  (`analysis/engine.py:234`) while the report's level is that of the materials gathered of the
  documents asked for, so such a report may cite what is above its level, although
  `analysis/access.py:5` has the level close this way; `ReportCoversMaterials` is therefore
  about reports from templates only. The level of the graph's block is not counted
  (documented in `analysis/materials.py:276`). The block may fall out of the
  prompt by the limits while quotes from it are verified all the same
  (`analysis/engine.py:196`). That materials were truncated never reaches a
  warning, and a partial report's warning has an empty reason. A list under an
  unknown key is salvaged into an empty partial report, while one whose items
  are all invalid fails; a wrong confidence is repaired into the default 1.0; an
  unparsable last reply discards an earlier one that could be salvaged.

## 7. What is left out

Within modelled components:

- *Text.* Chunks, names, titles, manifests and reports are model values; the
  likeness of entity pairs, the scores of the indexes, and the wording of prompts are
  absent, and what a model extracts or says is a given.
- *Administration during a behaviour.* Accounts change in `AgentSession`, contexts
  in `AnalysisPipeline`; in the other modules users, permissions, memberships and
  clearances are constants of a run. The permissions to analyse and to query are
  taken as held in `AnalysisPipeline`, where a context is clearance and teams.
  Clearance is in `ContributionMerge`; in `DocumentLibrary` visibility is by library
  alone. That the seeding of roles adds and never takes permissions is in the
  model (`Backfilled`) and no property's subject.
- *Clocks and tokens.* That a turn exceeds its tokens or its time is a choice of
  `Model`. A model call that never returns is not modelled; see the fairness.
- *Content that changes between approval and merge*: `Reingest` is there, and a merge
  takes what is in the author's library then, as the code does; no document
  says it should be what was reviewed, so no property does.
- *Merges in the library*: `DocumentLibrary` has ingests, deletions and verdicts on pairs;
  merges are `ContributionMerge`'s, where records have no text to be searched. A merge
  moves chunks and what cites them, yet one that dies in between, or finds a record
  overwritten, leaves records of one library citing chunks of another; no property is about
  searches after that.
- *Several documents per ingest*, and with them the document clusterer; only
  uploads and the demo, one document each, run under serve.
- *Members of communities edited one by one*: the store offers it, nothing calls it.
- *Entity communities in curation*, because PATCH admits document communities only.
- *Tokens, passwords, self-registration* and the pages that only read.

Whole components, with the reasons, are marked `not_modelled` in `PROJECT.json`:
providers, evaluation, frontend, configuration and deployment have no state that
the system's promises are about.

Extraction templates (`collab/template_review.py`, `ecl/extraction_template.py`) are left
out too: an approval reads the file, adds a type and writes the file within one
handler that never suspends, and what a type does to later extractions is up to
a model's prompt.

## 8. Plan

Modules are built so that they can be proved about: constants with named
assumptions, one action per operation, invariants as conjunctions of named
parts, no `RECURSIVE` operator.

Done, in this order: the workflow (its abstract specification, the detailed
one, the refinement, the proofs), merges on top of it, jobs and their proofs,
the library, curation, administration, the agent's conversations, search and
analysis; then the proofs about curation, library, merges, conversations and
reports; last those about searches, schemas and what merges leave behind.

What could follow:

1. `JobLifecycle` as a refinement of an abstract job (pending, running, one of two
   ends), and the composition of `AnalysisPipeline` and `AgentSession` with it as
   refinements of the same job. `JobsGoForward` says most of it of serve's jobs.
2. Memberships that change while a contribution is under way, with
   `AccessAdministration` in place of the constants of `ContributionService`.

## Running

    tlc -workers 2 -config ContributionService_deployments.cfg MCContributionService.tla
    tlapm JobLifecycle_proofs.tla

Every configuration is named after its module and the run; the module to give
TLC is the `MC` one.
