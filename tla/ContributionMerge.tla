--------------------------- MODULE ContributionMerge ---------------------------
(***************************************************************************)
(* What a merge and an approved alignment pair do to the content stores    *)
(* (collab/merge.py, graph_merge.py, alignment_review.py) on top of the    *)
(* workflow of ContributionService.  The stores are three: text chunks,    *)
(* the graph and the communities, each keyed by an id that knows nothing   *)
(* of libraries, so a record exists once and a merge moves it.             *)
(*                                                                         *)
(* The graph's keys are entities (by name) and relations (by their triple), *)
(* read and written in turn but collected and merged alike.  A document    *)
(* stands for its chunks, and its community for the communities derived    *)
(* from it.                                                                *)
(*                                                                         *)
(* The in-memory stores never suspend, so a call does all its store work   *)
(* in one step; every call on the database stores may be interleaved with  *)
(* the others.  Which stores a deployment has is part of its setting.      *)
(***************************************************************************)
EXTENDS ContributionService, FiniteSets

CONSTANTS
    Docs, Names,
    Triples,      \* the graph keys that are relations, the others are entities
    Mentions,     \* the graph keys extracted from each document
    DocOf,        \* the documents each contribution offers
    Author, Target,   \* who offers it, to which library
    Stored,       \* the graph records the libraries hold at the start, by key
    Level,        \* access level of each document's records
    Clearance,
    PairSource, PairTarget,   \* the keys of an alignment pair
    Kind,         \* the type of the entity of each key
    Likeness, ReviewThreshold,   \* of a pair's vectors, and from where on it counts
    Settings      \* the deployments: whether the stores suspend, which contributions
                  \* are under review and who was the first to view their diffs, the
                  \* documents whose authors may ingest them again, who reviews, and
                  \* who of them in a process of the command line, whose in-memory
                  \* stores are empty

(* A record of a content store, in a user's or a project's or team's library. *)
Records == [home: Users \cup Libraries \cup {None}, level: Nat,
            sources: SUBSET (Docs \cup {"library"}), prov: Contributions \cup {None}]

ASSUME MergeAssumption ==
    /\ Users \cap Libraries = {}
    /\ Triples \subseteq Names
    /\ Mentions \in [Docs -> SUBSET Names]
    /\ DocOf \in [Contributions -> SUBSET Docs] /\ \A d \in Docs : \E c \in Contributions : d \in DocOf[c]
    /\ Author \in [Contributions -> Users]
    /\ Target \in [Contributions -> Libraries]
    /\ DOMAIN Stored \subseteq Names
    /\ \A k \in DOMAIN Stored : Stored[k] \in Records /\ Stored[k].home \in Libraries
    /\ Level \in [Docs -> Nat]
    /\ Clearance \in [Users -> Nat]
    /\ PairSource \in [Pairs -> Names \ Triples] /\ PairTarget \in [Pairs -> Names \ Triples]
    /\ Names \subseteq DOMAIN Kind
    /\ Likeness \in [Pairs -> Nat] /\ ReviewThreshold \in Nat
    /\ Settings \subseteq [suspends: BOOLEAN, offered: SUBSET Contributions,
                           viewer: [Contributions -> Users], reingested: SUBSET Docs,
                           users: SUBSET Users, cli: SUBSET Users]

VARIABLES
    chunk,   \* the vector store, by document
    graph,   \* the graph store, by key
    comm,    \* the community store, by the document it was derived from
    work,    \* what each call in flight has read, and how far it has come
    setting  \* the deployment, which does not change

stores == <<chunk, graph, comm>>
Entities == Names \ Triples
Suspends == setting.suspends
CliUsers == setting.cli
Reingested == setting.reingested
mergeVars == <<row, audit, req, chunk, graph, comm, work, setting>>

Absent == [home |-> None, level |-> 0, sources |-> {}, prov |-> None]
Record(home, level, sources) ==
    [home |-> home, level |-> level, sources |-> sources, prov |-> None]
NoWork == [stage |-> "start", chunks |-> << >>, keys |-> << >>, comms |-> << >>,
           target |-> << >>]

(* The records of d, as its author's ingestion leaves them in the personal library. *)
Ingested(d, u) == Record(u, Level[d], {d})
Owner(d) == CHOOSE u \in Users : \E c \in Contributions : d \in DocOf[c] /\ Author[c] = u

(* Every ingestion overwrites the record of a key: it is as the last one left it. *)
Mentioning(k) == {d \in Docs : k \in Mentions[d]}
GraphAtStart == {Stored[k] : k \in DOMAIN Stored} \cup {Absent}
                \cup {Ingested(d, Owner(d)) : d \in Docs}

(* visible_to *)
Sees(u, rec) ==
    /\ rec # Absent /\ rec.level <= Clearance[u]
    /\ \/ rec.home = u
       \/ rec.home \in Libraries /\ u \in Members[rec.home]

(* Mutant of TakeComms: only the communities that share a collected key. *)
TakeCommsByKeys(c, keys) ==
    [d \in {d \in Docs : /\ Sees(Author[c], comm[d])
                         /\ Mentions[d] \cap (DOMAIN keys \ Triples) # {}} |-> comm[d]]

(* PushService.collect, with the access of u (a merge collects as the author): the *)
(* chunks of the contribution's documents, the entities and then the relations     *)
(* they are a source of, the communities about those.                              *)
TakeChunks(c, u) == [d \in {d \in DocOf[c] : Sees(u, chunk[d])} |-> chunk[d]]
TakeKeys(u, taken, among) ==
    [k \in {k \in among : /\ Sees(u, graph[k])
                          /\ graph[k].sources \cap DOMAIN taken # {}} |-> graph[k]]
TakeComms(c, keys) ==
    [d \in {d \in Docs : /\ Sees(Author[c], comm[d])
                         /\ \/ Mentions[d] \cap (DOMAIN keys \ Triples) # {}
                            \/ d \in DocOf[c]} |-> comm[d]]

(* list_entities and list_relations with the access of u. *)
SeenBy(u, among) == [k \in {k \in among : Sees(u, graph[k])} |-> graph[k]]

(* compute_overlap_embedding: the pairs of one type whose vectors are alike enough. *)
Overlapping(source, target) ==
    {p \in Pairs : /\ PairSource[p] \in DOMAIN source /\ PairTarget[p] \in DOMAIN target
                   /\ Kind[PairSource[p]] = Kind[PairTarget[p]]
                   /\ Likeness[p] >= ReviewThreshold}

(* compute_alignment_pending: none when the embedding model fails, and no name is *)
(* paired with itself.                                                            *)
AlignmentPending(source, target, embeds) ==
    {p \in Overlapping(source, target) : embeds /\ PairSource[p] # PairTarget[p]}

(* The review queue that the first view of a diff fixes for good: the contribution *)
(* as its viewer sees it, against all that the viewer sees.                        *)
FirstView(c, viewer, embeds) ==
    AlignmentPending(TakeKeys(viewer, TakeChunks(c, viewer), Entities),
                     SeenBy(viewer, Entities), embeds)

(* Contributions that have been submitted, their documents in personal libraries. *)
MergeInit ==
    /\ setting \in Settings
    /\ chunk = [d \in Docs |-> Ingested(d, Owner(d))]
    /\ comm = [d \in Docs |-> Ingested(d, Owner(d))]
    /\ graph \in {g \in [Names -> GraphAtStart] : \A k \in Names :
                  IF k \in DOMAIN Stored THEN g[k] = Stored[k]
                  ELSE IF Mentioning(k) = {} THEN g[k] = Absent
                  ELSE \E d \in Mentioning(k) : g[k] = Ingested(d, Owner(d))}
    /\ \E embeds \in BOOLEAN :
         row = [c \in Contributions |->
                IF c \notin setting.offered THEN NoRow ELSE
                [NoRow EXCEPT !.status = "submitted", !.version = 3, !.author = Author[c],
                              !.library = Target[c], !.assignee = FirstApprover(Target[c]),
                              !.manifest = TRUE,
                              !.pairs = [p \in Pairs |->
                                  IF p \in FirstView(c, setting.viewer[c], embeds)
                                  THEN "pending" ELSE "none"]]]
    /\ audit = [c \in Contributions |-> IF c \notin setting.offered THEN << >> ELSE
                  <<[action |-> "create", user |-> Author[c]],
                    [action |-> "submit", user |-> Author[c]],
                    [action |-> "manifest", user |-> setting.viewer[c]]>>]
    /\ req = [r \in Requests |-> Idle]
    /\ work = [r \in Requests |-> NoWork]

Stricter(m, n) == IF m < n THEN n ELSE m
Rewritten(recs, c) == [d \in DOMAIN recs |-> [recs[d] EXCEPT !.home = Target[c], !.prov = c]]

(* merge_entities and merge_relations: everything the merger sees, with the      *)
(* source records joined in.                                                     *)
MergeGraph(source, target, c) ==
    [k \in DOMAIN source \cup DOMAIN target |->
        IF k \notin DOMAIN source THEN target[k]
        ELSE IF k \notin DOMAIN target THEN Rewritten(source, c)[k]
        ELSE [home |-> Target[c], prov |-> c,
              level |-> Stricter(source[k].level, target[k].level),
              sources |-> source[k].sources \cup target[k].sources]]

(* The records of f, and those of g under other keys. *)
With(f, g) == [k \in DOMAIN f \cup DOMAIN g |-> IF k \in DOMAIN f THEN f[k] ELSE g[k]]
Without(f, k) == [x \in DOMAIN f \ {k} |-> f[x]]

(* Upsert: a record overwrites the one under its key. *)
Upsert(store, recs) == [k \in DOMAIN store |-> IF k \in DOMAIN recs THEN recs[k] ELSE store[k]]

(* A call that has loaded its row and is at this stage of its store work. *)
At(r, op, stage) == req[r].pc = "loaded" /\ req[r].op = op /\ work[r].stage = stage

(* MergeService.merge on stores that suspend, one store call at a time. *)
CollectChunks(r) ==
    /\ At(r, "merge", "start") /\ Suspends
    /\ work' = [work EXCEPT ![r].chunks = TakeChunks(req[r].c, Author[req[r].c]),
                            ![r].stage = "chunks"]
    /\ UNCHANGED <<vars, stores>>

CollectEntities(r) ==
    /\ At(r, "merge", "chunks")
    /\ work' = [work EXCEPT ![r].keys = TakeKeys(Author[req[r].c], work[r].chunks, Entities),
                            ![r].stage = "entities"]
    /\ UNCHANGED <<vars, stores>>

CollectRelations(r) ==
    /\ At(r, "merge", "entities")
    /\ work' = [work EXCEPT ![r].keys =
                    With(@, TakeKeys(Author[req[r].c], work[r].chunks, Triples)),
                            ![r].stage = "keys"]
    /\ UNCHANGED <<vars, stores>>

CollectComms(r) ==
    /\ At(r, "merge", "keys")
    /\ work' = [work EXCEPT ![r].comms = TakeComms(req[r].c, work[r].keys), ![r].stage = "comms"]
    /\ UNCHANGED <<vars, stores>>

ReadEntities(r) ==
    /\ At(r, "merge", "comms")
    /\ work' = [work EXCEPT ![r].target = SeenBy(req[r].user, Entities),
                            ![r].stage = "target entities"]
    /\ UNCHANGED <<vars, stores>>

(* With the target's relations at hand, the graph to be written is computed. *)
ReadRelations(r) ==
    /\ At(r, "merge", "target entities")
    /\ work' = [work EXCEPT ![r].target =
                    MergeGraph(work[r].keys, With(@, SeenBy(req[r].user, Triples)), req[r].c),
                            ![r].stage = "target"]
    /\ UNCHANGED <<vars, stores>>

PutChunks(r) ==
    /\ At(r, "merge", "target")
    /\ chunk' = Upsert(chunk, Rewritten(work[r].chunks, req[r].c))
    /\ work' = [work EXCEPT ![r].stage = "put chunks"]
    /\ UNCHANGED <<vars, graph, comm>>

(* Neo4j takes the merged graph one record at a time, relations after entities. *)
PutRecord(r) == \E k \in DOMAIN work[r].target :
    /\ At(r, "merge", "put chunks")
    /\ k \in Triples => DOMAIN work[r].target \subseteq Triples
    /\ graph' = [graph EXCEPT ![k] = work[r].target[k]]
    /\ work' = [work EXCEPT ![r].target = Without(@, k)]
    /\ UNCHANGED <<vars, chunk, comm>>

PutComms(r) ==
    /\ At(r, "merge", "put chunks") /\ DOMAIN work[r].target = {}
    /\ comm' = Upsert(comm, Rewritten(work[r].comms, req[r].c))
    /\ work' = [work EXCEPT ![r].stage = "stored"]
    /\ UNCHANGED <<vars, chunk, graph>>

(* The same on in-memory stores, which another process finds empty. *)
MoveAll(r) ==
    LET c == req[r].c
        chunks == TakeChunks(c, Author[c])
        keys == TakeKeys(Author[c], chunks, Names)
    IN  /\ At(r, "merge", "start") /\ ~Suspends
        /\ work' = [work EXCEPT ![r].stage = "stored"]
        /\ IF req[r].user \in CliUsers THEN UNCHANGED stores
           ELSE /\ chunk' = Upsert(chunk, Rewritten(chunks, c))
                /\ graph' = Upsert(graph, MergeGraph(keys, SeenBy(req[r].user, Names), c))
                /\ comm' = Upsert(comm, Rewritten(TakeComms(c, keys), c))
        /\ UNCHANGED vars

-----------------------------------------------------------------------------
(* _merge_pair_into_target: get_entity of the target, of the source, one upsert. *)
PairReadable(r, tgt, src) == Sees(req[r].user, tgt) /\ Sees(Author[req[r].c], src)
(* Mutants of JoinPair: the source's evidence is forgotten; it replaces the target's. *)
JoinPairKeeping(tgt, src, c) ==
    [tgt EXCEPT !.level = Stricter(@, src.level), !.prov = c]
JoinPairReplacing(tgt, src, c) ==
    [tgt EXCEPT !.sources = src.sources, !.level = Stricter(@, src.level), !.prov = c]
JoinPair(tgt, src, c) ==
    [tgt EXCEPT !.sources = @ \cup src.sources, !.level = Stricter(@, src.level), !.prov = c]

ReadPairTarget(r) ==
    /\ At(r, "alignment_approved", "start") /\ Suspends
    /\ work' = [work EXCEPT ![r].target = [k \in {PairTarget[req[r].pair]} |-> graph[k]],
                            ![r].stage = "pair target"]
    /\ UNCHANGED <<vars, stores>>

ReadPairSource(r) ==
    /\ At(r, "alignment_approved", "pair target")
    /\ work' = [work EXCEPT ![r].keys = [k \in {PairSource[req[r].pair]} |-> graph[k]],
                            ![r].stage = "pair read"]
    /\ UNCHANGED <<vars, stores>>

PutPair(r) ==
    LET tgt == PairTarget[req[r].pair]
        src == PairSource[req[r].pair]
        c == req[r].c
    IN  /\ At(r, "alignment_approved", "pair read")
        /\ PairReadable(r, work[r].target[tgt], work[r].keys[src])
        /\ graph' = [graph EXCEPT ![tgt] = JoinPair(work[r].target[tgt], work[r].keys[src], c)]
        /\ work' = [work EXCEPT ![r].stage = "stored"]
        /\ UNCHANGED <<vars, chunk, comm>>

JoinAtOnce(r) ==
    LET tgt == PairTarget[req[r].pair]
        src == PairSource[req[r].pair]
    IN  /\ At(r, "alignment_approved", "start") /\ ~Suspends
        /\ PairReadable(r, graph[tgt], graph[src])
        /\ graph' = [graph EXCEPT ![tgt] = JoinPair(graph[tgt], graph[src], req[r].c)]
        /\ work' = [work EXCEPT ![r].stage = "stored"]
        /\ UNCHANGED <<vars, chunk, comm>>

(* One of the two is missing or invisible: ContributionError, nothing is written. *)
PairMissing(r) ==
    LET tgt == PairTarget[req[r].pair]
        src == PairSource[req[r].pair]
    IN  /\ IF Suspends
           THEN /\ At(r, "alignment_approved", "pair read")
                /\ ~PairReadable(r, work[r].target[tgt], work[r].keys[src])
           ELSE /\ At(r, "alignment_approved", "start")
                /\ ~PairReadable(r, graph[tgt], graph[src])
        /\ req' = [req EXCEPT ![r] = Idle]
        /\ work' = [work EXCEPT ![r] = NoWork]
        /\ UNCHANGED <<row, audit, stores>>

StoreStep(r) ==
    \/ CollectChunks(r) \/ CollectEntities(r) \/ CollectRelations(r) \/ CollectComms(r)
    \/ ReadEntities(r) \/ ReadRelations(r)
    \/ PutChunks(r) \/ PutRecord(r) \/ PutComms(r) \/ MoveAll(r)
    \/ ReadPairTarget(r) \/ ReadPairSource(r) \/ PutPair(r) \/ JoinAtOnce(r) \/ PairMissing(r)

(* The author ingests a document again; its records are overwritten as new ones. *)
Reingest(d) ==
    LET new == Ingested(d, Owner(d)) IN
    /\ d \in Reingested
    /\ chunk' = [chunk EXCEPT ![d] = new]
    /\ comm' = [comm EXCEPT ![d] = new]
    /\ graph' = [k \in Names |-> IF k \in Mentions[d] THEN new ELSE graph[k]]
    /\ UNCHANGED <<vars, work>>

(* Mutant: a call forgets nothing when it ends. *)
ServiceStepKeepingWork(r) ==
    /\ \/ Begin(r) \/ Abort(r)
       \/ Proceed(r) /\ (req[r].pc = "loaded" => work[r].stage = "stored")
    /\ UNCHANGED <<work, stores>>

StoresFirst(r) == req[r].pc = "loaded" /\ req[r].op \in {"merge", "alignment_approved"}

(* A call of the workflow; the store work of a merge comes before its status change, *)
(* that of an approved pair before its verdict is written.  The command line does    *)
(* not settle pairs.                                                                 *)
ServiceStep(r) ==
    /\ \/ /\ Begin(r) /\ req'[r].user \in setting.users
          /\ req'[r].op \in Settlements => req'[r].user \notin CliUsers
       \/ Abort(r)
       \/ Proceed(r) /\ (StoresFirst(r) => work[r].stage = "stored")
    /\ work' = [work EXCEPT ![r] = IF req'[r].pc = "selected" THEN @ ELSE NoWork]
    /\ UNCHANGED stores

MergeNext ==
    /\ \/ \E r \in Requests : ServiceStep(r) \/ StoreStep(r)
       \/ \E d \in Docs : Reingest(d)
    /\ UNCHANGED setting

MergeSpec == MergeInit /\ [][MergeNext]_mergeVars
-----------------------------------------------------------------------------
Stages == {"start", "chunks", "entities", "keys", "comms", "target entities", "target",
           "put chunks", "pair target", "pair read", "stored"}

(* The stores and the calls' working sets keep their types. *)
MergeTypeOK ==
    /\ TypeOK
    /\ chunk \in [Docs -> Records] /\ comm \in [Docs -> Records] /\ graph \in [Names -> Records]
    /\ \A r \in Requests :
         LET w == work[r] IN
         /\ w.stage \in Stages
         /\ DOMAIN w.chunks \subseteq Docs /\ DOMAIN w.comms \subseteq Docs
         /\ DOMAIN w.keys \subseteq Names /\ DOMAIN w.target \subseteq Names
         /\ w.stage # "start" => req[r].pc \in {"loaded", "selected"}

Cleared(table, c, lib) == Target[c] = lib /\ table[c].status \in {"approved", "merged"}
Entered(table, rec) == rec.home \in Libraries => rec.prov # None /\ Cleared(table, rec.prov, rec.home)

(* A graph record in a library that was not there from the start has evidence  *)
(* from an approved contribution to that library.                              *)
Evidenced(table, k, rec) == k \notin DOMAIN Stored /\ rec.home \in Libraries =>
    \E c \in Contributions : Cleared(table, c, rec.home) /\ rec.sources \cap DocOf[c] # {}

(* An alignment review may join another entity into that of this key. *)
QueuedTarget(table, k) == \E c \in Contributions, p \in Pairs :
    table[c].pairs[p] # "none" /\ PairTarget[p] = k

(* What entitles evidence of d to be in a library's record of k: an approval, its *)
(* being there from the start, or its author's being one who may merge, and joins *)
(* their own record of that key.                                                  *)
Entitled(table, k, d) ==
    \/ \E c \in Contributions : d \in DocOf[c] /\ table[c].status \in {"approved", "merged"}
    \/ k \in DOMAIN Stored /\ d \in Stored[k].sources
    \/ Owner(d) \in ApproveUsers

(* Text and communities enter a library only through a contribution to that     *)
(* library whose approval stands, and a graph record comes into one only with   *)
(* evidence of such a contribution: a merge reads the status long before it     *)
(* moves the content.  No other evidence gets into a library's record, but for  *)
(* one way past the approval: the verdict on an alignment pair of a             *)
(* contribution that is submitted, or even rejected, joins its evidence into    *)
(* the pair's target (_resolve_pair blocks only what is merged).                *)
EnteredApproved ==
    /\ \A d \in Docs : Entered(row, chunk[d]) /\ Entered(row, comm[d])
    /\ \A k \in Names :
         /\ Evidenced(row, k, graph[k])
         /\ graph[k].home \in Libraries /\ ~QueuedTarget(row, k) =>
              \A d \in graph[k].sources \cap Docs : Entitled(row, k, d)

MergedByApi(c) == \E i \in DOMAIN audit[c] :
    audit[c][i].action = "merge" /\ audit[c][i].user \notin CliUsers

(* A contribution that shows as merged has been moved, however often the merge *)
(* was aborted and retried: the text of the documents its author offered and   *)
(* may read, and their communities, are in a library; on in-memory stores so   *)
(* are the graph records they are a source of, unless a pair was joined into   *)
(* one.  A merge by the command line "mainly finishes the status" (cli.py,     *)
(* contributions_merge) and an author may ingest again: both are left out.     *)
ContentArrives == \A c \in Contributions : MergedByApi(c) =>
    \A d \in {d \in DocOf[c] \ Reingested : Owner(d) = Author[c] /\ Level[d] <= Clearance[Author[c]]} :
      /\ chunk[d].home \in Libraries /\ comm[d].home \in Libraries
      /\ ~Suspends => \A k \in Names :
            d \in graph[k].sources /\ ~QueuedTarget(row, k) => graph[k].home \in Libraries

(* The target of an approved alignment pair carries evidence of its source, if *)
(* the stores do not suspend (a merge on stores that do may take it away).     *)
VerdictApplied == ~Suspends => \A c \in Contributions, p \in Pairs : row[c].pairs[p] = "approved" =>
    \E d \in Docs : PairSource[p] \in Mentions[d] /\ d \in graph[PairTarget[p]].sources

(* Merging joins: no store write of a merge or of an alignment pair takes      *)
(* evidence from a graph record or lowers its access level, hence it undoes    *)
(* no one else's write.                                                        *)
MergesOnlyAdd == [][work' # work => \A k \in Names :
    graph[k].sources \subseteq graph'[k].sources /\ graph[k].level <= graph'[k].level]_mergeVars

(* So it is wherever a call's store work is done in one step.                  *)
StepsOnlyAdd == [][work' # work /\ ~Suspends => \A k \in Names :
    graph[k].sources \subseteq graph'[k].sources /\ graph[k].level <= graph'[k].level]_mergeVars

-----------------------------------------------------------------------------
(* An inductive invariant, for what enters the libraries.                      *)

Typed(recs, keys) == DOMAIN recs \subseteq keys /\ \A k \in DOMAIN recs : recs[k] \in Records
WorkTyped ==
    /\ DOMAIN work = Requests
    /\ \A r \in Requests : LET w == work[r] IN
          /\ DOMAIN w = {"stage", "chunks", "keys", "comms", "target"} /\ w.stage \in Stages
          /\ Typed(w.chunks, Docs) /\ Typed(w.comms, Docs)
          /\ Typed(w.keys, Names) /\ Typed(w.target, Names)

(* Of what entitles it to its place a record tells the more the earlier: one in  *)
(* a personal library, if no pair was joined into it, is as its author ingested  *)
(* it, so the evidence a merge takes along from there is the author's own.       *)
Lawful(table, k, rec) == QueuedTarget(table, k) \/ \A d \in rec.sources \cap Docs :
    \/ Entitled(table, k, d)
    \/ rec.home \notin Libraries /\ rec.home = Owner(d) /\ rec.sources = {d}
Warranted(table, k, rec) == Evidenced(table, k, rec) /\ Lawful(table, k, rec)

(* What a call has read is still warranted when it writes it back; a merge is  *)
(* under way only for what is approved, it takes only records of the           *)
(* contribution's documents, and joins them with what the merger may see.      *)
WorkFits(q, w) ==
    /\ w.stage # "start" => q.pc \in {"loaded", "selected"}
    /\ w.stage \in {"pair target", "pair read"} =>
          q.pc = "loaded" /\ q.op = "alignment_approved" /\ PairTarget[q.pair] \in DOMAIN w.target
    /\ w.stage = "pair read" => PairSource[q.pair] \in DOMAIN w.keys
    /\ ~Suspends => w.stage \in {"start", "stored"}
    /\ q.pc = "loaded" /\ q.op = "alignment_approved" => QueuedTarget(row, PairTarget[q.pair])
    /\ q.pc = "loaded" /\ q.op = "merge" =>
          /\ row[q.c].status \in {"approved", "merged"} /\ q.user \in ApproveUsers
          /\ DOMAIN w.chunks \subseteq DocOf[q.c]
          /\ \A k \in DOMAIN w.keys : /\ w.keys[k].sources \cap DocOf[q.c] # {}
                                      /\ Lawful(row, k, w.keys[k])
          /\ \A k \in DOMAIN w.target : w.target[k].home \in Libraries \cup {q.user}
    /\ \A k \in DOMAIN w.target : Warranted(row, k, w.target[k])
WorkWarranted == \A r \in Requests : WorkFits(req[r], work[r])
StoresWarranted == /\ \A d \in Docs : Entered(row, chunk[d]) /\ Entered(row, comm[d])
                   /\ \A k \in Names : Warranted(row, k, graph[k])

MergeIInv == /\ IInv /\ setting \in Settings
             /\ chunk \in [Docs -> Records] /\ comm \in [Docs -> Records] /\ graph \in [Names -> Records]
             /\ WorkTyped /\ WorkWarranted /\ StoresWarranted
=============================================================================
