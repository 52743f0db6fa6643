--------------------------- MODULE DocumentLibrary ---------------------------
(***************************************************************************)
(* The library of serve: ingestion by ECLIndexingEngine (ecl/engine.py,    *)
(* ecl/load.py), the demo files serve --seed-demo ingests or loads from    *)
(* its cache before it listens (ecl/demo_seed.py), uploads and deletions   *)
(* (api/ingest.py), the approval of an alignment pair, which joins a       *)
(* contributor's entity into another one (collab/alignment_review.py), and *)
(* what the three retrievers find in the stores.  Merged contributions are *)
(* left out: ContributionMerge has them.                                   *)
(*                                                                         *)
(* The in-memory stores never suspend, so an ingest interleaves with other *)
(* calls only where it waits for a model; on PostgreSQL and Neo4j every    *)
(* store call is a step of its own, and Neo4j takes the entities and the   *)
(* relations one by one.  Names are normalised; who may see a record is abstracted to its   *)
(* library, the demo team's or one user's, and clearance is left out.      *)
(* Document clustering is absent: every ingest modelled has one document,  *)
(* and the clusterer wants two.                                            *)
(***************************************************************************)
EXTENDS Naturals, Sequences, FiniteSets, FiniteSetsExt

CONSTANTS
    Seeds, Uploads,   \* the demo files and the uploaded documents
    Uploader,         \* who uploads each of them
    Users, Members,   \* the users, and those in the demo team
    Contents,         \* [document -> [version -> what is in it]]: the names in
                      \* the text of each chunk, the entities the model names
                      \* and the pairs of them it relates
    Backends,         \* kinds of stores: "memory", "db"
    Hops,             \* local_search_hops
    MaxStarts, MaxEdits, MaxDeletes, MaxFaults, MaxJoins   \* bounds on starts of
                      \* serve, edits of demo files, deletions, failures, approved pairs

Docs == Seeds \cup Uploads
Team == "demo team"

ASSUME LibraryAssumption ==
    /\ Docs \subseteq Nat /\ Seeds \cap Uploads = {}
    /\ \A d \in Docs :   \* versions are counted from 1
          /\ 1 \in DOMAIN Contents[d] /\ DOMAIN Contents[d] \subseteq Nat \ {0}
          /\ \A v \in DOMAIN Contents[d] :
                Contents[d][v].names \subseteq Nat /\ IsFiniteSet(Contents[d][v].names)
    /\ Uploader \in [Uploads -> Users] /\ Members \subseteq Users /\ Team \notin Users
    /\ Backends \subseteq {"memory", "db"}
    /\ {Hops, MaxStarts, MaxEdits, MaxDeletes, MaxFaults, MaxJoins} \subseteq Nat

VARIABLES
    backend,   \* the kind of stores this deployment has; never changes
    corpus,    \* the version each document's file holds
    chunks, ents, rels, comms, cards,   \* the stores; a record's key is what upsert overwrites by
    mirror,    \* PostgreSQL's entities rows beside Neo4j, by name and library
    hashes,    \* the version whose fingerprint is recorded, 0 for none
    sparse,    \* the chunks in the BM25 index
    cache,     \* seed-cache.json
    serve,     \* "down", "seeding" or "up"
    left,      \* the demo files not ingested yet
    phase,     \* where each document's ingest is
    nodes, edges,   \* the entities and relations an ingest has not written to Neo4j yet
    torn,      \* the documents whose last ingest was cut off between their chunks and their fingerprint
    verdict,   \* the approval of a pair that is under way on databases
    disclosed, \* <<chunk, library>>: the chunks an approved pair has had a record of the library cite
    count      \* starts, edits, deletions, failures and approved pairs so far

stores == <<chunks, ents, rels, comms, cards, mirror, hashes>>
review == <<verdict, disclosed>>
vars == <<backend, corpus, stores, sparse, cache, serve, left, phase, nodes, edges, torn, review, count>>

Lib(d) == IF d \in Seeds THEN Team ELSE Uploader[d]
Sees(u, lib) == lib = u \/ (lib = Team /\ u \in Members)
Doc(key) == key[1]

----------------------------------------------------------------------------
(* What an ingest derives from a document's content.                        *)

Content(d) == Contents[d][corpus[d]]

ChunksAt(d, v) ==
    {[key |-> <<d, i>>, version |-> v, lib |-> Lib(d)] : i \in DOMAIN Contents[d][v].text}
ChunksOf(d) == ChunksAt(d, corpus[d])

(* The chunks whose text holds a name; none when the model rephrased it. *)
Found(d, n) == {<<d, i>> : i \in {k \in DOMAIN Content(d).text : n \in Content(d).text[k]}}

EntitiesOf(d) ==
    {[key |-> n, from |-> Found(d, n), lib |-> Lib(d)] : n \in Content(d).names}
RelationsOf(d) ==
    {[key |-> e, from |-> IF Found(d, e[1]) # {} THEN Found(d, e[1]) ELSE Found(d, e[2]),
      lib |-> Lib(d)] : e \in Content(d).links}

(* Connected components, numbered by their first name: comm-0, comm-1, ...  *)
(* A name's component are the names in every set closed under the links     *)
(* that holds it; a link to a name that is no entity joins nothing.         *)
Closed(d, S) == \A e \in Content(d).links :
    \A m, n \in {e[1], e[2]} \cap Content(d).names : m \in S => n \in S
Component(d, n) == {m \in Content(d).names :
    \A S \in SUBSET Content(d).names : n \in S /\ Closed(d, S) => m \in S}
CommunitiesOf(d) ==
    LET comps == {Component(d, n) : n \in Content(d).names}
    IN {[key |-> <<"comm", Cardinality({o \in comps : Min(o) < Min(c)})>>,
         members |-> c, lib |-> Lib(d)] : c \in comps}
DocCommunityOf(d) ==
    LET members == {n \in Content(d).names : Found(d, n) # {}}
    IN IF members = {} THEN {} ELSE {[key |-> <<"doc", d>>, members |-> members, lib |-> Lib(d)]}

(* Mutant: records of one key pile up. *)
UpsertAppending(new, old) == new \cup old
Upsert(new, old) == new \cup {r \in old : \A s \in new : s.key # r.key}
UpsertGraph(new, old) == Upsert(new, old)

----------------------------------------------------------------------------
(* Starting serve.                                                          *)

Nothing == [chunks |-> {}, ents |-> {}, rels |-> {}, comms |-> {}, cards |-> {}, key |-> <<>>]
NoVerdict == [author |-> Team, name |-> 0, target |-> {}, source |-> {}]
Init ==
    /\ backend \in Backends
    /\ corpus = [d \in Docs |-> 1]
    /\ chunks = {} /\ ents = {} /\ rels = {} /\ comms = {} /\ cards = {}
    /\ mirror = {} /\ hashes = [d \in Docs |-> 0] /\ sparse = {}
    /\ cache = Nothing /\ serve = "down" /\ left = {}
    /\ phase = [d \in Docs |-> "none"] /\ torn = {}
    /\ nodes = [d \in Docs |-> {}] /\ edges = [d \in Docs |-> {}]
    /\ verdict = NoVerdict /\ disclosed = {}
    /\ count = [starts |-> 0, edits |-> 0, deletes |-> 0, faults |-> 0, joins |-> 0]

Counted(what, max) == count[what] < max /\ count' = [count EXCEPT ![what] = @ + 1]

(* Mutant: a fingerprint that leaves the files out. *)
SeedKeyOfTeam == <<Team>>
SeedKey == [d \in Seeds |-> corpus[d]]

EditFile(d) ==
    /\ serve = "down" /\ count.starts > 0
    /\ Counted("edits", MaxEdits)
    /\ \E v \in DOMAIN Contents[d] : corpus' = [corpus EXCEPT ![d] = v]
    /\ UNCHANGED <<backend, stores, sparse, cache, serve, left, phase, nodes, edges, torn, review>>

(* In memory the stores begin empty and a cache of this corpus fills them;  *)
(* a cache of another one is put aside.  The profile cards and the BM25     *)
(* index are in memory with either backend.                                 *)
Start ==
    LET hit == backend = "memory" /\ cache # Nothing /\ cache.key = SeedKey
        seeded == IF hit THEN cache ELSE Nothing
    IN /\ serve = "down"
       /\ Counted("starts", MaxStarts)
       /\ serve' = IF hit THEN "up" ELSE "seeding"
       /\ left' = IF hit THEN {} ELSE Seeds
       /\ cache' = IF hit \/ backend = "db" THEN cache ELSE Nothing
       /\ cards' = seeded.cards /\ sparse' = seeded.chunks
       /\ phase' = [d \in Docs |-> IF d \in Seeds THEN "none" ELSE phase[d]]
       /\ nodes' = [d \in Docs |-> {}] /\ edges' = [d \in Docs |-> {}]
       /\ IF backend = "db"
          THEN UNCHANGED <<chunks, ents, rels, comms, mirror, hashes>>
          ELSE /\ chunks' = seeded.chunks /\ ents' = seeded.ents /\ rels' = seeded.rels
               /\ comms' = seeded.comms /\ mirror' = {} /\ hashes' = [d \in Docs |-> 0]
       /\ UNCHANGED <<backend, corpus, torn, review>>

----------------------------------------------------------------------------
(* Ingesting.                                                               *)

(* The steps of an ingest: the model's extraction and the embedding come    *)
(* before the chunks are stored.                                            *)
(* Mutant: the fingerprint is recorded first. *)
OrderHashFirst == <<"hash", "chunks", "mirror", "nodes", "derive", "cards">>
Order == <<"chunks", "mirror", "nodes", "hash", "derive", "cards">>
Running(d) == phase[d] \in {Order[i] : i \in DOMAIN Order}
Goto(d, p) == phase' = [phase EXCEPT ![d] = p]
Step(d, p) ==   \* step p of an ingest that goes on
    /\ phase[d] = p
    /\ LET i == CHOOSE k \in DOMAIN Order : Order[k] = p
       IN Goto(d, IF i = Len(Order) THEN "done" ELSE Order[i + 1])

Begin(d) ==
    /\ Goto(d, Order[1])
    /\ nodes' = [nodes EXCEPT ![d] = Content(d).names]
    /\ edges' = [edges EXCEPT ![d] = Content(d).links]
    /\ UNCHANGED <<backend, corpus, stores, sparse, cache, serve, left, torn, review, count>>

Upload(d) == serve = "up" /\ phase[d] = "none" /\ Begin(d)

(* Demo files go one after the other; one whose fingerprint is recorded is passed over. *)
NextSeed ==
    /\ serve = "seeding" /\ left # {} /\ phase[Min(left)] = "none"
    /\ IF hashes[Min(left)] = corpus[Min(left)]
       THEN /\ Goto(Min(left), "done")
            /\ UNCHANGED <<backend, corpus, stores, sparse, cache, serve, left, nodes, edges, torn, review, count>>
       ELSE Begin(Min(left))

StoreChunks(d) == chunks' = Upsert(ChunksOf(d), chunks)
StoreGraph(d) == ents' = UpsertGraph(EntitiesOf(d), ents) /\ rels' = UpsertGraph(RelationsOf(d), rels)
StoreComms(d) == comms' = Upsert(CommunitiesOf(d), comms)
RecordHash(d) == hashes' = [hashes EXCEPT ![d] = corpus[d]]
Derive(d) == comms' = Upsert(DocCommunityOf(d), comms)
StoreCards(d) == cards' = Upsert(EntitiesOf(d), cards)
Elsewhere == UNCHANGED <<backend, corpus, sparse, cache, serve, left, review, count>>

LoadAtOnce(d) ==
    /\ backend = "memory" /\ phase[d] = "chunks" /\ Goto(d, "derive")
    /\ StoreChunks(d) /\ StoreGraph(d) /\ StoreComms(d) /\ RecordHash(d)
    /\ UNCHANGED <<cards, mirror, nodes, edges, torn>> /\ Elsewhere
DeriveAtOnce(d) ==
    /\ backend = "memory" /\ phase[d] = "derive" /\ Goto(d, "done")
    /\ Derive(d) /\ StoreCards(d)
    /\ UNCHANGED <<chunks, ents, rels, mirror, hashes, nodes, edges, torn>> /\ Elsewhere

PutChunks(d) ==
    /\ Step(d, "chunks") /\ StoreChunks(d)
    /\ UNCHANGED <<ents, rels, comms, cards, mirror, hashes, nodes, edges, torn>>
PutMirror(d) ==
    /\ Step(d, "mirror")
    /\ mirror' = mirror \cup {<<e.key, e.lib>> : e \in EntitiesOf(d)}
    /\ UNCHANGED <<chunks, ents, rels, comms, cards, hashes, nodes, edges, torn>>
PutNode(d) ==
    /\ phase[d] = "nodes" /\ nodes[d] # {}
    /\ LET n == Min(nodes[d])
       IN /\ ents' = UpsertGraph({e \in EntitiesOf(d) : e.key = n}, ents)
          /\ nodes' = [nodes EXCEPT ![d] = @ \ {n}]
    /\ UNCHANGED <<phase, edges, chunks, rels, comms, cards, mirror, hashes, torn>>
PutEdge(d) ==   \* MATCH finds no row for a pair whose ends are not both there
    /\ phase[d] = "nodes" /\ nodes[d] = {}
    /\ \E e \in edges[d] :
          /\ rels' = UpsertGraph({r \in RelationsOf(d) : r.key = e /\
                         \A i \in {1, 2} : \E n \in ents : n.key = e[i]}, rels)
          /\ edges' = [edges EXCEPT ![d] = @ \ {e}]
    /\ UNCHANGED <<phase, nodes, chunks, ents, comms, cards, mirror, hashes, torn>>
PutComms(d) ==
    /\ nodes[d] = {} /\ edges[d] = {}
    /\ Step(d, "nodes") /\ StoreComms(d)
    /\ UNCHANGED <<chunks, ents, rels, cards, mirror, hashes, nodes, edges, torn>>
PutHash(d) ==
    /\ Step(d, "hash") /\ RecordHash(d) /\ torn' = torn \ {d}
    /\ UNCHANGED <<chunks, ents, rels, comms, cards, mirror, nodes, edges>>
PutDerived(d) ==
    /\ Step(d, "derive") /\ Derive(d)
    /\ UNCHANGED <<chunks, ents, rels, cards, mirror, hashes, nodes, edges, torn>>
PutCards(d) ==
    /\ Step(d, "cards") /\ StoreCards(d)
    /\ UNCHANGED <<chunks, ents, rels, comms, mirror, hashes, nodes, edges, torn>>
PutOne(d) ==
    /\ backend = "db"
    /\ \/ PutChunks(d) \/ PutMirror(d) \/ PutNode(d) \/ PutEdge(d)
       \/ PutComms(d) \/ PutHash(d) \/ PutDerived(d) \/ PutCards(d)
    /\ Elsewhere

(* After a demo file, in memory, its entity communities get names of their own. *)
SeedIngested(d) ==
    /\ serve = "seeding" /\ d \in left /\ phase[d] = "done"
    /\ left' = left \ {d}
    /\ comms' = IF backend = "db" THEN comms
                ELSE {IF c.key[1] = "comm" /\ Len(c.key) = 2
                      THEN [c EXCEPT !.key = Append(@, d)] ELSE c : c \in comms}
    /\ UNCHANGED <<backend, corpus, chunks, ents, rels, cards, mirror, hashes,
                   sparse, cache, serve, phase, nodes, edges, torn, review, count>>
(* On databases the stores made for seeding are dropped, the cards with them. *)
Listen ==
    /\ serve = "seeding" /\ left = {} /\ serve' = "up"
    /\ IF backend = "db" THEN cards' = {} /\ UNCHANGED <<sparse, cache>>
       ELSE /\ sparse' = chunks
            /\ cache' = [chunks |-> chunks, ents |-> ents, rels |-> rels, comms |-> comms,
                         cards |-> cards, key |-> SeedKey]
            /\ UNCHANGED cards
    /\ UNCHANGED <<backend, corpus, chunks, ents, rels, comms, mirror, hashes,
                   left, phase, nodes, edges, torn, review, count>>

HalfStored(d) == backend = "db" /\ phase[d] \in {"mirror", "nodes", "hash"}

(* An approval under way ends with the process. *)
Unreviewed == disclosed' = disclosed /\ verdict' = IF serve' = "up" THEN verdict ELSE NoVerdict

(* A model or a store call fails: an upload's job fails, the start of serve ends. *)
Fail(d) ==
    /\ Running(d) /\ Counted("faults", MaxFaults)
    /\ Goto(d, "failed")
    /\ serve' = IF d \in Seeds THEN "down" ELSE serve
    /\ torn' = torn \cup {e \in {d} : HalfStored(e)}
    /\ UNCHANGED <<backend, corpus, stores, sparse, cache, left, nodes, edges>> /\ Unreviewed

Stop ==
    /\ serve # "down" /\ count.starts < MaxStarts /\ serve' = "down"
    /\ phase' = [d \in Docs |-> IF Running(d) THEN "failed" ELSE phase[d]]
    /\ torn' = torn \cup {d \in Docs : HalfStored(d)}
    /\ UNCHANGED <<backend, corpus, stores, sparse, cache, left, nodes, edges, count>> /\ Unreviewed

(* Mutant: the graph is not pruned. *)
PruneNothing(records, gone) == records
Prune(records, gone) ==
    {[r EXCEPT !.from = @ \ gone] : r \in {o \in records : o.from \ gone # {}}}

(* Only the in-memory stores implement delete_by_doc.  Communities lose the *)
(* document's name, which no community made from one document holds.        *)
Delete(u, d) ==
    LET gone == {c.key : c \in {k \in chunks : Doc(k.key) = d /\ Sees(u, k.lib)}}
    IN /\ serve = "up" /\ gone # {}
       /\ Counted("deletes", MaxDeletes)
       /\ IF backend = "db" THEN UNCHANGED stores
          ELSE /\ chunks' = {c \in chunks : Doc(c.key) # d}
               /\ hashes' = [hashes EXCEPT ![d] = 0]
               /\ ents' = Prune(ents, gone) /\ rels' = Prune(rels, gone)
               /\ UNCHANGED <<comms, cards, mirror>>
       /\ UNCHANGED <<backend, corpus, sparse, cache, serve, left, phase, nodes, edges, torn, review>>

----------------------------------------------------------------------------
(* A member of the demo team approves an alignment pair of what another     *)
(* user has uploaded and contributed: the entity they named is read as that *)
(* user sees it, the target as the reviewer does, and the target is written *)
(* back with the evidence of both.  One call at a time; one that fails      *)
(* takes no further step.                                                   *)

(* Mutant: whoever asks. *)
EntityAny(u, n) == {e \in ents : e.key = n}
Entity(u, n) == {e \in ents : e.key = n /\ Sees(u, e.lib)}
Pairable(u, d, t, n) ==   \* target t and a name n that u, reviewing d's contribution, may be shown
    /\ serve = "up" /\ phase[d] = "done" /\ u \in Members \ {Uploader[d]}
    /\ Sees(u, t.lib) /\ n \in Content(d).names \ {t.key}
Join(t, s) ==
    /\ ents' = UpsertGraph({[t EXCEPT !.from = @ \cup s.from]}, ents)
    /\ disclosed' = disclosed \cup {<<k, t.lib>> : k \in s.from}
GraphOnly == UNCHANGED <<backend, corpus, chunks, rels, comms, cards, mirror, hashes,
                     sparse, cache, serve, left, phase, nodes, edges, torn>>

JoinAtOnce ==
    /\ backend = "memory" /\ Counted("joins", MaxJoins)
    /\ \E u \in Users, d \in Uploads, t \in ents : \E n \in Content(d).names :
          /\ Pairable(u, d, t, n)
          /\ \E s \in Entity(Uploader[d], n) : Join(t, s)
    /\ UNCHANGED verdict /\ GraphOnly

ReadTarget ==
    /\ backend = "db" /\ verdict = NoVerdict /\ Counted("joins", MaxJoins)
    /\ \E u \in Users, d \in Uploads, t \in ents : \E n \in Content(d).names :
          /\ Pairable(u, d, t, n)
          /\ verdict' = [author |-> Uploader[d], name |-> n, target |-> {t}, source |-> {}]
    /\ UNCHANGED <<ents, disclosed>> /\ GraphOnly
ReadSource ==   \* the pair is refused when the entity is gone
    /\ verdict # NoVerdict /\ verdict.source = {}
    /\ LET s == Entity(verdict.author, verdict.name)
       IN verdict' = IF s = {} THEN NoVerdict ELSE [verdict EXCEPT !.source = s]
    /\ UNCHANGED <<ents, disclosed, count>> /\ GraphOnly
PutPair ==
    /\ \E t \in verdict.target, s \in verdict.source : Join(t, s)
    /\ verdict' = NoVerdict
    /\ UNCHANGED count /\ GraphOnly

Next ==
    \/ Start \/ NextSeed \/ Listen \/ Stop
    \/ \E d \in Seeds : EditFile(d) \/ SeedIngested(d)
    \/ \E d \in Uploads : Upload(d)
    \/ \E d \in Docs : LoadAtOnce(d) \/ DeriveAtOnce(d) \/ PutOne(d) \/ Fail(d)
    \/ \E u \in Users, d \in Docs : Delete(u, d)
    \/ JoinAtOnce \/ ReadTarget \/ ReadSource \/ PutPair

Spec == Init /\ [][Next]_vars

----------------------------------------------------------------------------
(* Retrieval.  A graph or community search reads chunks by id, without      *)
(* asking who may see them.                                                 *)

Dense(u) == {c \in chunks : Sees(u, c.lib)}
Sparse(u) == {c \in sparse : Sees(u, c.lib)}

Touching(u, n) == IF Entity(u, n) = {} THEN {}
                  ELSE {r \in rels : n \in {r.key[1], r.key[2]} /\ Sees(u, r.lib)}
Neighbours(u, n) == UNION {Entity(u, m) : m \in UNION {{r.key[1], r.key[2]} \ {n} : r \in Touching(u, n)}}
Evidence(records) == UNION {r.from : r \in records}
ByIds(ids) == {c \in chunks : c.key \in ids}

(* Expansion of one name by Hops: every name met gives its own evidence,    *)
(* its visible relations' and its visible neighbours'.                      *)
Local(u, n) ==
    LET front[h \in Nat] == IF h = 0 THEN {n}
                            ELSE {e.key : e \in UNION {Neighbours(u, m) : m \in front[h - 1]}}
        met == UNION {front[h] : h \in 0..Hops}
    IN ByIds(UNION {Evidence(Entity(u, m) \cup Neighbours(u, m)) \cup Evidence(Touching(u, m)) : m \in met})
Global(u) ==
    ByIds(UNION {Evidence(Entity(u, n)) : n \in
        UNION {c.members : c \in {k \in comms : Sees(u, k.lib)}}})

----------------------------------------------------------------------------
OnePerKey(records) == \A r, s \in records : r.key = s.key => r = s

(* Types; every store holds one record for a key. *)
LibraryTypeOK ==
    /\ backend \in Backends /\ serve \in {"down", "seeding", "up"}
    /\ left \subseteq Seeds /\ hashes \in [Docs -> Nat]
    /\ \A c \in chunks \cup sparse : Doc(c.key) \in Docs /\ c.lib \in Users \cup {Team}
    /\ \A r \in ents \cup cards : r.key \in Nat /\ r.lib \in Users \cup {Team}
    /\ OnePerKey(chunks) /\ OnePerKey(ents) /\ OnePerKey(rels) /\ OnePerKey(comms) /\ OnePerKey(cards)

(* What a search returns to a user, the user may see, or a reviewer has had *)
(* it cited, by approving a pair, in a library they see.  Graph and         *)
(* community searches do not filter the chunks they end at: this rests on   *)
(* every record being as private as the text it cites, through ingests,     *)
(* demo files and caches, deletions and approvals that write back records   *)
(* read before.                                                             *)
DisclosedTo(u, c) == \E p \in disclosed : p[1] = c.key /\ Sees(u, p[2])
FoundBy(u) == Dense(u) \cup Sparse(u) \cup Global(u) \cup UNION {Local(u, e.key) : e \in ents}
RetrievalVisible == \A u \in Users : \A c \in FoundBy(u) : Sees(u, c.lib) \/ DisclosedTo(u, c)

(* The graph cites no chunk that is gone: after deletions, failures, and    *)
(* restarts every source_chunk_id of an entity or relation can be read.     *)
(* And nothing is in Neo4j that has no row in PostgreSQL, wherever an       *)
(* ingest was cut off.                                                      *)
EvidenceStored ==
    /\ Evidence(ents) \cup Evidence(rels) \subseteq {c.key : c \in chunks}
    /\ backend = "db" => \A e \in ents : <<e.key, e.lib>> \in mirror

(* A recorded fingerprint, which makes the next ingest pass the document    *)
(* over, means that its present text is stored whole, unless an ingest of   *)
(* another version was cut off since; on durable stores, where nothing is   *)
(* removed, its entities are there in any case.                             *)
HashMeansIngested ==
    \A d \in Docs : hashes[d] = corpus[d] =>
        /\ d \notin torn => ChunksOf(d) \subseteq chunks
        /\ backend = "db" => Content(d).names \subseteq {e.key : e \in ents}

(* When serve begins to listen, every demo file is there as it now reads,   *)
(* whatever cache, fingerprint or interrupted start it found, but for a     *)
(* file that was changed, torn and changed back; in memory there are none   *)
(* of these, and nothing of an earlier text is left.                        *)
SeedsCurrent ==
    [][serve # "up" /\ serve' = "up" =>
        /\ \A d \in Seeds \ torn : ChunksOf(d) \subseteq chunks'
        /\ backend = "memory" => chunks' = UNION {ChunksOf(d) : d \in Seeds}]_vars

(* P4.5-persistence-production.md: deleting a document keeps the entities   *)
(* it shares with others: one whose name a remaining chunk still holds.     *)
SharedEntityKept ==
    [][count'.deletes > count.deletes => \A e \in ents :
        (\E c \in chunks' : e.key \in Contents[Doc(c.key)][c.version].text[c.key[2]])
            => \E k \in ents' : k.key = e.key]_vars

----------------------------------------------------------------------------
(* An inductive invariant, for what is read, cited and passed over.         *)

Phases == {"none", "done", "failed"} \cup {Order[i] : i \in DOMAIN Order}
IngestsTyped ==
    /\ backend \in {"memory", "db"} /\ serve \in {"down", "seeding", "up"} /\ left \subseteq Seeds
    /\ corpus \in [Docs -> Nat] /\ \A d \in Docs : corpus[d] \in DOMAIN Contents[d]
    /\ hashes \in [Docs -> Nat] /\ phase \in [Docs -> Phases] /\ nodes \in [Docs -> SUBSET Nat]

(* A chunk belongs to its document's library, and a record cites only text  *)
(* of its own or what was disclosed to it, also in the BM25 index and in    *)
(* the cache.                                                               *)
Owned(texts) == \A c \in texts : c.lib = Lib(Doc(c.key))
Private(records, shown) ==
    \A r \in records : \A k \in r.from : Lib(Doc(k)) = r.lib \/ <<k, r.lib>> \in shown
RecordsPrivate ==
    /\ Owned(chunks) /\ Private(ents, disclosed) /\ Private(rels, disclosed)
    /\ Owned(cache.chunks) /\ Private(cache.ents, disclosed) /\ Private(cache.rels, disclosed)
    /\ Owned(sparse)

(* What is in the cache is whole: it cites its own chunks, and these are    *)
(* the demo files' at the versions its key names.                           *)
Keys(records) == {r.key : r \in records}
CacheWhole ==
    /\ Evidence(cache.ents) \cup Evidence(cache.rels) \subseteq Keys(cache.chunks)
    /\ cache # Nothing => cache.chunks = UNION {ChunksAt(d, cache.key[d]) : d \in Seeds}

(* Demo files are ingested one by one before serve listens, uploads after.  *)
IngestsInTurn ==
    /\ \A d \in Docs : Running(d) =>
          IF d \in Seeds THEN serve = "seeding" /\ d \in left /\ \A e \in left : d <= e ELSE serve = "up"
    /\ serve = "seeding" =>
          /\ \A d \in Seeds \ left : phase[d] = "done"
          /\ backend = "db" =>
                \A d \in Seeds : phase[d] \in {"derive", "cards", "done"} => hashes[d] = corpus[d]
          /\ backend = "memory" =>
                /\ \A d \in Seeds : phase[d] \notin {"derive", "done"} => hashes[d] = 0
                /\ chunks = UNION {ChunksOf(d) : d \in {e \in Seeds : phase[e] \in {"derive", "done"}}}

(* On durable stores an ingest finds there what its earlier steps stored.   *)
StepsStored ==
    backend = "db" => \A d \in Docs :
        /\ HalfStored(d) => ChunksOf(d) \subseteq chunks
        /\ phase[d] \in {"nodes", "hash"} => {<<n, Lib(d)>> : n \in Content(d).names} \subseteq mirror
        /\ phase[d] \in {"chunks", "mirror", "nodes"} => Content(d).names \ nodes[d] \subseteq Keys(ents)
        /\ phase[d] = "hash" => Content(d).names \subseteq Keys(ents)

(* A fingerprint tells what is stored, whatever the file says by now.       *)
HashesTell ==
    \A d \in Docs : hashes[d] # 0 =>
        /\ d \notin torn /\ ~HalfStored(d) => ChunksAt(d, hashes[d]) \subseteq chunks
        /\ backend = "db" => Contents[d][hashes[d]].names \subseteq Keys(ents)

LibraryIInv ==
    /\ IngestsTyped /\ RecordsPrivate /\ EvidenceStored /\ CacheWhole
    /\ IngestsInTurn /\ StepsStored /\ HashesTell

(* What an approval has read was stored and as private, and stays so until  *)
(* it writes: nothing is deleted on databases.                              *)
VerdictIInv ==
    verdict # NoVerdict =>
        /\ backend = "db" /\ serve = "up"
        /\ Evidence(verdict.target) \cup Evidence(verdict.source) \subseteq Keys(chunks)
        /\ \A t \in verdict.target : <<t.key, t.lib>> \in mirror
        /\ Private(verdict.target, disclosed)
=============================================================================
