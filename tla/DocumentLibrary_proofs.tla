------------------------- MODULE DocumentLibrary_proofs -------------------------
(***************************************************************************)
(* For any documents, users and contents, on both kinds of stores and with *)
(* any number of restarts, edits, deletions and failures: a search returns *)
(* nothing its user may not see, what the graph cites can be read, a       *)
(* fingerprint or a cache is never taken for text that is not there, and a *)
(* store holds one record for a key.                                       *)
(***************************************************************************)
EXTENDS DocumentLibrary, NumberLemmas

----------------------------------------------------------------------------
(* What the operators of the stores return.                                 *)

LEMMA UpsertIn ==
    ASSUME NEW new, NEW old
    PROVE  /\ new \subseteq Upsert(new, old) /\ Upsert(new, old) \subseteq new \cup old
           /\ UpsertGraph(new, old) = Upsert(new, old)
  BY DEF Upsert, UpsertGraph

LEMMA UpsertKeys ==
    ASSUME NEW new, NEW old
    PROVE  Keys(Upsert(new, old)) = Keys(new) \cup Keys(old)
  <1>1. ASSUME NEW r \in old PROVE r.key \in Keys(Upsert(new, old))
    <2>1. CASE \E s \in new : s.key = r.key
      BY <2>1, UpsertIn DEF Keys
    <2>2. CASE \A s \in new : s.key # r.key
      BY <2>2 DEF Keys, Upsert
    <2> QED BY <2>1, <2>2
  <1> QED BY <1>1, UpsertIn DEF Keys

LEMMA UpsertOwned ==
    ASSUME NEW new, NEW old, Owned(new), Owned(old)
    PROVE  Owned(Upsert(new, old))
  BY UpsertIn DEF Owned

LEMMA UpsertPrivate ==
    ASSUME NEW new, NEW old, NEW shown, Private(new, shown), Private(old, shown)
    PROVE  Private(UpsertGraph(new, old), shown)
  BY UpsertIn DEF Private

LEMMA UpsertCites ==
    ASSUME NEW new, NEW old, NEW keys, Evidence(new) \subseteq keys, Evidence(old) \subseteq keys
    PROVE  Evidence(UpsertGraph(new, old)) \subseteq keys
  BY UpsertIn DEF Evidence

LEMMA ChunksOwned ==
    ASSUME NEW d, NEW v
    PROVE  /\ Owned(ChunksAt(d, v))
           /\ \A c \in ChunksAt(d, v) : Doc(c.key) = d
           /\ Keys(ChunksAt(d, v)) = {<<d, i>> : i \in DOMAIN Contents[d][v].text}
  <1>1. \A c \in ChunksAt(d, v) : \E i \in DOMAIN Contents[d][v].text : c.key = <<d, i>> /\ c.lib = Lib(d)
    BY DEF ChunksAt
  <1>2. \A i \in DOMAIN Contents[d][v].text : \E c \in ChunksAt(d, v) : c.key = <<d, i>>
    <2> TAKE i \in DOMAIN Contents[d][v].text
    <2> DEFINE c == [key |-> <<d, i>>, version |-> v, lib |-> Lib(d)]
    <2>1. c \in ChunksAt(d, v)
      BY DEF ChunksAt
    <2>2. c.key = <<d, i>>
      OBVIOUS
    <2> QED BY <2>1, <2>2
  <1>3. \A c \in ChunksAt(d, v) : Doc(c.key) = d /\ c.lib = Lib(d)
    BY <1>1 DEF Doc
  <1>4. Owned(ChunksAt(d, v))
    BY <1>3 DEF Owned
  <1>5. Keys(ChunksAt(d, v)) = {<<d, i>> : i \in DOMAIN Contents[d][v].text}
    BY <1>1, <1>2 DEF Keys
  <1> QED BY <1>3, <1>4, <1>5

LEMMA FoundInChunks ==
    ASSUME NEW d, NEW n
    PROVE  Found(d, n) \subseteq Keys(ChunksOf(d)) /\ \A k \in Found(d, n) : Doc(k) = d
  BY ChunksOwned DEF Found, ChunksOf, Content, Doc

LEMMA GraphCitesItsText ==
    ASSUME NEW d
    PROVE  /\ \A shown : Private(EntitiesOf(d), shown) /\ Private(RelationsOf(d), shown)
           /\ Evidence(EntitiesOf(d)) \cup Evidence(RelationsOf(d)) \subseteq Keys(ChunksOf(d))
           /\ Keys(EntitiesOf(d)) = Content(d).names
  <1>1. \A r \in EntitiesOf(d) : \E n \in Content(d).names : r.key = n /\ r.from = Found(d, n) /\ r.lib = Lib(d)
    BY DEF EntitiesOf
  <1>2. \A r \in RelationsOf(d) : r.lib = Lib(d) /\ \E n : r.from = Found(d, n)
    <2> SUFFICES ASSUME NEW e \in Content(d).links,
                        NEW r, r = [key |-> e, from |-> IF Found(d, e[1]) # {} THEN Found(d, e[1]) ELSE Found(d, e[2]),
                                    lib |-> Lib(d)]
                 PROVE  r.lib = Lib(d) /\ \E n : r.from = Found(d, n)
      BY DEF RelationsOf
    <2>1. r.lib = Lib(d) /\ (r.from = Found(d, e[1]) \/ r.from = Found(d, e[2]))
      OBVIOUS
    <2> QED BY <2>1
  <1>3. \A n \in Content(d).names : \E r \in EntitiesOf(d) : r.key = n
    <2> TAKE n \in Content(d).names
    <2> DEFINE r == [key |-> n, from |-> Found(d, n), lib |-> Lib(d)]
    <2>1. r \in EntitiesOf(d)
      BY DEF EntitiesOf
    <2>2. r.key = n
      OBVIOUS
    <2> QED BY <2>1, <2>2
  <1>4. \A shown : Private(EntitiesOf(d), shown) /\ Private(RelationsOf(d), shown)
    BY <1>1, <1>2, FoundInChunks DEF Private
  <1>5. Evidence(EntitiesOf(d)) \cup Evidence(RelationsOf(d)) \subseteq Keys(ChunksOf(d))
    BY <1>1, <1>2, FoundInChunks DEF Evidence
  <1>6. Keys(EntitiesOf(d)) = Content(d).names
    BY <1>1, <1>3 DEF Keys
  <1> QED BY <1>4, <1>5, <1>6

LEMMA PrivateParts ==
    ASSUME NEW records, NEW part, NEW shown, part \subseteq records, Private(records, shown)
    PROVE  Private(part, shown)
  BY DEF Private

LEMMA PruneFits ==
    ASSUME NEW records, NEW gone, NEW keys, NEW shown, Private(records, shown), Evidence(records) \subseteq keys
    PROVE  Private(Prune(records, gone), shown) /\ Evidence(Prune(records, gone)) \subseteq keys \ gone
  <1> SUFFICES ASSUME NEW o \in records, NEW r, r = [o EXCEPT !.from = @ \ gone], o.from \ gone # {}
               PROVE  (\A k \in r.from : Lib(Doc(k)) = r.lib \/ <<k, r.lib>> \in shown) /\ r.from \subseteq keys \ gone
    BY DEF Prune, Private, Evidence
  <1>1. r.from = o.from \ gone /\ r.lib = o.lib
    OBVIOUS
  <1> QED BY <1>1 DEF Private, Evidence

(* The chunks of one document are never overwritten by another's.           *)
LEMMA OthersKept ==
    ASSUME NEW d, NEW e, NEW v, NEW w, d # e, NEW texts, ChunksAt(e, v) \subseteq texts
    PROVE  ChunksAt(e, v) \subseteq Upsert(ChunksAt(d, w), texts)
  BY ChunksOwned DEF Upsert

(* The order of the steps.                                                  *)
LEMMA Names ==
    /\ DOMAIN Order = 1 .. 6 /\ Order[1] = "chunks" /\ Order[2] = "mirror" /\ Order[3] = "nodes"
    /\ Order[4] = "hash" /\ Order[5] = "derive" /\ Order[6] = "cards"
    /\ {Order[i] : i \in DOMAIN Order} = {"chunks", "mirror", "nodes", "hash", "derive", "cards"}
    /\ Phases = {"none", "done", "failed", "chunks", "mirror", "nodes", "hash", "derive", "cards"}
  <1>1. /\ DOMAIN Order = 1 .. 6 /\ Order[1] = "chunks" /\ Order[2] = "mirror" /\ Order[3] = "nodes"
        /\ Order[4] = "hash" /\ Order[5] = "derive" /\ Order[6] = "cards"
    BY DEF Order
  <1>2. 1 .. 6 = {1, 2, 3, 4, 5, 6}
    OBVIOUS
  <1>3. {Order[i] : i \in DOMAIN Order} = {"chunks", "mirror", "nodes", "hash", "derive", "cards"}
    BY <1>1, <1>2
  <1> QED BY <1>1, <1>3 DEF Phases

After(p) == CASE p = "chunks" -> "mirror" [] p = "mirror" -> "nodes" [] p = "nodes" -> "hash"
              [] p = "hash" -> "derive" [] p = "derive" -> "cards" [] p = "cards" -> "done"
LEMMA StepTo ==
    ASSUME NEW d, NEW p \in {Order[i] : i \in DOMAIN Order}, Step(d, p)
    PROVE  phase[d] = p /\ Goto(d, After(p))
  <1> DEFINE i == CHOOSE k \in DOMAIN Order : Order[k] = p
  <1>1. i \in DOMAIN Order /\ Order[i] = p
    OBVIOUS
  <1>2. i \in {1, 2, 3, 4, 5, 6}
    BY <1>1, Names
  <1>3. phase[d] = p /\ Goto(d, IF i = Len(Order) THEN "done" ELSE Order[i + 1])
    BY DEF Step
  <1>4. Len(Order) = 6
    BY DEF Order
  <1> HIDE DEF i
  <1>5. (IF i = Len(Order) THEN "done" ELSE Order[i + 1]) = After(p)
    BY <1>1, <1>2, <1>4, Names DEF After
  <1> QED BY <1>3, <1>5

----------------------------------------------------------------------------
(* The parts of the invariant that are about one document.                  *)
StoredFor(d) ==
    /\ HalfStored(d) => ChunksOf(d) \subseteq chunks
    /\ phase[d] \in {"nodes", "hash"} => {<<n, Lib(d)>> : n \in Content(d).names} \subseteq mirror
    /\ phase[d] \in {"chunks", "mirror", "nodes"} => Content(d).names \ nodes[d] \subseteq Keys(ents)
    /\ phase[d] = "hash" => Content(d).names \subseteq Keys(ents)
TellsOf(d) ==
    hashes[d] # 0 =>
        /\ d \notin torn /\ ~HalfStored(d) => ChunksAt(d, hashes[d]) \subseteq chunks
        /\ backend = "db" => Contents[d][hashes[d]].names \subseteq Keys(ents)
InTurn(d) == Running(d) =>
    IF d \in Seeds THEN serve = "seeding" /\ d \in left /\ \A e \in left : d <= e ELSE serve = "up"

LEMMA ByDocument ==
    /\ StepsStored <=> (backend = "db" => \A d \in Docs : StoredFor(d))
    /\ HashesTell <=> \A d \in Docs : TellsOf(d)
  BY DEF StepsStored, StoredFor, HashesTell, TellsOf

LEMMA Known ==
    ASSUME LibraryIInv
    PROVE  /\ backend \in {"memory", "db"} /\ serve \in {"down", "seeding", "up"} /\ left \subseteq Seeds
           /\ corpus \in [Docs -> Nat] /\ hashes \in [Docs -> Nat] /\ phase \in [Docs -> Phases]
           /\ nodes \in [Docs -> SUBSET Nat]
           /\ \A d \in Docs : corpus[d] \in DOMAIN Contents[d]
           /\ \A d \in Docs : corpus[d] # 0 /\ Content(d).names \subseteq Nat
           /\ Owned(chunks) /\ Private(ents, disclosed) /\ Private(rels, disclosed) /\ Owned(sparse)
           /\ Owned(cache.chunks) /\ Private(cache.ents, disclosed) /\ Private(cache.rels, disclosed)
           /\ Evidence(ents) \subseteq Keys(chunks) /\ Evidence(rels) \subseteq Keys(chunks)
           /\ backend = "db" => \A e \in ents : <<e.key, e.lib>> \in mirror
           /\ \A d \in Docs : TellsOf(d) /\ InTurn(d)
           /\ backend = "db" => \A d \in Docs : StoredFor(d)
           /\ IngestsInTurn /\ CacheWhole
  <1>1. \A d \in Docs : corpus[d] \in DOMAIN Contents[d]
    BY DEF LibraryIInv, IngestsTyped
  <1>2. \A d \in Docs : corpus[d] # 0 /\ Content(d).names \subseteq Nat
    BY <1>1, LibraryAssumption DEF LibraryAssumption, Content
  <1>3. \A d \in Docs : InTurn(d)
    BY DEF LibraryIInv, IngestsInTurn, InTurn
  <1>4. Evidence(ents) \subseteq Keys(chunks) /\ Evidence(rels) \subseteq Keys(chunks)
    BY DEF LibraryIInv, EvidenceStored, Keys
  <1> QED BY <1>1, <1>2, <1>3, <1>4, ByDocument DEF LibraryIInv, IngestsTyped, RecordsPrivate, EvidenceStored

LEMMA DocsAreNumbers == Docs \subseteq Nat /\ Seeds \subseteq Docs /\ Uploads \subseteq Docs /\ Seeds \cap Uploads = {}
  BY LibraryAssumption DEF LibraryAssumption, Docs

LEMMA Seeding ==
    ASSUME LibraryIInv, serve = "seeding"
    PROVE  /\ \A d \in Seeds \ left : phase[d] = "done"
           /\ backend = "db" =>
                \A d \in Seeds : phase[d] \in {"derive", "cards", "done"} => hashes[d] = corpus[d]
           /\ backend = "memory" =>
                /\ \A d \in Seeds : phase[d] \notin {"derive", "done"} => hashes[d] = 0
                /\ chunks = UNION {ChunksOf(d) : d \in {e \in Seeds : phase[e] \in {"derive", "done"}}}
  BY DEF LibraryIInv, IngestsInTurn

(* What is derived from a document depends on nothing else that changes.    *)
LEMMA SameText ==
    ASSUME NEW d, corpus' = corpus
    PROVE  /\ ChunksOf(d)' = ChunksOf(d) /\ Content(d)' = Content(d)
           /\ EntitiesOf(d)' = EntitiesOf(d) /\ RelationsOf(d)' = RelationsOf(d)
  BY DEF ChunksOf, ChunksAt, Content, EntitiesOf, RelationsOf, Found

(* A step of one document's ingest on durable stores.                       *)
Aside(d) ==
    /\ backend = "db" /\ Elsewhere
    /\ \A e \in Docs \ {d} :
          /\ phase'[e] = phase[e] /\ nodes'[e] = nodes[e] /\ hashes'[e] = hashes[e]
          /\ (e \in torn') <=> (e \in torn)
          /\ \A v : ChunksAt(e, v) \subseteq chunks => ChunksAt(e, v) \subseteq chunks'
    /\ Keys(ents) \subseteq Keys(ents') /\ mirror \subseteq mirror'
Typed(d) == phase' \in [Docs -> Phases] /\ nodes' \in [Docs -> SUBSET Nat] /\ hashes' \in [Docs -> Nat]
LEMMA OneIngest ==
    ASSUME LibraryIInv, NEW d \in Docs, Running(d), Aside(d), Typed(d),
           Owned(chunks'), Private(ents', disclosed), Private(rels', disclosed),
           Evidence(ents') \subseteq Keys(chunks'), Evidence(rels') \subseteq Keys(chunks'),
           \A e \in ents' : <<e.key, e.lib>> \in mirror',
           StoredFor(d)', TellsOf(d)',
           serve = "seeding" /\ d \in Seeds /\ phase'[d] \in {"derive", "cards", "done"} => hashes'[d] = corpus[d]
    PROVE  LibraryIInv'
  <1> USE DEF Aside, Elsewhere, review
  <1>1. IngestsTyped'
    BY Known DEF IngestsTyped, Typed, Content
  <1>2. RecordsPrivate'
    BY Known DEF RecordsPrivate
  <1>3. EvidenceStored'
    BY DEF EvidenceStored, Keys
  <1>4. CacheWhole'
    BY DEF LibraryIInv, CacheWhole, Evidence, Keys
  <1>5. IngestsInTurn'
    <2>1. \A e \in Docs : Running(e)' => Running(e)
      <3> TAKE e \in Docs
      <3>1. CASE e = d
        BY <3>1
      <3>2. CASE e # d
        BY <3>2 DEF Running
      <3> QED BY <3>1, <3>2
    <2>2. \A e \in Docs : InTurn(e)'
      BY <2>1, Known DEF InTurn
    <2>3. serve = "seeding" => \A e \in Seeds \ left : e # d
      BY Known, DocsAreNumbers DEF InTurn
    <2>4. serve = "seeding" /\ d \in Seeds => d \in left
      BY <2>3
    <2>5. ASSUME serve = "seeding" PROVE \A e \in Seeds \ left : phase'[e] = "done"
      BY <2>3, <2>5, DocsAreNumbers, Seeding
    <2>6. ASSUME serve = "seeding", NEW e \in Seeds, phase'[e] \in {"derive", "cards", "done"}
          PROVE  hashes'[e] = corpus[e]
      BY <2>6, DocsAreNumbers, Seeding
    <2> QED BY <2>2, <2>5, <2>6 DEF IngestsInTurn, InTurn
  <1>6. StepsStored'
    <2>1. ASSUME NEW e \in Docs \ {d} PROVE StoredFor(e)'
      <3>1. ChunksOf(e) \subseteq chunks => ChunksOf(e) \subseteq chunks'
        BY DEF ChunksOf
      <3>2. HalfStored(e)' <=> HalfStored(e)
        BY DEF HalfStored
      <3>3. StoredFor(e)
        BY Known
      <3> QED BY <3>1, <3>2, <3>3, SameText DEF StoredFor
    <2> QED BY <2>1 DEF StepsStored, StoredFor
  <1>7. HashesTell'
    <2>1. ASSUME NEW e \in Docs \ {d} PROVE TellsOf(e)'
      <3>1. ChunksAt(e, hashes[e]) \subseteq chunks => ChunksAt(e, hashes[e]) \subseteq chunks'
        OBVIOUS
      <3>2. HalfStored(e)' <=> HalfStored(e)
        BY DEF HalfStored
      <3>3. TellsOf(e)
        BY Known
      <3> QED BY <3>1, <3>2, <3>3 DEF TellsOf, ChunksAt
    <2> QED BY <2>1 DEF HashesTell, TellsOf
  <1> QED BY <1>1, <1>2, <1>3, <1>4, <1>5, <1>6, <1>7 DEF LibraryIInv

----------------------------------------------------------------------------
(* One lemma per step of an ingest on durable stores.                       *)

(* What a step that goes on does to the phases.                             *)
LEMMA StepTypes ==
    ASSUME LibraryIInv, NEW d \in Docs, NEW p \in {Order[i] : i \in DOMAIN Order}, Step(d, p)
    PROVE  /\ Running(d) /\ phase[d] = p /\ phase' \in [Docs -> Phases] /\ phase'[d] = After(p)
           /\ \A e \in Docs \ {d} : phase'[e] = phase[e]
  <1>1. phase[d] = p /\ Goto(d, After(p))
    BY StepTo
  <1>2. After(p) \in Phases
    BY Names DEF After
  <1>3. phase \in [Docs -> Phases]
    BY Known
  <1> HIDE DEF After
  <1> QED BY <1>1, <1>2, <1>3 DEF Goto, Running

(* The facts about the stores every step starts from.                       *)
LEMMA StoresKnown ==
    ASSUME LibraryIInv, backend = "db", NEW d \in Docs
    PROVE  /\ Owned(chunks) /\ Private(ents, disclosed) /\ Private(rels, disclosed)
           /\ Evidence(ents) \subseteq Keys(chunks) /\ Evidence(rels) \subseteq Keys(chunks)
           /\ \A e \in ents : <<e.key, e.lib>> \in mirror
           /\ nodes \in [Docs -> SUBSET Nat] /\ hashes \in [Docs -> Nat] /\ corpus \in [Docs -> Nat]
           /\ StoredFor(d) /\ TellsOf(d)
  BY Known

LEMMA PutChunksKeeps ==
    ASSUME LibraryIInv, NEW d \in Docs, backend = "db", PutChunks(d), Elsewhere
    PROVE  LibraryIInv'
  <1>1. /\ Running(d) /\ phase[d] = "chunks" /\ phase' \in [Docs -> Phases] /\ phase'[d] = "mirror"
        /\ \A e \in Docs \ {d} : phase'[e] = phase[e]
    BY StepTypes, Names DEF PutChunks, After
  <1>2. /\ chunks' = Upsert(ChunksOf(d), chunks) /\ backend' = "db" /\ corpus' = corpus
        /\ UNCHANGED <<ents, rels, comms, cards, mirror, hashes, nodes, torn>> /\ disclosed' = disclosed
    BY DEF PutChunks, StoreChunks, Elsewhere, review
  <1>3. Owned(chunks') /\ ChunksOf(d) \subseteq chunks' /\ Keys(chunks) \subseteq Keys(chunks')
    BY <1>2, StoresKnown, UpsertOwned, UpsertIn, UpsertKeys, ChunksOwned DEF ChunksOf
  <1>4. Private(ents', disclosed) /\ Private(rels', disclosed) /\ Evidence(ents') \subseteq Keys(chunks')
        /\ Evidence(rels') \subseteq Keys(chunks') /\ \A e \in ents' : <<e.key, e.lib>> \in mirror'
    BY <1>2, <1>3, StoresKnown
  <1>5. Typed(d)
    BY <1>1, <1>2, StoresKnown DEF Typed
  <1>6. Aside(d)
    <2>1. ASSUME NEW e \in Docs \ {d}, NEW v, ChunksAt(e, v) \subseteq chunks PROVE ChunksAt(e, v) \subseteq chunks'
      BY <1>2, <2>1, OthersKept DEF ChunksOf
    <2>2. Keys(ents) \subseteq Keys(ents')
      BY <1>2 DEF Keys
    <2> QED BY <1>1, <1>2, <2>1, <2>2 DEF Aside
  <1>7. StoredFor(d)'
    <2>1. Content(d).names \ nodes'[d] \subseteq Keys(ents')
      BY <1>1, <1>2, StoresKnown DEF StoredFor, Keys
    <2> QED BY <1>1, <1>2, <1>3, <2>1, SameText DEF StoredFor, HalfStored
  <1>8. TellsOf(d)'
    BY <1>1, <1>2, StoresKnown DEF TellsOf, HalfStored, Keys
  <1> QED BY <1>1, <1>3, <1>4, <1>5, <1>6, <1>7, <1>8, OneIngest

LEMMA PutMirrorKeeps ==
    ASSUME LibraryIInv, NEW d \in Docs, backend = "db", PutMirror(d), Elsewhere
    PROVE  LibraryIInv'
  <1>1. /\ Running(d) /\ phase[d] = "mirror" /\ phase' \in [Docs -> Phases] /\ phase'[d] = "nodes"
        /\ \A e \in Docs \ {d} : phase'[e] = phase[e]
    BY StepTypes, Names DEF PutMirror, After
  <1>2. /\ mirror' = mirror \cup {<<e.key, e.lib>> : e \in EntitiesOf(d)} /\ backend' = "db" /\ corpus' = corpus
        /\ UNCHANGED <<chunks, ents, rels, comms, cards, hashes, nodes, torn>> /\ disclosed' = disclosed
    BY DEF PutMirror, Elsewhere, review
  <1>3. {<<n, Lib(d)>> : n \in Content(d).names} \subseteq mirror'
    <2> SUFFICES ASSUME NEW n \in Content(d).names PROVE <<n, Lib(d)>> \in mirror'
      OBVIOUS
    <2> DEFINE e == [key |-> n, from |-> Found(d, n), lib |-> Lib(d)]
    <2>1. e \in EntitiesOf(d) /\ e.key = n /\ e.lib = Lib(d)
      BY DEF EntitiesOf
    <2> HIDE DEF e
    <2> QED BY <1>2, <2>1
  <1>4. Owned(chunks') /\ Private(ents', disclosed) /\ Private(rels', disclosed) /\ Evidence(ents') \subseteq Keys(chunks')
        /\ Evidence(rels') \subseteq Keys(chunks') /\ \A e \in ents' : <<e.key, e.lib>> \in mirror'
    BY <1>2, StoresKnown
  <1>5. Typed(d)
    BY <1>1, <1>2, StoresKnown DEF Typed
  <1>6. Aside(d)
    BY <1>1, <1>2 DEF Aside
  <1>7. StoredFor(d)'
    BY <1>1, <1>2, <1>3, StoresKnown, SameText DEF StoredFor, HalfStored
  <1>8. TellsOf(d)'
    BY <1>1, <1>2, StoresKnown DEF TellsOf, HalfStored, Keys
  <1> QED BY <1>1, <1>4, <1>5, <1>6, <1>7, <1>8, OneIngest

LEMMA PutNodeKeeps ==
    ASSUME LibraryIInv, NEW d \in Docs, backend = "db", PutNode(d), Elsewhere
    PROVE  LibraryIInv'
  <1> DEFINE n == Min(nodes[d])
             new == {e \in EntitiesOf(d) : e.key = n}
  <1>1. /\ phase[d] = "nodes" /\ ents' = UpsertGraph(new, ents) /\ nodes' = [nodes EXCEPT ![d] = @ \ {n}]
        /\ UNCHANGED <<phase, chunks, rels, comms, cards, mirror, hashes, torn>> /\ backend' = "db" /\ corpus' = corpus
        /\ disclosed' = disclosed
    BY DEF PutNode, Elsewhere, review
  <1> HIDE DEF n
  <1>2. Running(d)
    BY <1>1, Names DEF Running
  <1>3. new \subseteq EntitiesOf(d) /\ Keys(new) = Content(d).names \cap {n}
    <2>1. Keys(new) = Keys(EntitiesOf(d)) \cap {n}
      BY DEF Keys
    <2> QED BY <2>1, GraphCitesItsText
  <1>4. Keys(ents') = Keys(ents) \cup (Content(d).names \cap {n})
    BY <1>1, <1>3, UpsertIn, UpsertKeys
  <1>5. ChunksOf(d) \subseteq chunks
    BY <1>1, StoresKnown DEF StoredFor, HalfStored
  <1>6. Keys(ChunksOf(d)) \subseteq Keys(chunks)
    BY <1>5 DEF Keys
  <1>7. Private(ents', disclosed)
    BY <1>1, <1>3, StoresKnown, GraphCitesItsText, PrivateParts, UpsertPrivate
  <1>8. Evidence(ents') \subseteq Keys(chunks')
    <2>1. Evidence(new) \subseteq Keys(chunks)
      BY <1>3, <1>6, GraphCitesItsText DEF Evidence
    <2> QED BY <1>1, <2>1, StoresKnown, UpsertCites
  <1>9. \A e \in ents' : <<e.key, e.lib>> \in mirror'
    <2>1. ASSUME NEW e \in EntitiesOf(d) PROVE <<e.key, e.lib>> \in mirror
      <3>1. e.key \in Content(d).names /\ e.lib = Lib(d)
        BY DEF EntitiesOf
      <3>2. {<<m, Lib(d)>> : m \in Content(d).names} \subseteq mirror
        BY <1>1, StoresKnown DEF StoredFor
      <3> QED BY <3>1, <3>2
    <2>2. ents' \subseteq new \cup ents
      BY <1>1, UpsertIn
    <2>3. \A e \in ents : <<e.key, e.lib>> \in mirror
      BY StoresKnown
    <2> QED BY <1>1, <2>1, <2>2, <2>3
  <1>10. nodes' \in [Docs -> SUBSET Nat] /\ nodes'[d] = nodes[d] \ {n} /\ \A e \in Docs \ {d} : nodes'[e] = nodes[e]
    BY <1>1, StoresKnown
  <1>11. Typed(d)
    BY <1>1, <1>10, Known DEF Typed
  <1>12. Aside(d)
    BY <1>1, <1>4, <1>10 DEF Aside
  <1>13. StoredFor(d)'
    <2>1. Content(d).names \ nodes[d] \subseteq Keys(ents)
      BY <1>1, StoresKnown DEF StoredFor
    <2>2. Content(d).names \ nodes'[d] \subseteq Keys(ents')
      BY <1>4, <1>10, <2>1
    <2> QED BY <1>1, <1>5, <2>2, StoresKnown, SameText DEF StoredFor, HalfStored
  <1>14. TellsOf(d)'
    BY <1>1, <1>4, StoresKnown DEF TellsOf, HalfStored
  <1>15. Owned(chunks') /\ Private(rels', disclosed) /\ Evidence(rels') \subseteq Keys(chunks')
    BY <1>1, StoresKnown
  <1> QED BY <1>1, <1>2, <1>7, <1>8, <1>9, <1>11, <1>12, <1>13, <1>14, <1>15, OneIngest

LEMMA PutEdgeKeeps ==
    ASSUME LibraryIInv, NEW d \in Docs, backend = "db", PutEdge(d), Elsewhere
    PROVE  LibraryIInv'
  <1>1. /\ Running(d) /\ phase[d] = "nodes" /\ phase' = phase /\ phase' \in [Docs -> Phases]
        /\ nodes[d] = {}
    BY Names, Known DEF PutEdge, Running
  <1>2. PICK l \in edges[d] :
          rels' = UpsertGraph({r \in RelationsOf(d) : r.key = l /\
                      \A i \in {1, 2} : \E n \in ents : n.key = l[i]}, rels)
    BY DEF PutEdge
  <1> DEFINE new == {r \in RelationsOf(d) : r.key = l /\ \A i \in {1, 2} : \E n \in ents : n.key = l[i]}
  <1>3. new \subseteq RelationsOf(d) /\ rels' = UpsertGraph(new, rels)
    BY <1>2
  <1>13. /\ backend' = "db" /\ corpus' = corpus /\ disclosed' = disclosed
         /\ UNCHANGED <<chunks, ents, comms, cards, mirror, hashes, nodes, torn>>
    BY DEF PutEdge, Elsewhere, review
  <1> HIDE DEF new
  <1>4. ChunksOf(d) \subseteq chunks
    BY <1>1, StoresKnown DEF StoredFor, HalfStored
  <1>5. Keys(ChunksOf(d)) \subseteq Keys(chunks)
    BY <1>4 DEF Keys
  <1>6. Private(rels', disclosed)
    BY <1>3, StoresKnown, GraphCitesItsText, PrivateParts, UpsertPrivate
  <1>7. Evidence(rels') \subseteq Keys(chunks')
    <2>1. Evidence(new) \subseteq Keys(chunks)
      BY <1>3, <1>5, GraphCitesItsText DEF Evidence
    <2> QED BY <1>3, <1>13, <2>1, StoresKnown, UpsertCites
  <1>8. Owned(chunks') /\ Private(ents', disclosed) /\ Evidence(ents') \subseteq Keys(chunks')
        /\ \A e \in ents' : <<e.key, e.lib>> \in mirror'
    BY <1>13, StoresKnown
  <1>9. Typed(d)
    BY <1>1, <1>13, StoresKnown DEF Typed
  <1>10. Aside(d)
    BY <1>1, <1>13 DEF Aside
  <1>11. StoredFor(d)'
    <2>1. Content(d).names \subseteq Keys(ents)
      BY <1>1, StoresKnown DEF StoredFor
    <2>2. {<<m, Lib(d)>> : m \in Content(d).names} \subseteq mirror
      BY <1>1, StoresKnown DEF StoredFor
    <2> QED BY <1>1, <1>4, <1>13, <2>1, <2>2, SameText DEF StoredFor, HalfStored
  <1>12. TellsOf(d)'
    BY <1>1, <1>13, StoresKnown DEF TellsOf, HalfStored
  <1> QED BY <1>1, <1>6, <1>7, <1>8, <1>9, <1>10, <1>11, <1>12, <1>13, OneIngest

(* The community steps, and the profile cards, are beside the evidence.     *)
LEMMA PutBesideKeeps ==
    ASSUME LibraryIInv, NEW d \in Docs, backend = "db", PutComms(d) \/ PutDerived(d) \/ PutCards(d), Elsewhere
    PROVE  LibraryIInv'
  <1>1. /\ Running(d) /\ phase' \in [Docs -> Phases]
        /\ \/ phase[d] = "nodes" /\ phase'[d] = "hash" /\ nodes[d] = {}
           \/ phase[d] = "derive" /\ phase'[d] = "cards"
           \/ phase[d] = "cards" /\ phase'[d] = "done"
        /\ \A e \in Docs \ {d} : phase'[e] = phase[e]
    <2>1. CASE PutComms(d)
      BY <2>1, StepTypes, Names DEF PutComms, After
    <2>2. CASE PutDerived(d)
      BY <2>2, StepTypes, Names DEF PutDerived, After
    <2>3. CASE PutCards(d)
      BY <2>3, StepTypes, Names DEF PutCards, After
    <2> QED BY <2>1, <2>2, <2>3
  <1>2. /\ backend' = "db" /\ corpus' = corpus
        /\ UNCHANGED <<chunks, ents, rels, mirror, hashes, nodes, torn>> /\ disclosed' = disclosed
    BY DEF PutComms, PutDerived, PutCards, Elsewhere, review
  <1>3. Owned(chunks') /\ Private(ents', disclosed) /\ Private(rels', disclosed) /\ Evidence(ents') \subseteq Keys(chunks')
        /\ Evidence(rels') \subseteq Keys(chunks') /\ \A e \in ents' : <<e.key, e.lib>> \in mirror'
    BY <1>2, StoresKnown
  <1>4. Typed(d)
    BY <1>1, <1>2, StoresKnown DEF Typed
  <1>5. Aside(d)
    BY <1>1, <1>2 DEF Aside
  <1>6. StoredFor(d)'
    BY <1>1, <1>2, StoresKnown, SameText DEF StoredFor, HalfStored
  <1>7. TellsOf(d)'
    BY <1>1, <1>2, StoresKnown DEF TellsOf, HalfStored
  <1>8. serve = "seeding" /\ d \in Seeds /\ phase'[d] \in {"derive", "cards", "done"} => hashes'[d] = corpus[d]
    BY <1>1, <1>2, Seeding
  <1> QED BY <1>1, <1>3, <1>4, <1>5, <1>6, <1>7, <1>8, OneIngest

LEMMA PutHashKeeps ==
    ASSUME LibraryIInv, NEW d \in Docs, backend = "db", PutHash(d), Elsewhere
    PROVE  LibraryIInv'
  <1>1. /\ Running(d) /\ phase[d] = "hash" /\ phase' \in [Docs -> Phases] /\ phase'[d] = "derive"
        /\ \A e \in Docs \ {d} : phase'[e] = phase[e]
    BY StepTypes, Names DEF PutHash, After
  <1>2. /\ hashes' = [hashes EXCEPT ![d] = corpus[d]] /\ torn' = torn \ {d} /\ backend' = "db" /\ corpus' = corpus
        /\ UNCHANGED <<chunks, ents, rels, comms, cards, mirror, nodes, disclosed>>
    BY DEF PutHash, RecordHash, Elsewhere, review
  <1>3. hashes' \in [Docs -> Nat] /\ hashes'[d] = corpus[d] /\ \A e \in Docs \ {d} : hashes'[e] = hashes[e]
    BY <1>2, StoresKnown
  <1>4. Owned(chunks') /\ Private(ents', disclosed) /\ Private(rels', disclosed) /\ Evidence(ents') \subseteq Keys(chunks')
        /\ Evidence(rels') \subseteq Keys(chunks') /\ \A e \in ents' : <<e.key, e.lib>> \in mirror'
    BY <1>2, StoresKnown
  <1>5. Typed(d)
    BY <1>1, <1>2, <1>3, StoresKnown DEF Typed
  <1>6. Aside(d)
    BY <1>1, <1>2, <1>3 DEF Aside
  <1>7. StoredFor(d)'
    BY <1>1 DEF StoredFor, HalfStored
  <1>8. TellsOf(d)'
    <2>1. ChunksAt(d, corpus[d]) \subseteq chunks /\ Contents[d][corpus[d]].names \subseteq Keys(ents)
      BY <1>1, StoresKnown DEF StoredFor, HalfStored, ChunksOf, Content
    <2> QED BY <1>1, <1>2, <1>3, <2>1 DEF TellsOf
  <1> QED BY <1>1, <1>3, <1>4, <1>5, <1>6, <1>7, <1>8, OneIngest

LEMMA PutOneKeeps ==
    ASSUME LibraryIInv, NEW d \in Docs, PutOne(d)
    PROVE  LibraryIInv'
  BY PutChunksKeeps, PutMirrorKeeps, PutNodeKeeps, PutEdgeKeeps, PutBesideKeeps, PutHashKeeps DEF PutOne

----------------------------------------------------------------------------
(* One lemma per step of serve, of the in-memory ingest and of a deletion.  *)

LEMMA AtRest ==
    ASSUME LibraryIInv, NEW d \in Docs, ~ Running(d)
    PROVE  phase[d] \in {"none", "done", "failed"} /\ ~ HalfStored(d)
  BY Known, Names DEF Running, HalfStored

(* Documents at rest ask nothing of the stores.                             *)
LEMMA RestIsStored ==
    ASSUME \A d \in Docs : phase'[d] \in {"none", "done", "failed"}
    PROVE  /\ StepsStored' /\ \A d \in Docs : ~ Running(d)' /\ ~ HalfStored(d)' /\ InTurn(d)'
  <1>1. \A d \in Docs : ~ Running(d)'
    BY Names DEF Running
  <1>2. \A d \in Docs : ~ HalfStored(d)' /\ InTurn(d)'
    BY <1>1 DEF HalfStored, InTurn
  <1> QED BY <1>1, <1>2 DEF StepsStored

LEMMA NobodyRuns ==
    ASSUME LibraryIInv, serve = "down"
    PROVE  \A d \in Docs : ~ Running(d) /\ phase[d] \in {"none", "done", "failed"} /\ ~ HalfStored(d)
  <1>1. \A d \in Docs : ~ Running(d)
    BY Known DEF InTurn
  <1> QED BY <1>1, AtRest

LEMMA InitLibrary == Init => LibraryIInv
  <1> SUFFICES ASSUME Init PROVE LibraryIInv
    OBVIOUS
  <1>1. \A d \in Docs : phase[d] = "none" /\ ~ Running(d) /\ ~ HalfStored(d) /\ hashes[d] = 0
    BY Names DEF Init, Running, HalfStored
  <1>2. IngestsTyped
    <2>1. 1 \in Nat /\ "none" \in Phases /\ backend \in {"memory", "db"}
      BY Names, LibraryAssumption DEF Init, LibraryAssumption
    <2> QED BY <2>1, LibraryAssumption DEF Init, IngestsTyped, LibraryAssumption
  <1>3. RecordsPrivate /\ EvidenceStored /\ CacheWhole
    BY DEF Init, RecordsPrivate, EvidenceStored, CacheWhole, Nothing, Owned, Private, Evidence
  <1>4. IngestsInTurn
    BY <1>1 DEF Init, IngestsInTurn
  <1>5. StepsStored /\ HashesTell
    BY <1>1 DEF StepsStored, HashesTell
  <1> QED BY <1>2, <1>3, <1>4, <1>5 DEF LibraryIInv

LEMMA EditFileKeeps ==
    ASSUME LibraryIInv, NEW d \in Seeds, EditFile(d)
    PROVE  LibraryIInv'
  <1>1. /\ serve = "down" /\ UNCHANGED <<backend, stores, sparse, cache, serve, left, phase, nodes, torn>> /\ disclosed' = disclosed
        /\ d \in Docs
    BY DocsAreNumbers DEF EditFile, review
  <1>2. PICK v \in DOMAIN Contents[d] : corpus' = [corpus EXCEPT ![d] = v]
    BY DEF EditFile
  <1>3. v \in Nat
    BY <1>1, LibraryAssumption DEF LibraryAssumption
  <1>4. IngestsTyped'
    BY <1>1, <1>2, <1>3, Known DEF IngestsTyped, stores
  <1>5. RecordsPrivate' /\ EvidenceStored' /\ CacheWhole'
    BY <1>1 DEF LibraryIInv, RecordsPrivate, EvidenceStored, CacheWhole, Evidence, Keys, stores
  <1>6. \A e \in Docs : phase'[e] \in {"none", "done", "failed"}
    BY <1>1, NobodyRuns
  <1>7. IngestsInTurn'
    BY <1>1, <1>6, RestIsStored DEF IngestsInTurn
  <1>8. HashesTell'
    BY <1>1 DEF LibraryIInv, HashesTell, HalfStored, Keys, stores
  <1> QED BY <1>4, <1>5, <1>6, <1>7, <1>8, RestIsStored DEF LibraryIInv

LEMMA StartKeeps ==
    ASSUME LibraryIInv, Start
    PROVE  LibraryIInv'
  <1> DEFINE hit == backend = "memory" /\ cache # Nothing /\ cache.key = SeedKey
             seeded == IF hit THEN cache ELSE Nothing
  <1>1. /\ serve = "down" /\ serve' = IF hit THEN "up" ELSE "seeding"
        /\ left' = IF hit THEN {} ELSE Seeds
        /\ cache' = IF hit \/ backend = "db" THEN cache ELSE Nothing
        /\ sparse' = seeded.chunks
        /\ phase' = [d \in Docs |-> IF d \in Seeds THEN "none" ELSE phase[d]]
        /\ nodes' = [d \in Docs |-> {}]
        /\ IF backend = "db"
           THEN UNCHANGED <<chunks, ents, rels, comms, mirror, hashes>>
           ELSE /\ chunks' = seeded.chunks /\ ents' = seeded.ents /\ rels' = seeded.rels
                /\ comms' = seeded.comms /\ mirror' = {} /\ hashes' = [d \in Docs |-> 0]
        /\ UNCHANGED <<backend, corpus, torn, disclosed>>
    BY DEF Start, review
  <1> HIDE DEF hit
  <1>2. /\ Owned(seeded.chunks) /\ Private(seeded.ents, disclosed) /\ Private(seeded.rels, disclosed)
        /\ Evidence(seeded.ents) \cup Evidence(seeded.rels) \subseteq Keys(seeded.chunks)
        /\ ~ hit => seeded.chunks = {}
    <2>1. CASE hit
      BY <2>1, Known DEF CacheWhole
    <2>2. CASE ~ hit
      BY <2>2 DEF Nothing, Owned, Private, Evidence, Keys
    <2> QED BY <2>1, <2>2
  <1> HIDE DEF seeded
  <1>3. \A d \in Docs : phase'[d] \in {"none", "done", "failed"} /\ ~ HalfStored(d)
    BY <1>1, NobodyRuns
  <1>4. IngestsTyped'
    <2>1. phase' \in [Docs -> Phases]
      BY <1>1, Known, Names
    <2>2. hashes' \in [Docs -> Nat]
      BY <1>1, Known
    <2> QED BY <1>1, <2>1, <2>2, Known DEF IngestsTyped
  <1>5. RecordsPrivate'
    <2>1. Owned(cache'.chunks) /\ Private(cache'.ents, disclosed) /\ Private(cache'.rels, disclosed)
      <3>1. cache' = cache \/ cache' = Nothing
        BY <1>1
      <3>2. CASE cache' = cache
        BY <3>2, Known
      <3>3. CASE cache' = Nothing
        BY <3>3 DEF Nothing, Owned, Private
      <3> QED BY <3>1, <3>2, <3>3
    <2> QED BY <1>1, <1>2, <2>1, Known DEF RecordsPrivate
  <1>6. EvidenceStored'
    <2>1. CASE backend = "db"
      BY <1>1, <2>1, Known DEF EvidenceStored, Keys
    <2>2. CASE backend # "db"
      BY <1>1, <1>2, <2>2 DEF EvidenceStored, Keys
    <2> QED BY <2>1, <2>2
  <1>7. CacheWhole'
    <2>1. cache' = cache \/ cache' = Nothing
      BY <1>1
    <2>2. CASE cache' = cache
      BY <2>2, Known DEF CacheWhole, Evidence, Keys
    <2>3. CASE cache' = Nothing
      BY <2>3 DEF CacheWhole, Nothing, Evidence
    <2> QED BY <2>1, <2>2, <2>3
  <1>8. IngestsInTurn'
    <2>1. ASSUME NEW d \in Seeds PROVE d \in Docs /\ phase'[d] = "none"
      BY <1>1, DocsAreNumbers
    <2>2. ASSUME serve' = "seeding"
          PROVE  /\ \A d \in Seeds \ left' : phase'[d] = "done"
                 /\ \A d \in Seeds : phase'[d] \in {"derive", "cards", "done"} => hashes'[d] = corpus'[d]
      BY <1>1, <2>1, <2>2
    <2>3. ASSUME serve' = "seeding", backend = "memory"
          PROVE  /\ \A d \in Seeds : hashes'[d] = 0
                 /\ chunks' = UNION {ChunksOf(d)' : d \in {e \in Seeds : phase'[e] \in {"derive", "done"}}}
      <3>1. ~ hit /\ chunks' = {}
        BY <1>1, <1>2, <2>3
      <3>2. {e \in Seeds : phase'[e] \in {"derive", "done"}} = {}
        BY <2>1
      <3>3. \A d \in Seeds : hashes'[d] = 0
        BY <1>1, <2>1, <2>3
      <3> QED BY <3>1, <3>2, <3>3
    <2>4. \A d \in Docs : InTurn(d)'
      BY <1>3, RestIsStored
    <2> QED BY <1>1, <2>2, <2>3, <2>4 DEF IngestsInTurn, InTurn
  <1>9. HashesTell'
    <2>1. CASE backend = "db"
      BY <1>1, <1>3, <2>1 DEF LibraryIInv, HashesTell, HalfStored, Keys
    <2>2. CASE backend # "db"
      BY <1>1, <2>2 DEF HashesTell
    <2> QED BY <2>1, <2>2
  <1> QED BY <1>3, <1>4, <1>5, <1>6, <1>7, <1>8, <1>9, RestIsStored DEF LibraryIInv

(* An ingest begins where one may.                                          *)
LEMMA BeginKeeps ==
    ASSUME LibraryIInv, NEW d \in Docs, Begin(d), phase[d] = "none",
           IF d \in Seeds THEN serve = "seeding" /\ d \in left /\ \A e \in left : d <= e ELSE serve = "up"
    PROVE  LibraryIInv'
  <1>1. /\ phase' = [phase EXCEPT ![d] = "chunks"] /\ nodes' = [nodes EXCEPT ![d] = Content(d).names]
        /\ UNCHANGED <<backend, corpus, stores, sparse, cache, serve, left, torn, disclosed, count>>
    BY Names DEF Begin, Goto, review
  <1>2. /\ phase' \in [Docs -> Phases] /\ phase'[d] = "chunks" /\ \A e \in Docs \ {d} : phase'[e] = phase[e]
        /\ nodes' \in [Docs -> SUBSET Nat] /\ nodes'[d] = Content(d).names
        /\ \A e \in Docs \ {d} : nodes'[e] = nodes[e]
    BY <1>1, Known, Names
  <1>3. /\ backend' = backend /\ corpus' = corpus /\ chunks' = chunks /\ ents' = ents /\ rels' = rels
        /\ mirror' = mirror /\ hashes' = hashes /\ sparse' = sparse /\ cache' = cache /\ serve' = serve
        /\ left' = left /\ torn' = torn /\ disclosed' = disclosed
    BY <1>1 DEF stores
  <1>4. IngestsTyped'
    BY <1>2, <1>3, Known DEF IngestsTyped
  <1>5. RecordsPrivate' /\ EvidenceStored' /\ CacheWhole'
    BY <1>3 DEF LibraryIInv, RecordsPrivate, EvidenceStored, CacheWhole, Evidence, Keys
  <1>6. IngestsInTurn'
    <2>1. \A e \in Docs : InTurn(e)'
      <3> TAKE e \in Docs
      <3>1. CASE e = d
        BY <1>3, <3>1 DEF InTurn
      <3>2. CASE e # d
        BY <1>2, <1>3, <3>2, Known DEF InTurn, Running
      <3> QED BY <3>1, <3>2
    <2>2. ASSUME serve = "seeding"
          PROVE  /\ \A e \in Seeds \ left' : phase'[e] = "done"
                 /\ backend = "db" =>
                      \A e \in Seeds : phase'[e] \in {"derive", "cards", "done"} => hashes'[e] = corpus'[e]
                 /\ backend = "memory" =>
                      \A e \in Seeds : phase'[e] \notin {"derive", "done"} => hashes'[e] = 0
      BY <1>2, <1>3, <2>2, Seeding, DocsAreNumbers
    <2>3. {e \in Seeds : phase'[e] \in {"derive", "done"}} = {e \in Seeds : phase[e] \in {"derive", "done"}}
      BY <1>2, DocsAreNumbers
    <2>4. \A e \in Seeds : ChunksOf(e)' = ChunksOf(e)
      BY <1>3, SameText
    <2>5. ASSUME serve = "seeding", backend = "memory"
          PROVE  chunks' = UNION {ChunksOf(e)' : e \in {f \in Seeds : phase'[f] \in {"derive", "done"}}}
      BY <1>3, <2>3, <2>4, <2>5, Seeding
    <2> QED BY <1>3, <2>1, <2>2, <2>5 DEF IngestsInTurn, InTurn
  <1>7. StepsStored'
    <2> SUFFICES ASSUME backend = "db", NEW e \in Docs PROVE StoredFor(e)'
      BY <1>3, ByDocument DEF StepsStored, StoredFor
    <2>1. CASE e = d
      BY <1>2, <1>3, <2>1, SameText DEF StoredFor, HalfStored
    <2>2. CASE e # d
      <3>1. StoredFor(e)
        BY Known
      <3> QED BY <1>2, <1>3, <2>2, <3>1, SameText DEF StoredFor, HalfStored, Keys
    <2> QED BY <2>1, <2>2
  <1>8. HashesTell'
    <2> SUFFICES ASSUME NEW e \in Docs PROVE TellsOf(e)'
      BY DEF HashesTell, TellsOf
    <2>1. HalfStored(e)' <=> HalfStored(e)
      BY <1>2, <1>3 DEF HalfStored
    <2>2. TellsOf(e)
      BY Known
    <2> QED BY <1>3, <2>1, <2>2 DEF TellsOf, Keys, ChunksAt
  <1> QED BY <1>4, <1>5, <1>6, <1>7, <1>8 DEF LibraryIInv

LEMMA UploadKeeps ==
    ASSUME LibraryIInv, NEW d \in Uploads, Upload(d)
    PROVE  LibraryIInv'
  BY DocsAreNumbers, BeginKeeps DEF Upload

(* The next demo file is the first one left.                                *)
LEMMA FirstLeft ==
    ASSUME LibraryIInv, left # {}
    PROVE  Min(left) \in left /\ Min(left) \in Seeds /\ \A e \in left : Min(left) <= e
  <1>1. left \subseteq Nat /\ left \subseteq Seeds
    BY Known, DocsAreNumbers
  <1>2. \E x \in left : \A y \in left : x <= y
    BY <1>1, Smallest
  <1> QED BY <1>1, <1>2 DEF Min

LEMMA NextSeedKeeps ==
    ASSUME LibraryIInv, NextSeed
    PROVE  LibraryIInv'
  <1> DEFINE d == Min(left)
  <1>1. serve = "seeding" /\ d \in left /\ d \in Seeds /\ d \in Docs /\ (\A e \in left : d <= e) /\ phase[d] = "none"
    BY FirstLeft, DocsAreNumbers DEF NextSeed
  <1>2. CASE hashes[d] = corpus[d]
    <2>1. /\ Goto(d, "done")
          /\ UNCHANGED <<backend, corpus, stores, sparse, cache, serve, left, nodes, torn, disclosed, count>>
      BY <1>2 DEF NextSeed, review
    <2> HIDE DEF d
    <2>2. /\ phase' \in [Docs -> Phases] /\ phase'[d] = "done" /\ \A e \in Docs \ {d} : phase'[e] = phase[e]
      BY <1>1, <2>1, Known, Names DEF Goto
    <2>3. /\ backend' = backend /\ corpus' = corpus /\ chunks' = chunks /\ ents' = ents /\ rels' = rels
          /\ mirror' = mirror /\ hashes' = hashes /\ sparse' = sparse /\ cache' = cache /\ serve' = serve
          /\ left' = left /\ torn' = torn /\ disclosed' = disclosed /\ nodes' = nodes
      BY <2>1 DEF stores
    <2>4. backend = "db"   \* in memory no fingerprint is recorded before its document is stored
      <3>1. corpus[d] # 0
        BY <1>1, Known
      <3> QED BY <1>1, <1>2, <3>1, Known, Seeding
    <2>5. IngestsTyped'
      BY <2>2, <2>3, Known DEF IngestsTyped
    <2>6. RecordsPrivate' /\ EvidenceStored' /\ CacheWhole'
      BY <2>3 DEF LibraryIInv, RecordsPrivate, EvidenceStored, CacheWhole, Evidence, Keys
    <2>7. \A e \in Docs : Running(e)' => Running(e)
      BY <2>2, Names DEF Running
    <2>8. IngestsInTurn'
      <3>1. \A e \in Docs : InTurn(e)'
        BY <2>3, <2>7, Known DEF InTurn
      <3>2. \A e \in Seeds \ left : phase'[e] = "done"
        BY <1>1, <2>2, Seeding, DocsAreNumbers
      <3>3. \A e \in Seeds : phase'[e] \in {"derive", "cards", "done"} => hashes'[e] = corpus'[e]
        BY <1>1, <1>2, <2>2, <2>3, <2>4, Seeding, DocsAreNumbers
      <3> QED BY <2>3, <2>4, <3>1, <3>2, <3>3 DEF IngestsInTurn, InTurn
    <2>9. StepsStored'
      <3> SUFFICES ASSUME NEW e \in Docs PROVE StoredFor(e)'
        BY <2>3, ByDocument DEF StepsStored, StoredFor
      <3>1. StoredFor(e)
        BY <2>4, Known
      <3> QED BY <2>2, <2>3, <3>1, SameText DEF StoredFor, HalfStored, Keys
    <2>10. HashesTell'
      <3> SUFFICES ASSUME NEW e \in Docs PROVE TellsOf(e)'
        BY DEF HashesTell, TellsOf
      <3>1. HalfStored(e)' <=> HalfStored(e)
        BY <1>1, <2>2, <2>3 DEF HalfStored
      <3>2. TellsOf(e)
        BY Known
      <3> QED BY <2>3, <3>1, <3>2 DEF TellsOf, Keys, ChunksAt
    <2> QED BY <2>5, <2>6, <2>8, <2>9, <2>10 DEF LibraryIInv
  <1>3. CASE hashes[d] # corpus[d]
    <2>1. Begin(d)
      BY <1>3 DEF NextSeed
    <2> HIDE DEF d
    <2> QED BY <1>1, <2>1, BeginKeeps
  <1> QED BY <1>2, <1>3

LEMMA LoadAtOnceKeeps ==
    ASSUME LibraryIInv, NEW d \in Docs, LoadAtOnce(d)
    PROVE  LibraryIInv'
  <1>1. /\ backend = "memory" /\ phase[d] = "chunks" /\ phase' = [phase EXCEPT ![d] = "derive"]
        /\ chunks' = Upsert(ChunksOf(d), chunks)
        /\ ents' = UpsertGraph(EntitiesOf(d), ents) /\ rels' = UpsertGraph(RelationsOf(d), rels)
        /\ hashes' = [hashes EXCEPT ![d] = corpus[d]]
        /\ UNCHANGED <<nodes, torn, backend, corpus, sparse, cache, serve, left, disclosed>>
    BY DEF LoadAtOnce, Goto, StoreChunks, StoreGraph, RecordHash, Elsewhere, review
  <1>2. /\ phase' \in [Docs -> Phases] /\ phase'[d] = "derive" /\ \A e \in Docs \ {d} : phase'[e] = phase[e]
        /\ hashes' \in [Docs -> Nat] /\ hashes'[d] = corpus[d] /\ \A e \in Docs \ {d} : hashes'[e] = hashes[e]
    BY <1>1, Known, Names
  <1>3. IngestsTyped'
    BY <1>1, <1>2, Known DEF IngestsTyped
  <1>4. /\ Keys(chunks) \subseteq Keys(chunks') /\ Keys(ChunksOf(d)) \subseteq Keys(chunks')
        /\ ChunksOf(d) \subseteq chunks' /\ Owned(chunks')
    BY <1>1, Known, UpsertKeys, UpsertIn, UpsertOwned, ChunksOwned DEF ChunksOf
  <1>5. RecordsPrivate'
    <2>1. Private(ents', disclosed) /\ Private(rels', disclosed)
      BY <1>1, Known, GraphCitesItsText, UpsertPrivate
    <2> QED BY <1>1, <1>4, <2>1, Known DEF RecordsPrivate
  <1>6. EvidenceStored'
    <2>1. Evidence(ents') \subseteq Keys(chunks') /\ Evidence(rels') \subseteq Keys(chunks')
      BY <1>1, <1>4, Known, GraphCitesItsText, UpsertCites
    <2> QED BY <1>1, <2>1 DEF EvidenceStored, Keys
  <1>7. CacheWhole'
    BY <1>1 DEF LibraryIInv, CacheWhole, Evidence, Keys
  <1>8. Running(d) /\ \A e \in Docs : Running(e)' => Running(e)
    BY <1>1, <1>2, Names DEF Running
  <1>9. IngestsInTurn'
    <2>1. \A e \in Docs : InTurn(e)'
      BY <1>1, <1>8, Known DEF InTurn
    <2> SUFFICES ASSUME serve = "seeding"
                 PROVE  /\ \A e \in Seeds \ left : phase'[e] = "done"
                        /\ \A e \in Seeds : phase'[e] \notin {"derive", "done"} => hashes'[e] = 0
                        /\ chunks' = UNION {ChunksOf(e) : e \in {f \in Seeds : phase'[f] \in {"derive", "done"}}}
      <3>1. \A e \in Docs : ChunksOf(e)' = ChunksOf(e)
        BY <1>1, SameText
      <3> QED BY <1>1, <2>1, <3>1, DocsAreNumbers DEF IngestsInTurn, InTurn
    <2>2. d \in Seeds /\ d \in left
      BY <1>8, Known DEF InTurn
    <2>3. \A e \in Seeds \ left : phase'[e] = "done"
      BY <1>2, <2>2, Seeding, DocsAreNumbers
    <2>4. \A e \in Seeds : phase'[e] \notin {"derive", "done"} => hashes'[e] = 0
      BY <1>1, <1>2, Seeding, DocsAreNumbers
    <2> DEFINE before == {f \in Seeds : phase[f] \in {"derive", "done"}}
               after == {f \in Seeds : phase'[f] \in {"derive", "done"}}
    <2>5. after = before \cup {d} /\ d \notin before
      BY <1>1, <1>2, <2>2, DocsAreNumbers
    <2>6. chunks = UNION {ChunksOf(e) : e \in before}
      BY <1>1, Seeding
    <2> HIDE DEF before, after
    <2>7. chunks' = ChunksOf(d) \cup chunks
      <3>1. \A r \in chunks : Doc(r.key) # d
        BY <2>5, <2>6, ChunksOwned DEF ChunksOf
      <3>2. \A r \in chunks, s \in ChunksOf(d) : s.key # r.key
        BY <3>1, ChunksOwned DEF ChunksOf
      <3> QED BY <1>1, <3>2 DEF Upsert
    <2>8. chunks' = UNION {ChunksOf(e) : e \in after}
      BY <2>5, <2>6, <2>7
    <2> QED BY <2>3, <2>4, <2>8 DEF after
  <1>10. StepsStored'
    BY <1>1 DEF StepsStored
  <1>11. HashesTell'
    <2> SUFFICES ASSUME NEW e \in Docs PROVE TellsOf(e)'
      BY DEF HashesTell, TellsOf
    <2>1. backend' # "db" /\ ~ HalfStored(e)
      BY <1>1 DEF HalfStored
    <2>2. CASE e = d
      BY <1>2, <1>4, <2>1, <2>2 DEF TellsOf, ChunksOf, ChunksAt
    <2>3. CASE e # d
      <3>1. TellsOf(e) /\ hashes'[e] = hashes[e]
        BY <1>2, <2>3, Known
      <3>2. ChunksAt(e, hashes[e]) \subseteq chunks => ChunksAt(e, hashes[e]) \subseteq chunks'
        BY <1>1, <2>3, OthersKept DEF ChunksOf
      <3> QED BY <1>1, <2>1, <3>1, <3>2 DEF TellsOf, ChunksAt
    <2> QED BY <2>2, <2>3
  <1> QED BY <1>3, <1>5, <1>6, <1>7, <1>9, <1>10, <1>11 DEF LibraryIInv

LEMMA DeriveAtOnceKeeps ==
    ASSUME LibraryIInv, NEW d \in Docs, DeriveAtOnce(d)
    PROVE  LibraryIInv'
  <1>1. /\ backend = "memory" /\ phase[d] = "derive" /\ phase' = [phase EXCEPT ![d] = "done"]
        /\ backend' = backend /\ corpus' = corpus /\ chunks' = chunks /\ ents' = ents /\ rels' = rels
        /\ mirror' = mirror /\ hashes' = hashes /\ sparse' = sparse /\ cache' = cache /\ serve' = serve
        /\ left' = left /\ torn' = torn /\ disclosed' = disclosed /\ nodes' = nodes
    BY DEF DeriveAtOnce, Goto, Elsewhere, review
  <1>2. phase' \in [Docs -> Phases] /\ phase'[d] = "done" /\ \A e \in Docs \ {d} : phase'[e] = phase[e]
    BY <1>1, Known, Names
  <1>3. IngestsTyped'
    BY <1>1, <1>2, Known DEF IngestsTyped
  <1>4. RecordsPrivate' /\ EvidenceStored' /\ CacheWhole'
    BY <1>1 DEF LibraryIInv, RecordsPrivate, EvidenceStored, CacheWhole, Evidence, Keys
  <1>5. \A e \in Docs : Running(e)' => Running(e)
    BY <1>1, <1>2, Names DEF Running
  <1>6. IngestsInTurn'
    <2>1. \A e \in Docs : InTurn(e)'
      BY <1>1, <1>5, Known DEF InTurn
    <2>2. \A e \in Seeds : ChunksOf(e)' = ChunksOf(e)
      BY <1>1, SameText
    <2>3. ASSUME serve = "seeding"
          PROVE  /\ \A e \in Seeds \ left : phase'[e] = "done"
                 /\ \A e \in Seeds : phase'[e] \notin {"derive", "done"} => hashes'[e] = 0
      BY <1>1, <1>2, <2>3, Seeding, DocsAreNumbers
    <2>4. {e \in Seeds : phase'[e] \in {"derive", "done"}} = {e \in Seeds : phase[e] \in {"derive", "done"}}
      BY <1>1, <1>2, DocsAreNumbers
    <2>5. ASSUME serve = "seeding"
          PROVE  chunks' = UNION {ChunksOf(e)' : e \in {f \in Seeds : phase'[f] \in {"derive", "done"}}}
      BY <1>1, <2>2, <2>4, <2>5, Seeding
    <2> QED BY <1>1, <2>1, <2>3, <2>5 DEF IngestsInTurn, InTurn
  <1>7. StepsStored'
    BY <1>1 DEF StepsStored
  <1>8. HashesTell'
    <2> SUFFICES ASSUME NEW e \in Docs PROVE TellsOf(e)'
      BY DEF HashesTell, TellsOf
    <2>1. TellsOf(e) /\ ~ HalfStored(e) /\ backend' # "db"
      BY <1>1, Known DEF HalfStored
    <2> QED BY <1>1, <2>1 DEF TellsOf, ChunksAt
  <1> QED BY <1>3, <1>4, <1>6, <1>7, <1>8 DEF LibraryIInv

(* Communities only change their names between two demo files.              *)
LEMMA SeedIngestedKeeps ==
    ASSUME LibraryIInv, NEW d \in Seeds, SeedIngested(d)
    PROVE  LibraryIInv'
  <1>1. /\ serve = "seeding" /\ d \in left /\ phase[d] = "done" /\ left' = left \ {d}
        /\ backend' = backend /\ corpus' = corpus /\ chunks' = chunks /\ ents' = ents /\ rels' = rels
        /\ mirror' = mirror /\ hashes' = hashes /\ sparse' = sparse /\ cache' = cache /\ serve' = serve
        /\ torn' = torn /\ nodes' = nodes /\ phase' = phase /\ disclosed' = disclosed
    BY DEF SeedIngested, review
  <1>2. IngestsTyped'
    BY <1>1, Known DEF IngestsTyped
  <1>3. RecordsPrivate' /\ EvidenceStored' /\ CacheWhole'
    BY <1>1 DEF LibraryIInv, RecordsPrivate, EvidenceStored, CacheWhole, Evidence, Keys
  <1>4. IngestsInTurn'
    <2>1. ~ Running(d)
      BY <1>1, Names DEF Running
    <2>2. \A e \in Docs : InTurn(e)'
      <3> TAKE e \in Docs
      <3>1. InTurn(e)
        BY Known
      <3>2. CASE e = d
        BY <1>1, <2>1, <3>2 DEF InTurn, Running
      <3>3. CASE e # d
        BY <1>1, <3>1, <3>3 DEF InTurn, Running
      <3> QED BY <3>2, <3>3
    <2>3. \A e \in Seeds \ left' : phase'[e] = "done"
      BY <1>1, Seeding
    <2>4. \A e \in Docs : ChunksOf(e)' = ChunksOf(e)
      BY <1>1, SameText
    <2>5. ASSUME backend = "memory"
          PROVE  /\ chunks' = UNION {ChunksOf(e)' : e \in {f \in Seeds : phase'[f] \in {"derive", "done"}}}
                 /\ \A e \in Seeds : phase'[e] \notin {"derive", "done"} => hashes'[e] = 0
      BY <1>1, <2>4, <2>5, Seeding, DocsAreNumbers
    <2>6. ASSUME backend = "db"
          PROVE  \A e \in Seeds : phase'[e] \in {"derive", "cards", "done"} => hashes'[e] = corpus'[e]
      BY <1>1, <2>6, Seeding
    <2> QED BY <1>1, <2>2, <2>3, <2>5, <2>6 DEF IngestsInTurn, InTurn
  <1>5. StepsStored'
    <2> SUFFICES ASSUME backend = "db", NEW e \in Docs PROVE StoredFor(e)'
      BY <1>1, ByDocument DEF StepsStored, StoredFor
    <2>1. StoredFor(e)
      BY Known
    <2> QED BY <1>1, <2>1, SameText DEF StoredFor, HalfStored, Keys
  <1>6. HashesTell'
    <2> SUFFICES ASSUME NEW e \in Docs PROVE TellsOf(e)'
      BY DEF HashesTell, TellsOf
    <2>1. TellsOf(e)
      BY Known
    <2> QED BY <1>1, <2>1 DEF TellsOf, Keys, ChunksAt, HalfStored
  <1> QED BY <1>2, <1>3, <1>4, <1>5, <1>6 DEF LibraryIInv

LEMMA ListenKeeps ==
    ASSUME LibraryIInv, Listen
    PROVE  LibraryIInv'
  <1>1. /\ serve = "seeding" /\ left = {} /\ serve' = "up"
        /\ backend' = backend /\ corpus' = corpus /\ chunks' = chunks /\ ents' = ents /\ rels' = rels
        /\ mirror' = mirror /\ hashes' = hashes /\ left' = left /\ torn' = torn /\ disclosed' = disclosed /\ nodes' = nodes
        /\ phase' = phase
        /\ IF backend = "db" THEN sparse' = sparse /\ cache' = cache
           ELSE /\ sparse' = chunks
                /\ cache' = [chunks |-> chunks, ents |-> ents, rels |-> rels, comms |-> comms,
                             cards |-> cards, key |-> SeedKey]
    BY DEF Listen, review
  <1>2. IngestsTyped'
    BY <1>1, Known DEF IngestsTyped
  <1>3. \A d \in Docs : ~ (d \in Seeds /\ Running(d)) /\ (d \notin Seeds => ~ Running(d))
    BY <1>1, Known DEF InTurn
  <1>4. \A d \in Docs : phase'[d] \in {"none", "done", "failed"}
    BY <1>1, <1>3, AtRest
  <1>5. RecordsPrivate' /\ EvidenceStored'
    <2>1. EvidenceStored'
      BY <1>1 DEF LibraryIInv, EvidenceStored, Evidence
    <2>2. CASE backend = "db"
      BY <1>1, <2>1, <2>2, Known DEF RecordsPrivate
    <2>3. CASE backend # "db"
      <3>1. cache'.chunks = chunks /\ cache'.ents = ents /\ cache'.rels = rels
        BY <1>1, <2>3
      <3> QED BY <1>1, <2>1, <2>3, <3>1, Known DEF RecordsPrivate
    <2> QED BY <2>2, <2>3, Known
  <1>6. CacheWhole'
    <2>1. CASE backend = "db"
      BY <1>1, <2>1, Known DEF CacheWhole, Evidence, Keys
    <2>2. CASE backend # "db"
      <3>1. cache'.chunks = chunks /\ cache'.ents = ents /\ cache'.rels = rels /\ cache'.key = SeedKey
        BY <1>1, <2>2
      <3>2. Evidence(cache'.ents) \cup Evidence(cache'.rels) \subseteq Keys(cache'.chunks)
        BY <3>1, Known
      <3>3. \A d \in Seeds : SeedKey[d] = corpus[d] /\ phase[d] = "done"
        BY <1>1, Seeding DEF SeedKey
      <3>4. {e \in Seeds : phase[e] \in {"derive", "done"}} = Seeds
        BY <3>3
      <3>5. backend = "memory"
        BY <2>2, Known
      <3>6. chunks = UNION {ChunksOf(d) : d \in Seeds}
        BY <1>1, <3>4, <3>5, Seeding
      <3>7. cache'.chunks = UNION {ChunksAt(d, cache'.key[d]) : d \in Seeds}
        BY <3>1, <3>3, <3>6 DEF ChunksOf
      <3>8. (UNION {ChunksAt(d, cache.key[d]) : d \in Seeds})' = UNION {ChunksAt(d, cache'.key[d]) : d \in Seeds}
        BY DEF ChunksAt
      <3> QED BY <3>2, <3>7, <3>8 DEF CacheWhole, Evidence, Keys
    <2> QED BY <2>1, <2>2
  <1>7. IngestsInTurn'
    BY <1>1, <1>4, RestIsStored DEF IngestsInTurn
  <1>8. HashesTell'
    BY <1>1 DEF LibraryIInv, HashesTell, HalfStored, Keys
  <1> QED BY <1>2, <1>4, <1>5, <1>6, <1>7, <1>8, RestIsStored DEF LibraryIInv

(* A failure or a stop leaves the stores alone; what it cut off is torn.    *)
LEMMA FailKeeps ==
    ASSUME LibraryIInv, NEW d \in Docs, Fail(d)
    PROVE  LibraryIInv'
  <1>1. /\ Running(d) /\ phase' = [phase EXCEPT ![d] = "failed"] /\ serve' = IF d \in Seeds THEN "down" ELSE serve
        /\ torn' = torn \cup {e \in {d} : HalfStored(e)}
        /\ backend' = backend /\ corpus' = corpus /\ chunks' = chunks /\ ents' = ents /\ rels' = rels
        /\ mirror' = mirror /\ hashes' = hashes /\ sparse' = sparse /\ cache' = cache
        /\ left' = left /\ nodes' = nodes /\ disclosed' = disclosed
    BY DEF Fail, Goto, stores, Unreviewed
  <1>2. phase' \in [Docs -> Phases] /\ phase'[d] = "failed" /\ \A e \in Docs \ {d} : phase'[e] = phase[e]
    BY <1>1, Known, Names
  <1>3. IngestsTyped'
    BY <1>1, <1>2, Known DEF IngestsTyped
  <1>4. RecordsPrivate' /\ EvidenceStored' /\ CacheWhole'
    BY <1>1 DEF LibraryIInv, RecordsPrivate, EvidenceStored, CacheWhole, Evidence, Keys
  <1>5. \A e \in Docs : Running(e)' => Running(e) /\ e # d
    BY <1>2, Names DEF Running
  <1>6. IngestsInTurn'
    <2>1. ASSUME NEW e \in Docs, Running(e)' PROVE d \notin Seeds /\ InTurn(e)'
      <3>1. Running(e) /\ e # d /\ InTurn(e) /\ InTurn(d)
        BY <1>5, <2>1, Known
      <3>2. d \notin Seeds
        <4> SUFFICES ASSUME d \in Seeds PROVE FALSE
          OBVIOUS
        <4>1. serve = "seeding" /\ d \in left /\ \A f \in left : d <= f
          BY <1>1, <3>1 DEF InTurn
        <4>2. e \in Seeds /\ e \in left /\ \A f \in left : e <= f
          BY <3>1, <4>1 DEF InTurn
        <4>3. d \in Nat /\ e \in Nat /\ d <= e /\ e <= d
          BY <4>1, <4>2, DocsAreNumbers
        <4> QED BY <3>1, <4>3
      <3> QED BY <1>1, <3>1, <3>2 DEF InTurn
    <2>2. \A e \in Docs : InTurn(e)'
      BY <2>1 DEF InTurn
    <2>3. serve' # "seeding"
      BY <1>1, Known DEF InTurn
    <2> QED BY <2>2, <2>3 DEF IngestsInTurn, InTurn
  <1>7. StepsStored'
    <2> SUFFICES ASSUME backend = "db", NEW e \in Docs PROVE StoredFor(e)'
      BY <1>1, ByDocument DEF StepsStored, StoredFor
    <2>1. CASE e = d
      BY <1>2, <2>1 DEF StoredFor, HalfStored
    <2>2. CASE e # d
      <3>1. StoredFor(e)
        BY Known
      <3> QED BY <1>1, <1>2, <2>2, <3>1, SameText DEF StoredFor, HalfStored, Keys
    <2> QED BY <2>1, <2>2
  <1>8. HashesTell'
    <2> SUFFICES ASSUME NEW e \in Docs PROVE TellsOf(e)'
      BY DEF HashesTell, TellsOf
    <2>1. TellsOf(e)
      BY Known
    <2>2. e \notin torn' /\ ~ HalfStored(e)' => e \notin torn /\ ~ HalfStored(e)
      BY <1>1, <1>2 DEF HalfStored
    <2> QED BY <1>1, <2>1, <2>2 DEF TellsOf, Keys, ChunksAt
  <1> QED BY <1>3, <1>4, <1>6, <1>7, <1>8 DEF LibraryIInv

LEMMA StopKeeps ==
    ASSUME LibraryIInv, Stop
    PROVE  LibraryIInv'
  <1>1. /\ serve' = "down" /\ phase' = [d \in Docs |-> IF Running(d) THEN "failed" ELSE phase[d]]
        /\ torn' = torn \cup {d \in Docs : HalfStored(d)}
        /\ backend' = backend /\ corpus' = corpus /\ chunks' = chunks /\ ents' = ents /\ rels' = rels
        /\ mirror' = mirror /\ hashes' = hashes /\ sparse' = sparse /\ cache' = cache
        /\ left' = left /\ nodes' = nodes /\ disclosed' = disclosed
    BY DEF Stop, stores, Unreviewed
  <1>2. \A d \in Docs : phase'[d] \in {"none", "done", "failed"}
    BY <1>1, AtRest
  <1>3. IngestsTyped'
    <2>1. phase' \in [Docs -> Phases]
      BY <1>1, Known, Names
    <2> QED BY <1>1, <2>1, Known DEF IngestsTyped
  <1>4. RecordsPrivate' /\ EvidenceStored' /\ CacheWhole'
    BY <1>1 DEF LibraryIInv, RecordsPrivate, EvidenceStored, CacheWhole, Evidence, Keys
  <1>5. IngestsInTurn'
    BY <1>1, <1>2, RestIsStored DEF IngestsInTurn
  <1>6. HashesTell'
    <2> SUFFICES ASSUME NEW e \in Docs PROVE TellsOf(e)'
      BY DEF HashesTell, TellsOf
    <2>1. TellsOf(e)
      BY Known
    <2>2. e \notin torn' => e \notin torn /\ ~ HalfStored(e)
      BY <1>1
    <2> QED BY <1>1, <2>1, <2>2 DEF TellsOf, Keys, ChunksAt
  <1> QED BY <1>2, <1>3, <1>4, <1>5, <1>6, RestIsStored DEF LibraryIInv

(* A deletion takes all the chunks of its document or none: who may see one *)
(* of them may see them all.                                                *)
LEMMA DeleteKeeps ==
    ASSUME LibraryIInv, NEW u \in Users, NEW d \in Docs, Delete(u, d)
    PROVE  LibraryIInv'
  <1> DEFINE gone == {c.key : c \in {k \in chunks : Doc(k.key) = d /\ Sees(u, k.lib)}}
  <1>1. /\ serve = "up" /\ gone # {} /\ corpus' = corpus /\ backend' = backend
        /\ sparse' = sparse /\ cache' = cache /\ serve' = serve /\ left' = left /\ phase' = phase
        /\ nodes' = nodes /\ torn' = torn /\ disclosed' = disclosed
        /\ \/ /\ backend = "db" /\ chunks' = chunks /\ ents' = ents /\ rels' = rels /\ mirror' = mirror
              /\ hashes' = hashes
           \/ /\ backend # "db" /\ chunks' = {c \in chunks : Doc(c.key) # d}
              /\ hashes' = [hashes EXCEPT ![d] = 0]
              /\ ents' = Prune(ents, gone) /\ rels' = Prune(rels, gone)
    BY DEF Delete, stores, review
  <1>2. Keys(chunks) \ gone = Keys({c \in chunks : Doc(c.key) # d})
    <2>1. Sees(u, Lib(d))
      <3>1. PICK c \in chunks : Doc(c.key) = d /\ Sees(u, c.lib)
        BY <1>1
      <3> QED BY <3>1, Known DEF Owned
    <2>2. \A c \in chunks : Doc(c.key) = d => c.key \in gone
      BY <2>1, Known DEF Owned
    <2>3. \A k \in gone : Doc(k) = d
      OBVIOUS
    <2> QED BY <2>2, <2>3 DEF Keys
  <1> HIDE DEF gone
  <1>3. IngestsTyped'
    BY <1>1, Known DEF IngestsTyped
  <1>4. RecordsPrivate' /\ EvidenceStored'
    <2>1. CASE backend = "db"
      BY <1>1, <2>1 DEF LibraryIInv, RecordsPrivate, EvidenceStored, Evidence
    <2>2. CASE backend # "db"
      <3>1. Owned(chunks')
        BY <1>1, <2>2, Known DEF Owned
      <3>2. /\ Private(ents', disclosed) /\ Evidence(ents') \subseteq Keys(chunks) \ gone
            /\ Private(rels', disclosed) /\ Evidence(rels') \subseteq Keys(chunks) \ gone
        <4>1. ents' = Prune(ents, gone) /\ rels' = Prune(rels, gone)
          BY <1>1, <2>2
        <4>2. /\ Private(ents, disclosed) /\ Evidence(ents) \subseteq Keys(chunks)
              /\ Private(rels, disclosed) /\ Evidence(rels) \subseteq Keys(chunks)
          BY Known
        <4>3. Private(Prune(ents, gone), disclosed) /\ Evidence(Prune(ents, gone)) \subseteq Keys(chunks) \ gone
          BY <4>2, PruneFits
        <4>4. Private(Prune(rels, gone), disclosed) /\ Evidence(Prune(rels, gone)) \subseteq Keys(chunks) \ gone
          BY <4>2, PruneFits
        <4> QED BY <4>1, <4>3, <4>4 DEF Evidence
      <3>3. Keys(chunks') = Keys(chunks) \ gone
        BY <1>1, <1>2, <2>2
      <3>4. EvidenceStored'
        BY <1>1, <2>2, <3>2, <3>3 DEF EvidenceStored, Keys
      <3> QED BY <1>1, <3>1, <3>2, <3>4, Known DEF RecordsPrivate
    <2> QED BY <2>1, <2>2
  <1>5. CacheWhole'
    BY <1>1 DEF LibraryIInv, CacheWhole, Evidence, Keys
  <1>6. IngestsInTurn'
    BY <1>1 DEF LibraryIInv, IngestsInTurn, Running
  <1>7. StepsStored'
    <2> SUFFICES ASSUME backend = "db", NEW e \in Docs PROVE StoredFor(e)'
      BY <1>1, ByDocument DEF StepsStored, StoredFor
    <2>1. StoredFor(e)
      BY Known
    <2> QED BY <1>1, <2>1, SameText DEF StoredFor, HalfStored, Keys
  <1>8. HashesTell'
    <2> SUFFICES ASSUME NEW e \in Docs PROVE TellsOf(e)'
      BY DEF HashesTell, TellsOf
    <2>1. TellsOf(e)
      BY Known
    <2>2. CASE backend = "db"
      BY <1>1, <2>1, <2>2 DEF TellsOf, Keys, ChunksAt, HalfStored
    <2>3. CASE backend # "db" /\ e = d
      BY <1>1, <2>3, Known DEF TellsOf
    <2>4. CASE backend # "db" /\ e # d
      <3>1. hashes'[e] = hashes[e] /\ chunks' = {c \in chunks : Doc(c.key) # d} /\ ~ HalfStored(e)
        BY <1>1, <2>4, Known DEF HalfStored
      <3>2. ChunksAt(e, hashes[e]) \subseteq chunks => ChunksAt(e, hashes[e]) \subseteq chunks'
        BY <2>4, <3>1, ChunksOwned
      <3> QED BY <1>1, <2>1, <2>4, <3>1, <3>2 DEF TellsOf, ChunksAt
    <2> QED BY <2>2, <2>3, <2>4
  <1> QED BY <1>3, <1>4, <1>5, <1>6, <1>7, <1>8 DEF LibraryIInv

(* An approved pair writes a record that was there, or one read before, with *)
(* more evidence, and discloses all it adds.                                *)
LEMMA JoinKeeps ==
    ASSUME LibraryIInv, NEW t, NEW s, Join(t, s), GraphOnly,
           Private({t}, disclosed), t.from \cup s.from \subseteq Keys(chunks),
           backend = "db" => <<t.key, t.lib>> \in mirror
    PROVE  LibraryIInv'
  <1> DEFINE joined == [t EXCEPT !.from = @ \cup s.from]
             shown == disclosed \cup {<<k, t.lib>> : k \in s.from}
  <1>1. joined.from = t.from \cup s.from /\ joined.lib = t.lib /\ joined.key = t.key
    OBVIOUS
  <1>2. ents' = UpsertGraph({joined}, ents) /\ disclosed' = shown
    BY DEF Join
  <1>3. Private({joined}, shown)
    BY <1>1 DEF Private
  <1>4. \A records : Private(records, disclosed) => Private(records, shown)
    BY DEF Private
  <1> HIDE DEF joined, shown
  <1>5. /\ backend' = backend /\ corpus' = corpus /\ chunks' = chunks /\ rels' = rels /\ mirror' = mirror
        /\ hashes' = hashes /\ sparse' = sparse /\ cache' = cache /\ serve' = serve /\ left' = left
        /\ phase' = phase /\ nodes' = nodes /\ torn' = torn
    BY DEF GraphOnly
  <1>6. Keys(ents) \subseteq Keys(ents') /\ ents' \subseteq {joined} \cup ents
    BY <1>2, UpsertIn, UpsertKeys
  <1>7. IngestsTyped'
    BY <1>5, Known DEF IngestsTyped
  <1>8. RecordsPrivate'
    <2>1. Private(ents', shown)
      BY <1>2, <1>3, <1>4, Known, UpsertPrivate
    <2>2. /\ Private(rels, shown) /\ Private(cache.ents, shown) /\ Private(cache.rels, shown)
          /\ Owned(chunks) /\ Owned(cache.chunks) /\ Owned(sparse)
      BY <1>4, Known
    <2> QED BY <1>2, <1>5, <2>1, <2>2 DEF RecordsPrivate
  <1>9. EvidenceStored'
    <2>1. Evidence(ents') \subseteq Keys(chunks) /\ Evidence(rels) \subseteq Keys(chunks)
      BY <1>1, <1>6, Known DEF Evidence
    <2>2. backend = "db" => \A e \in ents' : <<e.key, e.lib>> \in mirror
      BY <1>1, <1>6, Known
    <2>3. Evidence(rels)' = Evidence(rels) /\ Evidence(ents)' = Evidence(ents')
      BY <1>5 DEF Evidence
    <2> QED BY <1>5, <2>1, <2>2, <2>3 DEF EvidenceStored, Keys
  <1>10. CacheWhole'
    BY <1>5 DEF LibraryIInv, CacheWhole, Evidence, Keys
  <1>11. IngestsInTurn'
    BY <1>5, SameText DEF LibraryIInv, IngestsInTurn, Running
  <1>12. StepsStored'
    BY <1>5, <1>6, SameText DEF LibraryIInv, StepsStored, HalfStored
  <1>13. HashesTell'
    BY <1>5, <1>6 DEF LibraryIInv, HashesTell, HalfStored
  <1> QED BY <1>7, <1>8, <1>9, <1>10, <1>11, <1>12, <1>13 DEF LibraryIInv

(* A record of the graph may be joined.                                     *)
LEMMA RecordKnown ==
    ASSUME LibraryIInv, NEW t \in ents
    PROVE  /\ Private({t}, disclosed) /\ t.from \subseteq Keys(chunks)
           /\ backend = "db" => <<t.key, t.lib>> \in mirror
  BY Known DEF Private, Evidence

LEMMA JoinAtOnceKeeps ==
    ASSUME LibraryIInv, JoinAtOnce
    PROVE  LibraryIInv'
  <1>1. PICK t \in ents, s \in ents : Join(t, s) /\ GraphOnly
    BY DEF JoinAtOnce, Entity
  <1> QED BY <1>1, RecordKnown, JoinKeeps

LEMMA PutPairKeeps ==
    ASSUME LibraryIInv, VerdictIInv, PutPair
    PROVE  LibraryIInv'
  <1>1. PICK t \in verdict.target, s \in verdict.source : Join(t, s) /\ GraphOnly
    BY DEF PutPair
  <1>2. verdict # NoVerdict
    BY <1>1 DEF NoVerdict
  <1>3. t.from \cup s.from \subseteq Keys(chunks) /\ Private({t}, disclosed) /\ <<t.key, t.lib>> \in mirror
    BY <1>1, <1>2 DEF VerdictIInv, Evidence, Private
  <1> QED BY <1>1, <1>3, JoinKeeps

LEMMA SameLibrary ==
    ASSUME LibraryIInv,
           backend' = backend /\ corpus' = corpus /\ chunks' = chunks /\ ents' = ents /\ rels' = rels,
           mirror' = mirror /\ hashes' = hashes /\ sparse' = sparse /\ cache' = cache /\ serve' = serve,
           left' = left /\ torn' = torn /\ disclosed' = disclosed /\ nodes' = nodes /\ phase' = phase
    PROVE  LibraryIInv'
  <1>1. IngestsTyped' /\ RecordsPrivate' /\ EvidenceStored' /\ CacheWhole'
    BY DEF LibraryIInv, IngestsTyped, RecordsPrivate, EvidenceStored, CacheWhole, Evidence, Keys
  <1>2. IngestsInTurn'
    BY SameText DEF LibraryIInv, IngestsInTurn, Running
  <1>3. StepsStored'
    BY SameText DEF LibraryIInv, StepsStored, HalfStored, Keys
  <1>4. HashesTell'
    BY DEF LibraryIInv, HashesTell, HalfStored, Keys
  <1> QED BY <1>1, <1>2, <1>3, <1>4 DEF LibraryIInv

LEMMA NextLibrary == LibraryIInv /\ VerdictIInv /\ [Next]_vars => LibraryIInv'
  <1> SUFFICES ASSUME LibraryIInv, VerdictIInv, [Next]_vars PROVE LibraryIInv'
    OBVIOUS
  <1>1. CASE Start \/ NextSeed \/ Listen \/ Stop
    BY <1>1, StartKeeps, NextSeedKeeps, ListenKeeps, StopKeeps
  <1>2. ASSUME NEW d \in Seeds, EditFile(d) \/ SeedIngested(d) PROVE LibraryIInv'
    BY <1>2, EditFileKeeps, SeedIngestedKeeps
  <1>3. ASSUME NEW d \in Uploads, Upload(d) PROVE LibraryIInv'
    BY <1>3, UploadKeeps
  <1>4. ASSUME NEW d \in Docs, LoadAtOnce(d) \/ DeriveAtOnce(d) \/ PutOne(d) \/ Fail(d) PROVE LibraryIInv'
    BY <1>4, LoadAtOnceKeeps, DeriveAtOnceKeeps, PutOneKeeps, FailKeeps
  <1>5. ASSUME NEW u \in Users, NEW d \in Docs, Delete(u, d) PROVE LibraryIInv'
    BY <1>5, DeleteKeeps
  <1>6. CASE JoinAtOnce \/ PutPair
    BY <1>6, JoinAtOnceKeeps, PutPairKeeps
  <1>7. CASE ReadTarget \/ ReadSource \/ UNCHANGED vars
    <2>1. /\ backend' = backend /\ corpus' = corpus /\ chunks' = chunks /\ ents' = ents /\ rels' = rels
          /\ mirror' = mirror /\ hashes' = hashes /\ sparse' = sparse /\ cache' = cache /\ serve' = serve
          /\ left' = left /\ torn' = torn /\ disclosed' = disclosed /\ nodes' = nodes /\ phase' = phase
      BY <1>7 DEF ReadTarget, ReadSource, GraphOnly, vars, stores, review
    <2> QED BY <2>1, SameLibrary
  <1> QED BY <1>1, <1>2, <1>3, <1>4, <1>5, <1>6, <1>7 DEF Next

(* What is stored only grows on databases.                                  *)
LEMMA VerdictStays ==
    ASSUME VerdictIInv, verdict' = verdict \/ verdict' = NoVerdict,
           disclosed \subseteq disclosed',
           verdict' # NoVerdict /\ backend = "db" /\ serve = "up" =>
               /\ backend' = "db" /\ serve' = "up"
               /\ Keys(chunks) \subseteq Keys(chunks') /\ mirror \subseteq mirror'
    PROVE  VerdictIInv'
  <1> SUFFICES ASSUME verdict' # NoVerdict
               PROVE  /\ backend' = "db" /\ serve' = "up"
                      /\ Evidence(verdict'.target) \cup Evidence(verdict'.source) \subseteq Keys(chunks')
                      /\ \A t \in verdict'.target : <<t.key, t.lib>> \in mirror'
                      /\ Private(verdict'.target, disclosed')
    BY DEF VerdictIInv, NoVerdict, Evidence, Keys
  <1>1. verdict' = verdict /\ verdict # NoVerdict
    OBVIOUS
  <1> QED BY <1>1 DEF VerdictIInv, Private

LEMMA NextVerdict == LibraryIInv /\ VerdictIInv /\ [Next]_vars => VerdictIInv'
  <1> SUFFICES ASSUME LibraryIInv, VerdictIInv, [Next]_vars PROVE VerdictIInv'
    OBVIOUS
  <1>1. CASE Start \/ NextSeed \/ Listen \/ \E d \in Seeds : EditFile(d) \/ SeedIngested(d)
    <2>1. verdict' = verdict /\ disclosed' = disclosed /\ serve # "up"
      BY <1>1 DEF Start, NextSeed, Begin, Listen, EditFile, SeedIngested, review
    <2> QED BY <2>1, VerdictStays
  <1>2. CASE Stop \/ \E d \in Docs : Fail(d)
    <2>1. /\ verdict' = IF serve' = "up" THEN verdict ELSE NoVerdict
          /\ disclosed' = disclosed /\ backend' = backend /\ chunks' = chunks /\ mirror' = mirror
      BY <1>2 DEF Stop, Fail, Unreviewed, stores
    <2> QED BY <2>1, VerdictStays DEF Keys
  <1>3. ASSUME NEW d \in Docs, Upload(d) \/ LoadAtOnce(d) \/ DeriveAtOnce(d) PROVE VerdictIInv'
    <2>1. /\ verdict' = verdict /\ disclosed' = disclosed /\ backend' = backend /\ serve' = serve
          /\ backend = "db" => chunks' = chunks /\ mirror' = mirror
      BY <1>3 DEF Upload, Begin, LoadAtOnce, DeriveAtOnce, Elsewhere, review, stores
    <2> QED BY <2>1, VerdictStays DEF Keys
  <1>4. ASSUME NEW d \in Docs, PutOne(d) PROVE VerdictIInv'
    <2>1. verdict' = verdict /\ disclosed' = disclosed /\ backend' = backend /\ serve' = serve
      BY <1>4 DEF PutOne, Elsewhere, review
    <2>2. mirror \subseteq mirror' /\ (chunks' = chunks \/ chunks' = Upsert(ChunksOf(d), chunks))
      BY <1>4 DEF PutOne, PutChunks, PutMirror, PutNode, PutEdge, PutComms, PutHash, PutDerived, PutCards, StoreChunks
    <2>3. Keys(chunks) \subseteq Keys(chunks')
      BY <2>2, UpsertKeys DEF Keys
    <2> QED BY <2>1, <2>2, <2>3, VerdictStays
  <1>5. ASSUME NEW u \in Users, NEW d \in Docs, Delete(u, d) PROVE VerdictIInv'
    <2>1. /\ verdict' = verdict /\ disclosed' = disclosed /\ backend' = backend /\ serve' = serve
          /\ backend = "db" => chunks' = chunks /\ mirror' = mirror
      BY <1>5 DEF Delete, review, stores
    <2> QED BY <2>1, VerdictStays DEF Keys
  <1>6. CASE JoinAtOnce \/ PutPair
    <2>1. (verdict' = verdict \/ verdict' = NoVerdict) /\ disclosed \subseteq disclosed' /\ GraphOnly
      BY <1>6 DEF JoinAtOnce, PutPair, Join
    <2> QED BY <2>1, VerdictStays DEF GraphOnly, Keys
  <1>7. CASE ReadTarget
    <2>1. PICK t \in ents : /\ verdict'.target = {t} /\ verdict'.source = {}
                             /\ serve = "up" /\ backend = "db"
      BY <1>7 DEF ReadTarget, Pairable
    <2>2. /\ backend' = backend /\ serve' = serve /\ chunks' = chunks /\ mirror' = mirror
          /\ disclosed' = disclosed
      BY <1>7 DEF ReadTarget, GraphOnly
    <2>3. t.from \subseteq Keys(chunks) /\ <<t.key, t.lib>> \in mirror /\ Private({t}, disclosed)
      BY <2>1, RecordKnown
    <2> QED BY <2>1, <2>2, <2>3 DEF VerdictIInv, Evidence, Keys
  <1>8. CASE ReadSource
    <2>1. /\ backend' = backend /\ serve' = serve /\ chunks' = chunks /\ mirror' = mirror
          /\ disclosed' = disclosed /\ verdict # NoVerdict
      BY <1>8 DEF ReadSource, GraphOnly
    <2>2. PICK s : s = Entity(verdict.author, verdict.name)
      OBVIOUS
    <2>3. CASE s = {}
      <3>1. verdict' = NoVerdict
        BY <1>8, <2>2, <2>3 DEF ReadSource
      <3> QED BY <2>1, <3>1, VerdictStays
    <2>4. CASE s # {}
      <3>1. verdict' = [verdict EXCEPT !.source = s]
        BY <1>8, <2>2, <2>4 DEF ReadSource
      <3>2. verdict'.target = verdict.target /\ Evidence(verdict'.source) \subseteq Evidence(s)
        BY <3>1 DEF Evidence
      <3>3. Evidence(s) \subseteq Keys(chunks)
        BY <2>2, Known DEF Entity, Evidence
      <3>4. Evidence(verdict'.target) \cup Evidence(verdict'.source) \subseteq Keys(chunks)
        BY <2>1, <3>2, <3>3 DEF VerdictIInv, Evidence
      <3> QED BY <2>1, <3>2, <3>4 DEF VerdictIInv, Evidence, Keys
    <2> QED BY <2>3, <2>4
  <1>9. CASE UNCHANGED vars
    BY <1>9, VerdictStays DEF vars, review, stores, Keys
  <1>10. Uploads \subseteq Docs
    BY DocsAreNumbers
  <1> QED BY <1>1, <1>2, <1>3, <1>4, <1>5, <1>6, <1>7, <1>8, <1>9, <1>10 DEF Next

LEMMA InitVerdict == Init => VerdictIInv
  BY DEF Init, VerdictIInv

THEOREM LibraryInvariant == Spec => [](LibraryIInv /\ VerdictIInv)
  BY InitLibrary, NextLibrary, InitVerdict, NextVerdict, PTL DEF Spec

----------------------------------------------------------------------------
(* What a user may read of the graph cites only what the user may read, or   *)
(* what was disclosed to a library of theirs.                               *)
LEMMA Reached ==
    ASSUME LibraryIInv, NEW u, NEW r \in ents \cup rels, Sees(u, r.lib), NEW c \in chunks, c.key \in r.from
    PROVE  Sees(u, c.lib) \/ DisclosedTo(u, c)
  <1>1. c.lib = Lib(Doc(c.key)) /\ (Lib(Doc(c.key)) = r.lib \/ <<c.key, r.lib>> \in disclosed)
    BY Known DEF Owned, Private
  <1>2. ASSUME NEW p \in disclosed, p = <<c.key, r.lib>> PROVE DisclosedTo(u, c)
    BY <1>2 DEF DisclosedTo
  <1> QED BY <1>1, <1>2

LEMMA LocalVisible ==
    ASSUME LibraryIInv, NEW u, NEW n, NEW c \in Local(u, n)
    PROVE  Sees(u, c.lib) \/ DisclosedTo(u, c)
  <1> DEFINE front[h \in Nat] == IF h = 0 THEN {n}
                                 ELSE {e.key : e \in UNION {Neighbours(u, m) : m \in front[h - 1]}}
             met == UNION {front[h] : h \in 0..Hops}
             Cited(m) == Evidence(Entity(u, m) \cup Neighbours(u, m)) \cup Evidence(Touching(u, m))
  <1>1. c \in ByIds(UNION {Cited(m) : m \in met})
    BY DEF Local
  <1> HIDE DEF front, met
  <1>2. \A m : Neighbours(u, m) \subseteq {e \in ents : Sees(u, e.lib)}
    BY DEF Neighbours, Entity
  <1>3. \A m : Entity(u, m) \subseteq {e \in ents : Sees(u, e.lib)}
    BY DEF Entity
  <1>4. \A m : Touching(u, m) \subseteq {r \in rels : Sees(u, r.lib)}
    BY DEF Touching
  <1>5. c \in chunks /\ \E m : c.key \in Cited(m)
    BY <1>1 DEF ByIds
  <1>6. \E r \in ents \cup rels : Sees(u, r.lib) /\ c.key \in r.from
    BY <1>2, <1>3, <1>4, <1>5 DEF Evidence
  <1> QED BY <1>5, <1>6, Reached

LEMMA GlobalVisible ==
    ASSUME LibraryIInv, NEW u, NEW c \in Global(u)
    PROVE  Sees(u, c.lib) \/ DisclosedTo(u, c)
  <1>1. c \in chunks /\ \E r \in ents : Sees(u, r.lib) /\ c.key \in r.from
    BY DEF Global, ByIds, Evidence, Entity
  <1> QED BY <1>1, Reached

(* Dense, sparse, graph and community search give a user only chunks of the *)
(* libraries the user may see and those an approved pair has had cited in   *)
(* one of them, though the last two fetch chunks by id and ask nobody:      *)
(* whatever was ingested, cut off, deleted, loaded from the cache, joined   *)
(* or written back from an older read.                                      *)
THEOREM SearchesVisible == Spec => []RetrievalVisible
  <1>1. ASSUME LibraryIInv, NEW u \in Users, NEW c \in FoundBy(u)
        PROVE  Sees(u, c.lib) \/ DisclosedTo(u, c)
    BY <1>1, LocalVisible, GlobalVisible DEF FoundBy, Dense, Sparse
  <1>2. LibraryIInv => RetrievalVisible
    BY <1>1 DEF RetrievalVisible
  <1> QED BY <1>2, LibraryInvariant, PTL

(* Every chunk an entity or a relation cites can be read, and no node is in *)
(* Neo4j without its PostgreSQL row, wherever ingests were cut off.         *)
THEOREM CitationsStored == Spec => []EvidenceStored
  <1>1. LibraryIInv => EvidenceStored
    BY DEF LibraryIInv
  <1> QED BY <1>1, LibraryInvariant, PTL

(* A document the next ingest would pass over is stored as it now reads, if *)
(* none of its ingests was cut off since its fingerprint was recorded.      *)
THEOREM FingerprintsTell == Spec => []HashMeansIngested
  <1>1. ASSUME LibraryIInv, NEW d \in Docs, hashes[d] = corpus[d]
        PROVE  /\ d \notin torn => ChunksOf(d) \subseteq chunks
               /\ backend = "db" => Content(d).names \subseteq Keys(ents)
    <2>1. TellsOf(d) /\ corpus[d] # 0 /\ (backend = "db" => StoredFor(d))
      BY <1>1, Known
    <2>2. HalfStored(d) => ChunksOf(d) \subseteq chunks
      BY <2>1 DEF HalfStored, StoredFor
    <2> QED BY <1>1, <2>1, <2>2 DEF TellsOf, ChunksOf, Content
  <1>2. LibraryIInv => HashMeansIngested
    BY <1>1 DEF HashMeansIngested, Keys
  <1> QED BY <1>2, LibraryInvariant, PTL

(* serve listens only over the demo files as they now read: each of them    *)
(* was ingested since it started, passed over by its fingerprint, or came   *)
(* from a cache made of exactly these files.                                *)
THEOREM ListensToCurrent == Spec => SeedsCurrent
  <1> DEFINE Current == /\ \A d \in Seeds \ torn : ChunksOf(d) \subseteq chunks'
                        /\ backend = "memory" => chunks' = UNION {ChunksOf(d) : d \in Seeds}
  <1>1. ASSUME LibraryIInv, Start, serve' = "up" PROVE Current
    <2>1. backend = "memory" /\ cache # Nothing /\ cache.key = SeedKey /\ chunks' = cache.chunks
      BY <1>1 DEF Start
    <2>2. cache.chunks = UNION {ChunksAt(d, cache.key[d]) : d \in Seeds}
      BY <1>1, <2>1, Known DEF CacheWhole
    <2>3. \A d \in Seeds : ChunksAt(d, cache.key[d]) = ChunksOf(d)
      BY <2>1 DEF SeedKey, ChunksOf
    <2>4. chunks' = UNION {ChunksOf(d) : d \in Seeds}
      BY <2>1, <2>2, <2>3
    <2> QED BY <2>4
  <1>2. ASSUME LibraryIInv, Listen PROVE Current
    <2>1. serve = "seeding" /\ chunks' = chunks /\ \A d \in Seeds : phase[d] = "done" /\ d \in Docs
      BY <1>2, Seeding, DocsAreNumbers DEF Listen
    <2>2. CASE backend = "memory"
      <3>1. {e \in Seeds : phase[e] \in {"derive", "done"}} = Seeds
        BY <2>1
      <3>2. chunks = UNION {ChunksOf(d) : d \in Seeds}
        BY <1>2, <2>1, <2>2, <3>1, Seeding
      <3> QED BY <2>1, <3>2
    <2>3. CASE backend = "db"
      <3>1. ASSUME NEW d \in Seeds \ torn PROVE ChunksOf(d) \subseteq chunks
        <4>1. hashes[d] = corpus[d] /\ corpus[d] # 0 /\ TellsOf(d) /\ ~ HalfStored(d)
          BY <1>2, <2>1, <2>3, Seeding, Known DEF HalfStored
        <4> QED BY <4>1 DEF TellsOf, ChunksOf
      <3> QED BY <2>1, <2>3, <3>1
    <2> QED BY <1>2, <2>2, <2>3, Known
  <1>3. ASSUME Next, serve # "up", serve' = "up" PROVE Start \/ Listen
    <2>1. \A d \in Docs : ~ LoadAtOnce(d) /\ ~ DeriveAtOnce(d) /\ ~ PutOne(d)
      BY <1>3 DEF LoadAtOnce, DeriveAtOnce, PutOne, Elsewhere, review
    <2>2. ~ NextSeed /\ ~ Stop
      BY <1>3 DEF NextSeed, Stop, Begin
    <2>3. \A d : ~ EditFile(d) /\ ~ SeedIngested(d) /\ ~ Upload(d) /\ ~ Fail(d) /\ \A u : ~ Delete(u, d)
      BY <1>3 DEF EditFile, SeedIngested, Upload, Begin, Fail, Delete
    <2>4. ~ JoinAtOnce /\ ~ ReadTarget /\ ~ ReadSource /\ ~ PutPair
      BY <1>3 DEF JoinAtOnce, ReadTarget, ReadSource, PutPair, GraphOnly
    <2> QED BY <1>3, <2>1, <2>2, <2>3, <2>4 DEF Next
  <1>4. LibraryIInv /\ [Next]_vars =>
          [serve # "up" /\ serve' = "up" =>
             /\ \A d \in Seeds \ torn : ChunksOf(d) \subseteq chunks'
             /\ backend = "memory" => chunks' = UNION {ChunksOf(d) : d \in Seeds}]_vars
    BY <1>1, <1>2, <1>3
  <1> QED BY <1>4, LibraryInvariant, PTL DEF Spec, SeedsCurrent

----------------------------------------------------------------------------
(* The types, and that a key has one record: the components of an ingest    *)
(* have numbers of their own, and what is stored fits what was there.       *)

(* The components of a document's entities are its classes: two that share  *)
(* a name are the same.                                                     *)
LEMMA ComponentClosed ==
    ASSUME NEW d, NEW n \in Content(d).names
    PROVE  /\ n \in Component(d, n) /\ Component(d, n) \subseteq Content(d).names
           /\ Closed(d, Component(d, n))
           /\ \A S \in SUBSET Content(d).names : n \in S /\ Closed(d, S) => Component(d, n) \subseteq S
  <1>1. Closed(d, Component(d, n))
    <2> SUFFICES ASSUME NEW e \in Content(d).links, NEW m \in {e[1], e[2]} \cap Content(d).names,
                        NEW o \in {e[1], e[2]} \cap Content(d).names, m \in Component(d, n)
                 PROVE  o \in Component(d, n)
      BY DEF Closed
    <2>1. ASSUME NEW S \in SUBSET Content(d).names, n \in S, Closed(d, S) PROVE o \in S
      <3>1. m \in S
        BY <2>1 DEF Component
      <3> QED BY <2>1, <3>1 DEF Closed
    <2> QED BY <2>1 DEF Component
  <1> QED BY <1>1 DEF Component

LEMMA SameComponent ==
    ASSUME NEW d, NEW n \in Content(d).names, NEW m \in Component(d, n)
    PROVE  Component(d, m) = Component(d, n)
  <1> DEFINE names == Content(d).names
             C == Component(d, n)
             D == Component(d, m)
             rest == names \ D
  <1>1. m \in names /\ n \in C /\ C \subseteq names /\ Closed(d, C)
    BY ComponentClosed
  <1>2. m \in D /\ D \subseteq names /\ Closed(d, D) /\ D \subseteq C
    BY <1>1, ComponentClosed
  <1>3. Closed(d, rest)
    BY <1>2 DEF Closed
  <1>4. n \in D
    <2> SUFFICES ASSUME n \in rest PROVE FALSE
      OBVIOUS
    <2>1. C \subseteq rest
      BY <1>3, ComponentClosed
    <2> QED BY <1>2, <2>1
  <1>5. C \subseteq D
    BY <1>2, <1>4, ComponentClosed
  <1> QED BY <1>2, <1>5

LEMMA MinIn ==
    ASSUME NEW S, S \subseteq Nat, S # {}
    PROVE  Min(S) \in S /\ \A x \in S : Min(S) <= x
  <1>1. \E x \in S : \A y \in S : x <= y
    BY Smallest
  <1> QED BY <1>1 DEF Min

(* Their numbers tell them apart.                                           *)
LEMMA NumbersDiffer ==
    ASSUME NEW comps, IsFiniteSet(comps), \A c \in comps : c \subseteq Nat /\ c # {},
           \A c, e \in comps : c \cap e # {} => c = e,
           NEW c \in comps, NEW e \in comps,
           Cardinality({o \in comps : Min(o) < Min(c)}) = Cardinality({o \in comps : Min(o) < Min(e)})
    PROVE  c = e
  <1> DEFINE before(x) == {o \in comps : Min(o) < Min(x)}
  <1>1. \A x \in comps : Min(x) \in x /\ Min(x) \in Nat
    BY MinIn
  <1>2. ASSUME NEW x \in comps, NEW y \in comps, Min(x) < Min(y)
        PROVE  Cardinality(before(x)) # Cardinality(before(y))
    <2>1. IsFiniteSet(before(y))
      BY FS_Subset
    <2>2. before(x) \in SUBSET before(y)
      BY <1>1, <1>2
    <2>3. x \in before(y) /\ x \notin before(x)
      BY <1>1, <1>2
    <2> HIDE DEF before
    <2> QED BY <2>1, <2>2, <2>3, FS_Subset
  <1>3. ~(Min(c) < Min(e)) /\ ~(Min(e) < Min(c))
    BY <1>2
  <1>4. Min(c) = Min(e)
    BY <1>1, <1>3
  <1> QED BY <1>1, <1>4

(* Records that fit a store: of their type, and one for a key.              *)
Homes == Users \cup {Team}
Labels == {<<"comm", i>> : i \in Nat} \cup {<<"comm", i, d>> : i \in Nat, d \in Docs} \cup {<<"doc", d>> : d \in Docs}
TextsFit(texts) == OnePerKey(texts) /\ \A c \in texts : Doc(c.key) \in Docs /\ c.lib \in Homes
EntitiesFit(records) == OnePerKey(records) /\ \A r \in records : DOMAIN r = {"key", "from", "lib"} /\ r.key \in Nat /\ r.lib \in Homes
RelationsFit(records) == OnePerKey(records) /\ \A r \in records : DOMAIN r = {"key", "from", "lib"}
CommsFit(records) == OnePerKey(records) /\ \A c \in records : DOMAIN c = {"key", "members", "lib"} /\ c.key \in Labels

LEMMA PartsFit ==
    ASSUME NEW records, NEW part, part \subseteq records
    PROVE  /\ TextsFit(records) => TextsFit(part)
           /\ EntitiesFit(records) => EntitiesFit(part)
           /\ RelationsFit(records) => RelationsFit(part)
  BY DEF TextsFit, EntitiesFit, RelationsFit, OnePerKey

LEMMA UpsertsFit ==
    ASSUME NEW new, NEW old
    PROVE  /\ TextsFit(new) /\ TextsFit(old) => TextsFit(Upsert(new, old))
           /\ EntitiesFit(new) /\ EntitiesFit(old) => EntitiesFit(Upsert(new, old)) /\ EntitiesFit(UpsertGraph(new, old))
           /\ RelationsFit(new) /\ RelationsFit(old) => RelationsFit(UpsertGraph(new, old))
           /\ CommsFit(new) /\ CommsFit(old) => CommsFit(Upsert(new, old))
  <1>1. OnePerKey(new) /\ OnePerKey(old) => OnePerKey(Upsert(new, old))
    BY DEF OnePerKey, Upsert
  <1> QED BY <1>1, UpsertIn DEF TextsFit, EntitiesFit, RelationsFit, CommsFit

LEMMA PrunesFit ==
    ASSUME NEW records, NEW gone
    PROVE  /\ EntitiesFit(records) => EntitiesFit(Prune(records, gone))
           /\ RelationsFit(records) => RelationsFit(Prune(records, gone))
  <1>1. ASSUME NEW r \in Prune(records, gone), \A o \in records : DOMAIN o = {"key", "from", "lib"}
        PROVE  \E o \in records : r = [o EXCEPT !.from = @ \ gone] /\ r.key = o.key /\ r.lib = o.lib
                                  /\ DOMAIN r = {"key", "from", "lib"}
    <2>1. PICK o \in records : r = [o EXCEPT !.from = @ \ gone]
      BY DEF Prune
    <2>2. r.key = o.key /\ r.lib = o.lib /\ DOMAIN r = {"key", "from", "lib"}
      BY <1>1, <2>1
    <2> QED BY <2>1, <2>2
  <1>2. ASSUME OnePerKey(records), \A o \in records : DOMAIN o = {"key", "from", "lib"}
        PROVE  OnePerKey(Prune(records, gone))
    <2> SUFFICES ASSUME NEW r \in Prune(records, gone), NEW s \in Prune(records, gone), r.key = s.key
                 PROVE  r = s
      BY DEF OnePerKey
    <2>1. PICK o \in records : r = [o EXCEPT !.from = @ \ gone] /\ r.key = o.key
      BY <1>1, <1>2
    <2>2. PICK p \in records : s = [p EXCEPT !.from = @ \ gone] /\ s.key = p.key
      BY <1>1, <1>2
    <2>3. o = p
      BY <1>2, <2>1, <2>2 DEF OnePerKey
    <2> QED BY <2>1, <2>2, <2>3
  <1> QED BY <1>1, <1>2 DEF EntitiesFit, RelationsFit

(* What an ingest derives from a document fits.                             *)
LEMMA DerivedFits ==
    ASSUME LibraryIInv, NEW d \in Docs
    PROVE  /\ TextsFit(ChunksOf(d)) /\ EntitiesFit(EntitiesOf(d)) /\ RelationsFit(RelationsOf(d))
           /\ CommsFit(CommunitiesOf(d)) /\ CommsFit(DocCommunityOf(d))
           /\ \A c \in CommunitiesOf(d) \cup DocCommunityOf(d) : \A i, e : c.key # <<"comm", i, e>>
  <1>1. Lib(d) \in Homes
    BY LibraryAssumption DEF LibraryAssumption, Lib, Homes, Docs
  <1>2. Content(d).names \subseteq Nat /\ IsFiniteSet(Content(d).names)
    BY Known, LibraryAssumption DEF LibraryAssumption, IngestsTyped, Content
  <1>3. TextsFit(ChunksOf(d))
    <2>1. \A c \in ChunksOf(d) : \E i : c = [key |-> <<d, i>>, version |-> corpus[d], lib |-> Lib(d)]
      BY DEF ChunksOf, ChunksAt
    <2> QED BY <1>1, <2>1 DEF TextsFit, OnePerKey, Doc
  <1>4. EntitiesFit(EntitiesOf(d))
    <2>1. \A r \in EntitiesOf(d) : \E n \in Content(d).names : r = [key |-> n, from |-> Found(d, n), lib |-> Lib(d)]
      BY DEF EntitiesOf
    <2> QED BY <1>1, <1>2, <2>1 DEF EntitiesFit, OnePerKey
  <1>5. RelationsFit(RelationsOf(d))
    <2> DEFINE Cited(e) == IF Found(d, e[1]) # {} THEN Found(d, e[1]) ELSE Found(d, e[2])
    <2>1. \A r \in RelationsOf(d) : \E e : r = [key |-> e, from |-> Cited(e), lib |-> Lib(d)]
      BY DEF RelationsOf
    <2> HIDE DEF Cited
    <2> QED BY <2>1 DEF RelationsFit, OnePerKey
  <1>6. CommsFit(DocCommunityOf(d)) /\ \A c \in DocCommunityOf(d) : \A i, e : c.key # <<"comm", i, e>>
    <2> DEFINE members == {n \in Content(d).names : Found(d, n) # {}}
    <2>1. \A c \in DocCommunityOf(d) : c = [key |-> <<"doc", d>>, members |-> members, lib |-> Lib(d)]
      BY DEF DocCommunityOf
    <2> HIDE DEF members
    <2> QED BY <2>1 DEF CommsFit, OnePerKey, Labels
  <1>7. CommsFit(CommunitiesOf(d)) /\ \A c \in CommunitiesOf(d) : \A i, e : c.key # <<"comm", i, e>>
    <2> DEFINE comps == {Component(d, n) : n \in Content(d).names}
               number(c) == Cardinality({o \in comps : Min(o) < Min(c)})
    <2>1. \A c \in CommunitiesOf(d) : \E o \in comps : c = [key |-> <<"comm", number(o)>>, members |-> o, lib |-> Lib(d)]
      BY DEF CommunitiesOf
    <2>2. comps \in SUBSET (SUBSET Content(d).names) /\ IsFiniteSet(SUBSET Content(d).names)
      BY <1>2, ComponentClosed, FS_SUBSET
    <2>3. IsFiniteSet(comps)
      BY <2>2, FS_Subset
    <2>4. \A c \in comps : c \subseteq Nat /\ c # {}
      BY <1>2, ComponentClosed
    <2>5. \A c, e \in comps : c \cap e # {} => c = e
      BY SameComponent
    <2> HIDE DEF comps
    <2>6. \A c, e \in comps : number(c) = number(e) => c = e
      BY <2>3, <2>4, <2>5, NumbersDiffer
    <2>7. ASSUME NEW c \in comps PROVE number(c) \in Nat
      <3>1. IsFiniteSet({o \in comps : Min(o) < Min(c)})
        BY <2>3, FS_Subset
      <3> QED BY <3>1, FS_CardinalityType
    <2> HIDE DEF number
    <2> QED BY <2>1, <2>6, <2>7 DEF CommsFit, OnePerKey, Labels
  <1> QED BY <1>3, <1>4, <1>5, <1>6, <1>7

(* Stores that fit, in memory or in the cache.  In memory, the communities   *)
(* of a demo file get names of their own, which no community has before.    *)
StoresFit(texts, entities, relations, communities, profiles) ==
    /\ TextsFit(texts) /\ EntitiesFit(entities) /\ RelationsFit(relations)
    /\ CommsFit(communities) /\ EntitiesFit(profiles)
NamesFree == backend = "memory" => \A c \in comms : \A i : \A d \in left : c.key # <<"comm", i, d>>
LibraryFits ==
    /\ backend \in Backends
    /\ StoresFit(chunks, ents, rels, comms, cards)
    /\ StoresFit(cache.chunks, cache.ents, cache.rels, cache.comms, cache.cards)
    /\ \A c \in sparse : Doc(c.key) \in Docs /\ c.lib \in Homes
    /\ NamesFree

LEMMA NothingFits == StoresFit({}, {}, {}, {}, {})
  BY DEF StoresFit, TextsFit, EntitiesFit, RelationsFit, CommsFit, OnePerKey

LEMMA InitFits == Init => LibraryFits
  <1> SUFFICES ASSUME Init PROVE LibraryFits
    OBVIOUS
  <1>1. /\ backend \in Backends /\ sparse = {} /\ chunks = {} /\ ents = {} /\ rels = {} /\ comms = {} /\ cards = {}
        /\ cache.chunks = {} /\ cache.ents = {} /\ cache.rels = {} /\ cache.comms = {} /\ cache.cards = {}
    BY DEF Init, Nothing
  <1> QED BY <1>1, NothingFits DEF LibraryFits, NamesFree

(* An ingest's upserts keep the stores as they fit.                         *)
LEMMA StoringFits ==
    ASSUME LibraryIInv, LibraryFits, NEW d \in Docs
    PROVE  /\ TextsFit(Upsert(ChunksOf(d), chunks))
           /\ \A part \in SUBSET EntitiesOf(d) : EntitiesFit(UpsertGraph(part, ents))
           /\ \A part \in SUBSET RelationsOf(d) : RelationsFit(UpsertGraph(part, rels))
           /\ EntitiesFit(Upsert(EntitiesOf(d), cards))
           /\ CommsFit(Upsert(CommunitiesOf(d), comms)) /\ CommsFit(Upsert(DocCommunityOf(d), comms))
           /\ backend = "memory" =>
                \A c \in Upsert(CommunitiesOf(d), comms) \cup Upsert(DocCommunityOf(d), comms) :
                    \A i : \A e \in left : c.key # <<"comm", i, e>>
  <1>1. TextsFit(chunks) /\ EntitiesFit(ents) /\ RelationsFit(rels) /\ CommsFit(comms) /\ EntitiesFit(cards)
    BY DEF LibraryFits, StoresFit
  <1>2. /\ \A part \in SUBSET EntitiesOf(d) : EntitiesFit(part)
        /\ \A part \in SUBSET RelationsOf(d) : RelationsFit(part)
    BY DerivedFits, PartsFit
  <1>3. backend = "memory" =>
          \A c \in Upsert(CommunitiesOf(d), comms) \cup Upsert(DocCommunityOf(d), comms) :
              \A i : \A e \in left : c.key # <<"comm", i, e>>
    BY DerivedFits, UpsertIn DEF LibraryFits, NamesFree
  <1> QED BY <1>1, <1>2, <1>3, DerivedFits, UpsertsFit

(* A step that leaves most of the library alone.                            *)
SameStores == chunks' = chunks /\ ents' = ents /\ rels' = rels /\ comms' = comms /\ cards' = cards
LEMMA StillFits ==
    ASSUME LibraryFits, SameStores, backend' = backend, left' = left, sparse' = sparse, cache' = cache
    PROVE  LibraryFits'
  BY DEF LibraryFits, SameStores, StoresFit, TextsFit, EntitiesFit, RelationsFit, CommsFit, OnePerKey, NamesFree

LEMMA IngestFits ==
    ASSUME LibraryIInv, LibraryFits, NEW d \in Docs, LoadAtOnce(d) \/ DeriveAtOnce(d) \/ PutOne(d)
    PROVE  LibraryFits'
  <1>1. backend' = backend /\ sparse' = sparse /\ cache' = cache /\ left' = left
    BY DEF LoadAtOnce, DeriveAtOnce, PutOne, Elsewhere, review
  <1>2. chunks' \in {chunks, Upsert(ChunksOf(d), chunks)}
    BY DEF LoadAtOnce, DeriveAtOnce, PutOne, PutChunks, PutMirror, PutNode, PutEdge, PutComms, PutHash,
           PutDerived, PutCards, StoreChunks
  <1>3. ents' = ents \/ \E part \in SUBSET EntitiesOf(d) : ents' = UpsertGraph(part, ents)
    <2>1. CASE LoadAtOnce(d) \/ DeriveAtOnce(d)
      BY <2>1 DEF LoadAtOnce, DeriveAtOnce, StoreGraph
    <2>2. CASE PutOne(d)
      BY <2>2 DEF PutOne, PutChunks, PutMirror, PutNode, PutEdge, PutComms, PutHash, PutDerived, PutCards
    <2> QED BY <2>1, <2>2
  <1>4. rels' = rels \/ \E part \in SUBSET RelationsOf(d) : rels' = UpsertGraph(part, rels)
    <2>1. CASE LoadAtOnce(d) \/ DeriveAtOnce(d)
      BY <2>1 DEF LoadAtOnce, DeriveAtOnce, StoreGraph
    <2>2. CASE PutOne(d)
      BY <2>2 DEF PutOne, PutChunks, PutMirror, PutNode, PutEdge, PutComms, PutHash, PutDerived, PutCards
    <2> QED BY <2>1, <2>2
  <1>5. comms' \in {comms, Upsert(CommunitiesOf(d), comms), Upsert(DocCommunityOf(d), comms)}
    BY DEF LoadAtOnce, DeriveAtOnce, PutOne, PutChunks, PutMirror, PutNode, PutEdge, PutComms, PutHash,
           PutDerived, PutCards, StoreComms, Derive
  <1>6. cards' \in {cards, Upsert(EntitiesOf(d), cards)}
    BY DEF LoadAtOnce, DeriveAtOnce, PutOne, PutChunks, PutMirror, PutNode, PutEdge, PutComms, PutHash,
           PutDerived, PutCards, StoreCards
  <1>7. StoresFit(chunks', ents', rels', comms', cards')
    <2>1. TextsFit(chunks) /\ EntitiesFit(ents) /\ RelationsFit(rels) /\ CommsFit(comms) /\ EntitiesFit(cards)
      BY DEF LibraryFits, StoresFit
    <2>2. TextsFit(chunks') /\ CommsFit(comms') /\ EntitiesFit(cards')
      BY <1>2, <1>5, <1>6, <2>1, StoringFits
    <2>3. EntitiesFit(ents')
      BY <1>3, <2>1, StoringFits
    <2>4. RelationsFit(rels')
      BY <1>4, <2>1, StoringFits
    <2> QED BY <2>2, <2>3, <2>4 DEF StoresFit
  <1>8. NamesFree'
    BY <1>1, <1>5, StoringFits DEF LibraryFits, NamesFree
  <1> QED BY <1>1, <1>7, <1>8
          DEF LibraryFits, StoresFit, TextsFit, EntitiesFit, RelationsFit, CommsFit, OnePerKey

LEMMA StartFits ==
    ASSUME LibraryIInv, LibraryFits, Start
    PROVE  LibraryFits'
  <1> DEFINE hit == backend = "memory" /\ cache # Nothing /\ cache.key = SeedKey
             seeded == IF hit THEN cache ELSE Nothing
  <1>1. /\ backend' = backend /\ left' = IF hit THEN {} ELSE Seeds
        /\ cache' = IF hit \/ backend = "db" THEN cache ELSE Nothing
        /\ cards' = seeded.cards /\ sparse' = seeded.chunks
        /\ \/ backend = "db" /\ chunks' = chunks /\ ents' = ents /\ rels' = rels /\ comms' = comms
           \/ backend # "db" /\ chunks' = seeded.chunks /\ ents' = seeded.ents /\ rels' = seeded.rels
              /\ comms' = seeded.comms
    BY DEF Start
  <1>2. /\ Nothing.chunks = {} /\ Nothing.ents = {} /\ Nothing.rels = {} /\ Nothing.comms = {} /\ Nothing.cards = {}
    BY DEF Nothing
  <1>3. /\ StoresFit(seeded.chunks, seeded.ents, seeded.rels, seeded.comms, seeded.cards)
        /\ StoresFit(cache'.chunks, cache'.ents, cache'.rels, cache'.comms, cache'.cards)
    <2>1. StoresFit(Nothing.chunks, Nothing.ents, Nothing.rels, Nothing.comms, Nothing.cards)
      BY <1>2, NothingFits
    <2> QED BY <1>1, <2>1 DEF LibraryFits
  <1>4. backend = "memory" => left' = {} \/ comms' = {}
    BY <1>1, <1>2
  <1> HIDE DEF seeded, hit
  <1>5. StoresFit(chunks', ents', rels', comms', cards')
    BY <1>1, <1>3 DEF LibraryFits, StoresFit
  <1>6. \A c \in sparse' : Doc(c.key) \in Docs /\ c.lib \in Homes
    BY <1>1, <1>3 DEF StoresFit, TextsFit
  <1>7. NamesFree'
    BY <1>1, <1>4 DEF NamesFree
  <1> QED BY <1>1, <1>3, <1>5, <1>6, <1>7
          DEF LibraryFits, StoresFit, TextsFit, EntitiesFit, RelationsFit, CommsFit, OnePerKey

LEMMA ListenFits ==
    ASSUME LibraryFits, Listen
    PROVE  LibraryFits'
  <1>1. /\ backend' = backend /\ chunks' = chunks /\ ents' = ents /\ rels' = rels /\ comms' = comms /\ left' = left
        /\ \/ cards' = {} /\ sparse' = sparse /\ cache' = cache
           \/ /\ cards' = cards /\ sparse' = chunks
              /\ cache' = [chunks |-> chunks, ents |-> ents, rels |-> rels, comms |-> comms,
                           cards |-> cards, key |-> SeedKey]
    BY DEF Listen
  <1>2. StoresFit(chunks', ents', rels', comms', cards')
    BY <1>1, NothingFits DEF LibraryFits, StoresFit
  <1>3. StoresFit(cache'.chunks, cache'.ents, cache'.rels, cache'.comms, cache'.cards)
    BY <1>1 DEF LibraryFits
  <1>4. \A c \in sparse' : Doc(c.key) \in Docs /\ c.lib \in Homes
    BY <1>1 DEF LibraryFits, StoresFit, TextsFit
  <1>5. NamesFree'
    BY <1>1 DEF LibraryFits, NamesFree
  <1> QED BY <1>1, <1>2, <1>3, <1>4, <1>5
          DEF LibraryFits, StoresFit, TextsFit, EntitiesFit, RelationsFit, CommsFit, OnePerKey

(* The new names are new, so they tell the renamed communities apart.       *)
LEMMA RenamingFits ==
    ASSUME LibraryIInv, LibraryFits, NEW d \in Seeds, SeedIngested(d)
    PROVE  LibraryFits'
  <1> DEFINE ByNumber(c) == c.key[1] = "comm" /\ Len(c.key) = 2
             Renamed(c) == IF ByNumber(c) THEN [c EXCEPT !.key = Append(@, d)] ELSE c
  <1>1. /\ backend' = backend /\ chunks' = chunks /\ ents' = ents /\ rels' = rels /\ cards' = cards
        /\ sparse' = sparse /\ cache' = cache /\ d \in left /\ left' = left \ {d}
        /\ comms' = IF backend = "db" THEN comms ELSE {Renamed(c) : c \in comms}
    BY DEF SeedIngested
  <1>2. d \in Docs /\ backend \in {"memory", "db"}
    BY DocsAreNumbers, Known
  <1>3. ASSUME NEW c \in comms
        PROVE  /\ DOMAIN c = {"key", "members", "lib"} /\ DOMAIN Renamed(c) = {"key", "members", "lib"}
               /\ ByNumber(c) => \E i \in Nat : c.key = <<"comm", i>> /\ Renamed(c).key = <<"comm", i, d>>
               /\ ~ ByNumber(c) => Renamed(c) = c
    <2>1. DOMAIN c = {"key", "members", "lib"} /\ c.key \in Labels
      BY DEF LibraryFits, StoresFit, CommsFit
    <2>2. ASSUME ByNumber(c) PROVE \E i \in Nat : c.key = <<"comm", i>>
      <3>1. CASE \E i \in Nat : c.key = <<"comm", i>>
        BY <3>1
      <3>2. ASSUME NEW i \in Nat, NEW e \in Docs, c.key = <<"comm", i, e>> PROVE FALSE
        BY <2>2, <3>2
      <3>3. ASSUME NEW e \in Docs, c.key = <<"doc", e>> PROVE FALSE
        BY <2>2, <3>3
      <3> QED BY <2>1, <3>1, <3>2, <3>3 DEF Labels
    <2>3. ASSUME NEW i \in Nat, c.key = <<"comm", i>>, ByNumber(c) PROVE Renamed(c).key = <<"comm", i, d>>
      <3>1. Renamed(c) = [c EXCEPT !.key = <<"comm", i, d>>]
        BY <2>3
      <3> QED BY <2>1, <3>1
    <2>4. DOMAIN Renamed(c) = {"key", "members", "lib"}
      BY <2>1
    <2> QED BY <2>1, <2>2, <2>3, <2>4
  <1> HIDE DEF ByNumber, Renamed
  <1>4. CASE backend = "db"
    <2>1. SameStores
      BY <1>1, <1>4 DEF SameStores
    <2> QED BY <1>1, <1>4, <2>1
            DEF LibraryFits, SameStores, StoresFit, TextsFit, EntitiesFit, RelationsFit, CommsFit, OnePerKey, NamesFree
  <1>5. CASE backend = "memory"
    <2>1. \A c \in comms : \A i : \A e \in left : c.key # <<"comm", i, e>>
      BY <1>5 DEF LibraryFits, NamesFree
    <2>2. comms' = {Renamed(c) : c \in comms}
      BY <1>1, <1>5
    <2>3. OnePerKey(comms')
      <3> SUFFICES \A c, e \in comms : Renamed(c).key = Renamed(e).key => Renamed(c) = Renamed(e)
        BY <2>2 DEF OnePerKey
      <3> SUFFICES ASSUME NEW c \in comms, NEW e \in comms, Renamed(c).key = Renamed(e).key
                   PROVE  Renamed(c) = Renamed(e)
        OBVIOUS
      <3>1. c.key = e.key => c = e
        BY DEF LibraryFits, StoresFit, CommsFit, OnePerKey
      <3>2. CASE ByNumber(c) /\ ByNumber(e)
        <4>1. PICK i \in Nat : c.key = <<"comm", i>> /\ Renamed(c).key = <<"comm", i, d>>
          BY <1>3, <3>2
        <4>2. PICK j \in Nat : e.key = <<"comm", j>> /\ Renamed(e).key = <<"comm", j, d>>
          BY <1>3, <3>2
        <4>3. <<"comm", i, d>> = <<"comm", j, d>>
          BY <4>1, <4>2
        <4>4. i = j
          BY <4>3
        <4> QED BY <3>1, <4>1, <4>2, <4>4
      <3>3. CASE ByNumber(c) /\ ~ ByNumber(e)
        <4>1. PICK i \in Nat : Renamed(c).key = <<"comm", i, d>>
          BY <1>3, <3>3
        <4>2. e.key = <<"comm", i, d>>
          BY <1>3, <3>3, <4>1
        <4> QED BY <1>1, <2>1, <4>2
      <3>4. CASE ~ ByNumber(c) /\ ByNumber(e)
        <4>1. PICK i \in Nat : Renamed(e).key = <<"comm", i, d>>
          BY <1>3, <3>4
        <4>2. c.key = <<"comm", i, d>>
          BY <1>3, <3>4, <4>1
        <4> QED BY <1>1, <2>1, <4>2
      <3>5. CASE ~ ByNumber(c) /\ ~ ByNumber(e)
        BY <1>3, <3>1, <3>5
      <3> QED BY <3>2, <3>3, <3>4, <3>5
    <2>4. ASSUME NEW c \in comms PROVE Renamed(c).key \in Labels
      <3>1. CASE ByNumber(c)
        <4>1. PICK i \in Nat : Renamed(c).key = <<"comm", i, d>>
          BY <1>3, <3>1
        <4> QED BY <1>2, <4>1 DEF Labels
      <3>2. CASE ~ ByNumber(c)
        <4>1. c.key \in Labels
          BY DEF LibraryFits, StoresFit, CommsFit
        <4> QED BY <1>3, <3>2, <4>1
      <3> QED BY <3>1, <3>2
    <2>5. CommsFit(comms')
      BY <1>3, <2>2, <2>3, <2>4 DEF CommsFit
    <2>6. NamesFree'
      <3>1. ASSUME NEW c \in comms, NEW i, NEW e \in left \ {d} PROVE Renamed(c).key # <<"comm", i, e>>
        BY <1>3, <2>1
      <3>2. \A c \in comms' : \A i : \A e \in left \ {d} : c.key # <<"comm", i, e>>
        BY <2>2, <3>1
      <3>3. left' = left \ {d}
        BY <1>1
      <3> QED BY <3>2, <3>3 DEF NamesFree
    <2> QED BY <1>1, <2>5, <2>6
            DEF LibraryFits, StoresFit, TextsFit, EntitiesFit, RelationsFit, CommsFit, OnePerKey
  <1> QED BY <1>2, <1>4, <1>5

LEMMA DeleteFits ==
    ASSUME LibraryFits, NEW u \in Users, NEW d \in Docs, Delete(u, d)
    PROVE  LibraryFits'
  <1>1. PICK gone : gone = {c.key : c \in {k \in chunks : Doc(k.key) = d /\ Sees(u, k.lib)}}
    OBVIOUS
  <1>2. /\ backend' = backend /\ sparse' = sparse /\ cache' = cache /\ left' = left /\ comms' = comms /\ cards' = cards
        /\ \/ chunks' = chunks /\ ents' = ents /\ rels' = rels
           \/ /\ chunks' = {c \in chunks : Doc(c.key) # d}
              /\ ents' = Prune(ents, gone) /\ rels' = Prune(rels, gone)
    BY <1>1 DEF Delete, stores
  <1>3. TextsFit(chunks') /\ EntitiesFit(ents') /\ RelationsFit(rels')
    <2>1. TextsFit(chunks) /\ EntitiesFit(ents) /\ RelationsFit(rels)
      BY DEF LibraryFits, StoresFit
    <2>2. TextsFit({c \in chunks : Doc(c.key) # d})
      BY <2>1, PartsFit
    <2>3. EntitiesFit(Prune(ents, gone)) /\ RelationsFit(Prune(rels, gone))
      BY <2>1, PrunesFit
    <2> QED BY <1>2, <2>1, <2>2, <2>3
  <1> QED BY <1>2, <1>3
          DEF LibraryFits, StoresFit, TextsFit, EntitiesFit, RelationsFit, CommsFit, OnePerKey, NamesFree

(* An approval writes back a record that fitted.                            *)
VerdictFits == EntitiesFit(verdict.target)
LEMMA JoinFits ==
    ASSUME LibraryFits, NEW t, EntitiesFit({t}), NEW s, Join(t, s), GraphOnly
    PROVE  LibraryFits'
  <1> DEFINE joined == [t EXCEPT !.from = @ \cup s.from]
  <1>1. ents' = UpsertGraph({joined}, ents)
    BY DEF Join
  <1>2. DOMAIN t = {"key", "from", "lib"} /\ t.key \in Nat /\ t.lib \in Homes
    BY DEF EntitiesFit
  <1>3. DOMAIN joined = {"key", "from", "lib"} /\ joined.key \in Nat /\ joined.lib \in Homes
    BY <1>2
  <1> HIDE DEF joined
  <1>4. EntitiesFit({joined}) /\ EntitiesFit(ents)
    BY <1>3 DEF EntitiesFit, OnePerKey, LibraryFits, StoresFit
  <1>5. EntitiesFit(ents')
    BY <1>1, <1>4, UpsertsFit
  <1> QED BY <1>5 DEF LibraryFits, GraphOnly, StoresFit, TextsFit, EntitiesFit, RelationsFit, CommsFit, OnePerKey,
                      NamesFree

LEMMA ReviewFits ==
    ASSUME LibraryFits, VerdictFits, JoinAtOnce \/ PutPair \/ ReadTarget \/ ReadSource
    PROVE  LibraryFits'
  <1>1. \A t \in ents : EntitiesFit({t})
    BY DEF LibraryFits, StoresFit, EntitiesFit, OnePerKey
  <1>2. CASE JoinAtOnce
    <2>1. PICK t \in ents, s \in ents : Join(t, s) /\ GraphOnly
      BY <1>2 DEF JoinAtOnce, Entity
    <2> QED BY <1>1, <2>1, JoinFits
  <1>3. CASE PutPair
    <2>1. PICK t \in verdict.target, s \in verdict.source : Join(t, s) /\ GraphOnly
      BY <1>3 DEF PutPair
    <2>2. EntitiesFit({t})
      BY DEF VerdictFits, EntitiesFit, OnePerKey
    <2> QED BY <2>1, <2>2, JoinFits
  <1>4. CASE ReadTarget \/ ReadSource
    <2>1. SameStores /\ backend' = backend /\ left' = left /\ sparse' = sparse /\ cache' = cache
      BY <1>4 DEF ReadTarget, ReadSource, GraphOnly, SameStores
    <2> QED BY <2>1, StillFits
  <1> QED BY <1>2, <1>3, <1>4

LEMMA NextVerdictFits == LibraryFits /\ VerdictFits /\ [Next]_vars => VerdictFits'
  <1> SUFFICES ASSUME LibraryFits, VerdictFits, [Next]_vars PROVE VerdictFits'
    OBVIOUS
  <1>1. verdict'.target \subseteq verdict.target \/ \E t \in ents : verdict'.target = {t}
    <2>1. ASSUME NEW d, EditFile(d) \/ SeedIngested(d) \/ Upload(d) \/ LoadAtOnce(d) \/ DeriveAtOnce(d) \/ PutOne(d)
                        \/ \E u \in Users : Delete(u, d)
          PROVE  verdict' = verdict
      BY <2>1 DEF EditFile, SeedIngested, Upload, Begin, LoadAtOnce, DeriveAtOnce, PutOne, Elsewhere, Delete, review
    <2>2. ASSUME Stop \/ \E d \in Docs : Fail(d) PROVE verdict' = verdict \/ verdict' = NoVerdict
      BY <2>2 DEF Stop, Fail, Unreviewed
    <2>3. ASSUME Start \/ NextSeed \/ Listen \/ UNCHANGED vars PROVE verdict' = verdict
      BY <2>3 DEF Start, NextSeed, Begin, Listen, vars, review
    <2>4. NoVerdict.target = {}
      BY DEF NoVerdict
    <2>5. ASSUME JoinAtOnce \/ PutPair PROVE verdict' = verdict \/ verdict' = NoVerdict
      BY <2>5 DEF JoinAtOnce, PutPair
    <2>6. ASSUME ReadTarget PROVE \E t \in ents : verdict'.target = {t}
      BY <2>6 DEF ReadTarget
    <2>7. ASSUME ReadSource PROVE verdict'.target = verdict.target \/ verdict' = NoVerdict
      <3>1. PICK s : s = Entity(verdict.author, verdict.name)
        OBVIOUS
      <3>2. verdict' = NoVerdict \/ verdict' = [verdict EXCEPT !.source = s]
        BY <2>7, <3>1 DEF ReadSource
      <3>3. ASSUME verdict' = [verdict EXCEPT !.source = s] PROVE verdict'.target = verdict.target
        BY <3>3
      <3> QED BY <3>2, <3>3
    <2> QED BY <2>1, <2>2, <2>3, <2>4, <2>5, <2>6, <2>7 DEF Next
  <1> QED BY <1>1 DEF VerdictFits, LibraryFits, StoresFit, EntitiesFit, OnePerKey

LEMMA NextFits == LibraryIInv /\ LibraryFits /\ VerdictFits /\ [Next]_vars => LibraryFits'
  <1> SUFFICES ASSUME LibraryIInv, LibraryFits, VerdictFits, [Next]_vars PROVE LibraryFits'
    OBVIOUS
  <1>1. CASE Start \/ Listen
    BY <1>1, StartFits, ListenFits
  <1>2. CASE NextSeed \/ Stop \/ UNCHANGED vars
    <2>1. SameStores /\ backend' = backend /\ left' = left /\ sparse' = sparse /\ cache' = cache
      BY <1>2 DEF NextSeed, Begin, Stop, vars, stores, SameStores
    <2> QED BY <2>1, StillFits
  <1>3. ASSUME NEW d, EditFile(d) \/ Upload(d) \/ Fail(d) PROVE LibraryFits'
    <2>1. SameStores /\ backend' = backend /\ left' = left /\ sparse' = sparse /\ cache' = cache
      BY <1>3 DEF EditFile, Upload, Begin, Fail, stores, SameStores
    <2> QED BY <2>1, StillFits
  <1>4. ASSUME NEW d \in Seeds, SeedIngested(d) PROVE LibraryFits'
    BY <1>4, RenamingFits
  <1>5. ASSUME NEW d \in Docs, LoadAtOnce(d) \/ DeriveAtOnce(d) \/ PutOne(d) PROVE LibraryFits'
    BY <1>5, IngestFits
  <1>6. ASSUME NEW u \in Users, NEW d \in Docs, Delete(u, d) PROVE LibraryFits'
    BY <1>6, DeleteFits
  <1>7. CASE JoinAtOnce \/ PutPair \/ ReadTarget \/ ReadSource
    BY <1>7, ReviewFits
  <1> QED BY <1>1, <1>2, <1>3, <1>4, <1>5, <1>6, <1>7 DEF Next

(* Every store holds one record for a key, whatever was ingested, renamed,  *)
(* pruned, cut off or loaded from the cache, and only records of documents  *)
(* and libraries there are.                                                 *)
THEOREM StoresTyped == Spec => []LibraryTypeOK
  <1>1. LibraryIInv /\ LibraryFits => LibraryTypeOK
    BY Known DEF LibraryFits, StoresFit, TextsFit, EntitiesFit, RelationsFit, CommsFit, Homes, LibraryTypeOK
  <1>2. Init => VerdictFits
    BY DEF Init, NoVerdict, VerdictFits, EntitiesFit, OnePerKey
  <1>3. Spec => [](LibraryFits /\ VerdictFits)
    BY <1>2, InitFits, NextFits, NextVerdictFits, LibraryInvariant, PTL DEF Spec
  <1> QED BY <1>1, <1>3, LibraryInvariant, PTL
=============================================================================
