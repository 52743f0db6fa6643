----------------------- MODULE ContributionMerge_proofs -----------------------
(***************************************************************************)
(* For any contributions, documents, libraries and calls, on stores that   *)
(* suspend and on stores that do not: the workflow's guarantees also hold  *)
(* where merges move content, nothing enters a library but on an approval  *)
(* that stands (alignment verdicts aside), a merge in one step takes no    *)
(* evidence away, and what shows as merged has arrived in a library.       *)
(***************************************************************************)
EXTENDS ContributionMerge, ContributionService_proofs

----------------------------------------------------------------------------
(* The calls of the workflow, and what their steps leave alone.             *)

LEMMA StoreStepAside ==
    ASSUME NEW r \in Requests, StoreStep(r)
    PROVE  UNCHANGED vars \/ Abort(r)
  BY DEF StoreStep, CollectChunks, CollectEntities, CollectRelations, CollectComms, ReadEntities,
         ReadRelations, PutChunks, PutRecord, PutComms, MoveAll, ReadPairTarget, ReadPairSource, PutPair,
         JoinAtOnce, PairMissing, At, Abort

(* Every step of a merge is a step of the workflow or leaves it alone.      *)
LEMMA MergeStepsWorkflow == [MergeNext]_mergeVars => [Next]_vars
  <1> SUFFICES ASSUME [MergeNext]_mergeVars PROVE [Next]_vars
    OBVIOUS
  <1>1. ASSUME NEW r \in Requests, ServiceStep(r) PROVE Next
    BY <1>1 DEF ServiceStep, Next
  <1>2. ASSUME NEW r \in Requests, StoreStep(r) PROVE [Next]_vars
    BY <1>2, StoreStepAside DEF Next
  <1>3. ASSUME NEW d \in Docs, Reingest(d) PROVE [Next]_vars
    BY <1>3 DEF Reingest
  <1>4. CASE UNCHANGED mergeVars
    BY <1>4 DEF mergeVars, vars
  <1> QED BY <1>1, <1>2, <1>3, <1>4 DEF MergeNext

(* An approval that has been used stands: only a merge leaves "approved".   *)
LEMMA ClearedStays ==
    ASSUME IInv, [Next]_vars, NEW c \in Contributions, row[c].status \in {"approved", "merged"}
    PROVE  row'[c].status \in {"approved", "merged"}
  <1>1. CASE UNCHANGED <<row, audit>>
    BY <1>1
  <1>2. ASSUME NEW u \in Users, NEW e \in Contributions, NEW lib \in Libraries, Create(u, e, lib)
        PROVE  row'[c].status \in {"approved", "merged"}
    BY <1>2, CreateEffect DEF IInv
  <1>3. ASSUME NEW r \in Requests, NEW new \in Row, ChecksHold(r, new), Write(r, new)
        PROVE  row'[c].status \in {"approved", "merged"}
    <2> DEFINE e == req[r].c
    <2>1. /\ row'[e] = [new EXCEPT !.version = row[e].version + 1]
          /\ \A d \in Contributions \ {e} : row'[d] = row[d]
      BY <1>3, WriteEffect DEF IInv
    <2>2. CASE c # e
      BY <2>1, <2>2
    <2>3. CASE c = e
      <3>1. row'[c].status = new.status
        BY <2>1, <2>3 DEF Row
      <3>2. \/ req[r].op \in Transitions /\ Accepts(req[r].op, req[r].user, row[e]) /\ new.status = To[req[r].op]
            \/ new.status = row[e].status
        BY <1>3 DEF ChecksHold
      <3>3. \/ req[r].op \in Transitions /\ row[c].status \in From[req[r].op] /\ new.status = To[req[r].op]
            \/ new.status = row[c].status
        BY <2>3, <3>2 DEF Accepts
      <3> QED BY <3>1, <3>3 DEF From, To, Transitions
    <2> QED BY <2>2, <2>3
  <1> QED BY <1>1, <1>2, <1>3, StepKinds

(* What a step of the workflow does to the calls.                           *)
LEMMA CallMoves ==
    ASSUME TypeOK, NEW r \in Requests, Begin(r) \/ Abort(r) \/ Proceed(r)
    PROVE  /\ \A x \in Requests \ {r} : req'[x] = req[x]
           /\ req'[r].pc \in {"idle", "loaded", "selected"}
           /\ req'[r].pc = "loaded" /\ req'[r].op = "merge" =>
                row'[req'[r].c].status = "approved" /\ req'[r].user \in ApproveUsers
           /\ req'[r].pc = "loaded" /\ req'[r].op = "alignment_approved" =>
                QueuedTarget(row', PairTarget[req'[r].pair])
           /\ req'[r].pc = "selected" =>
                req[r].pc = "idle" \/ (req[r].pc = "loaded" /\ req[r].op \in {"submit", "merge"})
  <1>1. CASE \E op \in Operations, u \in Users, c \in Contributions, p \in Pairs \cup {None} : Load(r, op, u, c, p)
    <2>1. PICK op \in Operations, u \in Users, c \in Contributions, p \in Pairs \cup {None} : Load(r, op, u, c, p)
      BY <1>1
    <2>2. /\ req' = [req EXCEPT ![r] = [pc |-> "loaded", op |-> op, c |-> c, user |-> u,
                                       pair |-> p, seen |-> row[c]]]
          /\ row' = row /\ Admissible(op, u, row[c], p) /\ u \in Permitted(op)
      BY <2>1 DEF Load
    <2>3. /\ req'[r].pc = "loaded" /\ req'[r].op = op /\ req'[r].c = c /\ req'[r].user = u /\ req'[r].pair = p
          /\ \A x \in Requests \ {r} : req'[x] = req[x]
      BY <2>2 DEF TypeOK
    <2>4. op = "merge" => row[c].status = "approved" /\ u \in ApproveUsers
      BY <2>2 DEF Admissible, Settlements, Permitted, SelfReviewBlocked
    <2>5. op = "alignment_approved" => p \in Pairs /\ row[c].pairs[p] # "none"
      BY <2>2 DEF Admissible, Settlements
    <2>6. op = "alignment_approved" => QueuedTarget(row', PairTarget[p])
      BY <2>2, <2>5 DEF QueuedTarget
    <2> QED BY <2>2, <2>3, <2>4, <2>6
  <1>2. CASE \E op \in Operations, u \in Users, c \in Contributions : Select(r, op, u, c)
    BY <1>2 DEF Select, TypeOK
  <1>3. CASE Reselect(r)
    BY <1>3 DEF Reselect, TypeOK, Idle, Request
  <1>4. CASE Commit(r) \/ BuildManifest(r) \/ SettlePair(r) \/ Stale(r) \/ Abort(r)
    <2>1. req' = [req EXCEPT ![r] = Idle]
      BY <1>4 DEF Commit, BuildManifest, SettlePair, Stale, Abort, Write
    <2>2. Idle.pc = "idle"
      BY DEF Idle
    <2> QED BY <2>1, <2>2 DEF TypeOK
  <1> QED BY <1>1, <1>2, <1>3, <1>4 DEF Begin, Proceed

----------------------------------------------------------------------------
(* What the operators on records return.                                    *)

LEMMA Fresh ==
    ASSUME NEW d \in Docs
    PROVE  /\ Owner(d) \in Users /\ Ingested(d, Owner(d)) \in Records
           /\ \A table : Entered(table, Ingested(d, Owner(d)))
           /\ \A table, k : Warranted(table, k, Ingested(d, Owner(d)))
  <1>1. Owner(d) \in Users
    <2>1. \E u \in Users : \E c \in Contributions : d \in DocOf[c] /\ Author[c] = u
      BY MergeAssumption DEF MergeAssumption
    <2> QED BY <2>1 DEF Owner
  <1>2. Ingested(d, Owner(d)) \in Records
    BY <1>1, MergeAssumption DEF Ingested, Record, Records, MergeAssumption
  <1>3. /\ Ingested(d, Owner(d)).home \notin Libraries /\ Ingested(d, Owner(d)).home = Owner(d)
        /\ Ingested(d, Owner(d)).sources = {d}
    BY <1>1, MergeAssumption DEF Ingested, Record, MergeAssumption
  <1> QED BY <1>1, <1>2, <1>3 DEF Entered, Warranted, Evidenced, Lawful

(* What entitles a record to its place goes on to do so.                    *)
LEMMA WarrantStays ==
    ASSUME IInv, [Next]_vars
    PROVE  /\ \A k : QueuedTarget(row, k) => QueuedTarget(row', k)
           /\ \A rec \in Records : Entered(row, rec) => Entered(row', rec)
           /\ \A k, rec : Lawful(row, k, rec) => Lawful(row', k, rec)
           /\ \A k, rec : Warranted(row, k, rec) => Warranted(row', k, rec)
  <1>1. \A c \in Contributions : row[c].status \in {"approved", "merged"} => row'[c].status \in {"approved", "merged"}
    BY ClearedStays
  <1>2. \A c \in Contributions, p \in Pairs : row[c].pairs[p] # "none" => row'[c].pairs[p] # "none"
    BY QueueStays
  <1>3. \A k : QueuedTarget(row, k) => QueuedTarget(row', k)
    BY <1>2 DEF QueuedTarget
  <1>4. \A rec \in Records : Entered(row, rec) => Entered(row', rec)
    BY <1>1 DEF Entered, Cleared, Records
  <1>5. \A k, d : Entitled(row, k, d) => Entitled(row', k, d)
    BY <1>1 DEF Entitled
  <1>6. \A k, rec : Lawful(row, k, rec) => Lawful(row', k, rec)
    BY <1>3, <1>5 DEF Lawful
  <1>7. \A k, rec : Evidenced(row, k, rec) => Evidenced(row', k, rec)
    BY <1>1 DEF Evidenced, Cleared
  <1> QED BY <1>3, <1>4, <1>6, <1>7 DEF Warranted

LEMMA UpsertFits ==
    ASSUME NEW keys, NEW store \in [keys -> Records], NEW recs, Typed(recs, keys)
    PROVE  /\ Upsert(store, recs) \in [keys -> Records]
           /\ \A k \in keys : Upsert(store, recs)[k] = IF k \in DOMAIN recs THEN recs[k] ELSE store[k]
  BY DEF Upsert, Typed

LEMMA RewrittenFits ==
    ASSUME NEW keys, NEW recs, Typed(recs, keys), NEW c \in Contributions, row[c].status \in {"approved", "merged"}
    PROVE  /\ Typed(Rewritten(recs, c), keys) /\ DOMAIN Rewritten(recs, c) = DOMAIN recs
           /\ \A k \in DOMAIN recs : /\ Entered(row, Rewritten(recs, c)[k])
                                     /\ Rewritten(recs, c)[k].home = Target[c]
                                     /\ Rewritten(recs, c)[k].sources = recs[k].sources
                                     /\ Rewritten(recs, c)[k].level = recs[k].level
  <1>1. ASSUME NEW k \in DOMAIN recs
        PROVE  /\ Rewritten(recs, c)[k] \in Records /\ Rewritten(recs, c)[k].home = Target[c]
               /\ Rewritten(recs, c)[k].prov = c /\ Rewritten(recs, c)[k].sources = recs[k].sources
               /\ Rewritten(recs, c)[k].level = recs[k].level
    <2>1. recs[k] \in Records /\ Target[c] \in Libraries
      BY <1>1, MergeAssumption DEF Typed, MergeAssumption
    <2>2. Rewritten(recs, c)[k] = [recs[k] EXCEPT !.home = Target[c], !.prov = c]
      BY <1>1 DEF Rewritten
    <2> QED BY <2>1, <2>2 DEF Records
  <1>2. \A k \in DOMAIN recs : Entered(row, Rewritten(recs, c)[k])
    BY <1>1, ServiceAssumption DEF Entered, Cleared, ServiceAssumption
  <1>3. DOMAIN Rewritten(recs, c) = DOMAIN recs
    BY DEF Rewritten
  <1>4. Typed(Rewritten(recs, c), keys)
    BY <1>1, <1>3 DEF Typed
  <1> QED BY <1>1, <1>2, <1>3, <1>4

LEMMA StricterFits ==
    ASSUME NEW m \in Nat, NEW n \in Nat
    PROVE  Stricter(m, n) \in Nat /\ m <= Stricter(m, n) /\ n <= Stricter(m, n)
  BY DEF Stricter

LEMMA WithoutFits ==
    ASSUME NEW keys, NEW f, Typed(f, keys), NEW k
    PROVE  /\ Typed(Without(f, k), keys) /\ DOMAIN Without(f, k) = DOMAIN f \ {k}
           /\ \A x \in DOMAIN Without(f, k) : Without(f, k)[x] = f[x]
  BY DEF Without, Typed

(* What a merge takes from its author's records and from those its merger   *)
(* sees is entitled to be in the library it goes to.                        *)
Takes(c, k, rec) == rec.sources \cap DocOf[c] # {} /\ Lawful(row, k, rec)
Finds(u, k, rec) == rec.home \in Libraries \cup {u} /\ Warranted(row, k, rec)

LEMMA TakenEntitled ==
    ASSUME NEW c \in Contributions, row[c].status \in {"approved", "merged"}, NEW k, ~QueuedTarget(row, k),
           NEW rec, Takes(c, k, rec), NEW d \in rec.sources \cap Docs
    PROVE  Entitled(row, k, d)
  BY DEF Takes, Lawful, Entitled

LEMMA FoundEntitled ==
    ASSUME NEW u \in ApproveUsers, NEW k, ~QueuedTarget(row, k),
           NEW rec, Finds(u, k, rec), NEW d \in rec.sources \cap Docs
    PROVE  Entitled(row, k, d)
  BY DEF Finds, Warranted, Lawful, Entitled

LEMMA MergeGraphFits ==
    ASSUME NEW source, NEW target, NEW c \in Contributions, row[c].status \in {"approved", "merged"},
           NEW u \in ApproveUsers, Typed(source, Names), Typed(target, Names),
           \A k \in DOMAIN source : Takes(c, k, source[k]),
           \A k \in DOMAIN target : Finds(u, k, target[k])
    PROVE  /\ Typed(MergeGraph(source, target, c), Names)
           /\ \A k \in DOMAIN MergeGraph(source, target, c) : Finds(u, k, MergeGraph(source, target, c)[k])
  <1> DEFINE new == MergeGraph(source, target, c)
  <1>1. DOMAIN new = DOMAIN source \cup DOMAIN target
    BY DEF MergeGraph
  <1>2. ASSUME NEW k \in DOMAIN new PROVE new[k] \in Records /\ Finds(u, k, new[k])
    <2>1. CASE k \notin DOMAIN source
      <3>1. new[k] = target[k] /\ k \in DOMAIN target
        BY <1>1, <1>2, <2>1 DEF MergeGraph
      <3> QED BY <3>1 DEF Typed
    <2>2. CASE k \in DOMAIN source /\ k \notin DOMAIN target
      <3>1. new[k] = Rewritten(source, c)[k]
        BY <1>1, <1>2, <2>2 DEF MergeGraph
      <3>2. new[k] \in Records /\ new[k].home = Target[c] /\ new[k].sources = source[k].sources
        <4>1. k \in DOMAIN Rewritten(source, c) /\ Typed(Rewritten(source, c), Names)
          BY <2>2, RewrittenFits
        <4> QED BY <2>2, <3>1, <4>1, RewrittenFits DEF Typed
      <3>3. Takes(c, k, source[k]) /\ Target[c] \in Libraries
        BY <2>2, MergeAssumption DEF MergeAssumption
      <3>4. Evidenced(row, k, new[k])
        BY <3>2, <3>3 DEF Evidenced, Cleared, Takes
      <3>5. Lawful(row, k, new[k])
        BY <3>2, <3>3, TakenEntitled DEF Lawful
      <3> QED BY <3>2, <3>3, <3>4, <3>5 DEF Finds, Warranted
    <2>3. CASE k \in DOMAIN source /\ k \in DOMAIN target
      <3>1. new[k] = [home |-> Target[c], prov |-> c, level |-> Stricter(source[k].level, target[k].level),
                      sources |-> source[k].sources \cup target[k].sources]
        BY <1>1, <1>2, <2>3 DEF MergeGraph
      <3>2. source[k] \in Records /\ target[k] \in Records /\ Target[c] \in Libraries
        BY <2>3, MergeAssumption DEF Typed, MergeAssumption
      <3>3. Stricter(source[k].level, target[k].level) \in Nat
        BY <3>2, StricterFits DEF Records
      <3>4. new[k] \in Records
        BY <3>1, <3>2, <3>3 DEF Records
      <3>5. new[k].home = Target[c] /\ new[k].sources = source[k].sources \cup target[k].sources
        BY <3>1
      <3>6. Takes(c, k, source[k]) /\ Finds(u, k, target[k])
        BY <2>3
      <3>7. Evidenced(row, k, new[k])
        BY <3>2, <3>5, <3>6 DEF Evidenced, Cleared, Takes
      <3>8. Lawful(row, k, new[k])
        <4>1. ASSUME ~QueuedTarget(row, k), NEW d \in new[k].sources \cap Docs PROVE Entitled(row, k, d)
          BY <3>5, <3>6, <4>1, TakenEntitled, FoundEntitled
        <4> QED BY <4>1 DEF Lawful
      <3> QED BY <3>2, <3>4, <3>5, <3>7, <3>8 DEF Finds, Warranted
    <2> QED BY <2>1, <2>2, <2>3
  <1> QED BY <1>1, <1>2 DEF Typed

LEMMA JoinPairFits ==
    ASSUME NEW tgt \in Records, NEW src \in Records, NEW c \in Contributions
    PROVE  LET new == JoinPair(tgt, src, c) IN
           /\ new \in Records /\ new.home = tgt.home /\ new.sources = tgt.sources \cup src.sources
           /\ tgt.level <= new.level
  BY StricterFits DEF JoinPair, Records

----------------------------------------------------------------------------
(* What a call takes from the stores.                                       *)
LEMMA KeysFit ==
    ASSUME MergeIInv, NEW c \in Contributions, NEW u, NEW taken, DOMAIN taken \subseteq DocOf[c],
           NEW among, among \subseteq Names
    PROVE  /\ Typed(TakeKeys(u, taken, among), Names) /\ DOMAIN TakeKeys(u, taken, among) \subseteq among
           /\ \A k \in DOMAIN TakeKeys(u, taken, among) :
                 TakeKeys(u, taken, among)[k] = graph[k] /\ Takes(c, k, TakeKeys(u, taken, among)[k])
  <1>1. graph \in [Names -> Records] /\ \A k \in Names : Lawful(row, k, graph[k])
    BY DEF MergeIInv, StoresWarranted, Warranted
  <1> QED BY <1>1 DEF TakeKeys, Typed, Takes

LEMMA SeenFits ==
    ASSUME MergeIInv, NEW u, NEW among, among \subseteq Names
    PROVE  /\ Typed(SeenBy(u, among), Names)
           /\ \A k \in DOMAIN SeenBy(u, among) :
                 SeenBy(u, among)[k] = graph[k] /\ Finds(u, k, SeenBy(u, among)[k])
  <1>1. graph \in [Names -> Records] /\ \A k \in Names : Warranted(row, k, graph[k])
    BY DEF MergeIInv, StoresWarranted
  <1>2. \A k \in Names : Sees(u, graph[k]) => graph[k].home \in Libraries \cup {u}
    BY DEF Sees
  <1> QED BY <1>1, <1>2 DEF SeenBy, Typed, Finds

LEMMA TakenFits ==
    ASSUME MergeIInv, NEW c \in Contributions, NEW u
    PROVE  /\ Typed(TakeChunks(c, u), Docs) /\ DOMAIN TakeChunks(c, u) \subseteq DocOf[c]
           /\ \A keys : Typed(TakeComms(c, keys), Docs)
  <1>1. chunk \in [Docs -> Records] /\ comm \in [Docs -> Records]
    BY DEF MergeIInv
  <1>2. DocOf[c] \subseteq Docs
    BY MergeAssumption DEF MergeAssumption
  <1>3. Typed(TakeChunks(c, u), Docs) /\ DOMAIN TakeChunks(c, u) \subseteq DocOf[c]
    BY <1>1, <1>2 DEF TakeChunks, Typed
  <1>5. \A keys : Typed(TakeComms(c, keys), Docs)
    BY <1>1 DEF TakeComms, Typed
  <1> QED BY <1>3, <1>5

(* The call r, which has loaded its row, does a part of its store work.     *)
Fields == {"stage", "chunks", "keys", "comms", "target"}
WorkType(w) == /\ DOMAIN w = Fields /\ w.stage \in Stages /\ Typed(w.chunks, Docs) /\ Typed(w.comms, Docs)
               /\ Typed(w.keys, Names) /\ Typed(w.target, Names)
LEMMA CallKnown ==
    ASSUME MergeIInv, NEW r \in Requests
    PROVE  /\ WorkType(work[r]) /\ WorkFits(req[r], work[r])
           /\ req[r].pc # "idle" =>
                /\ req[r].c \in Contributions /\ req[r].user \in Users /\ Author[req[r].c] \in Users
                /\ req[r].op \in Settlements => req[r].pair \in Pairs
  <1>1. WorkType(work[r]) /\ WorkFits(req[r], work[r])
    BY DEF MergeIInv, WorkTyped, WorkType, WorkWarranted, Fields
  <1>2. req[r].pc # "idle" =>
                /\ req[r].c \in Contributions /\ req[r].user \in Users
                /\ req[r].op \in Settlements => req[r].pair \in Pairs
    BY DEF MergeIInv, IInv, CallsChecked
  <1> QED BY <1>1, <1>2, MergeAssumption DEF MergeAssumption

(* Only the work of r changes.                                              *)
Only(r) == DOMAIN work' = Requests /\ \A x \in Requests \ {r} : work'[x] = work[x]

LEMMA StoreCall ==
    ASSUME MergeIInv, UNCHANGED vars, setting' = setting, NEW r \in Requests, Only(r),
           WorkType(work'[r]), WorkFits(req[r], work'[r]),
           chunk' \in [Docs -> Records], comm' \in [Docs -> Records], graph' \in [Names -> Records],
           \A d \in Docs : Entered(row, chunk'[d]) /\ Entered(row, comm'[d]),
           \A k \in Names : Warranted(row, k, graph'[k])
    PROVE  MergeIInv'
  <1>1. row' = row /\ audit' = audit /\ req' = req
    BY DEF vars
  <1>2. IInv'
    BY NextIInv DEF MergeIInv
  <1>3. \A x \in Requests : WorkType(work'[x]) /\ WorkFits(req[x], work'[x])
    BY CallKnown DEF Only
  <1>4. WorkTyped'
    BY <1>3 DEF WorkTyped, WorkType, Only, Fields
  <1>5. WorkWarranted'
    <2> SUFFICES ASSUME NEW x \in Requests PROVE WorkFits(req[x], work[x])'
      BY DEF WorkWarranted
    <2>1. WorkFits(req[x], work'[x]) /\ Suspends' = Suspends
      BY <1>3 DEF Suspends
    <2> QED BY <1>1, <2>1 DEF WorkFits
  <1>6. StoresWarranted'
    BY <1>1 DEF StoresWarranted
  <1> QED BY <1>2, <1>4, <1>5, <1>6 DEF MergeIInv

LEMMA StoresKnown ==
    ASSUME MergeIInv
    PROVE  /\ chunk \in [Docs -> Records] /\ comm \in [Docs -> Records] /\ graph \in [Names -> Records]
           /\ \A d \in Docs : Entered(row, chunk[d]) /\ Entered(row, comm[d])
           /\ \A k \in Names : Warranted(row, k, graph[k])
  BY DEF MergeIInv, StoresWarranted

(* The calls that only read.                                                *)
LEMMA ReadsKeep ==
    ASSUME MergeIInv, setting' = setting, NEW r \in Requests,
           \/ CollectChunks(r) \/ CollectEntities(r) \/ CollectRelations(r) \/ CollectComms(r)
           \/ ReadEntities(r) \/ ReadRelations(r)
           \/ ReadPairTarget(r) \/ ReadPairSource(r)
    PROVE  MergeIInv'
  <1> DEFINE c == req[r].c
             u == req[r].user
             w0 == work[r]
             w == work'[r]
  <1>1. /\ UNCHANGED vars /\ chunk' = chunk /\ comm' = comm /\ graph' = graph /\ req[r].pc = "loaded"
    BY DEF CollectChunks, CollectEntities, CollectRelations, CollectComms, ReadEntities, ReadRelations,
           ReadPairTarget, ReadPairSource, stores, At
  <1>2. /\ WorkType(w0) /\ WorkFits(req[r], w0) /\ c \in Contributions /\ u \in Users /\ Author[c] \in Users
        /\ req[r].op \in Settlements => req[r].pair \in Pairs
    BY <1>1, CallKnown
  <1>3. ASSUME Only(r), WorkType(w), WorkFits(req[r], w) PROVE MergeIInv'
    BY <1>1, <1>3, StoresKnown, StoreCall
  <1>4. DOMAIN work = Requests /\ DOMAIN w0 = Fields
    BY <1>2 DEF MergeIInv, WorkTyped, WorkType
  <1>5. CASE CollectChunks(r)
    <2>1. /\ work' = [work EXCEPT ![r].chunks = TakeChunks(c, Author[c]), ![r].stage = "chunks"]
          /\ Suspends /\ req[r].op = "merge" /\ w0.stage = "start"
      BY <1>5 DEF CollectChunks, At
    <2>2. /\ Only(r) /\ DOMAIN w = Fields /\ w.stage = "chunks" /\ w.chunks = TakeChunks(c, Author[c])
          /\ w.keys = w0.keys /\ w.comms = w0.comms /\ w.target = w0.target
      BY <1>4, <2>1 DEF Only, Fields
    <2>3. Typed(w.chunks, Docs) /\ DOMAIN w.chunks \subseteq DocOf[c]
      BY <1>2, <2>2, TakenFits
    <2>4. WorkType(w)
      BY <1>2, <2>2, <2>3 DEF WorkType, Stages
    <2>5. WorkFits(req[r], w)
      BY <1>1, <1>2, <2>1, <2>2, <2>3 DEF WorkFits
    <2> QED BY <1>3, <2>2, <2>4, <2>5
  <1>k. ASSUME req[r].op = "merge" PROVE Entities \subseteq Names /\ Triples \subseteq Names
    BY MergeAssumption DEF MergeAssumption, Entities
  <1>6. CASE CollectEntities(r)
    <2>1. /\ work' = [work EXCEPT ![r].keys = TakeKeys(Author[c], w0.chunks, Entities), ![r].stage = "entities"]
          /\ req[r].op = "merge" /\ w0.stage = "chunks"
      BY <1>6 DEF CollectEntities, At
    <2>2. /\ Only(r) /\ DOMAIN w = Fields /\ w.stage = "entities"
          /\ w.keys = TakeKeys(Author[c], w0.chunks, Entities)
          /\ w.chunks = w0.chunks /\ w.comms = w0.comms /\ w.target = w0.target
      BY <1>4, <2>1 DEF Only, Fields
    <2>3. DOMAIN w0.chunks \subseteq DocOf[c]
      BY <1>1, <1>2, <2>1 DEF WorkFits
    <2>4. PICK keys : keys = TakeKeys(Author[c], w0.chunks, Entities)
      OBVIOUS
    <2>5. Typed(keys, Names) /\ \A k \in DOMAIN keys : Takes(c, k, keys[k])
      <3>1. PICK taken, among, u0 : taken = w0.chunks /\ among = Entities /\ u0 = Author[c]
        OBVIOUS
      <3>2. DOMAIN taken \subseteq DocOf[c] /\ among \subseteq Names
        BY <1>k, <2>1, <2>3, <3>1
      <3>3. /\ Typed(TakeKeys(u0, taken, among), Names)
            /\ \A k \in DOMAIN TakeKeys(u0, taken, among) : Takes(c, k, TakeKeys(u0, taken, among)[k])
        BY <1>2, <3>2, KeysFit
      <3> QED BY <2>4, <3>1, <3>3
    <2>6. WorkType(w)
      BY <1>2, <2>2, <2>4, <2>5 DEF WorkType, Stages
    <2>7. WorkFits(req[r], w)
      BY <1>1, <1>2, <2>1, <2>2, <2>3, <2>4, <2>5 DEF WorkFits, Takes
    <2> QED BY <1>3, <2>2, <2>6, <2>7
  <1>6a. CASE CollectRelations(r)
    <2>1. /\ work' = [work EXCEPT ![r].keys = With(w0.keys, TakeKeys(Author[c], w0.chunks, Triples)),
                                  ![r].stage = "keys"]
          /\ req[r].op = "merge" /\ w0.stage = "entities"
      BY <1>4, <1>6a DEF CollectRelations, At, Fields
    <2>2. /\ Only(r) /\ DOMAIN w = Fields /\ w.stage = "keys"
          /\ w.keys = With(w0.keys, TakeKeys(Author[c], w0.chunks, Triples))
          /\ w.chunks = w0.chunks /\ w.comms = w0.comms /\ w.target = w0.target
      BY <1>4, <2>1 DEF Only, Fields
    <2>3. /\ DOMAIN w0.chunks \subseteq DocOf[c] /\ Typed(w0.keys, Names)
          /\ \A k \in DOMAIN w0.keys : Takes(c, k, w0.keys[k])
      BY <1>1, <1>2, <2>1 DEF WorkFits, WorkType, Takes
    <2>4. PICK keys : keys = TakeKeys(Author[c], w0.chunks, Triples)
      OBVIOUS
    <2>5. Typed(keys, Names) /\ \A k \in DOMAIN keys : Takes(c, k, keys[k])
      <3>1. PICK taken, among, u0 : taken = w0.chunks /\ among = Triples /\ u0 = Author[c]
        OBVIOUS
      <3>2. DOMAIN taken \subseteq DocOf[c] /\ among \subseteq Names
        BY <1>k, <2>1, <2>3, <3>1
      <3>3. /\ Typed(TakeKeys(u0, taken, among), Names)
            /\ \A k \in DOMAIN TakeKeys(u0, taken, among) : Takes(c, k, TakeKeys(u0, taken, among)[k])
        BY <1>2, <3>2, KeysFit
      <3> QED BY <2>4, <3>1, <3>3
    <2>6. PICK all : all = With(w0.keys, keys)
      OBVIOUS
    <2>7. Typed(all, Names) /\ \A k \in DOMAIN all : Takes(c, k, all[k])
      <3>1. /\ Typed(With(w0.keys, keys), Names) /\ DOMAIN With(w0.keys, keys) = DOMAIN w0.keys \cup DOMAIN keys
            /\ \A k \in DOMAIN w0.keys : With(w0.keys, keys)[k] = w0.keys[k]
            /\ \A k \in DOMAIN keys \ DOMAIN w0.keys : With(w0.keys, keys)[k] = keys[k]
        <4>1. PICK f : f = w0.keys
          OBVIOUS
        <4>2. Typed(f, Names) /\ Typed(keys, Names)
          BY ONLY <2>3, <2>5, <4>1
        <4>3. /\ Typed(With(f, keys), Names) /\ DOMAIN With(f, keys) = DOMAIN f \cup DOMAIN keys
              /\ \A k \in DOMAIN f : With(f, keys)[k] = f[k]
              /\ \A k \in DOMAIN keys \ DOMAIN f : With(f, keys)[k] = keys[k]
          BY ONLY <4>2 DEF With, Typed
        <4> QED BY ONLY <4>1, <4>3
      <3> QED BY <2>3, <2>5, <2>6, <3>1
    <2>8. w.keys = all
      BY <2>2, <2>4, <2>6
    <2>9. WorkType(w)
      BY <1>2, <2>2, <2>7, <2>8 DEF WorkType, Stages
    <2>10. WorkFits(req[r], w)
      BY <1>1, <1>2, <2>1, <2>2, <2>3, <2>7, <2>8 DEF WorkFits, Takes
    <2> QED BY <1>3, <2>2, <2>9, <2>10
  <1>7. CASE CollectComms(r)
    <2>1. /\ work' = [work EXCEPT ![r].comms = TakeComms(c, w0.keys), ![r].stage = "comms"]
          /\ req[r].op = "merge" /\ w0.stage = "keys"
      BY <1>7 DEF CollectComms, At
    <2>2. /\ Only(r) /\ DOMAIN w = Fields /\ w.stage = "comms" /\ w.comms = TakeComms(c, w0.keys)
          /\ w.chunks = w0.chunks /\ w.keys = w0.keys /\ w.target = w0.target
      BY <1>4, <2>1 DEF Only, Fields
    <2>3. Typed(w.comms, Docs)
      BY <1>2, <2>2, TakenFits
    <2>4. WorkType(w)
      BY <1>2, <2>2, <2>3 DEF WorkType, Stages
    <2>5. WorkFits(req[r], w)
      BY <1>1, <1>2, <2>1, <2>2 DEF WorkFits
    <2> QED BY <1>3, <2>2, <2>4, <2>5
  <1>8. CASE ReadEntities(r)
    <2>1. /\ work' = [work EXCEPT ![r].target = SeenBy(u, Entities), ![r].stage = "target entities"]
          /\ req[r].op = "merge" /\ w0.stage = "comms"
      BY <1>8 DEF ReadEntities, At
    <2>2. /\ Only(r) /\ DOMAIN w = Fields /\ w.stage = "target entities" /\ w.target = SeenBy(u, Entities)
          /\ w.chunks = w0.chunks /\ w.keys = w0.keys /\ w.comms = w0.comms
      BY <1>4, <2>1 DEF Only, Fields
    <2>3. PICK seen : seen = SeenBy(u, Entities)
      OBVIOUS
    <2>4. Typed(seen, Names) /\ \A k \in DOMAIN seen : Finds(u, k, seen[k])
      BY <1>k, <2>1, <2>3, SeenFits
    <2>5. WorkType(w)
      BY <1>2, <2>2, <2>3, <2>4 DEF WorkType, Stages
    <2>6. WorkFits(req[r], w)
      BY <1>1, <1>2, <2>1, <2>2, <2>3, <2>4 DEF WorkFits, Finds
    <2> QED BY <1>3, <2>2, <2>5, <2>6
  <1>8a. CASE ReadRelations(r)
    <2>1. /\ work' = [work EXCEPT ![r].target = MergeGraph(w0.keys, With(w0.target, SeenBy(u, Triples)), c),
                                  ![r].stage = "target"]
          /\ req[r].op = "merge" /\ w0.stage = "target entities"
      BY <1>4, <1>8a DEF ReadRelations, At, Fields
    <2>2. /\ Only(r) /\ DOMAIN w = Fields /\ w.stage = "target"
          /\ w.target = MergeGraph(w0.keys, With(w0.target, SeenBy(u, Triples)), c)
          /\ w.chunks = w0.chunks /\ w.keys = w0.keys /\ w.comms = w0.comms
      BY <1>4, <2>1 DEF Only, Fields
    <2>3. /\ Typed(w0.keys, Names) /\ Typed(w0.target, Names)
          /\ \A k \in DOMAIN w0.keys : Takes(c, k, w0.keys[k])
          /\ \A k \in DOMAIN w0.target : Finds(u, k, w0.target[k])
          /\ row[c].status \in {"approved", "merged"} /\ u \in ApproveUsers
      BY <1>1, <1>2, <2>1 DEF WorkFits, WorkType, Takes, Finds
    <2>4. PICK seen : seen = SeenBy(u, Triples)
      OBVIOUS
    <2>5. Typed(seen, Names) /\ \A k \in DOMAIN seen : Finds(u, k, seen[k])
      BY <1>k, <2>1, <2>4, SeenFits
    <2>6. PICK all : all = With(w0.target, seen)
      OBVIOUS
    <2>7. Typed(all, Names) /\ \A k \in DOMAIN all : Finds(u, k, all[k])
      <3>1. /\ Typed(With(w0.target, seen), Names) /\ DOMAIN With(w0.target, seen) = DOMAIN w0.target \cup DOMAIN seen
            /\ \A k \in DOMAIN w0.target : With(w0.target, seen)[k] = w0.target[k]
            /\ \A k \in DOMAIN seen \ DOMAIN w0.target : With(w0.target, seen)[k] = seen[k]
        <4>1. PICK f : f = w0.target
          OBVIOUS
        <4>2. Typed(f, Names) /\ Typed(seen, Names)
          BY ONLY <2>3, <2>5, <4>1
        <4>3. /\ Typed(With(f, seen), Names) /\ DOMAIN With(f, seen) = DOMAIN f \cup DOMAIN seen
              /\ \A k \in DOMAIN f : With(f, seen)[k] = f[k]
              /\ \A k \in DOMAIN seen \ DOMAIN f : With(f, seen)[k] = seen[k]
          BY ONLY <4>2 DEF With, Typed
        <4> QED BY ONLY <4>1, <4>3
      <3> QED BY <2>3, <2>5, <2>6, <3>1
    <2>8. PICK new : new = MergeGraph(w0.keys, all, c)
      OBVIOUS
    <2>9. Typed(new, Names) /\ \A k \in DOMAIN new : Finds(u, k, new[k])
      <3>1. /\ Typed(MergeGraph(w0.keys, all, c), Names)
            /\ \A k \in DOMAIN MergeGraph(w0.keys, all, c) : Finds(u, k, MergeGraph(w0.keys, all, c)[k])
        BY <1>2, <2>3, <2>7, MergeGraphFits
      <3> QED BY <2>8, <3>1
    <2>10. w.target = new
      BY <2>2, <2>4, <2>6, <2>8
    <2>11. WorkType(w)
      BY <1>2, <2>2, <2>9, <2>10 DEF WorkType, Stages
    <2>12. WorkFits(req[r], w)
      BY <1>1, <1>2, <2>1, <2>2, <2>9, <2>10 DEF WorkFits, Finds
    <2> QED BY <1>3, <2>2, <2>11, <2>12
  <1>9. CASE ReadPairTarget(r)
    <2> DEFINE tgt == PairTarget[req[r].pair]
               seen == [k \in {tgt} |-> graph[k]]
    <2>1. /\ work' = [work EXCEPT ![r].target = seen, ![r].stage = "pair target"]
          /\ req[r].op = "alignment_approved" /\ Suspends /\ w0.stage = "start"
      BY <1>9 DEF ReadPairTarget, At
    <2>2. tgt \in Names
      BY <1>2, <2>1, MergeAssumption DEF Settlements, MergeAssumption
    <2>3. Typed(seen, Names) /\ DOMAIN seen = {tgt} /\ \A k \in DOMAIN seen : Warranted(row, k, seen[k])
      BY <2>2, StoresKnown DEF Typed
    <2> HIDE DEF seen
    <2>4. /\ Only(r) /\ DOMAIN w = Fields /\ w.stage = "pair target" /\ w.target = seen
          /\ w.chunks = w0.chunks /\ w.keys = w0.keys /\ w.comms = w0.comms
      BY <1>4, <2>1 DEF Only, Fields
    <2>5. WorkType(w)
      BY <1>2, <2>3, <2>4 DEF WorkType, Stages
    <2>6. WorkFits(req[r], w)
      BY <1>1, <1>2, <2>1, <2>3, <2>4 DEF WorkFits
    <2> QED BY <1>3, <2>4, <2>5, <2>6
  <1>10. CASE ReadPairSource(r)
    <2> DEFINE src == PairSource[req[r].pair]
               seen == [k \in {src} |-> graph[k]]
    <2>1. /\ work' = [work EXCEPT ![r].keys = seen, ![r].stage = "pair read"]
          /\ req[r].op = "alignment_approved" /\ w0.stage = "pair target"
      BY <1>10 DEF ReadPairSource, At
    <2>2. src \in Names
      BY <1>2, <2>1, MergeAssumption DEF Settlements, MergeAssumption
    <2>3. Typed(seen, Names) /\ DOMAIN seen = {src}
      BY <2>2, StoresKnown DEF Typed
    <2> HIDE DEF seen
    <2>4. /\ Only(r) /\ DOMAIN w = Fields /\ w.stage = "pair read" /\ w.keys = seen
          /\ w.chunks = w0.chunks /\ w.target = w0.target /\ w.comms = w0.comms
      BY <1>4, <2>1 DEF Only, Fields
    <2>5. WorkType(w)
      BY <1>2, <2>3, <2>4 DEF WorkType, Stages
    <2>6. WorkFits(req[r], w)
      BY <1>1, <1>2, <2>1, <2>3, <2>4 DEF WorkFits
    <2> QED BY <1>3, <2>4, <2>5, <2>6
  <1> QED BY <1>5, <1>6, <1>6a, <1>7, <1>8, <1>8a, <1>9, <1>10

(* A call that has written comes a stage further, with what it has read.    *)
LEMMA Advances ==
    ASSUME MergeIInv, NEW r \in Requests, req[r].pc = "loaded",
           NEW s \in {"put chunks", "stored"}, ~Suspends => s = "stored",
           work' = [work EXCEPT ![r].stage = s]
    PROVE  Only(r) /\ WorkType(work'[r]) /\ WorkFits(req[r], work'[r])
  <1> DEFINE w == work'[r]
             w0 == work[r]
  <1>1. WorkType(w0) /\ WorkFits(req[r], w0) /\ DOMAIN work = Requests
    BY CallKnown DEF MergeIInv, WorkTyped
  <1>2. /\ Only(r) /\ DOMAIN w = Fields /\ w.stage = s
        /\ w.chunks = w0.chunks /\ w.keys = w0.keys /\ w.comms = w0.comms /\ w.target = w0.target
    BY <1>1 DEF Only, WorkType, Fields
  <1>3. WorkType(w)
    BY <1>1, <1>2 DEF WorkType, Stages
  <1>4. WorkFits(req[r], w)
    BY <1>1, <1>2 DEF WorkFits
  <1> QED BY <1>2, <1>3, <1>4

(* A merge moves what it has collected.                                     *)
LEMMA PutsKeep ==
    ASSUME MergeIInv, setting' = setting, NEW r \in Requests, PutChunks(r) \/ PutComms(r)
    PROVE  MergeIInv'
  <1> DEFINE c == req[r].c
             w == work[r]
  <1>1. /\ UNCHANGED vars /\ req[r].pc = "loaded" /\ req[r].op = "merge" /\ w.stage # "start" /\ w.stage # "stored"
    BY DEF PutChunks, PutComms, At
  <1>2. WorkType(w) /\ WorkFits(req[r], w) /\ c \in Contributions
    BY <1>1, CallKnown
  <1>3. row[c].status \in {"approved", "merged"} /\ Suspends
    BY <1>1, <1>2 DEF WorkFits
  <1>4. Typed(w.chunks, Docs) /\ Typed(w.comms, Docs)
    BY <1>2 DEF WorkType
  <1>5. /\ chunk \in [Docs -> Records] /\ comm \in [Docs -> Records] /\ graph \in [Names -> Records]
        /\ \A d \in Docs : Entered(row, chunk[d]) /\ Entered(row, comm[d])
        /\ \A k \in Names : Warranted(row, k, graph[k])
    BY StoresKnown
  <1>6. ASSUME NEW recs, Typed(recs, Docs), NEW store \in [Docs -> Records], \A d \in Docs : Entered(row, store[d])
        PROVE  /\ Upsert(store, Rewritten(recs, c)) \in [Docs -> Records]
               /\ \A d \in Docs : Entered(row, Upsert(store, Rewritten(recs, c))[d])
    <2>1. /\ Typed(Rewritten(recs, c), Docs) /\ DOMAIN Rewritten(recs, c) = DOMAIN recs
          /\ \A k \in DOMAIN recs : Entered(row, Rewritten(recs, c)[k])
      BY <1>2, <1>3, <1>6, RewrittenFits
    <2> QED BY <1>6, <2>1, UpsertFits
  <1>8. CASE PutChunks(r)
    <2>1. Only(r) /\ WorkType(work'[r]) /\ WorkFits(req[r], work'[r])
      BY <1>1, <1>3, <1>8, Advances DEF PutChunks
    <2>2. chunk' = Upsert(chunk, Rewritten(w.chunks, c)) /\ graph' = graph /\ comm' = comm
      BY <1>8 DEF PutChunks
    <2>3. chunk' \in [Docs -> Records] /\ \A d \in Docs : Entered(row, chunk'[d])
      BY <1>4, <1>5, <1>6, <2>2
    <2> QED BY <1>1, <1>5, <2>1, <2>2, <2>3, StoreCall
  <1>10. CASE PutComms(r)
    <2>1. Only(r) /\ WorkType(work'[r]) /\ WorkFits(req[r], work'[r])
      BY <1>1, <1>3, <1>10, Advances DEF PutComms
    <2>2. comm' = Upsert(comm, Rewritten(w.comms, c)) /\ chunk' = chunk /\ graph' = graph
      BY <1>10 DEF PutComms
    <2>3. comm' \in [Docs -> Records] /\ \A d \in Docs : Entered(row, comm'[d])
      BY <1>4, <1>5, <1>6, <2>2
    <2> QED BY <1>1, <1>5, <2>1, <2>2, <2>3, StoreCall
  <1> QED BY <1>8, <1>10

(* It writes the merged graph, a record at a time.                          *)
LEMMA PutRecordKeeps ==
    ASSUME MergeIInv, setting' = setting, NEW r \in Requests, PutRecord(r)
    PROVE  MergeIInv'
  <1> DEFINE c == req[r].c
             w0 == work[r]
             w == work'[r]
  <1>1. PICK k \in DOMAIN w0.target :
          /\ graph' = [graph EXCEPT ![k] = w0.target[k]]
          /\ work' = [work EXCEPT ![r].target = Without(@, k)]
          /\ UNCHANGED vars /\ chunk' = chunk /\ comm' = comm
          /\ req[r].pc = "loaded" /\ req[r].op = "merge" /\ w0.stage = "put chunks"
    BY DEF PutRecord, At
  <1>2. WorkType(w0) /\ WorkFits(req[r], w0) /\ DOMAIN work = Requests
    BY CallKnown DEF MergeIInv, WorkTyped
  <1>3. /\ Only(r) /\ DOMAIN w = Fields /\ w.stage = w0.stage /\ w.target = Without(w0.target, k)
        /\ w.chunks = w0.chunks /\ w.keys = w0.keys /\ w.comms = w0.comms
    BY <1>1, <1>2 DEF Only, WorkType, Fields
  <1>4. Typed(w0.target, Names) /\ \A x \in DOMAIN w0.target : Warranted(row, x, w0.target[x])
    BY <1>2 DEF WorkType, WorkFits
  <1>5. PICK rest : rest = Without(w0.target, k)
    OBVIOUS
  <1>6. /\ Typed(rest, Names) /\ DOMAIN rest \subseteq DOMAIN w0.target
        /\ \A x \in DOMAIN rest : rest[x] = w0.target[x]
    <2>1. PICK f, i : f = w0.target /\ i = k
      OBVIOUS
    <2>2. Typed(f, Names)
      BY ONLY <1>4, <2>1
    <2>3. /\ Typed(Without(f, i), Names) /\ DOMAIN Without(f, i) = DOMAIN f \ {i}
          /\ \A x \in DOMAIN Without(f, i) : Without(f, i)[x] = f[x]
      BY ONLY <2>2, WithoutFits
    <2> QED BY ONLY <1>5, <2>1, <2>3
  <1>7. WorkType(w)
    BY <1>2, <1>3, <1>5, <1>6 DEF WorkType
  <1>8. WorkFits(req[r], w)
    <2>1. w.target = rest /\ \A x \in DOMAIN rest : /\ x \in DOMAIN w0.target
                                                    /\ rest[x] = w0.target[x]
      BY <1>3, <1>5, <1>6
    <2>2. \A x \in DOMAIN w.target : Warranted(row, x, w.target[x])
      BY <1>4, <2>1
    <2>3. \A x \in DOMAIN w.target : w.target[x].home \in Libraries \cup {req[r].user}
      BY <1>1, <1>2, <2>1 DEF WorkFits
    <2> QED BY <1>1, <1>2, <1>3, <2>2, <2>3 DEF WorkFits
  <1>9. graph' \in [Names -> Records] /\ \A x \in Names : Warranted(row, x, graph'[x])
    <2>1. k \in Names /\ w0.target[k] \in Records /\ Warranted(row, k, w0.target[k])
      BY <1>4 DEF Typed
    <2>2. graph \in [Names -> Records] /\ \A x \in Names : Warranted(row, x, graph[x])
      BY StoresKnown
    <2> QED BY <1>1, <2>1, <2>2
  <1> QED BY <1>1, <1>3, <1>7, <1>8, <1>9, StoresKnown, StoreCall

(* The same on stores that do not suspend, all of it at once.               *)
LEMMA MoveAllKeeps ==
    ASSUME MergeIInv, setting' = setting, NEW r \in Requests, MoveAll(r)
    PROVE  MergeIInv'
  <1> DEFINE c == req[r].c
             chunks == TakeChunks(c, Author[c])
             keys == TakeKeys(Author[c], chunks, Names)
             comms == TakeComms(c, keys)
             target == SeenBy(req[r].user, Names)
             new == MergeGraph(keys, target, c)
  <1>1. /\ UNCHANGED vars /\ req[r].pc = "loaded" /\ req[r].op = "merge"
        /\ work' = [work EXCEPT ![r].stage = "stored"]
    BY DEF MoveAll, At
  <1>2. /\ WorkFits(req[r], work[r]) /\ c \in Contributions
    BY <1>1, CallKnown
  <1>3. row[c].status \in {"approved", "merged"} /\ req[r].user \in ApproveUsers
    BY <1>1, <1>2 DEF WorkFits
  <1>4. Only(r) /\ WorkType(work'[r]) /\ WorkFits(req[r], work'[r])
    BY <1>1, Advances
  <1>5. /\ chunk \in [Docs -> Records] /\ comm \in [Docs -> Records] /\ graph \in [Names -> Records]
        /\ \A d \in Docs : Entered(row, chunk[d]) /\ Entered(row, comm[d])
        /\ \A k \in Names : Warranted(row, k, graph[k])
    BY StoresKnown
  <1>6. CASE req[r].user \in CliUsers
    <2>1. chunk' = chunk /\ comm' = comm /\ graph' = graph
      BY <1>6 DEF MoveAll, stores
    <2> QED BY <1>1, <1>4, <1>5, <2>1, StoreCall
  <1>7. CASE req[r].user \notin CliUsers
    <2>1. /\ chunk' = Upsert(chunk, Rewritten(chunks, c)) /\ comm' = Upsert(comm, Rewritten(comms, c))
          /\ graph' = Upsert(graph, new)
      BY <1>7 DEF MoveAll
    <2>2. Typed(chunks, Docs) /\ DOMAIN chunks \subseteq DocOf[c]
      BY <1>2, TakenFits
    <2>3. Typed(keys, Names) /\ \A k \in DOMAIN keys : Takes(c, k, keys[k])
      BY <1>2, <2>2, KeysFit
    <2>4. Typed(comms, Docs)
      BY <1>2, TakenFits
    <2>5. Typed(target, Names) /\ \A k \in DOMAIN target : Finds(req[r].user, k, target[k])
      BY <1>2, SeenFits
    <2> HIDE DEF chunks, keys, comms, target
    <2>6. ASSUME NEW recs, Typed(recs, Docs), NEW store \in [Docs -> Records], \A d \in Docs : Entered(row, store[d])
          PROVE  /\ Upsert(store, Rewritten(recs, c)) \in [Docs -> Records]
                 /\ \A d \in Docs : Entered(row, Upsert(store, Rewritten(recs, c))[d])
      <3>1. /\ Typed(Rewritten(recs, c), Docs) /\ DOMAIN Rewritten(recs, c) = DOMAIN recs
            /\ \A k \in DOMAIN recs : Entered(row, Rewritten(recs, c)[k])
        BY <1>2, <1>3, <2>6, RewrittenFits
      <3> QED BY <2>6, <3>1, UpsertFits
    <2>7. Typed(new, Names) /\ \A k \in DOMAIN new : Warranted(row, k, new[k])
      BY <1>2, <1>3, <2>3, <2>5, MergeGraphFits DEF Finds
    <2> HIDE DEF new
    <2>8. graph' \in [Names -> Records] /\ \A k \in Names : Warranted(row, k, graph'[k])
      BY <1>5, <2>1, <2>7, UpsertFits
    <2>9. chunk' \in [Docs -> Records] /\ \A d \in Docs : Entered(row, chunk'[d])
      BY <1>5, <2>1, <2>2, <2>6
    <2>10. comm' \in [Docs -> Records] /\ \A d \in Docs : Entered(row, comm'[d])
      BY <1>5, <2>1, <2>4, <2>6
    <2> QED BY <1>1, <1>4, <2>8, <2>9, <2>10, StoreCall
  <1> QED BY <1>6, <1>7

(* An approved pair is joined: the target keeps its home and gains evidence. *)
LEMMA JoinKeeps ==
    ASSUME MergeIInv, UNCHANGED vars, setting' = setting, NEW r \in Requests, req[r].pc = "loaded",
           work' = [work EXCEPT ![r].stage = "stored"], chunk' = chunk, comm' = comm,
           NEW k \in Names, NEW tgt \in Records, NEW src \in Records, Warranted(row, k, tgt),
           QueuedTarget(row, k),
           NEW c \in Contributions, graph' = [graph EXCEPT ![k] = JoinPair(tgt, src, c)]
    PROVE  MergeIInv'
  <1> DEFINE new == JoinPair(tgt, src, c)
  <1>1. Only(r) /\ WorkType(work'[r]) /\ WorkFits(req[r], work'[r])
    BY Advances
  <1>2. new \in Records /\ new.home = tgt.home /\ tgt.sources \subseteq new.sources
    <2>1. PICK joined : joined = JoinPair(tgt, src, c)
      OBVIOUS
    <2>2. joined \in Records /\ joined.home = tgt.home /\ joined.sources = tgt.sources \cup src.sources
      BY ONLY <2>1, JoinPairFits, tgt \in Records, src \in Records, c \in Contributions
    <2> QED BY ONLY <2>1, <2>2
  <1>3. Warranted(row, k, new)
    BY <1>2 DEF Warranted, Evidenced, Lawful
  <1> HIDE DEF new
  <1>4. graph' \in [Names -> Records] /\ \A x \in Names : Warranted(row, x, graph'[x])
    BY <1>2, <1>3, StoresKnown DEF new
  <1>5. /\ chunk' \in [Docs -> Records] /\ comm' \in [Docs -> Records]
        /\ \A d \in Docs : Entered(row, chunk'[d]) /\ Entered(row, comm'[d])
    BY StoresKnown
  <1> QED BY <1>1, <1>4, <1>5, StoreCall

LEMMA PairsKeep ==
    ASSUME MergeIInv, setting' = setting, NEW r \in Requests, PutPair(r) \/ JoinAtOnce(r)
    PROVE  MergeIInv'
  <1> DEFINE c == req[r].c
             w == work[r]
             tgt == PairTarget[req[r].pair]
             src == PairSource[req[r].pair]
  <1>1. /\ UNCHANGED vars /\ req[r].pc = "loaded" /\ req[r].op = "alignment_approved"
        /\ work' = [work EXCEPT ![r].stage = "stored"] /\ chunk' = chunk /\ comm' = comm
    BY DEF PutPair, JoinAtOnce, At
  <1>2. WorkType(w) /\ WorkFits(req[r], w) /\ c \in Contributions /\ req[r].pair \in Pairs
    BY <1>1, CallKnown DEF Settlements
  <1>3. tgt \in Names /\ src \in Names /\ QueuedTarget(row, tgt)
    BY <1>1, <1>2, MergeAssumption DEF MergeAssumption, WorkFits
  <1>4. CASE PutPair(r)
    <2>1. w.stage = "pair read" /\ graph' = [graph EXCEPT ![tgt] = JoinPair(w.target[tgt], w.keys[src], c)]
      BY <1>4 DEF PutPair, At
    <2>2. tgt \in DOMAIN w.target /\ src \in DOMAIN w.keys /\ Warranted(row, tgt, w.target[tgt])
      BY <1>2, <2>1 DEF WorkFits
    <2>3. w.target[tgt] \in Records /\ w.keys[src] \in Records
      BY <1>2, <2>2 DEF WorkType, Typed
    <2> QED BY <1>1, <1>2, <1>3, <2>1, <2>2, <2>3, JoinKeeps
  <1>5. CASE JoinAtOnce(r)
    <2>1. graph' = [graph EXCEPT ![tgt] = JoinPair(graph[tgt], graph[src], c)]
      BY <1>5 DEF JoinAtOnce
    <2>2. graph[tgt] \in Records /\ graph[src] \in Records /\ Warranted(row, tgt, graph[tgt])
      BY <1>3, StoresKnown
    <2> QED BY <1>1, <1>2, <1>3, <2>1, <2>2, JoinKeeps
  <1> QED BY <1>4, <1>5

(* Whatever the others do, what a waiting call has read stays warranted.    *)
LEMMA OthersKeep ==
    ASSUME MergeIInv, [Next]_vars, setting' = setting, NEW x \in Requests, req'[x] = req[x], work'[x] = work[x]
    PROVE  WorkType(work'[x]) /\ WorkFits(req[x], work[x])'
  <1>1. WorkType(work[x]) /\ WorkFits(req[x], work[x]) /\ (req[x].pc # "idle" => req[x].c \in Contributions)
    BY CallKnown
  <1>2. \A c \in Contributions : row[c].status \in {"approved", "merged"} => row'[c].status \in {"approved", "merged"}
    BY ClearedStays DEF MergeIInv
  <1>3. /\ \A k : QueuedTarget(row, k) => QueuedTarget(row', k)
        /\ \A k, rec : Lawful(row, k, rec) => Lawful(row', k, rec)
        /\ \A k, rec : Warranted(row, k, rec) => Warranted(row', k, rec)
    BY WarrantStays DEF MergeIInv
  <1> QED BY <1>1, <1>2, <1>3 DEF WorkFits, Suspends

(* A step of the workflow, or the end of a call whose pair is missing.      *)
LEMMA WorkflowKeeps ==
    ASSUME MergeIInv, [Next]_vars, setting' = setting, UNCHANGED stores, NEW r \in Requests,
           \A x \in Requests \ {r} : req'[x] = req[x], Only(r),
           WorkType(work'[r]), WorkFits(req[r], work[r])'
    PROVE  MergeIInv'
  <1>1. IInv'
    BY NextIInv DEF MergeIInv
  <1>2. \A x \in Requests \ {r} : WorkType(work'[x]) /\ WorkFits(req[x], work[x])'
    BY OthersKeep DEF Only
  <1>3. WorkTyped'
    BY <1>2 DEF WorkTyped, WorkType, Only, Fields
  <1>4. WorkWarranted'
    BY <1>2 DEF WorkWarranted
  <1>5. StoresWarranted'
    <2>1. chunk' = chunk /\ comm' = comm /\ graph' = graph
      BY DEF stores
    <2>2. /\ \A rec \in Records : Entered(row, rec) => Entered(row', rec)
          /\ \A k, rec : Warranted(row, k, rec) => Warranted(row', k, rec)
      BY WarrantStays DEF MergeIInv
    <2> QED BY <2>1, <2>2, StoresKnown DEF StoresWarranted
  <1> QED BY <1>1, <1>3, <1>4, <1>5 DEF MergeIInv, stores

LEMMA ServiceKeeps ==
    ASSUME MergeIInv, [Next]_vars, setting' = setting, NEW r \in Requests, ServiceStep(r)
    PROVE  MergeIInv'
  <1>1. Begin(r) \/ Abort(r) \/ Proceed(r)
    BY DEF ServiceStep
  <1>2. /\ \A x \in Requests \ {r} : req'[x] = req[x]
        /\ req'[r].pc \in {"idle", "loaded", "selected"}
        /\ req'[r].pc = "loaded" /\ req'[r].op = "merge" =>
             row'[req'[r].c].status = "approved" /\ req'[r].user \in ApproveUsers
        /\ req'[r].pc = "loaded" /\ req'[r].op = "alignment_approved" => QueuedTarget(row', PairTarget[req'[r].pair])
        /\ req'[r].pc = "selected" => req[r].pc = "idle" \/ (req[r].pc = "loaded" /\ req[r].op \in {"submit", "merge"})
    BY <1>1, CallMoves DEF MergeIInv, IInv
  <1>3. /\ UNCHANGED stores /\ DOMAIN work = Requests
        /\ work' = [work EXCEPT ![r] = IF req'[r].pc = "selected" THEN work[r] ELSE NoWork]
    BY DEF ServiceStep, MergeIInv, WorkTyped
  <1>4. Only(r)
    BY <1>3 DEF Only
  <1>5. WorkType(work[r]) /\ WorkFits(req[r], work[r])
    BY CallKnown
  <1>6. CASE req'[r].pc = "selected"
    <2>1. work'[r] = work[r]
      BY <1>3, <1>6
    <2>2. work[r].stage \notin {"pair target", "pair read"}
      BY <1>2, <1>5, <1>6 DEF WorkFits
    <2>3. \A k, rec : Warranted(row, k, rec) => Warranted(row', k, rec)
      BY WarrantStays DEF MergeIInv
    <2>4. \A k \in DOMAIN work'[r].target : Warranted(row', k, work'[r].target[k])
      BY <1>5, <2>1, <2>3 DEF WorkFits
    <2>5. WorkFits(req[r], work[r])'
      BY <1>5, <1>6, <2>1, <2>2, <2>4 DEF WorkFits, Suspends
    <2> QED BY <1>2, <1>3, <1>4, <1>5, <2>1, <2>5, WorkflowKeeps
  <1>7. CASE req'[r].pc # "selected"
    <2>1. work'[r] = NoWork
      BY <1>3, <1>7
    <2>2. /\ DOMAIN NoWork = Fields /\ NoWork.stage = "start" /\ NoWork.chunks = << >> /\ NoWork.keys = << >>
          /\ NoWork.comms = << >> /\ NoWork.target = << >>
      BY DEF NoWork, Fields
    <2>3. WorkType(work'[r])
      BY <2>1, <2>2 DEF WorkType, Typed, Stages
    <2>4. WorkFits(req[r], work[r])'
      BY <1>2, <2>1, <2>2 DEF WorkFits
    <2> QED BY <1>2, <1>3, <1>4, <2>3, <2>4, WorkflowKeeps
  <1> QED BY <1>6, <1>7

LEMMA PairMissingKeeps ==
    ASSUME MergeIInv, [Next]_vars, setting' = setting, NEW r \in Requests, PairMissing(r)
    PROVE  MergeIInv'
  <1>1. /\ req' = [req EXCEPT ![r] = Idle] /\ work' = [work EXCEPT ![r] = NoWork]
        /\ UNCHANGED stores /\ DOMAIN work = Requests /\ req \in [Requests -> Request]
    BY DEF PairMissing, MergeIInv, WorkTyped, IInv, TypeOK
  <1>2. /\ Only(r) /\ \A x \in Requests \ {r} : req'[x] = req[x]
        /\ req'[r].pc = "idle" /\ work'[r] = NoWork
    BY <1>1 DEF Only, Idle
  <1>3. /\ DOMAIN NoWork = Fields /\ NoWork.stage = "start" /\ NoWork.chunks = << >> /\ NoWork.keys = << >>
        /\ NoWork.comms = << >> /\ NoWork.target = << >>
    BY DEF NoWork, Fields
  <1>4. WorkType(work'[r])
    BY <1>2, <1>3 DEF WorkType, Typed, Stages
  <1>5. WorkFits(req[r], work[r])'
    BY <1>2, <1>3 DEF WorkFits
  <1> QED BY <1>1, <1>2, <1>4, <1>5, WorkflowKeeps

(* What a document's author ingests again is in the author's own library.   *)
LEMMA ReingestKeeps ==
    ASSUME MergeIInv, setting' = setting, NEW d \in Docs, Reingest(d)
    PROVE  MergeIInv'
  <1> DEFINE new == Ingested(d, Owner(d))
  <1>1. /\ chunk' = [chunk EXCEPT ![d] = new] /\ comm' = [comm EXCEPT ![d] = new]
        /\ graph' = [k \in Names |-> IF k \in Mentions[d] THEN new ELSE graph[k]]
        /\ UNCHANGED vars /\ work' = work
    BY DEF Reingest
  <1>2. new \in Records /\ \A table : Entered(table, new) /\ \A k : Warranted(table, k, new)
    BY Fresh
  <1> HIDE DEF new
  <1>3. chunk' \in [Docs -> Records] /\ comm' \in [Docs -> Records] /\ graph' \in [Names -> Records]
    BY <1>1, <1>2, StoresKnown
  <1>4. \A e \in Docs : Entered(row, chunk'[e]) /\ Entered(row, comm'[e])
    BY <1>1, <1>2, StoresKnown
  <1>5. \A k \in Names : Warranted(row, k, graph'[k])
    BY <1>1, <1>2, StoresKnown
  <1>6. row' = row /\ req' = req
    BY <1>1 DEF vars
  <1>7. StoresWarranted'
    BY <1>4, <1>5, <1>6 DEF StoresWarranted
  <1>8. IInv'
    BY <1>1, NextIInv DEF MergeIInv
  <1>9. WorkTyped'
    BY <1>1 DEF MergeIInv, WorkTyped
  <1>10. WorkWarranted'
    <2> SUFFICES ASSUME NEW x \in Requests PROVE WorkFits(req[x], work[x])'
      BY DEF WorkWarranted
    <2>1. work'[x] = work[x] /\ req'[x] = req[x] /\ [Next]_vars
      BY <1>1, <1>6
    <2> QED BY <2>1, OthersKeep
  <1> QED BY <1>3, <1>7, <1>8, <1>9, <1>10 DEF MergeIInv

LEMMA InitMerge == MergeInit => MergeIInv
  <1> SUFFICES ASSUME MergeInit PROVE MergeIInv
    OBVIOUS
  <1>1. /\ setting \in Settings /\ req = [r \in Requests |-> Idle] /\ work = [r \in Requests |-> NoWork]
        /\ chunk = [d \in Docs |-> Ingested(d, Owner(d))] /\ comm = [d \in Docs |-> Ingested(d, Owner(d))]
    BY DEF MergeInit
  <1>2. setting.viewer \in [Contributions -> Users]
    BY <1>1, MergeAssumption DEF MergeAssumption
  <1>3. \A c \in Contributions :
          /\ row[c] \in Row /\ audit[c] \in Seq(Entry)
          /\ \/ row[c] = NoRow /\ audit[c] = << >>
             \/ /\ row[c].status = "submitted" /\ row[c].author \in Users /\ row[c].library \in Libraries
                /\ row[c].manifest /\ row[c].version = 3 /\ Len(audit[c]) = 3
                /\ \A i \in DOMAIN audit[c] : audit[c][i].action \in {"create", "submit", "manifest"}
    <2> SUFFICES ASSUME NEW c \in Contributions
                 PROVE  /\ row[c] \in Row /\ audit[c] \in Seq(Entry)
                        /\ \/ row[c] = NoRow /\ audit[c] = << >>
                           \/ /\ row[c].status = "submitted" /\ row[c].author \in Users /\ row[c].library \in Libraries
                              /\ row[c].manifest /\ row[c].version = 3 /\ Len(audit[c]) = 3
                              /\ \A i \in DOMAIN audit[c] : audit[c][i].action \in {"create", "submit", "manifest"}
      OBVIOUS
    <2>1. CASE c \notin setting.offered
      <3>1. row[c] = NoRow /\ audit[c] = << >>
        BY <2>1 DEF MergeInit
      <3> QED BY <3>1, BlankTypes
    <2>2. CASE c \in setting.offered
      <3>1. PICK queue \in SUBSET Pairs :
              row[c] = [NoRow EXCEPT !.status = "submitted", !.version = 3, !.author = Author[c],
                          !.library = Target[c], !.assignee = FirstApprover(Target[c]), !.manifest = TRUE,
                          !.pairs = [p \in Pairs |-> IF p \in queue THEN "pending" ELSE "none"]]
        <4>1. PICK embeds \in BOOLEAN :
                row = [e \in Contributions |->
                        IF e \notin setting.offered THEN NoRow ELSE
                        [NoRow EXCEPT !.status = "submitted", !.version = 3, !.author = Author[e],
                              !.library = Target[e], !.assignee = FirstApprover(Target[e]),
                              !.manifest = TRUE,
                              !.pairs = [p \in Pairs |->
                                  IF p \in FirstView(e, setting.viewer[e], embeds) THEN "pending" ELSE "none"]]]
          BY DEF MergeInit
        <4> DEFINE queue == FirstView(c, setting.viewer[c], embeds)
        <4>2. queue \in SUBSET Pairs
          BY DEF FirstView, AlignmentPending, Overlapping
        <4> HIDE DEF queue
        <4>3. row[c] = [NoRow EXCEPT !.status = "submitted", !.version = 3, !.author = Author[c],
                          !.library = Target[c], !.assignee = FirstApprover(Target[c]), !.manifest = TRUE,
                          !.pairs = [p \in Pairs |-> IF p \in queue THEN "pending" ELSE "none"]]
          BY <2>2, <4>1 DEF queue
        <4> QED BY <4>2, <4>3
      <3>2. Author[c] \in Users /\ Target[c] \in Libraries /\ FirstApprover(Target[c]) \in Users \cup {None}
        BY MergeAssumption, FirstApproverType DEF MergeAssumption
      <3> DEFINE pairs == [p \in Pairs |-> IF p \in queue THEN "pending" ELSE "none"]
      <3>3. pairs \in [Pairs -> PairStatus]
        BY DEF PairStatus
      <3> HIDE DEF pairs
      <3>4. row[c] = [status |-> "submitted", version |-> 3, author |-> Author[c], library |-> Target[c],
                      assignee |-> FirstApprover(Target[c]), reviewer |-> None, manifest |-> TRUE, pairs |-> pairs]
        BY <3>1 DEF NoRow, pairs
      <3>5. row[c] \in Row
        BY <3>2, <3>3, <3>4 DEF Row, Statuses
      <3>6. audit[c] = <<[action |-> "create", user |-> Author[c]], [action |-> "submit", user |-> Author[c]],
                         [action |-> "manifest", user |-> setting.viewer[c]]>>
        BY <2>2 DEF MergeInit
      <3>7. setting.viewer[c] \in Users
        BY <1>2
      <3>8. audit[c] \in Seq(Entry) /\ Len(audit[c]) = 3
        BY <3>2, <3>6, <3>7 DEF Entry, Writes, Transitions
      <3>9. \A i \in DOMAIN audit[c] : audit[c][i].action \in {"create", "submit", "manifest"}
        BY <3>6
      <3> QED BY <3>2, <3>4, <3>5, <3>8, <3>9
    <2> QED BY <2>1, <2>2
  <1>4. TypeOK
    <2>1. DOMAIN row = Contributions /\ DOMAIN audit = Contributions
      BY DEF MergeInit
    <2>2. row = [c \in Contributions |-> row[c]] /\ audit = [c \in Contributions |-> audit[c]]
      BY DEF MergeInit
    <2>3. row \in [Contributions -> Row] /\ audit \in [Contributions -> Seq(Entry)]
      BY <1>3, <2>2
    <2> QED BY <1>1, <2>3, BlankTypes DEF TypeOK
  <1>5. \A r \in Requests : req[r].pc = "idle" /\ work[r] = NoWork
    BY <1>1 DEF Idle
  <1>6. IInv
    <2>1. CallsChecked /\ VersionIdentifiesRow
      BY <1>5 DEF CallsChecked, VersionIdentifiesRow
    <2>2. NoRow.status = "absent" /\ NoRow.version = 0 /\ NoRow.pairs = NoPairs
      BY DEF NoRow
    <2>3. Existence /\ ApprovalOnRecord /\ MergedAfterApproval
      BY <1>3, <2>2 DEF Existence, ApprovalOnRecord, MergedAfterApproval
    <2>4. QueueInManifest
      BY <1>3, <2>2 DEF QueueInManifest
    <2>5. OneEntryPerWrite
      <3>1. Len(<< >>) = 0
        OBVIOUS
      <3>2. ASSUME NEW c \in Contributions PROVE row[c].version = Len(audit[c])
        BY <1>3, <2>2, <3>1
      <3> QED BY <3>2 DEF OneEntryPerWrite
    <2>6. \A c \in Contributions : \A i \in DOMAIN audit[c] : audit[c][i].action \in {"create", "submit", "manifest"}
      BY <1>3
    <2>7. NoSelfReview /\ MergeOnRecord /\ MergedOnce
      BY <2>6 DEF NoSelfReview, MergeOnRecord, MergedOnce, SelfReviewBlocked, Settlements
    <2> QED BY <1>4, <2>1, <2>3, <2>4, <2>5, <2>7 DEF IInv
  <1>7. /\ DOMAIN NoWork = Fields /\ NoWork.stage = "start" /\ NoWork.chunks = << >> /\ NoWork.keys = << >>
        /\ NoWork.comms = << >> /\ NoWork.target = << >>
    BY DEF NoWork, Fields
  <1>8. WorkTyped
    <2>1. DOMAIN work = Requests /\ \A r \in Requests : work[r] = NoWork
      BY <1>1
    <2>2. WorkType(NoWork)
      BY <1>7 DEF WorkType, Typed, Stages
    <2> QED BY <2>1, <2>2 DEF WorkTyped, WorkType, Fields
  <1>9. WorkWarranted
    <2> SUFFICES ASSUME NEW r \in Requests PROVE WorkFits(req[r], NoWork)
      BY <1>5 DEF WorkWarranted
    <2>1. req[r].pc = "idle"
      BY <1>5
    <2> QED BY <1>7, <2>1 DEF WorkFits
  <1>10. \A d \in Docs : /\ chunk[d] \in Records /\ comm[d] \in Records /\ Entered(row, chunk[d]) /\ Entered(row, comm[d])
    BY <1>1, Fresh
  <1>11. \A k \in Names : graph[k] \in Records /\ Warranted(row, k, graph[k])
    <2> SUFFICES ASSUME NEW k \in Names PROVE graph[k] \in Records /\ Warranted(row, k, graph[k])
      OBVIOUS
    <2>1. CASE k \in DOMAIN Stored
      <3>1. graph[k] = Stored[k]
        BY <2>1 DEF MergeInit
      <3> QED BY <2>1, <3>1, MergeAssumption DEF Warranted, Evidenced, Lawful, Entitled, MergeAssumption
    <2>2. CASE k \notin DOMAIN Stored
      <3>1. graph[k] = Absent \/ \E d \in Docs : graph[k] = Ingested(d, Owner(d))
        BY <2>2 DEF MergeInit, Mentioning
      <3>2. Absent \in Records /\ Absent.home \notin Libraries /\ Absent.sources = {}
        BY ServiceAssumption DEF Absent, Records, ServiceAssumption
      <3>3. CASE graph[k] = Absent
        BY <3>2, <3>3 DEF Warranted, Evidenced, Lawful
      <3>4. CASE \E d \in Docs : graph[k] = Ingested(d, Owner(d))
        BY <3>4, Fresh
      <3> QED BY <3>1, <3>3, <3>4
    <2> QED BY <2>1, <2>2
  <1>12. chunk \in [Docs -> Records] /\ comm \in [Docs -> Records] /\ graph \in [Names -> Records]
    <2>1. graph = [k \in Names |-> graph[k]]
      BY DEF MergeInit
    <2> QED BY <1>1, <1>10, <1>11, <2>1
  <1>13. StoresWarranted
    BY <1>10, <1>11 DEF StoresWarranted
  <1> QED BY <1>1, <1>6, <1>8, <1>9, <1>12, <1>13 DEF MergeIInv

LEMMA NextMerge == MergeIInv /\ [MergeNext]_mergeVars => MergeIInv'
  <1> SUFFICES ASSUME MergeIInv, [MergeNext]_mergeVars PROVE MergeIInv'
    OBVIOUS
  <1>1. [Next]_vars
    BY MergeStepsWorkflow
  <1>2. CASE MergeNext
    <2>1. setting' = setting
      BY <1>2 DEF MergeNext
    <2>2. ASSUME NEW r \in Requests, ServiceStep(r) PROVE MergeIInv'
      BY <1>1, <2>1, <2>2, ServiceKeeps
    <2>3. ASSUME NEW r \in Requests, StoreStep(r) PROVE MergeIInv'
      BY <1>1, <2>1, <2>3, ReadsKeep, PutsKeep, PutRecordKeeps, MoveAllKeeps, PairsKeep, PairMissingKeeps DEF StoreStep
    <2>4. ASSUME NEW d \in Docs, Reingest(d) PROVE MergeIInv'
      BY <2>1, <2>4, ReingestKeeps
    <2> QED BY <1>2, <2>2, <2>3, <2>4 DEF MergeNext
  <1>3. CASE UNCHANGED mergeVars
    <2>1. UNCHANGED <<row, audit, req, chunk, graph, comm, work, setting>>
      BY <1>3 DEF mergeVars
    <2>2. IInv'
      BY <1>1, NextIInv DEF MergeIInv
    <2>3. WorkTyped'
      BY <2>1 DEF MergeIInv, WorkTyped
    <2>4. WorkWarranted'
      BY <1>1, <2>1, OthersKeep DEF WorkWarranted
    <2>5. StoresWarranted'
      BY <2>1 DEF MergeIInv, StoresWarranted
    <2> QED BY <2>1, <2>2, <2>3, <2>4, <2>5 DEF MergeIInv
  <1> QED BY <1>2, <1>3

----------------------------------------------------------------------------
(* Stores that do not suspend: what a step reads it writes back at once.    *)

Grown(old, new) == old.sources \subseteq new.sources /\ old.level <= new.level

(* The store work of one step changes only records that were there, and     *)
(* takes neither evidence nor strictness from them.                         *)
LEMMA StepsGrow ==
    ASSUME MergeIInv, ~Suspends, NEW r \in Requests, ServiceStep(r) \/ StoreStep(r), NEW k \in Names
    PROVE  graph'[k] = graph[k] \/ (graph[k] # Absent /\ Grown(graph[k], graph'[k]))
  <1> DEFINE c == req[r].c
  <1>1. WorkFits(req[r], work[r]) /\ graph \in [Names -> Records]
    BY CallKnown DEF MergeIInv
  <1>2. work[r].stage \in {"start", "stored"}
    BY <1>1 DEF WorkFits
  <1>3. CASE graph' = graph
    BY <1>3
  <1>4. CASE MoveAll(r)
    <2> DEFINE chunks == TakeChunks(c, Author[c])
               keys == TakeKeys(Author[c], chunks, Names)
               target == SeenBy(req[r].user, Names)
               new == MergeGraph(keys, target, c)
    <2>1. graph' = graph \/ graph' = Upsert(graph, new)
      BY <1>4 DEF MoveAll, stores
    <2>2. \A x \in DOMAIN keys : x \in Names /\ keys[x] = graph[x] /\ graph[x] # Absent
      BY DEF TakeKeys, Sees
    <2>3. \A x \in DOMAIN target : x \in Names /\ target[x] = graph[x] /\ graph[x] # Absent
      BY DEF SeenBy, Sees
    <2> HIDE DEF chunks, keys, target
    <2>4. DOMAIN new = DOMAIN keys \cup DOMAIN target
      BY DEF MergeGraph
    <2>5. ASSUME k \in DOMAIN new PROVE graph[k] # Absent /\ Grown(graph[k], new[k])
      <3>1. graph[k] # Absent /\ graph[k] \in Records
        BY <1>1, <2>2, <2>3, <2>4, <2>5
      <3>2. CASE k \notin DOMAIN keys
        <4>1. new[k] = graph[k]
          BY <2>3, <2>4, <2>5, <3>2 DEF MergeGraph
        <4> QED BY <3>1, <4>1 DEF Grown, Records
      <3>3. CASE k \in DOMAIN keys /\ k \notin DOMAIN target
        <4>1. new[k] = [keys[k] EXCEPT !.home = Target[c], !.prov = c]
          BY <2>4, <2>5, <3>3 DEF MergeGraph, Rewritten
        <4>2. new[k].sources = graph[k].sources /\ new[k].level = graph[k].level
          BY <2>2, <3>1, <3>3, <4>1 DEF Records
        <4> QED BY <3>1, <4>2 DEF Grown, Records
      <3>4. CASE k \in DOMAIN keys /\ k \in DOMAIN target
        <4>1. new[k] = [home |-> Target[c], prov |-> c, level |-> Stricter(graph[k].level, graph[k].level),
                        sources |-> graph[k].sources \cup graph[k].sources]
          BY <2>2, <2>3, <2>4, <2>5, <3>4 DEF MergeGraph
        <4> QED BY <3>1, <4>1, StricterFits DEF Grown, Records
      <3> QED BY <3>2, <3>3, <3>4
    <2> HIDE DEF new
    <2>6. ASSUME graph' = Upsert(graph, new)
          PROVE  graph'[k] = IF k \in DOMAIN new THEN new[k] ELSE graph[k]
      BY <1>1, <2>6 DEF Upsert
    <2> QED BY <2>1, <2>5, <2>6
  <1>5. CASE JoinAtOnce(r)
    <2> DEFINE tgt == PairTarget[req[r].pair]
               src == PairSource[req[r].pair]
    <2>1. /\ graph' = [graph EXCEPT ![tgt] = JoinPair(graph[tgt], graph[src], c)]
          /\ PairReadable(r, graph[tgt], graph[src]) /\ req[r].pc = "loaded" /\ req[r].op \in Settlements
      BY <1>5 DEF JoinAtOnce, At, Settlements
    <2>2. c \in Contributions /\ tgt \in Names /\ src \in Names
      BY <2>1, CallKnown, MergeAssumption DEF MergeAssumption
    <2>3. graph[tgt] # Absent /\ graph[tgt] \in Records /\ graph[src] \in Records
      BY <1>1, <2>1, <2>2 DEF PairReadable, Sees
    <2> DEFINE new == JoinPair(graph[tgt], graph[src], c)
    <2>4. ASSUME NEW old \in Records, NEW joined \in Records PROVE Grown(old, JoinPair(old, joined, c))
      <3>1. /\ JoinPair(old, joined, c).sources = old.sources \cup joined.sources
            /\ old.level <= JoinPair(old, joined, c).level
        BY <2>2, JoinPairFits
      <3> QED BY <3>1 DEF Grown
    <2>5. Grown(graph[tgt], new)
      BY <2>3, <2>4
    <2> HIDE DEF new
    <2> QED BY <1>1, <2>1, <2>2, <2>3, <2>5 DEF new
  <1>6. CASE StoreStep(r) /\ ~MoveAll(r) /\ ~JoinAtOnce(r)
    <2>1. ~PutRecord(r) /\ ~PutPair(r)
      BY <1>2 DEF PutRecord, PutPair, At
    <2>2. graph' = graph
      BY <1>6, <2>1 DEF StoreStep, CollectChunks, CollectEntities, CollectRelations, CollectComms, ReadEntities,
         ReadRelations, PutChunks, PutComms, ReadPairTarget, ReadPairSource, PairMissing, stores
    <2> QED BY <2>2
  <1>7. CASE ServiceStep(r)
    BY <1>7 DEF ServiceStep, stores
  <1> QED BY <1>4, <1>5, <1>6, <1>7

(* A verdict is written by the call that was to give it, and kept by all    *)
(* the others: the manifest written back is the one that is there.          *)
LEMMA VerdictMoves ==
    ASSUME IInv, NEW r \in Requests, Begin(r) \/ Abort(r) \/ Proceed(r), NEW c \in Contributions, NEW p \in Pairs,
           row'[c].pairs[p] = "approved"
    PROVE  \/ row[c].pairs[p] = "approved"
           \/ req[r].pc = "loaded" /\ req[r].op = "alignment_approved" /\ req[r].pair = p
  <1> DEFINE e == req[r].c
  <1>1. row \in [Contributions -> Row] /\ req[r] \in Request
    BY DEF IInv, TypeOK
  <1>2. CASE row' = row
    BY <1>2
  <1>3. ASSUME NEW new, Write(r, new), e \in Contributions, DOMAIN new = DOMAIN NoRow
        PROVE  row'[c] = row[c] \/ (c = e /\ row'[c].pairs = new.pairs)
    BY <1>1, <1>3 DEF Write, NoRow
  <1>4. ASSUME req[r].pc # "idle" PROVE e \in Contributions /\ row[e] \in Row /\ req[r].seen \in Row
    BY <1>1, <1>4 DEF IInv, CallsChecked, Request
  <1>5. CASE Commit(r)
    <2> DEFINE new == Changed(row[e], req[r].op, req[r].user)
    <2>1. e \in Contributions /\ row[e] \in Row /\ Write(r, new)
      BY <1>4, <1>5 DEF Commit
    <2>2. DOMAIN new = DOMAIN NoRow /\ new.pairs = row[e].pairs
      BY <2>1 DEF Changed, Row, NoRow
    <2> HIDE DEF new
    <2> QED BY <1>3, <2>1, <2>2
  <1>6. CASE BuildManifest(r)
    <2>1. PICK queue \in SUBSET Pairs :
            Write(r, [row[e] EXCEPT !.manifest = TRUE,
                        !.pairs = [x \in Pairs |-> IF x \in queue THEN "pending" ELSE "none"]])
      BY <1>6 DEF BuildManifest
    <2> DEFINE new == [row[e] EXCEPT !.manifest = TRUE,
                        !.pairs = [x \in Pairs |-> IF x \in queue THEN "pending" ELSE "none"]]
    <2>2. e \in Contributions /\ row[e] \in Row
      BY <1>4, <1>6 DEF BuildManifest
    <2>3. DOMAIN new = DOMAIN NoRow /\ new.pairs[p] # "approved"
      BY <2>2 DEF Row, NoRow
    <2> HIDE DEF new
    <2> QED BY <1>3, <2>1, <2>2, <2>3 DEF new
  <1>7. CASE SettlePair(r)
    <2> DEFINE verdict == IF req[r].op = "alignment_approved" THEN "approved" ELSE "rejected"
               pairs == [req[r].seen.pairs EXCEPT ![req[r].pair] = verdict]
               new == [row[e] EXCEPT !.pairs = pairs]
    <2>1. /\ Write(r, new) /\ req[r].pc = "loaded" /\ Current(r)
          /\ e \in Contributions /\ row[e] \in Row
      BY <1>4, <1>7 DEF SettlePair
    <2>2. req[r].seen = row[e]
      BY <2>1 DEF IInv, VersionIdentifiesRow
    <2>3. pairs[p] = "approved" => row[e].pairs[p] = "approved" \/ (req[r].op = "alignment_approved" /\ req[r].pair = p)
      BY <2>1, <2>2 DEF Row
    <2> HIDE DEF pairs
    <2>4. DOMAIN new = DOMAIN NoRow /\ new.pairs = pairs
      BY <2>1 DEF Row, NoRow
    <2> HIDE DEF new
    <2> QED BY <1>3, <2>1, <2>3, <2>4
  <1> QED BY <1>2, <1>5, <1>6, <1>7 DEF Begin, Load, Select, Abort, Proceed, Reselect, Stale

----------------------------------------------------------------------------
(* A verdict that approves a pair leaves its mark for good, where no author *)
(* overwrites the target by ingesting again and the sources of pairs came   *)
(* out of documents.                                                        *)

PairsLast == \A p \in Pairs : /\ PairSource[p] \notin DOMAIN Stored
                              /\ \A s \in Settings : \A d \in s.reingested : PairTarget[p] \notin Mentions[d]
Evidence(p) == \E d \in Docs : PairSource[p] \in Mentions[d] /\ d \in graph[PairTarget[p]].sources

(* A record extracted from documents has one of them as a source.           *)
Sourced == \A k \in Names \ DOMAIN Stored :
    graph[k] # Absent => \E d \in Docs : k \in Mentions[d] /\ d \in graph[k].sources
(* What is in the graph store before a verdict is given is there after it.  *)
JoinedFirst == \A r \in Requests :
    req[r].pc = "loaded" /\ req[r].op = "alignment_approved" /\ work[r].stage = "stored"
        => Evidence(req[r].pair)
PairIInv == MergeIInv /\ (~Suspends => Sourced /\ JoinedFirst /\ VerdictApplied)

LEMMA InitPairs == ASSUME PairsLast PROVE MergeInit => PairIInv
  <1> SUFFICES ASSUME MergeInit PROVE PairIInv
    OBVIOUS
  <1>1. MergeIInv
    BY InitMerge
  <1>2. \A r \in Requests : req[r].pc = "idle"
    BY DEF MergeInit, Idle
  <1>3. JoinedFirst
    BY <1>2 DEF JoinedFirst
  <1>4. ASSUME NEW k \in Names \ DOMAIN Stored, graph[k] # Absent
        PROVE  \E d \in Docs : k \in Mentions[d] /\ d \in graph[k].sources
    <2>1. \E d \in Mentioning(k) : graph[k] = Ingested(d, Owner(d))
      BY <1>4 DEF MergeInit
    <2> QED BY <2>1 DEF Mentioning, Ingested, Record
  <1>5. ASSUME NEW c \in Contributions, NEW p \in Pairs PROVE row[c].pairs[p] # "approved"
    <2>1. CASE c \notin setting.offered
      <3>1. row[c] = NoRow
        BY <2>1 DEF MergeInit
      <3> QED BY <3>1 DEF NoRow, NoPairs
    <2>2. CASE c \in setting.offered
      <3>1. PICK embeds \in BOOLEAN :
              row = [e \in Contributions |->
                      IF e \notin setting.offered THEN NoRow ELSE
                      [NoRow EXCEPT !.status = "submitted", !.version = 3, !.author = Author[e],
                            !.library = Target[e], !.assignee = FirstApprover(Target[e]),
                            !.manifest = TRUE,
                            !.pairs = [x \in Pairs |->
                                IF x \in FirstView(e, setting.viewer[e], embeds) THEN "pending" ELSE "none"]]]
        BY DEF MergeInit
      <3> DEFINE queue == FirstView(c, setting.viewer[c], embeds)
      <3> HIDE DEF queue
      <3>2. row[c].pairs = [x \in Pairs |-> IF x \in queue THEN "pending" ELSE "none"]
        BY <2>2, <3>1 DEF queue, NoRow
      <3> QED BY <3>2
    <2> QED BY <2>1, <2>2
  <1> QED BY <1>1, <1>3, <1>4, <1>5 DEF PairIInv, Sourced, VerdictApplied

LEMMA NextPairs == ASSUME PairsLast PROVE PairIInv /\ [MergeNext]_mergeVars => PairIInv'
  <1> SUFFICES ASSUME PairIInv, [MergeNext]_mergeVars PROVE PairIInv'
    OBVIOUS
  <1>1. MergeIInv /\ MergeIInv' /\ IInv /\ graph \in [Names -> Records] /\ setting \in Settings
    BY NextMerge DEF PairIInv, MergeIInv
  <1>2. setting' = setting /\ Suspends' = Suspends
    BY DEF MergeNext, mergeVars, Suspends
  <1>3. ASSUME ~Suspends PROVE Sourced' /\ JoinedFirst' /\ VerdictApplied'
    <2>1. Sourced /\ JoinedFirst /\ \A c \in Contributions, p \in Pairs : row[c].pairs[p] = "approved" => Evidence(p)
      BY <1>3 DEF PairIInv, VerdictApplied, Evidence
    <2>2. \A p \in Pairs : PairTarget[p] \in Names /\ PairSource[p] \in Names \ DOMAIN Stored
      BY MergeAssumption DEF PairsLast, MergeAssumption
    \* It is enough that the evidence stays, and that a new verdict or a finished join has it.
    <2>3. ASSUME \A p \in Pairs : graph[PairTarget[p]].sources \subseteq graph'[PairTarget[p]].sources,
                 NEW p \in Pairs, Evidence(p)
          PROVE  Evidence(p)'
      BY <2>3 DEF Evidence
    <2>4. CASE UNCHANGED <<row, req, graph, work>>
      BY <2>1, <2>4, <1>3, <1>2 DEF PairIInv, Sourced, JoinedFirst, VerdictApplied, Evidence
    <2>5. ASSUME NEW d \in Docs, Reingest(d) PROVE Sourced' /\ JoinedFirst' /\ VerdictApplied'
      <3>1. /\ graph' = [k \in Names |-> IF k \in Mentions[d] THEN Ingested(d, Owner(d)) ELSE graph[k]]
            /\ row' = row /\ req' = req /\ work' = work /\ d \in setting.reingested
        BY <2>5 DEF Reingest, vars, Reingested
      <3>2. \A p \in Pairs : graph'[PairTarget[p]] = graph[PairTarget[p]]
        BY <1>1, <2>2, <3>1 DEF PairsLast
      <3>3. \A p \in Pairs : Evidence(p) => Evidence(p)'
        BY <2>3, <3>2
      <3>4. Sourced'
        <4> SUFFICES ASSUME NEW k \in Names \ DOMAIN Stored, graph'[k] # Absent
                     PROVE  \E e \in Docs : k \in Mentions[e] /\ e \in graph'[k].sources
          BY DEF Sourced
        <4>1. CASE k \in Mentions[d]
          <5>1. graph'[k].sources = {d}
            BY <3>1, <4>1 DEF Ingested, Record
          <5> QED BY <4>1, <5>1
        <4>2. CASE k \notin Mentions[d]
          BY <2>1, <3>1, <4>2 DEF Sourced
        <4> QED BY <4>1, <4>2
      <3>5. JoinedFirst'
        <4> SUFFICES ASSUME NEW r \in Requests, req[r].pc = "loaded", req[r].op = "alignment_approved",
                            work[r].stage = "stored"
                     PROVE  Evidence(req[r].pair)'
          BY <3>1 DEF JoinedFirst
        <4>1. req[r].pair \in Pairs /\ Evidence(req[r].pair)
          BY <1>1, <2>1, CallKnown DEF JoinedFirst, Settlements
        <4>2. req'[r].pair = req[r].pair
          BY <3>1
        <4> QED BY <3>2, <4>1, <4>2 DEF Evidence
      <3>6. VerdictApplied'
        BY <2>1, <3>1, <3>3 DEF VerdictApplied, Evidence
      <3> QED BY <3>4, <3>5, <3>6
    <2>6. ASSUME NEW r \in Requests, ServiceStep(r) \/ StoreStep(r)
          PROVE  Sourced' /\ JoinedFirst' /\ VerdictApplied'
      <3>1. \A k \in Names : graph'[k] = graph[k] \/ (graph[k] # Absent /\ Grown(graph[k], graph'[k]))
        BY <1>1, <1>3, <2>6, StepsGrow
      <3>2. Sourced'
        BY <2>1, <3>1 DEF Sourced, Grown
      <3>3. \A p \in Pairs : graph[PairTarget[p]].sources \subseteq graph'[PairTarget[p]].sources
        BY <2>2, <3>1 DEF Grown
      <3>4. \A p \in Pairs : Evidence(p) => Evidence(p)'
        BY <2>3, <3>3
      <3>5. ASSUME req[r].pc = "loaded", req[r].op = "alignment_approved", work[r].stage = "stored"
            PROVE  req[r].pair \in Pairs /\ Evidence(req[r].pair)
        BY <1>1, <2>1, <3>5, CallKnown DEF JoinedFirst, Settlements
      <3>6. VerdictApplied'
        <4> SUFFICES ASSUME NEW c \in Contributions, NEW p \in Pairs, row'[c].pairs[p] = "approved"
                     PROVE  Evidence(p)'
          BY DEF VerdictApplied, Evidence
        <4>1. CASE row[c].pairs[p] = "approved"
          BY <2>1, <3>4, <4>1
        <4>2. CASE row[c].pairs[p] # "approved"
          <5>1. row' # row
            BY <4>2
          <5>2. ServiceStep(r)
            <6>1. ASSUME StoreStep(r) PROVE row' = row
              BY <6>1, StoreStepAside DEF vars, Abort
            <6> QED BY <2>6, <5>1, <6>1
          <5>3. req[r].pc = "loaded" /\ req[r].op = "alignment_approved" /\ req[r].pair = p
            BY <1>1, <4>2, <5>2, VerdictMoves DEF ServiceStep
          <5>4. ~Begin(r) /\ ~Abort(r)
            BY <5>1, <5>3 DEF Begin, Load, Select, Abort
          <5>5. work[r].stage = "stored"
            BY <5>2, <5>3, <5>4 DEF ServiceStep, StoresFirst
          <5> QED BY <3>4, <3>5, <5>3, <5>5
        <4> QED BY <4>1, <4>2
      <3>7. JoinedFirst'
        <4> SUFFICES ASSUME NEW x \in Requests, req'[x].pc = "loaded", req'[x].op = "alignment_approved",
                            work'[x].stage = "stored"
                     PROVE  Evidence(req[x].pair)'
          BY DEF JoinedFirst
        <4>1. CASE req'[x] = req[x] /\ work'[x] = work[x]
          <5>1. req[x].pair \in Pairs /\ Evidence(req[x].pair)
            BY <1>1, <2>1, <4>1, CallKnown DEF JoinedFirst, Settlements
          <5> QED BY <3>3, <4>1, <5>1 DEF Evidence
        <4>2. CASE ~(req'[x] = req[x] /\ work'[x] = work[x])
          <5>1. DOMAIN work = Requests /\ req \in [Requests -> Request]
            BY <1>1 DEF MergeIInv, WorkTyped, IInv, TypeOK
          <5>2. ~ServiceStep(r)
            <6> SUFFICES ASSUME ServiceStep(r) PROVE FALSE
              OBVIOUS
            <6>1. /\ \A y \in Requests \ {r} : req'[y] = req[y]
                  /\ work' = [work EXCEPT ![r] = IF req'[r].pc = "selected" THEN work[r] ELSE NoWork]
              BY <1>1, CallMoves DEF ServiceStep, IInv
            <6>2. x = r /\ work'[r] = NoWork
              BY <4>2, <5>1, <6>1
            <6> QED BY <6>2 DEF NoWork
          <5>3. StoreStep(r)
            BY <2>6, <5>2
          <5>4. CASE PairMissing(r)
            <6>1. req' = [req EXCEPT ![r] = Idle] /\ work' = [work EXCEPT ![r] = NoWork]
              BY <5>4 DEF PairMissing
            <6>2. x # r => req'[x] = req[x] /\ work'[x] = work[x]
              BY <5>1, <6>1
            <6>3. req'[r].pc = "idle"
              BY <5>1, <6>1 DEF Idle
            <6> QED BY <4>2, <6>2, <6>3
          <5>5. CASE ~PairMissing(r)
            <6>1. req' = req /\ req[r].pc = "loaded"
              BY <5>3, <5>5 DEF StoreStep, CollectChunks, CollectEntities, CollectRelations, CollectComms,
                 ReadEntities, ReadRelations, PutChunks, PutRecord, PutComms, MoveAll, ReadPairTarget, ReadPairSource, PutPair, JoinAtOnce, At, vars
            <6>2. \A y \in Requests \ {r} : work'[y] = work[y]
              BY <5>1, <5>3, <5>5 DEF StoreStep, CollectChunks, CollectEntities, CollectRelations, CollectComms,
                 ReadEntities, ReadRelations, PutChunks, PutRecord, PutComms, MoveAll, ReadPairTarget, ReadPairSource, PutPair, JoinAtOnce
            <6>3. x = r
              BY <4>2, <6>1, <6>2
            <6>4. work[r].stage \in {"start", "stored"}
              BY <1>1, <1>3, CallKnown DEF WorkFits
            <6>5. JoinAtOnce(r)
              BY <1>3, <5>3, <5>5, <6>1, <6>3, <6>4 DEF StoreStep, CollectChunks, CollectEntities,
                 CollectRelations, CollectComms, ReadEntities, ReadRelations, PutChunks, PutRecord, PutComms, MoveAll, ReadPairTarget, ReadPairSource, PutPair, At
            <6> DEFINE p == req[r].pair
                       tgt == PairTarget[p]
                       src == PairSource[p]
            <6>6. /\ graph' = [graph EXCEPT ![tgt] = JoinPair(graph[tgt], graph[src], req[r].c)]
                  /\ PairReadable(r, graph[tgt], graph[src]) /\ req[r].op \in Settlements
              BY <6>5 DEF JoinAtOnce, At, Settlements
            <6>7. p \in Pairs /\ req[r].c \in Contributions
              BY <1>1, <6>1, <6>6, CallKnown
            <6>8. graph[src] # Absent /\ graph[src] \in Records /\ graph[tgt] \in Records
              BY <1>1, <2>2, <6>6, <6>7 DEF PairReadable, Sees
            <6>9. PICK d \in Docs : src \in Mentions[d] /\ d \in graph[src].sources
              BY <2>1, <2>2, <6>7, <6>8 DEF Sourced
            <6>10. JoinPair(graph[tgt], graph[src], req[r].c).sources = graph[tgt].sources \cup graph[src].sources
              BY <6>7, <6>8, JoinPairFits
            <6>11. d \in graph'[tgt].sources
              BY <1>1, <2>2, <6>6, <6>7, <6>9, <6>10
            <6> QED BY <6>1, <6>3, <6>9, <6>11 DEF Evidence
          <5> QED BY <5>4, <5>5
        <4> QED BY <4>1, <4>2
      <3> QED BY <3>2, <3>6, <3>7
    <2> QED BY <2>4, <2>5, <2>6 DEF MergeNext, mergeVars
  <1> QED BY <1>1, <1>2, <1>3 DEF PairIInv

----------------------------------------------------------------------------
(* Every step of a merge, of an alignment review and of an author who       *)
(* ingests again keeps the workflow's record and what entitles each piece   *)
(* of content to its library.                                               *)
THEOREM MergeInvariant == MergeSpec => []MergeIInv
  <1> QED BY InitMerge, NextMerge, PTL DEF MergeSpec

(* The stores and the working sets of the calls keep their types.           *)
THEOREM MergeTypes == MergeSpec => []MergeTypeOK
  <1>1. ASSUME MergeIInv PROVE MergeTypeOK
    <2>1. \A r \in Requests : WorkType(work[r]) /\ WorkFits(req[r], work[r])
      BY <1>1, CallKnown
    <2> QED BY <1>1, <2>1 DEF MergeIInv, IInv, MergeTypeOK, WorkType, WorkFits, Typed
  <1> QED BY <1>1, MergeInvariant, PTL

(* Where calls are suspended in the middle of their store work the workflow *)
(* still keeps its promises: no self-review, no write without its entry, no *)
(* merge without a standing approval, none twice.                           *)
THEOREM WorkflowStands == MergeSpec => [](ReviewedByOthers /\ ApprovedMerges)
  <1>1. MergeIInv => ReviewedByOthers /\ ApprovedMerges
    BY DEF MergeIInv, IInv, ReviewedByOthers, ApprovedMerges
  <1> QED BY <1>1, MergeInvariant, PTL

(* Where merges are suspended between their store calls and authors ingest  *)
(* again, the workflow still goes only along its edges, by others than the  *)
(* author where it says so, and no verdict on a pair is taken back: the     *)
(* composition keeps what the service alone promises.  It starts from       *)
(* contributions that are already submitted, so this is about the steps.    *)
THEOREM MergesFollowLifecycle == MergeSpec => [][Lifecycle!Next]_Tickets /\ VerdictsStand
  <1>1. IInv /\ [MergeNext]_mergeVars => [Lifecycle!Next]_Tickets
    BY MergeStepsWorkflow, StepsFollow
  <1>2. ASSUME IInv, [MergeNext]_mergeVars
        PROVE  \A c \in Contributions, p \in Pairs :
                 row[c].pairs[p] \in {"approved", "rejected"} => row'[c].pairs[p] = row[c].pairs[p]
    BY <1>2, MergeStepsWorkflow, VerdictStays
  <1>3. IInv /\ [MergeNext]_mergeVars =>
          [\A c \in Contributions, p \in Pairs :
             row[c].pairs[p] \in {"approved", "rejected"} => row'[c].pairs[p] = row[c].pairs[p]]_vars
    BY <1>2
  <1>4. MergeIInv => IInv
    BY DEF MergeIInv
  <1> QED BY <1>1, <1>3, <1>4, MergeInvariant, PTL DEF MergeSpec, VerdictsStand

(* Text and communities enter a library only for a contribution to it whose *)
(* approval stands, although MergeService.merge reads the status only once, *)
(* before all its store calls; so do graph records, and evidence that no    *)
(* approval covers is only where an alignment verdict may have joined it.   *)
THEOREM OnlyApprovedEnters == MergeSpec => []EnteredApproved
  <1>1. ASSUME MergeIInv PROVE EnteredApproved
    <2>1. \A d \in Docs : Entered(row, chunk[d]) /\ Entered(row, comm[d])
      BY <1>1 DEF MergeIInv, StoresWarranted
    <2>2. \A k \in Names : Evidenced(row, k, graph[k]) /\ Lawful(row, k, graph[k])
      BY <1>1 DEF MergeIInv, StoresWarranted, Warranted
    <2> QED BY <2>1, <2>2 DEF EnteredApproved, Lawful
  <1> QED BY <1>1, MergeInvariant, PTL

(* On stores that do not suspend, store work takes no evidence from a graph *)
(* record and lowers no access level.                                       *)
THEOREM InMemoryOnlyAdds == MergeSpec => StepsOnlyAdd
  <1>1. ASSUME MergeIInv, MergeNext, work' # work, ~Suspends, NEW k \in Names
        PROVE  graph[k].sources \subseteq graph'[k].sources /\ graph[k].level <= graph'[k].level
    <2>1. PICK r \in Requests : ServiceStep(r) \/ StoreStep(r)
      BY <1>1 DEF MergeNext, Reingest
    <2>2. graph'[k] = graph[k] \/ Grown(graph[k], graph'[k])
      BY <1>1, <2>1, StepsGrow
    <2>3. graph[k] \in Records
      BY <1>1 DEF MergeIInv
    <2> QED BY <2>2, <2>3 DEF Grown, Records
  <1>2. MergeIInv /\ [MergeNext]_mergeVars =>
          [work' # work /\ ~Suspends => \A k \in Names :
             graph[k].sources \subseteq graph'[k].sources /\ graph[k].level <= graph'[k].level]_mergeVars
    BY <1>1
  <1> QED BY <1>2, MergeInvariant, PTL DEF MergeSpec, StepsOnlyAdd

(* A verdict that approved a pair shows in the graph for good: the target   *)
(* was joined before the verdict was written, and no later merge, verdict   *)
(* or abort takes the evidence back.  An author who ingests the target      *)
(* itself again would, and a source no document mentions has none to give.  *)
THEOREM VerdictsLast == ASSUME PairsLast PROVE MergeSpec => []VerdictApplied
  <1>1. PairIInv => VerdictApplied
    BY DEF PairIInv, VerdictApplied
  <1>2. MergeInit => PairIInv
    BY InitPairs
  <1>3. PairIInv /\ [MergeNext]_mergeVars => PairIInv'
    BY NextPairs
  <1> QED BY <1>1, <1>2, <1>3, PTL DEF MergeSpec

----------------------------------------------------------------------------
(* What a merge that is on record has moved, and that it stays there.       *)

Held(rec) == rec.home \in Libraries
Untouched(d, rec) == rec = Ingested(d, Owner(d))

(* The documents a contribution's author offers of their own and may read.  *)
Own(c, d) == d \in DocOf[c] \ Reingested /\ Owner(d) = Author[c] /\ Level[d] <= Clearance[Author[c]]

(* What no library holds is as its owner's ingestion left it.               *)
Personal == /\ \A d \in Docs : /\ Held(chunk[d]) \/ Untouched(d, chunk[d])
                               /\ Held(comm[d]) \/ Untouched(d, comm[d])
            /\ ~Suspends => \A k \in Names : ~QueuedTarget(row, k) =>
                 Held(graph[k]) \/ graph[k] = Absent \/ \E d \in Docs : Untouched(d, graph[k])

(* Where a merge is one step, all of a document goes with its text.         *)
TextTakesAll == ~Suspends => \A d \in Docs \ Reingested : Held(chunk[d]) =>
    \A k \in Names : d \in graph[k].sources /\ ~QueuedTarget(row, k) => Held(graph[k])

(* A merge in flight has collected or moved the text it has not found moved, *)
(* and then the communities.                                                *)
TextKnown(q, w) == q.pc # "idle" /\ q.op = "merge" =>
    /\ q.pc = "selected" => w.stage = "stored"
    /\ \A d \in Docs : Own(q.c, d) =>
         /\ w.stage \in {"chunks", "entities", "keys", "comms", "target entities", "target"} =>
              d \in DOMAIN w.chunks \/ Held(chunk[d])
         /\ w.stage \in {"comms", "target entities", "target", "put chunks"} =>
              d \in DOMAIN w.comms \/ Held(comm[d])
         /\ w.stage = "put chunks" => Held(chunk[d])
         /\ w.stage = "stored" /\ q.user \notin CliUsers => Held(chunk[d]) /\ Held(comm[d])
TextMoved == \A c \in Contributions : MergedByApi(c) =>
    \A d \in Docs : Own(c, d) => Held(chunk[d]) /\ Held(comm[d])
ArrivalIInv == /\ MergeIInv /\ Personal /\ TextTakesAll /\ TextMoved
               /\ \A r \in Requests : TextKnown(req[r], work[r])

LEMMA UntouchedIs ==
    ASSUME NEW d \in Docs, NEW rec, Untouched(d, rec)
    PROVE  /\ rec.home = Owner(d) /\ rec.sources = {d} /\ rec.level = Level[d]
           /\ ~Held(rec) /\ rec # Absent
  <1>1. rec.home = Owner(d) /\ rec.sources = {d} /\ rec.level = Level[d]
    BY DEF Untouched, Ingested, Record
  <1>2. Absent.home = None
    BY DEF Absent
  <1>3. Owner(d) \in Users /\ Owner(d) \notin Libraries /\ Owner(d) # None
    BY Fresh, MergeAssumption, ServiceAssumption DEF MergeAssumption, ServiceAssumption
  <1> QED BY <1>1, <1>2, <1>3 DEF Held

LEMMA AuthorSees ==
    ASSUME NEW c \in Contributions, NEW d \in Docs, Owner(d) = Author[c],
           Level[d] <= Clearance[Author[c]], NEW rec, Untouched(d, rec)
    PROVE  Sees(Author[c], rec)
  BY UntouchedIs DEF Sees

(* Who may read an untouched record is its owner.                           *)
LEMMA OwnerSees ==
    ASSUME NEW u, NEW d \in Docs, NEW rec, Untouched(d, rec), Sees(u, rec)
    PROVE  Owner(d) = u /\ Level[d] <= Clearance[u]
  BY UntouchedIs DEF Sees, Held

LEMMA TakesText ==
    ASSUME Personal, NEW c \in Contributions, NEW d \in Docs, Own(c, d)
    PROVE  /\ d \in DOMAIN TakeChunks(c, Author[c]) \/ Held(chunk[d])
           /\ \A keys : d \in DOMAIN TakeComms(c, keys) \/ Held(comm[d])
  <1>1. Owner(d) = Author[c] /\ Level[d] <= Clearance[Author[c]] /\ d \in DocOf[c]
    BY DEF Own
  <1> QED BY <1>1, AuthorSees DEF Personal, TakeChunks, TakeComms

(* What a merge rewrites a library holds.                                   *)
LEMMA RewrittenHeld ==
    ASSUME NEW keys, NEW store \in [keys -> Records], NEW recs, Typed(recs, keys), NEW c \in Contributions, NEW k \in keys
    PROVE  /\ k \in DOMAIN recs => Held(Upsert(store, Rewritten(recs, c))[k])
           /\ k \notin DOMAIN recs => Upsert(store, Rewritten(recs, c))[k] = store[k]
  <1>1. Upsert(store, Rewritten(recs, c))[k] =
          IF k \in DOMAIN recs THEN [recs[k] EXCEPT !.home = Target[c], !.prov = c] ELSE store[k]
    BY DEF Upsert, Rewritten
  <1>2. k \in DOMAIN recs => recs[k] \in Records
    BY DEF Typed
  <1>3. Target[c] \in Libraries
    BY MergeAssumption DEF MergeAssumption
  <1> QED BY <1>1, <1>2, <1>3 DEF Held, Records

(* What is held of documents that are not ingested again stays held.        *)
HeldStays == \A d \in Docs \ Reingested :
    (Held(chunk[d]) => Held(chunk'[d])) /\ (Held(comm[d]) => Held(comm'[d]))

LEMMA CallStaysKnown ==
    ASSUME setting' = setting, HeldStays,
           NEW x \in Requests, req'[x] = req[x], work'[x] = work[x], TextKnown(req[x], work[x])
    PROVE  TextKnown(req[x], work[x])'
  BY DEF TextKnown, Held, HeldStays, Own, Reingested, CliUsers

(* Only the commit of a merge puts one on record.                           *)
LEMMA MergeLogged ==
    ASSUME IInv, setting' = setting, NEW r \in Requests, Begin(r) \/ Abort(r) \/ Proceed(r), NEW c \in Contributions, MergedByApi(c)'
    PROVE  \/ MergedByApi(c)
           \/ req[r].pc = "selected" /\ req[r].op = "merge" /\ req[r].c = c /\ req[r].user \notin CliUsers
  <1>1. CliUsers' = CliUsers
    BY DEF CliUsers
  <1>2. CASE audit' = audit
    BY <1>1, <1>2 DEF MergedByApi
  <1>3. ASSUME NEW new, Write(r, new), req[r].pc # "idle"
        PROVE  MergedByApi(c) \/ (req[r].op = "merge" /\ req[r].c = c /\ req[r].user \notin CliUsers)
    <2> DEFINE e == [action |-> req[r].op, user |-> req[r].user]
    <2>1. /\ req[r].c \in Contributions /\ audit' = [audit EXCEPT ![req[r].c] = Append(audit[req[r].c], e)]
          /\ audit \in [Contributions -> Seq(Entry)]
      BY <1>3 DEF IInv, CallsChecked, TypeOK, Write
    <2>2. CASE c # req[r].c
      <3>1. audit'[c] = audit[c]
        BY <2>1, <2>2
      <3> QED BY <1>1, <3>1 DEF MergedByApi
    <2>3. CASE c = req[r].c
      <3>1. audit'[c] = Append(audit[c], e) /\ audit[c] \in Seq(Entry)
        BY <2>1, <2>3
      <3>2. PICK i \in DOMAIN audit'[c] : audit'[c][i].action = "merge" /\ audit'[c][i].user \notin CliUsers
        BY <1>1 DEF MergedByApi
      <3> HIDE DEF e
      <3>3. (i \in DOMAIN audit[c] /\ audit'[c][i] = audit[c][i]) \/ audit'[c][i] = e
        BY <3>1, <3>2
      <3>4. CASE audit'[c][i] = e
        BY <2>3, <3>2, <3>4 DEF e
      <3>5. CASE i \in DOMAIN audit[c] /\ audit'[c][i] = audit[c][i]
        BY <3>2, <3>5 DEF MergedByApi
      <3> QED BY <3>3, <3>4, <3>5
    <2> QED BY <2>2, <2>3
  <1>4. CASE Commit(r)
    BY <1>3, <1>4 DEF Commit
  <1>5. CASE BuildManifest(r)
    BY <1>3, <1>5 DEF BuildManifest
  <1>6. CASE SettlePair(r)
    BY <1>3, <1>6 DEF SettlePair, Settlements
  <1>7. CASE ~Commit(r) /\ ~BuildManifest(r) /\ ~SettlePair(r)
    BY <1>2, <1>7 DEF Begin, Load, Select, Abort, Proceed, Reselect, Stale
  <1> QED BY <1>4, <1>5, <1>6, <1>7

(* A call of the workflow: a merge has done its store work before its       *)
(* status is changed.                                                       *)
LEMMA CallBegun ==
    ASSUME MergeIInv, NEW r \in Requests, ServiceStep(r), req'[r].pc = "selected", req'[r].op = "merge"
    PROVE  /\ work[r].stage = "stored" /\ req[r].pc = "loaded" /\ req[r].op = "merge"
           /\ req'[r].c = req[r].c /\ req'[r].user = req[r].user
  <1>1. req \in [Requests -> Request] /\ Idle.pc = "idle"
    BY DEF MergeIInv, IInv, TypeOK, Idle
  <1>2. CASE Begin(r)
    BY <1>1, <1>2 DEF Begin, Load, Select
  <1>3. CASE Reselect(r) /\ ~Begin(r) /\ ~Abort(r)
    <2>1. /\ req[r].pc = "loaded" /\ req[r].op \in {"submit", "merge"}
          /\ req'[r] = [req[r] EXCEPT !.pc = "selected"] \/ req'[r] = Idle
      BY <1>1, <1>3 DEF Reselect
    <2>2. req[r].op = "merge" => work[r].stage = "stored"
      BY <1>3, <2>1 DEF ServiceStep, StoresFirst
    <2> QED BY <1>1, <2>1, <2>2 DEF Request
  <1>4. CASE Commit(r) \/ BuildManifest(r) \/ SettlePair(r) \/ Stale(r) \/ Abort(r)
    <2>1. req' = [req EXCEPT ![r] = Idle]
      BY <1>4 DEF Commit, BuildManifest, SettlePair, Stale, Abort, Write
    <2> QED BY <1>1, <2>1
  <1> QED BY <1>2, <1>3, <1>4 DEF ServiceStep, Proceed

(* A step that writes no store: nothing held is let go.                     *)
LEMMA StoresAlike ==
    ASSUME Personal, TextTakesAll, setting' = setting, UNCHANGED stores,
           \A k : QueuedTarget(row, k) => QueuedTarget(row', k)
    PROVE  Personal' /\ TextTakesAll' /\ HeldStays
  <1>1. chunk' = chunk /\ comm' = comm /\ graph' = graph /\ Suspends' = Suspends /\ Reingested' = Reingested
    BY DEF stores, Suspends, Reingested
  <1>2. Personal'
    BY <1>1 DEF Personal, Held, Untouched
  <1>3. TextTakesAll'
    BY <1>1 DEF TextTakesAll, Held
  <1>4. HeldStays
    BY <1>1 DEF HeldStays, Held
  <1> QED BY <1>2, <1>3, <1>4

LEMMA ServiceArrives ==
    ASSUME ArrivalIInv, MergeIInv', setting' = setting, [Next]_vars, NEW r \in Requests, ServiceStep(r)
    PROVE  ArrivalIInv'
  <1>1. UNCHANGED stores /\ chunk' = chunk /\ comm' = comm
    BY DEF ServiceStep, stores
  <1>2. MergeIInv /\ IInv /\ TypeOK /\ \A x \in Requests : TextKnown(req[x], work[x])
    BY DEF ArrivalIInv, MergeIInv, IInv
  <1>3. Personal' /\ TextTakesAll' /\ HeldStays
    BY <1>1, <1>2, StoresAlike, WarrantStays DEF ArrivalIInv
  <1>4. Begin(r) \/ Abort(r) \/ Proceed(r)
    BY DEF ServiceStep
  <1>5. TextMoved'
    <2> SUFFICES ASSUME NEW c \in Contributions, MergedByApi(c)', NEW d \in Docs, Own(c, d)
                 PROVE  Held(chunk[d]) /\ Held(comm[d])
      BY <1>1 DEF TextMoved, Held, Own, Reingested
    <2>1. CASE MergedByApi(c)
      BY <2>1 DEF ArrivalIInv, TextMoved
    <2>2. CASE ~MergedByApi(c)
      <3>1. req[r].pc = "selected" /\ req[r].op = "merge" /\ req[r].c = c /\ req[r].user \notin CliUsers
        BY <1>2, <1>4, <2>2, MergeLogged
      <3>2. TextKnown(req[r], work[r])
        BY <1>2
      <3> QED BY <3>1, <3>2 DEF TextKnown
    <2> QED BY <2>1, <2>2
  <1>6. /\ work' = [work EXCEPT ![r] = IF req'[r].pc = "selected" THEN work[r] ELSE NoWork]
        /\ DOMAIN work = Requests
    BY <1>2 DEF ServiceStep, MergeIInv, WorkTyped
  <1>7. ASSUME NEW x \in Requests \ {r} PROVE TextKnown(req[x], work[x])'
    <2>1. req'[x] = req[x]
      BY <1>2, <1>4, CallMoves
    <2>2. work'[x] = work[x]
      BY <1>6
    <2> QED BY <1>2, <1>3, <2>1, <2>2, CallStaysKnown
  <1>8. TextKnown(req[r], work[r])'
    <2>1. CliUsers' = CliUsers /\ Reingested' = Reingested
      BY DEF CliUsers, Reingested
    <2>2. CASE req'[r].pc = "selected" /\ req'[r].op = "merge"
      <3>1. work'[r] = work[r] /\ TextKnown(req[r], work[r])
        BY <1>2, <1>6, <2>2
      <3>2. /\ work[r].stage = "stored" /\ req[r].pc = "loaded" /\ req[r].op = "merge"
            /\ req'[r].c = req[r].c /\ req'[r].user = req[r].user
        BY <1>2, <2>2, CallBegun
      <3>3. req[r].user \notin CliUsers => \A d \in Docs : Own(req[r].c, d) => Held(chunk[d]) /\ Held(comm[d])
        BY <3>1, <3>2 DEF TextKnown
      <3> QED BY <1>1, <2>1, <2>2, <3>1, <3>2, <3>3 DEF TextKnown, Held, Own
    <2>3. CASE req'[r].pc # "selected"
      <3>1. work'[r] = NoWork /\ NoWork.stage = "start"
        BY <1>6, <2>3 DEF NoWork
      <3> QED BY <2>3, <3>1 DEF TextKnown
    <2>4. CASE req'[r].op # "merge"
      BY <2>4 DEF TextKnown
    <2> QED BY <2>2, <2>3, <2>4
  <1> QED BY <1>3, <1>5, <1>7, <1>8 DEF ArrivalIInv

(* Store work of the call r.                                                *)
LEMMA StoreArrives ==
    ASSUME ArrivalIInv, MergeIInv', setting' = setting, NEW r \in Requests, UNCHANGED vars,
           \A x \in Requests \ {r} : work'[x] = work[x],
           Personal', TextTakesAll', HeldStays,
           TextKnown(req[r], work[r])'
    PROVE  ArrivalIInv'
  <1>1. row' = row /\ audit' = audit /\ req' = req
    BY DEF vars
  <1>2. MergeIInv /\ \A x \in Requests : TextKnown(req[x], work[x])
    BY DEF ArrivalIInv
  <1>3. \A x \in Requests \ {r} : TextKnown(req[x], work[x])'
    BY <1>1, <1>2, CallStaysKnown
  <1>4. TextMoved'
    <2> SUFFICES ASSUME NEW c \in Contributions, MergedByApi(c)', NEW d \in Docs, Own(c, d)
                 PROVE  Held(chunk'[d]) /\ Held(comm'[d])
      BY DEF TextMoved, Held, Own, Reingested
    <2>1. MergedByApi(c)
      BY <1>1 DEF MergedByApi, CliUsers
    <2>2. Held(chunk[d]) /\ Held(comm[d]) /\ d \in Docs \ Reingested
      BY <2>1 DEF ArrivalIInv, TextMoved, Own
    <2> QED BY <2>2 DEF HeldStays
  <1> QED BY <1>3, <1>4 DEF ArrivalIInv

(* The calls that only read.                                                *)
LEMMA ReadsArrive ==
    ASSUME ArrivalIInv, MergeIInv', setting' = setting, [Next]_vars, NEW r \in Requests,
           \/ CollectChunks(r) \/ CollectEntities(r) \/ CollectRelations(r) \/ CollectComms(r)
           \/ ReadEntities(r) \/ ReadRelations(r) \/ ReadPairTarget(r) \/ ReadPairSource(r)
    PROVE  ArrivalIInv'
  <1> DEFINE c == req[r].c
             w0 == work[r]
             w == work'[r]
  <1>1. UNCHANGED vars /\ UNCHANGED stores /\ chunk' = chunk /\ comm' = comm /\ req' = req /\ req[r].pc = "loaded"
    BY DEF CollectChunks, CollectEntities, CollectRelations, CollectComms, ReadEntities, ReadRelations,
           ReadPairTarget, ReadPairSource, stores, At, vars
  <1>2. MergeIInv /\ IInv /\ TextKnown(req[r], w0) /\ DOMAIN work = Requests /\ Personal
        /\ DOMAIN w0 = Fields /\ c \in Contributions
    BY <1>1, CallKnown DEF ArrivalIInv, MergeIInv, WorkTyped, WorkType
  <1>3. Personal' /\ TextTakesAll' /\ HeldStays
    BY <1>1, <1>2, StoresAlike, WarrantStays DEF ArrivalIInv
  <1>4. \A x \in Requests \ {r} : work'[x] = work[x]
    BY <1>2 DEF CollectChunks, CollectEntities, CollectRelations, CollectComms, ReadEntities, ReadRelations,
                ReadPairTarget, ReadPairSource
  <1>5. \A d \in Docs : Own(c, d) =>
          /\ d \in DOMAIN TakeChunks(c, Author[c]) \/ Held(chunk[d])
          /\ d \in DOMAIN TakeComms(c, w0.keys) \/ Held(comm[d])
    BY <1>2, TakesText
  <1>6. TextKnown(req[r], w)
    <2>1. CASE CollectChunks(r)
      <3>1. w.stage = "chunks" /\ w.chunks = TakeChunks(c, Author[c])
        BY <1>2, <2>1 DEF CollectChunks, Fields
      <3> QED BY <1>1, <1>5, <3>1 DEF TextKnown
    <2>2. CASE CollectComms(r)
      <3>1. /\ w0.stage = "keys" /\ w.stage = "comms" /\ w.chunks = w0.chunks
            /\ w.comms = TakeComms(c, w0.keys) /\ req[r].op = "merge"
        BY <1>2, <2>2 DEF CollectComms, At, Fields
      <3> QED BY <1>1, <1>2, <1>5, <3>1 DEF TextKnown
    <2>3. CASE CollectEntities(r) \/ CollectRelations(r)
      <3>1. /\ w0.stage \in {"chunks", "entities"} /\ w.stage \in {"entities", "keys"}
            /\ w.chunks = w0.chunks /\ req[r].op = "merge"
        BY <1>2, <2>3 DEF CollectEntities, CollectRelations, At, Fields
      <3> QED BY <1>1, <1>2, <3>1 DEF TextKnown
    <2>4. CASE ReadEntities(r) \/ ReadRelations(r)
      <3>1. /\ w0.stage \in {"comms", "target entities"} /\ w.stage \in {"target entities", "target"}
            /\ w.chunks = w0.chunks /\ w.comms = w0.comms /\ req[r].op = "merge"
        <4>1. CASE ReadEntities(r)
          BY <1>2, <4>1 DEF ReadEntities, At, Fields
        <4>2. CASE ReadRelations(r)
          <5>1. PICK merged : work' = [work EXCEPT ![r].target = merged, ![r].stage = "target"]
            BY <4>2 DEF ReadRelations
          <5>2. w0.stage = "target entities" /\ req[r].op = "merge"
            BY <4>2 DEF ReadRelations, At
          <5> QED BY <1>2, <5>1, <5>2 DEF Fields
        <4> QED BY <2>4, <4>1, <4>2
      <3> QED BY <1>1, <1>2, <3>1 DEF TextKnown
    <2>5. CASE ReadPairTarget(r) \/ ReadPairSource(r)
      <3>1. req[r].op # "merge"
        BY <2>5 DEF ReadPairTarget, ReadPairSource, At
      <3> QED BY <3>1 DEF TextKnown
    <2> QED BY <2>1, <2>2, <2>3, <2>4, <2>5
  <1>7. TextKnown(req[r], work[r])'
    BY <1>1, <1>6 DEF TextKnown, Held, Own, Reingested, CliUsers
  <1> QED BY <1>1, <1>3, <1>4, <1>7, StoreArrives

LEMMA PutsArrive ==
    ASSUME ArrivalIInv, MergeIInv', setting' = setting, NEW r \in Requests,
           PutChunks(r) \/ PutRecord(r) \/ PutComms(r)
    PROVE  ArrivalIInv'
  <1> DEFINE c == req[r].c
             w0 == work[r]
             w == work'[r]
  <1>1. /\ UNCHANGED vars /\ req' = req /\ req[r].pc = "loaded" /\ req[r].op = "merge"
        /\ w0.stage \notin {"start", "stored"}
    BY DEF PutChunks, PutRecord, PutComms, At, vars
  <1>2. /\ MergeIInv /\ TextKnown(req[r], w0) /\ Personal /\ DOMAIN work = Requests /\ DOMAIN w0 = Fields
        /\ WorkType(w0) /\ WorkFits(req[r], w0) /\ c \in Contributions
    BY <1>1, CallKnown DEF ArrivalIInv, MergeIInv, WorkTyped, WorkType
  <1>3. Suspends /\ Suspends' = Suspends
    BY <1>1, <1>2 DEF WorkFits, Suspends
  <1>4. /\ chunk \in [Docs -> Records] /\ comm \in [Docs -> Records]
        /\ Typed(w0.chunks, Docs) /\ Typed(w0.comms, Docs)
    BY <1>2 DEF MergeIInv, WorkType
  <1>5. \A d \in Docs : chunk'[d] = chunk[d] \/ Held(chunk'[d])
    <2>1. chunk' = chunk \/ chunk' = Upsert(chunk, Rewritten(w0.chunks, c))
      BY DEF PutChunks, PutRecord, PutComms
    <2> QED BY <1>2, <1>4, <2>1, RewrittenHeld
  <1>6. \A d \in Docs : comm'[d] = comm[d] \/ Held(comm'[d])
    <2>1. comm' = comm \/ comm' = Upsert(comm, Rewritten(w0.comms, c))
      BY DEF PutChunks, PutRecord, PutComms
    <2> QED BY <1>2, <1>4, <2>1, RewrittenHeld
  <1>7. Personal'
    BY <1>2, <1>3, <1>5, <1>6 DEF Personal, Held, Untouched
  <1>8. TextTakesAll'
    BY <1>3 DEF TextTakesAll
  <1>9. HeldStays
    BY <1>5, <1>6 DEF HeldStays
  <1>10. \A x \in Requests \ {r} : work'[x] = work[x]
    BY <1>2 DEF PutChunks, PutRecord, PutComms
  <1>11. ASSUME NEW d \in Docs, Own(c, d)
         PROVE  /\ w.stage \in {"put chunks", "stored"} /\ Held(chunk'[d])
                /\ w.stage = "put chunks" => d \in DOMAIN w.comms \/ Held(comm'[d])
                /\ w.stage = "stored" => Held(comm'[d])
    <2>1. d \in Docs \ Reingested
      BY <1>11 DEF Own
    <2>2. CASE PutChunks(r)
      <3>1. /\ w0.stage = "target" /\ chunk' = Upsert(chunk, Rewritten(w0.chunks, c)) /\ comm' = comm
            /\ w.stage = "put chunks" /\ w.comms = w0.comms
        BY <1>2, <2>2 DEF PutChunks, At, Fields
      <3>2. (d \in DOMAIN w0.chunks \/ Held(chunk[d])) /\ (d \in DOMAIN w0.comms \/ Held(comm[d]))
        BY <1>1, <1>2, <1>11, <3>1 DEF TextKnown
      <3> QED BY <1>2, <1>4, <3>1, <3>2, RewrittenHeld
    <2>3. CASE PutRecord(r)
      <3>1. /\ w0.stage = "put chunks" /\ chunk' = chunk /\ comm' = comm
            /\ w.stage = "put chunks" /\ w.comms = w0.comms
        BY <1>2, <2>3 DEF PutRecord, At, Fields
      <3>2. Held(chunk[d]) /\ (d \in DOMAIN w0.comms \/ Held(comm[d]))
        BY <1>1, <1>2, <1>11, <3>1 DEF TextKnown
      <3> QED BY <3>1, <3>2
    <2>4. CASE PutComms(r)
      <3>1. /\ w0.stage = "put chunks" /\ comm' = Upsert(comm, Rewritten(w0.comms, c)) /\ chunk' = chunk
            /\ w.stage = "stored"
        BY <1>2, <2>4 DEF PutComms, At, Fields
      <3>2. Held(chunk[d]) /\ (d \in DOMAIN w0.comms \/ Held(comm[d]))
        BY <1>1, <1>2, <1>11, <3>1 DEF TextKnown
      <3> QED BY <1>2, <1>4, <3>1, <3>2, RewrittenHeld
    <2> QED BY <2>2, <2>3, <2>4
  <1>12. TextKnown(req[r], work[r])'
    BY <1>1, <1>11 DEF TextKnown, Held, Own, Reingested, CliUsers
  <1> QED BY <1>1, <1>7, <1>8, <1>9, <1>10, <1>12, StoreArrives

(* The graph record of a key that a merge in one step leaves in a personal  *)
(* library is the one that was there, and the merge did not collect it.     *)
LEMMA MergedGraphHeld ==
    ASSUME MergeIInv, NEW c \in Contributions, NEW u, NEW taken, NEW k \in Names
    PROVE  LET new == Upsert(graph, MergeGraph(TakeKeys(Author[c], taken, Names), SeenBy(u, Names), c))
           IN  Held(new[k]) \/ (new[k] = graph[k] /\ k \notin DOMAIN TakeKeys(Author[c], taken, Names))
  <1> DEFINE keys == TakeKeys(Author[c], taken, Names)
             target == SeenBy(u, Names)
             merged == MergeGraph(keys, target, c)
  <1>1. graph \in [Names -> Records]
    BY DEF MergeIInv
  <1>2. \A x \in DOMAIN keys : keys[x] = graph[x] /\ x \in Names
    BY DEF TakeKeys
  <1>3. \A x \in DOMAIN target : target[x] = graph[x]
    BY DEF SeenBy
  <1>4. Target[c] \in Libraries
    BY MergeAssumption DEF MergeAssumption
  <1> HIDE DEF keys, target
  <1>5. Upsert(graph, merged)[k] = IF k \in DOMAIN keys \cup DOMAIN target THEN merged[k] ELSE graph[k]
    BY <1>1 DEF Upsert, MergeGraph
  <1>6. CASE k \in DOMAIN keys
    <2>1. merged[k].home = Target[c]
      <3>1. CASE k \notin DOMAIN target
        <4>1. merged[k] = [keys[k] EXCEPT !.home = Target[c], !.prov = c]
          BY <1>6, <3>1 DEF MergeGraph, Rewritten
        <4> QED BY <1>1, <1>2, <1>6, <4>1 DEF Records
      <3>2. CASE k \in DOMAIN target
        BY <1>6, <3>2 DEF MergeGraph
      <3> QED BY <3>1, <3>2
    <2> QED BY <1>4, <1>5, <1>6, <2>1 DEF Held, keys, target
  <1>7. CASE k \notin DOMAIN keys /\ k \in DOMAIN target
    <2>1. merged[k] = graph[k]
      BY <1>3, <1>7 DEF MergeGraph
    <2> QED BY <1>5, <1>7, <2>1 DEF keys, target
  <1>8. CASE k \notin DOMAIN keys /\ k \notin DOMAIN target
    BY <1>5, <1>8 DEF keys, target
  <1> QED BY <1>6, <1>7, <1>8

LEMMA MoveAllArrives ==
    ASSUME ArrivalIInv, MergeIInv', setting' = setting, [Next]_vars, NEW r \in Requests, MoveAll(r)
    PROVE  ArrivalIInv'
  <1> DEFINE c == req[r].c
             chunks == TakeChunks(c, Author[c])
             keys == TakeKeys(Author[c], chunks, Names)
             comms == TakeComms(c, keys)
  <1>1. /\ UNCHANGED vars /\ req' = req /\ row' = row /\ req[r].pc = "loaded" /\ req[r].op = "merge" /\ ~Suspends
        /\ work' = [work EXCEPT ![r].stage = "stored"]
    BY DEF MoveAll, At, vars
  <1>2. /\ MergeIInv /\ IInv /\ TextKnown(req[r], work[r]) /\ Personal /\ TextTakesAll
        /\ DOMAIN work = Requests /\ DOMAIN work[r] = Fields /\ c \in Contributions
    BY <1>1, CallKnown DEF ArrivalIInv, MergeIInv, WorkTyped, WorkType
  <1>3. work'[r].stage = "stored" /\ \A x \in Requests \ {r} : work'[x] = work[x]
    BY <1>1, <1>2 DEF Fields
  <1>4. CliUsers' = CliUsers /\ Reingested' = Reingested /\ Suspends' = Suspends
    BY DEF CliUsers, Reingested, Suspends
  <1>5. CASE req[r].user \in CliUsers
    <2>1. UNCHANGED stores
      BY <1>5 DEF MoveAll, stores
    <2>2. Personal' /\ TextTakesAll' /\ HeldStays
      BY <1>2, <2>1, StoresAlike, WarrantStays
    <2>3. TextKnown(req[r], work[r])'
      BY <1>1, <1>3, <1>4, <1>5 DEF TextKnown
    <2> QED BY <1>1, <1>3, <2>2, <2>3, StoreArrives
  <1>6. CASE req[r].user \notin CliUsers
    <2>1. /\ chunk' = Upsert(chunk, Rewritten(chunks, c)) /\ comm' = Upsert(comm, Rewritten(comms, c))
          /\ graph' = Upsert(graph, MergeGraph(keys, SeenBy(req[r].user, Names), c))
      BY <1>6 DEF MoveAll
    <2>2. /\ chunk \in [Docs -> Records] /\ comm \in [Docs -> Records]
          /\ Typed(chunks, Docs) /\ Typed(comms, Docs)
      BY <1>2, TakenFits DEF MergeIInv
    <2>3. \A d \in Docs : Own(c, d) => /\ d \in DOMAIN chunks \/ Held(chunk[d])
                                       /\ d \in DOMAIN comms \/ Held(comm[d])
      BY <1>2, TakesText
    <2>4. \A d \in Docs : d \in DOMAIN chunks /\ Untouched(d, chunk[d]) =>
             Owner(d) = Author[c] /\ Level[d] <= Clearance[Author[c]]
      BY OwnerSees DEF TakeChunks
    <2>5. ASSUME NEW d \in Docs, NEW k \in Names, Untouched(d, graph[k]), d \in DOMAIN chunks, Untouched(d, chunk[d])
          PROVE  k \in DOMAIN keys
      <3>1. Sees(Author[c], graph[k]) /\ graph[k].sources = {d}
        BY <1>2, <2>4, <2>5, AuthorSees, UntouchedIs
      <3> QED BY <2>5, <3>1 DEF TakeKeys
    <2>6. \A k \in Names : Held(graph'[k]) \/ (graph'[k] = graph[k] /\ k \notin DOMAIN keys)
      BY <1>2, <2>1, MergedGraphHeld
    <2> HIDE DEF chunks, keys, comms
    <2>7. \A d \in Docs : /\ d \in DOMAIN chunks => Held(chunk'[d])
                          /\ d \notin DOMAIN chunks => chunk'[d] = chunk[d]
      BY <1>2, <2>1, <2>2, RewrittenHeld
    <2>8. \A d \in Docs : /\ d \in DOMAIN comms => Held(comm'[d])
                          /\ d \notin DOMAIN comms => comm'[d] = comm[d]
      BY <1>2, <2>1, <2>2, RewrittenHeld
    <2>9. HeldStays
      BY <2>7, <2>8 DEF HeldStays
    <2>10. Personal'
      <3>1. \A d \in Docs : /\ Held(chunk'[d]) \/ Untouched(d, chunk'[d])
                            /\ Held(comm'[d]) \/ Untouched(d, comm'[d])
        BY <1>2, <2>7, <2>8 DEF Personal
      <3>2. \A k \in Names : ~QueuedTarget(row, k) =>
               Held(graph'[k]) \/ graph'[k] = Absent \/ \E d \in Docs : Untouched(d, graph'[k])
        BY <1>1, <1>2, <2>6 DEF Personal
      <3> QED BY <1>1, <3>1, <3>2 DEF Personal, Held, Untouched
    <2>11. TextTakesAll'
      <3> SUFFICES ASSUME NEW d \in Docs \ Reingested, Held(chunk'[d]), NEW k \in Names,
                          d \in graph'[k].sources, ~QueuedTarget(row, k)
                   PROVE  Held(graph'[k])
        BY <1>1, <1>4 DEF TextTakesAll, Held
      <3> SUFFICES ASSUME ~Held(graph'[k]) PROVE FALSE
        OBVIOUS
      <3>1. graph'[k] = graph[k] /\ k \notin DOMAIN keys /\ ~Held(graph[k])
        BY <2>6
      <3>2. CASE Held(chunk[d])
        BY <1>1, <1>2, <3>1, <3>2 DEF TextTakesAll
      <3>3. CASE ~Held(chunk[d])
        <4>1. d \in DOMAIN chunks /\ Untouched(d, chunk[d])
          BY <1>2, <2>7, <3>3 DEF Personal
        <4>2. graph[k] # Absent
          BY <3>1 DEF Absent
        <4>3. PICK e \in Docs : Untouched(e, graph[k])
          BY <1>1, <1>2, <3>1, <4>2 DEF Personal
        <4>4. graph[k].sources = {e}
          BY <4>3, UntouchedIs
        <4>5. e = d
          BY <3>1, <4>4
        <4> QED BY <2>5, <3>1, <4>1, <4>3, <4>5
      <3> QED BY <3>2, <3>3
    <2>12. TextKnown(req[r], work[r])'
      <3>1. \A d \in Docs : Own(c, d) => Held(chunk'[d]) /\ Held(comm'[d])
        BY <2>3, <2>7, <2>8
      <3> QED BY <1>1, <1>3, <1>4, <3>1 DEF TextKnown, Held, Own
    <2> QED BY <1>1, <1>3, <2>9, <2>10, <2>11, <2>12, StoreArrives
  <1> QED BY <1>5, <1>6

(* A pair is joined into a record of which nothing is said here.            *)
LEMMA PairsArrive ==
    ASSUME ArrivalIInv, MergeIInv', setting' = setting, NEW r \in Requests, PutPair(r) \/ JoinAtOnce(r)
    PROVE  ArrivalIInv'
  <1> DEFINE tgt == PairTarget[req[r].pair]
  <1>1. /\ UNCHANGED vars /\ row' = row /\ req' = req /\ req[r].pc = "loaded" /\ req[r].op = "alignment_approved"
        /\ work' = [work EXCEPT ![r].stage = "stored"] /\ chunk' = chunk /\ comm' = comm
    BY DEF PutPair, JoinAtOnce, At, vars
  <1>2. /\ MergeIInv /\ Personal /\ TextTakesAll /\ DOMAIN work = Requests /\ WorkFits(req[r], work[r])
        /\ graph \in [Names -> Records]
    BY <1>1, CallKnown DEF ArrivalIInv, MergeIInv, WorkTyped
  <1>3. Reingested' = Reingested /\ Suspends' = Suspends
    BY DEF Reingested, Suspends
  <1>4. QueuedTarget(row, tgt)
    BY <1>1, <1>2 DEF WorkFits
  <1>5. \A k \in Names : ~QueuedTarget(row, k) => graph'[k] = graph[k]
    BY <1>2, <1>4 DEF PutPair, JoinAtOnce
  <1>6. TextKnown(req[r], work[r])'
    BY <1>1 DEF TextKnown
  <1>7. \A x \in Requests \ {r} : work'[x] = work[x]
    BY <1>1, <1>2
  <1>8. Personal'
    BY <1>1, <1>2, <1>3, <1>5 DEF Personal, Held, Untouched
  <1>9. TextTakesAll'
    BY <1>1, <1>2, <1>3, <1>5 DEF TextTakesAll, Held
  <1>10. HeldStays
    BY <1>1 DEF HeldStays
  <1> QED BY <1>1, <1>6, <1>7, <1>8, <1>9, <1>10, StoreArrives

LEMMA PairMissingArrives ==
    ASSUME ArrivalIInv, MergeIInv', setting' = setting, [Next]_vars, NEW r \in Requests, PairMissing(r)
    PROVE  ArrivalIInv'
  <1>1. /\ req' = [req EXCEPT ![r] = Idle] /\ work' = [work EXCEPT ![r] = NoWork]
        /\ UNCHANGED stores /\ chunk' = chunk /\ comm' = comm /\ audit' = audit
        /\ DOMAIN work = Requests /\ req \in [Requests -> Request] /\ Idle.pc = "idle" /\ IInv
    BY DEF PairMissing, ArrivalIInv, MergeIInv, WorkTyped, IInv, TypeOK, stores, Idle
  <1>2. Personal' /\ TextTakesAll' /\ HeldStays
    BY <1>1, StoresAlike, WarrantStays DEF ArrivalIInv
  <1>3. TextMoved'
    BY <1>1 DEF ArrivalIInv, TextMoved, MergedByApi, CliUsers, Own, Reingested, Held
  <1>4. ASSUME NEW x \in Requests \ {r} PROVE TextKnown(req[x], work[x])'
    <2>1. req'[x] = req[x] /\ work'[x] = work[x]
      BY <1>1
    <2> QED BY <1>2, <2>1, CallStaysKnown DEF ArrivalIInv
  <1>5. TextKnown(req[r], work[r])'
    BY <1>1 DEF TextKnown
  <1> QED BY <1>2, <1>3, <1>4, <1>5 DEF ArrivalIInv

LEMMA ReingestArrives ==
    ASSUME ArrivalIInv, MergeIInv', setting' = setting, NEW e \in Docs, Reingest(e)
    PROVE  ArrivalIInv'
  <1> DEFINE new == Ingested(e, Owner(e))
  <1>1. /\ chunk' = [chunk EXCEPT ![e] = new] /\ comm' = [comm EXCEPT ![e] = new] /\ e \in Reingested
        /\ graph' = [k \in Names |-> IF k \in Mentions[e] THEN new ELSE graph[k]]
        /\ row' = row /\ req' = req /\ audit' = audit /\ work' = work
        /\ chunk \in [Docs -> Records] /\ comm \in [Docs -> Records]
    BY DEF Reingest, vars, ArrivalIInv, MergeIInv
  <1>2. Untouched(e, new) /\ new.sources = {e}
    BY UntouchedIs DEF Untouched
  <1> HIDE DEF new
  <1>3. Suspends' = Suspends /\ Reingested' = Reingested /\ CliUsers' = CliUsers
    BY DEF Suspends, Reingested, CliUsers
  <1>4. \A d \in Docs \ Reingested : chunk'[d] = chunk[d] /\ comm'[d] = comm[d]
    BY <1>1
  <1>5. \A k \in Names : graph'[k] = new \/ graph'[k] = graph[k]
    BY <1>1
  <1>6. Personal'
    <2>1. \A d \in Docs : /\ Held(chunk'[d]) \/ Untouched(d, chunk'[d])
                          /\ Held(comm'[d]) \/ Untouched(d, comm'[d])
      BY <1>1, <1>2 DEF ArrivalIInv, Personal
    <2>2. ASSUME ~Suspends, NEW k \in Names, ~QueuedTarget(row, k)
          PROVE  Held(graph'[k]) \/ graph'[k] = Absent \/ \E d \in Docs : Untouched(d, graph'[k])
      BY <1>2, <1>5, <2>2 DEF ArrivalIInv, Personal
    <2> QED BY <1>1, <1>3, <2>1, <2>2 DEF Personal, Held, Untouched
  <1>7. TextTakesAll'
    <2> SUFFICES ASSUME ~Suspends, NEW d \in Docs \ Reingested, Held(chunk'[d]), NEW k \in Names,
                        d \in graph'[k].sources, ~QueuedTarget(row, k)
                 PROVE  Held(graph'[k])
      BY <1>1, <1>3 DEF TextTakesAll, Held
    <2>1. graph'[k] = graph[k]
      BY <1>1, <1>2, <1>5
    <2> QED BY <1>4, <2>1 DEF ArrivalIInv, TextTakesAll
  <1>8. HeldStays
    BY <1>4 DEF HeldStays
  <1>9. TextMoved'
    <2> SUFFICES ASSUME NEW c \in Contributions, MergedByApi(c), NEW d \in Docs, Own(c, d)
                 PROVE  Held(chunk'[d]) /\ Held(comm'[d])
      BY <1>1, <1>3 DEF TextMoved, MergedByApi, Held, Own
    <2>1. Held(chunk[d]) /\ Held(comm[d]) /\ d \in Docs \ Reingested
      BY DEF ArrivalIInv, TextMoved, Own
    <2> QED BY <1>8, <2>1 DEF HeldStays
  <1>10. \A x \in Requests : TextKnown(req[x], work[x])'
    BY <1>1, <1>8, CallStaysKnown DEF ArrivalIInv
  <1> QED BY <1>6, <1>7, <1>9, <1>10 DEF ArrivalIInv

LEMMA InitArrival == MergeInit => ArrivalIInv
  <1> SUFFICES ASSUME MergeInit PROVE ArrivalIInv
    OBVIOUS
  <1>1. /\ req = [r \in Requests |-> Idle] /\ Idle.pc = "idle"
        /\ chunk = [d \in Docs |-> Ingested(d, Owner(d))] /\ comm = [d \in Docs |-> Ingested(d, Owner(d))]
    BY DEF MergeInit, Idle
  <1>2. \A d \in Docs : Untouched(d, chunk[d]) /\ Untouched(d, comm[d])
    BY <1>1 DEF Untouched
  <1>3. ASSUME NEW k \in Names PROVE Held(graph[k]) \/ graph[k] = Absent \/ \E d \in Docs : Untouched(d, graph[k])
    <2>1. CASE k \in DOMAIN Stored
      BY <2>1, MergeAssumption DEF MergeInit, MergeAssumption, Held
    <2>2. CASE k \notin DOMAIN Stored
      BY <2>2 DEF MergeInit, Mentioning, Untouched
    <2> QED BY <2>1, <2>2
  <1>4. \A d \in Docs : ~Held(chunk[d])
    BY <1>2, UntouchedIs
  <1>5. Personal /\ TextTakesAll
    BY <1>2, <1>3, <1>4 DEF Personal, TextTakesAll
  <1>6. ASSUME NEW c \in Contributions PROVE ~MergedByApi(c)
    <2>1. \/ audit[c] = << >>
          \/ audit[c] = <<[action |-> "create", user |-> Author[c]], [action |-> "submit", user |-> Author[c]],
                          [action |-> "manifest", user |-> setting.viewer[c]]>>
      BY DEF MergeInit
    <2> QED BY <2>1 DEF MergedByApi
  <1> QED BY <1>1, <1>5, <1>6, InitMerge DEF ArrivalIInv, TextMoved, TextKnown

LEMMA NextArrival == ArrivalIInv /\ [MergeNext]_mergeVars => ArrivalIInv'
  <1> SUFFICES ASSUME ArrivalIInv, [MergeNext]_mergeVars PROVE ArrivalIInv'
    OBVIOUS
  <1>1. MergeIInv' /\ [Next]_vars /\ IInv
    BY NextMerge, MergeStepsWorkflow DEF ArrivalIInv, MergeIInv
  <1>2. CASE UNCHANGED mergeVars
    <2>1. UNCHANGED stores /\ setting' = setting /\ chunk' = chunk /\ comm' = comm /\ audit' = audit /\ req' = req /\ work' = work
      BY <1>2 DEF mergeVars, stores
    <2>2. Personal' /\ TextTakesAll' /\ HeldStays
      BY <1>1, <2>1, StoresAlike, WarrantStays DEF ArrivalIInv
    <2>3. TextMoved'
      BY <2>1 DEF ArrivalIInv, TextMoved, MergedByApi, CliUsers, Own, Reingested, Held
    <2>4. \A x \in Requests : TextKnown(req[x], work[x])'
      BY <2>1, <2>2, CallStaysKnown DEF ArrivalIInv
    <2> QED BY <1>1, <2>2, <2>3, <2>4 DEF ArrivalIInv
  <1>3. ASSUME MergeNext PROVE setting' = setting
    BY <1>3 DEF MergeNext
  <1>4. ASSUME MergeNext, NEW r \in Requests, ServiceStep(r) PROVE ArrivalIInv'
    BY <1>1, <1>3, <1>4, ServiceArrives
  <1>5. ASSUME MergeNext, NEW r \in Requests, StoreStep(r) PROVE ArrivalIInv'
    BY <1>1, <1>3, <1>5, ReadsArrive, PutsArrive, MoveAllArrives, PairsArrive, PairMissingArrives DEF StoreStep
  <1>6. ASSUME MergeNext, NEW d \in Docs, Reingest(d) PROVE ArrivalIInv'
    BY <1>1, <1>3, <1>6, ReingestArrives
  <1> QED BY <1>2, <1>4, <1>5, <1>6 DEF MergeNext

(* What the API has put on record as merged has arrived, however often the  *)
(* merge was aborted and tried again: the text and the communities of what  *)
(* its author offered and may read, and, on stores that do not suspend, the *)
(* graph's records of it into which no pair was joined.                     *)
THEOREM MergedHasArrived == MergeSpec => []ContentArrives
  <1>1. ASSUME ArrivalIInv PROVE ContentArrives
    <2> SUFFICES ASSUME NEW c \in Contributions, MergedByApi(c), NEW d \in DocOf[c] \ Reingested,
                        Owner(d) = Author[c], Level[d] <= Clearance[Author[c]]
                 PROVE  /\ chunk[d].home \in Libraries /\ comm[d].home \in Libraries
                        /\ ~Suspends => \A k \in Names :
                              d \in graph[k].sources /\ ~QueuedTarget(row, k) => graph[k].home \in Libraries
      BY DEF ContentArrives
    <2>1. d \in Docs /\ Own(c, d)
      BY MergeAssumption DEF MergeAssumption, Own
    <2>2. Held(chunk[d]) /\ Held(comm[d])
      BY <1>1, <2>1 DEF ArrivalIInv, TextMoved
    <2> QED BY <1>1, <2>1, <2>2 DEF ArrivalIInv, TextTakesAll, Held
  <1>2. ArrivalIInv => ContentArrives
    BY <1>1
  <1>3. MergeInit => ArrivalIInv
    BY InitArrival
  <1>4. ArrivalIInv /\ [MergeNext]_mergeVars => ArrivalIInv'
    BY NextArrival
  <1> QED BY <1>2, <1>3, <1>4, PTL DEF MergeSpec
=============================================================================
