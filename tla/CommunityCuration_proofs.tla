------------------------ MODULE CommunityCuration_proofs ------------------------
(***************************************************************************)
(* For any documents, any number of curators and of edits, on both kinds   *)
(* of store: a merge undoes nothing, ingestion overwrites no edit, and the *)
(* history of a community has no holes.                                    *)
(***************************************************************************)
EXTENDS CommunityCuration, TLAPS

Stored == Comm \cup {Absent}
Version == [id: Ids, n: Nat, snap: Comm]

----------------------------------------------------------------------------
(* What the operators of an edit return.                                    *)

LEMMA PartsAreIds ==
    ASSUME NEW d \in Docs
    PROVE  d \in Ids /\ SplitOf[d] \in Ids /\ SplitOf[d] \notin Docs
  BY CurationAssumption DEF CurationAssumption, Ids, Parts

LEMMA AbsentIsNoCommunity == Absent \notin Comm
  BY DEF Absent, Comm

LEMMA DerivedIsCommunity ==
    ASSUME NEW d \in Docs
    PROVE  Derived(d) \in Comm
  BY DEF Derived, Comm

LEMMA MarkedIsCommunity ==
    ASSUME NEW rec \in Comm
    PROVE  Marked(rec) \in Comm /\ Marked(rec).manual
  BY DEF Marked, Comm

LEMMA EditedIsCommunity ==
    ASSUME NEW rec \in Comm, NEW e \in {"title", "level"}
    PROVE  Edited(rec, e) \in Comm
  <1>1. CASE e = "title"
    BY <1>1 DEF Edited, Comm
  <1>2. CASE e = "level"
    <2>1. rec.level = 1 \/ rec.level = 2
      BY DEF Comm
    <2>2. CASE rec.level = 1
      <3>1. Edited(rec, e) = [rec EXCEPT !.level = 2]
        BY <1>2, <2>2 DEF Edited
      <3> QED BY <3>1 DEF Comm
    <2>3. CASE rec.level = 2
      <3>1. Edited(rec, e) = [rec EXCEPT !.level = 1]
        BY <1>2, <2>3 DEF Edited
      <3> QED BY <3>1 DEF Comm
    <2> QED BY <2>1, <2>2, <2>3
  <1> QED BY <1>1, <1>2

LEMMA Stricter ==
    ASSUME NEW m \in {1, 2}, NEW n \in {0, 1, 2}
    PROVE  (IF n > m THEN n ELSE m) \in {1, 2} /\ m <= (IF n > m THEN n ELSE m)
  <1>1. m = 1 \/ m = 2
    OBVIOUS
  <1>2. n = 0 \/ n = 1 \/ n = 2
    OBVIOUS
  <1> QED BY <1>1, <1>2

(* The title is kept, the members of both are there and the level is the    *)
(* stricter of the two, whether or not the source is still there.           *)
LEMMA MergedIsCommunity ==
    ASSUME NEW target \in Comm, NEW source \in Stored
    PROVE  /\ Merged(target, source) \in Comm /\ Merged(target, source).manual
           /\ Merged(target, source).title = target.title
           /\ target.level <= Merged(target, source).level
           /\ target.members \subseteq Merged(target, source).members
  <1> DEFINE members == target.members \cup source.members
             level == IF source.level > target.level THEN source.level ELSE target.level
             joined == [target EXCEPT !.members = members]
             stricter == [joined EXCEPT !.level = level]
  <1>1. /\ target.members \subseteq Docs /\ target.level \in {1, 2}
        /\ source.level \in {0, 1, 2} /\ source.members \subseteq Docs
    <2>1. CASE source = Absent
      BY <2>1 DEF Absent, Comm
    <2>2. CASE source \in Comm
      BY <2>2 DEF Comm
    <2> QED BY <2>1, <2>2 DEF Stored
  <1>2. level \in {1, 2} /\ target.level <= level
    BY <1>1, Stricter
  <1>3. joined \in Comm /\ joined.level = target.level /\ joined.title = target.title /\ joined.members = members
    BY <1>1 DEF Comm
  <1>4. Merged(target, source) = Marked(stricter)
    BY DEF Merged, Comm
  <1> HIDE DEF level, joined
  <1>5. stricter \in Comm /\ stricter.level = level /\ stricter.title = target.title /\ stricter.members = members
    BY <1>2, <1>3 DEF Comm
  <1> HIDE DEF stricter
  <1>6. /\ Marked(stricter).level = level /\ Marked(stricter).title = target.title
        /\ Marked(stricter).members = members
    BY <1>5 DEF Marked, Comm
  <1> QED BY <1>2, <1>4, <1>5, <1>6, MarkedIsCommunity

----------------------------------------------------------------------------
(* What the invariant says of one call.                                     *)
LEMMA Known ==
    ASSUME CurationIInv, NEW c \in Curators
    PROVE  /\ call[c] \in Request /\ InPlace(call[c])
           /\ call \in [Curators -> Request] /\ comms \in [Ids -> Stored]
           /\ versions \in Seq(Version) /\ backend \in Backends
           /\ overtaken \subseteq Ids /\ calls \in Nat /\ restarts \in Nat
  BY DEF CurationIInv, CurationTypeOK, Stored, Version

LEMMA IdleIsRequest == Idle \in Request /\ InPlace(Idle)
  BY DEF Idle, Request, InPlace

(* What a call's new state must satisfy in the store after its step.        *)
FitsIn(c, r, store, past) ==
    /\ r.pc = "merging" =>
         /\ backend = "pg" /\ store[r.id] = r.snap
         /\ \A b \in Curators \ {c} : call[b].pc = "merging" => call[b].id # r.id
    /\ backend = "pg" =>
         /\ r.id \in Docs \ past => Genuine(r.id, r.snap)
         /\ r.pc \in {"write", "flush"} /\ r.id \notin past => store[r.id] = Absent \/ store[r.id].manual
    /\ r.pc = "commit" => r.n > 0 /\ (r.n > 1 => r.n - 1 \in Numbered(r.id))

(* What a step may make of a community: leave it, remove it, mark it; or    *)
(* put a genuine one in its place where no edit is between its transactions. *)
Keeps(id, store, past) ==
    backend = "pg" =>
        \/ store[id] = comms[id] \/ store[id] = Absent \/ store[id].manual \/ id \in past
        \/ /\ id \in Docs => Genuine(id, store[id])
           /\ \A b \in Curators : call[b].pc \in {"write", "flush"} => call[b].id # id
Leaves(c, store) ==
    \A b \in Curators \ {c} : call[b].pc = "merging" => store[call[b].id] = comms[call[b].id]

(* A step of one call that leaves the history alone keeps the invariant.    *)
LEMMA OneCall ==
    ASSUME CurationIInv, NEW c \in Curators, NEW r \in Request, InPlace(r), Update(c, r),
           UNCHANGED <<backend, versions>>, calls' \in Nat, restarts' \in Nat,
           overtaken \subseteq overtaken', overtaken' \subseteq Ids,
           comms' \in [Ids -> Stored], Leaves(c, comms'),
           FitsIn(c, r, comms', overtaken'), \A id \in Ids : Keeps(id, comms', overtaken')
    PROVE  CurationIInv'
  <1>1. /\ call' \in [Curators -> Request] /\ call'[c] = r
        /\ \A b \in Curators \ {c} : call'[b] = call[b]
    BY Known DEF Update
  <1>2. CurationTypeOK'
    BY <1>1 DEF CurationIInv, CurationTypeOK, Stored
  <1>3. \A id \in Ids : Numbered(id)' = Numbered(id)
    BY DEF Numbered
  <1>4. VersionsGapless'
    BY <1>3 DEF CurationIInv, VersionsGapless
  <1>5. LocksHold'
    BY <1>1 DEF CurationIInv, LocksHold, FitsIn, Leaves
  <1>6. EditsMarked'
    <2> SUFFICES ASSUME backend = "pg" PROVE EditsMarked'
      BY DEF EditsMarked
    <2>0. EditsMarked /\ (\A b \in Curators : call[b].pc # "idle" => call[b].id \in Ids)
      BY Known DEF CurationIInv, InPlace
    <2>1. ASSUME NEW id \in Docs \ overtaken' PROVE Genuine(id, comms'[id])
      BY <2>0, <2>1, PartsAreIds DEF EditsMarked, Keeps, Genuine
    <2>2. ASSUME NEW i \in DOMAIN versions, versions[i].id \in Docs \ overtaken'
          PROVE  Genuine(versions[i].id, versions[i].snap)
      BY <2>0, <2>2 DEF EditsMarked
    <2>3. ASSUME NEW b \in Curators, call'[b].id \in Docs \ overtaken'
          PROVE  Genuine(call'[b].id, call'[b].snap)
      BY <1>1, <2>0, <2>3 DEF EditsMarked, FitsIn
    <2>4. ASSUME NEW b \in Curators, call'[b].pc \in {"write", "flush"}, call'[b].id \notin overtaken'
          PROVE  comms'[call'[b].id] = Absent \/ comms'[call'[b].id].manual
      <3>1. CASE b = c
        BY <1>1, <2>4, <3>1 DEF FitsIn
      <3>2. CASE b # c
        <4>1. call'[b] = call[b] /\ call[b].id \in Ids
          BY <1>1, <2>0, <2>4, <3>2
        <4> QED BY <2>0, <2>4, <4>1 DEF EditsMarked, Keeps
      <3> QED BY <3>1, <3>2
    <2> QED BY <2>1, <2>2, <2>3, <2>4 DEF EditsMarked, Genuine
  <1>7. NumbersFollow'
    <2>1. \A b \in Curators : call[b].pc = "commit" => call[b].id \in Ids
      BY Known DEF InPlace
    <2>2. r.pc = "commit" => r.id \in Ids
      BY DEF InPlace
    <2> QED BY <1>1, <1>3, <2>1, <2>2 DEF CurationIInv, NumbersFollow, FitsIn
  <1> QED BY <1>2, <1>4, <1>5, <1>6, <1>7 DEF CurationIInv
----------------------------------------------------------------------------
(* One lemma per operation.                                                 *)

(* What every beginning request and every further step shares.              *)
LEMMA BeginFacts ==
    ASSUME CurationIInv, NEW c \in Curators, NEW request, Begin(c, request)
    PROVE  /\ Update(c, request) /\ UNCHANGED <<backend, versions>> /\ calls' \in Nat /\ restarts' \in Nat
           /\ overtaken' = overtaken /\ overtaken' \subseteq Ids
  BY Known DEF Begin
LEMMA GoesFacts ==
    ASSUME CurationIInv, NEW c \in Curators, Goes
    PROVE  /\ UNCHANGED <<backend, versions>> /\ calls' \in Nat /\ restarts' \in Nat
           /\ overtaken' = overtaken /\ overtaken' \subseteq Ids
  BY Known DEF Goes

(* One community becomes another, which nobody holds.                       *)
LEMMA OneCommunity ==
    ASSUME CurationIInv, NEW c \in Curators, NEW id \in Ids, NEW rec \in Stored, Set(id, rec),
           \A b \in Curators \ {c} : call[b].pc = "merging" => call[b].id # id
    PROVE  /\ comms' \in [Ids -> Stored] /\ Leaves(c, comms') /\ comms'[id] = rec
           /\ \A other \in Ids \ {id} : comms'[other] = comms[other]
  BY Known DEF Set, Leaves, InPlace

LEMMA PatchAtOnceKeeps ==
    ASSUME CurationIInv, NEW c \in Curators, NEW id \in Ids, PatchAtOnce(c, id)
    PROVE  CurationIInv'
  <1>1. backend = "memory" /\ comms[id] \in Comm
    BY Known DEF PatchAtOnce, Stored
  <1>2. PICK e \in Edits(id) :
          LET rec == Marked(IF Len(e) = 2 THEN Edited(Edited(comms[id], e[1]), e[2]) ELSE Edited(comms[id], e[1]))
          IN Set(id, rec) /\ Begin(c, [Idle EXCEPT !.op = "patch", !.pc = "number", !.id = id, !.snap = rec])
    BY DEF PatchAtOnce
  <1> DEFINE rec == Marked(IF Len(e) = 2 THEN Edited(Edited(comms[id], e[1]), e[2]) ELSE Edited(comms[id], e[1]))
             r == [Idle EXCEPT !.op = "patch", !.pc = "number", !.id = id, !.snap = rec]
  <1>3. Set(id, rec) /\ Begin(c, r)
    BY <1>2
  <1>4. rec \in Comm
    <2>1. e \in {<<"title">>, <<"level">>, <<"title", "level">>}
      BY DEF Edits
    <2>2. Edited(comms[id], "title") \in Comm /\ Edited(comms[id], "level") \in Comm
      BY <1>1, EditedIsCommunity
    <2>3. Edited(Edited(comms[id], "title"), "level") \in Comm
      BY <2>2, EditedIsCommunity
    <2> QED BY <2>1, <2>2, <2>3, MarkedIsCommunity
  <1> HIDE DEF rec
  <1>5. /\ r \in Request /\ InPlace(r) /\ r.pc = "number" /\ r.id = id
    BY <1>4, AbsentIsNoCommunity DEF Idle, Request, InPlace
  <1> HIDE DEF r
  <1>6. FitsIn(c, r, comms', overtaken') /\ \A k \in Ids : Keeps(k, comms', overtaken')
    BY <1>1, <1>5 DEF FitsIn, Keeps
  <1>7. /\ comms' \in [Ids -> Stored] /\ Leaves(c, comms')
    <2>1. \A b \in Curators : call[b].pc # "merging"
      BY <1>1 DEF CurationIInv, LocksHold
    <2> QED BY <1>3, <1>4, <2>1, OneCommunity DEF Stored
  <1> QED BY <1>3, <1>5, <1>6, <1>7, BeginFacts, OneCall

LEMMA PatchReadsKeeps ==
    ASSUME CurationIInv, NEW c \in Curators, NEW id \in Ids, PatchReads(c, id)
    PROVE  CurationIInv'
  <1>1. backend = "pg" /\ comms[id] \in Comm /\ comms' = comms
    BY Known DEF PatchReads, Stored
  <1>2. PICK e \in Edits(id) :
          Begin(c, [Idle EXCEPT !.op = "patch", !.pc = "mark", !.id = id, !.edits = e, !.snap = comms[id]])
    BY DEF PatchReads
  <1> DEFINE r == [Idle EXCEPT !.op = "patch", !.pc = "mark", !.id = id, !.edits = e, !.snap = comms[id]]
  <1>3. e \in {<<"title">>, <<"level">>, <<"title", "level">>} /\ e # << >>
    <2>1. e \in {<<"title">>, <<"level">>, <<"title", "level">>}
      BY DEF Edits
    <2>2. Len(e) > 0
      BY <2>1
    <2> QED BY <2>1, <2>2
  <1>4. /\ r \in Request /\ InPlace(r) /\ r.pc = "mark" /\ r.id = id /\ r.snap = comms[id]
    BY <1>1, <1>3, AbsentIsNoCommunity DEF Idle, Request, InPlace
  <1>5. Begin(c, r)
    BY <1>2
  <1> HIDE DEF r
  <1>6. FitsIn(c, r, comms', overtaken') /\ Leaves(c, comms') /\ \A k \in Ids : Keeps(k, comms', overtaken')
    BY <1>1, <1>4, <1>5, BeginFacts DEF FitsIn, Keeps, Leaves, CurationIInv, EditsMarked
  <1> QED BY <1>1, <1>4, <1>5, <1>6, Known, BeginFacts, OneCall

(* A call further on, whose request changes in one or two fields.           *)
LEMMA AfterEditFits ==
    ASSUME CurationIInv, NEW c \in Curators, NEW ok \in BOOLEAN,
           call[c].pc \in {"mark", "write", "flush"}
    PROVE  LET r == AfterEdit([call[c] EXCEPT !.ok = ok]) IN
           /\ r \in Request /\ InPlace(r) /\ r.pc \in {"mark", "number", "idle"}
           /\ r.pc # "idle" => r.id = call[c].id /\ r.snap = call[c].snap
           /\ r.pc = "idle" => r = Idle
  <1> DEFINE q == [call[c] EXCEPT !.ok = ok]
             r == AfterEdit(q)
  <1> SUFFICES /\ r \in Request /\ InPlace(r) /\ r.pc \in {"mark", "number", "idle"}
               /\ r.pc # "idle" => r.id = call[c].id /\ r.snap = call[c].snap
               /\ r.pc = "idle" => r = Idle
    OBVIOUS
  <1>1. /\ q \in Request /\ q.id \in Ids /\ q.snap = call[c].snap /\ q.snap # Absent /\ q.id = call[c].id
        /\ q.edits = call[c].edits /\ q.pc \in {"mark", "write", "flush"}
    <2>1. call[c] \in Request /\ InPlace(call[c])
      BY Known
    <2>2. q \in Request /\ q.snap = call[c].snap /\ q.id = call[c].id
          /\ q.edits = call[c].edits /\ q.pc = call[c].pc
      BY ONLY <2>1, ok \in BOOLEAN DEF Request
    <2>3. call[c].id \in Ids /\ call[c].snap # Absent
      BY <2>1 DEF InPlace
    <2> QED BY <2>2, <2>3
  <1> HIDE DEF q
  <1>2. q.edits \in {<< >>, <<"title">>, <<"level">>, <<"title", "level">>}
    BY <1>1 DEF Request
  <1>3. CASE Len(q.edits) > 1
    <2>1. q.edits = <<"title", "level">>
      <3>1. Len(<< >>) = 0 /\ Len(<<"title">>) = 1 /\ Len(<<"level">>) = 1
        OBVIOUS
      <3>2. ~ 0 > 1 /\ ~ 1 > 1
        OBVIOUS
      <3>3. q.edits # << >> /\ q.edits # <<"title">> /\ q.edits # <<"level">>
        BY ONLY <1>3, <3>1, <3>2, Zenon
      <3> QED BY <1>2, <3>3
    <2>a. Tail(<<"title", "level">>) = <<"level">>
      OBVIOUS
    <2>2. r = [q EXCEPT !.edits = <<"level">>, !.pc = "mark"]
      BY <1>3, <2>1, <2>a DEF AfterEdit
    <2>3. r \in Request /\ r.pc = "mark" /\ r.id = q.id /\ r.snap = q.snap /\ r.edits = <<"level">>
      BY <1>1, <2>2 DEF Request
    <2>4. <<"level">> # << >>
      OBVIOUS
    <2> QED BY <1>1, <2>3, <2>4 DEF InPlace, Idle
  <1>4. CASE ~ Len(q.edits) > 1 /\ q.ok
    <2>1. r = [q EXCEPT !.edits = << >>, !.pc = "number"]
      BY <1>4 DEF AfterEdit
    <2>2. r \in Request /\ r.pc = "number" /\ r.id = q.id /\ r.snap = q.snap
      BY <1>1, <2>1 DEF Request
    <2> QED BY <1>1, <2>2 DEF InPlace, Idle
  <1>5. CASE ~ Len(q.edits) > 1 /\ ~ q.ok
    <2>1. r = Idle
      BY <1>5 DEF AfterEdit
    <2> QED BY <2>1, IdleIsRequest DEF Idle
  <1> QED BY <1>3, <1>4, <1>5

(* Nobody holds a community that is not locked.                             *)
LEMMA NotLocked ==
    ASSUME NEW id, ~ Locked(id)
    PROVE  \A b \in Curators : call[b].pc = "merging" => call[b].id # id
  BY DEF Locked

LEMMA PatchMarksKeeps ==
    ASSUME CurationIInv, NEW c \in Curators, PatchMarks(c)
    PROVE  CurationIInv'
  <1> DEFINE q == call[c]
  <1>1. q.pc = "mark" /\ ~ Locked(q.id) /\ Goes /\ q.id \in Ids /\ comms[q.id] \in Stored
    BY Known DEF PatchMarks, InPlace
  <1>2. CASE comms[q.id] = Absent
    <2> DEFINE r == AfterEdit([q EXCEPT !.ok = q.ok])
    <2>1. Update(c, r) /\ comms' = comms
      <3>1. q = [q EXCEPT !.ok = q.ok] /\ q.ok \in BOOLEAN
        BY Known DEF Request
      <3> QED BY <1>2, <3>1 DEF PatchMarks
    <2>2. /\ r \in Request /\ InPlace(r) /\ r.pc \in {"mark", "number", "idle"}
          /\ r.pc # "idle" => r.id = q.id /\ r.snap = q.snap
          /\ r.pc = "idle" => r = Idle
      <3>1. q.ok \in BOOLEAN
        BY Known DEF Request
      <3> QED BY <1>1, <3>1, AfterEditFits
    <2> HIDE DEF r
    <2>3. FitsIn(c, r, comms', overtaken')
      BY <1>1, <2>1, <2>2, GoesFacts DEF FitsIn, CurationIInv, EditsMarked, Idle, Genuine
    <2>4. Leaves(c, comms') /\ \A k \in Ids : Keeps(k, comms', overtaken')
      BY <2>1 DEF Leaves, Keeps
    <2> QED BY <1>1, <2>1, <2>2, <2>3, <2>4, Known, GoesFacts, OneCall
  <1>3. CASE comms[q.id] # Absent
    <2> DEFINE r == [q EXCEPT !.pc = "write"]
               rec == Marked(comms[q.id])
    <2>1. Set(q.id, rec) /\ Update(c, r) /\ rec \in Comm /\ rec.manual
      BY <1>1, <1>3, MarkedIsCommunity DEF PatchMarks, Stored
    <2>2. r \in Request /\ InPlace(r) /\ r.pc = "write" /\ r.id = q.id /\ r.snap = q.snap
      BY <1>1, Known DEF InPlace, Request, Idle
    <2> HIDE DEF r, rec
    <2>3. /\ comms' \in [Ids -> Stored] /\ Leaves(c, comms') /\ comms'[q.id] = rec
          /\ \A other \in Ids \ {q.id} : comms'[other] = comms[other]
      BY <1>1, <2>1, NotLocked, OneCommunity DEF Stored
    <2>4. FitsIn(c, r, comms', overtaken')
      BY <1>1, <2>1, <2>2, <2>3, GoesFacts DEF FitsIn, CurationIInv, EditsMarked
    <2>5. \A k \in Ids : Keeps(k, comms', overtaken')
      BY <2>1, <2>3 DEF Keeps
    <2> QED BY <1>1, <2>1, <2>2, <2>3, <2>4, <2>5, GoesFacts, OneCall
  <1> QED BY <1>2, <1>3

(* A step that leaves the store alone.                                      *)
LEMMA StoreAlone ==
    ASSUME CurationIInv, NEW c \in Curators, NEW r \in Request, InPlace(r), Update(c, r),
           UNCHANGED <<backend, comms, versions, overtaken>>, calls' \in Nat, restarts' \in Nat,
           FitsIn(c, r, comms, overtaken)
    PROVE  CurationIInv'
  <1>1. comms' \in [Ids -> Stored] /\ overtaken' \subseteq Ids
    BY Known
  <1>2. Leaves(c, comms') /\ \A k \in Ids : Keeps(k, comms', overtaken')
    BY DEF Leaves, Keeps
  <1>3. FitsIn(c, r, comms', overtaken')
    BY DEF FitsIn
  <1> QED BY <1>1, <1>2, <1>3, OneCall

LEMMA PatchLoadsKeeps ==
    ASSUME CurationIInv, NEW c \in Curators, PatchLoads(c)
    PROVE  CurationIInv'
  <1> DEFINE q == call[c]
             done == AfterEdit([q EXCEPT !.ok = TRUE])
             flush == [q EXCEPT !.pc = "flush"]
  <1>1. q.pc = "write" /\ Goes /\ q.id \in Ids /\ comms' = comms
    BY Known DEF PatchLoads, InPlace
  <1>2. /\ done \in Request /\ InPlace(done) /\ done.pc \in {"mark", "number", "idle"}
        /\ done.pc # "idle" => done.id = q.id /\ done.snap = q.snap
        /\ done.pc = "idle" => done = Idle
    BY <1>1, AfterEditFits
  <1>3. /\ flush \in Request /\ InPlace(flush) /\ flush.pc = "flush" /\ flush.id = q.id /\ flush.snap = q.snap
    <2>1. q \in Request /\ InPlace(q)
      BY Known
    <2>2. flush \in Request /\ flush.pc = "flush" /\ flush.id = q.id /\ flush.snap = q.snap /\ flush.edits = q.edits
      BY <2>1 DEF Request
    <2>3. q.snap # Absent /\ q.edits # << >>
      BY <1>1, <2>1 DEF InPlace
    <2> QED BY <1>1, <2>2, <2>3 DEF InPlace, Idle
  <1> HIDE DEF done, flush
  <1>4. PICK r \in {done, flush} : Update(c, r)
    BY DEF PatchLoads, done, flush
  <1>5. r \in Request /\ InPlace(r)
    BY <1>2, <1>3, <1>4
  <1>6. FitsIn(c, r, comms, overtaken)
    <2>1. CASE r = done
      BY <1>1, <1>2, <2>1 DEF FitsIn, CurationIInv, EditsMarked, Idle, Genuine
    <2>2. CASE r = flush
      BY <1>1, <1>3, <2>2 DEF FitsIn, CurationIInv, EditsMarked
    <2> QED BY <1>4, <2>1, <2>2
  <1> QED BY <1>1, <1>4, <1>5, <1>6, GoesFacts, StoreAlone

LEMMA PatchWritesKeeps ==
    ASSUME CurationIInv, NEW c \in Curators, PatchWrites(c)
    PROVE  CurationIInv'
  <1> DEFINE q == call[c]
             r == AfterEdit([q EXCEPT !.ok = TRUE])
             title == [comms[q.id] EXCEPT !.title = "by hand"]
             level == [comms[q.id] EXCEPT !.level = 3 - q.snap.level]
  <1>1. q.pc = "flush" /\ ~ Locked(q.id) /\ Goes /\ q.id \in Ids /\ comms[q.id] \in Stored /\ q.snap \in Comm
    BY Known DEF PatchWrites, InPlace, Request
  <1>2. /\ r \in Request /\ InPlace(r) /\ r.pc \in {"mark", "number", "idle"}
        /\ r.pc # "idle" => r.id = q.id /\ r.snap = q.snap
        /\ r.pc = "idle" => r = Idle
    BY <1>1, AfterEditFits
  <1>3. CASE comms[q.id] = Absent
    <2>1. Update(c, Idle) /\ UNCHANGED <<backend, comms, versions, overtaken>>
      BY <1>1, <1>3 DEF PatchWrites, Goes
    <2>2. FitsIn(c, Idle, comms, overtaken)
      BY DEF FitsIn, Idle, Genuine
    <2> QED BY <1>1, <2>1, <2>2, IdleIsRequest, GoesFacts, StoreAlone
  <1>4. CASE comms[q.id] # Absent
    <2>1. comms[q.id] \in Comm
      BY <1>1, <1>4 DEF Stored
    <2>2. title \in Comm /\ title.manual = comms[q.id].manual
      BY <2>1 DEF Comm
    <2>3. level \in Comm /\ level.manual = comms[q.id].manual
      <3>1. q.snap.level = 1 \/ q.snap.level = 2
        BY <1>1 DEF Comm
      <3>2. 3 - q.snap.level \in {1, 2}
        BY <3>1
      <3> QED BY <2>1, <3>2 DEF Comm
    <2>4. Update(c, r) /\ \E rec \in {title, level} : Set(q.id, rec)
      BY <1>4 DEF PatchWrites, EditedBy
    <2> HIDE DEF title, level, r
    <2>5. PICK rec \in {title, level} : Set(q.id, rec)
      BY <2>4
    <2>6. /\ comms' \in [Ids -> Stored] /\ Leaves(c, comms') /\ comms'[q.id] = rec
          /\ \A other \in Ids \ {q.id} : comms'[other] = comms[other]
      BY <1>1, <2>2, <2>3, <2>5, NotLocked, OneCommunity DEF Stored
    <2>7. Keeps(q.id, comms', overtaken')
      <3>1. backend = "pg" => q.id \in overtaken \/ comms[q.id].manual
        BY <1>1, <1>4 DEF CurationIInv, EditsMarked
      <3> QED BY <1>1, <2>2, <2>3, <2>6, <3>1, GoesFacts DEF Keeps
    <2>8. \A k \in Ids : Keeps(k, comms', overtaken')
      BY <2>6, <2>7 DEF Keeps
    <2>9. FitsIn(c, r, comms', overtaken')
      BY <1>1, <1>2, GoesFacts DEF FitsIn, CurationIInv, EditsMarked, Idle, Genuine
    <2> QED BY <1>1, <1>2, <2>4, <2>6, <2>8, <2>9, GoesFacts, OneCall
  <1> QED BY <1>3, <1>4

LEMMA MergeAtOnceKeeps ==
    ASSUME CurationIInv, NEW c \in Curators, NEW id \in Ids, NEW other \in Ids, MergeAtOnce(c, id, other)
    PROVE  CurationIInv'
  <1> DEFINE rec == Merged(comms[id], comms[other])
             r == [Idle EXCEPT !.op = "merge", !.pc = "number", !.id = id, !.snap = rec]
  <1>1. /\ backend = "memory" /\ comms[id] \in Comm /\ comms[other] \in Stored
        /\ comms' = [comms EXCEPT ![id] = rec, ![other] = Absent] /\ Begin(c, r)
    BY Known DEF MergeAtOnce, Stored
  <1>2. rec \in Comm
    BY <1>1, MergedIsCommunity
  <1> HIDE DEF rec
  <1>3. /\ r \in Request /\ InPlace(r) /\ r.pc = "number" /\ r.id = id
    BY <1>2, AbsentIsNoCommunity DEF Idle, Request, InPlace
  <1> HIDE DEF r
  <1>4. FitsIn(c, r, comms', overtaken') /\ \A k \in Ids : Keeps(k, comms', overtaken')
    BY <1>1, <1>3 DEF FitsIn, Keeps
  <1>5. /\ comms' \in [Ids -> Stored] /\ Leaves(c, comms')
    <2>1. \A b \in Curators : call[b].pc # "merging"
      BY <1>1 DEF CurationIInv, LocksHold
    <2> QED BY <1>1, <1>2, <2>1, Known DEF Leaves, Stored
  <1> QED BY <1>1, <1>3, <1>4, <1>5, BeginFacts, OneCall

LEMMA MergeReadsKeeps ==
    ASSUME CurationIInv, NEW c \in Curators, NEW id \in Ids, NEW other \in Ids, MergeReads(c, id, other)
    PROVE  CurationIInv'
  <1> DEFINE r == [Idle EXCEPT !.op = "merge", !.pc = "merging", !.id = id, !.other = other,
                               !.snap = comms[id], !.read = comms[other]]
  <1>1. /\ backend = "pg" /\ comms[id] \in Comm /\ comms[other] \in Stored /\ other # id /\ ~ Locked(id)
        /\ comms' = comms /\ Begin(c, r)
    BY Known DEF MergeReads, Stored
  <1>2. /\ r \in Request /\ InPlace(r) /\ r.pc = "merging" /\ r.id = id /\ r.snap = comms[id]
    BY <1>1, AbsentIsNoCommunity DEF Idle, Request, InPlace, Stored
  <1> HIDE DEF r
  <1>3. FitsIn(c, r, comms, overtaken)
    BY <1>1, <1>2, NotLocked DEF FitsIn, CurationIInv, EditsMarked
  <1> QED BY <1>1, <1>2, <1>3, BeginFacts, StoreAlone

(* What a merge that commits makes of the store.                            *)
LEMMA MergeCommitsStore ==
    ASSUME CurationIInv, NEW c \in Curators, MergeCommits(c)
    PROVE  /\ call[c].id \in Ids /\ call[c].other \in Ids \ {call[c].id}
           /\ comms[call[c].id] \in Comm
           /\ comms'[call[c].id] = Merged(comms[call[c].id], call[c].read)
           /\ call[c].read \in Stored
           /\ comms'[call[c].other] = IF call[c].read = Absent THEN comms[call[c].other] ELSE Absent
           /\ \A id \in Ids \ {call[c].id, call[c].other} : comms'[id] = comms[id]
           /\ comms' \in [Ids -> Stored]
  <1> DEFINE q == call[c]
  <1>1. /\ q.pc = "merging" /\ q.id \in Ids /\ q.other \in Ids \ {q.id} /\ q.read \in Stored
        /\ comms[q.id] \in Comm /\ q.snap = comms[q.id]
        /\ comms' = [comms EXCEPT ![q.id] = [Merged(q.snap, q.read) EXCEPT !.title = comms[q.id].title],
                                  ![q.other] = IF q.read = Absent THEN @ ELSE Absent]
    BY Known DEF MergeCommits, InPlace, CurationIInv, LocksHold, Request, Stored
  <1>2. /\ Merged(q.snap, q.read) \in Comm /\ Merged(q.snap, q.read).title = comms[q.id].title
    BY <1>1, MergedIsCommunity
  <1>3. [Merged(q.snap, q.read) EXCEPT !.title = comms[q.id].title] = Merged(q.snap, q.read)
    BY <1>2 DEF Comm
  <1> QED BY <1>1, <1>2, <1>3, Known DEF Stored

LEMMA MergeCommitsKeeps ==
    ASSUME CurationIInv, NEW c \in Curators, MergeCommits(c)
    PROVE  CurationIInv'
  <1> DEFINE q == call[c]
             r == [q EXCEPT !.pc = "list"]
  <1>1. q.pc = "merging" /\ ~ Waits(c) /\ Goes /\ Update(c, r)
    BY DEF MergeCommits
  <1>2. r \in Request /\ InPlace(r) /\ r.pc = "list" /\ r.id = q.id /\ r.snap = q.snap
    BY <1>1, Known DEF InPlace, Request, Idle
  <1> HIDE DEF r
  <1>3. Merged(comms[q.id], q.read) \in Comm /\ Merged(comms[q.id], q.read).manual
    BY MergeCommitsStore, MergedIsCommunity
  <1>4. Leaves(c, comms')
    <2> SUFFICES ASSUME NEW b \in Curators \ {c}, call[b].pc = "merging"
                 PROVE  comms'[call[b].id] = comms[call[b].id]
      BY DEF Leaves
    <2>1. call[b].id \in Ids /\ call[b].id # q.id
      BY <1>1, Known DEF InPlace, CurationIInv, LocksHold
    <2>2. call[b].id = q.other => q.read = Absent
      BY <1>1 DEF Waits, Locked
    <2> QED BY <2>1, <2>2, MergeCommitsStore
  <1>5. FitsIn(c, r, comms', overtaken')
    BY <1>1, <1>2, GoesFacts DEF FitsIn, CurationIInv, EditsMarked
  <1>6. \A k \in Ids : Keeps(k, comms', overtaken')
    BY <1>3, MergeCommitsStore DEF Keeps
  <1> QED BY <1>1, <1>2, <1>4, <1>5, <1>6, MergeCommitsStore, GoesFacts, OneCall

LEMMA DeadlockKeeps ==
    ASSUME CurationIInv, NEW c \in Curators, Deadlock(c)
    PROVE  CurationIInv'
  <1>1. FitsIn(c, Idle, comms, overtaken)
    BY DEF FitsIn, Idle, Genuine
  <1> QED BY <1>1, IdleIsRequest, GoesFacts, StoreAlone DEF Deadlock

LEMMA SplitAtOnceKeeps ==
    ASSUME CurationIInv, NEW c \in Curators, NEW d \in Docs, SplitAtOnce(c, d)
    PROVE  CurationIInv'
  <1> DEFINE rec == Marked(comms[d])
             r == [Idle EXCEPT !.op = "split", !.pc = "number", !.id = SplitOf[d], !.snap = rec]
  <1>1. /\ backend = "memory" /\ comms[d] \in Comm /\ SplitOf[d] \in Ids
        /\ Set(SplitOf[d], rec) /\ Begin(c, r)
    BY Known, PartsAreIds DEF SplitAtOnce, Stored
  <1>2. rec \in Comm
    BY <1>1, MarkedIsCommunity
  <1> HIDE DEF rec
  <1>3. /\ r \in Request /\ InPlace(r) /\ r.pc = "number" /\ r.id = SplitOf[d]
    BY <1>1, <1>2, AbsentIsNoCommunity DEF Idle, Request, InPlace
  <1> HIDE DEF r
  <1>4. FitsIn(c, r, comms', overtaken') /\ \A k \in Ids : Keeps(k, comms', overtaken')
    BY <1>1, <1>3 DEF FitsIn, Keeps
  <1>5. \A b \in Curators : call[b].pc # "merging"
    BY <1>1 DEF CurationIInv, LocksHold
  <1>6. /\ comms' \in [Ids -> Stored] /\ Leaves(c, comms')
    BY <1>1, <1>2, <1>5, OneCommunity DEF Stored
  <1> QED BY <1>1, <1>3, <1>4, <1>6, BeginFacts, OneCall

LEMMA SplitInsertsKeeps ==
    ASSUME CurationIInv, NEW c \in Curators, NEW d \in Docs, SplitInserts(c, d)
    PROVE  CurationIInv'
  <1> DEFINE rec == Marked(comms[d])
             part == SplitOf[d]
             r == [Idle EXCEPT !.op = "split", !.pc = "list", !.id = part]
  <1>1. /\ comms[d] \in Comm /\ part \in Ids /\ part \notin Docs /\ comms[part] = Absent
        /\ Set(part, rec) /\ Begin(c, r)
    BY Known, PartsAreIds DEF SplitInserts, Stored
  <1>2. rec \in Comm /\ rec.manual
    BY <1>1, MarkedIsCommunity
  <1> HIDE DEF rec
  <1>3. /\ r \in Request /\ InPlace(r) /\ r.pc = "list" /\ r.id = part
    BY <1>1 DEF Idle, Request, InPlace
  <1> HIDE DEF r
  <1>4. \A b \in Curators : call[b].pc = "merging" => call[b].id # part
    BY <1>1, Known DEF CurationIInv, LocksHold, InPlace
  <1>5. /\ comms' \in [Ids -> Stored] /\ Leaves(c, comms') /\ comms'[part] = rec
        /\ \A k \in Ids \ {part} : comms'[k] = comms[k]
    <2> HIDE DEF part
    <2> QED BY <1>1, <1>2, <1>4, OneCommunity DEF Stored
  <1>6. FitsIn(c, r, comms', overtaken') /\ \A k \in Ids : Keeps(k, comms', overtaken')
    BY <1>1, <1>2, <1>3, <1>5 DEF FitsIn, Keeps
  <1> QED BY <1>1, <1>3, <1>5, <1>6, BeginFacts, OneCall

LEMMA RollbackFindsKeeps ==
    ASSUME CurationIInv, NEW c \in Curators, NEW id \in Ids, NEW n \in Nat, RollbackFinds(c, id, n)
    PROVE  CurationIInv'
  <1>1. PICK i \in Rows(id, n) :
          Begin(c, [Idle EXCEPT !.op = "rollback", !.pc = "restore", !.id = id, !.snap = versions[i].snap])
    BY DEF RollbackFinds
  <1> DEFINE r == [Idle EXCEPT !.op = "rollback", !.pc = "restore", !.id = id, !.snap = versions[i].snap]
  <1>2. i \in DOMAIN versions /\ versions[i].id = id /\ versions[i].snap \in Comm /\ comms' = comms
    <2>1. i \in DOMAIN versions /\ versions[i].id = id /\ comms' = comms
      BY <1>1 DEF Rows, RollbackFinds
    <2>2. versions[i] \in Version
      BY <2>1, Known
    <2> QED BY <2>1, <2>2 DEF Version
  <1>3. /\ r \in Request /\ InPlace(r) /\ r.pc = "restore" /\ r.id = id /\ r.snap = versions[i].snap
    BY <1>2, AbsentIsNoCommunity DEF Idle, Request, InPlace
  <1>4. Begin(c, r)
    BY <1>1
  <1> HIDE DEF r
  <1>5. FitsIn(c, r, comms, overtaken)
    BY <1>2, <1>3 DEF FitsIn, CurationIInv, EditsMarked
  <1> QED BY <1>2, <1>3, <1>4, <1>5, BeginFacts, StoreAlone

LEMMA RollbackRestoresKeeps ==
    ASSUME CurationIInv, NEW c \in Curators, RollbackRestores(c)
    PROVE  CurationIInv'
  <1> DEFINE q == call[c]
             r == [q EXCEPT !.pc = "number"]
  <1>1. /\ q.pc = "restore" /\ ~ Locked(q.id) /\ Set(q.id, q.snap) /\ Update(c, r)
        /\ UNCHANGED <<backend, versions, calls, restarts>>
        /\ overtaken' = IF \E b \in Curators : call[b].pc \in {"write", "flush"} /\ call[b].id = q.id
                        THEN overtaken \cup {q.id} ELSE overtaken
        /\ q.id \in Ids /\ q.snap \in Stored /\ q.snap # Absent
    BY Known DEF RollbackRestores, Restored, InPlace, Request, Stored
  <1>2. r \in Request /\ InPlace(r) /\ r.pc = "number" /\ r.id = q.id /\ r.snap = q.snap
    BY <1>1, Known DEF InPlace, Request, Idle
  <1> HIDE DEF r
  <1>3. /\ comms' \in [Ids -> Stored] /\ Leaves(c, comms') /\ comms'[q.id] = q.snap
        /\ \A k \in Ids \ {q.id} : comms'[k] = comms[k]
    BY <1>1, NotLocked, OneCommunity
  <1>4. overtaken \subseteq overtaken' /\ overtaken' \subseteq Ids /\ calls' \in Nat /\ restarts' \in Nat
    BY <1>1, Known
  <1>5. FitsIn(c, r, comms', overtaken')
    BY <1>1, <1>2, <1>4 DEF FitsIn, CurationIInv, EditsMarked
  <1>6. Keeps(q.id, comms', overtaken')
    <2>1. backend = "pg" /\ q.id \in Docs \ overtaken' => Genuine(q.id, q.snap)
      BY <1>4 DEF CurationIInv, EditsMarked
    <2> QED BY <1>1, <1>3, <2>1 DEF Keeps
  <1>7. \A k \in Ids : Keeps(k, comms', overtaken')
    BY <1>3, <1>6 DEF Keeps
  <1> QED BY <1>1, <1>2, <1>3, <1>4, <1>5, <1>7, OneCall

LEMMA ListsKeeps ==
    ASSUME CurationIInv, NEW c \in Curators, Lists(c)
    PROVE  CurationIInv'
  <1> DEFINE q == call[c]
             r == [q EXCEPT !.snap = comms[q.id], !.pc = "number"]
  <1>1. q.pc = "list" /\ Goes /\ comms' = comms /\ q.id \in Ids
    BY Known DEF Lists, InPlace
  <1>2. CASE comms[q.id] = Absent
    <2>1. Update(c, Idle)
      BY <1>2 DEF Lists
    <2>2. FitsIn(c, Idle, comms, overtaken)
      BY DEF FitsIn, Idle, Genuine
    <2> QED BY <1>1, <2>1, <2>2, IdleIsRequest, GoesFacts, StoreAlone
  <1>3. CASE comms[q.id] # Absent
    <2>1. Update(c, r)
      BY <1>3 DEF Lists
    <2>2. r \in Request /\ InPlace(r) /\ r.pc = "number" /\ r.id = q.id /\ r.snap = comms[q.id]
      <3>1. q \in Request /\ InPlace(q) /\ q.id \in Ids /\ comms[q.id] \in Comm
        BY <1>1, <1>3, Known DEF Stored
      <3>2. r \in Request /\ r.pc = "number" /\ r.id = q.id /\ r.snap = comms[q.id]
        BY <3>1 DEF Request
      <3> HIDE DEF r, q
      <3> QED BY <1>3, <3>1, <3>2 DEF InPlace, Idle
    <2> HIDE DEF r
    <2>3. FitsIn(c, r, comms, overtaken)
      BY <1>1, <2>2 DEF FitsIn, CurationIInv, EditsMarked
    <2> QED BY <1>1, <2>1, <2>2, <2>3, GoesFacts, StoreAlone
  <1> QED BY <1>2, <1>3

(* In a history without holes the next number is the first free one.        *)
LEMMA NextNumberIsFree ==
    ASSUME NEW id, NEW k \in Nat, Numbered(id) = 1 .. k
    PROVE  NextNumber(id) = k + 1
  <1> DEFINE S == {0} \cup (1 .. k)
             m == CHOOSE x \in S : \A y \in S : x >= y
  <1>1. NextNumber(id) = m + 1
    BY DEF NextNumber, Numbered, Max
  <1>2. k \in S /\ \A y \in S : k >= y
    OBVIOUS
  <1>3. m \in S /\ \A y \in S : m >= y
    BY <1>2
  <1>4. m = k
    BY <1>2, <1>3
  <1> QED BY <1>1, <1>4

LEMMA NumbersKeeps ==
    ASSUME CurationIInv, NEW c \in Curators, Numbers(c)
    PROVE  CurationIInv'
  <1> DEFINE q == call[c]
             r == [q EXCEPT !.n = NextNumber(q.id), !.pc = "commit"]
  <1>1. q.pc = "number" /\ Goes /\ comms' = comms /\ q.id \in Ids /\ Update(c, r)
    BY Known DEF Numbers, InPlace
  <1>2. PICK k \in 0 .. Len(versions) : Numbered(q.id) = 1 .. k
    BY <1>1 DEF CurationIInv, VersionsGapless
  <1>3. k \in Nat /\ NextNumber(q.id) = k + 1
    <2>1. k \in Nat
      BY Known
    <2> QED BY <1>2, <2>1, NextNumberIsFree
  <1>4. /\ r \in Request /\ InPlace(r) /\ r.pc = "commit" /\ r.id = q.id /\ r.snap = q.snap
        /\ r.n = k + 1
    <2>1. r = [q EXCEPT !.n = k + 1, !.pc = "commit"] /\ k + 1 \in Nat
      BY <1>3
    <2>2. q \in Request /\ InPlace(q)
      BY Known
    <2> HIDE DEF q, r
    <2>3. /\ r \in Request /\ r.pc = "commit" /\ r.id = q.id /\ r.snap = q.snap /\ r.n = k + 1
      BY <2>1, <2>2 DEF Request
    <2> QED BY <1>1, <2>2, <2>3 DEF InPlace, Idle
  <1> HIDE DEF r
  <1>5. r.n > 0 /\ (r.n > 1 => r.n - 1 \in Numbered(r.id))
    BY <1>2, <1>3, <1>4
  <1>6. FitsIn(c, r, comms, overtaken)
    BY <1>1, <1>4, <1>5 DEF FitsIn, CurationIInv, EditsMarked
  <1> QED BY <1>1, <1>4, <1>6, GoesFacts, StoreAlone

(* The row a call commits is the next one, or one that is there already.    *)
LEMMA CommitsKeeps ==
    ASSUME CurationIInv, NEW c \in Curators, Commits(c)
    PROVE  CurationIInv'
  <1> DEFINE q == call[c]
             row == [id |-> q.id, n |-> q.n, snap |-> q.snap]
  <1>1. /\ q.pc = "commit" /\ versions' = Append(versions, row) /\ Update(c, Idle)
        /\ UNCHANGED <<backend, comms, overtaken, calls, restarts>>
        /\ row \in Version /\ q.id \in Ids /\ q.n \in Nat /\ q.snap \in Comm
    BY Known DEF Commits, InPlace, Request, Version
  <1>2. /\ call' \in [Curators -> Request] /\ call'[c] = Idle
        /\ \A b \in Curators \ {c} : call'[b] = call[b]
    BY <1>1, Known, IdleIsRequest DEF Update
  <1>3. /\ versions' \in Seq(Version) /\ Len(versions') = Len(versions) + 1 /\ Len(versions) \in Nat
        /\ DOMAIN versions = 1 .. Len(versions) /\ DOMAIN versions' = 1 .. Len(versions')
        /\ versions'[Len(versions) + 1] = row
        /\ \A i \in DOMAIN versions : versions'[i] = versions[i]
    BY <1>1, Known
  <1> HIDE DEF row
  <1>4. CurationTypeOK'
    BY <1>1, <1>2, <1>3, IdleIsRequest DEF CurationIInv, CurationTypeOK, Version
  <1>5. row.id = q.id /\ row.n = q.n /\ row.snap = q.snap
    BY DEF row
  <1>6. \A id \in Ids : Numbered(id)' = IF id = q.id THEN Numbered(id) \cup {q.n} ELSE Numbered(id)
    <2>1. \A id \in Ids : \A n : n \in Numbered(id) <=>
            \E i \in DOMAIN versions : versions[i].id = id /\ versions[i].n = n
      BY DEF Numbered
    <2>2. \A id \in Ids : \A n : n \in Numbered(id)' <=>
            \E i \in DOMAIN versions' : versions'[i].id = id /\ versions'[i].n = n
      BY DEF Numbered
    <2>3. DOMAIN versions' = DOMAIN versions \cup {Len(versions) + 1}
      BY <1>3
    <2>4. \A id \in Ids : \A n : n \in Numbered(id)' <=> n \in Numbered(id) \/ (id = q.id /\ n = q.n)
      BY <1>3, <1>5, <2>1, <2>2, <2>3
    <2> QED BY <2>4
  <1>7. VersionsGapless'
    <2> SUFFICES ASSUME NEW id \in Ids
                 PROVE  \E k \in 0 .. Len(versions') : Numbered(id)' = 1 .. k
      BY DEF VersionsGapless
    <2>1. PICK k \in 0 .. Len(versions) : Numbered(id) = 1 .. k
      BY DEF CurationIInv, VersionsGapless
    <2>2. CASE id # q.id \/ q.n \in 1 .. k
      <3>1. k \in 0 .. Len(versions')
        BY <1>3
      <3>2. Numbered(id)' = 1 .. k
        BY <1>6, <2>1, <2>2
      <3> QED BY <3>1, <3>2
    <2>3. CASE id = q.id /\ q.n \notin 1 .. k
      <3>1. q.n > 0 /\ (q.n > 1 => q.n - 1 \in 1 .. k)
        BY <1>1, <2>1, <2>3 DEF CurationIInv, NumbersFollow
      <3>2. q.n = k + 1
        BY <1>1, <1>3, <2>3, <3>1
      <3>3. Numbered(id)' = 1 .. (k + 1) /\ k + 1 \in 0 .. Len(versions')
        <4>1. k \in Nat /\ k + 1 \in 0 .. Len(versions')
          BY <1>3
        <4>2. 1 .. (k + 1) = (1 .. k) \cup {k + 1}
          BY <4>1
        <4> QED BY <1>6, <2>1, <2>3, <3>2, <4>1, <4>2
      <3> QED BY <3>3
    <2> QED BY <2>2, <2>3
  <1>8. LocksHold'
    BY <1>1, <1>2 DEF CurationIInv, LocksHold, Idle
  <1>9. EditsMarked'
    <2> SUFFICES ASSUME backend = "pg" PROVE EditsMarked'
      BY <1>1 DEF EditsMarked
    <2>1. ASSUME NEW i \in DOMAIN versions', versions'[i].id \in Docs \ overtaken
          PROVE  Genuine(versions'[i].id, versions'[i].snap)
      BY <1>3, <1>5, <2>1 DEF CurationIInv, EditsMarked
    <2>2. ASSUME NEW b \in Curators, call'[b].id \in Docs \ overtaken
          PROVE  Genuine(call'[b].id, call'[b].snap)
      BY <1>2, <2>2 DEF CurationIInv, EditsMarked, Idle, Genuine
    <2>3. ASSUME NEW b \in Curators, call'[b].pc \in {"write", "flush"}, call'[b].id \notin overtaken
          PROVE  comms[call'[b].id] = Absent \/ comms[call'[b].id].manual
      BY <1>2, <2>3 DEF CurationIInv, EditsMarked, Idle
    <2> QED BY <1>1, <2>1, <2>2, <2>3 DEF CurationIInv, EditsMarked, Genuine
  <1>10. NumbersFollow'
    <2>1. \A b \in Curators : call[b].pc = "commit" => call[b].id \in Ids
      BY Known DEF InPlace
    <2>2. \A id \in Ids : Numbered(id) \subseteq Numbered(id)'
      BY <1>6
    <2>3. ASSUME NEW b \in Curators, call'[b].pc = "commit"
          PROVE  call'[b] = call[b] /\ call[b].id \in Ids /\ call[b].pc = "commit"
      BY <1>2, <2>1, <2>3 DEF Idle
    <2> QED BY <2>2, <2>3 DEF CurationIInv, NumbersFollow
  <1> QED BY <1>4, <1>7, <1>8, <1>9, <1>10 DEF CurationIInv

LEMMA RestartKeeps ==
    ASSUME CurationIInv, Restart
    PROVE  CurationIInv'
  <1>1. PICK changed \in SUBSET Docs :
          comms' = [id \in Ids |->
            IF backend = "memory" THEN (IF id \in Docs THEN Derived(id) ELSE Absent)
            ELSE IF id \in changed THEN Derive(id) ELSE comms[id]]
    BY DEF Restart
  <1>2. /\ \A c \in Curators : call'[c] = Idle
        /\ call' \in [Curators -> Request]
        /\ UNCHANGED <<backend, versions, overtaken, calls>> /\ restarts' \in Nat
    <2>1. restarts \in Nat
      BY DEF CurationIInv, CurationTypeOK
    <2> QED BY <2>1, IdleIsRequest DEF Restart
  <1>3. ASSUME NEW id \in Ids PROVE comms'[id] \in Stored
    <2>1. id \in Docs => Derived(id) \in Comm
      BY DerivedIsCommunity
    <2>2. comms[id] \in Stored
      BY DEF CurationIInv, CurationTypeOK, Stored
    <2> QED BY <1>1, <2>1, <2>2 DEF Derive, Stored
  <1>4. CurationTypeOK'
    BY <1>1, <1>2, <1>3, IdleIsRequest DEF CurationIInv, CurationTypeOK, Stored
  <1>5. VersionsGapless' /\ LocksHold' /\ NumbersFollow'
    BY <1>2 DEF CurationIInv, VersionsGapless, Numbered, LocksHold, NumbersFollow, Idle
  <1>6. EditsMarked'
    <2> SUFFICES ASSUME backend = "pg" PROVE EditsMarked'
      BY <1>2 DEF EditsMarked
    <2>1. ASSUME NEW id \in Docs \ overtaken PROVE Genuine(id, comms'[id])
      BY <1>1, <2>1, PartsAreIds DEF CurationIInv, EditsMarked, Derive, Genuine
    <2>2. \A c \in Curators : Genuine(call'[c].id, call'[c].snap) /\ call'[c].pc \notin {"write", "flush"}
      BY <1>2 DEF Idle, Genuine
    <2> QED BY <1>2, <2>1, <2>2 DEF CurationIInv, EditsMarked, Genuine
  <1> QED BY <1>4, <1>5, <1>6 DEF CurationIInv

----------------------------------------------------------------------------
LEMMA InitCuration == Init => CurationIInv
  <1> SUFFICES ASSUME Init PROVE CurationIInv
    OBVIOUS
  <1>1. \A c \in Curators : call[c] = Idle
    BY DEF Init
  <1>2. CurationTypeOK
    <2>1. \A id \in Ids : comms[id] \in Stored
      BY DerivedIsCommunity DEF Init, Stored
    <2>2. comms \in [Ids -> Stored] /\ call \in [Curators -> Request]
      BY <2>1, IdleIsRequest DEF Init
    <2>3. versions \in Seq(Version)
      BY DEF Init
    <2> QED BY <1>1, <2>2, <2>3, IdleIsRequest DEF Init, CurationTypeOK, Stored, Version
  <1>3. VersionsGapless
    <2>1. \A id \in Ids : Numbered(id) = 1 .. 0
      BY DEF Init, Numbered
    <2>2. 0 \in 0 .. Len(versions)
      BY DEF Init
    <2> QED BY <2>1, <2>2 DEF VersionsGapless
  <1>4. LocksHold /\ NumbersFollow
    BY <1>1 DEF LocksHold, NumbersFollow, Idle
  <1>5. EditsMarked
    BY <1>1, PartsAreIds DEF Init, EditsMarked, Genuine, Idle
  <1> QED BY <1>2, <1>3, <1>4, <1>5 DEF CurationIInv

LEMMA NextCuration == CurationIInv /\ [Next]_vars => CurationIInv'
  <1> SUFFICES ASSUME CurationIInv, [Next]_vars PROVE CurationIInv'
    OBVIOUS
  <1>1. ASSUME NEW c \in Curators, NEW id \in Ids, PatchAtOnce(c, id) \/ PatchReads(c, id)
        PROVE  CurationIInv'
    BY <1>1, PatchAtOnceKeeps, PatchReadsKeeps
  <1>2. ASSUME NEW c \in Curators, PatchMarks(c) \/ PatchLoads(c) \/ PatchWrites(c) \/ Deadlock(c)
        PROVE  CurationIInv'
    BY <1>2, PatchMarksKeeps, PatchLoadsKeeps, PatchWritesKeeps, DeadlockKeeps
  <1>3. ASSUME NEW c \in Curators, MergeStep(c)
        PROVE  CurationIInv'
    BY <1>3, MergeAtOnceKeeps, MergeCommitsKeeps DEF MergeStep
  <1>4. ASSUME NEW c \in Curators, NEW id \in Ids, NEW other \in Ids, MergeReads(c, id, other)
        PROVE  CurationIInv'
    BY <1>4, MergeReadsKeeps
  <1>5. ASSUME NEW c \in Curators, NEW d \in Docs, SplitAtOnce(c, d) \/ SplitInserts(c, d)
        PROVE  CurationIInv'
    BY <1>5, SplitAtOnceKeeps, SplitInsertsKeeps
  <1>6. ASSUME NEW c \in Curators, NEW id \in Ids, NEW n \in 1 .. Len(versions), RollbackFinds(c, id, n)
        PROVE  CurationIInv'
    <2>1. n \in Nat
      BY DEF CurationIInv, CurationTypeOK
    <2> QED BY <1>6, <2>1, RollbackFindsKeeps
  <1>7. ASSUME NEW c \in Curators, RollbackRestores(c) \/ Lists(c) \/ Numbers(c) \/ Commits(c)
        PROVE  CurationIInv'
    BY <1>7, RollbackRestoresKeeps, ListsKeeps, NumbersKeeps, CommitsKeeps
  <1>8. CASE Restart
    BY <1>8, RestartKeeps
  <1>9. CASE UNCHANGED vars
    <2> USE <1>9 DEF vars, CurationIInv
    <2>1. CurationTypeOK'
      BY DEF CurationTypeOK
    <2>2. VersionsGapless' /\ NumbersFollow'
      BY DEF VersionsGapless, NumbersFollow, Numbered
    <2>3. LocksHold' /\ EditsMarked'
      BY DEF LocksHold, EditsMarked
    <2> QED BY <2>1, <2>2, <2>3
  <1> QED BY <1>1, <1>2, <1>3, <1>4, <1>5, <1>6, <1>7, <1>8, <1>9 DEF Next

----------------------------------------------------------------------------
(* A merge, seen from any community that is there before and after it.      *)
LEMMA MergeUndoesNothing ==
    ASSUME CurationIInv, NEW c \in Curators, MergeStep(c), NEW k \in Ids,
           comms[k] # Absent, comms'[k] # Absent
    PROVE  /\ comms'[k].title = comms[k].title
           /\ comms[k].level <= comms'[k].level
           /\ comms[k].members \subseteq comms'[k].members
  <1>0. comms[k] \in Comm /\ comms[k].level \in Nat
    <2>1. comms[k] \in Comm
      BY Known DEF Stored
    <2>2. comms[k].level \in {1, 2}
      BY <2>1 DEF Comm
    <2> QED BY <2>1, <2>2
  <1>a. CASE comms'[k] = comms[k]
    BY <1>0, <1>a
  <1>b. ASSUME NEW source \in Stored, comms'[k] = Merged(comms[k], source)
        PROVE  /\ comms'[k].title = comms[k].title
               /\ comms[k].level <= comms'[k].level
               /\ comms[k].members \subseteq comms'[k].members
    BY <1>0, <1>b, MergedIsCommunity
  <1>1. CASE \E id, other \in Ids : MergeAtOnce(c, id, other)
    <2>1. PICK id \in Ids, other \in Ids : MergeAtOnce(c, id, other)
      BY <1>1
    <2>2. /\ comms' = [comms EXCEPT ![id] = Merged(comms[id], comms[other]), ![other] = Absent]
          /\ comms[id] \in Comm /\ comms[other] \in Stored
      BY <2>1, Known DEF MergeAtOnce, Stored
    <2>3. comms'[k] = IF k = id THEN Merged(comms[id], comms[other]) ELSE comms[k]
      BY <2>2, Known
    <2> QED BY <1>a, <1>b, <2>2, <2>3
  <1>2. CASE MergeCommits(c)
    <2>1. comms'[k] = IF k = call[c].id THEN Merged(comms[k], call[c].read) ELSE comms[k]
      BY <1>2, MergeCommitsStore
    <2>2. call[c].read \in Stored
      BY <1>2, MergeCommitsStore
    <2> QED BY <1>a, <1>b, <2>1, <2>2
  <1> QED BY <1>1, <1>2 DEF MergeStep

(* Only Restart restarts serve.                                             *)
LEMMA OnlyRestart ==
    ASSUME CurationIInv, [Next]_vars, restarts' # restarts
    PROVE  Restart
  <1>1. ~UNCHANGED vars
    BY DEF vars
  <1>2. ASSUME NEW c \in Curators, NEW id \in Ids, PatchAtOnce(c, id) \/ PatchReads(c, id) PROVE FALSE
    BY <1>2 DEF PatchAtOnce, PatchReads, Begin, Goes
  <1>3. ASSUME NEW c \in Curators, PatchMarks(c) \/ PatchLoads(c) \/ PatchWrites(c) \/ MergeStep(c) \/ Deadlock(c) PROVE FALSE
    BY <1>3 DEF PatchMarks, PatchLoads, PatchWrites, MergeStep, MergeAtOnce, MergeCommits, Deadlock, Begin, Goes
  <1>4. ASSUME NEW c \in Curators, NEW id \in Ids, NEW other \in Ids, MergeReads(c, id, other) PROVE FALSE
    BY <1>4 DEF MergeReads, Begin, Goes
  <1>5. ASSUME NEW c \in Curators, NEW d \in Docs, SplitAtOnce(c, d) \/ SplitInserts(c, d) PROVE FALSE
    BY <1>5 DEF SplitAtOnce, SplitInserts, Begin, Goes
  <1>6. ASSUME NEW c \in Curators, NEW id \in Ids, NEW n \in 1 .. Len(versions), RollbackFinds(c, id, n)
        PROVE  FALSE
    BY <1>6 DEF RollbackFinds, Begin, Goes
  <1>7. ASSUME NEW c \in Curators, RollbackRestores(c) \/ Lists(c) \/ Numbers(c) \/ Commits(c) PROVE FALSE
    BY <1>7 DEF RollbackRestores, Lists, Numbers, Commits, Begin, Goes
  <1> QED BY <1>1, <1>2, <1>3, <1>4, <1>5, <1>6, <1>7 DEF Next

(* Ingestion's re-derivation passes by what the invariant says is marked.   *)
LEMMA RestartKeepsEdits ==
    ASSUME CurationIInv, Restart, backend = "pg", NEW id \in Ids \ overtaken, Handmade(id)
    PROVE  comms'[id] = comms[id]
  <1>1. PICK changed \in SUBSET Docs : comms'[id] = IF id \in changed THEN Derive(id) ELSE comms[id]
    BY DEF Restart
  <1>2. CASE id \in changed
    <2>1. Genuine(id, comms[id])
      BY <1>2 DEF CurationIInv, EditsMarked
    <2>2. comms[id] # Derived(id)
      <3>1. [Derived(id) EXCEPT !.manual = FALSE] = Derived(id)
        <4>1. Derived(id) \in Comm /\ Derived(id).manual = FALSE
          BY <1>2, DerivedIsCommunity DEF Derived
        <4> QED BY <4>1 DEF Comm
      <3> QED BY <3>1 DEF Handmade
    <2> QED BY <1>1, <1>2, <2>1, <2>2 DEF Genuine, Handmade, Derive
  <1> QED BY <1>1, <1>2

(* The inductive invariant: a merge has its target for itself, on durable   *)
(* stores what is not as derived bears the manual mark, and the numbers the *)
(* calls are about to commit leave no holes.                                *)
THEOREM CurationInvariant == Spec => []CurationIInv
  BY InitCuration, NextCuration, PTL DEF Spec

(* Types hold; a snapshot is of a community that was there.                 *)
THEOREM CurationTypes == Spec => []CurationTypeOK
  <1>1. CurationIInv => CurationTypeOK
    BY DEF CurationIInv
  <1> QED BY <1>1, CurationInvariant, PTL

(* The versions of a community are 1, 2, 3, ... without a hole, however     *)
(* many requests read the highest number at the same time.                  *)
THEOREM HistoryGapless == Spec => []VersionsGapless
  <1>1. CurationIInv => VersionsGapless
    BY DEF CurationIInv
  <1> QED BY <1>1, CurationInvariant, PTL

(* Ingestion never overwrites what a curator made of a community on durable *)
(* stores: what an edit cut short had written included.                     *)
THEOREM EditsSurviveIngestion == Spec => HandEditsKept
  <1>1. CurationIInv /\ [Next]_vars =>
          [restarts' # restarts /\ backend = "pg" =>
             \A id \in Ids \ overtaken : Handmade(id) => comms'[id] = comms[id]]_vars
    BY OnlyRestart, RestartKeepsEdits
  <1> QED BY <1>1, CurationInvariant, PTL DEF Spec, HandEditsKept

(* A merge keeps the title of its target, loosens no access level and loses *)
(* no member that others gave it between its reads and its commit.          *)
THEOREM MergesUndoNothing == Spec => MergeKeepsEdits
  <1>1. CurationIInv /\ [Next]_vars =>
          [\A c \in Curators : MergeStep(c) => \A id \in Ids :
             comms[id] # Absent /\ comms'[id] # Absent =>
                /\ comms'[id].title = comms[id].title
                /\ comms[id].level <= comms'[id].level
                /\ comms[id].members \subseteq comms'[id].members]_vars
    BY MergeUndoesNothing
  <1> QED BY <1>1, CurationInvariant, PTL DEF Spec, MergeKeepsEdits
=============================================================================
