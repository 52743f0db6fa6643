--------------------------- MODULE CommunityCuration ---------------------------
(***************************************************************************)
(* Manual editing of document communities (api/admin.py) on the community  *)
(* store and on the version history beside it (collab/community_version),  *)
(* with ingestion deriving the communities again when serve restarts       *)
(* (ecl/community_deriver.py).                                             *)
(*                                                                         *)
(* In memory a store call never suspends, and an edit and its snapshot are *)
(* one step; on PostgreSQL every transaction of the store is a step, and a *)
(* merge keeps its target locked between its reads and its commit.  The    *)
(* version row is written, in either case, by a session of its own: read   *)
(* the highest number, insert the next, commit.                            *)
(*                                                                         *)
(* Curators see every community.  Summaries are left out; a document's     *)
(* name stands for the entities derived from it.                           *)
(***************************************************************************)
EXTENDS Naturals, Sequences, FiniteSetsExt

CONSTANTS
    Docs,       \* the documents, each with a community
    SplitOf,    \* the id split gives to the first part of each of them
    Curators,   \* the calls that may be in flight at a time
    Backends,   \* kinds of community stores: "memory", "pg"
    MaxCalls, MaxRestarts   \* bounds on edits and on restarts of serve

Parts == {SplitOf[d] : d \in Docs}
Ids == Docs \cup Parts

ASSUME CurationAssumption ==
    /\ Docs \cap Parts = {} /\ \A d, e \in Docs : SplitOf[d] = SplitOf[e] => d = e
    /\ Backends \subseteq {"memory", "pg"}
    /\ MaxCalls \in Nat /\ MaxRestarts \in Nat

VARIABLES
    backend,    \* the kind of store; never changes
    comms,      \* the community store
    versions,   \* the community_versions table, in the order of the commits
    call,       \* the curators' requests
    overtaken,  \* the communities restored between the two transactions of a PATCH
    calls, restarts   \* how many there have been

vars == <<backend, comms, versions, call, overtaken, calls, restarts>>

(* What ingestion derives, and what its curators make of a community. *)
Derived(d) == [title |-> "derived", level |-> 1, members |-> {d}, manual |-> FALSE]
Absent == [title |-> "none", level |-> 0, members |-> {}, manual |-> FALSE]
Handmade(id) == comms[id] # Absent /\ [comms[id] EXCEPT !.manual = FALSE] # Derived(id)
Marked(rec) == [rec EXCEPT !.manual = TRUE]

Idle == [op |-> "none", pc |-> "idle", id |-> "none", other |-> "none", edits |-> << >>, ok |-> FALSE,
         snap |-> Absent, read |-> Absent, n |-> 0]

Init ==
    /\ backend \in Backends
    /\ comms = [id \in Ids |-> IF id \in Docs THEN Derived(id) ELSE Absent]
    /\ versions = << >>
    /\ call = [c \in Curators |-> Idle]
    /\ overtaken = {} /\ calls = 0 /\ restarts = 0

(* Mutant: a merge's target is read without FOR UPDATE. *)
NobodyLocks(id) == FALSE
Locked(id) == \E c \in Curators : call[c].pc = "merging" /\ call[c].id = id

Set(id, rec) == comms' = [comms EXCEPT ![id] = rec]
Update(c, change) == call' = [call EXCEPT ![c] = change]
Begin(c, request) ==
    /\ call[c] = Idle /\ calls < MaxCalls /\ calls' = calls + 1
    /\ Update(c, request)
    /\ UNCHANGED <<backend, versions, overtaken, restarts>>
Goes == UNCHANGED <<backend, versions, overtaken, calls, restarts>>

----------------------------------------------------------------------------
(* PATCH: a new title, a new access level, or both.                         *)

Edited(rec, e) == IF e = "title" THEN [rec EXCEPT !.title = "by hand"] ELSE [rec EXCEPT !.level = 3 - @]
Edits(id) == {e \in {<<"title">>, <<"level">>, <<"title", "level">>} :
                 e[1] = "title" => comms[id].title # "by hand"}

(* In memory the handler holds the live record: its snapshot is of what it made of it. *)
PatchAtOnce(c, id) ==
    /\ backend = "memory" /\ comms[id] # Absent
    /\ \E e \in Edits(id) :
         LET rec == Marked(IF Len(e) = 2 THEN Edited(Edited(comms[id], e[1]), e[2]) ELSE Edited(comms[id], e[1]))
         IN Set(id, rec) /\ Begin(c, [Idle EXCEPT !.op = "patch", !.pc = "number", !.id = id, !.snap = rec])

(* On PostgreSQL it holds a copy read before the edit. *)
PatchReads(c, id) ==
    /\ backend = "pg" /\ comms[id] # Absent
    /\ \E e \in Edits(id) :
         Begin(c, [Idle EXCEPT !.op = "patch", !.pc = "mark", !.id = id, !.edits = e, !.snap = comms[id]])
    /\ UNCHANGED comms

(* _edit marks the community as manual and commits; the edit is a second transaction. *)
(* A community that is gone fails the edit, and a PATCH without any leaves no version. *)
AfterEdit(q) ==
    IF Len(q.edits) > 1 THEN [q EXCEPT !.edits = Tail(@), !.pc = "mark"]
    ELSE IF q.ok THEN [q EXCEPT !.edits = << >>, !.pc = "number"] ELSE Idle
PatchMarks(c) ==
    LET q == call[c] IN
    /\ q.pc = "mark" /\ ~Locked(q.id) /\ Goes
    /\ IF comms[q.id] = Absent THEN Update(c, AfterEdit(q)) /\ UNCHANGED comms
       ELSE Set(q.id, Marked(comms[q.id])) /\ Update(c, [q EXCEPT !.pc = "write"])
EditedBy(q, rec) == IF q.edits[1] = "title" THEN [rec EXCEPT !.title = "by hand"]
                    ELSE [rec EXCEPT !.level = 3 - q.snap.level]
(* That one loads the row, and updates it at its commit if the edit changes it: *)
(* an UPDATE that waits for locks, and fails the request if the row is gone.    *)
PatchLoads(c) ==
    LET q == call[c] IN
    /\ q.pc = "write" /\ Goes /\ UNCHANGED comms
    /\ Update(c, IF comms[q.id] = Absent \/ EditedBy(q, comms[q.id]) = comms[q.id]
                 THEN AfterEdit([q EXCEPT !.ok = TRUE]) ELSE [q EXCEPT !.pc = "flush"])
PatchWrites(c) ==
    LET q == call[c] IN
    /\ q.pc = "flush" /\ ~Locked(q.id) /\ Goes
    /\ IF comms[q.id] = Absent THEN Update(c, Idle) /\ UNCHANGED comms
       ELSE Set(q.id, EditedBy(q, comms[q.id])) /\ Update(c, AfterEdit([q EXCEPT !.ok = TRUE]))

----------------------------------------------------------------------------
(* Merge: the members of both, the stricter level, and the source is gone.  *)

Merged(target, source) ==
    Marked([target EXCEPT !.members = @ \cup source.members,
                          !.level = IF source.level > @ THEN source.level ELSE @])

MergeAtOnce(c, id, other) ==
    /\ backend = "memory" /\ comms[id] # Absent /\ other # id
    /\ LET rec == Merged(comms[id], comms[other])
       IN /\ comms' = [comms EXCEPT ![id] = rec, ![other] = Absent]
          /\ Begin(c, [Idle EXCEPT !.op = "merge", !.pc = "number", !.id = id, !.snap = rec])

(* The target is locked and read, the source is only read. *)
MergeReads(c, id, other) ==
    /\ backend = "pg" /\ comms[id] # Absent /\ other # id /\ ~Locked(id)
    /\ Begin(c, [Idle EXCEPT !.op = "merge", !.pc = "merging", !.id = id, !.other = other,
                             !.snap = comms[id], !.read = comms[other]])
    /\ UNCHANGED comms
Waits(c) == call[c].pc = "merging" /\ call[c].read # Absent /\ Locked(call[c].other)
MergeCommits(c) ==
    LET q == call[c] IN
    /\ q.pc = "merging" /\ ~Waits(c) /\ Goes
    /\ comms' = [comms EXCEPT ![q.id] = [Merged(q.snap, q.read) EXCEPT !.title = comms[q.id].title],
                              ![q.other] = IF q.read = Absent THEN @ ELSE Absent]
    /\ Update(c, [q EXCEPT !.pc = "list"])
(* Two merges that delete each other's target: PostgreSQL ends one of them. *)
Deadlock(c) ==
    /\ \E b \in Curators : Waits(b) /\ Waits(c) /\ call[b].other = call[c].id /\ call[c].other = call[b].id
    /\ Update(c, Idle) /\ Goes /\ UNCHANGED comms

----------------------------------------------------------------------------
(* Split: the community stays, and its parts are new communities.           *)

SplitAtOnce(c, d) ==
    /\ backend = "memory" /\ comms[d] # Absent
    /\ LET rec == Marked(comms[d])
       IN /\ Set(SplitOf[d], rec)
          /\ Begin(c, [Idle EXCEPT !.op = "split", !.pc = "number", !.id = SplitOf[d], !.snap = rec])
(* An id that is taken is an IntegrityError: nothing is written. *)
SplitInserts(c, d) ==
    /\ backend = "pg" /\ ~Locked(d) /\ comms[d] # Absent /\ comms[SplitOf[d]] = Absent
    /\ Set(SplitOf[d], Marked(comms[d]))
    /\ Begin(c, [Idle EXCEPT !.op = "split", !.pc = "list", !.id = SplitOf[d]])

----------------------------------------------------------------------------
(* Rollback, and the version every edit leaves.                             *)

Rows(id, n) == {i \in DOMAIN versions : versions[i].id = id /\ versions[i].n = n}

(* scalar_one_or_none: no such row is a 404, several are an error. *)
RollbackFinds(c, id, n) ==
    /\ \E i \in Rows(id, n) : Rows(id, n) = {i} /\
         Begin(c, [Idle EXCEPT !.op = "rollback", !.pc = "restore", !.id = id, !.snap = versions[i].snap])
    /\ UNCHANGED comms
(* Mutant: the snapshot is restored without its metadata. *)
RestoredUnmarked(snap) == [snap EXCEPT !.manual = FALSE]
Restored(snap) == snap
RollbackRestores(c) ==
    LET q == call[c] IN
    /\ q.pc = "restore" /\ ~Locked(q.id)
    /\ Set(q.id, Restored(q.snap)) /\ Update(c, [q EXCEPT !.pc = "number"])
    /\ overtaken' = IF \E b \in Curators : call[b].pc \in {"write", "flush"} /\ call[b].id = q.id
                    THEN overtaken \cup {q.id} ELSE overtaken
    /\ UNCHANGED <<backend, versions, calls, restarts>>

(* Mutant: the handler does not look whether the community is still there. *)
ListsBlindly(c) ==
    LET q == call[c] IN
    /\ q.pc = "list" /\ Goes /\ UNCHANGED comms
    /\ Update(c, [q EXCEPT !.snap = comms[q.id], !.pc = "number"])
(* After a merge or a split the handler lists the store again for its snapshot. *)
Lists(c) ==
    LET q == call[c] IN
    /\ q.pc = "list" /\ Goes /\ UNCHANGED comms
    /\ Update(c, IF comms[q.id] = Absent THEN Idle ELSE [q EXCEPT !.snap = comms[q.id], !.pc = "number"])

(* Mutant: the rows are counted. *)
CountedNumber(id) == Cardinality({i \in DOMAIN versions : versions[i].id = id}) + 1
NextNumber(id) == Max({0} \cup {versions[i].n : i \in {k \in DOMAIN versions : versions[k].id = id}}) + 1
Numbers(c) ==
    LET q == call[c] IN
    /\ q.pc = "number" /\ Goes /\ UNCHANGED comms
    /\ Update(c, [q EXCEPT !.n = NextNumber(q.id), !.pc = "commit"])
Commits(c) ==
    LET q == call[c] IN
    /\ q.pc = "commit"
    /\ versions' = Append(versions, [id |-> q.id, n |-> q.n, snap |-> q.snap])
    /\ Update(c, Idle) /\ UNCHANGED <<backend, comms, overtaken, calls, restarts>>

----------------------------------------------------------------------------
Derive(d) == IF comms[d].manual THEN comms[d] ELSE Derived(d)

(* serve ends, with its calls, and starts again: the in-memory store is      *)
(* filled anew, on PostgreSQL the documents whose files have changed are     *)
(* derived again.  Open transactions are gone.                               *)
Restart ==
    /\ restarts < MaxRestarts /\ restarts' = restarts + 1
    /\ call' = [c \in Curators |-> Idle]
    /\ \E changed \in SUBSET Docs :
         comms' = [id \in Ids |->
            IF backend = "memory" THEN (IF id \in Docs THEN Derived(id) ELSE Absent)
            ELSE IF id \in changed THEN Derive(id) ELSE comms[id]]
    /\ UNCHANGED <<backend, versions, overtaken, calls>>

MergeStep(c) == (\E id, other \in Ids : MergeAtOnce(c, id, other)) \/ MergeCommits(c)

Next ==
    \/ \E c \in Curators :
         \/ \E id \in Ids : PatchAtOnce(c, id) \/ PatchReads(c, id)
         \/ PatchMarks(c) \/ PatchLoads(c) \/ PatchWrites(c)
         \/ MergeStep(c) \/ Deadlock(c)
         \/ \E id, other \in Ids : MergeReads(c, id, other)
         \/ \E d \in Docs : SplitAtOnce(c, d) \/ SplitInserts(c, d)
         \/ \E id \in Ids, n \in 1 .. Len(versions) : RollbackFinds(c, id, n)
         \/ RollbackRestores(c) \/ Lists(c) \/ Numbers(c) \/ Commits(c)
    \/ Restart

Spec == Init /\ [][Next]_vars

----------------------------------------------------------------------------
Numbered(id) == {versions[i].n : i \in {k \in DOMAIN versions : versions[k].id = id}}

Comm == [title: {"derived", "by hand"}, level: {1, 2}, members: SUBSET Docs, manual: BOOLEAN]
Request == [op: {"none", "patch", "merge", "split", "rollback"},
            pc: {"idle", "mark", "write", "flush", "merging", "list", "restore", "number", "commit"},
            id: Ids \cup {"none"}, other: Ids \cup {"none"},
            edits: {<< >>, <<"title">>, <<"level">>, <<"title", "level">>}, ok: BOOLEAN,
            snap: Comm \cup {Absent}, read: Comm \cup {Absent}, n: Nat]
InPlace(q) ==
    /\ q = Idle <=> q.pc = "idle"
    /\ q.pc # "idle" => q.id \in Ids
    /\ q.pc \notin {"idle", "list"} => q.snap # Absent
    /\ q.pc \in {"mark", "write", "flush"} => q.edits # << >>
    /\ q.pc = "merging" => q.other \in Ids \ {q.id}

(* Types; a snapshot is of a community that was there. *)
CurationTypeOK ==
    /\ backend \in Backends
    /\ comms \in [Ids -> Comm \cup {Absent}]
    /\ versions \in Seq([id: Ids, n: Nat, snap: Comm])
    /\ call \in [Curators -> Request] /\ \A c \in Curators : InPlace(call[c])
    /\ overtaken \subseteq Ids
    /\ calls \in Nat /\ restarts \in Nat

(* Automatic derivation never overwrites what a curator made of a community *)
(* on durable stores, not even what a call cut short had written, nor what  *)
(* a rollback brought back (the manual mark of in_memory_community_store);  *)
(* only a rollback amid an edit of the same community may remove the mark.  *)
HandEditsKept ==
    [][restarts' # restarts /\ backend = "pg" =>
        \A id \in Ids \ overtaken : Handmade(id) => comms'[id] = comms[id]]_vars

(* The history of a community has no holes: its versions are 1, 2, 3, ...,  *)
(* however many calls number them at the same time.                         *)
VersionsGapless == \A id \in Ids : \E k \in 0 .. Len(versions) : Numbered(id) = 1 .. k

(* A merge undoes nothing that others did to its target meanwhile.          *)
MergeKeepsEdits ==
    [][\A c \in Curators : MergeStep(c) => \A id \in Ids :
        comms[id] # Absent /\ comms'[id] # Absent =>
            /\ comms'[id].title = comms[id].title
            /\ comms[id].level <= comms'[id].level
            /\ comms[id].members \subseteq comms'[id].members]_vars

(* P4-git-collab.md: any version can be rolled back to.  The row a rollback *)
(* asks for by number is the only one of that number.                       *)
AnyVersionRestorable == \A i \in DOMAIN versions : Rows(versions[i].id, versions[i].n) = {i}

----------------------------------------------------------------------------
(* What the steps of a call may rely on: an inductive invariant.            *)

(* A merge has its target for itself, as it read it.                        *)
LocksHold ==
    \A c \in Curators : call[c].pc = "merging" =>
        /\ backend = "pg" /\ comms[call[c].id] = call[c].snap
        /\ \A b \in Curators \ {c} : call[b].pc = "merging" => call[b].id # call[c].id

(* On durable stores what is not as derived bears the manual mark: in the   *)
(* store, in every version and in the snapshot of every call; and the mark  *)
(* stands before the second transaction of an edit.                         *)
Genuine(id, rec) == rec = Absent \/ rec.manual \/ rec = Derived(id)
EditsMarked ==
    backend = "pg" =>
        /\ \A id \in Docs \ overtaken : Genuine(id, comms[id])
        /\ \A i \in DOMAIN versions : versions[i].id \in Docs \ overtaken =>
              Genuine(versions[i].id, versions[i].snap)
        /\ \A c \in Curators : call[c].id \in Docs \ overtaken => Genuine(call[c].id, call[c].snap)
        /\ \A c \in Curators : call[c].pc \in {"write", "flush"} /\ call[c].id \notin overtaken =>
              comms[call[c].id] = Absent \/ comms[call[c].id].manual

(* A number a call is about to commit leaves no hole behind it.             *)
NumbersFollow ==
    \A c \in Curators : call[c].pc = "commit" =>
        /\ call[c].n > 0
        /\ call[c].n > 1 => call[c].n - 1 \in Numbered(call[c].id)

CurationIInv == CurationTypeOK /\ VersionsGapless /\ LocksHold /\ EditsMarked /\ NumbersFollow
=============================================================================
