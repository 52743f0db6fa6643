-------------------------- MODULE ContributionService --------------------------
(***************************************************************************)
(* Contribution requests (collab/service.py) under concurrent API and CLI  *)
(* calls.  A call is a request with an ORM session of its own.  Submit,    *)
(* merge, the diff view and the alignment review first read the row with   *)
(* a plain session.get; every status change then selects it FOR UPDATE,    *)
(* which does not refresh an object the session already holds, checks the  *)
(* status it sees, and flushes UPDATE ... WHERE version = <version seen>.  *)
(* A flush that matches no row raises StaleDataError and the call rolls    *)
(* back.  The status change and its audit entry commit together.           *)
(*                                                                         *)
(* RowLocks is TRUE for PostgreSQL and FALSE for SQLite, where FOR UPDATE  *)
(* is ignored.  The stores a merge writes are in ContributionMerge.        *)
(***************************************************************************)
EXTENDS Naturals, Sequences

CONSTANTS
    Users, Contributions, Requests,
    Libraries,      \* the project and team libraries
    Rank,           \* 1 for a project library, 2 for a team library
    Members,        \* who belongs to each library's project or team
    Assignable,     \* the members _find_approvers finds for each library
    PushUsers, ApproveUsers,   \* who holds the push, the approve permission
    Pairs,          \* the entity pairs an alignment review may be asked to settle
    Operations,     \* the operations some caller exposes
    RowLocks,
    MaxVersion,     \* bound on the writes of one contribution
    None

Transitions == {"submit", "approve", "reject", "reopen", "merge", "close"}
Settlements == {"alignment_approved", "alignment_rejected"}
Writes == Transitions \cup Settlements \cup {"manifest"}

ASSUME ServiceAssumption ==
    /\ None \notin Users \cup Contributions \cup Libraries \cup Pairs
    /\ Members \in [Libraries -> SUBSET Users]
    /\ Assignable \in [Libraries -> SUBSET Users]
    /\ Rank \in [Libraries -> {1, 2}]
    /\ PushUsers \subseteq Users
    /\ ApproveUsers \subseteq Users
    /\ Operations \subseteq Writes
    /\ RowLocks \in BOOLEAN
    /\ MaxVersion \in Nat

VARIABLES
    row,    \* the contributions table
    audit,  \* per contribution, the committed audit_logs entries about it
    req     \* the calls in flight

vars == <<row, audit, req>>

(* The arguments each operation passes to _transition. *)
From == [submit |-> {"draft"}, approve |-> {"submitted"}, reject |-> {"submitted"},
         reopen |-> {"rejected"}, merge |-> {"approved"}, close |-> {"draft", "submitted"}]
(* Mutants of To: a rejection names no status; it sends back to draft. *)
ToNowhere == [submit |-> "submitted", approve |-> "approved", reject |-> "refused",
              reopen |-> "submitted", merge |-> "merged", close |-> "closed"]
ToDraft == [submit |-> "submitted", approve |-> "approved", reject |-> "draft",
            reopen |-> "submitted", merge |-> "merged", close |-> "closed"]
To == [submit |-> "submitted", approve |-> "approved", reject |-> "rejected",
       reopen |-> "submitted", merge |-> "merged", close |-> "closed"]
SelfReviewBlocked == {"approve", "reject", "merge"}

NoPairs == [p \in Pairs |-> "none"]
NoRow == [status |-> "absent", version |-> 0, author |-> None, library |-> None,
          assignee |-> None, reviewer |-> None, manifest |-> FALSE, pairs |-> NoPairs]
Idle == [pc |-> "idle", op |-> "none", c |-> None, user |-> None, pair |-> None, seen |-> NoRow]

Init ==
    /\ row = [c \in Contributions |-> NoRow]
    /\ audit = [c \in Contributions |-> << >>]
    /\ req = [r \in Requests |-> Idle]

(* require_permission in the handlers; reopen, close and the diff view ask for none. *)
Permitted(op) ==
    IF op = "submit" THEN PushUsers
    ELSE IF op \in SelfReviewBlocked \cup Settlements THEN ApproveUsers ELSE Users

(* ContributionService._visible *)
Visible(u, obj) ==
    \/ obj.author = u
    \/ u \in ApproveUsers /\ obj.library \in Libraries /\ u \in Members[obj.library]

(* The assignee submit picks; the query orders by id, so it is the same one every time. *)
FirstApprover(lib) ==
    IF Assignable[lib] = {} THEN None ELSE CHOOSE u \in Assignable[lib] : TRUE

(* Mutant: the lock is taken by the first read, and waits for itself. *)
UnlockedByReaders(c) == RowLocks => \A q \in Requests : ~(req[q].pc # "idle" /\ req[q].c = c)

(* The FOR UPDATE lock of c is held from the select to the end of the transaction. *)
Unlocked(c) ==
    RowLocks => \A q \in Requests : ~(req[q].pc = "selected" /\ req[q].c = c)

Create(u, c, lib) ==
    /\ u \in PushUsers
    /\ row[c].status = "absent"
    /\ \E source \in 0 .. 2 : Rank[lib] > source
    /\ row' = [row EXCEPT ![c] = [NoRow EXCEPT !.status = "draft", !.version = 1,
                                               !.author = u, !.library = lib]]
    /\ audit' = [audit EXCEPT ![c] = <<[action |-> "create", user |-> u]>>]
    /\ UNCHANGED req

(* Mutant: merge moves content before anything checks the status. *)
AdmissibleUnapproved(op, u, obj, p) ==
    \/ op \in {"submit", "merge"}
    \/ op = "manifest" /\ Visible(u, obj) /\ ~obj.manifest
    \/ /\ op \in Settlements
       /\ Visible(u, obj) /\ obj.author # u /\ obj.status # "merged"
       /\ p \in Pairs /\ obj.pairs[p] = "pending"

(* What a handler checks on the object session.get returned before it goes on. *)
Admissible(op, u, obj, p) ==
    \/ op = "submit"
    \/ op = "merge" /\ Visible(u, obj) /\ obj.status = "approved" /\ obj.author # u
    \/ op = "manifest" /\ Visible(u, obj) /\ ~obj.manifest
    \/ /\ op \in Settlements
       /\ Visible(u, obj) /\ obj.author # u
       /\ obj.status # "merged"
       /\ p \in Pairs /\ obj.pairs[p] = "pending"

(* The plain read of submit, merge, diff and alignment review. *)
Load(r, op, u, c, p) ==
    /\ req[r].pc = "idle"
    /\ op \in Operations /\ u \in Permitted(op)
    /\ row[c].status # "absent"
    /\ row[c].version < MaxVersion
    /\ p # None <=> op \in Settlements
    /\ Admissible(op, u, row[c], p)
    /\ req' = [req EXCEPT ![r] = [pc |-> "loaded", op |-> op, c |-> c, user |-> u,
                                  pair |-> p, seen |-> row[c]]]
    /\ UNCHANGED <<row, audit>>

(* Mutant: only merging one's own contribution is blocked. *)
AcceptsOwnReview(op, u, obj) ==
    /\ op = "merge" => obj.author # u
    /\ obj.status \in From[op]

(* The checks of _transition on the object the session holds. *)
Accepts(op, u, obj) ==
    /\ op \in SelfReviewBlocked => obj.author # u
    /\ obj.status \in From[op]

(* _transition called on a fresh session: the select reads the committed row. *)
Select(r, op, u, c) ==
    /\ req[r].pc = "idle"
    /\ op \in Operations \cap {"approve", "reject", "reopen", "close"}
    /\ u \in Permitted(op)
    /\ row[c].version < MaxVersion
    /\ Unlocked(c)
    /\ Accepts(op, u, row[c])
    /\ req' = [req EXCEPT ![r] = [pc |-> "selected", op |-> op, c |-> c, user |-> u,
                                  pair |-> None, seen |-> row[c]]]
    /\ UNCHANGED <<row, audit>>

(* _transition after a plain read: the lock is taken, the object stays as it was read. *)
Reselect(r) ==
    /\ req[r].pc = "loaded" /\ req[r].op \in {"submit", "merge"}
    /\ Unlocked(req[r].c)
    /\ req' = [req EXCEPT ![r] = IF Accepts(@.op, @.user, @.seen)
                                 THEN [@ EXCEPT !.pc = "selected"] ELSE Idle]
    /\ UNCHANGED <<row, audit>>

(* Mutant: no version_id_col, the UPDATE always matches. *)
AlwaysCurrent(r) == TRUE

(* UPDATE ... WHERE version = seen.version matches the row. *)
Current(r) == row[req[r].c].version = req[r].seen.version

(* Mutant: the version is not counted up. *)
WriteSameVersion(r, new) ==
    LET c == req[r].c IN
    /\ row' = [row EXCEPT ![c] = new]
    /\ audit' = [audit EXCEPT ![c] = Append(@, [action |-> req[r].op, user |-> req[r].user])]
    /\ req' = [req EXCEPT ![r] = Idle]

(* The update, its audit entry and the commit of one transaction. *)
Write(r, new) ==
    LET c == req[r].c IN
    /\ row' = [row EXCEPT ![c] = [new EXCEPT !.version = @ + 1]]
    /\ audit' = [audit EXCEPT ![c] = Append(@, [action |-> req[r].op, user |-> req[r].user])]
    /\ req' = [req EXCEPT ![r] = Idle]

(* Mutant: the one who merges overwrites the reviewer. *)
ChangedByMerger(old, op, user) ==
    [old EXCEPT
        !.status = To[op],
        !.assignee = IF op = "submit" /\ FirstApprover(old.library) # None
                     THEN FirstApprover(old.library) ELSE @,
        !.reviewer = IF op \in SelfReviewBlocked THEN user ELSE @]

(* The columns a status change sets. *)
Changed(old, op, user) ==
    [old EXCEPT
        !.status = To[op],
        !.assignee = IF op = "submit" /\ FirstApprover(old.library) # None
                     THEN FirstApprover(old.library) ELSE @,
        !.reviewer = IF op \in {"approve", "reject"} THEN user ELSE @]

Commit(r) ==
    /\ req[r].pc = "selected"
    /\ Current(r)
    /\ Write(r, Changed(row[req[r].c], req[r].op, req[r].user))

(* get_diff: build_manifest writes the whole manifest, review queue included. *)
BuildManifest(r) ==
    /\ req[r].pc = "loaded" /\ req[r].op = "manifest"
    /\ Unlocked(req[r].c) /\ Current(r)
    /\ \E queue \in SUBSET Pairs :
         Write(r, [row[req[r].c] EXCEPT
             !.manifest = TRUE,
             !.pairs = [p \in Pairs |-> IF p \in queue THEN "pending" ELSE "none"]])

(* _resolve_pair: the manifest is written back whole, from the object the session holds. *)
SettlePair(r) ==
    /\ req[r].pc = "loaded" /\ req[r].op \in Settlements
    /\ Unlocked(req[r].c) /\ Current(r)
    /\ Write(r, [row[req[r].c] EXCEPT
           !.pairs = [req[r].seen.pairs EXCEPT ![req[r].pair] =
                          IF req[r].op = "alignment_approved" THEN "approved" ELSE "rejected"]])

(* StaleDataError: the flush matches no row and the transaction is rolled back. *)
Stale(r) ==
    /\ \/ req[r].pc = "selected"
       \/ req[r].pc = "loaded" /\ req[r].op \in Settlements \cup {"manifest"} /\ Unlocked(req[r].c)
    /\ ~Current(r)
    /\ req' = [req EXCEPT ![r] = Idle]
    /\ UNCHANGED <<row, audit>>

(* The call dies before its commit: a database error, a cancellation, a crash. *)
Abort(r) ==
    /\ req[r].pc # "idle"
    /\ req' = [req EXCEPT ![r] = Idle]
    /\ UNCHANGED <<row, audit>>

Begin(r) == \E op \in Operations, u \in Users, c \in Contributions :
    \/ \E p \in Pairs \cup {None} : Load(r, op, u, c, p)
    \/ Select(r, op, u, c)

Proceed(r) == Reselect(r) \/ Commit(r) \/ BuildManifest(r) \/ SettlePair(r) \/ Stale(r)

Next ==
    \/ \E u \in Users, c \in Contributions, lib \in Libraries : Create(u, c, lib)
    \/ \E r \in Requests : Begin(r) \/ Proceed(r) \/ Abort(r)

Spec == Init /\ [][Next]_vars
-----------------------------------------------------------------------------
PairStatus == {"none", "pending", "approved", "rejected"}
Statuses == {"absent", "draft", "submitted", "approved", "rejected", "merged", "closed"}
Row == [status: Statuses, version: Nat, author: Users \cup {None},
        library: Libraries \cup {None}, assignee: Users \cup {None},
        reviewer: Users \cup {None}, manifest: BOOLEAN, pairs: [Pairs -> PairStatus]]
Entry == [action: Writes \cup {"create"}, user: Users]
Request == [pc: {"idle", "loaded", "selected"}, op: Writes \cup {"none"},
            c: Contributions \cup {None}, user: Users \cup {None},
            pair: Pairs \cup {None}, seen: Row]

(* Every variable keeps its type. *)
TypeOK ==
    /\ row \in [Contributions -> Row]
    /\ audit \in [Contributions -> Seq(Entry)]
    /\ req \in [Requests -> Request]

(* The version number identifies the row: a call whose version still matches   *)
(* has seen the row exactly as it is now, so a check it made still holds.      *)
VersionIdentifiesRow == \A r \in Requests :
    req[r].pc # "idle" /\ Current(r) => req[r].seen = row[req[r].c]

(* A call in flight has read some earlier or present version of an existing    *)
(* row, and has passed the checks of its handler on what it read.              *)
CallsChecked == \A r \in Requests : LET q == req[r] IN q.pc # "idle" =>
    /\ q.c \in Contributions /\ q.user \in Users
    /\ q.seen.status # "absent" /\ row[q.c].status # "absent"
    /\ q.seen.version <= row[q.c].version
    /\ q.pc = "selected" => q.op \in Transitions /\ Accepts(q.op, q.user, q.seen)
    /\ q.pc = "loaded" => q.op \in {"submit", "merge", "manifest"} \cup Settlements
    /\ q.op \in Settlements => /\ q.pair \in Pairs /\ q.seen.author # q.user
                               /\ q.seen.pairs[q.pair] = "pending"
    /\ q.op = "manifest" => ~q.seen.manifest

(* A contribution that does not exist has neither content nor history; one     *)
(* that does has an author and a target library.                               *)
Existence == \A c \in Contributions :
    IF row[c].status = "absent" THEN row[c] = NoRow /\ audit[c] = << >>
    ELSE row[c].author \in Users /\ row[c].library \in Libraries

(* The review queue is part of the manifest.                                   *)
QueueInManifest == \A c \in Contributions : ~row[c].manifest => row[c].pairs = NoPairs

(* The history h of the row o holds its reviewer's approval, by someone other  *)
(* than its author, and later are the status changes that came after it.       *)
ApprovedThen(later, o, h) ==
    /\ o.reviewer # o.author
    /\ \E i \in DOMAIN h :
         /\ h[i] = [action |-> "approve", user |-> o.reviewer]
         /\ {h[k].action : k \in (i + 1) .. Len(h)} \cap Transitions = later

(* An approval stands on record, by its reviewer, as long as it is pending.    *)
ApprovalOnRecord == \A c \in Contributions :
    row[c].status = "approved" => ApprovedThen({}, row[c], audit[c])

(* Only a merged contribution has a merge on record.                           *)
MergeOnRecord == \A c \in Contributions : \A i \in DOMAIN audit[c] :
    audit[c][i].action = "merge" => row[c].status = "merged"

(* Nobody approves, rejects or merges their own contribution or settles its    *)
(* alignment pairs, whatever the row looked like when they began.              *)
NoSelfReview == \A c \in Contributions : \A i \in DOMAIN audit[c] :
    audit[c][i].action \in SelfReviewBlocked \cup Settlements
        => audit[c][i].user # row[c].author

(* Every committed write of a contribution left exactly one audit entry.       *)
OneEntryPerWrite == \A c \in Contributions : row[c].version = Len(audit[c])

(* The log holds one entry for every write, and among them no review of one's  *)
(* own contribution: nobody approves, rejects, merges or settles what they     *)
(* wrote themselves, and no write escapes the log that says so.                *)
ReviewedByOthers == OneEntryPerWrite /\ NoSelfReview

(* A merged contribution was merged on its reviewer's approval: that approval, *)
(* by someone other than its author, is the last status change before it.      *)
MergedAfterApproval == \A c \in Contributions :
    row[c].status = "merged" => ApprovedThen({"merge"}, row[c], audit[c])

(* At most one merge of a contribution ever commits (a double click on merge). *)
MergedOnce == \A c \in Contributions : \A i, j \in DOMAIN audit[c] :
    audit[c][i].action = "merge" /\ audit[c][j].action = "merge" => i = j

(* What is merged was merged once, and on the approval of someone else, even   *)
(* when both reviewers act at once on what they had read before.               *)
ApprovedMerges == MergedAfterApproval /\ MergedOnce

(* What every step preserves, and from which the rest follows.                 *)
IInv ==
    /\ TypeOK /\ CallsChecked /\ VersionIdentifiesRow /\ Existence /\ QueueInManifest
    /\ NoSelfReview /\ OneEntryPerWrite
    /\ ApprovalOnRecord /\ MergeOnRecord /\ MergedOnce /\ MergedAfterApproval

(* A pair once settled keeps its verdict, whoever else writes the manifest.    *)
VerdictsStand == [][\A c \in Contributions, p \in Pairs :
    row[c].pairs[p] \in {"approved", "rejected"} => row'[c].pairs[p] = row[c].pairs[p]]_vars

(* The row, seen through its status, its author and its reviewer, follows the  *)
(* promised workflow: ContributionService implements ContributionLifecycle.    *)
Lifecycle == INSTANCE ContributionLifecycle WITH
    ticket <- [c \in Contributions |->
                 [status |-> row[c].status, author |-> row[c].author,
                  reviewer |-> row[c].reviewer]]
LifecycleSpec == Lifecycle!Spec
=============================================================================
