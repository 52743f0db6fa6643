---------------------- MODULE ContributionService_proofs ----------------------
(***************************************************************************)
(* Proofs about ContributionService for any users, libraries, contribution *)
(* requests and calls in flight, with and without row locks.  The argument *)
(* is optimistic locking: versions only grow, so a call whose version      *)
(* still matches has seen the present row (VersionIdentifiesRow), and the  *)
(* checks it made on what it saw hold of the row it overwrites.            *)
(***************************************************************************)
EXTENDS ContributionService, TLAPS

USE ServiceAssumption

(* A call that writes overwrites exactly the row it has seen. *)
LEMMA WriterSawRow ==
    ASSUME VersionIdentifiesRow, NEW r \in Requests, req[r].pc # "idle", Current(r)
    PROVE  req[r].seen = row[req[r].c]
  BY DEF VersionIdentifiesRow

(* The assignee submit picks is one of the users, or nobody.                 *)
LEMMA FirstApproverType ==
    ASSUME NEW lib \in Libraries
    PROVE  FirstApprover(lib) \in Users \cup {None}
  <1>1. CASE Assignable[lib] = {}
    BY <1>1 DEF FirstApprover
  <1>2. CASE Assignable[lib] # {}
    <2>1. PICK u : u \in Assignable[lib]
      BY <1>2
    <2>2. (CHOOSE v \in Assignable[lib] : TRUE) \in Assignable[lib]
      BY <2>1
    <2> QED BY <1>2, <2>2 DEF FirstApprover
  <1> QED BY <1>1, <1>2

(* The values rows and calls start from have their types.                    *)
LEMMA BlankTypes == NoRow \in Row /\ Idle \in Request
  BY DEF NoRow, NoPairs, Row, Idle, Request, Statuses, PairStatus

(* The common part of the actions that commit: Commit, BuildManifest, SettlePair. *)
LEMMA WriteType ==
    ASSUME TypeOK, CallsChecked, NEW r \in Requests, req[r].pc # "idle", req[r].op \in Writes,
           NEW new \in Row, Write(r, new)
    PROVE  TypeOK'
  <1>1. req[r].c \in Contributions /\ req[r].user \in Users
    BY DEF CallsChecked
  <1>2. [new EXCEPT !.version = @ + 1] \in Row
    BY DEF Row
  <1>3. row' \in [Contributions -> Row]
    BY <1>1, <1>2 DEF Write, TypeOK
  <1>4. [action |-> req[r].op, user |-> req[r].user] \in Entry
    BY <1>1 DEF Entry
  <1>5. audit' \in [Contributions -> Seq(Entry)]
    BY <1>1, <1>4 DEF Write, TypeOK
  <1>6. req' \in [Requests -> Request]
    BY BlankTypes DEF Write, TypeOK
  <1> QED BY <1>3, <1>5, <1>6 DEF TypeOK

(* A status change of a row that exists yields a row that exists.            *)
LEMMA ChangedType ==
    ASSUME TypeOK, CallsChecked, Existence, NEW r \in Requests, Commit(r)
    PROVE  /\ req[r].pc = "selected" /\ req[r].op \in Transitions
           /\ Changed(row[req[r].c], req[r].op, req[r].user) \in Row /\ Write(r, Changed(row[req[r].c], req[r].op, req[r].user)) /\ Current(r)
  <1>1. /\ req[r].pc = "selected" /\ req[r].op \in Transitions
        /\ req[r].c \in Contributions /\ req[r].user \in Users
        /\ row[req[r].c] \in Row
    BY DEF CallsChecked, Commit, TypeOK
  <1>2. row[req[r].c].library \in Libraries
    BY <1>1 DEF Existence, CallsChecked
  <1>3. FirstApprover(row[req[r].c].library) \in Users \cup {None}
    BY <1>2, FirstApproverType
  <1>4. To[req[r].op] \in Statuses
    BY <1>1 DEF To, Transitions, Statuses
  <1>5. Changed(row[req[r].c], req[r].op, req[r].user) \in Row
    BY <1>1, <1>3, <1>4 DEF Changed, Row
  <1> QED BY <1>1, <1>5 DEF Commit

(* Every step keeps the types, given what the calls in flight have checked.  *)
LEMMA TypeStep == TypeOK /\ CallsChecked /\ Existence /\ [Next]_vars => TypeOK'
  <1> SUFFICES ASSUME TypeOK, CallsChecked, Existence, [Next]_vars PROVE TypeOK'
    OBVIOUS
  <1>1. ASSUME NEW u \in Users, NEW c \in Contributions, NEW lib \in Libraries, Create(u, c, lib)
        PROVE TypeOK'
    <2>1. [NoRow EXCEPT !.status = "draft", !.version = 1, !.author = u, !.library = lib] \in Row
      BY BlankTypes DEF Row, Statuses
    <2>2. <<[action |-> "create", user |-> u]>> \in Seq(Entry)
      BY DEF Entry
    <2> QED BY <1>1, <2>1, <2>2 DEF Create, TypeOK
  <1>2. ASSUME NEW r \in Requests, NEW op \in Operations, NEW u \in Users,
               NEW c \in Contributions, NEW p \in Pairs \cup {None}, Load(r, op, u, c, p)
        PROVE TypeOK'
    BY <1>2 DEF Load, Request, TypeOK
  <1>3. ASSUME NEW r \in Requests, NEW op \in Operations, NEW u \in Users,
               NEW c \in Contributions, Select(r, op, u, c)
        PROVE TypeOK'
    BY <1>3 DEF Select, Request, TypeOK
  <1>4. ASSUME NEW r \in Requests, Reselect(r) PROVE TypeOK'
    <2>1. /\ req' = [req EXCEPT ![r] = IF Accepts(@.op, @.user, @.seen)
                                       THEN [@ EXCEPT !.pc = "selected"] ELSE Idle]
          /\ row' = row /\ audit' = audit
      BY <1>4 DEF Reselect
    <2>2. req \in [Requests -> Request] /\ Idle \in Request
      BY BlankTypes DEF TypeOK
    <2>3. [req[r] EXCEPT !.pc = "selected"] \in Request
      BY ONLY <2>2, r \in Requests DEF Request
    <2>4. req' \in [Requests -> Request]
      BY ONLY <2>1, <2>2, <2>3
    <2> QED BY <2>1, <2>4 DEF TypeOK
  <1>5. ASSUME NEW r \in Requests, Commit(r) PROVE TypeOK'
    BY <1>5, ChangedType, WriteType DEF Writes
  <1>6. ASSUME NEW r \in Requests, BuildManifest(r) PROVE TypeOK'
    <2>1. PICK queue \in SUBSET Pairs : Write(r, [row[req[r].c] EXCEPT
             !.manifest = TRUE,
             !.pairs = [p \in Pairs |-> IF p \in queue THEN "pending" ELSE "none"]])
      BY <1>6 DEF BuildManifest
    <2>2. req[r].pc # "idle" /\ req[r].op \in Writes /\ row[req[r].c] \in Row
      BY <1>6 DEF BuildManifest, Writes, CallsChecked, TypeOK
    <2>3. [row[req[r].c] EXCEPT !.manifest = TRUE,
             !.pairs = [p \in Pairs |-> IF p \in queue THEN "pending" ELSE "none"]] \in Row
      BY <2>2 DEF Row, PairStatus
    <2> QED BY <2>1, <2>2, <2>3, WriteType
  <1>7. ASSUME NEW r \in Requests, SettlePair(r) PROVE TypeOK'
    <2>1. /\ req[r].pc # "idle" /\ req[r].op \in Writes
          /\ row[req[r].c] \in Row /\ req[r].seen \in Row
      BY <1>7 DEF SettlePair, Writes, CallsChecked, TypeOK, Request
    <2>2. [row[req[r].c] EXCEPT
             !.pairs = [req[r].seen.pairs EXCEPT ![req[r].pair] =
                 IF req[r].op = "alignment_approved" THEN "approved" ELSE "rejected"]] \in Row
      BY <2>1 DEF Row, PairStatus
    <2> QED BY <1>7, <2>1, <2>2, WriteType DEF SettlePair
  <1>8. ASSUME NEW r \in Requests, Stale(r) \/ Abort(r) PROVE TypeOK'
    BY <1>8, BlankTypes DEF Stale, Abort, TypeOK
  <1>9. CASE UNCHANGED vars
    BY <1>9 DEF vars, TypeOK
  <1> QED
    BY <1>1, <1>2, <1>3, <1>4, <1>5, <1>6, <1>7, <1>8, <1>9 DEF Next, Begin, Proceed

-----------------------------------------------------------------------------
(* A committed write of the call r: it has seen the row it replaces by new,  *)
(* and either changes the status along an edge it checked or leaves status,  *)
(* author and reviewer alone; it keeps the pairs and the verdicts of the     *)
(* review queue.                                                             *)
ChecksHold(r, new) ==
    LET q == req[r]
        old == row[q.c]
    IN  /\ q.pc # "idle" /\ q.c \in Contributions /\ q.user \in Users /\ q.op \in Writes
        /\ old.status # "absent" /\ q.seen = old
        /\ new.author = old.author /\ new.library = old.library /\ new.version = old.version
        /\ \/ /\ q.op \in Transitions /\ Accepts(q.op, q.user, old)
              /\ new.status = To[q.op]
              /\ new.reviewer = IF q.op \in {"approve", "reject"} THEN q.user ELSE old.reviewer
           \/ /\ q.op \in Settlements \cup {"manifest"}
              /\ q.op \in Settlements => old.author # q.user
              /\ new.status = old.status /\ new.reviewer = old.reviewer
        /\ ~new.manifest => new.pairs = NoPairs
        /\ \A p \in Pairs : old.pairs[p] \in {"approved", "rejected"} => new.pairs[p] = old.pairs[p]
        /\ \A p \in Pairs : old.pairs[p] # "none" => new.pairs[p] # "none"

(* The three actions that commit overwrite what their caller has seen. *)
LEMMA CommitsWrite ==
    ASSUME IInv, NEW r \in Requests, Commit(r) \/ BuildManifest(r) \/ SettlePair(r)
    PROVE  \E new \in Row : ChecksHold(r, new) /\ Write(r, new)
  <1> USE DEF IInv
  <1>1. CASE Commit(r)
    <2> DEFINE new == Changed(row[req[r].c], req[r].op, req[r].user)
    <2>1. /\ req[r].pc = "selected" /\ req[r].op \in Transitions
          /\ new \in Row /\ Write(r, new) /\ Current(r)
      BY <1>1, ChangedType
    <2>2. req[r].seen = row[req[r].c]
      BY <2>1, WriterSawRow
    <2>3. /\ req[r].c \in Contributions /\ req[r].user \in Users
          /\ row[req[r].c].status # "absent"
          /\ Accepts(req[r].op, req[r].user, row[req[r].c])
      BY <2>1, <2>2 DEF CallsChecked
    <2>4. row[req[r].c] \in Row
      BY <2>3 DEF TypeOK
    <2>5. new.manifest = row[req[r].c].manifest /\ new.pairs = row[req[r].c].pairs
      BY <2>4 DEF Changed, Row
    <2>6. ChecksHold(r, new)
      BY <2>1, <2>2, <2>3, <2>4, <2>5 DEF ChecksHold, Changed, Row, Writes, QueueInManifest
    <2> QED BY <2>1, <2>6
  <1>2. CASE BuildManifest(r) \/ SettlePair(r)
    <2>1. /\ req[r].pc = "loaded" /\ Current(r) /\ req[r].op \in Settlements \cup {"manifest"}
      BY <1>2 DEF BuildManifest, SettlePair
    <2>2. req[r].seen = row[req[r].c]
      BY <2>1, WriterSawRow
    <2>3. /\ req[r].c \in Contributions /\ req[r].user \in Users
          /\ row[req[r].c].status # "absent"
          /\ req[r].op \in Settlements => row[req[r].c].author # req[r].user
      BY <2>1, <2>2 DEF CallsChecked
    <2>4. row[req[r].c] \in Row /\ req[r].seen \in Row
      BY <2>3 DEF TypeOK, Request
    <2>5. ASSUME NEW flag \in BOOLEAN, NEW f \in [Pairs -> PairStatus],
                 ~flag => f = NoPairs,
                 \A p \in Pairs : row[req[r].c].pairs[p] \in {"approved", "rejected"}
                                   => f[p] = row[req[r].c].pairs[p],
                 \A p \in Pairs : row[req[r].c].pairs[p] # "none" => f[p] # "none",
                 Write(r, [row[req[r].c] EXCEPT !.manifest = flag, !.pairs = f])
          PROVE \E new \in Row : ChecksHold(r, new) /\ Write(r, new)
      <3> DEFINE new == [row[req[r].c] EXCEPT !.manifest = flag, !.pairs = f]
      <3>1. new \in Row
        BY <2>4 DEF Row
      <3>2. ChecksHold(r, new)
        BY <2>1, <2>2, <2>3, <2>4, <2>5 DEF ChecksHold, Writes, Row
      <3> QED BY <3>1, <3>2, <2>5
    <2>6. CASE BuildManifest(r)
      <3>1. PICK queue \in SUBSET Pairs : Write(r, [row[req[r].c] EXCEPT
             !.manifest = TRUE,
             !.pairs = [p \in Pairs |-> IF p \in queue THEN "pending" ELSE "none"]])
        BY <2>6 DEF BuildManifest
      <3>2. [p \in Pairs |-> IF p \in queue THEN "pending" ELSE "none"] \in [Pairs -> PairStatus]
        BY DEF PairStatus
      <3>3. row[req[r].c].pairs = NoPairs
        BY <2>2, <2>3, <2>6 DEF BuildManifest, CallsChecked, QueueInManifest
      <3>4. \A p \in Pairs : row[req[r].c].pairs[p] = "none"
        BY <3>3 DEF NoPairs
      <3> QED BY <3>1, <3>2, <3>4, <2>5
    <2>7. CASE SettlePair(r)
      <3> DEFINE f == [req[r].seen.pairs EXCEPT ![req[r].pair] =
                          IF req[r].op = "alignment_approved" THEN "approved" ELSE "rejected"]
      <3>1. f \in [Pairs -> PairStatus] /\ row[req[r].c].manifest \in BOOLEAN
        BY <2>4 DEF Row, PairStatus
      <3>2. [row[req[r].c] EXCEPT !.pairs = f]
              = [row[req[r].c] EXCEPT !.manifest = row[req[r].c].manifest, !.pairs = f]
        BY <2>4 DEF Row
      <3>3. Write(r, [row[req[r].c] EXCEPT !.pairs = f])
        BY <2>7 DEF SettlePair
      <3>4. row[req[r].c].pairs[req[r].pair] = "pending" /\ req[r].pair \in Pairs
        BY <2>2, <2>7 DEF SettlePair, CallsChecked
      <3>5. row[req[r].c].manifest
        BY <2>3, <3>4 DEF QueueInManifest, NoPairs
      <3>6. \A p \in Pairs : row[req[r].c].pairs[p] \in {"approved", "rejected"}
                             => f[p] = row[req[r].c].pairs[p]
        BY <2>2, <2>4, <3>4 DEF Row
      <3>7. \A p \in Pairs : row[req[r].c].pairs[p] # "none" => f[p] # "none"
        BY <2>2, <2>4, <3>4 DEF Row
      <3> QED BY <3>1, <3>2, <3>3, <3>5, <3>6, <3>7, <2>5
    <2> QED BY <1>2, <2>6, <2>7
  <1> QED BY <1>1, <1>2

(* The steps that do not commit leave the table and the audit log alone; the *)
(* others are a create or a committed write.                                 *)
LEMMA StepKinds ==
    ASSUME IInv, [Next]_vars
    PROVE  \/ UNCHANGED <<row, audit>>
           \/ \E u \in Users, c \in Contributions, lib \in Libraries : Create(u, c, lib)
           \/ \E r \in Requests : \E new \in Row : ChecksHold(r, new) /\ Write(r, new)
  BY CommitsWrite DEF Next, Begin, Proceed, Load, Select, Reselect, Stale, Abort, vars

(* What a committed write does to the row and the history it writes.         *)
LEMMA WriteEffect ==
    ASSUME TypeOK, NEW r \in Requests, NEW new \in Row, ChecksHold(r, new), Write(r, new)
    PROVE  LET c == req[r].c IN
           /\ row'[c] = [new EXCEPT !.version = row[c].version + 1]
           /\ \A d \in Contributions \ {c} : row'[d] = row[d] /\ audit'[d] = audit[d]
           /\ Len(audit[c]) \in Nat /\ Len(audit'[c]) = Len(audit[c]) + 1
           /\ DOMAIN audit[c] = 1 .. Len(audit[c])
           /\ DOMAIN audit'[c] = 1 .. (Len(audit[c]) + 1)
           /\ \A i \in 1 .. Len(audit[c]) : audit'[c][i] = audit[c][i]
           /\ audit'[c][Len(audit[c]) + 1] = [action |-> req[r].op, user |-> req[r].user]
  <1> DEFINE c == req[r].c
             e == [action |-> req[r].op, user |-> req[r].user]
  <1>1. c \in Contributions /\ row[c] \in Row /\ audit[c] \in Seq(Entry) /\ new.version = row[c].version
    BY DEF TypeOK, ChecksHold
  <1>2. e \in Entry
    BY DEF ChecksHold, Entry
  <1>3. /\ row' = [row EXCEPT ![c] = [new EXCEPT !.version = row[c].version + 1]]
        /\ audit' = [audit EXCEPT ![c] = Append(audit[c], e)]
    BY <1>1 DEF Write, Row
  <1>4. row'[c] = [new EXCEPT !.version = row[c].version + 1] /\ audit'[c] = Append(audit[c], e)
    BY <1>1, <1>3 DEF TypeOK
  <1>5. \A d \in Contributions \ {c} : row'[d] = row[d] /\ audit'[d] = audit[d]
    BY <1>1, <1>3 DEF TypeOK
  <1>6. /\ Len(Append(audit[c], e)) = Len(audit[c]) + 1 /\ Len(audit[c]) \in Nat
        /\ \A i \in 1 .. Len(audit[c]) : Append(audit[c], e)[i] = audit[c][i]
        /\ Append(audit[c], e)[Len(audit[c]) + 1] = e
        /\ DOMAIN audit[c] = 1 .. Len(audit[c])
        /\ DOMAIN Append(audit[c], e) = 1 .. (Len(audit[c]) + 1)
    BY <1>1, <1>2
  <1> QED BY <1>4, <1>5, <1>6

(* A create starts the history of a contribution that had none.              *)
LEMMA CreateEffect ==
    ASSUME TypeOK, NEW u \in Users, NEW c \in Contributions, NEW lib \in Libraries,
           Create(u, c, lib)
    PROVE  /\ row[c].status = "absent"
           /\ row'[c] = [NoRow EXCEPT !.status = "draft", !.version = 1,
                                      !.author = u, !.library = lib]
           /\ audit'[c] = <<[action |-> "create", user |-> u]>>
           /\ \A d \in Contributions \ {c} : row'[d] = row[d] /\ audit'[d] = audit[d]
           /\ req' = req
  BY DEF Create, TypeOK

(* The parts of the invariant that speak of the row and the history of one   *)
(* contribution, and not of the calls in flight.                             *)
Recorded ==
    /\ Existence /\ QueueInManifest /\ NoSelfReview /\ OneEntryPerWrite
    /\ ApprovalOnRecord /\ MergeOnRecord /\ MergedOnce /\ MergedAfterApproval

(* A create keeps everything that is known of rows and histories.            *)
LEMMA CreateKeepsRecord ==
    ASSUME TypeOK, Recorded, NEW u \in Users, NEW c \in Contributions, NEW lib \in Libraries,
           Create(u, c, lib)
    PROVE  Recorded'
  <1> DEFINE h == <<[action |-> "create", user |-> u]>>
  <1>1. /\ row'[c] = [NoRow EXCEPT !.status = "draft", !.version = 1, !.author = u, !.library = lib]
        /\ audit'[c] = h
        /\ \A d \in Contributions \ {c} : row'[d] = row[d] /\ audit'[d] = audit[d]
    <2>1. /\ row'[c] = [NoRow EXCEPT !.status = "draft", !.version = 1, !.author = u, !.library = lib]
          /\ \A d \in Contributions \ {c} : row'[d] = row[d] /\ audit'[d] = audit[d]
      BY CreateEffect
    <2>2. audit'[c] = h
      BY DEF Create, TypeOK
    <2> QED BY <2>1, <2>2
  <1>2. /\ row'[c].status = "draft" /\ row'[c].version = 1
        /\ row'[c].author = u /\ row'[c].library = lib
    BY <1>1 DEF NoRow
  <1>3. Len(h) = 1 /\ DOMAIN h = {1} /\ h[1].action = "create"
    OBVIOUS
  <1>4. Existence' /\ QueueInManifest'
    <2>1. row'[c].pairs = NoPairs
      BY <1>1 DEF NoRow
    <2> QED BY <1>1, <1>2, <2>1 DEF Recorded, Existence, QueueInManifest
  <1>5. NoSelfReview' /\ MergeOnRecord' /\ MergedOnce'
    BY <1>1, <1>3 DEF Recorded, NoSelfReview, MergeOnRecord, MergedOnce, SelfReviewBlocked, Settlements
  <1>6. OneEntryPerWrite'
    BY <1>1, <1>2, <1>3 DEF Recorded, OneEntryPerWrite
  <1>7. \A d \in Contributions : row'[d].status \in {"approved", "merged"} =>
           row'[d] = row[d] /\ audit'[d] = audit[d]
    BY <1>1, <1>2
  <1>8. ApprovalOnRecord'
    BY <1>7 DEF Recorded, ApprovalOnRecord
  <1>9. MergedAfterApproval'
    BY <1>7 DEF Recorded, MergedAfterApproval
  <1> QED BY <1>4, <1>5, <1>6, <1>8, <1>9 DEF Recorded

(* A history that a write extends by the entry e keeps the approval on its   *)
(* record; e joins the status changes after it if it is one.                 *)
LEMMA RecordGrows ==
    ASSUME NEW later, NEW o, NEW o2, NEW h, NEW h2, NEW e,
           ApprovedThen(later, o, h), Len(h) \in Nat,
           DOMAIN h = 1 .. Len(h), Len(h2) = Len(h) + 1, DOMAIN h2 = 1 .. (Len(h) + 1),
           \A i \in 1 .. Len(h) : h2[i] = h[i], h2[Len(h) + 1] = e,
           o2.reviewer = o.reviewer, o2.author = o.author
    PROVE  ApprovedThen(later \cup ({e.action} \cap Transitions), o2, h2)
  <1>1. PICK i \in 1 .. Len(h) :
           /\ h[i] = [action |-> "approve", user |-> o.reviewer]
           /\ {h[k].action : k \in (i + 1) .. Len(h)} \cap Transitions = later
    BY DEF ApprovedThen
  <1>2. (i + 1) .. Len(h2) = ((i + 1) .. Len(h)) \cup {Len(h) + 1}
    BY <1>1
  <1>3. {h2[k].action : k \in (i + 1) .. Len(h2)}
          = {h[k].action : k \in (i + 1) .. Len(h)} \cup {e.action}
    <2>1. i \in 1 .. Len(h) /\ \A k \in (i + 1) .. Len(h) : k \in 1 .. Len(h)
      OBVIOUS
    <2>2. \A k \in (i + 1) .. Len(h) : h2[k] = h[k]
      BY <2>1
    <2>3. {h2[k].action : k \in (i + 1) .. Len(h2)}
            = {h2[k].action : k \in (i + 1) .. Len(h)} \cup {h2[Len(h) + 1].action}
      BY ONLY <1>2
    <2>4. {h2[k].action : k \in (i + 1) .. Len(h)} = {h[k].action : k \in (i + 1) .. Len(h)}
      BY ONLY <2>2
    <2> QED BY ONLY <2>3, <2>4, h2[Len(h) + 1] = e
  <1>4. /\ i \in DOMAIN h2 /\ h2[i] = [action |-> "approve", user |-> o2.reviewer]
        /\ {h2[k].action : k \in (i + 1) .. Len(h2)} \cap Transitions
              = later \cup ({e.action} \cap Transitions)
    <2>1. /\ i \in DOMAIN h2 /\ i \in 1 .. Len(h)
      OBVIOUS
    <2>2. h2[i] = [action |-> "approve", user |-> o2.reviewer]
      BY <1>1, <2>1
    <2>3. PICK A, E : A = {h[k].action : k \in (i + 1) .. Len(h)} /\ E = {e.action}
      OBVIOUS
    <2>4. A \cap Transitions = later /\ {h2[k].action : k \in (i + 1) .. Len(h2)} = A \cup E
      BY ONLY <1>1, <1>3, <2>3
    <2>5. (A \cup E) \cap Transitions = later \cup (E \cap Transitions)
      BY ONLY <2>4
    <2> QED BY ONLY <2>1, <2>2, <2>3, <2>4, <2>5
  <1> QED BY <1>4 DEF ApprovedThen

(* So does a committed write, for each of the nine kinds of write.           *)
LEMMA WriteKeepsRecord ==
    ASSUME TypeOK, Recorded, NEW r \in Requests, NEW new \in Row,
           ChecksHold(r, new), Write(r, new)
    PROVE  Recorded'
  <1> DEFINE c == req[r].c
             n == Len(audit[c])
             e == [action |-> req[r].op, user |-> req[r].user]
  <1>1. c \in Contributions /\ req[r].user \in Users /\ req[r].op \in Writes
    BY DEF ChecksHold
  <1>2. /\ row'[c] = [new EXCEPT !.version = row[c].version + 1]
        /\ \A d \in Contributions \ {c} : row'[d] = row[d] /\ audit'[d] = audit[d]
        /\ n \in Nat /\ Len(audit'[c]) = n + 1
        /\ DOMAIN audit[c] = 1 .. n /\ DOMAIN audit'[c] = 1 .. (n + 1)
        /\ \A i \in 1 .. n : audit'[c][i] = audit[c][i]
        /\ audit'[c][n + 1] = e
    BY <1>1, WriteEffect
  <1>3. /\ row'[c].status = new.status /\ row'[c].reviewer = new.reviewer
        /\ row'[c].author = row[c].author /\ row'[c].library = row[c].library
        /\ row'[c].version = row[c].version + 1
    BY <1>2 DEF ChecksHold, Row
  <1>4. row[c].status # "absent" /\ new.status # "absent"
    BY DEF ChecksHold, To, Transitions
  <1>5. row[c].author \in Users /\ row[c].library \in Libraries
    BY <1>1, <1>4 DEF Recorded, Existence
  <1>6. /\ DOMAIN audit'[c] = DOMAIN audit[c] \cup {n + 1} /\ n + 1 \notin DOMAIN audit[c]
         /\ \A i \in DOMAIN audit[c] : audit'[c][i] = audit[c][i]
         /\ audit'[c][n + 1] = e
    <2>1. PICK m \in Nat : m = n
      BY <1>2
    <2>2. 1 .. (m + 1) = (1 .. m) \cup {m + 1} /\ m + 1 \notin 1 .. m
      BY ONLY m \in Nat
    <2> HIDE DEF n, c, e
    <2> QED BY ONLY <1>2, <2>1, <2>2
  <1>7. audit'[c][n + 1].action = req[r].op /\ audit'[c][n + 1].user = req[r].user
    <2>1. e.action = req[r].op /\ e.user = req[r].user
      OBVIOUS
    <2> QED BY <1>2, <2>1
  <1>8. Existence'
    <2>1. ASSUME NEW d \in Contributions \ {c}
          PROVE  IF row'[d].status = "absent" THEN row'[d] = NoRow /\ audit'[d] = << >>
                 ELSE row'[d].author \in Users /\ row'[d].library \in Libraries
      BY <1>2 DEF Recorded, Existence
    <2>2. row'[c].status # "absent" /\ row'[c].author \in Users /\ row'[c].library \in Libraries
      BY ONLY <1>3, <1>4, <1>5
    <2> HIDE DEF c, n, e
    <2> QED BY ONLY <2>1, <2>2 DEF Existence
  <1>9. QueueInManifest'
    <2>1. row'[c].manifest = new.manifest /\ row'[c].pairs = new.pairs
      BY <1>2 DEF Row
    <2>2. ~new.manifest => new.pairs = NoPairs
      BY DEF ChecksHold
    <2> QED BY <1>2, <2>1, <2>2 DEF Recorded, QueueInManifest
  <1>10. OneEntryPerWrite'
    BY <1>1, <1>2, <1>3 DEF Recorded, OneEntryPerWrite
  <1>11. NoSelfReview'
    <2>1. req[r].op \in SelfReviewBlocked \cup Settlements => req[r].user # row[c].author
      BY <1>1 DEF ChecksHold, Accepts, SelfReviewBlocked, Settlements, Transitions
    <2>2. ASSUME NEW i \in DOMAIN audit'[c],
                 audit'[c][i].action \in SelfReviewBlocked \cup Settlements
          PROVE  audit'[c][i].user # row'[c].author
      <3>1. CASE i = n + 1
        BY <1>3, <1>7, <2>1, <2>2, <3>1
      <3>2. CASE i \in DOMAIN audit[c]
        <4>1. audit'[c][i] = audit[c][i] /\ row'[c].author = row[c].author
          BY <1>3, <1>6, <3>2
        <4>2. audit[c][i].action \in SelfReviewBlocked \cup Settlements
          BY ONLY <2>2, <4>1
        <4> HIDE DEF c
        <4> QED BY <1>1, <3>2, <4>1, <4>2 DEF Recorded, NoSelfReview
      <3> QED BY <1>6, <3>1, <3>2
    <2>3. ASSUME NEW d \in Contributions \ {c}, NEW i \in DOMAIN audit'[d],
                 audit'[d][i].action \in SelfReviewBlocked \cup Settlements
          PROVE  audit'[d][i].user # row'[d].author
      BY <1>2, <2>3 DEF Recorded, NoSelfReview
    <2> SUFFICES ASSUME NEW d \in Contributions, NEW i \in DOMAIN audit'[d],
                        audit'[d][i].action \in SelfReviewBlocked \cup Settlements
                 PROVE  audit'[d][i].user # row'[d].author
      BY DEF NoSelfReview
    <2> QED BY <2>2, <2>3
  <1>12. Transitions \cap Settlements = {} /\ "manifest" \notin Transitions
    BY DEF Transitions, Settlements
  <1>13. req[r].op = "merge" => row[c].status = "approved" /\ new.status = "merged"
    BY <1>12 DEF ChecksHold, Accepts, From, To, Transitions, Settlements
  <1>14. row[c].status = "merged" => new.status = "merged" /\ req[r].op \notin Transitions
    BY <1>12 DEF ChecksHold, Accepts, From, To, Transitions, Settlements
  <1>15. MergeOnRecord'
    <2> SUFFICES ASSUME NEW d \in Contributions, NEW i \in DOMAIN audit'[d],
                        audit'[d][i].action = "merge"
                 PROVE  row'[d].status = "merged"
      BY DEF MergeOnRecord
    <2>1. CASE d # c
      BY <1>2, <2>1 DEF Recorded, MergeOnRecord
    <2>2. CASE d = c /\ i = n + 1
      <3>1. req[r].op = "merge"
        BY <1>7, <2>2
      <3> QED BY <1>3, <1>13, <2>2, <3>1
    <2>3. CASE d = c /\ i # n + 1
      <3>1. i \in DOMAIN audit[c] /\ audit[c][i].action = "merge"
        BY <1>6, <2>3
      <3> QED BY <1>1, <1>3, <1>14, <2>3, <3>1 DEF Recorded, MergeOnRecord
    <2> QED BY <2>1, <2>2, <2>3
  <1>16. MergedOnce'
    <2> SUFFICES ASSUME NEW d \in Contributions, NEW i \in DOMAIN audit'[d],
                        NEW j \in DOMAIN audit'[d], i # j,
                        audit'[d][i].action = "merge", audit'[d][j].action = "merge"
                 PROVE  FALSE
      BY DEF MergedOnce
    <2>1. CASE d # c
      BY <1>2, <2>1 DEF Recorded, MergedOnce
    <2>2. ASSUME d = c, NEW k \in DOMAIN audit'[c], k # n + 1, audit'[c][k].action = "merge"
          PROVE  k \in DOMAIN audit[c] /\ audit[c][k].action = "merge"
      BY <1>6, <2>2
    <2>3. CASE d = c /\ i # n + 1 /\ j # n + 1
      BY <1>1, <2>2, <2>3 DEF Recorded, MergedOnce
    <2>4. CASE d = c /\ (i = n + 1 \/ j = n + 1)
      <3>1. req[r].op = "merge"
        BY <1>6, <2>4
      <3>2. \E k \in DOMAIN audit[c] : audit[c][k].action = "merge"
        BY <2>2, <2>4
      <3> QED BY <1>1, <1>13, <3>1, <3>2 DEF Recorded, MergeOnRecord
    <2> QED BY <2>1, <2>3, <2>4
  <1>17. ASSUME NEW later, ApprovedThen(later, row[c], audit[c]), req[r].op # "approve",
                new.reviewer = row[c].reviewer
         PROVE  ApprovedThen(later \cup ({req[r].op} \cap Transitions), row'[c], audit'[c])
    <2>1. row'[c].reviewer = row[c].reviewer
      BY <1>3, <1>17
    <2>2. ApprovedThen(later \cup ({e.action} \cap Transitions), row'[c], audit'[c])
      BY <1>2, <1>3, <1>17, <2>1, RecordGrows
    <2> QED BY <2>2
  <1>18. row'[c].status = "approved" => ApprovedThen({}, row'[c], audit'[c])
    <2>1. CASE req[r].op = "approve"
      <3>1. /\ new.reviewer = req[r].user /\ req[r].user # row[c].author
        BY <2>1 DEF ChecksHold, Accepts, SelfReviewBlocked, Settlements
      <3>2. audit'[c][n + 1] = [action |-> "approve", user |-> row'[c].reviewer]
        BY <1>2, <1>3, <2>1, <3>1
      <3>3. ((n + 1) + 1) .. Len(audit'[c]) = {}
        BY <1>2
      <3>4. {audit'[c][k].action : k \in ((n + 1) + 1) .. Len(audit'[c])} \cap Transitions = {}
        BY <3>3
      <3> QED BY <1>3, <1>6, <3>1, <3>2, <3>4 DEF ApprovedThen
    <2>2. CASE req[r].op # "approve" /\ new.status = "approved"
      <3>1. /\ row[c].status = "approved" /\ new.reviewer = row[c].reviewer
            /\ {req[r].op} \cap Transitions = {}
        BY <1>12, <2>2 DEF ChecksHold, To, Transitions, Settlements
      <3>2. ApprovedThen({}, row[c], audit[c])
        BY <1>1, <3>1 DEF Recorded, ApprovalOnRecord
      <3> QED BY <1>17, <2>2, <3>1, <3>2
    <2> QED BY <1>3, <2>1, <2>2
  <1>19. row'[c].status = "merged" => ApprovedThen({"merge"}, row'[c], audit'[c])
    <2>1. CASE req[r].op = "merge"
      <3>1. /\ row[c].status = "approved" /\ new.reviewer = row[c].reviewer
            /\ {req[r].op} \cap Transitions = {"merge"}
        BY <1>13, <2>1 DEF ChecksHold, Transitions, Settlements
      <3>2. ApprovedThen({}, row[c], audit[c])
        BY <1>1, <3>1 DEF Recorded, ApprovalOnRecord
      <3> QED BY <1>17, <2>1, <3>1, <3>2
    <2>2. CASE req[r].op # "merge" /\ new.status = "merged"
      <3>1. /\ row[c].status = "merged" /\ new.reviewer = row[c].reviewer
            /\ req[r].op # "approve" /\ {req[r].op} \cap Transitions = {}
        BY <1>12, <2>2 DEF ChecksHold, To, Transitions, Settlements
      <3>2. ApprovedThen({"merge"}, row[c], audit[c])
        BY <1>1, <3>1 DEF Recorded, MergedAfterApproval
      <3> QED BY <1>17, <3>1, <3>2
    <2> QED BY <1>3, <2>1, <2>2
  <1>20. ApprovalOnRecord' /\ MergedAfterApproval'
    <2>1. ASSUME NEW d \in Contributions
          PROVE  /\ row'[d].status = "approved" => ApprovedThen({}, row'[d], audit'[d])
                 /\ row'[d].status = "merged" => ApprovedThen({"merge"}, row'[d], audit'[d])
      <3>1. CASE d = c
        BY <1>18, <1>19, <3>1
      <3>2. CASE d # c
        BY <1>2, <3>2 DEF Recorded, ApprovalOnRecord, MergedAfterApproval
      <3> QED BY <3>1, <3>2
    <2> QED BY <2>1 DEF ApprovalOnRecord, MergedAfterApproval
  <1> QED BY <1>8, <1>10, <1>11, <1>15, <1>16, <1>20, <1>9 DEF Recorded

-----------------------------------------------------------------------------
(* What CallsChecked and VersionIdentifiesRow say of one call q, when the    *)
(* row it is about is obj.                                                   *)
Sound(q, obj) ==
    /\ q.c \in Contributions /\ q.user \in Users
    /\ q.seen.status # "absent" /\ obj.status # "absent"
    /\ q.seen.version <= obj.version
    /\ q.pc = "selected" => q.op \in Transitions /\ Accepts(q.op, q.user, q.seen)
    /\ q.pc = "loaded" => q.op \in {"submit", "merge", "manifest"} \cup Settlements
    /\ q.op \in Settlements => /\ q.pair \in Pairs /\ q.seen.author # q.user
                               /\ q.seen.pairs[q.pair] = "pending"
    /\ q.op = "manifest" => ~q.seen.manifest
    /\ obj.version = q.seen.version => q.seen = obj

AllSound == \A r \in Requests : req[r].pc # "idle" => Sound(req[r], row[req[r].c])

(* What is known of the calls in flight, one call at a time.                 *)
LEMMA SoundCalls == CallsChecked /\ VersionIdentifiesRow <=> AllSound
  BY DEF CallsChecked, VersionIdentifiesRow, Current, Sound, AllSound

(* Calls that begin, wait, give up or die leave the table alone, and a call  *)
(* that goes on has just read the row or had passed its checks.              *)
LEMMA CallStep ==
    ASSUME IInv, NEW r \in Requests, Begin(r) \/ Reselect(r) \/ Stale(r) \/ Abort(r)
    PROVE  AllSound'
  <1>1. row' = row /\ \A q \in Requests \ {r} : req'[q] = req[q]
    BY DEF IInv, TypeOK, Begin, Load, Select, Reselect, Stale, Abort
  <1>2. \A q \in Requests : req[q].pc # "idle" => Sound(req[q], row[req[q].c])
    BY SoundCalls DEF AllSound, IInv
  <1>3. req'[r].pc # "idle" => Sound(req'[r], row[req'[r].c])
    <2>1. ASSUME NEW op \in Operations, NEW u \in Users, NEW c \in Contributions,
                 NEW p \in Pairs \cup {None}, Load(r, op, u, c, p)
          PROVE  Sound(req'[r], row[req'[r].c])
      <3>1. /\ req'[r] = [pc |-> "loaded", op |-> op, c |-> c, user |-> u, pair |-> p,
                          seen |-> row[c]]
            /\ row[c].status # "absent" /\ row[c].version \in Nat
            /\ op \in {"submit", "merge", "manifest"} \cup Settlements
            /\ op \in Settlements => p \in Pairs /\ row[c].author # u /\ row[c].pairs[p] = "pending"
            /\ op = "manifest" => ~row[c].manifest
        BY <2>1 DEF Load, Admissible, IInv, TypeOK, Row, Settlements
      <3> QED BY <3>1 DEF Sound
    <2>2. ASSUME NEW op \in Operations, NEW u \in Users, NEW c \in Contributions,
                 Select(r, op, u, c)
          PROVE  Sound(req'[r], row[req'[r].c])
      <3>1. /\ req'[r] = [pc |-> "selected", op |-> op, c |-> c, user |-> u, pair |-> None,
                          seen |-> row[c]]
            /\ row[c].status # "absent" /\ row[c].version \in Nat
            /\ op \in Transitions /\ op \notin Settlements \cup {"manifest"} /\ Accepts(op, u, row[c])
        BY <2>2 DEF Select, Accepts, From, IInv, TypeOK, Row, Transitions, Settlements
      <3> QED BY <3>1 DEF Sound
    <2>3. CASE Reselect(r)
      <3>1. CASE Accepts(req[r].op, req[r].user, req[r].seen)
        <4>1. req'[r] = [req[r] EXCEPT !.pc = "selected"] /\ req[r] \in Request
          BY <2>3, <3>1 DEF Reselect, IInv, TypeOK
        <4>2. /\ req'[r].pc = "selected" /\ req'[r].op = req[r].op /\ req'[r].c = req[r].c
              /\ req'[r].user = req[r].user /\ req'[r].pair = req[r].pair
              /\ req'[r].seen = req[r].seen
          BY <4>1 DEF Request
        <4>3. Sound(req[r], row[req[r].c]) /\ req[r].op \in Transitions
          BY <1>2, <2>3 DEF Reselect, Transitions
        <4> QED BY <3>1, <4>2, <4>3 DEF Sound
      <3>2. CASE ~Accepts(req[r].op, req[r].user, req[r].seen)
        BY <2>3, <3>2 DEF Reselect, IInv, TypeOK, Idle
      <3> QED BY <3>1, <3>2
    <2>4. CASE Stale(r) \/ Abort(r)
      BY <2>4 DEF Stale, Abort, IInv, TypeOK, Idle
    <2> QED BY <2>1, <2>2, <2>3, <2>4 DEF Begin
  <1>4. \A q \in Requests : req'[q].pc # "idle" => Sound(req'[q], row'[req'[q].c])
    BY <1>1, <1>2, <1>3
  <1> QED BY <1>4 DEF AllSound, Sound, Accepts

(* A create gives no open call a row to disagree with: its row was absent.   *)
LEMMA CreateKeepsCalls ==
    ASSUME IInv, NEW u \in Users, NEW c \in Contributions, NEW lib \in Libraries,
           Create(u, c, lib)
    PROVE  AllSound'
  <1>1. row[c].status = "absent" /\ req' = req /\ \A d \in Contributions \ {c} : row'[d] = row[d]
    BY CreateEffect DEF IInv
  <1>2. ASSUME NEW q \in Requests, req[q].pc # "idle"
        PROVE  Sound(req'[q], row'[req'[q].c])
    <2>1. Sound(req[q], row[req[q].c])
      BY <1>2, SoundCalls DEF AllSound, IInv
    <2>2. row'[req[q].c] = row[req[q].c]
      BY <1>1, <2>1 DEF Sound
    <2> QED BY <1>1, <2>1, <2>2
  <1> QED BY <1>1, <1>2 DEF AllSound, Sound, Accepts

(* A committed write makes every other call on its row stale: versions grow. *)
LEMMA WriteKeepsCalls ==
    ASSUME IInv, NEW r \in Requests, NEW new \in Row, ChecksHold(r, new), Write(r, new)
    PROVE  AllSound'
  <1>1. TypeOK /\ req[r].c \in Contributions /\ new.version = row[req[r].c].version
    BY DEF ChecksHold, IInv
  <1>2. /\ row'[req[r].c] = [new EXCEPT !.version = row[req[r].c].version + 1]
        /\ \A d \in Contributions \ {req[r].c} : row'[d] = row[d]
    BY <1>1, WriteEffect
  <1>3. /\ row'[req[r].c].version = row[req[r].c].version + 1
        /\ row'[req[r].c].status # "absent" /\ row[req[r].c].version \in Nat
    <2>1. new.status # "absent"
      BY DEF ChecksHold, To, Transitions
    <2>2. row[req[r].c] \in Row
      BY <1>1 DEF IInv, TypeOK
    <2> QED BY <1>2, <2>1, <2>2 DEF Row
  <1>4. req'[r] = Idle /\ \A q \in Requests \ {r} : req'[q] = req[q]
    BY DEF Write, IInv, TypeOK
  <1>5. ASSUME NEW q \in Requests \ {r}, req[q].pc # "idle"
        PROVE  Sound(req[q], row'[req[q].c])
    <2>1. Sound(req[q], row[req[q].c]) /\ req[q].seen.version \in Nat
      BY <1>5, SoundCalls DEF AllSound, IInv, TypeOK, Request, Row
    <2>2. CASE req[q].c = req[r].c
      BY <1>3, <2>1, <2>2 DEF Sound
    <2>3. CASE req[q].c # req[r].c
      BY <1>2, <2>1, <2>3 DEF Sound
    <2> QED BY <2>2, <2>3
  <1>6. \A q \in Requests : req'[q].pc # "idle" => Sound(req'[q], row'[req'[q].c])
    BY <1>4, <1>5 DEF Idle
  <1> QED BY <1>6 DEF AllSound, Sound, Accepts

-----------------------------------------------------------------------------
(* The empty table satisfies the inductive invariant.                        *)
LEMMA InitIInv == Init => IInv
  <1> SUFFICES ASSUME Init PROVE IInv
    OBVIOUS
  <1>1. TypeOK
    BY BlankTypes DEF Init, TypeOK
  <1>2. \A c \in Contributions : row[c] = NoRow /\ row[c].status = "absent" /\ audit[c] = << >>
    BY DEF Init, NoRow
  <1>3. \A r \in Requests : req[r].pc = "idle"
    BY DEF Init, Idle
  <1>4. CallsChecked /\ VersionIdentifiesRow
    BY <1>3 DEF CallsChecked, VersionIdentifiesRow
  <1>5. Existence /\ ApprovalOnRecord /\ MergedAfterApproval
    BY <1>2 DEF Existence, ApprovalOnRecord, MergedAfterApproval
  <1>6. QueueInManifest
    BY <1>2 DEF QueueInManifest, NoRow
  <1>7. \A c \in Contributions : Len(audit[c]) = 0 /\ DOMAIN audit[c] = {} /\ row[c].version = 0
    BY <1>2 DEF NoRow
  <1>8. NoSelfReview /\ OneEntryPerWrite /\ MergeOnRecord /\ MergedOnce
    BY <1>7 DEF NoSelfReview, OneEntryPerWrite, MergeOnRecord, MergedOnce
  <1> QED BY <1>1, <1>4, <1>5, <1>8, <1>6 DEF IInv

(* Every step preserves it.                                                  *)
LEMMA NextIInv == IInv /\ [Next]_vars => IInv'
  <1> SUFFICES ASSUME IInv, [Next]_vars PROVE IInv'
    OBVIOUS
  <1>1. TypeOK'
    BY TypeStep DEF IInv
  <1>2. Recorded'
    <2>1. CASE UNCHANGED <<row, audit>>
      <3>1. (Existence /\ QueueInManifest)'
        BY <2>1 DEF IInv, Existence, QueueInManifest
      <3>2. (NoSelfReview /\ OneEntryPerWrite /\ MergeOnRecord /\ MergedOnce)'
        BY <2>1 DEF IInv, NoSelfReview, OneEntryPerWrite, MergeOnRecord, MergedOnce
      <3>3. (ApprovalOnRecord /\ MergedAfterApproval)'
        BY <2>1 DEF IInv, ApprovalOnRecord, MergedAfterApproval
      <3> QED BY <3>1, <3>2, <3>3 DEF Recorded
    <2>2. CASE \E u \in Users, c \in Contributions, lib \in Libraries : Create(u, c, lib)
      BY <2>2, CreateKeepsRecord DEF IInv, Recorded
    <2>3. CASE \E r \in Requests : \E new \in Row : ChecksHold(r, new) /\ Write(r, new)
      BY <2>3, WriteKeepsRecord DEF IInv, Recorded
    <2> QED BY <2>1, <2>2, <2>3, StepKinds
  <1>3. AllSound'
    <2>1. CASE UNCHANGED vars
      BY <2>1, SoundCalls DEF vars, IInv, AllSound, Sound, Accepts
    <2>2. CASE \E u \in Users, c \in Contributions, lib \in Libraries : Create(u, c, lib)
      BY <2>2, CreateKeepsCalls
    <2>3. CASE \E r \in Requests : Commit(r) \/ BuildManifest(r) \/ SettlePair(r)
      BY <2>3, CommitsWrite, WriteKeepsCalls
    <2>4. CASE \E r \in Requests : Begin(r) \/ Reselect(r) \/ Stale(r) \/ Abort(r)
      BY <2>4, CallStep
    <2> QED BY <2>1, <2>2, <2>3, <2>4 DEF Next, Proceed
  <1>4. (CallsChecked /\ VersionIdentifiesRow)'
    BY <1>3, SoundCalls, PTL
  <1> QED BY <1>1, <1>2, <1>4 DEF IInv, Recorded

(* The inductive invariant holds in every reachable state: nobody has        *)
(* reviewed their own contribution, every write has its audit entry, and     *)
(* every merge its approval, for any number of users, requests and calls.    *)
THEOREM Invariant == Spec => []IInv
  <1> QED BY InitIInv, NextIInv, PTL DEF Spec

(* The columns, the audit entries and the sessions keep their types.         *)
THEOREM TypeCorrect == Spec => []TypeOK
  <1>1. IInv => TypeOK
    BY DEF IInv
  <1> QED BY <1>1, Invariant, PTL

(* The version a call has read tells whether what it has read is still so.   *)
THEOREM VersionsIdentify == Spec => []VersionIdentifiesRow
  <1>1. IInv => VersionIdentifiesRow
    BY DEF IInv
  <1> QED BY <1>1, Invariant, PTL

(* The self-review block of _transition and of the alignment review holds of *)
(* every committed write, with and without row locks, and none is unlogged.  *)
THEOREM SelfReviewNever == Spec => []ReviewedByOthers
  <1>1. IInv => ReviewedByOthers
    BY DEF IInv, ReviewedByOthers
  <1> QED BY <1>1, Invariant, PTL

(* No contribution is merged twice and none without a standing approval.     *)
THEOREM MergesAreApproved == Spec => []ApprovedMerges
  <1>1. IInv => ApprovedMerges
    BY DEF IInv, ApprovedMerges
  <1> QED BY <1>1, Invariant, PTL

-----------------------------------------------------------------------------
(* A verdict once given is written again by whoever writes the manifest.     *)
LEMMA VerdictStays ==
    ASSUME IInv, [Next]_vars, NEW d \in Contributions, NEW p \in Pairs,
           row[d].pairs[p] \in {"approved", "rejected"}
    PROVE  row'[d].pairs[p] = row[d].pairs[p]
  <1>1. CASE UNCHANGED <<row, audit>>
    BY <1>1
  <1>2. ASSUME NEW u \in Users, NEW c \in Contributions, NEW lib \in Libraries, Create(u, c, lib)
        PROVE  row'[d].pairs[p] = row[d].pairs[p]
    <2>1. row[c].status = "absent" /\ \A e \in Contributions \ {c} : row'[e] = row[e]
      BY <1>2, CreateEffect DEF IInv
    <2>2. row[c].pairs[p] = "none"
      BY <2>1 DEF IInv, Existence, NoRow, NoPairs
    <2> QED BY <2>1, <2>2
  <1>3. ASSUME NEW r \in Requests, NEW new \in Row, ChecksHold(r, new), Write(r, new)
        PROVE  row'[d].pairs[p] = row[d].pairs[p]
    <2>1. /\ row'[req[r].c] = [new EXCEPT !.version = row[req[r].c].version + 1]
          /\ \A e \in Contributions \ {req[r].c} : row'[e] = row[e]
      BY <1>3, WriteEffect DEF IInv
    <2>2. row'[req[r].c].pairs = new.pairs
      BY <2>1 DEF Row
    <2>3. d = req[r].c => new.pairs[p] = row[d].pairs[p]
      BY <1>3 DEF ChecksHold
    <2> QED BY <2>1, <2>2, <2>3
  <1> QED BY <1>1, <1>2, <1>3, StepKinds

(* What is in a review queue stays there.                                    *)
LEMMA QueueStays ==
    ASSUME IInv, [Next]_vars, NEW d \in Contributions, NEW p \in Pairs, row[d].pairs[p] # "none"
    PROVE  row'[d].pairs[p] # "none"
  <1>1. CASE UNCHANGED <<row, audit>>
    BY <1>1
  <1>2. ASSUME NEW u \in Users, NEW c \in Contributions, NEW lib \in Libraries, Create(u, c, lib)
        PROVE  row'[d].pairs[p] # "none"
    <2>1. row[c].status = "absent" /\ \A e \in Contributions \ {c} : row'[e] = row[e]
      BY <1>2, CreateEffect DEF IInv
    <2>2. row[c].pairs[p] = "none"
      BY <2>1 DEF IInv, Existence, NoRow, NoPairs
    <2> QED BY <2>1, <2>2
  <1>3. ASSUME NEW r \in Requests, NEW new \in Row, ChecksHold(r, new), Write(r, new)
        PROVE  row'[d].pairs[p] # "none"
    <2>1. /\ row'[req[r].c] = [new EXCEPT !.version = row[req[r].c].version + 1]
          /\ \A e \in Contributions \ {req[r].c} : row'[e] = row[e]
      BY <1>3, WriteEffect DEF IInv
    <2>2. row'[req[r].c].pairs = new.pairs
      BY <2>1 DEF Row
    <2>3. d = req[r].c => new.pairs[p] # "none"
      BY <1>3 DEF ChecksHold
    <2> QED BY <2>1, <2>2, <2>3
  <1> QED BY <1>1, <1>2, <1>3, StepKinds

(* A verdict of the alignment review is final: a later verdict or a diff view *)
(* writes from a row that already holds it, or fails.                        *)
THEOREM VerdictsFinal == Spec => VerdictsStand
  <1> DEFINE Kept == \A c \in Contributions, p \in Pairs :
        row[c].pairs[p] \in {"approved", "rejected"} => row'[c].pairs[p] = row[c].pairs[p]
  <1>1. IInv /\ [Next]_vars => Kept
    BY VerdictStays
  <1> QED BY <1>1, Invariant, PTL DEF Spec, VerdictsStand

(* The row as the ContributionLifecycle sees it.                             *)
Tickets == [c \in Contributions |->
              [status |-> row[c].status, author |-> row[c].author, reviewer |-> row[c].reviewer]]

LEMMA StepsFollow == ASSUME IInv, [Next]_vars PROVE [Lifecycle!Next]_Tickets
  <1> USE DEF Tickets
  <1>1. CASE UNCHANGED <<row, audit>>
    BY <1>1
  <1>2. ASSUME NEW u \in Users, NEW c \in Contributions, NEW lib \in Libraries, Create(u, c, lib)
        PROVE  Lifecycle!Create(c, u)
    <2>1. /\ row[c].status = "absent"
          /\ row'[c] = [NoRow EXCEPT !.status = "draft", !.version = 1,
                                    !.author = u, !.library = lib]
          /\ \A d \in Contributions \ {c} : row'[d] = row[d]
      BY <1>2, CreateEffect DEF IInv
    <2>2. /\ row'[c].status = "draft" /\ row'[c].author = u /\ row'[c].reviewer = None
      BY <2>1 DEF NoRow
    <2>3. Tickets' = [Tickets EXCEPT ![c] = [status |-> "draft", author |-> u, reviewer |-> None]]
      BY <2>1, <2>2
    <2>4. Tickets[c].status = "absent"
      BY <2>1
    <2> QED BY <2>3, <2>4 DEF Lifecycle!Create
  <1>3. ASSUME NEW r \in Requests, NEW new \in Row, ChecksHold(r, new), Write(r, new)
        PROVE  [Lifecycle!Next]_Tickets
    <2>1. PICK c \in Contributions, u \in Users : c = req[r].c /\ u = req[r].user
      BY <1>3 DEF ChecksHold
    <2>2. /\ c \in Contributions /\ u \in Users
          /\ row'[c] = [new EXCEPT !.version = row[c].version + 1]
          /\ \A d \in Contributions \ {c} : row'[d] = row[d]
          /\ row[c] \in Row
      <3>1. TypeOK /\ ChecksHold(r, new) /\ Write(r, new)
        BY <1>3 DEF IInv
      <3>2. /\ row'[req[r].c] = [new EXCEPT !.version = row[req[r].c].version + 1]
            /\ \A d \in Contributions \ {req[r].c} : row'[d] = row[d]
        BY <3>1, WriteEffect
      <3>3. row[c] \in Row
        BY <3>1 DEF TypeOK
      <3> QED BY <2>1, <3>2, <3>3
    <2>3. /\ row'[c].status = new.status /\ row'[c].author = row[c].author
          /\ row'[c].reviewer = new.reviewer
      BY <1>3, <2>1, <2>2 DEF ChecksHold, Row
    <2>4. /\ row[c].status # "absent"
          /\ Tickets[c].status = row[c].status /\ Tickets[c].author = row[c].author
      BY <1>3, <2>1, <2>2 DEF ChecksHold
    <2>5. Tickets' = [Tickets EXCEPT ![c] = [status |-> new.status, author |-> row[c].author,
                                 reviewer |-> new.reviewer]]
      BY <2>2, <2>3
    <2>a. req[r].op \in Transitions =>
            /\ row[c].status \in From[req[r].op] /\ new.status = To[req[r].op]
            /\ req[r].op \in SelfReviewBlocked => row[c].author # u
            /\ new.reviewer = IF req[r].op \in {"approve", "reject"} THEN u ELSE row[c].reviewer
      BY ONLY <1>3, <2>1 DEF ChecksHold, Transitions, Settlements, Accepts
    <2>6. CASE req[r].op \in Settlements \cup {"manifest"}
      <3>1. new.status = row[c].status /\ new.reviewer = row[c].reviewer
        BY <1>3, <2>1, <2>6 DEF ChecksHold, Transitions, Settlements
      <3> QED BY <2>2, <2>5, <3>1
    <2>7. CASE req[r].op \in {"submit", "reopen", "close"}
      <3>1. /\ <<row[c].status, new.status>> \in Lifecycle!Edges
            /\ new.status \in {"submitted", "closed"} /\ new.reviewer = row[c].reviewer
        BY ONLY <2>7, <2>a DEF Transitions, From, To, Lifecycle!Edges
      <3>2. Lifecycle!Move(c, new.status)
        BY <2>2, <2>4, <2>5, <3>1 DEF Lifecycle!Move
      <3> QED BY <2>2, <3>1, <3>2 DEF Lifecycle!Next, Lifecycle!Statuses
    <2>8. CASE req[r].op \in {"approve", "reject"}
      <3>1. /\ <<row[c].status, new.status>> \in Lifecycle!Edges /\ u # row[c].author
            /\ new.status \in {"approved", "rejected"} /\ new.reviewer = u
        BY ONLY <2>8, <2>a DEF Transitions, SelfReviewBlocked, From, To, Lifecycle!Edges
      <3>2. Lifecycle!Review(c, u, new.status)
        BY <2>2, <2>4, <2>5, <3>1 DEF Lifecycle!Review
      <3> QED BY <2>2, <3>1, <3>2 DEF Lifecycle!Next, Lifecycle!Statuses
    <2>9. CASE req[r].op = "merge"
      <3>1. /\ <<row[c].status, "merged">> \in Lifecycle!Edges /\ u # row[c].author
            /\ new.status = "merged" /\ new.reviewer = row[c].reviewer
        BY ONLY <2>9, <2>a DEF Transitions, SelfReviewBlocked, From, To, Lifecycle!Edges
      <3>2. Lifecycle!Merge(c, u)
        <4>1. Tickets' = [Tickets EXCEPT ![c].status = "merged"]
          BY <2>2, <2>3, <3>1
        <4>2. <<Tickets[c].status, "merged">> \in Lifecycle!Edges /\ u # Tickets[c].author
          BY ONLY <2>4, <3>1
        <4> QED BY <4>1, <4>2 DEF Lifecycle!Merge
      <3>3. Lifecycle!Next
        BY <2>2, <3>2 DEF Lifecycle!Next
      <3> QED BY <3>3
    <2> QED BY <1>3, <2>1, <2>6, <2>7, <2>8, <2>9 DEF ChecksHold, Writes, Transitions
  <1> QED BY <1>1, <1>2, <1>3, StepKinds DEF Lifecycle!Next

(* The row, seen through its status, author and reviewer, takes only steps    *)
(* the ContributionLifecycle allows.                                         *)
THEOREM ImplementsLifecycle == Spec => LifecycleSpec
  <1>1. Init => Lifecycle!Init
    BY DEF Init, NoRow, Lifecycle!Init, Lifecycle!NoTicket
  <1>2. IInv /\ [Next]_vars => [Lifecycle!Next]_Tickets
    BY StepsFollow
  <1> QED BY <1>1, <1>2, Invariant, PTL DEF Spec, LifecycleSpec, Lifecycle!Spec, Tickets
=============================================================================
