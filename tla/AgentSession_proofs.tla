-------------------------- MODULE AgentSession_proofs --------------------------
(***************************************************************************)
(* For any accounts, administrators, sessions and runs, with turns of one  *)
(* session at once, restarts and lost workers: the administrators' trail   *)
(* tells the accounts, clearance is not laundered through a session, its   *)
(* questions are answered once, and a model is shown whole turns.          *)
(***************************************************************************)
EXTENDS AgentSession, NumberLemmas, SequenceTheorems

----------------------------------------------------------------------------
(* The last of some entries of a log.                                       *)

LEMMA Largest ==
    ASSUME NEW n \in Nat, NEW S, S \subseteq 0 .. n, S # {}
    PROVE  \E x \in S : \A y \in S : y <= x
  <1> DEFINE T == {n - x : x \in S}
  <1>1. T \subseteq Nat /\ T # {}
    <2>1. \A x \in S : n - x \in Nat
      OBVIOUS
    <2>2. \E x : x \in S
      OBVIOUS
    <2> QED BY <2>1, <2>2
  <1>2. PICK t \in T : \A y \in T : t <= y
    <2> HIDE DEF T
    <2> QED BY <1>1, Smallest
  <1>3. PICK x \in S : t = n - x
    OBVIOUS
  <1>4. \A y \in S : n - x <= n - y
    BY <1>2, <1>3
  <1>5. \A y \in S : y <= x
    BY <1>4
  <1> QED BY <1>5

LEMMA LastIn ==
    ASSUME NEW n \in Nat, NEW S, S \subseteq 1 .. n, S # {}
    PROVE  LastOf(S) \in S /\ LastOf(S) \in 1 .. n
  <1>1. S \subseteq 0 .. n
    OBVIOUS
  <1>2. \E x \in S : \A y \in S : y <= x
    BY <1>1, Largest
  <1> QED BY <1>2 DEF LastOf

LEMMA LastNew ==
    ASSUME NEW n \in Nat, NEW S, S \subseteq 1 .. n
    PROVE  LastOf(S \cup {n + 1}) = n + 1
  <1> DEFINE T == S \cup {n + 1}
  <1>1. \A x \in T : x \in Nat /\ x <= n + 1
    OBVIOUS
  <1>2. n + 1 \in T
    OBVIOUS
  <1> HIDE DEF T
  <1>3. \A x \in T : (\A y \in T : y <= x) => x = n + 1
    BY <1>1, <1>2
  <1>4. \E x \in T : \A y \in T : y <= x
    BY <1>1, <1>2
  <1>5. LastOf(T) = n + 1
    BY <1>3, <1>4 DEF LastOf
  <1> QED BY <1>5 DEF T

----------------------------------------------------------------------------
(* The accounts and the administrators' trail.                              *)

Entry == Requests \cup {[NoRequest EXCEPT !.op = "create_group", !.group = g] : g \in Teams \cup Projects}
ToldLevels(u) == {i \in DOMAIN trail : trail[i].user = u /\ trail[i].clearance # None}
Actives(u) == {i \in DOMAIN trail : trail[i].user = u /\ trail[i].active # None}
Of(u, g) == {i \in DOMAIN trail : trail[i].user = u /\ trail[i].group = g}

(* What the trail says of a user whom no two calls changed at once.         *)
Agrees(u) ==
    /\ ToldLevels(u) # {} => account[u].clearance = trail[LastOf(ToldLevels(u))].clearance
    /\ Actives(u) # {} => account[u].active = trail[LastOf(Actives(u))].active
    /\ \A g \in Teams \cup Projects : Of(u, g) # {} =>
         (MemberIn(account[u], g) <=> trail[LastOf(Of(u, g))].op = "add_member")

(* An account that is not there has nothing, and no entry tells of it.      *)
Blank == \A u \in Users : ~account[u].exists =>
    account[u] = NoAccount /\ \A i \in DOMAIN trail : trail[i].user # u

(* A call under way has seen the account as it is, unless another call was  *)
(* changing it too.                                                         *)
CallsSee == \A c \in Calls : call[c].pc = "loaded" =>
    /\ call[c].req \in Requests
    /\ call[c].req.op # "create" => account[call[c].req.user].exists
    /\ call[c].req.user \notin clashed => call[c].seen = account[call[c].req.user]
    /\ \A d \in Calls \ {c} : call[d].pc = "loaded" /\ call[d].req.user = call[c].req.user
         => call[c].req.user \in clashed

AdminIInv ==
    /\ AdminTypeOK /\ trail \in Seq(Entry) /\ Blank /\ CallsSee
    /\ \A u \in Users \ clashed : Agrees(u)
    /\ CreatedOnce

LEMMA EntryTypes ==
    ASSUME NEW e \in Entry
    PROVE  /\ e.user \in Users \cup {None} /\ e.op # "none"
           /\ e.user \in Users => e \in Requests
           /\ e.op = "create" => e \in Requests
  <1>1. CASE e \in Requests
    BY <1>1, AdministrationAssumption DEF AdministrationAssumption, Request
  <1>2. CASE e \notin Requests
    <2>1. PICK g \in Teams \cup Projects : e = [NoRequest EXCEPT !.op = "create_group", !.group = g]
      BY <1>2 DEF Entry
    <2>2. e.user = None /\ e.op = "create_group"
      BY <2>1 DEF NoRequest
    <2> QED BY <2>2, AdministrationAssumption DEF AdministrationAssumption
  <1> QED BY <1>1, <1>2

(* What a flush makes of an account.                                        *)
LEMMA ChangedTypes ==
    ASSUME NEW a \in Account, NEW seen \in Account, NEW q \in Requests, q.op # "create" => a.exists
    PROVE  Changed(a, q, seen) \in Account /\ Changed(a, q, seen).exists
  <1>1. /\ q \in Request
        /\ q.op = "assign_role" \/ (q.op = "add_member" /\ q.group \in Projects) => q.role \in Roles
        /\ q.group # None <=> q.op \in {"add_member", "remove_member"}
    BY AdministrationAssumption DEF AdministrationAssumption
  <1>2. CASE q.op = "create"
    <2>1. Changed(a, q, seen) = [exists |-> TRUE, active |-> TRUE,
              clearance |-> IF q.clearance = None THEN 1 ELSE q.clearance,
              roles |-> {}, teams |-> {}, projects |-> {}]
      BY <1>2 DEF Changed, NoAccount
    <2> QED BY <1>1, <2>1 DEF Account, Request, Clearances
  <1>3. CASE q.op \in {"update", "deactivate"}
    BY <1>1, <1>3 DEF Changed, Assigned, Account, Request
  <1>4. CASE q.op = "assign_role"
    BY <1>1, <1>4 DEF Changed, Account, Request
  <1>5. CASE q.op = "add_member"
    BY <1>1, <1>5 DEF Changed, Account, Request
  <1>6. CASE q.op = "remove_member"
    BY <1>1, <1>6 DEF Changed, Account, Request
  <1> QED BY <1>1, <1>2, <1>3, <1>4, <1>5, <1>6 DEF Request

LEMMA MemberMeans ==
    ASSUME NEW a, NEW g
    PROVE  MemberIn(a, g) <=> g \in a.teams \/ \E m \in a.projects : m[1] = g
  BY DEF MemberIn

LEMMA ChangedTells ==
    ASSUME NEW a \in Account, NEW q \in Requests, q.op = "create" => a = NoAccount
    PROVE  LET new == Changed(a, q, a) IN
           /\ new.clearance = IF q.clearance # None THEN q.clearance ELSE a.clearance
           /\ q.op # "create" => new.active = IF q.active # None THEN q.active ELSE a.active
           /\ q.group # None => (MemberIn(new, q.group) <=> q.op = "add_member")
           /\ \A g \in (Teams \cup Projects) \ {q.group} : MemberIn(new, g) <=> MemberIn(a, g)
  <1> DEFINE new == Changed(a, q, a)
  <1>1. /\ q \in Request
        /\ q.clearance # None => q.op \in {"create", "update"}
        /\ q.active # None => q.op \in {"update", "deactivate"}
        /\ q.group # None <=> q.op \in {"add_member", "remove_member"}
        /\ q.op = "assign_role" \/ (q.op = "add_member" /\ q.group \in Projects) => q.role \in Roles
        /\ Teams \cap Projects = {} /\ None \notin Teams \cup Projects
    BY AdministrationAssumption DEF AdministrationAssumption
  <1>2. CASE q.op = "create"
    <2>1. new = [exists |-> TRUE, active |-> TRUE,
              clearance |-> IF q.clearance = None THEN 1 ELSE q.clearance,
              roles |-> {}, teams |-> {}, projects |-> {}]
      BY <1>2 DEF Changed, NoAccount
    <2>2. a.clearance = 1 /\ a.teams = {} /\ a.projects = {}
      BY <1>2 DEF NoAccount
    <2> QED BY <1>1, <1>2, <2>1, <2>2, MemberMeans
  <1>3. CASE q.op \in {"update", "deactivate"}
    <2>1. /\ new.clearance = Assigned(q.clearance, a.clearance, a.clearance)
          /\ new.active = Assigned(q.active, a.active, a.active)
          /\ new.teams = a.teams /\ new.projects = a.projects
      BY <1>3 DEF Changed, Account
    <2> QED BY <1>1, <1>3, <2>1, MemberMeans DEF Assigned
  <1>4. CASE q.op = "assign_role"
    <2>1. /\ new.clearance = a.clearance /\ new.active = a.active
          /\ new.teams = a.teams /\ new.projects = a.projects
      BY <1>4 DEF Changed, Account
    <2> QED BY <1>1, <1>4, <2>1, MemberMeans
  <1>5. CASE q.op = "add_member"
    <2>1. /\ new.clearance = a.clearance /\ new.active = a.active
          /\ new.teams = IF q.group \in Teams THEN a.teams \cup {q.group} ELSE a.teams
          /\ new.projects = IF q.group \in Teams THEN a.projects ELSE a.projects \cup {<<q.group, q.role>>}
      BY <1>5 DEF Changed, Account
    <2>2. \A g : (\E m \in a.projects \cup {<<q.group, q.role>>} : m[1] = g) <=>
                 (\E m \in a.projects : m[1] = g) \/ g = q.group
      <3> DEFINE pair == <<q.group, q.role>>
      <3>1. pair[1] = q.group
        OBVIOUS
      <3> HIDE DEF pair
      <3>2. \A g : (\E m \in a.projects \cup {pair} : m[1] = g) <=> (\E m \in a.projects : m[1] = g) \/ g = pair[1]
        OBVIOUS
      <3> QED BY <3>1, <3>2 DEF pair
    <2>3. \A g : MemberIn(new, g) <=> MemberIn(a, g) \/ g = q.group
      BY <2>1, <2>2, MemberMeans
    <2> QED BY <1>1, <1>5, <2>1, <2>3
  <1>6. CASE q.op = "remove_member"
    <2>1. /\ new.clearance = a.clearance /\ new.active = a.active
          /\ new.teams = a.teams \ {q.group} /\ new.projects = {m \in a.projects : m[1] # q.group}
      BY <1>6 DEF Changed, Account
    <2>2. \A g : MemberIn(new, g) <=> MemberIn(a, g) /\ g # q.group
      BY <2>1, MemberMeans
    <2> QED BY <1>1, <1>6, <2>1, <2>2
  <1> QED BY <1>1, <1>2, <1>3, <1>4, <1>5, <1>6 DEF Request

(* An entry at the end of the trail.                                        *)
LEMMA EntryAppended ==
    ASSUME trail \in Seq(Entry), NEW e \in Entry, trail' = Append(trail, e), NEW v \in Users
    PROVE  /\ trail' \in Seq(Entry) /\ DOMAIN trail = 1 .. Len(trail) /\ DOMAIN trail' = 1 .. Len(trail) + 1
           /\ Len(trail) \in Nat
           /\ trail'[Len(trail) + 1] = e /\ \A i \in 1 .. Len(trail) : trail'[i] = trail[i]
           /\ ToldLevels(v)' = ToldLevels(v) \cup (IF e.user = v /\ e.clearance # None THEN {Len(trail) + 1} ELSE {})
           /\ Actives(v)' = Actives(v) \cup (IF e.user = v /\ e.active # None THEN {Len(trail) + 1} ELSE {})
  <1>1. /\ trail' \in Seq(Entry) /\ DOMAIN trail = 1 .. Len(trail) /\ DOMAIN trail' = 1 .. Len(trail) + 1
        /\ Len(trail) \in Nat
        /\ trail'[Len(trail) + 1] = e /\ \A i \in 1 .. Len(trail) : trail'[i] = trail[i]
    OBVIOUS
  <1>2. ToldLevels(v)' = ToldLevels(v) \cup (IF e.user = v /\ e.clearance # None THEN {Len(trail) + 1} ELSE {})
    BY <1>1 DEF ToldLevels
  <1>3. Actives(v)' = Actives(v) \cup (IF e.user = v /\ e.active # None THEN {Len(trail) + 1} ELSE {})
    BY <1>1 DEF Actives
  <1> QED BY <1>1, <1>2, <1>3

LEMMA OfAppended ==
    ASSUME trail \in Seq(Entry), NEW e \in Entry, trail' = Append(trail, e), NEW v \in Users, NEW g
    PROVE  Of(v, g)' = Of(v, g) \cup (IF e.user = v /\ e.group = g THEN {Len(trail) + 1} ELSE {})
  BY EntryAppended DEF Of

(* What an entry does not concern stays told as it was.                     *)
LEMMA StaysTold ==
    ASSUME trail \in Seq(Entry), NEW e \in Entry, trail' = Append(trail, e), NEW v \in Users,
           account'[v] = account[v], e.user # v, Agrees(v)
    PROVE  Agrees(v)'
  <1>1. /\ DOMAIN trail = 1 .. Len(trail) /\ Len(trail) \in Nat /\ \A i \in 1 .. Len(trail) : trail'[i] = trail[i]
        /\ ToldLevels(v)' = ToldLevels(v) /\ Actives(v)' = Actives(v) /\ \A g : Of(v, g)' = Of(v, g)
    <2>1. DOMAIN trail = 1 .. Len(trail) /\ Len(trail) \in Nat /\ \A i \in 1 .. Len(trail) : trail'[i] = trail[i]
      BY EntryAppended
    <2>3. ToldLevels(v)' = ToldLevels(v) \cup {} /\ Actives(v)' = Actives(v) \cup {}
      BY EntryAppended
    <2>2. ASSUME NEW g PROVE Of(v, g)' = Of(v, g) \cup {}
      <3>1. Of(v, g)' = Of(v, g) \cup (IF e.user = v /\ e.group = g THEN {Len(trail) + 1} ELSE {})
        BY OfAppended
      <3> QED BY ONLY <3>1, e.user # v
    <2> QED BY <2>1, <2>2, <2>3
  <1>2. ToldLevels(v) # {} => LastOf(ToldLevels(v)) \in 1 .. Len(trail)
    <2>1. ToldLevels(v) \subseteq 1 .. Len(trail)
      BY <1>1 DEF ToldLevels
    <2> QED BY <1>1, <2>1, LastIn
  <1>3. Actives(v) # {} => LastOf(Actives(v)) \in 1 .. Len(trail)
    <2>1. Actives(v) \subseteq 1 .. Len(trail)
      BY <1>1 DEF Actives
    <2> QED BY <1>1, <2>1, LastIn
  <1>4. \A g : Of(v, g) # {} => LastOf(Of(v, g)) \in 1 .. Len(trail)
    <2>1. \A g : Of(v, g) \subseteq 1 .. Len(trail)
      BY <1>1 DEF Of
    <2> QED BY <1>1, <2>1, LastIn
  <1>5. \A g : MemberIn(account[v], g)' <=> MemberIn(account[v], g)
    BY DEF MemberIn
  <1>6. ToldLevels(v)' # {} => account'[v].clearance = trail'[LastOf(ToldLevels(v))'].clearance
    <2>1. LastOf(ToldLevels(v))' = LastOf(ToldLevels(v))
      BY <1>1 DEF LastOf
    <2> QED BY <1>1, <1>2, <2>1 DEF Agrees
  <1>7. Actives(v)' # {} => account'[v].active = trail'[LastOf(Actives(v))'].active
    <2>1. LastOf(Actives(v))' = LastOf(Actives(v))
      BY <1>1 DEF LastOf
    <2> QED BY <1>1, <1>3, <2>1 DEF Agrees
  <1>8. ASSUME NEW g \in Teams \cup Projects, Of(v, g)' # {}
        PROVE  MemberIn(account[v], g)' <=> trail'[LastOf(Of(v, g))'].op = "add_member"
    <2>1. LastOf(Of(v, g))' = LastOf(Of(v, g))
      BY <1>1 DEF LastOf
    <2> QED BY <1>1, <1>4, <1>5, <1>8, <2>1 DEF Agrees
  <1> QED BY <1>6, <1>7, <1>8 DEF Agrees

(* What a flush writes is told by its entry.                                *)
LEMMA NowTold ==
    ASSUME trail \in Seq(Entry), NEW e \in Requests, trail' = Append(trail, e), NEW v \in Users, e.user = v,
           account[v] \in Account, account'[v] = Changed(account[v], e, account[v]), Agrees(v),
           e.op = "create" => account[v] = NoAccount /\ \A i \in DOMAIN trail : trail[i].user # v
    PROVE  Agrees(v)'
  <1> DEFINE n == Len(trail)
             new == Changed(account[v], e, account[v])
  <1>1. e \in Entry /\ e \in Request
    BY AdministrationAssumption DEF Entry, AdministrationAssumption
  <1>2. /\ DOMAIN trail = 1 .. n /\ n \in Nat /\ trail'[n + 1] = e /\ \A i \in 1 .. n : trail'[i] = trail[i]
    BY <1>1, EntryAppended
  <1>3. /\ new.clearance = IF e.clearance # None THEN e.clearance ELSE account[v].clearance
        /\ e.op # "create" => new.active = IF e.active # None THEN e.active ELSE account[v].active
        /\ e.group # None => (MemberIn(new, e.group) <=> e.op = "add_member")
        /\ \A g \in (Teams \cup Projects) \ {e.group} : MemberIn(new, g) <=> MemberIn(account[v], g)
    BY ChangedTells
  <1>4. e.op = "create" => e.active = None /\ ToldLevels(v) = {} /\ Actives(v) = {} /\ \A g : Of(v, g) = {}
    BY AdministrationAssumption DEF AdministrationAssumption, ToldLevels, Actives, Of
  <1> HIDE DEF new
  <1>5. ToldLevels(v)' # {} => account'[v].clearance = trail'[LastOf(ToldLevels(v)')].clearance
    <2>1. ToldLevels(v) \subseteq 1 .. n
      BY <1>2 DEF ToldLevels
    <2>2. CASE e.clearance # None
      <3>1. ToldLevels(v)' = ToldLevels(v) \cup {n + 1}
        BY <1>1, <2>2, EntryAppended
      <3>2. LastOf(ToldLevels(v)') = n + 1
        BY <1>2, <2>1, <3>1, LastNew
      <3> QED BY <1>2, <1>3, <2>2, <3>2 DEF new
    <2>3. CASE e.clearance = None
      <3>1. ToldLevels(v)' = ToldLevels(v) \cup {}
        BY <1>1, <2>3, EntryAppended
      <3>2. ToldLevels(v)' = ToldLevels(v)
        BY <3>1
      <3>3. ToldLevels(v) # {} => LastOf(ToldLevels(v)) \in 1 .. n
        BY <1>2, <2>1, LastIn
      <3> QED BY <1>2, <1>3, <2>3, <3>2, <3>3 DEF new, Agrees
    <2> QED BY <2>2, <2>3
  <1>6. Actives(v)' # {} => account'[v].active = trail'[LastOf(Actives(v)')].active
    <2>1. Actives(v) \subseteq 1 .. n
      BY <1>2 DEF Actives
    <2>2. CASE e.active # None
      <3>1. Actives(v)' = Actives(v) \cup {n + 1}
        BY <1>1, <2>2, EntryAppended
      <3>2. LastOf(Actives(v)') = n + 1
        BY <1>2, <2>1, <3>1, LastNew
      <3> QED BY <1>2, <1>3, <1>4, <2>2, <3>2 DEF new
    <2>3. CASE e.active = None
      <3>1. Actives(v)' = Actives(v) \cup {}
        BY <1>1, <2>3, EntryAppended
      <3>2. Actives(v)' = Actives(v)
        BY <3>1
      <3>3. Actives(v) # {} => LastOf(Actives(v)) \in 1 .. n
        BY <1>2, <2>1, LastIn
      <3> QED BY <1>2, <1>3, <1>4, <2>3, <3>2, <3>3 DEF new, Agrees
    <2> QED BY <2>2, <2>3
  <1>7. ASSUME NEW g \in Teams \cup Projects, Of(v, g)' # {}
        PROVE  MemberIn(account[v], g)' <=> trail'[LastOf(Of(v, g)')].op = "add_member"
    <2>1. Of(v, g) \subseteq 1 .. n /\ g # None
      BY <1>2, AdministrationAssumption DEF Of, AdministrationAssumption
    <2>2. MemberIn(account[v], g)' <=> MemberIn(new, g)
      BY DEF MemberIn, new
    <2>3. CASE e.group = g
      <3>1. Of(v, g)' = Of(v, g) \cup {n + 1}
        BY <1>1, <2>3, OfAppended
      <3>2. LastOf(Of(v, g)') = n + 1
        BY <1>2, <2>1, <3>1, LastNew
      <3> QED BY <1>2, <1>3, <2>1, <2>2, <2>3, <3>2
    <2>4. CASE e.group # g
      <3>1. Of(v, g)' = Of(v, g) \cup {}
        BY <1>1, <2>4, OfAppended
      <3>2. Of(v, g)' = Of(v, g)
        BY <3>1
      <3>3. LastOf(Of(v, g)) \in 1 .. n
        BY <1>2, <1>7, <2>1, <3>2, LastIn
      <3>4. MemberIn(account[v], g) <=> trail[LastOf(Of(v, g))].op = "add_member"
        BY <1>7, <3>2 DEF Agrees
      <3> QED BY <1>2, <1>3, <2>2, <2>4, <3>2, <3>3, <3>4
    <2> QED BY <2>3, <2>4
  <1> QED BY <1>5, <1>6, <1>7 DEF Agrees, LastOf

(* Nor does a step that leaves accounts and trail alone.                    *)
LEMMA AgreesSame ==
    ASSUME account' = account, trail' = trail, NEW v \in Users, Agrees(v)
    PROVE  Agrees(v)'
  <1>1. ToldLevels(v)' = ToldLevels(v) /\ Actives(v)' = Actives(v)
    BY DEF ToldLevels, Actives
  <1>2. LastOf(ToldLevels(v))' = LastOf(ToldLevels(v)) /\ LastOf(Actives(v))' = LastOf(Actives(v))
    BY <1>1 DEF LastOf
  <1>3. ASSUME NEW g \in Teams \cup Projects, Of(v, g)' # {}
        PROVE  MemberIn(account[v], g)' <=> trail'[LastOf(Of(v, g))'].op = "add_member"
    <2>1. Of(v, g)' = Of(v, g)
      BY DEF Of
    <2>2. LastOf(Of(v, g))' = LastOf(Of(v, g))
      BY <2>1 DEF LastOf
    <2>3. MemberIn(account[v], g)' <=> MemberIn(account[v], g)
      BY DEF MemberIn
    <2> QED BY <1>3, <2>1, <2>2, <2>3 DEF Agrees
  <1> QED BY <1>1, <1>2, <1>3 DEF Agrees

LEMMA ArriveKeeps ==
    ASSUME AdminIInv, NEW c \in Calls, NEW by \in Users, NEW req \in Requests, Arrive(c, by, req)
    PROVE  AdminIInv'
  <1>1. /\ call' = [call EXCEPT ![c] = [pc |-> "loaded", by |-> by, req |-> req, seen |-> account[req.user]]]
        /\ clashed \subseteq clashed' /\ account' = account /\ trail' = trail /\ groups' = groups /\ grants' = grants
        /\ Acceptable(req) /\ req \in Request
        /\ (\E d \in Calls : call[d].pc = "loaded" /\ call[d].req.user = req.user) => req.user \in clashed'
    BY AdministrationAssumption DEF Arrive, AdministrationAssumption
  <1>2. AdminTypeOK'
    BY <1>1 DEF AdminIInv, AdminTypeOK, Request
  <1>3. req.op # "create" => account[req.user].exists
    <2>1. req.user \in Users /\ account[req.user] \in Account
      BY <1>1 DEF AdminIInv, AdminTypeOK, Request
    <2>2. ~account[req.user].exists => ~MemberIn(account[req.user], req.group)
      BY <2>1, MemberMeans DEF AdminIInv, Blank, NoAccount
    <2> QED BY <1>1, <2>2 DEF Acceptable, Request
  <1>4. CallsSee'
    <2>1. call'[c].pc = "loaded" /\ call'[c].req = req /\ call'[c].seen = account[req.user]
      BY <1>1 DEF AdminIInv, AdminTypeOK
    <2>2. \A d \in Calls \ {c} : call'[d] = call[d]
      BY <1>1 DEF AdminIInv, AdminTypeOK
    <2>3. CallsSee
      BY DEF AdminIInv
    <2> QED BY <1>1, <1>3, <2>1, <2>2, <2>3 DEF CallsSee
  <1>5. Blank' /\ CreatedOnce' /\ trail' \in Seq(Entry)
    BY <1>1 DEF AdminIInv, Blank, CreatedOnce
  <1>6. \A u \in Users \ clashed' : Agrees(u)'
    BY <1>1, AgreesSame DEF AdminIInv
  <1> QED BY <1>2, <1>4, <1>5, <1>6 DEF AdminIInv

LEMMA WriteKeeps ==
    ASSUME AdminIInv, NEW c \in Calls, Write(c)
    PROVE  AdminIInv'
  <1> DEFINE q == call[c].req
             u == q.user
             new == Changed(account[u], q, call[c].seen)
  <1>1. /\ call[c].pc = "loaded" /\ q \in Requests /\ (q.op # "create" => account[u].exists)
        /\ (u \notin clashed => call[c].seen = account[u])
        /\ \A d \in Calls \ {c} : call[d].pc = "loaded" /\ call[d].req.user = u => u \in clashed
        /\ call[c].seen \in Account /\ call \in [Calls -> [pc: {"free", "loaded"}, by: Users \cup {None},
                           req: Requests \cup {NoRequest}, seen: Account]]
    BY DEF Write, AdminIInv, CallsSee, AdminTypeOK
  <1>2. u \in Users /\ account \in [Users -> Account] /\ account[u] \in Account
    BY <1>1, AdministrationAssumption DEF AdminIInv, AdminTypeOK, AdministrationAssumption, Request
  <1>3. /\ call' = [call EXCEPT ![c] = Free] /\ clashed' = clashed /\ groups' = groups /\ grants' = grants
        /\ \/ account' = account /\ trail' = trail
           \/ Flushes(q) /\ account' = [account EXCEPT ![u] = new] /\ trail' = Append(trail, q)
    BY DEF Write, Changed
  <1>4. new \in Account /\ new.exists
    BY <1>1, <1>2, ChangedTypes
  <1> HIDE DEF new
  <1>5. /\ account' \in [Users -> Account] /\ \A v \in Users : account[v].exists => account'[v].exists
        /\ \A v \in Users \ {u} : account'[v] = account[v]
    BY <1>2, <1>3, <1>4
  <1>6. AdminTypeOK'
    <2>1. Free \in [pc: {"free", "loaded"}, by: Users \cup {None}, req: Requests \cup {NoRequest}, seen: Account]
      BY DEF Free, NoAccount, Account, Clearances
    <2> HIDE DEF Free
    <2> QED BY <1>1, <1>3, <1>5, <2>1 DEF AdminIInv, AdminTypeOK
  <1>7. CallsSee'
    <2>1. Free.pc = "free" /\ \A d \in Calls \ {c} : call'[d] = call[d]
      BY <1>1, <1>3 DEF Free
    <2>2. call'[c].pc = "free"
      BY <1>1, <1>3, <2>1
    <2>3. ASSUME NEW d \in Calls, call'[d].pc = "loaded"
          PROVE  /\ call'[d].req \in Requests
                 /\ call'[d].req.op # "create" => account'[call'[d].req.user].exists
                 /\ call'[d].req.user \notin clashed' => call'[d].seen = account'[call'[d].req.user]
                 /\ \A e \in Calls \ {d} : call'[e].pc = "loaded" /\ call'[e].req.user = call'[d].req.user
                      => call'[d].req.user \in clashed'
      <3>1. d # c /\ call'[d] = call[d]
        BY <2>1, <2>2, <2>3
      <3>2. /\ call[d].req \in Requests /\ (call[d].req.op # "create" => account[call[d].req.user].exists)
            /\ (call[d].req.user \notin clashed => call[d].seen = account[call[d].req.user])
            /\ \A e \in Calls \ {d} : call[e].pc = "loaded" /\ call[e].req.user = call[d].req.user
                      => call[d].req.user \in clashed
        BY <2>3, <3>1 DEF AdminIInv, CallsSee
      <3>3. call[d].req.user \in Users
        BY <3>2, AdministrationAssumption DEF AdministrationAssumption, Request
      <3>4. \A e \in Calls \ {d} : call'[e].pc = "loaded" => call'[e] = call[e]
        BY <2>1, <2>2
      <3>5. call[d].req.user = u => u \in clashed
        BY <1>1, <2>3, <3>1
      <3> QED BY <1>3, <1>5, <3>1, <3>2, <3>3, <3>4, <3>5
    <2> QED BY <2>3 DEF CallsSee
  <1>8. CASE account' = account /\ trail' = trail
    <2>1. Blank' /\ CreatedOnce' /\ trail' \in Seq(Entry)
      BY <1>8 DEF AdminIInv, Blank, CreatedOnce
    <2>2. \A v \in Users \ clashed' : Agrees(v)'
      BY <1>3, <1>8, AgreesSame DEF AdminIInv
    <2> QED BY <1>6, <1>7, <2>1, <2>2 DEF AdminIInv
  <1>9. CASE Flushes(q) /\ account' = [account EXCEPT ![u] = new] /\ trail' = Append(trail, q)
    <2>1. q \in Entry /\ q \in Request /\ trail \in Seq(Entry)
      BY <1>1, AdministrationAssumption DEF Entry, AdministrationAssumption, AdminIInv
    <2>2. /\ trail' \in Seq(Entry) /\ DOMAIN trail = 1 .. Len(trail) /\ DOMAIN trail' = 1 .. Len(trail) + 1
          /\ Len(trail) \in Nat
          /\ trail'[Len(trail) + 1] = q /\ \A i \in 1 .. Len(trail) : trail'[i] = trail[i]
      BY <1>2, <1>9, <2>1, EntryAppended
    <2>3. q.op = "create" => ~account[u].exists /\ account[u] = NoAccount /\ \A i \in DOMAIN trail : trail[i].user # u
      BY <1>2, <1>9 DEF Flushes, AdminIInv, Blank
    <2>4. Blank'
      <3> SUFFICES ASSUME NEW v \in Users, ~account'[v].exists
                   PROVE  account'[v] = NoAccount /\ \A i \in DOMAIN trail' : trail'[i].user # v
        BY DEF Blank
      <3>1. v # u
        BY <1>2, <1>4, <1>9
      <3>2. account'[v] = account[v] /\ account[v] = NoAccount /\ \A i \in DOMAIN trail : trail[i].user # v
        BY <1>5, <3>1 DEF AdminIInv, Blank
      <3> QED BY <2>2, <3>1, <3>2
    <2>5. CreatedOnce'
      <3>1. ASSUME NEW i \in DOMAIN trail', NEW j \in DOMAIN trail', trail'[i].op = "create", trail'[j].op = "create",
                   trail'[i].user = trail'[j].user, i # j
            PROVE  FALSE
        <4>1. CASE i \in 1 .. Len(trail) /\ j \in 1 .. Len(trail)
          BY <2>2, <3>1, <4>1 DEF AdminIInv, CreatedOnce
        <4>2. CASE i = Len(trail) + 1
          <5>1. j \in 1 .. Len(trail)
            BY <2>2, <3>1, <4>2
          <5> QED BY <2>2, <2>3, <3>1, <4>2, <5>1
        <4>3. CASE j = Len(trail) + 1
          <5>1. i \in 1 .. Len(trail)
            BY <2>2, <3>1, <4>3
          <5> QED BY <2>2, <2>3, <3>1, <4>3, <5>1
        <4> QED BY <2>2, <4>1, <4>2, <4>3
      <3> QED BY <3>1 DEF CreatedOnce
    <2>6. ASSUME NEW v \in Users \ clashed' PROVE Agrees(v)'
      <3>1. Agrees(v) /\ v \notin clashed
        BY <1>3, <2>6 DEF AdminIInv
      <3>2. CASE v # u
        BY <1>5, <1>9, <2>1, <3>1, <3>2, StaysTold
      <3>3. CASE v = u
        <4>1. account'[v] = Changed(account[v], q, account[v])
          BY <1>1, <1>2, <1>9, <3>1, <3>3 DEF new
        <4> QED BY <1>1, <1>2, <1>9, <2>1, <2>3, <3>1, <3>3, <4>1, NowTold
      <3> QED BY <3>2, <3>3
    <2> QED BY <1>6, <1>7, <2>2, <2>4, <2>5, <2>6 DEF AdminIInv
  <1> QED BY <1>3, <1>8, <1>9

LEMMA CreateGroupKeeps ==
    ASSUME AdminIInv, NEW by \in Users, NEW g \in Teams \cup Projects, CreateGroup(by, g)
    PROVE  AdminIInv'
  <1> DEFINE e == [NoRequest EXCEPT !.op = "create_group", !.group = g]
  <1>1. /\ groups' = groups \cup {g} /\ trail' = Append(trail, e)
        /\ account' = account /\ grants' = grants /\ call' = call /\ clashed' = clashed
    BY DEF CreateGroup
  <1>2. e \in Entry /\ e.user = None /\ e.op = "create_group" /\ trail \in Seq(Entry)
    BY DEF Entry, NoRequest, AdminIInv
  <1> HIDE DEF e
  <1>3. AdminTypeOK' /\ CallsSee'
    BY <1>1 DEF AdminIInv, AdminTypeOK, CallsSee
  <1>4. /\ trail' \in Seq(Entry) /\ DOMAIN trail = 1 .. Len(trail) /\ DOMAIN trail' = 1 .. Len(trail) + 1
        /\ Len(trail) \in Nat
        /\ trail'[Len(trail) + 1] = e /\ \A i \in 1 .. Len(trail) : trail'[i] = trail[i]
    BY <1>1, <1>2
  <1>5. None \notin Users
    BY AdministrationAssumption DEF AdministrationAssumption
  <1>6. Blank'
    BY <1>1, <1>2, <1>4, <1>5 DEF AdminIInv, Blank
  <1>7. CreatedOnce'
    BY <1>1, <1>2, <1>4 DEF AdminIInv, CreatedOnce
  <1>8. ASSUME NEW v \in Users \ clashed' PROVE Agrees(v)'
    BY <1>1, <1>2, <1>5, <1>8, StaysTold DEF AdminIInv
  <1> QED BY <1>3, <1>4, <1>6, <1>7, <1>8 DEF AdminIInv

LEMMA AdminKeeps ==
    ASSUME AdminIInv, setting \in Settings,
           \/ \E c \in Calls, by \in Users : \E req \in setting.requests : Arrive(c, by, req)
           \/ \E c \in Calls : Write(c)
           \/ \E by \in Users, g \in Teams \cup Projects : CreateGroup(by, g)
           \/ Seed
           \/ UNCHANGED admin
    PROVE  AdminIInv'
  <1>1. setting.requests \subseteq Requests
    BY AgentAssumption DEF AgentAssumption
  <1>2. ASSUME Seed PROVE AdminIInv'
    <2>1. /\ grants' \in [Roles -> SUBSET Permissions]
          /\ account' = account /\ groups' = groups /\ call' = call /\ trail' = trail /\ clashed' = clashed
      BY <1>2, AdministrationAssumption DEF Seed, Backfilled, AdminIInv, AdminTypeOK, AdministrationAssumption
    <2>2. AdminTypeOK' /\ CallsSee' /\ Blank' /\ CreatedOnce'
      BY <2>1 DEF AdminIInv, AdminTypeOK, CallsSee, Blank, CreatedOnce
    <2>3. \A v \in Users \ clashed' : Agrees(v)'
      BY <2>1, AgreesSame DEF AdminIInv
    <2> QED BY <2>1, <2>2, <2>3 DEF AdminIInv
  <1>3. ASSUME UNCHANGED admin PROVE AdminIInv'
    <2>1. grants' = grants /\ account' = account /\ groups' = groups /\ call' = call /\ trail' = trail /\ clashed' = clashed
      BY <1>3 DEF admin
    <2>2. AdminTypeOK' /\ CallsSee' /\ Blank' /\ CreatedOnce'
      BY <2>1 DEF AdminIInv, AdminTypeOK, CallsSee, Blank, CreatedOnce
    <2>3. \A v \in Users \ clashed' : Agrees(v)'
      BY <2>1, AgreesSame DEF AdminIInv
    <2> QED BY <2>1, <2>2, <2>3 DEF AdminIInv
  <1> QED BY <1>1, <1>2, <1>3, ArriveKeeps, WriteKeeps, CreateGroupKeeps

LEMMA InitAdmin == AdminInit => AdminIInv
  <1> SUFFICES ASSUME AdminInit PROVE AdminIInv
    OBVIOUS
  <1>1. /\ account = FirstAccounts /\ groups = FirstGroups /\ grants = FirstGrants
        /\ call = [c \in Calls |-> Free] /\ trail = << >> /\ clashed = {}
    BY DEF AdminInit
  <1>2. Free \in [pc: {"free", "loaded"}, by: Users \cup {None}, req: Requests \cup {NoRequest}, seen: Account]
    BY DEF Free, NoAccount, Account, Clearances
  <1>3. AdminTypeOK
    BY <1>1, <1>2, AdministrationAssumption DEF AdminTypeOK, AdministrationAssumption
  <1>4. trail \in Seq(Entry) /\ DOMAIN trail = {}
    BY <1>1
  <1>5. Blank
    BY <1>1, <1>4, AdministrationAssumption DEF Blank, AdministrationAssumption
  <1>6. \A c \in Calls : call[c].pc = "free"
    BY <1>1 DEF Free
  <1>7. CallsSee
    BY <1>6 DEF CallsSee
  <1>8. CreatedOnce
    BY <1>4 DEF CreatedOnce
  <1>9. ASSUME NEW u \in Users PROVE Agrees(u)
    <2>1. ToldLevels(u) = {} /\ Actives(u) = {}
      BY <1>4 DEF ToldLevels, Actives
    <2>2. \A g \in Teams \cup Projects : Of(u, g) = {}
      BY <1>4 DEF Of
    <2> QED BY <2>1, <2>2 DEF Agrees
  <1> QED BY <1>3, <1>4, <1>5, <1>7, <1>8, <1>9 DEF AdminIInv

(* It is what TrailTells says.                                              *)
LEMMA AgreesTells == AdminIInv => TrailTells
  <1> SUFFICES ASSUME AdminIInv PROVE AccountsTold
    BY DEF AdminIInv, TrailTells
  <1> SUFFICES ASSUME NEW u \in Users \ clashed
               PROVE  /\ ToldLevels(u) # {} => account[u].clearance = trail[LastOf(ToldLevels(u))].clearance
                      /\ Actives(u) # {} => account[u].active = trail[LastOf(Actives(u))].active
                      /\ \A g \in groups : Of(u, g) # {} =>
                           (MemberIn(account[u], g) <=> trail[LastOf(Of(u, g))].op = "add_member")
    BY DEF AccountsTold, Told, ToldLevels, Actives, Of
  <1> QED BY DEF AdminIInv, AdminTypeOK, Agrees

(* Whatever a step of the agent does, an administrator's call or nothing is *)
(* all that happens to the accounts.                                        *)
LEMMA NextAdmin ==
    ASSUME [Next]_vars
    PROVE  /\ setting' = setting
           /\ \/ \E c \in Calls, by \in Users : \E req \in setting.requests : Arrive(c, by, req)
              \/ \E c \in Calls : Write(c)
              \/ \E by \in Users, g \in Teams \cup Projects : CreateGroup(by, g)
              \/ Seed
              \/ UNCHANGED admin
  <1>1. CASE Administer
    BY <1>1 DEF Administer
  <1>2. CASE Restart
    BY <1>2 DEF Restart
  <1>3. CASE \E s \in Sessions, u \in Users : CreateSession(s, u) \/ \E r \in Runs : Ask(r, s, u)
    BY <1>3 DEF CreateSession, Ask
  <1>4. CASE \E r \in Runs : Proceed(r)
    <2>1. PICK r \in Runs : Proceed(r)
      BY <1>4
    <2>2. CASE Rebuild(r) \/ Check(r) \/ Finish(r) \/ Raise(r)
      BY <2>2 DEF Rebuild, Check, Finish, Raise
    <2>3. CASE Start(r) \/ Model(r) \/ Tools(r) \/ Converge(r)
      BY <2>3 DEF Start, Model, Tools, Converge, Step
    <2> QED BY <2>1, <2>2, <2>3 DEF Proceed
  <1>5. CASE \E r \in Runs : Lose(r)
    BY <1>5 DEF Lose
  <1>6. CASE UNCHANGED vars
    BY <1>6 DEF vars, agent
  <1> QED BY <1>1, <1>2, <1>3, <1>4, <1>5, <1>6 DEF Next

(* The trail of the administrators can be relied on: unless two calls       *)
(* changed a user at once, it tells the account as it is, and it tells of   *)
(* each account that it was created once.                                   *)
THEOREM TrailTold == FairSpec => []TrailTells
  <1>1. Init => AdminIInv /\ setting \in Settings
    BY InitAdmin DEF Init
  <1>2. AdminIInv /\ setting \in Settings /\ [Next]_vars => (AdminIInv /\ setting \in Settings)'
    BY NextAdmin, AdminKeeps
  <1>3. AdminIInv /\ setting \in Settings => TrailTells
    BY AgreesTells
  <1> QED BY <1>1, <1>2, <1>3, PTL DEF FairSpec

----------------------------------------------------------------------------
(* The messages of a turn.                                                  *)

Contexts == [user: Users, clearance: Clearances, permissions: SUBSET Permissions,
             teams: SUBSET Teams, projects: SUBSET Projects]
Messages == [type: {"human", "ai", "tool"}, run: Runs, calls: SUBSET (Runs \X Nat \X Nat), level: Clearances]
Rows == [session: Sessions, role: {"user", "assistant"}, run: Runs, level: Clearances]
Turns == [pc: Working \cup {"none", "queued", "rebuild", "done", "cut"}, session: Sessions \cup {None},
          ctx: Contexts \cup {None}, local: Seq(Messages), steps: Nat, exceeded: BOOLEAN]
Waiting == {"none", "queued", "rebuild", "start"}
Asked(r, n) == Numbered(r, turn[r].steps, n)

(* A turn runs in a session that was created, for a user; it has said       *)
(* nothing before it started, and asks for numbered calls.                  *)
Placed == \A r \in Runs :
    /\ turn[r].pc # "none" => turn[r].session \in Sessions /\ sess[turn[r].session].owner \in Users
    /\ turn[r].pc \in Waiting => turn[r].local = << >> /\ ~turn[r].exceeded
    /\ turn[r].pc \in Working => turn[r].ctx \in Contexts
    /\ turn[r].pc \in Working \ {"start"} => turn[r].local # << >>
Asks == \A r \in Runs : turn[r].pc = "tools" => \E n \in Nat :
    LET asked == turn[r].local[Len(turn[r].local)] IN
    Len(turn[r].local) > 0 /\ asked.type = "ai" /\ asked.run = r /\ asked.calls = Asked(r, n)

(* How far a run, its job and the worker of it have come.                   *)
Tasks == \A r \in Runs :
    \/ turn[r].pc = "none" /\ job[r] = "none" /\ run[r] = "none"
    \/ turn[r].pc = "queued" /\ job[r] = "pending" /\ run[r] = "none"
    \/ turn[r].pc = "rebuild" /\ job[r] = "running" /\ run[r] = "none"
    \/ turn[r].pc \in Working /\ job[r] = "running" /\ run[r] = "running"
    \/ turn[r].pc = "done" /\ job[r] = "succeeded" /\ run[r] \in {"succeeded", "failed"}
    \/ turn[r].pc = "done" /\ job[r] = "failed" /\ run[r] \in {"none", "failed"}
    \/ turn[r].pc = "cut" /\ job[r] \in {"pending", "running", "failed"} /\ run[r] \in {"none", "running"}

TypeIInv ==
    /\ AdminIInv /\ setting \in Settings
    /\ sess \in [Sessions -> [owner: Users \cup {None}, clearance: Clearances]]
    /\ rows \in Seq(Rows)
    /\ run \in [Runs -> {"none", "running", "succeeded", "failed"}]
    /\ job \in [Runs -> {"none", "pending", "running", "succeeded", "failed"}]
    /\ turn \in [Runs -> Turns] /\ thread \in [Sessions -> Seq(Messages)]
    /\ Placed /\ Asks /\ Tasks

(* The level of some messages is the highest of theirs.                     *)
LEMMA LevelBounded ==
    ASSUME NEW ms \in Seq(Messages)
    PROVE  /\ LevelOf(ms) \in Clearances
           /\ \A l \in Clearances : (\A i \in DOMAIN ms : ms[i].level <= l) => LevelOf(ms) <= l
  <1> DEFINE levels == {ms[i].level : i \in DOMAIN ms} \cup {0}
  <1>1. \A i \in DOMAIN ms : ms[i].level \in 0 .. 3
    <2>1. \A i \in DOMAIN ms : ms[i] \in Messages
      OBVIOUS
    <2> QED BY <2>1 DEF Messages, Clearances
  <1>2. levels \subseteq 0 .. 3 /\ 0 \in levels
    BY <1>1
  <1>3. \E l \in levels : \A m \in levels : m <= l
    <2> HIDE DEF levels
    <2>1. levels # {}
      BY <1>2
    <2> QED BY <1>2, <2>1, Largest
  <1>4. LevelOf(ms) \in levels
    BY <1>3 DEF LevelOf
  <1>5. ASSUME NEW l \in Clearances, \A i \in DOMAIN ms : ms[i].level <= l
        PROVE  LevelOf(ms) <= l
    <2>1. \A m \in levels : m <= l
      BY <1>5 DEF Clearances
    <2> QED BY <1>4, <2>1
  <1> QED BY <1>2, <1>4, <1>5 DEF Clearances

(* The window is the end of the messages, and begins where a turn does.     *)
LEMMA WindowIsAnEnd ==
    ASSUME NEW ms \in Seq(Messages), NEW window \in Nat \ {0}
    PROVE  \E first \in Nat :
             /\ first = 1 \/ first \in TurnStarts(ms)
             /\ Truncated(ms, window) \in Seq(Messages) /\ Len(Truncated(ms, window)) = Len(ms) - first + 1
             /\ \A i \in 1 .. Len(ms) - first + 1 : Truncated(ms, window)[i] = ms[first + i - 1]
  <1> DEFINE n == Len(ms)
             S == TurnStarts(ms)
             Cut(first) == SubSeq(ms, first, n)
  <1>1. n \in Nat /\ S \subseteq 1 .. n
    BY DEF TurnStarts
  <1>2. CASE Cardinality(S) <= window
    <2>1. Truncated(ms, window) = ms
      BY <1>2 DEF Truncated
    <2> QED BY <1>1, <2>1
  <1>3. CASE ~ (Cardinality(S) <= window)
    <2>1. IsFiniteSet(S) /\ Cardinality(S) \in Nat
      <3>1. IsFiniteSet(1 .. n)
        BY <1>1, FS_Interval
      <3> HIDE DEF S
      <3> QED BY <1>1, <3>1, FS_Subset, FS_CardinalityType
    <2>2. \E i \in S : Cardinality({j \in S : j >= i}) = window
      <3> HIDE DEF S, n
      <3>1. window <= Cardinality(S)
        BY <1>3, <2>1
      <3>2. \E i \in S : Cardinality(UpFrom(S, i)) = window
        BY <1>1, <3>1, FromTheEnd
      <3> QED BY <3>2 DEF UpFrom
    <2> DEFINE first == CHOOSE i \in S : Cardinality({j \in S : j >= i}) = window
    <2>3. first \in S /\ Truncated(ms, window) = Cut(first)
      BY <1>3, <2>2 DEF Truncated
    <2> HIDE DEF first
    <2>4. first \in 1 .. n
      BY <1>1, <2>3
    <2>5. /\ Cut(first) \in Seq(Messages) /\ Len(Cut(first)) = n - first + 1
          /\ \A i \in 1 .. n - first + 1 : Cut(first)[i] = ms[first + i - 1]
      BY <1>1, <2>4, SubSeqProperties
    <2> QED BY <2>3, <2>4, <2>5
  <1> QED BY <1>2, <1>3

LEMMA ContextTypes ==
    ASSUME AdminTypeOK, NEW u \in Users
    PROVE  Context(u) \in Contexts /\ Context(u).clearance = account[u].clearance /\ Context(u).user = u
  <1>1. account[u] \in Account /\ grants \in [Roles -> SUBSET Permissions]
    BY DEF AdminTypeOK
  <1>2. \A m \in account[u].projects : m[1] \in Projects /\ m[2] \in Roles
    BY <1>1 DEF Account
  <1>3. HeldRoles(u) \subseteq Roles
    BY <1>1, <1>2 DEF HeldRoles, Account
  <1>4. UNION {grants[r] : r \in HeldRoles(u)} \subseteq Permissions
    BY <1>1, <1>3
  <1>5. {m[1] : m \in account[u].projects} \subseteq Projects
    BY <1>2
  <1> QED BY <1>1, <1>4, <1>5 DEF Context, Contexts, Account

(* What a step of the graph leaves of the turn, and of its session.         *)
LEMMA StepMeans ==
    ASSUME TypeIInv, NEW r \in Runs, NEW pc, NEW messages, NEW steps, NEW exceeded,
           Step(r, pc, messages, steps, exceeded)
    PROVE  /\ turn'[r] = [pc |-> pc, session |-> turn[r].session, ctx |-> turn[r].ctx,
                          local |-> messages, steps |-> steps, exceeded |-> exceeded]
           /\ DOMAIN turn' = Runs /\ \A q \in Runs \ {r} : turn'[q] = turn[q]
           /\ DOMAIN thread' = Sessions
           /\ thread' = thread \/ thread'[turn[r].session] = messages
           /\ \A s \in Sessions \ {turn[r].session} : thread'[s] = thread[s]
  <1>1. turn \in [Runs -> Turns] /\ thread \in [Sessions -> Seq(Messages)]
    BY DEF TypeIInv
  <1>2. turn[r] \in Turns
    BY <1>1
  <1>3. turn' = [turn EXCEPT ![r].pc = pc, ![r].local = messages, ![r].steps = steps, ![r].exceeded = exceeded]
    BY DEF Step
  <1>4. turn'[r] = [turn[r] EXCEPT !.pc = pc, !.local = messages, !.steps = steps, !.exceeded = exceeded]
    BY <1>1, <1>3
  <1>5. turn'[r] = [pc |-> pc, session |-> turn[r].session, ctx |-> turn[r].ctx,
                    local |-> messages, steps |-> steps, exceeded |-> exceeded]
    BY <1>2, <1>4 DEF Turns
  <1>6. DOMAIN turn' = Runs /\ \A q \in Runs \ {r} : turn'[q] = turn[q]
    BY <1>1, <1>3
  <1>7. thread' = thread \/ thread' = [thread EXCEPT ![turn[r].session] = messages]
    BY DEF Step
  <1> QED BY <1>1, <1>5, <1>6, <1>7

(* The messages a step of the graph adds.                                   *)
LEMMA StartMeans ==
    ASSUME TypeIInv, NEW r \in Runs, Start(r)
    PROVE  LET s == turn[r].session
               m == Says("human", r, {}, 0)
           IN /\ turn[r].pc = "start" /\ s \in Sessions /\ m \in Messages
              /\ Step(r, "model", Append(thread[s], m), 0, FALSE)
  <1>1. turn[r].pc = "start" /\ turn[r].session \in Sessions
    BY DEF Start, TypeIInv, Placed
  <1>2. Says("human", r, {}, 0) \in Messages
    BY DEF Says, Messages, Clearances
  <1> QED BY <1>1, <1>2 DEF Start, Remembered

LEMMA ModelMeans ==
    ASSUME TypeIInv, NEW r \in Runs, Model(r)
    PROVE  /\ turn[r].pc = "model"
           /\ \E n \in Nat, steps \in Nat, exceeded \in BOOLEAN, level \in Clearances :
                LET m == Says("ai", r, Numbered(r, steps, n), level) IN
                /\ exceeded => n > 0
                /\ m \in Messages
                /\ Step(r, IF n = 0 THEN "finish" ELSE IF exceeded THEN "converge" ELSE "tools",
                        Append(turn[r].local, m), steps, exceeded)
                /\ \A l \in Clearances :
                     (\A i \in DOMAIN turn[r].local : turn[r].local[i].level <= l) => level <= l
  <1> DEFINE ms == turn[r].local
             w == Window(r)
  <1>1. ms \in Seq(Messages) /\ turn[r].steps \in Nat /\ setting.window \in Nat \ {0} /\ setting.calls \in Nat
    BY AgentAssumption DEF AgentAssumption, TypeIInv, Turns
  <1>2. LevelOf(w) \in Clearances
        /\ \A l \in Clearances : (\A i \in DOMAIN ms : ms[i].level <= l) => LevelOf(w) <= l
    <2>1. PICK first \in Nat :
             /\ first = 1 \/ first \in TurnStarts(ms)
             /\ w \in Seq(Messages) /\ Len(w) = Len(ms) - first + 1
             /\ \A i \in 1 .. Len(ms) - first + 1 : w[i] = ms[first + i - 1]
      BY <1>1, WindowIsAnEnd DEF Window
    <2>2. first >= 1
      BY <2>1 DEF TurnStarts
    <2> HIDE DEF ms, w
    <2>3. ASSUME NEW i \in DOMAIN w PROVE first + i - 1 \in DOMAIN ms /\ w[i] = ms[first + i - 1]
      BY <1>1, <2>1, <2>2
    <2> QED BY <2>1, <2>3, LevelBounded
  <1>3. turn[r].pc = "model"
    BY DEF Model
  <1>4. PICK n \in 0 .. setting.calls, dear \in BOOLEAN :
         LET steps == turn[r].steps + 1
             exceeded == n > 0 /\ (steps >= setting.steps \/ dear)
             calls == {<<r, steps, k>> : k \in 1 .. n}
         IN Step(r, IF n = 0 THEN "finish" ELSE IF exceeded THEN "converge" ELSE "tools",
                    Append(ms, Says("ai", r, calls, LevelOf(w))),
                    steps, exceeded)
    BY DEF Model
  <1> DEFINE steps == turn[r].steps + 1
             exceeded == n > 0 /\ (steps >= setting.steps \/ dear)
             calls == Numbered(r, steps, n)
             level == LevelOf(w)
             m == Says("ai", r, calls, level)
  <1>5. n \in Nat /\ steps \in Nat /\ exceeded \in BOOLEAN /\ level \in Clearances
    BY <1>1, <1>2
  <1>6. calls \subseteq Runs \X Nat \X Nat
    BY <1>5 DEF Numbered
  <1>7. m \in Messages
    <2> HIDE DEF calls, level
    <2> QED BY <1>5, <1>6 DEF Says, Messages
  <1>8. exceeded => n > 0
    OBVIOUS
  <1>9. Step(r, IF n = 0 THEN "finish" ELSE IF exceeded THEN "converge" ELSE "tools", Append(ms, m), steps, exceeded)
    BY <1>4 DEF Numbered
  <1>10. \A l \in Clearances : (\A i \in DOMAIN turn[r].local : turn[r].local[i].level <= l) => level <= l
    BY <1>2
  <1> HIDE DEF steps, exceeded, level
  <1> QED BY <1>3, <1>5, <1>7, <1>8, <1>9, <1>10, Zenon

LEMMA ToolsMeans ==
    ASSUME TypeIInv, NEW r \in Runs, Tools(r)
    PROVE  /\ turn[r].pc = "tools"
           /\ \E n \in Nat, results \in Seq(Messages) :
                LET asked == turn[r].local[Len(turn[r].local)] IN
                /\ Len(turn[r].local) > 0 /\ asked.type = "ai" /\ asked.run = r /\ asked.calls = Asked(r, n)
                /\ Len(results) = n
                /\ \A k \in 1 .. n : /\ results[k].type = "tool" /\ results[k].run = r
                                     /\ results[k].calls = {<<r, turn[r].steps, k>>}
                                     /\ results[k].level \in {0, turn[r].ctx.clearance}
                /\ Step(r, "model", turn[r].local \o results, turn[r].steps, FALSE)
  <1> DEFINE ms == turn[r].local
             asked == ms[Len(ms)].calls
  <1>1. turn[r].pc = "tools" /\ turn[r] \in Turns /\ ms \in Seq(Messages) /\ turn[r].steps \in Nat
    BY DEF Tools, TypeIInv, Turns
  <1>2. PICK n \in Nat : /\ Len(ms) > 0 /\ ms[Len(ms)].type = "ai" /\ ms[Len(ms)].run = r
                         /\ asked = Asked(r, n)
    BY <1>1 DEF TypeIInv, Asks
  <1>3. Dispatched(asked) = n
    BY <1>2, NumberedCalls DEF Dispatched, Asked
  <1>4. PICK level \in [asked -> Evidence(r)] :
         Step(r, "model",
              ms \o [k \in 1 .. n |-> Says("tool", r, {<<r, turn[r].steps, k>>}, level[<<r, turn[r].steps, k>>])],
              turn[r].steps, FALSE)
    BY <1>3 DEF Tools
  <1> DEFINE results == [k \in 1 .. n |-> Says("tool", r, {<<r, turn[r].steps, k>>}, level[<<r, turn[r].steps, k>>])]
  <1>5. \A k \in 1 .. n : level[<<r, turn[r].steps, k>>] \in Evidence(r)
    BY <1>2 DEF Asked, Numbered
  <1>6. Evidence(r) \subseteq Clearances /\ Evidence(r) \subseteq {0, turn[r].ctx.clearance}
    BY DEF Evidence, Clearances
  <1>7. \A k \in 1 .. n : /\ results[k].type = "tool" /\ results[k].run = r
                          /\ results[k].calls = {<<r, turn[r].steps, k>>}
                          /\ results[k].level \in {0, turn[r].ctx.clearance}
    BY <1>5, <1>6 DEF Says
  <1>8. results \in Seq(Messages) /\ Len(results) = n
    <2>1. ASSUME NEW k \in 1 .. n
          PROVE  Says("tool", r, {<<r, turn[r].steps, k>>}, level[<<r, turn[r].steps, k>>]) \in Messages
      <3>1. {<<r, turn[r].steps, k>>} \subseteq Runs \X Nat \X Nat
        BY <1>1
      <3>2. level[<<r, turn[r].steps, k>>] \in Clearances
        BY <1>5, <1>6
      <3> QED BY <3>1, <3>2 DEF Says, Messages
    <2>2. results \in [1 .. n -> Messages]
      BY <2>1
    <2> HIDE DEF results
    <2> QED BY <2>2
  <1>9. Step(r, "model", ms \o results, turn[r].steps, FALSE)
    BY <1>4
  <1> HIDE DEF results
  <1> QED BY <1>1, <1>2, <1>7, <1>8, <1>9

LEMMA ConvergeMeans ==
    ASSUME TypeIInv, NEW r \in Runs, Converge(r)
    PROVE  LET m == Says("ai", r, {}, 0)
           IN /\ turn[r].pc = "converge" /\ turn[r].session \in Sessions /\ m \in Messages
              /\ Step(r, "finish", Append(turn[r].local, m), turn[r].steps, TRUE)
  <1>1. turn[r].pc = "converge" /\ turn[r].session \in Sessions
    BY DEF Converge, TypeIInv, Placed
  <1>2. Says("ai", r, {}, 0) \in Messages
    BY DEF Says, Messages, Clearances
  <1> QED BY <1>1, <1>2 DEF Converge

(* A turn that goes on, or ends, without saying anything.                   *)
LEMMA PcMeans ==
    ASSUME turn \in [Runs -> Turns], NEW r \in Runs,
           NEW pc \in Working \cup {"none", "queued", "rebuild", "done", "cut"},
           turn' = [turn EXCEPT ![r].pc = pc]
    PROVE  /\ turn' \in [Runs -> Turns] /\ turn'[r].pc = pc
           /\ turn'[r].session = turn[r].session /\ turn'[r].ctx = turn[r].ctx /\ turn'[r].local = turn[r].local
           /\ turn'[r].steps = turn[r].steps /\ turn'[r].exceeded = turn[r].exceeded
           /\ \A q \in Runs \ {r} : turn'[q] = turn[q]
  <1>1. turn'[r] = [turn[r] EXCEPT !.pc = pc] /\ DOMAIN turn' = Runs
    OBVIOUS
  <1>2. turn' = [turn EXCEPT ![r] = [turn[r] EXCEPT !.pc = pc]]
    OBVIOUS
  <1>3. turn[r] \in Turns /\ [turn[r] EXCEPT !.pc = pc] \in Turns
    BY DEF Turns
  <1> QED BY <1>1, <1>2, <1>3 DEF Turns

LEMMA StepTypes ==
    ASSUME TypeIInv, AdminIInv', setting' = setting, NEW r \in Runs,
           NEW pc \in {"model", "tools", "converge", "finish"}, NEW messages \in Seq(Messages), NEW steps \in Nat,
           NEW exceeded \in BOOLEAN, Step(r, pc, messages, steps, exceeded),
           turn[r].pc \in {"start", "model", "tools", "converge"}, messages # << >>,
           pc = "tools" => \E n \in Nat : Len(messages) > 0
               /\ messages[Len(messages)].type = "ai" /\ messages[Len(messages)].run = r
               /\ messages[Len(messages)].calls = Numbered(r, steps, n)
    PROVE  TypeIInv'
  <1>1. /\ turn'[r] = [pc |-> pc, session |-> turn[r].session, ctx |-> turn[r].ctx,
                       local |-> messages, steps |-> steps, exceeded |-> exceeded]
        /\ DOMAIN turn' = Runs /\ \A q \in Runs \ {r} : turn'[q] = turn[q]
        /\ DOMAIN thread' = Sessions
        /\ thread' = thread \/ thread'[turn[r].session] = messages
        /\ \A s \in Sessions \ {turn[r].session} : thread'[s] = thread[s]
    BY StepMeans
  <1>2. /\ turn \in [Runs -> Turns] /\ turn[r] \in Turns /\ turn[r].session \in Sessions
        /\ sess[turn[r].session].owner \in Users /\ turn[r].ctx \in Contexts
    BY DEF TypeIInv, Placed, Working
  <1>3. turn'[r] \in Turns
    BY <1>1, <1>2 DEF Turns, Working
  <1>4. turn' \in [Runs -> Turns]
    <2>1. \A q \in Runs : turn'[q] \in Turns
      BY <1>1, <1>2, <1>3
    <2>2. turn' = [q \in Runs |-> turn'[q]]
      BY <1>1 DEF Step
    <2> QED BY <2>1, <2>2
  <1>5. thread' \in [Sessions -> Seq(Messages)]
    <2>1. thread' = thread \/ thread' = [thread EXCEPT ![turn[r].session] = messages]
      BY DEF Step
    <2> QED BY <2>1 DEF TypeIInv
  <1>6. Placed'
    <2>1. sess' = sess
      BY DEF Step
    <2>2. turn'[r].pc = pc /\ turn'[r].session = turn[r].session /\ turn'[r].ctx = turn[r].ctx /\ turn'[r].local = messages
      BY <1>1
    <2>3. pc \notin Waiting
      BY DEF Waiting
    <2>4. Placed
      BY DEF TypeIInv
    <2> QED BY <1>1, <1>2, <2>1, <2>2, <2>3, <2>4 DEF Placed
  <1>7. Asks'
    <2> SUFFICES ASSUME NEW q \in Runs, turn'[q].pc = "tools"
                 PROVE  \E n \in Nat : LET asked == turn'[q].local[Len(turn'[q].local)] IN
                          /\ Len(turn'[q].local) > 0 /\ asked.type = "ai" /\ asked.run = q
                          /\ asked.calls = Numbered(q, turn'[q].steps, n)
      BY DEF Asks, Asked
    <2>1. CASE q = r
      BY <1>1, <2>1
    <2>2. CASE q # r
      <3>1. turn'[q] = turn[q]
        BY <1>1, <2>2
      <3>2. Asks
        BY DEF TypeIInv
      <3> QED BY <3>1, <3>2 DEF Asks, Asked
    <2> QED BY <2>1, <2>2
  <1>8. UNCHANGED <<sess, rows, run, job>>
    BY DEF Step
  <1>9. Tasks'
    <2>1. turn'[r].pc \in Working /\ turn[r].pc \in Working
      BY <1>1 DEF Working
    <2>2. Tasks /\ "none" \notin Working /\ "queued" \notin Working /\ "rebuild" \notin Working
          /\ "done" \notin Working /\ "cut" \notin Working
      BY DEF TypeIInv, Working
    <2> QED BY <1>1, <1>8, <2>1, <2>2 DEF Tasks
  <1> QED BY <1>4, <1>5, <1>6, <1>7, <1>8, <1>9 DEF TypeIInv

LEMMA PcTypes ==
    ASSUME TypeIInv, AdminIInv', setting' = setting, NEW r \in Runs, NEW pc \in {"rebuild", "done", "cut"},
           turn' = [turn EXCEPT ![r].pc = pc], pc = "rebuild" => turn[r].pc = "queued", turn[r].pc # "none",
           sess' = sess, thread' = thread,
           rows' \in Seq(Rows), run' \in [Runs -> {"none", "running", "succeeded", "failed"}],
           job' \in [Runs -> {"none", "pending", "running", "succeeded", "failed"}], Tasks'
    PROVE  TypeIInv'
  <1>1. turn \in [Runs -> Turns]
    BY DEF TypeIInv
  <1>2. /\ turn' \in [Runs -> Turns] /\ turn'[r].pc = pc
        /\ turn'[r].session = turn[r].session /\ turn'[r].ctx = turn[r].ctx /\ turn'[r].local = turn[r].local
        /\ turn'[r].steps = turn[r].steps /\ turn'[r].exceeded = turn[r].exceeded
        /\ \A q \in Runs \ {r} : turn'[q] = turn[q]
    BY <1>1, PcMeans
  <1>3. Placed'
    BY <1>2 DEF TypeIInv, Placed, Waiting, Working
  <1>4. Asks'
    <2> SUFFICES ASSUME NEW q \in Runs, turn'[q].pc = "tools"
                 PROVE  \E n \in Nat : LET asked == turn'[q].local[Len(turn'[q].local)] IN
                          /\ Len(turn'[q].local) > 0 /\ asked.type = "ai" /\ asked.run = q
                          /\ asked.calls = Numbered(q, turn'[q].steps, n)
      BY DEF Asks, Asked
    <2>1. q # r
      BY <1>2
    <2> QED BY <1>2, <2>1 DEF TypeIInv, Asks, Asked
  <1> QED BY <1>2, <1>3, <1>4 DEF TypeIInv

(* A row at the end.                                                        *)
LEMMA RowAdded ==
    ASSUME TypeIInv, NEW s \in Sessions, NEW role \in {"user", "assistant"}, NEW r \in Runs, NEW l \in Clearances
    PROVE  LET row == [session |-> s, role |-> role, run |-> r, level |-> l] IN
           /\ Append(rows, row) \in Seq(Rows) /\ Len(rows) \in Nat /\ DOMAIN rows = 1 .. Len(rows)
           /\ DOMAIN Append(rows, row) = 1 .. Len(rows) + 1
           /\ Append(rows, row)[Len(rows) + 1] = row
           /\ \A i \in 1 .. Len(rows) : Append(rows, row)[i] = rows[i]
  <1> DEFINE row == [session |-> s, role |-> role, run |-> r, level |-> l]
  <1>1. row \in Rows /\ rows \in Seq(Rows)
    BY DEF Rows, TypeIInv
  <1> HIDE DEF row
  <1>2. /\ Append(rows, row) \in Seq(Rows) /\ Len(rows) \in Nat /\ DOMAIN rows = 1 .. Len(rows)
        /\ DOMAIN Append(rows, row) = 1 .. Len(rows) + 1
        /\ Append(rows, row)[Len(rows) + 1] = row
        /\ \A i \in 1 .. Len(rows) : Append(rows, row)[i] = rows[i]
    BY <1>1
  <1> QED BY <1>2 DEF row

(* The row of an answer has the level of the turn's last message.           *)
LEMMA AnswerLevel ==
    ASSUME TypeIInv, NEW r \in Runs, turn[r].local # << >>
    PROVE  LET last == Len(turn[r].local) IN
           last \in DOMAIN turn[r].local /\ turn[r].local[last].level \in Clearances
  <1>1. turn[r].local \in Seq(Messages)
    BY DEF TypeIInv, Turns
  <1>2. Len(turn[r].local) \in DOMAIN turn[r].local
    BY <1>1
  <1>3. turn[r].local[Len(turn[r].local)] \in Messages
    BY <1>1, <1>2
  <1> QED BY <1>2, <1>3 DEF Messages

LEMMA NextTypes ==
    ASSUME TypeIInv, [Next]_vars
    PROVE  TypeIInv'
  <1>1. AdminIInv' /\ setting' = setting
    BY NextAdmin, AdminKeeps DEF TypeIInv
  <1>2. ASSUME sess' = sess, rows' = rows, run' = run, job' = job, turn' = turn, thread' = thread
        PROVE  TypeIInv'
    BY <1>1, <1>2 DEF TypeIInv, Placed, Asks, Asked, Tasks
  <1>3. CASE Administer \/ UNCHANGED vars
    BY <1>2, <1>3 DEF Administer, vars, agent
  <1>4. CASE Restart
    <2>1. /\ turn' = [r \in Runs |-> IF InFlight(r) THEN [turn[r] EXCEPT !.pc = "cut"] ELSE turn[r]]
          /\ job' = [r \in Runs |-> IF job[r] \in {"pending", "running"} THEN "failed" ELSE job[r]]
          /\ thread' = thread \/ thread' = [s \in Sessions |-> << >>]
          /\ sess' = sess /\ rows' = rows /\ run' = run
      BY <1>4 DEF Restart
    <2>2. ASSUME NEW r \in Runs
          PROVE  /\ turn'[r] = turn[r] \/ (turn'[r] = [turn[r] EXCEPT !.pc = "cut"] /\ turn[r].pc # "none")
                 /\ turn'[r] \in Turns
      <3>1. turn[r] \in Turns
        BY DEF TypeIInv
      <3>2. turn'[r] = turn[r] \/ (turn'[r] = [turn[r] EXCEPT !.pc = "cut"] /\ turn[r].pc # "none")
        <4>1. (InFlight(r) => turn'[r] = [turn[r] EXCEPT !.pc = "cut"]) /\ (~InFlight(r) => turn'[r] = turn[r])
          BY <2>1
        <4>2. InFlight(r) => turn[r].pc # "none"
          BY DEF InFlight
        <4> QED BY <4>1, <4>2, Zenon
      <3>3. [turn[r] EXCEPT !.pc = "cut"] \in Turns
        BY <3>1 DEF Turns
      <3> QED BY <3>1, <3>2, <3>3
    <2>3. ASSUME NEW r \in Runs, turn'[r] # turn[r]
          PROVE  turn'[r].pc = "cut" /\ turn'[r].session = turn[r].session /\ turn[r].pc # "none"
      <3>1. turn[r] \in Turns
        BY DEF TypeIInv
      <3>2. turn'[r] = [turn[r] EXCEPT !.pc = "cut"] /\ turn[r].pc # "none"
        BY <2>2, <2>3
      <3> QED BY <3>1, <3>2 DEF Turns
    <2>4. turn' \in [Runs -> Turns]
      BY <2>1, <2>2
    <2>5. job' \in [Runs -> {"none", "pending", "running", "succeeded", "failed"}]
      BY <2>1 DEF TypeIInv
    <2>6. thread' \in [Sessions -> Seq(Messages)]
      <3>1. << >> \in Seq(Messages)
        OBVIOUS
      <3> QED BY <2>1, <3>1 DEF TypeIInv
    <2>7. Placed'
      <3>1. "cut" \notin Waiting /\ "cut" \notin Working
        BY DEF Waiting, Working
      <3> QED BY <2>1, <2>3, <3>1 DEF TypeIInv, Placed
    <2>8. Asks'
      <3> SUFFICES ASSUME NEW q \in Runs, turn'[q].pc = "tools"
                   PROVE  \E n \in Nat : LET asked == turn'[q].local[Len(turn'[q].local)] IN
                          /\ Len(turn'[q].local) > 0 /\ asked.type = "ai" /\ asked.run = q
                          /\ asked.calls = Numbered(q, turn'[q].steps, n)
        BY DEF Asks, Asked
      <3>1. turn'[q] = turn[q]
        BY <2>3
      <3> QED BY <3>1 DEF TypeIInv, Asks, Asked
    <2>9. Tasks'
      <3> SUFFICES ASSUME NEW q \in Runs, turn'[q] # turn[q] \/ job'[q] # job[q]
                   PROVE  turn'[q].pc = "cut" /\ job'[q] = "failed" /\ run[q] \in {"none", "running"}
        <4>1. Tasks /\ run' = run
          BY <2>1 DEF TypeIInv
        <4> QED BY <4>1 DEF Tasks
      <3>1. /\ turn[q].pc \in {"queued", "rebuild"} \cup Working => turn'[q].pc = "cut"
            /\ turn'[q] # turn[q] => turn[q].pc \in {"queued", "rebuild"} \cup Working
            /\ job'[q] # job[q] => job[q] \in {"pending", "running"} /\ job'[q] = "failed"
            /\ job[q] \in {"pending", "running"} => job'[q] = "failed"
        <4>1. turn[q] \in Turns
          BY DEF TypeIInv
        <4>2. turn[q].pc \in {"queued", "rebuild"} \cup Working <=> InFlight(q)
          BY <4>1 DEF InFlight, Turns, Working
        <4> QED BY <2>1, <4>1, <4>2 DEF Turns
      <3>2. \/ turn[q].pc \in {"queued", "rebuild"} \cup Working
            \/ turn[q].pc = "cut"
        BY <3>1 DEF TypeIInv, Tasks
      <3>3. turn[q].pc = "cut" => turn'[q] = turn[q]
        BY <3>1 DEF Working
      <3> QED BY <3>1, <3>2, <3>3 DEF TypeIInv, Tasks, Working
    <2> QED BY <1>1, <2>1, <2>4, <2>5, <2>6, <2>7, <2>8, <2>9 DEF TypeIInv
  <1>5. ASSUME NEW s \in Sessions, NEW u \in Users, CreateSession(s, u) PROVE TypeIInv'
    <2>1. /\ sess' = [sess EXCEPT ![s] = [owner |-> u, clearance |-> account[u].clearance]]
          /\ rows' = rows /\ run' = run /\ job' = job /\ turn' = turn /\ thread' = thread
      BY <1>5 DEF CreateSession
    <2>2. account[u].clearance \in Clearances
      BY DEF TypeIInv, AdminIInv, AdminTypeOK, Account
    <2>3. sess' \in [Sessions -> [owner: Users \cup {None}, clearance: Clearances]]
      BY <2>1, <2>2 DEF TypeIInv
    <2>4. Placed'
      BY <2>1 DEF TypeIInv, Placed
    <2>5. Asks'
      BY <2>1 DEF TypeIInv, Asks, Asked
    <2>6. Tasks'
      BY <2>1 DEF TypeIInv, Tasks
    <2> QED BY <1>1, <2>1, <2>3, <2>4, <2>5, <2>6 DEF TypeIInv
  <1>6. ASSUME NEW r \in Runs, NEW s \in Sessions, NEW u \in Users, Ask(r, s, u)
        PROVE  TypeIInv'
    <2>1. /\ job' = [job EXCEPT ![r] = "pending"]
          /\ turn' = [turn EXCEPT ![r].pc = "queued", ![r].session = s]
          /\ sess' = sess /\ rows' = rows /\ run' = run /\ thread' = thread /\ sess[s].owner # None
      BY <1>6 DEF Ask, Opens
    <2>0. turn[r].pc = "none" /\ run[r] = "none"
      BY <1>6 DEF TypeIInv, Tasks, Ask
    <2>2. turn[r] \in Turns /\ turn \in [Runs -> Turns] /\ turn[r].local = << >> /\ ~turn[r].exceeded
      BY <2>0 DEF TypeIInv, Placed, Waiting
    <2>3. turn'[r] = [turn[r] EXCEPT !.pc = "queued", !.session = s] /\ DOMAIN turn' = Runs
      BY <2>1, <2>2
    <2>4. turn'[r] \in Turns /\ turn'[r].pc = "queued" /\ turn'[r].session = s
          /\ turn'[r].local = << >> /\ ~turn'[r].exceeded
      BY <2>2, <2>3 DEF Turns
    <2>5. \A q \in Runs \ {r} : turn'[q] = turn[q]
      BY <2>1, <2>2
    <2>6. turn' \in [Runs -> Turns]
      <3>1. turn' = [q \in Runs |-> turn'[q]]
        BY <2>1, <2>2
      <3> QED BY <2>2, <2>4, <2>5, <3>1
    <2>7. Placed'
      <3>1. sess[s].owner \in Users
        BY <2>1 DEF TypeIInv
      <3>2. "queued" \notin Working /\ "queued" # "none"
        BY DEF Working
      <3>3. Placed
        BY DEF TypeIInv
      <3> QED BY <2>1, <2>4, <2>5, <3>1, <3>2, <3>3 DEF Placed
    <2>8. Asks'
      <3> SUFFICES ASSUME NEW q \in Runs, turn'[q].pc = "tools"
                   PROVE  \E n \in Nat : LET asked == turn'[q].local[Len(turn'[q].local)] IN
                          /\ Len(turn'[q].local) > 0 /\ asked.type = "ai" /\ asked.run = q
                          /\ asked.calls = Numbered(q, turn'[q].steps, n)
        BY DEF Asks, Asked
      <3>1. turn'[q] = turn[q]
        BY <2>4, <2>5
      <3> QED BY <3>1 DEF TypeIInv, Asks, Asked
    <2>9. job' \in [Runs -> {"none", "pending", "running", "succeeded", "failed"}]
      BY <2>1 DEF TypeIInv
    <2>10. Tasks'
      BY <2>0, <2>1, <2>4, <2>5 DEF TypeIInv, Tasks
    <2> QED BY <1>1, <2>1, <2>6, <2>7, <2>8, <2>9, <2>10 DEF TypeIInv
  <1>7. ASSUME NEW r \in Runs, Start(r) \/ Model(r) \/ Tools(r) \/ Converge(r)
        PROVE  TypeIInv'
    <2>0. turn[r].local \in Seq(Messages) /\ Len(turn[r].local) \in Nat /\ turn[r].steps \in Nat
      BY DEF TypeIInv, Turns
    <2>1. CASE Start(r)
      <3> DEFINE m == Says("human", r, {}, 0)
                 ms == thread[turn[r].session]
      <3>1. turn[r].pc = "start" /\ m \in Messages /\ Step(r, "model", Append(ms, m), 0, FALSE)
            /\ ms \in Seq(Messages)
        BY <2>1, StartMeans DEF TypeIInv
      <3> HIDE DEF m, ms
      <3>2. Append(ms, m) \in Seq(Messages) /\ Append(ms, m) # << >>
        <4>1. Append(ms, m) \in Seq(Messages) /\ Len(Append(ms, m)) = Len(ms) + 1 /\ Len(ms) \in Nat
          BY <3>1
        <4> QED BY <4>1
      <3> QED BY <1>1, <3>1, <3>2, StepTypes
    <2>2. CASE Model(r)
      <3>1. PICK n \in Nat, steps \in Nat, exceeded \in BOOLEAN, level \in Clearances :
                LET m == Says("ai", r, Numbered(r, steps, n), level) IN
                /\ m \in Messages
                /\ Step(r, IF n = 0 THEN "finish" ELSE IF exceeded THEN "converge" ELSE "tools",
                        Append(turn[r].local, m), steps, exceeded)
        BY <2>2, ModelMeans
      <3> DEFINE m == Says("ai", r, Numbered(r, steps, n), level)
                 ms == Append(turn[r].local, m)
                 pc == IF n = 0 THEN "finish" ELSE IF exceeded THEN "converge" ELSE "tools"
      <3>2. m.type = "ai" /\ m.run = r /\ m.calls = Numbered(r, steps, n)
        BY DEF Says
      <3>6. pc \in {"model", "tools", "converge", "finish"}
        OBVIOUS
      <3>3. m \in Messages /\ pc \in {"model", "tools", "converge", "finish"} /\ Step(r, pc, ms, steps, exceeded)
        BY <3>1, <3>6, Zenon
      <3> HIDE DEF m, pc
      <3>4. ms \in Seq(Messages) /\ ms # << >> /\ Len(ms) > 0 /\ ms[Len(ms)] = m
        BY <2>0, <3>3
      <3> HIDE DEF ms
      <3>5. turn[r].pc = "model"
        BY <2>2 DEF Model
      <3> QED BY <1>1, <3>2, <3>3, <3>4, <3>5, StepTypes
    <2>3. CASE Tools(r)
      <3>1. PICK n \in Nat, results \in Seq(Messages) :
              /\ Len(turn[r].local) > 0
              /\ Step(r, "model", turn[r].local \o results, turn[r].steps, FALSE)
        BY <2>3, ToolsMeans
      <3>2. turn[r].local \o results \in Seq(Messages) /\ turn[r].local \o results # << >>
        BY <2>0, <3>1
      <3>3. turn[r].pc = "tools"
        BY <2>3 DEF Tools
      <3> DEFINE ms == turn[r].local \o results
      <3> HIDE DEF ms
      <3>4. ms \in Seq(Messages) /\ ms # << >> /\ Step(r, "model", ms, turn[r].steps, FALSE)
        BY <3>1, <3>2 DEF ms
      <3> QED BY <1>1, <2>0, <3>3, <3>4, StepTypes
    <2>4. CASE Converge(r)
      <3> DEFINE m == Says("ai", r, {}, 0)
      <3>1. turn[r].pc = "converge" /\ m \in Messages /\ Step(r, "finish", Append(turn[r].local, m), turn[r].steps, TRUE)
        BY <2>4, ConvergeMeans
      <3> HIDE DEF m
      <3>2. Append(turn[r].local, m) \in Seq(Messages) /\ Append(turn[r].local, m) # << >>
        BY <2>0, <3>1
      <3> QED BY <1>1, <2>0, <3>1, <3>2, StepTypes
    <2> QED BY <1>7, <2>1, <2>2, <2>3, <2>4
  <1>8. ASSUME NEW r \in Runs, Rebuild(r) \/ Finish(r) \/ Raise(r) \/ Lose(r)
        PROVE  TypeIInv'
    <2>0. turn \in [Runs -> Turns] /\ "none" \notin Working
      BY DEF TypeIInv, Working
    <2>1. CASE Rebuild(r)
      <3>1. turn[r].pc = "queued" /\ turn' = [turn EXCEPT ![r].pc = "rebuild"] /\ job' = [job EXCEPT ![r] = "running"]
            /\ UNCHANGED <<sess, rows, run, thread>>
        BY <2>1 DEF Rebuild
      <3>2. turn'[r].pc = "rebuild" /\ \A q \in Runs \ {r} : turn'[q] = turn[q]
        BY <2>0, <3>1, PcMeans
      <3>3. Tasks'
        BY <3>1, <3>2 DEF TypeIInv, Tasks, Working
      <3> QED BY <1>1, <3>1, <3>3, PcTypes DEF TypeIInv
    <2>2. CASE Finish(r)
      <3>1. /\ turn[r].pc = "finish" /\ turn' = [turn EXCEPT ![r].pc = "done"] /\ job' = [job EXCEPT ![r] = "succeeded"]
            /\ run' = [run EXCEPT ![r] = IF turn[r].exceeded THEN "failed" ELSE "succeeded"]
            /\ UNCHANGED <<sess, thread>> /\ rows' = Answer(r)
        BY <2>2 DEF Finish
      <3>2. turn'[r].pc = "done" /\ \A q \in Runs \ {r} : turn'[q] = turn[q]
        BY <2>0, <3>1, PcMeans
      <3>3. Tasks'
        BY <3>1, <3>2 DEF TypeIInv, Tasks, Working
      <3>4. rows' \in Seq(Rows)
        <4>1. turn[r].session \in Sessions /\ turn[r].local # << >>
          BY <3>1 DEF TypeIInv, Placed, Working
        <4> QED BY <3>1, <4>1, AnswerLevel, RowAdded DEF Answer
      <3>5. run' \in [Runs -> {"none", "running", "succeeded", "failed"}]
            /\ job' \in [Runs -> {"none", "pending", "running", "succeeded", "failed"}]
        BY <3>1 DEF TypeIInv
      <3> QED BY <1>1, <3>1, <3>3, <3>4, <3>5, PcTypes
    <2>3. CASE Raise(r)
      <3>1. /\ turn[r].pc = "model" /\ turn' = [turn EXCEPT ![r].pc = "done"] /\ job' = [job EXCEPT ![r] = "failed"]
            /\ run' = [run EXCEPT ![r] = "failed"] /\ UNCHANGED <<sess, rows, thread>>
        BY <2>3 DEF Raise
      <3>2. turn'[r].pc = "done" /\ \A q \in Runs \ {r} : turn'[q] = turn[q]
        BY <2>0, <3>1, PcMeans
      <3>3. Tasks'
        BY <3>1, <3>2 DEF TypeIInv, Tasks, Working
      <3> QED BY <1>1, <3>1, <3>3, PcTypes DEF TypeIInv
    <2>4. CASE Lose(r)
      <3>1. /\ turn[r].pc \in {"queued", "rebuild", "start", "model", "finish"}
            /\ turn' = [turn EXCEPT ![r].pc = "cut"] /\ UNCHANGED <<sess, rows, run, job, thread>>
        BY <2>4 DEF Lose
      <3>2. turn'[r].pc = "cut" /\ \A q \in Runs \ {r} : turn'[q] = turn[q]
        BY <2>0, <3>1, PcMeans
      <3>3. Tasks'
        BY <3>1, <3>2 DEF TypeIInv, Tasks, Working
      <3> QED BY <1>1, <3>1, <3>3, PcTypes DEF TypeIInv
    <2> QED BY <1>8, <2>1, <2>2, <2>3, <2>4
  <1>9. ASSUME NEW r \in Runs, Check(r)
        PROVE  TypeIInv'
    <2> DEFINE s == turn[r].session
               u == sess[s].owner
    <2>0. /\ turn[r].pc = "rebuild" /\ turn \in [Runs -> Turns] /\ turn[r] \in Turns /\ s \in Sessions /\ u \in Users
          /\ UNCHANGED <<sess, thread>> /\ 0 \in Clearances
      BY <1>9 DEF Check, TypeIInv, Placed, Clearances
    <2>1. CASE ~Admitted(s)
      <3>1. job' = [job EXCEPT ![r] = "failed"] /\ turn' = [turn EXCEPT ![r].pc = "done"] /\ rows' = rows /\ run' = run
        BY <1>9, <2>1 DEF Check
      <3>2. turn'[r].pc = "done" /\ \A q \in Runs \ {r} : turn'[q] = turn[q]
        BY <2>0, <3>1, PcMeans
      <3>3. Tasks'
        BY <2>0, <3>1, <3>2 DEF TypeIInv, Tasks, Working
      <3> QED BY <1>1, <2>0, <3>1, <3>3, PcTypes DEF TypeIInv
    <2>2. CASE Admitted(s)
      <3>1. /\ run' = [run EXCEPT ![r] = "running"] /\ job' = job
            /\ rows' = Append(rows, [session |-> s, role |-> "user", run |-> r, level |-> 0])
            /\ turn' = [turn EXCEPT ![r].pc = "start", ![r].ctx = Context(u)]
        BY <1>9, <2>2 DEF Check
      <3>2. Context(u) \in Contexts
        BY <2>0, ContextTypes DEF TypeIInv, AdminIInv
      <3>3. turn'[r] = [turn[r] EXCEPT !.pc = "start", !.ctx = Context(u)] /\ DOMAIN turn' = Runs
            /\ \A q \in Runs \ {r} : turn'[q] = turn[q]
        BY <2>0, <3>1
      <3>4. /\ turn'[r] \in Turns /\ turn'[r].pc = "start" /\ turn'[r].session = s /\ turn'[r].ctx \in Contexts
            /\ turn'[r].local = turn[r].local /\ turn'[r].exceeded = turn[r].exceeded
        BY <2>0, <3>2, <3>3 DEF Turns, Working
      <3>5. turn' \in [Runs -> Turns]
        <4>1. turn' = [q \in Runs |-> turn'[q]]
          BY <2>0, <3>1
        <4> QED BY <2>0, <3>3, <3>4, <4>1
      <3>6. Placed'
        <4>1. Placed /\ sess' = sess /\ turn[r].pc \in Waiting /\ "start" \notin Working \ {"start"}
          BY <2>0 DEF TypeIInv, Waiting
        <4> SUFFICES ASSUME NEW q \in Runs
                     PROVE  /\ turn'[q].pc # "none" =>
                                turn'[q].session \in Sessions /\ sess[turn'[q].session].owner \in Users
                            /\ turn'[q].pc \in Waiting => turn'[q].local = << >> /\ ~turn'[q].exceeded
                            /\ turn'[q].pc \in Working => turn'[q].ctx \in Contexts
                            /\ turn'[q].pc \in Working \ {"start"} => turn'[q].local # << >>
          BY <4>1 DEF Placed
        <4>2. CASE q # r
          <5>1. turn'[q] = turn[q]
            BY <3>3, <4>2
          <5> QED BY ONLY <4>1, <5>1, q \in Runs DEF Placed
        <4>3. CASE q = r
          <5>1. turn[r].local = << >> /\ ~turn[r].exceeded
            BY ONLY <4>1, r \in Runs DEF Placed
          <5> QED BY ONLY <2>0, <3>4, <4>1, <4>3, <5>1
        <4> QED BY <4>2, <4>3
      <3>7. Asks'
        <4> SUFFICES ASSUME NEW q \in Runs, turn'[q].pc = "tools"
                     PROVE  \E n \in Nat : LET asked == turn'[q].local[Len(turn'[q].local)] IN
                            /\ Len(turn'[q].local) > 0 /\ asked.type = "ai" /\ asked.run = q
                            /\ asked.calls = Numbered(q, turn'[q].steps, n)
          BY DEF Asks, Asked
        <4>1. turn'[q] = turn[q]
          BY <3>3, <3>4
        <4> QED BY <4>1 DEF TypeIInv, Asks, Asked
      <3>8. Tasks'
        <4>1. Tasks /\ "start" \in Working /\ "rebuild" \notin Working
          BY DEF TypeIInv, Working
        <4>2. run \in [Runs -> {"none", "running", "succeeded", "failed"}]
          BY DEF TypeIInv
        <4> QED BY <2>0, <3>1, <3>3, <3>4, <4>1, <4>2 DEF Tasks
      <3>9. rows' \in Seq(Rows) /\ run' \in [Runs -> {"none", "running", "succeeded", "failed"}]
        <4>1. run' \in [Runs -> {"none", "running", "succeeded", "failed"}]
          BY <3>1 DEF TypeIInv
        <4> QED BY <2>0, <3>1, <4>1, RowAdded
      <3> QED BY <1>1, <2>0, <3>1, <3>5, <3>6, <3>7, <3>8, <3>9 DEF TypeIInv
    <2> QED BY <2>1, <2>2
  <1> QED BY <1>3, <1>4, <1>5, <1>6, <1>7, <1>8, <1>9 DEF Next, Proceed

LEMMA InitTypes == Init => TypeIInv
  <1> SUFFICES ASSUME Init PROVE TypeIInv
    OBVIOUS
  <1>1. AdminIInv /\ setting \in Settings
    BY InitAdmin DEF Init
  <1>2. NoTurn \in Turns /\ NoTurn.pc = "none" /\ NoTurn.local = << >> /\ ~NoTurn.exceeded
    BY DEF NoTurn, Turns
  <1>3. turn \in [Runs -> Turns] /\ \A r \in Runs : turn[r] = NoTurn
    BY <1>2 DEF Init
  <1>4. Placed /\ Asks /\ Tasks
    BY <1>2, <1>3 DEF Init, Placed, Asks, Tasks, Working, Waiting
  <1>5. sess \in [Sessions -> [owner: Users \cup {None}, clearance: Clearances]]
    BY DEF Init, NoSession, Clearances
  <1>6. rows \in Seq(Rows) /\ thread \in [Sessions -> Seq(Messages)]
    BY DEF Init
  <1> QED BY <1>1, <1>3, <1>4, <1>5, <1>6 DEF Init, TypeIInv

(* Accounts, sessions, runs, jobs and messages are always of their types.   *)
THEOREM AgentTypes == FairSpec => []AgentTypeOK
  <1>1. TypeIInv => AgentTypeOK
    BY DEF TypeIInv, AgentTypeOK, AdminIInv, Rows, Levels, Clearances, Turns
  <1> QED BY <1>1, InitTypes, NextTypes, PTL DEF FairSpec

----------------------------------------------------------------------------
(* Clearance.                                                               *)

Within(ms, l) == \A i \in DOMAIN ms : ms[i].level <= l

(* As long as the owner of a session has not been raised above it, nothing  *)
(* in it is above the clearance it was created with: no row, no message     *)
(* that is remembered, and nothing a turn has seen or may see.              *)
KeptBelow(s, l) ==
    /\ account[sess[s].owner].clearance <= l
    /\ \A i \in DOMAIN rows : rows[i].session = s => rows[i].level <= l
    /\ Within(thread[s], l)
    /\ \A r \in Runs : turn[r].pc # "none" /\ turn[r].session = s =>
         Within(turn[r].local, l) /\ (turn[r].pc \in Working => turn[r].ctx.clearance <= l)
Unopened(s) == thread[s] = << >> /\ \A i \in DOMAIN rows : rows[i].session # s
Cleared == \A s \in Sessions \ raised :
    /\ sess[s].owner = None => Unopened(s)
    /\ sess[s].owner # None => KeptBelow(s, sess[s].clearance)

LEMMA WithinAppend ==
    ASSUME NEW ms \in Seq(Messages), NEW m \in Messages, NEW l, Within(ms, l), m.level <= l
    PROVE  Within(Append(ms, m), l)
  <1>1. /\ DOMAIN ms = 1 .. Len(ms) /\ DOMAIN Append(ms, m) = 1 .. Len(ms) + 1 /\ Len(ms) \in Nat
        /\ Append(ms, m)[Len(ms) + 1] = m /\ \A i \in 1 .. Len(ms) : Append(ms, m)[i] = ms[i]
    OBVIOUS
  <1> QED BY <1>1 DEF Within

LEMMA WithinConcat ==
    ASSUME NEW ms \in Seq(Messages), NEW ns \in Seq(Messages), NEW l, Within(ms, l), Within(ns, l)
    PROVE  Within(ms \o ns, l)
  <1>1. /\ DOMAIN ms = 1 .. Len(ms) /\ DOMAIN ns = 1 .. Len(ns) /\ DOMAIN (ms \o ns) = 1 .. Len(ms) + Len(ns)
        /\ Len(ms) \in Nat /\ Len(ns) \in Nat
        /\ \A i \in 1 .. Len(ms) + Len(ns) : (ms \o ns)[i] = IF i <= Len(ms) THEN ms[i] ELSE ns[i - Len(ms)]
    OBVIOUS
  <1> QED BY <1>1 DEF Within

LEMMA StepCleared ==
    ASSUME TypeIInv, Cleared, NEW r \in Runs, NEW pc, NEW messages, NEW steps, NEW exceeded,
           Step(r, pc, messages, steps, exceeded), turn[r].pc \in Working,
           turn[r].session \notin raised => Within(messages, sess[turn[r].session].clearance)
    PROVE  Cleared'
  <1> DEFINE t == turn[r].session
  <1>1. t \in Sessions /\ sess[t].owner \in Users /\ sess[t].owner # None /\ turn[r].pc # "none"
    BY AdministrationAssumption DEF TypeIInv, Placed, Working, AdministrationAssumption
  <1>2. UNCHANGED <<sess, rows, raised>> /\ account' = account
    BY DEF Step, admin
  <1>3. /\ turn'[r].session = t /\ turn'[r].local = messages /\ turn'[r].ctx = turn[r].ctx
        /\ \A q \in Runs \ {r} : turn'[q] = turn[q]
        /\ thread'[t] = thread[t] \/ thread'[t] = messages
        /\ \A s \in Sessions \ {t} : thread'[s] = thread[s]
    <2>2. /\ turn'[r] = [pc |-> pc, session |-> turn[r].session, ctx |-> turn[r].ctx,
                          local |-> messages, steps |-> steps, exceeded |-> exceeded]
          /\ DOMAIN turn' = Runs /\ \A q \in Runs \ {r} : turn'[q] = turn[q]
          /\ DOMAIN thread' = Sessions
          /\ thread' = thread \/ thread'[turn[r].session] = messages
          /\ \A s \in Sessions \ {turn[r].session} : thread'[s] = thread[s]
      BY StepMeans
    <2> QED BY <2>2
  <1>4. ASSUME NEW s \in Sessions \ raised
        PROVE  /\ sess[s].owner = None => Unopened(s)'
               /\ sess[s].owner # None => KeptBelow(s, sess[s].clearance)'
    <2>0. (sess[s].owner = None => Unopened(s)) /\ (sess[s].owner # None => KeptBelow(s, sess[s].clearance))
      BY DEF Cleared
    <2>1. CASE s = t
      <3>1. KeptBelow(s, sess[s].clearance) /\ Within(messages, sess[s].clearance)
        BY <1>1, <2>0, <2>1
      <3>2. Within(thread'[s], sess[s].clearance)
        BY <1>3, <2>1, <3>1 DEF KeptBelow
      <3>3. ASSUME NEW q \in Runs, turn'[q].pc # "none", turn'[q].session = s
            PROVE  Within(turn'[q].local, sess[s].clearance)
                   /\ (turn'[q].pc \in Working => turn'[q].ctx.clearance <= sess[s].clearance)
        <4>1. CASE q = r
          BY <1>1, <1>3, <2>1, <3>1, <4>1 DEF KeptBelow
        <4>2. CASE q # r
          <5>1. turn'[q] = turn[q]
            BY <1>3, <4>2
          <5> QED BY <3>1, <3>3, <5>1 DEF KeptBelow
        <4> QED BY <4>1, <4>2
      <3>4. account'[sess[s].owner].clearance <= sess[s].clearance
            /\ \A i \in DOMAIN rows : rows[i].session = s => rows[i].level <= sess[s].clearance
        BY <1>2, <3>1 DEF KeptBelow
      <3>5. KeptBelow(s, sess[s].clearance)'
        BY <1>2, <3>2, <3>3, <3>4 DEF KeptBelow, Within
      <3> QED BY <1>1, <2>1, <3>5
    <2>2. CASE s # t
      <3>1. thread'[s] = thread[s]
        BY <1>3, <2>2
      <3>2. sess[s].owner = None => Unopened(s)'
        BY <1>2, <2>0, <3>1 DEF Unopened
      <3>3. ASSUME sess[s].owner # None PROVE KeptBelow(s, sess[s].clearance)'
        <4>0. KeptBelow(s, sess[s].clearance)
          BY <2>0, <3>3
        <4>1. ASSUME NEW q \in Runs, turn'[q].pc # "none", turn'[q].session = s
              PROVE  Within(turn'[q].local, sess[s].clearance)
                     /\ (turn'[q].pc \in Working => turn'[q].ctx.clearance <= sess[s].clearance)
          <5>1. turn'[q] = turn[q]
            BY <1>3, <2>2, <4>1
          <5> QED BY <4>0, <4>1, <5>1 DEF KeptBelow
        <4> QED BY <1>2, <3>1, <4>0, <4>1 DEF KeptBelow, Within
      <3> QED BY <3>2, <3>3
    <2> QED BY <2>1, <2>2
  <1> QED BY <1>2, <1>4 DEF Cleared

(* A turn that goes on without a step of the graph, and may add a row.      *)
LEMMA QuietCleared ==
    ASSUME TypeIInv, Cleared, NEW r \in Runs, turn[r].pc # "none",
           account' = account, UNCHANGED <<sess, thread, raised>>,
           \A q \in Runs \ {r} : turn'[q] = turn[q],
           turn'[r].session = turn[r].session, turn'[r].local = turn[r].local,
           turn'[r].pc \in Working => \/ turn[r].pc \in Working /\ turn'[r].ctx = turn[r].ctx
                                      \/ turn'[r].ctx.clearance = account[sess[turn[r].session].owner].clearance,
           \/ rows' = rows
           \/ \E role \in {"user", "assistant"}, l \in Clearances :
                /\ rows' = Append(rows, [session |-> turn[r].session, role |-> role, run |-> r, level |-> l])
                /\ turn[r].session \notin raised => l <= sess[turn[r].session].clearance
    PROVE  Cleared'
  <1> DEFINE t == turn[r].session
  <1>1. t \in Sessions /\ sess[t].owner \in Users /\ sess[t].owner # None
    BY AdministrationAssumption DEF TypeIInv, Placed, AdministrationAssumption
  <1>2. /\ DOMAIN rows = 1 .. Len(rows) /\ Len(rows) \in Nat /\ \A i \in DOMAIN rows : rows'[i] = rows[i]
        /\ \A i \in DOMAIN rows' : i \in DOMAIN rows
             \/ (rows'[i].session = t /\ (t \notin raised => rows'[i].level <= sess[t].clearance))
    <2>1. DOMAIN rows = 1 .. Len(rows) /\ Len(rows) \in Nat
      BY DEF TypeIInv
    <2>2. CASE rows' = rows
      BY <2>1, <2>2
    <2>3. CASE rows' # rows
      <3>1. PICK role \in {"user", "assistant"}, l \in Clearances :
                /\ rows' = Append(rows, [session |-> t, role |-> role, run |-> r, level |-> l])
                /\ t \notin raised => l <= sess[t].clearance
        BY <2>3
      <3> DEFINE row == [session |-> t, role |-> role, run |-> r, level |-> l]
      <3>2. /\ DOMAIN rows' = 1 .. Len(rows) + 1 /\ rows'[Len(rows) + 1] = row
            /\ \A i \in 1 .. Len(rows) : rows'[i] = rows[i]
        BY <1>1, <3>1, RowAdded
      <3>3. row.session = t /\ row.level = l
        OBVIOUS
      <3> HIDE DEF row
      <3>4. \A i \in DOMAIN rows' : i \in DOMAIN rows \/ i = Len(rows) + 1
        BY <2>1, <3>2
      <3> QED BY <2>1, <3>1, <3>2, <3>3, <3>4
    <2> QED BY <2>2, <2>3
  <1>4. ASSUME NEW s \in Sessions \ raised
        PROVE  /\ sess[s].owner = None => Unopened(s)'
               /\ sess[s].owner # None => KeptBelow(s, sess[s].clearance)'
    <2>0. (sess[s].owner = None => Unopened(s)) /\ (sess[s].owner # None => KeptBelow(s, sess[s].clearance))
      BY DEF Cleared
    <2>1. ASSUME sess[s].owner = None PROVE Unopened(s)'
      <3>1. s # t
        BY <1>1, <2>1
      <3> QED BY <1>2, <2>0, <2>1, <3>1 DEF Unopened
    <2>2. ASSUME sess[s].owner # None PROVE KeptBelow(s, sess[s].clearance)'
      <3>0. KeptBelow(s, sess[s].clearance)
        BY <2>0, <2>2
      <3>1. \A i \in DOMAIN rows' : rows'[i].session = s => rows'[i].level <= sess[s].clearance
        BY <1>2, <3>0 DEF KeptBelow
      <3>2. ASSUME NEW q \in Runs, turn'[q].pc # "none", turn'[q].session = s
            PROVE  Within(turn'[q].local, sess[s].clearance)
                   /\ (turn'[q].pc \in Working => turn'[q].ctx.clearance <= sess[s].clearance)
        <4>1. CASE q = r
          <5>1. s = t /\ turn'[r].local = turn[r].local
            BY <3>2, <4>1
          <5>2. Within(turn[r].local, sess[s].clearance) /\ account[sess[s].owner].clearance <= sess[s].clearance
                /\ (turn[r].pc \in Working => turn[r].ctx.clearance <= sess[s].clearance)
            BY <3>0, <5>1 DEF KeptBelow
          <5> QED BY <4>1, <5>1, <5>2
        <4>2. CASE q # r
          <5>1. turn'[q] = turn[q]
            BY <4>2
          <5> QED BY <3>0, <3>2, <5>1 DEF KeptBelow
        <4> QED BY <4>1, <4>2
      <3>3. account'[sess'[s].owner].clearance <= sess[s].clearance
        BY <3>0 DEF KeptBelow
      <3> QED BY <3>0, <3>1, <3>2, <3>3 DEF KeptBelow, Within
    <2> QED BY <2>1, <2>2
  <1> QED BY <1>4 DEF Cleared

LEMMA NextCleared ==
    ASSUME TypeIInv, TypeIInv', Cleared, [Next]_vars
    PROVE  Cleared'
  <1>0. turn \in [Runs -> Turns] /\ None \notin Users /\ \A l \in Clearances : 0 <= l /\ l <= l
    BY AdministrationAssumption DEF TypeIInv, AdministrationAssumption, Clearances
  <1>1. CASE Administer
    <2>1. /\ UNCHANGED <<sess, rows, turn, thread>>
          /\ raised' = raised \cup {s \in Sessions :
               sess[s].owner # None /\ account'[sess[s].owner].clearance > sess[s].clearance}
      BY <1>1 DEF Administer
    <2>2. ASSUME NEW s \in Sessions \ raised', sess[s].owner # None
          PROVE  account'[sess[s].owner].clearance <= sess[s].clearance
      <3>1. sess[s].owner \in Users /\ sess[s].clearance \in Clearances
        BY <2>2 DEF TypeIInv
      <3>2. account'[sess[s].owner].clearance \in Clearances
        BY <3>1 DEF TypeIInv, AdminIInv, AdminTypeOK, Account
      <3>3. ~(account'[sess[s].owner].clearance > sess[s].clearance)
        BY <2>1, <2>2
      <3> QED BY <3>1, <3>2, <3>3 DEF Clearances
    <2>3. ASSUME NEW s \in Sessions \ raised'
          PROVE  /\ sess[s].owner = None => Unopened(s)'
                 /\ sess[s].owner # None => KeptBelow(s, sess[s].clearance)'
      <3>1. (sess[s].owner = None => Unopened(s)) /\ (sess[s].owner # None => KeptBelow(s, sess[s].clearance))
        BY <2>1 DEF Cleared
      <3>2. sess[s].owner = None => Unopened(s)'
        BY <2>1, <3>1 DEF Unopened
      <3>3. ASSUME sess[s].owner # None PROVE KeptBelow(s, sess[s].clearance)'
        BY <2>1, <2>2, <3>1, <3>3 DEF KeptBelow, Within
      <3> QED BY <3>2, <3>3
    <2> QED BY <2>1, <2>3 DEF Cleared
  <1>2. CASE UNCHANGED vars
    BY <1>2 DEF vars, admin, agent, Cleared, Unopened, KeptBelow, Within
  <1>3. CASE Restart
    <2>1. /\ account' = account /\ UNCHANGED <<sess, rows, raised>>
          /\ \A s \in Sessions : thread'[s] = thread[s] \/ thread'[s] = << >>
          /\ turn' = [r \in Runs |-> IF InFlight(r) THEN [turn[r] EXCEPT !.pc = "cut"] ELSE turn[r]]
      BY <1>3 DEF Restart, admin
    <2>2. ASSUME NEW r \in Runs
          PROVE  /\ turn'[r].session = turn[r].session /\ turn'[r].local = turn[r].local
                 /\ turn'[r].pc # "none" => turn[r].pc # "none"
                 /\ turn'[r].pc \in Working => turn'[r] = turn[r]
      <3>1. turn[r] \in Turns
        BY <1>0
      <3>2. CASE InFlight(r)
        <4>1. turn'[r] = [turn[r] EXCEPT !.pc = "cut"] /\ turn[r].pc # "none" /\ "cut" \notin Working
          BY <2>1, <3>2 DEF InFlight, Working
        <4> QED BY <3>1, <4>1 DEF Turns
      <3>3. CASE ~InFlight(r)
        <4>1. turn'[r] = turn[r]
          BY <2>1, <3>3
        <4> QED BY <4>1
      <3> QED BY <3>2, <3>3
    <2>3. \A l : Within(<< >>, l)
      BY DEF Within
    <2>4. ASSUME NEW s \in Sessions \ raised
          PROVE  /\ sess[s].owner = None => Unopened(s)'
                 /\ sess[s].owner # None => KeptBelow(s, sess[s].clearance)'
      <3>1. (sess[s].owner = None => Unopened(s)) /\ (sess[s].owner # None => KeptBelow(s, sess[s].clearance))
        BY DEF Cleared
      <3>2. sess[s].owner = None => Unopened(s)'
        BY <2>1, <3>1 DEF Unopened
      <3>3. ASSUME sess[s].owner # None PROVE KeptBelow(s, sess[s].clearance)'
        <4>1. Within(thread'[s], sess[s].clearance)
          BY <2>1, <2>3, <3>1, <3>3 DEF KeptBelow
        <4>2. ASSUME NEW r \in Runs, turn'[r].pc # "none", turn'[r].session = s
              PROVE  Within(turn'[r].local, sess[s].clearance)
                     /\ (turn'[r].pc \in Working => turn'[r].ctx.clearance <= sess[s].clearance)
          BY <2>2, <3>1, <3>3, <4>2 DEF KeptBelow
        <4> QED BY <2>1, <3>1, <3>3, <4>1, <4>2 DEF KeptBelow, Within
      <3> QED BY <3>2, <3>3
    <2> QED BY <2>1, <2>4 DEF Cleared
  <1>4. ASSUME NEW s \in Sessions, NEW u \in Users, CreateSession(s, u) PROVE Cleared'
    <2>1. /\ sess' = [sess EXCEPT ![s] = [owner |-> u, clearance |-> account[u].clearance]]
          /\ account' = account /\ UNCHANGED <<rows, turn, thread, raised>> /\ sess[s].owner = None
      BY <1>4 DEF CreateSession, admin
    <2>2. account[u].clearance \in Clearances /\ sess'[s].owner = u /\ sess'[s].clearance = account[u].clearance
          /\ \A t \in Sessions \ {s} : sess'[t] = sess[t]
      BY <2>1 DEF TypeIInv, AdminIInv, AdminTypeOK, Account
    <2>3. \A r \in Runs : turn[r].pc # "none" => turn[r].session # s
      BY <1>0, <2>1 DEF TypeIInv, Placed
    <2>4. ASSUME NEW t \in Sessions \ raised
          PROVE  /\ sess'[t].owner = None => Unopened(t)'
                 /\ sess'[t].owner # None => KeptBelow(t, sess[t].clearance)'
      <3>1. (sess[t].owner = None => Unopened(t)) /\ (sess[t].owner # None => KeptBelow(t, sess[t].clearance))
        BY DEF Cleared
      <3>2. CASE t = s
        <4>1. KeptBelow(t, sess[t].clearance)'
          BY <1>0, <2>1, <2>2, <2>3, <3>1, <3>2 DEF Unopened, KeptBelow, Within
        <4> QED BY <1>0, <2>2, <3>2, <4>1
      <3>3. CASE t # s
        <4>1. sess'[t] = sess[t]
          BY <2>2, <3>3
        <4> QED BY <2>1, <3>1, <4>1 DEF Unopened, KeptBelow, Within
      <3> QED BY <3>2, <3>3
    <2> QED BY <2>1, <2>4 DEF Cleared
  <1>5. ASSUME NEW r \in Runs, NEW s \in Sessions, NEW u \in Users, Ask(r, s, u) PROVE Cleared'
    <2>1. /\ turn' = [turn EXCEPT ![r].pc = "queued", ![r].session = s] /\ turn[r].pc = "none"
          /\ account' = account /\ UNCHANGED <<sess, rows, thread, raised>> /\ sess[s].owner # None
      BY <1>5 DEF Ask, admin, Opens, TypeIInv, Tasks
    <2>2. turn[r] \in Turns /\ turn[r].local = << >>
      BY <1>0, <2>1 DEF TypeIInv, Placed, Waiting
    <2>3. turn'[r] = [turn[r] EXCEPT !.pc = "queued", !.session = s] /\ \A q \in Runs \ {r} : turn'[q] = turn[q]
      BY <1>0, <2>1
    <2>4. turn'[r].local = << >> /\ turn'[r].pc = "queued" /\ turn'[r].pc \notin Working
      BY <2>2, <2>3 DEF Turns, Working
    <2>5. ASSUME NEW t \in Sessions \ raised
          PROVE  /\ sess[t].owner = None => Unopened(t)'
                 /\ sess[t].owner # None => KeptBelow(t, sess[t].clearance)'
      <3>1. (sess[t].owner = None => Unopened(t)) /\ (sess[t].owner # None => KeptBelow(t, sess[t].clearance))
        BY DEF Cleared
      <3>2. sess[t].owner = None => Unopened(t)'
        BY <2>1, <3>1 DEF Unopened
      <3>3. ASSUME sess[t].owner # None PROVE KeptBelow(t, sess[t].clearance)'
        <4>1. ASSUME NEW q \in Runs, turn'[q].pc # "none", turn'[q].session = t
              PROVE  Within(turn'[q].local, sess[t].clearance)
                     /\ (turn'[q].pc \in Working => turn'[q].ctx.clearance <= sess[t].clearance)
          <5>1. CASE q = r
            BY <2>4, <5>1 DEF Within
          <5>2. CASE q # r
            BY <2>3, <3>1, <3>3, <4>1, <5>2 DEF KeptBelow
          <5> QED BY <5>1, <5>2
        <4> QED BY <2>1, <3>1, <3>3, <4>1 DEF KeptBelow, Within
      <3> QED BY <3>2, <3>3
    <2> QED BY <2>1, <2>5 DEF Cleared
  <1>6. ASSUME NEW r \in Runs, Rebuild(r) \/ Raise(r) \/ Lose(r) PROVE Cleared'
    <2>1. /\ account' = account /\ UNCHANGED <<sess, rows, thread, raised>> /\ turn[r].pc # "none"
          /\ \E pc \in {"rebuild", "done", "cut"} : turn' = [turn EXCEPT ![r].pc = pc]
      BY <1>6 DEF Rebuild, Raise, Lose, admin
    <2>2. PICK pc \in {"rebuild", "done", "cut"} : turn' = [turn EXCEPT ![r].pc = pc]
      BY <2>1
    <2>3. /\ turn'[r].pc = pc /\ turn'[r].session = turn[r].session /\ turn'[r].local = turn[r].local
          /\ \A q \in Runs \ {r} : turn'[q] = turn[q]
      BY <1>0, <2>2, PcMeans
    <2>4. turn'[r].pc \notin Working
      BY <2>3 DEF Working
    <2> QED BY <2>1, <2>3, <2>4, QuietCleared
  <1>7. ASSUME NEW r \in Runs, Finish(r) PROVE Cleared'
    <2> DEFINE last == turn[r].local[Len(turn[r].local)]
    <2>1. /\ account' = account /\ UNCHANGED <<sess, thread, raised>> /\ turn[r].pc = "finish"
          /\ turn' = [turn EXCEPT ![r].pc = "done"]
          /\ rows' = Append(rows, [session |-> turn[r].session, role |-> "assistant", run |-> r, level |-> last.level])
      BY <1>7 DEF Finish, admin, Answer
    <2>2. /\ turn'[r].pc = "done" /\ turn'[r].session = turn[r].session /\ turn'[r].local = turn[r].local
          /\ \A q \in Runs \ {r} : turn'[q] = turn[q]
      BY <1>0, <2>1, PcMeans
    <2>3. turn[r].session \in Sessions /\ sess[turn[r].session].owner # None /\ turn[r].local # << >>
      BY <1>0, <2>1 DEF TypeIInv, Placed, Working
    <2>4. Len(turn[r].local) \in DOMAIN turn[r].local /\ last.level \in Clearances
      BY <2>3, AnswerLevel
    <2>5. turn[r].session \notin raised => last.level <= sess[turn[r].session].clearance
      <3>1. turn[r].session \notin raised => Within(turn[r].local, sess[turn[r].session].clearance)
        BY <2>1, <2>3 DEF Cleared, KeptBelow
      <3> QED BY <2>4, <3>1 DEF Within
    <2>6. turn'[r].pc \notin Working
      BY <2>2 DEF Working
    <2> HIDE DEF last
    <2> QED BY <2>1, <2>2, <2>4, <2>5, <2>6, QuietCleared
  <1>8. ASSUME NEW r \in Runs, Check(r) PROVE Cleared'
    <2> DEFINE s == turn[r].session
               u == sess[s].owner
    <2>1. /\ account' = account /\ UNCHANGED <<sess, thread, raised>> /\ turn[r].pc = "rebuild" /\ turn[r] \in Turns
          /\ s \in Sessions /\ u \in Users /\ sess[s].clearance \in Clearances /\ 0 \in Clearances
      BY <1>0, <1>8 DEF Check, admin, TypeIInv, Placed, Clearances
    <2>2. CASE ~Admitted(s)
      <3>1. turn' = [turn EXCEPT ![r].pc = "done"] /\ rows' = rows
        BY <1>8, <2>2 DEF Check
      <3>2. /\ turn'[r].pc = "done" /\ turn'[r].session = turn[r].session /\ turn'[r].local = turn[r].local
            /\ \A q \in Runs \ {r} : turn'[q] = turn[q]
        BY <1>0, <3>1, PcMeans
      <3>3. turn'[r].pc \notin Working
        BY <3>2 DEF Working
      <3> QED BY <2>1, <3>1, <3>2, <3>3, QuietCleared
    <2>3. CASE Admitted(s)
      <3>1. /\ rows' = Append(rows, [session |-> s, role |-> "user", run |-> r, level |-> 0])
            /\ turn' = [turn EXCEPT ![r].pc = "start", ![r].ctx = Context(u)]
        BY <1>8, <2>3 DEF Check
      <3>2. Context(u).clearance = account[u].clearance
        BY <2>1, ContextTypes DEF TypeIInv, AdminIInv
      <3>3. turn'[r] = [turn[r] EXCEPT !.pc = "start", !.ctx = Context(u)] /\ \A q \in Runs \ {r} : turn'[q] = turn[q]
        BY <1>0, <3>1
      <3>4. turn'[r].session = s /\ turn'[r].ctx = Context(u) /\ turn'[r].local = turn[r].local
        BY <2>1, <3>3 DEF Turns
      <3>5. 0 <= sess[s].clearance
        BY <1>0, <2>1
      <3>6. turn'[r].ctx.clearance = account[u].clearance
        BY <3>2, <3>4
      <3> QED BY <2>1, <3>1, <3>3, <3>4, <3>5, <3>6, QuietCleared
    <2> QED BY <2>2, <2>3
  <1>9. ASSUME NEW r \in Runs, Start(r) \/ Model(r) \/ Tools(r) \/ Converge(r) PROVE Cleared'
    <2> DEFINE s == turn[r].session
               l == sess[s].clearance
               ms == turn[r].local
    <2>1. turn[r].pc \in Working /\ turn[r].pc # "none"
      BY <1>9 DEF Start, Model, Tools, Converge, Working
    <2>2. /\ s \in Sessions /\ sess[s].owner # None /\ ms \in Seq(Messages) /\ l \in Clearances
          /\ thread[s] \in Seq(Messages)
      BY <1>0, <2>1 DEF TypeIInv, Placed, Turns
    <2>3. s \notin raised => Within(ms, l) /\ Within(thread[s], l) /\ turn[r].ctx.clearance <= l
      BY <2>1, <2>2 DEF Cleared, KeptBelow
    <2>4. 0 <= l
      BY <1>0, <2>2
    <2>5. CASE Start(r)
      <3> DEFINE m == Says("human", r, {}, 0)
      <3>1. m \in Messages /\ Step(r, "model", Append(thread[s], m), 0, FALSE)
        BY <2>5, StartMeans
      <3>2. m.level = 0
        BY DEF Says
      <3> HIDE DEF m
      <3>3. s \notin raised => Within(Append(thread[s], m), l)
        BY <2>2, <2>3, <2>4, <3>1, <3>2, WithinAppend
      <3> QED BY <2>1, <3>1, <3>3, StepCleared
    <2>6. CASE Model(r)
      <3>1. PICK n \in Nat, steps \in Nat, exceeded \in BOOLEAN, level \in Clearances :
                /\ Says("ai", r, Numbered(r, steps, n), level) \in Messages
                /\ Step(r, IF n = 0 THEN "finish" ELSE IF exceeded THEN "converge" ELSE "tools",
                        Append(ms, Says("ai", r, Numbered(r, steps, n), level)), steps, exceeded)
                /\ \A k \in Clearances : (\A i \in DOMAIN ms : ms[i].level <= k) => level <= k
        BY <2>6, ModelMeans
      <3> DEFINE m == Says("ai", r, Numbered(r, steps, n), level)
      <3>2. m.level = level /\ m \in Messages
        BY <3>1 DEF Says
      <3>3. s \notin raised => level <= l
        BY <2>2, <2>3, <3>1 DEF Within
      <3> HIDE DEF m, ms, l
      <3>4. s \notin raised => Within(Append(ms, m), l)
        BY <2>2, <2>3, <3>2, <3>3, WithinAppend
      <3> QED BY <2>1, <3>1, <3>4, StepCleared DEF m, ms, l
    <2>7. CASE Tools(r)
      <3>1. PICK n \in Nat, results \in Seq(Messages) :
              /\ Len(results) = n /\ \A k \in 1 .. n : results[k].level \in {0, turn[r].ctx.clearance}
              /\ Step(r, "model", ms \o results, turn[r].steps, FALSE)
        BY <2>7, ToolsMeans
      <3>2. s \notin raised => Within(results, l)
        BY <2>3, <2>4, <3>1 DEF Within
      <3>3. s \notin raised => Within(ms \o results, l)
        BY <2>2, <2>3, <3>2, WithinConcat
      <3> QED BY <2>1, <3>1, <3>3, StepCleared
    <2>8. CASE Converge(r)
      <3> DEFINE m == Says("ai", r, {}, 0)
      <3>1. m \in Messages /\ Step(r, "finish", Append(ms, m), turn[r].steps, TRUE)
        BY <2>8, ConvergeMeans
      <3>2. m.level = 0
        BY DEF Says
      <3> HIDE DEF m
      <3>3. s \notin raised => Within(Append(ms, m), l)
        BY <2>2, <2>3, <2>4, <3>1, <3>2, WithinAppend
      <3> QED BY <2>1, <3>1, <3>3, StepCleared
    <2> QED BY <1>9, <2>5, <2>6, <2>7, <2>8
  <1> QED BY <1>1, <1>2, <1>3, <1>4, <1>5, <1>6, <1>7, <1>8, <1>9 DEF Next, Proceed

LEMMA ClearedMeans ==
    ASSUME TypeIInv, Cleared
    PROVE  NotLaundered
  <1> SUFFICES ASSUME NEW s \in Sessions \ raised, NEW u \in Users, Opens(s, Context(u)),
                      NEW i \in DOMAIN rows, rows[i].session = s
               PROVE  rows[i].level <= account[u].clearance
    BY DEF NotLaundered
  <1>1. Context(u).user = u /\ Context(u).clearance = account[u].clearance /\ account[u].clearance \in Clearances
    BY ContextTypes DEF TypeIInv, AdminIInv, AdminTypeOK, Account
  <1>2. sess[s].owner # None /\ account[u].clearance >= sess[s].clearance
    BY <1>1 DEF Opens
  <1>3. rows[i].level <= sess[s].clearance
    BY <1>2 DEF Cleared, KeptBelow
  <1>4. rows[i].level \in Clearances /\ sess[s].clearance \in Clearances
    <2>1. rows[i] \in Rows
      BY DEF TypeIInv
    <2> QED BY <2>1 DEF Rows, TypeIInv
  <1> QED BY <1>1, <1>2, <1>3, <1>4 DEF Clearances

(* Clearance is not laundered: who can open a session, never raised above   *)
(* what its owner had when it was created, may read all that is in it.      *)
THEOREM ClearanceNotLaundered == FairSpec => []NotLaundered
  <1>1. Init => TypeIInv /\ Cleared
    <2>1. Init => Cleared
      BY DEF Init, Cleared, NoSession, Unopened
    <2> QED BY <2>1, InitTypes
  <1>2. TypeIInv /\ Cleared /\ [Next]_vars => (TypeIInv /\ Cleared)'
    BY NextTypes, NextCleared
  <1> QED BY <1>1, <1>2, ClearedMeans, PTL DEF FairSpec

----------------------------------------------------------------------------
(* Questions and answers.                                                   *)

RowsOf(r, role) == {i \in DOMAIN rows : rows[i].run = r /\ rows[i].role = role}

(* A question is there once its run is, an answer once its job succeeded.   *)
Counted == \A r \in Runs :
    /\ run[r] = "none" => RowsOf(r, "user") = {}
    /\ run[r] # "none" => \E i \in DOMAIN rows : RowsOf(r, "user") = {i}
    /\ job[r] # "succeeded" => RowsOf(r, "assistant") = {}
    /\ job[r] = "succeeded" => \E i \in DOMAIN rows : RowsOf(r, "assistant") = {i}
    /\ \A i \in RowsOf(r, "user"), j \in RowsOf(r, "assistant") : i < j

LEMMA CountedSame ==
    ASSUME Counted, rows' = rows,
           \A r \in Runs : (run'[r] = "none" <=> run[r] = "none") /\ (job'[r] = "succeeded" <=> job[r] = "succeeded")
    PROVE  Counted'
  <1>1. \A r, role : RowsOf(r, role)' = RowsOf(r, role)
    BY DEF RowsOf
  <1> QED BY <1>1 DEF Counted

LEMMA RowCounted ==
    ASSUME TypeIInv, NEW s \in Sessions, NEW role \in {"user", "assistant"}, NEW r \in Runs, NEW l \in Clearances,
           rows' = Append(rows, [session |-> s, role |-> role, run |-> r, level |-> l]), NEW q, NEW kind
    PROVE  /\ RowsOf(q, kind) \subseteq 1 .. Len(rows) /\ Len(rows) \in Nat
           /\ DOMAIN rows = 1 .. Len(rows) /\ DOMAIN rows' = 1 .. Len(rows) + 1
           /\ q = r /\ kind = role => RowsOf(q, kind)' = RowsOf(q, kind) \cup {Len(rows) + 1}
           /\ ~(q = r /\ kind = role) => RowsOf(q, kind)' = RowsOf(q, kind)
  <1> DEFINE row == [session |-> s, role |-> role, run |-> r, level |-> l]
  <1>1. /\ DOMAIN rows = 1 .. Len(rows) /\ Len(rows) \in Nat /\ DOMAIN rows' = 1 .. Len(rows) + 1
        /\ rows'[Len(rows) + 1] = row /\ \A i \in 1 .. Len(rows) : rows'[i] = rows[i]
    BY RowAdded
  <1>2. row.run = r /\ row.role = role
    OBVIOUS
  <1> HIDE DEF row
  <1>3. RowsOf(q, kind) \subseteq 1 .. Len(rows)
    BY <1>1 DEF RowsOf
  <1>4. ASSUME q = r, kind = role PROVE RowsOf(q, kind)' = RowsOf(q, kind) \cup {Len(rows) + 1}
    BY <1>1, <1>2, <1>4 DEF RowsOf
  <1>5. ASSUME ~(q = r /\ kind = role) PROVE RowsOf(q, kind)' = RowsOf(q, kind)
    BY <1>1, <1>2, <1>5 DEF RowsOf
  <1> QED BY <1>1, <1>3, <1>4, <1>5

LEMMA NextCounted ==
    ASSUME TypeIInv, Counted, [Next]_vars
    PROVE  Counted'
  <1>0. run \in [Runs -> {"none", "running", "succeeded", "failed"}]
        /\ job \in [Runs -> {"none", "pending", "running", "succeeded", "failed"}] /\ Tasks
    BY DEF TypeIInv
  <1>1. CASE Administer \/ UNCHANGED vars
    BY <1>1, CountedSame DEF Administer, vars, agent
  <1>2. CASE Restart
    <2>1. rows' = rows /\ run' = run
          /\ job' = [r \in Runs |-> IF job[r] \in {"pending", "running"} THEN "failed" ELSE job[r]]
      BY <1>2 DEF Restart
    <2> QED BY <1>0, <2>1, CountedSame
  <1>3. ASSUME NEW s \in Sessions, NEW u \in Users, CreateSession(s, u) PROVE Counted'
    BY <1>3, CountedSame DEF CreateSession
  <1>8. ASSUME NEW r \in Runs, NEW s \in Sessions, NEW u \in Users, Ask(r, s, u) PROVE Counted'
    BY <1>0, <1>8, CountedSame DEF Ask
  <1>4. ASSUME NEW r \in Runs, Start(r) \/ Model(r) \/ Tools(r) \/ Converge(r) PROVE Counted'
    <2>1. rows' = rows /\ run' = run /\ job' = job
      BY <1>4 DEF Start, Model, Tools, Converge, Step
    <2> QED BY <2>1, CountedSame
  <1>5. ASSUME NEW r \in Runs, Rebuild(r) \/ Raise(r) \/ Lose(r) PROVE Counted'
    <2>1. turn[r].pc \in {"queued", "rebuild"} \cup Working
      BY <1>5 DEF Rebuild, Raise, Lose, Working
    <2>2. job[r] # "succeeded"
      BY <1>0, <2>1 DEF Tasks, Working
    <2>3. Raise(r) => run[r] # "none"
      BY <1>0 DEF Raise, Tasks, Working
    <2> QED BY <1>0, <1>5, <2>2, <2>3, CountedSame DEF Rebuild, Raise, Lose
  <1>6. ASSUME NEW r \in Runs, Check(r) PROVE Counted'
    <2> DEFINE s == turn[r].session
    <2>1. turn[r].pc = "rebuild" /\ s \in Sessions /\ run[r] = "none" /\ job[r] = "running" /\ 0 \in Clearances
      <3>1. turn[r].pc = "rebuild" /\ 0 \in Clearances
        BY <1>6 DEF Check, Clearances
      <3>2. s \in Sessions
        BY <3>1 DEF TypeIInv, Placed
      <3>3. run[r] = "none" /\ job[r] = "running"
        BY <1>0, <3>1 DEF Tasks, Working
      <3> QED BY <3>1, <3>2, <3>3
    <2>2. CASE ~Admitted(s)
      BY <1>0, <1>6, <2>1, <2>2, CountedSame DEF Check
    <2>3. CASE Admitted(s)
      <3>1. /\ run' = [run EXCEPT ![r] = "running"] /\ job' = job
            /\ rows' = Append(rows, [session |-> s, role |-> "user", run |-> r, level |-> 0])
        BY <1>6, <2>3 DEF Check
      <3>2. ASSUME NEW q \in Runs
            PROVE  /\ RowsOf(q, "user") \subseteq 1 .. Len(rows) /\ Len(rows) \in Nat
                   /\ DOMAIN rows = 1 .. Len(rows) /\ DOMAIN rows' = 1 .. Len(rows) + 1
                   /\ RowsOf(q, "user")' = IF q = r THEN RowsOf(q, "user") \cup {Len(rows) + 1} ELSE RowsOf(q, "user")
                   /\ RowsOf(q, "assistant")' = RowsOf(q, "assistant")
        BY <2>1, <3>1, RowCounted
      <3>3. ASSUME NEW q \in Runs
            PROVE  /\ run'[q] = "none" => RowsOf(q, "user")' = {}
                   /\ run'[q] # "none" => \E i \in DOMAIN rows' : RowsOf(q, "user")' = {i}
                   /\ job'[q] # "succeeded" => RowsOf(q, "assistant")' = {}
                   /\ job'[q] = "succeeded" => \E i \in DOMAIN rows' : RowsOf(q, "assistant")' = {i}
                   /\ \A i \in RowsOf(q, "user")', j \in RowsOf(q, "assistant")' : i < j
        <4>1. CASE q = r
          <5>1. run'[q] = "running" /\ job'[q] = "running" /\ RowsOf(q, "user") = {} /\ RowsOf(q, "assistant") = {}
            BY <1>0, <2>1, <3>1, <4>1 DEF Counted
          <5>2. RowsOf(q, "user")' = {} \cup {Len(rows) + 1}
            BY <3>2, <4>1, <5>1
          <5>3. RowsOf(q, "user")' = {Len(rows) + 1} /\ Len(rows) + 1 \in DOMAIN rows'
            BY <3>2, <5>2
          <5> QED BY <3>2, <5>1, <5>3
        <4>2. CASE q # r
          <5>1. run'[q] = run[q] /\ job'[q] = job[q]
            BY <1>0, <3>1, <4>2
          <5>2. RowsOf(q, "user")' = RowsOf(q, "user") /\ RowsOf(q, "assistant")' = RowsOf(q, "assistant")
                /\ DOMAIN rows \subseteq DOMAIN rows'
            BY <3>2, <4>2
          <5> QED BY <5>1, <5>2 DEF Counted
        <4> QED BY <4>1, <4>2
      <3> QED BY <3>3 DEF Counted
    <2> QED BY <2>2, <2>3
  <1>7. ASSUME NEW r \in Runs, Finish(r) PROVE Counted'
    <2> DEFINE s == turn[r].session
               l == turn[r].local[Len(turn[r].local)].level
    <2>1. turn[r].pc = "finish" /\ s \in Sessions /\ run[r] = "running" /\ job[r] = "running"
          /\ turn[r].local # << >>
      BY <1>0, <1>7 DEF Finish, TypeIInv, Placed, Tasks, Working
    <2>2. l \in Clearances
      BY <2>1, AnswerLevel
    <2>3. /\ run' = [run EXCEPT ![r] = IF turn[r].exceeded THEN "failed" ELSE "succeeded"]
          /\ job' = [job EXCEPT ![r] = "succeeded"]
          /\ rows' = Append(rows, [session |-> s, role |-> "assistant", run |-> r, level |-> l])
      BY <1>7 DEF Finish, Answer
    <2>4. ASSUME NEW q \in Runs
          PROVE  /\ RowsOf(q, "user") \subseteq 1 .. Len(rows) /\ Len(rows) \in Nat
                 /\ DOMAIN rows = 1 .. Len(rows) /\ DOMAIN rows' = 1 .. Len(rows) + 1
                 /\ RowsOf(q, "assistant")' = IF q = r THEN RowsOf(q, "assistant") \cup {Len(rows) + 1} ELSE RowsOf(q, "assistant")
                 /\ RowsOf(q, "user")' = RowsOf(q, "user")
      <3> HIDE DEF s, l
      <3> QED BY <2>1, <2>2, <2>3, RowCounted
    <2>5. ASSUME NEW q \in Runs
          PROVE  /\ run'[q] = "none" => RowsOf(q, "user")' = {}
                 /\ run'[q] # "none" => \E i \in DOMAIN rows' : RowsOf(q, "user")' = {i}
                 /\ job'[q] # "succeeded" => RowsOf(q, "assistant")' = {}
                 /\ job'[q] = "succeeded" => \E i \in DOMAIN rows' : RowsOf(q, "assistant")' = {i}
                 /\ \A i \in RowsOf(q, "user")', j \in RowsOf(q, "assistant")' : i < j
      <3>1. CASE q = r
        <4>1. run'[q] # "none" /\ job'[q] = "succeeded" /\ RowsOf(q, "assistant") = {}
              /\ \E i \in DOMAIN rows : RowsOf(q, "user") = {i}
          BY <1>0, <2>1, <2>3, <3>1 DEF Counted
        <4>2. RowsOf(q, "assistant")' = {} \cup {Len(rows) + 1}
          BY <2>4, <3>1, <4>1
        <4>3. RowsOf(q, "assistant")' = {Len(rows) + 1} /\ Len(rows) + 1 \in DOMAIN rows'
          BY <2>4, <4>2
        <4>4. PICK k \in DOMAIN rows : RowsOf(q, "user") = {k}
          BY <4>1
        <4>5. RowsOf(q, "user")' = {k} /\ k \in DOMAIN rows' /\ k < Len(rows) + 1
          BY <2>4, <3>1, <4>4
        <4> QED BY <4>1, <4>3, <4>5
      <3>2. CASE q # r
        <4>1. run'[q] = run[q] /\ job'[q] = job[q]
          BY <1>0, <2>3, <3>2
        <4>2. RowsOf(q, "user")' = RowsOf(q, "user") /\ RowsOf(q, "assistant")' = RowsOf(q, "assistant")
              /\ DOMAIN rows \subseteq DOMAIN rows'
          BY <2>4, <3>2
        <4> QED BY <4>1, <4>2 DEF Counted
      <3> QED BY <3>1, <3>2
    <2> QED BY <2>5 DEF Counted
  <1> QED BY <1>1, <1>2, <1>3, <1>4, <1>5, <1>6, <1>7, <1>8 DEF Next, Proceed

(* Each question that was admitted is in the database once, and after it    *)
(* one answer if and only if its job succeeded.                             *)
THEOREM QuestionsAnswered == FairSpec => []QuestionAnswered
  <1>1. Init => TypeIInv /\ Counted
    <2>1. Init => Counted
      BY DEF Init, Counted, RowsOf
    <2> QED BY <2>1, InitTypes
  <1>2. TypeIInv /\ Counted /\ [Next]_vars => (TypeIInv /\ Counted)'
    BY NextTypes, NextCounted
  <1>3. Counted => QuestionAnswered
    <2> SUFFICES ASSUME Counted, NEW r \in Runs
                 PROVE  /\ Cardinality(RowsOf(r, "user")) = IF run[r] = "none" THEN 0 ELSE 1
                        /\ Cardinality(RowsOf(r, "assistant")) = IF job[r] = "succeeded" THEN 1 ELSE 0
                        /\ \A i \in RowsOf(r, "user"), j \in RowsOf(r, "assistant") : i < j
      BY DEF QuestionAnswered, RowsOf
    <2>1. Cardinality({}) = 0 /\ \A i : Cardinality({i}) = 1
      BY FS_EmptySet, FS_Singleton
    <2> QED BY <2>1 DEF Counted
  <1> QED BY <1>1, <1>2, <1>3, PTL DEF FairSpec

----------------------------------------------------------------------------
(* What a model is shown.                                                   *)

(* A tool's result follows the message that asked for it, in the same turn. *)
Coherent(ms) == \A i \in DOMAIN ms : ms[i].type = "tool" =>
    \E j \in 1 .. i - 1 : /\ ms[j].type = "ai" /\ ms[i].calls \subseteq ms[j].calls
                          /\ \A k \in j .. i : ms[k].type # "human"
(* Only turns that have started are heard of.                               *)
Quoted(turns, ms) == \A i \in DOMAIN ms : turns[ms[i].run].pc \notin Waiting
(* A turn's own messages are the last of its copy, from its question on.    *)
OwnTurn(ms, r) == \E h \in DOMAIN ms :
    /\ ms[h].type = "human" /\ \A k \in h + 1 .. Len(ms) : ms[k].type # "human"
    /\ \A k \in 1 .. h - 1 : ms[k].run # r
Coherence ==
    /\ \A s \in Sessions : Coherent(thread[s]) /\ Quoted(turn, thread[s])
    /\ \A r \in Runs : /\ Coherent(turn[r].local) /\ Quoted(turn, turn[r].local)
                       /\ turn[r].pc \in {"model", "tools"} => OwnTurn(turn[r].local, r)

(* The calls of a message have their results, or the budget of its turn was *)
(* exceeded.                                                                *)
Settled(turns, ms, i) ==
    \/ turns[ms[i].run].exceeded
    \/ \A id \in ms[i].calls : \E j \in i + 1 .. Len(ms) : ms[j].calls = {id}
AllButLast(turns, ms) == \A i \in DOMAIN ms : ms[i].type = "ai" /\ i # Len(ms) => Settled(turns, ms, i)
Complete(turns, ms) == \A i \in DOMAIN ms : ms[i].type = "ai" => Settled(turns, ms, i)

(* While the turns of a session follow each other, at most one is under     *)
(* way, and calls are open only while it dispatches them.                   *)
Busy(s, pcs) == {r \in Runs : turn[r].pc \in pcs /\ turn[r].session = s}
Forgetting == setting.saver = "none" => \A s \in Sessions : thread[s] = << >>
Completed == \A s \in Sessions \ disturbed :
    /\ \A q, r \in Busy(s, Working) : q = r
    /\ Busy(s, {"tools"}) = {} => Complete(turn, thread[s])
    /\ \A r \in Busy(s, {"model", "converge", "finish"}) : Complete(turn, turn[r].local)
    /\ \A r \in Busy(s, {"tools"}) : AllButLast(turn, turn[r].local)
Spending == \A r \in Runs : turn[r].pc \in {"model", "tools"} => ~turn[r].exceeded

LEMMA Added ==
    ASSUME NEW ms \in Seq(Messages), NEW m \in Messages
    PROVE  /\ DOMAIN ms = 1 .. Len(ms) /\ DOMAIN Append(ms, m) = 1 .. Len(ms) + 1 /\ Len(ms) \in Nat
           /\ Len(Append(ms, m)) = Len(ms) + 1 /\ Append(ms, m) \in Seq(Messages)
           /\ Append(ms, m)[Len(ms) + 1] = m /\ \A i \in 1 .. Len(ms) : Append(ms, m)[i] = ms[i]
  OBVIOUS

LEMMA Joined ==
    ASSUME NEW ms \in Seq(Messages), NEW ns \in Seq(Messages)
    PROVE  /\ DOMAIN ms = 1 .. Len(ms) /\ DOMAIN ns = 1 .. Len(ns) /\ DOMAIN (ms \o ns) = 1 .. Len(ms) + Len(ns)
           /\ Len(ms) \in Nat /\ Len(ns) \in Nat /\ Len(ms \o ns) = Len(ms) + Len(ns) /\ ms \o ns \in Seq(Messages)
           /\ \A i \in 1 .. Len(ms) : (ms \o ns)[i] = ms[i]
           /\ \A k \in 1 .. Len(ns) : (ms \o ns)[Len(ms) + k] = ns[k]
           /\ \A i \in 1 .. Len(ms) + Len(ns) : i \in 1 .. Len(ms) \/ \E k \in 1 .. Len(ns) : i = Len(ms) + k
  <1>1. Len(ms) \in Nat /\ Len(ns) \in Nat
    OBVIOUS
  <1>2. /\ DOMAIN ms = 1 .. Len(ms) /\ DOMAIN ns = 1 .. Len(ns) /\ DOMAIN (ms \o ns) = 1 .. Len(ms) + Len(ns)
        /\ Len(ms \o ns) = Len(ms) + Len(ns) /\ ms \o ns \in Seq(Messages)
        /\ \A i \in 1 .. Len(ms) + Len(ns) : (ms \o ns)[i] = IF i <= Len(ms) THEN ms[i] ELSE ns[i - Len(ms)]
    OBVIOUS
  <1>3. \A i \in 1 .. Len(ms) : (ms \o ns)[i] = ms[i]
    BY <1>1, <1>2
  <1>4. ASSUME NEW k \in 1 .. Len(ns) PROVE (ms \o ns)[Len(ms) + k] = ns[k]
    <2>1. Len(ms) + k \in 1 .. Len(ms) + Len(ns) /\ ~(Len(ms) + k <= Len(ms)) /\ Len(ms) + k - Len(ms) = k
      BY <1>1
    <2> QED BY <1>2, <2>1
  <1>5. ASSUME NEW i \in 1 .. Len(ms) + Len(ns), i \notin 1 .. Len(ms)
        PROVE  \E k \in 1 .. Len(ns) : i = Len(ms) + k
    <2>1. i - Len(ms) \in 1 .. Len(ns) /\ i = Len(ms) + (i - Len(ms))
      BY <1>1, <1>5
    <2> QED BY <2>1
  <1> QED BY <1>1, <1>2, <1>3, <1>4, <1>5

LEMMA CoherentAppend ==
    ASSUME NEW ms \in Seq(Messages), NEW m \in Messages, m.type # "tool", Coherent(ms)
    PROVE  Coherent(Append(ms, m))
  <1> DEFINE ns == Append(ms, m)
  <1>1. /\ DOMAIN ms = 1 .. Len(ms) /\ DOMAIN ns = 1 .. Len(ms) + 1 /\ Len(ms) \in Nat
        /\ ns[Len(ms) + 1] = m /\ \A i \in 1 .. Len(ms) : ns[i] = ms[i]
    BY Added
  <1> HIDE DEF ns
  <1>2. ASSUME NEW i \in DOMAIN ns, ns[i].type = "tool"
        PROVE  \E j \in 1 .. i - 1 : /\ ns[j].type = "ai" /\ ns[i].calls \subseteq ns[j].calls
                                     /\ \A k \in j .. i : ns[k].type # "human"
    <2>1. i \in 1 .. Len(ms)
      BY <1>1, <1>2
    <2>2. PICK j \in 1 .. i - 1 : /\ ms[j].type = "ai" /\ ms[i].calls \subseteq ms[j].calls
                                  /\ \A k \in j .. i : ms[k].type # "human"
      BY <1>1, <1>2, <2>1 DEF Coherent
    <2>3. j \in 1 .. Len(ms) /\ \A k \in j .. i : k \in 1 .. Len(ms)
      BY <2>1
    <2> QED BY <1>1, <2>1, <2>2, <2>3
  <1> QED BY <1>2 DEF Coherent, ns

LEMMA CoherentJoined ==
    ASSUME NEW ms \in Seq(Messages), NEW results \in Seq(Messages), Coherent(ms), Len(ms) > 0,
           ms[Len(ms)].type = "ai",
           \A k \in 1 .. Len(results) : results[k].type = "tool" /\ results[k].calls \subseteq ms[Len(ms)].calls
    PROVE  Coherent(ms \o results)
  <1> DEFINE ns == ms \o results
             n == Len(ms)
  <1>1. /\ DOMAIN ms = 1 .. n /\ DOMAIN ns = 1 .. n + Len(results) /\ n \in Nat /\ Len(results) \in Nat
        /\ \A i \in 1 .. n : ns[i] = ms[i]
        /\ \A k \in 1 .. Len(results) : ns[n + k] = results[k]
        /\ \A i \in 1 .. n + Len(results) : i \in 1 .. n \/ \E k \in 1 .. Len(results) : i = n + k
    BY Joined
  <1>0. n > 0 /\ n \in 1 .. n
    BY <1>1
  <1> HIDE DEF ns
  <1>2. ASSUME NEW i \in DOMAIN ns, ns[i].type = "tool"
        PROVE  \E j \in 1 .. i - 1 : /\ ns[j].type = "ai" /\ ns[i].calls \subseteq ns[j].calls
                                     /\ \A k \in j .. i : ns[k].type # "human"
    <2>1. CASE i \in 1 .. n
      <3>2. PICK j \in 1 .. i - 1 : /\ ms[j].type = "ai" /\ ms[i].calls \subseteq ms[j].calls
                                    /\ \A k \in j .. i : ms[k].type # "human"
        BY <1>1, <1>2, <2>1 DEF Coherent
      <3>3. j \in 1 .. n /\ \A k \in j .. i : k \in 1 .. n
        BY <2>1
      <3> QED BY <1>1, <2>1, <3>2, <3>3
    <2>2. CASE i \notin 1 .. n
      <3>1. PICK k \in 1 .. Len(results) : i = n + k
        BY <1>1, <2>2
      <3>2. n \in 1 .. i - 1 /\ ns[n] = ms[n] /\ ns[i] = results[k]
        BY <1>0, <1>1, <3>1
      <3>3. ASSUME NEW x \in n .. i PROVE ns[x].type # "human"
        <4>1. CASE x = n
          BY <3>2, <4>1
        <4>2. CASE x # n
          <5>0. x \in Int /\ n <= x /\ x <= n + k /\ k <= Len(results) /\ k \in Int
            BY <1>1, <3>1
          <5>1. x \in 1 .. n + Len(results) /\ x \notin 1 .. n
            <6> HIDE DEF n
            <6> QED BY <1>1, <4>2, <5>0
          <5>2. PICK y \in 1 .. Len(results) : x = n + y
            BY <1>1, <5>1
          <5>3. ns[x] = results[y] /\ results[y].type = "tool"
            BY <1>1, <5>2
          <5> QED BY <5>3
        <4> QED BY <4>1, <4>2
      <3> QED BY <3>1, <3>2, <3>3
    <2> QED BY <2>1, <2>2
  <1> QED BY <1>2 DEF Coherent, ns

LEMMA OwnQuestion ==
    ASSUME NEW ms \in Seq(Messages), NEW m \in Messages, NEW r, m.type = "human", \A i \in DOMAIN ms : ms[i].run # r
    PROVE  OwnTurn(Append(ms, m), r)
  <1> DEFINE ns == Append(ms, m)
             n == Len(ms)
  <1>1. /\ DOMAIN ms = 1 .. n /\ DOMAIN ns = 1 .. n + 1 /\ n \in Nat /\ Len(ns) = n + 1
        /\ ns[n + 1] = m /\ \A i \in 1 .. n : ns[i] = ms[i]
    BY Added
  <1> HIDE DEF ns, n
  <1>2. n + 1 \in DOMAIN ns /\ (\A k \in n + 1 + 1 .. Len(ns) : FALSE) /\ \A k \in 1 .. (n + 1) - 1 : k \in 1 .. n
    BY <1>1
  <1> QED BY <1>1, <1>2 DEF OwnTurn, ns

LEMMA OwnAppend ==
    ASSUME NEW ms \in Seq(Messages), NEW m \in Messages, NEW r, m.type # "human", OwnTurn(ms, r)
    PROVE  OwnTurn(Append(ms, m), r)
  <1> DEFINE ns == Append(ms, m)
             n == Len(ms)
  <1>1. /\ DOMAIN ms = 1 .. n /\ DOMAIN ns = 1 .. n + 1 /\ n \in Nat /\ Len(ns) = n + 1
        /\ ns[n + 1] = m /\ \A i \in 1 .. n : ns[i] = ms[i]
    BY Added
  <1>2. PICK h \in 1 .. n : /\ ms[h].type = "human" /\ \A k \in h + 1 .. n : ms[k].type # "human"
                            /\ \A k \in 1 .. h - 1 : ms[k].run # r
    BY <1>1 DEF OwnTurn
  <1> HIDE DEF ns, n
  <1>3. ASSUME NEW k \in h + 1 .. Len(ns) PROVE ns[k].type # "human"
    <2>1. k \in h + 1 .. n \/ k = n + 1
      BY <1>1, <1>2
    <2>2. k \in h + 1 .. n => k \in 1 .. n
      BY <1>1, <1>2
    <2> QED BY <1>1, <1>2, <2>1, <2>2
  <1>4. \A k \in 1 .. h - 1 : k \in 1 .. n
    BY <1>1, <1>2
  <1>5. h \in DOMAIN ns /\ ns[h] = ms[h]
    BY <1>1, <1>2
  <1> QED BY <1>1, <1>2, <1>3, <1>4, <1>5 DEF OwnTurn, ns

LEMMA OwnJoined ==
    ASSUME NEW ms \in Seq(Messages), NEW results \in Seq(Messages), NEW r, OwnTurn(ms, r),
           \A k \in 1 .. Len(results) : results[k].type = "tool"
    PROVE  OwnTurn(ms \o results, r)
  <1> DEFINE ns == ms \o results
             n == Len(ms)
  <1>1. /\ DOMAIN ms = 1 .. n /\ DOMAIN ns = 1 .. n + Len(results) /\ n \in Nat /\ Len(results) \in Nat
        /\ Len(ns) = n + Len(results)
        /\ \A i \in 1 .. n : ns[i] = ms[i]
        /\ \A k \in 1 .. Len(results) : ns[n + k] = results[k]
        /\ \A i \in 1 .. n + Len(results) : i \in 1 .. n \/ \E k \in 1 .. Len(results) : i = n + k
    BY Joined
  <1>2. PICK h \in 1 .. n : /\ ms[h].type = "human" /\ \A k \in h + 1 .. n : ms[k].type # "human"
                            /\ \A k \in 1 .. h - 1 : ms[k].run # r
    BY <1>1 DEF OwnTurn
  <1> HIDE DEF ns, n
  <1>3. ASSUME NEW k \in h + 1 .. Len(ns) PROVE ns[k].type # "human"
    <2>1. k \in 1 .. n + Len(results) /\ (k \in 1 .. n => k \in h + 1 .. n)
      BY <1>1, <1>2
    <2>2. CASE k \in 1 .. n
      BY <1>1, <1>2, <2>1, <2>2
    <2>3. CASE k \notin 1 .. n
      <3>1. PICK y \in 1 .. Len(results) : k = n + y
        BY <1>1, <2>1, <2>3
      <3>2. ns[k] = results[y] /\ results[y].type = "tool"
        BY <1>1, <3>1
      <3> QED BY <3>2
    <2> QED BY <2>2, <2>3
  <1>4. \A k \in 1 .. h - 1 : k \in 1 .. n
    BY <1>1, <1>2
  <1>5. h \in DOMAIN ns /\ ns[h] = ms[h]
    BY <1>1, <1>2
  <1> QED BY <1>1, <1>2, <1>3, <1>4, <1>5 DEF OwnTurn, ns

LEMMA QuotedSame ==
    ASSUME NEW ms \in Seq(Messages), NEW turns, NEW after, Quoted(turns, ms),
           \A q \in Runs : turns[q].pc \notin Waiting => after[q].pc \notin Waiting
    PROVE  Quoted(after, ms)
  <1>1. \A i \in DOMAIN ms : ms[i] \in Messages
    OBVIOUS
  <1>2. \A i \in DOMAIN ms : ms[i].run \in Runs
    BY <1>1 DEF Messages
  <1> QED BY <1>2 DEF Quoted

LEMMA QuotedAppend ==
    ASSUME NEW ms \in Seq(Messages), NEW m \in Messages, NEW turns, Quoted(turns, ms), turns[m.run].pc \notin Waiting
    PROVE  Quoted(turns, Append(ms, m))
  BY Added DEF Quoted

LEMMA QuotedJoined ==
    ASSUME NEW ms \in Seq(Messages), NEW results \in Seq(Messages), NEW turns, NEW r, Quoted(turns, ms),
           turns[r].pc \notin Waiting, \A k \in 1 .. Len(results) : results[k].run = r
    PROVE  Quoted(turns, ms \o results)
  <1> DEFINE ns == ms \o results
  <1>1. /\ DOMAIN ms = 1 .. Len(ms) /\ DOMAIN ns = 1 .. Len(ms) + Len(results)
        /\ \A i \in 1 .. Len(ms) : ns[i] = ms[i]
        /\ \A k \in 1 .. Len(results) : ns[Len(ms) + k] = results[k]
        /\ \A i \in 1 .. Len(ms) + Len(results) : i \in 1 .. Len(ms) \/ \E k \in 1 .. Len(results) : i = Len(ms) + k
    BY Joined
  <1> HIDE DEF ns
  <1>2. ASSUME NEW i \in DOMAIN ns PROVE turns[ns[i].run].pc \notin Waiting
    <2>1. CASE i \in 1 .. Len(ms)
      BY <1>1, <2>1 DEF Quoted
    <2>2. CASE i \notin 1 .. Len(ms)
      <3>1. PICK k \in 1 .. Len(results) : i = Len(ms) + k
        BY <1>1, <1>2, <2>2
      <3>2. ns[i] = results[k] /\ results[k].run = r
        BY <1>1, <3>1
      <3> QED BY <3>2
    <2> QED BY <2>1, <2>2
  <1> QED BY <1>2 DEF Quoted, ns

(* No worker goes back to where it had said nothing.                        *)
LEMMA NeverWaitsAgain ==
    ASSUME TypeIInv, [Next]_vars
    PROVE  \A q \in Runs : turn[q].pc \notin Waiting => turn'[q].pc \notin Waiting
  <1>0. turn \in [Runs -> Turns]
    BY DEF TypeIInv
  <1>1. CASE Administer \/ UNCHANGED vars
    BY <1>1 DEF Administer, vars, agent
  <1>2. CASE Restart
    <2> SUFFICES ASSUME NEW q \in Runs, turn[q].pc \notin Waiting PROVE turn'[q].pc \notin Waiting
      OBVIOUS
    <2>1. turn[q] \in Turns
      BY <1>0
    <2>2. CASE InFlight(q)
      <3>1. turn'[q] = [turn[q] EXCEPT !.pc = "cut"]
        BY <1>2, <2>2 DEF Restart
      <3> QED BY <2>1, <3>1 DEF Turns, Waiting
    <2>3. CASE ~InFlight(q)
      <3>1. turn'[q] = turn[q]
        BY <1>2, <2>3 DEF Restart
      <3> QED BY <3>1
    <2> QED BY <2>2, <2>3
  <1>3. ASSUME NEW s \in Sessions, NEW u \in Users, CreateSession(s, u)
        PROVE  \A q \in Runs : turn[q].pc \notin Waiting => turn'[q].pc \notin Waiting
    BY <1>3 DEF CreateSession
  <1>4. ASSUME NEW r \in Runs, NEW s \in Sessions, NEW u \in Users, Ask(r, s, u)
        PROVE  \A q \in Runs : turn[q].pc \notin Waiting => turn'[q].pc \notin Waiting
    <2>1. turn[r].pc = "none" /\ turn' = [turn EXCEPT ![r].pc = "queued", ![r].session = s]
      BY <1>4 DEF Ask, TypeIInv, Tasks
    <2>2. \A q \in Runs \ {r} : turn'[q] = turn[q]
      BY <1>0, <2>1
    <2> QED BY <2>1, <2>2 DEF Waiting
  <1>5. ASSUME NEW r \in Runs, Rebuild(r) \/ Finish(r) \/ Raise(r) \/ Lose(r)
        PROVE  \A q \in Runs : turn[q].pc \notin Waiting => turn'[q].pc \notin Waiting
    <2>1. PICK pc \in {"rebuild", "done", "cut"} : turn' = [turn EXCEPT ![r].pc = pc]
                                                 /\ (pc = "rebuild" => turn[r].pc = "queued")
      BY <1>5 DEF Rebuild, Finish, Raise, Lose
    <2>2. turn'[r].pc = pc /\ \A q \in Runs \ {r} : turn'[q] = turn[q]
      BY <1>0, <2>1, PcMeans DEF Working
    <2> QED BY <2>1, <2>2 DEF Waiting
  <1>6. ASSUME NEW r \in Runs, Check(r)
        PROVE  \A q \in Runs : turn[q].pc \notin Waiting => turn'[q].pc \notin Waiting
    <2>1. turn[r].pc = "rebuild" /\ \A q \in Runs \ {r} : turn'[q] = turn[q]
      BY <1>0, <1>6 DEF Check
    <2> QED BY <2>1 DEF Waiting
  <1>7. ASSUME NEW r \in Runs, Start(r) \/ Model(r) \/ Tools(r) \/ Converge(r)
        PROVE  \A q \in Runs : turn[q].pc \notin Waiting => turn'[q].pc \notin Waiting
    <2>1. \E pc \in {"model", "tools", "converge", "finish"} :
            \E messages, steps, exceeded : Step(r, pc, messages, steps, exceeded)
      BY <1>7 DEF Start, Model, Tools, Converge
    <2>2. PICK pc \in {"model", "tools", "converge", "finish"} :
            \E messages, steps, exceeded : Step(r, pc, messages, steps, exceeded)
      BY <2>1
    <2>5. PICK messages, steps, exceeded : Step(r, pc, messages, steps, exceeded)
      BY <2>2
    <2>3. /\ turn'[r] = [pc |-> pc, session |-> turn[r].session, ctx |-> turn[r].ctx,
                         local |-> messages, steps |-> steps, exceeded |-> exceeded]
          /\ DOMAIN turn' = Runs /\ \A q \in Runs \ {r} : turn'[q] = turn[q]
      BY <2>5, StepMeans
    <2>4. turn'[r].pc = pc
      BY <2>3
    <2> QED BY <2>3, <2>4 DEF Waiting
  <1> QED BY <1>1, <1>2, <1>3, <1>4, <1>5, <1>6, <1>7 DEF Next, Proceed

(* A step of the graph that leaves coherent messages.                       *)
LEMMA StepCoherent ==
    ASSUME TypeIInv, Coherence, NEW r \in Runs, NEW pc \in {"model", "tools", "converge", "finish"},
           NEW messages \in Seq(Messages), NEW steps, NEW exceeded, Step(r, pc, messages, steps, exceeded),
           \A q \in Runs : turn[q].pc \notin Waiting => turn'[q].pc \notin Waiting,
           Coherent(messages), Quoted(turn', messages),
           pc \in {"model", "tools"} => OwnTurn(messages, r)
    PROVE  Coherence'
  <1>1. /\ turn'[r] = [pc |-> pc, session |-> turn[r].session, ctx |-> turn[r].ctx,
                       local |-> messages, steps |-> steps, exceeded |-> exceeded]
        /\ DOMAIN turn' = Runs /\ \A q \in Runs \ {r} : turn'[q] = turn[q]
        /\ DOMAIN thread' = Sessions
        /\ thread' = thread \/ thread'[turn[r].session] = messages
        /\ \A s \in Sessions \ {turn[r].session} : thread'[s] = thread[s]
    BY StepMeans
  <1>2. turn'[r].pc = pc /\ turn'[r].local = messages
    BY <1>1
  <1>3. \A s \in Sessions : thread'[s] = thread[s] \/ thread'[s] = messages
    BY <1>1
  <1>4. ASSUME NEW s \in Sessions PROVE Coherent(thread'[s]) /\ Quoted(turn', thread'[s])
    <2>1. thread[s] \in Seq(Messages) /\ Coherent(thread[s]) /\ Quoted(turn, thread[s])
      BY DEF TypeIInv, Coherence
    <2>2. Quoted(turn', thread[s])
      BY <2>1, QuotedSame
    <2> QED BY <1>3, <2>1, <2>2
  <1>5. ASSUME NEW q \in Runs
        PROVE  /\ Coherent(turn'[q].local) /\ Quoted(turn', turn'[q].local)
               /\ turn'[q].pc \in {"model", "tools"} => OwnTurn(turn'[q].local, q)
    <2>1. CASE q = r
      BY <1>2, <2>1
    <2>2. CASE q # r
      <3>1. turn'[q] = turn[q]
        BY <1>1, <2>2
      <3>2. turn[q].local \in Seq(Messages) /\ Coherent(turn[q].local) /\ Quoted(turn, turn[q].local)
            /\ (turn[q].pc \in {"model", "tools"} => OwnTurn(turn[q].local, q))
        BY DEF TypeIInv, Turns, Coherence
      <3>3. Quoted(turn', turn[q].local)
        BY <3>2, QuotedSame
      <3> QED BY <3>1, <3>2, <3>3
    <2> QED BY <2>1, <2>2
  <1> QED BY <1>4, <1>5 DEF Coherence

(* Other steps leave what the workers hold alone, and memory at most loses. *)
LEMMA QuietStep ==
    ASSUME TypeIInv, [Next]_vars, ~ \E r \in Runs : Start(r) \/ Model(r) \/ Tools(r) \/ Converge(r)
    PROVE  /\ \A q \in Runs : /\ turn'[q].local = turn[q].local /\ turn'[q].exceeded = turn[q].exceeded
                              /\ turn'[q].pc \in {"model", "tools", "converge", "finish"} => turn'[q].pc = turn[q].pc
                              /\ turn[q].pc # "none" => turn'[q].session = turn[q].session
                              /\ turn[q].pc \notin {"none", "done", "cut"} =>
                                   turn'[q].pc \notin {"none"}
           /\ \A s \in Sessions : thread'[s] \in {thread[s], << >>}
  <1> DEFINE Held(q) == /\ turn'[q].local = turn[q].local /\ turn'[q].exceeded = turn[q].exceeded
                        /\ turn'[q].pc \in {"model", "tools", "converge", "finish"} => turn'[q].pc = turn[q].pc
                        /\ turn[q].pc # "none" => turn'[q].session = turn[q].session
                        /\ turn[q].pc \notin {"none", "done", "cut"} => turn'[q].pc \notin {"none"}
  <1>0. turn \in [Runs -> Turns] /\ thread \in [Sessions -> Seq(Messages)]
    BY DEF TypeIInv
  <1>1. CASE Administer \/ UNCHANGED vars
    BY <1>1 DEF Administer, vars, agent
  <1>2. CASE Restart
    <2> SUFFICES ASSUME NEW q \in Runs PROVE Held(q)
      BY <1>2 DEF Restart
    <2>1. turn[q] \in Turns
      BY <1>0
    <2>2. CASE InFlight(q)
      <3>1. turn'[q] = [turn[q] EXCEPT !.pc = "cut"]
        BY <1>2, <2>2 DEF Restart
      <3> QED BY <2>1, <3>1 DEF Turns
    <2>3. CASE ~InFlight(q)
      <3>1. turn'[q] = turn[q]
        BY <1>2, <2>3 DEF Restart
      <3> QED BY <3>1
    <2> QED BY <2>2, <2>3
  <1>3. ASSUME NEW s \in Sessions, NEW u \in Users, CreateSession(s, u)
        PROVE  turn' = turn /\ thread' = thread
    BY <1>3 DEF CreateSession
  <1>4. ASSUME NEW r \in Runs, NEW s \in Sessions, NEW u \in Users, Ask(r, s, u)
        PROVE  (\A q \in Runs : Held(q)) /\ thread' = thread
    <2>1. turn[r].pc = "none" /\ turn' = [turn EXCEPT ![r].pc = "queued", ![r].session = s] /\ thread' = thread
      BY <1>4 DEF Ask, TypeIInv, Tasks
    <2>2. turn'[r] = [turn[r] EXCEPT !.pc = "queued", !.session = s] /\ \A q \in Runs \ {r} : turn'[q] = turn[q]
      BY <1>0, <2>1
    <2>3. Held(r)
      BY <1>0, <2>1, <2>2 DEF Turns
    <2> QED BY <2>1, <2>2, <2>3
  <1>5. ASSUME NEW r \in Runs, Rebuild(r) \/ Finish(r) \/ Raise(r) \/ Lose(r)
        PROVE  (\A q \in Runs : Held(q)) /\ thread' = thread
    <2>1. PICK pc \in {"rebuild", "done", "cut"} : turn' = [turn EXCEPT ![r].pc = pc]
      BY <1>5 DEF Rebuild, Finish, Raise, Lose
    <2>2. /\ turn'[r].pc = pc
          /\ turn'[r].session = turn[r].session /\ turn'[r].local = turn[r].local
          /\ turn'[r].exceeded = turn[r].exceeded
          /\ \A q \in Runs \ {r} : turn'[q] = turn[q]
      BY <1>0, <2>1, PcMeans DEF Working
    <2>3. thread' = thread
      BY <1>5 DEF Rebuild, Finish, Raise, Lose
    <2> QED BY <2>2, <2>3
  <1>6. ASSUME NEW r \in Runs, Check(r)
        PROVE  (\A q \in Runs : Held(q)) /\ thread' = thread
    <2>1. thread' = thread /\ \A q \in Runs \ {r} : turn'[q] = turn[q]
      BY <1>0, <1>6 DEF Check
    <2>2. turn'[r] = [turn[r] EXCEPT !.pc = "start", !.ctx = Context(sess[turn[r].session].owner)]
          \/ turn'[r] = [turn[r] EXCEPT !.pc = "done"]
      BY <1>0, <1>6 DEF Check
    <2>3. Held(r)
      BY <1>0, <2>2 DEF Turns
    <2> QED BY <2>1, <2>3
  <1> QED BY <1>1, <1>2, <1>3, <1>4, <1>5, <1>6 DEF Next, Proceed

LEMMA NextCoherent ==
    ASSUME TypeIInv, Coherence, [Next]_vars
    PROVE  Coherence'
  <1>0. \A q \in Runs : turn[q].pc \notin Waiting => turn'[q].pc \notin Waiting
    BY NeverWaitsAgain
  <1>1. CASE ~ \E r \in Runs : Start(r) \/ Model(r) \/ Tools(r) \/ Converge(r)
    <2>1. /\ \A q \in Runs : /\ turn'[q].local = turn[q].local
                             /\ turn'[q].pc \in {"model", "tools", "converge", "finish"} => turn'[q].pc = turn[q].pc
          /\ \A s \in Sessions : thread'[s] \in {thread[s], << >>}
      BY <1>1, QuietStep
    <2>2. ASSUME NEW s \in Sessions PROVE Coherent(thread'[s]) /\ Quoted(turn', thread'[s])
      <3>1. thread[s] \in Seq(Messages) /\ Coherent(thread[s]) /\ Quoted(turn, thread[s])
        BY DEF TypeIInv, Coherence
      <3>2. Quoted(turn', thread[s])
        BY <1>0, <3>1, QuotedSame
      <3>3. DOMAIN << >> = {}
        OBVIOUS
      <3>4. Coherent(<< >>) /\ Quoted(turn', << >>)
        BY <3>3 DEF Coherent, Quoted
      <3> QED BY <2>1, <3>1, <3>2, <3>4
    <2>3. ASSUME NEW q \in Runs
          PROVE  /\ Coherent(turn'[q].local) /\ Quoted(turn', turn'[q].local)
                 /\ turn'[q].pc \in {"model", "tools"} => OwnTurn(turn'[q].local, q)
      <3>2. turn[q].local \in Seq(Messages) /\ Coherent(turn[q].local) /\ Quoted(turn, turn[q].local)
            /\ (turn[q].pc \in {"model", "tools"} => OwnTurn(turn[q].local, q))
        BY DEF TypeIInv, Turns, Coherence
      <3>3. Quoted(turn', turn[q].local)
        BY <1>0, <3>2, QuotedSame
      <3> QED BY <2>1, <3>2, <3>3
    <2> QED BY <2>2, <2>3 DEF Coherence
  <1>2. ASSUME NEW r \in Runs, Start(r) \/ Model(r) \/ Tools(r) \/ Converge(r) PROVE Coherence'
    <2> DEFINE ms == turn[r].local
               s == turn[r].session
    <2>1. ms \in Seq(Messages) /\ Coherent(ms) /\ Quoted(turn, ms) /\ (turn[r].pc \in {"model", "tools"} => OwnTurn(ms, r))
      BY DEF TypeIInv, Turns, Coherence
    <2>2. ASSUME NEW pc \in {"model", "tools", "converge", "finish"}, NEW messages, NEW steps, NEW exceeded,
                 Step(r, pc, messages, steps, exceeded)
          PROVE  turn'[r].pc \notin Waiting
      <3>1. turn'[r] = [pc |-> pc, session |-> turn[r].session, ctx |-> turn[r].ctx,
                       local |-> messages, steps |-> steps, exceeded |-> exceeded]
        BY <2>2, StepMeans
      <3>2. turn'[r].pc = pc
        BY <3>1
      <3> QED BY <3>2 DEF Waiting
    <2>3. Quoted(turn', ms)
      BY <1>0, <2>1, QuotedSame
    <2>4. CASE Start(r)
      <3> DEFINE m == Says("human", r, {}, 0)
      <3>1. turn[r].pc = "start" /\ s \in Sessions /\ m \in Messages /\ Step(r, "model", Append(thread[s], m), 0, FALSE)
        BY <2>4, StartMeans
      <3>2. m.type = "human" /\ m.run = r
        BY DEF Says
      <3>3. thread[s] \in Seq(Messages) /\ Coherent(thread[s]) /\ Quoted(turn, thread[s])
        BY <3>1 DEF TypeIInv, Coherence
      <3>4. \A i \in DOMAIN thread[s] : thread[s][i].run # r
        BY <3>1, <3>3 DEF Quoted, Waiting
      <3>5. Quoted(turn', thread[s])
        BY <1>0, <3>3, QuotedSame
      <3> HIDE DEF m, s
      <3>6. turn'[r].pc \notin Waiting
        BY <2>2, <3>1
      <3>7. /\ Append(thread[s], m) \in Seq(Messages) /\ Coherent(Append(thread[s], m))
            /\ Quoted(turn', Append(thread[s], m)) /\ OwnTurn(Append(thread[s], m), r)
        <4>1. Append(thread[s], m) \in Seq(Messages)
          BY <3>1, <3>3
        <4>2. Coherent(Append(thread[s], m))
          BY <3>1, <3>2, <3>3, CoherentAppend
        <4>3. Quoted(turn', Append(thread[s], m))
          BY <3>1, <3>2, <3>3, <3>5, <3>6, QuotedAppend
        <4>4. OwnTurn(Append(thread[s], m), r)
          BY <3>1, <3>2, <3>3, <3>4, OwnQuestion
        <4> QED BY <4>1, <4>2, <4>3, <4>4
      <3> QED BY <1>0, <3>1, <3>7, StepCoherent
    <2>5. CASE Model(r)
      <3>1. PICK n \in Nat, steps \in Nat, exceeded \in BOOLEAN, level \in Clearances :
                /\ turn[r].pc = "model"
                /\ Says("ai", r, Numbered(r, steps, n), level) \in Messages
                /\ Step(r, IF n = 0 THEN "finish" ELSE IF exceeded THEN "converge" ELSE "tools",
                        Append(ms, Says("ai", r, Numbered(r, steps, n), level)), steps, exceeded)
        BY <2>5, ModelMeans
      <3> DEFINE m == Says("ai", r, Numbered(r, steps, n), level)
                 pc == IF n = 0 THEN "finish" ELSE IF exceeded THEN "converge" ELSE "tools"
      <3>2. m.type = "ai" /\ m.run = r /\ m \in Messages
        BY <3>1 DEF Says
      <3>3. pc \in {"model", "tools", "converge", "finish"} 
        OBVIOUS
      <3>4. Step(r, pc, Append(ms, m), steps, exceeded)
        BY <3>1, Zenon
      <3> HIDE DEF m, ms, pc
      <3>5. turn'[r].pc \notin Waiting
        BY <2>2, <3>3, <3>4
      <3>6. Append(ms, m) \in Seq(Messages)
        BY <2>1, <3>2
      <3>7. Coherent(Append(ms, m))
        BY <2>1, <3>2, CoherentAppend
      <3>8. Quoted(turn', Append(ms, m))
        BY <2>1, <2>3, <3>2, <3>5, QuotedAppend
      <3>9. OwnTurn(Append(ms, m), r)
        BY <2>1, <3>1, <3>2, OwnAppend
      <3> QED BY <1>0, <3>3, <3>4, <3>6, <3>7, <3>8, <3>9, StepCoherent
    <2>6. CASE Tools(r)
      <3>1. PICK n \in Nat, results \in Seq(Messages) :
                LET asked == turn[r].local[Len(turn[r].local)] IN
                /\ Len(turn[r].local) > 0 /\ asked.type = "ai" /\ asked.run = r /\ asked.calls = Asked(r, n)
                /\ Len(results) = n
                /\ \A k \in 1 .. n : /\ results[k].type = "tool" /\ results[k].run = r
                                     /\ results[k].calls = {<<r, turn[r].steps, k>>}
                                     /\ results[k].level \in {0, turn[r].ctx.clearance}
                /\ Step(r, "model", turn[r].local \o results, turn[r].steps, FALSE)
        BY <2>6, ToolsMeans
      <3>2. turn[r].pc = "tools"
        BY <2>6 DEF Tools
      <3>3. \A k \in 1 .. Len(results) : results[k].type = "tool" /\ results[k].run = r
                                         /\ results[k].calls \subseteq ms[Len(ms)].calls
        BY <3>1 DEF Asked, Numbered
      <3>4. turn'[r].pc \notin Waiting
        BY <2>2, <3>1
      <3>5. Len(ms) > 0 /\ ms[Len(ms)].type = "ai" /\ Step(r, "model", ms \o results, turn[r].steps, FALSE)
        BY <3>1
      <3> HIDE DEF ms
      <3>6. ms \o results \in Seq(Messages)
        BY <2>1
      <3>7. Coherent(ms \o results)
        BY <2>1, <3>3, <3>5, CoherentJoined
      <3>8. Quoted(turn', ms \o results)
        BY <2>1, <2>3, <3>3, <3>4, QuotedJoined
      <3>9. OwnTurn(ms \o results, r)
        BY <2>1, <3>2, <3>3, OwnJoined
      <3> QED BY <1>0, <3>5, <3>6, <3>7, <3>8, <3>9, StepCoherent
    <2>7. CASE Converge(r)
      <3> DEFINE m == Says("ai", r, {}, 0)
      <3>1. m \in Messages /\ Step(r, "finish", Append(ms, m), turn[r].steps, TRUE)
        BY <2>7, ConvergeMeans
      <3>2. m.type = "ai" /\ m.run = r
        BY DEF Says
      <3> HIDE DEF m, ms
      <3>5. turn'[r].pc \notin Waiting
        BY <2>2, <3>1
      <3>6. Append(ms, m) \in Seq(Messages)
        BY <2>1, <3>1
      <3>7. Coherent(Append(ms, m))
        BY <2>1, <3>1, <3>2, CoherentAppend
      <3>8. Quoted(turn', Append(ms, m))
        BY <2>1, <2>3, <3>1, <3>2, <3>5, QuotedAppend
      <3> QED BY <1>0, <3>1, <3>6, <3>7, <3>8, StepCoherent
    <2> QED BY <1>2, <2>4, <2>5, <2>6, <2>7
  <1> QED BY <1>1, <1>2

LEMMA SettledStays ==
    ASSUME NEW ms \in Seq(Messages), NEW turns, NEW after, \A q \in Runs : turns[q].exceeded => after[q].exceeded
    PROVE  /\ Complete(turns, ms) => Complete(after, ms)
           /\ AllButLast(turns, ms) => AllButLast(after, ms)
  <1>1. ASSUME NEW i \in DOMAIN ms, Settled(turns, ms, i) PROVE Settled(after, ms, i)
    <2>1. ms[i] \in Messages
      OBVIOUS
    <2>2. ms[i].run \in Runs
      BY <2>1 DEF Messages
    <2> QED BY <1>1, <2>2 DEF Settled
  <1> QED BY <1>1 DEF Complete, AllButLast

LEMMA CompleteAppend ==
    ASSUME NEW ms \in Seq(Messages), NEW m \in Messages, NEW turns, Complete(turns, ms)
    PROVE  /\ AllButLast(turns, Append(ms, m))
           /\ m.type # "ai" \/ m.calls = {} \/ turns[m.run].exceeded => Complete(turns, Append(ms, m))
  <1> DEFINE ns == Append(ms, m)
             n == Len(ms)
  <1>1. /\ DOMAIN ms = 1 .. n /\ DOMAIN ns = 1 .. n + 1 /\ n \in Nat /\ Len(ns) = n + 1
        /\ ns[n + 1] = m /\ \A i \in 1 .. n : ns[i] = ms[i]
    BY Added
  <1> HIDE DEF ns, n
  <1>2. ASSUME NEW i \in 1 .. n, ns[i].type = "ai" PROVE Settled(turns, ns, i)
    <2>1. ns[i] = ms[i] /\ Settled(turns, ms, i)
      BY <1>1, <1>2 DEF Complete
    <2>2. CASE turns[ms[i].run].exceeded
      BY <2>1, <2>2 DEF Settled
    <2>3. CASE \A id \in ms[i].calls : \E j \in i + 1 .. n : ms[j].calls = {id}
      <3>1. \A j \in i + 1 .. n : j \in i + 1 .. Len(ns) /\ ns[j] = ms[j]
        BY <1>1
      <3> QED BY <2>1, <2>3, <3>1 DEF Settled
    <2> QED BY <2>1, <2>2, <2>3 DEF Settled, n
  <1>3. \A i \in DOMAIN ns : i \in 1 .. n \/ i = Len(ns)
    BY <1>1
  <1>4. m.calls = {} \/ turns[m.run].exceeded => Settled(turns, ns, Len(ns))
    BY <1>1 DEF Settled
  <1>5. ns[Len(ns)] = m
    BY <1>1
  <1> QED BY <1>2, <1>3, <1>4, <1>5 DEF Complete, AllButLast, ns

LEMMA CompleteJoined ==
    ASSUME NEW ms \in Seq(Messages), NEW results \in Seq(Messages), NEW turns, AllButLast(turns, ms),
           NEW r, NEW steps, Len(ms) > 0, ms[Len(ms)].calls = Numbered(r, steps, Len(results)),
           \A k \in 1 .. Len(results) : results[k].type = "tool" /\ results[k].calls = {<<r, steps, k>>}
    PROVE  Complete(turns, ms \o results)
  <1> DEFINE ns == ms \o results
             n == Len(ms)
  <1>1. /\ DOMAIN ms = 1 .. n /\ DOMAIN ns = 1 .. n + Len(results) /\ n \in Nat /\ Len(results) \in Nat
        /\ Len(ns) = n + Len(results)
        /\ \A i \in 1 .. n : ns[i] = ms[i]
        /\ \A k \in 1 .. Len(results) : ns[n + k] = results[k]
        /\ \A i \in 1 .. n + Len(results) : i \in 1 .. n \/ \E k \in 1 .. Len(results) : i = n + k
    BY Joined
  <1>0. n > 0 /\ n \in 1 .. n /\ ms[n].calls = Numbered(r, steps, Len(results))
    BY <1>1
  <1>6. AllButLast(turns, ms) /\ n = Len(ms)
    OBVIOUS
  <1> HIDE DEF ns, n
  <1>2. ASSUME NEW i \in DOMAIN ns, ns[i].type = "ai" PROVE Settled(turns, ns, i)
    <2>1. i \in 1 .. n
      <3>1. ASSUME i \notin 1 .. n PROVE FALSE
        <4>1. PICK k \in 1 .. Len(results) : i = n + k
          BY <1>1, <3>1
        <4>2. ns[i] = results[k] /\ results[k].type = "tool"
          BY <1>1, <4>1
        <4> QED BY <1>2, <4>2
      <3> QED BY <3>1
    <2>2. ns[i] = ms[i]
      BY <1>1, <2>1
    <2>3. CASE i = n
      <3>1. ASSUME NEW id \in ms[n].calls PROVE \E j \in i + 1 .. Len(ns) : ns[j].calls = {id}
        <4>1. PICK k \in 1 .. Len(results) : id = <<r, steps, k>>
          BY <1>0 DEF Numbered
        <4>2. n + k \in i + 1 .. Len(ns) /\ ns[n + k] = results[k] /\ results[k].calls = {id}
          BY <1>1, <2>3, <4>1
        <4> QED BY <4>2
      <3> QED BY <2>2, <2>3, <3>1 DEF Settled
    <2>4. CASE i # n
      <3>1. Settled(turns, ms, i)
        BY <1>1, <1>2, <1>6, <2>1, <2>2, <2>4 DEF AllButLast
      <3>2. CASE turns[ms[i].run].exceeded
        BY <2>2, <3>2 DEF Settled
      <3>3. CASE \A id \in ms[i].calls : \E j \in i + 1 .. n : ms[j].calls = {id}
        <4>1. \A j \in i + 1 .. n : j \in i + 1 .. Len(ns) /\ ns[j] = ms[j]
          BY <1>1, <2>1
        <4> QED BY <2>2, <3>3, <4>1 DEF Settled
      <3> QED BY <1>6, <3>1, <3>2, <3>3 DEF Settled
    <2> QED BY <2>3, <2>4
  <1> QED BY <1>2 DEF Complete, ns

LEMMA NextSpending ==
    ASSUME TypeIInv, Spending, [Next]_vars
    PROVE  Spending' /\ \A q \in Runs : turn[q].exceeded => turn'[q].exceeded
  <1>1. CASE ~ \E r \in Runs : Start(r) \/ Model(r) \/ Tools(r) \/ Converge(r)
    <2>1. \A q \in Runs : /\ turn'[q].exceeded = turn[q].exceeded
                          /\ turn'[q].pc \in {"model", "tools", "converge", "finish"} => turn'[q].pc = turn[q].pc
      BY <1>1, QuietStep
    <2> QED BY <2>1 DEF Spending
  <1>2. ASSUME NEW r \in Runs, Start(r) \/ Model(r) \/ Tools(r) \/ Converge(r)
        PROVE  Spending' /\ \A q \in Runs : turn[q].exceeded => turn'[q].exceeded
    <2> DEFINE Goes(pc, messages, steps, exceeded) ==
                 /\ Step(r, pc, messages, steps, exceeded) /\ pc \in {"model", "tools", "converge", "finish"}
                 /\ (pc \in {"model", "tools"} => ~exceeded) /\ (turn[r].exceeded => exceeded)
    <2>1. \E pc, messages, steps, exceeded : Goes(pc, messages, steps, exceeded)
      <3>1. CASE Start(r)
        <4>1. turn[r].pc = "start"
          BY <3>1 DEF Start
        <4>2. ~turn[r].exceeded
          BY <4>1 DEF TypeIInv, Placed, Waiting
        <4>3. PICK messages : Step(r, "model", messages, 0, FALSE)
          BY <3>1 DEF Start
        <4>4. Goes("model", messages, 0, FALSE)
          BY <4>2, <4>3
        <4> QED BY <4>4
      <3>2. CASE Model(r)
        <4>1. PICK n \in Nat, steps \in Nat, exceeded \in BOOLEAN, level \in Clearances :
                /\ turn[r].pc = "model"
                /\ Step(r, IF n = 0 THEN "finish" ELSE IF exceeded THEN "converge" ELSE "tools",
                        Append(turn[r].local, Says("ai", r, Numbered(r, steps, n), level)), steps, exceeded)
                /\ exceeded => n > 0
          BY <3>2, ModelMeans
        <4> DEFINE pc == IF n = 0 THEN "finish" ELSE IF exceeded THEN "converge" ELSE "tools"
                   messages == Append(turn[r].local, Says("ai", r, Numbered(r, steps, n), level))
        <4>2. ~turn[r].exceeded
          BY <4>1 DEF Spending
        <4>3. Step(r, pc, messages, steps, exceeded)
          BY <4>1, Zenon
        <4>4. pc \in {"model", "tools", "converge", "finish"} /\ (pc \in {"model", "tools"} => ~exceeded)
          BY <4>1
        <4> HIDE DEF pc, messages
        <4>5. Goes(pc, messages, steps, exceeded)
          BY <4>2, <4>3, <4>4
        <4> QED BY <4>5
      <3>3. CASE Tools(r)
        <4>1. turn[r].pc = "tools"
          BY <3>3 DEF Tools
        <4>2. ~turn[r].exceeded
          BY <4>1 DEF Spending
        <4>3. PICK messages : Step(r, "model", messages, turn[r].steps, FALSE)
          BY <3>3 DEF Tools
        <4>4. Goes("model", messages, turn[r].steps, FALSE)
          BY <4>2, <4>3
        <4> QED BY <4>4
      <3>4. CASE Converge(r)
        <4>3. PICK messages : Step(r, "finish", messages, turn[r].steps, TRUE)
          BY <3>4 DEF Converge
        <4>4. Goes("finish", messages, turn[r].steps, TRUE)
          BY <4>3
        <4> QED BY <4>4
      <3> QED BY <1>2, <3>1, <3>2, <3>3, <3>4
    <2>2. PICK pc, messages, steps, exceeded : Goes(pc, messages, steps, exceeded)
      BY <2>1
    <2>3. /\ turn'[r] = [pc |-> pc, session |-> turn[r].session, ctx |-> turn[r].ctx,
                         local |-> messages, steps |-> steps, exceeded |-> exceeded]
          /\ DOMAIN turn' = Runs /\ \A q \in Runs \ {r} : turn'[q] = turn[q]
      BY <2>2, StepMeans
    <2>4. turn'[r].pc = pc /\ turn'[r].exceeded = exceeded
      BY <2>3
    <2> QED BY <2>2, <2>3, <2>4 DEF Spending
  <1> QED BY <1>1, <1>2

(* A step of the graph: its copy, and the checkpoint it leaves, are complete *)
(* unless it is about to dispatch calls.                                     *)
LEMMA StepCompleted ==
    ASSUME TypeIInv, Completed, Forgetting, NEW r \in Runs, NEW pc \in {"model", "tools", "converge", "finish"},
           NEW messages \in Seq(Messages), NEW steps, NEW exceeded, Step(r, pc, messages, steps, exceeded),
           turn[r].pc \in {"start", "model", "tools", "converge"},
           \A q \in Runs : turn[q].exceeded => turn'[q].exceeded,
           turn[r].session \notin disturbed => /\ pc # "tools" => Complete(turn', messages)
                                               /\ pc = "tools" => AllButLast(turn', messages)
    PROVE  Completed' /\ Forgetting'
  <1> DEFINE s == turn[r].session
  <1>1. /\ turn'[r] = [pc |-> pc, session |-> turn[r].session, ctx |-> turn[r].ctx,
                       local |-> messages, steps |-> steps, exceeded |-> exceeded]
        /\ DOMAIN turn' = Runs /\ \A q \in Runs \ {r} : turn'[q] = turn[q]
    BY StepMeans
  <1>2. turn'[r].pc = pc /\ turn'[r].session = s /\ turn'[r].local = messages
    BY <1>1
  <1>3. /\ disturbed' = disturbed /\ setting' = setting
        /\ thread' = IF setting.saver = "none" THEN thread ELSE [thread EXCEPT ![s] = messages]
    BY DEF Step
  <1>4. thread \in [Sessions -> Seq(Messages)] /\ s \in Sessions /\ turn \in [Runs -> Turns]
    BY DEF TypeIInv, Placed
  <1>5. Forgetting'
    BY <1>3 DEF Forgetting
  <1>6. \A q \in Runs : /\ turn'[q].session = turn[q].session
                        /\ turn'[q].pc \in Working <=> turn[q].pc \in Working
    BY <1>1, <1>2 DEF Working
  <1>7. ASSUME NEW t \in Sessions \ disturbed
        PROVE  /\ \A q, p \in Busy(t, Working)' : q = p
               /\ Busy(t, {"tools"})' = {} => Complete(turn', thread'[t])
               /\ \A q \in Busy(t, {"model", "converge", "finish"})' : Complete(turn', turn'[q].local)
               /\ \A q \in Busy(t, {"tools"})' : AllButLast(turn', turn'[q].local)
    <2>1. Busy(t, Working)' = Busy(t, Working)
      BY <1>6 DEF Busy
    <2>2. \A q, p \in Busy(t, Working) : q = p
      BY <1>7 DEF Completed
    <2>3. ASSUME NEW ms \in Seq(Messages)
          PROVE  /\ Complete(turn, ms) => Complete(turn', ms)
                 /\ AllButLast(turn, ms) => AllButLast(turn', ms)
      BY <2>3, SettledStays
    <2>4. CASE t = s
      <3>1. r \in Busy(t, Working)
        BY <2>4 DEF Busy, Working
      <3>2. ASSUME NEW q \in Runs, turn'[q].pc \in Working, turn'[q].session = t PROVE q = r
        <4>1. q \in Busy(t, Working)
          BY <1>6, <3>2 DEF Busy
        <4> QED BY <2>2, <3>1, <4>1
      <3>3. (pc # "tools" => Complete(turn', messages)) /\ (pc = "tools" => AllButLast(turn', messages))
        BY <1>7, <2>4
      <3>4. ASSUME Busy(t, {"tools"})' = {} PROVE Complete(turn', thread'[t])
        <4>1. pc # "tools"
          BY <1>2, <2>4, <3>4 DEF Busy
        <4>2. CASE setting.saver = "none"
          <5>1. thread'[t] = << >>
            BY <1>3, <4>2 DEF Forgetting
          <5>2. DOMAIN << >> = {}
            OBVIOUS
          <5> QED BY <5>1, <5>2 DEF Complete
        <4>3. CASE setting.saver # "none"
          <5>1. thread'[t] = messages
            BY <1>3, <1>4, <2>4, <4>3
          <5> QED BY <3>3, <4>1, <5>1
        <4> QED BY <4>2, <4>3
      <3>5. ASSUME NEW q \in Runs, turn'[q].pc \in {"model", "converge", "finish"}, turn'[q].session = t
            PROVE  Complete(turn', turn'[q].local)
        <4>1. q = r
          BY <3>2, <3>5 DEF Working
        <4> QED BY <1>2, <3>3, <3>5, <4>1
      <3>6. ASSUME NEW q \in Runs, turn'[q].pc = "tools", turn'[q].session = t
            PROVE  AllButLast(turn', turn'[q].local)
        <4>1. q = r
          BY <3>2, <3>6 DEF Working
        <4> QED BY <1>2, <3>3, <3>6, <4>1
      <3> QED BY <2>1, <2>2, <3>4, <3>5, <3>6 DEF Busy
    <2>5. CASE t # s
      <3>1. thread'[t] = thread[t] /\ thread[t] \in Seq(Messages)
        BY <1>3, <1>4, <2>5
      <3>2. \A q \in Runs : turn'[q].session = t => turn'[q] = turn[q] /\ turn[q].local \in Seq(Messages)
        BY <1>1, <1>2, <1>4, <2>5 DEF Turns
      <3>3. \A q \in Runs : turn[q].session = t => turn'[q] = turn[q]
        BY <1>1, <1>2, <2>5
      <3>4. \A pcs : Busy(t, pcs)' = Busy(t, pcs)
        <4>1. ASSUME NEW pcs PROVE {q \in Runs : turn'[q].pc \in pcs /\ turn'[q].session = t}
                                   = {q \in Runs : turn[q].pc \in pcs /\ turn[q].session = t}
          BY <3>2, <3>3
        <4> QED BY <4>1 DEF Busy
      <3>5. /\ Busy(t, {"tools"}) = {} => Complete(turn, thread[t])
            /\ \A q \in Busy(t, {"model", "converge", "finish"}) : Complete(turn, turn[q].local)
            /\ \A q \in Busy(t, {"tools"}) : AllButLast(turn, turn[q].local)
        BY <1>7 DEF Completed
      <3>6. Busy(t, {"tools"})' = Busy(t, {"tools"})
            /\ Busy(t, {"model", "converge", "finish"})' = Busy(t, {"model", "converge", "finish"})
        BY <3>2, <3>3 DEF Busy
      <3>7. ASSUME NEW q \in Busy(t, {"model", "converge", "finish"}) PROVE Complete(turn', turn'[q].local)
        <4>1. q \in Runs /\ turn[q].session = t
          BY DEF Busy
        <4> QED BY <2>3, <3>2, <3>3, <3>5, <4>1
      <3>8. ASSUME NEW q \in Busy(t, {"tools"}) PROVE AllButLast(turn', turn'[q].local)
        <4>1. q \in Runs /\ turn[q].session = t
          BY DEF Busy
        <4> QED BY <2>3, <3>2, <3>3, <3>5, <4>1
      <3> QED BY <2>1, <2>2, <2>3, <3>1, <3>5, <3>6, <3>7, <3>8
    <2> QED BY <2>4, <2>5
  <1> QED BY <1>3, <1>5, <1>7 DEF Completed

(* Other steps, as long as they disturb the sessions whose conversation they *)
(* break.                                                                    *)
LEMMA QuietKept ==
    ASSUME TypeIInv, Completed, disturbed \subseteq disturbed',
           \A q \in Runs : /\ turn'[q].local = turn[q].local /\ turn'[q].exceeded = turn[q].exceeded
                           /\ turn'[q].pc \in Working \ {"start"} =>
                                turn'[q].pc = turn[q].pc /\ turn'[q].session = turn[q].session,
           \A t \in Sessions \ disturbed' : /\ thread'[t] = thread[t]
                                            /\ Busy(t, {"tools"})' = {} => Busy(t, {"tools"}) = {}
                                            /\ \A q, p \in Busy(t, Working)' : q = p
    PROVE  Completed'
  <1>1. ASSUME NEW t \in Sessions \ disturbed'
        PROVE  /\ \A q, p \in Busy(t, Working)' : q = p
               /\ Busy(t, {"tools"})' = {} => Complete(turn', thread'[t])
               /\ \A q \in Busy(t, {"model", "converge", "finish"})' : Complete(turn', turn'[q].local)
               /\ \A q \in Busy(t, {"tools"})' : AllButLast(turn', turn'[q].local)
    <2>1. /\ Busy(t, {"tools"}) = {} => Complete(turn, thread[t])
          /\ \A q \in Busy(t, {"model", "converge", "finish"}) : Complete(turn, turn[q].local)
          /\ \A q \in Busy(t, {"tools"}) : AllButLast(turn, turn[q].local)
      BY <1>1 DEF Completed
    <2>2. thread[t] \in Seq(Messages) /\ \A q \in Runs : turn[q].local \in Seq(Messages)
      BY DEF TypeIInv, Turns
    <2>3. ASSUME NEW ms \in Seq(Messages)
          PROVE  /\ Complete(turn, ms) => Complete(turn', ms)
                 /\ AllButLast(turn, ms) => AllButLast(turn', ms)
      BY <2>3, SettledStays
    <2>5. Busy(t, {"model", "converge", "finish"})' \subseteq Busy(t, {"model", "converge", "finish"})
          /\ Busy(t, {"tools"})' \subseteq Busy(t, {"tools"})
      BY DEF Busy, Working
    <2>6. ASSUME NEW q \in Busy(t, {"model", "converge", "finish"})' PROVE Complete(turn', turn'[q].local)
      <3>1. q \in Runs /\ Complete(turn, turn[q].local)
        BY <2>1, <2>5 DEF Busy
      <3> QED BY <2>2, <2>3, <3>1
    <2>7. ASSUME NEW q \in Busy(t, {"tools"})' PROVE AllButLast(turn', turn'[q].local)
      <3>1. q \in Runs /\ AllButLast(turn, turn[q].local)
        BY <2>1, <2>5 DEF Busy
      <3> QED BY <2>2, <2>3, <3>1
    <2>8. Busy(t, {"tools"})' = {} => Complete(turn', thread'[t])
      BY <1>1, <2>1, <2>2, <2>3
    <2> QED BY <1>1, <2>6, <2>7, <2>8
  <1> QED BY <1>1 DEF Completed

LEMMA QuietCompleted ==
    ASSUME TypeIInv, Completed, disturbed \subseteq disturbed',
           \A q \in Runs : /\ turn'[q].local = turn[q].local /\ turn'[q].exceeded = turn[q].exceeded
                           /\ turn'[q].pc \in Working =>
                                turn'[q].pc = turn[q].pc /\ turn'[q].session = turn[q].session,
           \A t \in Sessions \ disturbed' : /\ thread'[t] = thread[t]
                                            /\ Busy(t, {"tools"})' = {} => Busy(t, {"tools"}) = {}
    PROVE  Completed'
  <1>1. ASSUME NEW t \in Sessions \ disturbed' PROVE \A q, p \in Busy(t, Working)' : q = p
    <2>1. \A q, p \in Busy(t, Working) : q = p
      BY <1>1 DEF Completed
    <2>2. Busy(t, Working)' \subseteq Busy(t, Working)
      BY DEF Busy
    <2> QED BY <2>1, <2>2
  <1> QED BY <1>1, QuietKept

LEMMA StepExceeds ==
    ASSUME TypeIInv, NEW r \in Runs, NEW pc \in {"model", "tools", "converge", "finish"},
           NEW messages \in Seq(Messages), NEW steps \in Nat, NEW exceeded \in BOOLEAN,
           Step(r, pc, messages, steps, exceeded)
    PROVE  turn'[r].exceeded = exceeded
  <1>1. turn'[r] = [pc |-> pc, session |-> turn[r].session, ctx |-> turn[r].ctx,
                    local |-> messages, steps |-> steps, exceeded |-> exceeded]
    BY StepMeans
  <1> QED BY <1>1

LEMMA NextCompleted ==
    ASSUME TypeIInv, Spending, Forgetting, Completed, [Next]_vars
    PROVE  Forgetting' /\ Completed'
  <1>0. /\ turn \in [Runs -> Turns] /\ thread \in [Sessions -> Seq(Messages)]
        /\ \A q \in Runs : turn[q].exceeded => turn'[q].exceeded
    BY NextSpending DEF TypeIInv
  <1>1. CASE \E r \in Runs : Start(r) \/ Model(r) \/ Tools(r) \/ Converge(r)
    <2>1. PICK r \in Runs : Start(r) \/ Model(r) \/ Tools(r) \/ Converge(r)
      BY <1>1
    <2> DEFINE ms == turn[r].local
               s == turn[r].session
    <2>2. turn[r] \in Turns /\ ms \in Seq(Messages)
      BY <1>0 DEF Turns
    <2>3. CASE Start(r)
      <3> DEFINE m == Says("human", r, {}, 0)
      <3>1. turn[r].pc = "start" /\ s \in Sessions /\ m \in Messages
            /\ Step(r, "model", Append(thread[s], m), 0, FALSE)
        BY <2>3, StartMeans
      <3>2. m.type = "human"
        BY DEF Says
      <3> HIDE DEF m
      <3>3. ASSUME s \notin disturbed PROVE Complete(turn', Append(thread[s], m))
        <4>1. \A q \in Busy(s, Working) : q = r
          BY <3>1, <3>3 DEF Completed, Busy, Working
        <4>2. Busy(s, {"tools"}) = {}
          BY <3>1, <4>1 DEF Busy, Working
        <4>3. Complete(turn, thread[s])
          BY <3>1, <3>3, <4>2 DEF Completed
        <4>4. thread[s] \in Seq(Messages)
          BY <1>0, <3>1
        <4>5. Complete(turn', thread[s])
          BY <1>0, <4>3, <4>4, SettledStays
        <4> QED BY <3>1, <3>2, <4>4, <4>5, CompleteAppend
      <3>4. Append(thread[s], m) \in Seq(Messages)
        BY <1>0, <3>1
      <3> QED BY <1>0, <3>1, <3>3, <3>4, StepCompleted
    <2>4. CASE Model(r)
      <3>1. PICK n \in Nat, steps \in Nat, exceeded \in BOOLEAN, level \in Clearances :
              LET a == Says("ai", r, Numbered(r, steps, n), level) IN
              /\ turn[r].pc = "model" /\ a \in Messages
              /\ Step(r, IF n = 0 THEN "finish" ELSE IF exceeded THEN "converge" ELSE "tools",
                      Append(ms, a), steps, exceeded)
        BY <2>4, ModelMeans
      <3> DEFINE m == Says("ai", r, Numbered(r, steps, n), level)
                 pc == IF n = 0 THEN "finish" ELSE IF exceeded THEN "converge" ELSE "tools"
      <3>2. m.run = r /\ m.calls = Numbered(r, steps, n)
        BY DEF Says
      <3>3. pc \in {"model", "tools", "converge", "finish"} /\ (pc # "tools" => n = 0 \/ exceeded)
        OBVIOUS
      <3>4. m \in Messages /\ Step(r, pc, Append(ms, m), steps, exceeded)
        BY <3>1, Zenon
      <3>5. n = 0 => Numbered(r, steps, n) = {}
        BY DEF Numbered
      <3> HIDE DEF m, pc, ms
      <3>6. Append(ms, m) \in Seq(Messages)
        BY <2>2, <3>4
      <3>7. turn'[r].exceeded = exceeded
        BY <2>2, <3>3, <3>4, <3>6, StepExceeds
      <3>8. ASSUME s \notin disturbed
            PROVE  /\ pc # "tools" => Complete(turn', Append(ms, m))
                   /\ pc = "tools" => AllButLast(turn', Append(ms, m))
        <4>1. s \in Sessions
          BY <3>1 DEF TypeIInv, Placed
        <4>2. Complete(turn, ms)
          BY <3>1, <3>8, <4>1 DEF Completed, Busy, ms
        <4>3. Complete(turn', ms)
          BY <1>0, <2>2, <4>2, SettledStays
        <4> QED BY <2>2, <3>2, <3>3, <3>4, <3>5, <3>7, <4>3, CompleteAppend
      <3> QED BY <1>0, <3>1, <3>3, <3>4, <3>6, <3>8, StepCompleted
    <2>5. CASE Tools(r)
      <3>1. PICK n \in Nat, results \in Seq(Messages) :
              LET asked == turn[r].local[Len(turn[r].local)] IN
              /\ Len(turn[r].local) > 0 /\ asked.type = "ai" /\ asked.run = r /\ asked.calls = Asked(r, n)
              /\ Len(results) = n
              /\ \A k \in 1 .. n : /\ results[k].type = "tool" /\ results[k].run = r
                                   /\ results[k].calls = {<<r, turn[r].steps, k>>}
                                   /\ results[k].level \in {0, turn[r].ctx.clearance}
              /\ Step(r, "model", turn[r].local \o results, turn[r].steps, FALSE)
        BY <2>5, ToolsMeans
      <3>2. turn[r].pc = "tools"
        BY <2>5 DEF Tools
      <3>3. /\ Len(ms) > 0 /\ ms[Len(ms)].calls = Numbered(r, turn[r].steps, Len(results))
            /\ \A k \in 1 .. Len(results) : results[k].type = "tool" /\ results[k].calls = {<<r, turn[r].steps, k>>}
            /\ Step(r, "model", ms \o results, turn[r].steps, FALSE)
        BY <3>1 DEF Asked
      <3> HIDE DEF ms
      <3>4. ASSUME s \notin disturbed PROVE Complete(turn', ms \o results)
        <4>1. s \in Sessions
          BY <3>2 DEF TypeIInv, Placed
        <4>2. AllButLast(turn, ms)
          BY <3>2, <3>4, <4>1 DEF Completed, Busy, ms
        <4>3. AllButLast(turn', ms)
          BY <1>0, <2>2, <4>2, SettledStays
        <4> QED BY <2>2, <3>3, <4>3, CompleteJoined
      <3>5. ms \o results \in Seq(Messages)
        BY <2>2
      <3> QED BY <1>0, <3>2, <3>3, <3>4, <3>5, StepCompleted
    <2>6. CASE Converge(r)
      <3> DEFINE m == Says("ai", r, {}, 0)
      <3>1. turn[r].pc = "converge" /\ s \in Sessions /\ m \in Messages
            /\ Step(r, "finish", Append(ms, m), turn[r].steps, TRUE)
        BY <2>6, ConvergeMeans
      <3>2. m.calls = {}
        BY DEF Says
      <3> HIDE DEF m, ms
      <3>3. ASSUME s \notin disturbed PROVE Complete(turn', Append(ms, m))
        <4>1. Complete(turn, ms)
          BY <3>1, <3>3 DEF Completed, Busy, ms
        <4>2. Complete(turn', ms)
          BY <1>0, <2>2, <4>1, SettledStays
        <4> QED BY <2>2, <3>1, <3>2, <4>2, CompleteAppend
      <3>4. Append(ms, m) \in Seq(Messages)
        BY <2>2, <3>1
      <3> QED BY <1>0, <3>1, <3>3, <3>4, StepCompleted
    <2> QED BY <2>1, <2>3, <2>4, <2>5, <2>6
  <1>2. CASE ~ \E r \in Runs : Start(r) \/ Model(r) \/ Tools(r) \/ Converge(r)
    <2>1. /\ \A q \in Runs : /\ turn'[q].local = turn[q].local /\ turn'[q].exceeded = turn[q].exceeded
                             /\ turn'[q].pc \in {"model", "tools", "converge", "finish"} => turn'[q].pc = turn[q].pc
                             /\ turn[q].pc # "none" => turn'[q].session = turn[q].session
                             /\ turn[q].pc \notin {"none", "done", "cut"} => turn'[q].pc \notin {"none"}
          /\ \A s \in Sessions : thread'[s] \in {thread[s], << >>}
      BY <1>2, QuietStep
    <2>2. setting' = setting
      BY <1>2 DEF Next, Proceed, vars, agent, Administer, Restart, CreateSession, Ask, Rebuild, Check, Finish, Raise, Lose
    <2>3. Forgetting'
      BY <2>1, <2>2 DEF Forgetting
    <2>4. CASE Administer \/ UNCHANGED vars
      <3>1. UNCHANGED <<turn, thread, disturbed>>
        BY <2>4 DEF Administer, vars, agent
      <3> QED BY <2>3, <3>1, QuietCompleted DEF Busy
    <2>5. CASE Restart
      <3>1. \A q \in Runs : turn'[q].pc \notin Working
        <4>1. ASSUME NEW q \in Runs PROVE turn'[q].pc \notin Working
          <5>1. turn[q] \in Turns
            BY <1>0
          <5>2. CASE InFlight(q)
            <6>1. turn'[q] = [turn[q] EXCEPT !.pc = "cut"]
              BY <2>5, <5>2 DEF Restart
            <6> QED BY <5>1, <6>1 DEF Turns, Working
          <5>3. CASE ~InFlight(q)
            <6>1. turn'[q] = turn[q]
              BY <2>5, <5>3 DEF Restart
            <6> QED BY <5>3, <6>1 DEF InFlight, Working
          <5> QED BY <5>2, <5>3
        <4> QED BY <4>1
      <3>2. disturbed \subseteq disturbed'
            /\ \A t \in Sessions \ disturbed' :
                 setting.saver # "memory" /\ ~ \E q \in Runs : turn[q].session = t /\ turn[q].pc \in Working
        BY <2>5 DEF Restart
      <3>3. \A t \in Sessions \ disturbed' : thread'[t] = thread[t] /\ Busy(t, {"tools"}) = {}
        BY <2>5, <3>2 DEF Restart, Busy, Working
      <3> QED BY <2>1, <2>3, <3>1, <3>2, <3>3, QuietCompleted
    <2>6. ASSUME NEW s \in Sessions, NEW u \in Users, CreateSession(s, u)
          PROVE  Completed'
      <3>1. UNCHANGED <<turn, thread, disturbed>>
        BY <2>6 DEF CreateSession
      <3> QED BY <2>3, <3>1, QuietCompleted DEF Busy
    <2>7. ASSUME NEW r \in Runs, NEW s \in Sessions, NEW u \in Users, Ask(r, s, u)
          PROVE  Completed'
      <3>1. turn[r].pc = "none" /\ turn' = [turn EXCEPT ![r].pc = "queued", ![r].session = s]
            /\ UNCHANGED <<thread, disturbed>>
        BY <2>7 DEF Ask, TypeIInv, Tasks
      <3>2. turn'[r] = [turn[r] EXCEPT !.pc = "queued", !.session = s] /\ \A q \in Runs \ {r} : turn'[q] = turn[q]
        BY <1>0, <3>1
      <3>3. turn'[r].pc = "queued"
        BY <1>0, <3>2 DEF Turns
      <3>4. \A q \in Runs : turn'[q].pc \in Working => turn'[q] = turn[q]
        BY <3>2, <3>3 DEF Working
      <3>5. \A t \in Sessions : Busy(t, {"tools"})' = {} => Busy(t, {"tools"}) = {}
        BY <3>1, <3>2 DEF Busy
      <3> QED BY <2>1, <3>1, <3>4, <3>5, QuietCompleted
    <2>8. ASSUME NEW r \in Runs, Rebuild(r) \/ Finish(r) \/ Raise(r) \/ Lose(r)
          PROVE  Completed'
      <3>1. PICK pc \in {"rebuild", "done", "cut"} : turn' = [turn EXCEPT ![r].pc = pc]
        BY <2>8 DEF Rebuild, Finish, Raise, Lose
      <3>2. turn[r].pc # "tools" /\ thread' = thread /\ disturbed \subseteq disturbed'
        BY <2>8 DEF Rebuild, Finish, Raise, Lose
      <3>3. /\ turn'[r].pc = pc /\ turn'[r].session = turn[r].session
            /\ \A q \in Runs \ {r} : turn'[q] = turn[q]
        BY <1>0, <3>1, PcMeans DEF Working
      <3>4. \A q \in Runs : turn'[q].pc \in Working => turn'[q] = turn[q]
        BY <3>3 DEF Working
      <3>5. \A t \in Sessions : Busy(t, {"tools"})' = {} => Busy(t, {"tools"}) = {}
        BY <3>2, <3>3 DEF Busy
      <3> QED BY <2>1, <3>2, <3>4, <3>5, QuietCompleted
    <2>9. ASSUME NEW r \in Runs, Check(r)
          PROVE  Completed'
      <3>1. turn[r].pc = "rebuild" /\ thread' = thread /\ disturbed \subseteq disturbed'
        BY <2>9 DEF Check
      <3>2. turn'[r].session = turn[r].session /\ \A q \in Runs \ {r} : turn'[q] = turn[q]
        BY <1>0, <2>1, <2>9, <3>1 DEF Check
      <3>3. /\ turn'[r].pc \in {"start", "done"}
            /\ turn'[r].pc = "start" => disturbed' = IF \E q \in Runs : turn[q].pc \in Working
                                                                       /\ turn[q].session = turn[r].session
                                                     THEN disturbed \cup {turn[r].session} ELSE disturbed
        <4>1. turn[r] \in Turns
          BY <1>0
        <4> QED BY <1>0, <2>9, <4>1 DEF Check, Turns
      <3>4. CASE turn'[r].pc = "done"
        <4>1. \A q \in Runs : turn'[q].pc \in Working => turn'[q] = turn[q]
          BY <3>2, <3>4 DEF Working
        <4>2. \A t \in Sessions : Busy(t, {"tools"})' = {} => Busy(t, {"tools"}) = {}
          BY <3>1, <3>2 DEF Busy
        <4> QED BY <2>1, <3>1, <4>1, <4>2, QuietCompleted
      <3>5. CASE turn'[r].pc = "start"
        <4>1. \A q \in Runs : turn'[q].pc \in Working \ {"start"} => turn'[q] = turn[q]
          BY <3>2, <3>5
        <4>2. \A t \in Sessions : Busy(t, {"tools"})' = {} => Busy(t, {"tools"}) = {}
          BY <3>1, <3>2 DEF Busy
        <4>3. ASSUME NEW t \in Sessions \ disturbed', NEW q \in Busy(t, Working)', NEW p \in Busy(t, Working)'
              PROVE  q = p
          <5>1. \A x \in Busy(t, Working) : \A y \in Busy(t, Working) : x = y
            BY <3>1 DEF Completed
          <5>2. \A x \in Busy(t, Working)' : x = r \/ x \in Busy(t, Working)
            BY <3>2 DEF Busy
          <5>3. t = turn[r].session => Busy(t, Working) = {}
            BY <3>3, <3>5 DEF Busy
          <5>4. r \in Busy(t, Working)' => t = turn[r].session
            BY <3>2 DEF Busy
          <5> QED BY <5>1, <5>2, <5>3, <5>4
        <4> QED BY <2>1, <3>1, <4>1, <4>2, <4>3, QuietKept
      <3> QED BY <3>3, <3>4, <3>5
    <2> QED BY <1>2, <2>3, <2>4, <2>5, <2>6, <2>7, <2>8, <2>9 DEF Next, Proceed
  <1> QED BY <1>1, <1>2

(* What the window shows of a conversation that is coherent and, in its      *)
(* session, complete.                                                        *)
LEMMA WindowShows ==
    ASSUME TypeIInv, Coherence, Completed
    PROVE  WindowSound
  <1>1. ASSUME NEW r \in Runs, turn[r].pc = "model"
        PROVE  LET W == Window(r) IN
               /\ \A i \in DOMAIN W : W[i].type = "tool" =>
                     \E j \in 1 .. i - 1 : W[j].type = "ai" /\ W[i].calls \subseteq W[j].calls
               /\ \A m \in Range(turn[r].local) : m.run = r => m \in Range(W)
               /\ turn[r].session \notin disturbed =>
                    \A i \in DOMAIN W : W[i].type = "ai" =>
                       \/ turn[W[i].run].exceeded
                       \/ \A id \in W[i].calls : \E j \in i + 1 .. Len(W) : W[j].calls = {id}
    <2> DEFINE W == Window(r)
               ms == turn[r].local
    <2>1. ms \in Seq(Messages) /\ setting.window \in Nat \ {0} /\ turn[r].session \in Sessions
      BY <1>1, AgentAssumption DEF AgentAssumption, TypeIInv, Turns, Placed
    <2>2. PICK first \in Nat :
            /\ first = 1 \/ first \in TurnStarts(ms)
            /\ W \in Seq(Messages) /\ Len(W) = Len(ms) - first + 1
            /\ \A i \in 1 .. Len(ms) - first + 1 : W[i] = ms[first + i - 1]
      BY <2>1, WindowIsAnEnd DEF Window
    <2>3. /\ Coherent(ms) /\ OwnTurn(ms, r)
          /\ turn[r].session \notin disturbed => Complete(turn, ms)
      BY <1>1, <2>1 DEF Coherence, Completed, Busy
    <2>4. first \in 1 .. Len(ms) /\ (first = 1 \/ ms[first].type = "human") /\ Len(ms) \in Nat /\ DOMAIN ms = 1 .. Len(ms)
      <3>1. Len(ms) > 0 /\ DOMAIN ms = 1 .. Len(ms) /\ Len(ms) \in Nat
        BY <2>1, <2>3 DEF OwnTurn
      <3> QED BY <2>2, <3>1 DEF TurnStarts
    <2>5. DOMAIN W = 1 .. Len(ms) - first + 1
      BY <2>2, <2>4
    <2>6. \A k \in first .. Len(ms) : k - first + 1 \in 1 .. Len(ms) - first + 1 /\ W[k - first + 1] = ms[k]
      <3>1. ASSUME NEW k \in first .. Len(ms)
            PROVE  k - first + 1 \in 1 .. Len(ms) - first + 1 /\ W[k - first + 1] = ms[k]
        <4>1. k - first + 1 \in 1 .. Len(ms) - first + 1 /\ first + (k - first + 1) - 1 = k
          BY <2>4
        <4> QED BY <2>2, <4>1
      <3> QED BY <3>1
    <2>7. \A i \in 1 .. Len(ms) - first + 1 : first + i - 1 \in first .. Len(ms) /\ first + i - 1 \in DOMAIN ms
                                              /\ W[i] = ms[first + i - 1]
      BY <2>2, <2>4
    <2> HIDE DEF W, ms
    <2>8. ASSUME NEW i \in DOMAIN W, W[i].type = "tool"
          PROVE  \E j \in 1 .. i - 1 : W[j].type = "ai" /\ W[i].calls \subseteq W[j].calls
      <3> DEFINE k == first + i - 1
      <3>1. k \in DOMAIN ms /\ k \in first .. Len(ms) /\ ms[k] = W[i] /\ ms[k].type = "tool"
        BY <2>5, <2>7, <2>8
      <3>2. PICK j \in 1 .. k - 1 : /\ ms[j].type = "ai" /\ ms[k].calls \subseteq ms[j].calls
                                    /\ \A l \in j .. k : ms[l].type # "human"
        BY <2>3, <3>1 DEF Coherent
      <3>3. j >= first
        BY <2>4, <3>1, <3>2
      <3>4. j \in first .. Len(ms) /\ j - first + 1 \in 1 .. i - 1
        BY <2>4, <2>5, <3>1, <3>2, <3>3
      <3> QED BY <2>6, <3>1, <3>2, <3>4
    <2>9. ASSUME NEW m \in Range(ms), m.run = r PROVE m \in Range(W)
      <3>1. PICK k \in DOMAIN ms : ms[k] = m
        BY <2>9 DEF Range
      <3>2. PICK h \in DOMAIN ms : /\ ms[h].type = "human"
                                   /\ \A l \in h + 1 .. Len(ms) : ms[l].type # "human"
                                   /\ \A l \in 1 .. h - 1 : ms[l].run # r
        BY <2>3 DEF OwnTurn
      <3>3. first <= h /\ h <= k
        BY <2>4, <2>9, <3>1, <3>2
      <3>4. k \in first .. Len(ms)
        BY <2>4, <3>1, <3>2, <3>3
      <3>5. k - first + 1 \in DOMAIN W /\ W[k - first + 1] = m
        BY <2>5, <2>6, <3>1, <3>4
      <3> QED BY <3>5 DEF Range
    <2>10. ASSUME turn[r].session \notin disturbed, NEW i \in DOMAIN W, W[i].type = "ai"
           PROVE  \/ turn[W[i].run].exceeded
                  \/ \A id \in W[i].calls : \E j \in i + 1 .. Len(W) : W[j].calls = {id}
      <3> DEFINE k == first + i - 1
      <3>1. k \in DOMAIN ms /\ k \in first .. Len(ms) /\ ms[k] = W[i] /\ ms[k].type = "ai"
        BY <2>5, <2>7, <2>10
      <3>2. Settled(turn, ms, k)
        BY <2>3, <2>10, <3>1 DEF Complete
      <3>3. ASSUME NEW id \in W[i].calls, NEW l \in k + 1 .. Len(ms), ms[l].calls = {id}
            PROVE  \E j \in i + 1 .. Len(W) : W[j].calls = {id}
        <4>1. l \in first .. Len(ms) /\ l - first + 1 \in i + 1 .. Len(W)
          BY <2>2, <2>4, <2>5, <3>1 DEF W, ms
        <4> QED BY <2>6, <3>3, <4>1
      <3> QED BY <3>1, <3>2, <3>3 DEF Settled
    <2> QED BY <2>8, <2>9, <2>10 DEF W, ms
  <1> QED BY <1>1 DEF WindowSound, CutBetweenTurns, CallsAnswered

(* A model is shown a conversation it can go on with, whatever the window,   *)
(* the budget and the checkpointer, with turns of one session under way at   *)
(* once and after restarts: truncate_history cuts between turns, and every   *)
(* call has its result unless its turn ran out of budget or was disturbed.   *)
THEOREM WindowIsSound == FairSpec => []WindowSound
  <1> DEFINE IInv == TypeIInv /\ Coherence /\ Spending /\ Forgetting /\ Completed
  <1>1. Init => IInv
    <2> SUFFICES ASSUME Init PROVE Coherence /\ Spending /\ Forgetting /\ Completed
      BY InitTypes
    <2>1. /\ \A s \in Sessions : thread[s] = << >>
          /\ \A r \in Runs : turn[r].pc = "none" /\ turn[r].local = << >>
      BY DEF Init, NoTurn
    <2>2. DOMAIN << >> = {}
      OBVIOUS
    <2>3. \A ms : ms = << >> => Coherent(ms) /\ (\A turns : Quoted(turns, ms) /\ Complete(turns, ms))
      BY <2>2 DEF Coherent, Quoted, Complete
    <2>4. \A s \in Sessions : Busy(s, Working) = {} /\ Busy(s, {"tools"}) = {}
                              /\ Busy(s, {"model", "converge", "finish"}) = {}
      BY <2>1 DEF Busy, Working
    <2>5. Coherence
      BY <2>1, <2>3 DEF Coherence
    <2>6. Spending /\ Forgetting
      BY <2>1 DEF Spending, Forgetting
    <2>7. Completed
      BY <2>1, <2>3, <2>4 DEF Completed
    <2> QED BY <2>5, <2>6, <2>7
  <1>2. IInv /\ [Next]_vars => IInv'
    BY NextTypes, NextCoherent, NextSpending, NextCompleted
  <1>3. IInv => WindowSound
    BY WindowShows
  <1> QED BY <1>1, <1>2, <1>3, PTL DEF FairSpec

----------------------------------------------------------------------------
(* What the model remembers.                                                *)

LEMMA CorrespondsSame ==
    ASSUME NEW ms, NEW spoken, NEW rs, NEW recorded, NEW ns, NEW ps,
           Corresponds(ms, spoken, rs, recorded),
           \A i \in spoken : ns[i] = ms[i], \A j \in recorded : ps[j] = rs[j]
    PROVE  Corresponds(ns, spoken, ps, recorded)
  BY DEF Corresponds

(* One more message, and the row that says so, after all others.            *)
LEMMA CorrespondsMore ==
    ASSUME NEW ms, NEW spoken \in SUBSET Nat, NEW rs, NEW recorded \in SUBSET Nat,
           Corresponds(ms, spoken, rs, recorded),
           NEW i \in Nat, NEW j \in Nat, \A k \in spoken : k < i, \A k \in recorded : k < j,
           ms[i].run = rs[j].run, ms[i].type = "ai" <=> rs[j].role = "assistant"
    PROVE  Corresponds(ms, spoken \cup {i}, rs, recorded \cup {j})
  <1>1. PICK at \in [spoken -> recorded] :
          /\ \A y \in recorded : \E x \in spoken : at[x] = y
          /\ \A x, k \in spoken : x < k => at[x] < at[k]
          /\ \A x \in spoken : /\ ms[x].run = rs[at[x]].run
                               /\ ms[x].type = "ai" <=> rs[at[x]].role = "assistant"
    BY DEF Corresponds
  <1> DEFINE f == [x \in spoken \cup {i} |-> IF x = i THEN j ELSE at[x]]
  <1>2. i \notin spoken /\ j \notin recorded
    OBVIOUS
  <1>3. f \in [spoken \cup {i} -> recorded \cup {j}] /\ f[i] = j /\ \A x \in spoken : f[x] = at[x] /\ at[x] \in recorded
    BY <1>2
  <1> HIDE DEF f
  <1>4. \A y \in recorded \cup {j} : \E x \in spoken \cup {i} : f[x] = y
    BY <1>1, <1>3
  <1>5. \A x, k \in spoken \cup {i} : x < k => f[x] < f[k]
    <2> SUFFICES ASSUME NEW x \in spoken \cup {i}, NEW k \in spoken \cup {i}, x < k PROVE f[x] < f[k]
      OBVIOUS
    <2>1. x \in spoken
      <3>1. ~ (i < k)
        OBVIOUS
      <3> QED BY <3>1
    <2>2. CASE k = i
      BY <1>3, <2>1, <2>2
    <2>3. CASE k \in spoken
      BY <1>1, <1>3, <2>1, <2>3
    <2> QED BY <2>2, <2>3
  <1>6. \A x \in spoken \cup {i} : /\ ms[x].run = rs[f[x]].run
                                   /\ ms[x].type = "ai" <=> rs[f[x]].role = "assistant"
    BY <1>1, <1>3
  <1> QED BY <1>3, <1>4, <1>5, <1>6 DEF Corresponds

LEMMA SpokenAppend ==
    ASSUME NEW ms \in Seq(Messages), NEW m \in Messages
    PROVE  /\ SpokenAt(ms) \subseteq 1 .. Len(ms)
           /\ SpokenAt(Append(ms, m)) = IF m.type # "tool" /\ m.calls = {}
                                        THEN SpokenAt(ms) \cup {Len(ms) + 1} ELSE SpokenAt(ms)
           /\ \A i \in SpokenAt(ms) : Append(ms, m)[i] = ms[i]
           /\ Append(ms, m)[Len(ms) + 1] = m /\ Len(Append(ms, m)) = Len(ms) + 1
  <1> DEFINE ns == Append(ms, m)
             n == Len(ms)
  <1>1. /\ DOMAIN ms = 1 .. n /\ DOMAIN ns = 1 .. n + 1 /\ n \in Nat /\ Len(ns) = n + 1
        /\ ns[n + 1] = m /\ \A i \in 1 .. n : ns[i] = ms[i]
    BY Added
  <1> HIDE DEF ns, n
  <1>2. \A i : i \in 1 .. n + 1 <=> i \in 1 .. n \/ i = n + 1
    BY <1>1
  <1>3. SpokenAt(ms) \subseteq 1 .. n /\ n + 1 \notin 1 .. n
    BY <1>1 DEF SpokenAt
  <1>4. \A i : i \in SpokenAt(ns) <=> i \in SpokenAt(ms) \/ (i = n + 1 /\ m.type # "tool" /\ m.calls = {})
    BY <1>1, <1>2, <1>3 DEF SpokenAt
  <1>5. SpokenAt(ns) = IF m.type # "tool" /\ m.calls = {} THEN SpokenAt(ms) \cup {n + 1} ELSE SpokenAt(ms)
    BY <1>4
  <1> QED BY <1>1, <1>3, <1>5 DEF ns, n

LEMMA SpokenJoined ==
    ASSUME NEW ms \in Seq(Messages), NEW results \in Seq(Messages),
           \A k \in 1 .. Len(results) : results[k].type = "tool"
    PROVE  /\ SpokenAt(ms \o results) = SpokenAt(ms)
           /\ \A i \in SpokenAt(ms) : (ms \o results)[i] = ms[i]
  <1> DEFINE ns == ms \o results
             n == Len(ms)
  <1>1. /\ DOMAIN ms = 1 .. n /\ DOMAIN ns = 1 .. n + Len(results) /\ n \in Nat /\ Len(results) \in Nat
        /\ \A i \in 1 .. n : ns[i] = ms[i]
        /\ \A k \in 1 .. Len(results) : ns[n + k] = results[k]
        /\ \A i \in 1 .. n + Len(results) : i \in 1 .. n \/ \E k \in 1 .. Len(results) : i = n + k
    BY Joined
  <1> HIDE DEF ns, n
  <1>2. \A i \in DOMAIN ns : ns[i].type # "tool" => i \in 1 .. n
    <2>1. ASSUME NEW i \in DOMAIN ns, i \notin 1 .. n PROVE ns[i].type = "tool"
      <3>1. PICK k \in 1 .. Len(results) : i = n + k
        BY <1>1, <2>1
      <3> QED BY <1>1, <3>1
    <2> QED BY <2>1
  <1>3. \A i \in 1 .. n : i \in DOMAIN ns
    BY <1>1
  <1>4. \A i : i \in SpokenAt(ns) <=> i \in SpokenAt(ms)
    BY <1>1, <1>2, <1>3 DEF SpokenAt
  <1>5. SpokenAt(ns) = SpokenAt(ms)
    BY <1>4
  <1> QED BY <1>1, <1>5 DEF ns, n, SpokenAt

LEMMA RecordedAppend ==
    ASSUME NEW rs \in Seq(Rows), NEW row \in Rows, NEW s
    PROVE  /\ RecordedAt(rs, s) \subseteq 1 .. Len(rs)
           /\ RecordedAt(Append(rs, row), s) = IF row.session = s THEN RecordedAt(rs, s) \cup {Len(rs) + 1}
                                               ELSE RecordedAt(rs, s)
           /\ \A j \in RecordedAt(rs, s) : Append(rs, row)[j] = rs[j]
           /\ Append(rs, row)[Len(rs) + 1] = row
  <1> DEFINE ps == Append(rs, row)
             n == Len(rs)
  <1>1. /\ DOMAIN rs = 1 .. n /\ DOMAIN ps = 1 .. n + 1 /\ n \in Nat
        /\ ps[n + 1] = row /\ \A i \in 1 .. n : ps[i] = rs[i]
    OBVIOUS
  <1> HIDE DEF ps, n
  <1>2. \A i : i \in 1 .. n + 1 <=> i \in 1 .. n \/ i = n + 1
    BY <1>1
  <1>3. RecordedAt(rs, s) \subseteq 1 .. n /\ n + 1 \notin 1 .. n
    BY <1>1 DEF RecordedAt
  <1>4. \A i : i \in RecordedAt(ps, s) <=> i \in RecordedAt(rs, s) \/ (i = n + 1 /\ row.session = s)
    BY <1>1, <1>2, <1>3 DEF RecordedAt
  <1>5. RecordedAt(ps, s) = IF row.session = s THEN RecordedAt(rs, s) \cup {n + 1} ELSE RecordedAt(rs, s)
    BY <1>4
  <1> QED BY <1>1, <1>3, <1>5 DEF ps, n

(* What the thread of a session says and its rows record, message by        *)
(* message: all of it between turns and while a model or tools are asked;   *)
(* before the first step all but the question, after the last all but the   *)
(* answer.                                                                  *)
FollowedAt(s) ==
    /\ Busy(s, Working) = {} => Corresponds(thread[s], SpokenAt(thread[s]), rows, RecordedAt(rows, s))
    /\ \A r \in Busy(s, {"start"}) : \E j \in RecordedAt(rows, s) :
         /\ rows[j].role = "user" /\ rows[j].run = r /\ \A k \in RecordedAt(rows, s) : k <= j
         /\ Corresponds(thread[s], SpokenAt(thread[s]), rows, RecordedAt(rows, s) \ {j})
    /\ \A r \in Busy(s, {"model", "tools", "converge"}) :
         /\ thread[s] = turn[r].local
         /\ Corresponds(thread[s], SpokenAt(thread[s]), rows, RecordedAt(rows, s))
    /\ \A r \in Busy(s, {"finish"}) :
         /\ thread[s] = turn[r].local
         /\ Len(thread[s]) \in SpokenAt(thread[s])
         /\ thread[s][Len(thread[s])].run = r /\ thread[s][Len(thread[s])].type = "ai"
         /\ Corresponds(thread[s], SpokenAt(thread[s]) \ {Len(thread[s])}, rows, RecordedAt(rows, s))
Followed == setting.saver # "none" => \A s \in Sessions \ disturbed : FollowedAt(s)

(* Nothing of a session changes.                                            *)
LEMMA SessionQuiet ==
    ASSUME NEW s, FollowedAt(s), thread'[s] = thread[s],
           RecordedAt(rows', s) = RecordedAt(rows, s), \A j \in RecordedAt(rows, s) : rows'[j] = rows[j],
           Busy(s, Working)' = {} => Busy(s, Working) = {},
           \A r \in Runs : turn'[r].session = s /\ turn'[r].pc \in Working =>
               turn'[r].pc = turn[r].pc /\ turn[r].session = s /\ turn'[r].local = turn[r].local
    PROVE  FollowedAt(s)'
  <1>1. /\ Busy(s, {"start"})' \subseteq Busy(s, {"start"})
        /\ Busy(s, {"model", "tools", "converge"})' \subseteq Busy(s, {"model", "tools", "converge"})
        /\ Busy(s, {"finish"})' \subseteq Busy(s, {"finish"})
        /\ \A r \in Busy(s, {"model", "tools", "converge", "finish"})' : turn'[r].local = turn[r].local
        /\ Busy(s, {"model", "tools", "converge"})' \subseteq Busy(s, {"model", "tools", "converge", "finish"})'
        /\ Busy(s, {"finish"})' \subseteq Busy(s, {"model", "tools", "converge", "finish"})'
    BY DEF Busy, Working
  <1>2. ASSUME NEW spoken, Corresponds(thread[s], spoken, rows, RecordedAt(rows, s))
        PROVE  Corresponds(thread'[s], spoken, rows', RecordedAt(rows', s))
    BY <1>2, CorrespondsSame
  <1>3. ASSUME NEW spoken, NEW j, Corresponds(thread[s], spoken, rows, RecordedAt(rows, s) \ {j})
        PROVE  Corresponds(thread'[s], spoken, rows', RecordedAt(rows', s) \ {j})
    BY <1>3, CorrespondsSame
  <1>4. Busy(s, Working)' = {} => Corresponds(thread'[s], SpokenAt(thread'[s]), rows', RecordedAt(rows', s))
    BY <1>2 DEF FollowedAt
  <1>5. ASSUME NEW r \in Busy(s, {"start"})'
        PROVE  \E j \in RecordedAt(rows', s) :
                 /\ rows'[j].role = "user" /\ rows'[j].run = r /\ \A k \in RecordedAt(rows', s) : k <= j
                 /\ Corresponds(thread'[s], SpokenAt(thread'[s]), rows', RecordedAt(rows', s) \ {j})
    <2>1. PICK j \in RecordedAt(rows, s) :
                 /\ rows[j].role = "user" /\ rows[j].run = r /\ \A k \in RecordedAt(rows, s) : k <= j
                 /\ Corresponds(thread[s], SpokenAt(thread[s]), rows, RecordedAt(rows, s) \ {j})
      BY <1>1 DEF FollowedAt
    <2> QED BY <1>3, <2>1
  <1>6. ASSUME NEW r \in Busy(s, {"model", "tools", "converge"})'
        PROVE  thread'[s] = turn'[r].local /\ Corresponds(thread'[s], SpokenAt(thread'[s]), rows', RecordedAt(rows', s))
    BY <1>1, <1>2 DEF FollowedAt
  <1>7. ASSUME NEW r \in Busy(s, {"finish"})'
        PROVE  /\ thread'[s] = turn'[r].local
               /\ Len(thread'[s]) \in SpokenAt(thread'[s])
               /\ thread'[s][Len(thread'[s])].run = r /\ thread'[s][Len(thread'[s])].type = "ai"
               /\ Corresponds(thread'[s], SpokenAt(thread'[s]) \ {Len(thread'[s])}, rows', RecordedAt(rows', s))
    <2>1. r \in Busy(s, {"finish"}) /\ turn'[r].local = turn[r].local
      BY <1>1, <1>7
    <2>2. /\ thread[s] = turn[r].local
          /\ Len(thread[s]) \in SpokenAt(thread[s])
          /\ thread[s][Len(thread[s])].run = r /\ thread[s][Len(thread[s])].type = "ai"
          /\ Corresponds(thread[s], SpokenAt(thread[s]) \ {Len(thread[s])}, rows, RecordedAt(rows, s))
      BY <2>1 DEF FollowedAt
    <2>3. Corresponds(thread'[s], SpokenAt(thread[s]) \ {Len(thread[s])}, rows', RecordedAt(rows', s))
      BY <1>2, <2>2
    <2> QED BY ONLY <2>1, <2>2, <2>3, thread'[s] = thread[s]
  <1> QED BY <1>4, <1>5, <1>6, <1>7 DEF FollowedAt

(* A step of the graph says as much as the rows, and last the answer.       *)
LEMMA StepFollowed ==
    ASSUME TypeIInv, Completed, Followed, NEW r \in Runs, NEW pc \in {"model", "tools", "converge", "finish"},
           NEW messages \in Seq(Messages), NEW steps, NEW exceeded, Step(r, pc, messages, steps, exceeded),
           turn[r].pc \in {"start", "model", "tools", "converge"},
           setting.saver # "none" /\ turn[r].session \notin disturbed =>
             IF pc # "finish"
             THEN Corresponds(messages, SpokenAt(messages), rows, RecordedAt(rows, turn[r].session))
             ELSE /\ Len(messages) \in SpokenAt(messages)
                  /\ messages[Len(messages)].run = r /\ messages[Len(messages)].type = "ai"
                  /\ Corresponds(messages, SpokenAt(messages) \ {Len(messages)}, rows,
                                 RecordedAt(rows, turn[r].session))
    PROVE  Followed'
  <1> DEFINE s == turn[r].session
  <1>1. /\ turn'[r] = [pc |-> pc, session |-> turn[r].session, ctx |-> turn[r].ctx,
                       local |-> messages, steps |-> steps, exceeded |-> exceeded]
        /\ DOMAIN turn' = Runs /\ \A q \in Runs \ {r} : turn'[q] = turn[q]
    BY StepMeans
  <1>2. turn'[r].pc = pc /\ turn'[r].session = s /\ turn'[r].local = messages
    BY <1>1
  <1>3. /\ disturbed' = disturbed /\ setting' = setting /\ rows' = rows
        /\ thread' = IF setting.saver = "none" THEN thread ELSE [thread EXCEPT ![s] = messages]
    BY DEF Step
  <1>4. thread \in [Sessions -> Seq(Messages)] /\ s \in Sessions
    BY DEF TypeIInv, Placed
  <1>5. ASSUME setting.saver # "none", NEW t \in Sessions \ disturbed
        PROVE  FollowedAt(t)'
    <2>1. CASE t = s
      <3>1. thread'[t] = messages
        BY <1>3, <1>4, <1>5, <2>1
      <3>2. \A q, p \in Busy(t, Working) : q = p
        BY <1>5 DEF Completed
      <3>3. r \in Busy(t, Working)
        BY <2>1 DEF Busy, Working
      <3>4. ASSUME NEW q \in Runs, turn'[q].session = t, turn'[q].pc \in Working PROVE q = r
        <4>1. CASE q # r
          <5>1. q \in Busy(t, Working)
            BY <1>1, <3>4, <4>1 DEF Busy
          <5> QED BY <3>2, <3>3, <5>1
        <4> QED BY <4>1
      <3>5. r \in Busy(t, Working)'
        BY <1>2, <2>1 DEF Busy, Working
      <3>6. \A q \in Busy(t, {"start"})' : FALSE
        BY <1>2, <3>4 DEF Busy, Working
      <3>7. \A q \in Busy(t, {"model", "tools", "converge"})' : q = r /\ pc # "finish"
        BY <1>2, <3>4 DEF Busy, Working
      <3>8. \A q \in Busy(t, {"finish"})' : q = r /\ pc = "finish"
        BY <1>2, <3>4 DEF Busy, Working
      <3> QED BY <1>2, <1>3, <1>5, <2>1, <3>1, <3>5, <3>6, <3>7, <3>8 DEF FollowedAt
    <2>2. CASE t # s
      <3>1. thread'[t] = thread[t] /\ FollowedAt(t)
        BY <1>3, <1>4, <1>5, <2>2 DEF Followed
      <3>2. \A q \in Runs : turn'[q].session = t \/ turn[q].session = t => turn'[q] = turn[q]
        BY <1>1, <1>2, <2>2
      <3>3. Busy(t, Working)' = Busy(t, Working)
        BY <3>2 DEF Busy
      <3> QED BY <1>3, <3>1, <3>2, <3>3, SessionQuiet
    <2> QED BY <2>1, <2>2
  <1> QED BY <1>3, <1>5 DEF Followed

(* The last turn of a session ends.                                         *)
LEMMA NoTurnLeft ==
    ASSUME Completed, NEW r \in Runs, NEW s \in Sessions \ disturbed, turn[r].session = s, turn[r].pc \in Working,
           turn'[r].pc \notin Working, \A q \in Runs \ {r} : turn'[q] = turn[q],
           Corresponds(thread'[s], SpokenAt(thread'[s]), rows', RecordedAt(rows', s))
    PROVE  FollowedAt(s)'
  <1>1. \A q, p \in Busy(s, Working) : q = p
    BY DEF Completed
  <1>2. r \in Busy(s, Working)
    BY DEF Busy
  <1>3. ASSUME NEW q \in Runs, turn'[q].pc \in Working, turn'[q].session = s PROVE FALSE
    <2>1. q # r
      BY <1>3
    <2>2. q \in Busy(s, Working)
      BY <1>3, <2>1 DEF Busy
    <2> QED BY <1>1, <1>2, <2>1, <2>2
  <1>4. Busy(s, {"start"})' = {} /\ Busy(s, {"model", "tools", "converge"})' = {} /\ Busy(s, {"finish"})' = {}
    BY <1>3 DEF Busy, Working
  <1> QED BY <1>4 DEF FollowedAt

(* Other steps: a question recorded, an answer, a turn that fails, a loss.  *)
LEMMA QuietFollowed ==
    ASSUME TypeIInv, Completed, Followed, [Next]_vars,
           ~ \E r \in Runs : Start(r) \/ Model(r) \/ Tools(r) \/ Converge(r)
    PROVE  Followed'
  <1>0. /\ turn \in [Runs -> Turns] /\ thread \in [Sessions -> Seq(Messages)] /\ rows \in Seq(Rows)
        /\ \A q \in Runs : turn[q].pc # "none" => turn[q].session \in Sessions
    BY DEF TypeIInv, Placed
  <1>1. /\ \A q \in Runs : /\ turn'[q].local = turn[q].local /\ turn'[q].exceeded = turn[q].exceeded
                           /\ turn'[q].pc \in {"model", "tools", "converge", "finish"} => turn'[q].pc = turn[q].pc
                           /\ turn[q].pc # "none" => turn'[q].session = turn[q].session
                           /\ turn[q].pc \notin {"none", "done", "cut"} => turn'[q].pc \notin {"none"}
        /\ \A s \in Sessions : thread'[s] \in {thread[s], << >>}
    BY QuietStep
  <1>2. setting' = setting
    BY DEF Next, Proceed, vars, agent, Administer, Restart, CreateSession, Ask, Rebuild, Check, Finish, Raise, Lose
  (* Steps that leave the rows alone and end no turn of a session.          *)
  <1>3. ASSUME rows' = rows, disturbed \subseteq disturbed',
               \A q \in Runs : turn'[q].pc \in Working => turn'[q].pc = turn[q].pc /\ turn'[q].session = turn[q].session,
               \A t \in Sessions \ disturbed' : /\ thread'[t] = thread[t]
                                                /\ Busy(t, Working)' = {} => Busy(t, Working) = {}
        PROVE  Followed'
    <2>1. ASSUME setting.saver # "none", NEW t \in Sessions \ disturbed' PROVE FollowedAt(t)'
      <3>1. FollowedAt(t)
        BY <1>3, <2>1 DEF Followed
      <3> QED BY <1>1, <1>3, <3>1, SessionQuiet
    <2> QED BY <1>2, <2>1 DEF Followed
  (* Steps of one turn.                                                     *)
  <1>4. ASSUME NEW r \in Runs, NEW s, turn[r].session = s, turn[r].pc # "none",
               thread' = thread, disturbed \subseteq disturbed',
               \A q \in Runs \ {r} : turn'[q] = turn[q],
               \/ rows' = rows
               \/ \E row \in Rows : rows' = Append(rows, row) /\ row.session = s,
               turn'[r].pc \in Working => turn'[r].pc = turn[r].pc \/ turn'[r].pc = "start",
               setting.saver # "none" /\ s \notin disturbed' => FollowedAt(s)'
        PROVE  Followed'
    <2>1. ASSUME setting.saver # "none", NEW t \in Sessions \ disturbed', t # s PROVE FollowedAt(t)'
      <3>1. FollowedAt(t)
        BY <1>4, <2>1 DEF Followed
      <3>2. RecordedAt(rows', t) = RecordedAt(rows, t) /\ \A j \in RecordedAt(rows, t) : rows'[j] = rows[j]
        <4>1. CASE rows' = rows
          BY <4>1
        <4>2. CASE rows' # rows
          <5>1. PICK row \in Rows : rows' = Append(rows, row) /\ row.session = s
            BY <1>4, <4>2
          <5> QED BY <1>0, <2>1, <5>1, RecordedAppend
        <4> QED BY <4>1, <4>2
      <3>3. turn'[r].session # t /\ turn[r].session # t
        BY <1>1, <1>4, <2>1
      <3>4. Busy(t, Working)' = Busy(t, Working)
        BY <1>4, <3>3 DEF Busy
      <3>5. \A q \in Runs : turn'[q].session = t /\ turn'[q].pc \in Working =>
               turn'[q].pc = turn[q].pc /\ turn[q].session = t /\ turn'[q].local = turn[q].local
        BY <1>4, <3>3
      <3> QED BY <1>4, <3>1, <3>2, <3>4, <3>5, SessionQuiet
    <2> QED BY <1>2, <1>4, <2>1 DEF Followed
  <1>5. CASE Administer \/ UNCHANGED vars
    <2>1. UNCHANGED <<turn, thread, rows, disturbed>>
      BY <1>5 DEF Administer, vars, agent
    <2> QED BY <1>3, <2>1 DEF Busy
  <1>6. CASE Restart
    <2>1. \A q \in Runs : turn'[q].pc \notin Working
      <3>1. ASSUME NEW q \in Runs PROVE turn'[q].pc \notin Working
        <4>1. turn[q] \in Turns
          BY <1>0
        <4>2. CASE InFlight(q)
          <5>1. turn'[q] = [turn[q] EXCEPT !.pc = "cut"]
            BY <1>6, <4>2 DEF Restart
          <5> QED BY <4>1, <5>1 DEF Turns, Working
        <4>3. CASE ~InFlight(q)
          <5>1. turn'[q] = turn[q]
            BY <1>6, <4>3 DEF Restart
          <5> QED BY <4>3, <5>1 DEF InFlight, Working
        <4> QED BY <4>2, <4>3
      <3> QED BY <3>1
    <2>2. disturbed \subseteq disturbed' /\ rows' = rows
          /\ \A t \in Sessions \ disturbed' :
               setting.saver # "memory" /\ ~ \E q \in Runs : turn[q].session = t /\ turn[q].pc \in Working
      BY <1>6 DEF Restart
    <2>3. \A t \in Sessions \ disturbed' : thread'[t] = thread[t] /\ Busy(t, Working) = {}
      BY <1>6, <2>2 DEF Restart, Busy
    <2> QED BY <1>3, <2>1, <2>2, <2>3
  <1>7. ASSUME NEW s \in Sessions, NEW u \in Users, CreateSession(s, u)
        PROVE  Followed'
    <2>1. UNCHANGED <<turn, thread, rows, disturbed>>
      BY <1>7 DEF CreateSession
    <2> QED BY <1>3, <2>1 DEF Busy
  <1>8. ASSUME NEW r \in Runs, NEW s \in Sessions, NEW u \in Users, Ask(r, s, u)
        PROVE  Followed'
    <2>1. turn[r].pc = "none" /\ turn' = [turn EXCEPT ![r].pc = "queued", ![r].session = s]
          /\ UNCHANGED <<thread, rows, disturbed>>
      BY <1>8 DEF Ask, TypeIInv, Tasks
    <2>2. turn'[r] = [turn[r] EXCEPT !.pc = "queued", !.session = s] /\ \A q \in Runs \ {r} : turn'[q] = turn[q]
      BY <1>0, <2>1
    <2>3. turn'[r].pc = "queued"
      BY <1>0, <2>2 DEF Turns
    <2>4. \A q \in Runs : turn'[q].pc \in Working => turn'[q] = turn[q]
      BY <2>2, <2>3 DEF Working
    <2>5. \A t \in Sessions : Busy(t, Working)' = Busy(t, Working)
      BY <2>1, <2>2, <2>3 DEF Busy, Working
    <2> QED BY <1>3, <2>1, <2>4, <2>5
  <1>9. ASSUME NEW r \in Runs, Rebuild(r) \/ (Lose(r) /\ turn[r].pc \notin Working)
        PROVE  Followed'
    <2>1. PICK pc \in {"rebuild", "cut"} : turn' = [turn EXCEPT ![r].pc = pc]
      BY <1>9 DEF Rebuild, Lose
    <2>2. turn[r].pc \notin Working /\ UNCHANGED <<thread, rows, disturbed>>
      BY <1>9 DEF Rebuild, Lose, Working
    <2>3. /\ turn'[r].pc = pc /\ turn'[r].session = turn[r].session
          /\ \A q \in Runs \ {r} : turn'[q] = turn[q]
      BY <1>0, <2>1, PcMeans DEF Working
    <2>4. \A q \in Runs : turn'[q].pc \in Working => turn'[q] = turn[q]
      BY <2>3 DEF Working
    <2>5. \A t \in Sessions : Busy(t, Working)' = Busy(t, Working)
      BY <2>2, <2>3 DEF Busy, Working
    <2> QED BY <1>3, <2>2, <2>4, <2>5
  <1>10. ASSUME NEW r \in Runs, Lose(r), turn[r].pc \in Working
         PROVE  Followed'
    <2>1. turn' = [turn EXCEPT ![r].pc = "cut"] /\ disturbed' = disturbed \cup {turn[r].session}
          /\ UNCHANGED <<thread, rows>>
      BY <1>10 DEF Lose
    <2>2. turn'[r].pc = "cut" /\ \A q \in Runs \ {r} : turn'[q] = turn[q]
      BY <1>0, <2>1, PcMeans
    <2>3. turn[r].pc # "none" /\ turn'[r].pc \notin Working
      BY <1>10, <2>2 DEF Working
    <2>4. PICK s : s = turn[r].session
      OBVIOUS
    <2> QED BY <1>4, <2>1, <2>2, <2>3, <2>4
  <1>11. ASSUME NEW r \in Runs, Raise(r)
         PROVE  Followed'
    <2>1. turn[r].pc = "model" /\ turn' = [turn EXCEPT ![r].pc = "done"] /\ UNCHANGED <<thread, rows, disturbed>>
      BY <1>11 DEF Raise
    <2>2. turn'[r].pc = "done" /\ \A q \in Runs \ {r} : turn'[q] = turn[q]
      BY <1>0, <2>1, PcMeans
    <2>3. PICK s \in Sessions : s = turn[r].session
      BY <1>0, <2>1
    <2>4. ASSUME setting.saver # "none", s \notin disturbed' PROVE FollowedAt(s)'
      <3>1. s \in Sessions \ disturbed /\ r \in Busy(s, {"model", "tools", "converge"})
        BY <2>1, <2>3, <2>4 DEF Busy
      <3>2. Corresponds(thread[s], SpokenAt(thread[s]), rows, RecordedAt(rows, s))
        BY <2>4, <3>1 DEF Followed, FollowedAt
      <3>3. turn[r].pc \in Working /\ turn'[r].pc \notin Working
        BY <2>1, <2>2 DEF Working
      <3>4. Corresponds(thread'[s], SpokenAt(thread'[s]), rows', RecordedAt(rows', s))
        BY <2>1, <3>2
      <3> QED BY <2>2, <2>3, <3>1, <3>3, <3>4, NoTurnLeft
    <2>5. turn[r].pc # "none" /\ turn'[r].pc \notin Working
      BY <2>1, <2>2 DEF Working
    <2> QED BY <1>4, <2>1, <2>2, <2>3, <2>4, <2>5
  <1>12. ASSUME NEW r \in Runs, Finish(r)
         PROVE  Followed'
    <2>0. PICK s \in Sessions : s = turn[r].session
      BY <1>0, <1>12 DEF Finish
    <2> DEFINE n == Len(thread[s])
               row == [session |-> s, role |-> "assistant", run |-> r,
                       level |-> turn[r].local[Len(turn[r].local)].level]
    <2>1. turn[r].pc = "finish" /\ turn' = [turn EXCEPT ![r].pc = "done"] /\ UNCHANGED <<thread, disturbed>>
          /\ rows' = Append(rows, row)
      BY <1>12, <2>0 DEF Finish, Answer
    <2>2. turn'[r].pc = "done" /\ \A q \in Runs \ {r} : turn'[q] = turn[q]
      BY <1>0, <2>1, PcMeans
    <2>3. row \in Rows
      <3>1. turn[r].local[Len(turn[r].local)].level \in Clearances
        <4>1. turn[r].local # << >>
          BY <2>1 DEF TypeIInv, Placed, Working
        <4> QED BY <4>1, AnswerLevel
      <3> QED BY <3>1 DEF Rows
    <2> HIDE DEF row
    <2>4. ASSUME setting.saver # "none", s \notin disturbed PROVE FollowedAt(s)'
      <3> DEFINE at == RecordedAt(rows, s)
                 k == Len(rows) + 1
      <3>1. r \in Busy(s, {"finish"}) /\ s \in Sessions \ disturbed
        BY <2>0, <2>1, <2>4 DEF Busy
      <3>2. /\ n \in SpokenAt(thread[s]) /\ thread[s][n].run = r /\ thread[s][n].type = "ai"
            /\ Corresponds(thread[s], SpokenAt(thread[s]) \ {n}, rows, at)
        BY <2>4, <3>1 DEF Followed, FollowedAt
      <3>3. /\ at \subseteq 1 .. Len(rows) /\ RecordedAt(rows', s) = at \cup {k}
            /\ \A j \in at : rows'[j] = rows[j]
            /\ rows'[k] = row /\ k \in Nat /\ Len(rows) \in Nat
        BY <1>0, <2>1, <2>3, RecordedAppend DEF row
      <3>4. row.run = r /\ row.role = "assistant"
        BY DEF row
      <3>5. thread[s] \in Seq(Messages) /\ SpokenAt(thread[s]) \subseteq 1 .. n /\ n \in Nat
        BY <1>0 DEF SpokenAt
      <3> HIDE DEF at, k, n
      <3>6. Corresponds(thread[s], SpokenAt(thread[s]) \ {n}, rows', at)
        BY <3>2, <3>3, CorrespondsSame
      <3>7. /\ \A i \in SpokenAt(thread[s]) \ {n} : i \in Nat /\ i < n
            /\ \A j \in at : j \in Nat /\ j < k
            /\ (SpokenAt(thread[s]) \ {n}) \cup {n} = SpokenAt(thread[s])
        BY <3>2, <3>3, <3>5 DEF k
      <3>8. Corresponds(thread[s], (SpokenAt(thread[s]) \ {n}) \cup {n}, rows', at \cup {k})
        BY <3>2, <3>3, <3>4, <3>5, <3>6, <3>7, CorrespondsMore
      <3>9. Corresponds(thread[s], SpokenAt(thread[s]), rows', RecordedAt(rows', s))
        BY <3>3, <3>7, <3>8
      <3>10. Corresponds(thread'[s], SpokenAt(thread'[s]), rows', RecordedAt(rows', s))
        BY <2>1, <3>9
      <3>11. turn[r].pc \in Working /\ turn'[r].pc \notin Working
        BY <2>1, <2>2 DEF Working
      <3> QED BY <2>0, <2>2, <3>1, <3>10, <3>11, NoTurnLeft
    <2>5. turn[r].pc # "none" /\ turn'[r].pc \notin Working
      BY <2>1, <2>2 DEF Working
    <2>6. row.session = s
      BY DEF row
    <2> QED BY <1>4, <2>0, <2>1, <2>2, <2>3, <2>4, <2>5, <2>6
  <1>13. ASSUME NEW r \in Runs, Check(r)
         PROVE  Followed'
    <2>0. PICK s \in Sessions : s = turn[r].session
      BY <1>0, <1>13 DEF Check
    <2> DEFINE row == [session |-> s, role |-> "user", run |-> r, level |-> 0]
    <2>1. turn[r].pc = "rebuild" /\ thread' = thread /\ disturbed \subseteq disturbed'
      BY <1>13 DEF Check
    <2>2. turn'[r].session = s /\ \A q \in Runs \ {r} : turn'[q] = turn[q]
      BY <1>0, <1>1, <1>13, <2>0, <2>1 DEF Check
    <2>3. turn[r] \in Turns
      BY <1>0
    <2>4. CASE Admitted(s)
      <3>1. turn'[r].pc = "start" /\ rows' = Append(rows, row)
            /\ disturbed' = IF \E q \in Runs : turn[q].pc \in Working /\ turn[q].session = s
                            THEN disturbed \cup {s} ELSE disturbed
        BY <1>0, <1>13, <2>0, <2>3, <2>4 DEF Check, Turns
      <3>2. row \in Rows /\ row.session = s /\ row.run = r /\ row.role = "user"
        BY DEF Rows, Clearances
      <3> HIDE DEF row
      <3>3. ASSUME setting.saver # "none", s \notin disturbed' PROVE FollowedAt(s)'
        <4> DEFINE at == RecordedAt(rows, s)
                   k == Len(rows) + 1
        <4>1. disturbed' = disturbed /\ Busy(s, Working) = {}
          BY <3>1, <3>3 DEF Busy
        <4>2. Corresponds(thread[s], SpokenAt(thread[s]), rows, at)
          BY <2>1, <3>3, <4>1 DEF Followed, FollowedAt
        <4>3. /\ at \subseteq 1 .. Len(rows) /\ RecordedAt(rows', s) = at \cup {k}
              /\ \A j \in at : rows'[j] = rows[j]
              /\ rows'[k] = row /\ k \in Nat /\ Len(rows) \in Nat
          BY <1>0, <3>1, <3>2, RecordedAppend
        <4> HIDE DEF at
        <4>4. \A j \in at : j \in Nat /\ j < k
          BY <4>3
        <4> HIDE DEF k
        <4>5. RecordedAt(rows', s) \ {k} = at /\ \A j \in RecordedAt(rows', s) : j <= k
          <5>1. k \notin at /\ k <= k
            BY <4>3, <4>4
          <5>2. \A j \in at \cup {k} : j <= k
            BY <4>3, <4>4, <5>1
          <5> QED BY <4>3, <5>1, <5>2
        <4>6. Corresponds(thread'[s], SpokenAt(thread'[s]), rows', RecordedAt(rows', s) \ {k})
          BY <2>1, <4>2, <4>3, <4>5, CorrespondsSame
        <4>7. Busy(s, Working)' = {r}
          BY <2>2, <3>1, <4>1 DEF Busy, Working
        <4>8. \A q \in Busy(s, {"start"})' : q = r
          BY <4>7 DEF Busy, Working
        <4>9. Busy(s, {"model", "tools", "converge"})' = {} /\ Busy(s, {"finish"})' = {}
          BY <3>1, <4>7 DEF Busy, Working
        <4>10. \E j \in RecordedAt(rows', s) :
                 /\ rows'[j].role = "user" /\ rows'[j].run = r /\ \A l \in RecordedAt(rows', s) : l <= j
                 /\ Corresponds(thread'[s], SpokenAt(thread'[s]), rows', RecordedAt(rows', s) \ {j})
          <5>1. k \in RecordedAt(rows', s) /\ rows'[k].role = "user" /\ rows'[k].run = r
            BY <3>2, <4>3
          <5> QED BY <4>5, <4>6, <5>1
        <4> QED BY <4>7, <4>8, <4>9, <4>10 DEF FollowedAt
      <3> QED BY <1>4, <2>0, <2>1, <2>2, <3>1, <3>2, <3>3
    <2>5. CASE ~Admitted(s)
      <3>1. turn' = [turn EXCEPT ![r].pc = "done"] /\ UNCHANGED <<rows, disturbed>>
        BY <1>13, <2>0, <2>5 DEF Check
      <3>2. turn'[r].pc = "done"
        BY <1>0, <3>1, PcMeans
      <3>3. \A q \in Runs : turn'[q].pc \in Working => turn'[q] = turn[q]
        BY <2>2, <3>2 DEF Working
      <3>4. \A t \in Sessions : Busy(t, Working)' = Busy(t, Working)
        BY <2>1, <2>2, <3>2 DEF Busy, Working
      <3> QED BY <1>3, <2>1, <3>1, <3>3, <3>4
    <2> QED BY <2>4, <2>5
  <1> QED BY <1>5, <1>6, <1>7, <1>8, <1>9, <1>10, <1>11, <1>12, <1>13 DEF Next, Proceed

LEMMA NextFollowed ==
    ASSUME TypeIInv, Completed, Followed, [Next]_vars
    PROVE  Followed'
  <1>0. /\ turn \in [Runs -> Turns] /\ thread \in [Sessions -> Seq(Messages)] /\ rows \in Seq(Rows)
        /\ \A q \in Runs : turn[q].pc # "none" => turn[q].session \in Sessions
    BY DEF TypeIInv, Placed
  <1>1. CASE \E r \in Runs : Start(r) \/ Model(r) \/ Tools(r) \/ Converge(r)
    <2>1. PICK r \in Runs : Start(r) \/ Model(r) \/ Tools(r) \/ Converge(r)
      BY <1>1
    <2> DEFINE ms == turn[r].local
               s == turn[r].session
               At == RecordedAt(rows, s)
    <2>2. turn[r] \in Turns /\ ms \in Seq(Messages)
      BY <1>0 DEF Turns
    <2>0. At \subseteq Nat
      BY <1>0 DEF RecordedAt
    <2>3. CASE Start(r)
      <3> DEFINE m == Says("human", r, {}, 0)
                 told == thread[s]
      <3>1. turn[r].pc = "start" /\ s \in Sessions /\ m \in Messages
            /\ Step(r, "model", Append(told, m), 0, FALSE)
        BY <2>3, StartMeans
      <3>2. m.type = "human" /\ m.run = r /\ m.calls = {}
        BY DEF Says
      <3>4. told \in Seq(Messages)
        BY <1>0, <3>1
      <3> HIDE DEF m
      <3>3. ASSUME setting.saver # "none", s \notin disturbed
            PROVE  Corresponds(Append(told, m), SpokenAt(Append(told, m)), rows, At)
        <4>1. PICK j \in At :
                /\ rows[j].role = "user" /\ rows[j].run = r /\ \A k \in At : k <= j
                /\ Corresponds(told, SpokenAt(told), rows, At \ {j})
          <5>1. FollowedAt(s)
            BY <3>1, <3>3 DEF Followed
          <5>2. r \in Busy(s, {"start"})
            BY <3>1 DEF Busy
          <5> QED BY ONLY <5>1, <5>2 DEF FollowedAt
        <4> HIDE DEF told, At
        <4>2. /\ SpokenAt(told) \subseteq 1 .. Len(told)
              /\ SpokenAt(Append(told, m)) = SpokenAt(told) \cup {Len(told) + 1}
              /\ \A i \in SpokenAt(told) : Append(told, m)[i] = told[i]
              /\ Append(told, m)[Len(told) + 1] = m
          BY <3>1, <3>2, <3>4, SpokenAppend
        <4>3. Corresponds(Append(told, m), SpokenAt(told), rows, At \ {j})
          BY <4>1, <4>2, CorrespondsSame
        <4>4. /\ Len(told) + 1 \in Nat /\ j \in Nat /\ \A i \in SpokenAt(told) : i \in Nat /\ i < Len(told) + 1
              /\ \A k \in At \ {j} : k \in Nat /\ k < j
              /\ (At \ {j}) \cup {j} = At
          BY <2>0, <3>4, <4>1, <4>2 DEF At
        <4>5. Corresponds(Append(told, m), SpokenAt(told) \cup {Len(told) + 1}, rows, (At \ {j}) \cup {j})
          BY <3>2, <4>1, <4>2, <4>3, <4>4, CorrespondsMore
        <4> QED BY <4>2, <4>4, <4>5
      <3>5. Append(told, m) \in Seq(Messages)
        BY <3>1, <3>4
      <3> HIDE DEF told
      <3> QED BY <3>1, <3>3, <3>5, StepFollowed
    <2>4. CASE Model(r)
      <3>1. PICK n \in Nat, steps \in Nat, exceeded \in BOOLEAN, level \in Clearances :
              LET a == Says("ai", r, Numbered(r, steps, n), level) IN
              /\ turn[r].pc = "model" /\ a \in Messages
              /\ Step(r, IF n = 0 THEN "finish" ELSE IF exceeded THEN "converge" ELSE "tools",
                      Append(ms, a), steps, exceeded)
        BY <2>4, ModelMeans
      <3> DEFINE m == Says("ai", r, Numbered(r, steps, n), level)
                 pc == IF n = 0 THEN "finish" ELSE IF exceeded THEN "converge" ELSE "tools"
      <3>2. m.run = r /\ m.type = "ai" /\ m.calls = Numbered(r, steps, n)
        BY DEF Says
      <3>3. pc \in {"model", "tools", "converge", "finish"} /\ (pc = "finish" <=> n = 0)
        OBVIOUS
      <3>4. m \in Messages /\ Step(r, pc, Append(ms, m), steps, exceeded)
        BY <3>1, Zenon
      <3>5. n = 0 <=> Numbered(r, steps, n) = {}
        <4>1. n # 0 => <<r, steps, 1>> \in Numbered(r, steps, n)
          BY DEF Numbered
        <4>2. n = 0 => Numbered(r, steps, n) = {}
          BY DEF Numbered
        <4> QED BY <4>1, <4>2
      <3>6. Append(ms, m) \in Seq(Messages)
        BY <2>2, <3>4
      <3> HIDE DEF m, pc, ms
      <3>7. ASSUME setting.saver # "none", s \notin disturbed
            PROVE  IF pc # "finish"
                   THEN Corresponds(Append(ms, m), SpokenAt(Append(ms, m)), rows, At)
                   ELSE /\ Len(Append(ms, m)) \in SpokenAt(Append(ms, m))
                        /\ Append(ms, m)[Len(Append(ms, m))].run = r
                        /\ Append(ms, m)[Len(Append(ms, m))].type = "ai"
                        /\ Corresponds(Append(ms, m), SpokenAt(Append(ms, m)) \ {Len(Append(ms, m))}, rows, At)
        <4>1. s \in Sessions
          BY <1>0, <3>1
        <4>2. Corresponds(ms, SpokenAt(ms), rows, At)
          BY <3>1, <3>7, <4>1 DEF Followed, FollowedAt, Busy, ms
        <4> HIDE DEF At
        <4>3. /\ SpokenAt(ms) \subseteq 1 .. Len(ms)
              /\ SpokenAt(Append(ms, m)) = IF m.type # "tool" /\ m.calls = {}
                                           THEN SpokenAt(ms) \cup {Len(ms) + 1} ELSE SpokenAt(ms)
              /\ \A i \in SpokenAt(ms) : Append(ms, m)[i] = ms[i]
              /\ Append(ms, m)[Len(ms) + 1] = m /\ Len(Append(ms, m)) = Len(ms) + 1
          BY <2>2, <3>4, SpokenAppend
        <4>4. Corresponds(Append(ms, m), SpokenAt(ms), rows, At)
          BY <4>2, <4>3, CorrespondsSame
        <4>5. CASE n # 0
          BY <3>2, <3>3, <3>5, <4>3, <4>4, <4>5
        <4>6. CASE n = 0
          <5>1. SpokenAt(Append(ms, m)) = SpokenAt(ms) \cup {Len(ms) + 1}
            BY <3>2, <3>5, <4>3, <4>6
          <5>2. Len(ms) + 1 \notin SpokenAt(ms)
            BY <2>2, <4>3
          <5>3. SpokenAt(Append(ms, m)) \ {Len(ms) + 1} = SpokenAt(ms)
            BY <5>1, <5>2
          <5> QED BY <3>2, <3>3, <4>3, <4>4, <4>6, <5>1, <5>3
        <4> QED BY <4>5, <4>6
      <3> QED BY <3>1, <3>3, <3>4, <3>6, <3>7, StepFollowed
    <2>5. CASE Tools(r)
      <3>1. PICK n \in Nat, results \in Seq(Messages) :
              LET asked == turn[r].local[Len(turn[r].local)] IN
              /\ Len(turn[r].local) > 0 /\ asked.type = "ai" /\ asked.run = r /\ asked.calls = Asked(r, n)
              /\ Len(results) = n
              /\ \A k \in 1 .. n : /\ results[k].type = "tool" /\ results[k].run = r
                                   /\ results[k].calls = {<<r, turn[r].steps, k>>}
                                   /\ results[k].level \in {0, turn[r].ctx.clearance}
              /\ Step(r, "model", turn[r].local \o results, turn[r].steps, FALSE)
        BY <2>5, ToolsMeans
      <3>2. turn[r].pc = "tools"
        BY <2>5 DEF Tools
      <3>3. /\ \A k \in 1 .. Len(results) : results[k].type = "tool"
            /\ Step(r, "model", ms \o results, turn[r].steps, FALSE)
        BY <3>1
      <3> HIDE DEF ms
      <3>4. ASSUME setting.saver # "none", s \notin disturbed
            PROVE  Corresponds(ms \o results, SpokenAt(ms \o results), rows, At)
        <4>1. s \in Sessions
          BY <1>0, <3>2
        <4>2. Corresponds(ms, SpokenAt(ms), rows, At)
          BY <3>2, <3>4, <4>1 DEF Followed, FollowedAt, Busy, ms
        <4> HIDE DEF At
        <4> QED BY <2>2, <3>3, <4>2, SpokenJoined, CorrespondsSame
      <3>5. ms \o results \in Seq(Messages)
        BY <2>2
      <3> QED BY <3>2, <3>3, <3>4, <3>5, StepFollowed
    <2>6. CASE Converge(r)
      <3> DEFINE m == Says("ai", r, {}, 0)
      <3>1. turn[r].pc = "converge" /\ s \in Sessions /\ m \in Messages
            /\ Step(r, "finish", Append(ms, m), turn[r].steps, TRUE)
        BY <2>6, ConvergeMeans
      <3>2. m.calls = {} /\ m.type = "ai" /\ m.run = r
        BY DEF Says
      <3> HIDE DEF m, ms
      <3>3. ASSUME setting.saver # "none", s \notin disturbed
            PROVE  /\ Len(Append(ms, m)) \in SpokenAt(Append(ms, m))
                   /\ Append(ms, m)[Len(Append(ms, m))].run = r
                   /\ Append(ms, m)[Len(Append(ms, m))].type = "ai"
                   /\ Corresponds(Append(ms, m), SpokenAt(Append(ms, m)) \ {Len(Append(ms, m))}, rows, At)
        <4>2. Corresponds(ms, SpokenAt(ms), rows, At)
          BY <3>1, <3>3 DEF Followed, FollowedAt, Busy, ms
        <4> HIDE DEF At
        <4>3. /\ SpokenAt(ms) \subseteq 1 .. Len(ms)
              /\ SpokenAt(Append(ms, m)) = SpokenAt(ms) \cup {Len(ms) + 1}
              /\ \A i \in SpokenAt(ms) : Append(ms, m)[i] = ms[i]
              /\ Append(ms, m)[Len(ms) + 1] = m /\ Len(Append(ms, m)) = Len(ms) + 1
          BY <2>2, <3>1, <3>2, SpokenAppend
        <4>4. Corresponds(Append(ms, m), SpokenAt(ms), rows, At)
          BY <4>2, <4>3, CorrespondsSame
        <4>5. Len(ms) + 1 \notin SpokenAt(ms)
          BY <2>2, <4>3
        <4>6. SpokenAt(Append(ms, m)) \ {Len(ms) + 1} = SpokenAt(ms)
          BY <4>3, <4>5
        <4> QED BY <3>2, <4>3, <4>4, <4>6
      <3>4. Append(ms, m) \in Seq(Messages)
        BY <2>2, <3>1
      <3> QED BY <3>1, <3>3, <3>4, StepFollowed
    <2> QED BY <2>1, <2>3, <2>4, <2>5, <2>6
  <1>2. CASE ~ \E r \in Runs : Start(r) \/ Model(r) \/ Tools(r) \/ Converge(r)
    <2> QED BY <1>2, QuietFollowed
  <1> QED BY <1>1, <1>2

(* A conversation is kept: each admitted question is stored once, with one   *)
(* answer after it if and only if its job succeeded; and what the            *)
(* checkpointer remembers of a session is what agent_messages says, message  *)
(* by message, as long as its turns follow each other and none is cut off.   *)
THEOREM ConversationsKept == FairSpec => []ConversationKept
  <1> DEFINE IInv == TypeIInv /\ Spending /\ Forgetting /\ Completed /\ Followed
  <1>1. Init => IInv
    <2> SUFFICES ASSUME Init PROVE Spending /\ Forgetting /\ Completed /\ Followed
      BY InitTypes
    <2>1. /\ \A s \in Sessions : thread[s] = << >>
          /\ \A r \in Runs : turn[r].pc = "none" /\ turn[r].local = << >>
          /\ rows = << >>
      BY DEF Init, NoTurn
    <2>2. DOMAIN << >> = {}
      OBVIOUS
    <2>3. \A ms : ms = << >> => SpokenAt(ms) = {} /\ \A turns : Complete(turns, ms)
      BY <2>2 DEF Complete, SpokenAt
    <2>4. \A s \in Sessions : /\ Busy(s, Working) = {} /\ Busy(s, {"tools"}) = {} /\ Busy(s, {"finish"}) = {}
                              /\ Busy(s, {"model", "converge", "finish"}) = {} /\ Busy(s, {"start"}) = {}
                              /\ Busy(s, {"model", "tools", "converge"}) = {}
      BY <2>1 DEF Busy, Working
    <2>5. Spending /\ Forgetting
      BY <2>1 DEF Spending, Forgetting
    <2>6. Completed
      BY <2>1, <2>3, <2>4 DEF Completed
    <2>7. ASSUME NEW s \in Sessions PROVE Corresponds(thread[s], SpokenAt(thread[s]), rows, RecordedAt(rows, s))
      <3>1. SpokenAt(thread[s]) = {} /\ RecordedAt(rows, s) = {}
        BY <2>1, <2>2, <2>3 DEF RecordedAt
      <3>2. [i \in {} |-> i] \in [{} -> {}]
        OBVIOUS
      <3>3. \E at \in [{} -> {}] : TRUE
        BY <3>2
      <3> QED BY <3>1, <3>3 DEF Corresponds
    <2>8. Followed
      BY <2>4, <2>7 DEF Followed, FollowedAt
    <2> QED BY <2>5, <2>6, <2>8
  <1>2. IInv /\ [Next]_vars => IInv'
    BY NextTypes, NextSpending, NextCompleted, NextFollowed
  <1>3. IInv => ThreadFollowsRows
    <2> SUFFICES ASSUME Followed, setting.saver # "none", NEW s \in Sessions \ disturbed,
                        \A r \in Runs : turn[r].session = s => ~(turn[r].pc \in Working)
                 PROVE  Corresponds(thread[s], SpokenAt(thread[s]), rows, RecordedAt(rows, s))
      BY DEF ThreadFollowsRows
    <2>1. Busy(s, Working) = {}
      BY DEF Busy
    <2> QED BY <2>1 DEF Followed, FollowedAt
  <1> QED BY <1>1, <1>2, <1>3, QuestionsAnswered, PTL DEF FairSpec, ConversationKept
=============================================================================
