-------------------------- MODULE AccessAdministration --------------------------
(***************************************************************************)
(* Accounts, teams and projects (auth/models.py), what their rows entitle  *)
(* a user to (get_access_context), and the /admin endpoints that change    *)
(* them.  An endpoint loads the rows it needs, then flushes its change and *)
(* the audit entry and commits: two steps, and other calls in between.     *)
(* SQLAlchemy writes the columns whose value differs from the loaded one.  *)
(***************************************************************************)
EXTENDS Naturals, Sequences, FiniteSets

CONSTANTS
    Users, Roles, Teams, Projects, Permissions,
    None,
    DefaultRolePermissions,   \* what the code gives each built-in role
    TeamOf,                   \* the team a project belongs to
    FirstAccounts,            \* the accounts before the first call
    FirstGroups,              \* the teams and projects there are then
    FirstGrants,              \* the permissions of the roles at that time: an older release's
    Calls,                    \* concurrent calls of the endpoints
    Requests                  \* what they may ask for

Clearances == 0 .. 3      \* PUBLIC, INTERNAL, CONFIDENTIAL, SECRET
NoAccount == [exists |-> FALSE, active |-> FALSE, clearance |-> 1,
              roles |-> {}, teams |-> {}, projects |-> {}]
Account == [exists: BOOLEAN, active: BOOLEAN, clearance: Clearances,
            roles: SUBSET Roles, teams: SUBSET Teams, projects: SUBSET (Projects \X Roles)]
Request == [op: {"create", "update", "deactivate", "assign_role", "add_member", "remove_member"},
            user: Users, clearance: Clearances \cup {None}, active: BOOLEAN \cup {None},
            role: Roles \cup {None}, group: Teams \cup Projects \cup {None}]

(* Ids are unique, and each endpoint's body has the fields of its operation. *)
ASSUME AdministrationAssumption ==
    /\ None \notin Users \cup Roles \cup Teams \cup Projects
    /\ Teams \cap Projects = {}
    /\ DefaultRolePermissions \in [Roles -> SUBSET Permissions]
    /\ TeamOf \in [Projects -> Teams]
    /\ FirstAccounts \in [Users -> Account]
    /\ \A u \in Users : ~FirstAccounts[u].exists => FirstAccounts[u] = NoAccount
    /\ FirstGroups \subseteq Teams \cup Projects
    /\ FirstGrants \in [Roles -> SUBSET Permissions]
    /\ Requests \subseteq Request
    /\ \A q \in Requests :
         /\ q.clearance # None => q.op \in {"create", "update"}
         /\ q.active # None => q.op \in {"update", "deactivate"}
         /\ q.group # None <=> q.op \in {"add_member", "remove_member"}
         /\ q.op = "assign_role" \/ (q.op = "add_member" /\ q.group \in Projects) => q.role \in Roles

VARIABLES
    account,    \* users with their user_roles, team_members and project_members
    groups,     \* the teams and projects that exist
    grants,     \* role_permissions
    seeded,     \* whether this release's `db seed` has run
    call,       \* the calls under way, with the rows they loaded
    trail,      \* the manage_user entries of audit_logs
    clashed     \* the users two calls were changing at once

admin == <<account, groups, grants, seeded, call, trail, clashed>>

NoRequest == [op |-> "none", user |-> None, clearance |-> None, active |-> None,
              role |-> None, group |-> None]
Free == [pc |-> "free", by |-> None, req |-> NoRequest, seen |-> NoAccount]

AdminInit ==
    /\ account = FirstAccounts
    /\ groups = FirstGroups
    /\ grants = FirstGrants /\ seeded = FALSE
    /\ call = [c \in Calls |-> Free]
    /\ trail = << >> /\ clashed = {}

(* get_access_context: the permissions of the user's own roles and of the roles *)
(* in projects; nothing for an account that is missing or not active.           *)
HeldRoles(u) == account[u].roles \cup {m[2] : m \in account[u].projects}
HasContext(u) == account[u].exists /\ account[u].active
Context(u) ==
    [user |-> u, clearance |-> account[u].clearance,
     permissions |-> UNION {grants[r] : r \in HeldRoles(u)},
     teams |-> account[u].teams, projects |-> {m[1] : m \in account[u].projects}]
MayManage(u) == HasContext(u) /\ "manage_users" \in Context(u).permissions

(* stores/visibility.py: clearance, and the library the record is in. *)
VisibleTo(record, ctx) ==
    /\ ctx.clearance >= record.level
    /\ \/ record.scope = "personal" /\ record.owner = ctx.user
       \/ record.scope = "project" /\ record.owner \in ctx.projects
       \/ record.scope = "team" /\ record.owner \in ctx.teams

(* What the endpoint finds out before it changes anything: 404 and 409 otherwise. *)
MemberIn(a, g) == g \in a.teams \cup {m[1] : m \in a.projects}
Acceptable(req) ==
    CASE req.op = "create" -> ~account[req.user].exists
      [] req.op \in {"update", "deactivate", "assign_role"} -> account[req.user].exists
      [] req.op = "add_member" -> account[req.user].exists /\ req.group \in groups
      [] req.op = "remove_member" -> MemberIn(account[req.user], req.group)

Arrive(c, by, req) ==
    /\ call[c].pc = "free" /\ MayManage(by) /\ Acceptable(req)
    /\ call' = [call EXCEPT ![c] = [pc |-> "loaded", by |-> by, req |-> req,
                                    seen |-> account[req.user]]]
    /\ clashed' = IF \E d \in Calls : call[d].pc = "loaded" /\ call[d].req.user = req.user
                  THEN clashed \cup {req.user} ELSE clashed
    /\ UNCHANGED <<account, groups, grants, seeded, trail>>

(* An assignment to a loaded column, as its flush leaves the row: None is left *)
(* alone, and a value the object already had is not written.                   *)
Assigned(asked, seen, now) == IF asked = None \/ asked = seen THEN now ELSE asked

(* Mutant: the name is not unique in the database. *)
FlushesAnyway(req) == TRUE

(* The keys: one account per name, one row per role, one per member and group. *)
Flushes(req) ==
    CASE req.op = "create" -> ~account[req.user].exists
      [] req.op = "assign_role" -> req.role \notin account[req.user].roles
      [] req.op = "add_member" -> ~MemberIn(account[req.user], req.group)
      [] OTHER -> TRUE

Changed(a, req, seen) ==
    CASE req.op = "create" ->
            [NoAccount EXCEPT !.exists = TRUE, !.active = TRUE,
                              !.clearance = IF req.clearance = None THEN 1 ELSE req.clearance]
      [] req.op \in {"update", "deactivate"} ->
            [a EXCEPT !.clearance = Assigned(req.clearance, seen.clearance, @),
                      !.active = Assigned(req.active, seen.active, @)]
      [] req.op = "assign_role" -> [a EXCEPT !.roles = @ \cup {req.role}]
      [] req.op = "add_member" ->
            IF req.group \in Teams THEN [a EXCEPT !.teams = @ \cup {req.group}]
            ELSE [a EXCEPT !.projects = @ \cup {<<req.group, req.role>>}]
      [] req.op = "remove_member" ->
            [a EXCEPT !.teams = @ \ {req.group}, !.projects = {m \in @ : m[1] # req.group}]

(* The flush and the commit, the change and its audit entry together, or a *)
(* violated key and nothing.                                               *)
Write(c) ==
    /\ call[c].pc = "loaded"
    /\ LET req == call[c].req IN
         IF Flushes(req)
         THEN /\ account' = [account EXCEPT ![req.user] = Changed(@, req, call[c].seen)]
              /\ trail' = Append(trail, req)
         ELSE UNCHANGED <<account, trail>>
    /\ call' = [call EXCEPT ![c] = Free]
    /\ UNCHANGED <<groups, grants, seeded, clashed>>

(* create_team, create_project: an insert under a unique name. *)
CreateGroup(by, g) ==
    /\ MayManage(by) /\ g \notin groups
    /\ g \in Projects => TeamOf[g] \in groups
    /\ groups' = groups \cup {g}
    /\ trail' = Append(trail, [NoRequest EXCEPT !.op = "create_group", !.group = g])
    /\ UNCHANGED <<account, grants, seeded, call, clashed>>

(* seed_default_roles: a missing role is created, a role that exists gets the *)
(* permissions it lacks and loses none.                                       *)
Backfilled(r) == grants[r] \cup DefaultRolePermissions[r]
Seed ==
    /\ grants' = [r \in Roles |-> Backfilled(r)] /\ seeded' = TRUE
    /\ UNCHANGED <<account, groups, call, trail, clashed>>
-----------------------------------------------------------------------------
AdminTypeOK ==
    /\ account \in [Users -> Account]
    /\ groups \subseteq Teams \cup Projects
    /\ grants \in [Roles -> SUBSET Permissions]
    /\ call \in [Calls -> [pc: {"free", "loaded"}, by: Users \cup {None},
                           req: Requests \cup {NoRequest}, seen: Account]]

(* The last entry about u that satisfies Concerns. *)
Told(u, Concerns(_)) == {i \in DOMAIN trail : trail[i].user = u /\ Concerns(trail[i])}
LastOf(S) == CHOOSE i \in S : \A j \in S : j <= i

(* Unless two administrators were changing an account at once, the audit log    *)
(* tells what it is: the last clearance and activity told are the ones in       *)
(* force, and a member is whoever was told to be added and not removed since.   *)
(* (Of two at once, the second may write nothing and be logged all the same.)   *)
AccountsTold == \A u \in Users \ clashed :
    LET levels == Told(u, LAMBDA e : e.clearance # None)
        actives == Told(u, LAMBDA e : e.active # None)
        of(g) == Told(u, LAMBDA e : e.group = g)
    IN /\ levels # {} => account[u].clearance = trail[LastOf(levels)].clearance
       /\ actives # {} => account[u].active = trail[LastOf(actives)].active
       /\ \A g \in groups : of(g) # {} =>
            (MemberIn(account[u], g) <=> trail[LastOf(of(g))].op = "add_member")

(* However many calls create a user of one name, one account comes of it.       *)
CreatedOnce == \A i, j \in DOMAIN trail :
    trail[i].op = "create" /\ trail[j].op = "create" /\ trail[i].user = trail[j].user => i = j

(* The administrators' trail can be relied on: it tells the accounts as they    *)
(* are, and of each account that it was created once.                           *)
TrailTells == AccountsTold /\ CreatedOnce
=============================================================================
