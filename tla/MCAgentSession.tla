----------------------------- MODULE MCAgentSession -----------------------------
(* The administrator root, the analyst ann with a project role, and new, who has  *)
(* no account yet.  The deployment's analysts lack "analyze", which came later.   *)
EXTENDS AgentSession

CONSTANTS root, ann, new, team, project, analyst, manager

MCDefaults == [r \in {analyst, manager} |->
    IF r = analyst THEN {"query", "analyze"} ELSE {"query", "analyze", "manage_users"}]
MCGrants == [r \in {analyst, manager} |->
    IF r = analyst THEN {"query"} ELSE {"query", "manage_users"}]
MCTeamOf == [p \in {project} |-> team]
MCAccounts == [u \in {root, ann, new} |->
    CASE u = root -> [NoAccount EXCEPT !.exists = TRUE, !.active = TRUE, !.clearance = 3,
                                       !.roles = {manager}]
      [] u = ann -> [NoAccount EXCEPT !.exists = TRUE, !.active = TRUE, !.clearance = 2,
                                      !.roles = {analyst}]
      [] OTHER -> NoAccount]
MCPermissions == {"query", "analyze", "manage_users"}
MCGroups == {team}

For(user, op) == [NoRequest EXCEPT !.op = op, !.user = user]
Clear(user, level) == [For(user, "update") EXCEPT !.clearance = level]
Deactivate == [For(ann, "deactivate") EXCEPT !.active = FALSE]
Activate == [For(ann, "update") EXCEPT !.active = TRUE]
Create == For(new, "create")
Join(g, role) == [For(ann, "add_member") EXCEPT !.group = g, !.role = role]
Leave(g) == [For(ann, "remove_member") EXCEPT !.group = g]
Assign(role) == [For(ann, "assign_role") EXCEPT !.role = role]
Everyday == {Clear(ann, 1), Clear(ann, 3), Deactivate, Activate, Create, Join(team, None), Leave(team)}
Promotions == {Join(project, manager), Assign(manager)}
MCRequests == Everyday \cup Promotions

(* Accounts changed by several at once; a release seeded while they are; a       *)
(* conversation whose owner's account is changed; conversations of several turns, *)
(* with each checkpointer.                                                        *)
Quiet == [requests |-> {}, entries |-> 0, seeds |-> FALSE, owners |-> {ann}, questions |-> {"q1", "q2"},
          saver |-> "memory", faults |-> 0, window |-> 1, steps |-> 2, calls |-> 2]
Office == [Quiet EXCEPT !.requests = Everyday, !.entries = 3, !.owners = {}, !.questions = {}]
Upgraded == [Office EXCEPT !.requests = Promotions, !.entries = 2, !.seeds = TRUE]
Demoted == [Quiet EXCEPT !.requests = {Clear(ann, 1), Clear(ann, 3), Deactivate}, !.entries = 2,
                         !.questions = {"q1"}, !.calls = 1]
Durable == [Quiet EXCEPT !.saver = "postgres", !.faults = 1, !.calls = 1]
Forgetful == [Quiet EXCEPT !.saver = "none", !.calls = 1]
Volatile == [Quiet EXCEPT !.faults = 1, !.calls = 1, !.window = 2]
Longer == [Quiet EXCEPT !.questions = {"q1"}, !.steps = 3]
AllSettings == {Office, Upgraded, Demoted, Quiet, Durable, Forgetful, Volatile, Longer}
Simplest == {[Quiet EXCEPT !.questions = {"q1"}, !.calls = 1]}
=============================================================================
