------------------------ MODULE MCContributionService ------------------------
(***************************************************************************)
(* Values for TLC: an author, a reviewer who is a member of the target     *)
(* project, and the CLI's system user, who approves and merges but is      *)
(* nobody's assignee; the CLI makes it a member of the target library.     *)
(*                                                                         *)
(* A deployment has SQLite, which ignores FOR UPDATE, and the operations   *)
(* the endpoints expose, or PostgreSQL with its row locks and everything   *)
(* the services define: the module itself is the first, Pg the second.     *)
(***************************************************************************)
EXTENDS ContributionService, TLC

CONSTANTS ann, rae, sys, project, PgMaxVersion

MCUsers == {ann, rae, sys}
MCLibraries == {project}
MCRank == [l \in {project} |-> 1]
MCMembers == [l \in {project} |-> {ann, rae, sys}]
MCAssignable == [l \in {project} |-> {rae}]
MCPushUsers == {ann, rae}
MCApproveUsers == {rae, sys}

ServiceOperations == Writes                       \* everything the services define
ApiOperations == Writes \ {"reopen", "close"}     \* what the endpoints expose

VARIABLE postgres   \* which of the two the deployment has
dvars == <<row, audit, req, postgres>>

Pg == INSTANCE ContributionService WITH
    RowLocks <- TRUE, Operations <- ServiceOperations, MaxVersion <- PgMaxVersion

DeploymentNext ==
    /\ \/ postgres /\ Pg!Next
       \/ ~postgres /\ Next
    /\ UNCHANGED postgres

DeploymentInit == Init /\ postgres \in BOOLEAN

(* Liveness is asked of PostgreSQL: a call that has begun runs to its end, and *)
(* the waiters of a row lock queue, so one that can take it again and again    *)
(* does take it.                                                               *)
Deployments ==
    /\ DeploymentInit
    /\ [][DeploymentNext]_dvars
    /\ \A r \in Requests : SF_dvars(postgres /\ Pg!Proceed(r) /\ UNCHANGED postgres)

(* On PostgreSQL every call that began ends: no one waits for a lock for ever. *)
LockedCallsEnd == \A r \in Requests : (postgres /\ req[r].pc # "idle") ~> req[r].pc = "idle"
=============================================================================
