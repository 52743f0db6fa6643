\* One question of a user cleared above INTERNAL
SPECIFICATION FairSpec
CONSTANTS
    None = None
    root = root
    ann = ann
    new = new
    team = team
    project = project
    analyst = analyst
    manager = manager
    Users = {root, ann, new}
    Roles = {analyst, manager}
    Teams = {team}
    Projects = {project}
    Permissions <- MCPermissions
    DefaultRolePermissions <- MCDefaults
    TeamOf <- MCTeamOf
    FirstAccounts <- MCAccounts
    FirstGroups <- MCGroups
    FirstGrants <- MCGrants
    Calls = {c1, c2}
    Requests <- MCRequests
    Sessions = {s1}
    Runs = {"q1", "q2"}
    Settings <- Simplest
INVARIANTS
    EvidenceWithinSession
CHECK_DEADLOCK FALSE
