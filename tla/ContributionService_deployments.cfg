\* SQLite without row locks and the endpoints' operations; PostgreSQL with row locks and all operations
SPECIFICATION Deployments
CONSTANTS
    ann = ann
    rae = rae
    sys = sys
    project = project
    None = None
    Contributions = {c1}
    Requests = {r1, r2}
    Pairs = {p1}
    MaxVersion = 5
    PgMaxVersion = 4
    RowLocks = FALSE
    Users <- MCUsers
    Libraries <- MCLibraries
    Rank <- MCRank
    Members <- MCMembers
    Assignable <- MCAssignable
    PushUsers <- MCPushUsers
    ApproveUsers <- MCApproveUsers
    Operations <- ApiOperations
CHECK_DEADLOCK FALSE
INVARIANTS
    TypeOK
    VersionIdentifiesRow
    ReviewedByOthers
    ApprovedMerges
PROPERTIES
    VerdictsStand
    LifecycleSpec
    LockedCallsEnd
