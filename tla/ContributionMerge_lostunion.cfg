\* Database stores: a merge writes back what it read before an alignment pair was joined
SPECIFICATION MergeSpec
CONSTANTS
    ann = ann
    bob = bob
    rae = rae
    sys = sys
    project = project
    c1 = c1
    c2 = c2
    d1 = d1
    d2 = d2
    shared = shared
    held = held
    link = link
    p1 = p1
    None = None
    Requests = {r1, r2}
    RowLocks = TRUE
    Users <- MCUsers
    Libraries <- MCLibraries
    Rank <- MCRank
    Members <- MCMembers
    Assignable <- MCAssignable
    PushUsers <- MCPushUsers
    Names <- MCNames
    Triples <- MCTriples
    Mentions <- MCMentions
    DocOf <- MCDocOf
    Author <- MCAuthor
    Target <- MCTarget
    Stored <- MCStored
    Level <- MCLevel
    Clearance <- MCClearance
    PairSource <- MCPairSource
    Kind <- MCKind
    Likeness <- MCLikeness
    ReviewThreshold = 85
    PairTarget <- MCPairTarget
    Contributions <- Both
    Docs <- BothDocs
    Pairs <- OnePair
    ApproveUsers <- ReviewerAndCli
    Operations <- ReviewsAndPairs
    MaxVersion = 6
    Settings <- DatabaseOnly
CHECK_DEADLOCK FALSE
PROPERTIES
    MergesOnlyAdd
