SPECIFICATION Spec
CONSTANTS
    c1 = c1
    c2 = c2
    Docs <- MCDocs
    SplitOf <- MCSplitOf
    Curators = {c1, c2}
    Backends <- MCBackends
    MaxCalls = 3
    MaxRestarts = 1
SYMMETRY CuratorSymmetry
INVARIANTS
    CurationTypeOK
    VersionsGapless
PROPERTIES
    HandEditsKept
    MergeKeepsEdits
CHECK_DEADLOCK FALSE
