SPECIFICATION Spec
CONSTANTS
    c1 = c1
    c2 = c2
    Docs <- MCDocs
    SplitOf <- MCSplitOf
    Curators = {c1, c2}
    Backends <- MCBackends
    MaxCalls = 2
    MaxRestarts = 0
INVARIANTS
    AnyVersionRestorable
CHECK_DEADLOCK FALSE
