\* One job of each origin, with restarts of serve and one fault of any kind
SPECIFICATION FairSpec
CONSTANTS
    Jobs <- AllJobs
    Kind <- MCKind
    Origin <- MCOrigin
    Loads <- ServeOrBeside
    Faults <- AllFaults
    MaxFaults = 1
    MaxCrashes = 2
INVARIANTS
    JobTypeOK
    OutcomeStored
PROPERTIES
    JobsGoForward
    JobsEnd
CHECK_DEADLOCK FALSE
