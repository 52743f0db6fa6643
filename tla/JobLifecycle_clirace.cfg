SPECIFICATION Spec
CONSTANTS
    Jobs <- OneCliJob
    Kind <- MCKind
    Origin <- MCOrigin
    Loads <- ShellOnly
    Faults <- NoFaults
    MaxFaults = 0
    MaxCrashes = 0
PROPERTIES
    FinalIsFinal
CHECK_DEADLOCK FALSE
