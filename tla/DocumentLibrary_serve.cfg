SPECIFICATION Spec
CONSTANTS
    Seeds <- MCSeeds
    Uploads <- MCUploads
    Uploader <- MCUploader
    Users <- MCUsers
    Members <- MCMembers
    Contents <- MCContents
    Backends <- MCBackends
    Hops = 1
    MaxStarts = 3
    MaxEdits = 2
    MaxDeletes = 1
    MaxFaults = 1
    MaxJoins = 1
INVARIANTS
    LibraryTypeOK
    RetrievalVisible
    EvidenceStored
    HashMeansIngested
PROPERTIES
    SeedsCurrent
CHECK_DEADLOCK FALSE
