SPECIFICATION Spec
CONSTANTS
    Seeds <- MCSeeds
    Uploads <- MCUploads
    Uploader <- MCUploader
    Users <- MCUsers
    Members <- MCMembers
    Contents <- MCPlainContents
    Backends <- MCMemory
    Hops = 1
    MaxStarts = 1
    MaxEdits = 1
    MaxDeletes = 1
    MaxFaults = 1
    MaxJoins = 0
PROPERTIES
    SharedEntityKept
CHECK_DEADLOCK FALSE
