CONSTANTS
    NumBytesInGiB = 3
    NumGiBInTiB = 2
    CreateSizes = {0, 2, 3, 6, 7, 60, 63, 6000, 6006}
    ExpandSizes = {0, 4, 6, 13, 59, 60, 61, 5999, 6001}
    HostLocation = "host"
    Locations = {"host", "other"}
    MaxSegments = 2

SPECIFICATION Spec

INVARIANTS
    CreatedExactly
    RepeatIsAccepted
    PlacedAsRequired

PROPERTY ExpandedEnough

\* A refused request, or a disk of the maximum size, leaves nothing to do.
CHECK_DEADLOCK FALSE
