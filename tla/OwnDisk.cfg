CONSTANTS
    NumBytesInGiB = 2
    NumGiBInTiB = 2
    NoDisk = NoDisk
    DeletedDisk = DeletedDisk
    NoId = NoId
    h1 = h1  h2 = h2  h3 = h3
    d1 = d1  d2 = d2  d3 = d3
    n1 = n1  n2 = n2
    HostLocation = "here"
    DiskType = "persistent-ssd"
    Handlers = {h1,h2}
    Names = {"a", "b", "pvc-"}
    Locations = {"here", "there"}
    DiskIds = {d1,d2}
    Nodes = {}
    InitialDisks <- EmptyProject
    CreateRequests <- AwayVolume
    ExpandRanges <- NoExpansion
    PublishModes <- WriterModes
    UniqueNames = TRUE
    NeverShrinks = TRUE
    ProtectsInUse = TRUE
    MayRestart = FALSE

SPECIFICATION Spec

INVARIANT OwnDiskAccepted
