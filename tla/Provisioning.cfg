CONSTANTS
    NumBytesInGiB = 2
    NumGiBInTiB = 2
    NoDisk = NoDisk
    DeletedDisk = DeletedDisk
    NoId = NoId
    h1 = h1  h2 = h2  h3 = h3
    d1 = d1  d2 = d2  d3 = d3
    n1 = n1  n2 = n2
    HostLocation = "here"
    DiskType = "persistent-ssd"
    Handlers = {h1,h2,h3}
    Names = {"a", "b", "pvc-"}
    Locations = {"here", "there"}
    DiskIds = {d1,d2,d3}
    Nodes = {}
    InitialDisks <- UsedProject
    CreateRequests <- TwoVolumes
    ExpandRanges <- NoExpansion
    PublishModes <- WriterModes
    UniqueNames = FALSE
    NeverShrinks = TRUE
    ProtectsInUse = TRUE
    MayRestart = TRUE

SPECIFICATION Spec
SYMMETRY Symmetry

INVARIANTS
    TypeOK
    VolumeIsReal
    VolumesAreDistinct
    DeletedIsGone
    VolumeInv
