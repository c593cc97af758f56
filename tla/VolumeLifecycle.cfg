CONSTANTS
    c1 = c1  c2 = c2  h1 = h1  h2 = h2
    Volume <- Name
    Disk = disk
    Instance = instance
    Targets = {"target"}
    ControllerHandlers = {c1, c2}
    NodeHandlers = {h1, h2}
    Range <- OneGiB
    ExpandRanges <- Larger
    HostLocation = "here"
    NoDisk = NoDisk
    DeletedDisk = DeletedDisk
    NoId = NoId
    NumBytesInGiB = 2
    NumGiBInTiB = 2

SPECIFICATION Spec
SYMMETRY Symmetry
VIEW View

INVARIANT DiskInUseStaysAttached
PROPERTY ImplementsContract
