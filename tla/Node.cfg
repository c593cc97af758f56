CONSTANTS
    h1 = h1  h2 = h2  h3 = h3
    t1 = t1  t2 = t2
    Targets = {t1, t2}
    Handlers = {h1, h2}
    Devices = {"by-id", "bind", "tag", "disk", "dns", "configured"}
    DiskTypes = {"persistent-ssd", "shared-volume"}
    InIcat = FALSE
    ProtectsInUse = FALSE

SPECIFICATION Spec
SYMMETRY Symmetry

INVARIANTS
    TypeOK
    PublishedIsMounted
    UnpublishedIsClean
    StatsAreOfVolume
    NodeInv

PROPERTIES
    SSDMountIsKept
    ImplementsContract
