CONSTANTS
    h1 = h1  h2 = h2  h3 = h3
    t1 = t1  t2 = t2
    Targets = {t1}
    Handlers = {h1, h2}
    Devices = {"by-id", "bind", "tag", "disk", "dns", "configured"}
    DiskTypes = {"shared-volume"}
    InIcat = TRUE
    ProtectsInUse = FALSE

SPECIFICATION Spec

PROPERTY HealthyMountIsKept
