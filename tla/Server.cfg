CONSTANT Clients = {"kubelet", "attacher"}

SPECIFICATION FairSpec

INVARIANTS
    ExitTellsWhy
    ServerInv

PROPERTIES
    CallsAreCutLate
    StopsInTheEnd
    ServesAgain
