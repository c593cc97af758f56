--------------------------- MODULE RequestRulesMC ---------------------------
(***************************************************************************)
(* Runs the rules of RequestRules on bounded inputs, in the order the      *)
(* handlers apply them to one disk: one CreateVolume, then any number of   *)
(* ControllerExpandVolume, with nothing in between that could fail.  Units *)
(* are scaled down, because the real ones do not fit in TLC's integers.    *)
(***************************************************************************)
EXTENDS RequestRules

CONSTANTS
    CreateSizes,    \* numbers a create request's range is made of, in bytes
    ExpandSizes,    \* numbers an expand request's range is made of, in bytes
    HostLocation,   \* where the controller runs
    Locations,      \* the locations segments name
    MaxSegments     \* of a required topology

\* The ranges of a request are int64, and may be negative.
ASSUME RequestsAssumption ==
    /\ CreateSizes \subseteq Int
    /\ ExpandSizes \subseteq Int
    /\ MaxSegments \in Nat

VARIABLES
    type,       \* the driver's disk type
    request,    \* the create request
    disk,       \* the disk, as the API describes it
    stage,      \* "asked", "refused", "created" or "expanded"
    wanted      \* the size in bytes of the last request that was granted

vars == <<type, request, disk, stage, wanted>>

Ranges(sizes) == [required : sizes, limit : sizes]

Segments ==
    [location : Locations \cup {NoLocation},
     shared   : {"true", "false", "absent"}]

Topologies == UNION {[1 .. n -> Segments] : n \in 0 .. MaxSegments}

Capabilities == {
    [mode |-> "SINGLE_NODE_WRITER", access |-> "mount"],
    [mode |-> "SINGLE_NODE_READER_ONLY", access |-> "block"],
    [mode |-> "MULTI_NODE_MULTI_WRITER", access |-> "mount"],
    [mode |-> "UNKNOWN", access |-> "mount"]}

\* Every range with every topology and every one of the capabilities.
Requests ==
    [name     : {[prefix |-> "pvc-", kept |-> "vol", cut |-> ""]},
     range    : Ranges(CreateSizes \cup {-1}),
     topology : Topologies,
     caps     : {{c} : c \in Capabilities}]

NoDisk == [name |-> "none"]

\* The API may describe a size in either unit.
Renderings(n) ==
    {[n |-> n, unit |-> "GiB"]} \cup
    IF n % NumGiBInTiB = 0 THEN {[n |-> n \div NumGiBInTiB, unit |-> "TiB"]} ELSE {}

Init ==
    /\ type \in DiskTypes
    /\ request \in Requests
    /\ disk = NoDisk
    /\ stage = "asked"
    /\ wanted = 0

Location == ParseRequiredTopology(request.topology, type, HostLocation)

Refuse ==
    /\ stage = "asked"
    /\ \/ ValidateDiskRequest(request, type) # "OK"
       \/ type = FS /\ Location = NoLocation
    /\ stage' = "refused"
    /\ UNCHANGED <<type, request, disk, wanted>>

Create ==
    /\ stage = "asked"
    /\ ValidateDiskRequest(request, type) = "OK"
    /\ type = FS => Location # NoLocation
    /\ LET d == GetCreateDiskRequest(request, Location, type) IN
         \E size \in Renderings(d.size.n) : disk' = [d EXCEPT !.size = size]
    /\ stage' = "created"
    /\ wanted' = RequestSizeToBytes(request.range)
    /\ UNCHANGED <<type, request>>

Expand ==
    /\ stage \in {"created", "expanded"}
    /\ \E range \in Ranges(ExpandSizes) :
         /\ ValidateExpandRequest(range, type) = "OK"
         /\ ~AlreadyLargeEnough(disk, range)
         /\ \E size \in Renderings(ResizeRequest(range).n) :
              disk' = [disk EXCEPT !.size = size]
         /\ wanted' = RequestSizeToBytes(range)
    /\ stage' = "expanded"
    /\ UNCHANGED <<type, request>>

Next == Refuse \/ Create \/ Expand

Spec == Init /\ [][Next]_vars

-----------------------------------------------------------------------------
(* Properties *)

\* A new disk has exactly the size asked for, however the API words it, and a
\* size the driver advertises in GetCapacity: the rounding to GiB
\* (util.go:171) never changes a request that validateDiskRequest let through.
CreatedExactly ==
    stage = "created" =>
        /\ CapacityOf(disk) = RequestSizeToBytes(request.range)
        /\ CapacityOf(disk) \in MinSize(type) .. MaxSize(type)

\* CreateVolume repeated finds its own disk and accepts it, when it compares
\* it with the location it asked for (disk.go:118).
RepeatIsAccepted ==
    stage = "created" => CheckDiskMatchesRequest(disk, request, Location, type)

\* A disk is placed in a location some segment of the request allows, the
\* first that is not ruled out by an earlier one; a shared disk never where no
\* segment says shared disks are supported; and only a request that allows no
\* location at all leaves the choice to the driver (util.go:191).
PlacedAsRequired ==
    stage = "created" =>
        LET Allows(i) == /\ request.topology[i].location = disk.location
                         /\ type = FS => request.topology[i].shared = "true"
            named == \E i \in DOMAIN request.topology :
                        request.topology[i].location # NoLocation
        IN  \/ \E i \in DOMAIN request.topology : Allows(i)
            \/ type = SSD /\ ~named /\ disk.location = HostLocation

\* A disk only grows, to at least the size asked for, by less than one GiB
\* more than that, and never beyond the maximum that was tested before the
\* size was rounded (controller.go:452-498).
ExpandedEnough ==
    [][stage' = "expanded" =>
          /\ CapacityOf(disk') > CapacityOf(disk)
          /\ CapacityOf(disk') - wanted' \in 0 .. NumBytesInGiB - 1
          /\ CapacityOf(disk') <= MaxSize(type)]_vars
=============================================================================
