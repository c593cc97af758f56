---------------------------- MODULE RequestRules ----------------------------
(***************************************************************************)
(* The pure part of the controller: what internal/controller/util.go,      *)
(* internal/crusoe/disk.go and internal/common/util.go compute from a      *)
(* request and from a disk, without calling the Crusoe API.                *)
(*                                                                         *)
(* Data is kept to what the rules tell apart.  A capacity range is the two *)
(* numbers of csi.CapacityRange, 0 standing for an absent one, as the      *)
(* generated getters return it; a nil range is the range of two zeros.  A  *)
(* disk size is the number and the unit of the string the API returns.     *)
(***************************************************************************)
EXTENDS Integers, Sequences

CONSTANTS
    NumBytesInGiB,  \* constants.go:9
    NumGiBInTiB     \* constants.go:10

ASSUME UnitsAssumption ==
    /\ NumBytesInGiB \in Nat \ {0}
    /\ NumGiBInTiB \in Nat \ {0}

-----------------------------------------------------------------------------
(* Disk types and their limits *)

SSD == "persistent-ssd"
FS  == "shared-volume"
DiskTypes == {SSD, FS}

\* getCapacity, with the limits of constants.go:12-16.
MaxSize(type) ==
    NumBytesInGiB * NumGiBInTiB * (IF type = SSD THEN 10 ELSE 1000)

MinSize(type) ==
    NumBytesInGiB * (IF type = SSD THEN 1 ELSE NumGiBInTiB)

\* constants.go:14 and 17.
SizeIncrement(type) ==
    NumBytesInGiB * (IF type = SSD THEN 1 ELSE NumGiBInTiB)

BlockSizeSSD == 4096

-----------------------------------------------------------------------------
(* Sizes *)

NoSize == 0         \* ErrNoSizeRequested

\* The limit counts only when no required size is given.
RequestSizeToBytes(range) ==
    IF range.required # 0 THEN range.required ELSE range.limit

\* Bug: integer division in place of math.Ceil.
FloorGiB(bytes) == bytes \div NumBytesInGiB

\* Rounds up to whole GiB.
CeilGiB(bytes) == -((-bytes) \div NumBytesInGiB)
RequestSizeToGiB(range) == CeilGiB(RequestSizeToBytes(range))

SizeError == -1

\* "12GiB" and "3TiB" are understood, any other unit is an error.
NormalizeDiskSizeToGiB(size) ==
    CASE size.unit = "GiB" -> size.n
      [] size.unit = "TiB" -> size.n * NumGiBInTiB
      [] OTHER -> SizeError

-----------------------------------------------------------------------------
(* Volume capabilities *)

SingleNodeModes ==
    {"SINGLE_NODE_WRITER", "SINGLE_NODE_READER_ONLY",
     "SINGLE_NODE_SINGLE_WRITER", "SINGLE_NODE_MULTI_WRITER"}

\* The two tables of allowed access modes, util.go:20-36.
AllowedAccessModes(type) ==
    SingleNodeModes \cup
    IF type = SSD
      THEN {"MULTI_NODE_READER_ONLY"}
      ELSE {"MULTI_NODE_READER_ONLY", "MULTI_NODE_SINGLE_WRITER",
            "MULTI_NODE_MULTI_WRITER"}

\* A shared disk cannot be used as a raw block device.
AllowedAccessTypes(type) ==
    IF type = SSD THEN {"block", "mount"} ELSE {"mount"}

SupportsCapability(cap, type) ==
    /\ cap.mode \in AllowedAccessModes(type)
    /\ cap.access \in AllowedAccessTypes(type)

\* ValidateVolumeCapabilities confirms a request, or explains and confirms
\* nothing; it never fails.
Confirmed(caps, type) == \A cap \in caps : SupportsCapability(cap, type)

-----------------------------------------------------------------------------
(* CreateVolume *)

\* Bug: the multiple of the size increment is not asked for.
ValidateDiskRequestOfAnySize(r, type) ==
    LET bytes == RequestSizeToBytes(r.range) IN
    IF bytes \notin MinSize(type) .. MaxSize(type)
      THEN "OutOfRange"
      ELSE IF Confirmed(r.caps, type) THEN "OK" ELSE "InvalidArgument"

\* validateDiskRequest, as the status code it returns.
ValidateDiskRequest(r, type) ==
    LET bytes == RequestSizeToBytes(r.range) IN
    IF bytes = NoSize
      THEN "InvalidArgument"
      ELSE IF \/ bytes > MaxSize(type)
              \/ bytes < MinSize(type)
              \/ bytes % SizeIncrement(type) # 0
        THEN "OutOfRange"
        ELSE IF Confirmed(r.caps, type) THEN "OK" ELSE "InvalidArgument"

NoLocation == ""    \* the segment has no location key

\* Bug: a shared disk is placed like any other.
SuitableForAnyType(segment, type) == segment.location # NoLocation

\* Only a shared disk needs the "supports-shared-disks" segment, whose value
\* must parse as true.
Suitable(segment, type) ==
    /\ segment.location # NoLocation
    /\ type = FS => segment.shared = "true"

\* parseRequiredTopology: the first suitable segment decides.  Without one an
\* SSD is placed where the controller runs, and a shared disk nowhere.
ParseRequiredTopology(topology, type, hostLocation) ==
    LET suitable == {i \in DOMAIN topology : Suitable(topology[i], type)} IN
    IF suitable = {}
      THEN IF type = SSD THEN hostLocation ELSE NoLocation
      ELSE topology[CHOOSE i \in suitable : \A j \in suitable : i <= j].location

\* Bug: the name is cut to what all names have in common.
DiskNameOfPrefix(raw) == raw.prefix

\* The disk name: the request's name without its "pvc-" prefix, cut to
\* MaxDiskNameLength characters.  A raw name is the three parts this tells
\* apart: the prefix, if any, the part that is kept and the part that is cut.
DiskName(raw) == raw.kept

\* Bug: the block size of an SSD is left to the API.
GetCreateDiskRequestOfAnyBlockSize(r, location, type) ==
    [name      |-> DiskName(r.name),
     type      |-> type,
     location  |-> location,
     size      |-> [n |-> RequestSizeToGiB(r.range), unit |-> "GiB"],
     blockSize |-> 0]

GetCreateDiskRequest(r, location, type) ==
    [name      |-> DiskName(r.name),
     type      |-> type,
     location  |-> location,
     size      |-> [n |-> RequestSizeToGiB(r.range), unit |-> "GiB"],
     blockSize |-> IF type = SSD THEN BlockSizeSSD ELSE 0]

\* Bug: every disk is expected to have the block size of an SSD.
CheckDiskMatchesBlockSize(disk, r, location, type) ==
    /\ disk.name = DiskName(r.name)
    /\ disk.blockSize = BlockSizeSSD
    /\ NormalizeDiskSizeToGiB(disk.size) = RequestSizeToGiB(r.range)
    /\ disk.location = location
    /\ disk.type = type

\* Bug: the type of the existing disk is not compared.
CheckDiskMatchesAnyType(disk, r, location, type) ==
    /\ disk.name = DiskName(r.name)
    /\ NormalizeDiskSizeToGiB(disk.size) = RequestSizeToGiB(r.range)
    /\ disk.location = location

CheckDiskMatchesRequest(disk, r, location, type) ==
    /\ disk.name = DiskName(r.name)
    /\ disk.type = SSD => disk.blockSize = BlockSizeSSD
    /\ NormalizeDiskSizeToGiB(disk.size) # SizeError
    /\ NormalizeDiskSizeToGiB(disk.size) = RequestSizeToGiB(r.range)
    /\ disk.location = location
    /\ disk.type = type

\* The capacity of the volume reported for a disk.
CapacityOf(disk) == NumBytesInGiB * NormalizeDiskSizeToGiB(disk.size)

-----------------------------------------------------------------------------
(* ControllerExpandVolume *)

\* The size tests of ControllerExpandVolume, in bytes before rounding, as the
\* status code they return.
ValidateExpandRequest(range, type) ==
    LET bytes == RequestSizeToBytes(range) IN
    IF \/ bytes = NoSize
       \/ bytes > MaxSize(type)
       \/ bytes < MinSize(type)
      THEN "OutOfRange"
      ELSE "OK"

\* Bug: the sizes are compared in GiB, rounded down.
AlreadyLargeEnoughInGiB(disk, range) ==
    NormalizeDiskSizeToGiB(disk.size) >= FloorGiB(RequestSizeToBytes(range))

AlreadyLargeEnough(disk, range) == CapacityOf(disk) >= RequestSizeToBytes(range)

\* The size sent to the API, rounded up to whole GiB.
ResizeRequest(range) == [n |-> RequestSizeToGiB(range), unit |-> "GiB"]
=============================================================================
