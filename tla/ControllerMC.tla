---------------------------- MODULE ControllerMC ----------------------------
(***************************************************************************)
(* Instances of Controller for TLC.  A GiB is scaled down to 2 bytes and a *)
(* TiB to 2 GiB: enough for sizes that are not whole and for both units.   *)
(***************************************************************************)
EXTENDS Controller, TLC

CONSTANTS
    h1, h2, h3,     \* handlers
    d1, d2, d3,     \* disk ids
    n1, n2          \* nodes

Symmetry == Permutations(Handlers)

RawName(kept) == [prefix |-> "pvc-", kept |-> kept, cut |-> ""]

Mounted == [mode |-> "SINGLE_NODE_WRITER", access |-> "mount"]

Segment(location) == [location |-> location, shared |-> "absent"]

\* A request for n bytes in a location, or anywhere.
Request(kept, n, topology) ==
    [name |-> RawName(kept), range |-> [required |-> n, limit |-> 0],
     caps |-> {Mounted}, topology |-> topology]

Here == <<Segment("here")>>
There == <<Segment("there")>>
Anywhere == <<>>

-----------------------------------------------------------------------------
(* Disks that are there before the driver starts *)

EmptyProject == {[id \in DiskIds |-> NoDisk]}

ForeignDisk(kept, type, size) ==
    [name |-> kept, type |-> type, location |-> "here", size |-> size,
     blockSize |-> IF type = SSD THEN BlockSizeSSD ELSE 0]

\* One disk that somebody else has made: it fits, it is too small, it is of
\* the other type, its size cannot be read.
UsedProject ==
    EmptyProject \cup
    {[id \in DiskIds |-> IF id = d1 THEN disk ELSE NoDisk] :
        disk \in {ForeignDisk("a", SSD, [n |-> 1, unit |-> "TiB"]),
                  ForeignDisk("a", SSD, [n |-> 1, unit |-> "GiB"]),
                  ForeignDisk("a", FS, [n |-> 2, unit |-> "GiB"]),
                  ForeignDisk("b", SSD, [n |-> 2, unit |-> "?"])}}

-----------------------------------------------------------------------------
(* Requests *)

\* Two volumes, one of them also asked for with a size that is refused.
TwoVolumes == {Request("a", 4, Here), Request("b", 4, Anywhere), Request("b", 1, Here)}

OneVolume == {Request("a", 2, Here)}

\* One volume, in a location that is not the controller's.
AwayVolume == {Request("a", 2, There)}

\* Two volumes of one size.
SmallVolumes == {Request("a", 2, Here), Request("b", 2, Anywhere)}

\* A shared disk, which needs a segment that supports shared disks: asked for
\* away from the controller, asked for where it runs, and with no such segment.
SharedSegment(location) == [location |-> location, shared |-> "true"]
SharedVolume == {Request("a", 4, <<Segment("here"), SharedSegment("there")>>),
                 Request("a", 4, <<SharedSegment("here")>>),
                 Request("a", 4, Here)}

\* 1.5 GiB and 2.5 GiB, which are resizes to 2 and to 3 GiB, and more than the
\* maximum.
Expansions == {[required |-> 3, limit |-> 0], [required |-> 0, limit |-> 5],
               [required |-> 100, limit |-> 0]}

SharedExpansions == {[required |-> 5, limit |-> 0], [required |-> 0, limit |-> 8]}

NoExpansion == {}
WriterModes == {"SINGLE_NODE_WRITER"}
AllModes == {"SINGLE_NODE_WRITER", "SINGLE_NODE_READER_ONLY"}
=============================================================================
