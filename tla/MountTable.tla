----------------------------- MODULE MountTable -----------------------------
(***************************************************************************)
(* What a node's kernel and k8s.io/mount-utils do for the node services:   *)
(* the mounts at each target path, the paths that exist, and the file      *)
(* system on the disk of the one volume this model follows.  External;     *)
(* modelled from the calls in internal/node.  Every call may also fail,    *)
(* which is left to the caller.                                            *)
(***************************************************************************)
EXTENDS Naturals, Sequences

CONSTANTS
    Targets,        \* target paths
    Devices         \* the names a mount of the volume can go by

VARIABLES
    mounts,         \* target -> its mounts, the oldest first
    paths,          \* the targets that exist, as a file or a directory
    filesystem      \* the file system on the disk

tableVars == <<mounts, paths, filesystem>>

\* No file system, one that is smaller than the disk, one that spans it.
FileSystems == {"none", "short", "full"}

\* The mount table names the device of a mount; whether the mount shows the
\* volume is what the table cannot say.
Mounts == [device : Devices \cup {"foreign"}, volume : BOOLEAN]

ForeignMount == [device |-> "foreign", volume |-> FALSE]

TableTypeOK ==
    /\ mounts \in [Targets -> Seq(Mounts)]
    /\ paths \subseteq Targets
    /\ filesystem \in FileSystems

\* Something may be left at a target from an earlier life of the node.
TableInit ==
    /\ mounts \in [Targets -> {<<>>, <<ForeignMount>>}]
    /\ paths \in {p \in SUBSET Targets : \A t \in Targets : mounts[t] # <<>> => t \in p}
    /\ filesystem \in {"none", "full"}

-----------------------------------------------------------------------------
(* Queries *)

IsMountPoint(t) == mounts[t] # <<>>

\* mount.GetDeviceNameFromMount: the first entry of the table for a path.
NamedDevice(t) == IF IsMountPoint(t) THEN Head(mounts[t]).device ELSE ""

\* What a pod sees at the target is its last mount.
ShowsVolume(t) == IsMountPoint(t) /\ mounts[t][Len(mounts[t])].volume

\* The volume is mounted nowhere, not even below another mount.
VolumeUnmounted == \A t \in Targets : \A i \in DOMAIN mounts[t] : ~mounts[t][i].volume

-----------------------------------------------------------------------------
(* Calls *)

Mount(t, device) ==
    /\ t \in paths
    /\ mounts' = [mounts EXCEPT ![t] = Append(@, [device |-> device, volume |-> TRUE])]
    /\ UNCHANGED <<paths, filesystem>>

\* The last mount goes.  Without one the call may or may not be an error.
Unmount(t) ==
    /\ mounts' = [mounts EXCEPT ![t] =
                    IF IsMountPoint(t) THEN SubSeq(@, 1, Len(@) - 1) ELSE @]
    /\ UNCHANGED <<paths, filesystem>>

MakePath(t) ==
    /\ paths' = paths \cup {t}
    /\ UNCHANGED <<mounts, filesystem>>

\* A path with something mounted is busy.
RemovePath(t) ==
    /\ ~IsMountPoint(t)
    /\ paths' = paths \ {t}
    /\ UNCHANGED <<mounts, filesystem>>

\* FormatAndMount up to the mount: a disk without a file system gets one that
\* spans it, and mkfs refuses a disk that is mounted.
FormatIfNeeded ==
    /\ filesystem = "none" => VolumeUnmounted
    /\ filesystem' = IF filesystem = "none" THEN "full" ELSE filesystem
    /\ UNCHANGED <<mounts, paths>>

\* ResizeFs.Resize
ResizeFileSystem ==
    /\ filesystem' = "full"
    /\ UNCHANGED <<mounts, paths>>

\* The disk is expanded; its file system is not.
DiskGrows ==
    /\ filesystem = "full"
    /\ filesystem' = "short"
    /\ UNCHANGED <<mounts, paths>>
=============================================================================
