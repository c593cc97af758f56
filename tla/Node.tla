-------------------------------- MODULE Node --------------------------------
(***************************************************************************)
(* The node service: NodePublishVolume and NodeUnpublishVolume of          *)
(* internal/node/ssd and internal/node/fs with the mount check they share  *)
(* (internal/node/mount_check.go), for one volume published to several     *)
(* targets of one node.                                                    *)
(*                                                                         *)
(* The handlers take no notice of their context, but in the API queries of *)
(* shared disks: one the kubelet has given up runs on, beside the handler  *)
(* of the repeated call.  Nothing but the kernel's mount table remembers   *)
(* anything.  A handler is a sequence of system calls, and between any two *)
(* of them another handler may run or the process may be restarted:        *)
(*                                                                         *)
(*     resolve   which device or remote path to mount                      *)
(*     verify    is something mounted at the target?                       *)
(*     device    which device is it?                                       *)
(*     unmount   what is mounted is not the volume                         *)
(*     mkdir     make the target                                           *)
(*     format    make a file system (SSD)                                  *)
(*     mount     mount the volume                                          *)
(*     resize    grow the file system to the size of the disk (SSD)        *)
(*                                                                         *)
(*     cleanup   remove the target, unless something is mounted there      *)
(*     detach    unmount it                                                *)
(*     remove    remove the target                                         *)
(***************************************************************************)
EXTENDS MountTable

CONSTANTS
    Handlers,       \* concurrent request handlers
    DiskTypes,      \* the disk types the driver is built for
    InIcat,         \* the host instance is in icatLocation
    ProtectsInUse   \* the disk of an SSD grows only while no target uses it

SSD == "persistent-ssd"
FS  == "shared-volume"

ASSUME NodeAssumption ==
    /\ DiskTypes \subseteq {SSD, FS}
    /\ InIcat \in BOOLEAN
    /\ ProtectsInUse \in BOOLEAN
    /\ {"by-id", "bind", "tag", "disk", "dns", "configured"} \subseteq Devices

VARIABLES
    diskType,   \* common.PluginDiskType
    access,     \* the access type of the volume: "block" or "mount"
    pc,         \* handler -> where it is
    req,        \* handler -> the request it serves
    device,     \* handler -> devicePath
    stale,      \* handler -> the kubelet has given it up
    settled,    \* handler -> history: no stale handler worked on the target
                \*   when the request arrived
    view        \* history: target -> what the kubelet knows

handlerVars == <<pc, req, device, stale, settled>>
fixedVars == <<diskType, access>>
vars == <<tableVars, fixedVars, handlerVars, view>>

NoRequest == [call |-> "none"]
NoDevice == ""

Active(h) == pc[h] # "idle"
WorksOn(h, t) == Active(h) /\ req[h].target = t

-----------------------------------------------------------------------------
(* The kubelet *)

\* One call at a time for a target, as far as the kubelet knows.
Begin(h, call, t, first) ==
    /\ ~Active(h)
    /\ \A g \in Handlers : WorksOn(g, t) => stale[g]
    /\ pc' = [pc EXCEPT ![h] = first]
    /\ req' = [req EXCEPT ![h] = [call |-> call, target |-> t]]
    /\ settled' = [settled EXCEPT ![h] = \A g \in Handlers : ~WorksOn(g, t)]
    /\ view' = [view EXCEPT ![t] = "unknown"]
    /\ UNCHANGED <<tableVars, fixedVars, device, stale>>

BeginPublish(h, t) == Begin(h, "NodePublishVolume", t, "resolve")
BeginUnpublish(h, t) == Begin(h, "NodeUnpublishVolume", t, "cleanup")

\* The kubelet's call times out, and the handler does not notice, or notices
\* by a query that fails (Fails).
GivesUp(h) ==
    /\ Active(h)
    /\ ~stale[h]
    /\ stale' = [stale EXCEPT ![h] = TRUE]
    /\ UNCHANGED <<tableVars, fixedVars, pc, req, device, settled, view>>

-----------------------------------------------------------------------------
(* Replies and steps *)

Ends(h) ==
    /\ pc' = [pc EXCEPT ![h] = "idle"]
    /\ req' = [req EXCEPT ![h] = NoRequest]
    /\ device' = [device EXCEPT ![h] = NoDevice]
    /\ stale' = [stale EXCEPT ![h] = FALSE]
    /\ settled' = [settled EXCEPT ![h] = FALSE]
    /\ UNCHANGED fixedVars

ReturnsError(h) == Ends(h) /\ UNCHANGED view

ReturnsOK(h) ==
    /\ Ends(h)
    /\ view' = [view EXCEPT ![req[h].target] =
                  IF stale[h] \/ ~settled[h] THEN @
                  ELSE IF req[h].call = "NodePublishVolume" THEN "published"
                  ELSE "unpublished"]

GoesTo(h, step) ==
    /\ pc' = [pc EXCEPT ![h] = step]
    /\ UNCHANGED <<fixedVars, req, device, stale, settled, view>>

\* Any call a handler makes may fail, and the handler returns an error.
Fails(h) ==
    /\ Active(h)
    /\ ReturnsError(h)
    /\ UNCHANGED tableVars

-----------------------------------------------------------------------------
(* resolve: getSSDDevicePath, getFSDevicePath, resolveNFSTarget *)

\* A query that fails counts as FALSE here; only the query for the NFS flag
\* makes the publish fail (Fails).
UseDNSForMount(secondary) == secondary /\ InIcat

\* The host the API names for the disk, or a fallback.
ResolveNFSTarget(connectivity, secondary) ==
    IF connectivity THEN "disk"
    ELSE IF UseDNSForMount(secondary) THEN "dns"
    ELSE "configured"

\* Bug: the remote path is made without its host.
GetFSDevicePathWithoutHost(nfs, host) == IF nfs THEN ":/volumes" ELSE "tag"

GetFSDevicePath(nfs, host) == IF nfs THEN host ELSE "tag"

\* The API's answers change from one call to the next: the project's flags,
\* the data path of the disk, and whether a query succeeds.
DevicePaths ==
    IF diskType = SSD THEN {"by-id"}
    ELSE {GetFSDevicePath(nfs, ResolveNFSTarget(connectivity, secondary)) :
             nfs \in BOOLEAN, connectivity \in BOOLEAN, secondary \in BOOLEAN}

Resolve(h) ==
    /\ pc[h] = "resolve"
    /\ \E d \in DevicePaths : device' = [device EXCEPT ![h] = d]
    /\ pc' = [pc EXCEPT ![h] = "verify"]
    /\ UNCHANGED <<tableVars, fixedVars, req, stale, settled, view>>

-----------------------------------------------------------------------------
(* verify, device, unmount: VerifyMountedVolumeWithUtils *)

\* After the check: the switch over the access type.  A shared disk is no
\* block device.
Supported == diskType = FS => access = "mount"

VerifyFindsNothing(h) ==
    /\ pc[h] = "verify"
    /\ req[h].target \notin paths \/ ~IsMountPoint(req[h].target)
    /\ Supported
    /\ GoesTo(h, "mkdir")
    /\ UNCHANGED tableVars

VerifyFindsMount(h) ==
    /\ pc[h] = "verify"
    /\ req[h].target \in paths
    /\ IsMountPoint(req[h].target)
    /\ GoesTo(h, "device")
    /\ UNCHANGED tableVars

\* Bug: whatever is mounted is taken for the volume.
DeviceIsAny(h) ==
    /\ pc[h] = "device"
    /\ ReturnsOK(h)
    /\ UNCHANGED tableVars

\* The volume is mounted already: the handler is done.
DeviceMatches(h) ==
    /\ pc[h] = "device"
    /\ NamedDevice(req[h].target) = device[h]
    /\ ReturnsOK(h)
    /\ UNCHANGED tableVars

\* Bug: what is mounted is unmounted without a look at its device.
DeviceIsNone(h) ==
    /\ pc[h] = "device"
    /\ GoesTo(h, "unmount")
    /\ UNCHANGED tableVars

DeviceDiffers(h) ==
    /\ pc[h] = "device"
    /\ NamedDevice(req[h].target) # device[h]
    /\ GoesTo(h, "unmount")
    /\ UNCHANGED tableVars

UnmountOther(h) ==
    /\ pc[h] = "unmount"
    /\ Unmount(req[h].target)
    /\ Supported
    /\ GoesTo(h, "mkdir")

\* The switch is reached with the other volume unmounted.
UnmountUnsupported(h) ==
    /\ pc[h] = "unmount"
    /\ Unmount(req[h].target)
    /\ ~Supported
    /\ ReturnsError(h)

-----------------------------------------------------------------------------
(* mkdir to resize: Publish of the three kinds *)

\* The target of a file system is a directory, that of a block volume a file.
MakeTarget(h) ==
    /\ pc[h] = "mkdir"
    /\ MakePath(req[h].target)
    /\ GoesTo(h, IF diskType = SSD /\ access = "mount" THEN "format" ELSE "mount")

Format(h) ==
    /\ pc[h] = "format"
    /\ FormatIfNeeded
    /\ GoesTo(h, "mount")

\* The table shows a bind mount of a device file by the file system the file
\* is on, and any other mount by the name it was mounted with: the mount
\* command of the driver's image resolves no links.
TableName(h) == IF access = "block" THEN "bind" ELSE device[h]

\* Bug: the error of the mount is dropped.
MountVolumeOrNot(h) ==
    /\ pc[h] = "mount"
    /\ Mount(req[h].target, TableName(h)) \/ UNCHANGED tableVars
    /\ IF diskType = SSD /\ access = "mount" THEN GoesTo(h, "resize") ELSE ReturnsOK(h)

\* An SSD with a file system is resized after the mount.
MountVolume(h) ==
    /\ pc[h] = "mount"
    /\ Mount(req[h].target, TableName(h))
    /\ IF diskType = SSD /\ access = "mount" THEN GoesTo(h, "resize") ELSE ReturnsOK(h)

Resize(h) ==
    /\ pc[h] = "resize"
    /\ ResizeFileSystem
    /\ ReturnsOK(h)

-----------------------------------------------------------------------------
(* NodeUnpublishVolume: mount.CleanupMountPoint *)

CleanupFindsNoPath(h) ==
    /\ pc[h] = "cleanup"
    /\ req[h].target \notin paths
    /\ ReturnsOK(h)
    /\ UNCHANGED tableVars

CleanupFindsNoMount(h) ==
    /\ pc[h] = "cleanup"
    /\ req[h].target \in paths
    /\ RemovePath(req[h].target)
    /\ ReturnsOK(h)

CleanupFindsMount(h) ==
    /\ pc[h] = "cleanup"
    /\ IsMountPoint(req[h].target)
    /\ GoesTo(h, "detach")
    /\ UNCHANGED tableVars

\* Bug: the target is taken to be free once something has been unmounted.
DetachIsEnough(h) ==
    /\ pc[h] = "detach"
    /\ Unmount(req[h].target)
    /\ ReturnsOK(h)

Detach(h) ==
    /\ pc[h] = "detach"
    /\ Unmount(req[h].target)
    /\ GoesTo(h, "remove")

\* A second mount below the first is an error (Fails).
RemoveTarget(h) ==
    /\ pc[h] = "remove"
    /\ RemovePath(req[h].target)
    /\ ReturnsOK(h)

-----------------------------------------------------------------------------
(* NodeGetVolumeStats: two reads of what is at the path, of no consequence,  *)
(* and the answers they allow.  Each read may fail.                          *)

\* statfs tells of the file system the directory is on, mounted there or not.
GetFilesystemVolumeStats(t) ==
    {"Internal",
     IF ShowsVolume(t) THEN "usage of the volume"
     ELSE IF IsMountPoint(t) THEN "usage of another volume"
     ELSE "usage of the node"}

\* Bug: what is no directory is taken for a block volume, there or not.
GetVolumeStatsOfAnyPath(t) ==
    IF t \in paths /\ access = "mount" THEN GetFilesystemVolumeStats(t)
    ELSE {"Internal", "healthy"}

\* A directory is taken for a mounted file system, a file for a block volume.
GetVolumeStats(t) ==
    IF t \notin paths THEN {"Internal", "NotFound"}
    ELSE IF access = "mount" THEN GetFilesystemVolumeStats(t)
    ELSE {"Internal", "healthy"}

-----------------------------------------------------------------------------

Handler(h) ==
    \/ Fails(h)
    \/ Resolve(h)
    \/ VerifyFindsNothing(h) \/ VerifyFindsMount(h)
    \/ DeviceMatches(h) \/ DeviceDiffers(h)
    \/ UnmountOther(h) \/ UnmountUnsupported(h)
    \/ MakeTarget(h) \/ Format(h) \/ MountVolume(h) \/ Resize(h)
    \/ CleanupFindsNoPath(h) \/ CleanupFindsNoMount(h) \/ CleanupFindsMount(h)
    \/ Detach(h) \/ RemoveTarget(h)

PublishSteps == {"verify", "device", "unmount", "mkdir", "format", "mount", "resize"}
UnpublishSteps == {"cleanup", "detach", "remove"}

\* Some target shows the volume, if only below another mount, or some handler,
\* perhaps one the kubelet has given up, may yet make it so.
InUse ==
    \/ ~VolumeUnmounted
    \/ \E h \in Handlers : pc[h] \in PublishSteps \cup {"resolve"}

\* The controller expands an SSD that it finds detached (controller.go:433),
\* which may be attached and in use by the time the resize takes effect.
Expansion ==
    /\ diskType = SSD
    /\ access = "mount"
    /\ ProtectsInUse => ~InUse
    /\ DiskGrows
    /\ UNCHANGED <<fixedVars, handlerVars, view>>

\* The driver's process ends: the handlers are gone, the mounts stay.
Restart ==
    /\ \E h \in Handlers : Active(h)
    /\ pc' = [h \in Handlers |-> "idle"]
    /\ req' = [h \in Handlers |-> NoRequest]
    /\ device' = [h \in Handlers |-> NoDevice]
    /\ stale' = [h \in Handlers |-> FALSE]
    /\ settled' = [h \in Handlers |-> FALSE]
    /\ UNCHANGED <<tableVars, fixedVars, view>>

Init ==
    /\ TableInit
    /\ diskType \in DiskTypes
    /\ access \in {"block", "mount"}
    /\ pc = [h \in Handlers |-> "idle"]
    /\ req = [h \in Handlers |-> NoRequest]
    /\ device = [h \in Handlers |-> NoDevice]
    /\ stale = [h \in Handlers |-> FALSE]
    /\ settled = [h \in Handlers |-> FALSE]
    /\ view = [t \in Targets |-> IF t \in paths THEN "unknown" ELSE "unpublished"]

Next ==
    \/ \E h \in Handlers, t \in Targets : BeginPublish(h, t) \/ BeginUnpublish(h, t)
    \/ \E h \in Handlers : GivesUp(h) \/ Handler(h)
    \/ Expansion
    \/ Restart

Spec == Init /\ [][Next]_vars

-----------------------------------------------------------------------------
(* Properties *)

Requests == [call : {"NodePublishVolume", "NodeUnpublishVolume"}, target : Targets]

\* Every variable keeps its type.
TypeOK ==
    /\ TableTypeOK
    /\ diskType \in DiskTypes
    /\ access \in {"block", "mount"}
    /\ pc \in [Handlers -> {"idle", "resolve"} \cup PublishSteps \cup UnpublishSteps]
    /\ req \in [Handlers -> {NoRequest} \cup Requests]
    /\ device \in [Handlers -> Devices \cup {NoDevice}]
    /\ stale \in [Handlers -> BOOLEAN]
    /\ settled \in [Handlers -> BOOLEAN]
    /\ view \in [Targets -> {"unknown", "published", "unpublished"}]

\* A target reported as published shows the volume, not what was mounted there
\* before, and does so until the kubelet asks for a change: whatever failed,
\* was repeated or was restarted, and whatever happens at the other targets.
PublishedIsMounted ==
    \A t \in Targets : view[t] = "published" => t \in paths /\ ShowsVolume(t)

\* A target reported as unpublished has nothing mounted and is gone, also when
\* handlers that did not see each other have mounted the volume twice
\* (ssd_node.go:84).
UnpublishedIsClean ==
    \A t \in Targets : view[t] = "unpublished" => t \notin paths /\ ~IsMountPoint(t)

\* Every reading of the statistics is "healthy", of whatever is at the path.
\* Unless a read fails they are true as far as the kubelet knows what to ask
\* for: a published target is read as the volume, never as what the volume is
\* mounted over, and an unpublished one is not there, whatever handlers it has
\* given up have left behind (volume_stats.go:88).
StatsAreOfVolume ==
    \A t \in Targets :
        /\ view[t] = "published" =>
              GetVolumeStats(t) =
                {"Internal", IF access = "mount" THEN "usage of the volume" ELSE "healthy"}
        /\ view[t] = "unpublished" => GetVolumeStats(t) = {"Internal", "NotFound"}

\* While a publish of an SSD's file system is at work alone, as when the reply
\* of an earlier one was lost, no step takes the mount of the volume from its
\* target (mount_check.go:84).  HealthyMountIsKept asks this of every publish.
SSDMountIsKept ==
    [][\A h \in Handlers, t \in Targets :
         (/\ diskType = SSD /\ access = "mount"
          /\ WorksOn(h, t) /\ req[h].call = "NodePublishVolume"
          /\ settled[h] /\ ~stale[h]
          /\ ShowsVolume(t))
            => ShowsVolume(t)']_vars

\* The targets and the kubelet's knowledge of them, as TargetContract has them.
shown ==
    [t \in Targets |->
       IF t \notin paths THEN "gone" ELSE IF ShowsVolume(t) THEN "volume" ELSE "present"]

known ==
    [t \in Targets |->
       CASE view[t] = "published" -> "volume"
         [] view[t] = "unpublished" -> "gone"
         [] view[t] = "unknown" -> "unknown"]

Contract == INSTANCE TargetContract WITH shown <- shown, known <- known

\* The node service keeps the contract: a handler changes its own target only,
\* while the kubelet knows nothing of it, and no handler that was given up, no
\* repeated call and no restart changes a target the kubelet has been told of
\* (ssd_node.go:50, fs_node.go:60).
ImplementsContract == Contract!Spec

-----------------------------------------------------------------------------
(* Why these hold: the invariant is inductive together with TypeOK. *)

\* A handler that mounts knows what.
DeviceIsResolved ==
    \A h \in Handlers :
        pc[h] \in PublishSteps => device[h] \in {"by-id", "tag", "disk", "dns", "configured"}

\* A handler does what it was asked to do.
StepsSuitRequest ==
    \A h \in Handlers :
        /\ Active(h) => req[h] \in Requests
        /\ pc[h] \in PublishSteps \cup {"resolve"} => req[h].call = "NodePublishVolume"
        /\ pc[h] \in UnpublishSteps => req[h].call = "NodeUnpublishVolume"

\* A handler whose request found its target free is alone there until the
\* kubelet gives it up.
SettledIsAlone ==
    \A h \in Handlers : \A g \in Handlers \ {h} :
        (Active(h) /\ settled[h] /\ ~stale[h]) => ~WorksOn(g, req[h].target)

\* Nothing is known of a target some handler works on.
WorkIsUnknown ==
    \A h \in Handlers : Active(h) => view[req[h].target] = "unknown"

\* What is not the volume can only lie at the bottom, and is named so.
OthersAreBelow ==
    \A t \in Targets : \A i \in 1..Len(mounts[t]) :
        mounts[t][i].volume \/ (i = 1 /\ mounts[t][i].device = "foreign")

\* Nothing is mounted at a path that is not there.
MountsArePaths == \A t \in Targets : IsMountPoint(t) => t \in paths

\* A handler that is alone finds its mount when it resizes.
MountedForResize ==
    \A h \in Handlers :
        (pc[h] = "resize" /\ settled[h] /\ ~stale[h])
            => req[h].target \in paths /\ ShowsVolume(req[h].target)

NodeInv ==
    /\ DeviceIsResolved
    /\ StepsSuitRequest
    /\ SettledIsAlone
    /\ WorkIsUnknown
    /\ OthersAreBelow
    /\ MountsArePaths
    /\ MountedForResize
    /\ PublishedIsMounted
    /\ UnpublishedIsClean

-----------------------------------------------------------------------------

\* "Resize the filesystem to span the entire disk" (publish_filesystem.go:38):
\* a published file system is as large as its disk.
PublishedSpansDisk ==
    (diskType = SSD /\ access = "mount" /\ \E t \in Targets : view[t] = "published")
        => filesystem = "full"

\* "Idempotency check: exit early if the disk is already mounted to the target
\* path" (mount_check.go:84): a publish takes no mount of the volume away.
HealthyMountIsKept ==
    [][\A h \in Handlers :
         (pc[h] = "unmount" /\ pc'[h] = "mkdir" /\ ShowsVolume(req[h].target))
            => ShowsVolume(req[h].target)']_vars
=============================================================================
