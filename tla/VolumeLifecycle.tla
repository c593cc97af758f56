-------------------------- MODULE VolumeLifecycle --------------------------
(***************************************************************************)
(* One SSD volume with a file system from its creation to its deletion:    *)
(* the controller service (Controller), the node service of one node       *)
(* (Node) and the orchestrator (CO) between them.  The two services run in *)
(* processes of their own, restart on their own, and share nothing but the *)
(* disk: the controller attaches it, the node mounts it.                   *)
(*                                                                         *)
(* Every step is a step of Controller or of Node.  What this module adds   *)
(* is the order in which the CO uses them:                                 *)
(*                                                                         *)
(*   - the kubelet publishes a volume that is attached, as far as the CO   *)
(*     knows (VolumeAttachment.status.attached);                           *)
(*   - the attacher detaches, and the provisioner deletes, a volume that   *)
(*     no target of the node is known or suspected to use                  *)
(*     (Node.status.volumesInUse).                                         *)
(*                                                                         *)
(* The CO knows what it was told by a reply to a request that found no     *)
(* handler or operation of an earlier one still at work (settled, in both  *)
(* modules).                                                               *)
(***************************************************************************)
EXTENDS Integers, Sequences

CONSTANTS
    Volume,             \* the name of the volume, as the CO asks for it
    Disk,               \* the id its disk gets
    Instance,           \* the node
    Targets,            \* target paths on the node
    ControllerHandlers, \* request handlers of the controller service
    NodeHandlers,       \* request handlers of the node service
    Range,              \* the capacity range of the volume
    ExpandRanges,       \* those it may be expanded to
    HostLocation,       \* where the controller runs
    NoDisk, DeletedDisk, NoId,
    NumBytesInGiB, NumGiBInTiB

CapacityRanges == [required : Int, limit : Int]

ASSUME LifecycleAssumption ==
    /\ NumBytesInGiB \in Nat \ {0}
    /\ NumGiBInTiB \in Nat \ {0}
    /\ Disk # NoId
    /\ Range \in CapacityRanges
    /\ ExpandRanges \subseteq CapacityRanges

SSD == "persistent-ssd"
Mounted == [mode |-> "SINGLE_NODE_WRITER", access |-> "mount"]
Request == [name |-> Volume, range |-> Range, caps |-> {Mounted}, topology |-> <<>>]

VARIABLES
    disks, attachments, instances, ops,             \* the Crusoe API
    controllerPc, controllerReq, controllerSettled, \* the controller's handlers
    lastReply, claims, attachmentView,              \* the provisioner, the attacher
    mounts, paths, filesystem,                      \* the node's kernel, the disk
    diskType, access,
    nodePc, nodeReq, device, stale, nodeSettled,    \* the node's handlers
    targetView                                      \* the kubelet

controllerVars ==
    <<disks, attachments, instances, ops, controllerPc, controllerReq,
      controllerSettled, lastReply, claims, attachmentView>>
nodeVars ==
    <<mounts, paths, filesystem, diskType, access, nodePc, nodeReq, device, stale,
      nodeSettled, targetView>>
vars == <<controllerVars, nodeVars>>

\* The two services, with what is proved of them.
C == INSTANCE VolumeProofs WITH
        Handlers <- ControllerHandlers, DiskIds <- {Disk}, Nodes <- {Instance},
        Names <- {Volume.kept}, Locations <- {HostLocation},
        InitialDisks <- {[id \in {Disk} |-> NoDisk]},
        UniqueNames <- TRUE, NeverShrinks <- TRUE, ProtectsInUse <- FALSE, DiskType <- SSD,
        CreateRequests <- {Request},
        PublishModes <- {Mounted.mode}, MayRestart <- TRUE,
        pc <- controllerPc, req <- controllerReq, settled <- controllerSettled,
        view <- attachmentView

N == INSTANCE NodeProofs WITH
        Handlers <- NodeHandlers, DiskTypes <- {SSD}, InIcat <- FALSE, ProtectsInUse <- FALSE,
        Devices <- {"by-id", "bind", "tag", "disk", "dns", "configured"},
        pc <- nodePc, req <- nodeReq, settled <- nodeSettled, view <- targetView

ASSUME DiskAssumption ==
    /\ NoDisk # DeletedDisk
    /\ NoDisk \notin C!Disks /\ DeletedDisk \notin C!Disks

-----------------------------------------------------------------------------
(* The CO *)

Attachment == <<Disk, Instance>>

\* Nothing on the node is known or suspected to use the volume.
NotInUse == \A t \in Targets : targetView[t] = "unpublished"

Provisions(h) ==
    /\ C!BeginCreate(h, Request)
    /\ UNCHANGED nodeVars

\* A volume is deleted once it is known to be detached.
Deprovisions(h) ==
    /\ attachmentView[Attachment] = "detached"
    /\ C!BeginDelete(h, Volume)
    /\ UNCHANGED nodeVars

Attaches(h) ==
    /\ C!BeginPublish(h, Disk, Instance, Mounted.mode)
    /\ UNCHANGED nodeVars

Detaches(h) ==
    /\ NotInUse
    /\ C!BeginUnpublish(h, Disk, Instance)
    /\ UNCHANGED nodeVars

Expands(h) ==
    /\ \E range \in ExpandRanges : C!BeginExpand(h, Disk, range)
    /\ UNCHANGED nodeVars

Publishes(h, t) ==
    /\ attachmentView[Attachment] = "attached"
    /\ N!BeginPublish(h, t)
    /\ UNCHANGED controllerVars

Unpublishes(h, t) ==
    /\ N!BeginUnpublish(h, t)
    /\ UNCHANGED controllerVars

-----------------------------------------------------------------------------
(* The services *)

ControllerHandler(h) == C!Handler(h) /\ UNCHANGED nodeVars

NodeHandler(h) == N!GivesUp(h) \/ N!Handler(h)

\* A file system does not grow with its disk, which may be in use by then: the
\* controller looks whether it is attached before it asks for the resize.
OperationTakesEffect(c) ==
    /\ C!TakesEffect(c)
    /\ IF ops[c].call.kind = "resize" /\ filesystem = "full"
         THEN N!Expansion
         ELSE UNCHANGED nodeVars

API ==
    /\ \E c \in ControllerHandlers :
         \/ OperationTakesEffect(c)
         \/ C!OperationFails(c) /\ UNCHANGED nodeVars
    /\ lastReply' = C!NoReply
    /\ UNCHANGED <<controllerPc, controllerReq, controllerSettled, claims, attachmentView>>

Init ==
    /\ C!Init
    /\ N!Init
    /\ access = Mounted.access
    /\ filesystem = "none"

Next ==
    \/ \E h \in ControllerHandlers :
         \/ Provisions(h) \/ Deprovisions(h) \/ Attaches(h) \/ Detaches(h) \/ Expands(h)
         \/ ControllerHandler(h)
    \/ API
    \/ C!Restart /\ UNCHANGED nodeVars
    \/ \E h \in NodeHandlers :
         \/ \E t \in Targets : Publishes(h, t) \/ Unpublishes(h, t)
         \/ NodeHandler(h) /\ UNCHANGED controllerVars
    \/ N!Restart /\ UNCHANGED controllerVars

Spec == Init /\ [][Next]_vars

-----------------------------------------------------------------------------
(* Properties *)

\* The volume's own mounts, those below another mount included.
HasMount(t) == \E i \in DOMAIN mounts[t] : mounts[t][i].volume

\* The node formats, mounts and resizes a device that is there and stays: from
\* the kubelet's first call for a target to the end of the last mount the disk
\* is attached, and nothing that could detach it is on its way.  Neither
\* service knows of the other; it takes the truth of both their replies, and
\* that of a stale handler's work, for this to hold (controller.go:300,
\* ssd_node.go:50).
DiskInUseStaysAttached == N!InUse => C!StaysAttached(Disk, Instance)

\* The stages of VolumeContract.
stage ==
    IF ~C!Live(Disk) THEN "absent"
    ELSE IF attachments[Attachment] = "none" THEN "created"
    ELSE IF \A t \in Targets : ~HasMount(t) THEN "attached"
    ELSE "mounted"

\* What the CO knows of them, from the three views it keeps.
known ==
    IF \E t \in Targets : targetView[t] = "published" THEN "mounted"
    ELSE IF ~NotInUse THEN "unknown"
    ELSE IF claims[Volume].state = "deleted" THEN "absent"
    ELSE IF claims[Volume].state # "bound" THEN "unknown"
    ELSE IF attachmentView[Attachment] = "attached" THEN "attached"
    ELSE IF attachmentView[Attachment] = "detached" THEN "created"
    ELSE "unknown"

Contract == INSTANCE VolumeContract WITH stage <- stage, known <- known

\* Controller and node service together keep the contract: no lost reply,
\* abandoned operation, stale handler or restart of either service makes the
\* volume skip a stage, leave one the CO knows it to be in, or be reported
\* where it is not.
ImplementsContract == Contract!Spec
=============================================================================
