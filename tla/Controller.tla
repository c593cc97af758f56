----------------------------- MODULE Controller -----------------------------
(***************************************************************************)
(* The controller service: the handlers of internal/controller/            *)
(* controller.go that change state, run concurrently by the gRPC server    *)
(* against the Crusoe API.  The driver keeps no state of its own; a        *)
(* handler is a sequence of API calls with local variables in between:     *)
(*                                                                         *)
(*     find    look the disk or the instance up, and decide                *)
(*     send    start the asynchronous operation                            *)
(*     await   wait for it (AwaitContract)                                 *)
(*                                                                         *)
(* The caller is the container orchestrator (CO): Kubernetes' external     *)
(* provisioner, attacher and resizer.  It serialises the requests that     *)
(* share a work queue, retries what failed, and remembers what it was      *)
(* told; that memory is the history the properties speak of.               *)
(***************************************************************************)
EXTENDS CrusoeAPI

CONSTANTS
    DiskType,       \* DefaultController.DiskType
    HostLocation,   \* DefaultController.HostInstance.Location
    CreateRequests, \* the CreateVolume requests the CO may send
    ExpandRanges,   \* the capacity ranges it may expand a volume to
    PublishModes,   \* the access modes it may publish a volume with
    MayRestart      \* the driver's process may be killed and restarted

CapacityRanges == [required : Int, limit : Int]

ASSUME ControllerAssumption ==
    /\ DiskType \in DiskTypes
    /\ MayRestart \in BOOLEAN
    /\ HostLocation \in Locations
    /\ ExpandRanges \subseteq CapacityRanges
    /\ \A r \in CreateRequests :
         /\ DiskName(r.name) \in Names
         /\ r.range \in CapacityRanges
         /\ DOMAIN r.topology \subseteq Nat
         /\ \A i \in DOMAIN r.topology : r.topology[i].location \in Locations \cup {NoLocation}

VARIABLES
    pc,         \* handler -> where it is
    req,        \* handler -> the request it serves
    settled,    \* handler -> history: no abandoned operation could still
                \*   undo its work when its request began
    lastReply,  \* history: the reply sent by the last step, if any
    claims,     \* history: volume name -> the volume the CO has for it
    view        \* history: disk id, node -> what the CO knows

driverVars == <<pc, req, settled>>
coVars == <<claims, view>>
vars == <<apiVars, driverVars, lastReply, coVars>>

VolumeNames == {r.name : r \in CreateRequests}

NoRequest == [call |-> "none"]
NoReply == [code |-> "none"]
NoClaim == [state |-> "none"]

Active(h) == pc[h] # "idle"

-----------------------------------------------------------------------------
(* The CO's side *)

\* The CO owns a volume, or is deleting it, under this id.
ClaimIn(id, states) ==
    \E name \in VolumeNames : claims[name].state \in states /\ claims[name].id = id

\* Requests of one kind for one volume (and node) share a work queue, and
\* publishing and unpublishing are one kind.
SameQueue(a, b) ==
    \/ a.call = "CreateVolume" /\ b.call = "CreateVolume" /\ a.name = b.name
    \/ a.call = b.call /\ a.call \in {"DeleteVolume", "ExpandVolume"} /\ a.id = b.id
    \/ /\ {a.call, b.call} \subseteq {"PublishVolume", "UnpublishVolume"}
       /\ a.id = b.id
       /\ a.node = b.node

\* An abandoned operation that could undo what the request asks for.
Opposes(c, r) ==
    /\ Abandoned(c)
    /\ ops[c].call.kind = IF r.call = "PublishVolume" THEN "detach" ELSE "attach"
    /\ ops[c].call.id = r.id
    /\ ops[c].call.node = r.node

\* A request arrives.
Begin(h, r) ==
    /\ ~Active(h)
    /\ ops[h] = NoOp
    /\ \A g \in Handlers : Active(g) => ~SameQueue(req[g], r)
    /\ pc' = [pc EXCEPT ![h] = "find"]
    /\ req' = [req EXCEPT ![h] = r]
    /\ lastReply' = NoReply
    /\ UNCHANGED apiVars

CreateVolumeRequest(r) ==
    [call |-> "CreateVolume", name |-> r.name, range |-> r.range,
     caps |-> r.caps, topology |-> r.topology]

\* Create is repeated until the volume exists, and may be repeated after that.
BeginCreate(h, r) ==
    /\ claims[r.name].state \in {"none", "bound"}
    /\ Begin(h, CreateVolumeRequest(r))
    /\ UNCHANGED <<settled, coVars>>

\* A volume is deleted when no node is known to use it and nobody works on
\* it; delete is repeated until it succeeds, and may be repeated after that.
BeginDelete(h, name) ==
    /\ claims[name].state # "none"
    /\ LET id == claims[name].id IN
         /\ \A n \in Nodes : view[<<id, n>>] # "attached"
         /\ \A g \in Handlers : Active(g) =>
              /\ req[g].call = "CreateVolume" => req[g].name # name
              /\ req[g].call \in {"PublishVolume", "UnpublishVolume"} => req[g].id # id
         /\ Begin(h, [call |-> "DeleteVolume", id |-> id])
    /\ claims' = [claims EXCEPT ![name].state =
                    IF @ = "bound" THEN "deleting" ELSE @]
    /\ UNCHANGED <<settled, view>>

\* A volume is published to nodes and unpublished from them while the CO owns
\* it.  Until the reply the CO knows nothing about the attachment.
BeginAttachment(h, r) ==
    /\ Begin(h, r)
    /\ settled' = [settled EXCEPT ![h] = (\A c \in Handlers : ~Opposes(c, r))]
    /\ view' = [view EXCEPT ![<<r.id, r.node>>] = "unknown"]
    /\ UNCHANGED claims

BeginPublish(h, id, n, mode) ==
    /\ ClaimIn(id, {"bound"})
    /\ BeginAttachment(h, [call |-> "PublishVolume", id |-> id, node |-> n, mode |-> mode])

BeginUnpublish(h, id, n) ==
    /\ ClaimIn(id, {"bound"})
    /\ BeginAttachment(h, [call |-> "UnpublishVolume", id |-> id, node |-> n])

BeginExpand(h, id, range) ==
    /\ ClaimIn(id, {"bound"})
    /\ Begin(h, [call |-> "ExpandVolume", id |-> id, range |-> range])
    /\ UNCHANGED <<settled, coVars>>

Begins(h) ==
    \/ \E r \in CreateRequests : BeginCreate(h, r)
    \/ \E name \in VolumeNames : BeginDelete(h, name)
    \/ \E id \in DiskIds, n \in Nodes :
         \/ \E mode \in PublishModes : BeginPublish(h, id, n, mode)
         \/ BeginUnpublish(h, id, n)
    \/ \E id \in DiskIds, range \in ExpandRanges : BeginExpand(h, id, range)

-----------------------------------------------------------------------------
(* Replies *)

\* The handler returns.  An operation that still runs is abandoned.
Returns(h, code) ==
    /\ pc' = [pc EXCEPT ![h] = "idle"]
    /\ req' = [req EXCEPT ![h] = NoRequest]
    /\ settled' = [settled EXCEPT ![h] = FALSE]
    /\ lastReply' = [to |-> req[h], code |-> code]

Releases(h) ==
    ops' = [ops EXCEPT ![h] =
              IF Pending(h) THEN [ops[h] EXCEPT !.awaited = FALSE] ELSE NoOp]

\* The handler returns an error: the CO learns nothing.
ReturnsError(h, code) ==
    /\ Returns(h, code)
    /\ UNCHANGED coVars

\* What the CO remembers of a successful reply.
CreateSucceeds(h, id, location, capacity) ==
    /\ Returns(h, "OK")
    /\ claims' = [claims EXCEPT ![req[h].name] =
                    [state |-> "bound", id |-> id, location |-> location,
                     capacity |-> capacity]]
    /\ UNCHANGED view

DeleteSucceeds(h) ==
    /\ Returns(h, "OK")
    /\ claims' = [name \in VolumeNames |->
                    IF claims[name].state = "deleting" /\ claims[name].id = req[h].id
                      THEN [claims[name] EXCEPT !.state = "deleted"]
                      ELSE claims[name]]
    /\ UNCHANGED view

AttachmentSucceeds(h, known) ==
    /\ Returns(h, "OK")
    /\ view' = [view EXCEPT ![<<req[h].id, req[h].node>>] =
                  IF settled[h] THEN known ELSE "unknown"]
    /\ UNCHANGED claims

ExpandSucceeds(h, capacity) ==
    /\ Returns(h, "OK")
    /\ claims' = [name \in VolumeNames |->
                    IF claims[name].state = "bound" /\ claims[name].id = req[h].id
                      THEN [claims[name] EXCEPT !.capacity = capacity]
                      ELSE claims[name]]
    /\ UNCHANGED view

-----------------------------------------------------------------------------
(* find: the first API call of each handler, and what follows from it *)

Finding(h, call) == pc[h] = "find" /\ req[h].call = call

\* The handler goes on to its asynchronous operation.
GoesOn(h) ==
    /\ pc' = [pc EXCEPT ![h] = "send"]
    /\ lastReply' = NoReply
    /\ UNCHANGED <<apiVars, req, settled, coVars>>

\* Bug: the error of validateDiskRequest is returned without a status code.
CreateInvalidWithoutStatus(h) ==
    /\ Finding(h, "CreateVolume")
    /\ ValidateDiskRequest(req[h], DiskType) # "OK"
    /\ ReturnsError(h, "Unknown")
    /\ UNCHANGED apiVars

\* validateDiskRequest, before anything else.
CreateInvalid(h) ==
    /\ Finding(h, "CreateVolume")
    /\ ValidateDiskRequest(req[h], DiskType) # "OK"
    /\ ReturnsError(h, ValidateDiskRequest(req[h], DiskType))
    /\ UNCHANGED apiVars

CreateValid(h) ==
    /\ Finding(h, "CreateVolume")
    /\ ValidateDiskRequest(req[h], DiskType) = "OK"

\* The query fails: no handler takes that for a missing disk.
QueryFails(h) ==
    /\ pc[h] = "find"
    /\ req[h].call = "CreateVolume" => CreateValid(h)
    /\ ReturnsError(h, CASE req[h].call = "CreateVolume" -> "Internal"
                         [] req[h].call = "DeleteVolume" -> "FailedPrecondition"
                         [] OTHER -> "NotFound")
    /\ UNCHANGED apiVars

\* FindDiskByNameFallible: the one disk of that name.  Several disks of one
\* name are reported like none.
FoundByName(name) ==
    {id \in DisksNamed(DiskName(name)) : DisksNamed(DiskName(name)) = {id}}

DiskLocation(h) == ParseRequiredTopology(req[h].topology, DiskType, HostLocation)

Placeable(h) == DiskType = FS => DiskLocation(h) # NoLocation

CreateUnplaceable(h) ==
    /\ CreateValid(h)
    /\ ~Placeable(h)
    /\ ReturnsError(h, "ResourceExhausted")
    /\ UNCHANGED apiVars

\* Bug: the location of the existing disk is not compared with anything.
AcceptsDiskAnywhere(h, id) ==
    CheckDiskMatchesRequest(disks[id], req[h], disks[id].location, DiskType)

\* Bug: the existing disk is compared with the location of the request's
\* topology, and a request without one matches no disk.
AcceptsDiskOfTopology(h, id) ==
    CheckDiskMatchesRequest(disks[id], req[h],
        ParseRequiredTopology(req[h].topology, DiskType, NoLocation), DiskType)

\* The existing disk is compared with the location of the controller.
AcceptsDisk(h, id) ==
    CheckDiskMatchesRequest(disks[id], req[h], HostLocation, DiskType)

CreateConflicts(h) ==
    /\ CreateValid(h)
    /\ Placeable(h)
    /\ \E id \in FoundByName(req[h].name) : ~AcceptsDisk(h, id)
    /\ ReturnsError(h, "AlreadyExists")
    /\ UNCHANGED apiVars

\* The volume is reported at the location the request asked for.
CreateFindsDisk(h) ==
    /\ CreateValid(h)
    /\ Placeable(h)
    /\ \E id \in FoundByName(req[h].name) :
         /\ AcceptsDisk(h, id)
         /\ CreateSucceeds(h, id, DiskLocation(h), CapacityOf(disks[id]))
    /\ UNCHANGED apiVars

CreateFindsNothing(h) ==
    /\ CreateValid(h)
    /\ Placeable(h)
    /\ FoundByName(req[h].name) = {}
    /\ GoesOn(h)

\* Bug: any error of the query is taken for a missing disk.
DeleteFindsNothingOnError(h) ==
    /\ Finding(h, "DeleteVolume")
    /\ DeleteSucceeds(h)
    /\ UNCHANGED apiVars

DeleteFindsNothing(h) ==
    /\ Finding(h, "DeleteVolume")
    /\ ~Live(req[h].id)
    /\ DeleteSucceeds(h)
    /\ UNCHANGED apiVars

DeleteFindsInUse(h) ==
    /\ Finding(h, "DeleteVolume")
    /\ Live(req[h].id)
    /\ AttachedTo(req[h].id) # {}
    /\ ReturnsError(h, "FailedPrecondition")
    /\ UNCHANGED apiVars

DeleteFindsDisk(h) ==
    /\ Finding(h, "DeleteVolume")
    /\ Live(req[h].id)
    /\ AttachedTo(req[h].id) = {}
    /\ GoesOn(h)

\* CheckDiskAttached
InstanceExists(h) == req[h].node \in instances

\* Bug: only an attachment that can be written to counts.
IsAttachedWritable(h) == attachments[<<req[h].id, req[h].node>>] = "read-write"

IsAttached(h) == attachments[<<req[h].id, req[h].node>>] # "none"

PublishFindsNoInstance(h) ==
    /\ Finding(h, "PublishVolume")
    /\ ~InstanceExists(h)
    /\ ReturnsError(h, "NotFound")
    /\ UNCHANGED apiVars

\* Whatever the mode of the attachment.
PublishFindsAttached(h) ==
    /\ Finding(h, "PublishVolume")
    /\ InstanceExists(h)
    /\ IsAttached(h)
    /\ AttachmentSucceeds(h, "attached")
    /\ UNCHANGED apiVars

PublishFindsDetached(h) ==
    /\ Finding(h, "PublishVolume")
    /\ InstanceExists(h)
    /\ ~IsAttached(h)
    /\ GoesOn(h)

\* The disk is detached, or went with its instance.
UnpublishFindsDetached(h) ==
    /\ Finding(h, "UnpublishVolume")
    /\ ~InstanceExists(h) \/ ~IsAttached(h)
    /\ AttachmentSucceeds(h, "detached")
    /\ UNCHANGED apiVars

UnpublishFindsAttached(h) ==
    /\ Finding(h, "UnpublishVolume")
    /\ InstanceExists(h)
    /\ IsAttached(h)
    /\ GoesOn(h)

ExpandFindsNothing(h) ==
    /\ Finding(h, "ExpandVolume")
    /\ ~Live(req[h].id)
    /\ ReturnsError(h, "NotFound")
    /\ UNCHANGED apiVars

\* Only shared disks are expanded online.
ExpandAllowed(h) ==
    /\ Finding(h, "ExpandVolume")
    /\ Live(req[h].id)
    /\ DiskType = FS \/ AttachedTo(req[h].id) = {}

ExpandFindsInUse(h) ==
    /\ Finding(h, "ExpandVolume")
    /\ Live(req[h].id)
    /\ ~(DiskType = FS \/ AttachedTo(req[h].id) = {})
    /\ ReturnsError(h, "FailedPrecondition")
    /\ UNCHANGED apiVars

\* The size of the existing disk must be understood before the request's.
ExpandInvalid(h) ==
    /\ ExpandAllowed(h)
    /\ \/ /\ NormalizeDiskSizeToGiB(disks[req[h].id].size) = SizeError
          /\ ReturnsError(h, "Internal")
       \/ /\ NormalizeDiskSizeToGiB(disks[req[h].id].size) # SizeError
          /\ ValidateExpandRequest(req[h].range, DiskType) # "OK"
          /\ ReturnsError(h, ValidateExpandRequest(req[h].range, DiskType))
    /\ UNCHANGED apiVars

ExpandValid(h) ==
    /\ ExpandAllowed(h)
    /\ NormalizeDiskSizeToGiB(disks[req[h].id].size) # SizeError
    /\ ValidateExpandRequest(req[h].range, DiskType) = "OK"

ExpandFindsLargeEnough(h) ==
    /\ ExpandValid(h)
    /\ AlreadyLargeEnough(disks[req[h].id], req[h].range)
    /\ ExpandSucceeds(h, CapacityOf(disks[req[h].id]))
    /\ UNCHANGED apiVars

ExpandFindsSmaller(h) ==
    /\ ExpandValid(h)
    /\ ~AlreadyLargeEnough(disks[req[h].id], req[h].range)
    /\ GoesOn(h)

Finds(h) ==
    \/ CreateInvalid(h) \/ CreateUnplaceable(h) \/ CreateConflicts(h)
    \/ CreateFindsDisk(h) \/ CreateFindsNothing(h)
    \/ DeleteFindsNothing(h) \/ DeleteFindsInUse(h) \/ DeleteFindsDisk(h)
    \/ PublishFindsNoInstance(h) \/ PublishFindsAttached(h) \/ PublishFindsDetached(h)
    \/ UnpublishFindsDetached(h) \/ UnpublishFindsAttached(h)
    \/ ExpandFindsNothing(h) \/ ExpandFindsInUse(h) \/ ExpandInvalid(h)
    \/ ExpandFindsLargeEnough(h) \/ ExpandFindsSmaller(h)

-----------------------------------------------------------------------------
(* send: the asynchronous operation is started *)

ReadOnlyModes == {"SINGLE_NODE_READER_ONLY", "MULTI_NODE_READER_ONLY"}
AttachMode(mode) == IF mode \in ReadOnlyModes THEN "read-only" ELSE "read-write"

\* The API call of the handler.
APICall(h) ==
    CASE req[h].call = "CreateVolume" ->
           [kind |-> "create",
            disk |-> GetCreateDiskRequest(req[h], DiskLocation(h), DiskType)]
      [] req[h].call = "DeleteVolume" ->
           [kind |-> "delete", id |-> req[h].id]
      [] req[h].call = "PublishVolume" ->
           [kind |-> "attach", id |-> req[h].id, node |-> req[h].node,
            mode |-> AttachMode(req[h].mode)]
      [] req[h].call = "UnpublishVolume" ->
           [kind |-> "detach", id |-> req[h].id, node |-> req[h].node]
      [] req[h].call = "ExpandVolume" ->
           [kind |-> "resize", id |-> req[h].id, size |-> ResizeRequest(req[h].range)]

Sends(h) ==
    /\ pc[h] = "send"
    /\ ops' = [ops EXCEPT ![h] = Operation(APICall(h))]
    /\ pc' = [pc EXCEPT ![h] = "await"]
    /\ lastReply' = NoReply
    /\ UNCHANGED <<disks, attachments, instances, req, settled, coVars>>

\* The call fails, or it succeeds and its reply is lost.
SendFails(h) ==
    /\ pc[h] = "send"
    /\ ReturnsError(h, "Internal")
    /\ \/ UNCHANGED ops
       \/ ops' = [ops EXCEPT ![h] = [Operation(APICall(h)) EXCEPT !.awaited = FALSE]]
    /\ UNCHANGED <<disks, attachments, instances>>

-----------------------------------------------------------------------------
(* await: AwaitOperation *)

\* The wait ends with success only after the operation has.
Awaited(h, call) ==
    /\ pc[h] = "await"
    /\ req[h].call = call
    /\ ops[h].phase = "succeeded"
    /\ ops' = [ops EXCEPT ![h] = NoOp]
    /\ UNCHANGED <<disks, attachments, instances>>

\* The volume is made from the operation's result, the disk as created.
CreateDone(h) ==
    /\ Awaited(h, "CreateVolume")
    /\ CreateSucceeds(h, ops[h].id, DiskLocation(h), CapacityOf(ops[h].call.disk))

\* Bug: the reply is sent when the operation has been accepted.
DeleteAccepted(h) ==
    /\ pc[h] = "await"
    /\ req[h].call = "DeleteVolume"
    /\ DeleteSucceeds(h)
    /\ Releases(h)
    /\ UNCHANGED <<disks, attachments, instances>>

DeleteDone(h) == Awaited(h, "DeleteVolume") /\ DeleteSucceeds(h)

\* Bug: the same for a publish.
PublishAccepted(h) ==
    /\ pc[h] = "await"
    /\ req[h].call = "PublishVolume"
    /\ AttachmentSucceeds(h, "attached")
    /\ Releases(h)
    /\ UNCHANGED <<disks, attachments, instances>>

PublishDone(h) == Awaited(h, "PublishVolume") /\ AttachmentSucceeds(h, "attached")

UnpublishDone(h) == Awaited(h, "UnpublishVolume") /\ AttachmentSucceeds(h, "detached")

\* Bug: the same for an expansion.
ExpandAccepted(h) ==
    /\ pc[h] = "await"
    /\ req[h].call = "ExpandVolume"
    /\ ExpandSucceeds(h, NumBytesInGiB * RequestSizeToGiB(req[h].range))
    /\ Releases(h)
    /\ UNCHANGED <<disks, attachments, instances>>

ExpandDone(h) ==
    /\ Awaited(h, "ExpandVolume")
    /\ ExpandSucceeds(h, NumBytesInGiB * RequestSizeToGiB(req[h].range))

\* An error ends the wait at any time: the operation failed, the deadline
\* passed, a poll failed, the CO cancelled.  It may have taken effect.
AwaitFails(h) ==
    /\ pc[h] = "await"
    /\ ReturnsError(h, "Internal")
    /\ Releases(h)
    /\ UNCHANGED <<disks, attachments, instances>>

AwaitSucceeds(h) ==
    CreateDone(h) \/ DeleteDone(h) \/ PublishDone(h) \/ UnpublishDone(h) \/ ExpandDone(h)

-----------------------------------------------------------------------------

\* The driver's process ends and starts again: every handler is lost with its
\* local variables, and the operations it had started run on.
Restart ==
    /\ MayRestart
    /\ \E h \in Handlers : Active(h)
    /\ pc' = [h \in Handlers |-> "idle"]
    /\ req' = [h \in Handlers |-> NoRequest]
    /\ settled' = [h \in Handlers |-> FALSE]
    /\ ops' = [h \in Handlers |->
                 IF Pending(h) THEN [ops[h] EXCEPT !.awaited = FALSE] ELSE NoOp]
    /\ lastReply' = NoReply
    /\ UNCHANGED <<disks, attachments, instances, coVars>>

API ==
    /\ APINext
    /\ lastReply' = NoReply
    /\ UNCHANGED <<driverVars, coVars>>

Handler(h) ==
    Finds(h) \/ QueryFails(h) \/ Sends(h) \/ SendFails(h) \/ AwaitSucceeds(h) \/ AwaitFails(h)

Init ==
    /\ APIInit
    /\ pc = [h \in Handlers |-> "idle"]
    /\ req = [h \in Handlers |-> NoRequest]
    /\ settled = [h \in Handlers |-> FALSE]
    /\ lastReply = NoReply
    /\ claims = [name \in VolumeNames |-> NoClaim]
    /\ view = [p \in DiskIds \X Nodes |-> "detached"]

Next ==
    \/ \E h \in Handlers : Begins(h) \/ Handler(h)
    \/ Restart
    \/ API

Spec == Init /\ [][Next]_vars

\* Every goroutine is scheduled, and every API operation ends.
Fairness ==
    \A h \in Handlers :
        /\ WF_vars(Handler(h))
        /\ WF_vars(API /\ ops'[h] # ops[h])

\* A CO that asks for ever for a volume it does not have is not unlucky for
\* ever: the step that some handler of the request can take again and again is
\* taken again and again.
Serves(h, r) == req[h] = CreateVolumeRequest(r)

CORetries ==
    \A r \in CreateRequests :
        /\ SF_vars(\E h \in Handlers : BeginCreate(h, r) /\ claims[r.name] = NoClaim)
        /\ SF_vars(\E h \in Handlers : Serves(h, r) /\ Finds(h))
        /\ SF_vars(\E h \in Handlers : Serves(h, r) /\ Sends(h))
        /\ SF_vars(\E h \in Handlers : Serves(h, r) /\ API /\ TakesEffect(h))
        /\ SF_vars(\E h \in Handlers : Serves(h, r) /\ AwaitSucceeds(h))

FairSpec == Spec /\ Fairness /\ CORetries

-----------------------------------------------------------------------------
(* Properties *)

Codes == {"none", "OK", "Internal", "InvalidArgument", "OutOfRange", "NotFound",
          "AlreadyExists", "FailedPrecondition", "ResourceExhausted"}

Requests ==
    {NoRequest} \cup
    {CreateVolumeRequest(r) : r \in CreateRequests} \cup
    [call : {"DeleteVolume"}, id : DiskIds] \cup
    [call : {"PublishVolume"}, id : DiskIds, node : Nodes, mode : PublishModes] \cup
    [call : {"UnpublishVolume"}, id : DiskIds, node : Nodes] \cup
    [call : {"ExpandVolume"}, id : DiskIds, range : ExpandRanges]

Claims ==
    [state : {"bound", "deleting", "deleted"}, id : DiskIds,
     location : Locations \cup {NoLocation}, capacity : Int]

\* Every variable keeps its type.
TypeOK ==
    /\ APITypeOK
    /\ pc \in [Handlers -> {"idle", "find", "send", "await"}]
    /\ req \in [Handlers -> Requests]
    /\ settled \in [Handlers -> BOOLEAN]
    /\ lastReply.code \in Codes
    /\ claims \in [VolumeNames -> {NoClaim} \cup Claims]
    /\ view \in [DiskIds \X Nodes -> {"unknown", "attached", "detached"}]

\* What the CO was told about an attachment stays true until it asks for a
\* change: no answer is given too early, and no operation of the driver, not
\* even one abandoned by a timeout or a restart, undoes it later.  The one
\* exception is an answer given while an abandoned operation that opposes it
\* still runs, which the driver cannot see (controller.go:224, 300).
AttachmentViewIsTrue ==
    \A id \in DiskIds, n \in instances :
        /\ view[<<id, n>>] = "attached" => attachments[<<id, n>>] # "none"
        /\ view[<<id, n>>] = "detached" => attachments[<<id, n>>] = "none"

\* Why AttachmentViewIsTrue holds, as an inductive invariant.  Of the handlers
\* that work on one disk and node at most one is active, ...
WorksOn(h, id, n) ==
    /\ Active(h)
    /\ req[h].call \in {"PublishVolume", "UnpublishVolume"}
    /\ req[h].id = id
    /\ req[h].node = n

OneWorker ==
    \A g, h \in Handlers, id \in DiskIds, n \in Nodes :
        WorksOn(g, id, n) /\ WorksOn(h, id, n) => g = h

\* ... an operation is awaited by the handler whose request asked for it, and
\* by nobody else, ...
OpIsOwned(h) ==
    /\ Active(h) <=> req[h] # NoRequest
    /\ \/ pc[h] = "await" /\ ops[h] # NoOp /\ ops[h].awaited /\ ops[h].call = APICall(h)
       \/ pc[h] # "await" /\ ops[h] = NoOp
       \/ pc[h] = "idle" /\ Abandoned(h)

OpsAreOwned == \A h \in Handlers : OpIsOwned(h)

\* ... nothing is known of an attachment some handler works on, ...
WorkIsUnknown ==
    \A h \in Handlers, id \in DiskIds, n \in Nodes :
        WorksOn(h, id, n) => view[<<id, n>>] = "unknown"

\* ... no abandoned operation can undo what a settled request has done, nor
\* what the CO knows, ...
Runs(c, kind, id, n) ==
    /\ Pending(c)
    /\ ops[c].call.kind = kind
    /\ ops[c].call.id = id
    /\ ops[c].call.node = n

NothingOpposes ==
    \A c, h \in Handlers, id \in DiskIds, n \in Nodes :
        (WorksOn(h, id, n) /\ settled[h]) => ~Opposes(c, req[h])

KnownIsSafe ==
    \A c \in Handlers, id \in DiskIds, n \in Nodes :
        /\ view[<<id, n>>] = "attached" => ~Runs(c, "detach", id, n)
        /\ view[<<id, n>>] = "detached" => ~Runs(c, "attach", id, n)

\* ... and the operation of a settled request that has succeeded is not undone
\* before the handler gets to say so.
DoneIsDone ==
    \A h \in Handlers, id \in DiskIds, n \in instances :
        (WorksOn(h, id, n) /\ settled[h] /\ ops[h].phase = "succeeded") =>
            (attachments[<<id, n>>] # "none" <=> req[h].call = "PublishVolume")

\* An attachment that no operation and no handler is going to undo.
StaysAttached(id, n) ==
    /\ attachments[<<id, n>>] # "none"
    /\ \A c \in Handlers :
         /\ ~Runs(c, "detach", id, n)
         /\ ~(WorksOn(c, id, n) /\ req[c].call = "UnpublishVolume")

AttachmentInv ==
    /\ TypeOK
    /\ OneWorker
    /\ OpsAreOwned
    /\ WorkIsUnknown
    /\ NothingOpposes
    /\ KnownIsSafe
    /\ DoneIsDone
    /\ AttachmentViewIsTrue

\* A volume the CO was given is backed by a live disk of its own name and of
\* the driver's type, at least as large as the CO was told.
VolumeIsReal ==
    \A name \in VolumeNames :
        claims[name].state = "bound" =>
            LET id == claims[name].id IN
            /\ Live(id)
            /\ disks[id].name = DiskName(name)
            /\ disks[id].type = DiskType
            /\ CapacityOf(disks[id]) >= claims[name].capacity

\* Two volumes never share a disk.
VolumesAreDistinct ==
    \A a, b \in VolumeNames :
        (a # b /\ claims[a].state \in {"bound", "deleting"}
               /\ claims[b].state \in {"bound", "deleting"})
            => claims[a].id # claims[b].id

\* A volume reported as deleted is gone, whatever failed on the way and
\* however often the deletion was repeated.
DeletedIsGone ==
    \A name \in VolumeNames :
        claims[name].state = "deleted" => disks[claims[name].id] = DeletedDisk

\* Why these three hold, as an inductive invariant.  Nothing deletes a disk but
\* for a volume the CO has given up, ...
Deletes(h, id) ==
    \/ Active(h) /\ req[h].call = "DeleteVolume" /\ req[h].id = id
    \/ Pending(h) /\ ops[h].call.kind = "delete" /\ ops[h].call.id = id

DeletionsAreKnown ==
    \A h \in Handlers, id \in DiskIds :
        Deletes(h, id) => ClaimIn(id, {"deleting", "deleted"})

\* ... which is not being created any more, ...
CreationsAreWanted ==
    \A h \in Handlers :
        (Active(h) /\ req[h].call = "CreateVolume") =>
            claims[req[h].name].state \in {"none", "bound"}

\* ... a volume's disk has the volume's name, for as long as it has any, ...
ClaimsAreNamed ==
    \A name \in VolumeNames :
        claims[name].state # "none" =>
            LET id == claims[name].id IN
            /\ disks[id] # NoDisk
            /\ Live(id) => disks[id].name = DiskName(name)

\* ... and what an operation has done still stands when its handler gets to
\* say so.
Succeeded(h, kind) == ops[h].phase = "succeeded" /\ ops[h].call.kind = kind

OutcomesStand ==
    \A h \in Handlers :
        LET call == ops[h].call IN
        /\ Succeeded(h, "create") =>
             LET id == ops[h].id IN
             /\ Live(id)
             /\ disks[id].name = call.disk.name
             /\ disks[id].type = call.disk.type
             /\ disks[id].location = call.disk.location
             /\ CapacityOf(disks[id]) >= CapacityOf(call.disk)
        /\ Succeeded(h, "delete") => disks[call.id] = DeletedDisk
        /\ Succeeded(h, "resize") =>
             /\ disks[call.id] # NoDisk
             /\ Live(call.id) => CapacityOf(disks[call.id]) >= CapacityOf(call)

VolumeInv ==
    /\ TypeOK
    /\ OpsAreOwned
    /\ DeletionsAreKnown
    /\ CreationsAreWanted
    /\ ClaimsAreNamed
    /\ OutcomesStand
    /\ VolumeIsReal
    /\ VolumesAreDistinct
    /\ DeletedIsGone

\* The size the CO asked for is the size it is granted: a new volume is not
\* smaller, and an expansion that succeeds is enough, whether the disk was
\* found large enough or was resized, and although an older resize of another
\* size may still run (controller.go:487).  That the older one does not take
\* the size back is the API's promise (NeverShrinks), not the driver's work.
SizeIsGranted ==
    (lastReply.code = "OK" /\ lastReply.to.call \in {"CreateVolume", "ExpandVolume"}) =>
        \A name \in VolumeNames :
            (/\ claims[name].state = "bound"
             /\ IF lastReply.to.call = "CreateVolume"
                  THEN lastReply.to.name = name
                  ELSE lastReply.to.id = claims[name].id)
            => /\ claims[name].capacity >= RequestSizeToBytes(lastReply.to.range)
               /\ CapacityOf(disks[claims[name].id]) >= claims[name].capacity

\* A CO that keeps asking for a volume gets it, through any number of failed
\* calls, abandoned operations and restarts.
ProvisioningConverges ==
    \A name \in VolumeNames : <>(claims[name].state # "none")

\* Until a volume's creation is answered with success it is never refused: a
\* disk made by an earlier call for it, one that failed, timed out or was lost
\* in a restart, is recognised however the API words its size (controller.go:86).
\* It is refused later only, as when an expansion has changed the disk.
RetriesAreNotRefused ==
    lastReply.code = "AlreadyExists" => claims[lastReply.to.name].state # "none"

\* "Check if existing existingDisk matches what we want" (controller.go:83):
\* a disk that is what CreateDisk would be asked for is not refused.
OwnDiskAccepted ==
    lastReply.code = "AlreadyExists" =>
        \A id \in FoundByName(lastReply.to.name) :
            ~CheckDiskMatchesRequest(disks[id], lastReply.to,
                ParseRequiredTopology(lastReply.to.topology, DiskType, HostLocation),
                DiskType)

\* "All provisioned volumes should be accessible from a single topology
\* segment" (util.go:198).  The segment a volume is reported in is where its
\* disk is, but for one case: a disk where the controller runs is accepted for
\* any request (controller.go:86), and its volume is reported where that
\* request wants it (controller.go:130).
PlaceIsTold ==
    \A name \in VolumeNames :
        LET claim == claims[name]
            place == disks[claim.id].location
        IN (claim.state = "bound" /\ claim.location # place) =>
             /\ place = HostLocation
             /\ \E r \in CreateRequests :
                  /\ r.name = name
                  /\ claim.location = ParseRequiredTopology(r.topology, DiskType, HostLocation)
=============================================================================
