---------------------------- MODULE VolumeProofs ----------------------------
(***************************************************************************)
(* Theorems about the volumes of Controller, for any number of handlers,   *)
(* disks and requests: what the CO was told of a volume, that it exists,   *)
(* how large it is, that it is gone, is so, and where it is, but for a     *)
(* disk that was found where the controller runs.  Of the API they ask     *)
(* that a disk never shrinks, and nothing about names or disks in use; of  *)
(* the CO, that the names it uses become different disk names.  At the     *)
(* end: a creation that is repeated knows its disk again, if its requests  *)
(* ask for one disk where the controller runs; and only disks asked for    *)
(* elsewhere are refused wrongly.                                          *)
(***************************************************************************)
EXTENDS ControllerProofs

\* util.go keeps the first characters of a name: no two volumes agree in them.
NamesAreDistinct == \A a, b \in VolumeNames : DiskName(a) = DiskName(b) => a = b

VolumesInv ==
    /\ DeletionsAreKnown
    /\ CreationsAreWanted
    /\ ClaimsAreNamed
    /\ OutcomesStand
    /\ VolumeIsReal
    /\ VolumesAreDistinct
    /\ DeletedIsGone

LEMMA VolumeInvParts == VolumeInv <=> BaseInv /\ VolumesInv
  BY DEF VolumeInv, BaseInv, VolumesInv

-----------------------------------------------------------------------------
(* Sizes *)

\* A size reworded is the same size.
LEMMA RenderingsAgree ==
  ASSUME NEW size \in Sizes, NEW s \in Renderings(size)
  PROVE  NormalizeDiskSizeToGiB(s) = NormalizeDiskSizeToGiB(size)
<1> DEFINE gib == NormalizeDiskSizeToGiB(size)
<1>1. gib \in Int
  BY NormalizeType
<1>2. CASE s = size
  BY <1>2
<1>3. CASE gib % NumGiBInTiB = 0 /\ s = [n |-> gib \div NumGiBInTiB, unit |-> "TiB"]
  <2>1. NormalizeDiskSizeToGiB(s) = (gib \div NumGiBInTiB) * NumGiBInTiB
    BY <1>3 DEF NormalizeDiskSizeToGiB
  <2> HIDE DEF gib
  <2>2. (gib \div NumGiBInTiB) * NumGiBInTiB = gib
    BY <1>1, <1>3, DivideExactly, UnitsAssumption
  <2> QED
    BY <2>1, <2>2 DEF gib
<1> QED
  BY <1>2, <1>3 DEF Renderings

\* More GiB are more bytes.
LEMMA CapacityGrows ==
  ASSUME NEW d, NEW e, d.size \in Sizes, e.size \in Sizes,
         NormalizeDiskSizeToGiB(d.size) <= NormalizeDiskSizeToGiB(e.size)
  PROVE  CapacityOf(d) <= CapacityOf(e)
<1>1. NormalizeDiskSizeToGiB(d.size) \in Int /\ NormalizeDiskSizeToGiB(e.size) \in Int
  BY NormalizeType
<1>2. ASSUME NEW n \in Nat, NEW x \in Int, NEW y \in Int, x <= y
      PROVE  n * x <= n * y
  BY <1>2
<1> QED
  BY <1>1, <1>2, UnitsAssumption DEF CapacityOf

-----------------------------------------------------------------------------
(* Requests *)

\* The call of a request.
LEMMA CallKinds ==
  ASSUME NEW h \in Handlers, req[h] \in Requests, req[h] # NoRequest
  PROVE  /\ APICall(h).kind = "create" <=> req[h].call = "CreateVolume"
         /\ APICall(h).kind = "delete" <=> req[h].call = "DeleteVolume"
         /\ APICall(h).kind = "resize" <=> req[h].call = "ExpandVolume"
         /\ req[h].call = "CreateVolume" =>
              /\ APICall(h).disk.name = DiskName(req[h].name)
              /\ APICall(h).disk.type = DiskType
              /\ APICall(h).disk.location = DiskLocation(h)
         /\ req[h].call = "DeleteVolume" => APICall(h).id = req[h].id
         /\ req[h].call = "ExpandVolume" =>
              /\ APICall(h).id = req[h].id
              /\ APICall(h).size = ResizeRequest(req[h].range)
<1>1. req[h].call \in {"CreateVolume", "DeleteVolume", "PublishVolume",
                       "UnpublishVolume", "ExpandVolume"}
  BY DEF Requests, CreateVolumeRequest
<1> QED
  BY <1>1 DEF APICall, GetCreateDiskRequest

\* An operation that has succeeded is that of a handler that awaits it.
LEMMA SucceededIsAwaited ==
  ASSUME BaseInv, NEW h \in Handlers, ops[h].phase = "succeeded"
  PROVE  /\ pc[h] = "await" /\ Active(h)
         /\ ops[h].call = APICall(h)
         /\ req[h] \in Requests /\ req[h] # NoRequest
         /\ ops[h] \in Operations
         /\ ops[h].id \in DiskIds
  BY DEF BaseInv, TypeOK, APITypeOK, OpsAreOwned, OpIsOwned, Abandoned, Pending, NoOp, Active

\* A request for a volume names one.
LEMMA CreateNames ==
  ASSUME NEW r \in Requests, r.call = "CreateVolume"
  PROVE  r.name \in VolumeNames
  BY RequestFields DEF CreateVolumeRequest, VolumeNames

\* What a step of a handler leaves alone.
LEMMA HandlerSteps ==
  ASSUME BaseInv, NEW h \in Handlers, Handler(h)
  PROVE  /\ Active(h) /\ req[h] \in Requests /\ req[h] # NoRequest
         /\ UNCHANGED disks
         /\ \A g \in Handlers : g # h =>
              pc'[g] = pc[g] /\ req'[g] = req[g] /\ ops'[g] = ops[g]
         /\ req'[h] \in {req[h], NoRequest}
         /\ ops'[h].phase # "succeeded"
         /\ Pending(h)' => ops'[h].call = APICall(h)
<1>1. Kinds(h)
  BY HandlerKind
<1>2. ASSUME NEW l, NEW r \in {req[h], NoRequest}, NEW o, Step(h, l, r, o), Active(h),
             o.phase # "succeeded", o.phase = "pending" => o.call = APICall(h)
      PROVE  /\ UNCHANGED disks
             /\ \A g \in Handlers : g # h =>
                  pc'[g] = pc[g] /\ req'[g] = req[g] /\ ops'[g] = ops[g]
             /\ req'[h] \in {req[h], NoRequest}
             /\ ops'[h].phase # "succeeded"
             /\ Pending(h)' => ops'[h].call = APICall(h)
  <2>1. /\ req'[h] = r /\ ops'[h] = o
        /\ \A g \in Handlers : g # h =>
             pc'[g] = pc[g] /\ req'[g] = req[g] /\ ops'[g] = ops[g]
    BY <1>2, StepFacts
  <2>2. UNCHANGED disks
    BY <1>2 DEF Step
  <2> QED
    BY <1>2, <2>1, <2>2 DEF Pending
<1>3. NoOp.phase = "none"
  BY DEF NoOp
<1>4. CASE Decides(h)
  BY <1>2, <1>3, <1>4, HandlerFacts DEF Decides, Active
<1>5. CASE Starts(h)
  BY <1>2, <1>5, HandlerFacts DEF Starts, Active, Operation
<1>6. CASE Quits(h)
  BY <1>2, <1>3, <1>6, HandlerFacts DEF Quits, LeftBehind
<1>7. ASSUME NEW known, Tells(h, known)
      PROVE  /\ Active(h)
             /\ Step(h, "idle", NoRequest, NoOp)
  BY <1>7 DEF Tells, Active
<1> QED
  BY <1>1, <1>2, <1>3, <1>4, <1>5, <1>6, <1>7, HandlerFacts DEF Kinds

-----------------------------------------------------------------------------
(* What a handler tells the CO about a volume *)

\* Only a request that is valid and has a place gets beyond the first query.
CanBeServed(h) == ValidateDiskRequest(req[h], DiskType) = "OK" /\ Placeable(h)

\* The volume is backed by this disk, ...
TellsCreated(h) ==
    \E id, capacity :
        /\ id \in DiskIds
        /\ req[h].call = "CreateVolume"
        /\ pc[h] = "find" => CanBeServed(h)
        /\ Live(id)
        /\ disks[id].name = DiskName(req[h].name)
        /\ disks[id].type = DiskType
        /\ disks[id].location \in {DiskLocation(h), HostLocation}
        /\ CapacityOf(disks[id]) >= capacity
        /\ capacity >= RequestSizeToBytes(req[h].range)
        /\ claims' = [claims EXCEPT ![req[h].name] =
                        [state |-> "bound", id |-> id, location |-> DiskLocation(h),
                         capacity |-> capacity]]

\* ... it is gone, ...
TellsDeleted(h) ==
    /\ req[h].call = "DeleteVolume"
    /\ ~Live(req[h].id)
    /\ DeleteSucceeds(h)

\* ... or it has this capacity.
TellsExpanded(h) ==
    \E capacity \in Int :
        /\ req[h].call = "ExpandVolume"
        /\ Live(req[h].id) => CapacityOf(disks[req[h].id]) >= capacity
        /\ capacity >= RequestSizeToBytes(req[h].range)
        /\ ExpandSucceeds(h, capacity)

\* It tells nothing of volumes.
TellsNothing(h) ==
    /\ UNCHANGED claims
    /\ lastReply'.code # "OK" \/ lastReply'.to.call \notin {"CreateVolume", "ExpandVolume"}

\* A volume adopted or created is as large as it was asked to be.
LEMMA CreatedIsEnough ==
  ASSUME NEW range \in CapacityRanges, NEW d, NormalizeDiskSizeToGiB(d.size) = RequestSizeToGiB(range)
  PROVE  CapacityOf(d) >= RequestSizeToBytes(range)
<1>1. RequestSizeToBytes(range) \in Int
  BY DEF RequestSizeToBytes, CapacityRanges
<1> QED
  BY <1>1, CeilIsEnough DEF CapacityOf, RequestSizeToGiB

LEMMA FindsTells ==
  ASSUME BaseInv, VolumesInv, NEW h \in Handlers, Finds(h)
  PROVE  \/ TellsCreated(h) /\ lastReply' = [to |-> req[h], code |-> "OK"]
         \/ TellsDeleted(h)
         \/ TellsExpanded(h)
         \/ TellsNothing(h)
<1> USE DEF Finding, CreateValid
<1>1. req[h] \in Requests
  BY HandlerFacts
<1>2. CASE CreateInvalid(h) \/ CreateUnplaceable(h) \/ CreateConflicts(h)
             \/ DeleteFindsInUse(h) \/ PublishFindsNoInstance(h) \/ ExpandFindsNothing(h)
             \/ ExpandFindsInUse(h) \/ ExpandInvalid(h)
  <2>1. \E code : ReturnsError(h, code) /\ code # "OK"
    BY <1>2
    DEF CreateInvalid, CreateUnplaceable, CreateConflicts, DeleteFindsInUse,
        PublishFindsNoInstance, ExpandFindsNothing, ExpandFindsInUse, ExpandInvalid
  <2> QED
    BY <2>1 DEF ReturnsError, Returns, coVars, TellsNothing
<1>3. CASE CreateFindsNothing(h) \/ DeleteFindsDisk(h) \/ PublishFindsDetached(h)
             \/ UnpublishFindsAttached(h) \/ ExpandFindsSmaller(h)
  BY <1>3
  DEF CreateFindsNothing, DeleteFindsDisk, PublishFindsDetached,
      UnpublishFindsAttached, ExpandFindsSmaller, GoesOn, coVars, TellsNothing, NoReply
<1>4. CASE CreateFindsDisk(h)
  <2>1. PICK id \in FoundByName(req[h].name) :
          /\ AcceptsDisk(h, id)
          /\ CreateSucceeds(h, id, DiskLocation(h), CapacityOf(disks[id]))
    BY <1>4 DEF CreateFindsDisk
  <2>2. id \in DiskIds /\ Live(id) /\ disks[id] \in Disks
    BY DEF FoundByName, DisksNamed, Live, BaseInv, TypeOK, APITypeOK
  <2>3. CapacityOf(disks[id]) \in Int
    BY <2>2, CapacityType
  <2>4. req[h].call = "CreateVolume" /\ req[h].range \in CapacityRanges
    BY <1>1, <1>4, RequestFields, ControllerAssumption DEF CreateFindsDisk, CreateVolumeRequest
  <2>5. /\ disks[id].name = DiskName(req[h].name) /\ disks[id].type = DiskType
        /\ disks[id].location = HostLocation
        /\ CapacityOf(disks[id]) >= RequestSizeToBytes(req[h].range)
    BY <2>1, <2>4, CreatedIsEnough DEF AcceptsDisk, CheckDiskMatchesRequest
  <2>6. CapacityOf(disks[id]) >= CapacityOf(disks[id])
    BY <2>3
  <2>7. CanBeServed(h)
    BY <1>4 DEF CreateFindsDisk, CanBeServed
  <2> QED
    BY <2>1, <2>2, <2>4, <2>5, <2>6, <2>7 DEF TellsCreated, CreateSucceeds, Returns
<1>5. CASE DeleteFindsNothing(h)
  BY <1>5 DEF DeleteFindsNothing, TellsDeleted
<1>6. CASE PublishFindsAttached(h) \/ UnpublishFindsDetached(h)
  BY <1>6
  DEF PublishFindsAttached, UnpublishFindsDetached, AttachmentSucceeds, Returns, TellsNothing
<1>7. CASE ExpandFindsLargeEnough(h)
  <2>1. /\ req[h].call = "ExpandVolume"
        /\ Live(req[h].id)
        /\ CapacityOf(disks[req[h].id]) >= RequestSizeToBytes(req[h].range)
        /\ ExpandSucceeds(h, CapacityOf(disks[req[h].id]))
    BY <1>7 DEF ExpandFindsLargeEnough, ExpandValid, ExpandAllowed, AlreadyLargeEnough
  <2>2. disks[req[h].id] \in Disks
    BY <1>1, <2>1, RequestFields DEF Live, BaseInv, TypeOK, APITypeOK
  <2>3. CapacityOf(disks[req[h].id]) \in Int
    BY <2>2, CapacityType
  <2>4. CapacityOf(disks[req[h].id]) >= CapacityOf(disks[req[h].id])
    BY <2>3
  <2> QED
    BY <2>1, <2>3, <2>4 DEF TellsExpanded
<1> QED
  BY <1>2, <1>3, <1>4, <1>5, <1>6, <1>7 DEF Finds

LEMMA AwaitTells ==
  ASSUME BaseInv, VolumesInv, NEW h \in Handlers, AwaitSucceeds(h)
  PROVE  \/ TellsCreated(h) /\ lastReply' = [to |-> req[h], code |-> "OK"]
         \/ TellsDeleted(h)
         \/ TellsExpanded(h)
         \/ TellsNothing(h)
<1>1. ops[h].phase = "succeeded"
  BY DEF AwaitSucceeds, CreateDone, DeleteDone, PublishDone, UnpublishDone, ExpandDone, Awaited
<1>2. /\ ops[h].call = APICall(h) /\ req[h] \in Requests /\ req[h] # NoRequest
      /\ ops[h].id \in DiskIds
  BY <1>1, SucceededIsAwaited
<1>3. CASE CreateDone(h)
  <2>1. /\ req[h].call = "CreateVolume" /\ pc[h] = "await"
        /\ CreateSucceeds(h, ops[h].id, DiskLocation(h), CapacityOf(ops[h].call.disk))
    BY <1>3 DEF CreateDone, Awaited
  <2>2. Succeeded(h, "create")
    BY <1>1, <1>2, <2>1, CallKinds DEF Succeeded
  <2>3. /\ Live(ops[h].id)
        /\ disks[ops[h].id].name = DiskName(req[h].name)
        /\ disks[ops[h].id].type = DiskType
        /\ disks[ops[h].id].location = DiskLocation(h)
        /\ CapacityOf(disks[ops[h].id]) >= CapacityOf(ops[h].call.disk)
    BY <1>2, <2>1, <2>2, CallKinds DEF VolumesInv, OutcomesStand
  <2>4. req[h].range \in CapacityRanges
    BY <1>2, <2>1, RequestFields, ControllerAssumption DEF CreateVolumeRequest
  <2>5. NormalizeDiskSizeToGiB(ops[h].call.disk.size) = RequestSizeToGiB(req[h].range)
    BY <1>2, <2>1 DEF APICall, GetCreateDiskRequest, NormalizeDiskSizeToGiB
  <2>6. CapacityOf(ops[h].call.disk) >= RequestSizeToBytes(req[h].range)
    BY <2>4, <2>5, CreatedIsEnough
  <2> QED
    BY <1>2, <2>1, <2>3, <2>6 DEF TellsCreated, CreateSucceeds, Returns
<1>4. CASE DeleteDone(h)
  <2>1. req[h].call = "DeleteVolume" /\ DeleteSucceeds(h)
    BY <1>4 DEF DeleteDone, Awaited
  <2>2. Succeeded(h, "delete") /\ ops[h].call.id = req[h].id
    BY <1>1, <1>2, <2>1, CallKinds DEF Succeeded
  <2> QED
    BY <2>1, <2>2 DEF TellsDeleted, VolumesInv, OutcomesStand, Live
<1>5. CASE PublishDone(h) \/ UnpublishDone(h)
  BY <1>5 DEF PublishDone, UnpublishDone, Awaited, AttachmentSucceeds, Returns, TellsNothing
<1>6. CASE ExpandDone(h)
  <2> DEFINE capacity == NumBytesInGiB * RequestSizeToGiB(req[h].range)
  <2>1. req[h].call = "ExpandVolume" /\ ExpandSucceeds(h, capacity)
    BY <1>6 DEF ExpandDone, Awaited
  <2>2. Succeeded(h, "resize") /\ ops[h].call.id = req[h].id
    BY <1>1, <1>2, <2>1, CallKinds DEF Succeeded
  <2>3. CapacityOf(ops[h].call) = capacity
    <3>1. ops[h].call.size = [n |-> RequestSizeToGiB(req[h].range), unit |-> "GiB"]
      BY <1>2, <2>1, CallKinds DEF ResizeRequest
    <3> QED
      BY <3>1 DEF CapacityOf, NormalizeDiskSizeToGiB
  <2>4. req[h].range \in CapacityRanges
    BY <1>2, <2>1, RequestFields, ControllerAssumption
  <2>5. RequestSizeToBytes(req[h].range) \in Int
    BY <2>4 DEF RequestSizeToBytes, CapacityRanges
  <2>6. capacity >= RequestSizeToBytes(req[h].range)
    BY <2>5, CeilIsEnough DEF RequestSizeToGiB
  <2>7. capacity \in Int
    BY <2>4, GiBType, UnitsAssumption
  <2> HIDE DEF capacity
  <2> QED
    BY <2>1, <2>2, <2>3, <2>6, <2>7 DEF TellsExpanded, VolumesInv, OutcomesStand
<1> QED
  BY <1>3, <1>4, <1>5, <1>6 DEF AwaitSucceeds

\* Every step of a handler is one of these.
LEMMA HandlerTells ==
  ASSUME BaseInv, VolumesInv, NEW h \in Handlers, Handler(h)
  PROVE  \/ TellsCreated(h) /\ lastReply' = [to |-> req[h], code |-> "OK"]
         \/ TellsDeleted(h)
         \/ TellsExpanded(h)
         \/ TellsNothing(h)
<1>1. CASE QueryFails(h) \/ SendFails(h) \/ AwaitFails(h)
  <2>1. \E code : ReturnsError(h, code) /\ code # "OK"
    <3>1. CASE QueryFails(h)
      BY <3>1 DEF QueryFails
    <3>2. CASE SendFails(h) \/ AwaitFails(h)
      BY <3>2 DEF SendFails, AwaitFails
    <3> QED
      BY <1>1, <3>1, <3>2
  <2> QED
    BY <2>1 DEF ReturnsError, Returns, coVars, TellsNothing
<1>2. CASE Sends(h)
  BY <1>2 DEF Sends, coVars, TellsNothing, NoReply
<1> QED
  BY <1>1, <1>2, FindsTells, AwaitTells DEF Handler

-----------------------------------------------------------------------------
(* Claims *)

\* Every volume keeps its id, and goes through its states in their order.
VolumesGoOn ==
    \A name \in VolumeNames :
        /\ claims[name].state = "none" => claims'[name].state = "none"
        /\ claims[name].state # "none" => claims'[name].id = claims[name].id
        /\ claims[name].state = "bound" => claims'[name].state \in {"bound", "deleting"}
        /\ claims[name].state = "deleting" => claims'[name].state \in {"deleting", "deleted"}
        /\ claims[name].state = "deleted" => claims'[name].state = "deleted"

LEMMA ClaimStates ==
  ASSUME BaseInv, NEW name \in VolumeNames
  PROVE  /\ claims[name].state \in {"none", "bound", "deleting", "deleted"}
         /\ claims[name].state # "none" => /\ claims[name] \in Claims
                                           /\ claims[name].id \in DiskIds
  BY DEF BaseInv, TypeOK, NoClaim, Claims

\* That leaves their names, their disks and their deletions as they were.
LEMMA GoingOnKeeps ==
  ASSUME BaseInv, VolumesInv, VolumesGoOn, UNCHANGED disks
  PROVE  /\ ClaimsAreNamed'
         /\ VolumesAreDistinct'
         /\ \A id \in DiskIds : ClaimIn(id, {"deleting", "deleted"}) =>
              ClaimIn(id, {"deleting", "deleted"})'
<1>1. ClaimsAreNamed'
  <2> SUFFICES ASSUME NEW name \in VolumeNames, claims'[name].state # "none"
               PROVE  LET id == claims'[name].id IN
                      /\ disks[id] # NoDisk
                      /\ Live(id) => disks[id].name = DiskName(name)
    BY DEF ClaimsAreNamed, Live
  <2>1. claims[name].state # "none" /\ claims'[name].id = claims[name].id
    BY DEF VolumesGoOn
  <2> QED
    BY <2>1 DEF VolumesInv, ClaimsAreNamed
<1>2. VolumesAreDistinct'
  <2> SUFFICES ASSUME NEW a \in VolumeNames, NEW b \in VolumeNames, a # b,
                      claims'[a].state \in {"bound", "deleting"},
                      claims'[b].state \in {"bound", "deleting"}
               PROVE  claims'[a].id # claims'[b].id
    BY DEF VolumesAreDistinct
  <2>1. ASSUME NEW c \in VolumeNames, claims'[c].state \in {"bound", "deleting"}
        PROVE  claims[c].state \in {"bound", "deleting"} /\ claims'[c].id = claims[c].id
    BY <2>1, ClaimStates DEF VolumesGoOn
  <2>2. claims[a].id # claims[b].id
    BY <2>1 DEF VolumesInv, VolumesAreDistinct
  <2> QED
    BY <2>1, <2>2
<1>3. ASSUME NEW id \in DiskIds, ClaimIn(id, {"deleting", "deleted"})
      PROVE  ClaimIn(id, {"deleting", "deleted"})'
  <2>1. PICK name \in VolumeNames :
          claims[name].state \in {"deleting", "deleted"} /\ claims[name].id = id
    BY <1>3 DEF ClaimIn
  <2>2. claims'[name].state \in {"deleting", "deleted"} /\ claims'[name].id = id
    BY <2>1 DEF VolumesGoOn
  <2> QED
    BY <2>2 DEF ClaimIn
<1> QED
  BY <1>1, <1>2, <1>3

\* No two claims of live disks name one disk.
LEMMA LiveIsClaimedOnce ==
  ASSUME VolumesInv, NamesAreDistinct, NEW a \in VolumeNames, NEW b \in VolumeNames,
         claims[a].state # "none", Live(claims[a].id), disks[claims[a].id].name = DiskName(b)
  PROVE  a = b
  BY DEF VolumesInv, ClaimsAreNamed, NamesAreDistinct

-----------------------------------------------------------------------------
(* The steps *)

LEMMA InitVolumes == Init => VolumesInv
<1> SUFFICES ASSUME Init PROVE VolumesInv
  OBVIOUS
<1>1. \A name \in VolumeNames : claims[name].state = "none"
  BY DEF Init, NoClaim
<1>2. \A h \in Handlers : ~Active(h) /\ ops[h].phase = "none"
  BY DEF Init, APIInit, NoOp, Active
<1> QED
  BY <1>1, <1>2
  DEF VolumesInv, DeletionsAreKnown, CreationsAreWanted, ClaimsAreNamed, OutcomesStand,
      VolumeIsReal, VolumesAreDistinct, DeletedIsGone, Deletes, Pending, Succeeded

\* A request that is not for a deletion begins.
LEMMA BeginVolumes ==
  ASSUME BaseInv, VolumesInv, NEW h \in Handlers, NEW r, Begin(h, r), UNCHANGED claims,
         r.call # "DeleteVolume",
         r.call = "CreateVolume" => claims[r.name].state \in {"none", "bound"}
  PROVE  VolumesInv'
<1>1. /\ req'[h] = r
      /\ \A g \in Handlers : g # h => pc'[g] = pc[g] /\ req'[g] = req[g]
      /\ UNCHANGED <<disks, ops, claims>>
  BY DEF Begin, apiVars, BaseInv, TypeOK
<1>2. \A g \in Handlers, id \in DiskIds : Deletes(g, id)' => Deletes(g, id)
  BY <1>1 DEF Deletes, Active, Pending
<1>3. DeletionsAreKnown'
  BY <1>1, <1>2 DEF VolumesInv, DeletionsAreKnown, ClaimIn
<1>4. CreationsAreWanted'
  BY <1>1 DEF VolumesInv, CreationsAreWanted, Active
<1>5. (ClaimsAreNamed /\ VolumeIsReal /\ VolumesAreDistinct /\ DeletedIsGone)'
  BY <1>1
  DEF VolumesInv, ClaimsAreNamed, VolumeIsReal, VolumesAreDistinct, DeletedIsGone, Live
<1>6. OutcomesStand'
  BY <1>1 DEF VolumesInv, OutcomesStand, Succeeded, Live
<1> QED
  BY <1>3, <1>4, <1>5, <1>6 DEF VolumesInv

\* A deletion begins: the CO gives the volume up.
LEMMA BeginDeleteVolumes ==
  ASSUME BaseInv, VolumesInv, NEW h \in Handlers, NEW name \in VolumeNames,
         BeginDelete(h, name)
  PROVE  VolumesInv'
<1> DEFINE id0 == claims[name].id
           r == [call |-> "DeleteVolume", id |-> id0]
<1>1. /\ Begin(h, r)
      /\ claims[name].state # "none"
      /\ claims' = [claims EXCEPT ![name].state = IF @ = "bound" THEN "deleting" ELSE @]
      /\ \A g \in Handlers : Active(g) /\ req[g].call = "CreateVolume" => req[g].name # name
  BY DEF BeginDelete
<1>2. /\ req'[h] = r
      /\ \A g \in Handlers : g # h => pc'[g] = pc[g] /\ req'[g] = req[g]
      /\ UNCHANGED <<disks, ops>>
  BY <1>1 DEF Begin, apiVars, BaseInv, TypeOK
<1>3. /\ claims[name] \in Claims
      /\ claims'[name].state = IF claims[name].state = "bound" THEN "deleting" ELSE claims[name].state
      /\ claims'[name].id = id0
      /\ \A n \in VolumeNames : n # name => claims'[n] = claims[n]
  BY <1>1, ClaimStates DEF BaseInv, TypeOK, Claims
<1>4. VolumesGoOn
  BY <1>3, ClaimStates DEF VolumesGoOn
<1>5. ClaimsAreNamed' /\ VolumesAreDistinct'
  BY <1>2, <1>4, GoingOnKeeps
<1>6. DeletionsAreKnown'
  <2> SUFFICES ASSUME NEW g \in Handlers, NEW id \in DiskIds, Deletes(g, id)'
               PROVE  ClaimIn(id, {"deleting", "deleted"})'
    BY DEF DeletionsAreKnown
  <2>1. CASE Deletes(g, id)
    BY <1>2, <1>4, <2>1, GoingOnKeeps DEF VolumesInv, DeletionsAreKnown
  <2>2. CASE ~Deletes(g, id)
    <3>1. id = id0
      BY <1>2, <2>2 DEF Deletes, Active, Pending
    <3>2. claims'[name].state \in {"deleting", "deleted"}
      BY <1>1, <1>3, ClaimStates
    <3> QED
      BY <1>3, <3>1, <3>2 DEF ClaimIn
  <2> QED
    BY <2>1, <2>2
<1>7. CreationsAreWanted'
  BY <1>1, <1>2, <1>3 DEF VolumesInv, CreationsAreWanted, Active
<1>8. VolumeIsReal' /\ DeletedIsGone'
  BY <1>2, <1>3 DEF VolumesInv, VolumeIsReal, DeletedIsGone, Live
<1>9. OutcomesStand'
  BY <1>2 DEF VolumesInv, OutcomesStand, Succeeded, Live
<1> QED
  BY <1>5, <1>6, <1>7, <1>8, <1>9 DEF VolumesInv

\* A step of a handler, whatever it tells the CO.
LEMMA HandlerVolumes ==
  ASSUME BaseInv, VolumesInv, NamesAreDistinct, NEW h \in Handlers, Handler(h)
  PROVE  VolumesInv'
<1>1. /\ Active(h) /\ req[h] \in Requests /\ req[h] # NoRequest
      /\ UNCHANGED disks
      /\ \A g \in Handlers : g # h => pc'[g] = pc[g] /\ req'[g] = req[g] /\ ops'[g] = ops[g]
      /\ req'[h] \in {req[h], NoRequest}
      /\ ops'[h].phase # "succeeded"
      /\ Pending(h)' => ops'[h].call = APICall(h)
  BY HandlerSteps
<1>2. ASSUME NEW g \in Handlers, NEW id \in DiskIds, Deletes(g, id)' PROVE Deletes(g, id)
  <2>1. CASE g # h
    BY <1>1, <1>2, <2>1 DEF Deletes, Active, Pending
  <2>2. CASE g = h /\ req'[h].call = "DeleteVolume" /\ req'[h].id = id
    BY <1>1, <2>2 DEF Deletes, NoRequest
  <2>3. CASE g = h /\ Pending(h)' /\ ops'[h].call.kind = "delete" /\ ops'[h].call.id = id
    BY <1>1, <2>3, CallKinds DEF Deletes
  <2> QED
    BY <1>2, <2>1, <2>2, <2>3 DEF Deletes
<1>3. OutcomesStand'
  BY <1>1 DEF VolumesInv, OutcomesStand, Succeeded, Live
<1>4. ASSUME NEW g \in Handlers, Active(g)', req'[g].call = "CreateVolume"
      PROVE  /\ req'[g] = req[g] /\ req[g].name \in VolumeNames
             /\ claims[req[g].name].state \in {"none", "bound"}
  <2>1. Active(g) /\ req'[g] = req[g]
    BY <1>1, <1>4 DEF Active, NoRequest
  <2> QED
    BY <1>4, <2>1, HandlerFacts, CreateNames DEF VolumesInv, CreationsAreWanted
<1> SUFFICES (DeletionsAreKnown /\ CreationsAreWanted /\ ClaimsAreNamed /\ VolumeIsReal
                /\ VolumesAreDistinct /\ DeletedIsGone)'
  BY <1>3 DEF VolumesInv
<1>5. CASE UNCHANGED claims
  <2>1. DeletionsAreKnown'
    BY <1>2, <1>5 DEF VolumesInv, DeletionsAreKnown, ClaimIn
  <2>2. CreationsAreWanted'
    BY <1>4, <1>5 DEF CreationsAreWanted
  <2> QED
    BY <1>1, <1>5, <2>1, <2>2
    DEF VolumesInv, ClaimsAreNamed, VolumeIsReal, VolumesAreDistinct, DeletedIsGone, Live
<1>6. CASE TellsCreated(h)
  <2>1. PICK id0, location, capacity :
          /\ id0 \in DiskIds
          /\ req[h].call = "CreateVolume"
          /\ Live(id0)
          /\ disks[id0].name = DiskName(req[h].name)
          /\ disks[id0].type = DiskType
          /\ CapacityOf(disks[id0]) >= capacity
          /\ claims' = [claims EXCEPT ![req[h].name] =
                          [state |-> "bound", id |-> id0, location |-> location,
                           capacity |-> capacity]]
    BY <1>6 DEF TellsCreated
  <2> DEFINE c == req[h].name
  <2>2. c \in VolumeNames /\ claims[c].state \in {"none", "bound"}
    BY <1>1, <2>1, CreateNames DEF VolumesInv, CreationsAreWanted
  <2>3. /\ claims'[c].state = "bound" /\ claims'[c].id = id0 /\ claims'[c].capacity = capacity
        /\ \A n \in VolumeNames : n # c => claims'[n] = claims[n]
    BY <2>1, <2>2 DEF BaseInv, TypeOK
  <2>4. disks[id0].name = DiskName(c) /\ disks[id0] # NoDisk
    BY <2>1 DEF Live
  <2> HIDE DEF c
  <2>5. DeletionsAreKnown'
    <3> SUFFICES ASSUME NEW g \in Handlers, NEW id \in DiskIds, Deletes(g, id)'
                 PROVE  ClaimIn(id, {"deleting", "deleted"})'
      BY DEF DeletionsAreKnown
    <3>1. PICK n \in VolumeNames :
            claims[n].state \in {"deleting", "deleted"} /\ claims[n].id = id
      BY <1>2 DEF VolumesInv, DeletionsAreKnown, ClaimIn
    <3>2. n # c
      BY <2>2, <3>1
    <3> QED
      BY <2>3, <3>1, <3>2 DEF ClaimIn
  <2>6. CreationsAreWanted'
    BY <1>4, <2>3 DEF CreationsAreWanted
  <2>7. ClaimsAreNamed'
    BY <1>1, <2>3, <2>4 DEF VolumesInv, ClaimsAreNamed, Live
  <2>8. VolumeIsReal'
    BY <1>1, <2>1, <2>3, <2>4 DEF VolumesInv, VolumeIsReal, Live
  <2>9. VolumesAreDistinct'
    <3>1. ASSUME NEW b \in VolumeNames, b # c, claims[b].state \in {"bound", "deleting"}
          PROVE  claims[b].id # id0
      BY <2>1, <2>2, <2>4, <3>1, LiveIsClaimedOnce
    <3> QED
      BY <2>3, <3>1 DEF VolumesInv, VolumesAreDistinct
  <2>10. DeletedIsGone'
    BY <1>1, <2>3 DEF VolumesInv, DeletedIsGone
  <2> QED
    BY <2>5, <2>6, <2>7, <2>8, <2>9, <2>10
<1>7. CASE TellsDeleted(h)
  <2>1. /\ req[h].call = "DeleteVolume" /\ ~Live(req[h].id)
        /\ claims' = [n \in VolumeNames |->
                        IF claims[n].state = "deleting" /\ claims[n].id = req[h].id
                          THEN [claims[n] EXCEPT !.state = "deleted"]
                          ELSE claims[n]]
    BY <1>7 DEF TellsDeleted, DeleteSucceeds
  <2>2. ASSUME NEW n \in VolumeNames
        PROVE  \/ claims'[n] = claims[n]
               \/ /\ claims[n].state = "deleting" /\ claims[n].id = req[h].id
                  /\ claims'[n].state = "deleted" /\ claims'[n].id = claims[n].id
    BY <2>1, ClaimStates DEF Claims
  <2>3. VolumesGoOn
    BY <2>2, ClaimStates DEF VolumesGoOn
  <2>4. ClaimsAreNamed' /\ VolumesAreDistinct'
    BY <1>1, <2>3, GoingOnKeeps
  <2>5. DeletionsAreKnown'
    BY <1>1, <1>2, <2>3, GoingOnKeeps DEF VolumesInv, DeletionsAreKnown
  <2>6. CreationsAreWanted'
    BY <1>4, <2>2 DEF CreationsAreWanted
  <2>7. VolumeIsReal'
    BY <1>1, <2>2 DEF VolumesInv, VolumeIsReal, Live
  <2>8. DeletedIsGone'
    <3> SUFFICES ASSUME NEW n \in VolumeNames, claims'[n].state = "deleted"
                 PROVE  disks[claims'[n].id] = DeletedDisk
      BY <1>1 DEF DeletedIsGone
    <3>1. CASE claims'[n] = claims[n]
      BY <3>1 DEF VolumesInv, DeletedIsGone
    <3>2. CASE claims[n].state = "deleting" /\ claims[n].id = req[h].id /\ claims'[n].id = claims[n].id
      BY <2>1, <3>2 DEF VolumesInv, ClaimsAreNamed, Live
    <3> QED
      BY <2>2, <3>1, <3>2
  <2> QED
    BY <2>4, <2>5, <2>6, <2>7, <2>8
<1>8. CASE TellsExpanded(h)
  <2>1. PICK capacity \in Int :
          /\ Live(req[h].id) => CapacityOf(disks[req[h].id]) >= capacity
          /\ claims' = [n \in VolumeNames |->
                          IF claims[n].state = "bound" /\ claims[n].id = req[h].id
                            THEN [claims[n] EXCEPT !.capacity = capacity]
                            ELSE claims[n]]
    BY <1>8 DEF TellsExpanded, ExpandSucceeds
  <2>2. ASSUME NEW n \in VolumeNames
        PROVE  \/ claims'[n] = claims[n]
               \/ /\ claims[n].state = "bound" /\ claims[n].id = req[h].id
                  /\ claims'[n].state = "bound" /\ claims'[n].id = claims[n].id
                  /\ claims'[n].capacity = capacity
    BY <2>1, ClaimStates DEF Claims
  <2>3. VolumesGoOn
    BY <2>2, ClaimStates DEF VolumesGoOn
  <2>4. ClaimsAreNamed' /\ VolumesAreDistinct'
    BY <1>1, <2>3, GoingOnKeeps
  <2>5. DeletionsAreKnown'
    BY <1>1, <1>2, <2>3, GoingOnKeeps DEF VolumesInv, DeletionsAreKnown
  <2>6. CreationsAreWanted'
    BY <1>4, <2>2 DEF CreationsAreWanted
  <2>7. VolumeIsReal'
    BY <1>1, <2>1, <2>2 DEF VolumesInv, VolumeIsReal, Live
  <2>8. DeletedIsGone'
    BY <1>1, <2>2 DEF VolumesInv, DeletedIsGone
  <2> QED
    BY <2>4, <2>5, <2>6, <2>7, <2>8
<1> QED
  BY <1>5, <1>6, <1>7, <1>8, HandlerTells DEF TellsNothing

\* A restart ends every handler, and no operation.
LEMMA RestartVolumes ==
  ASSUME BaseInv, VolumesInv, Restart
  PROVE  VolumesInv'
<1>1. /\ \A h \in Handlers : ~Active(h)' /\ ops'[h].phase # "succeeded"
      /\ \A h \in Handlers : Pending(h)' => Pending(h) /\ ops'[h].call = ops[h].call
      /\ UNCHANGED <<disks, claims>>
  <2>1. ASSUME NEW h \in Handlers, Pending(h)
        PROVE  /\ [ops[h] EXCEPT !.awaited = FALSE].phase = "pending"
               /\ [ops[h] EXCEPT !.awaited = FALSE].call = ops[h].call
    BY <2>1 DEF Pending, NoOp, BaseInv, TypeOK, APITypeOK, Operations
  <2> QED
    BY <2>1 DEF Restart, Active, Pending, NoOp, coVars
<1>2. DeletionsAreKnown'
  BY <1>1 DEF VolumesInv, DeletionsAreKnown, Deletes, ClaimIn
<1>3. CreationsAreWanted' /\ OutcomesStand'
  BY <1>1 DEF CreationsAreWanted, OutcomesStand, Succeeded
<1>4. (ClaimsAreNamed /\ VolumeIsReal /\ VolumesAreDistinct /\ DeletedIsGone)'
  BY <1>1
  DEF VolumesInv, ClaimsAreNamed, VolumeIsReal, VolumesAreDistinct, DeletedIsGone, Live
<1> QED
  BY <1>2, <1>3, <1>4 DEF VolumesInv

-----------------------------------------------------------------------------
(* The operations of the API *)

\* An operation that ends tells its outcome to the handler that awaits it.
LEMMA OperationEnds ==
  ASSUME BaseInv, NEW c \in Handlers, TakesEffect(c) \/ OperationFails(c)
  PROVE  /\ Pending(c) /\ ops[c].call \in Calls
         /\ ~Pending(c)'
         /\ \A g \in Handlers : g # c => ops'[g] = ops[g]
         /\ ops'[c].phase = "succeeded" => TakesEffect(c) /\ ops'[c].call = ops[c].call
<1>1. PICK outcome, id :
        /\ Resolve(c, outcome, id)
        /\ \/ outcome = "succeeded" /\ id \in DiskIds
           \/ outcome = "failed" /\ id = NoId
  BY EffectType
<1>2. Pending(c)
  BY EffectType
<1>3. ops[c] \in Operations /\ ops \in [Handlers -> {NoOp} \cup Operations]
  BY <1>2 DEF BaseInv, TypeOK, APITypeOK, Pending, NoOp
<1>4. \A g \in Handlers : g # c => ops'[g] = ops[g]
  BY <1>1, <1>2, ResolveBase
<1>5. \A o \in {"succeeded", "failed"} : \A i : Resolve(c, o, i) =>
        \/ ops'[c] = NoOp
        \/ ops'[c].phase = o /\ ops'[c].call = ops[c].call
  BY <1>3 DEF Resolve, Operations
<1>6. ~Pending(c)'
  BY <1>1, <1>5 DEF Pending, NoOp
<1>7. ASSUME ops'[c].phase = "succeeded"
      PROVE  TakesEffect(c) /\ ops'[c].call = ops[c].call
  <2>1. ~OperationFails(c)
    BY <1>5, <1>7 DEF OperationFails, NoOp
  <2> QED
    BY <1>1, <1>5, <1>7, <2>1 DEF NoOp
<1> QED
  BY <1>2, <1>3, <1>4, <1>6, <1>7 DEF Operations

\* A disk keeps its name, its type and its place, and grows, until it is deleted
\* for good.
Keeps(id) ==
    /\ Live(id)
    /\ disks'[id] \notin {NoDisk, DeletedDisk}
    /\ disks'[id].name = disks[id].name
    /\ disks'[id].type = disks[id].type
    /\ disks'[id].location = disks[id].location
    /\ CapacityOf(disks'[id]) >= CapacityOf(disks[id])

LEMMA DisksGrow ==
  ASSUME BaseInv, NeverShrinks, NEW c \in Handlers, TakesEffect(c) \/ OperationFails(c),
         NEW id \in DiskIds
  PROVE  \/ Keeps(id)
         \/ disks[id] = NoDisk
         \/ disks'[id] = DeletedDisk /\ disks[id] = DeletedDisk
         \/ disks'[id] = DeletedDisk /\ Live(id)
              /\ ops[c].call.kind = "delete" /\ ops[c].call.id = id
<1> USE DEF BaseInv, TypeOK, APITypeOK
<1>1. Live(id) => /\ disks[id] \in Disks
                  /\ CapacityOf(disks[id]) >= CapacityOf(disks[id])
  BY CapacityType DEF Live
<1>2. CASE disks'[id] = disks[id]
  BY <1>1, <1>2 DEF Keeps, Live
<1>3. CASE CreateTakesEffect(c)
  BY <1>2, <1>3 DEF CreateTakesEffect
<1>4. CASE DeleteTakesEffect(c)
  BY <1>2, <1>4 DEF DeleteTakesEffect
<1>5. CASE AttachTakesEffect(c) \/ DetachTakesEffect(c) \/ OperationFails(c)
  BY <1>2, <1>5 DEF AttachTakesEffect, DetachTakesEffect, OperationFails
<1>6. CASE ResizeTakesEffect(c)
  <2>1. CASE id = ops[c].call.id
    <3>1. ops[c].call.size \in Sizes
      BY <1>6, OperationEnds DEF ResizeTakesEffect, TakesEffect, Calls
    <3>2. PICK size \in Renderings(ops[c].call.size) : disks' = [disks EXCEPT ![id].size = size]
      BY <1>6, <2>1 DEF ResizeTakesEffect
    <3>3. size \in Sizes
      BY <3>1, <3>2, RenderingsType
    <3>4. Live(id)
      BY <1>6, <2>1 DEF ResizeTakesEffect
    <3>5. disks'[id] \in Disks /\ disks'[id].name = disks[id].name
            /\ disks'[id].type = disks[id].type /\ disks'[id].location = disks[id].location
            /\ disks'[id].size = size
      BY <1>1, <3>2, <3>3, <3>4 DEF Disks
    <3>6. NormalizeDiskSizeToGiB(disks[id].size) <= NormalizeDiskSizeToGiB(size)
      BY <1>6, <2>1, <3>1, <3>2, RenderingsAgree DEF ResizeTakesEffect
    <3>7. CapacityOf(disks[id]) <= CapacityOf(disks'[id])
      BY <1>1, <3>3, <3>4, <3>5, <3>6, CapacityGrows DEF Disks
    <3>8. CapacityOf(disks[id]) \in Int /\ CapacityOf(disks'[id]) \in Int
      BY <1>1, <3>4, <3>5, CapacityType
    <3>9. disks'[id] \notin {NoDisk, DeletedDisk}
      BY <3>5, APIAssumption DEF Live
    <3> QED
      BY <3>4, <3>5, <3>7, <3>8, <3>9 DEF Keeps
  <2>2. CASE id # ops[c].call.id
    BY <1>2, <1>6, <2>2 DEF ResizeTakesEffect
  <2> QED
    BY <2>1, <2>2
<1> QED
  BY <1>3, <1>4, <1>5, <1>6 DEF TakesEffect

\* The disk of a volume the CO has, or is being told of, is not deleted.
LEMMA WantedIsNotDeleted ==
  ASSUME BaseInv, VolumesInv, NamesAreDistinct, NEW c \in Handlers, NEW id \in DiskIds,
         Deletes(c, id), Live(id)
  PROVE  /\ \A name \in VolumeNames : claims[name].state = "bound" => claims[name].id # id
         /\ \A h \in Handlers : Succeeded(h, "create") => ops[h].id # id
<1>1. PICK b \in VolumeNames : claims[b].state = "deleting" /\ claims[b].id = id
  <2>1. PICK b \in VolumeNames : claims[b].state \in {"deleting", "deleted"} /\ claims[b].id = id
    BY DEF VolumesInv, DeletionsAreKnown, ClaimIn
  <2> QED
    BY <2>1 DEF VolumesInv, DeletedIsGone, Live
<1>2. ASSUME NEW name \in VolumeNames, claims[name].state = "bound", claims[name].id = id
      PROVE  FALSE
  BY <1>1, <1>2 DEF VolumesInv, VolumesAreDistinct
<1>3. ASSUME NEW h \in Handlers, Succeeded(h, "create"), ops[h].id = id
      PROVE  FALSE
  <2>1. /\ Active(h) /\ req[h] \in Requests /\ req[h] # NoRequest
        /\ ops[h].call = APICall(h) /\ APICall(h).kind = "create"
    BY <1>3, SucceededIsAwaited DEF Succeeded
  <2>2. /\ req[h].call = "CreateVolume" /\ req[h].name \in VolumeNames
        /\ ops[h].call.disk.name = DiskName(req[h].name)
    BY <2>1, CallKinds, CreateNames
  <2>3. claims[req[h].name].state \in {"none", "bound"}
    BY <2>1, <2>2 DEF VolumesInv, CreationsAreWanted
  <2>4. disks[id].name = DiskName(req[h].name)
    BY <1>3, <2>2 DEF VolumesInv, OutcomesStand
  <2>5. b = req[h].name
    BY <1>1, <2>2, <2>4, LiveIsClaimedOnce
  <2> QED
    BY <1>1, <2>3, <2>5
<1> QED
  BY <1>2, <1>3

\* What the operation that ends has done, stands.
LEMMA OutcomeStands ==
  ASSUME BaseInv, NEW c \in Handlers, TakesEffect(c) \/ OperationFails(c)
  PROVE  /\ Succeeded(c, "create")' =>
              LET id == ops'[c].id
                  disk == ops'[c].call.disk
              IN  /\ disks'[id] \notin {NoDisk, DeletedDisk}
                  /\ disks'[id].name = disk.name
                  /\ disks'[id].type = disk.type
                  /\ disks'[id].location = disk.location
                  /\ CapacityOf(disks'[id]) >= CapacityOf(disk)
         /\ Succeeded(c, "delete")' => disks'[ops'[c].call.id] = DeletedDisk
         /\ Succeeded(c, "resize")' =>
              LET call == ops'[c].call IN
              /\ disks'[call.id] \notin {NoDisk, DeletedDisk}
              /\ CapacityOf(disks'[call.id]) >= CapacityOf(call)
<1> DEFINE call == ops[c].call
<1>1. call \in Calls /\ (ops'[c].phase = "succeeded" => TakesEffect(c) /\ ops'[c].call = call)
  BY OperationEnds
<1>2. ops[c] \in Operations /\ ops \in [Handlers -> {NoOp} \cup Operations]
  BY OperationEnds DEF BaseInv, TypeOK, APITypeOK, Pending, NoOp
<1>3. disks \in [DiskIds -> {NoDisk, DeletedDisk} \cup Disks]
  BY DEF BaseInv, TypeOK, APITypeOK
<1>4. ASSUME NEW d, NEW e, d.size \in Sizes, e.size \in Renderings(d.size)
      PROVE  e.size \in Sizes /\ CapacityOf(e) >= CapacityOf(d)
  <2>1. e.size \in Sizes
    BY <1>4, RenderingsType
  <2>2. NormalizeDiskSizeToGiB(e.size) = NormalizeDiskSizeToGiB(d.size)
    BY <1>4, RenderingsAgree
  <2>3. NormalizeDiskSizeToGiB(d.size) \in Int
    BY <1>4, NormalizeType
  <2>4. CapacityOf(e) \in Int /\ CapacityOf(e) = CapacityOf(d)
    BY <2>2, <2>3, UnitsAssumption DEF CapacityOf
  <2> QED
    BY <2>1, <2>4
<1>5. ASSUME Succeeded(c, "create")'
      PROVE  LET id == ops'[c].id
                 disk == ops'[c].call.disk
             IN  /\ disks'[id] \notin {NoDisk, DeletedDisk}
                 /\ disks'[id].name = disk.name
                 /\ disks'[id].type = disk.type
                 /\ disks'[id].location = disk.location
                 /\ CapacityOf(disks'[id]) >= CapacityOf(disk)
  <2>1. ops'[c].phase = "succeeded" /\ ops'[c].call = call /\ call.kind = "create"
    BY <1>1, <1>5 DEF Succeeded
  <2>2. CreateTakesEffect(c)
    BY <1>1, <2>1
    DEF TakesEffect, DeleteTakesEffect, AttachTakesEffect, DetachTakesEffect, ResizeTakesEffect
  <2>3. PICK id \in DiskIds, size \in Renderings(call.disk.size) :
          /\ disks' = [disks EXCEPT ![id] = [call.disk EXCEPT !.size = size]]
          /\ Resolve(c, "succeeded", id)
    BY <2>2 DEF CreateTakesEffect
  <2>4. ops'[c].id = id
    BY <1>2, <2>1, <2>3 DEF Resolve, Operations, NoOp
  <2>5. call.disk \in Disks
    BY <1>1, <2>1 DEF Calls
  <2>6. size \in Sizes
    BY <2>3, <2>5, RenderingsType DEF Disks
  <2>7. disks'[id] = [call.disk EXCEPT !.size = size]
    BY <1>3, <2>3
  <2>8. /\ disks'[id] \in Disks /\ disks'[id].size = size
        /\ disks'[id].name = call.disk.name /\ disks'[id].type = call.disk.type
        /\ disks'[id].location = call.disk.location
    BY <2>5, <2>6, <2>7 DEF Disks
  <2>9. disks'[id] \notin {NoDisk, DeletedDisk}
    BY <2>8, APIAssumption DEF Live
  <2>10. CapacityOf(disks'[id]) >= CapacityOf(call.disk)
    BY <1>4, <2>3, <2>5, <2>8 DEF Disks
  <2> QED
    BY <2>1, <2>4, <2>8, <2>9, <2>10 DEF Live
<1>6. ASSUME Succeeded(c, "delete")'
      PROVE  disks'[ops'[c].call.id] = DeletedDisk
  <2>1. ops'[c].call = call /\ call.kind = "delete" /\ call.id \in DiskIds
    BY <1>1, <1>6 DEF Succeeded, Calls
  <2>2. DeleteTakesEffect(c)
    BY <1>1, <1>6, <2>1
    DEF Succeeded, TakesEffect, CreateTakesEffect, AttachTakesEffect, DetachTakesEffect,
        ResizeTakesEffect
  <2> QED
    BY <1>3, <2>1, <2>2 DEF DeleteTakesEffect
<1>7. ASSUME Succeeded(c, "resize")'
      PROVE  LET r == ops'[c].call IN
             /\ disks'[r.id] \notin {NoDisk, DeletedDisk}
             /\ CapacityOf(disks'[r.id]) >= CapacityOf(r)
  <2>1. /\ ops'[c].call = call /\ call.kind = "resize"
        /\ call.id \in DiskIds /\ call.size \in Sizes
    BY <1>1, <1>7 DEF Succeeded, Calls
  <2>2. ResizeTakesEffect(c)
    BY <1>1, <1>7, <2>1
    DEF Succeeded, TakesEffect, CreateTakesEffect, AttachTakesEffect, DetachTakesEffect,
        DeleteTakesEffect
  <2>3. PICK size \in Renderings(call.size) : disks' = [disks EXCEPT ![call.id].size = size]
    BY <2>2 DEF ResizeTakesEffect
  <2>4. disks[call.id] \in Disks /\ size \in Sizes
    BY <1>3, <2>1, <2>2, <2>3, RenderingsType DEF ResizeTakesEffect, Live
  <2>5. disks'[call.id] \in Disks /\ disks'[call.id].size = size
    BY <1>3, <2>1, <2>3, <2>4 DEF Disks
  <2>6. disks'[call.id] \notin {NoDisk, DeletedDisk}
    BY <2>1, <2>5, APIAssumption DEF Live
  <2>7. CapacityOf(disks'[call.id]) >= CapacityOf(call)
    BY <1>4, <2>1, <2>3, <2>5
  <2> QED
    BY <2>1, <2>6, <2>7 DEF Live
<1> QED
  BY <1>5, <1>6, <1>7

\* A step of an operation.
LEMMA OperationVolumes ==
  ASSUME BaseInv, VolumesInv, NamesAreDistinct, NeverShrinks, UNCHANGED <<pc, req, claims>>,
         NEW c \in Handlers, TakesEffect(c) \/ OperationFails(c)
  PROVE  VolumesInv'
<1>1. /\ Pending(c) /\ ~Pending(c)'
      /\ \A g \in Handlers : g # c => ops'[g] = ops[g]
  BY OperationEnds
<1>2. ASSUME NEW id \in DiskIds, disks[id] # NoDisk
      PROVE  \/ Keeps(id)
             \/ disks'[id] = DeletedDisk /\ disks[id] = DeletedDisk
             \/ disks'[id] = DeletedDisk /\ Live(id) /\ Deletes(c, id)
  BY <1>1, <1>2, DisksGrow DEF Deletes
<1>3. DeletionsAreKnown'
  <2>1. \A g \in Handlers, id \in DiskIds : Deletes(g, id)' => Deletes(g, id)
    BY <1>1 DEF Deletes, Pending, Active
  <2> QED
    BY <2>1 DEF VolumesInv, DeletionsAreKnown, ClaimIn
<1>4. CreationsAreWanted'
  BY DEF VolumesInv, CreationsAreWanted, Active
<1>5. ClaimsAreNamed'
  <2> SUFFICES ASSUME NEW name \in VolumeNames, claims[name].state # "none"
               PROVE  LET id == claims[name].id IN
                      /\ disks'[id] # NoDisk
                      /\ disks'[id] \notin {NoDisk, DeletedDisk} => disks'[id].name = DiskName(name)
    BY DEF ClaimsAreNamed, Live
  <2>1. claims[name].id \in DiskIds
    BY ClaimStates
  <2>2. disks[claims[name].id] # NoDisk /\ (Live(claims[name].id) => disks[claims[name].id].name = DiskName(name))
    BY DEF VolumesInv, ClaimsAreNamed
  <2> QED
    BY <1>2, <2>1, <2>2, APIAssumption DEF Keeps, Live
<1>6. OutcomesStand'
  <2> SUFFICES ASSUME NEW g \in Handlers
               PROVE  LET call == ops'[g].call IN
                      /\ Succeeded(g, "create")' =>
                           LET id == ops'[g].id IN
                           /\ disks'[id] \notin {NoDisk, DeletedDisk}
                           /\ disks'[id].name = call.disk.name
                           /\ disks'[id].type = call.disk.type
                           /\ disks'[id].location = call.disk.location
                           /\ CapacityOf(disks'[id]) >= CapacityOf(call.disk)
                      /\ Succeeded(g, "delete")' => disks'[call.id] = DeletedDisk
                      /\ Succeeded(g, "resize")' =>
                           /\ disks'[call.id] # NoDisk
                           /\ disks'[call.id] \notin {NoDisk, DeletedDisk} => CapacityOf(disks'[call.id]) >= CapacityOf(call)
    BY DEF OutcomesStand, Live
  <2>1. CASE g = c
    BY <2>1, OutcomeStands DEF Live
  <2>2. CASE g # c
    <3> DEFINE call == ops[g].call
               id0 == ops[g].id
    <3>1. ops'[g] = ops[g]
      BY <1>1, <2>2
    <3>2. ASSUME Succeeded(g, "create")
          PROVE  /\ disks'[id0] \notin {NoDisk, DeletedDisk}
                 /\ disks'[id0].name = call.disk.name
                 /\ disks'[id0].type = call.disk.type
                 /\ disks'[id0].location = call.disk.location
                 /\ CapacityOf(disks'[id0]) >= CapacityOf(call.disk)
      <4>1. id0 \in DiskIds /\ call \in Calls /\ call.kind = "create"
        BY <3>2, SucceededIsAwaited DEF Succeeded, Operations
      <4>2. /\ Live(id0)
            /\ disks[id0].name = call.disk.name
            /\ disks[id0].type = call.disk.type
            /\ disks[id0].location = call.disk.location
            /\ CapacityOf(disks[id0]) >= CapacityOf(call.disk)
        BY <3>2 DEF VolumesInv, OutcomesStand
      <4>3. ~Deletes(c, id0)
        BY <3>2, <4>1, <4>2, WantedIsNotDeleted
      <4>4. Keeps(id0)
        <5>1. disks[id0] # NoDisk /\ disks[id0] # DeletedDisk
          BY <4>2 DEF Live
        <5> HIDE DEF id0
        <5> QED
          BY <1>2, <4>1, <4>3, <5>1
      <4>5. /\ CapacityOf(call.disk) \in Int
            /\ CapacityOf(disks[id0]) \in Int
            /\ CapacityOf(disks'[id0]) \in Int
        <5>1. call.disk \in Disks
          BY <4>1 DEF Calls
        <5>2. disks[id0] \in Disks
          BY <4>1, <4>2 DEF Live, BaseInv, TypeOK, APITypeOK
        <5>3. disks'[id0] \in Disks
          BY <4>1, <4>4, EffectType DEF Keeps, Live
        <5> QED
          BY <5>1, <5>2, <5>3, CapacityType
      <4> HIDE DEF call, id0
      <4> QED
        BY <4>2, <4>4, <4>5 DEF Keeps, Live
    <3>3. ASSUME Succeeded(g, "delete")
          PROVE  disks'[call.id] = DeletedDisk
      <4>1. call.id \in DiskIds
        BY <3>3, SucceededIsAwaited DEF Succeeded, Operations, Calls
      <4>2. disks[call.id] = DeletedDisk
        BY <3>3 DEF VolumesInv, OutcomesStand
      <4> QED
        BY <1>2, <4>1, <4>2, APIAssumption DEF Keeps, Live
    <3>4. ASSUME Succeeded(g, "resize")
          PROVE  /\ disks'[call.id] # NoDisk
                 /\ disks'[call.id] # DeletedDisk =>
                      CapacityOf(disks'[call.id]) >= CapacityOf(call)
      <4>1. call.id \in DiskIds /\ call.size \in Sizes
        BY <3>4, SucceededIsAwaited DEF Succeeded, Operations, Calls
      <4>2. /\ disks[call.id] # NoDisk
            /\ Live(call.id) => CapacityOf(disks[call.id]) >= CapacityOf(call)
        BY <3>4 DEF VolumesInv, OutcomesStand
      <4>3. CASE disks'[call.id] = DeletedDisk
        BY <4>3, APIAssumption
      <4>4. CASE Keeps(call.id)
        <5> DEFINE i == call.id
        <5>1. disks[i] \in Disks /\ disks'[i] \in Disks
          BY <4>1, <4>4, EffectType DEF Keeps, Live, BaseInv, TypeOK, APITypeOK
        <5>2. CapacityOf(disks[i]) \in Int /\ CapacityOf(disks'[i]) \in Int
          BY <5>1, CapacityType
        <5>3. CapacityOf(call) \in Int
          BY <4>1, NormalizeType, UnitsAssumption DEF CapacityOf
        <5>4. /\ disks'[i] \notin {NoDisk, DeletedDisk}
              /\ CapacityOf(disks'[i]) >= CapacityOf(disks[i])
              /\ CapacityOf(disks[i]) >= CapacityOf(call)
          BY <4>2, <4>4, <5>1, APIAssumption DEF Keeps
        <5> HIDE DEF i
        <5>5. CapacityOf(disks'[i]) >= CapacityOf(call)
          BY <5>2, <5>3, <5>4
        <5> QED
          BY <5>4, <5>5 DEF i
      <4> QED
        BY <1>2, <4>1, <4>2, <4>3, <4>4
    <3> QED
      BY <3>1, <3>2, <3>3, <3>4 DEF Succeeded, Live
  <2> QED
    BY <2>1, <2>2
<1>7. VolumeIsReal'
  <2> SUFFICES ASSUME NEW name \in VolumeNames, claims[name].state = "bound"
               PROVE  LET id == claims[name].id IN
                      /\ disks'[id] \notin {NoDisk, DeletedDisk}
                      /\ disks'[id].name = DiskName(name)
                      /\ disks'[id].type = DiskType
                      /\ CapacityOf(disks'[id]) >= claims[name].capacity
    BY DEF VolumeIsReal, Live
  <2> DEFINE id == claims[name].id
  <2>1. id \in DiskIds /\ claims[name].capacity \in Int
    BY ClaimStates DEF Claims
  <2>2. /\ Live(id)
        /\ disks[id].name = DiskName(name)
        /\ disks[id].type = DiskType
        /\ CapacityOf(disks[id]) >= claims[name].capacity
    BY DEF VolumesInv, VolumeIsReal
  <2>3. ~Deletes(c, id)
    BY <2>1, <2>2, WantedIsNotDeleted
  <2>4. disks[id] # NoDisk /\ disks[id] # DeletedDisk
    BY <2>2 DEF Live
  <2> HIDE DEF id
  <2>5. Keeps(id)
    BY <1>2, <2>1, <2>3, <2>4
  <2>6. disks[id] \in Disks /\ disks'[id] \in Disks
    BY <2>1, <2>5, EffectType DEF Keeps, Live, BaseInv, TypeOK, APITypeOK
  <2>7. CapacityOf(disks[id]) \in Int /\ CapacityOf(disks'[id]) \in Int
    BY <2>6, CapacityType
  <2> QED
    BY <2>1, <2>2, <2>5, <2>7 DEF Keeps, id, Live
<1>8. VolumesAreDistinct'
  BY DEF VolumesInv, VolumesAreDistinct
<1>9. DeletedIsGone'
  <2> SUFFICES ASSUME NEW name \in VolumeNames, claims[name].state = "deleted"
               PROVE  disks'[claims[name].id] = DeletedDisk
    BY DEF DeletedIsGone
  <2>1. claims[name].id \in DiskIds /\ disks[claims[name].id] = DeletedDisk
    BY ClaimStates DEF VolumesInv, DeletedIsGone
  <2> QED
    BY <1>2, <2>1, APIAssumption DEF Keeps, Live
<1> QED
  BY <1>3, <1>4, <1>5, <1>6, <1>7, <1>8, <1>9 DEF VolumesInv

\* VolumeInv is inductive.
LEMMA NextVolumes ==
  ASSUME NamesAreDistinct, NeverShrinks
  PROVE  VolumeInv /\ [Next]_vars => VolumeInv'
<1> SUFFICES ASSUME VolumeInv, [Next]_vars PROVE VolumeInv'
  OBVIOUS
<1>1. BaseInv /\ VolumesInv
  BY VolumeInvParts
<1>2. BaseInv'
  BY <1>1, NextBase
<1> SUFFICES VolumesInv'
  BY <1>2 DEF VolumeInv, BaseInv, VolumesInv
<1>3. ASSUME NEW h \in Handlers, Begins(h) PROVE VolumesInv'
  <2>1. ASSUME NEW r \in CreateRequests, BeginCreate(h, r) PROVE VolumesInv'
    BY <1>1, <2>1, BeginVolumes DEF BeginCreate, CreateVolumeRequest, coVars
  <2>2. ASSUME NEW name \in VolumeNames, BeginDelete(h, name) PROVE VolumesInv'
    BY <1>1, <2>2, BeginDeleteVolumes
  <2>3. ASSUME NEW id \in DiskIds, NEW n \in Nodes, NEW mode \in PublishModes,
               BeginPublish(h, id, n, mode)
        PROVE  VolumesInv'
    BY <1>1, <2>3, BeginVolumes DEF BeginPublish, BeginAttachment
  <2>4. ASSUME NEW id \in DiskIds, NEW n \in Nodes, BeginUnpublish(h, id, n)
        PROVE  VolumesInv'
    BY <1>1, <2>4, BeginVolumes DEF BeginUnpublish, BeginAttachment
  <2>5. ASSUME NEW id \in DiskIds, NEW range \in ExpandRanges, BeginExpand(h, id, range)
        PROVE  VolumesInv'
    BY <1>1, <2>5, BeginVolumes DEF BeginExpand, coVars
  <2> QED
    BY <1>3, <2>1, <2>2, <2>3, <2>4, <2>5 DEF Begins
<1>4. ASSUME NEW h \in Handlers, Handler(h) PROVE VolumesInv'
  BY <1>1, <1>4, HandlerVolumes
<1>5. CASE Restart
  BY <1>1, <1>5, RestartVolumes
<1>6. ASSUME NEW c \in Handlers, TakesEffect(c) \/ OperationFails(c), UNCHANGED <<driverVars, coVars>>
      PROVE  VolumesInv'
  BY <1>1, <1>6, OperationVolumes DEF driverVars, coVars
<1>7. ASSUME UNCHANGED <<disks, ops, driverVars, coVars>>
      PROVE  VolumesInv'
  BY <1>1, <1>7
  DEF driverVars, coVars, VolumesInv, DeletionsAreKnown, CreationsAreWanted, ClaimsAreNamed,
      OutcomesStand, VolumeIsReal, VolumesAreDistinct, DeletedIsGone, Deletes, ClaimIn, Succeeded,
      Live, Active, Pending
<1>8. CASE API
  BY <1>6, <1>7, <1>8 DEF API, APINext, DeleteInstance
<1> QED
  BY <1>3, <1>4, <1>5, <1>7, <1>8 DEF Next, vars, apiVars

\* The inductive invariant about volumes: what the CO has been given up is all
\* that is ever deleted, and what an operation has done still stands when its
\* handler says so.
THEOREM VolumeInvariant ==
  ASSUME NamesAreDistinct, NeverShrinks
  PROVE  Spec => []VolumeInv
<1>1. Init => VolumeInv
  BY InitBase, InitVolumes, VolumeInvParts
<1>2. VolumeInv /\ [Next]_vars => VolumeInv'
  BY NextVolumes
<1> QED
  BY <1>1, <1>2, PTL DEF Spec

\* A volume the CO was given is backed by a live disk of its name, of the
\* driver's type, as large as it was told (CreateVolume, ControllerExpandVolume).
THEOREM VolumesAreReal ==
  ASSUME NamesAreDistinct, NeverShrinks
  PROVE  Spec => []VolumeIsReal
<1>1. VolumeInv => VolumeIsReal
  BY DEF VolumeInv
<1> QED
  BY VolumeInvariant, <1>1, PTL

\* No two volumes share a disk (CreateVolume).
THEOREM VolumesShareNoDisk ==
  ASSUME NamesAreDistinct, NeverShrinks
  PROVE  Spec => []VolumesAreDistinct
<1>1. VolumeInv => VolumesAreDistinct
  BY DEF VolumeInv
<1> QED
  BY VolumeInvariant, <1>1, PTL

\* A volume reported as deleted is gone (DeleteVolume).
THEOREM DeletedVolumesAreGone ==
  ASSUME NamesAreDistinct, NeverShrinks
  PROVE  Spec => []DeletedIsGone
<1>1. VolumeInv => DeletedIsGone
  BY DEF VolumeInv
<1> QED
  BY VolumeInvariant, <1>1, PTL

-----------------------------------------------------------------------------
(* The size that is granted *)

\* No reply but that of a create or an expansion speaks of a size.
LEMMA QuietReply ==
  ASSUME lastReply'.code # "OK" \/ lastReply'.to.call \notin {"CreateVolume", "ExpandVolume"}
  PROVE  SizeIsGranted'
  BY DEF SizeIsGranted

\* A handler that speaks of a size grants what was asked for.
LEMMA HandlerGrants ==
  ASSUME VolumeInv, VolumeInv', NEW h \in Handlers, Handler(h)
  PROVE  SizeIsGranted'
<1>1. BaseInv /\ VolumesInv
  BY VolumeInvParts
<1>2. ASSUME NEW name \in VolumeNames, claims'[name].state = "bound"
      PROVE  CapacityOf(disks'[claims'[name].id]) >= claims'[name].capacity
  BY <1>2 DEF VolumeInv, VolumeIsReal
<1>3. CASE TellsCreated(h) /\ lastReply' = [to |-> req[h], code |-> "OK"]
  <2>1. PICK id, location, capacity :
          /\ req[h].call = "CreateVolume"
          /\ capacity >= RequestSizeToBytes(req[h].range)
          /\ claims' = [claims EXCEPT ![req[h].name] =
                          [state |-> "bound", id |-> id, location |-> location,
                           capacity |-> capacity]]
    BY <1>3 DEF TellsCreated
  <2>2. req[h].name \in VolumeNames
    BY <1>1, <2>1, HandlerFacts, CreateNames
  <2>3. claims'[req[h].name].capacity = capacity
    BY <1>1, <2>1, <2>2 DEF BaseInv, TypeOK
  <2> QED
    BY <1>2, <1>3, <2>1, <2>3 DEF SizeIsGranted
<1>4. CASE TellsDeleted(h)
  BY <1>4, QuietReply DEF TellsDeleted, DeleteSucceeds, Returns
<1>5. CASE TellsExpanded(h)
  <2>1. PICK capacity \in Int :
          /\ req[h].call = "ExpandVolume"
          /\ capacity >= RequestSizeToBytes(req[h].range)
          /\ ExpandSucceeds(h, capacity)
    BY <1>5 DEF TellsExpanded
  <2>2. lastReply' = [to |-> req[h], code |-> "OK"]
    BY <2>1 DEF ExpandSucceeds, Returns
  <2>3. ASSUME NEW name \in VolumeNames, claims'[name].state = "bound", claims'[name].id = req[h].id
        PROVE  claims'[name].capacity = capacity
    BY <1>1, <2>1, <2>3, ClaimStates DEF ExpandSucceeds, Claims
  <2> QED
    BY <1>2, <2>1, <2>2, <2>3 DEF SizeIsGranted
<1>6. CASE TellsNothing(h)
  BY <1>6, QuietReply DEF TellsNothing
<1> QED
  BY <1>1, <1>3, <1>4, <1>5, <1>6, HandlerTells

\* The size the CO asked for is the size it is granted (CreateVolume,
\* ControllerExpandVolume).
THEOREM SizesAreGranted ==
  ASSUME NamesAreDistinct, NeverShrinks
  PROVE  Spec => []SizeIsGranted
<1>1. Init => SizeIsGranted
  BY DEF Init, NoReply, SizeIsGranted
<1>2. VolumeInv /\ VolumeInv' /\ SizeIsGranted /\ [Next]_vars => SizeIsGranted'
  <2> SUFFICES ASSUME VolumeInv, VolumeInv', SizeIsGranted, [Next]_vars PROVE SizeIsGranted'
    OBVIOUS
  <2>1. NoReply.code # "OK"
    BY DEF NoReply
  <2>2. ASSUME NEW h \in Handlers, Begins(h) PROVE SizeIsGranted'
    <3>1. lastReply' = NoReply
      BY <2>2
      DEF Begins, BeginCreate, BeginDelete, BeginPublish, BeginUnpublish, BeginExpand,
          BeginAttachment, Begin
    <3> QED
      BY <2>1, <3>1, QuietReply
  <2>3. ASSUME NEW h \in Handlers, Handler(h) PROVE SizeIsGranted'
    BY <2>3, HandlerGrants
  <2>4. CASE Restart \/ API
    BY <2>1, <2>4, QuietReply DEF Restart, API
  <2>5. CASE UNCHANGED vars
    BY <2>5 DEF vars, apiVars, coVars, SizeIsGranted
  <2> QED
    BY <2>2, <2>3, <2>4, <2>5 DEF Next
<1> QED
  BY <1>1, <1>2, VolumeInvariant, PTL DEF Spec

-----------------------------------------------------------------------------
(* Attachments, when the API protects nothing                              *)

\* A volume the CO has given up is not in use: it knows of no attachment, and
\* no handler works on one.
GivenUpIsUnused ==
    \A id \in DiskIds : ClaimIn(id, {"deleting", "deleted"}) => Unused(id)

\* So a deletion that runs takes nothing away.
LEMMA GivenUpIsSafe ==
  ASSUME BaseInv, VolumesInv, GivenUpIsUnused
  PROVE  DeletionsAreSafe
<1> SUFFICES ASSUME NEW c \in Handlers, Pending(c), ops[c].call.kind = "delete"
             PROVE  Unused(ops[c].call.id)
  BY DEF DeletionsAreSafe
<1>1. ops[c].call \in Calls
  BY DEF BaseInv, TypeOK, APITypeOK, Pending, NoOp, Operations
<1>2. ops[c].call.id \in DiskIds
  BY <1>1 DEF Calls
<1>3. Deletes(c, ops[c].call.id)
  BY DEF Deletes
<1> QED
  BY <1>2, <1>3 DEF VolumesInv, DeletionsAreKnown, GivenUpIsUnused

\* A disk of a volume the CO owns has not been given up under another name.
LEMMA OwnedIsNotGivenUp ==
  ASSUME BaseInv, VolumesInv, NEW id \in DiskIds, ClaimIn(id, {"bound"})
  PROVE  ~ClaimIn(id, {"deleting", "deleted"})
<1>1. PICK a \in VolumeNames : claims[a].state = "bound" /\ claims[a].id = id
  BY DEF ClaimIn
<1>2. Live(id)
  BY <1>1 DEF VolumesInv, VolumeIsReal
<1> SUFFICES ASSUME NEW b \in VolumeNames, claims[b].state \in {"deleting", "deleted"},
                    claims[b].id = id
             PROVE  FALSE
  BY DEF ClaimIn
<1>3. CASE claims[b].state = "deleting"
  BY <1>1, <1>3 DEF VolumesInv, VolumesAreDistinct
<1>4. CASE claims[b].state = "deleted"
  BY <1>2, <1>4 DEF VolumesInv, DeletedIsGone, Live
<1> QED
  BY <1>3, <1>4

\* A handler gives no volume up.
LEMMA HandlerGivesNothingUp ==
  ASSUME BaseInv, VolumesInv, NEW h \in Handlers, Handler(h),
         NEW id \in DiskIds, ClaimIn(id, {"deleting", "deleted"})'
  PROVE  ClaimIn(id, {"deleting", "deleted"})
<1>1. PICK name \in VolumeNames :
        claims'[name].state \in {"deleting", "deleted"} /\ claims'[name].id = id
  BY DEF ClaimIn
<1>2. claims[name].state \in {"deleting", "deleted"} /\ claims[name].id = id
  <2>1. CASE TellsCreated(h)
    BY <1>1, <2>1 DEF TellsCreated, BaseInv, TypeOK
  <2>2. CASE TellsDeleted(h)
    BY <1>1, <2>2, ClaimStates DEF TellsDeleted, DeleteSucceeds, Claims
  <2>3. CASE TellsExpanded(h)
    BY <1>1, <2>3, ClaimStates DEF TellsExpanded, ExpandSucceeds, Claims
  <2>4. CASE TellsNothing(h)
    BY <1>1, <2>4 DEF TellsNothing
  <2> QED
    BY <2>1, <2>2, <2>3, <2>4, HandlerTells
<1> QED
  BY <1>2 DEF ClaimIn

\* It works on what it has worked on, and tells of that only.
LEMMA HandlerKeepsUnused ==
  ASSUME BaseInv, NEW h \in Handlers, Handler(h), NEW id \in DiskIds, Unused(id)
  PROVE  Unused(id)' /\ \A n \in Nodes : view'[<<id, n>>] = view[<<id, n>>]
<1> SUFFICES ASSUME NEW n \in Nodes
             PROVE  view'[<<id, n>>] = view[<<id, n>>] /\ \A g \in Handlers : ~WorksOn(g, id, n)'
  BY DEF Unused
<1>1. Kinds(h)
  BY HandlerKind
<1>2. Active(h)
  BY <1>1 DEF Kinds, Decides, Starts, Quits, Tells, Active
<1>3. \A g \in Handlers : WorksOn(g, id, n)' => WorksOn(g, id, n)
  <2>1. \E l, r, o : Step(h, l, r, o) /\ r \in {req[h], NoRequest}
    BY <1>1 DEF Kinds, Decides, Starts, Quits, Tells
  <2>2. /\ req'[h] \in {req[h], NoRequest}
        /\ \A g \in Handlers : g # h => pc'[g] = pc[g] /\ req'[g] = req[g]
    BY <2>1, StepFacts
  <2> QED
    BY <1>2, <2>2 DEF WorksOn, Active, NoRequest
<1>4. view'[<<id, n>>] = view[<<id, n>>]
  <2>1. CASE UNCHANGED view
    BY <2>1
  <2>2. CASE \E known \in {"attached", "detached"} : Tells(h, known)
    <3>1. WorksOn(h, req[h].id, req[h].node)
      BY <1>2, <2>2 DEF Tells, WorksOn
    <3>2. <<req[h].id, req[h].node>> # <<id, n>>
      BY <3>1 DEF Unused
    <3> QED
      BY <2>2, <3>2 DEF Tells, BaseInv, TypeOK
  <2> QED
    BY <1>1, <2>1, <2>2 DEF Kinds, Decides, Starts, Quits, coVars
<1> QED
  BY <1>3, <1>4 DEF Unused

\* A request that begins puts only a volume to use that the CO owns.
LEMMA BeginKeepsUnused ==
  ASSUME BaseInv, NEW h \in Handlers, NEW r, Begin(h, r), NEW id \in DiskIds, Unused(id),
         r.call \in {"PublishVolume", "UnpublishVolume"} => r.id # id,
         \A n \in Nodes : view'[<<id, n>>] = view[<<id, n>>]
  PROVE  Unused(id)'
<1>1. /\ req'[h] = r
      /\ \A g \in Handlers : g # h => pc'[g] = pc[g] /\ req'[g] = req[g]
  BY DEF Begin, BaseInv, TypeOK
<1>2. \A g \in Handlers, n \in Nodes : WorksOn(g, id, n)' => WorksOn(g, id, n)
  BY <1>1 DEF WorksOn, Active
<1> QED
  BY <1>2 DEF Unused

LEMMA BeginsUnused ==
  ASSUME BaseInv, VolumesInv, GivenUpIsUnused, NEW h \in Handlers, Begins(h)
  PROVE  GivenUpIsUnused'
<1>1. ASSUME NEW r, Begin(h, r), UNCHANGED <<claims, view>>,
             r.call \notin {"PublishVolume", "UnpublishVolume"}
      PROVE  GivenUpIsUnused'
  BY <1>1, BeginKeepsUnused DEF GivenUpIsUnused, ClaimIn
<1>2. ASSUME NEW r \in Requests, BeginAttachment(h, r), ClaimIn(r.id, {"bound"}),
             r.call \in {"PublishVolume", "UnpublishVolume"}
      PROVE  GivenUpIsUnused'
  <2> SUFFICES ASSUME NEW id \in DiskIds, ClaimIn(id, {"deleting", "deleted"})
               PROVE  Unused(id)'
    BY <1>2 DEF GivenUpIsUnused, ClaimIn, BeginAttachment
  <2>1. Begin(h, r) /\ view' = [view EXCEPT ![<<r.id, r.node>>] = "unknown"]
    BY <1>2 DEF BeginAttachment
  <2>2. r.id # id
    BY <1>2, OwnedIsNotGivenUp
  <2>3. \A n \in Nodes : view'[<<id, n>>] = view[<<id, n>>]
    BY <2>1, <2>2 DEF BaseInv, TypeOK
  <2> QED
    BY <2>1, <2>2, <2>3, BeginKeepsUnused DEF GivenUpIsUnused
<1>3. ASSUME NEW name \in VolumeNames, BeginDelete(h, name)
      PROVE  GivenUpIsUnused'
  <2> DEFINE id0 == claims[name].id
             r == [call |-> "DeleteVolume", id |-> id0]
  <2>1. /\ Begin(h, r) /\ UNCHANGED view
        /\ claims[name].state # "none"
        /\ claims' = [claims EXCEPT ![name].state = IF @ = "bound" THEN "deleting" ELSE @]
        /\ \A n \in Nodes : view[<<id0, n>>] # "attached"
        /\ \A g \in Handlers : Active(g) /\ req[g].call \in {"PublishVolume", "UnpublishVolume"}
                                 => req[g].id # id0
    BY <1>3 DEF BeginDelete
  <2>2. Unused(id0)
    BY <2>1 DEF Unused, WorksOn
  <2>3. ASSUME NEW id \in DiskIds, ClaimIn(id, {"deleting", "deleted"})', id # id0
        PROVE  ClaimIn(id, {"deleting", "deleted"})
    BY <2>1, <2>3, ClaimStates DEF ClaimIn, BaseInv, TypeOK, Claims
  <2> QED
    BY <2>1, <2>2, <2>3, BeginKeepsUnused DEF GivenUpIsUnused
<1>4. ASSUME NEW r \in CreateRequests, BeginCreate(h, r) PROVE GivenUpIsUnused'
  BY <1>1, <1>4 DEF BeginCreate, CreateVolumeRequest, coVars
<1>5. ASSUME NEW id \in DiskIds, NEW n \in Nodes, NEW mode \in PublishModes,
             BeginPublish(h, id, n, mode)
      PROVE  GivenUpIsUnused'
  <2> DEFINE r == [call |-> "PublishVolume", id |-> id, node |-> n, mode |-> mode]
  <2>1. r \in Requests
    BY DEF Requests
  <2> QED
    BY <1>2, <1>5, <2>1 DEF BeginPublish
<1>6. ASSUME NEW id \in DiskIds, NEW n \in Nodes, BeginUnpublish(h, id, n)
      PROVE  GivenUpIsUnused'
  <2> DEFINE r == [call |-> "UnpublishVolume", id |-> id, node |-> n]
  <2>1. r \in Requests
    BY DEF Requests
  <2> QED
    BY <1>2, <1>6, <2>1 DEF BeginUnpublish
<1>7. ASSUME NEW id \in DiskIds, NEW range \in ExpandRanges, BeginExpand(h, id, range)
      PROVE  GivenUpIsUnused'
  BY <1>1, <1>7 DEF BeginExpand, coVars
<1> QED
  BY <1>3, <1>4, <1>5, <1>6, <1>7 DEF Begins

\* What is given up stays unused.
LEMMA NextUnused ==
  ASSUME BaseInv, VolumesInv, GivenUpIsUnused, [Next]_vars
  PROVE  GivenUpIsUnused'
<1>1. ASSUME NEW h \in Handlers, Begins(h) PROVE GivenUpIsUnused'
  BY <1>1, BeginsUnused
<1>2. ASSUME NEW h \in Handlers, Handler(h) PROVE GivenUpIsUnused'
  BY <1>2, HandlerGivesNothingUp, HandlerKeepsUnused DEF GivenUpIsUnused
<1>3. CASE Restart
  BY <1>3 DEF Restart, coVars, GivenUpIsUnused, ClaimIn, Unused, WorksOn, Active
<1>4. CASE API \/ UNCHANGED vars
  BY <1>4 DEF API, vars, driverVars, coVars, GivenUpIsUnused, ClaimIn, Unused, WorksOn, Active
<1> QED
  BY <1>1, <1>2, <1>3, <1>4 DEF Next

\* What VolumeInv says of volumes and AttachmentInv of attachments holds together.
LEMMA UnprotectedInvariant ==
  ASSUME NamesAreDistinct, NeverShrinks
  PROVE  Spec => [](VolumeInv /\ AttachmentInv /\ GivenUpIsUnused)
<1> DEFINE Inv == VolumeInv /\ AttachmentInv /\ GivenUpIsUnused
<1>1. Init => Inv
  <2>1. Init => GivenUpIsUnused
    BY DEF Init, NoClaim, GivenUpIsUnused, ClaimIn
  <2> QED
    BY <2>1, InitBase, InitVolumes, InitKnowledge, VolumeInvParts, AttachmentInvParts
<1>2. Inv /\ [Next]_vars => Inv'
  <2> SUFFICES ASSUME Inv, [Next]_vars PROVE Inv'
    OBVIOUS
  <2>1. BaseInv /\ VolumesInv
    BY VolumeInvParts
  <2>2. DeletionsAreSafe
    BY <2>1, GivenUpIsSafe
  <2> QED
    BY <2>1, <2>2, NextVolumes, NextKnowledge, NextUnused
<1> QED
  BY <1>1, <1>2, PTL DEF Spec

\* What the CO was told about an attachment stays true, also when the API would
\* delete a disk in use: the CO deletes a volume only when it knows of no
\* attachment and asks for none (ControllerPublishVolume, DeleteVolume).
THEOREM AttachmentsNeedNoProtection ==
  ASSUME NamesAreDistinct, NeverShrinks
  PROVE  Spec => []AttachmentViewIsTrue
<1>1. AttachmentInv => AttachmentViewIsTrue
  BY DEF AttachmentInv
<1> QED
  BY <1>1, UnprotectedInvariant, PTL

-----------------------------------------------------------------------------
(* An operation that ends, as one disk and one node see it.  The composition *)
(* with the node service (VolumeLifecycleProofs) rests on this.              *)

LEMMA OperationMoves ==
  ASSUME BaseInv, NeverShrinks, NEW c \in Handlers, TakesEffect(c) \/ OperationFails(c),
         NEW id \in DiskIds, NEW n \in Nodes,
         Deletes(c, id) => attachments[<<id, n>>] = "none"
  PROVE  LET before == attachments[<<id, n>>]
             after  == attachments'[<<id, n>>]
         IN  \/ (Live(id)' <=> Live(id)) /\ after = before
             \/ disks[id] = NoDisk /\ after = before
             \/ Deletes(c, id) /\ Live(id) /\ ~Live(id)' /\ before = "none" /\ after = "none"
             \/ Runs(c, "attach", id, n) /\ Live(id) /\ Live(id)' /\ before = "none"
             \/ Runs(c, "detach", id, n) /\ (Live(id)' <=> Live(id)) /\ before # "none" /\ after = "none"
<1> DEFINE before == attachments[<<id, n>>]
           after  == attachments'[<<id, n>>]
<1>1. attachments \in [DiskIds \X Nodes -> {"none"} \cup AttachModes]
  BY DEF BaseInv, TypeOK, APITypeOK
<1>2. Pending(c)
  BY OperationEnds
<1>3. CASE CreateTakesEffect(c) \/ ResizeTakesEffect(c) \/ OperationFails(c)
  <2>1. after = before
    BY <1>3 DEF CreateTakesEffect, ResizeTakesEffect, OperationFails
  <2>2. ops[c].call.kind # "delete" \/ disks' = disks
    BY <1>3 DEF CreateTakesEffect, ResizeTakesEffect, OperationFails
  <2>3. (Live(id)' <=> Live(id)) \/ disks[id] = NoDisk
    BY <2>2, DisksGrow DEF Keeps, Live
  <2> QED
    BY <2>1, <2>3
<1>4. CASE DeleteTakesEffect(c)
  <2>1. CASE id = ops[c].call.id
    <3>1. Live(id) /\ Deletes(c, id)
      BY <1>2, <1>4, <2>1 DEF DeleteTakesEffect, Deletes
    <3>2. disks'[id] = DeletedDisk /\ after = "none"
      BY <1>1, <1>4, <2>1 DEF DeleteTakesEffect, BaseInv, TypeOK, APITypeOK
    <3>3. before = "none"
      BY <3>1
    <3> QED
      BY <3>1, <3>2, <3>3 DEF Live
  <2>2. CASE id # ops[c].call.id
    BY <1>1, <1>4, <2>2 DEF DeleteTakesEffect, Live
  <2> QED
    BY <2>1, <2>2
<1>5. CASE AttachTakesEffect(c)
  BY <1>1, <1>2, <1>5 DEF AttachTakesEffect, Live, Runs
<1>6. CASE DetachTakesEffect(c)
  BY <1>1, <1>2, <1>6 DEF DetachTakesEffect, Live, Runs
<1> QED
  BY <1>3, <1>4, <1>5, <1>6 DEF TakesEffect

\* The rest of the driver changes neither disks nor attachments.
LEMMA DriverMovesNothing ==
  ASSUME BaseInv, Restart \/ \E h \in Handlers : Begins(h) \/ Handler(h)
  PROVE  UNCHANGED <<disks, attachments>>
<1>1. ASSUME NEW h \in Handlers, Begins(h) PROVE UNCHANGED <<disks, attachments>>
  BY <1>1
  DEF Begins, BeginCreate, BeginDelete, BeginPublish, BeginUnpublish, BeginExpand,
      BeginAttachment, Begin, apiVars
<1>2. ASSUME NEW h \in Handlers, Handler(h) PROVE UNCHANGED <<disks, attachments>>
  BY <1>2, HandlerKind DEF Kinds, Decides, Starts, Quits, Tells, Step
<1> QED
  BY <1>1, <1>2 DEF Restart

-----------------------------------------------------------------------------
(* The place of a volume.  The driver reports where the request asked for    *)
(* the disk, whether it made the disk or found it: a disk is made there, and *)
(* one that is found is accepted there or where the controller runs.         *)

Place(r) == ParseRequiredTopology(r.topology, DiskType, HostLocation)

\* The request is valid, and there is a place for its disk.
Servable(r) ==
    /\ ValidateDiskRequest(r, DiskType) = "OK"
    /\ DiskType = FS => Place(r) # NoLocation

CreatorsCanBeServed ==
    \A h \in Handlers :
        pc[h] \in {"send", "await"} /\ req[h].call = "CreateVolume" => CanBeServed(h)

PlaceInv == CreatorsCanBeServed /\ PlaceIsTold

LEMMA InitPlaces == Init => PlaceInv
  BY DEF Init, PlaceInv, CreatorsCanBeServed, PlaceIsTold, NoClaim

\* No request is beyond its first query when it begins.
LEMMA BeginPlaces ==
  ASSUME BaseInv, PlaceInv, NEW h \in Handlers, Begins(h)
  PROVE  PlaceInv'
<1>1. UNCHANGED <<disks, ops>>
  BY DEF Begins, BeginCreate, BeginDelete, BeginPublish, BeginUnpublish, BeginExpand,
         BeginAttachment, Begin, apiVars
<1>2. /\ pc'[h] = "find"
      /\ \A g \in Handlers : g # h => pc'[g] = pc[g] /\ req'[g] = req[g]
  BY DEF Begins, BeginCreate, BeginDelete, BeginPublish, BeginUnpublish, BeginExpand,
         BeginAttachment, Begin, BaseInv, TypeOK
<1>3. \A name \in VolumeNames : claims'[name].state = "bound" => claims'[name] = claims[name]
  <2>1. CASE UNCHANGED claims
    BY <2>1
  <2>2. ASSUME NEW name \in VolumeNames, BeginDelete(h, name)
        PROVE  \A n \in VolumeNames : claims'[n].state = "bound" => claims'[n] = claims[n]
    BY <2>2, ClaimStates DEF BeginDelete, BaseInv, TypeOK, Claims
  <2> QED
    BY <2>1, <2>2
    DEF Begins, BeginCreate, BeginPublish, BeginUnpublish, BeginExpand, BeginAttachment, coVars
<1>4. CreatorsCanBeServed'
  BY <1>2 DEF PlaceInv, CreatorsCanBeServed, CanBeServed, Placeable, DiskLocation
<1> QED
  BY <1>1, <1>3, <1>4
  DEF PlaceInv, PlaceIsTold

\* A request that goes on can be served.
LEMMA GoingOnCanBeServed ==
  ASSUME BaseInv, PlaceInv, NEW h \in Handlers, Handler(h), req[h].call = "CreateVolume"
  PROVE  pc'[h] # "idle" => CanBeServed(h)
<1>1. pc[h] \in {"send", "await"} => CanBeServed(h)
  BY DEF PlaceInv, CreatorsCanBeServed
<1>2. CASE pc[h] = "find"
  <2>1. QueryFails(h) \/ Finds(h)
    BY <1>2 DEF Handler, Sends, SendFails, AwaitSucceeds, AwaitFails, CreateDone, DeleteDone,
                PublishDone, UnpublishDone, ExpandDone, Awaited
  <2>2. CASE CreateFindsNothing(h)
    BY <2>2 DEF CreateFindsNothing, CreateValid, CanBeServed
  <2>3. CASE QueryFails(h) \/ CreateInvalid(h) \/ CreateUnplaceable(h) \/ CreateConflicts(h)
               \/ CreateFindsDisk(h)
    BY <2>3
    DEF QueryFails, CreateInvalid, CreateUnplaceable, CreateConflicts, CreateFindsDisk,
        CreateSucceeds, ReturnsError, Returns, BaseInv, TypeOK
  <2> QED
    BY <2>1, <2>2, <2>3
    DEF Finds, Finding, DeleteFindsNothing, DeleteFindsInUse, DeleteFindsDisk,
        PublishFindsNoInstance, PublishFindsAttached, PublishFindsDetached,
        UnpublishFindsDetached, UnpublishFindsAttached, ExpandFindsNothing, ExpandFindsInUse,
        ExpandInvalid, ExpandFindsLargeEnough, ExpandFindsSmaller, ExpandValid, ExpandAllowed
<1>3. pc[h] \in {"idle", "find", "send", "await"} /\ pc[h] # "idle"
  BY HandlerSteps DEF BaseInv, TypeOK, Active
<1> QED
  BY <1>1, <1>2, <1>3

\* The creation of a handler is that of its request, which can be served.
LEMMA CreationOfHandler ==
  ASSUME BaseInv, PlaceInv, NEW h \in Handlers, Handler(h),
         Pending(h)', ops'[h].call.kind = "create"
  PROVE  /\ req[h].call = "CreateVolume" /\ CanBeServed(h)
         /\ ops'[h].call.disk = GetCreateDiskRequest(req[h], DiskLocation(h), DiskType)
<1>1. /\ Active(h) /\ req[h] \in Requests /\ req[h] # NoRequest
      /\ ops'[h].call = APICall(h)
  BY HandlerSteps
<1>2. req[h].call = "CreateVolume"
  BY <1>1, CallKinds
<1>3. pc[h] # "find"
  <2>1. ASSUME pc[h] = "find" PROVE ops[h] = NoOp /\ (QueryFails(h) \/ Finds(h))
    BY <2>1, HandlerFacts
    DEF Handler, Sends, SendFails, AwaitSucceeds, AwaitFails, CreateDone, DeleteDone,
        PublishDone, UnpublishDone, ExpandDone, Awaited
  <2>2. ASSUME QueryFails(h) \/ Finds(h) PROVE UNCHANGED ops
    BY <2>2
    DEF QueryFails, Finds, CreateInvalid, CreateUnplaceable, CreateConflicts, CreateFindsDisk,
        CreateFindsNothing, DeleteFindsNothing, DeleteFindsInUse, DeleteFindsDisk,
        PublishFindsNoInstance, PublishFindsAttached, PublishFindsDetached,
        UnpublishFindsDetached, UnpublishFindsAttached, ExpandFindsNothing, ExpandFindsInUse,
        ExpandInvalid, ExpandFindsLargeEnough, ExpandFindsSmaller, GoesOn, apiVars
  <2> QED
    BY <2>1, <2>2 DEF Pending, NoOp
<1>4. CanBeServed(h)
  BY <1>1, <1>2, <1>3 DEF PlaceInv, CreatorsCanBeServed, BaseInv, TypeOK, Active
<1> QED
  BY <1>1, <1>2, <1>4 DEF APICall

LEMMA HandlerPlaces ==
  ASSUME BaseInv, VolumesInv, PlaceInv, NEW h \in Handlers, Handler(h)
  PROVE  PlaceInv'
<1>1. /\ Active(h) /\ req[h] \in Requests /\ req[h] # NoRequest
      /\ UNCHANGED disks
      /\ \A g \in Handlers : g # h => pc'[g] = pc[g] /\ req'[g] = req[g]
      /\ req'[h] \in {req[h], NoRequest}
  BY HandlerSteps
<1>2. CreatorsCanBeServed'
  <2>1. ASSUME NEW g \in Handlers, g # h, pc'[g] \in {"send", "await"},
               req'[g].call = "CreateVolume"
        PROVE  CanBeServed(g)'
    BY <1>1, <2>1 DEF PlaceInv, CreatorsCanBeServed, CanBeServed, Placeable, DiskLocation
  <2>2. ASSUME pc'[h] \in {"send", "await"}, req'[h].call = "CreateVolume"
        PROVE  CanBeServed(h)'
    <3>1. req'[h] = req[h]
      BY <1>1, <2>2 DEF NoRequest
    <3>2. CanBeServed(h)
      BY <2>2, <3>1, GoingOnCanBeServed
    <3> QED
      BY <3>1, <3>2 DEF CanBeServed, Placeable, DiskLocation
  <2> QED
    BY <2>1, <2>2 DEF CreatorsCanBeServed
<1>3. PlaceIsTold'
  <2>1. CASE TellsCreated(h)
    <3>1. PICK id, capacity :
            /\ req[h].call = "CreateVolume"
            /\ disks[id].location \in {DiskLocation(h), HostLocation}
            /\ claims' = [claims EXCEPT ![req[h].name] =
                            [state |-> "bound", id |-> id, location |-> DiskLocation(h),
                             capacity |-> capacity]]
      BY <2>1 DEF TellsCreated
    <3>2. PICK r \in CreateRequests : req[h] = CreateVolumeRequest(r)
      BY <1>1, <3>1, RequestFields
    <3>3. /\ req[h].name = r.name
          /\ DiskLocation(h) = ParseRequiredTopology(r.topology, DiskType, HostLocation)
      BY <3>2 DEF CreateVolumeRequest, DiskLocation
    <3> QED
      BY <1>1, <3>1, <3>3 DEF BaseInv, TypeOK, PlaceInv, PlaceIsTold
  <2>2. CASE TellsDeleted(h)
    BY <1>1, <2>2, ClaimStates DEF TellsDeleted, DeleteSucceeds, PlaceInv, PlaceIsTold, Claims
  <2>3. CASE TellsExpanded(h)
    BY <1>1, <2>3, ClaimStates DEF TellsExpanded, ExpandSucceeds, PlaceInv, PlaceIsTold, Claims
  <2>4. CASE TellsNothing(h)
    BY <1>1, <2>4 DEF TellsNothing, PlaceInv, PlaceIsTold
  <2> QED
    BY <2>1, <2>2, <2>3, <2>4, HandlerTells
<1> QED
  BY <1>2, <1>3 DEF PlaceInv

\* A disk stays where it was created.
LEMMA DisksStay ==
  ASSUME BaseInv, NEW c \in Handlers, TakesEffect(c) \/ OperationFails(c),
         NEW id \in DiskIds, Live(id)'
  PROVE  \/ /\ Live(id)
            /\ disks'[id].name = disks[id].name /\ disks'[id].location = disks[id].location
         \/ /\ disks[id] = NoDisk
            /\ \/ disks'[id] = NoDisk
               \/ /\ Pending(c) /\ ops[c].call.kind = "create"
                  /\ disks'[id].name = ops[c].call.disk.name
                  /\ disks'[id].location = ops[c].call.disk.location
<1> USE DEF BaseInv, TypeOK, APITypeOK
<1>1. CASE disks'[id] = disks[id]
  BY <1>1 DEF Live
<1>2. CASE CreateTakesEffect(c)
  <2>1. ops[c].call \in Calls
    BY OperationEnds
  <2>2. ops[c].call.disk \in Disks
    BY <1>2, <2>1 DEF CreateTakesEffect, Calls
  <2> QED
    BY <1>1, <1>2, <2>2 DEF CreateTakesEffect, Disks
<1>3. CASE DeleteTakesEffect(c)
  BY <1>1, <1>3 DEF DeleteTakesEffect, Live
<1>4. CASE AttachTakesEffect(c) \/ DetachTakesEffect(c) \/ OperationFails(c)
  BY <1>1, <1>4 DEF AttachTakesEffect, DetachTakesEffect, OperationFails
<1>5. CASE ResizeTakesEffect(c)
  <2>1. CASE id = ops[c].call.id
    <3>1. Live(id) /\ disks[id] \in Disks
      BY <1>5, <2>1 DEF ResizeTakesEffect, Live
    <3> QED
      BY <1>5, <2>1, <3>1 DEF ResizeTakesEffect, Disks
  <2>2. CASE id # ops[c].call.id
    BY <1>1, <1>5, <2>2 DEF ResizeTakesEffect
  <2> QED
    BY <2>1, <2>2
<1> QED
  BY <1>2, <1>3, <1>4, <1>5 DEF TakesEffect

LEMMA OperationPlaces ==
  ASSUME BaseInv, VolumesInv, VolumesInv', PlaceInv, UNCHANGED <<driverVars, coVars>>,
         NEW c \in Handlers, TakesEffect(c) \/ OperationFails(c)
  PROVE  PlaceInv'
<1>1. CreatorsCanBeServed'
  BY DEF PlaceInv, CreatorsCanBeServed, CanBeServed, Placeable, DiskLocation, driverVars
<1>2. ASSUME NEW name \in VolumeNames, claims[name].state = "bound"
      PROVE  disks'[claims[name].id].location = disks[claims[name].id].location
  <2>1. PICK id \in DiskIds : id = claims[name].id
    BY <1>2, ClaimStates
  <2>2. Live(id) /\ Live(id)'
    BY <1>2, <2>1 DEF VolumesInv, VolumeIsReal, coVars, Live
  <2> QED
    BY <2>1, <2>2, DisksStay DEF Live
<1>3. PlaceIsTold'
  BY <1>2 DEF PlaceInv, PlaceIsTold, coVars
<1> QED
  BY <1>1, <1>3 DEF PlaceInv

LEMMA NextPlaces ==
  VolumeInv /\ VolumeInv' /\ PlaceInv /\ [Next]_vars => PlaceInv'
<1> SUFFICES ASSUME VolumeInv, VolumeInv', PlaceInv, [Next]_vars PROVE PlaceInv'
  OBVIOUS
<1>1. BaseInv /\ VolumesInv /\ VolumesInv'
  BY DEF VolumeInv, BaseInv, VolumesInv
<1>2. ASSUME NEW h \in Handlers, Begins(h) \/ Handler(h) PROVE PlaceInv'
  BY <1>1, <1>2, BeginPlaces, HandlerPlaces
<1>3. CASE Restart
  BY <1>3 DEF Restart, PlaceInv, CreatorsCanBeServed, PlaceIsTold, coVars
<1>4. ASSUME NEW c \in Handlers, TakesEffect(c) \/ OperationFails(c), UNCHANGED <<driverVars, coVars>>
      PROVE  PlaceInv'
  BY <1>1, <1>4, OperationPlaces
<1>5. ASSUME UNCHANGED <<disks, driverVars, coVars>> PROVE PlaceInv'
  BY <1>5
  DEF driverVars, coVars, PlaceInv, CreatorsCanBeServed, PlaceIsTold, CanBeServed, Placeable,
      DiskLocation
<1>6. CASE API
  BY <1>4, <1>5, <1>6 DEF API, APINext, DeleteInstance
<1> QED
  BY <1>2, <1>3, <1>5, <1>6 DEF Next, vars, apiVars

LEMMA PlaceInvariant ==
  ASSUME NamesAreDistinct, NeverShrinks
  PROVE  Spec => []PlaceInv
<1>1. Init => PlaceInv
  BY InitPlaces
<1>2. VolumeInv /\ VolumeInv' /\ PlaceInv /\ [Next]_vars => PlaceInv'
  BY NextPlaces
<1> QED
  BY <1>1, <1>2, VolumeInvariant, PTL DEF Spec

\* A volume is reported in the place its disk is in, except that a disk which
\* was found where the controller runs is reported where a request for the
\* volume asked for it (CreateVolume, CheckDiskMatchesRequest).
THEOREM PlacesAreAsTold ==
  ASSUME NamesAreDistinct, NeverShrinks
  PROVE  Spec => []PlaceIsTold
<1>1. PlaceInv => PlaceIsTold
  BY DEF PlaceInv
<1> QED
  BY <1>1, PlaceInvariant, PTL

-----------------------------------------------------------------------------
(* Why a creation can be repeated.  A call that failed, was abandoned or was *)
(* lost may have made the disk; the next one has to know it again.  It does, *)
(* as long as nothing but the creations of the volume has shaped the disk:   *)
(* until the CO has the volume, nobody can ask to expand it.                 *)

\* The disk is what a request of its name asks for, if that can be served.
AsAsked(d, r) ==
    d.name = DiskName(r.name) /\ Servable(r)
        => CheckDiskMatchesRequest(d, r, HostLocation, DiskType)

\* Disks are asked for where the controller runs.
PlacesAreHere == \A r \in CreateRequests : Servable(r) => Place(r) = HostLocation

\* The requests for a volume ask for one size, where the controller runs, and
\* a disk of its name that was there before the driver is such a disk.
RequestsAgree ==
    /\ PlacesAreHere
    /\ \A r, q \in CreateRequests :
         r.name = q.name /\ Servable(r) /\ Servable(q)
           => RequestSizeToGiB(r.range) = RequestSizeToGiB(q.range)
    /\ \A before \in InitialDisks, id \in DiskIds, r \in CreateRequests :
         before[id] \in Disks => AsAsked(before[id], r)

\* The disk a volume the CO does not have may find is as asked, ...
DisksAreAsAsked ==
    \A id \in DiskIds, r \in CreateRequests :
        Live(id) /\ claims[r.name].state = "none" => AsAsked(disks[id], r)

\* ... so are those that are being created, ...
CreationsAreAsAsked ==
    \A c \in Handlers, r \in CreateRequests :
        Pending(c) /\ ops[c].call.kind = "create" => AsAsked(ops[c].call.disk, r)

\* ... and a disk that is expanded has the name of a volume the CO was given.
IsGiven(id) ==
    /\ disks[id] # NoDisk
    /\ Live(id) => \E name \in VolumeNames :
                      claims[name].state # "none" /\ disks[id].name = DiskName(name)

Resizes(h, id) ==
    \/ Active(h) /\ req[h].call = "ExpandVolume" /\ req[h].id = id
    \/ Pending(h) /\ ops[h].call.kind = "resize" /\ ops[h].call.id = id

ResizesAreKnown == \A h \in Handlers, id \in DiskIds : Resizes(h, id) => IsGiven(id)

RetryInv ==
    /\ DisksAreAsAsked
    /\ CreationsAreAsAsked
    /\ ResizesAreKnown
    /\ RetriesAreNotRefused

\* The size of a valid request is a size.
LEMMA ServableSize ==
  ASSUME NEW r \in CreateRequests, Servable(r)
  PROVE  RequestSizeToGiB(r.range) # SizeError
<1> DEFINE bytes == RequestSizeToBytes(r.range)
<1>1. bytes \in Int
  BY ControllerAssumption DEF RequestSizeToBytes, CapacityRanges
<1>2. bytes >= 0
  <2>1. bytes >= MinSize(DiskType)
    <3>1. ~(bytes < MinSize(DiskType))
      BY DEF Servable, ValidateDiskRequest
    <3>2. MinSize(DiskType) \in Int
      BY UnitsAssumption DEF MinSize
    <3> QED
      BY <1>1, <3>1, <3>2
  <2>2. MinSize(DiskType) \in Nat
    <3>1. ASSUME NEW m \in Nat, NEW n \in Nat PROVE m * n \in Nat
      BY <3>1
    <3> QED
      BY <3>1, UnitsAssumption DEF MinSize
  <2> QED
    BY <1>1, <2>1, <2>2
<1>3. NumBytesInGiB * CeilGiB(bytes) >= bytes
  BY <1>1, CeilIsEnough
<1> HIDE DEF bytes
<1>4. CeilGiB(bytes) # -1
  BY <1>1, <1>2, <1>3, UnitsAssumption
<1> QED
  BY <1>4 DEF bytes, RequestSizeToGiB, SizeError

\* A disk like one that is as asked is as asked, however its size is worded.
LEMMA AlikeIsAsAsked ==
  ASSUME NEW r, NEW d, NEW e, AsAsked(d, r),
         e.name = d.name, e.type = d.type, e.location = d.location,
         e.blockSize = d.blockSize,
         NormalizeDiskSizeToGiB(e.size) = NormalizeDiskSizeToGiB(d.size)
  PROVE  AsAsked(e, r)
  BY DEF AsAsked, CheckDiskMatchesRequest

\* What one request for a volume has made, every other one accepts.
LEMMA RequestedIsAsAsked ==
  ASSUME NamesAreDistinct, RequestsAgree, NEW r \in CreateRequests, NEW q \in CreateRequests,
         Servable(q)
  PROVE  AsAsked(GetCreateDiskRequest(q, Place(q), DiskType), r)
<1> DEFINE d == GetCreateDiskRequest(q, Place(q), DiskType)
<1>1. /\ d.name = DiskName(q.name) /\ d.type = DiskType
      /\ NormalizeDiskSizeToGiB(d.size) = RequestSizeToGiB(q.range)
      /\ d.type = SSD => d.blockSize = BlockSizeSSD
      /\ d.location = HostLocation
  BY DEF GetCreateDiskRequest, NormalizeDiskSizeToGiB, RequestsAgree, PlacesAreHere
<1> HIDE DEF d
<1> SUFFICES ASSUME d.name = DiskName(r.name), Servable(r)
             PROVE  CheckDiskMatchesRequest(d, r, HostLocation, DiskType)
  BY DEF AsAsked, d
<1>2. r.name = q.name
  BY <1>1 DEF NamesAreDistinct, VolumeNames
<1>3. RequestSizeToGiB(r.range) = RequestSizeToGiB(q.range)
  BY <1>2 DEF RequestsAgree
<1>4. RequestSizeToGiB(r.range) # SizeError
  BY ServableSize
<1> QED
  BY <1>1, <1>3, <1>4 DEF CheckDiskMatchesRequest

\* Only a disk that does not match is answered with AlreadyExists.
LEMMA RefusalIsConflict ==
  ASSUME NEW h \in Handlers, Handler(h), lastReply'.code = "AlreadyExists"
  PROVE  CreateConflicts(h) /\ lastReply'.to = req[h]
<1>1. ASSUME NEW code, Returns(h, code) PROVE code = "AlreadyExists" /\ lastReply'.to = req[h]
  BY <1>1 DEF Returns
<1>2. ~GoesOn(h) /\ ~Sends(h)
  BY DEF GoesOn, Sends, NoReply
<1>3. ~QueryFails(h) /\ ~SendFails(h) /\ ~AwaitFails(h)
  BY <1>1 DEF QueryFails, SendFails, AwaitFails, ReturnsError
<1>4. ~Returns(h, "OK")
  BY <1>1
<1>5. ~AwaitSucceeds(h)
  BY <1>4
  DEF AwaitSucceeds, CreateDone, DeleteDone, PublishDone, UnpublishDone, ExpandDone,
      CreateSucceeds, DeleteSucceeds, AttachmentSucceeds, ExpandSucceeds
<1>6. Finds(h)
  BY <1>2, <1>3, <1>5 DEF Handler
<1>7. ~CreateInvalid(h) /\ ~ExpandInvalid(h)
  BY <1>1 DEF CreateInvalid, ExpandInvalid, ReturnsError, ValidateDiskRequest, ValidateExpandRequest
<1>8. ~CreateUnplaceable(h) /\ ~DeleteFindsInUse(h) /\ ~PublishFindsNoInstance(h)
        /\ ~ExpandFindsNothing(h) /\ ~ExpandFindsInUse(h)
  BY <1>1
  DEF CreateUnplaceable, DeleteFindsInUse, PublishFindsNoInstance, ExpandFindsNothing,
      ExpandFindsInUse, ReturnsError
<1>9. ~CreateFindsDisk(h) /\ ~DeleteFindsNothing(h) /\ ~PublishFindsAttached(h)
        /\ ~UnpublishFindsDetached(h) /\ ~ExpandFindsLargeEnough(h)
  BY <1>4
  DEF CreateFindsDisk, DeleteFindsNothing, PublishFindsAttached, UnpublishFindsDetached,
      ExpandFindsLargeEnough, CreateSucceeds, DeleteSucceeds, AttachmentSucceeds, ExpandSucceeds
<1>10. CreateConflicts(h)
  BY <1>2, <1>6, <1>7, <1>8, <1>9
  DEF Finds, CreateFindsNothing, DeleteFindsDisk, PublishFindsDetached, UnpublishFindsAttached,
      ExpandFindsSmaller
<1> QED
  BY <1>1, <1>10 DEF CreateConflicts, ReturnsError

\* A volume the CO has been given stays one it was given.
LEMMA HandlerKeepsClaims ==
  ASSUME BaseInv, VolumesInv, NEW h \in Handlers, Handler(h), NEW name \in VolumeNames,
         claims[name].state # "none"
  PROVE  claims'[name].state # "none"
<1>1. claims \in [VolumeNames -> {NoClaim} \cup Claims]
  BY DEF BaseInv, TypeOK
<1>2. CASE TellsCreated(h)
  BY <1>1, <1>2 DEF TellsCreated
<1>3. CASE TellsDeleted(h)
  BY <1>1, <1>3, ClaimStates DEF TellsDeleted, DeleteSucceeds, Claims
<1>4. CASE TellsExpanded(h)
  BY <1>1, <1>4, ClaimStates DEF TellsExpanded, ExpandSucceeds, Claims
<1>5. CASE TellsNothing(h)
  BY <1>5 DEF TellsNothing
<1> QED
  BY <1>2, <1>3, <1>4, <1>5, HandlerTells

LEMMA InitRetries == RequestsAgree /\ Init => RetryInv
<1> SUFFICES ASSUME RequestsAgree, Init PROVE RetryInv
  OBVIOUS
<1>1. \A id \in DiskIds : Live(id) => disks[id] \in Disks
  BY InitBase DEF BaseInv, TypeOK, APITypeOK, Live
<1>2. DisksAreAsAsked
  BY <1>1 DEF Init, APIInit, RequestsAgree, DisksAreAsAsked
<1>3. CreationsAreAsAsked /\ ResizesAreKnown /\ RetriesAreNotRefused
  BY DEF Init, APIInit, CreationsAreAsAsked, ResizesAreKnown, Resizes, Active,
         RetriesAreNotRefused, Pending, NoOp, NoReply
<1> QED
  BY <1>2, <1>3 DEF RetryInv

\* An expansion begins for a volume the CO has.
LEMMA BeginRetries ==
  ASSUME BaseInv, VolumesInv, RetryInv, NEW h \in Handlers, Begins(h)
  PROVE  RetryInv'
<1>1. /\ UNCHANGED <<disks, ops>>
      /\ lastReply' = NoReply
      /\ \A g \in Handlers : g # h => pc'[g] = pc[g] /\ req'[g] = req[g]
  BY DEF Begins, BeginCreate, BeginDelete, BeginPublish, BeginUnpublish, BeginExpand,
         BeginAttachment, Begin, apiVars, BaseInv, TypeOK
<1>2. \A name \in VolumeNames : claims'[name].state = "none" <=> claims[name].state = "none"
  <2>1. CASE UNCHANGED claims
    BY <2>1
  <2>2. ASSUME NEW name \in VolumeNames, BeginDelete(h, name)
        PROVE  \A n \in VolumeNames : claims'[n].state = "none" <=> claims[n].state = "none"
    BY <2>2, ClaimStates DEF BeginDelete, BaseInv, TypeOK, Claims
  <2> QED
    BY <2>1, <2>2
    DEF Begins, BeginCreate, BeginPublish, BeginUnpublish, BeginExpand, BeginAttachment, coVars
<1>3. \A id \in DiskIds : IsGiven(id)' <=> IsGiven(id)
  BY <1>1, <1>2 DEF IsGiven, Live
<1>4. DisksAreAsAsked' /\ CreationsAreAsAsked'
  BY <1>1, <1>2 DEF RetryInv, DisksAreAsAsked, CreationsAreAsAsked, Live, Pending, VolumeNames
<1>5. ResizesAreKnown'
  <2> SUFFICES ASSUME NEW g \in Handlers, NEW id \in DiskIds, Resizes(g, id)' PROVE IsGiven(id)
    BY <1>3 DEF ResizesAreKnown
  <2>1. CASE Resizes(g, id)
    BY <2>1 DEF RetryInv, ResizesAreKnown
  <2>2. CASE ~Resizes(g, id)
    <3>1. g = h /\ req'[h].call = "ExpandVolume" /\ req'[h].id = id
      BY <1>1, <2>2 DEF Resizes, Active, Pending
    <3>2. ASSUME NEW r, Begin(h, r) PROVE req'[h] = r
      BY <3>2 DEF Begin, BaseInv, TypeOK
    <3>3. \E i \in DiskIds, range \in ExpandRanges : BeginExpand(h, i, range)
      <4>1. ASSUME NEW r \in CreateRequests PROVE ~BeginCreate(h, r)
        BY <3>1, <3>2 DEF BeginCreate, CreateVolumeRequest
      <4>2. ASSUME NEW name \in VolumeNames PROVE ~BeginDelete(h, name)
        BY <3>1, <3>2 DEF BeginDelete
      <4>3. ASSUME NEW i \in DiskIds, NEW n \in Nodes
            PROVE  /\ ~BeginUnpublish(h, i, n)
                   /\ \A mode \in PublishModes : ~BeginPublish(h, i, n, mode)
        BY <3>1, <3>2 DEF BeginPublish, BeginUnpublish, BeginAttachment
      <4> QED
        BY <4>1, <4>2, <4>3 DEF Begins
    <3>4. ClaimIn(id, {"bound"})
      BY <3>1, <3>2, <3>3 DEF BeginExpand
    <3> QED
      BY <3>4 DEF ClaimIn, VolumesInv, ClaimsAreNamed, IsGiven
  <2> QED
    BY <2>1, <2>2
<1>6. RetriesAreNotRefused'
  BY <1>1 DEF RetriesAreNotRefused, NoReply
<1> QED
  BY <1>4, <1>5, <1>6 DEF RetryInv

LEMMA HandlerRetries ==
  ASSUME NamesAreDistinct, RequestsAgree, BaseInv, VolumesInv, PlaceInv, RetryInv,
         NEW h \in Handlers, Handler(h)
  PROVE  RetryInv'
<1>1. /\ Active(h) /\ req[h] \in Requests /\ req[h] # NoRequest
      /\ UNCHANGED disks
      /\ \A g \in Handlers : g # h =>
           pc'[g] = pc[g] /\ req'[g] = req[g] /\ ops'[g] = ops[g]
      /\ req'[h] \in {req[h], NoRequest}
      /\ Pending(h)' => ops'[h].call = APICall(h)
  BY HandlerSteps
<1>2. \A name \in VolumeNames : claims[name].state # "none" => claims'[name].state # "none"
  BY HandlerKeepsClaims
<1>3. DisksAreAsAsked'
  BY <1>1, <1>2 DEF RetryInv, DisksAreAsAsked, Live, VolumeNames
<1>4. CreationsAreAsAsked'
  <2> SUFFICES ASSUME NEW c \in Handlers, NEW r \in CreateRequests,
                      Pending(c)', ops'[c].call.kind = "create"
               PROVE  AsAsked(ops'[c].call.disk, r)
    BY DEF CreationsAreAsAsked
  <2>1. CASE c # h
    BY <1>1, <2>1 DEF RetryInv, CreationsAreAsAsked, Pending
  <2>2. CASE c = h
    <3>1. /\ req[h].call = "CreateVolume" /\ CanBeServed(h)
          /\ ops'[h].call.disk = GetCreateDiskRequest(req[h], DiskLocation(h), DiskType)
      BY <2>2, CreationOfHandler
    <3>2. PICK q \in CreateRequests : req[h] = CreateVolumeRequest(q)
      BY <1>1, <3>1, RequestFields
    <3>3. /\ Servable(q)
          /\ ops'[h].call.disk = GetCreateDiskRequest(q, Place(q), DiskType)
      BY <3>1, <3>2
      DEF CreateVolumeRequest, CanBeServed, Placeable, DiskLocation, Servable, Place,
          ValidateDiskRequest, GetCreateDiskRequest
    <3> QED
      BY <2>2, <3>3, RequestedIsAsAsked
  <2> QED
    BY <2>1, <2>2
<1>5. ResizesAreKnown'
  <2> SUFFICES ASSUME NEW g \in Handlers, NEW id \in DiskIds, Resizes(g, id)' PROVE IsGiven(id)'
    BY DEF ResizesAreKnown
  <2>1. Resizes(g, id)
    <3>1. CASE g # h
      BY <1>1, <3>1 DEF Resizes, Active, Pending
    <3>2. CASE g = h
      BY <1>1, <3>2, CallKinds DEF Resizes, NoRequest
    <3> QED
      BY <3>1, <3>2
  <2>2. IsGiven(id)
    BY <2>1 DEF RetryInv, ResizesAreKnown
  <2> QED
    BY <1>1, <1>2, <2>2 DEF IsGiven, Live
<1>6. RetriesAreNotRefused'
  <2> SUFFICES ASSUME lastReply'.code = "AlreadyExists", claims'[lastReply'.to.name].state = "none"
               PROVE  FALSE
    BY DEF RetriesAreNotRefused
  <2>1. CreateConflicts(h) /\ lastReply'.to = req[h]
    BY RefusalIsConflict
  <2>2. PICK r \in CreateRequests : req[h] = CreateVolumeRequest(r)
    BY <1>1, <2>1, RequestFields DEF CreateConflicts, CreateValid, Finding
  <2>3. r.name = req[h].name /\ r.range = req[h].range /\ Servable(r)
    BY <2>1, <2>2
    DEF CreateConflicts, CreateValid, Placeable, DiskLocation, CreateVolumeRequest, Servable,
        Place, ValidateDiskRequest
  <2>4. claims[r.name].state = "none"
    BY <1>2, <2>1, <2>3 DEF VolumeNames
  <2>5. PICK id \in FoundByName(req[h].name) : ~AcceptsDisk(h, id)
    BY <2>1 DEF CreateConflicts
  <2>6. id \in DiskIds /\ Live(id) /\ disks[id].name = DiskName(r.name)
    BY <2>3, <2>5 DEF FoundByName, DisksNamed
  <2>7. CheckDiskMatchesRequest(disks[id], r, HostLocation, DiskType)
    BY <2>3, <2>4, <2>6 DEF RetryInv, DisksAreAsAsked, AsAsked
  <2> QED
    BY <2>3, <2>5, <2>7 DEF AcceptsDisk, CheckDiskMatchesRequest
<1> QED
  BY <1>3, <1>4, <1>5, <1>6 DEF RetryInv

\* An operation makes a disk, or expands one, or leaves it alone.
LEMMA DisksAreMade ==
  ASSUME BaseInv, NEW c \in Handlers, TakesEffect(c) \/ OperationFails(c),
         NEW id \in DiskIds, Live(id)'
  PROVE  \/ disks'[id] = disks[id]
         \/ /\ Pending(c) /\ ops[c].call.kind = "create"
            /\ LET d == ops[c].call.disk  e == disks'[id] IN
               /\ e.name = d.name /\ e.type = d.type /\ e.location = d.location
               /\ e.blockSize = d.blockSize
               /\ NormalizeDiskSizeToGiB(e.size) = NormalizeDiskSizeToGiB(d.size)
         \/ Resizes(c, id) /\ Live(id) /\ disks'[id].name = disks[id].name
<1> USE DEF BaseInv, TypeOK, APITypeOK
<1>1. CASE CreateTakesEffect(c)
  <2>1. Pending(c) /\ ops[c].call.kind = "create" /\ ops[c].call \in Calls
    BY <1>1, OperationEnds DEF CreateTakesEffect
  <2>2. ops[c].call.disk \in Disks
    BY <2>1 DEF Calls
  <2>3. PICK new \in DiskIds, size \in Renderings(ops[c].call.disk.size) :
          disks' = [disks EXCEPT ![new] = [ops[c].call.disk EXCEPT !.size = size]]
    BY <1>1 DEF CreateTakesEffect
  <2>4. NormalizeDiskSizeToGiB(size) = NormalizeDiskSizeToGiB(ops[c].call.disk.size)
    BY <2>2, <2>3, RenderingsAgree DEF Disks
  <2>5. CASE id = new
    <3>1. disks'[id] = [ops[c].call.disk EXCEPT !.size = size]
      BY <2>3, <2>5
    <3> QED
      BY <2>1, <2>2, <2>4, <3>1 DEF Disks
  <2> QED
    BY <2>3, <2>5
<1>2. CASE DeleteTakesEffect(c)
  BY <1>2 DEF DeleteTakesEffect, Live
<1>3. CASE AttachTakesEffect(c) \/ DetachTakesEffect(c) \/ OperationFails(c)
  BY <1>3 DEF AttachTakesEffect, DetachTakesEffect, OperationFails
<1>4. CASE ResizeTakesEffect(c)
  <2>1. CASE id = ops[c].call.id
    <3>1. Live(id) /\ disks[id] \in Disks /\ Resizes(c, id)
      BY <1>4, <2>1 DEF ResizeTakesEffect, Live, Resizes
    <3> QED
      BY <1>4, <2>1, <3>1 DEF ResizeTakesEffect, Disks
  <2> QED
    BY <1>4, <2>1 DEF ResizeTakesEffect
<1> QED
  BY <1>1, <1>2, <1>3, <1>4 DEF TakesEffect

LEMMA OperationRetries ==
  ASSUME NamesAreDistinct, NeverShrinks, BaseInv, RetryInv, UNCHANGED <<driverVars, coVars>>,
         lastReply' = NoReply, NEW c \in Handlers, TakesEffect(c) \/ OperationFails(c)
  PROVE  RetryInv'
<1>1. ~Pending(c)' /\ \A g \in Handlers : g # c => ops'[g] = ops[g]
  BY OperationEnds
<1>2. DisksAreAsAsked'
  <2> SUFFICES ASSUME NEW id \in DiskIds, NEW r \in CreateRequests, Live(id)',
                      claims[r.name].state = "none"
               PROVE  AsAsked(disks'[id], r)
    BY DEF DisksAreAsAsked, coVars
  <2>1. CASE disks'[id] = disks[id]
    BY <2>1 DEF RetryInv, DisksAreAsAsked, Live
  <2>2. CASE /\ Pending(c) /\ ops[c].call.kind = "create"
             /\ LET d == ops[c].call.disk  e == disks'[id] IN
                /\ e.name = d.name /\ e.type = d.type /\ e.location = d.location
                /\ e.blockSize = d.blockSize
                /\ NormalizeDiskSizeToGiB(e.size) = NormalizeDiskSizeToGiB(d.size)
    <3>1. AsAsked(ops[c].call.disk, r)
      BY <2>2 DEF RetryInv, CreationsAreAsAsked
    <3> QED
      BY <2>2, <3>1, AlikeIsAsAsked
  <2>3. CASE Resizes(c, id) /\ Live(id) /\ disks'[id].name = disks[id].name
    <3>1. PICK name \in VolumeNames :
            claims[name].state # "none" /\ disks[id].name = DiskName(name)
      BY <2>3 DEF RetryInv, ResizesAreKnown, IsGiven
    <3>2. disks'[id].name # DiskName(r.name)
      BY <2>3, <3>1 DEF NamesAreDistinct, VolumeNames
    <3> QED
      BY <3>2 DEF AsAsked
  <2> QED
    BY <2>1, <2>2, <2>3, DisksAreMade
<1>3. CreationsAreAsAsked'
  BY <1>1 DEF RetryInv, CreationsAreAsAsked, Pending
<1>4. ResizesAreKnown'
  <2> SUFFICES ASSUME NEW g \in Handlers, NEW id \in DiskIds, Resizes(g, id)' PROVE IsGiven(id)'
    BY DEF ResizesAreKnown
  <2>1. Resizes(g, id)
    BY <1>1 DEF Resizes, Active, Pending, driverVars
  <2>2. IsGiven(id)
    BY <2>1 DEF RetryInv, ResizesAreKnown
  <2>3. disks'[id] # NoDisk
    BY <2>2, DisksGrow, APIAssumption DEF Keeps, IsGiven
  <2>4. Live(id)' => Live(id) /\ disks'[id].name = disks[id].name
    BY <2>2, DisksStay DEF IsGiven
  <2> QED
    BY <2>2, <2>3, <2>4 DEF IsGiven, coVars
<1>5. RetriesAreNotRefused'
  BY DEF RetriesAreNotRefused, NoReply
<1> QED
  BY <1>2, <1>3, <1>4, <1>5 DEF RetryInv

LEMMA RestartRetries == ASSUME BaseInv, RetryInv, Restart PROVE RetryInv'
<1>1. \A c \in Handlers : Pending(c)' => Pending(c) /\ ops'[c].call = ops[c].call
  BY DEF Restart, Pending, NoOp, BaseInv, TypeOK, APITypeOK, Operations
<1>2. DisksAreAsAsked' /\ RetriesAreNotRefused'
  BY DEF Restart, RetryInv, DisksAreAsAsked, RetriesAreNotRefused, Live, NoReply, coVars
<1>3. CreationsAreAsAsked'
  BY <1>1 DEF RetryInv, CreationsAreAsAsked
<1>4. ResizesAreKnown'
  BY <1>1 DEF Restart, RetryInv, ResizesAreKnown, Resizes, IsGiven, Active, Live, coVars
<1> QED
  BY <1>2, <1>3, <1>4 DEF RetryInv

LEMMA NextRetries ==
  ASSUME NamesAreDistinct, NeverShrinks, RequestsAgree
  PROVE  VolumeInv /\ PlaceInv /\ RetryInv /\ [Next]_vars => RetryInv'
<1> SUFFICES ASSUME VolumeInv, PlaceInv, RetryInv, [Next]_vars PROVE RetryInv'
  OBVIOUS
<1>1. BaseInv /\ VolumesInv
  BY VolumeInvParts
<1>2. ASSUME NEW h \in Handlers, Begins(h) \/ Handler(h) PROVE RetryInv'
  BY <1>1, <1>2, BeginRetries, HandlerRetries
<1>3. CASE Restart
  BY <1>1, <1>3, RestartRetries
<1>4. ASSUME UNCHANGED <<disks, ops, driverVars, coVars>>, lastReply' \in {lastReply, NoReply}
      PROVE  RetryInv'
  BY <1>4
  DEF RetryInv, DisksAreAsAsked, CreationsAreAsAsked, ResizesAreKnown, RetriesAreNotRefused,
      Resizes, IsGiven, Active, Live, Pending, NoReply, driverVars, coVars
<1>5. CASE API
  <2>1. lastReply' = NoReply /\ UNCHANGED <<driverVars, coVars>>
    BY <1>5 DEF API
  <2>2. ASSUME NEW c \in Handlers, TakesEffect(c) \/ OperationFails(c) PROVE RetryInv'
    BY <1>1, <2>1, <2>2, OperationRetries
  <2>3. ASSUME NEW n \in Nodes, DeleteInstance(n) PROVE RetryInv'
    BY <1>4, <2>1, <2>3 DEF DeleteInstance
  <2> QED
    BY <1>5, <2>2, <2>3 DEF API, APINext
<1> QED
  BY <1>2, <1>3, <1>4, <1>5 DEF Next, vars, apiVars

\* Until a volume's creation is answered with success it is never refused, if
\* the requests for the volume agree: what an earlier call left behind, through
\* timeouts, lost replies and restarts, is known again (CreateVolume).
THEOREM RetriesAreRecognised ==
  ASSUME NamesAreDistinct, NeverShrinks, RequestsAgree
  PROVE  Spec => []RetriesAreNotRefused
<1>1. Init => RetryInv
  BY InitRetries
<1>2. VolumeInv /\ PlaceInv /\ RetryInv /\ [Next]_vars => RetryInv'
  BY NextRetries
<1>3. RetryInv => RetriesAreNotRefused
  BY DEF RetryInv
<1> QED
  BY <1>1, <1>2, <1>3, VolumeInvariant, PlaceInvariant, PTL DEF Spec

-----------------------------------------------------------------------------
(* A disk that is compared with the location of the controller, and not with *)
(* the one its request asks for, can be refused although it is what the      *)
(* driver would make.  That is the only way it can: where the two locations  *)
(* are one, no such disk is refused.                                         *)

\* What a request of which a disk was refused says of that disk.
LEMMA ConflictIsNotOwn ==
  ASSUME PlacesAreHere, NEW h \in Handlers, req[h] \in Requests, CreateConflicts(h),
         NEW id \in FoundByName(req[h].name)
  PROVE  ~CheckDiskMatchesRequest(disks[id], req[h], DiskLocation(h), DiskType)
<1>1. PICK r \in CreateRequests : req[h] = CreateVolumeRequest(r)
  BY RequestFields DEF CreateConflicts, CreateValid, Finding
<1>2. Servable(r) /\ DiskLocation(h) = Place(r)
  BY <1>1
  DEF CreateConflicts, CreateValid, Placeable, DiskLocation, CreateVolumeRequest, Servable,
      Place, ValidateDiskRequest
<1>3. DiskLocation(h) = HostLocation
  BY <1>2 DEF PlacesAreHere
<1>4. ~AcceptsDisk(h, id)
  BY DEF CreateConflicts, FoundByName
<1> QED
  BY <1>3, <1>4 DEF AcceptsDisk

\* No disk is refused that is what CreateDisk would be asked for, if disks are
\* asked for where the controller runs (controller.go:83).
THEOREM OwnDisksAreAccepted ==
  ASSUME PlacesAreHere
  PROVE  Spec => []OwnDiskAccepted
<1>1. Init => OwnDiskAccepted
  BY DEF Init, OwnDiskAccepted, NoReply
<1>2. TypeOK /\ OpsAreOwned /\ OwnDiskAccepted /\ [Next]_vars => OwnDiskAccepted'
  <2> SUFFICES ASSUME BaseInv, OwnDiskAccepted, [Next]_vars PROVE OwnDiskAccepted'
    BY DEF BaseInv
  <2>1. ASSUME NEW h \in Handlers, Handler(h), lastReply'.code = "AlreadyExists"
        PROVE  OwnDiskAccepted'
    <3>1. CreateConflicts(h) /\ lastReply'.to = req[h] /\ UNCHANGED disks
      BY <2>1, RefusalIsConflict, HandlerSteps
    <3>2. req[h] \in Requests
      BY HandlerFacts
    <3>3. \A id \in FoundByName(req[h].name) :
            ~CheckDiskMatchesRequest(disks[id], req[h], DiskLocation(h), DiskType)
      BY <3>1, <3>2, ConflictIsNotOwn
    <3> QED
      BY <3>1, <3>3 DEF OwnDiskAccepted, FoundByName, DisksNamed, Live, DiskLocation
  <2>2. ASSUME lastReply'.code # "AlreadyExists" PROVE OwnDiskAccepted'
    BY <2>2 DEF OwnDiskAccepted
  <2>3. ASSUME NEW h \in Handlers, Begins(h) PROVE lastReply' = NoReply
    BY <2>3
    DEF Begins, BeginCreate, BeginDelete, BeginPublish, BeginUnpublish, BeginExpand,
        BeginAttachment, Begin
  <2>4. CASE UNCHANGED vars
    BY <2>4 DEF vars, apiVars, OwnDiskAccepted, FoundByName, DisksNamed, Live
  <2> QED
    BY <2>1, <2>2, <2>3, <2>4 DEF Next, Restart, API, NoReply
<1>3. Spec => [](TypeOK /\ OpsAreOwned)
  BY InitBase, NextBase, PTL DEF Spec, BaseInv
<1> QED
  BY <1>1, <1>2, <1>3, PTL DEF Spec

=============================================================================
