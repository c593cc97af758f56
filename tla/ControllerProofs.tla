-------------------------- MODULE ControllerProofs --------------------------
(***************************************************************************)
(* Theorems about Controller, for any number of handlers, disks, nodes and *)
(* requests: type correctness and AttachmentViewIsTrue.                    *)
(***************************************************************************)
EXTENDS Controller, RequestRulesLemmas, TLAPS

-----------------------------------------------------------------------------
(* What the rules return *)

\* The location of a new disk is a known one, or none.
LEMMA LocationType ==
  ASSUME NEW topology, NEW host \in Locations,
         DOMAIN topology \subseteq Nat,
         \A i \in DOMAIN topology : topology[i].location \in Locations \cup {NoLocation}
  PROVE  ParseRequiredTopology(topology, DiskType, host) \in Locations \cup {NoLocation}
  BY FirstSuitable

\* The GiB asked for are an integer.
LEMMA GiBType ==
  ASSUME NEW range \in CapacityRanges
  PROVE  RequestSizeToGiB(range) \in Int
<1>1. RequestSizeToBytes(range) \in Int
  BY DEF RequestSizeToBytes, CapacityRanges
<1>2. ASSUME NEW b \in Int PROVE CeilGiB(b) \in Int
  BY UnitsAssumption DEF CeilGiB
<1> QED
  BY <1>1, <1>2 DEF RequestSizeToGiB

\* A size the driver sends is a size.
LEMMA ResizeRequestType ==
  ASSUME NEW range \in CapacityRanges
  PROVE  ResizeRequest(range) \in Sizes
  BY GiBType DEF ResizeRequest, Sizes

\* A size is normalised to an integer, also when it cannot be read.
LEMMA NormalizeType ==
  ASSUME NEW size \in Sizes
  PROVE  NormalizeDiskSizeToGiB(size) \in Int
<1>1. NumGiBInTiB \in Int /\ size.n \in Int /\ size.n * NumGiBInTiB \in Int
  BY UnitsAssumption DEF Sizes
<1>2. size.unit \in {"GiB", "TiB", "?"}
  BY DEF Sizes
<1> QED
  BY <1>1, <1>2 DEF NormalizeDiskSizeToGiB, SizeError

\* A size reworded is a size.
LEMMA RenderingsType ==
  ASSUME NEW size \in Sizes
  PROVE  Renderings(size) \subseteq Sizes
<1> DEFINE gib == NormalizeDiskSizeToGiB(size)
<1>1. gib \in Int
  BY NormalizeType
<1>2. \A s \in Renderings(size) :
        s = size \/ s = [n |-> gib \div NumGiBInTiB, unit |-> "TiB"]
  BY DEF Renderings
<1> HIDE DEF gib
<1>3. gib \div NumGiBInTiB \in Int
  BY <1>1, UnitsAssumption
<1> QED
  BY <1>2, <1>3 DEF Sizes

\* The capacity of a disk is an integer.
LEMMA CapacityType ==
  ASSUME NEW d \in Disks
  PROVE  CapacityOf(d) \in Int
<1>1. NormalizeDiskSizeToGiB(d.size) \in Int
  BY NormalizeType DEF Disks
<1> QED
  BY <1>1, UnitsAssumption DEF CapacityOf

\* The disk a request asks for is a disk, and its place is known.
LEMMA CreateDiskType ==
  ASSUME NEW r \in CreateRequests
  PROVE  LET q == CreateVolumeRequest(r)
             l == ParseRequiredTopology(q.topology, DiskType, HostLocation)
         IN  /\ l \in Locations \cup {NoLocation}
             /\ GetCreateDiskRequest(q, l, DiskType) \in Disks
<1> DEFINE q == CreateVolumeRequest(r)
           l == ParseRequiredTopology(q.topology, DiskType, HostLocation)
<1>1. q.name = r.name /\ q.range = r.range /\ q.topology = r.topology
  BY DEF CreateVolumeRequest
<1>2. l \in Locations \cup {NoLocation}
  BY <1>1, LocationType, ControllerAssumption
<1>3. RequestSizeToGiB(q.range) \in Int
  BY <1>1, GiBType, ControllerAssumption
<1>4. DiskName(q.name) \in Names
  BY <1>1, ControllerAssumption
<1> HIDE DEF q, l
<1>5. GetCreateDiskRequest(q, l, DiskType) \in Disks
  BY <1>2, <1>3, <1>4, ControllerAssumption
  DEF GetCreateDiskRequest, Disks, Sizes, BlockSizeSSD
<1> QED
  BY <1>2, <1>5 DEF q, l

\* The validation of a request returns a status code.
LEMMA ValidationCodes ==
  /\ \A r : ValidateDiskRequest(r, DiskType) \in Codes
  /\ \A range : ValidateExpandRequest(range, DiskType) \in Codes
  BY DEF ValidateDiskRequest, ValidateExpandRequest, Codes

-----------------------------------------------------------------------------
(* What the requests call for *)

\* The API call of a handler that serves a request is a call.
LEMMA APICallType ==
  ASSUME TypeOK, NEW h \in Handlers, req[h] # NoRequest
  PROVE  APICall(h) \in Calls
<1>1. req[h] \in Requests /\ req[h] # NoRequest
  BY DEF TypeOK
<1>2. CASE req[h] \in {CreateVolumeRequest(r) : r \in CreateRequests}
  <2>1. PICK r \in CreateRequests : req[h] = CreateVolumeRequest(r)
    BY <1>2
  <2>2. req[h].call = "CreateVolume"
    BY <2>1 DEF CreateVolumeRequest
  <2>3. GetCreateDiskRequest(req[h], DiskLocation(h), DiskType) \in Disks
    BY <2>1, CreateDiskType DEF DiskLocation
  <2> QED
    BY <2>2, <2>3 DEF APICall, Calls
<1>3. CASE req[h] \in [call : {"DeleteVolume"}, id : DiskIds]
  BY <1>3 DEF APICall, Calls
<1>4. CASE req[h] \in [call : {"PublishVolume"}, id : DiskIds, node : Nodes, mode : PublishModes]
  <2>1. AttachMode(req[h].mode) \in AttachModes
    BY DEF AttachMode, AttachModes
  <2> QED
    BY <1>4, <2>1 DEF APICall, Calls
<1>5. CASE req[h] \in [call : {"UnpublishVolume"}, id : DiskIds, node : Nodes]
  BY <1>5 DEF APICall, Calls
<1>6. CASE req[h] \in [call : {"ExpandVolume"}, id : DiskIds, range : ExpandRanges]
  <2>1. ResizeRequest(req[h].range) \in Sizes
    BY <1>6, ResizeRequestType, ControllerAssumption
  <2> QED
    BY <1>6, <2>1 DEF APICall, Calls
<1> QED
  BY <1>1, <1>2, <1>3, <1>4, <1>5, <1>6 DEF Requests

\* A call starts an operation, awaited or not.
LEMMA NewOperationType ==
  ASSUME NEW call \in Calls
  PROVE  /\ Operation(call) \in Operations
         /\ [Operation(call) EXCEPT !.awaited = FALSE] \in Operations
  BY DEF Operation, Operations, Phases
-----------------------------------------------------------------------------
(* Type correctness.  An operation belongs to the request of the handler     *)
(* that awaits it, so OpsAreOwned is part of the induction.                  *)

COTypeOK ==
    /\ claims \in [VolumeNames -> {NoClaim} \cup Claims]
    /\ view \in [DiskIds \X Nodes -> {"unknown", "attached", "detached"}]

DriverTypeOK ==
    /\ pc \in [Handlers -> {"idle", "find", "send", "await"}]
    /\ req \in [Handlers -> Requests]
    /\ settled \in [Handlers -> BOOLEAN]
    /\ lastReply.code \in Codes

BaseInv == TypeOK /\ OpsAreOwned

LEMMA TypeParts == TypeOK <=> APITypeOK /\ DriverTypeOK /\ COTypeOK
  BY DEF TypeOK, DriverTypeOK, COTypeOK

\* The initial states.
LEMMA InitBase == Init => BaseInv
<1> SUFFICES ASSUME Init PROVE BaseInv
  OBVIOUS
<1>1. APITypeOK
  <2>1. disks \in [DiskIds -> {NoDisk} \cup Disks]
    BY APIAssumption DEF Init, APIInit
  <2> QED
    BY <2>1 DEF Init, APIInit, APITypeOK, NoOp
<1>2. DriverTypeOK /\ COTypeOK
  BY DEF Init, DriverTypeOK, COTypeOK, Requests, Codes, NoReply
<1>3. OpsAreOwned
  BY DEF Init, APIInit, OpsAreOwned, OpIsOwned, Active
<1> QED
  BY <1>1, <1>2, <1>3, TypeParts DEF BaseInv

\* A request begins.
LEMMA BeginBase ==
  ASSUME BaseInv, NEW h \in Handlers, NEW r \in Requests, r # NoRequest,
         Begin(h, r), settled' \in [Handlers -> BOOLEAN], COTypeOK'
  PROVE  BaseInv'
<1>1. APITypeOK /\ DriverTypeOK /\ OpsAreOwned
  BY TypeParts DEF BaseInv
<1>2. /\ pc' = [pc EXCEPT ![h] = "find"] /\ req' = [req EXCEPT ![h] = r]
      /\ ops[h] = NoOp /\ pc[h] = "idle" /\ lastReply' = NoReply
      /\ ops' = ops
  BY DEF Begin, Active, apiVars
<1>3. APITypeOK'
  BY <1>1 DEF Begin, apiVars, APITypeOK
<1>4. DriverTypeOK'
  BY <1>1, <1>2 DEF DriverTypeOK, Codes, NoReply
<1>5. OpsAreOwned'
  <2> SUFFICES ASSUME NEW g \in Handlers
               PROVE  OpIsOwned(g)'
    BY DEF OpsAreOwned
  <2>1. CASE g = h
    BY <2>1, <1>1, <1>2 DEF DriverTypeOK, Active, OpIsOwned
  <2>2. CASE g # h
    <3>1. pc'[g] = pc[g] /\ req'[g] = req[g] /\ ops'[g] = ops[g]
      BY <2>2, <1>1, <1>2 DEF DriverTypeOK
    <3>2. APICall(g)' = APICall(g)
      BY <3>1 DEF APICall, DiskLocation
    <3> QED
      BY <3>1, <3>2, <1>1 DEF OpsAreOwned, OpIsOwned, Active, Abandoned, Pending
  <2> QED
    BY <2>1, <2>2
<1> QED
  BY <1>3, <1>4, <1>5 DEF BaseInv, TypeOK, DriverTypeOK, COTypeOK

-----------------------------------------------------------------------------
(* The steps of a handler, by what they do to its own variables              *)

\* The handler moves to l with request r and operation o.
Step(h, l, r, o) ==
    /\ pc' = [pc EXCEPT ![h] = l]
    /\ req' = [req EXCEPT ![h] = r]
    /\ ops' = [ops EXCEPT ![h] = o]
    /\ lastReply'.code \in Codes
    /\ UNCHANGED <<disks, attachments, instances>>

\* It has looked, and goes on.
Decides(h) ==
    /\ pc[h] = "find"
    /\ Step(h, "send", req[h], NoOp)
    /\ UNCHANGED <<settled, coVars>>

\* It starts its operation.
Starts(h) ==
    /\ pc[h] = "send"
    /\ Step(h, "await", req[h], Operation(APICall(h)))
    /\ UNCHANGED <<settled, coVars>>

\* It returns, and an operation may be left behind.
LeftBehind(h, o) ==
    \/ o = NoOp
    \/ o \in Operations /\ o.phase = "pending" /\ ~o.awaited /\ o.call = APICall(h)

Quits(h) ==
    /\ Active(h)
    /\ \E o : Step(h, "idle", NoRequest, o) /\ LeftBehind(h, o)
    /\ settled' = [settled EXCEPT ![h] = FALSE]
    /\ UNCHANGED view

\* It returns and tells the CO about an attachment.
Tells(h, known) ==
    /\ req[h].call = IF known = "attached" THEN "PublishVolume" ELSE "UnpublishVolume"
    /\ \/ /\ pc[h] = "find"
          /\ req[h].node \in instances => (IsAttached(h) <=> known = "attached")
       \/ pc[h] = "await" /\ ops[h].phase = "succeeded"
    /\ Step(h, "idle", NoRequest, NoOp)
    /\ settled' = [settled EXCEPT ![h] = FALSE]
    /\ view' = [view EXCEPT ![<<req[h].id, req[h].node>>] =
                  IF settled[h] THEN known ELSE "unknown"]

\* Such a step keeps the types, and the operation is the request's, or
\* nobody's.
LEMMA StepBase ==
  ASSUME BaseInv, NEW h \in Handlers, NEW r \in Requests, NEW l, NEW o,
         Step(h, l, r, o), settled' \in [Handlers -> BOOLEAN],
         l \in {"idle", "find", "send", "await"},
         l # "idle" <=> r # NoRequest,
         \/ o = NoOp /\ l # "await"
         \/ o \in Operations /\ o.phase = "pending" /\ ~o.awaited /\ l = "idle"
         \/ o \in Operations /\ o.phase = "pending" /\ o.awaited /\ l = "await"
              /\ r = req[h] /\ o.call = APICall(h),
         COTypeOK'
  PROVE  BaseInv'
<1>1. APITypeOK /\ DriverTypeOK /\ OpsAreOwned
  BY TypeParts DEF BaseInv
<1>2. APITypeOK'
  <2>1. o \in {NoOp} \cup Operations /\ o.phase # "succeeded"
    BY DEF NoOp
  <2>2. ops' \in [Handlers -> {NoOp} \cup Operations]
    BY <1>1, <2>1 DEF APITypeOK, Step
  <2>3. \A c \in Handlers : ops'[c].phase = "succeeded" => ops'[c].id \in DiskIds
    BY <1>1, <2>1 DEF APITypeOK, Step
  <2> QED
    BY <1>1, <2>2, <2>3 DEF APITypeOK, Step
<1>3. DriverTypeOK'
  BY <1>1 DEF DriverTypeOK, Step
<1>4. OpsAreOwned'
  <2> SUFFICES ASSUME NEW g \in Handlers
               PROVE  OpIsOwned(g)'
    BY DEF OpsAreOwned
  <2>1. CASE g = h
    <3>1. pc'[g] = l /\ req'[g] = r /\ ops'[g] = o
      BY <2>1, <1>1 DEF DriverTypeOK, APITypeOK, Step
    <3>2. r = req[h] => APICall(g)' = APICall(g)
      BY <2>1, <3>1 DEF APICall, DiskLocation
    <3>3. \A x \in Operations : x # NoOp
      BY DEF Operations, NoOp
    <3> QED
      BY <2>1, <3>1, <3>2, <3>3 DEF OpIsOwned, Active, Abandoned, Pending
  <2>2. CASE g # h
    <3>1. pc'[g] = pc[g] /\ req'[g] = req[g] /\ ops'[g] = ops[g]
      BY <2>2, <1>1 DEF DriverTypeOK, APITypeOK, Step
    <3>2. APICall(g)' = APICall(g)
      BY <3>1 DEF APICall, DiskLocation
    <3> QED
      BY <3>1, <3>2, <1>1 DEF OpsAreOwned, OpIsOwned, Active, Abandoned, Pending
  <2> QED
    BY <2>1, <2>2
<1> QED
  BY <1>2, <1>3, <1>4 DEF BaseInv, TypeOK, DriverTypeOK, COTypeOK

\* Each kind of step keeps the base invariant.
LEMMA KindsBase ==
  ASSUME BaseInv, NEW h \in Handlers, COTypeOK',
         \/ Decides(h)
         \/ Starts(h)
         \/ Quits(h)
         \/ \E known \in {"attached", "detached"} : Tells(h, known)
  PROVE  BaseInv'
<1>1. /\ req[h] \in Requests /\ NoRequest \in Requests
      /\ Active(h) => req[h] # NoRequest
  BY DEF BaseInv, TypeOK, Requests, OpsAreOwned, OpIsOwned
<1>0. settled' \in [Handlers -> BOOLEAN]
  BY DEF BaseInv, TypeOK, Decides, Starts, Quits, Tells
<1>2. CASE Decides(h)
  BY <1>0, <1>1, <1>2, StepBase DEF Decides, Active
<1>3. CASE Starts(h)
  <2>1. Operation(APICall(h)) \in Operations
    BY <1>1, <1>3, APICallType, NewOperationType DEF BaseInv, Starts, Active
  <2>2. LET o == Operation(APICall(h)) IN
          o.phase = "pending" /\ o.awaited /\ o.call = APICall(h)
    BY DEF Operation
  <2> QED
    BY <1>0, <1>1, <1>3, <2>1, <2>2, StepBase DEF Starts, Active
<1>4. CASE Quits(h)
  <2>1. PICK o : Step(h, "idle", NoRequest, o) /\ LeftBehind(h, o)
    BY <1>4 DEF Quits
  <2>2. CASE o = NoOp
    BY <1>0, <1>1, <2>1, <2>2, StepBase
  <2>3. CASE o \in Operations /\ o.phase = "pending" /\ ~o.awaited
    BY <1>0, <1>1, <2>1, <2>3, StepBase
  <2> QED
    BY <2>1, <2>2, <2>3 DEF LeftBehind
<1>5. CASE \E known \in {"attached", "detached"} : Tells(h, known)
  <2>1. Step(h, "idle", NoRequest, NoOp)
    BY <1>5 DEF Tells
  <2> QED
    BY <1>0, <1>1, <2>1, StepBase
<1> QED
  BY <1>2, <1>3, <1>4, <1>5

-----------------------------------------------------------------------------
(* Every step of a handler is of one of these kinds                          *)

\* What the base invariant says of one handler.
LEMMA HandlerFacts ==
  ASSUME BaseInv, NEW h \in Handlers
  PROVE  /\ ops \in [Handlers -> {NoOp} \cup Operations]
         /\ req[h] \in Requests
         /\ Active(h) => req[h] # NoRequest
         /\ pc[h] = "find" => ops[h] = NoOp
         /\ pc[h] = "await" => /\ ops[h] \in Operations
                               /\ ops[h].call = APICall(h)
                               /\ ops[h].awaited
         /\ ops[h].phase = "succeeded" => ops[h].id \in DiskIds
  BY DEF BaseInv, TypeOK, APITypeOK, OpsAreOwned, OpIsOwned

\* The fields of a request, by its call.
LEMMA RequestFields ==
  ASSUME NEW r \in Requests
  PROVE  /\ r.call = "CreateVolume" =>
              \E c \in CreateRequests : r = CreateVolumeRequest(c)
         /\ r.call = "DeleteVolume" => r.id \in DiskIds
         /\ r.call \in {"PublishVolume", "UnpublishVolume"} =>
              r.id \in DiskIds /\ r.node \in Nodes
         /\ r.call = "ExpandVolume" => r.id \in DiskIds /\ r.range \in ExpandRanges
  BY DEF Requests, NoRequest, CreateVolumeRequest

\* A handler that returns from its first query has no operation to leave.
LEMMA FindReturns ==
  ASSUME BaseInv, NEW h \in Handlers, pc[h] = "find",
         NEW code \in Codes, Returns(h, code), UNCHANGED apiVars
  PROVE  /\ Active(h)
         /\ Step(h, "idle", NoRequest, NoOp)
         /\ settled' = [settled EXCEPT ![h] = FALSE]
<1>1. ops' = [ops EXCEPT ![h] = NoOp]
  BY HandlerFacts DEF apiVars
<1> QED
  BY <1>1 DEF Returns, Step, Active, apiVars

\* So it is one that quits when the CO learns nothing of an attachment, ...
LEMMA FindQuits ==
  ASSUME BaseInv, NEW h \in Handlers, pc[h] = "find",
         NEW code \in Codes, Returns(h, code), UNCHANGED <<apiVars, view>>
  PROVE  Quits(h)
<1>1. UNCHANGED apiVars /\ UNCHANGED view
  OBVIOUS
<1>2. Active(h) /\ Step(h, "idle", NoRequest, NoOp) /\ settled' = [settled EXCEPT ![h] = FALSE]
  BY <1>1, FindReturns
<1> QED
  BY <1>1, <1>2 DEF Quits, LeftBehind

\* ... and types are kept when it learns nothing at all.
LEMMA SameCO == ASSUME BaseInv, UNCHANGED coVars PROVE COTypeOK'
  BY DEF BaseInv, TypeOK, COTypeOK, coVars

\* A volume reported as created is a volume.
LEMMA CreateClaims ==
  ASSUME BaseInv, NEW h \in Handlers, req[h].call = "CreateVolume",
         NEW id \in DiskIds, NEW d \in Disks,
         CreateSucceeds(h, id, DiskLocation(h), CapacityOf(d))
  PROVE  COTypeOK'
<1>1. PICK c \in CreateRequests : req[h] = CreateVolumeRequest(c)
  BY HandlerFacts, RequestFields
<1>2. DiskLocation(h) \in Locations \cup {NoLocation}
  BY <1>1, CreateDiskType DEF DiskLocation
<1>3. CapacityOf(d) \in Int
  BY CapacityType
<1>4. req[h].name \in VolumeNames
  BY <1>1 DEF CreateVolumeRequest, VolumeNames
<1>5. [state |-> "bound", id |-> id, location |-> DiskLocation(h),
       capacity |-> CapacityOf(d)] \in Claims
  BY <1>2, <1>3 DEF Claims
<1> QED
  BY <1>4, <1>5 DEF BaseInv, TypeOK, COTypeOK, CreateSucceeds

\* Claims keep their type when one is deleted or its capacity changes.
LEMMA DeleteClaims ==
  ASSUME BaseInv, NEW h, DeleteSucceeds(h)
  PROVE  COTypeOK'
<1>1. \A name \in VolumeNames : claims[name].state = "deleting" =>
        [claims[name] EXCEPT !.state = "deleted"] \in Claims
  BY DEF BaseInv, TypeOK, Claims, NoClaim
<1> QED
  BY <1>1 DEF BaseInv, TypeOK, COTypeOK, DeleteSucceeds

LEMMA ExpandClaims ==
  ASSUME BaseInv, NEW h, NEW capacity \in Int, ExpandSucceeds(h, capacity)
  PROVE  COTypeOK'
<1>1. \A name \in VolumeNames : claims[name].state = "bound" =>
        [claims[name] EXCEPT !.capacity = capacity] \in Claims
  BY DEF BaseInv, TypeOK, Claims, NoClaim
<1> QED
  BY <1>1 DEF BaseInv, TypeOK, COTypeOK, ExpandSucceeds

\* The kinds of steps.
Kinds(h) ==
    \/ Decides(h)
    \/ Starts(h)
    \/ Quits(h)
    \/ \E known \in {"attached", "detached"} : Tells(h, known)

\* A handler that goes on decides.
LEMMA GoesOnKind ==
  ASSUME BaseInv, NEW h \in Handlers, pc[h] = "find", GoesOn(h)
  PROVE  Kinds(h) /\ COTypeOK'
<1>1. ops' = [ops EXCEPT ![h] = NoOp] /\ req' = [req EXCEPT ![h] = req[h]]
  BY HandlerFacts DEF GoesOn, apiVars, BaseInv, TypeOK
<1>2. Decides(h)
  BY <1>1 DEF GoesOn, Decides, Step, apiVars, NoReply, Codes
<1> QED
  BY <1>2, SameCO DEF GoesOn, Kinds

\* A handler that returns an error from its first query quits.
LEMMA FindErrorKind ==
  ASSUME BaseInv, NEW h \in Handlers, pc[h] = "find", NEW code \in Codes,
         ReturnsError(h, code), UNCHANGED apiVars
  PROVE  Kinds(h) /\ COTypeOK'
<1>1. Quits(h)
  BY FindQuits DEF ReturnsError, coVars
<1> QED
  BY <1>1, SameCO DEF ReturnsError, Kinds

\* What the first query of each handler leads to.
LEMMA FindsKind ==
  ASSUME BaseInv, NEW h \in Handlers, Finds(h)
  PROVE  Kinds(h) /\ COTypeOK'
<1> USE DEF Finding, CreateValid
<1>1. CASE CreateInvalid(h)
  BY <1>1, ValidationCodes, FindErrorKind DEF CreateInvalid
<1>2. CASE CreateUnplaceable(h) \/ CreateConflicts(h)
  BY <1>2, FindErrorKind DEF CreateUnplaceable, CreateConflicts, Codes
<1>3. CASE CreateFindsDisk(h)
  <2>1. PICK id \in FoundByName(req[h].name) :
          CreateSucceeds(h, id, DiskLocation(h), CapacityOf(disks[id]))
    BY <1>3 DEF CreateFindsDisk
  <2>2. id \in DiskIds /\ disks[id] \in Disks
    BY DEF FoundByName, DisksNamed, Live, BaseInv, TypeOK, APITypeOK
  <2>3. COTypeOK'
    BY <1>3, <2>1, <2>2, CreateClaims DEF CreateFindsDisk
  <2>4. Quits(h)
    BY <1>3, <2>1, FindQuits DEF CreateFindsDisk, CreateSucceeds, Codes
  <2> QED
    BY <2>3, <2>4 DEF Kinds
<1>4. CASE CreateFindsNothing(h) \/ DeleteFindsDisk(h) \/ PublishFindsDetached(h)
             \/ UnpublishFindsAttached(h) \/ ExpandFindsSmaller(h)
  BY <1>4, GoesOnKind
  DEF CreateFindsNothing, DeleteFindsDisk, PublishFindsDetached,
      UnpublishFindsAttached, ExpandFindsSmaller, ExpandValid, ExpandAllowed
<1>5. CASE DeleteFindsNothing(h)
  <2>1. COTypeOK'
    BY <1>5, DeleteClaims DEF DeleteFindsNothing
  <2>2. Quits(h)
    BY <1>5, FindQuits DEF DeleteFindsNothing, DeleteSucceeds, Codes
  <2> QED
    BY <2>1, <2>2 DEF Kinds
<1>6. CASE DeleteFindsInUse(h) \/ PublishFindsNoInstance(h) \/ ExpandFindsNothing(h)
             \/ ExpandFindsInUse(h)
  BY <1>6, FindErrorKind
  DEF DeleteFindsInUse, PublishFindsNoInstance, ExpandFindsNothing, ExpandFindsInUse, Codes
<1>7. CASE PublishFindsAttached(h)
  <2>1. Tells(h, "attached")
    BY <1>7, FindReturns
    DEF PublishFindsAttached, AttachmentSucceeds, Tells, Codes
  <2>2. COTypeOK'
    BY <1>7, HandlerFacts, RequestFields
    DEF PublishFindsAttached, AttachmentSucceeds, BaseInv, TypeOK, COTypeOK
  <2> QED
    BY <2>1, <2>2 DEF Kinds
<1>8. CASE UnpublishFindsDetached(h)
  <2>1. Tells(h, "detached")
    BY <1>8, FindReturns
    DEF UnpublishFindsDetached, AttachmentSucceeds, Tells, Codes, InstanceExists
  <2>2. COTypeOK'
    BY <1>8, HandlerFacts, RequestFields
    DEF UnpublishFindsDetached, AttachmentSucceeds, BaseInv, TypeOK, COTypeOK
  <2> QED
    BY <2>1, <2>2 DEF Kinds
<1>9. CASE ExpandInvalid(h)
  BY <1>9, ValidationCodes, FindErrorKind DEF ExpandInvalid, ExpandAllowed, Codes
<1>10. CASE ExpandFindsLargeEnough(h)
  <2>1. CapacityOf(disks[req[h].id]) \in Int
    BY <1>10, HandlerFacts, RequestFields, CapacityType
    DEF ExpandFindsLargeEnough, ExpandValid, ExpandAllowed, Live, BaseInv, TypeOK, APITypeOK
  <2>2. COTypeOK'
    BY <1>10, <2>1, ExpandClaims DEF ExpandFindsLargeEnough
  <2>3. Quits(h)
    BY <1>10, FindQuits
    DEF ExpandFindsLargeEnough, ExpandValid, ExpandAllowed, ExpandSucceeds, Codes
  <2> QED
    BY <2>2, <2>3 DEF Kinds
<1> QED
  BY <1>1, <1>2, <1>3, <1>4, <1>5, <1>6, <1>7, <1>8, <1>9, <1>10 DEF Finds

\* A failed query.
LEMMA QueryFailsKind ==
  ASSUME BaseInv, NEW h \in Handlers, QueryFails(h)
  PROVE  Kinds(h) /\ COTypeOK'
<1> DEFINE code == CASE req[h].call = "CreateVolume" -> "Internal"
                     [] req[h].call = "DeleteVolume" -> "FailedPrecondition"
                     [] OTHER -> "NotFound"
<1>1. code \in Codes
  BY DEF Codes
<1>2. pc[h] = "find" /\ ReturnsError(h, code) /\ UNCHANGED apiVars
  BY DEF QueryFails
<1> HIDE DEF code
<1> QED
  BY <1>1, <1>2, FindErrorKind

\* The start of an operation.
LEMMA SendsKind ==
  ASSUME BaseInv, NEW h \in Handlers, Sends(h) \/ SendFails(h)
  PROVE  Kinds(h) /\ COTypeOK'
<1>1. CASE Sends(h)
  <2>1. req' = [req EXCEPT ![h] = req[h]]
    BY <1>1 DEF Sends, BaseInv, TypeOK
  <2>2. Starts(h)
    BY <1>1, <2>1 DEF Sends, Starts, Step, NoReply, Codes
  <2> QED
    BY <1>1, <2>2, SameCO DEF Sends, Kinds
<1>2. CASE SendFails(h)
  <2>1. Active(h) /\ ops[h] = NoOp
    BY <1>2 DEF SendFails, Active, BaseInv, OpsAreOwned, OpIsOwned, Abandoned, Pending
  <2>2. APICall(h) \in Calls
    BY <2>1, HandlerFacts, APICallType DEF BaseInv
  <2>3. \E o : Step(h, "idle", NoRequest, o) /\ LeftBehind(h, o)
    <3>1. CASE UNCHANGED ops
      <4>1. ops' = [ops EXCEPT ![h] = NoOp]
        BY <2>1, <3>1, HandlerFacts
      <4> QED
        BY <1>2, <4>1 DEF SendFails, ReturnsError, Returns, Step, LeftBehind, Codes
    <3>2. CASE ops' = [ops EXCEPT ![h] = [Operation(APICall(h)) EXCEPT !.awaited = FALSE]]
      <4> DEFINE o == [Operation(APICall(h)) EXCEPT !.awaited = FALSE]
      <4>1. o \in Operations
        BY <2>2, NewOperationType
      <4>2. o.phase = "pending" /\ ~o.awaited /\ o.call = APICall(h)
        BY DEF Operation
      <4>3. LeftBehind(h, o)
        BY <4>1, <4>2 DEF LeftBehind
      <4>4. Step(h, "idle", NoRequest, o)
        BY <1>2, <3>2 DEF SendFails, ReturnsError, Returns, Step, Codes
      <4> QED
        BY <4>3, <4>4
    <3> QED
      BY <1>2, <3>1, <3>2 DEF SendFails
  <2>4. Quits(h)
    BY <1>2, <2>1, <2>3 DEF SendFails, ReturnsError, Returns, Quits, coVars
  <2> QED
    BY <1>2, <2>4, SameCO DEF SendFails, ReturnsError, Kinds
<1> QED
  BY <1>1, <1>2

\* A handler whose operation has succeeded, and that returns.
LEMMA AwaitedReturns ==
  ASSUME BaseInv, NEW h \in Handlers, NEW call, Awaited(h, call), Returns(h, "OK")
  PROVE  /\ Active(h)
         /\ Step(h, "idle", NoRequest, NoOp)
         /\ settled' = [settled EXCEPT ![h] = FALSE]
  BY DEF Awaited, Returns, Step, Active, Codes

\* The end of a wait.
LEMMA AwaitSucceedsKind ==
  ASSUME BaseInv, NEW h \in Handlers, AwaitSucceeds(h)
  PROVE  Kinds(h) /\ COTypeOK'
<1>1. CASE CreateDone(h)
  <2>1. ops[h].id \in DiskIds
    BY <1>1, HandlerFacts DEF CreateDone, Awaited
  <2>2. ops[h].call.disk \in Disks
    <3>1. ops[h].call = APICall(h) /\ req[h].call = "CreateVolume"
      BY <1>1, HandlerFacts DEF CreateDone, Awaited
    <3>2. APICall(h) \in Calls /\ APICall(h).kind = "create"
      BY <1>1, <3>1, HandlerFacts, APICallType
      DEF APICall, BaseInv, Active, CreateDone, Awaited
    <3> QED
      BY <3>1, <3>2 DEF Calls
  <2>3. COTypeOK'
    BY <1>1, <2>1, <2>2, CreateClaims DEF CreateDone, Awaited
  <2>4. Quits(h)
    BY <1>1, AwaitedReturns DEF CreateDone, CreateSucceeds, Quits, LeftBehind
  <2> QED
    BY <2>3, <2>4 DEF Kinds
<1>2. CASE DeleteDone(h)
  <2>1. COTypeOK'
    BY <1>2, DeleteClaims DEF DeleteDone
  <2>2. Quits(h)
    BY <1>2, AwaitedReturns DEF DeleteDone, DeleteSucceeds, Quits, LeftBehind
  <2> QED
    BY <2>1, <2>2 DEF Kinds
<1>3. CASE PublishDone(h)
  <2>1. Tells(h, "attached")
    BY <1>3, AwaitedReturns DEF PublishDone, AttachmentSucceeds, Awaited, Tells
  <2>2. COTypeOK'
    BY <1>3, HandlerFacts, RequestFields
    DEF PublishDone, Awaited, AttachmentSucceeds, BaseInv, TypeOK, COTypeOK
  <2> QED
    BY <2>1, <2>2 DEF Kinds
<1>4. CASE UnpublishDone(h)
  <2>1. Tells(h, "detached")
    BY <1>4, AwaitedReturns DEF UnpublishDone, AttachmentSucceeds, Awaited, Tells
  <2>2. COTypeOK'
    BY <1>4, HandlerFacts, RequestFields
    DEF UnpublishDone, Awaited, AttachmentSucceeds, BaseInv, TypeOK, COTypeOK
  <2> QED
    BY <2>1, <2>2 DEF Kinds
<1>5. CASE ExpandDone(h)
  <2>1. RequestSizeToGiB(req[h].range) \in Int
    BY <1>5, HandlerFacts, RequestFields, GiBType, ControllerAssumption
    DEF ExpandDone, Awaited
  <2>2. NumBytesInGiB * RequestSizeToGiB(req[h].range) \in Int
    BY <2>1, UnitsAssumption
  <2>3. COTypeOK'
    BY <1>5, <2>2, ExpandClaims DEF ExpandDone
  <2>4. Quits(h)
    BY <1>5, AwaitedReturns DEF ExpandDone, ExpandSucceeds, Quits, LeftBehind
  <2> QED
    BY <2>3, <2>4 DEF Kinds
<1> QED
  BY <1>1, <1>2, <1>3, <1>4, <1>5 DEF AwaitSucceeds

LEMMA AwaitFailsKind ==
  ASSUME BaseInv, NEW h \in Handlers, AwaitFails(h)
  PROVE  Kinds(h) /\ COTypeOK'
<1> DEFINE o == IF Pending(h) THEN [ops[h] EXCEPT !.awaited = FALSE] ELSE NoOp
<1>1. LeftBehind(h, o)
  <2>1. CASE Pending(h)
    <3>1. ops[h] \in Operations /\ ops[h].call = APICall(h)
      BY HandlerFacts DEF AwaitFails
    <3> QED
      BY <2>1, <3>1 DEF LeftBehind, Operations, Pending
  <2>2. CASE ~Pending(h)
    BY <2>2 DEF LeftBehind
  <2> QED
    BY <2>1, <2>2
<1>2. Step(h, "idle", NoRequest, o)
  BY DEF AwaitFails, Releases, ReturnsError, Returns, Step, Codes
<1>3. Active(h) /\ settled' = [settled EXCEPT ![h] = FALSE] /\ UNCHANGED coVars
  BY DEF AwaitFails, ReturnsError, Returns, Active
<1> HIDE DEF o
<1>4. Quits(h)
  BY <1>1, <1>2, <1>3 DEF Quits, coVars
<1> QED
  BY <1>3, <1>4, SameCO DEF Kinds

\* Every step of a handler is of one of the kinds, and keeps what the CO knows
\* in its type.
LEMMA HandlerKind ==
  ASSUME BaseInv, NEW h \in Handlers, Handler(h)
  PROVE  Kinds(h) /\ COTypeOK'
  BY FindsKind, QueryFailsKind, SendsKind, AwaitSucceedsKind, AwaitFailsKind DEF Handler

\* A request that begins is a request.
LEMMA BeginsKind ==
  ASSUME BaseInv, NEW h \in Handlers, Begins(h)
  PROVE  /\ settled' \in [Handlers -> BOOLEAN]
         /\ COTypeOK'
         /\ \E r \in Requests : r # NoRequest /\ Begin(h, r)
<1> USE DEF BaseInv, TypeOK, COTypeOK
<1>1. ASSUME NEW r \in CreateRequests, BeginCreate(h, r)
      PROVE  /\ UNCHANGED <<settled, coVars>>
             /\ Begin(h, CreateVolumeRequest(r))
             /\ CreateVolumeRequest(r) \in Requests /\ CreateVolumeRequest(r) # NoRequest
  BY <1>1 DEF BeginCreate, Requests, CreateVolumeRequest, NoRequest
<1>2. ASSUME NEW name \in VolumeNames, BeginDelete(h, name)
      PROVE  /\ UNCHANGED settled
             /\ COTypeOK'
             /\ \E r \in Requests : r # NoRequest /\ Begin(h, r)
  <2> DEFINE r == [call |-> "DeleteVolume", id |-> claims[name].id]
  <2>1. claims[name] \in Claims
    BY <1>2 DEF BeginDelete, NoClaim
  <2>2. r \in Requests /\ r # NoRequest
    BY <2>1 DEF Claims, Requests, NoRequest
  <2>3. COTypeOK'
    <3>1. [claims[name] EXCEPT !.state = IF @ = "bound" THEN "deleting" ELSE @] \in Claims
      BY <2>1 DEF Claims
    <3> QED
      BY <1>2, <3>1 DEF BeginDelete
  <2> QED
    BY <1>2, <2>2, <2>3 DEF BeginDelete
<1>3. ASSUME NEW r, r.id \in DiskIds, r.node \in Nodes, BeginAttachment(h, r)
      PROVE  settled' \in [Handlers -> BOOLEAN] /\ COTypeOK' /\ Begin(h, r)
  BY <1>3 DEF BeginAttachment
<1>4. ASSUME NEW id \in DiskIds, NEW n \in Nodes, NEW mode \in PublishModes,
             BeginPublish(h, id, n, mode)
      PROVE  /\ settled' \in [Handlers -> BOOLEAN]
             /\ COTypeOK'
             /\ \E r \in Requests : r # NoRequest /\ Begin(h, r)
  <2> DEFINE r == [call |-> "PublishVolume", id |-> id, node |-> n, mode |-> mode]
  <2>1. r \in Requests /\ r # NoRequest
    BY DEF Requests, NoRequest
  <2> QED
    BY <1>3, <1>4, <2>1 DEF BeginPublish
<1>5. ASSUME NEW id \in DiskIds, NEW n \in Nodes, BeginUnpublish(h, id, n)
      PROVE  /\ settled' \in [Handlers -> BOOLEAN]
             /\ COTypeOK'
             /\ \E r \in Requests : r # NoRequest /\ Begin(h, r)
  <2> DEFINE r == [call |-> "UnpublishVolume", id |-> id, node |-> n]
  <2>1. r \in Requests /\ r # NoRequest
    BY DEF Requests, NoRequest
  <2> QED
    BY <1>3, <1>5, <2>1 DEF BeginUnpublish
<1>6. ASSUME NEW id \in DiskIds, NEW range \in ExpandRanges, BeginExpand(h, id, range)
      PROVE  /\ UNCHANGED <<settled, coVars>>
             /\ \E r \in Requests : r # NoRequest /\ Begin(h, r)
  <2> DEFINE r == [call |-> "ExpandVolume", id |-> id, range |-> range]
  <2>1. r \in Requests /\ r # NoRequest
    BY DEF Requests, NoRequest
  <2> QED
    BY <1>6, <2>1 DEF BeginExpand
<1>7. UNCHANGED coVars => COTypeOK'
  BY DEF coVars
<1> QED
  BY <1>1, <1>2, <1>4, <1>5, <1>6, <1>7 DEF Begins

-----------------------------------------------------------------------------
(* The other steps                                                           *)

\* A restart abandons every operation that still runs.
LEMMA RestartBase ==
  ASSUME BaseInv, Restart
  PROVE  BaseInv'
<1>1. \A c \in Handlers : Pending(c) =>
        /\ [ops[c] EXCEPT !.awaited = FALSE] \in Operations
        /\ [ops[c] EXCEPT !.awaited = FALSE].phase = "pending"
        /\ ~[ops[c] EXCEPT !.awaited = FALSE].awaited
  <2>1. \A o \in Operations :
          /\ [o EXCEPT !.awaited = FALSE] \in Operations
          /\ [o EXCEPT !.awaited = FALSE].phase = o.phase
          /\ ~[o EXCEPT !.awaited = FALSE].awaited
    BY DEF Operations
  <2>2. \A c \in Handlers : Pending(c) => ops[c] \in Operations
    BY DEF BaseInv, TypeOK, APITypeOK, NoOp, Pending
  <2> QED
    BY <2>1, <2>2 DEF Pending
<1>2. APITypeOK'
  BY <1>1 DEF Restart, BaseInv, TypeOK, APITypeOK, NoOp
<1>3. DriverTypeOK' /\ COTypeOK'
  BY DEF Restart, BaseInv, TypeOK, DriverTypeOK, COTypeOK, coVars, Requests, NoReply, Codes
<1>4. OpsAreOwned'
  <2> SUFFICES ASSUME NEW h \in Handlers
               PROVE  OpIsOwned(h)'
    BY DEF OpsAreOwned
  <2>1. pc'[h] = "idle" /\ req'[h] = NoRequest
    BY DEF Restart
  <2>2. ops'[h] = NoOp \/ (ops'[h].phase = "pending" /\ ~ops'[h].awaited)
    BY <1>1 DEF Restart
  <2> QED
    BY <2>1, <2>2 DEF OpIsOwned, Active, Abandoned, Pending
<1> QED
  BY <1>2, <1>3, <1>4 DEF BaseInv, TypeOK, DriverTypeOK, COTypeOK

\* An operation that ends stays its owner's.
LEMMA ResolveBase ==
  ASSUME BaseInv, NEW c \in Handlers, Pending(c),
         NEW outcome, NEW id,
         \/ outcome = "succeeded" /\ id \in DiskIds
         \/ outcome = "failed" /\ id = NoId,
         Resolve(c, outcome, id)
  PROVE  /\ ops' \in [Handlers -> {NoOp} \cup Operations]
         /\ \A g \in Handlers : ops'[g].phase = "succeeded" => ops'[g].id \in DiskIds
         /\ \A g \in Handlers : g # c => ops'[g] = ops[g]
         /\ IF ops[c].awaited
              THEN ops'[c].awaited /\ ops'[c].call = ops[c].call /\ ops'[c] # NoOp
              ELSE ops'[c] = NoOp
<1>1. ops[c] \in Operations /\ ops \in [Handlers -> {NoOp} \cup Operations]
  BY DEF BaseInv, TypeOK, APITypeOK, Pending, NoOp
<1>2. [ops[c] EXCEPT !.phase = outcome, !.id = id] \in Operations
  BY <1>1 DEF Operations, Phases
<1>3. CASE ops[c].awaited
  BY <1>1, <1>2, <1>3 DEF Resolve, BaseInv, TypeOK, APITypeOK, Operations, NoOp
<1>4. CASE ~ops[c].awaited
  BY <1>1, <1>4 DEF Resolve, BaseInv, TypeOK, APITypeOK, NoOp
<1> QED
  BY <1>3, <1>4

\* What an operation can do to the disks and the attachments.
LEMMA EffectType ==
  ASSUME BaseInv, NEW c \in Handlers, TakesEffect(c) \/ OperationFails(c)
  PROVE  /\ Pending(c)
         /\ \E outcome, id :
              /\ Resolve(c, outcome, id)
              /\ \/ outcome = "succeeded" /\ id \in DiskIds
                 \/ outcome = "failed" /\ id = NoId
         /\ disks' \in [DiskIds -> {NoDisk, DeletedDisk} \cup Disks]
         /\ attachments' \in [DiskIds \X Nodes -> {"none"} \cup AttachModes]
         /\ UNCHANGED instances
<1> USE DEF BaseInv, TypeOK, APITypeOK
<1>1. Pending(c) => ops[c].call \in Calls
  BY DEF Pending, NoOp, Operations
<1>2. CASE CreateTakesEffect(c)
  <2>1. ops[c].call.disk \in Disks
    BY <1>1, <1>2 DEF CreateTakesEffect, Calls
  <2>2. \A size \in Renderings(ops[c].call.disk.size) :
          [ops[c].call.disk EXCEPT !.size = size] \in Disks
    BY <2>1, RenderingsType DEF Disks
  <2> QED
    BY <1>2, <2>2 DEF CreateTakesEffect
<1>3. CASE DeleteTakesEffect(c)
  <2>1. ops[c].call.id \in DiskIds
    BY <1>1, <1>3 DEF DeleteTakesEffect, Calls
  <2> QED
    BY <1>3, <2>1 DEF DeleteTakesEffect
<1>4. CASE AttachTakesEffect(c)
  <2>1. ops[c].call.id \in DiskIds /\ ops[c].call.mode \in AttachModes
    BY <1>1, <1>4 DEF AttachTakesEffect, Calls
  <2> QED
    BY <1>4, <2>1 DEF AttachTakesEffect
<1>5. CASE DetachTakesEffect(c)
  <2>1. ops[c].call.id \in DiskIds
    BY <1>1, <1>5 DEF DetachTakesEffect, Calls
  <2> QED
    BY <1>5, <2>1 DEF DetachTakesEffect
<1>6. CASE ResizeTakesEffect(c)
  <2>1. ops[c].call.id \in DiskIds /\ ops[c].call.size \in Sizes
    BY <1>1, <1>6 DEF ResizeTakesEffect, Calls
  <2>2. disks[ops[c].call.id] \in Disks
    BY <1>6, <2>1 DEF ResizeTakesEffect, Live
  <2>3. \A size \in Renderings(ops[c].call.size) :
          [disks[ops[c].call.id] EXCEPT !.size = size] \in Disks
    BY <2>1, <2>2, RenderingsType DEF Disks
  <2> QED
    BY <1>6, <2>1, <2>3 DEF ResizeTakesEffect
<1>7. CASE OperationFails(c)
  BY <1>7 DEF OperationFails
<1> QED
  BY <1>2, <1>3, <1>4, <1>5, <1>6, <1>7 DEF TakesEffect

\* A step of the API.
LEMMA APIBase ==
  ASSUME BaseInv, API
  PROVE  BaseInv'
<1>1. /\ UNCHANGED <<pc, req, settled, claims, view>>
      /\ lastReply' = NoReply
  BY DEF API, driverVars, coVars
<1>2. DriverTypeOK' /\ COTypeOK'
  BY <1>1 DEF BaseInv, TypeOK, DriverTypeOK, COTypeOK, NoReply, Codes
<1>3. \A g \in Handlers : APICall(g)' = APICall(g)
  BY <1>1 DEF APICall, DiskLocation
<1>4. ASSUME NEW c \in Handlers, TakesEffect(c) \/ OperationFails(c)
      PROVE  APITypeOK' /\ OpsAreOwned'
  <2>1. PICK outcome, id :
          /\ Resolve(c, outcome, id)
          /\ \/ outcome = "succeeded" /\ id \in DiskIds
             \/ outcome = "failed" /\ id = NoId
    BY <1>4, EffectType
  <2>2. /\ ops' \in [Handlers -> {NoOp} \cup Operations]
        /\ \A g \in Handlers : ops'[g].phase = "succeeded" => ops'[g].id \in DiskIds
        /\ \A g \in Handlers : g # c => ops'[g] = ops[g]
        /\ IF ops[c].awaited
             THEN ops'[c].awaited /\ ops'[c].call = ops[c].call /\ ops'[c] # NoOp
             ELSE ops'[c] = NoOp
    BY <1>4, <2>1, EffectType, ResolveBase
  <2>3. APITypeOK'
    BY <1>4, <2>2, EffectType DEF BaseInv, TypeOK, APITypeOK
  <2>4. OpsAreOwned'
    <3> SUFFICES ASSUME NEW g \in Handlers
                 PROVE  OpIsOwned(g)'
      BY DEF OpsAreOwned
    <3>1. OpIsOwned(g) /\ pc'[g] = pc[g] /\ req'[g] = req[g]
      BY <1>1 DEF BaseInv, OpsAreOwned
    <3>2. CASE g = c
      <4>1. Pending(c) /\ ops[c] # NoOp
        BY <1>4, EffectType DEF Pending, NoOp
      <4> QED
        BY <1>3, <2>2, <3>1, <3>2, <4>1 DEF OpIsOwned, Active, Abandoned
    <3>3. CASE g # c
      BY <1>3, <2>2, <3>1, <3>3 DEF OpIsOwned, Active, Abandoned, Pending
    <3> QED
      BY <3>2, <3>3
  <2> QED
    BY <2>3, <2>4
<1>5. ASSUME NEW n \in Nodes, DeleteInstance(n)
      PROVE  APITypeOK' /\ OpsAreOwned'
  <2>1. APITypeOK'
    BY <1>5 DEF DeleteInstance, BaseInv, TypeOK, APITypeOK
  <2>2. OpsAreOwned'
    BY <1>1, <1>3, <1>5
    DEF DeleteInstance, BaseInv, OpsAreOwned, OpIsOwned, Active, Abandoned, Pending
  <2> QED
    BY <2>1, <2>2
<1> QED
  BY <1>2, <1>4, <1>5 DEF API, APINext, BaseInv, TypeOK, DriverTypeOK, COTypeOK

\* Every step keeps the base invariant.
LEMMA NextBase == BaseInv /\ [Next]_vars => BaseInv'
<1> SUFFICES ASSUME BaseInv, [Next]_vars PROVE BaseInv'
  OBVIOUS
<1>1. ASSUME NEW h \in Handlers, Begins(h) PROVE BaseInv'
  BY <1>1, BeginsKind, BeginBase
<1>2. ASSUME NEW h \in Handlers, Handler(h) PROVE BaseInv'
  BY <1>2, HandlerKind, KindsBase DEF Kinds
<1>3. CASE UNCHANGED vars
  <2>1. \A g \in Handlers : APICall(g)' = APICall(g) /\ Abandoned(g)' = Abandoned(g)
    BY <1>3 DEF vars, apiVars, driverVars, APICall, DiskLocation, Abandoned, Pending
  <2>2. OpsAreOwned'
    BY <1>3, <2>1
    DEF vars, apiVars, driverVars, BaseInv, OpsAreOwned, OpIsOwned, Active
  <2> QED
    BY <1>3, <2>2 DEF vars, apiVars, driverVars, coVars, BaseInv, TypeOK, APITypeOK
<1> QED
  BY <1>1, <1>2, <1>3, RestartBase, APIBase DEF Next

\* Every variable keeps its type, and an operation is awaited by nobody but the
\* handler whose request asked for it (controller.go).
THEOREM TypeCorrect == Spec => []TypeOK
<1>1. BaseInv => TypeOK
  BY DEF BaseInv
<1> QED
  BY InitBase, NextBase, <1>1, PTL DEF Spec

-----------------------------------------------------------------------------
(* What the CO knows about attachments.  AttachmentInv is inductive when a   *)
(* deletion takes no attachment away that anybody relies on: then only       *)
(* attach and detach operations matter.  That is so when the API refuses to  *)
(* delete an attached disk, and when the CO deletes what it does not use     *)
(* (VolumeProofs).                                                           *)

\* Nobody relies on an attachment of the disk.
Unused(id) ==
    \A n \in Nodes :
        /\ view[<<id, n>>] # "attached"
        /\ \A h \in Handlers : ~WorksOn(h, id, n)

DeletionsAreSafe ==
    \/ ProtectsInUse
    \/ \A c \in Handlers : Pending(c) /\ ops[c].call.kind = "delete" => Unused(ops[c].call.id)

KnowledgeInv ==
    /\ OneWorker
    /\ WorkIsUnknown
    /\ NothingOpposes
    /\ KnownIsSafe
    /\ DoneIsDone
    /\ AttachmentViewIsTrue

LEMMA AttachmentInvParts == AttachmentInv <=> BaseInv /\ KnowledgeInv
  BY DEF AttachmentInv, BaseInv, KnowledgeInv

\* The API calls that change attachments are those of Publish and Unpublish.
LEMMA CallFacts ==
  ASSUME NEW h \in Handlers, req[h] \in Requests, req[h] # NoRequest
  PROVE  /\ APICall(h).kind = "attach" <=> req[h].call = "PublishVolume"
         /\ APICall(h).kind = "detach" <=> req[h].call = "UnpublishVolume"
         /\ req[h].call \in {"PublishVolume", "UnpublishVolume"} =>
              APICall(h).id = req[h].id /\ APICall(h).node = req[h].node
<1>1. req[h].call \in {"CreateVolume", "DeleteVolume", "PublishVolume",
                       "UnpublishVolume", "ExpandVolume"}
  BY DEF Requests, CreateVolumeRequest
<1> QED
  BY <1>1 DEF APICall

\* Who awaits an attach or a detach works on its disk and node.
LEMMA AwaitedIsWork ==
  ASSUME BaseInv, NEW c \in Handlers, ops[c].phase # "none", ops[c].awaited,
         ops[c].call.kind \in {"attach", "detach"}
  PROVE  /\ WorksOn(c, ops[c].call.id, ops[c].call.node)
         /\ req[c].call = IF ops[c].call.kind = "attach" THEN "PublishVolume" ELSE "UnpublishVolume"
<1>1. pc[c] = "await" /\ ops[c].call = APICall(c) /\ req[c] \in Requests /\ req[c] # NoRequest
  BY DEF BaseInv, OpsAreOwned, OpIsOwned, NoOp, Abandoned, TypeOK, Active
<1> QED
  BY <1>1, CallFacts DEF WorksOn, Active

\* So one that runs beside a worker on the same disk and node is abandoned.
LEMMA OthersAreAbandoned ==
  ASSUME BaseInv, OneWorker, NEW c \in Handlers, NEW h \in Handlers, c # h,
         NEW id \in DiskIds, NEW n \in Nodes, NEW kind \in {"attach", "detach"},
         Runs(c, kind, id, n), WorksOn(h, id, n)
  PROVE  Abandoned(c)
<1>1. ops[c].phase # "none"
  BY DEF Runs, Pending
<1>2. CASE ops[c].awaited
  <2>1. WorksOn(c, id, n)
    BY <1>1, <1>2, AwaitedIsWork DEF Runs
  <2> QED
    BY <2>1 DEF OneWorker
<1>3. CASE ~ops[c].awaited
  BY <1>3 DEF Abandoned, Runs
<1> QED
  BY <1>2, <1>3

\* After a step, only the handler that took it has changed.
LEMMA StepFacts ==
  ASSUME BaseInv, NEW h \in Handlers, NEW l, NEW r, NEW o, Step(h, l, r, o)
  PROVE  /\ pc'[h] = l /\ req'[h] = r /\ ops'[h] = o
         /\ \A g \in Handlers : g # h =>
              pc'[g] = pc[g] /\ req'[g] = req[g] /\ ops'[g] = ops[g]
         /\ UNCHANGED <<attachments, instances>>
  BY DEF Step, BaseInv, TypeOK, APITypeOK

\* The initial states.
LEMMA InitKnowledge == Init => KnowledgeInv
<1> SUFFICES ASSUME Init PROVE KnowledgeInv
  OBVIOUS
<1>1. \A h \in Handlers : ~Active(h) /\ ~Pending(h)
  BY DEF Init, APIInit, Active, Pending, NoOp
<1>2. AttachmentViewIsTrue
  BY DEF Init, APIInit, AttachmentViewIsTrue
<1> QED
  BY <1>1, <1>2
  DEF KnowledgeInv, OneWorker, WorkIsUnknown, NothingOpposes, KnownIsSafe, DoneIsDone,
      WorksOn, Runs

\* A handler that decides changes nothing that matters here.
LEMMA DecidesKnowledge ==
  ASSUME BaseInv, KnowledgeInv, NEW h \in Handlers, Decides(h)
  PROVE  KnowledgeInv'
<1>1. /\ \A g \in Handlers : /\ req'[g] = req[g] /\ ops'[g] = ops[g]
                             /\ pc'[g] # "idle" <=> pc[g] # "idle"
      /\ UNCHANGED <<attachments, instances, settled, view>>
  BY StepFacts, HandlerFacts DEF Decides, coVars
<1>2. \A g \in Handlers : \A id, n : WorksOn(g, id, n)' = WorksOn(g, id, n)
  BY <1>1 DEF WorksOn, Active
<1>3. \A c, g \in Handlers : Opposes(c, req[g])' = Opposes(c, req[g])
  BY <1>1 DEF Opposes, Abandoned, Pending
<1>4. \A c \in Handlers : \A kind, id, n : Runs(c, kind, id, n)' = Runs(c, kind, id, n)
  BY <1>1 DEF Runs, Pending
<1>5. OneWorker' /\ WorkIsUnknown'
  BY <1>1, <1>2 DEF KnowledgeInv, OneWorker, WorkIsUnknown
<1>6. NothingOpposes' /\ KnownIsSafe'
  BY <1>1, <1>2, <1>3, <1>4 DEF KnowledgeInv, NothingOpposes, KnownIsSafe
<1>7. DoneIsDone' /\ AttachmentViewIsTrue'
  BY <1>1, <1>2 DEF KnowledgeInv, DoneIsDone, AttachmentViewIsTrue, BaseInv, TypeOK, APITypeOK
<1> QED
  BY <1>5, <1>6, <1>7 DEF KnowledgeInv

\* The operation it starts changes an attachment nothing is known about.
LEMMA StartsKnowledge ==
  ASSUME BaseInv, KnowledgeInv, NEW h \in Handlers, Starts(h)
  PROVE  KnowledgeInv'
<1>1. /\ \A g \in Handlers : /\ req'[g] = req[g]
                             /\ pc'[g] # "idle" <=> pc[g] # "idle"
                             /\ g # h => ops'[g] = ops[g]
      /\ ops'[h] = Operation(APICall(h))
      /\ UNCHANGED <<attachments, instances, settled, view>>
      /\ pc[h] = "send" /\ req[h] \in Requests /\ req[h] # NoRequest
  BY StepFacts, HandlerFacts DEF Starts, coVars, Active
<1>2. \A g \in Handlers : \A id, n : WorksOn(g, id, n)' = WorksOn(g, id, n)
  BY <1>1 DEF WorksOn, Active
<1>3. OneWorker' /\ WorkIsUnknown'
  BY <1>1, <1>2 DEF KnowledgeInv, OneWorker, WorkIsUnknown
<1>4. NothingOpposes'
  <2>1. \A c, g \in Handlers : Opposes(c, req[g])' => Opposes(c, req[g])
    BY <1>1 DEF Opposes, Abandoned, Pending, Operation
  <2> QED
    BY <1>1, <1>2, <2>1 DEF KnowledgeInv, NothingOpposes
<1>5. KnownIsSafe'
  <2>1. ASSUME NEW c \in Handlers, NEW id \in DiskIds, NEW n \in Nodes,
               NEW kind \in {"attach", "detach"}, Runs(c, kind, id, n)'
        PROVE  Runs(c, kind, id, n) \/ view[<<id, n>>] = "unknown"
    <3>1. CASE c = h
      <4>1. WorksOn(h, id, n)
        BY <1>1, <2>1, <3>1, CallFacts DEF Runs, Operation, WorksOn, Active
      <4> QED
        BY <4>1 DEF KnowledgeInv, WorkIsUnknown
    <3>2. CASE c # h
      BY <1>1, <2>1, <3>2 DEF Runs, Pending
    <3> QED
      BY <3>1, <3>2
  <2> QED
    BY <1>1, <2>1 DEF KnowledgeInv, KnownIsSafe
<1>6. DoneIsDone'
  <2>1. \A g \in Handlers : ops'[g].phase = "succeeded" => ops[g].phase = "succeeded"
    BY <1>1 DEF Operation
  <2> QED
    BY <1>1, <1>2, <2>1 DEF KnowledgeInv, DoneIsDone, BaseInv, TypeOK, APITypeOK
<1>7. AttachmentViewIsTrue'
  BY <1>1 DEF KnowledgeInv, AttachmentViewIsTrue
<1> QED
  BY <1>3, <1>4, <1>5, <1>6, <1>7 DEF KnowledgeInv

\* The operation it leaves behind opposes no other worker and nothing known.
LEMMA QuitsKnowledge ==
  ASSUME BaseInv, KnowledgeInv, NEW h \in Handlers, Quits(h)
  PROVE  KnowledgeInv'
<1>1. PICK o : Step(h, "idle", NoRequest, o) /\ LeftBehind(h, o)
  BY DEF Quits
<1>2. /\ \A g \in Handlers : g # h => /\ req'[g] = req[g] /\ pc'[g] = pc[g]
                                      /\ ops'[g] = ops[g] /\ settled'[g] = settled[g]
      /\ ops'[h] = o /\ pc'[h] = "idle"
      /\ UNCHANGED <<attachments, instances, view>>
      /\ Active(h) /\ req[h] \in Requests /\ req[h] # NoRequest
  BY <1>1, StepFacts, HandlerFacts DEF Quits, BaseInv, TypeOK
<1>3. \A g \in Handlers : \A id, n :
        WorksOn(g, id, n)' => g # h /\ WorksOn(g, id, n)
  BY <1>2 DEF WorksOn, Active
<1>4. OneWorker' /\ WorkIsUnknown'
  BY <1>2, <1>3 DEF KnowledgeInv, OneWorker, WorkIsUnknown
<1>5. ASSUME NEW kind \in {"attach", "detach"}, NEW id \in DiskIds, NEW n \in Nodes,
             Runs(h, kind, id, n)'
      PROVE  WorksOn(h, id, n)
  BY <1>1, <1>2, <1>5, CallFacts DEF LeftBehind, Runs, Pending, NoOp, WorksOn
<1>6. NothingOpposes'
  <2> SUFFICES ASSUME NEW c \in Handlers, NEW g \in Handlers,
                      NEW id \in DiskIds, NEW n \in Nodes,
                      WorksOn(g, id, n)', settled'[g], Opposes(c, req[g])'
               PROVE  FALSE
    BY DEF NothingOpposes
  <2>1. g # h /\ WorksOn(g, id, n) /\ settled[g] /\ req'[g] = req[g]
    BY <1>2, <1>3
  <2>2. CASE c = h
    <3>1. \E kind \in {"attach", "detach"} : Runs(h, kind, id, n)'
      BY <2>1, <2>2 DEF Opposes, Abandoned, Runs, WorksOn
    <3>2. WorksOn(h, id, n)
      BY <1>5, <3>1
    <3> QED
      BY <2>1, <3>2 DEF KnowledgeInv, OneWorker
  <2>3. CASE c # h
    <3>1. Opposes(c, req[g])
      BY <1>2, <2>1, <2>3 DEF Opposes, Abandoned, Pending
    <3> QED
      BY <2>1, <3>1 DEF KnowledgeInv, NothingOpposes
  <2> QED
    BY <2>2, <2>3
<1>7. KnownIsSafe'
  <2>1. ASSUME NEW c \in Handlers, NEW id \in DiskIds, NEW n \in Nodes,
               NEW kind \in {"attach", "detach"}, Runs(c, kind, id, n)'
        PROVE  Runs(c, kind, id, n) \/ view[<<id, n>>] = "unknown"
    BY <1>2, <1>5, <2>1 DEF Runs, Pending, KnowledgeInv, WorkIsUnknown
  <2> QED
    BY <1>2, <2>1 DEF KnowledgeInv, KnownIsSafe
<1>8. DoneIsDone'
  BY <1>2, <1>3 DEF KnowledgeInv, DoneIsDone, BaseInv, TypeOK, APITypeOK
<1>9. AttachmentViewIsTrue'
  BY <1>2 DEF KnowledgeInv, AttachmentViewIsTrue
<1> QED
  BY <1>4, <1>6, <1>7, <1>8, <1>9 DEF KnowledgeInv

\* What a handler tells the CO is true, and nothing that still runs can change
\* it.
LEMMA TellsKnowledge ==
  ASSUME BaseInv, KnowledgeInv, NEW h \in Handlers, NEW known \in {"attached", "detached"},
         Tells(h, known)
  PROVE  KnowledgeInv'
<1> DEFINE i == req[h].id
           m == req[h].node
<1>1. /\ \A g \in Handlers : g # h => /\ req'[g] = req[g] /\ pc'[g] = pc[g]
                                      /\ ops'[g] = ops[g] /\ settled'[g] = settled[g]
      /\ ops'[h] = NoOp /\ pc'[h] = "idle"
      /\ UNCHANGED <<attachments, instances>>
  BY StepFacts DEF Tells, BaseInv, TypeOK
<1>2. i \in DiskIds /\ m \in Nodes /\ WorksOn(h, i, m)
  BY HandlerFacts, RequestFields DEF Tells, WorksOn, Active
<1>3. /\ view'[<<i, m>>] = IF settled[h] THEN known ELSE "unknown"
      /\ \A id \in DiskIds, n \in Nodes : <<id, n>> # <<i, m>> =>
           view'[<<id, n>>] = view[<<id, n>>]
  BY <1>2 DEF Tells, BaseInv, TypeOK
<1>4. \A g \in Handlers : \A id, n :
        WorksOn(g, id, n)' => g # h /\ WorksOn(g, id, n)
  BY <1>1 DEF WorksOn, Active
<1>5. OneWorker'
  BY <1>4 DEF KnowledgeInv, OneWorker
<1>6. WorkIsUnknown'
  <2> SUFFICES ASSUME NEW g \in Handlers, NEW id \in DiskIds, NEW n \in Nodes,
                      WorksOn(g, id, n)'
               PROVE  view'[<<id, n>>] = "unknown"
    BY DEF WorkIsUnknown
  <2>1. g # h /\ WorksOn(g, id, n)
    BY <1>4
  <2>2. <<id, n>> # <<i, m>>
    BY <1>2, <2>1 DEF KnowledgeInv, OneWorker
  <2> QED
    BY <1>3, <2>1, <2>2 DEF KnowledgeInv, WorkIsUnknown
<1>7. NothingOpposes'
  <2>1. \A c, g \in Handlers : g # h /\ Opposes(c, req[g])' => Opposes(c, req[g])
    BY <1>1 DEF Opposes, Abandoned, Pending, NoOp
  <2> QED
    BY <1>1, <1>4, <2>1 DEF KnowledgeInv, NothingOpposes
<1>8. KnownIsSafe'
  <2> SUFFICES ASSUME NEW c \in Handlers, NEW id \in DiskIds, NEW n \in Nodes,
                      NEW kind \in {"attach", "detach"}, Runs(c, kind, id, n)',
                      view'[<<id, n>>] = IF kind = "attach" THEN "detached" ELSE "attached"
               PROVE  FALSE
    BY DEF KnownIsSafe
  <2>1. c # h /\ Runs(c, kind, id, n)
    BY <1>1 DEF Runs, Pending, NoOp
  <2>2. CASE <<id, n>> = <<i, m>>
    <3>1. settled[h] /\ known = IF kind = "attach" THEN "detached" ELSE "attached"
      BY <1>3, <2>2
    <3>2. Abandoned(c)
      BY <1>2, <2>1, <2>2, OthersAreAbandoned DEF KnowledgeInv
    <3>3. Opposes(c, req[h])
      BY <2>1, <2>2, <3>1, <3>2 DEF Opposes, Runs, Tells
    <3> QED
      BY <1>2, <3>1, <3>3 DEF KnowledgeInv, NothingOpposes
  <2>3. CASE <<id, n>> # <<i, m>>
    BY <1>3, <2>1, <2>3 DEF KnowledgeInv, KnownIsSafe
  <2> QED
    BY <2>2, <2>3
<1>9. DoneIsDone'
  BY <1>1, <1>4 DEF KnowledgeInv, DoneIsDone, BaseInv, TypeOK, APITypeOK
<1>10. AttachmentViewIsTrue'
  <2> SUFFICES ASSUME NEW id \in DiskIds, NEW n \in instances
               PROVE  /\ view'[<<id, n>>] = "attached" => attachments[<<id, n>>] # "none"
                      /\ view'[<<id, n>>] = "detached" => attachments[<<id, n>>] = "none"
    BY <1>1 DEF AttachmentViewIsTrue
  <2>1. n \in Nodes
    BY DEF BaseInv, TypeOK, APITypeOK
  <2>2. CASE <<id, n>> = <<i, m>> /\ settled[h]
    <3>1. attachments[<<i, m>>] # "none" <=> known = "attached"
      BY <1>2, <2>2 DEF Tells, IsAttached, KnowledgeInv, DoneIsDone
    <3> QED
      BY <1>3, <2>2, <3>1
  <2>3. CASE <<id, n>> = <<i, m>> /\ ~settled[h]
    BY <1>3, <2>3
  <2>4. CASE <<id, n>> # <<i, m>>
    BY <1>3, <2>1, <2>4 DEF KnowledgeInv, AttachmentViewIsTrue
  <2> QED
    BY <2>2, <2>3, <2>4
<1> QED
  BY <1>5, <1>6, <1>7, <1>8, <1>9, <1>10 DEF KnowledgeInv

\* A request about an attachment begins alone and knowing nothing.
LEMMA BeginAttachmentKnowledge ==
  ASSUME BaseInv, KnowledgeInv, NEW h \in Handlers, NEW r \in Requests,
         r.call \in {"PublishVolume", "UnpublishVolume"}, BeginAttachment(h, r)
  PROVE  KnowledgeInv'
<1>1. r.id \in DiskIds /\ r.node \in Nodes
  BY RequestFields
<1>2. /\ \A g \in Handlers : g # h => /\ req'[g] = req[g] /\ pc'[g] = pc[g]
                                      /\ settled'[g] = settled[g]
      /\ pc'[h] = "find" /\ req'[h] = r /\ ops[h] = NoOp
      /\ settled'[h] = (\A c \in Handlers : ~Opposes(c, r))
      /\ UNCHANGED <<attachments, instances, ops>>
  BY DEF BeginAttachment, Begin, apiVars, BaseInv, TypeOK
<1>3. /\ view'[<<r.id, r.node>>] = "unknown"
      /\ \A id \in DiskIds, n \in Nodes : <<id, n>> # <<r.id, r.node>> =>
           view'[<<id, n>>] = view[<<id, n>>]
  BY <1>1 DEF BeginAttachment, BaseInv, TypeOK
<1>4. \A g \in Handlers : \A id, n :
        WorksOn(g, id, n)' =>
          IF g = h THEN id = r.id /\ n = r.node ELSE WorksOn(g, id, n)
  BY <1>2 DEF WorksOn, Active
<1>5. \A g \in Handlers : ~WorksOn(g, r.id, r.node)
  BY DEF BeginAttachment, Begin, SameQueue, WorksOn
<1>6. OneWorker'
  BY <1>4, <1>5 DEF KnowledgeInv, OneWorker
<1>7. WorkIsUnknown'
  BY <1>3, <1>4 DEF KnowledgeInv, WorkIsUnknown
<1>8. NothingOpposes'
  <2> SUFFICES ASSUME NEW c \in Handlers, NEW g \in Handlers,
                      NEW id \in DiskIds, NEW n \in Nodes,
                      WorksOn(g, id, n)', settled'[g], Opposes(c, req[g])'
               PROVE  FALSE
    BY DEF NothingOpposes
  <2>1. Opposes(c, req'[g])
    BY <1>2 DEF Opposes, Abandoned, Pending
  <2>2. CASE g = h
    BY <1>2, <2>1, <2>2
  <2>3. CASE g # h
    BY <1>2, <1>4, <2>1, <2>3 DEF KnowledgeInv, NothingOpposes
  <2> QED
    BY <2>2, <2>3
<1>9. KnownIsSafe'
  <2>1. \A id \in DiskIds, n \in Nodes : view'[<<id, n>>] \in {"unknown", view[<<id, n>>]}
    BY <1>3
  <2> QED
    BY <1>2, <2>1 DEF KnowledgeInv, KnownIsSafe, Runs, Pending
<1>10. DoneIsDone'
  <2>1. ops'[h].phase # "succeeded"
    BY <1>2 DEF NoOp
  <2> QED
    BY <1>2, <1>4, <2>1 DEF KnowledgeInv, DoneIsDone, BaseInv, TypeOK, APITypeOK
<1>11. AttachmentViewIsTrue'
  <2> SUFFICES ASSUME NEW id \in DiskIds, NEW n \in instances
               PROVE  /\ view'[<<id, n>>] = "attached" => attachments[<<id, n>>] # "none"
                      /\ view'[<<id, n>>] = "detached" => attachments[<<id, n>>] = "none"
    BY <1>2 DEF AttachmentViewIsTrue
  <2>1. n \in Nodes
    BY DEF BaseInv, TypeOK, APITypeOK
  <2>2. view'[<<id, n>>] \in {"unknown", view[<<id, n>>]}
    BY <1>3, <2>1
  <2> QED
    BY <2>2 DEF KnowledgeInv, AttachmentViewIsTrue
<1> QED
  BY <1>6, <1>7, <1>8, <1>9, <1>10, <1>11 DEF KnowledgeInv

\* Any other request does not touch what is known about attachments.
LEMMA BeginOtherKnowledge ==
  ASSUME BaseInv, KnowledgeInv, NEW h \in Handlers, NEW r,
         r.call \notin {"PublishVolume", "UnpublishVolume"},
         Begin(h, r), UNCHANGED <<settled, view>>
  PROVE  KnowledgeInv'
<1>1. /\ \A g \in Handlers : g # h => req'[g] = req[g] /\ pc'[g] = pc[g]
      /\ req'[h] = r
      /\ UNCHANGED <<attachments, instances, ops, settled, view>>
  BY DEF Begin, apiVars, BaseInv, TypeOK
<1>2. \A g \in Handlers : \A id, n : WorksOn(g, id, n)' => g # h /\ WorksOn(g, id, n)
  BY <1>1 DEF WorksOn, Active
<1>3. OneWorker' /\ WorkIsUnknown'
  BY <1>1, <1>2 DEF KnowledgeInv, OneWorker, WorkIsUnknown
<1>4. NothingOpposes'
  <2>1. \A c, g \in Handlers : g # h /\ Opposes(c, req[g])' => Opposes(c, req[g])
    BY <1>1 DEF Opposes, Abandoned, Pending
  <2> QED
    BY <1>1, <1>2, <2>1 DEF KnowledgeInv, NothingOpposes
<1>5. KnownIsSafe'
  BY <1>1 DEF KnowledgeInv, KnownIsSafe, Runs, Pending
<1>6. DoneIsDone' /\ AttachmentViewIsTrue'
  BY <1>1, <1>2 DEF KnowledgeInv, DoneIsDone, AttachmentViewIsTrue, BaseInv, TypeOK, APITypeOK
<1> QED
  BY <1>3, <1>4, <1>5, <1>6 DEF KnowledgeInv

\* A step of the API: the operation c, if any, ends; attachments change only
\* where c is an attach or a detach, or where the instance is gone.
LEMMA APIKnowledge ==
  ASSUME BaseInv, KnowledgeInv, DeletionsAreSafe, API
  PROVE  KnowledgeInv'
<1>1. UNCHANGED <<pc, req, settled, view>> /\ instances' \subseteq instances
  BY DEF API, APINext, driverVars, coVars, DeleteInstance, TakesEffect, CreateTakesEffect,
     DeleteTakesEffect, AttachTakesEffect, DetachTakesEffect, ResizeTakesEffect, OperationFails
<1>2. \A g \in Handlers : \A id, n : WorksOn(g, id, n)' = WorksOn(g, id, n)
  BY <1>1 DEF WorksOn, Active
<1>3. OneWorker' /\ WorkIsUnknown'
  BY <1>1, <1>2 DEF KnowledgeInv, OneWorker, WorkIsUnknown
<1>4. instances \subseteq Nodes
  BY DEF BaseInv, TypeOK, APITypeOK
<1>5. ASSUME NEW c \in Handlers, TakesEffect(c) \/ OperationFails(c)
      PROVE  KnowledgeInv'
  <2>1. PICK outcome, id0 :
          /\ Resolve(c, outcome, id0)
          /\ \/ outcome = "succeeded" /\ id0 \in DiskIds
             \/ outcome = "failed" /\ id0 = NoId
    BY <1>5, EffectType
  <2>2. /\ \A g \in Handlers : g # c => ops'[g] = ops[g]
        /\ IF ops[c].awaited
             THEN ops'[c].awaited /\ ops'[c].call = ops[c].call
             ELSE ops'[c] = NoOp
        /\ Pending(c)
    BY <1>5, <2>1, EffectType, ResolveBase
  <2>3. ~Pending(c)'
    BY <2>1 DEF Resolve, Pending, NoOp, BaseInv, TypeOK, APITypeOK, Operations
  <2>4. NothingOpposes'
    <3>1. \A g, w \in Handlers : Opposes(g, req[w])' => Opposes(g, req[w])
      BY <1>1, <2>2, <2>3 DEF Opposes, Abandoned, Pending
    <3> QED
      BY <1>1, <1>2, <3>1 DEF KnowledgeInv, NothingOpposes
  <2>5. KnownIsSafe'
    <3>1. \A g \in Handlers : \A kind, id, n : Runs(g, kind, id, n)' => Runs(g, kind, id, n)
      BY <2>2, <2>3 DEF Runs, Pending
    <3> QED
      BY <1>1, <3>1 DEF KnowledgeInv, KnownIsSafe
  <2> DEFINE Same(id, n) == attachments'[<<id, n>>] = attachments[<<id, n>>]
             Attaches(id, n) == /\ attachments'[<<id, n>>] # "none"
                                /\ Runs(c, "attach", id, n)
             Detaches(id, n) == /\ attachments'[<<id, n>>] = "none"
                                /\ Runs(c, "detach", id, n)
             TakenAway(id, n) == /\ attachments'[<<id, n>>] = "none"
                                 /\ Unused(id)
  <2>6. \A id \in DiskIds, n \in Nodes :
          Same(id, n) \/ Attaches(id, n) \/ Detaches(id, n) \/ TakenAway(id, n)
    <3> SUFFICES ASSUME NEW id \in DiskIds, NEW n \in Nodes
                 PROVE  Same(id, n) \/ Attaches(id, n) \/ Detaches(id, n) \/ TakenAway(id, n)
      OBVIOUS
    <3>1. ops[c].call \in Calls
      BY <2>2 DEF Pending, NoOp, Operations, BaseInv, TypeOK, APITypeOK
    <3>2. attachments \in [DiskIds \X Nodes -> {"none"} \cup AttachModes]
      BY DEF BaseInv, TypeOK, APITypeOK
    <3>3. CASE CreateTakesEffect(c) \/ ResizeTakesEffect(c) \/ OperationFails(c)
      BY <3>3 DEF CreateTakesEffect, ResizeTakesEffect, OperationFails
    <3>4. CASE DeleteTakesEffect(c)
      <4>1. /\ ops[c].call.kind = "delete"
            /\ ProtectsInUse => AttachedTo(ops[c].call.id) = {}
            /\ attachments'[<<id, n>>] = IF id = ops[c].call.id THEN "none" ELSE attachments[<<id, n>>]
        BY <3>4 DEF DeleteTakesEffect
      <4>2. CASE ProtectsInUse
        BY <3>2, <4>1, <4>2 DEF AttachedTo
      <4>3. CASE ~ProtectsInUse
        BY <2>2, <4>1, <4>3 DEF DeletionsAreSafe
      <4> QED
        BY <4>2, <4>3
    <3>5. CASE AttachTakesEffect(c)
      <4>1. ops[c].call.mode \in AttachModes
        BY <3>1, <3>5 DEF AttachTakesEffect, Calls
      <4> QED
        BY <3>2, <3>5, <4>1 DEF AttachTakesEffect, AttachModes, Runs
    <3>6. CASE DetachTakesEffect(c)
      BY <3>2, <3>6 DEF DetachTakesEffect, Runs
    <3> QED
      BY <1>5, <3>3, <3>4, <3>5, <3>6 DEF TakesEffect
  <2>7. ASSUME NEW id \in DiskIds, NEW n \in Nodes,
               ops[c].awaited, ops[c].call.kind \in {"attach", "detach"},
               ops[c].call.id = id, ops[c].call.node = n
        PROVE  /\ WorksOn(c, id, n)
               /\ req[c].call = IF ops[c].call.kind = "attach" THEN "PublishVolume"
                                                               ELSE "UnpublishVolume"
    BY <2>2, <2>7, AwaitedIsWork DEF Pending
  <2>8. AttachmentViewIsTrue'
    <3> HIDE DEF Same
    <3> SUFFICES ASSUME NEW id \in DiskIds, NEW n \in instances'
                 PROVE  /\ view[<<id, n>>] = "attached" => attachments'[<<id, n>>] # "none"
                        /\ view[<<id, n>>] = "detached" => attachments'[<<id, n>>] = "none"
      BY <1>1 DEF AttachmentViewIsTrue
    <3>1. n \in instances /\ n \in Nodes
      BY <1>1, <1>4
    <3>2. CASE Same(id, n)
      BY <3>1, <3>2 DEF KnowledgeInv, AttachmentViewIsTrue, Same
    <3>3. CASE Attaches(id, n) \/ Detaches(id, n)
      BY <3>1, <3>3 DEF KnowledgeInv, KnownIsSafe
    <3>4. CASE TakenAway(id, n)
      BY <3>1, <3>4 DEF Unused
    <3> QED
      BY <2>6, <3>1, <3>2, <3>3, <3>4
  <2>9. DoneIsDone'
    <3> SUFFICES ASSUME NEW h \in Handlers, NEW id \in DiskIds, NEW n \in instances',
                        WorksOn(h, id, n), settled[h], ops'[h].phase = "succeeded"
                 PROVE  attachments'[<<id, n>>] # "none" <=> req[h].call = "PublishVolume"
      BY <1>1, <1>2 DEF DoneIsDone
    <3>1. n \in instances /\ n \in Nodes
      BY <1>1, <1>4
    <3>2. CASE h = c
      <4>1. /\ TakesEffect(c) /\ ops[c].awaited
            /\ ops[c].call = APICall(c) /\ req[c] \in Requests /\ req[c] # NoRequest
        <5>1. ops'[c] # NoOp /\ ops[c].awaited
          BY <2>2, <3>2 DEF NoOp
        <5>2. ~OperationFails(c)
          <6>1. ops \in [Handlers -> {NoOp} \cup Operations] /\ ops[c] \in Operations
            BY <2>2 DEF BaseInv, TypeOK, APITypeOK, Pending, NoOp
          <6>2. [ops[c] EXCEPT !.phase = "failed", !.id = NoId].phase = "failed"
            BY <6>1 DEF Operations
          <6>3. ops'[c].phase = "succeeded"
            BY <3>2
          <6>4. OperationFails(c) => ops'[c] = [ops[c] EXCEPT !.phase = "failed", !.id = NoId]
            BY <5>1, <6>1 DEF OperationFails, Resolve
          <6> QED
            BY <6>2, <6>3, <6>4
        <5>3. pc[c] = "await" /\ ops[c].call = APICall(c) /\ req[c] # NoRequest
          BY <2>2, <5>1 DEF BaseInv, OpsAreOwned, OpIsOwned, Pending, NoOp, Abandoned, Active
        <5> QED
          BY <1>5, <5>1, <5>2, <5>3, HandlerFacts
      <4>2. /\ APICall(c).id = id /\ APICall(c).node = n
            /\ APICall(c).kind = IF req[c].call = "PublishVolume" THEN "attach" ELSE "detach"
        BY <3>2, <4>1, CallFacts DEF WorksOn
      <4>3. IF req[c].call = "PublishVolume" THEN AttachTakesEffect(c) ELSE DetachTakesEffect(c)
        BY <4>1, <4>2
        DEF TakesEffect, CreateTakesEffect, DeleteTakesEffect, ResizeTakesEffect,
            AttachTakesEffect, DetachTakesEffect
      <4>4. attachments \in [DiskIds \X Nodes -> {"none"} \cup AttachModes]
        BY DEF BaseInv, TypeOK, APITypeOK
      <4>5. CASE req[c].call = "PublishVolume"
        <5>1. ops[c].call.mode \in AttachModes
          BY <4>1, <4>2, <4>5, APICallType DEF Calls, BaseInv
        <5> QED
          BY <3>1, <3>2, <4>1, <4>2, <4>3, <4>4, <4>5, <5>1 DEF AttachTakesEffect, AttachModes
      <4>6. CASE req[c].call # "PublishVolume"
        BY <3>1, <3>2, <4>1, <4>2, <4>3, <4>4, <4>6 DEF DetachTakesEffect
      <4> QED
        BY <4>5, <4>6
    <3>3. CASE h # c
      <4>1. attachments[<<id, n>>] # "none" <=> req[h].call = "PublishVolume"
        BY <2>2, <3>1, <3>3 DEF KnowledgeInv, DoneIsDone
      <4>2. ASSUME NEW kind \in {"attach", "detach"}, Runs(c, kind, id, n)
            PROVE  kind = "attach" <=> req[h].call = "PublishVolume"
        <5>1. Abandoned(c)
          BY <3>1, <3>3, <4>2, OthersAreAbandoned DEF KnowledgeInv
        <5>2. ~Opposes(c, req[h])
          BY <3>1 DEF KnowledgeInv, NothingOpposes
        <5>3. req[h].call \in {"PublishVolume", "UnpublishVolume"} /\ req[h].id = id /\ req[h].node = n
          BY DEF WorksOn
        <5> QED
          BY <4>2, <5>1, <5>2, <5>3 DEF Opposes, Runs
      <4>3. CASE Same(id, n)
        BY <4>1, <4>3
      <4>4. CASE Attaches(id, n)
        BY <4>2, <4>4
      <4>5. CASE Detaches(id, n)
        BY <4>2, <4>5
      <4>6. CASE TakenAway(id, n)
        BY <3>1, <4>6 DEF Unused
      <4> QED
        BY <2>6, <3>1, <4>3, <4>4, <4>5, <4>6
    <3> QED
      BY <3>2, <3>3
  <2> QED
    BY <1>3, <2>4, <2>5, <2>8, <2>9 DEF KnowledgeInv
<1>6. ASSUME NEW m \in Nodes, DeleteInstance(m)
      PROVE  KnowledgeInv'
  <2>1. \A id \in DiskIds, n \in instances' :
          n \in instances /\ attachments'[<<id, n>>] = attachments[<<id, n>>]
    BY <1>4, <1>6 DEF DeleteInstance
  <2>2. UNCHANGED ops
    BY <1>6 DEF DeleteInstance
  <2>3. NothingOpposes'
    <3>1. \A c, w \in Handlers : Opposes(c, req[w])' = Opposes(c, req[w])
      BY <1>1, <2>2 DEF Opposes, Abandoned, Pending
    <3> QED
      BY <1>1, <1>2, <3>1 DEF KnowledgeInv, NothingOpposes
  <2>4. KnownIsSafe'
    BY <1>1, <2>2 DEF KnowledgeInv, KnownIsSafe, Runs, Pending
  <2>5. DoneIsDone'
    BY <1>1, <1>2, <2>1, <2>2 DEF KnowledgeInv, DoneIsDone
  <2>6. AttachmentViewIsTrue'
    BY <1>1, <2>1 DEF KnowledgeInv, AttachmentViewIsTrue
  <2> QED
    BY <1>3, <2>3, <2>4, <2>5, <2>6 DEF KnowledgeInv
<1> QED
  BY <1>5, <1>6 DEF API, APINext

\* A restart leaves no worker, and the operations that run run on.
LEMMA RestartKnowledge ==
  ASSUME BaseInv, KnowledgeInv, Restart
  PROVE  KnowledgeInv'
<1>1. \A h \in Handlers : \A id, n : ~WorksOn(h, id, n)'
  BY DEF Restart, WorksOn, Active
<1>2. \A c \in Handlers : \A kind, id, n : Runs(c, kind, id, n)' => Runs(c, kind, id, n)
  <2> SUFFICES ASSUME NEW c \in Handlers, NEW kind, NEW id, NEW n, Runs(c, kind, id, n)'
               PROVE  Runs(c, kind, id, n)
    OBVIOUS
  <2>1. Pending(c)
    BY DEF Restart, Runs, Pending, NoOp
  <2>2. ops'[c].call = ops[c].call
    BY <2>1 DEF Restart, Pending, NoOp, BaseInv, TypeOK, APITypeOK, Operations
  <2> QED
    BY <2>1, <2>2 DEF Runs
<1>3. UNCHANGED <<attachments, instances, view>>
  BY DEF Restart, coVars
<1> QED
  BY <1>1, <1>2, <1>3
  DEF KnowledgeInv, OneWorker, WorkIsUnknown, NothingOpposes, KnownIsSafe, DoneIsDone,
      AttachmentViewIsTrue

\* AttachmentInv is inductive.
LEMMA NextKnowledge ==
  ASSUME AttachmentInv, DeletionsAreSafe, [Next]_vars
  PROVE  AttachmentInv'
<1>1. BaseInv /\ KnowledgeInv
  BY AttachmentInvParts
<1>2. BaseInv'
  BY <1>1, NextBase
<1> SUFFICES KnowledgeInv'
  BY <1>2 DEF AttachmentInv, BaseInv, KnowledgeInv
<1>3. ASSUME NEW h \in Handlers, Begins(h) PROVE KnowledgeInv'
  <2>1. ASSUME NEW r \in CreateRequests, BeginCreate(h, r) PROVE KnowledgeInv'
    BY <1>1, <2>1, BeginOtherKnowledge DEF BeginCreate, CreateVolumeRequest, coVars
  <2>2. ASSUME NEW name \in VolumeNames, BeginDelete(h, name) PROVE KnowledgeInv'
    BY <1>1, <2>2, BeginOtherKnowledge DEF BeginDelete
  <2>3. ASSUME NEW id \in DiskIds, NEW n \in Nodes, NEW mode \in PublishModes,
               BeginPublish(h, id, n, mode)
        PROVE  KnowledgeInv'
    <3> DEFINE r == [call |-> "PublishVolume", id |-> id, node |-> n, mode |-> mode]
    <3>1. r \in Requests
      BY DEF Requests
    <3> QED
      BY <1>1, <2>3, <3>1, BeginAttachmentKnowledge DEF BeginPublish
  <2>4. ASSUME NEW id \in DiskIds, NEW n \in Nodes, BeginUnpublish(h, id, n)
        PROVE  KnowledgeInv'
    <3> DEFINE r == [call |-> "UnpublishVolume", id |-> id, node |-> n]
    <3>1. r \in Requests
      BY DEF Requests
    <3> QED
      BY <1>1, <2>4, <3>1, BeginAttachmentKnowledge DEF BeginUnpublish
  <2>5. ASSUME NEW id \in DiskIds, NEW range \in ExpandRanges, BeginExpand(h, id, range)
        PROVE  KnowledgeInv'
    BY <1>1, <2>5, BeginOtherKnowledge DEF BeginExpand, coVars
  <2> QED
    BY <1>3, <2>1, <2>2, <2>3, <2>4, <2>5 DEF Begins
<1>4. ASSUME NEW h \in Handlers, Handler(h) PROVE KnowledgeInv'
  BY <1>1, <1>4, HandlerKind, DecidesKnowledge, StartsKnowledge, QuitsKnowledge, TellsKnowledge
  DEF Kinds
<1>5. CASE Restart
  BY <1>1, <1>5, RestartKnowledge
<1>6. CASE API
  BY <1>1, <1>6, APIKnowledge
<1>7. CASE UNCHANGED vars
  BY <1>1, <1>7
  DEF vars, apiVars, driverVars, coVars, KnowledgeInv, OneWorker, WorkIsUnknown, NothingOpposes,
      KnownIsSafe, DoneIsDone, AttachmentViewIsTrue, WorksOn, Runs, Opposes, Abandoned, Pending,
      Active
<1> QED
  BY <1>3, <1>4, <1>5, <1>6, <1>7 DEF Next

\* When the API refuses to delete an attached disk, AttachmentInv always
\* holds: a handler that works on an attachment works alone, and nothing that
\* still runs can undo what is known.
THEOREM AttachmentInvariant ==
  ASSUME ProtectsInUse
  PROVE  Spec => []AttachmentInv
<1>1. Init => AttachmentInv
  BY InitBase, InitKnowledge, AttachmentInvParts
<1>2. AttachmentInv /\ [Next]_vars => AttachmentInv'
  BY NextKnowledge DEF DeletionsAreSafe
<1> QED
  BY <1>1, <1>2, PTL DEF Spec

\* What the CO was told about an attachment stays true until it asks for a
\* change (ControllerPublishVolume, ControllerUnpublishVolume).
THEOREM AttachmentsAreAsTold ==
  ASSUME ProtectsInUse
  PROVE  Spec => []AttachmentViewIsTrue
<1>1. AttachmentInv => AttachmentViewIsTrue
  BY DEF AttachmentInv
<1> QED
  BY AttachmentInvariant, <1>1, PTL

-----------------------------------------------------------------------------
(* An attachment that stays: what the CO knows of it, and which steps keep   *)
(* it.  The composition with the node service (VolumeLifecycleProofs) rests  *)
(* on these.                                                                 *)

\* An attachment the CO knows of stays.
LEMMA KnownStaysAttached ==
  ASSUME AttachmentInv, NEW id \in DiskIds, NEW n \in instances, view[<<id, n>>] = "attached"
  PROVE  StaysAttached(id, n)
<1>1. n \in Nodes
  BY DEF AttachmentInv, TypeOK, APITypeOK
<1>2. \A c \in Handlers : ~Runs(c, "detach", id, n) /\ ~WorksOn(c, id, n)
  BY <1>1 DEF AttachmentInv, KnownIsSafe, WorkIsUnknown
<1> QED
  BY <1>2 DEF AttachmentInv, AttachmentViewIsTrue, StaysAttached

\* Only a request to unpublish can end that.
LEMMA BeginKeepsAttached ==
  ASSUME AttachmentInv, NEW id \in DiskIds, NEW n \in Nodes, StaysAttached(id, n),
         NEW h \in Handlers, NEW r, Begin(h, r), r.call # "UnpublishVolume"
  PROVE  StaysAttached(id, n)'
<1>1. /\ \A g \in Handlers : g # h => pc'[g] = pc[g] /\ req'[g] = req[g]
      /\ req'[h] = r
      /\ UNCHANGED <<attachments, ops>>
  BY DEF Begin, apiVars, AttachmentInv, TypeOK
<1> QED
  BY <1>1 DEF StaysAttached, Runs, Pending, WorksOn, Active

\* No step of a handler that serves another request does, ...
LEMMA HandlerKeepsAttached ==
  ASSUME AttachmentInv, NEW id \in DiskIds, NEW n \in Nodes, StaysAttached(id, n),
         NEW h \in Handlers, Handler(h)
  PROVE  StaysAttached(id, n)'
<1>1. BaseInv /\ Kinds(h)
  BY AttachmentInvParts, HandlerKind
<1>2. ASSUME NEW l, NEW r \in {req[h], NoRequest}, NEW o, Step(h, l, r, o), Active(h),
             o # NoOp => o.call = APICall(h)
      PROVE  StaysAttached(id, n)'
  <2>1. /\ pc'[h] = l /\ req'[h] = r /\ ops'[h] = o
        /\ \A g \in Handlers : g # h =>
              pc'[g] = pc[g] /\ req'[g] = req[g] /\ ops'[g] = ops[g]
        /\ UNCHANGED <<attachments, instances>>
    BY <1>1, <1>2, StepFacts
  <2>2. ~(WorksOn(h, id, n)' /\ r.call = "UnpublishVolume")
    BY <1>2, <2>1 DEF WorksOn, StaysAttached, NoRequest
  <2>3. ~Runs(h, "detach", id, n)'
    <3> SUFFICES ASSUME Runs(h, "detach", id, n)' PROVE FALSE
      OBVIOUS
    <3>1. o # NoOp /\ o.call.kind = "detach" /\ o.call.id = id /\ o.call.node = n
      BY <2>1 DEF Runs, Pending, NoOp
    <3>2. APICall(h).kind = "detach" /\ APICall(h).id = id /\ APICall(h).node = n
      BY <1>2, <3>1
    <3>3. req[h] \in Requests /\ req[h] # NoRequest
      BY <1>1, <1>2, HandlerFacts
    <3>4. req[h].call = "UnpublishVolume" /\ req[h].id = id /\ req[h].node = n
      BY <3>2, <3>3, CallFacts
    <3> QED
      BY <1>2, <3>4 DEF StaysAttached, WorksOn
  <2>4. ASSUME NEW c \in Handlers, c # h
        PROVE  ~Runs(c, "detach", id, n)' /\ ~(WorksOn(c, id, n)' /\ req'[c].call = "UnpublishVolume")
    BY <2>1, <2>4 DEF StaysAttached, Runs, Pending, WorksOn, Active
  <2> QED
    BY <2>1, <2>2, <2>3, <2>4 DEF StaysAttached
<1>3. CASE Decides(h)
  BY <1>2, <1>3 DEF Decides, Active
<1>4. CASE Starts(h)
  BY <1>2, <1>4 DEF Starts, Active, Operation
<1>5. CASE Quits(h)
  BY <1>2, <1>5 DEF Quits, LeftBehind
<1>6. ASSUME NEW known, Tells(h, known) PROVE StaysAttached(id, n)'
  BY <1>2, <1>6 DEF Tells, Active
<1> QED
  BY <1>1, <1>3, <1>4, <1>5, <1>6 DEF Kinds

\* ... no restart, ...
LEMMA RestartKeepsAttached ==
  ASSUME AttachmentInv, NEW id \in DiskIds, NEW n \in Nodes, StaysAttached(id, n), Restart
  PROVE  StaysAttached(id, n)'
<1>1. ASSUME NEW c \in Handlers, Runs(c, "detach", id, n)' PROVE Runs(c, "detach", id, n)
  <2>1. Pending(c)
    BY <1>1 DEF Restart, Runs, Pending, NoOp
  <2>2. ops'[c].call = ops[c].call
    BY <2>1 DEF Restart, Pending, NoOp, AttachmentInv, TypeOK, APITypeOK, Operations
  <2> QED
    BY <1>1, <2>1, <2>2 DEF Runs
<1>2. \A c \in Handlers : ~WorksOn(c, id, n)'
  BY DEF Restart, WorksOn, Active
<1> QED
  BY <1>1, <1>2 DEF StaysAttached, Restart

\* ... and no operation of the API, but one that deletes the disk.
LEMMA OperationKeepsAttached ==
  ASSUME AttachmentInv, NEW id \in DiskIds, NEW n \in Nodes, StaysAttached(id, n),
         NEW c \in Handlers, TakesEffect(c) \/ OperationFails(c),
         ops[c].call.kind = "delete" => ops[c].call.id # id, UNCHANGED <<pc, req>>
  PROVE  StaysAttached(id, n)'
<1>1. BaseInv
  BY AttachmentInvParts
<1>2. PICK outcome, id0 :
        /\ Resolve(c, outcome, id0)
        /\ \/ outcome = "succeeded" /\ id0 \in DiskIds
           \/ outcome = "failed" /\ id0 = NoId
  BY <1>1, EffectType
<1>3. /\ \A g \in Handlers : g # c => ops'[g] = ops[g]
      /\ IF ops[c].awaited THEN ops'[c].call = ops[c].call ELSE ops'[c] = NoOp
      /\ Pending(c)
  BY <1>1, <1>2, EffectType, ResolveBase
<1>4. ~Pending(c)'
  BY <1>1, <1>2 DEF Resolve, Pending, NoOp, BaseInv, TypeOK, APITypeOK, Operations
<1>5. \A g \in Handlers : ~Runs(g, "detach", id, n)'
  BY <1>3, <1>4 DEF StaysAttached, Runs, Pending
<1>6. \A g \in Handlers : WorksOn(g, id, n)' = WorksOn(g, id, n)
  BY DEF WorksOn, Active
<1>7. attachments'[<<id, n>>] # "none"
  <2>1. attachments \in [DiskIds \X Nodes -> {"none"} \cup AttachModes]
    BY <1>1 DEF BaseInv, TypeOK, APITypeOK
  <2>2. ops[c].call \in Calls
    BY <1>1, <1>3 DEF Pending, NoOp, Operations, BaseInv, TypeOK, APITypeOK
  <2>3. CASE CreateTakesEffect(c) \/ ResizeTakesEffect(c) \/ OperationFails(c)
    BY <2>3 DEF CreateTakesEffect, ResizeTakesEffect, OperationFails, StaysAttached
  <2>4. CASE DeleteTakesEffect(c)
    BY <2>1, <2>4 DEF DeleteTakesEffect, StaysAttached
  <2>5. CASE AttachTakesEffect(c)
    <3>1. ops[c].call.mode \in AttachModes
      BY <2>2, <2>5 DEF AttachTakesEffect, Calls
    <3> QED
      BY <2>1, <2>5, <3>1 DEF AttachTakesEffect, AttachModes, StaysAttached
  <2>6. CASE DetachTakesEffect(c)
    BY <1>3, <2>1, <2>6 DEF DetachTakesEffect, StaysAttached, Runs
  <2> QED
    BY <2>3, <2>4, <2>5, <2>6 DEF TakesEffect
<1> QED
  BY <1>5, <1>6, <1>7 DEF StaysAttached

\* Neither a handler nor an operation deletes an instance.
LEMMA HandlerKeepsInstances ==
  ASSUME AttachmentInv, NEW h \in Handlers, Handler(h)
  PROVE  UNCHANGED instances
BY AttachmentInvParts, HandlerKind DEF Kinds, Decides, Starts, Quits, Tells, Step

LEMMA OperationKeepsInstances ==
  ASSUME AttachmentInv, NEW c \in Handlers, TakesEffect(c) \/ OperationFails(c)
  PROVE  UNCHANGED instances
BY AttachmentInvParts, EffectType
=============================================================================
