----------------------- MODULE VolumeLifecycleProofs -----------------------
(***************************************************************************)
(* Theorems about VolumeLifecycle: every behaviour of it is one of         *)
(* Controller and one of Node, so that what is proved of the two services  *)
(* holds here; with it the disk stays attached for as long as the node     *)
(* uses it, and the two services together implement VolumeContract, for    *)
(* any number of handlers and targets.  What the theorems about the two    *)
(* ask of the requests and of the API, this composition meets.             *)
(***************************************************************************)
EXTENDS VolumeLifecycle, TLAPS

-----------------------------------------------------------------------------
(* The two services are what their modules take them for. *)

LEMMA ControllerConstants ==
    C!UnitsAssumption /\ C!APIAssumption /\ C!ControllerAssumption
<1>1. C!UnitsAssumption
  BY LifecycleAssumption DEF C!UnitsAssumption
<1>2. C!APIAssumption
  BY LifecycleAssumption, DiskAssumption DEF C!APIAssumption
<1>3. C!ControllerAssumption
  BY LifecycleAssumption
  DEF C!ControllerAssumption, C!DiskTypes, C!SSD, SSD, Request, C!DiskName, CapacityRanges,
      C!CapacityRanges
<1> QED  BY <1>1, <1>2, <1>3

LEMMA NodeConstants == N!NodeAssumption
BY DEF N!NodeAssumption, N!SSD, SSD

-----------------------------------------------------------------------------
(* Every step is a step of each service, or none of its business. *)

LEMMA ControllerSteps == [Next]_vars => [C!Next]_(C!vars)
<1> SUFFICES ASSUME [Next]_vars PROVE [C!Next]_(C!vars)
  OBVIOUS
<1>1. ASSUME NEW h \in ControllerHandlers,
             Provisions(h) \/ Deprovisions(h) \/ Attaches(h) \/ Detaches(h) \/ Expands(h)
      PROVE  C!Next
  <2>1. C!Begins(h)
    BY <1>1 DEF Provisions, Deprovisions, Attaches, Detaches, Expands, C!Begins, C!VolumeNames,
                Request
  <2> QED  BY <2>1 DEF C!Next
<1>2. ASSUME NEW h \in ControllerHandlers, ControllerHandler(h)
      PROVE  C!Next
  BY <1>2 DEF ControllerHandler, C!Next
<1>3. CASE API
  BY <1>3 DEF API, OperationTakesEffect, C!Next, C!API, C!APINext, C!driverVars, C!coVars
<1>4. CASE C!Restart
  BY <1>4 DEF C!Next
<1>5. CASE UNCHANGED controllerVars
  BY <1>5 DEF controllerVars, C!vars, C!apiVars, C!driverVars, C!coVars
<1> QED
  BY <1>1, <1>2, <1>3, <1>4, <1>5 DEF Next, Publishes, Unpublishes, vars

LEMMA NodeSteps == [Next]_vars => [N!Next]_(N!vars)
<1> SUFFICES ASSUME [Next]_vars PROVE [N!Next]_(N!vars)
  OBVIOUS
<1>1. ASSUME NEW h \in NodeHandlers, NEW t \in Targets, Publishes(h, t) \/ Unpublishes(h, t)
      PROVE  N!Next
  BY <1>1 DEF Publishes, Unpublishes, N!Next
<1>2. ASSUME NEW h \in NodeHandlers, NodeHandler(h)
      PROVE  N!Next
  BY <1>2 DEF NodeHandler, N!Next
<1>3. CASE N!Restart \/ N!Expansion
  BY <1>3 DEF N!Next
<1>4. CASE UNCHANGED nodeVars
  BY <1>4 DEF nodeVars, N!vars, N!tableVars, N!fixedVars, N!handlerVars
<1> QED
  BY <1>1, <1>2, <1>3, <1>4
  DEF Next, Provisions, Deprovisions, Attaches, Detaches, Expands, ControllerHandler, API,
      OperationTakesEffect, vars

LEMMA ControllerBehaves == Spec => C!Spec
<1>1. Init => C!Init
  BY DEF Init
<1> QED  BY <1>1, ControllerSteps, PTL DEF Spec, C!Spec

LEMMA NodeBehaves == Spec => N!Spec
<1>1. Init => N!Init
  BY DEF Init
<1> QED  BY <1>1, NodeSteps, PTL DEF Spec, N!Spec

\* The requests for one volume agree in all that the theorems ask of them.
LEMMA OneVolumeAgrees == C!NamesAreDistinct /\ C!RequestsAgree
<1>1. C!NamesAreDistinct
  BY DEF C!NamesAreDistinct, C!VolumeNames, Request
<1>2. C!Place(Request) = HostLocation
  <2>1. Request.topology = <<>> /\ DOMAIN <<>> = {}
    BY DEF Request
  <2> QED
    BY <2>1 DEF C!Place, C!ParseRequiredTopology, C!SSD, SSD
<1>3. NoDisk \notin C!Disks
  BY DiskAssumption
<1> QED
  BY <1>1, <1>2, <1>3 DEF C!RequestsAgree, C!PlacesAreHere

\* What the services' own invariants say holds in their composition: the
\* orchestrator of this module is one those modules allow for.
LEMMA ServicesInvariant ==
    Spec => [](C!AttachmentInv /\ C!VolumeInv /\ C!GivenUpIsUnused /\ N!TypeOK /\ N!NodeInv)
<1>1. Spec => C!Spec
  BY ControllerBehaves
<1>2. Spec => N!Spec
  BY NodeBehaves
<1>3. C!Spec => [](C!VolumeInv /\ C!AttachmentInv /\ C!GivenUpIsUnused)
  BY OneVolumeAgrees, ControllerConstants, C!UnprotectedInvariant
<1>4. N!Spec => [](N!TypeOK /\ N!NodeInv)
  BY NodeConstants, N!NodeInvariant
<1> QED  BY <1>1, <1>2, <1>3, <1>4, PTL

-----------------------------------------------------------------------------
(* The disk stays attached while the node uses it.  Two views meet here: what *)
(* the attacher knows of the disk lets the kubelet begin, and what the        *)
(* kubelet knows of its targets lets the attacher end.  Nothing in the API    *)
(* keeps an attached disk from being deleted: that nobody asks for it rests   *)
(* on what the attacher knows, too.                                           *)

Services == C!AttachmentInv /\ C!VolumeInv /\ C!GivenUpIsUnused /\ N!TypeOK /\ N!NodeInv

\* The node is there for as long as this model follows it.
NodeIsThere == instances = {Instance}

\* The CO gives the volume up when it knows that it is detached; afterwards no
\* request is for its attachment, so that it knows it for good.
GivenUpIsDetached ==
    C!ClaimIn(Disk, {"deleting", "deleted"}) => attachmentView[Attachment] = "detached"

LifecycleInv == NodeIsThere /\ GivenUpIsDetached /\ DiskInUseStaysAttached

LEMMA NextGivenUp ==
  ASSUME Services, GivenUpIsDetached, [Next]_vars
  PROVE  GivenUpIsDetached'
<1> SUFFICES ASSUME C!ClaimIn(Disk, {"deleting", "deleted"})'
             PROVE  attachmentView'[Attachment] = "detached"
  BY DEF GivenUpIsDetached
<1> USE ControllerConstants DEF Attachment
<1>1. C!BaseInv /\ C!VolumesInv /\ C!GivenUpIsUnused
  BY C!VolumeInvParts DEF Services
<1>2. Disk \in {Disk} /\ Instance \in {Instance}
  OBVIOUS
<1>3. CASE UNCHANGED <<claims, attachmentView>>
  BY <1>3 DEF GivenUpIsDetached, C!ClaimIn
<1>4. ASSUME NEW h \in ControllerHandlers, Deprovisions(h)
      PROVE  attachmentView'[Attachment] = "detached"
  BY <1>4 DEF Deprovisions, C!BeginDelete
<1>5. ASSUME NEW h \in ControllerHandlers, Attaches(h) \/ Detaches(h)
      PROVE  FALSE
  <2>1. C!ClaimIn(Disk, {"bound"}) /\ UNCHANGED claims
    BY <1>5 DEF Attaches, Detaches, C!BeginPublish, C!BeginUnpublish, C!BeginAttachment
  <2>2. C!ClaimIn(Disk, {"deleting", "deleted"})
    BY <2>1 DEF C!ClaimIn
  <2> QED
    BY <1>1, <1>2, <2>1, <2>2, C!OwnedIsNotGivenUp
<1>6. ASSUME NEW h \in ControllerHandlers, ControllerHandler(h)
      PROVE  attachmentView'[Attachment] = "detached"
  <2>1. C!ClaimIn(Disk, {"deleting", "deleted"})
    BY <1>1, <1>2, <1>6, C!HandlerGivesNothingUp DEF ControllerHandler
  <2>2. C!Unused(Disk)
    BY <1>1, <1>2, <2>1 DEF C!GivenUpIsUnused
  <2>3. \A n \in {Instance} : attachmentView'[<<Disk, n>>] = attachmentView[<<Disk, n>>]
    BY <1>1, <1>2, <1>6, <2>2, C!HandlerKeepsUnused DEF ControllerHandler
  <2> QED
    BY <1>2, <2>1, <2>3 DEF GivenUpIsDetached
<1> QED
  BY <1>3, <1>4, <1>5, <1>6
  DEF Next, Provisions, Expands, C!BeginCreate, C!BeginExpand, C!coVars, API, C!Restart,
      Publishes, Unpublishes, controllerVars, vars

\* So a disk that is being deleted is not attached.
LEMMA DeletedIsDetached ==
  ASSUME Services, LifecycleInv, NEW h \in ControllerHandlers, C!Deletes(h, Disk)
  PROVE  attachments[Attachment] = "none"
<1>1. C!ClaimIn(Disk, {"deleting", "deleted"})
  BY DEF Services, C!VolumeInv, C!DeletionsAreKnown
<1> QED
  BY <1>1
  DEF LifecycleInv, GivenUpIsDetached, NodeIsThere, Services, C!AttachmentInv,
      C!AttachmentViewIsTrue, Attachment

\* A step the controller takes, for whatever reason, keeps an attachment.
LEMMA ControllerKeeps ==
  ASSUME Services, NEW h \in ControllerHandlers, C!StaysAttached(Disk, Instance),
         \/ Provisions(h) \/ Deprovisions(h) \/ Attaches(h) \/ Expands(h)
         \/ ControllerHandler(h)
         \/ C!Restart
  PROVE  C!StaysAttached(Disk, Instance)'
<1> USE DEF Services
<1>1. CASE Provisions(h)
  BY <1>1, ControllerConstants, C!BeginKeepsAttached
  DEF Provisions, C!BeginCreate, C!CreateVolumeRequest
<1>2. CASE Deprovisions(h)
  BY <1>2, ControllerConstants, C!BeginKeepsAttached DEF Deprovisions, C!BeginDelete
<1>3. CASE Attaches(h)
  BY <1>3, ControllerConstants, C!BeginKeepsAttached
  DEF Attaches, C!BeginPublish, C!BeginAttachment
<1>4. CASE Expands(h)
  BY <1>4, ControllerConstants, C!BeginKeepsAttached DEF Expands, C!BeginExpand
<1>5. CASE ControllerHandler(h)
  BY <1>5, ControllerConstants, C!HandlerKeepsAttached DEF ControllerHandler
<1>6. CASE C!Restart
  BY <1>6, ControllerConstants, C!RestartKeepsAttached
<1> QED
  BY <1>1, <1>2, <1>3, <1>4, <1>5, <1>6

\* An expansion needs a disk that is not mounted and changes no mount.
LEMMA ExpansionKeepsUnused == N!Expansion /\ ~N!InUse => ~N!InUse'
BY DEF N!Expansion, N!DiskGrows, N!InUse, N!VolumeUnmounted, N!handlerVars

LEMMA NothingChanges ==
  ASSUME UNCHANGED nodeVars PROVE N!InUse' = N!InUse
BY DEF nodeVars, N!InUse, N!VolumeUnmounted

LEMMA NothingDetaches ==
  ASSUME UNCHANGED controllerVars
  PROVE  C!StaysAttached(Disk, Instance)' = C!StaysAttached(Disk, Instance)
BY DEF controllerVars, C!StaysAttached, C!Runs, C!Pending, C!WorksOn, C!Active

LEMMA NextLifecycle == Services /\ LifecycleInv /\ [Next]_vars => LifecycleInv'
<1> SUFFICES ASSUME Services, LifecycleInv, [Next]_vars PROVE LifecycleInv'
  OBVIOUS
<1> DEFINE Attached == C!StaysAttached(Disk, Instance)
<1>1. NodeIsThere'
  <2> SUFFICES UNCHANGED instances
    BY DEF LifecycleInv, NodeIsThere
  <2>1. ASSUME NEW h \in ControllerHandlers,
               \/ Provisions(h) \/ Deprovisions(h) \/ Attaches(h) \/ Detaches(h) \/ Expands(h)
        PROVE  UNCHANGED instances
    BY <2>1
    DEF Provisions, Deprovisions, Attaches, Detaches, Expands, C!BeginCreate, C!BeginDelete,
        C!BeginPublish, C!BeginUnpublish, C!BeginExpand, C!BeginAttachment, C!Begin, C!apiVars
  <2>2. ASSUME NEW h \in ControllerHandlers, ControllerHandler(h) PROVE UNCHANGED instances
    BY <2>2, ControllerConstants, C!HandlerKeepsInstances DEF ControllerHandler, Services
  <2>3. CASE API
    <3>1. PICK c \in ControllerHandlers : C!TakesEffect(c) \/ C!OperationFails(c)
      BY <2>3 DEF API, OperationTakesEffect
    <3> QED
      BY <3>1, ControllerConstants, C!OperationKeepsInstances DEF Services
  <2>4. CASE C!Restart \/ UNCHANGED controllerVars
    BY <2>4 DEF C!Restart, controllerVars
  <2> QED
    BY <2>1, <2>2, <2>3, <2>4 DEF Next, Publishes, Unpublishes, vars
<1>2. Attached /\ ~(\E h \in ControllerHandlers : Detaches(h)) => Attached'
  <2> SUFFICES ASSUME Attached, \A h \in ControllerHandlers : ~Detaches(h) PROVE Attached'
    OBVIOUS
  <2>1. ASSUME NEW h \in ControllerHandlers,
               Provisions(h) \/ Deprovisions(h) \/ Attaches(h) \/ Expands(h) \/ ControllerHandler(h)
        PROVE  Attached'
    BY <2>1, ControllerKeeps
  <2>2. CASE C!Restart
    BY <2>2, ControllerKeeps DEF C!Restart
  <2>3. CASE API
    <3>1. PICK c \in ControllerHandlers : C!TakesEffect(c) \/ C!OperationFails(c)
      BY <2>3 DEF API, OperationTakesEffect
    <3>2. UNCHANGED <<controllerPc, controllerReq>>
      BY <2>3 DEF API
    <3>3. ops[c].call.kind = "delete" => ops[c].call.id # Disk
      <4> SUFFICES ASSUME ops[c].call.kind = "delete", ops[c].call.id = Disk PROVE FALSE
        OBVIOUS
      <4>1. C!Pending(c)
        BY <3>1, ControllerConstants, C!OperationEnds, C!AttachmentInvParts DEF Services
      <4>2. attachments[Attachment] = "none"
        BY <4>1, DeletedIsDetached DEF C!Deletes
      <4> QED
        BY <4>2 DEF C!StaysAttached, Attachment
    <3> QED
      BY <3>1, <3>2, <3>3, ControllerConstants, C!OperationKeepsAttached DEF Services
  <2>4. CASE UNCHANGED controllerVars
    BY <2>4, NothingDetaches
  <2> QED
    BY <2>1, <2>2, <2>3, <2>4 DEF Next, Publishes, Unpublishes, vars
<1>3. ASSUME ~N!InUse, N!InUse' PROVE Attached /\ UNCHANGED controllerVars
  <2>1. ~UNCHANGED nodeVars /\ ~N!Expansion
    BY <1>3, NothingChanges, ExpansionKeepsUnused
  <2>2. ASSUME NEW h \in NodeHandlers PROVE ~NodeHandler(h)
    BY <1>3, NodeConstants, N!HandlerKeepsUnused DEF NodeHandler, Services
  <2>3. ~N!Restart
    BY <1>3, NodeConstants, N!RestartKeepsUnused DEF Services
  <2>4. ASSUME NEW h \in NodeHandlers, NEW t \in Targets PROVE ~Unpublishes(h, t)
    BY <1>3, NodeConstants, N!BeginUnpublishKeepsUnused DEF Unpublishes, Services
  <2>5. PICK h \in NodeHandlers, t \in Targets : Publishes(h, t)
    BY <2>1, <2>2, <2>3, <2>4
    DEF Next, Provisions, Deprovisions, Attaches, Detaches, Expands, ControllerHandler, API,
        OperationTakesEffect, vars
  <2>6. Instance \in instances /\ attachmentView[<<Disk, Instance>>] = "attached"
    BY <2>5 DEF Publishes, Attachment, LifecycleInv, NodeIsThere
  <2> QED
    BY <2>5, <2>6, ControllerConstants, C!KnownStaysAttached DEF Publishes, Services
<1>4. DiskInUseStaysAttached'
  <2> SUFFICES ASSUME N!InUse' PROVE Attached'
    BY DEF DiskInUseStaysAttached
  <2>1. CASE ~N!InUse
    BY <1>3, <2>1, NothingDetaches
  <2>2. CASE N!InUse
    <3>1. \A h \in ControllerHandlers : ~Detaches(h)
      BY <2>2, NodeConstants, N!UnpublishedIsNotInUse DEF Services, Detaches, NotInUse
    <3> QED
      BY <1>2, <2>2, <3>1 DEF LifecycleInv, DiskInUseStaysAttached
  <2> QED
    BY <2>1, <2>2
<1>5. GivenUpIsDetached'
  BY NextGivenUp DEF LifecycleInv
<1> QED
  BY <1>1, <1>4, <1>5 DEF LifecycleInv

LEMMA InitLifecycle == Init => LifecycleInv
<1>1. Init => ~N!InUse
  BY DEF Init, N!Init, N!TableInit, N!InUse, N!VolumeUnmounted, N!ForeignMount, N!PublishSteps
<1>2. Init => NodeIsThere
  BY DEF Init, C!Init, C!APIInit, NodeIsThere
<1>3. Init => GivenUpIsDetached
  BY DEF Init, C!Init, C!NoClaim, GivenUpIsDetached, C!ClaimIn
<1> QED
  BY <1>1, <1>2, <1>3 DEF LifecycleInv, DiskInUseStaysAttached

\* From the kubelet's first call for a target to the end of the last mount the
\* disk is attached, and nothing that could detach it is on its way
\* (ControllerUnpublishVolume, NodePublishVolume).
THEOREM DisksInUseStayAttached == Spec => []DiskInUseStaysAttached
<1>1. Init => LifecycleInv
  BY InitLifecycle
<1>2. LifecycleInv => DiskInUseStaysAttached
  BY DEF LifecycleInv
<1>3. Services /\ LifecycleInv /\ [Next]_vars => LifecycleInv'
  BY NextLifecycle
<1>4. Spec => []Services
  BY ServicesInvariant DEF Services
<1> QED
  BY <1>1, <1>2, <1>3, <1>4, PTL DEF Spec

-----------------------------------------------------------------------------
(* The contract.  A step moves the disk (the API), or the mounts (the node), *)
(* never both; what the CO knows of the one excludes the steps that matter   *)
(* of the other.                                                             *)

\* What is attached is a disk.
DiskIsThere == attachments[Attachment] # "none" => C!Live(Disk)

ContractInv == LifecycleInv /\ DiskIsThere

\* What the CO knows is so.
KnownIsTrue == known # "unknown" => stage = known

LEMMA Neighbours ==
  /\ \A s \in {"absent", "created", "attached", "mounted"} : Contract!Near(s, s)
  /\ Contract!Near("absent", "created") /\ Contract!Near("created", "absent")
  /\ Contract!Near("created", "attached") /\ Contract!Near("attached", "created")
  /\ Contract!Near("attached", "mounted") /\ Contract!Near("mounted", "attached")
<1> DEFINE S == Contract!Stages
<1>1. /\ DOMAIN S = 1..4
      /\ S[1] = "absent" /\ S[2] = "created" /\ S[3] = "attached" /\ S[4] = "mounted"
  BY DEF Contract!Stages
<1>2. ASSUME NEW i \in 1..4, NEW j \in 1..4, j \in {i - 1, i, i + 1}
      PROVE  Contract!Near(S[i], S[j])
  BY <1>1, <1>2 DEF Contract!Near
<1> HIDE DEF S
<1> QED
  BY <1>1, <1>2

LEMMA StageIsOne == stage \in {"absent", "created", "attached", "mounted"}
BY DEF stage

\* A mount of the volume is a use of it.
LEMMA MountIsUse == ASSUME NEW t \in Targets, HasMount(t) PROVE N!InUse
BY DEF HasMount, N!InUse, N!VolumeUnmounted

\* The controller begins, works and restarts without moving the volume.
LEMMA DriverMoves ==
  ASSUME Services, C!Restart \/ \E h \in ControllerHandlers : C!Begins(h) \/ C!Handler(h)
  PROVE  UNCHANGED <<disks, attachments>>
<1>1. C!BaseInv
  BY ControllerConstants, C!AttachmentInvParts DEF Services
<1> QED
  BY <1>1, ControllerConstants, C!DriverMovesNothing

\* The steps of the composition, by what they move.
LEMMA StepsMove ==
  ASSUME Services, [Next]_vars
  PROVE  \/ UNCHANGED <<disks, attachments, mounts>>
         \/ \E c \in ControllerHandlers :
              (C!TakesEffect(c) \/ C!OperationFails(c)) /\ UNCHANGED mounts
         \/ UNCHANGED controllerVars /\ \E h \in NodeHandlers : N!Handler(h)
<1>1. ASSUME NEW h \in ControllerHandlers,
             \/ Provisions(h) \/ Deprovisions(h) \/ Attaches(h) \/ Detaches(h) \/ Expands(h)
      PROVE  UNCHANGED <<disks, attachments, mounts>>
  <2>1. C!Begins(h)
    BY <1>1 DEF Provisions, Deprovisions, Attaches, Detaches, Expands, C!Begins, C!VolumeNames,
                Request
  <2>2. UNCHANGED mounts
    BY <1>1 DEF Provisions, Deprovisions, Attaches, Detaches, Expands, nodeVars
  <2> QED
    BY <2>1, <2>2, DriverMoves
<1>2. ASSUME NEW h \in ControllerHandlers, ControllerHandler(h)
      PROVE  UNCHANGED <<disks, attachments, mounts>>
  BY <1>2, DriverMoves DEF ControllerHandler, nodeVars
<1>3. CASE C!Restart /\ UNCHANGED nodeVars
  BY <1>3, DriverMoves DEF nodeVars
<1>4. CASE API
  BY <1>4 DEF API, OperationTakesEffect, N!Expansion, N!DiskGrows, nodeVars
<1>5. ASSUME NEW h \in NodeHandlers, NEW t \in Targets, Publishes(h, t) \/ Unpublishes(h, t)
      PROVE  UNCHANGED <<disks, attachments, mounts>>
  BY <1>5 DEF Publishes, Unpublishes, N!BeginPublish, N!BeginUnpublish, N!Begin, N!tableVars,
              controllerVars
<1>6. ASSUME NEW h \in NodeHandlers, N!GivesUp(h), UNCHANGED controllerVars
      PROVE  UNCHANGED <<disks, attachments, mounts>>
  BY <1>6 DEF N!GivesUp, N!tableVars, controllerVars
<1>7. CASE N!Restart /\ UNCHANGED controllerVars
  BY <1>7 DEF N!Restart, N!tableVars, controllerVars
<1>8. CASE UNCHANGED vars
  BY <1>8 DEF vars, controllerVars, nodeVars
<1> QED
  BY <1>1, <1>2, <1>3, <1>4, <1>5, <1>6, <1>7, <1>8 DEF Next, NodeHandler

LEMMA OperationMovesDisk ==
  ASSUME Services, LifecycleInv, NEW c \in ControllerHandlers, C!TakesEffect(c) \/ C!OperationFails(c)
  PROVE  LET before == attachments[Attachment]
             after  == attachments'[Attachment]
         IN  \/ (C!Live(Disk)' <=> C!Live(Disk)) /\ after = before
             \/ disks[Disk] = NoDisk /\ after = before
             \/ /\ C!Deletes(c, Disk)
                /\ C!Live(Disk) /\ ~C!Live(Disk)' /\ before = "none" /\ after = "none"
             \/ /\ C!Runs(c, "attach", Disk, Instance)
                /\ C!Live(Disk) /\ C!Live(Disk)' /\ before = "none"
             \/ /\ C!Runs(c, "detach", Disk, Instance)
                /\ (C!Live(Disk)' <=> C!Live(Disk)) /\ before # "none" /\ after = "none"
<1>1. C!BaseInv
  BY ControllerConstants, C!AttachmentInvParts DEF Services
<1>2. Disk \in {Disk} /\ Instance \in {Instance}
  OBVIOUS
<1>3. C!Deletes(c, Disk) => attachments[<<Disk, Instance>>] = "none"
  BY DeletedIsDetached DEF Attachment
<1> QED
  BY <1>1, <1>2, <1>3, ControllerConstants, C!OperationMoves DEF Attachment

LEMMA NextContract == Services /\ ContractInv /\ [Next]_vars => ContractInv'
<1> SUFFICES ASSUME Services, ContractInv, [Next]_vars PROVE ContractInv'
  OBVIOUS
<1>1. LifecycleInv'
  BY NextLifecycle DEF ContractInv
<1>2. CASE UNCHANGED <<disks, attachments>>
  BY <1>1, <1>2 DEF ContractInv, DiskIsThere, C!Live
<1>3. ASSUME NEW c \in ControllerHandlers, C!TakesEffect(c) \/ C!OperationFails(c)
      PROVE  DiskIsThere'
  BY <1>3, OperationMovesDisk DEF ContractInv, DiskIsThere, C!Live, Attachment
<1> QED
  BY <1>1, <1>2, <1>3, StepsMove DEF ContractInv, controllerVars

\* What the CO knows, it knows from both services: of the mounts from the node,
\* of the attachment and the disk from the controller.
LEMMA KnowledgeIsTrue == Services /\ ContractInv => KnownIsTrue
<1> SUFFICES ASSUME Services, ContractInv, known # "unknown" PROVE stage = known
  BY DEF KnownIsTrue
<1>1. /\ Instance \in instances
      /\ C!AttachmentViewIsTrue /\ C!VolumeIsReal /\ C!DeletedIsGone /\ C!TypeOK
      /\ Volume \in C!VolumeNames /\ Disk \in {Disk}
  BY DEF ContractInv, LifecycleInv, NodeIsThere, Services, C!AttachmentInv, C!VolumeInv,
         C!VolumeNames, Request
<1>2. claims[Volume].state # "none" => claims[Volume].id = Disk
  BY <1>1 DEF C!TypeOK, C!Claims, C!NoClaim
<1>3. (known # "mounted") => NotInUse /\ \A t \in Targets : ~HasMount(t)
  BY NodeConstants, N!UnpublishedIsNotInUse, MountIsUse DEF Services, known, NotInUse
<1>4. CASE known = "mounted"
  <2>1. PICK t \in Targets : targetView[t] = "published"
    BY <1>4 DEF known
  <2>2. N!ShowsVolume(t) /\ mounts[t] \in Seq(N!Mounts)
    BY <2>1 DEF Services, N!NodeInv, N!PublishedIsMounted, N!TypeOK, N!TableTypeOK
  <2>3. HasMount(t)
    BY <2>2 DEF N!ShowsVolume, N!IsMountPoint, HasMount
  <2>4. attachments[Attachment] # "none"
    BY <2>3, MountIsUse
    DEF ContractInv, LifecycleInv, DiskInUseStaysAttached, C!StaysAttached, Attachment
  <2> QED
    BY <1>4, <2>3, <2>4 DEF ContractInv, DiskIsThere, stage
<1>5. CASE known = "attached"
  BY <1>1, <1>3, <1>5 DEF known, C!AttachmentViewIsTrue, Attachment, ContractInv, DiskIsThere, stage
<1>6. CASE known = "created"
  <2>1. claims[Volume].state = "bound" /\ attachmentView[Attachment] = "detached"
    BY <1>6 DEF known
  <2>2. C!Live(Disk)
    BY <1>1, <1>2, <2>1 DEF C!VolumeIsReal
  <2>3. attachments[Attachment] = "none"
    BY <1>1, <2>1 DEF C!AttachmentViewIsTrue, Attachment
  <2> QED
    BY <1>6, <2>2, <2>3 DEF stage
<1>7. CASE known = "absent"
  <2>1. claims[Volume].state = "deleted"
    BY <1>7 DEF known
  <2>2. disks[Disk] = DeletedDisk
    BY <1>1, <1>2, <2>1 DEF C!DeletedIsGone
  <2> QED
    BY <1>7, <2>2 DEF stage, C!Live
<1> QED
  BY <1>4, <1>5, <1>6, <1>7 DEF known

\* What the CO knows of the controller's side.
LEMMA KnownOfDisk ==
  ASSUME Services
  PROVE  /\ known = "attached" => attachmentView[Attachment] = "attached"
         /\ known = "created" => /\ claims[Volume].state = "bound"
                                 /\ attachmentView[Attachment] = "detached"
         /\ known = "absent" => claims[Volume].state = "deleted"
                                /\ disks[Disk] = DeletedDisk
<1>1. C!DeletedIsGone /\ C!TypeOK /\ Volume \in C!VolumeNames
  BY DEF Services, C!VolumeInv, C!VolumeNames, Request
<1>2. claims[Volume].state = "deleted" => disks[Disk] = DeletedDisk
  <2>1. claims[Volume].state # "none" => claims[Volume].id = Disk
    BY <1>1 DEF C!TypeOK, C!Claims, C!NoClaim
  <2> QED
    BY <1>1, <2>1 DEF C!DeletedIsGone
<1> QED
  BY <1>2 DEF known

\* An operation moves the volume by one stage, and only when the CO has asked.
LEMMA OperationMovesStage ==
  ASSUME Services, ContractInv, KnownIsTrue, NEW c \in ControllerHandlers,
         C!TakesEffect(c) \/ C!OperationFails(c), UNCHANGED mounts
  PROVE  /\ Contract!Near(stage, stage')
         /\ known # "unknown" => stage' = stage
<1> DEFINE before == attachments[Attachment]
           after  == attachments'[Attachment]
<1>1. \A t \in Targets : HasMount(t)' = HasMount(t)
  BY DEF HasMount
<1>2. CASE (C!Live(Disk)' <=> C!Live(Disk)) /\ after = before
  <2>1. stage' = stage
    BY <1>1, <1>2 DEF stage
  <2> QED
    BY <2>1, StageIsOne, Neighbours
<1>3. CASE disks[Disk] = NoDisk /\ after = before
  <2>1. ~C!Live(Disk) /\ before = "none"
    BY <1>3 DEF C!Live, ContractInv, DiskIsThere
  <2>2. stage = "absent" /\ stage' \in {"absent", "created"}
    BY <1>3, <2>1 DEF stage
  <2>3. known = "unknown"
    BY <1>3, <2>2, DiskAssumption, KnownOfDisk DEF KnownIsTrue
  <2> QED
    BY <2>2, <2>3, Neighbours
<1>4. CASE /\ C!Deletes(c, Disk)
           /\ C!Live(Disk) /\ ~C!Live(Disk)' /\ before = "none" /\ after = "none"
  <2>1. stage = "created" /\ stage' = "absent"
    BY <1>4 DEF stage
  <2>2. claims[Volume].state # "bound"
    BY <1>4
    DEF Services, C!VolumeInv, C!DeletionsAreKnown, C!ClaimIn, C!VolumeNames, Request
  <2>3. known = "unknown"
    BY <2>1, <2>2, KnownOfDisk DEF KnownIsTrue
  <2> QED
    BY <2>1, <2>3, Neighbours
<1>5. CASE /\ C!Runs(c, "attach", Disk, Instance)
           /\ C!Live(Disk) /\ C!Live(Disk)' /\ before = "none"
  <2>1. \A t \in Targets : ~HasMount(t)
    BY <1>5, MountIsUse
    DEF ContractInv, LifecycleInv, DiskInUseStaysAttached, C!StaysAttached, Attachment
  <2>2. stage = "created" /\ stage' \in {"created", "attached"}
    BY <1>1, <1>5, <2>1 DEF stage
  <2>3. attachmentView[Attachment] # "detached"
    BY <1>5 DEF Services, C!AttachmentInv, C!KnownIsSafe, Attachment
  <2>4. known = "unknown"
    BY <2>2, <2>3, KnownOfDisk DEF KnownIsTrue
  <2> QED
    BY <2>2, <2>4, Neighbours
<1>6. CASE /\ C!Runs(c, "detach", Disk, Instance)
           /\ (C!Live(Disk)' <=> C!Live(Disk)) /\ before # "none" /\ after = "none"
  <2>1. \A t \in Targets : ~HasMount(t)
    BY <1>6, MountIsUse DEF ContractInv, LifecycleInv, DiskInUseStaysAttached, C!StaysAttached
  <2>2. stage = "attached" /\ stage' = "created"
    BY <1>6, <2>1 DEF ContractInv, DiskIsThere, stage
  <2>3. attachmentView[Attachment] # "attached"
    BY <1>6 DEF Services, C!AttachmentInv, C!KnownIsSafe, Attachment
  <2>4. known = "unknown"
    BY <2>2, <2>3, KnownOfDisk DEF KnownIsTrue
  <2> QED
    BY <2>2, <2>4, Neighbours
<1> QED
  BY <1>2, <1>3, <1>4, <1>5, <1>6, OperationMovesDisk DEF ContractInv

\* So does a handler of the node.
LEMMA NodeMovesStage ==
  ASSUME Services, ContractInv, KnownIsTrue, KnownIsTrue',
         NEW h \in NodeHandlers, N!Handler(h), UNCHANGED controllerVars
  PROVE  /\ Contract!Near(stage, stage')
         /\ known # "unknown" => stage' = stage
<1>1. C!Live(Disk)' = C!Live(Disk) /\ attachments' = attachments
  BY DEF controllerVars, C!Live
<1>2. \/ stage' = stage
      \/ stage \in {"attached", "mounted"} /\ stage' \in {"attached", "mounted"}
  BY <1>1 DEF stage
<1>3. ASSUME known = "attached" PROVE stage' = stage
  <2>1. ~N!InUse
    BY <1>3, NodeConstants, N!UnpublishedIsNotInUse DEF Services, known, NotInUse
  <2>2. ~N!InUse'
    BY <2>1, NodeConstants, N!HandlerKeepsUnused DEF Services
  <2>3. \A t \in Targets : ~HasMount(t)'
    BY <2>2 DEF HasMount, N!InUse, N!VolumeUnmounted
  <2> QED
    BY <1>1, <1>3, <2>3 DEF KnownIsTrue, stage
<1>4. ASSUME known = "mounted" PROVE stage' = stage
  <2>1. PICK t \in Targets : targetView[t] = "published"
    BY <1>4 DEF known
  <2>2. N!Active(h) /\ (N!MovesOn(h) \/ N!ReturnsError(h) \/ N!Tells(h))
    BY NodeConstants, N!HandlerKinds DEF Services
  <2>3. nodeReq[h].target # t
    BY <2>1, <2>2 DEF Services, N!NodeInv, N!WorkIsUnknown
  <2>4. targetView'[t] = "published"
    BY <2>1, <2>2, <2>3
    DEF Services, N!TypeOK, N!MovesOn, N!ReturnsError, N!Tells, N!ReturnsOK
  <2>5. known' = "mounted"
    BY <2>4 DEF known
  <2> QED
    BY <1>4, <2>5 DEF KnownIsTrue
<1>5. ASSUME known \in {"created", "absent"} PROVE stage' = stage
  BY <1>2, <1>5 DEF KnownIsTrue
<1>6. known # "unknown" => stage' = stage
  BY <1>3, <1>4, <1>5 DEF known
<1> QED
  BY <1>2, <1>6, StageIsOne, Neighbours

\* A step that keeps what is known true is one of the contract's.
LEMMA NextKeepsContract ==
  Services /\ ContractInv /\ KnownIsTrue /\ KnownIsTrue' /\ [Next]_vars
    => [Contract!Next]_<<stage, known>>
<1> SUFFICES ASSUME Services, ContractInv, KnownIsTrue, KnownIsTrue', [Next]_vars
             PROVE  [Contract!Next]_<<stage, known>>
  OBVIOUS
<1>1. /\ Contract!Near(stage, stage')
      /\ known # "unknown" => stage' = stage
  <2>1. CASE UNCHANGED <<disks, attachments, mounts>>
    <3>1. stage' = stage
      BY <2>1 DEF stage, HasMount, C!Live
    <3> QED
      BY <3>1, StageIsOne, Neighbours
  <2> QED
    BY <2>1, StepsMove, OperationMovesStage, NodeMovesStage
<1>2. CASE known = "unknown"
  BY <1>1, <1>2 DEF KnownIsTrue, Contract!Next, Contract!Move, Contract!Tell
<1>3. CASE known # "unknown"
  BY <1>1, <1>3 DEF KnownIsTrue, Contract!Next, Contract!Ask
<1> QED
  BY <1>2, <1>3

\* Controller and node service together keep the contract of VolumeContract:
\* the volume moves by one stage at a time, only while the CO has a request
\* out, and the CO is told the stage the volume is in (ControllerPublishVolume,
\* ControllerUnpublishVolume, DeleteVolume, NodePublishVolume,
\* NodeUnpublishVolume).
THEOREM ServicesKeepContract == Spec => ImplementsContract
<1>1. Init => ContractInv
  <2>1. Init => LifecycleInv
    BY InitLifecycle
  <2>2. Init => attachments[Attachment] = "none"
    BY DEF Init, C!Init, C!APIInit, Attachment
  <2> QED
    BY <2>1, <2>2 DEF ContractInv, DiskIsThere
<1>2. Init => Contract!Init
  <2> SUFFICES ASSUME Init PROVE Contract!Init
    OBVIOUS
  <2>1. disks[Disk] = NoDisk /\ claims[Volume].state = "none"
    BY DEF Init, C!Init, C!APIInit, C!VolumeNames, C!NoClaim, Request
  <2>2. \A t \in Targets : targetView[t] # "published"
    BY DEF Init, N!Init
  <2> QED
    BY <2>1, <2>2 DEF Contract!Init, stage, known, C!Live
<1>3. Services /\ ContractInv /\ [Next]_vars => ContractInv'
  BY NextContract
<1>4. Services /\ ContractInv => KnownIsTrue
  BY KnowledgeIsTrue
<1>5. Services /\ ContractInv /\ KnownIsTrue /\ KnownIsTrue' /\ [Next]_vars
        => [Contract!Next]_<<stage, known>>
  BY NextKeepsContract
<1>6. Spec => []Services
  BY ServicesInvariant DEF Services
<1> QED
  BY <1>1, <1>2, <1>3, <1>4, <1>5, <1>6, PTL DEF Spec, ImplementsContract, Contract!Spec

-----------------------------------------------------------------------------
(* What is proved of each service alone, under hypotheses about the requests *)
(* and the API, holds here without any: this CO meets them.                  *)

\* What the CO and the kubelet are told of the volume is true, however often
\* they repeat a request and whatever restarts: the disk is there, in the
\* place and of the size they were told, its creation is never refused before
\* it is answered with success, a target changes only while the kubelet awaits
\* an answer for it, and no repeated publish takes its mount away
\* (CreateVolume, ControllerExpandVolume, NodePublishVolume).
THEOREM VolumeIsAsTold ==
    Spec => /\ [](/\ C!VolumeIsReal /\ C!SizeIsGranted /\ C!PlaceIsTold
                  /\ C!RetriesAreNotRefused /\ C!DeletedIsGone
                  /\ C!AttachmentViewIsTrue)
            /\ [](N!PublishedIsMounted /\ N!UnpublishedIsClean)
            /\ N!SSDMountIsKept
            /\ N!ImplementsContract
<1>1. C!Spec => []C!VolumeIsReal
  BY OneVolumeAgrees, ControllerConstants, C!VolumesAreReal
<1>2. C!Spec => []C!SizeIsGranted
  BY OneVolumeAgrees, ControllerConstants, C!SizesAreGranted
<1>3. C!Spec => []C!PlaceIsTold
  BY OneVolumeAgrees, ControllerConstants, C!PlacesAreAsTold
<1>4. C!Spec => []C!RetriesAreNotRefused
  BY OneVolumeAgrees, ControllerConstants, C!RetriesAreRecognised
<1>5. C!Spec => []C!DeletedIsGone
  BY OneVolumeAgrees, ControllerConstants, C!DeletedVolumesAreGone
<1>6. C!Spec => []C!AttachmentViewIsTrue
  BY OneVolumeAgrees, ControllerConstants, C!AttachmentsNeedNoProtection
<1>7. N!Spec => []N!PublishedIsMounted
  BY NodeConstants, N!PublishedTargetsAreMounted
<1>8. N!Spec => []N!UnpublishedIsClean
  BY NodeConstants, N!UnpublishedTargetsAreClean
<1>9. N!Spec => N!SSDMountIsKept
  BY NodeConstants, N!SSDMountsAreKept
<1>10. N!Spec => N!ImplementsContract
  BY NodeConstants, N!TargetsKeepContract
<1> QED
  BY <1>1, <1>2, <1>3, <1>4, <1>5, <1>6, <1>7, <1>8, <1>9, <1>10, ControllerBehaves, NodeBehaves,
     PTL

=============================================================================
