------------------------------ MODULE NodeProofs ------------------------------
(***************************************************************************)
(* Theorems about Node: a target reported as published shows the volume,   *)
(* one reported as unpublished is clean, for any number of handlers and    *)
(* targets.                                                                *)
(*                                                                         *)
(* A handler's step is looked at twice: for what it does to the mount      *)
(* table, at its own target only (TableOfHandler), and for whether it      *)
(* moves on, fails or tells (HandlerKinds).                                *)
(***************************************************************************)
EXTENDS Node, TLAPS

Names == {"by-id", "tag", "disk", "dns", "configured"}

\* What a step of a handler with this target may do to the table.
OnlyAt(target) ==
    /\ \A t \in Targets \ {target} : mounts'[t] = mounts[t] /\ (t \in paths' <=> t \in paths)
    /\ TableTypeOK'
    /\ OthersAreBelow'
    /\ MountsArePaths'

\* The table as it is good, and as the calls keep it.
TableInv == TableTypeOK /\ OthersAreBelow /\ MountsArePaths

MovesOn(h) ==
    \E s \in PublishSteps \cup UnpublishSteps, d \in Devices \cup {NoDevice} :
        /\ pc' = [pc EXCEPT ![h] = s]
        /\ device' = [device EXCEPT ![h] = d]
        /\ s \in PublishSteps => d \in Names /\ req[h].call = "NodePublishVolume"
        /\ s \in UnpublishSteps => req[h].call = "NodeUnpublishVolume"
        /\ s = "resize" => \A t \in Targets : t = req[h].target => t \in paths' /\ ShowsVolume(t)'
        /\ UNCHANGED <<fixedVars, req, stale, settled, view>>

\* A handler that tells the kubelet of success has done what it tells.
Tells(h) ==
    /\ ReturnsOK(h)
    /\ settled[h] /\ ~stale[h] =>
         \A t \in Targets : t = req[h].target =>
            IF req[h].call = "NodePublishVolume" THEN t \in paths' /\ ShowsVolume(t)'
            ELSE t \notin paths' /\ ~IsMountPoint(t)'

-----------------------------------------------------------------------------
(* The calls of the mount table *)

\* Unmounting, at whatever target, keeps the table in order.
LEMMA UnmountOnlyAt ==
    ASSUME TableInv, NEW target \in Targets, Unmount(target)
    PROVE  OnlyAt(target)
<1> DEFINE m == mounts[target]
<1>1. m \in Seq(Mounts) /\ Len(m) \in Nat
  BY DEF TableInv, TableTypeOK
<1>2. ASSUME m # <<>>
      PROVE  /\ SubSeq(m, 1, Len(m) - 1) \in Seq(Mounts)
             /\ Len(SubSeq(m, 1, Len(m) - 1)) = Len(m) - 1
             /\ \A i \in 1..(Len(m) - 1) : SubSeq(m, 1, Len(m) - 1)[i] = m[i]
  BY <1>1, <1>2
<1>3. mounts'[target] = IF m # <<>> THEN SubSeq(m, 1, Len(m) - 1) ELSE m
  BY DEF Unmount, IsMountPoint, TableInv, TableTypeOK
<1>4. mounts' \in [Targets -> Seq(Mounts)]
  BY <1>1, <1>2 DEF Unmount, IsMountPoint, TableInv, TableTypeOK
<1>5. \A t \in Targets \ {target} : mounts'[t] = mounts[t]
  BY DEF Unmount, TableInv, TableTypeOK
<1>6. OthersAreBelow'
  <2> SUFFICES ASSUME NEW t \in Targets, NEW i \in 1..Len(mounts'[t])
               PROVE  mounts'[t][i].volume \/ (i = 1 /\ mounts'[t][i].device = "foreign")
    BY DEF OthersAreBelow
  <2>1. CASE t # target
    BY <1>5, <2>1 DEF TableInv, OthersAreBelow
  <2>2. CASE t = target /\ m = <<>>
    BY <1>3, <2>2 DEF TableInv, OthersAreBelow
  <2>3. CASE t = target /\ m # <<>>
    <3>1. i \in 1..(Len(m) - 1) /\ i \in 1..Len(m) /\ mounts'[t][i] = m[i]
      BY <1>1, <1>2, <1>3, <2>3
    <3> QED BY <2>3, <3>1 DEF TableInv, OthersAreBelow
  <2> QED BY <2>1, <2>2, <2>3
<1>7. MountsArePaths'
  BY <1>3, <1>5 DEF MountsArePaths, IsMountPoint, Unmount, TableInv
<1> QED BY <1>4, <1>5, <1>6, <1>7 DEF OnlyAt, Unmount, TableInv, TableTypeOK

\* After a mount the target shows the volume.
LEMMA MountOnlyAt ==
    ASSUME TableInv, NEW target \in Targets, NEW device_ \in Devices, Mount(target, device_)
    PROVE  OnlyAt(target) /\ target \in paths' /\ ShowsVolume(target)'
<1> DEFINE m == mounts[target]
           e == [device |-> device_, volume |-> TRUE]
<1>0. e \in Mounts
  BY Zenon DEF Mounts
<1>1. m \in Seq(Mounts) /\ Len(m) \in Nat /\ e \in Mounts
  BY <1>0 DEF TableInv, TableTypeOK
<1>2. /\ Append(m, e) \in Seq(Mounts)
      /\ Len(Append(m, e)) = Len(m) + 1
      /\ Append(m, e)[Len(m) + 1] = e
      /\ \A i \in 1..Len(m) : Append(m, e)[i] = m[i]
  BY <1>1
<1>3. mounts'[target] = Append(m, e)
  BY DEF Mount, TableInv, TableTypeOK
<1>4. mounts' \in [Targets -> Seq(Mounts)]
  BY <1>2 DEF Mount, TableInv, TableTypeOK
<1>5. \A t \in Targets \ {target} : mounts'[t] = mounts[t]
  BY DEF Mount, TableInv, TableTypeOK
<1>6. OthersAreBelow'
  <2> SUFFICES ASSUME NEW t \in Targets, NEW i \in 1..Len(mounts'[t])
               PROVE  mounts'[t][i].volume \/ (i = 1 /\ mounts'[t][i].device = "foreign")
    BY DEF OthersAreBelow
  <2>1. CASE t # target
    BY <1>5, <2>1 DEF TableInv, OthersAreBelow
  <2>2. CASE t = target /\ i \in 1..Len(m)
    BY <1>2, <1>3, <2>2 DEF TableInv, OthersAreBelow
  <2>3. CASE t = target /\ i = Len(m) + 1
    BY <1>2, <1>3, <2>3
  <2> QED BY <1>1, <1>2, <1>3, <2>1, <2>2, <2>3
<1>7. MountsArePaths'
  BY <1>5 DEF MountsArePaths, IsMountPoint, Mount, TableInv
<1>8. ShowsVolume(target)'
  BY <1>1, <1>2, <1>3 DEF ShowsVolume, IsMountPoint
<1> QED BY <1>4, <1>5, <1>6, <1>7, <1>8 DEF OnlyAt, Mount, TableInv, TableTypeOK

\* The calls that leave the mounts alone.
LEMMA PathOnlyAt ==
    ASSUME TableInv, NEW target \in Targets,
           \/ MakePath(target) \/ RemovePath(target)
           \/ FormatIfNeeded \/ ResizeFileSystem \/ UNCHANGED tableVars
    PROVE  OnlyAt(target)
BY DEF OnlyAt, TableInv, TableTypeOK, MakePath, RemovePath, FormatIfNeeded, ResizeFileSystem,
       tableVars, FileSystems, OthersAreBelow, MountsArePaths, IsMountPoint

\* What the table names is what is mounted, and a name that is not foreign is
\* the volume's, also below other mounts.
LEMMA NamedIsVolume ==
    ASSUME TableInv, NEW t \in Targets, NamedDevice(t) \in Names
    PROVE  t \in paths /\ ShowsVolume(t)
<1> DEFINE m == mounts[t]
<1>1. m \in Seq(Mounts) /\ m # <<>> /\ Len(m) \in Nat \ {0} /\ Head(m) = m[1]
  BY DEF TableInv, TableTypeOK, NamedDevice, IsMountPoint, Names
<1>2. m[1].device \in Names
  BY <1>1 DEF NamedDevice, IsMountPoint
<1>3. m[Len(m)].volume
  BY <1>1, <1>2 DEF TableInv, OthersAreBelow, Names
<1> QED BY <1>1, <1>3 DEF TableInv, MountsArePaths, ShowsVolume, IsMountPoint

-----------------------------------------------------------------------------
(* The steps of a handler *)

\* A step of a handler disturbs the table at the handler's target only.
LEMMA TableOfHandler ==
    ASSUME NodeAssumption, TypeOK, NodeInv, NEW h \in Handlers, Handler(h)
    PROVE  OnlyAt(req[h].target)
<1> DEFINE target == req[h].target
<1>1. TableInv
  BY DEF TypeOK, NodeInv, TableInv
<1>2. target \in Targets
  BY DEF NodeInv, StepsSuitRequest, Requests, Handler, Active, Fails, Resolve, VerifyFindsNothing,
         VerifyFindsMount, DeviceMatches, DeviceDiffers, UnmountOther, UnmountUnsupported, MakeTarget,
         Format, MountVolume, Resize, CleanupFindsNoPath, CleanupFindsNoMount, CleanupFindsMount,
         Detach, RemoveTarget
<1>3. CASE UnmountOther(h) \/ UnmountUnsupported(h) \/ Detach(h)
  BY <1>1, <1>2, <1>3, UnmountOnlyAt DEF UnmountOther, UnmountUnsupported, Detach
<1>4. CASE MountVolume(h)
  <2>1. TableName(h) \in Devices
    BY <1>4 DEF MountVolume, TableName, NodeInv, DeviceIsResolved, PublishSteps, NodeAssumption
  <2> QED BY <1>1, <1>2, <1>4, <2>1, MountOnlyAt DEF MountVolume
<1>5. CASE ~(UnmountOther(h) \/ UnmountUnsupported(h) \/ Detach(h) \/ MountVolume(h))
  <2>1. \/ MakePath(target) \/ RemovePath(target)
        \/ FormatIfNeeded \/ ResizeFileSystem \/ UNCHANGED tableVars
    BY <1>5 DEF Handler, Fails, Resolve, VerifyFindsNothing, VerifyFindsMount, DeviceMatches,
           DeviceDiffers, MakeTarget, Format, Resize, CleanupFindsNoPath, CleanupFindsNoMount,
           CleanupFindsMount, RemoveTarget
  <2> QED BY <1>1, <1>2, <2>1, PathOnlyAt
<1> QED BY <1>3, <1>4, <1>5

\* Whatever the API answers, the device path is a name of the volume.
LEMMA DevicePathsAreNames ==
    DevicePaths \subseteq Names
BY DEF DevicePaths, Names, GetFSDevicePath, ResolveNFSTarget, UseDNSForMount

\* A step of a handler moves it on, fails or tells.
LEMMA HandlerKinds ==
    ASSUME NodeAssumption, TypeOK, NodeInv, NEW h \in Handlers, Handler(h)
    PROVE  Active(h) /\ (MovesOn(h) \/ ReturnsError(h) \/ Tells(h))
<1> DEFINE target == req[h].target
<1> USE DEF PublishSteps, UnpublishSteps
<1>1. TableInv
  BY DEF TypeOK, NodeInv, TableInv
<1>2. Active(h)
  BY DEF Handler, Active, Fails, Resolve, VerifyFindsNothing, VerifyFindsMount, DeviceMatches,
         DeviceDiffers, UnmountOther, UnmountUnsupported, MakeTarget, Format, MountVolume, Resize,
         CleanupFindsNoPath, CleanupFindsNoMount, CleanupFindsMount, Detach, RemoveTarget
<1>3. target \in Targets
  BY <1>2 DEF NodeInv, StepsSuitRequest, Requests
<1>4. device = [device EXCEPT ![h] = device[h]] /\ device[h] \in Devices \cup {NoDevice}
  BY DEF TypeOK
<1>5. CASE Fails(h) \/ UnmountUnsupported(h)
  BY <1>2, <1>5 DEF Fails, UnmountUnsupported
<1>6. CASE Resolve(h)
  <2>1. PICK d \in DevicePaths : device' = [device EXCEPT ![h] = d]
    BY <1>6 DEF Resolve
  <2>2. d \in Names /\ d \in Devices
    BY <2>1, DevicePathsAreNames DEF Names, NodeAssumption
  <2>3. req[h].call = "NodePublishVolume"
    BY <1>6 DEF Resolve, NodeInv, StepsSuitRequest
  <2> QED BY <1>2, <1>6, <2>1, <2>2, <2>3 DEF Resolve, MovesOn, tableVars, fixedVars
<1>7. ASSUME NEW s \in PublishSteps \ {"resize"}, pc[h] \in PublishSteps, GoesTo(h, s)
      PROVE  MovesOn(h)
  <2>1. device[h] \in Names /\ req[h].call = "NodePublishVolume"
    BY <1>7 DEF NodeInv, DeviceIsResolved, StepsSuitRequest, Names
  <2> QED BY <1>4, <1>7, <2>1 DEF GoesTo, MovesOn
<1>8. ASSUME NEW s \in UnpublishSteps, pc[h] \in UnpublishSteps, GoesTo(h, s)
      PROVE  MovesOn(h)
  <2>1. req[h].call = "NodeUnpublishVolume"
    BY <1>8 DEF NodeInv, StepsSuitRequest
  <2> QED BY <1>4, <1>8, <2>1 DEF GoesTo, MovesOn
<1>9. CASE VerifyFindsNothing(h) \/ VerifyFindsMount(h) \/ DeviceDiffers(h) \/ UnmountOther(h)
           \/ MakeTarget(h) \/ Format(h)
  BY <1>2, <1>7, <1>9 DEF VerifyFindsNothing, VerifyFindsMount, DeviceDiffers, UnmountOther, MakeTarget, Format
<1>10. CASE CleanupFindsMount(h) \/ Detach(h)
  BY <1>2, <1>8, <1>10 DEF CleanupFindsMount, Detach
<1>11. CASE DeviceMatches(h)
  <2>1. NamedDevice(target) \in Names /\ req[h].call = "NodePublishVolume"
    BY <1>11 DEF DeviceMatches, NodeInv, DeviceIsResolved, StepsSuitRequest, Names
  <2>2. target \in paths /\ ShowsVolume(target)
    BY <1>1, <1>3, <2>1, NamedIsVolume
  <2> QED BY <1>2, <1>11, <2>1, <2>2 DEF DeviceMatches, Tells, tableVars, ShowsVolume, IsMountPoint
<1>12. CASE MountVolume(h)
  <2>1. TableName(h) \in Devices /\ device[h] \in Names /\ req[h].call = "NodePublishVolume"
    BY <1>12 DEF MountVolume, TableName, NodeInv, DeviceIsResolved, StepsSuitRequest, NodeAssumption, Names
  <2>2. \A t \in Targets : t = target => t \in paths' /\ ShowsVolume(t)'
    BY <1>1, <1>3, <1>12, <2>1, MountOnlyAt DEF MountVolume
  <2>3. CASE GoesTo(h, "resize")
    BY <1>2, <1>4, <2>1, <2>2, <2>3 DEF GoesTo, MovesOn
  <2>4. CASE ReturnsOK(h)
    BY <1>2, <2>1, <2>2, <2>4 DEF Tells
  <2> QED BY <1>12, <2>3, <2>4 DEF MountVolume
<1>13. CASE Resize(h)
  BY <1>2, <1>13 DEF Resize, ResizeFileSystem, Tells, NodeInv, MountedForResize, StepsSuitRequest,
                     ShowsVolume, IsMountPoint
<1>14. CASE CleanupFindsNoPath(h)
  BY <1>2, <1>14 DEF CleanupFindsNoPath, Tells, NodeInv, StepsSuitRequest, MountsArePaths,
                     tableVars, IsMountPoint
<1>15. CASE CleanupFindsNoMount(h) \/ RemoveTarget(h)
  BY <1>2, <1>15 DEF CleanupFindsNoMount, RemoveTarget, RemovePath, Tells, NodeInv,
                     StepsSuitRequest, IsMountPoint
<1> QED BY <1>5, <1>6, <1>9, <1>10, <1>11, <1>12, <1>13, <1>14, <1>15 DEF Handler

-----------------------------------------------------------------------------
(* Each kind of step preserves the invariant *)

\* What is known of a target is not disturbed by a step at another one.
LEMMA FrameKeeps ==
    ASSUME NEW target, OnlyAt(target), NEW t \in Targets, t # target
    PROVE  /\ t \in paths' <=> t \in paths
           /\ ShowsVolume(t)' <=> ShowsVolume(t)
           /\ IsMountPoint(t)' <=> IsMountPoint(t)
BY DEF OnlyAt, ShowsVolume, IsMountPoint

\* A handler that is alone is not disturbed by another's step.
LEMMA ResizeUndisturbed ==
    ASSUME TypeOK, NodeInv, NEW h \in Handlers, Active(h), OnlyAt(req[h].target),
           NEW g \in Handlers, g # h, pc[g] = "resize", settled[g], ~stale[g]
    PROVE  \A t \in Targets : t = req[g].target => t \in paths' /\ ShowsVolume(t)'
<1>1. req[g].target \in Targets /\ req[g].target # req[h].target
  BY DEF NodeInv, SettledIsAlone, WorksOn, Active, StepsSuitRequest, Requests
<1>2. req[g].target \in paths /\ ShowsVolume(req[g].target)
  BY DEF NodeInv, MountedForResize
<1> QED BY <1>1, <1>2, FrameKeeps

\* A handler that moves on keeps the invariant.
LEMMA MovesOnPreserves ==
    ASSUME TypeOK, NodeInv, NEW h \in Handlers, Active(h), OnlyAt(req[h].target), MovesOn(h)
    PROVE  TypeOK' /\ NodeInv'
<1> PICK s \in PublishSteps \cup UnpublishSteps, d \in Devices \cup {NoDevice} :
        /\ pc' = [pc EXCEPT ![h] = s]
        /\ device' = [device EXCEPT ![h] = d]
        /\ s \in PublishSteps => d \in Names /\ req[h].call = "NodePublishVolume"
        /\ s \in UnpublishSteps => req[h].call = "NodeUnpublishVolume"
        /\ s = "resize" => \A t \in Targets : t = req[h].target => t \in paths' /\ ShowsVolume(t)'
        /\ UNCHANGED <<fixedVars, req, stale, settled, view>>
  BY DEF MovesOn
<1>1. TypeOK'
  BY DEF TypeOK, OnlyAt, fixedVars
<1>2. \A g \in Handlers : /\ pc'[g] = IF g = h THEN s ELSE pc[g]
                          /\ device'[g] = IF g = h THEN d ELSE device[g]
                          /\ Active(g)' <=> Active(g)
  BY DEF TypeOK, Active, PublishSteps, UnpublishSteps
<1>3. DeviceIsResolved'
  BY <1>2 DEF NodeInv, DeviceIsResolved, Names
<1>4. StepsSuitRequest'
  <2> SUFFICES ASSUME NEW g \in Handlers
               PROVE  /\ Active(g)' => req[g] \in Requests
                      /\ pc'[g] \in PublishSteps \cup {"resolve"} => req[g].call = "NodePublishVolume"
                      /\ pc'[g] \in UnpublishSteps => req[g].call = "NodeUnpublishVolume"
    BY DEF StepsSuitRequest, Requests
  <2>1. CASE g = h
    BY <1>2, <2>1 DEF NodeInv, StepsSuitRequest, PublishSteps, UnpublishSteps
  <2>2. CASE g # h
    BY <1>2, <2>2 DEF NodeInv, StepsSuitRequest
  <2> QED BY <2>1, <2>2
<1>5. SettledIsAlone'
  BY <1>2 DEF NodeInv, SettledIsAlone, WorksOn
<1>6. WorkIsUnknown'
  BY <1>2 DEF NodeInv, WorkIsUnknown
<1>7. MountedForResize'
  <2> SUFFICES ASSUME NEW g \in Handlers, pc'[g] = "resize", settled[g], ~stale[g]
               PROVE  req[g].target \in paths' /\ ShowsVolume(req[g].target)'
    BY DEF MountedForResize, ShowsVolume, IsMountPoint
  <2>1. req[g].target \in Targets
    BY <1>2, <1>4 DEF StepsSuitRequest, Active, Requests
  <2>2. CASE g = h
    BY <1>2, <2>1, <2>2 DEF ShowsVolume, IsMountPoint
  <2>3. CASE g # h
    BY <1>2, <2>1, <2>3, ResizeUndisturbed DEF ShowsVolume, IsMountPoint
  <2> QED BY <2>2, <2>3
<1>8. PublishedIsMounted' /\ UnpublishedIsClean'
  <2> SUFFICES ASSUME NEW t \in Targets, view[t] \in {"published", "unpublished"}
               PROVE  /\ view[t] = "published" => t \in paths' /\ ShowsVolume(t)'
                      /\ view[t] = "unpublished" => t \notin paths' /\ ~IsMountPoint(t)'
    BY DEF PublishedIsMounted, UnpublishedIsClean
  <2>1. t # req[h].target
    BY DEF NodeInv, WorkIsUnknown
  <2> QED BY <2>1, FrameKeeps DEF NodeInv, PublishedIsMounted, UnpublishedIsClean
<1> QED BY <1>1, <1>3, <1>4, <1>5, <1>6, <1>7, <1>8 DEF NodeInv, OnlyAt

\* A handler that replies keeps the invariant, when what it tells is so.
LEMMA ReplyPreserves ==
    ASSUME TypeOK, NodeInv, NEW h \in Handlers, Active(h), OnlyAt(req[h].target),
           ReturnsError(h) \/ Tells(h)
    PROVE  TypeOK' /\ NodeInv'
<1>1. Ends(h)
  BY DEF ReturnsError, Tells, ReturnsOK
<1>2. req[h] \in Requests /\ req[h].target \in Targets
  BY DEF NodeInv, StepsSuitRequest, Requests
<1>3. \A t \in Targets \ {req[h].target} : view'[t] = view[t]
  BY DEF ReturnsError, Tells, ReturnsOK, TypeOK
<1>4. view' \in [Targets -> {"unknown", "published", "unpublished"}]
  BY DEF ReturnsError, Tells, ReturnsOK, TypeOK
<1>5. TypeOK'
  BY <1>1, <1>4 DEF Ends, TypeOK, OnlyAt, fixedVars
<1>6. \A g \in Handlers \ {h} :
         /\ pc'[g] = pc[g] /\ req'[g] = req[g] /\ device'[g] = device[g]
         /\ stale'[g] = stale[g] /\ settled'[g] = settled[g]
         /\ Active(g)' <=> Active(g)
  BY <1>1 DEF Ends, TypeOK, Active
<1>7. pc'[h] = "idle" /\ ~Active(h)' /\ ~settled'[h]
  BY <1>1 DEF Ends, TypeOK, Active
<1>8. DeviceIsResolved'
  BY <1>6, <1>7 DEF NodeInv, DeviceIsResolved, PublishSteps
<1>9. StepsSuitRequest'
  BY <1>6, <1>7 DEF NodeInv, StepsSuitRequest, PublishSteps, UnpublishSteps, Requests
<1>10. SettledIsAlone'
  BY <1>6, <1>7 DEF NodeInv, SettledIsAlone, WorksOn
<1>11. MountedForResize'
  <2> SUFFICES ASSUME NEW g \in Handlers, pc'[g] = "resize", settled'[g], ~stale'[g]
               PROVE  req'[g].target \in paths' /\ ShowsVolume(req[g].target)'
    BY DEF MountedForResize
  <2>1. g # h
    BY <1>7
  <2>2. req'[g].target \in Targets
    BY <1>9 DEF StepsSuitRequest, Active, Requests
  <2> QED BY <1>6, <2>1, <2>2, ResizeUndisturbed DEF ShowsVolume, IsMountPoint
<1>12. CASE stale[h] \/ ~settled[h] \/ ReturnsError(h)
  <2>1. view' = view
    BY <1>12 DEF ReturnsError, Tells, ReturnsOK, TypeOK
  <2>2. WorkIsUnknown'
    BY <1>6, <1>7, <2>1 DEF NodeInv, WorkIsUnknown
  <2>3. PublishedIsMounted' /\ UnpublishedIsClean'
    <3> SUFFICES ASSUME NEW t \in Targets, view[t] \in {"published", "unpublished"}
                 PROVE  /\ view[t] = "published" => t \in paths' /\ ShowsVolume(t)'
                        /\ view[t] = "unpublished" => t \notin paths' /\ ~IsMountPoint(t)'
      BY <2>1 DEF PublishedIsMounted, UnpublishedIsClean
    <3>1. t # req[h].target
      BY DEF NodeInv, WorkIsUnknown
    <3> QED BY <3>1, FrameKeeps DEF NodeInv, PublishedIsMounted, UnpublishedIsClean
  <2> QED BY <1>5, <1>8, <1>9, <1>10, <1>11, <2>2, <2>3 DEF NodeInv, OnlyAt
<1>13. CASE Tells(h) /\ settled[h] /\ ~stale[h]
  <2>1. view'[req[h].target] = IF req[h].call = "NodePublishVolume" THEN "published" ELSE "unpublished"
    BY <1>2, <1>13 DEF Tells, ReturnsOK, TypeOK
  <2>2. WorkIsUnknown'
    <3> SUFFICES ASSUME NEW g \in Handlers, g # h, Active(g)
                 PROVE  view'[req[g].target] = "unknown"
      BY <1>6, <1>7 DEF WorkIsUnknown
    <3>1. req[g].target \in Targets /\ req[g].target # req[h].target
      BY <1>13 DEF NodeInv, SettledIsAlone, WorksOn, StepsSuitRequest, Requests
    <3> QED BY <1>3, <3>1 DEF NodeInv, WorkIsUnknown
  <2>3. PublishedIsMounted' /\ UnpublishedIsClean'
    <3> SUFFICES ASSUME NEW t \in Targets
                 PROVE  /\ view'[t] = "published" => t \in paths' /\ ShowsVolume(t)'
                        /\ view'[t] = "unpublished" => t \notin paths' /\ ~IsMountPoint(t)'
      BY DEF PublishedIsMounted, UnpublishedIsClean
    <3>1. CASE t = req[h].target
      BY <1>13, <2>1, <3>1 DEF Tells
    <3>2. CASE t # req[h].target
      BY <1>3, <3>2, FrameKeeps DEF NodeInv, PublishedIsMounted, UnpublishedIsClean
    <3> QED BY <3>1, <3>2
  <2> QED BY <1>5, <1>8, <1>9, <1>10, <1>11, <2>2, <2>3 DEF NodeInv, OnlyAt
<1> QED BY <1>12, <1>13

\* The kubelet's calls keep the invariant: a request begins where only handlers
\* it has given up are at work.
LEMMA BeginPreserves ==
    ASSUME TypeOK, NodeInv, NEW h \in Handlers, NEW t \in Targets,
           BeginPublish(h, t) \/ BeginUnpublish(h, t)
    PROVE  TypeOK' /\ NodeInv'
<1> PICK call \in {"NodePublishVolume", "NodeUnpublishVolume"}, first \in {"resolve", "cleanup"} :
        /\ Begin(h, call, t, first)
        /\ first = (IF call = "NodePublishVolume" THEN "resolve" ELSE "cleanup")
  BY DEF BeginPublish, BeginUnpublish
<1> DEFINE r == [call |-> call, target |-> t]
<1> HIDE DEF r
<1>1. r \in Requests /\ r.call = call /\ r.target = t
  BY DEF r, Requests
<1>2. /\ pc' = [pc EXCEPT ![h] = first]
      /\ req' = [req EXCEPT ![h] = r]
      /\ settled' = [settled EXCEPT ![h] = \A g \in Handlers : ~WorksOn(g, t)]
      /\ view' = [view EXCEPT ![t] = "unknown"]
      /\ UNCHANGED <<tableVars, fixedVars, device, stale>>
  BY DEF Begin, r
<1>3. (\A g \in Handlers : ~WorksOn(g, t)) \in BOOLEAN
  OBVIOUS
<1>4. TypeOK'
  <2>1. settled' \in [Handlers -> BOOLEAN]
    BY Zenon, <1>2, <1>3 DEF TypeOK
  <2> QED BY <1>1, <1>2, <2>1 DEF TypeOK, TableTypeOK, tableVars, fixedVars, UnpublishSteps
<1>5. \A g \in Handlers \ {h} :
         /\ pc'[g] = pc[g] /\ req'[g] = req[g] /\ settled'[g] = settled[g]
         /\ Active(g)' <=> Active(g)
  BY <1>2 DEF TypeOK, Active
<1>6. /\ pc'[h] = first /\ req'[h] = r /\ Active(h)'
      /\ settled'[h] => \A g \in Handlers : ~WorksOn(g, t)
  BY <1>2 DEF TypeOK, Active
<1>7. \A g \in Handlers : stale'[g] = stale[g] /\ device'[g] = device[g]
  BY <1>2
<1>8. DeviceIsResolved'
  BY <1>5, <1>6, <1>7 DEF NodeInv, DeviceIsResolved, PublishSteps
<1>9. StepsSuitRequest'
  <2> SUFFICES ASSUME NEW g \in Handlers
               PROVE  /\ Active(g)' => req'[g] \in Requests
                      /\ pc'[g] \in PublishSteps \cup {"resolve"} => req'[g].call = "NodePublishVolume"
                      /\ pc'[g] \in UnpublishSteps => req'[g].call = "NodeUnpublishVolume"
    BY DEF StepsSuitRequest, Requests
  <2>1. CASE g = h
    BY <1>1, <1>6, <2>1 DEF PublishSteps, UnpublishSteps
  <2>2. CASE g # h
    BY <1>5, <2>2 DEF NodeInv, StepsSuitRequest
  <2> QED BY <2>1, <2>2
<1>10. SettledIsAlone'
  <2> SUFFICES ASSUME NEW f \in Handlers, NEW g \in Handlers \ {f},
                      Active(f)', settled'[f], ~stale'[f], Active(g)'
               PROVE  req'[g].target # req'[f].target
    BY DEF SettledIsAlone, WorksOn
  <2>1. CASE f = h
    BY <1>1, <1>5, <1>6, <2>1 DEF WorksOn
  <2>2. CASE g = h
    BY <1>1, <1>5, <1>6, <1>7, <2>2 DEF Begin, WorksOn
  <2>3. CASE f # h /\ g # h
    BY <1>5, <1>7, <2>3 DEF NodeInv, SettledIsAlone, WorksOn
  <2> QED BY <2>1, <2>2, <2>3
<1>11. WorkIsUnknown'
  BY <1>1, <1>2, <1>5, <1>6 DEF NodeInv, WorkIsUnknown, TypeOK, StepsSuitRequest, Requests
<1>12. OthersAreBelow' /\ MountsArePaths'
  BY <1>2 DEF NodeInv, OthersAreBelow, MountsArePaths, IsMountPoint, tableVars
<1>13. MountedForResize'
  BY <1>2, <1>5, <1>6, <1>7 DEF NodeInv, MountedForResize, ShowsVolume, IsMountPoint, tableVars
<1>14. PublishedIsMounted' /\ UnpublishedIsClean'
  BY <1>2 DEF NodeInv, PublishedIsMounted, UnpublishedIsClean, ShowsVolume, IsMountPoint, tableVars, TypeOK
<1> QED BY <1>4, <1>8, <1>9, <1>10, <1>11, <1>12, <1>13, <1>14 DEF NodeInv

\* A handler that is given up keeps the invariant, which asks less of it then.
LEMMA GivesUpPreserves ==
    ASSUME TypeOK, NodeInv, NEW h \in Handlers, GivesUp(h)
    PROVE  TypeOK' /\ NodeInv'
<1>1. /\ stale' = [stale EXCEPT ![h] = TRUE]
      /\ UNCHANGED <<tableVars, fixedVars, pc, req, device, settled, view>>
  BY DEF GivesUp
<1>2. TypeOK'
  BY <1>1 DEF TypeOK, TableTypeOK, tableVars, fixedVars
<1>3. \A g \in Handlers : ~stale'[g] => ~stale[g]
  BY <1>1 DEF TypeOK
<1>4. SettledIsAlone' /\ MountedForResize'
  BY <1>1, <1>3 DEF NodeInv, SettledIsAlone, WorksOn, Active, MountedForResize, ShowsVolume,
                    IsMountPoint, tableVars
<1>5. DeviceIsResolved' /\ StepsSuitRequest' /\ WorkIsUnknown' /\ OthersAreBelow' /\ MountsArePaths'
  BY <1>1 DEF NodeInv, DeviceIsResolved, StepsSuitRequest, Requests, WorkIsUnknown, Active,
              OthersAreBelow, MountsArePaths, IsMountPoint, tableVars
<1>6. PublishedIsMounted' /\ UnpublishedIsClean'
  BY <1>1 DEF NodeInv, PublishedIsMounted, UnpublishedIsClean, ShowsVolume, IsMountPoint, tableVars
<1> QED BY <1>2, <1>4, <1>5, <1>6 DEF NodeInv

\* An expansion touches no mount.
LEMMA ExpansionPreserves ==
    ASSUME TypeOK, NodeInv, Expansion
    PROVE  TypeOK' /\ NodeInv'
<1>1. UNCHANGED <<mounts, paths, pc, req, device, stale, settled, view, diskType, access>>
  BY DEF Expansion, DiskGrows, handlerVars, fixedVars
<1>2. filesystem' \in FileSystems
  BY DEF Expansion, DiskGrows, FileSystems
<1>3. TypeOK'
  BY <1>1, <1>2 DEF TypeOK, TableTypeOK
<1> QED BY <1>1, <1>3 DEF NodeInv, DeviceIsResolved, StepsSuitRequest, Requests, SettledIsAlone,
            WorksOn, Active, WorkIsUnknown, OthersAreBelow, MountsArePaths, MountedForResize,
            PublishedIsMounted, UnpublishedIsClean, ShowsVolume, IsMountPoint

\* After a restart there is no handler, and what was known is still mounted.
LEMMA RestartPreserves ==
    ASSUME TypeOK, NodeInv, Restart
    PROVE  TypeOK' /\ NodeInv'
<1>1. UNCHANGED <<mounts, paths, filesystem, view, diskType, access>>
  BY DEF Restart, tableVars, fixedVars
<1>2. \A h \in Handlers : pc'[h] = "idle"
  BY DEF Restart
<1>3. TypeOK'
  BY <1>1 DEF Restart, TypeOK, TableTypeOK
<1>4. /\ DeviceIsResolved' /\ StepsSuitRequest' /\ SettledIsAlone' /\ WorkIsUnknown'
      /\ MountedForResize'
  BY <1>2 DEF DeviceIsResolved, StepsSuitRequest, SettledIsAlone, WorksOn, Active, WorkIsUnknown,
              MountedForResize, PublishSteps, UnpublishSteps
<1>5. OthersAreBelow' /\ MountsArePaths' /\ PublishedIsMounted' /\ UnpublishedIsClean'
  BY <1>1 DEF NodeInv, OthersAreBelow, MountsArePaths, PublishedIsMounted, UnpublishedIsClean,
              ShowsVolume, IsMountPoint
<1> QED BY <1>3, <1>4, <1>5 DEF NodeInv

-----------------------------------------------------------------------------
(* The theorems *)

\* A node starts with at most something foreign at each target, and knows
\* nothing of any.
LEMMA InitEstablishes == NodeAssumption /\ Init => TypeOK /\ NodeInv
<1> SUFFICES ASSUME NodeAssumption, Init
             PROVE  TypeOK /\ NodeInv
  OBVIOUS
<1>1. ForeignMount \in Mounts
  BY Zenon DEF ForeignMount, Mounts
<1>2. mounts \in [Targets -> Seq(Mounts)]
  <2>1. <<>> \in Seq(Mounts) /\ <<ForeignMount>> \in Seq(Mounts)
    BY <1>1
  <2> QED BY <2>1 DEF Init, TableInit
<1>3. TypeOK
  BY <1>2 DEF Init, TableInit, TypeOK, TableTypeOK, FileSystems
<1>4. \A t \in Targets : mounts[t] = <<>> \/ mounts[t] = <<ForeignMount>>
  BY DEF Init, TableInit
<1>5. OthersAreBelow
  BY <1>4 DEF OthersAreBelow, ForeignMount
<1>6. MountsArePaths
  BY DEF Init, TableInit, MountsArePaths, IsMountPoint
<1>7. /\ DeviceIsResolved /\ StepsSuitRequest /\ SettledIsAlone /\ WorkIsUnknown
      /\ MountedForResize
  BY DEF Init, DeviceIsResolved, StepsSuitRequest, SettledIsAlone, WorksOn, Active, WorkIsUnknown,
         MountedForResize, PublishSteps, UnpublishSteps
<1>8. \A t \in Targets : view[t] = IF t \in paths THEN "unknown" ELSE "unpublished"
  BY DEF Init
<1>9. PublishedIsMounted /\ UnpublishedIsClean
  BY <1>6, <1>8 DEF PublishedIsMounted, UnpublishedIsClean, MountsArePaths
<1> QED BY <1>3, <1>5, <1>6, <1>7, <1>9 DEF NodeInv

\* One case for each actor.
LEMMA NextPreserves == NodeAssumption /\ TypeOK /\ NodeInv /\ [Next]_vars => TypeOK' /\ NodeInv'
<1> SUFFICES ASSUME NodeAssumption, TypeOK, NodeInv, [Next]_vars
             PROVE  TypeOK' /\ NodeInv'
  OBVIOUS
<1>1. ASSUME NEW h \in Handlers, NEW t \in Targets, BeginPublish(h, t) \/ BeginUnpublish(h, t)
      PROVE  TypeOK' /\ NodeInv'
  BY <1>1, BeginPreserves
<1>2. ASSUME NEW h \in Handlers, GivesUp(h)
      PROVE  TypeOK' /\ NodeInv'
  BY <1>2, GivesUpPreserves
<1>3. ASSUME NEW h \in Handlers, Handler(h)
      PROVE  TypeOK' /\ NodeInv'
  <2>1. OnlyAt(req[h].target)
    BY <1>3, TableOfHandler
  <2>2. Active(h) /\ (MovesOn(h) \/ ReturnsError(h) \/ Tells(h))
    BY <1>3, HandlerKinds
  <2> QED BY <2>1, <2>2, MovesOnPreserves, ReplyPreserves
<1>4. CASE Expansion
  BY <1>4, ExpansionPreserves
<1>5. CASE Restart
  BY <1>5, RestartPreserves
<1>6. CASE UNCHANGED vars
  BY <1>6 DEF vars, tableVars, fixedVars, handlerVars, TypeOK, TableTypeOK, NodeInv, DeviceIsResolved,
              StepsSuitRequest, Requests, SettledIsAlone, WorksOn, Active, WorkIsUnknown, OthersAreBelow,
              MountsArePaths, MountedForResize, PublishedIsMounted, UnpublishedIsClean, ShowsVolume,
              IsMountPoint
<1> QED BY <1>1, <1>2, <1>3, <1>4, <1>5, <1>6 DEF Next

\* The strengthened invariant holds in every reachable state, for any number of
\* handlers and targets.
THEOREM NodeInvariant == Spec => [](TypeOK /\ NodeInv)
BY NodeAssumption, InitEstablishes, NextPreserves, PTL DEF Spec

\* Every variable of the node keeps its type, whatever the API answers.
THEOREM TypeCorrect == Spec => []TypeOK
BY NodeInvariant, PTL

\* A target NodePublishVolume reported success for shows the volume until the
\* kubelet asks for a change.
THEOREM PublishedTargetsAreMounted == Spec => []PublishedIsMounted
<1>1. NodeInv => PublishedIsMounted
  BY DEF NodeInv
<1> QED BY <1>1, NodeInvariant, PTL

\* A target NodeUnpublishVolume reported success for is gone, with nothing
\* mounted there.
THEOREM UnpublishedTargetsAreClean == Spec => []UnpublishedIsClean
<1>1. NodeInv => UnpublishedIsClean
  BY DEF NodeInv
<1> QED BY <1>1, NodeInvariant, PTL

\* The statistics of a target whose state the kubelet knows are those of the
\* volume, or tell that it is gone.
THEOREM StatisticsAreOfVolume == Spec => []StatsAreOfVolume
<1>1. NodeInv => StatsAreOfVolume
  BY DEF NodeInv, PublishedIsMounted, UnpublishedIsClean, StatsAreOfVolume, GetVolumeStats,
         GetFilesystemVolumeStats
<1> QED BY <1>1, NodeInvariant, PTL

-----------------------------------------------------------------------------
(* The mount of an SSD is kept.  A handler about to mount has seen that there *)
(* is nothing else at its target, and nothing else comes back.                *)

MountingSteps == {"mkdir", "format", "mount", "resize"}

\* What is not the volume is alone at its target, and nobody mounts there.
OthersAreAlone ==
    \A t \in Targets : \A i \in 1..Len(mounts[t]) :
        ~mounts[t][i].volume =>
            /\ Len(mounts[t]) = 1
            /\ \A h \in Handlers : WorksOn(h, t) => pc[h] \notin MountingSteps

\* An SSD with a file system goes by one name only.
SSDIsById ==
    (diskType = SSD /\ access = "mount") =>
        /\ \A t \in Targets : \A i \in 1..Len(mounts[t]) :
             mounts[t][i].volume => mounts[t][i].device = "by-id"
        /\ \A h \in Handlers : pc[h] \in PublishSteps => device[h] = "by-id"

\* What a handler that is alone is about to unmount is not the volume.
UnmountsOthers ==
    (diskType = SSD /\ access = "mount") =>
        \A h \in Handlers, t \in Targets :
            (pc[h] = "unmount" /\ WorksOn(h, t) /\ settled[h] /\ ~stale[h]) => ~ShowsVolume(t)

KeptInv == OthersAreAlone /\ SSDIsById /\ UnmountsOthers

\* The same, of one such mount.
LEMMA OtherIsAlone ==
  ASSUME OthersAreAlone, NEW t \in Targets, NEW i \in 1..Len(mounts[t]), ~mounts[t][i].volume
  PROVE  /\ Len(mounts[t]) = 1
         /\ \A h \in Handlers : WorksOn(h, t) => pc[h] \notin MountingSteps
BY DEF OthersAreAlone

LEMMA InitKept == NodeAssumption /\ Init => KeptInv
<1> SUFFICES ASSUME Init PROVE KeptInv
  OBVIOUS
<1>1. \A t \in Targets : mounts[t] = <<>> \/ mounts[t] = <<ForeignMount>>
  BY DEF Init, TableInit
<1>2. \A h \in Handlers : pc[h] = "idle"
  BY DEF Init
<1>3. OthersAreAlone
  <2>1. ASSUME NEW t \in Targets, NEW i \in 1..Len(mounts[t]) PROVE Len(mounts[t]) = 1
    <3>1. CASE mounts[t] = <<>>
      BY <2>1, <3>1
    <3>2. CASE mounts[t] = <<ForeignMount>>
      BY <3>2
    <3> QED
      BY <1>1, <3>1, <3>2
  <2> QED
    BY <1>2, <2>1 DEF OthersAreAlone, WorksOn, Active, MountingSteps
<1>4. SSDIsById
  BY <1>1, <1>2 DEF SSDIsById, ForeignMount, PublishSteps
<1> QED
  BY <1>2, <1>3, <1>4 DEF KeptInv, UnmountsOthers

\* What is at a target is the volume by its name, or shows nothing of it.
LEMMA OtherDeviceIsOther ==
  ASSUME TypeOK, KeptInv, diskType = SSD, access = "mount",
         NEW t \in Targets, NamedDevice(t) # "by-id"
  PROVE  ~ShowsVolume(t)
<1> SUFFICES ASSUME ShowsVolume(t) PROVE FALSE
  OBVIOUS
<1> DEFINE m == mounts[t]
<1>1. m \in Seq(Mounts) /\ m # <<>> /\ Len(m) \in Nat \ {0} /\ Head(m) = m[1] /\ m[Len(m)].volume
  BY DEF TypeOK, TableTypeOK, ShowsVolume, IsMountPoint
<1>2. m[1].device # "by-id"
  BY <1>1 DEF NamedDevice, IsMountPoint
<1>3. ~m[1].volume
  BY <1>1, <1>2 DEF KeptInv, SSDIsById
<1>4. Len(m) = 1
  BY <1>1, <1>3 DEF KeptInv, OthersAreAlone
<1> QED
  BY <1>1, <1>3, <1>4

\* Where a handler mounts there is nothing but the volume.
LEMMA MountsOnVolume ==
  ASSUME KeptInv, NEW h \in Handlers, pc[h] \in MountingSteps, req[h].target \in Targets
  PROVE  \A i \in 1..Len(mounts[req[h].target]) : mounts[req[h].target][i].volume
BY DEF KeptInv, OthersAreAlone, WorksOn, Active, MountingSteps

\* A handler's step at its own target: a mount is added, is taken away, or all
\* stay.
LEMMA MountsOfHandler ==
  ASSUME NodeAssumption, TypeOK, NodeInv, NEW h \in Handlers, Handler(h)
  PROVE  /\ req[h].target \in Targets /\ Active(h)
         /\ \/ UNCHANGED mounts
            \/ /\ MountVolume(h)
               /\ mounts'[req[h].target] =
                    Append(mounts[req[h].target], [device |-> TableName(h), volume |-> TRUE])
            \/ /\ UnmountOther(h) \/ UnmountUnsupported(h) \/ Detach(h)
               /\ mounts[req[h].target] # <<>>
               /\ mounts'[req[h].target] =
                    SubSeq(mounts[req[h].target], 1, Len(mounts[req[h].target]) - 1)
<1>1. Active(h) /\ req[h].target \in Targets
  BY HandlerKinds DEF NodeInv, StepsSuitRequest, Requests
<1>2. CASE UnmountOther(h) \/ UnmountUnsupported(h) \/ Detach(h)
  BY <1>1, <1>2 DEF UnmountOther, UnmountUnsupported, Detach, Unmount, IsMountPoint, TypeOK, TableTypeOK
<1>3. CASE MountVolume(h)
  BY <1>1, <1>3 DEF MountVolume, Mount, TypeOK, TableTypeOK
<1>4. CASE ~(UnmountOther(h) \/ UnmountUnsupported(h) \/ Detach(h) \/ MountVolume(h))
  BY <1>1, <1>4
  DEF Handler, Fails, Resolve, VerifyFindsNothing, VerifyFindsMount, DeviceMatches, DeviceDiffers,
      MakeTarget, Format, Resize, CleanupFindsNoPath, CleanupFindsNoMount, CleanupFindsMount,
      RemoveTarget, MakePath, RemovePath, FormatIfNeeded, ResizeFileSystem, tableVars
<1> QED
  BY <1>1, <1>2, <1>3, <1>4

\* What is left after one mount was taken away was there before.
LEMMA RestOfMounts ==
  ASSUME NEW m \in Seq(Mounts), m # <<>>
  PROVE  LET rest == SubSeq(m, 1, Len(m) - 1) IN
         /\ Len(rest) = Len(m) - 1
         /\ \A i \in 1..Len(rest) : i \in 1..Len(m) /\ rest[i] = m[i]
<1>1. Len(m) \in Nat /\ Len(m) > 0
  OBVIOUS
<1>2. SubSeq(m, 1, Len(m) - 1) \in Seq(Mounts) /\ Len(SubSeq(m, 1, Len(m) - 1)) = Len(m) - 1
  BY <1>1
<1>3. \A i \in 1..(Len(m) - 1) : i \in 1..Len(m) /\ SubSeq(m, 1, Len(m) - 1)[i] = m[i]
  BY <1>1
<1> QED
  BY <1>2, <1>3

\* A handler gets to the steps that mount only where nothing else is, and to
\* the one that unmounts only where the device is another.
LEMMA StepsOfHandler ==
  ASSUME TypeOK, NodeInv, NEW h \in Handlers, Handler(h)
  PROVE  /\ \A g \in Handlers : g # h => /\ pc'[g] = pc[g] /\ req'[g] = req[g]
                                         /\ stale'[g] = stale[g] /\ settled'[g] = settled[g]
                                         /\ device'[g] = device[g]
         /\ UNCHANGED fixedVars
         /\ pc'[h] # "idle" => /\ req'[h] = req[h]
                               /\ stale'[h] = stale[h] /\ settled'[h] = settled[h]
         /\ pc'[h] \in MountingSteps =>
              \/ pc[h] \in MountingSteps
              \/ VerifyFindsNothing(h)
              \/ UnmountOther(h)
         /\ pc'[h] = "unmount" => DeviceDiffers(h)
         /\ pc'[h] \in PublishSteps =>
              \/ pc[h] \in PublishSteps /\ device'[h] = device[h]
              \/ device'[h] \in DevicePaths
<1> USE DEF MountingSteps, PublishSteps
<1>1. CASE Fails(h) \/ DeviceMatches(h) \/ UnmountUnsupported(h) \/ Resize(h)
           \/ CleanupFindsNoPath(h) \/ CleanupFindsNoMount(h) \/ RemoveTarget(h)
  BY <1>1
  DEF TypeOK, Fails, DeviceMatches, UnmountUnsupported, Resize, CleanupFindsNoPath,
      CleanupFindsNoMount, RemoveTarget, ReturnsError, ReturnsOK, Ends
<1>2. CASE Resolve(h)
  BY <1>2 DEF TypeOK, Resolve, fixedVars
<1>3. CASE VerifyFindsNothing(h) \/ VerifyFindsMount(h) \/ DeviceDiffers(h) \/ UnmountOther(h)
           \/ CleanupFindsMount(h) \/ Detach(h)
  BY <1>3
  DEF TypeOK, VerifyFindsNothing, VerifyFindsMount, DeviceDiffers, UnmountOther,
      CleanupFindsMount, Detach, GoesTo
<1>4. CASE MakeTarget(h) \/ Format(h)
  BY <1>4 DEF TypeOK, MakeTarget, Format, GoesTo
<1>5. CASE MountVolume(h)
  BY <1>5 DEF TypeOK, MountVolume, GoesTo, ReturnsOK, Ends
<1> QED
  BY <1>1, <1>2, <1>3, <1>4, <1>5 DEF Handler

LEMMA HandlerKept ==
  ASSUME NodeAssumption, TypeOK, NodeInv, KeptInv, NEW h \in Handlers, Handler(h)
  PROVE  KeptInv'
<1> DEFINE target == req[h].target
           m == mounts[target]
<1>1. target \in Targets /\ Active(h) /\ OnlyAt(target)
  BY MountsOfHandler, TableOfHandler
<1>2. m \in Seq(Mounts) /\ Len(m) \in Nat
  BY <1>1 DEF TypeOK, TableTypeOK
<1>3. \A t \in Targets \ {target} : mounts'[t] = mounts[t]
  BY <1>1 DEF OnlyAt
\* Whoever works on another target does not notice.
<1>4. \A g \in Handlers, t \in Targets :
        WorksOn(g, t)' => /\ WorksOn(g, t)
                          /\ g # h => pc'[g] = pc[g]
                          /\ g = h => t = target
  BY <1>1, StepsOfHandler DEF WorksOn, Active
<1>5. OthersAreAlone'
  <2> SUFFICES ASSUME NEW t \in Targets, NEW i \in 1..Len(mounts'[t]), ~mounts'[t][i].volume
               PROVE  /\ Len(mounts'[t]) = 1
                      /\ \A g \in Handlers : WorksOn(g, t)' => pc'[g] \notin MountingSteps
    BY DEF OthersAreAlone
  <2>1. CASE t # target
    BY <1>3, <1>4, <2>1 DEF KeptInv, OthersAreAlone
  <2>2. CASE t = target /\ UNCHANGED mounts
    <3>0. i \in 1..Len(m) /\ ~m[i].volume
      BY <2>2
    <3>1. \A g \in Handlers : WorksOn(g, target) => pc[g] \notin MountingSteps
      BY <1>1, <3>0, OtherIsAlone DEF KeptInv
    <3>2. m # <<>> /\ target \in paths
      BY <1>1, <3>0 DEF NodeInv, MountsArePaths, IsMountPoint
    <3>4. Len(m) = 1
      BY <1>1, <3>0, OtherIsAlone DEF KeptInv
    <3>3. ASSUME pc'[h] \in MountingSteps PROVE FALSE
      <4>1. pc[h] \notin MountingSteps
        BY <1>1, <3>1 DEF WorksOn
      <4>2. ~VerifyFindsNothing(h)
        BY <3>2 DEF VerifyFindsNothing, IsMountPoint
      <4>3. ~UnmountOther(h)
        BY <1>1, <1>2, <2>2, <3>2, RestOfMounts
        DEF UnmountOther, Unmount, IsMountPoint, TypeOK, TableTypeOK
      <4> QED
        BY <3>3, <4>1, <4>2, <4>3, StepsOfHandler
    <3> QED
      BY <1>4, <2>2, <3>1, <3>3, <3>4
  <2>3. CASE t = target /\ MountVolume(h)
             /\ mounts'[target] = Append(m, [device |-> TableName(h), volume |-> TRUE])
    <3>1. \A j \in 1..Len(m) : m[j].volume
      BY <1>1, <2>3, MountsOnVolume DEF MountVolume, MountingSteps
    <3> QED
      BY <1>2, <2>3, <3>1
  <2>4. CASE t = target /\ m # <<>> /\ mounts'[target] = SubSeq(m, 1, Len(m) - 1)
    <3>0. /\ Len(mounts'[target]) = Len(m) - 1
          /\ \A j \in 1..Len(mounts'[target]) : j \in 1..Len(m) /\ mounts'[target][j] = m[j]
      <4> HIDE DEF m
      <4> QED
        BY <1>2, <2>4, RestOfMounts
    <3>1. i \in 1..Len(m) /\ mounts'[target][i] = m[i]
      BY <2>4, <3>0
    <3>2. Len(m) # 1
      <4>1. i \in 1..(Len(m) - 1)
        <5>1. t = target
          BY <2>4
        <5> QED
          BY <3>0, <5>1
      <4>2. ASSUME NEW n \in Nat, i \in 1..(n - 1) PROVE n # 1
        BY <4>2
      <4> HIDE DEF m
      <4> QED
        BY <1>2, <4>1, <4>2
    <3>3. ~m[i].volume
      BY <2>4, <3>1
    <3> QED
      BY <1>1, <3>1, <3>2, <3>3, OtherIsAlone DEF KeptInv
  <2> QED
    BY <2>1, <2>2, <2>3, <2>4, MountsOfHandler
<1>6. SSDIsById'
  <2> SUFFICES ASSUME diskType = SSD, access = "mount"
               PROVE  /\ \A t \in Targets : \A i \in 1..Len(mounts'[t]) :
                           mounts'[t][i].volume => mounts'[t][i].device = "by-id"
                      /\ \A g \in Handlers : pc'[g] \in PublishSteps => device'[g] = "by-id"
    BY StepsOfHandler DEF SSDIsById, fixedVars
  <2>1. DevicePaths = {"by-id"}
    BY DEF DevicePaths
  <2>2. \A g \in Handlers : pc'[g] \in PublishSteps => device'[g] = "by-id"
    BY <2>1, StepsOfHandler DEF KeptInv, SSDIsById
  <2>3. ASSUME NEW t \in Targets, NEW i \in 1..Len(mounts'[t]), mounts'[t][i].volume
        PROVE  mounts'[t][i].device = "by-id"
    <3>1. CASE t # target \/ UNCHANGED mounts
      BY <1>3, <2>3, <3>1 DEF KeptInv, SSDIsById
    <3>2. CASE t = target /\ MountVolume(h)
               /\ mounts'[target] = Append(m, [device |-> TableName(h), volume |-> TRUE])
      <4>1. TableName(h) = "by-id"
        BY <3>2 DEF TableName, MountVolume, PublishSteps, KeptInv, SSDIsById
      <4>2. CASE i \in 1..Len(m)
        BY <1>1, <1>2, <2>3, <3>2, <4>2 DEF KeptInv, SSDIsById
      <4>3. CASE i = Len(m) + 1
        BY <1>2, <3>2, <4>1, <4>3
      <4> QED
        BY <1>2, <2>3, <3>2, <4>2, <4>3
    <3>3. CASE t = target /\ m # <<>> /\ mounts'[target] = SubSeq(m, 1, Len(m) - 1)
      <4>0. \A j \in 1..Len(mounts'[target]) : j \in 1..Len(m) /\ mounts'[target][j] = m[j]
        <5> HIDE DEF m
        <5> QED
          BY <1>2, <3>3, RestOfMounts
      <4>1. i \in 1..Len(m) /\ mounts'[target][i] = m[i]
        BY <2>3, <3>3, <4>0
      <4> QED
        BY <1>1, <2>3, <3>3, <4>1 DEF KeptInv, SSDIsById
    <3> QED
      BY <3>1, <3>2, <3>3, MountsOfHandler
  <2> QED
    BY <2>2, <2>3
<1>7. UnmountsOthers'
  <2> SUFFICES ASSUME diskType = SSD, access = "mount", NEW g \in Handlers, NEW t \in Targets,
                      pc'[g] = "unmount", WorksOn(g, t)', settled'[g], ~stale'[g]
               PROVE  ~ShowsVolume(t)'
    BY StepsOfHandler DEF UnmountsOthers, fixedVars
  <2>1. CASE g = h
    <3>1. DeviceDiffers(h) /\ t = target
      BY <1>4, <2>1, StepsOfHandler
    <3>2. NamedDevice(t) # "by-id"
      BY <3>1 DEF DeviceDiffers, PublishSteps, KeptInv, SSDIsById
    <3> QED
      BY <3>1, <3>2, OtherDeviceIsOther DEF DeviceDiffers, tableVars, ShowsVolume, IsMountPoint
  <2>2. CASE g # h
    <3>1. pc[g] = "unmount" /\ WorksOn(g, t) /\ settled[g] /\ ~stale[g]
      BY <1>4, <2>2, StepsOfHandler
    <3>2. t # target
      BY <1>1, <2>2, <3>1 DEF NodeInv, SettledIsAlone, WorksOn
    <3> QED
      BY <1>1, <3>1, <3>2, FrameKeeps DEF KeptInv, UnmountsOthers
  <2> QED
    BY <2>1, <2>2
<1> QED
  BY <1>5, <1>6, <1>7 DEF KeptInv

LEMMA NextKept == NodeAssumption /\ TypeOK /\ NodeInv /\ KeptInv /\ [Next]_vars => KeptInv'
<1> SUFFICES ASSUME NodeAssumption, TypeOK, NodeInv, KeptInv, [Next]_vars PROVE KeptInv'
  OBVIOUS
<1>1. ASSUME NEW h \in Handlers, NEW t \in Targets, BeginPublish(h, t) \/ BeginUnpublish(h, t)
      PROVE  KeptInv'
  <2>1. /\ UNCHANGED <<tableVars, fixedVars, device, stale>>
        /\ pc'[h] \in {"resolve", "cleanup"}
        /\ \A g \in Handlers : g # h => /\ pc'[g] = pc[g] /\ req'[g] = req[g]
                                        /\ settled'[g] = settled[g]
    BY <1>1 DEF BeginPublish, BeginUnpublish, Begin, TypeOK
  <2>2. \A g \in Handlers, s \in Targets :
          (WorksOn(g, s)' /\ pc'[g] \in MountingSteps \cup PublishSteps) =>
              WorksOn(g, s) /\ g # h /\ pc'[g] = pc[g]
    BY <2>1 DEF WorksOn, Active, MountingSteps, PublishSteps
  <2>3. OthersAreAlone'
    BY <2>1, <2>2 DEF KeptInv, OthersAreAlone, tableVars
  <2>4. SSDIsById'
    BY <2>1 DEF KeptInv, SSDIsById, tableVars, fixedVars, PublishSteps
  <2>5. UnmountsOthers'
    BY <2>1, <2>2 DEF KeptInv, UnmountsOthers, tableVars, fixedVars, ShowsVolume, IsMountPoint,
                      PublishSteps
  <2> QED
    BY <2>3, <2>4, <2>5 DEF KeptInv
<1>2. ASSUME NEW h \in Handlers, GivesUp(h) PROVE KeptInv'
  <2>1. \A g \in Handlers : ~stale'[g] => ~stale[g]
    BY <1>2 DEF GivesUp, TypeOK
  <2> QED
    BY <1>2, <2>1 DEF GivesUp, KeptInv, OthersAreAlone, SSDIsById, UnmountsOthers, WorksOn, Active,
                      ShowsVolume, IsMountPoint, tableVars, fixedVars
<1>3. ASSUME NEW h \in Handlers, Handler(h) PROVE KeptInv'
  BY <1>3, HandlerKept
<1>4. CASE Expansion \/ UNCHANGED vars
  BY <1>4 DEF Expansion, DiskGrows, vars, handlerVars, tableVars, fixedVars, KeptInv, OthersAreAlone,
              SSDIsById, UnmountsOthers, WorksOn, Active, ShowsVolume, IsMountPoint
<1>5. CASE Restart
  BY <1>5 DEF Restart, tableVars, fixedVars, KeptInv, OthersAreAlone, SSDIsById, UnmountsOthers,
              WorksOn, Active, PublishSteps
<1> QED BY <1>1, <1>2, <1>3, <1>4, <1>5 DEF Next

\* No step of a handler takes the volume from under a publish that is alone.
LEMMA HandlerKeepsMount ==
  ASSUME NodeAssumption, TypeOK, NodeInv, KeptInv, diskType = SSD, access = "mount",
         NEW g \in Handlers, Handler(g), NEW h \in Handlers, NEW t \in Targets,
         WorksOn(h, t), req[h].call = "NodePublishVolume", settled[h], ~stale[h], ShowsVolume(t)
  PROVE  ShowsVolume(t)'
<1>1. req[g].target \in Targets /\ Active(g) /\ OnlyAt(req[g].target)
  BY MountsOfHandler, TableOfHandler
<1>2. CASE g # h
  <2>1. t # req[g].target
    BY <1>1, <1>2 DEF NodeInv, SettledIsAlone, WorksOn
  <2> QED
    BY <1>1, <2>1, FrameKeeps
<1>3. CASE g = h
  <2>1. t = req[h].target
    BY DEF WorksOn
  <2>2. ~(UnmountOther(h) \/ UnmountUnsupported(h))
    BY DEF UnmountOther, UnmountUnsupported, KeptInv, UnmountsOthers
  <2>3. ~Detach(h)
    BY DEF Detach, NodeInv, StepsSuitRequest, UnpublishSteps
  <2>4. CASE UNCHANGED mounts
    BY <2>4 DEF ShowsVolume, IsMountPoint
  <2>5. CASE MountVolume(h)
    <3>1. TableName(h) \in Devices /\ TableInv
      BY <2>5 DEF MountVolume, TableName, PublishSteps, KeptInv, SSDIsById, NodeAssumption, TypeOK,
                  NodeInv, TableInv
    <3> QED
      BY <2>1, <2>5, <3>1, MountOnlyAt DEF MountVolume
  <2> QED
    BY <1>3, <2>2, <2>3, <2>4, <2>5, MountsOfHandler
<1> QED
  BY <1>2, <1>3

\* A publish of an SSD's file system that is alone at its target never takes
\* the mount of the volume away, nor does anybody else (mount_check.go:84).
THEOREM SSDMountsAreKept == Spec => SSDMountIsKept
<1> DEFINE Kept == \A h \in Handlers, t \in Targets :
                      (/\ diskType = SSD /\ access = "mount"
                       /\ WorksOn(h, t) /\ req[h].call = "NodePublishVolume"
                       /\ settled[h] /\ ~stale[h]
                       /\ ShowsVolume(t))
                         => ShowsVolume(t)'
<1>1. TypeOK /\ NodeInv /\ KeptInv /\ [Next]_vars => [Kept]_vars
  <2> SUFFICES ASSUME TypeOK, NodeInv, KeptInv, Next PROVE Kept
    OBVIOUS
  <2>1. ASSUME UNCHANGED mounts PROVE Kept
    BY <2>1 DEF ShowsVolume, IsMountPoint
  <2>2. ASSUME NEW g \in Handlers, Handler(g) PROVE Kept
    BY <2>2, HandlerKeepsMount, NodeAssumption
  <2> QED
    BY <2>1, <2>2 DEF Next, BeginPublish, BeginUnpublish, Begin, GivesUp, Expansion, DiskGrows,
                      Restart, tableVars
<1>2. Init => KeptInv
  BY InitKept, NodeAssumption
<1>3. TypeOK /\ NodeInv /\ KeptInv /\ [Next]_vars => KeptInv'
  BY NextKept, NodeAssumption
<1> HIDE DEF Kept
<1>4. Spec => [][Kept]_vars
  BY <1>1, <1>2, <1>3, NodeInvariant, PTL DEF Spec
<1> QED
  BY <1>4 DEF Kept, SSDMountIsKept

-----------------------------------------------------------------------------
(* The refinement of TargetContract.  A handler's step is a Move of its own   *)
(* target, or a Tell when it replies to a kubelet that still listens.         *)

\* The contract's state is in type, and a step that leaves mounts, paths or
\* view alone leaves it alone.
LEMMA ContractState ==
  ASSUME TypeOK
  PROVE  /\ shown \in [Targets -> Contract!Shown]
         /\ known \in [Targets -> Contract!Told \cup {"unknown"}]
         /\ UNCHANGED <<mounts, paths>> => UNCHANGED shown
         /\ UNCHANGED view => UNCHANGED known
BY DEF TypeOK, shown, known, Contract!Shown, Contract!Told, ShowsVolume, IsMountPoint

\* Before the first request nothing false is known of a target.
LEMMA InitContract == NodeAssumption /\ Init => Contract!Init
<1> SUFFICES ASSUME NodeAssumption, Init PROVE Contract!Init
  OBVIOUS
<1>1. TypeOK
  BY InitEstablishes
<1>2. \A t \in Targets : known[t] # "unknown" => shown[t] = known[t]
  BY DEF Init, shown, known
<1> QED
  BY <1>1, <1>2, ContractState DEF Contract!Init

\* A request makes the kubelet's knowledge of its target void.
LEMMA BeginAsks ==
  ASSUME TypeOK, NEW h \in Handlers, NEW t \in Targets, BeginPublish(h, t) \/ BeginUnpublish(h, t)
  PROVE  Contract!Ask(t)
<1>1. /\ view' = [view EXCEPT ![t] = "unknown"]
      /\ UNCHANGED <<mounts, paths>>
  BY DEF BeginPublish, BeginUnpublish, Begin, tableVars
<1>2. known' = [known EXCEPT ![t] = "unknown"]
  BY <1>1 DEF known, TypeOK
<1> QED
  BY <1>1, <1>2, ContractState DEF Contract!Ask

\* A handler changes its own target, of which nothing is known, and tells the
\* kubelet what is there.
LEMMA HandlerMovesOrTells ==
  ASSUME NodeAssumption, TypeOK, NodeInv, TypeOK', NEW h \in Handlers, Handler(h)
  PROVE  \E t \in Targets : Contract!Move(t) \/ Contract!Tell(t)
<1> DEFINE target == req[h].target
           heard == settled[h] /\ ~stale[h]
<1>1. /\ Active(h)
      /\ MovesOn(h) \/ ReturnsError(h) \/ Tells(h)
      /\ OnlyAt(target)
  BY HandlerKinds, TableOfHandler
<1>2. target \in Targets /\ view[target] = "unknown"
  BY <1>1 DEF NodeInv, StepsSuitRequest, WorkIsUnknown, Requests
<1>3. known[target] = "unknown"
  BY <1>2 DEF known
<1>4. shown' = [shown EXCEPT ![target] = shown'[target]] /\ shown'[target] \in Contract!Shown
  <2>1. \A t \in Targets \ {target} : shown'[t] = shown[t]
    BY <1>1, FrameKeeps DEF shown
  <2>2. shown \in [Targets -> Contract!Shown] /\ shown' \in [Targets -> Contract!Shown]
    BY ContractState DEF shown, Contract!Shown
  <2> QED
    BY <1>2, <2>1, <2>2
<1>5. CASE UNCHANGED view
  <2>1. UNCHANGED known
    BY <1>5, ContractState
  <2> QED
    BY <1>2, <1>3, <1>4, <2>1 DEF Contract!Move
<1>6. CASE Tells(h) /\ heard
  <2> DEFINE told == IF req[h].call = "NodePublishVolume" THEN "volume" ELSE "gone"
  <2>1. view' = [view EXCEPT ![target] = IF req[h].call = "NodePublishVolume"
                                           THEN "published" ELSE "unpublished"]
    BY <1>6 DEF Tells, ReturnsOK
  <2>2. known' = [known EXCEPT ![target] = told]
    BY <1>2, <2>1 DEF known, TypeOK
  <2>3. shown'[target] = told
    BY <1>2, <1>6 DEF Tells, shown
  <2>4. shown' = [shown EXCEPT ![target] = told] /\ told \in Contract!Told
    BY <1>4, <2>3 DEF Contract!Told
  <2> QED
    BY <1>2, <1>3, <2>2, <2>4 DEF Contract!Tell
<1>7. CASE Tells(h) /\ ~heard
  <2>1. UNCHANGED view
    BY <1>2, <1>7 DEF Tells, ReturnsOK, TypeOK
  <2> QED
    BY <1>5, <2>1
<1> QED
  BY <1>1, <1>5, <1>6, <1>7 DEF MovesOn, ReturnsError

LEMMA NextKeepsContract ==
  NodeAssumption /\ TypeOK /\ NodeInv /\ [Next]_vars => [Contract!Next]_<<shown, known>>
<1> SUFFICES ASSUME NodeAssumption, TypeOK, NodeInv, [Next]_vars
             PROVE  [Contract!Next]_<<shown, known>>
  OBVIOUS
<1>1. ASSUME NEW h \in Handlers, NEW t \in Targets, BeginPublish(h, t) \/ BeginUnpublish(h, t)
      PROVE  Contract!Next
  BY <1>1, BeginAsks DEF Contract!Next
<1>2. ASSUME NEW h \in Handlers, Handler(h) PROVE Contract!Next
  BY <1>2, HandlerMovesOrTells, NextPreserves DEF Contract!Next
<1>3. CASE UNCHANGED <<mounts, paths, view>>
  BY <1>3, ContractState
<1> QED
  BY <1>1, <1>2, <1>3
  DEF Next, GivesUp, Expansion, DiskGrows, Restart, vars, tableVars

\* The node service implements TargetContract: whatever handlers were given up,
\* calls repeated and processes restarted, a target changes only while the
\* kubelet awaits an answer for it, and the answer is what is there
\* (ssd_node.go:50, fs_node.go:60).
THEOREM TargetsKeepContract == Spec => ImplementsContract
<1>1. Init => Contract!Init
  BY InitContract, NodeAssumption
<1>2. TypeOK /\ NodeInv /\ [Next]_vars => [Contract!Next]_<<shown, known>>
  BY NextKeepsContract, NodeAssumption
<1> QED
  BY <1>1, <1>2, NodeInvariant, PTL DEF Spec, ImplementsContract, Contract!Spec

-----------------------------------------------------------------------------
(* When the volume is in use.  The composition with the controller           *)
(* (VolumeLifecycleProofs) rests on these.                                   *)

\* A volume whose targets are all known to be unpublished is not in use.
LEMMA UnpublishedIsNotInUse ==
    ASSUME TypeOK, NodeInv, \A t \in Targets : view[t] = "unpublished"
    PROVE  ~InUse
<1>1. \A t \in Targets : mounts[t] = <<>>
  BY DEF NodeInv, UnpublishedIsClean, IsMountPoint
<1>2. \A h \in Handlers : ~Active(h)
  BY DEF NodeInv, WorkIsUnknown, StepsSuitRequest, Requests
<1> QED
  BY <1>1, <1>2 DEF InUse, VolumeUnmounted, Active, PublishSteps

\* No handler puts it in use but one that publishes, and so is its use.
LEMMA HandlerKeepsUnused ==
    ASSUME TypeOK, ~InUse, NEW h \in Handlers, Handler(h) \/ GivesUp(h)
    PROVE  ~InUse'
<1>1. VolumeUnmounted /\ \A g \in Handlers : pc[g] \notin PublishSteps \cup {"resolve"}
  BY DEF InUse
<1>2. \/ GivesUp(h) \/ Fails(h) \/ CleanupFindsNoPath(h) \/ CleanupFindsNoMount(h)
      \/ CleanupFindsMount(h) \/ Detach(h) \/ RemoveTarget(h)
  BY <1>1 DEF PublishSteps, Handler, Resolve, VerifyFindsNothing, VerifyFindsMount, DeviceMatches,
              DeviceDiffers, UnmountOther, UnmountUnsupported, MakeTarget, Format, MountVolume, Resize
<1>3. \A g \in Handlers : pc'[g] \in {pc[g], "idle", "detach", "remove"}
  BY <1>2 DEF TypeOK, GivesUp, Fails, CleanupFindsNoPath, CleanupFindsNoMount, CleanupFindsMount,
              Detach, RemoveTarget, ReturnsError, ReturnsOK, Ends, GoesTo
<1>4. VolumeUnmounted'
  <2>1. CASE Detach(h)
    <3> SUFFICES ASSUME NEW t \in Targets, NEW i \in DOMAIN mounts'[t]
                 PROVE  ~mounts'[t][i].volume
      BY DEF VolumeUnmounted
    <3> DEFINE m == mounts[t]
    <3>1. m \in Seq(Mounts) /\ Len(m) \in Nat /\ DOMAIN m = 1..Len(m)
      BY DEF TypeOK, TableTypeOK
    <3>2. mounts'[t] = m \/ (m # <<>> /\ mounts'[t] = SubSeq(m, 1, Len(m) - 1))
      BY <2>1 DEF Detach, Unmount, IsMountPoint, TypeOK, TableTypeOK
    <3>3. CASE mounts'[t] = m
      BY <1>1, <3>3 DEF VolumeUnmounted
    <3>4. CASE m # <<>> /\ mounts'[t] = SubSeq(m, 1, Len(m) - 1)
      <4>1. i \in 1..(Len(m) - 1) /\ mounts'[t][i] = m[i] /\ i \in DOMAIN m
        BY <3>1, <3>4
      <4> QED
        BY <1>1, <4>1 DEF VolumeUnmounted
    <3> QED
      BY <3>2, <3>3, <3>4
  <2>2. CASE UNCHANGED mounts
    BY <1>1, <2>2 DEF VolumeUnmounted
  <2> QED
    BY <1>2, <2>1, <2>2 DEF GivesUp, Fails, CleanupFindsNoPath, CleanupFindsNoMount,
                            CleanupFindsMount, RemoveTarget, RemovePath, tableVars
<1> QED
  BY <1>1, <1>3, <1>4 DEF InUse, PublishSteps

LEMMA BeginUnpublishKeepsUnused ==
    ASSUME TypeOK, ~InUse, NEW h \in Handlers, NEW t, BeginUnpublish(h, t)
    PROVE  ~InUse'
<1>1. \A g \in Handlers : pc'[g] \in {pc[g], "cleanup"}
  BY DEF BeginUnpublish, Begin, TypeOK
<1> QED
  BY <1>1 DEF InUse, VolumeUnmounted, BeginUnpublish, Begin, tableVars, PublishSteps

LEMMA RestartKeepsUnused == ~InUse /\ Restart => ~InUse'
BY DEF InUse, VolumeUnmounted, Restart, tableVars, PublishSteps
===============================================================================
