------------------------------ MODULE CrusoeAPI ------------------------------
(***************************************************************************)
(* The Crusoe API as the driver uses it: the disks of one project, the     *)
(* instances they are attached to, and the asynchronous operations that    *)
(* change them.  It is not in this repository; it is modelled from the     *)
(* calls in internal/controller and internal/crusoe, and it promises no    *)
(* more than they need.  An operation is accepted at once, takes effect at *)
(* any later time or fails, and runs on whether or not anyone still waits  *)
(* for it; two operations take effect in any order.  What the API promises *)
(* beyond that is a BOOLEAN constant, so that every run and every theorem  *)
(* names the promises it relies on.                                        *)
(*                                                                         *)
(* Each client of the API (a handler of the driver) has one operation at a *)
(* time.  One that gave up waiting keeps its slot until the operation ends.*)
(***************************************************************************)
EXTENDS RequestRules

CONSTANTS
    Handlers,       \* the clients: concurrent request handlers of the driver
    DiskIds,        \* the ids the API can still assign: never used twice
    Nodes,          \* instance ids
    Names,          \* names a disk can have
    Locations,      \* where a disk or an instance can be
    NoDisk,         \* no disk has this id yet
    DeletedDisk,    \* the disk with this id was deleted
    NoId,           \* no disk id
    InitialDisks,   \* the disks that other users of the project have made
    UniqueNames,    \* the API refuses a second disk of the same name
    NeverShrinks,   \* the API refuses to resize a disk to less than it has
    ProtectsInUse   \* the API refuses to delete an attached disk, and to
                    \* resize an attached SSD

Sizes == [n : Int, unit : {"GiB", "TiB", "?"}]

\* What a disk is to the driver.
Disks ==
    [name : Names, type : DiskTypes, location : Locations \cup {NoLocation},
     size : Sizes, blockSize : Nat]

ASSUME APIAssumption ==
    /\ InitialDisks \subseteq [DiskIds -> {NoDisk} \cup Disks]
    /\ NoId \notin DiskIds
    /\ NoDisk # DeletedDisk
    /\ NoDisk \notin Disks /\ DeletedDisk \notin Disks
    /\ UniqueNames \in BOOLEAN
    /\ NeverShrinks \in BOOLEAN
    /\ ProtectsInUse \in BOOLEAN

VARIABLES
    disks,          \* disk id -> the disk
    attachments,    \* disk id, instance id -> the mode of the attachment
    instances,      \* the instances that exist
    ops             \* client -> its asynchronous operation

apiVars == <<disks, attachments, instances, ops>>

Phases == {"pending", "succeeded", "failed"}
AttachModes == {"read-write", "read-only"}

\* The slot of a client without an operation.
NoOp == [phase |-> "none"]

\* A new operation.  "awaited" is the driver's business: nobody waits any
\* longer for an operation that is not.
Operation(call) ==
    [phase |-> "pending", awaited |-> TRUE, call |-> call, id |-> NoId]

\* The calls that start one.
Calls ==
    [kind : {"create"}, disk : Disks] \cup
    [kind : {"delete"}, id : DiskIds] \cup
    [kind : {"attach"}, id : DiskIds, node : Nodes, mode : AttachModes] \cup
    [kind : {"detach"}, id : DiskIds, node : Nodes] \cup
    [kind : {"resize"}, id : DiskIds, size : Sizes]

Operations ==
    [phase : Phases, awaited : BOOLEAN, call : Calls, id : DiskIds \cup {NoId}]

APITypeOK ==
    /\ disks \in [DiskIds -> {NoDisk, DeletedDisk} \cup Disks]
    /\ attachments \in [DiskIds \X Nodes -> {"none"} \cup AttachModes]
    /\ instances \subseteq Nodes
    /\ ops \in [Handlers -> {NoOp} \cup Operations]
    /\ \A c \in Handlers : ops[c].phase = "succeeded" => ops[c].id \in DiskIds

-----------------------------------------------------------------------------
(* Queries *)

Live(id) == disks[id] \notin {NoDisk, DeletedDisk}

\* ListDisks with a name, with an id: what the list can contain.
DisksNamed(name) == {id \in DiskIds : Live(id) /\ disks[id].name = name}

\* disk.AttachedTo
AttachedTo(id) == {n \in Nodes : attachments[<<id, n>>] # "none"}

Pending(c) == ops[c].phase = "pending"

\* An operation still runs that nobody waits for.
Abandoned(c) == Pending(c) /\ ~ops[c].awaited

-----------------------------------------------------------------------------
(* The end of an operation *)

\* A client that waits can read the outcome; otherwise its slot is free.
Resolve(c, outcome, id) ==
    ops' = [ops EXCEPT ![c] =
              IF ops[c].awaited
                THEN [ops[c] EXCEPT !.phase = outcome, !.id = id]
                ELSE NoOp]

\* The API words a size in either unit.
Renderings(size) ==
    {size} \cup
    IF NormalizeDiskSizeToGiB(size) % NumGiBInTiB = 0
      THEN {[n |-> NormalizeDiskSizeToGiB(size) \div NumGiBInTiB, unit |-> "TiB"]}
      ELSE {}

CreateTakesEffect(c) ==
    /\ Pending(c)
    /\ ops[c].call.kind = "create"
    /\ UniqueNames => DisksNamed(ops[c].call.disk.name) = {}
    /\ \E id \in DiskIds, size \in Renderings(ops[c].call.disk.size) :
         /\ disks[id] = NoDisk
         /\ disks' = [disks EXCEPT ![id] = [ops[c].call.disk EXCEPT !.size = size]]
         /\ Resolve(c, "succeeded", id)
    /\ UNCHANGED <<attachments, instances>>

DeleteTakesEffect(c) ==
    /\ Pending(c)
    /\ ops[c].call.kind = "delete"
    /\ LET id == ops[c].call.id IN
         /\ Live(id)
         /\ ProtectsInUse => AttachedTo(id) = {}
         /\ disks' = [disks EXCEPT ![id] = DeletedDisk]
         /\ attachments' = [p \in DiskIds \X Nodes |->
                              IF p[1] = id THEN "none" ELSE attachments[p]]
         /\ Resolve(c, "succeeded", id)
    /\ UNCHANGED instances

AttachTakesEffect(c) ==
    /\ Pending(c)
    /\ ops[c].call.kind = "attach"
    /\ LET id == ops[c].call.id
           n  == ops[c].call.node
       IN /\ Live(id)
          /\ n \in instances
          /\ attachments[<<id, n>>] = "none"
          /\ attachments' = [attachments EXCEPT ![<<id, n>>] = ops[c].call.mode]
          /\ Resolve(c, "succeeded", id)
    /\ UNCHANGED <<disks, instances>>

DetachTakesEffect(c) ==
    /\ Pending(c)
    /\ ops[c].call.kind = "detach"
    /\ LET id == ops[c].call.id
           n  == ops[c].call.node
       IN /\ attachments[<<id, n>>] # "none"
          /\ attachments' = [attachments EXCEPT ![<<id, n>>] = "none"]
          /\ Resolve(c, "succeeded", id)
    /\ UNCHANGED <<disks, instances>>

ResizeTakesEffect(c) ==
    /\ Pending(c)
    /\ ops[c].call.kind = "resize"
    /\ LET id == ops[c].call.id IN
         /\ Live(id)
         /\ ProtectsInUse => (disks[id].type = FS \/ AttachedTo(id) = {})
         /\ NeverShrinks =>
              NormalizeDiskSizeToGiB(disks[id].size)
                <= NormalizeDiskSizeToGiB(ops[c].call.size)
         /\ \E size \in Renderings(ops[c].call.size) :
              disks' = [disks EXCEPT ![id].size = size]
         /\ Resolve(c, "succeeded", id)
    /\ UNCHANGED <<attachments, instances>>

TakesEffect(c) ==
    \/ CreateTakesEffect(c)
    \/ DeleteTakesEffect(c)
    \/ AttachTakesEffect(c)
    \/ DetachTakesEffect(c)
    \/ ResizeTakesEffect(c)

\* An operation may fail for reasons of the API's own.
OperationFails(c) ==
    /\ Pending(c)
    /\ Resolve(c, "failed", NoId)
    /\ UNCHANGED <<disks, attachments, instances>>

\* Somebody deletes an instance; its attachments go with it.
DeleteInstance(n) ==
    /\ n \in instances
    /\ instances' = instances \ {n}
    /\ attachments' = [p \in DiskIds \X Nodes |->
                         IF p[2] = n THEN "none" ELSE attachments[p]]
    /\ UNCHANGED <<disks, ops>>

APIInit ==
    /\ disks \in InitialDisks
    /\ attachments = [p \in DiskIds \X Nodes |-> "none"]
    /\ instances = Nodes
    /\ ops = [c \in Handlers |-> NoOp]

APINext ==
    \/ \E c \in Handlers : TakesEffect(c) \/ OperationFails(c)
    \/ \E n \in Nodes : DeleteInstance(n)
=============================================================================
