# The Crusoe CSI driver in TLA+

This directory is the verification project of the driver in `../src`: TLA+
modules translated from the Go source, TLC configurations that check them on
small instances, and theorems TLAPS proves for every instance. Paths below are
relative to the repository (`src/` here). `PROJECT.json` lists, for every
definition, the lines it stands for.

    tlc -workers 2 -config Attachment.cfg ControllerMC     # one run
    tlapm ControllerProofs.tla                             # one proof module

## 1. The system

One binary is built for one disk type (`common.PluginDiskType`): SSDs
(`persistent-ssd`, block devices attached to one virtual machine at a time) or
shared disks (`shared-volume`, file systems over NFS or virtiofs). It serves the
CSI gRPC services on a unix socket. The controller service runs once per
cluster, the node service on every node. Kubernetes' sidecars and the kubelet,
the *container orchestrator* (CO), call it; it calls the Crusoe Cloud API.

| component | state it keeps | operations | source |
|---|---|---|---|
| controller service | none: disk type, host instance and clients are fixed | CreateVolume, DeleteVolume, ControllerPublishVolume, ControllerUnpublishVolume, ControllerExpandVolume; read-only: ValidateVolumeCapabilities, GetCapacity, capabilities | `internal/controller/controller.go` |
| request rules | none | sizes, capabilities, topology, names, the request for a disk, the comparison with an existing disk | `internal/controller/util.go`, `internal/crusoe/disk.go`, `internal/common/util.go` |
| asynchronous operations | the polled copy of the operation, a timer, a deadline | AwaitOperation, CancellableSleep, GetAsyncOperationResult | `internal/common/util.go` |
| disk queries | none | FindDiskByName, FindDiskByID, GetInstanceByID, CheckDiskAttached, ResolveNFSTarget | `internal/crusoe/disk.go`, `internal/controller/util.go` |
| mount check | none; reads and changes the kernel's mount table | VerifyMountedVolumeWithUtils | `internal/node/mount_check.go` |
| SSD node service | none; mount table, file systems | publish (block, file system), unpublish | `internal/node/ssd` |
| FS node service | none; mount table, project flags of the API | publish over NFS or virtiofs, NFS target and its fallbacks, unpublish | `internal/node/fs`, `internal/crusoe/nfs_flag.go` |
| volume statistics | none; reads what is at the path | NodeGetVolumeStats | `internal/node/volume_stats.go` |
| server lifecycle | socket file, gRPC server, the channels of signal, result and stop | start, listen, select, graceful stop with a timeout | `internal/cli.go`, `internal/server.go`, `internal/util.go`, `cmd` |
| request signing | none | canonical form and signature of each HTTP request | `internal/crusoe/auth.go` |
| identity service, capability tables | none | constant replies | `internal/identity`, `internal/common/capabilities.go` |
| Crusoe API (external) | disks, instances, attachments, operations | list, create, delete, attach, detach, resize, get operation | not in the repository |

**How they interact.** A state-changing controller handler is a sequence of API
calls: look the disk or the instance up, decide, start an asynchronous
operation, poll it until it ends. Local variables hold what was read; nothing is
locked, and nothing survives a restart. Every handler runs in a goroutine of its
own. The node handlers ask the mount table what is mounted, possibly unmount it,
and mount; the FS node asks the API first how to mount. The controller and the
nodes never talk to each other: they meet in the disk, which the one attaches and
the other mounts, and in the CO, which takes the reply of the one as the reason
to call the other.

**What is hard.** The correctness of a stateless driver is idempotency under
retries. A handler that gives up (timeout, failed poll, cancelled call, restart)
leaves an operation that *runs on* and takes effect at any later time, while the
CO repeats the request or sends the opposite one. Every decision is made from a
list reply that may be stale when it is used. Sizes are tested in bytes, sent in
GiB rounded up, and described by the API in GiB or TiB. The list under
`hazards` in `PROJECT.json` gives each place where this bites.

**What makes the components correct.**

- Controller: a volume the CO has is backed by a live disk of its own; a deleted
  one is gone; what the CO was told of an attachment stays true until it asks for
  a change; a granted size is there; a creation that failed or was lost can be
  repeated; a CO that keeps asking is served in the end.
- Rules: what is created is what was asked for, where it was asked for, and a
  repeated request recognises it.
- Asynchronous operations: one answer, true of the operation, in bounded time,
  without polling faster than the interval.
- Node: a target reported as published shows the volume, one
  reported as unpublished holds nothing; a target changes only while the kubelet
  awaits an answer for it; a repeated publish disturbs no healthy
  mount; a published file system is as large as its disk.
  Its statistics are those of the volume.
- Both together: no disk is detached or deleted under a mount; a volume goes
  through its stages one at a time and is where the CO was told it is.
- Server: a stop ends, and cuts off no handler it had time to finish; the exit
  code tells why the process ended; a killed process is followed by one that
  serves.

## 2. The modules

| module | models | lines up with the code as follows |
|---|---|---|
| `AwaitContract` | what a handler relies on when it waits | abstract: one operation, one answer |
| `AwaitOperation` | the polling loop, its timer, its deadline, the caller's cancellation | `pc` is the place in the loop, `seen` is `op.State` of the local copy, `wakeAt` the timer of `CancellableSleep`, `ContextDone` is `timeoutCtx`; one action per call result, select case and switch case |
| `AwaitOperationProofs` | | theorems about `AwaitOperation` |
| `RequestRules` | the pure helpers | one operator per Go function, as the status code or the value it returns |
| `RequestRulesMC` | | applies the rules to one disk, a creation and then expansions, over bounded inputs |
| `RequestRulesLemmas` | | facts about the rules that several proofs use: rounding, rewording, the first suitable segment |
| `RequestRulesProofs` | | theorems about `RequestRulesMC` |
| `CrusoeAPI` | the external API | `disks`, `attachments`, `instances`, `ops`; an operation takes effect or fails at any time after it was accepted |
| `Controller` | the five handlers, their concurrency, the CO | `pc[h]` is `find`, `send` or `await`; every early return of a handler is an action |
| `ControllerMC` | | requests, foreign disks, symmetry for TLC |
| `ControllerProofs` | | theorems about `Controller`: types, attachments |
| `VolumeProofs` | | theorems about `Controller`: volumes, sizes, places, attachments without protection |
| `MountTable` | external: the kernel's mount table, target paths, the file system on the disk | `mounts[t]` is the stack of mounts at a target; one action per call of mount-utils or `os` |
| `Node` | the mount check and the node services of SSDs and shared disks, the kubelet | `pc[h]` is the system call a handler is at; `device[h]` is `devicePath` |
| `NodeMC` | | symmetry for TLC |
| `TargetContract` | what the node service promises the kubelet for the targets of one volume | abstract: what each target shows, and what the kubelet knows it to show |
| `NodeProofs` | | theorems about `Node` |
| `VolumeContract` | what the driver as a whole promises the CO for one volume on one node | abstract: the stage the volume is in, and the stage the CO knows it to be in |
| `VolumeLifecycle` | controller and node service together | every step is a step of an instance of `Controller` (C) or of `Node` (N); what is added is when the CO takes it |
| `VolumeLifecycleMC` | | symmetry and view for TLC |
| `VolumeLifecycleProofs` | | theorems about `VolumeLifecycle` |
| `Server` | the process: `RunMain`, `Serve`, `listen`, `gracefulStopWithTimeout`; external: the gRPC server, its clients, the kubelet | `main` is where `Serve` is, `signal` is `interruptChan`, `result` is `gRPCErrChan`, `stopper` the goroutine of GracefulStop, `expired` its timer |
| `ServerProofs` | | theorems about `Server` |

`Controller` extends `CrusoeAPI`, which extends `RequestRules`: the handlers run
against the API's actions and decide with the same operators the rules runs
check. `Controller` uses the await loop through its contract: `Awaited` may
happen only after the operation has succeeded, `AwaitFails` at any time. That
`AwaitOperation` implements this contract is checked (`ImplementsContract`) and
proved (`Refinement`).

`Node` extends `MountTable` in the same way. It follows one volume on one node.
`TargetContract` is its promise: a target is gone, present or shows the volume;
after a request for it, until the kubelet is told the outcome, it may change, and
no other target does. `shown` and `known` in `Node.tla` are the refinement mapping.

**The composition.** `VolumeLifecycle` instantiates both services for one SSD
with a file system, one node and any number of targets and handlers. The two
have their own variables, restart on their own and meet in two places. The disk:
a resize makes the file system shorter than its disk, also while a target uses
it. The CO, which

- publishes a target when it knows the disk attached (the kubelet waits for
  `VolumeAttachment.status.attached`), and asks for the detachment when it knows
  of every target that it is unpublished (the attach-detach controller waits until
  the volume is no longer in `Node.status.volumesInUse`);
- deletes the volume when it knows it detached.

To know is to have had a successful reply to a request that found no handler or
operation of an earlier one at work (`settled`, in both services). A sidecar that
acts on less, as after its own restart, is outside this module. The API keeps
names unique and shrinks no disk; it deletes and resizes a disk in use as any
other, so what keeps a disk under its mounts is the driver and the CO. The node
is not deleted.
`VolumeContract` is the promise made to such a CO: stages absent, created,
attached, mounted, taken one at a time; the volume moves only after a request and
until its reply, and what the reply tells is the stage.

**The process.** The five goroutines of `Server` share the gRPC server. The model
takes of gRPC what its documentation says: GracefulStop closes the listener, tells
the clients to go, and returns when every connection is closed and every handler
has returned; Stop closes everything and waits for nobody; Serve on a stopped
server returns ErrServerStopped, Serve of a server stopped while it serves
returns nil. The first case of the select (server.go:167) is never ready, because
only the other two cancel the root context; it has no action. Nothing but the
select reads the signal, so a signal during the start waits for it, and the
queries of the start have neither a deadline nor a client with a timeout
(internal/util.go:80, :91): they may take for ever, and then the signal waits for
ever. When a signal and a failure are both there, the select takes either, so a
failure may end as nil. Which services are registered, and that they are the ones
advertised, follows one flag and is left out.

**The controller's steps.** `find` is the first API call with everything the
handler decides from its reply: `CreateVolume` validates the request before the
call, so `CreateInvalid` comes first and `QueryFails` asks for a valid request.
`send` is the call that starts the operation; it succeeds (`Sends`), or fails
with or without having started one (`SendFails`: the reply was lost). `await` is
`AwaitOperation` plus the reply. A handler that returns while its operation runs
abandons it: `ops[h]` stays, `awaited` becomes FALSE, and the slot is free again
when the operation ends. So an abandoned operation occupies a handler of the
model; runs have one handler more than they need active at once. `Restart`
forgets every handler and keeps the operations.

ControllerPublishVolume and ControllerUnpublishVolume first look the instance up;
unpublish answers success when the instance is gone. ControllerExpandVolume tests
the attachment before it tests the size. DeleteVolume answers success when there
is no such disk, and only then.

**The CO** is modelled as the sidecars behave: requests for one volume name
(creation), one volume id (deletion, expansion) or one volume and node
(publishing and unpublishing together) share a work queue and never overlap;
everything else does. It repeats requests freely, also after success. It deletes
a volume only while it knows no attachment. Its memory is history only (`claims`,
`view`, `lastReply`); no driver action reads it.

**History with a caveat.** `view` is set by a successful reply only when no
abandoned operation that opposes the request still ran when it arrived
(`settled`). Without that condition `AttachmentViewIsTrue` does not hold: a
publish that finds the disk attached is answered at once (controller.go:224),
and a detach abandoned earlier then detaches it. The driver cannot see such an
operation; the property says what it does guarantee.

**The external API** promises as little as the handlers need: accepted
operations run on; a disk attaches only if it and the instance exist; ids are
never used twice; an instance may vanish. Three further promises are constants,
TRUE or FALSE per run: `UniqueNames` (no second disk of one name), `NeverShrinks`
(no disk is resized to less than it has) and `ProtectsInUse` (an attached disk is
not deleted, an attached SSD not resized; in `Node`, its disk does not grow while
a target uses it). A resize abandoned long ago may take effect after a larger
one; the driver sends it like any other, and that it does not take the larger
size back is `NeverShrinks`. `SizeIsGranted` rests on it: with FALSE, TLC finds it
violated. Foreign disks, made by other users of the project, are in the
initial states of the provisioning run.

**The node's steps.** Every call that changes or reads the mount table is a step
of its own, so that handlers interleave between the check for a mount and the
mount, and a restart or a failure (`Fails`) may come between any two. Of the
node's handlers only the FS queries take notice of their context: when the
kubelet's call times out (`GivesUp`) a query may fail, but a handler past them
goes on and acts, beside the one of the repeated call. The kubelet calls for one target one at a time, as far as it knows. As in the
controller, `view` is history and is set only by a reply to a request that found
no such handler at work on its target (`settled`): otherwise a stale handler may
mount after an unpublish, and the driver cannot see it.

Abstracted in `Node`: the API answers each query for a flag or for the disk anew
(TRUE, FALSE or not at all, which for all but the NFS flag counts as FALSE); the
remote ports, the read-only mode, other mount options and the reason of an error
are left out. A mount is the device the table names and whether it shows the
volume. What a bind mount goes by in the table is the file system of the device
file, not the device. The statistics are the set of answers the table
allows: NotFound for a path that is not there, else the numbers of whatever file
system the path is on, or the error of a failed stat or statfs.

**Abstractions in the controller.** A name is the three parts the driver
tells apart (the `pvc-` prefix, what is kept, what is cut off); a size is a number and a unit; an error
is its gRPC code; wording, logging and the serial number of a volume's context
are left out. A swagger or JSON failure is an error like any other. Several
disks of one name count as none, as in `FindDiskByNameFallible`.

## 3. The runs

| run | question | states |
|---|---|---|
| `await_operation` | Is every answer true of the operation, and given once? Is the poll rate kept? Does the loop implement its contract and end, against an API that promises nothing? | 11 thousand |
| `request_rules` | Over all bounded requests: is the created disk exactly as large as asked for, recognised when the request is repeated, placed where the request allows, and only ever grown enough? | 188 thousand |
| `provisioning` | Two volumes and a foreign disk, three handlers, restarts, an API that does not keep names unique: are volumes real and distinct, and deleted ones gone? Is the strengthened invariant one? | 563 thousand |
| `attachment` | One SSD, one node, three handlers, restarts, vanishing instances, an API that protects no disk in use: does what the CO was told of an attachment stay true? Is a granted size there, with rounding, repeated expansions and an older, smaller resize that ends late? Is a creation ever refused before it succeeded? Is the strengthened invariant one? | 257 thousand |
| `shared_disk` | Shared disks: placement by the segment that supports them, also when the requests disagree on it, and when the disk is found rather than made; online expansion while attached | 231 thousand |
| `convergence` | Two volumes, two handlers, restarts: does a CO that keeps asking get its volumes? | 33 thousand |
| `node` | One volume, two targets, two handlers that may outlive their calls, foreign mounts, restarts: does a published target show the volume, and is an unpublished one clean? Do the statistics tell so? Does a repeated publish keep an SSD's mount? Does the service implement `TargetContract`? Is the strengthened invariant one? | 1.1 million |
| `lifecycle` | Controller and node service, two handlers each, one target, expansions, restarts of either, an API that protects no disk in use: is a disk ever taken from under the node? Do the two implement `VolumeContract`? | 626 thousand |
| `server` | One process after the other, two clients, signals, failures and crashes at any point: why does a process end, does a stop end once the start is over, whom does it cut off, does the next process serve? | 762 |
| `own_disk` | *violation*: is a disk that is what the request wants accepted? | |
| `healthy_mount` | *violation*: does a repeated publish leave a healthy mount alone? | |
| `published_size` | *violation*: does a published file system span its disk? | |

**Bounds, and why they are enough.**

- A GiB is 2 or 3 bytes and a TiB 2 GiB: sizes that are not whole, both units,
  and the distance between the two remain. The real constants do not fit TLC's
  integers, and no rule depends on them except through these relations.
- Two or three handlers: one that abandons an operation, one that repeats or
  opposes it, and a third that runs against both. In the attachment run a disk of 1 GiB is
  expanded to 2 or to 3, so that a resize abandoned long ago may be the smaller of
  two that are on their way at once. Handlers are symmetric in the
  safety runs; no symmetry is used where liveness is checked.
- One to three disk ids, used once each: enough for a disk, a second one of the
  same name, and a foreign one. When ids run out a creation can only fail. In
  the attachment run a single id and a single node keep the state space on the
  handlers of one attachment; another one is independent of it, and the theorem
  covers any number.
- Two targets of one volume and two handlers on the node: one handler the kubelet
  has given up beside one it waits for, at one target or at two that share the
  file system. No more than two mounts ever lie on each other there, one for each
  handler; the theorems cover any number.
- Two handlers of each service and one target in the composition: one that was
  given up or abandoned beside one that is waited for, on both sides at once. The
  run ignores `lastReply` (VIEW), which nothing there reads. The theorem covers
  any number of targets and handlers.
- Two clients of the server: one with a call that hangs or a connection it keeps
  open, and one that comes and goes. Processes follow each other without bound.
- `MaxTime` 8 with `PollInterval` 2 and `OperationTimeout` 5: the deadline falls
  between two polls, and there is time to be late after it.

**Fairness.** `AwaitOperation`: the clock advances, a goroutine that can run
does, and a request whose context is done returns, which net/http guarantees.
Nothing is assumed of the API. `Controller`: every goroutine is scheduled and
every API operation ends (weak fairness), and a CO that asks for ever for a
volume it does not have is not unlucky for ever (`CORetries`, strong fairness of
the steps that serve such a request). The last is not a property of the driver:
without it every creation may fail for ever, and nothing could converge. What the
run shows is that no state the driver gets itself into, by abandoned creations
or restarts, keeps it from converging once the environment lets it. It uses
volumes in the controller's own location and an API with unique names; elsewhere
`own_disk` shows that it does not converge. `Server`: the goroutines of the
process are scheduled and its timer runs (weak fairness); nothing is assumed of
handlers and clients, so a stop ends although they hang. Nor is anything assumed
of the queries of the start, which have no deadline: `StopsInTheEnd` speaks of a
stop that is due once they are over. `ServesAgain` needs the environment too: the
kubelet restarts what has ended, a query that can go well again and again does, and
so do listening and serving (strong fairness of `HostFound`, `Listen` and
`ServeStarts`), against any number of failures, signals and crashes before.

`CHECK_DEADLOCK FALSE` appears where the model really ends: the loop has returned
and the clock is at its bound; the request was refused.

## 4. What the violations show

- `own_disk`: a repeated CreateVolume compares the disk with the location of the
  *controller* (controller.go:86), not with the one it asked for (line 61). A
  volume elsewhere whose first call was lost is refused as AlreadyExists for ever.
  `OwnDisksAreAccepted` (section 5) shows that nothing else is refused so.
- `healthy_mount`: the mount check compares what is mounted with the remote path
  this request resolves to (mount_check.go:75), and that depends on the API's
  answers at this moment. A flag that flips, or one failed query for the disk
  (fs_node.go:104), makes the volume's own mount another disk's: it is unmounted
  and mounted again, and stays unmounted if the next step fails. For a block
  volume the comparison fails always.
- `published_size`: a publish that has mounted the volume and fails to resize it
  (publish_filesystem.go:40) is repeated; the repeated one finds the mount and
  succeeds (ssd/publish.go:31) without resizing. This depends on the mount table
  naming the device as it was given to mount, which is so for the mount command
  of the driver's image; where links are resolved, the comparison fails instead
  and the volume is unmounted and mounted again, as in `healthy_mount`.

More divergences are known and need no run to be seen:

- an existing disk is reported at the location the newer request asks for
  (controller.go:130), not where it is. As a disk is compared with the controller's
  location (controller.go:86), this happens only to one that is there:
  `PlaceIsTold` says so, and the `shared_disk` run has requests that disagree;
- a new shared disk must be a multiple of 1 TiB (controller/util.go:169), an
  expansion of one need not (controller.go:475);
- a signal during the start is not acted on until the start is over, which may be
  never (above, `Server`);
- VOLUME_EXPANSION is advertised whether or not the process serves the controller
  that would do it (server.go:33-42).

## 5. The proofs

All theorems hold for every value of the constants that satisfies the named
assumptions (`TimeAssumption`, `UnitsAssumption`, `APIAssumption`,
`RequestsAssumption`, `ControllerAssumption`, `NodeAssumption`,
`LifecycleAssumption`, `DiskAssumption`), which TLC evaluates in the runs.

`AwaitOperationProofs`

- `TypeCorrect`, `AnswersAreTruthful`, `Refinement`. Truthful is not inductive:
  what must be added is that a *seen* resolved state is the operation's, because
  a resolved operation never changes, and that `decoding` is reached only after
  success. `IInv` is the conjunction; `Refinement` maps each loop step to one of
  the contract's or to a stutter.
- `PollRateHolds`. The invariant `PollsArePaid` accounts for every poll: at the
  loop's head `polls * PollInterval <= now`, while polling one interval is owed,
  while sleeping it is owed until `wakeAt`.

`ControllerProofs`

- `TypeCorrect`: every variable of the driver and of the API keeps its type. The
  work is in sizes (the rounding gives integers), topologies (the location chosen
  is one of the request's, the host's or none) and operations (a call of the
  handler is a call of the API).
- `AttachmentInvariant` and `AttachmentsAreAsTold`: with an API that protects
  disks in use, what the CO was told of an attachment stays true. The property
  alone is not inductive, since nothing in it speaks of operations in flight.
  `AttachmentInv` adds, in `Controller.tla`:
  `OneWorker` (one active handler per disk and node), `OpsAreOwned` (an awaited
  operation is the one its handler's request asked for), `WorkIsUnknown` (nothing
  is known while someone works on it), `NothingOpposes` (no abandoned operation
  opposes a settled request), `KnownIsSafe` (no operation at all opposes what is
  known) and `DoneIsDone` (a settled request's finished work is not undone before
  the reply). The proof sorts the steps by what they do to this argument: a
  handler begins, decides, starts, quits, tells; the API acts; the driver
  restarts. Each kind has one lemma, one step per conjunct.
- The hypothesis `ProtectsInUse` is used in one place, the deletion of a disk
  that is attached (`DeletionsAreSafe`). `VolumeProofs` does without it.

`VolumeProofs`. Every theorem but the last has two hypotheses. `NamesAreDistinct`: the
names the CO uses become different disk names, which is so while they are not cut
(the provisioner's never are). `NeverShrinks`: the API takes no size back, which
`SizesAreGranted` needs and the others share, being proved from one invariant. No promise about names
or disks in use is needed.

- `VolumeInvariant`, and from it `VolumesAreReal`, `VolumesShareNoDisk` and
  `DeletedVolumesAreGone`. These do not follow from each other: that a volume's
  disk is live depends on what every operation in flight may delete.
  `VolumeInv` adds, in `Controller.tla`: `DeletionsAreKnown` (whoever deletes a
  disk, a handler or an operation abandoned long ago, does so for a volume the CO
  has given up), `CreationsAreWanted` (a volume being created has not been given
  up), `ClaimsAreNamed` (a volume's disk bears its name, so a disk found by
  name is not another volume's) and `OutcomesStand` (what an awaited operation has
  done is not undone before its handler tells). In the last lies the work: a disk
  just created is nobody's yet, so what would delete it must know its id from a
  claim that does not exist. API and handler steps have one lemma each.
- `SizesAreGranted`: what a successful reply grants is at least what was asked for
  and is there. It rests on the arithmetic of `RequestRulesLemmas`.
- `AttachmentsNeedNoProtection`: `AttachmentViewIsTrue` when the API deletes disks
  in use as well. The CO's own care suffices: `GivenUpIsUnused` says that of a
  volume it has given up it knows no attachment, and nobody works on one. That
  it stays so needs that no disk is owned and given up at once, hence `VolumeInv`.
- `PlacesAreAsTold`: the segment a volume is reported in is where its disk is, or
  the disk is where the controller runs and the segment is one a request for the
  volume asked for; whatever the requests ask for, whether they agree or not. The
  driver never reports what it finds but what the request asked for, so the second
  case is real (section 4). What the theorem excludes is any other wrong place: a
  disk made elsewhere is reported where it was made, although the answer may come
  from an operation awaited across other requests for its name. `PlaceInv` adds that
  a request that cannot be served goes no further than its first query
  (`CreatorsCanBeServed`).
- `RetriesAreRecognised`: until a creation is answered with success, no call for it
  is answered AlreadyExists. This is the safety half of `ProvisioningConverges`:
  whatever the driver left behind does not stand in its own way. One more hypothesis,
  `RequestsAgree`, says that the requests for a volume that can be served ask for
  one size, in the controller's location, and that a disk of its name that was
  there before is as they ask; `own_disk` shows what happens elsewhere. The property
  says nothing of disks nobody owns yet, so `RetryInv`
  adds: as long as the CO does not have the volume, every disk of its name is as
  asked (`DisksAreAsAsked`), so is every disk on its way, by an operation however
  old (`CreationsAreAsAsked`), and who resizes a disk does so for a volume the CO
  was given (`ResizesAreKnown`): a disk made by a lost creation has not grown. That
  a disk that is as asked is recognised, however the API words its size, is the
  arithmetic of `RequestedIsAsAsked` and `AlikeIsAsAsked`.
- `OwnDisksAreAccepted` draws the line of the finding `own_disk`: if disks are
  asked for where the controller runs (`PlacesAreHere`), no disk is refused that is
  what CreateDisk would be asked for. The location is all the comparison has wrong.

`RequestRulesProofs`

- `SizesAreExact`, `RepeatsAreAccepted`, `PlacesAreAllowed`, `ExpansionsAreEnough`,
  for all integers, units and topologies of any length. The argument is that every
  limit and increment is a whole number of GiB (`LimitsAreWhole`), so a size
  that is let through is not rounded (`ValidIsWhole`), and one that is rounded
  stays below a limit it was below (`CeilKeepsLimit`).

`NodeProofs`

- `NodeInvariant`, and from it `TypeCorrect`, `PublishedTargetsAreMounted`,
  `UnpublishedTargetsAreClean` and `StatisticsAreOfVolume`: what the kubelet was told of a target is so, for
  any number of handlers and targets. `PublishedIsMounted` alone is not inductive,
  and not even the type is, because a mount goes by the device its handler holds.
  `NodeInv` adds, in `Node.tla`: `DeviceIsResolved`, `StepsSuitRequest`,
  `SettledIsAlone` (a handler whose request found its target free is alone there
  until it is given up), `WorkIsUnknown`, `OthersAreBelow` (what is not the volume
  lies at the bottom, so a device that matches is the volume whatever lies on it),
  `MountsArePaths` and `MountedForResize`. The proof looks at a step twice: at
  what it does to the table, at its own target only, and at whether the handler
  moves on, fails or tells. The lemmas about the table (`UnmountOnlyAt`,
  `MountOnlyAt`, `PathOnlyAt`, `NamedIsVolume`) carry the reasoning on sequences.
- `SSDMountsAreKept`: while a publish of an SSD's file system is alone at its target,
  no step takes the mount of the volume away; `healthy_mount` shows that this fails
  for the other kinds. `KeptInv` adds what `NodeInv` does not say: where something
  else is mounted nothing lies on it, and no handler is past the check
  (`OthersAreAlone`); every mount of the volume, and every handler, has the one
  name of the disk (`SSDIsById`); so who is alone and about to unmount does not see the volume
  (`UnmountsOthers`). The first is needed because a device that differs is read from
  the *first* mount and the *last* is unmounted.
- `TargetsKeepContract`: the node service implements `TargetContract`. A request is
  an Ask (`BeginAsks`); a step of a handler is a Move of its target, of which by
  `WorkIsUnknown` nothing is known, or a Tell of what by `HandlerKinds` is there
  (`HandlerMovesOrTells`); giving up, an expansion and a restart are stutters.

`VolumeLifecycleProofs`

- `ServicesInvariant`: a behaviour of the composition is one of `Controller` and
  one of `Node` (every step is a step of each or leaves its variables alone), and
  so their invariants hold in it. The theorems are taken from the instances;
  what their modules assume of their constants is proved first.
- `DisksInUseStayAttached`: while any target shows the volume, or any handler,
  stale or not, may still make it so, the disk is attached, and no operation runs
  and no handler works that would detach it. The two views meet in the proof: a
  publish begins when the attacher's view says attached, which by
  `AttachmentViewIsTrue`, `KnownIsSafe` and `WorkIsUnknown` is an attachment that
  stays (`KnownStaysAttached`); only a request to unpublish ends that
  (`HandlerKeepsAttached`, `OperationKeepsAttached`, `RestartKeepsAttached`), and
  it begins when the kubelet's view says that every target is unpublished, which
  by the node's invariant means that nobody mounts or is going to
  (`UnpublishedIsNotInUse`, `HandlerKeepsUnused`). A disk in use could also go
  from under the node by being deleted, and the API does not refuse that: the
  controller deletes only for a volume the CO has given up, which is one it knows
  detached (`GivenUpIsDetached`, `DeletedIsDetached`).
- `ServicesKeepContract`: the composition implements `VolumeContract`. A step moves
  the disk or the mounts, never both (`StepsMove`); an operation of the API moves
  the volume to a neighbouring stage, since a disk in use is not detached
  and one that is deleted was not attached (`OperationMovesStage`), and a node's handler only
  between attached and mounted (`NodeMovesStage`). What the CO knows is true
  (`KnowledgeIsTrue`, from the invariants of both services) and excludes the moves:
  no attach or detach opposes what the attacher knows, no deletion runs for a volume
  the CO owns, and no handler is at work at a published target.
  The contract needs one more invariant, `DiskIsThere`: what is attached is a disk.
- `VolumeIsAsTold`: the properties of the services alone hold here without their
  hypotheses about requests and API, because this CO asks for one volume of one size
  where the controller runs (`OneVolumeAgrees`), of an API that shrinks no disk and
  need not protect one in use. So the hypotheses can be met, all at once, by a
  system that does something.

`ServerProofs`

- `ServerInvariant`, and from it `ExitCodesTellWhy` and `CallsAreCutOnlyLate`, for any number of clients. `ServerInv` adds to the
  properties: only main stops the server, and a result that is no error tells of a
  stop (`StopIsMains`); a process that does not serve yet has no clients, and a
  stopped server has none left (`ServedIsHere`); the reason main has taken was
  there (`CodeIsTrue`).

**Left to TLC**: liveness and ENABLED (`AwaitReturns`, `ProvisioningConverges`,
`StopsInTheEnd`, `ServesAgain`), which TLAPS does not reach. Every safety property
of a passing run, and the three refinements, are theorems. Two of the properties a
run shows violated, `HealthyMountIsKept` and `PublishedSpansDisk`, are false of the
code; the first holds for SSDs with a file system, in the form `SSDMountIsKept`.

## 6. Not modelled

- What a request given up does after the driver has answered a later one: a
  publish that was abandoned may mount after an unpublish (`settled`): the
  properties are about what the CO was told when no such request was at work.
- The file system of an SSD whose disk was resized while it was attached: the
  check (controller.go:433) and the resize are two calls, and only the API could
  refuse. `lifecycle` lets it happen, and the volume stays where it is; that its
  file system then falls short of it is `published_size`, and no property of the
  composition.
- A composition for shared disks: they are published by the network, and detaching
  one has no effect the node's mount table could show.
- AwaitOperation sleeps after a poll that has already seen the operation succeed
  (util.go:79); a deadline in that sleep turns the success into an error. The
  model has it, the contract allows it, and the repeated request heals it.
- Read-only controller replies (GetCapacity and the capability lists) and the
  identity service: constants without state; the limits are in `RequestRules`.
- Request signing: canonical text and a MAC. What can be wrong there is text and
  cryptography, about which a model checker says nothing.
- Requests without the fields the protocol demands, such as the InvalidArgument
  of NodeGetVolumeStats without a path: the kubelet sends none.
- Flags, environment and the construction of clients; panics on values the flag
  parser cannot produce.
- ListVolumes, snapshots, staging and the other methods answered Unimplemented.
- A name cut at its maximum length so that two volumes get one disk name: the
  provisioner's names (`pvc-` and a UUID) never reach it.

## 7. Plan

Done: `AwaitContract`, `AwaitOperation`; `RequestRules`; `CrusoeAPI`,
`Controller`; `MountTable`, `Node`, `TargetContract`; `VolumeContract`, `VolumeLifecycle`;
`Server`; each with its proofs.

Open: the file system of a disk that was resized in use (section 6), as a property
of the composition, should the API's handling of it become known.
