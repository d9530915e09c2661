# lvp, a local volume provisioner: TLA+ models, checks and proofs

lvp is a CSI driver for Kubernetes: it keeps volumes as files (ext4, xfs) or
directories (bind) on a node, mounts them through loop devices, and remembers
them as JSON records in ConfigMaps. This directory holds a TLA+ model of the
part of it that changes state, the TLC runs that check the model on small
instances, and theorems about it that TLAPS proves for every instance. Paths
below are relative to the root of the repository.

## The system

| component | source | state | operations |
|---|---|---|---|
| volume store | `src/store/volume.rs` | one ConfigMap `lvp-vol-<name>` per volume | create (get, then post), load, update (merge patch of the whole record, no resourceVersion), delete, list |
| controller service | `src/controller.rs` | none of its own | CreateVolume, DeleteVolume, ControllerPublishVolume, ControllerUnpublishVolume; ValidateVolumeCapabilities, ListVolumes, GetCapacity, ControllerGetVolume |
| node service | `src/node.rs` | none of its own | NodePublishVolume, NodeUnpublishVolume, NodeExpandVolume; NodeGetVolumeStats, NodeGetInfo |
| commands on the host | top of `src/node.rs`, `src/chroot.rs` | backing files, loop devices, target directories and mounts of the node | mkfs, losetup, mount, umount, ftruncate, resize2fs, xfs_growfs; construction of the chroot |
| process and socket | `src/main.rs` | the running handlers | one tokio task per request, all services on one Unix socket |
| statistics | `src/statfs.rs` | none | statvfs64 |
| identity, logger, configuration | `src/identity.rs`, `src/logger.rs`, `src/config.rs` | read once at start | constant answers, logging |
| CSI protocol | `proto/csi.proto` | none | generated code; its comments are the contract |
| deployment | `k8s/`, `charts/lvp/` | none | a StatefulSet of one, or a DaemonSet: one lvp per node, each with both services |

**Interaction.** kubelet and the CSI sidecars (the "CO") call lvp over a
socket. A handler loads the record of its volume, decides, does its work on the
host, and writes back the whole record it loaded, with its changes. There is
no lock anywhere: two handlers for one volume interleave at every `.await`,
and an update overwrites whatever the store has by then. The record lives in
the API server and survives everything; files survive a reboot; loop devices
and mounts do not; a handler is dropped when its client goes away or lvp ends.

**What is hard.** (1) Record and host are two pieces of state that no
transaction ties together. (2) Lost updates. (3) Between load and update the
record may be deleted. (4) Devices are shared by the volumes of a node, and
the record of a device outlives the device. (5) Retries: the CO repeats what
it does not know the outcome of. (6) Several targets of one multi-writer
volume share a device. (7) Sizes exist three times: in the record, as the length
of the file, in the filesystem. (8) A listing takes several calls, between which
volumes come and go.

**What makes each component correct.** Store: records are consistent with
themselves. Controller service: a volume moves
along its life cycle; deletion leaves nothing. Node service: an OK means what
it says; mounts, device and file are those of the record; no filesystem is
made anew. Host: one loop device per file. All together: a CO that repeats its
calls gets a volume through its life, whatever was cut off before. Queries: a
listing misses no volume that was there throughout; what is confirmed of a
volume is what it was created for.

## Modules

| module | models |
|---|---|
| `VolumeStore` | the record (`store::Volume`), and POST, PATCH and DELETE of it as atomic requests; `Patch` is `Volume::update` and overwrites |
| `Host` | `disk`, `loops`, `mounts` of every node, one action per command |
| `Tasks` | `call[c]`: request, position (`pc`, the await a handler is at) and locals (`rec`, the loaded copy of the record; `dev`) of each running handler, and how a handler moves on |
| `ControllerService`, `NodeService` | eight RPCs: the seven that change state and NodeGetVolumeStats; one action for the arrival, one for each await |
| `Lvp` | the composition, and the faults: `Fail` (an awaited operation returns an error), `Cancel` (a handler is dropped; a crash of lvp drops all of them), `Reboot`. `RequestServed` and `OperationDone` say what an await does whose handler is dropped: the request is served, the blocking pool or the child process goes on |
| `VolumeLifecycle` | abstract specification of the records: what a reader of them may rely on |
| `LvpProperties` | type invariant, invariants, action properties; `LifecycleSpec` instantiates `VolumeLifecycle` with the store |
| `LvpFindings` | what csi.proto or a comment says and the program does not do |
| `Recovery` | `Lvp` under a CO (external) that takes volumes through their lives and repeats each call until it is answered OK; fairness and progress |
| `Listing` | ListVolumes page by page, over a store that changes in every way `VolumeStore` has |
| `VolumeScan` | abstract specification of a listing: every volume is looked at once; `ScanSpec` instantiates it |
| `Requests` | what handlers compute before they touch anything: name, parameters and capabilities of CreateVolume, ValidateVolumeCapabilities, paths, the figures of NodeGetVolumeStats and GetCapacity with their errors |
| `MCLvp`, `MCListing`, `MCRequests` | TLC instances; `Recovery` needs none |
| `LvpProofs`, `LifecycleProofs`, `HostProofs`, `AgreementProofs`, `RecoveryProofs` | theorems about `Lvp`: records; life cycle; devices and files under faults; host and records without faults; and about `Recovery` |
| `ListingProofs`, `RequestsProofs` | theorems about `Listing` and `Requests` |
| `Counting` | lemmas on sets of naturals that the last two share |

Each action stands for an awaited operation together with the code up to the
next await, as tokio runs it. A guard over `verdict` (`DeleteVerdict`,
`NodePublishVerdict`, ...) is the chain of early returns of the handler after
its load, in their order; the status code is the answer, `"Proceed"` the way on.
`PROJECT.json` names the source lines of every definition.

In `Listing` the handler is `task` (one await, the request for all ConfigMaps),
the CO's part is `listing` (token, what was reported), and `stable` is a history
variable. `Listing` stands beside `Lvp` and not on top of it: the other handlers appear as what they do to
the store (`Change`), which is any POST, PATCH or DELETE.

`Requests` has no concurrency: each behaviour is one request, its answer, and for
CreateVolume a ValidateVolumeCapabilities after it. The loop over the capabilities is a
fold, integers wrap at `Modulus` in place of 2^64, a path is a sequence of characters, of which the slash and the dot matter.

### Abstractions

- Names, paths and devices are model values; sizes are small naturals. In
  `Listing` names are numbers, as only their order matters.
- In `Lvp`, `valid_configs` and `mount_paths` are sets: the code asks for membership,
  emptiness and equality. (Equality of `valid_configs` also depends on the
  order in the code; two requests that list the same capabilities in different orders are
  not told apart there. In `Requests` it is a sequence.) `host_path`
  is the parameter host_base_path: the name in it is the key of the record.
- In `Lvp` requests arrive after the checks of their syntax, which `Requests` has. ControllerPublish
  checks the capability after its load; as it changes nothing before, that
  makes no difference.
- `File::create` (with `create_dir_all` before it) and the `ftruncate` after it are two steps, as they are two
  awaits. `losetup -c` with `resize2fs`, and
  `create_dir_all`, are one step each. `losetup -L` (find the device of the file or take a
  free one) is one step; the theorem on devices rests on that.
- An operation that fails has had no effect, except a request to the API server, of which the answer may be lost.
- Nothing ends a child process or a file operation when its handler is dropped (`src/chroot.rs:8-15`): what a
  dropped handler awaited has its effect at the drop or never. That the effect
  comes later than the next call for the volume is not modelled (of writes to the store, two
  concurrent handlers cover it: run `concurrent`).
- `ftruncate` goes by the open file, in the model by the name: they differ only when the file is removed and made again
  in between, which takes two calls for one volume at once.
- A mount on a target where another device is mounted already is refused; the
  kernel would stack it. It needs one of the situations of `LvpFindings`.
- `Requests` has one block size; see "Other disagreements".

## Environments

Which property holds depends on what the CO and the machines do:

1. *Any number of calls at once, any fault*: `TypeOK`, `RecordIntegrity`,
   `TasksSound`, `OneDevicePerFile`. These are what lvp itself ensures.
2. *One call in flight per volume* (`Serial`), any fault: `FilesystemsKept`,
   `LifecycleSpec`. The CSI specification (its text, not the comments in csi.proto) asks the CO for one call in flight
   per volume, and lvp has no other protection.
3. *One call in flight per volume and no fault*: `MountsAgree`, `DevicesAgree`, `FilesAgree`,
   `CapacityBacked`, `ReadonlyHonoured`, `AnswersTrue`. They speak of a volume
   that no call is working on (`Idle`), except the last two.
4. *A CO that repeats its calls, with faults that leave something to repeat*: the properties of `Recovery`.

## Progress and fairness

`Spec` of `Lvp` has no fairness: all that is stated of it is safety. Two modules state progress.

`RecoverySpec` assumes weak fairness of

- the steps of each handler (`Handle(c)`): tokio polls every task that can run, and what it awaits
  (a command, an API request) ends. There is no timeout and no retry inside lvp;
- the CO's sending of a call (`Issue(v)`) and its receiving of an answer
  (`Answered(c)`): kubelet and the sidecars repeat what was not answered OK;
- the end of the use of a volume (`Retire(v)`): without it a volume may keep the only
  loop device for ever. This is an assumption on users, which the instance with one device for two volumes needs.

Claims, expansions and faults need not happen. Weak fairness of `Issue(v)` is enough because there are as many
slots as volumes: whenever a volume has no call in flight, a slot is free.

*Faults in `Recovery`.* At most `MaxFaults`: a call fails or is dropped at an await,
an answer is lost, or a node reboots while no record is NodePublished.
Some awaits are left out, because what a fault leaves there no repetition mends. At the *critical* ones (`Critical`)
neither a failure nor a drop is admitted:

| await | what is left |
|---|---|
| `NodePublish`, ftruncate and mkfs (`src/node.rs:124-152`) | an empty file, or one without a filesystem, which every later call takes for a volume and fails to mount |
| `NodePublish`, last update (`src/node.rs:313`) | a mount that is not in the record: mounting again fails, NodeUnpublish answers OK and leaves it (run `unpublish_after_cancel`) |
| `NodeUnpublish`, losetup -d (`src/node.rs:359`) | if it fails, which is only logged, a device that keeps the file even when that is deleted; if the handler is dropped, a record that lists a path that is no longer mounted: umount fails from then on |
| `NodeUnpublish`, update (`src/node.rs:365`) | the same record |
| `DeleteVolume`, deletion of the record (`src/controller.rs:246`) | a record without a file: removing the file fails from then on |

The four awaits before them are *under way* (`Underway`): File::create (`src/node.rs:123`), mount (`src/node.rs:287`),
umount (`src/node.rs:350`) and the removal of the file (`src/controller.rs:239`). They may fail, which leaves nothing. A drop does
not stop them: the child process or the blocking pool goes on, and the same states come about. So no drop
is admitted there. A reboot is admitted at mount and at the last update of NodePublish, since it takes the mount away with the task.

At every other await (the two updates of the controller, the assignment of
the node, losetup, the truncation of an expansion, ...) the run shows that repeating the call is enough.
An assignment that fails leaves the file and no assigned node: the same node goes on without it, but nothing ties the
volume to that node any more. `CHECK_DEADLOCK FALSE`: when all volumes are gone, nothing is left to do.

`FairSpec` of `Listing` assumes weak fairness of `ListVolumes` and `Return` (the CO asks for the next page, the
answer reaches it) and strong fairness of `List`: the request to the API server may fail (`Fail`) any number of times, but not
always. Nothing makes other handlers change the store, nor the CO begin.

## Runs

Passing runs:

| run | instance | states | shows |
|---|---|---|---|
| `sequential` (`MCLvp`) | 1 volume, 2 nodes, 2 targets, 2 devices, 2 sizes, 3 modes of which 2 are valid, Ext4 and Bind, both readonly flags; 1 call at a time, no fault | 780 000 | environment 3, with every sequence of the eight RPCs on either node; the first node that makes the file keeps the volume |
| `faults` (`MCLvp`) | one node, one filesystem, with `fail`, `cancel`, `reboot` | 967 000 | environment 2 |
| `concurrent` (`MCLvp`) | 1 volume, 2 slots, not serial, `cancel` | 1 820 000 | environment 1: lost updates, deletion under a running handler, an old record over a new one |
| `recovery` (`Recovery`) | 2 volumes, 2 slots, 1 loop device, 2 sizes, `MaxFaults` = 1 | 56 000 | what the CO was told is so (`BeliefTrue`); every claimed volume comes to be mounted, every expansion is completed, every unused volume is gone in the end |
| `listing` (`MCListing`) | 3 volumes, pages without limit, of 1 and of 2 entries, 2 records | 46 000 | `NothingMissed`, `AbortJustified`, `PageFull`; the pages implement `VolumeScan`; every listing ends |
| `requests` (`MCRequests`) | up to 2 of 11 capabilities, 9 names, 7 base paths, 3 values of fs_type, integers of 32 values, up to 8 blocks of size 1, 2 and 4 | 396 000 | creation against a definition without order, confirmation against creation, one file for all handlers and below host_prefix, figures that add up |

Why the bounds are enough: two targets are the least that
tells the last unpublish from another one, two devices the least for one to go astray, two sizes for an expansion and a refused one, two
slots for every race between a load and an update, two nodes for one that comes second. Modes and filesystems
other than those listed take the same branches. The slots of `concurrent` are symmetric. That calls for
different volumes do not disturb each other without faults is proved (`Agreement`), so no run has it as its subject;
`recovery` interleaves two volumes. One device for two volumes makes the second volume of
`recovery` wait for the first; with `MaxFaults` = 2 (161 000 states) the run
passes as well and takes some minutes. Three volumes are the least for a page with a
volume before and one behind it. Two capabilities are the least that can disagree; the 11 are two modes with each filesystem
and one capability for each way of being refused. The names and base paths have slashes in front, behind and inside, `..`, and what only looks like it. Products of 8 blocks
of size 4 reach the sign bit at `Modulus` = 32. States are finite without any bound on
the length of a history, except for `MaxFaults`. `requests` has
`CHECK_DEADLOCK FALSE`: a behaviour ends with the answer.

Runs that find a disagreement with a text of the repository:

| run | what happens | text |
|---|---|---|
| `unpublish_after_cancel` | NodePublish dropped between mount and update leaves a mount that NodeUnpublish answers OK for | `proto/csi.proto:1445` |
| `device_after_reboot` | the loop device in a record is used after a reboot gave it to another volume: the pod sees the other volume's files | `proto/csi.proto:1396` |
| `expand_after_cancel` | an expansion that did not reach its update, then a smaller one: ftruncate cuts the file below its filesystem | `src/node.rs:82`, `README.md:39` |
| `delete_unmounted` | a volume that was never mounted cannot be deleted | `proto/csi.proto:313` |
| `create_again` | CreateVolume repeated after the first mount is refused | `proto/csi.proto:315` |
| `capacity_of_class` (`MCRequests`) | GetCapacity refuses the parameter fs_type, which CreateVolume takes and `examples/sc_xfs.yaml:15` has | `proto/csi.proto:987-988` |

### Other disagreements

Met on the way, visible in the models or beside them, and not given a run:

- NodePublish of a
  bind volume always fails: `mount bind` at `src/node.rs:33` for `mount --bind`,
  against `README.md:38`.
- A repeated NodePublish is answered OK whatever
  its readonly flag (`src/node.rs:248`, `proto/csi.proto:1420`), and after a reboot although
  nothing is mounted (`proto/csi.proto:1404`).
- SINGLE_NODE_READER_ONLY never makes a mount readonly (`src/node.rs:291`,
  `proto/csi.proto:455`); the first mount is not checked against the mode the
  controller published (`src/node.rs:222-246`).
- required_bytes = 0, which is "unspecified", makes a volume of size 0, for which mkfs fails
  (`src/controller.rs:150-153`, `proto/csi.proto:503`); limit_bytes is not looked at; a negative size becomes a huge one.
- GetCapacity looks at host_base_path without host_prefix (`src/controller.rs:501`).
- Listings and ControllerGetVolume name a node in state NodePublished only
  (`src/controller.rs:446,639`), though a volume is controller-published before (`proto/csi.proto:904-906`).
- Nothing keeps a record of a deleted volume from being written over one made anew under its name: an update is a
  patch without uid or resourceVersion (`src/store/volume.rs:91-101`). It takes two calls for one volume at once, and happens in the run
  `concurrent`, which only shows that the record does not contradict itself.
- CreateVolume tests the name for `..`, and host_base_path not at all (`src/controller.rs:131-147`): with a component `..` in
  host_base_path the file is not below host_prefix. `OneFile` says where it is for all others.
- With a host_base_path of slashes only, NodePublish makes another file than the one that expansion and deletion
  look for (`src/node.rs:260`, `src/node.rs:482`, `src/controller.rs:235`).
- NodeGetVolumeStats does not ask whether the volume is on this node: a directory left by a failed publication on another one answers with
  the figures of the disk below it (`src/node.rs:386-407`).
- Figures are block counts times f_bsize, where statvfs counts in f_frsize (`src/node.rs:415-420`).
- A publication that the CO gives up after losetup leaves the loop device attached: NodeUnpublish
  does not find the path in the record and detaches nothing (`src/node.rs:344`).

## Proofs

`LvpProofs` proves for all values of the constants (any number of volumes,
nodes, targets, devices and concurrent calls, any set of faults):

- `Soundness`: `Spec => []IInv`, where `IInv == TypeOK /\ RecordIntegrity /\ TasksSound`.
- `TypeCorrect`, `RecordsIntact`, `TasksIntact`: the three parts.

`HostProofs` proves `DevicesUnique`: `Spec => []OneDevicePerFile`.

*Why the strengthening is needed.* A handler writes back a copy, so whether the
store stays consistent depends on the copies, whoever has written the store
in between. `TasksSound` says that every copy is well-formed, that a
NodePublish under way has seen a published volume without its target (and,
if there are other targets, a multi-writer), and that a NodeUnpublish
has seen its target in the record. Then each handler's change of one record preserves
`WellFormed` (`NodePublishedSound`, `NodeUnpublishedSound`, ...), and the rest of
the proof is one lemma for each service, one step for each action.
`OneDevicePerFile` is inductive over the types: losetup attaches a
free device only to a file that has none, and every other step only releases.

`LifecycleProofs` proves, with one call in flight per volume (`Serial`) and any fault:

- `LifecycleImplemented`: `Serial => (Spec => LifecycleSpec)`: every step of
  lvp is a step of `VolumeLifecycle` or leaves the store alone.
- `CopiesInSync`: `Serial => (Spec => []LInv)`, the invariant it rests on.

*The argument.* What PATCH writes is the copy of a task, so the copy must be
known to be a legal successor of the record. `LInv` says that no two slots
work on one volume and that each copy is in `Sync`: up to the point where the
handler changes it, it is the record; from then on it is one step of the life
cycle (`Legal`) ahead of it. NodePublish takes two such steps, the assignment
and the mount, and its first update makes the copy the record again. `Legal`
needs `IInv`: that the device is not replaced by a further mount, for
instance, follows from `WellFormed`. A task for another volume is not disturbed
(`SyncStep`), and a fault only ends tasks or lets them go on with the copy
they have (`FailRefines`, `DropRefines`). Without `Serial` neither holds:
two handlers of one volume may each write back what they loaded.

`HostProofs` also proves, with `Serial` and any fault, `FilesystemsIntact`:
`Serial => (Spec => FilesystemsKept)`.

*The argument.* Only `File::create` and mkfs can empty a file, and both come after `make_volume` has
looked for it. `BlankFiles` says that what it saw still holds: at `create` the file of the task is absent, and from there to
`mkfs` it has no filesystem. Another task could break that only through the same file, hence for the
same volume, and `OneCallPerVolume` (of `LInv`) leaves none (`Spares`: a step blanks no file but that of its own volume).
What a dropped task has begun is one of these steps, taken at the drop (`CancelKept`). A file goes only in
`delete_volume`, which has seen the record open; `InSync` (of `LInv`) says that it still is, and `Sync` that
the record is there. Without `Serial` two NodePublish break the one half, and a publication during a deletion the other.
The theorem is about filesystems being made anew or removed. It does not say that an expansion leaves them whole: the
run `expand_after_cancel` shows one that does not.

`AgreementProofs` proves what holds when there is one call in flight per volume, nothing fails and nobody
asks for a size of 0 (`Undisturbed == Serial /\ Faults = {} /\ 0 \notin Sizes`):

- `Agreement`: `Undisturbed => (Spec => []AInv)`;
- `MountedAsRecorded`, `AttachedAsRecorded`, `StoredAsRecorded`, `SizedAsRecorded`, `ReadonlyKept`, `AnswersKept`:
  `Spec => []MountsAgree`, and so on for the six properties of environment 3.

*The argument.* A handler works on the host first and writes the record afterwards, so while it is at work the host is not as
the record says. It is as the copy says from the moment the copy is changed: `Effective` is the record
that the host follows, the copy at `assign`, `unloop` and `patch`, the stored record elsewhere. `AInv` says of each
volume and the task on it that mounts (`MountsMatch`), devices (`DevicesMatch`) and files (`FilesMatch`) are those of the
effective record, with the exceptions that the task accounts for: the device between losetup and
mount, or umount and losetup -d (`Held`), a file before its mkfs or after its removal, a file that is longer
than its filesystem between truncation and growth. `Placed` and `Told` are what the task
knows at each await, `TargetMade` that its target directory is there. The six properties speak of idle volumes, where the exceptions
are void. A task of another volume touches other files, other targets and, by `DevicesMatch`, other devices:
this is where losetup must not give out a device that has a file. The proof has one lemma for each action,
and `LInv` ties the copies to the records. *Why no size 0*: mkfs refuses
it after the file was made, so that the file stays without an assigned node, as after a fault.

`RecoveryProofs` proves of `Recovery`, for any number of volumes, slots, devices, sizes and faults (on one node and
with one target per volume, as `RecoveryAssumption` has it):

- `Recovers`: `RecoverySpec => [](IInv /\ LInv /\ BInv)`;
- `BeliefKept`: `RecoverySpec => []BeliefTrue`.

*The argument.* Every step of `Recovery` is one of `Lvp` (`StepOfLvp`), so `IInv` and `LInv` hold there. `AInv` does not: a call
that is cut off leaves a file or a device of which no record tells. `BInv` keeps the direction that no fault breaks: what a record
tells of the node is so (`Backed`), be it the record in the store or the copy that a task is about to write. The
exception is a NodeUnpublish between umount and its update, which is why the awaits there are critical: cut off
at that point, the record would tell of a mount for good. For a call that is cut off, `Settled` says that the volume is as it has
to be without a task, whether what was awaited is done or not (`ServedSettled`, `DoneSettled`, `DroppedSettled`); that fails for the
awaits under way, and nowhere else. What is left behind does no harm, since losetup takes a device
that is free or has the file of the volume already, and since every device that is detached has
the file of its own volume (`Sound`, which also says that no target shows another volume). No device is ever marked autoclear
(`NoAutoclear`). A reboot finds no record that tells of anything, because `Restart` waits for that, and ends the
tasks that would write one. `StageTrue` and `AskedFor` tie that to the CO: an OK moves a volume on, and what it tells of
the record (`Confirms`) is what the next stage needs.

`ListingProofs` proves of `Listing`, for any finite or infinite set of names, any page sizes and any
changes between the pages:

- `ListingInvariant` and `TypeCorrect`;
- `NoneMissed`: `Spec => []NothingMissed`; `AbortsJustified`: `Spec => []AbortJustified`;
- `PagesFull`: `Spec => []PageFull`;
- `ScanImplemented`: `Spec => ScanSpec`, each page being one `Pass` of `VolumeScan`.

*The argument.* `Passed` is the set of volumes up to the last token given. The invariant (`Reported`) says that no volume
outside it has been reported, every stable volume in it has, and the entries of an answer under way are
of volumes not reported before; `TaskOfListing` says that the handler works from the
CO's token, stable volumes exist, and a token that was refused is of a volume
that is no longer stable. Names are compared only, so nothing but the order of the naturals is used. `PagesFull` counts:
the volume that a page ends at has as many before it as the page may have, less one; if none has, then there are fewer volumes
than that (`FewerThan` in `Counting`), however many names there are.

`RequestsProofs` proves of `Requests`, for lists of capabilities of any length, any paths, any modulus that is even:

- `TypeCorrect`, `CreatedAsAsked` (`CreationAsAsked`), `ConfirmationsTrue` (`ConfirmedAsCreated`), `OneFileOnly` (`OneFile`)
  and `FiguresAddUp` (`UsageAddsUp`), from `RequestInvariant`.

*The argument.* The invariant says that volume, confirmation and figures are those of the request; the rest is about what the
operators compute. The loop over the capabilities is a fold. `LoopExists` shows that the recursive function
behind it exists for every number of turns, `ParsedTurns` that it takes one capability per turn, and `TurnsMean` that after k turns it has accepted exactly
what a look at the first k capabilities as a set would accept, with the filesystem they name and their
modes (`Means`). From that `ParsedMeans` has what the loop says of all of them, and confirmation and creation
are compared through it (`ConfirmedFits`). A remainder differs from the number by a multiple of the modulus (`Wrapped`),
so sums of remainders are congruent to the sum (`SumWraps`). A path gets a component `..` neither by trimming its
slashes (`TrimClimbs`) nor by a slash and a name that passed the five tests (`NameClimbs`), and a relative path without one that is joined
to host_prefix is below it (`JoinBelow`).

*Induction.* The library's induction theorems cannot be cited here, since they have an operator as parameter.
`Least` of `Counting` replaces them: a set of naturals that is not empty has a least element (from `WFMin` and the well-foundedness of
the naturals, which have none). A statement about all numbers of turns is shown by the least number for
which it would fail.

*Assumptions*: `None` and `Deleted` are values of no other kind, requests have
the types of their fields, names are naturals in `Listing`; in `Requests` paths and names are sequences, `Modulus` is even,
block counts and block sizes fit it. TLC evaluates them in every run.

*Model-checked only*: liveness (`EventuallyUsed`, `EventuallyEnlarged`, `EventuallyGone`, `ListingEnds`), which is out of
TLAPS's reach here. Every invariant and every action property of the passing runs is proved.

## Not modelled

ControllerGetVolume (one load, answered with the entry that `Listing` has for the volume); NodeGetInfo, the lists of capabilities and the identity
service (constants); staging, snapshots and the other RPCs that answer Unimplemented; logger, configuration,
construction of the chroot, start-up and the socket (I/O without state that lasts);
effects of a dropped handler that come later than the next call for its volume; generated protocol code and manifests;
wording of errors.

## Plan

1. *Late effects*: children that outlive their handler, as tasks of their own, whose effect may come after the next call.
2. *ControllerGetVolume*, beside ListVolumes in `Listing`.
3. *Several nodes and targets in `Recovery`*, and access modes that the CO changes between stages.
