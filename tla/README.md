# TLA+ models of the cStor CSI driver

This directory holds TLA+ specifications of the cStor CSI driver
(`openebs/cstor-csi`), the TLC configurations that check them on small
instances and TLAPS proofs about them. `PROJECT.json` lists components, runs,
mutants, the map from definitions to source lines, findings, hazards and
theorems.

## 1. The system

The driver is one binary (`src/cmd/main.go`) that runs either as the
*controller* plugin (one per cluster) or as the *node* plugin (one per node).

| part | source | state it keeps | operations |
|---|---|---|---|
| node service | `pkg/driver/node.go`, `node_utils.go` | none of its own | NodeStage/Unstage/Publish/Unpublish/ExpandVolume |
| transition list | `pkg/driver/utils.go`, `pkg/utils/utils.go` | `TransitionVolList`, a map under a lock: the volumes a goroutine of this node works on | add (refuses with *Busy*), remove (deferred) |
| attachment records | `pkg/utils/kubernetes.go`, `pkg/cstor/volumeattachment` | `CStorVolumeAttachment` (CVA) objects in the API server, one per volume and node | list, get, create, update, delete |
| iSCSI | `pkg/iscsi`, a connector library | sessions of the node | login, logout, rescan |
| mounts | `k8s.io/mount-utils` | staging mount, bind mounts on the target path, directories | mount, unmount, RemoveAll |
| Cleanup | `pkg/utils/utils.go` | – | detaches volumes whose CVA is being deleted; at startup and when the monitor asks |
| mount monitor | `pkg/utils/utils.go` | – (only with `REMOUNT=true`) | every 5 s: look at the mounts, start a remount goroutine, call Cleanup |
| controller service | `pkg/driver/controller.go`, `pkg/utils/maya.go` | `CStorVolumeConfig` (CVC) objects | Create/Delete/ExpandVolume, Create/DeleteSnapshot |
| snapshot client | `pkg/cstor/snapshot` | snapshots on the volume's target | CreateSnapshot, DestroySnapshot over gRPC |
| builders | `pkg/cstor/volumeconfig/build.go`, `volumeattachment/build.go` | an object under construction and the errors collected so far | setters, Build |
| clients | `pkg/cstor/*/kubernetes.go`, `pkg/kubernetes/*` | a clientset, made for one call | get, create, update, patch, delete, list |
| rounding | `pkg/utils/rounding.go` | – | sizes to GiB |
| identity, gRPC server, configuration, payloads | `pkg/driver/identity.go`, `pkg/utils/server.go`, ... | – | wiring |

How they interact: the kubelet calls the node service over gRPC, one goroutine
per call. A handler first enters the volume in the transition list, then talks
to the API server, to `iscsiadm` and to the mount table, and leaves the list
when it returns. Node plugins of different nodes meet only in the API server:
a Stage looks at the CVAs that other nodes created, refuses while the node of
one of them is ready, and otherwise deletes them; the finalizer each node puts
on its own CVA keeps that object alive until the node has detached.

What is hard about it:

* a call that the kubelet gave up on is still running when it is repeated, and
  it may already have succeeded;
* every handler is a sequence of calls that may fail one by one, or take effect
  while the answer is lost, or be cut short by a crash or a reboot;
* several goroutines of a node (handlers, Cleanup, remount) and the handlers of
  several nodes work on the same volume;
* objects are read, then waited on, then written with the copy that was read;
* an entry of the transition list that nobody removes blocks the volume;
* errors of several calls are not looked at, and what a failed get returns (nil
  or the zero object) decides what the handler does next;
* builders collect errors and work on the caller's object in place.

## 2. What correctness means here

| component | properties |
|---|---|
| transition list | one goroutine at a time works on a volume (`TransitionExclusive`); a listed volume has an owner (`ListedHasOwner`) |
| Stage / Unstage | what is mounted is on record (`MountRecorded`); after a successful Unstage it is not mounted (`UnstagedNotMounted`); what the kubelet takes for staged is attached and on record (`StagedAttached`); RemoveAll never runs over the mounted volume (`RemoveAllOnlyUnmounted`); an Unstage that succeeded leaves no finalizer of the node (`UnstagedLetsGo`) |
| Publish | what the kubelet takes for published shows the volume, not the bare staging directory (`PublishedShowsVolume`) |
| node plugins | they implement `StagedVolume` (`ImplementsStaged`) |
| cluster | one node at a time has it mounted (`SingleNodeMounted`); the pod that is left gets it (`OnlyPodServed`); an unwanted volume is let go of (`UnwantedReleased`) |
| monitor | bad mounts are repaired although calls of the repair fail (`DamageRepaired`); Cleanup, which runs beside the handlers and writes a copy read before a slow detach, leaves the finalizer of a live attachment alone (`CleanupSparesLive`) |
| controller | what CreateVolume answered for exists (`ProvisionedExists`); what ControllerExpandVolume answered for has the size in bytes (`GrowthReal`); a capacity never shrinks (`NeverShrinks`); a claim that stays gets its last size (`ClaimServed`); the service implements `ProvisionedVolume` (`ImplementsVolume`); what DeleteVolume answered for is gone or going (`DeletedIsDeleted`); a volume that is given up is reported gone (`VolumeDeleted`); a clone has a source (`CloneSourceAvailable`) |
| CVC, CV | a CVC in the store can be provisioned (`OnlyCompleteCVCs`); no CV outlives its CVC (`NoOrphanCV`); a patch from a stale copy undoes nothing (`BoundStaysBound`); with builders, clients and clones in between the volume still does the steps of `ProvisionedVolume` (`VolumeSteps`) |
| snapshots | one that was answered for is on the target (`SnapshotReal`); one asked for comes and one given up goes (`SnapshotSettled`) |
| attachment | it holds all that login and mount need (`AttachmentComplete`) |

## 3. Modules

```
AttachmentStore     the CVA object: finalizers, deletion, updates
   NodeState        variables, goroutine control, API calls, transition list, TypeOK
      StageVolume   NodeStageVolume, NodeUnstageVolume, DetachDisk
         MountMonitor   Cleanup, MonitorMounts, RemountVolume, crash, reboot, start
      PublishVolume NodePublishVolume, NodeUnpublishVolume, NodeExpandVolume
         NodeService    kubelets, scheduler, faults; Init, Next, Spec, FairSpec; properties
            NodeServiceMC      what TLC runs
            NodeServiceTypes   proof of TypeOK
               NodeServiceProofs  proof of the inductive invariant and its consequences
                  NodeMoves           lemmas: what a step of a goroutine can do
                     NodeHandoverProofs  handover between nodes, what kubelets are
                                         told, the refinement of StagedVolume
                     MonitorProofs       what holds with the monitor on as well

StagedVolume        abstract: what the node plugins promise the kubelets;
                    NodeService instantiates it (ImplementsStaged)

Rounding            sizes to GiB
   ControllerService   Create-, Delete- and ControllerExpandVolume on the CVC's sizes,
                    sidecars, cvc-operator, faults; Spec, FairSpec; properties
      ControllerServiceMC      what TLC runs
      ControllerServiceProofs  rounding, TypeOK, the inductive invariant and its
                               consequences, the refinement
ProvisionedVolume   abstract: what the controller promises the sidecars;
                    ControllerService (ImplementsVolume) and VolumeLife (VolumeSteps)
                    instantiate it

ConfigBuilder       the builder of CVCs
AttachmentBuilder   the builder of CVAs
KubeClient          clients, clientsets, and what the API server does with a call
   VolumeLife       whole objects: CVC, CV, snapshot, CVA; all controller calls and the
                    part of Stage that builds the CVA; instantiates both builders
      VolumeLifeMC  the requests, and what TLC runs
      VolumeMoves   lemmas: what the builders return and what a step can do
         VolumeLifeProofs  the inductive invariant, its consequences and the refinement
```

`NodeService` and `ControllerService` share no state: the controller writes CVCs,
the node plugins CVAs. `VolumeLife` is where the two meet: NodeStageVolume reads
the CVC and the CV the controller's calls led to and builds the CVA from them.
`ControllerService` keeps only the sizes of the CVC and lets a claim grow several times;
`VolumeLife` has the same handlers on whole objects.

### One volume

Except in `VolumeLife`, which also has the source of a clone, all state is that of one
volume. Handlers of different volumes share only the
lock of the transition list and the API server's namespace of object names, in
which the names of two volumes differ, so they do not interact.

### Goroutines and steps

`pc[n][t]` is the next *external call* that goroutine `t` of node `n` makes: to
the API server, to `iscsiadm`, or to the mount table. What it computes between
two such calls, including assignments to the transition list, is local or under
the list's lock and belongs to the action of the call before. The actions carry
the names of the calls: `StageList`, `StageNodes`, ... in the order of the code.
`OnError` says where a failing call leads: most return an error, a failed attach
or mount is undone first (`stage_undo`), a failed `cleanup_update` leaves the
goroutine without taking the volume off the list (see `CleanupOrphan`). A failed
call has no effect (`CallFails`), except for what the handler assigned to the list
before it; a call that took effect and whose reply is lost (`Reply`) is seen as
failed, and so is a logout after which the record of the target could not be removed.

A handler ends in a location of `Ends`; `removeVolumeFromTransitionList` is the
deferred removal together with the delivery of the reply.

### The attachment

`cva[n]` is the CVA `<volume>-<n>`: existence, deletion mark, finalizers, and
whether staging and target paths are recorded. `DevicePath` is written with the
staging path and is not kept apart. Every delete of the driver asks for
foreground propagation, so the object first gets the `foreground` finalizer and
goes when the garbage collector (`CollectGarbage`) has dropped it and the node's
own finalizer is gone. `fresh[n]` is the set of goroutines whose copy of the
object has the current resourceVersion; an update with another copy is refused.

### Host state

`stg[n]` counts the mounts on the staging path, `tgt[n]` is the stack of mounts
on the target path: `"vol"` shows the volume, `"dir"` the bare staging directory
(Publish binds whatever the staging path shows). `IsLikelyNotMountPoint`
compares device numbers and does not see a `"dir"`. `dir[n]` are the directories
that exist. `ro` is the set of nodes whose kernel turned the filesystem
read-only.

### Environment (marked external in the map)

* The **kubelet** follows the order CSI prescribes (Stage, Publish, Unpublish,
  Unstage), makes one call at a time per volume, repeats a call until it is
  answered with success, and after an error or a timeout does not know whether
  the call took effect. It makes the staging directory before Stage and removes
  the empty directories after a successful Unpublish or Unstage. That is the
  contract of the CSI specification; actual kubelets treat some error codes as
  final and then do less.
* **Pods** are placed and removed at will. With `Overlap = FALSE` a pod is placed
  only once no other node wants the volume and all its calls are answered.
* **Faults** come from a budget: a call fails without effect (`error`), takes
  effect but its reply is lost (`lost`), the kubelet stops waiting (`timeout`) or
  restarts (`kubelet`), the driver dies (`crash`), the node reboots (`reboot`), a
  node turns unready (`notready`), the volume loses its target (`offline`), a
  mount goes bad (`damage`), the session is lost (`logout`).

### Abstractions worth knowing

* `accessType`, chosen in `Init` and never changed, says whether the volume is
  asked for as a filesystem or as a raw block device. A block volume is attached
  by Stage and mounted by Publish only.
* The status stored in a list entry is only logged; the model keeps presence.
  `ReqMountList` is written and never read, and is left out.
* Paths of a volume contain its ID, as kubelet's paths do, so `GetMounts` finds
  exactly the volume's mounts.
* That the CVC is not bound yet, or the volume has no iSCSI details, is a failing
  call at `stage_nodes`.
* The wait of `DeleteOldCStorVolumeAttachmentCRs` for the node's own CVA to vanish
  is bounded in the code; the model goes on with or without the object gone.
* If the list of CVAs cannot be read at startup the driver exits; the model simply
  has not taken `DriverStart` yet.
* The growth of the filesystem in NodeExpandVolume changes nothing the model
  keeps; the handler matters because it holds the volume.
* In NodeUnstageVolume the data race on the list at `node.go:257` (a log line) is not
  modelled; a crash at that point is covered by the `crash` fault.

### The controller

`ControllerService` has one action per call a handler makes to the API server:
`CreateGet`, `CreatePost`, `DeleteGet`, `DeleteDel`, `ExpandGet`, `ExpandPatch`,
`ExpandVerify`. The controller has no transition list, so a repeated call runs
next to the one it repeats. `arg[r].seen` is the capacity in the copy a handler
holds; the merge patch is the difference to that copy. Sizes are asked for in
bytes and kept in GiB, through `RoundUpGiB`.

External are the sidecars (one call at a time per volume, repeated until it
succeeds; they may stop waiting), the operator (it binds a pending CVC with the
provisioned capacity, grows a bound one to its capacity, and reaps one that is
being deleted; it never shrinks a volume) and the API server.

Left out here and modelled in `VolumeLife`: the checks of a request's arguments, the
choice of the node, the source of a clone, missing clients. Left out in both: usage
events (but not the nil object one of them reads). `Publish.NodeID` is never
empty, because CreateVolume refuses a topology without a node, so every resize is
verified. A volume's name is used for one claim only, as the provisioner's names
are.

### The life of a volume

`VolumeLife` follows the objects themselves. `cvc` is the store of CVCs, each a
record with the fields the driver and the operator set; `cv` are the volumes that
have a CStorVolume and hence a target; `snaps` the snapshots on the targets; `cva`
the attachment of the volume on a node. The volume `src` is there at the start and
`vol` is asked for with one request of `VolumeRequests`, perhaps as a clone of a
snapshot of `src`.

* Each action is one call of a handler (`APICall` gives client and operation), in the
  order of the code; what is computed before the next call belongs to it. `Provision`
  and `NewAttachment` are the builder chains of `ProvisionVolume` and
  `prepareVolumeForNode`, setter by setter.
* A builder is an object and whether a setter refused. `Build` reports it. In
  `BuildFrom` the object is the caller's; `updateCVCSize` hands over a copy and
  `FetchAndUpdateISCSIDetails` does not, and drops what `Build` returns.
* A call does not reach the API server if the client refuses its argument or the
  configuration cannot be read (`readable`); a Get then returns nil. With an error of
  the API server it returns the zero object. `OnError` says where each leads: a nil
  makes `IsSourceAvailable` refuse and `DeleteVolume` panic, a zero object does neither.
* `Patched` is the merge patch: the fields in which the new object differs from the
  copy that was read, applied to whatever is there.
* External are the sidecars (one call about a volume or snapshot at a time, repeated
  until it succeeds; a clone is asked for when its snapshot is ready), users (who give
  up what they asked for, for good), the operator (it binds a clone only from a
  snapshot that exists; on deletion it removes CV and snapshots and then its
  finalizer), the garbage collector and the target, which answers OK for a snapshot it
  already has or has no more.
* Listing and deleting old attachments, and what Unstage does, are in `StageVolume`;
  here `Unstage` is one step.
* Faults: `error`, `lost`, `timeout`, `crash` as above, and `config`: the configuration
  cannot be read for a while.

### Abstract specifications

`ProvisionedVolume` says what the sidecars may rely on: a volume is answered for only
while it is there, a size only if it has it, and until somebody asks to delete the
volume it neither goes away nor shrinks. The mapping reads `there` as "a CVC that is not
being deleted", and `size` as the operator's capacity in bytes.

`StagedVolume` says what the kubelets may rely on: the filesystem appears and disappears
on a node only between a call of its kubelet and the answer, is on one node at a time,
and is where the answers say it is. The mapping reads `mounted` as the nodes with a
mount on the staging path. It holds for handovers without overlap, for nodes that
stay ready and mounts nobody damages; `TwoNodes` shows why the first is needed.

## 4. Runs

`tlc -workers 2 -config X.cfg M`, where M is `ControllerServiceMC` for Controller and
ExpandShrink, `VolumeLifeMC` for VolumeLife and CloneSource, and `NodeServiceMC` for the
others. All runs say
`CHECK_DEADLOCK FALSE`: pods and faults are bounded, so the system rests when
both are used up. Goroutines are interchangeable (`ThreadSymmetry`) in the runs
that check no liveness.

| run | instance | checks |
|---|---|---|
| NodeSafety | 2 nodes, 2 goroutines each, a filesystem or a block volume, no overlap, 3 faults of 7 kinds, 3 pod events; 578 000 states | TypeOK, TransitionExclusive, MountRecorded, UnstagedNotMounted, RemoveAllOnlyUnmounted, StagedAttached, UnstagedLetsGo, PublishedShowsVolume, SingleNodeMounted, IInv, HandoverInv, ImplementsStaged |
| HandoverLive | 2 nodes, fairness, unready nodes; 22 000 states | OnlyPodServed |
| Release | 1 node, 2 goroutines, fairness, 3 faults of 6 kinds; 48 000 states | UnwantedReleased |
| Repair | 1 node, 2 goroutines, REMOUNT, fairness, 2 faults (damaged mounts and failed calls), 3 pod events; 442 000 states | CleanupSparesLive, DamageRepaired |
| Controller | 1 volume, 2 handlers, fairness, a GiB of 2 bytes, sizes of 1, 2 and 3 GiB (two not whole), 3 faults of 4 kinds; 90 000 states | TypeOK, ProvisionedExists, GrowthReal, IInv, ClaimServed, ImplementsVolume |
| VolumeLife | 2 volumes, 1 snapshot, one of 17 requests, 2 handlers and the node plugin, fairness, 1 fault of 5 kinds; 60 500 states | TypeOK, OnlyCompleteCVCs, NoOrphanCV, DeletedIsDeleted, SnapshotReal, AttachmentComplete, IInv, BoundStaysBound, VolumeSteps, VolumeDeleted, SnapshotSettled |

Why the bounds are enough for the cases meant: two goroutines let a repeated call
meet a handler that is still running and Cleanup meet both; three faults let a
call fail, its undo or its retry fail, and the kubelet give up; three pod events are
a life of a pod on one node (place, remove) and the begin of another, on the same
node or on the other, so a second Stage meets what the first life left. Two nodes are
all that `SingleNodeMounted` needs. In `Repair` a failed call makes the kubelet repeat a
Stage, the repeated Stage deletes the node's own CVA, and the monitor's Cleanup then runs
beside it, beside the next Stage and beside Publish. For the controller two handlers are a call and the
forgotten one before it, and three sizes let a claim grow twice. The stack of bind
mounts is bounded by the retries that the faults allow. In `VolumeLife` the requests
are one that is complete, the uses that make a difference (grown, staged as filesystem
and as block device, cloned, source or snapshot given up) and one for each thing that can
be missing or wrong; each behaviour has one of them, so the interleavings stay small. One fault is enough for every error path
once; the same instance with two faults and safety only (355 000 states) passes too.

Each property of a passing run has a mutant (`PROJECT.json`): a handler with a
plausible slip, such as a missing busy check, a forgotten finalizer or the wrong
path, for which the same run fails.

### Runs that show the code at odds with its comments

| run | property | what happens |
|---|---|---|
| CleanupRace | RemoveAllOnlyUnmounted | the monitor's Cleanup ignores the transition list and detaches next to a retried Stage; RemoveAll meets the fresh mount |
| CleanupOrphan | ListedHasOwner | Cleanup's update fails, on a conflict or because the garbage collector was faster and the object is gone; the goroutine removes the name of an empty object, and the volume stays busy |
| TwoNodes | SingleNodeMounted | both nodes list the CVAs before either creates one |
| StageRetry | OnlyPodServed | a Stage repeated after success deletes the CVA which its own finalizer keeps; every later Stage is refused while the pod is wanted |
| ExpandShrink | NeverShrinks | an Expand the resizer gave up on patches the CVC after a later one for a larger size, and the capacity goes back |
| CloneSource | CloneSourceAvailable | the source is deleted before CreateVolume looks for it; the zero object of the failed Get passes for it |

`CleanupOrphan` does not need the monitor: after a restart Cleanup may lose the same race
against the garbage collector, every later call is refused as busy, and
`UnwantedReleased` fails. The `Release` run therefore has neither crashes nor reboots;
what they do to safety is in `NodeSafety`.

After `ExpandShrink` the sidecar's retry puts the capacity right again, so
`ClaimServed` holds, and the volume itself did not shrink, so `GrowthReal` does.

More things the model shows without a run of their own. A Publish repeated
after a timeout stacks a second bind mount; one Unpublish removes one of them, and
`DetachDisk`, which counts the mounts of the device only after it has unmounted the
staging path, does not see the other and logs out (`iscsi_util.go:495`). Two are
behind the early return of Unstage at `node.go:267`: a Stage that fails after creating the
CVA leaves it, and an Unstage that finds no staging path in it succeeds without
deleting it, so the CVA keeps other nodes from staging while this node is ready;
and if an earlier try had logged in, its session stays too. `RemountVolume`
never logs in, unlike its comment (`utils.go:469`) says: a volume whose session was lost
is not repaired. Nor does it make directories. `DamageRepaired` therefore asks for the
repair of volumes that keep session and directories, which Cleanup running beside a
handler can take. In the controller,
a CreateVolume handler that outlives the deletion of its volume and the reaping
of the CVC makes the CVC again, and nobody asks to delete that one. A source id without `@` makes
`GetVolumeSourceDetails` panic whenever the provisioner repeats the request
(`CreateSourcePanic`), so the liveness properties of `VolumeLife` except it
(`Poisoned`). DeleteSnapshot finds the target through the volume's CV and cannot succeed
once that is gone, so `SnapshotSettled` excepts a source volume that is given up. A
replica count of zero is a number, and passes.

### Fairness

`FairSpec` assumes weak fairness of: each goroutine (the Go scheduler; every
external call returns), the monitor's tick and the Cleanup it calls (a ticker),
the start of the driver (a DaemonSet), the kubelet's retries (its reconciler
repeats with back-off), the garbage collector, and the return of nodes and of the
volume. Faults, pods and expansions are never fair. In the controller: each
handler, the sidecars' retries (a work queue with back-off), and the operator's
binding, resizing and reaping; what the claim's owner does and faults are not. In
`VolumeLife`: each goroutine, the return of the configuration, the sidecars' retries of
snapshot, delete-snapshot and delete calls, and the operator and the garbage collector
on what is being deleted; that a pending volume is bound is not assumed.

## 5. Proofs

Each invariant below was checked by TLC before it was proved, as an invariant of a run
(`CopyInv` of `MonitorProofs` on the instance of `Repair`).

### The node service, node by node

For every set of nodes and goroutines, every access type and all bounds:

* `NodeServiceTypes!TypeCorrect`: `Spec => []TypeOK`. The proof splits TypeOK by
  owner (cluster, host, driver, kubelet) and goes through the actions.
* `NodeServiceProofs!InductiveInvariant`: `Spec => []IInv` if `Remount = FALSE`.
* From it `Exclusion` (TransitionExclusive), `MountsOnRecord` (MountRecorded),
  `UnstageFinal` (UnstagedNotMounted) and `RemoveAllSafe` (RemoveAllOnlyUnmounted).

The argument. None of the four is inductive alone. That a mounted staging path is
on record is kept by Unstage only because, when it drops the finalizer, its own
earlier step has unmounted the path *and nobody has mounted it since*; the latter
is exclusion. Exclusion in turn needs that a running goroutine is always listed,
which a crash keeps only because the list and the goroutines die together, and
which Cleanup at startup keeps because nothing is listed then. `IInv` therefore
says for each node: `ListInv` (a working goroutine is listed and alone),
`ThreadInv` (what a goroutine relies on at its location: at `Unmounting`
locations nothing is mounted, at `Mounting` locations in addition the node is on
record, and while Stage runs the kubelet does not believe the volume unstaged),
`StagingInv` (a mount is on record, its directory exists, the kubelet knows of
it), and that a driver that is down lists nothing.

The assumption `Remount = FALSE` is necessary: with the monitor, Cleanup takes a
listed volume and `CleanupRace` shows two of the conclusions fail.
The only other assumption is `ConstantsAssumption` of `NodeState`.

### With the monitor on

`MonitorProofs!LiveAttachmentKept`: `Spec => CleanupSparesLive`, for any `Remount`, pods,
nodes, goroutines and faults. Cleanup takes the volume without the busy check, so
neither exclusion nor `IInv` is available. The object may be collected while Cleanup
detaches, and a Stage may create it anew under the same name and put its finalizer on
it, before Cleanup writes "no finalizers". What protects it is only that the copy is
stale by then. The inductive invariant `CopyInv` says that: a Cleanup whose copy is
current holds one of an object that is being deleted. It is kept because a Cleanup starts
with such a copy, a CVA stops being deleted only when a write makes the copy stale, and
no other goroutine turns into a Cleanup (`GoesOn`).

### The handover between nodes

`NodeHandoverProofs` proves what several nodes and their kubelets achieve together, all
with `Remount = FALSE`, each with the weakest assumptions it needs:

| theorem | property | further assumptions |
|---|---|---|
| UnstageReleases | UnstagedLetsGo | none |
| OneNodeMounts | SingleNodeMounted | no overlap, nodes stay ready |
| StagedIsAttached | StagedAttached | no overlap, nodes stay ready, no `logout` |
| PublishedIsVolume | PublishedShowsVolume | no overlap, nodes stay ready, no `damage` |
| HandoverCorrect | HandoverInv | no overlap, nodes stay ready, no `logout`, no `damage` |
| PluginsImplement | ImplementsStaged | no overlap, nodes stay ready, no `damage` |

Why they are needed: with overlap two nodes pass the check before either has created its
CVA (`TwoNodes`); a node that turns unready gets its CVA deleted by another node
although it may still have the volume mounted; a session that is lost, or a mount that
is damaged, makes the statement false without any step of the driver. Crashes, reboots,
kubelet restarts, timeouts, failed calls and lost replies are all allowed, any number
of them.

The argument goes in layers, each inductive given the ones before it:

1. `KubeletInv` (what the kubelet knows fits the call that is served, also when it has
   forgotten that call) and `ReleaseInv` (the node's finalizer is never on a CVA without the staging
   path, so Unstage, which goes by the path, does not miss it).
2. `WantedInv`: without overlap no other node wants the volume while a Stage runs,
   forgotten or not.
3. `ClearedInv` (from the check of the list on, no other node has a CVA) and `RecordInv`
   (nobody deletes the CVA of a Stage that has created it; what is staged stays on
   record, and no Cleanup is at work there). They depend on each other: a Stage on another node
   is the only one that could delete the record, and it goes on only if there is none.
4. `SessionInv` and `ShownInv`, one for each kind of fault left out.

The steps are not taken action by action in each layer. `NodeMoves` summarises a step of
a goroutine once: `Moves` (only it moves, within its handler), what it can do to
the CVAs, to mounts and sessions, and how Stage gets on; `Background` in
`NodeHandoverProofs` summarises the kubelets, the driver process and the
environment. Each layer is then proved from the summaries. The refinement `PluginsImplement` uses the same
layers: `RecordInv` and `ShownInv` give `AnswerStage` its mount, `KubeletInv` says that mounts change only
while the kubelet is unsure, and `OneNodeMounts` that `Mount` finds nothing mounted.

### The controller

For the controller, from `GiBAssumption` (a positive GiB) and `ControllerAssumption`
(positive sizes) alone, for any number of handlers and faults:

* `RoundUpHolds`: `s <= RoundUpGiB(s) * GiB`, whence no byte asked for is lost.
* `ControllerTypes`: `Spec => []TypeOK`; capacities in the CVC are whole GiB of
  sizes that were asked for.
* `ControllerInvariant`: `Spec => []IInv`, and from it `CreateKept`
  (ProvisionedExists) and `ExpandKept` (GrowthReal).
* `ControllerImplements`: `Spec => ImplementsVolume`. `HandlerImplements` and
  `EnvironmentImplements` show that each step is one of `ProvisionedVolume` or a stutter.

An answer becomes known to the sidecar one step after the handler decided on it,
and other handlers, also forgotten ones, run in between. `IInv` therefore says of
every handler that what it is about to answer is true *now*, and keeps being true
because as long as the volume is not given up no delete is under way (a delete
starts only after the claim was given up, which is never taken back) and because
the operator only grows a volume. It also needs that the create a sidecar waits for
was not overtaken by a delete. The refinement needs two more conjuncts: the expand a
sidecar waits for is about a volume that was answered for, and the delete about one
whose deletion was asked for; without them a late answer could be a step the abstract
specification does not have.

### The life of a volume

`VolumeLifeProofs` proves, for any number of goroutines, any requests, nodes and faults:

| theorem | property |
|---|---|
| LifeTypes | TypeOK |
| LifeInductive | IInv |
| CVsAreFound | NoOrphanCV |
| CVCsComplete | OnlyCompleteCVCs |
| DeletionIsReal | DeletedIsDeleted |
| SnapshotsAreReal | SnapshotReal |
| AttachmentsComplete | AttachmentComplete |
| BoundStays | BoundStaysBound |
| VolumeImplements | VolumeSteps |

Assumptions. `LifeAssumption`: a namespace is configured, no node has an empty name.
`RequestsAssumption`: what the API server and the provisioner see to before the driver
is called, and nothing the driver checks itself (a size that is not zero is the
claim's, by Kubernetes validation); a source that is named is `src`, the one other
volume of the model. Whether a request has a name, capabilities, a topology, a numeral
for its replicas, a pool or a second part in its source id is left open.
`StringsAssumption`: `Strings` is any set that holds the strings the driver itself
writes; it is a constant because the provers have no theory of the set of all strings,
and TLC gives it that value.

The layers:

1. `BaseInv`: TypeOK, `HandlerInv` (a handler works on what its call names; the sidecars
   wait for one call about a thing at a time) and `CreateInv` (what CreateVolume has
   checked by each of its calls). Types need both: that `Provision` returns a CVC
   follows from what was validated, setter by setter (`ProvisionBuilds`).
2. `FinalizerInv`: every CVC that is not being deleted has the operator's finalizer, and
   one whose CV exists has it in any case. A patch keeps finalizers because it sends only
   the fields it changed.
3. `AskedInv`: a sidecar that waits knows no more than when it called, and a CVC marked
   for deletion is one whose deletion was asked for. DeleteVolume handlers live on after
   they are forgotten, so this speaks of all handlers and not only of those waited for.
4. `SourceInv`, `StageInv`, `ConfigInv`, `AnswerInv`: what a handler is about to answer is
   true now, and what it has filled in so far is complete.

`VolumeMoves` summarises the steps: `Movement` (a goroutine goes to a place its
handler leads to), `StoreStep` (the ways the CVCs and CVs change: a complete CVC is
posted, one is marked for deletion, grown by a patch, served by the operator, or
released), `SnapStep`, `AttachStep`; `CoMove` in
`VolumeLifeProofs` says what the sidecars learn. `VolumeImplements` maps each of these to a step of
`ProvisionedVolume` or a stutter; a late create that brings a deleted volume back is one
it allows.

### Only model-checked

* Liveness, which TLAPS cannot prove: `OnlyPodServed`, `UnwantedReleased`,
  `DamageRepaired`, `ClaimServed`, `VolumeDeleted`, `SnapshotSettled`.

Every other property of a passing run is stated by a theorem. Of the node service with
the monitor on, `TypeOK` and `CleanupSparesLive` are claimed and no more: `MountRecorded`
and `UnstagedNotMounted` then fail as well, with 3 faults of `error`, `lost`, `timeout`,
`crash` and `offline` on one node, by the race of `CleanupRace`.

## 6. What is not modelled

* The iSCSI attach code of `pkg/iscsi` (`AttachDisk` and its helpers, most of
  `iscsi_util.go`): nothing calls it. The node service attaches through the connector of
  a library, an external step of `StageVolume`.
* Calls that only read: capabilities, node info, statistics, ValidateVolumeCapabilities,
  ControllerGetVolume (whose `CapacityBytes` is `MilliValue`, the thousandfold).
* Dead code: the list builders, the builders of PVs and CStorVolumes, the clients of
  services, namespaces and PVs, `PatchCVCNodeID`, and the setters of the two builders
  nobody calls.
* Payloads, the gRPC server, identity, configuration flags, version and analytics, which
  hold no state of a volume.
* How long a call or a lock is held, and the unlocked read of the transition list for a
  log line (`node.go:257`).

## 7. Plan

1. *Done*: the node service with its environment, safety and liveness runs,
   TypeOK and the inductive invariant.
2. *Done*: `ControllerService` for Create, Delete and Expand, rounding, and its
   proofs; `VolumeLife` with builders, clients, snapshots, clones and the attachment.
3. *Done*: `ProvisionedVolume` and `StagedVolume`, checked for both, the first proved.
4. *Done*: the handover between nodes and the refinement of `StagedVolume`; all safety
   properties and the refinement of `VolumeLife`.
5. *Done*: what Cleanup may not do to a live attachment, with the monitor on.
6. Left: handovers with nodes that turn unready, up to the double mount the target is
   expected to refuse.
