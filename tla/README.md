# A TLA+ model of the BeeGFS CSI driver

The BeeGFS CSI driver lets a container orchestrator use directories of BeeGFS
file systems as volumes. This directory holds TLA+ modules translated from its
Go source, TLC configurations that check them on small instances, and proofs
that TLAPS checks for every value of the constants.

## The system

| Part | Source | What it does | Model |
|---|---|---|---|
| Controller service | `pkg/beegfs/controllerserver.go` | creates and deletes volumes: writes client files to a directory of its own, calls beegfs-ctl, mounts BeeGFS when it must, cleans up | `ControllerServer`, `VolumeHistory`; `VolumeLife` is what it promises |
| Locks and status map | `pkg/beegfs/thread_safe.go` | one request per volume ID at a time; remembers created and deleted volumes | `ControllerServer` (`locks`, `status`) |
| Node service | `pkg/beegfs/nodeserver.go` | mounts a volume below a staging directory and bind mounts it to target paths; lists the node in the volume's tracking directory | `NodeServer` |
| Mount and cleanup helpers | `pkg/beegfs/beegfs_util.go` | client files, mount, unmount, RemoveAll, names of directories | `BeegfsUtil`, `ClientFiles`, `NodeServer`, `SanitizeVolumeID` |
| Plugin configuration | `pkg/beegfs/config.go` | merges default, file system and node specific configuration | `PluginConfig` |
| beegfs-ctl executors | `pkg/beegfs/beegfs_ctl.go` | detect the version, create directories, stat, set patterns | `BeegfsCtl`; elsewhere one call that may fail |
| Request parameters | `controllerserver.go`, `beegfs.go` | validation, access modes | `RequestParams` |
| Both services on one BeeGFS | `controllerserver.go`, `nodeserver.go` | the tracking directory between them | `CSISystem` |
| Operator | `operator/controllers` | reconciles a BeegfsDriver resource with the objects of the cluster | `BeegfsDriverReconciler` |
| gRPC server, identity service, main programs, chwrap, manifests | `server.go`, `identityserver.go`, `cmd/`, `deploy/` | wiring and I/O without state of their own | not modelled |

The parts meet in three places. The orchestrator calls both services, and
repeats a call that failed or was not answered in time. The controller creates
`.csi/volumes/<volume>/nodes` next to a volume; nodes write and remove files
there; `DeleteVolume` waits until it is empty or a timeout has passed. And all
handlers of a service share the host's directories and mounts.

## Modules

**`BeegfsUtil`** describes the controller's directory for one volume
(`mountDirPath`: does it exist, are the client files in it, what is at
`mountPath`) and gives each helper as its set of outcomes, errors and what they
leave behind included.

**`ControllerServer`** has one request slot per concurrent gRPC request. A
handler is a record of its operation, volume, control point, result so far and
time waited; each control point is one call of the Go code, in the order of the
code, so handlers interleave between any two calls.

| State | Code |
|---|---|
| `locks`, `status` | `volumeIDsInFlight`, `volumeStatusMap` (lost by `Restart`) |
| `host` | the directories below `csDataDir` (kept by `Restart`) |
| `volDir`, `csiDir`, `tracked` | in BeeGFS: the volume, `.csi/volumes/<volume>`, the files in its `nodes` directory |
| `phase` | what the orchestrator wants and has been told |
| `job` | the handlers |

`CallFails` lets any call at a point of `Failing` return an error, up to
`MaxFaults` times. An error leads to the deferred cleanup of the handler, as
the Go `defer` statements do (`AfterError`, `StillOk`). An answer may come
after its caller's deadline (`SlowAnswers`). Any number of steps may fall
between the unlocked read of the status map and the lock.

**`NodeServer`** models the node services in the same way, without lock and
memory. A place is a volume on a node; `staged` is its staging directory,
`bound` its bind mounts. Mounts are counted, since mounting twice on one path
stacks. `want` and `publish` are what the orchestrator's agent wants of a place
and of a target path. With `Overlap` the agent may give up on a call and issue
another while the first still runs; two such calls can stack mounts.

**`VolumeLife`** is what CreateVolume and DeleteVolume promise, without
handlers, locks, mounts or failures: the data of a volume is built, offered,
retired, removed, and does not come back. The promise has one exception, which
the code does not rule out: the status map is read before the lock is taken
(`controllerserver.go:127` and `136`, `224` and `229`) and not again. A
CreateVolume that is delayed in between until another has created the volume
and deletion is wanted builds it again; a DeleteVolume that is delayed until
the deletion is recorded mounts BeeGFS again, and may leave the mount.
**`VolumeHistory`** adds a history variable to `ControllerServer`: `late` holds
the volumes whose lock such an overtaken request has taken. It restricts no
step. `DeletedVolumesAreGone` speaks of the other volumes, and `VolumeLife` has
the steps `Overtake` and `Stray` for these. `ControllerServer` implements
`VolumeLife` with `want <- phase` and `data <- DataOf` (none, part or all of
what was asked for); retries, late answers, cleanups and restarts are
stuttering steps.

**`CSISystem`** composes the two services. The variables `volDir`, `csiDir` and
`tracked` are shared; a node sees whether the directories are there. The
orchestrator stages a volume only while it is in use and does not delete one
that is being staged (`Settled`), but may delete one that is still published,
as `docs/troubleshooting.md` describes. The node services take the place of the
environment actions `TrackNode` and `UntrackNode`, and `ImplementsControllerServer`
says that they are such an environment.

**`BeegfsCtl`** opens up the calls of CreateVolume. `entries` holds the
permissions of every directory of BeeGFS, `disk` the client files; `call` is
the step of the dispatcher, which finds out the version again for every call
(`ListV8`, `ListV7`), stats the directory and creates its parents one by one.
BeeGFS may be upgraded, and others may create parents, between any two
commands. The calls it does not open are taken from `ControllerServer`, whose
specification is its refinement target (`ImplementsController`): `volDir` and
`csiDir` are computed from `entries` and `patterned`. **`ClientFiles`** is
writeClientFiles: the template, the loop over a Go map in any order, the
optional files, and what an error leaves on disk. **`RequestParams`** is the
validation of parameters and the conversions between access modes.

**`SanitizeVolumeID`** models the name of a volume's directory on the
controller, over all IDs of bounded length. The controller locks IDs but works
in directories, so `ControllerServer` assumes that different IDs have different
directories (`MountDirAssumption`). The runs `controller_all` and
`controller_orphan` take their directories from `sanitizeVolumeID`; names play
no part in the others, which take some injective function. The
assumption is sure to hold only for IDs in which no path
component begins or ends with an underscore: `h/x/_y` and `h/x_/y` share the
name `h_x___y`. `LockedDirIsOwn` compares the volume of the instance with every
other ID up to the bound, not every pair of IDs. That names are single
components of at most `MaxName` characters (`NamesFit`) is a fact about
constants, which TLC evaluates as an ASSUME of `MCControllerServer`.

**`PluginConfig`** models the start of the driver: a configuration file with a
default, file system specific and node specific parts is merged, validated and
stripped (`OverwriteDefault` to `ValidateAndStrip`), then secrets and
certificates are added. The states end in a running driver, a refused
configuration or a panic. Every layer sets an option to a value of its own, so
the value that `squashConfigForSysMgmtdHost` finds tells which layer won.

**`BeegfsDriverReconciler`** models the operator. `cr` and `obj` are the
BeegfsDriver and the deployed objects on the API server, `seen` and `cache` the
operator's cached copies, which follow by steps of their own (`SyncDriver`,
`SyncObject`) and queue a reconciliation for the kinds that `SetupWithManager`
watches. `rec` is the reconciliation in progress, with the BeegfsDriver and the
workloads it has read and the versions it has collected. A step is a cached
read with the write that follows from it. A write of the BeegfsDriver succeeds
only if the copy is the latest (`fresh`); a Create fails if the object exists,
an Update if it does not, and an Update of most RBAC kinds always, as the
operator's role does not allow it. An answer may be lost after the write.
Objects are kinds: `Order` lists those deployed and their order. Versions are
only compared, so a write takes a version that nothing remembers.

The theorems are in modules that extend these: **`ControllerServerProofs`**,
**`ControllerServerReady`** and **`ControllerServerLife`**,
**`NodeServerProofs`** and **`NodeServerTypes`**, **`CSISystemProofs`**,
**`BeegfsCtlProofs`** and **`BeegfsDriverReconcilerProofs`**.

Modules named `MC...` instantiate the others for TLC. Operators called mutants
in the modules are wrong versions of a definition that the properties are tried
against; nothing else uses them.

## Runs

| Run | Instance | Shows |
|---|---|---|
| `controller_races` | 1 volume, 3 requests creating and deleting, 1 node, timeout 2, 2 faults, 1 restart, stale status checks, fair | `TypeOK`, `CleanUpOnlyUnmounted`, `UsableVolumesAreReady`, `FilesInPlace`, `DeletedVolumesAreGone`, `RemovalWaitsForNodes`, `ImplementsVolumeLife`, `CreateConverges`, `DeleteConverges` |
| `controller_all` | 1 volume, 3 requests, all handlers, 1 node listing itself, every call may fail; IDs of up to 7 characters, names of up to 8 | `LocksMatchHandlers`, `FilesInPlace`, `LockedDirIsOwn` |
| `controller_orphan` | 1 volume, 2 requests, all handlers, tracking disabled, 1 fault, 1 restart | **violation** of `CleanUpOnlyUnmounted` |
| `node_serial` | 1 node, 2 targets, 3 requests, no overlap, 2 faults, 1 restart, fair | `TypeOK`, `PublishedIsMounted`, `UnstagedIsClean`, `CleanUpOnlyUnmounted`, `NoStackedMounts`, `StagedIsTracked`, `StageConverges`, `TeardownConverges` |
| `node_late` | 1 target, 2 requests, overlapping calls, no fault | **violation** of `UnmountOnlyUnbound` |
| `creation` | 3 volumes (special mode and pattern, defaults, a mode of 13 bits), 1 request, 2 configurations, BeeGFS 7 and 8, 2 mishaps, fair | `PermissionsAsRequested`, `CommandsFindTheirFiles`, `ImplementsController`, `CreatesAcrossUpgrades` |
| `system` | 1 volume, 2 nodes, 1 target, 1 request on each side, 1 fault and 1 restart on each side | `PublishedIsUsable`, `CleanUpSparesVolumes`, `ImplementsControllerServer`, `DeletionWaitsForPods` |
| `config` | 2 file systems, up to 2 file system and 2 node specific parts, files of 2 secrets and 2 certificates for any of the file systems; one port or host may be invalid | `LowerInFileWins`, `NoInvalidValueIsUsed`, `SecretsReachTheirHost` |
| `config_precedence` | 2 file systems, up to 1 file system and 1 node specific part | **violation** of `DocumentedPrecedence` |
| `config_optional` | 2 file systems, up to 1 file system and 1 node specific part; a part may leave out `beegfsClientConf` | **violation** of `StartsWithoutPanic` |
| `operator` | Config Map, Cluster Role, Stateful Set; 2 events | `TypeOK`, `ClusterObjectsHaveFinalizer`, `QuietIsDeployed` |
| `operator_converges` | Secret, Role, Stateful Set; 1 event, fair | `QuietIsDeployed`, `EventuallyDeployed`, `EventuallyUninstalled` |

### Bounds

Handlers of different volumes share only the lock set, the status map and (in
the violation) the file system, so one volume with three requests shows the
races; that handlers of several volumes do not disturb each other is part of
what is proved below. Three requests are a running handler, a
retry that is refused and a late one that starts when the first has ended. Two
faults are an error and a second one in the cleanup it leads to; one restart
meets every combination of an interrupted handler and its successor, because
the state a restart leaves is the state of the host. A timeout of two polls has
a first, a middle and a last turn of the loop; the loop only asks whether the
list of nodes is empty, which one node decides. A timeout of zero disables
tracking: only `controller_orphan` runs so, and the proofs about the controller
hold for every timeout. IDs of seven characters contain
two separators with underscores on both sides of each, and a name limit of
eight is passed by some and not by others. Two file systems and two node
specific parts are what is needed for a later part to overwrite an earlier one
for the same file system and leave another alone; two secrets are what is
needed for one to reach a host and the other not, or to come second there.

In `creation`, one of the three volumes is asked for, by one request at a time:
the lock keeps other requests of the volume away (`controller_races`), and
requests of other volumes are among the others who make parents. A mishap is a
failing command or a restart; two are one in a command and one in the cleanup
or the next attempt. In `system`, one request on each side interleaves a
handler of the controller with one of a node; two nodes are needed for one to
leave the list while the other is still on it. Failures at the points the wait
rests on are included, with two exceptions. A tracking file that cannot be
written is only logged, so `track` does not fail. And a RemoveAll of the
tracking directory that fails half way does so after the wait, but the next
DeleteVolume has not itself waited, so `removeCsi` does not fail either.
`DeletionWaitsForPods` would not hold with them.

For the operator, an event is an edit of the BeegfsDriver, the Config Map, a
Secret or a Cluster Role, a change of the pods' state, a failing call or a lost
answer, a restart, or the creation of a BeegfsDriver after an earlier one was
deleted. Two of them are an edit and a failure while it is carried out, or an
edit before or after a new creation. One object of each treatment is deployed:
objects of one kind do not depend on each other, and a workload reads only the
versions of the Config Map and the Secrets.

### Fairness

`controller_races`, `node_serial` and `creation` assume weak fairness of the steps of
a running handler (every call returns) and of the orchestrator's calls (it
retries until it is told of success, as the CSI sidecars and the kubelet do).
Nothing is assumed about nodes unstaging, about restarts, or about which answer
is lost. `operator_converges` assumes it of the worker, of the watches, of the
garbage collector and of the manager's periodic resynchronisation; without the
last, TLC finds that `EventuallyDeployed` fails: a Role of a deleted
BeegfsDriver is taken for deployed by the next one and then collected, which
nothing notices, since Roles are not watched. The operator's `main.go` leaves
the period at the library's default.

Deadlock is not checked for `ControllerServer`, `CSISystem`, `BeegfsCtl`,
`PluginConfig` and `BeegfsDriverReconciler`, which may stop when every volume is gone, the input
is worked off or nothing is left to reconcile. It is checked for `NodeServer`.

## Proofs

The theorems hold for any sets of volumes, requests, nodes and targets, any
timeout, any number of faults and restarts. They rest on the assumptions that
the modules name, and on what a theorem itself assumes. The assumptions say
that constants have their types (`BoundsAssumption`, `OptionsAssumption`,
`NodeOptionsAssumption`, `NodeAssumption`, `ParametersAssumption`,
`SpecsAssumption`), that values standing for nothing are apart
(`VolumesAssumption`, `NoTargetAssumption`), that different volumes have
different mountDirPaths (`MountDirAssumption`, `CtrlAssumption`; `LockedDirIsOwn`
is the check of it) and no directory of one volume lies in another's
(`PathsAssumption`), that tracking is enabled where its directory is made
(`TrackingAssumption`), and that the operator deploys each object once, the
workloads after the objects whose versions they carry (`OrderAssumption`).

Controller service:

* `TypeCorrect`: `[]TypeOK`, which is inductive.
* `MutualExclusion`: `[]LocksMatchHandlers`. Every step of a handler either
  leaves the set of locked handlers alone (`Advances`) or is one of
  `ObtainLock`, `ReleaseLock`, `Restart`.
* `HandlersFindTheirFiles`: `[]FilesInPlace`. What a handler's calls have made
  in mountDirPath stays: mutual exclusion keeps other handlers of the volume
  away, `MountDirAssumption` those of other volumes.
* `CleanUpIsSafe`: without ValidateVolumeCapabilities,
  `[]CleanUpOnlyUnmounted`. The cleanup is reached only through a successful
  unmount.
* `UsableIsReady`: under the same assumption, `[]UsableVolumesAreReady`. The
  inductive invariant `ReadyInv` says that a running creation has done what its
  control point implies, that a remembered status is backed by the directory,
  and that a deletion runs only for a volume whose deletion is wanted.
* `DeletionWaits`: under the same assumption, `RemovalWaitsForNodes`. Its
  invariant relates the control point of a deletion to the time it has waited
  and to the list of nodes.
* `DeletionIsComplete` and `LifeImplemented`: under the same assumption,
  `[]DeletedVolumesAreGone` and `ImplementsVolumeLife` of `HistorySpec`, which
  is `Spec` with the history variable. Their invariant `LifeInv` says what a
  deletion has removed at each point and, for volumes that are not in `late`,
  that a creation works on a volume whose creation is wanted or adds nothing to
  a complete one, that a volume recorded or acknowledged as deleted has nothing
  left, and that a handler that holds its lock has only to release it. Every
  action maps to one step of `VolumeLife` or to none. What may remain of a
  deleted volume is a `.csi/volumes/<volume>` without nodes, which
  deleteVolumeUntilWait does not remove.

ValidateVolumeCapabilities has to be excluded: `controller_orphan` is the
counterexample.

Node service, if calls for one path do not overlap: `PublishedTargetsWork`,
`UnstageLeavesNothing`, `CleanUpSparesTheFileSystem`, `UnmountIsSafe`,
`MountsNeverStack`, and `StagedNodesAreListed` (if the tracking file can be
written). They follow from one inductive invariant, `NodeInv`: one handler per
path (`OnePerPath`), which the agent still waits for or has turned away from
(`Attended`), whose calls have done what its control point implies
(`Established`), and whose acknowledged results are there (`AsSeen`). The
properties alone are not inductive: they do not say what a handler that is half
way has seen. `node_late` shows that the assumption is needed.

`NodeTypesKept`, `[]TypeOK`, holds for overlapping calls too, if the requests
are finitely many. Types alone are not inductive here, for `TypeOK` bounds the
mounts that may be stacked on a path. `Stacks` is: the mounts of a path and the
handlers that have found it unmounted and are about to mount are together never
more than the requests.

Composed system: `SystemImplementsController` (the refinement),
`NodesSpareVolumes`, and `PodsSeeTheirVolume` (without
ValidateVolumeCapabilities). The invariant `SystemInv` joins `TypeOK`, `NodeInv`
of an instance of the node proofs, and `StagedInUse`: a node stages only
volumes in use, which is why its entry in the list is a `TrackNode` step. In
that instance `track` may fail, so that `NodeInv` says nothing of the list,
which the controller changes here step by step. `PodsSeeTheirVolume` combines
`UsableIsReady`, through the refinement, with `NodeInv`.

`DeletionSparesPods` (`DeletionWaitsForPods`) needs the list, and so a second
instance in which `track` does not fail. Its invariant `ListInv` adds to
`NodeInv` there that nobody has staged a volume that is not created
(`Unused`), and that a handler that still creates a volume works on one whose
creation is wanted (`CreatingIsNew`): a CreateVolume would otherwise make
csiDir/nodes anew, empty, under nodes that have staged the volume. With the
invariant of `DeletionWaits` it follows that a node with a bind mount is listed
while csiDir/nodes is there. The theorem assumes what that takes: no
ValidateVolumeCapabilities; no failure of the controller's removal of csiDir
(which may leave the directory without the list) or of a node's tracking file,
which is written on a best-effort basis; and `CheckHolds`, that a CreateVolume
takes the lock only if nobody has created the volume since its status check.
The code does not see to the last. Run `system` has one request at a time on the
controller, which sees to it there.

Commands of CreateVolume: `PermissionsGranted` (`[]PermissionsAsRequested`) and
`CommandsImplementCalls` (`ImplementsController`), proved together: the mapping
shows `ControllerServer` that a directory has its mode only if it is the one
asked for. Their invariant `CtlInv` says that a pending call is one of a
handler's own control point with directories of its own path left to make
(`CallsFit`), that only one volume is asked for (`OnlyAsked`), that its
directory, once there, has the mode asked for or the one that beegfs-ctl makes
of it, the former from the chmod on (`Permitted`), and that there is a
beegfs-client.conf where `ControllerServer` says so (`DiskFits`). Lemmas on the
operators: the twelve bits survive `os.FileMode` and back (`ModeSurvives`), and
parameters that pass `validateReqParams` ask for no more bits (`ValidModes`).

Operator: `OperatorTypes` (`[]TypeOK`), `FinalizerGuards`
(`[]ClusterObjectsHaveFinalizer`) and `WatchesSuffice` (`[]QuietIsDeployed`),
for every order of objects, any specs and any number of edits. The inductive
invariant `OperatorInv` says what a copy of the BeegfsDriver still tells about
the one on the server (`Copies`), that whoever may deploy has a copy with the
finalizer and that the finalizer goes only after the cluster-scoped objects
(`Finalized`), that only a Secret can be without an owner (`OwnersKept`), and,
for a reconciliation that no event is going to repeat, that each object it has
passed is as it should be in the cache or differs from the server there, so
that an event is still to come (`Settled`). Ten versions are enough for any
instance: at most nine are remembered when a write needs another.

Model-checked only:

* the liveness properties `CreateConverges`, `DeleteConverges`,
  `StageConverges`, `TeardownConverges`, `CreatesAcrossUpgrades`,
  `EventuallyDeployed` and `EventuallyUninstalled`: fairness and ENABLED are
  beyond the prover;
* `CommandsFindTheirFiles`: the options of a configuration are written in a
  loop over a map, and what is left of it is a matter of induction over data;
* `LowerInFileWins`, `NoInvalidValueIsUsed` and `SecretsReachTheirHost` of
  `PluginConfig`, for the same reason: the layers are folded;
* `LockedDirIsOwn`: `sanitizeVolumeID` is a recursion over text.

## Findings

1. `controller_orphan`: `ValidateVolumeCapabilities` removes `mountDirPath`
   without unmounting (`controllerserver.go:318`). If an earlier request left
   BeeGFS mounted there, the removal goes through the mount.
2. `node_late`: `unmountAndCleanUpIfNecessary` lists the mounts and then
   unmounts (`beegfs_util.go:349`, `378`); a bind in between is not noticed.
3. `config_optional`: `overWriteBeegfsConfig` writes into a map that is nil when
   the outer configuration has no `beegfsClientConf` (`config.go:308`); such a
   file is allowed by `docs/deployment.md:537`.
4. `config_precedence`: a file system specific option wins over a node specific
   default, which `config.go:85` writes over the default only, against
   `docs/deployment.md:530-531` and the comment at
   `operator/api/v1/beegfsdriver_types.go:251`. For parts of one kind the
   documented rule, the lower one wins, does hold (`LowerInFileWins`).

Three divergences have no run of their own:

* A request that is delayed between its status check and its lock, as described
  under `VolumeLife`: CreateVolume builds a volume that is already deleted. In
  the model, `ObtainLock` of a volume that is then in `late`;
  `DeletedVolumesAreGone` without the exception is violated.
* `NodeUnstageVolume` removes the tracking file before the unmount
  (`nodeserver.go:272`), so a node whose unmount fails is mounted and not
  listed, against `docs/troubleshooting.md:154`. In the model, `Untrack`
  followed by a failing `Unmount`.
* validateReqParams deletes from the map it is given, so the parameters that
  ValidateVolumeCapabilities confirms (`controllerserver.go:345`) are empty.

## What is not modelled

Requests rejected for anything but their parameters (they change no state).
Paths as text: the check for bind mounts (`beegfs_util.go:366`) is modelled as
exact. Several orchestrators, or one that reuses the name of a volume while its
deletion is being retried. Sha1 is assumed free of collisions. The wait of
DeleteVolume has no width: `time.Duration(waitTime)*time.Second`
(`controllerserver.go:545`) overflows for a timeout of centuries.

Mount options, SELinux contexts, kernel module checks and the choice of a UDP
port only make arguments of commands; that a port is taken meanwhile is a
failing mount. A configuration that sets connMgmtdPort and a deprecated port
key, or an empty port, gives a client file that depends on the order of the
map; no instance of `ClientFiles` has one. The commands of BeeGFS themselves
succeed, or fail with or without effect.

The identity service, the gRPC server, the main programs, chwrap and the
parsing of the manifests have no state that a step could get wrong: constant
answers, wiring, one goroutine per request (the request slots of the models).
The generated deep copies have none either.

Of the operator: more than one BeegfsDriver, a change of the deployment
manifests (an upgrade), finalizers of others, and the intermediate versions a
cache passes through. `WorkloadIsAsSpecified` leaves out a node affinity or a
limit that the BeegfsDriver no longer sets: `DeepDerivative` does not compare
empty fields, so the old one stays. Nobody edits the RBAC objects that the
operator may not update.
