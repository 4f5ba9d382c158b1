-------------------------- MODULE ControllerServer --------------------------
(***************************************************************************)
(* The controller service (pkg/beegfs/controllerserver.go, thread_safe.go) *)
(* as a set of concurrent gRPC handlers, together with the container       *)
(* orchestrator that calls it and the nodes that list themselves in a      *)
(* volume's tracking directory.                                            *)
(*                                                                         *)
(* A handler is a job: the operation, its volume, a control point, the     *)
(* result so far.  Each control point is one call the handler makes: the   *)
(* steps of two handlers interleave, any call may fail, and the process    *)
(* may be restarted between any two calls.  Requests rejected for their    *)
(* arguments change no state and are left out.                             *)
(***************************************************************************)
EXTENDS Naturals, BeegfsUtil

CONSTANTS
    Volumes,            \* volume IDs
    NoVolume,           \* the volume of a free request slot
    Requests,           \* slots for concurrent gRPC requests
    Nodes,              \* node IDs that may appear in a tracking directory
    MountDir,           \* [Volumes -> directories]: csDataDir/sanitizeVolumeID
    Special,            \* volumes whose mode has setuid, setgid or sticky bits
    NodeUnstageTimeout, \* --node-unstage-timeout, in polls of two seconds
    Handlers,           \* operations the orchestrator calls
    Failing,            \* control points at which a call may fail
    SlowAnswers,        \* fate of an answer that took more than a status check
    MaxFaults,          \* bound on failing calls
    MaxRestarts         \* bound on restarts of the process

Ops == {"create", "delete", "validate"}

\* The control points of the three handlers, in the order of the code.
Points == {"obtain", "mkdir", "write", "createDir", "setPattern", "mount",
           "chmod", "nodesDir", "created", "poll", "removeCsi", "removeVol",
           "stat", "list", "unmount", "remove", "deleted", "release"}

ASSUME VolumesAssumption == NoVolume \notin Volumes

\* Injective on the volume IDs in use (module SanitizeVolumeID).
ASSUME MountDirAssumption ==
    \A v, w \in Volumes : MountDir[v] = MountDir[w] => v = w

ASSUME BoundsAssumption ==
    /\ NodeUnstageTimeout \in Nat /\ MaxFaults \in Nat /\ MaxRestarts \in Nat

ASSUME OptionsAssumption ==
    /\ Special \subseteq Volumes
    /\ Handlers \subseteq Ops
    /\ Failing \subseteq Points
    /\ SlowAnswers \subseteq {"delivered", "lost"}

VARIABLES
    locks,    \* volumeIDsInFlight
    status,   \* volumeStatusMap: "none" when the volume has no entry
    job,      \* the handler in each request slot
    host,     \* the directories under csDataDir
    volDir,   \* BeeGFS: what has been done to the volume's directory
    csiDir,   \* BeeGFS: the volume's directory under .csi/volumes
    tracked,  \* BeeGFS: the files in csiDir/nodes
    phase,    \* what the orchestrator wants of the volume
    faults, restarts

beegfs == <<volDir, csiDir, tracked>>
vars == <<locks, status, job, host, volDir, csiDir, tracked, phase,
          faults, restarts>>

Dirs == {MountDir[v] : v \in Volumes}
Features == {"dir", "pattern", "mode"}
Phases == {"create", "use", "delete", "gone"}

Idle == [op |-> "none", vol |-> NoVolume, pc |-> "idle", ok |-> TRUE,
         waited |-> 0]
Jobs == [op : Ops, vol : Volumes, pc : Points, ok : BOOLEAN,
         waited : 0..NodeUnstageTimeout]

\* Every variable stays within the values the code can give it.
TypeOK ==
    /\ locks \subseteq Volumes
    /\ status \in [Volumes -> {"none", "created", "deleted"}]
    /\ job \in [Requests -> Jobs \cup {Idle}]
    /\ host \in [Dirs -> HostDirs]
    /\ volDir \in [Volumes -> SUBSET Features]
    /\ csiDir \in [Volumes -> {"absent", "partial", "nodes"}]
    /\ tracked \in [Volumes -> SUBSET Nodes]
    /\ phase \in [Volumes -> Phases]
    /\ faults \in 0..MaxFaults
    /\ restarts \in 0..MaxRestarts

Init ==
    /\ locks = {}
    /\ status = [v \in Volumes |-> "none"]
    /\ job = [r \in Requests |-> Idle]
    /\ host = [d \in Dirs |-> Absent]
    /\ volDir = [v \in Volumes |-> {}]
    /\ csiDir = [v \in Volumes |-> "absent"]
    /\ tracked = [v \in Volumes |-> {}]
    /\ phase = [v \in Volumes |-> "create"]
    /\ faults = 0 /\ restarts = 0
-----------------------------------------------------------------------------
(***************************************************************************)
(* Control.                                                                *)
(***************************************************************************)
At(r, point) == job[r].pc = point
Dir(r) == MountDir[job[r].vol]

Goto(r, point) == job' = [job EXCEPT ![r].pc = point]

\* A call returns an error: allowed at the points in Failing, MaxFaults times.
CallFails(r) ==
    /\ job[r].pc \in Failing
    /\ faults < MaxFaults
    /\ faults' = faults + 1

\* Mutant of AfterError: the deferred cleanup removes whether or not the
\* unmount succeeded.
AfterErrorRemovesAnyway(r) ==
    CASE job[r].pc \in {"list", "unmount"} -> "remove"
      [] job[r].pc = "remove" /\ job[r].op = "delete" -> "deleted"
      [] job[r].pc = "remove" -> "release"
      [] job[r].op = "validate" -> "remove"
      [] OTHER -> "list"

\* Where an error return leads: to the deferred cleanup of the handler, and
\* from a failed cleanup to what follows it.
AfterCleanup(r) == IF job[r].op = "delete" THEN "deleted" ELSE "release"

AfterError(r) ==
    CASE job[r].pc \in {"list", "unmount", "remove"} -> AfterCleanup(r)
      [] job[r].op = "validate" -> "remove"
      [] OTHER -> "list"

\* Mutant of StillOk: an error of CreateVolume's own calls is dropped too.
StillOkDropsError(r) == job[r].ok /\ job[r].op # "delete"

\* Only DeleteVolume reports a failed cleanup to its caller.
StillOk(r) ==
    /\ job[r].ok
    /\ job[r].op # "delete"
    /\ job[r].pc \in {"list", "unmount", "remove"}

Return(r) ==
    job' = [job EXCEPT ![r].pc = AfterError(r), ![r].ok = StillOk(r)]

\* The orchestrator learns that operation op on volume v has succeeded.
Acknowledge(op, v) ==
    phase' = [phase EXCEPT ![v] =
                 IF op = "create" /\ @ = "create" THEN "use"
                 ELSE IF op = "delete" /\ @ = "delete" THEN "gone"
                 ELSE @]

(***************************************************************************)
(* Arrival of a request.  Create and Delete first read the status map,     *)
(* without the lock, and answer at once if the work is already done.       *)
(* Anything may happen between this check and ObtainLock.                  *)
(***************************************************************************)
Begin(r, op, v) ==
    job' = [job EXCEPT ![r] = [op |-> op, vol |-> v, pc |-> "obtain",
                               ok |-> TRUE, waited |-> 0]]

CreateVolume(r, v) ==
    /\ "create" \in Handlers
    /\ At(r, "idle")
    /\ phase[v] = "create"
    /\ \/ status[v] = "created" /\ Acknowledge("create", v) /\ UNCHANGED job
       \/ status[v] # "created" /\ Begin(r, "create", v) /\ UNCHANGED phase
    /\ UNCHANGED <<locks, status, host, beegfs, faults, restarts>>

DeleteVolume(r, v) ==
    /\ "delete" \in Handlers
    /\ At(r, "idle")
    /\ phase[v] = "delete"
    /\ \/ status[v] = "deleted" /\ Acknowledge("delete", v) /\ UNCHANGED job
       \/ status[v] # "deleted" /\ Begin(r, "delete", v) /\ UNCHANGED phase
    /\ UNCHANGED <<locks, status, host, beegfs, faults, restarts>>

ValidateVolumeCapabilities(r, v) ==
    /\ "validate" \in Handlers
    /\ At(r, "idle")
    /\ Begin(r, "validate", v)
    /\ UNCHANGED <<locks, status, host, beegfs, phase, faults, restarts>>

\* Mutant of ObtainLock: a volume in flight is not refused.
ObtainLockUnchecked(r) ==
    /\ At(r, "obtain")
    /\ locks' = locks \cup {job[r].vol}
    /\ Goto(r, "mkdir")
    /\ UNCHANGED <<status, host, beegfs, phase, faults, restarts>>

\* obtainLockOnString: a volume in flight sends the request back as Aborted.
ObtainLock(r) ==
    /\ At(r, "obtain")
    /\ \/ /\ job[r].vol \notin locks
          /\ locks' = locks \cup {job[r].vol}
          /\ Goto(r, "mkdir")
       \/ /\ job[r].vol \in locks
          /\ job' = [job EXCEPT ![r] = Idle]
          /\ UNCHANGED locks
    /\ UNCHANGED <<status, host, beegfs, phase, faults, restarts>>

(***************************************************************************)
(* Calls that work on mountDirPath.                                        *)
(***************************************************************************)
\* The call's outcome is one of the given ones; on success go to point.
OnHost(r, outcomes, point) ==
    \E o \in outcomes :
        /\ host' = [host EXCEPT ![Dir(r)] = o.host]
        /\ \/ o.ok /\ Goto(r, point) /\ UNCHANGED faults
           \/ ~o.ok /\ CallFails(r) /\ Return(r)

MakeMountDir(r) ==
    /\ At(r, "mkdir")
    /\ OnHost(r, MkdirAll(host[Dir(r)]), "write")
    /\ UNCHANGED <<locks, status, beegfs, phase, restarts>>

WriteClientFiles(r) ==
    /\ At(r, "write")
    /\ OnHost(r, writeClientFiles(host[Dir(r)]),
              CASE job[r].op = "create" -> "createDir"
                [] job[r].op = "delete" -> "mount"
                [] OTHER -> "stat")
    /\ UNCHANGED <<locks, status, beegfs, phase, restarts>>

Mount(r) ==
    /\ At(r, "mount")
    /\ OnHost(r, mountIfNecessary(host[Dir(r)]),
              IF job[r].op = "create" THEN "chmod" ELSE "poll")
    /\ UNCHANGED <<locks, status, beegfs, phase, restarts>>

(***************************************************************************)
(* CreateVolume: calls that change the file system.  A failing command may *)
(* have taken effect before its error was seen.                            *)
(***************************************************************************)
\* The volume's directory gains feature f; on success go to point.
OnVolume(r, f, point) ==
    LET v == job[r].vol
        after == [volDir EXCEPT ![v] = @ \cup {f}]
    IN  \/ volDir' = after /\ Goto(r, point) /\ UNCHANGED faults
        \/ volDir' \in {volDir, after} /\ CallFails(r) /\ Return(r)

CreateDirectory(r) ==
    /\ At(r, "createDir")
    /\ OnVolume(r, "dir", "setPattern")
    /\ UNCHANGED <<locks, status, host, csiDir, tracked, phase, restarts>>

SetPattern(r) ==
    /\ At(r, "setPattern")
    /\ OnVolume(r, "pattern",
                IF job[r].vol \in Special THEN "mount" ELSE "nodesDir")
    /\ UNCHANGED <<locks, status, host, csiDir, tracked, phase, restarts>>

Chmod(r) ==
    /\ At(r, "chmod")
    /\ OnVolume(r, "mode", "nodesDir")
    /\ UNCHANGED <<locks, status, host, csiDir, tracked, phase, restarts>>

\* csiDir/nodes, when tracking is enabled.  A failure is only logged; it may
\* leave the parents of the directory behind, or the directory.
CreateNodesDirectory(r) ==
    LET v == job[r].vol
    IN  /\ At(r, "nodesDir")
        /\ Goto(r, "created")
        /\ \/ NodeUnstageTimeout = 0 /\ UNCHANGED <<csiDir, faults>>
           \/ /\ NodeUnstageTimeout > 0
              /\ csiDir' = [csiDir EXCEPT ![v] = "nodes"]
              /\ UNCHANGED faults
           \/ /\ NodeUnstageTimeout > 0
              /\ CallFails(r)
              /\ csiDir' \in
                   {csiDir,
                    [csiDir EXCEPT ![v] = IF @ = "absent" THEN "partial" ELSE @],
                    [csiDir EXCEPT ![v] = "nodes"]}
        /\ UNCHANGED <<locks, status, host, volDir, tracked, phase, restarts>>

\* Mutant of WriteStatusCreated: the success is not remembered.
WriteStatusCreatedSkipped(r) ==
    /\ At(r, "created")
    /\ Goto(r, "list")
    /\ UNCHANGED <<locks, status, host, beegfs, phase, faults, restarts>>

WriteStatusCreated(r) ==
    /\ At(r, "created")
    /\ status' = [status EXCEPT ![job[r].vol] = "created"]
    /\ Goto(r, "list")
    /\ UNCHANGED <<locks, host, beegfs, phase, faults, restarts>>

(***************************************************************************)
(* DeleteVolume: deleteVolumeUntilWait works through the mount.            *)
(***************************************************************************)
\* Mutants of Poll: the loop does not look at the nodes; the loop sleeps once
\* more when the timeout has passed.
PollIgnoresNodes(r) ==
    /\ At(r, "poll")
    /\ Goto(r, IF csiDir[job[r].vol] = "nodes" THEN "removeCsi" ELSE "removeVol")
    /\ UNCHANGED <<locks, status, host, beegfs, phase, faults, restarts>>

PollOversleeps(r) ==
    LET v == job[r].vol
    IN  /\ At(r, "poll")
        /\ \/ csiDir[v] # "nodes" /\ Goto(r, "removeVol")
           \/ /\ csiDir[v] = "nodes"
              /\ tracked[v] = {} \/ job[r].waited > NodeUnstageTimeout
              /\ Goto(r, "removeCsi")
           \/ /\ csiDir[v] = "nodes" /\ tracked[v] # {}
              /\ job[r].waited <= NodeUnstageTimeout
              /\ job' = [job EXCEPT ![r].waited = @ + 1]
        /\ UNCHANGED <<locks, status, host, beegfs, phase, faults, restarts>>

\* One turn of the loop.  A sleep takes two seconds or more.
Poll(r) ==
    LET v == job[r].vol
    IN  /\ At(r, "poll")
        /\ \/ csiDir[v] # "nodes" /\ Goto(r, "removeVol") /\ UNCHANGED faults
           \/ /\ csiDir[v] = "nodes"
              /\ tracked[v] = {} \/ job[r].waited >= NodeUnstageTimeout
              /\ Goto(r, "removeCsi") /\ UNCHANGED faults
           \/ /\ csiDir[v] = "nodes" /\ tracked[v] # {}
              /\ \E t \in (job[r].waited + 1)..NodeUnstageTimeout :
                     job' = [job EXCEPT ![r].waited = t]
              /\ UNCHANGED faults
           \/ CallFails(r) /\ Return(r)
        /\ UNCHANGED <<locks, status, host, beegfs, phase, restarts>>

\* RemoveAll(csiDirPath): an error may leave any part of it.
RemoveCsiDirectory(r) ==
    LET v == job[r].vol
    IN  /\ At(r, "removeCsi")
        /\ \/ /\ csiDir' = [csiDir EXCEPT ![v] = "absent"]
              /\ tracked' = [tracked EXCEPT ![v] = {}]
              /\ Goto(r, "removeVol") /\ UNCHANGED faults
           \/ /\ CallFails(r) /\ Return(r)
              /\ \/ \E t \in SUBSET tracked[v] :
                       tracked' = [tracked EXCEPT ![v] = t] /\ UNCHANGED csiDir
                 \/ /\ csiDir' = [csiDir EXCEPT ![v] = "partial"]
                    /\ tracked' = [tracked EXCEPT ![v] = {}]
        /\ UNCHANGED <<locks, status, host, volDir, phase, restarts>>

RemoveVolumeDirectory(r) ==
    LET after == [volDir EXCEPT ![job[r].vol] = {}]
    IN  /\ At(r, "removeVol")
        /\ \/ volDir' = after /\ Goto(r, "list") /\ UNCHANGED faults
           \/ volDir' \in {volDir, after} /\ CallFails(r) /\ Return(r)
        /\ UNCHANGED <<locks, status, host, csiDir, tracked, phase, restarts>>

\* ValidateVolumeCapabilities asks beegfs-ctl whether the volume exists.
StatDirectory(r) ==
    /\ At(r, "stat")
    /\ \/ /\ job' = [job EXCEPT ![r].pc = "remove",
                                 ![r].ok = "dir" \in volDir[job[r].vol]]
          /\ UNCHANGED faults
       \/ CallFails(r) /\ Return(r)
    /\ UNCHANGED <<locks, status, host, beegfs, phase, restarts>>

(***************************************************************************)
(* Deferred cleanup, status and lock.                                      *)
(***************************************************************************)
\* mounter.List: the controller's mounts are never bind mounted elsewhere.
ListMounts(r) ==
    /\ At(r, "list")
    /\ \/ Goto(r, "unmount") /\ UNCHANGED faults
       \/ CallFails(r) /\ Return(r)
    /\ UNCHANGED <<locks, status, host, beegfs, phase, restarts>>

Unmount(r) ==
    /\ At(r, "unmount")
    /\ OnHost(r, CleanupMountPoint(host[Dir(r)]), "remove")
    /\ UNCHANGED <<locks, status, beegfs, phase, restarts>>

\* cleanUpIfNecessary.  Through a live mount it empties the file system.
RemoveMountDir(r) ==
    LET h == host[Dir(r)]
    IN  /\ At(r, "remove")
        /\ \/ /\ h.mnt # "mounted"
              /\ OnHost(r, cleanUpIfNecessary(h), AfterCleanup(r))
              /\ UNCHANGED beegfs
           \/ /\ h.mnt = "mounted"
              /\ \E o \in cleanUpIfNecessary(h) :
                     host' = [host EXCEPT ![Dir(r)] = o.host]
              /\ Return(r)
              /\ volDir' = [v \in Volumes |-> {}]
              /\ csiDir' = [v \in Volumes |-> "absent"]
              /\ tracked' = [v \in Volumes |-> {}]
              /\ UNCHANGED faults
        /\ UNCHANGED <<locks, status, phase, restarts>>

\* Mutants of WriteStatusDeleted: recorded after a failure; never recorded.
WriteStatusDeletedAlways(r) ==
    /\ At(r, "deleted")
    /\ status' = [status EXCEPT ![job[r].vol] = "deleted"]
    /\ Goto(r, "release")
    /\ UNCHANGED <<locks, host, beegfs, phase, faults, restarts>>

WriteStatusDeletedSkipped(r) ==
    /\ At(r, "deleted")
    /\ Goto(r, "release")
    /\ UNCHANGED <<locks, status, host, beegfs, phase, faults, restarts>>

\* DeleteVolume records success only if the cleanup succeeded as well.
WriteStatusDeleted(r) ==
    /\ At(r, "deleted")
    /\ status' = IF job[r].ok THEN [status EXCEPT ![job[r].vol] = "deleted"]
                 ELSE status
    /\ Goto(r, "release")
    /\ UNCHANGED <<locks, host, beegfs, phase, faults, restarts>>

\* releaseLockOnString runs last; then the answer is sent.  A caller whose
\* deadline has passed does not see it.
ReleaseLock(r) ==
    /\ At(r, "release")
    /\ locks' = locks \ {job[r].vol}
    /\ job' = [job EXCEPT ![r] = Idle]
    /\ \E a \in SlowAnswers :
           IF a = "delivered" /\ job[r].ok
           THEN Acknowledge(job[r].op, job[r].vol)
           ELSE UNCHANGED phase
    /\ UNCHANGED <<status, host, beegfs, faults, restarts>>

\* The process is restarted: the locks and the status map are in memory, the
\* directories and mounts are on the host.
Restart ==
    /\ restarts < MaxRestarts
    /\ restarts' = restarts + 1
    /\ locks' = {}
    /\ status' = [v \in Volumes |-> "none"]
    /\ job' = [r \in Requests |-> Idle]
    /\ UNCHANGED <<host, beegfs, phase, faults>>
-----------------------------------------------------------------------------
(***************************************************************************)
(* Environment: the orchestrator and the node services.                    *)
(***************************************************************************)
WantDeleted(v) ==
    /\ phase[v] = "use"
    /\ phase' = [phase EXCEPT ![v] = "delete"]
    /\ UNCHANGED <<locks, status, job, host, beegfs, faults, restarts>>

\* A node stages the volume and writes its name, best effort.
TrackNode(n, v) ==
    /\ phase[v] = "use"
    /\ csiDir[v] = "nodes"
    /\ tracked' = [tracked EXCEPT ![v] = @ \cup {n}]
    /\ UNCHANGED <<locks, status, job, host, volDir, csiDir, phase, faults,
                   restarts>>

UntrackNode(n, v) ==
    /\ n \in tracked[v]
    /\ tracked' = [tracked EXCEPT ![v] = @ \ {n}]
    /\ UNCHANGED <<locks, status, job, host, volDir, csiDir, phase, faults,
                   restarts>>
-----------------------------------------------------------------------------
Arrive(r) ==
    \E v \in Volumes : \/ CreateVolume(r, v)
                       \/ DeleteVolume(r, v)
                       \/ ValidateVolumeCapabilities(r, v)

\* The next call of the handler in slot r.
Step(r) ==
    \/ ObtainLock(r)
    \/ MakeMountDir(r) \/ WriteClientFiles(r) \/ Mount(r)
    \/ CreateDirectory(r) \/ SetPattern(r) \/ Chmod(r)
    \/ CreateNodesDirectory(r) \/ WriteStatusCreated(r)
    \/ Poll(r) \/ RemoveCsiDirectory(r) \/ RemoveVolumeDirectory(r)
    \/ StatDirectory(r)
    \/ ListMounts(r) \/ Unmount(r) \/ RemoveMountDir(r)
    \/ WriteStatusDeleted(r) \/ ReleaseLock(r)

Environment ==
    \/ \E v \in Volumes : WantDeleted(v)
    \/ \E n \in Nodes, v \in Volumes : TrackNode(n, v) \/ UntrackNode(n, v)

Next ==
    \/ \E r \in Requests : Arrive(r) \/ Step(r)
    \/ Restart \/ Environment

Spec == Init /\ [][Next]_vars

\* Calls return (Step), and the orchestrator retries until it is answered.
Fairness ==
    /\ \A r \in Requests : WF_vars(Step(r))
    /\ \A v \in Volumes : /\ WF_vars(\E r \in Requests : CreateVolume(r, v))
                          /\ WF_vars(\E r \in Requests : DeleteVolume(r, v))

FairSpec == Spec /\ Fairness
-----------------------------------------------------------------------------
(***************************************************************************)
(* Properties.                                                             *)
(***************************************************************************)
Locked(r) == job[r].pc \notin {"idle", "obtain"}

\* volumeIDsInFlight holds exactly the volumes of the handlers between
\* obtainLockOnString and the deferred releaseLockOnString, one handler each:
\* no Aborted request releases another's lock, and no lock is left behind.
LocksMatchHandlers ==
    /\ locks = {job[r].vol : r \in {q \in Requests : Locked(q)}}
    /\ \A r, q \in Requests :
          Locked(r) /\ Locked(q) /\ job[r].vol = job[q].vol => r = q

\* A handler finds mountDirPath as its own earlier steps left it: the client
\* files are there for beegfs-ctl and mount, and BeeGFS is mounted whenever
\* the handler works on paths below mountPath.
InPlace(r) ==
    LET h == host[Dir(r)]
    IN  /\ At(r, "write") => h.dir
        /\ job[r].pc \in {"createDir", "setPattern", "mount", "stat"} =>
              h.dir /\ h.conf
        /\ job[r].pc \in {"chmod", "poll", "removeCsi", "removeVol"} =>
              h.mnt = "mounted"

FilesInPlace == \A r \in Requests : InPlace(r)

\* cleanUpIfNecessary "deletes all files associated with a beegfsVolume (in
\* vol.mountDirPath) that is not mounted": RemoveAll never runs while BeeGFS
\* is mounted below mountDirPath.
CleanUpOnlyUnmounted ==
    \A r \in Requests : At(r, "remove") => host[Dir(r)].mnt # "mounted"

\* Once the orchestrator has seen CreateVolume succeed, and until it asks for
\* deletion, the directory exists with its stripe pattern and special mode.
Ready(v) ==
    {"dir", "pattern"} \cup (IF v \in Special THEN {"mode"} ELSE {})
        \subseteq volDir[v]

UsableVolumesAreReady == \A v \in Volumes : phase[v] = "use" => Ready(v)

\* "The controller service refuses to delete a volume until either this
\* directory is empty or --node-unstage-timeout is exceeded": while a node is
\* tracked, the tracking directory and the volume are removed only by a
\* handler that has waited for the whole timeout.
WaitedFor(v) ==
    \E r \in Requests :
        /\ job[r].op = "delete" /\ job[r].vol = v
        /\ job[r].waited >= NodeUnstageTimeout

RemovalWaitsForNodes ==
    [][\A v \in Volumes :
          /\ tracked[v] # {}
          /\ csiDir'[v] # csiDir[v] \/ volDir'[v] # volDir[v]
          /\ phase[v] = "delete"
          => WaitedFor(v)]_vars

\* Even if every answer but that of the status check comes after its caller's
\* deadline, the orchestrator eventually sees CreateVolume succeed.
CreateConverges == \A v \in Volumes : phase[v] = "create" ~> phase[v] # "create"

\* The same for DeleteVolume, whether or not the nodes ever unstage.
DeleteConverges == \A v \in Volumes : phase[v] = "delete" ~> phase[v] = "gone"
=============================================================================
