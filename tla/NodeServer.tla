----------------------------- MODULE NodeServer -----------------------------
(***************************************************************************)
(* The node services (pkg/beegfs/nodeserver.go, with the helpers of        *)
(* beegfs_util.go they call) and the orchestrator's agent on each node.    *)
(*                                                                         *)
(* A place is a volume on a node: one staging directory, one BeeGFS mount  *)
(* below it, and a bind mount for each target path.  The service has no    *)
(* lock and no memory, so a handler is only a control point; each point is *)
(* one call that reads or changes the host or the file system.  Requests   *)
(* rejected for their arguments change no state and are left out.          *)
(***************************************************************************)
EXTENDS Naturals, FiniteSets

CONSTANTS
    Volumes, Nodes,
    Targets,     \* target paths on a node
    NoTarget,    \* the target of a Stage or Unstage request
    Requests,    \* slots for concurrent gRPC requests
    Overlap,     \* TRUE: the agent may call again while a call still runs
    Tracking,    \* TRUE: CreateVolume made the directory csiDir/nodes
    Failing,     \* control points at which a call may fail
    MaxFaults,   \* bound on failing calls
    MaxRestarts  \* bound on restarts of a node service

Points == {"statDir", "write", "ctl", "isMnt", "mount", "track",
           "untrack", "list", "unmount", "clean",
           "pubCtl", "isBound", "bind", "unbind", "answer"}

ASSUME NoTargetAssumption == NoTarget \notin Targets
ASSUME NodeOptionsAssumption ==
    /\ Overlap \in BOOLEAN /\ Tracking \in BOOLEAN
    /\ Failing \subseteq Points
    /\ MaxFaults \in Nat /\ MaxRestarts \in Nat

VARIABLES
    job,      \* the handler in each request slot
    staged,   \* the staging directory of each place
    bound,    \* bind mounts of each place on each target path
    want,     \* what the agent wants of each place: Stage, Unstage
    publish,  \* what it wants of each target: Publish, Unpublish
    volDir,   \* BeeGFS: does the volume's directory exist
    csiDir,   \* BeeGFS: does csiDir/nodes exist
    tracked,  \* BeeGFS: the files in csiDir/nodes
    faults, restarts

beegfs == <<volDir, csiDir, tracked>>
agent == <<want, publish>>
vars == <<job, staged, bound, want, publish, volDir, csiDir, tracked,
          faults, restarts>>

Places == Nodes \X Volumes
NodeOf(p) == p[1]
VolumeOf(p) == p[2]

Ops == {"stage", "unstage", "publish", "unpublish"}
Mounts == 0..Cardinality(Requests)

\* heard: the agent still waits for the answer.
Jobs == [op : Ops, place : Places, target : Targets \cup {NoTarget},
         pc : Points, ok : BOOLEAN, heard : BOOLEAN]
Idle == [pc |-> "idle"]

\* Every variable stays within its values; mounts stack no higher than the
\* number of handlers that can be between the check and the mount.
TypeOK ==
    /\ job \in [Requests -> Jobs \cup {Idle}]
    /\ staged \in [Places -> [dir : BOOLEAN, conf : BOOLEAN, mounts : Mounts]]
    /\ bound \in [Places -> [Targets -> Mounts]]
    /\ want \in [Places -> {"unstaged", "staging", "staged", "unstaging"}]
    /\ publish \in [Places -> [Targets ->
          {"absent", "publishing", "published", "unpublishing"}]]
    /\ volDir \in [Volumes -> BOOLEAN]
    /\ csiDir \in [Volumes -> BOOLEAN]
    /\ tracked \in [Volumes -> SUBSET Nodes]
    /\ faults \in 0..MaxFaults
    /\ restarts \in 0..MaxRestarts

Init ==
    /\ job = [r \in Requests |-> Idle]
    /\ staged = [p \in Places |-> [dir |-> FALSE, conf |-> FALSE, mounts |-> 0]]
    /\ bound = [p \in Places |-> [t \in Targets |-> 0]]
    /\ want = [p \in Places |-> "unstaged"]
    /\ publish = [p \in Places |-> [t \in Targets |-> "absent"]]
    /\ volDir = [v \in Volumes |-> TRUE]
    /\ csiDir = [v \in Volumes |-> Tracking]
    /\ tracked = [v \in Volumes |-> {}]
    /\ faults = 0 /\ restarts = 0
-----------------------------------------------------------------------------
(***************************************************************************)
(* Control.                                                                *)
(***************************************************************************)
At(r, point) == job[r].pc = point
Place(r) == job[r].place
Volume(r) == VolumeOf(job[r].place)

Goto(r, point) == job' = [job EXCEPT ![r].pc = point]
Success(r) == Goto(r, "answer")
Failure(r) == job' = [job EXCEPT ![r].pc = "answer", ![r].ok = FALSE]

\* A call returns an error: allowed at the points in Failing, MaxFaults times.
CallFails(r) ==
    /\ job[r].pc \in Failing
    /\ faults < MaxFaults
    /\ faults' = faults + 1

\* The paths below mountPath are those of BeeGFS while it is mounted there.
Mounted(p) == staged[p].mounts > 0

(***************************************************************************)
(* Arrival.  A call gives up an earlier one for the same path.             *)
(***************************************************************************)
Running(p, t) == {r \in Requests : job[r].pc # "idle" /\ job[r].place = p
                                                     /\ job[r].target = t}

Begin(r, op, p, t, point) ==
    /\ At(r, "idle")
    /\ Overlap \/ Running(p, t) = {}
    /\ job' = [q \in Requests |->
                 IF q = r
                 THEN [op |-> op, place |-> p, target |-> t, pc |-> point,
                       ok |-> TRUE, heard |-> TRUE]
                 ELSE IF q \in Running(p, t) THEN [job[q] EXCEPT !.heard = FALSE]
                 ELSE job[q]]
    /\ UNCHANGED <<staged, bound, agent, beegfs, faults, restarts>>

NodeStageVolume(r, p) ==
    want[p] = "staging" /\ Begin(r, "stage", p, NoTarget, "statDir")

NodeUnstageVolume(r, p) ==
    want[p] = "unstaging" /\ Begin(r, "unstage", p, NoTarget, "untrack")

NodePublishVolume(r, p, t) ==
    publish[p][t] = "publishing" /\ Begin(r, "publish", p, t, "pubCtl")

NodeUnpublishVolume(r, p, t) ==
    publish[p][t] = "unpublishing" /\ Begin(r, "unpublish", p, t, "unbind")

(***************************************************************************)
(* NodeStageVolume.                                                        *)
(***************************************************************************)
StatStagingDir(r) ==
    /\ At(r, "statDir")
    /\ \/ staged[Place(r)].dir /\ Goto(r, "write") /\ UNCHANGED faults
       \/ ~staged[Place(r)].dir /\ Failure(r) /\ UNCHANGED faults
       \/ CallFails(r) /\ Failure(r)
    /\ UNCHANGED <<staged, bound, agent, beegfs, restarts>>

\* beegfs-client.conf is written last: an error leaves the old one, or a
\* truncated one that counts as none.
WriteClientFiles(r) ==
    LET p == Place(r)
    IN  /\ At(r, "write")
        /\ \/ /\ staged[p].dir
              /\ staged' = [staged EXCEPT ![p].conf = TRUE]
              /\ Goto(r, "ctl") /\ UNCHANGED faults
           \/ ~staged[p].dir /\ Failure(r) /\ UNCHANGED <<staged, faults>>
           \/ /\ CallFails(r) /\ Failure(r)
              /\ staged' \in {staged, [staged EXCEPT ![p].conf = FALSE]}
        /\ UNCHANGED <<bound, agent, beegfs, restarts>>

\* beegfs-ctl works with the client files and finds the volume, or fails.
StatDirectory(r) ==
    LET found == staged[Place(r)].conf /\ volDir[Volume(r)]
    IN  /\ \/ At(r, "ctl") /\ found /\ Goto(r, "isMnt") /\ UNCHANGED faults
           \/ At(r, "pubCtl") /\ found /\ Goto(r, "isBound") /\ UNCHANGED faults
           \/ /\ At(r, "ctl") \/ At(r, "pubCtl")
              /\ ~found /\ Failure(r) /\ UNCHANGED faults
           \/ /\ At(r, "ctl") \/ At(r, "pubCtl")
              /\ CallFails(r) /\ Failure(r)
        /\ UNCHANGED <<staged, bound, agent, beegfs, restarts>>

\* Mutants of IsLikelyNotMountPoint: it is not consulted; a mounted BeeGFS is
\* an error; a mounted BeeGFS ends the request.
MountAlways(r) ==
    /\ At(r, "isMnt") /\ Goto(r, "mount")
    /\ UNCHANGED <<staged, bound, agent, beegfs, faults, restarts>>

MountedIsAnError(r) ==
    /\ At(r, "isMnt")
    /\ IF Mounted(Place(r)) THEN Failure(r) ELSE Goto(r, "mount")
    /\ UNCHANGED <<staged, bound, agent, beegfs, faults, restarts>>

MountedIsEnough(r) ==
    /\ At(r, "isMnt")
    /\ Goto(r, IF Mounted(Place(r)) THEN "answer" ELSE "mount")
    /\ UNCHANGED <<staged, bound, agent, beegfs, faults, restarts>>

\* mountIfNecessary: IsLikelyNotMountPoint, and mkdir of mountPath ...
IsLikelyNotMountPoint(r) ==
    /\ At(r, "isMnt")
    /\ \/ Goto(r, IF Mounted(Place(r)) THEN "track" ELSE "mount") /\ UNCHANGED faults
       \/ CallFails(r) /\ Failure(r)
    /\ UNCHANGED <<staged, bound, agent, beegfs, restarts>>

\* ... then the mount, with the client files as its cfgFile.
Mount(r) ==
    LET p == Place(r)
    IN  /\ At(r, "mount")
        /\ \/ /\ staged[p].conf
              /\ staged' = [staged EXCEPT ![p].mounts = @ + 1]
              /\ Goto(r, "track") /\ UNCHANGED faults
           \/ ~staged[p].conf /\ Failure(r) /\ UNCHANGED <<staged, faults>>
           \/ CallFails(r) /\ Failure(r) /\ UNCHANGED staged
        /\ UNCHANGED <<bound, agent, beegfs, restarts>>

\* The node lists itself in csiDir/nodes, if it sees that directory.  Best
\* effort: an error is only logged.
Track(r) ==
    LET v == Volume(r)
    IN  /\ At(r, "track")
        /\ Success(r)
        /\ \/ /\ tracked' = IF Mounted(Place(r)) /\ csiDir[v]
                            THEN [tracked EXCEPT ![v] = @ \cup {NodeOf(Place(r))}]
                            ELSE tracked
              /\ UNCHANGED faults
           \/ CallFails(r) /\ UNCHANGED tracked
        /\ UNCHANGED <<staged, bound, agent, volDir, csiDir, restarts>>

(***************************************************************************)
(* NodeUnstageVolume.                                                      *)
(***************************************************************************)
\* Mutant of Untrack: it removes all of the files.
UntrackAll(r) ==
    /\ At(r, "untrack") /\ Goto(r, "list")
    /\ tracked' = IF Mounted(Place(r)) THEN [tracked EXCEPT ![Volume(r)] = {}]
                  ELSE tracked
    /\ UNCHANGED <<staged, bound, agent, volDir, csiDir, faults, restarts>>

\* The node takes itself off the list first, while it can still see it.
Untrack(r) ==
    LET v == Volume(r)
    IN  /\ At(r, "untrack")
        /\ Goto(r, "list")
        /\ \/ /\ tracked' = IF Mounted(Place(r))
                            THEN [tracked EXCEPT ![v] = @ \ {NodeOf(Place(r))}]
                            ELSE tracked
              /\ UNCHANGED faults
           \/ CallFails(r) /\ UNCHANGED tracked
        /\ UNCHANGED <<staged, bound, agent, volDir, csiDir, restarts>>

\* Mutant of ListMounts: an error is logged and the request succeeds.
ListMountsSwallowsError(r) ==
    /\ At(r, "list")
    /\ \/ Goto(r, "unmount") /\ UNCHANGED faults
       \/ CallFails(r) /\ Success(r)
    /\ UNCHANGED <<staged, bound, agent, beegfs, restarts>>

\* unmountAndCleanUpIfNecessary refuses while a bind mount of this file system
\* is in the list of mounts.
ListMounts(r) ==
    LET inUse == \E t \in Targets : bound[Place(r)][t] > 0
    IN  /\ At(r, "list")
        /\ \/ ~inUse /\ Goto(r, "unmount") /\ UNCHANGED faults
           \/ inUse /\ Failure(r) /\ UNCHANGED faults
           \/ CallFails(r) /\ Failure(r)
        /\ UNCHANGED <<staged, bound, agent, beegfs, restarts>>

\* Mutant of AfterUnmount: unmounts what is not mounted.
AfterUnmountBelowZero(n) == n - 1

\* k8s.io/mount-utils: unmount once if mounted, then remove the mount point;
\* an error if something is still mounted there.
AfterUnmount(n) == IF n > 0 THEN n - 1 ELSE 0

\* Mutants of Unmount: an error does not stop the cleanup; nothing to unmount
\* is an error.
UnmountIgnoresError(r) ==
    /\ At(r, "unmount")
    /\ Goto(r, "clean")
    /\ \/ staged' = [staged EXCEPT ![Place(r)].mounts = 0] /\ UNCHANGED faults
       \/ CallFails(r) /\ UNCHANGED staged
    /\ UNCHANGED <<bound, agent, beegfs, restarts>>

UnmountNeedsMount(r) ==
    /\ At(r, "unmount")
    /\ staged' = [staged EXCEPT ![Place(r)].mounts = 0]
    /\ IF Mounted(Place(r)) THEN Goto(r, "clean") ELSE Failure(r)
    /\ UNCHANGED <<bound, agent, beegfs, faults, restarts>>

Unmount(r) ==
    LET p == Place(r)
        after == [staged EXCEPT ![p].mounts = AfterUnmount(@)]
    IN  /\ At(r, "unmount")
        /\ \/ staged[p].mounts <= 1 /\ staged' = after
              /\ Goto(r, "clean") /\ UNCHANGED faults
           \/ staged[p].mounts > 1 /\ staged' = after
              /\ Failure(r) /\ UNCHANGED faults
           \/ CallFails(r) /\ staged' \in {staged, after} /\ Failure(r)
        /\ UNCHANGED <<bound, agent, beegfs, restarts>>

\* cleanUpIfNecessary with rmDir = false: RemoveAll of every entry of the
\* staging directory.  Through a live mount it empties the file system, then
\* fails on the busy mount point.
CleanUp(r) ==
    LET p == Place(r)
        emptied == [staged EXCEPT ![p].conf = FALSE]
    IN  /\ At(r, "clean")
        /\ \/ /\ staged[p].dir /\ ~Mounted(p)
              /\ staged' = emptied
              /\ Success(r) /\ UNCHANGED <<beegfs, faults>>
           \/ /\ ~staged[p].dir
              /\ Failure(r) /\ UNCHANGED <<staged, beegfs, faults>>
           \/ /\ staged[p].dir /\ Mounted(p)
              /\ staged' = emptied
              /\ volDir' = [v \in Volumes |-> FALSE]
              /\ csiDir' = [v \in Volumes |-> FALSE]
              /\ tracked' = [v \in Volumes |-> {}]
              /\ Failure(r) /\ UNCHANGED faults
           \/ /\ CallFails(r) /\ staged' \in {staged, emptied}
              /\ Failure(r) /\ UNCHANGED beegfs
        /\ UNCHANGED <<bound, agent, restarts>>

(***************************************************************************)
(* NodePublishVolume and NodeUnpublishVolume.                              *)
(***************************************************************************)
\* Mutant of IsMountPoint: the answer is taken the wrong way round.
IsMountPointInverted(r) ==
    /\ At(r, "isBound")
    /\ Goto(r, IF bound[Place(r)][job[r].target] > 0 THEN "bind" ELSE "answer")
    /\ UNCHANGED <<staged, bound, agent, beegfs, faults, restarts>>

\* IsMountPoint(targetPath), and mkdir of it ...
IsMountPoint(r) ==
    /\ At(r, "isBound")
    /\ \/ /\ bound[Place(r)][job[r].target] > 0
          /\ Success(r) /\ UNCHANGED faults
       \/ /\ bound[Place(r)][job[r].target] = 0
          /\ Goto(r, "bind") /\ UNCHANGED faults
       \/ CallFails(r) /\ Failure(r)
    /\ UNCHANGED <<staged, bound, agent, beegfs, restarts>>

\* ... then the bind mount of volDirPath, a path below mountPath.
Bind(r) ==
    LET p == Place(r)
        source == Mounted(p) /\ volDir[Volume(r)]
    IN  /\ At(r, "bind")
        /\ \/ /\ source
              /\ bound' = [bound EXCEPT ![p][job[r].target] = @ + 1]
              /\ Success(r) /\ UNCHANGED faults
           \/ ~source /\ Failure(r) /\ UNCHANGED <<bound, faults>>
           \/ CallFails(r) /\ Failure(r) /\ UNCHANGED bound
        /\ UNCHANGED <<staged, agent, beegfs, restarts>>

Unbind(r) ==
    LET p == Place(r)
        t == job[r].target
        after == [bound EXCEPT ![p][t] = AfterUnmount(@)]
    IN  /\ At(r, "unbind")
        /\ \/ bound[p][t] <= 1 /\ bound' = after /\ Success(r) /\ UNCHANGED faults
           \/ bound[p][t] > 1 /\ bound' = after /\ Failure(r) /\ UNCHANGED faults
           \/ CallFails(r) /\ bound' \in {bound, after} /\ Failure(r)
        /\ UNCHANGED <<staged, agent, beegfs, restarts>>
-----------------------------------------------------------------------------
(***************************************************************************)
(* The agent: what it concludes from an answer, and what it decides.       *)
(***************************************************************************)
\* The agent still wants what operation op is for.
Awaited(op, p, t) ==
    CASE op = "stage" -> want[p] = "staging"
      [] op = "unstage" -> want[p] = "unstaging"
      [] op = "publish" -> publish[p][t] = "publishing"
      [] op = "unpublish" -> publish[p][t] = "unpublishing"

\* After NodeUnstageVolume it removes the staging directory.
Acknowledge(op, p, t) ==
    /\ want' = CASE op = "stage" -> [want EXCEPT ![p] = "staged"]
                 [] op = "unstage" -> [want EXCEPT ![p] = "unstaged"]
                 [] OTHER -> want
    /\ publish' = CASE op = "publish" -> [publish EXCEPT ![p][t] = "published"]
                    [] op = "unpublish" -> [publish EXCEPT ![p][t] = "absent"]
                    [] OTHER -> publish
    /\ staged' = IF op = "unstage" THEN [staged EXCEPT ![p].dir = FALSE]
                 ELSE staged

\* The answer is sent; it may be lost, and it may come too late.
Answer(r) ==
    LET good == /\ job[r].ok /\ job[r].heard
                /\ Awaited(job[r].op, job[r].place, job[r].target)
    IN  /\ At(r, "answer")
        /\ job' = [job EXCEPT ![r] = Idle]
        /\ \/ good /\ Acknowledge(job[r].op, job[r].place, job[r].target)
              /\ UNCHANGED faults
           \/ ~good /\ UNCHANGED <<agent, staged, faults>>
           \/ good /\ CallFails(r) /\ UNCHANGED <<agent, staged>>
        /\ UNCHANGED <<bound, beegfs, restarts>>

\* The agent makes the staging directory before it asks for the mount.
WantStaged(p) ==
    /\ want[p] = "unstaged"
    /\ want' = [want EXCEPT ![p] = "staging"]
    /\ staged' = [staged EXCEPT ![p].dir = TRUE]
    /\ UNCHANGED <<job, bound, publish, beegfs, faults, restarts>>

WantPublished(p, t) ==
    /\ want[p] = "staged" /\ publish[p][t] = "absent"
    /\ publish' = [publish EXCEPT ![p][t] = "publishing"]
    /\ UNCHANGED <<job, staged, bound, want, beegfs, faults, restarts>>

WantUnpublished(p, t) ==
    /\ publish[p][t] \in {"publishing", "published"}
    /\ publish' = [publish EXCEPT ![p][t] = "unpublishing"]
    /\ UNCHANGED <<job, staged, bound, want, beegfs, faults, restarts>>

WantUnstaged(p) ==
    /\ want[p] \in {"staging", "staged"}
    /\ \A t \in Targets : publish[p][t] = "absent"
    /\ want' = [want EXCEPT ![p] = "unstaging"]
    /\ UNCHANGED <<job, staged, bound, publish, beegfs, faults, restarts>>

\* The controller service deletes the volume, at any time.
VolumeDeleted(v) ==
    /\ volDir[v]
    /\ volDir' = [volDir EXCEPT ![v] = FALSE]
    /\ csiDir' = [csiDir EXCEPT ![v] = FALSE]
    /\ tracked' = [tracked EXCEPT ![v] = {}]
    /\ UNCHANGED <<job, staged, bound, agent, faults, restarts>>

\* The service on node n is restarted; the mounts are the host's.
Restart(n) ==
    /\ restarts < MaxRestarts
    /\ restarts' = restarts + 1
    /\ job' = [r \in Requests |->
                 IF job[r].pc # "idle" /\ NodeOf(job[r].place) = n THEN Idle
                 ELSE job[r]]
    /\ UNCHANGED <<staged, bound, agent, beegfs, faults>>
-----------------------------------------------------------------------------
Call(r) ==
    \E p \in Places :
        \/ NodeStageVolume(r, p) \/ NodeUnstageVolume(r, p)
        \/ \E t \in Targets : NodePublishVolume(r, p, t) \/ NodeUnpublishVolume(r, p, t)

Step(r) ==
    \/ StatStagingDir(r) \/ WriteClientFiles(r) \/ StatDirectory(r)
    \/ IsLikelyNotMountPoint(r) \/ Mount(r) \/ Track(r)
    \/ Untrack(r) \/ ListMounts(r) \/ Unmount(r) \/ CleanUp(r)
    \/ IsMountPoint(r) \/ Bind(r) \/ Unbind(r)
    \/ Answer(r)

Agent ==
    \E p \in Places :
        \/ WantStaged(p) \/ WantUnstaged(p)
        \/ \E t \in Targets : WantPublished(p, t) \/ WantUnpublished(p, t)

Next ==
    \/ \E r \in Requests : Call(r) \/ Step(r)
    \/ Agent
    \/ \E v \in Volumes : VolumeDeleted(v)
    \/ \E n \in Nodes : Restart(n)

Spec == Init /\ [][Next]_vars

\* Calls return (Step), and the agent repeats a request until it is answered.
Fairness ==
    /\ \A r \in Requests : WF_vars(Step(r))
    /\ \A p \in Places :
          /\ WF_vars(\E r \in Requests : NodeStageVolume(r, p))
          /\ WF_vars(\E r \in Requests : NodeUnstageVolume(r, p))
          /\ \A t \in Targets :
                WF_vars(\E r \in Requests : NodeUnpublishVolume(r, p, t))

FairSpec == Spec /\ Fairness
-----------------------------------------------------------------------------
(***************************************************************************)
(* Properties.                                                             *)
(***************************************************************************)
\* A published target works: it is a bind mount, and the BeeGFS it came from
\* is still staged with its client files, until the agent unpublishes it.
PublishedIsMounted ==
    \A p \in Places, t \in Targets :
        publish[p][t] = "published" =>
            bound[p][t] > 0 /\ Mounted(p) /\ staged[p].conf

\* An acknowledged NodeUnstageVolume leaves no mount, bind mount or client
\* file of the volume on the node.
UnstagedIsClean ==
    \A p \in Places :
        want[p] = "unstaged" =>
            /\ ~Mounted(p) /\ ~staged[p].conf
            /\ \A t \in Targets : bound[p][t] = 0

\* "cleans up a mounted BeeGFS filesystem ONLY if it is not bind mounted
\* somewhere else": no bind mount exists when NodeUnstageVolume unmounts.
UnmountOnlyUnbound ==
    \A r \in Requests :
        At(r, "unmount") => \A t \in Targets : bound[Place(r)][t] = 0

\* cleanUpIfNecessary works on a volume "that is not mounted".
CleanUpOnlyUnmounted ==
    \A r \in Requests : At(r, "clean") => ~Mounted(Place(r))

\* mountIfNecessary and NodePublishVolume never mount twice on one path.
NoStackedMounts ==
    \A p \in Places :
        staged[p].mounts <= 1 /\ \A t \in Targets : bound[p][t] <= 1

\* A staged node is in the volume's tracking directory, for DeleteVolume to
\* wait for (as far as the calls that keep the directory succeed).
StagedIsTracked ==
    \A p \in Places :
        want[p] = "staged" /\ csiDir[VolumeOf(p)] => NodeOf(p) \in tracked[VolumeOf(p)]

\* NodeStageVolume can be repeated after any failure, lost answer or restart:
\* it succeeds in the end, unless the volume is deleted or the agent gives up.
StageConverges ==
    \A p \in Places :
        want[p] = "staging" ~> want[p] # "staging" \/ ~volDir[VolumeOf(p)]

\* So can NodeUnpublishVolume and NodeUnstageVolume, with or without a volume.
TeardownConverges ==
    \A p \in Places :
        /\ want[p] = "unstaging" ~> want[p] = "unstaged"
        /\ \A t \in Targets :
              publish[p][t] = "unpublishing" ~> publish[p][t] = "absent"
=============================================================================
