-------------------------- MODULE CSISystemProofs ---------------------------
(***************************************************************************)
(* Theorems about the composed system, for any number of volumes, nodes,   *)
(* targets, requests, faults and restarts of both services.                *)
(*                                                                         *)
(* NodeServerProofs shows what holds of the node services when the volumes *)
(* are deleted at once, and while csiDir/nodes is kept.  Here the          *)
(* controller's handlers work on both step by step, so that its invariant  *)
(* is used without what it says of tracked: with "track" among the calls   *)
(* that may fail it says nothing.                                          *)
(***************************************************************************)
EXTENDS CSISystem, ControllerServerReady

NP == INSTANCE NodeServerProofs WITH
    Requests <- NodeRequests, Failing <- NodeFailing \cup {"track"},
    MaxFaults <- MaxNodeFaults, MaxRestarts <- MaxNodeRestarts,
    Overlap <- FALSE, Tracking <- TRUE,
    job <- njob, faults <- nfaults, restarts <- nrestarts,
    volDir <- [v \in Volumes |-> "dir" \in volDir[v]],
    csiDir <- [v \in Volumes |-> csiDir[v] = "nodes"]

\* A node is asked to stage a volume, and stages it, only while it is in use.
StagedInUse ==
    /\ \A p \in Node!Places :
          want[p] = "staging" => phase[Node!VolumeOf(p)] = "use"
    /\ \A r \in NodeRequests :
          njob[r].pc # "idle" /\ njob[r].op = "stage" =>
              phase[Node!Volume(r)] = "use"

SystemInv == TypeOK /\ NP!NodeInv /\ StagedInUse

\* NodeServer's assumptions hold for the instance.
LEMMA NodeOptions ==
    /\ NoTarget \notin Targets
    /\ FALSE \in BOOLEAN /\ TRUE \in BOOLEAN
    /\ NodeFailing \cup {"track"} \subseteq NP!Points
    /\ MaxNodeFaults \in Nat /\ MaxNodeRestarts \in Nat
  BY NodeAssumption, Zenon DEF Node!Points, NP!Points

\* A step of a node service is one of the module its theorems are about.
LEMMA SameCalls ==
    ASSUME NEW r \in NodeRequests
    PROVE  (Node!Call(r) => NP!Call(r)) /\ (Node!Step(r) => NP!Step(r))
<1>. USE DEF Node!At, NP!At, Node!Place, NP!Place, Node!Volume, NP!Volume,
         Node!VolumeOf, NP!VolumeOf, Node!NodeOf, NP!NodeOf,
         Node!Goto, NP!Goto, Node!Success, NP!Success, Node!Failure, NP!Failure,
         Node!Mounted, NP!Mounted, Node!agent, NP!agent, Node!beegfs, NP!beegfs
<1>a. Node!CallFails(r) => NP!CallFails(r)
  BY Zenon DEF Node!CallFails, NP!CallFails
<1>1. Node!Call(r) => NP!Call(r)
  BY Zenon DEF Node!Call, NP!Call, Node!Places, NP!Places,
       Node!NodeStageVolume, NP!NodeStageVolume,
       Node!NodeUnstageVolume, NP!NodeUnstageVolume,
       Node!NodePublishVolume, NP!NodePublishVolume,
       Node!NodeUnpublishVolume, NP!NodeUnpublishVolume,
       Node!Begin, NP!Begin, Node!Running, NP!Running
<1>2. Node!StatStagingDir(r) => NP!StatStagingDir(r)
  BY <1>a, Zenon DEF Node!StatStagingDir, NP!StatStagingDir
<1>3. Node!WriteClientFiles(r) => NP!WriteClientFiles(r)
  BY <1>a DEF Node!WriteClientFiles, NP!WriteClientFiles
<1>4. Node!StatDirectory(r) => NP!StatDirectory(r)
  BY <1>a, Zenon DEF Node!StatDirectory, NP!StatDirectory
<1>5. Node!IsLikelyNotMountPoint(r) => NP!IsLikelyNotMountPoint(r)
  BY <1>a, Zenon DEF Node!IsLikelyNotMountPoint, NP!IsLikelyNotMountPoint
<1>6. Node!Mount(r) => NP!Mount(r)
  BY <1>a DEF Node!Mount, NP!Mount
<1>7. Node!Track(r) => NP!Track(r)
  BY <1>a, Zenon DEF Node!Track, NP!Track
<1>8. Node!Untrack(r) => NP!Untrack(r)
  BY <1>a DEF Node!Untrack, NP!Untrack
<1>9. Node!ListMounts(r) => NP!ListMounts(r)
  BY <1>a, Zenon DEF Node!ListMounts, NP!ListMounts
<1>10. Node!Unmount(r) => NP!Unmount(r)
  BY <1>a DEF Node!Unmount, NP!Unmount, Node!AfterUnmount, NP!AfterUnmount
<1>11. Node!CleanUp(r) => NP!CleanUp(r)
  BY <1>a, Zenon DEF Node!CleanUp, NP!CleanUp
<1>12. Node!IsMountPoint(r) => NP!IsMountPoint(r)
  BY <1>a, Zenon DEF Node!IsMountPoint, NP!IsMountPoint
<1>13. Node!Bind(r) => NP!Bind(r)
  BY <1>a, Zenon DEF Node!Bind, NP!Bind
<1>14. Node!Unbind(r) => NP!Unbind(r)
  BY <1>a, Zenon DEF Node!Unbind, NP!Unbind, Node!AfterUnmount, NP!AfterUnmount
<1>15. Node!Answer(r) => NP!Answer(r)
  BY <1>a, Zenon DEF Node!Answer, NP!Answer, Node!Awaited, NP!Awaited,
       Node!Acknowledge, NP!Acknowledge, Node!Idle, NP!Idle
<1>. QED
  BY <1>1, <1>2, <1>3, <1>4, <1>5, <1>6, <1>7, <1>8, <1>9, <1>10, <1>11, <1>12,
     <1>13, <1>14, <1>15, Zenon DEF Node!Step, NP!Step

LEMMA SameSteps ==
    ASSUME NodeStep PROVE NP!Next
<1>1. ASSUME NEW n \in Nodes, Node!Restart(n) PROVE NP!Restart(n)
  BY <1>1 DEF Node!Restart, NP!Restart, Node!Idle, NP!Idle, Node!NodeOf, NP!NodeOf,
       Node!agent, NP!agent, Node!beegfs, NP!beegfs
<1>2. ASSUME NEW p \in Node!Places,
             \/ Node!WantStaged(p) \/ Node!WantUnstaged(p)
             \/ \E t \in Targets :
                   Node!WantPublished(p, t) \/ Node!WantUnpublished(p, t)
      PROVE  NP!Agent
  BY <1>2, Zenon DEF NP!Agent, Node!Places, NP!Places, Node!WantStaged, NP!WantStaged,
       Node!WantUnstaged, NP!WantUnstaged, Node!WantPublished, NP!WantPublished,
       Node!WantUnpublished, NP!WantUnpublished, Node!beegfs, NP!beegfs
<1>. QED
  BY <1>1, <1>2, SameCalls DEF NodeStep, NP!Next

\* The steps of the controller leave the nodes as they are.
LEMMA NodesKept ==
    ASSUME NP!NodeInv, TypeOK', UNCHANGED nodeVars
    PROVE  NP!NodeInv'
<1>1. NP!NodeTypes'
  <2>1. [v \in Volumes |-> csiDir[v] = "nodes"]' \in [Volumes -> BOOLEAN]
    OBVIOUS
  <2>2. tracked' \in [Volumes -> SUBSET Nodes]
    BY Zenon DEF TypeOK
  <2>. QED
    BY <2>1, <2>2 DEF NP!NodeInv, NP!NodeTypes, nodeVars
<1>2. NP!OnePerPath'
  BY Zenon DEF NP!NodeInv, NP!OnePerPath, NP!Active, nodeVars
<1>3. \A p \in NP!Places : NP!Listed(p) /\ NP!Listed(p)'
  BY Zenon DEF NP!Listed
<1>4. \A p \in NP!Places : NP!AsSeen(p)'
  BY <1>3, Zenon DEF NP!NodeInv, NP!AsSeen, NP!IsStaged, NP!IsUnstaged, nodeVars
<1>5. ASSUME NEW q \in NodeRequests, NP!Active(q)'
      PROVE  NP!Attended(q)' /\ NP!Established(q)'
  <2>1. NP!Active(q)
    BY <1>5 DEF NP!Active, nodeVars
  <2>2. NP!Attended(q) /\ NP!Established(q) /\ njob[q].place \in NP!Places
    BY <2>1, NodeOptions, NP!ActiveJob, Zenon DEF NP!Place
  <2>3. /\ NP!OfPlace(q) => NP!StageWanted(njob[q].op, want'[njob[q].place])
        /\ ~NP!OfPlace(q) =>
              NP!PublishWanted(njob[q].op, publish'[njob[q].place][njob[q].target])
    BY <2>2, Zenon DEF NP!Attended, nodeVars
  <2>. QED
    BY <1>3, <2>2, <2>3, NodeOptions, NP!KeptHandler, Zenon DEF nodeVars
<1>. QED
  BY <1>1, <1>2, <1>4, <1>5, Zenon DEF NP!NodeInv

\* A node service changes nothing of the controller's but the list of nodes:
\* a node is added while the volume is in use, or removed.
LEMMA NodesAreEnvironment ==
    ASSUME SystemInv, NodeStep
    PROVE  [Next]_vars
<1>1. UNCHANGED controllerVars
  BY Zenon DEF NodeStep
<1>2. ASSUME NEW n \in Nodes, NEW v \in Volumes, TrackNode(n, v) \/ UntrackNode(n, v)
      PROVE  Next
  BY <1>1, <1>2 DEF Next, Environment
<1>3. ASSUME UNCHANGED tracked PROVE UNCHANGED vars
  BY <1>1, <1>3 DEF controllerVars, vars
<1>4. ASSUME NEW r \in NodeRequests, Node!Track(r) \/ Node!Untrack(r)
      PROVE  [Next]_vars
  <2>. DEFINE n == NP!NodeOf(NP!Place(r))
              v == NP!Volume(r)
  <2>1. NP!Active(r)
    BY <1>4, Zenon DEF Node!Track, Node!Untrack, Node!At, NP!Active
  <2>2. n \in Nodes /\ v \in Volumes /\ NP!Established(r)
    BY <2>1, NodeOptions, NP!ActiveJob DEF SystemInv
  <2>3. CASE Node!Track(r)
    <3>1. njob[r].op = "stage"
      BY <2>2, <2>3 DEF Node!Track, Node!At, NP!Established, NP!PointOfOp
    <3>2. phase[v] = "use"
      BY <2>1, <3>1, Zenon DEF SystemInv, StagedInUse, NP!Active, Node!Volume, NP!Volume,
           Node!VolumeOf, NP!VolumeOf
    <3>3. \/ UNCHANGED tracked
          \/ /\ [w \in Volumes |-> csiDir[w] = "nodes"][v]
             /\ tracked' = [tracked EXCEPT ![v] = @ \cup {n}]
      BY <2>3 DEF Node!Track, Node!Volume, NP!Volume, Node!VolumeOf, NP!VolumeOf,
           Node!Place, NP!Place, Node!NodeOf, NP!NodeOf
    <3>4. UNCHANGED tracked \/ TrackNode(n, v)
      BY <1>1, <2>2, <3>2, <3>3, Zenon DEF TrackNode, controllerVars
    <3>. QED
      BY <1>2, <1>3, <2>2, <3>4, Zenon
  <2>4. CASE Node!Untrack(r)
    <3>1. \/ UNCHANGED tracked
          \/ tracked' = [tracked EXCEPT ![v] = @ \ {n}]
      BY <2>4 DEF Node!Untrack, Node!Volume, NP!Volume, Node!VolumeOf, NP!VolumeOf,
           Node!Place, NP!Place, Node!NodeOf, NP!NodeOf
    <3>2. CASE n \in tracked[v]
      BY <1>1, <1>2, <1>3, <2>2, <3>1, <3>2, Zenon DEF UntrackNode, controllerVars
    <3>3. CASE n \notin tracked[v]
      <4>1. tracked[v] \ {n} = tracked[v]
        BY <3>3
      <4>2. UNCHANGED tracked
        BY <2>2, <3>1, <4>1, Zenon DEF SystemInv, TypeOK
      <4>. QED
        BY <1>3, <4>2
    <3>. QED
      BY <3>2, <3>3, Zenon
  <2>. QED
    BY <1>4, <2>3, <2>4
<1>5. ASSUME NEW r \in NodeRequests, Node!CleanUp(r) PROVE UNCHANGED tracked
  <2>1. NP!Active(r) /\ njob[r].pc = "clean"
    BY <1>5, Zenon DEF Node!CleanUp, Node!At, NP!Active
  <2>2. NP!Established(r)
    BY <2>1, NodeOptions, NP!ActiveJob, Zenon DEF SystemInv
  <2>3. staged[njob[r].place].mounts = 0
    BY <2>1, <2>2 DEF NP!Established, NP!PointOfOp, NP!OfPlace, NP!StageHas
  <2>4. ~Node!Mounted(Node!Place(r))
    BY <2>3 DEF Node!Mounted, Node!Place
  <2>. QED
    BY <1>5, <2>4, Zenon DEF Node!CleanUp, Node!beegfs
<1>6. ASSUME NEW r \in NodeRequests, Node!Call(r) PROVE UNCHANGED tracked
  BY <1>6 DEF Node!Call, Node!NodeStageVolume, Node!NodeUnstageVolume,
       Node!NodePublishVolume, Node!NodeUnpublishVolume, Node!Begin, Node!beegfs
<1>7. ASSUME NEW r \in NodeRequests,
             \/ Node!StatStagingDir(r) \/ Node!WriteClientFiles(r)
             \/ Node!StatDirectory(r) \/ Node!IsLikelyNotMountPoint(r)
             \/ Node!Mount(r) \/ Node!ListMounts(r) \/ Node!Unmount(r)
             \/ Node!IsMountPoint(r) \/ Node!Bind(r) \/ Node!Unbind(r)
             \/ Node!Answer(r)
      PROVE  UNCHANGED tracked
  BY <1>7, Zenon DEF Node!StatStagingDir, Node!WriteClientFiles, Node!StatDirectory,
       Node!IsLikelyNotMountPoint, Node!Mount, Node!ListMounts, Node!Unmount,
       Node!IsMountPoint, Node!Bind, Node!Unbind, Node!Answer, Node!beegfs
<1>8. ASSUME NEW n \in Nodes, Node!Restart(n) PROVE UNCHANGED tracked
  BY <1>8, Zenon DEF Node!Restart, Node!beegfs
<1>9. ASSUME NEW p \in Node!Places,
             \/ Node!WantStaged(p) \/ Node!WantUnstaged(p)
             \/ \E t \in Targets :
                   Node!WantPublished(p, t) \/ Node!WantUnpublished(p, t)
      PROVE  UNCHANGED tracked
  BY <1>9, Zenon DEF Node!WantStaged, Node!WantUnstaged, Node!WantPublished,
       Node!WantUnpublished, Node!beegfs
<1>. QED
  BY <1>3, <1>4, <1>5, <1>6, <1>7, <1>8, <1>9, Zenon DEF NodeStep, Node!Step

\* A volume in use stays so until the orchestrator wants it deleted.
LEMMA UseStays ==
    ASSUME TypeOK, ControllerStep, NEW v \in Volumes, phase[v] = "use"
    PROVE  phase'[v] = "use"
<1>1. ASSUME NEW op, NEW w, Acknowledge(op, w) PROVE phase'[v] = "use"
  BY <1>1 DEF Acknowledge, TypeOK
<1>2. ASSUME NEW r \in Requests, Arrive(r) PROVE phase'[v] = "use"
  BY <1>1, <1>2 DEF Arrive, CreateVolume, DeleteVolume, ValidateVolumeCapabilities
<1>3. ASSUME NEW r \in Requests, Step(r) PROVE phase'[v] = "use"
  <2>1. CASE ReleaseLock(r)
    BY <1>1, <2>1 DEF ReleaseLock
  <2>2. CASE ~ReleaseLock(r)
    <3>1. UNCHANGED phase
      BY <1>3, <2>2, Zenon DEF Step, ObtainLock, MakeMountDir, WriteClientFiles, Mount,
           CreateDirectory, SetPattern, Chmod, CreateNodesDirectory,
           WriteStatusCreated, Poll, RemoveCsiDirectory, RemoveVolumeDirectory,
           StatDirectory, ListMounts, Unmount, RemoveMountDir, WriteStatusDeleted
    <3>. QED
      BY <3>1
  <2>. QED
    BY <2>1, <2>2
<1>. QED
  BY <1>2, <1>3, Zenon DEF ControllerStep, Restart

\* A call of a node's handler leaves the handlers what they are, or ends one.
LEMMA JobsKept ==
    ASSUME NP!NodeInv, NEW r \in NodeRequests, NP!Step(r),
           NEW q \in NodeRequests, njob'[q].pc # "idle"
    PROVE  /\ njob[q].pc # "idle" /\ njob'[q].op = njob[q].op
           /\ njob'[q].place = njob[q].place
<1>0. NP!Active(r)
  BY Zenon DEF NP!Step, NP!Active, NP!At, NP!StatStagingDir, NP!WriteClientFiles,
       NP!StatDirectory, NP!IsLikelyNotMountPoint, NP!Mount, NP!Track, NP!Untrack,
       NP!ListMounts, NP!Unmount, NP!CleanUp, NP!IsMountPoint, NP!Bind, NP!Unbind,
       NP!Answer
<1>1. CASE \E point \in NP!Points : NP!Goto(r, point)
  <2>1. NP!JobMoves(r)
    BY <1>0, <1>1, NodeOptions, NP!GotoMoves, Zenon
  <2>. QED
    BY <1>0, <2>1 DEF NP!JobMoves, NP!Active
<1>2. CASE NP!Failure(r)
  <2>1. NP!JobMoves(r)
    BY <1>0, <1>2, NodeOptions, NP!FailureMoves, Zenon
  <2>. QED
    BY <1>0, <2>1 DEF NP!JobMoves, NP!Active
<1>3. CASE njob' = [njob EXCEPT ![r] = NP!Idle]
  BY <1>3, Zenon DEF NP!Idle, NP!NodeInv, NP!NodeTypes
<1>4. \/ \E point \in NP!Points : NP!Goto(r, point)
      \/ NP!Failure(r)
      \/ njob' = [njob EXCEPT ![r] = NP!Idle]
  <2>. USE DEF NP!Success, NP!Points
  <2>1. CASE \/ NP!StatStagingDir(r) \/ NP!WriteClientFiles(r)
             \/ NP!StatDirectory(r) \/ NP!Mount(r)
    BY <2>1, Zenon DEF NP!StatStagingDir, NP!WriteClientFiles, NP!StatDirectory, NP!Mount
  <2>2. CASE NP!IsLikelyNotMountPoint(r)
    BY <2>2, Zenon DEF NP!IsLikelyNotMountPoint
  <2>3. CASE \/ NP!Track(r) \/ NP!Untrack(r) \/ NP!ListMounts(r)
             \/ NP!Unmount(r) \/ NP!CleanUp(r)
    BY <2>3, Zenon DEF NP!Track, NP!Untrack, NP!ListMounts, NP!Unmount, NP!CleanUp
  <2>4. CASE \/ NP!IsMountPoint(r) \/ NP!Bind(r) \/ NP!Unbind(r) \/ NP!Answer(r)
    BY <2>4 DEF NP!IsMountPoint, NP!Bind, NP!Unbind, NP!Answer
  <2>. QED
    BY <2>1, <2>2, <2>3, <2>4, Zenon DEF NP!Step
<1>. QED
  BY <1>1, <1>2, <1>3, <1>4, Zenon

\* A node is asked to stage nothing but what is in use.
LEMMA WantsInUse ==
    ASSUME SystemInv, NodeStep, NEW p \in Node!Places, want'[p] = "staging"
    PROVE  phase[Node!VolumeOf(p)] = "use"
<1>0. want[p] = "staging" => phase[Node!VolumeOf(p)] = "use"
  BY Zenon DEF SystemInv, StagedInUse
<1>1. want \in [Node!Places ->
               {"unstaged", "staging", "staged", "unstaging"}]
  BY Zenon DEF SystemInv, NP!NodeInv, NP!NodeTypes, NP!Places, Node!Places
<1>2. ASSUME NEW r \in NodeRequests, Node!Call(r) PROVE UNCHANGED want
  BY <1>2 DEF Node!Call, Node!NodeStageVolume, Node!NodeUnstageVolume,
       Node!NodePublishVolume, Node!NodeUnpublishVolume, Node!Begin, Node!agent
<1>3. ASSUME NEW r \in NodeRequests, Node!Step(r), ~Node!Answer(r)
      PROVE  UNCHANGED want
  BY <1>3, Zenon DEF Node!Step, Node!StatStagingDir, Node!WriteClientFiles,
       Node!StatDirectory, Node!IsLikelyNotMountPoint, Node!Mount, Node!Track,
       Node!Untrack, Node!ListMounts, Node!Unmount, Node!CleanUp,
       Node!IsMountPoint, Node!Bind, Node!Unbind, Node!agent
<1>4. ASSUME NEW r \in NodeRequests, Node!Answer(r) PROVE want[p] = "staging"
  <2>1. \E x \in {"staged", "unstaged"} :
            want' \in {want, [want EXCEPT ![njob[r].place] = x]}
    BY <1>4 DEF Node!Answer, Node!Acknowledge, Node!agent
  <2>. QED
    BY <1>1, <2>1, Zenon
<1>5. ASSUME NEW x \in Node!Places,
             \/ Node!WantUnstaged(x)
             \/ \E t \in Targets :
                   Node!WantPublished(x, t) \/ Node!WantUnpublished(x, t)
      PROVE  want[p] = "staging"
  BY <1>1, <1>5, Zenon DEF Node!WantUnstaged, Node!WantPublished, Node!WantUnpublished
<1>6. ASSUME NEW x \in Node!Places, Node!WantStaged(x), phase[Node!VolumeOf(x)] = "use"
      PROVE  phase[Node!VolumeOf(p)] = "use"
  BY <1>0, <1>1, <1>6, Zenon DEF Node!WantStaged
<1>7. ASSUME NEW n \in Nodes, Node!Restart(n) PROVE UNCHANGED want
  BY <1>7, Zenon DEF Node!Restart, Node!agent
<1>. QED
  BY <1>0, <1>2, <1>3, <1>4, <1>5, <1>6, <1>7 DEF NodeStep

\* A stage handler begins only where the node is asked to stage.
LEMMA StageBegins ==
    ASSUME SystemInv, NodeStep, NEW q \in NodeRequests,
           njob'[q].pc # "idle", njob'[q].op = "stage"
    PROVE  phase[Node!VolumeOf(njob'[q].place)] = "use"
<1>0. ASSUME njob[q].pc # "idle", njob'[q].op = njob[q].op,
             njob'[q].place = njob[q].place
      PROVE  phase[Node!VolumeOf(njob'[q].place)] = "use"
  BY <1>0, Zenon DEF SystemInv, StagedInUse, Node!Volume, Node!VolumeOf
<1>1. ASSUME NEW r \in NodeRequests, Node!Call(r)
      PROVE  phase[Node!VolumeOf(njob'[q].place)] = "use"
  <2>. USE DEF Node!Begin, Node!At
  <2>1. CASE q = r
    <3>1. PICK p \in Node!Places : njob'[q].place = p /\ want[p] = "staging"
      BY <1>1, <2>1 DEF Node!Call, Node!NodeStageVolume, Node!NodeUnstageVolume,
           Node!NodePublishVolume, Node!NodeUnpublishVolume
    <3>. QED
      BY <3>1, Zenon DEF SystemInv, StagedInUse
  <2>2. CASE q # r
    <3>1. njob'[q] \in {njob[q], [njob[q] EXCEPT !.heard = FALSE]}
      BY <1>1, <2>2, Zenon DEF Node!Call, Node!NodeStageVolume, Node!NodeUnstageVolume,
           Node!NodePublishVolume, Node!NodeUnpublishVolume
    <3>2. njob[q] \in NP!Jobs \cup {NP!Idle}
      BY Zenon DEF SystemInv, NP!NodeInv, NP!NodeTypes
    <3>3. /\ njob[q].pc # "idle" /\ njob'[q].op = njob[q].op
          /\ njob'[q].place = njob[q].place
      <4>1. CASE njob'[q] = njob[q]
        BY <4>1
      <4>2. CASE njob'[q] = [njob[q] EXCEPT !.heard = FALSE] /\ njob[q] \in NP!Jobs
        BY <4>2, Zenon DEF NP!Jobs, NP!Points
      <4>3. CASE njob'[q] = [njob[q] EXCEPT !.heard = FALSE] /\ njob[q] = NP!Idle
        BY <4>3, Zenon DEF NP!Idle
      <4>. QED
        BY <3>1, <3>2, <4>1, <4>2, <4>3, Zenon
    <3>. QED
      BY <1>0, <3>3, Zenon
  <2>. QED
    BY <2>1, <2>2, Zenon
<1>2. ASSUME NEW r \in NodeRequests, Node!Step(r)
      PROVE  phase[Node!VolumeOf(njob'[q].place)] = "use"
  <2>1. NP!Step(r)
    BY <1>2, SameCalls, Zenon
  <2>. QED
    BY <1>0, <2>1, JobsKept, Zenon DEF SystemInv
<1>3. ASSUME NEW n \in Nodes, Node!Restart(n)
      PROVE  phase[Node!VolumeOf(njob'[q].place)] = "use"
  BY <1>0, <1>3, Zenon DEF Node!Restart, Node!Idle
<1>4. ASSUME UNCHANGED njob PROVE phase[Node!VolumeOf(njob'[q].place)] = "use"
  BY <1>0, <1>4
<1>. QED
  BY <1>1, <1>2, <1>3, <1>4, Zenon
     DEF NodeStep, Node!WantStaged, Node!WantUnstaged, Node!WantPublished,
         Node!WantUnpublished

\* Every step of the system is a step of ControllerServer, or none of its own,
\* and keeps the invariant.
LEMMA SystemStep ==
    ASSUME SystemInv, [SystemNext]_systemVars
    PROVE  [Next]_vars /\ SystemInv'
<1>1. CASE ControllerStep
  <2>1. [Next]_vars
    BY <1>1 DEF ControllerStep, Next
  <2>2. TypeOK' /\ UNCHANGED nodeVars
    BY <1>1, <2>1, NextTyped, Zenon DEF SystemInv, ControllerStep
  <2>3. StagedInUse'
    <3>1. ASSUME NEW v \in Volumes, phase[v] = "use" PROVE phase'[v] = "use"
      BY <1>1, <3>1, UseStays, Zenon DEF SystemInv
    <3>2. \A p \in Node!Places : Node!VolumeOf(p) \in Volumes
      BY Zenon DEF Node!Places, Node!VolumeOf
    <3>3. \A r \in NodeRequests : njob[r].pc # "idle" => Node!Volume(r) \in Volumes
      BY NodeOptions, NP!ActiveJob, Zenon
         DEF SystemInv, NP!Active, NP!Volume, NP!VolumeOf, Node!Volume, Node!VolumeOf
    <3>. QED
      BY <2>2, <3>1, <3>2, <3>3, Zenon
         DEF SystemInv, StagedInUse, nodeVars, Node!Volume, Node!VolumeOf
  <2>. QED
    BY <2>1, <2>2, <2>3, NodesKept, Zenon DEF SystemInv
<1>2. ASSUME NEW v \in Volumes, Delete(v) PROVE [Next]_vars /\ SystemInv'
  <2>1. [Next]_vars
    BY <1>2, Zenon DEF Delete, Next, Environment
  <2>2. TypeOK' /\ UNCHANGED nodeVars
    BY <1>2, <2>1, NextTyped, Zenon DEF SystemInv, Delete
  <2>3. \A w \in Volumes \ {v} : phase'[w] = phase[w]
    BY <1>2 DEF Delete, WantDeleted, SystemInv, TypeOK
  <2>4. \A p \in Node!Places : Node!VolumeOf(p) \in Volumes
    BY Zenon DEF Node!Places, Node!VolumeOf
  <2>5. \A r \in NodeRequests : njob[r].pc # "idle" => Node!Volume(r) \in Volumes
    BY NodeOptions, NP!ActiveJob, Zenon
       DEF SystemInv, NP!Active, NP!Volume, NP!VolumeOf, Node!Volume, Node!VolumeOf
  <2>6. StagedInUse'
    BY <1>2, <2>2, <2>3, <2>4, <2>5, Zenon
       DEF Delete, Settled, SystemInv, StagedInUse, nodeVars, Node!Volume, Node!VolumeOf
  <2>. QED
    BY <2>1, <2>2, <2>6, NodesKept, Zenon DEF SystemInv
<1>3. CASE NodeStep
  <2>1. [Next]_vars
    BY <1>3, NodesAreEnvironment, Zenon
  <2>2. TypeOK'
    BY <2>1, NextTyped, Zenon DEF SystemInv
  <2>3. NP!NodeInv'
    BY <1>3, SameSteps, NodeOptions, NP!NodeInvStep, Zenon DEF SystemInv
  <2>4. UNCHANGED phase
    BY <1>3, Zenon DEF NodeStep, controllerVars
  <2>5. StagedInUse'
    BY <1>3, <2>4, WantsInUse, StageBegins, Zenon DEF StagedInUse, Node!Volume, Node!VolumeOf
  <2>. QED
    BY <2>1, <2>2, <2>3, <2>5, Zenon DEF SystemInv
<1>4. CASE UNCHANGED systemVars
  <2>1. UNCHANGED vars /\ UNCHANGED nodeVars /\ UNCHANGED phase
    BY <1>4 DEF systemVars, controllerVars, vars
  <2>2. TypeOK'
    BY <2>1, NextTyped, Zenon DEF SystemInv
  <2>3. StagedInUse'
    BY <2>1, Zenon DEF SystemInv, StagedInUse, nodeVars, Node!Volume, Node!VolumeOf
  <2>. QED
    BY <2>1, <2>2, <2>3, NodesKept, Zenon DEF SystemInv
<1>. QED
  BY <1>1, <1>2, <1>3, <1>4, Zenon DEF SystemNext

LEMMA SystemStart ==
    ASSUME SystemInit PROVE Init /\ SystemInv
<1>1. Init /\ TypeOK
  BY InitTyped, Zenon DEF SystemInit
<1>2. NP!NodeTypes
  <2>1. tracked \in [Volumes -> SUBSET Nodes]
    BY <1>1 DEF TypeOK
  <2>. QED
    BY <2>1, Zenon DEF SystemInit, NP!NodeTypes, NP!Idle, Node!Idle, NP!Places, Node!Places
<1>3. \A p \in NP!Places : NP!AsSeen(p)
  BY Zenon DEF SystemInit, NP!AsSeen, NP!IsUnstaged, NP!Places, Node!Places
<1>4. \A r \in NodeRequests : njob[r].pc = "idle"
  BY Zenon DEF SystemInit, Node!Idle
<1>5. NP!NodeInv
  BY <1>2, <1>3, <1>4, Zenon DEF NP!NodeInv, NP!OnePerPath, NP!Active
<1>6. StagedInUse
  BY <1>4, Zenon DEF SystemInit, StagedInUse
<1>. QED
  BY <1>1, <1>5, <1>6, Zenon DEF SystemInv

LEMMA SystemInvariant == SystemSpec => []SystemInv
<1>1. SystemInit => SystemInv
  BY SystemStart, Zenon
<1>2. SystemInv /\ [SystemNext]_systemVars => SystemInv'
  BY SystemStep
<1>. QED
  BY <1>1, <1>2, PTL DEF SystemSpec

\* The composed system implements ControllerServer: the node services are an
\* environment it allows for, so that its theorems hold with real nodes.
THEOREM SystemImplementsController ==
    SystemSpec => ImplementsControllerServer
<1>1. SystemInit => Init
  BY SystemStart, Zenon
<1>2. SystemInv /\ [SystemNext]_systemVars => [Next]_vars
  BY SystemStep, Zenon
<1>. QED
  BY <1>1, <1>2, SystemInvariant, PTL
     DEF SystemSpec, Spec, ImplementsControllerServer

\* In the composed system too, cleanUpIfNecessary of a node only meets a
\* staging directory whose BeeGFS is unmounted: no NodeUnstageVolume empties
\* the file system of the volumes.
THEOREM NodesSpareVolumes ==
    SystemSpec => []CleanUpSparesVolumes
<1>1. SystemInv => CleanUpSparesVolumes
  <2>. SUFFICES ASSUME SystemInv, NEW r \in NodeRequests, njob[r].pc = "clean"
                PROVE  ~(staged[njob[r].place].mounts > 0)
    BY Zenon DEF CleanUpSparesVolumes, Node!CleanUpOnlyUnmounted, Node!At, Node!Mounted,
         Node!Place
  <2>1. NP!Established(r)
    BY NodeOptions, NP!ActiveJob, Zenon DEF SystemInv, NP!Active
  <2>. QED
    BY <2>1 DEF NP!Established, NP!PointOfOp, NP!OfPlace, NP!StageHas
<1>. QED
  BY <1>1, SystemInvariant, PTL

\* A pod's target path is a working bind mount of a complete volume while the
\* volume is in use: CreateVolume's promise (UsableIsReady), NodeStageVolume's
\* and NodePublishVolume's together, through failures, retries and restarts.
THEOREM PodsSeeTheirVolume ==
    ASSUME "validate" \notin Handlers
    PROVE  SystemSpec => []PublishedIsUsable
<1>1. SystemInv /\ UsableVolumesAreReady => PublishedIsUsable
  <2>. SUFFICES ASSUME SystemInv, UsableVolumesAreReady,
                       NEW p \in Node!Places, NEW t \in Targets,
                       publish[p][t] = "published", phase[Node!VolumeOf(p)] = "use"
                PROVE  /\ bound[p][t] > 0 /\ staged[p].mounts > 0
                       /\ Ready(Node!VolumeOf(p))
    BY Zenon DEF PublishedIsUsable, Node!Mounted
  <2>1. NP!AsSeen(p)
    BY Zenon DEF SystemInv, NP!NodeInv, NP!Places, Node!Places
  <2>2. bound[p][t] = 1 /\ staged[p].mounts = 1
    BY <2>1 DEF NP!AsSeen, NP!IsStaged
  <2>3. Node!VolumeOf(p) \in Volumes
    BY Zenon DEF Node!Places, Node!VolumeOf
  <2>. QED
    BY <2>2, <2>3 DEF UsableVolumesAreReady
<1>. QED
  BY <1>1, SystemInvariant, SystemImplementsController, UsableIsReady, PTL
     DEF ImplementsControllerServer
-----------------------------------------------------------------------------
(***************************************************************************)
(* Deletion and the pods.  The node services once more, with the calls     *)
(* that fail as they are: if "track" is not among them, the invariant says *)
(* that a node with a staged volume is listed in csiDir/nodes.  The        *)
(* controller's handlers keep this: one that makes the directory works on  *)
(* a volume nobody uses (CreatingIsNew, Unused), and one that removes it   *)
(* leaves none of it if the removal does not fail half way.                *)
(***************************************************************************)
NL == INSTANCE NodeServerProofs WITH
    Requests <- NodeRequests, Failing <- NodeFailing,
    MaxFaults <- MaxNodeFaults, MaxRestarts <- MaxNodeRestarts,
    Overlap <- FALSE, Tracking <- TRUE,
    job <- njob, faults <- nfaults, restarts <- nrestarts,
    volDir <- [v \in Volumes |-> "dir" \in volDir[v]],
    csiDir <- [v \in Volumes |-> csiDir[v] = "nodes"]

LEMMA TrackingOptions ==
    /\ NoTarget \notin Targets
    /\ FALSE \in BOOLEAN /\ TRUE \in BOOLEAN
    /\ NodeFailing \subseteq NL!Points
    /\ MaxNodeFaults \in Nat /\ MaxNodeRestarts \in Nat
  BY NodeAssumption, Zenon DEF Node!Points, NL!Points

LEMMA SameTrackingCalls ==
    ASSUME NEW r \in NodeRequests
    PROVE  (Node!Call(r) => NL!Call(r)) /\ (Node!Step(r) => NL!Step(r))
<1>. USE DEF Node!At, NL!At, Node!Place, NL!Place, Node!Volume, NL!Volume,
         Node!VolumeOf, NL!VolumeOf, Node!NodeOf, NL!NodeOf,
         Node!Goto, NL!Goto, Node!Success, NL!Success, Node!Failure, NL!Failure,
         Node!Mounted, NL!Mounted, Node!agent, NL!agent, Node!beegfs, NL!beegfs
<1>a. Node!CallFails(r) => NL!CallFails(r)
  BY Zenon DEF Node!CallFails, NL!CallFails
<1>1. Node!Call(r) => NL!Call(r)
  BY Zenon DEF Node!Call, NL!Call, Node!Places, NL!Places,
       Node!NodeStageVolume, NL!NodeStageVolume,
       Node!NodeUnstageVolume, NL!NodeUnstageVolume,
       Node!NodePublishVolume, NL!NodePublishVolume,
       Node!NodeUnpublishVolume, NL!NodeUnpublishVolume,
       Node!Begin, NL!Begin, Node!Running, NL!Running
<1>2. Node!StatStagingDir(r) => NL!StatStagingDir(r)
  BY <1>a DEF Node!StatStagingDir, NL!StatStagingDir
<1>3. Node!WriteClientFiles(r) => NL!WriteClientFiles(r)
  BY <1>a DEF Node!WriteClientFiles, NL!WriteClientFiles
<1>4. Node!StatDirectory(r) => NL!StatDirectory(r)
  BY <1>a DEF Node!StatDirectory, NL!StatDirectory
<1>5. Node!IsLikelyNotMountPoint(r) => NL!IsLikelyNotMountPoint(r)
  BY <1>a DEF Node!IsLikelyNotMountPoint, NL!IsLikelyNotMountPoint
<1>6. Node!Mount(r) => NL!Mount(r)
  BY <1>a DEF Node!Mount, NL!Mount
<1>7. Node!Track(r) => NL!Track(r)
  BY <1>a, Zenon DEF Node!Track, NL!Track
<1>8. Node!Untrack(r) => NL!Untrack(r)
  BY <1>a DEF Node!Untrack, NL!Untrack
<1>9. Node!ListMounts(r) => NL!ListMounts(r)
  BY <1>a, Zenon DEF Node!ListMounts, NL!ListMounts
<1>10. Node!Unmount(r) => NL!Unmount(r)
  BY <1>a DEF Node!Unmount, NL!Unmount, Node!AfterUnmount, NL!AfterUnmount
<1>11. Node!CleanUp(r) => NL!CleanUp(r)
  BY <1>a, Zenon DEF Node!CleanUp, NL!CleanUp
<1>12. Node!IsMountPoint(r) => NL!IsMountPoint(r)
  BY <1>a, Zenon DEF Node!IsMountPoint, NL!IsMountPoint
<1>13. Node!Bind(r) => NL!Bind(r)
  BY <1>a, Zenon DEF Node!Bind, NL!Bind
<1>14. Node!Unbind(r) => NL!Unbind(r)
  BY <1>a, Zenon DEF Node!Unbind, NL!Unbind, Node!AfterUnmount, NL!AfterUnmount
<1>15. Node!Answer(r) => NL!Answer(r)
  BY <1>a, Zenon DEF Node!Answer, NL!Answer, Node!Awaited, NL!Awaited,
       Node!Acknowledge, NL!Acknowledge, Node!Idle, NL!Idle
<1>. QED
  BY <1>1, <1>2, <1>3, <1>4, <1>5, <1>6, <1>7, <1>8, <1>9, <1>10, <1>11, <1>12,
     <1>13, <1>14, <1>15 DEF Node!Step, NL!Step

LEMMA SameTrackingSteps ==
    ASSUME NodeStep PROVE NL!Next
<1>1. ASSUME NEW n \in Nodes, Node!Restart(n) PROVE NL!Restart(n)
  BY <1>1 DEF Node!Restart, NL!Restart, Node!Idle, NL!Idle, Node!NodeOf, NL!NodeOf,
       Node!agent, NL!agent, Node!beegfs, NL!beegfs
<1>2. ASSUME NEW p \in Node!Places,
             \/ Node!WantStaged(p) \/ Node!WantUnstaged(p)
             \/ \E t \in Targets :
                   Node!WantPublished(p, t) \/ Node!WantUnpublished(p, t)
      PROVE  NL!Agent
  BY <1>2, Zenon DEF NL!Agent, Node!Places, NL!Places, Node!WantStaged, NL!WantStaged,
       Node!WantUnstaged, NL!WantUnstaged, Node!WantPublished, NL!WantPublished,
       Node!WantUnpublished, NL!WantUnpublished, Node!beegfs, NL!beegfs
<1>. QED
  BY <1>1, <1>2, SameTrackingCalls DEF NodeStep, NL!Next

Unused ==
    \A p \in Node!Places : phase[Node!VolumeOf(p)] = "create" => want[p] = "unstaged"

\* A handler is at work only where the agent wants the volume.
LEMMA WantedPlace ==
    ASSUME NL!NodeInv, NEW q \in NodeRequests, NL!Active(q)
    PROVE  njob[q].place \in Node!Places /\ want[njob[q].place] # "unstaged"
<1>1. /\ NL!Attended(q) /\ njob[q].place \in NL!Places
      /\ ~NL!OfPlace(q) => njob[q].target \in Targets
  BY TrackingOptions, NL!ActiveJob, Zenon DEF NL!Place
<1>2. CASE NL!OfPlace(q)
  BY <1>1, <1>2, Zenon DEF NL!Attended, NL!StageWanted, Node!Places, NL!Places
<1>3. CASE ~NL!OfPlace(q)
  <2>1. publish[njob[q].place][njob[q].target] # "absent"
    BY <1>1, <1>3, Zenon DEF NL!Attended, NL!PublishWanted
  <2>2. NL!AsSeen(njob[q].place)
    BY <1>1, Zenon DEF NL!NodeInv
  <2>. QED
    BY <1>1, <1>3, <2>1, <2>2, Zenon DEF NL!AsSeen, Node!Places, NL!Places
<1>. QED
  BY <1>2, <1>3, Zenon

\* The nodes with a step of the controller that keeps their names.
LEMMA ListsKept ==
    ASSUME NL!NodeInv, TypeOK', UNCHANGED nodeVars,
           \A p \in Node!Places :
               want[p] # "unstaged" /\ NL!Listed(p) => NL!Listed(p)'
    PROVE  NL!NodeInv'
<1>1. NL!NodeTypes'
  <2>1. [v \in Volumes |-> csiDir[v] = "nodes"]' \in [Volumes -> BOOLEAN]
    OBVIOUS
  <2>2. tracked' \in [Volumes -> SUBSET Nodes]
    BY Zenon DEF TypeOK
  <2>. QED
    BY <2>1, <2>2, Zenon DEF NL!NodeInv, NL!NodeTypes, nodeVars
<1>2. NL!OnePerPath'
  BY Zenon DEF NL!NodeInv, NL!OnePerPath, NL!Active, nodeVars
<1>3. ASSUME NEW p \in NL!Places PROVE NL!AsSeen(p)'
  <2>1. NL!AsSeen(p) /\ p \in Node!Places
    BY <1>3, Zenon DEF NL!NodeInv, NL!Places, Node!Places
  <2>2. want[p] = "staged" => NL!IsStaged(p)'
    BY <2>1, Zenon DEF NL!AsSeen, NL!IsStaged, nodeVars
  <2>. QED
    BY <2>1, <2>2, Zenon DEF NL!AsSeen, NL!IsUnstaged, nodeVars
<1>5. ASSUME NEW q \in NodeRequests, NL!Active(q)'
      PROVE  NL!Attended(q)' /\ NL!Established(q)'
  <2>1. NL!Active(q)
    BY <1>5, Zenon DEF NL!Active, nodeVars
  <2>2. NL!Attended(q) /\ NL!Established(q)
    BY <2>1, TrackingOptions, NL!ActiveJob, Zenon
  <2>3. /\ NL!OfPlace(q) => NL!StageWanted(njob[q].op, want'[njob[q].place])
        /\ ~NL!OfPlace(q) =>
              NL!PublishWanted(njob[q].op, publish'[njob[q].place][njob[q].target])
    BY <2>2, Zenon DEF NL!Attended, nodeVars
  <2>4. NL!Listed(njob[q].place) => NL!Listed(njob[q].place)'
    <3>1. PICK p \in Node!Places : p = njob[q].place /\ want[p] # "unstaged"
      BY <2>1, WantedPlace, Zenon
    <3>2. NL!Listed(p) => NL!Listed(p)'
      BY <3>1, Zenon
    <3>. QED
      BY <3>1, <3>2, Zenon DEF nodeVars, NL!Listed
  <2>. QED
    BY <2>2, <2>3, <2>4, TrackingOptions, NL!HandlerFrame, Zenon DEF nodeVars
<1>. QED
  BY <1>1, <1>2, <1>3, <1>5, Zenon DEF NL!NodeInv

\* Nobody goes back to creating a volume ...
LEMMA CreateEnds ==
    ASSUME TypeOK, ControllerStep, NEW v \in Volumes, phase'[v] = "create"
    PROVE  phase[v] = "create"
<1>1. ASSUME NEW op, NEW w, Acknowledge(op, w) PROVE phase[v] = "create"
  BY <1>1, Zenon DEF Acknowledge, TypeOK
<1>2. ASSUME NEW r \in Requests, Arrive(r) PROVE phase[v] = "create"
  BY <1>1, <1>2, Zenon DEF Arrive, CreateVolume, DeleteVolume, ValidateVolumeCapabilities
<1>3. ASSUME NEW r \in Requests, Step(r) PROVE phase[v] = "create"
  <2>1. CASE ReleaseLock(r)
    BY <1>1, <2>1, Zenon DEF ReleaseLock
  <2>2. CASE ~ReleaseLock(r)
    <3>1. UNCHANGED phase
      BY <1>3, <2>2, Zenon DEF Step, ObtainLock, MakeMountDir, WriteClientFiles, Mount,
           CreateDirectory, SetPattern, Chmod, CreateNodesDirectory,
           WriteStatusCreated, Poll, RemoveCsiDirectory, RemoveVolumeDirectory,
           StatDirectory, ListMounts, Unmount, RemoveMountDir, WriteStatusDeleted
    <3>. QED
      BY <3>1, Zenon
  <2>. QED
    BY <2>1, <2>2, Zenon
<1>. QED
  BY <1>2, <1>3, Zenon DEF ControllerStep, Restart

\* ... and a node is asked for one only when it is in use.
LEMMA UnusedStep ==
    ASSUME SystemInv, NL!NodeInv, Unused, [SystemNext]_systemVars
    PROVE  Unused'
<1>0. \A p \in Node!Places : Node!VolumeOf(p) \in Volumes
  BY Zenon DEF Node!Places, Node!VolumeOf
<1>1. ASSUME UNCHANGED want,
             \A v \in Volumes : phase'[v] = "create" => phase[v] = "create"
      PROVE  Unused'
  BY <1>0, <1>1, Zenon DEF Unused
<1>2. CASE ControllerStep
  <2>1. UNCHANGED want
    BY <1>2, Zenon DEF ControllerStep, nodeVars
  <2>. QED
    BY <1>1, <1>2, <2>1, CreateEnds, Zenon DEF SystemInv
<1>3. ASSUME NEW v \in Volumes, Delete(v) PROVE Unused'
  BY <1>1, <1>3, Zenon DEF Delete, WantDeleted, nodeVars, SystemInv, TypeOK
<1>4. CASE NodeStep
  <2>0. UNCHANGED phase
    BY <1>4, Zenon DEF NodeStep, controllerVars
  <2>. SUFFICES ASSUME NEW p \in Node!Places, phase[Node!VolumeOf(p)] = "create"
                PROVE  want'[p] = "unstaged"
    BY <2>0, Zenon DEF Unused
  <2>1. want[p] = "unstaged"
    BY Zenon DEF Unused
  <2>2. want \in [Node!Places -> {"unstaged", "staging", "staged", "unstaging"}]
    BY Zenon DEF SystemInv, NP!NodeInv, NP!NodeTypes, NP!Places, Node!Places
  <2>3. ASSUME NEW r \in NodeRequests, Node!Call(r) PROVE UNCHANGED want
    BY <2>3, Zenon DEF Node!Call, Node!NodeStageVolume, Node!NodeUnstageVolume,
         Node!NodePublishVolume, Node!NodeUnpublishVolume, Node!Begin, Node!agent
  <2>4. ASSUME NEW r \in NodeRequests, Node!Step(r), ~Node!Answer(r)
        PROVE  UNCHANGED want
    BY <2>4, Zenon DEF Node!Step, Node!StatStagingDir, Node!WriteClientFiles,
         Node!StatDirectory, Node!IsLikelyNotMountPoint, Node!Mount, Node!Track,
         Node!Untrack, Node!ListMounts, Node!Unmount, Node!CleanUp,
         Node!IsMountPoint, Node!Bind, Node!Unbind, Node!agent
  <2>5. ASSUME NEW r \in NodeRequests, Node!Answer(r) PROVE want'[p] = "unstaged"
    <3>1. \E x \in {"staged", "unstaged"} :
              want' \in {want, [want EXCEPT ![njob[r].place] = x]}
      BY <2>5, Zenon DEF Node!Answer, Node!Acknowledge, Node!agent
    <3>2. njob[r].place # p
      BY <2>1, <2>5, WantedPlace, Zenon DEF Node!Answer, Node!At, NL!Active
    <3>. QED
      BY <2>1, <2>2, <3>1, <3>2, Zenon
  <2>6. ASSUME NEW x \in Node!Places,
               \/ phase[Node!VolumeOf(x)] = "use" /\ Node!WantStaged(x)
               \/ Node!WantUnstaged(x)
               \/ \E t \in Targets :
                     Node!WantPublished(x, t) \/ Node!WantUnpublished(x, t)
        PROVE  want'[p] = "unstaged"
    BY <2>1, <2>2, <2>6, Zenon DEF Node!WantStaged, Node!WantUnstaged, Node!WantPublished,
         Node!WantUnpublished
  <2>7. ASSUME NEW n \in Nodes, Node!Restart(n) PROVE UNCHANGED want
    BY <2>7, Zenon DEF Node!Restart, Node!agent
  <2>. QED
    BY <1>4, <2>1, <2>3, <2>4, <2>5, <2>6, <2>7, Zenon DEF NodeStep
<1>5. CASE UNCHANGED systemVars
  BY <1>1, <1>5, Zenon DEF systemVars, controllerVars, nodeVars
<1>. QED
  BY <1>2, <1>3, <1>4, <1>5, Zenon DEF SystemNext

\* What the controller does to csiDir/nodes of a volume that a node wants.
LEMMA ControllerKeepsLists ==
    ASSUME "removeCsi" \notin Failing, TypeOK, PointsMatchOps, CleanUpOnlyUnmounted,
           CreatingIsNew, Unused, ControllerStep,
           NEW p \in Node!Places, want[p] # "unstaged", NL!Listed(p)
    PROVE  NL!Listed(p)'
<1>. USE DEF At
<1>. DEFINE v == Node!VolumeOf(p)
<1>0. v \in Volumes /\ phase[v] # "create"
  BY Zenon DEF Unused, Node!Places, Node!VolumeOf
<1>1. ASSUME csiDir'[v] = "nodes" => csiDir[v] = "nodes" /\ tracked'[v] = tracked[v]
      PROVE  NL!Listed(p)'
  BY <1>0, <1>1, Zenon DEF NL!Listed, NL!VolumeOf, Node!VolumeOf, NL!NodeOf
<1>. HIDE DEF v
<1>2. ASSUME NEW r \in Requests, Step(r), Advances(r)
      PROVE  csiDir'[v] = "nodes" => csiDir[v] = "nodes" /\ tracked'[v] = tracked[v]
  <2>0. Locked(r) /\ job[r].pc # "idle"
    BY <1>2, Zenon DEF Advances, Locked
  <2>1. CASE v # job[r].vol
    BY <1>0, <1>2, <2>0, <2>1, OthersVolumes, Zenon
  <2>2. CASE v = job[r].vol
    <3>1. ~CreateNodesDirectory(r)
      BY <1>0, <2>2, Zenon DEF CreateNodesDirectory, CreatingIsNew, Creating, PointsMatchOps,
         PointOfOp
    <3>2. CASE RemoveCsiDirectory(r)
      <4>1. csiDir' = [csiDir EXCEPT ![v] = "absent"]
        BY <2>2, <3>2, Zenon DEF RemoveCsiDirectory, CallFails
      <4>. QED
        BY <1>0, <4>1, Zenon DEF TypeOK
    <3>3. CASE RemoveMountDir(r)
      BY <3>3, Zenon DEF RemoveMountDir, CleanUpOnlyUnmounted, beegfs
    <3>. QED
      BY <1>2, <3>1, <3>2, <3>3, Zenon DEF Step, ObtainLock, MakeMountDir, WriteClientFiles,
         Mount, Unmount, CreateDirectory, SetPattern, Chmod, RemoveVolumeDirectory,
         WriteStatusCreated, Poll, StatDirectory, ListMounts, WriteStatusDeleted,
         ReleaseLock, beegfs
  <2>. QED
    BY <2>1, <2>2, Zenon
<1>3. ASSUME NEW r \in Requests, Arrive(r) \/ ObtainLock(r) \/ ReleaseLock(r)
      PROVE  UNCHANGED <<csiDir, tracked>>
  BY <1>3, Zenon DEF Arrive, CreateVolume, DeleteVolume, ValidateVolumeCapabilities, Begin,
     ObtainLock, ReleaseLock, beegfs
<1>4. ASSUME Restart PROVE UNCHANGED <<csiDir, tracked>>
  BY <1>4, Zenon DEF Restart, beegfs
<1>. QED
  BY <1>1, <1>2, <1>3, <1>4, StepAdvances, Zenon DEF ControllerStep

\* The invariant of the composed system if the calls that keep csiDir/nodes
\* do not fail.
ListInv == NL!NodeInv /\ Unused /\ CreatingIsNew

LEMMA ListStep ==
    ASSUME "removeCsi" \notin Failing, SystemInv, LocksMatchHandlers,
           PointsMatchOps, CleanUpOnlyUnmounted, ListInv, [SystemNext]_systemVars,
           CheckHolds
    PROVE  ListInv'
<1>1. [Next]_vars /\ TypeOK /\ TypeOK'
  BY SystemStep, Zenon DEF SystemInv
<1>2. Unused'
  BY UnusedStep, Zenon DEF ListInv
<1>3. CreatingIsNew'
  BY <1>1, CreatingStep, Zenon DEF ListInv
<1>4. NL!NodeInv'
  <2>1. CASE ControllerStep
    <3>1. UNCHANGED nodeVars
      BY <2>1, Zenon DEF ControllerStep
    <3>. QED
      BY <1>1, <2>1, <3>1, ControllerKeepsLists, ListsKept, Zenon DEF ListInv
  <2>2. ASSUME UNCHANGED <<csiDir, tracked, nodeVars>> PROVE NL!NodeInv'
    <3>1. \A p \in Node!Places : NL!Listed(p) => NL!Listed(p)'
      BY <2>2, Zenon DEF NL!Listed
    <3>. QED
      BY <1>1, <2>2, <3>1, ListsKept, Zenon DEF ListInv
  <2>3. ASSUME NEW v \in Volumes, Delete(v) PROVE UNCHANGED <<csiDir, tracked, nodeVars>>
    BY <2>3 DEF Delete, WantDeleted, beegfs
  <2>4. CASE NodeStep
    BY <2>4, SameTrackingSteps, TrackingOptions, NL!NodeInvStep, Zenon DEF ListInv
  <2>5. CASE UNCHANGED systemVars
    BY <2>2, <2>5, Zenon DEF systemVars, controllerVars
  <2>. QED
    BY <2>1, <2>2, <2>3, <2>4, <2>5, Zenon DEF SystemNext
<1>. QED
  BY <1>2, <1>3, <1>4, Zenon DEF ListInv

LEMMA ListStart ==
    ASSUME SystemInit PROVE ListInv
<1>1. Init /\ TypeOK
  BY SystemStart, Zenon DEF SystemInv
<1>2. NL!NodeTypes
  <2>1. tracked \in [Volumes -> SUBSET Nodes]
    BY <1>1 DEF TypeOK
  <2>. QED
    BY <2>1, Zenon DEF SystemInit, NL!NodeTypes, NL!Idle, Node!Idle, NL!Places, Node!Places
<1>3. \A p \in NL!Places : NL!AsSeen(p)
  BY Zenon DEF SystemInit, NL!AsSeen, NL!IsUnstaged, NL!Places, Node!Places
<1>4. \A r \in NodeRequests : njob[r].pc = "idle"
  BY Zenon DEF SystemInit, Node!Idle
<1>5. NL!NodeInv
  BY <1>2, <1>3, <1>4 DEF NL!NodeInv, NL!OnePerPath, NL!Active
<1>6. Unused
  BY Zenon DEF SystemInit, Unused
<1>7. CreatingIsNew
  BY <1>1, Zenon DEF Init, Idle, CreatingIsNew, Creating
<1>. QED
  BY <1>5, <1>6, <1>7, Zenon DEF ListInv

\* A node with a bind mount of the volume is in the list.
LEMMA BoundIsListed ==
    ASSUME "track" \notin NodeFailing, NL!NodeInv, NEW v \in Volumes,
           csiDir[v] = "nodes", BoundSomewhere(v)
    PROVE  tracked[v] # {}
<1>1. PICK p \in Node!Places, t \in Targets : Node!VolumeOf(p) = v /\ bound[p][t] > 0
  BY DEF BoundSomewhere
<1>2. NL!AsSeen(p)
  BY <1>1, Zenon DEF NL!NodeInv, NL!Places, Node!Places
<1>3. publish[p][t] # "absent"
  BY <1>1, <1>2 DEF NL!AsSeen
<1>4. NL!Listed(p)
  BY <1>1, <1>2, <1>3, Zenon DEF NL!AsSeen, NL!IsStaged
<1>5. NL!NodeOf(p) \in tracked[v]
  BY <1>1, <1>4, Zenon DEF NL!Listed, NL!VolumeOf, Node!VolumeOf
<1>. QED
  BY <1>5, Zenon

\* One step of the controller on a volume whose csiDir/nodes is there.
LEMMA RemovalStep ==
    ASSUME "track" \notin NodeFailing, TypeOK, PointsMatchOps, CleanUpOnlyUnmounted,
           WaitInv, NL!NodeInv, [Next]_vars, NEW v \in Volumes, csiDir[v] = "nodes"
    PROVE  /\ volDir[v] \subseteq volDir'[v]
           /\ csiDir'[v] # "nodes" /\ BoundSomewhere(v) => WaitedFor(v)
<1>. USE DEF At
<1>1. ASSUME volDir'[v] = volDir[v], csiDir'[v] = csiDir[v]
      PROVE  /\ volDir[v] \subseteq volDir'[v]
             /\ csiDir'[v] # "nodes" /\ BoundSomewhere(v) => WaitedFor(v)
  BY <1>1, Zenon
<1>2. ASSUME NEW r \in Requests, Step(r), Advances(r)
      PROVE  /\ volDir[v] \subseteq volDir'[v]
             /\ csiDir'[v] # "nodes" /\ BoundSomewhere(v) => WaitedFor(v)
  <2>0. Locked(r) /\ job[r].pc # "idle" /\ Waited(r)
    BY <1>2, Zenon DEF Advances, Locked, WaitInv
  <2>1. CASE v # job[r].vol
    BY <1>1, <1>2, <2>0, <2>1, OthersVolumes, Zenon
  <2>2. CASE v = job[r].vol
    <3>1. CASE CreateDirectory(r) \/ SetPattern(r) \/ Chmod(r)
      <4>1. PICK f : volDir' \in {volDir, [volDir EXCEPT ![v] = @ \cup {f}]}
        BY <2>2, <3>1, Zenon DEF CreateDirectory, SetPattern, Chmod, OnVolume
      <4>2. csiDir' = csiDir
        BY <3>1, Zenon DEF CreateDirectory, SetPattern, Chmod
      <4>. QED
        BY <4>1, <4>2, Zenon DEF TypeOK
    <3>2. CASE CreateNodesDirectory(r)
      BY <2>2, <3>2, Zenon DEF CreateNodesDirectory, TypeOK
    <3>3. CASE RemoveCsiDirectory(r)
      <4>1. UNCHANGED volDir /\ job[r].op = "delete" /\ job[r].pc = "removeCsi"
        BY <3>3, Zenon DEF RemoveCsiDirectory, PointsMatchOps, PointOfOp
      <4>2. BoundSomewhere(v) => tracked[v] # {}
        BY BoundIsListed, Zenon
      <4>3. tracked[v] = {} \/ job[r].waited >= NodeUnstageTimeout
        BY <2>0, <2>2, <4>1, Zenon DEF Waited
      <4>. QED
        BY <2>2, <4>1, <4>2, <4>3, Zenon DEF WaitedFor
    <3>4. ~RemoveVolumeDirectory(r)
      BY <2>0, <2>2, Zenon DEF RemoveVolumeDirectory, Waited
    <3>5. CASE RemoveMountDir(r)
      BY <1>1, <3>5, Zenon DEF RemoveMountDir, CleanUpOnlyUnmounted, beegfs
    <3>6. ASSUME ~CreateDirectory(r), ~SetPattern(r), ~Chmod(r), ~CreateNodesDirectory(r),
                 ~RemoveCsiDirectory(r), ~RemoveMountDir(r)
          PROVE  UNCHANGED <<volDir, csiDir>>
      BY <1>2, <3>4, <3>6, Zenon DEF Step, ObtainLock, MakeMountDir, WriteClientFiles, Mount,
         Unmount, WriteStatusCreated, Poll, StatDirectory, ListMounts,
         WriteStatusDeleted, ReleaseLock, beegfs
    <3>. QED
      BY <1>1, <3>1, <3>2, <3>3, <3>5, <3>6, Zenon
  <2>. QED
    BY <2>1, <2>2, Zenon
<1>3. ASSUME NEW r \in Requests, Arrive(r) \/ ObtainLock(r) \/ ReleaseLock(r)
      PROVE  UNCHANGED <<volDir, csiDir>>
  BY <1>3, Zenon DEF Arrive, CreateVolume, DeleteVolume, ValidateVolumeCapabilities, Begin,
     ObtainLock, ReleaseLock, beegfs
<1>4. ASSUME Restart \/ Environment \/ UNCHANGED vars PROVE UNCHANGED <<volDir, csiDir>>
  BY <1>4, Zenon DEF Restart, Environment, WantDeleted, TrackNode, UntrackNode, beegfs, vars
<1>. QED
  BY <1>1, <1>2, <1>3, <1>4, StepAdvances, Zenon DEF Next

\* A DeleteVolume that comes too early is no danger to the pods for the whole
\* of --node-unstage-timeout: deleteVolumeUntilWait removes nothing of the
\* volume while csiDir/nodes is there, and while the volume is bind mounted
\* anywhere it removes csiDir/nodes only after the whole wait.  This rests on
\* the nodes' best-effort calls that keep csiDir/nodes, on a removal of
\* csiDir/nodes that does not fail half way, and on status checks of CreateVolume
\* that still hold when it takes the lock: one that is delayed in between may
\* make csiDir/nodes anew when nodes have already staged the volume.
THEOREM DeletionSparesPods ==
    ASSUME "validate" \notin Handlers, "removeCsi" \notin Failing,
           "track" \notin NodeFailing
    PROVE  SystemSpec /\ [][CheckHolds]_systemVars => DeletionWaitsForPods
<1>. DEFINE Waits == \A v \in Volumes :
                        /\ csiDir[v] = "nodes" => volDir[v] \subseteq volDir'[v]
                        /\ csiDir[v] = "nodes" /\ csiDir'[v] # "nodes"
                           /\ BoundSomewhere(v) => WaitedFor(v)
            Known == /\ SystemInv /\ LocksMatchHandlers /\ PointsMatchOps
                     /\ CleanUpOnlyUnmounted /\ ReadyInv /\ WaitInv
<1>1. SystemInit => ListInv
  BY ListStart, Zenon
<1>2. Init => ReadyInv /\ WaitInv
  BY DEF Init, ReadyInv, UsableVolumesAreReady, Idle, WaitInv, Waited,
       MountsSpecial, TrackedIsFinished
<1>3. /\ TypeOK /\ LocksMatchHandlers /\ PointsMatchOps /\ CleanUpOnlyUnmounted
      /\ ReadyInv /\ WaitInv /\ [Next]_vars
      => ReadyInv' /\ WaitInv'
  BY ReadyStep, WaitStep, Zenon
<1>4. SystemSpec => []Known
  BY <1>2, <1>3, SystemInvariant, SystemImplementsController, TypeCorrect,
     MutualExclusion, PointsOfOps, CleanUpIsSafe, PTL
     DEF Spec, ImplementsControllerServer
<1>5. Known /\ ListInv /\ [SystemNext]_systemVars /\ [CheckHolds]_systemVars => ListInv'
  <2>. SUFFICES ASSUME Known, ListInv, [SystemNext]_systemVars, [CheckHolds]_systemVars
                PROVE  ListInv'
    OBVIOUS
  <2>1. CASE UNCHANGED systemVars
    <3>1. CheckHolds
      BY <2>1, Zenon DEF CheckHolds, At, systemVars, controllerVars
    <3>. QED
      BY <3>1, ListStep, Zenon
  <2>. QED
    BY <2>1, ListStep, Zenon
<1>6. Known /\ ListInv /\ [SystemNext]_systemVars => [Waits]_systemVars
  <2>. SUFFICES ASSUME Known, ListInv, [SystemNext]_systemVars PROVE Waits
    OBVIOUS
  <2>1. [Next]_vars /\ TypeOK
    BY SystemStep DEF SystemInv
  <2>. QED
    BY <2>1, RemovalStep, Zenon DEF ListInv
<1>. QED
  BY <1>1, <1>4, <1>5, <1>6, PTL DEF SystemSpec, DeletionWaitsForPods
=============================================================================
