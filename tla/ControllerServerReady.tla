----------------------- MODULE ControllerServerReady ------------------------
(***************************************************************************)
(* The cleanup of Create and Delete, what an acknowledged CreateVolume     *)
(* guarantees, and the wait of DeleteVolume.                               *)
(***************************************************************************)
EXTENDS ControllerServerProofs

\* Each handler reaches only the points of its own operation.
PointOfOp(op, point) ==
    /\ point \in {"createDir", "setPattern", "chmod", "nodesDir", "created"} =>
          op = "create"
    /\ point \in {"poll", "removeCsi", "removeVol", "deleted"} => op = "delete"
    /\ point = "mount" => op \in {"create", "delete"}
    /\ point = "stat" => op = "validate"

PointsMatchOps ==
    \A r \in Requests : /\ PointOfOp(job[r].op, job[r].pc)
                        /\ job[r].op = "validate" => "validate" \in Handlers

\* Where a handler may be after a call, and what it has kept of its job.
LEMMA GotoPoint ==
    ASSUME TypeOK, NEW r \in Requests, job[r].pc # "idle", NEW point,
           Goto(r, point)
    PROVE  /\ job'[r].pc = point /\ job'[r].ok = job[r].ok
           /\ job'[r].op = job[r].op /\ job'[r].vol = job[r].vol
           /\ \A q \in Requests \ {r} : job'[q] = job[q]
  BY ActiveJob DEF Goto, TypeOK, Jobs

\* The same for an error return.
LEMMA ReturnPoint ==
    ASSUME TypeOK, NEW r \in Requests, job[r].pc # "idle", Return(r)
    PROVE  /\ job'[r].pc = AfterError(r) /\ job'[r].ok = StillOk(r)
           /\ job'[r].op = job[r].op /\ job'[r].vol = job[r].vol
           /\ \A q \in Requests \ {r} : job'[q] = job[q]
  BY ActiveJob DEF Return, TypeOK, Jobs

\* A call takes a handler only to points of its own operation, and to the
\* removal of mountDirPath only from a successful unmount or, in
\* ValidateVolumeCapabilities, from anywhere.
LEMMA StepPoint ==
    ASSUME TypeOK, NEW r \in Requests, PointOfOp(job[r].op, job[r].pc),
           Step(r), Advances(r)
    PROVE  /\ PointOfOp(job'[r].op, job'[r].pc)
           /\ job'[r].op = job[r].op
           /\ job'[r].pc = "remove" /\ job[r].op # "validate" => Unmount(r)
<1>. USE DEF At, PointOfOp
<1>0. job[r] \in Jobs /\ job'[r].op = job[r].op
  BY ActiveJob, Zenon DEF Advances, Locked, TypeOK
<1>a. PointOfOp(job[r].op, AfterError(r))
  BY <1>0, Zenon DEF AfterError, AfterCleanup, Jobs, Ops
<1>b. AfterError(r) = "remove" => job[r].op = "validate"
  BY Zenon DEF AfterError, AfterCleanup
<1>c. PointOfOp(job[r].op, AfterCleanup(r)) /\ AfterCleanup(r) # "remove"
  BY Zenon DEF AfterCleanup
<1>d. job[r].op \in Ops /\ job[r].pc # "idle"
  BY <1>0, Zenon DEF Jobs, Points
<1>e. ASSUME Return(r)
      PROVE  /\ PointOfOp(job'[r].op, job'[r].pc)
             /\ job'[r].pc = "remove" => job[r].op = "validate"
  <2>1. job'[r].pc = AfterError(r)
    BY <1>d, <1>e, ReturnPoint, Zenon
  <2>. QED
    BY <1>0, <1>a, <1>b, <2>1, Zenon
<1>f. ASSUME NEW point, Goto(r, point), PointOfOp(job[r].op, point)
      PROVE  PointOfOp(job'[r].op, job'[r].pc) /\ job'[r].pc = point
  <2>1. job'[r].pc = point
    BY <1>d, <1>f, GotoPoint, Zenon
  <2>. QED
    BY <1>0, <1>f, <2>1, Zenon
<1>1. CASE MakeMountDir(r) \/ WriteClientFiles(r) \/ Mount(r)
  <2>1. CASE Return(r)
    BY <1>0, <1>e, <2>1, Zenon
  <2>2. CASE MakeMountDir(r) /\ Goto(r, "write")
    BY <1>0, <1>f, <2>2
  <2>3. CASE WriteClientFiles(r) /\ ~Return(r)
    <3>1. PICK point \in {"createDir", "mount", "stat"} :
              /\ Goto(r, point)
              /\ point = CASE job[r].op = "create" -> "createDir"
                           [] job[r].op = "delete" -> "mount"
                           [] OTHER -> "stat"
      BY <2>3, Zenon DEF WriteClientFiles, OnHost
    <3>2. PointOfOp(job[r].op, point)
      BY <1>d, <3>1, Zenon DEF Ops
    <3>. QED
      BY <1>0, <1>f, <3>1, <3>2, Zenon
  <2>4. CASE Mount(r) /\ ~Return(r)
    <3>1. PICK point \in {"chmod", "poll"} :
              Goto(r, point) /\ point = IF job[r].op = "create" THEN "chmod" ELSE "poll"
      BY <2>4, Zenon DEF Mount, OnHost
    <3>2. PointOfOp(job[r].op, point)
      BY <2>4, <3>1, Zenon DEF Mount
    <3>. QED
      BY <1>0, <1>f, <3>1, <3>2, Zenon
  <2>. QED
    BY <1>1, <2>1, <2>2, <2>3, <2>4, Zenon DEF MakeMountDir, OnHost
<1>2. CASE CreateDirectory(r) \/ SetPattern(r) \/ Chmod(r)
  <2>1. CASE Return(r)
    BY <1>0, <1>e, <2>1, Zenon
  <2>2. CASE ~Return(r)
    <3>1. PICK point \in {"setPattern", "mount", "nodesDir"} : Goto(r, point)
      BY <1>2, <2>2, Zenon DEF CreateDirectory, SetPattern, Chmod, OnVolume
    <3>2. job[r].op = "create"
      BY <1>2, Zenon DEF CreateDirectory, SetPattern, Chmod
    <3>3. PointOfOp(job[r].op, point)
      BY <3>1, <3>2, Zenon
    <3>. QED
      BY <1>0, <1>f, <3>1, <3>3, Zenon
  <2>. QED
    BY <2>1, <2>2, Zenon
<1>3. CASE \/ CreateNodesDirectory(r) \/ WriteStatusCreated(r)
           \/ RemoveCsiDirectory(r) \/ RemoveVolumeDirectory(r)
           \/ ListMounts(r) \/ WriteStatusDeleted(r)
  <2>1. CASE Return(r)
    BY <1>0, <1>e, <2>1, Zenon
  <2>2. CASE ~Return(r)
    <3>1. PICK point \in {"created", "list", "removeVol", "unmount", "release"} :
              /\ Goto(r, point)
              /\ point = "created" => At(r, "nodesDir")
              /\ point = "removeVol" => At(r, "removeCsi")
      BY <1>3, <2>2, Zenon
         DEF CreateNodesDirectory, WriteStatusCreated, RemoveCsiDirectory,
             RemoveVolumeDirectory, ListMounts, WriteStatusDeleted
    <3>2. PointOfOp(job[r].op, point)
      BY <3>1, Zenon
    <3>. QED
      BY <1>0, <1>f, <3>1, <3>2, Zenon
  <2>. QED
    BY <2>1, <2>2, Zenon
<1>4. CASE Unmount(r)
  <2>1. Return(r) \/ Goto(r, "remove")
    BY <1>4, Zenon DEF Unmount, OnHost
  <2>2. PointOfOp(job'[r].op, job'[r].pc)
    BY <1>e, <1>f, <2>1, Zenon
  <2>. QED
    BY <1>0, <1>4, <2>2, Zenon
<1>5. CASE RemoveMountDir(r)
  <2>1. Return(r) \/ Goto(r, AfterCleanup(r))
    BY <1>5, Zenon DEF RemoveMountDir, OnHost
  <2>. QED
    BY <1>0, <1>c, <1>e, <1>f, <2>1, Zenon
<1>6. CASE Poll(r)
  <2>1. CASE \E t \in (job[r].waited + 1)..NodeUnstageTimeout :
                 job' = [job EXCEPT ![r].waited = t]
    BY <1>0, <1>6, <2>1 DEF Poll, TypeOK, Jobs
  <2>2. CASE Return(r)
    BY <1>0, <1>e, <2>2, Zenon
  <2>3. CASE Goto(r, "removeVol") \/ Goto(r, "removeCsi")
    <3>1. job[r].op = "delete"
      BY <1>6, Zenon DEF Poll
    <3>. QED
      BY <1>0, <1>f, <2>3, <3>1
  <2>. QED
    BY <1>6, <2>1, <2>2, <2>3, Zenon DEF Poll
<1>7. CASE StatDirectory(r)
  <2>1. CASE Return(r)
    BY <1>0, <1>7, <1>a, <1>b, <2>1, ReturnPoint, Zenon DEF StatDirectory
  <2>2. CASE job' = [job EXCEPT ![r].pc = "remove",
                                ![r].ok = "dir" \in volDir[job[r].vol]]
    <3>1. job'[r].pc = "remove"
      BY <1>0, <2>2, Zenon DEF TypeOK, Jobs
    <3>. QED
      BY <1>0, <1>7, <3>1, Zenon DEF StatDirectory
  <2>. QED
    BY <1>7, <2>1, <2>2, Zenon DEF StatDirectory
<1>8. CASE ObtainLock(r) \/ ReleaseLock(r)
  <2>1. CASE ReleaseLock(r)
    BY <2>1, <1>0, Zenon DEF ReleaseLock, Idle, TypeOK, Jobs, Ops
  <2>. QED
    BY <1>8, <2>1, Zenon DEF ObtainLock, Advances, Locked
<1>. QED
  BY <1>1, <1>2, <1>3, <1>4, <1>5, <1>6, <1>7, <1>8, Zenon DEF Step

\* Every handler stays at the points of its own operation.
LEMMA PointsOfOps == Spec => []PointsMatchOps
<1>1. Init => PointsMatchOps
  BY DEF Init, PointsMatchOps, PointOfOp, Idle
<1>2. TypeOK /\ PointsMatchOps /\ [Next]_vars => PointsMatchOps'
  <2>. SUFFICES ASSUME TypeOK, PointsMatchOps, [Next]_vars
                PROVE  PointsMatchOps'
    OBVIOUS
  <2>1. ASSUME NEW r \in Requests, Arrive(r) PROVE PointsMatchOps'
    <3>1. \/ UNCHANGED job
          \/ \E op \in Ops, v \in Volumes :
                Begin(r, op, v) /\ (op = "validate" => "validate" \in Handlers)
      BY <2>1, Zenon DEF Arrive, CreateVolume, DeleteVolume,
                  ValidateVolumeCapabilities, Ops
    <3>. QED
      BY <3>1 DEF Begin, PointsMatchOps, PointOfOp, TypeOK
  <2>2. ASSUME NEW r \in Requests, ObtainLock(r) PROVE PointsMatchOps'
    <3>1. CASE job' = [job EXCEPT ![r] = Idle]
      BY <3>1 DEF PointsMatchOps, PointOfOp, TypeOK, Idle
    <3>. QED
      BY <2>2, <3>1, GotoPoint DEF ObtainLock, At, PointsMatchOps, PointOfOp
  <2>3. ASSUME NEW r \in Requests, ReleaseLock(r) PROVE PointsMatchOps'
    BY <2>3, Zenon DEF ReleaseLock, PointsMatchOps, PointOfOp, TypeOK, Idle
  <2>4. ASSUME NEW r \in Requests, Step(r), Advances(r) PROVE PointsMatchOps'
    <3>1. \A q \in Requests \ {r} : job'[q] = job[q]
      BY <2>4, Zenon DEF Advances, TypeOK
    <3>. QED
      BY <2>4, <3>1, StepPoint, Zenon DEF PointsMatchOps
  <2>5. ASSUME Restart PROVE PointsMatchOps'
    BY <2>5, Zenon DEF Restart, PointsMatchOps, PointOfOp, Idle
  <2>6. ASSUME Environment \/ UNCHANGED vars PROVE PointsMatchOps'
    BY <2>6, Zenon DEF Environment, WantDeleted, TrackNode, UntrackNode, vars,
                PointsMatchOps
  <2>. QED
    BY <2>1, <2>2, <2>3, <2>4, <2>5, <2>6, StepAdvances, Zenon DEF Next
<1>. QED
  BY <1>1, <1>2, TypeCorrect, PTL DEF Spec

\* Two handlers under locks have different directories: the lock is on the
\* volume ID, the directory is named by sanitizeVolumeID.
LEMMA OwnDirectory ==
    ASSUME TypeOK, LocksMatchHandlers, NEW r \in Requests, NEW q \in Requests,
           q # r, Locked(r), Locked(q)
    PROVE  Dir(q) # Dir(r)
<1>1. job[r].vol # job[q].vol
  BY Zenon DEF LocksMatchHandlers
<1>2. job[r].vol \in Volumes /\ job[q].vol \in Volumes
  BY ActiveJob, Zenon DEF Locked
<1>. QED
  BY <1>1, <1>2, MountDirAssumption, Zenon DEF Dir

\* A call changes at most its own handler's directory.
LEMMA OthersDirectories ==
    ASSUME TypeOK, NEW r \in Requests, Step(r), NEW d \in Dirs, d # Dir(r)
    PROVE  host'[d] = host[d]
<1>1. ASSUME NEW h, host' = [host EXCEPT ![Dir(r)] = h] PROVE host'[d] = host[d]
  BY <1>1, Zenon DEF TypeOK
<1>2. CASE MakeMountDir(r) \/ WriteClientFiles(r) \/ Mount(r) \/ Unmount(r)
  BY <1>1, <1>2, Zenon DEF MakeMountDir, WriteClientFiles, Mount, Unmount, OnHost
<1>3. CASE RemoveMountDir(r)
  BY <1>1, <1>3, Zenon DEF RemoveMountDir, OnHost
<1>4. CASE \/ ObtainLock(r) \/ CreateDirectory(r) \/ SetPattern(r) \/ Chmod(r)
           \/ CreateNodesDirectory(r) \/ WriteStatusCreated(r) \/ Poll(r)
           \/ RemoveCsiDirectory(r) \/ RemoveVolumeDirectory(r)
           \/ StatDirectory(r) \/ ListMounts(r) \/ WriteStatusDeleted(r)
           \/ ReleaseLock(r)
  BY <1>4, Zenon DEF ObtainLock, CreateDirectory, SetPattern, Chmod,
       CreateNodesDirectory, WriteStatusCreated, Poll, RemoveCsiDirectory,
       RemoveVolumeDirectory, StatDirectory, ListMounts, WriteStatusDeleted,
       ReleaseLock
<1>. QED
  BY <1>2, <1>3, <1>4, Zenon DEF Step

\* A successful CleanupMountPoint leaves nothing mounted.
LEMMA UnmountedAtRemove ==
    ASSUME TypeOK, NEW r \in Requests, Unmount(r), job[r].op # "validate",
           job'[r].pc = "remove"
    PROVE  host'[Dir(r)].mnt # "mounted"
<1>1. job[r].pc = "unmount" /\ Dir(r) \in Dirs /\ host[Dir(r)] \in HostDirs
  BY ActiveJob, Zenon DEF Unmount, At
<1>2. PICK o \in CleanupMountPoint(host[Dir(r)]) :
          /\ host' = [host EXCEPT ![Dir(r)] = o.host]
          /\ \/ o.ok /\ Goto(r, "remove") /\ UNCHANGED faults
             \/ ~o.ok /\ CallFails(r) /\ Return(r)
  BY Zenon DEF Unmount, OnHost
<1>3. o.ok
  BY <1>1, <1>2, ReturnPoint, Zenon DEF AfterError, AfterCleanup
<1>4. o.host.mnt = "none"
  BY <1>1, <1>3 DEF CleanupMountPoint, Done, Error, HostDirs
<1>. QED
  BY <1>1, <1>2, <1>4, Zenon DEF TypeOK

\* Without ValidateVolumeCapabilities, whatever call fails and whenever the
\* process is restarted, os.RemoveAll(mountDirPath) never runs below a mounted
\* BeeGFS: Create and Delete remove only after CleanupMountPoint succeeded,
\* and the lock keeps every other handler from mounting there in between.
THEOREM CleanUpIsSafe ==
    ASSUME "validate" \notin Handlers
    PROVE  Spec => []CleanUpOnlyUnmounted
<1>1. Init => CleanUpOnlyUnmounted
  BY DEF Init, CleanUpOnlyUnmounted, At, Idle
<1>2. /\ TypeOK /\ LocksMatchHandlers /\ PointsMatchOps
      /\ CleanUpOnlyUnmounted /\ [Next]_vars
      => CleanUpOnlyUnmounted'
  <2>. SUFFICES ASSUME TypeOK, LocksMatchHandlers, PointsMatchOps,
                       CleanUpOnlyUnmounted, [Next]_vars
                PROVE  CleanUpOnlyUnmounted'
    OBVIOUS
  <2>. USE DEF At
  <2>1. ASSUME NEW r \in Requests, Arrive(r) PROVE CleanUpOnlyUnmounted'
    <3>1. /\ UNCHANGED host
          /\ \/ UNCHANGED job
             \/ \E op \in Ops, v \in Volumes : Begin(r, op, v)
      BY <2>1, Zenon DEF Arrive, CreateVolume, DeleteVolume,
                  ValidateVolumeCapabilities, Ops
    <3>. QED
      BY <3>1 DEF Begin, CleanUpOnlyUnmounted, Dir, TypeOK
  <2>2. ASSUME NEW r \in Requests, ObtainLock(r) \/ ReleaseLock(r)
        PROVE  CleanUpOnlyUnmounted'
    <3>1. /\ UNCHANGED host
          /\ job' = [job EXCEPT ![r] = Idle] \/ Goto(r, "mkdir")
      BY <2>2, Zenon DEF ObtainLock, ReleaseLock
    <3>2. \A q \in Requests : job'[q].pc = "remove" => job'[q] = job[q]
      BY <3>1 DEF Goto, TypeOK, Jobs, Idle
    <3>. QED
      BY <3>1, <3>2, Zenon DEF CleanUpOnlyUnmounted, Dir
  <2>3. ASSUME NEW r \in Requests, Step(r), Advances(r)
        PROVE  CleanUpOnlyUnmounted'
    <3>1. /\ job'[r].vol = job[r].vol
          /\ \A q \in Requests \ {r} : job'[q] = job[q]
      BY <2>3, Zenon DEF Advances, TypeOK
    <3>2. ASSUME NEW q \in Requests, job'[q].pc = "remove", q # r
          PROVE  host'[MountDir[job'[q].vol]].mnt # "mounted"
      <4>1. job'[q] = job[q] /\ Locked(q) /\ Locked(r)
        BY <2>3, <3>1, <3>2, Zenon DEF Locked, Advances
      <4>2. Dir(q) # Dir(r)
        BY <3>2, <4>1, OwnDirectory, Zenon
      <4>3. host'[Dir(q)] = host[Dir(q)]
        BY <2>3, <4>1, <4>2, ActiveJob, OthersDirectories, Zenon DEF Locked
      <4>. QED
        BY <3>2, <4>1, <4>3, Zenon DEF CleanUpOnlyUnmounted, Dir
    <3>3. ASSUME job'[r].pc = "remove"
          PROVE  host'[MountDir[job'[r].vol]].mnt # "mounted"
      BY <2>3, <3>1, <3>3, StepPoint, UnmountedAtRemove, Zenon DEF PointsMatchOps, Dir
    <3>. QED
      BY <3>2, <3>3, Zenon DEF CleanUpOnlyUnmounted, Dir
  <2>4. ASSUME Restart PROVE CleanUpOnlyUnmounted'
    BY <2>4, Zenon DEF Restart, CleanUpOnlyUnmounted, Idle
  <2>5. ASSUME Environment \/ UNCHANGED vars PROVE CleanUpOnlyUnmounted'
    BY <2>5, Zenon DEF Environment, WantDeleted, TrackNode, UntrackNode, vars,
                CleanUpOnlyUnmounted, Dir
  <2>. QED
    BY <2>1, <2>2, <2>3, <2>4, <2>5, StepAdvances, Zenon DEF Next
<1>. QED
  BY <1>1, <1>2, TypeCorrect, MutualExclusion, PointsOfOps, PTL DEF Spec

\* A call leaves mountDirPath as the handler's next call needs it.
LEMMA StepInPlace ==
    ASSUME TypeOK, PointsMatchOps, NEW r \in Requests, InPlace(r), Step(r),
           Advances(r)
    PROVE  InPlace(r)'
<1>. USE DEF At
<1>0. /\ job[r] \in Jobs /\ job[r].pc # "idle" /\ Dir(r)' = Dir(r)
      /\ Dir(r) \in Dirs /\ host[Dir(r)] \in HostDirs
  BY ActiveJob, Zenon DEF Advances, Locked, TypeOK, Dir
<1>a. ASSUME job'[r].pc \in {"created", "nodesDir", "list", "unmount", "remove",
                             "deleted", "release"}
      PROVE  InPlace(r)'
  BY <1>a, Zenon DEF InPlace
<1>b. ASSUME Return(r) PROVE InPlace(r)'
  BY <1>0, <1>a, <1>b, ReturnPoint, Zenon DEF AfterError, AfterCleanup
<1>1. CASE MakeMountDir(r) /\ ~Return(r)
  <2>1. PICK o \in MkdirAll(host[Dir(r)]) :
            /\ host' = [host EXCEPT ![Dir(r)] = o.host]
            /\ o.ok /\ Goto(r, "write")
    BY <1>1, Zenon DEF MakeMountDir, OnHost
  <2>2. host'[Dir(r)].dir /\ job'[r].pc = "write"
    BY <1>0, <2>1, GotoPoint DEF MkdirAll, Done, Error, HostDirs, TypeOK
  <2>. QED
    BY <1>0, <2>2, Zenon DEF InPlace
<1>2. CASE WriteClientFiles(r) /\ ~Return(r)
  <2>1. PICK o \in writeClientFiles(host[Dir(r)]) :
            /\ host' = [host EXCEPT ![Dir(r)] = o.host]
            /\ o.ok
            /\ Goto(r, CASE job[r].op = "create" -> "createDir"
                         [] job[r].op = "delete" -> "mount"
                         [] OTHER -> "stat")
    BY <1>2, Zenon DEF WriteClientFiles, OnHost
  <2>2. host'[Dir(r)].dir /\ host'[Dir(r)].conf
    BY <1>0, <1>2, <2>1
       DEF WriteClientFiles, InPlace, writeClientFiles, Done, Error, HostDirs, TypeOK
  <2>3. job'[r].pc \in {"createDir", "mount", "stat"}
    BY <1>0, <2>1, GotoPoint DEF Jobs, Ops
  <2>. QED
    BY <1>0, <2>2, <2>3, Zenon DEF InPlace
<1>3. CASE Mount(r) /\ ~Return(r)
  <2>1. PICK o \in mountIfNecessary(host[Dir(r)]) :
            /\ host' = [host EXCEPT ![Dir(r)] = o.host]
            /\ o.ok
            /\ Goto(r, IF job[r].op = "create" THEN "chmod" ELSE "poll")
    BY <1>3, Zenon DEF Mount, OnHost
  <2>2. host'[Dir(r)].mnt = "mounted"
    BY <1>0, <2>1 DEF mountIfNecessary, Done, Error, HostDirs, TypeOK
  <2>3. job'[r].pc \in {"chmod", "poll"}
    BY <1>0, <2>1, GotoPoint, Zenon
  <2>. QED
    BY <1>0, <2>2, <2>3, Zenon DEF InPlace
<1>4. CASE CreateDirectory(r) \/ SetPattern(r) \/ Chmod(r)
  <2>1. CASE Goto(r, "setPattern") /\ CreateDirectory(r)
    BY <1>0, <2>1, GotoPoint DEF CreateDirectory, InPlace
  <2>2. CASE SetPattern(r) /\ ~Return(r)
    <3>1. PICK p \in {"mount", "nodesDir"} : Goto(r, p)
      BY <2>2, Zenon DEF SetPattern, OnVolume
    <3>. QED
      BY <1>0, <2>2, <3>1, GotoPoint, Zenon DEF SetPattern, InPlace
  <2>3. CASE Goto(r, "nodesDir")
    BY <1>0, <1>a, <2>3, GotoPoint, Zenon
  <2>. QED
    BY <1>4, <1>b, <2>1, <2>2, <2>3, Zenon DEF CreateDirectory, SetPattern, Chmod, OnVolume
<1>5. CASE Poll(r)
  <2>1. CASE \E t \in (job[r].waited + 1)..NodeUnstageTimeout :
                 job' = [job EXCEPT ![r].waited = t]
    <3>1. job'[r].pc = "poll"
      BY <1>0, <1>5, <2>1 DEF Poll, TypeOK, Jobs
    <3>. QED
      BY <1>0, <1>5, <3>1, Zenon DEF Poll, InPlace
  <2>2. CASE Goto(r, "removeVol") \/ Goto(r, "removeCsi")
    BY <1>0, <1>5, <2>2, GotoPoint DEF Poll, InPlace
  <2>. QED
    BY <1>5, <1>b, <2>1, <2>2, Zenon DEF Poll
<1>6. CASE RemoveCsiDirectory(r)
  <2>1. CASE Goto(r, "removeVol")
    BY <1>0, <1>6, <2>1, GotoPoint DEF RemoveCsiDirectory, InPlace
  <2>. QED
    BY <1>6, <1>b, <2>1, Zenon DEF RemoveCsiDirectory
<1>7. CASE StatDirectory(r) /\ ~Return(r)
  <2>1. job'[r].pc = "remove"
    BY <1>0, <1>7 DEF StatDirectory, TypeOK, Jobs
  <2>. QED
    BY <1>a, <2>1, Zenon
<1>8. CASE \/ CreateNodesDirectory(r) \/ WriteStatusCreated(r)
           \/ RemoveVolumeDirectory(r) \/ ListMounts(r) \/ Unmount(r)
           \/ RemoveMountDir(r) \/ WriteStatusDeleted(r)
  <2>1. Return(r) \/ \E p \in {"created", "list", "unmount", "remove", "deleted",
                               "release"} : Goto(r, p)
    BY <1>8, Zenon DEF CreateNodesDirectory, WriteStatusCreated,
         RemoveVolumeDirectory, ListMounts, Unmount, RemoveMountDir,
         WriteStatusDeleted, OnHost, AfterCleanup
  <2>. QED
    BY <1>0, <1>a, <1>b, <2>1, GotoPoint, Zenon
<1>9. CASE ObtainLock(r) \/ ReleaseLock(r)
  BY <1>9, <1>0, VolumesAssumption
     DEF ObtainLock, Advances, Locked, ReleaseLock, TypeOK, Idle, InPlace
<1>. QED
  BY <1>1, <1>2, <1>3, <1>4, <1>5, <1>6, <1>7, <1>8, <1>9, <1>b, Zenon DEF Step

\* Every handler, ValidateVolumeCapabilities included, finds mountDirPath as
\* its own earlier calls left it: the lock on the volume ID keeps every other
\* handler away from the directory.
THEOREM HandlersFindTheirFiles == Spec => []FilesInPlace
<1>1. Init => FilesInPlace
  BY DEF Init, FilesInPlace, InPlace, At, Idle
<1>2. /\ TypeOK /\ LocksMatchHandlers /\ PointsMatchOps /\ FilesInPlace /\ [Next]_vars
      => FilesInPlace'
  <2>. SUFFICES ASSUME TypeOK, LocksMatchHandlers, PointsMatchOps, FilesInPlace,
                       [Next]_vars
                PROVE  FilesInPlace'
    OBVIOUS
  <2>. USE DEF At, FilesInPlace
  <2>1. ASSUME UNCHANGED host,
               \A q \in Requests : \/ job'[q] = job[q]
                                   \/ job'[q].pc \in {"idle", "obtain", "mkdir"}
        PROVE  FilesInPlace'
    BY <2>1 DEF InPlace, Dir
  <2>2. ASSUME NEW r \in Requests, Arrive(r) PROVE FilesInPlace'
    <3>1. /\ UNCHANGED host
          /\ \/ UNCHANGED job
             \/ \E op \in Ops, v \in Volumes : Begin(r, op, v)
      BY <2>2, Zenon DEF Arrive, CreateVolume, DeleteVolume,
                  ValidateVolumeCapabilities, Ops
    <3>2. \A q \in Requests : job'[q] = job[q] \/ job'[q].pc = "obtain"
      BY <3>1 DEF Begin, TypeOK
    <3>. QED
      BY <2>1, <3>1, <3>2, Zenon
  <2>3. ASSUME NEW r \in Requests, ObtainLock(r) \/ ReleaseLock(r)
        PROVE  FilesInPlace'
    <3>1. /\ UNCHANGED host
          /\ job' = [job EXCEPT ![r] = Idle] \/ Goto(r, "mkdir")
      BY <2>3, Zenon DEF ObtainLock, ReleaseLock
    <3>2. \A q \in Requests : job'[q] = job[q] \/ job'[q].pc \in {"idle", "mkdir"}
      BY <3>1 DEF Goto, TypeOK, Jobs, Idle
    <3>. QED
      BY <2>1, <3>1, <3>2, Zenon
  <2>4. ASSUME NEW r \in Requests, Step(r), Advances(r) PROVE FilesInPlace'
    <3>1. \A q \in Requests \ {r} : job'[q] = job[q]
      BY <2>4, Zenon DEF Advances, TypeOK
    <3>2. ASSUME NEW q \in Requests PROVE InPlace(q)'
      <4>1. CASE q = r
        BY <2>4, <4>1, StepInPlace, Zenon
      <4>2. CASE q # r /\ Locked(q)
        <5>1. job'[q] = job[q] /\ Dir(q) # Dir(r) /\ Dir(q) \in Dirs
          BY <2>4, <3>1, <4>2, OwnDirectory, ActiveJob, Zenon DEF Advances, Locked
        <5>2. host'[Dir(q)] = host[Dir(q)]
          BY <2>4, <5>1, OthersDirectories, Zenon
        <5>. QED
          BY <5>1, <5>2, Zenon DEF InPlace, Dir
      <4>3. CASE q # r /\ ~Locked(q)
        BY <3>1, <4>3, Zenon DEF Locked, InPlace
      <4>. QED
        BY <4>1, <4>2, <4>3, Zenon
    <3>. QED
      BY <3>2, Zenon
  <2>5. ASSUME Restart PROVE FilesInPlace'
    BY <2>1, <2>5, Zenon DEF Restart, Idle
  <2>6. ASSUME Environment \/ UNCHANGED vars PROVE FilesInPlace'
    BY <2>1, <2>6, Zenon DEF Environment, WantDeleted, TrackNode, UntrackNode, vars
  <2>. QED
    BY <2>2, <2>3, <2>4, <2>5, <2>6, StepAdvances, Zenon DEF Next
<1>. QED
  BY <1>1, <1>2, TypeCorrect, MutualExclusion, PointsOfOps, PTL DEF Spec
-----------------------------------------------------------------------------
(***************************************************************************)
(* While a volume is wanted nothing takes a feature away from its          *)
(* directory; a Create handler past a call has the feature that call adds, *)
(* and so does a volume whose status is created.                           *)
(*                                                                         *)
(* A node is tracked only for a finished volume, and a Delete handler that *)
(* has left the loop has seen no node or has waited for the whole timeout; *)
(* no node can begin to track a volume that is not in use any more.        *)
(***************************************************************************)
Wanted(v) == phase[v] \in {"create", "use"}

Progress(r) ==
    LET v == job[r].vol
    IN  /\ job[r].pc \in {"setPattern", "mount", "chmod"} => "dir" \in volDir[v]
        /\ job[r].pc \in {"mount", "chmod"} => "pattern" \in volDir[v]
        /\ job[r].pc \in {"nodesDir", "created"} => Ready(v)
        /\ job[r].pc \in {"list", "unmount", "remove", "release"} /\ job[r].ok
              => Ready(v)

ReadyInv ==
    /\ \A r \in Requests : job[r].op = "delete" => ~Wanted(job[r].vol)
    /\ \A r \in Requests : job[r].op = "create" /\ Wanted(job[r].vol) => Progress(r)
    /\ \A v \in Volumes : Wanted(v) /\ status[v] = "created" => Ready(v)
    /\ UsableVolumesAreReady

\* An answer never makes an unwanted volume wanted again, and makes one usable
\* only when CreateVolume was what succeeded.
LEMMA AcknowledgePhase ==
    ASSUME TypeOK, NEW op, NEW v \in Volumes, Acknowledge(op, v)
    PROVE  /\ \A w \in Volumes : Wanted(w)' => Wanted(w)
           /\ \A w \in Volumes : phase'[w] = "use" =>
                  phase[w] = "use" \/ (w = v /\ op = "create" /\ Wanted(v))
  BY Zenon DEF TypeOK, Acknowledge, Wanted

\* Only DeleteVolume and a removal through a live mount shrink a directory.
LEMMA WantedGrows ==
    ASSUME TypeOK, PointsMatchOps, CleanUpOnlyUnmounted, ReadyInv,
           NEW r \in Requests, Step(r), NEW v \in Volumes, Wanted(v)
    PROVE  volDir[v] \subseteq volDir'[v]
<1>. USE DEF At
<1>1. CASE CreateDirectory(r) \/ SetPattern(r) \/ Chmod(r)
  <2>1. PICK f : volDir' \in {volDir, [volDir EXCEPT ![job[r].vol] = @ \cup {f}]}
    BY <1>1, Zenon DEF CreateDirectory, SetPattern, Chmod, OnVolume
  <2>. QED
    BY <2>1 DEF TypeOK
<1>2. CASE RemoveVolumeDirectory(r)
  <2>1. job[r].op = "delete"
    BY <1>2, Zenon DEF RemoveVolumeDirectory, PointsMatchOps, PointOfOp
  <2>2. job[r].vol # v
    BY <2>1, Zenon DEF ReadyInv
  <2>. QED
    BY <1>2, <2>2, Zenon DEF RemoveVolumeDirectory, TypeOK
<1>3. CASE RemoveMountDir(r)
  BY <1>3, Zenon DEF RemoveMountDir, CleanUpOnlyUnmounted, beegfs
<1>4. CASE \/ ObtainLock(r) \/ MakeMountDir(r) \/ WriteClientFiles(r)
           \/ Mount(r) \/ Unmount(r)
           \/ CreateNodesDirectory(r) \/ WriteStatusCreated(r) \/ Poll(r)
           \/ RemoveCsiDirectory(r) \/ StatDirectory(r) \/ ListMounts(r)
           \/ WriteStatusDeleted(r) \/ ReleaseLock(r)
  BY <1>4, Zenon DEF ObtainLock, MakeMountDir, WriteClientFiles, Mount, Unmount,
       CreateNodesDirectory, WriteStatusCreated, Poll, RemoveCsiDirectory,
       StatDirectory, ListMounts, WriteStatusDeleted, ReleaseLock, beegfs
<1>. QED
  BY <1>1, <1>2, <1>3, <1>4, Zenon DEF Step

\* A call of CreateVolume that succeeds has added its feature; a call that
\* fails outside the deferred cleanup clears the result.
LEMMA CreateProgresses ==
    ASSUME TypeOK, PointsMatchOps, CleanUpOnlyUnmounted, ReadyInv,
           NEW r \in Requests, Step(r), Advances(r),
           job[r].op = "create", Wanted(job[r].vol)
    PROVE  Progress(r)'
<1>. USE DEF At
<1>0. /\ job[r] \in Jobs /\ job[r].vol \in Volumes /\ job[r].pc # "idle"
      /\ job'[r].vol = job[r].vol
      /\ Progress(r)
      /\ volDir[job[r].vol] \subseteq volDir'[job[r].vol]
  BY ActiveJob, WantedGrows, Zenon DEF Advances, Locked, TypeOK, ReadyInv
<1>a. Ready(job[r].vol) => Ready(job[r].vol)'
  BY <1>0, Zenon DEF Ready
<1>b. ASSUME Return(r), job[r].pc \notin {"list", "unmount", "remove"}
      PROVE  Progress(r)'
  BY <1>b, <1>0, ReturnPoint, Zenon DEF AfterError, StillOk, Progress
<1>c. ASSUME Return(r), job[r].pc \in {"list", "unmount", "remove"}
      PROVE  Progress(r)'
  BY <1>c, <1>0, <1>a, ReturnPoint, Zenon DEF AfterError, AfterCleanup, StillOk, Progress
<1>d. ASSUME NEW point, Goto(r, point),
             point \in {"mkdir", "write", "createDir"}
      PROVE  Progress(r)'
  BY <1>d, <1>0, GotoPoint, Zenon DEF Progress
<1>e. ASSUME NEW point, Goto(r, point), Ready(job[r].vol),
             point \in {"created", "list"}
      PROVE  Progress(r)'
  <2>1. job'[r].pc = point
    BY <1>0, <1>e, GotoPoint, Zenon
  <2>. QED
    BY <1>0, <1>a, <1>e, <2>1, Zenon DEF Progress
<1>f. ASSUME NEW point, Goto(r, point), job[r].pc \in {"list", "unmount", "remove"},
             point \in {"unmount", "remove", "release"}
      PROVE  Progress(r)'
  <2>1. job'[r].pc = point /\ job'[r].ok = job[r].ok
    BY <1>0, <1>f, GotoPoint, Zenon
  <2>2. job[r].ok => Ready(job[r].vol)
    BY <1>0, <1>f, Zenon DEF Progress
  <2>. QED
    BY <1>0, <1>a, <1>f, <2>1, <2>2, Zenon DEF Progress
<1>1. CASE MakeMountDir(r) \/ WriteClientFiles(r)
  BY <1>1, <1>b, <1>d, Zenon DEF MakeMountDir, WriteClientFiles, OnHost
<1>2. CASE Mount(r)
  <2>1. CASE Goto(r, "chmod")
    <3>1. {"dir", "pattern"} \subseteq volDir[job[r].vol]
      BY <1>2, <1>0, Zenon DEF Mount, Progress
    <3>2. job'[r].pc = "chmod"
      BY <2>1, <1>0, GotoPoint, Zenon
    <3>. QED
      BY <1>0, <3>1, <3>2, Zenon DEF Progress
  <2>. QED
    BY <1>2, <1>b, <2>1, Zenon DEF Mount, OnHost
<1>3. CASE CreateDirectory(r)
  <2>1. CASE /\ Goto(r, "setPattern")
             /\ volDir' = [volDir EXCEPT ![job[r].vol] = @ \cup {"dir"}]
    <3>1. "dir" \in volDir'[job[r].vol]
      BY <2>1, <1>0, Zenon DEF TypeOK
    <3>2. job'[r].pc = "setPattern"
      BY <2>1, <1>0, GotoPoint, Zenon
    <3>. QED
      BY <1>0, <3>1, <3>2, Zenon DEF Progress
  <2>. QED
    BY <1>3, <1>b, <2>1, Zenon DEF CreateDirectory, OnVolume
<1>4. CASE SetPattern(r)
  <2>1. CASE /\ Goto(r, IF job[r].vol \in Special THEN "mount" ELSE "nodesDir")
             /\ volDir' = [volDir EXCEPT ![job[r].vol] = @ \cup {"pattern"}]
    <3>1. {"dir", "pattern"} \subseteq volDir'[job[r].vol]
      BY <1>4, <2>1, <1>0, Zenon DEF SetPattern, Progress, TypeOK
    <3>2. CASE job[r].vol \in Special
      BY <2>1, <1>0, <3>1, <3>2, GotoPoint DEF Progress
    <3>3. CASE job[r].vol \notin Special
      <4>1. job'[r].pc = "nodesDir"
        BY <2>1, <1>0, <3>3, GotoPoint, Zenon
      <4>. QED
        BY <1>0, <3>1, <3>3, <4>1, Zenon DEF Progress, Ready
    <3>. QED
      BY <3>2, <3>3, Zenon
  <2>. QED
    BY <1>4, <1>b, <2>1, Zenon DEF SetPattern, OnVolume
<1>5. CASE Chmod(r)
  <2>1. CASE /\ Goto(r, "nodesDir")
             /\ volDir' = [volDir EXCEPT ![job[r].vol] = @ \cup {"mode"}]
    <3>1. {"dir", "pattern", "mode"} \subseteq volDir'[job[r].vol]
      BY <1>5, <2>1, <1>0 DEF Chmod, Progress, TypeOK
    <3>2. job'[r].pc = "nodesDir"
      BY <2>1, <1>0, GotoPoint, Zenon
    <3>. QED
      BY <1>0, <3>1, <3>2, Zenon DEF Progress, Ready
  <2>. QED
    BY <1>5, <1>b, <2>1, Zenon DEF Chmod, OnVolume
<1>6. CASE CreateNodesDirectory(r)
  <2>1. Goto(r, "created") /\ Ready(job[r].vol)
    BY <1>6, <1>0, Zenon DEF CreateNodesDirectory, Progress
  <2>. QED
    BY <1>e, <2>1, Zenon
<1>7. CASE WriteStatusCreated(r)
  <2>1. Goto(r, "list") /\ Ready(job[r].vol)
    BY <1>7, <1>0, Zenon DEF WriteStatusCreated, Progress
  <2>. QED
    BY <1>e, <2>1, Zenon
<1>8. CASE ListMounts(r)
  <2>1. job[r].pc = "list" /\ (Goto(r, "unmount") \/ Return(r))
    BY <1>8, Zenon DEF ListMounts
  <2>. QED
    BY <1>c, <1>f, <2>1, Zenon
<1>9. CASE Unmount(r)
  <2>1. job[r].pc = "unmount" /\ (Goto(r, "remove") \/ Return(r))
    BY <1>9, Zenon DEF Unmount, OnHost
  <2>. QED
    BY <1>c, <1>f, <2>1, Zenon
<1>10. CASE RemoveMountDir(r)
  <2>1. job[r].pc = "remove" /\ (Goto(r, "release") \/ Return(r))
    BY <1>10, Zenon DEF RemoveMountDir, OnHost, AfterCleanup
  <2>. QED
    BY <1>c, <1>f, <2>1, Zenon
<1>11. CASE \/ ObtainLock(r) \/ ReleaseLock(r) \/ Poll(r) \/ StatDirectory(r)
            \/ RemoveCsiDirectory(r) \/ RemoveVolumeDirectory(r)
            \/ WriteStatusDeleted(r)
  <2>1. CASE ReleaseLock(r)
    BY <2>1, <1>0, VolumesAssumption, Zenon DEF ReleaseLock, Idle, TypeOK
  <2>. QED
    BY <1>11, <2>1, Zenon DEF ObtainLock, Advances, Locked, Poll, StatDirectory,
         RemoveCsiDirectory, RemoveVolumeDirectory, WriteStatusDeleted,
         PointsMatchOps, PointOfOp
<1>. QED
  BY <1>1, <1>2, <1>3, <1>4, <1>5, <1>6, <1>7, <1>8, <1>9, <1>10, <1>11, Zenon
     DEF Step

\* ReadyInv survives a step that leaves the directories and the status map
\* alone, makes no volume wanted or usable too early, and at most begins or
\* ends handlers.
LEMMA ReadyFrame ==
    ASSUME TypeOK, ReadyInv, UNCHANGED <<volDir, status>>,
           \A w \in Volumes : Wanted(w)' => Wanted(w),
           \A w \in Volumes : phase'[w] = "use" => phase[w] = "use" \/ Ready(w),
           \A q \in Requests :
               \/ job'[q] = job[q]
               \/ job'[q] = Idle
               \/ /\ job'[q].pc \in {"obtain", "mkdir"}
                  /\ job'[q].op = "delete" => ~Wanted(job[q].vol)'
    PROVE  ReadyInv'
<1>1. ASSUME NEW v PROVE Ready(v)' = Ready(v)
  BY Zenon DEF Ready
<1>2. \A q \in Requests : job[q] # Idle => job[q].vol \in Volumes
  BY Zenon DEF TypeOK, Jobs
<1>4. ASSUME NEW q \in Requests, job'[q].op = "delete"
      PROVE  ~Wanted(job[q].vol)'
  <2>1. CASE job'[q] = job[q]
    BY <1>2, <1>4, <2>1 DEF ReadyInv, Idle, Wanted
  <2>2. CASE job'[q] = Idle
    BY <1>4, <2>2 DEF Idle
  <2>. QED
    BY <1>4, <2>1, <2>2, Zenon
<1>5. ASSUME NEW q \in Requests, job'[q].op = "create", Wanted(job[q].vol)'
      PROVE  Progress(q)'
  <2>1. CASE job'[q] = job[q]
    <3>1. Wanted(job[q].vol) /\ job[q].op = "create"
      BY <1>2, <1>5, <2>1 DEF Idle, Wanted
    <3>2. Progress(q)
      BY <3>1, Zenon DEF ReadyInv
    <3>. QED
      BY <1>1, <2>1, <3>2, Zenon DEF Progress
  <2>2. CASE job'[q] = Idle
    BY <1>5, <2>2 DEF Idle
  <2>3. CASE job'[q].pc \in {"obtain", "mkdir"}
    BY <2>3, Zenon DEF Progress
  <2>. QED
    BY <2>1, <2>2, <2>3, Zenon
<1>6. ASSUME NEW v \in Volumes, Wanted(v)', status'[v] = "created"
      PROVE  Ready(v)'
  BY <1>1, <1>6, Zenon DEF ReadyInv
<1>7. UsableVolumesAreReady'
  BY <1>1, Zenon DEF ReadyInv, UsableVolumesAreReady
<1>. QED
  BY <1>4, <1>5, <1>6, <1>7, Zenon DEF ReadyInv

\* ReadyInv is inductive when ValidateVolumeCapabilities is not called.
LEMMA ReadyStep ==
    ASSUME TypeOK, PointsMatchOps, CleanUpOnlyUnmounted, ReadyInv, [Next]_vars
    PROVE  ReadyInv'
<1>. USE DEF At
<1>1. ASSUME NEW r \in Requests, Arrive(r) PROVE ReadyInv'
  <2>1. PICK v \in Volumes : \/ CreateVolume(r, v) \/ DeleteVolume(r, v)
                            \/ ValidateVolumeCapabilities(r, v)
    BY <1>1, Zenon DEF Arrive
  <2>2. UNCHANGED volDir /\ UNCHANGED status
    BY <2>1, Zenon DEF CreateVolume, DeleteVolume, ValidateVolumeCapabilities, beegfs
  <2>3. CASE UNCHANGED job
    <3>1. PICK op \in {"create", "delete"} :
              /\ Acknowledge(op, v)
              /\ op = "create" => status[v] = "created"
      BY <2>1, <2>3 DEF CreateVolume, DeleteVolume, ValidateVolumeCapabilities,
                        Begin, TypeOK
    <3>2. /\ \A w \in Volumes : Wanted(w)' => Wanted(w)
          /\ \A w \in Volumes :
                phase'[w] = "use" => phase[w] = "use" \/ Ready(w)
      BY <3>1, AcknowledgePhase, Zenon DEF ReadyInv
    <3>. QED
      BY <2>2, <2>3, <3>2, ReadyFrame, Zenon
  <2>4. CASE \E op \in Ops : /\ Begin(r, op, v)
                             /\ UNCHANGED phase
                             /\ op = "delete" => phase[v] = "delete"
    <3>1. \A q \in Requests :
              \/ job'[q] = job[q]
              \/ /\ job'[q].pc = "obtain" /\ job'[q].vol = v
                 /\ job'[q].op = "delete" => phase[v] = "delete"
      BY <2>4 DEF Begin, TypeOK
    <3>2. UNCHANGED phase
      BY <2>4, Zenon
    <3>3. \A w : Wanted(w)' = Wanted(w)
      BY <3>2, Zenon DEF Wanted
    <3>4. phase[v] = "delete" => ~Wanted(v)
      BY Zenon DEF Wanted
    <3>5. \A q \in Requests :
              \/ job'[q] = job[q]
              \/ /\ job'[q].pc \in {"obtain", "mkdir"}
                 /\ job'[q].op = "delete" => ~Wanted(job[q].vol)'
      BY <3>1, <3>2, <3>4, Zenon DEF Wanted
    <3>. QED
      BY <2>2, <3>2, <3>3, <3>5, ReadyFrame, Zenon
  <2>. QED
    BY <2>1, <2>3, <2>4, Zenon
       DEF CreateVolume, DeleteVolume, ValidateVolumeCapabilities, Ops
<1>2. ASSUME NEW r \in Requests, ObtainLock(r) PROVE ReadyInv'
  <2>1. UNCHANGED <<volDir, status, phase>>
    BY <1>2, Zenon DEF ObtainLock, beegfs
  <2>2. \A q \in Requests : \/ job'[q] = job[q]
                            \/ job'[q] = Idle
                            \/ /\ job'[q].op = job[q].op
                               /\ job'[q].vol = job[q].vol
                               /\ job'[q].pc = "mkdir"
    BY <1>2, GotoPoint DEF ObtainLock, TypeOK
  <2>3. \A q \in Requests : \/ job'[q] = job[q]
                            \/ job'[q] = Idle
                            \/ /\ job'[q].pc \in {"obtain", "mkdir"}
                               /\ job'[q].op = "delete" => ~Wanted(job[q].vol)'
    BY <2>1, <2>2, Zenon DEF ReadyInv, Wanted
  <2>4. \A w : Wanted(w)' = Wanted(w)
    BY <2>1, Zenon DEF Wanted
  <2>. QED
    BY <2>1, <2>3, <2>4, ReadyFrame, Zenon
<1>3. ASSUME NEW r \in Requests, ReleaseLock(r) PROVE ReadyInv'
  <2>1. UNCHANGED <<volDir, status>> /\ job' = [job EXCEPT ![r] = Idle]
    BY <1>3, Zenon DEF ReleaseLock, beegfs
  <2>2. \A q \in Requests : job'[q] \in {job[q], Idle}
    BY <2>1, Zenon DEF TypeOK
  <2>3. job[r].vol \in Volumes
    BY <1>3, ActiveJob, Zenon DEF ReleaseLock
  <2>4. \/ UNCHANGED phase
        \/ job[r].ok /\ Acknowledge(job[r].op, job[r].vol)
    BY <1>3, Zenon DEF ReleaseLock
  <2>5. /\ \A w \in Volumes : Wanted(w)' => Wanted(w)
        /\ \A w \in Volumes : phase'[w] = "use" => phase[w] = "use" \/ Ready(w)
    BY <1>3, <2>3, <2>4, AcknowledgePhase
       DEF Wanted, ReleaseLock, ReadyInv, Progress
  <2>. QED
    BY <2>1, <2>2, <2>5, ReadyFrame, Zenon
<1>4. ASSUME NEW r \in Requests, Step(r), Advances(r) PROVE ReadyInv'
  <2>1. /\ job[r].vol \in Volumes
        /\ job'[r].vol = job[r].vol /\ job'[r].op = job[r].op
        /\ \A q \in Requests \ {r} : job'[q] = job[q]
    BY <1>4, ActiveJob, Zenon DEF Advances, Locked, TypeOK
  <2>2. UNCHANGED phase
    <3>1. ~ReleaseLock(r)
      BY <1>4, <2>1, VolumesAssumption DEF ReleaseLock, TypeOK, Idle
    <3>. QED
      BY <1>4, <3>1, Zenon DEF Step, ObtainLock, MakeMountDir, WriteClientFiles, Mount,
           CreateDirectory, SetPattern, Chmod, CreateNodesDirectory,
           WriteStatusCreated, Poll, RemoveCsiDirectory,
           RemoveVolumeDirectory, StatDirectory, ListMounts, Unmount,
           RemoveMountDir, WriteStatusDeleted
  <2>3. \A v \in Volumes : Wanted(v) => volDir[v] \subseteq volDir'[v]
    BY <1>4, WantedGrows, Zenon
  <2>4. \A v \in Volumes : Wanted(v) /\ Ready(v) => Ready(v)'
    BY <2>3, Zenon DEF Ready
  <2>5. \A q \in Requests : job'[q].op = "delete" => ~Wanted(job[q].vol)'
    BY <2>1, <2>2, Zenon DEF ReadyInv, Wanted
  <2>6. ASSUME NEW q \in Requests, job'[q].op = "create", Wanted(job[q].vol)'
        PROVE  Progress(q)'
    <3>1. CASE q = r
      BY <1>4, <2>1, <2>2, <2>6, <3>1, CreateProgresses, Zenon DEF Wanted
    <3>2. CASE q # r
      <4>1. job'[q] = job[q] /\ Wanted(job[q].vol) /\ Progress(q)
        BY <2>1, <2>2, <2>6, <3>2, Zenon DEF ReadyInv, Wanted
      <4>2. job[q].vol \in Volumes
        BY <2>6, <4>1 DEF TypeOK, Jobs, Idle
      <4>. QED
        BY <2>3, <4>1, <4>2, Zenon DEF Progress, Ready
    <3>. QED
      BY <3>1, <3>2, Zenon
  <2>7. ASSUME NEW v \in Volumes, Wanted(v)', status'[v] = "created"
        PROVE  Ready(v)'
    <3>1. Wanted(v)
      BY <2>2, <2>7, Zenon DEF Wanted
    <3>2. CASE status[v] = "created"
      BY <2>4, <3>1, <3>2, Zenon DEF ReadyInv
    <3>3. CASE status[v] # "created"
      <4>1. WriteStatusCreated(r) \/ WriteStatusDeleted(r)
        BY <1>4, <2>7, <3>3 DEF Step, ObtainLock, MakeMountDir,
             WriteClientFiles, Mount, CreateDirectory, SetPattern, Chmod,
             CreateNodesDirectory, Poll, RemoveCsiDirectory,
             RemoveVolumeDirectory, StatDirectory, ListMounts, Unmount,
             RemoveMountDir, ReleaseLock
      <4>2. WriteStatusCreated(r) /\ job[r].vol = v
        BY <2>7, <3>3, <4>1, Zenon
           DEF WriteStatusCreated, WriteStatusDeleted, TypeOK
      <4>3. job[r].op = "create" /\ job[r].pc = "created"
        BY <4>2, Zenon DEF WriteStatusCreated, PointsMatchOps, PointOfOp
      <4>. QED
        BY <2>4, <3>1, <4>2, <4>3, Zenon DEF ReadyInv, Progress
    <3>. QED
      BY <3>2, <3>3, Zenon
  <2>8. UsableVolumesAreReady'
    BY <2>2, <2>4, Zenon DEF ReadyInv, UsableVolumesAreReady, Wanted
  <2>. QED
    BY <2>5, <2>6, <2>7, <2>8, Zenon DEF ReadyInv
<1>5. ASSUME Restart PROVE ReadyInv'
  BY <1>5, Zenon DEF Restart, beegfs, ReadyInv, UsableVolumesAreReady, Ready, Idle
<1>6. ASSUME Environment PROVE ReadyInv'
  <2>1. UNCHANGED <<volDir, status, job>>
    BY <1>6, Zenon DEF Environment, WantDeleted, TrackNode, UntrackNode, beegfs
  <2>2. /\ \A v \in Volumes : Wanted(v)' => Wanted(v)
        /\ \A v \in Volumes : phase'[v] = "use" => phase[v] = "use"
    BY <1>6 DEF Environment, WantDeleted, TrackNode, UntrackNode, Wanted, TypeOK
  <2>. QED
    BY <2>1, <2>2, ReadyFrame, Zenon
<1>7. ASSUME UNCHANGED vars PROVE ReadyInv'
  BY <1>7 DEF vars, ReadyInv, UsableVolumesAreReady, Progress, Ready, Wanted
<1>. QED
  BY <1>1, <1>2, <1>3, <1>4, <1>5, <1>6, <1>7, StepAdvances, Zenon DEF Next

\* Without ValidateVolumeCapabilities, an acknowledged CreateVolume is true:
\* from the moment the orchestrator sees success until it asks for deletion,
\* the directory exists with its stripe pattern and special mode, whatever
\* calls failed, were repeated, ran late, or were cut short by a restart.
THEOREM UsableIsReady ==
    ASSUME "validate" \notin Handlers
    PROVE  Spec => []UsableVolumesAreReady
<1>1. Init => ReadyInv
  BY DEF Init, ReadyInv, UsableVolumesAreReady, Idle
<1>2. /\ TypeOK /\ PointsMatchOps /\ CleanUpOnlyUnmounted
      /\ ReadyInv /\ [Next]_vars
      => ReadyInv'
  BY ReadyStep, Zenon
<1>3. ReadyInv => UsableVolumesAreReady
  BY Zenon DEF ReadyInv
<1>. QED
  BY <1>1, <1>2, <1>3, TypeCorrect, PointsOfOps, CleanUpIsSafe, PTL DEF Spec
-----------------------------------------------------------------------------
Waited(r) ==
    LET v == job[r].vol
    IN  /\ job[r].pc = "removeCsi" =>
              tracked[v] = {} \/ job[r].waited >= NodeUnstageTimeout
        /\ job[r].pc = "removeVol" => csiDir[v] # "nodes"

\* CreateVolume mounts only for special modes.
MountsSpecial(r) ==
    job[r].op = "create" /\ job[r].pc \in {"mount", "chmod"} =>
        job[r].vol \in Special

TrackedIsFinished(v) == tracked[v] # {} => csiDir[v] = "nodes" /\ Ready(v)

WaitInv ==
    /\ \A r \in Requests : Waited(r) /\ MountsSpecial(r)
    /\ \A v \in Volumes : TrackedIsFinished(v)

\* A call changes what is known of its own handler's volume only.
LEMMA OthersVolumes ==
    ASSUME TypeOK, CleanUpOnlyUnmounted, NEW r \in Requests, Step(r), Locked(r),
           NEW v \in Volumes, v # job[r].vol
    PROVE  /\ volDir'[v] = volDir[v] /\ csiDir'[v] = csiDir[v]
           /\ tracked'[v] = tracked[v] /\ status'[v] = status[v]
           /\ host'[MountDir[v]] = host[MountDir[v]]
<1>. USE DEF At
<1>0. job[r].vol \in Volumes /\ MountDir[v] \in Dirs /\ MountDir[v] # Dir(r)
  BY ActiveJob, MountDirAssumption, Zenon DEF Locked, Dir, Dirs
<1>1. host'[MountDir[v]] = host[MountDir[v]]
  BY <1>0, OthersDirectories, Zenon
<1>2. volDir'[v] = volDir[v]
  <2>1. CASE CreateDirectory(r) \/ SetPattern(r) \/ Chmod(r)
    <3>1. PICK f : volDir' \in {volDir, [volDir EXCEPT ![job[r].vol] = @ \cup {f}]}
      BY <2>1, Zenon DEF CreateDirectory, SetPattern, Chmod, OnVolume
    <3>. QED
      BY <3>1, Zenon DEF TypeOK
  <2>2. CASE RemoveVolumeDirectory(r)
    BY <2>2, Zenon DEF RemoveVolumeDirectory, TypeOK
  <2>3. CASE RemoveMountDir(r)
    BY <2>3, Zenon DEF RemoveMountDir, CleanUpOnlyUnmounted, beegfs
  <2>. QED
    BY <2>1, <2>2, <2>3, Zenon DEF Step, ObtainLock, MakeMountDir, WriteClientFiles,
         Mount, Unmount, CreateNodesDirectory, WriteStatusCreated, Poll,
         RemoveCsiDirectory, StatDirectory, ListMounts, WriteStatusDeleted,
         ReleaseLock, beegfs
<1>3. csiDir'[v] = csiDir[v] /\ tracked'[v] = tracked[v]
  <2>1. CASE CreateNodesDirectory(r) \/ RemoveCsiDirectory(r)
    BY <2>1, Zenon DEF CreateNodesDirectory, RemoveCsiDirectory, TypeOK
  <2>2. CASE RemoveMountDir(r)
    BY <2>2, Zenon DEF RemoveMountDir, CleanUpOnlyUnmounted, beegfs
  <2>. QED
    BY <2>1, <2>2, Zenon DEF Step, ObtainLock, MakeMountDir, WriteClientFiles, Mount,
         Unmount, CreateDirectory, SetPattern, Chmod, RemoveVolumeDirectory,
         WriteStatusCreated, Poll, StatDirectory, ListMounts,
         WriteStatusDeleted, ReleaseLock, beegfs
<1>4. status'[v] = status[v]
  BY Zenon DEF Step, ObtainLock, MakeMountDir, WriteClientFiles, Mount, Unmount,
       CreateDirectory, SetPattern, Chmod, CreateNodesDirectory,
       WriteStatusCreated, Poll, RemoveCsiDirectory, RemoveVolumeDirectory,
       RemoveMountDir, StatDirectory, ListMounts, WriteStatusDeleted,
       ReleaseLock, TypeOK
<1>. QED
  BY <1>1, <1>2, <1>3, <1>4, Zenon

\* A handler has left the loop of DeleteVolume only after its wait, and keeps
\* its own volume's tracking in order.
LEMMA WaitProgresses ==
    ASSUME TypeOK, PointsMatchOps, CleanUpOnlyUnmounted, ReadyInv, WaitInv,
           NEW r \in Requests, Step(r), Advances(r)
    PROVE  Waited(r)' /\ MountsSpecial(r)'
<1>. USE DEF At
<1>0. /\ job[r] \in Jobs /\ job[r].vol \in Volumes /\ job[r].pc # "idle"
      /\ job'[r].vol = job[r].vol /\ job'[r].op = job[r].op
      /\ Waited(r) /\ MountsSpecial(r)
  BY ActiveJob, Zenon DEF Advances, Locked, TypeOK, WaitInv
<1>a. ASSUME job'[r].pc \notin {"removeCsi", "removeVol", "mount", "chmod"}
      PROVE  Waited(r)' /\ MountsSpecial(r)'
  BY <1>a, Zenon DEF Waited, MountsSpecial
<1>b. ASSUME Return(r) PROVE Waited(r)' /\ MountsSpecial(r)'
  BY <1>0, <1>a, <1>b, ReturnPoint, Zenon DEF AfterError, AfterCleanup
<1>c. ASSUME NEW p, Goto(r, p), p \notin {"removeCsi", "removeVol", "mount", "chmod"}
      PROVE  Waited(r)' /\ MountsSpecial(r)'
  BY <1>0, <1>a, <1>c, GotoPoint, Zenon
<1>1. CASE Poll(r)
  <2>1. UNCHANGED <<csiDir, tracked>> /\ job[r].op = "delete"
    BY <1>1, Zenon DEF Poll, beegfs, PointsMatchOps, PointOfOp
  <2>2. CASE Goto(r, "removeVol") /\ csiDir[job[r].vol] # "nodes"
    BY <1>0, <2>1, <2>2, GotoPoint DEF Waited, MountsSpecial
  <2>3. CASE /\ Goto(r, "removeCsi")
             /\ tracked[job[r].vol] = {} \/ job[r].waited >= NodeUnstageTimeout
    <3>1. job'[r].pc = "removeCsi" /\ job'[r].waited = job[r].waited
      BY <1>0, <2>3, Zenon DEF Goto, TypeOK, Jobs
    <3>. QED
      BY <1>0, <2>1, <2>3, <3>1, Zenon DEF Waited, MountsSpecial
  <2>4. CASE \E t \in (job[r].waited + 1)..NodeUnstageTimeout :
                 job' = [job EXCEPT ![r].waited = t]
    <3>1. job'[r].pc = "poll"
      BY <1>0, <1>1, <2>4 DEF Poll, TypeOK, Jobs
    <3>. QED
      BY <1>a, <3>1, Zenon
  <2>. QED
    BY <1>1, <1>b, <2>2, <2>3, <2>4, Zenon DEF Poll
<1>2. CASE RemoveCsiDirectory(r)
  <2>1. CASE /\ Goto(r, "removeVol")
             /\ csiDir' = [csiDir EXCEPT ![job[r].vol] = "absent"]
    <3>1. job'[r].pc = "removeVol" /\ csiDir'[job[r].vol] = "absent"
      BY <1>0, <2>1, GotoPoint, Zenon DEF TypeOK
    <3>. QED
      BY <1>0, <3>1, Zenon DEF Waited, MountsSpecial
  <2>. QED
    BY <1>2, <1>b, <2>1, Zenon DEF RemoveCsiDirectory
<1>3. CASE WriteClientFiles(r) /\ ~Return(r)
  <2>1. PICK p : /\ Goto(r, p)
                 /\ p = CASE job[r].op = "create" -> "createDir"
                          [] job[r].op = "delete" -> "mount"
                          [] OTHER -> "stat"
    BY <1>3, Zenon DEF WriteClientFiles, OnHost
  <2>2. /\ job'[r].pc = p /\ p \in {"createDir", "mount", "stat"}
        /\ p = "mount" => job[r].op = "delete"
    BY <1>0, <2>1, GotoPoint, Zenon DEF Jobs, Ops
  <2>. QED
    BY <1>0, <2>2, Zenon DEF Waited, MountsSpecial
<1>4. CASE Mount(r) /\ ~Return(r)
  <2>1. PICK p \in {"chmod", "poll"} : Goto(r, p)
    BY <1>4, Zenon DEF Mount, OnHost
  <2>2. job'[r].pc = p
    BY <1>0, <2>1, GotoPoint, Zenon
  <2>. QED
    BY <1>0, <1>4, <2>2, Zenon DEF Mount, Waited, MountsSpecial
<1>5. CASE SetPattern(r) /\ ~Return(r)
  <2>1. Goto(r, IF job[r].vol \in Special THEN "mount" ELSE "nodesDir")
    BY <1>5, Zenon DEF SetPattern, OnVolume
  <2>2. job'[r].pc = IF job[r].vol \in Special THEN "mount" ELSE "nodesDir"
    BY <1>0, <2>1, GotoPoint, Zenon
  <2>. QED
    BY <1>0, <2>2, Zenon DEF Waited, MountsSpecial
<1>6. CASE StatDirectory(r) /\ ~Return(r)
  <2>1. job'[r].pc = "remove"
    BY <1>0, <1>6 DEF StatDirectory, TypeOK, Jobs
  <2>. QED
    BY <1>a, <2>1, Zenon
<1>7. CASE ReleaseLock(r)
  BY <1>0, <1>7, VolumesAssumption, Zenon DEF ReleaseLock, TypeOK, Idle
<1>8. CASE \/ MakeMountDir(r) \/ CreateDirectory(r) \/ Chmod(r)
           \/ CreateNodesDirectory(r) \/ WriteStatusCreated(r)
           \/ RemoveVolumeDirectory(r) \/ ListMounts(r) \/ Unmount(r)
           \/ RemoveMountDir(r) \/ WriteStatusDeleted(r)
  <2>1. Return(r) \/ \E p \in {"write", "setPattern", "nodesDir", "created", "list",
                               "unmount", "remove", "deleted", "release"} : Goto(r, p)
    BY <1>8, Zenon DEF MakeMountDir, CreateDirectory, Chmod, CreateNodesDirectory,
         WriteStatusCreated, RemoveVolumeDirectory, ListMounts, Unmount,
         RemoveMountDir, WriteStatusDeleted, OnHost, OnVolume, AfterCleanup
  <2>. QED
    BY <1>b, <1>c, <2>1, Zenon
<1>9. CASE ObtainLock(r)
  BY <1>9, Zenon DEF ObtainLock, Advances, Locked
<1>. QED
  BY <1>1, <1>2, <1>3, <1>4, <1>5, <1>6, <1>7, <1>8, <1>9, <1>b, Zenon DEF Step

\* A call that adds to a directory adds nothing to a finished one.
LEMMA FinishedStays ==
    ASSUME TypeOK, WaitInv, PointsMatchOps, NEW r \in Requests,
           CreateDirectory(r) \/ SetPattern(r) \/ Chmod(r), job[r].pc # "idle",
           NEW v \in Volumes, v = job[r].vol, Ready(v)
    PROVE  volDir'[v] = volDir[v]
<1>1. PICK f \in {"dir", "pattern", "mode"} :
          /\ volDir' \in {volDir, [volDir EXCEPT ![job[r].vol] = @ \cup {f}]}
          /\ f = "mode" => job[r].pc = "chmod"
  BY Zenon DEF CreateDirectory, SetPattern, Chmod, OnVolume, At
<1>2. f = "mode" => v \in Special
  BY <1>1, Zenon DEF WaitInv, MountsSpecial, PointsMatchOps, PointOfOp
<1>3. f \in volDir[v]
  BY <1>1, <1>2, Zenon DEF Ready
<1>4. volDir[v] \cup {f} = volDir[v]
  BY <1>3, Zenon
<1>. QED
  BY <1>1, <1>4, Zenon DEF TypeOK

\* The calls on a volume keep its tracked nodes with a finished directory.
LEMMA TrackedStays ==
    ASSUME TypeOK, PointsMatchOps, CleanUpOnlyUnmounted, WaitInv,
           NEW r \in Requests, Step(r), Locked(r),
           NEW v \in Volumes, v = job[r].vol
    PROVE  TrackedIsFinished(v)'
<1>. USE DEF At
<1>0. TrackedIsFinished(v) /\ Waited(r) /\ job[r].pc # "idle"
  BY Zenon DEF WaitInv, Locked
<1>1. CASE CreateDirectory(r) \/ SetPattern(r) \/ Chmod(r)
  <2>1. UNCHANGED <<tracked, csiDir>>
    BY <1>1, Zenon DEF CreateDirectory, SetPattern, Chmod
  <2>2. Ready(v) => Ready(v)'
    BY <1>0, <1>1, FinishedStays, Zenon DEF Ready
  <2>. QED
    BY <1>0, <2>1, <2>2, Zenon DEF TrackedIsFinished
<1>2. CASE CreateNodesDirectory(r)
  <2>1. UNCHANGED <<tracked, volDir>> /\ (csiDir[v] = "nodes" => csiDir'[v] = "nodes")
    BY <1>2, Zenon DEF CreateNodesDirectory, TypeOK
  <2>. QED
    BY <1>0, <2>1, Zenon DEF TrackedIsFinished, Ready
<1>3. CASE RemoveCsiDirectory(r)
  <2>1. /\ UNCHANGED volDir
        /\ \/ tracked'[v] = {}
           \/ tracked'[v] \subseteq tracked[v] /\ UNCHANGED csiDir
    BY <1>3 DEF RemoveCsiDirectory, TypeOK
  <2>. QED
    BY <1>0, <2>1, Zenon DEF TrackedIsFinished, Ready
<1>4. CASE RemoveVolumeDirectory(r)
  BY <1>0, <1>4, Zenon DEF RemoveVolumeDirectory, Waited, TrackedIsFinished
<1>5. CASE RemoveMountDir(r)
  <2>1. UNCHANGED <<volDir, csiDir, tracked>>
    BY <1>5, Zenon DEF RemoveMountDir, CleanUpOnlyUnmounted, beegfs
  <2>. QED
    BY <1>0, <2>1, Zenon DEF TrackedIsFinished, Ready
<1>6. CASE UNCHANGED <<volDir, csiDir, tracked>>
  BY <1>0, <1>6, Zenon DEF TrackedIsFinished, Ready
<1>. QED
  BY <1>1, <1>2, <1>3, <1>4, <1>5, <1>6 DEF Step, ObtainLock, MakeMountDir,
       WriteClientFiles, Mount, Unmount, WriteStatusCreated, Poll,
       StatDirectory, ListMounts, WriteStatusDeleted, ReleaseLock, beegfs

\* WaitInv is inductive when ValidateVolumeCapabilities is not called.
LEMMA WaitStep ==
    ASSUME TypeOK, LocksMatchHandlers, PointsMatchOps, CleanUpOnlyUnmounted,
           ReadyInv, WaitInv, [Next]_vars
    PROVE  WaitInv'
<1>. USE DEF At
<1>1. ASSUME UNCHANGED <<volDir, csiDir, tracked>>,
             \A q \in Requests : \/ job'[q] = job[q]
                                 \/ job'[q].pc \in {"idle", "obtain", "mkdir"}
      PROVE  WaitInv'
  BY <1>1 DEF WaitInv, Waited, MountsSpecial, TrackedIsFinished, Ready
<1>2. ASSUME NEW r \in Requests, Arrive(r) PROVE WaitInv'
  <2>1. \/ UNCHANGED job
        \/ \E op \in Ops, v \in Volumes : Begin(r, op, v)
    BY <1>2, Zenon DEF Arrive, CreateVolume, DeleteVolume, ValidateVolumeCapabilities,
         Ops
  <2>2. \A q \in Requests : job'[q] = job[q] \/ job'[q].pc = "obtain"
    BY <2>1 DEF Begin, TypeOK
  <2>. QED
    BY <1>1, <1>2, <2>2, Zenon DEF Arrive, CreateVolume, DeleteVolume,
         ValidateVolumeCapabilities, beegfs
<1>3. ASSUME NEW r \in Requests, ObtainLock(r) \/ ReleaseLock(r) PROVE WaitInv'
  <2>1. job' = [job EXCEPT ![r] = Idle] \/ Goto(r, "mkdir")
    BY <1>3, Zenon DEF ObtainLock, ReleaseLock
  <2>2. \A q \in Requests : job'[q] = job[q] \/ job'[q].pc \in {"idle", "mkdir"}
    BY <2>1 DEF Goto, TypeOK, Jobs, Idle
  <2>. QED
    BY <1>1, <1>3, <2>2, Zenon DEF ObtainLock, ReleaseLock, beegfs
<1>4. ASSUME NEW r \in Requests, Step(r), Advances(r) PROVE WaitInv'
  <2>1. /\ Locked(r) /\ job[r].vol \in Volumes
        /\ \A q \in Requests \ {r} : job'[q] = job[q]
    BY <1>4, ActiveJob, Zenon DEF Advances, Locked, TypeOK
  <2>2. ASSUME NEW q \in Requests PROVE Waited(q)' /\ MountsSpecial(q)'
    <3>1. CASE q = r
      BY <1>4, <3>1, WaitProgresses, Zenon
    <3>2. CASE q # r /\ Locked(q)
      <4>1. /\ job'[q] = job[q] /\ Waited(q) /\ MountsSpecial(q)
            /\ job[q].vol \in Volumes /\ job[q].vol # job[r].vol
        BY <2>1, <3>2, ActiveJob, Zenon DEF WaitInv, Locked, LocksMatchHandlers
      <4>2. /\ csiDir'[job[q].vol] = csiDir[job[q].vol]
            /\ tracked'[job[q].vol] = tracked[job[q].vol]
        BY <1>4, <2>1, <4>1, OthersVolumes, Zenon
      <4>. QED
        BY <4>1, <4>2, Zenon DEF Waited, MountsSpecial
    <3>3. CASE q # r /\ ~Locked(q)
      BY <2>1, <3>3, Zenon DEF Locked, Waited, MountsSpecial
    <3>. QED
      BY <3>1, <3>2, <3>3, Zenon
  <2>3. ASSUME NEW v \in Volumes PROVE TrackedIsFinished(v)'
    <3>1. CASE v = job[r].vol
      BY <1>4, <2>1, <3>1, TrackedStays, Zenon
    <3>2. CASE v # job[r].vol
      BY <1>4, <2>1, <3>2, OthersVolumes, Zenon DEF WaitInv, TrackedIsFinished, Ready
    <3>. QED
      BY <3>1, <3>2, Zenon
  <2>. QED
    BY <2>2, <2>3, Zenon DEF WaitInv
<1>5. ASSUME NEW n \in Nodes, NEW v \in Volumes,
             TrackNode(n, v) \/ UntrackNode(n, v)
      PROVE  WaitInv'
  <2>1. /\ UNCHANGED <<volDir, csiDir, job>>
        /\ \A w \in Volumes \ {v} : tracked'[w] = tracked[w]
        /\ \/ tracked'[v] \subseteq tracked[v]
           \/ phase[v] = "use" /\ csiDir[v] = "nodes"
    BY <1>5 DEF TrackNode, UntrackNode, TypeOK
  <2>2. ASSUME NEW q \in Requests PROVE Waited(q)'
    <3>1. CASE job[q].pc = "removeCsi"
      <4>1. job[q].op = "delete" /\ job[q].vol \in Volumes
        BY <3>1, ActiveJob, Zenon DEF PointsMatchOps, PointOfOp
      <4>2. ~Wanted(job[q].vol) /\ Waited(q)
        BY <4>1, Zenon DEF ReadyInv, WaitInv
      <4>3. tracked'[job[q].vol] \subseteq tracked[job[q].vol]
        BY <2>1, <4>1, <4>2, Zenon DEF Wanted
      <4>. QED
        BY <2>1, <4>2, <4>3, Zenon DEF Waited
    <3>2. CASE job[q].pc # "removeCsi"
      BY <2>1, <3>2, Zenon DEF WaitInv, Waited
    <3>. QED
      BY <3>1, <3>2, Zenon
  <2>3. ASSUME NEW w \in Volumes PROVE TrackedIsFinished(w)'
    BY <2>1, Zenon DEF WaitInv, TrackedIsFinished, Ready, ReadyInv, UsableVolumesAreReady
  <2>. QED
    BY <2>1, <2>2, <2>3, Zenon DEF WaitInv, MountsSpecial
<1>6. ASSUME Restart PROVE WaitInv'
  BY <1>1, <1>6, Zenon DEF Restart, beegfs, Idle
<1>7. ASSUME UNCHANGED vars \/ \E v \in Volumes : WantDeleted(v) PROVE WaitInv'
  BY <1>1, <1>7, Zenon DEF vars, WantDeleted, beegfs
<1>. QED
  BY <1>2, <1>3, <1>4, <1>5, <1>6, <1>7, StepAdvances, Zenon DEF Next, Environment

\* Without ValidateVolumeCapabilities, DeleteVolume waits: while a node is
\* tracked, nothing of the volume is removed but by a handler that has waited
\* for the whole --node-unstage-timeout, whatever failed and was retried.
THEOREM DeletionWaits ==
    ASSUME "validate" \notin Handlers
    PROVE  Spec => RemovalWaitsForNodes
<1>. DEFINE Waits == \A v \in Volumes :
                         /\ tracked[v] # {}
                         /\ csiDir'[v] # csiDir[v] \/ volDir'[v] # volDir[v]
                         /\ phase[v] = "delete"
                         => WaitedFor(v)
<1>1. Init => ReadyInv /\ WaitInv
  BY DEF Init, ReadyInv, UsableVolumesAreReady, Idle, WaitInv, Waited,
       MountsSpecial, TrackedIsFinished
<1>2. /\ TypeOK /\ LocksMatchHandlers /\ PointsMatchOps /\ CleanUpOnlyUnmounted
      /\ ReadyInv /\ WaitInv /\ [Next]_vars
      => ReadyInv' /\ WaitInv'
  BY ReadyStep, WaitStep, Zenon
<1>3. /\ TypeOK /\ PointsMatchOps /\ CleanUpOnlyUnmounted /\ WaitInv /\ [Next]_vars
      => [Waits]_vars
  <2>. SUFFICES ASSUME TypeOK, PointsMatchOps, CleanUpOnlyUnmounted, WaitInv,
                       [Next]_vars, NEW v \in Volumes, tracked[v] # {},
                       csiDir'[v] # csiDir[v] \/ volDir'[v] # volDir[v]
                PROVE  WaitedFor(v)
    OBVIOUS
  <2>. USE DEF At
  <2>1. PICK r \in Requests : Step(r) /\ Advances(r)
    <3>1. ~UNCHANGED <<volDir, csiDir>>
      OBVIOUS
    <3>. QED
      BY <3>1, StepAdvances, Zenon DEF Next, Arrive, CreateVolume, DeleteVolume,
           ValidateVolumeCapabilities, ObtainLock, ReleaseLock, Restart,
           Environment, WantDeleted, TrackNode, UntrackNode, beegfs, vars
  <2>2. /\ v = job[r].vol /\ csiDir[v] = "nodes" /\ Ready(v)
        /\ job[r].pc # "idle" /\ Waited(r)
    BY <2>1, OthersVolumes, Zenon DEF Advances, Locked, WaitInv, TrackedIsFinished
  <2>3. ~(CreateDirectory(r) \/ SetPattern(r) \/ Chmod(r))
    BY <2>2, FinishedStays, Zenon DEF CreateDirectory, SetPattern, Chmod
  <2>4. ~CreateNodesDirectory(r)
    BY <2>2, Zenon DEF CreateNodesDirectory, TypeOK
  <2>5. ~RemoveVolumeDirectory(r)
    BY <2>2, Zenon DEF RemoveVolumeDirectory, Waited
  <2>6. ~RemoveMountDir(r)
    BY Zenon DEF RemoveMountDir, CleanUpOnlyUnmounted, beegfs
  <2>7. RemoveCsiDirectory(r)
    BY <2>1, <2>3, <2>4, <2>5, <2>6 DEF Step, ObtainLock, MakeMountDir,
         WriteClientFiles, Mount, Unmount, WriteStatusCreated, Poll,
         StatDirectory, ListMounts, WriteStatusDeleted, ReleaseLock, beegfs
  <2>. QED
    BY <2>2, <2>7, Zenon DEF RemoveCsiDirectory, Waited, WaitedFor, PointsMatchOps,
         PointOfOp
<1>. QED
  BY <1>1, <1>2, <1>3, TypeCorrect, MutualExclusion, PointsOfOps, CleanUpIsSafe,
     PTL DEF Spec, RemovalWaitsForNodes

(***************************************************************************)
(* Deletion and the pods.  A node that has a volume staged is in its       *)
(* tracking directory if the calls that keep the directory succeed, and if *)
(* no CreateVolume makes the directory when nodes have staged the volume:  *)
(* a handler that still creates a volume works on one that nobody uses.    *)
(* It does if its status check still held when it took the lock.           *)
(***************************************************************************)
Creating(r) ==
    /\ job[r].op = "create"
    /\ job[r].pc \notin {"idle", "obtain", "list", "unmount", "remove", "release"}

\* A CreateVolume takes the lock only if nobody has created the volume since
\* its status check.  The code does not see to this: the check comes before
\* the lock and is not repeated.
CheckHolds ==
    \A r \in Requests :
        job[r].op = "create" /\ At(r, "obtain") /\ At(r, "mkdir")' =>
            phase[job[r].vol] = "create" /\ status[job[r].vol] # "created"

CreatingIsNew ==
    \A r \in Requests :
        Creating(r) => phase[job[r].vol] = "create" /\ status[job[r].vol] # "created"

\* A step that neither writes the status nor answers.
LEMMA CreatingFrame ==
    ASSUME CreatingIsNew, UNCHANGED status,
           \A v \in Volumes : phase[v] = "create" => phase'[v] = "create",
           \A q \in Requests :
               Creating(q)' => /\ Creating(q) /\ job'[q].vol = job[q].vol
                               /\ job[q].vol \in Volumes
    PROVE  CreatingIsNew'
BY Zenon DEF CreatingIsNew

\* A handler on its way out does not go back.
LEMMA CreatingEnds ==
    ASSUME TypeOK, NEW r \in Requests, Step(r), Advances(r), Creating(r)'
    PROVE  Creating(r) /\ UNCHANGED <<phase, status>> /\ job'[r].vol = job[r].vol
<1>. USE DEF At
<1>0. /\ job[r].pc # "idle" /\ job'[r].op = job[r].op /\ job'[r].vol = job[r].vol
      /\ job[r].op = "create" /\ job[r].pc # "obtain"
      /\ job'[r].pc \notin {"idle", "obtain", "list", "unmount", "remove", "release"}
  BY Zenon DEF Advances, Locked, TypeOK, Creating
<1>1. ASSUME NEW p \in {"list", "unmount", "remove", "release"} PROVE ~Goto(r, p)
  BY <1>0, GotoPoint, Zenon
<1>2. ~Return(r)
  <2>1. AfterError(r) \in {"list", "release"}
    BY <1>0, Zenon DEF AfterError, AfterCleanup
  <2>. QED
    BY <1>0, <2>1, ReturnPoint, Zenon
<1>3. AfterCleanup(r) = "release"
  BY <1>0, Zenon DEF AfterCleanup
<1>4. /\ ~WriteStatusCreated(r) /\ ~ListMounts(r) /\ ~Unmount(r) /\ ~RemoveMountDir(r)
      /\ ~RemoveVolumeDirectory(r)
  BY <1>1, <1>2, <1>3, Zenon DEF WriteStatusCreated, ListMounts, Unmount, RemoveMountDir,
     RemoveVolumeDirectory, OnHost
<1>5. ~WriteStatusDeleted(r)
  BY <1>1, Zenon DEF WriteStatusDeleted
<1>6. ~ReleaseLock(r) /\ ~ObtainLock(r)
  BY <1>0 DEF ReleaseLock, ObtainLock, Idle, TypeOK
<1>7. /\ UNCHANGED <<phase, status>>
      /\ job[r].pc \notin {"list", "unmount", "remove", "release"}
  BY <1>4, <1>5, <1>6 DEF Step, MakeMountDir, WriteClientFiles, Mount, CreateDirectory,
     SetPattern, Chmod, CreateNodesDirectory, Poll, RemoveCsiDirectory, StatDirectory
<1>. QED
  BY <1>0, <1>7, Zenon DEF Creating

LEMMA CreatingStep ==
    ASSUME TypeOK, LocksMatchHandlers, CreatingIsNew, [Next]_vars, CheckHolds
    PROVE  CreatingIsNew'
<1>. USE DEF At
<1>0. \A q \in Requests : Creating(q) => job[q].vol \in Volumes
  BY ActiveJob, Zenon DEF Creating
<1>1. ASSUME NEW r \in Requests, Arrive(r) PROVE CreatingIsNew'
  <2>1. PICK v \in Volumes : \/ CreateVolume(r, v) \/ DeleteVolume(r, v)
                             \/ ValidateVolumeCapabilities(r, v)
    BY <1>1, Zenon DEF Arrive
  <2>2. job[r].pc = "idle" /\ UNCHANGED status
    BY <2>1, Zenon DEF CreateVolume, DeleteVolume, ValidateVolumeCapabilities
  <2>3. CASE UNCHANGED job
    <3>1. \A w \in Volumes : phase[w] = "create" /\ status[w] # "created" =>
              phase'[w] = "create"
      BY <2>1, Zenon DEF CreateVolume, DeleteVolume, ValidateVolumeCapabilities, Acknowledge,
         TypeOK
    <3>. QED
      BY <1>0, <2>2, <2>3, <3>1, Zenon DEF CreatingIsNew, Creating
  <2>4. ASSUME NEW op \in {"create", "delete", "validate"}, Begin(r, op, v),
               UNCHANGED phase,
               op = "create" => phase[v] = "create" /\ status[v] # "created"
        PROVE  CreatingIsNew'
    <3>1. /\ \A q \in Requests \ {r} : job'[q] = job[q]
          /\ job'[r].op = op /\ job'[r].vol = v
      BY <2>4, Zenon DEF Begin, TypeOK
    <3>2. \A q \in Requests \ {r} : Creating(q)' => Creating(q)
      BY <3>1, Zenon DEF Creating
    <3>3. Creating(r)' => op = "create"
      BY <3>1, Zenon DEF Creating
    <3>. QED
      BY <2>2, <2>4, <3>1, <3>2, <3>3, Zenon DEF CreatingIsNew
  <2>. QED
    BY <2>1, <2>3, <2>4, Zenon DEF CreateVolume, DeleteVolume, ValidateVolumeCapabilities
<1>2. ASSUME NEW r \in Requests, ObtainLock(r) PROVE CreatingIsNew'
  <2>1. /\ UNCHANGED <<status, phase>> /\ job[r].pc = "obtain"
        /\ Goto(r, "mkdir") \/ job' = [job EXCEPT ![r] = Idle]
    BY <1>2, Zenon DEF ObtainLock
  <2>2. CASE Goto(r, "mkdir")
    <3>1. /\ \A q \in Requests \ {r} : job'[q] = job[q]
          /\ job'[r].op = job[r].op /\ job'[r].vol = job[r].vol
      BY <2>1, <2>2, GotoPoint, Zenon
    <3>2. job'[r].pc = "mkdir"
      BY <2>1, <2>2, GotoPoint, Zenon
    <3>3. \A q \in Requests \ {r} : Creating(q)' => Creating(q)
      BY <3>1, Zenon DEF Creating
    <3>4. Creating(r)' => phase[job[r].vol] = "create" /\ status[job[r].vol] # "created"
      BY <2>1, <3>1, <3>2, Zenon DEF Creating, CheckHolds
    <3>. QED
      BY <2>1, <3>1, <3>3, <3>4, Zenon DEF CreatingIsNew
  <2>3. CASE job' = [job EXCEPT ![r] = Idle]
    <3>1. /\ \A q \in Requests \ {r} : job'[q] = job[q]
          /\ job'[r].pc = "idle"
      BY <2>3, Zenon DEF TypeOK, Idle
    <3>2. \A q \in Requests : Creating(q)' => Creating(q) /\ job'[q].vol = job[q].vol
      BY <3>1, Zenon DEF Creating
    <3>. QED
      BY <1>0, <2>1, <3>2, CreatingFrame, Zenon
  <2>. QED
    BY <2>1, <2>2, <2>3, Zenon
\* A handler that has come further is alone with its volume.
<1>3. ASSUME NEW r \in Requests, Locked(r),
             NEW q \in Requests \ {r}, Creating(q)
      PROVE  job[q].vol # job[r].vol
  <2>1. Locked(q)
    BY <1>3, Zenon DEF Creating, Locked
  <2>. QED
    BY <1>3, <2>1, Zenon DEF LocksMatchHandlers
<1>4. ASSUME NEW r \in Requests, ReleaseLock(r) PROVE CreatingIsNew'
  <2>1. /\ \A q \in Requests \ {r} : job'[q] = job[q]
        /\ job'[r].pc = "idle" /\ UNCHANGED status /\ Locked(r)
    BY <1>4, Zenon DEF ReleaseLock, TypeOK, Idle, Locked
  <2>2. \A w \in Volumes : w # job[r].vol => phase'[w] = phase[w]
    BY <1>4, Zenon DEF ReleaseLock, Acknowledge, TypeOK
  <2>3. \A q \in Requests : Creating(q)' => Creating(q) /\ q # r
    BY <2>1, Zenon DEF Creating
  <2>4. ASSUME NEW q \in Requests, Creating(q)'
        PROVE  phase'[job'[q].vol] = "create" /\ status'[job'[q].vol] # "created"
    <3>1. Creating(q) /\ q # r /\ job'[q] = job[q] /\ job[q].vol \in Volumes
      BY <1>0, <2>1, <2>3, <2>4, Zenon
    <3>2. job[q].vol # job[r].vol
      BY <1>3, <1>4, <2>1, <3>1, Zenon
    <3>3. phase[job[q].vol] = "create" /\ status[job[q].vol] # "created"
      BY <3>1, Zenon DEF CreatingIsNew
    <3>. QED
      BY <2>1, <2>2, <3>1, <3>2, <3>3, Zenon
  <2>. QED
    BY <2>4, Zenon DEF CreatingIsNew
<1>5. ASSUME NEW r \in Requests, Step(r), Advances(r)
      PROVE  CreatingIsNew'
  <2>1. /\ \A q \in Requests \ {r} : job'[q] = job[q]
        /\ Locked(r) /\ job[r].vol \in Volumes
    BY <1>5, ActiveJob, Zenon DEF Advances, TypeOK, Locked
  <2>2. UNCHANGED phase \/ ReleaseLock(r)
    BY <1>5, Zenon DEF Step, ObtainLock, MakeMountDir, WriteClientFiles, Mount, Unmount,
       CreateDirectory, SetPattern, Chmod, CreateNodesDirectory, WriteStatusCreated, Poll,
       RemoveCsiDirectory, RemoveVolumeDirectory, StatDirectory, ListMounts,
       RemoveMountDir, WriteStatusDeleted
  <2>3. \A w \in Volumes : w # job[r].vol => status'[w] = status[w]
    BY <1>5, <2>1 DEF Step, ObtainLock, MakeMountDir, WriteClientFiles, Mount, Unmount,
       CreateDirectory, SetPattern, Chmod, CreateNodesDirectory, WriteStatusCreated, Poll,
       RemoveCsiDirectory, RemoveVolumeDirectory, StatDirectory, ListMounts,
       RemoveMountDir, WriteStatusDeleted, ReleaseLock, TypeOK
  <2>4. \A q \in Requests \ {r} : Creating(q)' => Creating(q)
    BY <2>1, Zenon DEF Creating
  <2>5. CASE UNCHANGED phase
    <3>1. ASSUME NEW q \in Requests, Creating(q)'
          PROVE  phase'[job'[q].vol] = "create" /\ status'[job'[q].vol] # "created"
      <4>1. CASE q = r
        BY <1>5, <3>1, <4>1, CreatingEnds, Zenon DEF CreatingIsNew
      <4>2. CASE q # r
        <5>1. Creating(q) /\ job'[q] = job[q] /\ job[q].vol \in Volumes
          BY <1>0, <2>1, <2>4, <3>1, <4>2, Zenon
        <5>2. job[q].vol # job[r].vol
          BY <1>3, <1>5, <2>1, <4>2, <5>1, Zenon
        <5>3. phase[job[q].vol] = "create" /\ status[job[q].vol] # "created"
          BY <5>1, Zenon DEF CreatingIsNew
        <5>. QED
          BY <2>3, <2>5, <5>1, <5>2, <5>3, Zenon
      <4>. QED
        BY <4>1, <4>2, Zenon
    <3>. QED
      BY <3>1, Zenon DEF CreatingIsNew
  <2>. QED
    BY <1>4, <1>5, <2>2, <2>5, Zenon
<1>6. ASSUME Restart PROVE CreatingIsNew'
  BY <1>6, Zenon DEF Restart, Idle, CreatingIsNew, Creating
<1>7. ASSUME Environment PROVE CreatingIsNew'
  <2>1. /\ UNCHANGED <<job, status>>
        /\ \A v \in Volumes : phase[v] = "create" => phase'[v] = "create"
    BY <1>7 DEF Environment, WantDeleted, TrackNode, UntrackNode, TypeOK
  <2>2. \A q \in Requests : Creating(q)' => Creating(q) /\ job'[q].vol = job[q].vol
    BY <2>1, Zenon DEF Creating
  <2>. QED
    BY <1>0, <2>1, <2>2, CreatingFrame, Zenon
<1>8. ASSUME UNCHANGED vars PROVE CreatingIsNew'
  BY <1>8, Zenon DEF vars, CreatingIsNew, Creating
<1>. QED
  BY <1>1, <1>2, <1>4, <1>5, <1>6, <1>7, <1>8, StepAdvances, Zenon DEF Next
=============================================================================
