----------------------- MODULE ControllerServerProofs -----------------------
(***************************************************************************)
(* Type correctness and mutual exclusion of ControllerServer, for every    *)
(* set of volumes, requests and nodes, every timeout and every bound on    *)
(* faults and restarts.                                                    *)
(***************************************************************************)
EXTENDS ControllerServer, TLAPS

JobsOK == job \in [Requests -> Jobs \cup {Idle}]

\* Every helper of beegfs_util.go leaves a well-formed mountDirPath behind.
LEMMA OutcomesTyped ==
    ASSUME NEW h \in HostDirs
    PROVE  /\ \A o \in MkdirAll(h) : o.host \in HostDirs
           /\ \A o \in writeClientFiles(h) : o.host \in HostDirs
           /\ \A o \in mountIfNecessary(h) : o.host \in HostDirs
           /\ \A o \in CleanupMountPoint(h) : o.host \in HostDirs
           /\ \A o \in cleanUpIfNecessary(h) : o.host \in HostDirs
<1>1. /\ [h EXCEPT !.dir = TRUE] \in HostDirs
      /\ [h EXCEPT !.conf = TRUE] \in HostDirs
      /\ [h EXCEPT !.conf = FALSE] \in HostDirs
      /\ \A m \in MountStates : [h EXCEPT !.mnt = m] \in HostDirs
      /\ Absent \in HostDirs
  BY Zenon DEF HostDirs, MountStates, Absent
<1>2. \A g : Done(g).host = g /\ Error(g).host = g
  BY Zenon DEF Done, Error
<1>3. \A o \in MkdirAll(h) : o.host \in HostDirs
  BY <1>1, <1>2 DEF MkdirAll
<1>4. \A o \in writeClientFiles(h) : o.host \in HostDirs
  BY <1>1, <1>2 DEF writeClientFiles
<1>5. \A o \in mountIfNecessary(h) : o.host \in HostDirs
  BY <1>1, <1>2 DEF mountIfNecessary, MountStates
<1>6. \A o \in CleanupMountPoint(h) : o.host \in HostDirs
  BY <1>1, <1>2 DEF CleanupMountPoint, MountStates
<1>7. \A o \in cleanUpIfNecessary(h) : o.host \in HostDirs
  BY <1>1, <1>2 DEF cleanUpIfNecessary
<1>. QED
  BY <1>3, <1>4, <1>5, <1>6, <1>7, Zenon

\* A handler that has begun has a volume, and a directory for it.
LEMMA ActiveJob ==
    ASSUME TypeOK, NEW r \in Requests, job[r].pc # "idle"
    PROVE  /\ job[r] \in Jobs
           /\ job[r].vol \in Volumes
           /\ Dir(r) \in Dirs
           /\ host[Dir(r)] \in HostDirs
  BY DEF TypeOK, Jobs, Idle, Dir, Dirs

\* Moving a handler to another control point keeps the jobs well formed.
LEMMA GotoTyped ==
    ASSUME TypeOK, NEW r \in Requests, job[r].pc # "idle",
           NEW point \in Points, Goto(r, point)
    PROVE  JobsOK'
  BY ActiveJob DEF TypeOK, JobsOK, Goto, Jobs

\* So does an error return.
LEMMA ReturnTyped ==
    ASSUME TypeOK, NEW r \in Requests, job[r].pc # "idle", Return(r)
    PROVE  JobsOK'
<1>1. AfterError(r) \in Points
  BY Zenon DEF AfterError, AfterCleanup, Points
<1>2. StillOk(r) \in BOOLEAN
  BY Zenon DEF StillOk
<1>. QED
  BY <1>1, <1>2, ActiveJob, Zenon DEF TypeOK, JobsOK, Return, Jobs

\* A failing call is counted up to the bound.
LEMMA FaultTyped ==
    ASSUME TypeOK, NEW r \in Requests, CallFails(r) \/ UNCHANGED faults
    PROVE  faults' \in 0..MaxFaults
  BY BoundsAssumption DEF TypeOK, CallFails

\* A call on mountDirPath whose outcomes are well formed keeps the types.
LEMMA OnHostTyped ==
    ASSUME TypeOK, NEW r \in Requests, job[r].pc # "idle",
           NEW outcomes, \A o \in outcomes : o.host \in HostDirs,
           NEW point \in Points, OnHost(r, outcomes, point)
    PROVE  JobsOK' /\ host' \in [Dirs -> HostDirs] /\ faults' \in 0..MaxFaults
<1>1. PICK o \in outcomes :
          /\ host' = [host EXCEPT ![Dir(r)] = o.host]
          /\ \/ o.ok /\ Goto(r, point) /\ UNCHANGED faults
             \/ ~o.ok /\ CallFails(r) /\ Return(r)
  BY Zenon DEF OnHost
<1>2. host' \in [Dirs -> HostDirs]
  BY <1>1, ActiveJob, Zenon DEF TypeOK
<1>3. JobsOK'
  BY <1>1, GotoTyped, ReturnTyped, Zenon
<1>. QED
  BY <1>1, <1>2, <1>3, FaultTyped, Zenon

\* A command on the volume's directory keeps the types.
LEMMA OnVolumeTyped ==
    ASSUME TypeOK, NEW r \in Requests, job[r].pc # "idle",
           NEW f \in Features, NEW point \in Points, OnVolume(r, f, point)
    PROVE  JobsOK' /\ volDir' \in [Volumes -> SUBSET Features]
           /\ faults' \in 0..MaxFaults
<1>1. [volDir EXCEPT ![job[r].vol] = @ \cup {f}] \in [Volumes -> SUBSET Features]
  BY ActiveJob, Zenon DEF TypeOK
<1>2. volDir' \in [Volumes -> SUBSET Features]
  BY <1>1, Zenon DEF OnVolume, TypeOK
<1>3. JobsOK'
  BY GotoTyped, ReturnTyped, Zenon DEF OnVolume
<1>. QED
  BY <1>2, <1>3, FaultTyped, Zenon DEF OnVolume

\* An answer moves the orchestrator between its four phases.
LEMMA AcknowledgeTyped ==
    ASSUME TypeOK, NEW op, NEW v \in Volumes, Acknowledge(op, v)
    PROVE  phase' \in [Volumes -> Phases]
  BY Zenon DEF TypeOK, Acknowledge, Phases

\* A request that passes the status check starts a well-formed handler.
LEMMA BeginTyped ==
    ASSUME TypeOK, NEW r \in Requests, NEW op \in Ops, NEW v \in Volumes,
           Begin(r, op, v)
    PROVE  JobsOK'
  BY BoundsAssumption DEF TypeOK, JobsOK, Begin, Jobs, Points

\* The arrival of a CreateVolume, DeleteVolume or ValidateVolumeCapabilities
\* request keeps the types.
LEMMA ArriveTyped ==
    ASSUME TypeOK, NEW r \in Requests, Arrive(r)
    PROVE  TypeOK'
<1>1. PICK v \in Volumes : \/ CreateVolume(r, v) \/ DeleteVolume(r, v)
                          \/ ValidateVolumeCapabilities(r, v)
  BY Zenon DEF Arrive
<1>2. CASE CreateVolume(r, v)
  BY <1>2, BeginTyped, AcknowledgeTyped, Zenon
     DEF CreateVolume, TypeOK, JobsOK, beegfs, Ops
<1>3. CASE DeleteVolume(r, v)
  BY <1>3, BeginTyped, AcknowledgeTyped, Zenon
     DEF DeleteVolume, TypeOK, JobsOK, beegfs, Ops
<1>4. CASE ValidateVolumeCapabilities(r, v)
  BY <1>4, BeginTyped, Zenon
     DEF ValidateVolumeCapabilities, TypeOK, JobsOK, beegfs, Ops
<1>. QED
  BY <1>1, <1>2, <1>3, <1>4, Zenon

\* So does each call of a handler.
LEMMA StepTyped ==
    ASSUME TypeOK, NEW r \in Requests, Step(r)
    PROVE  TypeOK'
<1>. USE DEF At, beegfs
<1>1. CASE ObtainLock(r)
  <2>1. job[r].pc # "idle"
    BY <1>1, Zenon DEF ObtainLock
  <2>2. JobsOK'
    BY <1>1, <2>1, GotoTyped, Zenon DEF ObtainLock, TypeOK, JobsOK, Points
  <2>. QED
    BY <1>1, <2>1, <2>2, ActiveJob, Zenon DEF ObtainLock, TypeOK, JobsOK
<1>2. CASE MakeMountDir(r)
  <2>1. JobsOK' /\ host' \in [Dirs -> HostDirs] /\ faults' \in 0..MaxFaults
    BY <1>2, ActiveJob, OutcomesTyped, OnHostTyped, Zenon DEF MakeMountDir, Points
  <2>. QED
    BY <1>2, <2>1, Zenon DEF MakeMountDir, TypeOK, JobsOK
<1>3. CASE WriteClientFiles(r)
  <2>1. JobsOK' /\ host' \in [Dirs -> HostDirs] /\ faults' \in 0..MaxFaults
    BY <1>3, ActiveJob, OutcomesTyped, OnHostTyped, Zenon DEF WriteClientFiles, Points
  <2>. QED
    BY <1>3, <2>1, Zenon DEF WriteClientFiles, TypeOK, JobsOK
<1>4. CASE Mount(r)
  <2>1. JobsOK' /\ host' \in [Dirs -> HostDirs] /\ faults' \in 0..MaxFaults
    BY <1>4, ActiveJob, OutcomesTyped, OnHostTyped, Zenon DEF Mount, Points
  <2>. QED
    BY <1>4, <2>1, Zenon DEF Mount, TypeOK, JobsOK
<1>5. CASE CreateDirectory(r)
  BY <1>5, OnVolumeTyped, Zenon
     DEF CreateDirectory, TypeOK, JobsOK, Points, Features
<1>6. CASE SetPattern(r)
  BY <1>6, OnVolumeTyped, Zenon
     DEF SetPattern, TypeOK, JobsOK, Points, Features
<1>7. CASE Chmod(r)
  BY <1>7, OnVolumeTyped, Zenon
     DEF Chmod, TypeOK, JobsOK, Points, Features
<1>8. CASE CreateNodesDirectory(r)
  <2>1. JobsOK'
    BY <1>8, GotoTyped, Zenon DEF CreateNodesDirectory, Points
  <2>2. csiDir' \in [Volumes -> {"absent", "partial", "nodes"}]
    BY <1>8, ActiveJob DEF CreateNodesDirectory, TypeOK
  <2>. QED
    BY <1>8, <2>1, <2>2, FaultTyped, Zenon DEF CreateNodesDirectory, TypeOK, JobsOK
<1>9. CASE WriteStatusCreated(r)
  BY <1>9, GotoTyped, ActiveJob, Zenon
     DEF WriteStatusCreated, TypeOK, JobsOK, Points
<1>10. CASE Poll(r)
  <2>1. JobsOK'
    <3>1. CASE \E t \in (job[r].waited + 1)..NodeUnstageTimeout :
                   job' = [job EXCEPT ![r].waited = t]
      BY <1>10, <3>1, ActiveJob, BoundsAssumption DEF Poll, TypeOK, JobsOK, Jobs
    <3>. QED
      BY <1>10, <3>1, GotoTyped, ReturnTyped, Zenon DEF Poll, Points
  <2>. QED
    BY <1>10, <2>1, FaultTyped, Zenon DEF Poll, TypeOK, JobsOK
<1>11. CASE RemoveCsiDirectory(r)
  <2>1. JobsOK'
    BY <1>11, GotoTyped, ReturnTyped, Zenon DEF RemoveCsiDirectory, Points
  <2>2. /\ csiDir' \in [Volumes -> {"absent", "partial", "nodes"}]
        /\ tracked' \in [Volumes -> SUBSET Nodes]
    BY <1>11, ActiveJob DEF RemoveCsiDirectory, TypeOK
  <2>. QED
    BY <1>11, <2>1, <2>2, FaultTyped, Zenon DEF RemoveCsiDirectory, TypeOK, JobsOK
<1>12. CASE RemoveVolumeDirectory(r)
  <2>1. JobsOK'
    BY <1>12, GotoTyped, ReturnTyped, Zenon DEF RemoveVolumeDirectory, Points
  <2>2. volDir' \in [Volumes -> SUBSET Features]
    BY <1>12, ActiveJob, Zenon DEF RemoveVolumeDirectory, TypeOK
  <2>. QED
    BY <1>12, <2>1, <2>2, FaultTyped, Zenon DEF RemoveVolumeDirectory, TypeOK, JobsOK
<1>13. CASE StatDirectory(r)
  <2>1. CASE Return(r)
    BY <1>13, <2>1, ReturnTyped, FaultTyped, Zenon DEF StatDirectory, TypeOK, JobsOK
  <2>2. CASE /\ job' = [job EXCEPT ![r].pc = "remove",
                                   ![r].ok = "dir" \in volDir[job[r].vol]]
             /\ UNCHANGED faults
    <3>. DEFINE exists == "dir" \in volDir[job[r].vol]
    <3>1. job[r] \in Jobs
      BY <1>13, ActiveJob, Zenon DEF StatDirectory
    <3>2. exists \in BOOLEAN
      OBVIOUS
    <3>3. job' = [job EXCEPT ![r].pc = "remove", ![r].ok = exists]
      BY <2>2, Zenon
    <3>. HIDE DEF exists
    <3>4. JobsOK'
      BY <3>1, <3>2, <3>3, Zenon DEF TypeOK, JobsOK, Jobs, Points
    <3>. QED
      BY <1>13, <2>2, <3>4, Zenon DEF StatDirectory, TypeOK, JobsOK
  <2>. QED
    BY <1>13, <2>1, <2>2, Zenon DEF StatDirectory
<1>14. CASE ListMounts(r)
  BY <1>14, GotoTyped, ReturnTyped, FaultTyped, Zenon
     DEF ListMounts, TypeOK, JobsOK, Points
<1>15. CASE Unmount(r)
  <2>1. JobsOK' /\ host' \in [Dirs -> HostDirs] /\ faults' \in 0..MaxFaults
    BY <1>15, ActiveJob, OutcomesTyped, OnHostTyped, Zenon DEF Unmount, Points
  <2>. QED
    BY <1>15, <2>1, Zenon DEF Unmount, TypeOK, JobsOK
<1>16. CASE RemoveMountDir(r)
  <2>0. /\ job[r].pc # "idle"
        /\ \A o \in cleanUpIfNecessary(host[Dir(r)]) : o.host \in HostDirs
        /\ AfterCleanup(r) \in Points
    BY <1>16, ActiveJob, OutcomesTyped, Zenon DEF RemoveMountDir, AfterCleanup, Points
  <2>1. CASE host[Dir(r)].mnt # "mounted"
    <3>1. JobsOK' /\ host' \in [Dirs -> HostDirs] /\ faults' \in 0..MaxFaults
      BY <1>16, <2>0, <2>1, OnHostTyped, Zenon DEF RemoveMountDir
    <3>. QED
      BY <1>16, <2>1, <3>1, Zenon DEF RemoveMountDir, TypeOK, JobsOK
  <2>2. CASE host[Dir(r)].mnt = "mounted"
    <3>1. JobsOK'
      BY <1>16, <2>0, <2>2, ReturnTyped, Zenon DEF RemoveMountDir
    <3>2. host' \in [Dirs -> HostDirs]
      BY <1>16, <2>0, <2>2, ActiveJob, Zenon DEF RemoveMountDir, TypeOK
    <3>. QED
      BY <1>16, <2>2, <3>1, <3>2 DEF RemoveMountDir, TypeOK, JobsOK
  <2>. QED
    BY <2>1, <2>2, Zenon
<1>17. CASE WriteStatusDeleted(r)
  BY <1>17, GotoTyped, ActiveJob, Zenon
     DEF WriteStatusDeleted, TypeOK, JobsOK, Points
<1>18. CASE ReleaseLock(r)
  <2>1. phase' \in [Volumes -> Phases]
    BY <1>18, AcknowledgeTyped, ActiveJob, Zenon DEF ReleaseLock, TypeOK
  <2>. QED
    BY <1>18, <2>1, Zenon DEF ReleaseLock, TypeOK
<1>. QED
  BY <1>1, <1>2, <1>3, <1>4, <1>5, <1>6, <1>7, <1>8, <1>9, <1>10, <1>11,
     <1>12, <1>13, <1>14, <1>15, <1>16, <1>17, <1>18, Zenon DEF Step

\* Every step keeps the types.
LEMMA NextTyped ==
    ASSUME TypeOK, [Next]_vars PROVE TypeOK'
<1>1. ASSUME NEW r \in Requests, Arrive(r) \/ Step(r) PROVE TypeOK'
  BY <1>1, ArriveTyped, StepTyped, Zenon
<1>2. ASSUME Restart PROVE TypeOK'
  BY <1>2, BoundsAssumption DEF Restart, TypeOK, beegfs
<1>3. ASSUME Environment PROVE TypeOK'
  <2>1. CASE \E v \in Volumes : WantDeleted(v)
    BY <1>3, <2>1, Zenon DEF WantDeleted, TypeOK, beegfs, Phases
  <2>2. CASE \E n \in Nodes, v \in Volumes : TrackNode(n, v) \/ UntrackNode(n, v)
    BY <1>3, <2>2 DEF TrackNode, UntrackNode, TypeOK
  <2>. QED
    BY <1>3, <2>1, <2>2, Zenon DEF Environment
<1>4. ASSUME UNCHANGED vars PROVE TypeOK'
  BY <1>4, Zenon DEF TypeOK, vars
<1>. QED
  BY <1>1, <1>2, <1>3, <1>4, Zenon DEF Next

LEMMA InitTyped == Init => TypeOK
<1>1. Absent \in HostDirs
  BY Zenon DEF HostDirs, MountStates, Absent
<1>. QED
  BY <1>1, BoundsAssumption DEF Init, TypeOK, Phases

\* Type correctness: no step of a handler, of the orchestrator, of a node and
\* no restart takes a variable out of the values the code can give it.
THEOREM TypeCorrect == Spec => []TypeOK
<1>1. TypeOK /\ [Next]_vars => TypeOK'
  BY NextTyped, Zenon
<1>. QED
  BY <1>1, InitTyped, PTL DEF Spec
-----------------------------------------------------------------------------
(***************************************************************************)
(* Mutual exclusion.  Every call but the two that handle the lock moves    *)
(* its own handler from a point under the lock to a point under the lock,  *)
(* for the same operation on the same volume.                              *)
(***************************************************************************)
Advances(r) ==
    /\ Locked(r)
    /\ UNCHANGED locks
    /\ \E j \in Jobs :
          /\ job' = [job EXCEPT ![r] = j]
          /\ j.op = job[r].op
          /\ j.vol = job[r].vol
          /\ j.pc # "obtain"

\* Moving on to another point under the lock is such a step.
LEMMA GotoAdvances ==
    ASSUME TypeOK, NEW r \in Requests, Locked(r), UNCHANGED locks,
           NEW point \in Points, point # "obtain", Goto(r, point)
    PROVE  Advances(r)
<1>. DEFINE j == [job[r] EXCEPT !.pc = point]
<1>1. job[r] \in Jobs
  BY ActiveJob, Zenon DEF Locked
<1>2. j \in Jobs /\ j.op = job[r].op /\ j.vol = job[r].vol /\ j.pc # "obtain"
  BY <1>1, Zenon DEF Jobs
<1>3. job' = [job EXCEPT ![r] = j]
  BY Zenon DEF Goto
<1>. QED
  BY <1>2, <1>3, Zenon DEF Advances

\* An error return leads to the deferred cleanup, still under the lock.
LEMMA ReturnAdvances ==
    ASSUME TypeOK, NEW r \in Requests, Locked(r), UNCHANGED locks, Return(r)
    PROVE  Advances(r)
<1>. DEFINE j == [job[r] EXCEPT !.pc = AfterError(r), !.ok = StillOk(r)]
<1>1. job[r] \in Jobs
  BY ActiveJob, Zenon DEF Locked
<1>2. AfterError(r) \in Points \ {"obtain"}
  BY Zenon DEF AfterError, AfterCleanup, Points
<1>3. StillOk(r) \in BOOLEAN
  BY Zenon DEF StillOk
<1>4. j \in Jobs /\ j.op = job[r].op /\ j.vol = job[r].vol /\ j.pc # "obtain"
  BY <1>1, <1>2, <1>3, Zenon DEF Jobs
<1>5. job' = [job EXCEPT ![r] = j]
  BY Zenon DEF Return
<1>. QED
  BY <1>4, <1>5, Zenon DEF Advances

\* Every call between obtainLockOnString and releaseLockOnString advances its
\* handler and touches no other.
LEMMA StepAdvances ==
    ASSUME TypeOK, NEW r \in Requests, Step(r)
    PROVE  ObtainLock(r) \/ ReleaseLock(r) \/ Advances(r)
<1>. USE DEF At, Locked, beegfs
<1>1. ASSUME MakeMountDir(r) \/ WriteClientFiles(r) \/ Mount(r) \/ Unmount(r)
      PROVE  Advances(r)
  BY <1>1, GotoAdvances, ReturnAdvances, Zenon
     DEF MakeMountDir, WriteClientFiles, Mount, Unmount, OnHost, Points
<1>2. ASSUME CreateDirectory(r) \/ SetPattern(r) \/ Chmod(r)
      PROVE  Advances(r)
  BY <1>2, GotoAdvances, ReturnAdvances, Zenon
     DEF CreateDirectory, SetPattern, Chmod, OnVolume, Points
<1>3. ASSUME \/ CreateNodesDirectory(r) \/ WriteStatusCreated(r)
             \/ RemoveCsiDirectory(r) \/ RemoveVolumeDirectory(r)
             \/ ListMounts(r) \/ WriteStatusDeleted(r)
      PROVE  Advances(r)
  BY <1>3, GotoAdvances, ReturnAdvances, Zenon
     DEF CreateNodesDirectory, WriteStatusCreated, RemoveCsiDirectory,
         RemoveVolumeDirectory, ListMounts, WriteStatusDeleted, Points
<1>4. ASSUME RemoveMountDir(r) PROVE Advances(r)
  <2>1. AfterCleanup(r) \in Points \ {"obtain"}
    BY Zenon DEF AfterCleanup, Points
  <2>. QED
    BY <1>4, <2>1, GotoAdvances, ReturnAdvances, Zenon DEF RemoveMountDir, OnHost
<1>5. ASSUME Poll(r) PROVE Advances(r)
  <2>1. CASE \E t \in (job[r].waited + 1)..NodeUnstageTimeout :
                 job' = [job EXCEPT ![r].waited = t]
    <3>1. PICK t \in (job[r].waited + 1)..NodeUnstageTimeout :
                 job' = [job EXCEPT ![r].waited = t]
      BY <2>1, Zenon
    <3>. DEFINE j == [job[r] EXCEPT !.waited = t]
    <3>2. job[r] \in Jobs
      BY <1>5, ActiveJob, Zenon DEF Poll
    <3>3. /\ j \in Jobs /\ j.op = job[r].op /\ j.vol = job[r].vol
          /\ j.pc # "obtain"
      BY <1>5, <3>1, <3>2, BoundsAssumption DEF Jobs, Poll
    <3>4. job' = [job EXCEPT ![r] = j]
      BY <3>1, Zenon
    <3>. QED
      BY <1>5, <3>3, <3>4, Zenon DEF Advances, Poll
  <2>. QED
    BY <1>5, <2>1, GotoAdvances, ReturnAdvances, Zenon DEF Poll, Points
<1>6. ASSUME StatDirectory(r) PROVE Advances(r)
  <2>1. CASE job' = [job EXCEPT ![r].pc = "remove",
                                ![r].ok = "dir" \in volDir[job[r].vol]]
    <3>. DEFINE exists == "dir" \in volDir[job[r].vol]
    <3>1. exists \in BOOLEAN
      OBVIOUS
    <3>2. job' = [job EXCEPT ![r].pc = "remove", ![r].ok = exists]
      BY <2>1, Zenon
    <3>. HIDE DEF exists
    <3>. DEFINE j == [job[r] EXCEPT !.pc = "remove", !.ok = exists]
    <3>3. job[r] \in Jobs
      BY <1>6, ActiveJob, Zenon DEF StatDirectory
    <3>4. /\ j \in Jobs /\ j.op = job[r].op /\ j.vol = job[r].vol
          /\ j.pc # "obtain"
      BY <3>1, <3>3, Zenon DEF Jobs, Points
    <3>5. job' = [job EXCEPT ![r] = j]
      BY <3>2, Zenon
    <3>. QED
      BY <1>6, <3>4, <3>5, Zenon DEF Advances, StatDirectory
  <2>. QED
    BY <1>6, <2>1, ReturnAdvances, Zenon DEF StatDirectory
<1>. QED
  BY <1>1, <1>2, <1>3, <1>4, <1>5, <1>6, Zenon DEF Step

\* Steps that change neither the lock nor who is under it.
LEMMA LocksFrame ==
    ASSUME LocksMatchHandlers, UNCHANGED locks,
           \A q \in Requests : /\ Locked(q)' <=> Locked(q)
                               /\ Locked(q) => job'[q].vol = job[q].vol
    PROVE  LocksMatchHandlers'
<1>1. {job'[r].vol : r \in {q \in Requests : Locked(q)'}}
          = {job[r].vol : r \in {q \in Requests : Locked(q)}}
  OBVIOUS
<1>. QED
  BY <1>1, Zenon DEF LocksMatchHandlers

\* A handler advancing under its lock does not change who holds what.
LEMMA AdvanceKeepsLocks ==
    ASSUME TypeOK, LocksMatchHandlers, NEW r \in Requests, Advances(r)
    PROVE  LocksMatchHandlers'
<1>1. PICK j \in Jobs : /\ job' = [job EXCEPT ![r] = j]
                        /\ j.vol = job[r].vol
                        /\ j.pc # "obtain"
  BY Zenon DEF Advances
<1>2. j.pc # "idle"
  BY Zenon DEF Jobs, Points
<1>3. \A q \in Requests : /\ Locked(q)' <=> Locked(q)
                          /\ Locked(q) => job'[q].vol = job[q].vol
  BY <1>1, <1>2, Zenon DEF Locked, Advances, TypeOK
<1>. QED
  BY <1>3, LocksFrame, Zenon DEF Advances

\* volumeIDsInFlight is an exact record of the handlers under a lock, and two
\* handlers never work on one volume at a time: obtainLockOnString refuses a
\* volume in flight, a refused request releases nothing, and every path of
\* the three handlers ends in the deferred releaseLockOnString.
THEOREM MutualExclusion == Spec => []LocksMatchHandlers
<1>1. Init => LocksMatchHandlers
  BY DEF Init, LocksMatchHandlers, Locked, Idle
<1>2. TypeOK /\ LocksMatchHandlers /\ [Next]_vars => LocksMatchHandlers'
  <2>. SUFFICES ASSUME TypeOK, LocksMatchHandlers, [Next]_vars
                PROVE  LocksMatchHandlers'
    OBVIOUS
  <2>1. ASSUME NEW r \in Requests, Arrive(r) PROVE LocksMatchHandlers'
    <3>1. /\ job[r].pc = "idle"
          /\ UNCHANGED locks
          /\ UNCHANGED job \/ \E op \in Ops, v \in Volumes : Begin(r, op, v)
      BY <2>1, Zenon DEF Arrive, CreateVolume, DeleteVolume,
                  ValidateVolumeCapabilities, At, Ops
    <3>2. \A q \in Requests : /\ Locked(q)' <=> Locked(q)
                              /\ Locked(q) => job'[q].vol = job[q].vol
      BY <3>1 DEF Begin, Locked, TypeOK
    <3>. QED
      BY <3>1, <3>2, LocksFrame, Zenon
  <2>2. ASSUME NEW r \in Requests, ObtainLock(r) PROVE LocksMatchHandlers'
    <3>1. job[r].pc = "obtain" /\ job[r].vol \in Volumes
      BY <2>2, ActiveJob, Zenon DEF ObtainLock, At
    <3>2. CASE job[r].vol \in locks
      <4>1. UNCHANGED locks /\ job' = [job EXCEPT ![r] = Idle]
        BY <2>2, <3>2, Zenon DEF ObtainLock
      <4>2. \A q \in Requests : /\ Locked(q)' <=> Locked(q)
                                /\ Locked(q) => job'[q].vol = job[q].vol
        BY <3>1, <4>1, Zenon DEF Locked, Idle, TypeOK
      <4>. QED
        BY <4>1, <4>2, LocksFrame, Zenon
    <3>3. CASE job[r].vol \notin locks
      <4>1. /\ locks' = locks \cup {job[r].vol}
            /\ job' = [job EXCEPT ![r].pc = "mkdir"]
        BY <2>2, <3>3, Zenon DEF ObtainLock, Goto
      <4>2. /\ Locked(r)'
            /\ job'[r].vol = job[r].vol
            /\ \A q \in Requests \ {r} : job'[q] = job[q]
        BY <4>1, <3>1, ActiveJob, Zenon DEF Locked, TypeOK, Jobs
      <4>3. ~Locked(r)
        BY <3>1, Zenon DEF Locked
      <4>4. \A q \in Requests \ {r} : Locked(q) => job[q].vol # job[r].vol
        BY <3>3, Zenon DEF LocksMatchHandlers
      <4>5. locks' = {job'[q].vol : q \in {p \in Requests : Locked(p)'}}
        BY <4>1, <4>2, <4>3 DEF LocksMatchHandlers, Locked
      <4>6. \A p, q \in Requests :
                Locked(p)' /\ Locked(q)' /\ job'[p].vol = job'[q].vol => p = q
        BY <4>2, <4>4 DEF LocksMatchHandlers, Locked
      <4>. QED
        BY <4>5, <4>6, Zenon DEF LocksMatchHandlers
    <3>. QED
      BY <3>2, <3>3, Zenon
  <2>3. ASSUME NEW r \in Requests, ReleaseLock(r) PROVE LocksMatchHandlers'
    <3>1. /\ Locked(r)
          /\ locks' = locks \ {job[r].vol}
          /\ job' = [job EXCEPT ![r] = Idle]
      BY <2>3, Zenon DEF ReleaseLock, At, Locked
    <3>2. ~Locked(r)' /\ \A q \in Requests \ {r} : job'[q] = job[q]
      BY <3>1, Zenon DEF Locked, TypeOK, Idle
    <3>3. \A q \in Requests \ {r} : Locked(q) => job[q].vol # job[r].vol
      BY <3>1, Zenon DEF LocksMatchHandlers
    <3>4. locks' = {job'[q].vol : q \in {p \in Requests : Locked(p)'}}
      BY <3>1, <3>2, <3>3 DEF LocksMatchHandlers, Locked
    <3>5. \A p, q \in Requests :
              Locked(p)' /\ Locked(q)' /\ job'[p].vol = job'[q].vol => p = q
      BY <3>2, Zenon DEF LocksMatchHandlers, Locked
    <3>. QED
      BY <3>4, <3>5, Zenon DEF LocksMatchHandlers
  <2>4. ASSUME NEW r \in Requests, Advances(r) PROVE LocksMatchHandlers'
    BY <2>4, AdvanceKeepsLocks, Zenon
  <2>5. ASSUME Restart PROVE LocksMatchHandlers'
    BY <2>5, Zenon DEF Restart, LocksMatchHandlers, Locked, Idle
  <2>6. ASSUME Environment \/ UNCHANGED vars PROVE LocksMatchHandlers'
    BY <2>6 DEF Environment, WantDeleted, TrackNode, UntrackNode, vars,
                LocksMatchHandlers, Locked
  <2>. QED
    BY <2>1, <2>2, <2>3, <2>4, <2>5, <2>6, StepAdvances, Zenon DEF Next
<1>. QED
  BY <1>1, <1>2, TypeCorrect, PTL DEF Spec
=============================================================================
