------------------------ MODULE ControllerServerLife ------------------------
(***************************************************************************)
(* The whole life of a volume, with the history of module VolumeHistory.   *)
(* A Delete handler past a call has removed what that call removes.  For a *)
(* volume whose lock no overtaken request has taken: a Create handler      *)
(* builds while creation is wanted, or adds nothing to a complete volume;  *)
(* once a deletion is recorded or acknowledged nothing is left, and the    *)
(* only handler that may hold the lock is a Delete that only has to        *)
(* release it.  From this, the controller service implements VolumeLife.   *)
(***************************************************************************)
EXTENDS ControllerServerReady, VolumeHistory

\* Nothing of the volume is left in the file system.
Emptied(v) == volDir[v] = {} /\ csiDir[v] # "nodes"

\* Nothing of it is left on the controller either.
Cleared(v) == Emptied(v) /\ host[MountDir[v]] = Absent

Removal(r) ==
    LET v == job[r].vol
    IN  /\ job[r].pc = "removeVol" => csiDir[v] # "nodes"
        /\ job[r].pc \in {"list", "unmount", "remove"} /\ job[r].ok => Emptied(v)
        /\ job[r].pc \in {"deleted", "release"} /\ job[r].ok => Cleared(v)

Over(v) == phase[v] = "gone" \/ status[v] = "deleted"

\* What a Create handler may do to the volume does not disturb its life.
Buildable(v) == phase[v] = "create" \/ Ready(v)

BuildsWanted ==
    \A r \in Requests :
        Locked(r) /\ job[r].op = "create" /\ job[r].vol \notin late =>
            Buildable(job[r].vol)

Removals == \A r \in Requests : job[r].op = "delete" => Removal(r)

OverIsCleared ==
    \A v \in Volumes \ late : Over(v) => ~Wanted(v) /\ Cleared(v)

OverIsQuiet ==
    \A r \in Requests :
        Locked(r) /\ job[r].vol \notin late /\ Over(job[r].vol) =>
            job[r].op = "delete" /\ job[r].pc = "release"

LifeInv == BuildsWanted /\ Removals /\ OverIsCleared /\ OverIsQuiet

\* A call of DeleteVolume that succeeds has removed its part; an error return
\* clears the result.
LEMMA DeleteRemoves ==
    ASSUME TypeOK, PointsMatchOps, CleanUpOnlyUnmounted, LifeInv,
           NEW r \in Requests, Step(r), Advances(r), job[r].op = "delete"
    PROVE  Removal(r)'
<1>. USE DEF At
<1>0. /\ job[r] \in Jobs /\ job[r].vol \in Volumes /\ job[r].pc # "idle"
      /\ job'[r].vol = job[r].vol /\ job'[r].op = "delete"
      /\ Removal(r)
  BY ActiveJob, Zenon DEF Advances, Locked, TypeOK, LifeInv, Removals
<1>b. ASSUME Return(r) PROVE Removal(r)'
  <2>1. ~job'[r].ok /\ job'[r].pc = AfterError(r)
    BY <1>b, <1>0, ReturnPoint, Zenon DEF StillOk
  <2>2. AfterError(r) # "removeVol"
    BY Zenon DEF AfterError, AfterCleanup
  <2>. QED
    BY <2>1, <2>2, Zenon DEF Removal
<1>c. ASSUME NEW point, Goto(r, point),
             point \in {"write", "mount", "poll", "removeCsi"}
      PROVE  Removal(r)'
  BY <1>c, <1>0, GotoPoint, Zenon DEF Removal
<1>1. CASE MakeMountDir(r) \/ WriteClientFiles(r) \/ Mount(r)
  BY <1>0, <1>1, <1>b, <1>c, Zenon DEF MakeMountDir, WriteClientFiles, Mount, OnHost
<1>2. CASE Poll(r)
  <2>1. CASE \E t \in (job[r].waited + 1)..NodeUnstageTimeout :
                 job' = [job EXCEPT ![r].waited = t]
    <3>1. job'[r].pc = "poll"
      BY <1>0, <1>2, <2>1 DEF Poll, TypeOK, Jobs
    <3>. QED
      BY <3>1, Zenon DEF Removal
  <2>2. CASE csiDir[job[r].vol] # "nodes" /\ Goto(r, "removeVol")
    <3>1. job'[r].pc = "removeVol" /\ UNCHANGED csiDir
      BY <1>0, <1>2, <2>2, GotoPoint, Zenon DEF Poll, beegfs
    <3>. QED
      BY <1>0, <2>2, <3>1, Zenon DEF Removal
  <2>. QED
    BY <1>2, <1>b, <1>c, <2>1, <2>2, Zenon DEF Poll
<1>3. CASE RemoveCsiDirectory(r)
  <2>1. CASE /\ Goto(r, "removeVol")
             /\ csiDir' = [csiDir EXCEPT ![job[r].vol] = "absent"]
    <3>1. job'[r].pc = "removeVol" /\ csiDir'[job[r].vol] = "absent"
      BY <1>0, <2>1, GotoPoint, Zenon DEF TypeOK
    <3>. QED
      BY <1>0, <3>1, Zenon DEF Removal
  <2>. QED
    BY <1>3, <1>b, <2>1, Zenon DEF RemoveCsiDirectory
<1>4. CASE RemoveVolumeDirectory(r)
  <2>1. CASE /\ Goto(r, "list")
             /\ volDir' = [volDir EXCEPT ![job[r].vol] = {}]
    <3>1. /\ job'[r].pc = "list" /\ volDir'[job[r].vol] = {}
          /\ csiDir'[job[r].vol] # "nodes"
      BY <1>0, <1>4, <2>1, GotoPoint DEF RemoveVolumeDirectory, TypeOK, Removal
    <3>. QED
      BY <1>0, <3>1, Zenon DEF Removal, Emptied
  <2>. QED
    BY <1>4, <1>b, <2>1, Zenon DEF RemoveVolumeDirectory
<1>5. CASE ListMounts(r) \/ Unmount(r)
  <2>1. CASE /\ job[r].pc \in {"list", "unmount"}
             /\ Goto(r, "unmount") \/ Goto(r, "remove")
    <3>1. job'[r].pc \in {"unmount", "remove"} /\ job'[r].ok = job[r].ok
      BY <1>0, <2>1, GotoPoint, Zenon
    <3>2. UNCHANGED <<volDir, csiDir>>
      BY <1>5, Zenon DEF ListMounts, Unmount, beegfs
    <3>. QED
      BY <1>0, <2>1, <3>1, <3>2, Zenon DEF Removal, Emptied
  <2>. QED
    BY <1>5, <1>b, <2>1, Zenon DEF ListMounts, Unmount, OnHost
<1>6. CASE RemoveMountDir(r)
  <2>1. /\ job[r].pc = "remove" /\ host[Dir(r)].mnt # "mounted"
        /\ UNCHANGED <<volDir, csiDir>>
    BY <1>6, Zenon DEF RemoveMountDir, CleanUpOnlyUnmounted, beegfs
  <2>2. CASE Goto(r, "deleted") /\ host' = [host EXCEPT ![Dir(r)] = Absent]
    <3>1. job'[r].pc = "deleted" /\ job'[r].ok = job[r].ok
      BY <1>0, <2>2, GotoPoint, Zenon
    <3>2. host'[MountDir[job[r].vol]] = Absent
      BY <1>0, <2>2, ActiveJob, Zenon DEF Dir, TypeOK
    <3>. QED
      BY <1>0, <2>1, <3>1, <3>2, Zenon DEF Removal, Cleared, Emptied
  <2>3. PICK o \in cleanUpIfNecessary(host[Dir(r)]) :
            /\ host' = [host EXCEPT ![Dir(r)] = o.host]
            /\ \/ o.ok /\ Goto(r, AfterCleanup(r))
               \/ ~o.ok /\ Return(r)
    BY <1>6, <2>1, Zenon DEF RemoveMountDir, OnHost
  <2>4. o.ok => o.host = Absent
    BY <2>1, <2>3 DEF cleanUpIfNecessary, Done, Error
  <2>. QED
    BY <1>b, <2>2, <2>3, <2>4, Zenon DEF AfterCleanup
<1>7. CASE WriteStatusDeleted(r)
  <2>1. job'[r].pc = "release" /\ job'[r].ok = job[r].ok
    BY <1>0, <1>7, GotoPoint, Zenon DEF WriteStatusDeleted
  <2>. QED
    BY <1>0, <1>7, <2>1, Zenon
       DEF WriteStatusDeleted, Removal, Cleared, Emptied, beegfs
<1>8. CASE \/ ObtainLock(r) \/ ReleaseLock(r) \/ StatDirectory(r)
           \/ CreateDirectory(r) \/ SetPattern(r) \/ Chmod(r)
           \/ CreateNodesDirectory(r) \/ WriteStatusCreated(r)
  <2>1. CASE ReleaseLock(r)
    BY <2>1, <1>0, VolumesAssumption, Zenon DEF ReleaseLock, Idle, TypeOK
  <2>. QED
    BY <1>8, <2>1, Zenon DEF ObtainLock, Advances, Locked, StatDirectory,
         CreateDirectory, SetPattern, Chmod, CreateNodesDirectory,
         WriteStatusCreated, PointsMatchOps, PointOfOp
<1>. QED
  BY <1>1, <1>2, <1>3, <1>4, <1>5, <1>6, <1>7, <1>8, Zenon DEF Step

\* A call of a Create handler takes nothing from any volume's directory.
LEMMA CreateGrows ==
    ASSUME TypeOK, PointsMatchOps, CleanUpOnlyUnmounted, NEW r \in Requests,
           Step(r), job[r].op = "create", NEW v \in Volumes
    PROVE  volDir[v] \subseteq volDir'[v]
<1>. USE DEF At
<1>1. CASE CreateDirectory(r) \/ SetPattern(r) \/ Chmod(r)
  <2>1. PICK f : volDir' \in {volDir, [volDir EXCEPT ![job[r].vol] = @ \cup {f}]}
    BY <1>1, Zenon DEF CreateDirectory, SetPattern, Chmod, OnVolume
  <2>. QED
    BY <2>1 DEF TypeOK
<1>2. CASE RemoveVolumeDirectory(r)
  BY <1>2, Zenon DEF RemoveVolumeDirectory, PointsMatchOps, PointOfOp
<1>3. CASE RemoveMountDir(r)
  BY <1>3, Zenon DEF RemoveMountDir, CleanUpOnlyUnmounted, beegfs
<1>. QED
  BY <1>1, <1>2, <1>3 DEF Step, ObtainLock, MakeMountDir,
       WriteClientFiles, Mount, Unmount, CreateNodesDirectory,
       WriteStatusCreated, Poll, RemoveCsiDirectory, StatDirectory,
       ListMounts, WriteStatusDeleted, ReleaseLock, beegfs

\* LifeInv survives a step that changes neither a directory nor the status
\* map, makes no volume wanted, ends one only when it is cleared and not
\* locked, moves one on from creation only when it is complete, and locks a
\* live volume.
LEMMA LifeFrame ==
    ASSUME TypeOK, LifeInv, late \subseteq late',
           UNCHANGED <<status, host, volDir, csiDir>>,
           \A q \in Requests : Locked(q)' => job'[q].vol \in Volumes,
           \A w \in Volumes : Wanted(w)' => Wanted(w),
           \A w \in Volumes : Buildable(w) => Buildable(w)',
           \A w \in Volumes \ late' : phase'[w] = "gone" =>
               \/ Over(w)
               \/ /\ Cleared(w)
                  /\ \A q \in Requests : Locked(q)' => job'[q].vol # w,
           \A q \in Requests :
               \/ job'[q] = job[q]
               \/ job'[q].pc \in {"idle", "obtain"}
               \/ /\ job'[q].pc = "mkdir"
                  /\ \A w \in Volumes \ late' : w = job'[q].vol =>
                        ~Over(w)' /\ (job'[q].op = "create" => Buildable(w)')
    PROVE  LifeInv'
<1>0. \A w : Cleared(w)' = Cleared(w) /\ Emptied(w)' = Emptied(w)
  BY Zenon DEF Cleared, Emptied
<1>1. BuildsWanted'
  <2>. SUFFICES ASSUME NEW q \in Requests, Locked(q)', job'[q].op = "create",
                       NEW w \in Volumes \ late', w = job'[q].vol
                PROVE  Buildable(w)'
    BY Zenon DEF BuildsWanted, Buildable, Ready
  <2>1. CASE job'[q] = job[q]
    BY <2>1, Zenon DEF Locked, LifeInv, BuildsWanted
  <2>. QED
    BY <2>1, Zenon DEF Locked
<1>2. Removals'
  <2>. SUFFICES ASSUME NEW q \in Requests, job'[q].op = "delete"
                PROVE  Removal(q)'
    BY Zenon DEF Removals
  <2>1. CASE job'[q] = job[q]
    <3>1. Removal(q)
      BY <2>1, Zenon DEF LifeInv, Removals
    <3>. QED
      BY <1>0, <2>1, <3>1, Zenon DEF Removal
  <2>. QED
    BY <2>1, Zenon DEF Removal
<1>3. OverIsCleared'
  <2>. SUFFICES ASSUME NEW w \in Volumes \ late', Over(w)'
                PROVE  ~Wanted(w)' /\ Cleared(w)'
    BY Zenon DEF OverIsCleared
  <2>1. CASE Over(w)
    BY <1>0, <2>1, Zenon DEF LifeInv, OverIsCleared
  <2>2. CASE ~Over(w)
    BY <1>0, <2>2, Zenon DEF Over, Wanted
  <2>. QED
    BY <2>1, <2>2, Zenon
<1>4. OverIsQuiet'
  <2>. SUFFICES ASSUME NEW q \in Requests, Locked(q)',
                       NEW w \in Volumes \ late', w = job'[q].vol, Over(w)'
                PROVE  job'[q].op = "delete" /\ job'[q].pc = "release"
    BY Zenon DEF OverIsQuiet, Over
  <2>1. job'[q] = job[q]
    BY Zenon DEF Locked
  <2>2. Locked(q) /\ w = job[q].vol
    BY <2>1, Zenon DEF Locked
  <2>3. Over(w)
    BY <2>2, Zenon DEF Over
  <2>. QED
    BY <2>1, <2>2, <2>3, Zenon DEF LifeInv, OverIsQuiet
<1>. QED
  BY <1>1, <1>2, <1>3, <1>4, Zenon DEF LifeInv

\* Only taking a lock is recorded.
LEMMA NothingRecorded ==
    ASSUME Record, \A q \in Requests : At(q, "obtain") => job'[q].pc # "mkdir"
    PROVE  late' = late
  BY Zenon DEF Record, TakesLock, At

\* The handler that takes the lock has its volume recorded if it was overtaken.
LEMMA LockRecorded ==
    ASSUME TypeOK, Record, NEW r \in Requests, ObtainLock(r)
    PROVE  /\ late' = late \/ (Overtaken(r) /\ late' = late \cup {job[r].vol})
           /\ job'[r].pc = "mkdir" /\ Overtaken(r) => job[r].vol \in late'
<1>. USE DEF At
<1>0. \A q \in Requests \ {r} : job'[q] = job[q]
  BY GotoPoint DEF ObtainLock, TypeOK
<1>1. \A q \in Requests : TakesLock(q) => q = r
  BY <1>0 DEF TakesLock
<1>2. job'[r].pc = "mkdir" => TakesLock(r)
  BY Zenon DEF TakesLock, ObtainLock
<1>3. CASE TakesLock(r) /\ Overtaken(r)
  BY <1>1, <1>3 DEF Record
<1>4. CASE ~(TakesLock(r) /\ Overtaken(r))
  BY <1>1, <1>2, <1>4 DEF Record
<1>. QED
  BY <1>3, <1>4

\* An answer, or a new request, keeps LifeInv.
LEMMA ArrivalKeepsLife ==
    ASSUME TypeOK, ReadyInv, LifeInv, Record, NEW r \in Requests,
           NEW v \in Volumes, CreateVolume(r, v) \/ DeleteVolume(r, v)
    PROVE  LifeInv'
<1>. USE DEF At
<1>1. UNCHANGED <<status, host, volDir, csiDir>>
  BY Zenon DEF CreateVolume, DeleteVolume, beegfs
<1>2. \A q \in Requests : job'[q] = job[q] \/ job'[q].pc = "obtain"
  BY DEF CreateVolume, DeleteVolume, Begin, TypeOK
<1>3. late' = late
  BY <1>2, NothingRecorded
<1>4. \A q \in Requests : Locked(q)' => job'[q].vol \in Volumes
  BY <1>2, ActiveJob, Zenon DEF Locked
<1>5. CASE UNCHANGED phase
  BY <1>1, <1>2, <1>3, <1>4, <1>5, LifeFrame, Zenon DEF Wanted, Buildable, Ready, Over
<1>6. CASE phase[v] = "create" /\ status[v] = "created" /\ Acknowledge("create", v)
  <2>1. Ready(v) /\ phase' = [phase EXCEPT ![v] = "use"]
    BY <1>6, Zenon DEF ReadyInv, Wanted, Acknowledge, TypeOK
  <2>2. \A w \in Volumes : /\ Wanted(w)' => Wanted(w)
                           /\ Buildable(w) => Buildable(w)'
                           /\ phase'[w] = "gone" => Over(w)
    BY <1>1, <1>6, <2>1, Zenon DEF Wanted, Buildable, Ready, Over, TypeOK
  <2>. QED
    BY <1>1, <1>2, <1>3, <1>4, <2>2, LifeFrame, Zenon
<1>7. CASE phase[v] = "delete" /\ status[v] = "deleted" /\ Acknowledge("delete", v)
  <2>1. phase' = [phase EXCEPT ![v] = "gone"]
    BY <1>7, Zenon DEF Acknowledge, TypeOK
  <2>2. \A w \in Volumes : /\ Wanted(w)' => Wanted(w)
                           /\ Buildable(w) => Buildable(w)'
                           /\ phase'[w] = "gone" => Over(w)
    BY <1>1, <1>7, <2>1, Zenon DEF Wanted, Buildable, Ready, Over, TypeOK
  <2>. QED
    BY <1>1, <1>2, <1>3, <1>4, <2>2, LifeFrame, Zenon
<1>. QED
  BY <1>5, <1>6, <1>7, Zenon DEF CreateVolume, DeleteVolume

\* Taking the lock keeps LifeInv: a request that was not overtaken has found a
\* live volume.
LEMMA LockKeepsLife ==
    ASSUME TypeOK, PointsMatchOps, ReadyInv, LifeInv, Record,
           "validate" \notin Handlers, NEW r \in Requests, ObtainLock(r)
    PROVE  LifeInv'
<1>. USE DEF At
<1>. DEFINE v == job[r].vol
<1>0. v \in Volumes /\ job[r].pc = "obtain"
  BY ActiveJob, Zenon DEF ObtainLock
<1>1. UNCHANGED <<status, host, volDir, csiDir, phase>>
  BY Zenon DEF ObtainLock, beegfs
<1>2. \A q \in Requests : \/ job'[q] = job[q]
                          \/ job'[q].pc = "idle"
                          \/ /\ q = r /\ job'[q].op = job[q].op
                             /\ job'[q].vol = v /\ job'[q].pc = "mkdir"
  BY GotoPoint DEF ObtainLock, TypeOK, Idle
<1>3. late \subseteq late'
  BY LockRecorded
<1>4. ASSUME job'[r].pc = "mkdir", v \notin late'
      PROVE  ~Over(v) /\ (job[r].op = "create" => Buildable(v))
  <2>1. ~Overtaken(r) /\ v \notin late
    BY <1>3, <1>4, LockRecorded, Zenon
  <2>2. CASE job[r].op = "create"
    <3>1. phase[v] \in {"create", "use"}
      BY <1>0, <2>1, <2>2 DEF Overtaken, TypeOK, Phases
    <3>. QED
      BY <1>0, <2>1, <3>1, Zenon DEF LifeInv, OverIsCleared, Wanted, Buildable,
           ReadyInv, UsableVolumesAreReady
  <2>3. CASE job[r].op = "delete"
    BY <2>1, <2>3, Zenon DEF Overtaken, Over
  <2>. QED
    BY <1>0, <2>2, <2>3, ActiveJob, Zenon DEF PointsMatchOps, Jobs, Ops
<1>5. \A q \in Requests : Locked(q)' => job'[q].vol \in Volumes
  BY <1>0, <1>2, ActiveJob, Zenon DEF Locked
<1>6. \A w \in Volumes : /\ Wanted(w)' = Wanted(w) /\ Buildable(w)' = Buildable(w)
                         /\ Over(w)' = Over(w) /\ (phase'[w] = "gone" => Over(w))
  BY <1>1, Zenon DEF Wanted, Buildable, Ready, Over
<1>7. \A q \in Requests :
          \/ job'[q] = job[q]
          \/ job'[q].pc \in {"idle", "obtain"}
          \/ /\ job'[q].pc = "mkdir"
             /\ \A w \in Volumes \ late' : w = job'[q].vol =>
                   ~Over(w)' /\ (job'[q].op = "create" => Buildable(w)')
  BY <1>2, <1>4, <1>6, Zenon
<1>. QED
  BY <1>1, <1>3, <1>5, <1>6, <1>7, LifeFrame, Zenon

\* An answer to the orchestrator and the end of a handler keep LifeInv.
LEMMA ReleaseKeepsLife ==
    ASSUME TypeOK, LocksMatchHandlers, ReadyInv, LifeInv, Record,
           NEW r \in Requests, ReleaseLock(r)
    PROVE  LifeInv'
<1>. USE DEF At
<1>. DEFINE v == job[r].vol
<1>0. v \in Volumes /\ job[r].pc = "release"
  BY ActiveJob, Zenon DEF ReleaseLock
<1>1. /\ UNCHANGED <<status, host, volDir, csiDir>>
      /\ job' = [job EXCEPT ![r] = Idle]
      /\ UNCHANGED phase \/ (job[r].ok /\ Acknowledge(job[r].op, v))
  BY Zenon DEF ReleaseLock, beegfs
<1>2. \A q \in Requests : job'[q] = IF q = r THEN Idle ELSE job[q]
  BY <1>1, Zenon DEF TypeOK
<1>3. late' = late
  BY <1>2, NothingRecorded DEF Idle
<1>4. \A q \in Requests : Locked(q)' => job'[q].vol \in Volumes /\ job'[q].vol # v
  <2>. SUFFICES ASSUME NEW q \in Requests, Locked(q)'
                PROVE  job'[q].vol \in Volumes /\ job'[q].vol # v
    OBVIOUS
  <2>1. q # r /\ job'[q] = job[q]
    BY <1>2 DEF Locked, Idle
  <2>. QED
    BY <1>0, <2>1, ActiveJob, Zenon DEF Locked, LocksMatchHandlers
<1>5. \A w \in Volumes : Wanted(w)' => Wanted(w)
  BY <1>0, <1>1, AcknowledgePhase, Zenon DEF Wanted
<1>6. ASSUME NEW w \in Volumes, Buildable(w) PROVE Buildable(w)'
  <2>1. Ready(w)' = Ready(w)
    BY <1>1, Zenon DEF Ready
  <2>2. CASE phase[w] = "create" /\ phase'[w] # "create"
    <3>1. w = v /\ job[r].op = "create" /\ job[r].ok
      BY <1>0, <1>1, <2>2 DEF Acknowledge, TypeOK
    <3>2. Ready(w)
      BY <1>0, <2>2, <3>1, Zenon DEF ReadyInv, Progress, Wanted
    <3>. QED
      BY <2>1, <3>2, Zenon DEF Buildable
  <2>. QED
    BY <1>6, <2>1, <2>2, Zenon DEF Buildable
<1>7. ASSUME NEW w \in Volumes, phase'[w] = "gone", ~Over(w)
      PROVE  Cleared(w) /\ \A q \in Requests : Locked(q)' => job'[q].vol # w
  <2>1. w = v /\ job[r].op = "delete" /\ job[r].ok
    BY <1>0, <1>1, <1>7 DEF Acknowledge, Over, TypeOK
  <2>2. Cleared(v)
    BY <1>0, <2>1, Zenon DEF LifeInv, Removals, Removal
  <2>. QED
    BY <1>4, <2>1, <2>2, Zenon
<1>8. \A q \in Requests : job'[q] = job[q] \/ job'[q].pc \in {"idle", "obtain"}
  BY <1>2 DEF Idle
<1>. QED
  BY <1>1, <1>3, <1>4, <1>5, <1>6, <1>7, <1>8, LifeFrame, Zenon

\* A call of a handler, between its lock and its release, keeps LifeInv.
LEMMA CallKeepsLife ==
    ASSUME TypeOK, LocksMatchHandlers, PointsMatchOps, CleanUpOnlyUnmounted,
           ReadyInv, LifeInv, Record, NEW r \in Requests, Step(r), Advances(r),
           ~ReleaseLock(r)
    PROVE  LifeInv'
<1>. USE DEF At
<1>a. PICK v \in Volumes : v = job[r].vol
  BY ActiveJob, Zenon DEF Advances, Locked
<1>0. /\ job'[r].vol = v /\ job'[r].op = job[r].op
      /\ Locked(r) /\ job[r].pc # "idle" /\ UNCHANGED phase
      /\ \A q \in Requests \ {r} : job'[q] = job[q]
  <2>1. UNCHANGED phase
    BY DEF Step, ObtainLock, MakeMountDir, WriteClientFiles, Mount,
         CreateDirectory, SetPattern, Chmod, CreateNodesDirectory,
         WriteStatusCreated, Poll, RemoveCsiDirectory,
         RemoveVolumeDirectory, StatDirectory, ListMounts, Unmount,
         RemoveMountDir, WriteStatusDeleted
  <2>. QED
    BY <1>a, <2>1, Zenon DEF Advances, Locked, TypeOK
<1>b. late' = late
  BY <1>0, NothingRecorded DEF Locked
<1>1. ASSUME NEW q \in Requests, q # r, Locked(q)
      PROVE  job[q].vol # v /\ job[q].vol \in Volumes
  BY <1>a, <1>0, <1>1, ActiveJob, Zenon DEF Locked, LocksMatchHandlers
<1>2. ASSUME NEW w \in Volumes, w # v
      PROVE  /\ status'[w] = status[w] /\ Over(w)' = Over(w)
             /\ Cleared(w)' = Cleared(w) /\ Emptied(w)' = Emptied(w)
             /\ Buildable(w)' = Buildable(w) /\ csiDir'[w] = csiDir[w]
  BY <1>a, <1>0, <1>2, OthersVolumes DEF Over, Cleared, Emptied, Buildable, Ready
<1>3. v \notin late => ~Over(v)
  <2>1. job[r].pc # "release"
    BY DEF Step, ObtainLock, MakeMountDir, WriteClientFiles, Mount,
         CreateDirectory, SetPattern, Chmod, CreateNodesDirectory,
         WriteStatusCreated, Poll, RemoveCsiDirectory,
         RemoveVolumeDirectory, StatDirectory, ListMounts, Unmount,
         RemoveMountDir, WriteStatusDeleted
  <2>. QED
    BY <1>a, <1>0, <2>1, Zenon DEF LifeInv, OverIsQuiet
<1>4. ASSUME v \notin late, Over(v)'
      PROVE  WriteStatusDeleted(r) /\ job[r].ok
  <2>1. status'[v] = "deleted" /\ status[v] # "deleted"
    BY <1>0, <1>3, <1>4, Zenon DEF Over
  <2>2. WriteStatusDeleted(r) \/ WriteStatusCreated(r)
    BY <2>1 DEF Step, ObtainLock, MakeMountDir, WriteClientFiles, Mount,
         CreateDirectory, SetPattern, Chmod, CreateNodesDirectory,
         Poll, RemoveCsiDirectory, RemoveVolumeDirectory, StatDirectory,
         ListMounts, Unmount, RemoveMountDir, ReleaseLock
  <2>. QED
    BY <1>a, <2>1, <2>2, Zenon DEF WriteStatusDeleted, WriteStatusCreated, TypeOK
<1>5. BuildsWanted'
  <2>. SUFFICES ASSUME NEW q \in Requests, Locked(q)', job'[q].op = "create",
                       NEW w, w = job'[q].vol, w \notin late
                PROVE  Buildable(w)'
    BY <1>b, Zenon DEF BuildsWanted, Buildable, Ready
  <2>1. CASE q = r
    <3>1. w = v /\ job[r].op = "create" /\ Buildable(v)
      BY <1>a, <1>0, <2>1, Zenon DEF LifeInv, BuildsWanted
    <3>2. volDir[v] \subseteq volDir'[v]
      BY <3>1, CreateGrows, Zenon
    <3>. QED
      BY <1>0, <3>1, <3>2, Zenon DEF Buildable, Ready
  <2>2. CASE q # r
    <3>1. job'[q] = job[q] /\ Locked(q)
      BY <1>0, <2>2, Zenon DEF Locked
    <3>. QED
      BY <1>1, <1>2, <2>2, <3>1, Zenon DEF LifeInv, BuildsWanted
  <2>. QED
    BY <2>1, <2>2, Zenon
<1>6. Removals'
  <2>. SUFFICES ASSUME NEW q \in Requests, job'[q].op = "delete"
                PROVE  Removal(q)'
    BY Zenon DEF Removals
  <2>1. CASE q = r
    BY <1>0, <2>1, DeleteRemoves, Zenon
  <2>2. CASE q # r
    <3>1. job'[q] = job[q] /\ Removal(q)
      BY <1>0, <2>2, Zenon DEF LifeInv, Removals
    <3>2. CASE Locked(q)
      BY <1>1, <1>2, <2>2, <3>1, <3>2, Zenon DEF Removal
    <3>3. CASE ~Locked(q)
      BY <3>1, <3>3, Zenon DEF Removal, Locked
    <3>. QED
      BY <3>2, <3>3, Zenon
  <2>. QED
    BY <2>1, <2>2, Zenon
<1>7. OverIsCleared'
  <2>. SUFFICES ASSUME NEW w \in Volumes \ late, Over(w)'
                PROVE  ~Wanted(w)' /\ Cleared(w)'
    BY <1>b, Zenon DEF OverIsCleared
  <2>1. Wanted(w)' = Wanted(w)
    BY <1>0, Zenon DEF Wanted
  <2>2. CASE w = v
    <3>1. /\ WriteStatusDeleted(r) /\ job[r].pc = "deleted" /\ job[r].ok
      BY <1>0, <1>4, <2>2, Zenon DEF WriteStatusDeleted, Over
    <3>2. job[r].op = "delete"
      BY <3>1, Zenon DEF PointsMatchOps, PointOfOp
    <3>3. Cleared(v) /\ ~Wanted(v)
      BY <1>a, <3>1, <3>2, Zenon DEF LifeInv, Removals, Removal, ReadyInv
    <3>. QED
      BY <2>1, <2>2, <3>1, <3>3, Zenon DEF WriteStatusDeleted, Cleared, Emptied, beegfs
  <2>3. CASE w # v
    BY <1>2, <2>1, <2>3, Zenon DEF LifeInv, OverIsCleared
  <2>. QED
    BY <2>2, <2>3, Zenon
<1>8. OverIsQuiet'
  <2>. SUFFICES ASSUME NEW q \in Requests, Locked(q)',
                       NEW w, w = job'[q].vol, w \notin late, Over(w)'
                PROVE  job'[q].op = "delete" /\ job'[q].pc = "release"
    BY <1>b, Zenon DEF OverIsQuiet, Over
  <2>1. CASE q = r
    <3>1. WriteStatusDeleted(r)
      BY <1>0, <1>4, <2>1, Zenon
    <3>. QED
      BY <1>0, <2>1, <3>1, GotoPoint
         DEF WriteStatusDeleted, PointsMatchOps, PointOfOp
  <2>2. CASE q # r
    <3>1. job'[q] = job[q] /\ Locked(q)
      BY <1>0, <2>2, Zenon DEF Locked
    <3>. QED
      BY <1>1, <1>2, <2>2, <3>1, Zenon DEF LifeInv, OverIsQuiet
  <2>. QED
    BY <2>1, <2>2, Zenon
<1>. QED
  BY <1>5, <1>6, <1>7, <1>8, Zenon DEF LifeInv

\* LifeInv is inductive.
LEMMA LifeStep ==
    ASSUME TypeOK, LocksMatchHandlers, PointsMatchOps, CleanUpOnlyUnmounted,
           ReadyInv, LifeInv, [HistoryNext]_historyVars,
           "validate" \notin Handlers
    PROVE  LifeInv'
<1>. USE DEF At
<1>0. ASSUME UNCHANGED historyVars PROVE LifeInv'
  BY <1>0 DEF historyVars, vars, LifeInv, BuildsWanted, Removals, OverIsCleared,
       OverIsQuiet, Locked, Removal, Over, Wanted, Cleared, Emptied, Buildable, Ready
<1>. SUFFICES ASSUME Next, Record PROVE LifeInv'
  BY <1>0, Zenon DEF HistoryNext
<1>1. ASSUME NEW r \in Requests, Step(r) PROVE LifeInv'
  BY <1>1, StepAdvances, LockKeepsLife, ReleaseKeepsLife, CallKeepsLife, Zenon
<1>2. ASSUME NEW r \in Requests, Arrive(r) PROVE LifeInv'
  BY <1>2, ArrivalKeepsLife, Zenon DEF Arrive, ValidateVolumeCapabilities
<1>3. ASSUME Restart PROVE LifeInv'
  <2>1. late' = late
    BY <1>3, NothingRecorded DEF Restart, Idle
  <2>. QED
    BY <1>3, <2>1 DEF Restart, beegfs, LifeInv, BuildsWanted, Removals,
         OverIsCleared, OverIsQuiet, Locked, Over, Wanted, Cleared, Emptied, Idle
<1>4. ASSUME Environment PROVE LifeInv'
  <2>1. UNCHANGED <<status, job, host, volDir, csiDir>>
    BY <1>4, Zenon DEF Environment, WantDeleted, TrackNode, UntrackNode, beegfs
  <2>2. late' = late
    BY <2>1, NothingRecorded
  <2>3. \/ UNCHANGED phase
        \/ \E v \in Volumes : /\ phase[v] = "use"
                              /\ phase' = [phase EXCEPT ![v] = "delete"]
    BY <1>4, Zenon DEF Environment, WantDeleted, TrackNode, UntrackNode
  <2>4. \A w \in Volumes : /\ Wanted(w)' => Wanted(w)
                           /\ phase'[w] = "gone" => Over(w)
                           /\ phase[w] = "create" => phase'[w] = "create"
    BY <2>3 DEF Wanted, Over, TypeOK
  <2>5. \A w \in Volumes : Buildable(w) => Buildable(w)'
    BY <2>1, <2>4, Zenon DEF Buildable, Ready
  <2>6. \A q \in Requests : Locked(q)' => job'[q].vol \in Volumes
    BY <2>1, ActiveJob, Zenon DEF Locked
  <2>. QED
    BY <2>1, <2>2, <2>4, <2>5, <2>6, LifeFrame, Zenon
<1>. QED
  BY <1>1, <1>2, <1>3, <1>4, Zenon DEF Next

\* The history only adds a variable.
LEMMA HistoryIsSpec == HistorySpec => Spec
<1>1. HistoryInit => Init
  BY Zenon DEF HistoryInit
<1>2. [HistoryNext]_historyVars => [Next]_vars
  BY Zenon DEF HistoryNext, historyVars
<1>. QED
  BY <1>1, <1>2, PTL DEF HistorySpec, Spec

\* ReadyInv and LifeInv together are invariant.
LEMMA LifeInvariant ==
    ASSUME "validate" \notin Handlers
    PROVE  HistorySpec => [](ReadyInv /\ LifeInv)
<1>1. HistoryInit => ReadyInv /\ LifeInv
  BY DEF HistoryInit, Init, ReadyInv, UsableVolumesAreReady, Idle, LifeInv,
       BuildsWanted, Locked, Removals, OverIsCleared, OverIsQuiet, Over
<1>2. [HistoryNext]_historyVars => [Next]_vars
  BY Zenon DEF HistoryNext, historyVars
<1>3. /\ TypeOK /\ LocksMatchHandlers /\ PointsMatchOps /\ CleanUpOnlyUnmounted
      /\ ReadyInv /\ LifeInv /\ [HistoryNext]_historyVars
      => ReadyInv' /\ LifeInv'
  BY <1>2, ReadyStep, LifeStep, Zenon
<1>. QED
  BY <1>1, <1>3, HistoryIsSpec, TypeCorrect, MutualExclusion, PointsOfOps,
     CleanUpIsSafe, PTL DEF HistorySpec

\* DeleteVolume tells the truth: once the orchestrator has seen it succeed, the
\* volume has no directory and no list of nodes in BeeGFS and nothing on the
\* controller, for good, whatever calls failed, were repeated or were cut short
\* by a restart.  The exception is in DeletedVolumesAreGone: a volume whose
\* lock was taken by a request that the deletion had overtaken.
THEOREM DeletionIsComplete ==
    ASSUME "validate" \notin Handlers
    PROVE  HistorySpec => []DeletedVolumesAreGone
<1>1. LifeInv => DeletedVolumesAreGone
  BY Zenon DEF LifeInv, OverIsCleared, Over, Cleared, Emptied, DeletedVolumesAreGone
<1>. QED
  BY <1>1, LifeInvariant, PTL
-----------------------------------------------------------------------------
(***************************************************************************)
(* Refinement.  A call of a handler changes the data of its own volume or  *)
(* of none; unless an overtaken request has worked on it, it builds while  *)
(* creation is wanted and removes while deletion is wanted.  An answer     *)
(* moves the orchestrator on when the data is ready or gone.               *)
(***************************************************************************)
\* Data that becomes another becomes so for one volume.
LEMMA DataChanges ==
    ASSUME NEW v \in Volumes,
           \A w \in Volumes \ {v} : volDir'[w] = volDir[w]
    PROVE  [w \in Volumes |-> DataOf(w)]' =
               [[w \in Volumes |-> DataOf(w)] EXCEPT ![v] = DataOf(v)']
<1>1. \A w \in Volumes \ {v} : DataOf(w)' = DataOf(w)
  BY Zenon DEF DataOf, Ready
<1>. QED
  BY <1>1, Zenon

\* A call of a handler, between its lock and its release, is a step of
\* VolumeLife or none.
LEMMA CallImplements ==
    ASSUME TypeOK, PointsMatchOps, CleanUpOnlyUnmounted, ReadyInv, LifeInv,
           NEW r \in Requests, Step(r), Advances(r), UNCHANGED <<phase, late>>
    PROVE  [Life!Next]_(Life!lifeVars)
<1>. USE DEF At
<1>0. PICK v \in Volumes : v = job[r].vol
  BY ActiveJob, Zenon DEF Advances, Locked
<1>1. \A w \in Volumes \ {v} : volDir'[w] = volDir[w]
  BY <1>0, OthersVolumes, Zenon DEF Advances
<1>2. CASE volDir'[v] = volDir[v]
  <2>1. \A w \in Volumes : DataOf(w)' = DataOf(w)
    BY <1>1, <1>2, Zenon DEF DataOf, Ready
  <2>2. [w \in Volumes |-> DataOf(w)]' = [w \in Volumes |-> DataOf(w)]
    BY <2>1, Zenon
  <2>. QED
    BY <2>2, Zenon DEF Life!lifeVars
<1>3. CASE volDir'[v] # volDir[v] /\ v \in late
  <2>1. DataOf(v)' \in {"none", "part", "ready"}
    BY Zenon DEF DataOf
  <2>2. Life!Stray(v)
    BY <1>1, <1>3, <2>1, DataChanges, Zenon DEF Life!Stray
  <2>. QED
    BY <2>2, Zenon DEF Life!Next
<1>4. CASE volDir'[v] # volDir[v] /\ v \notin late
  <2>1. CASE CreateDirectory(r) \/ SetPattern(r) \/ Chmod(r)
    <3>1. job[r].op = "create" /\ Buildable(v)
      BY <1>0, <1>4, <2>1, Zenon DEF CreateDirectory, SetPattern, Chmod, LifeInv,
           BuildsWanted, Locked, Advances, PointsMatchOps, PointOfOp
    <3>2. volDir[v] \subseteq volDir'[v]
      BY <3>1, CreateGrows, Zenon
    <3>3. volDir'[v] # {} /\ (Ready(v) => Ready(v)')
      BY <1>4, <3>2, Zenon DEF Ready
    <3>4. CASE Ready(v)
      <4>1. DataOf(v)' = DataOf(v)
        BY <3>3, <3>4, Zenon DEF DataOf
      <4>2. [w \in Volumes |-> DataOf(w)]' = [w \in Volumes |-> DataOf(w)]
        BY <1>1, <4>1, DataChanges, Zenon
      <4>. QED
        BY <4>2, Zenon DEF Life!lifeVars
    <3>5. CASE ~Ready(v)
      <4>1. DataOf(v) # "ready" /\ DataOf(v)' \in {"part", "ready"}
        BY <3>3, <3>5, Zenon DEF DataOf
      <4>2. Life!Build(v)
        BY <1>1, <3>1, <3>5, <4>1, DataChanges, Zenon DEF Life!Build, Buildable
      <4>. QED
        BY <4>2, Zenon DEF Life!Next
    <3>. QED
      BY <3>4, <3>5, Zenon
  <2>2. CASE RemoveVolumeDirectory(r)
    <3>1. volDir'[v] = {} /\ volDir[v] # {}
      BY <1>0, <1>4, <2>2, Zenon DEF RemoveVolumeDirectory, TypeOK
    <3>2. job[r].op = "delete" /\ job[r].pc = "removeVol"
      BY <2>2, Zenon DEF RemoveVolumeDirectory, PointsMatchOps, PointOfOp
    <3>3. phase[v] = "delete"
      <4>1. ~Wanted(v) /\ ~Over(v)
        BY <1>0, <1>4, <3>2, Zenon DEF ReadyInv, LifeInv, OverIsQuiet, Locked, Advances
      <4>. QED
        BY <4>1, Zenon DEF Wanted, Over, TypeOK, Phases
    <3>4. DataOf(v) # "none" /\ DataOf(v)' = "none"
      BY <3>1, Zenon DEF DataOf, Ready
    <3>5. Life!Remove(v)
      BY <1>1, <3>3, <3>4, DataChanges, Zenon DEF Life!Remove
    <3>. QED
      BY <3>5, Zenon DEF Life!Next
  <2>3. CASE RemoveMountDir(r)
    BY <1>4, <2>3, Zenon DEF RemoveMountDir, CleanUpOnlyUnmounted, beegfs
  <2>. QED
    BY <1>4, <2>1, <2>2, <2>3 DEF Step, ObtainLock, MakeMountDir,
         WriteClientFiles, Mount, Unmount, CreateNodesDirectory,
         WriteStatusCreated, Poll, RemoveCsiDirectory, StatDirectory,
         ListMounts, WriteStatusDeleted, ReleaseLock, beegfs
<1>. QED
  BY <1>2, <1>3, <1>4, Zenon

\* An answer to the orchestrator is the step of VolumeLife that it announces.
LEMMA AnswerImplements ==
    ASSUME TypeOK, UNCHANGED <<volDir, late>>, NEW v \in Volumes,
           NEW op \in {"create", "delete"}, Acknowledge(op, v),
           phase[v] = "create" /\ op = "create" => Ready(v),
           phase[v] = "delete" /\ op = "delete" => volDir[v] = {} \/ v \in late
    PROVE  [Life!Next]_(Life!lifeVars)
<1>1. [w \in Volumes |-> DataOf(w)]' = [w \in Volumes |-> DataOf(w)]
  BY Zenon DEF DataOf, Ready
<1>2. CASE op = "create" /\ phase[v] = "create"
  <2>1. DataOf(v) = "ready" /\ phase' = [phase EXCEPT ![v] = "use"]
    BY <1>2, Zenon DEF DataOf, Acknowledge, TypeOK
  <2>2. Life!Offer(v)
    BY <1>1, <1>2, <2>1, Zenon DEF Life!Offer
  <2>. QED
    BY <2>2, Zenon DEF Life!Next
<1>3. CASE op = "delete" /\ phase[v] = "delete"
  <2>1. /\ DataOf(v) = "none" \/ v \in late
        /\ phase' = [phase EXCEPT ![v] = "gone"]
    BY <1>3, Zenon DEF DataOf, Ready, Acknowledge, TypeOK
  <2>2. Life!Finish(v)
    BY <1>1, <1>3, <2>1, Zenon DEF Life!Finish
  <2>. QED
    BY <2>2, Zenon DEF Life!Next
<1>4. CASE phase' = phase
  BY <1>1, <1>4, Zenon DEF Life!lifeVars
<1>. QED
  BY <1>2, <1>3, <1>4, Zenon DEF Acknowledge, TypeOK

\* Every step of the controller service and of its callers is a step of
\* VolumeLife or changes nothing that VolumeLife speaks of.
LEMMA StepImplements ==
    ASSUME TypeOK, PointsMatchOps, CleanUpOnlyUnmounted, ReadyInv, LifeInv,
           [HistoryNext]_historyVars, "validate" \notin Handlers
    PROVE  [Life!Next]_(Life!lifeVars)
<1>. USE DEF At
<1>a. ASSUME UNCHANGED volDir
      PROVE  [w \in Volumes |-> DataOf(w)]' = [w \in Volumes |-> DataOf(w)]
  BY <1>a, Zenon DEF DataOf, Ready
<1>0. ASSUME UNCHANGED <<phase, volDir, late>> PROVE [Life!Next]_(Life!lifeVars)
  BY <1>0, <1>a, Zenon DEF Life!lifeVars
<1>b. CASE UNCHANGED historyVars
  BY <1>0, <1>b, Zenon DEF historyVars, vars
<1>. SUFFICES ASSUME Next, Record PROVE [Life!Next]_(Life!lifeVars)
  BY <1>b, Zenon DEF HistoryNext
<1>1. ASSUME NEW r \in Requests, NEW v \in Volumes,
             CreateVolume(r, v) \/ DeleteVolume(r, v)
      PROVE  [Life!Next]_(Life!lifeVars)
  <2>1. UNCHANGED <<volDir, late>>
    <3>1. \A q \in Requests : job'[q] = job[q] \/ job'[q].pc = "obtain"
      BY <1>1 DEF CreateVolume, DeleteVolume, Begin, TypeOK
    <3>2. late' = late
      BY <3>1, NothingRecorded
    <3>. QED
      BY <1>1, <3>2, Zenon DEF CreateVolume, DeleteVolume, beegfs
  <2>2. CASE phase[v] = "create" /\ status[v] = "created" /\ Acknowledge("create", v)
    BY <2>1, <2>2, AnswerImplements, Zenon DEF ReadyInv, Wanted
  <2>3. CASE phase[v] = "delete" /\ status[v] = "deleted" /\ Acknowledge("delete", v)
    <3>1. volDir[v] = {} \/ v \in late
      BY <2>3, Zenon DEF LifeInv, OverIsCleared, Over, Cleared, Emptied
    <3>. QED
      BY <2>1, <2>3, <3>1, AnswerImplements, Zenon
  <2>. QED
    BY <1>0, <1>1, <2>1, <2>2, <2>3, Zenon DEF CreateVolume, DeleteVolume
<1>2. ASSUME NEW r \in Requests, ReleaseLock(r)
      PROVE  [Life!Next]_(Life!lifeVars)
  <2>0. late' = late
    BY <1>2, NothingRecorded DEF ReleaseLock, TypeOK, Idle
  <2>1. /\ UNCHANGED volDir /\ job[r].pc = "release" /\ job[r].vol \in Volumes
        /\ job[r].op \in {"create", "delete"}
    BY <1>2, ActiveJob, Zenon DEF ReleaseLock, beegfs, Jobs, Ops, PointsMatchOps
  <2>2. CASE job[r].ok /\ Acknowledge(job[r].op, job[r].vol)
    <3>1. PICK v \in Volumes : v = job[r].vol
      BY <2>1, Zenon
    <3>2. PICK op \in {"create", "delete"} : op = job[r].op
      BY <2>1, Zenon
    <3>3. phase[v] = "create" /\ op = "create" => Ready(v)
      BY <2>1, <2>2, <3>1, <3>2, Zenon DEF ReadyInv, Progress, Wanted
    <3>4. phase[v] = "delete" /\ op = "delete" => volDir[v] = {}
      BY <2>1, <2>2, <3>1, <3>2, Zenon
         DEF LifeInv, Removals, Removal, Cleared, Emptied
    <3>. QED
      BY <2>0, <2>1, <2>2, <3>1, <3>2, <3>3, <3>4, AnswerImplements, Zenon
  <2>. QED
    BY <1>0, <1>2, <2>0, <2>1, <2>2, Zenon DEF ReleaseLock
<1>3. ASSUME NEW r \in Requests, Step(r), Advances(r), ~ReleaseLock(r)
      PROVE  [Life!Next]_(Life!lifeVars)
  <2>1. UNCHANGED phase
    BY <1>3 DEF Step, ObtainLock, MakeMountDir, WriteClientFiles, Mount,
         CreateDirectory, SetPattern, Chmod, CreateNodesDirectory,
         WriteStatusCreated, Poll, RemoveCsiDirectory,
         RemoveVolumeDirectory, StatDirectory, ListMounts, Unmount,
         RemoveMountDir, WriteStatusDeleted
  <2>2. late' = late
    BY <1>3, NothingRecorded DEF Advances, Locked, TypeOK
  <2>. QED
    BY <1>3, <2>1, <2>2, CallImplements, Zenon
<1>4. ASSUME NEW r \in Requests, ObtainLock(r)
      PROVE  [Life!Next]_(Life!lifeVars)
  <2>1. UNCHANGED <<phase, volDir>> /\ job[r].vol \in Volumes
    BY <1>4, ActiveJob, Zenon DEF ObtainLock, beegfs
  <2>2. CASE late' = late
    BY <1>0, <2>1, <2>2, Zenon
  <2>3. CASE Overtaken(r) /\ late' = late \cup {job[r].vol}
    <3>1. PICK v \in Volumes : v = job[r].vol
      BY <2>1, Zenon
    <3>2. phase[v] \in {"delete", "gone"}
      BY <2>3, <3>1 DEF Overtaken, ReadyInv, Wanted, TypeOK, Phases
    <3>3. Life!Overtake(v)
      BY <1>a, <2>1, <2>3, <3>1, <3>2, Zenon DEF Life!Overtake
    <3>. QED
      BY <3>3, Zenon DEF Life!Next
  <2>. QED
    BY <1>4, <2>2, <2>3, LockRecorded, Zenon
<1>5. ASSUME NEW v \in Volumes, WantDeleted(v)
      PROVE  [Life!Next]_(Life!lifeVars)
  <2>1. late' = late
    BY <1>5, NothingRecorded DEF WantDeleted
  <2>2. Life!Retire(v)
    BY <1>5, <1>a, <2>1, Zenon DEF WantDeleted, Life!Retire, beegfs
  <2>. QED
    BY <2>2, Zenon DEF Life!Next
<1>6. CASE \/ Restart
           \/ \E n \in Nodes, v \in Volumes : TrackNode(n, v) \/ UntrackNode(n, v)
  <2>1. late' = late
    BY <1>6, NothingRecorded DEF Restart, TrackNode, UntrackNode, Idle
  <2>. QED
    BY <1>0, <1>6, <2>1, Zenon DEF Restart, TrackNode, UntrackNode, beegfs
<1>. QED
  BY <1>1, <1>2, <1>3, <1>4, <1>5, <1>6, StepAdvances, Zenon
     DEF Next, Environment, Arrive, ValidateVolumeCapabilities

\* The controller service implements VolumeLife for any number of volumes,
\* requests, failing calls and restarts: a volume is offered when complete,
\* untouched while in use, removed only when deletion is wanted, and does not
\* come back unless a request that the deletion had overtaken takes the lock.
THEOREM LifeImplemented ==
    ASSUME "validate" \notin Handlers
    PROVE  HistorySpec => ImplementsVolumeLife
<1>1. HistoryInit => Life!Init
  <2>1. Init => \A v \in Volumes : DataOf(v) = "none"
    BY Zenon DEF Init, DataOf, Ready
  <2>. QED
    BY <2>1, Zenon DEF HistoryInit, Init, Life!Init
<1>2. /\ TypeOK /\ PointsMatchOps /\ CleanUpOnlyUnmounted
      /\ ReadyInv /\ LifeInv /\ [HistoryNext]_historyVars
      => [Life!Next]_(Life!lifeVars)
  BY StepImplements, Zenon
<1>. QED
  BY <1>1, <1>2, HistoryIsSpec, TypeCorrect, PointsOfOps, CleanUpIsSafe,
     LifeInvariant, PTL DEF HistorySpec, ImplementsVolumeLife, Life!Spec
=============================================================================
