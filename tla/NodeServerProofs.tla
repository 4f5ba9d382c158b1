-------------------------- MODULE NodeServerProofs --------------------------
(***************************************************************************)
(* The node services while the agent has one call at a time per path       *)
(* (Overlap = FALSE), for any number of nodes, volumes, targets, requests, *)
(* failing calls and restarts: the inductive invariant NodeInv, that no    *)
(* call of a handler changes it, and the theorems.                         *)
(*                                                                         *)
(* The invariant says, of every handler, what the agent waits for and what *)
(* the handler's calls have established so far; of every place, what the   *)
(* agent's view of it implies; and that no two handlers share a path.      *)
(***************************************************************************)
EXTENDS NodeServer, TLAPS

NodeTypes ==
    /\ job \in [Requests -> Jobs \cup {Idle}]
    /\ staged \in [Places -> [dir : BOOLEAN, conf : BOOLEAN, mounts : {0, 1}]]
    /\ bound \in [Places -> [Targets -> {0, 1}]]
    /\ want \in [Places -> {"unstaged", "staging", "staged", "unstaging"}]
    /\ publish \in [Places -> [Targets ->
          {"absent", "publishing", "published", "unpublishing"}]]
    /\ csiDir \in [Volumes -> BOOLEAN]
    /\ tracked \in [Volumes -> SUBSET Nodes]

Active(r) == job[r].pc # "idle"

PointOfOp(op, point) ==
    /\ point \in {"statDir", "write", "ctl", "isMnt", "mount", "track"} => op = "stage"
    /\ point \in {"untrack", "list", "unmount", "clean"} => op = "unstage"
    /\ point \in {"pubCtl", "isBound", "bind"} => op = "publish"
    /\ point = "unbind" => op = "unpublish"

OfPlace(r) == job[r].op \in {"stage", "unstage"}

\* The agent waits for the handler, or has turned to the opposite.
StageWanted(op, w) ==
    IF op = "stage" THEN w \in {"staging", "unstaging"} ELSE w = "unstaging"
PublishWanted(op, w) ==
    IF op = "publish" THEN w \in {"publishing", "unpublishing"}
    ELSE w = "unpublishing"

Attended(r) ==
    LET j == job[r]
    IN  /\ OfPlace(r) <=> j.target = NoTarget
        /\ IF OfPlace(r) THEN StageWanted(j.op, want[j.place])
           ELSE PublishWanted(j.op, publish[j.place][j.target])

\* csiDir/nodes has the node's name, if tracking never fails.
Listed(p) ==
    csiDir[VolumeOf(p)] /\ "track" \notin Failing =>
        NodeOf(p) \in tracked[VolumeOf(p)]

IsStaged(p) == staged[p].conf /\ staged[p].mounts = 1 /\ Listed(p)
IsUnstaged(p) == ~staged[p].conf /\ staged[p].mounts = 0

\* What the calls of handler j have established of its staging directory ...
StageHas(j, conf, mounts, listed) ==
    /\ j.pc \in {"ctl", "isMnt", "mount", "track"} => conf
    /\ j.pc \in {"mount", "clean"} => mounts = 0
    /\ j.pc = "track" => mounts = 1
    /\ j.pc = "answer" /\ j.ok =>
          IF j.op = "stage" THEN conf /\ mounts = 1 /\ listed
          ELSE ~conf /\ mounts = 0

\* ... and of its target.
PublishHas(j, mounts) ==
    /\ j.pc = "bind" => mounts = 0
    /\ j.pc = "answer" /\ j.ok => mounts = IF j.op = "publish" THEN 1 ELSE 0

Established(r) ==
    LET j == job[r]
        p == job[r].place
    IN  /\ PointOfOp(j.op, j.pc)
        /\ IF OfPlace(r)
           THEN StageHas(j, staged[p].conf, staged[p].mounts, Listed(p))
           ELSE PublishHas(j, bound[p][j.target])

\* What the agent's view of a place implies.
AsSeen(p) ==
    /\ want[p] = "staged" => IsStaged(p)
    /\ want[p] = "unstaged" => IsUnstaged(p)
    /\ \A t \in Targets : /\ publish[p][t] # "absent" => want[p] = "staged"
                          /\ publish[p][t] = "absent" => bound[p][t] = 0
                          /\ publish[p][t] = "published" => bound[p][t] = 1

OnePerPath ==
    \A r, q \in Requests :
        /\ Active(r) /\ Active(q)
        /\ job[r].place = job[q].place /\ job[r].target = job[q].target
        => r = q

NodeInv ==
    /\ NodeTypes
    /\ OnePerPath
    /\ \A r \in Requests : Active(r) => Attended(r) /\ Established(r)
    /\ \A p \in Places : AsSeen(p)
-----------------------------------------------------------------------------
(***************************************************************************)
(* Frames.  A call of a Stage or Unstage handler touches its own place, a  *)
(* call of a Publish or Unpublish handler its own target; every other      *)
(* handler and place keeps what is known of it.                            *)
(***************************************************************************)
Staging == [dir : BOOLEAN, conf : BOOLEAN, mounts : {0, 1}]

JobMoves(r) ==
    /\ job' \in [Requests -> Jobs \cup {Idle}]
    /\ \A q \in Requests \ {r} : job'[q] = job[q]
    /\ job'[r] \in Jobs
    /\ job'[r].op = job[r].op /\ job'[r].place = job[r].place
    /\ job'[r].target = job[r].target

StagedMoves(r) ==
    /\ staged' \in [Places -> Staging]
    /\ \A p \in Places \ {Place(r)} : staged'[p] = staged[p]

TrackedMoves(r) ==
    /\ tracked' \in [Volumes -> SUBSET Nodes]
    /\ \A p \in Places \ {Place(r)} :
          NodeOf(p) \in tracked'[VolumeOf(p)] <=> NodeOf(p) \in tracked[VolumeOf(p)]

BoundMoves(r) ==
    /\ bound' \in [Places -> [Targets -> {0, 1}]]
    /\ \A p \in Places, t \in Targets :
          p # Place(r) \/ t # job[r].target => bound'[p][t] = bound[p][t]

\* What a handler that has begun is.
LEMMA ActiveJob ==
    ASSUME NodeInv, NEW r \in Requests, Active(r)
    PROVE  /\ job[r] \in Jobs /\ Place(r) \in Places
           /\ NodeOf(Place(r)) \in Nodes /\ Volume(r) \in Volumes
           /\ Attended(r) /\ Established(r)
           /\ ~OfPlace(r) => job[r].target \in Targets
<1>1. Attended(r) /\ Established(r)
  BY Zenon DEF NodeInv
<1>2. job[r] \in Jobs
  BY DEF NodeInv, NodeTypes, Active, Idle
<1>3. job[r].place \in Places /\ job[r].target \in Targets \cup {NoTarget}
  BY <1>2, Zenon DEF Jobs
<1>4. NodeOf(Place(r)) \in Nodes /\ Volume(r) \in Volumes
  BY <1>3, Zenon DEF Place, Volume, Places, NodeOf, VolumeOf
<1>5. ~OfPlace(r) => job[r].target \in Targets
  BY <1>1, <1>3, Zenon DEF Attended
<1>. QED
  BY <1>1, <1>2, <1>3, <1>4, <1>5, Zenon DEF Place

\* A call that succeeds, with what it leaves of its job.
LEMMA GotoMoves ==
    ASSUME NodeInv, NEW r \in Requests, Active(r), NEW point \in Points,
           Goto(r, point)
    PROVE  JobMoves(r) /\ job'[r].pc = point /\ job'[r].ok = job[r].ok
  BY ActiveJob, Zenon DEF NodeInv, NodeTypes, Goto, JobMoves, Jobs

\* A call that fails.
LEMMA FailureMoves ==
    ASSUME NodeInv, NEW r \in Requests, Active(r), Failure(r)
    PROVE  JobMoves(r) /\ job'[r].pc = "answer" /\ ~job'[r].ok
<1>. DEFINE new == [job[r] EXCEPT !.pc = "answer", !.ok = FALSE]
<1>1. job[r] \in Jobs
  BY ActiveJob, Zenon
<1>2. /\ new \in Jobs /\ new.pc = "answer" /\ ~new.ok
      /\ new.op = job[r].op /\ new.place = job[r].place /\ new.target = job[r].target
  BY <1>1, Zenon DEF Jobs, Points
<1>3. job' = [job EXCEPT ![r] = new]
  BY Zenon DEF Failure
<1>. QED
  BY <1>2, <1>3, Zenon DEF NodeInv, NodeTypes, JobMoves

\* After a failure nothing is claimed of the handler.
LEMMA FailureEstablished ==
    ASSUME NodeInv, NEW r \in Requests, Active(r), Failure(r)
    PROVE  Established(r)'
  BY FailureMoves, Zenon DEF Established, PointOfOp, StageHas, PublishHas

\* No other handler of the same kind is at the place of a Stage or Unstage
\* handler.
LEMMA AloneAtPlace ==
    ASSUME NodeInv, NEW r \in Requests, Active(r), OfPlace(r),
           NEW q \in Requests, q # r, Active(q), OfPlace(q)
    PROVE  Place(q) # Place(r)
  BY ActiveJob, Zenon DEF Attended, NodeInv, OnePerPath, Place

\* A handler that is not touched, with what it rests on.
LEMMA HandlerFrame ==
    ASSUME NEW q \in Requests, Attended(q), Established(q), job'[q] = job[q],
           OfPlace(q) =>
               /\ StageWanted(job[q].op, want'[job[q].place])
               /\ staged'[job[q].place].conf = staged[job[q].place].conf
               /\ staged'[job[q].place].mounts = staged[job[q].place].mounts
               /\ Listed(job[q].place) => Listed(job[q].place)',
           ~OfPlace(q) =>
               /\ PublishWanted(job[q].op, publish'[job[q].place][job[q].target])
               /\ bound'[job[q].place][job[q].target]
                      = bound[job[q].place][job[q].target]
    PROVE  Attended(q)' /\ Established(q)'
<1>1. OfPlace(q)' <=> OfPlace(q)
  BY Zenon DEF OfPlace
<1>2. Attended(q)'
  BY <1>1, Zenon DEF Attended
<1>3. CASE OfPlace(q)
  <2>1. StageHas(job[q], staged[job[q].place].conf, staged[job[q].place].mounts,
                 Listed(job[q].place))
    BY <1>3, Zenon DEF Established
  <2>2. StageHas(job[q], staged'[job[q].place].conf, staged'[job[q].place].mounts,
                 Listed(job[q].place)')
    BY <1>3, <2>1, Zenon DEF StageHas
  <2>. QED
    BY <1>1, <1>2, <1>3, <2>2, Zenon DEF Established
<1>4. CASE ~OfPlace(q)
  BY <1>1, <1>2, <1>4, Zenon DEF Established
<1>. QED
  BY <1>3, <1>4, Zenon

\* The same for a step that leaves client files and mounts alone.
LEMMA KeptHandler ==
    ASSUME NEW q \in Requests, Attended(q), Established(q), job'[q] = job[q],
           job[q].place \in Places, UNCHANGED bound,
           \A x \in Places : /\ staged'[x].conf = staged[x].conf
                             /\ staged'[x].mounts = staged[x].mounts
                             /\ Listed(x) => Listed(x)',
           OfPlace(q) => StageWanted(job[q].op, want'[job[q].place]),
           ~OfPlace(q) => PublishWanted(job[q].op, publish'[job[q].place][job[q].target])
    PROVE  Attended(q)' /\ Established(q)'
<1>1. PICK x \in Places : x = job[q].place
  OBVIOUS
<1>2. Listed(job[q].place) => Listed(job[q].place)'
  BY <1>1, Zenon DEF Listed
<1>. QED
  BY <1>2, HandlerFrame, Zenon

\* A call of a Stage or Unstage handler.
LEMMA PlaceFrame ==
    ASSUME NodeInv, NEW r \in Requests, Active(r), OfPlace(r),
           JobMoves(r), StagedMoves(r), TrackedMoves(r), Established(r)',
           UNCHANGED <<bound, want, publish, csiDir>>
    PROVE  NodeInv'
<1>0. Place(r) \in Places /\ Attended(r)
  BY ActiveJob, Zenon
<1>1. NodeTypes'
  BY Zenon DEF NodeInv, NodeTypes, JobMoves, StagedMoves, TrackedMoves, Staging
<1>2. OnePerPath'
  BY DEF NodeInv, OnePerPath, JobMoves, Active
<1>3. ASSUME NEW p \in Places, p # Place(r)
      PROVE  staged'[p] = staged[p] /\ Listed(p)' = Listed(p)
  BY <1>3, Zenon DEF StagedMoves, TrackedMoves, Listed
<1>4. ASSUME NEW q \in Requests, Active(q)'
      PROVE  Attended(q)' /\ Established(q)'
  <2>1. CASE q = r
    BY <1>0, <2>1, Zenon DEF JobMoves, Attended, OfPlace
  <2>2. CASE q # r
    <3>1. job'[q] = job[q] /\ Active(q)
      BY <1>4, <2>2, Zenon DEF JobMoves, Active
    <3>2. /\ Place(q) \in Places /\ Attended(q) /\ Established(q)
      BY <3>1, ActiveJob, Zenon
    <3>3. OfPlace(q) => Place(q) # Place(r)
      BY <2>2, <3>1, AloneAtPlace, Zenon
    <3>4. OfPlace(q) => /\ staged'[Place(q)] = staged[Place(q)]
                        /\ Listed(Place(q)) => Listed(Place(q))'
      <4>1. PICK p \in Places : p = Place(q)
        BY <3>2, Zenon
      <4>2. OfPlace(q) => staged'[p] = staged[p] /\ Listed(p)' = Listed(p)
        BY <1>3, <3>3, <4>1, Zenon
      <4>. QED
        BY <3>1, <4>1, <4>2, Zenon DEF Place, Listed
    <3>5. /\ OfPlace(q) => StageWanted(job[q].op, want'[job[q].place])
          /\ ~OfPlace(q) =>
                PublishWanted(job[q].op, publish'[job[q].place][job[q].target])
      BY <3>2, Zenon DEF Attended
    <3>. QED
      BY <3>1, <3>2, <3>4, <3>5, HandlerFrame, Zenon DEF Place
  <2>. QED
    BY <2>1, <2>2, Zenon
<1>5. ASSUME NEW p \in Places PROVE AsSeen(p)'
  <2>1. CASE p # Place(r)
    BY <1>3, <2>1 DEF NodeInv, AsSeen, IsStaged, IsUnstaged
  <2>2. CASE p = Place(r)
    <3>1. want[p] \in {"staging", "unstaging"}
      BY <1>0, <2>2, Zenon DEF Attended, StageWanted, Place
    <3>. QED
      BY <3>1, Zenon DEF NodeInv, AsSeen
  <2>. QED
    BY <2>1, <2>2, Zenon
<1>. QED
  BY <1>1, <1>2, <1>4, <1>5, Zenon DEF NodeInv

\* A call of a Publish or Unpublish handler.
LEMMA TargetFrame ==
    ASSUME NodeInv, NEW r \in Requests, Active(r), ~OfPlace(r),
           JobMoves(r), BoundMoves(r), Established(r)',
           UNCHANGED <<staged, want, publish, csiDir, tracked>>
    PROVE  NodeInv'
<1>0. Place(r) \in Places /\ Attended(r) /\ job[r] \in Jobs
  BY ActiveJob, Zenon
<1>1. NodeTypes'
  BY Zenon DEF NodeInv, NodeTypes, JobMoves, BoundMoves
<1>2. OnePerPath'
  BY DEF NodeInv, OnePerPath, JobMoves, Active
<1>3. ASSUME NEW p
      PROVE  Listed(p)' = Listed(p)
  BY Zenon DEF Listed
<1>4. ASSUME NEW q \in Requests, Active(q)'
      PROVE  Attended(q)' /\ Established(q)'
  <2>1. CASE q = r
    BY <1>0, <2>1, Zenon DEF JobMoves, Attended, OfPlace
  <2>2. CASE q # r
    <3>1. job'[q] = job[q] /\ Active(q)
      BY <1>4, <2>2, Zenon DEF JobMoves, Active
    <3>2. /\ Place(q) \in Places /\ Attended(q) /\ Established(q)
          /\ ~OfPlace(q) => job[q].target \in Targets
      BY <3>1, ActiveJob, Zenon
    <3>3. Place(q) # Place(r) \/ job[q].target # job[r].target
      BY <2>2, <3>1, Zenon DEF NodeInv, OnePerPath, Place
    <3>4. ~OfPlace(q) =>
             bound'[Place(q)][job[q].target] = bound[Place(q)][job[q].target]
      BY <3>2, <3>3, Zenon DEF BoundMoves
    <3>5. /\ OfPlace(q) => StageWanted(job[q].op, want'[job[q].place])
          /\ ~OfPlace(q) =>
                PublishWanted(job[q].op, publish'[job[q].place][job[q].target])
      BY <3>2, Zenon DEF Attended
    <3>. QED
      BY <1>3, <3>1, <3>2, <3>4, <3>5, HandlerFrame, Zenon DEF Place
  <2>. QED
    BY <2>1, <2>2, Zenon
<1>5. ASSUME NEW p \in Places PROVE AsSeen(p)'
  <2>1. ASSUME NEW t \in Targets
        PROVE  /\ publish[p][t] # "absent" => want[p] = "staged"
               /\ publish[p][t] = "absent" => bound'[p][t] = 0
               /\ publish[p][t] = "published" => bound'[p][t] = 1
    <3>1. CASE p # Place(r) \/ t # job[r].target
      BY <3>1 DEF BoundMoves, NodeInv, AsSeen
    <3>2. CASE p = Place(r) /\ t = job[r].target
      <4>1. publish[p][t] \in {"publishing", "unpublishing"}
        BY <1>0, <3>2, Zenon DEF Attended, PublishWanted, Place
      <4>. QED
        BY <4>1, Zenon DEF NodeInv, AsSeen
    <3>. QED
      BY <3>1, <3>2, Zenon
  <2>. QED
    BY <1>3, <2>1, Zenon DEF NodeInv, AsSeen, IsStaged, IsUnstaged
<1>. QED
  BY <1>1, <1>2, <1>4, <1>5, Zenon DEF NodeInv
-----------------------------------------------------------------------------
(***************************************************************************)
(* The calls.                                                              *)
(***************************************************************************)
\* A call of a Stage or Unstage handler that only moves it to another point.
LEMMA LookFrame ==
    ASSUME NodeInv, NEW r \in Requests, Active(r), OfPlace(r), JobMoves(r),
           Established(r)',
           UNCHANGED <<staged, bound, want, publish, csiDir, tracked>>
    PROVE  NodeInv'
  BY PlaceFrame, Zenon DEF NodeInv, NodeTypes, StagedMoves, TrackedMoves, Staging

\* A call that changes its own staging directory.
LEMMA SetStaged ==
    ASSUME NodeInv, NEW r \in Requests, Place(r) \in Places, NEW x \in Staging,
           staged' = [staged EXCEPT ![Place(r)] = x]
    PROVE  StagedMoves(r) /\ staged'[Place(r)] = x
  BY Zenon DEF NodeInv, NodeTypes, StagedMoves, Staging

\* The same for its client files and its mounts.
LEMMA SetConfOrMounts ==
    ASSUME NodeInv, NEW r \in Requests, Place(r) \in Places
    PROVE  /\ \A b \in BOOLEAN :
                 staged' = [staged EXCEPT ![Place(r)].conf = b] =>
                     /\ StagedMoves(r)
                     /\ staged'[Place(r)].conf = b
                     /\ staged'[Place(r)].mounts = staged[Place(r)].mounts
           /\ \A n \in {0, 1} :
                 staged' = [staged EXCEPT ![Place(r)].mounts = n] =>
                     /\ StagedMoves(r)
                     /\ staged'[Place(r)].conf = staged[Place(r)].conf
                     /\ staged'[Place(r)].mounts = n
<1>. DEFINE old == staged[Place(r)]
<1>0. old \in Staging
  BY Zenon DEF NodeInv, NodeTypes, Staging
<1>1. ASSUME NEW b \in BOOLEAN, staged' = [staged EXCEPT ![Place(r)].conf = b]
      PROVE  /\ StagedMoves(r)
             /\ staged'[Place(r)].conf = b /\ staged'[Place(r)].mounts = old.mounts
  <2>. DEFINE new == [old EXCEPT !.conf = b]
  <2>1. new \in Staging /\ new.conf = b /\ new.mounts = old.mounts
    BY <1>0, Zenon DEF Staging
  <2>2. staged' = [staged EXCEPT ![Place(r)] = new]
    BY <1>1, Zenon
  <2>. QED
    BY <2>1, <2>2, SetStaged, Zenon
<1>2. ASSUME NEW n \in {0, 1}, staged' = [staged EXCEPT ![Place(r)].mounts = n]
      PROVE  /\ StagedMoves(r)
             /\ staged'[Place(r)].conf = old.conf /\ staged'[Place(r)].mounts = n
  <2>. DEFINE new == [old EXCEPT !.mounts = n]
  <2>1. new \in Staging /\ new.conf = old.conf /\ new.mounts = n
    BY <1>0, Zenon DEF Staging
  <2>2. staged' = [staged EXCEPT ![Place(r)] = new]
    BY <1>2, Zenon
  <2>. QED
    BY <2>1, <2>2, SetStaged, Zenon
<1>. QED
  BY <1>1, <1>2, Zenon

\* NodeStageVolume up to the mount.
LEMMA StageSteps ==
    ASSUME NodeInv, NEW r \in Requests,
           \/ StatStagingDir(r) \/ WriteClientFiles(r)
           \/ StatDirectory(r) /\ At(r, "ctl")
           \/ IsLikelyNotMountPoint(r) \/ Mount(r)
    PROVE  NodeInv'
<1>. USE DEF At
<1>0. /\ Active(r) /\ job[r] \in Jobs /\ Place(r) \in Places
      /\ Established(r) /\ job[r].op = "stage" /\ OfPlace(r)
      /\ staged[Place(r)] \in Staging
  <2>1. job[r].pc \in {"statDir", "write", "ctl", "isMnt", "mount"}
    BY Zenon DEF StatStagingDir, WriteClientFiles, IsLikelyNotMountPoint, Mount
  <2>2. Active(r)
    BY <2>1, Zenon DEF Active
  <2>3. job[r] \in Jobs /\ Place(r) \in Places /\ Established(r)
    BY <2>2, ActiveJob, Zenon
  <2>4. job[r].op = "stage"
    BY <2>1, <2>3, Zenon DEF Established, PointOfOp
  <2>5. staged[Place(r)] \in Staging
    BY <2>3, Zenon DEF NodeInv, NodeTypes, Staging
  <2>. QED
    BY <2>2, <2>3, <2>4, <2>5, Zenon DEF OfPlace
<1>1. CASE StatStagingDir(r)
  <2>1. UNCHANGED <<staged, bound, want, publish, csiDir, tracked>>
    BY <1>1, Zenon DEF StatStagingDir, agent, beegfs
  <2>2. CASE Goto(r, "write")
    <3>1. JobMoves(r) /\ job'[r].pc = "write"
      BY <1>0, <2>2, GotoMoves, Zenon DEF Points
    <3>2. Established(r)'
      BY <1>0, <3>1, Zenon DEF Established, PointOfOp, JobMoves, OfPlace, StageHas
    <3>. QED
      BY <1>0, <2>1, <3>1, <3>2, LookFrame, Zenon
  <2>. QED
    BY <1>0, <1>1, <2>1, <2>2, FailureMoves, FailureEstablished, LookFrame, Zenon
       DEF StatStagingDir
<1>2. CASE WriteClientFiles(r)
  <2>1. UNCHANGED <<bound, want, publish, csiDir, tracked>> /\ TrackedMoves(r)
    BY <1>2, Zenon DEF WriteClientFiles, agent, beegfs, TrackedMoves, NodeInv, NodeTypes
  <2>2. StagedMoves(r)
    <3>1. CASE UNCHANGED staged
      BY <3>1, Zenon DEF StagedMoves, NodeInv, NodeTypes, Staging
    <3>2. CASE \E b \in BOOLEAN : staged' = [staged EXCEPT ![Place(r)].conf = b]
      BY <1>0, <3>2, SetConfOrMounts, Zenon
    <3>. QED
      BY <1>2, <3>1, <3>2, Zenon DEF WriteClientFiles
  <2>3. CASE Goto(r, "ctl") /\ staged' = [staged EXCEPT ![Place(r)].conf = TRUE]
    <3>1. JobMoves(r) /\ job'[r].pc = "ctl"
      BY <1>0, <2>3, GotoMoves, Zenon DEF Points
    <3>2. staged'[Place(r)].conf
      BY <1>0, <2>3, SetConfOrMounts, Zenon
    <3>3. Established(r)'
      BY <1>0, <3>1, <3>2, Zenon
         DEF Established, PointOfOp, JobMoves, Place, OfPlace, StageHas
    <3>. QED
      BY <1>0, <2>1, <2>2, <3>1, <3>3, PlaceFrame, Zenon
  <2>. QED
    BY <1>0, <1>2, <2>1, <2>2, <2>3, FailureMoves, FailureEstablished, PlaceFrame, Zenon
       DEF WriteClientFiles
<1>3. CASE StatDirectory(r) /\ At(r, "ctl")
  <2>1. UNCHANGED <<staged, bound, want, publish, csiDir, tracked>>
    BY <1>3, Zenon DEF StatDirectory, agent, beegfs
  <2>2. CASE Goto(r, "isMnt") /\ staged[Place(r)].conf
    <3>1. JobMoves(r) /\ job'[r].pc = "isMnt"
      BY <1>0, <2>2, GotoMoves, Zenon DEF Points
    <3>2. Established(r)'
      BY <1>0, <2>1, <2>2, <3>1, Zenon
         DEF Established, PointOfOp, JobMoves, Place, OfPlace, StageHas
    <3>. QED
      BY <1>0, <2>1, <3>1, <3>2, LookFrame, Zenon
  <2>. QED
    BY <1>0, <1>3, <2>1, <2>2, FailureMoves, FailureEstablished, LookFrame, Zenon
       DEF StatDirectory
<1>4. CASE IsLikelyNotMountPoint(r)
  <2>1. UNCHANGED <<staged, bound, want, publish, csiDir, tracked>>
    BY <1>4, Zenon DEF IsLikelyNotMountPoint, agent, beegfs
  <2>2. CASE Goto(r, IF Mounted(Place(r)) THEN "track" ELSE "mount")
    <3>1. /\ JobMoves(r)
          /\ job'[r].pc = IF Mounted(Place(r)) THEN "track" ELSE "mount"
      BY <1>0, <2>2, GotoMoves, Zenon DEF Points
    <3>2. staged[Place(r)].mounts = IF Mounted(Place(r)) THEN 1 ELSE 0
      BY <1>0 DEF Mounted, Staging
    <3>3. staged[Place(r)].conf
      BY <1>0, <1>4, Zenon DEF IsLikelyNotMountPoint, Established, Place, StageHas
    <3>4. Established(r)'
      BY <1>0, <2>1, <3>1, <3>2, <3>3, Zenon
         DEF Established, PointOfOp, JobMoves, Place, OfPlace, StageHas
    <3>. QED
      BY <1>0, <2>1, <3>1, <3>4, LookFrame, Zenon
  <2>. QED
    BY <1>0, <1>4, <2>1, <2>2, FailureMoves, FailureEstablished, LookFrame, Zenon
       DEF IsLikelyNotMountPoint
<1>5. CASE Mount(r)
  <2>1. UNCHANGED <<bound, want, publish, csiDir, tracked>> /\ TrackedMoves(r)
    BY <1>5, Zenon DEF Mount, agent, beegfs, TrackedMoves, NodeInv, NodeTypes
  <2>2. staged[Place(r)].mounts = 0 /\ staged[Place(r)].conf
    BY <1>0, <1>5, Zenon DEF Mount, Established, Place, StageHas
  <2>3. CASE Goto(r, "track") /\ staged' = [staged EXCEPT ![Place(r)].mounts = @ + 1]
    <3>1. JobMoves(r) /\ job'[r].pc = "track"
      BY <1>0, <2>3, GotoMoves, Zenon DEF Points
    <3>2. /\ StagedMoves(r)
          /\ staged'[Place(r)].mounts = 1 /\ staged'[Place(r)].conf
      <4>1. staged' = [staged EXCEPT ![Place(r)].mounts = 1]
        BY <2>2, <2>3
      <4>. QED
        BY <1>0, <2>2, <4>1, SetConfOrMounts, Zenon
    <3>3. Established(r)'
      BY <1>0, <3>1, <3>2, Zenon
         DEF Established, PointOfOp, JobMoves, Place, OfPlace, StageHas
    <3>. QED
      BY <1>0, <2>1, <3>1, <3>2, <3>3, PlaceFrame, Zenon
  <2>4. CASE Failure(r) /\ UNCHANGED staged
    BY <1>0, <2>1, <2>4, FailureMoves, FailureEstablished, LookFrame, Zenon
  <2>. QED
    BY <1>5, <2>3, <2>4, Zenon DEF Mount
<1>. QED
  BY <1>1, <1>2, <1>3, <1>4, <1>5, Zenon

\* A place is a node and a volume.
LEMMA PlacesDiffer ==
    ASSUME NEW p \in Places, NEW q \in Places, NodeOf(p) = NodeOf(q),
           VolumeOf(p) = VolumeOf(q)
    PROVE  p = q
  BY DEF Places, NodeOf, VolumeOf

\* Adding or removing the node's own name is no one else's concern.
LEMMA OwnName ==
    ASSUME NodeInv, NEW r \in Requests, Active(r), NEW T \in SUBSET Nodes,
           T \ {NodeOf(Place(r))} = tracked[Volume(r)] \ {NodeOf(Place(r))},
           tracked' = [tracked EXCEPT ![Volume(r)] = T]
    PROVE  TrackedMoves(r)
<1>0. Place(r) \in Places /\ Volume(r) = VolumeOf(Place(r)) /\ Volume(r) \in Volumes
  BY ActiveJob, Zenon DEF Volume, Place
<1>1. tracked' \in [Volumes -> SUBSET Nodes]
  BY <1>0, Zenon DEF NodeInv, NodeTypes
<1>2. ASSUME NEW p \in Places, p # Place(r)
      PROVE  NodeOf(p) \in tracked'[VolumeOf(p)] <=> NodeOf(p) \in tracked[VolumeOf(p)]
  <2>0. VolumeOf(p) \in Volumes
    BY Zenon DEF Places, VolumeOf
  <2>1. CASE VolumeOf(p) # Volume(r)
    BY <1>0, <2>0, <2>1, Zenon DEF NodeInv, NodeTypes
  <2>2. CASE VolumeOf(p) = Volume(r)
    <3>1. NodeOf(p) # NodeOf(Place(r))
      BY <1>0, <1>2, <2>2, PlacesDiffer, Zenon
    <3>2. tracked'[VolumeOf(p)] = T
      BY <1>0, <2>2, Zenon DEF NodeInv, NodeTypes
    <3>. QED
      BY <2>2, <3>1, <3>2, Zenon
  <2>. QED
    BY <2>1, <2>2, Zenon
<1>. QED
  BY <1>1, <1>2, Zenon DEF TrackedMoves

\* The node's name is written after the mount, and removed before the unmount.
LEMMA TrackSteps ==
    ASSUME NodeInv, NEW r \in Requests, Track(r) \/ Untrack(r)
    PROVE  NodeInv'
<1>. USE DEF At
<1>0. /\ Active(r) /\ job[r] \in Jobs /\ Place(r) \in Places
      /\ NodeOf(Place(r)) \in Nodes /\ Volume(r) \in Volumes
      /\ Volume(r) = VolumeOf(Place(r))
      /\ Established(r) /\ OfPlace(r)
      /\ tracked[Volume(r)] \in SUBSET Nodes
      /\ UNCHANGED <<staged, bound, want, publish, csiDir>>
      /\ StagedMoves(r)
  <2>1. Active(r)
    BY Zenon DEF Track, Untrack, Active
  <2>2. /\ job[r] \in Jobs /\ Place(r) \in Places /\ NodeOf(Place(r)) \in Nodes
        /\ Volume(r) \in Volumes /\ Established(r)
    BY <2>1, ActiveJob, Zenon
  <2>3. OfPlace(r)
    BY <2>2, Zenon DEF Track, Untrack, Established, PointOfOp, OfPlace
  <2>4. tracked[Volume(r)] \in SUBSET Nodes
    BY <2>2, Zenon DEF NodeInv, NodeTypes
  <2>5. UNCHANGED <<staged, bound, want, publish, csiDir>>
    BY Zenon DEF Track, Untrack, agent
  <2>6. StagedMoves(r)
    BY <2>5, Zenon DEF NodeInv, NodeTypes, StagedMoves, Staging
  <2>7. Volume(r) = VolumeOf(Place(r))
    BY Zenon DEF Volume, Place
  <2>. QED
    BY <2>1, <2>2, <2>3, <2>4, <2>5, <2>6, <2>7, Zenon
<1>1. CASE Track(r)
  <2>1. /\ job[r].op = "stage" /\ staged[Place(r)].mounts = 1 /\ staged[Place(r)].conf
    BY <1>0, <1>1, Zenon DEF Track, Established, PointOfOp, Place, StageHas
  <2>2. JobMoves(r) /\ job'[r].pc = "answer"
    BY <1>0, <1>1, GotoMoves, Zenon DEF Track, Success, Points
  <2>3. TrackedMoves(r) /\ Listed(Place(r))'
    <3>1. CASE tracked' = [tracked EXCEPT ![Volume(r)] = @ \cup {NodeOf(Place(r))}]
      <4>1. TrackedMoves(r)
        BY <1>0, <3>1, OwnName, Zenon
      <4>2. NodeOf(Place(r)) \in tracked'[Volume(r)]
        BY <1>0, <3>1, Zenon DEF NodeInv, NodeTypes
      <4>. QED
        BY <1>0, <2>2, <4>1, <4>2, Zenon DEF Listed, JobMoves, Place
    <3>2. CASE UNCHANGED tracked /\ (~csiDir[Volume(r)] \/ "track" \in Failing)
      BY <1>0, <2>2, <3>2, Zenon DEF TrackedMoves, Listed, NodeInv, NodeTypes, JobMoves, Place
    <3>. QED
      BY <1>1, <2>1, <3>1, <3>2 DEF Track, Mounted, CallFails
  <2>4. Established(r)'
    BY <1>0, <2>1, <2>2, <2>3, Zenon
       DEF Established, PointOfOp, JobMoves, Place, OfPlace, StageHas
  <2>. QED
    BY <1>0, <2>2, <2>3, <2>4, PlaceFrame, Zenon
<1>2. CASE Untrack(r)
  <2>1. job[r].op = "unstage"
    BY <1>0, <1>2, Zenon DEF Untrack, Established, PointOfOp
  <2>2. JobMoves(r) /\ job'[r].pc = "list"
    BY <1>0, <1>2, GotoMoves, Zenon DEF Untrack, Points
  <2>3. Established(r)'
    BY <1>0, <2>1, <2>2, Zenon DEF Established, PointOfOp, JobMoves, OfPlace, StageHas
  <2>4. CASE tracked' = [tracked EXCEPT ![Volume(r)] = @ \ {NodeOf(Place(r))}]
    <3>1. TrackedMoves(r)
      BY <1>0, <2>4, OwnName, Zenon
    <3>. QED
      BY <1>0, <2>2, <2>3, <3>1, PlaceFrame, Zenon
  <2>5. CASE UNCHANGED tracked
    BY <1>0, <2>2, <2>3, <2>5, LookFrame, Zenon
  <2>. QED
    BY <1>2, <2>4, <2>5, Zenon DEF Untrack
<1>. QED
  BY <1>1, <1>2, Zenon

\* NodeUnstageVolume after the list.
LEMMA UnstageSteps ==
    ASSUME NodeInv, NEW r \in Requests,
           ListMounts(r) \/ Unmount(r) \/ CleanUp(r)
    PROVE  NodeInv'
<1>. USE DEF At
<1>0. /\ Active(r) /\ job[r] \in Jobs /\ Place(r) \in Places
      /\ Established(r) /\ job[r].op = "unstage" /\ OfPlace(r)
      /\ staged[Place(r)] \in Staging
  <2>1. Active(r)
    BY Zenon DEF ListMounts, Unmount, CleanUp, Active
  <2>2. job[r] \in Jobs /\ Place(r) \in Places /\ Established(r)
    BY <2>1, ActiveJob, Zenon
  <2>3. job[r].pc \in {"list", "unmount", "clean"}
    BY Zenon DEF ListMounts, Unmount, CleanUp
  <2>4. job[r].op = "unstage"
    BY <2>2, <2>3, Zenon DEF Established, PointOfOp
  <2>5. staged[Place(r)] \in Staging
    BY <2>2, Zenon DEF NodeInv, NodeTypes, Staging
  <2>. QED
    BY <2>1, <2>2, <2>4, <2>5, Zenon DEF OfPlace
<1>a. ASSUME UNCHANGED staged PROVE StagedMoves(r)
  BY <1>a, Zenon DEF StagedMoves, NodeInv, NodeTypes, Staging
<1>b. ASSUME Failure(r), StagedMoves(r), TrackedMoves(r),
             UNCHANGED <<bound, want, publish, csiDir>>
      PROVE  NodeInv'
  BY <1>0, <1>b, FailureMoves, FailureEstablished, PlaceFrame, Zenon
<1>1. CASE ListMounts(r)
  <2>1. /\ UNCHANGED <<staged, bound, want, publish, csiDir, tracked>>
        /\ TrackedMoves(r)
    BY <1>1, Zenon DEF ListMounts, agent, beegfs, TrackedMoves, NodeInv, NodeTypes
  <2>2. CASE Goto(r, "unmount")
    <3>1. JobMoves(r) /\ job'[r].pc = "unmount"
      BY <1>0, <2>2, GotoMoves, Zenon DEF Points
    <3>2. Established(r)'
      BY <1>0, <3>1, Zenon DEF Established, PointOfOp, JobMoves, OfPlace, StageHas
    <3>. QED
      BY <1>0, <2>1, <3>1, <3>2, LookFrame, Zenon
  <2>. QED
    BY <1>1, <1>a, <1>b, <2>1, <2>2, Zenon DEF ListMounts
<1>2. CASE Unmount(r)
  <2>1. UNCHANGED <<bound, want, publish, csiDir, tracked>> /\ TrackedMoves(r)
    BY <1>2, Zenon DEF Unmount, agent, beegfs, TrackedMoves, NodeInv, NodeTypes
  <2>2. AfterUnmount(staged[Place(r)].mounts) = 0 /\ staged[Place(r)].mounts <= 1
    BY <1>0 DEF AfterUnmount, Staging
  <2>3. CASE staged' = [staged EXCEPT ![Place(r)].mounts = 0] /\ Goto(r, "clean")
    <3>1. JobMoves(r) /\ job'[r].pc = "clean"
      BY <1>0, <2>3, GotoMoves, Zenon DEF Points
    <3>2. StagedMoves(r) /\ staged'[Place(r)].mounts = 0
      BY <1>0, <2>3, SetConfOrMounts, Zenon
    <3>3. Established(r)'
      BY <1>0, <3>1, <3>2, Zenon
         DEF Established, PointOfOp, JobMoves, Place, OfPlace, StageHas
    <3>. QED
      BY <1>0, <2>1, <3>1, <3>2, <3>3, PlaceFrame, Zenon
  <2>4. CASE staged' = [staged EXCEPT ![Place(r)].mounts = 0] /\ Failure(r)
    BY <1>0, <1>b, <2>1, <2>4, SetConfOrMounts, Zenon
  <2>5. CASE UNCHANGED staged /\ Failure(r)
    BY <1>a, <1>b, <2>1, <2>5, Zenon
  <2>. QED
    BY <1>2, <2>2, <2>3, <2>4, <2>5, Zenon DEF Unmount
<1>3. CASE CleanUp(r)
  <2>1. staged[Place(r)].mounts = 0 /\ ~Mounted(Place(r))
    BY <1>0, <1>3 DEF CleanUp, Established, Place, Mounted, StageHas
  <2>2. UNCHANGED <<bound, want, publish, csiDir, tracked>> /\ TrackedMoves(r)
    BY <1>3, <2>1, Zenon DEF CleanUp, agent, beegfs, TrackedMoves, NodeInv, NodeTypes
  <2>3. CASE staged' = [staged EXCEPT ![Place(r)].conf = FALSE] /\ Success(r)
    <3>1. JobMoves(r) /\ job'[r].pc = "answer"
      BY <1>0, <2>3, GotoMoves, Zenon DEF Points, Success
    <3>2. StagedMoves(r) /\ staged'[Place(r)].mounts = 0 /\ ~staged'[Place(r)].conf
      BY <1>0, <2>1, <2>3, SetConfOrMounts, Zenon
    <3>3. Established(r)'
      BY <1>0, <3>1, <3>2, Zenon
         DEF Established, PointOfOp, JobMoves, Place, OfPlace, StageHas
    <3>. QED
      BY <1>0, <2>2, <3>1, <3>2, <3>3, PlaceFrame, Zenon
  <2>4. CASE staged' = [staged EXCEPT ![Place(r)].conf = FALSE] /\ Failure(r)
    BY <1>0, <1>b, <2>2, <2>4, SetConfOrMounts, Zenon
  <2>5. CASE UNCHANGED staged /\ Failure(r)
    BY <1>a, <1>b, <2>2, <2>5, Zenon
  <2>. QED
    BY <1>3, <2>1, <2>3, <2>4, <2>5, Zenon DEF CleanUp
<1>. QED
  BY <1>1, <1>2, <1>3, Zenon

\* NodePublishVolume and NodeUnpublishVolume.
LEMMA PublishSteps ==
    ASSUME NodeInv, NEW r \in Requests,
           \/ StatDirectory(r) /\ At(r, "pubCtl")
           \/ IsMountPoint(r) \/ Bind(r) \/ Unbind(r)
    PROVE  NodeInv'
<1>. USE DEF At
<1>. DEFINE p == Place(r)
            t == job[r].target
<1>0. /\ Active(r) /\ job[r] \in Jobs /\ p \in Places /\ Established(r)
      /\ job[r].op = IF job[r].pc = "unbind" THEN "unpublish" ELSE "publish"
      /\ ~OfPlace(r) /\ t \in Targets /\ bound[p][t] \in {0, 1}
  <2>1. job[r].pc \in {"pubCtl", "isBound", "bind", "unbind"}
    BY Zenon DEF IsMountPoint, Bind, Unbind
  <2>2. Active(r)
    BY <2>1, Zenon DEF Active
  <2>3. ~OfPlace(r) /\ Established(r)
    BY <2>1, <2>2, ActiveJob, Zenon DEF Established, PointOfOp, OfPlace
  <2>4. job[r] \in Jobs /\ p \in Places /\ t \in Targets
    BY <2>2, <2>3, ActiveJob, Zenon
  <2>5. bound[p][t] \in {0, 1}
    BY <2>4 DEF NodeInv, NodeTypes
  <2>6. job[r].op = IF job[r].pc = "unbind" THEN "unpublish" ELSE "publish"
    BY <2>1, <2>3, Zenon DEF Established, PointOfOp
  <2>. QED
    BY <2>2, <2>3, <2>4, <2>5, <2>6, Zenon
<1>1. UNCHANGED <<staged, want, publish, csiDir, tracked>>
  BY Zenon DEF StatDirectory, IsMountPoint, Bind, Unbind, agent, beegfs
<1>a. ASSUME UNCHANGED bound PROVE BoundMoves(r)
  BY <1>a, Zenon DEF BoundMoves, NodeInv, NodeTypes
<1>b. ASSUME NEW n \in {0, 1}, bound' = [bound EXCEPT ![p][t] = n]
      PROVE  BoundMoves(r) /\ bound'[p][t] = n
  BY <1>0, <1>b, Zenon DEF BoundMoves, NodeInv, NodeTypes
<1>c. ASSUME Failure(r), BoundMoves(r) PROVE NodeInv'
  BY <1>0, <1>1, <1>c, FailureMoves, FailureEstablished, TargetFrame, Zenon
<1>d. ASSUME Goto(r, "isBound"), UNCHANGED bound, job[r].pc = "pubCtl" PROVE NodeInv'
  <2>1. JobMoves(r) /\ job'[r].pc = "isBound"
    BY <1>0, <1>d, GotoMoves, Zenon DEF Points
  <2>2. Established(r)'
    BY <1>0, <1>d, <2>1, Zenon DEF Established, PointOfOp, JobMoves, OfPlace, PublishHas
  <2>. QED
    BY <1>0, <1>1, <1>a, <1>d, <2>1, <2>2, TargetFrame, Zenon
<1>e. ASSUME Goto(r, "bind"), UNCHANGED bound, bound[p][t] = 0, job[r].pc = "isBound"
      PROVE  NodeInv'
  <2>1. JobMoves(r) /\ job'[r].pc = "bind"
    BY <1>0, <1>e, GotoMoves, Zenon DEF Points
  <2>2. Established(r)'
    BY <1>0, <1>e, <2>1, Zenon
       DEF Established, PointOfOp, JobMoves, Place, OfPlace, PublishHas
  <2>. QED
    BY <1>0, <1>1, <1>a, <1>e, <2>1, <2>2, TargetFrame, Zenon
<1>f. ASSUME Success(r), BoundMoves(r),
             bound'[p][t] = IF job[r].pc = "unbind" THEN 0 ELSE 1
      PROVE  NodeInv'
  <2>1. JobMoves(r) /\ job'[r].pc = "answer"
    BY <1>0, <1>f, GotoMoves, Zenon DEF Points, Success
  <2>2. Established(r)'
    BY <1>0, <1>f, <2>1, Zenon
       DEF Established, PointOfOp, JobMoves, Place, OfPlace, PublishHas
  <2>. QED
    BY <1>0, <1>1, <1>f, <2>1, <2>2, TargetFrame, Zenon
<1>2. CASE StatDirectory(r) /\ At(r, "pubCtl")
  BY <1>2, <1>a, <1>c, <1>d, Zenon DEF StatDirectory
<1>3. CASE IsMountPoint(r)
  <2>1. bound[p][t] > 0 => bound[p][t] = 1
    BY <1>0
  <2>. QED
    BY <1>3, <1>a, <1>c, <1>e, <1>f, <2>1, Zenon DEF IsMountPoint
<1>4. CASE Bind(r)
  <2>1. bound[p][t] + 1 = 1
    BY <1>0, <1>4 DEF Bind, Established, Place, PublishHas
  <2>2. CASE Success(r) /\ bound' = [bound EXCEPT ![p][t] = @ + 1]
    <3>1. bound' = [bound EXCEPT ![p][t] = 1]
      BY <2>1, <2>2, Zenon
    <3>. QED
      BY <1>4, <1>b, <1>f, <2>2, <3>1, Zenon DEF Bind
  <2>. QED
    BY <1>4, <1>a, <1>c, <2>2, Zenon DEF Bind
<1>5. CASE Unbind(r)
  <2>1. AfterUnmount(bound[p][t]) = 0 /\ bound[p][t] <= 1
    BY <1>0 DEF AfterUnmount
  <2>2. CASE bound' = [bound EXCEPT ![p][t] = 0] /\ Success(r)
    BY <1>5, <1>b, <1>f, <2>2, Zenon DEF Unbind
  <2>3. CASE bound' = [bound EXCEPT ![p][t] = 0] /\ Failure(r)
    BY <1>b, <1>c, <2>3, Zenon
  <2>4. CASE UNCHANGED bound /\ Failure(r)
    BY <1>a, <1>c, <2>4, Zenon
  <2>. QED
    BY <1>5, <2>1, <2>2, <2>3, <2>4, Zenon DEF Unbind
<1>. QED
  BY <1>2, <1>3, <1>4, <1>5, Zenon
-----------------------------------------------------------------------------
(***************************************************************************)
(* The agent.                                                              *)
(***************************************************************************)
\* An answer: the agent concludes what the handler established.
LEMMA AnswerSteps ==
    ASSUME NodeInv, NEW r \in Requests, Answer(r)
    PROVE  NodeInv'
<1>. USE DEF At
<1>. DEFINE p == Place(r)
            t == job[r].target
<1>0. /\ Active(r) /\ job[r] \in Jobs /\ p \in Places
      /\ Attended(r) /\ Established(r) /\ (~OfPlace(r) => t \in Targets)
  <2>1. Active(r)
    BY Zenon DEF Answer, Active
  <2>. QED
    BY <2>1, ActiveJob, Zenon
<1>1. /\ job' \in [Requests -> Jobs \cup {Idle}]
      /\ ~Active(r)' /\ \A q \in Requests \ {r} : job'[q] = job[q]
  BY Zenon DEF Answer, NodeInv, NodeTypes, Active, Idle
<1>2. OnePerPath'
  BY <1>1 DEF NodeInv, OnePerPath, Active
<1>3. UNCHANGED <<bound, csiDir, tracked>>
  BY Zenon DEF Answer, beegfs
<1>4. \A x \in Places : Listed(x)' = Listed(x)
  BY <1>3, Zenon DEF Listed
<1>6. ASSUME NEW q \in Requests, Active(q)'
      PROVE  /\ q # r /\ Active(q) /\ job'[q] = job[q] /\ job[q].place \in Places
             /\ Attended(q) /\ Established(q)
             /\ OfPlace(q) /\ OfPlace(r) => job[q].place # p
             /\ ~OfPlace(q) => job[q].target \in Targets
             /\ job[q].target = t => job[q].place # p
  <2>1. q # r /\ job'[q] = job[q] /\ Active(q)
    BY <1>1, <1>6, Zenon DEF Active
  <2>2. OfPlace(q) /\ OfPlace(r) => job[q].place # p
    BY <1>0, <2>1, AloneAtPlace, Zenon DEF Place
  <2>3. job[q].target = t => job[q].place # p
    BY <1>0, <2>1, Zenon DEF NodeInv, OnePerPath, Place
  <2>. QED
    BY <2>1, <2>2, <2>3, ActiveJob, Zenon DEF Place
<1>5. ASSUME NEW q \in Requests, Active(q)',
             \A x \in Places : /\ staged'[x].conf = staged[x].conf
                               /\ staged'[x].mounts = staged[x].mounts,
             OfPlace(q) => want'[job[q].place] = want[job[q].place],
             ~OfPlace(q) => publish'[job[q].place][job[q].target]
                                = publish[job[q].place][job[q].target]
      PROVE  Attended(q)' /\ Established(q)'
  <2>1. /\ OfPlace(q) => StageWanted(job[q].op, want'[job[q].place])
        /\ ~OfPlace(q) =>
              PublishWanted(job[q].op, publish'[job[q].place][job[q].target])
    BY <1>5, <1>6, Zenon DEF Attended
  <2>. QED
    BY <1>3, <1>4, <1>5, <1>6, <2>1, KeptHandler, Zenon
<1>7. CASE UNCHANGED <<want, publish, staged>>
  <2>1. ASSUME NEW q \in Requests, Active(q)' PROVE Attended(q)' /\ Established(q)'
    BY <1>5, <1>7, <2>1, Zenon
  <2>2. \A x \in Places : AsSeen(x)'
    BY <1>3, <1>4, <1>7 DEF NodeInv, AsSeen, IsStaged, IsUnstaged
  <2>. QED
    BY <1>1, <1>2, <1>3, <1>7, <2>1, <2>2, Zenon DEF NodeInv, NodeTypes
<1>8. CASE /\ job[r].ok /\ Awaited(job[r].op, p, t)
           /\ Acknowledge(job[r].op, p, t)
  <2>0. job[r].pc = "answer"
    BY Zenon DEF Answer
  <2>1. CASE job[r].op = "stage"
    <3>1. want' = [want EXCEPT ![p] = "staged"] /\ UNCHANGED <<publish, staged>>
      BY <1>8, <2>1, Zenon DEF Acknowledge
    <3>2. IsStaged(p)
      BY <1>0, <1>8, <2>0, <2>1, Zenon DEF Established, Place, OfPlace, StageHas, IsStaged
    <3>3. ASSUME NEW q \in Requests, Active(q)' PROVE Attended(q)' /\ Established(q)'
      <4>1. OfPlace(q) => want'[job[q].place] = want[job[q].place]
        BY <1>6, <2>1, <3>1, <3>3, Zenon DEF OfPlace, NodeInv, NodeTypes
      <4>. QED
        BY <1>5, <3>1, <3>3, <4>1, Zenon
    <3>4. ASSUME NEW x \in Places PROVE AsSeen(x)'
      <4>1. AsSeen(x)
        BY Zenon DEF NodeInv
      <4>2. want'[x] = IF x = p THEN "staged" ELSE want[x]
        BY <3>1, Zenon DEF NodeInv, NodeTypes
      <4>. QED
        BY <1>0, <1>3, <1>4, <3>1, <3>2, <4>1, <4>2 DEF AsSeen, IsStaged, IsUnstaged
    <3>5. NodeTypes'
      BY <1>1, <1>3, <3>1, Zenon DEF NodeInv, NodeTypes
    <3>. QED
      BY <1>2, <3>3, <3>4, <3>5, Zenon DEF NodeInv
  <2>2. CASE job[r].op = "unstage"
    <3>1. /\ want' = [want EXCEPT ![p] = "unstaged"] /\ UNCHANGED publish
          /\ staged' = [staged EXCEPT ![p].dir = FALSE]
      BY <1>8, <2>2, Zenon DEF Acknowledge
    <3>2. IsUnstaged(p) /\ want[p] = "unstaging"
      <4>1. IsUnstaged(p)
        BY <1>0, <1>8, <2>0, <2>2, Zenon
           DEF Established, Place, OfPlace, StageHas, IsUnstaged
      <4>2. want[p] = "unstaging"
        BY <1>0, <2>2, Zenon DEF Attended, OfPlace, StageWanted, Place
      <4>. QED
        BY <4>1, <4>2, Zenon
    <3>3. /\ staged' \in [Places -> Staging]
          /\ \A x \in Places : /\ staged'[x].conf = staged[x].conf
                               /\ staged'[x].mounts = staged[x].mounts
      <4>. DEFINE new == [staged[p] EXCEPT !.dir = FALSE]
      <4>1. staged[p] \in Staging /\ staged \in [Places -> Staging]
        BY <1>0, Zenon DEF NodeInv, NodeTypes, Staging
      <4>2. /\ new \in Staging /\ new.conf = staged[p].conf
            /\ new.mounts = staged[p].mounts
        BY <4>1, Zenon DEF Staging
      <4>3. staged' = [staged EXCEPT ![p] = new]
        BY <3>1, Zenon
      <4>. HIDE DEF new
      <4>. QED
        BY <4>1, <4>2, <4>3, Zenon
    <3>4. ASSUME NEW q \in Requests, Active(q)' PROVE Attended(q)' /\ Established(q)'
      <4>1. OfPlace(q) => want'[job[q].place] = want[job[q].place]
        BY <1>6, <2>2, <3>1, <3>4, Zenon DEF OfPlace, NodeInv, NodeTypes
      <4>. QED
        BY <1>5, <3>1, <3>3, <3>4, <4>1, Zenon
    <3>5. ASSUME NEW x \in Places PROVE AsSeen(x)'
      <4>1. AsSeen(x)
        BY Zenon DEF NodeInv
      <4>2. want'[x] = IF x = p THEN "unstaged" ELSE want[x]
        BY <3>1, Zenon DEF NodeInv, NodeTypes
      <4>. QED
        BY <1>0, <1>3, <1>4, <3>1, <3>2, <3>3, <4>1, <4>2
           DEF AsSeen, IsStaged, IsUnstaged
    <3>6. NodeTypes'
      BY <1>1, <1>3, <3>1, <3>3, Zenon DEF NodeInv, NodeTypes, Staging
    <3>. QED
      BY <1>2, <3>4, <3>5, <3>6, Zenon DEF NodeInv
  <2>3. CASE job[r].op \in {"publish", "unpublish"}
    <3>. DEFINE y == IF job[r].op = "publish" THEN "published" ELSE "absent"
    <3>1. publish' = [publish EXCEPT ![p][t] = y] /\ UNCHANGED <<want, staged>>
      BY <1>8, <2>3, Zenon DEF Acknowledge
    <3>2. /\ t \in Targets
          /\ publish[p][t] \in {"publishing", "unpublishing"}
          /\ bound[p][t] = IF job[r].op = "publish" THEN 1 ELSE 0
      <4>1. ~OfPlace(r)
        BY <2>3, Zenon DEF OfPlace
      <4>2. publish[p][t] \in {"publishing", "unpublishing"}
        BY <1>0, <4>1, Zenon DEF Attended, PublishWanted, Place
      <4>3. bound[p][t] = IF job[r].op = "publish" THEN 1 ELSE 0
        BY <1>0, <1>8, <2>0, <4>1, Zenon DEF Established, PublishHas, Place
      <4>. QED
        BY <1>0, <4>1, <4>2, <4>3, Zenon
    <3>3. /\ publish' \in [Places -> [Targets ->
                {"absent", "publishing", "published", "unpublishing"}]]
          /\ \A x \in Places, z \in Targets :
                publish'[x][z] = IF x = p /\ z = t THEN y ELSE publish[x][z]
      BY <1>0, <3>1, <3>2, Zenon DEF NodeInv, NodeTypes
    <3>4. ASSUME NEW q \in Requests, Active(q)' PROVE Attended(q)' /\ Established(q)'
      <4>1. ~OfPlace(q) => publish'[job[q].place][job[q].target]
                               = publish[job[q].place][job[q].target]
        BY <1>6, <3>3, <3>4
      <4>. QED
        BY <1>5, <3>1, <3>4, <4>1, Zenon
    <3>5. ASSUME NEW x \in Places PROVE AsSeen(x)'
      <4>1. AsSeen(x) /\ (publish[p][t] # "absent" => want[p] = "staged")
        BY <1>0, <3>2, Zenon DEF NodeInv, AsSeen
      <4>. QED
        BY <1>3, <1>4, <3>1, <3>2, <3>3, <4>1 DEF AsSeen, IsStaged, IsUnstaged
    <3>6. NodeTypes'
      BY <1>1, <1>3, <3>1, <3>3, Zenon DEF NodeInv, NodeTypes
    <3>. QED
      BY <1>2, <3>4, <3>5, <3>6, Zenon DEF NodeInv
  <2>. QED
    BY <1>0, <2>1, <2>2, <2>3, Zenon DEF Jobs, Ops
<1>. QED
  BY <1>7, <1>8, Zenon DEF Answer, agent, Place

\* A handler that begins while none runs for its path.
LEMMA BeginSteps ==
    ASSUME NodeInv, ~Overlap, NEW r \in Requests, NEW op \in Ops, NEW p \in Places,
           NEW t \in Targets \cup {NoTarget}, NEW point \in Points,
           op \in {"stage", "unstage"} <=> t = NoTarget,
           op = "stage" => want[p] = "staging" /\ point = "statDir",
           op = "unstage" => want[p] = "unstaging" /\ point = "untrack",
           op = "publish" => publish[p][t] = "publishing" /\ point = "pubCtl",
           op = "unpublish" => publish[p][t] = "unpublishing" /\ point = "unbind",
           Begin(r, op, p, t, point)
    PROVE  NodeInv'
<1>. DEFINE new == [op |-> op, place |-> p, target |-> t, pc |-> point,
                    ok |-> TRUE, heard |-> TRUE]
<1>1. Running(p, t) = {} /\ UNCHANGED <<staged, bound, want, publish, csiDir, tracked>>
  BY Zenon DEF Begin, agent, beegfs
<1>2. new \in Jobs /\ point \notin {"idle", "answer"}
  BY Zenon DEF Jobs, Ops
<1>3. /\ job' \in [Requests -> Jobs \cup {Idle}]
      /\ job'[r] = new /\ \A q \in Requests \ {r} : job'[q] = job[q]
  BY <1>1, <1>2, Zenon DEF Begin, NodeInv, NodeTypes
<1>4. \A q \in Requests : Active(q) => job[q].place # p \/ job[q].target # t
  BY <1>1, Zenon DEF Running, Active
<1>a. \A x \in Places : Listed(x)' = Listed(x)
  BY <1>1, Zenon DEF Listed
<1>5. NodeTypes'
  BY <1>1, <1>3, Zenon DEF NodeInv, NodeTypes
<1>b. /\ job'[r].op = op /\ job'[r].pc = point /\ job'[r].place = p
      /\ job'[r].target = t
  BY <1>3
<1>c. \A q \in Requests \ {r} : job'[q] = job[q]
  BY <1>3, Zenon
<1>. HIDE DEF new
<1>6. OnePerPath'
  BY <1>b, <1>c, <1>4 DEF NodeInv, OnePerPath, Active
<1>7. ASSUME NEW q \in Requests, Active(q)' PROVE Attended(q)' /\ Established(q)'
  <2>1. CASE q = r
    <3>1. Attended(r)'
      BY <1>1, <1>b, Zenon DEF Attended, OfPlace, StageWanted, PublishWanted, Ops
    <3>2. PointOfOp(op, point) /\ point \notin {"ctl", "isMnt", "mount", "track",
                                                "clean", "bind", "answer"}
      BY Zenon DEF PointOfOp, Ops
    <3>3. Established(r)'
      BY <1>b, <3>2, Zenon DEF Established, StageHas, PublishHas
    <3>. QED
      BY <2>1, <3>1, <3>3, Zenon
  <2>2. CASE q # r
    <3>1. job'[q] = job[q] /\ Active(q)
      BY <1>c, <1>7, <2>2, Zenon DEF Active
    <3>2. Attended(q) /\ Established(q) /\ job[q].place \in Places
      BY <3>1, ActiveJob, Zenon DEF Place
    <3>3. /\ OfPlace(q) => StageWanted(job[q].op, want'[job[q].place])
          /\ ~OfPlace(q) =>
                PublishWanted(job[q].op, publish'[job[q].place][job[q].target])
      BY <1>1, <3>2, Zenon DEF Attended
    <3>. QED
      BY <1>1, <1>a, <3>1, <3>2, <3>3, KeptHandler, Zenon
  <2>. QED
    BY <2>1, <2>2, Zenon
<1>8. \A x \in Places : AsSeen(x)'
  BY <1>1, <1>a DEF NodeInv, AsSeen, IsStaged, IsUnstaged
<1>. QED
  BY <1>5, <1>6, <1>7, <1>8, Zenon DEF NodeInv

\* What the agent decides, without an answer.
LEMMA AgentSteps ==
    ASSUME NodeInv, Agent
    PROVE  NodeInv'
<1>0. UNCHANGED <<job, bound, csiDir, tracked>> /\ OnePerPath'
  BY DEF Agent, WantStaged, WantUnstaged, WantPublished, WantUnpublished, beegfs,
         NodeInv, OnePerPath, Active
<1>1. ASSUME NEW q \in Requests, Active(q)'
      PROVE  /\ Active(q) /\ job[q].place \in Places
             /\ Attended(q) /\ Established(q)
             /\ ~OfPlace(q) => job[q].target \in Targets
  BY <1>0, <1>1, ActiveJob, Zenon DEF Active, Place
<1>a. \A x \in Places : Listed(x)' = Listed(x)
  BY <1>0, Zenon DEF Listed
<1>2. ASSUME NEW p \in Places, WantStaged(p) PROVE NodeInv'
  <2>1. /\ want' \in [Places -> {"unstaged", "staging", "staged", "unstaging"}]
        /\ want[p] = "unstaged" /\ want'[p] = "staging"
        /\ \A x \in Places \ {p} : want'[x] = want[x]
        /\ UNCHANGED publish
    BY <1>2, Zenon DEF WantStaged, NodeInv, NodeTypes
  <2>2. /\ staged' \in [Places -> Staging]
        /\ \A x \in Places : /\ staged'[x].conf = staged[x].conf
                             /\ staged'[x].mounts = staged[x].mounts
    <3>. DEFINE new == [staged[p] EXCEPT !.dir = TRUE]
    <3>1. staged[p] \in Staging /\ staged \in [Places -> Staging]
      BY Zenon DEF NodeInv, NodeTypes, Staging
    <3>2. /\ new \in Staging /\ new.conf = staged[p].conf
          /\ new.mounts = staged[p].mounts
      BY <3>1, Zenon DEF Staging
    <3>3. staged' = [staged EXCEPT ![p] = new]
      BY <1>2, Zenon DEF WantStaged
    <3>. HIDE DEF new
    <3>. QED
      BY <3>1, <3>2, <3>3, Zenon
  <2>3. ASSUME NEW q \in Requests, Active(q)' PROVE Attended(q)' /\ Established(q)'
    <3>1. OfPlace(q) => StageWanted(job[q].op, want'[job[q].place])
      BY <1>1, <2>1, <2>3, Zenon DEF Attended, StageWanted
    <3>2. ~OfPlace(q) =>
             PublishWanted(job[q].op, publish'[job[q].place][job[q].target])
      BY <1>1, <2>1, <2>3, Zenon DEF Attended
    <3>. QED
      BY <1>0, <1>1, <1>a, <2>2, <2>3, <3>1, <3>2, KeptHandler, Zenon
  <2>4. ASSUME NEW x \in Places PROVE AsSeen(x)'
    <3>1. AsSeen(x)
      BY Zenon DEF NodeInv
    <3>. QED
      BY <1>0, <1>a, <2>1, <2>2, <3>1 DEF AsSeen, IsStaged, IsUnstaged
  <2>5. NodeTypes'
    BY <1>0, <2>1, <2>2, Zenon DEF NodeInv, NodeTypes, Staging
  <2>. QED
    BY <1>0, <2>3, <2>4, <2>5, Zenon DEF NodeInv
<1>3. ASSUME NEW p \in Places, WantUnstaged(p) PROVE NodeInv'
  <2>1. /\ want' \in [Places -> {"unstaged", "staging", "staged", "unstaging"}]
        /\ want[p] \in {"staging", "staged"} /\ want'[p] = "unstaging"
        /\ \A x \in Places \ {p} : want'[x] = want[x]
        /\ \A t \in Targets : publish[p][t] = "absent"
        /\ UNCHANGED <<staged, publish>>
    BY <1>3, Zenon DEF WantUnstaged, NodeInv, NodeTypes
  <2>2. ASSUME NEW q \in Requests, Active(q)' PROVE Attended(q)' /\ Established(q)'
    <3>1. OfPlace(q) => StageWanted(job[q].op, want'[job[q].place])
      BY <1>1, <2>1, <2>2, Zenon DEF Attended, StageWanted
    <3>2. ~OfPlace(q) =>
             PublishWanted(job[q].op, publish'[job[q].place][job[q].target])
      BY <1>1, <2>1, <2>2, Zenon DEF Attended
    <3>. QED
      BY <1>0, <1>1, <1>a, <2>1, <2>2, <3>1, <3>2, KeptHandler, Zenon
  <2>3. ASSUME NEW x \in Places PROVE AsSeen(x)'
    <3>1. AsSeen(x)
      BY Zenon DEF NodeInv
    <3>. QED
      BY <1>0, <1>a, <2>1, <3>1 DEF AsSeen, IsStaged, IsUnstaged
  <2>4. NodeTypes'
    BY <1>0, <2>1, Zenon DEF NodeInv, NodeTypes
  <2>. QED
    BY <1>0, <2>2, <2>3, <2>4, Zenon DEF NodeInv
<1>4. ASSUME NEW p \in Places, NEW t \in Targets,
             WantPublished(p, t) \/ WantUnpublished(p, t)
      PROVE  NodeInv'
  <2>. DEFINE y == IF WantPublished(p, t) THEN "publishing" ELSE "unpublishing"
  <2>1. /\ publish' = [publish EXCEPT ![p][t] = y]
        /\ want[p] = "staged" /\ UNCHANGED <<want, staged>>
    BY <1>4, Zenon DEF WantPublished, WantUnpublished, NodeInv, AsSeen
  <2>2. /\ publish' \in [Places -> [Targets ->
              {"absent", "publishing", "published", "unpublishing"}]]
        /\ \A x \in Places, z \in Targets :
              publish'[x][z] = IF x = p /\ z = t THEN y ELSE publish[x][z]
    BY <2>1, Zenon DEF NodeInv, NodeTypes
  <2>3. ASSUME NEW q \in Requests, Active(q)' PROVE Attended(q)' /\ Established(q)'
    <3>1. OfPlace(q) => StageWanted(job[q].op, want'[job[q].place])
      BY <1>1, <2>1, <2>3, Zenon DEF Attended
    <3>2. ~OfPlace(q) => PublishWanted(job[q].op, publish[job[q].place][job[q].target])
      BY <1>1, <2>3, Zenon DEF Attended
    <3>3. y = "publishing" => publish[p][t] = "absent"
      BY Zenon DEF WantPublished
    <3>4. ~OfPlace(q) =>
             PublishWanted(job[q].op, publish'[job[q].place][job[q].target])
      BY <1>1, <2>2, <2>3, <3>2, <3>3 DEF PublishWanted
    <3>. QED
      BY <1>0, <1>1, <1>a, <2>1, <2>3, <3>1, <3>4, KeptHandler, Zenon
  <2>4. ASSUME NEW x \in Places PROVE AsSeen(x)'
    <3>1. AsSeen(x)
      BY Zenon DEF NodeInv
    <3>. QED
      BY <1>0, <1>a, <2>1, <2>2, <3>1 DEF AsSeen, IsStaged, IsUnstaged
  <2>5. NodeTypes'
    BY <1>0, <2>1, <2>2, Zenon DEF NodeInv, NodeTypes
  <2>. QED
    BY <1>0, <2>3, <2>4, <2>5, Zenon DEF NodeInv
<1>. QED
  BY <1>2, <1>3, <1>4, Zenon DEF Agent

\* The volume is deleted, or a service restarted.
LEMMA OutsideSteps ==
    ASSUME NodeInv,
           (\E v \in Volumes : VolumeDeleted(v)) \/ (\E n \in Nodes : Restart(n))
    PROVE  NodeInv'
<1>0. UNCHANGED <<staged, bound, want, publish>>
  BY Zenon DEF VolumeDeleted, Restart, agent
<1>1. /\ csiDir' \in [Volumes -> BOOLEAN] /\ tracked' \in [Volumes -> SUBSET Nodes]
      /\ \A p \in Places : Listed(p) => Listed(p)'
  <2>1. CASE UNCHANGED <<csiDir, tracked>>
    BY <2>1, Zenon DEF NodeInv, NodeTypes, Listed
  <2>2. ASSUME NEW v \in Volumes, VolumeDeleted(v)
        PROVE  /\ csiDir' \in [Volumes -> BOOLEAN] /\ ~csiDir'[v]
               /\ tracked' \in [Volumes -> SUBSET Nodes]
               /\ \A w \in Volumes \ {v} :
                     csiDir'[w] = csiDir[w] /\ tracked'[w] = tracked[w]
    BY <2>2, Zenon DEF VolumeDeleted, NodeInv, NodeTypes
  <2>3. \A p \in Places : VolumeOf(p) \in Volumes
    BY Zenon DEF Places, VolumeOf
  <2>4. (\E v \in Volumes : VolumeDeleted(v)) \/ UNCHANGED <<csiDir, tracked>>
    BY Zenon DEF Restart, beegfs
  <2>. QED
    BY <2>1, <2>2, <2>3, <2>4, Zenon DEF Listed
<1>2. /\ job' \in [Requests -> Jobs \cup {Idle}]
      /\ \A q \in Requests : Active(q)' => Active(q) /\ job'[q] = job[q]
  BY DEF VolumeDeleted, Restart, NodeInv, NodeTypes, Active, Idle
<1>3. NodeTypes' /\ OnePerPath'
  <2>1. NodeTypes'
    BY <1>0, <1>1, <1>2, Zenon DEF NodeInv, NodeTypes
  <2>2. OnePerPath'
    BY <1>2, Zenon DEF NodeInv, OnePerPath
  <2>. QED
    BY <2>1, <2>2, Zenon
<1>4. ASSUME NEW q \in Requests, Active(q)' PROVE Attended(q)' /\ Established(q)'
  <2>1. /\ job'[q] = job[q] /\ Attended(q) /\ Established(q)
        /\ job[q].place \in Places
    BY <1>2, <1>4, ActiveJob, Zenon DEF Place
  <2>2. /\ OfPlace(q) => StageWanted(job[q].op, want'[job[q].place])
        /\ ~OfPlace(q) =>
              PublishWanted(job[q].op, publish'[job[q].place][job[q].target])
    BY <1>0, <2>1, Zenon DEF Attended
  <2>. QED
    BY <1>0, <1>1, <2>1, <2>2, KeptHandler, Zenon
<1>5. \A p \in Places : AsSeen(p)'
  BY <1>0, <1>1 DEF NodeInv, AsSeen, IsStaged, IsUnstaged
<1>. QED
  BY <1>3, <1>4, <1>5, Zenon DEF NodeInv
-----------------------------------------------------------------------------
LEMMA NodeInvStep ==
    ASSUME ~Overlap, NodeInv, [Next]_vars PROVE NodeInv'
<1>1. ASSUME NEW r \in Requests, NEW p \in Places,
             NodeStageVolume(r, p) \/ NodeUnstageVolume(r, p)
      PROVE  NodeInv'
  BY <1>1, NoTargetAssumption, BeginSteps, Zenon
     DEF NodeStageVolume, NodeUnstageVolume, Ops, Points
<1>2. ASSUME NEW r \in Requests, NEW p \in Places, NEW t \in Targets,
             NodePublishVolume(r, p, t) \/ NodeUnpublishVolume(r, p, t)
      PROVE  NodeInv'
  BY <1>2, NoTargetAssumption, BeginSteps
     DEF NodePublishVolume, NodeUnpublishVolume, Ops, Points
<1>3. ASSUME NEW r \in Requests, Step(r) PROVE NodeInv'
  <2>1. CASE StatDirectory(r)
    <3>1. At(r, "ctl") \/ At(r, "pubCtl")
      BY <2>1, Zenon DEF StatDirectory
    <3>. QED
      BY <2>1, <3>1, StageSteps, PublishSteps, Zenon
  <2>. QED
    BY <1>3, <2>1, StageSteps, TrackSteps, UnstageSteps, PublishSteps, AnswerSteps, Zenon
       DEF Step
<1>4. CASE UNCHANGED vars
  <2>1. NodeTypes' /\ OnePerPath'
    BY <1>4, Zenon DEF vars, NodeInv, NodeTypes, OnePerPath, Active
  <2>0. \A x \in Places : Listed(x)' = Listed(x)
    BY <1>4, Zenon DEF vars, Listed
  <2>2. ASSUME NEW q \in Requests, Active(q)' PROVE Attended(q)' /\ Established(q)'
    <3>1. Active(q)
      BY <1>4, <2>2, Zenon DEF vars, Active
    <3>2. Attended(q) /\ Established(q) /\ job[q].place \in Places
      BY <3>1, ActiveJob, Zenon DEF Place
    <3>3. /\ OfPlace(q) => StageWanted(job[q].op, want'[job[q].place])
          /\ ~OfPlace(q) =>
                PublishWanted(job[q].op, publish'[job[q].place][job[q].target])
      BY <1>4, <3>2, Zenon DEF Attended, vars
    <3>. QED
      BY <1>4, <2>0, <3>2, <3>3, KeptHandler, Zenon DEF vars
  <2>3. \A p \in Places : AsSeen(p)'
    BY <1>4, <2>0, Zenon DEF vars, NodeInv, AsSeen, IsStaged, IsUnstaged
  <2>. QED
    BY <2>1, <2>2, <2>3, Zenon DEF NodeInv
<1>. QED
  BY <1>1, <1>2, <1>3, <1>4, AgentSteps, OutsideSteps, Zenon DEF Next, Call

LEMMA NodeInvariant ==
    ASSUME ~Overlap PROVE Spec => []NodeInv
<1>1. Init => NodeInv
  <2>. SUFFICES ASSUME Init PROVE NodeInv
    OBVIOUS
  <2>1. NodeTypes
    BY NodeOptionsAssumption, Zenon DEF Init, NodeTypes, Idle
  <2>2. \A r \in Requests : ~Active(r)
    BY Zenon DEF Init, Active, Idle
  <2>3. \A p \in Places : AsSeen(p)
    BY Zenon DEF Init, AsSeen, IsUnstaged
  <2>. QED
    BY <2>1, <2>2, <2>3, Zenon DEF NodeInv, OnePerPath
<1>2. NodeInv /\ [Next]_vars => NodeInv'
  BY NodeInvStep, Zenon
<1>. QED
  BY <1>1, <1>2, PTL DEF Spec

\* While the agent has one call at a time per path, a target it knows as
\* published is bound to a live, configured BeeGFS, whatever calls of
\* NodePublishVolume, NodeStageVolume and their opposites failed, were repeated
\* or were cut off by a restart before.
THEOREM PublishedTargetsWork ==
    ASSUME ~Overlap PROVE Spec => []PublishedIsMounted
<1>1. NodeInv => PublishedIsMounted
  BY DEF NodeInv, AsSeen, IsStaged, PublishedIsMounted, Mounted
<1>. QED
  BY <1>1, NodeInvariant, PTL

\* Under the same assumption NodeUnstageVolume leaves nothing behind when its
\* success reaches the agent ...
THEOREM UnstageLeavesNothing ==
    ASSUME ~Overlap PROVE Spec => []UnstagedIsClean
<1>1. NodeInv => UnstagedIsClean
  BY DEF NodeInv, NodeTypes, AsSeen, IsUnstaged, UnstagedIsClean, Mounted
<1>. QED
  BY <1>1, NodeInvariant, PTL

\* ... cleanUpIfNecessary never runs over a live mount, which would empty the
\* file system ...
THEOREM CleanUpSparesTheFileSystem ==
    ASSUME ~Overlap PROVE Spec => []CleanUpOnlyUnmounted
<1>1. NodeInv => CleanUpOnlyUnmounted
  <2>. SUFFICES ASSUME NodeInv, NEW r \in Requests, At(r, "clean")
                PROVE  ~Mounted(Place(r))
    BY Zenon DEF CleanUpOnlyUnmounted
  <2>1. Established(r)
    BY ActiveJob, Zenon DEF At, Active
  <2>2. job[r].op = "unstage" /\ staged[Place(r)].mounts = 0
    BY <2>1, Zenon DEF At, Established, PointOfOp, OfPlace, StageHas, Place
  <2>. QED
    BY <2>2 DEF Mounted, Place
<1>. QED
  BY <1>1, NodeInvariant, PTL

\* ... NodeUnstageVolume unmounts only what no target is bound to, so that its
\* look at the list of mounts cannot be stale ...
THEOREM UnmountIsSafe ==
    ASSUME ~Overlap PROVE Spec => []UnmountOnlyUnbound
<1>1. NodeInv => UnmountOnlyUnbound
  <2>. SUFFICES ASSUME NodeInv, NEW r \in Requests, At(r, "unmount"),
                       NEW t \in Targets
                PROVE  bound[Place(r)][t] = 0
    BY Zenon DEF UnmountOnlyUnbound
  <2>1. Active(r) /\ job[r].op = "unstage" /\ Attended(r) /\ Place(r) \in Places
    BY ActiveJob, Zenon DEF At, Active, Established, PointOfOp
  <2>2. want[Place(r)] = "unstaging"
    BY <2>1, Zenon DEF Attended, OfPlace, StageWanted, Place
  <2>. QED
    BY <2>1, <2>2, Zenon DEF NodeInv, AsSeen
<1>. QED
  BY <1>1, NodeInvariant, PTL

\* ... and mountIfNecessary and NodePublishVolume never mount twice.
THEOREM MountsNeverStack ==
    ASSUME ~Overlap PROVE Spec => []NoStackedMounts
<1>1. NodeInv => NoStackedMounts
  <2>. SUFFICES ASSUME NodeInv, NEW p \in Places
                PROVE  staged[p].mounts <= 1 /\ \A t \in Targets : bound[p][t] <= 1
    BY Zenon DEF NoStackedMounts
  <2>1. staged[p].mounts \in {0, 1}
    BY Zenon DEF NodeInv, NodeTypes
  <2>2. \A t \in Targets : bound[p][t] \in {0, 1}
    BY DEF NodeInv, NodeTypes
  <2>. QED
    BY <2>1, <2>2
<1>. QED
  BY <1>1, NodeInvariant, PTL

\* If the calls that keep csiDir/nodes succeed, a staged node is listed there,
\* for DeleteVolume to wait for.
THEOREM StagedNodesAreListed ==
    ASSUME ~Overlap, "track" \notin Failing PROVE Spec => []StagedIsTracked
<1>1. NodeInv => StagedIsTracked
  BY Zenon DEF NodeInv, AsSeen, IsStaged, Listed, StagedIsTracked
<1>. QED
  BY <1>1, NodeInvariant, PTL
=============================================================================
