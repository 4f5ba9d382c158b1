--------------------------- MODULE VolumeHistory ----------------------------
(***************************************************************************)
(* ControllerServer with a history of the requests that were overtaken.    *)
(*                                                                         *)
(* CreateVolume and DeleteVolume read the status map before they take the  *)
(* lock and do not read it again.  A CreateVolume that is delayed in       *)
(* between until deletion is wanted builds the volume again; a             *)
(* DeleteVolume that is delayed until the deletion is recorded mounts      *)
(* BeeGFS again.  The volumes to which this has happened are recorded, so  *)
(* that what is promised of all others can be stated.                      *)
(***************************************************************************)
EXTENDS ControllerServer

VARIABLE late   \* volumes whose lock was taken by a request that came too late

historyVars == <<vars, late>>

TakesLock(r) == At(r, "obtain") /\ At(r, "mkdir")'

Overtaken(r) ==
    LET v == job[r].vol
    IN  \/ job[r].op = "create" /\ phase[v] \in {"delete", "gone"}
        \/ job[r].op = "delete" /\ (status[v] = "deleted" \/ phase[v] = "gone")

Record ==
    late' = late \cup {job[r].vol : r \in {q \in Requests :
                                              TakesLock(q) /\ Overtaken(q)}}

HistoryInit == Init /\ late = {}
HistoryNext == Next /\ Record
HistorySpec == HistoryInit /\ [][HistoryNext]_historyVars
HistoryFairSpec == HistorySpec /\ Fairness
-----------------------------------------------------------------------------
(***************************************************************************)
(* Properties.                                                             *)
(***************************************************************************)
\* Once the orchestrator has seen DeleteVolume succeed, the volume has no
\* directory and no list of nodes in BeeGFS, and no mount and no files on the
\* controller, whatever failed before.  The volumes of overtaken requests are
\* left out: a CreateVolume that passed its status check and took the lock only
\* when deletion was wanted, a DeleteVolume that took it only when the deletion
\* was recorded.  A directory .csi/volumes/<name> without nodes may remain:
\* deleteVolumeUntilWait leaves one that CreateVolume made in part.
DeletedVolumesAreGone ==
    \A v \in Volumes \ late :
        phase[v] = "gone" =>
            /\ volDir[v] = {}
            /\ csiDir[v] # "nodes"
            /\ host[MountDir[v]] = Absent

\* How far the volume's directory has come.
DataOf(v) ==
    IF Ready(v) THEN "ready" ELSE IF volDir[v] = {} THEN "none" ELSE "part"

Life == INSTANCE VolumeLife
            WITH want <- phase, data <- [v \in Volumes |-> DataOf(v)]

\* The controller service keeps the promise of module VolumeLife: whatever
\* fails, is repeated or is cut short, a volume's directory is offered when
\* complete, untouched while in use, removed only when deletion is wanted and,
\* unless an overtaken request takes the lock, does not come back.
ImplementsVolumeLife == Life!Spec
=============================================================================
