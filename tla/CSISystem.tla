----------------------------- MODULE CSISystem ------------------------------
(***************************************************************************)
(* The controller service and the node services on one BeeGFS: the         *)
(* handlers of module ControllerServer, with the handlers of module        *)
(* NodeServer in the place of its environment.  They share the volume's    *)
(* directory and the tracking directory csiDir/nodes, and nothing else:    *)
(* no lock, no message, no order of their calls but the orchestrator's.    *)
(*                                                                         *)
(* The orchestrator stages a volume only while it is in use, and may       *)
(* delete it while it is still published (docs/troubleshooting.md), but    *)
(* not while it is being staged.                                           *)
(***************************************************************************)
EXTENDS ControllerServer

CONSTANTS
    Targets, NoTarget,                        \* as in NodeServer
    NodeRequests, NodeFailing, MaxNodeFaults, MaxNodeRestarts

VARIABLES
    njob, staged, bound, want, publish, nfaults, nrestarts   \* as there

nodeVars == <<njob, staged, bound, want, publish, nfaults, nrestarts>>
controllerVars == <<locks, status, job, host, volDir, csiDir, phase, faults,
                    restarts>>
systemVars == <<controllerVars, tracked, nodeVars>>

\* A node sees whether the directories are there.
Node == INSTANCE NodeServer WITH
    Requests <- NodeRequests, Failing <- NodeFailing,
    MaxFaults <- MaxNodeFaults, MaxRestarts <- MaxNodeRestarts,
    Overlap <- FALSE, Tracking <- TRUE,
    job <- njob, faults <- nfaults, restarts <- nrestarts,
    volDir <- [v \in Volumes |-> "dir" \in volDir[v]],
    csiDir <- [v \in Volumes |-> csiDir[v] = "nodes"]

ASSUME NodeAssumption ==
    /\ NoTarget \notin Targets
    /\ NodeFailing \subseteq Node!Points
    /\ MaxNodeFaults \in Nat /\ MaxNodeRestarts \in Nat

SystemInit ==
    /\ Init
    /\ njob = [r \in NodeRequests |-> Node!Idle]
    /\ staged = [p \in Node!Places |-> [dir |-> FALSE, conf |-> FALSE, mounts |-> 0]]
    /\ bound = [p \in Node!Places |-> [t \in Targets |-> 0]]
    /\ want = [p \in Node!Places |-> "unstaged"]
    /\ publish = [p \in Node!Places |-> [t \in Targets |-> "absent"]]
    /\ nfaults = 0 /\ nrestarts = 0
-----------------------------------------------------------------------------
\* A handler of the controller service, or its restart.
ControllerStep ==
    /\ \/ \E r \in Requests : Arrive(r) \/ Step(r)
       \/ Restart
    /\ UNCHANGED nodeVars

\* No node is about to track itself.
Settled(v) ==
    /\ \A p \in Node!Places : Node!VolumeOf(p) = v => want[p] # "staging"
    /\ \A r \in NodeRequests :
          njob[r].pc # "idle" /\ Node!Volume(r) = v => njob[r].op # "stage"

Delete(v) ==
    /\ Settled(v)
    /\ WantDeleted(v)
    /\ UNCHANGED nodeVars

\* A handler of a node service, its restart, or what the node's agent decides.
NodeStep ==
    /\ UNCHANGED controllerVars
    /\ \/ \E r \in NodeRequests : Node!Call(r) \/ Node!Step(r)
       \/ \E n \in Nodes : Node!Restart(n)
       \/ \E p \in Node!Places :
             \/ phase[Node!VolumeOf(p)] = "use" /\ Node!WantStaged(p)
             \/ Node!WantUnstaged(p)
             \/ \E t \in Targets :
                   Node!WantPublished(p, t) \/ Node!WantUnpublished(p, t)

SystemNext == ControllerStep \/ (\E v \in Volumes : Delete(v)) \/ NodeStep

SystemSpec == SystemInit /\ [][SystemNext]_systemVars
-----------------------------------------------------------------------------
(***************************************************************************)
(* Properties.                                                             *)
(***************************************************************************)
\* The node services are an environment that ControllerServer allows for: they
\* track themselves only on volumes in use, and touch nothing else.  All that
\* is shown for ControllerServer holds in the composed system.
ImplementsControllerServer == Spec

\* What a pod sees: while the volume is in use, a published target is a bind
\* mount of a complete volume directory, below a BeeGFS that is still mounted.
PublishedIsUsable ==
    \A p \in Node!Places, t \in Targets :
        publish[p][t] = "published" /\ phase[Node!VolumeOf(p)] = "use" =>
            /\ bound[p][t] > 0 /\ Node!Mounted(p)
            /\ Ready(Node!VolumeOf(p))

\* NodeUnstageVolume never empties the file system: cleanUpIfNecessary of a
\* node only meets a staging directory whose BeeGFS is unmounted.  (NodeStep,
\* which leaves the controller's variables alone, rests on this.)
CleanUpSparesVolumes == Node!CleanUpOnlyUnmounted

\* A volume that is deleted too early is not pulled from under a pod at once:
\* while the tracking directory is there, no part of the volume is removed,
\* and while the volume is bind mounted on a node, the tracking directory is
\* removed only by a handler that has waited for the whole timeout.  It rests
\* on calls that keep the list not failing, and on no CreateVolume making the
\* directory anew after a status check that another request has outdated.
BoundSomewhere(v) ==
    \E p \in Node!Places, t \in Targets :
        Node!VolumeOf(p) = v /\ bound[p][t] > 0

DeletionWaitsForPods ==
    [][\A v \in Volumes :
          /\ csiDir[v] = "nodes" => volDir[v] \subseteq volDir'[v]
          /\ csiDir[v] = "nodes" /\ csiDir'[v] # "nodes" /\ BoundSomewhere(v)
                => WaitedFor(v)]_systemVars
=============================================================================
