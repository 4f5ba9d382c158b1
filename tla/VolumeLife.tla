----------------------------- MODULE VolumeLife -----------------------------
(***************************************************************************)
(* What CreateVolume and DeleteVolume promise the orchestrator about a     *)
(* volume, without handlers, locks, mounts, retries or failures: its data  *)
(* is built while creation is wanted, is left alone from the acknowledged  *)
(* creation until deletion is wanted, is removed only then, and does not   *)
(* come back.  The exception: once deletion is wanted, a request that was  *)
(* overtaken by it may still begin to work, and then nothing is promised.  *)
(* Module VolumeHistory shows that ControllerServer implements this.       *)
(***************************************************************************)
CONSTANT Volumes

VARIABLES
    want,   \* what the orchestrator wants: create, use, delete, gone
    data,   \* the volume's directory: none, part of what was asked, or all
    late    \* volumes on which an overtaken request has worked

lifeVars == <<want, data, late>>

Init ==
    /\ want = [v \in Volumes |-> "create"]
    /\ data = [v \in Volumes |-> "none"]
    /\ late = {}

Build(v) ==
    /\ want[v] = "create" /\ data[v] # "ready"
    /\ \E d \in {"part", "ready"} : data' = [data EXCEPT ![v] = d]
    /\ UNCHANGED <<want, late>>

\* The success of CreateVolume reaches the orchestrator.
Offer(v) ==
    /\ want[v] = "create" /\ data[v] = "ready"
    /\ want' = [want EXCEPT ![v] = "use"]
    /\ UNCHANGED <<data, late>>

Retire(v) ==
    /\ want[v] = "use"
    /\ want' = [want EXCEPT ![v] = "delete"]
    /\ UNCHANGED <<data, late>>

Remove(v) ==
    /\ want[v] = "delete" /\ data[v] # "none"
    /\ \E d \in {"none", "part"} : data' = [data EXCEPT ![v] = d]
    /\ UNCHANGED <<want, late>>

\* The success of DeleteVolume reaches the orchestrator.
Finish(v) ==
    /\ want[v] = "delete" /\ (data[v] = "none" \/ v \in late)
    /\ want' = [want EXCEPT ![v] = "gone"]
    /\ UNCHANGED <<data, late>>

\* An overtaken request begins to work; what it then does.
Overtake(v) ==
    /\ want[v] \in {"delete", "gone"}
    /\ late' = late \cup {v}
    /\ UNCHANGED <<want, data>>

Stray(v) ==
    /\ v \in late
    /\ \E d \in {"none", "part", "ready"} : data' = [data EXCEPT ![v] = d]
    /\ UNCHANGED <<want, late>>

Next ==
    \E v \in Volumes : \/ Build(v) \/ Offer(v) \/ Retire(v) \/ Remove(v)
                       \/ Finish(v) \/ Overtake(v) \/ Stray(v)

Spec == Init /\ [][Next]_lifeVars
=============================================================================
