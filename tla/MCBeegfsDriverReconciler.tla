---------------------- MODULE MCBeegfsDriverReconciler ----------------------
(***************************************************************************)
(* Small instances of BeegfsDriverReconciler for TLC: a versioned input, an *)
(* object that is not watched and a workload.                              *)
(***************************************************************************)
EXTENDS BeegfsDriverReconciler

MCConfigured == <<"configMap", "clusterRole", "statefulSet">>
MCSecured == <<"connauth", "role", "statefulSet">>

\* An edit changes every field, sets some and empties others.
MCFirst == [config |-> "c1", image |-> "i1", level |-> Unset,
            affinity |-> "a1", limit |-> Unset]
MCSecond == [config |-> "c2", image |-> Unset, level |-> "l2",
             affinity |-> Unset, limit |-> "m2"]
MCSpecs == {MCFirst, MCSecond}
MCInitial == {MCFirst}
=============================================================================
