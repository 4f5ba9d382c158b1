---------------------------- MODULE MCCSISystem -----------------------------
(***************************************************************************)
(* A small instance of CSISystem for TLC.                                  *)
(***************************************************************************)
EXTENDS CSISystem, TLC

MCAnyDir == [v \in Volumes |-> v]

\* The calls that the waiting of DeleteVolume rests on, and some others.
MCFailing == {"setPattern", "nodesDir", "unmount", "removeVol"}

\* A node service only logs that it could not track itself.
MCNodeFailing == {"mount", "unmount", "bind", "unbind", "untrack", "answer"}

MCSymmetry == Permutations(NodeRequests) \cup Permutations(Nodes)
=============================================================================
