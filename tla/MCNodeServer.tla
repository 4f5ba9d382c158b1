---------------------------- MODULE MCNodeServer ----------------------------
(***************************************************************************)
(* Instances of NodeServer for TLC.                                        *)
(***************************************************************************)
EXTENDS NodeServer, TLC

MCAllPoints == Points
\* Every call may fail but the best-effort ones on the tracking file.
MCNotTracking == Points \ {"track", "untrack"}
MCNothing == {}

MCSymmetry == Permutations(Nodes) \cup Permutations(Targets)
                  \cup Permutations(Requests)
=============================================================================
