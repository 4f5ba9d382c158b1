------------------------- MODULE MCControllerServer -------------------------
(***************************************************************************)
(* Small instances of ControllerServer for TLC.                            *)
(***************************************************************************)
EXTENDS ControllerServer, SanitizeVolumeID, TLC

\* A volume in the directory a_b/c of a file system.
MCVolume == <<"x", "/", "x", "_", "x", "/", "x">>
MCOneVolume == {MCVolume}

MCMountDir == [v \in Volumes |-> sanitizeVolumeID(v)]

\* The names fit, whatever the ID.
ASSUME NamesFit

\* The lock on a volume ID protects its directory: no other ID has the same
\* name, unless a component of its path begins or ends with an underscore
\* (x/_x and x_/x share theirs).
LockedDirIsOwn ==
    \A v \in locks :
        LET dir == MountDir[v]
        IN  \A n \in Names : n[2] = dir => n[1] = v

\* Every call can fail.
MCAllPoints == Points

\* Request slots and nodes are interchangeable.
MCSymmetry == Permutations(Requests) \cup Permutations(Nodes)
=============================================================================
