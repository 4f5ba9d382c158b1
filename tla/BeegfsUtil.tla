----------------------------- MODULE BeegfsUtil -----------------------------
(***************************************************************************)
(* The directory a service keeps on its host for one volume (mountDirPath  *)
(* in pkg/beegfs/beegfs_util.go) and the helpers that change it.  Every    *)
(* helper is given as the set of outcomes it may have: the directory it    *)
(* leaves behind, and whether it returned an error.  The handlers of the   *)
(* controller service choose one outcome per call.                         *)
(***************************************************************************)

\* What is at mountPath: nothing, an empty directory, or a mounted BeeGFS.
MountStates == {"none", "point", "mounted"}

\* dir: mountDirPath exists.  conf: the client files are in it.
HostDirs == [dir : BOOLEAN, conf : BOOLEAN, mnt : MountStates]

Absent == [dir |-> FALSE, conf |-> FALSE, mnt |-> "none"]

Done(h) == [host |-> h, ok |-> TRUE]
Error(h) == [host |-> h, ok |-> FALSE]

MkdirAll(h) == {Done([h EXCEPT !.dir = TRUE]), Error(h)}

\* beegfs-client.conf is written last: an error leaves the old one, or a
\* truncated one that counts as none.
writeClientFiles(h) ==
    {Done([h EXCEPT !.conf = TRUE]), Error(h), Error([h EXCEPT !.conf = FALSE])}

\* A mounted file system is left alone.  An error may leave the mount point.
mountIfNecessary(h) ==
    IF h.mnt = "mounted"
    THEN {Done(h), Error(h)}
    ELSE {Error(h), Error([h EXCEPT !.mnt = "point"])} \cup
             (IF h.conf THEN {Done([h EXCEPT !.mnt = "mounted"])} ELSE {})

\* k8s.io/mount-utils: unmount if mounted, then remove the mount point.  An
\* error leaves the mount ("busy") or only the mount point.
CleanupMountPoint(h) ==
    {Done([h EXCEPT !.mnt = "none"]), Error(h)} \cup
        (IF h.mnt = "mounted" THEN {Error([h EXCEPT !.mnt = "point"])} ELSE {})

\* RemoveAll(mountDirPath).  Below a mounted file system it empties that file
\* system and all of mountDirPath, then fails on the busy mount point.
cleanUpIfNecessary(h) ==
    IF h.mnt = "mounted"
    THEN {Error([h EXCEPT !.conf = FALSE])}
    ELSE {Done(Absent), Error(h), Error([h EXCEPT !.conf = FALSE])}
=============================================================================
