----------------------------- MODULE BeegfsCtl ------------------------------
(***************************************************************************)
(* CreateVolume down to the commands it runs: the client files it writes   *)
(* (module ClientFiles), the BeeGFS 7 or 8 command line tool it chooses    *)
(* for every call (pkg/beegfs/beegfs_ctl.go), the directories those        *)
(* commands create one by one, and the permissions they end up with        *)
(* (module RequestParams).                                                 *)
(*                                                                         *)
(* Requests for different volumes meet only in the parents of their        *)
(* directories.  So the orchestrator asks for one of the volumes, and      *)
(* others, which may be such requests, make parents at any time.           *)
(*                                                                         *)
(* Ctrl is module ControllerServer with its view of BeeGFS computed from   *)
(* the directories: its steps are used for the calls that are not refined  *)
(* here, and its specification is what the refined calls must implement.   *)
(***************************************************************************)
EXTENDS Naturals, Sequences, FiniteSets, ClientFiles, RequestParams, BeegfsUtil

CONSTANTS
    Volumes, NoVolume, Requests, MountDir, NodeUnstageTimeout, Failing,
    SlowAnswers, MaxFaults, MaxRestarts,   \* as in ControllerServer
    Parameters,   \* [Volumes -> parameter maps]: those of CreateVolume
    Base,         \* [Volumes -> paths]: volDirBasePath as a sequence of names
    Name,         \* [Volumes -> names]
    Configs,      \* configurations of the driver for the file system
    Template      \* [{7, 8} -> the keys of the beegfs-client.conf it installs]

VARIABLES
    asked,      \* the volume that is asked for
    locks, status, job, host, phase, faults, restarts,  \* as there
    call,       \* per request: the step of the dispatcher, its executor, and
                \* the directories it still has to make
    entries,    \* BeeGFS: the permissions of every directory
    patterned,  \* BeeGFS: volumes whose directory has its stripe pattern
    mgmtd,      \* BeeGFS: its version
    config, template,
    disk        \* the client files in every mountDirPath

ctrlVars == <<locks, status, job, host, phase, faults, restarts>>
beegfsVars == <<entries, patterned>>
hostVars == <<asked, mgmtd, config, template>>
ctlVars == <<ctrlVars, call, beegfsVars, hostVars, disk>>

VolDir(v) == Append(Base[v], Name[v])
NodesDir(v) == Base[v] \o <<".csi", "volumes", Name[v], "nodes">>
Cfg(v) == PermissionsConfig(Parameters[v])
Valid == {v \in Volumes : validateReqParams(Parameters[v])}
Special == {v \in Volumes : hasSpecialPermissions(Cfg(v))}

\* The directories that are made for a path: its parents, most general first,
\* and the directory itself.
DirsToMake(path) == [i \in 1..Len(path) |-> SubSeq(path, 1, i)]
Parent(path) == SubSeq(path, 1, Len(path) - 1)

\* Distinct volumes have distinct directories, and none of the two that belong
\* to a volume is made for one that belongs to another.
ASSUME PathsAssumption ==
    /\ \A v \in Volumes : Base[v] \in Seq(STRING) /\ Name[v] \in STRING
    /\ \A v, w \in Volumes : v # w =>
          \A p \in {VolDir(v), NodesDir(v)}, q \in {VolDir(w), NodesDir(w)} :
              p \notin Range(DirsToMake(q))

\* The values of permissions that parse are numbers.
ASSUME ParametersAssumption ==
    \A v \in Volumes : \A k \in DOMAIN Parameters[v] :
        k[1] = Permissions => \/ Parameters[v][k] = Garbage
                              \/ Parameters[v][k] \in Seq(Nat)

\* Node tracking is enabled: without it there is one directory less to make.
ASSUME TrackingAssumption == NodeUnstageTimeout > 0

Exists(path) == path = <<>> \/ path \in DOMAIN entries

\* The directories when path has been made; one that exists is as it was.
Making(path, perms) ==
    [p \in DOMAIN entries \cup {path} |->
        IF p \in DOMAIN entries THEN entries[p] ELSE perms]

\* What ControllerServer sees of BeeGFS.
VolDirs ==
    [v \in Volumes |->
        {f \in {"dir"} : Exists(VolDir(v))}
        \cup {f \in {"pattern"} : v \in patterned}
        \cup {f \in {"mode"} : /\ v \in Special
                               /\ Exists(VolDir(v))
                               /\ entries[VolDir(v)].mode = Cfg(v).mode}]
CsiDirs == [v \in Volumes |-> IF Exists(NodesDir(v)) THEN "nodes" ELSE "absent"]

Ctrl == INSTANCE ControllerServer WITH
    Nodes <- {}, Handlers <- {"create"},
    volDir <- VolDirs, csiDir <- CsiDirs, tracked <- [v \in Volumes |-> {}]

\* Those of ControllerServer.
ASSUME CtrlAssumption ==
    /\ NoVolume \notin Volumes
    /\ \A v, w \in Volumes : MountDir[v] = MountDir[w] => v = w
    /\ NodeUnstageTimeout \in Nat /\ MaxFaults \in Nat /\ MaxRestarts \in Nat
    /\ Failing \subseteq Ctrl!Points
    /\ SlowAnswers \subseteq {"delivered", "lost"}

\* A call of the dispatcher begins by finding out the version.
NoCall == [step |-> "list8", ver |-> 0, todo |-> <<>>]

Init ==
    /\ asked \in Volumes
    /\ locks = {} /\ faults = 0 /\ restarts = 0
    /\ status = [v \in Volumes |-> "none"]
    /\ job = [r \in Requests |-> Ctrl!Idle]
    /\ host = [d \in Ctrl!Dirs |-> Absent]
    /\ phase = [v \in Volumes |-> "create"]
    /\ call = [r \in Requests |-> NoCall]
    /\ entries = <<>> /\ patterned = {}
    /\ \E ver \in {7, 8} : mgmtd = ver /\ template = Template[ver]
    /\ config \in Configs
    /\ disk = [d \in Ctrl!Dirs |-> EmptyDisk]
-----------------------------------------------------------------------------
(***************************************************************************)
(* The dispatcher.                                                         *)
(***************************************************************************)
At(r, point, step) == job[r].pc = point /\ call[r].step = step
InCall(r, step) ==
    job[r].pc \in {"createDir", "setPattern", "nodesDir"} /\ call[r].step = step

Vol(r) == job[r].vol
Dir(r) == MountDir[Vol(r)]

\* External: the tool of the servers' version is installed and works.  The
\* other one fails, installed or not.
Works(ver) == ver = mgmtd

\* Calls whose tool does not fit (any more), and that will fail.
Doomed == {r \in Requests : call[r].ver # 0 /\ ~Works(call[r].ver)}

\* MaxFaults bounds failures, those to come included, and restarts together.
Mishaps == faults + restarts + Cardinality(Doomed)
MayFail(r) == job[r].pc \in Failing /\ Mishaps < MaxFaults

\* The command for r works, and may still fail.
Runs(r) == Works(call[r].ver)
Breaks(r) == ~Runs(r) \/ MayFail(r)

Turn(r, step, ver) == call' = [call EXCEPT ![r].step = step, ![r].ver = ver]

\* The whole call returns.  CreateVolume only logs that it has no directory
\* for the nodes.
Succeed(r, point) ==
    Ctrl!Goto(r, point) /\ call' = [call EXCEPT ![r] = NoCall] /\ UNCHANGED faults
Fail(r) ==
    /\ Ctrl!CallFails(r)
    /\ IF job[r].pc = "nodesDir" THEN Ctrl!Goto(r, "created") ELSE Ctrl!Return(r)
    /\ call' = [call EXCEPT ![r] = NoCall]

\* Mutant of ListV8: the version found first is used for every later call.
ListV8Cached(r) ==
    /\ InCall(r, "list8")
    /\ \/ Turn(r, "run", IF template = Template[7] THEN 7 ELSE 8)
       \/ MayFail(r) /\ Turn(r, "list7", 7)
    /\ UNCHANGED <<ctrlVars, beegfsVars, hostVars, disk>>

\* detectCTLVersion: beegfs node list, and if that fails for any reason,
\* beegfs-ctl --listnodes.
ListV8(r) ==
    /\ InCall(r, "list8")
    /\ \/ Works(8) /\ Turn(r, "run", 8)
       \/ (~Works(8) \/ MayFail(r)) /\ Turn(r, "list7", 7)
    /\ UNCHANGED <<ctrlVars, beegfsVars, hostVars, disk>>

ListV7(r) ==
    /\ InCall(r, "list7")
    /\ \/ Works(7) /\ Turn(r, "run", 7) /\ UNCHANGED <<job, faults>>
       \/ Breaks(r) /\ Fail(r)
    /\ UNCHANGED <<locks, status, host, phase, restarts, beegfsVars, hostVars, disk>>
-----------------------------------------------------------------------------
(***************************************************************************)
(* createDirectoryForVolume, of either executor.                           *)
(***************************************************************************)
Target(r) == IF job[r].pc = "createDir" THEN VolDir(Vol(r)) ELSE NodesDir(Vol(r))
Asked(r) == IF job[r].pc = "createDir" THEN Cfg(Vol(r))
            ELSE [uid |-> 0, gid |-> 0, mode |-> 488]   \* 0750
AfterCreate(r) == IF job[r].pc = "createDir" THEN "setPattern" ELSE "created"

StatDirectory(r) ==
    /\ At(r, "createDir", "run") \/ At(r, "nodesDir", "run")
    /\ \/ /\ Runs(r) /\ Exists(Target(r))
          /\ Succeed(r, AfterCreate(r))
       \/ /\ Runs(r) /\ ~Exists(Target(r))
          /\ call' = [call EXCEPT ![r].step = "make",
                                  ![r].todo = DirsToMake(Target(r))]
          /\ UNCHANGED <<job, faults>>
       \/ Breaks(r) /\ Fail(r)
    /\ UNCHANGED <<locks, status, host, phase, restarts, beegfsVars, hostVars, disk>>

\* Mutant of LastDirectory: the loop ends at a directory that exists.
LastOrExisting(r) == Len(call[r].todo) = 1 \/ Exists(Head(call[r].todo))

LastDirectory(r) == Len(call[r].todo) = 1

\* One turn of the loop: "exists already" is no error, and leaves the directory
\* its permissions.
MakeDirectory(r) ==
    LET path == Head(call[r].todo)
        made == Making(path, CreateDirArgs(Asked(r)))
    IN  /\ InCall(r, "make")
        /\ \/ /\ Runs(r) /\ Exists(Parent(path))
              /\ entries' = made
              /\ \/ LastDirectory(r) /\ Succeed(r, AfterCreate(r))
                 \/ /\ ~LastDirectory(r)
                    /\ call' = [call EXCEPT ![r].todo = Tail(@)]
                    /\ UNCHANGED <<job, faults>>
           \/ /\ Breaks(r) /\ Fail(r)
              /\ entries' \in {entries} \cup (IF Runs(r) THEN {made} ELSE {})
        /\ UNCHANGED <<locks, status, host, phase, restarts, patterned, hostVars,
                       disk>>
-----------------------------------------------------------------------------
AfterPattern(r) == IF Vol(r) \in Special THEN "mount" ELSE "nodesDir"

\* setPatternForVolume: nothing is run when there is nothing to set.
SetPattern(r) ==
    /\ At(r, "setPattern", "run")
    /\ \/ /\ Runs(r) \/ ~NeedToExecute(Parameters[Vol(r)])
          /\ patterned' = patterned \cup {Vol(r)}
          /\ Succeed(r, AfterPattern(r))
       \/ /\ NeedToExecute(Parameters[Vol(r)])
          /\ Breaks(r) /\ Fail(r)
          /\ patterned' \in {patterned} \cup
                            (IF Runs(r) THEN {patterned \cup {Vol(r)}} ELSE {})
    /\ UNCHANGED <<locks, status, host, phase, restarts, entries, hostVars, disk>>

\* os.Chmod through the mount.
Chmod(r) ==
    LET path == VolDir(Vol(r))
        set == [entries EXCEPT ![path].mode = UnixMode(goFileMode(Cfg(Vol(r)).mode))]
    IN  /\ job[r].pc = "chmod"
        /\ \/ entries' = set /\ Succeed(r, "nodesDir")
           \/ MayFail(r) /\ entries' \in {entries, set} /\ Fail(r)
        /\ UNCHANGED <<locks, status, host, phase, restarts, patterned, hostVars,
                       disk>>

-----------------------------------------------------------------------------
(***************************************************************************)
(* mountDirPath.                                                           *)
(***************************************************************************)
WriteClientFiles(r) ==
    /\ job[r].pc = "write"
    /\ \E o \in Outcomes(disk[Dir(r)], template, config) :
          /\ disk' = [disk EXCEPT ![Dir(r)] = o.disk]
          /\ host' = [host EXCEPT ![Dir(r)].conf = o.disk.conf # NoConf]
          /\ \/ o.ok /\ Succeed(r, "createDir")
             \/ ~o.ok /\ MayFail(r) /\ Fail(r)
    /\ UNCHANGED <<locks, status, phase, restarts, beegfsVars, hostVars>>

\* What cleanUpIfNecessary has left of the files.
RemoveMountDir(r) ==
    /\ UNCHANGED <<call, beegfsVars, hostVars>>
    /\ Ctrl!RemoveMountDir(r)
    /\ Mishaps' <= MaxFaults
    /\ LET d == Dir(r)
       IN  \E rest \in SUBSET DOMAIN disk[d].files :
              /\ host'[d] = Absent => rest = {}
              /\ disk' = [disk EXCEPT ![d] =
                            [conf |-> IF host'[d].conf THEN @.conf ELSE NoConf,
                             files |-> Restrict(@.files, rest)]]

\* Steps that are the same here and in ControllerServer.
Unrefined(r) ==
    /\ UNCHANGED <<call, beegfsVars, hostVars, disk>>
    /\ \/ asked \in Valid /\ Ctrl!CreateVolume(r, asked)
       \/ Ctrl!ObtainLock(r) \/ Ctrl!MakeMountDir(r) \/ Ctrl!Mount(r)
       \/ Ctrl!WriteStatusCreated(r)
       \/ Ctrl!ListMounts(r) \/ Ctrl!Unmount(r) \/ Ctrl!ReleaseLock(r)
    /\ Mishaps' <= MaxFaults

\* The driver is restarted, maybe with another configuration.
Restart ==
    /\ UNCHANGED <<asked, beegfsVars, mgmtd, template, disk>>
    /\ Ctrl!Restart
    /\ call' = [r \in Requests |-> NoCall]
    /\ config' \in Configs
    /\ faults + restarts < MaxFaults

\* The administrator upgrades BeeGFS.
Upgrade ==
    /\ mgmtd = 7
    /\ mgmtd' = 8
    /\ UNCHANGED <<ctrlVars, call, beegfsVars, asked, config, template, disk>>
    /\ Mishaps' <= MaxFaults

\* Somebody else makes a directory above those of the volume.
Others(path) ==
    /\ path # VolDir(asked) /\ ~Exists(path) /\ Exists(Parent(path))
    /\ entries' = Making(path, [uid |-> 1, gid |-> 1, mode |-> 448])
    /\ UNCHANGED <<ctrlVars, call, patterned, hostVars, disk>>
-----------------------------------------------------------------------------
Step(r) ==
    \/ ListV8(r) \/ ListV7(r)
    \/ StatDirectory(r) \/ MakeDirectory(r) \/ SetPattern(r) \/ Chmod(r)
    \/ WriteClientFiles(r) \/ RemoveMountDir(r) \/ Unrefined(r)

Next ==
    \/ \E r \in Requests : Step(r)
    \/ Restart \/ Upgrade
    \/ \E i \in 1..Len(Base[asked]) + 2 : Others(SubSeq(NodesDir(asked), 1, i))

Spec == Init /\ [][Next]_ctlVars

\* Commands return, and the orchestrator retries.
FairSpec ==
    /\ Spec
    /\ \A r \in Requests : WF_ctlVars(Step(r))
-----------------------------------------------------------------------------
(***************************************************************************)
(* Properties.                                                             *)
(***************************************************************************)
\* The commands amount to the calls of ControllerServer: each call succeeds
\* with its effect or fails with or without it, and none fails because
\* another request made a directory first.
ImplementsController == Ctrl!Spec

\* An acknowledged volume has the owner, group and all twelve bits of the mode
\* that its parameters ask for, whoever made its parents, whatever failed, and
\* although an existing directory is never given permissions again.
PermissionsAsRequested ==
    \A v \in Volumes : phase[v] = "use" => entries[VolDir(v)] = Cfg(v)

\* When a handler runs a command or mounts, mountDirPath holds what the
\* configuration says: the files that beegfs-client.conf or the flags of the
\* command name, and every option, whatever order the map came up in and
\* whatever an earlier attempt, maybe with another configuration, has left.
CommandsFindTheirFiles ==
    \A r \in Requests :
        job[r].pc \in {"createDir", "setPattern", "mount", "nodesDir"} =>
            AsConfigured(disk[Dir(r)], template, config)

\* "so these can be later upgraded without requiring a driver restart": with a
\* configuration that fits the template, the volume is created in the end,
\* whether or not BeeGFS is upgraded meanwhile.
Writable == \E o \in Outcomes(EmptyDisk, template, config) : o.ok
CreatesAcrossUpgrades ==
    asked \in Valid /\ []Writable ~> phase[asked] = "use"
=============================================================================
