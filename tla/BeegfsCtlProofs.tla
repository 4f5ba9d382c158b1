-------------------------- MODULE BeegfsCtlProofs ---------------------------
(***************************************************************************)
(* Theorems about CreateVolume and the commands it runs, for any volumes,  *)
(* paths, parameters and configurations, and for any number of concurrent  *)
(* requests, failures and restarts.                                        *)
(***************************************************************************)
EXTENDS BeegfsCtl, TLAPS

(***************************************************************************)
(* Modes.                                                                  *)
(***************************************************************************)
\* The bits of a mode survive the way through os.FileMode and back.
LEMMA ModeSurvives ==
    ASSUME NEW mode \in Nat, mode < 4096
    PROVE  UnixMode(goFileMode(mode)) = mode
<1>. DEFINE low == mode % 512
            b0 == (mode \div 512) % 2
            b1 == (mode \div 1024) % 2
            b2 == (mode \div 2048) % 2
            go == low + b0 * 1048576 + b1 * 4194304 + b2 * 8388608
<1>1. /\ low \in Nat /\ low < 512
      /\ b0 \in Nat /\ b0 < 2 /\ b1 \in Nat /\ b1 < 2 /\ b2 \in Nat /\ b2 < 2
  OBVIOUS
<1>2. mode = low + 512 * b0 + 1024 * b1 + 2048 * b2
  OBVIOUS
<1>3. ModeSticky = 1048576 /\ ModeSetgid = 4194304 /\ ModeSetuid = 8388608
  BY DEF ModeSticky, ModeSetgid, ModeSetuid
<1>4. goFileMode(mode) = go
  BY <1>3 DEF goFileMode, Bit
<1>. HIDE DEF low, b0, b1, b2
<1>5. /\ go % 512 = low /\ (go \div 1048576) % 2 = b0
      /\ (go \div 4194304) % 2 = b1 /\ (go \div 8388608) % 2 = b2
  BY <1>1
<1>6. UnixMode(go) = low + b0 * 512 + b1 * 1024 + b2 * 2048
  BY <1>3, <1>5 DEF UnixMode, Bit
<1>. QED
  BY <1>1, <1>2, <1>4, <1>6

\* Parameters that pass validateReqParams ask for a mode of twelve bits.
LEMMA ValidModes ==
    ASSUME NEW v \in Valid
    PROVE  /\ v \in Volumes
           /\ Cfg(v).mode \in Nat /\ Cfg(v).mode < 4096
<1>1. v \in Volumes /\ validateReqParams(Parameters[v])
  BY Zenon DEF Valid
<1>. DEFINE k == <<Permissions, "mode">>
            value == Parameters[v][k]
<1>2. Cfg(v).mode = IF k \in DOMAIN Parameters[v] THEN value[1] ELSE 511
  BY Zenon DEF Cfg, PermissionsConfig, Given, DefaultMode
<1>3. ASSUME k \in DOMAIN Parameters[v]
      PROVE  value[1] \in Nat /\ value[1] < 4096
  <2>1. k[1] = Permissions /\ k[2] = "mode" /\ k \notin {Host, BasePath}
        /\ Permissions # Pattern
    BY Zenon DEF Permissions, Pattern, Host, BasePath
  <2>2. Len(value) = 1 /\ value[1] <= 2^12 - 1
    BY <1>1, <1>3, <2>1, Zenon
       DEF validateReqParams, PermissionsAccept, Parses, ModeBits
  <2>3. value \in Seq(Nat)
    BY <1>1, <1>3, <2>1, <2>2, ParametersAssumption DEF Garbage
  <2>4. 2^12 - 1 = 4095
    OBVIOUS
  <2>. QED
    BY <2>2, <2>3, <2>4
<1>. QED
  BY <1>1, <1>2, <1>3

(***************************************************************************)
(* Paths.                                                                  *)
(***************************************************************************)
\* (That these three are strings is not known to the provers.)
Names == STRING \cup {".csi", "volumes", "nodes"}

LEMMA OwnPaths ==
    ASSUME NEW v \in Volumes
    PROVE  /\ VolDir(v) \in Seq(Names) /\ NodesDir(v) \in Seq(Names)
           /\ Len(Base[v]) \in Nat
           /\ Len(VolDir(v)) = Len(Base[v]) + 1
           /\ Len(NodesDir(v)) = Len(Base[v]) + 4
<1>1. Base[v] \in Seq(STRING) /\ Name[v] \in Names
  BY PathsAssumption, Zenon DEF Names
<1>2. Base[v] \in Seq(Names)
  BY <1>1 DEF Names
<1>3. <<".csi", "volumes", Name[v], "nodes">> \in Seq(Names)
  BY <1>1 DEF Names
<1>. QED
  BY <1>1, <1>2, <1>3 DEF VolDir, NodesDir

\* A parent of a directory is shorter, and not a directory of another volume.
LEMMA Parents ==
    ASSUME NEW p \in Seq(Names), NEW i \in 1..Len(p)
    PROVE  /\ SubSeq(p, 1, i) \in Seq(Names) /\ Len(SubSeq(p, 1, i)) = i
           /\ SubSeq(p, 1, Len(p)) = p /\ SubSeq(p, 1, i) # <<>>
OBVIOUS

LEMMA Apart ==
    ASSUME NEW v \in Volumes, NEW w \in Volumes \ {v},
           NEW p \in {VolDir(v), NodesDir(v)}, NEW i \in 1..Len(p)
    PROVE  SubSeq(p, 1, i) \notin {VolDir(w), NodesDir(w)}
<1>1. SubSeq(p, 1, i) \in Range(DirsToMake(p))
  BY Zenon DEF Range, DirsToMake
<1>. QED
  BY <1>1, PathsAssumption, Zenon

(***************************************************************************)
(* Permissions, as requested and as beegfs-ctl and os.Chmod leave them.    *)
(***************************************************************************)
Chmodded(e, v) == [e EXCEPT !.mode = UnixMode(goFileMode(Cfg(v).mode))]

LEMMA PermissionsReached ==
    ASSUME NEW v \in Valid, NEW e \in {Cfg(v), CreateDirArgs(Cfg(v))}
    PROVE  /\ Chmodded(e, v) = Cfg(v)
           /\ v \notin Special => e = Cfg(v)
           /\ v \in Special => CreateDirArgs(Cfg(v)).mode # Cfg(v).mode
<1>. DEFINE u == Given(Parameters[v], "uid", 0)
            g == Given(Parameters[v], "gid", 0)
            m == Given(Parameters[v], "mode", DefaultMode)
<1>1. Cfg(v) = [uid |-> u, gid |-> g, mode |-> m]
  BY Zenon DEF Cfg, PermissionsConfig
<1>. HIDE DEF u, g, m
<1>2. m \in Nat /\ m < 4096 /\ v \in Volumes
  BY <1>1, ValidModes
<1>3. CreateDirArgs(Cfg(v)) = [uid |-> u, gid |-> g, mode |-> m % 512]
  BY <1>1 DEF CreateDirArgs
<1>4. UnixMode(goFileMode(m)) = m
  BY <1>2, ModeSurvives
<1>5. v \in Special <=> m > 511
  BY <1>1, <1>2 DEF Special, hasSpecialPermissions
<1>6. (m <= 511 => m % 512 = m) /\ (m > 511 => m % 512 # m)
  BY <1>2
<1>7. Chmodded(e, v) = Cfg(v)
  BY <1>1, <1>3, <1>4 DEF Chmodded
<1>. QED
  BY <1>1, <1>2, <1>3, <1>5, <1>6, <1>7

(***************************************************************************)
(* The invariant.  All of it is about the volume that is asked for, and it *)
(* does not mention the locks: requests for the volume may overlap.        *)
(***************************************************************************)
\* A call in createDirectoryForVolume has the last few directories to make.
Pending(r) ==
    LET todo == call[r].todo
        n == Len(Target(r)) - Len(todo)
    IN  /\ Len(todo) \in 1..Len(Target(r))
        /\ \A j \in 1..Len(todo) : todo[j] = SubSeq(Target(r), 1, n + j)

Calls == {"createDir", "setPattern", "nodesDir"}
Steps == {"list8", "list7", "run", "make"}
Callings == [step : Steps, ver : {0, 7, 8}, todo : Seq(Seq(Names))]

CallsFit ==
    /\ call \in [Requests -> Callings]
    /\ \A r \in Requests :
          /\ job[r].pc \notin Calls => call[r] = NoCall
          /\ call[r].step = "make" => job[r].pc # "setPattern" /\ Pending(r)

OnlyAsked ==
    /\ asked \in Volumes
    /\ \A r \in Requests :
          job[r].pc # "idle" =>
              job[r].vol = asked /\ job[r].op = "create" /\ asked \in Valid
    /\ \A v \in Volumes \ {asked} : phase[v] = "create"

\* The volume's directory is made, and has its permissions, as far as a handler
\* has come; what has been acknowledged or may be is complete.
HasDir == VolDir(asked) \in DOMAIN entries
Complete == HasDir /\ entries[VolDir(asked)] = Cfg(asked)

Reached(r) ==
    /\ job[r].pc \in {"setPattern", "mount", "chmod"} => HasDir
    /\ job[r].pc \in {"mount", "chmod"} => asked \in Special
    /\ job[r].pc \in {"nodesDir", "created"} => Complete
    /\ job[r].pc \in {"list", "unmount", "remove", "release"} /\ job[r].ok => Complete

Permitted ==
    /\ HasDir => entries[VolDir(asked)] \in {Cfg(asked), CreateDirArgs(Cfg(asked))}
    /\ \A r \in Requests : Reached(r)
    /\ status[asked] = "created" \/ phase[asked] = "use" => Complete

\* There is a beegfs-client.conf where ControllerServer says there is one.
DiskFits ==
    /\ DOMAIN disk = Ctrl!Dirs
    /\ \A d \in Ctrl!Dirs :
          /\ disk[d] = [conf |-> disk[d].conf, files |-> disk[d].files]
          /\ host[d].conf <=> disk[d].conf # NoConf

CtlInv == Ctrl!TypeOK /\ CallsFit /\ OnlyAsked /\ Permitted /\ DiskFits

(***************************************************************************)
(* What ControllerServer sees of the directories.                          *)
(***************************************************************************)
LEMMA Seen ==
    ASSUME NEW v \in Volumes
    PROVE  /\ VolDirs[v] \subseteq {"dir", "pattern", "mode"}
           /\ "dir" \in VolDirs[v] <=> VolDir(v) \in DOMAIN entries
           /\ "pattern" \in VolDirs[v] <=> v \in patterned
           /\ "mode" \in VolDirs[v] <=>
                 /\ v \in Special /\ VolDir(v) \in DOMAIN entries
                 /\ entries[VolDir(v)].mode = Cfg(v).mode
           /\ CsiDirs[v] = IF NodesDir(v) \in DOMAIN entries THEN "nodes" ELSE "absent"
<1>1. VolDir(v) # <<>> /\ NodesDir(v) # <<>>
  BY OwnPaths
<1>. QED
  BY <1>1, Zenon DEF VolDirs, CsiDirs, Exists

LEMMA SeenNext ==
    ASSUME NEW v \in Volumes
    PROVE  /\ VolDirs'[v] \subseteq {"dir", "pattern", "mode"}
           /\ "dir" \in VolDirs'[v] <=> VolDir(v) \in DOMAIN entries'
           /\ "pattern" \in VolDirs'[v] <=> v \in patterned'
           /\ "mode" \in VolDirs'[v] <=>
                 /\ v \in Special /\ VolDir(v) \in DOMAIN entries'
                 /\ entries'[VolDir(v)].mode = Cfg(v).mode
           /\ CsiDirs'[v] = IF NodesDir(v) \in DOMAIN entries' THEN "nodes" ELSE "absent"
<1>1. VolDir(v) # <<>> /\ NodesDir(v) # <<>>
  BY OwnPaths
<1>. QED
  BY <1>1, Zenon DEF VolDirs, CsiDirs, Exists

LEMMA SameFeatures ==
    ASSUME NEW v \in Volumes, NEW F \in SUBSET {"dir", "pattern", "mode"},
           "dir" \in VolDirs'[v] <=> "dir" \in VolDirs[v] \cup F,
           "pattern" \in VolDirs'[v] <=> "pattern" \in VolDirs[v] \cup F,
           "mode" \in VolDirs'[v] <=> "mode" \in VolDirs[v] \cup F
    PROVE  VolDirs'[v] = VolDirs[v] \cup F
<1>1. /\ VolDirs[v] \subseteq {"dir", "pattern", "mode"}
      /\ VolDirs'[v] \subseteq {"dir", "pattern", "mode"}
  BY Seen, SeenNext, Zenon
<1>. QED
  BY <1>1, Zenon

\* The directory of volume v gains the features in F.
Gains(v, F) == VolDirs' = [VolDirs EXCEPT ![v] = @ \cup F]

LEMMA NoGain == ASSUME NEW v \in Volumes, VolDirs' = VolDirs PROVE Gains(v, {})
BY Zenon DEF Gains, VolDirs

\* Steps that change neither the directories of the volumes nor their patterns.
LEMMA SeenAlike ==
    ASSUME UNCHANGED patterned,
           \A v \in Volumes : \A p \in {VolDir(v), NodesDir(v)} :
               p \in DOMAIN entries' <=> p \in DOMAIN entries,
           \A v \in Volumes : VolDir(v) \in DOMAIN entries =>
               entries'[VolDir(v)] = entries[VolDir(v)]
    PROVE  VolDirs' = VolDirs /\ CsiDirs' = CsiDirs
<1>1. \A v \in Volumes : VolDir(v) # <<>> /\ NodesDir(v) # <<>>
  BY OwnPaths
<1>2. \A v \in Volumes : /\ Exists(VolDir(v))' <=> Exists(VolDir(v))
                         /\ Exists(NodesDir(v))' <=> Exists(NodesDir(v))
  BY <1>1, Zenon DEF Exists
<1>3. \A v \in Volumes : Exists(VolDir(v)) => entries'[VolDir(v)] = entries[VolDir(v)]
  BY <1>1, Zenon DEF Exists
<1>4. \A v \in Volumes : VolDirs'[v] = VolDirs[v]
  <2>. TAKE v \in Volumes
  <2>1. VolDirs[v] = {f \in {"dir"} : Exists(VolDir(v))}
                     \cup {f \in {"pattern"} : v \in patterned}
                     \cup {f \in {"mode"} : /\ v \in Special
                                            /\ Exists(VolDir(v))
                                            /\ entries[VolDir(v)].mode = Cfg(v).mode}
    BY Zenon DEF VolDirs
  <2>2. VolDirs'[v] = {f \in {"dir"} : Exists(VolDir(v))'}
                     \cup {f \in {"pattern"} : v \in patterned'}
                     \cup {f \in {"mode"} : /\ v \in Special
                                            /\ Exists(VolDir(v))'
                                            /\ entries'[VolDir(v)].mode = Cfg(v).mode}
    BY Zenon DEF VolDirs
  <2>. QED
    BY <1>2, <1>3, <2>1, <2>2, Zenon
<1>5. CsiDirs' = CsiDirs
  BY <1>2, Zenon DEF CsiDirs
<1>. QED
  BY <1>4, <1>5, Zenon DEF VolDirs

\* A directory above one of the volume's own.
LEMMA MakesParent ==
    ASSUME asked \in Volumes, UNCHANGED patterned, UNCHANGED asked,
           NEW p \in {VolDir(asked), NodesDir(asked)}, NEW i \in 1..Len(p), NEW perms,
           SubSeq(p, 1, i) # VolDir(asked) \/ HasDir,
           SubSeq(p, 1, i) # NodesDir(asked),
           entries' = Making(SubSeq(p, 1, i), perms)
    PROVE  /\ VolDirs' = VolDirs /\ CsiDirs' = CsiDirs
           /\ HasDir' <=> HasDir
           /\ HasDir => entries'[VolDir(asked)] = entries[VolDir(asked)]
<1>. DEFINE path == SubSeq(p, 1, i)
<1>1. \A v \in Volumes : v # asked => path \notin {VolDir(v), NodesDir(v)}
  BY Apart, Zenon
<1>. HIDE DEF path
<1>2. /\ DOMAIN entries' = DOMAIN entries \cup {path}
      /\ \A q \in DOMAIN entries : entries'[q] = entries[q]
  BY Zenon DEF path, Making
<1>3. path # VolDir(asked) \/ HasDir
  BY Zenon DEF path
<1>4. path # NodesDir(asked)
  BY Zenon DEF path
<1>5. \A v \in Volumes : \A q \in {VolDir(v), NodesDir(v)} :
         q \in DOMAIN entries' <=> q \in DOMAIN entries
  BY <1>1, <1>2, <1>3, <1>4, Zenon DEF HasDir
<1>6. VolDirs' = VolDirs /\ CsiDirs' = CsiDirs
  BY <1>2, <1>5, SeenAlike, Zenon
<1>7. HasDir' <=> HasDir
  BY <1>5, Zenon DEF HasDir
<1>. QED
  BY <1>2, <1>6, <1>7, Zenon DEF HasDir

\* The volume's directory, by beegfs-ctl.
LEMMA MakesVolume ==
    ASSUME asked \in Valid, UNCHANGED patterned, UNCHANGED asked,
           entries' = Making(VolDir(asked), CreateDirArgs(Cfg(asked)))
    PROVE  /\ Gains(asked, {"dir"}) /\ CsiDirs' = CsiDirs
           /\ HasDir'
           /\ HasDir => entries'[VolDir(asked)] = entries[VolDir(asked)]
           /\ ~HasDir => entries'[VolDir(asked)] = CreateDirArgs(Cfg(asked))
<1>0. asked \in Volumes
  BY ValidModes
<1>1. /\ DOMAIN entries' = DOMAIN entries \cup {VolDir(asked)}
      /\ \A q \in DOMAIN entries : entries'[q] = entries[q]
      /\ VolDir(asked) \notin DOMAIN entries =>
            entries'[VolDir(asked)] = CreateDirArgs(Cfg(asked))
  BY Zenon DEF Making
<1>2. \A v \in Volumes : v # asked => VolDir(asked) \notin {VolDir(v), NodesDir(v)}
  <2>1. VolDir(asked) \in Seq(Names) /\ Len(VolDir(asked)) \in 1..Len(VolDir(asked))
    BY <1>0, OwnPaths
  <2>2. SubSeq(VolDir(asked), 1, Len(VolDir(asked))) = VolDir(asked)
    BY <2>1, Parents, Zenon
  <2>. QED
    BY <1>0, <2>1, <2>2, Apart, Zenon
<1>3. VolDir(asked) # NodesDir(asked)
  BY <1>0, OwnPaths
<1>4. /\ \A v \in Volumes : NodesDir(v) \in DOMAIN entries' <=> NodesDir(v) \in DOMAIN entries
      /\ \A v \in Volumes \ {asked} :
            /\ VolDir(v) \in DOMAIN entries' <=> VolDir(v) \in DOMAIN entries
            /\ VolDir(v) \in DOMAIN entries => entries'[VolDir(v)] = entries[VolDir(v)]
  BY <1>1, <1>2, <1>3, Zenon
<1>5. CsiDirs' = CsiDirs
  <2>1. \A v \in Volumes : NodesDir(v) # <<>>
    BY OwnPaths
  <2>2. \A v \in Volumes : Exists(NodesDir(v))' <=> Exists(NodesDir(v))
    BY <1>4, <2>1, Zenon DEF Exists
  <2>. QED
    BY <2>2, Zenon DEF CsiDirs
<1>6. \A v \in Volumes : VolDirs'[v] = IF v = asked THEN VolDirs[v] \cup {"dir"}
                                        ELSE VolDirs[v]
  <2>. TAKE v \in Volumes
  <2>1. /\ VolDirs[v] \subseteq {"dir", "pattern", "mode"}
        /\ "dir" \in VolDirs[v] <=> VolDir(v) \in DOMAIN entries
        /\ "pattern" \in VolDirs[v] <=> v \in patterned
        /\ "mode" \in VolDirs[v] <=>
              /\ v \in Special /\ VolDir(v) \in DOMAIN entries
              /\ entries[VolDir(v)].mode = Cfg(v).mode
    BY Seen, Zenon
  <2>2. /\ VolDirs'[v] \subseteq {"dir", "pattern", "mode"}
        /\ "dir" \in VolDirs'[v] <=> VolDir(v) \in DOMAIN entries'
        /\ "pattern" \in VolDirs'[v] <=> v \in patterned'
        /\ "mode" \in VolDirs'[v] <=>
              /\ v \in Special /\ VolDir(v) \in DOMAIN entries'
              /\ entries'[VolDir(v)].mode = Cfg(v).mode
    BY SeenNext, Zenon
  <2>3. CASE v # asked
    BY <1>4, <2>1, <2>2, <2>3
  <2>4. CASE v = asked
    <3>1. VolDir(v) \notin DOMAIN entries /\ v \in Special =>
             entries'[VolDir(v)].mode # Cfg(v).mode
      BY <1>1, <2>4, PermissionsReached
    <3>. QED
      BY <1>1, <2>1, <2>2, <2>4, <3>1
  <2>. QED
    BY <2>3, <2>4, Zenon
<1>. QED
  BY <1>0, <1>1, <1>5, <1>6, Zenon DEF Gains, VolDirs, HasDir

\* The directory for the nodes.
LEMMA MakesNodes ==
    ASSUME asked \in Volumes, UNCHANGED patterned, UNCHANGED asked, NEW perms,
           entries' = Making(NodesDir(asked), perms)
    PROVE  /\ VolDirs' = VolDirs /\ CsiDirs' = [CsiDirs EXCEPT ![asked] = "nodes"]
           /\ HasDir' <=> HasDir
           /\ HasDir => entries'[VolDir(asked)] = entries[VolDir(asked)]
<1>1. /\ DOMAIN entries' = DOMAIN entries \cup {NodesDir(asked)}
      /\ \A q \in DOMAIN entries : entries'[q] = entries[q]
  BY Zenon DEF Making
<1>2. \A v \in Volumes : v # asked => NodesDir(asked) \notin {VolDir(v), NodesDir(v)}
  <2>1. NodesDir(asked) \in Seq(Names) /\ Len(NodesDir(asked)) \in 1..Len(NodesDir(asked))
    BY OwnPaths
  <2>2. SubSeq(NodesDir(asked), 1, Len(NodesDir(asked))) = NodesDir(asked)
    BY <2>1, Parents, Zenon
  <2>. QED
    BY <2>1, <2>2, Apart, Zenon
<1>3. VolDir(asked) # NodesDir(asked)
  BY OwnPaths
<1>4. \A v \in Volumes :
         /\ VolDir(v) \in DOMAIN entries' <=> VolDir(v) \in DOMAIN entries
         /\ VolDir(v) \in DOMAIN entries => entries'[VolDir(v)] = entries[VolDir(v)]
         /\ v # asked => (NodesDir(v) \in DOMAIN entries' <=> NodesDir(v) \in DOMAIN entries)
  BY <1>1, <1>2, <1>3, Zenon
<1>5. \A v \in Volumes : VolDirs'[v] = VolDirs[v]
  <2>. TAKE v \in Volumes
  <2>1. /\ "dir" \in VolDirs'[v] <=> "dir" \in VolDirs[v]
        /\ "pattern" \in VolDirs'[v] <=> "pattern" \in VolDirs[v]
        /\ "mode" \in VolDirs'[v] <=> "mode" \in VolDirs[v]
    BY <1>4, Seen, SeenNext, Zenon
  <2>2. VolDirs'[v] = VolDirs[v] \cup {}
    BY <2>1, SameFeatures, Zenon
  <2>. QED
    BY <2>2, Zenon
<1>6. \A v \in Volumes : CsiDirs'[v] = IF v = asked THEN "nodes" ELSE CsiDirs[v]
  BY <1>1, <1>4, Seen, SeenNext
<1>7. VolDirs' = VolDirs
  BY <1>5, Zenon DEF VolDirs
<1>8. CsiDirs' = [CsiDirs EXCEPT ![asked] = "nodes"]
  BY <1>6, Zenon DEF CsiDirs
<1>. QED
  BY <1>4, <1>7, <1>8, Zenon DEF HasDir

LEMMA SetsPattern ==
    ASSUME asked \in Volumes, patterned' = patterned \cup {asked},
           UNCHANGED <<entries, asked>>
    PROVE  /\ Gains(asked, {"pattern"}) /\ CsiDirs' = CsiDirs
           /\ HasDir' <=> HasDir
<1>1. \A v \in Volumes : VolDirs'[v] = IF v = asked THEN VolDirs[v] \cup {"pattern"}
                                        ELSE VolDirs[v]
  <2>. TAKE v \in Volumes
  <2>. DEFINE F == IF v = asked THEN {"pattern"} ELSE {}
  <2>1. /\ "dir" \in VolDirs'[v] <=> "dir" \in VolDirs[v]
        /\ "pattern" \in VolDirs'[v] <=> "pattern" \in VolDirs[v] \/ v = asked
        /\ "mode" \in VolDirs'[v] <=> "mode" \in VolDirs[v]
    BY Seen, SeenNext, Zenon
  <2>2. VolDirs'[v] = VolDirs[v] \cup F
    BY <2>1, SameFeatures, Zenon
  <2>. QED
    BY <2>2, Zenon
<1>2. CsiDirs' = CsiDirs
  BY Zenon DEF CsiDirs, Exists
<1>. QED
  BY <1>1, <1>2, Zenon DEF Gains, VolDirs, HasDir

LEMMA SetsMode ==
    ASSUME asked \in Valid, asked \in Special, UNCHANGED <<patterned, asked>>, HasDir,
           entries[VolDir(asked)] \in {Cfg(asked), CreateDirArgs(Cfg(asked))},
           entries' = [entries EXCEPT ![VolDir(asked)] = Chmodded(@, asked)]
    PROVE  /\ Gains(asked, {"mode"}) /\ CsiDirs' = CsiDirs
           /\ HasDir' /\ entries'[VolDir(asked)] = Cfg(asked)
<1>1. /\ DOMAIN entries' = DOMAIN entries
      /\ entries'[VolDir(asked)] = Chmodded(entries[VolDir(asked)], asked)
      /\ \A q \in DOMAIN entries : q # VolDir(asked) => entries'[q] = entries[q]
  BY Zenon DEF HasDir
<1>2. entries'[VolDir(asked)] = Cfg(asked) /\ asked \in Volumes
  BY <1>1, PermissionsReached, ValidModes
<1>3. \A v \in Volumes : v # asked => VolDir(v) # VolDir(asked)
  <2>1. VolDir(asked) \in Seq(Names) /\ Len(VolDir(asked)) \in 1..Len(VolDir(asked))
    BY <1>2, OwnPaths
  <2>2. SubSeq(VolDir(asked), 1, Len(VolDir(asked))) = VolDir(asked)
    BY <2>1, Parents, Zenon
  <2>. QED
    BY <1>2, <2>1, <2>2, Apart, Zenon
<1>4. \A v \in Volumes : VolDirs'[v] = IF v = asked THEN VolDirs[v] \cup {"mode"}
                                        ELSE VolDirs[v]
  <2>. TAKE v \in Volumes
  <2>. DEFINE F == IF v = asked THEN {"mode"} ELSE {}
  <2>1. /\ "dir" \in VolDirs'[v] <=> "dir" \in VolDirs[v]
        /\ "pattern" \in VolDirs'[v] <=> "pattern" \in VolDirs[v]
        /\ "mode" \in VolDirs'[v] <=> "mode" \in VolDirs[v] \/ v = asked
    BY <1>1, <1>2, <1>3, Seen, SeenNext, Zenon DEF HasDir
  <2>2. VolDirs'[v] = VolDirs[v] \cup F
    BY <2>1, SameFeatures, Zenon
  <2>. QED
    BY <2>2, Zenon
<1>5. CsiDirs' = CsiDirs
  BY <1>1, Zenon DEF CsiDirs, Exists
<1>. QED
  BY <1>1, <1>2, <1>4, <1>5, Zenon DEF Gains, VolDirs, HasDir

(***************************************************************************)
(* Steps of one handler.                                                   *)
(***************************************************************************)
LEMMA Goes ==
    ASSUME Ctrl!TypeOK, NEW r \in Requests, NEW point, Ctrl!Goto(r, point)
    PROVE  /\ job'[r].pc = point
           /\ job'[r].vol = job[r].vol /\ job'[r].op = job[r].op
           /\ job'[r].ok = job[r].ok
           /\ \A q \in Requests \ {r} : job'[q] = job[q]
<1>1. DOMAIN job = Requests /\ job[r] \in Ctrl!Jobs \cup {Ctrl!Idle}
  BY Zenon DEF Ctrl!TypeOK
<1>2. job' = [job EXCEPT ![r] = [job[r] EXCEPT !.pc = point]]
  BY Zenon DEF Ctrl!Goto
<1>3. job'[r] = [job[r] EXCEPT !.pc = point] /\ \A q \in Requests \ {r} : job'[q] = job[q]
  BY <1>1, <1>2, Zenon
<1>. QED
  BY <1>1, <1>3, Zenon DEF Ctrl!Jobs, Ctrl!Idle

LEMMA Returns ==
    ASSUME Ctrl!TypeOK, NEW r \in Requests, job[r].op = "create", Ctrl!Return(r)
    PROVE  /\ job'[r].pc = IF job[r].pc \in {"list", "unmount", "remove"}
                           THEN "release" ELSE "list"
           /\ job'[r].vol = job[r].vol /\ job'[r].op = job[r].op
           /\ job'[r].ok => job[r].ok /\ job[r].pc \in {"list", "unmount", "remove"}
           /\ \A q \in Requests \ {r} : job'[q] = job[q]
<1>1. DOMAIN job = Requests /\ job[r] \in Ctrl!Jobs \cup {Ctrl!Idle}
  BY Zenon DEF Ctrl!TypeOK
<1>. DEFINE point == Ctrl!AfterError(r)
            good == Ctrl!StillOk(r)
<1>2. job' = [job EXCEPT ![r] = [job[r] EXCEPT !.pc = point, !.ok = good]]
  BY Zenon DEF Ctrl!Return
<1>3. point = IF job[r].pc \in {"list", "unmount", "remove"} THEN "release" ELSE "list"
  BY Zenon DEF Ctrl!AfterError, Ctrl!AfterCleanup
<1>4. good => job[r].ok /\ job[r].pc \in {"list", "unmount", "remove"}
  BY Zenon DEF Ctrl!StillOk
<1>. HIDE DEF point, good
<1>5. /\ job'[r] = [job[r] EXCEPT !.pc = point, !.ok = good]
      /\ \A q \in Requests \ {r} : job'[q] = job[q]
  BY <1>1, <1>2, Zenon
<1>6. /\ job'[r].pc = point /\ job'[r].ok = good
      /\ job'[r].vol = job[r].vol /\ job'[r].op = job[r].op
  BY <1>1, <1>5, Zenon DEF Ctrl!Jobs, Ctrl!Idle
<1>. QED
  BY <1>3, <1>4, <1>5, <1>6, Zenon

\* What is left to show of a step of handler r.
LEMMA OneHandler ==
    ASSUME CtlInv, NEW r \in Requests, UNCHANGED asked,
           \A q \in Requests \ {r} : job'[q] = job[q] /\ call'[q] = call[q],
           call' \in [Requests -> Callings],
           job'[r].pc # "idle" =>
               job'[r].vol = asked /\ job'[r].op = "create" /\ asked \in Valid,
           job'[r].pc \notin Calls => call'[r] = NoCall,
           call'[r].step = "make" => job'[r].pc # "setPattern" /\ Pending(r)',
           HasDir => HasDir', Complete => Complete',
           HasDir' => entries'[VolDir(asked)] \in {Cfg(asked), CreateDirArgs(Cfg(asked))},
           Reached(r)',
           status'[asked] = "created" \/ phase'[asked] = "use" => Complete',
           \A v \in Volumes \ {asked} : phase'[v] = "create"
    PROVE  CallsFit' /\ OnlyAsked' /\ Permitted'
<1>1. \A q \in Requests \ {r} : Pending(q) => Pending(q)'
  BY Zenon DEF Pending, Target, Vol
<1>2. CallsFit'
  BY <1>1, Zenon DEF CtlInv, CallsFit
<1>3. OnlyAsked'
  BY Zenon DEF CtlInv, OnlyAsked
<1>4. \A q \in Requests \ {r} : Reached(q)'
  BY Zenon DEF CtlInv, Permitted, Reached
<1>5. Permitted'
  BY <1>4, Zenon DEF Permitted
<1>. QED
  BY <1>2, <1>3, <1>5

LEMMA SeenUnchanged ==
    ASSUME UNCHANGED beegfsVars PROVE VolDirs' = VolDirs /\ CsiDirs' = CsiDirs
BY Zenon DEF beegfsVars, VolDirs, CsiDirs, Exists

LEMMA DiskUnchanged ==
    ASSUME CtlInv, UNCHANGED <<disk, host>> PROVE DiskFits'
BY Zenon DEF CtlInv, DiskFits

LEMMA NoCallIsOne == NoCall \in Callings /\ NoCall.step # "make"
BY DEF NoCall, Callings, Steps

\* The directory of the volume is left as it is.
DirKept ==
    /\ HasDir' <=> HasDir
    /\ HasDir => entries'[VolDir(asked)] = entries[VolDir(asked)]

\* Nothing that has been reached is lost.
Kept ==
    /\ HasDir => HasDir'
    /\ Complete => Complete'
    /\ HasDir' => entries'[VolDir(asked)] \in {Cfg(asked), CreateDirArgs(Cfg(asked))}

LEMMA KeptIfSame ==
    ASSUME CtlInv, UNCHANGED asked, DirKept PROVE Kept
BY Zenon DEF CtlInv, Permitted, DirKept, Kept, HasDir, Complete

LEMMA KeptIfUnchanged ==
    ASSUME CtlInv, UNCHANGED <<asked, entries>> PROVE Kept /\ DirKept
BY Zenon DEF CtlInv, Permitted, DirKept, Kept, HasDir, Complete

\* The call of the dispatcher returns, with or without an error.
LEMMA SucceedStep ==
    ASSUME CtlInv, NEW r \in Requests, job[r].pc # "idle", NEW point, Succeed(r, point),
           UNCHANGED <<asked, status, phase>>, Kept,
           point \notin {"idle", "list", "unmount", "remove", "release"},
           point \in {"setPattern", "mount", "chmod"} => HasDir',
           point \in {"mount", "chmod"} => asked \in Special,
           point \in {"nodesDir", "created"} => Complete'
    PROVE  CallsFit' /\ OnlyAsked' /\ Permitted'
<1>1. /\ job'[r].pc = point
      /\ job'[r].vol = job[r].vol /\ job'[r].op = job[r].op
      /\ \A q \in Requests \ {r} : job'[q] = job[q]
  BY Goes, Zenon DEF CtlInv, Succeed
<1>2. call' = [call EXCEPT ![r] = NoCall] /\ call \in [Requests -> Callings]
  BY Zenon DEF Succeed, CtlInv, CallsFit
<1>3. /\ call' \in [Requests -> Callings] /\ call'[r] = NoCall
      /\ \A q \in Requests \ {r} : call'[q] = call[q]
  BY <1>2, NoCallIsOne, Zenon
<1>4. Reached(r)'
  BY <1>1, Zenon DEF Reached
<1>5. status'[asked] = "created" \/ phase'[asked] = "use" => Complete'
  BY Zenon DEF CtlInv, Permitted, Kept
<1>6. /\ job'[r].vol = asked /\ job'[r].op = "create" /\ asked \in Valid
      /\ \A v \in Volumes \ {asked} : phase'[v] = "create"
  BY <1>1, Zenon DEF CtlInv, OnlyAsked
<1>. QED
  BY <1>1, <1>3, <1>4, <1>5, <1>6, NoCallIsOne, OneHandler, Zenon DEF Kept

LEMMA FailStep ==
    ASSUME CtlInv, NEW r \in Requests, Fail(r),
           job[r].pc \in {"write", "createDir", "setPattern", "chmod", "nodesDir"},
           UNCHANGED <<asked, status, phase>>, Kept
    PROVE  CallsFit' /\ OnlyAsked' /\ Permitted'
<1>0. job[r].vol = asked /\ job[r].op = "create" /\ asked \in Valid
  BY Zenon DEF CtlInv, OnlyAsked
<1>1. /\ \/ job'[r].pc = "list" /\ ~job'[r].ok
         \/ job'[r].pc = "created" /\ job[r].pc = "nodesDir"
      /\ job'[r].vol = job[r].vol /\ job'[r].op = job[r].op
      /\ \A q \in Requests \ {r} : job'[q] = job[q]
  <2>1. CASE job[r].pc = "nodesDir"
    BY <2>1, Goes, Zenon DEF CtlInv, Fail
  <2>2. CASE job[r].pc # "nodesDir"
    <3>1. Ctrl!Return(r) /\ job[r].pc \notin {"list", "unmount", "remove"}
      BY <2>2, Zenon DEF Fail
    <3>. QED
      BY <1>0, <3>1, Returns, Zenon DEF CtlInv
  <2>. QED
    BY <2>1, <2>2, Zenon
<1>2. call' = [call EXCEPT ![r] = NoCall] /\ call \in [Requests -> Callings]
  BY Zenon DEF Fail, CtlInv, CallsFit
<1>3. /\ call' \in [Requests -> Callings] /\ call'[r] = NoCall
      /\ \A q \in Requests \ {r} : call'[q] = call[q]
  BY <1>2, NoCallIsOne, Zenon
<1>4. Reached(r)'
  BY <1>1, Zenon DEF Reached, CtlInv, Permitted, Kept
<1>5. status'[asked] = "created" \/ phase'[asked] = "use" => Complete'
  BY Zenon DEF CtlInv, Permitted, Kept
<1>6. \A v \in Volumes \ {asked} : phase'[v] = "create"
  BY Zenon DEF CtlInv, OnlyAsked
<1>. QED
  BY <1>0, <1>1, <1>3, <1>4, <1>5, <1>6, NoCallIsOne, OneHandler, Zenon DEF Kept

(***************************************************************************)
(* The calls of ControllerServer that the commands amount to.              *)
(***************************************************************************)
LEMMA VolumeCall ==
    ASSUME NEW r \in Requests, NEW f, NEW point, job[r].vol = asked,
           job[r].pc # "nodesDir",
           \/ Succeed(r, point) /\ Gains(asked, {f})
           \/ Fail(r) /\ (VolDirs' = VolDirs \/ Gains(asked, {f}))
    PROVE  Ctrl!OnVolume(r, f, point)
BY Zenon DEF Succeed, Fail, Gains, Ctrl!OnVolume

LEMMA NodesCall ==
    ASSUME NEW r \in Requests, job[r].vol = asked, job[r].pc = "nodesDir",
           VolDirs' = VolDirs, UNCHANGED <<locks, status, host, phase, restarts>>,
           \/ /\ Succeed(r, "created")
              /\ CsiDirs' = [CsiDirs EXCEPT ![asked] = "nodes"]
           \/ /\ Fail(r)
              /\ CsiDirs' = CsiDirs \/ CsiDirs' = [CsiDirs EXCEPT ![asked] = "nodes"]
    PROVE  Ctrl!CreateNodesDirectory(r)
BY TrackingAssumption, Zenon DEF Succeed, Fail, Ctrl!CreateNodesDirectory, Ctrl!At

\* An error before anything has been done.
LEMMA EarlyFailure ==
    ASSUME CtlInv, NEW r \in Requests, job[r].pc \in Calls, Fail(r),
           UNCHANGED <<locks, status, host, phase, restarts, beegfsVars, hostVars, disk>>
    PROVE  Ctrl!Step(r) /\ CallsFit' /\ OnlyAsked' /\ Permitted' /\ DiskFits'
<1>0. CallsFit' /\ OnlyAsked' /\ Permitted' /\ DiskFits'
  BY FailStep, KeptIfUnchanged, DiskUnchanged, Zenon DEF beegfsVars, hostVars, Calls
<1>1. VolDirs' = VolDirs /\ CsiDirs' = CsiDirs
  BY SeenUnchanged, Zenon
<1>2. job[r].vol = asked
  BY Zenon DEF CtlInv, OnlyAsked, Calls
<1>3. CASE job[r].pc = "createDir"
  <2>1. Ctrl!OnVolume(r, "dir", "setPattern")
    BY <1>1, <1>2, <1>3, VolumeCall, Zenon
  <2>2. Ctrl!CreateDirectory(r)
    BY <1>1, <1>3, <2>1, Zenon DEF Ctrl!CreateDirectory, Ctrl!At
  <2>. QED
    BY <1>0, <2>2, Zenon DEF Ctrl!Step
<1>4. CASE job[r].pc = "setPattern"
  <2>1. \A point : Ctrl!OnVolume(r, "pattern", point)
    BY <1>1, <1>2, <1>4, VolumeCall, Zenon
  <2>2. Ctrl!SetPattern(r)
    BY <1>1, <1>4, <2>1, Zenon DEF Ctrl!SetPattern, Ctrl!At
  <2>. QED
    BY <1>0, <2>2, Zenon DEF Ctrl!Step
<1>5. CASE job[r].pc = "nodesDir"
  <2>1. Ctrl!CreateNodesDirectory(r)
    BY <1>1, <1>2, <1>5, NodesCall, Zenon
  <2>. QED
    BY <1>0, <2>1, Zenon DEF Ctrl!Step
<1>. QED
  BY <1>3, <1>4, <1>5, Zenon DEF Calls

\* Steps of a call that do not end it.
LEMMA CallGoesOn ==
    ASSUME CtlInv, NEW r \in Requests, job[r].pc \in Calls,
           UNCHANGED <<ctrlVars, asked>>, Kept,
           NEW c \in Callings, call' = [call EXCEPT ![r] = c],
           c.step = "make" => job[r].pc # "setPattern" /\ Pending(r)'
    PROVE  CallsFit' /\ OnlyAsked' /\ Permitted'
<1>1. /\ call' \in [Requests -> Callings] /\ call'[r] = c
      /\ \A q \in Requests \ {r} : call'[q] = call[q]
  BY Zenon DEF CtlInv, CallsFit
<1>2. Reached(r)'
  BY Zenon DEF Reached, CtlInv, Permitted, Kept, ctrlVars
<1>3. status'[asked] = "created" \/ phase'[asked] = "use" => Complete'
  BY Zenon DEF CtlInv, Permitted, Kept, ctrlVars
<1>4. /\ job'[r].vol = asked /\ job'[r].op = "create" /\ asked \in Valid
      /\ \A v \in Volumes \ {asked} : phase'[v] = "create"
  BY Zenon DEF CtlInv, OnlyAsked, ctrlVars, Calls
<1>. QED
  BY <1>1, <1>2, <1>3, <1>4, OneHandler, Zenon DEF Kept, ctrlVars

LEMMA Turned ==
    ASSUME CtlInv, NEW r \in Requests, NEW step \in Steps \ {"make"},
           NEW ver \in {0, 7, 8}, Turn(r, step, ver)
    PROVE  \E c \in Callings : call' = [call EXCEPT ![r] = c] /\ c.step = step
<1>1. call[r] \in Callings
  BY Zenon DEF CtlInv, CallsFit
<1>. DEFINE c == [call[r] EXCEPT !.step = step, !.ver = ver]
<1>2. c \in Callings /\ c.step = step
  BY <1>1, Zenon DEF Callings
<1>3. call' = [call EXCEPT ![r] = c]
  BY Zenon DEF Turn
<1>. QED
  BY <1>2, <1>3, Zenon

LEMMA Stutters ==
    ASSUME UNCHANGED ctrlVars, VolDirs' = VolDirs, CsiDirs' = CsiDirs
    PROVE  UNCHANGED Ctrl!vars
BY Zenon DEF ctrlVars, Ctrl!vars

(***************************************************************************)
(* One lemma for each action.                                              *)
(***************************************************************************)
Mapped(r) == Ctrl!Arrive(r) \/ Ctrl!Step(r) \/ UNCHANGED Ctrl!vars

LEMMA ListV8Step ==
    ASSUME CtlInv, NEW r \in Requests, ListV8(r)
    PROVE  Mapped(r) /\ CallsFit' /\ OnlyAsked' /\ Permitted' /\ DiskFits'
<1>1. Kept /\ VolDirs' = VolDirs /\ CsiDirs' = CsiDirs
  BY KeptIfUnchanged, SeenUnchanged, Zenon DEF ListV8, beegfsVars, hostVars
<1>2. Turn(r, "run", 8) \/ Turn(r, "list7", 7)
  BY Zenon DEF ListV8
<1>3. "run" \in Steps \ {"make"} /\ "list7" \in Steps \ {"make"}
  BY Zenon DEF Steps
<1>4. \E c \in Callings : call' = [call EXCEPT ![r] = c] /\ c.step \in {"run", "list7"}
  BY <1>2, <1>3, Turned
<1>5. CallsFit' /\ OnlyAsked' /\ Permitted'
  BY <1>1, <1>4, CallGoesOn, Zenon DEF ListV8, InCall, Calls, hostVars
<1>. QED
  BY <1>1, <1>5, Stutters, DiskUnchanged, Zenon DEF ListV8, Mapped, ctrlVars

LEMMA ListV7Step ==
    ASSUME CtlInv, NEW r \in Requests, ListV7(r)
    PROVE  Mapped(r) /\ CallsFit' /\ OnlyAsked' /\ Permitted' /\ DiskFits'
<1>1. CASE Fail(r)
  BY <1>1, EarlyFailure, Zenon DEF ListV7, InCall, Calls, Mapped
<1>2. CASE Turn(r, "run", 7) /\ UNCHANGED <<job, faults>>
  <2>1. Kept /\ VolDirs' = VolDirs /\ CsiDirs' = CsiDirs
    BY KeptIfUnchanged, SeenUnchanged, Zenon DEF ListV7, beegfsVars, hostVars
  <2>2. "run" \in Steps \ {"make"}
    BY Zenon DEF Steps
  <2>3. \E c \in Callings : call' = [call EXCEPT ![r] = c] /\ c.step = "run"
    BY <1>2, <2>2, Turned
  <2>4. UNCHANGED ctrlVars
    BY <1>2, Zenon DEF ListV7, ctrlVars
  <2>5. CallsFit' /\ OnlyAsked' /\ Permitted'
    BY <2>1, <2>3, <2>4, CallGoesOn, Zenon DEF ListV7, InCall, Calls, hostVars
  <2>. QED
    BY <2>1, <2>4, <2>5, Stutters, DiskUnchanged, Zenon DEF ListV7, Mapped, ctrlVars
<1>. QED
  BY <1>1, <1>2, Zenon DEF ListV7

\* The directory that createDirectoryForVolume is to make.
LEMMA Targets ==
    ASSUME CtlInv, NEW r \in Requests, job[r].pc \in {"createDir", "nodesDir"}
    PROVE  /\ asked \in Volumes /\ asked \in Valid /\ Vol(r) = asked
           /\ Target(r) = IF job[r].pc = "createDir" THEN VolDir(asked)
                          ELSE NodesDir(asked)
           /\ Target(r) \in Seq(Names) /\ Len(Target(r)) \in Nat \ {0}
           /\ Target(r) # <<>>
<1>1. asked \in Volumes /\ asked \in Valid /\ job[r].vol = asked
  BY Zenon DEF CtlInv, OnlyAsked
<1>2. Target(r) = IF job[r].pc = "createDir" THEN VolDir(asked) ELSE NodesDir(asked)
  BY <1>1, Zenon DEF Target, Vol
<1>3. /\ VolDir(asked) \in Seq(Names) /\ NodesDir(asked) \in Seq(Names)
      /\ Len(VolDir(asked)) \in Nat \ {0} /\ Len(NodesDir(asked)) \in Nat \ {0}
      /\ VolDir(asked) # <<>> /\ NodesDir(asked) # <<>>
  BY <1>1, OwnPaths
<1>. QED
  BY <1>1, <1>2, <1>3, Zenon DEF Vol

LEMMA StatDirectoryStep ==
    ASSUME CtlInv, NEW r \in Requests, StatDirectory(r)
    PROVE  Mapped(r) /\ CallsFit' /\ OnlyAsked' /\ Permitted' /\ DiskFits'
<1>0. job[r].pc \in {"createDir", "nodesDir"}
  BY Zenon DEF StatDirectory, At
<1>1. Kept /\ DirKept /\ VolDirs' = VolDirs /\ CsiDirs' = CsiDirs /\ DiskFits'
  BY KeptIfUnchanged, SeenUnchanged, DiskUnchanged, Zenon
     DEF StatDirectory, beegfsVars, hostVars
<1>2. CASE Fail(r)
  BY <1>0, <1>2, EarlyFailure, Zenon DEF StatDirectory, Calls, Mapped
<1>3. CASE Exists(Target(r)) /\ Succeed(r, AfterCreate(r))
  <2>1. CASE job[r].pc = "createDir"
    <3>1. HasDir /\ AfterCreate(r) = "setPattern" /\ job[r].vol = asked
      BY <1>0, <1>3, <2>1, Targets, Zenon DEF Exists, HasDir, AfterCreate, Vol
    <3>2. CallsFit' /\ OnlyAsked' /\ Permitted'
      BY <1>0, <1>1, <1>3, <3>1, SucceedStep, Zenon DEF StatDirectory, hostVars, DirKept
    <3>3. Gains(asked, {"dir"})
      <4>1. asked \in Volumes /\ "dir" \in VolDirs[asked]
        BY <1>0, <3>1, Targets, Seen, Zenon DEF HasDir
      <4>. QED
        BY <1>1, <4>1, Zenon DEF Gains, VolDirs
    <3>4. Ctrl!OnVolume(r, "dir", "setPattern")
      BY <1>3, <2>1, <3>1, <3>3, VolumeCall, Zenon
    <3>5. Ctrl!CreateDirectory(r)
      BY <1>1, <2>1, <3>4, Zenon DEF StatDirectory, Ctrl!CreateDirectory, Ctrl!At
    <3>. QED
      BY <1>1, <3>2, <3>5, Zenon DEF Mapped, Ctrl!Step
  <2>2. CASE job[r].pc = "nodesDir"
    <3>1. /\ NodesDir(asked) \in DOMAIN entries /\ AfterCreate(r) = "created"
          /\ job[r].vol = asked /\ asked \in Volumes
      BY <1>0, <1>3, <2>2, Targets, Zenon DEF Exists, AfterCreate, Vol
    <3>2. Complete'
      BY <1>1, <2>2, Zenon DEF CtlInv, Permitted, Reached, Kept
    <3>3. CallsFit' /\ OnlyAsked' /\ Permitted'
      BY <1>0, <1>1, <1>3, <3>1, <3>2, SucceedStep, Zenon DEF StatDirectory, hostVars
    <3>4. CsiDirs' = [CsiDirs EXCEPT ![asked] = "nodes"]
      <4>1. CsiDirs[asked] = "nodes"
        BY <3>1, Seen, Zenon
      <4>. QED
        BY <1>1, <4>1, Zenon DEF CsiDirs
    <3>5. Ctrl!CreateNodesDirectory(r)
      BY <1>1, <1>3, <2>2, <3>1, <3>4, NodesCall, Zenon DEF StatDirectory
    <3>. QED
      BY <1>1, <3>3, <3>5, Zenon DEF Mapped, Ctrl!Step
  <2>. QED
    BY <1>0, <2>1, <2>2, Zenon
<1>4. CASE /\ call' = [call EXCEPT ![r].step = "make",
                                   ![r].todo = DirsToMake(Target(r))]
           /\ UNCHANGED <<job, faults>>
  <2>. DEFINE T == Target(r)
              todo == DirsToMake(T)
              c == [call[r] EXCEPT !.step = "make", !.todo = todo]
  <2>1. T \in Seq(Names) /\ Len(T) \in Nat \ {0}
    BY <1>0, Targets, Zenon
  <2>2. T' = T
    BY <1>4, Zenon DEF Target, Vol
  <2>. HIDE DEF T
  <2>3. /\ todo \in Seq(Seq(Names)) /\ Len(todo) = Len(T)
        /\ \A j \in 1..Len(todo) : todo[j] = SubSeq(T, 1, (Len(T) - Len(todo)) + j)
    BY <2>1 DEF DirsToMake
  <2>. HIDE DEF todo
  <2>4. c \in Callings /\ c.step = "make" /\ c.todo = todo
    <3>1. call[r] \in Callings
      BY Zenon DEF CtlInv, CallsFit
    <3>. QED
      BY <2>3, <3>1, Zenon DEF Callings, Steps
  <2>5. call' = [call EXCEPT ![r] = c]
    BY <1>4, Zenon DEF todo, T
  <2>. HIDE DEF c
  <2>6. call'[r] = c
    BY <2>5, Zenon DEF CtlInv, CallsFit
  <2>7. Pending(r)'
    <3>1. Len(todo) \in 1..Len(T)
      BY <2>1, <2>3
    <3>. QED
      BY <2>2, <2>3, <2>4, <2>6, <3>1, Zenon DEF Pending, T
  <2>8. UNCHANGED ctrlVars
    BY <1>4, Zenon DEF StatDirectory, ctrlVars
  <2>9. CallsFit' /\ OnlyAsked' /\ Permitted'
    BY <1>0, <1>1, <2>4, <2>5, <2>7, <2>8, CallGoesOn, Zenon
       DEF StatDirectory, Calls, hostVars
  <2>. QED
    BY <1>1, <2>8, <2>9, Stutters, Zenon DEF Mapped
<1>. QED
  BY <1>2, <1>3, <1>4, Zenon DEF StatDirectory

\* The next directory in the loop of createDirectoryForVolume.
LEMMA NextToMake ==
    ASSUME CtlInv, NEW r \in Requests, InCall(r, "make")
    PROVE  LET T == Target(r)
               i == Len(T) - Len(call[r].todo) + 1
           IN  /\ job[r].pc \in {"createDir", "nodesDir"}
               /\ i \in 1..Len(T) /\ Head(call[r].todo) = SubSeq(T, 1, i)
               /\ LastDirectory(r) <=> i = Len(T)
               /\ call[r].todo \in Seq(Seq(Names)) /\ call[r].todo # <<>>
<1>1. job[r].pc \in {"createDir", "nodesDir"} /\ Pending(r)
  BY Zenon DEF CtlInv, CallsFit, InCall
<1>2. call[r].todo \in Seq(Seq(Names))
  <2>1. call[r] \in Callings
    BY Zenon DEF CtlInv, CallsFit
  <2>. QED
    BY <2>1, Zenon DEF Callings
<1>3. Target(r) \in Seq(Names)
  BY <1>1, Targets, Zenon
<1>. DEFINE T == Target(r)
            todo == call[r].todo
            i == Len(T) - Len(todo) + 1
<1>4. /\ Len(todo) \in 1..Len(T)
      /\ \A j \in 1..Len(todo) : todo[j] = SubSeq(T, 1, (Len(T) - Len(todo)) + j)
  BY <1>1, Zenon DEF Pending
<1>. HIDE DEF T, todo
<1>5. todo \in Seq(Seq(Names)) /\ T \in Seq(Names)
  BY <1>2, <1>3, Zenon DEF T, todo
<1>6. /\ i \in 1..Len(T) /\ Head(todo) = SubSeq(T, 1, i)
      /\ Len(todo) = 1 <=> i = Len(T)
      /\ todo # <<>>
  <2>1. Len(T) \in Nat /\ Len(todo) \in Nat /\ Len(todo) <= Len(T) /\ 1 <= Len(todo)
    BY <1>4, <1>5
  <2>2. i \in 1..Len(T) /\ (Len(todo) = 1 <=> i = Len(T)) /\ 1 \in 1..Len(todo)
    <3>1. \A m, n \in Nat : 1 <= m /\ m <= n =>
             n - m + 1 \in 1..n /\ (m = 1 <=> n - m + 1 = n) /\ 1 \in 1..m
      OBVIOUS
    <3>. QED
      BY <2>1, <3>1, Zenon
  <2>3. todo[1] = SubSeq(T, 1, i)
    BY <1>4, <2>2, Zenon
  <2>4. Head(todo) = todo[1] /\ todo # <<>>
    BY <1>5, <2>1
  <2>. QED
    BY <2>2, <2>3, <2>4, Zenon
<1>. QED
  BY <1>1, <1>5, <1>6, Zenon DEF T, todo, LastDirectory

\* What it changes when it is made.
LEMMA Makes ==
    ASSUME CtlInv, NEW r \in Requests, InCall(r, "make"), UNCHANGED <<patterned, asked>>,
           entries' = Making(Head(call[r].todo), CreateDirArgs(Asked(r)))
    PROVE  /\ Kept
           /\ job[r].pc = "createDir" =>
                 /\ CsiDirs' = CsiDirs
                 /\ IF LastDirectory(r) THEN Gains(asked, {"dir"}) /\ HasDir'
                    ELSE VolDirs' = VolDirs
           /\ job[r].pc = "nodesDir" =>
                 /\ VolDirs' = VolDirs
                 /\ CsiDirs' = IF LastDirectory(r)
                               THEN [CsiDirs EXCEPT ![asked] = "nodes"] ELSE CsiDirs
<1>. DEFINE T == Target(r)
            i == Len(T) - Len(call[r].todo) + 1
<1>1. /\ job[r].pc \in {"createDir", "nodesDir"}
      /\ i \in 1..Len(T) /\ Head(call[r].todo) = SubSeq(T, 1, i)
      /\ LastDirectory(r) <=> i = Len(T)
  BY NextToMake, Zenon
<1>2. /\ asked \in Volumes /\ asked \in Valid /\ job[r].vol = asked
      /\ T = IF job[r].pc = "createDir" THEN VolDir(asked) ELSE NodesDir(asked)
      /\ T \in Seq(Names) /\ Len(T) \in Nat \ {0}
  BY <1>1, Targets, Zenon DEF Vol
<1>. HIDE DEF T, i
<1>3. /\ SubSeq(T, 1, Len(T)) = T /\ Len(SubSeq(T, 1, i)) = i
      /\ i # Len(T) => i < Len(T)
  BY <1>1, <1>2, Parents
<1>4. /\ Len(VolDir(asked)) \in Nat /\ Len(NodesDir(asked)) \in Nat
      /\ Len(VolDir(asked)) < Len(NodesDir(asked))
  BY <1>2, OwnPaths
<1>5. CASE i = Len(T) /\ job[r].pc = "createDir"
  <2>1. entries' = Making(VolDir(asked), CreateDirArgs(Cfg(asked)))
    BY <1>1, <1>2, <1>3, <1>5, Zenon DEF Asked, Vol
  <2>2. /\ Gains(asked, {"dir"}) /\ CsiDirs' = CsiDirs
        /\ HasDir'
        /\ HasDir => entries'[VolDir(asked)] = entries[VolDir(asked)]
        /\ ~HasDir => entries'[VolDir(asked)] = CreateDirArgs(Cfg(asked))
    BY <1>2, <2>1, MakesVolume, Zenon
  <2>3. Kept
    BY <2>2, Zenon DEF Kept, CtlInv, Permitted, Complete, HasDir
  <2>. QED
    BY <1>1, <1>5, <2>2, <2>3, Zenon
<1>6. CASE i = Len(T) /\ job[r].pc = "nodesDir"
  <2>1. entries' = Making(NodesDir(asked), CreateDirArgs(Asked(r)))
    BY <1>1, <1>2, <1>3, <1>6, Zenon
  <2>2. \E perms : entries' = Making(NodesDir(asked), perms)
    BY <2>1, Zenon
  <2>3. /\ VolDirs' = VolDirs /\ CsiDirs' = [CsiDirs EXCEPT ![asked] = "nodes"]
        /\ DirKept
    BY <1>2, <2>2, MakesNodes, Zenon DEF DirKept
  <2>. QED
    BY <1>1, <1>6, <2>3, KeptIfSame, Zenon
<1>7. CASE i # Len(T)
  <2>1. SubSeq(T, 1, i) # NodesDir(asked)
    BY <1>1, <1>2, <1>3, <1>4, <1>7
  <2>2. SubSeq(T, 1, i) # VolDir(asked) \/ HasDir
    <3>1. CASE job[r].pc = "createDir"
      BY <1>1, <1>2, <1>3, <1>4, <1>7, <3>1, Zenon
    <3>2. CASE job[r].pc = "nodesDir"
      BY <3>2, Zenon DEF CtlInv, Permitted, Reached, Complete
    <3>. QED
      BY <1>1, <3>1, <3>2, Zenon
  <2>3. \E p \in {VolDir(asked), NodesDir(asked)} :
           \E j \in 1..Len(p) :
              /\ SubSeq(T, 1, i) = SubSeq(p, 1, j)
              /\ \E perms : entries' = Making(SubSeq(p, 1, j), perms)
    BY <1>1, <1>2, Zenon
  <2>4. VolDirs' = VolDirs /\ CsiDirs' = CsiDirs /\ DirKept
    BY <1>2, <2>1, <2>2, <2>3, MakesParent, Zenon DEF DirKept
  <2>. QED
    BY <1>1, <1>7, <2>4, KeptIfSame, Zenon
<1>. QED
  BY <1>1, <1>5, <1>6, <1>7, Zenon

\* What remains of the loop after one turn.
LEMMA TailOfLoop ==
    ASSUME NEW todo \in Seq(Seq(Names)), NEW T, Len(T) \in Nat,
           Len(todo) \in 1..Len(T), Len(todo) # 1,
           \A j \in 1..Len(todo) : todo[j] = SubSeq(T, 1, (Len(T) - Len(todo)) + j)
    PROVE  /\ Tail(todo) \in Seq(Seq(Names)) /\ Len(Tail(todo)) \in 1..Len(T)
           /\ \A j \in 1..Len(Tail(todo)) :
                 Tail(todo)[j] = SubSeq(T, 1, (Len(T) - Len(Tail(todo))) + j)
<1>. DEFINE n == Len(T)
            S == Seq(Names)
<1>. HIDE DEF n, S
<1>0. /\ n \in Nat /\ todo \in Seq(S) /\ Len(todo) \in 1..n
      /\ \A j \in 1..Len(todo) : todo[j] = SubSeq(T, 1, (n - Len(todo)) + j)
  BY Zenon DEF n, S
<1>1. \A m : m \in 1..n /\ m # 1 =>
         /\ m \in Nat /\ m # 0 /\ m - 1 \in 1..n
         /\ \A j \in 1..(m - 1) : j + 1 \in 1..m /\ (n - m) + (j + 1) = (n - (m - 1)) + j
  BY <1>0
<1>. DEFINE m == Len(todo)
<1>2. /\ m - 1 \in 1..n /\ todo # <<>>
      /\ \A j \in 1..(m - 1) : j + 1 \in 1..m /\ (n - m) + (j + 1) = (n - (m - 1)) + j
  <2>1. Len(todo) # 0
    BY <1>0, <1>1, Zenon
  <2>2. todo # <<>>
    BY <1>0, <2>1
  <2>. QED
    BY <1>0, <1>1, <2>2, Zenon
<1>3. /\ Tail(todo) \in Seq(S) /\ Len(Tail(todo)) = m - 1
      /\ \A j \in 1..(m - 1) : Tail(todo)[j] = todo[j + 1]
  BY <1>0, <1>2
<1>4. ASSUME NEW j \in 1..(m - 1)
      PROVE  Tail(todo)[j] = SubSeq(T, 1, (n - (m - 1)) + j)
  <2>1. j + 1 \in 1..m /\ (n - m) + (j + 1) = (n - (m - 1)) + j
    BY <1>2, Zenon
  <2>2. todo[j + 1] = SubSeq(T, 1, (n - m) + (j + 1))
    BY <1>0, <2>1, Zenon
  <2>. QED
    BY <1>3, <2>1, <2>2, Zenon
<1>. HIDE DEF m
<1>. QED
  BY <1>2, <1>3, <1>4, Zenon DEF n, S

LEMMA MakeDirectoryStep ==
    ASSUME CtlInv, NEW r \in Requests, MakeDirectory(r)
    PROVE  Mapped(r) /\ CallsFit' /\ OnlyAsked' /\ Permitted' /\ DiskFits'
<1>. DEFINE made == Making(Head(call[r].todo), CreateDirArgs(Asked(r)))
<1>0. /\ InCall(r, "make") /\ job[r].pc \in {"createDir", "nodesDir"}
      /\ job[r].vol = asked /\ asked \in Volumes
  BY NextToMake, Targets, Zenon DEF MakeDirectory, Vol
<1>1. /\ UNCHANGED <<locks, status, host, phase, restarts, patterned, asked>>
      /\ DiskFits'
  BY DiskUnchanged, Zenon DEF MakeDirectory, hostVars
<1>2. CASE entries' = made /\ LastDirectory(r) /\ Succeed(r, AfterCreate(r))
  <2>1. CASE job[r].pc = "createDir"
    <3>1. Kept /\ CsiDirs' = CsiDirs /\ Gains(asked, {"dir"}) /\ HasDir'
      BY <1>0, <1>1, <1>2, <2>1, Makes, Zenon
    <3>2. AfterCreate(r) = "setPattern"
      BY <2>1, Zenon DEF AfterCreate
    <3>3. CallsFit' /\ OnlyAsked' /\ Permitted'
      BY <1>1, <1>2, <2>1, <3>1, <3>2, SucceedStep, Zenon
    <3>4. Ctrl!OnVolume(r, "dir", "setPattern")
      BY <1>0, <1>2, <2>1, <3>1, <3>2, VolumeCall, Zenon
    <3>5. Ctrl!CreateDirectory(r)
      BY <1>1, <2>1, <3>1, <3>4, Zenon DEF Ctrl!CreateDirectory, Ctrl!At
    <3>. QED
      BY <1>1, <3>3, <3>5, Zenon DEF Mapped, Ctrl!Step
  <2>2. CASE job[r].pc = "nodesDir"
    <3>1. Kept /\ VolDirs' = VolDirs /\ CsiDirs' = [CsiDirs EXCEPT ![asked] = "nodes"]
      BY <1>0, <1>1, <1>2, <2>2, Makes, Zenon
    <3>2. AfterCreate(r) = "created" /\ Complete'
      BY <2>2, <3>1, Zenon DEF AfterCreate, CtlInv, Permitted, Reached, Kept
    <3>3. CallsFit' /\ OnlyAsked' /\ Permitted'
      BY <1>1, <1>2, <2>2, <3>1, <3>2, SucceedStep, Zenon
    <3>4. Ctrl!CreateNodesDirectory(r)
      BY <1>0, <1>1, <1>2, <2>2, <3>1, <3>2, NodesCall, Zenon
    <3>. QED
      BY <1>1, <3>3, <3>4, Zenon DEF Mapped, Ctrl!Step
  <2>. QED
    BY <1>0, <2>1, <2>2, Zenon
<1>3. CASE /\ entries' = made /\ ~LastDirectory(r)
           /\ call' = [call EXCEPT ![r].todo = Tail(@)] /\ UNCHANGED <<job, faults>>
  <2>1. Kept /\ VolDirs' = VolDirs /\ CsiDirs' = CsiDirs
    BY <1>0, <1>1, <1>3, Makes, Zenon
  <2>. DEFINE T == Target(r)
              todo == call[r].todo
              rest == Tail(todo)
              c == [call[r] EXCEPT !.todo = rest]
  <2>2. /\ todo \in Seq(Seq(Names)) /\ T \in Seq(Names) /\ call[r] \in Callings
        /\ Len(todo) \in 1..Len(T) /\ Len(todo) # 1
        /\ \A j \in 1..Len(todo) : todo[j] = SubSeq(T, 1, (Len(T) - Len(todo)) + j)
    <3>1. Pending(r) /\ todo \in Seq(Seq(Names)) /\ call[r] \in Callings
      BY <1>0, NextToMake, Zenon DEF CtlInv, CallsFit, InCall
    <3>. QED
      BY <1>0, <1>3, <3>1, Targets, Zenon DEF Pending, LastDirectory
  <2>3. T' = T
    BY <1>3, Zenon DEF Target, Vol
  <2>. HIDE DEF T, todo, rest
  <2>4. /\ rest \in Seq(Seq(Names)) /\ Len(rest) \in 1..Len(T)
        /\ \A j \in 1..Len(rest) : rest[j] = SubSeq(T, 1, (Len(T) - Len(rest)) + j)
    <3>1. Len(T) \in Nat
      BY <2>2
    <3>. QED
      BY <2>2, <3>1, TailOfLoop, Zenon DEF rest
  <2>5. c \in Callings /\ c.step = call[r].step /\ c.todo = rest
    BY <2>2, <2>4, Zenon DEF Callings
  <2>6. call' = [call EXCEPT ![r] = c] /\ call'[r] = c
    <3>1. call' = [call EXCEPT ![r] = c]
      BY <1>3, Zenon DEF rest, todo
    <3>. QED
      BY <3>1, Zenon DEF CtlInv, CallsFit
  <2>. HIDE DEF c
  <2>7. Pending(r)'
    BY <2>3, <2>4, <2>5, <2>6, Zenon DEF Pending, T
  <2>8. UNCHANGED ctrlVars
    BY <1>1, <1>3, Zenon DEF ctrlVars
  <2>9. CallsFit' /\ OnlyAsked' /\ Permitted'
    BY <1>0, <1>1, <2>1, <2>5, <2>6, <2>7, <2>8, CallGoesOn, Zenon DEF Calls
  <2>. QED
    BY <1>1, <2>1, <2>8, <2>9, Stutters, Zenon DEF Mapped
<1>4. CASE Fail(r) /\ entries' = entries
  <2>1. Ctrl!Step(r) /\ CallsFit' /\ OnlyAsked' /\ Permitted'
    BY <1>0, <1>4, EarlyFailure, Zenon DEF MakeDirectory, beegfsVars, Calls
  <2>. QED
    BY <1>1, <2>1, Zenon DEF Mapped
<1>5. CASE Fail(r) /\ entries' = made
  <2>0. Kept
    BY <1>0, <1>1, <1>5, Makes, Zenon
  <2>1. CallsFit' /\ OnlyAsked' /\ Permitted'
    BY <1>0, <1>1, <1>5, <2>0, FailStep, Zenon
  <2>2. CASE job[r].pc = "createDir"
    <3>1. CsiDirs' = CsiDirs /\ (VolDirs' = VolDirs \/ Gains(asked, {"dir"}))
      BY <1>0, <1>1, <1>5, <2>2, Makes, Zenon
    <3>2. Ctrl!OnVolume(r, "dir", "setPattern")
      BY <1>0, <1>5, <2>2, <3>1, VolumeCall, Zenon
    <3>3. Ctrl!CreateDirectory(r)
      BY <1>1, <2>2, <3>1, <3>2, Zenon DEF Ctrl!CreateDirectory, Ctrl!At
    <3>. QED
      BY <1>1, <2>1, <3>3, Zenon DEF Mapped, Ctrl!Step
  <2>3. CASE job[r].pc = "nodesDir"
    <3>1. /\ VolDirs' = VolDirs
          /\ CsiDirs' = CsiDirs \/ CsiDirs' = [CsiDirs EXCEPT ![asked] = "nodes"]
      BY <1>0, <1>1, <1>5, <2>3, Makes, Zenon
    <3>2. Ctrl!CreateNodesDirectory(r)
      BY <1>0, <1>1, <1>5, <2>3, <3>1, NodesCall, Zenon
    <3>. QED
      BY <1>1, <2>1, <3>2, Zenon DEF Mapped, Ctrl!Step
  <2>. QED
    BY <1>0, <2>2, <2>3, Zenon
<1>. QED
  BY <1>2, <1>3, <1>4, <1>5, Zenon DEF MakeDirectory

LEMMA SetPatternStep ==
    ASSUME CtlInv, NEW r \in Requests, SetPattern(r)
    PROVE  Mapped(r) /\ CallsFit' /\ OnlyAsked' /\ Permitted' /\ DiskFits'
<1>0. /\ job[r].pc = "setPattern" /\ job[r].vol = asked
      /\ asked \in Volumes /\ asked \in Valid /\ HasDir
  BY Zenon DEF SetPattern, At, CtlInv, OnlyAsked, Permitted, Reached
<1>1. /\ UNCHANGED <<locks, status, host, phase, restarts, entries, asked>>
      /\ DiskFits' /\ Kept /\ DirKept
  BY DiskUnchanged, KeptIfUnchanged, Zenon DEF SetPattern, hostVars
<1>2. /\ patterned' = patterned => VolDirs' = VolDirs /\ CsiDirs' = CsiDirs
      /\ patterned' = patterned \cup {asked} =>
            Gains(asked, {"pattern"}) /\ CsiDirs' = CsiDirs
  BY <1>0, <1>1, SetsPattern, SeenUnchanged, Zenon DEF beegfsVars
<1>3. AfterPattern(r) = IF asked \in Special THEN "mount" ELSE "nodesDir"
  BY <1>0, Zenon DEF AfterPattern, Vol
<1>4. asked \notin Special => Complete'
  BY <1>0, <1>1, PermissionsReached, Zenon
     DEF CtlInv, Permitted, Complete, HasDir, DirKept
<1>5. CASE patterned' = patterned \cup {asked} /\ Succeed(r, AfterPattern(r))
  <2>1. CallsFit' /\ OnlyAsked' /\ Permitted'
    BY <1>0, <1>1, <1>3, <1>4, <1>5, SucceedStep, Zenon DEF DirKept
  <2>2. Ctrl!OnVolume(r, "pattern", AfterPattern(r))
    BY <1>0, <1>2, <1>5, VolumeCall, Zenon
  <2>3. Ctrl!SetPattern(r)
    BY <1>0, <1>1, <1>2, <1>3, <1>5, <2>2, Zenon DEF Ctrl!SetPattern, Ctrl!At
  <2>. QED
    BY <1>1, <2>1, <2>3, Zenon DEF Mapped, Ctrl!Step
<1>6. CASE Fail(r) /\ (patterned' = patterned \/ patterned' = patterned \cup {asked})
  <2>1. CallsFit' /\ OnlyAsked' /\ Permitted'
    BY <1>0, <1>1, <1>6, FailStep, Zenon
  <2>2. Ctrl!OnVolume(r, "pattern", AfterPattern(r))
    BY <1>0, <1>2, <1>6, VolumeCall, Zenon
  <2>3. Ctrl!SetPattern(r)
    BY <1>0, <1>1, <1>2, <1>3, <1>6, <2>2, Zenon DEF Ctrl!SetPattern, Ctrl!At
  <2>. QED
    BY <1>1, <2>1, <2>3, Zenon DEF Mapped, Ctrl!Step
<1>. QED
  BY <1>0, <1>5, <1>6, Zenon DEF SetPattern, Vol

LEMMA ChmodStep ==
    ASSUME CtlInv, NEW r \in Requests, Chmod(r)
    PROVE  Mapped(r) /\ CallsFit' /\ OnlyAsked' /\ Permitted' /\ DiskFits'
<1>0. /\ job[r].pc = "chmod" /\ job[r].vol = asked
      /\ asked \in Volumes /\ asked \in Valid /\ HasDir /\ asked \in Special
      /\ entries[VolDir(asked)] \in {Cfg(asked), CreateDirArgs(Cfg(asked))}
  BY Zenon DEF Chmod, CtlInv, OnlyAsked, Permitted, Reached
<1>1. /\ UNCHANGED <<locks, status, host, phase, restarts, patterned, asked>>
      /\ DiskFits'
  BY DiskUnchanged, Zenon DEF Chmod, hostVars
<1>. DEFINE set == [entries EXCEPT ![VolDir(asked)] = Chmodded(@, asked)]
<1>2. /\ entries' = set => Gains(asked, {"mode"}) /\ CsiDirs' = CsiDirs /\ Kept /\ Complete'
      /\ entries' = entries => VolDirs' = VolDirs /\ CsiDirs' = CsiDirs /\ Kept
  <2>1. ASSUME entries' = set
        PROVE  Gains(asked, {"mode"}) /\ CsiDirs' = CsiDirs /\ Kept /\ Complete'
    <3>1. /\ Gains(asked, {"mode"}) /\ CsiDirs' = CsiDirs
          /\ HasDir' /\ entries'[VolDir(asked)] = Cfg(asked)
      BY <1>0, <1>1, <2>1, SetsMode, Zenon
    <3>. QED
      BY <1>1, <3>1, Zenon DEF Kept, Complete
  <2>2. ASSUME entries' = entries
        PROVE  VolDirs' = VolDirs /\ CsiDirs' = CsiDirs /\ Kept
    BY <1>1, <2>2, KeptIfUnchanged, SeenUnchanged, Zenon DEF beegfsVars
  <2>. QED
    BY <2>1, <2>2, Zenon
<1>3. \/ entries' = set /\ Succeed(r, "nodesDir")
      \/ (entries' = entries \/ entries' = set) /\ Fail(r)
  BY <1>0, Zenon DEF Chmod, Chmodded, Vol
<1>. HIDE DEF set
<1>4. CASE entries' = set /\ Succeed(r, "nodesDir")
  <2>1. CallsFit' /\ OnlyAsked' /\ Permitted'
    BY <1>0, <1>1, <1>2, <1>4, SucceedStep, Zenon
  <2>2. Ctrl!OnVolume(r, "mode", "nodesDir")
    BY <1>0, <1>2, <1>4, VolumeCall, Zenon
  <2>3. Ctrl!Chmod(r)
    BY <1>0, <1>1, <1>2, <1>4, <2>2, Zenon DEF Ctrl!Chmod, Ctrl!At
  <2>. QED
    BY <1>1, <2>1, <2>3, Zenon DEF Mapped, Ctrl!Step
<1>5. CASE (entries' = entries \/ entries' = set) /\ Fail(r)
  <2>1. CallsFit' /\ OnlyAsked' /\ Permitted'
    BY <1>0, <1>1, <1>2, <1>5, FailStep, Zenon
  <2>2. Ctrl!OnVolume(r, "mode", "nodesDir")
    BY <1>0, <1>2, <1>5, VolumeCall, Zenon
  <2>3. Ctrl!Chmod(r)
    BY <1>0, <1>1, <1>2, <1>5, <2>2, Zenon DEF Ctrl!Chmod, Ctrl!At
  <2>. QED
    BY <1>1, <2>1, <2>3, Zenon DEF Mapped, Ctrl!Step
<1>. QED
  BY <1>3, <1>4, <1>5, Zenon

(***************************************************************************)
(* mountDirPath.                                                           *)
(***************************************************************************)
\* The loop over the options makes a file with all keys of the template.
LEMMA ConfsNotEmpty ==
    ASSUME NEW keys, NEW options, NEW c \in Confs(keys, options)
    PROVE  DOMAIN c = keys /\ keys # {}
<1>1. PICK e : c = [k \in keys |-> e.conf[k]] /\ CanBeAddressed(keys)
  BY Zenon DEF Confs
<1>2. keys # {}
  BY <1>1, Zenon DEF CanBeAddressed
<1>. QED
  BY <1>1, <1>2, Zenon

\* When writeClientFiles is done there is a beegfs-client.conf, and an error
\* leaves the one there was, or none.
LEMMA Written ==
    ASSUME NEW d, d = [conf |-> d.conf, files |-> d.files], NEW keys, NEW given,
           NEW o \in Outcomes(d, keys, given)
    PROVE  /\ o.ok \in BOOLEAN
           /\ o.disk = [conf |-> o.disk.conf, files |-> o.disk.files]
           /\ o.ok => o.disk.conf # NoConf
           /\ ~o.ok => o.disk.conf \in {d.conf, NoConf}
<1>1. \A n : /\ AfterFiles(d, given, n).conf = d.conf
             /\ AfterFiles(d, given, n) =
                  [conf |-> d.conf, files |-> AfterFiles(d, given, n).files]
  <2>. TAKE n
  <2>. DEFINE F == Restrict(given.files, {FilesOf(given)[i] : i \in 1..n}) @@ d.files
  <2>1. AfterFiles(d, given, n) = [d EXCEPT !.files = F]
    BY Zenon DEF AfterFiles
  <2>. HIDE DEF F
  <2>. QED
    BY <2>1, Zenon
<1>2. \A n : /\ TornFile(d, given, n).conf = d.conf
             /\ TornFile(d, given, n) =
                  [conf |-> d.conf, files |-> TornFile(d, given, n).files]
  <2>. TAKE n
  <2>. DEFINE A == AfterFiles(d, given, n - 1)
              F == Restrict(A.files, DOMAIN A.files \ {FilesOf(given)[n]})
  <2>1. /\ TornFile(d, given, n) = [A EXCEPT !.files = F]
        /\ A = [conf |-> d.conf, files |-> A.files]
    BY <1>1, Zenon DEF TornFile
  <2>. HIDE DEF F, A
  <2>. QED
    BY <2>1
<1>3. ASSUME NEW x \in {d} \cup TornDisks(d, keys, given)
      PROVE  x.conf \in {d.conf, NoConf} /\ x = [conf |-> x.conf, files |-> x.files]
  BY <1>1, <1>2 DEF TornDisks
<1>4. ASSUME NEW x \in WrittenDisks(d, keys, given, Confs(keys, given.options))
      PROVE  x.conf # NoConf /\ x = [conf |-> x.conf, files |-> x.files]
  <2>1. PICK n \in AllReached(keys, given), c \in Confs(keys, given.options) :
           x = [AfterFiles(d, given, n) EXCEPT !.conf = Naming(c, DOMAIN given.files)]
    BY <1>4 DEF WrittenDisks
  <2>. DEFINE N == Naming(c, DOMAIN given.files)
  <2>2. DOMAIN N # {}
    BY ConfsNotEmpty, Zenon DEF Naming
  <2>. HIDE DEF N
  <2>3. N # NoConf
    BY <2>2 DEF NoConf
  <2>4. AfterFiles(d, given, n) = [conf |-> d.conf, files |-> AfterFiles(d, given, n).files]
    BY <1>1, Zenon
  <2>. QED
    BY <2>1, <2>3, <2>4 DEF N
<1>5. CASE \E x \in WrittenDisks(d, keys, given, Confs(keys, given.options)) :
               o = [disk |-> x, ok |-> TRUE]
  BY <1>4, <1>5
<1>6. CASE \E x \in {d} \cup TornDisks(d, keys, given) : o = [disk |-> x, ok |-> FALSE]
  BY <1>3, <1>6
<1>. QED
  BY <1>5, <1>6, Zenon DEF Outcomes

\* What becomes of mountDirPath.
LEMMA DiskChanges ==
    ASSUME CtlInv, NEW d \in Ctrl!Dirs, NEW h, NEW x,
           host' = [host EXCEPT ![d] = h], disk' = [disk EXCEPT ![d] = x],
           x = [conf |-> x.conf, files |-> x.files], h.conf <=> x.conf # NoConf
    PROVE  DiskFits'
<1>1. DOMAIN disk = Ctrl!Dirs /\ DOMAIN host = Ctrl!Dirs
  BY Zenon DEF CtlInv, DiskFits, Ctrl!TypeOK
<1>2. /\ DOMAIN disk' = Ctrl!Dirs /\ disk'[d] = x /\ host'[d] = h
      /\ \A e \in Ctrl!Dirs \ {d} : disk'[e] = disk[e] /\ host'[e] = host[e]
  BY <1>1, Zenon
<1>3. /\ \A e \in Ctrl!Dirs : disk[e] = [conf |-> disk[e].conf, files |-> disk[e].files]
      /\ \A e \in Ctrl!Dirs : host[e].conf <=> disk[e].conf # NoConf
  BY Zenon DEF CtlInv, DiskFits
<1>4. \A e \in Ctrl!Dirs : /\ disk'[e] = [conf |-> disk'[e].conf, files |-> disk'[e].files]
                           /\ host'[e].conf <=> disk'[e].conf # NoConf
  <2>. TAKE e \in Ctrl!Dirs
  <2>1. CASE e = d
    BY <1>2, <2>1
  <2>2. CASE e # d
    BY <1>2, <1>3, <2>2
  <2>. QED
    BY <2>1, <2>2, Zenon
<1>5. Ctrl!Dirs' = Ctrl!Dirs
  BY Zenon DEF Ctrl!Dirs
<1>. QED
  BY <1>2, <1>4, <1>5, Zenon DEF DiskFits

LEMMA OwnDir ==
    ASSUME CtlInv, NEW r \in Requests, job[r].pc # "idle"
    PROVE  /\ job[r].vol = asked /\ job[r].op = "create" /\ asked \in Volumes
           /\ Dir(r) = MountDir[asked] /\ Dir(r) \in Ctrl!Dirs /\ Ctrl!Dir(r) = Dir(r)
           /\ host[Dir(r)] \in HostDirs
           /\ DOMAIN host = Ctrl!Dirs
           /\ disk[Dir(r)] = [conf |-> disk[Dir(r)].conf, files |-> disk[Dir(r)].files]
           /\ host[Dir(r)].conf <=> disk[Dir(r)].conf # NoConf
<1>1. job[r].vol = asked /\ job[r].op = "create" /\ asked \in Volumes
  BY Zenon DEF CtlInv, OnlyAsked
<1>2. /\ Dir(r) = MountDir[asked] /\ Dir(r) \in Ctrl!Dirs /\ Ctrl!Dir(r) = Dir(r)
  BY <1>1, Zenon DEF Dir, Vol, Ctrl!Dir, Ctrl!Dirs
<1>3. host \in [Ctrl!Dirs -> HostDirs]
  <2>1. host \in [Ctrl!Dirs -> Ctrl!HostDirs]
    BY Zenon DEF CtlInv, Ctrl!TypeOK
  <2>. QED
    BY <2>1, Zenon DEF Ctrl!HostDirs, HostDirs, Ctrl!MountStates, MountStates
<1>. QED
  BY <1>1, <1>2, <1>3, Zenon DEF CtlInv, DiskFits

LEMMA WriteClientFilesStep ==
    ASSUME CtlInv, NEW r \in Requests, WriteClientFiles(r)
    PROVE  Mapped(r) /\ CallsFit' /\ OnlyAsked' /\ Permitted' /\ DiskFits'
<1>. DEFINE D == Dir(r)
            h == host[D]
<1>0. job[r].pc = "write"
  BY Zenon DEF WriteClientFiles
<1>1. /\ job[r].vol = asked /\ job[r].op = "create" /\ D \in Ctrl!Dirs /\ Ctrl!Dir(r) = D
      /\ h \in HostDirs /\ disk[D] = [conf |-> disk[D].conf, files |-> disk[D].files]
      /\ h.conf <=> disk[D].conf # NoConf
  BY <1>0, OwnDir, Zenon
<1>2. /\ UNCHANGED <<locks, status, phase, restarts, beegfsVars, asked>>
      /\ Kept /\ VolDirs' = VolDirs /\ CsiDirs' = CsiDirs
  BY KeptIfUnchanged, SeenUnchanged, Zenon DEF WriteClientFiles, hostVars, beegfsVars
<1>3. PICK o \in Outcomes(disk[D], template, config) :
          /\ disk' = [disk EXCEPT ![D] = o.disk]
          /\ host' = [host EXCEPT ![D].conf = o.disk.conf # NoConf]
          /\ \/ o.ok /\ Succeed(r, "createDir")
             \/ ~o.ok /\ MayFail(r) /\ Fail(r)
  BY Zenon DEF WriteClientFiles
<1>. HIDE DEF D
<1>. DEFINE conf == o.disk.conf # NoConf
            k == [h EXCEPT !.conf = conf]
<1>4. /\ o.ok \in BOOLEAN /\ o.disk = [conf |-> o.disk.conf, files |-> o.disk.files]
      /\ o.ok => o.disk.conf # NoConf
      /\ ~o.ok => o.disk.conf \in {disk[D].conf, NoConf}
  <2>. DEFINE d == disk[D]
  <2>1. d = [conf |-> d.conf, files |-> d.files] /\ o \in Outcomes(d, template, config)
    BY <1>1, <1>3, Zenon
  <2>. HIDE DEF d
  <2>2. /\ o.ok \in BOOLEAN /\ o.disk = [conf |-> o.disk.conf, files |-> o.disk.files]
        /\ o.ok => o.disk.conf # NoConf
        /\ ~o.ok => o.disk.conf \in {d.conf, NoConf}
    BY <2>1, Written
  <2>. QED
    BY <2>2, Zenon DEF d
<1>5. host' = [host EXCEPT ![D] = k]
  BY <1>3, Zenon
<1>6. k.conf <=> o.disk.conf # NoConf
  <2>1. conf \in BOOLEAN
    OBVIOUS
  <2>. HIDE DEF conf, h
  <2>2. k.conf = conf
    BY <1>1, <2>1 DEF HostDirs
  <2>. QED
    BY <2>2, Zenon DEF conf
<1>7. /\ o.ok => k = [h EXCEPT !.conf = TRUE]
      /\ ~o.ok => k = h \/ k = [h EXCEPT !.conf = FALSE]
  <2>1. conf \in BOOLEAN /\ (o.ok => conf) /\ (~o.ok => conf = h.conf \/ conf = FALSE)
    BY <1>1, <1>4, Zenon DEF HostDirs
  <2>. HIDE DEF conf, h
  <2>2. h = [h EXCEPT !.conf = h.conf]
    BY <1>1, Zenon DEF HostDirs
  <2>. QED
    BY <2>1, <2>2, Zenon
<1>. HIDE DEF k, conf, h
<1>8. DiskFits'
  BY <1>1, <1>3, <1>4, <1>5, <1>6, DiskChanges, Zenon
<1>9. \/ o.ok /\ Succeed(r, "createDir")
      \/ ~o.ok /\ Fail(r)
  BY <1>3, Zenon
<1>10. CallsFit' /\ OnlyAsked' /\ Permitted'
  BY <1>0, <1>2, <1>9, SucceedStep, FailStep, Zenon
<1>11. Ctrl!WriteClientFiles(r)
  <2>1. \E q \in writeClientFiles(h) :
           /\ host' = [host EXCEPT ![D] = q.host]
           /\ \/ q.ok /\ Ctrl!Goto(r, "createDir") /\ UNCHANGED faults
              \/ ~q.ok /\ Ctrl!CallFails(r) /\ Ctrl!Return(r)
    <3>1. CASE o.ok /\ Succeed(r, "createDir")
      <4>. DEFINE q == Done([h EXCEPT !.conf = TRUE])
      <4>1. q \in writeClientFiles(h) /\ q.host = k /\ q.ok
        BY <1>7, <3>1 DEF writeClientFiles, Done
      <4>. HIDE DEF q
      <4>. QED
        BY <1>5, <3>1, <4>1, Zenon DEF Succeed
    <3>2. CASE ~o.ok /\ Fail(r)
      <4>. DEFINE q == Error(k)
      <4>1. q \in writeClientFiles(h) /\ q.host = k /\ ~q.ok
        BY <1>7, <3>2, Zenon DEF writeClientFiles, Error
      <4>. HIDE DEF q
      <4>. QED
        BY <1>0, <1>5, <3>2, <4>1, Zenon DEF Fail
    <3>. QED
      BY <1>9, <3>1, <3>2
  <2>2. Ctrl!writeClientFiles(h) = writeClientFiles(h)
    BY Zenon DEF Ctrl!writeClientFiles, writeClientFiles, Ctrl!Done, Done, Ctrl!Error, Error
  <2>3. (CASE job[r].op = "create" -> "createDir"
           [] job[r].op = "delete" -> "mount"
           [] OTHER -> "stat") = "createDir"
    BY <1>1, Zenon
  <2>4. Ctrl!OnHost(r, Ctrl!writeClientFiles(host[Ctrl!Dir(r)]), "createDir")
    BY <1>1, <2>1, <2>2, Zenon DEF Ctrl!OnHost, h
  <2>. QED
    BY <1>0, <1>2, <2>3, <2>4, Zenon DEF Ctrl!WriteClientFiles, Ctrl!At, Ctrl!beegfs
<1>. QED
  BY <1>8, <1>10, <1>11, Zenon DEF Mapped, Ctrl!Step

(***************************************************************************)
(* Steps that are not refined.                                             *)
(***************************************************************************)
\* The handler goes on at point, or returns an error.
Moves(r, point) ==
    /\ job'[r].vol = job[r].vol /\ job'[r].op = job[r].op
    /\ \A q \in Requests \ {r} : job'[q] = job[q]
    /\ \/ job'[r].pc = point /\ job'[r].ok = job[r].ok
       \/ /\ job'[r].pc = IF job[r].pc \in {"list", "unmount", "remove"}
                          THEN "release" ELSE "list"
          /\ job'[r].ok => job[r].ok /\ job[r].pc \in {"list", "unmount", "remove"}

LEMMA GotoOrReturn ==
    ASSUME CtlInv, NEW r \in Requests, job[r].pc # "idle", NEW point,
           Ctrl!Goto(r, point) \/ Ctrl!Return(r)
    PROVE  Moves(r, point)
<1>1. Ctrl!TypeOK /\ job[r].op = "create"
  BY Zenon DEF CtlInv, OnlyAsked
<1>2. CASE Ctrl!Goto(r, point)
  BY <1>1, <1>2, Goes, Zenon DEF Moves
<1>3. CASE Ctrl!Return(r)
  BY <1>1, <1>3, Returns, Zenon DEF Moves
<1>. QED
  BY <1>2, <1>3, Zenon

LEMMA MoveStep ==
    ASSUME CtlInv, NEW r \in Requests, job[r].pc # "idle", job[r].pc \notin Calls,
           NEW point, Moves(r, point), UNCHANGED <<asked, call, entries, phase>>,
           status'[asked] = "created" => Complete,
           point \notin {"idle", "setPattern", "nodesDir", "created"},
           point \in {"mount", "chmod"} => HasDir /\ asked \in Special,
           point \in {"list", "unmount", "remove", "release"} /\ job[r].ok => Complete
    PROVE  CallsFit' /\ OnlyAsked' /\ Permitted'
<1>1. /\ job'[r].vol = asked /\ job'[r].op = "create" /\ asked \in Valid
      /\ \A q \in Requests \ {r} : job'[q] = job[q]
  BY Zenon DEF Moves, CtlInv, OnlyAsked
<1>2. /\ call' = call /\ call \in [Requests -> Callings] /\ call[r] = NoCall
      /\ call[r].step # "make"
  BY NoCallIsOne, Zenon DEF CtlInv, CallsFit
<1>3. /\ HasDir' <=> HasDir
      /\ Complete' <=> Complete
      /\ HasDir' => entries'[VolDir(asked)] \in {Cfg(asked), CreateDirArgs(Cfg(asked))}
  BY Zenon DEF HasDir, Complete, CtlInv, Permitted
<1>4. Reached(r)'
  <2>1. CASE job'[r].pc = point /\ job'[r].ok = job[r].ok
    BY <1>3, <2>1, Zenon DEF Reached
  <2>2. CASE /\ job'[r].pc = IF job[r].pc \in {"list", "unmount", "remove"}
                             THEN "release" ELSE "list"
             /\ job'[r].ok => job[r].ok /\ job[r].pc \in {"list", "unmount", "remove"}
    <3>1. job'[r].pc \in {"release", "list"} /\ (job'[r].ok => Complete)
      BY <2>2, Zenon DEF CtlInv, Permitted, Reached
    <3>. QED
      BY <1>3, <3>1, Zenon DEF Reached
  <2>. QED
    BY <2>1, <2>2, Zenon DEF Moves
<1>5. /\ status'[asked] = "created" \/ phase'[asked] = "use" => Complete'
      /\ \A v \in Volumes \ {asked} : phase'[v] = "create"
  BY <1>3, Zenon DEF CtlInv, OnlyAsked, Permitted
<1>. QED
  BY <1>1, <1>2, <1>3, <1>4, <1>5, OneHandler, Zenon

\* A call on mountDirPath.
LEMMA HostCall ==
    ASSUME CtlInv, NEW r \in Requests, job[r].pc # "idle", NEW outcomes, NEW point,
           Ctrl!OnHost(r, outcomes, point)
    PROVE  /\ Moves(r, point)
           /\ \E o \in outcomes : host' = [host EXCEPT ![Dir(r)] = o.host]
<1>1. PICK o \in outcomes : /\ host' = [host EXCEPT ![Ctrl!Dir(r)] = o.host]
                            /\ Ctrl!Goto(r, point) \/ Ctrl!Return(r)
  BY Zenon DEF Ctrl!OnHost
<1>2. Ctrl!Dir(r) = Dir(r)
  BY OwnDir, Zenon
<1>. QED
  BY <1>1, <1>2, GotoOrReturn, Zenon

\* The others leave beegfs-client.conf alone, and cleanUpIfNecessary makes none.
LEMMA ConfKept ==
    ASSUME NEW h \in HostDirs
    PROVE  /\ \A o \in MkdirAll(h) \cup mountIfNecessary(h) \cup CleanupMountPoint(h) :
                 o.host.conf = h.conf
           /\ \A o \in cleanUpIfNecessary(h) : o.host.conf => h.conf
           /\ \A o \in cleanUpIfNecessary(h) : o.host.conf \in BOOLEAN
<1>1. \A o \in MkdirAll(h) : o.host.conf = h.conf
  BY DEF MkdirAll, HostDirs, Done, Error
<1>2. \A o \in mountIfNecessary(h) : o.host.conf = h.conf
  BY DEF mountIfNecessary, HostDirs, Done, Error
<1>3. \A o \in CleanupMountPoint(h) : o.host.conf = h.conf
  BY DEF CleanupMountPoint, HostDirs, Done, Error
<1>4. \A o \in cleanUpIfNecessary(h) : /\ o.host.conf => h.conf
                                       /\ o.host.conf \in BOOLEAN
  <2>1. Absent.conf = FALSE /\ [h EXCEPT !.conf = FALSE].conf = FALSE /\ h.conf \in BOOLEAN
    BY Zenon DEF HostDirs, Absent
  <2>2. /\ Done(Absent).host = Absent /\ Error(h).host = h
        /\ Error([h EXCEPT !.conf = FALSE]).host = [h EXCEPT !.conf = FALSE]
    BY Zenon DEF Done, Error
  <2>3. \A o \in cleanUpIfNecessary(h) :
           o \in {Done(Absent), Error(h), Error([h EXCEPT !.conf = FALSE])}
    BY Zenon DEF cleanUpIfNecessary
  <2>. QED
    BY <2>1, <2>2, <2>3, Zenon
<1>. QED
  BY <1>1, <1>2, <1>3, <1>4, Zenon

LEMMA ConfStays ==
    ASSUME CtlInv, NEW r \in Requests, job[r].pc # "idle", UNCHANGED disk,
           NEW o, o.host.conf = host[Dir(r)].conf, host' = [host EXCEPT ![Dir(r)] = o.host]
    PROVE  DiskFits'
<1>1. Dir(r) \in Ctrl!Dirs /\ DOMAIN host = Ctrl!Dirs
  BY OwnDir, Zenon
<1>2. \A e \in Ctrl!Dirs : host'[e].conf = host[e].conf
  BY <1>1, Zenon
<1>3. Ctrl!Dirs' = Ctrl!Dirs
  BY Zenon DEF Ctrl!Dirs
<1>. QED
  BY <1>2, <1>3, Zenon DEF CtlInv, DiskFits

LEMMA RemoveMountDirStep ==
    ASSUME CtlInv, NEW r \in Requests, RemoveMountDir(r)
    PROVE  Mapped(r) /\ CallsFit' /\ OnlyAsked' /\ Permitted' /\ DiskFits'
<1>. DEFINE D == Dir(r)
            h == host[D]
<1>1. job[r].pc = "remove" /\ Ctrl!RemoveMountDir(r)
  BY Zenon DEF RemoveMountDir, Ctrl!RemoveMountDir, Ctrl!At
<1>2. /\ job[r].op = "create" /\ D \in Ctrl!Dirs /\ Ctrl!Dir(r) = D /\ h \in HostDirs
      /\ disk[D] = [conf |-> disk[D].conf, files |-> disk[D].files]
      /\ DOMAIN host = Ctrl!Dirs
      /\ h.conf <=> disk[D].conf # NoConf
  BY <1>1, OwnDir, Zenon
<1>3. Ctrl!cleanUpIfNecessary(h) = cleanUpIfNecessary(h) /\ Ctrl!AfterCleanup(r) = "release"
  BY <1>2, Zenon DEF Ctrl!cleanUpIfNecessary, cleanUpIfNecessary, Ctrl!Done, Done, Ctrl!Error,
     Error, Ctrl!Absent, Absent, Ctrl!AfterCleanup
<1>4. /\ Moves(r, "release")
      /\ \E o \in cleanUpIfNecessary(h) : host' = [host EXCEPT ![D] = o.host]
  <2>1. CASE Ctrl!OnHost(r, Ctrl!cleanUpIfNecessary(host[Ctrl!Dir(r)]), Ctrl!AfterCleanup(r))
    <3>1. Ctrl!OnHost(r, cleanUpIfNecessary(h), "release") /\ job[r].pc # "idle"
      BY <1>1, <1>2, <1>3, <2>1
    <3>. QED
      BY <3>1, HostCall, Zenon
  <2>2. CASE /\ \E o \in Ctrl!cleanUpIfNecessary(host[Ctrl!Dir(r)]) :
                    host' = [host EXCEPT ![Ctrl!Dir(r)] = o.host]
             /\ Ctrl!Return(r)
    BY <1>1, <1>2, <1>3, <2>2, GotoOrReturn, Zenon
  <2>. QED
    BY <1>1, <2>1, <2>2, Zenon DEF Ctrl!RemoveMountDir
<1>5. PICK o \in cleanUpIfNecessary(h) : host' = [host EXCEPT ![D] = o.host]
  BY <1>4, Zenon
<1>6. PICK rest : disk' = [disk EXCEPT ![D] =
                             [conf |-> IF host'[D].conf THEN @.conf ELSE NoConf,
                              files |-> Restrict(@.files, rest)]]
  BY Zenon DEF RemoveMountDir
<1>. DEFINE c == IF host'[D].conf THEN disk[D].conf ELSE NoConf
            f == Restrict(disk[D].files, rest)
            x == [conf |-> c, files |-> f]
            k == o.host
<1>7. disk' = [disk EXCEPT ![D] = x] /\ host' = [host EXCEPT ![D] = k]
  BY <1>5, <1>6, Zenon
<1>8. host'[D] = k /\ k.conf \in BOOLEAN /\ (k.conf => h.conf)
  BY <1>2, <1>5, ConfKept, Zenon
<1>9. k.conf <=> c # NoConf
  BY <1>2, <1>8, Zenon
<1>. HIDE DEF c, f
<1>10. x = [conf |-> x.conf, files |-> x.files] /\ (k.conf <=> x.conf # NoConf)
  BY <1>9, Zenon
<1>. HIDE DEF x, k, D
<1>11. DiskFits'
  BY <1>2, <1>7, <1>10, DiskChanges, Zenon
<1>12. CallsFit' /\ OnlyAsked' /\ Permitted'
  <2>1. UNCHANGED <<asked, call, entries, phase, status>>
    BY <1>1, Zenon DEF RemoveMountDir, beegfsVars, hostVars, Ctrl!RemoveMountDir
  <2>2. /\ status'[asked] = "created" => Complete
        /\ job[r].ok => Complete
    BY <1>1, <2>1, Zenon DEF CtlInv, Permitted, Reached
  <2>3. "remove" \notin Calls
    BY Zenon DEF Calls
  <2>. QED
    BY <1>1, <1>4, <2>1, <2>2, <2>3, MoveStep, Zenon
<1>. QED
  BY <1>1, <1>11, <1>12, Zenon DEF Mapped, Ctrl!Step

\* The orchestrator's request arrives.
LEMMA CreateVolumeStep ==
    ASSUME CtlInv, NEW r \in Requests, asked \in Valid, Ctrl!CreateVolume(r, asked),
           UNCHANGED <<asked, call, entries, disk>>
    PROVE  CallsFit' /\ OnlyAsked' /\ Permitted' /\ DiskFits'
<1>0. job[r].pc = "idle" /\ UNCHANGED <<status, host>>
  BY Zenon DEF Ctrl!CreateVolume, Ctrl!At
<1>1. DiskFits'
  BY <1>0, DiskUnchanged, Zenon
<1>2. /\ asked \in Volumes
      /\ HasDir' <=> HasDir
      /\ Complete' <=> Complete
      /\ HasDir' => entries'[VolDir(asked)] \in {Cfg(asked), CreateDirArgs(Cfg(asked))}
  BY Zenon DEF HasDir, Complete, CtlInv, OnlyAsked, Permitted
<1>3. /\ call' = call /\ call \in [Requests -> Callings]
      /\ call[r] = NoCall /\ call[r].step # "make"
  BY <1>0, NoCallIsOne, Zenon DEF CtlInv, CallsFit, Calls
<1>4. /\ DOMAIN job = Requests /\ DOMAIN phase = Volumes
      /\ \A v \in Volumes \ {asked} : phase[v] = "create"
      /\ status[asked] = "created" \/ phase[asked] = "use" => Complete
  BY Zenon DEF CtlInv, Ctrl!TypeOK, OnlyAsked, Permitted
<1>5. CASE status[asked] = "created" /\ Ctrl!Acknowledge("create", asked) /\ UNCHANGED job
  <2>1. \A v \in Volumes \ {asked} : phase'[v] = "create"
    BY <1>4, <1>5, Zenon DEF Ctrl!Acknowledge
  <2>2. Reached(r)'
    BY <1>0, <1>5, Zenon DEF Reached
  <2>3. CallsFit' /\ OnlyAsked' /\ Permitted'
    BY <1>0, <1>2, <1>3, <1>4, <1>5, <2>1, <2>2, OneHandler, Zenon
  <2>. QED
    BY <1>1, <2>3
<1>6. CASE Ctrl!Begin(r, "create", asked) /\ UNCHANGED phase
  <2>. DEFINE j == [op |-> "create", vol |-> asked, pc |-> "obtain", ok |-> TRUE,
                    waited |-> 0]
  <2>1. job' = [job EXCEPT ![r] = j] /\ j.op = "create" /\ j.vol = asked /\ j.pc = "obtain"
    BY <1>6, Zenon DEF Ctrl!Begin
  <2>. HIDE DEF j
  <2>2. job'[r] = j /\ \A q \in Requests \ {r} : job'[q] = job[q]
    BY <1>4, <2>1, Zenon
  <2>3. Reached(r)'
    BY <2>1, <2>2, Zenon DEF Reached
  <2>4. CallsFit' /\ OnlyAsked' /\ Permitted'
    BY <1>0, <1>2, <1>3, <1>4, <1>6, <2>1, <2>2, <2>3, OneHandler, Zenon
  <2>. QED
    BY <1>1, <2>4
<1>. QED
  BY <1>5, <1>6, Zenon DEF Ctrl!CreateVolume

\* A request is refused, or its answer is sent.
LEMMA AnswerStep ==
    ASSUME CtlInv, NEW r \in Requests, job[r].pc \in {"obtain", "release"},
           UNCHANGED <<asked, call, entries, disk, status, host>>,
           job' = [job EXCEPT ![r] = Ctrl!Idle],
           \/ UNCHANGED phase
           \/ job[r].pc = "release" /\ job[r].ok /\ Ctrl!Acknowledge("create", asked)
    PROVE  CallsFit' /\ OnlyAsked' /\ Permitted' /\ DiskFits'
<1>1. DiskFits'
  BY DiskUnchanged, Zenon
<1>2. /\ asked \in Volumes
      /\ HasDir' <=> HasDir
      /\ Complete' <=> Complete
      /\ HasDir' => entries'[VolDir(asked)] \in {Cfg(asked), CreateDirArgs(Cfg(asked))}
  BY Zenon DEF HasDir, Complete, CtlInv, OnlyAsked, Permitted
<1>3. /\ call' = call /\ call \in [Requests -> Callings]
      /\ call[r] = NoCall /\ call[r].step # "make"
  BY NoCallIsOne, Zenon DEF CtlInv, CallsFit, Calls
<1>4. /\ DOMAIN job = Requests /\ DOMAIN phase = Volumes
      /\ \A v \in Volumes \ {asked} : phase[v] = "create"
      /\ status[asked] = "created" \/ phase[asked] = "use" => Complete
      /\ job[r].pc = "release" /\ job[r].ok => Complete
  BY Zenon DEF CtlInv, Ctrl!TypeOK, OnlyAsked, Permitted, Reached
<1>5. job'[r].pc = "idle" /\ \A q \in Requests \ {r} : job'[q] = job[q]
  BY <1>4, Zenon DEF Ctrl!Idle
<1>6. Reached(r)'
  BY <1>5, Zenon DEF Reached
<1>7. /\ \A v \in Volumes \ {asked} : phase'[v] = "create"
      /\ status'[asked] = "created" \/ phase'[asked] = "use" => Complete'
  BY <1>2, <1>4, Zenon DEF Ctrl!Acknowledge
<1>8. CallsFit' /\ OnlyAsked' /\ Permitted'
  BY <1>2, <1>3, <1>5, <1>6, <1>7, OneHandler, Zenon
<1>. QED
  BY <1>1, <1>8

LEMMA UnrefinedStep ==
    ASSUME CtlInv, NEW r \in Requests, Unrefined(r)
    PROVE  Mapped(r) /\ CallsFit' /\ OnlyAsked' /\ Permitted' /\ DiskFits'
<1>1. UNCHANGED <<asked, call, entries, disk>>
  BY Zenon DEF Unrefined, beegfsVars, hostVars
<1>2. {"obtain", "mkdir", "mount", "created", "list", "unmount", "release"} \cap Calls = {}
  BY Zenon DEF Calls
<1>3. CASE asked \in Valid /\ Ctrl!CreateVolume(r, asked)
  <2>1. asked \in Volumes
    BY Zenon DEF CtlInv, OnlyAsked
  <2>. QED
    BY <1>1, <1>3, <2>1, CreateVolumeStep, Zenon DEF Mapped, Ctrl!Arrive
<1>4. CASE Ctrl!ObtainLock(r)
  <2>1. job[r].pc = "obtain" /\ UNCHANGED <<status, host, phase>>
    BY <1>4, Zenon DEF Ctrl!ObtainLock, Ctrl!At
  <2>2. CASE Ctrl!Goto(r, "mkdir")
    <3>1. Moves(r, "mkdir")
      BY <2>1, <2>2, GotoOrReturn, Zenon
    <3>2. status'[asked] = "created" => Complete
      BY <2>1, Zenon DEF CtlInv, Permitted
    <3>3. CallsFit' /\ OnlyAsked' /\ Permitted'
      BY <1>1, <1>2, <2>1, <3>1, <3>2, MoveStep, Zenon
    <3>. QED
      BY <1>1, <1>4, <2>1, <3>3, DiskUnchanged, Zenon DEF Mapped, Ctrl!Step
  <2>3. CASE job' = [job EXCEPT ![r] = Ctrl!Idle]
    BY <1>1, <1>4, <2>1, <2>3, AnswerStep, Zenon DEF Mapped, Ctrl!Step
  <2>. QED
    BY <1>4, <2>2, <2>3, Zenon DEF Ctrl!ObtainLock
<1>5. ASSUME NEW outcomes, NEW point, Ctrl!OnHost(r, outcomes, point),
             outcomes \in {MkdirAll(host[Dir(r)]), mountIfNecessary(host[Dir(r)]),
                           CleanupMountPoint(host[Dir(r)])},
             job[r].pc \in {"mkdir", "mount", "unmount"}, UNCHANGED <<phase, status>>,
             point \notin {"idle", "setPattern", "nodesDir", "created"},
             point \in {"mount", "chmod"} => HasDir /\ asked \in Special,
             point \in {"list", "unmount", "remove", "release"} /\ job[r].ok => Complete
      PROVE  CallsFit' /\ OnlyAsked' /\ Permitted' /\ DiskFits'
  <2>1. /\ Moves(r, point) /\ job[r].pc # "idle"
        /\ \E o \in outcomes : host' = [host EXCEPT ![Dir(r)] = o.host]
    BY <1>5, HostCall, Zenon
  <2>2. host[Dir(r)] \in HostDirs
    BY <2>1, OwnDir, Zenon
  <2>3. \A o \in outcomes : o.host.conf = host[Dir(r)].conf
    <3>. DEFINE h == host[Dir(r)]
    <3>1. h \in HostDirs /\ outcomes \in {MkdirAll(h), mountIfNecessary(h), CleanupMountPoint(h)}
      BY <1>5, <2>2, Zenon
    <3>. HIDE DEF h
    <3>2. outcomes \subseteq MkdirAll(h) \cup mountIfNecessary(h) \cup CleanupMountPoint(h)
      BY <3>1, Zenon
    <3>3. \A o \in outcomes : o.host.conf = h.conf
      BY <3>1, <3>2, ConfKept, Zenon
    <3>. QED
      BY <3>3, Zenon DEF h
  <2>4. DiskFits'
    BY <1>1, <2>1, <2>3, ConfStays, Zenon
  <2>5. status'[asked] = "created" => Complete
    BY <1>5, Zenon DEF CtlInv, Permitted
  <2>6. job[r].pc \notin Calls
    BY <1>2, <1>5, Zenon
  <2>7. CallsFit' /\ OnlyAsked' /\ Permitted'
    BY <1>1, <1>5, <2>1, <2>5, <2>6, MoveStep, Zenon
  <2>. QED
    BY <2>4, <2>7
<1>6. ASSUME job[r].pc # "idle"
      PROVE  /\ Ctrl!Dir(r) = Dir(r) /\ job[r].op = "create"
             /\ \A h : /\ Ctrl!MkdirAll(h) = MkdirAll(h)
                       /\ Ctrl!mountIfNecessary(h) = mountIfNecessary(h)
                       /\ Ctrl!CleanupMountPoint(h) = CleanupMountPoint(h)
  BY <1>6, OwnDir, Zenon DEF Ctrl!MkdirAll, MkdirAll, Ctrl!mountIfNecessary,
     mountIfNecessary, Ctrl!CleanupMountPoint, CleanupMountPoint, Ctrl!Done, Done,
     Ctrl!Error, Error
<1>7. CASE Ctrl!MakeMountDir(r)
  <2>1. job[r].pc = "mkdir" /\ UNCHANGED <<status, phase>>
    BY <1>7, Zenon DEF Ctrl!MakeMountDir, Ctrl!At
  <2>2. Ctrl!OnHost(r, MkdirAll(host[Dir(r)]), "write")
    <3>1. Ctrl!OnHost(r, Ctrl!MkdirAll(host[Ctrl!Dir(r)]), "write")
      BY <1>7, Zenon DEF Ctrl!MakeMountDir
    <3>. QED
      BY <1>6, <2>1, <3>1
  <2>3. CallsFit' /\ OnlyAsked' /\ Permitted' /\ DiskFits'
    BY <1>5, <2>1, <2>2, Zenon
  <2>. QED
    BY <1>7, <2>3, Zenon DEF Mapped, Ctrl!Step
<1>8. CASE Ctrl!Mount(r)
  <2>1. job[r].pc = "mount" /\ UNCHANGED <<status, phase>>
    BY <1>8, Zenon DEF Ctrl!Mount, Ctrl!At
  <2>2. Ctrl!OnHost(r, mountIfNecessary(host[Dir(r)]), "chmod")
    <3>1. Ctrl!OnHost(r, Ctrl!mountIfNecessary(host[Ctrl!Dir(r)]),
                      IF job[r].op = "create" THEN "chmod" ELSE "poll")
      BY <1>8, Zenon DEF Ctrl!Mount
    <3>. QED
      BY <1>6, <2>1, <3>1
  <2>3. HasDir /\ asked \in Special
    BY <2>1, Zenon DEF CtlInv, Permitted, Reached
  <2>4. CallsFit' /\ OnlyAsked' /\ Permitted' /\ DiskFits'
    BY <1>5, <2>1, <2>2, <2>3, Zenon
  <2>. QED
    BY <1>8, <2>4, Zenon DEF Mapped, Ctrl!Step
<1>9. CASE Ctrl!WriteStatusCreated(r)
  <2>1. job[r].pc = "created" /\ UNCHANGED <<host, phase>> /\ Ctrl!Goto(r, "list")
    BY <1>9, Zenon DEF Ctrl!WriteStatusCreated, Ctrl!At
  <2>2. Complete
    BY <2>1, Zenon DEF CtlInv, Permitted, Reached
  <2>3. Moves(r, "list")
    BY <2>1, GotoOrReturn, Zenon
  <2>4. CallsFit' /\ OnlyAsked' /\ Permitted'
    BY <1>1, <1>2, <2>1, <2>2, <2>3, MoveStep, Zenon
  <2>. QED
    BY <1>1, <1>9, <2>1, <2>4, DiskUnchanged, Zenon DEF Mapped, Ctrl!Step
<1>10. CASE Ctrl!ListMounts(r)
  <2>1. /\ job[r].pc = "list" /\ UNCHANGED <<status, host, phase>>
        /\ Ctrl!Goto(r, "unmount") \/ Ctrl!Return(r)
    BY <1>10, Zenon DEF Ctrl!ListMounts, Ctrl!At
  <2>2. (job[r].ok => Complete) /\ (status'[asked] = "created" => Complete)
    BY <2>1, Zenon DEF CtlInv, Permitted, Reached
  <2>3. Moves(r, "unmount")
    BY <2>1, GotoOrReturn, Zenon
  <2>4. CallsFit' /\ OnlyAsked' /\ Permitted'
    BY <1>1, <1>2, <2>1, <2>2, <2>3, MoveStep, Zenon
  <2>. QED
    BY <1>1, <1>10, <2>1, <2>4, DiskUnchanged, Zenon DEF Mapped, Ctrl!Step
<1>11. CASE Ctrl!Unmount(r)
  <2>1. job[r].pc = "unmount" /\ UNCHANGED <<status, phase>>
    BY <1>11, Zenon DEF Ctrl!Unmount, Ctrl!At
  <2>2. Ctrl!OnHost(r, CleanupMountPoint(host[Dir(r)]), "remove")
    <3>1. Ctrl!OnHost(r, Ctrl!CleanupMountPoint(host[Ctrl!Dir(r)]), "remove")
      BY <1>11, Zenon DEF Ctrl!Unmount
    <3>. QED
      BY <1>6, <2>1, <3>1
  <2>3. job[r].ok => Complete
    BY <2>1, Zenon DEF CtlInv, Permitted, Reached
  <2>4. CallsFit' /\ OnlyAsked' /\ Permitted' /\ DiskFits'
    BY <1>5, <2>1, <2>2, <2>3, Zenon
  <2>. QED
    BY <1>11, <2>4, Zenon DEF Mapped, Ctrl!Step
<1>12. CASE Ctrl!ReleaseLock(r)
  <2>1. /\ job[r].pc = "release" /\ UNCHANGED <<status, host>>
        /\ job' = [job EXCEPT ![r] = Ctrl!Idle]
        /\ \/ UNCHANGED phase
           \/ job[r].ok /\ Ctrl!Acknowledge(job[r].op, job[r].vol)
    BY <1>12, Zenon DEF Ctrl!ReleaseLock, Ctrl!At
  <2>2. job[r].op = "create" /\ job[r].vol = asked
    BY <2>1, OwnDir, Zenon
  <2>3. CallsFit' /\ OnlyAsked' /\ Permitted' /\ DiskFits'
    BY <1>1, <2>1, <2>2, AnswerStep, Zenon
  <2>. QED
    BY <1>12, <2>3, Zenon DEF Mapped, Ctrl!Step
<1>. QED
  BY <1>3, <1>4, <1>7, <1>8, <1>9, <1>10, <1>11, <1>12, Zenon DEF Unrefined

\* Steps of the environment.
LEMMA RestartStep ==
    ASSUME CtlInv, Restart
    PROVE  Ctrl!Restart /\ CallsFit' /\ OnlyAsked' /\ Permitted' /\ DiskFits'
<1>1. /\ Ctrl!Restart /\ UNCHANGED <<asked, entries, disk, host, phase>>
      /\ status' = [v \in Volumes |-> "none"]
      /\ job' = [r \in Requests |-> Ctrl!Idle]
      /\ call' = [r \in Requests |-> NoCall]
  BY Zenon DEF Restart, beegfsVars, Ctrl!Restart
<1>2. Ctrl!Idle.pc = "idle"
  BY Zenon DEF Ctrl!Idle
<1>3. \A r \in Requests : job'[r].pc = "idle" /\ call'[r] = NoCall
  BY <1>1, <1>2, Zenon
<1>4. CallsFit'
  BY <1>1, <1>3, NoCallIsOne, Zenon DEF CallsFit
<1>5. OnlyAsked' /\ status'[asked] = "none"
  BY <1>1, <1>3, Zenon DEF CtlInv, OnlyAsked
<1>6. \A r \in Requests : Reached(r)'
  BY <1>3, Zenon DEF Reached
<1>7. Permitted'
  BY <1>1, <1>5, <1>6, Zenon DEF CtlInv, Permitted, HasDir, Complete
<1>. QED
  BY <1>1, <1>4, <1>5, <1>7, DiskUnchanged, Zenon

\* Nothing that the invariant is about changes, but for other directories.
LEMMA NothingElse ==
    ASSUME CtlInv, UNCHANGED <<ctrlVars, call, asked, disk>>, DirKept
    PROVE  CallsFit' /\ OnlyAsked' /\ Permitted' /\ DiskFits'
<1>1. UNCHANGED <<status, job, host, phase>>
  BY Zenon DEF ctrlVars
<1>2. CallsFit'
  BY <1>1, Zenon DEF CtlInv, CallsFit, Pending, Target, Vol
<1>3. OnlyAsked'
  BY <1>1, Zenon DEF CtlInv, OnlyAsked
<1>4. /\ HasDir' <=> HasDir
      /\ Complete' <=> Complete
      /\ HasDir => entries'[VolDir(asked)] = entries[VolDir(asked)]
  BY Zenon DEF DirKept, HasDir, Complete
<1>5. \A r \in Requests : Reached(r)'
  BY <1>1, <1>4, Zenon DEF CtlInv, Permitted, Reached
<1>6. Permitted'
  BY <1>1, <1>4, <1>5, Zenon DEF CtlInv, Permitted
<1>. QED
  BY <1>1, <1>2, <1>3, <1>6, DiskUnchanged, Zenon

LEMMA UpgradeStep ==
    ASSUME CtlInv, Upgrade
    PROVE  UNCHANGED Ctrl!vars /\ CallsFit' /\ OnlyAsked' /\ Permitted' /\ DiskFits'
<1>1. UNCHANGED <<ctrlVars, call, asked, disk, entries, patterned>>
  BY Zenon DEF Upgrade, beegfsVars
<1>. QED
  BY <1>1, KeptIfUnchanged, SeenUnchanged, NothingElse, Stutters, Zenon DEF beegfsVars

LEMMA OthersStep ==
    ASSUME CtlInv, NEW i \in 1..Len(Base[asked]) + 2, Others(SubSeq(NodesDir(asked), 1, i))
    PROVE  UNCHANGED Ctrl!vars /\ CallsFit' /\ OnlyAsked' /\ Permitted' /\ DiskFits'
<1>. DEFINE p == NodesDir(asked)
            path == SubSeq(p, 1, i)
<1>1. asked \in Volumes
  BY Zenon DEF CtlInv, OnlyAsked
<1>2. p \in Seq(Names) /\ Len(p) = Len(Base[asked]) + 4 /\ Len(Base[asked]) \in Nat
  BY <1>1, OwnPaths
<1>3. i \in 1..Len(p) /\ i # Len(p)
  BY <1>2
<1>4. path # p
  BY <1>2, <1>3, Parents
<1>5. /\ path # VolDir(asked) /\ UNCHANGED <<ctrlVars, call, patterned, asked, disk>>
      /\ \E perms : entries' = Making(path, perms)
  BY Zenon DEF Others, hostVars
<1>6. VolDirs' = VolDirs /\ CsiDirs' = CsiDirs /\ DirKept
  BY <1>1, <1>3, <1>4, <1>5, MakesParent, Zenon DEF DirKept
<1>. QED
  BY <1>5, <1>6, NothingElse, Stutters, Zenon

(***************************************************************************)
(* The whole of it.  Types are kept because ControllerServer keeps them,   *)
(* whatever it sees of BeeGFS; CP is Ctrl with its theorems.               *)
(***************************************************************************)
CP == INSTANCE ControllerServerProofs WITH
    Nodes <- {}, Handlers <- {"create"},
    volDir <- VolDirs, csiDir <- CsiDirs, tracked <- [v \in Volumes |-> {}]

LEMMA CtrlOptions ==
    /\ NoVolume \notin Volumes
    /\ \A v, w \in Volumes : MountDir[v] = MountDir[w] => v = w
    /\ NodeUnstageTimeout \in Nat /\ MaxFaults \in Nat /\ MaxRestarts \in Nat
    /\ Special \subseteq Volumes
    /\ {"create"} \subseteq CP!Ops
    /\ Failing \subseteq CP!Points
    /\ SlowAnswers \subseteq {"delivered", "lost"}
    /\ FALSE \in BOOLEAN
<1>1. Special \subseteq Volumes
  BY Zenon DEF Special
<1>2. {"create"} \subseteq CP!Ops
  BY Zenon DEF CP!Ops
<1>3. Failing \subseteq CP!Points
  BY CtrlAssumption, Zenon DEF Ctrl!Points, CP!Points
<1>. QED
  BY <1>1, <1>2, <1>3, CtrlAssumption, Zenon

LEMMA SameTypes ==
    (Ctrl!TypeOK => CP!TypeOK) /\ (CP!TypeOK' => Ctrl!TypeOK')
<1>1. /\ CP!Jobs = Ctrl!Jobs /\ CP!Idle = Ctrl!Idle /\ CP!Dirs = Ctrl!Dirs
      /\ CP!HostDirs = Ctrl!HostDirs /\ CP!Features = Ctrl!Features
      /\ CP!Phases = Ctrl!Phases
  BY Zenon DEF CP!Jobs, Ctrl!Jobs, CP!Idle, Ctrl!Idle, CP!Dirs, Ctrl!Dirs, CP!HostDirs,
     Ctrl!HostDirs, CP!MountStates, Ctrl!MountStates, CP!Features, Ctrl!Features,
     CP!Phases, Ctrl!Phases, CP!Ops, Ctrl!Ops, CP!Points, Ctrl!Points
<1>. QED
  BY <1>1, Zenon DEF CP!TypeOK, Ctrl!TypeOK

LEMMA SameSteps ==
    ASSUME NEW r \in Requests, Ctrl!Step(r) PROVE CP!Step(r)
<1>. USE DEF Ctrl!At, CP!At, Ctrl!Dir, CP!Dir, Ctrl!beegfs, CP!beegfs,
         Ctrl!Goto, CP!Goto, Ctrl!AfterCleanup, CP!AfterCleanup
<1>1. Ctrl!CallFails(r) => CP!CallFails(r)
  BY Zenon DEF Ctrl!CallFails, CP!CallFails
<1>2. Ctrl!Return(r) => CP!Return(r)
  BY Zenon DEF Ctrl!Return, CP!Return, Ctrl!AfterError, CP!AfterError, Ctrl!StillOk,
     CP!StillOk
<1>3. \A outcomes, point : Ctrl!OnHost(r, outcomes, point) => CP!OnHost(r, outcomes, point)
  BY <1>1, <1>2, Zenon DEF Ctrl!OnHost, CP!OnHost
<1>4. \A f, point : Ctrl!OnVolume(r, f, point) => CP!OnVolume(r, f, point)
  BY <1>1, <1>2, Zenon DEF Ctrl!OnVolume, CP!OnVolume
<1>5. \A h : /\ Ctrl!MkdirAll(h) = CP!MkdirAll(h)
             /\ Ctrl!writeClientFiles(h) = CP!writeClientFiles(h)
             /\ Ctrl!mountIfNecessary(h) = CP!mountIfNecessary(h)
             /\ Ctrl!CleanupMountPoint(h) = CP!CleanupMountPoint(h)
             /\ Ctrl!cleanUpIfNecessary(h) = CP!cleanUpIfNecessary(h)
  BY Zenon DEF Ctrl!MkdirAll, CP!MkdirAll, Ctrl!writeClientFiles, CP!writeClientFiles,
     Ctrl!mountIfNecessary, CP!mountIfNecessary, Ctrl!CleanupMountPoint,
     CP!CleanupMountPoint, Ctrl!cleanUpIfNecessary, CP!cleanUpIfNecessary, Ctrl!Done,
     CP!Done, Ctrl!Error, CP!Error, Ctrl!Absent, CP!Absent
<1>6. Ctrl!ObtainLock(r) => CP!ObtainLock(r)
  BY Zenon DEF Ctrl!ObtainLock, CP!ObtainLock, Ctrl!Idle, CP!Idle
<1>7. Ctrl!MakeMountDir(r) => CP!MakeMountDir(r)
  BY <1>2, <1>3, <1>5, Zenon DEF Ctrl!MakeMountDir, CP!MakeMountDir
<1>8. Ctrl!WriteClientFiles(r) => CP!WriteClientFiles(r)
  BY <1>2, <1>3, <1>5, Zenon DEF Ctrl!WriteClientFiles, CP!WriteClientFiles
<1>9. Ctrl!Mount(r) => CP!Mount(r)
  BY <1>2, <1>3, <1>5, Zenon DEF Ctrl!Mount, CP!Mount
<1>10. Ctrl!CreateDirectory(r) => CP!CreateDirectory(r)
  BY <1>4, Zenon DEF Ctrl!CreateDirectory, CP!CreateDirectory
<1>11. Ctrl!SetPattern(r) => CP!SetPattern(r)
  BY <1>4, Zenon DEF Ctrl!SetPattern, CP!SetPattern
<1>12. Ctrl!Chmod(r) => CP!Chmod(r)
  BY <1>4, Zenon DEF Ctrl!Chmod, CP!Chmod
<1>13. Ctrl!CreateNodesDirectory(r) => CP!CreateNodesDirectory(r)
  BY <1>1, Zenon DEF Ctrl!CreateNodesDirectory, CP!CreateNodesDirectory
<1>14. Ctrl!WriteStatusCreated(r) => CP!WriteStatusCreated(r)
  BY Zenon DEF Ctrl!WriteStatusCreated, CP!WriteStatusCreated
<1>15. Ctrl!Poll(r) => CP!Poll(r)
  BY <1>1, <1>2, Zenon DEF Ctrl!Poll, CP!Poll
<1>16. Ctrl!RemoveCsiDirectory(r) => CP!RemoveCsiDirectory(r)
  BY <1>1, <1>2, Zenon DEF Ctrl!RemoveCsiDirectory, CP!RemoveCsiDirectory
<1>17. Ctrl!RemoveVolumeDirectory(r) => CP!RemoveVolumeDirectory(r)
  BY <1>1, <1>2, Zenon DEF Ctrl!RemoveVolumeDirectory, CP!RemoveVolumeDirectory
<1>18. Ctrl!StatDirectory(r) => CP!StatDirectory(r)
  BY <1>1, <1>2, Zenon DEF Ctrl!StatDirectory, CP!StatDirectory
<1>19. Ctrl!ListMounts(r) => CP!ListMounts(r)
  BY <1>1, <1>2, Zenon DEF Ctrl!ListMounts, CP!ListMounts
<1>20. Ctrl!Unmount(r) => CP!Unmount(r)
  BY <1>2, <1>3, <1>5, Zenon DEF Ctrl!Unmount, CP!Unmount
<1>21. Ctrl!RemoveMountDir(r) => CP!RemoveMountDir(r)
  BY <1>2, <1>3, <1>5, Zenon DEF Ctrl!RemoveMountDir, CP!RemoveMountDir
<1>22. Ctrl!WriteStatusDeleted(r) => CP!WriteStatusDeleted(r)
  BY Zenon DEF Ctrl!WriteStatusDeleted, CP!WriteStatusDeleted
<1>23. Ctrl!ReleaseLock(r) => CP!ReleaseLock(r)
  BY Zenon DEF Ctrl!ReleaseLock, CP!ReleaseLock, Ctrl!Acknowledge, CP!Acknowledge, Ctrl!Idle, CP!Idle
<1>. QED
  BY <1>6, <1>7, <1>8, <1>9, <1>10, <1>11, <1>12, <1>13, <1>14,
     <1>15, <1>16, <1>17, <1>18, <1>19, <1>20, <1>21, <1>22, <1>23, Zenon
     DEF Ctrl!Step, CP!Step

LEMMA TypesKept ==
    ASSUME Ctrl!TypeOK, NEW r \in Requests, Mapped(r) PROVE Ctrl!TypeOK'
<1>1. CASE Ctrl!Arrive(r)
  <2>1. CP!Arrive(r)
    BY <1>1, Zenon DEF Ctrl!Arrive, CP!Arrive, Ctrl!CreateVolume, CP!CreateVolume,
       Ctrl!DeleteVolume, CP!DeleteVolume, Ctrl!ValidateVolumeCapabilities,
       CP!ValidateVolumeCapabilities, Ctrl!At, CP!At, Ctrl!Begin, CP!Begin,
       Ctrl!Acknowledge, CP!Acknowledge, Ctrl!beegfs, CP!beegfs
  <2>. QED
    BY <2>1, SameTypes, CtrlOptions, CP!ArriveTyped, Zenon
<1>2. CASE Ctrl!Step(r)
  <2>1. CP!Step(r)
    BY <1>2, SameSteps, Zenon
  <2>. QED
    BY <2>1, SameTypes, CtrlOptions, CP!StepTyped, Zenon
<1>3. CASE UNCHANGED Ctrl!vars
  BY <1>3, Zenon DEF Ctrl!vars, Ctrl!TypeOK
<1>. QED
  BY <1>1, <1>2, <1>3, Zenon DEF Mapped

LEMMA RestartTyped ==
    ASSUME Ctrl!TypeOK, Ctrl!Restart PROVE Ctrl!TypeOK'
<1>1. /\ status' \in [Volumes -> {"none", "created", "deleted"}]
      /\ job' \in [Requests -> Ctrl!Jobs \cup {Ctrl!Idle}] /\ locks' \subseteq Volumes
  BY Zenon DEF Ctrl!Restart
<1>2. restarts' \in 0..MaxRestarts
  BY CtrlAssumption DEF Ctrl!TypeOK, Ctrl!Restart
<1>. QED
  BY <1>1, <1>2, Zenon DEF Ctrl!TypeOK, Ctrl!Restart, Ctrl!beegfs

LEMMA CtlStart == ASSUME Init PROVE Ctrl!Init /\ CtlInv
<1>1. DOMAIN entries = {} /\ patterned = {}
  BY DEF Init
<1>2. \A v \in Volumes : VolDir(v) # <<>> /\ NodesDir(v) # <<>>
  BY OwnPaths
<1>3. \A v \in Volumes : ~Exists(VolDir(v)) /\ ~Exists(NodesDir(v))
  BY <1>1, <1>2, Zenon DEF Exists
<1>4. VolDirs = [v \in Volumes |-> {}] /\ CsiDirs = [v \in Volumes |-> "absent"]
  BY <1>1, <1>3 DEF VolDirs, CsiDirs
<1>5. Absent = Ctrl!Absent /\ Absent \in Ctrl!HostDirs /\ ~Absent.conf
  BY Zenon DEF Absent, Ctrl!Absent, Ctrl!HostDirs, Ctrl!MountStates
<1>6. Ctrl!Init
  BY <1>4, <1>5, Zenon DEF Init, Ctrl!Init
<1>7. Ctrl!TypeOK
  <2>1. /\ locks \subseteq Volumes
        /\ status \in [Volumes -> {"none", "created", "deleted"}]
        /\ job \in [Requests -> Ctrl!Jobs \cup {Ctrl!Idle}]
        /\ host \in [Ctrl!Dirs -> Ctrl!HostDirs]
    BY <1>5, Zenon DEF Init
  <2>2. /\ VolDirs \in [Volumes -> SUBSET Ctrl!Features]
        /\ CsiDirs \in [Volumes -> {"absent", "partial", "nodes"}]
        /\ [v \in Volumes |-> {}] \in [Volumes -> SUBSET {}]
        /\ phase \in [Volumes -> Ctrl!Phases]
    BY <1>4 DEF Init, Ctrl!Phases
  <2>3. faults \in 0..MaxFaults /\ restarts \in 0..MaxRestarts
    BY CtrlAssumption DEF Init
  <2>. QED
    BY <2>1, <2>2, <2>3, Zenon DEF Ctrl!TypeOK
<1>8. Ctrl!Idle.pc = "idle"
  BY Zenon DEF Ctrl!Idle
<1>9. \A r \in Requests : job[r].pc = "idle" /\ call[r] = NoCall
  BY <1>8, Zenon DEF Init
<1>10. CallsFit
  BY <1>9, NoCallIsOne, Zenon DEF Init, CallsFit
<1>11. OnlyAsked /\ status[asked] = "none" /\ phase[asked] = "create"
  BY <1>9, Zenon DEF Init, OnlyAsked
<1>12. Permitted
  BY <1>1, <1>9, <1>11, Zenon DEF Permitted, HasDir, Reached
<1>13. EmptyDisk = [conf |-> EmptyDisk.conf, files |-> EmptyDisk.files] /\ EmptyDisk.conf = NoConf
  BY DEF EmptyDisk
<1>14. DiskFits
  BY <1>5, <1>13, Zenon DEF Init, DiskFits
<1>. QED
  BY <1>6, <1>7, <1>10, <1>11, <1>12, <1>14, Zenon DEF CtlInv

\* A step of a handler keeps the invariant and is one of ControllerServer's.
LEMMA HandlerStep ==
    ASSUME CtlInv, NEW r \in Requests, Step(r) PROVE CtlInv' /\ Mapped(r)
<1>1. Mapped(r) /\ CallsFit' /\ OnlyAsked' /\ Permitted' /\ DiskFits'
  BY ListV8Step, ListV7Step, StatDirectoryStep, MakeDirectoryStep, SetPatternStep,
     ChmodStep, WriteClientFilesStep, RemoveMountDirStep, UnrefinedStep, Zenon DEF Step
<1>2. Ctrl!TypeOK'
  BY <1>1, TypesKept, Zenon DEF CtlInv
<1>. QED
  BY <1>1, <1>2, Zenon DEF CtlInv

LEMMA CtlStep ==
    ASSUME CtlInv, [Next]_ctlVars PROVE CtlInv' /\ [Ctrl!Next]_(Ctrl!vars)
<1>1. CASE \E r \in Requests : Step(r)
  BY <1>1, HandlerStep, Zenon DEF Mapped, Ctrl!Next
<1>2. CASE Restart
  <2>1. Ctrl!Restart /\ CallsFit' /\ OnlyAsked' /\ Permitted' /\ DiskFits'
    BY <1>2, RestartStep, Zenon
  <2>2. Ctrl!TypeOK'
    BY <2>1, RestartTyped, Zenon DEF CtlInv
  <2>. QED
    BY <1>2, <2>1, <2>2, Zenon DEF CtlInv, Ctrl!Next
<1>3. ASSUME UNCHANGED Ctrl!vars, CallsFit', OnlyAsked', Permitted', DiskFits'
      PROVE  CtlInv' /\ [Ctrl!Next]_(Ctrl!vars)
  BY <1>3, Zenon DEF CtlInv, Ctrl!TypeOK, Ctrl!vars
<1>4. CASE Upgrade
  BY <1>3, <1>4, UpgradeStep, Zenon
<1>5. CASE \E i \in 1..Len(Base[asked]) + 2 : Others(SubSeq(NodesDir(asked), 1, i))
  BY <1>3, <1>5, OthersStep, Zenon
<1>6. CASE UNCHANGED ctlVars
  <2>1. UNCHANGED <<ctrlVars, call, asked, disk, entries, patterned>>
    BY <1>6, Zenon DEF ctlVars, beegfsVars, hostVars
  <2>. QED
    BY <1>3, <2>1, KeptIfUnchanged, SeenUnchanged, NothingElse, Stutters, Zenon
       DEF beegfsVars
<1>. QED
  BY <1>1, <1>2, <1>4, <1>5, <1>6, Zenon DEF Next

LEMMA CtlInvariant == Spec => []CtlInv
<1>1. Init => CtlInv
  BY CtlStart, Zenon
<1>2. CtlInv /\ [Next]_ctlVars => CtlInv'
  BY CtlStep, Zenon
<1>. QED
  BY <1>1, <1>2, PTL DEF Spec

\* CreateVolume answers with success only when the volume's directory has the
\* owner, the group and all twelve bits of the mode that were asked for,
\* although createDirectoryForVolume never touches a directory that exists and
\* a mode with special bits takes a second step: in every interleaving of
\* requests, through failures of any command, restarts and an upgrade.
THEOREM PermissionsGranted == Spec => []PermissionsAsRequested
<1>1. CtlInv => PermissionsAsRequested
  BY Zenon DEF CtlInv, OnlyAsked, Permitted, Complete, PermissionsAsRequested
<1>. QED
  BY <1>1, CtlInvariant, PTL

\* The commands of beegfs_ctl.go, each of which may fail before or after its
\* effect, make up the calls that ControllerServer takes for single steps: what
\* is proved of that module holds for CreateVolume down to its commands.
THEOREM CommandsImplementCalls == Spec => ImplementsController
<1>1. Init => Ctrl!Init
  BY CtlStart, Zenon
<1>2. CtlInv /\ [Next]_ctlVars => [Ctrl!Next]_(Ctrl!vars)
  BY CtlStep, Zenon
<1>. QED
  BY <1>1, <1>2, CtlInvariant, PTL DEF Spec, Ctrl!Spec, ImplementsController
=============================================================================
