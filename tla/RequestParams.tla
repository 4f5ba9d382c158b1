--------------------------- MODULE RequestParams ----------------------------
(***************************************************************************)
(* The parameters of CreateVolume (validateReqParams and its helpers in    *)
(* pkg/beegfs/controllerserver.go) and the access modes they ask for       *)
(* (permissionsConfig in beegfs.go).                                       *)
(*                                                                         *)
(* A parameter map is a function on names <<prefix, name>>.  A value is    *)
(* <<n>> if it parses as the number n (octal for the mode, or digits and   *)
(* a letter for the chunk size), None if it is "", and Garbage otherwise.  *)
(***************************************************************************)
EXTENDS Naturals, Sequences

CONSTANT MaxId   \* the greatest uid or gid: 2^32 - 1 in the code

None == <<>>
Garbage == <<"not", "parsed">>
Pattern == "stripePattern/"
Permissions == "permissions/"
Host == <<"", "sysMgmtdHost">>
BasePath == <<"", "volDirBasePath">>

DefaultMode == 511           \* 0777
ModeBits == 12

Parses(value, max) == Len(value) = 1 /\ value[1] <= max

\* getStripePatternConfigFromParams: the loop ends at the first name it does
\* not know or value it cannot parse, in whatever order the names come up.
PatternAccepts(name, value) ==
    /\ name \in {"storagePoolID", "chunkSize", "numTargets"}
    /\ \/ value = None
       \/ name = "chunkSize" /\ value # Garbage
       \/ name # "chunkSize" /\ Parses(value, 2^16 - 1)

PermissionsAccept(name, value) ==
    \/ name \in {"uid", "gid"} /\ Parses(value, MaxId)
    \/ name = "mode" /\ Parses(value, 2^ModeBits - 1)

\* A name of neither kind is left over after both loops.
validateReqParams(params) ==
    /\ Host \in DOMAIN params /\ params[Host] # None
    /\ BasePath \in DOMAIN params
    /\ \A k \in DOMAIN params \ {Host, BasePath} :
          \/ k[1] = Pattern /\ PatternAccepts(k[2], params[k])
          \/ k[1] = Permissions /\ PermissionsAccept(k[2], params[k])

Given(params, name, default) ==
    LET k == <<Permissions, name>>
    IN  IF k \in DOMAIN params THEN params[k][1] ELSE default

PermissionsConfig(params) ==
    [uid |-> Given(params, "uid", 0), gid |-> Given(params, "gid", 0),
     mode |-> Given(params, "mode", DefaultMode)]

\* constructSetPatternForVolumeArgs: whether there is anything to set.
NeedToExecute(params) ==
    \E k \in DOMAIN params : k[1] = Pattern /\ params[k] # None

\* constructCreateDirForVolumeArgs: the permissions beegfs-ctl is asked for.
\* A uid or gid of 0 is the default of beegfs-ctl.
CreateDirArgs(cfg) == [cfg EXCEPT !.mode = @ % 512]

hasSpecialPermissions(cfg) == cfg.mode > 511

\* os.FileMode has its own bits for the special permissions.
ModeSticky == 2^20
ModeSetgid == 2^22
ModeSetuid == 2^23

Bit(mode, b) == (mode \div b) % 2

\* Mutant of goFileMode: the Unix bits are taken over.
goFileModeUnix(mode) == mode

goFileMode(mode) ==
    (mode % 512) + Bit(mode, 512) * ModeSticky + Bit(mode, 1024) * ModeSetgid
               + Bit(mode, 2048) * ModeSetuid

\* os.Chmod: the bits of the Unix mode.  Others are ignored.
UnixMode(goMode) ==
    (goMode % 512) + Bit(goMode, ModeSticky) * 512
                 + Bit(goMode, ModeSetgid) * 1024
                 + Bit(goMode, ModeSetuid) * 2048
=============================================================================
