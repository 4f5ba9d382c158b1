---------------------------- MODULE MCBeegfsCtl -----------------------------
(***************************************************************************)
(* Three volumes below one base path: with special permissions and a       *)
(* pattern, with the defaults, and with a mode of thirteen bits.           *)
(***************************************************************************)
EXTENDS BeegfsCtl

MCVolumes == {"v1", "v2", "v3"}
MCName == [v \in Volumes |-> v]
MCBase == [v \in Volumes |-> <<"b">>]

MCSite == (Host :> <<"mgmtd">>) @@ (BasePath :> <<"b">>)
MCParameters ==
    [v1 |-> (<<Pattern, "numTargets">> :> <<4>>)
               @@ (<<Permissions, "gid">> :> <<1000>>)
               @@ (<<Permissions, "mode">> :> <<1528>>) @@ MCSite,    \* 2770
     v2 |-> (<<Pattern, "numTargets">> :> None) @@ MCSite,
     v3 |-> (<<Permissions, "mode">> :> <<8191>>) @@ MCSite]         \* 17777

\* One configuration from BeeGFS 7 times that BeeGFS 8 still takes, and one
\* whose ports differ.  They have different secrets.
MCPorts(udp) ==
    ("connMgmtdPortTCP" :> "8008") @@ ("connMgmtdPortUDP" :> udp)
MCConfigs ==
    {[options |-> MCPorts("8008"), files |-> "connAuthFile" :> "old"],
     [options |-> MCPorts("8009"),
      files |-> ("connAuthFile" :> "new") @@ ("cert.pem" :> "new")]}

\* The keys of beegfs-client.conf as BeeGFS 7 and BeeGFS 8 install it.
MCTemplate ==
    (7 :> {"sysMgmtdHost", "connAuthFile", "connClientPortUDP", "connMgmtdPortTCP",
           "connMgmtdPortUDP"})
    @@ (8 :> {"sysMgmtdHost", "connAuthFile", "connClientPort", "connMgmtdPort"})

MCFailing == {"write", "createDir", "setPattern", "chmod", "nodesDir"}

\* Names that are not known, values that do not parse, ids, modes and counts
\* at their limits.
MCWith(prefix, name, value) == validateReqParams((<<prefix, name>> :> value) @@ MCSite)
ASSUME /\ ~validateReqParams(BasePath :> <<"b">>)
       /\ ~validateReqParams((Host :> None) @@ (BasePath :> <<"b">>))
       /\ MCWith(Pattern, "storagePoolID", <<2^16 - 1>>)
       /\ ~MCWith(Pattern, "storagePoolID", <<2^16>>)
       /\ MCWith(Pattern, "chunkSize", None) /\ ~MCWith(Pattern, "chunkSize", Garbage)
       /\ ~MCWith(Permissions, "numTargets", <<4>>) /\ ~MCWith("", "mode", <<511>>)
       /\ MCWith(Permissions, "uid", <<MaxId>>) /\ ~MCWith(Permissions, "uid", <<MaxId + 1>>)
       /\ MCWith(Permissions, "mode", <<4095>>) /\ ~MCWith(Permissions, "mode", None)
=============================================================================
