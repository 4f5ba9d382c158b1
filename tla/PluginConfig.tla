---------------------------- MODULE PluginConfig ----------------------------
(***************************************************************************)
(* The plugin configuration (pkg/beegfs/config.go, newBeegfsDriver in      *)
(* beegfs.go): at its start the driver merges the parts of the             *)
(* configuration file that apply to its node, validates the result, strips *)
(* options without effect and adds the secrets and certificates of two     *)
(* more files.  Every request then squashes the outcome for its file       *)
(* system.                                                                 *)
(*                                                                         *)
(* Each part of the file, a layer, sets every option it has to its own     *)
(* name, so that a squashed value tells where it comes from.  port stands  *)
(* for grpcPort and the four lists, which are handled alike.               *)
(***************************************************************************)
EXTENDS Naturals, Sequences, SequencesExt

CONSTANTS
    Hosts,      \* sysMgmtdHosts
    Shapes,     \* which options a layer has: [port, made : BOOLEAN,
                \*   keys : SUBSET Keys]; made: it has a beegfsClientConf
    MaxFs,      \* bound on the outer fileSystemSpecificConfigs
    MaxNodes,   \* bound on nodeSpecificConfigs
    Suspects,   \* hosts, and layers of values, that may have a syntax error
    Secrets,    \* what connAuth entries decode to, "bad": they do not
    Certs,      \* TLS certificates
    MaxSecrets, \* bound on the connAuth entries
    MaxCerts    \* bound on the certificates

Unset == ""
Keys == {"kept", "noEffect"}
NoEffectKeys == {"noEffect"}

ASSUME ShapesAssumption ==
    \A s \in Shapes : s.keys \subseteq Keys /\ (s.keys # {} => s.made)
ASSUME SecretsAssumption == Unset \notin Certs /\ "bad" \notin Certs

VARIABLES
    file,     \* the configuration file
    bad,      \* hosts and layers that are not valid
    added,    \* the entries of the connAuth and the TLS certificate file
    cfg,      \* newPluginConfig
    pending,  \* what is left to be written over or added to it
    state     \* where newBeegfsDriver is

vars == <<file, bad, added, cfg, pending, state>>

\* The BeegfsConfig that a layer of the given shape unmarshals to.
Named(shape, layer) ==
    [port |-> IF shape.port THEN layer ELSE Unset,
     made |-> shape.made,
     conf |-> [k \in Keys |-> IF k \in shape.keys THEN layer ELSE Unset],
     connAuth |-> Unset, tlsCert |-> Unset]

\* The lists of at most n file system specific configurations; the i-th is
\* layer layers[i].
FsLists(n, layers) ==
    {[i \in 1..Len(list) |-> [host |-> list[i].host,
                              config |-> Named(list[i].shape, layers[i])]] :
        list \in BoundedSeq([host : Hosts, shape : Shapes], n)}

\* The nodeSpecificConfigs that list this node; others are passed over.
NodeConfigs(defaultLayer, fsLayer) ==
    {[def |-> Named(s, defaultLayer), fs |-> list] :
        s \in Shapes, list \in FsLists(1, <<fsLayer>>)}

NodeLists ==
    {<<>>} \cup {<<c>> : c \in NodeConfigs("N1", "N1F")}
           \cup (IF MaxNodes < 2 THEN {}
                 ELSE NodeConfigs("N1", "N1F") \X NodeConfigs("N2", "N2F"))

Files ==
    {[def |-> Named(s, "D"), fs |-> list, nodes |-> ns] :
        s \in Shapes, list \in FsLists(MaxFs, <<"F1", "F2">>), ns \in NodeLists}

\* What the loop over nodeSpecificConfigs writes, one write per call of
\* overWriteBeegfsConfig, in the order of the calls.  Host Unset: to the
\* default configuration.
NodeWrites(nodes) ==
    FlattenSeq([i \in 1..Len(nodes) |->
        <<[host |-> Unset, config |-> nodes[i].def]>> \o nodes[i].fs])

\* The file has been unmarshalled.
Init ==
    /\ file \in Files
    /\ bad \in SUBSET Suspects
    /\ added = [connAuth |-> <<>>, tlsCert |-> <<>>]
    /\ cfg = [def |-> file.def, fs |-> file.fs]
    /\ pending = NodeWrites(file.nodes)
    /\ state = "overwrite"
-----------------------------------------------------------------------------
Override(old, new) == IF new = Unset THEN old ELSE new

\* Mutant of overWriteBeegfsConfig: unset secrets are copied too.
overWriteBeegfsConfigSecrets(to, from) ==
    [to EXCEPT !.port = Override(@, from.port),
               !.conf = [k \in Keys |-> Override(@[k], from.conf[k])],
               !.connAuth = from.connAuth,
               !.tlsCert = from.tlsCert]

overWriteBeegfsConfig(to, from) ==
    [to EXCEPT !.port = Override(@, from.port),
               !.conf = [k \in Keys |-> Override(@[k], from.conf[k])],
               !.connAuth = Override(@, from.connAuth),
               !.tlsCert = Override(@, from.tlsCert)]

\* A write to a nil map ends the process.
Panics(to, from) == ~to.made /\ \E k \in Keys : from.conf[k] # Unset

Matches(host) == {i \in 1..Len(cfg.fs) : cfg.fs[i].host = host}

OverwriteDefault ==
    /\ state = "overwrite" /\ pending # <<>>
    /\ LET from == Head(pending)
       IN  /\ from.host = Unset
           /\ IF Panics(cfg.def, from.config)
              THEN state' = "panic" /\ UNCHANGED <<cfg, pending>>
              ELSE /\ cfg' = [cfg EXCEPT !.def =
                                 overWriteBeegfsConfig(@, from.config)]
                   /\ pending' = Tail(pending)
                   /\ UNCHANGED state
    /\ UNCHANGED <<file, bad, added>>

\* Mutant of overwriteFileSystemSpecificConfigs: always appended, in front.
overwriteInFront ==
    /\ state = "overwrite" /\ pending # <<>> /\ Head(pending).host # Unset
    /\ cfg' = [cfg EXCEPT !.fs = <<Head(pending)>> \o @]
    /\ pending' = Tail(pending)
    /\ UNCHANGED <<file, bad, added, state>>

\* Every entry of the host is written over; without one the entry is added.
overwriteFileSystemSpecificConfigs ==
    /\ state = "overwrite" /\ pending # <<>>
    /\ LET from == Head(pending)
           to == Matches(from.host)
       IN  /\ from.host # Unset
           /\ IF \E i \in to : Panics(cfg.fs[i].config, from.config)
              THEN state' = "panic" /\ UNCHANGED <<cfg, pending>>
              ELSE /\ cfg' = [cfg EXCEPT !.fs =
                        IF to = {} THEN Append(@, from)
                        ELSE [i \in 1..Len(@) |->
                                IF i \notin to THEN @[i]
                                ELSE [@[i] EXCEPT !.config =
                                        overWriteBeegfsConfig(@, from.config)]]]
                   /\ pending' = Tail(pending)
                   /\ UNCHANGED state
    /\ UNCHANGED <<file, bad, added>>

\* The configurations that validateConfig and stripConfig go through.
BeegfsConfigs == {cfg.def} \cup {cfg.fs[i].config : i \in 1..Len(cfg.fs)}

\* Mutant of IsValid: only the hosts of file system specific configurations are
\* looked at, not their options.
IsValidDefault ==
    /\ \A i \in 1..Len(cfg.fs) : cfg.fs[i].host \notin bad
    /\ cfg.def.port \notin bad

\* validateConfig.
IsValid ==
    /\ \A i \in 1..Len(cfg.fs) : cfg.fs[i].host \notin bad
    /\ \A c \in BeegfsConfigs : c.port \notin bad

Stripped(config) ==
    [config EXCEPT !.conf = [k \in Keys |-> IF k \in NoEffectKeys THEN Unset
                                            ELSE @[k]]]

\* The next file to read has at most n entries.
Read(field, values, n) ==
    /\ state' = field
    /\ \E list \in BoundedSeq([host : Hosts, value : values], n) :
           /\ pending' = list
           /\ added' = [added EXCEPT ![field] = list]

ValidateAndStrip ==
    /\ state = "overwrite" /\ pending = <<>>
    /\ \/ ~IsValid /\ state' = "failed" /\ UNCHANGED <<added, cfg, pending>>
       \/ /\ IsValid
          /\ cfg' = [def |-> Stripped(cfg.def),
                     fs |-> [i \in 1..Len(cfg.fs) |->
                                [cfg.fs[i] EXCEPT !.config = Stripped(@)]]]
          /\ Read("connAuth", Secrets, MaxSecrets)
    /\ UNCHANGED <<file, bad>>

\* The first entry of the host gets the value; without one an entry is added.
AddTo(host, field, value) ==
    cfg' = [cfg EXCEPT !.fs =
        LET to == Matches(host)
        IN  IF to = {}
            THEN Append(@, [host |-> host,
                            config |-> [Named([port |-> FALSE, made |-> FALSE,
                                               keys |-> {}], Unset)
                                        EXCEPT ![field] = value]])
            ELSE LET first == CHOOSE i \in to : \A j \in to : i <= j
                 IN  [@ EXCEPT ![first].config[field] = value]]

parseConnAuthFromFile ==
    /\ state = "connAuth"
    /\ \/ /\ pending # <<>> /\ Head(pending).value = "bad"
          /\ state' = "failed"
          /\ UNCHANGED <<added, cfg, pending>>
       \/ /\ pending # <<>> /\ Head(pending).value # "bad"
          /\ AddTo(Head(pending).host, "connAuth", Head(pending).value)
          /\ pending' = Tail(pending)
          /\ UNCHANGED <<added, state>>
       \/ /\ pending = <<>>
          /\ Read("tlsCert", Certs, MaxCerts)
          /\ UNCHANGED cfg
    /\ UNCHANGED <<file, bad>>

parseTLSCertsFromFile ==
    /\ state = "tlsCert"
    /\ \/ /\ pending # <<>>
          /\ AddTo(Head(pending).host, "tlsCert", Head(pending).value)
          /\ pending' = Tail(pending)
          /\ UNCHANGED state
       \/ pending = <<>> /\ state' = "running" /\ UNCHANGED <<cfg, pending>>
    /\ UNCHANGED <<file, bad, added>>

Next == \/ OverwriteDefault \/ overwriteFileSystemSpecificConfigs
        \/ ValidateAndStrip \/ parseConnAuthFromFile \/ parseTLSCertsFromFile
Spec == Init /\ [][Next]_vars
-----------------------------------------------------------------------------
\* The entries of a list that are for the host, in order.
Of(list, host) == SelectSeq(list, LAMBDA e : e.host = host)

NewBeegfsConfig == [port |-> Unset, made |-> TRUE,
                    conf |-> [k \in Keys |-> Unset],
                    connAuth |-> Unset, tlsCert |-> Unset]

\* What a request for the host works with.
squashConfigForSysMgmtdHost(host) ==
    FoldLeft(LAMBDA to, e : overWriteBeegfsConfig(to, e.config),
             overWriteBeegfsConfig(NewBeegfsConfig, cfg.def),
             Of(cfg.fs, host))
-----------------------------------------------------------------------------
\* The value of the last layer that sets an option.
LastSet(values) == FoldLeft(Override, Unset, values)

Defaults == <<file.def>>
FileSystem(host) == [i \in DOMAIN Of(file.fs, host) |-> Of(file.fs, host)[i].config]
NodeDefaults == [i \in DOMAIN file.nodes |-> file.nodes[i].def]
NodeFileSystem(host) ==
    LET entries == Of(FlattenSeq([i \in DOMAIN file.nodes |-> file.nodes[i].fs]), host)
    IN  [i \in DOMAIN entries |-> entries[i].config]

\* The squashed options are those of the last of the layers that sets them.
FollowsLayers(host, layers) ==
    LET squashed == squashConfigForSysMgmtdHost(host)
    IN  /\ squashed.port = LastSet([i \in DOMAIN layers |-> layers[i].port])
        /\ \A k \in Keys \ NoEffectKeys :
              squashed.conf[k] = LastSet([i \in DOMAIN layers |-> layers[i].conf[k]])

\* "In general, precedence is as follows: config < fileSystemSpecificConfig <
\* nodeSpecificConfig.config < nodeSpecificConfig.fileSystemSpecificConfig"
\* (docs/deployment.md:530).
DocumentedPrecedence ==
    state = "running" =>
        \A h \in Hosts :
            FollowsLayers(h, Defaults \o FileSystem(h) \o NodeDefaults
                                 \o NodeFileSystem(h))

\* "When conflicts occur between configurations of equal precedence,
\* configuration set lower in the file takes precedence": although the parts
\* are written over two structures at the start and squashed per request, no
\* option has the value of a layer if a later layer of its kind sets it.
\* Options without effect are gone.
LowerInFileWins ==
    state = "running" =>
        \A h \in Hosts :
            LET squashed == squashConfigForSysMgmtdHost(h)
            IN  /\ \A layers \in {FileSystem(h), NodeDefaults, NodeFileSystem(h)} :
                   \A j \in DOMAIN layers : \A i \in 1..j - 1 :
                      /\ Unset \notin {layers[i].port, layers[j].port} =>
                            squashed.port # layers[i].port
                      /\ \A k \in Keys \ NoEffectKeys :
                            Unset \notin {layers[i].conf[k], layers[j].conf[k]} =>
                                squashed.conf[k] # layers[i].conf[k]
                /\ \A k \in NoEffectKeys : squashed.conf[k] = Unset

\* validateConfig looks at the merged parts and not at what requests squash:
\* still no request works with a value that is not valid.
NoInvalidValueIsUsed ==
    state = "running" =>
        \A h \in Hosts : squashConfigForSysMgmtdHost(h).port \notin bad

\* A host's secret and certificate are the last ones given for it, although
\* they are kept in one of several entries of the host; other hosts have none.
SecretsReachTheirHost ==
    state = "running" =>
        \A h \in Hosts :
            LET squashed == squashConfigForSysMgmtdHost(h)
                Given(list) == IF Of(list, h) = <<>> THEN Unset
                               ELSE Last(Of(list, h)).value
            IN  /\ squashed.connAuth = Given(added.connAuth)
                /\ squashed.tlsCert = Given(added.tlsCert)

\* Every part of the configuration is optional: no combination of valid parts
\* ends the driver.
StartsWithoutPanic == state # "panic"
=============================================================================
