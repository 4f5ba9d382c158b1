---------------------------- MODULE ClientFiles -----------------------------
(***************************************************************************)
(* writeClientFiles of pkg/beegfs/beegfs_util.go: beegfs-client.conf is    *)
(* made from a template and the options of the volume's configuration, and *)
(* is written last, after the files it names.                              *)
(*                                                                         *)
(* A template is the set of its keys.  A configuration has two maps:       *)
(* options, beegfsClientConf, and files, the contents of the lists and     *)
(* secrets it sets.  On disk, conf is the configuration file and files     *)
(* the other complete files in mountDirPath.                               *)
(***************************************************************************)
EXTENDS Naturals, Sequences, FiniteSets, Functions, TLC

\* Written in this order.  All but cert.pem are named in beegfs-client.conf.
OptionalFiles ==
    <<"connInterfacesFile", "connAuthFile", "cert.pem", "connNetFilterFile",
      "connTcpOnlyFilterFile", "connRDMAInterfacesFile">>

Deprecated == {"connMgmtdPortTCP", "connMgmtdPortUDP"}

\* No complete beegfs-client.conf.
NoConf == <<>>
EmptyDisk == [conf |-> NoConf, files |-> <<>>]

\* The keys every client needs: the host and a port of its own.
CanBeAddressed(template) ==
    /\ "sysMgmtdHost" \in template
    /\ template \cap {"connClientPort", "connClientPortUDP"} # {}

\* Mutant of SetOption: differing ports are not refused.
SetOptionAnyPort(c, k, v) ==
    IF k \in DOMAIN c.conf THEN [c EXCEPT !.conf[k] = v]
    ELSE IF k \in Deprecated /\ "connMgmtdPort" \in DOMAIN c.conf
    THEN [c EXCEPT !.conf["connMgmtdPort"] = v, !.port = v]
    ELSE [c EXCEPT !.ok = FALSE]

\* One turn of the loop over beegfsClientConf.  A port option that the
\* template does not have any more sets connMgmtdPort; port is the local
\* variable that keeps two of them from disagreeing.
SetOption(c, k, v) ==
    IF k \in DOMAIN c.conf THEN [c EXCEPT !.conf[k] = v]
    ELSE IF /\ k \in Deprecated
            /\ "connMgmtdPort" \in DOMAIN c.conf
            /\ c.port \in {"", v}
    THEN [c EXCEPT !.conf["connMgmtdPort"] = v, !.port = v]
    ELSE [c EXCEPT !.ok = FALSE]

\* The loop ends at the first error, whatever follows.
SetOptions(template, options, order) ==
    LET after[n \in 0..Len(order)] ==
            IF n = 0
            THEN [conf |-> [k \in template |-> "template"], port |-> "", ok |-> TRUE]
            ELSE IF after[n - 1].ok
            THEN SetOption(after[n - 1], order[n], options[order[n]])
            ELSE after[n - 1]
    IN  after[Len(order)]

\* A Go map is iterated in any order.
Orders(S) == {o \in [1..Cardinality(S) -> S] : IsInjective(o)}

\* What the loop may make of a template that it is reached with: it sets values
\* and adds no key.
Confs(template, options) ==
    {[k \in template |-> c.conf[k]] :
        c \in {d \in {SetOptions(template, options, o) : o \in Orders(DOMAIN options)} :
                  CanBeAddressed(template) /\ d.ok}}

FilesOf(config) == SelectSeq(OptionalFiles, LAMBDA f : f \in DOMAIN config.files)

CanBeNamed(template, f) == f \in template \cup {"cert.pem"}

Naming(conf, files) ==
    [k \in DOMAIN conf |-> IF k \in files THEN "named" ELSE conf[k]]

\* Disk d with the first n files of the configuration, and when an error tears
\* the n-th.
AfterFiles(d, config, n) ==
    [d EXCEPT !.files = Restrict(config.files, {FilesOf(config)[i] : i \in 1..n}) @@ @]

TornFile(d, config, n) ==
    [AfterFiles(d, config, n - 1) EXCEPT
        !.files = Restrict(@, DOMAIN @ \ {FilesOf(config)[n]})]

\* How many files can be written, and whether that is all of them.
FilesReached(template, config) ==
    {n \in 0..Len(FilesOf(config)) :
        \A i \in 1..n : CanBeNamed(template, FilesOf(config)[i])}

AllReached(template, config) ==
    {n \in FilesReached(template, config) : n = Len(FilesOf(config))}

\* What is left when all is written, and by an error while files are written.
WrittenDisks(d, template, config, confs) ==
    {[AfterFiles(d, config, n) EXCEPT !.conf = Naming(c, DOMAIN config.files)] :
        n \in AllReached(template, config), c \in confs}

TornDisks(d, template, config) ==
    {AfterFiles(d, config, n) : n \in FilesReached(template, config)}
        \cup {TornFile(d, config, n) : n \in FilesReached(template, config) \ {0}}
        \cup {[AfterFiles(d, config, n) EXCEPT !.conf = NoConf] :
                  n \in AllReached(template, config)}

\* The outcomes of writeClientFiles in a directory with disk d: it is done, or
\* it ends with an error before or while it writes one of the files.
Outcomes(d, template, config) ==
    LET confs == Confs(template, config.options)
        failed == {d} \cup IF confs = {} THEN {} ELSE TornDisks(d, template, config)
    IN  {[disk |-> x, ok |-> TRUE] : x \in WrittenDisks(d, template, config, confs)}
            \cup {[disk |-> x, ok |-> FALSE] : x \in failed}

\* The client and beegfs-ctl work with what was configured: every option has
\* its value, under the name the template knows, and the files are there.
AsConfigured(d, template, config) ==
    /\ d.conf # NoConf
    /\ \A k \in DOMAIN config.options :
          d.conf[IF k \in template THEN k ELSE "connMgmtdPort"] = config.options[k]
    /\ \A k \in template : d.conf[k] = "named" <=> k \in DOMAIN config.files
    /\ DOMAIN config.files \subseteq DOMAIN d.files
    /\ \A f \in DOMAIN config.files : d.files[f] = config.files[f]
=============================================================================
