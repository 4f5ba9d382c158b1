-------------------------- MODULE SanitizeVolumeID --------------------------
(***************************************************************************)
(* sanitizeVolumeID (pkg/beegfs/beegfs_util.go), the name the controller   *)
(* service gives a volume's directory.  The lock is on the volume ID, the  *)
(* files are under this name: two handlers stay apart only if two IDs      *)
(* never share a name.                                                     *)
(*                                                                         *)
(* An ID, without its scheme, is a sequence of characters: "x" stands for  *)
(* every character that is neither "_" nor "/".                            *)
(***************************************************************************)
EXTENDS Naturals, Sequences, SequencesExt

CONSTANTS
    MaxLen,   \* bound on the length of an ID
    MaxName   \* longest file name (255)

ASSUME LengthAssumption == MaxLen \in Nat /\ MaxName \in Nat

Characters == {"x", "_", "/"}

\* Mutant of Replace: underscores are kept as they are.
ReplaceKeepsUnderscore(c) == IF c = "/" THEN <<"_">> ELSE <<c>>

\* The separator is replaced by one underscore, an underscore by two.
Replace(c) ==
    CASE c = "_" -> <<"_", "_">>
      [] c = "/" -> <<"_">>
      [] OTHER -> <<c>>

Sanitized(s) == FoldLeft(LAMBDA name, c : name \o Replace(c), <<>>, s)

\* The sha1 of an ID, assumed free of collisions.
Sha1(s) == <<"sha1">> \o s

sanitizeVolumeID(s) ==
    IF Len(Sanitized(s)) > MaxName THEN Sha1(s) ELSE Sanitized(s)
-----------------------------------------------------------------------------
\* IDs come from NewBeegfsURL and path.Join: a host, then a clean path.
IsVolumeID(s) ==
    /\ s # <<>> => s[1] = "x" /\ s[Len(s)] # "/"
    /\ \A i \in 1..(Len(s) - 1) : s[i] = "/" => s[i + 1] # "/"

\* No component of the path begins or ends with an underscore.
IsUnambiguous(s) ==
    /\ IsVolumeID(s)
    /\ \A i \in 1..(Len(s) - 1) : {s[i], s[i + 1]} # {"_", "/"}
    /\ s # <<>> => s[Len(s)] # "_"

VolumeIDs == {s \in BoundedSeq(Characters, MaxLen) : IsVolumeID(s)}
-----------------------------------------------------------------------------
\* The IDs that are kept apart, with their names.
Names == {<<id, sanitizeVolumeID(id)>> : id \in {s \in VolumeIDs : IsUnambiguous(s)}}

\* The name is a single component that fits the file system.
NamesFit ==
    \A id \in VolumeIDs :
        LET name == sanitizeVolumeID(id)
        IN  \/ name = Sha1(id)
            \/ Len(name) <= MaxName /\ \A i \in 1..Len(name) : name[i] # "/"
=============================================================================
