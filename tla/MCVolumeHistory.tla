-------------------------- MODULE MCVolumeHistory ---------------------------
(***************************************************************************)
(* A small instance of VolumeHistory, and with it of ControllerServer, for *)
(* TLC.                                                                    *)
(***************************************************************************)
EXTENDS VolumeHistory

\* Names play no part: any injective function will do.
MCAnyDir == [v \in Volumes |-> v]

\* Every call can fail.
MCAllPoints == Points
=============================================================================
