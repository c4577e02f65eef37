-------------------------- MODULE MCVersionHistory --------------------------
(***************************************************************************)
(* Instances of VersionHistory for TLC.                                    *)
(***************************************************************************)
EXTENDS VersionHistory, TLC

CONSTANTS u1, u2, k1, k2

Interchangeable == Permutations({u1, u2}) \cup Permutations({k1, k2})

=============================================================================
