---------------------------- MODULE MCOfficeSave ----------------------------
(***************************************************************************)
(* Instances of OfficeSave for TLC.                                        *)
(***************************************************************************)
EXTENDS OfficeSave, TLC

CONSTANTS f1, f2, r1, r2, e1, e2

Interchangeable ==
  Permutations({f1, f2}) \cup Permutations({r1, r2}) \cup Permutations({e1, e2})

=============================================================================
