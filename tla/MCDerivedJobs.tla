--------------------------- MODULE MCDerivedJobs ---------------------------
(***************************************************************************)
(* Two renditions of one file, a comparison and a merge, of which two are  *)
(* requested; two processes with a handler each.                           *)
(***************************************************************************)
EXTENDS DerivedJobs, TLC

CONSTANTS c1, r1, r2, m1, file, w1, w2, s1, s2, x, y

OneSource == [r \in Renditions |-> file]
OneEach == s1 :> w1 @@ s2 :> w2

Processes == {w1 :> w2 @@ w2 :> w1 @@ s1 :> s2 @@ s2 :> s1}

Interchangeable ==
  Permutations({x, y}) \cup Permutations({r1, r2}) \cup Processes

=============================================================================
