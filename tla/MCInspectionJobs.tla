-------------------------- MODULE MCInspectionJobs --------------------------
(***************************************************************************)
(* Two versions of one file, inspected by two processes, the first of      *)
(* which runs two handlers at a time.                                      *)
(***************************************************************************)
EXTENDS InspectionJobs, TLC

CONSTANTS v1, v2, file, w1, w2, s1, s2, s3

SharedFile == [v \in Versions |-> file]
TwoAndOne == s1 :> w1 @@ s2 :> w1 @@ s3 :> w2

CleanOrNot == {[hash |-> "h1", outcome |-> "completed"],
               [hash |-> "h2", outcome |-> "quarantined"]}

Interchangeable == Permutations({v1, v2}) \cup Permutations({s1, s2})

=============================================================================
