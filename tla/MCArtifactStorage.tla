------------------------- MODULE MCArtifactStorage -------------------------
(***************************************************************************)
(* Two renditions of one file or a merge, worked on by one process, two    *)
(* uploads, one with the declared bytes and one without, two finalize      *)
(* requests, and the cleanup timer.                                        *)
(***************************************************************************)
EXTENDS ArtifactStorage, FiniteSetsExt, TLC

CONSTANTS r1, r2, m1, file, w1, s1, x, u1, u2, f1, f2

OneSource == [r \in Renditions |-> file]
OneSlot == [s \in Slots |-> w1]
NothingSent == [u \in {} |-> "good"]
GoodAndBad == u1 :> "good" @@ u2 :> "bad"

(* Bound: the uploads, claims and finalize requests of one behaviour.      *)
Begun ==
  MapThenSumSet(LAMBDA j : job[j].attempts, Jobs)
    + Cardinality({f \in Attempts : attempt[f].pc # "new"})
    + Cardinality({u \in Uploads : upload[u].status # "absent"})

Bounded == Begun <= 3

Interchangeable ==
  Permutations({r1, r2}) \cup Permutations({f1, f2})

=============================================================================
