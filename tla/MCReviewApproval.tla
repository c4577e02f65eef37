-------------------------- MODULE MCReviewApproval --------------------------
(***************************************************************************)
(* Two versions by the same contributor, a lead and a reviewer who loses   *)
(* and regains access, two transactions at a time.                         *)
(***************************************************************************)
EXTENDS ReviewApproval, TLC

CONSTANTS ann, lee, roy, k1, k2, t1, t2

ByAnn == [v \in Versions |-> ann]
Duties == ann :> {"contributor"} @@ lee :> {"project_lead"}
            @@ roy :> {"reviewer", "none"}
LeeOrBoth == {{lee}, {lee, roy}}
Interchangeable == Permutations(Keys) \cup Permutations(Transactions)

=============================================================================
