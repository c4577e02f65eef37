---------------------------- MODULE MCMembership ----------------------------
(***************************************************************************)
(* A founder, a user whom a policy admits as an administrator and one whom *)
(* it admits below, two requests at a time.                                *)
(***************************************************************************)
EXTENDS Membership, TLC

CONSTANTS u1, u2, u3, s1, s2, i1, r1, r2

Admission == u1 :> None @@ u2 :> "admin" @@ u3 :> "contributor"

Interchangeable == Permutations({s1, s2})
                     \cup Permutations({r1, r2})

=============================================================================
