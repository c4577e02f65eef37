----------------------------- MODULE MCWebCache -----------------------------
(***************************************************************************)
(* Instances of WebCache for TLC.                                          *)
(***************************************************************************)
EXTENDS WebCache

CONSTANTS c1, c2

(* One person who may do everything and one who may review.                *)
People ==
  {[organization |-> "admin", project |-> "none"],
   [organization |-> "reviewer", project |-> "reviewer"]}

=============================================================================
