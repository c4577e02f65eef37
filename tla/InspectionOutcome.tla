------------------------- MODULE InspectionOutcome -------------------------
(***************************************************************************)
(* What the outcome of an inspection makes of the status of the version    *)
(* and of the scan status of its file (applyTerminalOutcome in             *)
(* services/worker/src/processing-store.ts).                               *)
(***************************************************************************)

Outcomes == {"completed", "quarantined", "permanently_failed"}

VersionStatus ==
  {"pending_processing", "conflicted", "ready", "failed", "quarantined"}
ScanStatus == {"pending", "clean", "quarantined", "failed"}

VersionAfter(status, outcome) ==
  CASE outcome = "completed" ->
         (IF status = "conflicted" THEN "conflicted" ELSE "ready")
    [] outcome = "quarantined" -> "quarantined"
    [] OTHER -> "failed"

BugReleaseQuarantined(status, outcome) ==
  CASE outcome = "quarantined" -> "quarantined"
    [] outcome = "completed" -> "clean"
    [] outcome = "permanently_failed" /\ status = "pending" -> "failed"
    [] OTHER -> status

ScanAfter(status, outcome) ==
  CASE outcome = "quarantined" -> "quarantined"
    [] outcome = "completed" /\ status # "quarantined" -> "clean"
    [] outcome = "permanently_failed" /\ status = "pending" -> "failed"
    [] OTHER -> status

=============================================================================
