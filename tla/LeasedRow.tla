----------------------------- MODULE LeasedRow -----------------------------
(***************************************************************************)
(* The row that every family of background work keeps in PostgreSQL, and   *)
(* the updates its statements make (processing-store.ts and                *)
(* notification-store.ts in services/worker/src).                          *)
(*                                                                         *)
(* Clock time is kept as two facts about a row: whether its lease has run  *)
(* out and whether available_at has passed.                                *)
(***************************************************************************)
EXTENDS Naturals

CONSTANTS
  Workers,      \* worker processes; the lease owner names one
  MaxAttempts,  \* max_attempts
  None          \* SQL null

ASSUME MaxAttemptsAssumption == MaxAttempts \in Nat \ {0}

Waiting == {"queued", "retryable_failed"}

Row(statuses) ==
  [status : statuses, attempts : 0..MaxAttempts, due : BOOLEAN,
   owner : Workers \cup {None}, lease : {"none", "live", "expired"}]

Absent == [status |-> "absent", attempts |-> 0, due |-> FALSE,
           owner |-> None, lease |-> "none"]

Queued(row) == [row EXCEPT !.status = "queued", !.due = TRUE]

Taken(row, owner) ==
  [row EXCEPT !.status = "running", !.attempts = @ + 1,
              !.owner = owner, !.lease = "live"]

Retried(row, due) ==
  [row EXCEPT !.status = "retryable_failed", !.due = due,
              !.owner = None, !.lease = "none"]

Ended(row, outcome) ==
  [row EXCEPT !.status = outcome, !.owner = None, !.lease = "none"]

(* BugLeaseLost is a mistake someone could make in LeaseLost, used by no   *)
(* action: the evidence that a property notices it.  Every operator of the *)
(* project whose name starts with Bug is of this kind.                     *)
(*                                                                         *)
(* What the sweep that precedes every listing takes back, and what a claim *)
(* accepts.                                                                *)
BugLeaseLost(row) == row.status = "running"
LeaseLost(row) == row.status = "running" /\ row.lease = "expired"

BugSwept(row) == IF LeaseLost(row) THEN Retried(row, TRUE) ELSE row

Swept(row) ==
  IF ~LeaseLost(row) THEN row
  ELSE IF row.attempts < MaxAttempts THEN Retried(row, TRUE)
  ELSE Ended(row, "permanently_failed")

Free(row) == row.status \in Waiting /\ row.due /\ row.attempts < MaxAttempts

=============================================================================
