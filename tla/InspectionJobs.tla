--------------------------- MODULE InspectionJobs ---------------------------
(***************************************************************************)
(* Inspection of document versions by the background workers: the rows of  *)
(* version_processing_jobs and what ProcessingStore does to them, together *)
(* with the handlers of DocumentProcessor.process that run in the worker   *)
(* processes (services/worker/src/processing-store.ts and pipeline.ts).    *)
(*                                                                         *)
(* A handler may start on any version at any moment: the queue delivers at *)
(* least once, late, early or twice.  DocumentPipeline restricts the       *)
(* starts to the deliveries BullMQ can make.                               *)
(*                                                                         *)
(* One action is one transaction, or one call to the engine or to object   *)
(* storage.                                                                *)
(*                                                                         *)
(* An operator whose name starts with Bug is the definition below it with  *)
(* a mistake someone could make there; it is used by no action.  It is the *)
(* evidence that a property notices the mistake.                           *)
(***************************************************************************)
EXTENDS Naturals, Sequences, InspectionOutcome, LeasedRow

CONSTANTS
  Versions,     \* versions that may get an inspection job (one job each)
  Artifacts,    \* stored files; a restored version shares the file of another
  ArtifactOf,   \* the artifact_id of each version
  Slots,        \* concurrent handler executions (PROCESSING_CONCURRENCY each)
  WorkerOf,     \* the process a slot belongs to
  Results       \* what the document engine may answer: a hash and an outcome

ASSUME ArtifactOfAssumption == ArtifactOf \in [Versions -> Artifacts]
ASSUME WorkerOfAssumption == WorkerOf \in [Slots -> Workers]
ASSUME NoneAssumption == None \notin Workers \cup Versions \cup Results
ASSUME ResultsAssumption == \A r \in Results : r.outcome \in Outcomes

VARIABLES
  job,       \* the row of version_processing_jobs
  version,   \* document_versions.status
  scan,      \* artifacts.scan_status
  snapshot,  \* the row of normalized_snapshots, as the result it records
  object,    \* the bytes under the version's snapshot key in object storage
  finished,  \* the version.processing_finished events, in order
  slot       \* the executions of DocumentProcessor.process

rows == <<job, version, scan, snapshot, finished>>
vars == <<job, version, scan, snapshot, object, finished, slot>>

JobStatus == {"absent", "running"} \cup Waiting \cup Outcomes
Job == Row(JobStatus)

Handler == [pc : {"idle", "inspecting", "stored", "failing"},
            version : Versions \cup {None}, result : Results \cup {None},
            retryable : BOOLEAN]

Idle == [pc |-> "idle", version |-> None, result |-> None, retryable |-> FALSE]

Init ==
  /\ job = [v \in Versions |-> Absent]
  /\ version = [v \in Versions |-> "absent"]
  /\ scan = [a \in Artifacts |-> "pending"]
  /\ snapshot = [v \in Versions |-> None]
  /\ object = [v \in Versions |-> None]
  /\ finished = [v \in Versions |-> <<>>]
  /\ slot = [s \in Slots |-> Idle]

-----------------------------------------------------------------------------
(* Row updates that several transactions share.                            *)

Holds(s) ==
  /\ job[slot[s].version].status = "running"
  /\ job[slot[s].version].owner = WorkerOf[s]

(* The terminal writes of one job.                                         *)
Settle(v, outcome) ==
  /\ job' = [job EXCEPT ![v] = Ended(@, outcome)]
  /\ version' = [version EXCEPT ![v] = VersionAfter(@, outcome)]
  /\ scan' = [scan EXCEPT ![ArtifactOf[v]] = ScanAfter(@, outcome)]
  /\ finished' = [finished EXCEPT ![v] = Append(@, outcome)]

-----------------------------------------------------------------------------
(* The API creates a version and its job in one transaction.  The version  *)
(* is born conflicted when its base was stale.                             *)
Enqueue(v, status) ==
  /\ job[v].status = "absent"
  /\ job' = [job EXCEPT ![v] = Queued(@)]
  /\ version' = [version EXCEPT ![v] = status]
  /\ UNCHANGED <<scan, snapshot, object, finished, slot>>

(* The clock: a lease that was not renewed in time, a retry delay that ran *)
(* out.                                                                    *)
LeaseRunsOut(v) ==
  /\ job[v].status = "running"
  /\ job[v].lease = "live"
  /\ job' = [job EXCEPT ![v].lease = "expired"]
  /\ UNCHANGED <<version, scan, snapshot, object, finished, slot>>

BecomesDue(v) ==
  /\ job[v].status \in Waiting
  /\ ~job[v].due
  /\ job' = [job EXCEPT ![v].due = TRUE]
  /\ UNCHANGED <<version, scan, snapshot, object, finished, slot>>

(* The transaction that opens listDispatchable: every expired lease of     *)
(* every worker is taken back, for another attempt or for good.            *)
ExpiredLeases ==
  {v \in Versions : LeaseLost(job[v])}
Exhausted == {v \in ExpiredLeases : job[v].attempts >= MaxAttempts}

Sweep ==
  /\ ExpiredLeases # {}
  /\ job' = [v \in Versions |-> Swept(job[v])]
  /\ version' = [v \in Versions |->
                   IF v \in Exhausted THEN "failed" ELSE version[v]]
  /\ scan' = [a \in Artifacts |->
                IF scan[a] = "pending" /\ \E v \in Exhausted : ArtifactOf[v] = a
                THEN "failed" ELSE scan[a]]
  /\ finished' = [v \in Versions |->
                    IF v \in Exhausted
                    THEN Append(finished[v], "permanently_failed")
                    ELSE finished[v]]
  /\ UNCHANGED <<snapshot, object, slot>>

-----------------------------------------------------------------------------
(* The handler.                                                            *)

(* The answer to the claim may be lost: the row is claimed and nobody      *)
(* works on it.                                                            *)
Claim(s, v, answered) ==
  /\ slot[s].pc = "idle"
  /\ Free(job[v])
  /\ job' = [job EXCEPT ![v] = Taken(@, WorkerOf[s])]
  /\ slot' = [slot EXCEPT ![s] =
                IF answered THEN [Idle EXCEPT !.pc = "inspecting", !.version = v]
                ELSE Idle]
  /\ UNCHANGED <<version, scan, snapshot, object, finished>>

(* The timer of a handler runs until the handler ends.  It renews whatever *)
(* lease its process holds on the job, run out or not.                     *)
Heartbeat(s) ==
  /\ slot[s].pc # "idle"
  /\ Holds(s)
  /\ job' = [job EXCEPT ![slot[s].version].lease = "live"]
  /\ UNCHANGED <<version, scan, snapshot, object, finished, slot>>

(* Reading the artifact or inspecting it fails, for good (a hash mismatch, *)
(* a file the engine refuses) or not (a timeout, an unavailable engine).   *)
InspectFails(s, retryable) ==
  /\ slot[s].pc = "inspecting"
  /\ slot' = [slot EXCEPT ![s].pc = "failing", ![s].retryable = retryable]
  /\ UNCHANGED <<rows, object>>

BugOverwriteObject(s, r, answered) ==
  /\ slot[s].pc = "inspecting"
  /\ object' = [object EXCEPT ![slot[s].version] = r]
  /\ slot' = [slot EXCEPT ![s] =
                IF answered THEN [@ EXCEPT !.pc = "stored", !.result = r]
                ELSE [@ EXCEPT !.pc = "failing", !.retryable = TRUE]]
  /\ UNCHANGED rows

(* The engine answers and the snapshot is put under its immutable key: an  *)
(* existing object is kept, and different bytes are a permanent failure.   *)
(* If the answer to the put is lost, the attempt fails with the object     *)
(* already there.                                                          *)
StoreSnapshot(s, r, answered) ==
  /\ slot[s].pc = "inspecting"
  /\ LET v == slot[s].version
         stored == IF object[v] = None THEN r ELSE object[v]
     IN  /\ object' = [object EXCEPT ![v] = stored]
         /\ slot' = [slot EXCEPT ![s] =
                       IF answered /\ stored = r
                       THEN [@ EXCEPT !.pc = "stored", !.result = r]
                       ELSE [@ EXCEPT !.pc = "failing", !.retryable = ~answered]]
  /\ UNCHANGED rows

(* The complete transaction, in the order of its checks.                   *)
SnapshotRecorded(s) == snapshot[slot[s].version] # None

(* It returns without a write: the same result is recorded already, or the *)
(* job is not running any more.                                            *)
DropResult(s) ==
  /\ slot[s].pc = "stored"
  /\ IF SnapshotRecorded(s)
     THEN snapshot[slot[s].version] = slot[s].result
     ELSE job[slot[s].version].status # "running"
  /\ slot' = [slot EXCEPT ![s] = Idle]
  /\ UNCHANGED <<rows, object>>

(* It throws: another result is recorded, the lease belongs to another     *)
(* process, or the database could not be reached.                          *)
CompleteThrows(s) ==
  /\ slot[s].pc = "stored"
  /\ slot' = [slot EXCEPT ![s].pc = "failing", ![s].retryable = TRUE]
  /\ UNCHANGED <<rows, object>>

(* It commits.  The handler may still see an error, if the answer is lost. *)
CommitResult(s, answered) ==
  /\ slot[s].pc = "stored"
  /\ ~SnapshotRecorded(s)
  /\ Holds(s)
  /\ snapshot' = [snapshot EXCEPT ![slot[s].version] = slot[s].result]
  /\ Settle(slot[s].version, slot[s].result.outcome)
  /\ slot' = [slot EXCEPT ![s] =
                IF answered THEN Idle
                ELSE [@ EXCEPT !.pc = "failing", !.retryable = TRUE]]
  /\ UNCHANGED object

BugRetryForever(s) ==
  slot[s].retryable /\ job[slot[s].version].attempts <= MaxAttempts

(* The recordFailure transaction.                                          *)
Retries(s) ==
  slot[s].retryable /\ job[slot[s].version].attempts < MaxAttempts

BugRetryWithoutLease(s) ==
  /\ slot[s].pc = "failing"
  /\ Retries(s)
  /\ job' = [job EXCEPT ![slot[s].version] = Retried(@, FALSE)]
  /\ slot' = [slot EXCEPT ![s] = Idle]
  /\ UNCHANGED <<version, scan, snapshot, object, finished>>

RecordRetry(s) ==
  /\ slot[s].pc = "failing"
  /\ Holds(s)
  /\ Retries(s)
  /\ job' = [job EXCEPT ![slot[s].version] = Retried(@, FALSE)]
  /\ slot' = [slot EXCEPT ![s] = Idle]
  /\ UNCHANGED <<version, scan, snapshot, object, finished>>

BugFailWithoutLease(s) ==
  /\ slot[s].pc = "failing"
  /\ ~Retries(s)
  /\ Settle(slot[s].version, "permanently_failed")
  /\ slot' = [slot EXCEPT ![s] = Idle]
  /\ UNCHANGED <<snapshot, object>>

RecordPermanent(s) ==
  /\ slot[s].pc = "failing"
  /\ Holds(s)
  /\ ~Retries(s)
  /\ Settle(slot[s].version, "permanently_failed")
  /\ slot' = [slot EXCEPT ![s] = Idle]
  /\ UNCHANGED <<snapshot, object>>

(* The job is not this process's any more, or the database is unreachable  *)
(* and the handler gives up: the row is left as it is.                     *)
FailureNotRecorded(s) ==
  /\ slot[s].pc = "failing"
  /\ slot' = [slot EXCEPT ![s] = Idle]
  /\ UNCHANGED <<rows, object>>

(* A process dies with all its handlers.  The next one has a new lease     *)
(* owner; since no handler of the dead one is left, the name is reused.    *)
Crash(w) ==
  /\ \E s \in Slots : WorkerOf[s] = w /\ slot[s].pc # "idle"
  /\ slot' = [s \in Slots |-> IF WorkerOf[s] = w THEN Idle ELSE slot[s]]
  /\ UNCHANGED <<rows, object>>

-----------------------------------------------------------------------------
Handle(s) ==
  \/ Heartbeat(s)
  \/ \E retryable \in BOOLEAN : InspectFails(s, retryable)
  \/ \E r \in Results, answered \in BOOLEAN : StoreSnapshot(s, r, answered)
  \/ DropResult(s)
  \/ CompleteThrows(s)
  \/ \E answered \in BOOLEAN : CommitResult(s, answered)
  \/ RecordRetry(s)
  \/ RecordPermanent(s)
  \/ FailureNotRecorded(s)

Next ==
  \/ \E v \in Versions, status \in {"pending_processing", "conflicted"} :
       Enqueue(v, status)
  \/ \E v \in Versions : LeaseRunsOut(v) \/ BecomesDue(v)
  \/ Sweep
  \/ \E s \in Slots, v \in Versions, answered \in BOOLEAN : Claim(s, v, answered)
  \/ \E s \in Slots : Handle(s)
  \/ \E w \in Workers : Crash(w)

Spec == Init /\ [][Next]_vars

-----------------------------------------------------------------------------
(* Properties.                                                             *)

(* The rows and the handlers have the shapes the schema and the code give  *)
(* them; in particular attempts never passes max_attempts, which a CHECK   *)
(* constraint of version_processing_jobs would turn into an error.         *)
TypeOK ==
  /\ job \in [Versions -> Job]
  /\ version \in [Versions -> VersionStatus \cup {"absent"}]
  /\ scan \in [Artifacts -> ScanStatus]
  /\ snapshot \in [Versions -> Results \cup {None}]
  /\ object \in [Versions -> Results \cup {None}]
  /\ finished \in [Versions -> Seq(Outcomes)]
  /\ slot \in [Slots -> Handler]

(* What applyTerminalOutcome and the sweep report agrees with the rows:    *)
(* a version has left processing exactly when its job is over, with the    *)
(* status the job ended with, and the ending was published exactly once.   *)
Ending(v) == job[v].status \in Outcomes

StatusOf(v) ==
  CASE job[v].status = "completed" -> {"ready", "conflicted"}
    [] job[v].status = "quarantined" -> {"quarantined"}
    [] job[v].status = "permanently_failed" -> {"failed"}
    [] job[v].status = "absent" -> {"absent"}
    [] OTHER -> {"pending_processing", "conflicted"}

OutcomeReported ==
  \A v \in Versions :
    /\ version[v] \in StatusOf(v)
    /\ finished[v] = IF Ending(v) THEN <<job[v].status>> ELSE <<>>

(* A normalized_snapshots row describes the bytes in object storage, and   *)
(* the job ended with the outcome of that snapshot, whichever handlers,    *)
(* retries and processes raced to store and record a result.               *)
SnapshotIntact ==
  \A v \in Versions :
    /\ snapshot[v] # None =>
         /\ object[v] = snapshot[v]
         /\ job[v].status = snapshot[v].outcome
    /\ job[v].status \in {"completed", "quarantined"} => snapshot[v] # None

(* The scan status that every version of a file shares follows from the    *)
(* inspections of all of them: one quarantine condemns the file for good,  *)
(* a clean file has passed an inspection, and a file that passed one is    *)
(* never left pending or failed by the failure of another version.         *)
SomeEnded(a, outcome) ==
  \E v \in Versions : ArtifactOf[v] = a /\ job[v].status = outcome

ScanFollows ==
  \A a \in Artifacts :
    scan[a] = IF SomeEnded(a, "quarantined") THEN "quarantined"
              ELSE IF SomeEnded(a, "completed") THEN "clean"
              ELSE IF SomeEnded(a, "permanently_failed") THEN "failed"
              ELSE "pending"

(* While a lease is live nobody takes the job from the process that holds  *)
(* it: a running job leaves that state, or its owner, only by a step of a  *)
(* handler of the owning process that works on this very job.              *)
ByOwner(v) ==
  \E s \in Slots :
    /\ WorkerOf[s] = job[v].owner
    /\ slot[s].version = v
    /\ slot'[s] # slot[s]

LeaseKept(v) ==
  /\ job[v].status = "running"
  /\ job[v].lease = "live"
  /\ job'[v].status # "running" \/ job'[v].owner # job[v].owner
  => ByOwner(v)

LeaseRespected == [][\A v \in Versions : LeaseKept(v)]_vars

(* A terminal row, a recorded snapshot and a stored object are never       *)
(* overwritten, and a quarantined file is never released.                  *)
Kept ==
  /\ \A v \in Versions :
       /\ Ending(v) => job'[v] = job[v] /\ version'[v] = version[v]
       /\ snapshot[v] # None => snapshot'[v] = snapshot[v]
       /\ object[v] # None => object'[v] = object[v]
  /\ \A a \in Artifacts : scan[a] = "quarantined" => scan'[a] = "quarantined"

NothingRewritten == [][Kept]_vars

(* The inspection jobs keep the promise of JobLifecycle.                   *)
Lifecycle == INSTANCE JobLifecycle WITH
  Jobs <- Versions,
  Endings <- Outcomes,
  phase <- [v \in Versions |->
              IF job[v].status \in Waiting THEN "waiting" ELSE job[v].status],
  tries <- [v \in Versions |-> job[v].attempts],
  published <- finished

KeepsLifecycle == Lifecycle!Spec

=============================================================================
