-------------------------- MODULE DocumentPipeline --------------------------
(***************************************************************************)
(* How inspection jobs reach the handlers of InspectionJobs: every worker  *)
(* process runs a dispatcher that copies claimable rows into a BullMQ      *)
(* queue in Redis, and a BullMQ worker that delivers entries to idle       *)
(* handlers (DocumentPipeline in services/worker/src/pipeline.ts and       *)
(* queue.ts).  The rows decide, the queue only wakes a handler up: its     *)
(* entries may be early, late, duplicated or lost.                         *)
(*                                                                         *)
(* Crashes, losses, stalls and unreachable dependencies are faults; a      *)
(* behaviour has at most MaxFaults of them, which is how the liveness      *)
(* properties say "once the faults stop".  Operators named Bug... are as   *)
(* in InspectionJobs.                                                      *)
(***************************************************************************)
EXTENDS InspectionJobs

CONSTANT MaxFaults
ASSUME MaxFaultsAssumption == MaxFaults \in Nat
ASSUME HolderAssumption == None \notin Slots

VARIABLES
  queue,       \* the entry of each job in BullMQ; waiting includes delayed
  holder,      \* the handler that holds the lock of an active entry
  dispatcher,  \* per process: where its dispatch loop is
  requested,   \* the version.processing_requested event of the outbox
  faults       \* faults so far

queueVars == <<queue, holder>>
pipelineVars == <<vars, queueVars, dispatcher, requested, faults>>

EntryStatus == {"absent", "waiting", "active", "over"}
Resting == [step |-> "sweep", todo |-> {}, version |-> None]

PipelineInit ==
  /\ Init
  /\ queue = [v \in Versions |-> "absent"]
  /\ holder = [v \in Versions |-> None]
  /\ dispatcher = [w \in Workers |-> Resting]
  /\ requested = [v \in Versions |-> "absent"]
  /\ faults = 0

Fault == faults < MaxFaults /\ faults' = faults + 1
NoFault == UNCHANGED faults

-----------------------------------------------------------------------------
Submit(v, status) ==
  /\ Enqueue(v, status)
  /\ requested' = [requested EXCEPT ![v] = "pending"]
  /\ UNCHANGED <<queueVars, dispatcher>> /\ NoFault

Tick(v) ==
  /\ LeaseRunsOut(v) \/ BecomesDue(v)
  /\ UNCHANGED <<queueVars, dispatcher, requested>> /\ NoFault

-----------------------------------------------------------------------------
(* One round of a dispatcher: sweep, list, and for every listed job look   *)
(* at the entry, remove it if it is over, add one, and mark the job.       *)

Goes(w, step) == dispatcher' = [dispatcher EXCEPT ![w].step = step]

SweepLeases(w) ==
  /\ dispatcher[w].step = "sweep"
  /\ Sweep \/ (ExpiredLeases = {} /\ UNCHANGED vars)
  /\ Goes(w, "list")
  /\ UNCHANGED <<queueVars, requested>> /\ NoFault

List(w) ==
  /\ dispatcher[w].step = "list"
  /\ dispatcher' = [dispatcher EXCEPT ![w] =
       [step |-> "next", todo |-> {v \in Versions : Free(job[v])},
        version |-> None]]
  /\ UNCHANGED <<vars, queueVars, requested>> /\ NoFault

EndRound(w) ==
  /\ dispatcher[w].step = "next"
  /\ dispatcher[w].todo = {}
  /\ dispatcher' = [dispatcher EXCEPT ![w] = Resting]
  /\ UNCHANGED <<vars, queueVars, requested>> /\ NoFault

BugKeepFinishedEntries(w, v) ==
  /\ dispatcher[w].step = "next"
  /\ v \in dispatcher[w].todo
  /\ dispatcher' = [dispatcher EXCEPT ![w] =
       [step |-> "add", todo |-> @.todo \ {v}, version |-> v]]
  /\ UNCHANGED <<vars, queueVars, requested>> /\ NoFault

Look(w, v) ==
  /\ dispatcher[w].step = "next"
  /\ v \in dispatcher[w].todo
  /\ dispatcher' = [dispatcher EXCEPT ![w] =
       [step |-> IF queue[v] = "over" THEN "remove" ELSE "add",
        todo |-> @.todo \ {v}, version |-> v]]
  /\ UNCHANGED <<vars, queueVars, requested>> /\ NoFault

(* By now another dispatcher may have replaced the entry.  BullMQ refuses  *)
(* to remove a locked one, and the error ends the round.  The lock of a    *)
(* dead handler lasts a while.                                             *)
Remove(w) ==
  /\ dispatcher[w].step = "remove"
  /\ LET v == dispatcher[w].version
     IN  \/ /\ queue[v] = "active"
            /\ dispatcher' = [dispatcher EXCEPT ![w] = Resting]
            /\ UNCHANGED queueVars
         \/ /\ holder[v] = None
            /\ queue' = [queue EXCEPT ![v] = "absent"]
            /\ Goes(w, "add")
            /\ UNCHANGED holder
  /\ UNCHANGED <<vars, requested>> /\ NoFault

BugAddWithoutJobId(w) ==
  /\ dispatcher[w].step = "add"
  /\ queue' = [queue EXCEPT ![dispatcher[w].version] = "waiting"]
  /\ holder' = [holder EXCEPT ![dispatcher[w].version] = None]
  /\ Goes(w, "mark")
  /\ UNCHANGED <<vars, requested>> /\ NoFault

Add(w) ==
  /\ dispatcher[w].step = "add"
  /\ queue' = [queue EXCEPT ![dispatcher[w].version] =
                 IF @ = "absent" THEN "waiting" ELSE @]
  /\ Goes(w, "mark")
  /\ UNCHANGED <<vars, holder, requested>> /\ NoFault

BugPublishOnlyWaiting(w) ==
  /\ dispatcher[w].step = "mark"
  /\ requested' = [requested EXCEPT ![dispatcher[w].version] =
                     IF job[dispatcher[w].version].status \in Waiting
                     THEN "published" ELSE @]
  /\ dispatcher' = [dispatcher EXCEPT ![w].step = "next", ![w].version = None]
  /\ UNCHANGED <<vars, queueVars>> /\ NoFault

MarkDispatched(w) ==
  /\ dispatcher[w].step = "mark"
  /\ requested' = [requested EXCEPT ![dispatcher[w].version] = "published"]
  /\ dispatcher' = [dispatcher EXCEPT ![w].step = "next", ![w].version = None]
  /\ UNCHANGED <<vars, queueVars>> /\ NoFault

(* Redis or Postgres does not answer one of these calls.                   *)
DispatchFails(w) ==
  /\ dispatcher[w] # Resting
  /\ dispatcher' = [dispatcher EXCEPT ![w] = Resting]
  /\ UNCHANGED <<vars, queueVars, requested>> /\ Fault

Dispatch(w) ==
  \/ SweepLeases(w) \/ List(w) \/ EndRound(w)
  \/ \E v \in Versions : Look(w, v)
  \/ Remove(w) \/ Add(w) \/ MarkDispatched(w)

-----------------------------------------------------------------------------
(* What the end of a delivery does to the entry: one that throws is        *)
(* delayed for another delivery, or over when BullMQ has counted enough.   *)

Returned == {"over"}
Thrown == {"waiting", "over"}

EndsEntry(v, outcomes) ==
  /\ queue' \in {[queue EXCEPT ![v] = after] : after \in outcomes}
  /\ holder' = [holder EXCEPT ![v] = None]

(* Only the handler that still holds the lock moves the entry.             *)
Releases(s, outcomes) ==
  IF holder[slot[s].version] = s
  THEN EndsEntry(slot[s].version, outcomes)
  ELSE UNCHANGED queueVars

Deliver(s, v) ==
  /\ queue[v] = "waiting"
  /\ slot[s].pc = "idle"
  /\ \/ /\ Claim(s, v, TRUE)
        /\ queue' = [queue EXCEPT ![v] = "active"]
        /\ holder' = [holder EXCEPT ![v] = s]
     \/ ~Free(job[v]) /\ EndsEntry(v, Returned) /\ UNCHANGED vars
  /\ UNCHANGED <<dispatcher, requested>> /\ NoFault

(* The claim fails, with or without having been carried out.               *)
DeliveryFails(s, v) ==
  /\ queue[v] = "waiting"
  /\ slot[s].pc = "idle"
  /\ Claim(s, v, FALSE) \/ UNCHANGED vars
  /\ EndsEntry(v, Thrown)
  /\ UNCHANGED <<dispatcher, requested>> /\ Fault

(* The steps of a handler whose calls are all answered.                    *)
Work(s) ==
  /\ \/ /\ \/ \E retryable \in BOOLEAN : InspectFails(s, retryable)
           \/ \E r \in Results : StoreSnapshot(s, r, TRUE)
           \/ CompleteThrows(s) /\ (SnapshotRecorded(s) \/ ~Holds(s))
        /\ UNCHANGED queueVars
     \/ (DropResult(s) \/ CommitResult(s, TRUE)) /\ Releases(s, Returned)
     \/ RecordRetry(s) /\ Releases(s, Thrown)
     \/ RecordPermanent(s) /\ Releases(s, Returned)
     \/ FailureNotRecorded(s) /\ ~Holds(s) /\ Releases(s, Returned)
  /\ UNCHANGED <<dispatcher, requested>> /\ NoFault

(* A call is not answered, whether it was carried out or not.              *)
WorkFails(s) ==
  /\ \/ /\ \/ \E r \in Results : StoreSnapshot(s, r, FALSE)
           \/ CompleteThrows(s) \/ CommitResult(s, FALSE)
        /\ UNCHANGED queueVars
     \/ /\ RecordRetry(s) \/ RecordPermanent(s) \/ FailureNotRecorded(s)
        /\ Releases(s, Thrown)
  /\ UNCHANGED <<dispatcher, requested>> /\ Fault

Renew(s) ==
  /\ Heartbeat(s)
  /\ UNCHANGED <<queueVars, dispatcher, requested>> /\ NoFault

(* BullMQ finds an active entry whose lock was not renewed: its handler is *)
(* dead, or its process was busy for longer than lockDuration.             *)
Recover(v) ==
  /\ queue[v] = "active"
  /\ holder[v] = None
  /\ EndsEntry(v, Thrown)
  /\ UNCHANGED <<vars, dispatcher, requested>> /\ NoFault

Stall(v) ==
  /\ queue[v] = "active"
  /\ holder[v] # None
  /\ EndsEntry(v, Thrown)
  /\ UNCHANGED <<vars, dispatcher, requested>> /\ Fault

ProcessDies(w) ==
  /\ Crash(w) \/ (dispatcher[w] # Resting /\ UNCHANGED vars
                  /\ \A s \in Slots : WorkerOf[s] = w => slot[s].pc = "idle")
  /\ dispatcher' = [dispatcher EXCEPT ![w] = Resting]
  /\ holder' = [v \in Versions |->
                  IF holder[v] \in {s \in Slots : WorkerOf[s] = w}
                  THEN None ELSE holder[v]]
  /\ UNCHANGED <<queue, requested>> /\ Fault

RedisLosesData ==
  /\ \E v \in Versions : queue[v] # "absent"
  /\ queue' = [v \in Versions |-> "absent"]
  /\ holder' = [v \in Versions |-> None]
  /\ UNCHANGED <<vars, dispatcher, requested>> /\ Fault

-----------------------------------------------------------------------------
PipelineNext ==
  \/ \E v \in Versions, status \in {"pending_processing", "conflicted"} :
       Submit(v, status)
  \/ \E v \in Versions : Tick(v) \/ Recover(v) \/ Stall(v)
  \/ \E w \in Workers : Dispatch(w) \/ DispatchFails(w) \/ ProcessDies(w)
  \/ \E s \in Slots, v \in Versions : Deliver(s, v) \/ DeliveryFails(s, v)
  \/ \E s \in Slots : Work(s) \/ WorkFails(s) \/ Renew(s)
  \/ RedisLosesData

(* Clocks run, dispatchers go round, BullMQ delivers what waits and finds  *)
(* what stalled, and every call of a handler ends because the engine and   *)
(* storage clients time out.  A lease that a handler keeps renewing need   *)
(* not run out, and nothing makes users submit.                            *)
Deserted(v) == \A s \in Slots : slot[s].version # v

Fairness ==
  /\ \A v \in Versions :
       /\ WF_pipelineVars(Tick(v) /\ Deserted(v))
       /\ WF_pipelineVars(Recover(v))
       /\ WF_pipelineVars(\E s \in Slots : Deliver(s, v))
  /\ \A w \in Workers : WF_pipelineVars(Dispatch(w))
  /\ \A s \in Slots : WF_pipelineVars(Work(s))

PipelineSpec == PipelineInit /\ [][PipelineNext]_pipelineVars /\ Fairness

-----------------------------------------------------------------------------
(* Properties.                                                             *)

(* The shapes of the queue and of the dispatchers.                         *)
PipelineTypeOK ==
  /\ queue \in [Versions -> EntryStatus]
  /\ holder \in [Versions -> Slots \cup {None}]
  /\ dispatcher \in [Workers ->
       [step : {"sweep", "list", "next", "remove", "add", "mark"},
        todo : SUBSET Versions, version : Versions \cup {None}]]
  /\ \A w \in Workers : dispatcher[w].version = None <=>
                         dispatcher[w].step \in {"sweep", "list", "next"}
  /\ requested \in [Versions -> {"absent", "pending", "published"}]
  /\ faults \in 0..MaxFaults

(* The lock of an entry and the handlers agree: a lock is held by a        *)
(* handler that works on that very version.                                *)
LocksAreHeld ==
  \A v \in Versions :
    /\ holder[v] # None => slot[holder[v]].version = v
    /\ holder[v] # None => queue[v] = "active"

(* As long as nothing fails, no version is in the hands of two handlers,   *)
(* even when the lease of a living one runs out: the entry it holds in the *)
(* queue keeps the dispatchers from adding another.                        *)
CalmDeliveries ==
  faults = 0 =>
    \A s, t \in Slots :
      slot[s].version = slot[t].version /\ slot[s].version # None => s = t

(* Every version that was submitted leaves processing, whatever crashes,   *)
(* stalls, losses and duplicate deliveries happen on the way.              *)
EveryJobEnds ==
  \A v \in Versions : job[v].status # "absent" ~> Ending(v)

(* The request in the outbox is published when its job has been put in     *)
(* the queue.  Only a fault between the two can leave it pending.          *)
RequestsPublished ==
  \A v \in Versions :
    requested[v] = "pending" ~> (requested[v] = "published" \/ faults > 0)

=============================================================================
