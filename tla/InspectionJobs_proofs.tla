----------------------- MODULE InspectionJobs_proofs -----------------------
(***************************************************************************)
(* Proofs about InspectionJobs, and about the queue of DocumentPipeline    *)
(* that starts its handlers, for every set of versions, files, workers and *)
(* handlers and every number of attempts and faults.                       *)
(***************************************************************************)
EXTENDS DocumentPipeline, TLAPS

(* A lease belongs to a running job, and a job that waits has an attempt   *)
(* left.                                                                   *)
Consistent(row) ==
  /\ row.status = "running" => row.owner \in Workers /\ row.lease # "none"
  /\ row.status # "running" => row.owner = None /\ row.lease = "none"
  /\ row.status \in Waiting => row.attempts < MaxAttempts
  /\ row.status = "absent" => row.attempts = 0

LeaseShape == \A v \in Versions : Consistent(job[v])

(* A handler that is not idle works on a version; one that has stored a    *)
(* snapshot has stored the result it will report.                          *)
HandlerShape ==
  \A s \in Slots :
    /\ slot[s].pc # "idle" => slot[s].version \in Versions
    /\ slot[s].pc = "stored" =>
         /\ slot[s].result \in Results
         /\ object[slot[s].version] = slot[s].result

Shape == TypeOK /\ LeaseShape /\ HandlerShape

USE DEF Outcomes, Waiting

-----------------------------------------------------------------------------
(* The row updates.                                                        *)

LEMMA QueuedRow ==
  ASSUME NEW j \in Job, Consistent(j), j.status = "absent"
  PROVE  Queued(j) \in Job /\ Queued(j).status = "queued" /\ Consistent(Queued(j))
<1>1. 0 < MaxAttempts
  BY MaxAttemptsAssumption
<1>2. /\ Queued(j).status = "queued" /\ Queued(j).attempts = j.attempts
      /\ Queued(j).owner = j.owner /\ Queued(j).lease = j.lease
      /\ Queued(j) \in Job
  BY DEF Queued, Job, Row, JobStatus
<1> QED BY <1>1, <1>2 DEF Consistent

LEMMA TakenRow ==
  ASSUME NEW j \in Job, NEW w \in Workers, j.attempts < MaxAttempts
  PROVE  /\ Taken(j, w) \in Job
         /\ Taken(j, w).status = "running"
         /\ Taken(j, w).owner = w
         /\ Taken(j, w).attempts = j.attempts + 1
         /\ Consistent(Taken(j, w))
<1>1. j.attempts + 1 \in 0..MaxAttempts
  BY MaxAttemptsAssumption DEF Job, Row
<1>2. /\ Taken(j, w).status = "running" /\ Taken(j, w).owner = w
      /\ Taken(j, w).attempts = j.attempts + 1 /\ Taken(j, w).lease = "live"
  BY DEF Taken, Job, Row
<1>3. Taken(j, w) \in Job
  BY <1>1 DEF Taken, Job, Row, JobStatus
<1> QED BY <1>2, <1>3 DEF Consistent

LEMMA RetriedRow ==
  ASSUME NEW j \in Job, NEW due \in BOOLEAN, j.attempts < MaxAttempts
  PROVE  /\ Retried(j, due) \in Job
         /\ Retried(j, due).status = "retryable_failed"
         /\ Retried(j, due).attempts = j.attempts
         /\ Consistent(Retried(j, due))
BY DEF Retried, Job, Row, JobStatus, Consistent

LEMMA EndedRow ==
  ASSUME NEW j \in Job, NEW outcome \in Outcomes
  PROVE  /\ Ended(j, outcome) \in Job
         /\ Ended(j, outcome).status = outcome
         /\ Ended(j, outcome).attempts = j.attempts
         /\ Consistent(Ended(j, outcome))
BY DEF Ended, Job, Row, JobStatus, Consistent

(* The other updates of one field.                                         *)
LEMMA ClockRow ==
  ASSUME NEW j \in Job, Consistent(j)
  PROVE  /\ [j EXCEPT !.due = TRUE] \in Job
         /\ Consistent([j EXCEPT !.due = TRUE])
         /\ j.status = "running" =>
              \A l \in {"live", "expired"} :
                [j EXCEPT !.lease = l] \in Job /\ Consistent([j EXCEPT !.lease = l])
BY DEF Job, Row, Consistent

LEMMA AfterTypes ==
  ASSUME NEW outcome \in Outcomes
  PROVE  /\ \A status : VersionAfter(status, outcome) \in VersionStatus
         /\ \A status \in ScanStatus : ScanAfter(status, outcome) \in ScanStatus
BY DEF VersionAfter, ScanAfter, VersionStatus, ScanStatus

(* A change of one row keeps the shape of all of them.                     *)
LEMMA RowChange ==
  ASSUME job \in [Versions -> Job], LeaseShape, NEW v \in Versions,
         NEW row \in Job, Consistent(row), job' = [job EXCEPT ![v] = row]
  PROVE  job' \in [Versions -> Job] /\ LeaseShape'
<1>1. \A u \in Versions : job'[u] = row \/ job'[u] = job[u]
  OBVIOUS
<1>2. LeaseShape'
  BY <1>1 DEF LeaseShape, Consistent
<1> QED BY <1>2

LEMMA SettleShape ==
  ASSUME Shape, NEW v \in Versions, NEW outcome \in Outcomes, Settle(v, outcome)
  PROVE  /\ job' \in [Versions -> Job] /\ LeaseShape'
         /\ version' \in [Versions -> VersionStatus \cup {"absent"}]
         /\ scan' \in [Artifacts -> ScanStatus]
         /\ finished' \in [Versions -> Seq(Outcomes)]
<1> USE DEF Shape, TypeOK
<1>1. job[v] \in Job
  OBVIOUS
<1>2. job' = [job EXCEPT ![v] = Ended(job[v], outcome)]
  BY DEF Settle
<1>3. job' \in [Versions -> Job] /\ LeaseShape'
  <2>1. Ended(job[v], outcome) \in Job /\ Consistent(Ended(job[v], outcome))
    BY <1>1, EndedRow
  <2> QED BY <1>2, <2>1, RowChange
<1>4. version' \in [Versions -> VersionStatus \cup {"absent"}]
  BY AfterTypes DEF Settle
<1>5. scan' \in [Artifacts -> ScanStatus]
  BY AfterTypes, ArtifactOfAssumption DEF Settle
<1>6. finished' \in [Versions -> Seq(Outcomes)]
  <2>1. Append(finished[v], outcome) \in Seq(Outcomes)
    OBVIOUS
  <2> QED BY <2>1 DEF Settle
<1> QED BY <1>3, <1>4, <1>5, <1>6

(* What the sweep makes of a row.                                          *)
LEMMA SweptRows ==
  ASSUME TypeOK, Sweep, NEW v \in Versions
  PROVE  /\ v \in Exhausted => job'[v] = Ended(job[v], "permanently_failed")
         /\ v \in ExpiredLeases \ Exhausted =>
              job'[v] = Retried(job[v], TRUE) /\ job[v].attempts < MaxAttempts
         /\ v \notin ExpiredLeases => job'[v] = job[v]
         /\ v \in ExpiredLeases => job[v].status = "running"
<1>1. job'[v] = Swept(job[v])
  BY DEF Sweep
<1>2. job[v].attempts \in Nat /\ MaxAttempts \in Nat
  BY MaxAttemptsAssumption DEF TypeOK, Job, Row
<1>3. v \in ExpiredLeases <=> LeaseLost(job[v])
  BY DEF ExpiredLeases
<1>4. v \in Exhausted <=> LeaseLost(job[v]) /\ ~(job[v].attempts < MaxAttempts)
  BY <1>2 DEF Exhausted, ExpiredLeases
<1>5. LeaseLost(job[v]) => job[v].status = "running"
  BY DEF LeaseLost
<1>6. CASE v \in Exhausted
  BY <1>1, <1>3, <1>4, <1>5, <1>6 DEF Swept
<1>7. CASE v \in ExpiredLeases \ Exhausted
  BY <1>1, <1>3, <1>4, <1>5, <1>7 DEF Swept
<1>8. CASE v \notin ExpiredLeases
  BY <1>1, <1>3, <1>4, <1>8 DEF Swept
<1> QED BY <1>6, <1>7, <1>8

-----------------------------------------------------------------------------
LEMMA ShapeInit == Init => Shape
<1> SUFFICES ASSUME Init PROVE Shape
  OBVIOUS
<1>1. Absent \in Job /\ Idle \in Handler
  BY MaxAttemptsAssumption DEF Absent, Job, Row, JobStatus, Idle, Handler
<1>2. TypeOK
  BY <1>1 DEF Init, TypeOK, VersionStatus, ScanStatus
<1>3. LeaseShape /\ HandlerShape
  BY DEF Init, Absent, Idle, LeaseShape, HandlerShape, Consistent
<1> QED BY <1>2, <1>3 DEF Shape

(* The actions that only move a handler.                                   *)
LEMMA HandlerMoves ==
  ASSUME Shape, NEW s \in Slots, NEW h \in Handler, UNCHANGED <<rows, object>>,
         slot' = [slot EXCEPT ![s] = h],
         h.pc # "idle" => h.version \in Versions,
         h.pc = "stored" => h.result \in Results /\ object[h.version] = h.result
  PROVE  Shape'
BY DEF Shape, TypeOK, LeaseShape, HandlerShape, rows

LEMMA IdleHandler == Idle \in Handler /\ Idle.pc = "idle"
BY DEF Idle, Handler

(* The actions that change one row, and leave the objects alone, with at   *)
(* most one handler becoming idle or starting or failing.                  *)
LEMMA HandlerSettles ==
  ASSUME HandlerShape, slot \in [Slots -> Handler], NEW s \in Slots, NEW h \in Handler,
         slot' = [slot EXCEPT ![s] = h], object' = object,
         h.pc # "idle" => h.version \in Versions, h.pc # "stored"
  PROVE  slot' \in [Slots -> Handler] /\ HandlerShape'
BY DEF HandlerShape

LEMMA ShapeStep ==
  ASSUME Shape, [Next]_vars
  PROVE  Shape'
<1>t. TypeOK /\ LeaseShape /\ HandlerShape
  BY DEF Shape
<1>u. \A v \in Versions : job[v] \in Job
  BY <1>t DEF TypeOK
<1>1. ASSUME NEW v \in Versions, NEW status \in {"pending_processing", "conflicted"},
             Enqueue(v, status)
      PROVE  Shape'
  <2>3. job' \in [Versions -> Job] /\ LeaseShape'
    <3>1. Queued(job[v]) \in Job /\ Consistent(Queued(job[v]))
      BY <1>1, <1>t, <1>u, QueuedRow DEF Enqueue, LeaseShape
    <3> QED BY <1>1, <3>1, <1>t, RowChange DEF TypeOK, Enqueue
  <2>4. TypeOK'
    BY <2>3, <1>1, <1>t DEF TypeOK, Enqueue, VersionStatus
  <2>5. HandlerShape'
    BY <1>1, <1>t DEF HandlerShape, Enqueue
  <2> QED BY <2>3, <2>4, <2>5 DEF Shape
<1>2. ASSUME NEW v \in Versions, LeaseRunsOut(v) \/ BecomesDue(v)
      PROVE  Shape'
  <2>1. job' \in [Versions -> Job] /\ LeaseShape'
    <3>1. CASE LeaseRunsOut(v)
      <4>1. /\ [job[v] EXCEPT !.lease = "expired"] \in Job
            /\ Consistent([job[v] EXCEPT !.lease = "expired"])
            /\ job' = [job EXCEPT ![v] = [job[v] EXCEPT !.lease = "expired"]]
        BY <3>1, <1>t, <1>u, ClockRow DEF LeaseRunsOut, LeaseShape
      <4> QED BY <4>1, <1>t, RowChange DEF TypeOK
    <3>2. CASE BecomesDue(v)
      <4>1. /\ [job[v] EXCEPT !.due = TRUE] \in Job
            /\ Consistent([job[v] EXCEPT !.due = TRUE])
            /\ job' = [job EXCEPT ![v] = [job[v] EXCEPT !.due = TRUE]]
        BY <3>2, <1>t, <1>u, ClockRow DEF BecomesDue, LeaseShape
      <4> QED BY <4>1, <1>t, RowChange DEF TypeOK
    <3> QED BY <1>2, <3>1, <3>2
  <2>2. UNCHANGED <<version, scan, snapshot, object, finished, slot>>
    BY <1>2 DEF LeaseRunsOut, BecomesDue
  <2> QED BY <2>1, <2>2, <1>t DEF Shape, TypeOK, HandlerShape
<1>3. ASSUME Sweep PROVE Shape'
  <2>1. \A v \in Versions : job'[v] \in Job /\ Consistent(job'[v])
    <3> SUFFICES ASSUME NEW v \in Versions PROVE job'[v] \in Job /\ Consistent(job'[v])
      OBVIOUS
    <3>1. CASE v \in Exhausted
      <4>1. job'[v] = Ended(job[v], "permanently_failed")
        BY <1>3, <1>t, SweptRows, <3>1
      <4> QED BY <4>1, <1>u, EndedRow
    <3>2. CASE v \in ExpiredLeases \ Exhausted
      <4>1. job'[v] = Retried(job[v], TRUE)
        BY <1>3, <1>t, SweptRows, <3>2
      <4>2. job[v].attempts < MaxAttempts
        <5>1. job[v].attempts \in Nat /\ MaxAttempts \in Nat
          BY <1>u, MaxAttemptsAssumption DEF Job, Row
        <5> QED BY <3>2, <5>1 DEF Exhausted
      <4> QED BY <4>1, <4>2, <1>u, RetriedRow
    <3>3. CASE v \notin ExpiredLeases
      BY <1>3, <1>t, SweptRows, <3>3, <1>u, <1>t DEF LeaseShape
    <3> QED BY <3>1, <3>2, <3>3
  <2>2. job' \in [Versions -> Job] /\ LeaseShape'
    BY <1>3, <2>1 DEF Sweep, Swept, LeaseLost, LeaseShape, Consistent
  <2>3. version' \in [Versions -> VersionStatus \cup {"absent"}] /\ scan' \in [Artifacts -> ScanStatus]
    BY <1>3, <1>t DEF Sweep, Swept, LeaseLost, TypeOK, VersionStatus, ScanStatus
  <2>4. finished' \in [Versions -> Seq(Outcomes)]
    <3>1. \A v \in Versions : Append(finished[v], "permanently_failed") \in Seq(Outcomes)
      BY <1>t DEF TypeOK
    <3> QED BY <1>3, <1>t, <3>1 DEF Sweep, Swept, LeaseLost, TypeOK
  <2> QED BY <1>3, <2>2, <2>3, <2>4, <1>t DEF Sweep, Swept, LeaseLost, Shape, TypeOK, HandlerShape
<1>4. ASSUME NEW s \in Slots, NEW v \in Versions, NEW answered \in BOOLEAN,
             Claim(s, v, answered)
      PROVE  Shape'
  <2>1. job' \in [Versions -> Job] /\ LeaseShape'
    <3>1. Taken(job[v], WorkerOf[s]) \in Job /\ Consistent(Taken(job[v], WorkerOf[s]))
      BY <1>4, <1>u, WorkerOfAssumption, TakenRow DEF Claim, Free
    <3> QED BY <1>4, <3>1, <1>t, RowChange DEF TypeOK, Claim
  <2>2. slot' \in [Slots -> Handler] /\ HandlerShape'
    <3> DEFINE begun == [Idle EXCEPT !.pc = "inspecting", !.version = v]
    <3>1. begun \in Handler /\ begun.pc = "inspecting" /\ begun.version = v
      BY DEF Idle, Handler
    <3> HIDE DEF begun
    <3>2. object' = object
      BY <1>4 DEF Claim
    <3>3. CASE answered
      <4>1. slot' = [slot EXCEPT ![s] = begun]
        BY <1>4, <3>3 DEF Claim, begun
      <4> QED BY <4>1, <3>1, <3>2, <1>t, HandlerSettles DEF TypeOK
    <3>4. CASE ~answered
      <4>1. slot' = [slot EXCEPT ![s] = Idle]
        BY <1>4, <3>4 DEF Claim
      <4> QED BY <4>1, <3>2, <1>t, IdleHandler, HandlerSettles DEF TypeOK
    <3> QED BY <3>3, <3>4
  <2> QED BY <1>4, <2>1, <2>2, <1>t DEF Claim, Shape, TypeOK
<1>5. ASSUME NEW s \in Slots, Heartbeat(s) PROVE Shape'
  <2> DEFINE v == slot[s].version
  <2>1. /\ v \in Versions /\ job[v].status = "running"
        /\ job' = [job EXCEPT ![v] = [job[v] EXCEPT !.lease = "live"]]
        /\ UNCHANGED <<version, scan, snapshot, object, finished, slot>>
    BY <1>5, <1>t DEF Heartbeat, Holds, HandlerShape
  <2>2. /\ [job[v] EXCEPT !.lease = "live"] \in Job
        /\ Consistent([job[v] EXCEPT !.lease = "live"])
    BY <2>1, <1>t, <1>u, ClockRow DEF LeaseShape
  <2> HIDE DEF v
  <2>3. job' \in [Versions -> Job] /\ LeaseShape'
    BY <2>1, <2>2, <1>t, RowChange DEF TypeOK
  <2> QED BY <2>1, <2>3, <1>t DEF Shape, TypeOK, HandlerShape
<1>6. ASSUME NEW s \in Slots, NEW retryable \in BOOLEAN, InspectFails(s, retryable)
      PROVE  Shape'
  <2> DEFINE h == [slot[s] EXCEPT !.pc = "failing", !.retryable = retryable]
  <2>1. h \in Handler /\ h.pc = "failing" /\ h.version = slot[s].version
    BY <1>t DEF TypeOK, Handler
  <2>2. slot[s].version \in Versions
    BY <1>6, <1>t DEF InspectFails, HandlerShape
  <2>3. slot' = [slot EXCEPT ![s] = h] /\ UNCHANGED <<rows, object>>
    BY <1>6, <1>t DEF InspectFails, TypeOK
  <2> HIDE DEF h
  <2> QED BY <2>1, <2>2, <2>3, HandlerMoves
<1>7. ASSUME NEW s \in Slots, NEW r \in Results, NEW answered \in BOOLEAN,
             StoreSnapshot(s, r, answered)
      PROVE  Shape'
  <2> DEFINE v == slot[s].version
             stored == IF object[v] = None THEN r ELSE object[v]
             h == IF answered /\ stored = r
                  THEN [slot[s] EXCEPT !.pc = "stored", !.result = r]
                  ELSE [slot[s] EXCEPT !.pc = "failing", !.retryable = ~answered]
  <2>1. v \in Versions
    BY <1>7, <1>t DEF StoreSnapshot, HandlerShape
  <2>2. /\ object' = [object EXCEPT ![v] = stored] /\ slot' = [slot EXCEPT ![s] = h]
        /\ UNCHANGED rows
    BY <1>7 DEF StoreSnapshot
  <2>3. stored \in Results
    BY <2>1, <1>t DEF TypeOK
  <2>4. /\ h \in Handler /\ h.version = v
        /\ h.pc = "stored" => h.result = r /\ stored = r
    BY <1>t, <2>1 DEF TypeOK, Handler
  <2>5. \A u \in Versions : object[u] # None => object'[u] = object[u]
    BY <2>2, <1>t DEF TypeOK
  <2>6. object'[v] = stored
    BY <2>1, <2>2, <1>t DEF TypeOK
  <2> HIDE DEF h, stored, v
  <2>7. HandlerShape'
    <3> SUFFICES ASSUME NEW t \in Slots
                 PROVE  /\ slot'[t].pc # "idle" => slot'[t].version \in Versions
                        /\ slot'[t].pc = "stored" =>
                             /\ slot'[t].result \in Results
                             /\ object'[slot'[t].version] = slot'[t].result
      BY DEF HandlerShape
    <3>1. CASE t = s
      BY <3>1, <2>1, <2>2, <2>3, <2>4, <2>6, <1>t DEF TypeOK
    <3>2. CASE t # s
      <4>1. slot'[t] = slot[t]
        BY <3>2, <2>2, <1>t DEF TypeOK
      <4> QED BY <4>1, <2>5, <1>t, NoneAssumption DEF HandlerShape
    <3> QED BY <3>1, <3>2
  <2>8. TypeOK'
    BY <2>1, <2>2, <2>3, <2>4, <1>t DEF TypeOK, rows
  <2>9. LeaseShape'
    BY <2>2, <1>t DEF rows, LeaseShape, Consistent
  <2> QED BY <2>7, <2>8, <2>9 DEF Shape
<1>8. ASSUME NEW s \in Slots, DropResult(s) \/ FailureNotRecorded(s) PROVE Shape'
  <2>1. slot' = [slot EXCEPT ![s] = Idle] /\ UNCHANGED <<rows, object>>
    BY <1>8 DEF DropResult, FailureNotRecorded
  <2> QED BY <2>1, IdleHandler, HandlerMoves
<1>9. ASSUME NEW s \in Slots, CompleteThrows(s) PROVE Shape'
  <2> DEFINE h == [slot[s] EXCEPT !.pc = "failing", !.retryable = TRUE]
  <2>1. h \in Handler /\ h.pc = "failing" /\ h.version = slot[s].version
    BY <1>t DEF TypeOK, Handler
  <2>2. slot[s].version \in Versions
    BY <1>9, <1>t DEF CompleteThrows, HandlerShape
  <2>3. slot' = [slot EXCEPT ![s] = h] /\ UNCHANGED <<rows, object>>
    BY <1>9, <1>t DEF CompleteThrows, TypeOK
  <2> HIDE DEF h
  <2> QED BY <2>1, <2>2, <2>3, HandlerMoves
<1>10. ASSUME NEW s \in Slots, NEW answered \in BOOLEAN, CommitResult(s, answered)
       PROVE  Shape'
  <2> DEFINE v == slot[s].version
             h == IF answered THEN Idle
                  ELSE [slot[s] EXCEPT !.pc = "failing", !.retryable = TRUE]
  <2>1. /\ v \in Versions /\ slot[s].result \in Results
        /\ slot[s].result.outcome \in Outcomes
    BY <1>10, <1>t, ResultsAssumption DEF CommitResult, HandlerShape
  <2>2. /\ snapshot' = [snapshot EXCEPT ![v] = slot[s].result]
        /\ Settle(v, slot[s].result.outcome)
        /\ slot' = [slot EXCEPT ![s] = h] /\ object' = object
    BY <1>10, <1>t DEF CommitResult, TypeOK
  <2>3. /\ h \in Handler /\ h.pc # "stored"
        /\ h.pc # "idle" => h.version \in Versions
    BY <2>1, <1>t, IdleHandler DEF TypeOK, Handler
  <2> HIDE DEF h, v
  <2>4. slot' \in [Slots -> Handler] /\ HandlerShape'
    BY <2>2, <2>3, <1>t, HandlerSettles DEF TypeOK
  <2>5. snapshot' \in [Versions -> Results \cup {None}]
    BY <2>1, <2>2, <1>t DEF TypeOK
  <2> QED BY <2>1, <2>2, <2>4, <2>5, <1>t, SettleShape DEF Shape, TypeOK
<1>11. ASSUME NEW s \in Slots, RecordRetry(s) PROVE Shape'
  <2> DEFINE v == slot[s].version
  <2>1. v \in Versions /\ job[v].attempts < MaxAttempts
    BY <1>11, <1>t DEF RecordRetry, Retries, HandlerShape
  <2>2. Retried(job[v], FALSE) \in Job /\ Consistent(Retried(job[v], FALSE))
    BY <2>1, <1>u, RetriedRow
  <2>3. /\ job' = [job EXCEPT ![v] = Retried(job[v], FALSE)]
        /\ slot' = [slot EXCEPT ![s] = Idle]
        /\ UNCHANGED <<version, scan, snapshot, object, finished>>
    BY <1>11 DEF RecordRetry
  <2> HIDE DEF v
  <2>4. job' \in [Versions -> Job] /\ LeaseShape'
    BY <2>1, <2>2, <2>3, <1>t, RowChange DEF TypeOK
  <2>5. slot' \in [Slots -> Handler] /\ HandlerShape'
    BY <2>3, <1>t, IdleHandler, HandlerSettles DEF TypeOK
  <2> QED BY <2>3, <2>4, <2>5, <1>t DEF Shape, TypeOK
<1>12. ASSUME NEW s \in Slots, RecordPermanent(s) PROVE Shape'
  <2>1. /\ slot[s].version \in Versions
        /\ Settle(slot[s].version, "permanently_failed")
        /\ slot' = [slot EXCEPT ![s] = Idle] /\ UNCHANGED <<snapshot, object>>
    BY <1>12, <1>t DEF RecordPermanent, HandlerShape
  <2>2. slot' \in [Slots -> Handler] /\ HandlerShape'
    BY <2>1, <1>t, IdleHandler, HandlerSettles DEF TypeOK
  <2> QED BY <2>1, <2>2, <1>t, SettleShape DEF Shape, TypeOK
<1>13. ASSUME NEW w \in Workers, Crash(w) PROVE Shape'
  <2>1. /\ slot' = [s \in Slots |-> IF WorkerOf[s] = w THEN Idle ELSE slot[s]]
        /\ UNCHANGED <<rows, object>>
    BY <1>13 DEF Crash
  <2> QED BY <2>1, <1>t, IdleHandler DEF Shape, TypeOK, LeaseShape, Consistent, HandlerShape, rows
<1>14. CASE UNCHANGED vars
  BY <1>14, <1>t DEF vars, Shape, TypeOK, LeaseShape, Consistent, HandlerShape
<1> QED BY <1>1, <1>2, <1>3, <1>4, <1>5, <1>6, <1>7, <1>8, <1>9, <1>10, <1>11, <1>12,
           <1>13, <1>14 DEF Next, Handle

(* Every reachable state is well formed.                                   *)
THEOREM ShapeCorrect == Spec => []Shape
<1>1. Init => Shape
  BY ShapeInit
<1>2. Shape /\ [Next]_vars => Shape'
  BY ShapeStep
<1> QED BY <1>1, <1>2, PTL DEF Spec

(* The rows and the handlers keep the types the schema gives them, and in  *)
(* particular attempts never passes max_attempts.                          *)
THEOREM TypeCorrect == Spec => []TypeOK
<1>1. Shape => TypeOK
  BY DEF Shape
<1> QED BY <1>1, ShapeCorrect, PTL

-----------------------------------------------------------------------------
(* The rest of the inductive invariant: reports, snapshots and scans.      *)

Reports == OutcomeReported /\ SnapshotIntact /\ ScanFollows

IInv == Shape /\ Reports

Active == Waiting \cup {"running"}

SamePhase(v) ==
  \/ job'[v].status = job[v].status
  \/ job[v].status \in Active /\ job'[v].status \in Active

ObjectsKept == \A v \in Versions : object[v] # None => object'[v] = object[v]

(* A step that ends no job and starts none, changes no row but those of    *)
(* jobs, and overwrites no object leaves the reports as they were.         *)
LEMMA QuietStep ==
  ASSUME Shape, Reports, UNCHANGED <<version, scan, snapshot, finished>>,
         \A v \in Versions : SamePhase(v), ObjectsKept
  PROVE  Reports'
<1> USE DEF SamePhase, ObjectsKept
<1>1. OutcomeReported'
  BY DEF Reports, OutcomeReported, StatusOf, Ending, Active
<1>2. SnapshotIntact'
  <2>1. \A v \in Versions : snapshot[v] # None => snapshot[v].outcome \in Outcomes
    BY ResultsAssumption DEF Shape, TypeOK
  <2> QED BY <2>1 DEF Reports, SnapshotIntact, Active
<1>3. ScanFollows'
  <2>1. \A a \in Artifacts, outcome \in Outcomes :
          SomeEnded(a, outcome)' <=> SomeEnded(a, outcome)
    BY DEF SomeEnded, Active
  <2> QED BY <2>1 DEF Reports, ScanFollows
<1> QED BY <1>1, <1>2, <1>3 DEF Reports

(* The terminal writes of a running job, with or without a snapshot.       *)
LEMMA SettleReports ==
  ASSUME Shape, Reports, NEW v \in Versions, NEW outcome \in Outcomes,
         job[v].status = "running", Settle(v, outcome), object' = object,
         \/ outcome = "permanently_failed" /\ snapshot' = snapshot
         \/ \E r \in Results : /\ snapshot' = [snapshot EXCEPT ![v] = r]
                              /\ object[v] = r /\ r.outcome = outcome
  PROVE  Reports'
<1> USE DEF Shape, Reports
<1>1. job[v] \in Job
  BY DEF TypeOK
<1>2. /\ job'[v].status = outcome
      /\ \A u \in Versions \ {v} : job'[u] = job[u]
  BY <1>1, EndedRow DEF Settle, TypeOK
<1>3. OutcomeReported'
  <2>1. /\ version'[v] = VersionAfter(version[v], outcome)
        /\ finished'[v] = Append(finished[v], outcome)
        /\ \A u \in Versions \ {v} : version'[u] = version[u] /\ finished'[u] = finished[u]
    BY DEF Settle, TypeOK
  <2>2. version[v] \in {"pending_processing", "conflicted"} /\ finished[v] = <<>>
    BY DEF OutcomeReported, StatusOf, Ending
  <2>3. version'[v] \in StatusOf(v)'
    BY <1>2, <2>1, <2>2 DEF StatusOf, VersionAfter
  <2>4. finished'[v] = <<outcome>>
    BY <2>1, <2>2
  <2> QED BY <1>2, <2>1, <2>3, <2>4 DEF OutcomeReported, StatusOf, Ending
<1>4. SnapshotIntact'
  <2>1. snapshot[v] = None
    BY ResultsAssumption DEF SnapshotIntact, TypeOK
  <2>2. CASE outcome = "permanently_failed" /\ snapshot' = snapshot
    BY <1>2, <2>1, <2>2 DEF SnapshotIntact
  <2>3. ASSUME NEW r \in Results, snapshot' = [snapshot EXCEPT ![v] = r],
               object[v] = r, r.outcome = outcome
        PROVE  SnapshotIntact'
    <3>1. snapshot'[v] = r /\ \A u \in Versions \ {v} : snapshot'[u] = snapshot[u]
      BY <2>3 DEF TypeOK
    <3> QED BY <1>2, <2>3, <3>1, NoneAssumption DEF SnapshotIntact
  <2> QED BY <2>2, <2>3
<1>5. ScanFollows'
  <2>1. ASSUME NEW a \in Artifacts, NEW o \in Outcomes
        PROVE  SomeEnded(a, o)' <=> SomeEnded(a, o) \/ (ArtifactOf[v] = a /\ o = outcome)
    BY <1>2 DEF SomeEnded
  <2>2. \A a \in Artifacts : scan'[a] = IF ArtifactOf[v] = a THEN ScanAfter(scan[a], outcome)
                                         ELSE scan[a]
    BY DEF Settle, TypeOK
  <2>3. ASSUME NEW a \in Artifacts
        PROVE  scan'[a] = IF SomeEnded(a, "quarantined")' THEN "quarantined"
                          ELSE IF SomeEnded(a, "completed")' THEN "clean"
                          ELSE IF SomeEnded(a, "permanently_failed")' THEN "failed"
                          ELSE "pending"
    <3>1. CASE ArtifactOf[v] # a
      BY <2>1, <2>2, <3>1 DEF ScanFollows
    <3>2. CASE ArtifactOf[v] = a
      <4>1. scan'[a] = ScanAfter(scan[a], outcome)
        BY <2>2, <3>2
      <4> QED BY <2>1, <3>2, <4>1 DEF ScanFollows, ScanAfter
    <3> QED BY <3>1, <3>2
  <2> QED BY <2>3 DEF ScanFollows
<1> QED BY <1>3, <1>4, <1>5

LEMMA SweepReports ==
  ASSUME Shape, Reports, Sweep
  PROVE  Reports'
<1> USE DEF Shape, Reports
<1>1. \A v \in Exhausted : v \in ExpiredLeases /\ job[v].status = "running"
  BY DEF Exhausted, ExpiredLeases, LeaseLost
<1>2. \A v \in Exhausted : v \in Versions /\ job'[v].status = "permanently_failed"
  <2> SUFFICES ASSUME NEW v \in Exhausted
               PROVE  v \in Versions /\ job'[v].status = "permanently_failed"
    OBVIOUS
  <2>1. v \in Versions
    BY DEF Exhausted, ExpiredLeases
  <2>2. job'[v] = Ended(job[v], "permanently_failed")
    BY <2>1, SweptRows
  <2>3. job[v] \in Job
    BY <2>1 DEF TypeOK
  <2> QED BY <2>1, <2>2, <2>3, EndedRow
<1>3. ASSUME NEW v \in Versions, v \notin Exhausted
      PROVE  SamePhase(v)
  <2> USE DEF SamePhase
  <2>1. CASE v \in ExpiredLeases
    <3>1. job'[v] = Retried(job[v], TRUE)
      BY <1>3, <2>1, SweptRows
    <3>2. job[v] \in Job /\ job[v].status = "running"
      BY <2>1 DEF TypeOK, ExpiredLeases, LeaseLost
    <3>3. Retried(job[v], TRUE).status = "retryable_failed"
      BY <3>2 DEF Retried, Job, Row
    <3> QED BY <3>1, <3>2, <3>3 DEF Active
  <2>2. CASE v \notin ExpiredLeases
    BY <1>3, <2>2, SweptRows DEF Sweep
  <2> QED BY <2>1, <2>2
<1>4. OutcomeReported'
  <2>1. ASSUME NEW v \in Versions, v \in Exhausted
        PROVE  version'[v] = "failed" /\ finished'[v] = <<"permanently_failed">>
    <3>1. finished[v] = <<>>
      BY <1>1, <2>1 DEF OutcomeReported, Ending
    <3>2. /\ version'[v] = "failed"
          /\ finished'[v] = Append(finished[v], "permanently_failed")
      BY <2>1 DEF Sweep, Swept, LeaseLost
    <3>3. Append(<< >>, "permanently_failed") = <<"permanently_failed">>
      OBVIOUS
    <3> QED BY <3>1, <3>2, <3>3
  <2>2. \A v \in Versions \ Exhausted : version'[v] = version[v] /\ finished'[v] = finished[v]
    BY DEF Sweep, Swept, LeaseLost
  <2> QED BY <1>2, <1>3, <2>1, <2>2 DEF OutcomeReported, StatusOf, Ending, Active, SamePhase
<1>5. SnapshotIntact'
  <2>1. \A v \in Versions : snapshot[v] # None => snapshot[v].outcome \in Outcomes
    BY ResultsAssumption DEF TypeOK
  <2>2. snapshot' = snapshot /\ object' = object
    BY DEF Sweep, Swept, LeaseLost
  <2> QED BY <1>1, <1>2, <1>3, <2>1, <2>2 DEF SnapshotIntact, Active, SamePhase
<1>6. ScanFollows'
  <2>1. ASSUME NEW a \in Artifacts
        PROVE  /\ SomeEnded(a, "quarantined")' <=> SomeEnded(a, "quarantined")
               /\ SomeEnded(a, "completed")' <=> SomeEnded(a, "completed")
               /\ SomeEnded(a, "permanently_failed")' <=>
                    \/ SomeEnded(a, "permanently_failed")
                    \/ \E v \in Exhausted : ArtifactOf[v] = a
    BY <1>1, <1>2, <1>3 DEF SomeEnded, Active, SamePhase
  <2>2. \A a \in Artifacts :
          scan'[a] = IF scan[a] = "pending" /\ \E v \in Exhausted : ArtifactOf[v] = a
                     THEN "failed" ELSE scan[a]
    BY DEF Sweep, Swept, LeaseLost
  <2> QED BY <2>1, <2>2 DEF ScanFollows
<1> QED BY <1>4, <1>5, <1>6

LEMMA ReportsStep ==
  ASSUME Shape, Shape', Reports, [Next]_vars
  PROVE  Reports'
<1>t. TypeOK /\ LeaseShape /\ HandlerShape
  BY DEF Shape
<1>u. \A v \in Versions : job[v] \in Job
  BY <1>t DEF TypeOK
<1>1. ASSUME NEW v \in Versions, NEW status \in {"pending_processing", "conflicted"},
             Enqueue(v, status)
      PROVE  Reports'
  <2>1. job'[v].status = "queued" /\ \A u \in Versions \ {v} : job'[u] = job[u]
    BY <1>1, <1>t, <1>u, QueuedRow DEF Enqueue, TypeOK, LeaseShape
  <2>2. version'[v] = status /\ \A u \in Versions \ {v} : version'[u] = version[u]
    BY <1>1, <1>t DEF Enqueue, TypeOK
  <2>3. job[v].status = "absent" /\ UNCHANGED <<scan, snapshot, object, finished>>
    BY <1>1 DEF Enqueue
  <2>4. OutcomeReported'
    BY <2>1, <2>2, <2>3 DEF Reports, OutcomeReported, StatusOf, Ending
  <2>5. SnapshotIntact'
    <3>1. \A u \in Versions : snapshot[u] # None => snapshot[u].outcome \in Outcomes
      BY <1>t, ResultsAssumption DEF TypeOK
    <3> QED BY <2>1, <2>3, <3>1 DEF Reports, SnapshotIntact
  <2>6. ScanFollows'
    <3>1. \A a \in Artifacts, outcome \in Outcomes :
            SomeEnded(a, outcome)' <=> SomeEnded(a, outcome)
      BY <2>1, <2>3 DEF SomeEnded
    <3> QED BY <2>3, <3>1 DEF Reports, ScanFollows
  <2> QED BY <2>4, <2>5, <2>6 DEF Reports
<1>2. ASSUME NEW v \in Versions, LeaseRunsOut(v) \/ BecomesDue(v)
      PROVE  Reports'
  <2>1. \A u \in Versions : SamePhase(u)
    BY <1>2, <1>t DEF LeaseRunsOut, BecomesDue, TypeOK, Job, Row, SamePhase
  <2>2. UNCHANGED <<version, scan, snapshot, finished>> /\ ObjectsKept
    BY <1>2 DEF LeaseRunsOut, BecomesDue, ObjectsKept
  <2> QED BY <2>1, <2>2, QuietStep
<1>3. ASSUME Sweep PROVE Reports'
  BY <1>3, SweepReports
<1>4. ASSUME NEW s \in Slots, NEW v \in Versions, NEW answered \in BOOLEAN,
             Claim(s, v, answered)
      PROVE  Reports'
  <2>1. Taken(job[v], WorkerOf[s]).status = "running"
    BY <1>4, <1>u, WorkerOfAssumption, TakenRow DEF Claim, Free
  <2>2. \A u \in Versions : SamePhase(u)
    BY <1>4, <1>t, <2>1 DEF Claim, Free, Active, TypeOK, SamePhase
  <2>3. UNCHANGED <<version, scan, snapshot, finished>> /\ ObjectsKept
    BY <1>4 DEF Claim, ObjectsKept
  <2> QED BY <2>2, <2>3, QuietStep
<1>5. ASSUME NEW s \in Slots, Heartbeat(s) PROVE Reports'
  <2>1. \A u \in Versions : SamePhase(u)
    BY <1>5, <1>t DEF Heartbeat, TypeOK, Job, Row, SamePhase
  <2>2. UNCHANGED <<version, scan, snapshot, finished>> /\ ObjectsKept
    BY <1>5 DEF Heartbeat, ObjectsKept
  <2> QED BY <2>1, <2>2, QuietStep
<1>6. ASSUME UNCHANGED <<rows, object>> PROVE Reports'
  <2>1. UNCHANGED <<version, scan, snapshot, finished>> /\ ObjectsKept
        /\ \A u \in Versions : SamePhase(u)
    BY <1>6 DEF rows, ObjectsKept, SamePhase
  <2> QED BY <2>1, QuietStep
<1>7. ASSUME NEW s \in Slots, NEW r \in Results, NEW answered \in BOOLEAN,
             StoreSnapshot(s, r, answered)
      PROVE  Reports'
  <2>1. ObjectsKept
    BY <1>7, <1>t DEF StoreSnapshot, TypeOK, ObjectsKept
  <2>2. UNCHANGED <<version, scan, snapshot, finished>> /\ \A u \in Versions : SamePhase(u)
    BY <1>7 DEF StoreSnapshot, rows, SamePhase
  <2> QED BY <2>1, <2>2, QuietStep
<1>8. ASSUME NEW s \in Slots, NEW answered \in BOOLEAN, CommitResult(s, answered)
      PROVE  Reports'
  <2>1. /\ slot[s].version \in Versions /\ slot[s].result \in Results
        /\ object[slot[s].version] = slot[s].result
        /\ slot[s].result.outcome \in Outcomes
    BY <1>8, <1>t, ResultsAssumption DEF CommitResult, HandlerShape
  <2> QED BY <1>8, <2>1, SettleReports DEF CommitResult, Holds
<1>9. ASSUME NEW s \in Slots, RecordRetry(s) PROVE Reports'
  <2>1. /\ slot[s].version \in Versions
        /\ job[slot[s].version].status = "running"
        /\ job[slot[s].version].attempts < MaxAttempts
    BY <1>9, <1>t DEF RecordRetry, Holds, Retries, HandlerShape
  <2>2. Retried(job[slot[s].version], FALSE).status = "retryable_failed"
    BY <2>1, <1>u, RetriedRow
  <2>3. \A u \in Versions : SamePhase(u)
    BY <1>9, <1>t, <2>1, <2>2 DEF RecordRetry, TypeOK, Active, SamePhase
  <2>4. UNCHANGED <<version, scan, snapshot, finished>> /\ ObjectsKept
    BY <1>9 DEF RecordRetry, ObjectsKept
  <2> QED BY <2>3, <2>4, QuietStep
<1>10. ASSUME NEW s \in Slots, RecordPermanent(s) PROVE Reports'
  <2>1. slot[s].version \in Versions /\ job[slot[s].version].status = "running"
    BY <1>10, <1>t DEF RecordPermanent, Holds, HandlerShape
  <2> QED BY <1>10, <2>1, SettleReports DEF RecordPermanent
<1>11. CASE UNCHANGED vars
  BY <1>6, <1>11 DEF vars, rows
<1> QED BY <1>1, <1>2, <1>3, <1>4, <1>5, <1>6, <1>7, <1>8, <1>9, <1>10, <1>11
        DEF Next, Handle, InspectFails, DropResult, CompleteThrows, FailureNotRecorded, Crash

LEMMA ReportsInit == Init => Reports
BY ResultsAssumption, ArtifactOfAssumption
   DEF Init, Absent, Reports, OutcomeReported, SnapshotIntact, ScanFollows,
       SomeEnded, StatusOf, Ending

(* IInv is inductive.                                                      *)
THEOREM Invariance == Spec => []IInv
<1>1. Init => IInv
  BY ShapeInit, ReportsInit DEF IInv
<1>2. IInv /\ [Next]_vars => IInv'
  BY ShapeStep, ReportsStep DEF IInv
<1> QED BY <1>1, <1>2, PTL DEF Spec

(* What applyTerminalOutcome and the sweep publish agrees with the rows.   *)
THEOREM OutcomesAreReported == Spec => []OutcomeReported
<1>1. IInv => OutcomeReported
  BY DEF IInv, Reports
<1> QED BY <1>1, Invariance, PTL

(* A recorded snapshot describes the stored bytes and the job's outcome.   *)
THEOREM SnapshotsAreIntact == Spec => []SnapshotIntact
<1>1. IInv => SnapshotIntact
  BY DEF IInv, Reports
<1> QED BY <1>1, Invariance, PTL

(* The scan status of a file follows from all of its inspections.          *)
THEOREM ScansFollow == Spec => []ScanFollows
<1>1. IInv => ScanFollows
  BY DEF IInv, Reports
<1> QED BY <1>1, Invariance, PTL

-----------------------------------------------------------------------------
(* What a step may never do.                                               *)

(* Only rows of running jobs are ended.                                    *)
LEMMA KeptBySettle ==
  ASSUME Shape, NEW v \in Versions, NEW outcome \in Outcomes,
         job[v].status = "running", Settle(v, outcome)
  PROVE  /\ \A u \in Versions : Ending(u) => job'[u] = job[u] /\ version'[u] = version[u]
         /\ \A a \in Artifacts : scan[a] = "quarantined" => scan'[a] = "quarantined"
BY DEF Settle, Shape, TypeOK, Ending, ScanAfter

LEMMA KeptStep ==
  ASSUME IInv, [Next]_vars
  PROVE  Kept
<1>t. TypeOK /\ HandlerShape /\ SnapshotIntact /\ Shape
  BY DEF IInv, Shape, Reports
<1>1. ASSUME NEW v \in Versions, NEW status \in {"pending_processing", "conflicted"},
             Enqueue(v, status) \/ LeaseRunsOut(v) \/ BecomesDue(v)
      PROVE  Kept
  BY <1>1, <1>t DEF Kept, Enqueue, LeaseRunsOut, BecomesDue, TypeOK, Ending
<1>2. ASSUME Sweep PROVE Kept
  BY <1>2, <1>t DEF Kept, Sweep, Swept, Ending, Exhausted, ExpiredLeases, LeaseLost
<1>3. ASSUME NEW s \in Slots, NEW v \in Versions, NEW answered \in BOOLEAN,
             Claim(s, v, answered)
      PROVE  Kept
  BY <1>3, <1>t DEF Kept, Claim, Free, TypeOK, Ending
<1>4. ASSUME NEW s \in Slots, Heartbeat(s) \/ RecordRetry(s) PROVE Kept
  <2>1. job[slot[s].version].status = "running"
    BY <1>4 DEF Heartbeat, RecordRetry, Holds
  <2>2. \A v \in Versions : job'[v] = job[v] \/ v = slot[s].version
    BY <1>4, <1>t DEF Heartbeat, RecordRetry, TypeOK
  <2>3. UNCHANGED <<version, scan, snapshot, object>>
    BY <1>4 DEF Heartbeat, RecordRetry
  <2> QED BY <2>1, <2>2, <2>3 DEF Kept, Ending
<1>5. ASSUME UNCHANGED <<rows, object>> PROVE Kept
  BY <1>5 DEF Kept, rows
<1>6. ASSUME NEW s \in Slots, NEW r \in Results, NEW answered \in BOOLEAN,
             StoreSnapshot(s, r, answered)
      PROVE  Kept
  <2>1. \A v \in Versions : object[v] # None => object'[v] = object[v]
    BY <1>6, <1>t DEF StoreSnapshot, TypeOK
  <2>2. UNCHANGED <<job, version, scan, snapshot>>
    BY <1>6 DEF StoreSnapshot, rows
  <2> QED BY <2>1, <2>2 DEF Kept
<1>7. ASSUME NEW s \in Slots, NEW answered \in BOOLEAN, CommitResult(s, answered)
      PROVE  Kept
  <2>1. /\ slot[s].version \in Versions
        /\ slot[s].result.outcome \in Outcomes
        /\ job[slot[s].version].status = "running"
        /\ Settle(slot[s].version, slot[s].result.outcome)
    BY <1>7, <1>t, ResultsAssumption DEF CommitResult, Holds, HandlerShape
  <2>2. object' = object /\ \A v \in Versions : snapshot[v] # None => snapshot'[v] = snapshot[v]
    BY <1>7, <1>t DEF CommitResult, SnapshotRecorded, TypeOK
  <2> QED BY <2>1, <2>2, <1>t, KeptBySettle DEF Kept
<1>8. ASSUME NEW s \in Slots, RecordPermanent(s) PROVE Kept
  <2>1. /\ slot[s].version \in Versions /\ UNCHANGED <<snapshot, object>>
        /\ job[slot[s].version].status = "running"
        /\ Settle(slot[s].version, "permanently_failed")
    BY <1>8, <1>t DEF RecordPermanent, Holds, HandlerShape
  <2> QED BY <2>1, <1>t, KeptBySettle DEF Kept
<1>9. CASE UNCHANGED vars
  BY <1>9, <1>5 DEF vars, rows
<1> QED BY <1>1, <1>2, <1>3, <1>4, <1>5, <1>6, <1>7, <1>8, <1>9
        DEF Next, Handle, InspectFails, DropResult, CompleteThrows, FailureNotRecorded, Crash

(* Terminal rows, recorded snapshots and stored objects are never          *)
(* overwritten, and a quarantined file stays quarantined.                  *)
THEOREM NothingIsRewritten == Spec => NothingRewritten
<1>1. IInv /\ [Next]_vars => [Kept]_vars
  BY KeptStep
<1> QED BY <1>1, Invariance, PTL DEF Spec, NothingRewritten

LEMMA LeaseStep ==
  ASSUME IInv, [Next]_vars, NEW v \in Versions
  PROVE  LeaseKept(v)
<1>t. TypeOK /\ LeaseShape /\ HandlerShape
  BY DEF IInv, Shape
<1>u. job[v] \in Job
  BY <1>t DEF TypeOK
<1> SUFFICES ASSUME job[v].status = "running", job[v].lease = "live",
                    job'[v].status # "running" \/ job'[v].owner # job[v].owner
             PROVE  ByOwner(v)
  BY DEF LeaseKept
<1>1. ASSUME NEW w \in Versions, NEW status \in {"pending_processing", "conflicted"},
             Enqueue(w, status) \/ LeaseRunsOut(w) \/ BecomesDue(w)
      PROVE  FALSE
  <2>1. CASE Enqueue(w, status)
    BY <2>1, <1>t DEF Enqueue, TypeOK
  <2>2. CASE LeaseRunsOut(w)
    BY <2>2, <1>t, <1>u DEF LeaseRunsOut, TypeOK, Job, Row
  <2>3. CASE BecomesDue(w)
    BY <2>3, <1>t DEF BecomesDue, TypeOK
  <2> QED BY <1>1, <2>1, <2>2, <2>3
<1>2. ASSUME Sweep PROVE FALSE
  BY <1>2 DEF Sweep, Swept, Exhausted, ExpiredLeases, LeaseLost
<1>3. ASSUME NEW s \in Slots, NEW w \in Versions, NEW answered \in BOOLEAN,
             Claim(s, w, answered)
      PROVE  FALSE
  BY <1>3, <1>t DEF Claim, Free, TypeOK
<1>4. ASSUME NEW s \in Slots, Heartbeat(s) PROVE FALSE
  BY <1>4, <1>t, <1>u DEF Heartbeat, TypeOK, Job, Row
<1>5. ASSUME job' = job PROVE FALSE
  BY <1>5
<1>6. ASSUME NEW s \in Slots, slot[s].version \in Versions, slot[s].pc # "idle",
             Holds(s), slot'[s].pc = "idle" \/ slot'[s].pc # slot[s].pc,
             job' = [job EXCEPT ![slot[s].version] = job'[slot[s].version]]
      PROVE  ByOwner(v)
  <2>1. slot[s].version = v
    BY <1>6, <1>t DEF TypeOK
  <2>2. slot'[s] # slot[s]
    BY <1>6
  <2> QED BY <2>1, <2>2, <1>6 DEF ByOwner, Holds
<1>7. ASSUME NEW s \in Slots, NEW answered \in BOOLEAN, CommitResult(s, answered)
      PROVE  ByOwner(v)
  <2>1. slot[s].version \in Versions /\ slot[s].pc = "stored" /\ Holds(s)
    BY <1>7, <1>t DEF CommitResult, HandlerShape
  <2>2. slot'[s].pc # slot[s].pc
    BY <1>7, <1>t, <2>1, IdleHandler DEF CommitResult, TypeOK, Handler
  <2>3. job' = [job EXCEPT ![slot[s].version] = job'[slot[s].version]]
    BY <1>7, <1>t, <2>1 DEF CommitResult, Settle, TypeOK
  <2> QED BY <2>1, <2>2, <2>3, <1>6
<1>8. ASSUME NEW s \in Slots, RecordRetry(s) \/ RecordPermanent(s)
      PROVE  ByOwner(v)
  <2>1. slot[s].version \in Versions /\ slot[s].pc = "failing" /\ Holds(s)
    BY <1>8, <1>t DEF RecordRetry, RecordPermanent, HandlerShape
  <2>2. slot'[s].pc = "idle"
    BY <1>8, <1>t, IdleHandler DEF RecordRetry, RecordPermanent, TypeOK
  <2>3. job' = [job EXCEPT ![slot[s].version] = job'[slot[s].version]]
    BY <1>8, <1>t, <2>1 DEF RecordRetry, RecordPermanent, Settle, TypeOK
  <2> QED BY <2>1, <2>2, <2>3, <1>6
<1> QED BY <1>1, <1>2, <1>3, <1>4, <1>5, <1>7, <1>8
        DEF Next, Handle, InspectFails, StoreSnapshot, DropResult, CompleteThrows,
            FailureNotRecorded, Crash, rows, vars

(* A running job with a live lease is taken only by a handler of the       *)
(* process that holds it.                                                  *)
THEOREM LeasesAreRespected == Spec => LeaseRespected
<1>1. IInv /\ [Next]_vars => [\A v \in Versions : LeaseKept(v)]_vars
  BY LeaseStep
<1> QED BY <1>1, Invariance, PTL DEF Spec, LeaseRespected

-----------------------------------------------------------------------------
(* The jobs implement JobLifecycle.                                        *)

Phase(v) == IF job[v].status \in Waiting THEN "waiting" ELSE job[v].status

Tried(v) == job'[v].attempts = job[v].attempts /\ finished'[v] = finished[v]

(* What one step does to one job, in the terms of InspectionJobs.          *)
Moves(v) ==
  \/ Phase(v)' = Phase(v) /\ Tried(v)
  \/ job[v].status = "absent" /\ job'[v].status = "queued" /\ Tried(v)
  \/ /\ job[v].status \in Waiting /\ job'[v].status = "running"
     /\ job[v].attempts < MaxAttempts /\ job'[v].attempts = job[v].attempts + 1
     /\ finished'[v] = finished[v]
  \/ /\ job[v].status = "running" /\ job'[v].status = "retryable_failed"
     /\ job[v].attempts < MaxAttempts /\ Tried(v)
  \/ /\ job[v].status = "running" /\ job'[v].status \in Outcomes
     /\ job'[v].attempts = job[v].attempts
     /\ finished'[v] = Append(finished[v], job'[v].status)

LEMMA MovesStep ==
  ASSUME IInv, [Next]_vars, NEW v \in Versions
  PROVE  Moves(v)
<1>t. TypeOK /\ LeaseShape /\ HandlerShape
  BY DEF IInv, Shape
<1>u. \A w \in Versions : job[w] \in Job /\ Consistent(job[w])
  BY <1>t DEF TypeOK, LeaseShape
<1> USE DEF Moves, Tried, Phase
<1>0. ASSUME job'[v] = job[v], finished'[v] = finished[v] PROVE Moves(v)
  BY <1>0
<1>1. ASSUME NEW w \in Versions, NEW status \in {"pending_processing", "conflicted"},
             Enqueue(w, status)
      PROVE  Moves(v)
  <2>1. /\ Queued(job[w]).status = "queued" /\ Queued(job[w]).attempts = job[w].attempts
        /\ job[w].status = "absent"
    BY <1>1, <1>u DEF Enqueue, Queued, Job, Row
  <2>2. job'[w] = Queued(job[w]) /\ (v # w => job'[v] = job[v]) /\ finished' = finished
    BY <1>1, <1>t DEF Enqueue, TypeOK
  <2> QED BY <2>1, <2>2
<1>2. ASSUME NEW w \in Versions, LeaseRunsOut(w) \/ BecomesDue(w) PROVE Moves(v)
  <2>1. job'[v].status = job[v].status /\ job'[v].attempts = job[v].attempts
    <3>1. CASE LeaseRunsOut(w)
      BY <3>1, <1>t, <1>u DEF LeaseRunsOut, TypeOK, Job, Row
    <3>2. CASE BecomesDue(w)
      BY <3>2, <1>t, <1>u DEF BecomesDue, TypeOK, Job, Row
    <3> QED BY <1>2, <3>1, <3>2
  <2>2. finished' = finished
    BY <1>2 DEF LeaseRunsOut, BecomesDue
  <2> QED BY <2>1, <2>2
<1>3. ASSUME Sweep PROVE Moves(v)
  <2>1. CASE v \in Exhausted
    <3>1. /\ job'[v] = Ended(job[v], "permanently_failed") /\ job[v].status = "running"
          /\ finished'[v] = Append(finished[v], "permanently_failed")
      BY <1>3, <1>t, SweptRows, <2>1 DEF Sweep, Exhausted, ExpiredLeases, LeaseLost
    <3>2. /\ Ended(job[v], "permanently_failed").status = "permanently_failed"
          /\ Ended(job[v], "permanently_failed").attempts = job[v].attempts
      BY <1>u, EndedRow
    <3> QED BY <3>1, <3>2
  <2>2. CASE v \in ExpiredLeases \ Exhausted
    <3>1. job[v].attempts \in Nat /\ MaxAttempts \in Nat
      BY <1>u, MaxAttemptsAssumption DEF Job, Row
    <3>2. job[v].attempts < MaxAttempts
      BY <3>1, <2>2 DEF Exhausted
    <3>3. /\ job'[v] = Retried(job[v], TRUE) /\ job[v].status = "running"
          /\ finished'[v] = finished[v]
      BY <1>3, <1>t, SweptRows, <2>2 DEF Sweep, ExpiredLeases, LeaseLost
    <3>4. /\ Retried(job[v], TRUE).status = "retryable_failed"
          /\ Retried(job[v], TRUE).attempts = job[v].attempts
      BY <1>u, <3>2, RetriedRow
    <3> QED BY <3>2, <3>3, <3>4
  <2>3. CASE v \notin ExpiredLeases
    BY <1>3, <1>t, SweptRows, <2>3 DEF Sweep, LeaseLost, Exhausted
  <2> QED BY <2>1, <2>2, <2>3
<1>4. ASSUME NEW s \in Slots, NEW w \in Versions, NEW answered \in BOOLEAN,
             Claim(s, w, answered)
      PROVE  Moves(v)
  <2>1. /\ Taken(job[w], WorkerOf[s]).status = "running"
        /\ Taken(job[w], WorkerOf[s]).attempts = job[w].attempts + 1
    BY <1>4, <1>u, WorkerOfAssumption, TakenRow DEF Claim, Free
  <2>2. /\ job'[w] = Taken(job[w], WorkerOf[s]) /\ (v # w => job'[v] = job[v])
        /\ job[w].status \in Waiting /\ job[w].attempts < MaxAttempts
        /\ finished' = finished
    BY <1>4, <1>t DEF Claim, Free, TypeOK
  <2> QED BY <2>1, <2>2
<1>5. ASSUME NEW s \in Slots, Heartbeat(s) PROVE Moves(v)
  <2>1. job'[v].status = job[v].status /\ job'[v].attempts = job[v].attempts
    BY <1>5, <1>t, <1>u DEF Heartbeat, TypeOK, Job, Row
  <2>2. finished' = finished
    BY <1>5 DEF Heartbeat
  <2> QED BY <2>1, <2>2
<1>6. ASSUME UNCHANGED rows PROVE Moves(v)
  BY <1>6 DEF rows
<1>7. ASSUME NEW w \in Versions, NEW outcome \in Outcomes,
             job[w].status = "running", Settle(w, outcome)
      PROVE  Moves(v)
  <2>1. /\ Ended(job[w], outcome).status = outcome
        /\ Ended(job[w], outcome).attempts = job[w].attempts
    BY <1>u, EndedRow
  <2>2. /\ job'[w] = Ended(job[w], outcome) /\ finished'[w] = Append(finished[w], outcome)
        /\ v # w => job'[v] = job[v] /\ finished'[v] = finished[v]
    BY <1>7, <1>t DEF Settle, TypeOK
  <2> QED BY <1>7, <2>1, <2>2
<1>8. ASSUME NEW s \in Slots, NEW answered \in BOOLEAN, CommitResult(s, answered)
      PROVE  Moves(v)
  <2>1. /\ slot[s].version \in Versions /\ slot[s].result.outcome \in Outcomes
        /\ job[slot[s].version].status = "running"
        /\ Settle(slot[s].version, slot[s].result.outcome)
    BY <1>8, <1>t, ResultsAssumption DEF CommitResult, Holds, HandlerShape
  <2> QED BY <2>1, <1>7
<1>9. ASSUME NEW s \in Slots, RecordRetry(s) PROVE Moves(v)
  <2>1. PICK w \in Versions : w = slot[s].version
    BY <1>9, <1>t DEF RecordRetry, HandlerShape
  <2>2. job[w].status = "running" /\ job[w].attempts < MaxAttempts
    BY <1>9, <2>1 DEF RecordRetry, Holds, Retries
  <2>3. /\ Retried(job[w], FALSE).status = "retryable_failed"
        /\ Retried(job[w], FALSE).attempts = job[w].attempts
    BY <2>2, <1>u, RetriedRow
  <2>4. /\ job'[w] = Retried(job[w], FALSE) /\ finished' = finished
        /\ v # w => job'[v] = job[v]
    BY <1>9, <2>1, <1>t DEF RecordRetry, TypeOK
  <2> QED BY <2>2, <2>3, <2>4
<1>10. ASSUME NEW s \in Slots, RecordPermanent(s) PROVE Moves(v)
  <2>1. /\ slot[s].version \in Versions /\ job[slot[s].version].status = "running"
        /\ Settle(slot[s].version, "permanently_failed")
    BY <1>10, <1>t DEF RecordPermanent, Holds, HandlerShape
  <2> QED BY <2>1, <1>7
<1> HIDE DEF Moves
<1> QED BY <1>1, <1>2, <1>3, <1>4, <1>5, <1>6, <1>8, <1>9, <1>10
        DEF Next, Handle, InspectFails, StoreSnapshot, DropResult, CompleteThrows,
            FailureNotRecorded, Crash, rows, vars

(* Refinement: a job is tried at most max_attempts times, given back only  *)
(* while another try is left, ended once, and published when it ends.      *)
THEOREM LifecycleIsKept == Spec => KeepsLifecycle
<1>1. Init => Lifecycle!Init
  BY DEF Init, Absent, Lifecycle!Init
<1>2. IInv /\ [Next]_vars => [Lifecycle!Next]_(Lifecycle!lifecycleVars)
  <2> SUFFICES ASSUME IInv, [Next]_vars PROVE Lifecycle!Next
    OBVIOUS
  <2> SUFFICES ASSUME NEW v \in Versions
               PROVE  \/ Lifecycle!Stay(v) \/ Lifecycle!Submit(v) \/ Lifecycle!Start(v)
                      \/ Lifecycle!GiveBack(v) \/ Lifecycle!End(v)
    BY DEF Lifecycle!Next
  <2>1. Moves(v)
    BY MovesStep
  <2>2. job[v].status \in JobStatus /\ Shape'
    BY ShapeStep DEF IInv, Shape, TypeOK, Job, Row
  <2> QED BY <2>1, <2>2
          DEF Moves, Phase, Tried, JobStatus, Lifecycle!Stay, Lifecycle!Submit,
              Lifecycle!Start, Lifecycle!GiveBack, Lifecycle!End, Lifecycle!Untried,
              Lifecycle!Unpublished
<1> QED BY <1>1, <1>2, Invariance, PTL DEF Spec, KeepsLifecycle, Lifecycle!Spec

-----------------------------------------------------------------------------
(* The queue.  A step of the pipeline is a step of the jobs, or leaves     *)
(* them alone.                                                             *)

LEMMA DispatchRunsJobs ==
  ASSUME NEW w \in Workers, Dispatch(w)
  PROVE  Next \/ UNCHANGED vars
BY DEF Dispatch, SweepLeases, List, EndRound, Look, Remove, Add, MarkDispatched, Next

LEMMA HandlersRunJobs ==
  ASSUME NEW s \in Slots, Work(s) \/ WorkFails(s) \/ Renew(s)
  PROVE  Next
<1>1. Handle(s)
  BY DEF Work, WorkFails, Renew, Handle
<1> QED BY <1>1 DEF Next

LEMMA DeliveriesRunJobs ==
  ASSUME NEW s \in Slots, NEW v \in Versions, Deliver(s, v) \/ DeliveryFails(s, v)
  PROVE  Next \/ UNCHANGED vars
<1>1. (\E answered \in BOOLEAN : Claim(s, v, answered)) \/ UNCHANGED vars
  BY DEF Deliver, DeliveryFails
<1> QED BY <1>1 DEF Next

LEMMA JobsStep ==
  ASSUME [PipelineNext]_pipelineVars
  PROVE  [Next]_vars
<1>1. ASSUME NEW v \in Versions, NEW status \in {"pending_processing", "conflicted"},
             Submit(v, status)
      PROVE  Next
  BY <1>1 DEF Submit, Next
<1>2. ASSUME NEW v \in Versions, Tick(v) PROVE Next
  BY <1>2 DEF Tick, Next
<1>3. ASSUME NEW v \in Versions, Recover(v) \/ Stall(v) PROVE UNCHANGED vars
  BY <1>3 DEF Recover, Stall
<1>4. ASSUME NEW w \in Workers, DispatchFails(w) PROVE UNCHANGED vars
  BY <1>4 DEF DispatchFails
<1>5. ASSUME NEW w \in Workers, ProcessDies(w) PROVE Next \/ UNCHANGED vars
  BY <1>5 DEF ProcessDies, Next
<1>6. ASSUME RedisLosesData PROVE UNCHANGED vars
  BY <1>6 DEF RedisLosesData
<1>7. ASSUME UNCHANGED pipelineVars PROVE UNCHANGED vars
  BY <1>7 DEF pipelineVars
<1> QED BY <1>1, <1>2, <1>3, <1>4, <1>5, <1>6, <1>7, DispatchRunsJobs, HandlersRunJobs,
           DeliveriesRunJobs DEF PipelineNext

(* Refinement: whatever the queue, the dispatchers and their faults do,    *)
(* the jobs behave as InspectionJobs lets them, so all that is proved of   *)
(* InspectionJobs holds in the pipeline.                                   *)
THEOREM PipelineRunsJobs == PipelineSpec => Spec
<1>1. PipelineInit => Init
  BY DEF PipelineInit
<1>2. [PipelineNext]_pipelineVars => [Next]_vars
  BY JobsStep
<1> QED BY <1>1, <1>2, PTL DEF PipelineSpec, Spec

LEMMA PipelineShape == PipelineSpec => []Shape
<1> QED BY PipelineRunsJobs, ShapeCorrect, PTL

(* An idle handler names no version.                                       *)
IdleNamesNone == \A s \in Slots : slot[s].pc = "idle" => slot[s].version = None

Queues ==
  /\ queue \in [Versions -> EntryStatus]
  /\ holder \in [Versions -> Slots \cup {None}]
  /\ LocksAreHeld

(* Without faults a handler holds the lock of the entry that started it.   *)
Locked ==
  faults = 0 =>
    \A s \in Slots : slot[s].version # None => holder[slot[s].version] = s

Counted == faults \in 0..MaxFaults

QueueInv == IdleNamesNone /\ Queues /\ Locked /\ Counted

SameVersions == \A s \in Slots : slot'[s].version = slot[s].version

-----------------------------------------------------------------------------
(* What a step does to the handlers.                                       *)

LEMMA IdleIs == Idle.pc = "idle" /\ Idle.version = None
BY DEF Idle

LEMMA StartedHandler ==
  ASSUME NEW v, NEW h, h = [Idle EXCEPT !.pc = "inspecting", !.version = v]
  PROVE  h.pc = "inspecting" /\ h.version = v
BY DEF Idle

LEMMA ClaimStarts ==
  ASSUME Shape, IdleNamesNone, NEW s \in Slots, NEW v \in Versions, Claim(s, v, TRUE)
  PROVE  /\ slot[s].version = None
         /\ slot'[s].pc # "idle" /\ slot'[s].version = v
         /\ \A t \in Slots \ {s} : slot'[t] = slot[t]
<1>1. PICK h : h = [Idle EXCEPT !.pc = "inspecting", !.version = v]
  OBVIOUS
<1>2. slot' = [slot EXCEPT ![s] = h] /\ slot[s].pc = "idle"
  BY <1>1 DEF Claim
<1> QED BY <1>1, <1>2, StartedHandler DEF Shape, TypeOK, IdleNamesNone

LEMMA ClaimIsLost ==
  ASSUME Shape, IdleNamesNone, NEW s \in Slots, NEW v \in Versions, Claim(s, v, FALSE)
  PROVE  SameVersions /\ IdleNamesNone'
<1>1. slot' = [slot EXCEPT ![s] = Idle] /\ slot[s].pc = "idle"
  BY DEF Claim
<1> QED BY <1>1, IdleIs DEF Shape, TypeOK, IdleNamesNone, SameVersions

(* A handler that goes on keeps its version, and one that ends has none.   *)
GoesOn(s) ==
  /\ slot'[s].pc # "idle" /\ slot'[s].version = slot[s].version
  /\ \A t \in Slots \ {s} : slot'[t] = slot[t]

Leaves(s) ==
  slot'[s] = Idle /\ \A t \in Slots \ {s} : slot'[t] = slot[t]

LEMMA HandlerGoesOn ==
  ASSUME Shape, NEW s \in Slots,
         \/ \E retryable \in BOOLEAN : InspectFails(s, retryable)
         \/ \E r \in Results, answered \in BOOLEAN : StoreSnapshot(s, r, answered)
         \/ CompleteThrows(s) \/ CommitResult(s, FALSE)
  PROVE  GoesOn(s)
<1>1. PICK old \in Handler : old = slot[s]
  BY DEF Shape, TypeOK
<1>2. slot \in [Slots -> Handler]
  BY DEF Shape, TypeOK
<1>3. ASSUME NEW pc \in {"stored", "failing"}, NEW h, NEW result, NEW retryable,
             \/ h = [old EXCEPT !.pc = pc, !.retryable = retryable]
             \/ h = [old EXCEPT !.pc = pc, !.result = result],
             slot' = [slot EXCEPT ![s] = h]
      PROVE  GoesOn(s)
  <2>1. h.pc = pc /\ h.version = old.version
    BY <1>3 DEF Handler
  <2> QED BY <1>1, <1>2, <1>3, <2>1 DEF GoesOn
<1>4. ASSUME NEW retryable \in BOOLEAN, InspectFails(s, retryable) PROVE GoesOn(s)
  <2>1. slot' = [slot EXCEPT ![s] = [old EXCEPT !.pc = "failing", !.retryable = retryable]]
    BY <1>1, <1>4 DEF InspectFails
  <2> QED BY <2>1, <1>3
<1>5. ASSUME NEW r \in Results, NEW answered \in BOOLEAN, StoreSnapshot(s, r, answered)
      PROVE  GoesOn(s)
  <2>1. \/ slot' = [slot EXCEPT ![s] = [old EXCEPT !.pc = "stored", !.result = r]]
        \/ slot' = [slot EXCEPT ![s] =
                      [old EXCEPT !.pc = "failing", !.retryable = ~answered]]
    BY <1>1, <1>5 DEF StoreSnapshot
  <2> QED BY <2>1, <1>3
<1>6. ASSUME CompleteThrows(s) \/ CommitResult(s, FALSE) PROVE GoesOn(s)
  <2>1. slot' = [slot EXCEPT ![s] = [old EXCEPT !.pc = "failing", !.retryable = TRUE]]
    BY <1>1, <1>6 DEF CompleteThrows, CommitResult
  <2> QED BY <2>1, <1>3
<1> QED BY <1>4, <1>5, <1>6

LEMMA HandlerLeaves ==
  ASSUME Shape, NEW s \in Slots,
         \/ DropResult(s) \/ CommitResult(s, TRUE) \/ RecordRetry(s)
         \/ RecordPermanent(s) \/ FailureNotRecorded(s)
  PROVE  Leaves(s)
<1>1. slot' = [slot EXCEPT ![s] = Idle]
  BY DEF DropResult, CommitResult, RecordRetry, RecordPermanent, FailureNotRecorded
<1> QED BY <1>1 DEF Leaves, Shape, TypeOK

LEMMA WorkDoes ==
  ASSUME Shape, NEW s \in Slots, Work(s) \/ WorkFails(s)
  PROVE  \/ GoesOn(s) /\ UNCHANGED queueVars
         \/ Leaves(s) /\ (Releases(s, Returned) \/ Releases(s, Thrown))
BY HandlerGoesOn, HandlerLeaves DEF Work, WorkFails

LEMMA StaysIdle ==
  ASSUME IdleNamesNone, NEW s \in Slots, GoesOn(s) \/ Leaves(s)
  PROVE  IdleNamesNone'
BY IdleIs DEF IdleNamesNone, GoesOn, Leaves

-----------------------------------------------------------------------------
(* What a step does to the locks.                                          *)

QueueGoes == Queues' /\ (Locked => Locked')

LEMMA LocksStay ==
  ASSUME Queues, SameVersions, holder' = holder, queue' \in [Versions -> EntryStatus],
         faults' = 0 => faults = 0,
         \A v \in Versions : queue'[v] = queue[v] \/ queue[v] # "active" \/ holder[v] = None
  PROVE  QueueGoes
<1>1. ASSUME NEW v \in Versions, holder[v] # None
      PROVE  slot'[holder[v]].version = v /\ queue'[v] = "active"
  <2>1. holder[v] \in Slots /\ slot[holder[v]].version = v /\ queue[v] = "active"
    BY <1>1 DEF Queues, LocksAreHeld
  <2> QED BY <1>1, <2>1 DEF SameVersions
<1>2. Queues'
  BY <1>1 DEF Queues, LocksAreHeld
<1>3. Locked => Locked'
  BY DEF Locked, SameVersions
<1> QED BY <1>2, <1>3 DEF QueueGoes

(* The entry of a version that no handler is known to hold is ended.       *)
LEMMA EntryEnds ==
  ASSUME Queues, SameVersions, NEW v \in Versions,
         EndsEntry(v, Returned) \/ EndsEntry(v, Thrown),
         (faults' = 0 => faults = 0 /\ holder[v] = None)
  PROVE  QueueGoes
<1>1. /\ holder' = [holder EXCEPT ![v] = None]
      /\ \E after \in EntryStatus : queue' = [queue EXCEPT ![v] = after]
  BY DEF EndsEntry, Returned, Thrown, EntryStatus
<1>2. /\ queue' \in [Versions -> EntryStatus] /\ holder' \in [Versions -> Slots \cup {None}]
      /\ \A u \in Versions : u # v => queue'[u] = queue[u] /\ holder'[u] = holder[u]
      /\ holder'[v] = None
  BY <1>1 DEF Queues
<1>3. ASSUME NEW u \in Versions, holder'[u] # None
      PROVE  slot'[holder'[u]].version = u /\ queue'[u] = "active"
  <2>1. u # v /\ holder'[u] = holder[u] /\ holder[u] \in Slots
    BY <1>2, <1>3
  <2> QED BY <1>2, <1>3, <2>1 DEF Queues, LocksAreHeld, SameVersions
<1>4. Queues'
  BY <1>2, <1>3 DEF Queues, LocksAreHeld
<1>5. ASSUME Locked, faults' = 0, NEW s \in Slots, slot'[s].version # None
      PROVE  holder'[slot'[s].version] = s
  <2>1. holder[slot[s].version] = s /\ slot'[s].version = slot[s].version
    BY <1>5 DEF Locked, SameVersions
  <2>2. slot[s].version # v
    BY <1>5, <2>1, HolderAssumption
  <2> QED BY <1>1, <2>1, <2>2 DEF Queues
<1> QED BY <1>4, <1>5 DEF QueueGoes, Locked

(* A delivery claims the job and takes the lock of its entry.              *)
LEMMA EntryStarts ==
  ASSUME Shape, IdleNamesNone, Queues, NEW s \in Slots, NEW v \in Versions,
         queue[v] = "waiting", Claim(s, v, TRUE),
         queue' = [queue EXCEPT ![v] = "active"], holder' = [holder EXCEPT ![v] = s],
         faults' = faults
  PROVE  QueueGoes
<1>1. /\ slot[s].version = None /\ slot'[s].version = v
      /\ \A t \in Slots \ {s} : slot'[t] = slot[t]
  BY ClaimStarts
<1>2. holder[v] = None
  BY DEF Queues, LocksAreHeld
<1>3. /\ queue' \in [Versions -> EntryStatus] /\ holder' \in [Versions -> Slots \cup {None}]
      /\ queue'[v] = "active" /\ holder'[v] = s
      /\ \A u \in Versions \ {v} : queue'[u] = queue[u] /\ holder'[u] = holder[u]
  BY DEF Queues, EntryStatus
<1>4. ASSUME NEW u \in Versions, holder'[u] # None
      PROVE  slot'[holder'[u]].version = u /\ queue'[u] = "active"
  <2>1. CASE u = v
    BY <1>1, <1>3, <2>1
  <2>2. CASE u # v
    <3>1. /\ holder'[u] = holder[u] /\ holder[u] \in Slots /\ slot[holder[u]].version = u
          /\ queue'[u] = "active"
      BY <1>3, <1>4, <2>2 DEF Queues, LocksAreHeld
    <3>2. holder[u] # s
      BY <1>1, <3>1, NoneAssumption
    <3> QED BY <1>1, <3>1, <3>2
  <2> QED BY <2>1, <2>2
<1>5. Queues'
  BY <1>3, <1>4 DEF Queues, LocksAreHeld
<1>6. ASSUME Locked, faults' = 0, NEW t \in Slots, slot'[t].version # None
      PROVE  holder'[slot'[t].version] = t
  <2>1. CASE t = s
    BY <1>1, <1>3, <2>1
  <2>2. CASE t # s
    <3>1. /\ slot'[t].version = slot[t].version /\ holder[slot[t].version] = t
      BY <1>1, <1>6, <2>2 DEF Locked
    <3>2. slot[t].version # v
      BY <1>2, <3>1, HolderAssumption
    <3>3. slot[t].version \in Versions
      BY <1>6, <3>1 DEF Shape, TypeOK, Handler
    <3> QED BY <1>3, <3>1, <3>2, <3>3
  <2> QED BY <2>1, <2>2
<1> QED BY <1>5, <1>6 DEF QueueGoes, Locked

(* A handler that ends gives back the lock it still holds.                 *)
LEMMA EntryReleased ==
  ASSUME Shape, Queues, NEW s \in Slots, Leaves(s),
         Releases(s, Returned) \/ Releases(s, Thrown), faults' = 0 => faults = 0
  PROVE  QueueGoes
<1>1. slot'[s].version = None /\ \A t \in Slots \ {s} : slot'[t] = slot[t]
  BY IdleIs DEF Leaves
<1>2. PICK v : v = slot[s].version
  OBVIOUS
<1>3. /\ queue' \in [Versions -> EntryStatus] /\ holder' \in [Versions -> Slots \cup {None}]
      /\ \A u \in Versions : \/ u = v /\ holder[u] = s
                             \/ queue'[u] = queue[u] /\ holder'[u] = holder[u]
      /\ \A u \in Versions : holder'[u] \in {holder[u], None} /\ holder'[u] # s
  <2>1. CASE holder[v] = s
    <3>1. /\ holder' = [holder EXCEPT ![v] = None]
          /\ \E after \in EntryStatus : queue' = [queue EXCEPT ![v] = after]
      BY <1>2, <2>1 DEF Releases, EndsEntry, Returned, Thrown, EntryStatus
    <3>2. \A u \in Versions : holder[u] = s => u = v
      BY <1>2, HolderAssumption DEF Queues, LocksAreHeld
    <3> QED BY <2>1, <3>1, <3>2, HolderAssumption DEF Queues
  <2>2. CASE holder[v] # s
    <3>1. UNCHANGED <<queue, holder>>
      BY <1>2, <2>2 DEF Releases, queueVars
    <3>2. \A u \in Versions : holder[u] # s
      BY <1>2, <2>2, HolderAssumption DEF Queues, LocksAreHeld
    <3> QED BY <3>1, <3>2 DEF Queues
  <2> QED BY <2>1, <2>2
<1>4. ASSUME NEW u \in Versions, holder'[u] # None
      PROVE  slot'[holder'[u]].version = u /\ queue'[u] = "active"
  <2>1. holder'[u] = holder[u] /\ holder[u] \in Slots \ {s} /\ queue'[u] = queue[u]
    BY <1>3, <1>4 DEF Queues
  <2> QED BY <1>1, <1>4, <2>1 DEF Queues, LocksAreHeld
<1>5. Queues'
  BY <1>3, <1>4 DEF Queues, LocksAreHeld
<1>6. ASSUME Locked, faults' = 0, NEW t \in Slots, slot'[t].version # None
      PROVE  holder'[slot'[t].version] = t
  <2>1. /\ t # s /\ slot'[t].version = slot[t].version /\ holder[slot[t].version] = t
        /\ slot[t].version \in Versions
    BY <1>1, <1>6 DEF Locked, Shape, TypeOK, Handler
  <2> QED BY <1>3, <2>1
<1> QED BY <1>5, <1>6 DEF QueueGoes, Locked

LEMMA LocksDie ==
  ASSUME Shape, Queues, IdleNamesNone, NEW w \in Workers, ProcessDies(w), faults' # 0
  PROVE  QueueGoes /\ IdleNamesNone'
<1>1. PICK dying \in SUBSET Slots :
        /\ dying = {s \in Slots : WorkerOf[s] = w}
        /\ holder' = [v \in Versions |-> IF holder[v] \in dying THEN None ELSE holder[v]]
  BY DEF ProcessDies
<1>2. queue' = queue
  BY DEF ProcessDies
<1>3. \A s \in Slots : slot'[s] = slot[s] \/ (s \in dying /\ slot'[s] = Idle)
  <2>1. CASE Crash(w)
    BY <1>1, <2>1 DEF Crash
  <2>2. CASE UNCHANGED vars
    BY <2>2 DEF vars
  <2> QED BY <2>1, <2>2 DEF ProcessDies
<1>4. ASSUME NEW v \in Versions, holder'[v] # None
      PROVE  slot'[holder'[v]].version = v /\ queue'[v] = "active"
  <2>1. holder'[v] = holder[v] /\ holder[v] \in Slots \ dying
    BY <1>1, <1>4 DEF Queues
  <2> QED BY <1>2, <1>3, <1>4, <2>1 DEF Queues, LocksAreHeld
<1>5. holder' \in [Versions -> Slots \cup {None}]
  BY <1>1 DEF Queues
<1>6. Queues'
  BY <1>2, <1>4, <1>5 DEF Queues, LocksAreHeld
<1>7. IdleNamesNone'
  BY <1>3, IdleIs DEF IdleNamesNone
<1> QED BY <1>6, <1>7 DEF QueueGoes, Locked

-----------------------------------------------------------------------------
(* Every step of the pipeline.                                             *)

LEMMA FaultsCount ==
  ASSUME Counted, Fault \/ NoFault
  PROVE  Counted' /\ (Fault => faults' # 0) /\ (faults' = 0 => faults = 0)
BY MaxFaultsAssumption DEF Counted, Fault, NoFault

LEMMA QueueStep ==
  ASSUME Shape, QueueInv, [PipelineNext]_pipelineVars
  PROVE  QueueInv'
<1> USE DEF QueueInv
<1>1. ASSUME SameVersions, IdleNamesNone', holder' = holder, queue' = queue,
             Fault \/ NoFault
      PROVE  QueueInv'
  <2>1. queue' \in [Versions -> EntryStatus]
    BY <1>1 DEF Queues
  <2> QED BY <1>1, <2>1, FaultsCount, LocksStay DEF QueueGoes
<1>2. ASSUME slot' = slot PROVE SameVersions /\ IdleNamesNone'
  BY <1>2 DEF SameVersions, IdleNamesNone
<1>3. ASSUME UNCHANGED vars PROVE slot' = slot
  BY <1>3 DEF vars
<1>4. ASSUME NEW v \in Versions, NEW status, Submit(v, status) PROVE QueueInv'
  <2>1. slot' = slot /\ UNCHANGED <<queue, holder>> /\ NoFault
    BY <1>4 DEF Submit, Enqueue, queueVars
  <2> QED BY <1>1, <1>2, <2>1
<1>5. ASSUME NEW v \in Versions, Tick(v) PROVE QueueInv'
  <2>1. slot' = slot /\ UNCHANGED <<queue, holder>> /\ NoFault
    BY <1>5 DEF Tick, LeaseRunsOut, BecomesDue, queueVars
  <2> QED BY <1>1, <1>2, <2>1
<1>6. ASSUME NEW s \in Slots, Renew(s) PROVE QueueInv'
  <2>1. slot' = slot /\ UNCHANGED <<queue, holder>> /\ NoFault
    BY <1>6 DEF Renew, Heartbeat, queueVars
  <2> QED BY <1>1, <1>2, <2>1
<1>7. ASSUME NEW w \in Workers, DispatchFails(w) PROVE QueueInv'
  <2>1. slot' = slot /\ UNCHANGED <<queue, holder>> /\ Fault
    BY <1>3, <1>7 DEF DispatchFails, queueVars
  <2> QED BY <1>1, <1>2, <2>1
<1>8. ASSUME NEW w \in Workers, Dispatch(w) PROVE QueueInv'
  <2>1. slot' = slot /\ NoFault
    <3>1. CASE SweepLeases(w)
      BY <1>3, <3>1 DEF SweepLeases, Sweep
    <3>2. CASE ~SweepLeases(w)
      BY <1>3, <1>8, <3>2 DEF Dispatch, List, EndRound, Look, Remove, Add, MarkDispatched
    <3> QED BY <3>1, <3>2
  <2>2. CASE UNCHANGED queueVars
    BY <1>1, <1>2, <2>1, <2>2 DEF queueVars
  <2>3. CASE Remove(w) \/ Add(w)
    <3>1. PICK v : v = dispatcher[w].version
      OBVIOUS
    <3>2. /\ holder' = holder
          /\ \/ queue' = queue
             \/ holder[v] = None /\ queue' = [queue EXCEPT ![v] = "absent"]
             \/ queue[v] = "absent" /\ queue' = [queue EXCEPT ![v] = "waiting"]
      <4>1. CASE Remove(w)
        BY <3>1, <4>1 DEF Remove, queueVars
      <4>2. CASE Add(w)
        <5>1. /\ queue' = [queue EXCEPT ![v] =
                             IF queue[v] = "absent" THEN "waiting" ELSE queue[v]]
              /\ holder' = holder
          BY <3>1, <4>2 DEF Add
        <5>2. queue[v] # "absent" => queue' = queue
          BY <5>1 DEF Queues
        <5> QED BY <5>1, <5>2
      <4> QED BY <2>3, <4>1, <4>2
    <3>3. /\ queue' \in [Versions -> EntryStatus]
          /\ \A u \in Versions : queue'[u] = queue[u] \/ queue[u] # "active" \/ holder[u] = None
      BY <3>2 DEF Queues, EntryStatus
    <3> QED BY <1>2, <2>1, <3>2, <3>3, FaultsCount, LocksStay DEF QueueGoes
  <2> QED BY <1>8, <2>2, <2>3 DEF Dispatch, SweepLeases, List, EndRound, Look, MarkDispatched
<1>9. ASSUME NEW v \in Versions, Recover(v) \/ Stall(v) PROVE QueueInv'
  <2>1. /\ slot' = slot /\ EndsEntry(v, Thrown)
        /\ (NoFault /\ holder[v] = None) \/ Fault
    BY <1>3, <1>9 DEF Recover, Stall
  <2>2. Counted' /\ (faults' = 0 => faults = 0 /\ holder[v] = None)
    BY <2>1, FaultsCount
  <2> QED BY <1>2, <2>1, <2>2, EntryEnds DEF QueueGoes
<1>10. ASSUME NEW s \in Slots, NEW v \in Versions, Deliver(s, v) PROVE QueueInv'
  <2>1. queue[v] = "waiting" /\ holder[v] = None /\ NoFault
    BY <1>10 DEF Deliver, Queues, LocksAreHeld
  <2>2. Counted' /\ faults' = faults
    BY <2>1, FaultsCount DEF NoFault
  <2>3. CASE UNCHANGED vars /\ EndsEntry(v, Returned)
    BY <1>2, <1>3, <2>1, <2>2, <2>3, EntryEnds DEF QueueGoes
  <2>4. CASE /\ Claim(s, v, TRUE)
             /\ queue' = [queue EXCEPT ![v] = "active"] /\ holder' = [holder EXCEPT ![v] = s]
    <3>1. IdleNamesNone'
      BY <2>4, ClaimStarts DEF IdleNamesNone
    <3> QED BY <2>1, <2>2, <2>4, <3>1, EntryStarts DEF QueueGoes
  <2> QED BY <1>10, <2>3, <2>4 DEF Deliver
<1>11. ASSUME NEW s \in Slots, NEW v \in Versions, DeliveryFails(s, v) PROVE QueueInv'
  <2>1. EndsEntry(v, Thrown) /\ Fault
    BY <1>11 DEF DeliveryFails
  <2>2. SameVersions /\ IdleNamesNone'
    BY <1>2, <1>3, <1>11, ClaimIsLost DEF DeliveryFails
  <2> QED BY <2>1, <2>2, FaultsCount, EntryEnds DEF QueueGoes
<1>12. ASSUME NEW s \in Slots, Work(s) \/ WorkFails(s) PROVE QueueInv'
  <2>1. Fault \/ NoFault
    BY <1>12 DEF Work, WorkFails
  <2>2. CASE GoesOn(s) /\ UNCHANGED queueVars
    <3>1. SameVersions
      BY <2>2 DEF GoesOn, SameVersions
    <3> QED BY <1>1, <2>1, <2>2, <3>1, StaysIdle DEF queueVars
  <2>3. CASE Leaves(s) /\ (Releases(s, Returned) \/ Releases(s, Thrown))
    BY <2>1, <2>3, FaultsCount, StaysIdle, EntryReleased DEF QueueGoes
  <2> QED BY <1>12, <2>2, <2>3, WorkDoes
<1>13. ASSUME NEW w \in Workers, ProcessDies(w) PROVE QueueInv'
  <2>1. Fault
    BY <1>13 DEF ProcessDies
  <2> QED BY <1>13, <2>1, FaultsCount, LocksDie DEF QueueGoes
<1>14. ASSUME RedisLosesData PROVE QueueInv'
  <2>1. /\ slot' = slot /\ Fault
        /\ queue' = [v \in Versions |-> "absent"] /\ holder' = [v \in Versions |-> None]
    BY <1>3, <1>14 DEF RedisLosesData
  <2>2. Queues'
    BY <2>1 DEF Queues, LocksAreHeld, EntryStatus
  <2> QED BY <1>2, <2>1, <2>2, FaultsCount DEF Locked
<1>15. ASSUME UNCHANGED pipelineVars PROVE QueueInv'
  BY <1>1, <1>2, <1>3, <1>15 DEF pipelineVars, queueVars, NoFault
<1> QED BY <1>4, <1>5, <1>6, <1>7, <1>8, <1>9, <1>10, <1>11, <1>12, <1>13, <1>14, <1>15
        DEF PipelineNext

(* Whatever fails, the lock of a queue entry is held by a handler that     *)
(* works on that very version, and without faults by every handler.        *)
THEOREM QueueInvariance == PipelineSpec => []QueueInv
<1>1. PipelineInit => QueueInv
  <2>1. Init => IdleNamesNone
    BY IdleIs DEF Init, IdleNamesNone
  <2>2. ASSUME PipelineInit PROVE Queues /\ Locked /\ Counted
    BY <2>2, IdleIs, MaxFaultsAssumption
       DEF PipelineInit, Init, Queues, LocksAreHeld, EntryStatus, Locked, Counted
  <2> QED BY <2>1, <2>2 DEF PipelineInit, QueueInv
<1>2. Shape /\ QueueInv /\ [PipelineNext]_pipelineVars => QueueInv'
  BY QueueStep
<1> QED BY <1>1, <1>2, PipelineShape, PTL DEF PipelineSpec

(* As long as nothing fails, no version is in the hands of two handlers,   *)
(* even when the lease of a living one runs out: the entry it holds in the *)
(* queue keeps the dispatchers from adding another.                        *)
THEOREM DeliveriesAreCalm == PipelineSpec => []CalmDeliveries
<1>1. QueueInv => CalmDeliveries
  BY DEF QueueInv, Locked, CalmDeliveries
<1> QED BY <1>1, QueueInvariance, PTL

-----------------------------------------------------------------------------
(* The dispatchers.                                                        *)

Loop == [step : {"sweep", "list", "next", "remove", "add", "mark"},
         todo : SUBSET Versions, version : Versions \cup {None}]

Sound(d) == d.version = None <=> d.step \in {"sweep", "list", "next"}

Dispatchers ==
  /\ dispatcher \in [Workers -> Loop]
  /\ \A w \in Workers : Sound(dispatcher[w])
  /\ requested \in [Versions -> {"absent", "pending", "published"}]

LEMMA LoopGoes ==
  ASSUME Dispatchers, NEW w \in Workers, NEW next \in Loop, Sound(next),
         dispatcher' = [dispatcher EXCEPT ![w] = next],
         requested' \in [Versions -> {"absent", "pending", "published"}]
  PROVE  Dispatchers'
BY DEF Dispatchers

LEMMA RestingIs == Resting \in Loop /\ Sound(Resting)
BY DEF Resting, Loop, Sound

LEMMA DispatchStep ==
  ASSUME Dispatchers, NEW w \in Workers, Dispatch(w)
  PROVE  Dispatchers'
<1>1. PICK old \in Loop : old = dispatcher[w] /\ Sound(old)
  BY DEF Dispatchers
<1>2. requested \in [Versions -> {"absent", "pending", "published"}]
  BY DEF Dispatchers
<1>3. ASSUME NEW step \in {"list", "add", "mark"}, Goes(w, step),
             old.version = None <=> step = "list", requested' = requested
      PROVE  Dispatchers'
  <2>1. PICK next : next = [old EXCEPT !.step = step]
    OBVIOUS
  <2>2. next \in Loop /\ Sound(next)
    BY <1>1, <1>3, <2>1 DEF Loop, Sound
  <2>3. dispatcher' = [dispatcher EXCEPT ![w] = next]
    BY <1>1, <1>3, <2>1 DEF Goes
  <2> QED BY <1>2, <1>3, <2>2, <2>3, LoopGoes
<1>4. ASSUME dispatcher' = [dispatcher EXCEPT ![w] = Resting], requested' = requested
      PROVE  Dispatchers'
  BY <1>2, <1>4, RestingIs, LoopGoes
<1>5. CASE SweepLeases(w)
  BY <1>1, <1>3, <1>5 DEF SweepLeases, Sound
<1>6. CASE List(w)
  <2>1. PICK next : next = [step |-> "next", todo |-> {v \in Versions : Free(job[v])},
                            version |-> None]
    OBVIOUS
  <2>2. next \in Loop /\ Sound(next)
    BY <2>1 DEF Loop, Sound
  <2> QED BY <1>2, <1>6, <2>1, <2>2, LoopGoes DEF List
<1>7. CASE EndRound(w)
  BY <1>4, <1>7 DEF EndRound
<1>8. ASSUME NEW v \in Versions, Look(w, v) PROVE Dispatchers'
  <2>1. PICK next : next = [step |-> IF queue[v] = "over" THEN "remove" ELSE "add",
                            todo |-> old.todo \ {v}, version |-> v]
    OBVIOUS
  <2>2. next \in Loop /\ Sound(next)
    BY <1>1, <2>1, NoneAssumption DEF Loop, Sound
  <2>3. dispatcher' = [dispatcher EXCEPT ![w] = next] /\ requested' = requested
    BY <1>1, <1>8, <2>1 DEF Look
  <2> QED BY <1>2, <2>2, <2>3, LoopGoes
<1>9. CASE Remove(w)
  <2>1. old.version # None
    BY <1>1, <1>9 DEF Remove, Sound
  <2> QED BY <1>3, <1>4, <1>9, <2>1 DEF Remove
<1>10. CASE Add(w)
  <2>1. old.version # None
    BY <1>1, <1>10 DEF Add, Sound
  <2> QED BY <1>3, <1>10, <2>1 DEF Add
<1>11. CASE MarkDispatched(w)
  <2>1. PICK next : next = [old EXCEPT !.step = "next", !.version = None]
    OBVIOUS
  <2>2. next \in Loop /\ Sound(next)
    BY <1>1, <2>1 DEF Loop, Sound
  <2>3. dispatcher' = [dispatcher EXCEPT ![w] = next]
    BY <1>1, <1>11, <2>1 DEF MarkDispatched
  <2>4. requested' \in [Versions -> {"absent", "pending", "published"}]
    BY <1>2, <1>11 DEF MarkDispatched
  <2> QED BY <2>2, <2>3, <2>4, LoopGoes
<1> QED BY <1>5, <1>6, <1>7, <1>8, <1>9, <1>10, <1>11 DEF Dispatch

LEMMA DispatchersStep ==
  ASSUME Dispatchers, [PipelineNext]_pipelineVars
  PROVE  Dispatchers'
<1>1. ASSUME UNCHANGED <<dispatcher, requested>> PROVE Dispatchers'
  BY <1>1 DEF Dispatchers
<1>2. ASSUME NEW v \in Versions, NEW status, Submit(v, status) PROVE Dispatchers'
  BY <1>2 DEF Submit, Dispatchers
<1>3. ASSUME NEW v \in Versions, Tick(v) \/ Recover(v) \/ Stall(v)
      PROVE  UNCHANGED <<dispatcher, requested>>
  BY <1>3 DEF Tick, Recover, Stall
<1>4. ASSUME NEW w \in Workers, DispatchFails(w) \/ ProcessDies(w) PROVE Dispatchers'
  <2>1. dispatcher' = [dispatcher EXCEPT ![w] = Resting] /\ requested' = requested
    BY <1>4 DEF DispatchFails, ProcessDies
  <2> QED BY <2>1, RestingIs, LoopGoes DEF Dispatchers
<1>5. ASSUME NEW s \in Slots, NEW v \in Versions, Deliver(s, v) \/ DeliveryFails(s, v)
      PROVE  UNCHANGED <<dispatcher, requested>>
  BY <1>5 DEF Deliver, DeliveryFails
<1>6. ASSUME NEW s \in Slots, Work(s) \/ WorkFails(s) \/ Renew(s)
      PROVE  UNCHANGED <<dispatcher, requested>>
  BY <1>6 DEF Work, WorkFails, Renew
<1>7. ASSUME RedisLosesData \/ UNCHANGED pipelineVars
      PROVE  UNCHANGED <<dispatcher, requested>>
  BY <1>7 DEF RedisLosesData, pipelineVars
<1> QED BY <1>1, <1>2, <1>3, <1>4, <1>5, <1>6, <1>7, DispatchStep DEF PipelineNext

(* The queue, the locks and the dispatchers keep their types: a dispatcher *)
(* that is about to remove, add or mark has a version, and no other has.   *)
THEOREM PipelineTypes == PipelineSpec => [](PipelineTypeOK /\ LocksAreHeld)
<1>1. PipelineInit => Dispatchers
  BY RestingIs DEF PipelineInit, Dispatchers
<1>2. Dispatchers /\ [PipelineNext]_pipelineVars => Dispatchers'
  BY DispatchersStep
<1>3. QueueInv /\ Dispatchers => PipelineTypeOK /\ LocksAreHeld
  BY DEF QueueInv, Queues, Counted, Dispatchers, Loop, Sound, PipelineTypeOK
<1> QED BY <1>1, <1>2, <1>3, QueueInvariance, PTL DEF PipelineSpec

=============================================================================
