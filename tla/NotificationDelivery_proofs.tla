-------------------- MODULE NotificationDelivery_proofs --------------------
(***************************************************************************)
(* Proofs about NotificationDelivery, for every set of events, users,      *)
(* workers and handlers and every number of attempts.                      *)
(***************************************************************************)
EXTENDS NotificationDelivery, FiniteSetTheorems, TLAPS

Rows == Row(Statuses)

(* Mails are counted without their bound, which follows from the accounts. *)
Typed ==
  /\ outbox \in [Events -> {"absent", "pending", "published", "failed"}]
  /\ row \in [Jobs -> Rows]
  /\ notified \in [Events -> SUBSET Users]
  /\ scope \subseteq Users /\ wantsMail \subseteq Users
  /\ sent \in [Mails -> Nat]
  /\ slot \in [Slots -> Handler]

(* A job that handlers may work on.                                        *)
Alive(j) == row[j].status \notin {"absent", "suppressed"}

(* A handler has a job that is alive, and one whose mail was accepted has  *)
(* sent it.                                                                *)
HandlerShape ==
  \A s \in Slots :
    /\ slot[s].pc # "idle" => slot[s].job \in Jobs /\ Alive(slot[s].job)
    /\ slot[s].pc = "accepted" => slot[s].job \in Mails /\ sent[slot[s].job] >= 1

Shape == Typed /\ HandlerShape

-----------------------------------------------------------------------------
(* The row updates.                                                        *)

LEMMA QueuedRow ==
  ASSUME NEW r \in Rows
  PROVE  /\ Queued(r) \in Rows
         /\ Queued(r).status = "queued" /\ Queued(r).attempts = r.attempts
BY DEF Queued, Rows, Row, Statuses, Waiting

LEMMA TakenRow ==
  ASSUME NEW r \in Rows, NEW w \in Workers, r.attempts < MaxAttempts
  PROVE  /\ Taken(r, w) \in Rows /\ r.attempts + 1 \in 0..MaxAttempts
         /\ Taken(r, w).status = "running" /\ Taken(r, w).attempts = r.attempts + 1
<1>1. r.attempts + 1 \in 0..MaxAttempts
  BY MaxAttemptsAssumption DEF Rows, Row
<1>2. Taken(r, w).status = "running" /\ Taken(r, w).attempts = r.attempts + 1
  BY DEF Taken, Rows, Row
<1>3. Taken(r, w) \in Rows
  BY <1>1 DEF Taken, Rows, Row, Statuses
<1> QED BY <1>1, <1>2, <1>3

LEMMA RetriedRow ==
  ASSUME NEW r \in Rows, NEW due \in BOOLEAN
  PROVE  /\ Retried(r, due) \in Rows
         /\ Retried(r, due).status = "retryable_failed"
         /\ Retried(r, due).attempts = r.attempts
BY DEF Retried, Rows, Row, Statuses, Waiting

LEMMA EndedRow ==
  ASSUME NEW r \in Rows, NEW outcome \in Ends
  PROVE  /\ Ended(r, outcome) \in Rows
         /\ Ended(r, outcome).status = outcome
         /\ Ended(r, outcome).attempts = r.attempts
BY DEF Ended, Rows, Row, Statuses, Ends

LEMMA ClockRow ==
  ASSUME NEW r \in Rows, NEW l \in {"live", "expired"}
  PROVE  /\ [r EXCEPT !.due = TRUE] \in Rows /\ [r EXCEPT !.lease = l] \in Rows
         /\ [r EXCEPT !.due = TRUE].status = r.status
         /\ [r EXCEPT !.due = TRUE].attempts = r.attempts
         /\ [r EXCEPT !.lease = l].status = r.status
         /\ [r EXCEPT !.lease = l].attempts = r.attempts
BY DEF Rows, Row

LEMMA SweptRow ==
  ASSUME NEW r \in Rows
  PROVE  /\ Swept(r) \in Rows /\ Swept(r).attempts = r.attempts
         /\ ~LeaseLost(r) => Swept(r) = r
         /\ LeaseLost(r) => r.status = "running"
         /\ LeaseLost(r) /\ r.attempts # MaxAttempts =>
              r.attempts < MaxAttempts /\ Swept(r).status = "retryable_failed"
         /\ LeaseLost(r) /\ r.attempts = MaxAttempts =>
              Swept(r).status = "permanently_failed"
<1>1. r.attempts \in Nat /\ MaxAttempts \in Nat /\ r.attempts <= MaxAttempts
  BY MaxAttemptsAssumption DEF Rows, Row
<1>2. LeaseLost(r) => r.status = "running"
  BY DEF LeaseLost
<1>3. CASE ~LeaseLost(r)
  BY <1>3 DEF Swept
<1>4. CASE LeaseLost(r) /\ r.attempts < MaxAttempts
  <2>1. Swept(r) = Retried(r, TRUE)
    BY <1>4 DEF Swept
  <2>2. /\ Retried(r, TRUE) \in Rows /\ Retried(r, TRUE).attempts = r.attempts
        /\ Retried(r, TRUE).status = "retryable_failed"
    BY RetriedRow
  <2>3. r.attempts # MaxAttempts
    BY <1>1, <1>4
  <2> QED BY <2>1, <2>2, <2>3, <1>2, <1>4
<1>5. CASE LeaseLost(r) /\ ~(r.attempts < MaxAttempts)
  <2>1. Swept(r) = Ended(r, "permanently_failed")
    BY <1>5 DEF Swept
  <2> QED BY <2>1, <1>1, <1>2, <1>5, EndedRow DEF Ends
<1> QED BY <1>3, <1>4, <1>5

(* What a row may become.                                                  *)
Kept(j) == row'[j].status = row[j].status /\ row'[j].attempts = row[j].attempts

Sent(j, from, to) ==
  row[j].status \in from /\ row'[j].status = to /\ row'[j].attempts = row[j].attempts

LEMMA IdleHandler == Idle \in Handler /\ Idle.pc = "idle"
BY MaxAttemptsAssumption DEF Idle, Handler

(* A handler changes; jobs stay alive and mails stay sent.                 *)
LEMMA HandlerChange ==
  ASSUME Shape, NEW s \in Slots, NEW h \in Handler, slot' = [slot EXCEPT ![s] = h],
         \A j \in Jobs : Alive(j) => Alive(j)',
         sent' \in [Mails -> Nat], \A m \in Mails : sent'[m] >= sent[m],
         h.pc # "idle" => h.job \in Jobs /\ Alive(h.job)',
         h.pc = "accepted" => h.job \in Mails /\ sent'[h.job] >= 1
  PROVE  slot' \in [Slots -> Handler] /\ HandlerShape'
<1>1. slot' \in [Slots -> Handler]
  BY DEF Shape, Typed
<1>2. ASSUME NEW t \in Slots
      PROVE  /\ slot'[t].pc # "idle" =>
                  slot'[t].job \in Jobs /\ row'[slot'[t].job].status \notin {"absent", "suppressed"}
             /\ slot'[t].pc = "accepted" => slot'[t].job \in Mails /\ sent'[slot'[t].job] >= 1
  <2>1. CASE t = s
    <3>1. slot'[t] = h
      BY <2>1 DEF Shape, Typed
    <3> QED BY <3>1 DEF Alive
  <2>2. CASE t # s
    <3>1. slot'[t] = slot[t]
      BY <2>2 DEF Shape, Typed
    <3>2. slot[t].pc # "idle" => slot[t].job \in Jobs /\ Alive(slot[t].job)
      BY DEF Shape, HandlerShape
    <3>3. ASSUME slot[t].pc = "accepted"
          PROVE  slot[t].job \in Mails /\ sent'[slot[t].job] >= 1
      <4>1. PICK m \in Mails : m = slot[t].job /\ sent[m] >= 1
        BY <3>3 DEF Shape, HandlerShape
      <4>2. sent[m] \in Nat /\ sent'[m] \in Nat /\ sent'[m] >= sent[m]
        BY DEF Shape, Typed
      <4> QED BY <4>1, <4>2
    <3> QED BY <3>1, <3>2, <3>3 DEF Alive
  <2> QED BY <2>1, <2>2
<1> QED BY <1>1, <1>2 DEF HandlerShape, Alive

LEMMA HandlersKept ==
  ASSUME Shape, slot' = slot, sent' = sent,
         \A j \in Jobs : Alive(j) => Alive(j)'
  PROVE  HandlerShape'
BY DEF Shape, HandlerShape

-----------------------------------------------------------------------------
(* What the actions that change rows do, in these terms.                   *)

(* One row changes.                                                        *)
LEMMA RowChange ==
  ASSUME Typed, NEW j \in Jobs, NEW r \in Rows, row' = [row EXCEPT ![j] = r]
  PROVE  /\ row' \in [Jobs -> Rows] /\ row'[j] = r
         /\ \A k \in Jobs : k # j => row'[k] = row[k] /\ Kept(k)
BY DEF Typed, Kept

LEMMA ClockEffect ==
  ASSUME Shape, NEW j \in Jobs, LeaseRunsOut(j) \/ BecomesDue(j)
  PROVE  row' \in [Jobs -> Rows] /\ \A k \in Jobs : Kept(k)
<1>1. row[j] \in Rows
  BY DEF Shape, Typed
<1>2. PICK r \in {[row[j] EXCEPT !.lease = "expired"], [row[j] EXCEPT !.due = TRUE]} :
        row' = [row EXCEPT ![j] = r]
  BY DEF LeaseRunsOut, BecomesDue
<1>3. r \in Rows /\ r.status = row[j].status /\ r.attempts = row[j].attempts
  BY <1>1, <1>2, ClockRow
<1> QED BY <1>2, <1>3, RowChange DEF Shape, Kept

LEMMA HeartbeatEffect ==
  ASSUME Shape, NEW s \in Slots, Heartbeat(s)
  PROVE  row' \in [Jobs -> Rows] /\ \A k \in Jobs : Kept(k)
<1>1. PICK j \in Jobs : j = slot[s].job
  BY DEF Heartbeat, Shape, HandlerShape
<1>2. row[j] \in Rows
  BY DEF Shape, Typed
<1>3. row' = [row EXCEPT ![j] = [row[j] EXCEPT !.lease = "live"]]
  BY <1>1 DEF Heartbeat
<1>4. PICK r : r = [row[j] EXCEPT !.lease = "live"]
  OBVIOUS
<1>5. r \in Rows /\ r.status = row[j].status /\ r.attempts = row[j].attempts
  BY <1>2, <1>4, ClockRow
<1> QED BY <1>3, <1>4, <1>5, RowChange DEF Shape, Kept

LEMMA ClaimEffect ==
  ASSUME Shape, NEW s \in Slots, NEW j \in Jobs, NEW answered \in BOOLEAN,
         Claim(s, j, answered)
  PROVE  /\ row' \in [Jobs -> Rows] /\ row[j].status \in Waiting
         /\ row'[j].status = "running" /\ row'[j].attempts = row[j].attempts + 1
         /\ row[j].attempts < MaxAttempts /\ row[j].attempts + 1 \in 0..MaxAttempts
         /\ \A k \in Jobs : k # j => Kept(k)
<1>1. row[j] \in Rows /\ row[j].attempts < MaxAttempts /\ WorkerOf[s] \in Workers
      /\ row[j].status \in Waiting
  BY WorkerOfAssumption DEF Shape, Typed, Claim, Free
<1>2. PICK r : r = Taken(row[j], WorkerOf[s])
  OBVIOUS
<1>3. row' = [row EXCEPT ![j] = r]
  BY <1>2 DEF Claim
<1> QED BY <1>1, <1>2, <1>3, TakenRow, RowChange DEF Shape

LEMMA ReconcileEffect ==
  ASSUME Shape, Reconcile
  PROVE  /\ row' \in [Jobs -> Rows]
         /\ \A m \in Mails : Kept(m) \/ Sent(m, {"running"}, "retryable_failed")
                                     \/ Sent(m, {"running"}, "permanently_failed")
         /\ \A e \in Events :
              \/ Kept(e) /\ outbox'[e] = outbox[e]
              \/ Sent(e, {"absent"}, "queued") /\ outbox'[e] = outbox[e]
              \/ /\ Sent(e, {"running"}, "retryable_failed")
                 /\ row[e].attempts < MaxAttempts /\ outbox'[e] = outbox[e]
              \/ Sent(e, {"running"}, "permanently_failed") /\ outbox'[e] = "failed"
<1>1. \A j \in Jobs : row[j] \in Rows
  BY DEF Shape, Typed
<1>2. row' \in [Jobs -> Rows]
  BY <1>1, QueuedRow, SweptRow DEF Reconcile
<1>3. ASSUME NEW m \in Mails
      PROVE  Kept(m) \/ Sent(m, {"running"}, "retryable_failed")
                     \/ Sent(m, {"running"}, "permanently_failed")
  <2>1. m \in Jobs /\ m \notin Unseen
    BY JobsAssumption DEF Jobs, Unseen
  <2>2. row'[m] = Swept(row[m])
    BY <2>1 DEF Reconcile
  <2> QED BY <1>1, <2>1, <2>2, SweptRow DEF Kept, Sent
<1>4. ASSUME NEW e \in Events
      PROVE  \/ Kept(e) /\ outbox'[e] = outbox[e]
             \/ Sent(e, {"absent"}, "queued") /\ outbox'[e] = outbox[e]
             \/ /\ Sent(e, {"running"}, "retryable_failed")
                /\ row[e].attempts < MaxAttempts /\ outbox'[e] = outbox[e]
             \/ Sent(e, {"running"}, "permanently_failed") /\ outbox'[e] = "failed"
  <2>1. e \in Jobs
    BY DEF Jobs
  <2>2. outbox'[e] = IF LeaseLost(row[e]) /\ row[e].attempts = MaxAttempts
                     THEN "failed" ELSE outbox[e]
    BY DEF Reconcile
  <2>3. CASE e \in Unseen
    <3>1. row'[e] = Queued(row[e]) /\ row[e].status = "absent"
      BY <2>1, <2>3 DEF Reconcile, Unseen
    <3>2. ~LeaseLost(row[e])
      BY <3>1 DEF LeaseLost
    <3> QED BY <1>1, <2>1, <2>2, <3>1, <3>2, QueuedRow DEF Sent
  <2>4. CASE e \notin Unseen
    <3>1. row'[e] = Swept(row[e])
      BY <2>1, <2>4 DEF Reconcile
    <3> QED BY <1>1, <2>1, <2>2, <3>1, SweptRow DEF Kept, Sent
  <2> QED BY <2>3, <2>4
<1> QED BY <1>2, <1>3, <1>4

(* The event of a fan-out is completed, and the deliveries of those it     *)
(* reaches are made.                                                       *)
LEMMA FanOutRows ==
  ASSUME Shape, NEW e \in Events, FanOutEffect(e)
  PROVE  /\ row' \in [Jobs -> Rows]
         /\ row'[e].status = "completed" /\ row'[e].attempts = row[e].attempts
         /\ \A f \in Events : f # e => Kept(f)
         /\ \A m \in Mails :
              \/ Kept(m) /\ (Alive(m) \/ row[m].status = "suppressed" \/ m \notin {e} \X Reached(e))
              \/ /\ m \in {e} \X Reached(e)
                 /\ Sent(m, {"absent"}, "queued") \/ Sent(m, {"absent"}, "suppressed")
<1>1. \A j \in Jobs : row[j] \in Rows
  BY DEF Shape, Typed
<1>2. \A j \in Jobs : row'[j] = IF j = e THEN Ended(row[e], "completed")
                                ELSE IF j \in {e} \X Reached(e) THEN Delivery(j) ELSE row[j]
  BY DEF FanOutEffect
<1>3. e \in Jobs /\ row'[e] = Ended(row[e], "completed")
  BY <1>2 DEF Jobs
<1>4. /\ Ended(row[e], "completed") \in Rows
      /\ Ended(row[e], "completed").status = "completed"
      /\ Ended(row[e], "completed").attempts = row[e].attempts
  BY <1>1, <1>3, EndedRow DEF Ends
<1>5. ASSUME NEW m \in Mails
      PROVE  /\ row'[m] \in Rows
             /\ \/ Kept(m) /\ (Alive(m) \/ row[m].status = "suppressed" \/ m \notin {e} \X Reached(e))
                \/ /\ m \in {e} \X Reached(e)
                   /\ Sent(m, {"absent"}, "queued") \/ Sent(m, {"absent"}, "suppressed")
  <2>1. m \in Jobs /\ m # e
    BY JobsAssumption DEF Jobs
  <2>2. CASE m \in {e} \X Reached(e)
    <3>1. row'[m] = Delivery(m)
      BY <1>2, <2>1, <2>2
    <3>2. CASE row[m].status # "absent"
      BY <1>1, <2>1, <3>1, <3>2 DEF Delivery, Kept, Alive
    <3>3. CASE row[m].status = "absent"
      <4>1. row'[m] \in {Queued(row[m]), Ended(row[m], "suppressed")}
        BY <3>1, <3>3 DEF Delivery
      <4> QED BY <1>1, <2>1, <2>2, <3>3, <4>1, QueuedRow, EndedRow DEF Sent, Ends
    <3> QED BY <3>2, <3>3
  <2>3. CASE m \notin {e} \X Reached(e)
    BY <1>1, <1>2, <2>1, <2>3 DEF Kept
  <2> QED BY <2>2, <2>3
<1>6. ASSUME NEW f \in Events, f # e PROVE row'[f] = row[f]
  <2>1. f \in Jobs /\ f \notin {e} \X Reached(e)
    BY JobsAssumption DEF Jobs, Mails, Reached, Shape, Typed
  <2> QED BY <1>2, <1>6, <2>1
<1>7. row' \in [Jobs -> Rows]
  <2>1. \A j \in Jobs : row'[j] \in Rows
    BY <1>1, <1>3, <1>4, <1>5, <1>6 DEF Jobs
  <2> QED BY <2>1 DEF FanOutEffect
<1> QED BY <1>3, <1>4, <1>5, <1>6, <1>7 DEF Kept

LEMMA CompleteEffect ==
  ASSUME Shape, NEW s \in Slots, NEW answered \in BOOLEAN, CompleteEmail(s, answered)
  PROVE  /\ row' \in [Jobs -> Rows] /\ slot[s].job \in Mails
         /\ sent[slot[s].job] >= 1
         /\ Sent(slot[s].job, {"running"}, "completed")
         /\ \A k \in Jobs : k # slot[s].job => Kept(k)
<1>1. PICK m \in Mails : m = slot[s].job
  BY DEF CompleteEmail, Shape, HandlerShape
<1>2. m \in Jobs /\ row[m] \in Rows /\ row[m].status = "running" /\ sent[m] >= 1
  BY <1>1 DEF CompleteEmail, Holds, Jobs, Shape, Typed, HandlerShape
<1>3. PICK r : r = Ended(row[m], "completed")
  OBVIOUS
<1>4. row' = [row EXCEPT ![m] = r]
  BY <1>1, <1>3 DEF CompleteEmail
<1>5. r \in Rows /\ r.status = "completed" /\ r.attempts = row[m].attempts
  BY <1>2, <1>3, EndedRow DEF Ends
<1> QED BY <1>1, <1>2, <1>4, <1>5, RowChange DEF Shape, Sent

LEMMA FailureEffect ==
  ASSUME Shape, NEW s \in Slots, RecordFailure(s)
  PROVE  /\ row' \in [Jobs -> Rows] /\ slot[s].job \in Jobs
         /\ \/ /\ Retries(s) /\ Sent(slot[s].job, {"running"}, "retryable_failed")
               /\ slot[s].job \in Events => row[slot[s].job].attempts < MaxAttempts
            \/ ~Retries(s) /\ Sent(slot[s].job, {"running"}, "permanently_failed")
         /\ \A k \in Jobs : k # slot[s].job => Kept(k)
<1>1. PICK j \in Jobs : j = slot[s].job
  BY DEF RecordFailure, Shape, HandlerShape
<1>2. row[j] \in Rows /\ row[j].status = "running"
  BY <1>1 DEF RecordFailure, Holds, Shape, Typed
<1>3. PICK r : r = IF Retries(s) THEN Retried(row[j], FALSE)
                   ELSE Ended(row[j], "permanently_failed")
  OBVIOUS
<1>4. row' = [row EXCEPT ![j] = r]
  BY <1>1, <1>3 DEF RecordFailure
<1>5. /\ r \in Rows /\ r.attempts = row[j].attempts
      /\ r.status = IF Retries(s) THEN "retryable_failed" ELSE "permanently_failed"
  BY <1>2, <1>3, RetriedRow, EndedRow DEF Ends
<1>6. Retries(s) /\ j \in Events => row[j].attempts < MaxAttempts
  BY <1>1, <1>2, MaxAttemptsAssumption DEF Retries, Rows, Row
<1> QED BY <1>1, <1>2, <1>4, <1>5, <1>6, RowChange DEF Shape, Sent

-----------------------------------------------------------------------------
LEMMA ShapeInit == Init => Shape
<1> SUFFICES ASSUME Init PROVE Shape
  OBVIOUS
<1>1. Absent \in Rows
  BY MaxAttemptsAssumption DEF Absent, Rows, Row, Statuses
<1>2. Typed
  BY <1>1, IdleHandler DEF Init, Typed
<1>3. HandlerShape
  BY IdleHandler DEF Init, HandlerShape
<1> QED BY <1>2, <1>3 DEF Shape

(* The next handler of a step that goes on or fails.                       *)
LEMMA ProceedsHandler ==
  ASSUME Shape, NEW s \in Slots, slot[s].pc # "idle", NEW answered \in BOOLEAN,
         NEW next \in Handler, Proceeds(s, answered, next)
  PROVE  \E h \in Handler :
           /\ slot' = [slot EXCEPT ![s] = h]
           /\ h = next \/ (h.pc = "failing" /\ h.job = slot[s].job)
           /\ answered => h = next
<1>1. PICK f : f = [slot[s] EXCEPT !.pc = "failing"]
  OBVIOUS
<1>2. f \in Handler /\ f.pc = "failing" /\ f.job = slot[s].job
  BY <1>1 DEF Shape, Typed, Handler
<1>3. CASE answered
  <2>1. slot' = [slot EXCEPT ![s] = next]
    BY <1>3 DEF Proceeds
  <2> QED BY <2>1
<1>4. CASE ~answered
  BY <1>1, <1>2, <1>4 DEF Proceeds, Shape, Typed
<1> QED BY <1>3, <1>4

LEMMA ShapeStep ==
  ASSUME Shape, [Next]_vars
  PROVE  Shape'
<1>t. Typed /\ HandlerShape
  BY DEF Shape
<1> USE DEF Typed
<1>a. ASSUME \A j \in Jobs : Kept(j) PROVE \A j \in Jobs : Alive(j) => Alive(j)'
  BY <1>a DEF Kept, Alive
<1>m. ASSUME sent' = sent
      PROVE  sent' \in [Mails -> Nat] /\ \A m \in Mails : sent'[m] >= sent[m]
  <2>1. \A m \in Mails : sent[m] \in Nat
    BY <1>t
  <2> QED BY <1>m, <2>1, <1>t
<1>1. ASSUME NEW e \in Events, Emit(e) PROVE Shape'
  BY <1>1, <1>t, HandlersKept DEF Emit, Shape, Alive
<1>2. ASSUME NEW u \in Users, ChangesAccess(u) \/ ChangesMail(u) PROVE Shape'
  <2>1. scope' \subseteq Users /\ wantsMail' \subseteq Users
    BY <1>2, <1>t DEF ChangesAccess, ChangesMail, Toggled, tables
  <2> QED BY <2>1, <1>2, <1>t, HandlersKept DEF ChangesAccess, ChangesMail, Shape, Alive, tables
<1>3. ASSUME NEW j \in Jobs, LeaseRunsOut(j) \/ BecomesDue(j) PROVE Shape'
  <2>1. row' \in [Jobs -> Rows] /\ \A k \in Jobs : Kept(k)
    BY <1>3, ClockEffect
  <2>2. UNCHANGED <<outbox, notified, scope, wantsMail, sent, slot>>
    BY <1>3 DEF LeaseRunsOut, BecomesDue
  <2>3. HandlerShape'
    BY <2>1, <2>2, <1>a, HandlersKept
  <2> QED BY <2>1, <2>2, <2>3, <1>t DEF Shape
<1>4. ASSUME Reconcile PROVE Shape'
  <2>1. row' \in [Jobs -> Rows]
    BY <1>4, ReconcileEffect
  <2>2. UNCHANGED <<notified, scope, wantsMail, sent, slot>>
    BY <1>4 DEF Reconcile
  <2>3. outbox' \in [Events -> {"absent", "pending", "published", "failed"}]
    BY <1>4, <1>t DEF Reconcile
  <2>4. \A j \in Jobs : Alive(j) => Alive(j)'
    BY <1>4, ReconcileEffect DEF Jobs, Kept, Sent, Alive
  <2>5. HandlerShape'
    BY <2>2, <2>4, HandlersKept
  <2> QED BY <2>1, <2>2, <2>3, <2>5, <1>t DEF Shape
<1>5. ASSUME NEW s \in Slots, NEW j \in Jobs, NEW answered \in BOOLEAN,
             Claim(s, j, answered)
      PROVE  Shape'
  <2>1. /\ row' \in [Jobs -> Rows] /\ row'[j].status = "running"
        /\ \A k \in Jobs : k # j => Kept(k)
        /\ row[j].attempts + 1 \in 0..MaxAttempts
    BY <1>5, ClaimEffect
  <2>2. UNCHANGED <<outbox, notified, scope, wantsMail, sent>>
    BY <1>5 DEF Claim
  <2>3. Alive(j)' /\ \A k \in Jobs : Alive(k) => Alive(k)'
    BY <2>1 DEF Kept, Alive
  <2>4. PICK h : h = IF answered
                     THEN [Idle EXCEPT !.pc = "working", !.job = j,
                                       !.attempts = row[j].attempts + 1]
                     ELSE Idle
    OBVIOUS
  <2>5. /\ h \in Handler /\ h.pc \in {"idle", "working"}
        /\ h.pc # "idle" => h.job = j
    BY <2>1, <2>4, IdleHandler DEF Idle, Handler
  <2>6. slot' = [slot EXCEPT ![s] = h]
    BY <1>5, <2>4 DEF Claim
  <2>7. slot' \in [Slots -> Handler] /\ HandlerShape'
    BY <2>2, <2>3, <2>5, <2>6, <1>m, HandlerChange
  <2> QED BY <2>1, <2>2, <2>7, <1>t DEF Shape
<1>6. ASSUME NEW s \in Slots, Heartbeat(s) PROVE Shape'
  <2>1. row' \in [Jobs -> Rows] /\ \A k \in Jobs : Kept(k)
    BY <1>6, HeartbeatEffect
  <2>2. UNCHANGED <<outbox, notified, scope, wantsMail, sent, slot>>
    BY <1>6 DEF Heartbeat
  <2>3. HandlerShape'
    BY <2>1, <2>2, <1>a, HandlersKept
  <2> QED BY <2>1, <2>2, <2>3, <1>t DEF Shape
<1>7. ASSUME NEW s \in Slots, NEW answered \in BOOLEAN, FanOut(s, answered)
      PROVE  Shape'
  <2>1. PICK e \in Events : e = slot[s].job
    BY <1>7 DEF FanOut
  <2>2. FanOutEffect(e) /\ UNCHANGED <<scope, wantsMail, sent>> /\ slot[s].pc = "working"
    BY <1>7, <2>1 DEF FanOut
  <2>3. row' \in [Jobs -> Rows]
    BY <2>2, FanOutRows
  <2>4. \A j \in Jobs : Alive(j) => Alive(j)'
    BY <2>2, FanOutRows DEF Jobs, Kept, Sent, Alive
  <2>5. /\ notified' \in [Events -> SUBSET Users]
        /\ outbox' \in [Events -> {"absent", "pending", "published", "failed"}]
    BY <2>2, <1>t, RecipientsAssumption DEF FanOutEffect, Reached
  <2>6. PICK h \in Handler :
          /\ slot' = [slot EXCEPT ![s] = h]
          /\ h = Idle \/ (h.pc = "failing" /\ h.job = slot[s].job)
    BY <1>7, <2>2, IdleHandler, ProceedsHandler DEF FanOut
  <2>7. slot[s].job \in Jobs /\ Alive(slot[s].job)
    BY <2>2, <1>t DEF HandlerShape
  <2>8. slot' \in [Slots -> Handler] /\ HandlerShape'
    <3>1. h.pc # "idle" => h.job \in Jobs /\ Alive(h.job)'
      BY <2>4, <2>6, <2>7, IdleHandler
    <3>2. h.pc # "accepted"
      BY <2>6, IdleHandler
    <3> QED BY <2>2, <2>4, <2>6, <3>1, <3>2, <1>m, HandlerChange
  <2> QED BY <2>2, <2>3, <2>5, <2>8, <1>t DEF Shape
<1>s. ASSUME NEW s \in Slots, NEW h \in Handler, slot' = [slot EXCEPT ![s] = h],
             UNCHANGED <<tables, scope, wantsMail, sent>>, slot[s].pc # "idle",
             h.pc # "idle" => h.job = slot[s].job, h.pc # "accepted"
      PROVE  Shape'
  <2>1. \A j \in Jobs : Alive(j) => Alive(j)'
    BY <1>s DEF tables, Alive
  <2>2. slot[s].job \in Jobs /\ Alive(slot[s].job)
    BY <1>s, <1>t DEF HandlerShape
  <2>3. slot' \in [Slots -> Handler] /\ HandlerShape'
    <3>1. h.pc # "idle" => h.job \in Jobs /\ Alive(h.job)'
      BY <1>s, <2>1, <2>2
    <3> QED BY <1>s, <2>1, <3>1, <1>m, HandlerChange
  <2> QED BY <1>s, <2>3, <1>t DEF Shape, tables
<1>8. ASSUME NEW s \in Slots, FanOutLate(s) \/ FailureNotRecorded(s) PROVE Shape'
  BY <1>8, <1>s, IdleHandler DEF FanOutLate, FailureNotRecorded
<1>9. ASSUME NEW s \in Slots, NEW answered \in BOOLEAN, Send(s, answered) PROVE Shape'
  <2>1. PICK m \in Mails : m = slot[s].job
    BY <1>9 DEF Send
  <2>2. /\ sent' = [sent EXCEPT ![m] = sent[m] + 1] /\ slot[s].pc = "working"
        /\ UNCHANGED <<tables, scope, wantsMail>>
    BY <1>9, <2>1 DEF Send
  <2>3. /\ sent' \in [Mails -> Nat] /\ sent'[m] >= 1
        /\ \A n \in Mails : sent'[n] >= sent[n]
    BY <2>2, <1>t
  <2>4. m \in Jobs /\ Alive(m) /\ \A j \in Jobs : Alive(j) => Alive(j)'
    BY <2>1, <2>2, <1>t DEF HandlerShape, tables, Alive, Jobs
  <2>5. PICK next : next = [slot[s] EXCEPT !.pc = "accepted"]
    OBVIOUS
  <2>6. next \in Handler /\ next.job = m /\ next.pc = "accepted"
    BY <2>1, <2>5, <1>t DEF Handler
  <2>7. PICK h \in Handler :
          /\ slot' = [slot EXCEPT ![s] = h]
          /\ h = next \/ (h.pc = "failing" /\ h.job = slot[s].job)
    BY <1>9, <2>2, <2>5, <2>6, ProceedsHandler DEF Send
  <2>8. slot' \in [Slots -> Handler] /\ HandlerShape'
    BY <2>1, <2>3, <2>4, <2>6, <2>7, HandlerChange
  <2> QED BY <2>2, <2>3, <2>8, <1>t DEF Shape, tables
<1>10. ASSUME NEW s \in Slots, NEW answered \in BOOLEAN, CompleteEmail(s, answered)
       PROVE  Shape'
  <2>1. /\ row' \in [Jobs -> Rows] /\ slot[s].job \in Mails
        /\ Sent(slot[s].job, {"running"}, "completed")
        /\ \A k \in Jobs : k # slot[s].job => Kept(k)
    BY <1>10, CompleteEffect
  <2>2. /\ UNCHANGED <<outbox, notified, scope, wantsMail, sent>>
        /\ slot[s].pc = "accepted"
    BY <1>10 DEF CompleteEmail
  <2>3. \A j \in Jobs : Alive(j) => Alive(j)'
    BY <2>1 DEF Sent, Kept, Alive
  <2>4. PICK h \in Handler :
          /\ slot' = [slot EXCEPT ![s] = h]
          /\ h = Idle \/ (h.pc = "failing" /\ h.job = slot[s].job)
    BY <1>10, <2>2, IdleHandler, ProceedsHandler DEF CompleteEmail
  <2>5. slot[s].job \in Jobs /\ Alive(slot[s].job)
    BY <2>2, <1>t DEF HandlerShape
  <2>6. slot' \in [Slots -> Handler] /\ HandlerShape'
    <3>1. h.pc # "idle" => h.job \in Jobs /\ Alive(h.job)'
      BY <2>3, <2>4, <2>5, IdleHandler
    <3>2. h.pc # "accepted"
      BY <2>4, IdleHandler
    <3> QED BY <2>2, <2>3, <2>4, <3>1, <3>2, <1>m, HandlerChange
  <2> QED BY <2>1, <2>2, <2>6, <1>t DEF Shape
<1>11. ASSUME NEW s \in Slots, NEW retryable \in BOOLEAN, Throws(s, retryable)
       PROVE  Shape'
  <2>1. PICK h : h = [slot[s] EXCEPT !.pc = "failing", !.retryable = retryable]
    OBVIOUS
  <2>2. h \in Handler /\ h.pc = "failing" /\ h.job = slot[s].job
    BY <2>1, <1>t DEF Handler
  <2>3. slot' = [slot EXCEPT ![s] = h]
    BY <1>11, <2>1, <1>t DEF Throws
  <2> QED BY <1>11, <2>2, <2>3, <1>s DEF Throws
<1>12. ASSUME NEW s \in Slots, RecordFailure(s) PROVE Shape'
  <2>1. /\ row' \in [Jobs -> Rows] /\ slot[s].job \in Jobs
        /\ \A k \in Jobs : k # slot[s].job => Kept(k)
        /\ row'[slot[s].job].status \in {"retryable_failed", "permanently_failed"}
    BY <1>12, FailureEffect DEF Sent
  <2>2. UNCHANGED <<notified, scope, wantsMail, sent>> /\ slot' = [slot EXCEPT ![s] = Idle]
    BY <1>12 DEF RecordFailure
  <2>3. outbox' \in [Events -> {"absent", "pending", "published", "failed"}]
    BY <1>12, <1>t DEF RecordFailure
  <2>4. \A j \in Jobs : Alive(j) => Alive(j)'
    BY <2>1 DEF Kept, Alive
  <2>5. slot' \in [Slots -> Handler] /\ HandlerShape'
    BY <2>2, <2>4, <1>m, IdleHandler, HandlerChange
  <2> QED BY <2>1, <2>2, <2>3, <2>5, <1>t DEF Shape
<1>13. ASSUME NEW w \in Workers, Crash(w) PROVE Shape'
  <2>1. /\ slot' = [s \in Slots |-> IF WorkerOf[s] = w THEN Idle ELSE slot[s]]
        /\ UNCHANGED <<tables, scope, wantsMail, sent>>
    BY <1>13 DEF Crash
  <2> QED BY <2>1, <1>t, IdleHandler DEF Shape, HandlerShape, Alive, tables
<1>14. CASE UNCHANGED vars
  BY <1>14, <1>t DEF vars, tables, Shape, HandlerShape, Alive
<1> QED
  BY <1>1, <1>2, <1>3, <1>4, <1>5, <1>6, <1>7, <1>8, <1>9, <1>10, <1>11, <1>12, <1>13, <1>14
     DEF Next, Handle

-----------------------------------------------------------------------------
(* A fan-out happens completely or not at all.                             *)

(* The dispatches and the outbox stay as they are, and so does the         *)
(* existence of the deliveries.                                            *)
SameFanOut(e) ==
  /\ \A status \in {"published", "failed"} :
       outbox'[e] = status <=> outbox[e] = status
  /\ \A status \in {"completed", "permanently_failed"} :
       row'[e].status = status <=> row[e].status = status
  /\ notified'[e] = notified[e]

SameDeliveries(e) ==
  \A u \in Users : row'[<<e, u>>].status = "absent" <=> row[<<e, u>>].status = "absent"

Whole(e) ==
  /\ outbox[e] = "published" <=> row[e].status = "completed"
  /\ outbox[e] = "failed" <=> row[e].status = "permanently_failed"
  /\ outbox[e] # "published" => notified[e] = {}
  /\ notified[e] \subseteq Recipients[e]
  /\ \A u \in Users : u \in notified[e] <=> row[<<e, u>>].status # "absent"

LEMMA WholeQuiet ==
  ASSUME NEW e \in Events, Whole(e), SameFanOut(e), SameDeliveries(e)
  PROVE  Whole(e)'
<1>1. /\ outbox'[e] = "published" <=> outbox[e] = "published"
      /\ outbox'[e] = "failed" <=> outbox[e] = "failed"
      /\ row'[e].status = "completed" <=> row[e].status = "completed"
      /\ row'[e].status = "permanently_failed" <=> row[e].status = "permanently_failed"
      /\ notified'[e] = notified[e]
  BY DEF SameFanOut
<1> QED BY <1>1 DEF Whole, SameDeliveries

LEMMA QuietFanOut ==
  ASSUME FanOutAtomic,
         \A e \in Events : SameFanOut(e) /\ SameDeliveries(e)
  PROVE  FanOutAtomic'
<1>1. \A e \in Events : Whole(e)
  BY DEF FanOutAtomic, Whole
<1>2. \A e \in Events : Whole(e)'
  BY <1>1, WholeQuiet
<1> QED BY <1>2 DEF FanOutAtomic, Whole

LEMMA JobKinds ==
  /\ \A e \in Events : e \in Jobs /\ e \notin Mails
  /\ \A e \in Events, u \in Users : <<e, u>> \in Mails /\ <<e, u>> \in Jobs
  /\ \A m \in Mails : m \in Jobs /\ m \notin Events
BY JobsAssumption DEF Jobs, Mails

(* The ending of one dispatch without a fan-out.                           *)
LEMMA FanOutFails ==
  ASSUME FanOutAtomic, NEW e \in Events, notified'[e] = notified[e],
         outbox'[e] = "failed", row'[e].status = "permanently_failed",
         row[e].status = "running", SameDeliveries(e)
  PROVE  /\ outbox'[e] = "published" <=> row'[e].status = "completed"
         /\ outbox'[e] = "failed" <=> row'[e].status = "permanently_failed"
         /\ outbox'[e] # "published" => notified'[e] = {}
         /\ notified'[e] \subseteq Recipients[e]
         /\ \A u \in Users : u \in notified'[e] <=> row'[<<e, u>>].status # "absent"
BY DEF FanOutAtomic, SameDeliveries

LEMMA AtomicInit == Init => FanOutAtomic
BY JobKinds DEF Init, Absent, FanOutAtomic

LEMMA AtomicStep ==
  ASSUME Shape, FanOutAtomic, [Next]_vars
  PROVE  FanOutAtomic'
<1>t. Typed /\ HandlerShape
  BY DEF Shape
<1>w. \A e \in Events : Whole(e)
  BY DEF FanOutAtomic, Whole
<1>q. ASSUME \A e \in Events : Whole(e)' PROVE FanOutAtomic'
  BY <1>q DEF FanOutAtomic, Whole
<1>1. ASSUME NEW e \in Events, Emit(e) PROVE FanOutAtomic'
  BY <1>1, <1>t, QuietFanOut DEF Emit, Typed, SameFanOut, SameDeliveries
<1>2. ASSUME UNCHANGED tables PROVE FanOutAtomic'
  BY <1>2, QuietFanOut DEF tables, SameFanOut, SameDeliveries
<1>3. ASSUME \A j \in Jobs : Kept(j), UNCHANGED <<outbox, notified>> PROVE FanOutAtomic'
  BY <1>3, JobKinds, QuietFanOut DEF Kept, SameFanOut, SameDeliveries
<1>4. ASSUME Reconcile PROVE FanOutAtomic'
  <2>1. \A e \in Events : SameDeliveries(e)
    BY <1>4, JobKinds, ReconcileEffect DEF Kept, Sent, SameDeliveries
  <2>2. notified' = notified
    BY <1>4 DEF Reconcile
  <2>3. \A e \in Events :
          \/ SameFanOut(e)
          \/ /\ row[e].status = "running" /\ row'[e].status = "permanently_failed"
             /\ outbox'[e] = "failed"
    BY <1>4, <2>2, ReconcileEffect DEF Kept, Sent, SameFanOut
  <2>4. ASSUME NEW e \in Events PROVE Whole(e)'
    <3>1. CASE SameFanOut(e)
      BY <2>1, <3>1, <1>w, WholeQuiet
    <3>2. CASE ~SameFanOut(e)
      BY <2>1, <2>2, <2>3, <3>2, FanOutFails DEF Whole
    <3> QED BY <3>1, <3>2
  <2> QED BY <2>4, <1>q
<1>5. ASSUME NEW s \in Slots, NEW j \in Jobs, NEW answered \in BOOLEAN,
             Claim(s, j, answered)
      PROVE  FanOutAtomic'
  <2>1. /\ row[j].status \in Waiting /\ row'[j].status = "running"
        /\ \A k \in Jobs : k # j => Kept(k)
    BY <1>5, ClaimEffect
  <2>2. \A e \in Events : SameFanOut(e) /\ SameDeliveries(e)
    BY <1>5, <2>1, JobKinds DEF Claim, Waiting, Kept, SameFanOut, SameDeliveries
  <2> QED BY <2>2, QuietFanOut
<1>6. ASSUME NEW s \in Slots, NEW answered \in BOOLEAN, FanOut(s, answered)
      PROVE  FanOutAtomic'
  <2>1. PICK f \in Events : f = slot[s].job
    BY <1>6 DEF FanOut
  <2>2. FanOutEffect(f) /\ row[f].status = "running"
    BY <1>6, <2>1 DEF FanOut, Holds
  <2>3. /\ notified'[f] = notified[f] \cup Reached(f) /\ outbox'[f] = "published"
        /\ \A e \in Events : e # f => notified'[e] = notified[e] /\ outbox'[e] = outbox[e]
    BY <2>2, <1>t DEF FanOutEffect, Typed
  <2>4. ASSUME NEW e \in Events, e # f PROVE Whole(e)'
    <3>1. \A u \in Users : <<e, u>> \in Mails /\ <<e, u>> \notin {f} \X Reached(f)
      BY <2>4, JobKinds
    <3>2. Kept(e) /\ \A u \in Users : Kept(<<e, u>>)
      BY <2>2, <2>4, <3>1, FanOutRows
    <3> QED BY <2>3, <2>4, <3>2, <1>w DEF Whole, Kept
  <2>5. Whole(f)'
    <3>1. row'[f].status = "completed"
      BY <2>2, FanOutRows
    <3>2. notified[f] = {} /\ \A u \in Users : row[<<f, u>>].status = "absent"
      BY <2>2 DEF FanOutAtomic
    <3>3. ASSUME NEW u \in Users
          PROVE  u \in Reached(f) <=> row'[<<f, u>>].status # "absent"
      <4>1. <<f, u>> \in Mails
        BY JobKinds
      <4>2. <<f, u>> \in {f} \X Reached(f) <=> u \in Reached(f)
        OBVIOUS
      <4>3. CASE u \in Reached(f)
        <5>1. PICK m \in Mails : m = <<f, u>> /\ m \in {f} \X Reached(f)
          BY <4>1, <4>2, <4>3
        <5>2. row[m].status = "absent"
          BY <3>2, <5>1
        <5>3. ~Alive(m) /\ row[m].status # "suppressed"
          BY <5>2 DEF Alive
        <5>4. Sent(m, {"absent"}, "queued") \/ Sent(m, {"absent"}, "suppressed")
          BY <2>2, <5>1, <5>3, FanOutRows
        <5> QED BY <4>3, <5>1, <5>4 DEF Sent
      <4>4. CASE u \notin Reached(f)
        <5>1. Kept(<<f, u>>)
          BY <2>2, <4>1, <4>2, <4>4, FanOutRows
        <5> QED BY <3>2, <4>4, <5>1 DEF Kept
      <4> QED BY <4>3, <4>4
    <3>4. Reached(f) \subseteq Recipients[f]
      BY DEF Reached
    <3> QED BY <2>3, <3>1, <3>2, <3>3, <3>4 DEF Whole
  <2> QED BY <2>4, <2>5, <1>q
<1>7. ASSUME NEW s \in Slots, NEW answered \in BOOLEAN, CompleteEmail(s, answered)
      PROVE  FanOutAtomic'
  <2>1. PICK m \in Mails : m = slot[s].job
    BY <1>7, CompleteEffect
  <2>2. Sent(m, {"running"}, "completed") /\ \A k \in Jobs : k # m => Kept(k)
    BY <1>7, <2>1, CompleteEffect
  <2>3. \A e \in Events : SameFanOut(e) /\ SameDeliveries(e)
    BY <1>7, <2>2, JobKinds DEF CompleteEmail, Kept, Sent, SameFanOut, SameDeliveries
  <2> QED BY <2>3, QuietFanOut
<1>8. ASSUME NEW s \in Slots, RecordFailure(s) PROVE FanOutAtomic'
  <2>1. PICK j \in Jobs : j = slot[s].job
    BY <1>8, FailureEffect
  <2>2. /\ row[j].status = "running"
        /\ row'[j].status = IF Retries(s) THEN "retryable_failed" ELSE "permanently_failed"
        /\ \A k \in Jobs : k # j => Kept(k)
    BY <1>8, <2>1, FailureEffect DEF Sent
  <2>3. /\ \A e \in Events : outbox'[e] = IF e = j /\ ~Retries(s) THEN "failed" ELSE outbox[e]
        /\ notified' = notified
    BY <1>8, <2>1 DEF RecordFailure
  <2>4. \A e \in Events : SameDeliveries(e)
    BY <2>2, JobKinds DEF SameDeliveries, Kept
  <2>5. ASSUME NEW e \in Events PROVE Whole(e)'
    <3>1. CASE e = j /\ ~Retries(s)
      BY <2>2, <2>3, <2>4, <3>1, FanOutFails DEF Whole
    <3>2. CASE e # j \/ Retries(s)
      <4>1. SameFanOut(e)
        BY <2>2, <2>3, <3>2, JobKinds DEF SameFanOut, Kept
      <4> QED BY <2>4, <4>1, <1>w, WholeQuiet
    <3> QED BY <3>1, <3>2
  <2> QED BY <2>5, <1>q
<1>9. ASSUME NEW j \in Jobs, LeaseRunsOut(j) \/ BecomesDue(j) PROVE FanOutAtomic'
  BY <1>9, <1>3, ClockEffect DEF LeaseRunsOut, BecomesDue
<1>10. ASSUME NEW s \in Slots, Heartbeat(s) PROVE FanOutAtomic'
  BY <1>10, <1>3, HeartbeatEffect DEF Heartbeat
<1> QED
  BY <1>1, <1>2, <1>4, <1>5, <1>6, <1>7, <1>8, <1>9, <1>10
     DEF Next, Handle, ChangesAccess, ChangesMail, FanOutLate, Send, Throws,
         FailureNotRecorded, Crash, vars, tables

-----------------------------------------------------------------------------
(* Mail is accounted for: a handler that is about to send holds one of the *)
(* attempts of the delivery, so sent copies and pending sends together     *)
(* never exceed the attempts.                                              *)
Trying(m) == {s \in Slots : slot[s].pc = "working" /\ slot[s].job = m}

Accounted(m) ==
  /\ IsFiniteSet(Trying(m))
  /\ sent[m] + Cardinality(Trying(m)) <= row[m].attempts
  /\ row[m].status = "completed" => sent[m] >= 1
  /\ row[m].status \in {"absent", "suppressed"} => sent[m] = 0

Accounts == \A m \in Mails : Accounted(m)

LEMMA Numbers ==
  ASSUME Typed, NEW m \in Mails
  PROVE  sent[m] \in Nat /\ row[m].attempts \in 0..MaxAttempts
         /\ row[m].attempts \in Nat /\ MaxAttempts \in Nat
BY JobKinds, MaxAttemptsAssumption DEF Typed, Rows, Row

(* Nothing is sent and no handler starts to try.                           *)
LEMMA QuietAccounts ==
  ASSUME Typed, NEW m \in Mails, Accounted(m), Trying(m)' \subseteq Trying(m),
         sent'[m] = sent[m], row'[m].attempts = row[m].attempts,
         row'[m].status = "completed" =>
           row[m].status = "completed" \/ sent[m] >= 1,
         row'[m].status \in {"absent", "suppressed"} =>
           row[m].status \in {"absent", "suppressed"}
  PROVE  Accounted(m)'
<1>1. PICK before : before = Trying(m)
  OBVIOUS
<1>2. PICK after : after = Trying(m)'
  OBVIOUS
<1>3. IsFiniteSet(before) /\ after \subseteq before
  BY <1>1, <1>2 DEF Accounted
<1>4. IsFiniteSet(after) /\ Cardinality(after) <= Cardinality(before)
  BY <1>3, FS_Subset
<1>5. Cardinality(after) \in Nat /\ Cardinality(before) \in Nat
  BY <1>3, <1>4, FS_CardinalityType
<1>6. sent[m] \in Nat /\ row[m].attempts \in Nat
  BY Numbers
<1>7. sent[m] + Cardinality(before) <= row[m].attempts
  BY <1>1 DEF Accounted
<1>8. sent[m] + Cardinality(after) <= row[m].attempts
  BY <1>4, <1>5, <1>6, <1>7
<1>9. IsFiniteSet(Trying(m)') /\ sent'[m] + Cardinality(Trying(m)') <= row'[m].attempts
  BY <1>2, <1>4, <1>8
<1> QED BY <1>9 DEF Accounted

(* A handler that stops, or goes on to another stage, does not try.        *)
LEMMA TryingShrinks ==
  ASSUME Typed, NEW m \in Mails, NEW s \in Slots, NEW h \in Handler,
         slot' = [slot EXCEPT ![s] = h], h.pc = "working" => h.job # m
  PROVE  Trying(m)' \subseteq Trying(m) \ {s}
BY DEF Typed, Trying

LEMMA AccountsInit == Init => Accounts
<1> SUFFICES ASSUME Init, NEW m \in Mails PROVE Accounted(m)
  BY DEF Accounts
<1>1. Trying(m) = {}
  BY DEF Init, Idle, Trying
<1>2. sent[m] = 0 /\ row[m].attempts = 0 /\ row[m].status = "absent"
  BY JobKinds DEF Init, Absent
<1>3. IsFiniteSet(Trying(m)) /\ Cardinality(Trying(m)) = 0
  BY <1>1, FS_EmptySet
<1> QED BY <1>2, <1>3 DEF Accounted

LEMMA AccountsStep ==
  ASSUME Shape, Accounts, [Next]_vars
  PROVE  Accounts'
<1>t. Typed /\ HandlerShape
  BY DEF Shape
<1> SUFFICES ASSUME NEW m \in Mails PROVE Accounted(m)'
  BY DEF Accounts
<1>m. Accounted(m) /\ m \in Jobs /\ m \notin Events
  BY JobKinds DEF Accounts
<1>1. ASSUME Kept(m), Trying(m)' \subseteq Trying(m), sent' = sent PROVE Accounted(m)'
  BY <1>1, <1>t, <1>m, QuietAccounts DEF Kept
<1>2. ASSUME \A k \in Jobs : Kept(k), UNCHANGED <<sent, slot>> PROVE Accounted(m)'
  BY <1>1, <1>2, <1>m DEF Trying
<1>3. ASSUME UNCHANGED row, UNCHANGED sent, Trying(m)' \subseteq Trying(m)
      PROVE  Accounted(m)'
  BY <1>1, <1>3, <1>m DEF Kept
<1>4. ASSUME Reconcile PROVE Accounted(m)'
  <2>1. Trying(m)' = Trying(m) /\ sent' = sent
    BY <1>4 DEF Reconcile, Trying
  <2>2. Kept(m) \/ Sent(m, {"running"}, "retryable_failed")
                \/ Sent(m, {"running"}, "permanently_failed")
    BY <1>4, ReconcileEffect
  <2> QED BY <2>1, <2>2, <1>t, <1>m, QuietAccounts DEF Kept, Sent
<1>5. ASSUME NEW s \in Slots, NEW j \in Jobs, NEW answered \in BOOLEAN,
             Claim(s, j, answered)
      PROVE  Accounted(m)'
  <2>1. /\ row[j].status \in Waiting /\ row'[j].status = "running"
        /\ row'[j].attempts = row[j].attempts + 1
        /\ row[j].attempts + 1 \in 0..MaxAttempts
        /\ \A k \in Jobs : k # j => Kept(k)
    BY <1>5, ClaimEffect
  <2>2. sent' = sent /\ slot[s].pc = "idle"
    BY <1>5 DEF Claim
  <2>3. PICK h : h = IF answered
                     THEN [Idle EXCEPT !.pc = "working", !.job = j,
                                       !.attempts = row[j].attempts + 1]
                     ELSE Idle
    OBVIOUS
  <2>4. h \in Handler /\ h.pc \in {"idle", "working"} /\ (h.pc = "working" => h.job = j)
    BY <2>1, <2>3, IdleHandler DEF Idle, Handler
  <2>5. slot' = [slot EXCEPT ![s] = h]
    BY <1>5, <2>3 DEF Claim
  <2>6. CASE j # m
    <3>1. Trying(m)' \subseteq Trying(m)
      BY <2>4, <2>5, <2>6, <1>t, TryingShrinks
    <3> QED BY <2>1, <2>2, <2>6, <3>1, <1>1, <1>m
  <2>7. CASE j = m
    <3>1. PICK before : before = Trying(m)
      OBVIOUS
    <3>2. PICK after : after = Trying(m)'
      OBVIOUS
    <3>3. after \subseteq before \cup {s} /\ s \notin before
      BY <2>2, <2>5, <3>1, <3>2, <1>t DEF Trying, Typed
    <3>4. IsFiniteSet(before)
      BY <3>1, <1>m DEF Accounted
    <3>5. IsFiniteSet(before \cup {s}) /\ Cardinality(before \cup {s}) = Cardinality(before) + 1
      BY <3>3, <3>4, FS_AddElement
    <3>6. IsFiniteSet(after) /\ Cardinality(after) <= Cardinality(before) + 1
      BY <3>3, <3>5, FS_Subset
    <3>7. Cardinality(before) \in Nat /\ Cardinality(after) \in Nat
      BY <3>4, <3>6, FS_CardinalityType
    <3>8. sent[m] \in Nat /\ row[m].attempts \in Nat
      BY Numbers, <1>t
    <3>9. sent[m] + Cardinality(before) <= row[m].attempts
      BY <3>1, <1>m DEF Accounted
    <3>10. sent[m] + Cardinality(after) <= row[m].attempts + 1
      BY <3>6, <3>7, <3>8, <3>9
    <3>11. /\ IsFiniteSet(Trying(m)')
           /\ sent'[m] + Cardinality(Trying(m)') <= row'[m].attempts
           /\ row'[m].status = "running"
      BY <2>1, <2>2, <2>7, <3>2, <3>6, <3>10
    <3> QED BY <3>11 DEF Accounted
  <2> QED BY <2>6, <2>7
<1>6. ASSUME NEW s \in Slots, NEW answered \in BOOLEAN, FanOut(s, answered)
      PROVE  Accounted(m)'
  <2>1. PICK e \in Events : e = slot[s].job
    BY <1>6 DEF FanOut
  <2>2. FanOutEffect(e) /\ sent' = sent /\ slot[s].pc = "working"
    BY <1>6, <2>1 DEF FanOut
  <2>3. PICK h \in Handler :
          /\ slot' = [slot EXCEPT ![s] = h]
          /\ h = Idle \/ (h.pc = "failing" /\ h.job = slot[s].job)
    BY <1>6, <2>2, IdleHandler, ProceedsHandler DEF FanOut
  <2>4. Trying(m)' \subseteq Trying(m)
    BY <2>3, <1>t, IdleHandler, TryingShrinks
  <2>5. Kept(m) \/ Sent(m, {"absent"}, "queued") \/ Sent(m, {"absent"}, "suppressed")
    BY <2>2, FanOutRows
  <2>6. /\ row'[m].attempts = row[m].attempts
        /\ row'[m].status = "completed" => row[m].status = "completed"
        /\ row'[m].status \in {"absent", "suppressed"} =>
             row[m].status \in {"absent", "suppressed"}
    BY <2>5 DEF Kept, Sent
  <2> QED BY <2>2, <2>4, <2>6, <1>t, <1>m, QuietAccounts
<1>s. ASSUME NEW s \in Slots, NEW h \in Handler, slot' = [slot EXCEPT ![s] = h],
             UNCHANGED <<row, sent>>, h.pc # "working"
      PROVE  Accounted(m)'
  BY <1>s, <1>3, <1>t, TryingShrinks
<1>7. ASSUME NEW s \in Slots, FanOutLate(s) \/ FailureNotRecorded(s) PROVE Accounted(m)'
  BY <1>7, <1>s, IdleHandler DEF FanOutLate, FailureNotRecorded, tables
<1>8. ASSUME NEW s \in Slots, NEW retryable \in BOOLEAN, Throws(s, retryable)
      PROVE  Accounted(m)'
  <2>1. PICK h : h = [slot[s] EXCEPT !.pc = "failing", !.retryable = retryable]
    OBVIOUS
  <2>2. h \in Handler /\ h.pc = "failing"
    BY <2>1, <1>t DEF Typed, Handler
  <2>3. slot' = [slot EXCEPT ![s] = h]
    BY <1>8, <2>1, <1>t DEF Throws, Typed
  <2> QED BY <1>8, <2>2, <2>3, <1>s DEF Throws, tables
<1>9. ASSUME NEW s \in Slots, NEW answered \in BOOLEAN, Send(s, answered)
      PROVE  Accounted(m)'
  <2>1. PICK n \in Mails : n = slot[s].job
    BY <1>9 DEF Send
  <2>2. /\ sent' = [sent EXCEPT ![n] = sent[n] + 1] /\ slot[s].pc = "working"
        /\ row' = row
    BY <1>9, <2>1 DEF Send, tables
  <2>3. PICK next : next = [slot[s] EXCEPT !.pc = "accepted"]
    OBVIOUS
  <2>4. next \in Handler /\ next.pc = "accepted"
    BY <2>3, <1>t DEF Typed, Handler
  <2>5. PICK h \in Handler :
          /\ slot' = [slot EXCEPT ![s] = h]
          /\ h = next \/ (h.pc = "failing" /\ h.job = slot[s].job)
    BY <1>9, <2>2, <2>3, <2>4, ProceedsHandler DEF Send
  <2>6. Trying(m)' \subseteq Trying(m) \ {s}
    BY <2>4, <2>5, <1>t, TryingShrinks
  <2>7. CASE n # m
    <3>1. sent'[m] = sent[m]
      BY <2>2, <2>7, <1>t DEF Typed
    <3> QED BY <2>2, <2>6, <3>1, <1>t, <1>m, QuietAccounts
  <2>8. CASE n = m
    <3>1. PICK before : before = Trying(m)
      OBVIOUS
    <3>2. PICK after : after = Trying(m)'
      OBVIOUS
    <3>3. after \subseteq before \ {s} /\ s \in before
      BY <2>1, <2>2, <2>6, <2>8, <3>1, <3>2 DEF Trying
    <3>4. IsFiniteSet(before)
      BY <3>1, <1>m DEF Accounted
    <3>5. /\ IsFiniteSet(before \ {s})
          /\ Cardinality(before \ {s}) = Cardinality(before) - 1
      BY <3>3, <3>4, FS_RemoveElement
    <3>6. IsFiniteSet(after) /\ Cardinality(after) <= Cardinality(before) - 1
      BY <3>3, <3>5, FS_Subset
    <3>7. Cardinality(before) \in Nat /\ Cardinality(after) \in Nat
      BY <3>4, <3>6, FS_CardinalityType
    <3>8. sent[m] \in Nat /\ row[m].attempts \in Nat /\ sent'[m] = sent[m] + 1
      BY Numbers, <2>2, <2>8, <1>t DEF Typed
    <3>9. sent[m] + Cardinality(before) <= row[m].attempts
      BY <3>1, <1>m DEF Accounted
    <3>10. sent[m] + 1 + Cardinality(after) <= row[m].attempts /\ sent[m] + 1 >= 1
      BY <3>6, <3>7, <3>8, <3>9
    <3>11. row[m].status \notin {"absent", "suppressed"}
      BY <2>1, <2>2, <2>8, <1>t DEF HandlerShape, Alive
    <3>12. /\ IsFiniteSet(Trying(m)')
           /\ sent'[m] + Cardinality(Trying(m)') <= row'[m].attempts
           /\ sent'[m] >= 1
           /\ row'[m].status \notin {"absent", "suppressed"}
      BY <2>2, <3>2, <3>6, <3>8, <3>10, <3>11
    <3> QED BY <3>12 DEF Accounted
  <2> QED BY <2>7, <2>8
<1>10. ASSUME NEW s \in Slots, NEW answered \in BOOLEAN, CompleteEmail(s, answered)
       PROVE  Accounted(m)'
  <2>1. PICK n \in Mails : n = slot[s].job
    BY <1>10, CompleteEffect
  <2>2. /\ Sent(n, {"running"}, "completed") /\ sent[n] >= 1
        /\ \A k \in Jobs : k # n => Kept(k)
    BY <1>10, <2>1, CompleteEffect
  <2>3. sent' = sent /\ slot[s].pc = "accepted"
    BY <1>10 DEF CompleteEmail
  <2>4. PICK h \in Handler :
          /\ slot' = [slot EXCEPT ![s] = h]
          /\ h = Idle \/ (h.pc = "failing" /\ h.job = slot[s].job)
    BY <1>10, <2>3, IdleHandler, ProceedsHandler DEF CompleteEmail
  <2>5. Trying(m)' \subseteq Trying(m)
    BY <2>4, <1>t, IdleHandler, TryingShrinks
  <2>6. CASE n # m
    BY <2>2, <2>3, <2>5, <2>6, <1>1, <1>m
  <2>7. CASE n = m
    BY <2>2, <2>3, <2>5, <2>7, <1>t, <1>m, QuietAccounts DEF Sent
  <2> QED BY <2>6, <2>7
<1>11. ASSUME NEW s \in Slots, RecordFailure(s) PROVE Accounted(m)'
  <2>1. PICK j \in Jobs : j = slot[s].job
    BY <1>11, FailureEffect
  <2>2. /\ \A k \in Jobs : k # j => Kept(k)
        /\ Sent(j, {"running"}, "retryable_failed") \/ Sent(j, {"running"}, "permanently_failed")
    BY <1>11, <2>1, FailureEffect
  <2>3. sent' = sent /\ slot' = [slot EXCEPT ![s] = Idle]
    BY <1>11 DEF RecordFailure
  <2>4. Trying(m)' \subseteq Trying(m)
    BY <2>3, <1>t, IdleHandler, TryingShrinks
  <2>5. CASE j # m
    BY <2>2, <2>3, <2>4, <2>5, <1>1, <1>m
  <2>6. CASE j = m
    BY <2>2, <2>3, <2>4, <2>6, <1>t, <1>m, QuietAccounts DEF Sent
  <2> QED BY <2>5, <2>6
<1>12. ASSUME NEW w \in Workers, Crash(w) PROVE Accounted(m)'
  <2>1. Trying(m)' \subseteq Trying(m)
    BY <1>12, IdleHandler DEF Crash, Trying
  <2> QED BY <1>12, <2>1, <1>3 DEF Crash, tables
<1>13. ASSUME NEW j \in Jobs, LeaseRunsOut(j) \/ BecomesDue(j) PROVE Accounted(m)'
  BY <1>13, <1>2, ClockEffect DEF LeaseRunsOut, BecomesDue
<1>14. ASSUME NEW s \in Slots, Heartbeat(s) PROVE Accounted(m)'
  BY <1>14, <1>2, HeartbeatEffect DEF Heartbeat
<1>15. ASSUME UNCHANGED <<row, sent, slot>> PROVE Accounted(m)'
  BY <1>15, <1>3 DEF Trying
<1> QED
  BY <1>4, <1>5, <1>6, <1>7, <1>8, <1>9, <1>10, <1>11, <1>12, <1>13, <1>14, <1>15
     DEF Next, Handle, Emit, ChangesAccess, ChangesMail, vars, tables

-----------------------------------------------------------------------------
(* The inductive invariant: the accounts count the handlers that are about *)
(* to send, and their handlers need the shape of the handlers.             *)
IInv == Shape /\ FanOutAtomic /\ Accounts

(* The rows and handlers have their shapes, fan-outs are whole and mail is *)
(* accounted for, in every state the worker can reach.                     *)
THEOREM Invariance == Spec => []IInv
<1>1. Init => IInv
  BY ShapeInit, AtomicInit, AccountsInit DEF IInv
<1>2. IInv /\ [Next]_vars => IInv'
  BY ShapeStep, AtomicStep, AccountsStep DEF IInv
<1> QED BY <1>1, <1>2, PTL DEF Spec

LEMMA AccountsGive == IInv => TypeOK /\ MailAccounted
<1> SUFFICES ASSUME IInv PROVE TypeOK /\ MailAccounted
  OBVIOUS
<1>t. Typed
  BY DEF IInv, Shape
<1>1. ASSUME NEW m \in Mails PROVE sent[m] <= row[m].attempts /\ sent[m] \in 0..MaxAttempts
  <2>1. PICK trying : trying = Trying(m)
    OBVIOUS
  <2>2. IsFiniteSet(trying) /\ sent[m] + Cardinality(trying) <= row[m].attempts
    BY <2>1 DEF IInv, Accounts, Accounted
  <2>3. Cardinality(trying) \in Nat
    BY <2>2, FS_CardinalityType
  <2>4. /\ sent[m] \in Nat /\ row[m].attempts \in Nat /\ MaxAttempts \in Nat
        /\ row[m].attempts <= MaxAttempts
    BY <1>t, Numbers
  <2> QED BY <2>2, <2>3, <2>4
<1>2. MailAccounted
  BY <1>1 DEF IInv, Accounts, Accounted, MailAccounted
<1>3. sent \in [Mails -> 0..MaxAttempts]
  BY <1>1, <1>t DEF Typed
<1> QED BY <1>2, <1>3, <1>t DEF Typed, TypeOK, Rows

(* Rows and handlers keep the shapes of the schema and the code; a mail is *)
(* never sent more often than its delivery may be tried.                   *)
THEOREM TypeCorrect == Spec => []TypeOK
BY Invariance, AccountsGive, PTL

(* An event is published, its dispatch completed and every reached user    *)
(* given a delivery, or nothing of it is there; it fails with its dispatch.*)
THEOREM FanOutsAreAtomic == Spec => []FanOutAtomic
<1>1. IInv => FanOutAtomic
  BY DEF IInv
<1> QED BY <1>1, Invariance, PTL

(* Mail was sent before its delivery counts as completed, at most once per *)
(* attempt, and never for a suppressed delivery.                           *)
THEOREM MailIsAccounted == Spec => []MailAccounted
BY Invariance, AccountsGive, PTL

-----------------------------------------------------------------------------
(* The dispatches implement JobLifecycle.                                  *)
Phase(e) == IF row[e].status \in Waiting THEN "waiting" ELSE row[e].status

Published(e) ==
  CASE outbox[e] = "published" -> <<"completed">>
    [] outbox[e] = "failed" -> <<"permanently_failed">>
    [] OTHER -> <<>>

(* What one step does to one dispatch and its event, in the terms of       *)
(* NotificationDelivery.                                                   *)
Moves(e) ==
  \/ Kept(e) /\ Published(e)' = Published(e)
  \/ Sent(e, {"absent"}, "queued") /\ Published(e)' = Published(e)
  \/ /\ row[e].status \in Waiting /\ row'[e].status = "running"
     /\ row[e].attempts < MaxAttempts /\ row'[e].attempts = row[e].attempts + 1
     /\ Published(e)' = Published(e)
  \/ /\ Sent(e, {"running"}, "retryable_failed") /\ row[e].attempts < MaxAttempts
     /\ Published(e)' = Published(e)
  \/ Sent(e, {"running"}, "completed") /\ outbox'[e] = "published"
  \/ Sent(e, {"running"}, "permanently_failed") /\ outbox'[e] = "failed"

LEMMA MovesStep ==
  ASSUME IInv, [Next]_vars, NEW e \in Events
  PROVE  Moves(e)
<1>t. Shape /\ Typed /\ HandlerShape /\ e \in Jobs /\ e \notin Mails
  BY JobKinds DEF IInv, Shape
<1>0. ASSUME Kept(e), outbox'[e] = outbox[e] PROVE Moves(e)
  BY <1>0 DEF Moves, Published
<1>1. ASSUME NEW f \in Events, Emit(f) PROVE Moves(e)
  <2>1. Kept(e) /\ (outbox'[e] = outbox[e] \/ (outbox[e] = "absent" /\ outbox'[e] = "pending"))
    BY <1>1, <1>t DEF Emit, Typed, Kept
  <2>2. Published(e)' = Published(e)
    BY <2>1 DEF Published
  <2> QED BY <2>1, <2>2 DEF Moves
<1>2. ASSUME UNCHANGED tables PROVE Moves(e)
  BY <1>2, <1>0 DEF tables, Kept
<1>3. ASSUME NEW j \in Jobs, LeaseRunsOut(j) \/ BecomesDue(j) PROVE Moves(e)
  BY <1>3, <1>0, <1>t, ClockEffect DEF LeaseRunsOut, BecomesDue
<1>4. ASSUME NEW s \in Slots, Heartbeat(s) PROVE Moves(e)
  BY <1>4, <1>0, <1>t, HeartbeatEffect DEF Heartbeat
<1>5. ASSUME Reconcile PROVE Moves(e)
  BY <1>5, <1>t, ReconcileEffect DEF Moves, Published
<1>6. ASSUME NEW s \in Slots, NEW j \in Jobs, NEW answered \in BOOLEAN,
             Claim(s, j, answered)
      PROVE  Moves(e)
  <2>1. /\ row[j].status \in Waiting /\ row'[j].status = "running"
        /\ row'[j].attempts = row[j].attempts + 1 /\ row[j].attempts < MaxAttempts
        /\ \A k \in Jobs : k # j => Kept(k)
    BY <1>6, <1>t, ClaimEffect
  <2>2. outbox' = outbox
    BY <1>6 DEF Claim
  <2>3. CASE j = e
    BY <2>1, <2>2, <2>3 DEF Moves, Published
  <2>4. CASE j # e
    BY <2>1, <2>2, <2>4, <1>0, <1>t
  <2> QED BY <2>3, <2>4
<1>7. ASSUME NEW s \in Slots, NEW answered \in BOOLEAN, FanOut(s, answered)
      PROVE  Moves(e)
  <2>1. PICK f \in Events : f = slot[s].job
    BY <1>7 DEF FanOut
  <2>2. FanOutEffect(f) /\ row[f].status = "running"
    BY <1>7, <2>1 DEF FanOut, Holds
  <2>3. /\ outbox'[f] = "published"
        /\ e # f => outbox'[e] = outbox[e]
    BY <2>2, <1>t DEF FanOutEffect, Typed
  <2>4. CASE e = f
    BY <2>2, <2>3, <2>4, <1>t, FanOutRows DEF Moves, Sent
  <2>5. CASE e # f
    BY <2>2, <2>3, <2>5, <1>0, <1>t, FanOutRows
  <2> QED BY <2>4, <2>5
<1>8. ASSUME NEW s \in Slots, NEW answered \in BOOLEAN, CompleteEmail(s, answered)
      PROVE  Moves(e)
  <2>1. Kept(e)
    BY <1>8, <1>t, CompleteEffect
  <2> QED BY <1>8, <2>1, <1>0 DEF CompleteEmail
<1>9. ASSUME NEW s \in Slots, RecordFailure(s) PROVE Moves(e)
  <2>1. outbox'[e] = IF e = slot[s].job /\ ~Retries(s) THEN "failed" ELSE outbox[e]
    BY <1>9 DEF RecordFailure
  <2>2. CASE e = slot[s].job
    BY <1>9, <1>t, <2>1, <2>2, FailureEffect DEF Moves, Published
  <2>3. CASE e # slot[s].job
    BY <1>9, <1>t, <2>1, <2>3, <1>0, FailureEffect
  <2> QED BY <2>2, <2>3
<1> QED
  BY <1>1, <1>2, <1>3, <1>4, <1>5, <1>6, <1>7, <1>8, <1>9
     DEF Next, Handle, ChangesAccess, ChangesMail, FanOutLate, Send, Throws,
         FailureNotRecorded, Crash, vars, tables

(* Refinement: a dispatch is tried at most max_attempts times, given back  *)
(* only while another try is left, ended once, and its event is published  *)
(* or failed by the step that ends it.                                     *)
THEOREM LifecycleIsKept == Spec => KeepsLifecycle
<1>1. Init => Lifecycle!Init
  BY JobKinds DEF Init, Absent, Waiting, Lifecycle!Init
<1>2. IInv /\ [Next]_vars => [Lifecycle!Next]_(Lifecycle!lifecycleVars)
  <2> SUFFICES ASSUME IInv, [Next]_vars PROVE Lifecycle!Next
    OBVIOUS
  <2> SUFFICES ASSUME NEW e \in Events
               PROVE  \/ Lifecycle!Stay(e) \/ Lifecycle!Submit(e) \/ Lifecycle!Start(e)
                      \/ Lifecycle!GiveBack(e) \/ Lifecycle!End(e)
    BY DEF Lifecycle!Next
  <2>1. Moves(e)
    BY MovesStep
  <2>2. row[e].status = "running" => Published(e) = <<>>
    BY DEF IInv, FanOutAtomic, Published
  <2>a. \A ending \in {"completed", "permanently_failed"} : Append(<<>>, ending) = <<ending>>
    OBVIOUS
  <2>3. ASSUME NEW ending \in {"completed", "permanently_failed"},
               Sent(e, {"running"}, ending), Published(e)' = <<ending>>
        PROVE  Lifecycle!End(e)
    <3>1. Published(e)' = Append(Published(e), ending)
      BY <2>2, <2>3, <2>a DEF Sent
    <3> QED BY <2>3, <3>1
            DEF Sent, Published, Waiting, Lifecycle!End, Lifecycle!Untried
  <2>4. /\ outbox'[e] = "published" => Published(e)' = <<"completed">>
        /\ outbox'[e] = "failed" => Published(e)' = <<"permanently_failed">>
    BY DEF Published
  <2> QED BY <2>1, <2>3, <2>4
          DEF Moves, Kept, Sent, Published, Waiting, Lifecycle!Stay, Lifecycle!Submit,
              Lifecycle!Start, Lifecycle!GiveBack, Lifecycle!Untried,
              Lifecycle!Unpublished
<1> QED BY <1>1, <1>2, Invariance, PTL DEF Spec, KeepsLifecycle, Lifecycle!Spec

=============================================================================
