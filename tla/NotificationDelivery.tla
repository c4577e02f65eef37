------------------------ MODULE NotificationDelivery ------------------------
(***************************************************************************)
(* Outbox events become notifications and mails: the rows of               *)
(* notification_dispatches, user_notifications and notification_deliveries *)
(* and the two processors that work on them                                *)
(* (services/worker/src/notification-store.ts, notification-pipeline.ts).  *)
(*                                                                         *)
(* A job is an event, to be fanned out, or a pair of an event and a user,  *)
(* to be mailed.  As in InspectionJobs the queue may start a handler on    *)
(* any job at any time, and an action is one transaction or one call to    *)
(* the mail server.                                                        *)
(***************************************************************************)
EXTENDS LeasedRow, Sequences

CONSTANTS
  Events,      \* notifiable outbox events
  Users,
  Recipients,  \* whom an event is meant for, its actor left out
  Slots,       \* concurrent handler executions
  WorkerOf     \* the process of a slot

ASSUME RecipientsAssumption == Recipients \in [Events -> SUBSET Users]
ASSUME WorkerOfAssumption == WorkerOf \in [Slots -> Workers]

Mails == Events \X Users
Jobs == Events \cup Mails

ASSUME NoneAssumption == None \notin Workers \cup Jobs
ASSUME JobsAssumption == Events \cap Mails = {}

VARIABLES
  outbox,     \* outbox_events.status
  row,        \* the dispatch of an event, the email delivery of a mail
  notified,   \* the users with a user_notifications row for the event
  scope,      \* users who may see the project now
  wantsMail,  \* users with a verified address who chose to get mail
  sent,       \* how many copies of a mail the server accepted
  slot        \* the executions of the processors

tables == <<outbox, row, notified>>
vars == <<outbox, row, notified, scope, wantsMail, sent, slot>>

Statuses == {"absent", "running", "completed", "suppressed",
             "permanently_failed"} \cup Waiting
Ends == {"completed", "suppressed", "permanently_failed"}

Handler == [pc : {"idle", "working", "accepted", "failing"},
            job : Jobs \cup {None}, attempts : 0..MaxAttempts,
            retryable : BOOLEAN]

Idle == [pc |-> "idle", job |-> None, attempts |-> 0, retryable |-> TRUE]

Init ==
  /\ outbox = [e \in Events |-> "absent"]
  /\ row = [j \in Jobs |-> Absent]
  /\ notified = [e \in Events |-> {}]
  /\ scope = Users
  /\ wantsMail = Users
  /\ sent = [m \in Mails |-> 0]
  /\ slot = [s \in Slots |-> Idle]

-----------------------------------------------------------------------------
(* The rest of the system.                                                 *)

(* Another transaction writes the event with the change it reports.        *)
Emit(e) ==
  /\ outbox[e] = "absent"
  /\ outbox' = [outbox EXCEPT ![e] = "pending"]
  /\ UNCHANGED <<row, notified, scope, wantsMail, sent, slot>>

(* A user joins or leaves the project, or turns mail on or off.            *)
Toggled(set, u) == (set \cup {u}) \ (set \cap {u})

ChangesAccess(u) ==
  /\ scope' = Toggled(scope, u)
  /\ UNCHANGED <<tables, wantsMail, sent, slot>>

ChangesMail(u) ==
  /\ wantsMail' = Toggled(wantsMail, u)
  /\ UNCHANGED <<tables, scope, sent, slot>>

LeaseRunsOut(j) ==
  /\ row[j].status = "running"
  /\ row[j].lease = "live"
  /\ row' = [row EXCEPT ![j].lease = "expired"]
  /\ UNCHANGED <<outbox, notified, scope, wantsMail, sent, slot>>

BecomesDue(j) ==
  /\ row[j].status \in Waiting
  /\ ~row[j].due
  /\ row' = [row EXCEPT ![j].due = TRUE]
  /\ UNCHANGED <<outbox, notified, scope, wantsMail, sent, slot>>

-----------------------------------------------------------------------------
(* The dispatcher.                                                         *)

Unseen == {e \in Events : outbox[e] = "pending" /\ row[e].status = "absent"}

BugReconcile ==
  /\ Unseen # {} \/ \E j \in Jobs : LeaseLost(row[j])
  /\ row' = [j \in Jobs |->
               IF j \in Unseen THEN Queued(row[j]) ELSE Swept(row[j])]
  /\ UNCHANGED <<outbox, notified, scope, wantsMail, sent, slot>>

(* Expired leases are taken back, an exhausted dispatch fails its event,   *)
(* and pending events get a dispatch, in one transaction.                  *)
Reconcile ==
  /\ Unseen # {} \/ \E j \in Jobs : LeaseLost(row[j])
  /\ row' = [j \in Jobs |->
               IF j \in Unseen THEN Queued(row[j]) ELSE Swept(row[j])]
  /\ outbox' = [e \in Events |->
                  IF LeaseLost(row[e]) /\ row[e].attempts = MaxAttempts
                  THEN "failed" ELSE outbox[e]]
  /\ UNCHANGED <<notified, scope, wantsMail, sent, slot>>

-----------------------------------------------------------------------------
(* The processors.                                                         *)

Holds(s) ==
  /\ row[slot[s].job].status = "running"
  /\ row[slot[s].job].owner = WorkerOf[s]

(* The answer to the claim may be lost.                                    *)
Claim(s, j, answered) ==
  /\ slot[s].pc = "idle"
  /\ Free(row[j])
  /\ row' = [row EXCEPT ![j] = Taken(@, WorkerOf[s])]
  /\ slot' = [slot EXCEPT ![s] =
                IF answered
                THEN [Idle EXCEPT !.pc = "working", !.job = j,
                                  !.attempts = row[j].attempts + 1]
                ELSE Idle]
  /\ UNCHANGED <<outbox, notified, scope, wantsMail, sent>>

Heartbeat(s) ==
  /\ slot[s].pc # "idle"
  /\ Holds(s)
  /\ row' = [row EXCEPT ![slot[s].job].lease = "live"]
  /\ UNCHANGED <<outbox, notified, scope, wantsMail, sent, slot>>

(* A handler goes on after an answer, or fails without one.                *)
Proceeds(s, answered, next) ==
  slot' = [slot EXCEPT ![s] =
             IF answered THEN next ELSE [@ EXCEPT !.pc = "failing"]]

(* The fan-out transaction: the users who still have access get their      *)
(* notification and their deliveries, each once, and the event is          *)
(* published.                                                              *)
Reached(e) == Recipients[e] \cap scope

Delivery(m) ==
  IF row[m].status # "absent" THEN row[m]
  ELSE IF m[2] \in wantsMail THEN Queued(row[m]) ELSE Ended(row[m], "suppressed")

FanOutEffect(e) ==
  /\ notified' = [notified EXCEPT ![e] = @ \cup Reached(e)]
  /\ outbox' = [outbox EXCEPT ![e] = "published"]
  /\ row' = [j \in Jobs |->
               IF j = e THEN Ended(row[e], "completed")
               ELSE IF j \in {e} \X Reached(e) THEN Delivery(j) ELSE row[j]]

BugFanOut(s, answered) ==
  /\ slot[s].pc = "working"
  /\ slot[s].job \in Events
  /\ FanOutEffect(slot[s].job)
  /\ Proceeds(s, answered, Idle)
  /\ UNCHANGED <<scope, wantsMail, sent>>

FanOut(s, answered) ==
  /\ slot[s].pc = "working"
  /\ slot[s].job \in Events
  /\ Holds(s)
  /\ FanOutEffect(slot[s].job)
  /\ Proceeds(s, answered, Idle)
  /\ UNCHANGED <<scope, wantsMail, sent>>

(* The dispatch is not running any more: the transaction returns.          *)
FanOutLate(s) ==
  /\ slot[s].pc = "working"
  /\ slot[s].job \in Events
  /\ row[slot[s].job].status # "running"
  /\ slot' = [slot EXCEPT ![s] = Idle]
  /\ UNCHANGED <<tables, scope, wantsMail, sent>>

(* The mail server accepts the message.                                    *)
Send(s, answered) ==
  /\ slot[s].pc = "working"
  /\ slot[s].job \in Mails
  /\ sent' = [sent EXCEPT ![slot[s].job] = @ + 1]
  /\ Proceeds(s, answered, [slot[s] EXCEPT !.pc = "accepted"])
  /\ UNCHANGED <<tables, scope, wantsMail>>

BugCompleteEmail(s, answered) ==
  /\ slot[s].pc \in {"working", "accepted"}
  /\ slot[s].job \in Mails
  /\ Holds(s)
  /\ row' = [row EXCEPT ![slot[s].job] = Ended(@, "completed")]
  /\ Proceeds(s, answered, Idle)
  /\ UNCHANGED <<outbox, notified, scope, wantsMail, sent>>

CompleteEmail(s, answered) ==
  /\ slot[s].pc = "accepted"
  /\ Holds(s)
  /\ row' = [row EXCEPT ![slot[s].job] = Ended(@, "completed")]
  /\ Proceeds(s, answered, Idle)
  /\ UNCHANGED <<outbox, notified, scope, wantsMail, sent>>

(* Something throws: the lease is lost, the source of an event is missing  *)
(* (for good), the mail server or the database cannot be reached.          *)
Throws(s, retryable) ==
  /\ slot[s].pc \in {"working", "accepted"}
  /\ slot[s].job \in Mails => retryable
  /\ slot' = [slot EXCEPT ![s].pc = "failing", ![s].retryable = retryable]
  /\ UNCHANGED <<tables, scope, wantsMail, sent>>

(* A dispatch is retried by the attempts of its row, an email by the       *)
(* attempts its handler claimed.                                           *)
Retries(s) ==
  /\ slot[s].retryable
  /\ MaxAttempts > IF slot[s].job \in Events
                   THEN row[slot[s].job].attempts ELSE slot[s].attempts

RecordFailure(s) ==
  /\ slot[s].pc = "failing"
  /\ Holds(s)
  /\ row' = [row EXCEPT ![slot[s].job] =
               IF Retries(s) THEN Retried(@, FALSE)
               ELSE Ended(@, "permanently_failed")]
  /\ outbox' = [e \in Events |->
                  IF e = slot[s].job /\ ~Retries(s) THEN "failed" ELSE outbox[e]]
  /\ slot' = [slot EXCEPT ![s] = Idle]
  /\ UNCHANGED <<notified, scope, wantsMail, sent>>

(* The row is not this process's any more, or the database is unreachable. *)
FailureNotRecorded(s) ==
  /\ slot[s].pc = "failing"
  /\ slot' = [slot EXCEPT ![s] = Idle]
  /\ UNCHANGED <<tables, scope, wantsMail, sent>>

Crash(w) ==
  /\ \E s \in Slots : WorkerOf[s] = w /\ slot[s].pc # "idle"
  /\ slot' = [s \in Slots |-> IF WorkerOf[s] = w THEN Idle ELSE slot[s]]
  /\ UNCHANGED <<tables, scope, wantsMail, sent>>

-----------------------------------------------------------------------------
Handle(s) ==
  \/ \E answered \in BOOLEAN :
       FanOut(s, answered) \/ Send(s, answered) \/ CompleteEmail(s, answered)
  \/ FanOutLate(s)
  \/ \E retryable \in BOOLEAN : Throws(s, retryable)
  \/ RecordFailure(s)
  \/ FailureNotRecorded(s)

Next ==
  \/ \E e \in Events : Emit(e)
  \/ \E u \in Users : ChangesAccess(u) \/ ChangesMail(u)
  \/ \E j \in Jobs : LeaseRunsOut(j) \/ BecomesDue(j)
  \/ Reconcile
  \/ \E s \in Slots, j \in Jobs, answered \in BOOLEAN : Claim(s, j, answered)
  \/ \E s \in Slots : Heartbeat(s) \/ Handle(s)
  \/ \E w \in Workers : Crash(w)

(* The dispatcher runs every few seconds, the queue hands every listed job *)
(* to a handler in the end, a handler comes to its end, delays pass, and   *)
(* the lease of a job that no handler works on any more runs out.          *)
Orphaned(j) ==
  \A s \in Slots : slot[s].job # j \/ WorkerOf[s] # row[j].owner

Fairness ==
  /\ WF_vars(Reconcile)
  /\ \A j \in Jobs :
       /\ WF_vars(BecomesDue(j))
       /\ WF_vars(Orphaned(j) /\ LeaseRunsOut(j))
       /\ SF_vars(\E s \in Slots : Claim(s, j, TRUE))
  /\ \A s \in Slots : WF_vars(Handle(s))

Spec == Init /\ [][Next]_vars
FairSpec == Spec /\ Fairness

-----------------------------------------------------------------------------
(* Properties.                                                             *)

(* Rows and handlers have the shapes the schema and the code give them.    *)
TypeOK ==
  /\ outbox \in [Events -> {"absent", "pending", "published", "failed"}]
  /\ row \in [Jobs -> Row(Statuses)]
  /\ notified \in [Events -> SUBSET Users]
  /\ scope \subseteq Users /\ wantsMail \subseteq Users
  /\ sent \in [Mails -> 0..MaxAttempts]
  /\ slot \in [Slots -> Handler]

(* A fan-out happens completely or not at all: the event is published, its *)
(* dispatch completed and every notified user has an email delivery, or    *)
(* there is nothing yet; and an event fails exactly with its dispatch.     *)
FanOutAtomic ==
  \A e \in Events :
    /\ outbox[e] = "published" <=> row[e].status = "completed"
    /\ outbox[e] = "failed" <=> row[e].status = "permanently_failed"
    /\ outbox[e] # "published" => notified[e] = {}
    /\ notified[e] \subseteq Recipients[e]
    /\ \A u \in Users : u \in notified[e] <=> row[<<e, u>>].status # "absent"

(* Mail is sent at least once before a delivery counts as completed, at    *)
(* most once per attempt, and never when it is suppressed or not due to    *)
(* the user.                                                               *)
MailAccounted ==
  \A m \in Mails :
    /\ row[m].status = "completed" => sent[m] >= 1
    /\ row[m].status \in {"absent", "suppressed"} => sent[m] = 0
    /\ sent[m] <= row[m].attempts

(* The dispatches keep the promise of JobLifecycle.                        *)
Lifecycle == INSTANCE JobLifecycle WITH
  Jobs <- Events,
  Endings <- {"completed", "permanently_failed"},
  phase <- [e \in Events |->
              IF row[e].status \in Waiting THEN "waiting" ELSE row[e].status],
  tries <- [e \in Events |-> row[e].attempts],
  published <- [e \in Events |->
                  CASE outbox[e] = "published" -> <<"completed">>
                    [] outbox[e] = "failed" -> <<"permanently_failed">>
                    [] OTHER -> <<>>]

KeepsLifecycle == Lifecycle!Spec

(* Every event that was written is published or fails.                     *)
EveryEventEnds ==
  \A e \in Events :
    outbox[e] = "pending" ~> outbox[e] \in {"published", "failed"}

(* docs/product/notifications.md: "exhausted or permanent work retains a   *)
(* failure code".  An email whose attempts are used up is not left waiting *)
(* for another one, which no listing and no claim would ever give it.      *)
(* It does not hold: see the known disagreements of the README.            *)
NoEmailStranded ==
  \A m \in Mails : row[m].status \in Waiting => row[m].attempts < MaxAttempts

=============================================================================
