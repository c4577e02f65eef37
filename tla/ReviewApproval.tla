--------------------------- MODULE ReviewApproval ---------------------------
(***************************************************************************)
(* Review requests, their decisions, and the approved pointer of a branch  *)
(* (services/api/src/reviews/postgres-store.ts).                           *)
(*                                                                         *)
(* A transaction that decides or opens a review first takes a snapshot and *)
(* then waits for the branch row, so it is two actions here.  When the row *)
(* has changed by the time it is locked, PostgreSQL joins the new branch   *)
(* row with the approved version read before, which no longer matches: the *)
(* left join of lockReview gives a null approved_sequence.  Cancelling     *)
(* holds the locks of all it reads, and is one action.                     *)
(*                                                                         *)
(* A request that is refused changes nothing, and is left out where it is  *)
(* sure to be: for an archived document, for a reviewer who was not        *)
(* assigned, for a review that is closed.                                  *)
(*                                                                         *)
(* Versions are named by their sequence, and 0 stands for SQL null.        *)
(***************************************************************************)
EXTENDS Naturals, FiniteSets, Sequences

CONSTANTS
  Users,
  Top,            \* versions 1..Top exist on the branch
  Author,         \* who pushed a version
  Roles,          \* project roles
  Offered,        \* the roles a user is given in the course of time
  Panels,         \* sets of reviewers that are asked for
  Keys,           \* idempotency keys of createReview
  Transactions,   \* connections of the pool
  MaxReviews,     \* bound on the reviews ever opened
  None

Versions == 1..Top

ASSUME TopAssumption == Top \in Nat
ASSUME AuthorAssumption == Author \in [Versions -> Users]
ASSUME RolesAssumption ==
  Roles \subseteq {"project_lead", "contributor", "reviewer", "viewer"}
ASSUME OfferedAssumption == Offered \in [Users -> SUBSET (Roles \cup {"none"})]
ASSUME PanelsAssumption ==
  \A panel \in Panels : panel \subseteq Users /\ panel # {} /\ IsFiniteSet(panel)
ASSUME NoneAssumption == None \notin {"approved", "changes_requested"}
ASSUME MaxReviewsAssumption == MaxReviews \in Nat

VARIABLES
  approved,    \* document_branches.approved_version_id
  reviewable,  \* versions that are ready, clean and inspected
  role,        \* project_memberships: the present role of a user
  review,      \* review_requests with their assignments and decisions
  made,        \* idempotency_records of createReview
  tx           \* the transactions between snapshot and lock

rows == <<review, made>>
vars == <<approved, reviewable, role, review, made, tx>>

Closed == {"approved", "changes_requested", "superseded", "cancelled"}
Decisions == {"approved", "changes_requested"}

Review == [status : {"open"} \cup Closed, version : Versions,
           requester : Users, assigned : SUBSET Users,
           decision : [Users -> Decisions \cup {None}], key : Keys]

Idle == [doing |-> "nothing"]

Init ==
  /\ approved = 0
  /\ reviewable = {}
  /\ role \in [Users -> Roles \cup {"none"}]
  /\ \A u \in Users : role[u] \in Offered[u]
  /\ review = <<>>
  /\ made = [k \in Keys |-> 0]
  /\ tx = [t \in Transactions |-> Idle]

-----------------------------------------------------------------------------
(* Other operations of the system.                                         *)

Inspected(v) ==
  /\ v \notin reviewable
  /\ reviewable' = reviewable \cup {v}
  /\ UNCHANGED <<approved, role, rows, tx>>

RoleChanges(u, p) ==
  /\ role[u] # p
  /\ role' = [role EXCEPT ![u] = p]
  /\ UNCHANGED <<approved, reviewable, rows, tx>>

-----------------------------------------------------------------------------
CanWrite(u) == role[u] \in {"project_lead", "contributor"}
CanDecide(u) == role[u] \in {"project_lead", "reviewer"}
IsLead(u) == role[u] = "project_lead"
IsOpen(r) == review[r].status = "open"

(* A transaction that is refused or fails leaves no trace.                 *)
Rollback(t) ==
  /\ tx[t] # Idle
  /\ tx' = [tx EXCEPT ![t] = Idle]
  /\ UNCHANGED <<approved, reviewable, role, rows>>

(* What the join of lockReview says of the approved version.               *)
ApprovedSequence(t) == IF tx[t].seen = approved THEN approved ELSE 0

(* The record of the key is locked before anything else is read; a key     *)
(* that has made a review only shows it again.                             *)
KeyFree(k) ==
  /\ made[k] = 0
  /\ \A t \in Transactions : tx[t].doing = "creating" => tx[t].key # k

BugRequestReview(t, u, v, k, reviewers) ==
  /\ tx[t] = Idle
  /\ CanWrite(u)
  /\ made[k] = 0
  /\ tx' = [tx EXCEPT ![t] = [doing |-> "creating", by |-> u, version |-> v,
                              key |-> k, reviewers |-> reviewers,
                              seen |-> approved]]
  /\ UNCHANGED <<approved, reviewable, role, rows>>

RequestReview(t, u, v, k, reviewers) ==
  /\ tx[t] = Idle
  /\ CanWrite(u)
  /\ KeyFree(k)
  /\ tx' = [tx EXCEPT ![t] = [doing |-> "creating", by |-> u, version |-> v,
                              key |-> k, reviewers |-> reviewers,
                              seen |-> approved]]
  /\ UNCHANGED <<approved, reviewable, role, rows>>

(* At most one open review for a version, none for what is approved.       *)
MayOpen(t) ==
  /\ tx[t].version \in reviewable
  /\ tx[t].version > ApprovedSequence(t)
  /\ \A r \in DOMAIN review : IsOpen(r) => review[r].version # tx[t].version

OpenReview(t) ==
  /\ tx[t].doing = "creating"
  /\ Len(review) < MaxReviews
  /\ MayOpen(t)
  /\ Author[tx[t].version] \notin tx[t].reviewers
  /\ \A u \in tx[t].reviewers : CanDecide(u)
  /\ review' = Append(review,
       [status |-> "open", version |-> tx[t].version,
        requester |-> tx[t].by, assigned |-> tx[t].reviewers,
        decision |-> [u \in Users |-> None], key |-> tx[t].key])
  /\ made' = [made EXCEPT ![tx[t].key] = Len(review')]
  /\ tx' = [tx EXCEPT ![t] = Idle]
  /\ UNCHANGED <<approved, reviewable, role>>

BeginDecide(t, u, r, d) ==
  /\ tx[t] = Idle
  /\ CanDecide(u)
  /\ IsOpen(r)
  /\ u \in review[r].assigned
  /\ tx' = [tx EXCEPT ![t] = [doing |-> "deciding", by |-> u, review |-> r,
                              decision |-> d, seen |-> approved]]
  /\ UNCHANGED <<approved, reviewable, role, rows>>

(* What a decision makes of the review, given all decisions with it.       *)
Approvals(decision) == {u \in Users : decision[u] = "approved"}

BugOutcome(t, decision) ==
  LET r == review[tx[t].review]
  IN  IF Cardinality(Approvals(decision)) # Cardinality(r.assigned) THEN "open"
      ELSE IF tx[t].decision = "changes_requested" THEN "changes_requested"
      ELSE IF ApprovedSequence(t) >= r.version THEN "superseded"
      ELSE "approved"

Outcome(t, decision) ==
  LET r == review[tx[t].review]
  IN  IF tx[t].decision = "changes_requested" THEN "changes_requested"
      ELSE IF Cardinality(Approvals(decision)) # Cardinality(r.assigned) THEN "open"
      ELSE IF ApprovedSequence(t) >= r.version THEN "superseded"
      ELSE "approved"

(* A decision is for an assigned member who is not the author and has not  *)
(* decided before.                                                         *)
MayDecide(t) ==
  LET r == review[tx[t].review]
  IN  /\ r.status = "open"
      /\ tx[t].by # Author[r.version]
      /\ tx[t].by \in r.assigned
      /\ CanDecide(tx[t].by)
      /\ r.decision[tx[t].by] = None

BugDecide(t) ==
  /\ tx[t].doing = "deciding"
  /\ MayDecide(t)
  /\ LET r == tx[t].review
         decision == [review[r].decision EXCEPT ![tx[t].by] = tx[t].decision]
         outcome == Outcome(t, decision)
     IN  /\ review' = [review EXCEPT ![r].decision = decision,
                                     ![r].status = outcome]
         /\ approved' = IF outcome \in {"approved", "superseded"}
                        THEN review[r].version ELSE approved
  /\ tx' = [tx EXCEPT ![t] = Idle]
  /\ UNCHANGED <<reviewable, role, made>>

Decide(t) ==
  /\ tx[t].doing = "deciding"
  /\ MayDecide(t)
  /\ LET r == tx[t].review
         decision == [review[r].decision EXCEPT ![tx[t].by] = tx[t].decision]
         outcome == Outcome(t, decision)
     IN  /\ review' = [review EXCEPT ![r].decision = decision,
                                     ![r].status = outcome]
         /\ approved' = IF outcome = "approved" THEN review[r].version
                        ELSE approved
  /\ tx' = [tx EXCEPT ![t] = Idle]
  /\ UNCHANGED <<reviewable, role, made>>

BugCancelReview(u, r) ==
  /\ role[u] # "none"
  /\ IsLead(u) \/ review[r].requester = u
  /\ review' = [review EXCEPT ![r].status = "cancelled"]
  /\ UNCHANGED <<approved, reviewable, role, made, tx>>

CancelReview(u, r) ==
  /\ IsOpen(r)
  /\ role[u] # "none"
  /\ IsLead(u) \/ review[r].requester = u
  /\ review' = [review EXCEPT ![r].status = "cancelled"]
  /\ UNCHANGED <<approved, reviewable, role, made, tx>>

-----------------------------------------------------------------------------
Transaction(t) ==
  \/ \E u \in Users, v \in Versions, k \in Keys :
       \E reviewers \in Panels : RequestReview(t, u, v, k, reviewers)
  \/ OpenReview(t)
  \/ \E u \in Users, r \in DOMAIN review, d \in Decisions :
       BeginDecide(t, u, r, d)
  \/ Decide(t)
  \/ Rollback(t)

Next ==
  \/ \E v \in Versions : Inspected(v)
  \/ \E u \in Users : \E p \in Offered[u] : RoleChanges(u, p)
  \/ \E t \in Transactions : Transaction(t)
  \/ \E u \in Users, r \in DOMAIN review : CancelReview(u, r)

Spec == Init /\ [][Next]_vars

-----------------------------------------------------------------------------
(* Properties.                                                             *)

(* Rows have the shapes of the schema, and the pointer and the records     *)
(* name rows that exist.                                                   *)
TypeOK ==
  /\ approved \in 0..Top
  /\ reviewable \subseteq Versions
  /\ role \in [Users -> Roles \cup {"none"}]
  /\ review \in Seq(Review)
  /\ made \in [Keys -> 0..Len(review)]
  /\ \A t \in Transactions :
       tx[t].doing \in {"nothing", "creating", "deciding"}

(* The status of a review is what its decisions say, whoever decided at    *)
(* the same time: one objection closes it, approval (or being superseded)  *)
(* takes everybody who was assigned, and no author judges his own version. *)
VotesDecide ==
  \A r \in DOMAIN review :
    LET approvals == Approvals(review[r].decision)
        objections == {u \in Users : review[r].decision[u] = "changes_requested"}
    IN  /\ approvals \cup objections \subseteq review[r].assigned
        /\ Author[review[r].version] \notin review[r].assigned
        /\ review[r].status = "changes_requested" <=> objections # {}
        /\ review[r].status \in {"approved", "superseded"}
             <=> approvals = review[r].assigned

(* A version has one open review at most, although requests for it may     *)
(* wait for the branch together.                                           *)
OneOpenReview ==
  \A q, r \in DOMAIN review :
    IsOpen(q) /\ IsOpen(r) /\ review[q].version = review[r].version => q = r

(* A key opens one review, even when its requests run at the same time or  *)
(* come again after that review was closed, and answers with that review.  *)
OncePerKey ==
  \A k \in Keys :
    {r \in DOMAIN review : review[r].key = k} = {made[k]} \ {0}

ReviewKept(r) ==
  /\ ~IsOpen(r) => review'[r] = review[r]
  /\ \A u \in Users : review[r].decision[u] # None
       => review'[r].decision[u] = review[r].decision[u]

(* Decisions are never changed and closed reviews change in nothing,       *)
(* whatever was waiting for their locks.                                   *)
EvidenceKept == [][\A r \in DOMAIN review : ReviewKept(r)]_vars

Elects(r) ==
  /\ IsOpen(r)
  /\ review'[r].status = "approved"
  /\ review'[r].version = approved'

SupersededRightly(r) ==
  IsOpen(r) /\ review'[r].status = "superseded"
    => approved' = approved /\ approved >= review[r].version

PointerStep ==
  /\ approved' # approved => \E r \in DOMAIN review : Elects(r)
  /\ \A r \in DOMAIN review : SupersededRightly(r)

(* The approved pointer moves in the step that approves a review, to the   *)
(* version of that review; a review is only superseded by an approval of   *)
(* the same or a later version.                                            *)
PointerFollowsVotes == [][PointerStep]_vars

(* docs/product/review-workflow.md: "the pointer does not move backward".  *)
(* It does not hold: see the known disagreements of the README.            *)
PointerForward == [][approved' >= approved]_vars

=============================================================================
