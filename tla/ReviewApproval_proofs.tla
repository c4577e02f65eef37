----------------------- MODULE ReviewApproval_proofs -----------------------
(***************************************************************************)
(* Proofs about ReviewApproval, for every number of users, versions,       *)
(* panels, keys, transactions and reviews.                                 *)
(***************************************************************************)
EXTENDS ReviewApproval, SequenceTheorems, FiniteSetTheorems, TLAPS

(* What a transaction keeps between its snapshot and its lock.             *)
Creating == [doing : {"creating"}, by : Users, version : Versions, key : Keys,
             reviewers : Panels, seen : 0..Top]
Deciding == [doing : {"deciding"}, by : Users, review : Nat,
             decision : Decisions, seen : 0..Top]

Typed ==
  /\ approved \in 0..Top
  /\ reviewable \subseteq Versions
  /\ role \in [Users -> Roles \cup {"none"}]
  /\ review \in Seq(Review)
  /\ made \in [Keys -> 0..Len(review)]
  /\ tx \in [Transactions -> {Idle} \cup Creating \cup Deciding]
  /\ \A t \in Transactions :
       tx[t].doing = "deciding" => tx[t].review \in 1..Len(review)

(* What the decisions of one review say of its status.                     *)
Objections(decision) == {u \in Users : decision[u] = "changes_requested"}

Voted(r) ==
  /\ Approvals(r.decision) \cup Objections(r.decision) \subseteq r.assigned
  /\ Author[r.version] \notin r.assigned
  /\ r.assigned # {} /\ IsFiniteSet(r.assigned)
  /\ r.status = "changes_requested" <=> Objections(r.decision) # {}
  /\ r.status \in {"approved", "superseded"} <=> Approvals(r.decision) = r.assigned

AllVoted == \A r \in DOMAIN review : Voted(review[r])

(* A key that a transaction holds has opened nothing, and no other         *)
(* transaction holds it.                                                   *)
KeysHeld ==
  \A t \in Transactions :
    tx[t].doing = "creating" =>
      /\ made[tx[t].key] = 0
      /\ \A other \in Transactions :
           tx[other].doing = "creating" /\ tx[other].key = tx[t].key => other = t

(* The inductive invariant.                                                *)
IInv == Typed /\ AllVoted /\ KeysHeld /\ OncePerKey /\ OneOpenReview

-----------------------------------------------------------------------------
(* Reviews as a sequence.                                                  *)

LEMMA ReviewRows ==
  ASSUME Typed
  PROVE  /\ Len(review) \in Nat /\ DOMAIN review = 1..Len(review)
         /\ \A r \in DOMAIN review : review[r] \in Review
BY LenProperties, ElementOfSeq DEF Typed

(* One review is rewritten.                                                *)
LEMMA ReviewChange ==
  ASSUME Typed, NEW r \in DOMAIN review, NEW x \in Review,
         review' = [review EXCEPT ![r] = x]
  PROVE  /\ review' \in Seq(Review) /\ Len(review') = Len(review)
         /\ DOMAIN review' = DOMAIN review /\ review'[r] = x
         /\ \A q \in DOMAIN review : q # r => review'[q] = review[q]
<1>1. Len(review) \in Nat /\ DOMAIN review = 1..Len(review) /\ review \in Seq(Review)
  BY ReviewRows DEF Typed
<1>2. /\ [review EXCEPT ![r] = x] \in Seq(Review)
      /\ Len([review EXCEPT ![r] = x]) = Len(review)
      /\ \A j \in 1..Len(review) :
           [review EXCEPT ![r] = x][j] = IF j = r THEN x ELSE review[j]
  BY <1>1, ExceptSeq
<1>3. DOMAIN [review EXCEPT ![r] = x] = DOMAIN review
  OBVIOUS
<1> QED BY <1>1, <1>2, <1>3

(* What a cancellation makes of a review.                                  *)
LEMMA CancelledRecord ==
  ASSUME NEW x \in Review, NEW y, y = [x EXCEPT !.status = "cancelled"]
  PROVE  /\ y \in Review /\ y.status = "cancelled" /\ y.decision = x.decision
         /\ y.version = x.version /\ y.assigned = x.assigned /\ y.key = x.key
BY DEF Review, Closed

-----------------------------------------------------------------------------
(* What the actions that write reviews do.                                 *)

(* An open review is closed or goes on: its votes and its status fit, it   *)
(* keeps its version and key, and nothing else changes.                    *)
Judges(r, x) ==
  /\ r \in DOMAIN review /\ x \in Review /\ IsOpen(r)
  /\ review' = [review EXCEPT ![r] = x]
  /\ x.version = review[r].version /\ x.key = review[r].key
  /\ Voted(x)
  /\ \A u \in Users : review[r].decision[u] # None => x.decision[u] = review[r].decision[u]

LEMMA CancelEffect ==
  ASSUME IInv, NEW u \in Users, NEW r \in DOMAIN review, CancelReview(u, r)
  PROVE  \E x \in Review : Judges(r, x) /\ x.status = "cancelled"
<1>1. review[r] \in Review /\ Voted(review[r]) /\ review[r].status = "open"
  BY ReviewRows DEF IInv, AllVoted, CancelReview, IsOpen
<1>2. PICK x : x = [review[r] EXCEPT !.status = "cancelled"]
  OBVIOUS
<1>3. /\ x \in Review /\ x.decision = review[r].decision /\ x.status = "cancelled"
      /\ x.version = review[r].version /\ x.assigned = review[r].assigned
      /\ x.key = review[r].key
  BY <1>1, <1>2, CancelledRecord
<1>4. review' = [review EXCEPT ![r] = x]
  BY <1>2 DEF CancelReview
<1>5. Voted(x)
  BY <1>1, <1>3 DEF Voted
<1> QED BY <1>1, <1>3, <1>4, <1>5 DEF Judges, CancelReview

(* A decision: one vote more, and the status that follows from the votes.  *)
LEMMA DecideEffect ==
  ASSUME IInv, NEW t \in Transactions, Decide(t)
  PROVE  /\ tx[t].review \in DOMAIN review
         /\ \E x \in Review :
              /\ Judges(tx[t].review, x)
              /\ approved' = IF x.status = "approved" THEN x.version ELSE approved
              /\ x.status = "superseded" => approved >= x.version
<1>t. Typed /\ tx[t] \in Deciding
  BY DEF IInv, Typed, Decide, Idle, Creating
<1>1. PICK r \in DOMAIN review : r = tx[t].review
  BY <1>t, ReviewRows DEF Decide, Typed
<1>2. /\ review[r] \in Review /\ Voted(review[r]) /\ review[r].status = "open"
      /\ tx[t].by \in review[r].assigned /\ review[r].decision[tx[t].by] = None
      /\ tx[t].by \in Users /\ tx[t].decision \in Decisions
  BY <1>t, <1>1, ReviewRows DEF IInv, AllVoted, Decide, MayDecide, Deciding
<1>3. PICK decision : decision = [review[r].decision EXCEPT ![tx[t].by] = tx[t].decision]
  OBVIOUS
<1>4. /\ review[r].decision \in [Users -> Decisions \cup {None}]
      /\ decision \in [Users -> Decisions \cup {None}]
      /\ decision[tx[t].by] = tx[t].decision
      /\ \A u \in Users : u # tx[t].by => decision[u] = review[r].decision[u]
  BY <1>2, <1>3 DEF Review
<1>5. PICK outcome : outcome = Outcome(t, decision)
  OBVIOUS
<1>6. outcome \in {"open", "changes_requested", "superseded", "approved"}
  BY <1>5 DEF Outcome
<1>7. PICK x : x = [review[r] EXCEPT !.decision = decision, !.status = outcome]
  OBVIOUS
<1>8. /\ x \in Review /\ x.decision = decision /\ x.status = outcome
      /\ x.version = review[r].version /\ x.assigned = review[r].assigned
      /\ x.key = review[r].key
  <2>1. outcome \in {"open"} \cup Closed
    BY <1>6 DEF Closed
  <2>2. PICK old \in Review : old = review[r]
    BY <1>2
  <2>3. x = [old EXCEPT !.decision = decision, !.status = outcome]
    BY <1>7, <2>2
  <2>4. /\ x \in Review /\ x.status = outcome /\ x.decision = decision
        /\ x.version = old.version /\ x.assigned = old.assigned /\ x.key = old.key
    BY <1>4, <2>1, <2>3 DEF Review
  <2> QED BY <2>2, <2>4
<1>9. /\ review' = [review EXCEPT ![r] = x]
      /\ approved' = IF outcome \in {"approved"} THEN review[r].version ELSE approved
  BY <1>1, <1>3, <1>5, <1>7 DEF Decide
<1>10. Objections(review[r].decision) = {}
  BY <1>2 DEF Voted
<1>11. Cardinality(Approvals(decision)) = Cardinality(review[r].assigned)
         <=> Approvals(decision) = review[r].assigned
  <2>1. Approvals(decision) \subseteq review[r].assigned /\ IsFiniteSet(review[r].assigned)
    BY <1>2, <1>4 DEF Voted, Approvals
  <2> QED BY <2>1, FS_Subset
<1>12. Voted(x)
  <2>1. CASE tx[t].decision = "changes_requested"
    <3>1. outcome = "changes_requested"
      BY <1>5, <2>1 DEF Outcome
    <3>2. tx[t].by \in Objections(decision) /\ tx[t].by \notin Approvals(decision)
      BY <1>2, <1>4, <2>1 DEF Objections, Approvals
    <3>3. Approvals(decision) \cup Objections(decision) \subseteq review[r].assigned
      BY <1>2, <1>4 DEF Voted, Approvals, Objections
    <3> QED BY <1>2, <1>8, <3>1, <3>2, <3>3 DEF Voted
  <2>2. CASE tx[t].decision = "approved"
    <3>1. Objections(decision) = {}
      BY <1>4, <1>10, <2>2 DEF Objections
    <3>2. Approvals(decision) \cup Objections(decision) \subseteq review[r].assigned
      BY <1>2, <1>4 DEF Voted, Approvals, Objections
    <3>3. /\ Approvals(decision) # review[r].assigned => outcome = "open"
          /\ Approvals(decision) = review[r].assigned =>
               outcome \in {"superseded", "approved"}
      BY <1>1, <1>5, <1>11, <2>2 DEF Outcome
    <3> QED BY <1>2, <1>8, <3>1, <3>2, <3>3 DEF Voted
  <2> QED BY <1>2, <2>1, <2>2 DEF Decisions
<1>13. x.status = "superseded" => approved >= x.version
  <2>1. SUFFICES ASSUME outcome = "superseded" PROVE approved >= review[r].version
    BY <1>8
  <2>2. ApprovedSequence(t) >= review[r].version
    BY <1>1, <1>5, <2>1 DEF Outcome
  <2>3. review[r].version \in 1..Top /\ Top \in Nat /\ approved \in 0..Top
    BY <1>2, <1>t, TopAssumption DEF Review, Versions, Typed
  <2> QED BY <2>2, <2>3 DEF ApprovedSequence
<1>14. \A u \in Users : review[r].decision[u] # None => x.decision[u] = review[r].decision[u]
  BY <1>2, <1>4, <1>8
<1> QED BY <1>1, <1>2, <1>8, <1>9, <1>12, <1>13, <1>14 DEF Judges, IsOpen

-----------------------------------------------------------------------------
(* The invariant is inductive.                                             *)

LEMMA InitInv == Init => IInv
<1> SUFFICES ASSUME Init PROVE IInv
  OBVIOUS
<1>1. Len(review) = 0 /\ review \in Seq(Review) /\ DOMAIN review = {}
  BY EmptySeq, ReviewRows DEF Init
<1>2. Typed
  BY <1>1, TopAssumption DEF Init, Typed, Idle
<1>3. OncePerKey
  BY <1>1 DEF Init, OncePerKey
<1> QED BY <1>1, <1>2, <1>3 DEF Init, IInv, AllVoted, KeysHeld, Idle, OneOpenReview

(* Nothing is written but the transactions, and no new key is held.        *)
LEMMA QuietStep ==
  ASSUME IInv, UNCHANGED <<review, made>>, Typed',
         \A t \in Transactions : tx'[t].doing = "creating" => tx'[t] = tx[t]
  PROVE  IInv'
<1>1. AllVoted' /\ OncePerKey' /\ OneOpenReview'
  BY DEF IInv, AllVoted, OncePerKey, OneOpenReview, IsOpen
<1>2. KeysHeld'
  BY DEF IInv, KeysHeld
<1> QED BY <1>1, <1>2 DEF IInv

(* A review is judged by a transaction that ends, or by none.              *)
LEMMA JudgedStep ==
  ASSUME IInv, NEW r, NEW x, Judges(r, x), made' = made, Typed',
         \A t \in Transactions : tx'[t].doing = "creating" => tx'[t] = tx[t]
  PROVE  IInv'
<1>1. /\ DOMAIN review' = DOMAIN review /\ review'[r] = x /\ r \in DOMAIN review
      /\ \A q \in DOMAIN review : q # r => review'[q] = review[q]
      /\ x.version = review[r].version /\ x.key = review[r].key /\ Voted(x)
      /\ review[r].status = "open"
  BY ReviewChange DEF IInv, Judges, IsOpen
<1>2. AllVoted'
  <2>1. \A q \in DOMAIN review' : Voted(review'[q])
    BY <1>1 DEF IInv, AllVoted
  <2> QED BY <2>1 DEF AllVoted, Voted, Approvals, Objections
<1>3. \A q \in DOMAIN review : review'[q].key = review[q].key
  BY <1>1
<1>4. OncePerKey'
  BY <1>1, <1>3 DEF IInv, OncePerKey
<1>5. OneOpenReview'
  BY <1>1 DEF IInv, OneOpenReview, IsOpen
<1>6. KeysHeld'
  BY DEF IInv, KeysHeld
<1> QED BY <1>2, <1>4, <1>5, <1>6 DEF IInv

(* The new review has the next number, its key is used from now on, and    *)
(* its transaction holds it no longer.                                     *)
LEMMA OpenStep ==
  ASSUME IInv, NEW t \in Transactions, OpenReview(t)
  PROVE  IInv'
<1>t. Typed /\ tx[t] \in Creating
  BY DEF IInv, Typed, OpenReview, Idle, Deciding
<1>l. Len(review) \in Nat /\ DOMAIN review = 1..Len(review)
      /\ \A r \in DOMAIN review : review[r] \in Review
  BY <1>t, ReviewRows
<1>1. PICK x : x = [status |-> "open", version |-> tx[t].version,
                    requester |-> tx[t].by, assigned |-> tx[t].reviewers,
                    decision |-> [u \in Users |-> None], key |-> tx[t].key]
  OBVIOUS
<1>2. /\ x \in Review /\ x.status = "open" /\ x.version = tx[t].version
      /\ x.key = tx[t].key /\ x.key \in Keys
  BY <1>t, <1>1, PanelsAssumption DEF Creating, Review
<1>3. PICK n : n = Len(review) + 1
  OBVIOUS
<1>4. review' = Append(review, x)
  BY <1>1 DEF OpenReview
<1>5. /\ review' \in Seq(Review) /\ Len(review') = n /\ review'[n] = x
      /\ DOMAIN review' = DOMAIN review \cup {n} /\ n \in Nat /\ n # 0
      /\ \A r \in DOMAIN review : review'[r] = review[r] /\ r # n
  <2>1. /\ review' \in Seq(Review) /\ Len(review') = n /\ review'[n] = x
        /\ \A r \in 1..Len(review) : review'[r] = review[r]
    BY <1>t, <1>2, <1>3, <1>4, AppendProperties DEF Typed
  <2>2. DOMAIN review' = 1..n
    BY <2>1, LenProperties
  <2> QED BY <1>3, <1>l, <2>1, <2>2
<1>6. /\ made' = [made EXCEPT ![x.key] = n] /\ made[x.key] = 0
      /\ tx' = [tx EXCEPT ![t] = Idle]
      /\ UNCHANGED <<approved, reviewable, role>>
  BY <1>2, <1>5 DEF OpenReview, IInv, KeysHeld
<1>7. Typed'
  <2>1. made' \in [Keys -> 0..n]
    <3>1. made \in [Keys -> 0..n] /\ n \in 0..n
      BY <1>t, <1>3, <1>l DEF Typed
    <3> QED BY <3>1, <1>6
  <2>2. \A s \in Transactions : tx'[s].doing = "deciding" => tx'[s].review \in 1..n
    BY <1>t, <1>3, <1>6, <1>l DEF Typed, Idle
  <2>3. tx' \in [Transactions -> {Idle} \cup Creating \cup Deciding]
    BY <1>t, <1>6 DEF Typed
  <2> QED BY <1>t, <1>5, <1>6, <2>1, <2>2, <2>3 DEF Typed
<1>8. AllVoted'
  <2>1. Voted(x)
    <3>1. Approvals(x.decision) = {} /\ Objections(x.decision) = {}
      BY <1>1, NoneAssumption DEF Approvals, Objections
    <3>2. x.assigned # {} /\ IsFiniteSet(x.assigned) /\ Author[x.version] \notin x.assigned
      BY <1>t, <1>1, PanelsAssumption DEF Creating, OpenReview
    <3> QED BY <1>2, <3>1, <3>2 DEF Voted
  <2>2. \A r \in DOMAIN review' : Voted(review'[r])
    BY <1>5, <2>1 DEF IInv, AllVoted
  <2> QED BY <2>2 DEF AllVoted, Voted, Approvals, Objections
<1>9. KeysHeld'
  <2>1. ASSUME NEW s \in Transactions, tx'[s].doing = "creating"
        PROVE  /\ made'[tx'[s].key] = 0
               /\ \A other \in Transactions :
                    tx'[other].doing = "creating" /\ tx'[other].key = tx'[s].key => other = s
    <3>1. s # t /\ tx'[s] = tx[s] /\ tx[s] \in Creating
      BY <1>t, <1>6, <2>1 DEF Typed, Idle, Deciding
    <3>2. tx[s].key # x.key /\ tx[s].key \in Keys /\ made[tx[s].key] = 0
      BY <1>2, <2>1, <3>1 DEF IInv, KeysHeld, OpenReview, Creating
    <3>3. made'[tx[s].key] = 0
      BY <1>t, <1>6, <3>2 DEF Typed
    <3>4. \A other \in Transactions : tx'[other].doing = "creating" => tx'[other] = tx[other]
      BY <1>t, <1>6 DEF Typed, Idle
    <3> QED BY <2>1, <3>1, <3>3, <3>4 DEF IInv, KeysHeld
  <2> QED BY <2>1 DEF KeysHeld
<1>10. OncePerKey'
  <2>1. ASSUME NEW k \in Keys
        PROVE  {r \in DOMAIN review' : review'[r].key = k} = {made'[k]} \ {0}
    <3>1. {r \in DOMAIN review : review[r].key = k} = {made[k]} \ {0}
      BY DEF IInv, OncePerKey
    <3>2. CASE k = x.key
      <4>1. made'[k] = n /\ made[k] = 0
        BY <1>t, <1>6, <3>2 DEF Typed
      <4>2. \A r \in DOMAIN review : review[r].key # k
        BY <3>1, <4>1
      <4> QED BY <1>5, <3>2, <4>1, <4>2
    <3>3. CASE k # x.key
      <4>1. made'[k] = made[k]
        BY <1>t, <1>6, <3>3 DEF Typed
      <4>2. {r \in DOMAIN review' : review'[r].key = k} = {r \in DOMAIN review : review[r].key = k}
        BY <1>5, <3>3
      <4> QED BY <3>1, <4>1, <4>2
    <3> QED BY <3>2, <3>3
  <2> QED BY <2>1 DEF OncePerKey
<1>11. OneOpenReview'
  <2>1. \A r \in DOMAIN review : review[r].status = "open" => review[r].version # x.version
    BY <1>2 DEF OpenReview, MayOpen, IsOpen
  <2> QED BY <1>5, <2>1 DEF IInv, OneOpenReview, IsOpen
<1> QED BY <1>7, <1>8, <1>9, <1>10, <1>11 DEF IInv

LEMMA NextInv == IInv /\ [Next]_vars => IInv'
<1> SUFFICES ASSUME IInv, [Next]_vars PROVE IInv'
  OBVIOUS
<1>t. Typed
  BY DEF IInv
<1>1. ASSUME NEW v \in Versions, Inspected(v) PROVE IInv'
  BY <1>1, <1>t, QuietStep DEF Inspected, rows, Typed
<1>2. ASSUME NEW u \in Users, NEW p \in Offered[u], RoleChanges(u, p) PROVE IInv'
  BY <1>2, <1>t, OfferedAssumption, QuietStep DEF RoleChanges, rows, Typed
<1>3. ASSUME NEW t \in Transactions, Rollback(t) PROVE IInv'
  <2>1. Typed'
    BY <1>3, <1>t DEF Rollback, rows, Typed, Idle
  <2> QED BY <1>3, <1>t, <2>1, QuietStep DEF Rollback, rows, Typed, Idle
<1>4. ASSUME NEW t \in Transactions, NEW u \in Users, NEW v \in Versions, NEW k \in Keys,
             NEW reviewers \in Panels, RequestReview(t, u, v, k, reviewers)
      PROVE  IInv'
  <2>1. PICK request : request = [doing |-> "creating", by |-> u, version |-> v,
                                  key |-> k, reviewers |-> reviewers, seen |-> approved]
    OBVIOUS
  <2>2. request \in Creating /\ request.key = k /\ request.doing = "creating"
    BY <2>1, <1>t DEF Creating, Typed
  <2>3. /\ tx' = [tx EXCEPT ![t] = request] /\ made[k] = 0
        /\ UNCHANGED <<approved, reviewable, role, rows>>
        /\ \A s \in Transactions : tx[s].doing = "creating" => tx[s].key # k
    BY <1>4, <2>1 DEF RequestReview, KeyFree
  <2>4. Typed'
    BY <2>2, <2>3, <1>t DEF Typed, rows
  <2>5. KeysHeld'
    <3>1. tx'[t] = request /\ \A s \in Transactions : s # t => tx'[s] = tx[s]
      BY <2>3, <1>t DEF Typed
    <3> QED BY <2>2, <2>3, <3>1 DEF IInv, KeysHeld, rows
  <2>6. AllVoted' /\ OncePerKey' /\ OneOpenReview'
    BY <2>3 DEF IInv, AllVoted, OncePerKey, OneOpenReview, IsOpen, rows
  <2> QED BY <2>4, <2>5, <2>6 DEF IInv
<1>5. ASSUME NEW t \in Transactions, OpenReview(t) PROVE IInv'
  BY <1>5, OpenStep
<1>6. ASSUME NEW t \in Transactions, NEW u \in Users, NEW r \in DOMAIN review,
             NEW d \in Decisions, BeginDecide(t, u, r, d)
      PROVE  IInv'
  <2>1. PICK request : request = [doing |-> "deciding", by |-> u, review |-> r,
                                  decision |-> d, seen |-> approved]
    OBVIOUS
  <2>2. r \in 1..Len(review) /\ r \in Nat
    BY <1>t, ReviewRows
  <2>3. request \in Deciding /\ request.doing = "deciding" /\ request.review = r
    BY <2>1, <2>2, <1>t DEF Deciding, Typed
  <2>4. /\ tx' = [tx EXCEPT ![t] = request]
        /\ UNCHANGED <<approved, reviewable, role, rows>>
    BY <1>6, <2>1 DEF BeginDecide
  <2>5. Typed'
    BY <2>2, <2>3, <2>4, <1>t DEF Typed, rows
  <2>6. \A s \in Transactions : tx'[s].doing = "creating" => tx'[s] = tx[s]
    BY <2>3, <2>4, <1>t DEF Typed
  <2> QED BY <2>4, <2>5, <2>6, QuietStep DEF rows
<1>7. ASSUME NEW t \in Transactions, Decide(t) PROVE IInv'
  <2>1. PICK x \in Review :
          /\ Judges(tx[t].review, x)
          /\ approved' = IF x.status = "approved" THEN x.version ELSE approved
    BY <1>7, DecideEffect
  <2>2. tx' = [tx EXCEPT ![t] = Idle] /\ UNCHANGED <<reviewable, role, made>>
    BY <1>7 DEF Decide
  <2>3. approved' \in 0..Top
    BY <2>1, <1>t, TopAssumption DEF Review, Versions, Typed
  <2>4. review' \in Seq(Review) /\ Len(review') = Len(review)
    BY <2>1, <1>t, ReviewChange DEF Judges
  <2>5. Typed'
    BY <2>2, <2>3, <2>4, <1>t DEF Typed, Idle
  <2>6. \A s \in Transactions : tx'[s].doing = "creating" => tx'[s] = tx[s]
    BY <2>2, <1>t DEF Typed, Idle
  <2> QED BY <2>1, <2>2, <2>5, <2>6, JudgedStep
<1>8. ASSUME NEW u \in Users, NEW r \in DOMAIN review, CancelReview(u, r) PROVE IInv'
  <2>1. PICK x \in Review : Judges(r, x)
    BY <1>8, CancelEffect
  <2>2. UNCHANGED <<approved, reviewable, role, made, tx>>
    BY <1>8 DEF CancelReview
  <2>3. review' \in Seq(Review) /\ Len(review') = Len(review)
    BY <2>1, <1>t, ReviewChange DEF Judges
  <2>4. Typed'
    BY <2>2, <2>3, <1>t DEF Typed
  <2> QED BY <2>1, <2>2, <2>4, JudgedStep
<1>9. CASE UNCHANGED vars
  <2>1. Typed'
    BY <1>9, <1>t DEF vars, rows, Typed
  <2> QED BY <1>9, <2>1, QuietStep DEF vars, rows
<1> QED
  BY <1>1, <1>2, <1>3, <1>4, <1>5, <1>6, <1>7, <1>8, <1>9 DEF Next, Transaction

(* Votes, keys and open reviews agree with the rows in every state the     *)
(* review store can reach.                                                 *)
THEOREM Invariance == Spec => []IInv
BY InitInv, NextInv, PTL DEF Spec

(* Rows keep the shapes of the schema; the records name reviews that exist.*)
THEOREM TypeCorrect == Spec => []TypeOK
<1>1. IInv => TypeOK
  BY DEF IInv, Typed, TypeOK, Idle, Creating, Deciding
<1> QED BY <1>1, Invariance, PTL

(* The status of a review is what its decisions say, whoever decided at    *)
(* the same time.                                                          *)
THEOREM StatusFollowsVotes == Spec => []VotesDecide
<1>1. IInv => VotesDecide
  BY DEF IInv, AllVoted, Voted, Objections, VotesDecide
<1> QED BY <1>1, Invariance, PTL

(* A key opens one review, however its requests are repeated.              *)
THEOREM KeysOpenOnce == Spec => []OncePerKey
<1>1. IInv => OncePerKey
  BY DEF IInv
<1> QED BY <1>1, Invariance, PTL

(* A version has one open review at most.                                  *)
THEOREM ReviewsDoNotOverlap == Spec => []OneOpenReview
<1>1. IInv => OneOpenReview
  BY DEF IInv
<1> QED BY <1>1, Invariance, PTL

-----------------------------------------------------------------------------
(* What a step does to the reviews and the approved pointer.               *)
LEMMA ReviewSteps ==
  ASSUME IInv, [Next]_vars
  PROVE  \/ UNCHANGED <<approved, review>>
         \/ \E t \in Transactions : OpenReview(t)
         \/ \E r \in DOMAIN review, x \in Review :
              /\ Judges(r, x)
              /\ approved' = IF x.status = "approved" THEN x.version ELSE approved
              /\ x.status = "superseded" => approved >= x.version
<1>1. ASSUME NEW t \in Transactions, Decide(t)
      PROVE  \E r \in DOMAIN review, x \in Review :
               /\ Judges(r, x)
               /\ approved' = IF x.status = "approved" THEN x.version ELSE approved
               /\ x.status = "superseded" => approved >= x.version
  BY <1>1, DecideEffect
<1>2. ASSUME NEW u \in Users, NEW r \in DOMAIN review, CancelReview(u, r)
      PROVE  \E x \in Review :
               /\ Judges(r, x)
               /\ approved' = IF x.status = "approved" THEN x.version ELSE approved
               /\ x.status = "superseded" => approved >= x.version
  BY <1>2, CancelEffect DEF CancelReview
<1> QED BY <1>1, <1>2 DEF Next, Transaction, Inspected, RoleChanges, RequestReview,
                          BeginDecide, Rollback, rows, vars

LEMMA OpenKeeps ==
  ASSUME IInv, NEW t \in Transactions, OpenReview(t)
  PROVE  approved' = approved /\ \A r \in DOMAIN review : review'[r] = review[r]
<1>1. review \in Seq(Review) /\ DOMAIN review = 1..Len(review) /\ tx[t] \in Creating
  BY ReviewRows DEF IInv, Typed, OpenReview, Idle, Deciding
<1>2. PICK x : x = [status |-> "open", version |-> tx[t].version,
                    requester |-> tx[t].by, assigned |-> tx[t].reviewers,
                    decision |-> [u \in Users |-> None], key |-> tx[t].key]
  OBVIOUS
<1>3. x \in Review /\ review' = Append(review, x)
  BY <1>1, <1>2, PanelsAssumption DEF Creating, Review, OpenReview
<1> QED BY <1>1, <1>3, AppendProperties DEF OpenReview

(* No decision is changed, and no review that is closed, whatever waits    *)
(* for its lock.                                                           *)
THEOREM EvidenceIsKept == Spec => EvidenceKept
<1>1. ASSUME IInv, [Next]_vars, NEW r \in DOMAIN review PROVE ReviewKept(r)
  <2>1. CASE UNCHANGED <<approved, review>>
    BY <2>1 DEF ReviewKept
  <2>2. CASE \E t \in Transactions : OpenReview(t)
    BY <1>1, <2>2, OpenKeeps DEF ReviewKept
  <2>3. CASE \E q \in DOMAIN review, x \in Review : Judges(q, x)
    <3>1. PICK q \in DOMAIN review, x \in Review : Judges(q, x)
      BY <2>3
    <3>2. /\ review'[q] = x
          /\ r # q => review'[r] = review[r]
      BY <1>1, <3>1, ReviewChange DEF IInv, Judges
    <3>3. CASE r = q
      BY <3>1, <3>2, <3>3 DEF Judges, ReviewKept
    <3>4. CASE r # q
      BY <3>2, <3>4 DEF ReviewKept
    <3> QED BY <3>3, <3>4
  <2> QED BY <1>1, <2>1, <2>2, <2>3, ReviewSteps
<1>2. IInv /\ [Next]_vars => [\A r \in DOMAIN review : ReviewKept(r)]_vars
  BY <1>1
<1> QED BY <1>2, Invariance, PTL DEF Spec, EvidenceKept

(* The approved pointer moves in the step that approves a review, to the   *)
(* version of that review, and a review is superseded only by an approval  *)
(* of the same or a later version.                                         *)
THEOREM PointerFollows == Spec => PointerFollowsVotes
<1>1. ASSUME IInv, [Next]_vars PROVE PointerStep
  <2>1. CASE UNCHANGED <<approved, review>>
    BY <2>1 DEF PointerStep, SupersededRightly, IsOpen
  <2>2. CASE \E t \in Transactions : OpenReview(t)
    BY <1>1, <2>2, OpenKeeps DEF PointerStep, SupersededRightly, IsOpen
  <2>3. ASSUME NEW q \in DOMAIN review, NEW x \in Review, Judges(q, x),
               approved' = IF x.status = "approved" THEN x.version ELSE approved,
               x.status = "superseded" => approved >= x.version
        PROVE  PointerStep
    <3>1. review'[q] = x /\ \A r \in DOMAIN review : r # q => review'[r] = review[r]
      BY <1>1, <2>3, ReviewChange DEF IInv, Judges
    <3>2. approved' # approved => Elects(q)
      BY <2>3, <3>1 DEF Judges, Elects
    <3>3. \A r \in DOMAIN review : SupersededRightly(r)
      BY <2>3, <3>1 DEF Judges, SupersededRightly, IsOpen
    <3> QED BY <3>2, <3>3 DEF PointerStep
  <2> QED BY <1>1, <2>1, <2>2, <2>3, ReviewSteps
<1>2. IInv /\ [Next]_vars => [PointerStep]_vars
  BY <1>1
<1> QED BY <1>2, Invariance, PTL DEF Spec, PointerFollowsVotes

=============================================================================
