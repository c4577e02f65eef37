------------------------- MODULE Membership_proofs -------------------------
(***************************************************************************)
(* Proofs about Membership, for every set of users, roles, sessions,       *)
(* invitations and requests.                                               *)
(***************************************************************************)
EXTENDS Membership, TLAPS

Changing(row) == row.pc \in {"searching", "ready"}
Accepting(row) == row.pc = "accepting"

(* What a request carries at each stage.                                   *)
Carries(row) ==
  /\ row.pc \in {"allowed", "inviting"} => row.role \in Roles
  /\ row.pc = "inviting" =>
       /\ row.target \in Users
       /\ row.op \in Roles
       /\ CanManage(row.role, row.op, row.op)
  /\ row.pc \in {"mailing", "accepting"} =>
       row.invite \in Invites /\ invite[row.invite] # None
  /\ Accepting(row) => row.target \in Users /\ row.target \in known
  /\ Changing(row) => row.target \in Users /\ row.op \in Ops

Carrying == \A r \in Requests : Carries(request[r])

(* Members and the people of sessions have logged in.                      *)
LoggedIn ==
  /\ \A u \in Users : IsMember(u) => u \in known
  /\ \A s \in Sessions : session[s] # None => session[s].user \in known

Shape == TypeOK /\ Carrying /\ LoggedIn

LEMMA ShapeInit == Init => Shape
BY DEF Init, Idle, Shape, TypeOK, Carrying, LoggedIn, Request, Carries, Changing, Accepting, IsMember

(* Rows stay, people stay known, and one request changes.                  *)
LEMMA RequestChange ==
  ASSUME TypeOK, Carrying, NEW r \in Requests, NEW row \in Request,
         request' = [request EXCEPT ![r] = row], Carries(row)',
         known \subseteq known',
         \A i \in Invites : invite[i] # None => invite'[i] # None
  PROVE  request' \in [Requests -> Request] /\ Carrying'
BY DEF TypeOK, Carrying, Carries, Accepting, Changing

LEMMA RequestsKept ==
  ASSUME TypeOK, Carrying, request' = request, known \subseteq known',
         \A i \in Invites : invite[i] # None => invite'[i] # None
  PROVE  Carrying'
BY DEF TypeOK, Carrying, Carries, Accepting, Changing

LEMMA IdleRow == Idle \in Request /\ Carries(Idle)' /\ Idle.pc = "idle" /\ Idle.held = {}
BY DEF Idle, Request, Carries, Accepting, Changing

(* An invitation changes, and is there afterwards.                         *)
LEMMA InviteChange ==
  ASSUME TypeOK, NEW i \in Invites, NEW row \in Invite,
         invite' = [invite EXCEPT ![i] = row]
  PROVE  /\ invite' \in [Invites -> Invite \cup {None}]
         /\ invite'[i] # None
         /\ \A j \in Invites : invite[j] # None => invite'[j] # None
BY NoneAssumption DEF TypeOK, Invite

LEMMA ShapeStep ==
  ASSUME Shape, [Next]_vars
  PROVE  Shape'
<1>t. TypeOK /\ Carrying /\ LoggedIn
  BY DEF Shape
<1>1. ASSUME NEW s \in Sessions, NEW u \in Users, Login(u, s) PROVE Shape'
  <2>1. Carrying'
    BY <1>1, <1>t, RequestsKept DEF Login
  <2>2. IsMember(u) => u \in known
    BY <1>t DEF LoggedIn
  <2>3. PICK row \in Member \cup {None} :
          /\ member' = [member EXCEPT ![u] = row]
          /\ session' = [session EXCEPT ![s] =
               [user |-> u, kind |-> "cookie", org |-> IF row = None THEN "away" ELSE "here"]]
    BY <1>1, <1>t, PolicyAssumption DEF Login, Admitted, TypeOK, Member, Roles, High
  <2> QED BY <1>1, <1>t, <2>1, <2>3 DEF Login, Shape, TypeOK, LoggedIn, IsMember, Session
<1>2. ASSUME NEW s \in Sessions, SessionEnds(s) PROVE Shape'
  BY <1>2, <1>t, RequestsKept DEF SessionEnds, Shape, TypeOK, LoggedIn, IsMember
<1>3. ASSUME NEW s \in Sessions, NEW org \in {"here", "away"}, Switch(s, org) PROVE Shape'
  BY <1>3, <1>t, RequestsKept DEF Switch, Session, IsCookie, Shape, TypeOK, LoggedIn, IsMember
<1>4. ASSUME NEW s \in Sessions, NEW t \in Sessions, CreateHandoff(s, t) PROVE Shape'
  BY <1>4, <1>t, RequestsKept DEF CreateHandoff, Session, IsCookie, Shape, TypeOK, LoggedIn, IsMember
<1>5. ASSUME NEW s \in Sessions, ExchangeHandoff(s) PROVE Shape'
  BY <1>5, <1>t, RequestsKept DEF ExchangeHandoff, Session, Shape, TypeOK, LoggedIn, IsMember
<1>q. ASSUME NEW r \in Requests, NEW row \in Request, Carries(row)',
             request' = [request EXCEPT ![r] = row],
             UNCHANGED <<known, member, session, invite>>, begun' \in Nat
      PROVE  Shape'
  <2>1. request' \in [Requests -> Request] /\ Carrying'
    BY <1>q, <1>t, RequestChange
  <2> QED BY <2>1, <1>q, <1>t DEF Shape, TypeOK, LoggedIn, IsMember
<1>6. ASSUME NEW r \in Requests, NEW s \in Sessions, Authorize(r, s) PROVE Shape'
  <2> DEFINE role == member[session[s].user].role
  <2>0. PICK row : row = [Idle EXCEPT !.pc = "allowed", !.role = role]
    OBVIOUS
  <2>1. role \in Roles
    BY <2>0, <1>6 DEF Authorize, Roles
  <2>2. row \in Request /\ Carries(row)'
    BY <2>0, <2>1 DEF Idle, Request, Carries, Accepting, Changing
  <2>3. request' = [request EXCEPT ![r] = row] /\ begun' \in Nat
    BY <2>0, <1>6, <1>t DEF Authorize, TypeOK
  <2> QED BY <2>2, <2>3, <1>6, <1>q DEF Authorize
<1>7. ASSUME NEW r \in Requests, NEW u \in Users, NEW op \in Ops, LockTarget(r, u, op)
      PROVE  Shape'
  <2>0. PICK row : row = [request[r] EXCEPT !.target = u, !.op = op, !.held = {u},
                       !.pc = IF LosesOwner(member[u], op) THEN "searching" ELSE "ready"]
    OBVIOUS
  <2>1. row \in Request /\ Carries(row)'
    BY <2>0, <1>t DEF TypeOK, Request, Carries, Accepting, Changing
  <2>2. request' = [request EXCEPT ![r] = row] /\ begun' \in Nat
    BY <2>0, <1>7, <1>t DEF LockTarget, TypeOK, Request
  <2> QED BY <2>1, <2>2, <1>7, <1>q DEF LockTarget
<1>8. ASSUME NEW r \in Requests, NEW u \in Users, FindOwner(r, u) PROVE Shape'
  <2>0. PICK row : row = [request[r] EXCEPT !.pc = "ready", !.held = @ \cup {u}]
    OBVIOUS
  <2>1. row \in Request
    BY <2>0, <1>t DEF TypeOK, Request
  <2>2. row.target = request[r].target /\ row.op = request[r].op /\ row.pc = "ready"
    BY <2>0, <1>t DEF TypeOK, Request
  <2>3. Carries(row)'
    BY <2>0, <1>8, <1>t, <2>2 DEF FindOwner, Carrying, Carries, Accepting, Changing
  <2>4. request' = [request EXCEPT ![r] = row] /\ begun' \in Nat
    BY <2>0, <1>8, <1>t DEF FindOwner, TypeOK, Request
  <2> QED BY <2>1, <2>3, <2>4, <1>8, <1>q DEF FindOwner
<1>9. ASSUME NEW r \in Requests, Commit(r) PROVE Shape'
  <2>1. request' \in [Requests -> Request] /\ Carrying'
    BY <1>9, <1>t, IdleRow, RequestChange DEF Commit
  <2>2. request[r].target \in Users /\ request[r].op \in Ops
    BY <1>9, <1>t DEF Commit, Carrying, Carries, Changing
  <2>3. Changed(member[request[r].target], request[r].op) \in Member \cup {None}
    BY <1>9, <1>t, <2>2 DEF Commit, TypeOK, Changed, Ops, Member, IsMember
  <2> QED BY <1>9, <1>t, <2>1, <2>2, <2>3 DEF Commit, Shape, TypeOK, LoggedIn, IsMember
<1>10. ASSUME NEW r \in Requests, Rollback(r) \/ MailSent(r) PROVE Shape'
  BY <1>10, <1>q, <1>t, IdleRow DEF Rollback, MailSent, TypeOK
<1>11. ASSUME NEW r \in Requests, NEW u \in Users, NEW role \in Roles,
              CheckInvitation(r, u, role)
       PROVE  Shape'
  <2>0. PICK row : row = [request[r] EXCEPT !.pc = "inviting", !.target = u, !.op = role]
    OBVIOUS
  <2>1. row \in Request /\ row.role = request[r].role
        /\ row.pc = "inviting" /\ row.target = u /\ row.op = role
    BY <2>0, <1>t DEF TypeOK, Request, Ops
  <2>2. Carries(row)'
    BY <2>0, <1>11, <1>t, <2>1 DEF CheckInvitation, Carrying, Carries, Accepting, Changing
  <2>3. request' = [request EXCEPT ![r] = row] /\ begun' \in Nat
    BY <2>0, <1>11, <1>t DEF CheckInvitation, TypeOK, Request
  <2> QED BY <2>1, <2>2, <2>3, <1>11, <1>q DEF CheckInvitation
<1>12. ASSUME NEW r \in Requests, NEW i \in Invites, InsertInvitation(r, i) PROVE Shape'
  <2>0. PICK row : row = [request[r] EXCEPT !.pc = "mailing", !.invite = i]
    OBVIOUS
  <2>1. /\ request[r].target \in Users /\ request[r].op \in Roles
        /\ request[r].role \in Roles
    BY <2>0, <1>12, <1>t DEF InsertInvitation, Carrying, Carries
  <2>2. /\ invite' \in [Invites -> Invite \cup {None}] /\ invite'[i] # None
        /\ \A j \in Invites : invite[j] # None => invite'[j] # None
    BY <2>0, <1>12, <1>t, <2>1, InviteChange DEF InsertInvitation, Invite
  <2>3. row \in Request /\ row.pc = "mailing" /\ row.invite = i
    BY <2>0, <1>t DEF TypeOK, Request
  <2>4. Carries(row)'
    BY <2>0, <2>2, <2>3 DEF Carries, Accepting, Changing
  <2>5. request' = [request EXCEPT ![r] = row]
    BY <2>0, <1>12, <1>t DEF InsertInvitation, TypeOK, Request
  <2>6. request' \in [Requests -> Request] /\ Carrying'
    BY <2>0, <1>12, <1>t, <2>2, <2>3, <2>4, <2>5, RequestChange DEF InsertInvitation
  <2> QED BY <1>12, <1>t, <2>2, <2>6 DEF InsertInvitation, Shape, TypeOK, LoggedIn, IsMember
<1>13. ASSUME NEW r \in Requests, MailFails(r) PROVE Shape'
  <2>1. request[r].invite \in Invites /\ invite[request[r].invite] \in Invite
    BY <1>13, <1>t DEF MailFails, Carrying, Carries, TypeOK
  <2>2. /\ invite' \in [Invites -> Invite \cup {None}]
        /\ \A j \in Invites : invite[j] # None => invite'[j] # None
    <3> DEFINE row == [invite[request[r].invite] EXCEPT
                         !.revoked = @ \/ ~invite[request[r].invite].accepted]
    <3>1. row \in Invite
      BY <2>1 DEF Invite
    <3>2. invite' = [invite EXCEPT ![request[r].invite] = row]
      BY <1>13, <1>t, <2>1 DEF MailFails, TypeOK, Invite
    <3> QED BY <2>1, <3>1, <3>2, <1>t, InviteChange
  <2>3. request' \in [Requests -> Request] /\ Carrying'
    BY <1>13, <1>t, <2>2, IdleRow, RequestChange DEF MailFails
  <2> QED BY <1>13, <1>t, <2>2, <2>3 DEF MailFails, Shape, TypeOK, LoggedIn, IsMember
<1>15. ASSUME NEW r \in Requests, NEW s \in Sessions, NEW i \in Invites,
              LockInvitation(r, s, i)
       PROVE  Shape'
  <2>0. PICK row : row = [Idle EXCEPT !.pc = "accepting", !.target = session[s].user, !.invite = i]
    OBVIOUS
  <2>1. session[s].user \in Users /\ session[s].user \in known /\ invite[i] # None
    BY <2>0, <1>15, <1>t DEF LockInvitation, IsCookie, Pending, TypeOK, LoggedIn, Session
  <2>2. row \in Request /\ Carries(row)'
    BY <2>0, <1>15, <2>1 DEF LockInvitation, Idle, Request, Carries, Accepting, Changing
  <2>3. request' = [request EXCEPT ![r] = row] /\ begun' \in Nat
    BY <2>0, <1>15, <1>t DEF LockInvitation, TypeOK
  <2> QED BY <2>2, <2>3, <1>15, <1>q DEF LockInvitation
<1>16. ASSUME NEW r \in Requests, NEW moved \in SUBSET Sessions, Accept(r, moved)
       PROVE  Shape'
  <2>1. /\ request[r].invite \in Invites /\ invite[request[r].invite] \in Invite
        /\ request[r].target \in Users /\ request[r].target \in known
    BY <1>16, <1>t DEF Accept, Carrying, Carries, TypeOK, Accepting
  <2>2. /\ invite' \in [Invites -> Invite \cup {None}]
        /\ \A j \in Invites : invite[j] # None => invite'[j] # None
    <3>0. PICK old \in Invite : old = invite[request[r].invite]
      BY <2>1
    <3> DEFINE row == [old EXCEPT !.accepted = TRUE, !.joined = @ + 1]
    <3>1. row \in Invite
      <4>1. old.joined + 1 \in Nat
        BY DEF Invite
      <4> QED BY <4>1 DEF Invite
    <3>2. invite' = [invite EXCEPT ![request[r].invite] = row]
      BY <1>16, <1>t, <2>1, <3>0 DEF Accept, TypeOK, Invite
    <3> QED BY <2>1, <3>1, <3>2, <1>t, InviteChange
  <2>3. request' \in [Requests -> Request] /\ Carrying'
    BY <1>16, <1>t, <2>2, IdleRow, RequestChange DEF Accept
  <2>4. member' \in [Users -> Member \cup {None}]
    BY <1>16, <1>t, <2>1 DEF Accept, TypeOK, Member, Invite
  <2>5. session' \in [Sessions -> Session \cup {None}]
        /\ \A s \in Sessions : session'[s] # None =>
              session[s] # None /\ session'[s].user = session[s].user
    BY <1>16, <1>t DEF Accept, TypeOK, Session
  <2>6. LoggedIn'
    BY <1>16, <1>t, <2>1, <2>5 DEF Accept, TypeOK, LoggedIn, IsMember
  <2> QED BY <1>16, <1>t, <2>2, <2>3, <2>4, <2>5, <2>6 DEF Accept, Shape, TypeOK
<1>17. ASSUME NEW i \in Invites, Expires(i) PROVE Shape'
  <2>1. invite[i] \in Invite
    BY <1>17, <1>t DEF Expires, Pending, TypeOK
  <2>2. /\ invite' \in [Invites -> Invite \cup {None}]
        /\ \A j \in Invites : invite[j] # None => invite'[j] # None
    <3> DEFINE row == [invite[i] EXCEPT !.expired = TRUE]
    <3>1. row \in Invite
      BY <2>1 DEF Invite
    <3>2. invite' = [invite EXCEPT ![i] = row]
      BY <1>17, <1>t, <2>1 DEF Expires, TypeOK, Invite
    <3> QED BY <3>1, <3>2, <1>t, InviteChange
  <2> QED BY <1>17, <1>t, <2>2, RequestsKept DEF Expires, Shape, TypeOK, LoggedIn, IsMember
<1>18. CASE UNCHANGED vars
  BY <1>18, <1>t, RequestsKept DEF vars, Shape, TypeOK, LoggedIn, IsMember
<1> QED
  BY <1>1, <1>2, <1>3, <1>4, <1>5, <1>6, <1>7, <1>8, <1>9, <1>10, <1>11, <1>12, <1>13,
     <1>15, <1>16, <1>17, <1>18
     DEF Next, SessionStep, Manage, Invitation

-----------------------------------------------------------------------------
(* The locks.                                                              *)

(* A transaction that changes a row has locked it, and may change it.      *)
Holding ==
  \A r \in Requests : Changing(request[r]) =>
    /\ request[r].target \in request[r].held
    /\ IsMember(request[r].target)
    /\ CanManage(request[r].role, member[request[r].target].role, request[r].op)

(* No two transactions lock the same row.                                  *)
Exclusive ==
  \A q, r \in Requests : q # r => request[q].held \cap request[r].held = {}

(* One that is to take an owner away has locked another one.               *)
Covers(r) ==
  /\ request[r].pc = "ready"
  /\ LosesOwner(member[request[r].target], request[r].op)
  => \E u \in request[r].held : u # request[r].target /\ IsActiveOwner(u)

Covered == \A r \in Requests : Covers(r)

Locks == Holding /\ Exclusive /\ Covered

(* Requests neither change nor take rows.                                  *)
SameLocks(r) ==
  /\ request'[r].held = request[r].held
  /\ Changing(request'[r]) => request'[r] = request[r]

NoLocks(r) == request'[r].held = {} /\ ~Changing(request'[r])

(* Members are left as they are.                                           *)
MembersKept == \A u \in Users : IsMember(u) => member'[u] = member[u]

LEMMA QuietLocks ==
  ASSUME Shape, Locks, MembersKept,
         \A r \in Requests : SameLocks(r) \/ NoLocks(r)
  PROVE  Locks'
<1>t. \A r \in Requests : Changing(request[r]) => request[r].target \in Users
  BY DEF Shape, Carrying, Carries
<1>h. \A r \in Requests : request[r].held \subseteq Users
  BY DEF Shape, TypeOK, Request
<1>1. Holding'
  BY <1>t DEF Locks, Holding, SameLocks, NoLocks, MembersKept, IsMember, CanManage, Changing
<1>2. Exclusive'
  BY DEF Locks, Exclusive, SameLocks, NoLocks
<1>3. Covered'
  <2>1. \A u \in Users : IsActiveOwner(u) => IsActiveOwner(u)'
    BY DEF MembersKept, IsActiveOwner, IsActive, IsMember
  <2>2. ASSUME NEW r \in Requests, request'[r].pc = "ready",
               LosesOwner(member'[request'[r].target], request'[r].op)
        PROVE  \E u \in request'[r].held : u # request'[r].target /\ IsActiveOwner(u)'
    <3>1. request'[r] = request[r] /\ Changing(request[r])
      BY <2>2 DEF SameLocks, NoLocks, Changing
    <3>2. member'[request[r].target] = member[request[r].target]
      BY <3>1, <1>t DEF MembersKept, Locks, Holding
    <3> QED BY <2>1, <2>2, <3>1, <3>2, <1>h DEF Locks, Covered, Covers
  <2> QED BY <2>2 DEF Covered, Covers
<1> QED BY <1>1, <1>2, <1>3 DEF Locks

LEMMA LocksInit == Init => Locks
BY DEF Init, Idle, Locks, Holding, Exclusive, Covered, Covers, Changing

LEMMA RequestKept ==
  ASSUME Shape, request' = request
  PROVE  \A r \in Requests : SameLocks(r)
BY DEF SameLocks

LEMMA RequestEnds ==
  ASSUME Shape, NEW r \in Requests, request' = [request EXCEPT ![r] = Idle]
  PROVE  \A q \in Requests : IF q = r THEN NoLocks(q) ELSE SameLocks(q)
BY IdleRow DEF Shape, TypeOK, SameLocks, NoLocks, Changing

(* A transaction locks a row that nobody has locked.                       *)
LEMMA OthersExclusive ==
  ASSUME Exclusive, NEW r \in Requests, NEW u \in Users,
         \A q \in Requests : u \notin request[q].held,
         request'[r].held \in {{u}, request[r].held \cup {u}},
         \A q \in Requests : q # r => request'[q] = request[q]
  PROVE  Exclusive'
<1>1. ASSUME NEW q \in Requests, q # r
      PROVE  request'[q].held \cap request'[r].held = {}
  BY <1>1 DEF Exclusive
<1>2. ASSUME NEW p \in Requests, NEW q \in Requests, p # r, q # r, p # q
      PROVE  request'[p].held \cap request'[q].held = {}
  BY <1>2 DEF Exclusive
<1> QED BY <1>1, <1>2 DEF Exclusive

LEMMA LocksStep ==
  ASSUME Shape, Locks, [Next]_vars
  PROVE  Locks'
<1>t. TypeOK /\ Carrying /\ LoggedIn
  BY DEF Shape
<1>1. ASSUME NEW s \in Sessions, NEW u \in Users, Login(u, s) PROVE Locks'
  <2>1. MembersKept
    BY <1>1, <1>t DEF Login, Admitted, MembersKept, LoggedIn, TypeOK, IsMember
  <2> QED BY <2>1, <1>1, RequestKept, QuietLocks DEF Login
<1>2. ASSUME UNCHANGED <<member, request>> PROVE Locks'
  <2>1. MembersKept
    BY <1>2 DEF MembersKept
  <2> QED BY <2>1, <1>2, RequestKept, QuietLocks
<1>3. ASSUME NEW r \in Requests, ~Changing(request'[r]), member' = member,
             request'[r].held \in {{}, request[r].held},
             \A q \in Requests : q # r => request'[q] = request[q]
      PROVE  Locks'
  <2>1. \A q \in Requests : SameLocks(q) \/ NoLocks(q)
    BY <1>3 DEF SameLocks, NoLocks
  <2> QED BY <2>1, <1>3, QuietLocks DEF MembersKept
<1>4. ASSUME NEW r \in Requests, NEW s \in Sessions, Authorize(r, s) PROVE Locks'
  BY <1>4, <1>3, <1>t DEF Authorize, TypeOK, Idle, Changing
<1>5. ASSUME NEW r \in Requests, NEW u \in Users, NEW op \in Ops, LockTarget(r, u, op)
      PROVE  Locks'
  <2>1. /\ request'[r].target = u /\ request'[r].op = op /\ request'[r].held = {u}
        /\ request'[r].role = request[r].role
        /\ request'[r].pc = IF LosesOwner(member[u], op) THEN "searching" ELSE "ready"
        /\ \A q \in Requests : q # r => request'[q] = request[q]
        /\ member' = member
    BY <1>5, <1>t DEF LockTarget, TypeOK, Request
  <2>2. Holding'
    BY <2>1, <1>5 DEF LockTarget, Locks, Holding, IsMember, CanManage, Changing
  <2>3. Exclusive'
    <3>1. \A q \in Requests : u \notin request[q].held
      BY <1>5 DEF LockTarget, Locked
    <3> QED BY <2>1, <3>1, OthersExclusive DEF Locks
  <2>4. Covered'
    <3>1. \A q \in Requests : q # r => Covers(q)'
      BY <2>1 DEF Locks, Covered, Covers, IsActiveOwner, IsActive, IsMember, LosesOwner
    <3>2. Covers(r)'
      BY <2>1 DEF Covers
    <3> QED BY <3>1, <3>2 DEF Covered
  <2> QED BY <2>2, <2>3, <2>4 DEF Locks
<1>6. ASSUME NEW r \in Requests, NEW u \in Users, FindOwner(r, u) PROVE Locks'
  <2>1. /\ request'[r].target = request[r].target /\ request'[r].op = request[r].op
        /\ request'[r].held = request[r].held \cup {u}
        /\ request'[r].role = request[r].role /\ request'[r].pc = "ready"
        /\ \A q \in Requests : q # r => request'[q] = request[q]
        /\ member' = member
    BY <1>6, <1>t DEF FindOwner, TypeOK, Request
  <2>2. Holding'
    BY <2>1, <1>6 DEF FindOwner, Locks, Holding, IsMember, CanManage, Changing
  <2>3. Exclusive'
    <3>1. \A q \in Requests : u \notin request[q].held
      BY <1>6 DEF FindOwner, Locked
    <3> QED BY <2>1, <3>1, OthersExclusive DEF Locks
  <2>4. Covered'
    <3>1. \A q \in Requests : q # r => Covers(q)'
      BY <2>1 DEF Locks, Covered, Covers, IsActiveOwner, IsActive, IsMember, LosesOwner
    <3>2. u # request[r].target /\ IsActiveOwner(u)'
      BY <2>1, <1>6 DEF FindOwner, IsActiveOwner, IsActive, IsMember
    <3>3. Covers(r)'
      BY <2>1, <3>2 DEF Covers
    <3> QED BY <3>1, <3>3 DEF Covered
  <2> QED BY <2>2, <2>3, <2>4 DEF Locks
<1>7. ASSUME NEW r \in Requests, Commit(r) PROVE Locks'
  <2>1. /\ \A u \in Users : u # request[r].target => member'[u] = member[u]
        /\ request' = [request EXCEPT ![r] = Idle]
    BY <1>7, <1>t DEF Commit, TypeOK
  <2>2. \A q \in Requests : IF q = r THEN NoLocks(q) ELSE SameLocks(q)
    BY <2>1, RequestEnds
  <2>3. request[r].target \in request[r].held
    BY <1>7 DEF Commit, Locks, Holding, Changing
  <2>4. \A q \in Requests : q # r => request[r].target \notin request[q].held
    BY <2>3 DEF Locks, Exclusive
  <2>5. \A q \in Requests : request[q].held \subseteq Users
    BY <1>t DEF TypeOK, Request
  <2>6. Holding'
    BY <2>1, <2>2, <2>4, <2>5
       DEF Locks, Holding, SameLocks, NoLocks, IsMember, CanManage, Changing
  <2>7. Exclusive'
    BY <2>2 DEF Locks, Exclusive, SameLocks, NoLocks
  <2>8. ASSUME NEW q \in Requests, request'[q].pc = "ready",
               LosesOwner(member'[request'[q].target], request'[q].op)
        PROVE  \E u \in request'[q].held : u # request'[q].target /\ IsActiveOwner(u)'
    <3>1. q # r /\ request'[q] = request[q] /\ Changing(request[q])
      BY <2>2, <2>8 DEF SameLocks, NoLocks, Changing
    <3>2. \A u \in request[q].held : member'[u] = member[u]
      BY <2>1, <2>4, <2>5, <3>1
    <3>3. request[q].target \in request[q].held
      BY <3>1 DEF Locks, Holding
    <3>4. PICK u \in request[q].held : u # request[q].target /\ IsActiveOwner(u)
      BY <2>8, <3>1, <3>2, <3>3 DEF Locks, Covered, Covers
    <3> QED BY <3>1, <3>2, <3>4 DEF IsActiveOwner, IsActive, IsMember
  <2> QED BY <2>6, <2>7, <2>8 DEF Locks, Covered, Covers
<1>8. ASSUME NEW r \in Requests, Rollback(r) \/ MailSent(r) \/ MailFails(r) PROVE Locks'
  <2>1. request' = [request EXCEPT ![r] = Idle] /\ member' = member
    BY <1>8 DEF Rollback, MailSent, MailFails
  <2> QED BY <2>1, RequestEnds, QuietLocks DEF MembersKept
<1>9. ASSUME NEW r \in Requests, NEW u \in Users, NEW role \in Roles,
             CheckInvitation(r, u, role)
      PROVE  Locks'
  BY <1>9, <1>3, <1>t DEF CheckInvitation, TypeOK, Request, Changing
<1>10. ASSUME NEW r \in Requests, NEW i \in Invites, InsertInvitation(r, i) PROVE Locks'
  BY <1>10, <1>3, <1>t DEF InsertInvitation, TypeOK, Request, Changing
<1>11. ASSUME NEW r \in Requests, NEW s \in Sessions, NEW i \in Invites,
              LockInvitation(r, s, i)
       PROVE  Locks'
  BY <1>11, <1>3, <1>t DEF LockInvitation, TypeOK, Idle, Changing
<1>12. ASSUME NEW r \in Requests, NEW moved \in SUBSET Sessions, Accept(r, moved)
       PROVE  Locks'
  <2>1. MembersKept /\ request' = [request EXCEPT ![r] = Idle]
    BY <1>12, <1>t DEF Accept, TypeOK, MembersKept, IsMember
  <2> QED BY <2>1, RequestEnds, QuietLocks
<1> QED
  BY <1>1, <1>2, <1>4, <1>5, <1>6, <1>7, <1>8, <1>9, <1>10, <1>11, <1>12
     DEF Next, SessionStep, Manage, Invitation, SessionEnds, Switch, CreateHandoff,
         ExchangeHandoff, Expires, vars

(* The steps that change memberships.                                      *)
LEMMA MembershipSteps ==
  ASSUME [Next]_vars
  PROVE  \/ \E s \in Sessions, u \in Users : Login(u, s)
         \/ \E r \in Requests : Commit(r)
         \/ \E r \in Requests : \E moved \in SUBSET Sessions : Accept(r, moved)
         \/ UNCHANGED <<known, member>>
<1>1. ASSUME NEW s \in Sessions, SessionStep(s)
      PROVE  (\E u \in Users : Login(u, s)) \/ UNCHANGED <<known, member>>
  BY <1>1 DEF SessionStep, SessionEnds, Switch, CreateHandoff, ExchangeHandoff
<1>2. ASSUME NEW r \in Requests, Manage(r)
      PROVE  Commit(r) \/ UNCHANGED <<known, member>>
  BY <1>2 DEF Manage, Authorize, LockTarget, FindOwner, Rollback
<1>3. ASSUME NEW r \in Requests, Invitation(r)
      PROVE  (\E moved \in SUBSET Sessions : Accept(r, moved)) \/ UNCHANGED <<known, member>>
  BY <1>3 DEF Invitation, CheckInvitation, InsertInvitation, MailFails, MailSent,
              LockInvitation
<1> QED BY <1>1, <1>2, <1>3 DEF Next, Expires, vars

(* Nobody takes the last active owner away.                                *)
LEMMA OwnerStep ==
  ASSUME Shape, Locks, OwnerRemains, [Next]_vars
  PROVE  OwnerRemains'
<1>t. TypeOK /\ Carrying /\ LoggedIn
  BY DEF Shape
<1> USE DEF IsActiveOwner, IsActive, IsMember
<1>1. ASSUME MembersKept, known' = known PROVE OwnerRemains'
  BY <1>1 DEF OwnerRemains, Founded, MembersKept
<1>2. ASSUME NEW s \in Sessions, NEW u \in Users, Login(u, s) PROVE OwnerRemains'
  <2>1. CASE u = Founder /\ u \notin known
    <3>1. member'[u] = [role |-> "owner", status |-> "active"]
      BY <1>2, <1>t, <2>1 DEF Login, Admitted, LoggedIn, TypeOK
    <3> QED BY <3>1, NoneAssumption DEF OwnerRemains, Roles, High
  <2>2. CASE u # Founder \/ u \in known
    <3>1. MembersKept /\ Founded' = Founded
      BY <1>2, <1>t, <2>2 DEF Login, Admitted, MembersKept, LoggedIn, TypeOK, Founded
    <3> QED BY <3>1 DEF OwnerRemains, MembersKept
  <2> QED BY <2>1, <2>2
<1>3. ASSUME UNCHANGED <<known, member>> PROVE OwnerRemains'
  BY <1>3, <1>1 DEF MembersKept
<1>4. ASSUME NEW r \in Requests, Commit(r) PROVE OwnerRemains'
  <2>0. PICK w : w = request[r].target
    OBVIOUS
  <2>1. /\ w \in Users /\ IsMember(w) /\ request[r].op \in Ops
        /\ member' = [member EXCEPT ![w] = Changed(member[w], request[r].op)]
        /\ known' = known /\ request[r].pc = "ready"
    BY <2>0, <1>4, <1>t DEF Commit, Carrying, Carries, Changing
  <2>2. CASE LosesOwner(member[w], request[r].op)
    <3>1. PICK u \in request[r].held : u # w /\ IsActiveOwner(u)
      BY <2>0, <2>1, <2>2 DEF Locks, Covered, Covers
    <3>2. u \in Users
      BY <1>t DEF TypeOK, Request
    <3> QED BY <2>1, <3>1, <3>2, <1>t DEF OwnerRemains, TypeOK
  <2>3. CASE ~LosesOwner(member[w], request[r].op)
    <3>1. IsActiveOwner(w) => IsActiveOwner(w)'
      <4>1. SUFFICES ASSUME IsActiveOwner(w) PROVE IsActiveOwner(w)'
        OBVIOUS
      <4>2. member[w] \in Member /\ request[r].op \in {"owner", "activate"}
        BY <2>1, <2>3, <4>1, <1>t DEF LosesOwner, TypeOK
      <4>3. Changed(member[w], request[r].op) = member[w]
        BY <4>1, <4>2, LowerAssumption DEF Changed, Member, Roles, High
      <4> QED BY <2>1, <4>1, <4>3, <1>t DEF TypeOK
    <3>2. \A u \in Users : IsActiveOwner(u) => IsActiveOwner(u)'
      BY <2>1, <3>1, <1>t DEF TypeOK
    <3> QED BY <2>1, <3>2 DEF OwnerRemains, Founded
  <2> QED BY <2>2, <2>3
<1>5. ASSUME NEW r \in Requests, NEW moved \in SUBSET Sessions, Accept(r, moved)
      PROVE  OwnerRemains'
  <2>1. MembersKept /\ known' = known
    BY <1>5, <1>t DEF Accept, TypeOK, MembersKept
  <2> QED BY <2>1, <1>1
<1> QED
  BY <1>2, <1>3, <1>4, <1>5, MembershipSteps

-----------------------------------------------------------------------------
(* Invitations.                                                            *)

(* One transaction accepts an invitation, and it finds it still open.      *)
Acceptors ==
  \A r \in Requests : Accepting(request[r]) =>
    /\ ~invite[request[r].invite].accepted
    /\ ~invite[request[r].invite].revoked
    /\ \A q \in Requests :
         Accepting(request[q]) /\ request[q].invite = request[r].invite => q = r

(* Only owners invite owners and administrators.                           *)
HighByOwners ==
  \A i \in Invites :
    invite[i] # None => invite[i].by = "owner" \/ invite[i].role \notin High

Mail == Acceptors /\ HighByOwners /\ InvitationsEndOnce

LEMMA MailInit == Init => Mail
BY DEF Init, Idle, Mail, Acceptors, HighByOwners, InvitationsEndOnce, Accepting

(* No acceptance begins or ends, and no invitation changes.                *)
LEMMA QuietMail ==
  ASSUME Mail, invite' = invite,
         \A r \in Requests :
           Accepting(request'[r]) => request'[r] = request[r]
  PROVE  Mail'
BY DEF Mail, Acceptors, HighByOwners, InvitationsEndOnce

LEMMA MailStep ==
  ASSUME Shape, Mail, [Next]_vars
  PROVE  Mail'
<1>t. TypeOK /\ Carrying /\ LoggedIn
  BY DEF Shape
<1> USE DEF Accepting
<1>1. ASSUME UNCHANGED <<invite, request>> PROVE Mail'
  BY <1>1, QuietMail
<1>2. ASSUME NEW r \in Requests, NEW s \in Sessions, Authorize(r, s) PROVE Mail'
  BY <1>2, <1>t, QuietMail DEF Authorize, TypeOK, Idle
<1>3. ASSUME NEW r \in Requests, NEW u \in Users, NEW op \in Ops, LockTarget(r, u, op)
      PROVE  Mail'
  BY <1>3, <1>t, QuietMail DEF LockTarget, TypeOK, Request
<1>4. ASSUME NEW r \in Requests, NEW u \in Users, FindOwner(r, u) PROVE Mail'
  BY <1>4, <1>t, QuietMail DEF FindOwner, TypeOK, Request
<1>5. ASSUME NEW r \in Requests, Commit(r) \/ Rollback(r) \/ MailSent(r) PROVE Mail'
  BY <1>5, <1>t, QuietMail, IdleRow DEF Commit, Rollback, MailSent, TypeOK
<1>6. ASSUME NEW r \in Requests, NEW u \in Users, NEW role \in Roles,
             CheckInvitation(r, u, role)
      PROVE  Mail'
  BY <1>6, <1>t, QuietMail DEF CheckInvitation, TypeOK, Request
<1>7. ASSUME NEW r \in Requests, NEW i \in Invites, InsertInvitation(r, i) PROVE Mail'
  <2>1. /\ request'[r].pc = "mailing"
        /\ \A q \in Requests : q # r => request'[q] = request[q]
        /\ invite[i] = None
        /\ invite'[i] = [email |-> request[r].target, role |-> request[r].op,
              by |-> request[r].role, joined |-> 0,
              accepted |-> FALSE, revoked |-> FALSE, expired |-> FALSE]
        /\ \A j \in Invites : j # i => invite'[j] = invite[j]
    BY <1>7, <1>t DEF InsertInvitation, TypeOK, Request
  <2>2. request[r].role = "owner" \/ request[r].op \notin High
    BY <1>7, <1>t DEF InsertInvitation, Carrying, Carries, CanManage
  <2>3. Acceptors'
    BY <2>1, <1>t DEF Mail, Acceptors, Carrying, Carries
  <2>4. HighByOwners'
    BY <2>1, <2>2 DEF Mail, HighByOwners
  <2>5. InvitationsEndOnce'
    BY <2>1 DEF Mail, InvitationsEndOnce
  <2> QED BY <2>3, <2>4, <2>5 DEF Mail
<1>8. ASSUME NEW r \in Requests, MailFails(r) PROVE Mail'
  <2> DEFINE i == request[r].invite
  <2>1. /\ i \in Invites /\ invite[i] \in Invite
        /\ \A q \in Requests : Accepting(request[q]) => request[q].invite # i
    BY <1>8, <1>t DEF MailFails, InviteLocked, Carrying, Carries, TypeOK
  <2>2. /\ invite'[i] = [invite[i] EXCEPT !.revoked = @ \/ ~invite[i].accepted]
        /\ \A j \in Invites : j # i => invite'[j] = invite[j]
    BY <1>8, <2>1, <1>t DEF MailFails, TypeOK
  <2>3. /\ invite'[i].by = invite[i].by /\ invite'[i].role = invite[i].role
        /\ invite'[i].joined = invite[i].joined
        /\ invite'[i].accepted = invite[i].accepted
        /\ invite'[i].revoked => invite[i].revoked \/ ~invite[i].accepted
    BY <2>1, <2>2 DEF Invite
  <2>4. \A q \in Requests : Accepting(request'[q]) => request'[q] = request[q]
    BY <1>8, <1>t, IdleRow DEF MailFails, TypeOK
  <2>5. Acceptors'
    BY <2>1, <2>2, <2>4, <1>t DEF Mail, Acceptors, Carrying, Carries
  <2>6. HighByOwners'
    BY <2>1, <2>2, <2>3, NoneAssumption DEF Mail, HighByOwners, Invite
  <2>7. InvitationsEndOnce'
    BY <2>1, <2>2, <2>3, NoneAssumption DEF Mail, InvitationsEndOnce, Invite
  <2> QED BY <2>5, <2>6, <2>7 DEF Mail
<1>9. ASSUME NEW r \in Requests, NEW s \in Sessions, NEW i \in Invites,
             LockInvitation(r, s, i)
      PROVE  Mail'
  <2>1. /\ request'[r].pc = "accepting" /\ request'[r].invite = i
        /\ \A q \in Requests : q # r => request'[q] = request[q]
        /\ invite' = invite /\ ~invite[i].accepted /\ ~invite[i].revoked
        /\ \A q \in Requests : Accepting(request[q]) => request[q].invite # i
    BY <1>9, <1>t DEF LockInvitation, Pending, InviteLocked, TypeOK, Idle
  <2>2. Acceptors'
    BY <2>1 DEF Mail, Acceptors
  <2> QED BY <2>1, <2>2 DEF Mail, HighByOwners, InvitationsEndOnce
<1>10. ASSUME NEW r \in Requests, NEW moved \in SUBSET Sessions, Accept(r, moved)
       PROVE  Mail'
  <2> DEFINE i == request[r].invite
  <2>1. /\ i \in Invites /\ invite[i] \in Invite
        /\ ~invite[i].accepted /\ ~invite[i].revoked
        /\ \A q \in Requests : q # r /\ Accepting(request[q]) => request[q].invite # i
    BY <1>10, <1>t DEF Accept, Carrying, Carries, TypeOK, Mail, Acceptors
  <2>2. /\ invite'[i] = [invite[i] EXCEPT !.accepted = TRUE, !.joined = @ + 1]
        /\ \A j \in Invites : j # i => invite'[j] = invite[j]
    BY <1>10, <2>1, <1>t DEF Accept, TypeOK
  <2>3. /\ invite'[i].by = invite[i].by /\ invite'[i].role = invite[i].role
        /\ invite'[i].joined = 1 /\ invite'[i].accepted
        /\ ~invite'[i].revoked
    <3>1. invite[i].joined = 0
      BY <2>1, NoneAssumption DEF Mail, InvitationsEndOnce, Invite
    <3> QED BY <2>1, <2>2, <3>1 DEF Invite
  <2>4. \A q \in Requests : Accepting(request'[q]) => q # r /\ request'[q] = request[q]
    BY <1>10, <1>t, IdleRow DEF Accept, TypeOK
  <2>5. Acceptors'
    BY <2>1, <2>2, <2>4, <1>t DEF Mail, Acceptors, Carrying, Carries
  <2>6. HighByOwners'
    BY <2>1, <2>2, <2>3, NoneAssumption DEF Mail, HighByOwners, Invite
  <2>7. InvitationsEndOnce'
    BY <2>2, <2>3 DEF Mail, InvitationsEndOnce
  <2> QED BY <2>5, <2>6, <2>7 DEF Mail
<1>11. ASSUME NEW i \in Invites, Expires(i) PROVE Mail'
  <2>1. invite[i] \in Invite /\ request' = request
    BY <1>11, <1>t DEF Expires, Pending, TypeOK
  <2>2. /\ invite'[i] = [invite[i] EXCEPT !.expired = TRUE]
        /\ \A j \in Invites : j # i => invite'[j] = invite[j]
    BY <1>11, <1>t DEF Expires, TypeOK
  <2>3. /\ invite'[i].by = invite[i].by /\ invite'[i].role = invite[i].role
        /\ invite'[i].joined = invite[i].joined
        /\ invite'[i].accepted = invite[i].accepted
        /\ invite'[i].revoked = invite[i].revoked
    BY <2>1, <2>2 DEF Invite
  <2> QED BY <2>1, <2>2, <2>3, <1>t, NoneAssumption
          DEF Mail, Acceptors, HighByOwners, InvitationsEndOnce, Carrying, Carries, Invite
<1> QED
  BY <1>1, <1>2, <1>3, <1>4, <1>5, <1>6, <1>7, <1>8, <1>9, <1>10, <1>11
     DEF Next, SessionStep, Manage, Invitation, Login, SessionEnds, Switch, CreateHandoff,
         ExchangeHandoff, vars

-----------------------------------------------------------------------------
IInv == Shape /\ Locks /\ OwnerRemains /\ Mail

(* IInv is inductive.                                                      *)
THEOREM Invariance == Spec => []IInv
<1>1. Init => IInv
  <2>1. Init => OwnerRemains
    BY DEF Init, OwnerRemains, Founded
  <2> QED BY <2>1, ShapeInit, LocksInit, MailInit DEF IInv
<1>2. IInv /\ [Next]_vars => IInv'
  BY ShapeStep, LocksStep, OwnerStep, MailStep DEF IInv
<1> QED BY <1>1, <1>2, PTL DEF Spec

(* Rows and requests keep their types (organizations, memberships,         *)
(* sessions and invitations of db/schema.ts).                              *)
THEOREM TypeCorrect == Spec => []TypeOK
<1>1. IInv => TypeOK
  BY DEF IInv, Shape
<1> QED BY <1>1, Invariance, PTL

(* The last-owner rule: the owner that assertAnotherOwner locks for one    *)
(* change is out of reach of every other one.                              *)
THEOREM AnOwnerRemains == Spec => []OwnerRemains
<1>1. IInv => OwnerRemains
  BY DEF IInv
<1> QED BY <1>1, Invariance, PTL

(* An invitation brings in one member or none, and none once it is revoked. *)
THEOREM InvitationsEnd == Spec => []InvitationsEndOnce
<1>1. IInv => InvitationsEndOnce
  BY DEF IInv, Mail
<1> QED BY <1>1, Invariance, PTL

-----------------------------------------------------------------------------
(* Who changes owners and administrators.                                  *)

LEMMA HighStep ==
  ASSUME IInv, [Next]_vars, NEW u \in Users
  PROVE  KeptBelow(u)
<1>t. TypeOK /\ Carrying /\ LoggedIn
  BY DEF IInv, Shape
<1>1. ASSUME NEW s \in Sessions, NEW w \in Users, Login(w, s) PROVE KeptBelow(u)
  BY <1>1, <1>t DEF Login, KeptBelow, TypeOK
<1>2. ASSUME member' = member PROVE KeptBelow(u)
  BY <1>2 DEF KeptBelow
<1>3. ASSUME NEW r \in Requests, Commit(r) PROVE KeptBelow(u)
  <2> SUFFICES ASSUME member'[u] # member[u], IsHigh(member[u]) \/ IsHigh(member'[u])
               PROVE  ByAnOwner(u)
    BY DEF KeptBelow
  <2>1. request'[r].pc = "idle" /\ request[r].pc = "ready"
    BY <1>3, <1>t, IdleRow DEF Commit, TypeOK
  <2>2. /\ request[r].target = u /\ request[r].op \in Ops /\ IsMember(u)
        /\ member'[u] = Changed(member[u], request[r].op)
        /\ member[u] \in Member
    BY <1>3, <1>t DEF Commit, TypeOK, Carrying, Carries, Changing, IsMember
  <2>3. CanManage(request[r].role, member[u].role, request[r].op)
    BY <2>1, <2>2 DEF IInv, Locks, Holding, Changing
  <2>4. request[r].role = "owner"
    <3> SUFFICES ASSUME member[u].role \notin High, request[r].op \notin High PROVE FALSE
      BY <2>3 DEF CanManage
    <3>1. ~IsHigh(member[u])
      BY DEF IsHigh
    <3>2. ~IsHigh(Changed(member[u], request[r].op))
      BY <2>2, LowerAssumption DEF Changed, IsHigh, Ops, Roles, Member, High
    <3> QED BY <2>2, <3>1, <3>2
  <2> QED BY <2>1, <2>2, <2>4 DEF ByAnOwner
<1>4. ASSUME NEW r \in Requests, NEW moved \in SUBSET Sessions, Accept(r, moved)
      PROVE  KeptBelow(u)
  <2> SUFFICES ASSUME member'[u] # member[u], IsHigh(member[u]) \/ IsHigh(member'[u])
               PROVE  ByAnOwner(u)
    BY DEF KeptBelow
  <2>1. request'[r].pc = "idle" /\ request[r].pc = "accepting"
    BY <1>4, <1>t, IdleRow DEF Accept, TypeOK
  <2>2. /\ request[r].target = u /\ ~IsMember(u)
        /\ member'[u] = [role |-> invite[request[r].invite].role, status |-> "active"]
        /\ request[r].invite \in Invites /\ invite[request[r].invite] # None
    BY <1>4, <1>t DEF Accept, TypeOK, Carrying, Carries
  <2>3. invite[request[r].invite].by = "owner"
    BY <2>2 DEF IInv, Mail, HighByOwners, IsHigh, IsMember
  <2> QED BY <2>1, <2>2, <2>3 DEF ByAnOwner
<1> QED
  BY <1>1, <1>2, <1>3, <1>4, MembershipSteps

(* Memberships of owners and administrators are made, changed and removed  *)
(* by requests of owners and by acceptances of owners' invitations         *)
(* (canManageMembership and canInviteAs, judged on the locked row).        *)
THEOREM AdminsOnlyBelow == Spec => AdminsKeepBelow
<1>1. IInv /\ [Next]_vars => [\A u \in Users : KeptBelow(u)]_vars
  BY HighStep
<1> QED BY <1>1, Invariance, PTL DEF Spec, AdminsKeepBelow

=============================================================================
