----------------------------- MODULE Membership -----------------------------
(***************************************************************************)
(* Who belongs to an organization: first logins, sessions, Office handoffs, *)
(* invitations, and changes of memberships                                 *)
(* (services/api/src/identity, postgres-store.ts and its routes).          *)
(*                                                                         *)
(* There is one organization; a session's active organization is it        *)
(* ("here") or not ("away").  A request is authorized by what              *)
(* requireSession reads, and its transaction, which comes later, trusts    *)
(* the role that was read then.  The transaction takes row locks:          *)
(* mutateMembership of the target, assertAnotherOwner of one other owner,  *)
(* acceptInvitation of the invitation.  A membership row is named by its   *)
(* user, and so is an email address.                                       *)
(***************************************************************************)
EXTENDS Naturals, FiniteSets

CONSTANTS
  Users,
  Founder,       \* the user of the bootstrap grant
  Policy,        \* the role an identity policy gives a user, or None
  Lower,         \* roles below administrator
  Sessions,      \* session rows
  Invites,       \* invitation rows
  Requests,      \* requests in progress
  MaxBegun,      \* bound on the logins and requests of a behaviour
  None

High == {"owner", "admin"}
Roles == High \cup Lower

ASSUME FounderAssumption == Founder \in Users
ASSUME LowerAssumption ==
  Lower \subseteq {"project_lead", "contributor", "reviewer", "viewer",
                   "external_reviewer"}
ASSUME PolicyAssumption == Policy \in [Users -> Roles \cup {None}]
ASSUME MaxBegunAssumption == MaxBegun \in Nat
ASSUME NoneAssumption ==
  /\ None \notin Users \cup Roles \cup Invites
  /\ None \notin [role : Roles, status : {"active", "suspended"}]
  /\ None \notin [email : Users, role : Roles, by : Roles, joined : Nat,
                 accepted : BOOLEAN, revoked : BOOLEAN, expired : BOOLEAN]

VARIABLES
  known,      \* users with an identity mapping
  member,     \* memberships: the row of a user, or None
  session,    \* sessions that can still be used
  invite,     \* invitations
  request,    \* requests, and the transactions they are in
  begun       \* how many logins and requests there were

vars == <<known, member, session, invite, request, begun>>

Member == [role : Roles, status : {"active", "suspended"}]
Session == [user : Users, org : {"here", "away"}, kind : {"cookie", "handoff"}]
Invite == [email : Users, role : Roles, by : Roles, joined : Nat,
           accepted : BOOLEAN, revoked : BOOLEAN, expired : BOOLEAN]
Ops == Roles \cup {"suspend", "activate", "remove"}
Request ==
  [pc : {"idle", "allowed", "searching", "ready", "inviting", "mailing",
         "accepting"},
   role : Roles \cup {None}, target : Users \cup {None}, op : Ops \cup {None},
   held : SUBSET Users, invite : Invites \cup {None}]

Idle == [pc |-> "idle", role |-> None, target |-> None, op |-> None,
         held |-> {}, invite |-> None]

Init ==
  /\ known = {}
  /\ member = [u \in Users |-> None]
  /\ session = [s \in Sessions |-> None]
  /\ invite = [i \in Invites |-> None]
  /\ request = [r \in Requests |-> Idle]
  /\ begun = 0

-----------------------------------------------------------------------------
IsMember(u) == member[u] # None
IsActive(u) == IsMember(u) /\ member[u].status = "active"
IsActiveOwner(u) == IsActive(u) /\ member[u].role = "owner"
Founded == Founder \in known

(* Row locks.                                                              *)
Locked(u) == \E r \in Requests : u \in request[r].held
InviteLocked(i) ==
  \E r \in Requests : request[r].pc = "accepting" /\ request[r].invite = i

-----------------------------------------------------------------------------
(* Logins and sessions.                                                    *)

(* The first login uses the bootstrap grant or the policies; a later one   *)
(* changes no membership.                                                  *)
Admitted(u) ==
  IF IsMember(u) THEN member[u]
  ELSE IF u = Founder THEN [role |-> "owner", status |-> "active"]
  ELSE IF Founded /\ Policy[u] # None
       THEN [role |-> Policy[u], status |-> "active"]
  ELSE None

Login(u, s) ==
  LET row == IF u \in known THEN member[u] ELSE Admitted(u)
  IN  /\ session[s] = None
      /\ begun < MaxBegun
      /\ begun' = begun + 1
      /\ known' = known \cup {u}
      /\ member' = [member EXCEPT ![u] = row]
      /\ session' = [session EXCEPT ![s] =
           [user |-> u, kind |-> "cookie",
            org |-> IF row = None THEN "away" ELSE "here"]]
      /\ UNCHANGED <<invite, request>>

(* A logout, or the time a session may live.                               *)
SessionEnds(s) ==
  /\ session[s] # None
  /\ session' = [session EXCEPT ![s] = None]
  /\ UNCHANGED <<known, member, invite, request, begun>>

IsCookie(s) == session[s] # None /\ session[s].kind = "cookie"

(* To another organization, or to this one if the membership is active.    *)
Switch(s, org) ==
  /\ IsCookie(s)
  /\ org = "here" => IsActive(session[s].user)
  /\ session' = [session EXCEPT ![s].org = org]
  /\ UNCHANGED <<known, member, invite, request, begun>>

CreateHandoff(s, t) ==
  /\ IsCookie(s)
  /\ session[t] = None
  /\ session' = [session EXCEPT ![t] = [session[s] EXCEPT !.kind = "handoff"]]
  /\ UNCHANGED <<known, member, invite, request, begun>>

ExchangeHandoff(t) ==
  /\ session[t] # None
  /\ session[t].kind = "handoff"
  /\ session' = [session EXCEPT ![t].kind = "cookie"]
  /\ UNCHANGED <<known, member, invite, request, begun>>

-----------------------------------------------------------------------------
(* requireSession and requireOrganization, with what only owners and       *)
(* administrators may do.                                                  *)
Authorize(r, s) ==
  /\ request[r] = Idle
  /\ begun < MaxBegun
  /\ IsCookie(s)
  /\ session[s].org = "here"
  /\ IsActive(session[s].user)
  /\ member[session[s].user].role \in High
  /\ request' = [request EXCEPT ![r] =
       [Idle EXCEPT !.pc = "allowed", !.role = member[session[s].user].role]]
  /\ begun' = begun + 1
  /\ UNCHANGED <<known, member, session, invite>>

(* A request that is refused or fails, or whose process dies: its          *)
(* transaction leaves no trace.                                            *)
Rollback(r) ==
  /\ request[r] # Idle
  /\ request' = [request EXCEPT ![r] = Idle]
  /\ UNCHANGED <<known, member, session, invite, begun>>

-----------------------------------------------------------------------------
(* changeMembershipRole, setMembershipStatus and removeMembership.         *)

CanManage(actor, target, op) ==
  actor = "owner" \/ (target \notin High /\ op \notin High)

LosesOwner(row, op) == row.role = "owner" /\ op \notin {"owner", "activate"}

BugLockTarget(r, u, op) ==
  /\ request[r].pc = "allowed"
  /\ IsMember(u)
  /\ CanManage(request[r].role, member[u].role, op)
  /\ request' = [request EXCEPT ![r].target = u, ![r].op = op,
       ![r].pc = IF LosesOwner(member[u], op) THEN "searching" ELSE "ready"]
  /\ UNCHANGED <<known, member, session, invite, begun>>

LockTarget(r, u, op) ==
  /\ request[r].pc = "allowed"
  /\ IsMember(u)
  /\ ~Locked(u)
  /\ CanManage(request[r].role, member[u].role, op)
  /\ request' = [request EXCEPT ![r].target = u, ![r].op = op,
       ![r].held = {u},
       ![r].pc = IF LosesOwner(member[u], op) THEN "searching" ELSE "ready"]
  /\ UNCHANGED <<known, member, session, invite, begun>>

BugFindOwner(r, u) ==
  /\ request[r].pc = "searching"
  /\ u # request[r].target
  /\ IsActiveOwner(u)
  /\ request' = [request EXCEPT ![r].pc = "ready"]
  /\ UNCHANGED <<known, member, session, invite, begun>>

(* assertAnotherOwner.  A row that waits for its lock is looked at again,  *)
(* and passed over when it no longer is an active owner.                   *)
FindOwner(r, u) ==
  /\ request[r].pc = "searching"
  /\ u # request[r].target
  /\ IsActiveOwner(u)
  /\ ~Locked(u)
  /\ request' = [request EXCEPT ![r].pc = "ready",
                                ![r].held = @ \cup {u}]
  /\ UNCHANGED <<known, member, session, invite, begun>>

Changed(row, op) ==
  CASE op \in Roles     -> [row EXCEPT !.role = op]
    [] op = "suspend"   -> [row EXCEPT !.status = "suspended"]
    [] op = "activate"  -> [row EXCEPT !.status = "active"]
    [] op = "remove"    -> None

(* Suspension and removal revoke the sessions that are here, handoffs      *)
(* included.                                                               *)
Commit(r) ==
  LET u == request[r].target
      op == request[r].op
  IN  /\ request[r].pc = "ready"
      /\ IsMember(u)
      /\ member' = [member EXCEPT ![u] = Changed(member[u], op)]
      /\ session' = [s \in Sessions |->
           IF /\ op \in {"suspend", "remove"}
              /\ session[s] # None
              /\ session[s].user = u
              /\ session[s].org = "here"
           THEN None ELSE session[s]]
      /\ request' = [request EXCEPT ![r] = Idle]
      /\ UNCHANGED <<known, invite, begun>>

-----------------------------------------------------------------------------
(* Invitations.                                                            *)

Pending(i) ==
  /\ invite[i] # None
  /\ ~invite[i].accepted /\ ~invite[i].revoked /\ ~invite[i].expired

(* Nothing locks what createInvitation looks for: two requests may invite  *)
(* the same address.                                                       *)
CheckInvitation(r, u, role) ==
  /\ request[r].pc = "allowed"
  /\ CanManage(request[r].role, role, role)
  /\ ~IsMember(u)
  /\ \A i \in Invites : Pending(i) => invite[i].email # u
  /\ request' = [request EXCEPT ![r].pc = "inviting", ![r].target = u,
                                ![r].op = role]
  /\ UNCHANGED <<known, member, session, invite, begun>>

InsertInvitation(r, i) ==
  /\ request[r].pc = "inviting"
  /\ invite[i] = None
  /\ invite' = [invite EXCEPT ![i] =
       [email |-> request[r].target, role |-> request[r].op,
        by |-> request[r].role, joined |-> 0,
        accepted |-> FALSE, revoked |-> FALSE, expired |-> FALSE]]
  /\ request' = [request EXCEPT ![r].pc = "mailing", ![r].invite = i]
  /\ UNCHANGED <<known, member, session, begun>>

(* Mail that was sent ends the request; mail that failed, or seemed to,    *)
(* revokes the invitation unless somebody has accepted it.                 *)
BugMailFails(r) ==
  LET i == request[r].invite
  IN  /\ request[r].pc = "mailing"
      /\ ~InviteLocked(i)
      /\ invite' = [invite EXCEPT ![i].revoked = TRUE]
      /\ request' = [request EXCEPT ![r] = Idle]
      /\ UNCHANGED <<known, member, session, begun>>

MailFails(r) ==
  LET i == request[r].invite
  IN  /\ request[r].pc = "mailing"
      /\ ~InviteLocked(i)
      /\ invite' = [invite EXCEPT ![i].revoked = @ \/ ~invite[i].accepted]
      /\ request' = [request EXCEPT ![r] = Idle]
      /\ UNCHANGED <<known, member, session, begun>>

MailSent(r) ==
  /\ request[r].pc = "mailing"
  /\ request' = [request EXCEPT ![r] = Idle]
  /\ UNCHANGED <<known, member, session, invite, begun>>

Expires(i) ==
  /\ Pending(i)
  /\ ~InviteLocked(i)
  /\ invite' = [invite EXCEPT ![i].expired = TRUE]
  /\ UNCHANGED <<known, member, session, request, begun>>

(* Any session of the invited person will do.                              *)
LockInvitation(r, s, i) ==
  /\ request[r] = Idle
  /\ begun < MaxBegun
  /\ IsCookie(s)
  /\ Pending(i)
  /\ ~InviteLocked(i)
  /\ invite[i].email = session[s].user
  /\ request' = [request EXCEPT ![r] =
       [Idle EXCEPT !.pc = "accepting", !.target = session[s].user,
                    !.invite = i]]
  /\ begun' = begun + 1
  /\ UNCHANGED <<known, member, session, invite>>

(* Of the person's sessions, those without an organization come here.      *)
Accept(r, moved) ==
  LET i == request[r].invite
      u == request[r].target
  IN  /\ request[r].pc = "accepting"
      /\ ~IsMember(u)
      /\ member' = [member EXCEPT ![u] =
           [role |-> invite[i].role, status |-> "active"]]
      /\ invite' = [invite EXCEPT ![i].accepted = TRUE, ![i].joined = @ + 1]
      /\ session' = [s \in Sessions |->
           IF s \in moved /\ session[s] # None /\ session[s].user = u
           THEN [session[s] EXCEPT !.org = "here"] ELSE session[s]]
      /\ request' = [request EXCEPT ![r] = Idle]
      /\ UNCHANGED <<known, begun>>

-----------------------------------------------------------------------------
SessionStep(s) ==
  \/ \E u \in Users : Login(u, s)
  \/ SessionEnds(s)
  \/ \E org \in {"here", "away"} : Switch(s, org)
  \/ \E t \in Sessions : CreateHandoff(s, t)
  \/ ExchangeHandoff(s)

Manage(r) ==
  \/ \E s \in Sessions : Authorize(r, s)
  \/ \E u \in Users, op \in Ops : LockTarget(r, u, op)
  \/ \E u \in Users : FindOwner(r, u)
  \/ Commit(r)
  \/ Rollback(r)

Invitation(r) ==
  \/ \E u \in Users, role \in Roles : CheckInvitation(r, u, role)
  \/ \E i \in Invites : InsertInvitation(r, i)
  \/ MailFails(r)
  \/ MailSent(r)
  \/ \E s \in Sessions, i \in Invites : LockInvitation(r, s, i)
  \/ \E moved \in SUBSET Sessions : Accept(r, moved)

Next ==
  \/ \E s \in Sessions : SessionStep(s)
  \/ \E r \in Requests : Manage(r) \/ Invitation(r)
  \/ \E i \in Invites : Expires(i)

Spec == Init /\ [][Next]_vars

-----------------------------------------------------------------------------
(* Properties.                                                             *)

TypeOK ==
  /\ known \subseteq Users
  /\ member \in [Users -> Member \cup {None}]
  /\ session \in [Sessions -> Session \cup {None}]
  /\ invite \in [Invites -> Invite \cup {None}]
  /\ request \in [Requests -> Request]
  /\ begun \in Nat

(* The last-owner rule: once there is an organization, it has an active    *)
(* owner, though owners demote, suspend and remove each other at the same  *)
(* time and each counts on another one to stay (assertAnotherOwner).       *)
OwnerRemains == Founded => \E u \in Users : IsActiveOwner(u)

IsHigh(row) == row # None /\ row.role \in High

ByAnOwner(u) ==
  \E r \in Requests :
    /\ request'[r] # request[r]
    /\ request[r].target = u
    /\ \/ request[r].role = "owner"
       \/ /\ request[r].pc = "accepting"
          /\ invite[request[r].invite].by = "owner"

KeptBelow(u) ==
  /\ u \in known
  /\ member'[u] # member[u]
  /\ IsHigh(member[u]) \/ IsHigh(member'[u])
  => ByAnOwner(u)

(* Only owners make, change or remove owners and administrators, whatever  *)
(* the target has become since an administrator looked at it               *)
(* (canManageMembership on the locked row, canInviteAs).                   *)
AdminsKeepBelow == [][\A u \in Users : KeptBelow(u)]_vars

(* An invitation ends once: it brings in one member or none, and none after *)
(* it was revoked, while it is accepted in two browsers and its mail is     *)
(* taken for lost (acceptInvitation, revokeInvitation).                     *)
InvitationsEndOnce ==
  \A i \in Invites :
    invite[i] # None =>
      /\ invite[i].joined = IF invite[i].accepted THEN 1 ELSE 0
      /\ ~(invite[i].accepted /\ invite[i].revoked)

=============================================================================
