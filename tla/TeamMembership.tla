--------------------------- MODULE TeamMembership ----------------------------
(* apps/accounts: members of one tenant invite others into a role, resend   *)
(* and revoke invitations and revoke members; an invited user redeems the   *)
(* token; a sweep expires what is overdue.  An invitation or a membership   *)
(* is read, then saved if its version has not moved; a redemption holds the *)
(* invitation's row lock.                                                   *)
EXTENDS Naturals

CONSTANTS Request, User, Invitation, Role, Owner, Founder, Nothing,
          MaxToken,   \* bound: tokens of one invitation are 1..MaxToken
          MaxDay      \* bound: the clock

VARIABLES today, invitation, membership, request

vars == <<today, invitation, membership, request>>

Day == 0..(MaxDay + 1)
InvitationRow ==
  [status : {"pending", "accepted", "expired", "revoked"}, email : User, role : Role,
   token : 1..MaxToken, expires_at : Day, version : Nat]
Membership == [status : {"none", "active", "revoked"}, roles : SUBSET Role, version : Nat]

(* The tenant is provisioned with one owner. *)
Init ==
  /\ today = 0
  /\ invitation = [i \in Invitation |-> Nothing]
  /\ membership = [u \in User |->
       IF u = Founder THEN [status |-> "active", roles |-> {Owner}, version |-> 0]
                      ELSE [status |-> "none", roles |-> {}, version |-> 0]]
  /\ request = [c \in Request |-> Nothing]

Tick ==
  /\ today < MaxDay
  /\ today' = today + 1
  /\ UNCHANGED <<invitation, membership, request>>

Begin(c, call) == request[c] = Nothing /\ request' = [request EXCEPT ![c] = call]
At(c, step) == request[c] # Nothing /\ request[c].step = step
Return(c) == request' = [request EXCEPT ![c] = Nothing]

(* The seeded owner role is the one that carries member.invite and .manage. *)
Active(u) == membership[u].status = "active"
Manager(u) == Active(u) /\ Owner \in membership[u].roles

Locked == {request[c].id : c \in {d \in Request : At(d, "accept")}}

-----------------------------------------------------------------------------
(* InvitationService.                                                       *)

NewInvitation(email, role, expires_at) ==
  [status |-> "pending", email |-> email, role |-> role, token |-> 1,
   expires_at |-> expires_at, version |-> 0]

(* InviteMemberView.post(): the inviter's membership and the role are read  *)
(* in the request that inserts.                                             *)
Create(i) ==
  /\ invitation[i] = Nothing
  /\ \E inviter, email \in User, role \in Role, expires_at \in (today + 1)..(MaxDay + 1) :
       /\ Manager(inviter)
       /\ invitation' = [invitation EXCEPT ![i] = NewInvitation(email, role, expires_at)]
  /\ UNCHANGED <<today, membership, request>>

Pending(i) == invitation[i] # Nothing /\ invitation[i].status = "pending"

ReadForResend(c) ==
  /\ \E inviter \in User, i \in Invitation, expires_at \in (today + 1)..(MaxDay + 1) :
       /\ Manager(inviter) /\ Pending(i)
       /\ invitation[i].token < MaxToken
       /\ Begin(c, [step |-> "save", id |-> i, version |-> invitation[i].version,
                    row |-> [invitation[i] EXCEPT !.token = @ + 1, !.expires_at = expires_at]])
  /\ UNCHANGED <<today, invitation, membership>>

ReadForRevoke(c) ==
  /\ \E inviter \in User, i \in Invitation :
       /\ Manager(inviter) /\ Pending(i)
       /\ Begin(c, [step |-> "save", id |-> i, version |-> invitation[i].version,
                    row |-> [invitation[i] EXCEPT !.status = "revoked"]])
  /\ UNCHANGED <<today, invitation, membership>>

Current(c) == invitation[request[c].id].version = request[c].version

(* The whole row is written; a sweep does not move the version it checks. *)
SaveInvitation(c) ==
  LET i == request[c].id
  IN
  /\ At(c, "save") /\ i \notin Locked
  /\ invitation' = IF Current(c)
                   THEN [invitation EXCEPT ![i] = [request[c].row EXCEPT !.version = @ + 1]]
                   ELSE invitation
  /\ Return(c)
  /\ UNCHANGED <<today, membership>>

Overdue(i) == Pending(i) /\ invitation[i].expires_at <= today

expire_past_due ==
  /\ \E i \in Invitation : Overdue(i)
  /\ \A i \in Invitation : Overdue(i) => i \notin Locked
  /\ invitation' = [i \in Invitation |->
       IF Overdue(i) THEN [invitation[i] EXCEPT !.status = "expired"] ELSE invitation[i]]
  /\ UNCHANGED <<today, membership, request>>

-----------------------------------------------------------------------------
(* MembershipService.redeem_invitation(): the token is looked up, the row   *)
(* it is on locked and checked, the user's membership read, all written.    *)

LookUpToken(c) ==
  /\ \E i \in Invitation :
       /\ invitation[i] # Nothing
       /\ Begin(c, [step |-> "lock", id |-> i, token |-> invitation[i].token])
  /\ UNCHANGED <<today, invitation, membership>>

Redeemable(i) == Pending(i) /\ invitation[i].expires_at > today

LockInvitation(c) ==
  LET i == request[c].id
  IN
  /\ At(c, "lock") /\ i \notin Locked
  /\ IF invitation[i].token = request[c].token /\ Redeemable(i)
     THEN request' = [request EXCEPT ![c] =
            [step |-> "accept", id |-> i, member |-> Active(invitation[i].email)]]
     ELSE Return(c)
  /\ UNCHANGED <<today, invitation, membership>>

Accept(c) ==
  LET i == request[c].id
      user == invitation[i].email
  IN
  /\ At(c, "accept")
  /\ invitation' = [invitation EXCEPT ![i].status = "accepted", ![i].version = @ + 1]
  /\ membership' =
       IF request[c].member THEN membership
       ELSE [membership EXCEPT ![user] =
              [status |-> "active", roles |-> @.roles \cup {invitation[i].role},
               version |-> @.version + 1]]
  /\ Return(c)
  /\ UNCHANGED today

-----------------------------------------------------------------------------
(* MembershipService.revoke().                                              *)

LastOwner(u) ==
  /\ Owner \in membership[u].roles
  /\ \A v \in User \ {u} : ~Manager(v)

ReadMember(c) ==
  /\ \E actor, target \in User :
       /\ Manager(actor) /\ Active(target)
       /\ ~(actor = target /\ LastOwner(target))
       /\ Begin(c, [step |-> "revoke", member |-> target, version |-> membership[target].version])
  /\ UNCHANGED <<today, invitation, membership>>

Revoke(c) ==
  LET u == request[c].member
  IN
  /\ At(c, "revoke")
  /\ membership' =
       IF membership[u].version = request[c].version
       THEN [membership EXCEPT ![u] = [status |-> "revoked", roles |-> {}, version |-> @.version + 1]]
       ELSE membership
  /\ Return(c)
  /\ UNCHANGED <<today, invitation>>

-----------------------------------------------------------------------------
Next ==
  \/ Tick \/ expire_past_due
  \/ \E i \in Invitation : Create(i)
  \/ \E c \in Request :
       \/ ReadForResend(c) \/ ReadForRevoke(c) \/ SaveInvitation(c)
       \/ LookUpToken(c) \/ LockInvitation(c) \/ Accept(c)
       \/ ReadMember(c) \/ Revoke(c)

Spec == Init /\ [][Next]_vars

-----------------------------------------------------------------------------
TypeOK ==
  /\ today \in 0..MaxDay
  /\ invitation \in [Invitation -> InvitationRow \cup {Nothing}]
  /\ membership \in [User -> Membership]
  /\ \A c \in Request : request[c] # Nothing =>
       request[c].step \in {"save", "lock", "accept", "revoke"}

(* Whoever holds a role is an active member, and the role is the founder's  *)
(* or that of an invitation of that user which stands accepted: no resend,  *)
(* revocation or sweep that was under way undoes an acceptance.             *)
RolesAreInvited ==
  \A u \in User : \A role \in membership[u].roles :
    /\ Active(u)
    /\ \/ u = Founder /\ role = Owner
       \/ \E i \in Invitation :
            /\ invitation[i] # Nothing /\ invitation[i].status = "accepted"
            /\ invitation[i].email = u /\ invitation[i].role = role
=============================================================================
