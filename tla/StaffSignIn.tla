---------------------------- MODULE StaffSignIn ------------------------------
(* apps/accounts: one member of staff signs in from several browsers, with  *)
(* a password and, once a device is verified, with its code; failures are   *)
(* counted and lock the account for a while.  Signed in, the member enrols, *)
(* verifies and removes devices.  A request is one transaction: what it has *)
(* written of the account's row is its own until it returns.                *)
EXTENDS Naturals

CONSTANTS Browser, Device, Nothing,
          AUTH_LOCKOUT_THRESHOLD,
          MaxAttempts   \* bound: failures counted

VARIABLES account, device, owner, session, request,
          secured   \* history: the owner has had a device while none was being removed

vars == <<account, device, owner, session, request, secured>>

(* A lock is younger ("locked") or older ("elapsed") than the lockout. *)
UserAccount == [status : {"active", "locked", "elapsed"}, failed_attempts : 0..MaxAttempts]

Init ==
  /\ account = [status |-> "active", failed_attempts |-> 0]
  /\ device = [d \in Device |-> "absent"]
  /\ owner \in BOOLEAN
  /\ session = [b \in Browser |-> "none"]
  /\ request = [b \in Browser |-> Nothing]
  /\ secured = FALSE

At(b, step) == request[b] # Nothing /\ request[b].step = step
Begin(b, call) == request[b] = Nothing /\ request' = [request EXCEPT ![b] = call]
Go(b, next) == request' = [request EXCEPT ![b] = next]
Return(b) == Go(b, Nothing)

(* A definition whose name carries a suffix is the one it is named after    *)
(* with a slip in it, for the properties to catch; nothing else uses it.    *)
RowFree_Unlocked(b) == TRUE

(* The account's row as a request sees it, and whether another has it locked. *)
Holds(b) == request[b] # Nothing /\ request[b].row # Nothing
Row(b) == IF Holds(b) THEN request[b].row ELSE account
RowFree(b) == \A c \in Browser \ {b} : ~Holds(c)

Verified == {d \in Device : device[d] = "verified"}
requires_challenge == Verified # {}

-----------------------------------------------------------------------------
(* What happens meanwhile: the lockout and a challenge run out, and a role  *)
(* is granted or revoked (TeamMembership).                                  *)

LockElapses ==
  /\ account.status = "locked" /\ \A b \in Browser : ~Holds(b)
  /\ account' = [account EXCEPT !.status = "elapsed"]
  /\ UNCHANGED <<device, owner, session, request>>

ChallengeExpires(b) ==
  /\ session[b] = "challenged" /\ request[b] = Nothing
  /\ session' = [session EXCEPT ![b] = "expired"]
  /\ UNCHANGED <<account, device, owner, request>>

RoleChanges ==
  /\ owner' = ~owner
  /\ UNCHANGED <<account, device, session, request>>

-----------------------------------------------------------------------------
(* LoginView.post(): the password step.                                     *)

ReadCandidate(b) ==
  /\ Begin(b, [step |-> "authenticate", elapsed |-> account.status = "elapsed", row |-> Nothing])
  /\ UNCHANGED <<account, device, owner, session>>

reset_login_failures(b) ==
  /\ At(b, "authenticate") /\ request[b].elapsed /\ RowFree(b)
  /\ Go(b, [step |-> "authenticate", elapsed |-> FALSE,
            row |-> [status |-> "active", failed_attempts |-> 0]])
  /\ UNCHANGED <<account, device, owner, session>>

(* A wrong password fails, and so does a right one on a locked account. *)
authenticate(b) ==
  /\ At(b, "authenticate") /\ ~request[b].elapsed
  /\ \/ Row(b).status = "active" /\ Go(b, [step |-> "succeed", row |-> request[b].row])
     \/ Go(b, [step |-> "fail", row |-> request[b].row])
  /\ UNCHANGED <<account, device, owner, session>>

(* The increment waits for the row and returns what stands there then. *)
record_login_failure(b) ==
  /\ At(b, "fail") /\ RowFree(b)
  /\ Row(b).failed_attempts < MaxAttempts
  /\ LET counted == Row(b).failed_attempts + 1
     IN  account' = [status |-> IF counted >= AUTH_LOCKOUT_THRESHOLD THEN "locked" ELSE Row(b).status,
                     failed_attempts |-> counted]
  /\ Return(b)
  /\ UNCHANGED <<device, owner, session>>

Login(b) ==
  /\ At(b, "succeed") /\ RowFree(b)
  /\ account' = [Row(b) EXCEPT !.failed_attempts = 0]
  /\ session' = [session EXCEPT ![b] = IF requires_challenge THEN "challenged" ELSE "password"]
  /\ Return(b)
  /\ UNCHANGED <<device, owner>>

-----------------------------------------------------------------------------
(* MfaLoginView.post(): the code step.  A challenge that has expired, or    *)
(* whose account is locked by now, is discarded; a wrong code keeps it.     *)

consume_challenge(b) ==
  /\ request[b] = Nothing
  /\ \/ session[b] = "expired"
     \/ session[b] = "challenged" /\ account.status # "active"
  /\ session' = [session EXCEPT ![b] = "none"]
  /\ UNCHANGED <<account, device, owner, request>>

MfaLogin(b) ==
  /\ request[b] = Nothing
  /\ session[b] = "challenged" /\ account.status = "active"
  /\ Verified # {}
  /\ session' = [session EXCEPT ![b] = "password and code"]
  /\ UNCHANGED <<account, device, owner, request>>

(* The account of a session that is no longer active is not authenticated. *)
is_authenticated(b) ==
  /\ request[b] = Nothing
  /\ session[b] \in {"password", "password and code"} /\ account.status = "active"

Logout(b) ==
  /\ is_authenticated(b)
  /\ session' = [session EXCEPT ![b] = "none"]
  /\ UNCHANGED <<account, device, owner, request>>

-----------------------------------------------------------------------------
(* MfaService: devices.  Refusals (a duplicate name, a device removed or    *)
(* not verified yet, the last device) leave all as it was.                  *)

Enroll(b) ==
  /\ is_authenticated(b)
  /\ \E d \in Device :
       /\ device[d] = "absent"
       /\ device' = [device EXCEPT ![d] = "pending"]
  /\ UNCHANGED <<account, owner, session, request>>

ReadForVerify(b) ==
  /\ is_authenticated(b)
  /\ \E d \in Device :
       /\ device[d] = "pending"
       /\ Begin(b, [step |-> "verify", id |-> d, row |-> Nothing])
  /\ UNCHANGED <<account, device, owner, session>>

(* verified_at alone is saved: a device removed meanwhile stays removed. *)
verify_initial(b) ==
  LET d == request[b].id
  IN
  /\ At(b, "verify")
  /\ device' = [device EXCEPT ![d] = IF @ = "pending" THEN "verified" ELSE @]
  /\ Return(b)
  /\ UNCHANGED <<account, owner, session>>

MfaRemove(b) ==
  /\ is_authenticated(b)
  /\ \E d \in Device : Begin(b, [step |-> "lock", id |-> d, row |-> Nothing])
  /\ UNCHANGED <<account, device, owner, session>>

Removable(d) ==
  /\ device[d] = "verified"
  /\ Verified = {d} => ~owner

LockForRemove(b) ==
  LET d == request[b].id
  IN
  /\ At(b, "lock") /\ RowFree(b)
  /\ IF Removable(d) THEN Go(b, [step |-> "remove", id |-> d, row |-> account])
                     ELSE Return(b)
  /\ UNCHANGED <<account, device, owner, session>>

remove(b) ==
  /\ At(b, "remove")
  /\ device' = [device EXCEPT ![request[b].id] = "removed"]
  /\ Return(b)
  /\ UNCHANGED <<account, owner, session>>

-----------------------------------------------------------------------------
Step ==
  \/ LockElapses \/ RoleChanges
  \/ \E b \in Browser :
       \/ ChallengeExpires(b)
       \/ ReadCandidate(b) \/ reset_login_failures(b) \/ authenticate(b)
       \/ record_login_failure(b) \/ Login(b)
       \/ consume_challenge(b) \/ MfaLogin(b) \/ Logout(b)
       \/ Enroll(b) \/ ReadForVerify(b) \/ verify_initial(b)
       \/ MfaRemove(b) \/ LockForRemove(b) \/ remove(b)

Removing == \E b \in Browser : At(b, "remove")

Next ==
  /\ Step
  /\ secured' = (owner' /\ (secured \/ (requires_challenge' /\ ~Removing')))

Spec == Init /\ [][Next]_vars

-----------------------------------------------------------------------------
TypeOK ==
  /\ account \in UserAccount
  /\ device \in [Device -> {"absent", "pending", "verified", "removed"}]
  /\ owner \in BOOLEAN /\ secured \in BOOLEAN
  /\ session \in [Browser -> {"none", "challenged", "expired", "password", "password and code"}]
  /\ \A b \in Browser : request[b] # Nothing =>
       request[b].step \in {"authenticate", "succeed", "fail", "verify", "lock", "remove"}

(* services.py:480-481, "so two concurrent removes cannot both pass the     *)
(* last-device guard": once an owner has a device, and for as long as the   *)
(* role stays, however many requests remove devices at once, one is left.   *)
OwnerKeepsDevice == secured => requires_challenge

(* services.py:540-541, "concurrent failed logins never lose a count": an   *)
(* account is active only below the threshold, whoever counted or reset     *)
(* failures at the same time.                                               *)
ActiveBelowThreshold ==
  account.status = "active" => account.failed_attempts < AUTH_LOCKOUT_THRESHOLD

(* Both, of the account and of its devices. *)
SignInStands == OwnerKeepsDevice /\ ActiveBelowThreshold
=============================================================================
