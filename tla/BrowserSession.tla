--------------------------- MODULE BrowserSession ----------------------------
(* frontend/src/app/core and apps/accounts: the browser's picture of who is *)
(* signed in and of the tenant selected, and the server's.  A flow of the   *)
(* browser makes one call after another; the server serves a call, and the  *)
(* browser acts on the reply later, or on its loss.  The selected tenant    *)
(* survives a reload of the page (sessionStorage); every other signal does  *)
(* not.  Every call carries the selection of its time (X-Tenant-Id).        *)
EXTENDS FiniteSets

CONSTANTS User, Tenant, Flow, Startup, Nothing

VARIABLES
  member,           \* server: [User -> the tenants of active memberships]
  session,          \* server: the session of the browser's cookie
  route,            \* "starting", "login" or "shell"
  currentUser, mfaPending,
  tenants, selectedTenantId,
  flow              \* [Flow -> the call under way]

vars == <<member, session, route, currentUser, mfaPending, tenants, selectedTenantId, flow>>

Session == {Nothing} \cup [user : User, stage : {"challenged", "signed in"}]
Reply ==
  {"none", "ok", "challenge", "failed", "refused"}

Call(call, user) ==
  [call |-> call, user |-> user, header |-> selectedTenantId, reply |-> "none", list |-> {}]

(* app.config.ts: a page starts with the question who is signed in. *)
Started == [f \in Flow |-> IF f = Startup THEN Call("me", Nothing) ELSE Nothing]

Init ==
  /\ member \in [User -> SUBSET Tenant]
  /\ session \in {Nothing} \cup [user : User, stage : {"signed in"}]
  /\ route = "starting"
  /\ currentUser = Nothing /\ mfaPending = FALSE
  /\ tenants = {} /\ selectedTenantId = Nothing
  /\ flow = [f \in Flow |-> IF f = Startup
               THEN [call |-> "me", user |-> Nothing, header |-> Nothing, reply |-> "none", list |-> {}]
               ELSE Nothing]

serverVars == <<member, session>>
authVars == <<currentUser, mfaPending>>
tenantVars == <<tenants, selectedTenantId>>

-----------------------------------------------------------------------------
(* The server.                                                              *)

SignedIn == session # Nothing /\ session.stage = "signed in"

(* TenantContextMiddleware runs before every view, for a session that is    *)
(* signed in: a tenant the header names must be one of the user's.          *)
NotAMember(f) ==
  /\ SignedIn /\ member[session.user] # {}
  /\ flow[f].header # Nothing /\ flow[f].header \notin member[session.user]

Replied(f, reply, user, list) ==
  flow' = [flow EXCEPT ![f].reply = reply, ![f].user = user, ![f].list = list]

Serving(f, call) ==
  /\ flow[f] # Nothing /\ flow[f].reply = "none" /\ flow[f].call = call
  /\ ~NotAMember(f)
  /\ UNCHANGED <<member, route, authVars, tenantVars>>

Refuse(f) ==
  /\ flow[f] # Nothing /\ flow[f].reply = "none" /\ NotAMember(f)
  /\ Replied(f, "refused", flow[f].user, {})
  /\ UNCHANGED <<serverVars, route, authVars, tenantVars>>

LoginView(f) ==
  LET user == flow[f].user
  IN
  /\ Serving(f, "login")
  /\ \/ /\ session' = [user |-> user, stage |-> "signed in"]
        /\ Replied(f, "ok", user, {})
     \/ /\ session' = [user |-> user, stage |-> "challenged"]
        /\ Replied(f, "challenge", user, {})
     \/ Replied(f, "failed", user, {}) /\ UNCHANGED session

MfaLoginView(f) ==
  /\ Serving(f, "mfa")
  /\ \/ /\ session # Nothing /\ session.stage = "challenged"
        /\ session' = [session EXCEPT !.stage = "signed in"]
        /\ Replied(f, "ok", session.user, {})
     \/ Replied(f, "failed", Nothing, {}) /\ UNCHANGED session

(* Who is not signed in is answered 403. *)
MeView(f) ==
  /\ Serving(f, "me")
  /\ IF SignedIn THEN Replied(f, "ok", session.user, {}) ELSE Replied(f, "failed", Nothing, {})
  /\ UNCHANGED session

TenantMembershipView(f) ==
  /\ Serving(f, "tenants")
  /\ IF SignedIn THEN Replied(f, "ok", session.user, member[session.user])
                 ELSE Replied(f, "failed", Nothing, {})
  /\ UNCHANGED session

(* MfaEnforcementMiddleware: this list alone is not exempt from the refusal *)
(* of an owner who acts in a tenant without its code; roles are left open.  *)
EnforceMfa(f) ==
  /\ Serving(f, "tenants") /\ SignedIn
  /\ flow[f].header # Nothing \/ Cardinality(member[session.user]) = 1
  /\ Replied(f, "failed", Nothing, {})
  /\ UNCHANGED session

LogoutView(f) ==
  /\ Serving(f, "logout")
  /\ IF SignedIn THEN session' = Nothing /\ Replied(f, "ok", Nothing, {})
                 ELSE Replied(f, "failed", Nothing, {}) /\ UNCHANGED session

SessionExpires ==
  /\ session # Nothing /\ session' = Nothing
  /\ UNCHANGED <<member, route, authVars, tenantVars, flow>>

MembershipChanges ==
  /\ \E u \in User, t \in Tenant :
       member' = [member EXCEPT ![u] = IF t \in @ THEN @ \ {t} ELSE @ \cup {t}]
  /\ UNCHANGED <<session, route, authVars, tenantVars, flow>>

(* The network fails before the call reaches the server, or after. *)
Lose(f) ==
  /\ flow[f] # Nothing /\ flow[f].reply \notin {"failed", "refused"}
  /\ Replied(f, "failed", Nothing, {})
  /\ UNCHANGED <<serverVars, route, authVars, tenantVars>>

-----------------------------------------------------------------------------
(* The browser.                                                             *)

Idle(f) == flow[f] = Nothing
loading == \E f \in Flow : ~Idle(f) /\ flow[f].call \in {"me", "login", "mfa"}
Makes(f, call, user) == flow' = [flow EXCEPT ![f] = Call(call, user)]
Ends(f) == flow' = [flow EXCEPT ![f] = Nothing]
Answered(f, call) == ~Idle(f) /\ flow[f].call = call /\ flow[f].reply # "none"

(* authGuard and guestGuard: one of them redirects. *)
Guarded(user) == IF user # Nothing THEN "shell" ELSE "login"

(* A reload drops the calls under way and their replies. *)
Reload(selected) ==
  /\ selectedTenantId' = selected
  /\ route' = "starting"
  /\ currentUser' = Nothing /\ mfaPending' = FALSE /\ tenants' = {}
  /\ flow' = [f \in Flow |-> IF f = Startup
                THEN [Call("me", Nothing) EXCEPT !.header = selected] ELSE Nothing]
  /\ UNCHANGED serverVars

ReloadPage == Reload(selectedTenantId)

onSelectTenant == route = "shell" /\ \E t \in tenants : Reload(t)

loadCurrentUser(f) ==
  /\ Answered(f, "me")
  /\ IF flow[f].reply = "ok"
     THEN /\ currentUser' = flow[f].user
          /\ Makes(f, "tenants", Nothing) /\ UNCHANGED route
     ELSE /\ currentUser' = Nothing
          /\ Ends(f) /\ route' = Guarded(Nothing)
  /\ UNCHANGED <<serverVars, mfaPending, tenantVars>>

submitCredentials(f) ==
  /\ route = "login" /\ ~mfaPending /\ ~loading /\ Idle(f)
  /\ \E user \in User : Makes(f, "login", user)
  /\ UNCHANGED <<serverVars, route, authVars, tenantVars>>

submitMfaCode(f) ==
  /\ route = "login" /\ mfaPending /\ ~loading /\ Idle(f)
  /\ Makes(f, "mfa", Nothing)
  /\ UNCHANGED <<serverVars, route, authVars, tenantVars>>

login(f) ==
  /\ Answered(f, "login") \/ Answered(f, "mfa")
  /\ \/ /\ flow[f].reply = "ok"
        /\ mfaPending' = FALSE /\ currentUser' = flow[f].user
        /\ Makes(f, "tenants", Nothing)
     \/ /\ flow[f].reply = "challenge"
        /\ mfaPending' = TRUE /\ UNCHANGED currentUser
        /\ Ends(f)
     \/ /\ flow[f].reply \in {"failed", "refused"}
        /\ UNCHANGED authVars
        /\ Ends(f)
  /\ UNCHANGED <<serverVars, route, tenantVars>>

Reselected(list) ==
  CASE selectedTenantId \in list -> selectedTenantId
    [] selectedTenantId \notin list /\ Cardinality(list) = 1 -> CHOOSE t \in list : TRUE
    [] OTHER -> Nothing

(* The flow that loads the tenants, at the start or after a login, then     *)
(* enters the application, loaded or not.                                   *)
loadTenants(f) ==
  /\ Answered(f, "tenants")
  /\ IF flow[f].reply = "ok"
     THEN tenants' = flow[f].list /\ selectedTenantId' = Reselected(flow[f].list)
     ELSE UNCHANGED tenantVars
  /\ route' = Guarded(currentUser)
  /\ Ends(f)
  /\ UNCHANGED <<serverVars, authVars>>

Logout(f) ==
  /\ route = "shell" /\ currentUser # Nothing /\ Idle(f)
  /\ Makes(f, "logout", Nothing)
  /\ UNCHANGED <<serverVars, route, authVars, tenantVars>>

(* The local state is cleared whatever the reply; a failure ends the shell's *)
(* logout() there.                                                           *)
clearLocalState(f) ==
  /\ Answered(f, "logout")
  /\ currentUser' = Nothing /\ mfaPending' = FALSE
  /\ IF flow[f].reply = "ok"
     THEN tenants' = {} /\ selectedTenantId' = Nothing /\ route' = "login"
     ELSE UNCHANGED <<tenantVars, route>>
  /\ Ends(f)
  /\ UNCHANGED serverVars

-----------------------------------------------------------------------------
Next ==
  \/ SessionExpires \/ MembershipChanges
  \/ ReloadPage \/ onSelectTenant
  \/ \E f \in Flow :
       \/ Refuse(f) \/ Lose(f)
       \/ LoginView(f) \/ MfaLoginView(f) \/ MeView(f) \/ TenantMembershipView(f) \/ EnforceMfa(f)
       \/ LogoutView(f)
       \/ loadCurrentUser(f) \/ submitCredentials(f) \/ submitMfaCode(f) \/ login(f)
       \/ loadTenants(f) \/ Logout(f) \/ clearLocalState(f)

Spec == Init /\ [][Next]_vars

-----------------------------------------------------------------------------
TypeOK ==
  /\ member \in [User -> SUBSET Tenant] /\ session \in Session
  /\ route \in {"starting", "login", "shell"}
  /\ currentUser \in User \cup {Nothing} /\ mfaPending \in BOOLEAN
  /\ tenants \subseteq Tenant /\ selectedTenantId \in Tenant \cup {Nothing}
  /\ \A f \in Flow : ~Idle(f) =>
       /\ flow[f].call \in {"me", "login", "mfa", "tenants", "logout"}
       /\ flow[f].reply \in Reply

(* tenant.service.ts:33-34: whatever the page kept over a reload, and       *)
(* whoever signs in next, a selection shown beside a list is on the list.   *)
SelectedIsListed ==
  (tenants # {} /\ selectedTenantId # Nothing) => selectedTenantId \in tenants

(* tenant.interceptor.ts:10-12: the header is "harmless to send on the few  *)
(* endpoints that ignore it (/auth/..., /tenants/)", the only ones called     *)
(* here: none of their calls is refused because of it.                      *)
HeaderIsHarmless == \A f \in Flow : ~Idle(f) => flow[f].reply # "refused"
=============================================================================
