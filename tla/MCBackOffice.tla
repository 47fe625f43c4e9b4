---------------------------- MODULE MCBackOffice ----------------------------
(* Notifications, guest profiles, consents, policies, team, prices and the  *)
(* calendar of slots of one tenant, the tenants themselves, the account of  *)
(* one of the staff, and the stores and the session of one browser.  No two *)
(* of them share a variable, so a behaviour of all is, part by part, a      *)
(* behaviour of one while the others rest: one part is chosen at the start  *)
(* and runs alone.                                                          *)
EXTENDS NotificationDelivery, Integers, TLC

CONSTANTS
  Part,
  MaxDelivered,          \* bound: the events that workers deliver
  Caller, Email, Phone, MaxProfile, MaxSaves,              \* guests
  Purpose, Giver, MaxClock, MaxConsents,                   \* consents
  MaxRow, MaxDay,                                          \* policies
  FirstDay, AVAILABILITY_HORIZON_DAYS, Units, Clerk, Stay, LastDay,     \* calendar
  Thread, Code, MaxTenant,                                 \* tenants
  Request, User, Invitation, Role, Owner, Founder, MaxToken, MaxToday,  \* team
  Staff, Quoter, BaseRate, Percent, Amount, Bound,         \* prices
  MaxDate, MaxOverrides, MaxModifiers, MaxPlanSaves,
  Browser, Device, AUTH_LOCKOUT_THRESHOLD, MaxAttempts,    \* account
  Store, Task, MaxCalls,                                   \* stores
  Person, Tenant, Flow, Startup                            \* browser session

VARIABLES
  part,
  profile_ids, profile, inserting, resolving,
  consents, giving, said, refused,
  row_ids, policy, locked, working, evaluated, overlapped,
  calendar_today, partitions, night_slot, nights, clerk_job, opened, maintained,
  tenant, user_account, context, stamp, thread_job,
  today, invitation, membership, request,
  plan, overrides, modifiers, editing, quote,
  account, device, owner, login_session, signing_in, secured,
  store, token, call, shown, loading, error,
  member, session, route, currentUser, mfaPending, tenants, selectedTenantId, flow

Guests ==
  INSTANCE GuestProfiles WITH
    MaxVersion <- MaxSaves, issued <- profile_ids, call <- resolving

Policies == INSTANCE PolicyVersions WITH issued <- row_ids

Consents == INSTANCE GuestConsents

Calendar ==
  INSTANCE SlotCalendar WITH today <- calendar_today, slot <- night_slot, job <- clerk_job

Provisioning ==
  INSTANCE TenantProvisioning WITH account <- user_account, job <- thread_job

Team == INSTANCE TeamMembership WITH MaxDay <- MaxToday

(* A base rate of 3, a Sunday and a Monday: half of 3 is to be rounded. *)
HalfOff == {-50}

Prices == INSTANCE PriceQuotes WITH MaxVersion <- MaxPlanSaves

Account == INSTANCE StaffSignIn WITH session <- login_session, request <- signing_in

Stores == INSTANCE StoreRequests

Browsing == INSTANCE BrowserSession WITH User <- Person

notificationVars ==
  <<log, late, checkpoint, withheld, run, job_status, version, retry_count, failures, successes,
    overdue, queue, worker, reaping, calls, accepted>>
guestVars == <<profile_ids, profile, inserting, resolving>>
consentVars == <<consents, giving, said, refused>>
policyVars == <<row_ids, policy, locked, working, evaluated, overlapped>>
calendarVars ==
  <<calendar_today, partitions, night_slot, nights, clerk_job, opened, maintained>>
tenantVars == <<tenant, user_account, context, stamp, thread_job>>
teamVars == <<today, invitation, membership, request>>
priceVars == <<plan, overrides, modifiers, editing, quote>>
accountVars == <<account, device, owner, login_session, signing_in, secured>>
storeVars == <<store, token, call, shown, loading, error>>
browserVars ==
  <<member, session, route, currentUser, mfaPending, tenants, selectedTenantId, flow>>
allVars ==
  <<part, notificationVars, guestVars, consentVars, policyVars, calendarVars, tenantVars,
    teamVars, priceVars, accountVars, storeVars, browserVars>>

-----------------------------------------------------------------------------
(* What the constants must be.  Nothing is a value apart from the rows and  *)
(* from what a call under way holds; the rows are the parts' own, and the   *)
(* calls are here.                                                          *)

GuestConstants ==
  /\ MaxProfile \in Nat /\ MaxSaves \in Nat
  /\ Nothing \notin Guests!Row /\ Nothing \notin Nat

ConsentCall ==
  [step : {"insert", "commit"}, purpose : Purpose, state : Consents!State, granted_at : Nat,
   alone : BOOLEAN]

ConsentConstants ==
  /\ Nothing \notin ConsentCall /\ Nothing \notin Consents!GuestConsent
  /\ Nothing \notin Giver /\ Nothing \notin Consents!State

PolicyCall ==
  [op : {"create"}, step : {"delete", "insert"}, ids : SUBSET Policies!Id]
    \cup [op : {"update"}, step : {"save"}, id : Policies!Id, row : Policies!Row]
    \cup [op : {"publish"}, step : {"lock", "number"}, id : Policies!Id]
    \cup [op : {"publish"}, step : {"commit"}, id : Policies!Id, version : Nat]
    \cup [op : {"retire"}, step : {"save"}, id : Policies!Id, row : Policies!Row]

PolicyConstants ==
  /\ MaxRow \in Nat /\ MaxDay \in Nat
  /\ Nothing \notin Policies!Row /\ Nothing \notin PolicyCall

ClerkJob ==
  [step : {"create"}, today : 0..LastDay, months : SUBSET FirstDay]
    \cup [step : {"drop"}, months : SUBSET FirstDay]
    \cup [step : {"insert"}, missing : SUBSET Calendar!Day]

CalendarConstants ==
  /\ FirstDay \subseteq Nat /\ 0 \in FirstDay
  /\ AVAILABILITY_HORIZON_DAYS \in Nat /\ Units \in Nat /\ LastDay \in Nat
  /\ IsFiniteSet(Stay)
  /\ Nothing \notin Nat /\ Nothing \notin ClerkJob

TenantRow ==
  [code : Code, owner : User, rows : SUBSET Provisioning!Scoped, by : Thread \cup {Nothing}]

TenantJob ==
  [step : {"stamp", "handle"}, user : User, tenant : Provisioning!Id \cup {Nothing}]
    \cup [step : {"create"}, user : User, tenant : {Nothing}, code : Code]
    \cup [step : {"enter"}, user : User, tenant : Provisioning!Id]
    \cup [step : {"write"}, user : User, tenant : Provisioning!Id, next : 1..7,
          previous : Provisioning!Id \cup {Nothing}]

TenantConstants ==
  /\ Nothing \notin TenantRow /\ Nothing \notin TenantJob
  /\ Nothing \notin Provisioning!Id /\ Nothing \notin Thread
  /\ "absent" \notin Thread /\ "absent" # Nothing

TeamCall ==
  [step : {"save"}, id : Invitation, version : Nat, row : Team!InvitationRow]
    \cup [step : {"lock"}, id : Invitation, token : 1..MaxToken]
    \cup [step : {"accept"}, id : Invitation, member : BOOLEAN]
    \cup [step : {"revoke"}, member : User, version : Nat]

TeamConstants ==
  /\ Founder \in User /\ Owner \in Role
  /\ MaxToday \in Nat /\ MaxToken \in Nat \ {0}
  /\ Nothing \notin Team!InvitationRow /\ Nothing \notin TeamCall

QuotedStay ==
  {s \in [arrival : Prices!Date, nights : 1..(MaxDate + 1), corporate : BOOLEAN] :
     s.arrival + s.nights - 1 <= MaxDate}

QuoteRead ==
  [base : BaseRate, stay : QuotedStay, overrides : SUBSET Prices!Override,
   modifiers : SUBSET Prices!Modifier]

PriceQuote ==
  [step : {"overrides"}, base : BaseRate, stay : QuotedStay]
    \cup [step : {"modifiers"}, base : BaseRate, stay : QuotedStay, overrides : SUBSET Prices!Override]
    \cup [step : {"answered"}, read : QuoteRead, floor : Bound \cup {Nothing},
          ceiling : Bound \cup {Nothing}, subtotal : Int, total : Int]

PlanRow ==
  [status : {"draft", "active", "retired"}, version : 0..MaxPlanSaves, base_rate : BaseRate]

PriceEdit ==
  [op : {"status"}, row : {row \in PlanRow : row.version < MaxPlanSaves}]
    \cup [op : {"override"}, row : Prices!Override]

PriceConstants ==
  /\ BaseRate \subseteq Int /\ Percent \subseteq Int /\ Amount \subseteq Int /\ Bound \subseteq Int
  /\ MaxDate \in Nat /\ MaxPlanSaves \in Nat
  /\ Nothing \notin Int /\ Nothing \notin PriceEdit /\ Nothing \notin PriceQuote

SignInCall ==
  [step : {"authenticate"}, elapsed : BOOLEAN, row : Account!UserAccount \cup {Nothing}]
    \cup [step : {"succeed", "fail"}, row : Account!UserAccount \cup {Nothing}]
    \cup [step : {"verify", "lock"}, id : Device, row : {Nothing}]
    \cup [step : {"remove"}, id : Device, row : Account!UserAccount]

AccountConstants ==
  /\ AUTH_LOCKOUT_THRESHOLD \in Nat \ {0} /\ MaxAttempts \in Nat
  /\ Nothing \notin Account!UserAccount /\ Nothing \notin SignInCall

ASSUME BackOfficeAssumption ==
  /\ Part \subseteq {"folding", "notifications", "guests", "consents", "policies", "calendar",
                     "tenants", "team", "prices", "account", "stores", "browser"}
  /\ GuestConstants /\ ConsentConstants /\ PolicyConstants /\ CalendarConstants
  /\ TenantConstants /\ TeamConstants /\ PriceConstants /\ AccountConstants
  /\ MaxCalls \in Nat

-----------------------------------------------------------------------------
AllInit ==
  /\ part \in Part
  /\ Init /\ Guests!Init /\ Policies!Init /\ Team!Init /\ Prices!Init
  /\ Account!Init /\ Stores!Init /\ Browsing!Init
  /\ Consents!Init /\ Calendar!Init /\ Provisioning!Init
  /\ part # "account" => ~owner
  /\ part # "stores" => store = CHOOSE s \in Store : TRUE
  /\ part # "browser" => session = Nothing /\ member = [u \in Person |-> {}]

(* Notifications without their delivery, which the events of more than a    *)
(* job or two would multiply.                                               *)
FoldingNext == Log \/ \E d \in Dispatcher : Dispatch(d)

AllNext ==
  /\ part' = part
  /\ part \notin {"folding", "notifications"} => UNCHANGED notificationVars
  /\ part # "guests" => UNCHANGED guestVars
  /\ part # "consents" => UNCHANGED consentVars
  /\ part # "policies" => UNCHANGED policyVars
  /\ part # "calendar" => UNCHANGED calendarVars
  /\ part # "tenants" => UNCHANGED tenantVars
  /\ part # "team" => UNCHANGED teamVars
  /\ part # "prices" => UNCHANGED priceVars
  /\ part # "account" => UNCHANGED accountVars
  /\ part # "stores" => UNCHANGED storeVars
  /\ part # "browser" => UNCHANGED browserVars
  /\ \/ part = "folding" /\ FoldingNext
     \/ part = "notifications" /\ Next /\ log' \subseteq 1..MaxDelivered
     \/ part = "guests" /\ Guests!Next
     \/ part = "consents" /\ Consents!Next
     \/ part = "policies" /\ Policies!Next
     \/ part = "calendar" /\ Calendar!Next
     \/ part = "tenants" /\ Provisioning!Next
     \/ part = "team" /\ Team!Next
     \/ part = "prices" /\ Prices!Next
     \/ part = "account" /\ Account!Next
     \/ part = "stores" /\ Stores!Next
     \/ part = "browser" /\ Browsing!Next

AllSpec == AllInit /\ [][AllNext]_allVars

Symmetry ==
  Permutations(Request) \cup Permutations(Invitation) \cup Permutations(Browser)

(* Every part keeps its types. *)
AllTypesOK ==
  CASE part \in {"folding", "notifications"} -> TypeOK
    [] part = "guests" -> Guests!TypeOK
    [] part = "consents" -> Consents!TypeOK
    [] part = "policies" -> Policies!TypeOK
    [] part = "calendar" -> Calendar!TypeOK
    [] part = "tenants" -> Provisioning!TypeOK
    [] part = "team" -> Team!TypeOK
    [] part = "prices" -> Prices!TypeOK
    [] part = "account" -> Account!TypeOK
    [] part = "stores" -> Stores!TypeOK
    [] part = "browser" -> Browsing!TypeOK

(* The properties of the parts, under the names they have there. *)
ErasureIsFinal == Guests!ErasureIsFinal
QuotesAddUp == Prices!QuotesAddUp

(* What is on file of a guest: one profile for a contact, and for every     *)
(* purpose what the guest said last.                                        *)
GuestsStand == Guests!AnswersConverge /\ Consents!ConsentsStand

(* What the hotel offers: the policy versions published and the nights      *)
(* opened for sale.                                                         *)
OfferStands == Policies!VersionsStand /\ Calendar!NightsStand

(* What a member of staff holds: roles that were granted, in a tenant that  *)
(* is whole, a device while the owner's role asks for one, and an active    *)
(* account below the lockout.                                               *)
AccountsStand ==
  Team!RolesAreInvited /\ Provisioning!TenantsStand /\ Account!SignInStands

(* What the browser shows: the answer to the latest call, and a selected    *)
(* tenant that is on the list.                                              *)
ScreenIsCurrent == Stores!ShownIsLatest /\ Browsing!SelectedIsListed
=============================================================================
