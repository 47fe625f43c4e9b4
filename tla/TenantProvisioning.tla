-------------------------- MODULE TenantProvisioning --------------------------
(* The tenants of the platform and the threads that serve them: requests that *)
(* resolve and stamp their tenant, and TenantService.provision(), statement   *)
(* by statement, each in one transaction.  A transaction sees committed rows  *)
(* and its own; row level security shows and admits the rows of its stamp.    *)
EXTENDS Naturals, FiniteSets, Sequences

CONSTANTS
  Thread, User, Code, Nothing,
  MaxTenant      \* bound: primary keys

VARIABLES
  tenant,     \* per id: its code, its owner, the parts of its footprint that
              \* have rows, and the thread whose transaction is still open
  account,    \* per user: "absent", the thread that inserts it, or Nothing
  context,    \* per thread: the thread-local tenant
  stamp,      \* per thread: app.tenant_id of the transaction
  job         \* per thread: the request or the provisioning it runs

vars == <<tenant, account, context, stamp, job>>

Id == 1..MaxTenant

(* What provision() writes once it is in the tenant; the owner's account is   *)
(* the platform's, the rest is the tenant's.                                  *)
Footprint == <<"settings", "flags", "roles", "account", "membership", "owner role">>
Scoped == {Footprint[n] : n \in DOMAIN Footprint} \ {"account"}

Init ==
  /\ tenant = [t \in Id |-> Nothing]
  /\ account = [u \in User |-> "absent"]
  /\ context = [k \in Thread |-> Nothing]
  /\ stamp = [k \in Thread |-> Nothing]
  /\ job = [k \in Thread |-> Nothing]

Committed(t) == tenant[t] # Nothing /\ tenant[t].by = Nothing

(* The policies' USING and WITH CHECK: no stamp, no rows. *)
tenant_isolation(k, t) == stamp[k] = t

(* The manager's filter: no context, no filter. *)
get_queryset(k) == {t \in Id : context[k] \in {Nothing, t}}

(* The tenants whose rows a statement of the thread finds. *)
Visible(k) ==
  {t \in get_queryset(k) :
     tenant[t] # Nothing /\ tenant[t].by \in {Nothing, k} /\ tenant_isolation(k, t)}

principal_tenants(u) ==
  {t \in Id : Committed(t) /\ tenant[t].owner = u /\ "membership" \in tenant[t].rows}

At(k, step) == job[k] # Nothing /\ job[k].step = step
Go(k, step) == job' = [job EXCEPT ![k].step = step]

Done(k, c) ==
  /\ job' = [job EXCEPT ![k] = Nothing]
  /\ stamp' = [stamp EXCEPT ![k] = Nothing]
  /\ context' = [context EXCEPT ![k] = c]

-----------------------------------------------------------------------------
(* TenantContextMiddleware.                                                   *)

Resolved(u, header) ==
  {t \in principal_tenants(u) : t = header \/ (header = Nothing /\ principal_tenants(u) = {t})}

(* Without a tenant of its own the request goes on without any; a header that *)
(* names none of them is refused.                                             *)
Establish(k, u, header) ==
  /\ job[k] = Nothing
  /\ header # Nothing => principal_tenants(u) = {} \/ Resolved(u, header) # {}
  /\ \/ /\ Resolved(u, header) = {}
        /\ job' = [job EXCEPT ![k] = [step |-> "handle", user |-> u, tenant |-> Nothing]]
        /\ UNCHANGED context
     \/ \E t \in Resolved(u, header) :
          /\ job' = [job EXCEPT ![k] = [step |-> "stamp", user |-> u, tenant |-> t]]
          /\ context' = [context EXCEPT ![k] = t]
  /\ UNCHANGED <<tenant, account, stamp>>

StampDb(k) ==
  /\ At(k, "stamp")
  /\ stamp' = [stamp EXCEPT ![k] = job[k].tenant]
  /\ Go(k, "handle")
  /\ UNCHANGED <<tenant, account, context>>

(* The thread-local is set by now and nothing clears it. *)
StampFails(k) ==
  /\ At(k, "stamp")
  /\ Done(k, context[k])
  /\ UNCHANGED <<tenant, account>>

Respond(k) ==
  /\ At(k, "handle")
  /\ Done(k, Nothing)
  /\ UNCHANGED <<tenant, account>>

-----------------------------------------------------------------------------
(* TenantService.provision().                                                 *)

Provision(k, code, owner) ==
  /\ job[k] = Nothing
  /\ IF \E t \in Id : Committed(t) /\ tenant[t].code = code
     THEN UNCHANGED job
     ELSE job' = [job EXCEPT ![k] =
            [step |-> "create", user |-> owner, tenant |-> Nothing, code |-> code]]
  /\ UNCHANGED <<tenant, account, context, stamp>>

WithCode(code) == {t \in Id : tenant[t] # Nothing /\ tenant[t].code = code}

(* The code of an open transaction is waited for; a tenant that has it by now *)
(* is the answer.                                                             *)
CreateTenant(k) ==
  /\ At(k, "create")
  /\ \A t \in WithCode(job[k].code) : Committed(t)
  /\ IF WithCode(job[k].code) # {}
     THEN job' = [job EXCEPT ![k] = Nothing] /\ UNCHANGED tenant
     ELSE \E t \in Id :
            /\ tenant[t] = Nothing /\ \A s \in 1..(t - 1) : tenant[s] # Nothing
            /\ tenant' = [tenant EXCEPT ![t] =
                 [code |-> job[k].code, owner |-> job[k].user, rows |-> {}, by |-> k]]
            /\ job' = [job EXCEPT ![k] = [step |-> "enter", user |-> @.user, tenant |-> t]]
  /\ UNCHANGED <<account, context, stamp>>

(* run_as_tenant() remembers the tenant of the thread. *)
EnterTenant(k) ==
  /\ At(k, "enter")
  /\ job' = [job EXCEPT ![k] = [step |-> "write", user |-> @.user, tenant |-> @.tenant,
                                next |-> 1, previous |-> context[k]]]
  /\ context' = [context EXCEPT ![k] = job[k].tenant]
  /\ stamp' = [stamp EXCEPT ![k] = job[k].tenant]
  /\ UNCHANGED <<tenant, account>>

(* get_or_create() of the owner's account waits like that of the tenant. *)
WritePart(k) ==
  LET part == Footprint[job[k].next]
      t == job[k].tenant
  IN
  /\ At(k, "write") /\ job[k].next \in DOMAIN Footprint
  /\ IF part = "account"
     THEN /\ account[job[k].user] \in {"absent", Nothing}
          /\ account' = [account EXCEPT ![job[k].user] = IF @ = "absent" THEN k ELSE @]
          /\ UNCHANGED tenant
     ELSE /\ tenant_isolation(k, t)
          /\ tenant' = [tenant EXCEPT ![t].rows = @ \cup {part}]
          /\ UNCHANGED account
  /\ job' = [job EXCEPT ![k].next = @ + 1]
  /\ UNCHANGED <<context, stamp>>

Kept(k) ==
  /\ tenant' = [t \in Id |->
       IF tenant[t] # Nothing /\ tenant[t].by = k
       THEN [tenant[t] EXCEPT !.by = Nothing] ELSE tenant[t]]
  /\ account' = [u \in User |-> IF account[u] = k THEN Nothing ELSE account[u]]

Undone(k) ==
  /\ tenant' = [t \in Id |->
       IF tenant[t] # Nothing /\ tenant[t].by = k THEN Nothing ELSE tenant[t]]
  /\ account' = [u \in User |-> IF account[u] = k THEN "absent" ELSE account[u]]

Provisioned(k) ==
  /\ At(k, "write") /\ job[k].next \notin DOMAIN Footprint
  /\ Kept(k)
  /\ Done(k, job[k].previous)

(* A statement fails, or the process dies and a new one takes its place.      *)
(* run_as_tenant() puts the thread-local back when a statement under it       *)
(* fails, but not when its own stamp does, which comes before its try.        *)
ProvisionFails(k) ==
  /\ At(k, "create") \/ At(k, "enter") \/ At(k, "write")
  /\ Undone(k)
  /\ \/ At(k, "create") /\ Done(k, context[k])
     \/ At(k, "enter") /\ Done(k, job[k].tenant)
     \/ At(k, "write") /\ Done(k, job[k].previous)
     \/ Done(k, Nothing)

Next ==
  \E k \in Thread :
    \/ \E u \in User, header \in Id \cup {Nothing} : Establish(k, u, header)
    \/ StampDb(k) \/ StampFails(k) \/ Respond(k)
    \/ \E code \in Code, u \in User : Provision(k, code, u)
    \/ CreateTenant(k) \/ EnterTenant(k) \/ WritePart(k) \/ Provisioned(k) \/ ProvisionFails(k)

Spec == Init /\ [][Next]_vars

-----------------------------------------------------------------------------
TypeOK ==
  /\ tenant \in [Id -> [code : Code, owner : User, rows : SUBSET Scoped,
                        by : Thread \cup {Nothing}] \cup {Nothing}]
  /\ account \in [User -> Thread \cup {"absent", Nothing}]
  /\ context \in [Thread -> Id \cup {Nothing}]
  /\ stamp \in [Thread -> Id \cup {Nothing}]
  /\ \A k \in Thread : job[k] # Nothing =>
       /\ job[k].step \in {"stamp", "handle", "create", "enter", "write"}
       /\ job[k].tenant \in Id \cup {Nothing}

(* services.py:5-7, "onboarding either fully lands or fully rolls back", and  *)
(* a retry adds nothing: a tenant others can see has its whole footprint and  *)
(* an owner with an account, and a code has one tenant.                       *)
TenantsWhole ==
  /\ \A t \in Id : Committed(t) =>
       tenant[t].rows = Scoped /\ account[tenant[t].owner] = Nothing
  /\ \A s, t \in Id :
       tenant[s] # Nothing /\ tenant[t] # Nothing /\ tenant[s].code = tenant[t].code => s = t

(* tenancy.py:9-10 and 0002_enable_rls.py:8-10: a request sees the rows of    *)
(* the tenant it was resolved to, of which its user is a member, and none     *)
(* without one, whatever ran on its thread before; provisioning sees its own. *)
ServedInTheirTenant ==
  \A k \in Thread :
    /\ At(k, "handle") => Visible(k) = {job[k].tenant} \cap principal_tenants(job[k].user)
    /\ At(k, "write") => Visible(k) = {job[k].tenant}

TenantsStand == TenantsWhole /\ ServedInTheirTenant
=============================================================================
