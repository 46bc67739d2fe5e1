---------------------------- MODULE CallMatrix ----------------------------
(***************************************************************************)
(* Who may call whom: permissions.can_call and the tenant check of         *)
(* calls.create_call, as predicates over profile rows.                     *)
(*                                                                         *)
(* A profile is a record [id, tenant, client, role, superadmin, active]:   *)
(* `tenant' is NoTenant and `client' NoClient where the column is NULL.    *)
(* `assigned[c]' is Client.owner_id of client c.                           *)
(***************************************************************************)
CONSTANTS NoTenant, NoClient

IsPlatform(p) == p.superadmin
IsPortal(p)   == p.client # NoClient
IsOwner(p)    == p.role = "owner"
Assigned(client, staff, assigned) == assigned[client.client] = staff.id

\* The platform's super-admin and a company Owner, across tenants.
PlatformPair(me, target) ==
    LET other == IF IsPlatform(me) THEN target ELSE me
    IN  /\ ~IsPortal(me) /\ ~IsPortal(target)
        /\ ~IsPlatform(other) /\ IsOwner(other)

\* A portal login and a member of its firm.
PortalPair(me, target, assigned) ==
    LET login  == IF IsPortal(me) THEN me ELSE target
        member == IF IsPortal(me) THEN target ELSE me
    IN  /\ ~(IsPortal(me) /\ IsPortal(target))
        /\ IsOwner(member) \/ Assigned(login, member, assigned)

StaffPair(me, target) == IsOwner(me) \/ IsOwner(target)

CanCall(me, target, assigned) ==
    /\ me.id # target.id
    /\ target.active
    /\ \/ /\ IsPlatform(me) \/ IsPlatform(target)
          /\ PlatformPair(me, target)
       \/ /\ ~IsPlatform(me) /\ ~IsPlatform(target)
          /\ me.tenant # NoTenant /\ me.tenant = target.tenant
          /\ \/ /\ IsPortal(me) \/ IsPortal(target)
                /\ PortalPair(me, target, assigned)
             \/ /\ ~IsPortal(me) /\ ~IsPortal(target)
                /\ StaffPair(me, target)

\* create_call: a call's company-side participants share one tenant.
OneCompany(people) ==
    \A p, q \in {x \in people : ~IsPlatform(x)} : p.tenant = q.tenant

CanCreate(me, invitees, assigned) ==
    /\ invitees # {}
    /\ \A target \in invitees : CanCall(me, target, assigned)
    /\ OneCompany(invitees \cup {me})
===========================================================================
