------------------------------- MODULE Access -------------------------------
(***************************************************************************)
(* Who a caller is and what a caller may do: the users, roles, user_roles,  *)
(* tenants and tenant_invites tables, the requests that sign a person in    *)
(* (HandleExchange, HandleCallback), join a team (HandleRedeem,             *)
(* HandleSelfServiceCreate) and manage roles (RoleHandler), and the role    *)
(* map of the RBAC evaluator, which those requests reload from the table.   *)
(*                                                                          *)
(* WithTenantConnection and the pool autocommit: a request is a sequence of *)
(* statements, each an action, and any other request may run in between.    *)
(* Ids are positions: a row never gets the id of another.                   *)
(***************************************************************************)
EXTENDS Naturals, Sequences, FiniteSets

CONSTANTS
    Reqs,        \* requests of more than one statement
    Home,        \* the tenant that exists from the start, with a custom role, "ops"
    Others,      \* tenants that may be created
    Subjects,    \* OIDC accounts (issuer and subject)
    AdminSub,    \* the account of the platform administrator
    EmailOf,     \* the email of an account
    Scopes,      \* scopes of an assignment, "org" among them
    Names,       \* role names an administrator gives
    PermSets,    \* permission lists an administrator gives
    Invites,     \* rows of tenant_invites
    None,
    MaxUsers,    \* bound: rows of users
    MaxRoles,    \* bound: rows of roles ever inserted
    MaxFaults    \* bound: statements that fail, and restarts

Tenants == {Home} \cup Others

ASSUME ConstantsAssumption ==
    /\ Home \notin Others
    /\ AdminSub \in Subjects
    /\ "org" \in Scopes
    /\ None \notin Tenants \cup Subjects \cup Invites
    /\ {MaxUsers, MaxRoles, MaxFaults} \subseteq Nat

(* The rows of roles. *)
RoleRow ==
    [tenant : Tenants, name : Names \cup {"org_admin", "standard_user", "ops"},
     perms : PermSets \cup {{"*"}, {"read"}, {"write"}}, system : BOOLEAN]

ASSUME NoneIsNoRole == None \notin RoleRow

VARIABLES
    tenants,    \* rows of tenants
    users,      \* rows of users
    roles,      \* rows of roles, a deleted one is None
    assigned,   \* user_roles: <<user, role, scope>>
    invites,    \* rows of tenant_invites
    cache,      \* Evaluator.roles: <<tenant, name, permissions>>
    req,        \* what a request asks for and how far it is
    token,      \* the identity a login was answered with
    past,       \* history: the contents the roles table has had, in order
    faults

vars == <<tenants, users, roles, assigned, invites, cache, req, token, past, faults>>

Role(t, n, ps, sys) == [tenant |-> t, name |-> n, perms |-> ps, system |-> sys]

(* SeedDefaultRoles; two of its four roles stand for all. *)
DefaultRoles(t) ==
    <<Role(t, "org_admin", {"*"}, TRUE), Role(t, "standard_user", {"read"}, TRUE)>>

Rows(rs) == {i \in 1..Len(rs) : rs[i] # None}

(* The map that ReloadRoles makes of the rows LoadRoles returns. *)
Defs(rs) == {<<rs[i].tenant, rs[i].name, rs[i].perms>> : i \in Rows(rs)}

(* A request: the statement it runs next, its input, the user it works on,  *)
(* what LoadRoles read for it, and the entry of past it made (history).     *)
Request(l, o, u) == [at |-> l, op |-> o, user |-> u, snap |-> {}, mine |-> 0]
Idle == Request("idle", None, 0)
Over == Request("over", None, 0)

Init ==
    /\ tenants = {Home}
    /\ users = <<[tenant |-> Home, email |-> EmailOf[AdminSub], subject |-> AdminSub]>>
    /\ roles = Append(DefaultRoles(Home), Role(Home, "ops", {"write"}, FALSE))
    /\ assigned = {<<1, 1, "org">>}
    /\ invites = [i \in Invites |-> [tenant |-> None, used |-> 0, state |-> "none"]]
    /\ cache = Defs(roles)
    /\ req = [r \in Reqs |-> Idle]
    /\ token = [r \in Reqs |-> None]
    /\ past = <<Defs(roles)>>
    /\ faults = 0
-----------------------------------------------------------------------------
At(r, l) == req[r].at = l

Goto(r, l) == req' = [req EXCEPT ![r].at = l]

(* The request is answered, with success or with an error. *)
End(r) == req' = [req EXCEPT ![r] = Over]

Begin(r, l, o, u) ==
    /\ req[r] = Idle
    /\ req' = [req EXCEPT ![r] = Request(l, o, u)]
    /\ UNCHANGED <<tenants, users, roles, assigned, invites, cache, token, past, faults>>

(* Both logins resolve the tenant of the request first; None is the base    *)
(* domain, or a slug without a tenant.                                      *)
SignIn(r, k) ==
    \E s \in Subjects, t \in tenants \cup {None} :
        Begin(r, IF t = None THEN "admin" ELSE "insert",
              [kind |-> k, subject |-> s, tenant |-> t], 0)

HandleExchange(r) == SignIn(r, "exchange")
HandleCallback(r) == SignIn(r, "callback")

HandleRedeem(r) ==
    \E u \in DOMAIN users, i \in Invites :
        /\ invites[i].state # "none"
        /\ Begin(r, "redeem", [kind |-> "redeem", invite |-> i], u)

(* HandleSelfServiceCreate refuses a token that names a tenant: the         *)
(* administrator's token of the base domain is the one that names none.     *)
HandleSelfServiceCreate(r) ==
    \E q \in Reqs :
        /\ token[q] # None
        /\ token[q].tenant = None
        /\ Begin(r, "tenant", [kind |-> "onboard", tenant |-> None], token[q].user)

Grantable(ps) == "*" \notin ps

HandleCreate(r) ==
    \E t \in tenants, n \in Names, ps \in PermSets :
        /\ Len(roles) < MaxRoles
        /\ Grantable(ps)
        /\ Begin(r, "mutate", [kind |-> "create", tenant |-> t, name |-> n, perms |-> ps], 0)

HandleUpdate(r) ==
    \E i \in Rows(roles), n \in Names, ps \in PermSets :
        /\ Grantable(ps)
        /\ Begin(r, "mutate", [kind |-> "update", role |-> i, name |-> n, perms |-> ps], 0)

HandleDelete(r) ==
    \E i \in Rows(roles) : Begin(r, "mutate", [kind |-> "delete", role |-> i], 0)

(* The user and the role are looked up in the caller's tenant, then linked. *)
HandleAssignRole(r) ==
    \E u \in DOMAIN users, i \in Rows(roles), s \in Scopes :
        /\ users[u].tenant = roles[i].tenant
        /\ Begin(r, "assign", [kind |-> "assign", role |-> i, scope |-> s], u)
-----------------------------------------------------------------------------
(* FindOrCreateByOIDC.  The unique constraints are those of the schema:     *)
(* (oidc_issuer, oidc_subject) and (tenant_id, email).                      *)
WithSubject(s) == {u \in DOMAIN users : users[u].subject = s}
WithEmail(t, e) == {u \in DOMAIN users : users[u].tenant = t /\ users[u].email = e}

Found(r, u) == req' = [req EXCEPT ![r].at = "load", ![r].user = u]

InsertUser(r) ==
    LET o == req[r].op
        e == EmailOf[o.subject]
    IN
    /\ At(r, "insert")
    /\ \/ /\ WithSubject(o.subject) # {}
          /\ Goto(r, "select")
          /\ UNCHANGED users
       \/ /\ WithSubject(o.subject) = {} /\ WithEmail(o.tenant, e) # {}
          /\ Goto(r, "race")
          /\ UNCHANGED users
       \/ /\ WithSubject(o.subject) = {} /\ WithEmail(o.tenant, e) = {}
          /\ users' = Append(users, [tenant |-> o.tenant, email |-> e, subject |-> o.subject])
          /\ req' = [req EXCEPT ![r].at = IF o.kind = "exchange" THEN "role" ELSE "load",
                                ![r].user = Len(users')]
    /\ UNCHANGED <<tenants, roles, assigned, invites, cache, token, past, faults>>

SelectUser(r) ==
    /\ At(r, "select")
    /\ \E u \in WithSubject(req[r].op.subject) : Found(r, u)
    /\ UNCHANGED <<tenants, users, roles, assigned, invites, cache, token, past, faults>>

(* resolveEmailConflict: a second look for the account, then the account is *)
(* linked to the user with its email, if that user has none.                *)
RaceCheck(r) ==
    LET us == WithSubject(req[r].op.subject) IN
    /\ At(r, "race")
    /\ \/ \E u \in us : Found(r, u)
       \/ us = {} /\ Goto(r, "link")
    /\ UNCHANGED <<tenants, users, roles, assigned, invites, cache, token, past, faults>>

(* Mutant of Unlinked: a user who has an account already is linked again.   *)
UnlinkedOrNot(t, e) == WithEmail(t, e)

Unlinked(t, e) == {u \in WithEmail(t, e) : users[u].subject = None}

Link(r) ==
    LET o == req[r].op
        us == Unlinked(o.tenant, EmailOf[o.subject])
    IN
    /\ At(r, "link")
    /\ \/ /\ us = {} \/ WithSubject(o.subject) # {}
          /\ End(r)
          /\ UNCHANGED users
       \/ /\ WithSubject(o.subject) = {}
          /\ \E u \in us :
                /\ users' = [users EXCEPT ![u].subject = o.subject]
                /\ Found(r, u)
    /\ UNCHANGED <<tenants, roles, assigned, invites, cache, token, past, faults>>

(* GetIdentityWithRoles, whose answer the tokens carry. *)
SubjectOf(r) ==
    IF req[r].op.kind = "redeem" THEN users[req[r].user].subject ELSE req[r].op.subject

Answer(r, u, t) ==
    /\ token' = [token EXCEPT ![r] =
            [subject |-> SubjectOf(r), user |-> u, tenant |-> t,
             roles |-> {roles[a[2]].name : a \in {b \in assigned : b[1] = u}}]]
    /\ End(r)

LoadIdentity(r) ==
    /\ At(r, "load")
    /\ Answer(r, req[r].user, users[req[r].user].tenant)
    /\ UNCHANGED <<tenants, users, roles, assigned, invites, cache, past, faults>>

(* Without a tenant HandleExchange passes an empty tenant id to the INSERT, *)
(* which is no UUID, so it fails for the administrator too; HandleCallback  *)
(* issues the administrator a token that names no tenant.                   *)
NoTenant(r) ==
    LET o == req[r].op IN
    /\ At(r, "admin")
    /\ IF o.kind = "callback" /\ o.subject = AdminSub
       THEN \E u \in WithSubject(AdminSub) : Answer(r, u, None)
       ELSE End(r) /\ UNCHANGED token
    /\ UNCHANGED <<tenants, users, roles, assigned, invites, cache, past, faults>>
-----------------------------------------------------------------------------
SetRoles(rs, as) ==
    /\ roles' = rs
    /\ assigned' = as
    /\ past' = IF rs = roles THEN past ELSE Append(past, Defs(rs))

TenantOf(o) == IF o.kind = "redeem" THEN invites[o.invite].tenant ELSE o.tenant

(* Store.AssignRole: the role of that name in the tenant, if there is one.  *)
AssignRole(r) ==
    LET n == IF req[r].op.kind = "onboard" THEN "org_admin" ELSE "standard_user"
        is == {i \in Rows(roles) : roles[i].tenant = TenantOf(req[r].op) /\ roles[i].name = n}
    IN
    /\ At(r, "role")
    /\ SetRoles(roles, assigned \cup {<<req[r].user, i, "org">> : i \in is})
    /\ IF req[r].op.kind = "onboard" THEN End(r) ELSE Goto(r, "load")
    /\ UNCHANGED <<tenants, users, invites, cache, token, faults>>

(* InviteStore.Redeem: one UPDATE checks the invite and spends it.          *)
Redeemable(i) == invites[i].state = "open" /\ invites[i].used = 0

Redeem(r) ==
    LET i == req[r].op.invite IN
    /\ At(r, "redeem")
    /\ \/ /\ Redeemable(i)
          /\ invites' = [invites EXCEPT ![i].used = req[r].user]
          /\ Goto(r, "join")
       \/ /\ ~Redeemable(i)
          /\ End(r)
          /\ UNCHANGED invites
    /\ UNCHANGED <<tenants, users, roles, assigned, cache, token, past, faults>>

(* UpdateUserTenant: WHERE tenant_id IS NULL, in a column that is NOT NULL. *)
Join(r) ==
    LET u == req[r].user IN
    /\ At(r, "join")
    /\ IF users[u].tenant = None
       THEN /\ users' = [users EXCEPT ![u].tenant = TenantOf(req[r].op)]
            /\ Goto(r, "role")
       ELSE End(r) /\ UNCHANGED users
    /\ UNCHANGED <<tenants, roles, assigned, invites, cache, token, past, faults>>

(* The new team, under another slug if the first is taken, and its roles.   *)
CreateTeam(r) ==
    /\ At(r, "tenant")
    /\ \/ \E t \in Others \ tenants :
            /\ tenants' = tenants \cup {t}
            /\ req' = [req EXCEPT ![r].at = "seed", ![r].op.tenant = t]
       \/ /\ Others \subseteq tenants
          /\ End(r)
          /\ UNCHANGED tenants
    /\ UNCHANGED <<users, roles, assigned, invites, cache, token, past, faults>>

Taken(rs, t, n) == \E i \in Rows(rs) : rs[i].tenant = t /\ rs[i].name = n

(* ON CONFLICT (tenant_id, name) DO NOTHING *)
Seeded(rs, d) == IF Taken(rs, d.tenant, d.name) THEN rs ELSE Append(rs, d)

SeedDefaultRoles(r) ==
    LET ds == DefaultRoles(req[r].op.tenant) IN
    /\ At(r, "seed")
    /\ SetRoles(Seeded(Seeded(roles, ds[1]), ds[2]), assigned)
    /\ Goto(r, "join")
    /\ UNCHANGED <<tenants, users, invites, cache, token, faults>>
-----------------------------------------------------------------------------
(* RoleStore.Create, Update and Delete: one statement each, which the       *)
(* handler follows by ReloadRoles.  user_roles cascades from roles.         *)
Refuse(r) == End(r) /\ UNCHANGED <<roles, assigned, past>>

Mutated(r, rs, as) ==
    /\ SetRoles(rs, as)
    /\ req' = [req EXCEPT ![r].at = "reload", ![r].mine = Len(past')]

Create(r, o) ==
    IF Taken(roles, o.tenant, o.name)
    THEN Refuse(r)
    ELSE Mutated(r, Append(roles, Role(o.tenant, o.name, o.perms, FALSE)), assigned)

Update(r, o) ==
    IF \/ o.role \notin Rows(roles) \/ roles[o.role].system
       \/ o.name # roles[o.role].name /\ Taken(roles, roles[o.role].tenant, o.name)
    THEN Refuse(r)
    ELSE Mutated(r, [roles EXCEPT ![o.role].name = o.name, ![o.role].perms = o.perms], assigned)

(* Mutant of InUse: the assignments of a role are not counted.              *)
NeverInUse(i) == FALSE

InUse(i) == \E a \in assigned : a[2] = i

Delete(r, i) ==
    IF i \notin Rows(roles) \/ roles[i].system \/ InUse(i)
    THEN Refuse(r)
    ELSE Mutated(r, [roles EXCEPT ![i] = None], {a \in assigned : a[2] # i})

Mutate(r) ==
    LET o == req[r].op IN
    /\ At(r, "mutate")
    /\ \/ o.kind = "create" /\ Create(r, o)
       \/ o.kind = "update" /\ Update(r, o)
       \/ o.kind = "delete" /\ Delete(r, o.role)
    /\ UNCHANGED <<tenants, users, invites, cache, token, faults>>

(* Mutant of LoadRoles: the roles read first are used for good.             *)
LoadRolesOnce(r) ==
    /\ At(r, "reload")
    /\ req' = [req EXCEPT ![r].at = "publish", ![r].snap = past[1]]
    /\ UNCHANGED <<tenants, users, roles, assigned, invites, cache, token, past, faults>>

(* ReloadRoles reads the table without the evaluator's lock, and takes the  *)
(* lock only to replace the map.                                            *)
LoadRoles(r) ==
    /\ At(r, "reload")
    /\ req' = [req EXCEPT ![r].at = "publish", ![r].snap = Defs(roles)]
    /\ UNCHANGED <<tenants, users, roles, assigned, invites, cache, token, past, faults>>

Publish(r) ==
    /\ At(r, "publish")
    /\ cache' = req[r].snap
    /\ End(r)
    /\ UNCHANGED <<tenants, users, roles, assigned, invites, token, past, faults>>

(* AssignToUser: the foreign key wants the role that GetByID saw. *)
AssignToUser(r) ==
    LET o == req[r].op IN
    /\ At(r, "assign")
    /\ \/ /\ o.role \in Rows(roles)
          /\ SetRoles(roles, assigned \cup {<<req[r].user, o.role, o.scope>>})
       \/ /\ o.role \notin Rows(roles)
          /\ UNCHANGED <<roles, assigned, past>>
    /\ End(r)
    /\ UNCHANGED <<tenants, users, invites, cache, token, faults>>
-----------------------------------------------------------------------------
(* Requests of one statement. *)
RemoveFromUser ==
    /\ \E a \in assigned : assigned' = assigned \ {a}
    /\ UNCHANGED <<tenants, users, roles, invites, cache, req, token, past, faults>>

CreateTenant ==
    /\ \E t \in Others \ tenants : tenants' = tenants \cup {t}
    /\ UNCHANGED <<users, roles, assigned, invites, cache, req, token, past, faults>>

CreateUser ==
    /\ Len(users) < MaxUsers
    /\ \E t \in tenants, s \in Subjects :
        /\ WithEmail(t, EmailOf[s]) = {}
        /\ users' = Append(users, [tenant |-> t, email |-> EmailOf[s], subject |-> None])
    /\ UNCHANGED <<tenants, roles, assigned, invites, cache, req, token, past, faults>>

CreateInvite ==
    /\ \E i \in Invites, t \in tenants :
        /\ invites[i].state = "none"
        /\ invites' = [invites EXCEPT ![i].state = "open", ![i].tenant = t]
    /\ UNCHANGED <<tenants, users, roles, assigned, cache, req, token, past, faults>>

(* InviteStore.Delete, or the week of the invite is over. *)
CloseInvite ==
    /\ \E i \in Invites :
        /\ invites[i].state = "open"
        /\ invites' = [invites EXCEPT ![i].state = "closed"]
    /\ UNCHANGED <<tenants, users, roles, assigned, cache, req, token, past, faults>>
-----------------------------------------------------------------------------
(* A statement fails.  Most errors end the request; a failed default role   *)
(* is logged and the login goes on; a failed reload is logged and leaves    *)
(* the evaluator with the roles it had.  The first load of a new user's     *)
(* identity, in FindOrCreateByOIDC, comes before its default role.          *)
Fault ==
    /\ faults < MaxFaults
    /\ faults' = faults + 1

StatementFails(r) ==
    /\ req[r] \notin {Idle, Over}
    /\ ~At(r, "publish")
    /\ Fault
    /\ \/ End(r)
       \/ At(r, "role") /\ req[r].op.kind = "exchange" /\ Goto(r, "load")
    /\ UNCHANGED <<tenants, users, roles, assigned, invites, cache, token, past>>

(* The process dies with its requests; the next one loads the roles before  *)
(* it serves.                                                               *)
Restart ==
    /\ Fault
    /\ cache' = Defs(roles)
    /\ req' = [r \in Reqs |-> IF req[r] = Idle THEN Idle ELSE Over]
    /\ UNCHANGED <<tenants, users, roles, assigned, invites, token, past>>

Start(r) ==
    \/ HandleExchange(r) \/ HandleCallback(r) \/ HandleRedeem(r) \/ HandleSelfServiceCreate(r)
    \/ HandleCreate(r) \/ HandleUpdate(r) \/ HandleDelete(r) \/ HandleAssignRole(r)

Step(r) ==
    \/ InsertUser(r) \/ SelectUser(r) \/ RaceCheck(r) \/ Link(r) \/ NoTenant(r) \/ LoadIdentity(r)
    \/ AssignRole(r) \/ Redeem(r) \/ Join(r) \/ CreateTeam(r) \/ SeedDefaultRoles(r)
    \/ Mutate(r) \/ LoadRoles(r) \/ Publish(r) \/ AssignToUser(r)

Next ==
    \/ \E r \in Reqs : Start(r) \/ Step(r) \/ StatementFails(r)
    \/ RemoveFromUser \/ CreateTenant \/ CreateUser \/ CreateInvite \/ CloseInvite
    \/ Restart

Spec == Init /\ [][Next]_vars
-----------------------------------------------------------------------------
(* Types, and what the schema and the handlers keep together: the unique    *)
(* constraints of users and roles, and the wildcard permission, which       *)
(* RoleHandler gives to no role, so that only system roles have it.         *)
TypeOK ==
    /\ Home \in tenants /\ tenants \subseteq Tenants
    /\ \A u \in DOMAIN users : users[u].tenant \in tenants /\ users[u].subject \in Subjects \cup {None}
    /\ \A u, v \in DOMAIN users : u # v =>
        /\ users[u].subject = None \/ users[u].subject # users[v].subject
        /\ <<users[u].tenant, users[u].email>> # <<users[v].tenant, users[v].email>>
    /\ \A i, j \in Rows(roles) :
        i # j => <<roles[i].tenant, roles[i].name>> # <<roles[j].tenant, roles[j].name>>
    /\ \A i \in Rows(roles) : roles[i].system \/ "*" \notin roles[i].perms
    /\ assigned \subseteq (1..Len(users)) \X (1..Len(roles)) \X Scopes
    /\ \A i \in Invites : invites[i].used \in 0..Len(users)
    /\ \A r \in Reqs : req[r].user \in 0..Len(users) /\ req[r].mine \in 0..Len(past)
    /\ faults \in 0..MaxFaults

SignedIn == {r \in Reqs : token[r] # None}

(* An account is a user: all logins of an account are answered with the     *)
(* same user, whatever tenant they name and however they race, and no two   *)
(* accounts share one, even when their emails are the same                  *)
(* (FindOrCreateByOIDC, resolveEmailConflict).                              *)
AccountIsUser ==
    \A q, r \in SignedIn : (token[q].subject = token[r].subject) <=> (token[q].user = token[r].user)

(* A user only ever holds roles of the user's own tenant, and the role of   *)
(* an assignment exists: UpdateUserTenant refuses before AssignRole is      *)
(* reached, and a role in use is not deleted.                               *)
RolesOfOwnTenant ==
    \A a \in assigned : a[2] \in Rows(roles) /\ roles[a[2]].tenant = users[a[1]].tenant

Permits(ps, p) == "*" \in ps \/ p \in ps

(* Mutant of Authorize: the role map is not kept by tenant.                 *)
AuthorizeAnywhere(k, p) == \E d \in cache : d[2] \in k.roles /\ Permits(d[3], p)

(* checkRolePermissions, for the names in the token and the evaluator's map *)
(* of the token's tenant; RequirePermission names no resource, so resource  *)
(* policies play no part.                                                   *)
Authorize(k, p) == \E d \in cache : d[1] = k.tenant /\ d[2] \in k.roles /\ Permits(d[3], p)

(* A permission that RequirePermission grants was once given: at some time  *)
(* the tenant had a role, of a name the caller's token lists, with that     *)
(* permission.  Tokens and the role map may both be old, but together they  *)
(* never make up a grant, and none crosses from another tenant's role of    *)
(* the same name.                                                           *)
AllowedWasGranted ==
    \A r \in SignedIn : \A p \in {"read"} \cup UNION PermSets :
        Authorize(token[r], p) =>
            \E i \in 1..Len(past) : \E d \in past[i] :
                d[1] = token[r].tenant /\ d[2] \in token[r].roles /\ Permits(d[3], p)

(* An assignment goes only when it is removed (HandleRemoveRole): deleting  *)
(* a role never takes one along, although the foreign key cascades.         *)
AssignmentKept ==
    [][\A a \in assigned \ assigned' : assigned' = assigned \ {a} /\ roles' = roles]_vars

(* The map a role request publishes is one that the table had after the     *)
(* request's own change: once the request is answered its change is in      *)
(* force, unless a later change undid it or an older reload comes in late.  *)
OwnChangePublished ==
    [][\A r \in Reqs : At(r, "publish") /\ cache' = req[r].snap =>
        \E i \in req[r].mine..Len(past) : cache' = past[i]]_vars

(* An invite is spent once: whoever redeemed it first keeps it (Redeem      *)
(* checks and spends in one UPDATE).                                        *)
InviteSpentOnce ==
    [][\A i \in Invites : invites[i].used # 0 => invites'[i].used = invites[i].used]_vars
-----------------------------------------------------------------------------
(* Where the code departs from what is written about it.                    *)
NoneInFlight == \A r \in Reqs : req[r] \in {Idle, Over}

(* "InviteRedeemHandler handles invite code redemption - assigns user to a  *)
(* tenant and grants the role embedded in the invite" (invite_handler.go).  *)
(* The column tenant_id is NOT NULL, so no user is without a tenant, and    *)
(* every redemption spends the invite and then fails.                       *)
RedeemedJoins ==
    NoneInFlight => \A i \in Invites :
        invites[i].used # 0 => users[invites[i].used].tenant = invites[i].tenant

(* The evaluator loads the roles "at startup and after mutations"           *)
(* (LoadRoles), but two reloads may publish in the other order than they    *)
(* read, and SeedDefaultRoles is followed by none.                          *)
MapIsCurrent == NoneInFlight => cache = Defs(roles)

(* "Assign default role when a new user is provisioned into a tenant"       *)
(* (HandleExchange): HandleCallback provisions users without one, and no    *)
(* later exchange makes up for it.                                          *)
ProvisionedHasRole ==
    \A u \in DOMAIN users :
        NoneInFlight /\ users[u].tenant = Home /\ users[u].subject # None
            => \E a \in assigned : a[1] = u

(* "Platform admin - proceed without tenant scope" (HandleExchange): the    *)
(* empty tenant id is not a UUID, and the exchange is answered with an      *)
(* error.                                                                   *)
AdminExchanges ==
    [][\A r \in Reqs :
        At(r, "admin") /\ req[r].op.kind = "exchange" /\ req[r].op.subject = AdminSub
            /\ req'[r] = Over => token'[r] # None]_vars
=============================================================================
