---------------------------- MODULE AccessProofs ----------------------------
(***************************************************************************)
(* Proofs about Access, for any number of requests, accounts, tenants,      *)
(* users, roles, invites and faults.  The invariant has four parts: the     *)
(* tables (Tables) and the history of the role map (History), what the      *)
(* place of a request says of its own variables and whom a token names      *)
(* (Local), the unique constraints (UsersUnique, RolesUnique), and that a   *)
(* user holds roles of one tenant.  Grow is what every step leaves standing *)
(* of the tables, so that the facts of a request survive the steps of the   *)
(* others.                                                                  *)
(***************************************************************************)
EXTENDS Access, TLAPS

(* Most steps are for Zenon; those that need the SMT solver say so. *)
USE ZenonT(30)

UserRow ==
    [tenant : Tenants, email : {EmailOf[s] : s \in Subjects}, subject : Subjects \cup {None}]

InviteRow == [tenant : Tenants \cup {None}, used : Nat, state : {"none", "open", "closed"}]

(* The role map has been the contents of the table at some time, and the    *)
(* last contents noted are those of now.                                    *)
History ==
    /\ past \in Seq(SUBSET {<<d.tenant, d.name, d.perms>> : d \in RoleRow})
    /\ Len(past) > 0
    /\ past[Len(past)] = Defs(roles)
    /\ \E i \in 1..Len(past) : cache = past[i]

Tables ==
    /\ Home \in tenants /\ tenants \subseteq Tenants
    /\ users \in Seq(UserRow)
    /\ \A u \in 1..Len(users) : users[u].tenant \in tenants
    /\ roles \in Seq(RoleRow \cup {None})
    /\ assigned \subseteq (1..Len(users)) \X (1..Len(roles)) \X Scopes
    /\ invites \in [Invites -> InviteRow]
    /\ \A i \in Invites : invites[i].used \in 0..Len(users)
    /\ token = [r \in Reqs |-> token[r]]
    /\ faults \in 0..MaxFaults

SigningIn == {"admin", "insert", "select", "race", "link", "load", "role"}
HasTenant == {"insert", "select", "race", "link", "role"}

(* What its place, l, says of a request's own variables: its input o, user  *)
(* u, snapshot d and entry of past n.                                       *)
Knows(l, o, u, d, n) ==
    /\ l \in SigningIn => o.kind \in {"exchange", "callback"} /\ o.subject \in Subjects
    /\ l \in HasTenant => o.tenant \in tenants
    /\ l \in {"load", "role"} => u > 0 /\ users[u].subject = o.subject
    /\ l = "role" => o.kind = "exchange" /\ users[u].tenant = o.tenant
    /\ l \in {"redeem", "tenant", "seed", "join", "assign"} => u > 0
    /\ l = "redeem" => o.invite \in Invites
    /\ l = "tenant" => o = [kind |-> "onboard", tenant |-> None]
    /\ l = "seed" => o.tenant \in tenants
    /\ l = "mutate" =>
        /\ o.kind \in {"create", "update", "delete"}
        /\ o.kind = "create" => o.tenant \in tenants
        /\ o.kind # "create" => o.role \in 1..Len(roles)
        /\ o.kind # "delete" => o.name \in Names /\ o.perms \in PermSets /\ Grantable(o.perms)
    /\ l = "assign" =>
        /\ o.role \in 1..Len(roles) /\ o.scope \in Scopes
        /\ roles[o.role] # None => roles[o.role].tenant = users[u].tenant
    /\ l \in {"reload", "publish"} => n > 0
    /\ l = "publish" => \E i \in n..Len(past) : d = past[i]

LocalOf(x) ==
    /\ x = [at |-> x.at, op |-> x.op, user |-> x.user, snap |-> x.snap, mine |-> x.mine]
    /\ x.user \in 0..Len(users) /\ x.mine \in 0..Len(past)
    /\ Knows(x.at, x.op, x.user, x.snap, x.mine)

(* A token names a user with the account that signed in. *)
TokenOf(k) ==
    k # None => k.user \in 1..Len(users) /\ k.subject \in Subjects /\ users[k.user].subject = k.subject

Local ==
    /\ req = [r \in Reqs |-> req[r]]
    /\ \A r \in Reqs : LocalOf(req[r])
    /\ \A r \in Reqs : TokenOf(token[r])

(* What no step undoes: rows stay, users keep their tenant and their        *)
(* account, a role that is there was there before and of the same tenant.   *)
Grow ==
    /\ tenants \subseteq tenants'
    /\ Len(users) <= Len(users') /\ Len(roles) <= Len(roles') /\ Len(past) <= Len(past')
    /\ \A u \in 1..Len(users) :
        /\ users'[u].tenant = users[u].tenant
        /\ users[u].subject # None => users'[u].subject = users[u].subject
    /\ \A i \in 1..Len(roles) :
        roles'[i] # None => roles[i] # None /\ roles'[i].tenant = roles[i].tenant
    /\ \A i \in 1..Len(past) : past'[i] = past[i]

(* A request arrives at a place with what the place asks for.               *)
LEMMA Arrives ==
    ASSUME NEW r, NEW l, NEW o, NEW u, NEW d, NEW n,
           req'[r] = [at |-> l, op |-> o, user |-> u, snap |-> d, mine |-> n],
           u \in 0..Len(users'), n \in 0..Len(past'), Knows(l, o, u, d, n)'
    PROVE  LocalOf(req[r])'
  BY SMTT(30) DEF LocalOf, Knows

(* What a request knows survives every step of the others.                 *)
LEMMA StillKnows ==
    ASSUME Tables, Tables', History, History', Grow, NEW l, NEW o, NEW u, NEW d, NEW n,
           u \in 0..Len(users), n \in 0..Len(past), Knows(l, o, u, d, n)
    PROVE  Knows(l, o, u, d, n)' /\ u \in 0..Len(users') /\ n \in 0..Len(past')
  <1>1. Len(users) \in Nat /\ Len(users') \in Nat /\ Len(roles) \in Nat /\ Len(roles') \in Nat
        /\ Len(past) \in Nat /\ Len(past') \in Nat
    BY SMTT(30) DEF Tables, History
  <1>2. None \notin Subjects
    BY ConstantsAssumption
  <1>3. u \in 0..Len(users') /\ n \in 0..Len(past') /\ tenants \subseteq tenants'
    BY SMTT(30), <1>1 DEF Grow
  <1>4. u > 0 => /\ users'[u].tenant = users[u].tenant
                 /\ users[u].subject # None => users'[u].subject = users[u].subject
    BY SMTT(30), <1>1 DEF Grow
  <1>5. \A i \in 1..Len(roles) :
            /\ i \in 1..Len(roles')
            /\ roles'[i] # None => roles[i] # None /\ roles'[i].tenant = roles[i].tenant
    BY SMTT(30), <1>1 DEF Grow
  <1>6. ASSUME NEW i \in n..Len(past), d = past[i], n > 0 PROVE \E j \in n..Len(past') : d = past'[j]
    BY SMTT(30), <1>1, <1>6 DEF Grow
  <1>7. \A t \in tenants : t \in tenants'
    BY <1>3
  <1>8. Knows(l, o, u, d, n)'
    BY ZenonT(60), <1>2, <1>4, <1>5, <1>6, <1>7 DEF Knows, SigningIn, HasTenant
  <1> QED
    BY <1>3, <1>8

(* So does a request that a step leaves alone.                              *)
LEMMA Stable ==
    ASSUME Tables, Tables', History, History', Grow,
           NEW r \in Reqs, LocalOf(req[r]), req'[r] = req[r]
    PROVE  LocalOf(req[r])'
  <1>1. PICK l, o, u, d, n :
            /\ req[r] = [at |-> l, op |-> o, user |-> u, snap |-> d, mine |-> n]
            /\ l = req[r].at /\ o = req[r].op /\ u = req[r].user /\ d = req[r].snap /\ n = req[r].mine
    BY DEF LocalOf
  <1>2. u \in 0..Len(users) /\ n \in 0..Len(past) /\ Knows(l, o, u, d, n)
    BY <1>1 DEF LocalOf
  <1>3. Knows(l, o, u, d, n)' /\ u \in 0..Len(users') /\ n \in 0..Len(past')
    BY <1>2, StillKnows
  <1> QED
    BY <1>1, <1>3, Arrives

(* A token that a step leaves alone names the user it named.               *)
LEMMA StableToken ==
    ASSUME Tables, Tables', Grow, NEW r \in Reqs, TokenOf(token[r]), token'[r] = token[r]
    PROVE  TokenOf(token[r])'
  <1>1. Len(users) \in Nat /\ Len(users') \in Nat
    BY SMTT(30) DEF Tables
  <1>2. \A u \in 1..Len(users) : u \in 1..Len(users')
    BY SMTT(30), <1>1 DEF Grow
  <1>3. None \notin Subjects
    BY ConstantsAssumption
  <1> QED
    BY <1>2, <1>3 DEF TokenOf, Grow

(* What Append does to a sequence.                                          *)
LEMMA AppendFacts ==
    ASSUME NEW S, NEW s \in Seq(S), NEW e \in S
    PROVE  /\ Append(s, e) \in Seq(S) /\ Len(s) \in Nat /\ Len(Append(s, e)) = Len(s) + 1
           /\ \A i \in 1..Len(s) : Append(s, e)[i] = s[i]
           /\ Append(s, e)[Len(s) + 1] = e
  BY SMTT(30)

(* What EXCEPT does to a sequence.                                         *)
LEMMA ExceptFacts ==
    ASSUME NEW S, NEW s \in Seq(S), NEW i \in 1..Len(s), NEW e \in S
    PROVE  /\ [s EXCEPT ![i] = e] \in Seq(S) /\ Len(s) \in Nat
           /\ Len([s EXCEPT ![i] = e]) = Len(s)
           /\ \A j \in 1..Len(s) : [s EXCEPT ![i] = e][j] = IF j = i THEN e ELSE s[j]
  BY SMTT(30)

(* A write to the roles table is noted, and nothing noted is lost.          *)
LEMMA RolesSet ==
    ASSUME History, roles \in Seq(RoleRow \cup {None}),
           NEW rs \in Seq(RoleRow \cup {None}), NEW as, SetRoles(rs, as), UNCHANGED cache
    PROVE  History' /\ Len(past) <= Len(past') /\ \A i \in 1..Len(past) : past'[i] = past[i]
  <1>1. roles' = rs
    BY DEF SetRoles
  <1>2. CASE rs = roles
    <2>1. UNCHANGED <<past, roles>>
      BY <1>1, <1>2 DEF SetRoles
    <2> QED
      BY SMTT(30), <2>1 DEF History, Defs, Rows
  <1>3. CASE rs # roles
    <2> DEFINE D == {<<d.tenant, d.name, d.perms>> : d \in RoleRow}
    <2>1. Defs(rs) \in SUBSET D
      BY SMTT(30) DEF Defs, Rows
    <2>2. past' = Append(past, Defs(rs))
      BY <1>3 DEF SetRoles
    <2>3. past \in Seq(SUBSET D)
      BY DEF History
    <2> HIDE DEF D
    <2>4. /\ past' \in Seq(SUBSET D) /\ Len(past) \in Nat /\ Len(past') = Len(past) + 1
          /\ \A i \in 1..Len(past) : past'[i] = past[i]
          /\ past'[Len(past) + 1] = Defs(rs)
      BY SMTT(30), <2>1, <2>2, <2>3, AppendFacts
    <2>5. past'[Len(past')] = Defs(roles)'
      BY <1>1, <2>4 DEF Defs, Rows
    <2>6. \E i \in 1..Len(past') : cache' = past'[i]
      BY SMTT(30), <2>4 DEF History
    <2> QED
      BY SMTT(30), <2>4, <2>5, <2>6 DEF History, D
  <1> QED
    BY <1>2, <1>3
-----------------------------------------------------------------------------
(* Every step keeps the tables in order and undoes nothing. *)

Good == Tables' /\ History' /\ Grow

(* A step that changes no table.                                            *)
LEMMA SameTables ==
    ASSUME Tables, History,
           UNCHANGED <<tenants, users, roles, assigned, invites, past>>,
           \E i \in 1..Len(past) : cache' = past[i],
           token' = [r \in Reqs |-> token'[r]], faults' \in 0..MaxFaults
    PROVE  Good
  <1>1. Tables'
    BY DEF Tables
  <1>2. History'
    BY DEF History, Defs, Rows
  <1>3. Grow
    BY SMTT(30) DEF Grow, Tables, History
  <1> QED
    BY <1>1, <1>2, <1>3 DEF Good

(* A new row of users.                                                      *)
LEMMA UserAdded ==
    ASSUME Tables, History,
           NEW t \in tenants, NEW s \in Subjects, NEW a \in Subjects \cup {None},
           users' = Append(users, [tenant |-> t, email |-> EmailOf[s], subject |-> a]),
           UNCHANGED <<tenants, roles, assigned, invites, cache, token, past, faults>>
    PROVE  /\ Good
           /\ Len(users) \in Nat /\ Len(users') = Len(users) + 1
           /\ \A u \in 1..Len(users) : users'[u] = users[u]
           /\ users'[Len(users) + 1] = [tenant |-> t, email |-> EmailOf[s], subject |-> a]
  <1> DEFINE row == [tenant |-> t, email |-> EmailOf[s], subject |-> a]
  <1>1. row \in UserRow /\ row.tenant \in tenants
    BY DEF UserRow, Tables
  <1>2. users' = Append(users, row) /\ users \in Seq(UserRow)
    BY DEF Tables
  <1> HIDE DEF row
  <1>3. /\ users' \in Seq(UserRow) /\ Len(users) \in Nat /\ Len(users') = Len(users) + 1
        /\ \A u \in 1..Len(users) : users'[u] = users[u]
        /\ users'[Len(users) + 1] = row
    BY SMTT(30), <1>1, <1>2, AppendFacts
  <1>4. \A u \in 1..Len(users') : users'[u].tenant \in tenants'
    BY SMTT(30), <1>1, <1>3 DEF Tables
  <1>5. Tables'
    BY SMTT(30), <1>3, <1>4 DEF Tables
  <1>6. History'
    BY DEF History, Defs, Rows
  <1>7. Grow
    BY SMTT(30), <1>3 DEF Grow, Tables, History
  <1> QED
    BY <1>3, <1>5, <1>6, <1>7 DEF Good, row

(* An account is linked to a user who has none.                             *)
LEMMA UserLinked ==
    ASSUME Tables, History, NEW u \in 1..Len(users), NEW s \in Subjects, users[u].subject = None,
           users' = [users EXCEPT ![u].subject = s],
           UNCHANGED <<tenants, roles, assigned, invites, cache, token, past, faults>>
    PROVE  /\ Good
           /\ Len(users') = Len(users) /\ Len(users) \in Nat
           /\ \A v \in 1..Len(users) : v # u => users'[v] = users[v]
           /\ users'[u] = [tenant |-> users[u].tenant, email |-> users[u].email, subject |-> s]
  <1> DEFINE row == [users[u] EXCEPT !.subject = s]
  <1>1. users \in Seq(UserRow) /\ users[u] \in UserRow
    BY SMTT(30) DEF Tables
  <1>2. /\ row \in UserRow
        /\ row = [tenant |-> users[u].tenant, email |-> users[u].email, subject |-> s]
    BY SMTT(30), <1>1 DEF UserRow
  <1>3. users' = [users EXCEPT ![u] = row]
    BY <1>1
  <1> HIDE DEF row
  <1>4. /\ users' \in Seq(UserRow) /\ Len(users) \in Nat /\ Len(users') = Len(users)
        /\ \A v \in 1..Len(users) : users'[v] = IF v = u THEN row ELSE users[v]
    BY SMTT(30), <1>1, <1>2, <1>3, ExceptFacts
  <1>5. \A v \in 1..Len(users) :
            users'[v].tenant = users[v].tenant /\ (v # u => users'[v] = users[v])
    BY SMTT(30), <1>2, <1>4
  <1>6. Tables'
    BY SMTT(30), <1>4, <1>5 DEF Tables
  <1>7. History'
    BY DEF History, Defs, Rows
  <1>8. Grow
    BY SMTT(30), <1>4, <1>5 DEF Grow, Tables, History
  <1> QED
    BY <1>2, <1>4, <1>6, <1>7, <1>8 DEF Good

(* A write of roles and user_roles.                                         *)
LEMMA RolesWritten ==
    ASSUME Tables, History, NEW rs \in Seq(RoleRow \cup {None}),
           NEW as \in SUBSET ((1..Len(users)) \X (1..Len(rs)) \X Scopes),
           SetRoles(rs, as), Len(roles) <= Len(rs),
           \A i \in 1..Len(roles) : rs[i] # None => roles[i] # None /\ rs[i].tenant = roles[i].tenant,
           UNCHANGED <<tenants, users, invites, cache, token, faults>>
    PROVE  Good
  <1>1. roles' = rs /\ assigned' = as
    BY DEF SetRoles
  <1>2. History' /\ Len(past) <= Len(past') /\ \A i \in 1..Len(past) : past'[i] = past[i]
    BY RolesSet DEF Tables
  <1>3. Tables'
    BY <1>1 DEF Tables
  <1>4. Grow
    BY SMTT(30), <1>1, <1>2 DEF Grow, Tables
  <1> QED
    BY <1>2, <1>3, <1>4 DEF Good

(* Requests that only begin, read, answer or fail.                          *)
LEMMA QuietTables ==
    ASSUME Tables, History, Local,
           \/ \E r \in Reqs : \/ Start(r) \/ SelectUser(r) \/ RaceCheck(r) \/ LoadIdentity(r) \/ NoTenant(r)
                             \/ LoadRoles(r) \/ Publish(r) \/ StatementFails(r)
           \/ Restart
    PROVE  Good
  <1>1. \E i \in 1..Len(past) : cache = past[i]
    BY DEF History
  <1>2. faults \in 0..MaxFaults /\ token = [q \in Reqs |-> token[q]]
    BY DEF Tables
  <1>3. ASSUME NEW r \in Reqs, Start(r) PROVE Good
    <2>1. UNCHANGED <<tenants, users, roles, assigned, invites, past, cache, token, faults>>
      BY <1>3 DEF Start, HandleExchange, HandleCallback, SignIn, HandleRedeem, HandleSelfServiceCreate,
                  HandleCreate, HandleUpdate, HandleDelete, HandleAssignRole, Begin
    <2> QED
      BY <1>1, <1>2, <2>1, SameTables
  <1>4. ASSUME NEW r \in Reqs, SelectUser(r) \/ RaceCheck(r) \/ LoadRoles(r) PROVE Good
    BY <1>1, <1>2, <1>4, SameTables DEF SelectUser, RaceCheck, LoadRoles
  <1>5. ASSUME NEW r \in Reqs, LoadIdentity(r) \/ NoTenant(r) PROVE Good
    <2>1. UNCHANGED <<tenants, users, roles, assigned, invites, past, cache, faults>>
      BY <1>5 DEF LoadIdentity, NoTenant
    <2>2. token' = [q \in Reqs |-> token'[q]]
      BY <1>2, <1>5 DEF LoadIdentity, NoTenant, Answer
    <2> QED
      BY <1>1, <1>2, <2>1, <2>2, SameTables
  <1>6. ASSUME NEW r \in Reqs, Publish(r) PROVE Good
    <2>1. \E i \in 1..Len(past) : cache' = past[i]
      <3>1. req[r].at = "publish" /\ cache' = req[r].snap
        BY <1>6 DEF Publish, At
      <3>2. PICK i \in req[r].mine..Len(past) : req[r].snap = past[i]
        BY <3>1 DEF Local, LocalOf, Knows
      <3>3. req[r].mine \in Nat /\ req[r].mine > 0 /\ Len(past) \in Nat
        BY SMTT(30), <3>1 DEF Local, LocalOf, Knows, History
      <3> QED
        BY SMTT(30), <3>1, <3>2, <3>3
    <2> QED
      BY <1>2, <1>6, <2>1, SameTables DEF Publish
  <1>7. CASE (\E r \in Reqs : StatementFails(r)) \/ Restart
    <2>1. faults' \in 0..MaxFaults
      BY SMTT(30), <1>2, <1>7, ConstantsAssumption DEF StatementFails, Restart, Fault
    <2>2. \E i \in 1..Len(past) : cache' = past[i]
      BY SMTT(30), <1>1, <1>7 DEF StatementFails, Restart, History
    <2> QED
      BY <1>2, <1>7, <2>1, <2>2, SameTables DEF StatementFails, Restart
  <1> QED
    BY <1>3, <1>4, <1>5, <1>6, <1>7

(* A write of an invite.                                                    *)
LEMMA InviteWritten ==
    ASSUME Tables, History, NEW i \in Invites, NEW x \in InviteRow, x.used \in 0..Len(users),
           invites' = [invites EXCEPT ![i] = x],
           UNCHANGED <<tenants, users, roles, assigned, cache, token, past, faults>>
    PROVE  Good
  <1>1. invites' \in [Invites -> InviteRow] /\ \A k \in Invites : invites'[k] = IF k = i THEN x ELSE invites[k]
    BY DEF Tables
  <1>2. \A k \in Invites : invites'[k].used \in 0..Len(users)
    BY <1>1 DEF Tables
  <1>3. Tables' /\ History' /\ Grow
    BY SMTT(30), <1>1, <1>2 DEF Tables, History, Grow, Defs, Rows
  <1> QED
    BY <1>3 DEF Good

(* The row of an invite after it is spent, made and closed.                 *)
LEMMA InviteRows ==
    ASSUME Tables, NEW i \in Invites
    PROVE  /\ \A u \in Nat :
                 [invites[i] EXCEPT !.used = u] \in InviteRow /\ [invites[i] EXCEPT !.used = u].used = u
           /\ \A t \in tenants :
                 /\ [invites[i] EXCEPT !.state = "open", !.tenant = t] \in InviteRow
                 /\ [invites[i] EXCEPT !.state = "open", !.tenant = t].used = invites[i].used
           /\ [invites[i] EXCEPT !.state = "closed"] \in InviteRow
           /\ [invites[i] EXCEPT !.state = "closed"].used = invites[i].used
           /\ invites[i].used \in 0..Len(users)
  <1>1. invites[i] \in InviteRow /\ tenants \subseteq Tenants /\ invites[i].used \in 0..Len(users)
    BY DEF Tables
  <1>2. invites[i] = [tenant |-> invites[i].tenant, used |-> invites[i].used, state |-> invites[i].state]
    BY <1>1 DEF InviteRow
  <1> QED
    BY <1>1, <1>2 DEF InviteRow

(* Requests that write tenants, users and invites.                          *)
LEMMA PeopleTables ==
    ASSUME Tables, History, Local,
           \/ \E r \in Reqs : InsertUser(r) \/ Link(r) \/ Redeem(r) \/ Join(r) \/ CreateTeam(r)
           \/ CreateTenant \/ CreateUser \/ CreateInvite \/ CloseInvite
    PROVE  Good
  <1> USE ConstantsAssumption
  <1>0. \E i \in 1..Len(past) : cache = past[i]
    BY DEF History
  <1>1. ASSUME NEW r \in Reqs, InsertUser(r) PROVE Good
    <2>1. req[r].op.subject \in Subjects /\ req[r].op.tenant \in tenants
      BY <1>1 DEF InsertUser, At, Local, LocalOf, Knows, SigningIn, HasTenant
    <2>2. CASE UNCHANGED users
      BY <1>0, <1>1, <2>2, SameTables DEF InsertUser, Tables
    <2>3. CASE users' = Append(users, [tenant |-> req[r].op.tenant, email |-> EmailOf[req[r].op.subject],
                                       subject |-> req[r].op.subject])
      BY <1>1, <2>1, <2>3, UserAdded DEF InsertUser
    <2> QED
      BY <1>1, <2>2, <2>3 DEF InsertUser
  <1>2. ASSUME NEW r \in Reqs, Link(r) PROVE Good
    <2>1. req[r].op.subject \in Subjects
      BY <1>2 DEF Link, At, Local, LocalOf, Knows, SigningIn
    <2>2. CASE UNCHANGED users
      BY <1>0, <1>2, <2>2, SameTables DEF Link, Tables
    <2>3. ASSUME NEW u \in 1..Len(users), users[u].subject = None,
                 users' = [users EXCEPT ![u].subject = req[r].op.subject]
          PROVE  Good
      BY <1>2, <2>1, <2>3, UserLinked DEF Link
    <2>4. DOMAIN users = 1..Len(users)
      BY SMTT(30) DEF Tables
    <2> QED
      BY <1>2, <2>2, <2>3, <2>4 DEF Link, Unlinked, WithEmail
  <1>3. ASSUME NEW r \in Reqs, Redeem(r) PROVE Good
    <2>1. req[r].op.invite \in Invites /\ req[r].user \in 0..Len(users) /\ Len(users) \in Nat
      BY SMTT(30), <1>3 DEF Redeem, At, Local, LocalOf, Knows, Tables
    <2>2. CASE UNCHANGED invites
      BY <1>0, <1>3, <2>2, SameTables DEF Redeem, Tables
    <2>3. CASE invites' = [invites EXCEPT ![req[r].op.invite].used = req[r].user]
      <3> DEFINE i == req[r].op.invite
                 x == [invites[i] EXCEPT !.used = req[r].user]
      <3>1. i \in Invites /\ x \in InviteRow /\ x.used \in 0..Len(users)
        <4>1. i \in Invites /\ req[r].user \in Nat
          BY SMTT(30), <2>1
        <4>2. x \in InviteRow /\ x.used = req[r].user
          BY <4>1, InviteRows
        <4> QED
          BY <2>1, <4>1, <4>2
      <3>2. invites' = [invites EXCEPT ![i] = x]
        BY <2>3
      <3>3. UNCHANGED <<tenants, users, roles, assigned, cache, token, past, faults>>
        BY <1>3 DEF Redeem
      <3> HIDE DEF i, x
      <3> QED
        BY <3>1, <3>2, <3>3, InviteWritten
    <2> QED
      BY <1>3, <2>2, <2>3 DEF Redeem
  <1>4. ASSUME NEW r \in Reqs, Join(r) PROVE Good
    <2>1. req[r].user \in 1..Len(users)
      BY SMTT(30), <1>4 DEF Join, At, Local, LocalOf, Knows, Tables
    <2>2. users[req[r].user].tenant # None
      BY <2>1 DEF Tables
    <2> QED
      BY <1>0, <1>4, <2>2, SameTables DEF Join, Tables
  <1>5. ASSUME \/ \E r \in Reqs : CreateTeam(r)
               \/ CreateTenant
        PROVE  Good
    <2>1. UNCHANGED <<users, roles, assigned, invites, cache, token, past, faults>>
      BY <1>5 DEF CreateTeam, CreateTenant
    <2>2. tenants \subseteq tenants' /\ tenants' \subseteq tenants \cup Others
      BY <1>5 DEF CreateTeam, CreateTenant
    <2>3. Tables'
      BY <2>1, <2>2 DEF Tables, Tenants
    <2>4. History' /\ Grow
      BY SMTT(30), <2>1, <2>2 DEF Tables, History, Grow, Defs, Rows
    <2> QED
      BY <2>3, <2>4 DEF Good
  <1>6. CASE CreateUser
    BY <1>6, UserAdded DEF CreateUser
  <1>7. CASE CreateInvite
    <2>1. PICK i \in Invites, t \in tenants :
              invites' = [invites EXCEPT ![i].state = "open", ![i].tenant = t]
      BY <1>7 DEF CreateInvite
    <2> DEFINE x == [invites[i] EXCEPT !.state = "open", !.tenant = t]
    <2>2. x \in InviteRow /\ x.used \in 0..Len(users)
      BY InviteRows
    <2>3. invites' = [invites EXCEPT ![i] = x]
      BY <2>1 DEF Tables
    <2>4. UNCHANGED <<tenants, users, roles, assigned, cache, token, past, faults>>
      BY <1>7 DEF CreateInvite
    <2> HIDE DEF x
    <2> QED
      BY <2>2, <2>3, <2>4, InviteWritten
  <1>8. CASE CloseInvite
    <2>1. PICK i \in Invites : invites' = [invites EXCEPT ![i].state = "closed"]
      BY <1>8 DEF CloseInvite
    <2> DEFINE x == [invites[i] EXCEPT !.state = "closed"]
    <2>2. x \in InviteRow /\ x.used \in 0..Len(users)
      BY InviteRows
    <2>3. invites' = [invites EXCEPT ![i] = x]
      BY <2>1
    <2>4. UNCHANGED <<tenants, users, roles, assigned, cache, token, past, faults>>
      BY <1>8 DEF CloseInvite
    <2> HIDE DEF x
    <2> QED
      BY <2>2, <2>3, <2>4, InviteWritten
  <1> QED
    BY <1>1, <1>2, <1>3, <1>4, <1>5, <1>6, <1>7, <1>8

(* Requests that write roles and their assignments.                         *)
LEMMA RoleTables ==
    ASSUME Tables, History, Local,
           \/ \E r \in Reqs : AssignRole(r) \/ SeedDefaultRoles(r) \/ Mutate(r) \/ AssignToUser(r)
           \/ RemoveFromUser
    PROVE  Good
  <1> USE ConstantsAssumption
  <1>0. /\ \E i \in 1..Len(past) : cache = past[i]
        /\ roles \in Seq(RoleRow \cup {None}) /\ Len(roles) \in Nat /\ Len(users) \in Nat
        /\ assigned \subseteq (1..Len(users)) \X (1..Len(roles)) \X Scopes
    BY SMTT(30) DEF History, Tables
  <1>1. ASSUME NEW r \in Reqs, AssignRole(r) PROVE Good
    <2>1. PICK is \in SUBSET (1..Len(roles)) :
              SetRoles(roles, assigned \cup {<<req[r].user, i, "org">> : i \in is})
      BY <1>1 DEF AssignRole, Rows
    <2>2. req[r].user \in 1..Len(users)
      BY SMTT(30), <1>0, <1>1 DEF AssignRole, At, Local, LocalOf, Knows
    <2>3. assigned \cup {<<req[r].user, i, "org">> : i \in is}
              \in SUBSET ((1..Len(users)) \X (1..Len(roles)) \X Scopes)
      BY SMTT(30), <1>0, <2>1, <2>2
    <2> QED
      BY SMTT(30), <1>0, <1>1, <2>1, <2>3, RolesWritten DEF AssignRole
  <1>2. ASSUME NEW r \in Reqs, SeedDefaultRoles(r) PROVE Good
    <2>1. req[r].op.tenant \in Tenants
      BY <1>2 DEF SeedDefaultRoles, At, Local, LocalOf, Knows, Tables
    <2> DEFINE ds == DefaultRoles(req[r].op.tenant)
               ra == Seeded(roles, ds[1])
               rb == Seeded(ra, ds[2])
    <2>2. ds[1] \in RoleRow /\ ds[2] \in RoleRow
      BY <2>1 DEF DefaultRoles, Role, RoleRow
    <2>3. SetRoles(rb, assigned) /\ UNCHANGED <<tenants, users, invites, cache, token, faults>>
      BY <1>2 DEF SeedDefaultRoles
    <2>4. /\ ra \in Seq(RoleRow \cup {None}) /\ Len(ra) \in Nat /\ Len(roles) <= Len(ra)
          /\ \A i \in 1..Len(roles) : ra[i] = roles[i]
      <3> HIDE DEF ds
      <3> QED
        BY SMTT(30), <1>0, <2>2, AppendFacts DEF Seeded
    <2> HIDE DEF ra, ds
    <2>5. /\ rb \in Seq(RoleRow \cup {None}) /\ Len(rb) \in Nat /\ Len(ra) <= Len(rb)
          /\ \A i \in 1..Len(ra) : rb[i] = ra[i]
      BY SMTT(30), <2>2, <2>4, AppendFacts DEF Seeded
    <2> HIDE DEF rb
    <2>6. Len(roles) <= Len(rb) /\ \A i \in 1..Len(roles) : rb[i] = roles[i]
      BY SMTT(30), <1>0, <2>4, <2>5
    <2>7. assigned \in SUBSET ((1..Len(users)) \X (1..Len(rb)) \X Scopes)
      BY SMTT(30), <1>0, <2>5, <2>6
    <2> QED
      BY <2>3, <2>5, <2>6, <2>7, RolesWritten
  <1>3. ASSUME NEW r \in Reqs, Mutate(r) PROVE Good
    <2> DEFINE o == req[r].op
    <2>0. /\ UNCHANGED <<tenants, users, invites, cache, token, faults>>
          /\ req[r].at = "mutate"
      BY <1>3 DEF Mutate, At
    <2>1. CASE o.kind = "create" /\ Create(r, o)
      <3> DEFINE row == Role(o.tenant, o.name, o.perms, FALSE)
      <3>1. row \in RoleRow
        BY <2>0, <2>1 DEF Local, LocalOf, Knows, Tables, Role, RoleRow
      <3>2. CASE Refuse(r)
        BY <1>0, <2>0, <3>2, SameTables DEF Refuse, Tables
      <3>3. CASE SetRoles(Append(roles, row), assigned)
        <4> DEFINE rs == Append(roles, row)
        <4> HIDE DEF row
        <4>1. /\ rs \in Seq(RoleRow \cup {None}) /\ Len(rs) = Len(roles) + 1
              /\ \A i \in 1..Len(roles) : rs[i] = roles[i]
          BY SMTT(30), <1>0, <3>1, AppendFacts
        <4>2. SetRoles(rs, assigned)
          BY <3>3
        <4> HIDE DEF rs
        <4>3. assigned \in SUBSET ((1..Len(users)) \X (1..Len(rs)) \X Scopes) /\ Len(roles) <= Len(rs)
          BY SMTT(30), <1>0, <4>1
        <4> QED
          BY <2>0, <4>1, <4>2, <4>3, RolesWritten
      <3> QED
        BY <2>1, <3>2, <3>3 DEF Create, Mutated
    <2>2. CASE o.kind = "update" /\ Update(r, o)
      <3>1. CASE Refuse(r)
        BY <1>0, <2>0, <3>1, SameTables DEF Refuse, Tables
      <3>2. CASE /\ o.role \in Rows(roles)
                 /\ SetRoles([roles EXCEPT ![o.role].name = o.name, ![o.role].perms = o.perms], assigned)
        <4> DEFINE row == [roles[o.role] EXCEPT !.name = o.name, !.perms = o.perms]
                   rs == [roles EXCEPT ![o.role] = row]
        <4>1. o.role \in 1..Len(roles) /\ roles[o.role] \in RoleRow
          BY SMTT(30), <1>0, <3>2 DEF Rows
        <4>2. roles[o.role] = [tenant |-> roles[o.role].tenant, name |-> roles[o.role].name,
                               perms |-> roles[o.role].perms, system |-> roles[o.role].system]
          BY <4>1 DEF RoleRow
        <4>3. o.name \in Names /\ o.perms \in PermSets
          BY <2>0, <2>2 DEF Local, LocalOf, Knows
        <4>4. row \in RoleRow /\ row.tenant = roles[o.role].tenant
          BY <4>1, <4>2, <4>3 DEF RoleRow
        <4>5. SetRoles(rs, assigned)
          BY <1>0, <3>2, <4>1
        <4> HIDE DEF row
        <4>6. /\ rs \in Seq(RoleRow \cup {None}) /\ Len(rs) = Len(roles)
              /\ \A i \in 1..Len(roles) : rs[i] = IF i = o.role THEN row ELSE roles[i]
          BY SMTT(30), <1>0, <4>1, <4>4, ExceptFacts
        <4> HIDE DEF rs
        <4>7. \A i \in 1..Len(roles) : rs[i] # None => roles[i] # None /\ rs[i].tenant = roles[i].tenant
          BY <3>2, <4>4, <4>6 DEF Rows
        <4> QED
          BY SMTT(30), <1>0, <2>0, <4>5, <4>6, <4>7, RolesWritten
      <3> QED
        BY <2>2, <3>1, <3>2 DEF Update, Mutated
    <2>3. CASE o.kind = "delete" /\ Delete(r, o.role)
      <3>1. CASE Refuse(r)
        BY <1>0, <2>0, <3>1, SameTables DEF Refuse, Tables
      <3>2. CASE /\ o.role \in Rows(roles)
                 /\ SetRoles([roles EXCEPT ![o.role] = None], {a \in assigned : a[2] # o.role})
        <4> DEFINE rs == [roles EXCEPT ![o.role] = None]
                   as == {a \in assigned : a[2] # o.role}
        <4>1. o.role \in 1..Len(roles)
          BY <3>2 DEF Rows
        <4>2. SetRoles(rs, as)
          BY <3>2
        <4>3. /\ rs \in Seq(RoleRow \cup {None}) /\ Len(rs) = Len(roles)
              /\ \A i \in 1..Len(roles) : rs[i] = IF i = o.role THEN None ELSE roles[i]
          BY SMTT(30), <1>0, <4>1, ExceptFacts
        <4> HIDE DEF rs
        <4>4. as \in SUBSET ((1..Len(users)) \X (1..Len(rs)) \X Scopes)
          <5>1. as \subseteq assigned
            OBVIOUS
          <5> HIDE DEF as
          <5> QED
            BY <1>0, <4>3, <5>1
        <4> HIDE DEF as
        <4> QED
          <5>1. \A i \in 1..Len(roles) : rs[i] # None => roles[i] # None /\ rs[i].tenant = roles[i].tenant
            BY <4>3
          <5>2. Len(roles) <= Len(rs)
            BY SMTT(30), <1>0, <4>3
          <5> QED
            BY <2>0, <4>2, <4>3, <4>4, <5>1, <5>2, RolesWritten
      <3> QED
        BY <2>3, <3>1, <3>2 DEF Delete, Mutated
    <2> QED
      BY <1>3, <2>1, <2>2, <2>3 DEF Mutate
  <1>4. ASSUME NEW r \in Reqs, AssignToUser(r) PROVE Good
    <2>0. /\ UNCHANGED <<tenants, users, invites, cache, token, faults>>
          /\ req[r].user \in 1..Len(users) /\ req[r].op.role \in 1..Len(roles) /\ req[r].op.scope \in Scopes
      BY SMTT(30), <1>0, <1>4 DEF AssignToUser, At, Local, LocalOf, Knows
    <2>1. CASE UNCHANGED <<roles, assigned, past>>
      BY <1>0, <2>0, <2>1, SameTables DEF Tables
    <2>2. CASE SetRoles(roles, assigned \cup {<<req[r].user, req[r].op.role, req[r].op.scope>>})
      <3>1. assigned \cup {<<req[r].user, req[r].op.role, req[r].op.scope>>}
                \in SUBSET ((1..Len(users)) \X (1..Len(roles)) \X Scopes)
        BY SMTT(30), <1>0, <2>0
      <3> QED
        BY SMTT(30), <1>0, <2>0, <2>2, <3>1, RolesWritten
    <2> QED
      BY <1>4, <2>1, <2>2 DEF AssignToUser
  <1>5. CASE RemoveFromUser
    <2>1. assigned' \subseteq assigned
          /\ UNCHANGED <<tenants, users, roles, invites, cache, token, past, faults>>
      BY <1>5 DEF RemoveFromUser
    <2>2. Tables' /\ History' /\ Grow
      BY SMTT(30), <2>1 DEF Tables, History, Grow, Defs, Rows
    <2> QED
      BY <2>2 DEF Good
  <1> QED
    BY <1>1, <1>2, <1>3, <1>4, <1>5

(* Every step keeps the tables in order and undoes nothing.                 *)
LEMMA StepTables ==
    ASSUME Tables, History, Local, [Next]_vars
    PROVE  Good
  <1>1. CASE UNCHANGED vars
    BY SMTT(30), <1>1 DEF vars, Good, Tables, History, Grow, Defs, Rows
  <1>2. CASE Next
    <2>1. CASE \/ \E r \in Reqs : Start(r) \/ StatementFails(r)
               \/ Restart
      BY <2>1, QuietTables
    <2>2. CASE \E r \in Reqs : Step(r)
      BY <2>2, QuietTables, PeopleTables, RoleTables DEF Step
    <2>3. CASE RemoveFromUser \/ CreateTenant \/ CreateUser \/ CreateInvite \/ CloseInvite
      BY <2>3, PeopleTables, RoleTables
    <2> QED
      BY <1>2, <2>1, <2>2, <2>3 DEF Next
  <1> QED
    BY <1>1, <1>2
-----------------------------------------------------------------------------
(* Every step keeps what a request knows. *)

(* What the four ways of moving a request do to it.                         *)
LEMMA Moves ==
    ASSUME req = [q \in Reqs |-> req[q]], NEW r \in Reqs, LocalOf(req[r])
    PROVE  /\ \A l : Goto(r, l) =>
                /\ req' = [q \in Reqs |-> req'[q]]
                /\ \A q \in Reqs \ {r} : req'[q] = req[q]
                /\ req'[r] = [at |-> l, op |-> req[r].op, user |-> req[r].user,
                              snap |-> req[r].snap, mine |-> req[r].mine]
           /\ \A l, u : req' = [req EXCEPT ![r].at = l, ![r].user = u] =>
                /\ req' = [q \in Reqs |-> req'[q]]
                /\ \A q \in Reqs \ {r} : req'[q] = req[q]
                /\ req'[r] = [at |-> l, op |-> req[r].op, user |-> u,
                              snap |-> req[r].snap, mine |-> req[r].mine]
           /\ \A l, n : req' = [req EXCEPT ![r].at = l, ![r].mine = n] =>
                /\ req' = [q \in Reqs |-> req'[q]]
                /\ \A q \in Reqs \ {r} : req'[q] = req[q]
                /\ req'[r] = [at |-> l, op |-> req[r].op, user |-> req[r].user,
                              snap |-> req[r].snap, mine |-> n]
           /\ \A l, d : req' = [req EXCEPT ![r].at = l, ![r].snap = d] =>
                /\ req' = [q \in Reqs |-> req'[q]]
                /\ \A q \in Reqs \ {r} : req'[q] = req[q]
                /\ req'[r] = [at |-> l, op |-> req[r].op, user |-> req[r].user,
                              snap |-> d, mine |-> req[r].mine]
           /\ \A l, p : req' = [req EXCEPT ![r].at = l, ![r].op = p] =>
                /\ req' = [q \in Reqs |-> req'[q]]
                /\ \A q \in Reqs \ {r} : req'[q] = req[q]
                /\ req'[r] = [at |-> l, op |-> p, user |-> req[r].user,
                              snap |-> req[r].snap, mine |-> req[r].mine]
           /\ \A x : req' = [req EXCEPT ![r] = x] =>
                /\ req' = [q \in Reqs |-> req'[q]]
                /\ \A q \in Reqs \ {r} : req'[q] = req[q]
                /\ req'[r] = x
  <1>1. req[r] = [at |-> req[r].at, op |-> req[r].op, user |-> req[r].user,
                  snap |-> req[r].snap, mine |-> req[r].mine]
    BY DEF LocalOf
  <1> QED
    BY <1>1 DEF Goto

(* A step that moves one request has only that request to look after.       *)
LEMMA OneMoves ==
    ASSUME Tables, History, Tables', History', Grow, Local, NEW r \in Reqs,
           req' = [q \in Reqs |-> req'[q]], \A q \in Reqs \ {r} : req'[q] = req[q],
           LocalOf(req[r])', \A q \in Reqs : token'[q] = token[q] \/ TokenOf(token[q])'
    PROVE  Local'
  <1>1. \A q \in Reqs : LocalOf(req[q])'
    <2> SUFFICES ASSUME NEW q \in Reqs, q # r PROVE LocalOf(req[q])'
      OBVIOUS
    <2> QED
      BY Stable DEF Local
  <1>2. \A q \in Reqs : TokenOf(token[q])'
    BY StableToken DEF Local
  <1> QED
    BY <1>1, <1>2 DEF Local

(* The variables of a request and what it knows.                            *)
LEMMA Here ==
    ASSUME Local, NEW r \in Reqs
    PROVE  \E l, o, u, d, n :
             /\ req[r] = [at |-> l, op |-> o, user |-> u, snap |-> d, mine |-> n]
             /\ l = req[r].at /\ o = req[r].op /\ u = req[r].user /\ d = req[r].snap /\ n = req[r].mine
             /\ u \in 0..Len(users) /\ n \in 0..Len(past) /\ Knows(l, o, u, d, n)
  <1>1. LocalOf(req[r])
    BY DEF Local
  <1>2. PICK l, o, u, d, n :
            /\ req[r] = [at |-> l, op |-> o, user |-> u, snap |-> d, mine |-> n]
            /\ l = req[r].at /\ o = req[r].op /\ u = req[r].user /\ d = req[r].snap /\ n = req[r].mine
    BY <1>1 DEF LocalOf
  <1>3. u \in 0..Len(users) /\ n \in 0..Len(past) /\ Knows(l, o, u, d, n)
    BY <1>1, <1>2 DEF LocalOf
  <1> QED
    BY <1>2, <1>3

(* A request that is answered, or not yet made, has nothing to know.        *)
LEMMA OverLocal ==
    ASSUME Tables', History', NEW r, req'[r] = Over \/ req'[r] = Idle
    PROVE  LocalOf(req[r])'
  BY SMTT(30) DEF LocalOf, Knows, Over, Idle, Request, Tables, History, SigningIn, HasTenant

(* Beginning a request.                                                     *)
LEMMA StartLocal ==
    ASSUME Tables, History, Tables', History', Grow, Local, NEW r \in Reqs, Start(r)
    PROVE  Local'
  <1>0. /\ DOMAIN users = 1..Len(users) /\ Len(users) \in Nat /\ Len(roles) \in Nat
        /\ Len(past) \in Nat /\ None \notin tenants
    BY SMTT(30), ConstantsAssumption DEF Tables, History
  <1>1. ASSUME NEW l, NEW o, NEW u, Begin(r, l, o, u)
        PROVE  /\ req' = [q \in Reqs |-> req'[q]] /\ \A q \in Reqs \ {r} : req'[q] = req[q]
               /\ req'[r] = [at |-> l, op |-> o, user |-> u, snap |-> {}, mine |-> 0]
               /\ UNCHANGED <<tenants, users, roles, past, token>>
    BY <1>1 DEF Begin, Local, Request
  <1>2. ASSUME NEW l, NEW o, NEW u \in 0..Len(users), Begin(r, l, o, u), Knows(l, o, u, {}, 0)
        PROVE  Local'
    <2>1. Knows(l, o, u, {}, 0)' /\ u \in 0..Len(users') /\ 0 \in 0..Len(past')
      BY SMTT(30), <1>0, <1>2, StillKnows
    <2>2. LocalOf(req[r])'
      BY <1>1, <1>2, <2>1, Arrives
    <2> QED
      BY <1>1, <1>2, <2>2, OneMoves
  <1>3. ASSUME NEW k \in {"exchange", "callback"}, SignIn(r, k) PROVE Local'
    <2>1. PICK s \in Subjects, t \in tenants \cup {None} :
              Begin(r, IF t = None THEN "admin" ELSE "insert",
                    [kind |-> k, subject |-> s, tenant |-> t], 0)
      BY <1>3 DEF SignIn
    <2>2. Knows(IF t = None THEN "admin" ELSE "insert",
                [kind |-> k, subject |-> s, tenant |-> t], 0, {}, 0)
      BY <1>0, <1>3 DEF Knows, SigningIn, HasTenant
    <2> QED
      BY SMTT(30), <1>0, <1>2, <2>1, <2>2
  <1>4. CASE HandleRedeem(r)
    <2>1. PICK u \in 1..Len(users), i \in Invites : Begin(r, "redeem", [kind |-> "redeem", invite |-> i], u)
      BY <1>0, <1>4 DEF HandleRedeem
    <2>2. Knows("redeem", [kind |-> "redeem", invite |-> i], u, {}, 0)
      BY SMTT(30) DEF Knows, SigningIn, HasTenant
    <2> QED
      BY SMTT(30), <1>0, <1>2, <2>1, <2>2
  <1>5. CASE HandleSelfServiceCreate(r)
    <2>1. PICK u \in 1..Len(users) : Begin(r, "tenant", [kind |-> "onboard", tenant |-> None], u)
      BY <1>5 DEF HandleSelfServiceCreate, Local, TokenOf
    <2>2. Knows("tenant", [kind |-> "onboard", tenant |-> None], u, {}, 0)
      BY SMTT(30) DEF Knows, SigningIn, HasTenant
    <2> QED
      BY SMTT(30), <1>0, <1>2, <2>1, <2>2
  <1>6. CASE HandleCreate(r)
    <2>1. PICK t \in tenants, n \in Names, ps \in PermSets :
              /\ Grantable(ps)
              /\ Begin(r, "mutate", [kind |-> "create", tenant |-> t, name |-> n, perms |-> ps], 0)
      BY <1>6 DEF HandleCreate
    <2>2. Knows("mutate", [kind |-> "create", tenant |-> t, name |-> n, perms |-> ps], 0, {}, 0)
      BY <2>1 DEF Knows, SigningIn, HasTenant
    <2> QED
      BY SMTT(30), <1>0, <1>2, <2>1, <2>2
  <1>7. CASE HandleUpdate(r)
    <2>1. PICK i \in 1..Len(roles), n \in Names, ps \in PermSets :
              /\ Grantable(ps)
              /\ Begin(r, "mutate", [kind |-> "update", role |-> i, name |-> n, perms |-> ps], 0)
      BY <1>7 DEF HandleUpdate, Rows
    <2>2. Knows("mutate", [kind |-> "update", role |-> i, name |-> n, perms |-> ps], 0, {}, 0)
      BY <2>1 DEF Knows, SigningIn, HasTenant
    <2> QED
      BY SMTT(30), <1>0, <1>2, <2>1, <2>2
  <1>8. CASE HandleDelete(r)
    <2>1. PICK i \in 1..Len(roles) : Begin(r, "mutate", [kind |-> "delete", role |-> i], 0)
      BY <1>8 DEF HandleDelete, Rows
    <2>2. Knows("mutate", [kind |-> "delete", role |-> i], 0, {}, 0)
      BY DEF Knows, SigningIn, HasTenant
    <2> QED
      BY SMTT(30), <1>0, <1>2, <2>1, <2>2
  <1>9. CASE HandleAssignRole(r)
    <2>1. PICK u \in 1..Len(users), i \in 1..Len(roles), s \in Scopes :
              /\ users[u].tenant = roles[i].tenant
              /\ Begin(r, "assign", [kind |-> "assign", role |-> i, scope |-> s], u)
      BY <1>0, <1>9 DEF HandleAssignRole, Rows
    <2>2. Knows("assign", [kind |-> "assign", role |-> i, scope |-> s], u, {}, 0)
      BY SMTT(30), <2>1 DEF Knows, SigningIn, HasTenant
    <2> QED
      BY SMTT(30), <1>0, <1>2, <2>1, <2>2
  <1> QED
    BY <1>3, <1>4, <1>5, <1>6, <1>7, <1>8, <1>9 DEF Start, HandleExchange, HandleCallback

(* Going on to the next statement, with the same variables.                 *)
LEMMA GoesTo ==
    ASSUME Tables, History, Tables', History', Grow, Local, NEW r \in Reqs, NEW m,
           Goto(r, m), UNCHANGED token,
           Knows(m, req[r].op, req[r].user, req[r].snap, req[r].mine)
    PROVE  Local'
  <1>1. PICK l, o, u, d, n :
            /\ req[r] = [at |-> l, op |-> o, user |-> u, snap |-> d, mine |-> n]
            /\ l = req[r].at /\ o = req[r].op /\ u = req[r].user /\ d = req[r].snap /\ n = req[r].mine
            /\ u \in 0..Len(users) /\ n \in 0..Len(past) /\ Knows(l, o, u, d, n)
    BY Here
  <1>2. Knows(m, o, u, d, n)
    BY <1>1
  <1>3. Knows(m, o, u, d, n)' /\ u \in 0..Len(users') /\ n \in 0..Len(past')
    BY <1>1, <1>2, StillKnows
  <1>4. /\ req' = [q \in Reqs |-> req'[q]]
        /\ \A q \in Reqs \ {r} : req'[q] = req[q]
        /\ req'[r] = [at |-> m, op |-> o, user |-> u, snap |-> d, mine |-> n]
    <2>1. req = [q \in Reqs |-> req[q]] /\ LocalOf(req[r])
      BY DEF Local
    <2> QED
      BY <1>1, <2>1, Moves
  <1>5. LocalOf(req[r])'
    BY <1>3, <1>4, Arrives
  <1> QED
    BY <1>4, <1>5, OneMoves

(* The user of a login is found.                                            *)
LEMMA FoundLocal ==
    ASSUME Tables, History, Tables', History', Grow, Local, NEW r \in Reqs,
           req[r].op.kind \in {"exchange", "callback"}, req[r].op.subject \in Subjects,
           NEW v \in 1..Len(users'), users'[v].subject = req[r].op.subject,
           Found(r, v), UNCHANGED token
    PROVE  Local'
  <1>1. PICK l, o, u, d, n :
            /\ req[r] = [at |-> l, op |-> o, user |-> u, snap |-> d, mine |-> n]
            /\ l = req[r].at /\ o = req[r].op /\ u = req[r].user /\ d = req[r].snap /\ n = req[r].mine
            /\ u \in 0..Len(users) /\ n \in 0..Len(past) /\ Knows(l, o, u, d, n)
    BY Here
  <1>2. v \in 0..Len(users') /\ v > 0
    BY SMTT(30) DEF Tables
  <1>3. n \in 0..Len(past')
    BY SMTT(30), <1>1 DEF Grow, History
  <1>4. Knows("load", o, v, d, n)'
    BY <1>1, <1>2 DEF Knows, SigningIn, HasTenant
  <1>5. /\ req' = [q \in Reqs |-> req'[q]]
        /\ \A q \in Reqs \ {r} : req'[q] = req[q]
        /\ req'[r] = [at |-> "load", op |-> o, user |-> v, snap |-> d, mine |-> n]
    BY <1>1, Moves DEF Local, Found
  <1>6. LocalOf(req[r])'
    BY <1>2, <1>3, <1>4, <1>5, Arrives
  <1> QED
    BY <1>5, <1>6, OneMoves

(* A request is answered.                                                   *)
LEMMA EndLocal ==
    ASSUME Tables, History, Tables', History', Grow, Local, NEW r \in Reqs, End(r),
           \A q \in Reqs : token'[q] = token[q] \/ TokenOf(token[q])'
    PROVE  Local'
  <1>1. /\ req' = [q \in Reqs |-> req'[q]]
        /\ \A q \in Reqs \ {r} : req'[q] = req[q]
        /\ req'[r] = Over
    BY DEF End, Local
  <1>2. LocalOf(req[r])'
    BY <1>1, OverLocal
  <1> QED
    BY <1>1, <1>2, OneMoves

(* A login is answered with a token.                                        *)
LEMMA AnswerLocal ==
    ASSUME Tables, History, Tables', History', Grow, Local, NEW r \in Reqs,
           NEW u \in 1..Len(users), NEW t, Answer(r, u, t), UNCHANGED users,
           req[r].op.kind \in {"exchange", "callback"}, req[r].op.subject \in Subjects,
           users[u].subject = req[r].op.subject
    PROVE  Local'
  <1>1. SubjectOf(r) = req[r].op.subject
    BY DEF SubjectOf
  <1>2. /\ \A q \in Reqs \ {r} : token'[q] = token[q]
        /\ token'[r].user = u /\ token'[r].subject = req[r].op.subject
    BY <1>1 DEF Answer, Tables
  <1>3. TokenOf(token[r])'
    BY <1>2 DEF TokenOf
  <1> QED
    BY <1>2, <1>3, EndLocal DEF Answer

(* The statements of a login.                                               *)
LEMMA LoginLocal ==
    ASSUME Tables, History, Tables', History', Grow, Local, NEW r \in Reqs,
           InsertUser(r) \/ SelectUser(r) \/ RaceCheck(r) \/ Link(r) \/ NoTenant(r) \/ LoadIdentity(r)
    PROVE  Local'
  <1>1. PICK l, o, u, d, n :
            /\ req[r] = [at |-> l, op |-> o, user |-> u, snap |-> d, mine |-> n]
            /\ l = req[r].at /\ o = req[r].op /\ u = req[r].user /\ d = req[r].snap /\ n = req[r].mine
            /\ u \in 0..Len(users) /\ n \in 0..Len(past) /\ Knows(l, o, u, d, n)
    BY Here
  <1>2. l \in SigningIn
    BY <1>1 DEF InsertUser, SelectUser, RaceCheck, Link, NoTenant, LoadIdentity, At, SigningIn
  <1>3. o.kind \in {"exchange", "callback"} /\ o.subject \in Subjects /\ None \notin Subjects
    BY <1>1, <1>2, ConstantsAssumption DEF Knows
  <1>4. /\ DOMAIN users = 1..Len(users) /\ DOMAIN users' = 1..Len(users')
        /\ Len(users) \in Nat /\ Len(users') \in Nat /\ Len(past) \in Nat /\ Len(past') \in Nat
    BY SMTT(30) DEF Tables, History
  <1>5. CASE InsertUser(r)
    <2>1. l = "insert" /\ o.tenant \in tenants /\ UNCHANGED <<tenants, token>>
      BY <1>1, <1>5 DEF InsertUser, At, Knows, HasTenant
    <2>2. Knows("select", o, u, d, n) /\ Knows("race", o, u, d, n)
      BY <1>3, <2>1 DEF Knows, SigningIn, HasTenant
    <2>3. CASE Goto(r, "select") \/ Goto(r, "race")
      BY <1>1, <2>1, <2>2, <2>3, GoesTo
    <2>4. CASE /\ users' = Append(users, [tenant |-> o.tenant, email |-> EmailOf[o.subject],
                                          subject |-> o.subject])
               /\ req' = [req EXCEPT ![r].at = IF o.kind = "exchange" THEN "role" ELSE "load",
                                     ![r].user = Len(users')]
      <3> DEFINE m == IF o.kind = "exchange" THEN "role" ELSE "load"
                 v == Len(users')
      <3>1. /\ req' = [q \in Reqs |-> req'[q]]
            /\ \A q \in Reqs \ {r} : req'[q] = req[q]
            /\ req'[r] = [at |-> m, op |-> o, user |-> v, snap |-> d, mine |-> n]
        BY <1>1, <2>4, Moves DEF Local
      <3>2. v > 0 /\ v \in 0..Len(users') /\ n \in 0..Len(past')
        <4>1. Len(users') = Len(users) + 1
          BY SMTT(30), <2>4 DEF Tables
        <4>2. UNCHANGED past
          BY <1>5 DEF InsertUser
        <4> QED
          BY SMTT(30), <1>1, <1>4, <4>1, <4>2
      <3>3. users'[v].subject = o.subject /\ users'[v].tenant = o.tenant
        BY SMTT(30), <1>4, <2>4
      <3>4. o.tenant \in tenants'
        BY <2>1
      <3>5. PICK w : w = v
        OBVIOUS
      <3> HIDE DEF v
      <3>6. Knows(m, o, w, d, n)'
        BY <1>3, <3>2, <3>3, <3>4, <3>5 DEF Knows, SigningIn, HasTenant
      <3>7. LocalOf(req[r])'
        BY <3>1, <3>2, <3>5, <3>6, Arrives
      <3> QED
        BY <2>1, <3>1, <3>7, OneMoves
    <2> QED
      BY <1>1, <1>5, <2>3, <2>4 DEF InsertUser
  <1>6. CASE SelectUser(r) \/ RaceCheck(r)
    <2>1. UNCHANGED <<users, token>> /\ l \in {"select", "race"}
      BY <1>1, <1>6 DEF SelectUser, RaceCheck, At
    <2>2. CASE \E v \in WithSubject(o.subject) : Found(r, v)
      <3>1. PICK v \in 1..Len(users) : users[v].subject = o.subject /\ Found(r, v)
        BY <1>4, <2>2 DEF WithSubject
      <3> QED
        BY <1>1, <1>3, <2>1, <3>1, FoundLocal
    <2>3. CASE l = "race" /\ Goto(r, "link")
      <3>1. Knows("link", o, u, d, n)
        BY <1>1, <1>3, <2>3 DEF Knows, SigningIn, HasTenant
      <3> QED
        BY <1>1, <2>1, <2>3, <3>1, GoesTo
    <2> QED
      BY <1>1, <1>6, <2>2, <2>3 DEF SelectUser, RaceCheck, At
  <1>7. CASE Link(r)
    <2>1. UNCHANGED token
      BY <1>7 DEF Link
    <2>2. CASE End(r)
      BY <2>1, <2>2, EndLocal
    <2>3. CASE \E v \in Unlinked(o.tenant, EmailOf[o.subject]) :
                 /\ users' = [users EXCEPT ![v].subject = o.subject]
                 /\ Found(r, v)
      <3>1. PICK v \in 1..Len(users) : users' = [users EXCEPT ![v].subject = o.subject] /\ Found(r, v)
        BY <1>4, <2>3 DEF Unlinked, WithEmail
      <3>2. users[v] \in UserRow
        BY SMTT(30), <3>1 DEF Tables
      <3>3. v \in 1..Len(users') /\ users'[v].subject = o.subject
        BY <1>4, <3>1, <3>2 DEF UserRow, Tables
      <3> QED
        BY <1>1, <1>3, <2>1, <3>1, <3>3, FoundLocal
    <2> QED
      BY <1>1, <1>7, <2>2, <2>3 DEF Link
  <1>8. CASE NoTenant(r)
    <2>1. CASE End(r) /\ UNCHANGED token
      BY <2>1, EndLocal
    <2>2. CASE o.subject = AdminSub /\ \E v \in WithSubject(AdminSub) : Answer(r, v, None)
      <3>1. PICK v \in 1..Len(users) : users[v].subject = o.subject /\ Answer(r, v, None)
        BY <1>4, <2>2 DEF WithSubject
      <3> QED
        BY <1>1, <1>3, <1>8, <3>1, AnswerLocal DEF NoTenant
    <2> QED
      BY <1>1, <1>8, <2>1, <2>2 DEF NoTenant
  <1>9. CASE LoadIdentity(r)
    <2>1. u > 0 /\ users[u].subject = o.subject
      BY <1>1, <1>9 DEF LoadIdentity, At, Knows
    <2>2. u \in 1..Len(users)
      BY SMTT(30), <1>1, <1>4, <2>1
    <2> QED
      BY <1>1, <1>3, <1>9, <2>1, <2>2, AnswerLocal DEF LoadIdentity
  <1> QED
    BY <1>5, <1>6, <1>7, <1>8, <1>9

(* The statements that join or make a team and that manage roles.           *)
LEMMA TeamLocal ==
    ASSUME Tables, History, Tables', History', Grow, Local, NEW r \in Reqs,
           AssignRole(r) \/ Redeem(r) \/ Join(r) \/ CreateTeam(r) \/ SeedDefaultRoles(r)
    PROVE  Local'
  <1>1. PICK l, o, u, d, n :
            /\ req[r] = [at |-> l, op |-> o, user |-> u, snap |-> d, mine |-> n]
            /\ l = req[r].at /\ o = req[r].op /\ u = req[r].user /\ d = req[r].snap /\ n = req[r].mine
            /\ u \in 0..Len(users) /\ n \in 0..Len(past) /\ Knows(l, o, u, d, n)
    BY Here
  <1>2. UNCHANGED token
    BY DEF AssignRole, Redeem, Join, CreateTeam, SeedDefaultRoles
  <1>3. CASE End(r)
    BY <1>2, <1>3, EndLocal
  <1>4. CASE AssignRole(r)
    <2>1. Knows("role", o, u, d, n)
      BY <1>1, <1>4 DEF AssignRole, At
    <2>2. Knows("load", o, u, d, n) /\ o.kind = "exchange"
      BY <2>1 DEF Knows, SigningIn, HasTenant
    <2>3. Goto(r, "load")
      BY <1>1, <1>4, <2>2 DEF AssignRole
    <2> QED
      BY <1>1, <1>2, <2>2, <2>3, GoesTo
  <1>5. CASE Redeem(r) \/ SeedDefaultRoles(r)
    <2>1. Knows("join", o, u, d, n)
      BY <1>1, <1>5 DEF Redeem, SeedDefaultRoles, At, Knows, SigningIn, HasTenant
    <2>2. Goto(r, "join") \/ End(r)
      BY <1>5 DEF Redeem, SeedDefaultRoles
    <2> QED
      BY <1>1, <1>2, <1>3, <2>1, <2>2, GoesTo
  <1>6. CASE Join(r)
    <2>1. u > 0
      BY <1>1, <1>6 DEF Join, At, Knows
    <2>2. u \in 1..Len(users)
      BY SMTT(30), <1>1, <2>1 DEF Tables
    <2>3. users[u].tenant # None
      BY <2>2, ConstantsAssumption DEF Tables
    <2> QED
      BY <1>1, <1>3, <1>6, <2>3 DEF Join
  <1>7. CASE CreateTeam(r)
    <2>1. o = [kind |-> "onboard", tenant |-> None] /\ u > 0 /\ UNCHANGED <<users, past>>
      BY <1>1, <1>7 DEF CreateTeam, At, Knows
    <2>2. CASE \E t \in Others \ tenants :
                 /\ tenants' = tenants \cup {t}
                 /\ req' = [req EXCEPT ![r].at = "seed", ![r].op.tenant = t]
      <3>1. PICK t : t \in tenants' /\ req' = [req EXCEPT ![r].at = "seed", ![r].op.tenant = t]
        BY <2>2
      <3> DEFINE p == [kind |-> "onboard", tenant |-> t]
      <3>2. /\ req' = [q \in Reqs |-> req'[q]]
            /\ \A q \in Reqs \ {r} : req'[q] = req[q]
            /\ req'[r] = [at |-> "seed", op |-> p, user |-> u, snap |-> d, mine |-> n]
        <4>1. [o EXCEPT !.tenant = t] = p /\ req[r].op = o
          BY SMTT(30), <1>1, <2>1
        <4>2. req' = [req EXCEPT ![r].at = "seed", ![r].op = [req[r].op EXCEPT !.tenant = t]]
          BY <3>1
        <4> HIDE DEF p
        <4>3. req' = [req EXCEPT ![r].at = "seed", ![r].op = p]
          BY <4>1, <4>2
        <4> QED
          BY <1>1, <4>3, Moves DEF Local
      <3>3. Knows("seed", p, u, d, n)'
        BY <2>1, <3>1 DEF Knows, SigningIn, HasTenant
      <3>4. LocalOf(req[r])'
        BY <1>1, <2>1, <3>2, <3>3, Arrives
      <3> QED
        BY <1>2, <3>2, <3>4, OneMoves
    <2> QED
      BY <1>3, <1>7, <2>2 DEF CreateTeam
  <1> QED
    BY <1>4, <1>5, <1>6, <1>7

(* The statements that manage roles.                                        *)
LEMMA RoleLocal ==
    ASSUME Tables, History, Tables', History', Grow, Local, NEW r \in Reqs,
           Mutate(r) \/ LoadRoles(r) \/ Publish(r) \/ AssignToUser(r)
    PROVE  Local'
  <1>1. PICK l, o, u, d, n :
            /\ req[r] = [at |-> l, op |-> o, user |-> u, snap |-> d, mine |-> n]
            /\ l = req[r].at /\ o = req[r].op /\ u = req[r].user /\ d = req[r].snap /\ n = req[r].mine
            /\ u \in 0..Len(users) /\ n \in 0..Len(past) /\ Knows(l, o, u, d, n)
    BY Here
  <1>2. UNCHANGED <<users, token>>
    BY DEF Mutate, LoadRoles, Publish, AssignToUser
  <1>3. CASE End(r)
    BY <1>2, <1>3, EndLocal
  <1>4. CASE req' = [req EXCEPT ![r].at = "reload", ![r].mine = Len(past')]
    <2>1. PICK m : m = Len(past')
      OBVIOUS
    <2>2. m > 0 /\ m \in 0..Len(past') /\ u \in 0..Len(users')
      BY SMTT(30), <1>1, <1>2, <2>1 DEF History
    <2>3. /\ req' = [q \in Reqs |-> req'[q]]
          /\ \A q \in Reqs \ {r} : req'[q] = req[q]
          /\ req'[r] = [at |-> "reload", op |-> o, user |-> u, snap |-> d, mine |-> m]
      BY <1>1, <1>4, <2>1, Moves DEF Local
    <2>4. Knows("reload", o, u, d, m)'
      BY <2>2 DEF Knows, SigningIn, HasTenant
    <2>5. LocalOf(req[r])'
      BY <2>2, <2>3, <2>4, Arrives
    <2> QED
      BY <1>2, <2>3, <2>5, OneMoves
  <1>5. CASE LoadRoles(r)
    <2>1. PICK e : e = Defs(roles) /\ req' = [req EXCEPT ![r].at = "publish", ![r].snap = e]
      BY <1>5 DEF LoadRoles
    <2>2. /\ req' = [q \in Reqs |-> req'[q]]
          /\ \A q \in Reqs \ {r} : req'[q] = req[q]
          /\ req'[r] = [at |-> "publish", op |-> o, user |-> u, snap |-> e, mine |-> n]
      BY <1>1, <2>1, Moves DEF Local
    <2>3. n > 0 /\ UNCHANGED past
      BY <1>1, <1>5 DEF LoadRoles, At, Knows
    <2>4. Len(past') \in n..Len(past') /\ e = past'[Len(past')]
      BY SMTT(30), <1>1, <2>1, <2>3 DEF History
    <2>5. \E i \in n..Len(past') : e = past'[i]
      BY <2>4
    <2>6. Knows("publish", o, u, e, n)'
      BY <2>3, <2>5 DEF Knows, SigningIn, HasTenant
    <2>7. LocalOf(req[r])'
      BY <1>1, <1>2, <2>2, <2>3, <2>6, Arrives
    <2> QED
      BY <1>2, <2>2, <2>7, OneMoves
  <1>6. CASE Mutate(r)
    BY <1>3, <1>4, <1>6 DEF Mutate, Create, Update, Delete, Refuse, Mutated
  <1> QED
    BY <1>3, <1>5, <1>6 DEF Publish, AssignToUser

(* Every step keeps what a request knows.                                   *)
LEMMA StepLocal ==
    ASSUME Tables, History, Tables', History', Grow, Local, [Next]_vars
    PROVE  Local'
  <1>1. CASE UNCHANGED <<req, token>>
    BY <1>1, Stable, StableToken DEF Local
  <1>2. ASSUME NEW r \in Reqs, StatementFails(r) PROVE Local'
    <2>1. UNCHANGED token
      BY <1>2 DEF StatementFails
    <2>2. CASE End(r)
      BY <2>1, <2>2, EndLocal
    <2>3. CASE At(r, "role") /\ Goto(r, "load")
      <3>1. PICK l, o, u, d, n :
                /\ req[r] = [at |-> l, op |-> o, user |-> u, snap |-> d, mine |-> n]
                /\ l = req[r].at /\ o = req[r].op /\ u = req[r].user /\ d = req[r].snap /\ n = req[r].mine
                /\ u \in 0..Len(users) /\ n \in 0..Len(past) /\ Knows(l, o, u, d, n)
        BY Here
      <3>2. Knows("load", o, u, d, n)
        BY <2>3, <3>1 DEF At, Knows, SigningIn, HasTenant
      <3> QED
        BY <2>1, <2>3, <3>1, <3>2, GoesTo
    <2> QED
      BY <1>2, <2>2, <2>3 DEF StatementFails
  <1>3. CASE Restart
    <2>1. \A r \in Reqs : req'[r] = Idle \/ req'[r] = Over
      BY <1>3 DEF Restart
    <2>2. \A r \in Reqs : LocalOf(req[r])'
      BY <2>1, OverLocal
    <2>3. \A r \in Reqs : TokenOf(token[r])'
      BY <1>3, StableToken DEF Restart, Local
    <2>4. req' = [r \in Reqs |-> req'[r]]
      BY <1>3 DEF Restart
    <2> QED
      BY <2>2, <2>3, <2>4 DEF Local
  <1>4. CASE RemoveFromUser \/ CreateTenant \/ CreateUser \/ CreateInvite \/ CloseInvite \/ UNCHANGED vars
    BY <1>1, <1>4 DEF RemoveFromUser, CreateTenant, CreateUser, CreateInvite, CloseInvite, vars
  <1>5. ASSUME NEW r \in Reqs, Start(r) \/ Step(r) PROVE Local'
    BY <1>5, StartLocal, LoginLocal, TeamLocal, RoleLocal DEF Step
  <1> QED
    BY <1>2, <1>3, <1>4, <1>5 DEF Next
-----------------------------------------------------------------------------
(* The unique constraints, and that a user holds roles of one tenant.        *)

UsersUnique ==
    \A u, v \in 1..Len(users) : u # v =>
        /\ users[u].subject = None \/ users[u].subject # users[v].subject
        /\ <<users[u].tenant, users[u].email>> # <<users[v].tenant, users[v].email>>

RolesUnique(rs) ==
    /\ \A i, j \in Rows(rs) :
        i # j => <<rs[i].tenant, rs[i].name>> # <<rs[j].tenant, rs[j].name>>
    /\ \A i \in Rows(rs) : rs[i].system \/ "*" \notin rs[i].perms

(* Every step keeps accounts and emails unique: the checks and the writes   *)
(* of InsertUser, Link and CreateUser are one statement each.               *)
LEMMA StepUsers ==
    ASSUME Tables, Local, UsersUnique, [Next]_vars
    PROVE  UsersUnique'
  <1>0. /\ DOMAIN users = 1..Len(users) /\ Len(users) \in Nat /\ None \notin Subjects
        /\ users \in Seq(UserRow)
    BY SMTT(30), ConstantsAssumption DEF Tables
  <1>1. CASE UNCHANGED users
    BY SMTT(30), <1>1 DEF UsersUnique
  <1>2. ASSUME NEW t, NEW e, NEW s, [tenant |-> t, email |-> e, subject |-> s] \in UserRow,
               users' = Append(users, [tenant |-> t, email |-> e, subject |-> s]),
               WithEmail(t, e) = {}, s = None \/ WithSubject(s) = {}
        PROVE  UsersUnique'
    <2> DEFINE x == [tenant |-> t, email |-> e, subject |-> s]
               k == Len(users) + 1
    <2>1. /\ Len(users') = k /\ \A i \in 1..Len(users) : users'[i] = users[i]
          /\ users'[k] = x
      BY SMTT(30), <1>0, <1>2, AppendFacts
    <2>2. \A i \in 1..Len(users) :
            /\ s = None \/ users[i].subject # s
            /\ ~(users[i].tenant = t /\ users[i].email = e)
      BY <1>0, <1>2 DEF WithEmail, WithSubject
    <2>3. x.tenant = t /\ x.email = e /\ x.subject = s
      OBVIOUS
    <2>4. \A i \in 1..Len(users') : i \in 1..Len(users) \/ i = k
      BY SMTT(30), <1>0, <2>1
    <2> HIDE DEF x, k
    <2>5. ASSUME NEW i \in 1..Len(users'), NEW j \in 1..Len(users'), i # j
          PROVE  /\ users'[i].subject = None \/ users'[i].subject # users'[j].subject
                 /\ <<users'[i].tenant, users'[i].email>> # <<users'[j].tenant, users'[j].email>>
      <3>1. CASE i \in 1..Len(users) /\ j \in 1..Len(users)
        BY <2>1, <2>5, <3>1 DEF UsersUnique
      <3>2. CASE i = k /\ j \in 1..Len(users)
        BY <2>1, <2>2, <2>3, <3>2
      <3>3. CASE i \in 1..Len(users) /\ j = k
        BY <2>1, <2>2, <2>3, <3>3
      <3> QED
        BY <2>4, <2>5, <3>1, <3>2, <3>3
    <2> QED
      BY <2>5 DEF UsersUnique
  <1>3. ASSUME NEW r \in Reqs, InsertUser(r) PROVE UsersUnique'
    <2>1. req[r].op.subject \in Subjects /\ req[r].op.tenant \in tenants
      BY <1>3 DEF InsertUser, At, Local, LocalOf, Knows, SigningIn, HasTenant
    <2>2. [tenant |-> req[r].op.tenant, email |-> EmailOf[req[r].op.subject],
           subject |-> req[r].op.subject] \in UserRow
      BY <2>1 DEF Tables, UserRow
    <2> QED
      BY SMTT(30), <1>1, <1>2, <1>3, <2>2 DEF InsertUser
  <1>4. CASE CreateUser
    <2>1. PICK t \in tenants, s \in Subjects :
              /\ WithEmail(t, EmailOf[s]) = {}
              /\ users' = Append(users, [tenant |-> t, email |-> EmailOf[s], subject |-> None])
      BY <1>4 DEF CreateUser
    <2>2. [tenant |-> t, email |-> EmailOf[s], subject |-> None] \in UserRow
      BY <2>1 DEF Tables, UserRow
    <2> QED
      BY <1>2, <2>1, <2>2
  <1>5. ASSUME NEW r \in Reqs, Link(r) PROVE UsersUnique'
    <2>1. CASE UNCHANGED users
      BY <1>1, <2>1
    <2>2. CASE /\ WithSubject(req[r].op.subject) = {}
               /\ \E u \in Unlinked(req[r].op.tenant, EmailOf[req[r].op.subject]) :
                    users' = [users EXCEPT ![u].subject = req[r].op.subject]
      <3> DEFINE s == req[r].op.subject
      <3>0. PICK v \in Unlinked(req[r].op.tenant, EmailOf[s]) : users' = [users EXCEPT ![v].subject = s]
        BY <2>2
      <3>1. v \in 1..Len(users) /\ \A u \in 1..Len(users) : users[u].subject # s
        BY <1>0, <2>2 DEF Unlinked, WithEmail, WithSubject
      <3> HIDE DEF s
      <3>2. /\ Len(users') = Len(users)
            /\ \A u \in 1..Len(users) :
                 /\ users'[u].tenant = users[u].tenant /\ users'[u].email = users[u].email
                 /\ users'[u].subject = IF u = v THEN s ELSE users[u].subject
        BY SMTT(30), <1>0, <3>0, <3>1 DEF UserRow
      <3> QED
        BY SMTT(30), <3>1, <3>2 DEF UsersUnique
    <2> QED
      BY <1>5, <2>1, <2>2 DEF Link
  <1>6. ASSUME NEW r \in Reqs, Join(r) PROVE UNCHANGED users
    <2>1. req[r].user > 0 /\ req[r].user \in 0..Len(users)
      BY <1>6 DEF Join, At, Local, LocalOf, Knows
    <2>2. req[r].user \in 1..Len(users)
      BY SMTT(30), <1>0, <2>1
    <2>3. users[req[r].user].tenant # None
      BY <2>2, ConstantsAssumption DEF Tables
    <2> QED
      BY <1>6, <2>3 DEF Join
  <1>7. ASSUME NEW r \in Reqs,
               \/ Start(r) \/ StatementFails(r)
               \/ SelectUser(r) \/ RaceCheck(r) \/ NoTenant(r) \/ LoadIdentity(r)
               \/ AssignRole(r) \/ Redeem(r) \/ CreateTeam(r) \/ SeedDefaultRoles(r)
               \/ Mutate(r) \/ LoadRoles(r) \/ Publish(r) \/ AssignToUser(r)
        PROVE  UNCHANGED users
    <2>1. CASE Start(r)
      BY <2>1 DEF Start, HandleExchange, HandleCallback, SignIn, HandleRedeem, HandleSelfServiceCreate,
                  HandleCreate, HandleUpdate, HandleDelete, HandleAssignRole, Begin
    <2> QED
      BY <1>7, <2>1 DEF StatementFails, SelectUser, RaceCheck, NoTenant, LoadIdentity, AssignRole,
                        Redeem, CreateTeam, SeedDefaultRoles, Mutate, LoadRoles, Publish, AssignToUser
  <1>8. CASE Restart \/ RemoveFromUser \/ CreateTenant \/ CreateInvite \/ CloseInvite \/ UNCHANGED vars
    BY <1>1, <1>8 DEF Restart, RemoveFromUser, CreateTenant, CreateInvite, CloseInvite, vars
  <1> QED
    BY <1>1, <1>3, <1>4, <1>5, <1>6, <1>7, <1>8 DEF Next, Step

(* A row is added under a name that is free.                                *)
LEMMA RoleAdded ==
    ASSUME NEW rs \in Seq(RoleRow \cup {None}), RolesUnique(rs), NEW x \in RoleRow,
           ~Taken(rs, x.tenant, x.name), x.system \/ "*" \notin x.perms
    PROVE  RolesUnique(Append(rs, x))
  <1> DEFINE k == Len(rs) + 1
             ra == Append(rs, x)
  <1>1. /\ Len(rs) \in Nat /\ Len(ra) = k
        /\ \A i \in 1..Len(rs) : ra[i] = rs[i]
        /\ ra[k] = x
    BY SMTT(30), AppendFacts
  <1> HIDE DEF ra
  <1>2. \A i \in Rows(ra) : i \in Rows(rs) \/ i = k
    BY SMTT(30), <1>1 DEF Rows
  <1>3. \A i \in Rows(rs) : ra[i] = rs[i] /\ ~(rs[i].tenant = x.tenant /\ rs[i].name = x.name)
    BY <1>1 DEF Rows, Taken
  <1>4. ra[k] = x
    BY <1>1
  <1> HIDE DEF k
  <1>5. RolesUnique(ra)
    <2>1. \A i \in Rows(ra) : ra[i].system \/ "*" \notin ra[i].perms
      BY <1>2, <1>3, <1>4 DEF RolesUnique
    <2>2. ASSUME NEW i \in Rows(ra), NEW j \in Rows(ra), i # j,
                 ra[i].tenant = ra[j].tenant, ra[i].name = ra[j].name
          PROVE  FALSE
      BY <1>2, <1>3, <1>4, <2>2 DEF RolesUnique
    <2> QED
      BY <2>1, <2>2 DEF RolesUnique
  <1> QED
    BY <1>5 DEF ra

(* A row is replaced, under the same name or one that is free.              *)
LEMMA RoleReplaced ==
    ASSUME NEW rs \in Seq(RoleRow \cup {None}), RolesUnique(rs),
           NEW ra, Len(ra) = Len(rs), NEW k \in Rows(rs),
           \A i \in 1..Len(rs) : i # k => ra[i] = rs[i],
           ra[k] # None => /\ ra[k].tenant = rs[k].tenant
                           /\ ra[k].name = rs[k].name \/ ~Taken(rs, ra[k].tenant, ra[k].name)
                           /\ ra[k].system \/ "*" \notin ra[k].perms
    PROVE  RolesUnique(ra)
  <1>1. \A i \in Rows(ra) : i \in Rows(rs) /\ (i # k => ra[i] = rs[i]) /\ ra[i] # None
    BY DEF Rows
  <1>2. \A i \in Rows(ra) : ra[i].system \/ "*" \notin ra[i].perms
    BY <1>1 DEF RolesUnique
  <1>3. ASSUME NEW i \in Rows(ra), i # k, k \in Rows(ra), ra[i].tenant = ra[k].tenant, ra[i].name = ra[k].name
        PROVE  FALSE
    <2>1. i \in Rows(rs) /\ ra[i] = rs[i] /\ ra[k] # None
      BY <1>1, <1>3
    <2>2. CASE ra[k].name = rs[k].name
      BY <1>3, <2>1, <2>2 DEF RolesUnique
    <2>3. CASE ~Taken(rs, ra[k].tenant, ra[k].name)
      BY <1>3, <2>1, <2>3 DEF Taken
    <2> QED
      BY <2>1, <2>2, <2>3
  <1>4. ASSUME NEW i \in Rows(ra), NEW j \in Rows(ra), i # j,
               ra[i].tenant = ra[j].tenant, ra[i].name = ra[j].name
        PROVE  FALSE
    <2>1. CASE i # k /\ j # k
      BY <1>1, <1>4, <2>1 DEF RolesUnique
    <2> QED
      BY <1>3, <1>4, <2>1
  <1> QED
    BY <1>2, <1>4 DEF RolesUnique

(* What a step may do to the roles: keep them unique, and keep every row    *)
(* that is assigned, with its tenant.                                       *)
RolesKept ==
    /\ RolesUnique(roles')
    /\ \A i \in Rows(roles) : InUse(i) => i \in Rows(roles') /\ roles'[i].tenant = roles[i].tenant

(* Seeding a tenant's default roles.                                        *)
LEMMA SeedKeeps ==
    ASSUME Tables, Local, RolesUnique(roles), NEW r \in Reqs, SeedDefaultRoles(r)
    PROVE  RolesKept
  <1> DEFINE t == req[r].op.tenant
             da == Role(t, "org_admin", {"*"}, TRUE)
             db == Role(t, "standard_user", {"read"}, TRUE)
             ra == Seeded(roles, da)
             rb == Seeded(ra, db)
  <1>1. t \in Tenants /\ roles \in Seq(RoleRow \cup {None})
    BY DEF SeedDefaultRoles, At, Local, LocalOf, Knows, Tables
  <1>2. da \in RoleRow /\ db \in RoleRow /\ da.system /\ db.system
    BY <1>1 DEF Role, RoleRow
  <1>3. roles' = rb
    BY DEF SeedDefaultRoles, SetRoles, DefaultRoles
  <1> HIDE DEF da, db
  <1>4. /\ ra \in Seq(RoleRow \cup {None}) /\ Len(ra) \in Nat /\ Len(roles) <= Len(ra)
        /\ \A i \in 1..Len(roles) : ra[i] = roles[i]
    BY SMTT(30), <1>1, <1>2, AppendFacts DEF Seeded
  <1>5. RolesUnique(ra)
    BY <1>1, <1>2, RoleAdded DEF Seeded
  <1> HIDE DEF ra
  <1>6. /\ Len(rb) \in Nat /\ Len(ra) <= Len(rb)
        /\ \A i \in 1..Len(ra) : rb[i] = ra[i]
    BY SMTT(30), <1>2, <1>4, AppendFacts DEF Seeded
  <1>7. RolesUnique(rb)
    BY <1>2, <1>4, <1>5, RoleAdded DEF Seeded
  <1> HIDE DEF rb
  <1>8. \A i \in 1..Len(roles) : i \in 1..Len(rb) /\ rb[i] = roles[i]
    BY SMTT(30), <1>1, <1>4, <1>6
  <1>9. \A i \in Rows(roles) : i \in Rows(rb) /\ rb[i].tenant = roles[i].tenant
    BY <1>8 DEF Rows
  <1> QED
    BY <1>3, <1>7, <1>9 DEF RolesKept

(* Creating, changing or deleting a role.                                   *)
LEMMA MutateKeeps ==
    ASSUME Tables, Local, RolesUnique(roles), NEW r \in Reqs, Mutate(r)
    PROVE  RolesKept
  <1> DEFINE o == req[r].op
  <1>0. roles \in Seq(RoleRow \cup {None}) /\ Len(roles) \in Nat /\ None \notin RoleRow /\ DOMAIN roles = 1..Len(roles)
    BY SMTT(30), NoneIsNoRole DEF Tables
  <1>1. /\ o.kind # "delete" => o.name \in Names /\ o.perms \in PermSets /\ "*" \notin o.perms
        /\ o.kind = "create" => o.tenant \in Tenants
    BY DEF Mutate, At, Local, LocalOf, Knows, Tables, Grantable
  <1>2. CASE Refuse(r)
    BY <1>2 DEF Refuse, RolesKept
  <1>3. CASE o.kind = "create" /\ Create(r, o) /\ ~Refuse(r)
    <2> DEFINE x == Role(o.tenant, o.name, o.perms, FALSE)
    <2>1. x \in RoleRow /\ x.tenant = o.tenant /\ x.name = o.name /\ x.perms = o.perms
      BY <1>1, <1>3 DEF Role, RoleRow
    <2>2. ~Taken(roles, o.tenant, o.name) /\ roles' = Append(roles, x)
      BY <1>3 DEF Create, Mutated, SetRoles
    <2>3. "*" \notin x.perms
      BY <1>1, <1>3, <2>1
    <2> HIDE DEF x
    <2>4. RolesUnique(roles')
      BY <1>0, <2>1, <2>2, <2>3, RoleAdded
    <2>5. \A i \in 1..Len(roles) : i \in 1..Len(roles') /\ roles'[i] = roles[i]
      BY SMTT(30), <1>0, <2>1, <2>2, AppendFacts
    <2> QED
      BY <2>4, <2>5 DEF RolesKept, Rows
  <1>4. CASE o.kind = "update" /\ Update(r, o) /\ ~Refuse(r)
    <2> DEFINE k == o.role
               x == roles[o.role]
    <2>1. /\ k \in Rows(roles) /\ (o.name = x.name \/ ~Taken(roles, x.tenant, o.name))
          /\ roles' = [roles EXCEPT ![k].name = o.name, ![k].perms = o.perms]
      BY <1>4 DEF Update, Mutated, SetRoles
    <2>2. x \in RoleRow /\ k \in 1..Len(roles)
      BY SMTT(30), <1>0, <2>1 DEF Rows
    <2>3. x = [tenant |-> x.tenant, name |-> x.name, perms |-> x.perms, system |-> x.system]
      BY <2>2 DEF RoleRow
    <2> DEFINE y == [x EXCEPT !.name = o.name, !.perms = o.perms]
    <2>4. y \in RoleRow /\ y.tenant = x.tenant /\ y.name = o.name /\ y.perms = o.perms
      BY <1>1, <1>4, <2>2, <2>3 DEF RoleRow
    <2>5. roles' = [roles EXCEPT ![k] = y]
      BY <1>0, <2>1, <2>2
    <2>6. "*" \notin y.perms
      BY <1>1, <1>4, <2>4
    <2> HIDE DEF x, y, k
    <2>9. Len(roles') = Len(roles) /\ \A i \in 1..Len(roles) : roles'[i] = IF i = k THEN y ELSE roles[i]
      BY SMTT(30), <1>0, <2>2, <2>4, <2>5, ExceptFacts
    <2>10. roles'[k] = y /\ \A i \in 1..Len(roles) : i # k => roles'[i] = roles[i]
      BY <2>2, <2>9
    <2>11. x = roles[k]
      BY DEF x, k
    <2>12. RolesUnique(roles')
      BY <1>0, <2>1, <2>4, <2>6, <2>9, <2>10, <2>11, RoleReplaced
    <2>13. y # None
      BY <1>0, <2>4
    <2> QED
      BY <2>4, <2>9, <2>10, <2>11, <2>12, <2>13 DEF RolesKept, Rows
  <1>5. CASE o.kind = "delete" /\ Delete(r, o.role) /\ ~Refuse(r)
    <2> DEFINE k == o.role
    <2>1. k \in Rows(roles) /\ ~InUse(k) /\ roles' = [roles EXCEPT ![k] = None]
      BY <1>5 DEF Delete, Mutated, SetRoles
    <2> HIDE DEF k
    <2>2. Len(roles') = Len(roles) /\ \A i \in 1..Len(roles) : roles'[i] = IF i = k THEN None ELSE roles[i]
      BY SMTT(30), <1>0, <2>1, ExceptFacts DEF Rows
    <2>3. roles'[k] = None /\ \A i \in 1..Len(roles) : i # k => roles'[i] = roles[i]
      BY <2>1, <2>2 DEF Rows
    <2>4. RolesUnique(roles')
      BY <1>0, <2>1, <2>2, <2>3, RoleReplaced
    <2> QED
      BY <2>1, <2>2, <2>3, <2>4 DEF RolesKept, Rows
  <1> QED
    BY <1>2, <1>3, <1>4, <1>5 DEF Mutate

(* Every step keeps the names unique and the roles that are assigned.       *)
LEMMA StepRoles ==
    ASSUME Tables, Local, RolesUnique(roles), [Next]_vars
    PROVE  RolesKept
  <1>1. CASE UNCHANGED roles
    BY <1>1 DEF RolesKept
  <1>2. ASSUME NEW r \in Reqs,
               \/ Start(r) \/ StatementFails(r)
               \/ InsertUser(r) \/ SelectUser(r) \/ RaceCheck(r) \/ Link(r) \/ NoTenant(r) \/ LoadIdentity(r)
               \/ AssignRole(r) \/ Redeem(r) \/ Join(r) \/ CreateTeam(r)
               \/ LoadRoles(r) \/ Publish(r) \/ AssignToUser(r)
        PROVE  UNCHANGED roles
    <2>1. CASE Start(r)
      BY <2>1 DEF Start, HandleExchange, HandleCallback, SignIn, HandleRedeem, HandleSelfServiceCreate,
                  HandleCreate, HandleUpdate, HandleDelete, HandleAssignRole, Begin
    <2> QED
      BY <1>2, <2>1 DEF StatementFails, InsertUser, SelectUser, RaceCheck, Link, NoTenant, LoadIdentity,
                        AssignRole, Redeem, Join, CreateTeam, LoadRoles, Publish, AssignToUser, SetRoles
  <1>3. CASE \/ Restart \/ RemoveFromUser \/ CreateTenant \/ CreateUser \/ CreateInvite \/ CloseInvite
             \/ UNCHANGED vars
    BY <1>1, <1>3 DEF Restart, RemoveFromUser, CreateTenant, CreateUser, CreateInvite, CloseInvite, vars
  <1> QED
    BY <1>1, <1>2, <1>3, SeedKeeps, MutateKeeps DEF Next, Step

(* Every step assigns a role of the user's own tenant, if any.              *)
LEMMA StepAssigned ==
    ASSUME Tables, Local, Grow, RolesOfOwnTenant, RolesKept, [Next]_vars
    PROVE  RolesOfOwnTenant'
  <1>0. \A a \in assigned : a[1] \in 1..Len(users)
    BY DEF Tables
  <1>1. ASSUME NEW a \in assigned PROVE a[2] \in Rows(roles') /\ roles'[a[2]].tenant = users'[a[1]].tenant
    BY <1>0 DEF Grow, RolesOfOwnTenant, RolesKept, InUse
  <1>2. CASE assigned' \subseteq assigned
    BY <1>1, <1>2 DEF RolesOfOwnTenant
  <1>3. ASSUME NEW r \in Reqs, AssignRole(r) PROVE RolesOfOwnTenant'
    <2>1. /\ req[r].op.kind = "exchange" /\ users[req[r].user].tenant = req[r].op.tenant
          /\ req[r].user > 0 /\ req[r].user \in 0..Len(users) /\ UNCHANGED <<roles, users>>
      BY <1>3 DEF AssignRole, SetRoles, At, Local, LocalOf, Knows
    <2>2. PICK is :
              /\ \A i \in is : i \in Rows(roles) /\ roles[i].tenant = req[r].op.tenant
              /\ assigned' = assigned \cup {<<req[r].user, i, "org">> : i \in is}
      BY <1>3, <2>1 DEF AssignRole, SetRoles, TenantOf
    <2> QED
      BY SMTT(30), <2>1, <2>2 DEF RolesOfOwnTenant
  <1>4. ASSUME NEW r \in Reqs, AssignToUser(r) PROVE RolesOfOwnTenant'
    <2>1. CASE UNCHANGED assigned
      BY <1>2, <2>1
    <2>2. CASE /\ req[r].op.role \in Rows(roles)
               /\ SetRoles(roles, assigned \cup {<<req[r].user, req[r].op.role, req[r].op.scope>>})
      <3>1. roles[req[r].op.role].tenant = users[req[r].user].tenant
        BY <1>4, <2>2 DEF AssignToUser, At, Local, LocalOf, Knows, Rows
      <3>2. UNCHANGED <<roles, users>>
        BY <1>4, <2>2 DEF AssignToUser, SetRoles
      <3> QED
        BY SMTT(30), <2>2, <3>1, <3>2 DEF RolesOfOwnTenant, SetRoles
    <2> QED
      BY <1>4, <2>1, <2>2 DEF AssignToUser
  <1>5. ASSUME NEW r \in Reqs,
               \/ Start(r) \/ StatementFails(r)
               \/ InsertUser(r) \/ SelectUser(r) \/ RaceCheck(r) \/ Link(r) \/ NoTenant(r) \/ LoadIdentity(r)
               \/ Redeem(r) \/ Join(r) \/ CreateTeam(r) \/ SeedDefaultRoles(r)
               \/ Mutate(r) \/ LoadRoles(r) \/ Publish(r)
        PROVE  assigned' \subseteq assigned
    <2>1. CASE Start(r)
      BY <2>1 DEF Start, HandleExchange, HandleCallback, SignIn, HandleRedeem, HandleSelfServiceCreate,
                  HandleCreate, HandleUpdate, HandleDelete, HandleAssignRole, Begin
    <2>2. CASE Mutate(r)
      BY <2>2 DEF Mutate, Create, Update, Delete, Refuse, Mutated, SetRoles
    <2> QED
      BY <1>5, <2>1, <2>2 DEF StatementFails, InsertUser, SelectUser, RaceCheck, Link, NoTenant, LoadIdentity,
                        Redeem, Join, CreateTeam, SeedDefaultRoles, SetRoles, LoadRoles, Publish
  <1>6. CASE \/ Restart \/ RemoveFromUser \/ CreateTenant \/ CreateUser \/ CreateInvite \/ CloseInvite
             \/ UNCHANGED vars
    BY <1>2, <1>6 DEF Restart, RemoveFromUser, CreateTenant, CreateUser, CreateInvite, CloseInvite, vars
  <1> QED
    BY <1>2, <1>3, <1>4, <1>5, <1>6 DEF Next, Step
-----------------------------------------------------------------------------
(* The inductive invariant. *)
Inv ==
    /\ Tables /\ History /\ Local
    /\ UsersUnique /\ RolesUnique(roles) /\ RolesOfOwnTenant

(* The first state: one tenant, its administrator and its three roles.      *)
LEMMA InvInit == Init => Inv
  <1> SUFFICES ASSUME Init PROVE Inv
    OBVIOUS
  <1> DEFINE x1 == Role(Home, "org_admin", {"*"}, TRUE)
             x2 == Role(Home, "standard_user", {"read"}, TRUE)
             x3 == Role(Home, "ops", {"write"}, FALSE)
             w == [tenant |-> Home, email |-> EmailOf[AdminSub], subject |-> AdminSub]
  <1>0. Home \in Tenants /\ AdminSub \in Subjects /\ None \notin RoleRow /\ "org" \in Scopes /\ MaxFaults \in Nat
    BY ConstantsAssumption, NoneIsNoRole DEF Tenants
  <1>1. /\ x1 \in RoleRow /\ x2 \in RoleRow /\ x3 \in RoleRow /\ w \in UserRow
        /\ x1.tenant = Home /\ x2.tenant = Home /\ x3.tenant = Home /\ w.tenant = Home
        /\ x1.name = "org_admin" /\ x2.name = "standard_user" /\ x3.name = "ops"
        /\ x1.system /\ x2.system /\ "*" \notin x3.perms
    BY <1>0 DEF Role, RoleRow, UserRow
  <1>2. users = <<w>>
    BY DEF Init
  <1>3. roles = Append(<<x1, x2>>, x3)
    BY DEF Init, DefaultRoles
  <1> HIDE DEF x1, x2, x3, w
  <1>4. users \in Seq(UserRow) /\ Len(users) = 1 /\ users[1] = w
    BY SMTT(30), <1>1, <1>2
  <1>5. roles \in Seq(RoleRow \cup {None}) /\ Len(roles) = 3
        /\ roles[1] = x1 /\ roles[2] = x2 /\ roles[3] = x3
    BY SMTT(30), <1>1, <1>3
  <1>6. \A i \in 1..3 : i = 1 \/ i = 2 \/ i = 3
    BY SMTT(30)
  <1>7. Rows(roles) = 1..3
    BY <1>0, <1>1, <1>5, <1>6 DEF Rows
  <1>8. Tables
    <2>1. invites \in [Invites -> InviteRow] /\ \A i \in Invites : invites[i].used = 0
      BY DEF Init, InviteRow
    <2>2. token = [r \in Reqs |-> token[r]] /\ faults = 0 /\ tenants = {Home}
      BY DEF Init
    <2>3. <<1, 1, "org">> \in (1..1) \X (1..3) \X Scopes
      BY SMTT(30), <1>0
    <2>4. assigned \subseteq (1..Len(users)) \X (1..Len(roles)) \X Scopes
      BY <1>4, <1>5, <2>3 DEF Init
    <2>5. \A u \in 1..Len(users) : users[u].tenant \in tenants
      BY SMTT(30), <1>1, <1>4, <2>2
    <2>6. faults \in 0..MaxFaults
      BY SMTT(30), <1>0, <2>2
    <2>7. \A i \in Invites : invites[i].used \in 0..Len(users)
      BY SMTT(30), <1>4, <2>1
    <2> QED
      BY <1>0, <1>4, <1>5, <2>1, <2>2, <2>4, <2>5, <2>6, <2>7 DEF Tables
  <1>9. History
    <2> DEFINE D == {<<d.tenant, d.name, d.perms>> : d \in RoleRow}
    <2>1. Defs(roles) \in SUBSET D
      <3>1. \A i \in Rows(roles) : roles[i] \in RoleRow
        BY <1>1, <1>5, <1>6, <1>7
      <3> QED
        BY <3>1 DEF Defs
    <2>2. past = <<Defs(roles)>> /\ cache = Defs(roles)
      BY DEF Init
    <2> HIDE DEF D
    <2>3. past \in Seq(SUBSET D) /\ Len(past) = 1 /\ past[1] = Defs(roles)
      BY SMTT(30), <2>1, <2>2
    <2> QED
      BY SMTT(30), <2>2, <2>3 DEF History, D
  <1>10. Local
    <2>1. req = [r \in Reqs |-> Idle] /\ token = [r \in Reqs |-> None]
      BY DEF Init
    <2>2. Len(users) \in Nat /\ Len(past) \in Nat
      BY SMTT(30), <1>8, <1>9 DEF Tables, History
    <2>3. LocalOf(Idle)
      BY SMTT(30), <2>2 DEF LocalOf, Knows, Idle, Request, SigningIn, HasTenant
    <2> QED
      BY <2>1, <2>3 DEF Local, TokenOf
  <1>11. UsersUnique
    BY SMTT(30), <1>4 DEF UsersUnique
  <1>12. RolesUnique(roles)
    <2>1. ASSUME NEW i \in 1..3, NEW j \in 1..3, roles[i].name = roles[j].name PROVE i = j
      BY <1>1, <1>5, <1>6, <2>1
    <2>2. ASSUME NEW i \in 1..3 PROVE roles[i].system \/ "*" \notin roles[i].perms
      BY <1>1, <1>5, <1>6
    <2> QED
      BY <1>7, <2>1, <2>2 DEF RolesUnique
  <1>13. RolesOfOwnTenant
    <2>1. assigned = {<<1, 1, "org">>} /\ 1 \in 1..3
      BY SMTT(30) DEF Init
    <2> QED
      BY SMTT(30), <1>1, <1>4, <1>5, <1>7, <2>1 DEF RolesOfOwnTenant
  <1> QED
    BY <1>8, <1>9, <1>10, <1>11, <1>12, <1>13 DEF Inv

(* Every step keeps the invariant.                                          *)
LEMMA InvStep == Inv /\ [Next]_vars => Inv'
  <1> SUFFICES ASSUME Inv, [Next]_vars PROVE Inv'
    OBVIOUS
  <1>1. Tables' /\ History' /\ Grow
    BY StepTables DEF Inv, Good
  <1>2. Local'
    BY <1>1, StepLocal DEF Inv
  <1>3. UsersUnique'
    BY StepUsers DEF Inv
  <1>4. RolesKept
    BY StepRoles DEF Inv
  <1>5. RolesOfOwnTenant'
    BY <1>1, <1>4, StepAssigned DEF Inv
  <1>6. RolesUnique(roles)'
    BY <1>4 DEF RolesKept
  <1> QED
    BY <1>1, <1>2, <1>3, <1>5, <1>6 DEF Inv

(* The inductive invariant holds in every reachable state.                  *)
LEMMA Invariant == Spec => []Inv
  BY InvInit, InvStep, PTL DEF Spec

(* Types, the unique constraints of the schema and the wildcard permission  *)
(* (schema of users and roles; RoleHandler).                                *)
THEOREM TypesCorrect == Spec => []TypeOK
  <1>1. Inv => TypeOK
    <2> SUFFICES ASSUME Inv PROVE TypeOK
      OBVIOUS
    <2>1. DOMAIN users = 1..Len(users) /\ users \in Seq(UserRow)
      BY SMTT(30) DEF Inv, Tables
    <2>2. \A u \in DOMAIN users : users[u].tenant \in tenants /\ users[u].subject \in Subjects \cup {None}
      <3>1. ASSUME NEW u \in DOMAIN users PROVE users[u] \in UserRow /\ users[u].tenant \in tenants
        BY SMTT(30), <2>1 DEF Inv, Tables
      <3> QED
        BY <3>1 DEF UserRow
    <2>3. \A r \in Reqs : req[r].user \in 0..Len(users) /\ req[r].mine \in 0..Len(past)
      BY DEF Inv, Local, LocalOf
    <2> QED
      BY <2>1, <2>2, <2>3 DEF Inv, Tables, UsersUnique, RolesUnique, TypeOK
  <1> QED
    BY <1>1, Invariant, PTL

(* All logins of an account are answered with one user, and no two accounts *)
(* with the same (FindOrCreateByOIDC, resolveEmailConflict).                *)
THEOREM AccountsAreUsers == Spec => []AccountIsUser
  <1>1. Inv => AccountIsUser
    <2> SUFFICES ASSUME Inv, NEW q \in SignedIn, NEW r \in SignedIn
                 PROVE  (token[q].subject = token[r].subject) <=> (token[q].user = token[r].user)
      BY DEF AccountIsUser
    <2>1. ASSUME NEW p \in SignedIn
          PROVE  /\ token[p].user \in 1..Len(users) /\ token[p].subject # None
                 /\ users[token[p].user].subject = token[p].subject
      BY ConstantsAssumption DEF Inv, Local, TokenOf, SignedIn
    <2> QED
      BY SMTT(30), <2>1 DEF Inv, UsersUnique
  <1> QED
    BY <1>1, Invariant, PTL

(* Users hold roles of their own tenant only, and roles that exist          *)
(* (AssignRole, AssignToUser, RoleStore.Delete).                            *)
THEOREM OwnRoles == Spec => []RolesOfOwnTenant
  BY Invariant, PTL DEF Inv

(* No permission is granted that the tenant never gave (checkRolePermissions *)
(* with an old token and an old role map).                                   *)
THEOREM GrantsWereGiven == Spec => []AllowedWasGranted
  <1>1. Inv => AllowedWasGranted
    BY DEF Inv, History, AllowedWasGranted, Authorize
  <1> QED
    BY <1>1, Invariant, PTL

(* Deleting a role takes no assignment along (RoleStore.Delete and the      *)
(* cascading foreign key).                                                  *)
THEOREM AssignmentsKept == Spec => AssignmentKept
  <1> DEFINE Kept == \A a \in assigned \ assigned' : assigned' = assigned \ {a} /\ roles' = roles
  <1>1. ASSUME Inv, [Next]_vars PROVE Kept
    <2>1. CASE RemoveFromUser
      BY <2>1 DEF RemoveFromUser
    <2>2. CASE assigned \subseteq assigned'
      BY <2>2
    <2>3. ASSUME NEW r \in Reqs, Start(r) PROVE assigned \subseteq assigned'
      BY <2>3 DEF Start, HandleExchange, HandleCallback, SignIn, HandleRedeem, HandleSelfServiceCreate,
                  HandleCreate, HandleUpdate, HandleDelete, HandleAssignRole, Begin
    <2>4. ASSUME NEW r \in Reqs, Mutate(r) PROVE assigned \subseteq assigned'
      BY <2>4 DEF Mutate, Create, Update, Delete, Refuse, Mutated, SetRoles, InUse
    <2>5. ASSUME NEW r \in Reqs, StatementFails(r) \/ Step(r), ~Mutate(r) PROVE assigned \subseteq assigned'
      BY <2>5 DEF StatementFails, Step, InsertUser, SelectUser, RaceCheck, Link, NoTenant, LoadIdentity,
                  AssignRole, Redeem, Join, CreateTeam, SeedDefaultRoles, LoadRoles, Publish, AssignToUser,
                  SetRoles
    <2>6. CASE Restart \/ CreateTenant \/ CreateUser \/ CreateInvite \/ CloseInvite \/ UNCHANGED vars
      BY <2>6 DEF Restart, CreateTenant, CreateUser, CreateInvite, CloseInvite, vars
    <2> QED
      BY <1>1, <2>1, <2>2, <2>3, <2>4, <2>5, <2>6 DEF Next
  <1> QED
    BY <1>1, Invariant, PTL DEF Spec, AssignmentKept

(* The map a role request publishes is one the table had after its change   *)
(* (RoleHandler, ReloadRoles).                                              *)
THEOREM OwnChangesPublished == Spec => OwnChangePublished
  <1>1. ASSUME Inv, [Next]_vars
        PROVE  \A r \in Reqs : At(r, "publish") /\ cache' = req[r].snap =>
                   \E i \in req[r].mine..Len(past) : cache' = past[i]
    BY SMTT(30), <1>1 DEF Inv, Local, LocalOf, Knows, At
  <1> QED
    BY <1>1, Invariant, PTL DEF Spec, OwnChangePublished

(* An invite is spent once (InviteStore.Redeem).                            *)
THEOREM InvitesSpentOnce == Spec => InviteSpentOnce
  <1> DEFINE Once == \A i \in Invites : invites[i].used # 0 => invites'[i].used = invites[i].used
  <1>1. ASSUME Inv, [Next]_vars PROVE Once
    <2>1. CASE UNCHANGED invites
      BY <2>1
    <2>2. \A i \in Invites : invites[i] \in InviteRow
      BY <1>1 DEF Inv, Tables
    <2>3. DOMAIN invites = Invites
      BY <1>1 DEF Inv, Tables
    <2>4. CASE CreateInvite \/ CloseInvite
      <3>1. \E k \in Invites : \E x :
                /\ invites' = [invites EXCEPT ![k] = x]
                /\ x.used = invites[k].used
        <4>1. CASE CreateInvite
          <5>1. PICK k \in Invites, t \in tenants : invites' = [invites EXCEPT ![k].state = "open", ![k].tenant = t]
            BY <4>1 DEF CreateInvite
          <5> DEFINE x == [invites[k] EXCEPT !.state = "open", !.tenant = t]
          <5>2. invites' = [invites EXCEPT ![k] = x]
            BY <2>3, <5>1
          <5>3. x.used = invites[k].used
            BY <1>1, InviteRows DEF Inv
          <5> HIDE DEF x
          <5> QED
            BY <5>2, <5>3
        <4>2. CASE CloseInvite
          <5>1. PICK k \in Invites : invites' = [invites EXCEPT ![k].state = "closed"]
            BY <4>2 DEF CloseInvite
          <5> DEFINE x == [invites[k] EXCEPT !.state = "closed"]
          <5>2. invites' = [invites EXCEPT ![k] = x]
            BY <2>3, <5>1
          <5>3. x.used = invites[k].used
            BY <1>1, InviteRows DEF Inv
          <5> HIDE DEF x
          <5> QED
            BY <5>2, <5>3
        <4> QED
          BY <2>4, <4>1, <4>2
      <3>2. PICK k \in Invites : \E x :
                /\ invites' = [invites EXCEPT ![k] = x]
                /\ x.used = invites[k].used
        BY <3>1
      <3>3. PICK x : invites' = [invites EXCEPT ![k] = x] /\ x.used = invites[k].used
        BY <3>2
      <3> QED
        BY <2>3, <3>3
    <2>5. ASSUME NEW r \in Reqs, Redeem(r) PROVE Once
      BY <2>1, <2>2, <2>3, <2>5 DEF Redeem, Redeemable, InviteRow
    <2>6. ASSUME NEW r \in Reqs, Start(r) PROVE UNCHANGED invites
      BY <2>6 DEF Start, HandleExchange, HandleCallback, SignIn, HandleRedeem, HandleSelfServiceCreate,
                  HandleCreate, HandleUpdate, HandleDelete, HandleAssignRole, Begin
    <2>7. ASSUME NEW r \in Reqs, StatementFails(r) \/ Step(r), ~Redeem(r) PROVE UNCHANGED invites
      BY <2>7 DEF StatementFails, Step, InsertUser, SelectUser, RaceCheck, Link, NoTenant, LoadIdentity,
                  AssignRole, Join, CreateTeam, SeedDefaultRoles, Mutate, LoadRoles, Publish, AssignToUser
    <2>8. CASE Restart \/ RemoveFromUser \/ CreateTenant \/ CreateUser \/ UNCHANGED vars
      BY <2>1, <2>8 DEF Restart, RemoveFromUser, CreateTenant, CreateUser, vars
    <2> QED
      BY <1>1, <2>1, <2>4, <2>5, <2>6, <2>7, <2>8 DEF Next
  <1> QED
    BY <1>1, Invariant, PTL DEF Spec, InviteSpentOnce
=============================================================================
