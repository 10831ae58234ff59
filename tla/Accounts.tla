----------------------------- MODULE Accounts -----------------------------
(***************************************************************************)
(* Tenants, users, invitations and the collaborators of scales: the        *)
(* registration and team endpoints, each request one or more store calls   *)
(* with nothing around them.  An address is an e-mail address up to letter *)
(* case, a spelling one way of writing it: GetUserByEmail compares         *)
(* LOWER(email), the UNIQUE constraint on users.email compares spellings.  *)
(*                                                                         *)
(* authStoreAdapter returns nil for every write, whatever SQLite says, so  *)
(* an INSERT that is refused looks like one that worked.                   *)
(***************************************************************************)
EXTENDS FiniteSets, Naturals

CONSTANTS
    Tenant, User, Scale, Token, Address, Spelling, NULL,
    Slot,               \* concurrent requests
    Op,                 \* endpoints in use
    FkModes             \* see SurveyStore: what a pooled connection enforces

Ops == {"register", "accept", "login", "invite", "add", "remove",
        "createScale", "deleteScale", "expire"}

Email == [address : Address, spelling : Spelling]

ASSUME AccountsAssumption ==
    /\ Op \subseteq Ops
    /\ FkModes \subseteq BOOLEAN /\ FkModes # {}
    /\ NULL \notin Tenant \cup User \cup Scale \cup Token \cup Email

UserRow == [id : User, email : Email, tenant : Tenant]
ScaleRow == [id : Scale, tenant : Tenant]
InviteRow == [token : Token, tenant : Tenant, scale : Scale, email : Email,
              accepted : BOOLEAN]
CollaboratorRow == [scale : Scale, user : User]
AuthToken == [user : User, tenant : Tenant]

VARIABLES
    tenants, users, scales, invites, collaborators,
    expired,            \* invitations more than seven days old
    pc, loc,            \* the next store call of each request, its variables
    tokens,             \* signed tokens handed out
    usedTenants, usedUsers, usedTokens,  \* generated ids: they do not repeat
    owned,              \* the scales there are or were: ids may come again
    members             \* who may be in a tenant: its founder, and who was invited

tables == <<tenants, users, scales, invites, collaborators>>
ids == <<usedTenants, usedUsers, usedTokens, owned>>
vars == <<tables, expired, pc, loc, tokens, ids, members>>

Label == {"idle", "addTenant", "addUser", "sign", "find", "addInvited",
          "markAccepted", "teamAdd", "addCollaborator", "createInvite",
          "removeCollaborator"}

Local == [email : Email \cup {NULL}, tenant : Tenant \cup {NULL},
          user : User \cup {NULL}, colleague : User \cup {NULL},
          scale : Scale \cup {NULL}, token : Token \cup {NULL}]

Blank == [email |-> NULL, tenant |-> NULL, user |-> NULL, colleague |-> NULL,
          scale |-> NULL, token |-> NULL]

Same(e, f) == e.address = f.address

(* One tenant with its founder and a scale. *)
Init ==
    \E t \in Tenant, u \in User, s \in Scale, e \in Email :
        /\ tenants = {t} /\ users = {[id |-> u, email |-> e, tenant |-> t]}
        /\ scales = {[id |-> s, tenant |-> t]}
        /\ invites = {} /\ collaborators = {} /\ expired = {}
        /\ pc = [r \in Slot |-> "idle"] /\ loc = [r \in Slot |-> Blank]
        /\ tokens = {[user |-> u, tenant |-> t]}
        /\ usedTenants = {t} /\ usedUsers = {u} /\ usedTokens = {}
        /\ owned = scales
        /\ members = {[tenant |-> t, address |-> e.address]}

Start(r, op) == op \in Op /\ pc[r] = "idle"

Goto(r, label, local) ==
    /\ pc' = [pc EXCEPT ![r] = label]
    /\ loc' = [loc EXCEPT ![r] = local]

Finish(r) == Goto(r, "idle", Blank)

(* FindUserByEmail: LIMIT 1 of the rows with the address.                   *)
Found(e) == {row \in users : Same(row.email, e)}

(* INSERT INTO users: UNIQUE(email) refuses the same spelling.              *)
InsertUser(row) ==
    users' = IF \E old \in users : old.email = row.email THEN users
             ELSE users \cup {row}

-----------------------------------------------------------------------------
(* POST /api/auth/register without an invitation *)

(* Register: the address must not be taken yet. *)
Register(r) ==
    /\ Start(r, "register")
    /\ \E e \in Email, t \in Tenant \ usedTenants :
        /\ Found(e) = {}
        /\ usedTenants' = usedTenants \cup {t}
        /\ Goto(r, "addTenant", [Blank EXCEPT !.email = e, !.tenant = t])
    /\ UNCHANGED <<tables, expired, tokens, usedUsers, usedTokens, owned,
                   members>>

AddTenant(r) ==
    /\ pc[r] = "addTenant"
    /\ tenants' = tenants \cup {loc[r].tenant}
    /\ members' = members \cup {[tenant |-> loc[r].tenant,
                                 address |-> loc[r].email.address]}
    /\ Goto(r, "addUser", loc[r])
    /\ UNCHANGED <<users, scales, invites, collaborators, expired, tokens, ids>>

(* The rollback with DeleteTenant is behind an error AddUser never returns. *)
AddUser(r) ==
    /\ pc[r] = "addUser"
    /\ \E u \in User \ usedUsers :
        /\ usedUsers' = usedUsers \cup {u}
        /\ InsertUser([id |-> u, email |-> loc[r].email, tenant |-> loc[r].tenant])
        /\ Goto(r, "sign", [loc[r] EXCEPT !.user = u])
    /\ UNCHANGED <<tenants, scales, invites, collaborators, expired, tokens,
                   usedTenants, usedTokens, owned, members>>

SignToken(r) ==
    /\ pc[r] = "sign"
    /\ tokens' = tokens \cup {[user |-> loc[r].user, tenant |-> loc[r].tenant]}
    /\ Finish(r)
    /\ UNCHANGED <<tables, expired, ids, members>>

(* POST /api/auth/login *)
Login(r) ==
    /\ Start(r, "login")
    /\ \E row \in users :
        tokens' = tokens \cup {[user |-> row.id, tenant |-> row.tenant]}
    /\ UNCHANGED <<tables, expired, pc, loc, ids, members>>

-----------------------------------------------------------------------------
(* POST /api/auth/register with an invitation *)

(* Mutant of Accept: the e-mail of the invitation is not compared.          *)
AcceptAny(r) ==
    /\ Start(r, "accept")
    /\ \E inv \in invites, e \in Email :
        /\ inv.token \notin expired
        /\ Goto(r, "find", [Blank EXCEPT !.email = e, !.tenant = inv.tenant,
                                         !.scale = inv.scale, !.token = inv.token])
    /\ UNCHANGED <<tables, expired, tokens, ids, members>>

(* GetInvite; whether it has been accepted before is not looked at. *)
Accept(r) ==
    /\ Start(r, "accept")
    /\ \E inv \in invites, e \in Email :
        /\ inv.token \notin expired
        /\ Same(e, inv.email)
        /\ Goto(r, "find", [Blank EXCEPT !.email = e, !.tenant = inv.tenant,
                                         !.scale = inv.scale, !.token = inv.token])
    /\ UNCHANGED <<tables, expired, tokens, ids, members>>

(* RegisterWithTenant: the address must not be taken yet. *)
FindInvited(r) ==
    /\ pc[r] = "find"
    /\ IF Found(loc[r].email) = {} THEN Goto(r, "addInvited", loc[r])
       ELSE Finish(r)
    /\ UNCHANGED <<tables, expired, tokens, ids, members>>

AddInvitedUser(r) ==
    /\ pc[r] = "addInvited"
    /\ \E u \in User \ usedUsers :
        /\ usedUsers' = usedUsers \cup {u}
        /\ InsertUser([id |-> u, email |-> loc[r].email, tenant |-> loc[r].tenant])
        /\ Goto(r, "markAccepted", [loc[r] EXCEPT !.user = u])
    /\ UNCHANGED <<tenants, scales, invites, collaborators, expired, tokens,
                   usedTenants, usedTokens, owned, members>>

(* Mutant of MarkInviteAccepted: the team is not told.                      *)
MarkOnly(r) ==
    /\ pc[r] = "markAccepted"
    /\ invites' = {IF inv.token = loc[r].token THEN [inv EXCEPT !.accepted = TRUE]
                   ELSE inv : inv \in invites}
    /\ Goto(r, "sign", loc[r])
    /\ UNCHANGED <<tenants, users, scales, collaborators, expired, tokens, ids,
                   members>>

MarkInviteAccepted(r) ==
    /\ pc[r] = "markAccepted"
    /\ invites' = {IF inv.token = loc[r].token THEN [inv EXCEPT !.accepted = TRUE]
                   ELSE inv : inv \in invites}
    /\ Goto(r, "teamAdd", loc[r])
    /\ UNCHANGED <<tenants, users, scales, collaborators, expired, tokens, ids,
                   members>>

-----------------------------------------------------------------------------
(* POST and DELETE /api/admin/scales/{id}/collaborators                     *)

OfTenant(s, t) == [id |-> s, tenant |-> t] \in scales

(* Mutant of Colleagues: a user of any tenant.                              *)
Anyone(r) == Found(loc[r].email)

Colleagues(r) == {row \in Found(loc[r].email) : row.tenant = loc[r].tenant}

(* TeamService.Add: GetScale must give a scale of the tenant, and           *)
(* FindUserByEmail a user of it.                                            *)
TeamAdd(r) ==
    /\ pc[r] = "teamAdd"
    /\ OfTenant(loc[r].scale, loc[r].tenant)
    /\ \E row \in Colleagues(r) :
        Goto(r, "addCollaborator", [loc[r] EXCEPT !.colleague = row.id])
    /\ UNCHANGED <<tables, expired, tokens, ids, members>>

(* After the team's part the invited registration signs its token whatever  *)
(* the outcome; the administrator's request ends.                           *)
AfterTeam(r) ==
    IF loc[r].token = NULL THEN Finish(r) ELSE Goto(r, "sign", loc[r])

TeamAddRefused(r) ==
    /\ pc[r] = "teamAdd"
    /\ \/ ~OfTenant(loc[r].scale, loc[r].tenant)
       \/ Found(loc[r].email) = {}
       \/ Found(loc[r].email) \ Colleagues(r) # {}
    /\ AfterTeam(r)
    /\ UNCHANGED <<tables, expired, tokens, ids, members>>

(* AddScaleCollaborator: an upsert with two foreign keys. *)
AddCollaborator(r) ==
    /\ pc[r] = "addCollaborator"
    /\ \E fk \in FkModes :
        collaborators' =
            IF fk /\ \/ \A row \in scales : row.id # loc[r].scale
                     \/ \A row \in users : row.id # loc[r].colleague
            THEN collaborators
            ELSE collaborators \cup {[scale |-> loc[r].scale, user |-> loc[r].colleague]}
    /\ AfterTeam(r)
    /\ UNCHANGED <<tenants, users, scales, invites, expired, tokens, ids, members>>

(* The administrator's tenant is that of the token the request carries. *)
AskAddCollaborator(r) ==
    /\ Start(r, "add")
    /\ \E a \in tokens, s \in Scale, e \in Email :
        Goto(r, "teamAdd", [Blank EXCEPT !.email = e, !.tenant = a.tenant, !.scale = s])
    /\ UNCHANGED <<tables, expired, tokens, ids, members>>

Remove(r) ==
    /\ Start(r, "remove")
    /\ \E a \in tokens, row \in scales, u \in User :
        /\ row.tenant = a.tenant
        /\ Goto(r, "removeCollaborator", [Blank EXCEPT !.scale = row.id, !.colleague = u])
    /\ UNCHANGED <<tables, expired, tokens, ids, members>>

RemoveCollaborator(r) ==
    /\ pc[r] = "removeCollaborator"
    /\ collaborators' = collaborators
                           \ {[scale |-> loc[r].scale, user |-> loc[r].colleague]}
    /\ Finish(r)
    /\ UNCHANGED <<tenants, users, scales, invites, expired, tokens, ids, members>>

-----------------------------------------------------------------------------
(* POST /api/admin/scales/{id}/invite                                       *)

(* The token is cut down to the time, to a tenth of a millisecond: requests  *)
(* that run at once may get the same one.                                   *)
NewToken == Token \ usedTokens
NowToken == {loc[r].token : r \in {q \in Slot : pc[q] = "createInvite"}}

Invite(r) ==
    /\ Start(r, "invite")
    /\ \E a \in tokens, row \in scales, e \in Email, k \in NewToken \cup NowToken :
        /\ row.tenant = a.tenant
        /\ usedTokens' = usedTokens \cup {k}
        /\ Goto(r, "createInvite", [Blank EXCEPT !.tenant = row.tenant,
                                      !.scale = row.id, !.email = e, !.token = k])
    /\ UNCHANGED <<tables, expired, tokens, usedTenants, usedUsers, owned,
                   members>>

(* Mutant of InviteRefused: without the primary key.                        *)
RefusedByParent(r, fk) == fk /\ \A row \in scales : row.id # loc[r].scale

(* The primary key or, the scale gone meanwhile, the foreign key may refuse *)
(* the row: an error 500.                                                   *)
InviteRefused(r, fk) ==
    \/ \E inv \in invites : inv.token = loc[r].token
    \/ fk /\ \A row \in scales : row.id # loc[r].scale

NewInvite(r) == [token |-> loc[r].token, tenant |-> loc[r].tenant,
                 scale |-> loc[r].scale, email |-> loc[r].email,
                 accepted |-> FALSE]

CreateInvite(r) ==
    /\ pc[r] = "createInvite"
    /\ \E fk \in FkModes :
        \/ InviteRefused(r, fk) /\ UNCHANGED <<invites, members>>
        \/ /\ ~InviteRefused(r, fk)
           /\ invites' = invites \cup {NewInvite(r)}
           /\ members' = members \cup {[tenant |-> loc[r].tenant,
                                        address |-> loc[r].email.address]}
    /\ Finish(r)
    /\ UNCHANGED <<tenants, users, scales, collaborators, expired, tokens, ids>>

Expire ==
    /\ "expire" \in Op
    /\ \E inv \in invites : expired' = expired \cup {inv.token}
    /\ UNCHANGED <<tables, pc, loc, tokens, ids, members>>

-----------------------------------------------------------------------------
(* POST /api/scales, with a generated id or one of the client's choice, and *)
(* DELETE /api/admin/scales/{id}, which cascades on a connection with fk.   *)

CreateScale(r) ==
    /\ Start(r, "createScale")
    /\ \E a \in tokens, s \in Scale :
        /\ \A row \in scales : row.id # s
        /\ scales' = scales \cup {[id |-> s, tenant |-> a.tenant]}
        /\ owned' = owned \cup scales'
    /\ UNCHANGED <<tenants, users, invites, collaborators, expired, pc, loc,
                   tokens, usedTenants, usedUsers, usedTokens, members>>

DeleteScale(r) ==
    /\ Start(r, "deleteScale")
    /\ \E row \in scales, fk \in FkModes :
        /\ scales' = scales \ {row}
        /\ IF fk
           THEN /\ invites' = {inv \in invites : inv.scale # row.id}
                /\ collaborators' = {c \in collaborators : c.scale # row.id}
           ELSE UNCHANGED <<invites, collaborators>>
    /\ UNCHANGED <<tenants, users, expired, pc, loc, tokens, ids, members>>

-----------------------------------------------------------------------------
Continue(r) ==
    \/ AddTenant(r) \/ AddUser(r) \/ SignToken(r)
    \/ FindInvited(r) \/ AddInvitedUser(r) \/ MarkInviteAccepted(r)
    \/ TeamAdd(r) \/ TeamAddRefused(r) \/ AddCollaborator(r)
    \/ RemoveCollaborator(r) \/ CreateInvite(r)

Arrive(r) ==
    \/ Register(r) \/ Accept(r) \/ Login(r) \/ AskAddCollaborator(r)
    \/ Remove(r) \/ Invite(r) \/ CreateScale(r) \/ DeleteScale(r)

Next == (\E r \in Slot : Arrive(r) \/ Continue(r)) \/ Expire

Spec == Init /\ [][Next]_vars

-----------------------------------------------------------------------------
(* What the local variables of a request hold when it reaches a label.      *)
Ready(label, local) ==
    /\ label \in {"addTenant", "addUser", "find", "addInvited", "markAccepted",
                  "teamAdd", "createInvite"} => local.email # NULL
    /\ label \notin {"idle", "removeCollaborator"} => local.tenant # NULL
    /\ label \in {"sign", "markAccepted"} => local.user # NULL
    /\ label \in {"teamAdd", "addCollaborator"} =>
          (local.token # NULL => local.user # NULL)
    /\ label \in {"addInvited", "find", "markAccepted", "teamAdd",
                  "addCollaborator", "createInvite"} => local.scale # NULL
    /\ label = "addCollaborator" => local.colleague # NULL
    /\ label = "createInvite" => local.token # NULL

SlotsOK ==
    /\ pc \in [Slot -> Label] /\ loc \in [Slot -> Local]
    /\ \A r \in Slot : Ready(pc[r], loc[r])

RowsOK ==
    /\ tenants \subseteq Tenant /\ users \subseteq UserRow
    /\ scales \subseteq ScaleRow /\ invites \subseteq InviteRow
    /\ collaborators \subseteq CollaboratorRow
    /\ expired \subseteq Token /\ tokens \subseteq AuthToken
    /\ usedTenants \subseteq Tenant /\ usedUsers \subseteq User
    /\ usedTokens \subseteq Token /\ owned \subseteq ScaleRow
    /\ members \subseteq [tenant : Tenant, address : Address]

(* The UNIQUE constraint of users.email and the primary keys. *)
KeysOK ==
    /\ \A u, v \in users : u.email = v.email => u = v
    /\ \A u, v \in users : u.id = v.id => u = v
    /\ \A u \in users : u.id \in usedUsers
    /\ scales \subseteq owned
    /\ \A s, t \in scales : s.id = t.id => s = t
    /\ \A i, j \in invites : i.token = j.token => i = j

(* Rows, requests and tokens have their types, and tables their keys. *)
TypeOK == SlotsOK /\ RowsOK /\ KeysOK

(* TeamService.Add: a collaborator "must be in the same tenant" as the      *)
(* scale (internal/services/team_service.go:48).  At every moment he is of  *)
(* a tenant the scale belongs to or belonged to: he comes to a scale of     *)
(* another tenant only if one was deleted and its id taken again, not by a  *)
(* race of requests.                                                        *)
CollaboratorsInTenant ==
    \A c \in collaborators, u \in users :
        c.user = u.id => [id |-> c.scale, tenant |-> u.tenant] \in owned

(* The tenant and the address a user, an invitation or a request names. *)
Card(x) == [tenant |-> x.tenant, address |-> x.email.address]

(* A user is in a tenant as the one who registered it, or with an address   *)
(* someone of the tenant invited; no race of invitations, expirations and   *)
(* registrations lets another one in.                                       *)
NoUninvitedMembers ==
    \A u \in users : Card(u) \in members

(* A registration by invitation is answered when an account of the address  *)
(* is a collaborator of the scale, unless the scale is gone or the address, *)
(* in whatever spelling, has an account in another tenant, which            *)
(* FindUserByEmail may return: the team then refuses, and it is only logged *)
(* (router.go:892).                                                         *)
Joined(x) ==
    \E row \in users : /\ Card(row) = Card(x)
                       /\ [scale |-> x.scale, user |-> row.id] \in collaborators

InviteeJoins ==
    [][\A r \in Slot :
        pc[r] # "sign" /\ pc'[r] = "sign" /\ loc'[r].token # NULL =>
            \/ Joined(loc[r])'
            \/ ~OfTenant(loc[r].scale, loc[r].tenant)'
            \/ \E row \in users' : /\ Same(row.email, loc[r].email)
                                   /\ row.tenant # loc[r].tenant]_vars
=============================================================================
