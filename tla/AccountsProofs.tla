--------------------------- MODULE AccountsProofs ---------------------------
(* Theorems about Accounts, for every value of its constants.               *)
EXTENDS Accounts, TLAPS

-----------------------------------------------------------------------------
(* Why they hold: inductive invariants.                                     *)

(* Why no one else gets in: every request on its way to a new user carries  *)
(* an address and a tenant that go together, and so does every invitation.  *)
Admission ==
    /\ NoUninvitedMembers
    /\ \A inv \in invites : Card(inv) \in members
    /\ \A r \in Slot :
          pc[r] \in {"addUser", "find", "addInvited"} => Card(loc[r]) \in members

(* Why collaborators are of a tenant of the scale: what TeamAdd has checked *)
(* of a scale and a user was so, and no account changes its tenant.         *)
Chosen(local) ==
    /\ [id |-> local.scale, tenant |-> local.tenant] \in owned
    /\ \E row \in users : row.id = local.colleague /\ Card(row) = Card(local)

Colleagueship ==
    /\ CollaboratorsInTenant
    /\ \A c \in collaborators : c.user \in usedUsers
    /\ \A r \in Slot : pc[r] = "addCollaborator" => Chosen(loc[r])

(* Why an invited registration joins: on its way to the team its address    *)
(* has an account, its own or the one that refused it.                      *)
Invited ==
    \A r \in Slot :
        /\ pc[r] \in {"addTenant", "addUser"} => loc[r].token = NULL
        /\ pc[r] = "markAccepted" \/ (pc[r] \in {"teamAdd", "addCollaborator"}
                                       /\ loc[r].token # NULL)
              => Found(loc[r].email) # {}

-----------------------------------------------------------------------------
(* The local variables of a request.                                        *)

LEMMA BlankIsLocal == Blank \in Local
  BY DEF Blank, Local

(* Each local variable may be given a value of its type. *)
LEMMA LocalUpdate ==
    ASSUME NEW l \in Local
    PROVE  /\ \A v \in User \cup {NULL} : [l EXCEPT !.user = v] \in Local
           /\ \A v \in User \cup {NULL} : [l EXCEPT !.colleague = v] \in Local
  BY DEF Local

(* A request goes to a label it is ready for. *)
LEMMA GotoType ==
    ASSUME SlotsOK, NEW r \in Slot, NEW label \in Label, NEW local \in Local,
           Ready(label, local), Goto(r, label, local)
    PROVE  SlotsOK'
  <1>1. pc' \in [Slot -> Label] /\ loc' \in [Slot -> Local]
    BY DEF Goto, SlotsOK
  <1>2. ASSUME NEW q \in Slot PROVE Ready(pc'[q], loc'[q])
    <2>1. CASE q = r
      BY <2>1 DEF Goto, SlotsOK
    <2>2. CASE q # r
      BY <2>2 DEF Goto, SlotsOK
    <2>3. QED BY <2>1, <2>2
  <1>3. QED BY <1>1, <1>2 DEF SlotsOK, Ready

LEMMA FinishType ==
    ASSUME SlotsOK, NEW r \in Slot, Finish(r)
    PROVE  SlotsOK'
  <1>1. "idle" \in Label /\ Ready("idle", Blank)
    BY DEF Label, Ready
  <1>2. QED BY <1>1, BlankIsLocal, GotoType DEF Finish

LEMMA SlotsKept ==
    ASSUME SlotsOK, UNCHANGED <<pc, loc>>
    PROVE  SlotsOK'
  BY DEF SlotsOK, Ready

(* A request just admitted has the inputs it was given. *)
LEMMA StartType ==
    ASSUME NEW l \in Local
    PROVE  /\ \A e \in Email, t \in Tenant :
                 LET n == [Blank EXCEPT !.email = e, !.tenant = t]
                 IN  n \in Local /\ Ready("addTenant", n)
           /\ \A e \in Email, t \in Tenant, s \in Scale, k \in Token :
                 LET n == [Blank EXCEPT !.email = e, !.tenant = t,
                                        !.scale = s, !.token = k]
                 IN  n \in Local /\ Ready("find", n)
           /\ \A e \in Email, t \in Tenant, s \in Scale, k \in Token :
                 LET n == [Blank EXCEPT !.tenant = t, !.scale = s,
                                        !.email = e, !.token = k]
                 IN  n \in Local /\ Ready("createInvite", n)
           /\ \A e \in Email, t \in Tenant, s \in Scale :
                 LET n == [Blank EXCEPT !.email = e, !.tenant = t, !.scale = s]
                 IN  n \in Local /\ Ready("teamAdd", n)
           /\ \A s \in Scale, u \in User :
                 LET n == [Blank EXCEPT !.scale = s, !.colleague = u]
                 IN  n \in Local /\ Ready("removeCollaborator", n)
  <1>1. Blank \in Local /\ NULL \notin Email \cup Tenant \cup Scale \cup Token
    BY BlankIsLocal, AccountsAssumption
  <1>2. ASSUME NEW e \in Email, NEW t \in Tenant
        PROVE  LET n == [Blank EXCEPT !.email = e, !.tenant = t]
               IN  n \in Local /\ Ready("addTenant", n)
    BY <1>1 DEF Blank, Local, Ready
  <1>3. ASSUME NEW e \in Email, NEW t \in Tenant, NEW s \in Scale, NEW k \in Token
        PROVE  LET n == [Blank EXCEPT !.email = e, !.tenant = t,
                                      !.scale = s, !.token = k]
               IN  n \in Local /\ Ready("find", n)
    BY <1>1 DEF Blank, Local, Ready
  <1>4. ASSUME NEW e \in Email, NEW t \in Tenant, NEW s \in Scale, NEW k \in Token
        PROVE  LET n == [Blank EXCEPT !.tenant = t, !.scale = s,
                                      !.email = e, !.token = k]
               IN  n \in Local /\ Ready("createInvite", n)
    BY <1>1 DEF Blank, Local, Ready
  <1>5. ASSUME NEW e \in Email, NEW t \in Tenant, NEW s \in Scale
        PROVE  LET n == [Blank EXCEPT !.email = e, !.tenant = t, !.scale = s]
               IN  n \in Local /\ Ready("teamAdd", n)
    BY <1>1 DEF Blank, Local, Ready
  <1>6. ASSUME NEW s \in Scale, NEW u \in User
        PROVE  LET n == [Blank EXCEPT !.scale = s, !.colleague = u]
               IN  n \in Local /\ Ready("removeCollaborator", n)
    BY <1>1 DEF Blank, Local, Ready
  <1>7. QED BY <1>2, <1>3, <1>4, <1>5, <1>6

-----------------------------------------------------------------------------
(* Every step keeps the requests' variables.                                *)

LEMMA SlotsInduction ==
    ASSUME TypeOK, Next
    PROVE  SlotsOK'
  <1> USE DEF TypeOK
  <1>1. CASE Expire
    BY <1>1, SlotsKept DEF Expire
  <1>2. SUFFICES ASSUME NEW r \in Slot, Arrive(r) \/ Continue(r)
                 PROVE  SlotsOK'
    BY <1>1 DEF Next
  <1>3. pc[r] \in Label /\ loc[r] \in Local /\ Ready(pc[r], loc[r])
    BY DEF SlotsOK
  <1>4. CASE Register(r)
    BY <1>4, GotoType, StartType, BlankIsLocal DEF Register, Label
  <1>5. CASE Accept(r)
    <2>1. PICK inv \in invites, e \in Email :
             Goto(r, "find", [Blank EXCEPT !.email = e, !.tenant = inv.tenant,
                                           !.scale = inv.scale, !.token = inv.token])
      BY <1>5 DEF Accept
    <2>2. inv.tenant \in Tenant /\ inv.scale \in Scale /\ inv.token \in Token
      BY DEF RowsOK, InviteRow
    <2> DEFINE n == [Blank EXCEPT !.email = e, !.tenant = inv.tenant,
                                  !.scale = inv.scale, !.token = inv.token]
    <2>3. n \in Local /\ Ready("find", n)
      BY <2>2, StartType, BlankIsLocal
    <2>4. QED BY <2>1, <2>3, GotoType DEF Label
  <1>6. CASE Login(r) \/ CreateScale(r) \/ DeleteScale(r)
    BY <1>6, SlotsKept DEF Login, CreateScale, DeleteScale
  <1>7. CASE AskAddCollaborator(r)
    <2>1. PICK a \in tokens, s \in Scale, e \in Email :
             Goto(r, "teamAdd", [Blank EXCEPT !.email = e, !.tenant = a.tenant,
                                              !.scale = s])
      BY <1>7 DEF AskAddCollaborator
    <2>2. a.tenant \in Tenant
      BY DEF RowsOK, AuthToken
    <2> DEFINE n == [Blank EXCEPT !.email = e, !.tenant = a.tenant, !.scale = s]
    <2>3. n \in Local /\ Ready("teamAdd", n)
      BY <2>2, StartType, BlankIsLocal
    <2>4. QED BY <2>1, <2>3, GotoType DEF Label
  <1>8. CASE Remove(r)
    BY <1>8, GotoType, StartType, BlankIsLocal DEF Remove, Label, RowsOK, ScaleRow
  <1>9. CASE Invite(r)
    <2>1. PICK row \in scales, e \in Email, k \in NewToken \cup NowToken :
             Goto(r, "createInvite", [Blank EXCEPT !.tenant = row.tenant,
                                        !.scale = row.id, !.email = e, !.token = k])
      BY <1>9 DEF Invite
    <2>2. k \in Token
      BY AccountsAssumption DEF NewToken, NowToken, SlotsOK, Ready, Local
    <2>3. row.tenant \in Tenant /\ row.id \in Scale
      BY DEF RowsOK, ScaleRow
    <2> DEFINE n == [Blank EXCEPT !.tenant = row.tenant, !.scale = row.id,
                                  !.email = e, !.token = k]
    <2>4. n \in Local /\ Ready("createInvite", n)
      BY <2>2, <2>3, StartType, BlankIsLocal
    <2>5. QED BY <2>1, <2>4, GotoType DEF Label
  <1>10. CASE AddTenant(r)
    BY <1>3, <1>10, GotoType DEF AddTenant, Label, Ready
  <1>11. CASE AddUser(r)
    <2>1. PICK u \in User \ usedUsers :
             Goto(r, "sign", [loc[r] EXCEPT !.user = u])
      BY <1>11 DEF AddUser
    <2>2. [loc[r] EXCEPT !.user = u] \in Local
      BY <1>3, LocalUpdate
    <2>3. Ready("sign", [loc[r] EXCEPT !.user = u])
      BY <1>3, <1>11, AccountsAssumption DEF AddUser, Ready, Local
    <2>4. QED BY <2>1, <2>2, <2>3, GotoType DEF Label
  <1>12. CASE FindInvited(r)
    BY <1>3, <1>12, GotoType, FinishType DEF FindInvited, Label, Ready
  <1>13. CASE AddInvitedUser(r)
    <2>1. PICK u \in User \ usedUsers :
             Goto(r, "markAccepted", [loc[r] EXCEPT !.user = u])
      BY <1>13 DEF AddInvitedUser
    <2>2. [loc[r] EXCEPT !.user = u] \in Local
      BY <1>3, LocalUpdate
    <2>3. Ready("markAccepted", [loc[r] EXCEPT !.user = u])
      BY <1>3, <1>13, AccountsAssumption DEF AddInvitedUser, Ready, Local
    <2>4. QED BY <2>1, <2>2, <2>3, GotoType DEF Label
  <1>14. CASE MarkInviteAccepted(r)
    BY <1>3, <1>14, GotoType DEF MarkInviteAccepted, Label, Ready
  <1>15. CASE TeamAdd(r)
    <2>1. PICK row \in Colleagues(r) :
             Goto(r, "addCollaborator", [loc[r] EXCEPT !.colleague = row.id])
      BY <1>15 DEF TeamAdd
    <2>2. row.id \in User
      BY DEF Colleagues, Found, RowsOK, UserRow
    <2>3. [loc[r] EXCEPT !.colleague = row.id] \in Local
      BY <1>3, <2>2, LocalUpdate
    <2>4. Ready("addCollaborator", [loc[r] EXCEPT !.colleague = row.id])
      BY <1>3, <1>15, <2>2, AccountsAssumption DEF TeamAdd, Ready, Local
    <2>5. QED BY <2>1, <2>3, <2>4, GotoType DEF Label
  <1>16. CASE TeamAddRefused(r) \/ AddCollaborator(r)
    <2>1. AfterTeam(r) /\ pc[r] \in {"teamAdd", "addCollaborator"}
      BY <1>16 DEF TeamAddRefused, AddCollaborator
    <2>2. CASE loc[r].token = NULL
      BY <2>1, <2>2, FinishType DEF AfterTeam
    <2>3. CASE loc[r].token # NULL
      BY <1>3, <2>1, <2>3, GotoType DEF AfterTeam, Ready, Label
    <2>4. QED BY <2>2, <2>3
  <1>17. CASE SignToken(r) \/ RemoveCollaborator(r) \/ CreateInvite(r)
    BY <1>17, FinishType DEF SignToken, RemoveCollaborator, CreateInvite
  <1>18. QED
    BY <1>2, <1>4, <1>5, <1>6, <1>7, <1>8, <1>9, <1>10, <1>11, <1>12, <1>13,
       <1>14, <1>15, <1>16, <1>17 DEF Arrive, Continue

-----------------------------------------------------------------------------
(* Every step keeps the tables' types and keys.                             *)

LEMMA MarkType ==
    ASSUME RowsOK, NEW k
    PROVE  \A inv \in invites :
              (IF inv.token = k THEN [inv EXCEPT !.accepted = TRUE] ELSE inv)
                 \in InviteRow
  BY DEF RowsOK, InviteRow

LEMMA RowsInduction ==
    ASSUME TypeOK, Next
    PROVE  RowsOK'
  <1> USE DEF TypeOK
  <1>1. CASE Expire
    BY <1>1 DEF Expire, RowsOK, InviteRow, tables, ids
  <1>2. SUFFICES ASSUME NEW r \in Slot, Arrive(r) \/ Continue(r)
                 PROVE  RowsOK'
    BY <1>1 DEF Next
  <1>3. loc[r] \in Local /\ Ready(pc[r], loc[r])
    BY DEF SlotsOK
  <1>4. CASE Register(r)
    BY <1>4 DEF Register, RowsOK, tables
  <1>5. CASE Login(r)
    BY <1>5 DEF Login, RowsOK, UserRow, AuthToken, tables, ids
  <1>6. CASE Accept(r) \/ AskAddCollaborator(r) \/ Remove(r) \/ FindInvited(r)
             \/ TeamAdd(r) \/ TeamAddRefused(r)
    BY <1>6 DEF Accept, AskAddCollaborator, Remove, FindInvited, TeamAdd,
                TeamAddRefused, RowsOK, tables, ids
  <1>7. CASE Invite(r)
    BY <1>3, <1>7, AccountsAssumption
       DEF Invite, RowsOK, tables, NewToken, NowToken, SlotsOK, Ready, Local
  <1>8. CASE CreateScale(r)
    BY <1>8 DEF CreateScale, RowsOK, ScaleRow, AuthToken, ids
  <1>9. CASE DeleteScale(r)
    BY <1>9 DEF DeleteScale, RowsOK, ids
  <1>10. CASE AddTenant(r)
    <2>1. loc[r].tenant \in Tenant /\ loc[r].email.address \in Address
      BY <1>3, <1>10 DEF AddTenant, Ready, Local, Email
    <2>2. QED BY <1>10, <2>1 DEF AddTenant, RowsOK, ids
  <1>11. CASE AddUser(r) \/ AddInvitedUser(r)
    <2>1. loc[r].tenant \in Tenant /\ loc[r].email \in Email
      BY <1>3, <1>11 DEF AddUser, AddInvitedUser, Ready, Local
    <2>2. PICK u \in User \ usedUsers :
             /\ usedUsers' = usedUsers \cup {u}
             /\ InsertUser([id |-> u, email |-> loc[r].email,
                            tenant |-> loc[r].tenant])
      BY <1>11 DEF AddUser, AddInvitedUser
    <2>3. users' \subseteq UserRow
      BY <2>1, <2>2 DEF InsertUser, RowsOK, UserRow
    <2>4. QED BY <1>11, <2>2, <2>3 DEF AddUser, AddInvitedUser, RowsOK
  <1>12. CASE SignToken(r)
    BY <1>3, <1>12 DEF SignToken, Ready, Local, RowsOK, AuthToken, tables, ids
  <1>13. CASE MarkInviteAccepted(r)
    <2>1. invites' \subseteq InviteRow
      BY <1>13, MarkType DEF MarkInviteAccepted
    <2>2. QED BY <1>13, <2>1 DEF MarkInviteAccepted, RowsOK, ids
  <1>14. CASE AddCollaborator(r)
    BY <1>3, <1>14 DEF AddCollaborator, Ready, Local, RowsOK, CollaboratorRow, ids
  <1>15. CASE RemoveCollaborator(r)
    BY <1>15 DEF RemoveCollaborator, RowsOK, ids
  <1>16. CASE CreateInvite(r)
    <2>1. /\ loc[r].tenant \in Tenant /\ loc[r].email \in Email
          /\ loc[r].scale \in Scale /\ loc[r].token \in Token
      BY <1>3, <1>16 DEF CreateInvite, Ready, Local
    <2>2. loc[r].email.address \in Address
      BY <2>1 DEF Email
    <2>3. NewInvite(r) \in InviteRow
      BY <2>1 DEF NewInvite, InviteRow
    <2>4. QED BY <1>16, <2>2, <2>1, <2>3 DEF CreateInvite, RowsOK, ids
  <1>17. QED
    BY <1>2, <1>4, <1>5, <1>6, <1>7, <1>8, <1>9, <1>10, <1>11, <1>12, <1>13,
       <1>14, <1>15, <1>16 DEF Arrive, Continue

LEMMA KeysInduction ==
    ASSUME TypeOK, Next
    PROVE  KeysOK'
  <1> USE DEF TypeOK
  <1>1. CASE UNCHANGED <<users, scales, invites, usedUsers, owned>>
    BY <1>1 DEF KeysOK
  <1>2. ASSUME NEW r \in Slot, AddUser(r) \/ AddInvitedUser(r)
        PROVE  KeysOK'
    <2>1. PICK u \in User \ usedUsers :
             /\ usedUsers' = usedUsers \cup {u}
             /\ InsertUser([id |-> u, email |-> loc[r].email,
                            tenant |-> loc[r].tenant])
      BY <1>2 DEF AddUser, AddInvitedUser
    <2>2. UNCHANGED <<scales, invites, owned>>
      BY <1>2 DEF AddUser, AddInvitedUser
    <2>3. QED BY <2>1, <2>2 DEF InsertUser, KeysOK
  <1>3. ASSUME NEW r \in Slot, CreateScale(r) \/ DeleteScale(r)
        PROVE  KeysOK'
    BY <1>3 DEF CreateScale, DeleteScale, KeysOK, ids
  <1>4. ASSUME NEW r \in Slot, CreateInvite(r)
        PROVE  KeysOK'
    <2>1. \/ UNCHANGED invites
          \/ /\ invites' = invites \cup {NewInvite(r)}
             /\ \A inv \in invites : inv.token # NewInvite(r).token
      BY <1>4 DEF CreateInvite, InviteRefused, NewInvite
    <2>2. UNCHANGED <<users, scales, usedUsers, owned>>
      BY <1>4 DEF CreateInvite, ids
    <2>3. QED BY <2>1, <2>2 DEF KeysOK
  <1>5. ASSUME NEW r \in Slot, MarkInviteAccepted(r)
        PROVE  KeysOK'
    <2>1. ASSUME NEW inv \in invites'
          PROVE  \E old \in invites :
                    /\ inv = IF old.token = loc[r].token
                             THEN [old EXCEPT !.accepted = TRUE] ELSE old
                    /\ inv.token = old.token
      BY <1>5 DEF MarkInviteAccepted, RowsOK, InviteRow
    <2>2. ASSUME NEW i \in invites', NEW j \in invites', i.token = j.token
          PROVE  i = j
      <3>1. PICK a \in invites :
               /\ i = IF a.token = loc[r].token
                      THEN [a EXCEPT !.accepted = TRUE] ELSE a
               /\ i.token = a.token
        BY <2>1
      <3>2. PICK b \in invites :
               /\ j = IF b.token = loc[r].token
                      THEN [b EXCEPT !.accepted = TRUE] ELSE b
               /\ j.token = b.token
        BY <2>1
      <3>3. a = b
        BY <2>2, <3>1, <3>2 DEF KeysOK
      <3>4. QED BY <3>1, <3>2, <3>3
    <2>3. UNCHANGED <<users, scales, usedUsers, owned>>
      BY <1>5 DEF MarkInviteAccepted, ids
    <2>4. QED BY <2>2, <2>3 DEF KeysOK
  <1>6. CASE Expire
    BY <1>1, <1>6 DEF Expire, tables, ids
  <1>7. ASSUME NEW r \in Slot,
               Register(r) \/ Accept(r) \/ Login(r) \/ AskAddCollaborator(r)
               \/ Remove(r) \/ Invite(r) \/ AddTenant(r) \/ SignToken(r)
               \/ FindInvited(r) \/ TeamAdd(r) \/ TeamAddRefused(r)
               \/ AddCollaborator(r) \/ RemoveCollaborator(r)
        PROVE  KeysOK'
    BY <1>1, <1>7 DEF Register, Accept, Login, AskAddCollaborator, Remove,
       Invite, AddTenant, SignToken, FindInvited, TeamAdd, TeamAddRefused,
       AddCollaborator, RemoveCollaborator, tables, ids
  <1>8. QED
    BY <1>2, <1>3, <1>4, <1>5, <1>6, <1>7 DEF Next, Arrive, Continue

LEMMA InitType == Init => TypeOK
  <1> SUFFICES ASSUME Init PROVE TypeOK
    OBVIOUS
  <1>1. SlotsOK
    BY BlankIsLocal DEF Init, SlotsOK, Label, Ready
  <1>2. RowsOK
    BY DEF Init, RowsOK, UserRow, ScaleRow, AuthToken, Email
  <1>3. KeysOK
    BY DEF Init, KeysOK
  <1>4. QED BY <1>1, <1>2, <1>3 DEF TypeOK

LEMMA StutterType == TypeOK /\ UNCHANGED vars => TypeOK'
  BY DEF TypeOK, SlotsOK, Ready, RowsOK, KeysOK, vars, tables, ids

(* Every reachable state has well-typed rows with unique keys, and every    *)
(* request in progress holds what its next store call takes, for any number *)
(* of concurrent requests of any kind.                                      *)
THEOREM AccountsTyped == Spec => []TypeOK
  <1>1. TypeOK /\ Next => TypeOK'
    BY SlotsInduction, RowsInduction, KeysInduction DEF TypeOK
  <1>2. QED BY <1>1, InitType, StutterType, PTL DEF Spec

-----------------------------------------------------------------------------
(* Nobody gets into a tenant uninvited.                                     *)

(* What Goto does to the requests. *)
LEMMA GotoSlots ==
    ASSUME SlotsOK, NEW r \in Slot, NEW label, NEW local, Goto(r, label, local)
    PROVE  \A q \in Slot :
              /\ pc'[q] = IF q = r THEN label ELSE pc[q]
              /\ loc'[q] = IF q = r THEN local ELSE loc[q]
  BY DEF SlotsOK, Goto

Admitting == {"addUser", "find", "addInvited"}

(* A request that goes on with an address entitled to its tenant, while     *)
(* users and invitations stay, keeps Admission.                             *)
LEMMA AdmissionGoto ==
    ASSUME TypeOK, Admission, NEW r \in Slot, NEW label, NEW local,
           Goto(r, label, local),
           label \in Admitting => Card(local) \in members',
           members \subseteq members', UNCHANGED <<users, invites>>
    PROVE  Admission'
  <1>1. \A q \in Slot :
           /\ pc'[q] = IF q = r THEN label ELSE pc[q]
           /\ loc'[q] = IF q = r THEN local ELSE loc[q]
    BY GotoSlots DEF TypeOK
  <1>2. NoUninvitedMembers'
    BY DEF Admission, NoUninvitedMembers
  <1>3. \A inv \in invites' : Card(inv) \in members'
    BY DEF Admission
  <1>4. \A q \in Slot : pc'[q] \in Admitting => Card(loc'[q]) \in members'
    BY <1>1 DEF Admission, Admitting
  <1>5. QED BY <1>2, <1>3, <1>4 DEF Admission, Admitting

LEMMA AdmissionInduction ==
    ASSUME TypeOK, Admission, Next
    PROVE  Admission'
  <1>1. CASE Expire
    BY <1>1 DEF Expire, tables, Admission, NoUninvitedMembers
  <1>2. SUFFICES ASSUME NEW r \in Slot, Arrive(r) \/ Continue(r)
                 PROVE  Admission'
    BY <1>1 DEF Next
  <1>3. CASE Register(r)
    BY <1>3, AdmissionGoto DEF Register, Admitting, tables
  <1>4. CASE Accept(r)
    <2>1. PICK inv \in invites, e \in Email :
             /\ Same(e, inv.email)
             /\ Goto(r, "find", [Blank EXCEPT !.email = e, !.tenant = inv.tenant,
                                           !.scale = inv.scale, !.token = inv.token])
      BY <1>4 DEF Accept
    <2> DEFINE n == [Blank EXCEPT !.email = e, !.tenant = inv.tenant,
                                  !.scale = inv.scale, !.token = inv.token]
    <2>2. Card(n) = Card(inv)
      BY <2>1 DEF Blank, Card, Same
    <2>3. UNCHANGED <<users, invites, members>>
      BY <1>4 DEF Accept, tables
    <2>4. Card(n) \in members'
      BY <2>2, <2>3 DEF Admission
    <2>5. QED BY <2>1, <2>3, <2>4, AdmissionGoto
  <1>5. CASE Login(r) \/ CreateScale(r) \/ DeleteScale(r)
    BY <1>5 DEF Login, CreateScale, DeleteScale, tables, Admission,
                NoUninvitedMembers
  <1>6. CASE \/ AskAddCollaborator(r) \/ Remove(r) \/ Invite(r) \/ SignToken(r)
             \/ TeamAdd(r) \/ TeamAddRefused(r) \/ AddCollaborator(r)
             \/ RemoveCollaborator(r)
    <2>1. UNCHANGED <<users, invites, members>>
      BY <1>6 DEF AskAddCollaborator, Remove, Invite, SignToken, TeamAdd,
                  TeamAddRefused, AddCollaborator, RemoveCollaborator, tables
    <2>2. \E label \in Label \ {"addUser", "find", "addInvited"} :
             \E local : Goto(r, label, local)
      BY <1>6 DEF AskAddCollaborator, Remove, Invite, SignToken, TeamAdd,
                  TeamAddRefused, AddCollaborator, RemoveCollaborator, AfterTeam,
                  Finish, Label
    <2>3. QED BY <2>1, <2>2, AdmissionGoto DEF Admitting
  <1>7. CASE AddTenant(r)
    BY <1>7, AdmissionGoto DEF AddTenant, Card
  <1>8. CASE AddUser(r) \/ AddInvitedUser(r)
    <2>1. PICK u \in User, label \in {"sign", "markAccepted"} :
             /\ InsertUser([id |-> u, email |-> loc[r].email,
                            tenant |-> loc[r].tenant])
             /\ Goto(r, label, [loc[r] EXCEPT !.user = u])
      BY <1>8 DEF AddUser, AddInvitedUser
    <2>2. UNCHANGED <<invites, members>>
      BY <1>8 DEF AddUser, AddInvitedUser
    <2>3. Card(loc[r]) \in members
      BY <1>8 DEF AddUser, AddInvitedUser, Admission
    <2> DEFINE row == [id |-> u, email |-> loc[r].email, tenant |-> loc[r].tenant]
    <2>4. Card(row) = Card(loc[r]) /\ users' \subseteq users \cup {row}
      BY <2>1 DEF InsertUser, Card
    <2> HIDE DEF row
    <2>5. NoUninvitedMembers'
      BY <2>2, <2>3, <2>4 DEF Admission, NoUninvitedMembers
    <2>6. \A q \in Slot : pc'[q] \in Admitting => pc'[q] = pc[q] /\ loc'[q] = loc[q]
      BY <2>1, GotoSlots DEF TypeOK, Admitting
    <2>7. QED BY <2>2, <2>5, <2>6 DEF Admission, Admitting
  <1>9. CASE FindInvited(r)
    <2>1. UNCHANGED <<users, invites, members>>
      BY <1>9 DEF FindInvited, tables
    <2>2. Card(loc[r]) \in members'
      BY <1>9, <2>1 DEF FindInvited, Admission
    <2>3. Goto(r, "addInvited", loc[r]) \/ Goto(r, "idle", Blank)
      BY <1>9 DEF FindInvited, Finish
    <2>4. QED BY <2>1, <2>2, <2>3, AdmissionGoto DEF Admitting
  <1>10. CASE MarkInviteAccepted(r)
    <2>1. UNCHANGED <<users, members>> /\ Goto(r, "teamAdd", loc[r])
      BY <1>10 DEF MarkInviteAccepted
    <2>2. ASSUME NEW old \in invites
          PROVE  Card([old EXCEPT !.accepted = TRUE]) = Card(old)
      BY DEF TypeOK, RowsOK, InviteRow, Card
    <2>3. \A inv \in invites' : \E old \in invites : Card(inv) = Card(old)
      BY <1>10, <2>2 DEF MarkInviteAccepted
    <2>4. \A q \in Slot : pc'[q] \in Admitting => pc'[q] = pc[q] /\ loc'[q] = loc[q]
      BY <2>1, GotoSlots DEF TypeOK, Admitting
    <2>5. \A inv \in invites' : Card(inv) \in members'
      BY <2>1, <2>3 DEF Admission
    <2>6. NoUninvitedMembers'
      BY <2>1 DEF Admission, NoUninvitedMembers
    <2>7. QED BY <2>1, <2>4, <2>5, <2>6 DEF Admission, Admitting
  <1>11. CASE CreateInvite(r)
    <2>1. UNCHANGED users /\ members \subseteq members' /\ Finish(r)
      BY <1>11 DEF CreateInvite
    <2>2. \/ UNCHANGED invites
          \/ /\ invites' = invites \cup {NewInvite(r)}
             /\ Card(loc[r]) \in members'
      <3>1. PICK fk \in FkModes :
               \/ InviteRefused(r, fk) /\ UNCHANGED <<invites, members>>
               \/ /\ invites' = invites \cup {NewInvite(r)}
                  /\ members' = members \cup {Card(loc[r])}
        BY <1>11 DEF CreateInvite, Card
      <3>2. QED BY <3>1
    <2>3. Card(NewInvite(r)) = Card(loc[r])
      BY DEF NewInvite, Card
    <2>4. \A inv \in invites' : Card(inv) \in members'
      BY <2>1, <2>2, <2>3 DEF Admission
    <2>5. NoUninvitedMembers'
      BY <2>1 DEF Admission, NoUninvitedMembers
    <2>6. \A q \in Slot : pc'[q] \in Admitting => pc'[q] = pc[q] /\ loc'[q] = loc[q]
      BY <2>1, GotoSlots DEF TypeOK, Finish, Admitting
    <2>7. QED BY <2>1, <2>4, <2>5, <2>6 DEF Admission, Admitting
  <1>12. QED
    BY <1>2, <1>3, <1>4, <1>5, <1>6, <1>7, <1>8, <1>9, <1>10, <1>11
       DEF Arrive, Continue

(* Only the founder of a tenant and those invited to it ever get an account *)
(* in it, whatever registrations, invitations and expirations overlap.      *)
THEOREM NobodyUninvited == Spec => []NoUninvitedMembers
  <1>1. Init => Admission
    BY DEF Init, Admission, NoUninvitedMembers, Card
  <1>2. TypeOK /\ Admission /\ [Next]_vars => Admission'
    BY AdmissionInduction
       DEF vars, tables, Admission, NoUninvitedMembers
  <1>3. Admission => NoUninvitedMembers
    BY DEF Admission
  <1>4. QED BY <1>1, <1>2, <1>3, AccountsTyped, PTL DEF Spec

-----------------------------------------------------------------------------
(* A collaborator is of a tenant of the scale.                              *)

(* Nothing is checked again while no user is added and no collaborator.     *)
LEMMA ColleagueshipGoto ==
    ASSUME TypeOK, Colleagueship, NEW r \in Slot, NEW label, NEW local,
           Goto(r, label, local), label # "addCollaborator",
           owned \subseteq owned', collaborators' \subseteq collaborators,
           UNCHANGED <<users, usedUsers>>
    PROVE  Colleagueship'
  <1>1. \A q \in Slot :
           /\ pc'[q] = IF q = r THEN label ELSE pc[q]
           /\ loc'[q] = IF q = r THEN local ELSE loc[q]
    BY GotoSlots DEF TypeOK
  <1>2. \A q \in Slot : pc'[q] = "addCollaborator" => Chosen(loc[q])' /\ loc'[q] = loc[q]
    BY <1>1 DEF Colleagueship, Chosen
  <1>3. QED BY <1>2 DEF Colleagueship, CollaboratorsInTenant

LEMMA ColleagueshipInduction ==
    ASSUME TypeOK, Colleagueship, Next
    PROVE  Colleagueship'
  <1>1. CASE Expire
    BY <1>1 DEF Expire, tables, ids, Colleagueship, CollaboratorsInTenant, Chosen
  <1>2. SUFFICES ASSUME NEW r \in Slot, Arrive(r) \/ Continue(r)
                 PROVE  Colleagueship'
    BY <1>1 DEF Next
  <1>3. CASE Login(r) \/ DeleteScale(r) \/ CreateScale(r)
    <2>1. /\ owned \subseteq owned' /\ collaborators' \subseteq collaborators
          /\ UNCHANGED <<users, usedUsers, pc, loc>>
      BY <1>3 DEF Login, DeleteScale, CreateScale, tables, ids
    <2>2. QED BY <2>1 DEF Colleagueship, CollaboratorsInTenant, Chosen
  <1>4. CASE \/ Register(r) \/ Accept(r) \/ AskAddCollaborator(r) \/ Remove(r)
             \/ Invite(r) \/ AddTenant(r) \/ SignToken(r) \/ FindInvited(r)
             \/ MarkInviteAccepted(r) \/ TeamAddRefused(r)
             \/ RemoveCollaborator(r) \/ CreateInvite(r)
    <2>1. /\ owned \subseteq owned' /\ collaborators' \subseteq collaborators
          /\ UNCHANGED <<users, usedUsers>>
      BY <1>4 DEF Register, Accept, AskAddCollaborator, Remove, Invite, AddTenant,
         SignToken, FindInvited, MarkInviteAccepted, TeamAddRefused,
         RemoveCollaborator, CreateInvite, tables, ids
    <2>2. \E label \in Label \ {"addCollaborator"} :
             \E local : Goto(r, label, local)
      BY <1>4 DEF Register, Accept, AskAddCollaborator, Remove, Invite, AddTenant,
         SignToken, FindInvited, MarkInviteAccepted, TeamAddRefused, AfterTeam,
         RemoveCollaborator, CreateInvite, Finish, Label
    <2>3. QED BY <2>1, <2>2, ColleagueshipGoto
  <1>5. CASE AddUser(r) \/ AddInvitedUser(r)
    <2>1. PICK u \in User \ usedUsers, label \in {"sign", "markAccepted"} :
             /\ usedUsers' = usedUsers \cup {u}
             /\ InsertUser([id |-> u, email |-> loc[r].email,
                            tenant |-> loc[r].tenant])
             /\ Goto(r, label, [loc[r] EXCEPT !.user = u])
      BY <1>5 DEF AddUser, AddInvitedUser
    <2>2. UNCHANGED <<scales, collaborators, owned>>
      BY <1>5 DEF AddUser, AddInvitedUser
    <2>3. users \subseteq users' /\ \A v \in users' : v \in users \/ v.id = u
      BY <2>1 DEF InsertUser
    <2>4. \A q \in Slot : pc'[q] = "addCollaborator" =>
             pc'[q] = pc[q] /\ loc'[q] = loc[q]
      BY <2>1, GotoSlots DEF TypeOK
    <2>5. CollaboratorsInTenant'
      BY <2>1, <2>2, <2>3 DEF Colleagueship, CollaboratorsInTenant
    <2>6. \A q \in Slot : pc'[q] = "addCollaborator" => Chosen(loc[q])'
      BY <2>2, <2>3, <2>4 DEF Colleagueship, Chosen
    <2>7. QED BY <2>1, <2>2, <2>5, <2>6 DEF Colleagueship
  <1>6. CASE TeamAdd(r)
    <2>1. PICK row \in Colleagues(r) :
             Goto(r, "addCollaborator", [loc[r] EXCEPT !.colleague = row.id])
      BY <1>6 DEF TeamAdd
    <2>2. UNCHANGED <<users, collaborators, usedUsers, owned>>
      BY <1>6 DEF TeamAdd, tables, ids
    <2> DEFINE n == [loc[r] EXCEPT !.colleague = row.id]
    <2>3. /\ n.colleague = row.id /\ n.tenant = loc[r].tenant
          /\ n.scale = loc[r].scale /\ n.email = loc[r].email
      BY DEF TypeOK, SlotsOK, Local
    <2>4. row \in users /\ row.tenant = loc[r].tenant /\ Same(row.email, loc[r].email)
      BY DEF Colleagues, Found
    <2>5. Chosen(n)
      <3>1. [id |-> loc[r].scale, tenant |-> loc[r].tenant] \in owned
        BY <1>6 DEF TeamAdd, OfTenant, TypeOK, KeysOK
      <3>2. Card(row) = Card(n)
        BY <2>3, <2>4 DEF Card, Same
      <3>3. QED BY <2>3, <2>4, <3>1, <3>2 DEF Chosen
    <2>6. \A q \in Slot :
             /\ pc'[q] = IF q = r THEN "addCollaborator" ELSE pc[q]
             /\ loc'[q] = IF q = r THEN n ELSE loc[q]
      BY <2>1, GotoSlots DEF TypeOK
    <2> HIDE DEF n
    <2>7. \A q \in Slot : pc'[q] = "addCollaborator" => Chosen(loc'[q])
      BY <2>5, <2>6 DEF Colleagueship
    <2>8. \A q \in Slot : pc'[q] = "addCollaborator" => Chosen(loc[q])'
      BY <2>2, <2>7 DEF Chosen
    <2>9. QED BY <2>2, <2>8 DEF Colleagueship, CollaboratorsInTenant
  <1>7. CASE AddCollaborator(r)
    <2>1. Chosen(loc[r])
      BY <1>7 DEF AddCollaborator, Colleagueship
    <2>2. UNCHANGED <<users, usedUsers, owned>>
      BY <1>7 DEF AddCollaborator, ids
    <2>3. collaborators' \subseteq
             collaborators \cup {[scale |-> loc[r].scale, user |-> loc[r].colleague]}
      BY <1>7 DEF AddCollaborator
    <2>4. PICK row \in users : /\ row.id = loc[r].colleague /\ row.id \in usedUsers
                               /\ row.tenant = loc[r].tenant
                               /\ \A u \in users : u.id = row.id => u = row
      BY <2>1 DEF Chosen, Card, TypeOK, KeysOK
    <2>5. CollaboratorsInTenant'
      BY <2>1, <2>2, <2>3, <2>4 DEF Colleagueship, CollaboratorsInTenant, Chosen
    <2>6. \A c \in collaborators' : c.user \in usedUsers'
      BY <2>2, <2>3, <2>4 DEF Colleagueship
    <2>7. Goto(r, "idle", Blank) \/ Goto(r, "sign", loc[r])
      BY <1>7 DEF AddCollaborator, AfterTeam, Finish
    <2>8. \A q \in Slot : pc'[q] = "addCollaborator" =>
             pc'[q] = pc[q] /\ loc'[q] = loc[q]
      BY <2>7, GotoSlots DEF TypeOK
    <2>9. \A q \in Slot : pc'[q] = "addCollaborator" => Chosen(loc[q])'
      BY <2>2, <2>8 DEF Colleagueship, Chosen
    <2>10. QED BY <2>5, <2>6, <2>9 DEF Colleagueship
  <1>8. QED
    BY <1>2, <1>3, <1>4, <1>5, <1>6, <1>7 DEF Arrive, Continue

LEMMA ColleagueshipStarts == Init => Colleagueship
  BY DEF Init, Colleagueship, CollaboratorsInTenant

LEMMA ColleagueshipKept == TypeOK /\ Colleagueship /\ [Next]_vars => Colleagueship'
  BY ColleagueshipInduction
     DEF vars, tables, ids, Colleagueship, CollaboratorsInTenant, Chosen

(* A collaborator is of a tenant the scale belongs to or belonged to, with  *)
(* or without foreign keys and whatever requests overlap: he comes to a     *)
(* scale of another tenant only with an id that was taken again.            *)
THEOREM ColleaguesOnly == Spec => []CollaboratorsInTenant
  <1>1. Colleagueship => CollaboratorsInTenant
    BY DEF Colleagueship
  <1>2. QED
    BY <1>1, ColleagueshipStarts, ColleagueshipKept, AccountsTyped, PTL DEF Spec

-----------------------------------------------------------------------------
(* An invited registration joins.                                           *)

(* Accounts are not removed: only the request that goes on has to be looked *)
(* at.                                                                      *)
LEMMA InvitedGoto ==
    ASSUME TypeOK, Invited, NEW r \in Slot, NEW label, NEW local,
           Goto(r, label, local), users \subseteq users',
           label \in {"addTenant", "addUser"} => local.token = NULL,
           label = "markAccepted" \/ (label \in {"teamAdd", "addCollaborator"}
                                       /\ local.token # NULL)
              => \E row \in users' : Same(row.email, local.email)
    PROVE  Invited'
  <1>1. \A q \in Slot :
           /\ pc'[q] = IF q = r THEN label ELSE pc[q]
           /\ loc'[q] = IF q = r THEN local ELSE loc[q]
    BY GotoSlots DEF TypeOK
  <1>2. \A e : Found(e) # {} => \E row \in users' : Same(row.email, e)
    BY DEF Found
  <1>3. ASSUME NEW q \in Slot
        PROVE  /\ pc'[q] \in {"addTenant", "addUser"} => loc'[q].token = NULL
               /\ pc'[q] = "markAccepted"
                  \/ (pc'[q] \in {"teamAdd", "addCollaborator"} /\ loc'[q].token # NULL)
                     => \E row \in users' : Same(row.email, loc'[q].email)
    <2>1. CASE q = r
      BY <1>1, <2>1
    <2>2. CASE q # r
      BY <1>1, <1>2, <2>2 DEF Invited
    <2>3. QED BY <2>1, <2>2
  <1>4. QED BY <1>3 DEF Invited, Found

LEMMA InvitedInduction ==
    ASSUME TypeOK, Invited, Next
    PROVE  Invited'
  <1>1. CASE Expire
    BY <1>1 DEF Expire, tables, Invited, Found
  <1>2. SUFFICES ASSUME NEW r \in Slot, Arrive(r) \/ Continue(r)
                 PROVE  Invited'
    BY <1>1 DEF Next
  <1>3. CASE Login(r) \/ CreateScale(r) \/ DeleteScale(r)
    BY <1>3 DEF Login, CreateScale, DeleteScale, tables, Invited, Found
  <1>4. CASE Register(r)
    <2>1. PICK e \in Email, t \in Tenant :
             Goto(r, "addTenant", [Blank EXCEPT !.email = e, !.tenant = t])
      BY <1>4 DEF Register
    <2>2. [Blank EXCEPT !.email = e, !.tenant = t].token = NULL
      BY DEF Blank
    <2>3. QED BY <1>4, <2>1, <2>2, InvitedGoto DEF Register, tables
  <1>5. CASE AskAddCollaborator(r)
    <2>1. PICK a \in tokens, s \in Scale, e \in Email :
             Goto(r, "teamAdd", [Blank EXCEPT !.email = e, !.tenant = a.tenant,
                                              !.scale = s])
      BY <1>5 DEF AskAddCollaborator
    <2>2. [Blank EXCEPT !.email = e, !.tenant = a.tenant, !.scale = s].token = NULL
      BY DEF Blank
    <2>3. QED BY <1>5, <2>1, <2>2, InvitedGoto DEF AskAddCollaborator, tables
  <1>6. CASE \/ Accept(r) \/ Remove(r) \/ Invite(r) \/ SignToken(r)
             \/ FindInvited(r) \/ RemoveCollaborator(r) \/ CreateInvite(r)
             \/ TeamAddRefused(r) \/ AddCollaborator(r)
    <2>1. UNCHANGED users
      BY <1>6 DEF Accept, Remove, Invite, SignToken, FindInvited, TeamAddRefused,
                  RemoveCollaborator, CreateInvite, AddCollaborator, tables
    <2>2. \E label \in {"find", "removeCollaborator", "createInvite", "idle",
                        "addInvited", "sign"} :
             \E local : Goto(r, label, local)
      BY <1>6 DEF Accept, Remove, Invite, SignToken, FindInvited, TeamAddRefused,
                  RemoveCollaborator, CreateInvite, AddCollaborator, AfterTeam, Finish
    <2>3. QED BY <2>1, <2>2, InvitedGoto
  <1>7. CASE AddTenant(r)
    <2>1. /\ Goto(r, "addUser", loc[r]) /\ UNCHANGED users
          /\ loc[r].token = NULL
      BY <1>7 DEF AddTenant, Invited
    <2>2. QED BY <2>1, InvitedGoto
  <1>8. CASE AddUser(r)
    <2>1. PICK u \in User : /\ Goto(r, "sign", [loc[r] EXCEPT !.user = u])
                            /\ users \subseteq users'
      BY <1>8 DEF AddUser, InsertUser
    <2>2. QED BY <2>1, InvitedGoto
  <1>9. CASE AddInvitedUser(r)
    <2>1. PICK u \in User :
             /\ InsertUser([id |-> u, email |-> loc[r].email, tenant |-> loc[r].tenant])
             /\ Goto(r, "markAccepted", [loc[r] EXCEPT !.user = u])
      BY <1>9 DEF AddInvitedUser
    <2>2. /\ users \subseteq users'
          /\ \E row \in users' : row.email = loc[r].email
      <3> DEFINE new == [id |-> u, email |-> loc[r].email, tenant |-> loc[r].tenant]
      <3>1. new.email = loc[r].email
        OBVIOUS
      <3> HIDE DEF new
      <3>2. InsertUser(new)
        BY <2>1 DEF new
      <3>3. QED BY <3>1, <3>2 DEF InsertUser
    <2> DEFINE n == [loc[r] EXCEPT !.user = u]
    <2>3. n.email = loc[r].email
      BY DEF TypeOK, SlotsOK, Local
    <2> HIDE DEF n
    <2>4. Goto(r, "markAccepted", n)
      BY <2>1 DEF n
    <2>5. \E row \in users' : Same(row.email, n.email)
      BY <2>2, <2>3 DEF Same
    <2>6. QED BY <2>2, <2>4, <2>5, InvitedGoto
  <1>10. CASE MarkInviteAccepted(r)
    <2>1. Goto(r, "teamAdd", loc[r]) /\ UNCHANGED users /\ Found(loc[r].email) # {}
      BY <1>10 DEF MarkInviteAccepted, Invited
    <2>2. QED BY <2>1, InvitedGoto DEF Found
  <1>11. CASE TeamAdd(r)
    <2>1. PICK row \in Colleagues(r) :
             Goto(r, "addCollaborator", [loc[r] EXCEPT !.colleague = row.id])
      BY <1>11 DEF TeamAdd
    <2>2. UNCHANGED users
      BY <1>11 DEF TeamAdd, tables
    <2> DEFINE n == [loc[r] EXCEPT !.colleague = row.id]
    <2>3. n.email = loc[r].email
      BY DEF TypeOK, SlotsOK, Local
    <2> HIDE DEF n
    <2>4. Goto(r, "addCollaborator", n)
      BY <2>1 DEF n
    <2>5. \E found \in users' : Same(found.email, n.email)
      BY <2>2, <2>3 DEF Colleagues, Found
    <2>6. QED BY <2>2, <2>4, <2>5, InvitedGoto
  <1>12. QED
    BY <1>2, <1>3, <1>4, <1>5, <1>6, <1>7, <1>8, <1>9, <1>10, <1>11
       DEF Arrive, Continue

(* An invited registration that comes to be answered. *)
LEMMA AnsweredJoins ==
    ASSUME TypeOK, Colleagueship, Invited, Next, NEW r \in Slot,
           pc[r] # "sign", pc'[r] = "sign", loc'[r].token # NULL
    PROVE  \/ Joined(loc[r])'
           \/ ~OfTenant(loc[r].scale, loc[r].tenant)'
           \/ \E row \in users' : /\ Same(row.email, loc[r].email)
                                  /\ row.tenant # loc[r].tenant
  <1>1. TeamAddRefused(r) \/ AddCollaborator(r)
    <2>1. PICK q \in Slot : Arrive(q) \/ Continue(q)
      <3>1. CASE Expire
        BY <3>1 DEF Expire
      <3>2. QED BY <3>1 DEF Next
    <2>2. CASE Login(q) \/ CreateScale(q) \/ DeleteScale(q)
      BY <2>2 DEF Login, CreateScale, DeleteScale
    <2>3. ASSUME NEW label, NEW local, Goto(q, label, local), label # "sign"
          PROVE  FALSE
      BY <2>3, GotoSlots DEF TypeOK
    <2>4. CASE \/ Register(q) \/ Accept(q) \/ AskAddCollaborator(q) \/ Remove(q)
               \/ Invite(q) \/ AddTenant(q) \/ SignToken(q) \/ FindInvited(q)
               \/ AddInvitedUser(q) \/ MarkInviteAccepted(q) \/ TeamAdd(q)
               \/ RemoveCollaborator(q) \/ CreateInvite(q)
      <3>1. \E label \in Label \ {"sign"} : \E local : Goto(q, label, local)
        BY <2>4 DEF Register, Accept, AskAddCollaborator, Remove, Invite, AddTenant,
           SignToken, FindInvited, AddInvitedUser, MarkInviteAccepted, TeamAdd,
           RemoveCollaborator, CreateInvite, Finish, Label
      <3>2. QED BY <2>3, <3>1
    <2>5. CASE AddUser(q)
      <3>1. PICK u \in User : Goto(q, "sign", [loc[q] EXCEPT !.user = u])
        BY <2>5 DEF AddUser
      <3> DEFINE n == [loc[q] EXCEPT !.user = u]
      <3>2. n.token = loc[q].token
        BY DEF TypeOK, SlotsOK, Local
      <3>3. loc[q].token = NULL
        BY <2>5 DEF AddUser, Invited
      <3> HIDE DEF n
      <3>4. q = r /\ loc'[q] = n
        BY <3>1, GotoSlots DEF TypeOK, n
      <3>5. QED BY <3>2, <3>3, <3>4
    <2>6. CASE TeamAddRefused(q) \/ AddCollaborator(q)
      <3>1. Goto(q, "idle", Blank) \/ Goto(q, "sign", loc[q])
        BY <2>6 DEF TeamAddRefused, AddCollaborator, AfterTeam, Finish
      <3>2. q = r
        BY <3>1, GotoSlots DEF TypeOK
      <3>3. QED BY <2>6, <3>2
    <2>7. QED
      BY <2>1, <2>2, <2>4, <2>5, <2>6 DEF Arrive, Continue
  <1>2. loc'[r] = loc[r]
    <2>1. Goto(r, "idle", Blank) \/ Goto(r, "sign", loc[r])
      BY <1>1 DEF TeamAddRefused, AddCollaborator, AfterTeam, Finish
    <2>2. QED BY <2>1, GotoSlots DEF TypeOK
  <1>3. UNCHANGED <<users, scales>>
    BY <1>1 DEF TeamAddRefused, AddCollaborator, tables
  <1>4. CASE TeamAddRefused(r)
    <2>1. CASE ~OfTenant(loc[r].scale, loc[r].tenant)
      BY <1>2, <1>3, <2>1 DEF OfTenant
    <2>2. CASE Found(loc[r].email) = {}
      BY <1>2, <1>4, <2>2 DEF TeamAddRefused, Invited
    <2>3. CASE Found(loc[r].email) \ Colleagues(r) # {}
      BY <1>3, <2>3 DEF Found, Colleagues
    <2>4. QED BY <1>4, <2>1, <2>2, <2>3 DEF TeamAddRefused
  <1>5. CASE AddCollaborator(r)
    <2>1. PICK row \in users : row.id = loc[r].colleague /\ Card(row) = Card(loc[r])
      BY <1>5 DEF AddCollaborator, Colleagueship, Chosen
    <2>2. \/ \A s \in scales : s.id # loc[r].scale
          \/ [scale |-> loc[r].scale, user |-> row.id] \in collaborators'
      BY <1>5, <2>1 DEF AddCollaborator
    <2>3. CASE \A s \in scales : s.id # loc[r].scale
      BY <1>2, <1>3, <2>3 DEF OfTenant
    <2>4. CASE [scale |-> loc[r].scale, user |-> row.id] \in collaborators'
      BY <1>2, <1>3, <2>1, <2>4 DEF Joined, Card
    <2>5. QED BY <2>2, <2>3, <2>4
  <1>6. QED BY <1>1, <1>4, <1>5

(* A registration by invitation is answered with an account of its address  *)
(* among the collaborators, unless the scale is gone or another tenant has  *)
(* an account of the address, whatever else runs at the same time.          *)
THEOREM InvitedJoin == Spec => InviteeJoins
  <1>1. Init => Invited
    BY DEF Init, Invited
  <1>2. TypeOK /\ Invited /\ [Next]_vars => Invited'
    BY InvitedInduction DEF vars, tables, Invited, Found
  <1>3. TypeOK /\ Colleagueship /\ Invited /\ Next =>
           \A r \in Slot :
              pc[r] # "sign" /\ pc'[r] = "sign" /\ loc'[r].token # NULL =>
                \/ Joined(loc[r])'
                \/ ~OfTenant(loc[r].scale, loc[r].tenant)'
                \/ \E row \in users' : /\ Same(row.email, loc[r].email)
                                       /\ row.tenant # loc[r].tenant
    BY AnsweredJoins
  <1>4. QED
    BY <1>1, <1>2, <1>3, ColleagueshipStarts, ColleagueshipKept, AccountsTyped, PTL
       DEF Spec, InviteeJoins
=============================================================================
