-------------------------- MODULE AdminPagesProofs --------------------------
(***************************************************************************)
(* Theorems about the three parts of the administrator's browser, for any  *)
(* number of tabs, requests and visits, each of the part alone and beside  *)
(* the other pages.                                                        *)
(***************************************************************************)
EXTENDS AdminPages, TLAPS, WellFoundedInduction

-----------------------------------------------------------------------------
(* Session: a guarded page is shown only to who was signed in during the    *)
(* visit, or for a moment to who was during the one before.                 *)

(* What the answers of a check may rest on.                                 *)
Backed(c) ==
    /\ c.visit <= visit[c.tab]
    /\ c.reply = "yes" =>
         /\ c.visit = visit[c.tab] => wasIn[c.tab]
         /\ c.visit = visit[c.tab] - 1 => wasIn[c.tab] \/ wasInBefore[c.tab]

(* A fresh gate is a state of the hook, and is closed.                      *)
LEMMA MountedIsClosed ==
    ASSUME NEW v \in 0..MaxVisits
    PROVE  Mounted(v) \in HookState /\ Mounted(v).loading
BY DEF Mounted, HookState

(* Initially nothing is confirmed and nothing is answered.                  *)
LEMMA SessionStarts == SessionInit => SessionTypeOK /\ Confirmed
<1> SUFFICES ASSUME SessionInit PROVE SessionTypeOK /\ Confirmed
  OBVIOUS
<1>1. 0 \in 0..MaxVisits
  BY SessionAssumption
<1>2. checks = {}
  BY DEF SessionInit
<1>3. SessionTypeOK
  BY <1>1, <1>2, MountedIsClosed DEF SessionInit, SessionTypeOK
<1>4. PageIsConfirmed
  BY <1>1, MountedIsClosed DEF SessionInit, PageIsConfirmed, GateOpen
<1>5. QED
  BY <1>2, <1>3, <1>4 DEF SessionInit, Confirmed

(* A move: what was shown may be shown still, on what was confirmed before. *)
LEMMA VisitKeeps ==
    ASSUME SessionTypeOK, Confirmed, NEW t \in Window, NEW p \in Path, Visit(t, p),
           due[t] => p \notin Guarded, session' = session, posts' \subseteq Post
    PROVE  SessionTypeOK' /\ Confirmed'
<1> DEFINE v == visit[t] + 1
<1>1. v \in 0..MaxVisits /\ visit[t] \in 0..MaxVisits
  BY SessionAssumption DEF SessionTypeOK, Visit
<1>2. /\ gate' \in [Window -> HookState]
      /\ \A u \in Window \ {t} : gate'[u] = gate[u]
      /\ \/ gate'[t].loading
         \/ gate' = gate /\ {path[t], p} \subseteq Guarded
  <2>1. Mounted(v) \in HookState /\ Mounted(v).loading
    BY <1>1, MountedIsClosed
  <2>2. gate \in [Window -> HookState]
    BY DEF SessionTypeOK
  <2> HIDE DEF v
  <2>3. CASE gate' = [gate EXCEPT ![t] = Mounted(v)]
    BY <2>1, <2>2, <2>3
  <2>4. CASE {path[t], p} \subseteq Guarded /\ UNCHANGED gate
    BY <2>2, <2>4
  <2>5. QED
    BY <2>3, <2>4 DEF Visit, v
<1>3. SessionTypeOK'
  <2>1. path' \in [Window -> Path]
    BY DEF Visit, SessionTypeOK
  <2>2. visit' \in [Window -> 0..MaxVisits]
    BY <1>1 DEF Visit, SessionTypeOK
  <2>3. due' \in [Window -> BOOLEAN]
    BY DEF Visit, SessionTypeOK
  <2>4. wasIn' \in [Window -> BOOLEAN]
    BY DEF Visit, SessionTypeOK
  <2>5. wasInBefore' \in [Window -> BOOLEAN]
    BY DEF Visit, SessionTypeOK
  <2>6. session' \in BOOLEAN /\ checks' \subseteq Check
    BY DEF Visit, SessionTypeOK
  <2>7. QED
    BY <1>2, <2>1, <2>2, <2>3, <2>4, <2>5, <2>6 DEF SessionTypeOK
<1>4. PageIsConfirmed'
  <2> SUFFICES ASSUME NEW u \in Window, GateOpen(u)'
               PROVE  wasIn'[u] \/ (due'[u] /\ wasInBefore'[u])
    BY DEF PageIsConfirmed
  <2>1. CASE u # t
    <3>1. /\ path'[u] = path[u] /\ gate'[u] = gate[u] /\ due'[u] = due[u]
          /\ wasIn'[u] = wasIn[u] /\ wasInBefore'[u] = wasInBefore[u]
      BY <1>2, <2>1 DEF Visit, SessionTypeOK
    <3>2. QED
      BY <3>1 DEF GateOpen, Confirmed, PageIsConfirmed
  <2>2. CASE u = t
    <3>1. /\ path'[t] = p /\ due'[t] = (p \in Guarded) /\ wasInBefore'[t] = wasIn[t]
      BY DEF Visit, SessionTypeOK
    <3>2. p \in Guarded /\ gate' = gate /\ path[t] \in Guarded
      BY <1>2, <2>2, <3>1 DEF GateOpen
    <3>3. GateOpen(t) /\ ~due[t]
      BY <2>2, <3>2 DEF GateOpen
    <3>4. wasIn[t]
      BY <3>3 DEF Confirmed, PageIsConfirmed
    <3>5. QED
      BY <2>2, <3>1, <3>2, <3>4
  <2>3. QED
    BY <2>1, <2>2
<1>5. \A c \in checks' : Backed(c)'
  <2> SUFFICES ASSUME NEW c \in checks PROVE Backed(c)'
    BY DEF Visit
  <2>1. c \in Check /\ c.tab \in Window /\ Backed(c) /\ c.visit \in Nat
    BY SessionAssumption DEF SessionTypeOK, Check, Confirmed, Backed
  <2>2. CASE c.tab = t
    <3>1. visit'[t] = visit[t] + 1 /\ wasInBefore'[t] = wasIn[t]
      BY DEF Visit, SessionTypeOK
    <3>2. QED
      BY <1>1, <2>1, <2>2, <3>1 DEF Backed
  <2>3. CASE c.tab # t
    BY <2>1, <2>3 DEF Visit, SessionTypeOK, Backed
  <2>4. QED
    BY <2>2, <2>3
<1>6. session' => \A u \in Window : wasIn'[u]
  BY DEF Confirmed, Visit, SessionTypeOK
<1>7. QED
  BY <1>3, <1>4, <1>5, <1>6 DEF Confirmed, Backed

(* The effect closes the gate, and asks.                                    *)
LEMMA EffectKeeps ==
    ASSUME SessionTypeOK, Confirmed, NEW t \in Window, RunEffect(t)
    PROVE  SessionTypeOK' /\ Confirmed'
<1> DEFINE c == [tab |-> t, visit |-> visit[t], reply |-> "asked"]
<1>1. c \in Check /\ c.tab = t /\ c.visit = visit[t] /\ c.reply # "yes"
  BY DEF SessionTypeOK, Check
<1>2. /\ [gate[t] EXCEPT !.loading = TRUE] \in HookState
      /\ [gate[t] EXCEPT !.loading = TRUE].loading
  BY DEF SessionTypeOK, HookState
<1>3. /\ gate' \in [Window -> HookState] /\ gate'[t].loading
      /\ \A u \in Window \ {t} : gate'[u] = gate[u] /\ due'[u] = due[u]
  BY <1>2 DEF RunEffect, SessionTypeOK
<1> HIDE DEF c
<1>4. checks' = checks \cup {c} /\ UNCHANGED <<session, path, visit, posts, history>>
  BY DEF RunEffect, c
<1>5. SessionTypeOK'
  BY <1>1, <1>3, <1>4 DEF RunEffect, SessionTypeOK, history
<1>6. PageIsConfirmed'
  BY <1>3, <1>4 DEF PageIsConfirmed, GateOpen, Confirmed, history
<1>7. \A d \in checks' : Backed(d)'
  <2>1. visit[t] \in 0..MaxVisits
    BY DEF SessionTypeOK
  <2>2. QED
    BY <1>1, <1>4, <2>1, SessionAssumption DEF Backed, Confirmed, history
<1>8. QED
  BY <1>4, <1>5, <1>6, <1>7 DEF Confirmed, Backed, history

(* Going where one is changes nothing, elsewhere is a move.                 *)
LEMMA GoToKeeps ==
    ASSUME SessionTypeOK, Confirmed, NEW t \in Window, NEW p \in Path, GoTo(t, p),
           session' = session, posts' \subseteq Post
    PROVE  SessionTypeOK' /\ Confirmed'
<1>1. CASE p # path[t]
  BY <1>1, VisitKeeps DEF GoTo, SessionTypeOK
<1>2. CASE p = path[t]
  BY <1>2 DEF GoTo, SessionTypeOK, Confirmed, PageIsConfirmed, GateOpen, tabVars, history
<1>3. QED
  BY <1>1, <1>2

(* An answer opens the gate only until the effect of the next visit has     *)
(* run, and an answer "yes" means that the cookie was good when it was.     *)
LEMMA AnsweredKeeps ==
    ASSUME SessionTypeOK, Confirmed, NEW c \in checks, Answered(c)
    PROVE  SessionTypeOK' /\ Confirmed'
<1>1. c \in Check /\ c.tab \in Window
  BY DEF SessionTypeOK, Check
<1>2. PICK authed \in BOOLEAN :
          /\ Settle(c, authed)
          /\ authed /\ Cancelled(c) => gate[c.tab].authed
          /\ authed /\ ~Cancelled(c) => c.reply = "yes"
  <2>1. CASE c.reply = "no" /\ Settle(c, FALSE)
    BY <2>1
  <2>2. CASE c.reply = "yes" /\ Settle(c, ~Cancelled(c) \/ gate[c.tab].authed)
    BY <2>2
  <2>3. CASE Settle(c, Cancelled(c) /\ gate[c.tab].authed)
    BY <2>3
  <2>4. QED
    BY <2>1, <2>2, <2>3 DEF Answered
<1> DEFINE h == gate[c.tab]
           settled == [authed |-> authed, loading |-> h.loading /\ Cancelled(c),
                       since |-> h.since]
<1>a. gate' = [gate EXCEPT ![c.tab] = IF Gone(c) THEN h ELSE settled]
  BY <1>2 DEF Settle
<1>b. h \in HookState /\ settled \in HookState
  BY <1>1 DEF SessionTypeOK, HookState, Cancelled
<1>3. gate' \in [Window -> HookState]
  BY <1>1, <1>a, <1>b DEF SessionTypeOK
<1>4. SessionTypeOK'
  <2>1. /\ UNCHANGED <<session, path, visit, due, posts, wasIn, wasInBefore>>
        /\ checks' \subseteq checks
    BY DEF Answered, history
  <2>2. QED
    BY <1>3, <2>1 DEF SessionTypeOK
<1>5. PageIsConfirmed'
  <2> SUFFICES ASSUME NEW t \in Window, GateOpen(t)'
               PROVE  wasIn[t] \/ (due[t] /\ wasInBefore[t])
    BY DEF PageIsConfirmed, Answered, history
  <2>1. path[t] \in Guarded /\ ~gate'[t].loading /\ gate'[t].authed
    BY DEF GateOpen, Answered
  <2>2. CASE gate'[t] = gate[t]
    BY <2>1, <2>2 DEF GateOpen, Confirmed, PageIsConfirmed
  <2>3. CASE gate'[t] # gate[t]
    <3>1. t = c.tab /\ gate'[t] = settled
      BY <1>1, <1>a, <2>3 DEF SessionTypeOK
    <3>2. authed /\ ~(h.loading /\ Cancelled(c))
      <4>1. settled.authed = authed /\ settled.loading = (h.loading /\ Cancelled(c))
        OBVIOUS
      <4> HIDE DEF settled, h
      <4>2. QED
        BY ONLY <2>1, <3>1, <4>1, Zenon
    <3>3. CASE Cancelled(c)
      <4>1. ~gate[t].loading /\ gate[t].authed
        BY <1>2, <3>1, <3>2, <3>3
      <4>2. QED
        BY <2>1, <4>1 DEF GateOpen, Confirmed, PageIsConfirmed
    <3>4. CASE ~Cancelled(c)
      BY <1>1, <1>2, <3>1, <3>2, <3>4 DEF Confirmed, Cancelled
    <3>5. QED
      BY <3>3, <3>4
  <2>4. QED
    BY <2>2, <2>3
<1>6. QED
  BY <1>4, <1>5 DEF Confirmed, Answered, history

(* Every step keeps the types and what is confirmed.                        *)
LEMMA SessionKeeps ==
    ASSUME SessionTypeOK, Confirmed, [SessionNext]_sessionVars
    PROVE  SessionTypeOK' /\ Confirmed'
<1>1. CASE UNCHANGED sessionVars
  BY <1>1 DEF sessionVars, tabVars, history, SessionTypeOK, Confirmed,
              PageIsConfirmed, GateOpen
<1>2. ASSUME NEW t \in Window, FollowLink(t)
      PROVE  SessionTypeOK' /\ Confirmed'
  BY <1>2, GoToKeeps DEF FollowLink, SessionTypeOK
<1>3. ASSUME NEW t \in Window, ReloadWindow(t)
      PROVE  SessionTypeOK' /\ Confirmed'
  <2>1. 0 \in 0..MaxVisits
    BY SessionAssumption
  <2>3. posts' \subseteq Post
    <3> SUFFICES ASSUME NEW p \in posts
                 PROVE  p \in Post /\ [p EXCEPT !.heard = FALSE] \in Post
      BY <1>3 DEF ReloadWindow
    <3> QED
      BY DEF SessionTypeOK, Post
  <2>4. SessionTypeOK'
    BY <1>3, <2>1, <2>3, MountedIsClosed DEF ReloadWindow, SessionTypeOK
  <2>5. PageIsConfirmed'
    <3> SUFFICES ASSUME NEW u \in Window, GateOpen(u)'
                 PROVE  wasIn'[u] \/ (due'[u] /\ wasInBefore'[u])
      BY DEF PageIsConfirmed
    <3>1. u # t
      BY <1>3, <2>1, MountedIsClosed DEF ReloadWindow, SessionTypeOK, GateOpen
    <3>2. /\ gate'[u] = gate[u] /\ wasIn'[u] = wasIn[u] /\ path' = path
          /\ due'[u] = due[u] /\ wasInBefore'[u] = wasInBefore[u]
      BY <1>3, <3>1 DEF ReloadWindow, SessionTypeOK
    <3>3. QED
      BY <3>2 DEF GateOpen, Confirmed, PageIsConfirmed
  <2>6. ASSUME NEW c \in checks'
        PROVE  Backed(c)'
    <3>1. c \in checks /\ c.tab # t
      BY <1>3, <2>6 DEF ReloadWindow
    <3>2. c.tab \in Window /\ Backed(c)
      BY <3>1 DEF SessionTypeOK, Check, Confirmed, Backed
    <3>3. QED
      BY <1>3, <3>1, <3>2 DEF ReloadWindow, SessionTypeOK, Backed
  <2>7. session' => \A u \in Window : wasIn'[u]
    BY <1>3 DEF ReloadWindow, SessionTypeOK, Confirmed
  <2>8. QED
    BY ONLY <2>4, <2>5, <2>6, <2>7 DEF Confirmed, Backed
<1>4. ASSUME NEW t \in Window, TurnedAway(t)
      PROVE  SessionTypeOK' /\ Confirmed'
  BY <1>4, VisitKeeps DEF TurnedAway, SessionTypeOK, Path, Guarded
<1>5. ASSUME NEW t \in Window, Submit(t) \/ PressLogout(t)
      PROVE  SessionTypeOK' /\ Confirmed'
  <2>1. PICK op \in {"login", "logout"} : Send(t, op)
    BY <1>5 DEF Submit, PressLogout
  <2>2. [tab |-> t, op |-> op, done |-> FALSE, heard |-> TRUE] \in Post
    BY DEF Post
  <2>3. /\ SessionTypeOK'
        /\ UNCHANGED <<session, path, visit, gate, due, checks, wasIn, wasInBefore>>
    BY <2>1, <2>2 DEF Send, SessionTypeOK, tabVars, history
  <2>4. Confirmed'
    BY <2>3 DEF Confirmed, PageIsConfirmed, GateOpen
  <2>5. QED
    BY <2>3, <2>4
<1>6. ASSUME NEW c \in checks, Me(c)
      PROVE  SessionTypeOK' /\ Confirmed'
  <2> DEFINE d == [c EXCEPT !.reply = IF session THEN "yes" ELSE "no"]
  <2>1. d \in Check /\ d.visit = c.visit /\ d.tab = c.tab /\ (d.reply = "yes" => session)
    BY DEF SessionTypeOK, Check
  <2>2. c.tab \in Window /\ c.visit <= visit[c.tab]
    BY DEF SessionTypeOK, Check, Confirmed
  <2>3. SessionTypeOK'
    BY <1>6, <2>1 DEF Me, SessionTypeOK, tabVars, history
  <2>4. PageIsConfirmed'
    BY <1>6 DEF Me, Confirmed, PageIsConfirmed, GateOpen, tabVars, history
  <2>5. \A a \in checks' : Backed(a)'
    <3> TAKE a \in checks'
    <3>1. visit' = visit /\ wasIn' = wasIn /\ wasInBefore' = wasInBefore
      BY <1>6 DEF Me, tabVars, history
    <3>2. CASE a \in checks
      BY <3>1, <3>2 DEF Confirmed, Backed
    <3>3. CASE a = d
      <4>1. a.tab = c.tab /\ a.visit = c.visit /\ (a.reply = "yes" => session)
        BY <2>1, <3>3
      <4>2. QED
        BY <2>2, <3>1, <4>1 DEF Confirmed, Backed
    <3>4. QED
      BY <1>6, <3>2, <3>3 DEF Me
  <2>6. session' = session /\ wasIn' = wasIn
    BY <1>6 DEF Me, history
  <2>7. QED
    BY <2>3, <2>4, <2>5, <2>6 DEF Confirmed, Backed
<1>7. ASSUME NEW c \in checks, Answered(c)
      PROVE  SessionTypeOK' /\ Confirmed'
  BY <1>7, AnsweredKeeps
<1>8. ASSUME NEW p \in posts, Handle(p)
      PROVE  SessionTypeOK' /\ Confirmed'
  <2>1. /\ \A t \in Window : wasIn'[t] = (wasIn[t] \/ session')
        /\ posts' \subseteq Post /\ session' \in BOOLEAN
        /\ wasIn' \in [Window -> BOOLEAN]
        /\ UNCHANGED <<path, visit, gate, due, checks, wasInBefore>>
    BY <1>8 DEF Handle, SessionTypeOK, Post, tabVars
  <2>2. SessionTypeOK'
    BY <2>1 DEF SessionTypeOK
  <2>3. PageIsConfirmed'
    BY <2>1 DEF Confirmed, PageIsConfirmed, GateOpen
  <2>4. \A c \in checks' : Backed(c)'
    BY <2>1 DEF Confirmed, Backed, SessionTypeOK, Check
  <2>5. QED
    BY <2>1, <2>2, <2>3, <2>4 DEF Confirmed, Backed
<1>9. ASSUME NEW p \in posts, SignedIn(p) \/ SignedOut(p)
      PROVE  SessionTypeOK' /\ Confirmed'
  <2>1. p.tab \in Window /\ posts' \subseteq Post /\ session' = session
    BY <1>9 DEF SignedIn, SignedOut, SessionTypeOK, Post
  <2>2. \/ \E q \in Path : GoTo(p.tab, q)
        \/ UNCHANGED <<tabVars, checks, history>>
    BY <1>9 DEF SignedIn, SignedOut, Path, Guarded
  <2>3. CASE UNCHANGED <<tabVars, checks, history>>
    BY <2>1, <2>3 DEF SessionTypeOK, Confirmed, PageIsConfirmed, GateOpen, tabVars, history
  <2>4. QED
    BY <2>1, <2>2, <2>3, GoToKeeps
<1>10. ASSUME NEW p \in posts, Lost(p)
       PROVE  SessionTypeOK' /\ Confirmed'
  BY <1>10 DEF Lost, SessionTypeOK, Confirmed, PageIsConfirmed, GateOpen, tabVars, history
<1>11. CASE Expire
  BY <1>11 DEF Expire, SessionTypeOK, Confirmed, PageIsConfirmed, GateOpen, tabVars, history
<1>12. ASSUME NEW t \in Window, RunEffect(t)
       PROVE  SessionTypeOK' /\ Confirmed'
  BY <1>12, EffectKeeps
<1>13. QED
  BY <1>1, <1>2, <1>12, <1>3, <1>4, <1>5, <1>6, <1>7, <1>8, <1>9, <1>10, <1>11
  DEF SessionNext

(* Every reachable state of the tabs is well typed (App.tsx, Auth.tsx).     *)
THEOREM SessionTyped == SessionSpec => []SessionTypeOK
<1>1. SessionTypeOK /\ Confirmed /\ [SessionNext]_sessionVars
      => (SessionTypeOK /\ Confirmed)'
  BY SessionKeeps
<1>2. QED
  BY <1>1, SessionStarts, PTL DEF SessionSpec

(* A guarded page is shown only if the cookie has been good since the tab   *)
(* came to it or, until the effect of the hook has run, at the page before, *)
(* whatever order the checks are answered in (App.tsx, useServerAuth and    *)
(* Protected).                                                              *)
THEOREM OnlyTheConfirmed == SessionSpec => []PageIsConfirmed
<1>1. SessionTypeOK /\ Confirmed /\ [SessionNext]_sessionVars
      => (SessionTypeOK /\ Confirmed)'
  BY SessionKeeps
<1>2. Confirmed => PageIsConfirmed
  BY DEF Confirmed
<1>3. QED
  BY <1>1, <1>2, SessionStarts, PTL DEF SessionSpec

(* The same in the whole browser, which the run admin_pages checks: its     *)
(* other pages leave the sign-in alone.                                     *)
THEOREM BrowserConfirmed == AdminSpec => []PageIsConfirmed
<1>1. AdminInit => SessionInit
  BY DEF AdminInit
<1>2. [AdminNext]_adminVars => [SessionNext]_sessionVars
  BY DEF AdminNext, adminVars, sessionVars
<1>3. AdminSpec => SessionSpec
  BY <1>1, <1>2, PTL DEF AdminSpec, SessionSpec
<1>4. QED
  BY <1>3, OnlyTheConfirmed

-----------------------------------------------------------------------------
(* ScaleSettings: what the administrator was last told is saved is what the *)
(* row has.  Nothing is assumed of what the forms hold: a request is its    *)
(* fields and how far it has come.                                          *)

CallField == {"op", "tab", "fields", "base", "then", "todo", "patch", "phase",
              "seen", "got", "sure", "heard"}

IsCall(c) ==
    /\ c = [x \in CallField |-> c[x]]
    /\ DOMAIN c.fields \subseteq Field
    /\ c.sure \subseteq Named(c.fields)

(* A save that has been answered by the server and not yet by the page.     *)
Settled(c) == c.op = "save" /\ c.phase = "done"

Calls ==
    /\ calls = [s \in Slot |-> calls[s]]
    /\ \A s \in Slot : IsCall(calls[s])

(* Of what a page is sure, no other request has a word; and of what it was  *)
(* told, none has.                                                          *)
SureAlone ==
    /\ \A s, r \in Slot : s # r => calls[s].sure \cap DOMAIN calls[r].fields = {}
    /\ \A s \in Slot, f \in Field : told[f] # NULL => f \notin DOMAIN calls[s].fields

(* Of two requests between read and write none is sure of anything.         *)
OneBetween ==
    \A s, r \in Slot : s # r /\ Between(s) /\ Between(r) => calls[s].sure = {}

(* What is settled, and what was told, is in the row and in every row that  *)
(* was read and will be written.                                            *)
InRow(f, v) ==
    /\ row[f] = v
    /\ \A s \in Slot : Between(s) => calls[s].seen[f] = v

InRowNext(f, v) ==
    /\ row'[f] = v
    /\ \A s \in Slot : Between(s)' => calls'[s].seen[f] = v

SettledIsIn ==
    /\ \A s \in Slot : Settled(calls[s]) =>
          \A f \in calls[s].sure : InRow(f, calls[s].fields[f])
    /\ \A f \in Field : told[f] # NULL => InRow(f, told[f])

Kept == Calls /\ SureAlone /\ OneBetween /\ SettledIsIn

LEMMA KeptIsTold == Kept => ToldIsKept
BY DEF Kept, SettledIsIn, InRow, ToldIsKept

(* The record of no request, and those made of it.                          *)
LEMMA IdleIsCall ==
    /\ IsCall(Idle) /\ Idle.op = "idle" /\ Idle.sure = {} /\ DOMAIN Idle.fields = {}
    /\ \A t : /\ IsCall(LoadOf(t)) /\ LoadOf(t).op = "load" /\ LoadOf(t).sure = {}
              /\ DOMAIN LoadOf(t).fields = {}
<1>1. Idle = [x \in CallField |-> Idle[x]]
  BY DEF Idle, CallField
<1>2. Idle.op = "idle" /\ Idle.sure = {} /\ Idle.fields = <<>>
  BY DEF Idle
<1>3. DOMAIN <<>> = {}
  OBVIOUS
<1>4. DOMAIN Idle.fields = {}
  BY <1>2, <1>3
<1>5. ASSUME NEW t
      PROVE  /\ LoadOf(t) = [x \in CallField |-> LoadOf(t)[x]]
             /\ LoadOf(t).op = "load" /\ LoadOf(t).sure = {} /\ LoadOf(t).fields = <<>>
  BY <1>1, <1>2 DEF LoadOf, CallField
<1>6. QED
  BY <1>1, <1>2, <1>3, <1>4, <1>5 DEF IsCall

LEMMA KeptStarts == SettingsInit => Kept
<1> SUFFICES ASSUME SettingsInit PROVE Kept
  OBVIOUS
<1>1. \A s \in Slot : calls[s] = Idle
  BY DEF SettingsInit
<1>2. Calls
  BY <1>1, IdleIsCall DEF SettingsInit, Calls
<1>3. \A f \in Field : told[f] = NULL
  BY DEF SettingsInit
<1>4. QED
  BY <1>1, <1>2, <1>3, IdleIsCall
  DEF Kept, SureAlone, OneBetween, SettledIsIn, Between, Settled

(* A request that ends, is no longer heard, or goes on without the row: it  *)
(* says nothing new, and is not between read and write unless it was, with  *)
(* the row it read.                                                         *)
Less(c, d) ==
    /\ IsCall(d)
    /\ d.sure \subseteq c.sure /\ DOMAIN d.fields \subseteq DOMAIN c.fields
    /\ d.sure # {} => d.fields = c.fields
    /\ d.op = "save" /\ d.phase = "read" =>
          c.op = "save" /\ c.phase = "read" /\ d.seen = c.seen
    /\ Settled(d) => Settled(c) \/ d.sure = {}

LEMMA SameIsLess == ASSUME NEW c, IsCall(c) PROVE Less(c, c)
BY DEF Less

LEMMA LessKeeps ==
    ASSUME Kept, row' = row, told' = told,
           calls' = [s \in Slot |-> calls'[s]],
           \A s \in Slot : Less(calls[s], calls'[s])
    PROVE  Kept'
<1>1. Calls'
  BY DEF Calls, Less
<1>2. SureAlone'
  BY DEF Kept, SureAlone, Less
<1>3. OneBetween'
  BY DEF Kept, OneBetween, Between, Less
<1>4. SettledIsIn'
  <2>1. \A f, v : InRow(f, v) => InRowNext(f, v)
    BY DEF InRow, InRowNext, Between, Less
  <2>2. ASSUME NEW s \in Slot, Settled(calls'[s]), NEW f \in calls'[s].sure
        PROVE  InRowNext(f, calls'[s].fields[f])
    <3>1. Settled(calls[s]) /\ f \in calls[s].sure /\ calls'[s].fields = calls[s].fields
      BY <2>2 DEF Less
    <3>2. InRow(f, calls[s].fields[f])
      BY <3>1 DEF Kept, SettledIsIn
    <3>3. QED
      BY <2>1, <3>1, <3>2
  <2>3. ASSUME NEW f \in Field, told'[f] # NULL PROVE InRowNext(f, told'[f])
    BY <2>1, <2>3 DEF Kept, SettledIsIn
  <2>4. QED
    BY <2>2, <2>3 DEF SettledIsIn, InRow, InRowNext, Settled
<1>5. QED
  BY <1>1, <1>2, <1>3, <1>4 DEF Kept
-----------------------------------------------------------------------------
(* Steps after which a request says no more than before.                    *)

LEMMA IdleIsLess ==
    ASSUME NEW c
    PROVE  Less(c, Idle) /\ \A t : Less(c, LoadOf(t))
BY IdleIsCall DEF Less, Settled

LEMMA OrphanIsLess ==
    ASSUME NEW c, IsCall(c), c.op = "save"
    PROVE  Less(c, Orphan(c))
<1> DEFINE o == [Idle EXCEPT !.op = "save", !.heard = FALSE, !.phase = c.phase]
<1>1. /\ o = [x \in CallField |-> o[x]]
      /\ o.op = "save" /\ o.sure = {} /\ o.phase = c.phase
      /\ DOMAIN o.fields = {}
  BY IdleIsCall DEF IsCall, CallField
<1> HIDE DEF o
<1>2. Orphan(c) = IF c.phase = "items"
                  THEN [o EXCEPT !.todo = [i \in {Foremost(c.todo)} |-> 0], !.patch = c.patch]
                  ELSE [o EXCEPT !.fields = c.fields, !.seen = c.seen]
  BY DEF Orphan, o
<1>3. CASE c.phase = "items"
  <2> DEFINE d == [o EXCEPT !.todo = [i \in {Foremost(c.todo)} |-> 0], !.patch = c.patch]
  <2>1. /\ d = [x \in CallField |-> d[x]]
        /\ d.op = "save" /\ d.sure = {} /\ d.phase = "items" /\ DOMAIN d.fields = {}
    BY <1>1, <1>3 DEF CallField
  <2>2. Orphan(c) = d
    BY <1>2, <1>3
  <2> HIDE DEF d
  <2>3. QED
    BY <2>1, <2>2 DEF Less, IsCall, Settled
<1>4. CASE c.phase # "items"
  <2> DEFINE d == [o EXCEPT !.fields = c.fields, !.seen = c.seen]
  <2>1. /\ d = [x \in CallField |-> d[x]]
        /\ d.op = "save" /\ d.sure = {} /\ d.phase = c.phase /\ d.fields = c.fields
        /\ d.seen = c.seen
    BY <1>1 DEF CallField
  <2>2. Orphan(c) = d
    BY <1>2, <1>4
  <2> HIDE DEF d
  <2>3. QED
    BY <2>1, <2>2 DEF Less, IsCall, Settled
<1>5. QED
  BY <1>3, <1>4

(* Only one request changes, and to one that says less.                     *)
LEMMA BecomesLess ==
    ASSUME Kept, row' = row, told' = told,
           NEW s \in Slot, NEW d, Becomes(s, d), Less(calls[s], d)
    PROVE  Kept'
<1>1. calls' = [r \in Slot |-> calls'[r]] /\ calls'[s] = d
      /\ \A r \in Slot \ {s} : calls'[r] = calls[r]
  BY DEF Becomes, Kept, Calls
<1>2. \A r \in Slot : Less(calls[r], calls'[r])
  BY <1>1, SameIsLess DEF Kept, Calls
<1>3. QED
  BY <1>1, <1>2, LessKeeps

LEMMA SameKeeps ==
    ASSUME Kept, row' = row, told' = told, calls' = calls
    PROVE  Kept'
BY SameIsLess, LessKeeps DEF Kept, Calls

LEMMA LoadKeeps ==
    ASSUME Kept, NEW s \in Slot,
           GetScale(s) \/ GetItems(s) \/ Loaded(s) \/ LoadFailed(s) \/ Dropped(s)
    PROVE  Kept'
<1> DEFINE c == calls[s]
<1>0. IsCall(c) /\ row' = row /\ told' = told
  BY DEF Kept, Calls, GetScale, GetItems, Loaded, LoadFailed, Dropped
<1>1. CASE GetScale(s)
  <2> DEFINE d == [c EXCEPT !.seen = row]
  <2>1. /\ d = [x \in CallField |-> d[x]] /\ d.op = "load" /\ d.fields = c.fields
        /\ d.sure = c.sure
    BY <1>0, <1>1 DEF IsCall, CallField, GetScale
  <2>2. Becomes(s, d)
    BY <1>1 DEF GetScale
  <2> HIDE DEF d
  <2>3. Less(c, d)
    BY <1>0, <2>1 DEF Less, IsCall, Settled
  <2>4. QED
    BY <1>0, <2>2, <2>3, BecomesLess
<1>2. CASE GetItems(s)
  <2> DEFINE d == [c EXCEPT !.got = items]
  <2>1. /\ d = [x \in CallField |-> d[x]] /\ d.op = "load" /\ d.fields = c.fields
        /\ d.sure = c.sure
    BY <1>0, <1>2 DEF IsCall, CallField, GetItems
  <2>2. Becomes(s, d)
    BY <1>2 DEF GetItems
  <2> HIDE DEF d
  <2>3. Less(c, d)
    BY <1>0, <2>1 DEF Less, IsCall, Settled
  <2>4. QED
    BY <1>0, <2>2, <2>3, BecomesLess
<1>3. CASE Loaded(s) \/ LoadFailed(s) \/ Dropped(s)
  <2>1. Becomes(s, Idle)
    BY <1>3 DEF Loaded, LoadFailed, Dropped
  <2>2. QED
    BY <1>0, <2>1, IdleIsLess, BecomesLess
<1>4. QED
  BY <1>1, <1>2, <1>3

LEMMA PutItemKeeps ==
    ASSUME Kept, NEW s \in Slot, PutItem(s)
    PROVE  Kept'
<1> DEFINE c == calls[s]
           p == IF DOMAIN Rest(c.todo) # {} THEN "items"
                ELSE IF DOMAIN c.fields = {} THEN "done" ELSE "sent"
           d == [c EXCEPT !.todo = Rest(c.todo), !.phase = p]
<1>0. IsCall(c) /\ row' = row /\ told' = told /\ c.op = "save"
  BY DEF Kept, Calls, PutItem
<1>1. /\ d = [x \in CallField |-> d[x]] /\ d.op = "save" /\ d.fields = c.fields
      /\ d.sure = c.sure /\ d.phase = p
  BY <1>0 DEF IsCall, CallField
<1>2. p # "read" /\ (p = "done" => DOMAIN c.fields = {})
  OBVIOUS
<1>3. Becomes(s, Idle) \/ Becomes(s, d)
  BY DEF PutItem
<1> HIDE DEF d, p
<1>4. Less(c, d)
  BY <1>0, <1>1, <1>2 DEF Less, IsCall, Settled, Named
<1>5. QED
  BY <1>0, <1>3, <1>4, IdleIsLess, BecomesLess

LEMMA FailedKeeps ==
    ASSUME Kept, NEW s \in Slot, Failed(s)
    PROVE  Kept'
<1>1. IsCall(calls[s]) /\ row' = row /\ told' = told /\ calls[s].op = "save"
      /\ (Becomes(s, Idle) \/ Becomes(s, Orphan(calls[s])))
  BY DEF Kept, Calls, Failed
<1>2. QED
  BY <1>1, IdleIsLess, OrphanIsLess, BecomesLess

(* A page is left: its requests go on unheard, or end.                      *)
LEMMA LeavingKeeps ==
    ASSUME Kept, NEW t \in Tab, OpenOther(t) \/ ReloadPage(t)
    PROVE  Kept'
<1>1. row' = row /\ told' = told /\ calls' = [s \in Slot |-> calls'[s]]
  BY DEF OpenOther, ReloadPage
<1>2. ASSUME NEW s \in Slot PROVE Less(calls[s], calls'[s])
  <2> DEFINE c == calls[s]
             d == [c EXCEPT !.then = "none", !.base = NULL]
  <2>0. IsCall(c)
    BY DEF Kept, Calls
  <2>1. \/ calls'[s] = c \/ calls'[s] = Idle
        \/ calls'[s] = d
        \/ c.op = "save" /\ calls'[s] = Orphan(c)
    BY DEF OpenOther, ReloadPage
  <2>2. /\ d = [x \in CallField |-> d[x]] /\ d.op = c.op /\ d.fields = c.fields
        /\ d.sure = c.sure /\ d.phase = c.phase /\ d.seen = c.seen
    BY <2>0 DEF IsCall, CallField
  <2> HIDE DEF d
  <2>3. Less(c, d)
    BY <2>0, <2>2 DEF Less, IsCall, Settled
  <2>4. QED
    BY <2>0, <2>1, <2>3, SameIsLess, IdleIsLess, OrphanIsLess
<1>3. QED
  BY <1>1, <1>2, LessKeeps
-----------------------------------------------------------------------------
(* The life of a save.                                                      *)

(* It begins: nobody was told of its fields, nobody else is sure of them.   *)
LEMMA BeginKeeps ==
    ASSUME Kept, row' = row, NEW s \in Slot, NEW c, IsCall(c), Begin(s, c),
           c.op = "save", c.phase \in {"items", "sent"}
    PROVE  Kept'
<1> DEFINE sure == Named(c.fields) \ UNION {DOMAIN calls[q].fields : q \in Slot}
           d == [c EXCEPT !.sure = sure]
           e(r) == [calls[r] EXCEPT !.sure = @ \ DOMAIN c.fields]
<1>1. /\ d = [x \in CallField |-> d[x]] /\ d.fields = c.fields /\ d.sure = sure
      /\ d.op = "save" /\ d.phase = c.phase
  BY DEF IsCall, CallField
<1>2. ASSUME NEW r \in Slot
      PROVE  /\ IsCall(calls[r])
             /\ e(r) = [x \in CallField |-> e(r)[x]]
             /\ e(r).fields = calls[r].fields
             /\ e(r).sure = calls[r].sure \ DOMAIN c.fields
             /\ e(r).op = calls[r].op /\ e(r).phase = calls[r].phase
             /\ e(r).seen = calls[r].seen
  <2>1. IsCall(calls[r])
    BY DEF Kept, Calls
  <2>2. QED
    BY <2>1 DEF IsCall, CallField
<1>3. calls' = [r \in Slot |-> IF r = s THEN d ELSE e(r)]
  BY DEF Begin
<1>4. told' = [f \in Field |-> IF f \in DOMAIN c.fields THEN NULL ELSE told[f]]
  BY DEF Begin
<1>5. sure \subseteq Named(c.fields)
      /\ \A q \in Slot : sure \cap DOMAIN calls[q].fields = {}
  OBVIOUS
<1> HIDE DEF d, e, sure
<1>6. \A r \in Slot : r # s => calls'[r] = e(r)
  BY <1>3
<1>7. calls'[s] = d
  BY <1>3
<1>8. Calls'
  BY <1>1, <1>2, <1>3, <1>5 DEF Calls, IsCall
<1>9. SureAlone'
  <2>1. ASSUME NEW q \in Slot, NEW r \in Slot, q # r
        PROVE  calls'[q].sure \cap DOMAIN calls'[r].fields = {}
    <3>1. CASE q = s
      BY <1>1, <1>2, <1>5, <1>6, <1>7, <2>1, <3>1
    <3>2. CASE r = s
      BY <1>1, <1>2, <1>6, <1>7, <2>1, <3>2
    <3>3. CASE q # s /\ r # s
      BY <1>2, <1>6, <2>1, <3>3 DEF Kept, SureAlone
    <3>4. QED
      BY <3>1, <3>2, <3>3
  <2>2. ASSUME NEW q \in Slot, NEW f \in Field, told'[f] # NULL
        PROVE  f \notin DOMAIN calls'[q].fields
    <3>1. told[f] # NULL /\ f \notin DOMAIN c.fields
      BY <1>4, <2>2
    <3>2. QED
      BY <1>1, <1>2, <1>6, <1>7, <3>1 DEF Kept, SureAlone
  <2>3. QED
    BY <2>1, <2>2 DEF SureAlone
<1>10. \A r \in Slot : Between(r)' <=> r # s /\ Between(r)
  BY <1>1, <1>2, <1>6, <1>7 DEF Between
<1>11. OneBetween'
  BY <1>2, <1>6, <1>10 DEF Kept, OneBetween
<1>12. \A f, v : InRow(f, v) => InRowNext(f, v)
  BY <1>2, <1>6, <1>10 DEF InRow, InRowNext
<1>13. ASSUME NEW r \in Slot, Settled(calls'[r]), NEW f \in calls'[r].sure
       PROVE  InRowNext(f, calls'[r].fields[f])
  <2>1. r # s
    BY <1>1, <1>7, <1>13 DEF Settled
  <2>2. Settled(calls[r]) /\ f \in calls[r].sure /\ calls'[r].fields = calls[r].fields
    BY <1>2, <1>6, <1>13, <2>1 DEF Settled
  <2>3. QED
    BY <1>12, <2>2 DEF Kept, SettledIsIn
<1>14. ASSUME NEW f \in Field, told'[f] # NULL PROVE InRowNext(f, told'[f])
  BY <1>4, <1>12, <1>14 DEF Kept, SettledIsIn
<1>15. SettledIsIn'
  BY <1>13, <1>14 DEF SettledIsIn, InRow, InRowNext, Settled
<1>16. QED
  BY <1>8, <1>9, <1>11, <1>15 DEF Kept

(* It reads: those that have read too, and it, are sure of nothing.         *)
LEMMA ReadKeeps ==
    ASSUME Kept, NEW s \in Slot, ReadScale(s)
    PROVE  Kept'
<1> DEFINE c == calls[s]
           others == {r \in Slot : Between(r)}
           d == [c EXCEPT !.phase = "read", !.seen = row,
                          !.sure = IF others = {} THEN @ ELSE {}]
           e(r) == [calls[r] EXCEPT !.sure = {}]
<1>0. \A r \in Slot : IsCall(calls[r])
  BY DEF Kept, Calls
<1>1. /\ d = [x \in CallField |-> d[x]] /\ d.fields = c.fields
      /\ d.sure = (IF others = {} THEN c.sure ELSE {})
      /\ d.op = c.op /\ d.phase = "read" /\ d.seen = row
  BY <1>0 DEF IsCall, CallField
<1>2. ASSUME NEW r \in Slot
      PROVE  /\ e(r) = [x \in CallField |-> e(r)[x]]
             /\ e(r).fields = calls[r].fields /\ e(r).sure = {}
             /\ e(r).op = calls[r].op /\ e(r).phase = calls[r].phase
             /\ e(r).seen = calls[r].seen
  BY <1>0 DEF IsCall, CallField
<1>3. calls' = [r \in Slot |-> IF r = s THEN d
                                 ELSE IF r \in others THEN e(r) ELSE calls[r]]
      /\ row' = row /\ told' = told /\ c.op = "save" /\ c.phase = "sent"
  BY DEF ReadScale
<1>4. s \notin others /\ \A r \in Slot : Between(r) <=> r \in others
  BY <1>3 DEF Between
<1> HIDE DEF d, e, others
<1>5. /\ calls'[s] = d
      /\ \A r \in others : r \in Slot /\ calls'[r] = e(r)
      /\ \A r \in Slot \ {s} : r \notin others => calls'[r] = calls[r]
  BY <1>3, <1>4 DEF others
<1>6. ASSUME NEW r \in Slot
      PROVE  /\ calls'[r].fields = calls[r].fields
             /\ calls'[r].sure \subseteq calls[r].sure
             /\ calls'[r].op = calls[r].op
             /\ r # s => calls'[r].phase = calls[r].phase /\ calls'[r].seen = calls[r].seen
             /\ calls'[r] = [x \in CallField |-> calls'[r][x]]
  <2>1. CASE r = s
    <3>1. \/ d.sure = c.sure \/ d.sure = {}
      BY <1>1
    <3>2. QED
      BY ONLY <1>1, <1>5, <2>1, <3>1
  <2>2. CASE r \in others /\ r # s
    BY <1>2, <1>5, <2>2
  <2>3. CASE r # s /\ r \notin others
    BY <1>0, <1>5, <2>3 DEF IsCall
  <2>4. QED
    BY <2>1, <2>2, <2>3
<1>7. Calls'
  BY <1>0, <1>3, <1>6 DEF Calls, IsCall
<1>8. SureAlone'
  BY <1>3, <1>6 DEF Kept, SureAlone
<1>9. \A r \in Slot : Between(r)' <=> r = s \/ r \in others
  BY <1>1, <1>3, <1>4, <1>5, <1>6 DEF Between
<1>10. OneBetween'
  <2> SUFFICES ASSUME NEW q \in Slot, NEW r \in Slot, q # r, Between(q)', Between(r)'
               PROVE  calls'[q].sure = {}
    BY DEF OneBetween
  <2>1. CASE q = s
    BY <1>1, <1>5, <1>9, <2>1
  <2>2. CASE q # s
    BY <1>2, <1>5, <1>9, <2>2
  <2>3. QED
    BY <2>1, <2>2
<1>11. \A f, v : InRow(f, v) => InRowNext(f, v)
  <2> SUFFICES ASSUME NEW f, NEW v, InRow(f, v), NEW r \in Slot, Between(r)'
               PROVE  calls'[r].seen[f] = v
    BY <1>3 DEF InRow, InRowNext
  <2>1. CASE r = s
    BY <1>1, <1>5, <2>1 DEF InRow
  <2>2. CASE r # s
    BY <1>4, <1>6, <1>9, <2>2 DEF InRow
  <2>3. QED
    BY <2>1, <2>2
<1>12. ASSUME NEW r \in Slot, Settled(calls'[r]), NEW f \in calls'[r].sure
       PROVE  InRowNext(f, calls'[r].fields[f])
  <2>1. r # s
    BY <1>1, <1>5, <1>12 DEF Settled
  <2>2. Settled(calls[r]) /\ f \in calls[r].sure /\ calls'[r].fields = calls[r].fields
    BY <1>6, <1>12, <2>1 DEF Settled
  <2>3. QED
    BY <1>11, <2>2 DEF Kept, SettledIsIn
<1>13. ASSUME NEW f \in Field, told'[f] # NULL PROVE InRowNext(f, told'[f])
  BY <1>3, <1>11, <1>13 DEF Kept, SettledIsIn
<1>14. SettledIsIn'
  BY <1>12, <1>13 DEF SettledIsIn, InRow, InRowNext, Settled
<1>15. QED
  BY <1>7, <1>8, <1>10, <1>14 DEF Kept

(* It writes: its own fields as sent, the others as it read them, which is  *)
(* how they still are if anyone relies on them.                             *)
LEMMA WriteKeeps ==
    ASSUME Kept, NEW s \in Slot, WriteScale(s)
    PROVE  Kept'
<1> DEFINE c == calls[s]
           d == [c EXCEPT !.phase = "done", !.seen = NULL]
<1>0. IsCall(c) /\ told' = told /\ Between(s)
  BY DEF Kept, Calls, WriteScale
<1>1. /\ d = [x \in CallField |-> d[x]] /\ d.fields = c.fields
      /\ d.sure = c.sure /\ d.phase = "done"
  BY <1>0 DEF IsCall, CallField
<1>2. \/ Becomes(s, d) \/ Becomes(s, Idle)
  BY DEF WriteScale
<1>3. \A f \in Field : row'[f] = IF f \in Named(c.fields) THEN c.fields[f] ELSE c.seen[f]
  BY DEF WriteScale, Merge
<1> HIDE DEF d
<1>4. /\ calls' = [r \in Slot |-> calls'[r]]
      /\ calls'[s] = d \/ calls'[s] = Idle
      /\ \A r \in Slot \ {s} : calls'[r] = calls[r]
  BY <1>2 DEF Becomes, Kept, Calls
<1>5. /\ IsCall(calls'[s]) /\ calls'[s].sure \subseteq c.sure
      /\ DOMAIN calls'[s].fields \subseteq DOMAIN c.fields
      /\ calls'[s].sure # {} => calls'[s].fields = c.fields
      /\ ~Between(s)'
  BY <1>0, <1>1, <1>4, IdleIsCall DEF IsCall, Between
<1>6. Calls'
  BY <1>4, <1>5 DEF Kept, Calls
<1>7. SureAlone'
  BY <1>0, <1>4, <1>5 DEF Kept, SureAlone
<1>8. OneBetween'
  BY <1>4, <1>5 DEF Kept, OneBetween, Between
<1>9. ASSUME NEW f \in Field, NEW v, InRow(f, v), f \notin DOMAIN c.fields
      PROVE  InRowNext(f, v)
  <2>1. f \notin Named(c.fields) /\ c.seen[f] = v
    BY <1>0, <1>9 DEF Named, InRow
  <2>2. row'[f] = v
    BY <1>3, <2>1
  <2>3. QED
    BY <1>4, <1>5, <1>9, <2>2 DEF InRow, InRowNext, Between
<1>10. ASSUME NEW r \in Slot, Settled(calls'[r]), NEW f \in calls'[r].sure
       PROVE  InRowNext(f, calls'[r].fields[f])
  <2>1. CASE r = s
    <3>1. f \in c.sure /\ calls'[s].fields = c.fields /\ f \in Named(c.fields)
          /\ f \in Field
      BY <1>0, <1>5, <1>10, <2>1 DEF IsCall, Named
    <3>2. \A q \in Slot : ~Between(q)'
      BY <1>0, <1>4, <1>5, <3>1 DEF Kept, OneBetween, Between
    <3>3. QED
      BY <1>3, <2>1, <3>1, <3>2 DEF InRowNext
  <2>2. CASE r # s
    <3>1. calls'[r] = calls[r] /\ f \in calls[r].sure /\ Settled(calls[r])
      BY <1>4, <1>10, <2>2
    <3>2. f \in Field /\ f \notin DOMAIN c.fields
      BY <2>2, <3>1 DEF Kept, Calls, IsCall, Named, SureAlone
    <3>3. InRow(f, calls[r].fields[f])
      BY <3>1 DEF Kept, SettledIsIn
    <3>4. QED
      BY <1>9, <3>1, <3>2, <3>3
  <2>3. QED
    BY <2>1, <2>2
<1>11. ASSUME NEW f \in Field, told'[f] # NULL PROVE InRowNext(f, told'[f])
  BY <1>0, <1>9, <1>11 DEF Kept, SettledIsIn, SureAlone
<1>12. SettledIsIn'
  BY <1>10, <1>11 DEF SettledIsIn, InRow, InRowNext, Settled
<1>13. QED
  BY <1>6, <1>7, <1>8, <1>12 DEF Kept

(* The page is told.                                                        *)
LEMMA SavedKeeps ==
    ASSUME Kept, NEW s \in Slot, Saved(s)
    PROVE  Kept'
<1> DEFINE c == calls[s]
<1>1. /\ row' = row /\ Settled(c) /\ IsCall(c)
      /\ told' = [f \in Field |-> IF f \in c.sure THEN c.fields[f] ELSE told[f]]
  BY DEF Kept, Calls, Saved, Settled
<1>2. Becomes(s, Idle) \/ Becomes(s, LoadOf(c.tab))
  BY DEF Saved
<1>3. /\ calls' = [r \in Slot |-> calls'[r]]
      /\ calls'[s] = Idle \/ calls'[s] = LoadOf(c.tab)
      /\ \A r \in Slot \ {s} : calls'[r] = calls[r]
  BY <1>2 DEF Becomes, Kept, Calls
<1>4. IsCall(calls'[s]) /\ calls'[s].op # "save" /\ calls'[s].sure = {}
      /\ DOMAIN calls'[s].fields = {}
  BY <1>3, IdleIsCall
<1>5. Calls' /\ OneBetween'
  BY <1>3, <1>4 DEF Kept, Calls, OneBetween, Between
<1>6. SureAlone'
  BY <1>1, <1>3, <1>4 DEF Kept, SureAlone
<1>7. \A f, v : InRow(f, v) => InRowNext(f, v)
  BY <1>1, <1>3, <1>4 DEF InRow, InRowNext, Between
<1>8. ASSUME NEW r \in Slot, Settled(calls'[r]), NEW f \in calls'[r].sure
      PROVE  InRowNext(f, calls'[r].fields[f])
  BY <1>3, <1>4, <1>7, <1>8 DEF Kept, SettledIsIn
<1>9. ASSUME NEW f \in Field, told'[f] # NULL PROVE InRowNext(f, told'[f])
  BY <1>1, <1>7, <1>9 DEF Kept, SettledIsIn
<1>10. SettledIsIn'
  BY <1>8, <1>9 DEF SettledIsIn, InRow, InRowNext, Settled
<1>11. QED
  BY <1>5, <1>6, <1>10 DEF Kept
-----------------------------------------------------------------------------
(* Every step.                                                              *)

(* What the buttons send.                                                   *)
LEMMA PressKeeps ==
    ASSUME Kept, row' = row, NEW t \in Tab, NEW sent, DOMAIN sent \subseteq Field,
           NEW then, Press(t, sent, then)
    PROVE  Kept'
<1>1. PICK s \in Slot :
        Begin(s, [Idle EXCEPT !.op = "save", !.tab = t, !.fields = sent, !.then = then,
                              !.base = IF then = "merge" THEN tab[t].scale ELSE NULL])
  BY DEF Press
<1> DEFINE c == [Idle EXCEPT !.op = "save", !.tab = t, !.fields = sent, !.then = then,
                             !.base = IF then = "merge" THEN tab[t].scale ELSE NULL]
<1>2. Idle.phase = "sent"
  BY DEF Idle
<1>3. /\ c = [x \in CallField |-> c[x]] /\ c.op = "save" /\ c.fields = sent
      /\ c.phase = "sent" /\ c.sure = {}
  BY <1>2, IdleIsCall DEF IsCall, CallField
<1>4. Begin(s, c)
  BY <1>1
<1> HIDE DEF c
<1>5. QED
  BY <1>3, <1>4, BeginKeeps DEF IsCall

LEMMA ConfigKeeps ==
    ASSUME Kept, row' = row, NEW t \in Tab, NEW config, PressConfig(t, config)
    PROVE  Kept'
<1>1. DOMAIN [config |-> config] \subseteq Field
  BY DEF Field
<1>2. QED
  BY <1>1, PressKeeps DEF PressConfig

LEMMA ApplyKeeps ==
    ASSUME Kept, NEW t \in Tab, Apply(t)
    PROVE  Kept'
<1>1. PICK s \in Slot, chosen \in SUBSET Listed(t), texts \in SUBSET {"name", "text"} :
        Begin(s,
             [Idle EXCEPT !.op = "save", !.tab = t, !.then = "reload",
                !.phase = IF chosen = {} THEN "sent" ELSE "items",
                !.todo = [i \in chosen |-> tab[t].list[i].position],
                !.patch = [i \in chosen |->
                    [NoItem EXCEPT !.stem = Translated(tab[t].list[i].stem)]],
                !.fields = [f \in texts |-> Translated(tab[t].scale[f])]])
  BY DEF Apply
<1> DEFINE todo == [i \in chosen |-> tab[t].list[i].position]
           patch == [i \in chosen |->
                        [NoItem EXCEPT !.stem = Translated(tab[t].list[i].stem)]]
           fields == [f \in texts |-> Translated(tab[t].scale[f])]
           phase == IF chosen = {} THEN "sent" ELSE "items"
           c == [Idle EXCEPT !.op = "save", !.tab = t, !.then = "reload",
                    !.phase = phase, !.todo = todo, !.patch = patch, !.fields = fields]
<1>2. Begin(s, c)
  BY <1>1
<1>3. DOMAIN fields \subseteq Field /\ phase \in {"items", "sent"}
  BY DEF Field
<1> HIDE DEF todo, patch, fields, phase
<1>4. /\ c = [x \in CallField |-> c[x]] /\ c.op = "save" /\ c.fields = fields
      /\ c.phase = phase /\ c.sure = {}
  BY IdleIsCall DEF IsCall, CallField
<1> HIDE DEF c
<1>5. row' = row
  BY DEF Apply
<1>6. QED
  BY <1>2, <1>3, <1>4, <1>5, BeginKeeps DEF IsCall

LEMMA SaveItemKeeps ==
    ASSUME Kept, NEW t \in Tab, SaveItem(t)
    PROVE  Kept'
<1>1. PICK s \in Slot, i \in Item :
        Begin(s, [Idle EXCEPT !.op = "save", !.tab = t, !.phase = "items",
                         !.todo = [j \in {i} |-> 0],
                         !.patch = [j \in {i} |-> [tab[t].list[i] EXCEPT
                                        !.options = FALSE, !.position = 0]]])
  BY DEF SaveItem
<1> DEFINE patch == [j \in {i} |-> [tab[t].list[i] EXCEPT
                                        !.options = FALSE, !.position = 0]]
           c == [Idle EXCEPT !.op = "save", !.tab = t, !.phase = "items",
                             !.todo = [j \in {i} |-> 0], !.patch = patch]
<1>2. Begin(s, c)
  BY <1>1
<1> HIDE DEF patch
<1>3. /\ c = [x \in CallField |-> c[x]] /\ c.op = "save" /\ DOMAIN c.fields = {}
      /\ c.phase = "items" /\ c.sure = {}
  BY IdleIsCall DEF IsCall, CallField
<1> HIDE DEF c
<1>4. row' = row
  BY DEF SaveItem
<1>5. QED
  BY <1>2, <1>3, <1>4, BeginKeeps DEF IsCall

LEMMA PageKeeps ==
    ASSUME Kept, NEW t \in Tab, Page(t)
    PROVE  Kept'
<1>1. CASE Load(t)
  BY <1>1, IdleIsLess, BecomesLess DEF Load
<1>2. CASE EditForm(t) \/ EditOption(t) \/ Preview(t) \/ Hide(t)
  BY <1>2, SameKeeps DEF EditForm, EditOption, Preview, Hide
<1>3. CASE SavePanel(t)
  <2>1. PICK shown \in Panels(tab[t].kind), then \in {"merge", "none"} :
          Press(t, [f \in shown |-> Draft(tab[t])[f]], then)
    BY <1>3 DEF SavePanel
  <2>2. shown \subseteq Field
    BY DEF Panels, Field
  <2>3. row' = row
    BY <1>3 DEF SavePanel
  <2>4. QED
    BY <2>1, <2>2, <2>3, PressKeeps
<1>4. CASE ChangeOptions(t)
  BY <1>4, ConfigKeeps DEF ChangeOptions
<1>5. CASE TickSignature(t)
  BY <1>5, ConfigKeeps, SameKeeps DEF TickSignature
<1>6. CASE ChoosePreset(t)
  BY <1>6, ConfigKeeps, SameKeeps DEF ChoosePreset
<1>7. CASE TimerFires(t)
  BY <1>7, ConfigKeeps DEF TimerFires
<1>8. QED
  BY <1>1, <1>2, <1>3, <1>4, <1>5, <1>6, <1>7, ApplyKeeps, SaveItemKeeps, LeavingKeeps
  DEF Page

LEMMA SettingsKeep ==
    ASSUME Kept, [SettingsNext]_settingsVars
    PROVE  Kept'
<1>1. CASE UNCHANGED settingsVars
  BY <1>1, SameKeeps DEF settingsVars
<1>2. ASSUME NEW s \in Slot, Request(s) PROVE Kept'
  BY <1>2, LoadKeeps, PutItemKeeps, ReadKeeps, WriteKeeps, SavedKeeps, FailedKeeps
  DEF Request
<1>3. QED
  BY <1>1, <1>2, PageKeeps DEF SettingsNext

(* What the page last said is saved is what the row has, for any number of  *)
(* pages, requests and saves (scale_service.go, UpdateScale).               *)
THEOREM SavedIsKept == SettingsSpec => []ToldIsKept
<1>1. Kept /\ [SettingsNext]_settingsVars => Kept'
  BY SettingsKeep
<1>2. QED
  BY <1>1, KeptStarts, KeptIsTold, PTL DEF SettingsSpec

(* The same in the whole browser, which the run admin_pages checks.         *)
THEOREM BrowserKeeps == AdminSpec => []ToldIsKept
<1>1. AdminInit => SettingsInit
  BY DEF AdminInit
<1>2. [AdminNext]_adminVars => [SettingsNext]_settingsVars
  BY DEF AdminNext, adminVars, settingsVars
<1>3. AdminSpec => SettingsSpec
  BY <1>1, <1>2, PTL DEF AdminSpec, SettingsSpec
<1>4. QED
  BY <1>3, SavedIsKept

-----------------------------------------------------------------------------
(* LocalExport: in a table two respondents who ticked the same have the     *)
(* same cell, and the other way round where options can be told apart.      *)

(* A sequence of limited length. *)
LEMMA LimitedSeq ==
    ASSUME NEW S, NEW b \in Nat, NEW s \in SeqOf(S, b)
    PROVE  /\ s \in Seq(S) /\ Len(s) \in 0..b /\ DOMAIN s = 1..Len(s)
           /\ \A i \in 1..Len(s) : s[i] \in S
  <1>1. PICK m \in 0..b : s \in [1..m -> S]
    BY DEF SeqOf
  <1>2. m \in Nat
    BY <1>1
  <1>3. s \in Seq(S) /\ Len(s) = m
    BY <1>1, <1>2
  <1>4. QED
    BY <1>1, <1>3

LEMMA SeqIsLimited ==
    ASSUME NEW S, NEW b \in Nat, NEW m \in 0..b, NEW s \in [1..m -> S]
    PROVE  s \in SeqOf(S, b)
  BY DEF SeqOf

LEMMA LeastNumber ==
    ASSUME NEW S \in SUBSET Nat, S # {}
    PROVE  \E m \in S : \A n \in S : m <= n
  <1>1. PICK m \in S : \A n \in S : <<n, m>> \notin OpToRel(<, Nat)
    BY NatLessThanWellFounded, WFMin
  <1>2. \A n \in S : ~(n < m)
    BY <1>1 DEF OpToRel
  <1>3. QED
    BY <1>2

(* A list of options or labels. *)
LEMMA ListFacts ==
    ASSUME lists \in Lists, NEW l \in Lang
    PROVE  /\ Len(lists[l]) \in 0..Length /\ DOMAIN lists[l] = 1..Len(lists[l])
           /\ \A i \in 1..Len(lists[l]) : lists[l][i] \in Label /\ lists[l][i] \in Nat
           /\ lists[l] = <<>> <=> Len(lists[l]) = 0
  <1>1. lists[l] \in SeqOf(Label, Length) /\ Length \in Nat
    BY ExportAssumption DEF Lists
  <1>2. /\ lists[l] \in Seq(Label) /\ Len(lists[l]) \in 0..Length
        /\ DOMAIN lists[l] = 1..Len(lists[l])
        /\ \A i \in 1..Len(lists[l]) : lists[l][i] \in Label
    BY <1>1, LimitedSeq
  <1>3. \A i \in 1..Len(lists[l]) : lists[l][i] \in Nat
    BY <1>2, ExportAssumption DEF ExportAssumption
  <1>4. lists[l] = <<>> <=> Len(lists[l]) = 0
    BY <1>2
  <1>5. QED
    BY <1>2, <1>3, <1>4

(* findIndex finds a place of the text. *)
LEMMA IndexFound ==
    ASSUME lists \in Lists, NEW s, Places(s) # {}
    PROVE  \E l \in Lang : FindIndex(s) \in 1..Len(lists[l]) /\ lists[l][FindIndex(s)] = s
  <1> DEFINE L == {l \in Lang : \E i \in 1..Length : <<l, i>> \in Places(s)}
             Precedes(p, q) == p[1] < q[1] \/ (p[1] = q[1] /\ p[2] <= q[2])
  <1>1. Langs \in Nat /\ Length \in Nat
    BY ExportAssumption
  <1>2. \A p \in Places(s) : p = <<p[1], p[2]>> /\ p[1] \in Lang /\ p[2] \in 1..Length
    BY DEF Places
  <1>3. L \in SUBSET Nat /\ L # {}
    BY <1>1, <1>2 DEF Lang
  <1>4. PICK l \in L : \A k \in L : l <= k
    BY <1>3, LeastNumber
  <1> DEFINE I == {i \in 1..Length : <<l, i>> \in Places(s)}
  <1>5. I \in SUBSET Nat /\ I # {}
    BY <1>1, <1>4
  <1>6. PICK i \in I : \A k \in I : i <= k
    BY <1>5, LeastNumber
  <1>7. <<l, i>> \in Places(s)
    BY <1>6
  <1>8. \A q \in Places(s) : Precedes(<<l, i>>, q)
    <2> TAKE q \in Places(s)
    <2>1. q = <<q[1], q[2]>> /\ q[1] \in L /\ q[2] \in 1..Length
      BY <1>2
    <2>2. l <= q[1] /\ l \in Nat /\ q[1] \in Nat
      BY <1>3, <1>4, <2>1
    <2>3. q[1] = l => q[2] \in I
      BY <2>1
    <2>4. QED
      BY <1>6, <2>2, <2>3
  <1> DEFINE first == CHOOSE p \in Places(s) : \A q \in Places(s) : Precedes(p, q)
  <1>9. first \in Places(s)
    BY <1>7, <1>8
  <1>10. FindIndex(s) = first[2]
    BY DEF FindIndex
  <1> HIDE DEF first
  <1>11. first[1] \in Lang /\ first[2] \in 1..Length /\ first[2] <= Len(lists[first[1]]) /\ lists[first[1]][first[2]] = s
    BY <1>9 DEF Places
  <1>12. Len(lists[first[1]]) \in Nat
    BY <1>11, ListFacts
  <1>13. first[2] \in 1..Len(lists[first[1]])
    BY <1>1, <1>11, <1>12
  <1>14. QED
    BY <1>10, <1>11, <1>13

(* If no text is at two indexes, a text is found where it was taken from.   *)
LEMMA IndexFoundAgain ==
    ASSUME lists \in Lists, Unambiguous, NEW l \in Lang,
           NEW i \in 1..Len(lists[l])
    PROVE  Places(lists[l][i]) # {} /\ FindIndex(lists[l][i]) = i
  <1>1. /\ Len(lists[l]) \in 0..Length /\ DOMAIN lists[l] = 1..Len(lists[l])
        /\ Length \in Nat
    BY ListFacts, ExportAssumption DEF ExportAssumption
  <1>2. <<l, i>> \in Places(lists[l][i])
    BY <1>1 DEF Places
  <1>3. PICK k \in Lang : /\ FindIndex(lists[l][i]) \in 1..Len(lists[k])
                          /\ lists[k][FindIndex(lists[l][i])] = lists[l][i]
    BY <1>2, IndexFound
  <1>4. DOMAIN lists[k] = 1..Len(lists[k])
    BY ListFacts
  <1>5. QED
    BY <1>1, <1>2, <1>3, <1>4 DEF Unambiguous

(* getLang returns the option of a list that is not empty, or 0 if there is *)
(* none.                                                                    *)
LEMMA OptionRead ==
    ASSUME lists \in Lists, NEW i \in Nat, NEW to \in Lang
    PROVE  \/ /\ GetLang(i, to) = 0
              /\ \A l \in Lang : i <= Len(lists[l]) => lists[l][i] = 0
           \/ /\ GetLang(i, to) # 0
              /\ \E l \in Lang : i <= Len(lists[l]) /\ lists[l][i] = GetLang(i, to)
  <1> DEFINE has == {l \in Lang : i <= Len(lists[l]) /\ lists[l][i] # 0}
             from == IF to \in has THEN to
                     ELSE CHOOSE l \in has : \A k \in has : l <= k
  <1>1. CASE has = {}
    BY <1>1 DEF GetLang
  <1>2. CASE has # {}
    <2>1. has \in SUBSET Nat
      BY ExportAssumption DEF ExportAssumption, Lang
    <2>2. PICK m \in has : \A k \in has : m <= k
      BY <1>2, <2>1, LeastNumber
    <2>3. from \in has
      BY <2>2
    <2>4. GetLang(i, to) = lists[from][i]
      BY <1>2 DEF GetLang
    <2> HIDE DEF from
    <2>5. QED
      BY <2>3, <2>4
  <1>3. QED
    BY <1>1, <1>2

LEMMA OptionIsLabel ==
    ASSUME lists \in Lists, NEW i \in Nat \ {0}, NEW to \in Lang
    PROVE  GetLang(i, to) \in Label
  <1>1. CASE GetLang(i, to) = 0
    BY <1>1, ExportAssumption DEF ExportAssumption
  <1>2. CASE GetLang(i, to) # 0
    <2>1. PICK l \in Lang : i <= Len(lists[l]) /\ lists[l][i] = GetLang(i, to)
      BY <1>2, OptionRead
    <2>2. i \in 1..Len(lists[l])
      BY <2>1, ListFacts, ExportAssumption DEF ExportAssumption
    <2>3. QED
      BY <2>1, <2>2, ListFacts
  <1>3. QED
    BY <1>1, <1>2

(* Two options that are read as one text, in one language, are one option.  *)
LEMMA OptionsDiffer ==
    ASSUME lists \in Lists, Unambiguous, NEW to \in Lang,
           NEW i \in Nat \ {0}, NEW j \in Nat \ {0},
           \E l \in Lang : i <= Len(lists[l]), \E l \in Lang : j <= Len(lists[l]),
           GetLang(i, to) = GetLang(j, to)
    PROVE  i = j
  <1>1. PICK l \in Lang, k \in Lang :
          /\ i <= Len(lists[l]) /\ j <= Len(lists[k])
          /\ lists[l][i] = lists[k][j]
    <2>1. CASE GetLang(i, to) = 0
      BY <2>1, OptionRead
    <2>2. CASE GetLang(i, to) # 0
      <3>1. PICK l \in Lang : i <= Len(lists[l]) /\ lists[l][i] = GetLang(i, to)
        BY <2>2, OptionRead
      <3>2. PICK k \in Lang : j <= Len(lists[k]) /\ lists[k][j] = GetLang(j, to)
        BY <2>2, OptionRead
      <3>3. QED
        BY <3>1, <3>2
    <2>3. QED
      BY <2>1, <2>2
  <1>2. i \in DOMAIN lists[l] /\ j \in DOMAIN lists[k]
    BY <1>1, ListFacts, ExportAssumption DEF ExportAssumption
  <1>3. QED
    BY <1>1, <1>2 DEF Unambiguous

(* The label of a point is a cell, and points that have labels of their own *)
(* differ in them.                                                          *)
LEMMA LabelIsCell ==
    ASSUME lists \in Lists, NEW n \in 1..Length, NEW to \in Lang
    PROVE  LikertLabel(n, to) \in Cell
  <1> DEFINE labels == IF lists[to] # <<>> THEN lists[to] ELSE lists[English]
             i == IF n <= Len(labels) THEN n ELSE Len(labels)
  <1>1. English \in Lang
    BY ExportAssumption DEF ExportAssumption, English, Lang
  <1>2. PICK l \in Lang : labels = lists[l]
    BY <1>1
  <1>3. /\ Len(labels) \in 0..Length /\ (labels = <<>> <=> Len(labels) = 0)
        /\ \A k \in 1..Len(labels) : labels[k] \in Label
        /\ Length \in Nat
    BY <1>2, ListFacts, ExportAssumption DEF ExportAssumption
  <1>4. LikertLabel(n, to) = IF labels = <<>> \/ labels[i] = 0 THEN Number(n)
                             ELSE labels[i]
    BY DEF LikertLabel
  <1> HIDE DEF labels
  <1>5. labels # <<>> => i \in 1..Len(labels)
    BY <1>3
  <1>6. QED
    BY <1>3, <1>4, <1>5 DEF Cell

LEMMA NumbersApart ==
    ASSUME NEW a \in Nat, NEW b \in Nat, a # b,
           NEW n \in Nat \ {0}, NEW m \in Nat \ {0}
    PROVE  (IF a = 0 THEN -n ELSE a) # (IF b = 0 THEN -m ELSE b)
  OBVIOUS

LEMMA LabelsDiffer ==
    ASSUME lists \in Lists, Unambiguous, kind = "likert", NEW to \in Lang,
           NEW n \in 1..Length, NEW m \in 1..Length,
           LikertLabel(n, to) = LikertLabel(m, to)
    PROVE  n = m
  <1> DEFINE labels == IF lists[to] # <<>> THEN lists[to] ELSE lists[English]
             i(k) == IF k <= Len(labels) THEN k ELSE Len(labels)
  <1>1. English \in Lang /\ Length \in Nat
    BY ExportAssumption DEF ExportAssumption, English, Lang
  <1>2. PICK l \in Lang : labels = lists[l]
    BY <1>1
  <1>3. /\ Len(labels) \in 0..Length /\ (labels = <<>> <=> Len(labels) = 0)
        /\ DOMAIN labels = 1..Len(labels)
        /\ \A k \in 1..Len(labels) : labels[k] \in Nat
    BY <1>2, ListFacts
  <1>4. Len(labels) \in {0, Length}
    BY <1>2 DEF Unambiguous
  <1>5. \A k \in 1..Length :
          LikertLabel(k, to) = IF labels = <<>> \/ labels[i(k)] = 0 THEN -k
                               ELSE labels[i(k)]
    BY DEF LikertLabel, Number
  <1>6. \A j, k \in DOMAIN labels : labels[j] = labels[k] => j = k
    BY <1>2 DEF Unambiguous
  <1> HIDE DEF labels
  <1>7. CASE labels = <<>>
    BY <1>1, <1>5, <1>7
  <1>8. CASE labels # <<>>
    <2>1. n \in DOMAIN labels /\ m \in DOMAIN labels /\ i(n) = n /\ i(m) = m
      <3>1. Len(labels) = Length
        BY <1>3, <1>4, <1>8
      <3>2. n <= Len(labels) /\ m <= Len(labels)
        BY <1>1, <3>1
      <3>3. QED
        BY <1>3, <3>1, <3>2
    <2>2. labels[n] \in Nat /\ labels[m] \in Nat
      BY <1>3, <2>1
    <2>3. /\ LikertLabel(n, to) = IF labels[n] = 0 THEN -n ELSE labels[n]
          /\ LikertLabel(m, to) = IF labels[m] = 0 THEN -m ELSE labels[m]
      BY <1>5, <1>8, <2>1
    <2>4. CASE labels[n] = labels[m]
      BY <1>6, <2>1, <2>4
    <2>5. CASE labels[n] # labels[m]
      <3>1. n \in Nat \ {0} /\ m \in Nat \ {0}
        BY <1>1
      <3>2. QED
        BY <2>2, <2>3, <2>5, <3>1, NumbersApart
    <2>6. QED
      BY <2>4, <2>5
  <1>9. QED
    BY <1>7, <1>8

(* What respondents send is a response that says what they ticked. *)
LEMMA ChosenSays ==
    ASSUME ExportTypeOK, Choose
    PROVE  \E r \in Response : Says(r) /\ sealed' = Append(sealed, r)
  <1>1. Length \in Nat /\ MaxTicks \in Nat
    BY ExportAssumption DEF ExportAssumption
  <1>2. PICK ticks \in SeqOf(Lang \X (1..Length), MaxTicks), keys \in SUBSET Keys :
          /\ kind = "choice"
          /\ \A n \in DOMAIN ticks : ticks[n][2] <= Len(lists[ticks[n][1]])
          /\ sealed' = Append(sealed,
                [picks |-> [n \in DOMAIN ticks |-> ticks[n][2]],
                 answer |-> [n \in DOMAIN ticks |-> lists[ticks[n][1]][ticks[n][2]]],
                 keys |-> keys])
    BY DEF Choose
  <1> DEFINE picks == [n \in DOMAIN ticks |-> ticks[n][2]]
             answer == [n \in DOMAIN ticks |-> lists[ticks[n][1]][ticks[n][2]]]
             r == [picks |-> picks, answer |-> answer, keys |-> keys]
  <1>3. /\ Len(ticks) \in 0..MaxTicks /\ DOMAIN ticks = 1..Len(ticks)
        /\ \A n \in 1..Len(ticks) : ticks[n] \in Lang \X (1..Length)
    BY <1>1, LimitedSeq
  <1>4. ASSUME NEW n \in 1..Len(ticks)
        PROVE  /\ ticks[n][1] \in Lang /\ ticks[n][2] \in 1..Length
               /\ lists[ticks[n][1]][ticks[n][2]] \in Cell
    <2>1. ticks[n][1] \in Lang /\ ticks[n][2] \in 1..Length
      BY <1>3
    <2>2. ticks[n][2] \in 1..Len(lists[ticks[n][1]])
      BY <1>1, <1>2, <1>3, <2>1, ListFacts DEF ExportTypeOK
    <2>3. QED
      BY <2>1, <2>2, ListFacts DEF ExportTypeOK, Cell
  <1>5. picks \in [1..Len(ticks) -> 1..Length] /\ answer \in [1..Len(ticks) -> Cell]
    BY <1>3, <1>4
  <1>6. picks \in Picks /\ answer \in Cells
    BY <1>1, <1>3, <1>5, SeqIsLimited DEF Picks, Cells
  <1>7. r \in Response
    BY <1>6 DEF Response
  <1>8. Says(r)
    <2>1. r.picks = picks /\ r.answer = answer
      OBVIOUS
    <2>2. \A n \in DOMAIN picks : \E l \in Lang :
            picks[n] <= Len(lists[l]) /\ answer[n] = lists[l][picks[n]]
      BY <1>2, <1>3, <1>4
    <2>3. DOMAIN answer = DOMAIN picks
      OBVIOUS
    <2> HIDE DEF picks, answer, r
    <2>4. QED
      BY <1>2, <2>1, <2>2, <2>3 DEF Says
  <1>9. QED
    BY <1>2, <1>7, <1>8

LEMMA RatedSays ==
    ASSUME ExportTypeOK, Rate
    PROVE  \E r \in Response : Says(r) /\ sealed' = Append(sealed, r)
  <1>1. PICK n \in 1..Length, keys \in SUBSET Keys :
          /\ kind = "likert"
          /\ sealed' = Append(sealed, [picks |-> <<n>>, answer |-> <<Number(n)>>,
                                        keys |-> keys])
    BY DEF Rate
  <1>2. MaxTicks \in Nat /\ 1 \in 0..MaxTicks
    BY ExportAssumption DEF ExportAssumption
  <1>3. <<n>> \in [1..1 -> 1..Length] /\ <<Number(n)>> \in [1..1 -> Cell]
    BY DEF Cell
  <1>4. <<n>> \in Picks /\ <<Number(n)>> \in Cells
    BY <1>2, <1>3, SeqIsLimited DEF Picks, Cells
  <1> DEFINE r == [picks |-> <<n>>, answer |-> <<Number(n)>>, keys |-> keys]
  <1>5. r \in Response
    BY <1>4 DEF Response
  <1>6. Says(r)
    BY <1>1 DEF Says
  <1>7. QED
    BY <1>1, <1>5, <1>6

(* What a response is worded as. *)
LEMMA WordedIsCells ==
    ASSUME ExportTypeOK, kind \in {"choice", "likert"},
           NEW r \in Response, Says(r), NEW to \in Lang, NEW numeric \in BOOLEAN
    PROVE  Worded(r, to, numeric) \in Cells
  <1>1. MaxTicks \in Nat \ {0} /\ English \in Lang
    BY ExportAssumption DEF ExportAssumption, English, Lang
  <1>2. /\ r.answer \in Cells
        /\ Len(r.answer) \in 0..MaxTicks /\ DOMAIN r.answer = 1..Len(r.answer)
        /\ \A n \in 1..Len(r.answer) : r.answer[n] \in Cell
    BY <1>1, LimitedSeq DEF Response, Cells
  <1>3. CASE kind = "choice"
    <2> DEFINE l == IF numeric THEN English ELSE to
               f == [n \in DOMAIN r.answer |-> NormToLang(r.answer[n], l)]
    <2>1. l \in Lang
      BY <1>1
    <2> HIDE DEF l
    <2>2. ASSUME NEW n \in 1..Len(r.answer)
          PROVE  NormToLang(r.answer[n], l) \in Cell
      <3>1. CASE Places(r.answer[n]) = {}
        BY <1>2, <3>1 DEF NormToLang
      <3>2. CASE Places(r.answer[n]) # {}
        <4>1. PICK k \in Lang : FindIndex(r.answer[n]) \in 1..Len(lists[k])
          BY <3>2, IndexFound DEF ExportTypeOK
        <4>2. FindIndex(r.answer[n]) \in Nat \ {0}
          BY <4>1, ListFacts DEF ExportTypeOK
        <4>3. GetLang(FindIndex(r.answer[n]), l) \in Label
          BY <2>1, <4>2, OptionIsLabel DEF ExportTypeOK
        <4>4. QED
          BY <3>2, <4>3 DEF NormToLang, Cell
      <3>3. QED
        BY <3>1, <3>2
    <2>3. f \in [1..Len(r.answer) -> Cell]
      BY <1>2, <2>2
    <2>4. f \in Cells
      BY <1>1, <1>2, <2>3, SeqIsLimited DEF Cells
    <2>5. QED
      BY <1>3, <2>4 DEF Worded, l
  <1>4. CASE kind = "likert"
    <2>1. PICK n \in 1..Length : r.picks = <<n>>
      BY <1>4 DEF Says
    <2>2. r.picks[1] = n
      BY <2>1
    <2>3. LikertLabel(n, to) \in Cell
      BY LabelIsCell DEF ExportTypeOK
    <2>4. <<LikertLabel(n, to)>> \in [1..1 -> Cell] /\ 1 \in 0..MaxTicks
      BY <1>1, <2>3
    <2>5. <<LikertLabel(n, to)>> \in Cells
      BY <1>1, <2>4, SeqIsLimited DEF Cells
    <2>6. QED
      BY <1>2, <1>4, <2>2, <2>5 DEF Worded
  <1>5. QED
    BY <1>3, <1>4

LEMMA ExportStarts == ExportInit => ExportTypeOK /\ AsSent
  <1> SUFFICES ASSUME ExportInit PROVE ExportTypeOK /\ AsSent
    OBVIOUS
  <1>1. sealed \in Seq(Response) /\ DOMAIN sealed = {}
    BY DEF ExportInit
  <1>2. DOMAIN panel.bundle = {} /\ DOMAIN file.rows = {} /\ file.page # "table"
    BY DEF ExportInit, Closed, NoFile
  <1>3. QED
    BY <1>1, <1>2 DEF ExportInit, ExportTypeOK, AsSent, Storage

(* A step that leaves the question alone and at most adds a response.       *)
LEMMA ResponsesStay ==
    ASSUME AsSent, UNCHANGED <<kind, lists>>,
           sealed' = sealed \/ \E r \in Response : Says(r) /\ sealed' = Append(sealed, r)
    PROVE  /\ sealed' \in Seq(Response)
           /\ (\A n \in DOMAIN sealed : Says(sealed[n]))'
           /\ \A n \in DOMAIN sealed : n \in DOMAIN sealed' /\ sealed'[n] = sealed[n]
  <1>1. (\A n \in DOMAIN sealed' : Says(sealed'[n]))
        => (\A n \in DOMAIN sealed : Says(sealed[n]))'
    BY DEF Says
  <1>2. CASE sealed' = sealed
    BY <1>1, <1>2 DEF AsSent
  <1>3. ASSUME NEW r \in Response, Says(r), sealed' = Append(sealed, r)
        PROVE  /\ sealed' \in Seq(Response)
               /\ (\A n \in DOMAIN sealed : Says(sealed[n]))'
               /\ \A n \in DOMAIN sealed : n \in DOMAIN sealed' /\ sealed'[n] = sealed[n]
    <2>1. /\ sealed' \in Seq(Response)
          /\ \A n \in DOMAIN sealed : n \in DOMAIN sealed' /\ sealed'[n] = sealed[n]
          /\ \A n \in DOMAIN sealed' : n \in DOMAIN sealed \/ sealed'[n] = r
      BY <1>3 DEF AsSent
    <2>2. \A n \in DOMAIN sealed' : Says(sealed'[n])
      BY <1>3, <2>1 DEF AsSent
    <2>3. QED
      BY <1>1, <2>1, <2>2
  <1>4. QED
    BY <1>2, <1>3

(* How a response is worded depends on the question alone. *)
LEMMA WordedStays ==
    ASSUME UNCHANGED <<kind, lists>>, NEW n, NEW r, sealed'[n] = r,
           NEW to, NEW numeric
    PROVE  Worded(sealed[n], to, numeric)' = Worded(r, to, numeric)
  BY DEF Worded, NormToLang, FindIndex, Places, GetLang, LikertLabel

LEMMA RowsStay ==
    ASSUME AsSent, UNCHANGED <<kind, lists, file>>,
           \A n \in DOMAIN sealed : n \in DOMAIN sealed' /\ sealed'[n] = sealed[n],
           file.page = "table"
    PROVE  RowsWorded'
  <1>1. PICK to \in Lang, numeric \in BOOLEAN : \A n \in DOMAIN file.rows :
          /\ n \in DOMAIN sealed
          /\ file.rows[n] = [picks |-> sealed[n].picks,
                             cells |-> Join(Worded(sealed[n], to, numeric))]
    BY DEF AsSent, RowsWorded
  <1>2. ASSUME NEW n \in DOMAIN file'.rows
        PROVE  /\ n \in DOMAIN sealed'
               /\ file'.rows[n] = [picks |-> sealed'[n].picks,
                                   cells |-> Join(Worded(sealed[n], to, numeric)')]
    <2>1. PICK r : r = sealed[n]
      OBVIOUS
    <2>2. n \in DOMAIN sealed /\ sealed'[n] = r
      BY <1>1, <2>1
    <2>3. Worded(sealed[n], to, numeric)' = Worded(r, to, numeric)
      BY <2>2, WordedStays
    <2>4. QED
      BY <1>1, <2>1, <2>2, <2>3
  <1>3. QED
    BY <1>2 DEF RowsWorded

(* What is opened keeps its number in the table of responses. *)
LEMMA OpenedSealed ==
    ASSUME NEW bundle, NEW key,
           \A n \in DOMAIN bundle : n \in DOMAIN sealed /\ bundle[n] = sealed[n]
    PROVE  \A n \in DOMAIN Opened(bundle, key) :
              n \in DOMAIN sealed /\ Opened(bundle, key)[n] = sealed[n]
  BY DEF Opened

RowType == [picks : Picks, cells : Cells \cup {Join(s) : s \in Cells}]

(* Rows of the answers as they came. *)
LEMMA RawKeeps ==
    ASSUME ExportTypeOK, AsSent, NEW opened, Write("raw", opened, Raw(opened)),
           \A n \in DOMAIN opened : n \in DOMAIN sealed /\ opened[n] = sealed[n]
    PROVE  /\ file'.page # "table"
           /\ \A n \in DOMAIN file'.rows : file'.rows[n] \in RowType
  <1>1. file' = [page |-> "raw", rows |->
                   [n \in DOMAIN opened |-> [picks |-> opened[n].picks,
                                             cells |-> opened[n].answer]]]
    BY DEF Write, Rows, Raw
  <1>2. \A n \in DOMAIN sealed : sealed[n].picks \in Picks /\ sealed[n].answer \in Cells
    BY DEF ExportTypeOK, Response
  <1>3. QED
    BY <1>1, <1>2 DEF RowType

(* Rows of a table. *)
LEMMA TableKeeps ==
    ASSUME ExportTypeOK, AsSent, UNCHANGED <<kind, lists, sealed>>,
           NEW opened, NEW to \in Lang, NEW numeric \in BOOLEAN,
           Write("table", opened,
                 [n \in DOMAIN opened |-> Join(Worded(opened[n], to, numeric))]),
           \A n \in DOMAIN opened : n \in DOMAIN sealed /\ opened[n] = sealed[n]
    PROVE  /\ RowsWorded'
           /\ \A n \in DOMAIN file'.rows : file'.rows[n] \in RowType
  <1>1. /\ DOMAIN file'.rows = DOMAIN opened
        /\ \A n \in DOMAIN opened :
              file'.rows[n] = [picks |-> opened[n].picks,
                               cells |-> Join(Worded(opened[n], to, numeric))]
    BY DEF Write, Rows
  <1>2. ASSUME NEW n \in DOMAIN file'.rows
        PROVE  /\ n \in DOMAIN sealed'
               /\ file'.rows[n] = [picks |-> sealed'[n].picks,
                                   cells |-> Join(Worded(sealed[n], to, numeric)')]
               /\ file'.rows[n] \in RowType
    <2>1. PICK r : r = sealed[n]
      OBVIOUS
    <2>2. n \in DOMAIN sealed /\ opened[n] = r /\ sealed'[n] = r
      BY <1>1, <2>1
    <2>3. Worded(sealed[n], to, numeric)' = Worded(r, to, numeric)
      BY <2>2, WordedStays
    <2>4. r \in Response /\ Says(r)
      BY <2>1, <2>2 DEF AsSent, ExportTypeOK
    <2>5. Worded(r, to, numeric) \in Cells /\ r.picks \in Picks
      BY <2>4, WordedIsCells DEF AsSent, Response
    <2>6. file'.rows[n] = [picks |-> r.picks, cells |-> Join(Worded(r, to, numeric))]
      BY <1>1, <2>2
    <2>7. file'.rows[n] \in RowType
      BY <2>5, <2>6 DEF RowType
    <2>8. QED
      BY <2>2, <2>3, <2>6, <2>7
  <1>3. QED
    BY <1>2 DEF RowsWorded

LEMMA DownloadKeeps ==
    ASSUME ExportTypeOK, AsSent, Download
    PROVE  /\ file'.page = "table" => RowsWorded'
           /\ \A n \in DOMAIN file'.rows : file'.rows[n] \in RowType
  <1> DEFINE bundled == Opened(panel.bundle, ReadStoredKey)
             fetched == Opened(sealed, panel.key)
  <1>1. /\ \A n \in DOMAIN bundled : n \in DOMAIN sealed /\ bundled[n] = sealed[n]
        /\ \A n \in DOMAIN fetched : n \in DOMAIN sealed /\ fetched[n] = sealed[n]
    BY OpenedSealed DEF AsSent
  <1>2. UNCHANGED <<kind, lists, sealed>>
    BY DEF Download
  <1>3. CASE PanelLines
    <2>1. Write("raw", bundled, Raw(bundled))
      BY <1>3 DEF PanelLines
    <2> HIDE DEF bundled
    <2>2. QED
      BY <1>1, <2>1, RawKeeps
  <1>4. CASE LegacyFile
    <2>1. Write("raw", fetched, Raw(fetched))
      BY <1>4 DEF LegacyFile
    <2> HIDE DEF fetched
    <2>2. QED
      BY <1>1, <2>1, RawKeeps
  <1>5. CASE PanelTable
    <2>1. PICK to \in Lang, numeric \in BOOLEAN :
            Write("table", bundled,
                  [n \in DOMAIN bundled |-> Join(Worded(bundled[n], to, numeric))])
      BY <1>5 DEF PanelTable
    <2>2. PICK opened : opened = bundled
      OBVIOUS
    <2>3. Write("table", opened,
                [n \in DOMAIN opened |-> Join(Worded(opened[n], to, numeric))])
      BY <2>1, <2>2
    <2>4. \A n \in DOMAIN opened : n \in DOMAIN sealed /\ opened[n] = sealed[n]
      BY <1>1, <2>2
    <2>5. QED
      BY <1>2, <2>3, <2>4, TableKeeps
  <1>6. QED
    BY <1>3, <1>4, <1>5 DEF Download

LEMMA ExportKeeps ==
    ASSUME ExportTypeOK, AsSent, [ExportNext]_exportVars
    PROVE  ExportTypeOK' /\ AsSent'
  <1>1. /\ UNCHANGED <<kind, lists>>
        /\ sealed' = sealed \/ \E r \in Response : Says(r) /\ sealed' = Append(sealed, r)
    BY ChosenSays, RatedSays
       DEF ExportNext, exportVars, Answer, ImportKey, StoreElsewhere, FetchBundle,
           UnlockLegacy, Download, ExportFails
  <1>2. /\ sealed' \in Seq(Response)
        /\ (\A n \in DOMAIN sealed : Says(sealed[n]))'
        /\ \A n \in DOMAIN sealed : n \in DOMAIN sealed' /\ sealed'[n] = sealed[n]
    BY <1>1, ResponsesStay
  <1>3. \A n \in DOMAIN sealed' : sealed'[n] \in Response
    BY <1>2
  <1>4. storage' \in Storage
    BY DEF ExportNext, exportVars, Answer, ImportKey, StoreElsewhere, FetchBundle,
           UnlockLegacy, Download, ExportFails, ExportTypeOK, Storage
  <1>5. \A n \in DOMAIN panel'.bundle : n \in DOMAIN sealed' /\ panel'.bundle[n] = sealed'[n]
    <2>1. panel'.bundle \in {panel.bundle, sealed, <<>>}
      BY DEF ExportNext, exportVars, Answer, ImportKey, StoreElsewhere, FetchBundle,
             UnlockLegacy, Download, ExportFails, Closed
    <2>2. QED
      BY <1>2, <2>1 DEF AsSent
  <1>6. /\ file'.page = "table" => RowsWorded'
        /\ \A n \in DOMAIN file'.rows : file'.rows[n] \in RowType
    <2>1. CASE file' = file
      BY <1>1, <1>2, <2>1, RowsStay DEF ExportTypeOK, RowType
    <2>2. CASE file' = NoFile
      BY <2>2 DEF NoFile
    <2>3. CASE Download
      BY <2>3, DownloadKeeps
    <2>4. QED
      BY <2>1, <2>2, <2>3
         DEF ExportNext, exportVars, Answer, ImportKey, StoreElsewhere, FetchBundle,
             UnlockLegacy, ExportFails
  <1>7. QED
    BY <1>1, <1>2, <1>3, <1>4, <1>5, <1>6 DEF ExportTypeOK, AsSent, RowType

-----------------------------------------------------------------------------
(* Equal ticks, equal cells. *)

(* A choice is worded by its options in one language. *)
LEMMA ChoiceWorded ==
    ASSUME ExportTypeOK, Unambiguous, kind = "choice",
           NEW r \in Response, Says(r), NEW to \in Lang, NEW numeric \in BOOLEAN
    PROVE  /\ r.picks \in Seq(1..Length) /\ Len(r.picks) \in 0..MaxTicks
           /\ \A n \in DOMAIN r.picks :
                 /\ r.picks[n] \in 1..Length
                 /\ \E k \in Lang : r.picks[n] <= Len(lists[k])
           /\ Worded(r, to, numeric) =
                 [n \in DOMAIN r.picks |->
                    GetLang(r.picks[n], IF numeric THEN English ELSE to)]
  <1>1. Length \in Nat /\ MaxTicks \in Nat /\ English \in Lang
    BY ExportAssumption DEF ExportAssumption, English, Lang
  <1> DEFINE l == IF numeric THEN English ELSE to
  <1>2. /\ DOMAIN r.answer = DOMAIN r.picks
        /\ \A n \in DOMAIN r.picks : \E k \in Lang :
              r.picks[n] <= Len(lists[k]) /\ r.answer[n] = lists[k][r.picks[n]]
    BY DEF Says
  <1>3. /\ r.picks \in Seq(1..Length) /\ DOMAIN r.picks = 1..Len(r.picks)
        /\ Len(r.picks) \in 0..MaxTicks
        /\ \A n \in 1..Len(r.picks) : r.picks[n] \in 1..Length
    BY <1>1, LimitedSeq DEF Response, Picks
  <1>4. ASSUME NEW n \in DOMAIN r.picks
        PROVE  NormToLang(r.answer[n], l) = GetLang(r.picks[n], l)
    <2>1. PICK k \in Lang : r.picks[n] <= Len(lists[k]) /\ r.answer[n] = lists[k][r.picks[n]]
      BY <1>2
    <2>2. r.picks[n] \in 1..Len(lists[k])
      BY <1>1, <1>3, <2>1, ListFacts DEF ExportTypeOK
    <2>3. Places(r.answer[n]) # {} /\ FindIndex(r.answer[n]) = r.picks[n]
      BY <2>1, <2>2, IndexFoundAgain DEF ExportTypeOK
    <2>4. QED
      BY <2>3 DEF NormToLang
  <1>5. Worded(r, to, numeric) = [n \in DOMAIN r.picks |-> NormToLang(r.answer[n], l)]
    BY <1>2 DEF Worded
  <1>6. QED
    BY <1>2, <1>3, <1>4, <1>5

(* Where no option is empty or has the separator, the words have neither.   *)
LEMMA PlainOption ==
    ASSUME lists \in Lists, AllPlain, NEW i \in Nat \ {0}, NEW to \in Lang,
           \E k \in Lang : i <= Len(lists[k])
    PROVE  GetLang(i, to) \in Plain
  <1>1. \A l \in Lang : i <= Len(lists[l]) => lists[l][i] \in Plain /\ lists[l][i] # 0
    <2> SUFFICES ASSUME NEW l \in Lang, i <= Len(lists[l])
                 PROVE  lists[l][i] \in Plain /\ lists[l][i] # 0
      OBVIOUS
    <2>1. i \in DOMAIN lists[l]
      BY ListFacts, ExportAssumption DEF ExportAssumption
    <2>2. QED
      BY <2>1, ExportAssumption DEF ExportAssumption, AllPlain
  <1>2. QED
    BY <1>1, OptionRead

LEMMA ChoicesDiffer ==
    ASSUME ExportTypeOK, Unambiguous, kind = "choice",
           NEW r \in Response, NEW q \in Response, Says(r), Says(q),
           NEW to \in Lang, NEW numeric \in BOOLEAN
    PROVE  /\ r.picks = q.picks => Worded(r, to, numeric) = Worded(q, to, numeric)
           /\ AllPlain /\ Join(Worded(r, to, numeric)) = Join(Worded(q, to, numeric))
                 => r.picks = q.picks
  <1> DEFINE l == IF numeric THEN English ELSE to
  <1>1. l \in Lang /\ Length \in Nat /\ MaxTicks \in Nat
    BY ExportAssumption DEF ExportAssumption, English, Lang
  <1>2. ASSUME NEW a \in Response, Says(a)
        PROVE  /\ a.picks \in Seq(1..Length) /\ Len(a.picks) \in 0..MaxTicks
               /\ DOMAIN a.picks = 1..Len(a.picks)
               /\ \A n \in DOMAIN a.picks :
                     /\ a.picks[n] \in Nat \ {0}
                     /\ \E k \in Lang : a.picks[n] <= Len(lists[k])
               /\ Worded(a, to, numeric) =
                     [n \in DOMAIN a.picks |-> GetLang(a.picks[n], l)]
    <2>1. /\ a.picks \in Seq(1..Length) /\ Len(a.picks) \in 0..MaxTicks
          /\ \A n \in DOMAIN a.picks :
                /\ a.picks[n] \in 1..Length
                /\ \E k \in Lang : a.picks[n] <= Len(lists[k])
          /\ Worded(a, to, numeric) =
                [n \in DOMAIN a.picks |->
                   GetLang(a.picks[n], IF numeric THEN English ELSE to)]
      BY <1>2, ChoiceWorded
    <2>2. \A n \in DOMAIN a.picks : a.picks[n] \in Nat \ {0}
      BY <1>1, <2>1
    <2>3. QED
      BY <2>1, <2>2
  <1> HIDE DEF l
  <1>3. r.picks = q.picks => Worded(r, to, numeric) = Worded(q, to, numeric)
    BY <1>2
  <1>4. ASSUME AllPlain, NEW a \in Response, Says(a)
        PROVE  Worded(a, to, numeric) \in SeqOf(Plain, MaxTicks)
    <2>1. \A n \in DOMAIN a.picks : GetLang(a.picks[n], l) \in Plain
      BY <1>1, <1>2, <1>4, PlainOption DEF ExportTypeOK
    <2>2. Worded(a, to, numeric) \in [1..Len(a.picks) -> Plain]
      BY <1>2, <1>4, <2>1
    <2>3. QED
      BY <1>1, <1>2, <1>4, <2>2, SeqIsLimited
  <1>5. ASSUME AllPlain, Join(Worded(r, to, numeric)) = Join(Worded(q, to, numeric))
        PROVE  r.picks = q.picks
    <2>1. Worded(r, to, numeric) = Worded(q, to, numeric)
      BY <1>4, <1>5, JoinAssumption DEF JoinAssumption
    <2>2. [n \in DOMAIN r.picks |-> GetLang(r.picks[n], l)]
          = [n \in DOMAIN q.picks |-> GetLang(q.picks[n], l)]
      BY <1>2, <2>1
    <2>3. /\ DOMAIN r.picks = DOMAIN q.picks
          /\ \A n \in DOMAIN r.picks : GetLang(r.picks[n], l) = GetLang(q.picks[n], l)
      BY <2>2
    <2>4. \A n \in DOMAIN r.picks : r.picks[n] = q.picks[n]
      BY <1>1, <1>2, <2>3, OptionsDiffer DEF ExportTypeOK
    <2>5. QED
      BY <1>2, <2>3, <2>4
  <1>6. QED
    BY <1>3, <1>5

LEMMA RatingsDiffer ==
    ASSUME ExportTypeOK, Unambiguous, kind = "likert",
           NEW r, NEW q, Says(r), Says(q),
           NEW to \in Lang, NEW numeric \in BOOLEAN
    PROVE  Join(Worded(r, to, numeric)) = Join(Worded(q, to, numeric))
              <=> r.picks = q.picks
  <1>1. PICK n \in 1..Length : r.picks = <<n>> /\ r.answer = <<Number(n)>>
    BY DEF Says
  <1>2. PICK m \in 1..Length : q.picks = <<m>> /\ q.answer = <<Number(m)>>
    BY DEF Says
  <1>3. r.picks = q.picks <=> n = m
    BY <1>1, <1>2
  <1>4. CASE numeric
    <2>1. Number(n) = Number(m) <=> n = m
      BY ExportAssumption DEF ExportAssumption, Number
    <2>2. Worded(r, to, numeric) = <<Number(n)>> /\ Worded(q, to, numeric) = <<Number(m)>>
      BY <1>1, <1>2, <1>4 DEF Worded
    <2>3. Number(n) \in Cell /\ Number(m) \in Cell
      BY DEF Cell
    <2>4. QED
      BY <1>3, <2>1, <2>2, <2>3, JoinAssumption DEF JoinAssumption
  <1>5. CASE ~numeric
    <2>1. LikertLabel(n, to) = LikertLabel(m, to) <=> n = m
      BY LabelsDiffer DEF ExportTypeOK
    <2>2. /\ Worded(r, to, numeric) = <<LikertLabel(n, to)>>
          /\ Worded(q, to, numeric) = <<LikertLabel(m, to)>>
      BY <1>1, <1>2, <1>5 DEF Worded
    <2>3. LikertLabel(n, to) \in Cell /\ LikertLabel(m, to) \in Cell
      BY LabelIsCell DEF ExportTypeOK
    <2>4. QED
      BY <1>3, <2>1, <2>2, <2>3, JoinAssumption DEF JoinAssumption
  <1>6. QED
    BY <1>4, <1>5

LEMMA CellsOfTicks == ExportTypeOK /\ AsSent => SameTicksSameCell
  <1> SUFFICES ASSUME ExportTypeOK, AsSent, file.page = "table", Unambiguous,
                      NEW m \in DOMAIN file.rows, NEW n \in DOMAIN file.rows
               PROVE  /\ file.rows[m].picks = file.rows[n].picks
                            => file.rows[m].cells = file.rows[n].cells
                      /\ /\ kind = "choice" => AllPlain
                         /\ file.rows[m].cells = file.rows[n].cells
                         => file.rows[m].picks = file.rows[n].picks
    BY DEF SameTicksSameCell
  <1>1. PICK to \in Lang, numeric \in BOOLEAN : \A k \in DOMAIN file.rows :
          /\ k \in DOMAIN sealed
          /\ file.rows[k] = [picks |-> sealed[k].picks,
                             cells |-> Join(Worded(sealed[k], to, numeric))]
    BY DEF AsSent, RowsWorded
  <1> DEFINE r == sealed[m]
             q == sealed[n]
  <1>2. r \in Response /\ q \in Response /\ Says(r) /\ Says(q)
    BY <1>1 DEF AsSent, ExportTypeOK
  <1>3. /\ file.rows[m].picks = r.picks /\ file.rows[n].picks = q.picks
        /\ file.rows[m].cells = Join(Worded(r, to, numeric))
        /\ file.rows[n].cells = Join(Worded(q, to, numeric))
    <2>1. /\ file.rows[m] = [picks |-> r.picks, cells |-> Join(Worded(r, to, numeric))]
          /\ file.rows[n] = [picks |-> q.picks, cells |-> Join(Worded(q, to, numeric))]
      BY <1>1
    <2> HIDE DEF r, q
    <2>2. QED
      BY <2>1
  <1> HIDE DEF r, q
  <1>4. CASE kind = "choice"
    BY <1>2, <1>3, <1>4, ChoicesDiffer
  <1>5. CASE kind = "likert"
    BY <1>2, <1>3, <1>5, RatingsDiffer
  <1>6. QED
    BY <1>4, <1>5 DEF AsSent

(* The lists, the responses, the storage and every file have their types    *)
(* (ExportPanel.tsx, AdminScale.tsx).                                       *)
THEOREM FilesTyped == ExportSpec => []ExportTypeOK
<1>1. ExportTypeOK /\ AsSent /\ [ExportNext]_exportVars => (ExportTypeOK /\ AsSent)'
  BY ExportKeeps
<1>2. QED
  BY <1>1, ExportStarts, PTL DEF ExportSpec

(* Two respondents who ticked the same options in the same order have the   *)
(* same cell, whatever languages they ticked in, and who has the same cell  *)
(* ticked the same where no option is empty or contains the separator, for  *)
(* any number of languages, options, ticks, keys and respondents and any    *)
(* lists (ExportPanel.tsx, normToLang, mapLikertNumberToLabel and csvEsc).  *)
THEOREM CellsAreTicks == ExportSpec => []SameTicksSameCell
<1>1. ExportTypeOK /\ AsSent /\ [ExportNext]_exportVars => (ExportTypeOK /\ AsSent)'
  BY ExportKeeps
<1>2. QED
  BY <1>1, ExportStarts, CellsOfTicks, PTL DEF ExportSpec

(* The same in the whole browser, which the run admin_pages checks: its     *)
(* other pages leave the question and the file alone.                       *)
THEOREM BrowserCells == AdminSpec => []SameTicksSameCell
<1>1. AdminInit => ExportInit
  BY DEF AdminInit
<1>2. [AdminNext]_adminVars => [ExportNext]_exportVars
  BY DEF AdminNext, adminVars, exportVars
<1>3. AdminSpec => ExportSpec
  BY <1>1, <1>2, PTL DEF AdminSpec, ExportSpec
<1>4. QED
  BY <1>3, CellsAreTicks
-----------------------------------------------------------------------------
(* ScaleSettings: types.                                                    *)

(* The records that requests are made of have their fields.                 *)
LEMMA FieldTypes ==
    /\ DOMAIN FieldOf = Field
    /\ FieldOf["name"] = Text /\ FieldOf["labels"] = Value
    /\ FieldOf["security"] = Value /\ FieldOf["text"] = Text
    /\ FieldOf["config"] = Config
BY DEF FieldOf, Field

LEMMA RowByField ==
    ASSUME NEW r
    PROVE  r \in Row <=> /\ r = [f \in Field |-> r[f]]
                         /\ \A f \in Field : r[f] \in FieldOf[f]
<1>1. ASSUME r \in Row
      PROVE  /\ r = [f \in Field |-> r[f]]
             /\ \A f \in Field : r[f] \in FieldOf[f]
  BY <1>1, FieldTypes DEF Row, Field
<1>2. ASSUME r = [f \in Field |-> r[f]], \A f \in Field : r[f] \in FieldOf[f]
      PROVE  r \in Row
  BY <1>2, FieldTypes DEF Row, Field
<1>3. QED
  BY <1>1, <1>2

LEMMA SmallValues ==
    /\ Blank \in Value /\ Preset \in Value
    /\ \A e \in 0..MaxEdits : e < MaxEdits => e + 2 \in Value
    /\ MaxEdits \in Nat /\ MaxSaves \in Nat
BY SettingsAssumption DEF Blank, Preset, Value

LEMMA EmptyTyped ==
    /\ FirstText \in Text /\ FirstRow \in Row /\ EmptyForm \in Form
    /\ \A i \in Item : AuthoredItem(i) \in ItemRow
    /\ \A shape \in {"editor", "legacy"} :
          NewTab(shape) \in TabState /\ NewTab(shape).kind = shape
          /\ NewTab(shape).scale = NULL
<1>1. FirstText \in Text
  BY SmallValues DEF FirstText, Text
<1>2. FirstRow \in Row
  BY <1>1, SmallValues DEF FirstRow, Row, Config
<1>3. EmptyForm \in Form
  BY SmallValues DEF EmptyForm, Form
<1>4. \A i \in Item : AuthoredItem(i) \in ItemRow
  BY <1>1, SettingsAssumption DEF AuthoredItem, ItemRow
<1>5. ASSUME NEW shape \in {"editor", "legacy"}
      PROVE  NewTab(shape) \in TabState /\ NewTab(shape).kind = shape
             /\ NewTab(shape).scale = NULL
  BY <1>3 DEF NewTab, TabState
<1>6. QED
  BY <1>1, <1>2, <1>3, <1>4, <1>5

(* What a page makes of a row, and of what is typed.                        *)
LEMMA FormTyped ==
    ASSUME NEW shape, NEW r \in Row
    PROVE  FormOf(shape, r) \in Form
<1>1. /\ r.name.own \in Value /\ r.labels \in Value /\ r.security \in Value
      /\ r.text.own \in Value /\ r.config.options \in Value
      /\ r.config.signature \in BOOLEAN
  BY DEF Row, Text, Config
<1> DEFINE bare == shape = "legacy" /\ r.config.options = Blank
           options == IF bare THEN Preset ELSE r.config.options
           signature == bare \/ r.config.signature
<1>2. options \in Value /\ signature \in BOOLEAN
  BY <1>1, SmallValues
<1>3. FormOf(shape, r) = [name |-> r.name.own, labels |-> r.labels,
                         security |-> r.security, text |-> r.text.own,
                         options |-> options, signature |-> signature]
  BY DEF FormOf
<1> HIDE DEF options, signature
<1>4. QED
  BY <1>1, <1>2, <1>3 DEF Form

LEMMA ConfigTyped ==
    ASSUME NEW form \in Form
    PROVE  ConfigOf(form) \in Config
BY DEF ConfigOf, Config, Form

LEMMA DraftTyped ==
    ASSUME NEW p \in TabState, p.scale \in Row
    PROVE  Draft(p) \in Row
<1>1. /\ p.form.name \in Value /\ p.form.labels \in Value /\ p.form.security \in Value
      /\ p.form.text \in Value
      /\ p.form \in Form
  BY DEF TabState, Form
<1>2. p.scale.name \in Text /\ p.scale.text \in Text
  BY DEF Row
<1> DEFINE name == [p.scale.name EXCEPT !.own = p.form.name]
           text == IF p.kind = "editor" THEN [own |-> p.form.text, other |-> 0]
                   ELSE [p.scale.text EXCEPT !.own = p.form.text]
<1>3. name \in Text
  BY <1>1, <1>2 DEF Text
<1>4. text \in Text
  BY <1>1, <1>2 DEF Text
<1>5. Draft(p) = [name |-> name, labels |-> p.form.labels,
                  security |-> p.form.security, text |-> text,
                  config |-> ConfigOf(p.form)]
  BY DEF Draft
<1> HIDE DEF name, text
<1>6. QED
  BY <1>1, <1>3, <1>4, <1>5, ConfigTyped DEF Row

Sendable(sent) ==
    \A f \in DOMAIN sent : f \in Field /\ sent[f] \in FieldOf[f]

LEMMA MergeTyped ==
    ASSUME NEW old \in Row, NEW sent, Sendable(sent)
    PROVE  Merge(old, sent) \in Row
<1>1. \A f \in Field : old[f] \in FieldOf[f]
  BY RowByField
<1>2. ASSUME NEW f \in Field PROVE Merge(old, sent)[f] \in FieldOf[f]
  BY <1>1 DEF Merge, Named, Sendable
<1>3. Merge(old, sent) = [f \in Field |-> Merge(old, sent)[f]]
  BY DEF Merge
<1>4. QED
  BY <1>2, <1>3, RowByField

LEMMA ShownTyped ==
    ASSUME NEW base \in Row, NEW sent, Sendable(sent)
    PROVE  Shown(base, sent) \in Row
<1>1. \A f \in Field : base[f] \in FieldOf[f]
  BY RowByField
<1>2. ASSUME NEW f \in Field PROVE Shown(base, sent)[f] \in FieldOf[f]
  <2>1. CASE f \notin DOMAIN sent \/ f # "text"
    BY <1>1, <2>1 DEF Shown, Sendable
  <2>2. CASE f \in DOMAIN sent /\ f = "text"
    <3> DEFINE own == IF sent.text.own = Blank THEN base.text.own ELSE sent.text.own
    <3>1. sent.text \in Text /\ base.text \in Text
      BY <1>1, <2>2, FieldTypes DEF Sendable, Field
    <3>2. own \in Value
      BY <3>1 DEF Text
    <3>3. Shown(base, sent)[f] = [base.text EXCEPT !.own = own]
      BY <2>2 DEF Shown
    <3> HIDE DEF own
    <3>4. [base.text EXCEPT !.own = own] \in Text
      BY <3>1, <3>2 DEF Text
    <3>5. QED
      BY <2>2, <3>3, <3>4, FieldTypes
  <2>3. QED
    BY <2>1, <2>2
<1>3. Shown(base, sent) = [f \in Field |-> Shown(base, sent)[f]]
  BY DEF Shown
<1>4. QED
  BY <1>2, <1>3, RowByField

(* The next item to be sent is one of them.                                 *)
LEMMA ForemostIsOne ==
    ASSUME NEW todo, DOMAIN todo \subseteq Nat, DOMAIN todo # {},
           \A i \in DOMAIN todo : todo[i] \in Nat
    PROVE  Foremost(todo) \in DOMAIN todo
<1> DEFINE P == {todo[i] : i \in DOMAIN todo}
<1>1. PICK p \in P : \A q \in P : p <= q
  <2>1. P \in SUBSET Nat /\ P # {}
    OBVIOUS
  <2>2. QED
    BY <2>1, LeastNumber
<1> DEFINE I == {i \in DOMAIN todo : todo[i] = p}
<1>2. PICK i \in I : \A j \in I : i <= j
  <2>1. I \in SUBSET Nat /\ I # {}
    BY <1>1
  <2>2. QED
    BY <2>1, LeastNumber
<1>3. \A j \in DOMAIN todo \ {i} : todo[i] < todo[j] \/ (todo[i] = todo[j] /\ i < j)
  <2> TAKE j \in DOMAIN todo \ {i}
  <2>1. todo[i] = p /\ p <= todo[j] /\ p \in Nat /\ todo[j] \in Nat /\ i \in Nat /\ j \in Nat
    BY <1>1, <1>2
  <2>2. CASE todo[j] = p
    <3>1. i <= j /\ i # j
      BY <1>2, <2>2
    <3>2. QED
      BY <2>1, <2>2, <3>1
  <2>3. CASE todo[j] # p
    BY <2>1, <2>3
  <2>4. QED
    BY <2>2, <2>3
<1>4. i \in DOMAIN todo
  BY <1>2
<1>5. QED
  BY <1>3, <1>4 DEF Foremost

RowTyped ==
    /\ row \in Row /\ items \in [Item -> ItemRow]
    /\ edits \in 0..MaxEdits /\ saves \in 0..MaxSaves
    /\ \A f \in Field : told[f] # NULL => told[f] \in FieldOf[f]

SettingsTyped ==
    /\ RowTyped /\ tab \in [Tab -> TabState]
    /\ CallsTyped /\ EditorMerges /\ LegacyHasItems

(* What a page that has the scale has.                                      *)
LEMMA PageHas ==
    ASSUME SettingsTyped, NEW t \in Tab
    PROVE  /\ tab[t] \in TabState
           /\ tab[t].kind \in {"editor", "legacy"} /\ tab[t].form \in Form
           /\ tab[t].timer \in Config \cup {NULL}
           /\ tab[t].preview \in BOOLEAN /\ tab[t].applying \in BOOLEAN
           /\ tab[t].scale \in Row \cup {NULL}
           /\ tab[t].list \in [Item -> ItemRow] \cup {NULL}
           /\ Open(t) => tab[t].scale \in Row
           /\ Legacy(t) => tab[t].list \in [Item -> ItemRow]
           /\ ConfigOf(tab[t].form) \in Config
<1>1. tab[t] \in TabState
  BY DEF SettingsTyped, RowTyped
<1>2. QED
  BY <1>1, ConfigTyped DEF TabState, Open, Legacy, SettingsTyped, LegacyHasItems

(* Requests.                                                                *)
LEMMA IdleTyped ==
    /\ CallTyped(Idle)
    /\ \A t \in Tab : CallTyped(LoadOf(t))
    /\ Idle.then = "none" /\ \A t : LoadOf(t).op = "load" /\ LoadOf(t).tab = t
<1>1. /\ Idle.op = "idle" /\ Idle.tab = NULL /\ Idle.fields = <<>> /\ Idle.then = "none"
      /\ Idle.todo = <<>> /\ Idle.patch = <<>> /\ Idle.phase = "sent"
      /\ Idle.seen = NULL /\ Idle.got = NULL /\ Idle.sure = {} /\ Idle.base = NULL
  BY DEF Idle
<1>2. DOMAIN <<>> = {}
  OBVIOUS
<1>3. CallTyped(Idle)
  BY <1>1, <1>2 DEF CallTyped
<1>4. ASSUME NEW t
      PROVE  /\ LoadOf(t).op = "load" /\ LoadOf(t).tab = t
             /\ LoadOf(t).fields = <<>>
             /\ LoadOf(t).todo = <<>> /\ LoadOf(t).patch = <<>>
             /\ LoadOf(t).phase = "sent" /\ LoadOf(t).seen = NULL
             /\ LoadOf(t).got = NULL /\ LoadOf(t).sure = {}
  BY <1>1, IdleIsCall DEF LoadOf, IsCall, CallField
<1>5. ASSUME NEW t \in Tab PROVE CallTyped(LoadOf(t))
  BY <1>2, <1>4 DEF CallTyped
<1>6. QED
  BY <1>1, <1>3, <1>4, <1>5

LEMMA SureTyped ==
    ASSUME NEW c, IsCall(c), CallTyped(c), NEW sure, sure \subseteq DOMAIN c.fields
    PROVE  CallTyped([c EXCEPT !.sure = sure])
<1> DEFINE d == [c EXCEPT !.sure = sure]
<1>1. /\ d.op = c.op /\ d.tab = c.tab /\ d.fields = c.fields /\ d.base = c.base
      /\ d.then = c.then /\ d.todo = c.todo /\ d.patch = c.patch /\ d.phase = c.phase
      /\ d.seen = c.seen /\ d.got = c.got /\ d.sure = sure /\ d.heard = c.heard
  BY DEF IsCall, CallField
<1> HIDE DEF d
<1>2. QED
  BY <1>1 DEF CallTyped

LEMMA OrphanTyped ==
    ASSUME NEW c, IsCall(c), CallTyped(c), c.op = "save"
    PROVE  CallTyped(Orphan(c)) /\ Orphan(c).then = "none"
<1> DEFINE o == [Idle EXCEPT !.op = "save", !.heard = FALSE, !.phase = c.phase]
<1>0. Idle = [x \in CallField |-> Idle[x]]
  BY IdleIsCall DEF IsCall
<1>1. /\ Idle.op = "idle" /\ Idle.tab = NULL /\ Idle.fields = <<>> /\ Idle.then = "none"
      /\ Idle.todo = <<>> /\ Idle.patch = <<>>
      /\ Idle.seen = NULL /\ Idle.got = NULL /\ Idle.sure = {}
  BY DEF Idle
<1>2. /\ o = [x \in CallField |-> o[x]]
      /\ o.op = "save" /\ o.heard = FALSE /\ o.phase = c.phase
      /\ o.tab = NULL /\ o.fields = <<>> /\ o.then = "none" /\ o.todo = <<>>
      /\ o.patch = <<>> /\ o.seen = NULL /\ o.got = NULL /\ o.sure = {}
  BY <1>0, <1>1 DEF CallField
<1>3. Orphan(c) = IF c.phase = "items"
                  THEN [o EXCEPT !.todo = [i \in {Foremost(c.todo)} |-> 0],
                                 !.patch = c.patch]
                  ELSE [o EXCEPT !.fields = c.fields, !.seen = c.seen]
  BY DEF Orphan
<1>4. DOMAIN <<>> = {}
  OBVIOUS
<1> HIDE DEF o
<1>5. CASE c.phase = "items"
  <2> DEFINE todo == [i \in {Foremost(c.todo)} |-> 0]
             d == [o EXCEPT !.todo = todo, !.patch = c.patch]
  <2>1. Foremost(c.todo) \in DOMAIN c.todo
    <3>1. DOMAIN c.todo \subseteq Nat /\ DOMAIN c.todo # {}
      BY <1>5, SettingsAssumption DEF CallTyped
    <3>2. QED
      BY <3>1, ForemostIsOne DEF CallTyped
  <2>2. DOMAIN todo \subseteq DOMAIN c.patch /\ DOMAIN todo # {}
        /\ \A i \in DOMAIN todo : todo[i] \in Nat
    BY <2>1 DEF CallTyped
  <2> HIDE DEF todo
  <2>3. /\ d.op = "save" /\ d.heard = FALSE /\ d.phase = c.phase
        /\ d.tab = NULL /\ d.fields = <<>> /\ d.then = "none" /\ d.todo = todo
        /\ d.patch = c.patch /\ d.seen = NULL /\ d.got = NULL /\ d.sure = {}
    BY <1>2 DEF CallField
  <2>4. Orphan(c) = d
    BY <1>3, <1>5 DEF todo
  <2> HIDE DEF d
  <2>5. QED
    BY <1>4, <1>5, <2>2, <2>3, <2>4 DEF CallTyped
<1>6. CASE c.phase # "items"
  <2> DEFINE d == [o EXCEPT !.fields = c.fields, !.seen = c.seen]
  <2>1. /\ d.op = "save" /\ d.heard = FALSE /\ d.phase = c.phase
        /\ d.tab = NULL /\ d.fields = c.fields /\ d.then = "none" /\ d.todo = <<>>
        /\ d.patch = <<>> /\ d.seen = c.seen /\ d.got = NULL /\ d.sure = {}
    BY <1>2 DEF CallField
  <2>2. Orphan(c) = d
    BY <1>3, <1>6
  <2> HIDE DEF d
  <2>3. QED
    BY <1>4, <1>6, <2>1, <2>2 DEF CallTyped
<1>7. QED
  BY <1>5, <1>6

(* One request changes, or begins.                                          *)
LEMMA BecomesTyped ==
    ASSUME Calls, CallsTyped, NEW s \in Slot, NEW d, Becomes(s, d), CallTyped(d)
    PROVE  CallsTyped'
<1>1. calls'[s] = d /\ \A r \in Slot \ {s} : calls'[r] = calls[r]
  BY DEF Becomes, Calls
<1>2. QED
  BY <1>1 DEF CallsTyped

LEMMA BeginTyped ==
    ASSUME Calls, CallsTyped, NEW s \in Slot, NEW c, IsCall(c), CallTyped(c),
           Begin(s, c)
    PROVE  CallsTyped'
<1> DEFINE sure == Named(c.fields) \ UNION {DOMAIN calls[q].fields : q \in Slot}
           d == [c EXCEPT !.sure = sure]
           e(r) == [calls[r] EXCEPT !.sure = @ \ DOMAIN c.fields]
<1>1. calls' = [r \in Slot |-> IF r = s THEN d ELSE e(r)]
  BY DEF Begin
<1>2. CallTyped(d)
  <2>1. sure \subseteq DOMAIN c.fields
    BY DEF Named
  <2> HIDE DEF sure
  <2>2. QED
    BY <2>1, SureTyped
<1>3. ASSUME NEW r \in Slot PROVE CallTyped(e(r))
  <2>1. IsCall(calls[r]) /\ CallTyped(calls[r])
    BY DEF Calls, CallsTyped
  <2>2. calls[r].sure \ DOMAIN c.fields \subseteq DOMAIN calls[r].fields
    BY <2>1 DEF CallTyped
  <2>3. QED
    BY <2>1, <2>2, SureTyped
<1> HIDE DEF d, e
<1>4. QED
  BY <1>1, <1>2, <1>3 DEF CallsTyped

(* What the buttons send.                                                   *)
LEMMA PressTyped ==
    ASSUME Calls, SettingsTyped, NEW t \in Tab, NEW sent, Sendable(sent),
           NEW then \in {"merge", "none"}, then = "merge" => tab[t].scale \in Row,
           Press(t, sent, then)
    PROVE  CallsTyped'
<1> DEFINE base == IF then = "merge" THEN tab[t].scale ELSE NULL
           c == [Idle EXCEPT !.op = "save", !.tab = t, !.fields = sent,
                             !.then = then, !.base = base]
<1>1. PICK s \in Slot : Begin(s, c)
  BY DEF Press
<1>2. /\ Idle.todo = <<>> /\ Idle.patch = <<>> /\ Idle.phase = "sent"
      /\ Idle.seen = NULL /\ Idle.got = NULL /\ Idle.sure = {}
  BY DEF Idle
<1>3. then = "merge" => base \in Row
  OBVIOUS
<1>4. DOMAIN <<>> = {}
  OBVIOUS
<1> HIDE DEF base
<1>5. /\ c = [x \in CallField |-> c[x]]
      /\ c.op = "save" /\ c.tab = t /\ c.fields = sent /\ c.then = then
      /\ c.base = base /\ c.phase = "sent" /\ c.todo = <<>> /\ c.patch = <<>>
      /\ c.seen = NULL /\ c.got = NULL /\ c.sure = {}
  BY <1>2, IdleIsCall DEF IsCall, CallField
<1> HIDE DEF c
<1>6. CallTyped(c)
  BY <1>3, <1>4, <1>5 DEF CallTyped, Sendable
<1>7. IsCall(c)
  BY <1>5 DEF IsCall, Sendable
<1>8. QED
  BY <1>1, <1>6, <1>7, BeginTyped DEF SettingsTyped

LEMMA ConfigSent ==
    ASSUME Calls, SettingsTyped, NEW t \in Tab, NEW config \in Config,
           PressConfig(t, config)
    PROVE  CallsTyped'
<1> DEFINE sent == [config |-> config]
<1>1. Sendable(sent)
  BY FieldTypes DEF Sendable, Field
<1>2. Press(t, sent, "none")
  BY DEF PressConfig
<1> HIDE DEF sent
<1>3. QED
  BY <1>1, <1>2, PressTyped

LEMMA PanelSent ==
    ASSUME Calls, SettingsTyped, NEW t \in Tab, SavePanel(t)
    PROVE  CallsTyped'
<1>1. PICK shown \in Panels(tab[t].kind) :
          Press(t, [f \in shown |-> Draft(tab[t])[f]],
                IF tab[t].kind = "editor" THEN "merge" ELSE "none")
  BY DEF SavePanel
<1>2. shown \subseteq Field
  BY DEF Panels, Field
<1>3. tab[t].scale \in Row /\ Draft(tab[t]) \in Row
  BY PageHas, DraftTyped DEF SavePanel
<1>4. Sendable([f \in shown |-> Draft(tab[t])[f]])
  BY <1>2, <1>3, RowByField DEF Sendable
<1>5. QED
  BY <1>1, <1>3, <1>4, PressTyped

LEMMA ApplySent ==
    ASSUME Calls, SettingsTyped, NEW t \in Tab, Apply(t)
    PROVE  CallsTyped'
<1>1. PICK s \in Slot, chosen \in SUBSET Listed(t), texts \in SUBSET {"name", "text"} :
        Begin(s,
             [Idle EXCEPT !.op = "save", !.tab = t, !.then = "reload",
                !.phase = IF chosen = {} THEN "sent" ELSE "items",
                !.todo = [i \in chosen |-> tab[t].list[i].position],
                !.patch = [i \in chosen |->
                    [NoItem EXCEPT !.stem = Translated(tab[t].list[i].stem)]],
                !.fields = [f \in texts |-> Translated(tab[t].scale[f])]])
  BY DEF Apply
<1> DEFINE todo == [i \in chosen |-> tab[t].list[i].position]
           patch == [i \in chosen |->
                        [NoItem EXCEPT !.stem = Translated(tab[t].list[i].stem)]]
           fields == [f \in texts |-> Translated(tab[t].scale[f])]
           phase == IF chosen = {} THEN "sent" ELSE "items"
           c == [Idle EXCEPT !.op = "save", !.tab = t, !.then = "reload",
                    !.phase = phase, !.todo = todo, !.patch = patch, !.fields = fields]
<1>2. Begin(s, c)
  BY <1>1
<1>3. ASSUME NEW text \in Text PROVE Translated(text) \in Text
  BY DEF Translated, Text
<1>4. Sendable(fields)
  <2>1. tab[t].scale \in Row
    BY PageHas DEF Apply
  <2>2. \A f \in texts : f \in Field /\ FieldOf[f] = Text
    BY FieldTypes DEF Field
  <2>3. \A f \in texts : tab[t].scale[f] \in Text
    BY <2>1, <2>2, RowByField
  <2>4. QED
    BY <1>3, <2>2, <2>3 DEF Sendable
<1>5. chosen \subseteq Item /\ (chosen # {} => tab[t].list \in [Item -> ItemRow])
  BY PageHas DEF Listed
<1>6. ASSUME NEW i \in chosen PROVE todo[i] \in Nat /\ patch[i] \in ItemRow
  <2>1. tab[t].list[i] \in ItemRow
    BY <1>5
  <2>2. tab[t].list[i].position \in Nat /\ Translated(tab[t].list[i].stem) \in Text
    BY <1>3, <2>1 DEF ItemRow
  <2> DEFINE stem == Translated(tab[t].list[i].stem)
  <2>3. patch[i] = [NoItem EXCEPT !.stem = stem]
    OBVIOUS
  <2>4. stem \in Text
    BY <2>2
  <2> HIDE DEF stem, patch
  <2>5. [NoItem EXCEPT !.stem = stem] \in ItemRow
    BY <2>4 DEF NoItem, ItemRow
  <2>6. QED
    BY <2>2, <2>3, <2>5
<1>7. DOMAIN todo = chosen /\ DOMAIN patch = chosen
      /\ phase \in {"sent", "items"} /\ (phase = "items" => chosen # {})
  OBVIOUS
<1>8. DOMAIN fields \subseteq Field
  BY <1>4 DEF Sendable
<1>9. Idle.seen = NULL /\ Idle.got = NULL /\ Idle.sure = {}
  BY DEF Idle
<1> HIDE DEF todo, patch, fields, phase
<1>10. /\ c = [x \in CallField |-> c[x]]
       /\ c.op = "save" /\ c.tab = t /\ c.fields = fields /\ c.then = "reload"
       /\ c.phase = phase /\ c.todo = todo /\ c.patch = patch
       /\ c.seen = NULL /\ c.got = NULL /\ c.sure = {}
  BY <1>9, IdleIsCall DEF IsCall, CallField
<1> HIDE DEF c
<1>11. CallTyped(c)
  BY <1>4, <1>5, <1>6, <1>7, <1>10 DEF CallTyped, Sendable
<1>12. IsCall(c)
  BY <1>8, <1>10 DEF IsCall
<1>13. QED
  BY <1>2, <1>11, <1>12, BeginTyped DEF SettingsTyped

LEMMA ItemSent ==
    ASSUME Calls, SettingsTyped, NEW t \in Tab, SaveItem(t)
    PROVE  CallsTyped'
<1>1. PICK s \in Slot, i \in Item :
        Begin(s, [Idle EXCEPT !.op = "save", !.tab = t, !.phase = "items",
                         !.todo = [j \in {i} |-> 0],
                         !.patch = [j \in {i} |-> [tab[t].list[i] EXCEPT
                                        !.options = FALSE, !.position = 0]]])
  BY DEF SaveItem
<1> DEFINE todo == [j \in {i} |-> 0]
           item == [tab[t].list[i] EXCEPT !.options = FALSE, !.position = 0]
           patch == [j \in {i} |-> item]
           c == [Idle EXCEPT !.op = "save", !.tab = t, !.phase = "items",
                             !.todo = todo, !.patch = patch]
<1>2. Begin(s, c)
  BY <1>1
<1>3. item \in ItemRow
  <2>1. tab[t].list[i] \in ItemRow
    BY PageHas DEF SaveItem
  <2>2. QED
    BY <2>1 DEF ItemRow
<1>4. DOMAIN todo = {i} /\ DOMAIN patch = {i} /\ todo[i] = 0 /\ patch[i] \in ItemRow
  BY <1>3
<1>5. /\ Idle.seen = NULL /\ Idle.got = NULL /\ Idle.sure = {} /\ Idle.fields = <<>>
      /\ Idle.then = "none"
  BY DEF Idle
<1>6. DOMAIN <<>> = {}
  OBVIOUS
<1> HIDE DEF todo, item, patch
<1>7. /\ c = [x \in CallField |-> c[x]]
      /\ c.op = "save" /\ c.tab = t /\ c.fields = <<>> /\ c.then = "none"
      /\ c.phase = "items" /\ c.todo = todo /\ c.patch = patch
      /\ c.seen = NULL /\ c.got = NULL /\ c.sure = {}
  BY <1>5, IdleIsCall DEF IsCall, CallField
<1> HIDE DEF c
<1>8. CallTyped(c)
  BY <1>4, <1>6, <1>7 DEF CallTyped
<1>9. IsCall(c)
  BY <1>6, <1>7 DEF IsCall
<1>10. QED
  BY <1>2, <1>8, <1>9, BeginTyped DEF SettingsTyped

(* What the server and the network do to a request.                         *)
LEMMA RequestTyped ==
    ASSUME Calls, SettingsTyped, NEW s \in Slot, Request(s)
    PROVE  CallsTyped'
<1> DEFINE c == calls[s]
<1>0. IsCall(c) /\ CallTyped(c) /\ CallsTyped /\ row \in Row
      /\ items \in [Item -> ItemRow]
  BY DEF Calls, SettingsTyped, CallsTyped, RowTyped
<1>1. CASE GetScale(s)
  <2> DEFINE d == [c EXCEPT !.seen = row]
  <2>1. /\ d.op = c.op /\ d.tab = c.tab /\ d.fields = c.fields /\ d.base = c.base
        /\ d.then = c.then /\ d.todo = c.todo /\ d.patch = c.patch /\ d.phase = c.phase
        /\ d.seen = row /\ d.got = c.got /\ d.sure = c.sure /\ d.heard = c.heard
    BY <1>0 DEF IsCall, CallField
  <2>2. Becomes(s, d)
    BY <1>1 DEF GetScale
  <2> HIDE DEF d
  <2>3. CallTyped(d)
    BY <1>0, <2>1 DEF CallTyped
  <2>4. QED
    BY <1>0, <2>2, <2>3, BecomesTyped
<1>2. CASE GetItems(s)
  <2> DEFINE d == [c EXCEPT !.got = items]
  <2>1. /\ d.op = c.op /\ d.tab = c.tab /\ d.fields = c.fields /\ d.base = c.base
        /\ d.then = c.then /\ d.todo = c.todo /\ d.patch = c.patch /\ d.phase = c.phase
        /\ d.seen = c.seen /\ d.got = items /\ d.sure = c.sure /\ d.heard = c.heard
    BY <1>0 DEF IsCall, CallField
  <2>2. Becomes(s, d)
    BY <1>2 DEF GetItems
  <2> HIDE DEF d
  <2>3. CallTyped(d)
    BY <1>0, <2>1 DEF CallTyped
  <2>4. QED
    BY <1>0, <2>2, <2>3, BecomesTyped
<1>3. CASE PutItem(s)
  <2> DEFINE p == IF DOMAIN Rest(c.todo) # {} THEN "items"
                  ELSE IF DOMAIN c.fields = {} THEN "done" ELSE "sent"
             d == [c EXCEPT !.todo = Rest(c.todo), !.phase = p]
  <2>1. /\ d.op = c.op /\ d.tab = c.tab /\ d.fields = c.fields /\ d.base = c.base
        /\ d.then = c.then /\ d.todo = Rest(c.todo) /\ d.patch = c.patch /\ d.phase = p
        /\ d.seen = c.seen /\ d.got = c.got /\ d.sure = c.sure /\ d.heard = c.heard
    BY <1>0 DEF IsCall, CallField
  <2>2. Becomes(s, Idle) \/ Becomes(s, d)
    BY <1>3 DEF PutItem
  <2>3. p \in {"items", "done", "sent"} /\ (p = "items" => DOMAIN Rest(c.todo) # {})
    OBVIOUS
  <2>4. DOMAIN Rest(c.todo) \subseteq DOMAIN c.todo
        /\ \A i \in DOMAIN Rest(c.todo) : Rest(c.todo)[i] = c.todo[i]
    BY DEF Rest
  <2> HIDE DEF d, p
  <2>5. CallTyped(d)
    BY <1>0, <2>1, <2>3, <2>4 DEF CallTyped
  <2>6. QED
    BY <1>0, <2>2, <2>5, IdleTyped, BecomesTyped
<1>4. CASE ReadScale(s)
  <2> DEFINE others == {r \in Slot : Between(r)}
             sure == IF others = {} THEN c.sure ELSE {}
             d == [c EXCEPT !.phase = "read", !.seen = row, !.sure = sure]
             e(r) == [calls[r] EXCEPT !.sure = {}]
  <2>1. calls' = [r \in Slot |-> IF r = s THEN d
                                 ELSE IF r \in others THEN e(r) ELSE calls[r]]
    BY <1>4 DEF ReadScale
  <2>2. sure \subseteq c.sure
    OBVIOUS
  <2> HIDE DEF sure, others
  <2>3. /\ d.op = c.op /\ d.tab = c.tab /\ d.fields = c.fields /\ d.base = c.base
        /\ d.then = c.then /\ d.todo = c.todo /\ d.patch = c.patch /\ d.phase = "read"
        /\ d.seen = row /\ d.got = c.got /\ d.sure = sure /\ d.heard = c.heard
    BY <1>0 DEF IsCall, CallField
  <2>4. ASSUME NEW r \in Slot PROVE CallTyped(e(r)) /\ CallTyped(calls[r])
    BY SureTyped DEF Calls, SettingsTyped, CallsTyped
  <2> HIDE DEF d, e
  <2>5. CallTyped(d)
    BY <1>0, <2>2, <2>3 DEF CallTyped
  <2>6. QED
    BY <2>1, <2>4, <2>5 DEF CallsTyped
<1>5. CASE WriteScale(s)
  <2> DEFINE d == [c EXCEPT !.phase = "done", !.seen = NULL]
  <2>1. /\ d.op = c.op /\ d.tab = c.tab /\ d.fields = c.fields /\ d.base = c.base
        /\ d.then = c.then /\ d.todo = c.todo /\ d.patch = c.patch /\ d.phase = "done"
        /\ d.seen = NULL /\ d.got = c.got /\ d.sure = c.sure /\ d.heard = c.heard
    BY <1>0 DEF IsCall, CallField
  <2>2. Becomes(s, Idle) \/ Becomes(s, d)
    BY <1>5 DEF WriteScale
  <2> HIDE DEF d
  <2>3. CallTyped(d)
    BY <1>0, <2>1 DEF CallTyped
  <2>4. QED
    BY <1>0, <2>2, <2>3, IdleTyped, BecomesTyped
<1>6. CASE Loaded(s) \/ LoadFailed(s) \/ Dropped(s)
  <2>1. Becomes(s, Idle)
    BY <1>6 DEF Loaded, LoadFailed, Dropped
  <2>2. QED
    BY <1>0, <2>1, IdleTyped, BecomesTyped
<1>7. CASE Saved(s)
  <2>1. Becomes(s, Idle) \/ Becomes(s, LoadOf(c.tab))
    BY <1>7 DEF Saved
  <2>2. c.tab \in Tab
    BY <1>0, <1>7 DEF Saved, CallTyped
  <2>3. QED
    BY <1>0, <2>1, <2>2, IdleTyped, BecomesTyped
<1>8. CASE Failed(s)
  <2>1. c.op = "save" /\ (Becomes(s, Idle) \/ Becomes(s, Orphan(c)))
    BY <1>8 DEF Failed
  <2>2. QED
    BY <1>0, <2>1, IdleTyped, OrphanTyped, BecomesTyped
<1>9. QED
  BY <1>1, <1>2, <1>3, <1>4, <1>5, <1>6, <1>7, <1>8 DEF Request

LEMMA LeavingTyped ==
    ASSUME Calls, SettingsTyped, NEW t \in Tab, OpenOther(t) \/ ReloadPage(t)
    PROVE  CallsTyped'
<1> SUFFICES ASSUME NEW s \in Slot PROVE CallTyped(calls'[s])
  BY DEF CallsTyped
<1> DEFINE c == calls[s]
           d == [c EXCEPT !.then = "none", !.base = NULL]
<1>0. IsCall(c) /\ CallTyped(c)
  BY DEF Calls, SettingsTyped, CallsTyped
<1>1. \/ calls'[s] = c \/ calls'[s] = Idle
      \/ calls'[s] = d
      \/ c.op = "save" /\ calls'[s] = Orphan(c)
  BY DEF OpenOther, ReloadPage
<1>2. /\ d.op = c.op /\ d.tab = c.tab /\ d.fields = c.fields /\ d.base = NULL
      /\ d.then = "none" /\ d.todo = c.todo /\ d.patch = c.patch /\ d.phase = c.phase
      /\ d.seen = c.seen /\ d.got = c.got /\ d.sure = c.sure /\ d.heard = c.heard
  BY <1>0 DEF IsCall, CallField
<1> HIDE DEF d
<1>3. CallTyped(d)
  BY <1>0, <1>2 DEF CallTyped
<1>4. QED
  BY <1>0, <1>1, <1>3, IdleTyped, OrphanTyped

LEMMA CallsStayTyped ==
    ASSUME Calls, SettingsTyped, [SettingsNext]_settingsVars
    PROVE  CallsTyped'
<1>0. CallsTyped
  BY DEF SettingsTyped
<1>1. CASE calls' = calls
  BY <1>0, <1>1 DEF CallsTyped
<1>2. ASSUME NEW t \in Tab, Page(t) PROVE CallsTyped'
  <2>1. CASE Load(t)
    <3>1. PICK s \in Slot : Becomes(s, LoadOf(t))
      BY <2>1 DEF Load
    <3>2. QED
      BY <1>0, <3>1, IdleTyped, BecomesTyped
  <2>2. CASE EditForm(t) \/ EditOption(t) \/ Preview(t) \/ Hide(t)
    BY <1>1, <2>2 DEF EditForm, EditOption, Preview, Hide
  <2>3. tab[t].form \in Form /\ ConfigOf(tab[t].form) \in Config
        /\ tab[t].timer \in Config \cup {NULL}
    BY PageHas
  <2>4. CASE ChangeOptions(t)
    <3>1. Fresh \in Value
      BY <2>4, SmallValues DEF ChangeOptions, Typed, Fresh, SettingsTyped, RowTyped
    <3>2. [ConfigOf(tab[t].form) EXCEPT !.options = Fresh] \in Config
      BY <2>3, <3>1 DEF Config
    <3>3. QED
      BY <2>4, <3>2, ConfigSent DEF ChangeOptions
  <2>5. CASE TickSignature(t)
    <3> DEFINE config == [ConfigOf(tab[t].form) EXCEPT !.signature = ~@]
    <3>1. PressConfig(t, config) \/ calls' = calls
      BY <2>5 DEF TickSignature
    <3>2. config \in Config
      BY <2>3 DEF Config
    <3> HIDE DEF config
    <3>3. QED
      BY <1>1, <3>1, <3>2, ConfigSent
  <2>6. CASE ChoosePreset(t) \/ TimerFires(t)
    <3>1. ChoosePreset(t) => calls' = calls \/ PressConfig(t, ConfigOf(tab[t].form))
      BY DEF ChoosePreset
    <3>2. TimerFires(t) => tab[t].timer # NULL /\ PressConfig(t, tab[t].timer)
      BY DEF TimerFires
    <3>3. QED
      BY <1>1, <2>3, <2>6, <3>1, <3>2, ConfigSent
  <2>7. QED
    BY <1>2, <2>1, <2>2, <2>4, <2>5, <2>6, PanelSent, ApplySent, ItemSent, LeavingTyped
    DEF Page
<1>3. QED
  BY <1>1, <1>2, RequestTyped DEF SettingsNext, settingsVars
-----------------------------------------------------------------------------
(* Pages.                                                                   *)

TabField == {"kind", "scale", "list", "form", "timer", "preview", "applying"}

LEMMA TabByField ==
    ASSUME NEW p
    PROVE  p \in TabState <=>
             /\ p = [x \in TabField |-> p[x]]
             /\ p.kind \in {"editor", "legacy"} /\ p.scale \in Row \cup {NULL}
             /\ p.list \in [Item -> ItemRow] \cup {NULL} /\ p.form \in Form
             /\ p.timer \in Config \cup {NULL}
             /\ p.preview \in BOOLEAN /\ p.applying \in BOOLEAN
<1> DEFINE R == Row \cup {NULL}
           L == [Item -> ItemRow] \cup {NULL}
           M == Config \cup {NULL}
<1>1. TabState = [kind : {"editor", "legacy"}, scale : R, list : L, form : Form,
                  timer : M, preview : BOOLEAN, applying : BOOLEAN]
  BY DEF TabState
<1> HIDE DEF R, L, M
<1>2. p \in TabState <=>
             /\ p = [x \in TabField |-> p[x]]
             /\ p.kind \in {"editor", "legacy"} /\ p.scale \in R
             /\ p.list \in L /\ p.form \in Form
             /\ p.timer \in M
             /\ p.preview \in BOOLEAN /\ p.applying \in BOOLEAN
  BY <1>1 DEF TabField
<1>3. QED
  BY <1>2 DEF R, L, M

(* A form in which something is typed or ticked.                            *)
LEMMA FormWith ==
    ASSUME NEW form \in Form, NEW v \in Value, NEW b \in BOOLEAN
    PROVE  /\ \A f \in FormField : [form EXCEPT ![f] = v] \in Form
           /\ [form EXCEPT !.signature = b] \in Form
           /\ [form EXCEPT !.options = v, !.signature = b] \in Form
<1>1. \A f \in FormField : [form EXCEPT ![f] = v] \in Form
  <2> SUFFICES ASSUME NEW f \in FormField PROVE [form EXCEPT ![f] = v] \in Form
    OBVIOUS
  <2>1. f = "name" \/ f = "labels" \/ f = "security" \/ f = "text" \/ f = "options"
    BY DEF FormField
  <2>2. QED
    BY <2>1 DEF Form
<1>2. [form EXCEPT !.signature = b] \in Form
      /\ [form EXCEPT !.options = v, !.signature = b] \in Form
  BY DEF Form
<1>3. QED
  BY <1>1, <1>2

(* A page changes alone, and keeps its kind, its scale and its items.       *)
Alone(t) == tab' = [u \in Tab |-> tab'[u]] /\ \A u \in Tab \ {t} : tab'[u] = tab[u]

Redrawn(t) ==
    /\ Alone(t) /\ tab'[t] \in TabState
    /\ tab'[t].kind = tab[t].kind /\ tab'[t].scale = tab[t].scale
    /\ tab'[t].list = tab[t].list

LEMMA SameIsRedrawn ==
    ASSUME SettingsTyped, tab' = tab, NEW t \in Tab
    PROVE  Redrawn(t)
BY DEF SettingsTyped, RowTyped, Redrawn, Alone

LEMMA FormIsRedrawn ==
    ASSUME SettingsTyped, NEW t \in Tab, NEW q,
           tab' = [tab EXCEPT ![t] = q],
           q = [x \in TabField |-> q[x]],
           q.kind = tab[t].kind, q.scale = tab[t].scale, q.list = tab[t].list,
           q.form \in Form, q.timer \in Config \cup {NULL},
           q.preview \in BOOLEAN, q.applying \in BOOLEAN
    PROVE  Redrawn(t)
<1>1. tab = [u \in Tab |-> tab[u]]
  BY DEF SettingsTyped, RowTyped
<1>2. tab' = [u \in Tab |-> tab'[u]] /\ tab'[t] = q
      /\ \A u \in Tab \ {t} : tab'[u] = tab[u]
  BY <1>1
<1>3. q \in TabState
  BY PageHas, TabByField
<1>4. QED
  BY <1>2, <1>3 DEF Redrawn, Alone

LEMMA PageRedraws ==
    ASSUME SettingsTyped, NEW t \in Tab, Page(t), ~OpenOther(t), ~ReloadPage(t)
    PROVE  Redrawn(t)
<1> DEFINE p == tab[t]
<1>0. p \in TabState /\ p = [x \in TabField |-> p[x]]
      /\ p.form \in Form /\ p.timer \in Config \cup {NULL}
      /\ p.preview \in BOOLEAN /\ p.applying \in BOOLEAN
      /\ p.form.signature \in BOOLEAN /\ ConfigOf(p.form) \in Config
  BY PageHas, TabByField DEF Form
<1>1. CASE tab' = tab
  BY <1>1, SameIsRedrawn
<1>2. CASE EditForm(t)
  <2>1. PICK f \in Editable, v \in {Fresh, Blank} : tab' = [tab EXCEPT ![t].form[f] = v]
    BY <1>2 DEF EditForm
  <2>2. f \in FormField /\ v \in Value
    BY <1>2, SettingsAssumption, SmallValues
    DEF EditForm, Typed, Fresh, SettingsTyped, RowTyped
  <2> DEFINE form == [p.form EXCEPT ![f] = v]
             q == [p EXCEPT !.form = form]
  <2>3. form \in Form
    BY <1>0, <2>2, FormWith
  <2>4. tab' = [tab EXCEPT ![t] = q]
    BY <2>1
  <2> HIDE DEF form
  <2>5. /\ q = [x \in TabField |-> q[x]]
        /\ q.kind = p.kind /\ q.scale = p.scale /\ q.list = p.list
        /\ q.form = form /\ q.timer = p.timer /\ q.preview = p.preview
        /\ q.applying = p.applying
    BY <1>0 DEF TabField
  <2> HIDE DEF q
  <2>6. QED
    BY <1>0, <2>3, <2>4, <2>5, FormIsRedrawn
<1>3. CASE EditOption(t) \/ ChangeOptions(t)
  <2> DEFINE form == [p.form EXCEPT !.options = Fresh]
             q == [p EXCEPT !.form = form]
             r == [p EXCEPT !.timer = ConfigOf(p.form), !.form = form]
  <2>1. Fresh \in Value
    BY <1>3, SmallValues
    DEF EditOption, ChangeOptions, Typed, Fresh, SettingsTyped, RowTyped
  <2>2. form \in Form
    BY <1>0, <2>1, FormWith DEF FormField
  <2>3. tab' = [tab EXCEPT ![t] = q] \/ tab' = [tab EXCEPT ![t] = r]
    <3>1. EditOption(t) => tab' = [tab EXCEPT ![t] = r]
      <4>1. PICK c, v : c = ConfigOf(p.form) /\ v = Fresh
        OBVIOUS
      <4>2. SUFFICES ASSUME EditOption(t) PROVE tab' = [tab EXCEPT ![t] = r]
        OBVIOUS
      <4>3. tab' = [tab EXCEPT ![t].timer = c, ![t].form.options = v]
        BY <4>1, <4>2 DEF EditOption
      <4>4. r = [p EXCEPT !.timer = c, !.form = [p.form EXCEPT !.options = v]]
        BY <4>1
      <4>5. QED
        BY <4>3, <4>4
    <3>2. ChangeOptions(t) => tab' = [tab EXCEPT ![t] = q]
      BY DEF ChangeOptions
    <3>3. QED
      BY <1>3, <3>1, <3>2
  <2> HIDE DEF form
  <2>4. /\ q = [x \in TabField |-> q[x]]
        /\ q.kind = p.kind /\ q.scale = p.scale /\ q.list = p.list
        /\ q.form = form /\ q.timer = p.timer /\ q.preview = p.preview
        /\ q.applying = p.applying
    BY <1>0 DEF TabField
  <2>5. /\ r = [x \in TabField |-> r[x]]
        /\ r.kind = p.kind /\ r.scale = p.scale /\ r.list = p.list
        /\ r.form = form /\ r.timer = ConfigOf(p.form) /\ r.preview = p.preview
        /\ r.applying = p.applying
    BY <1>0 DEF TabField
  <2> HIDE DEF q, r
  <2>6. QED
    BY <1>0, <2>2, <2>3, <2>4, <2>5, FormIsRedrawn
<1>4. CASE TickSignature(t)
  <2> DEFINE config == [ConfigOf(p.form) EXCEPT !.signature = ~@]
             form == [p.form EXCEPT !.signature = ~@]
             q == [p EXCEPT !.form = form]
             r == [p EXCEPT !.form = form, !.timer = config]
  <2>1. config \in Config
    BY <1>0 DEF Config
  <2>2. form \in Form
    BY <1>0 DEF Form
  <2>3. tab' = [tab EXCEPT ![t] = q] \/ tab' = [tab EXCEPT ![t] = r]
    BY <1>4 DEF TickSignature
  <2> HIDE DEF form, config
  <2>4. /\ q = [x \in TabField |-> q[x]]
        /\ q.kind = p.kind /\ q.scale = p.scale /\ q.list = p.list
        /\ q.form = form /\ q.timer = p.timer /\ q.preview = p.preview
        /\ q.applying = p.applying
    BY <1>0 DEF TabField
  <2>5. /\ r = [x \in TabField |-> r[x]]
        /\ r.kind = p.kind /\ r.scale = p.scale /\ r.list = p.list
        /\ r.form = form /\ r.timer = config /\ r.preview = p.preview
        /\ r.applying = p.applying
    BY <1>0 DEF TabField
  <2> HIDE DEF q, r
  <2>6. QED
    BY <1>0, <2>1, <2>2, <2>3, <2>4, <2>5, FormIsRedrawn
<1>5. CASE ChoosePreset(t)
  <2>1. PICK signature \in BOOLEAN :
          tab' = [tab EXCEPT ![t].form.options = Preset, ![t].form.signature = signature]
    BY <1>5 DEF ChoosePreset
  <2> DEFINE form == [p.form EXCEPT !.options = Preset, !.signature = signature]
             q == [p EXCEPT !.form = form]
  <2>2. form \in Form
    BY <1>0, SmallValues, FormWith
  <2>3. tab' = [tab EXCEPT ![t] = q]
    BY <2>1
  <2> HIDE DEF form
  <2>4. /\ q = [x \in TabField |-> q[x]]
        /\ q.kind = p.kind /\ q.scale = p.scale /\ q.list = p.list
        /\ q.form = form /\ q.timer = p.timer /\ q.preview = p.preview
        /\ q.applying = p.applying
    BY <1>0 DEF TabField
  <2> HIDE DEF q
  <2>5. QED
    BY <1>0, <2>2, <2>3, <2>4, FormIsRedrawn
<1>6. CASE TimerFires(t)
  <2> DEFINE q == [p EXCEPT !.timer = NULL]
  <2>1. tab' = [tab EXCEPT ![t] = q]
    BY <1>6 DEF TimerFires
  <2>2. /\ q = [x \in TabField |-> q[x]]
        /\ q.kind = p.kind /\ q.scale = p.scale /\ q.list = p.list
        /\ q.form = p.form /\ q.timer = NULL /\ q.preview = p.preview
        /\ q.applying = p.applying
    BY <1>0 DEF TabField
  <2> HIDE DEF q
  <2>3. QED
    BY <1>0, <2>1, <2>2, FormIsRedrawn
<1>7. CASE Preview(t) \/ Hide(t)
  <2>1. PICK b \in BOOLEAN : tab' = [tab EXCEPT ![t].preview = b]
    BY <1>7 DEF Preview, Hide
  <2> DEFINE q == [p EXCEPT !.preview = b]
  <2>2. tab' = [tab EXCEPT ![t] = q]
    BY <2>1
  <2>3. /\ q = [x \in TabField |-> q[x]]
        /\ q.kind = p.kind /\ q.scale = p.scale /\ q.list = p.list
        /\ q.form = p.form /\ q.timer = p.timer /\ q.preview = b
        /\ q.applying = p.applying
    BY <1>0 DEF TabField
  <2> HIDE DEF q
  <2>4. QED
    BY <1>0, <2>2, <2>3, FormIsRedrawn
<1>8. CASE Apply(t)
  <2>1. tab' = tab \/ tab' = [tab EXCEPT ![t].applying = TRUE]
    BY <1>8 DEF Apply
  <2> DEFINE q == [p EXCEPT !.applying = TRUE]
  <2>2. tab' = tab \/ tab' = [tab EXCEPT ![t] = q]
    BY <2>1
  <2>3. /\ q = [x \in TabField |-> q[x]]
        /\ q.kind = p.kind /\ q.scale = p.scale /\ q.list = p.list
        /\ q.form = p.form /\ q.timer = p.timer /\ q.preview = p.preview
        /\ q.applying = TRUE
    BY <1>0 DEF TabField
  <2> HIDE DEF q
  <2>4. QED
    BY <1>0, <1>1, <2>2, <2>3, FormIsRedrawn
<1>9. CASE Load(t) \/ SavePanel(t) \/ SaveItem(t)
  BY <1>1, <1>9 DEF Load, SavePanel, SaveItem
<1>10. QED
  BY <1>2, <1>3, <1>4, <1>5, <1>6, <1>7, <1>8, <1>9 DEF Page

(* A page that is left, mounted again, or forgets its scale.                *)
Emptied(t) ==
    /\ Alone(t) /\ tab'[t] \in TabState /\ tab'[t].scale = NULL

LEMMA NewIsEmptied ==
    ASSUME SettingsTyped, NEW t \in Tab, NEW shape \in {"editor", "legacy"},
           NEW timer \in Config \cup {NULL},
           \/ tab' = [tab EXCEPT ![t] = NewTab(shape)]
           \/ tab' = [tab EXCEPT ![t] = [NewTab(shape) EXCEPT !.timer = timer]]
    PROVE  Emptied(t) /\ tab'[t].kind = shape
<1>1. tab = [u \in Tab |-> tab[u]]
  BY DEF SettingsTyped, RowTyped
<1> DEFINE q == [NewTab(shape) EXCEPT !.timer = timer]
<1>2. NewTab(shape) \in TabState /\ NewTab(shape) = [x \in TabField |-> NewTab(shape)[x]]
      /\ NewTab(shape).kind = shape /\ NewTab(shape).scale = NULL
  BY EmptyTyped, TabByField
<1>3. /\ q = [x \in TabField |-> q[x]]
      /\ q.kind = shape /\ q.scale = NULL /\ q.list = NewTab(shape).list
      /\ q.form = NewTab(shape).form /\ q.timer = timer
      /\ q.preview = NewTab(shape).preview /\ q.applying = NewTab(shape).applying
  BY <1>2 DEF TabField
<1>4. tab' = [tab EXCEPT ![t] = NewTab(shape)] \/ tab' = [tab EXCEPT ![t] = q]
  OBVIOUS
<1> HIDE DEF q
<1>5. q \in TabState
  BY <1>2, <1>3, TabByField
<1>6. tab' = [u \in Tab |-> tab'[u]] /\ tab'[t] \in {NewTab(shape), q}
      /\ \A u \in Tab \ {t} : tab'[u] = tab[u]
  BY <1>1, <1>4
<1>7. QED
  BY <1>2, <1>3, <1>5, <1>6 DEF Emptied, Alone

LEMMA LeavingEmpties ==
    ASSUME SettingsTyped, NEW t \in Tab, OpenOther(t) \/ ReloadPage(t)
    PROVE  Emptied(t)
<1>1. tab[t].kind \in {"editor", "legacy"} /\ tab[t].timer \in Config \cup {NULL}
  BY PageHas
<1>2. CASE OpenOther(t)
  <2>1. PICK shape \in {"editor", "legacy"} :
          tab' = [tab EXCEPT ![t] = [NewTab(shape) EXCEPT !.timer = tab[t].timer]]
    BY <1>2 DEF OpenOther
  <2>2. QED
    BY <1>1, <2>1, NewIsEmptied
<1>3. CASE ReloadPage(t)
  <2>1. tab' = [tab EXCEPT ![t] = NewTab(tab[t].kind)]
    BY <1>3 DEF ReloadPage
  <2>2. QED
    BY <1>1, <2>1, NewIsEmptied
<1>4. QED
  BY <1>2, <1>3

(* An answer is shown on the page it is for: a load brings scale and items, *)
(* a save of the editor the scale.                                          *)
LEMMA LoadedShows ==
    ASSUME Calls, SettingsTyped, NEW s \in Slot, Loaded(s)
    PROVE  \E t \in Tab : Alone(t) /\ tab'[t] \in TabState
                          /\ tab'[t].kind = tab[t].kind
                          /\ tab'[t].list \in [Item -> ItemRow]
<1> DEFINE c == calls[s]
           p == tab[c.tab]
           form == FormOf(p.kind, c.seen)
           preview == p.preview /\ p.kind = "legacy"
           q == [p EXCEPT !.scale = c.seen, !.list = c.got, !.form = form,
                          !.preview = preview, !.applying = FALSE]
<1>1. c.tab \in Tab /\ c.seen \in Row /\ c.got \in [Item -> ItemRow]
  BY DEF Loaded, SettingsTyped, CallsTyped, CallTyped
<1>2. p \in TabState /\ p = [x \in TabField |-> p[x]] /\ p.kind \in {"editor", "legacy"}
      /\ p.timer \in Config \cup {NULL} /\ p.preview \in BOOLEAN
  BY <1>1, PageHas, TabByField
<1>3. tab' = [tab EXCEPT ![c.tab] = q]
  BY DEF Loaded
<1>4. form \in Form /\ preview \in BOOLEAN
  BY <1>1, <1>2, FormTyped
<1>5. tab = [u \in Tab |-> tab[u]]
  BY DEF SettingsTyped, RowTyped
<1> HIDE DEF form, preview
<1>6. /\ q = [x \in TabField |-> q[x]]
      /\ q.kind = p.kind /\ q.scale = c.seen /\ q.list = c.got /\ q.form = form
      /\ q.timer = p.timer /\ q.preview = preview /\ q.applying = FALSE
  BY <1>2 DEF TabField
<1> HIDE DEF q
<1>7. q \in TabState
  BY <1>1, <1>2, <1>4, <1>6, TabByField
<1>8. tab' = [u \in Tab |-> tab'[u]] /\ tab'[c.tab] = q
      /\ \A u \in Tab \ {c.tab} : tab'[u] = tab[u]
  BY <1>1, <1>3, <1>5
<1> HIDE DEF c, p
<1>9. Alone(c.tab) /\ tab'[c.tab] \in TabState /\ tab'[c.tab].kind = tab[c.tab].kind
      /\ tab'[c.tab].list \in [Item -> ItemRow]
  BY <1>1, <1>6, <1>7, <1>8 DEF Alone, p
<1>10. QED
  BY <1>1, <1>9

LEMMA LoadFailedShows ==
    ASSUME Calls, SettingsTyped, NEW s \in Slot, LoadFailed(s)
    PROVE  \E t \in Tab : Redrawn(t) \/ (Emptied(t) /\ tab'[t].kind = tab[t].kind)
<1> DEFINE t == calls[s].tab
<1>1. t \in Tab
  BY DEF LoadFailed, SettingsTyped, CallsTyped, CallTyped
<1>2. tab[t].kind \in {"editor", "legacy"} /\ tab[t].timer \in Config \cup {NULL}
  BY <1>1, PageHas
<1>3. CASE tab[t].kind = "legacy"
  BY <1>1, <1>3, SameIsRedrawn DEF LoadFailed
<1>4. CASE tab[t].kind # "legacy"
  <2>1. tab' = [tab EXCEPT ![t] = [NewTab("editor") EXCEPT !.timer = tab[t].timer]]
    BY <1>4 DEF LoadFailed
  <2>2. Emptied(t) /\ tab'[t].kind = "editor"
    BY <1>1, <1>2, <2>1, NewIsEmptied
  <2>3. QED
    BY <1>1, <1>2, <1>4, <2>2
<1>5. QED
  BY <1>3, <1>4

LEMMA SavedShows ==
    ASSUME Calls, SettingsTyped, NEW s \in Slot, Saved(s)
    PROVE  \E t \in Tab : Redrawn(t) \/ (/\ Alone(t) /\ tab'[t] \in TabState
                                         /\ tab'[t].kind = tab[t].kind
                                         /\ tab'[t].kind = "editor")
<1> DEFINE c == calls[s]
           t == c.tab
           p == tab[t]
<1>1. t \in Tab /\ c.op = "save" /\ Sendable(c.fields)
  BY DEF Saved, SettingsTyped, CallsTyped, CallTyped, Sendable
<1>2. p \in TabState /\ p = [x \in TabField |-> p[x]] /\ p.kind \in {"editor", "legacy"}
      /\ p.timer \in Config \cup {NULL} /\ p.form \in Form
      /\ p.preview \in BOOLEAN /\ p.applying \in BOOLEAN
      /\ p.list \in [Item -> ItemRow] \cup {NULL}
  BY <1>1, PageHas, TabByField
<1>3. tab = [u \in Tab |-> tab[u]]
  BY DEF SettingsTyped, RowTyped
<1>4. CASE c.then = "merge"
  <2> DEFINE shown == Shown(c.base, c.fields)
             q == [p EXCEPT !.scale = shown]
  <2>1. c.base \in Row /\ p.kind = "editor"
    BY <1>1, <1>4 DEF SettingsTyped, CallsTyped, CallTyped, EditorMerges
  <2>2. shown \in Row
    BY <1>1, <2>1, ShownTyped
  <2>3. tab' = [tab EXCEPT ![t] = q]
    BY <1>4 DEF Saved
  <2> HIDE DEF shown
  <2>4. /\ q = [x \in TabField |-> q[x]]
        /\ q.kind = p.kind /\ q.scale = shown /\ q.list = p.list
        /\ q.form = p.form /\ q.timer = p.timer /\ q.preview = p.preview
        /\ q.applying = p.applying
    BY <1>2 DEF TabField
  <2> HIDE DEF q
  <2>5. q \in TabState
    BY <1>2, <2>2, <2>4, TabByField
  <2>6. tab' = [u \in Tab |-> tab'[u]] /\ tab'[t] = q
        /\ \A u \in Tab \ {t} : tab'[u] = tab[u]
    BY <1>1, <1>3, <2>3
  <2>7. QED
    BY <1>1, <2>1, <2>4, <2>5, <2>6 DEF Alone
<1>5. CASE c.then = "reload"
  <2> DEFINE q == [p EXCEPT !.preview = FALSE]
  <2>1. tab' = [tab EXCEPT ![t] = q]
    BY <1>5 DEF Saved
  <2>2. /\ q = [x \in TabField |-> q[x]]
        /\ q.kind = p.kind /\ q.scale = p.scale /\ q.list = p.list
        /\ q.form = p.form /\ q.timer = p.timer /\ q.preview = FALSE
        /\ q.applying = p.applying
    BY <1>2 DEF TabField
  <2> HIDE DEF q
  <2>3. Redrawn(t)
    BY <1>1, <1>2, <2>1, <2>2, FormIsRedrawn
  <2>4. QED
    BY <1>1, <2>3
<1>6. CASE c.then # "merge" /\ c.then # "reload"
  BY <1>1, <1>6, SameIsRedrawn DEF Saved
<1>7. QED
  BY <1>4, <1>5, <1>6

LEMMA FailedShows ==
    ASSUME Calls, SettingsTyped, NEW s \in Slot, Failed(s)
    PROVE  \E t \in Tab : Redrawn(t)
<1> DEFINE c == calls[s]
           t == c.tab
           p == tab[t]
           q == [p EXCEPT !.applying = FALSE]
<1>1. t \in Tab
  BY DEF Failed, SettingsTyped, CallsTyped, CallTyped
<1>2. p \in TabState /\ p = [x \in TabField |-> p[x]]
      /\ p.timer \in Config \cup {NULL} /\ p.form \in Form /\ p.preview \in BOOLEAN
  BY <1>1, PageHas, TabByField
<1>3. tab' = tab \/ tab' = [tab EXCEPT ![t] = q]
  BY DEF Failed
<1>4. /\ q = [x \in TabField |-> q[x]]
      /\ q.kind = p.kind /\ q.scale = p.scale /\ q.list = p.list
      /\ q.form = p.form /\ q.timer = p.timer /\ q.preview = p.preview
      /\ q.applying = FALSE
  BY <1>2 DEF TabField
<1> HIDE DEF q
<1>5. Redrawn(t)
  BY <1>1, <1>2, <1>3, <1>4, SameIsRedrawn, FormIsRedrawn
<1>6. QED
  BY <1>1, <1>5

(* So every page is one, and a legacy page that has the scale has its items.*)
LEMMA AloneStays ==
    ASSUME SettingsTyped, NEW t \in Tab, Alone(t), tab'[t] \in TabState,
           \/ tab'[t].kind = tab[t].kind /\ tab'[t].scale = tab[t].scale
              /\ tab'[t].list = tab[t].list
           \/ tab'[t].scale = NULL \/ tab'[t].kind = "editor"
           \/ tab'[t].list \in [Item -> ItemRow]
    PROVE  tab' \in [Tab -> TabState] /\ LegacyHasItems'
<1>1. \A u \in Tab : tab[u] \in TabState
  BY DEF SettingsTyped, RowTyped
<1>2. \A u \in Tab : tab'[u] \in TabState
  BY <1>1 DEF Alone
<1>3. tab' \in [Tab -> TabState]
  BY <1>2 DEF Alone
<1>4. LegacyHasItems'
  BY DEF Alone, SettingsTyped, LegacyHasItems
<1>5. QED
  BY <1>3, <1>4

LEMMA PagesStayTyped ==
    ASSUME Calls, SettingsTyped, [SettingsNext]_settingsVars
    PROVE  tab' \in [Tab -> TabState] /\ LegacyHasItems'
<1>1. CASE tab' = tab
  BY <1>1 DEF SettingsTyped, RowTyped, LegacyHasItems
<1>2. ASSUME NEW t \in Tab, Redrawn(t) \/ Emptied(t)
      PROVE  tab' \in [Tab -> TabState] /\ LegacyHasItems'
  BY <1>2, AloneStays DEF Redrawn, Emptied
<1>3. ASSUME NEW t \in Tab, Page(t)
      PROVE  tab' \in [Tab -> TabState] /\ LegacyHasItems'
  BY <1>2, <1>3, PageRedraws, LeavingEmpties
<1>4. ASSUME NEW s \in Slot, Request(s)
      PROVE  tab' \in [Tab -> TabState] /\ LegacyHasItems'
  <2>1. CASE GetScale(s) \/ GetItems(s) \/ PutItem(s) \/ ReadScale(s) \/ WriteScale(s)
             \/ Dropped(s)
    BY <1>1, <2>1 DEF GetScale, GetItems, PutItem, ReadScale, WriteScale, Dropped
  <2>2. CASE Loaded(s)
    BY <2>2, LoadedShows, AloneStays
  <2>3. CASE LoadFailed(s) \/ Failed(s)
    BY <1>2, <2>3, LoadFailedShows, FailedShows
  <2>4. CASE Saved(s)
    BY <1>2, <2>4, SavedShows, AloneStays
  <2>5. QED
    BY <1>4, <2>1, <2>2, <2>3, <2>4 DEF Request
<1>5. QED
  BY <1>1, <1>3, <1>4 DEF SettingsNext, settingsVars
-----------------------------------------------------------------------------
(* Only the editor waits for a save to show it.                             *)

Merges(c) == c.op = "save" /\ c.then = "merge"

LEMMA BeginMerges ==
    ASSUME Calls, NEW s \in Slot, NEW c, IsCall(c), Begin(s, c)
    PROVE  /\ calls'[s].op = c.op /\ calls'[s].then = c.then /\ calls'[s].tab = c.tab
           /\ \A r \in Slot \ {s} : /\ Merges(calls'[r]) => Merges(calls[r])
                                    /\ calls'[r].tab = calls[r].tab
<1> DEFINE sure == Named(c.fields) \ UNION {DOMAIN calls[q].fields : q \in Slot}
           d == [c EXCEPT !.sure = sure]
           e(r) == [calls[r] EXCEPT !.sure = @ \ DOMAIN c.fields]
<1>1. calls' = [r \in Slot |-> IF r = s THEN d ELSE e(r)]
  BY DEF Begin
<1> HIDE DEF sure
<1>2. d.op = c.op /\ d.then = c.then /\ d.tab = c.tab
  BY DEF IsCall, CallField
<1>3. ASSUME NEW r \in Slot
      PROVE  e(r).op = calls[r].op /\ e(r).then = calls[r].then /\ e(r).tab = calls[r].tab
  BY DEF Calls, IsCall, CallField
<1> HIDE DEF d, e
<1>4. QED
  BY <1>1, <1>2, <1>3 DEF Merges

(* If what waits, waited before, and pages keep their kinds.                *)
LEMMA OlderMerges ==
    ASSUME SettingsTyped, \A u \in Tab : tab'[u].kind = tab[u].kind,
           \A r \in Slot : Merges(calls'[r]) =>
              Merges(calls[r]) /\ calls'[r].tab = calls[r].tab
    PROVE  EditorMerges'
BY DEF SettingsTyped, EditorMerges, Merges

LEMMA KindsKept ==
    ASSUME NEW t \in Tab, Alone(t), tab'[t].kind = tab[t].kind
    PROVE  \A u \in Tab : tab'[u].kind = tab[u].kind
BY DEF Alone

LEMMA PressMerges ==
    ASSUME Calls, SettingsTyped, NEW t \in Tab, NEW sent, DOMAIN sent \subseteq Field,
           NEW then \in {"merge", "none"}, then = "merge" => tab[t].kind = "editor",
           \A u \in Tab : tab'[u].kind = tab[u].kind,
           Press(t, sent, then)
    PROVE  EditorMerges'
<1> DEFINE base == IF then = "merge" THEN tab[t].scale ELSE NULL
           c == [Idle EXCEPT !.op = "save", !.tab = t, !.fields = sent,
                             !.then = then, !.base = base]
<1>1. PICK s \in Slot : Begin(s, c)
  BY DEF Press
<1> HIDE DEF base
<1>2. /\ c = [x \in CallField |-> c[x]] /\ c.tab = t /\ c.fields = sent
      /\ c.then = then /\ c.sure = {}
  BY IdleIsCall DEF IsCall, CallField
<1> HIDE DEF c
<1>3. IsCall(c)
  BY <1>2 DEF IsCall
<1>4. /\ calls'[s].then = then /\ calls'[s].tab = t
      /\ \A r \in Slot \ {s} : /\ Merges(calls'[r]) => Merges(calls[r])
                               /\ calls'[r].tab = calls[r].tab
  BY <1>1, <1>2, <1>3, BeginMerges
<1>5. QED
  BY <1>4 DEF SettingsTyped, EditorMerges, Merges

LEMMA BecomesMerges ==
    ASSUME Calls, SettingsTyped, NEW s \in Slot, NEW d, Becomes(s, d),
           Merges(d) => Merges(calls[s]) /\ d.tab = calls[s].tab,
           \A u \in Tab : tab'[u].kind = tab[u].kind
    PROVE  EditorMerges'
<1>1. calls'[s] = d /\ \A r \in Slot \ {s} : calls'[r] = calls[r]
  BY DEF Becomes, Calls
<1>2. QED
  BY <1>1, OlderMerges

LEMMA PageMerges ==
    ASSUME Calls, SettingsTyped, NEW t \in Tab, Page(t)
    PROVE  EditorMerges'
<1>1. CASE OpenOther(t) \/ ReloadPage(t)
  <2>1. Emptied(t)
    BY <1>1, LeavingEmpties
  <2> SUFFICES ASSUME NEW s \in Slot, Merges(calls'[s])
               PROVE  calls'[s].tab \in Tab /\ tab'[calls'[s].tab].kind = "editor"
    BY DEF EditorMerges, Merges
  <2> DEFINE c == calls[s]
             d == [c EXCEPT !.then = "none", !.base = NULL]
  <2>2. IsCall(c) /\ CallTyped(c)
    BY DEF Calls, SettingsTyped, CallsTyped
  <2>3. \/ c.tab # t /\ calls'[s] = c
        \/ calls'[s] = Idle \/ calls'[s] = d
        \/ c.op = "save" /\ calls'[s] = Orphan(c)
    BY <1>1 DEF OpenOther, ReloadPage
  <2>4. d.then = "none"
    BY <2>2 DEF IsCall, CallField
  <2> HIDE DEF d
  <2>5. c.tab # t /\ calls'[s] = c
    BY <2>2, <2>3, <2>4, IdleTyped, OrphanTyped DEF Merges
  <2>6. c.tab \in Tab /\ tab[c.tab].kind = "editor"
    BY <2>5 DEF SettingsTyped, EditorMerges, Merges
  <2>7. QED
    BY <2>1, <2>5, <2>6 DEF Emptied, Alone
<1>2. CASE ~OpenOther(t) /\ ~ReloadPage(t)
  <2>1. \A u \in Tab : tab'[u].kind = tab[u].kind
    BY <1>2, PageRedraws, KindsKept DEF Redrawn
  <2>2. CASE calls' = calls
    BY <2>1, <2>2, OlderMerges
  <2>3. CASE Load(t)
    BY <2>1, <2>3, IdleTyped, BecomesMerges DEF Load, Merges
  <2>4. CASE SavePanel(t)
    <3>1. PICK shown \in Panels(tab[t].kind) :
            Press(t, [f \in shown |-> Draft(tab[t])[f]],
                  IF tab[t].kind = "editor" THEN "merge" ELSE "none")
      BY <2>4 DEF SavePanel
    <3>2. shown \subseteq Field
      BY DEF Panels, Field
    <3>3. QED
      BY <2>1, <3>1, <3>2, PressMerges
  <2>5. ASSUME NEW config, PressConfig(t, config) PROVE EditorMerges'
    BY <2>1, <2>5, PressMerges DEF PressConfig, Field
  <2>6. CASE EditForm(t) \/ EditOption(t) \/ Preview(t) \/ Hide(t)
    BY <2>2, <2>6 DEF EditForm, EditOption, Preview, Hide
  <2>7. CASE ChangeOptions(t) \/ TickSignature(t)
    BY <2>2, <2>5, <2>7 DEF ChangeOptions, TickSignature
  <2>8. CASE ChoosePreset(t) \/ TimerFires(t)
    BY <2>2, <2>5, <2>8 DEF ChoosePreset, TimerFires
  <2>9. ASSUME NEW s \in Slot, NEW c, IsCall(c), c.then # "merge", Begin(s, c)
        PROVE  EditorMerges'
    BY <2>1, <2>9, BeginMerges, OlderMerges DEF Merges
  <2>10. CASE Apply(t)
    <3>0. PICK s \in Slot : \E todo, patch, phase, fields :
            /\ DOMAIN fields \subseteq Field
            /\ Begin(s, [Idle EXCEPT !.op = "save", !.tab = t, !.then = "reload",
                           !.phase = phase, !.todo = todo, !.patch = patch,
                           !.fields = fields])
      BY <2>10 DEF Apply, Field
    <3>1. PICK todo, patch, phase, fields :
            /\ DOMAIN fields \subseteq Field
            /\ Begin(s, [Idle EXCEPT !.op = "save", !.tab = t, !.then = "reload",
                           !.phase = phase, !.todo = todo, !.patch = patch,
                           !.fields = fields])
      BY <3>0
    <3> DEFINE c == [Idle EXCEPT !.op = "save", !.tab = t, !.then = "reload",
                       !.phase = phase, !.todo = todo, !.patch = patch,
                       !.fields = fields]
    <3>2. c = [x \in CallField |-> c[x]] /\ c.then = "reload" /\ c.fields = fields
          /\ c.sure = {}
      BY IdleIsCall DEF IsCall, CallField
    <3>3. Begin(s, c)
      BY <3>1
    <3> HIDE DEF c
    <3>4. QED
      BY <2>9, <3>1, <3>2, <3>3 DEF IsCall
  <2>11. CASE SaveItem(t)
    <3>0. PICK s \in Slot : \E todo, patch :
            Begin(s, [Idle EXCEPT !.op = "save", !.tab = t, !.phase = "items",
                        !.todo = todo, !.patch = patch])
      BY <2>11 DEF SaveItem
    <3>1. PICK todo, patch :
            Begin(s, [Idle EXCEPT !.op = "save", !.tab = t, !.phase = "items",
                        !.todo = todo, !.patch = patch])
      BY <3>0
    <3> DEFINE c == [Idle EXCEPT !.op = "save", !.tab = t, !.phase = "items",
                       !.todo = todo, !.patch = patch]
    <3>2. c = [x \in CallField |-> c[x]] /\ c.then = "none" /\ DOMAIN c.fields = {}
          /\ c.sure = {}
      BY IdleIsCall, IdleTyped DEF IsCall, CallField
    <3>3. Begin(s, c)
      BY <3>1
    <3> HIDE DEF c
    <3>4. QED
      BY <2>9, <3>2, <3>3 DEF IsCall
  <2>12. QED
    BY <1>2, <2>3, <2>4, <2>6, <2>7, <2>8, <2>10, <2>11 DEF Page
<1>3. QED
  BY <1>1, <1>2

LEMMA RequestMerges ==
    ASSUME Calls, SettingsTyped, NEW s \in Slot, Request(s)
    PROVE  EditorMerges'
<1> DEFINE c == calls[s]
<1>0. IsCall(c)
  BY DEF Calls
<1>1. \A u \in Tab : tab'[u].kind = tab[u].kind
  <2>1. CASE tab' = tab
    BY <2>1
  <2>2. CASE Loaded(s) \/ LoadFailed(s) \/ Saved(s) \/ Failed(s)
    BY <2>2, LoadedShows, LoadFailedShows, SavedShows, FailedShows, KindsKept
    DEF Redrawn, Emptied
  <2>3. QED
    BY <2>1, <2>2
    DEF Request, GetScale, GetItems, PutItem, ReadScale, WriteScale, Dropped
<1>2. ASSUME NEW d, Becomes(s, d), d.then # "merge" \/ d.op # "save"
      PROVE  EditorMerges'
  BY <1>1, <1>2, BecomesMerges DEF Merges
<1>3. ASSUME Becomes(s, Idle) PROVE EditorMerges'
  BY <1>2, <1>3, IdleTyped
<1>4. CASE GetScale(s)
  <2> DEFINE d == [c EXCEPT !.seen = row]
  <2>1. Becomes(s, d) /\ c.op = "load"
    BY <1>4 DEF GetScale
  <2>2. d.op = c.op
    BY <1>0 DEF IsCall, CallField
  <2> HIDE DEF d
  <2>3. QED
    BY <1>2, <2>1, <2>2
<1>5. CASE GetItems(s)
  <2> DEFINE d == [c EXCEPT !.got = items]
  <2>1. Becomes(s, d) /\ c.op = "load"
    BY <1>5 DEF GetItems
  <2>2. d.op = c.op
    BY <1>0 DEF IsCall, CallField
  <2> HIDE DEF d
  <2>3. QED
    BY <1>2, <2>1, <2>2
<1>6. CASE PutItem(s)
  <2> DEFINE p == IF DOMAIN Rest(c.todo) # {} THEN "items"
                  ELSE IF DOMAIN c.fields = {} THEN "done" ELSE "sent"
             d == [c EXCEPT !.todo = Rest(c.todo), !.phase = p]
  <2>1. Becomes(s, d) \/ Becomes(s, Idle)
    BY <1>6 DEF PutItem
  <2> HIDE DEF p
  <2>2. d.op = c.op /\ d.then = c.then /\ d.tab = c.tab
    BY <1>0 DEF IsCall, CallField
  <2> HIDE DEF d
  <2>3. QED
    BY <1>1, <1>3, <2>1, <2>2, BecomesMerges DEF Merges
<1>7. CASE ReadScale(s)
  <2> DEFINE others == {r \in Slot : Between(r)}
             sure == IF others = {} THEN c.sure ELSE {}
             d == [c EXCEPT !.phase = "read", !.seen = row, !.sure = sure]
             e(r) == [calls[r] EXCEPT !.sure = {}]
  <2>1. calls' = [r \in Slot |-> IF r = s THEN d
                                 ELSE IF r \in others THEN e(r) ELSE calls[r]]
    BY <1>7 DEF ReadScale
  <2> HIDE DEF sure, others
  <2>2. d.op = c.op /\ d.then = c.then /\ d.tab = c.tab
    BY <1>0 DEF IsCall, CallField
  <2>3. ASSUME NEW r \in Slot
        PROVE  e(r).op = calls[r].op /\ e(r).then = calls[r].then
               /\ e(r).tab = calls[r].tab
    BY DEF Calls, IsCall, CallField
  <2> HIDE DEF d, e
  <2>4. QED
    BY <1>1, <2>1, <2>2, <2>3, OlderMerges DEF Merges
<1>8. CASE WriteScale(s)
  <2> DEFINE d == [c EXCEPT !.phase = "done", !.seen = NULL]
  <2>1. Becomes(s, d) \/ Becomes(s, Idle)
    BY <1>8 DEF WriteScale
  <2>2. d.op = c.op /\ d.then = c.then /\ d.tab = c.tab
    BY <1>0 DEF IsCall, CallField
  <2> HIDE DEF d
  <2>3. QED
    BY <1>1, <1>3, <2>1, <2>2, BecomesMerges DEF Merges
<1>9. CASE Saved(s)
  BY <1>2, <1>3, <1>9, IdleTyped DEF Saved
<1>10. CASE Failed(s)
  <2>1. c.op = "save" /\ (Becomes(s, Idle) \/ Becomes(s, Orphan(c)))
    BY <1>10 DEF Failed
  <2>2. Orphan(c).then = "none"
    BY <1>0, <2>1, OrphanTyped DEF SettingsTyped, CallsTyped
  <2>3. QED
    BY <1>2, <1>3, <2>1, <2>2
<1>11. CASE Loaded(s) \/ LoadFailed(s) \/ Dropped(s)
  BY <1>3, <1>11 DEF Loaded, LoadFailed, Dropped
<1>12. QED
  BY <1>4, <1>5, <1>6, <1>7, <1>8, <1>9, <1>10, <1>11 DEF Request
-----------------------------------------------------------------------------
(* The scale, its items and what was told.                                  *)

LEMMA BeginCounts ==
    ASSUME SettingsTyped, NEW s, NEW c, Begin(s, c)
    PROVE  /\ saves' \in 0..MaxSaves
           /\ \A f \in Field : told'[f] # NULL => told'[f] \in FieldOf[f]
<1>1. saves \in 0..MaxSaves /\ saves < MaxSaves /\ saves' = saves + 1 /\ MaxSaves \in Nat
  BY SettingsAssumption DEF SettingsTyped, RowTyped, Begin
<1>2. saves' \in 0..MaxSaves
  BY <1>1
<1>3. told' = [f \in Field |-> IF f \in DOMAIN c.fields THEN NULL ELSE told[f]]
  BY DEF Begin
<1>4. QED
  BY <1>2, <1>3 DEF SettingsTyped, RowTyped

LEMMA RowStaysTyped ==
    ASSUME Calls, SettingsTyped, [SettingsNext]_settingsVars
    PROVE  RowTyped'
<1>0. RowTyped
  BY DEF SettingsTyped
<1>1. CASE UNCHANGED <<row, items, edits, saves, told>>
  BY <1>0, <1>1 DEF RowTyped
<1>2. ASSUME NEW t \in Tab, Page(t) PROVE RowTyped'
  <2>1. row' = row /\ items' = items
    BY <1>2 DEF Page, Load, EditForm, SavePanel, EditOption, ChangeOptions, TickSignature,
       ChoosePreset, TimerFires, Preview, Hide, Apply, SaveItem, OpenOther, ReloadPage
  <2>2. edits' \in 0..MaxEdits
    <3>1. edits' = edits \/ (edits < MaxEdits /\ edits' = edits + 1)
      BY <1>2 DEF Page, Load, EditForm, SavePanel, EditOption, ChangeOptions,
         TickSignature, ChoosePreset, TimerFires, Preview, Hide, Apply, SaveItem,
         OpenOther, ReloadPage, Typed
    <3>2. edits \in 0..MaxEdits /\ MaxEdits \in Nat
      BY <1>0, SettingsAssumption DEF RowTyped
    <3>3. QED
      BY <3>1, <3>2
  <2>3. UNCHANGED <<saves, told>> \/ \E s, c : Begin(s, c)
    BY <1>2 DEF Page, Load, EditForm, SavePanel, EditOption, ChangeOptions, TickSignature,
       ChoosePreset, TimerFires, Preview, Hide, Apply, SaveItem, OpenOther, ReloadPage,
       PressConfig, Press
  <2>4. QED
    BY <1>0, <2>1, <2>2, <2>3, BeginCounts DEF RowTyped
<1>3. ASSUME NEW s \in Slot, Request(s) PROVE RowTyped'
  <2> DEFINE c == calls[s]
  <2>0. CallTyped(c)
    BY DEF SettingsTyped, CallsTyped
  <2>1. CASE PutItem(s)
    <3> DEFINE i == Foremost(c.todo)
    <3>1. c.op = "save" /\ c.phase = "items" /\ items' = [items EXCEPT ![i] = c.patch[i]]
          /\ UNCHANGED <<row, edits, saves, told>>
      BY <2>1 DEF PutItem
    <3>2. DOMAIN c.todo \subseteq Nat /\ DOMAIN c.todo # {}
      BY <2>0, <3>1, SettingsAssumption DEF CallTyped
    <3>3. i \in DOMAIN c.todo
      BY <2>0, <3>2, ForemostIsOne DEF CallTyped
    <3>4. c.patch[i] \in ItemRow
      BY <2>0, <3>3 DEF CallTyped
    <3> HIDE DEF i
    <3>5. items' \in [Item -> ItemRow]
      BY <1>0, <3>1, <3>4 DEF RowTyped
    <3>6. QED
      BY <1>0, <3>1, <3>5 DEF RowTyped
  <2>2. CASE WriteScale(s)
    <3>1. row' = Merge(c.seen, c.fields) /\ UNCHANGED <<items, edits, saves, told>>
          /\ c.op = "save" /\ c.phase = "read"
      BY <2>2 DEF WriteScale, Between
    <3>2. c.seen \in Row /\ Sendable(c.fields)
      BY <2>0, <3>1 DEF CallTyped, Sendable
    <3>3. row' \in Row
      BY <3>1, <3>2, MergeTyped
    <3>4. QED
      BY <1>0, <3>1, <3>3 DEF RowTyped
  <2>3. CASE Saved(s)
    <3>1. told' = [f \in Field |-> IF f \in c.sure THEN c.fields[f] ELSE told[f]]
          /\ UNCHANGED <<row, items, edits, saves>>
      BY <2>3 DEF Saved
    <3>2. \A f \in c.sure : c.fields[f] \in FieldOf[f]
      BY <2>0 DEF CallTyped
    <3>3. QED
      BY <1>0, <3>1, <3>2 DEF RowTyped
  <2>4. QED
    BY <1>1, <1>3, <2>1, <2>2, <2>3
    DEF Request, GetScale, GetItems, ReadScale, Loaded, LoadFailed, Failed, Dropped
<1>4. QED
  BY <1>1, <1>2, <1>3 DEF SettingsNext, settingsVars

(* What was told of a field could be in a row.                              *)
LEMMA TypesFollow ==
    ASSUME RowTyped, tab \in [Tab -> TabState], CallsTyped
    PROVE  SettingsTypeOK
<1>1. ASSUME NEW f \in Field, told[f] # NULL
      PROVE  [row EXCEPT ![f] = told[f]] \in Row
  <2> DEFINE r == [row EXCEPT ![f] = told[f]]
  <2>1. row = [g \in Field |-> row[g]] /\ \A g \in Field : row[g] \in FieldOf[g]
    BY RowByField DEF RowTyped
  <2>2. told[f] \in FieldOf[f]
    BY <1>1 DEF RowTyped
  <2>3. r = [g \in Field |-> r[g]] /\ \A g \in Field : r[g] = IF g = f THEN told[f] ELSE row[g]
    BY <2>1
  <2> HIDE DEF r
  <2>4. r \in Row
    BY <2>1, <2>2, <2>3, RowByField
  <2>5. QED
    BY <2>4 DEF r
<1>2. \A s \in Slot :
        LET c == calls[s]
        IN  /\ c.op \in {"idle", "load", "save"}
            /\ c.tab \in Tab \cup {NULL}
            /\ DOMAIN c.fields \subseteq Field /\ c.sure \subseteq DOMAIN c.fields
            /\ c.phase \in {"items", "sent", "read", "done"}
            /\ c.seen # NULL => c.seen \in Row
  BY DEF CallsTyped, CallTyped
<1>3. QED
  BY <1>1, <1>2 DEF SettingsTypeOK, RowTyped

LEMMA SettingsStartTyped == SettingsInit => SettingsTyped
<1> SUFFICES ASSUME SettingsInit PROVE SettingsTyped
  OBVIOUS
<1>1. \A t \in Tab : tab[t] \in TabState /\ tab[t].scale = NULL
  BY EmptyTyped DEF SettingsInit
<1>2. tab \in [Tab -> TabState] /\ LegacyHasItems
  BY <1>1 DEF SettingsInit, LegacyHasItems
<1>3. \A s \in Slot : calls[s] = Idle
  BY DEF SettingsInit
<1>4. CallsTyped /\ EditorMerges
  BY <1>3, IdleTyped, IdleIsCall DEF CallsTyped, EditorMerges
<1>5. RowTyped
  BY EmptyTyped, SettingsAssumption DEF SettingsInit, RowTyped
<1>6. QED
  BY <1>2, <1>4, <1>5 DEF SettingsTyped

LEMMA SettingsStayTyped ==
    ASSUME Calls, SettingsTyped, [SettingsNext]_settingsVars
    PROVE  SettingsTyped'
<1>1. CallsTyped' /\ tab' \in [Tab -> TabState] /\ LegacyHasItems' /\ RowTyped'
  BY CallsStayTyped, PagesStayTyped, RowStaysTyped
<1>2. EditorMerges'
  <2>1. CASE UNCHANGED settingsVars
    BY <2>1 DEF settingsVars, SettingsTyped, EditorMerges
  <2>2. QED
    BY <2>1, PageMerges, RequestMerges DEF SettingsNext
<1>3. QED
  BY <1>1, <1>2 DEF SettingsTyped

(* Row, items, pages and requests are well typed, for any number of pages,  *)
(* requests, edits and saves: a page shows a row that was read whole, an    *)
(* item that is sent is an item, and no step finds a request without what it*)
(* takes (scale-editor/, AdminScale.tsx, scale_service.go).                 *)
THEOREM SettingsAreTyped == SettingsSpec => []SettingsTypeOK
<1>1. Kept /\ SettingsTyped /\ [SettingsNext]_settingsVars => Kept' /\ SettingsTyped'
  BY SettingsKeep, SettingsStayTyped DEF Kept
<1>2. SettingsTyped => SettingsTypeOK
  BY TypesFollow DEF SettingsTyped
<1>3. QED
  BY <1>1, <1>2, KeptStarts, SettingsStartTyped, PTL DEF SettingsSpec

(* The types of the whole browser, which the run admin_pages checks.        *)
THEOREM BrowserTyped == AdminSpec => []TypeOK
<1>1. AdminInit => SettingsInit /\ SessionInit /\ ExportInit
  BY DEF AdminInit
<1>2. [AdminNext]_adminVars => /\ [SettingsNext]_settingsVars
                               /\ [SessionNext]_sessionVars
                               /\ [ExportNext]_exportVars
  BY DEF AdminNext, adminVars
<1>3. AdminSpec => SettingsSpec /\ SessionSpec /\ ExportSpec
  BY <1>1, <1>2, PTL DEF AdminSpec, SettingsSpec, SessionSpec, ExportSpec
<1>4. SettingsTypeOK /\ SessionTypeOK /\ ExportTypeOK => TypeOK
  BY DEF TypeOK
<1>5. QED
  BY <1>3, <1>4, SettingsAreTyped, SessionTyped, FilesTyped, PTL
=============================================================================
