------------------------------ MODULE Session ------------------------------
(***************************************************************************)
(* Sign-in as the tabs of one browser see it (App.tsx, Auth.tsx): they     *)
(* share a cookie, and the gate of a guarded page keeps a memory of        *)
(* whether it is good: its hook useServerAuth asks the server each time    *)
(* the path changes, in an effect that runs once the new page is there.    *)
(* An answer may come when its tab has moved on.  (The header asks too, to *)
(* choose between two buttons: here both are there.)                       *)
(***************************************************************************)
EXTENDS Integers

CONSTANTS
    Window,             \* the tabs
    MaxVisits           \* of a tab between two reloads

ASSUME SessionAssumption == MaxVisits \in Nat

Guarded == {"admin", "scale"}
Path == Guarded \cup {"home", "auth"}

VARIABLES
    session,            \* whether the cookie is one the server accepts
    path, visit,        \* of each tab: where it is, the moves it made
    gate,               \* of each tab: the state of the hook
    due,                \* of each tab: the hook's effect is still to run
    checks,             \* requests GET /api/auth/me
    posts,              \* requests to sign in or out
    wasIn, wasInBefore  \* of each tab: the cookie was good during this visit,
                        \* during the one before

history == <<wasIn, wasInBefore>>
tabVars == <<path, visit, gate, due>>
sessionVars == <<session, tabVars, checks, posts, history>>

(* since: the visit at which the component was mounted.                     *)
HookState == [authed : BOOLEAN, loading : BOOLEAN, since : 0..MaxVisits]
Mounted(v) == [authed |-> FALSE, loading |-> TRUE, since |-> v]

Check == [tab : Window, visit : 0..MaxVisits, reply : {"asked", "yes", "no"}]

Post == [tab : Window, op : {"login", "logout"}, done : BOOLEAN, heard : BOOLEAN]

SessionInit ==
    /\ session \in BOOLEAN
    /\ path \in [Window -> Path] /\ visit = [t \in Window |-> 0]
    /\ gate = [t \in Window |-> Mounted(0)]
    /\ due = [t \in Window |-> path[t] \in Guarded]
    /\ checks = {} /\ posts = {}
    /\ wasIn = [t \in Window |-> session] /\ wasInBefore = [t \in Window |-> FALSE]

-----------------------------------------------------------------------------
(* The path changes.  React may keep the gate of one guarded page for the   *)
(* next one, which is then shown on the old answer.                         *)
Visit(t, p) ==
    LET v == visit[t] + 1
    IN  /\ v <= MaxVisits
        /\ path' = [path EXCEPT ![t] = p]
        /\ visit' = [visit EXCEPT ![t] = v]
        /\ \/ gate' = [gate EXCEPT ![t] = Mounted(v)]
           \/ {path[t], p} \subseteq Guarded /\ UNCHANGED gate
        /\ due' = [due EXCEPT ![t] = p \in Guarded]
        /\ wasIn' = [wasIn EXCEPT ![t] = session]
        /\ wasInBefore' = [wasInBefore EXCEPT ![t] = wasIn[t]]
        /\ UNCHANGED checks

(* The effect of the hook: what was asked is cancelled and asked anew.      *)
RunEffect(t) ==
    /\ due[t]
    /\ due' = [due EXCEPT ![t] = FALSE]
    /\ gate' = [gate EXCEPT ![t].loading = TRUE]
    /\ checks' = checks \cup {[tab |-> t, visit |-> visit[t], reply |-> "asked"]}
    /\ UNCHANGED <<session, path, visit, posts, history>>

(* A navigation to where the tab is changes nothing.  Effects are run       *)
(* before the next page is rendered.                                        *)
GoTo(t, p) ==
    IF p # path[t] THEN ~due[t] /\ Visit(t, p)
    ELSE UNCHANGED <<tabVars, checks, history>>

(* A link, the address bar of a page of the application, or Back.           *)
FollowLink(t) ==
    /\ \E p \in Path \ {path[t]} : GoTo(t, p)
    /\ UNCHANGED <<session, posts>>

ReloadWindow(t) ==
    /\ visit' = [visit EXCEPT ![t] = 0]
    /\ gate' = [gate EXCEPT ![t] = Mounted(0)]
    /\ due' = [due EXCEPT ![t] = path[t] \in Guarded]
    /\ checks' = {c \in checks : c.tab # t}
    /\ posts' = {IF p.tab = t THEN [p EXCEPT !.heard = FALSE] ELSE p : p \in posts}
    /\ wasIn' = [wasIn EXCEPT ![t] = session]
    /\ wasInBefore' = [wasInBefore EXCEPT ![t] = FALSE]
    /\ UNCHANGED <<session, path>>

GateOpen(t) == path[t] \in Guarded /\ ~gate[t].loading /\ gate[t].authed

(* Protected renders a redirection, which goes before the hook's effect.    *)
TurnedAway(t) ==
    /\ path[t] \in Guarded
    /\ ~gate[t].loading /\ ~gate[t].authed
    /\ Visit(t, "auth")
    /\ UNCHANGED <<session, posts>>

-----------------------------------------------------------------------------
(* Checks *)

Me(c) ==
    /\ c.reply = "asked"
    /\ checks' = (checks \ {c}) \cup {[c EXCEPT !.reply = IF session THEN "yes" ELSE "no"]}
    /\ UNCHANGED <<session, tabVars, posts, history>>

(* The effect of a later visit has run.                                     *)
Cancelled(c) == c.visit # (IF due[c.tab] THEN visit[c.tab] - 1 ELSE visit[c.tab])

(* The component that asked is no longer there.                             *)
Gone(c) == c.visit < gate[c.tab].since

(* Mutant of Settle: the last clause is run by a check that was cancelled.  *)
SettleLate(c, authed) ==
    LET h == gate[c.tab]
        settled == [authed |-> authed, loading |-> FALSE, since |-> h.since]
    IN  gate' = [gate EXCEPT ![c.tab] = IF Gone(c) THEN h ELSE settled]

Settle(c, authed) ==
    LET h == gate[c.tab]
        settled == [authed |-> authed, loading |-> h.loading /\ Cancelled(c),
                    since |-> h.since]
    IN  gate' = [gate EXCEPT ![c.tab] = IF Gone(c) THEN h ELSE settled]

(* A refusal is believed whenever it comes, an answer "yes" or an error     *)
(* only if the tab is still where it was.                                   *)
Answered(c) ==
    /\ \/ c.reply = "no" /\ Settle(c, FALSE)
       \/ c.reply = "yes" /\ Settle(c, ~Cancelled(c) \/ gate[c.tab].authed)
       \/ Settle(c, Cancelled(c) /\ gate[c.tab].authed)
    /\ checks' = checks \ {c}
    /\ UNCHANGED <<session, path, visit, due, posts, history>>

-----------------------------------------------------------------------------
(* Signing in and out *)

Send(t, op) ==
    /\ posts' = posts \cup {[tab |-> t, op |-> op, done |-> FALSE, heard |-> TRUE]}
    /\ UNCHANGED <<session, tabVars, checks, history>>

Submit(t) == path[t] = "auth" /\ Send(t, "login")
PressLogout(t) == Send(t, "logout")

Handle(p) ==
    /\ ~p.done
    /\ session' = (p.op = "login")
    /\ wasIn' = [t \in Window |-> wasIn[t] \/ session']
    /\ posts' = (posts \ {p}) \cup (IF p.heard THEN {[p EXCEPT !.done = TRUE]} ELSE {})
    /\ UNCHANGED <<tabVars, checks, wasInBefore>>

(* The answer of a login, wherever the tab is by then; a refused or lost    *)
(* login is only shown.                                                     *)
SignedIn(p) ==
    /\ p.op = "login" /\ p.heard
    /\ posts' = posts \ {p}
    /\ \/ p.done /\ GoTo(p.tab, "admin")
       \/ UNCHANGED <<tabVars, checks, history>>
    /\ UNCHANGED session

(* Answered or not, the tab goes to the form.                               *)
SignedOut(p) ==
    /\ p.op = "logout" /\ p.heard
    /\ posts' = posts \ {p}
    /\ GoTo(p.tab, "auth")
    /\ UNCHANGED session

Lost(p) ==
    /\ ~p.heard
    /\ posts' = posts \ {p}
    /\ UNCHANGED <<session, tabVars, checks, history>>

Expire ==
    /\ session /\ session' = FALSE
    /\ UNCHANGED <<tabVars, checks, posts, history>>

-----------------------------------------------------------------------------
SessionNext ==
    \/ \E t \in Window :
        \/ RunEffect(t) \/ FollowLink(t) \/ ReloadWindow(t) \/ TurnedAway(t)
        \/ Submit(t) \/ PressLogout(t)
    \/ \E c \in checks : Me(c) \/ Answered(c)
    \/ \E p \in posts : Handle(p) \/ SignedIn(p) \/ SignedOut(p) \/ Lost(p)
    \/ Expire

SessionSpec == SessionInit /\ [][SessionNext]_sessionVars

-----------------------------------------------------------------------------
(* Properties *)

(* Types of the paths, the gate and the requests.                          *)
SessionTypeOK ==
    /\ session \in BOOLEAN
    /\ path \in [Window -> Path] /\ visit \in [Window -> 0..MaxVisits]
    /\ gate \in [Window -> HookState]
    /\ checks \subseteq Check /\ posts \subseteq Post
    /\ due \in [Window -> BOOLEAN]
    /\ wasIn \in [Window -> BOOLEAN] /\ wasInBefore \in [Window -> BOOLEAN]

(* A guarded page is shown only if the cookie has been good at some time    *)
(* since the tab came to it or, until the effect of the hook has run, while *)
(* it was at the page before: an answer to what was asked at another page   *)
(* or with another cookie does not open it for longer (App.tsx,             *)
(* useServerAuth and Protected).                                            *)
PageIsConfirmed ==
    \A t \in Window : GateOpen(t) => wasIn[t] \/ (due[t] /\ wasInBefore[t])

(* Why: a check of this visit is answered "yes" only if the cookie was good  *)
(* during it, one of the visit before if it was good during one of the two.  *)
Confirmed ==
    /\ PageIsConfirmed
    /\ session => \A t \in Window : wasIn[t]
    /\ \A c \in checks :
        /\ c.visit <= visit[c.tab]
        /\ c.reply = "yes" =>
             /\ c.visit = visit[c.tab] => wasIn[c.tab]
             /\ c.visit = visit[c.tab] - 1 => wasIn[c.tab] \/ wasInBefore[c.tab]
=============================================================================
