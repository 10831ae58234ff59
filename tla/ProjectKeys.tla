---------------------------- MODULE ProjectKeys ----------------------------
(***************************************************************************)
(* Keys of end-to-end encrypted projects: the administrator's tabs that    *)
(* make, register and keep them, the respondents' forms that encrypt for   *)
(* the keys they were given, and the offline re-wrap that adds a           *)
(* recipient.  Tabs share the localStorage of one browser.                 *)
(*                                                                         *)
(* A key pair is an element of Key.  An envelope is a data key (DEK) that  *)
(* was encrypted for a key, and opens a response encrypted with that data  *)
(* key only.  A server handler is one action per store call; a write that  *)
(* fails is logged, and the caller is told that it was done.  Deleting a   *)
(* scale cascades here; SurveyStore has connections on which it does not.  *)
(***************************************************************************)
EXTENDS FiniteSets

CONSTANTS
    Scale, Key, Id,
    Dek,                \* data keys, each generated for one submission
    BadKey,             \* keys nothing can be encrypted for
    Tab, Form, Rewrap,  \* open pages of each kind
    NULL

ASSUME KeysAssumption ==
    /\ BadKey \subseteq Key
    /\ NULL \notin Scale \cup Key \cup Id \cup Dek

VARIABLES
    scales,             \* scales with e2ee_enabled
    projectKeys,        \* table project_keys: scale and key
    sealed,             \* table e2ee_responses
    storage,            \* localStorage: the private key of each entry
    files,              \* private keys downloaded, or held by who pasted them
    tab, form, rewrap,  \* where each page is, and its variables
    used,               \* scales and keys generated: they do not repeat
    announced,          \* projects reported as created, with their key
    unwritten           \* projects whose first key was not written

server == <<scales, projectKeys, sealed>>
browser == <<storage, files>>
history == <<announced, unwritten>>
vars == <<server, browser, tab, form, rewrap, used, history>>

(* synap_pmk_pending, synap_pmk and synap_pmk_<scale>                       *)
Entry == {"pending", "any"} \cup Scale

Registration == [scale : Scale, key : Key]

Envelope == [key : Key, dek : Dek]

(* kept: the envelopes the row was last submitted with, none if a re-wrap   *)
(* held the row's envelopes then, and those appended since while no other   *)
(* re-wrap held them.  No action reads it.                                  *)
SealedRow == [id : Id, scale : Scale, dek : Dek, encDEK : SUBSET Envelope,
              kept : SUBSET Envelope]

TabState == [at : {"idle", "create", "keys", "check", "insert", "reply", "rollback"},
             page : {"create", "keys", NULL}, scale : Scale \cup {NULL},
             key : Key \cup {NULL}, pasted : BOOLEAN]
FormState == [at : {"idle", "post", "insert"}, scale : Scale \cup {NULL},
              dek : Dek \cup {NULL}, keys : SUBSET Key]

RewrapItem == [id : Id, dek : Dek]
RewrapState == [at : {"idle", "read", "write"}, to : Key \cup {NULL},
                left : SUBSET RewrapItem, item : RewrapItem \cup {NULL},
                encDEK : SUBSET Envelope]

ClosedTab == [at |-> "idle", page |-> NULL, scale |-> NULL, key |-> NULL,
              pasted |-> FALSE]
ClosedForm == [at |-> "idle", scale |-> NULL, dek |-> NULL, keys |-> {}]
NoRewrap == [at |-> "idle", to |-> NULL, left |-> {}, item |-> NULL,
             encDEK |-> {}]

Init ==
    /\ scales = {} /\ projectKeys = {} /\ sealed = {}
    /\ storage = [e \in Entry |-> NULL] /\ files = {}
    /\ tab = [t \in Tab |-> ClosedTab]
    /\ form = [f \in Form |-> ClosedForm]
    /\ rewrap = [w \in Rewrap |-> NoRewrap]
    /\ used = {} /\ announced = {} /\ unwritten = {}

KeysOf(s) == {r.key : r \in {p \in projectKeys : p.scale = s}}

SetTab(t, state) == tab' = [tab EXCEPT ![t] = state]

(* Storing a key for a scale drops the one of no scale in particular.       *)
Store(e, k) ==
    storage' = [storage EXCEPT ![e] = k,
                               !["any"] = IF e = "any" THEN k ELSE NULL]

DropScale(s) ==
    /\ scales' = scales \ {s}
    /\ projectKeys' = {p \in projectKeys : p.scale # s}
    /\ sealed' = {row \in sealed : row.scale # s}

-----------------------------------------------------------------------------
(* Administration page: create an encrypted project *)

(* The key pair exists, under the pending entry, before the project does.   *)
GenerateForProject(t) ==
    /\ tab[t].at = "idle"
    /\ \E k \in Key \ (used \cup BadKey) :
        /\ used' = used \cup {k}
        /\ storage' = [storage EXCEPT !["pending"] = k]
        /\ SetTab(t, [ClosedTab EXCEPT !.at = "create", !.page = "create", !.key = k])
    /\ UNCHANGED <<server, files, form, rewrap, history>>

PasteForProject(t) ==
    /\ tab[t].at = "idle"
    /\ \E k \in Key \ used :
        /\ used' = used \cup {k}
        /\ files' = files \cup {k}
        /\ SetTab(t, [ClosedTab EXCEPT !.at = "create", !.page = "create",
                                       !.key = k, !.pasted = TRUE])
    /\ UNCHANGED <<server, storage, form, rewrap, history>>

(* A lost reply ends the attempt: the call is not inside the try that rolls *)
(* the project back.                                                        *)
CreateScale(t) ==
    /\ tab[t].at = "create"
    /\ \E s \in Scale \ used :
        /\ used' = used \cup {s}
        /\ scales' = scales \cup {s}
        /\ \/ SetTab(t, [tab[t] EXCEPT !.at = "check", !.scale = s])
           \/ SetTab(t, ClosedTab)
    /\ UNCHANGED <<projectKeys, sealed, browser, form, rewrap, history>>

(* AddProjectKey: GetScale, then the INSERT, whose errors are logged. *)
CheckKey(t) ==
    /\ tab[t].at = "check"
    /\ tab[t].scale \in scales
    /\ SetTab(t, [tab[t] EXCEPT !.at = "insert"])
    /\ UNCHANGED <<server, browser, form, rewrap, used, history>>

InsertKey(t) ==
    /\ tab[t].at = "insert"
    /\ \/ /\ tab[t].scale \in scales
          /\ projectKeys' = projectKeys \cup {[scale |-> tab[t].scale, key |-> tab[t].key]}
          /\ UNCHANGED unwritten
       \/ /\ unwritten' = IF tab[t].page = "create"
                          THEN unwritten \cup {tab[t].scale} ELSE unwritten
          /\ UNCHANGED projectKeys
    /\ SetTab(t, [tab[t] EXCEPT !.at = "reply"])
    /\ UNCHANGED <<scales, sealed, browser, form, rewrap, used, announced>>

(* Refused, or the request or its reply lost: the creating page rolls the   *)
(* project back, the key page only shows the error.                         *)
KeyFailed(t) ==
    /\ tab[t].at \in {"check", "insert", "reply"}
    /\ SetTab(t, [tab[t] EXCEPT
                    !.at = IF tab[t].page = "create" THEN "rollback" ELSE "keys"])
    /\ UNCHANGED <<server, browser, form, rewrap, used, history>>

(* Mutant of Rollback: the error is caught and the project reported.        *)
RollbackSwallowed(t) ==
    /\ tab[t].at = "rollback"
    /\ announced' = announced \cup {[scale |-> tab[t].scale, key |-> tab[t].key]}
    /\ SetTab(t, ClosedTab)
    /\ UNCHANGED <<server, browser, form, rewrap, used, unwritten>>

(* The DELETE may get lost too. *)
Rollback(t) ==
    /\ tab[t].at = "rollback"
    /\ DropScale(tab[t].scale) \/ UNCHANGED server
    /\ SetTab(t, ClosedTab)
    /\ UNCHANGED <<browser, form, rewrap, used, history>>

(* The project is reported, its private key stored and downloaded.          *)
ProjectCreated(t) ==
    /\ tab[t].at = "reply" /\ tab[t].page = "create"
    /\ IF tab[t].pasted THEN UNCHANGED browser
       ELSE /\ storage' = [storage EXCEPT ![tab[t].scale] = tab[t].key,
                                          !["pending"] = NULL, !["any"] = NULL]
            /\ files' = files \cup {tab[t].key}
    /\ announced' = announced \cup {[scale |-> tab[t].scale, key |-> tab[t].key]}
    /\ SetTab(t, ClosedTab)
    /\ UNCHANGED <<server, form, rewrap, used, unwritten>>

CloseTab(t) ==
    /\ tab[t].at # "idle"
    /\ SetTab(t, ClosedTab)
    /\ UNCHANGED <<server, browser, form, rewrap, used, history>>

DeleteScale(s) ==
    /\ DropScale(s)
    /\ UNCHANGED <<browser, tab, form, rewrap, used, history>>

-----------------------------------------------------------------------------
(* Key management page *)

(* The private key is stored for the project chosen now, over the one there.*)
GenX25519(t) ==
    /\ tab[t].at = "idle"
    /\ \E k \in Key \ (used \cup BadKey), e \in scales \cup {"any"} :
        /\ used' = used \cup {k}
        /\ Store(e, k)
        /\ SetTab(t, [ClosedTab EXCEPT !.at = "keys", !.page = "keys", !.key = k])
    /\ UNCHANGED <<server, files, form, rewrap, history>>

(* The project may be another one by now. *)
Register(t) ==
    /\ tab[t].at = "keys"
    /\ \E s \in scales : SetTab(t, [tab[t] EXCEPT !.at = "check", !.scale = s])
    /\ UNCHANGED <<server, browser, form, rewrap, used, history>>

Registered(t) ==
    /\ tab[t].at = "reply" /\ tab[t].page = "keys"
    /\ SetTab(t, [tab[t] EXCEPT !.at = "keys"])
    /\ UNCHANGED <<server, browser, form, rewrap, used, history>>

ImportKey ==
    /\ \E k \in files, e \in scales \cup {"any"} : Store(e, k)
    /\ UNCHANGED <<server, files, tab, form, rewrap, used, history>>

-----------------------------------------------------------------------------
(* Survey page of an encrypted project *)

(* Keys that are invalid are skipped.                                       *)
EncryptForProject(keys) == keys \ BadKey

(* No keys is an error, and so, at the server, is a response nobody can     *)
(* open because every key was skipped.                                      *)
ReadKeys(f) ==
    /\ form[f].at = "idle"
    /\ \E s \in scales, d \in Dek \ used :
        /\ EncryptForProject(KeysOf(s)) # {}
        /\ used' = used \cup {d}
        /\ form' = [form EXCEPT ![f] = [at |-> "post", scale |-> s, dek |-> d,
                                        keys |-> EncryptForProject(KeysOf(s))]]
    /\ UNCHANGED <<server, browser, tab, rewrap, history>>

IntakeResponse(f) ==
    /\ form[f].at = "post"
    /\ form' = [form EXCEPT ![f] = IF form[f].scale \in scales
                                   THEN [form[f] EXCEPT !.at = "insert"]
                                   ELSE ClosedForm]
    /\ UNCHANGED <<server, browser, tab, rewrap, used, history>>

Wrapped(keys, d) == {[key |-> k, dek |-> d] : k \in keys}

Holds(w, i) == rewrap[w].at = "write" /\ rewrap[w].item.id = i

(* Mutant of Upserted: the rows of an id that is sent again stay.           *)
Inserted(row) == sealed \cup {row}

(* ON CONFLICT(response_id) DO UPDATE writes every column.                  *)
Upserted(row) == {old \in sealed : old.id # row.id} \cup {row}

(* The id is the client's, if it sends one, or a generated one.  A client   *)
(* that gets no reply may send the same again.                              *)
AddE2EEResponse(f) ==
    /\ form[f].at = "insert"
    /\ \/ /\ form[f].scale \in scales
          /\ \E i \in Id :
              LET wrapped == Wrapped(form[f].keys, form[f].dek)
                  held == \E w \in Rewrap : Holds(w, i)
              IN  sealed' = Upserted([id |-> i, scale |-> form[f].scale,
                                      dek |-> form[f].dek, encDEK |-> wrapped,
                                      kept |-> IF held THEN {} ELSE wrapped])
       \/ UNCHANGED sealed
    /\ \E next \in {ClosedForm, [form[f] EXCEPT !.at = "post"]} :
        form' = [form EXCEPT ![f] = next]
    /\ UNCHANGED <<scales, projectKeys, browser, tab, rewrap, used, history>>

DeleteE2EEResponse ==
    /\ \E row \in sealed : sealed' = sealed \ {row}
    /\ UNCHANGED <<scales, projectKeys, browser, tab, form, rewrap, used, history>>

-----------------------------------------------------------------------------
(* Offline re-wrap *)

SetRewrap(w, state) == rewrap' = [rewrap EXCEPT ![w] = state]

Held == files \cup ({storage[e] : e \in Entry} \ {NULL})

(* The data keys a client gets out of the envelopes of a project.           *)
Unwrapped(s, from) ==
    {[id |-> x[1].id, dek |-> x[2].dek] :
        x \in {y \in {r \in sealed : r.scale = s} \X Envelope :
                  y[2] \in y[1].encDEK /\ y[2].key = from}}

(* What it sends back is its choice.                                        *)
ListRewrapItems(w) ==
    /\ rewrap[w].at = "idle"
    /\ \E s \in scales, from \in Held : \E to \in KeysOf(s) \ BadKey :
       \E items \in SUBSET Unwrapped(s, from) :
            /\ items # {}
            /\ SetRewrap(w, [NoRewrap EXCEPT !.at = "read", !.to = to,
                                             !.left = items])
    /\ UNCHANGED <<server, browser, tab, form, used, history>>

(* SubmitRewrap: AppendE2EEEncDEK reads each row and writes it back.        *)
AppendReads(w) ==
    /\ rewrap[w].at = "read"
    /\ \E row \in sealed, item \in rewrap[w].left :
        /\ row.id = item.id
        /\ SetRewrap(w, [rewrap[w] EXCEPT !.at = "write", !.item = item,
                                          !.encDEK = row.encDEK])
    /\ UNCHANGED <<server, browser, tab, form, used, history>>

NewEnvelope(w) == [key |-> rewrap[w].to, dek |-> rewrap[w].item.dek]

(* Mutant of Envelopes: the new envelope takes the place of the others.     *)
OnlyTheNew(w) == {NewEnvelope(w)}

Envelopes(w) == rewrap[w].encDEK \cup {NewEnvelope(w)}

AppendWrites(w) ==
    /\ rewrap[w].at = "write"
    /\ LET item == rewrap[w].item
           alone == \A v \in Rewrap \ {w} : ~Holds(v, item.id)
       IN  /\ sealed' = {IF row.id # item.id THEN row
                         ELSE [row EXCEPT !.encDEK = Envelopes(w),
                                          !.kept = IF alone THEN @ \cup {NewEnvelope(w)}
                                                   ELSE @] : row \in sealed}
           /\ SetRewrap(w, [rewrap[w] EXCEPT
                    !.at = "read", !.item = NULL, !.encDEK = {},
                    !.left = rewrap[w].left \ {item}])
    /\ UNCHANGED <<scales, projectKeys, browser, tab, form, used, history>>

RewrapDone(w) ==
    /\ rewrap[w].at = "read" /\ rewrap[w].left = {}
    /\ SetRewrap(w, NoRewrap)
    /\ UNCHANGED <<server, browser, tab, form, used, history>>

(* The scale or a response is gone, or a statement fails: the items before  *)
(* are appended, the others are not.                                        *)
RewrapRefused(w) ==
    /\ rewrap[w].at \in {"read", "write"}
    /\ SetRewrap(w, NoRewrap)
    /\ UNCHANGED <<server, browser, tab, form, used, history>>

-----------------------------------------------------------------------------
TabNext(t) ==
    \/ GenerateForProject(t) \/ PasteForProject(t) \/ CreateScale(t)
    \/ CheckKey(t) \/ InsertKey(t) \/ KeyFailed(t) \/ Rollback(t)
    \/ ProjectCreated(t) \/ CloseTab(t)
    \/ GenX25519(t) \/ Register(t) \/ Registered(t)

FormNext(f) == ReadKeys(f) \/ IntakeResponse(f) \/ AddE2EEResponse(f)

RewrapNext(w) ==
    \/ ListRewrapItems(w) \/ AppendReads(w) \/ AppendWrites(w)
    \/ RewrapDone(w) \/ RewrapRefused(w)

Next ==
    \/ \E t \in Tab : TabNext(t)
    \/ \E f \in Form : FormNext(f)
    \/ \E w \in Rewrap : RewrapNext(w)
    \/ \E s \in scales : DeleteScale(s)
    \/ ImportKey \/ DeleteE2EEResponse

Spec == Init /\ [][Next]_vars

-----------------------------------------------------------------------------
(* What the variables of a page hold when it gets somewhere.                *)
TabReady(s) ==
    /\ s.at # "idle" => s.key # NULL
    /\ s.at \in {"check", "insert", "reply", "rollback"} => s.scale # NULL

FormReady(s) == s.at # "idle" => s.scale # NULL /\ s.dek # NULL

RewrapReady(s) ==
    /\ s.at # "idle" => s.to # NULL
    /\ s.at = "write" => s.item \in s.left

TablesOK ==
    /\ scales \subseteq Scale /\ projectKeys \subseteq Registration
    /\ sealed \subseteq SealedRow
    /\ \A x, y \in sealed : x.id = y.id => x = y

BrowserOK == storage \in [Entry -> Key \cup {NULL}] /\ files \subseteq Key

PagesOK ==
    /\ tab \in [Tab -> TabState] /\ form \in [Form -> FormState]
    /\ rewrap \in [Rewrap -> RewrapState]
    /\ \A t \in Tab : TabReady(tab[t])
    /\ \A f \in Form : FormReady(form[f])
    /\ \A w \in Rewrap : RewrapReady(rewrap[w])

HistoryOK ==
    /\ used \subseteq Scale \cup Key \cup Dek
    /\ announced \subseteq Registration /\ unwritten \subseteq Scale

(* Tables, storage and pages have their types, a response has one row       *)
(* however often it is sent, and a request holds the inputs its next store  *)
(* call takes.                                                              *)
TypeOK == TablesOK /\ BrowserOK /\ PagesOK /\ HistoryOK

(* docs/e2ee.md:65: a re-wrap appends its envelopes.  However many re-wraps *)
(* and submissions of one project overlap, a response keeps the envelopes   *)
(* it was last sent with and those appended since, with two exceptions: an  *)
(* envelope that was written while another re-wrap had read the response    *)
(* and not written it yet (both are answered { ok: true }), and a response  *)
(* that was sent again at such a time (AppendE2EEEncDEK).                   *)
EnvelopesKept == \A row \in sealed : row.kept \subseteq row.encDEK

(* A project reported as created and not deleted since has the private half *)
(* of its key in a file, and the key registered, so that forms are          *)
(* encrypted for it, unless the INSERT failed and was only logged           *)
(* (AddProjectKey): a refusal is rolled back, replies get lost, and other   *)
(* tabs overwrite localStorage.                                             *)
AnnouncedIsUsable ==
    \A p \in announced : p.scale \in scales =>
        /\ p.key \in files
        /\ p \in projectKeys \/ p.scale \in unwritten
=============================================================================
