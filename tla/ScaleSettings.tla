--------------------------- MODULE ScaleSettings ---------------------------
(***************************************************************************)
(* The settings of one scale: tabs that show its editor (scale-editor/) or *)
(* the legacy page (AdminScale.tsx), and the requests they have under way, *)
(* over the scale's row and its items.  No button waits for the request of *)
(* another one, no tab hears of another one, and the server reads a row,   *)
(* changes the fields of the request and writes every column.              *)
(*                                                                         *)
(* A text has the language a form shows ("own") and one that only the AI   *)
(* translation writes ("other").  What is typed is a number that was not   *)
(* used before.                                                            *)
(***************************************************************************)
EXTENDS Naturals

CONSTANTS
    Tab, Slot,      \* Slot: the requests that can be under way at once
    Item,           \* the scale's items, numbered
    Editable,       \* the fields that are edited
    MaxEdits, MaxSaves,
    NULL

Blank == 0
Preset == 1         \* the recommended consent options; any field at first
Value == 0..(MaxEdits + 1)

Field == {"name", "labels", "security", "text", "config"}
FormField == {"name", "labels", "security", "text", "options"}

ASSUME SettingsAssumption ==
    /\ MaxEdits \in Nat /\ MaxSaves \in Nat /\ Item \subseteq Nat /\ Editable \subseteq FormField
    /\ NULL \notin Tab

Text == [own : Value, other : {0, 1}]
Config == [options : Value, signature : BOOLEAN]
Row == [name : Text, labels : Value, security : Value, text : Text,
        config : Config]

ItemRow == [stem : Text, type : {"", "single"}, options : BOOLEAN,
            required : BOOLEAN, position : Nat]

VARIABLES
    row,            \* of the scale
    items,          \* of each item
    calls,          \* of each slot: a request and what its callback keeps
    tab,            \* each page's state
    edits, saves,   \* how many were made and begun
    told            \* of each field what the last message "saved" was about

settingsVars == <<row, items, calls, tab, edits, saves, told>>

FirstText == [own |-> Preset, other |-> 0]
FirstRow == [name |-> FirstText, labels |-> Preset, security |-> Preset,
             text |-> FirstText,
             config |-> [options |-> Blank, signature |-> FALSE]]
AuthoredItem(i) == [stem |-> FirstText, type |-> "single", options |-> TRUE,
                    required |-> TRUE, position |-> i]

EmptyForm == [name |-> Blank, labels |-> Blank, security |-> Blank, text |-> Blank,
              options |-> Blank, signature |-> FALSE]

NewTab(kind) ==
    [kind |-> kind, scale |-> NULL, list |-> NULL, form |-> EmptyForm,
     timer |-> NULL, preview |-> FALSE, applying |-> FALSE]

Idle == [op |-> "idle", tab |-> NULL, fields |-> <<>>, base |-> NULL,
         then |-> "none", todo |-> <<>>, patch |-> <<>>, phase |-> "sent",
         seen |-> NULL, got |-> NULL, sure |-> {}, heard |-> TRUE]

LoadOf(t) == [Idle EXCEPT !.op = "load", !.tab = t]

-----------------------------------------------------------------------------
(* Between the row, the page and a request.                                 *)

(* The legacy page shows the preset in place of an empty list of options.   *)
FormOf(kind, r) ==
    LET bare == kind = "legacy" /\ r.config.options = Blank
    IN  [name |-> r.name.own, labels |-> r.labels, security |-> r.security,
         text |-> r.text.own,
         options |-> IF bare THEN Preset ELSE r.config.options,
         signature |-> bare \/ r.config.signature]

ConfigOf(form) == [options |-> form.options, signature |-> form.signature]

(* The row as the page would have it.  The editor sends a consent text in   *)
(* the languages of its form, the legacy page in all it has read.           *)
Draft(p) ==
    [name |-> [p.scale.name EXCEPT !.own = p.form.name],
     labels |-> p.form.labels, security |-> p.form.security,
     text |-> IF p.kind = "editor" THEN [own |-> p.form.text, other |-> 0]
              ELSE [p.scale.text EXCEPT !.own = p.form.text],
     config |-> ConfigOf(p.form)]

Panels(kind) ==
    IF kind = "editor"
    THEN {{"name", "labels"}, {"security"}, {"text", "config"}}
    ELSE {{"name", "labels", "security", "text"}, {"text"}, {"config"}}

(* Lists of labels that are empty in every language are not applied.        *)
Named(sent) ==
    {f \in DOMAIN sent : f = "labels" => sent[f] # Blank}

(* Mutant of Merge: a field the request leaves out is emptied.              *)
MergeAll(old, sent) ==
    [f \in Field |->
        CASE f \in Named(sent) -> sent[f]
          [] f = "security" -> Blank
          [] OTHER -> old[f]]

(* Mutant of Merge: the row becomes what was sent.                          *)
Replace(old, sent) == sent

Merge(old, sent) ==
    [f \in Field |-> IF f \in Named(sent) THEN sent[f] ELSE old[f]]

(* What the editor takes the row to be once its save is answered.           *)
Shown(base, sent) ==
    [f \in Field |->
        IF f \notin DOMAIN sent THEN base[f]
        ELSE IF f # "text" THEN sent[f]
        ELSE [base.text EXCEPT
                !.own = IF sent.text.own = Blank THEN @ ELSE sent.text.own]]

(* A PUT of an item is decoded into an empty item: what it leaves out is 0. *)
NoItem == [stem |-> [own |-> Blank, other |-> 0], type |-> "", options |-> FALSE,
           required |-> FALSE, position |-> 0]

-----------------------------------------------------------------------------
SettingsInit ==
    /\ row = FirstRow
    /\ items = [i \in Item |-> AuthoredItem(i)]
    /\ tab \in [Tab -> {NewTab("editor"), NewTab("legacy")}]
    /\ calls = [s \in Slot |-> Idle]
    /\ edits = 0 /\ saves = 0
    /\ told = [f \in Field |-> NULL]

Free(s) == calls[s].op = "idle"

Becomes(s, c) == calls' = [calls EXCEPT ![s] = c]

(* A save begins.  Until it is answered nobody is sure of its fields, and   *)
(* of those that another save under way names nobody will be.               *)
Begin(s, c) ==
    /\ Free(s)
    /\ saves < MaxSaves /\ saves' = saves + 1
    /\ calls' = [r \in Slot |->
          IF r = s
          THEN [c EXCEPT !.sure = Named(c.fields) \
                                    UNION {DOMAIN calls[q].fields : q \in Slot}]
          ELSE [calls[r] EXCEPT !.sure = @ \ DOMAIN c.fields]]
    /\ told' = [f \in Field |-> IF f \in DOMAIN c.fields THEN NULL ELSE told[f]]

Press(t, sent, then) ==
    \E s \in Slot :
        Begin(s, [Idle EXCEPT !.op = "save", !.tab = t, !.fields = sent,
                              !.then = then,
                              !.base = IF then = "merge" THEN tab[t].scale ELSE NULL])

PressConfig(t, config) == Press(t, [config |-> config], "none")

Open(t) == tab[t].scale # NULL
Listed(t) == IF tab[t].list = NULL THEN {} ELSE Item
Legacy(t) == Open(t) /\ tab[t].kind = "legacy"

(* Items that will be sent, with their positions: they are sent in the order*)
(* in which they are listed.                                                *)
Foremost(todo) ==
    CHOOSE i \in DOMAIN todo : \A j \in DOMAIN todo \ {i} :
        todo[i] < todo[j] \/ (todo[i] = todo[j] /\ i < j)

Rest(todo) == [i \in DOMAIN todo \ {Foremost(todo)} |-> todo[i]]

(* Of a page that is gone: what is on the wire is still handled.            *)
Orphan(c) ==
    LET o == [Idle EXCEPT !.op = "save", !.heard = FALSE, !.phase = c.phase]
    IN  IF c.phase = "items"
        THEN [o EXCEPT !.todo = [i \in {Foremost(c.todo)} |-> 0], !.patch = c.patch]
        ELSE [o EXCEPT !.fields = c.fields, !.seen = c.seen]

(* What is typed next.                                                      *)
Fresh == edits + 2
Typed == edits < MaxEdits /\ edits' = edits + 1

-----------------------------------------------------------------------------
(* The pages.                                                               *)

(* A page that is mounted, or mounted again, asks for scale and items.      *)
Load(t) ==
    /\ \E s \in Slot : Free(s) /\ Becomes(s, LoadOf(t))
    /\ tab[t].scale = NULL
    /\ \A s \in Slot : ~(calls[s].op = "load" /\ calls[s].tab = t)
    /\ UNCHANGED <<row, items, tab, edits, saves, told>>

EditForm(t) ==
    /\ Open(t) /\ Typed
    /\ \E f \in Editable :
        /\ f = "options" => tab[t].kind = "editor"
        /\ \E v \in {Fresh} \cup (IF f \in {"labels", "text"} THEN {Blank} ELSE {}) :
              tab' = [tab EXCEPT ![t].form[f] = v]
    /\ UNCHANGED <<row, items, calls, saves, told>>

(* The buttons "Save" of both pages.                                        *)
SavePanel(t) ==
    /\ Open(t)
    /\ \E panel \in Panels(tab[t].kind) :
          Press(t, [f \in panel |-> Draft(tab[t])[f]],
                IF tab[t].kind = "editor" THEN "merge" ELSE "none")
    /\ UNCHANGED <<row, items, tab, edits>>

(* Legacy: an edit in the table of options starts the timer of an autosave, *)
(* whose callback has the options of before the edit.                       *)
EditOption(t) ==
    /\ Legacy(t) /\ "options" \in Editable /\ Typed
    /\ tab' = [tab EXCEPT ![t].timer = ConfigOf(tab[t].form),
                          ![t].form.options = Fresh]
    /\ UNCHANGED <<row, items, calls, saves, told>>

(* Legacy: a mode, a template, a new or deleted option is saved at once.    *)
ChangeOptions(t) ==
    /\ Legacy(t) /\ "options" \in Editable /\ Typed
    /\ tab' = [tab EXCEPT ![t].form.options = Fresh]
    /\ PressConfig(t, [ConfigOf(tab[t].form) EXCEPT !.options = Fresh])
    /\ UNCHANGED <<row, items>>

(* Legacy: both boxes pass their own value on, one to the autosave.         *)
TickSignature(t) ==
    /\ Legacy(t) /\ Typed
    /\ LET config == [ConfigOf(tab[t].form) EXCEPT !.signature = ~@]
       IN  \/ /\ tab' = [tab EXCEPT ![t].form.signature = ~@]
              /\ PressConfig(t, config)
           \/ /\ tab' = [tab EXCEPT ![t].form.signature = ~@, ![t].timer = config]
              /\ UNCHANGED <<calls, saves, told>>
    /\ UNCHANGED <<row, items>>

(* Legacy: a preset is shown and not saved; a reset saves what was before.  *)
ChoosePreset(t) ==
    /\ Legacy(t) /\ Typed
    /\ \/ /\ \E signature \in BOOLEAN :
                tab' = [tab EXCEPT ![t].form.options = Preset,
                                   ![t].form.signature = signature]
          /\ UNCHANGED <<calls, saves, told>>
       \/ /\ tab' = [tab EXCEPT ![t].form.options = Preset,
                                ![t].form.signature = TRUE]
          /\ PressConfig(t, ConfigOf(tab[t].form))
    /\ UNCHANGED <<row, items>>

(* 600 ms later, also if the page has been left for the other one.          *)
TimerFires(t) ==
    /\ tab[t].timer # NULL
    /\ PressConfig(t, tab[t].timer)
    /\ tab' = [tab EXCEPT ![t].timer = NULL]
    /\ UNCHANGED <<row, items, edits>>

(* The answer of a preview arrives: of now, or of a request made before.    *)
Preview(t) ==
    /\ Open(t) /\ ~tab[t].preview
    /\ tab' = [tab EXCEPT ![t].preview = TRUE]
    /\ UNCHANGED <<row, items, calls, edits, saves, told>>

(* "Preview" takes the old one away (not on the legacy page); so does       *)
(* "Cancel".                                                                *)
Hide(t) ==
    /\ tab[t].preview
    /\ tab' = [tab EXCEPT ![t].preview = FALSE]
    /\ UNCHANGED <<row, items, calls, edits, saves, told>>

Translated(text) == [text EXCEPT !.other = 1]

(* Apply: the included items one after the other, each with nothing but its *)
(* stem, then the texts of the scale that were translated, then a reload.   *)
Apply(t) ==
    /\ Open(t) /\ tab[t].preview /\ ~tab[t].applying
    /\ \E s \in Slot, chosen \in SUBSET Listed(t), texts \in SUBSET {"name", "text"} :
        /\ chosen # {} \/ texts # {}
        /\ Begin(s,
             [Idle EXCEPT !.op = "save", !.tab = t, !.then = "reload",
                !.phase = IF chosen = {} THEN "sent" ELSE "items",
                !.todo = [i \in chosen |-> tab[t].list[i].position],
                !.patch = [i \in chosen |->
                    [NoItem EXCEPT !.stem = Translated(tab[t].list[i].stem)]],
                !.fields = [f \in texts |-> Translated(tab[t].scale[f])]])
    /\ tab' = IF tab[t].kind = "editor" THEN [tab EXCEPT ![t].applying = TRUE] ELSE tab
    /\ UNCHANGED <<row, items, edits>>

(* Legacy: an item is sent without its options, bounds and placeholder.     *)
SaveItem(t) ==
    /\ Legacy(t)
    /\ \E s \in Slot, i \in Item :
        /\ Begin(s, [Idle EXCEPT !.op = "save", !.tab = t, !.phase = "items",
                         !.todo = [j \in {i} |-> 0],
                         !.patch = [j \in {i} |-> [tab[t].list[i] EXCEPT
                                        !.options = FALSE, !.position = 0]]])
    /\ UNCHANGED <<row, items, tab, edits>>

(* The link to the other page, or Back: requests and a timer go on, and the *)
(* page they were for is gone.                                              *)
OpenOther(t) ==
    /\ tab' = [tab EXCEPT ![t] = [NewTab(IF @.kind = "editor" THEN "legacy" ELSE "editor")
                                    EXCEPT !.timer = tab[t].timer]]
    /\ calls' = [s \in Slot |->
          IF calls[s].tab # t THEN calls[s]
          ELSE IF calls[s].op = "save" THEN [calls[s] EXCEPT !.then = "none", !.base = NULL]
          ELSE Idle]
    /\ UNCHANGED <<row, items, edits, saves, told>>

(* The tab is reloaded: what is not yet on the wire is never sent.          *)
ReloadPage(t) ==
    /\ tab' = [tab EXCEPT ![t] = NewTab(@.kind)]
    /\ calls' = [s \in Slot |->
          IF calls[s].tab # t THEN calls[s]
          ELSE IF calls[s].op = "save" /\ calls[s].phase # "done"
          THEN Orphan(calls[s])
          ELSE Idle]
    /\ UNCHANGED <<row, items, edits, saves, told>>

-----------------------------------------------------------------------------
(* The server.                                                              *)

(* The two GETs of a load, in any order; the legacy page asks for the items *)
(* once it has the scale.                                                   *)
GetScale(s) ==
    /\ calls[s].op = "load" /\ calls[s].seen = NULL
    /\ Becomes(s, [calls[s] EXCEPT !.seen = row])
    /\ UNCHANGED <<row, items, tab, edits, saves, told>>

GetItems(s) ==
    /\ calls[s].op = "load" /\ calls[s].got = NULL
    /\ tab[calls[s].tab].kind = "legacy" => calls[s].seen # NULL
    /\ Becomes(s, [calls[s] EXCEPT !.got = items])
    /\ UNCHANGED <<row, items, tab, edits, saves, told>>

(* UpdateItem writes every column of what it was sent.                      *)
PutItem(s) ==
    /\ calls[s].op = "save" /\ calls[s].phase = "items"
    /\ LET c == calls[s]  i == Foremost(c.todo)
       IN  /\ items' = [items EXCEPT ![i] = c.patch[i]]
           /\ Becomes(s, IF ~c.heard THEN Idle ELSE
                [c EXCEPT !.todo = Rest(c.todo),
                    !.phase = IF DOMAIN Rest(c.todo) # {} THEN "items"
                              ELSE IF DOMAIN c.fields = {} THEN "done" ELSE "sent"])
    /\ UNCHANGED <<row, tab, edits, saves, told>>

Between(s) == calls[s].op = "save" /\ calls[s].phase = "read"

(* UpdateScale reads the row ...                                            *)
ReadScale(s) ==
    /\ calls[s].op = "save" /\ calls[s].phase = "sent"
    /\ LET others == {r \in Slot : Between(r)}
       IN  calls' = [r \in Slot |->
             IF r = s THEN [calls[s] EXCEPT !.phase = "read", !.seen = row,
                                            !.sure = IF others = {} THEN @ ELSE {}]
             ELSE IF r \in others THEN [calls[r] EXCEPT !.sure = {}]
             ELSE calls[r]]
    /\ UNCHANGED <<row, items, tab, edits, saves, told>>

(* ... and writes it as it was, but for the fields of the request.          *)
WriteScale(s) ==
    /\ Between(s)
    /\ row' = Merge(calls[s].seen, calls[s].fields)
    /\ Becomes(s, IF calls[s].heard
                  THEN [calls[s] EXCEPT !.phase = "done", !.seen = NULL]
                  ELSE Idle)
    /\ UNCHANGED <<items, tab, edits, saves, told>>

-----------------------------------------------------------------------------
(* Answers.                                                                 *)

(* reload or load: the form is replaced, edited or not.                     *)
Loaded(s) ==
    /\ calls[s].op = "load" /\ calls[s].seen # NULL /\ calls[s].got # NULL
    /\ LET c == calls[s]
           p == tab[c.tab]
       IN  tab' = [tab EXCEPT ![c.tab] =
             [p EXCEPT !.scale = c.seen, !.list = c.got,
                       !.form = FormOf(p.kind, c.seen),
                       !.preview = @ /\ p.kind = "legacy",
                       !.applying = FALSE]]
    /\ Becomes(s, Idle)
    /\ UNCHANGED <<row, items, edits, saves, told>>

(* The editor forgets the scale, the legacy page keeps what it has.         *)
LoadFailed(s) ==
    /\ calls[s].op = "load"
    /\ LET t == calls[s].tab
       IN  tab' = IF tab[t].kind = "legacy" THEN tab
                  ELSE [tab EXCEPT ![t] = [NewTab("editor") EXCEPT !.timer = tab[t].timer]]
    /\ Becomes(s, Idle)
    /\ UNCHANGED <<row, items, edits, saves, told>>

(* The message "saved" appears.                                             *)
Saved(s) ==
    /\ calls[s].op = "save" /\ calls[s].phase = "done" /\ calls[s].heard
    /\ LET c == calls[s]
           p == tab[c.tab]
       IN  /\ told' = [f \in Field |->
                IF f \in c.sure THEN c.fields[f] ELSE told[f]]
           /\ tab' = CASE c.then = "merge" ->
                            [tab EXCEPT ![c.tab].scale = Shown(c.base, c.fields)]
                       [] c.then = "reload" ->
                            [tab EXCEPT ![c.tab].preview = FALSE]
                       [] OTHER -> tab
           /\ Becomes(s, IF c.then = "reload" THEN LoadOf(c.tab) ELSE Idle)
    /\ UNCHANGED <<row, items, edits, saves>>

(* The page is told of an error: the request, or its answer, was lost.      *)
Failed(s) ==
    /\ calls[s].op = "save" /\ calls[s].heard
    /\ LET c == calls[s]
       IN  /\ \/ c.phase # "read" /\ Becomes(s, Idle)
              \/ c.phase # "done" /\ Becomes(s, Orphan(c))
           /\ tab' = IF c.then = "reload" THEN [tab EXCEPT ![c.tab].applying = FALSE]
                     ELSE tab
    /\ UNCHANGED <<row, items, edits, saves, told>>

(* A request of a page that is gone is lost.                                *)
Dropped(s) ==
    /\ calls[s].op = "save" /\ ~calls[s].heard /\ calls[s].phase # "read"
    /\ Becomes(s, Idle)
    /\ UNCHANGED <<row, items, tab, edits, saves, told>>

-----------------------------------------------------------------------------
Page(t) ==
    \/ Load(t) \/ EditForm(t) \/ SavePanel(t)
    \/ EditOption(t) \/ ChangeOptions(t) \/ TickSignature(t)
    \/ ChoosePreset(t) \/ TimerFires(t)
    \/ Preview(t) \/ Hide(t) \/ Apply(t) \/ SaveItem(t)
    \/ OpenOther(t) \/ ReloadPage(t)

Request(s) ==
    \/ GetScale(s) \/ GetItems(s) \/ PutItem(s) \/ ReadScale(s) \/ WriteScale(s)
    \/ Loaded(s) \/ LoadFailed(s) \/ Saved(s) \/ Failed(s) \/ Dropped(s)

SettingsNext == \/ \E t \in Tab : Page(t)
                \/ \E s \in Slot : Request(s)

SettingsSpec == SettingsInit /\ [][SettingsNext]_settingsVars

-----------------------------------------------------------------------------
(* Properties.                                                              *)

Form == [name : Value, labels : Value, security : Value, text : Value,
         options : Value, signature : BOOLEAN]

TabState ==
    [kind : {"editor", "legacy"}, scale : Row \cup {NULL},
     list : [Item -> ItemRow] \cup {NULL}, form : Form,
     timer : Config \cup {NULL}, preview : BOOLEAN, applying : BOOLEAN]

(* Types of the row, the items, the pages and the requests.                 *)
SettingsTypeOK ==
    /\ row \in Row /\ items \in [Item -> ItemRow]
    /\ tab \in [Tab -> TabState]
    /\ edits \in 0..MaxEdits /\ saves \in 0..MaxSaves
    /\ \A f \in Field : told[f] # NULL => [row EXCEPT ![f] = told[f]] \in Row
    /\ \A s \in Slot :
        LET c == calls[s]
        IN  /\ c.op \in {"idle", "load", "save"}
            /\ c.tab \in Tab \cup {NULL}
            /\ DOMAIN c.fields \subseteq Field /\ c.sure \subseteq DOMAIN c.fields
            /\ c.phase \in {"items", "sent", "read", "done"}
            /\ c.seen # NULL => c.seen \in Row

(* Why types hold: a request has what its next step takes, only the editor  *)
(* waits for a save to show it, and a legacy page that has the scale has its*)
(* items.                                                                   *)
FieldOf ==
    [name |-> Text, labels |-> Value, security |-> Value, text |-> Text,
     config |-> Config]

CallTyped(c) ==
    /\ c.op \in {"idle", "load", "save"} /\ c.tab \in Tab \cup {NULL}
    /\ c.op = "load" \/ (c.op = "save" /\ c.heard) => c.tab \in Tab
    /\ c.phase \in {"items", "sent", "read", "done"}
    /\ c.op = "save" /\ c.phase = "read" => c.seen \in Row
    /\ c.op = "save" /\ c.phase = "items" => DOMAIN c.todo # {}
    /\ \A f \in DOMAIN c.fields : f \in Field /\ c.fields[f] \in FieldOf[f]
    /\ c.sure \subseteq DOMAIN c.fields
    /\ c.op = "save" /\ c.then = "merge" => c.base \in Row
    /\ DOMAIN c.todo \subseteq DOMAIN c.patch /\ DOMAIN c.patch \subseteq Item
    /\ \A i \in DOMAIN c.patch : c.patch[i] \in ItemRow
    /\ \A i \in DOMAIN c.todo : c.todo[i] \in Nat
    /\ c.seen \in Row \cup {NULL} /\ c.got \in [Item -> ItemRow] \cup {NULL}

CallsTyped == \A s \in Slot : CallTyped(calls[s])

EditorMerges ==
    \A s \in Slot : calls[s].op = "save" /\ calls[s].then = "merge" =>
                        calls[s].tab \in Tab /\ tab[calls[s].tab].kind = "editor"

LegacyHasItems ==
    \A t \in Tab : tab[t].kind = "legacy" /\ tab[t].scale # NULL =>
                       tab[t].list \in [Item -> ItemRow]

(* What the administrator was last told is saved is what the row has: a     *)
(* save of other fields, of either page, of any tab, leaves it alone.  One  *)
(* is told nothing by a save whose update overlapped another one at the     *)
(* server, or during which another save of the field was under way          *)
(* (scale_service.go, UpdateScale; save of the settings' panels).           *)
ToldIsKept == \A f \in Field : told[f] # NULL => row[f] = told[f]

(* AI translations are saved "into item stems" (en.json:247), the rest of   *)
(* the item stays as it was authored.                                       *)
AppliedToStems ==
    \A i \in Item : [items[i] EXCEPT !.stem = FirstText] = AuthoredItem(i)
=============================================================================
