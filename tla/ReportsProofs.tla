--------------------------- MODULE ReportsProofs ---------------------------
(***************************************************************************)
(* Reports for any items, participants, languages, definitions, consents   *)
(* and formats and any number of edits.  Types and totals come first, from *)
(* the invariant Scores.  Then tables, from the invariant Tables beside    *)
(* it: the columns of items differ from one another and from those of      *)
(* consent options, a merge of consents keeps what a row had, and a chosen *)
(* text is found at one position.  Last summaries, from the invariant      *)
(* Summaries: a fold of + over a finite set is linear, and a sum of sums   *)
(* is the same by rows and by columns.                                     *)
(***************************************************************************)
EXTENDS Reports, FiniteSetTheorems, NaturalsInduction, WellFoundedInduction, TLAPS

USE ReportsAssumption DEF ReportsAssumption

-----------------------------------------------------------------------------
(* Why types and totals hold: an inductive invariant.                       *)

FormField == {"phase", "lang", "items", "scale", "consent", "answers", "points",
              "todo", "built", "edits"}

(* A form shows what there was when it was opened; only what it showed is    *)
(* answered.                                                                 *)
IsForm(f) ==
    /\ f = [x \in FormField |-> f[x]]
    /\ f.phase \in {"open", "scoring"} /\ f.lang \in Lang /\ f.scale \in ScaleDefs
    /\ f.items \in [Item -> ItemDefs \cup {NULL}]
    /\ f.edits \in [Item \cup {NULL} -> Nat]
    /\ f.points \in Nat
    /\ f.todo \subseteq DOMAIN f.answers
    /\ \A i \in DOMAIN f.answers :
          /\ i \in Item /\ f.items[i] \in ItemDefs
          /\ f.answers[i] \in Payloads(f.items[i], f.scale, f.lang)
    /\ f.phase = "open" => f.built = {}

(* As long as nothing has been edited since the form was opened, it shows    *)
(* what there is, and the server read the points it shows.                   *)
Current(f) ==
    /\ \A x \in Item \cup {NULL} : f.edits[x] <= edits[x]
    /\ \A i \in Item : f.edits[i] = edits[i] => f.items[i] = item[i]
    /\ f.edits[NULL] = edits[NULL] =>
          /\ f.scale = scale
          /\ f.phase = "scoring" => f.points = scale.points

(* A row holds what was sent from a form, and the score of the button if     *)
(* nothing had been edited from the form to the time at.                     *)
IsRow(r, at) ==
    LET f == form[r.pid]
    IN  /\ r = [x \in {"pid", "item", "raw", "score", "json"} |-> r[x]]
        /\ r.pid \in Participant /\ f # NoForm /\ f.phase = "scoring"
        /\ r.item \in DOMAIN f.answers /\ r.json = f.answers[r.item]
        /\ r.raw \in Int /\ r.score \in Int
        /\ f.edits[r.item] = at[r.item] /\ f.edits[NULL] = at[NULL]
           /\ ButtonsScored(r.pid, r.item)
           => r.score = Worth(r.pid, r.item) /\ (IsNumber(r.json) => r.raw = r.json.num)

ReportField == {"fmt", "phase", "scale", "consentScale", "items", "rs", "table",
                "totals", "alpha", "n", "histogram", "since", "edits"}

(* A report is made of rows as they were at the time it notes.               *)
ReportOK ==
    /\ report = [x \in ReportField |-> report[x]]
    /\ report.phase \in {"items", "responses", "consents", "done"}
    /\ report.fmt \in Formats \cup {NULL}
    /\ report.phase = "consents" => report.fmt.kind \in {"wide", "label"}
    /\ \A r \in report.rs : IsRow(r, report.edits)
    /\ Finished({"score"}) => report.totals = Totals(report.rs)

Scores ==
    /\ scale \in ScaleDefs
    /\ item \in [Item -> ItemDefs \cup {NULL}]
    /\ edits \in [Item \cup {NULL} -> Nat]
    /\ form = [p \in Participant |-> form[p]]
    /\ \A p \in Participant : form[p] # NoForm =>
          /\ IsForm(form[p]) /\ Current(form[p])
          /\ \A r \in form[p].built : r.pid = p /\ IsRow(r, edits)
    /\ \A r \in response : IsRow(r, edits)
    /\ report # NULL => ReportOK

-----------------------------------------------------------------------------
(* Why tables are right: an inductive invariant beside the one of totals.   *)

(* An item of a form is scored once. *)
OneRow ==
    \A p \in Participant : form[p] # NoForm =>
        /\ DOMAIN form[p].consent \subseteq Key
        /\ \A r, s \in form[p].built \cup Of(response, p) :
              r.item \notin form[p].todo /\ (r.item = s.item => r = s)

(* A report has seen the definitions there were, and says when.             *)
Seen ==
    /\ report.items \in [Item -> ItemDefs \cup {NULL}]
    /\ report.scale \in ScaleDefs /\ report.consentScale \in ScaleDefs
    /\ report.since \in [Item \cup {NULL} -> Nat]
    /\ report.phase \in {"items", "responses"} =>
          /\ \A x \in Item \cup {NULL} : report.since[x] <= edits[x]
          /\ report.since[NULL] = edits[NULL] => report.scale = scale
          /\ report.phase = "responses" =>
                \A i \in Item : report.since[i] = edits[i] => report.items[i] = item[i]
    /\ report.phase \in {"consents", "done"} =>
          /\ report.fmt \in Formats
          /\ \A r, s \in report.rs : r.pid = s.pid /\ r.item = s.item => r = s
          /\ \A p \in Pids(report.rs), i \in Item : Unchanged(p, i) =>
                form[p].items[i] = report.items[i] /\ form[p].scale = report.scale

(* A table has the cells of each participant, then the choices of their     *)
(* consent as well.                                                         *)
Rows(p) == RowsOf(RowCells(report.fmt, Of(report.rs, p), report.items, report.scale))

Merged(p) ==
    {MergeConsent(row, form[p].consent, ks, report.consentScale, report.fmt.consent) :
        row \in Rows(p), ks \in SetToSeqs(DOMAIN form[p].consent)}

Tabulated ==
    /\ report.phase = "consents" =>
          /\ DOMAIN report.table = Pids(report.rs)
          /\ \A p \in Pids(report.rs) : report.table[p] \in Rows(p)
    /\ Finished({"wide", "label"}) =>
          /\ DOMAIN report.table \subseteq Pids(report.rs)
          /\ \A p \in Pids(report.rs) : 
                (IF p \in DOMAIN report.table THEN report.table[p] ELSE <<>>) \in Merged(p)

Tables == OneRow /\ (report # NULL => Seen /\ Tabulated)

-----------------------------------------------------------------------------
(* The value of a button *)

(* What can be sent for an item: a number from a button, or a text. *)
LEMMA PayloadNumber ==
    ASSUME NEW it \in ItemDefs, NEW sc \in ScaleDefs, NEW lang \in Lang,
           NEW raw \in Payloads(it, sc, lang)
    PROVE  /\ Buttons(it, sc, lang) \in Nat
           /\ it.type = "likert" => IsNumber(raw) /\ raw.num \in 1..Buttons(it, sc, lang)
           /\ it.type = "rating" => IsNumber(raw) /\ raw.num \in 0..1
           /\ IsNumber(raw) => raw.num \in Nat /\ it.type \in {"likert", "rating"}
  <1>1. Buttons(it, sc, lang) \in Nat
    BY DEF Buttons, Shown
  <1>2. CASE it.type = "likert"
    BY <1>1, <1>2 DEF Payloads, IsNumber
  <1>3. CASE it.type = "rating"
    BY <1>1, <1>3 DEF Payloads, IsNumber
  <1>4. CASE it.type = "single"
    <2>1. PICK w : raw = [str |-> w]
      BY <1>4 DEF Payloads
    <2>2. ~IsNumber(raw)
      BY <2>1 DEF IsNumber
    <2>3. QED
      BY <1>1, <1>4, <2>2
  <1>5. CASE it.type = "multiple"
    <2>1. PICK s : raw = [arr |-> s]
      BY <1>5 DEF Payloads
    <2>2. ~IsNumber(raw)
      BY <2>1 DEF IsNumber
    <2>3. QED
      BY <1>1, <1>5, <2>2
  <1>6. QED
    BY <1>2, <1>3, <1>4, <1>5

(* The score of a number, under whatever definition the item has by now.    *)
LEMMA ScoredTyped ==
    ASSUME NEW it \in ItemDefs, NEW points \in Nat, NEW raw,
           IsNumber(raw) => raw.num \in Nat
    PROVE  Scored(it, raw, points).raw \in Int /\ Scored(it, raw, points).score \in Int
  <1>1. CASE it.type = "likert" /\ IsNumber(raw) /\ raw.num \in 1..points
    <2>1. ReverseScore(raw.num, points) \in Int
      BY <1>1 DEF ReverseScore
    <2>2. QED
      BY <1>1, <2>1 DEF Scored
  <1>2. CASE it.type = "rating" /\ IsNumber(raw)
    BY <1>2 DEF Scored
  <1>3. CASE ~(it.type = "likert" /\ IsNumber(raw) /\ raw.num \in 1..points)
             /\ ~(it.type = "rating" /\ IsNumber(raw))
    BY <1>3 DEF Scored
  <1>4. QED
    BY <1>1, <1>2, <1>3

(* The score of an answer, under the definition the form showed, is what    *)
(* the button is worth, and its raw value is the button.                    *)
LEMMA ScoredIsWorth ==
    ASSUME NEW p \in Participant, NEW i \in Item, IsForm(form[p]),
           i \in DOMAIN form[p].answers, ButtonsScored(p, i)
    PROVE  LET s == Scored(form[p].items[i], form[p].answers[i], form[p].scale.points)
           IN  /\ s.score = Worth(p, i)
               /\ IsNumber(form[p].answers[i]) => s.raw = form[p].answers[i].num
  <1> DEFINE f == form[p]
             it == f.items[i]
             raw == f.answers[i]
             points == f.scale.points
  <1>1. it \in ItemDefs /\ f.scale \in ScaleDefs /\ f.lang \in Lang
        /\ raw \in Payloads(it, f.scale, f.lang) /\ points \in Nat
    BY DEF IsForm
  <1>2. /\ Buttons(it, f.scale, f.lang) \in Nat
        /\ it.type = "likert" => IsNumber(raw) /\ raw.num \in 1..Buttons(it, f.scale, f.lang)
        /\ it.type = "rating" => IsNumber(raw) /\ raw.num \in 0..1
        /\ IsNumber(raw) => it.type \in {"likert", "rating"}
    BY <1>1, PayloadNumber
  <1>3. it.type = "likert" => Buttons(it, f.scale, f.lang) <= points
    BY DEF ButtonsScored
  <1>4. Worth(p, i) = CASE it.type = "likert" /\ it.reverse -> points + 1 - raw.num
                        [] it.type = "likert" /\ ~it.reverse -> raw.num
                        [] it.type = "rating" -> raw.num
                        [] OTHER -> 0
    BY DEF Worth
  <1> HIDE DEF it, raw, points, f
  <1>5. CASE it.type = "likert"
    <2>1. IsNumber(raw) /\ raw.num \in 1..points /\ it.reverse \in BOOLEAN
      BY <1>1, <1>2, <1>3, <1>5
    <2>2. ReverseScore(raw.num, points) = points + 1 - raw.num
      BY <1>1, <2>1 DEF ReverseScore
    <2>3. /\ Scored(it, raw, points).score
               = IF it.reverse THEN ReverseScore(raw.num, points) ELSE raw.num
          /\ Scored(it, raw, points).raw = raw.num
      BY <1>5, <2>1 DEF Scored
    <2>4. QED
      BY <1>4, <1>5, <2>1, <2>2, <2>3 DEF it, raw, points, f
  <1>6. CASE it.type = "rating"
    <2>1. Scored(it, raw, points).score = raw.num /\ Scored(it, raw, points).raw = raw.num
      BY <1>2, <1>6 DEF Scored
    <2>2. QED
      BY <1>4, <1>6, <2>1 DEF it, raw, points, f
  <1>7. CASE it.type # "likert" /\ it.type # "rating"
    <2>1. Scored(it, raw, points).score = 0
      BY <1>7 DEF Scored
    <2>2. ~IsNumber(raw)
      BY <1>2, <1>7
    <2>3. QED
      BY <1>4, <1>7, <2>1, <2>2 DEF it, raw, points, f
  <1>8. QED
    BY <1>5, <1>6, <1>7

-----------------------------------------------------------------------------
(* What rows rest on *)

(* The form of p still shows and says what it did. *)
Kept(p) ==
    /\ form'[p] # NoForm
    /\ form'[p].phase = form[p].phase /\ form'[p].lang = form[p].lang
    /\ form'[p].items = form[p].items /\ form'[p].scale = form[p].scale
    /\ form'[p].answers = form[p].answers /\ form'[p].edits = form[p].edits

LEMMA RowStays ==
    ASSUME NEW r, NEW at, IsRow(r, at), Kept(r.pid)
    PROVE  IsRow(r, at)'
  BY DEF IsRow, Kept, ButtonsScored, Worth

(* At a later time no more has stayed as it was. *)
LEMMA RowAges ==
    ASSUME NEW r, NEW at, NEW new, IsRow(r, at),
           \A x \in {r.item, NULL} :
              form[r.pid].edits[x] = new[x] => form[r.pid].edits[x] = at[x]
    PROVE  IsRow(r, new)
  BY DEF IsRow

(* Rows are of forms that have been sent. *)
SentKept == \A p \in Participant :
    form[p] # NoForm /\ form[p].phase = "scoring" => Kept(p)

LEMMA RowsStay ==
    ASSUME NEW rs, \A r \in rs : IsRow(r, edits), SentKept, edits' = edits
    PROVE  \A r \in rs : IsRow(r, edits)'
  <1> SUFFICES ASSUME NEW r \in rs PROVE IsRow(r, edits)'
    OBVIOUS
  <1>1. PICK at : at = edits
    OBVIOUS
  <1>2. IsRow(r, at) /\ Kept(r.pid)
    BY <1>1 DEF SentKept, IsRow
  <1>3. IsRow(r, at)'
    BY <1>2, RowStays
  <1>4. QED
    BY <1>1, <1>3 DEF IsRow

LEMMA ReportStays ==
    ASSUME report # NULL => ReportOK, report' = report, SentKept
    PROVE  report' # NULL => ReportOK'
  <1> SUFFICES ASSUME report # NULL, ReportOK PROVE ReportOK'
    OBVIOUS
  <1>1. ASSUME NEW r \in report'.rs
        PROVE  IsRow(r, report.edits)'
    <2>1. PICK at : at = report.edits
      OBVIOUS
    <2>2. IsRow(r, at) /\ Kept(r.pid)
      BY <2>1 DEF ReportOK, SentKept, IsRow
    <2>3. IsRow(r, at)'
      BY <2>2, RowStays
    <2>4. QED
      BY <2>1, <2>3 DEF IsRow
  <1>2. QED
    BY <1>1 DEF ReportOK, Finished

-----------------------------------------------------------------------------
(* A participant *)

(* A step of the form of p, with no edit and no report. *)
LEMMA FormKeeps ==
    ASSUME Scores, NEW p \in Participant, NEW f,
           form' = [form EXCEPT ![p] = f], f # NoForm,
           UNCHANGED <<scale, item, report, edits>>,
           form[p] # NoForm /\ form[p].phase = "scoring" => Kept(p),
           IsForm(f), Current(f)',
           \A r \in f.built : r.pid = p /\ IsRow(r, edits)',
           \A r \in response' : r \in response \/ IsRow(r, edits)'
    PROVE  Scores'
  <1>1. /\ form' = [q \in Participant |-> form'[q]] /\ form'[p] = f
        /\ \A q \in Participant : q # p => form'[q] = form[q]
    BY DEF Scores
  <1>2. SentKept
    BY <1>1 DEF SentKept, Kept
  <1>3. \A r \in response' : IsRow(r, edits)'
    BY <1>2, RowsStay DEF Scores
  <1>4. ASSUME NEW q \in Participant, form'[q] # NoForm
        PROVE  /\ IsForm(form'[q]) /\ Current(form[q])'
               /\ \A r \in form'[q].built : r.pid = q /\ IsRow(r, edits)'
    <2>1. CASE q = p
      BY <1>1, <2>1 DEF Current
    <2>2. CASE q # p
      <3>1. PICK g : g = form[q]
        OBVIOUS
      <3>2. form'[q] = g /\ g # NoForm
        BY <1>1, <1>4, <2>2, <3>1
      <3>3. /\ IsForm(g) /\ Current(g)
            /\ \A r \in g.built : r.pid = q /\ IsRow(r, edits)
        BY <3>1, <3>2 DEF Scores
      <3>4. \A r \in g.built : IsRow(r, edits)'
        BY <1>2, <3>3, RowsStay
      <3>5. Current(form[q])'
        BY <3>2, <3>3 DEF Current
      <3>6. QED
        BY <3>2, <3>3, <3>4, <3>5
    <2>3. QED
      BY <2>1, <2>2
  <1>5. report' # NULL => ReportOK'
    BY <1>2, ReportStays DEF Scores
  <1>6. /\ scale' \in ScaleDefs /\ item' \in [Item -> ItemDefs \cup {NULL}]
        /\ edits' \in [Item \cup {NULL} -> Nat]
    BY DEF Scores
  <1>7. (\A q \in Participant : form[q] # NoForm =>
            /\ IsForm(form[q]) /\ Current(form[q])
            /\ \A r \in form[q].built : r.pid = q /\ IsRow(r, edits))'
    BY <1>4
  <1>8. QED
    BY <1>1, <1>3, <1>5, <1>6, <1>7 DEF Scores

LEMMA OpenKeeps ==
    ASSUME Scores, NEW p \in Participant, Open(p)
    PROVE  Scores'
  <1>1. PICK l \in Reads[p], c \in Signs[p] :
          form' = [form EXCEPT ![p] = [phase |-> "open", lang |-> l, items |-> item,
                                      scale |-> scale, consent |-> c, answers |-> <<>>,
                                      points |-> 0, todo |-> {}, built |-> {},
                                      edits |-> edits]]
    BY DEF Open
  <1>2. PICK f : f = [phase |-> "open", lang |-> l, items |-> item,
                      scale |-> scale, consent |-> c, answers |-> <<>>,
                      points |-> 0, todo |-> {}, built |-> {}, edits |-> edits]
    OBVIOUS
  <1>3. f # NoForm
    <2>1. f.phase = "open" /\ NoForm.phase = "none"
      BY <1>2 DEF NoForm
    <2>2. QED
      BY <2>1
  <1>4. IsForm(f)
    <2>1. f = [x \in FormField |-> f[x]]
      BY <1>2 DEF FormField
    <2>2. /\ f.phase = "open" /\ f.lang = l /\ f.scale = scale /\ f.items = item
          /\ f.edits = edits /\ f.points = 0 /\ f.todo = {} /\ f.built = {}
          /\ f.answers = <<>>
      BY <1>2
    <2>3. QED
      <3>1. DOMAIN f.answers = {} /\ l \in Lang /\ f.points \in Nat
        BY <2>2
      <3>2. /\ scale \in ScaleDefs /\ item \in [Item -> ItemDefs \cup {NULL}]
            /\ edits \in [Item \cup {NULL} -> Nat]
        BY DEF Scores
      <3>3. f.todo \subseteq DOMAIN f.answers
        BY <2>2, <3>1
      <3>4. QED
        BY <2>1, <2>2, <3>1, <3>2, <3>3 DEF IsForm
  <1>5. /\ f.edits = edits' /\ f.items = item' /\ f.scale = scale' /\ f.phase = "open"
        /\ f.built = {}
    BY <1>2 DEF Open
  <1>6. Current(f)'
    BY <1>5 DEF Current, Scores, Open
  <1>7. form[p] = NoForm /\ UNCHANGED <<scale, item, response, report, edits>>
    BY DEF Open
  <1>8. QED
    BY <1>1, <1>2, <1>3, <1>4, <1>5, <1>6, <1>7, FormKeeps

(* What is known of the form of p. *)
LEMMA FormKnown ==
    ASSUME Scores, NEW p \in Participant, form[p].phase \in {"open", "scoring"}
    PROVE  /\ form[p] # NoForm /\ IsForm(form[p]) /\ Current(form[p])
           /\ \A r \in form[p].built : r.pid = p /\ IsRow(r, edits)
  <1>1. form[p] # NoForm
    BY DEF NoForm
  <1>2. QED
    BY <1>1 DEF Scores

(* A step from one form to another that shows the same. *)
LEMMA FormChanges ==
    ASSUME NEW f, IsForm(f), NEW g, g = [x \in FormField |-> g[x]],
           g.phase \in {"open", "scoring"}, g.lang = f.lang, g.scale = f.scale,
           g.items = f.items, g.edits = f.edits, g.points \in Nat,
           g.todo \subseteq DOMAIN g.answers,
           \A i \in DOMAIN g.answers :
              /\ i \in Item /\ f.items[i] \in ItemDefs
              /\ g.answers[i] \in Payloads(f.items[i], f.scale, f.lang),
           g.phase = "open" => g.built = {}
    PROVE  IsForm(g) /\ g # NoForm
  <1>1. g # NoForm
    BY DEF NoForm
  <1>2. QED
    BY <1>1 DEF IsForm

LEMMA SubmitKeeps ==
    ASSUME Scores, NEW p \in Participant, Submit(p)
    PROVE  Scores'
  <1> DEFINE f == form[p]
  <1>1. /\ f.phase = "open" /\ IsForm(f) /\ Current(f)
        /\ UNCHANGED <<scale, item, response, report, edits>>
    BY FormKnown DEF Submit
  <1>2. PICK a \in Answers(f) :
          form' = [form EXCEPT ![p] = [f EXCEPT !.phase = "scoring", !.answers = a,
                                 !.points = scale.points, !.todo = DOMAIN a]]
    BY DEF Submit
  <1>3. \A i \in DOMAIN a : /\ i \in Item /\ f.items[i] # NULL
                            /\ a[i] \in Payloads(f.items[i], f.scale, f.lang)
    <2>1. PICK D \in SUBSET {i \in Item : f.items[i] # NULL} :
            /\ a \in [D -> UNION {Payloads(f.items[i], f.scale, f.lang) : i \in D}]
            /\ \A i \in D : a[i] \in Payloads(f.items[i], f.scale, f.lang)
      BY DEF Answers
    <2>2. QED
      BY <2>1
  <1>4. \A i \in DOMAIN a : f.items[i] \in ItemDefs
    BY <1>1, <1>3 DEF IsForm
  <1>5. PICK g : g = [f EXCEPT !.phase = "scoring", !.answers = a,
                        !.points = scale.points, !.todo = DOMAIN a]
    OBVIOUS
  <1>6. f = [x \in FormField |-> f[x]] /\ f.built = {}
    BY <1>1 DEF IsForm
  <1>7. g = [x \in FormField |-> g[x]]
    BY <1>5, <1>6
  <1>8. /\ g.phase = "scoring" /\ g.answers = a /\ g.points = scale.points
        /\ g.todo = DOMAIN a /\ g.built = {}
        /\ g.lang = f.lang /\ g.scale = f.scale /\ g.items = f.items
        /\ g.edits = f.edits
    BY <1>5, <1>6 DEF FormField
  <1>9. g.points \in Nat
    BY <1>8 DEF Scores
  <1>10. IsForm(g) /\ g # NoForm
    BY <1>1, <1>3, <1>4, <1>7, <1>8, <1>9, FormChanges
  <1>11. Current(g)'
    BY <1>1, <1>8 DEF Current
  <1>12. QED
    BY <1>1, <1>2, <1>5, <1>8, <1>10, <1>11, FormKeeps

LEMMA ScoreItemKeeps ==
    ASSUME Scores, NEW p \in Participant, ScoreItem(p)
    PROVE  Scores'
  <1> DEFINE f == form[p]
  <1>1. /\ f.phase = "scoring" /\ f # NoForm /\ IsForm(f) /\ Current(f)
        /\ \A r \in f.built : r.pid = p /\ IsRow(r, edits)
        /\ UNCHANGED <<scale, item, response, report, edits>>
    BY FormKnown DEF ScoreItem
  <1>2. PICK i \in f.todo :
          form' = [form EXCEPT ![p] =
            [f EXCEPT !.todo = @ \ {i},
                      !.built = IF item[i] = NULL THEN @
                                ELSE @ \cup {BuildResponse(p, i, item[i],
                                               f.answers[i], f.points)}]]
    BY DEF ScoreItem
  <1>3. PICK row : row = BuildResponse(p, i, item[i], f.answers[i], f.points)
    OBVIOUS
  <1>4. PICK g : g = [f EXCEPT !.todo = @ \ {i},
                               !.built = IF item[i] = NULL THEN @ ELSE @ \cup {row}]
    OBVIOUS
  <1>5. f = [x \in FormField |-> f[x]]
    BY <1>1 DEF IsForm
  <1>6. g = [x \in FormField |-> g[x]]
    BY <1>4, <1>5
  <1>7. /\ g.todo = f.todo \ {i}
        /\ g.built = IF item[i] = NULL THEN f.built ELSE f.built \cup {row}
        /\ g.phase = f.phase /\ g.answers = f.answers /\ g.points = f.points
        /\ g.lang = f.lang /\ g.scale = f.scale /\ g.items = f.items
        /\ g.edits = f.edits
    BY <1>4, <1>5 DEF FormField
  <1>8. /\ f.points \in Nat /\ f.todo \subseteq DOMAIN f.answers
        /\ \A j \in DOMAIN f.answers :
              /\ j \in Item /\ f.items[j] \in ItemDefs
              /\ f.answers[j] \in Payloads(f.items[j], f.scale, f.lang)
    BY <1>1 DEF IsForm
  <1>9. IsForm(g) /\ g # NoForm
    BY <1>1, <1>6, <1>7, <1>8, FormChanges
  <1>10. Current(g)'
    BY <1>1, <1>7 DEF Current
  <1>11. Kept(p) /\ form'[p] = g
    BY <1>1, <1>2, <1>3, <1>4, <1>7, <1>9 DEF Kept, Scores
  <1>12. ASSUME item[i] # NULL
         PROVE  row.pid = p /\ IsRow(row, edits)
    <2>1. i \in Item /\ i \in DOMAIN f.answers /\ item[i] \in ItemDefs
      BY <1>8, <1>12 DEF Scores
    <2>2. /\ row = [x \in {"pid", "item", "raw", "score", "json"} |-> row[x]]
          /\ row.pid = p /\ row.item = i /\ row.json = f.answers[i]
          /\ row.raw = Scored(item[i], f.answers[i], f.points).raw
          /\ row.score = Scored(item[i], f.answers[i], f.points).score
      BY <1>3 DEF BuildResponse
    <2>3. IsNumber(f.answers[i]) => f.answers[i].num \in Nat
      <3>1. /\ f.answers[i] \in Payloads(f.items[i], f.scale, f.lang)
            /\ f.items[i] \in ItemDefs /\ f.scale \in ScaleDefs /\ f.lang \in Lang
        BY <1>1, <1>8, <2>1 DEF IsForm
      <3>2. QED
        BY <3>1, PayloadNumber
    <2>4. row.raw \in Int /\ row.score \in Int
      BY <1>8, <2>1, <2>2, <2>3, ScoredTyped
    <2>5. ASSUME f.edits[i] = edits[i], f.edits[NULL] = edits[NULL], ButtonsScored(p, i)
          PROVE  row.score = Worth(p, i) /\ (IsNumber(row.json) => row.raw = row.json.num)
      <3>1. f.items[i] = item[i] /\ f.points = f.scale.points
        BY <1>1, <2>1, <2>5 DEF Current
      <3>2. QED
        BY <1>1, <2>1, <2>2, <2>5, <3>1, ScoredIsWorth
    <2>6. QED
      BY <1>1, <2>1, <2>2, <2>4, <2>5 DEF IsRow
  <1>13. ASSUME NEW r \in g.built
         PROVE  r.pid = p /\ IsRow(r, edits)'
    <2>1. r.pid = p /\ IsRow(r, edits)
      BY <1>1, <1>7, <1>12
    <2>2. PICK at : at = edits
      OBVIOUS
    <2>3. IsRow(r, at)'
      BY <1>11, <2>1, <2>2, RowStays
    <2>4. QED
      BY <1>1, <2>1, <2>2, <2>3 DEF IsRow
  <1>14. QED
    BY <1>1, <1>2, <1>3, <1>4, <1>9, <1>10, <1>11, <1>13, FormKeeps

LEMMA StoreRowKeeps ==
    ASSUME Scores, NEW p \in Participant, StoreRow(p)
    PROVE  Scores'
  <1> DEFINE f == form[p]
  <1>1. /\ f.phase = "scoring" /\ f # NoForm /\ IsForm(f) /\ Current(f)
        /\ \A r \in f.built : r.pid = p /\ IsRow(r, edits)
        /\ UNCHANGED <<scale, item, report, edits>>
    BY FormKnown DEF StoreRow
  <1>2. PICK row \in f.built :
          /\ response' = IF item[row.item] = NULL THEN response ELSE response \cup {row}
          /\ form' = [form EXCEPT ![p] = [f EXCEPT !.built = @ \ {row}]]
    BY DEF StoreRow
  <1>3. PICK g : g = [f EXCEPT !.built = @ \ {row}]
    OBVIOUS
  <1>4. f = [x \in FormField |-> f[x]]
    BY <1>1 DEF IsForm
  <1>5. g = [x \in FormField |-> g[x]]
    BY <1>3, <1>4
  <1>6. /\ g.built = f.built \ {row} /\ g.todo = f.todo
        /\ g.phase = f.phase /\ g.answers = f.answers /\ g.points = f.points
        /\ g.lang = f.lang /\ g.scale = f.scale /\ g.items = f.items
        /\ g.edits = f.edits
    BY <1>3, <1>4 DEF FormField
  <1>7. /\ f.points \in Nat /\ f.todo \subseteq DOMAIN f.answers
        /\ \A j \in DOMAIN f.answers :
              /\ j \in Item /\ f.items[j] \in ItemDefs
              /\ f.answers[j] \in Payloads(f.items[j], f.scale, f.lang)
    BY <1>1 DEF IsForm
  <1>8. IsForm(g) /\ g # NoForm
    BY <1>1, <1>5, <1>6, <1>7, FormChanges
  <1>9. Current(g)'
    BY <1>1, <1>6 DEF Current
  <1>10. Kept(p) /\ form'[p] = g
    BY <1>1, <1>2, <1>3, <1>6, <1>8 DEF Kept, Scores
  <1>11. ASSUME NEW r \in f.built
         PROVE  r.pid = p /\ IsRow(r, edits)'
    <2>1. r.pid = p /\ IsRow(r, edits)
      BY <1>1
    <2>2. PICK at : at = edits
      OBVIOUS
    <2>3. IsRow(r, at)'
      BY <1>10, <2>1, <2>2, RowStays
    <2>4. QED
      BY <1>1, <2>1, <2>2, <2>3 DEF IsRow
  <1>12. \A r \in response' : r \in response \/ IsRow(r, edits)'
    BY <1>2, <1>11
  <1>13. \A r \in g.built : r.pid = p /\ IsRow(r, edits)'
    BY <1>6, <1>11
  <1>14. QED
    BY <1>1, <1>2, <1>3, <1>8, <1>9, <1>10, <1>12, <1>13, FormKeeps

-----------------------------------------------------------------------------
(* An editor *)

(* A change of the definition of x is noted. *)
LEMMA EditKeeps ==
    ASSUME Scores, NEW x \in Item \cup {NULL}, UNCHANGED <<form, report>>,
           edits' = [edits EXCEPT ![x] = @ + 1], response' \subseteq response,
           scale' \in ScaleDefs, item' \in [Item -> ItemDefs \cup {NULL}],
           scale' = scale \/ x = NULL,
           \A i \in Item : i # x => item'[i] = item[i]
    PROVE  Scores'
  <1>1. edits \in [Item \cup {NULL} -> Nat] /\ edits' \in [Item \cup {NULL} -> Nat]
    BY DEF Scores
  <1>2. /\ edits'[x] = edits[x] + 1
        /\ \A y \in Item \cup {NULL} : y # x => edits'[y] = edits[y]
    BY <1>1
  <1>3. SentKept
    BY DEF SentKept, Kept
  <1>4. ASSUME NEW f, IsForm(f), Current(f)
        PROVE  Current(f)' /\ f.edits[x] # edits'[x]
    <2>1. /\ \A y \in Item \cup {NULL} : f.edits[y] \in Nat /\ f.edits[y] <= edits[y]
          /\ edits[x] \in Nat
      BY <1>1, <1>4 DEF IsForm, Current
    <2>2. \A y \in Item \cup {NULL} :
            f.edits[y] <= edits'[y] /\ (f.edits[y] = edits'[y] => y # x)
      BY <1>1, <1>2, <2>1
    <2>3. \A i \in Item : f.edits[i] = edits'[i] => f.items[i] = item'[i]
      BY <1>2, <1>4, <2>2 DEF Current
    <2>4. f.edits[NULL] = edits'[NULL] =>
            /\ f.scale = scale'
            /\ f.phase = "scoring" => f.points = scale'.points
      BY <1>2, <1>4, <2>2 DEF Current
    <2>5. QED
      BY <2>2, <2>3, <2>4 DEF Current
  <1>5. ASSUME NEW r, IsRow(r, edits)
        PROVE  IsRow(r, edits)'
    <2>1. PICK at : at = edits
      OBVIOUS
    <2>2. PICK new : new = edits'
      OBVIOUS
    <2>3. /\ form[r.pid] # NoForm /\ r.pid \in Participant
          /\ r.item \in DOMAIN form[r.pid].answers
      BY <1>5 DEF IsRow
    <2>4. IsForm(form[r.pid]) /\ Current(form[r.pid])
      BY <2>3 DEF Scores
    <2>5. r.item \in Item
      BY <2>3, <2>4 DEF IsForm
    <2>6. \A y \in {r.item, NULL} :
            form[r.pid].edits[y] = new[y] => form[r.pid].edits[y] = at[y]
      BY <1>2, <1>4, <2>1, <2>2, <2>4, <2>5
    <2>7. IsRow(r, new)
      BY <1>5, <2>1, <2>6, RowAges
    <2>8. Kept(r.pid)
      BY <2>3 DEF Kept
    <2>9. IsRow(r, new)'
      BY <2>7, <2>8, RowStays
    <2>10. QED
      BY <2>2, <2>9 DEF IsRow
  <1>6. \A r \in response' : IsRow(r, edits)'
    BY <1>5 DEF Scores
  <1>7. ASSUME NEW p \in Participant, form[p] # NoForm
        PROVE  /\ IsForm(form[p]) /\ Current(form[p])'
               /\ \A r \in form[p].built : r.pid = p /\ IsRow(r, edits)'
    <2>1. /\ IsForm(form[p]) /\ Current(form[p])
          /\ \A r \in form[p].built : r.pid = p /\ IsRow(r, edits)
      BY <1>7 DEF Scores
    <2>2. PICK f : f = form[p]
      OBVIOUS
    <2>3. Current(f)'
      BY <1>4, <2>1, <2>2
    <2>4. Current(form[p])'
      BY <2>2, <2>3 DEF Current
    <2>5. QED
      BY <1>5, <2>1, <2>4
  <1>8. (\A p \in Participant : form[p] # NoForm =>
            /\ IsForm(form[p]) /\ Current(form[p])
            /\ \A r \in form[p].built : r.pid = p /\ IsRow(r, edits))'
    BY <1>7
  <1>9. report' # NULL => ReportOK'
    BY <1>3, ReportStays DEF Scores
  <1>10. form' = [p \in Participant |-> form'[p]]
    BY DEF Scores
  <1>11. QED
    BY <1>1, <1>6, <1>8, <1>9, <1>10 DEF Scores

LEMMA EditorKeeps ==
    ASSUME Scores, UpdateScale \/ UpdateItem \/ DeleteItem \/ AddItem
    PROVE  Scores'
  <1>1. /\ scale \in ScaleDefs /\ item \in [Item -> ItemDefs \cup {NULL}]
        /\ edits \in [Item \cup {NULL} -> Nat]
    BY DEF Scores
  <1>2. CASE UpdateScale
    BY <1>1, <1>2, EditKeeps DEF UpdateScale, Edit
  <1>3. CASE UpdateItem
    <2>1. PICK i \in Item : /\ Edit(i) /\ item[i] # NULL
                            /\ \E d \in Recast(item[i]) : item' = [item EXCEPT ![i] = d]
      BY <1>3 DEF UpdateItem
    <2>2. PICK d \in ItemDefs : item' = [item EXCEPT ![i] = d]
      BY <1>1, <2>1
    <2>3. /\ item' \in [Item -> ItemDefs \cup {NULL}]
          /\ \A j \in Item : j # i => item'[j] = item[j]
      BY <1>1, <2>2
    <2>4. UNCHANGED <<scale, response, form, report>>
      BY <1>3 DEF UpdateItem
    <2>5. QED
      BY <1>1, <2>1, <2>3, <2>4, EditKeeps DEF Edit
  <1>4. CASE DeleteItem
    <2>1. PICK i \in Item, cascades \in BOOLEAN :
            /\ Edit(i) /\ item' = [item EXCEPT ![i] = NULL]
            /\ response' = IF cascades THEN {r \in response : r.item # i} ELSE response
      BY <1>4 DEF DeleteItem
    <2>2. /\ item' \in [Item -> ItemDefs \cup {NULL}]
          /\ \A j \in Item : j # i => item'[j] = item[j]
          /\ response' \subseteq response
      BY <1>1, <2>1
    <2>3. UNCHANGED <<scale, form, report>>
      BY <1>4 DEF DeleteItem
    <2>4. QED
      BY <1>1, <2>1, <2>2, <2>3, EditKeeps DEF Edit
  <1>5. CASE AddItem
    <2>1. PICK i \in Item, d \in ItemDefs : Edit(i) /\ item' = [item EXCEPT ![i] = d]
      BY <1>5 DEF AddItem
    <2>2. /\ item' \in [Item -> ItemDefs \cup {NULL}]
          /\ \A j \in Item : j # i => item'[j] = item[j]
      BY <1>1, <2>1
    <2>3. UNCHANGED <<scale, response, form, report>>
      BY <1>5 DEF AddItem
    <2>4. QED
      BY <1>1, <2>1, <2>2, <2>3, EditKeeps DEF Edit
  <1>6. QED
    BY <1>2, <1>3, <1>4, <1>5

-----------------------------------------------------------------------------
(* A researcher *)

(* A step of the report alone. *)
LEMMA ReportKeeps ==
    ASSUME Scores, UNCHANGED <<scale, item, response, form, edits>>,
           report' # NULL => ReportOK'
    PROVE  Scores'
  <1>1. SentKept
    BY DEF SentKept, Kept
  <1>2. \A r \in response' : IsRow(r, edits)'
    BY <1>1, RowsStay DEF Scores
  <1>3. ASSUME NEW p \in Participant, form[p] # NoForm
        PROVE  /\ IsForm(form[p]) /\ Current(form[p])'
               /\ \A r \in form[p].built : r.pid = p /\ IsRow(r, edits)'
    <2>1. /\ IsForm(form[p]) /\ Current(form[p])
          /\ \A r \in form[p].built : r.pid = p /\ IsRow(r, edits)
      BY <1>3 DEF Scores
    <2>2. \A r \in form[p].built : IsRow(r, edits)'
      BY <1>1, <2>1, RowsStay
    <2>3. Current(form[p])'
      BY <2>1 DEF Current
    <2>4. QED
      BY <2>1, <2>2, <2>3
  <1>4. (\A p \in Participant : form[p] # NoForm =>
            /\ IsForm(form[p]) /\ Current(form[p])
            /\ \A r \in form[p].built : r.pid = p /\ IsRow(r, edits))'
    BY <1>3
  <1>5. /\ scale' \in ScaleDefs /\ item' \in [Item -> ItemDefs \cup {NULL}]
        /\ edits' \in [Item \cup {NULL} -> Nat]
        /\ form' = [p \in Participant |-> form'[p]]
    BY DEF Scores
  <1>6. QED
    BY <1>2, <1>4, <1>5 DEF Scores

(* Rows do not change in a step of the report. *)
LEMMA RowOfReport ==
    ASSUME NEW r, IsRow(r, edits), UNCHANGED <<form, edits>>,
           report'.edits = edits
    PROVE  IsRow(r, report.edits)'
  BY DEF IsRow, ButtonsScored, Worth

LEMMA ReadResponses ==
    ASSUME Scores, report # NULL, NEW f \in Formats,
           UNCHANGED <<scale, item, response, form, edits>>,
           report' = [x \in ReportField |-> report'[x]],
           report'.fmt = f, report'.rs = response, report'.edits = edits,
           report'.phase = IF f.kind \in {"wide", "label"} THEN "consents" ELSE "done",
           f.kind = "score" => report'.totals = Totals(response)
    PROVE  Scores'
  <1>1. \A r \in report'.rs : IsRow(r, report.edits)'
    BY RowOfReport DEF Scores
  <1>2. Finished({"score"})' => report'.totals = Totals(report'.rs)
    BY DEF Finished
  <1>3. ReportOK'
    BY <1>1, <1>2 DEF ReportOK
  <1>4. QED
    BY <1>3, ReportKeeps

LEMMA ResearcherKeeps ==
    ASSUME Scores,
           \/ BeginReport \/ ReadItems \/ ReadForWide \/ MergeConsents
           \/ ReadForScore \/ ReadForSummary \/ Close
    PROVE  Scores'
  <1>1. UNCHANGED <<scale, item, response, form, edits>>
    BY DEF BeginReport, ReadItems, ReadForWide, MergeConsents, ReadForScore,
           ReadForSummary, Close
  <1>2. ASSUME report # NULL
        PROVE  ReportOK /\ report = [x \in ReportField |-> report[x]]
    BY <1>2 DEF Scores, ReportOK
  <1>3. CASE BeginReport
    <2>1. PICK new : new = [fmt |-> NULL, phase |-> "items", scale |-> scale,
                  consentScale |-> scale, items |-> [i \in Item |-> NULL],
                  rs |-> {}, table |-> <<>>, totals |-> <<>>, alpha |-> <<0, 1>>,
                  n |-> 0, histogram |-> <<>>, since |-> edits, edits |-> edits]
      OBVIOUS
    <2>2. report' = new
      BY <1>3, <2>1 DEF BeginReport
    <2>3. new = [x \in ReportField |-> new[x]]
      BY <2>1 DEF ReportField
    <2>4. new.fmt = NULL /\ new.phase = "items" /\ new.rs = {}
      BY <2>1
    <2>5. report' = [x \in ReportField |-> report'[x]]
      BY <2>2, <2>3
    <2>6. report'.fmt = NULL /\ report'.phase = "items" /\ report'.rs = {}
      BY <2>2, <2>4
    <2>7. ReportOK'
      BY <2>5, <2>6 DEF ReportOK, Finished
    <2>8. QED
      BY <1>1, <2>7, ReportKeeps
  <1>4. CASE ReadItems
    <2>1. /\ report # NULL /\ report.phase = "items"
          /\ report' = [report EXCEPT !.phase = "responses", !.items = item]
      BY <1>4 DEF ReadItems
    <2>2. report' = [x \in ReportField |-> report'[x]]
      BY <1>2, <2>1
    <2>3. /\ report'.phase = "responses" /\ report'.fmt = report.fmt
          /\ report'.rs = report.rs /\ report'.edits = report.edits
      BY <1>2, <2>1 DEF ReportField
    <2>4. \A r \in report'.rs : IsRow(r, report.edits)'
      <3> TAKE r \in report'.rs
      <3>1. IsRow(r, report.edits)
        BY <1>2, <2>1, <2>3 DEF ReportOK
      <3>2. QED
        BY <1>1, <2>3, <3>1 DEF IsRow, ButtonsScored, Worth
    <2>5. report'.fmt \in Formats \cup {NULL}
      BY <1>2, <2>1, <2>3 DEF ReportOK
    <2>6. ReportOK'
      BY <2>2, <2>3, <2>4, <2>5 DEF ReportOK, Finished
    <2>7. QED
      BY <1>1, <2>6, ReportKeeps
  <1>5. ASSUME report # NULL, NEW f \in Formats, NEW new, new = Responses(f)
        PROVE  /\ new = [x \in ReportField |-> new[x]]
               /\ new.fmt = f /\ new.rs = response /\ new.edits = edits
               /\ new.phase = IF f.kind \in {"wide", "label"} THEN "consents" ELSE "done"
    BY <1>2, <1>5 DEF Responses, ReportField
  <1>6. CASE ReadForWide
    <2>0. PICK f \in {x \in Formats : x.kind \in {"wide", "label"}} :
            \E t : report' = [Responses(f) EXCEPT !.table = t]
      BY <1>6, Zenon DEF ReadForWide
    <2>1. PICK t : report' = [Responses(f) EXCEPT !.table = t]
      BY <2>0
    <2>2. report # NULL
      BY <1>6 DEF ReadForWide
    <2>3. PICK new : new = Responses(f)
      OBVIOUS
    <2>4. /\ report' = [new EXCEPT !.table = t]
          /\ new = [x \in ReportField |-> new[x]]
          /\ new.fmt = f /\ new.rs = response /\ new.edits = edits
          /\ new.phase = IF f.kind \in {"wide", "label"} THEN "consents" ELSE "done"
      BY <1>5, <2>1, <2>2, <2>3
    <2>5. /\ report' = [x \in ReportField |-> report'[x]]
          /\ report'.fmt = new.fmt /\ report'.rs = new.rs
          /\ report'.edits = new.edits /\ report'.phase = new.phase
      BY <2>4
    <2>6. f.kind # "score"
      BY <2>0
    <2>7. QED
      BY <1>1, <2>2, <2>4, <2>5, <2>6, ReadResponses
  <1>7. CASE MergeConsents
    <2>1. /\ report # NULL /\ report.phase = "consents"
          /\ \E t : report' = [report EXCEPT !.phase = "done", !.consentScale = scale,
                                             !.table = t]
      BY <1>7 DEF MergeConsents
    <2>2. PICK t : report' = [report EXCEPT !.phase = "done", !.consentScale = scale,
                                            !.table = t]
      BY <2>1
    <2>3. report' = [x \in ReportField |-> report'[x]]
      BY <1>2, <2>1, <2>2
    <2>4. /\ report'.phase = "done" /\ report'.fmt = report.fmt
          /\ report'.rs = report.rs /\ report'.edits = report.edits
      BY <1>2, <2>1, <2>2 DEF ReportField
    <2>5. \A r \in report'.rs : IsRow(r, report.edits)'
      <3> TAKE r \in report'.rs
      <3>1. IsRow(r, report.edits)
        BY <1>2, <2>1, <2>4 DEF ReportOK
      <3>2. QED
        BY <1>1, <2>4, <3>1 DEF IsRow, ButtonsScored, Worth
    <2>6. report'.fmt \in Formats \cup {NULL} /\ report'.fmt.kind \in {"wide", "label"}
      BY <1>2, <2>1, <2>4 DEF ReportOK
    <2>7. ReportOK'
      BY <2>3, <2>4, <2>5, <2>6 DEF ReportOK, Finished
    <2>8. QED
      BY <1>1, <2>7, ReportKeeps
  <1>8. CASE ReadForScore
    <2>1. PICK f \in Formats : /\ f.kind = "score"
                               /\ report' = [Responses(f) EXCEPT !.totals = Totals(response)]
      BY <1>8 DEF ReadForScore
    <2>2. report # NULL
      BY <1>8 DEF ReadForScore
    <2>3. PICK new : new = Responses(f)
      OBVIOUS
    <2>4. /\ report' = [new EXCEPT !.totals = Totals(response)]
          /\ new = [x \in ReportField |-> new[x]]
          /\ new.fmt = f /\ new.rs = response /\ new.edits = edits
          /\ new.phase = IF f.kind \in {"wide", "label"} THEN "consents" ELSE "done"
      BY <1>5, <2>1, <2>2, <2>3
    <2>5. /\ report' = [x \in ReportField |-> report'[x]]
          /\ report'.fmt = new.fmt /\ report'.rs = new.rs
          /\ report'.edits = new.edits /\ report'.phase = new.phase
      BY <2>4
    <2>6. report'.totals = Totals(response)
      BY <2>4 DEF ReportField
    <2>7. QED
      BY <1>1, <2>2, <2>4, <2>5, <2>6, ReadResponses
  <1>9. CASE ReadForSummary
    <2> DEFINE C == FilterLikert(report.items)
               R == AlphaRows(C, response)
               A == CronbachAlpha(AlphaMatrix(C, response), R, C)
               H == Histogram(C, response, report.scale.points)
    <2>0. PICK f \in {x \in Formats : x.kind = "summary"} :
            report' = [Responses(f) EXCEPT !.alpha = A, !.n = Cardinality(R), !.histogram = H]
      BY <1>9 DEF ReadForSummary
    <2>1. PICK a, n, h : a = A /\ n = Cardinality(R) /\ h = H
      OBVIOUS
    <2>2. report # NULL
      BY <1>9 DEF ReadForSummary
    <2>3. PICK new : new = Responses(f)
      OBVIOUS
    <2>4. /\ report' = [new EXCEPT !.alpha = a, !.n = n, !.histogram = h]
          /\ new = [x \in ReportField |-> new[x]]
          /\ new.fmt = f /\ new.rs = response /\ new.edits = edits
          /\ new.phase = IF f.kind \in {"wide", "label"} THEN "consents" ELSE "done"
      BY <1>5, <2>0, <2>1, <2>2, <2>3
    <2>5. /\ report' = [x \in ReportField |-> report'[x]]
          /\ report'.fmt = new.fmt /\ report'.rs = new.rs
          /\ report'.edits = new.edits /\ report'.phase = new.phase
      <3>1. report' = [x \in ReportField |-> report'[x]]
        BY <2>4
      <3>2. /\ report'.fmt = new.fmt /\ report'.rs = new.rs
            /\ report'.edits = new.edits /\ report'.phase = new.phase
        BY <2>4 DEF ReportField
      <3>3. QED
        BY <3>1, <3>2
    <2>6. f.kind # "score"
      BY <2>0
    <2>7. QED
      BY <1>1, <2>2, <2>4, <2>5, <2>6, ReadResponses
  <1>10. CASE Close
    <2>1. report' = NULL
      BY <1>10 DEF Close
    <2>2. QED
      BY <1>1, <2>1, ReportKeeps
  <1>11. QED
    BY <1>3, <1>4, <1>6, <1>7, <1>8, <1>9, <1>10

-----------------------------------------------------------------------------
(* Types and totals *)

LEMMA ScoresStart == Init => Scores
  <1> SUFFICES ASSUME Init PROVE Scores
    OBVIOUS
  <1>1. edits \in [Item \cup {NULL} -> Nat]
    BY DEF Init
  <1>2. QED
    BY <1>1 DEF Init, Scores

LEMMA ScoresKeep == Scores /\ [Next]_vars => Scores'
  <1> SUFFICES ASSUME Scores, [Next]_vars PROVE Scores'
    OBVIOUS
  <1>1. CASE UNCHANGED vars
    BY <1>1, ReportKeeps, ReportStays DEF vars, Scores, SentKept, Kept
  <1>2. ASSUME NEW p \in Participant, Open(p) \/ Submit(p) \/ ScoreItem(p) \/ StoreRow(p)
        PROVE  Scores'
    BY <1>2, OpenKeeps, SubmitKeeps, ScoreItemKeeps, StoreRowKeeps
  <1>3. QED
    BY <1>1, <1>2, EditorKeeps, ResearcherKeeps DEF Next

LEMMA ScoresTyped == Scores => TypeOK
  <1> SUFFICES ASSUME Scores PROVE TypeOK
    OBVIOUS
  <1>1. \A r \in response :
          /\ form[r.pid] # NoForm /\ r.item \in DOMAIN form[r.pid].answers
          /\ r.raw \in Int /\ r.score \in Int
          /\ r.json = form[r.pid].answers[r.item]
    BY DEF Scores, IsRow
  <1>2. \A p \in Participant : form[p] # NoForm =>
          /\ form[p].phase \in {"open", "scoring"}
          /\ form[p].todo \subseteq DOMAIN form[p].answers
    BY DEF Scores, IsForm
  <1>3. ASSUME report # NULL, NEW r \in report.rs
        PROVE  r \in [pid : Participant, item : Item, raw : Int, score : Int,
                      json : {s.json : s \in report.rs}]
    <2>1. IsRow(r, report.edits)
      BY <1>3 DEF Scores, ReportOK
    <2>2. form[r.pid] # NoForm /\ r.pid \in Participant /\ r.item \in DOMAIN form[r.pid].answers
      BY <2>1 DEF IsRow
    <2>3. r.item \in Item
      BY <2>2 DEF Scores, IsForm
    <2>4. /\ r = [x \in {"pid", "item", "raw", "score", "json"} |-> r[x]]
          /\ r.raw \in Int /\ r.score \in Int
      BY <2>1 DEF IsRow
    <2>5. QED
      BY <1>3, <2>2, <2>3, <2>4
  <1>4. report # NULL => /\ report.phase \in {"items", "responses", "consents", "done"}
                         /\ report.fmt \in Formats \cup {NULL}
    BY DEF Scores, ReportOK
  <1>5. QED
    BY <1>1, <1>2, <1>3, <1>4 DEF Scores, TypeOK

(* The score read of an answer is what its button is worth. *)
LEMMA ScoreIsWorth ==
    ASSUME ReportOK, NEW p, NEW i \in Answered(p), Unchanged(p, i), ButtonsScored(p, i)
    PROVE  ScoreOf(report.rs, p, i) = Worth(p, i) /\ Worth(p, i) \in Int
  <1>1. \E r \in report.rs : r.pid = p /\ r.item = i
    BY DEF Answered, Of
  <1>2. PICK r : r = CHOOSE x \in report.rs : x.pid = p /\ x.item = i
    OBVIOUS
  <1>3. r \in report.rs /\ r.pid = p /\ r.item = i
    BY <1>1, <1>2
  <1>4. IsRow(r, report.edits)
    BY <1>3 DEF ReportOK
  <1>5. form[p].edits[i] = report.edits[i] /\ form[p].edits[NULL] = report.edits[NULL]
    BY DEF Unchanged
  <1>6. r.score = Worth(p, i) /\ r.score \in Int
    BY <1>3, <1>4, <1>5 DEF IsRow
  <1>7. QED
    BY <1>2, <1>6 DEF ScoreOf

LEMMA ScoresTotal == Scores => TotalOfAnswers
  <1> SUFFICES ASSUME Scores, Finished({"score"}), NEW p \in DOMAIN report.totals,
                      \A i \in Answered(p) : Unchanged(p, i) /\ ButtonsScored(p, i)
               PROVE  report.totals[p] = Total([i \in Answered(p) |-> Worth(p, i)])
    BY DEF TotalOfAnswers
  <1>1. ReportOK /\ report.totals = Totals(report.rs)
    BY DEF Scores, ReportOK, Finished
  <1>2. report.totals[p] = Total([i \in Answered(p) |-> ScoreOf(report.rs, p, i)])
    BY <1>1 DEF Totals, Answered
  <1>3. ASSUME NEW i \in Answered(p)
        PROVE  ScoreOf(report.rs, p, i) = Worth(p, i)
    BY <1>1, <1>3, ScoreIsWorth
  <1>4. [i \in Answered(p) |-> ScoreOf(report.rs, p, i)] = [i \in Answered(p) |-> Worth(p, i)]
    BY <1>3
  <1>5. QED
    BY <1>2, <1>4

(* Definitions, forms, stored rows and reports have their types, however    *)
(* often definitions change between a form and its answers and between the  *)
(* reads of a report (response_service.go, export_service.go).              *)
THEOREM ReportsTyped == Spec => []TypeOK
<1>1. QED
  BY ScoresStart, ScoresKeep, ScoresTyped, PTL DEF Spec

(* The total of a participant in an export of scores is the sum of what the *)
(* buttons pressed are worth, for any items and participants, if what was   *)
(* answered has not been edited from the form to the export                 *)
(* (response_service.go, buildResponseForItem; export_service.go).          *)
THEOREM TotalsAreAnswers == Spec => []TotalOfAnswers
<1>1. QED
  BY ScoresStart, ScoresKeep, ScoresTotal, PTL DEF Spec

-----------------------------------------------------------------------------
(* Names of columns *)

HIDE ReportsAssumption DEF ReportsAssumption

(* A set of numbers with 0 and every successor is Nat. *)
LEMMA Counting ==
    ASSUME NEW S \in SUBSET Nat, 0 \in S, \A n \in S : n + 1 \in S
    PROVE  S = Nat
  <1> DEFINE R == Nat \ S
  <1> SUFFICES ASSUME R # {} PROVE FALSE
    OBVIOUS
  <1>1. PICK m \in R : \A n \in R : <<n, m>> \notin OpToRel(<, Nat)
    BY NatLessThanWellFounded, WFMin
  <1>2. m \in Nat /\ m # 0 /\ m - 1 \in Nat
    OBVIOUS
  <1>0. \A n \in R : ~(n < m)
    BY <1>1 DEF OpToRel
  <1>3. m - 1 \notin R
    BY <1>0, <1>2
  <1>4. (m - 1) + 1 \in S
    BY <1>2, <1>3
  <1>5. QED
    BY <1>2, <1>4

LEMMA SequenceFacts ==
    ASSUME NEW s, IsSequence(s)
    PROVE  /\ s \in Seq({s[n] : n \in 1..Len(s)}) /\ DOMAIN s = 1..Len(s)
           /\ Len(s) \in Nat /\ (s = <<>> <=> Len(s) = 0)
  <1>1. Len(s) \in Nat /\ s = [n \in 1..Len(s) |-> s[n]]
    BY DEF IsSequence
  <1>2. s \in [1..Len(s) -> {s[n] : n \in 1..Len(s)}]
    BY <1>1
  <1>3. s \in Seq({s[n] : n \in 1..Len(s)})
    BY <1>1, <1>2
  <1>4. s = <<>> <=> Len(s) = 0
    BY <1>3
  <1>5. QED
    BY <1>1, <1>2, <1>3, <1>4

LEMMA SeqIsSequence ==
    ASSUME NEW S, NEW s \in Seq(S)
    PROVE  IsSequence(s)
  <1>1. Len(s) \in Nat /\ s \in [1..Len(s) -> S]
    OBVIOUS
  <1>2. s = [n \in 1..Len(s) |-> s[n]]
    BY <1>1
  <1>3. QED
    BY <1>1, <1>2 DEF IsSequence

(* A name with a number has one element more. *)
LEMMA SuffixFacts ==
    ASSUME NEW s, IsSequence(s), NEW n
    PROVE  /\ Len(Suffix(s, n)) = Len(s) + 1 /\ Suffix(s, n)[Len(s) + 1] = n
           /\ \A x \in 1..Len(s) : Suffix(s, n)[x] = s[x]
           /\ IsSequence(Suffix(s, n))
  <1> DEFINE S == {s[x] : x \in 1..Len(s)} \cup {n}
  <1>1. s \in Seq({s[x] : x \in 1..Len(s)}) /\ Len(s) \in Nat
    BY SequenceFacts
  <1>2. s \in Seq(S) /\ n \in S
    BY <1>1
  <1> HIDE DEF S
  <1>3. /\ Append(s, n) \in Seq(S) /\ Len(Append(s, n)) = Len(s) + 1
        /\ Append(s, n)[Len(s) + 1] = n
        /\ \A x \in 1..Len(s) : Append(s, n)[x] = s[x]
    BY <1>1, <1>2
  <1>4. QED
    BY <1>1, <1>3, SeqIsSequence DEF Suffix

(* Names of one element and what is numbered from them. *)
LEMMA PlainFacts ==
    ASSUME NEW s, IsSequence(s), Plain(s)
    PROVE  /\ s = <<s[1]>> /\ s[1] \notin {"item", "consent"}
           /\ \A n : Suffix(s, n) = <<s[1], n>>
  <1>1. s = <<s[1]>>
    <2>1. s = [n \in 1..1 |-> s[n]]
      BY DEF IsSequence, Plain
    <2>2. QED
      BY <2>1
  <1>2. ASSUME NEW n
        PROVE  Suffix(s, n) = <<s[1], n>>
    <2>1. /\ Len(Suffix(s, n)) = 2 /\ Suffix(s, n)[2] = n /\ Suffix(s, n)[1] = s[1]
          /\ IsSequence(Suffix(s, n))
      <3>1. Len(s) = 1
        BY DEF Plain
      <3>2. /\ Len(Suffix(s, n)) = Len(s) + 1 /\ Suffix(s, n)[Len(s) + 1] = n
            /\ \A x \in 1..Len(s) : Suffix(s, n)[x] = s[x]
            /\ IsSequence(Suffix(s, n))
        BY SuffixFacts
      <3>3. QED
        BY <3>1, <3>2
    <2>2. PICK t : t = Suffix(s, n)
      OBVIOUS
    <2>3. t = [x \in 1..2 |-> t[x]] /\ t[1] = s[1] /\ t[2] = n
      BY <2>1, <2>2 DEF IsSequence
    <2>4. QED
      BY <2>2, <2>3
  <1>3. QED
    BY <1>1, <1>2 DEF Plain

LEMMA BaseIsSequence ==
    ASSUME NEW d \in ItemDefs, NEW i, NEW lang \in Lang
    PROVE  IsSequence(BaseName(d, i, lang))
  <1>1. IsSequence(ItemId(i))
    <2>1. ItemId(i) \in Seq({"item", i})
      BY DEF ItemId
    <2>2. QED
      BY <2>1, SeqIsSequence
  <1>2. \A l \in Lang : d.stem[l] # NULL => IsSequence(d.stem[l])
    BY TextAssumption DEF TextAssumption
  <1>3. QED
    BY <1>1, <1>2, ReportsAssumption DEF ReportsAssumption, BaseName

(* How many listed items up to i have its stem. *)
Alike(items, lang, i) ==
    {j \in Item : items[j] # NULL /\ j <= i
                  /\ BaseName(items[j], j, lang) = BaseName(items[i], i, lang)}

LEMMA AlikeFacts ==
    ASSUME NEW items, NEW lang, NEW i \in Item, items[i] # NULL
    PROVE  /\ IsFiniteSet(Alike(items, lang, i)) /\ i \in Alike(items, lang, i)
           /\ Cardinality(Alike(items, lang, i)) \in Nat \ {0}
           /\ (\A j \in Alike(items, lang, i) : j = i) =>
                 Cardinality(Alike(items, lang, i)) = 1
           /\ \A j \in Item : /\ items[j] # NULL /\ j < i
                             /\ BaseName(items[j], j, lang) = BaseName(items[i], i, lang)
                 => Cardinality(Alike(items, lang, j)) # Cardinality(Alike(items, lang, i))
  <1>1. Item \subseteq Nat /\ IsFiniteSet(Item)
    BY TextAssumption DEF TextAssumption
  <1>2. \A j \in Item : IsFiniteSet(Alike(items, lang, j))
    <2> TAKE j \in Item
    <2>1. Alike(items, lang, j) \in SUBSET Item
      BY DEF Alike
    <2>2. QED
      BY <1>1, <2>1, FS_Subset
  <1>3. i \in Alike(items, lang, i)
    BY <1>1 DEF Alike
  <1>4. Cardinality(Alike(items, lang, i)) \in Nat \ {0}
    BY <1>2, <1>3, FS_CardinalityType, FS_EmptySet
  <1>5. ASSUME \A j \in Alike(items, lang, i) : j = i
        PROVE  Cardinality(Alike(items, lang, i)) = 1
    <2>1. Alike(items, lang, i) = {i}
      BY <1>3, <1>5
    <2>2. QED
      BY <2>1, FS_Singleton
  <1>6. ASSUME NEW j \in Item, items[j] # NULL, j < i,
               BaseName(items[j], j, lang) = BaseName(items[i], i, lang)
        PROVE  Cardinality(Alike(items, lang, j)) # Cardinality(Alike(items, lang, i))
    <2>1. Alike(items, lang, j) \in SUBSET Alike(items, lang, i)
      <3> SUFFICES ASSUME NEW k \in Alike(items, lang, j)
                   PROVE  k \in Alike(items, lang, i)
        OBVIOUS
      <3>1. k \in Nat /\ j \in Nat /\ i \in Nat /\ k <= j
        BY <1>1 DEF Alike
      <3>2. k <= i
        BY <1>6, <3>1
      <3>3. QED
        BY <1>6, <3>2 DEF Alike
    <2>2. i \notin Alike(items, lang, j)
      BY <1>1, <1>6 DEF Alike
    <2>3. QED
      BY <1>2, <1>3, <2>1, <2>2, FS_Subset
  <1>7. QED
    BY <1>2, <1>3, <1>4, <1>5, <1>6

LEMMA HeaderFacts ==
    ASSUME NEW items, NEW lang
    PROVE  /\ DOMAIN Headers(items, lang) = {i \in Item : items[i] # NULL}
           /\ \A i \in Item : items[i] # NULL =>
                Headers(items, lang)[i] =
                    IF Cardinality(Alike(items, lang, i)) = 1
                    THEN BaseName(items[i], i, lang)
                    ELSE Suffix(BaseName(items[i], i, lang), Cardinality(Alike(items, lang, i)))
  <1>1. \A i \in Item :
          Alike(items, lang, i) =
            {j \in {k \in Item : items[k] # NULL} :
                j <= i /\ BaseName(items[j], j, lang) = BaseName(items[i], i, lang)}
    BY DEF Alike
  <1>2. QED
    BY <1>1 DEF Headers

(* No stem looks like one that was numbered, or like an id. *)
PlainStems(items, lang) ==
    \A i \in Item : items[i] # NULL =>
        \/ Plain(BaseName(items[i], i, lang))
        \/ BaseName(items[i], i, lang) = ItemId(i)

(* The column of an item in a wide table. *)
ColumnOf(items, lang, i) ==
    IF items[i] # NULL THEN Headers(items, lang)[i] ELSE ItemId(i)

(* A column is called after a plain stem, with a number or without, or has  *)
(* the id of the item.                                                      *)
LEMMA ColumnShape ==
    ASSUME NEW items \in [Item -> ItemDefs \cup {NULL}], NEW lang \in Lang,
           PlainStems(items, lang), NEW i \in Item
    PROVE  LET base == BaseName(items[i], i, lang)
               col == ColumnOf(items, lang, i)
               n == Cardinality(Alike(items, lang, i))
           IN  \/ col = ItemId(i) /\ (items[i] # NULL => base = ItemId(i))
               \/ /\ items[i] # NULL /\ IsSequence(base) /\ Plain(base)
                  /\ n \in Nat \ {0}
                  /\ col = IF n = 1 THEN base ELSE <<base[1], n>>
  <1> DEFINE base == BaseName(items[i], i, lang)
             n == Cardinality(Alike(items, lang, i))
  <1>1. CASE items[i] = NULL
    BY <1>1 DEF ColumnOf
  <1>2. CASE items[i] # NULL /\ Plain(base)
    <2>1. IsSequence(base)
      BY <1>2, BaseIsSequence
    <2>2. n \in Nat \ {0}
      BY <1>2, AlikeFacts
    <2>3. ColumnOf(items, lang, i) = IF n = 1 THEN base ELSE Suffix(base, n)
      BY <1>2, HeaderFacts DEF ColumnOf
    <2>4. Suffix(base, n) = <<base[1], n>>
      BY <1>2, <2>1, PlainFacts
    <2>5. QED
      BY <1>2, <2>1, <2>2, <2>3, <2>4
  <1>3. CASE items[i] # NULL /\ ~Plain(base)
    <2>1. base = ItemId(i)
      BY <1>3 DEF PlainStems
    <2>2. ASSUME NEW j \in Alike(items, lang, i)
          PROVE  j = i
      <3>1. j \in Item /\ items[j] # NULL /\ BaseName(items[j], j, lang) = ItemId(i)
        BY <2>1, <2>2 DEF Alike
      <3>2. Len(ItemId(i)) = 2
        BY DEF ItemId
      <3>3. ItemId(j) = ItemId(i)
        BY <3>1, <3>2 DEF PlainStems, Plain
      <3>4. QED
        BY <3>3 DEF ItemId
    <2>3. n = 1
      BY <1>3, <2>2, AlikeFacts
    <2>4. QED
      BY <1>3, <2>1, <2>3, HeaderFacts DEF ColumnOf
  <1>4. QED
    BY <1>1, <1>2, <1>3

LEMMA ColumnsDiffer ==
    ASSUME NEW items \in [Item -> ItemDefs \cup {NULL}], NEW lang \in Lang,
           PlainStems(items, lang), NEW i \in Item, NEW j \in Item,
           ColumnOf(items, lang, i) = ColumnOf(items, lang, j)
    PROVE  i = j
  <1> DEFINE base(k) == BaseName(items[k], k, lang)
             col(k) == ColumnOf(items, lang, k)
             num(k) == Cardinality(Alike(items, lang, k))
             Id(k) == col(k) = ItemId(k)
             Stem(k) == /\ items[k] # NULL /\ IsSequence(base(k)) /\ Plain(base(k))
                        /\ num(k) \in Nat \ {0}
                        /\ col(k) = IF num(k) = 1 THEN base(k) ELSE <<base(k)[1], num(k)>>
  <1>1. \A k \in Item : Id(k) \/ Stem(k)
    BY ColumnShape
  <1>2. \A k \in Item : Stem(k) =>
            /\ base(k) = <<base(k)[1]>> /\ base(k)[1] \notin {"item", "consent"}
            /\ col(k)[1] = base(k)[1] /\ col(k)[1] # "item"
            /\ Len(col(k)) = 1 <=> num(k) = 1
            /\ num(k) # 1 => col(k)[2] = num(k)
    <2> TAKE k \in Item
    <2>1. SUFFICES ASSUME Stem(k)
                   PROVE  /\ base(k) = <<base(k)[1]>> /\ base(k)[1] \notin {"item", "consent"}
                          /\ col(k)[1] = base(k)[1] /\ col(k)[1] # "item"
                          /\ Len(col(k)) = 1 <=> num(k) = 1
                          /\ num(k) # 1 => col(k)[2] = num(k)
      OBVIOUS
    <2>2. base(k) = <<base(k)[1]>> /\ base(k)[1] \notin {"item", "consent"}
      BY <2>1, PlainFacts
    <2>3. PICK b, n, c : b = base(k)[1] /\ n = num(k) /\ c = col(k)
      OBVIOUS
    <2>4. c = IF n = 1 THEN <<b>> ELSE <<b, n>>
      BY <2>1, <2>2, <2>3
    <2>5. c[1] = b /\ (Len(c) = 1 <=> n = 1) /\ (n # 1 => c[2] = n)
      BY <2>4
    <2>6. QED
      BY <2>2, <2>3, <2>5
  <1>3. \A k \in Item : Id(k) => col(k)[1] = "item" /\ col(k)[2] = k
    BY DEF ItemId
  <1>4. \A k, l \in Item : k < l /\ items[k] # NULL /\ items[l] # NULL /\ base(k) = base(l)
                           => num(k) # num(l)
    BY AlikeFacts
  <1>5. Item \subseteq Nat
    BY TextAssumption DEF TextAssumption
  <1>6. col(i) = col(j)
    OBVIOUS
  <1> HIDE DEF base, col, num
  <1>7. CASE Id(i) \/ Id(j)
    <2>1. Id(i) /\ Id(j)
      BY <1>1, <1>2, <1>3, <1>6, <1>7
    <2>2. QED
      BY <1>3, <1>6, <2>1
  <1>8. CASE Stem(i) /\ Stem(j)
    <2>1. base(i) = base(j) /\ num(i) = num(j)
      BY <1>2, <1>6, <1>8
    <2>2. ~(i < j) /\ ~(j < i)
      BY <1>4, <1>8, <2>1
    <2>3. QED
      BY <1>5, <2>2
  <1>9. QED
    BY <1>1, <1>7, <1>8

(* A column of an item is not one of a consent option. *)
LEMMA ColumnsApart ==
    ASSUME NEW items \in [Item -> ItemDefs \cup {NULL}], NEW lang \in Lang,
           PlainStems(items, lang), NEW i \in Item
    PROVE  /\ \A k : ColumnOf(items, lang, i) # <<"consent", k>>
           /\ \A label : /\ IsSequence(label) /\ Plain(label)
                         /\ items[i] # NULL => label # BaseName(items[i], i, lang)
                         => ColumnOf(items, lang, i) # label
  <1> DEFINE base == BaseName(items[i], i, lang)
             col == ColumnOf(items, lang, i)
             n == Cardinality(Alike(items, lang, i))
  <1>1. CASE col = ItemId(i)
    <2>1. col = <<"item", i>>
      BY <1>1 DEF ItemId
    <2>2. Len(col) = 2 /\ col[1] = "item"
      BY <2>1
    <2>3. \A k : <<"consent", k>>[1] = "consent"
      OBVIOUS
    <2>4. QED
      BY <2>2, <2>3 DEF Plain
  <1>2. CASE /\ items[i] # NULL /\ IsSequence(base) /\ Plain(base)
             /\ n \in Nat \ {0} /\ col = IF n = 1 THEN base ELSE <<base[1], n>>
    <2>1. base = <<base[1]>> /\ base[1] \notin {"item", "consent"}
      BY <1>2, PlainFacts
    <2>2. PICK b, c : b = base[1] /\ c = col
      OBVIOUS
    <2>3. c = IF n = 1 THEN <<b>> ELSE <<b, n>>
      BY <1>2, <2>1, <2>2
    <2>4. c[1] = b /\ (n # 1 => Len(c) = 2)
      BY <2>3
    <2>5. \A k : <<"consent", k>>[1] = "consent"
      OBVIOUS
    <2>6. \A k : col # <<"consent", k>>
      BY <2>1, <2>2, <2>4, <2>5
    <2>7. ASSUME NEW label, Plain(label), label # base
          PROVE  col # label
      BY <1>2, <2>2, <2>4, <2>7 DEF Plain
    <2>8. QED
      BY <1>2, <2>6, <2>7
  <1>3. QED
    BY <1>1, <1>2, ColumnShape

-----------------------------------------------------------------------------
(* Consents merged into a row *)

LEMMA LeastOf ==
    ASSUME NEW S \in SUBSET Nat, S # {}
    PROVE  Min(S) \in S
  <1>1. PICK m \in S : \A n \in S : <<n, m>> \notin OpToRel(<, Nat)
    BY NatLessThanWellFounded, WFMin
  <1>2. \A n \in S : ~(n < m)
    BY <1>1 DEF OpToRel
  <1>3. \A n \in S : m <= n
    BY <1>2
  <1>4. QED
    BY <1>3 DEF Min

(* The name that is found is free. *)
LEMMA NameIsFree ==
    ASSUME NEW row, IsFiniteSet(DOMAIN row), NEW base, IsSequence(base)
    PROVE  ColName(row, base) \notin DOMAIN row
  <1> DEFINE N == Cardinality(DOMAIN row)
             free == {n \in 2..(N + 2) : Suffix(base, n) \notin DOMAIN row}
  <1>1. N \in Nat
    BY FS_CardinalityType
  <1>2. free # {}
    <2>1. SUFFICES ASSUME free = {} PROVE FALSE
      OBVIOUS
    <2> DEFINE f == [n \in 2..(N + 2) |-> Suffix(base, n)]
    <2>2. f \in [2..(N + 2) -> DOMAIN row]
      BY <2>1
    <2>3. IsFiniteSet(2..(N + 2)) /\ Cardinality(2..(N + 2)) = N + 1
      BY <1>1, FS_Interval
    <2>4. N < N + 1
      BY <1>1
    <2>5. PICK x, y \in 2..(N + 2) : x # y /\ f[x] = f[y]
      <3> HIDE DEF f
      <3>1. QED
        BY <2>2, <2>3, <2>4, FS_PigeonHole
    <2>6. Suffix(base, x)[Len(base) + 1] = x /\ Suffix(base, y)[Len(base) + 1] = y
      BY SuffixFacts
    <2>7. QED
      BY <2>5, <2>6
  <1>3. free \in SUBSET Nat
    BY <1>1
  <1> HIDE DEF free
  <1>4. Min(free) \in free
    BY <1>2, <1>3, LeastOf
  <1>5. Suffix(base, Min(free)) \notin DOMAIN row
    BY <1>4 DEF free
  <1>6. QED
    BY <1>5 DEF ColName, free

(* The label of a consent option, as the column of a row without any other. *)
LabelOf(sc, k, lang) == ConsentColumn(<<>>, sc, k, lang)

LEMMA LabelFacts ==
    ASSUME NEW sc \in ScaleDefs, NEW k \in Key, NEW lang \in Lang \cup {NULL}, NEW row,
           IsFiniteSet(DOMAIN row)
    PROVE  /\ LabelOf(sc, k, lang) \notin DOMAIN row =>
                ConsentColumn(row, sc, k, lang) = LabelOf(sc, k, lang)
           /\ \/ ConsentColumn(row, sc, k, lang) = <<"consent", k>>
              \/ ConsentColumn(row, sc, k, lang) \notin DOMAIN row
           /\ IsSequence(LabelOf(sc, k, lang))
  <1>1. IsSequence(<<"consent", k>>)
    <2>1. <<"consent", k>> \in Seq({"consent", k})
      OBVIOUS
    <2>2. QED
      BY <2>1, SeqIsSequence
  <1>2. CASE lang = NULL
    BY <1>1, <1>2 DEF LabelOf, ConsentColumn
  <1>3. CASE lang # NULL
    <2> DEFINE base == IF sc.consent[k][lang] # NULL THEN sc.consent[k][lang]
                       ELSE IF sc.consent[k][English] # NULL THEN sc.consent[k][English]
                       ELSE <<"consent", k>>
    <2>1. lang \in Lang /\ English \in Lang
      BY <1>3, ReportsAssumption DEF ReportsAssumption
    <2>2. \A l \in Lang : sc.consent[k][l] # NULL => IsSequence(sc.consent[k][l])
      BY TextAssumption DEF TextAssumption
    <2>3. IsSequence(base)
      BY <1>1, <2>1, <2>2
    <2>4. \A r : ConsentColumn(r, sc, k, lang) = ColName(r, base)
      BY <1>3 DEF ConsentColumn
    <2> HIDE DEF base
    <2>5. DOMAIN <<>> = {}
      OBVIOUS
    <2>6. LabelOf(sc, k, lang) = base
      BY <2>4, <2>5 DEF LabelOf, ColName
    <2>7. ConsentColumn(row, sc, k, lang) \notin DOMAIN row
      BY <2>3, <2>4, NameIsFree
    <2>8. base \notin DOMAIN row => ColName(row, base) = base
      BY DEF ColName
    <2>9. QED
      BY <2>3, <2>4, <2>6, <2>7, <2>8
  <1>4. QED
    BY <1>2, <1>3

(* The rows that merging goes through. *)
IsMerging(g, row, choices, ks, n, sc, lang) ==
    g = [m \in 0..n |->
            IF m = 0 THEN row ELSE MergeChoice(g[m - 1], choices, ks[m], sc, lang)]

LEMMA MergingExists ==
    ASSUME NEW row, NEW choices, NEW ks, NEW sc, NEW lang, NEW n \in Nat
    PROVE  \E g : IsMerging(g, row, choices, ks, n, sc, lang)
  <1> DEFINE S == {m \in Nat : \E g : IsMerging(g, row, choices, ks, m, sc, lang)}
  <1>1. 0 \in S
    <2> DEFINE g == [m \in 0..0 |-> row]
    <2>1. IsMerging(g, row, choices, ks, 0, sc, lang)
      BY DEF IsMerging
    <2>2. QED
      BY <2>1
  <1>2. ASSUME NEW m \in S PROVE m + 1 \in S
    <2>1. PICK g : IsMerging(g, row, choices, ks, m, sc, lang)
      BY <1>2
    <2> DEFINE h == [x \in 0..(m + 1) |->
                        IF x = m + 1 THEN MergeChoice(g[m], choices, ks[m + 1], sc, lang)
                        ELSE g[x]]
    <2>2. m \in Nat
      BY <1>2
    <2>3. ASSUME NEW x \in 0..(m + 1)
          PROVE  h[x] = IF x = 0 THEN row ELSE MergeChoice(h[x - 1], choices, ks[x], sc, lang)
      <3>1. CASE x = m + 1
        <4>1. x - 1 = m /\ m \in 0..(m + 1) /\ m # m + 1 /\ x # 0
          BY <2>2, <3>1
        <4>2. h[x - 1] = g[m]
          BY <4>1
        <4>3. QED
          BY <3>1, <4>1, <4>2
      <3>2. CASE x \in 1..m
        <4>1. x - 1 \in 0..(m + 1) /\ x - 1 # m + 1 /\ x # m + 1 /\ x # 0 /\ x \in 0..m
          BY <2>2, <3>2
        <4>2. h[x - 1] = g[x - 1] /\ h[x] = g[x]
          BY <4>1
        <4>3. g[x] = MergeChoice(g[x - 1], choices, ks[x], sc, lang)
          BY <2>1, <4>1 DEF IsMerging
        <4>4. QED
          BY <4>1, <4>2, <4>3
      <3>3. CASE x = 0
        <4>1. h[0] = g[0] /\ 0 \in 0..m
          BY <2>2
        <4>2. g[0] = row
          BY <2>1, <4>1 DEF IsMerging
        <4>3. QED
          BY <3>3, <4>1, <4>2
      <3>4. QED
        BY <2>2, <3>1, <3>2, <3>3
    <2>4. h = [x \in 0..(m + 1) |->
                IF x = 0 THEN row ELSE MergeChoice(h[x - 1], choices, ks[x], sc, lang)]
      <3>1. h = [x \in 0..(m + 1) |-> h[x]]
        OBVIOUS
      <3> HIDE DEF h
      <3>2. QED
        BY <2>3, <3>1
    <2>5. IsMerging(h, row, choices, ks, m + 1, sc, lang)
      <3> HIDE DEF h
      <3>1. QED
        BY <2>4 DEF IsMerging
    <2>6. QED
      BY <2>2, <2>5
  <1>3. S = Nat
    <2> HIDE DEF S
    <2>1. S \in SUBSET Nat
      BY DEF S
    <2>2. QED
      BY <1>1, <1>2, <2>1, Counting
  <1>4. QED
    BY <1>3

LEMMA MergeRuns ==
    ASSUME NEW row, NEW choices, NEW ks, Len(ks) \in Nat, NEW sc, NEW lang
    PROVE  \E g : /\ IsMerging(g, row, choices, ks, Len(ks), sc, lang)
                  /\ MergeConsent(row, choices, ks, sc, lang) = g[Len(ks)]
  <1> DEFINE Is(g) == g = [n \in 0..Len(ks) |-> IF n = 0 THEN row
                           ELSE MergeChoice(g[n - 1], choices, ks[n], sc, lang)]
  <1>1. MergeConsent(row, choices, ks, sc, lang) = (CHOOSE g : Is(g))[Len(ks)]
    BY DEF MergeConsent
  <1>2. \E g : Is(g)
    <2>1. PICK h : IsMerging(h, row, choices, ks, Len(ks), sc, lang)
      BY MergingExists
    <2>2. QED
      BY <2>1 DEF IsMerging
  <1>3. Is(CHOOSE g : Is(g))
    <2> HIDE DEF Is
    <2>1. QED
      BY <1>2
  <1>4. QED
    BY <1>1, <1>3 DEF IsMerging

(* What holds of the row and is kept by each choice. *)
LEMMA MergingSteps ==
    ASSUME NEW row, NEW choices, NEW ks, NEW sc, NEW lang, NEW N \in Nat,
           NEW g, IsMerging(g, row, choices, ks, N, sc, lang)
    PROVE  /\ g[0] = row
           /\ \A n \in 0..(N - 1) :
                g[n + 1] = MergeChoice(g[n], choices, ks[n + 1], sc, lang)
  <1>1. g[0] = row
    <2>1. 0 \in 0..N
      OBVIOUS
    <2>2. QED
      BY <2>1 DEF IsMerging
  <1>2. ASSUME NEW n \in 0..(N - 1)
        PROVE  g[n + 1] = MergeChoice(g[n], choices, ks[n + 1], sc, lang)
    <2>1. n + 1 \in 0..N /\ n + 1 # 0 /\ (n + 1) - 1 = n
      OBVIOUS
    <2>2. QED
      BY <2>1 DEF IsMerging
  <1>3. QED
    BY <1>1, <1>2

(* One choice keeps what was in a row, whatever its label is. *)
Holds(row, h, x) == IsFiniteSet(DOMAIN row) /\ h \in DOMAIN row /\ row[h] = x

LEMMA ChoiceKeeps ==
    ASSUME NEW sc \in ScaleDefs, NEW lang \in Lang \cup {NULL}, NEW choices, NEW k \in Key,
           NEW row, NEW h, h[1] # "consent", NEW x, Holds(row, h, x)
    PROVE  Holds(MergeChoice(row, choices, k, sc, lang), h, x)
  <1> DEFINE col == ConsentColumn(row, sc, k, lang)
             new == MergeChoice(row, choices, k, sc, lang)
  <1>1. IsFiniteSet(DOMAIN row) /\ h \in DOMAIN row /\ row[h] = x
    BY DEF Holds
  <1>2. col = <<"consent", k>> \/ col \notin DOMAIN row
    BY <1>1, LabelFacts
  <1>3. <<"consent", k>>[1] = "consent"
    OBVIOUS
  <1>4. col # h
    BY <1>1, <1>2, <1>3
  <1>5. DOMAIN new = DOMAIN row \cup {col} /\ (h # col => new[h] = row[h])
    BY <1>1 DEF MergeChoice
  <1> HIDE DEF col, new
  <1>6. IsFiniteSet(DOMAIN new)
    BY <1>1, <1>5, FS_AddElement
  <1>7. Holds(new, h, x)
    BY <1>1, <1>4, <1>5, <1>6 DEF Holds
  <1>8. QED
    BY <1>7 DEF new

(* So does merging all of them. *)
LEMMA ColumnsKept ==
    ASSUME NEW sc \in ScaleDefs, NEW lang \in Lang \cup {NULL}, NEW choices, NEW row,
           NEW ks, Len(ks) \in Nat, \A n \in 1..Len(ks) : ks[n] \in Key,
           NEW h, h[1] # "consent", NEW x, Holds(row, h, x)
    PROVE  Holds(MergeConsent(row, choices, ks, sc, lang), h, x)
  <1>0. PICK N \in Nat : N = Len(ks)
    OBVIOUS
  <1>1. PICK g : /\ IsMerging(g, row, choices, ks, N, sc, lang)
                 /\ MergeConsent(row, choices, ks, sc, lang) = g[N]
    BY <1>0, MergeRuns
  <1>2. /\ g[0] = row
        /\ \A n \in 0..(N - 1) :
              g[n + 1] = MergeChoice(g[n], choices, ks[n + 1], sc, lang)
    BY <1>1, MergingSteps
  <1> DEFINE S == {n \in Nat : n <= N => Holds(g[n], h, x)}
  <1>3. 0 \in S
    BY <1>2
  <1>4. ASSUME NEW n \in S PROVE n + 1 \in S
    <2>1. n \in Nat /\ (n <= N => Holds(g[n], h, x))
      BY <1>4
    <2>2. SUFFICES ASSUME n + 1 <= N PROVE Holds(g[n + 1], h, x)
      BY <2>1
    <2>3. n \in 0..(N - 1) /\ n + 1 \in 1..Len(ks) /\ n <= N
      BY <1>0, <2>1, <2>2
    <2>4. ks[n + 1] \in Key /\ Holds(g[n], h, x)
      BY <2>1, <2>3
    <2>5. Holds(MergeChoice(g[n], choices, ks[n + 1], sc, lang), h, x)
      BY <2>4, ChoiceKeeps
    <2>6. QED
      BY <1>2, <2>3, <2>5
  <1>5. S = Nat
    <2> HIDE DEF S
    <2>1. S \in SUBSET Nat
      BY DEF S
    <2>2. QED
      BY <1>3, <1>4, <2>1, Counting
  <1>6. Holds(g[N], h, x)
    BY <1>5
  <1>7. QED
    BY <1>1, <1>6

(* Every option has a column beside those there were. *)
HasChoices(new, row, choices, ks, sc, lang) ==
    /\ DOMAIN new = DOMAIN row \cup {LabelOf(sc, ks[m], lang) : m \in 1..Len(ks)}
    /\ \A h \in DOMAIN row : new[h] = row[h]
    /\ \A m \in 1..Len(ks) : new[LabelOf(sc, ks[m], lang)] =
          Cell(ks[m], [num |-> IF choices[ks[m]] THEN 1 ELSE 0])

(* If the labels are new to the row and differ, each option gets its own.   *)
LEMMA ChoicesMerged ==
    ASSUME NEW sc \in ScaleDefs, NEW lang \in Lang \cup {NULL}, NEW choices,
           NEW row, IsFiniteSet(DOMAIN row),
           NEW ks, Len(ks) \in Nat, \A n \in 1..Len(ks) : ks[n] \in Key,
           \A m, n \in 1..Len(ks) : ks[m] = ks[n] => m = n,
           \A j, k \in Key : LabelOf(sc, j, lang) = LabelOf(sc, k, lang) => j = k,
           \A k \in Key : LabelOf(sc, k, lang) \notin DOMAIN row,
           NEW new, new = MergeConsent(row, choices, ks, sc, lang)
    PROVE  HasChoices(new, row, choices, ks, sc, lang)
  <1>0. PICK N \in Nat : N = Len(ks)
    OBVIOUS
  <1> DEFINE L(m) == LabelOf(sc, ks[m], lang)
             V(m) == Cell(ks[m], [num |-> IF choices[ks[m]] THEN 1 ELSE 0])
  <1>1. PICK g : /\ IsMerging(g, row, choices, ks, N, sc, lang)
                 /\ MergeConsent(row, choices, ks, sc, lang) = g[N]
    BY <1>0, MergeRuns
  <1>2. /\ g[0] = row
        /\ \A n \in 0..(N - 1) :
              g[n + 1] = MergeChoice(g[n], choices, ks[n + 1], sc, lang)
    BY <1>1, MergingSteps
  <1>3. /\ \A m \in 1..N : L(m) \notin DOMAIN row
        /\ \A m, n \in 1..N : L(m) = L(n) => m = n
    BY <1>0
  <1> DEFINE Merged_(n) == /\ IsFiniteSet(DOMAIN g[n])
                           /\ DOMAIN g[n] = DOMAIN row \cup {L(m) : m \in 1..n}
                           /\ \A h \in DOMAIN row : g[n][h] = row[h]
                           /\ \A m \in 1..n : g[n][L(m)] = V(m)
             S == {n \in Nat : n <= N => Merged_(n)}
  <1>4. Merged_(0)
    <2>1. 1..0 = {}
      OBVIOUS
    <2> HIDE DEF L, V
    <2>2. {L(m) : m \in 1..0} = {}
      BY <2>1
    <2>3. QED
      BY <1>2, <2>1, <2>2
  <1>5. ASSUME NEW n \in 0..(N - 1), Merged_(n)
        PROVE  Merged_(n + 1)
    <2>0. PICK k, r : k = ks[n + 1] /\ r = g[n]
      OBVIOUS
    <2>1. n + 1 \in 1..N /\ k \in Key
      BY <1>0, <2>0
    <2>2. L(n + 1) \notin DOMAIN r
      <3> HIDE DEF L
      <3>1. n + 1 \notin 1..n /\ 1..n \subseteq 1..N
        OBVIOUS
      <3>2. QED
        BY <1>3, <1>5, <2>0, <2>1, <3>1
    <2>3. ConsentColumn(r, sc, k, lang) = L(n + 1)
      <3>1. IsFiniteSet(DOMAIN r) /\ L(n + 1) = LabelOf(sc, k, lang)
        BY <1>5, <2>0
      <3>2. QED
        BY <2>1, <2>2, <3>1, LabelFacts
    <2>4. /\ DOMAIN g[n + 1] = DOMAIN r \cup {L(n + 1)}
          /\ g[n + 1][L(n + 1)] = V(n + 1)
          /\ \A x \in DOMAIN r : x # L(n + 1) => g[n + 1][x] = r[x]
      <3>1. g[n + 1] = MergeChoice(r, choices, k, sc, lang)
        BY <1>2, <2>0
      <3>2. V(n + 1) = Cell(k, [num |-> IF choices[k] THEN 1 ELSE 0])
        BY <2>0
      <3> HIDE DEF L, V
      <3>3. PICK c, s : c = L(n + 1) /\ s = g[n + 1]
        OBVIOUS
      <3>4. /\ c = ConsentColumn(r, sc, k, lang)
            /\ s = MergeChoice(r, choices, k, sc, lang)
        BY <2>3, <3>1, <3>3
      <3>5. /\ DOMAIN s = DOMAIN r \cup {c}
            /\ s[c] = Cell(k, [num |-> IF choices[k] THEN 1 ELSE 0])
            /\ \A x \in DOMAIN r : x # c => s[x] = r[x]
        BY <3>4 DEF MergeChoice
      <3>6. QED
        BY <3>2, <3>3, <3>5
    <2> HIDE DEF L, V
    <2>5. IsFiniteSet(DOMAIN g[n + 1])
      <3>1. IsFiniteSet(DOMAIN r)
        BY <1>5, <2>0
      <3>2. IsFiniteSet(DOMAIN r \cup {L(n + 1)})
        BY <3>1, FS_AddElement
      <3>3. QED
        BY <2>4, <3>2
    <2>6. 1..(n + 1) = 1..n \cup {n + 1}
      OBVIOUS
    <2>7. DOMAIN g[n + 1] = DOMAIN row \cup {L(m) : m \in 1..(n + 1)}
      BY <1>5, <2>0, <2>4, <2>6
    <2>8. \A h \in DOMAIN row : g[n + 1][h] = row[h]
      BY <1>5, <2>0, <2>2, <2>4
    <2>9. \A m \in 1..(n + 1) : g[n + 1][L(m)] = V(m)
      BY <1>5, <2>0, <2>2, <2>4, <2>6
    <2>10. QED
      BY <2>5, <2>7, <2>8, <2>9
  <1>6. 0 \in S
    <2> HIDE DEF Merged_
    <2>1. QED
      BY <1>4
  <1>7. ASSUME NEW n \in S PROVE n + 1 \in S
    <2> HIDE DEF Merged_
    <2>1. n \in Nat /\ (n <= N => Merged_(n))
      BY <1>7
    <2>2. n + 1 <= N => n <= N /\ n \in 0..(N - 1)
      BY <2>1
    <2>3. QED
      BY <1>5, <2>1, <2>2
  <1>8. S = Nat
    <2> HIDE DEF S
    <2>1. S \in SUBSET Nat
      BY DEF S
    <2>2. QED
      BY <1>6, <1>7, <2>1, Counting
  <1>9. Merged_(N)
    <2> HIDE DEF Merged_
    <2>1. QED
      BY <1>8
  <1>10. QED
    BY <1>0, <1>1, <1>9 DEF HasChoices

(* An order of a finite set. *)
LEMMA OrderFacts ==
    ASSUME NEW K, IsFiniteSet(K), NEW ks \in SetToSeqs(K)
    PROVE  /\ Len(ks) \in Nat /\ \A n \in 1..Len(ks) : ks[n] \in K
           /\ \A m, n \in 1..Len(ks) : ks[m] = ks[n] => m = n
           /\ \A k \in K : \E n \in 1..Len(ks) : ks[n] = k
  <1> DEFINE N == Cardinality(K)
  <1>1. N \in Nat
    BY FS_CardinalityType
  <1>2. /\ ks \in [1..N -> K]
        /\ \A m, n \in 1..N : m # n => ks[m] # ks[n]
    BY DEF SetToSeqs
  <1>3. ks \in Injection(1..N, K)
    BY <1>2 DEF Injection, IsInjective
  <1>4. IsFiniteSet(1..N) /\ Cardinality(1..N) = N
    BY <1>1, FS_Interval
  <1>5. ks \in Surjection(1..N, K)
    <2> HIDE DEF N
    <2>1. Cardinality(K) = N
      BY DEF N
    <2>2. QED
      BY <1>3, <1>4, <2>1, FS_Injection
  <1>6. \A k \in K : \E n \in 1..N : ks[n] = k
    BY <1>5 DEF Surjection
  <1>7. Len(ks) = N
    <2> HIDE DEF N
    <2>1. ks \in Seq(K)
      BY <1>1, <1>2
    <2>2. QED
      BY <1>1, <1>2, <2>1
  <1>8. QED
    BY <1>1, <1>2, <1>6, <1>7

-----------------------------------------------------------------------------
(* What an answer is exported as *)

(* Something is exported for every answer. *)
LEMMA TranslationExists ==
    ASSUME NEW table, NEW lang, NEW w
    PROVE  Translations(table, lang, w) # {}
  <1>1. CASE FindIndex(table, w) = {}
    BY <1>1 DEF Translations
  <1>2. CASE FindIndex(table, w) # {}
    <2>1. PICK n \in FindIndex(table, w) : TRUE
      BY <1>2
    <2>2. PICK l \in Lang : n \in DOMAIN table[l]
      BY <2>1 DEF FindIndex
    <2> DEFINE all == {table[x][n] : x \in {y \in Lang : n \in DOMAIN table[y]}}
               some == IF HasLabel(table, lang, n) THEN {LabelAt(table, lang, n)} ELSE all
    <2>3. some # {}
      BY <2>2
    <2>4. PICK v : v \in some
      BY <2>3
    <2>5. v \in Translations(table, lang, w)
      BY <1>2, <2>1, <2>4 DEF Translations
    <2>6. QED
      BY <2>5
  <1>3. QED
    BY <1>1, <1>2

LEMMA ValueExists ==
    ASSUME NEW it, NEW sc, NEW r, NEW lang
    PROVE  ValueToLabel(it, sc, r, lang) # {}
  <1>1. \A w : Translations(it.options, lang, w) # {}
    BY TranslationExists
  <1>2. MapRawJSONToLang(it, r.json, lang) # {}
    <2>1. CASE "str" \in DOMAIN r.json
      BY <1>1, <2>1 DEF MapRawJSONToLang
    <2>2. CASE "str" \notin DOMAIN r.json
      <3> DEFINE D == DOMAIN r.json.arr
                 T(n) == Translations(it.options, lang, r.json.arr[n])
                 s == [n \in D |-> CHOOSE w \in T(n) : TRUE]
      <3>1. \A n \in D : (CHOOSE w \in T(n) : TRUE) \in T(n)
        <4> TAKE n \in D
        <4>1. T(n) # {}
          BY <1>1
        <4> HIDE DEF T
        <4>2. QED
          BY <4>1
      <3>2. s \in [D -> UNION {T(n) : n \in D}] /\ \A n \in DOMAIN s : s[n] \in T(n)
        <4> HIDE DEF T
        <4>1. QED
          BY <3>1
      <3>3. [arr |-> s] \in MapRawJSONToLang(it, r.json, lang)
        <4>1. MapRawJSONToLang(it, r.json, lang) =
                {[arr |-> t] : t \in {u \in [D -> UNION {T(n) : n \in D}] :
                                         \A n \in DOMAIN u : u[n] \in T(n)}}
          BY <2>2 DEF MapRawJSONToLang
        <4> HIDE DEF s, T, D
        <4>2. QED
          BY <3>2, <4>1
      <3>4. QED
        BY <3>3
    <2>3. QED
      BY <2>1, <2>2
  <1>3. CASE it.type = "likert" /\ r.raw > 0
    <2>1. \/ ValueToLabel(it, sc, r, lang) = {[str |-> LabelAt(it.labels, lang, r.raw)]}
          \/ ValueToLabel(it, sc, r, lang) = {[str |-> LabelAt(sc.labels, lang, r.raw)]}
          \/ ValueToLabel(it, sc, r, lang) = {[num |-> r.raw]}
          \/ ValueToLabel(it, sc, r, lang) = MapRawJSONToLang(it, r.json, lang)
      BY <1>3 DEF ValueToLabel
    <2>2. QED
      BY <1>2, <2>1
  <1>4. CASE ~(it.type = "likert" /\ r.raw > 0) /\ HasOptions(it) /\ ~IsNumber(r.json)
    BY <1>2, <1>4 DEF ValueToLabel
  <1>5. CASE ~(it.type = "likert" /\ r.raw > 0) /\ ~(HasOptions(it) /\ ~IsNumber(r.json))
    BY <1>5 DEF ValueToLabel
  <1>6. QED
    BY <1>3, <1>4, <1>5

(* A text is found where it is in its own language, and nowhere else.       *)
LEMMA TranslationIsOne ==
    ASSUME NEW table, \A l \in Lang : IsSequence(table[l]), Translated(table),
           NEW from \in Lang, NEW to \in Lang, NEW n \in DOMAIN table[from],
           NEW w, w = table[from][n]
    PROVE  Translations(table, to, w) = {table[to][n]}
  <1>1. \A l \in Lang : DOMAIN table[l] = 1..Len(table[from]) /\ Len(table[from]) \in Nat
    BY SequenceFacts DEF Translated
  <1>2. \A l \in Lang : \A k \in DOMAIN table[l] : table[l][k] = w => k = n
    BY <1>1 DEF Translated
  <1>3. n \in FindIndex(table, w)
    <2>1. n \in DOMAIN table[from] /\ n \in Nat
      BY <1>1
    <2>2. \A m \in 1..(n - 1) : table[from][m] # w
      <3> TAKE m \in 1..(n - 1)
      <3>1. m \in DOMAIN table[from] /\ m # n
        BY <1>1, <2>1
      <3>2. QED
        BY <1>2, <3>1
    <2>3. QED
      BY <2>1, <2>2 DEF FindIndex
  <1>4. \A k \in FindIndex(table, w) : k = n
    BY <1>2 DEF FindIndex
  <1>5. FindIndex(table, w) = {n}
    BY <1>3, <1>4
  <1>6. HasLabel(table, to, n) /\ LabelAt(table, to, n) = table[to][n]
    BY <1>1 DEF HasLabel, LabelAt
  <1>7. Translations(table, to, w) = UNION {{table[to][n]}}
    BY <1>5, <1>6 DEF Translations
  <1>8. QED
    BY <1>7

LEMMA OptionTranslated ==
    ASSUME NEW it, \A l \in Lang : IsSequence(it.options[l]), Translated(it.options),
           NEW from \in Lang, NEW to \in Lang,
           NEW n \in DOMAIN it.options[from], NEW w, w = it.options[from][n]
    PROVE  HasOptions(it) /\ Translations(it.options, to, w) = {it.options[to][n]}
  <1>1. PICK table : table = it.options
    OBVIOUS
  <1>2. Translations(table, to, w) = {table[to][n]}
    <2>1. /\ \A l \in Lang : IsSequence(table[l])
          /\ Translated(table)
          /\ n \in DOMAIN table[from]
          /\ w = table[from][n]
      BY <1>1
    <2>2. QED
      BY <2>1, TranslationIsOne
  <1>3. it.options[from] # <<>>
    OBVIOUS
  <1>4. QED
    BY <1>1, <1>2, <1>3 DEF HasOptions

Position(it, lang, w) == CHOOSE n \in DOMAIN it.options[lang] : it.options[lang][n] = w

LEMMA OptionSays ==
    ASSUME NEW it, \A l \in Lang : IsSequence(it.options[l]), Translated(it.options),
           NEW from \in Lang, NEW to \in Lang, NEW w \in ToSet(it.options[from])
    PROVE  /\ HasOptions(it)
           /\ Translations(it.options, to, w) = {it.options[to][Position(it, from, w)]}
  <1>1. PICK n \in DOMAIN it.options[from] : n = Position(it, from, w) /\ w = it.options[from][n]
    BY DEF ToSet, Position
  <1>2. HasOptions(it) /\ Translations(it.options, to, w) = {it.options[to][n]}
    <2>1. w = it.options[from][n]
      BY <1>1
    <2>2. QED
      BY <2>1, OptionTranslated
  <1>3. QED
    BY <1>1, <1>2

(* Without empty lists the labels shown are those of one's own language.    *)
LEMMA ShownIsOwn ==
    ASSUME NEW table, \A l \in Lang : IsSequence(table[l]), Translated(table), NEW lang \in Lang
    PROVE  Shown(table, lang) = table[lang]
  <1>1. English \in Lang
    BY ReportsAssumption DEF ReportsAssumption
  <1>2. \A l \in Lang : table[l] = <<>> <=> Len(table[l]) = 0
    BY SequenceFacts
  <1>3. table[lang] = <<>> => table[English] = <<>>
    BY <1>1, <1>2 DEF Translated
  <1>4. QED
    BY <1>3 DEF Shown

(* The shape of what is sent. *)
LEMMA NumberShape ==
    ASSUME NEW it, NEW sc, NEW lang, NEW raw \in Payloads(it, sc, lang),
           it.type \in {"likert", "rating"}
    PROVE  \E x : raw = [num |-> x]
  BY DEF Payloads

LEMMA TextShape ==
    ASSUME NEW it, NEW sc, NEW lang, NEW raw \in Payloads(it, sc, lang), it.type = "single"
    PROVE  \E w \in ToSet(Shown(it.options, lang)) : raw = [str |-> w]
  BY DEF Payloads

LEMMA TextsShape ==
    ASSUME NEW it, NEW sc, NEW lang, NEW raw \in Payloads(it, sc, lang), it.type = "multiple"
    PROVE  \E s : /\ raw = [arr |-> s] /\ s = [n \in DOMAIN s |-> s[n]]
                  /\ \A n \in DOMAIN s : s[n] \in ToSet(Shown(it.options, lang))
  <1>1. PICK W \in SUBSET ToSet(Shown(it.options, lang)) :
          \E s \in SetToSeqs(W) : raw = [arr |-> s]
    BY DEF Payloads
  <1>2. PICK s \in SetToSeqs(W) : raw = [arr |-> s]
    BY <1>1
  <1>3. s \in [1..Cardinality(W) -> W]
    BY <1>2 DEF SetToSeqs
  <1>4. /\ s = [n \in DOMAIN s |-> s[n]]
        /\ \A n \in DOMAIN s : s[n] \in ToSet(Shown(it.options, lang))
    BY <1>1, <1>3
  <1>5. QED
    BY <1>2, <1>4

(* What an answer is exported as says what was chosen. *)
Exports(p, i, r, lang) ==
    ValueToLabel(form[p].items[i], form[p].scale, r, lang) = {Meaning(p, i, lang)}

LEMMA LikertSays ==
    ASSUME NEW p \in Participant, NEW i \in Item, IsForm(form[p]), i \in DOMAIN form[p].answers,
           form[p].items[i].type = "likert",
           ButtonsScored(p, i), Translated(form[p].items[i].labels),
           Translated(form[p].scale.labels), NEW lang \in Lang,
           NEW r, r.json = form[p].answers[i], IsNumber(r.json) => r.raw = r.json.num
    PROVE  Exports(p, i, r, lang)
  <1>0. PICK it, sc, a, l : /\ it = form[p].items[i] /\ sc = form[p].scale
                            /\ a = form[p].answers[i] /\ l = form[p].lang
    OBVIOUS
  <1>1. /\ it \in ItemDefs /\ sc \in ScaleDefs /\ l \in Lang /\ English \in Lang
        /\ a \in Payloads(it, sc, l) /\ it.type = "likert"
    BY <1>0, ReportsAssumption DEF IsForm, ReportsAssumption
  <1>2. /\ \A x \in Lang : IsSequence(it.labels[x]) /\ IsSequence(sc.labels[x])
        /\ Translated(it.labels) /\ Translated(sc.labels)
    BY <1>0, <1>1, TextAssumption DEF TextAssumption
  <1>3. PICK N, M \in Nat :
          \A x \in Lang : /\ DOMAIN it.labels[x] = 1..N /\ (it.labels[x] = <<>> <=> N = 0)
                          /\ DOMAIN sc.labels[x] = 1..M /\ Len(it.labels[x]) = N
    <2>1. PICK N, M : N = Len(it.labels[lang]) /\ M = Len(sc.labels[lang])
      OBVIOUS
    <2>2. \A x \in Lang : Len(it.labels[x]) = N /\ Len(sc.labels[x]) = M
      BY <1>2, <2>1 DEF Translated
    <2>3. \A x \in Lang : /\ DOMAIN it.labels[x] = 1..N /\ N \in Nat
                           /\ (it.labels[x] = <<>> <=> N = 0)
      <3> TAKE x \in Lang
      <3>1. IsSequence(it.labels[x]) /\ Len(it.labels[x]) = N
        BY <1>2, <2>2
      <3>2. QED
        BY <3>1, SequenceFacts
    <2>4. \A x \in Lang : DOMAIN sc.labels[x] = 1..M /\ M \in Nat
      <3> TAKE x \in Lang
      <3>1. IsSequence(sc.labels[x]) /\ Len(sc.labels[x]) = M
        BY <1>2, <2>2
      <3>2. QED
        BY <3>1, SequenceFacts
    <2>5. QED
      BY <2>2, <2>3, <2>4
  <1>4. PICK x \in Nat \ {0} : a = [num |-> x] /\ x \in 1..Buttons(it, sc, l) /\ r.raw = x
    <2>1. IsNumber(a) /\ a.num \in 1..Buttons(it, sc, l) /\ Buttons(it, sc, l) \in Nat
      BY <1>1, PayloadNumber
    <2>2. \E x : a = [num |-> x]
      BY <1>1, NumberShape
    <2>3. r.raw = a.num
      BY <1>0, <2>1
    <2>4. QED
      BY <2>1, <2>2, <2>3
  <1>5. ValueToLabel(it, sc, r, lang) =
            IF HasLabel(it.labels, lang, x) THEN {[str |-> LabelAt(it.labels, lang, x)]}
            ELSE IF HasLabel(sc.labels, lang, x) THEN {[str |-> LabelAt(sc.labels, lang, x)]}
            ELSE {[num |-> x]}
    BY <1>0, <1>1, <1>4 DEF ValueToLabel, IsNumber
  <1>6. Meaning(p, i, lang) =
            IF it.labels[lang] # <<>> THEN [str |-> it.labels[lang][x]]
            ELSE IF x \in DOMAIN sc.labels[lang] THEN [str |-> sc.labels[lang][x]]
            ELSE a
    BY <1>0, <1>1, <1>4 DEF Meaning
  <1>7. CASE N # 0
    <2>1. it.labels[l] # <<>> /\ it.labels[lang] # <<>>
      BY <1>1, <1>3, <1>7
    <2>2. Buttons(it, sc, l) = N
      BY <1>1, <1>3, <2>1 DEF Buttons, Shown
    <2>3. HasLabel(it.labels, lang, x) /\ LabelAt(it.labels, lang, x) = it.labels[lang][x]
      BY <1>3, <1>4, <2>2 DEF HasLabel, LabelAt
    <2>4. QED
      BY <1>0, <1>5, <1>6, <2>1, <2>3 DEF Exports
  <1>8. CASE N = 0
    <2>1. ~HasLabel(it.labels, lang, x) /\ it.labels[lang] = <<>>
      BY <1>1, <1>3, <1>8 DEF HasLabel
    <2>2. /\ HasLabel(sc.labels, lang, x) <=> x \in DOMAIN sc.labels[lang]
          /\ x \in DOMAIN sc.labels[lang] => LabelAt(sc.labels, lang, x) = sc.labels[lang][x]
      BY <1>1, <1>3 DEF HasLabel, LabelAt
    <2>3. QED
      BY <1>0, <1>4, <1>5, <1>6, <2>1, <2>2 DEF Exports
  <1>9. QED
    BY <1>7, <1>8

LEMMA OthersSay ==
    ASSUME NEW p \in Participant, NEW i \in Item, IsForm(form[p]), i \in DOMAIN form[p].answers,
           form[p].items[i].type # "likert",
           Translated(form[p].items[i].options), NEW lang \in Lang,
           NEW r, r.json = form[p].answers[i], r.score = Worth(p, i),
           IsNumber(r.json) => r.raw = r.json.num
    PROVE  Exports(p, i, r, lang)
  <1>0. PICK it, sc, a, l : /\ it = form[p].items[i] /\ sc = form[p].scale
                            /\ a = form[p].answers[i] /\ l = form[p].lang
    OBVIOUS
  <1>1. /\ it \in ItemDefs /\ sc \in ScaleDefs /\ l \in Lang
        /\ a \in Payloads(it, sc, l) /\ it.type # "likert"
        /\ it.type \in {"rating", "single", "multiple"}
    BY <1>0, ReportsAssumption DEF IsForm, ReportsAssumption
  <1>2. /\ \A x \in Lang : IsSequence(it.options[x])
        /\ Translated(it.options) /\ Shown(it.options, l) = it.options[l]
    <2>1. /\ \A x \in Lang : IsSequence(it.options[x])
          /\ Translated(it.options)
      BY <1>0, <1>1, TextAssumption DEF TextAssumption
    <2>2. QED
      BY <1>1, <2>1, ShownIsOwn
  <1> DEFINE at(w) == CHOOSE n \in DOMAIN it.options[l] : it.options[l][n] = w
  <1>3. ASSUME NEW w \in ToSet(it.options[l])
        PROVE  /\ HasOptions(it)
               /\ Translations(it.options, lang, w) = {it.options[lang][at(w)]}
    <2>1. HasOptions(it) /\ Translations(it.options, lang, w) = {it.options[lang][Position(it, l, w)]}
      BY <1>1, <1>2, OptionSays
    <2>2. QED
      BY <2>1 DEF Position
  <1>4. CASE it.type = "rating"
    <2>0. PICK x : a = [num |-> x]
      BY <1>1, <1>4, NumberShape
    <2>1. IsNumber(a) /\ a = [num |-> a.num]
      BY <2>0 DEF IsNumber
    <2>2. r.raw = a.num /\ r.score = a.num
      BY <1>0, <1>4, <2>1 DEF Worth
    <2>3. ValueToLabel(it, sc, r, lang) = {[num |-> a.num]}
      BY <1>0, <1>4, <2>1, <2>2 DEF ValueToLabel
    <2>4. Meaning(p, i, lang) = a
      BY <1>0, <1>4 DEF Meaning
    <2>5. QED
      BY <1>0, <2>1, <2>3, <2>4 DEF Exports
  <1>5. CASE it.type = "single"
    <2>0. PICK w \in ToSet(it.options[l]) : a = [str |-> w]
      BY <1>1, <1>2, <1>5, TextShape
    <2>1. a = [str |-> a.str] /\ a.str = w
      BY <2>0
    <2>2. ~IsNumber(a) /\ "str" \in DOMAIN a
      BY <2>1 DEF IsNumber
    <2>3. ValueToLabel(it, sc, r, lang) = MapRawJSONToLang(it, a, lang)
      BY <1>0, <1>3, <1>5, <2>1, <2>2 DEF ValueToLabel
    <2>4. PICK v : v = it.options[lang][at(a.str)]
      OBVIOUS
    <2>5. Translations(it.options, lang, a.str) = {v}
      BY <1>3, <2>1, <2>4
    <2>6. MapRawJSONToLang(it, a, lang) = {[str |-> v]}
      BY <2>2, <2>5 DEF MapRawJSONToLang
    <2>7. Meaning(p, i, lang) = [str |-> v]
      BY <1>0, <1>5, <2>4 DEF Meaning
    <2>8. QED
      BY <1>0, <2>3, <2>6, <2>7 DEF Exports
  <1>6. CASE it.type = "multiple"
    <2>0. PICK s : /\ a = [arr |-> s] /\ s = [n \in DOMAIN s |-> s[n]]
                   /\ \A n \in DOMAIN s : s[n] \in ToSet(it.options[l])
      BY <1>1, <1>2, <1>6, TextsShape
    <2>1. a = [arr |-> a.arr] /\ a.arr = s
      BY <2>0
    <2>2. ~IsNumber(a) /\ "str" \notin DOMAIN a
      BY <2>1 DEF IsNumber
    <2>3. ValueToLabel(it, sc, r, lang) = IF HasOptions(it) THEN MapRawJSONToLang(it, a, lang) ELSE {a}
      BY <1>0, <1>6, <2>2 DEF ValueToLabel
    <2> DEFINE D == DOMAIN a.arr
               v == [n \in D |-> it.options[lang][at(a.arr[n])]]
               T(n) == Translations(it.options, lang, a.arr[n])
    <2>4. \A n \in D : T(n) = {v[n]}
      <3> TAKE n \in D
      <3>1. PICK w \in ToSet(it.options[l]) : w = a.arr[n]
        BY <2>0, <2>1
      <3>2. Translations(it.options, lang, w) = {it.options[lang][at(w)]}
        BY <1>3
      <3>3. v[n] = it.options[lang][at(w)]
        BY <3>1
      <3> HIDE DEF v, at
      <3>4. QED
        BY <3>1, <3>2, <3>3
    <2>5. MapRawJSONToLang(it, a, lang) =
            {[arr |-> t] : t \in {u \in [D -> UNION {T(n) : n \in D}] :
                                     \A n \in DOMAIN u : u[n] \in T(n)}}
      BY <2>2 DEF MapRawJSONToLang
    <2>6. {u \in [D -> UNION {T(n) : n \in D}] : \A n \in DOMAIN u : u[n] \in T(n)} = {v}
      <3>1. v = [n \in D |-> v[n]]
        OBVIOUS
      <3> HIDE DEF T, D, v
      <3>2. QED
        BY <2>4, <3>1
    <2>7. Meaning(p, i, lang) = [arr |-> v]
      BY <1>0, <1>6 DEF Meaning
    <2>8. PICK b : b = [arr |-> v] /\ Meaning(p, i, lang) = b
      BY <2>7
    <2>9. MapRawJSONToLang(it, a, lang) = {b}
      <3> HIDE DEF T, D, v
      <3>1. QED
        BY <2>5, <2>6, <2>8
    <2>10. HasOptions(it) \/ a = b
      <3>1. CASE D = {}
        <4>1. s = v
          <5>1. s = [n \in D |-> s[n]]
            BY <2>0, <2>1
          <5>2. QED
            BY <3>1, <5>1
        <4>2. QED
          BY <2>0, <2>8, <4>1
      <3>2. CASE D # {}
        BY <1>3, <2>0, <2>1, <3>2
      <3>3. QED
        BY <3>1, <3>2
    <2>11. ValueToLabel(it, sc, r, lang) = {b}
      BY <2>3, <2>9, <2>10
    <2>12. QED
      BY <1>0, <2>8, <2>11 DEF Exports
  <1>7. QED
    BY <1>1, <1>4, <1>5, <1>6

-----------------------------------------------------------------------------
(* Rows of a table *)

(* What there is a cell of, and what may be in it. *)
HasCell(f, r, items) == f.kind = "wide" \/ items[r.item] # NULL
Values(f, r, items, sc) ==
    IF f.kind = "wide" THEN {[num |-> r.score]}
    ELSE ValueToLabel(items[r.item], sc, r, f.value)

LEMMA ValuesExist ==
    ASSUME NEW f, NEW r, NEW items, NEW sc
    PROVE  Values(f, r, items, sc) # {}
  <1>1. ValueToLabel(items[r.item], sc, r, f.value) # {}
    BY ValueExists
  <1>2. QED
    BY <1>1 DEF Values

LEMMA CellsAre ==
    ASSUME NEW f, NEW rs, \A r \in rs : r.item \in Item, NEW items, NEW sc
    PROVE  RowCells(f, rs, items, sc) =
             UNION {{<<ColumnOf(items, f.header, r.item), Cell(r.item, v)>> :
                        v \in Values(f, r, items, sc)} : r \in {x \in rs : HasCell(f, x, items)}}
  <1> DEFINE H == Headers(items, f.header)
             C(r) == {<<ColumnOf(items, f.header, r.item), Cell(r.item, v)>> :
                        v \in Values(f, r, items, sc)}
  <1>1. \A i \in Item : i \in DOMAIN H <=> items[i] # NULL
    BY HeaderFacts
  <1>2. CASE f.kind = "wide"
    <2>1. RowCells(f, rs, items, sc) = NumericCells(rs, H)
      BY <1>2 DEF RowCells
    <2>2. \A r \in rs : /\ HasCell(f, r, items)
                        /\ C(r) = {<<IF r.item \in DOMAIN H THEN H[r.item] ELSE ItemId(r.item),
                                     Cell(r.item, [num |-> r.score])>>}
      BY <1>1, <1>2 DEF HasCell, Values, ColumnOf
    <2> DEFINE K(r) == <<IF r.item \in DOMAIN H THEN H[r.item] ELSE ItemId(r.item),
                         Cell(r.item, [num |-> r.score])>>
    <2>3. NumericCells(rs, H) = UNION {C(r) : r \in {x \in rs : HasCell(f, x, items)}}
      <3>1. NumericCells(rs, H) = {K(r) : r \in rs}
        BY DEF NumericCells
      <3>2. \A r \in rs : HasCell(f, r, items) /\ C(r) = {K(r)}
        BY <2>2
      <3> HIDE DEF C, K
      <3>3. QED
        BY <3>1, <3>2
    <2>4. QED
      BY <2>1, <2>3 DEF C
  <1>3. CASE f.kind # "wide"
    <2>1. RowCells(f, rs, items, sc) = LabelCells(rs, H, items, sc, f.value)
      BY <1>3 DEF RowCells
    <2>2. \A r \in rs : /\ HasCell(f, r, items) <=> r.item \in DOMAIN H
                        /\ r.item \in DOMAIN H =>
                              C(r) = {<<H[r.item], Cell(r.item, v)>> :
                                        v \in ValueToLabel(items[r.item], sc, r, f.value)}
      BY <1>1, <1>3 DEF HasCell, Values, ColumnOf
    <2> DEFINE K(r) == {<<H[r.item], Cell(r.item, v)>> :
                            v \in ValueToLabel(items[r.item], sc, r, f.value)}
    <2>3. LabelCells(rs, H, items, sc, f.value) =
            UNION {C(r) : r \in {x \in rs : HasCell(f, x, items)}}
      <3>1. LabelCells(rs, H, items, sc, f.value) =
              UNION {K(r) : r \in {x \in rs : x.item \in DOMAIN H}}
        BY DEF LabelCells
      <3>2. {x \in rs : x.item \in DOMAIN H} = {x \in rs : HasCell(f, x, items)}
        BY <2>2
      <3>3. \A r \in {x \in rs : HasCell(f, x, items)} : C(r) = K(r)
        BY <2>2
      <3> HIDE DEF C, K
      <3>4. QED
        BY <3>1, <3>2, <3>3
    <2>4. QED
      BY <2>1, <2>3 DEF C
  <1>4. QED
    BY <1>2, <1>3

(* A column of a row shows one of the responses. *)
Shows(f, rs, items, sc, row, h) ==
    \E r \in rs : \E v \in Values(f, r, items, sc) :
        /\ HasCell(f, r, items)
        /\ h = ColumnOf(items, f.header, r.item) /\ row[h] = Cell(r.item, v)

(* A row has a column for every response it can show, and no other.         *)
LEMMA RowFacts ==
    ASSUME NEW f, NEW rs, \A r \in rs : r.item \in Item, NEW items, NEW sc,
           NEW row \in RowsOf(RowCells(f, rs, items, sc))
    PROVE  /\ IsFiniteSet(DOMAIN row)
           /\ \A h \in DOMAIN row : Shows(f, rs, items, sc, row, h)
           /\ \A r \in rs : HasCell(f, r, items) =>
                 ColumnOf(items, f.header, r.item) \in DOMAIN row
  <1>0. PICK cells : cells = RowCells(f, rs, items, sc)
    OBVIOUS
  <1>1. /\ DOMAIN row = {c[1] : c \in cells}
        /\ \A h \in DOMAIN row : <<h, row[h]>> \in cells
    BY <1>0 DEF RowsOf
  <1>2. cells = UNION {{<<ColumnOf(items, f.header, r.item), Cell(r.item, v)>> :
                        v \in Values(f, r, items, sc)} : r \in {x \in rs : HasCell(f, x, items)}}
    BY <1>0, CellsAre
  <1>3. \A h \in DOMAIN row : \E r \in rs : \E v \in Values(f, r, items, sc) :
            /\ HasCell(f, r, items)
            /\ h = ColumnOf(items, f.header, r.item) /\ row[h] = Cell(r.item, v)
    <2> TAKE h \in DOMAIN row
    <2>1. PICK r \in rs : /\ HasCell(f, r, items)
                          /\ <<h, row[h]>> \in {<<ColumnOf(items, f.header, r.item), Cell(r.item, v)>> :
                                                  v \in Values(f, r, items, sc)}
      BY <1>1, <1>2
    <2>2. QED
      BY <2>1
  <1>4. \A r \in rs : HasCell(f, r, items) => ColumnOf(items, f.header, r.item) \in DOMAIN row
    <2> TAKE r \in rs
    <2> HAVE HasCell(f, r, items)
    <2>1. PICK v : v \in Values(f, r, items, sc)
      BY ValuesExist
    <2>2. <<ColumnOf(items, f.header, r.item), Cell(r.item, v)>> \in cells
      BY <1>2, <2>1
    <2>3. QED
      BY <1>1, <2>2
  <1>5. IsFiniteSet(DOMAIN row)
    <2> DEFINE g == [i \in Item |-> ColumnOf(items, f.header, i)]
               all == {g[i] : i \in Item}
    <2>1. DOMAIN row \subseteq all
      BY <1>3
    <2>2. IsFiniteSet(all)
      <3>1. IsFiniteSet(Item)
        BY TextAssumption DEF TextAssumption
      <3>2. g \in Surjection(Item, all)
        BY DEF Surjection
      <3> HIDE DEF g, all
      <3>3. QED
        BY <3>1, <3>2, FS_Surjection
    <2>3. QED
      BY <2>1, <2>2, FS_Subset
  <1>6. QED
    BY <1>3, <1>4, <1>5 DEF Shows

(* Where stems are plain and items have one response, its cell is its own.  *)
LEMMA CellOfResponse ==
    ASSUME NEW f, NEW rs, \A r \in rs : r.item \in Item,
           \A r, s \in rs : r.item = s.item => r = s,
           NEW items \in [Item -> ItemDefs \cup {NULL}], NEW sc,
           f.header \in Lang, PlainStems(items, f.header),
           NEW row \in RowsOf(RowCells(f, rs, items, sc)),
           NEW r \in rs, HasCell(f, r, items)
    PROVE  /\ ColumnOf(items, f.header, r.item) \in DOMAIN row
           /\ \E v \in Values(f, r, items, sc) :
                 row[ColumnOf(items, f.header, r.item)] = Cell(r.item, v)
  <1>1. PICK h : h = ColumnOf(items, f.header, r.item) /\ h \in DOMAIN row
    BY RowFacts
  <1>2. PICK s \in rs : \E v \in Values(f, s, items, sc) :
            h = ColumnOf(items, f.header, s.item) /\ row[h] = Cell(s.item, v)
    BY <1>1, RowFacts DEF Shows
  <1>3. s.item = r.item
    BY <1>1, <1>2, ColumnsDiffer
  <1>4. s = r
    BY <1>3
  <1>5. QED
    BY <1>1, <1>2, <1>4

-----------------------------------------------------------------------------
(* Columns of a finished table *)

(* The column of an item, or of a consent option. *)
NameOf(x) ==
    IF x \in Key THEN LabelOf(report.consentScale, x, report.fmt.consent)
    ELSE ColumnOf(report.items, report.fmt.header, x)

(* What a report knows when its table is made. *)
Prepared ==
    /\ report.fmt \in Formats
    /\ report.items \in [Item -> ItemDefs \cup {NULL}]
    /\ report.scale \in ScaleDefs /\ report.consentScale \in ScaleDefs
    /\ \A r \in report.rs : r.item \in Item /\ r.pid \in Participant
    /\ \A r, s \in report.rs : r.pid = s.pid /\ r.item = s.item => r = s
    /\ \A p \in Pids(report.rs) : DOMAIN form[p].consent \subseteq Key

LEMMA PlainLabels ==
    ASSUME PlainNames, Prepared
    PROVE  /\ PlainStems(report.items, report.fmt.header)
           /\ report.fmt.header \in Lang /\ report.fmt.value \in Lang
           /\ report.fmt.consent \in Lang \cup {NULL}
           /\ \A k, j \in Key : NameOf(k) = NameOf(j) => k = j
           /\ \A k \in Key, i \in Item : NameOf(k) # ColumnOf(report.items, report.fmt.header, i)
           /\ \A k \in Key : NameOf(k) = LabelOf(report.consentScale, k, report.fmt.consent)
           /\ \A i \in Item : NameOf(i) = ColumnOf(report.items, report.fmt.header, i)
  <1>1. /\ report.fmt.header \in Lang /\ report.fmt.value \in Lang
        /\ report.fmt.consent \in Lang \cup {NULL}
    BY TextAssumption DEF TextAssumption, Prepared
  <1>2. PlainStems(report.items, report.fmt.header)
    BY DEF PlainStems, PlainNames, PlainHeaders
  <1>3. \A k \in Key : NameOf(k) = LabelOf(report.consentScale, k, report.fmt.consent)
    BY DEF NameOf
  <1>4. \A i \in Item : NameOf(i) = ColumnOf(report.items, report.fmt.header, i)
    BY TextAssumption DEF NameOf, TextAssumption
  <1>5. \A k, j \in Key : NameOf(k) = NameOf(j) => k = j
    BY <1>3 DEF PlainNames, LabelOf
  <1>6. ASSUME NEW k \in Key, NEW i \in Item
        PROVE  NameOf(k) # ColumnOf(report.items, report.fmt.header, i)
    <2>1. PICK label : label = NameOf(k)
      OBVIOUS
    <2>2. IsSequence(label)
      <3>1. PICK row : row = <<>> /\ IsFiniteSet(DOMAIN row)
        BY FS_EmptySet
      <3>2. report.consentScale \in ScaleDefs
        BY DEF Prepared
      <3>3. IsSequence(LabelOf(report.consentScale, k, report.fmt.consent))
        BY <1>1, <3>1, <3>2, LabelFacts
      <3>4. QED
        BY <1>3, <2>1, <3>3
    <2>3. /\ Plain(label) \/ label = <<"consent", k>>
          /\ report.items[i] # NULL =>
                label # BaseName(report.items[i], i, report.fmt.header)
      BY <1>3, <2>1 DEF PlainNames, LabelOf
    <2>4. report.items \in [Item -> ItemDefs \cup {NULL}]
      BY DEF Prepared
    <2>5. ColumnOf(report.items, report.fmt.header, i) # <<"consent", k>>
      BY <1>1, <1>2, <2>4, ColumnsApart
    <2>6. Plain(label) => ColumnOf(report.items, report.fmt.header, i) # label
      <3>1. PICK items, lang : items = report.items /\ lang = report.fmt.header
        OBVIOUS
      <3>2. \A x : /\ IsSequence(x) /\ Plain(x)
                   /\ items[i] # NULL => x # BaseName(items[i], i, lang)
                   => ColumnOf(items, lang, i) # x
        <4>1. items \in [Item -> ItemDefs \cup {NULL}] /\ lang \in Lang /\ PlainStems(items, lang)
          BY <1>1, <1>2, <2>4, <3>1
        <4>2. QED
          BY <4>1, ColumnsApart
      <3>3. QED
        BY <2>2, <2>3, <3>1, <3>2
    <2>7. QED
      BY <2>1, <2>3, <2>5, <2>6
  <1>7. QED
    BY <1>1, <1>2, <1>3, <1>4, <1>5, <1>6

LEMMA MergedRow ==
    ASSUME PlainNames, Prepared, NEW p \in Pids(report.rs), NEW new \in Merged(p)
    PROVE  /\ \A h \in DOMAIN new : new[h].src \in Item \cup Key /\ h = NameOf(new[h].src)
           /\ \A r \in Of(report.rs, p) : HasCell(report.fmt, r, report.items) =>
                 /\ NameOf(r.item) \in DOMAIN new
                 /\ \E v \in Values(report.fmt, r, report.items, report.scale) :
                       new[NameOf(r.item)] = Cell(r.item, v)
           /\ \A k \in DOMAIN form[p].consent :
                 NameOf(k) \in DOMAIN new /\ new[NameOf(k)].src = k
  <1>0. PICK f, rs, items, sc, csc, c :
          /\ f = report.fmt /\ rs = Of(report.rs, p) /\ items = report.items
          /\ sc = report.scale /\ csc = report.consentScale /\ c = form[p].consent
    OBVIOUS
  <1>1. /\ items \in [Item -> ItemDefs \cup {NULL}] /\ csc \in ScaleDefs
        /\ f.header \in Lang /\ f.consent \in Lang \cup {NULL}
        /\ PlainStems(items, f.header)
        /\ \A r \in rs : r.item \in Item
        /\ \A r, s \in rs : r.item = s.item => r = s
        /\ DOMAIN c \subseteq Key
    BY <1>0, PlainLabels DEF Prepared, Of
  <1>2. PICK row, ks : /\ row \in RowsOf(RowCells(f, rs, items, sc))
                       /\ ks \in SetToSeqs(DOMAIN c)
                       /\ new = MergeConsent(row, c, ks, csc, f.consent)
    BY <1>0 DEF Merged, Rows
  <1>3. /\ \A k, j \in Key : NameOf(k) = NameOf(j) => k = j
        /\ \A k \in Key, i \in Item : NameOf(k) # ColumnOf(items, f.header, i)
        /\ \A k \in Key : NameOf(k) = LabelOf(csc, k, f.consent)
        /\ \A i \in Item : NameOf(i) = ColumnOf(items, f.header, i)
    BY <1>0, PlainLabels
  <1>4. /\ IsFiniteSet(DOMAIN row)
        /\ \A h \in DOMAIN row : Shows(f, rs, items, sc, row, h)
    <2>1. \A r \in rs : r.item \in Item
      BY <1>1
    <2>2. row \in RowsOf(RowCells(f, rs, items, sc))
      BY <1>2
    <2>3. QED
      BY <2>1, <2>2, RowFacts
  <1>5. \A k \in Key : LabelOf(csc, k, f.consent) \notin DOMAIN row
    BY <1>1, <1>3, <1>4 DEF Shows
  <1>6. IsFiniteSet(DOMAIN c)
    BY <1>1, TextAssumption, FS_Subset DEF TextAssumption
  <1>7. /\ Len(ks) \in Nat /\ \A n \in 1..Len(ks) : ks[n] \in DOMAIN c
        /\ \A m, n \in 1..Len(ks) : ks[m] = ks[n] => m = n
        /\ \A k \in DOMAIN c : \E n \in 1..Len(ks) : ks[n] = k
    BY <1>2, <1>6, OrderFacts
  <1>8. /\ DOMAIN new = DOMAIN row \cup {LabelOf(csc, ks[m], f.consent) : m \in 1..Len(ks)}
        /\ \A h \in DOMAIN row : new[h] = row[h]
        /\ \A m \in 1..Len(ks) : new[LabelOf(csc, ks[m], f.consent)] =
              Cell(ks[m], [num |-> IF c[ks[m]] THEN 1 ELSE 0])
    <2>0. PICK lang \in Lang \cup {NULL} : lang = f.consent
      BY <1>1
    <2>1. /\ Len(ks) \in Nat /\ \A n \in 1..Len(ks) : ks[n] \in Key
          /\ \A m, n \in 1..Len(ks) : ks[m] = ks[n] => m = n
      BY <1>1, <1>7
    <2>2. /\ \A j, k \in Key : LabelOf(csc, j, lang) = LabelOf(csc, k, lang) => j = k
          /\ \A k \in Key : LabelOf(csc, k, lang) \notin DOMAIN row
      BY <1>3, <1>5, <2>0
    <2>3. /\ new = MergeConsent(row, c, ks, csc, lang)
          /\ csc \in ScaleDefs /\ IsFiniteSet(DOMAIN row)
      BY <1>1, <1>2, <1>4, <2>0
    <2>4. HasChoices(new, row, c, ks, csc, lang)
      BY <2>1, <2>2, <2>3, ChoicesMerged
    <2>5. QED
      BY <2>0, <2>4 DEF HasChoices
  <1>9. \A m \in 1..Len(ks) : new[LabelOf(csc, ks[m], f.consent)].src = ks[m]
    <2> TAKE m \in 1..Len(ks)
    <2>1. PICK x : new[LabelOf(csc, ks[m], f.consent)] = Cell(ks[m], x)
      BY <1>8
    <2>2. QED
      BY <2>1 DEF Cell
  <1>10. \A h \in DOMAIN new : new[h].src \in Item \cup Key /\ h = NameOf(new[h].src)
    <2> TAKE h \in DOMAIN new
    <2>1. CASE h \in DOMAIN row
      <3>1. PICK r \in rs : \E v : h = ColumnOf(items, f.header, r.item) /\ row[h] = Cell(r.item, v)
        BY <1>4, <2>1 DEF Shows
      <3>2. new[h].src = r.item /\ r.item \in Item
        BY <1>1, <1>8, <2>1, <3>1 DEF Cell
      <3>3. QED
        BY <1>3, <3>1, <3>2
    <2>2. CASE h \notin DOMAIN row
      <3>1. PICK m \in 1..Len(ks) : h = LabelOf(csc, ks[m], f.consent)
        BY <1>8, <2>2
      <3>2. new[h].src = ks[m] /\ ks[m] \in Key
        BY <1>1, <1>7, <1>9, <3>1
      <3>3. QED
        BY <1>3, <3>1, <3>2
    <2>3. QED
      BY <2>1, <2>2
  <1>11. ASSUME NEW r \in rs, HasCell(f, r, items)
         PROVE  /\ NameOf(r.item) \in DOMAIN new
                /\ \E v \in Values(f, r, items, sc) : new[NameOf(r.item)] = Cell(r.item, v)
    <2>1. PICK h : h = NameOf(r.item) /\ h = ColumnOf(items, f.header, r.item)
      BY <1>1, <1>3
    <2>2. h \in DOMAIN row /\ \E v \in Values(f, r, items, sc) : row[h] = Cell(r.item, v)
      BY <1>1, <1>2, <1>11, <2>1, CellOfResponse
    <2>3. QED
      BY <1>8, <2>1, <2>2
  <1>12. ASSUME NEW k \in DOMAIN c
         PROVE  NameOf(k) \in DOMAIN new /\ new[NameOf(k)].src = k
    <2>1. PICK m \in 1..Len(ks) : ks[m] = k
      BY <1>7
    <2>2. PICK h : h = NameOf(k) /\ h = LabelOf(csc, ks[m], f.consent)
      BY <1>1, <1>3, <2>1
    <2>3. new[h].src = k /\ h \in DOMAIN new
      BY <1>8, <1>9, <2>1, <2>2
    <2>4. QED
      BY <2>2, <2>3
  <1>13. QED
    BY <1>0, <1>10, <1>11, <1>12

LEMMA NamesDiffer ==
    ASSUME PlainNames, Prepared, NEW x \in Item \cup Key, NEW y \in Item \cup Key,
           NameOf(x) = NameOf(y)
    PROVE  x = y
  <1>1. report.items \in [Item -> ItemDefs \cup {NULL}]
    BY DEF Prepared
  <1>2. CASE x \in Item /\ y \in Item
    <2>1. ColumnOf(report.items, report.fmt.header, x) = ColumnOf(report.items, report.fmt.header, y)
      BY <1>2, PlainLabels
    <2>2. report.fmt.header \in Lang /\ PlainStems(report.items, report.fmt.header)
      BY PlainLabels
    <2>3. QED
      BY <1>1, <1>2, <2>1, <2>2, ColumnsDiffer
  <1>3. CASE x \in Key \/ y \in Key
    BY <1>3, PlainLabels
  <1>4. QED
    BY <1>2, <1>3

(* The row of a participant who is in the table, and the row it would be.   *)
FinalRow(p) == IF p \in DOMAIN report.table THEN report.table[p] ELSE <<>>

LEMMA OneSource ==
    ASSUME Prepared, Tabulated
    PROVE  ColumnsOneSource
  <1>1. SUFFICES ASSUME Finished({"wide", "label"}), PlainNames,
                        NEW p \in DOMAIN report.table, NEW q \in DOMAIN report.table,
                        NEW h \in DOMAIN report.table[p] \cap DOMAIN report.table[q]
                 PROVE  report.table[p][h].src = report.table[q][h].src
    BY DEF ColumnsOneSource
  <1>2. /\ p \in Pids(report.rs) /\ report.table[p] \in Merged(p)
        /\ q \in Pids(report.rs) /\ report.table[q] \in Merged(q)
    BY <1>1 DEF Tabulated
  <1>3. PICK s, t : s = report.table[p] /\ t = report.table[q]
    OBVIOUS
  <1>4. s[h].src \in Item \cup Key /\ h = NameOf(s[h].src)
    BY <1>1, <1>2, <1>3, MergedRow
  <1>5. t[h].src \in Item \cup Key /\ h = NameOf(t[h].src)
    BY <1>1, <1>2, <1>3, MergedRow
  <1>6. PICK x, y : x = s[h].src /\ y = t[h].src
    OBVIOUS
  <1>7. x = y
    BY <1>1, <1>4, <1>5, <1>6, NamesDiffer
  <1>8. QED
    BY <1>3, <1>6, <1>7

LEMMA NoneLost ==
    ASSUME Prepared, Tabulated
    PROVE  NothingLost
  <1>1. SUFFICES ASSUME Finished({"wide", "label"}), PlainNames, NEW p \in Pids(report.rs)
                 PROVE  LET row == IF p \in DOMAIN report.table THEN report.table[p] ELSE <<>>
                            cells(x) == {h \in DOMAIN row : row[h].src = x}
                        IN  /\ \A r \in Of(report.rs, p) :
                                  report.fmt.kind = "wide" \/ report.items[r.item] # NULL =>
                                      /\ Cardinality(cells(r.item)) = 1
                                      /\ report.fmt.kind = "wide" =>
                                            \A h \in cells(r.item) : row[h].val = [num |-> r.score]
                            /\ \A k \in DOMAIN form[p].consent : Cardinality(cells(k)) = 1
    BY DEF NothingLost
  <1>2. PICK row : row = FinalRow(p) /\ row \in Merged(p)
    BY <1>1 DEF Tabulated, FinalRow
  <1> DEFINE cells(x) == {h \in DOMAIN row : row[h].src = x}
  <1>3. ASSUME NEW x \in Item \cup Key, NameOf(x) \in DOMAIN row, row[NameOf(x)].src = x
        PROVE  cells(x) = {NameOf(x)} /\ Cardinality(cells(x)) = 1
    <2>1. \A h \in DOMAIN row : row[h].src \in Item \cup Key /\ h = NameOf(row[h].src)
      BY <1>1, <1>2, MergedRow
    <2>2. cells(x) = {NameOf(x)}
      BY <1>3, <2>1
    <2>3. QED
      BY <2>2, FS_Singleton
  <1>4. ASSUME NEW r \in Of(report.rs, p), HasCell(report.fmt, r, report.items)
        PROVE  /\ Cardinality(cells(r.item)) = 1
               /\ report.fmt.kind = "wide" =>
                     \A h \in cells(r.item) : row[h].val = [num |-> r.score]
    <2>1. PICK n : /\ n = NameOf(r.item) /\ n \in DOMAIN row
                   /\ \E v \in Values(report.fmt, r, report.items, report.scale) :
                         row[n] = Cell(r.item, v)
      BY <1>1, <1>2, <1>4, MergedRow
    <2>2. row[n].src = r.item /\ row[n].val \in Values(report.fmt, r, report.items, report.scale)
      BY <2>1 DEF Cell
    <2>3. r.item \in Item
      BY <1>4 DEF Of, Prepared
    <2>4. cells(r.item) = {n} /\ Cardinality(cells(r.item)) = 1
      BY <1>3, <2>1, <2>2, <2>3
    <2>5. report.fmt.kind = "wide" => row[n].val = [num |-> r.score]
      BY <2>2 DEF Values
    <2>6. QED
      BY <2>4, <2>5
  <1>5. ASSUME NEW k \in DOMAIN form[p].consent
        PROVE  Cardinality(cells(k)) = 1
    <2>1. NameOf(k) \in DOMAIN row /\ row[NameOf(k)].src = k
      BY <1>1, <1>2, MergedRow
    <2>2. k \in Key
      BY <1>1 DEF Prepared
    <2>3. QED
      BY <1>3, <2>1, <2>2
  <1>6. QED
    BY <1>2, <1>4, <1>5 DEF HasCell, FinalRow

(* The column of an item never looks like one of a consent option. *)
LEMMA ColumnNotConsent ==
    ASSUME NEW items \in [Item -> ItemDefs \cup {NULL}], NEW lang \in Lang,
           PlainStems(items, lang), NEW i \in Item
    PROVE  ColumnOf(items, lang, i)[1] # "consent"
  <1> DEFINE base == BaseName(items[i], i, lang)
             col == ColumnOf(items, lang, i)
             n == Cardinality(Alike(items, lang, i))
  <1>1. CASE col = ItemId(i)
    BY <1>1 DEF ItemId
  <1>2. CASE /\ items[i] # NULL /\ IsSequence(base) /\ Plain(base)
             /\ n \in Nat \ {0} /\ col = IF n = 1 THEN base ELSE <<base[1], n>>
    <2>1. base[1] \notin {"item", "consent"}
      BY <1>2, PlainFacts
    <2>2. PICK b : b = base[1]
      OBVIOUS
    <2>3. <<b, n>>[1] = b
      OBVIOUS
    <2>4. QED
      BY <1>2, <2>1, <2>2, <2>3
  <1>3. QED
    BY <1>1, <1>2, ColumnShape

LEMMA ReportPrepared ==
    ASSUME Scores, Tables, report # NULL, report.phase \in {"consents", "done"}
    PROVE  Prepared
  <1>1. ReportOK /\ Seen /\ OneRow
    BY DEF Scores, Tables
  <1>2. /\ report.fmt \in Formats
        /\ report.items \in [Item -> ItemDefs \cup {NULL}]
        /\ report.scale \in ScaleDefs /\ report.consentScale \in ScaleDefs
        /\ \A r, s \in report.rs : r.pid = s.pid /\ r.item = s.item => r = s
    BY <1>1 DEF Seen
  <1>3. ASSUME NEW r \in report.rs
        PROVE  /\ r.item \in Item /\ r.pid \in Participant
               /\ DOMAIN form[r.pid].consent \subseteq Key
    <2>1. /\ r.pid \in Participant /\ form[r.pid] # NoForm
          /\ r.item \in DOMAIN form[r.pid].answers
      BY <1>1, <1>3 DEF ReportOK, IsRow
    <2>2. IsForm(form[r.pid])
      BY <2>1 DEF Scores
    <2>3. r.item \in Item
      BY <2>1, <2>2 DEF IsForm
    <2>4. DOMAIN form[r.pid].consent \subseteq Key
      BY <1>1, <2>1 DEF OneRow
    <2>5. QED
      BY <2>1, <2>3, <2>4
  <1>4. QED
    BY <1>2, <1>3 DEF Prepared, Pids

LEMMA LabelsSay ==
    ASSUME Scores, Tables
    PROVE  LabelIsChosen
  <1>1. SUFFICES ASSUME Finished({"label"}), PlainHeaders,
                        NEW p \in DOMAIN report.table, NEW i \in Answered(p),
                        Unchanged(p, i), ButtonsScored(p, i),
                        Translated(form[p].items[i].options), Translated(form[p].items[i].labels),
                        Translated(form[p].scale.labels)
                 PROVE  \E h \in DOMAIN report.table[p] :
                          report.table[p][h] = Cell(i, Meaning(p, i, report.fmt.value))
    BY DEF LabelIsChosen
  <1>2. /\ report # NULL /\ report.phase = "done" /\ report.fmt.kind = "label"
        /\ Finished({"wide", "label"})
    BY <1>1 DEF Finished
  <1>3. /\ Prepared /\ ReportOK /\ Seen /\ Tabulated
        /\ PlainStems(report.items, report.fmt.header)
    BY <1>1, <1>2, ReportPrepared DEF Scores, Tables, PlainStems, PlainHeaders
  <1>4. PICK r \in Of(report.rs, p) : r.item = i
    BY <1>1 DEF Answered
  <1>5. r \in report.rs /\ r.pid = p /\ p \in Pids(report.rs) /\ p \in Participant /\ i \in Item
    BY <1>3, <1>4 DEF Of, Pids, Prepared
  <1>6. IsRow(r, report.edits)
    BY <1>3, <1>5 DEF ReportOK
  <1>7. IsForm(form[p]) /\ i \in DOMAIN form[p].answers /\ r.json = form[p].answers[i]
    BY <1>4, <1>5, <1>6 DEF IsRow, Scores
  <1>8. /\ r.score = Worth(p, i)
        /\ IsNumber(r.json) => r.raw = r.json.num
    <2>1. form[p].edits[i] = report.edits[i] /\ form[p].edits[NULL] = report.edits[NULL]
      BY <1>1 DEF Unchanged
    <2>2. QED
      BY <1>1, <1>4, <1>5, <1>6, <2>1 DEF IsRow
  <1>9. /\ form[p].items[i] = report.items[i] /\ form[p].scale = report.scale
        /\ report.items[i] # NULL
    <2>1. form[p].items[i] = report.items[i] /\ form[p].scale = report.scale
      BY <1>1, <1>2, <1>3, <1>5 DEF Seen
    <2>2. form[p].items[i] \in ItemDefs
      BY <1>7 DEF IsForm
    <2>3. QED
      BY <2>1, <2>2, TextAssumption DEF TextAssumption
  <1>10. report.fmt.value \in Lang /\ report.fmt.header \in Lang
         /\ report.fmt.consent \in Lang \cup {NULL}
    BY <1>3, TextAssumption DEF TextAssumption, Prepared
  <1>11. Exports(p, i, r, report.fmt.value)
    <2>1. CASE form[p].items[i].type = "likert"
      <3>1. ASSUME NEW lang \in Lang PROVE Exports(p, i, r, lang)
        BY <1>1, <1>5, <1>7, <1>8, <2>1, LikertSays
      <3>2. QED
        BY <1>10, <3>1
    <2>2. CASE form[p].items[i].type # "likert"
      <3>1. ASSUME NEW lang \in Lang PROVE Exports(p, i, r, lang)
        BY <1>1, <1>5, <1>7, <1>8, <2>2, OthersSay
      <3>2. QED
        BY <1>10, <3>1
    <2>3. QED
      BY <2>1, <2>2
  <1>12. PICK m : /\ m = Meaning(p, i, report.fmt.value)
                  /\ Values(report.fmt, r, report.items, report.scale) = {m}
    BY <1>2, <1>4, <1>9, <1>11 DEF Exports, Values
  <1>13. report.table[p] \in Merged(p)
    BY <1>1, <1>2, <1>3, <1>5 DEF Tabulated
  <1>14. PICK row, ks : /\ row \in Rows(p) /\ ks \in SetToSeqs(DOMAIN form[p].consent)
                        /\ report.table[p] = MergeConsent(row, form[p].consent, ks,
                                                report.consentScale, report.fmt.consent)
    BY <1>13 DEF Merged
  <1>15. PICK h : h = ColumnOf(report.items, report.fmt.header, i)
    OBVIOUS
  <1>16. Holds(row, h, Cell(i, m))
    <2>1. PICK f, rs, items, sc : /\ f = report.fmt /\ rs = Of(report.rs, p)
                                  /\ items = report.items /\ sc = report.scale
      OBVIOUS
    <2>2. row \in RowsOf(RowCells(f, rs, items, sc))
      BY <1>14, <2>1 DEF Rows
    <2>3. /\ \A x \in rs : x.item \in Item
          /\ \A x, y \in rs : x.item = y.item => x = y
          /\ items \in [Item -> ItemDefs \cup {NULL}]
          /\ f.header \in Lang /\ PlainStems(items, f.header)
          /\ r \in rs
      BY <1>3, <1>4, <1>10, <2>1 DEF Prepared, Of
    <2>4. HasCell(f, r, items)
      BY <1>4, <1>9, <2>1 DEF HasCell
    <2>5. /\ ColumnOf(items, f.header, r.item) \in DOMAIN row
          /\ \E v \in Values(f, r, items, sc) :
                row[ColumnOf(items, f.header, r.item)] = Cell(r.item, v)
      BY <2>2, <2>3, <2>4, CellOfResponse
    <2>6. IsFiniteSet(DOMAIN row)
      BY <2>2, <2>3, RowFacts
    <2>7. h \in DOMAIN row /\ row[h] = Cell(i, m)
      BY <1>4, <1>12, <1>15, <2>1, <2>5
    <2>8. QED
      BY <2>6, <2>7 DEF Holds
  <1>17. h[1] # "consent"
    BY <1>3, <1>5, <1>10, <1>15, ColumnNotConsent DEF Prepared
  <1>18. Len(ks) \in Nat /\ \A n \in 1..Len(ks) : ks[n] \in Key
    <2>1. DOMAIN form[p].consent \subseteq Key
      BY <1>3, <1>5 DEF Prepared
    <2>2. IsFiniteSet(DOMAIN form[p].consent)
      BY <2>1, TextAssumption, FS_Subset DEF TextAssumption
    <2>3. QED
      BY <1>14, <2>1, <2>2, OrderFacts
  <1>19. Holds(report.table[p], h, Cell(i, m))
    <2>1. PICK csc, lang, c, x : /\ csc = report.consentScale /\ lang = report.fmt.consent
                                 /\ c = form[p].consent /\ x = Cell(i, m)
      OBVIOUS
    <2>2. csc \in ScaleDefs /\ lang \in Lang \cup {NULL}
      BY <1>3, <1>10, <2>1 DEF Prepared
    <2>3. Holds(row, h, x)
      BY <1>16, <2>1
    <2>4. Holds(MergeConsent(row, c, ks, csc, lang), h, x)
      BY <1>17, <1>18, <2>2, <2>3, ColumnsKept
    <2>5. QED
      BY <1>14, <2>1, <2>4
  <1>20. QED
    BY <1>12, <1>19 DEF Holds

-----------------------------------------------------------------------------
(* Why the tables stay right *)

(* The rows of p that there are, stored or not. *)
RowsSoFar(f, rs, p) == f.built \cup Of(rs, p)

OnceEach(f, rs) ==
    /\ DOMAIN f.consent \subseteq Key
    /\ \A r, s \in rs : r.item \notin f.todo /\ (r.item = s.item => r = s)

(* Rows are of forms that were sent: there are none of any other.           *)
LEMMA NoRowsYet ==
    ASSUME Scores, NEW p \in Participant, form[p] = NoForm \/ form[p].phase = "open"
    PROVE  Of(response, p) = {}
  <1>1. \A r \in response : form[r.pid] # NoForm /\ form[r.pid].phase = "scoring"
    BY DEF Scores, IsRow
  <1>2. QED
    BY <1>1 DEF Of

(* A step of the form of p. *)
LEMMA OneRowOfForm ==
    ASSUME Scores, OneRow, NEW p \in Participant, NEW g, form' = [form EXCEPT ![p] = g],
           \A q \in Participant : q # p => Of(response', q) \subseteq Of(response, q),
           OnceEach(g, RowsSoFar(g, response', p))
    PROVE  OneRow'
  <1>1. /\ form'[p] = g /\ \A q \in Participant : q # p => form'[q] = form[q]
    BY DEF Scores
  <1>2. ASSUME NEW q \in Participant, form'[q] # NoForm
        PROVE  OnceEach(form'[q], RowsSoFar(form'[q], response', q))
    <2>1. CASE q = p
      BY <1>1, <2>1
    <2>2. CASE q # p
      <3>1. PICK f : f = form[q] /\ f = form'[q] /\ f # NoForm
        BY <1>1, <1>2, <2>2
      <3>2. OnceEach(f, RowsSoFar(f, response, q))
        BY <3>1 DEF OneRow, OnceEach, RowsSoFar
      <3>3. RowsSoFar(f, response', q) \subseteq RowsSoFar(f, response, q)
        BY <2>2 DEF RowsSoFar
      <3>4. OnceEach(f, RowsSoFar(f, response', q))
        BY <3>2, <3>3 DEF OnceEach
      <3>5. QED
        BY <3>1, <3>4
    <2>3. QED
      BY <2>1, <2>2
  <1>3. QED
    BY <1>2 DEF OneRow, OnceEach, RowsSoFar, Of

LEMMA FormOnce ==
    ASSUME OneRow, NEW p \in Participant, form[p].phase \in {"open", "scoring"}
    PROVE  OnceEach(form[p], RowsSoFar(form[p], response, p))
  <1>1. form[p] # NoForm
    BY DEF NoForm
  <1>2. QED
    BY <1>1 DEF OneRow, OnceEach, RowsSoFar

LEMMA OpenOnce ==
    ASSUME Scores, OneRow, NEW p \in Participant, Open(p)
    PROVE  OneRow'
  <1>1. PICK l \in Reads[p], c \in Signs[p] :
          form' = [form EXCEPT ![p] = [phase |-> "open", lang |-> l, items |-> item,
                                      scale |-> scale, consent |-> c, answers |-> <<>>,
                                      points |-> 0, todo |-> {}, built |-> {},
                                      edits |-> edits]]
    BY DEF Open
  <1>2. PICK g : g = [phase |-> "open", lang |-> l, items |-> item,
                      scale |-> scale, consent |-> c, answers |-> <<>>,
                      points |-> 0, todo |-> {}, built |-> {}, edits |-> edits]
    OBVIOUS
  <1>3. g.consent = c /\ g.todo = {} /\ g.built = {}
    BY <1>2
  <1>4. response' = response /\ form[p] = NoForm
    BY DEF Open
  <1>5. DOMAIN c \subseteq Key
    BY TextAssumption DEF TextAssumption
  <1>6. RowsSoFar(g, response', p) = {}
    BY <1>3, <1>4, NoRowsYet DEF RowsSoFar
  <1>7. OnceEach(g, RowsSoFar(g, response', p))
    BY <1>3, <1>5, <1>6 DEF OnceEach
  <1>8. QED
    BY <1>1, <1>2, <1>4, <1>7, OneRowOfForm

LEMMA SubmitOnce ==
    ASSUME Scores, OneRow, NEW p \in Participant, Submit(p)
    PROVE  OneRow'
  <1> DEFINE f == form[p]
  <1>1. f.phase = "open" /\ IsForm(f) /\ response' = response
    BY FormKnown DEF Submit
  <1>2. PICK a \in Answers(f) :
          form' = [form EXCEPT ![p] = [f EXCEPT !.phase = "scoring", !.answers = a,
                                 !.points = scale.points, !.todo = DOMAIN a]]
    BY DEF Submit
  <1>3. PICK g : g = [f EXCEPT !.phase = "scoring", !.answers = a,
                        !.points = scale.points, !.todo = DOMAIN a]
    OBVIOUS
  <1>4. f = [x \in FormField |-> f[x]] /\ f.built = {}
    BY <1>1 DEF IsForm
  <1>5. g.consent = f.consent /\ g.built = {}
    BY <1>3, <1>4 DEF FormField
  <1>6. RowsSoFar(g, response', p) = {}
    BY <1>1, <1>5, NoRowsYet DEF RowsSoFar
  <1>7. DOMAIN f.consent \subseteq Key
    BY <1>1, FormOnce DEF OnceEach
  <1>8. OnceEach(g, RowsSoFar(g, response', p))
    BY <1>5, <1>6, <1>7 DEF OnceEach
  <1>9. QED
    BY <1>1, <1>2, <1>3, <1>8, OneRowOfForm

LEMMA ScoreItemOnce ==
    ASSUME Scores, OneRow, NEW p \in Participant, ScoreItem(p)
    PROVE  OneRow'
  <1> DEFINE f == form[p]
  <1>1. f.phase = "scoring" /\ IsForm(f) /\ response' = response
    BY FormKnown DEF ScoreItem
  <1>2. PICK i \in f.todo :
          form' = [form EXCEPT ![p] =
            [f EXCEPT !.todo = @ \ {i},
                      !.built = IF item[i] = NULL THEN @
                                ELSE @ \cup {BuildResponse(p, i, item[i],
                                               f.answers[i], f.points)}]]
    BY DEF ScoreItem
  <1>3. PICK row : row = BuildResponse(p, i, item[i], f.answers[i], f.points)
    OBVIOUS
  <1>4. PICK g : g = [f EXCEPT !.todo = @ \ {i},
                               !.built = IF item[i] = NULL THEN @ ELSE @ \cup {row}]
    OBVIOUS
  <1>5. f = [x \in FormField |-> f[x]]
    BY <1>1 DEF IsForm
  <1>6. /\ g.todo = f.todo \ {i} /\ g.consent = f.consent
        /\ g.built = IF item[i] = NULL THEN f.built ELSE f.built \cup {row}
    BY <1>4, <1>5 DEF FormField
  <1>7. row.item = i
    BY <1>3 DEF BuildResponse
  <1>8. OnceEach(f, RowsSoFar(f, response, p))
    BY <1>1, FormOnce
  <1>9. RowsSoFar(g, response', p) \subseteq RowsSoFar(f, response, p) \cup {row}
    BY <1>1, <1>6 DEF RowsSoFar
  <1>10. OnceEach(g, RowsSoFar(g, response', p))
    BY <1>2, <1>6, <1>7, <1>8, <1>9 DEF OnceEach
  <1>11. QED
    BY <1>1, <1>2, <1>3, <1>4, <1>10, OneRowOfForm

LEMMA StoreRowOnce ==
    ASSUME Scores, OneRow, NEW p \in Participant, StoreRow(p)
    PROVE  OneRow'
  <1> DEFINE f == form[p]
  <1>1. f.phase = "scoring" /\ IsForm(f) /\ \A r \in f.built : r.pid = p
    BY FormKnown DEF StoreRow
  <1>2. PICK row \in f.built :
          /\ response' = IF item[row.item] = NULL THEN response ELSE response \cup {row}
          /\ form' = [form EXCEPT ![p] = [f EXCEPT !.built = @ \ {row}]]
    BY DEF StoreRow
  <1>3. PICK g : g = [f EXCEPT !.built = @ \ {row}]
    OBVIOUS
  <1>4. f = [x \in FormField |-> f[x]]
    BY <1>1 DEF IsForm
  <1>5. g.built = f.built \ {row} /\ g.todo = f.todo /\ g.consent = f.consent
    BY <1>3, <1>4 DEF FormField
  <1>6. OnceEach(f, RowsSoFar(f, response, p))
    BY <1>1, FormOnce
  <1>7. RowsSoFar(g, response', p) \subseteq RowsSoFar(f, response, p)
    BY <1>2, <1>5 DEF RowsSoFar, Of
  <1>8. OnceEach(g, RowsSoFar(g, response', p))
    BY <1>5, <1>6, <1>7 DEF OnceEach
  <1>9. \A q \in Participant : q # p => Of(response', q) \subseteq Of(response, q)
    BY <1>1, <1>2 DEF Of
  <1>10. QED
    BY <1>2, <1>3, <1>8, <1>9, OneRowOfForm

(* What a participant or an editor does leaves a report what it has seen.   *)
Older ==
    /\ \A x \in Item \cup {NULL} : edits[x] <= edits'[x]
    /\ \A i \in Item : edits[i] = edits'[i] => item'[i] = item[i]
    /\ edits[NULL] = edits'[NULL] => scale' = scale

LEMMA SeenStays ==
    ASSUME Scores, Tables, report' = report, Ready, SentKept, Older,
           edits' \in [Item \cup {NULL} -> Nat]
    PROVE  report' # NULL => Seen' /\ Tabulated'
  <1> SUFFICES ASSUME report # NULL PROVE Seen' /\ Tabulated'
    OBVIOUS
  <1>1. Seen /\ Tabulated /\ ReportOK /\ report.phase # "done"
    BY DEF Tables, Scores, Ready
  <1>2. Tabulated'
    BY <1>1 DEF Tabulated, Finished, Rows
  <1>3. /\ \A x \in Item \cup {NULL} : report.since[x] \in Nat /\ edits[x] \in Nat /\ edits'[x] \in Nat
        /\ \A x \in Item \cup {NULL} : edits[x] <= edits'[x]
    BY <1>1 DEF Seen, Scores, Older
  <1>4. ASSUME report.phase \in {"items", "responses"}
        PROVE  /\ \A x \in Item \cup {NULL} : report.since[x] <= edits'[x]
               /\ report.since[NULL] = edits'[NULL] => report.scale = scale'
               /\ report.phase = "responses" =>
                     \A i \in Item : report.since[i] = edits'[i] => report.items[i] = item'[i]
    <2>1. /\ \A x \in Item \cup {NULL} : report.since[x] <= edits[x]
          /\ report.since[NULL] = edits[NULL] => report.scale = scale
          /\ report.phase = "responses" =>
                \A i \in Item : report.since[i] = edits[i] => report.items[i] = item[i]
      BY <1>1, <1>4 DEF Seen
    <2>2. \A x \in Item \cup {NULL} :
            /\ report.since[x] <= edits'[x]
            /\ report.since[x] = edits'[x] => edits[x] = edits'[x] /\ report.since[x] = edits[x]
      BY <1>3, <2>1
    <2>3. QED
      BY <2>1, <2>2 DEF Older
  <1>5. ASSUME report.phase = "consents", NEW p \in Pids(report.rs), NEW i \in Item,
               Unchanged(p, i)'
        PROVE  form'[p].items[i] = report.items[i] /\ form'[p].scale = report.scale
    <2>1. p \in Participant /\ form[p] # NoForm /\ form[p].phase = "scoring"
      BY <1>1 DEF ReportOK, IsRow, Pids
    <2>2. Kept(p)
      BY <2>1 DEF SentKept
    <2>3. Unchanged(p, i)
      BY <1>5, <2>2 DEF Unchanged, Kept
    <2>4. form[p].items[i] = report.items[i] /\ form[p].scale = report.scale
      BY <1>1, <1>5, <2>3 DEF Seen
    <2>5. QED
      BY <2>2, <2>4 DEF Kept
  <1>6. /\ report.items \in [Item -> ItemDefs \cup {NULL}]
        /\ report.scale \in ScaleDefs /\ report.consentScale \in ScaleDefs
        /\ report.since \in [Item \cup {NULL} -> Nat]
        /\ report.phase \in {"consents", "done"} =>
              /\ report.fmt \in Formats
              /\ \A r, s \in report.rs : r.pid = s.pid /\ r.item = s.item => r = s
    BY <1>1 DEF Seen
  <1>7. Seen'
    BY <1>1, <1>4, <1>5, <1>6 DEF Seen, Pids
  <1>8. QED
    BY <1>2, <1>7

(* A sent form is kept in a step of a participant. *)
LEMMA SentStays ==
    ASSUME Scores, NEW p \in Participant, Open(p) \/ Submit(p) \/ ScoreItem(p) \/ StoreRow(p)
    PROVE  SentKept /\ Older /\ report' = report /\ edits' = edits /\ Ready
  <1>1. /\ UNCHANGED <<scale, item, report, edits>> /\ Ready
        /\ \A q \in Participant : q # p => form'[q] = form[q]
    BY DEF Open, Submit, ScoreItem, StoreRow, Scores
  <1>2. Older
    BY <1>1 DEF Older, Scores
  <1>3. form[p] # NoForm /\ form[p].phase = "scoring" => Kept(p)
    <2> SUFFICES ASSUME form[p] # NoForm, form[p].phase = "scoring" PROVE Kept(p)
      OBVIOUS
    <2>1. ~Open(p) /\ ~Submit(p)
      BY DEF Open, Submit
    <2>2. PICK f : f = form[p] /\ f = [x \in FormField |-> f[x]]
      BY DEF Scores, IsForm
    <2>3. PICK g : g = form'[p]
      OBVIOUS
    <2>4. CASE ScoreItem(p)
      <3>1. \E t, b : g = [f EXCEPT !.todo = t, !.built = b]
        <4>1. PICK i \in form[p].todo :
                form' = [form EXCEPT ![p] =
                  [form[p] EXCEPT !.todo = @ \ {i},
                                  !.built = IF item[i] = NULL THEN @
                                            ELSE @ \cup {BuildResponse(p, i, item[i],
                                                    form[p].answers[i], form[p].points)}]]
          BY <2>4 DEF ScoreItem
        <4>2. PICK t, b : /\ t = form[p].todo \ {i}
                          /\ b = IF item[i] = NULL THEN form[p].built
                                 ELSE form[p].built \cup {BuildResponse(p, i, item[i],
                                                    form[p].answers[i], form[p].points)}
          OBVIOUS
        <4>3. g = [f EXCEPT !.todo = t, !.built = b]
          BY <2>2, <2>3, <4>1, <4>2 DEF Scores
        <4>4. QED
          BY <4>3
      <3>2. QED
        BY <2>2, <2>3, <3>1 DEF Kept, FormField, NoForm
    <2>5. CASE StoreRow(p)
      <3>1. \E b : g = [f EXCEPT !.built = b]
        BY <2>2, <2>3, <2>5 DEF StoreRow, Scores
      <3>2. QED
        BY <2>2, <2>3, <3>1 DEF Kept, FormField, NoForm
    <2>6. QED
      BY <2>1, <2>4, <2>5
  <1>4. SentKept
    BY <1>1, <1>3 DEF SentKept, Kept
  <1>5. QED
    BY <1>1, <1>2, <1>4

LEMMA ParticipantTables ==
    ASSUME Scores, Tables, NEW p \in Participant,
           Open(p) \/ Submit(p) \/ ScoreItem(p) \/ StoreRow(p)
    PROVE  Tables'
  <1>1. OneRow'
    BY OpenOnce, SubmitOnce, ScoreItemOnce, StoreRowOnce DEF Tables
  <1>2. edits' \in [Item \cup {NULL} -> Nat]
    BY SentStays DEF Scores
  <1>3. report' # NULL => Seen' /\ Tabulated'
    BY <1>2, SentStays, SeenStays
  <1>4. QED
    BY <1>1, <1>3 DEF Tables

(* A change of the definition of x. *)
LEMMA EditTables ==
    ASSUME Scores, Tables, Ready, NEW x \in Item \cup {NULL}, UNCHANGED <<form, report>>,
           edits' = [edits EXCEPT ![x] = @ + 1], response' \subseteq response,
           scale' = scale \/ x = NULL,
           \A i \in Item : i # x => item'[i] = item[i]
    PROVE  Tables'
  <1>1. edits \in [Item \cup {NULL} -> Nat] /\ edits' \in [Item \cup {NULL} -> Nat]
    BY DEF Scores
  <1>2. /\ edits'[x] = edits[x] + 1
        /\ \A y \in Item \cup {NULL} : y # x => edits'[y] = edits[y]
    BY <1>1
  <1>3. \A y \in Item \cup {NULL} : edits[y] <= edits'[y] /\ (edits[y] = edits'[y] => y # x)
    BY <1>1, <1>2
  <1>4. Older
    BY <1>3 DEF Older
  <1>5. SentKept
    BY DEF SentKept, Kept
  <1>6. report' # NULL => Seen' /\ Tabulated'
    BY <1>1, <1>4, <1>5, SeenStays
  <1>7. OneRow'
    BY DEF OneRow, Tables, Of
  <1>8. QED
    BY <1>6, <1>7 DEF Tables

LEMMA EditorTables ==
    ASSUME Scores, Tables, UpdateScale \/ UpdateItem \/ DeleteItem \/ AddItem
    PROVE  Tables'
  <1>1. item \in [Item -> ItemDefs \cup {NULL}]
    BY DEF Scores
  <1>2. CASE UpdateScale
    BY <1>2, EditTables DEF UpdateScale, Edit
  <1>3. ASSUME NEW i \in Item, Edit(i), NEW d, item' = [item EXCEPT ![i] = d],
               response' \subseteq response, UNCHANGED <<scale, form, report>>, Ready
        PROVE  Tables'
    <2>1. \A j \in Item : j # i => item'[j] = item[j]
      BY <1>1, <1>3
    <2>2. QED
      BY <1>3, <2>1, EditTables DEF Edit
  <1>4. CASE UpdateItem
    BY <1>3, <1>4 DEF UpdateItem
  <1>5. CASE DeleteItem
    <2>1. PICK i \in Item, cascades \in BOOLEAN :
            /\ Edit(i) /\ item' = [item EXCEPT ![i] = NULL]
            /\ response' = IF cascades THEN {r \in response : r.item # i} ELSE response
      BY <1>5 DEF DeleteItem
    <2>2. response' \subseteq response
      BY <2>1
    <2>3. QED
      BY <1>3, <1>5, <2>1, <2>2 DEF DeleteItem
  <1>6. CASE AddItem
    BY <1>3, <1>6 DEF AddItem
  <1>7. QED
    BY <1>2, <1>4, <1>5, <1>6

(* A report that reads the responses has seen the definitions they answer,  *)
(* if there was no edit.                                                    *)
LEMMA ResponsesSeen ==
    ASSUME Scores, Tables, report # NULL, report.phase = "responses", NEW f \in Formats,
           UNCHANGED <<scale, item, response, form, edits>>,
           report'.fmt = f, report'.rs = response, report'.edits = edits,
           report'.phase = IF f.kind \in {"wide", "label"} THEN "consents" ELSE "done",
           report'.items = report.items, report'.scale = report.scale,
           report'.consentScale = report.consentScale, report'.since = report.since
    PROVE  Seen'
  <1>1. Seen /\ OneRow
    BY DEF Tables
  <1>2. /\ report.items \in [Item -> ItemDefs \cup {NULL}]
        /\ report.scale \in ScaleDefs /\ report.consentScale \in ScaleDefs
        /\ report.since \in [Item \cup {NULL} -> Nat]
        /\ report.since[NULL] = edits[NULL] => report.scale = scale
        /\ \A i \in Item : report.since[i] = edits[i] => report.items[i] = item[i]
    BY <1>1 DEF Seen
  <1>3. \A r \in response : r.pid \in Participant /\ form[r.pid] # NoForm
    BY DEF Scores, IsRow
  <1>4. ASSUME NEW r \in response, NEW s \in response, r.pid = s.pid, r.item = s.item
        PROVE  r = s
    <2>1. PICK p \in Participant : p = r.pid /\ form[p] # NoForm
      BY <1>3
    <2>2. r \in Of(response, p) /\ s \in Of(response, p)
      BY <1>4, <2>1 DEF Of
    <2>3. QED
      BY <1>1, <1>4, <2>1, <2>2 DEF OneRow
  <1>5. ASSUME NEW p \in Pids(response), NEW i \in Item, Unchanged(p, i)'
        PROVE  form[p].items[i] = report.items[i] /\ form[p].scale = report.scale
    <2>1. p \in Participant /\ form[p] # NoForm
      BY <1>3 DEF Pids
    <2>2. Current(form[p])
      BY <2>1 DEF Scores
    <2>3. \A x \in {i, NULL} : form[p].edits[x] = edits[x] /\ report.since[x] = edits[x]
      BY <1>5 DEF Unchanged
    <2>4. QED
      BY <1>2, <2>2, <2>3 DEF Current
  <1>6. report'.phase \in {"consents", "done"}
    OBVIOUS
  <1>7. QED
    BY <1>2, <1>4, <1>5, <1>6 DEF Seen, Pids

LEMMA ResearcherTables ==
    ASSUME Scores, Tables,
           \/ BeginReport \/ ReadItems \/ ReadForWide \/ MergeConsents
           \/ ReadForScore \/ ReadForSummary \/ Close
    PROVE  Tables'
  <1>1. UNCHANGED <<scale, item, response, form, edits>>
    BY DEF BeginReport, ReadItems, ReadForWide, MergeConsents, ReadForScore,
           ReadForSummary, Close
  <1>2. OneRow'
    BY <1>1 DEF OneRow, Tables, Of
  <1>3. SUFFICES ASSUME report' # NULL PROVE Seen' /\ Tabulated'
    BY <1>2 DEF Tables
  <1>4. /\ scale \in ScaleDefs /\ item \in [Item -> ItemDefs \cup {NULL}]
        /\ edits \in [Item \cup {NULL} -> Nat]
    BY DEF Scores
  <1>5. ASSUME report # NULL
        PROVE  Seen /\ Tabulated /\ ReportOK /\ report = [x \in ReportField |-> report[x]]
    BY <1>5 DEF Scores, Tables, ReportOK
  <1>6. CASE BeginReport
    <2>1. PICK new : new = [fmt |-> NULL, phase |-> "items", scale |-> scale,
                  consentScale |-> scale, items |-> [i \in Item |-> NULL],
                  rs |-> {}, table |-> <<>>, totals |-> <<>>, alpha |-> <<0, 1>>,
                  n |-> 0, histogram |-> <<>>, since |-> edits, edits |-> edits]
      OBVIOUS
    <2>2. report' = new
      BY <1>6, <2>1 DEF BeginReport
    <2>3. /\ new.phase = "items" /\ new.scale = scale /\ new.consentScale = scale
          /\ new.items = [i \in Item |-> NULL] /\ new.since = edits
      BY <2>1
    <2>4. /\ report'.phase = "items" /\ report'.scale = scale /\ report'.consentScale = scale
          /\ report'.items = [i \in Item |-> NULL] /\ report'.since = edits
      BY <2>2, <2>3
    <2>5. Tabulated'
      BY <2>4 DEF Tabulated, Finished
    <2>6. \A x \in Item \cup {NULL} : edits[x] <= edits[x]
      BY <1>4
    <2>7. Seen'
      BY <1>1, <1>4, <2>4, <2>6 DEF Seen
    <2>8. QED
      BY <2>5, <2>7
  <1>7. CASE ReadItems
    <2>1. /\ report # NULL /\ report.phase = "items"
          /\ report' = [report EXCEPT !.phase = "responses", !.items = item]
      BY <1>7 DEF ReadItems
    <2>2. /\ report'.phase = "responses" /\ report'.items = item
          /\ report'.scale = report.scale /\ report'.consentScale = report.consentScale
          /\ report'.since = report.since
      BY <1>5, <2>1 DEF ReportField
    <2>3. Tabulated'
      BY <2>2 DEF Tabulated, Finished
    <2>4. Seen'
      BY <1>1, <1>4, <1>5, <2>1, <2>2 DEF Seen
    <2>5. QED
      BY <2>3, <2>4
  <1>8. ASSUME report # NULL, report.phase = "responses", NEW f \in Formats, NEW new,
               new = Responses(f)
        PROVE  /\ new = [x \in ReportField |-> new[x]]
               /\ new.fmt = f /\ new.rs = response /\ new.edits = edits
               /\ new.phase = IF f.kind \in {"wide", "label"} THEN "consents" ELSE "done"
               /\ new.items = report.items /\ new.scale = report.scale
               /\ new.consentScale = report.consentScale /\ new.since = report.since
    BY <1>5, <1>8 DEF Responses, ReportField
  <1>9. CASE ReadForWide
    <2>1. report # NULL /\ report.phase = "responses"
      BY <1>9 DEF ReadForWide
    <2> DEFINE rows(g, p) == RowsOf(RowCells(g, Of(response, p), report.items, report.scale))
    <2>1a. PICK f \in {x \in Formats : x.kind \in {"wide", "label"}} :
             \E t \in [Pids(response) -> UNION {rows(f, p) : p \in Participant}] :
                /\ \A p \in DOMAIN t : t[p] \in rows(f, p)
                /\ report' = [Responses(f) EXCEPT !.table = t]
      BY <1>9, Zenon DEF ReadForWide
    <2>1b. PICK t \in [Pids(response) -> UNION {rows(f, p) : p \in Participant}] :
             /\ \A p \in DOMAIN t : t[p] \in rows(f, p)
             /\ report' = [Responses(f) EXCEPT !.table = t]
      BY <2>1a
    <2>2. /\ f \in Formats /\ f.kind \in {"wide", "label"}
          /\ DOMAIN t = Pids(response)
          /\ \A p \in DOMAIN t :
                t[p] \in RowsOf(RowCells(f, Of(response, p), report.items, report.scale))
          /\ report' = [Responses(f) EXCEPT !.table = t]
      <3>1. f \in Formats /\ f.kind \in {"wide", "label"}
        BY <2>1a
      <3>2. \A p \in DOMAIN t : t[p] \in rows(f, p)
        BY <2>1b
      <3>3. QED
        BY <2>1b, <3>1, <3>2
    <2>3. PICK new : new = Responses(f)
      OBVIOUS
    <2>4. /\ report' = [new EXCEPT !.table = t]
          /\ new = [x \in ReportField |-> new[x]]
          /\ new.fmt = f /\ new.rs = response /\ new.edits = edits
          /\ new.phase = IF f.kind \in {"wide", "label"} THEN "consents" ELSE "done"
          /\ new.items = report.items /\ new.scale = report.scale
          /\ new.consentScale = report.consentScale /\ new.since = report.since
      BY <1>8, <2>1, <2>2, <2>3
    <2>5. /\ report'.fmt = f /\ report'.rs = response /\ report'.edits = edits
          /\ report'.phase = "consents" /\ report'.items = report.items
          /\ report'.scale = report.scale /\ report'.consentScale = report.consentScale
          /\ report'.since = report.since /\ report'.table = t
      BY <2>2, <2>4 DEF ReportField
    <2>6. Seen'
      BY <1>1, <2>1, <2>2, <2>5, ResponsesSeen
    <2>7. Tabulated'
      BY <2>2, <2>5 DEF Tabulated, Finished, Rows
    <2>8. QED
      BY <2>6, <2>7
  <1>10. CASE MergeConsents
    <2>1. report # NULL /\ report.phase = "consents"
      BY <1>10 DEF MergeConsents
    <2>2. PICK T, ks :
            /\ \A p \in DOMAIN ks : ks[p] \in SetToSeqs(DOMAIN form[p].consent)
            /\ DOMAIN ks = DOMAIN report.table
            /\ T = [p \in DOMAIN report.table |->
                      MergeConsent(report.table[p], form[p].consent, ks[p], scale,
                                   report.fmt.consent)]
            /\ report' = [report EXCEPT !.phase = "done", !.consentScale = scale,
                                        !.table = WithRows(T)]
      BY <1>10 DEF MergeConsents
    <2>3. PICK W : W = WithRows(T)
      OBVIOUS
    <2>4. /\ report'.phase = "done" /\ report'.consentScale = scale /\ report'.table = W
          /\ report'.fmt = report.fmt /\ report'.rs = report.rs
          /\ report'.edits = report.edits /\ report'.items = report.items
          /\ report'.scale = report.scale /\ report'.since = report.since
      BY <1>5, <2>1, <2>2, <2>3 DEF ReportField
    <2>5. Seen'
      BY <1>1, <1>4, <1>5, <2>1, <2>4 DEF Seen, Unchanged
    <2>6. /\ DOMAIN report.table = Pids(report.rs)
          /\ \A p \in Pids(report.rs) : report.table[p] \in Rows(p)
      BY <1>5, <2>1 DEF Tabulated
    <2>7. /\ DOMAIN W \subseteq Pids(report.rs)
          /\ \A p \in Pids(report.rs) : (IF p \in DOMAIN W THEN W[p] ELSE <<>>) = T[p]
      BY <2>2, <2>3, <2>6 DEF WithRows
    <2>8. ASSUME NEW p \in Pids(report.rs)
          PROVE  T[p] \in Merged(p)'
      <3>1. T[p] = MergeConsent(report.table[p], form[p].consent, ks[p], scale,
                                report.fmt.consent)
        BY <2>2, <2>6
      <3>2. ks[p] \in SetToSeqs(DOMAIN form[p].consent)
        BY <2>2, <2>6
      <3>3. report.table[p] \in Rows(p)'
        BY <2>4, <2>6 DEF Rows
      <3>4. QED
        BY <1>1, <2>4, <3>1, <3>2, <3>3 DEF Merged
    <2>9. Tabulated'
      BY <2>4, <2>7, <2>8 DEF Tabulated
    <2>10. QED
      BY <2>5, <2>9
  <1>11. CASE ReadForScore
    <2>1. report # NULL /\ report.phase = "responses"
      BY <1>11 DEF ReadForScore
    <2>1a. PICK f \in Formats : /\ f.kind = "score"
                                /\ report' = [Responses(f) EXCEPT !.totals = Totals(response)]
      BY <1>11 DEF ReadForScore
    <2>2. PICK t : /\ f.kind = "score"
                   /\ report' = [Responses(f) EXCEPT !.totals = t]
      BY <2>1a
    <2>3. PICK new : new = Responses(f)
      OBVIOUS
    <2>4. /\ report' = [new EXCEPT !.totals = t]
          /\ new = [x \in ReportField |-> new[x]]
          /\ new.fmt = f /\ new.rs = response /\ new.edits = edits
          /\ new.phase = IF f.kind \in {"wide", "label"} THEN "consents" ELSE "done"
          /\ new.items = report.items /\ new.scale = report.scale
          /\ new.consentScale = report.consentScale /\ new.since = report.since
      BY <1>8, <2>1, <2>2, <2>3
    <2>5. /\ report'.fmt = f /\ report'.rs = response /\ report'.edits = edits
          /\ report'.phase = "done" /\ report'.items = report.items
          /\ report'.scale = report.scale /\ report'.consentScale = report.consentScale
          /\ report'.since = report.since
      BY <2>2, <2>4 DEF ReportField
    <2>6. Seen'
      BY <1>1, <2>1, <2>2, <2>5, ResponsesSeen
    <2>7. Tabulated'
      BY <2>2, <2>5 DEF Tabulated, Finished
    <2>8. QED
      BY <2>6, <2>7
  <1>12. CASE ReadForSummary
    <2> DEFINE C == FilterLikert(report.items)
               R == AlphaRows(C, response)
               A == CronbachAlpha(AlphaMatrix(C, response), R, C)
               H == Histogram(C, response, report.scale.points)
    <2>1. report # NULL /\ report.phase = "responses"
      BY <1>12 DEF ReadForSummary
    <2>2. PICK f \in {x \in Formats : x.kind = "summary"} :
            report' = [Responses(f) EXCEPT !.alpha = A, !.n = Cardinality(R), !.histogram = H]
      BY <1>12 DEF ReadForSummary
    <2>3. PICK new, a, n, h : /\ new = Responses(f) /\ a = A /\ n = Cardinality(R) /\ h = H
      OBVIOUS
    <2>4. /\ report' = [new EXCEPT !.alpha = a, !.n = n, !.histogram = h]
          /\ new = [x \in ReportField |-> new[x]]
          /\ new.fmt = f /\ new.rs = response /\ new.edits = edits
          /\ new.phase = IF f.kind \in {"wide", "label"} THEN "consents" ELSE "done"
          /\ new.items = report.items /\ new.scale = report.scale
          /\ new.consentScale = report.consentScale /\ new.since = report.since
      BY <1>8, <2>1, <2>2, <2>3
    <2>5. f \in Formats /\ f.kind = "summary"
      BY <2>2
    <2>6. /\ report'.fmt = f /\ report'.rs = response /\ report'.edits = edits
          /\ report'.phase = "done" /\ report'.items = report.items
          /\ report'.scale = report.scale /\ report'.consentScale = report.consentScale
          /\ report'.since = report.since
      BY <2>4, <2>5 DEF ReportField
    <2>7. Seen'
      BY <1>1, <2>1, <2>5, <2>6, ResponsesSeen
    <2>8. Tabulated'
      BY <2>5, <2>6 DEF Tabulated, Finished
    <2>9. QED
      BY <2>7, <2>8
  <1>13. CASE Close
    BY <1>3, <1>13 DEF Close
  <1>14. QED
    BY <1>6, <1>7, <1>9, <1>10, <1>11, <1>12, <1>13

LEMMA TablesStart == Init => Tables
  BY DEF Init, Tables, OneRow

LEMMA TablesKeep == Scores /\ Tables /\ [Next]_vars => Tables'
  <1> SUFFICES ASSUME Scores, Tables, [Next]_vars PROVE Tables'
    OBVIOUS
  <1>1. CASE UNCHANGED vars
    <2>1. OneRow'
      BY <1>1 DEF vars, OneRow, Tables, Of
    <2>2. report # NULL => Seen' /\ Tabulated'
      BY <1>1 DEF vars, Tables, Seen, Tabulated, Unchanged, Finished, Rows, Merged
    <2>3. QED
      BY <1>1, <2>1, <2>2 DEF vars, Tables
  <1>2. ASSUME NEW p \in Participant, Open(p) \/ Submit(p) \/ ScoreItem(p) \/ StoreRow(p)
        PROVE  Tables'
    BY <1>2, ParticipantTables
  <1>3. QED
    BY <1>1, <1>2, EditorTables, ResearcherTables DEF Next

LEMMA TablesHold == Spec => [](Scores /\ Tables)
  <1>1. Init => Scores /\ Tables
    BY ScoresStart, TablesStart
  <1>2. (Scores /\ Tables) /\ [Next]_vars => (Scores /\ Tables)'
    BY ScoresKeep, TablesKeep
  <1>3. QED
    BY <1>1, <1>2, PTL DEF Spec

-----------------------------------------------------------------------------
(* Tables *)

(* A label export says of an answer what its participant chose, whatever    *)
(* its score, the languages and the consents, if what was answered has not  *)
(* been edited from the form to the export (export_service.go,              *)
(* valueToLabel and mergeConsentWide).                                      *)
THEOREM LabelsAreChosen == Spec => []LabelIsChosen
  <1>1. Scores /\ Tables => LabelIsChosen
    BY LabelsSay
  <1>2. QED
    BY <1>1, TablesHold, PTL

(* A column of a wide table is about one item or one consent option in      *)
(* every row, whichever items the row has and whatever was edited between   *)
(* the reads (export_service.go, applyItemHeaders and mergeConsentWide).    *)
THEOREM ColumnsAreOne == Spec => []ColumnsOneSource
  <1>1. ASSUME Scores, Tables
        PROVE  ColumnsOneSource
    <2>1. CASE Finished({"wide", "label"})
      <3>1. Prepared /\ Tabulated
        BY <1>1, <2>1, ReportPrepared DEF Tables, Finished
      <3>2. QED
        BY <3>1, OneSource
    <2>2. CASE ~Finished({"wide", "label"})
      BY <2>2 DEF ColumnsOneSource
    <2>3. QED
      BY <2>1, <2>2
  <1>2. QED
    BY <1>1, TablesHold, PTL

(* A wide table loses no response it can show and no choice, and a numeric  *)
(* cell holds the score that was read (export_service.go, buildWideMap and  *)
(* mergeConsentWide).                                                       *)
THEOREM NothingIsLost == Spec => []NothingLost
  <1>1. ASSUME Scores, Tables
        PROVE  NothingLost
    <2>1. CASE Finished({"wide", "label"})
      <3>1. Prepared /\ Tabulated
        BY <1>1, <2>1, ReportPrepared DEF Tables, Finished
      <3>2. QED
        BY <3>1, NoneLost
    <2>2. CASE ~Finished({"wide", "label"})
      BY <2>2 DEF NothingLost
    <2>3. QED
      BY <2>1, <2>2
  <1>2. QED
    BY <1>1, TablesHold, PTL

-----------------------------------------------------------------------------
(* Sums over finite sets *)

(* The element a fold takes next, and its intermediate results. *)
Pick(D) == CHOOSE x \in D : TRUE

IsIter(g, f, S) ==
    g = [s \in SUBSET S |-> IF s = {} THEN 0 ELSE f[Pick(s)] + g[s \ {Pick(s)}]]

LEMMA PickIsIn == \A D : D # {} => Pick(D) \in D
  BY DEF Pick

(* The sets among which every one is that is not empty and of which the rest *)
(* without the element picked is.                                            *)
LEMMA PickInduction ==
    ASSUME NEW S, IsFiniteSet(S), NEW F \in SUBSET SUBSET S, {} \in F,
           \A D \in SUBSET S : D # {} /\ D \ {Pick(D)} \in F => D \in F
    PROVE  \A D \in SUBSET S : D \in F
  <1> DEFINE N == {n \in Nat : \A D \in SUBSET S : Cardinality(D) = n => D \in F}
  <1>1. 0 \in N
    <2>1. \A D \in SUBSET S : Cardinality(D) = 0 => D = {}
      BY FS_Subset, FS_EmptySet
    <2>2. QED
      BY <2>1
  <1>2. ASSUME NEW n \in N PROVE n + 1 \in N
    <2>1. ASSUME NEW D \in SUBSET S, Cardinality(D) = n + 1
          PROVE  D \in F
      <3>1. IsFiniteSet(D) /\ D # {}
        BY <2>1, FS_Subset, FS_EmptySet
      <3>2. Pick(D) \in D
        BY <3>1, PickIsIn
      <3>3. Cardinality(D \ {Pick(D)}) = n
        <4>1. n \in Nat
          OBVIOUS
        <4>2. Cardinality(D \ {Pick(D)}) = Cardinality(D) - 1
          BY <3>1, <3>2, FS_RemoveElement
        <4> HIDE DEF N
        <4>3. QED
          BY <2>1, <4>1, <4>2
      <3>4. D \ {Pick(D)} \in F
        BY <3>3
      <3>5. QED
        BY <3>1, <3>4
    <2>2. QED
      BY <2>1
  <1>3. N = Nat
    <2> HIDE DEF N
    <2>1. N \in SUBSET Nat
      BY DEF N
    <2>2. QED
      BY <1>1, <1>2, <2>1, Counting
  <1>4. ASSUME NEW D \in SUBSET S PROVE D \in F
    <2>1. Cardinality(D) \in Nat
      BY FS_Subset, FS_CardinalityType
    <2>2. Cardinality(D) \in N
      BY <1>3, <2>1
    <2>3. QED
      BY <2>2
  <1>5. QED
    BY <1>4

(* The intermediate results exist, up to sets of any number of elements. *)
LEMMA IterExists ==
    ASSUME NEW S, IsFiniteSet(S), NEW f
    PROVE  \E g : IsIter(g, f, S)
  <1> DEFINE Upto(n) == {s \in SUBSET S : Cardinality(s) <= n}
             Is(g, n) == g = [s \in Upto(n) |->
                                IF s = {} THEN 0 ELSE f[Pick(s)] + g[s \ {Pick(s)}]]
             N == {n \in Nat : \E g : Is(g, n)}
  <1>0. \A s \in SUBSET S :
           /\ IsFiniteSet(s) /\ Cardinality(s) \in Nat /\ Cardinality(s) <= Cardinality(S)
           /\ s # {} => /\ s \ {Pick(s)} \in SUBSET S
                        /\ Cardinality(s \ {Pick(s)}) = Cardinality(s) - 1
           /\ s = {} <=> Cardinality(s) = 0
    BY FS_Subset, FS_CardinalityType, FS_RemoveElement, FS_EmptySet, PickIsIn
  <1>1. 0 \in N
    <2> DEFINE g == [s \in Upto(0) |-> 0]
    <2>1. \A s \in Upto(0) : s = {}
      <3>1. ASSUME NEW s \in SUBSET S, Cardinality(s) <= 0 PROVE s = {}
        <4>1. Cardinality(s) \in Nat
          BY <1>0
        <4>2. Cardinality(s) = 0
          BY <3>1, <4>1
        <4>3. QED
          BY <1>0, <4>2
      <3>2. \A s \in Upto(0) : s \in SUBSET S /\ Cardinality(s) <= 0
        OBVIOUS
      <3> HIDE DEF Upto
      <3>3. QED
        BY <1>0, <3>1, <3>2
    <2>2. Is(g, 0)
      BY <2>1
    <2>3. QED
      BY <2>2
  <1>2. ASSUME NEW n \in N PROVE n + 1 \in N
    <2>1. PICK g : Is(g, n)
      BY <1>2
    <2> DEFINE h == [s \in Upto(n + 1) |-> IF s = {} THEN 0
                                          ELSE f[Pick(s)] + g[s \ {Pick(s)}]]
    <2>2. \A s \in Upto(n) : s \in Upto(n + 1) /\ h[s] = g[s]
      <3>1. \A s \in Upto(n) : s \in Upto(n + 1)
        <4>1. n \in Nat
          OBVIOUS
        <4>2. \A c \in Nat : c <= n => c <= n + 1
          BY <4>1
        <4>3. QED
          BY <1>0, <4>2
      <3>2. \A s \in Upto(n) : g[s] = IF s = {} THEN 0 ELSE f[Pick(s)] + g[s \ {Pick(s)}]
        <4>1. g = [s \in Upto(n) |-> IF s = {} THEN 0 ELSE f[Pick(s)] + g[s \ {Pick(s)}]]
          BY <2>1
        <4> HIDE DEF Upto, Is
        <4>2. QED
          BY <4>1
      <3>3. QED
        BY <3>1, <3>2
    <2>3. \A s \in Upto(n + 1) : s # {} => s \ {Pick(s)} \in Upto(n)
      BY <1>0
    <2>4. Is(h, n + 1)
      BY <2>2, <2>3
    <2>5. n + 1 \in Nat
      OBVIOUS
    <2> HIDE DEF h, Is
    <2>6. QED
      BY <2>4, <2>5
  <1>3. N = Nat
    <2> HIDE DEF N
    <2>1. N \in SUBSET Nat
      BY DEF N
    <2>2. QED
      BY <1>1, <1>2, <2>1, Counting
  <1>4. PICK g : Is(g, Cardinality(S))
    BY <1>3, FS_CardinalityType
  <1>5. Upto(Cardinality(S)) = SUBSET S
    BY <1>0
  <1>6. QED
    BY <1>4, <1>5 DEF IsIter

LEMMA TotalIter ==
    ASSUME NEW f, IsFiniteSet(DOMAIN f)
    PROVE  \E g : IsIter(g, f, DOMAIN f) /\ Total(f) = g[DOMAIN f]
  <1>1. Total(f) = (CHOOSE g : IsIter(g, f, DOMAIN f))[DOMAIN f]
    BY DEF Total, FoldFunction, FoldFunctionOnSet, MapThenFoldSet, IsIter, Pick
  <1>2. \E g : IsIter(g, f, DOMAIN f)
    BY IterExists
  <1>3. QED
    BY <1>1, <1>2

(* The sum of the values of f on D. *)
SumOver(f, D) == Total([x \in D |-> f[x]])

(* A sum is the value of the element picked and the sum of the rest. *)
LEMMA SumStep ==
    ASSUME NEW S, IsFiniteSet(S), NEW f, NEW D \in SUBSET S, D # {}
    PROVE  /\ Pick(D) \in D
           /\ SumOver(f, D) = f[Pick(D)] + SumOver(f, D \ {Pick(D)})
  <1> DEFINE E == D \ {Pick(D)}
             a == [x \in D |-> f[x]]
             b == [x \in E |-> f[x]]
  <1>1. Pick(D) \in D /\ IsFiniteSet(D) /\ IsFiniteSet(E) /\ E \in SUBSET D
    BY PickIsIn, FS_Subset
  <1>2. DOMAIN a = D /\ DOMAIN b = E
    OBVIOUS
  <1> HIDE DEF a, b
  <1>3. PICK g : IsIter(g, a, D) /\ Total(a) = g[D]
    BY <1>1, <1>2, TotalIter
  <1>4. PICK h : IsIter(h, b, E) /\ Total(b) = h[E]
    BY <1>1, <1>2, TotalIter
  <1>5. g[D] = a[Pick(D)] + g[E]
    BY <1>3 DEF IsIter
  <1> DEFINE F == {s \in SUBSET E : g[s] = h[s]}
  <1>6. \A s \in SUBSET E : s \in F
    <2>1. \A s \in SUBSET E : s # {} => Pick(s) \in E
      BY PickIsIn
    <2>2. \A s \in SUBSET E : s # {} => g[s] = a[Pick(s)] + g[s \ {Pick(s)}]
      <3>1. \A s \in SUBSET D : g[s] = IF s = {} THEN 0 ELSE a[Pick(s)] + g[s \ {Pick(s)}]
        BY <1>3 DEF IsIter
      <3>2. QED
        BY <1>1, <3>1
    <2>3. \A s \in SUBSET E : s # {} => h[s] = b[Pick(s)] + h[s \ {Pick(s)}]
      BY <1>4 DEF IsIter
    <2>4. g[{}] = 0 /\ h[{}] = 0
      <3>1. {} \in SUBSET D /\ {} \in SUBSET E
        OBVIOUS
      <3>2. QED
        BY <1>3, <1>4, <3>1 DEF IsIter
    <2>5. \A x \in E : a[x] = b[x]
      BY <1>1 DEF a, b
    <2>6. F \in SUBSET SUBSET E /\ {} \in F
      BY <2>4
    <2>7. ASSUME NEW s \in SUBSET E, s # {}, s \ {Pick(s)} \in F
          PROVE  s \in F
      BY <2>1, <2>2, <2>3, <2>5, <2>7
    <2> HIDE DEF F, E
    <2>8. QED
      BY <1>1, <2>6, <2>7, PickInduction
  <1>7. g[E] = h[E]
    BY <1>6
  <1>8. a[Pick(D)] = f[Pick(D)]
    BY <1>1 DEF a
  <1>9. QED
    BY <1>1, <1>3, <1>4, <1>5, <1>7, <1>8 DEF a, b, SumOver

LEMMA SumOfNone ==
    ASSUME NEW f
    PROVE  SumOver(f, {}) = 0
  <1> DEFINE a == [x \in {} |-> f[x]]
  <1>1. DOMAIN a = {} /\ IsFiniteSet(DOMAIN a)
    BY FS_EmptySet
  <1> HIDE DEF a
  <1>2. PICK g : IsIter(g, a, DOMAIN a) /\ Total(a) = g[DOMAIN a]
    BY <1>1, TotalIter
  <1>3. Total(a) = 0
    BY <1>1, <1>2 DEF IsIter
  <1>4. QED
    BY <1>3 DEF a, SumOver

(* Sums of whole numbers are whole and linear. *)
LEMMA SumInt ==
    ASSUME NEW S, IsFiniteSet(S), NEW f, \A x \in S : f[x] \in Int
    PROVE  SumOver(f, S) \in Int
  <1> DEFINE F == {D \in SUBSET S : SumOver(f, D) \in Int}
  <1>1. {} \in F
    BY SumOfNone
  <1>2. ASSUME NEW D \in SUBSET S, D # {}, D \ {Pick(D)} \in F
        PROVE  D \in F
    BY <1>2, SumStep
  <1> HIDE DEF F
  <1>3. F \in SUBSET SUBSET S
    BY DEF F
  <1>4. S \in F
    BY <1>1, <1>2, <1>3, PickInduction
  <1>5. QED
    BY <1>4 DEF F

LEMMA SumSame ==
    ASSUME NEW S, NEW f, NEW g, \A x \in S : f[x] = g[x]
    PROVE  SumOver(f, S) = SumOver(g, S)
  <1>1. [x \in S |-> f[x]] = [x \in S |-> g[x]]
    OBVIOUS
  <1>2. QED
    BY <1>1 DEF SumOver

LEMMA Distribute ==
    \A a, b, x, y, s, t \in Int :
       /\ (a * x + b * y) + (a * s + b * t) = a * (x + s) + b * (y + t)
       /\ a * x + b * y \in Int /\ a * 0 + b * 0 = 0
  OBVIOUS

(* h is a times f and b times g on S. *)
Combination(h, a, f, b, g, S) ==
    /\ a \in Int /\ b \in Int
    /\ \A x \in S : f[x] \in Int /\ g[x] \in Int /\ h[x] = a * f[x] + b * g[x]

LEMMA SumLinear ==
    ASSUME NEW S, IsFiniteSet(S), NEW f, NEW g, NEW h, NEW a, NEW b,
           Combination(h, a, f, b, g, S)
    PROVE  SumOver(h, S) = a * SumOver(f, S) + b * SumOver(g, S)
  <1> DEFINE F == {D \in SUBSET S : SumOver(h, D) = a * SumOver(f, D) + b * SumOver(g, D)}
  <1>0. /\ a \in Int /\ b \in Int
        /\ \A x \in S : f[x] \in Int /\ g[x] \in Int /\ h[x] = a * f[x] + b * g[x]
    BY DEF Combination
  <1>1. {} \in F
    BY <1>0, SumOfNone, Distribute
  <1>2. ASSUME NEW D \in SUBSET S
        PROVE  SumOver(f, D) \in Int /\ SumOver(g, D) \in Int
    BY <1>0, FS_Subset, SumInt
  <1>3. ASSUME NEW D \in SUBSET S, D # {}, D \ {Pick(D)} \in F
        PROVE  D \in F
    <2> DEFINE E == D \ {Pick(D)}
               x == Pick(D)
    <2>1. E \in SUBSET S /\ x \in S
      BY <1>3, PickIsIn
    <2>2. SumOver(h, E) = a * SumOver(f, E) + b * SumOver(g, E)
      BY <1>3
    <2>3. /\ SumOver(h, D) = h[x] + SumOver(h, E)
          /\ SumOver(f, D) = f[x] + SumOver(f, E)
          /\ SumOver(g, D) = g[x] + SumOver(g, E)
      BY <1>3, SumStep
    <2>4. /\ f[x] \in Int /\ g[x] \in Int /\ SumOver(f, E) \in Int /\ SumOver(g, E) \in Int
          /\ h[x] = a * f[x] + b * g[x]
      BY <1>0, <1>2, <2>1
    <2> HIDE DEF E, x
    <2>5. SumOver(h, D) =
            (a * f[x] + b * g[x]) + (a * SumOver(f, E) + b * SumOver(g, E))
      BY <2>2, <2>3, <2>4
    <2>6. (a * f[x] + b * g[x]) + (a * SumOver(f, E) + b * SumOver(g, E))
            = a * (f[x] + SumOver(f, E)) + b * (g[x] + SumOver(g, E))
      BY <1>0, <2>4, Distribute
    <2>7. QED
      BY <2>3, <2>5, <2>6
  <1>4. F \in SUBSET SUBSET S
    OBVIOUS
  <1> HIDE DEF F
  <1>5. S \in F
    BY <1>1, <1>3, <1>4, PickInduction
  <1>6. QED
    BY <1>5 DEF F

LEMMA SumAdd ==
    ASSUME NEW S, IsFiniteSet(S), NEW f, NEW g, NEW h,
           \A x \in S : f[x] \in Int /\ g[x] \in Int /\ h[x] = f[x] + g[x]
    PROVE  /\ SumOver(h, S) = SumOver(f, S) + SumOver(g, S)
           /\ SumOver(f, S) \in Int /\ SumOver(g, S) \in Int
  <1>1. PICK one \in Int : one = 1
    OBVIOUS
  <1>2. \A n \in Int : one * n = n
    BY <1>1
  <1>3. \A x \in S : f[x] \in Int /\ g[x] \in Int /\ h[x] = one * f[x] + one * g[x]
    BY <1>2
  <1>4. SumOver(h, S) = one * SumOver(f, S) + one * SumOver(g, S)
    <2>1. Combination(h, one, f, one, g, S)
      BY <1>3 DEF Combination
    <2>2. QED
      BY <2>1, SumLinear
  <1>5. SumOver(f, S) \in Int /\ SumOver(g, S) \in Int
    BY SumInt
  <1>6. QED
    BY <1>2, <1>4, <1>5

(* The sums of the rows of a matrix of whole numbers, and of its columns. *)
BothWays(rows, columns, S, T, left, right) ==
    /\ \A x \in S, y \in T : rows[x][y] \in Int /\ columns[y][x] = rows[x][y]
    /\ \A x \in S : left[x] = SumOver(rows[x], T)
    /\ \A y \in T : right[y] = SumOver(columns[y], S)

(* A sum of sums may be taken the other way round. *)
LEMMA SumSwap ==
    ASSUME NEW S, IsFiniteSet(S), NEW T, IsFiniteSet(T),
           NEW rows, NEW columns, NEW left, NEW right,
           BothWays(rows, columns, S, T, left, right)
    PROVE  SumOver(left, S) = SumOver(right, T)
  <1> DEFINE row == [x \in S |-> SumOver(rows[x], T)]
             col(D) == [y \in T |-> SumOver(columns[y], D)]
             F == {D \in SUBSET S : SumOver(row, D) = SumOver(col(D), T)}
  <1>0. /\ \A x \in S, y \in T : rows[x][y] \in Int /\ columns[y][x] = rows[x][y]
        /\ \A x \in S : left[x] = SumOver(rows[x], T)
        /\ \A y \in T : right[y] = SumOver(columns[y], S)
    BY DEF BothWays
  <1>1. ASSUME NEW D \in SUBSET S, NEW y \in T
        PROVE  SumOver(columns[y], D) \in Int
    <2>1. IsFiniteSet(D) /\ \A x \in D : columns[y][x] \in Int
      BY <1>0, FS_Subset
    <2>2. QED
      BY <2>1, SumInt
  <1>2. {} \in F
    <2>1. SumOver(row, {}) = 0 /\ \A y \in T : col({})[y] = 0
      BY SumOfNone
    <2> HIDE DEF row
    <2> DEFINE c == col({})
    <2>2. \A y \in T : c[y] \in Int /\ c[y] = c[y] + c[y]
      BY <2>1
    <2> HIDE DEF c
    <2>3. SumOver(c, T) = SumOver(c, T) + SumOver(c, T) /\ SumOver(c, T) \in Int
      BY <2>2, SumAdd
    <2>4. \A n \in Int : n = n + n => n = 0
      OBVIOUS
    <2>5. SumOver(c, T) = 0
      BY <2>3, <2>4
    <2>6. QED
      BY <2>1, <2>5 DEF c
  <1>3. ASSUME NEW D \in SUBSET S, D # {}, D \ {Pick(D)} \in F
        PROVE  D \in F
    <2> DEFINE E == D \ {Pick(D)}
               x == Pick(D)
               r == rows[x]
               c == col(E)
               d == col(D)
    <2>1. x \in S /\ E \in SUBSET S
      BY <1>3, PickIsIn
    <2>2. SumOver(row, D) = row[x] + SumOver(row, E)
      <3> HIDE DEF row
      <3>1. QED
        BY <1>3, SumStep
    <2>3. \A y \in T : SumOver(columns[y], D) = columns[y][x] + SumOver(columns[y], E)
      BY <1>3, SumStep
    <2>4. \A y \in T : r[y] \in Int /\ c[y] \in Int /\ d[y] = r[y] + c[y]
      BY <1>0, <1>1, <2>1, <2>3
    <2>5. row[x] = SumOver(r, T) /\ SumOver(row, E) = SumOver(c, T)
      BY <1>3, <2>1
    <2>6. SumOver(d, T) = SumOver(r, T) + SumOver(c, T)
      <3> HIDE DEF r, c, d
      <3>1. QED
        BY <2>4, SumAdd
    <2> HIDE DEF row, r, c, E, x
    <2>7. QED
      BY <2>2, <2>5, <2>6
  <1>4. F \in SUBSET SUBSET S
    OBVIOUS
  <1> HIDE DEF F
  <1>5. S \in F
    BY <1>2, <1>3, <1>4, PickInduction
  <1>6. SumOver(row, S) = SumOver(col(S), T)
    BY <1>5 DEF F
  <1>7. (\A x \in S : row[x] = left[x]) /\ (\A y \in T : col(S)[y] = right[y])
    BY <1>0
  <1> HIDE DEF row, col
  <1>8. SumOver(row, S) = SumOver(left, S) /\ SumOver(col(S), T) = SumOver(right, T)
    BY <1>7, SumSame
  <1>9. QED
    BY <1>6, <1>8

(* h is a times f on S. *)
Multiple(h, a, f, S) == a \in Int /\ \A x \in S : f[x] \in Int /\ h[x] = a * f[x]

LEMMA SumTimes ==
    ASSUME NEW S, IsFiniteSet(S), NEW f, NEW h, NEW a, Multiple(h, a, f, S)
    PROVE  SumOver(h, S) = a * SumOver(f, S)
  <1>0. a \in Int /\ \A x \in S : f[x] \in Int /\ h[x] = a * f[x]
    BY DEF Multiple
  <1>1. PICK b \in Int : b = 0
    OBVIOUS
  <1>2. \A n \in Int : b * n = 0
    BY <1>1
  <1>3. \A x \in S : f[x] \in Int /\ h[x] = a * f[x] + b * f[x]
    <2> TAKE x \in S
    <2>1. f[x] \in Int /\ h[x] = a * f[x] /\ a * f[x] \in Int
      BY <1>0
    <2>2. QED
      BY <1>2, <2>1
  <1>4. SumOver(h, S) = a * SumOver(f, S) + b * SumOver(f, S)
    <2>1. a \in Int
      BY <1>0
    <2>2. QED
      <3>1. Combination(h, a, f, b, f, S)
        BY <1>3, <2>1 DEF Combination
      <3>2. QED
        BY <3>1, SumLinear
  <1>5. SumOver(f, S) \in Int
    BY <1>0, SumInt
  <1>6. a * SumOver(f, S) \in Int
    BY <1>0, <1>5
  <1>7. QED
    BY <1>2, <1>4, <1>5, <1>6

(* The sums of a matrix w with rows in R and columns in C: of a row, of a    *)
(* column, of the products of two columns, of the covariances of one; and   *)
(* the squares of the sums of rows.                                         *)
Moments(R, C, n, w, cols, T, s, prod, q, cov, e, sq) ==
    /\ \A p \in R, i \in C : w[p][i] \in Int /\ cols[i][p] = w[p][i]
    /\ \A p \in R : T[p] = SumOver(w[p], C) /\ sq[p] = T[p] * T[p]
    /\ \A i \in C : s[i] = SumOver(cols[i], R)
    /\ \A i, j \in C, p \in R : prod[i][j][p] = w[p][i] * w[p][j]
    /\ \A i, j \in C : /\ q[i][j] = SumOver(prod[i][j], R)
                        /\ cov[i][j] = n * q[i][j] - s[i] * s[j]
    /\ \A i \in C : e[i] = SumOver(cov[i], C)

(* The covariances of the columns add up to the variance of the sums of the *)
(* rows, each times the square of the number of rows.                       *)
LEMMA CovariancesAdd ==
    ASSUME NEW R, IsFiniteSet(R), NEW C, IsFiniteSet(C), NEW n \in Int,
           NEW w, NEW cols, NEW T, NEW s, NEW prod, NEW q, NEW cov, NEW e, NEW sq,
           Moments(R, C, n, w, cols, T, s, prod, q, cov, e, sq)
    PROVE  SumOver(e, C) = n * SumOver(sq, R) - SumOver(T, R) * SumOver(T, R)
  <1> DEFINE wt == [i \in C |-> [p \in R |-> w[p][i] * T[p]]]
             g == [i \in C |-> SumOver(wt[i], R)]
             sumT == SumOver(T, R)
  <1>0. /\ \A p \in R, i \in C : w[p][i] \in Int /\ cols[i][p] = w[p][i]
        /\ \A p \in R : T[p] = SumOver(w[p], C) /\ sq[p] = T[p] * T[p]
        /\ \A i \in C : s[i] = SumOver(cols[i], R)
        /\ \A i, j \in C, p \in R : prod[i][j][p] = w[p][i] * w[p][j]
        /\ \A i, j \in C : /\ q[i][j] = SumOver(prod[i][j], R)
                            /\ cov[i][j] = n * q[i][j] - s[i] * s[j]
        /\ \A i \in C : e[i] = SumOver(cov[i], C)
    BY DEF Moments
  <1> USE <1>0
  <1>1. /\ \A p \in R : T[p] \in Int /\ sq[p] \in Int
        /\ \A i \in C : s[i] \in Int
        /\ sumT \in Int
    <2>1. ASSUME NEW p \in R PROVE T[p] \in Int
      BY SumInt
    <2>2. ASSUME NEW i \in C PROVE s[i] \in Int
      BY SumInt
    <2>3. \A p \in R : T[p] * T[p] \in Int
      BY <2>1
    <2>4. sumT \in Int
      BY <2>1, SumInt
    <2>5. QED
      BY <2>1, <2>2, <2>3, <2>4
  <1>2. \A i \in C, p \in R : wt[i][p] = w[p][i] * T[p] /\ wt[i][p] \in Int
    <2>1. \A i \in C, p \in R : w[p][i] * T[p] \in Int
      BY <1>1
    <2>2. QED
      BY <2>1
  <1>3. \A i \in C : g[i] = SumOver(wt[i], R) /\ g[i] \in Int
    <2> SUFFICES ASSUME NEW i \in C
                 PROVE  g[i] = SumOver(wt[i], R) /\ SumOver(wt[i], R) \in Int
      OBVIOUS
    <2>1. \A p \in R : wt[i][p] \in Int
      BY <1>2
    <2> HIDE DEF wt
    <2>2. QED
      BY <2>1, SumInt
  <1> HIDE DEF wt, g, sumT
  <1>4. \A i, j \in C, p \in R : prod[i][j][p] \in Int
    <2>1. \A a, b \in Int : a * b \in Int
      OBVIOUS
    <2>2. QED
      BY <2>1
  <1>5. \A i, j \in C : q[i][j] \in Int
    BY <1>4, SumInt
  <1>6. ASSUME NEW i \in C
        PROVE  SumOver(q[i], C) = g[i] /\ SumOver(q[i], C) \in Int
    <2> DEFINE rows == [p \in R |-> [j \in C |-> w[p][i] * w[p][j]]]
    <2>1. \A p \in R, j \in C : rows[p][j] = w[p][i] * w[p][j]
      OBVIOUS
    <2>2. \A p \in R, j \in C : rows[p][j] \in Int /\ prod[i][j][p] = rows[p][j]
      BY <1>4, <2>1
    <2> HIDE DEF rows
    <2>3. ASSUME NEW p \in R PROVE wt[i][p] = SumOver(rows[p], C)
      <3>1. PICK a \in Int : a = w[p][i]
        OBVIOUS
      <3>2. \A j \in C : w[p][j] \in Int /\ rows[p][j] = a * w[p][j]
        BY <2>1, <3>1
      <3>3. SumOver(rows[p], C) = a * SumOver(w[p], C)
        <4>1. Multiple(rows[p], a, w[p], C)
          BY <3>2 DEF Multiple
        <4>2. QED
          BY <4>1, SumTimes
      <3>4. QED
        BY <1>2, <3>1, <3>3
    <2>4. \A j \in C : q[i][j] = SumOver(prod[i][j], R)
      OBVIOUS
    <2>5. SumOver(wt[i], R) = SumOver(q[i], C)
      <3>1. BothWays(rows, prod[i], R, C, wt[i], q[i])
        BY <2>2, <2>3, <2>4 DEF BothWays
      <3>2. QED
        BY <3>1, SumSwap
    <2>6. QED
      BY <1>3, <2>5
  <1>7. SumOver(s, C) = sumT
    <2>1. BothWays(w, cols, R, C, T, s)
      BY DEF BothWays
    <2>2. QED
      BY <2>1, SumSwap DEF sumT
  <1>8. ASSUME NEW i \in C
        PROVE  e[i] = n * g[i] + (-sumT) * s[i]
    <2>1. PICK b \in Int : b = -s[i]
      BY <1>1
    <2>2. ASSUME NEW j \in C
          PROVE  q[i][j] \in Int /\ s[j] \in Int /\ cov[i][j] = n * q[i][j] + b * s[j]
      <3>1. q[i][j] \in Int /\ s[j] \in Int /\ s[i] \in Int
        BY <1>1, <1>5
      <3>2. cov[i][j] = n * q[i][j] - s[i] * s[j]
        OBVIOUS
      <3>3. \A x \in Int, y, z \in Int : x - y * z = x + (-y) * z
        OBVIOUS
      <3>4. n * q[i][j] \in Int
        BY <3>1
      <3>5. QED
        BY <2>1, <3>1, <3>2, <3>3, <3>4
    <2>3. SumOver(cov[i], C) = n * SumOver(q[i], C) + b * SumOver(s, C)
      <3>1. Combination(cov[i], n, q[i], b, s, C)
        BY <2>2 DEF Combination
      <3>2. QED
        BY <3>1, SumLinear
    <2>4. e[i] = n * g[i] + b * sumT
      BY <1>6, <1>7, <2>3
    <2>5. \A x, y \in Int : (-x) * y = (-y) * x
      OBVIOUS
    <2>6. QED
      BY <1>1, <2>1, <2>4, <2>5
  <1>9. SumOver(e, C) = n * SumOver(g, C) + (-sumT) * SumOver(s, C)
    <2>1. PICK b \in Int : b = -sumT
      BY <1>1
    <2>2. \A i \in C : g[i] \in Int /\ s[i] \in Int /\ e[i] = n * g[i] + b * s[i]
      BY <1>1, <1>3, <1>8, <2>1
    <2>3. SumOver(e, C) = n * SumOver(g, C) + b * SumOver(s, C)
      <3>1. Combination(e, n, g, b, s, C)
        BY <2>2 DEF Combination
      <3>2. QED
        BY <3>1, SumLinear
    <2>4. QED
      BY <2>1, <2>3
  <1>10. SumOver(g, C) = SumOver(sq, R) /\ SumOver(sq, R) \in Int
    <2> DEFINE columns == [p \in R |-> [i \in C |-> w[p][i] * T[p]]]
    <2>1. \A p \in R, i \in C : columns[p][i] = w[p][i] * T[p]
      OBVIOUS
    <2>2. \A i \in C, p \in R : wt[i][p] \in Int /\ columns[p][i] = wt[i][p]
      BY <1>2, <2>1
    <2> HIDE DEF columns
    <2>3. ASSUME NEW p \in R PROVE sq[p] = SumOver(columns[p], C)
      <3>1. \A x, y \in Int : x * y = y * x
        OBVIOUS
      <3>2. \A i \in C : w[p][i] \in Int /\ columns[p][i] = T[p] * w[p][i]
        BY <1>1, <2>1, <3>1
      <3>3. SumOver(columns[p], C) = T[p] * SumOver(w[p], C)
        <4>1. Multiple(columns[p], T[p], w[p], C)
          BY <1>1, <3>2 DEF Multiple
        <4>2. QED
          BY <4>1, SumTimes
      <3>4. QED
        BY <3>3
    <2>4. SumOver(g, C) = SumOver(sq, R)
      <3>1. BothWays(wt, columns, C, R, g, sq)
        BY <1>3, <2>2, <2>3 DEF BothWays
      <3>2. QED
        BY <3>1, SumSwap
    <2>5. SumOver(sq, R) \in Int
      BY <1>1, SumInt
    <2>6. QED
      BY <2>4, <2>5
  <1>11. \A x \in Int, y \in Int : x + (-y) * y = x - y * y
    OBVIOUS
  <1>12. n * SumOver(sq, R) \in Int
    BY <1>10
  <1>13. QED
    BY <1>1, <1>7, <1>9, <1>10, <1>11, <1>12 DEF sumT

LEMMA SumOfFunction ==
    ASSUME NEW S, NEW f, f = [x \in S |-> f[x]]
    PROVE  SumOver(f, S) = Total(f)
  BY DEF SumOver

(* What AlphaOfAnswers asks of a coefficient of w. *)
ByCovariances(alpha, w, R, C) ==
    LET n == Cardinality(R)
        k == Cardinality(C)
        col(i) == [p \in R |-> w[p][i]]
        cov(i, j) == n * Total([p \in R |-> w[p][i] * w[p][j]]) - Total(col(i)) * Total(col(j))
        all == Total([i \in C |-> Total([j \in C |-> cov(i, j)])])
        off == all - Total([i \in C |-> cov(i, i)])
    IN  IF n = 0 \/ k < 2 \/ all = 0 \/ off <= 0 THEN alpha[1] = 0
        ELSE alpha[1] * (k - 1) * all = alpha[2] * k * off

(* The coefficient by variances is the one by covariances. *)
LEMMA AlphaByCovariances ==
    ASSUME NEW R, IsFiniteSet(R), NEW C, IsFiniteSet(C), NEW w \in [R -> [C -> Int]]
    PROVE  ByCovariances(CronbachAlpha(w, R, C), w, R, C)
  <1> DEFINE n == Cardinality(R)
             k == Cardinality(C)
             col(i) == [p \in R |-> w[p][i]]
             pairs(i, j) == [p \in R |-> w[p][i] * w[p][j]]
             cov(i, j) == n * Total(pairs(i, j)) - Total(col(i)) * Total(col(j))
             rest(i) == [j \in C |-> cov(i, j)]
             e == [i \in C |-> Total(rest(i))]
             diag == [i \in C |-> cov(i, i)]
             T == [p \in R |-> Total(w[p])]
             itemVars == Total([c \in C |-> Spread([r \in R |-> w[r][c]])])
             totalVar == Spread(T)
  <1>1. n \in Nat /\ k \in Nat /\ (n = 0 <=> R = {})
    BY FS_CardinalityType, FS_EmptySet
  <1>2. \A p \in R, i \in C : w[p][i] \in Int
    OBVIOUS
  <1>3. \A p \in R : w[p] = [i \in C |-> w[p][i]]
    OBVIOUS
  <1>4. ASSUME NEW i \in C, NEW j \in C
        PROVE  /\ Total(col(i)) \in Int /\ Total(pairs(i, j)) \in Int
               /\ cov(i, j) \in Int
    <2>1. (\A p \in R : col(i)[p] \in Int) /\ (\A p \in R : pairs(i, j)[p] \in Int)
      <3>1. \A x, y \in Int : x * y \in Int
        OBVIOUS
      <3>2. QED
        BY <1>2, <3>1
    <2>2. \A l \in C : \A p \in R : col(l)[p] \in Int
      BY <1>2
    <2>3. /\ col(i) = [p \in R |-> col(i)[p]]
          /\ col(j) = [p \in R |-> col(j)[p]]
          /\ pairs(i, j) = [p \in R |-> pairs(i, j)[p]]
      OBVIOUS
    <2> HIDE DEF col, pairs, n
    <2>4. Total(col(i)) \in Int /\ Total(pairs(i, j)) \in Int /\ Total(col(j)) \in Int
      BY <2>1, <2>2, <2>3, SumInt, SumOfFunction
    <2>5. \A x, y, a, b \in Int : x * y - a * b \in Int
      OBVIOUS
    <2>6. n \in Int
      BY <1>1
    <2>7. QED
      BY <2>4, <2>5, <2>6
  <1>5. Total(e) = totalVar /\ totalVar \in Int
    <2> DEFINE cols == [i \in C |-> col(i)]
               s == [i \in C |-> Total(col(i))]
               prod == [i \in C |-> [j \in C |-> pairs(i, j)]]
               q == [i \in C |-> [j \in C |-> Total(pairs(i, j))]]
               covs == [i \in C |-> rest(i)]
               sq == [p \in R |-> T[p] * T[p]]
    <2>1. \A p \in R, i \in C : w[p][i] \in Int /\ cols[i][p] = w[p][i]
      BY <1>2
    <2>2. \A p \in R : T[p] = SumOver(w[p], C) /\ sq[p] = T[p] * T[p]
      BY <1>3, SumOfFunction
    <2>3. \A i \in C : s[i] = SumOver(cols[i], R)
      <3> TAKE i \in C
      <3>1. col(i) = [p \in R |-> col(i)[p]] /\ s[i] = Total(col(i)) /\ cols[i] = col(i)
        OBVIOUS
      <3> HIDE DEF col, s, cols
      <3>2. QED
        BY <3>1, SumOfFunction
    <2>4. \A i, j \in C, p \in R : prod[i][j][p] = w[p][i] * w[p][j]
      OBVIOUS
    <2>5. \A i, j \in C : /\ q[i][j] = SumOver(prod[i][j], R)
                          /\ covs[i][j] = n * q[i][j] - s[i] * s[j]
      <3> TAKE i, j \in C
      <3>1. /\ pairs(i, j) = [p \in R |-> pairs(i, j)[p]]
            /\ q[i][j] = Total(pairs(i, j)) /\ prod[i][j] = pairs(i, j)
        OBVIOUS
      <3>2. covs[i][j] = cov(i, j) /\ s[i] = Total(col(i)) /\ s[j] = Total(col(j))
        OBVIOUS
      <3>3. covs[i][j] = n * q[i][j] - s[i] * s[j]
        BY <3>1, <3>2
      <3> HIDE DEF pairs, q, prod
      <3>4. q[i][j] = SumOver(prod[i][j], R)
        BY <3>1, SumOfFunction
      <3>5. QED
        BY <3>3, <3>4
    <2>6. \A i \in C : e[i] = SumOver(covs[i], C)
      <3> TAKE i \in C
      <3>1. rest(i) = [j \in C |-> rest(i)[j]] /\ e[i] = Total(rest(i)) /\ covs[i] = rest(i)
        OBVIOUS
      <3> HIDE DEF rest, e, covs
      <3>2. QED
        BY <3>1, SumOfFunction
    <2>7. /\ T = [p \in R |-> T[p]] /\ sq = [p \in R |-> sq[p]] /\ e = [i \in C |-> e[i]]
          /\ DOMAIN T = R
      OBVIOUS
    <2>8. sq = [r \in DOMAIN T |-> T[r] * T[r]]
      OBVIOUS
    <2>9. n \in Int
      BY <1>1
    <2>10. Cardinality(DOMAIN T) = n
      BY <2>7
    <2> HIDE DEF cols, s, prod, q, covs, sq, T, e, n
    <2>11. SumOver(e, C) = n * SumOver(sq, R) - SumOver(T, R) * SumOver(T, R)
      <3>1. Moments(R, C, n, w, cols, T, s, prod, q, covs, e, sq)
        BY <2>1, <2>2, <2>3, <2>4, <2>5, <2>6 DEF Moments
      <3>2. QED
        BY <2>9, <3>1, CovariancesAdd
    <2>12. totalVar = n * Total(sq) - Total(T) * Total(T)
      BY <2>8, <2>10 DEF Spread
    <2>13. /\ SumOver(e, C) = Total(e) /\ SumOver(sq, R) = Total(sq)
           /\ SumOver(T, R) = Total(T)
      BY <2>7, SumOfFunction
    <2>14. Total(e) = totalVar
      BY <2>11, <2>12, <2>13
    <2>15. Total(e) \in Int
      <3>1. ASSUME NEW i \in C PROVE SumOver(covs[i], C) \in Int
        <4>1. \A j \in C : covs[i][j] \in Int
          BY <1>4 DEF covs
        <4>2. QED
          BY <4>1, SumInt
      <3>2. \A i \in C : e[i] \in Int
        BY <2>6, <3>1
      <3>3. QED
        BY <2>13, <3>2, SumInt
    <2>16. QED
      BY <2>14, <2>15
  <1>6. Total(diag) = itemVars /\ itemVars \in Int
    <2>1. ASSUME NEW i \in C PROVE Spread(col(i)) = cov(i, i)
      <3>1. DOMAIN col(i) = R
        OBVIOUS
      <3>2. [r \in DOMAIN col(i) |-> col(i)[r] * col(i)[r]] = pairs(i, i)
        OBVIOUS
      <3> HIDE DEF col, pairs
      <3>3. QED
        BY <3>1, <3>2 DEF Spread
    <2>2. diag = [c \in C |-> Spread([r \in R |-> w[r][c]])]
      BY <2>1
    <2>3. (\A i \in C : diag[i] \in Int) /\ diag = [i \in C |-> diag[i]]
      BY <1>4
    <2> HIDE DEF diag
    <2>4. Total(diag) \in Int
      BY <2>3, SumInt, SumOfFunction
    <2>5. QED
      BY <2>2, <2>4
  <1>7. CronbachAlpha(w, R, C) =
          IF R = {} \/ k < 2 \/ totalVar = 0 \/ itemVars > totalVar THEN <<0, 1>>
          ELSE <<k * (totalVar - itemVars), (k - 1) * totalVar>>
    BY DEF CronbachAlpha
  <1> DEFINE all == Total(e)
             off == all - Total(diag)
             alpha == CronbachAlpha(w, R, C)
  <1> HIDE DEF e, diag, totalVar, itemVars, n, k
  <1>8. IF n = 0 \/ k < 2 \/ all = 0 \/ off <= 0 THEN alpha[1] = 0
        ELSE alpha[1] * (k - 1) * all = alpha[2] * k * off
    <2>1. all \in Int /\ off \in Int /\ k \in Nat /\ all = totalVar /\ off = totalVar - itemVars
      BY <1>1, <1>5, <1>6
    <2>2. itemVars > totalVar <=> off < 0
      BY <1>5, <1>6, <2>1
    <2>3. CASE n = 0 \/ k < 2 \/ all = 0 \/ off < 0
      BY <1>1, <1>7, <2>1, <2>2, <2>3
    <2>4. CASE ~(n = 0 \/ k < 2 \/ all = 0 \/ off < 0)
      <3>1. alpha = <<k * off, (k - 1) * all>>
        BY <1>1, <1>7, <2>1, <2>2, <2>4
      <3>2. alpha[1] = k * off /\ alpha[2] = (k - 1) * all
        BY <3>1
      <3>3. \A x, y, z \in Int : (x * y) * (x - 1) * z = ((x - 1) * z) * x * y
        OBVIOUS
      <3>4. k * 0 = 0
        BY <2>1
      <3> HIDE DEF alpha, all, off
      <3>5. alpha[1] * (k - 1) * all = alpha[2] * k * off
        BY <2>1, <3>2, <3>3
      <3>6. off = 0 => alpha[1] = 0
        BY <3>2, <3>4
      <3>7. QED
        BY <2>1, <2>4, <3>5, <3>6
    <2> HIDE DEF alpha, all, off
    <2>5. QED
      BY <2>1, <2>3, <2>4
  <1>9. QED
    BY <1>8 DEF ByCovariances, e, diag, n, k

-----------------------------------------------------------------------------
(* Summaries: an inductive invariant beside the one of totals. *)

(* A finished summary has the number and the coefficient of the rows of the *)
(* responses that were read, a finite set.                                  *)
Summarised ==
    /\ IsFiniteSet(report.rs)
    /\ Finished({"summary"}) =>
          LET C == FilterLikert(report.items)
              R == AlphaRows(C, report.rs)
          IN  /\ report.n = Cardinality(R)
              /\ report.alpha = CronbachAlpha(AlphaMatrix(C, report.rs), R, C)

Summaries == IsFiniteSet(response) /\ (report # NULL => Summarised)

LEMMA ResponsesStayFinite ==
    ASSUME Summaries, [Next]_vars
    PROVE  IsFiniteSet(response')
  <1>1. IsFiniteSet(response)
    BY DEF Summaries
  <1>2. ASSUME NEW p \in Participant, StoreRow(p)
        PROVE  IsFiniteSet(response')
    <2>1. PICK r : response' = response \/ response' = response \cup {r}
      BY <1>2 DEF StoreRow
    <2>2. QED
      BY <1>1, <2>1, FS_AddElement
  <1>3. ASSUME DeleteItem
        PROVE  IsFiniteSet(response')
    <2>1. PICK i, cascades :
            response' = IF cascades THEN {r \in response : r.item # i} ELSE response
      BY <1>3 DEF DeleteItem
    <2>2. response' \subseteq response
      BY <2>1
    <2>3. QED
      BY <1>1, <2>2, FS_Subset
  <1>4. ASSUME NEW p \in Participant
        PROVE  /\ Open(p) => response' = response
               /\ Submit(p) => response' = response
               /\ ScoreItem(p) => response' = response
    <2>1. Open(p) => response' = response
      BY DEF Open
    <2>2. Submit(p) => response' = response
      BY DEF Submit
    <2>3. ScoreItem(p) => response' = response
      BY DEF ScoreItem
    <2>4. QED
      BY <2>1, <2>2, <2>3
  <1>5. ASSUME UpdateScale \/ UpdateItem \/ AddItem
        PROVE  response' = response
    BY <1>5 DEF UpdateScale, UpdateItem, AddItem
  <1>6. ASSUME \/ BeginReport \/ ReadItems \/ ReadForWide \/ MergeConsents
               \/ ReadForScore \/ ReadForSummary \/ Close \/ UNCHANGED vars
        PROVE  response' = response
    <2>1. BeginReport \/ ReadItems \/ Close \/ UNCHANGED vars => response' = response
      BY DEF BeginReport, ReadItems, Close, vars
    <2>2. ReadForWide => response' = response
      BY DEF ReadForWide
    <2>3. MergeConsents => response' = response
      BY DEF MergeConsents
    <2>4. ReadForScore => response' = response
      BY DEF ReadForScore
    <2>5. ReadForSummary => response' = response
      BY DEF ReadForSummary
    <2>6. QED
      BY <1>6, <2>1, <2>2, <2>3, <2>4, <2>5
  <1>7. QED
    BY <1>1, <1>2, <1>3, <1>4, <1>5, <1>6 DEF Next

(* What a step of the report has to keep. *)
LEMMA SummaryReads ==
    ASSUME Scores, Summaries, report' # NULL
    PROVE  BeginReport \/ ReadItems \/ ReadForWide \/ MergeConsents
              \/ ReadForScore \/ ReadForSummary \/ Close => Summarised'
  <1>1. ASSUME report # NULL
        PROVE  Summarised /\ ReportOK /\ report = [x \in ReportField |-> report[x]]
    BY <1>1 DEF Scores, Summaries, ReportOK
  <1>2. ASSUME BeginReport PROVE Summarised'
    <2>1. report'.phase = "items" /\ report'.rs = {}
      BY <1>2 DEF BeginReport
    <2>2. QED
      BY <2>1, FS_EmptySet DEF Summarised, Finished
  <1>3. ASSUME ReadItems PROVE Summarised'
    <2>1. /\ report # NULL
          /\ report' = [report EXCEPT !.phase = "responses", !.items = item]
      BY <1>3 DEF ReadItems
    <2>2. report'.phase = "responses" /\ report'.rs = report.rs
      BY <1>1, <2>1 DEF ReportField
    <2>3. QED
      BY <1>1, <2>1, <2>2 DEF Summarised, Finished
  <1>4. ASSUME report # NULL, NEW f \in Formats, NEW new, new = Responses(f)
        PROVE  /\ new = [x \in ReportField |-> new[x]]
               /\ new.fmt = f /\ new.rs = response /\ new.items = report.items
               /\ new.phase = IF f.kind \in {"wide", "label"} THEN "consents" ELSE "done"
    BY <1>1, <1>4 DEF Responses, ReportField
  <1>5. ASSUME ReadForWide PROVE Summarised'
    <2>0. PICK f \in {x \in Formats : x.kind \in {"wide", "label"}} :
            \E t : report' = [Responses(f) EXCEPT !.table = t]
      BY <1>5, Zenon DEF ReadForWide
    <2>1. PICK t, new : report' = [new EXCEPT !.table = t] /\ new = Responses(f)
      BY <2>0
    <2>2. report # NULL
      BY <1>5 DEF ReadForWide
    <2>3. /\ new = [x \in ReportField |-> new[x]] /\ new.rs = response
          /\ new.phase = "consents"
      BY <1>4, <2>0, <2>1, <2>2
    <2>4. report'.rs = response /\ report'.phase = "consents"
      BY <2>1, <2>3
    <2>5. QED
      BY <2>4 DEF Summarised, Summaries, Finished
  <1>6. ASSUME MergeConsents PROVE Summarised'
    <2>1. report # NULL /\ report.phase = "consents"
      BY <1>6 DEF MergeConsents
    <2>2. PICK T, ks :
            /\ \A p \in DOMAIN ks : ks[p] \in SetToSeqs(DOMAIN form[p].consent)
            /\ DOMAIN ks = DOMAIN report.table
            /\ T = [p \in DOMAIN report.table |->
                      MergeConsent(report.table[p], form[p].consent, ks[p], scale,
                                   report.fmt.consent)]
            /\ report' = [report EXCEPT !.phase = "done", !.consentScale = scale,
                                        !.table = WithRows(T)]
      BY <1>6, Zenon DEF MergeConsents
    <2>3. PICK t : t = WithRows(T)
      OBVIOUS
    <2>4. report' = [report EXCEPT !.phase = "done", !.consentScale = scale, !.table = t]
      BY <2>2, <2>3
    <2>5. report'.rs = report.rs /\ report'.fmt = report.fmt
      BY <1>1, <2>1, <2>4 DEF ReportField
    <2>6. report'.fmt.kind \in {"wide", "label"}
      BY <1>1, <2>1, <2>4, <2>5 DEF ReportOK
    <2>7. QED
      BY <1>1, <2>1, <2>5, <2>6 DEF Summarised, Finished
  <1>7. ASSUME ReadForScore PROVE Summarised'
    <2>1. PICK f \in Formats : /\ f.kind = "score"
                               /\ report' = [Responses(f) EXCEPT !.totals = Totals(response)]
      BY <1>7 DEF ReadForScore
    <2>2. PICK t, new : report' = [new EXCEPT !.totals = t] /\ new = Responses(f)
      BY <2>1
    <2>3. report # NULL
      BY <1>7 DEF ReadForScore
    <2>4. new = [x \in ReportField |-> new[x]] /\ new.rs = response /\ new.fmt = f
      BY <1>4, <2>2, <2>3
    <2>5. report'.rs = response /\ report'.fmt = f
      BY <2>2, <2>4
    <2>6. QED
      BY <2>1, <2>5 DEF Summarised, Summaries, Finished
  <1>8. ASSUME ReadForSummary PROVE Summarised'
    <2> DEFINE C == FilterLikert(report.items)
               R == AlphaRows(C, response)
               A == CronbachAlpha(AlphaMatrix(C, response), R, C)
               H == Histogram(C, response, report.scale.points)
    <2>1. PICK f \in {x \in Formats : x.kind = "summary"} :
            report' = [Responses(f) EXCEPT !.alpha = A, !.n = Cardinality(R), !.histogram = H]
      BY <1>8, Zenon DEF ReadForSummary
    <2> HIDE DEF C, R, A, H
    <2>2. PICK a, n, h, new : a = A /\ n = Cardinality(R) /\ h = H /\ new = Responses(f)
      OBVIOUS
    <2>3. report' = [new EXCEPT !.alpha = a, !.n = n, !.histogram = h]
      BY <2>1, <2>2
    <2>4. report # NULL
      BY <1>8 DEF ReadForSummary
    <2>5. /\ new = [x \in ReportField |-> new[x]]
          /\ new.rs = response /\ new.items = report.items
      BY <1>4, <2>2, <2>4
    <2>6. /\ report'.rs = response /\ report'.items = report.items
          /\ report'.alpha = a /\ report'.n = n
      BY <2>3, <2>5 DEF ReportField
    <2>7. FilterLikert(report'.items) = C
      BY <2>6 DEF C
    <2>8. AlphaRows(FilterLikert(report'.items), report'.rs) = R
      BY <2>6, <2>7 DEF R
    <2>9. /\ report'.n = Cardinality(R)
          /\ report'.alpha = CronbachAlpha(AlphaMatrix(C, report'.rs), R, C)
      BY <2>2, <2>6 DEF A
    <2>10. IsFiniteSet(report'.rs)
      BY <2>6 DEF Summaries
    <2>11. QED
      BY <2>7, <2>8, <2>9, <2>10 DEF Summarised
  <1>9. ASSUME Close PROVE Summarised'
    BY <1>9 DEF Close
  <1>10. QED
    BY <1>2, <1>3, <1>5, <1>6, <1>7, <1>8, <1>9

LEMMA SummariesKeep == Scores /\ Summaries /\ [Next]_vars => Summaries'
  <1> SUFFICES ASSUME Scores, Summaries, [Next]_vars PROVE Summaries'
    OBVIOUS
  <1>1. IsFiniteSet(response')
    BY ResponsesStayFinite
  <1>2. ASSUME report' = report
        PROVE  report' # NULL => Summarised'
    BY <1>2 DEF Summaries, Summarised, Finished
  <1>3. ASSUME NEW p \in Participant, Open(p) \/ Submit(p) \/ ScoreItem(p) \/ StoreRow(p)
        PROVE  report' = report
    <2>1. Open(p) => report' = report
      BY DEF Open
    <2>2. Submit(p) => report' = report
      BY DEF Submit
    <2>3. ScoreItem(p) => report' = report
      BY DEF ScoreItem
    <2>4. StoreRow(p) => report' = report
      BY DEF StoreRow
    <2>5. QED
      BY <1>3, <2>1, <2>2, <2>3, <2>4
  <1>4. ASSUME UpdateScale \/ UpdateItem \/ DeleteItem \/ AddItem \/ UNCHANGED vars
        PROVE  report' = report
    BY <1>4 DEF UpdateScale, UpdateItem, DeleteItem, AddItem, vars
  <1>5. QED
    BY <1>1, <1>2, <1>3, <1>4, SummaryReads DEF Next, Summaries

LEMMA SummariesHold == Spec => [](Scores /\ Summaries)
  <1>1. Init => Scores /\ Summaries
    BY ScoresStart, FS_EmptySet DEF Init, Summaries
  <1>2. (Scores /\ Summaries) /\ [Next]_vars => (Scores /\ Summaries)'
    BY ScoresKeep, SummariesKeep
  <1>3. QED
    BY <1>1, <1>2, PTL DEF Spec

LEMMA AlphaRight ==
    ASSUME Scores, Summaries
    PROVE  AlphaOfAnswers
  <1> DEFINE C == FilterLikert(report.items)
             R == {p \in Pids(report.rs) : C \subseteq Answered(p)}
             w == [p \in R |-> [i \in C |-> Worth(p, i)]]
  <1>1. SUFFICES ASSUME Finished({"summary"}),
                        \A p \in R, i \in C : Unchanged(p, i) /\ ButtonsScored(p, i)
                 PROVE  /\ R = AlphaRows(C, report.rs)
                        /\ w = AlphaMatrix(C, report.rs)
                        /\ IsFiniteSet(R) /\ IsFiniteSet(C) /\ w \in [R -> [C -> Int]]
    <2>1. ASSUME Finished({"summary"})
          PROVE  LET r == AlphaRows(C, report.rs)
                 IN  /\ report.n = Cardinality(r)
                     /\ report.alpha = CronbachAlpha(AlphaMatrix(C, report.rs), r, C)
      BY <2>1 DEF Finished, Summaries, Summarised
    <2>2. ASSUME Finished({"summary"}),
                 \A p \in R, i \in C : Unchanged(p, i) /\ ButtonsScored(p, i)
          PROVE  /\ report.n = Cardinality(R) /\ report.alpha = CronbachAlpha(w, R, C)
                 /\ IsFiniteSet(R) /\ IsFiniteSet(C) /\ w \in [R -> [C -> Int]]
      <3> HIDE DEF w, R, C
      <3>1. QED
        BY <1>1, <2>1, <2>2
    <2> HIDE DEF w, R, C
    <2>3. ASSUME Finished({"summary"}),
                 \A p \in R, i \in C : Unchanged(p, i) /\ ButtonsScored(p, i)
          PROVE  ByCovariances(report.alpha, w, R, C)
      BY <2>2, <2>3, AlphaByCovariances
    <2>4. QED
      BY <2>2, <2>3 DEF AlphaOfAnswers, ByCovariances, w, R, C
  <1>2. ReportOK /\ IsFiniteSet(report.rs)
    BY <1>1 DEF Finished, Scores, Summaries, Summarised
  <1>3. C \subseteq Item /\ IsFiniteSet(C)
    BY TextAssumption, FS_Subset DEF TextAssumption, FilterLikert
  <1>4. \A r \in report.rs : r.pid \in Participant
    BY <1>2 DEF ReportOK, IsRow
  <1>5. R = AlphaRows(C, report.rs)
    <2> HIDE DEF C
    <2>1. QED
      BY <1>4 DEF AlphaRows, Pids, Answered, Of
  <1>6. IsFiniteSet(R)
    <2> DEFINE f == [r \in report.rs |-> r.pid]
    <2>1. IsFiniteSet(Pids(report.rs))
      <3>1. f \in Surjection(report.rs, Pids(report.rs))
        BY DEF Surjection, Pids
      <3> HIDE DEF f
      <3>2. QED
        BY <1>2, <3>1, FS_Surjection
    <2>2. QED
      BY <2>1, FS_Subset
  <1>7. ASSUME NEW p \in R, NEW i \in C
        PROVE  ScoreOf(report.rs, p, i) = Worth(p, i) /\ Worth(p, i) \in Int
    BY <1>1, <1>2, ScoreIsWorth
  <1>8. w = AlphaMatrix(C, report.rs)
    <2> HIDE DEF C, R
    <2>1. QED
      BY <1>5, <1>7 DEF AlphaMatrix
  <1>9. w \in [R -> [C -> Int]]
    BY <1>7
  <1>10. QED
    BY <1>3, <1>5, <1>6, <1>8, <1>9

(* The coefficient of a summary is the one of the buttons pressed, by the    *)
(* covariances of the items, for any items and participants, if what is     *)
(* summarised has not been edited from the forms to the report              *)
(* (analytics_service.go, Summary and buildAlphaMatrix; cronbach.go).       *)
THEOREM AlphaIsOfAnswers == Spec => []AlphaOfAnswers
  <1>1. Scores /\ Summaries => AlphaOfAnswers
    BY AlphaRight
  <1>2. QED
    BY <1>1, SummariesHold, PTL
=============================================================================
