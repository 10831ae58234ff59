------------------------------ MODULE Reports ------------------------------
(***************************************************************************)
(* What becomes of an answer: the button a participant presses, the value  *)
(* and the score the server stores, and the cell, the total and the        *)
(* reliability coefficient a researcher gets.  The definitions of the      *)
(* scale and of its items may change between any two of the reads.         *)
(*                                                                         *)
(* One scale without end-to-end encryption.  A payload is a record whose   *)
(* field is its JSON kind: [num |-> 3], [str |-> w] or [arr |-> <<w>>].    *)
(* A column name is a sequence: <<base>>, or <<base, n>> for "base (n)".   *)
(***************************************************************************)
EXTENDS Integers, FiniteSetsExt, SequencesExt, Functions

CONSTANTS
    Item, Participant, Lang,
    English,        \* the language every table falls back to
    Key,            \* consent options
    ScaleDefs,      \* definitions an editor gives the scale
    ItemDefs,       \* definitions an editor gives an item
    Recast(_),      \* definitions an editor may change a definition to
    Reads,          \* languages each participant may read the form in
    Signs,          \* consents each may sign: partial functions Key -> BOOLEAN
    Formats,        \* reports a researcher asks for
    MaxEdits,       \* bound: changes of the definitions
    MaxOpen,        \* bound: forms that are open or being stored
    NULL

ASSUME ReportsAssumption ==
    /\ English \in Lang
    /\ \A p \in Participant : Reads[p] \subseteq Lang
    /\ \A d \in ScaleDefs : d.points \in Nat /\ \A l \in Lang : Len(d.labels[l]) \in Nat
    /\ \A d \in ItemDefs :
          /\ d.type \in {"likert", "rating", "single", "multiple"}
          /\ d.reverse \in BOOLEAN
          /\ \A l \in Lang : Len(d.labels[l]) \in Nat
          /\ Recast(d) \subseteq ItemDefs

IsSequence(s) == Len(s) \in Nat /\ s = [n \in 1..Len(s) |-> s[n]]

(* Ids are numbers and no option of a consent; lists of labels and names of *)
(* columns are sequences; a report names languages.                         *)
ASSUME TextAssumption ==
    /\ Item \subseteq Nat /\ IsFiniteSet(Item) /\ IsFiniteSet(Key) /\ Item \cap Key = {}
    /\ NULL \notin ItemDefs /\ NULL \notin Lang
    /\ \A p \in Participant : \A c \in Signs[p] : DOMAIN c \subseteq Key
    /\ \A d \in ItemDefs : \A l \in Lang : 
          /\ IsSequence(d.labels[l]) /\ IsSequence(d.options[l])
          /\ d.stem[l] # NULL => IsSequence(d.stem[l])
    /\ \A d \in ScaleDefs : \A l \in Lang :
          /\ IsSequence(d.labels[l])
          /\ \A k \in Key : d.consent[k][l] # NULL => IsSequence(d.consent[k][l])
    /\ \A f \in Formats : {f.header, f.value} \subseteq Lang /\ f.consent \in Lang \cup {NULL}

VARIABLES
    scale,          \* points, likert_labels_i18n, consent labels
    item,           \* rows of items, NULL where there is none
    response,       \* rows of responses
    form,           \* each participant's form, with what it showed
    report,         \* the report under way
    edits           \* changes of each item, and of the scale at NULL

vars == <<scale, item, response, form, report, edits>>

-----------------------------------------------------------------------------
(* From a button to a row *)

(* The labels of a table in a language, or the English ones. *)
Shown(table, lang) == IF table[lang] # <<>> THEN table[lang] ELSE table[English]

Buttons(it, sc, lang) ==
    IF Shown(it.labels, lang) # <<>> THEN Len(Shown(it.labels, lang)) ELSE sc.points

(* What a participant can send: a value pressed, an option, some options. *)
Payloads(it, sc, lang) ==
    CASE it.type = "likert"   -> {[num |-> x] : x \in 1..Buttons(it, sc, lang)}
      [] it.type = "rating"   -> {[num |-> x] : x \in 0..1}
      [] it.type = "single"   -> {[str |-> w] : w \in ToSet(Shown(it.options, lang))}
      [] it.type = "multiple" ->
            {[arr |-> s] : s \in UNION {SetToSeqs(W) :
                                W \in SUBSET ToSet(Shown(it.options, lang)) \ {{}}}}

IsNumber(raw) == "num" \in DOMAIN raw

(* Mutant of ReverseScore: the scale starts at 0. *)
ReverseFromZero(raw, points) == IF points < 2 THEN raw ELSE points - raw

ReverseScore(raw, points) ==
    IF points < 2 THEN raw
    ELSE points + 1 - (IF raw < 1 THEN 1 ELSE IF raw > points THEN points ELSE raw)

(* The raw value and the score of an answer to an item as the adapter hands *)
(* it over: no bounds and no options, so a rating is never out of range and *)
(* a chosen text is kept in the language it was shown in.                   *)
Scored(it, raw, points) ==
    CASE it.type = "likert" /\ IsNumber(raw) /\ raw.num \in 1..points ->
            [raw |-> raw.num,
             score |-> IF it.reverse THEN ReverseScore(raw.num, points) ELSE raw.num]
      [] it.type = "rating" /\ IsNumber(raw) -> [raw |-> raw.num, score |-> raw.num]
      [] OTHER -> [raw |-> 0, score |-> 0]

BuildResponse(p, i, it, raw, points) ==
    [pid |-> p, item |-> i, raw |-> Scored(it, raw, points).raw,
     score |-> Scored(it, raw, points).score, json |-> raw]

-----------------------------------------------------------------------------
(* From a row to a cell *)

(* Lists in which a label is looked up, in the order of a Go map.  The      *)
(* first match of any order is the position in one of the lists.            *)
FindIndex(table, w) ==
    {n \in UNION {DOMAIN table[l] : l \in Lang} :
        \E l \in Lang : /\ n \in DOMAIN table[l] /\ table[l][n] = w
                        /\ \A m \in 1..(n - 1) : table[l][m] # w}

(* The label at a position, in the language asked for or else in English.   *)
HasLabel(table, lang, n) == n \in DOMAIN table[lang] \/ n \in DOMAIN table[English]
LabelAt(table, lang, n) ==
    IF n \in DOMAIN table[lang] THEN table[lang][n] ELSE table[English][n]

(* What a chosen text may be exported as: its own position decides, or that *)
(* of the same text in another language.                                    *)
Translations(table, lang, w) ==
    IF FindIndex(table, w) = {} THEN {w}
    ELSE UNION {IF HasLabel(table, lang, n) THEN {LabelAt(table, lang, n)}
                ELSE {table[l][n] : l \in {x \in Lang : n \in DOMAIN table[x]}} :
                n \in FindIndex(table, w)}

(* Text a JSON payload of an item with options is exported as. *)
MapRawJSONToLang(it, raw, lang) ==
    IF "str" \in DOMAIN raw
    THEN {[str |-> w] : w \in Translations(it.options, lang, raw.str)}
    ELSE {[arr |-> s] : s \in
            {t \in [DOMAIN raw.arr -> UNION {Translations(it.options, lang, raw.arr[n]) :
                                               n \in DOMAIN raw.arr}] :
                \A n \in DOMAIN t : t[n] \in Translations(it.options, lang, raw.arr[n])}}

HasOptions(it) == \E l \in Lang : it.options[l] # <<>>

(* Mutant of ValueToLabel: labels are looked up by the score. *)
LabelOfScore(it, sc, r, lang) ==
    IF it.type = "likert" /\ r.raw > 0
    THEN IF HasLabel(it.labels, lang, r.score)
         THEN {[str |-> LabelAt(it.labels, lang, r.score)]}
         ELSE IF HasLabel(sc.labels, lang, r.score)
         THEN {[str |-> LabelAt(sc.labels, lang, r.score)]}
         ELSE {[num |-> r.raw]}
    ELSE IF HasOptions(it) /\ ~IsNumber(r.json) THEN MapRawJSONToLang(it, r.json, lang)
    ELSE {r.json}

ValueToLabel(it, sc, r, lang) ==
    CASE it.type = "likert" /\ r.raw > 0 ->
            IF HasLabel(it.labels, lang, r.raw)
            THEN {[str |-> LabelAt(it.labels, lang, r.raw)]}
            ELSE IF HasLabel(sc.labels, lang, r.raw)
            THEN {[str |-> LabelAt(sc.labels, lang, r.raw)]}
            ELSE {[num |-> r.raw]}
      [] HasOptions(it) /\ ~IsNumber(r.json) -> MapRawJSONToLang(it, r.json, lang)
      [] it.type = "rating" /\ ~(HasOptions(it) /\ ~IsNumber(r.json)) ->
            {[num |-> IF r.raw # 0 THEN r.raw ELSE r.score]}
      [] OTHER -> {r.json}

Suffix(name, n) == Append(name, n)
ItemId(i) == <<"item", i>>

BaseName(it, i, lang) ==
    IF it.stem[lang] # NULL THEN it.stem[lang]
    ELSE IF it.stem[English] # NULL THEN it.stem[English] ELSE ItemId(i)

(* Headers: the stem of an item, and of the second and later items with the *)
(* same stem the stem and a number, in the order of the list.               *)
Headers(items, lang) ==
    LET listed == {i \in Item : items[i] # NULL}
        base(i) == BaseName(items[i], i, lang)
        nth(i) == Cardinality({j \in listed : j <= i /\ base(j) = base(i)})
    IN [i \in listed |-> IF nth(i) = 1 THEN base(i) ELSE Suffix(base(i), nth(i))]

(* A cell and, for the properties, the item or consent option it is from. *)
Cell(source, value) == [src |-> source, val |-> value]

(* Rows with one of the given cells in each of their columns: when two items *)
(* have one header, the last one a Go map yields stays.                      *)
RowsOf(cells) ==
    {row \in [{c[1] : c \in cells} -> {c[2] : c \in cells}] :
        \A h \in DOMAIN row : <<h, row[h]>> \in cells}

Of(rs, p) == {r \in rs : r.pid = p}
Pids(rs) == {r.pid : r \in rs}

(* Mutant of NumericCells: stems are numbered among the answers of the row. *)
CellsByRow(rs, header) ==
    LET short(i) == SubSeq(header[i], 1, 1)
        name(i) == IF i \notin DOMAIN header THEN ItemId(i)
                   ELSE IF \E r \in rs : r.item < i /\ r.item \in DOMAIN header
                                         /\ short(r.item) = short(i)
                   THEN header[i] ELSE short(i)
    IN  {<<name(r.item), Cell(r.item, [num |-> r.score])>> : r \in rs}

(* Mutant of NumericCells: items that are not listed are left out. *)
ListedCells(rs, header) ==
    {<<header[r.item], Cell(r.item, [num |-> r.score])>> :
        r \in {x \in rs : x.item \in DOMAIN header}}

(* buildWideMap and applyItemHeaders: an item that is not listed keeps its id. *)
NumericCells(rs, header) ==
    {<<IF r.item \in DOMAIN header THEN header[r.item] ELSE ItemId(r.item),
       Cell(r.item, [num |-> r.score])>> : r \in rs}

(* buildWideMapStrings: an item that is not listed is left out. *)
LabelCells(rs, header, items, sc, lang) ==
    UNION {{<<header[r.item], Cell(r.item, v)>> : v \in ValueToLabel(items[r.item], sc, r, lang)} :
           r \in {x \in rs : x.item \in DOMAIN header}}

(* The cells of one participant in a table of format f. *)
RowCells(f, rs, items, sc) ==
    IF f.kind = "wide" THEN NumericCells(rs, Headers(items, f.header))
    ELSE LabelCells(rs, Headers(items, f.header), items, sc, f.value)

(* The first free name: base, "base (2)", "base (3)" ... *)
ColName(row, base) ==
    IF base \notin DOMAIN row THEN base
    ELSE Suffix(base, Min({n \in 2..(Cardinality(DOMAIN row) + 2) :
                              Suffix(base, n) \notin DOMAIN row}))

(* A consent column: its key, or with a language its label if it has one. *)
ConsentColumn(row, sc, k, lang) ==
    IF lang = NULL THEN <<"consent", k>>
    ELSE ColName(row, IF sc.consent[k][lang] # NULL THEN sc.consent[k][lang]
                      ELSE IF sc.consent[k][English] # NULL THEN sc.consent[k][English]
                      ELSE <<"consent", k>>)

(* The choice of a consent option written to a row. *)
MergeChoice(row, choices, k, sc, lang) ==
    LET col == ConsentColumn(row, sc, k, lang)
    IN  [h \in DOMAIN row \cup {col} |->
            IF h = col THEN Cell(k, [num |-> IF choices[k] THEN 1 ELSE 0]) ELSE row[h]]

(* The choices of a consent merged into a row, in the order ks. *)
MergeConsent(row, choices, ks, sc, lang) ==
    LET merged[n \in 0..Len(ks)] ==
            IF n = 0 THEN row ELSE MergeChoice(merged[n - 1], choices, ks[n], sc, lang)
    IN merged[Len(ks)]

-----------------------------------------------------------------------------
(* Reliability *)

Total(f) == FoldFunction(+, 0, f)

(* The population variance of the values of x, times the square of their number. *)
Spread(x) == Cardinality(DOMAIN x) * Total([r \in DOMAIN x |-> x[r] * x[r]])
             - Total(x) * Total(x)

(* Mutant of CronbachAlpha: without the factor k / (k - 1). *)
AlphaWithoutFactor(matrix, R, C) ==
    LET itemVars == Total([c \in C |-> Spread([r \in R |-> matrix[r][c]])])
        totalVar == Spread([r \in R |-> Total(matrix[r])])
    IN  IF R = {} \/ Cardinality(C) < 2 \/ totalVar = 0 \/ itemVars > totalVar THEN <<0, 1>>
        ELSE <<totalVar - itemVars, totalVar>>

(* Cronbach's alpha, as <<numerator, denominator>>, of a matrix with rows in *)
(* R and columns in C; nothing but 0 stands in for a negative value.         *)
CronbachAlpha(matrix, R, C) ==
    LET k == Cardinality(C)
        itemVars == Total([c \in C |-> Spread([r \in R |-> matrix[r][c]])])
        totalVar == Spread([r \in R |-> Total(matrix[r])])
    IN  IF R = {} \/ k < 2 \/ totalVar = 0 \/ itemVars > totalVar THEN <<0, 1>>
        ELSE <<k * (totalVar - itemVars), (k - 1) * totalVar>>

FilterLikert(items) == {i \in Item : items[i] # NULL /\ items[i].type = "likert"}

(* The rows of the participants with a response to every item of C. *)
AlphaRows(C, rs) ==
    {p \in Participant : (\E r \in rs : r.pid = p)
                         /\ \A i \in C : \E r \in rs : r.pid = p /\ r.item = i}
ScoreOf(rs, p, i) == (CHOOSE r \in rs : r.pid = p /\ r.item = i).score
AlphaMatrix(C, rs) == [p \in AlphaRows(C, rs) |-> [i \in C |-> ScoreOf(rs, p, i)]]

(* Of each participant with a response, the sum of the scores. *)
Totals(rs) ==
    [p \in Pids(rs) |-> Total([i \in {r.item : r \in Of(rs, p)} |-> ScoreOf(rs, p, i)])]

(* Of each item, how many responses have each score. *)
Histogram(C, rs, points) ==
    [i \in C |-> [v \in 1..points |-> Cardinality({r \in rs : r.item = i /\ r.score = v})]]

-----------------------------------------------------------------------------
(* A participant *)

(* There is no form yet. *)
NoForm == [phase |-> "none"]

(* Bound: a finished report, which no step reads, is closed before anything *)
(* else happens.                                                            *)
Ready == report # NULL => report.phase # "done"

Init ==
    /\ scale \in ScaleDefs
    /\ item \in [Item -> ItemDefs \cup {NULL}]
    /\ response = {} /\ form = [p \in Participant |-> NoForm]
    /\ report = NULL /\ edits = [x \in Item \cup {NULL} |-> 0]

Underway == {p \in Participant : /\ form[p] # NoForm
                               /\ \/ form[p].phase = "open" \/ form[p].todo # {}
                                  \/ form[p].built # {}}

Open(p) ==
    /\ Ready
    /\ form[p] = NoForm /\ Cardinality(Underway) < MaxOpen
    /\ \E l \in Reads[p], c \in Signs[p] :
          form' = [form EXCEPT ![p] = [phase |-> "open", lang |-> l, items |-> item,
                                      scale |-> scale, consent |-> c, answers |-> <<>>,
                                      points |-> 0, todo |-> {}, built |-> {},
                                      edits |-> edits]]
    /\ UNCHANGED <<scale, item, response, report, edits>>

(* What can be sent from a form: an answer to some of the items it shows. *)
Answers(f) ==
    LET shown == {i \in Item : f.items[i] # NULL}
        sent(i) == Payloads(f.items[i], f.scale, f.lang)
    IN  UNION {{a \in [D -> UNION {sent(i) : i \in D}] : \A i \in D : a[i] \in sent(i)} :
               D \in SUBSET shown}

(* Mutant of Submit: every item of the scale is looked for. *)
SubmitAll(p) ==
    /\ Ready
    /\ form[p].phase = "open"
    /\ \E a \in Answers(form[p]) :
          form' = [form EXCEPT ![p].phase = "scoring", ![p].answers = a,
                              ![p].points = scale.points, ![p].todo = Item]
    /\ UNCHANGED <<scale, item, response, report, edits>>

(* The request: the server reads the points of the scale once. *)
Submit(p) ==
    /\ Ready
    /\ form[p].phase = "open"
    /\ \E a \in Answers(form[p]) :
          form' = [form EXCEPT ![p].phase = "scoring", ![p].answers = a,
                              ![p].points = scale.points, ![p].todo = DOMAIN a]
    /\ UNCHANGED <<scale, item, response, report, edits>>

(* One GetItem: an item that is gone is skipped. *)
ScoreItem(p) ==
    /\ Ready
    /\ form[p].phase = "scoring"
    /\ \E i \in form[p].todo :
          form' = [form EXCEPT ![p].todo = @ \ {i},
                              ![p].built = IF item[i] = NULL THEN @
                                           ELSE @ \cup {BuildResponse(p, i, item[i],
                                                   form[p].answers[i], form[p].points)}]
    /\ UNCHANGED <<scale, item, response, report, edits>>

(* One row of AddResponses: it finds no scale for an item that is gone. *)
StoreRow(p) ==
    /\ Ready
    /\ form[p].phase = "scoring" /\ form[p].todo = {}
    /\ \E r \in form[p].built :
          /\ response' = IF item[r.item] = NULL THEN response ELSE response \cup {r}
          /\ form' = [form EXCEPT ![p].built = @ \ {r}]
    /\ UNCHANGED <<scale, item, report, edits>>

-----------------------------------------------------------------------------
(* An editor *)

Edit(x) == Total(edits) < MaxEdits /\ edits' = [edits EXCEPT ![x] = @ + 1]

UpdateScale ==
    /\ Ready
    /\ Edit(NULL)
    /\ \E d \in ScaleDefs \ {scale} : scale' = d
    /\ UNCHANGED <<item, response, form, report>>

UpdateItem ==
    /\ Ready
    /\ \E i \in Item : /\ Edit(i)
                        /\ item[i] # NULL
                        /\ \E d \in Recast(item[i]) : item' = [item EXCEPT ![i] = d]
    /\ UNCHANGED <<scale, response, form, report>>

(* On a connection without foreign keys the responses stay. *)
DeleteItem ==
    /\ Ready
    /\ \E i \in Item, cascades \in BOOLEAN :
          /\ Edit(i)
          /\ item[i] # NULL
          /\ item' = [item EXCEPT ![i] = NULL]
          /\ response' = IF cascades THEN {r \in response : r.item # i} ELSE response
    /\ UNCHANGED <<scale, form, report>>

(* Ids are generated: an item that is gone does not come back. *)
AddItem ==
    /\ Ready
    /\ \E i \in Item, d \in ItemDefs :
          /\ Edit(i)
          /\ item[i] = NULL
          /\ \A r \in response : r.item # i
          /\ \A p \in Participant : form[p] # NoForm => form[p].items[i] = NULL
          /\ report # NULL => report.items[i] = NULL
          /\ item' = [item EXCEPT ![i] = d]
    /\ UNCHANGED <<scale, response, form, report>>

-----------------------------------------------------------------------------
(* A researcher *)

(* The scale is read first; the format is looked at after the responses. *)
BeginReport ==
    /\ report = NULL
    /\ report' = [fmt |-> NULL, phase |-> "items", scale |-> scale, consentScale |-> scale,
                  items |-> [i \in Item |-> NULL], rs |-> {}, table |-> <<>>,
                  totals |-> <<>>, alpha |-> <<0, 1>>, n |-> 0, histogram |-> <<>>,
                  since |-> edits, edits |-> edits]
    /\ UNCHANGED <<scale, item, response, form, edits>>

ReadItems ==
    /\ report # NULL /\ report.phase = "items"
    /\ report' = [report EXCEPT !.phase = "responses", !.items = item]
    /\ UNCHANGED <<scale, item, response, form, edits>>

(* ListResponsesByScale, for a report in format f. *)
Responses(f) ==
    [report EXCEPT !.fmt = f, !.rs = response, !.edits = edits,
                   !.phase = IF f.kind \in {"wide", "label"} THEN "consents" ELSE "done"]

(* The table built from the responses. *)
ReadForWide ==
    /\ report # NULL /\ report.phase = "responses"
    /\ \E f \in {x \in Formats : x.kind \in {"wide", "label"}} :
       LET cells(p) == RowCells(f, Of(response, p), report.items, report.scale)
       IN \E t \in [Pids(response) -> UNION {RowsOf(cells(p)) : p \in Participant}] :
             /\ \A p \in DOMAIN t : t[p] \in RowsOf(cells(p))
             /\ report' = [Responses(f) EXCEPT !.table = t]
    /\ UNCHANGED <<scale, item, response, form, edits>>

(* A participant has a row as soon as something is written to it. *)
WithRows(t) == [p \in {q \in DOMAIN t : t[q] # <<>>} |-> t[p]]

(* mergeConsentWide reads the scale again; keys come in any order. *)
MergeConsents ==
    /\ report # NULL /\ report.phase = "consents"
    /\ \E ks \in [DOMAIN report.table -> UNION {SetToSeqs(K) : K \in SUBSET Key}] :
          /\ \A p \in DOMAIN ks : ks[p] \in SetToSeqs(DOMAIN form[p].consent)
          /\ report' = [report EXCEPT !.phase = "done", !.consentScale = scale,
                !.table = WithRows([p \in DOMAIN @ |->
                    MergeConsent(@[p], form[p].consent, ks[p], scale, report.fmt.consent)])]
    /\ UNCHANGED <<scale, item, response, form, edits>>

ReadForScore ==
    /\ report # NULL /\ report.phase = "responses"
    /\ \E f \in {x \in Formats : x.kind = "score"} :
          report' = [Responses(f) EXCEPT
                       !.totals = Totals(response)]
    /\ UNCHANGED <<scale, item, response, form, edits>>

ReadForSummary ==
    /\ report # NULL /\ report.phase = "responses"
    /\ LET C == FilterLikert(report.items)
           R == AlphaRows(C, response)
       IN \E f \in {x \in Formats : x.kind = "summary"} :
             report' = [Responses(f) EXCEPT
                          !.alpha = CronbachAlpha(AlphaMatrix(C, response), R, C),
                          !.n = Cardinality(R),
                          !.histogram = Histogram(C, response, report.scale.points)]
    /\ UNCHANGED <<scale, item, response, form, edits>>

Close ==
    /\ report # NULL /\ report.phase = "done"
    /\ report' = NULL
    /\ UNCHANGED <<scale, item, response, form, edits>>

Next ==
    \/ \E p \in Participant : Open(p) \/ Submit(p) \/ ScoreItem(p) \/ StoreRow(p)
    \/ UpdateScale \/ UpdateItem \/ DeleteItem \/ AddItem
    \/ BeginReport \/ ReadItems \/ ReadForWide \/ MergeConsents
    \/ ReadForScore \/ ReadForSummary \/ Close

Spec == Init /\ [][Next]_vars

-----------------------------------------------------------------------------
(* Properties *)

(* Every variable has its type: stored rows name a participant who sent a   *)
(* form and an item that was on it.                                         *)
TypeOK ==
    /\ scale \in ScaleDefs
    /\ item \in [Item -> ItemDefs \cup {NULL}]
    /\ edits \in [Item \cup {NULL} -> Nat]
    /\ \A r \in response : /\ form[r.pid] # NoForm /\ r.item \in DOMAIN form[r.pid].answers
                           /\ r.raw \in Int /\ r.score \in Int
                           /\ r.json = form[r.pid].answers[r.item]
    /\ \A p \in Participant : form[p] # NoForm =>
          /\ form[p].phase \in {"open", "scoring"}
          /\ form[p].todo \subseteq DOMAIN form[p].answers
    /\ report # NULL => /\ report.phase \in {"items", "responses", "consents", "done"}
                        /\ report.fmt \in Formats \cup {NULL} /\ report.rs \subseteq
                              [pid : Participant, item : Item, raw : Int, score : Int,
                               json : {r.json : r \in report.rs}]

Finished(kinds) == report # NULL /\ report.phase = "done" /\ report.fmt.kind \in kinds

(* The form, the answers and the report saw one definition of the item and  *)
(* of the scale.                                                            *)
Unchanged(p, i) == \A x \in {i, NULL} : /\ form[p].edits[x] = report.edits[x]
                                        /\ report.since[x] = report.edits[x]

Answered(p) == {r.item : r \in Of(report.rs, p)}

(* Labels stand for one position in every language. *)
Translated(table) ==
    /\ \A l, m \in Lang : Len(table[l]) = Len(table[m])
    /\ \A l, m \in Lang : \A n \in DOMAIN table[l], k \in DOMAIN table[m] :
          table[l][n] = table[m][k] => n = k

(* Every button of an item has a score. *)
ButtonsScored(p, i) ==
    form[p].items[i].type = "likert" =>
        Buttons(form[p].items[i], form[p].scale, form[p].lang) <= form[p].scale.points

(* What the participant pressed, in the language of the report. *)
Meaning(p, i, lang) ==
    LET it == form[p].items[i]
        a == form[p].answers[i]
        options == it.options[form[p].lang]
        at(w) == CHOOSE n \in DOMAIN options : options[n] = w
        own == it.labels[lang]
        common == form[p].scale.labels[lang]
    IN  CASE it.type = "likert" /\ own # <<>> -> [str |-> own[a.num]]
          [] it.type = "likert" /\ own = <<>> /\ a.num \in DOMAIN common -> [str |-> common[a.num]]
          [] it.type = "single" -> [str |-> it.options[lang][at(a.str)]]
          [] it.type = "multiple" ->
                [arr |-> [n \in DOMAIN a.arr |-> it.options[lang][at(a.arr[n])]]]
          [] OTHER -> a

(* No stem looks like one that was numbered, or like an id. *)
Plain(name) == Len(name) = 1 /\ name[1] \notin {"item", "consent"}

PlainHeaders ==
    \A i \in Item : report.items[i] # NULL =>
        LET base == BaseName(report.items[i], i, report.fmt.header)
        IN  Plain(base) \/ base = ItemId(i)

(* Consent options have labels of their own too. *)
PlainNames ==
    LET label(k) == ConsentColumn(<<>>, report.consentScale, k, report.fmt.consent)
    IN  /\ PlainHeaders
        /\ \A k, j \in Key : label(k) = label(j) => k = j
        /\ \A k \in Key :
              /\ Plain(label(k)) \/ label(k) = <<"consent", k>>
              /\ \A i \in Item : report.items[i] # NULL =>
                    label(k) # BaseName(report.items[i], i, report.fmt.header)

(* A label export says of an answer what its participant chose: the label    *)
(* of the button pressed, whatever its score and whichever language the form *)
(* and the export are in, as long as the definitions are complete and stay.  *)
LabelIsChosen ==
    Finished({"label"}) /\ PlainHeaders =>
        \A p \in DOMAIN report.table : \A i \in Answered(p) :
            /\ Unchanged(p, i) /\ ButtonsScored(p, i)
            /\ Translated(form[p].items[i].options) /\ Translated(form[p].items[i].labels)
            /\ Translated(form[p].scale.labels)
            => \E h \in DOMAIN report.table[p] :
                  report.table[p][h] = Cell(i, Meaning(p, i, report.fmt.value))

(* A column of a wide table is about one item or one consent option, for     *)
(* every participant, though each row gets its columns on its own and        *)
(* definitions change between the reads.                                     *)
ColumnsOneSource ==
    Finished({"wide", "label"}) /\ PlainNames =>
        \A p, q \in DOMAIN report.table :
            \A h \in DOMAIN report.table[p] \cap DOMAIN report.table[q] :
                report.table[p][h].src = report.table[q][h].src

(* Every response that was read and every consent choice has one cell of the *)
(* table; a numeric cell holds its score.                                    *)
NothingLost ==
    Finished({"wide", "label"}) /\ PlainNames =>
        \A p \in Pids(report.rs) :
            LET row == IF p \in DOMAIN report.table THEN report.table[p] ELSE <<>>
                cells(x) == {h \in DOMAIN row : row[h].src = x}
            IN  /\ \A r \in Of(report.rs, p) :
                      report.fmt.kind = "wide" \/ report.items[r.item] # NULL =>
                          /\ Cardinality(cells(r.item)) = 1
                          /\ report.fmt.kind = "wide" =>
                                \A h \in cells(r.item) : row[h].val = [num |-> r.score]
                /\ \A k \in DOMAIN form[p].consent : Cardinality(cells(k)) = 1

(* The value of a button: counted from the other end where the item is reversed. *)
Worth(p, i) ==
    LET it == form[p].items[i] IN
    CASE it.type = "likert" /\ it.reverse -> form[p].scale.points + 1 - form[p].answers[i].num
      [] it.type = "likert" /\ ~it.reverse -> form[p].answers[i].num
      [] it.type = "rating" -> form[p].answers[i].num
      [] OTHER -> 0

(* The total of a participant is the sum of what the buttons are worth.      *)
TotalOfAnswers ==
    Finished({"score"}) =>
        \A p \in DOMAIN report.totals :
            (\A i \in Answered(p) : Unchanged(p, i) /\ ButtonsScored(p, i))
            => report.totals[p] = Total([i \in Answered(p) |-> Worth(p, i)])

(* The alpha of a summary is the one of the buttons pressed, by its other    *)
(* definition: k / (k - 1) times the share of the covariances in the         *)
(* variance of the totals, and 0 where that is undefined or negative.        *)
AlphaOfAnswers ==
    Finished({"summary"}) =>
        LET C == FilterLikert(report.items)
            R == {p \in Pids(report.rs) : C \subseteq Answered(p)}
            n == Cardinality(R)
            k == Cardinality(C)
            w == [p \in R |-> [i \in C |-> Worth(p, i)]]
            col(i) == [p \in R |-> w[p][i]]
            cov(i, j) == n * Total([p \in R |-> w[p][i] * w[p][j]]) - Total(col(i)) * Total(col(j))
            all == Total([i \in C |-> Total([j \in C |-> cov(i, j)])])
            off == all - Total([i \in C |-> cov(i, i)])
        IN  (\A p \in R, i \in C : Unchanged(p, i) /\ ButtonsScored(p, i)) =>
                /\ report.n = n
                /\ IF n = 0 \/ k < 2 \/ all = 0 \/ off <= 0 THEN report.alpha[1] = 0
                   ELSE report.alpha[1] * (k - 1) * all = report.alpha[2] * k * off
=============================================================================
