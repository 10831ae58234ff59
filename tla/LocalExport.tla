---------------------------- MODULE LocalExport ----------------------------
(***************************************************************************)
(* Export of an encrypted scale in the administrator's browser             *)
(* (ExportPanel.tsx, the legacy AdminScale.tsx, decryptSingleWithX25519):  *)
(* the responses are fetched, opened with the private key of localStorage, *)
(* and written to a file.  A respondent answers a question of choice with  *)
(* the texts of options, in the order and each in the language they were   *)
(* ticked in, and a Likert item with a number.                             *)
(*                                                                         *)
(* A text is a number, the same for all ways to write it that differ only  *)
(* in case and blanks around it; 0 is the empty one, and a text that is    *)
(* the numeral of a point is left out.  Languages are numbers in the order *)
(* of the item's lists, English first.                                     *)
(***************************************************************************)
EXTENDS Integers, SequencesExt

CONSTANTS
    Langs,              \* how many languages
    Label,              \* the texts in use
    Plain,              \* those of them that are not empty and have no ", "
    Length,             \* how many options
    MaxTicks,           \* in one answer
    Join(_),            \* the cell of a table: the texts joined with ", "
    Keys,               \* private keys
    Respondents         \* how many answer

ASSUME ExportAssumption ==
    /\ Langs \in Nat \ {0} /\ Length \in Nat /\ Respondents \in Nat
    /\ MaxTicks \in Nat \ {0}
    /\ Label \subseteq Nat /\ 0 \in Label /\ Plain \subseteq Label \ {0}

Lang == 1..Langs
English == 1
Number(n) == -n
Cell == Label \cup {Number(n) : n \in 1..Length}
Lists == [Lang -> SeqOf(Label, Length)]

(* Array.prototype.join: one text is joined to itself, and texts without    *)
(* the separator can be told apart again.                                   *)
ASSUME JoinAssumption ==
    /\ \A a, b \in Cell : Join(<<a>>) = Join(<<b>>) => a = b
    /\ \A s, t \in SeqOf(Plain, MaxTicks) : Join(s) = Join(t) => s = t

(* The entries of the scale and of none in particular (synap_pmk).          *)
Nothing == "nothing"
Storage == [own : Keys \cup {Nothing}, shared : Keys \cup {Nothing}]

VARIABLES
    kind,               \* of the one question
    lists,              \* its options_i18n, or likert_labels_i18n
    sealed,             \* the responses of the table, in order
    storage,            \* localStorage
    panel,              \* the page between fetching and opening
    file                \* what was written, until the next button

exportVars == <<kind, lists, sealed, storage, panel, file>>

(* A response: the options ticked, in that order, or the number pressed,    *)
(* what was sent for them, and the keys of Keys it was encrypted for.       *)
Picks == SeqOf(1..Length, MaxTicks)
Cells == SeqOf(Cell, MaxTicks)
Response == [picks : Picks, answer : Cells, keys : SUBSET Keys]

Closed == [at |-> "closed", bundle |-> <<>>, key |-> Nothing]
NoFile == [page |-> "none", rows |-> <<>>]

ExportInit ==
    /\ kind \in {"choice", "likert"} /\ lists \in Lists
    /\ sealed = <<>>
    /\ storage = [own |-> Nothing, shared |-> Nothing]
    /\ panel = Closed /\ file = NoFile

-----------------------------------------------------------------------------
(* Texts                                                                    *)

(* Mutant of Places: only the list of English is looked through.            *)
PlacesInEnglish(s) ==
    {p \in {English} \X (1..Length) :
        p[2] <= Len(lists[p[1]]) /\ lists[p[1]][p[2]] = s}

(* Where the text is: language and index.                                   *)
Places(s) ==
    {p \in Lang \X (1..Length) :
        p[2] <= Len(lists[p[1]]) /\ lists[p[1]][p[2]] = s}

(* The first of them, by language and then by index.                        *)
FindIndex(s) ==
    LET first == CHOOSE p \in Places(s) : \A q \in Places(s) :
                    p[1] < q[1] \/ (p[1] = q[1] /\ p[2] <= q[2])
    IN  first[2]

(* The option in that language, or in English, or in any that has it.       *)
GetLang(i, to) ==
    LET has == {l \in Lang : i <= Len(lists[l]) /\ lists[l][i] # 0}
        from == IF to \in has THEN to ELSE CHOOSE l \in has : \A k \in has : l <= k
    IN  IF has = {} THEN 0 ELSE lists[from][i]

NormToLang(s, to) == IF Places(s) = {} THEN s ELSE GetLang(FindIndex(s), to)

(* The labels of that language or else of English, the last for what is     *)
(* beyond; a label that is empty gives way to the number.                   *)
LikertLabel(n, to) ==
    LET labels == IF lists[to] # <<>> THEN lists[to] ELSE lists[English]
        i == IF n <= Len(labels) THEN n ELSE Len(labels)
    IN  IF labels = <<>> \/ labels[i] = 0 THEN Number(n) ELSE labels[i]

-----------------------------------------------------------------------------
(* Respondents and the browser                                              *)

(* An option left out in a language is not shown in it.  What is ticked     *)
(* stays when the language is changed, and a text that is ticked is shown   *)
(* as ticked: no text is there twice, an option may be, in two languages.   *)
Choose ==
    \E ticks \in SeqOf(Lang \X (1..Length), MaxTicks), keys \in SUBSET Keys :
        /\ kind = "choice"
        /\ \A n \in DOMAIN ticks : ticks[n][2] <= Len(lists[ticks[n][1]])
        /\ LET answer == [n \in DOMAIN ticks |-> lists[ticks[n][1]][ticks[n][2]]]
           IN  /\ IsInjective(answer)
               /\ sealed' = Append(sealed, [picks |-> [n \in DOMAIN ticks |-> ticks[n][2]],
                                            answer |-> answer, keys |-> keys])

Rate ==
    \E n \in 1..Length, keys \in SUBSET Keys :
        /\ kind = "likert"
        /\ sealed' = Append(sealed, [picks |-> <<n>>, answer |-> <<Number(n)>>,
                                      keys |-> keys])

Answer ==
    /\ Len(sealed) < Respondents
    /\ Choose \/ Rate
    /\ UNCHANGED <<kind, lists, storage, panel, file>>

(* A key is imported here or made for this scale.                           *)
ImportKey ==
    /\ \E key \in Keys : storage' = [own |-> key, shared |-> Nothing]
    /\ UNCHANGED <<kind, lists, sealed, panel, file>>

(* One is made for none in particular, or for another scale, which drops    *)
(* the one of none.                                                         *)
StoreElsewhere ==
    /\ \E key \in Keys \cup {Nothing} : storage' = [storage EXCEPT !.shared = key]
    /\ UNCHANGED <<kind, lists, sealed, panel, file>>

ReadStoredKey == IF storage.own # Nothing THEN storage.own ELSE storage.shared

(* The passphrase is right; if not, the export fails.                       *)
Unlocked == ReadStoredKey # Nothing

(* The panel fetches, and opens what it has fetched; ...                    *)
FetchBundle ==
    /\ panel = Closed /\ file' = NoFile
    /\ panel' = [at |-> "panel", bundle |-> sealed, key |-> Nothing]
    /\ UNCHANGED <<kind, lists, sealed, storage>>

(* ... the legacy page unlocks its key, and opens what it then fetches.     *)
UnlockLegacy ==
    /\ panel = Closed /\ file' = NoFile
    /\ Unlocked
    /\ panel' = [at |-> "legacy", bundle |-> <<>>, key |-> ReadStoredKey]
    /\ UNCHANGED <<kind, lists, sealed, storage>>

Opens(key, r) == key \in r.keys

(* Responses the key does not open are left out; the others keep the number *)
(* they have in the bundle.                                                 *)
Opened(bundle, key) ==
    [n \in {m \in DOMAIN bundle : Opens(key, bundle[m])} |-> bundle[n]]

Rows(opened, cells) ==
    [n \in DOMAIN opened |-> [picks |-> opened[n].picks, cells |-> cells[n]]]

Write(page, opened, cells) ==
    /\ DOMAIN opened # {}
    /\ file' = [page |-> page, rows |-> Rows(opened, cells)]

Raw(opened) == [n \in DOMAIN opened |-> opened[n].answer]

(* Numbers are kept if numbers were asked for, and options are then in      *)
(* English.                                                                 *)
Worded(r, to, numeric) ==
    IF kind = "choice"
    THEN [n \in DOMAIN r.answer |->
            NormToLang(r.answer[n], IF numeric THEN English ELSE to)]
    ELSE IF numeric THEN r.answer
    ELSE <<LikertLabel(r.picks[1], to)>>

(* JSON lines hold the answers as they came, ...                            *)
PanelLines ==
    /\ panel.at = "panel" /\ Unlocked
    /\ LET opened == Opened(panel.bundle, ReadStoredKey)
       IN  Write("raw", opened, Raw(opened))

(* ... both buttons for CSV the options and labels of one language, joined  *)
(* (csvEsc).                                                                *)
PanelTable ==
    /\ panel.at = "panel" /\ Unlocked
    /\ LET opened == Opened(panel.bundle, ReadStoredKey)
       IN  \E to \in Lang, numeric \in BOOLEAN :
              Write("table", opened,
                    [n \in DOMAIN opened |-> Join(Worded(opened[n], to, numeric))])

(* All files of the legacy page.                                            *)
LegacyFile ==
    /\ panel.at = "legacy"
    /\ LET opened == Opened(sealed, panel.key)
       IN  Write("raw", opened, Raw(opened))

Download ==
    /\ PanelLines \/ PanelTable \/ LegacyFile
    /\ panel' = Closed
    /\ UNCHANGED <<kind, lists, sealed, storage>>

(* No key, a wrong passphrase, a request that fails, or nothing opened.     *)
ExportFails ==
    /\ panel # Closed /\ panel' = Closed
    /\ UNCHANGED <<kind, lists, sealed, storage, file>>

-----------------------------------------------------------------------------
ExportNext == \/ Answer \/ ImportKey \/ StoreElsewhere
              \/ FetchBundle \/ UnlockLegacy \/ Download \/ ExportFails

ExportSpec == ExportInit /\ [][ExportNext]_exportVars

-----------------------------------------------------------------------------
(* Properties                                                               *)

(* Types of the lists, the responses, the storage and the file.             *)
ExportTypeOK ==
    /\ lists \in Lists /\ storage \in Storage
    /\ \A n \in DOMAIN sealed : sealed[n] \in Response
    /\ \A n \in DOMAIN file.rows :
          file.rows[n] \in [picks : Picks, cells : Cells \cup {Join(s) : s \in Cells}]

(* No text is at two indexes, of one list or of two, and the                *)
(* labels of a Likert item are there for all its points or not at all.      *)
Unambiguous ==
    /\ \A l, k \in Lang : \A i \in DOMAIN lists[l], j \in DOMAIN lists[k] :
          lists[l][i] = lists[k][j] => i = j
    /\ kind = "likert" => \A l \in Lang : Len(lists[l]) \in {0, Length}

AllPlain == \A l \in Lang : \A i \in DOMAIN lists[l] : lists[l][i] \in Plain

(* In a table made from the panel two respondents who ticked the same       *)
(* options in the same order, or pressed the same number, have the same     *)
(* cell, whatever languages they ticked in and whatever list is shorter, if *)
(* no text names two options; and who has the same cell ticked the same, if *)
(* no option is empty or contains ", " (ExportPanel.tsx: normToLang,        *)
(* mapLikertNumberToLabel and csvEsc).                                      *)
SameTicksSameCell ==
    file.page = "table" /\ Unambiguous =>
        \A m, n \in DOMAIN file.rows :
            /\ file.rows[m].picks = file.rows[n].picks
                  => file.rows[m].cells = file.rows[n].cells
            /\ /\ kind = "choice" => AllPlain
               /\ file.rows[m].cells = file.rows[n].cells
               => file.rows[m].picks = file.rows[n].picks

-----------------------------------------------------------------------------
(* Why they hold: an inductive invariant.                                   *)

(* What was sent says what was ticked: texts of the lists, or a number.     *)
Says(r) ==
    /\ kind = "choice" =>
          /\ DOMAIN r.answer = DOMAIN r.picks
          /\ \A n \in DOMAIN r.picks : \E l \in Lang :
                r.picks[n] <= Len(lists[l]) /\ r.answer[n] = lists[l][r.picks[n]]
    /\ kind = "likert" =>
          \E n \in 1..Length : r.picks = <<n>> /\ r.answer = <<Number(n)>>

(* A row of a table words the response it is of, all rows in the same way.  *)
RowsWorded ==
    \E to \in Lang, numeric \in BOOLEAN : \A n \in DOMAIN file.rows :
        /\ n \in DOMAIN sealed
        /\ file.rows[n] = [picks |-> sealed[n].picks,
                           cells |-> Join(Worded(sealed[n], to, numeric))]

AsSent ==
    /\ kind \in {"choice", "likert"}
    /\ sealed \in Seq(Response)
    /\ \A n \in DOMAIN sealed : Says(sealed[n])
    /\ \A n \in DOMAIN panel.bundle :
          n \in DOMAIN sealed /\ panel.bundle[n] = sealed[n]
    /\ file.page = "table" => RowsWorded
=============================================================================
