----------------------------- MODULE MCReports -----------------------------
(* Reports on small catalogues of definitions. *)
EXTENDS Reports

CONSTANTS k1, k2

None == [l \in Lang |-> <<>>]
NoAnchors(points) == [points |-> points, labels |-> None,
    consent |-> [k \in Key |-> [l \in Lang |-> IF l = "en" THEN <<k>> ELSE NULL]]]

LabelledScale == [points |-> 2,
    labels |-> [l \in Lang |-> IF l = "en" THEN <<"low", "high">> ELSE <<"di", "gao">>],
    consent |-> [k \in Key |-> [l \in Lang |-> IF l = "en" THEN <<k>> ELSE NULL]]]

SmallScales == {LabelledScale, NoAnchors(3)}

Likert(rev, labels) == [type |-> "likert", reverse |-> rev, labels |-> labels, options |-> None,
                        stem |-> [l \in Lang |-> IF l = "en" THEN <<"A">> ELSE NULL]]
Anchors == [l \in Lang |-> IF l = "en" THEN <<"no", "yes">> ELSE <<"fou", "shi">>]
Choice(type) == [type |-> type, reverse |-> FALSE, labels |-> None, options |-> Anchors,
                 stem |-> [l \in Lang |-> <<"A">>]]
Rating == [type |-> "rating", reverse |-> FALSE, labels |-> None, options |-> None,
           stem |-> [l \in Lang |-> <<"B">>]]

ChoiceItems == {Likert(TRUE, None), Likert(FALSE, Anchors), Choice("single"), Choice("multiple"), Rating}

(* Each kind becomes one that is scored or exported in another way. *)
Recasts(d) ==
    CASE d.type = "likert" /\ d.reverse -> {Likert(FALSE, Anchors), Choice("single")}
      [] d.type = "likert" /\ ~d.reverse -> {Likert(TRUE, None), Choice("multiple")}
      [] d.type = "single" -> {Choice("multiple"), Rating}
      [] OTHER -> {Likert(TRUE, None)}

(* p1 reads Chinese and signs, p2 reads English and does not. *)
OneEach == [p \in Participant |-> IF p = "p1" THEN {"zh"} ELSE {"en"}]
OneSigns == [p \in Participant |-> IF p = "p1" THEN {[k \in Key |-> k = k1]} ELSE {<<>>}]

(* Items at the start; an edit may make any of them of any kind. *)
Pairs == {<<Likert(TRUE, None), Likert(FALSE, Anchors)>>, <<Choice("single"), NULL>>}
FoundedInit == Init /\ item \in Pairs /\ scale = LabelledScale
FoundedSpec == FoundedInit /\ [][Next]_vars

Format(kind, header, value, consent) ==
    [kind |-> kind, header |-> header, value |-> value, consent |-> consent]
AllFormats == {Format("wide", "en", "en", NULL), Format("label", "zh", "en", "zh"),
               Format("score", "en", "en", "en"), Format("summary", "en", "en", "en")}
=============================================================================
