----------------------------- MODULE MCSurvey -----------------------------
(* Small instances of SurveyApi for TLC.                                    *)
EXTENDS SurveyProps, TLC

CONSTANTS s1, s2, i1, i2

Row(s, e2ee) == [id |-> s, e2ee |-> e2ee, turnstile |-> FALSE]
GuardedRow(s) == [id |-> s, e2ee |-> FALSE, turnstile |-> TRUE]

OneScale == {Row(s1, FALSE)}
PlainAndGuarded == {Row(s1, FALSE), GuardedRow(s2)}
ItemOfS1 == {[id |-> i1, scale |-> s1]}
TwoItemsOfS1 == {[id |-> i1, scale |-> s1], [id |-> i2, scale |-> s1]}
NoRows == {}

Symmetry == Permutations(Slot) \cup Permutations(Participant)
=============================================================================
