---------------------------- MODULE MCAdminPages ----------------------------
(***************************************************************************)
(* One page of settings with two requests under way, of which two save,    *)
(* one visitor with three pages in a row, and two respondents of a         *)
(* question with two options in two languages.                             *)
(***************************************************************************)
EXTENDS AdminPages

SettingsItems == {1}
EditedFields == {"labels", "options"}
Texts == {0, 1, 2}
PlainTexts == {1, 2}

(* None of the texts has a comma; no text at all and the empty one are the  *)
(* same cell.                                                               *)
Joined(texts) == IF texts = <<>> THEN <<0>> ELSE texts

Interchangeable == Permutations(Slot)
=============================================================================
