----------------------------- MODULE AdminPages -----------------------------
(***************************************************************************)
(* The administrator's browser: the settings of a scale, the export of an  *)
(* encrypted one, and the sign-in that guards both.  They share nothing    *)
(* but the browser, so a behaviour is of the part that is in front.        *)
(***************************************************************************)
EXTENDS ScaleSettings, Session, LocalExport

VARIABLE front

adminVars == <<front, settingsVars, sessionVars, exportVars>>

AdminInit ==
    /\ front \in {"settings", "session", "export"}
    /\ SettingsInit /\ SessionInit /\ ExportInit
    /\ front # "settings" => \A t \in Tab : tab[t].kind = "editor"
    /\ front # "session" => ~session /\ \A t \in Window : path[t] = "home"
    /\ front # "export" => kind = "choice" /\ \A l \in Lang : lists[l] = <<>>

AdminNext ==
    /\ front' = front
    /\ \/ front = "settings" /\ SettingsNext /\ UNCHANGED <<sessionVars, exportVars>>
       \/ front = "session" /\ SessionNext /\ UNCHANGED <<settingsVars, exportVars>>
       \/ front = "export" /\ ExportNext /\ UNCHANGED <<settingsVars, sessionVars>>

AdminSpec == AdminInit /\ [][AdminNext]_adminVars

(* The types of the three parts.                                            *)
TypeOK == SettingsTypeOK /\ SessionTypeOK /\ ExportTypeOK
=============================================================================
