---------------------------- MODULE SurveyStore ----------------------------
(***************************************************************************)
(* The survey tables of the SQLite database (internal/db/migrations) and   *)
(* the SQL statements SQLiteStore runs on them.                            *)
(*                                                                         *)
(* A table is a set of rows.  A statement is an action on one or more      *)
(* tables: SQLite runs each one alone, in a transaction of its own, and    *)
(* the store opens no larger transaction around those modelled here.       *)
(* Columns that no guard reads (texts, labels, scores, time stamps) are    *)
(* left out.                                                               *)
(*                                                                         *)
(* Foreign keys.  SQLite enforces them per connection.  NewSQLiteStore     *)
(* runs PRAGMA foreign_keys = ON once, on one connection of the pool that  *)
(* database/sql manages; a connection the pool opens later does not have   *)
(* it.  Each statement therefore takes fk, whether the connection it runs  *)
(* on enforces foreign keys: FkModes = {TRUE} is a pool of one connection, *)
(* FkModes = BOOLEAN the pool main.go really opens.                        *)
(*                                                                         *)
(* Failures.  A statement can be refused (a constraint) or fail            *)
(* (SQLITE_BUSY, disk).  The store logs the error and goes on: either way  *)
(* the tables do not change and the caller is not told.                    *)
(***************************************************************************)
EXTENDS FiniteSets, Sequences, Naturals

CONSTANTS
    Scale, Item,        \* ids of scales and items (a client may choose them)
    Participant,        \* participant ids, each with its self-service token
    Consent,            \* ids of signed consent records
    Sealed,             \* ids of encrypted responses (a client may choose them)
    Email,              \* e-mail addresses, up to letter case
    NULL,               \* SQL NULL
    FkModes,            \* what a pooled connection does about foreign keys
    WritesFail          \* TRUE: a write may also fail and be logged

ASSUME StoreAssumption ==
    /\ FkModes \subseteq BOOLEAN /\ FkModes # {}
    /\ WritesFail \in BOOLEAN
    /\ NULL \notin Scale \cup Item \cup Participant \cup Consent
                   \cup Sealed \cup Email
    /\ Participant \cap Consent = {}
    /\ Participant \cap Sealed = {}
    /\ Consent \cap Sealed = {}

VARIABLES scales, items, participants, responses, consents, sealed

tables == <<scales, items, participants, responses, consents, sealed>>

ScaleRow == [id : Scale, e2ee : BOOLEAN, turnstile : BOOLEAN]
ItemRow == [id : Item, scale : Scale]
ParticipantRow ==
    [id : Participant, email : Email \cup {NULL}, consent : Consent \cup {NULL}]
ResponseRow == [pid : Participant, item : Item, scale : Scale]
ConsentRow == [id : Consent, scale : Scale]
SealedRow == [id : Sealed, scale : Scale]

TablesOK ==
    /\ scales \subseteq ScaleRow
    /\ items \subseteq ItemRow
    /\ participants \subseteq ParticipantRow
    /\ responses \subseteq ResponseRow
    /\ consents \subseteq ConsentRow
    /\ sealed \subseteq SealedRow

Ids(table) == {row.id : row \in table}

(* A write that is logged and forgotten when it fails. *)
Write(statement) ==
    \/ statement
    \/ WritesFail /\ UNCHANGED tables

-----------------------------------------------------------------------------
(* INSERT: a duplicate primary key or, with fk, a missing parent row makes  *)
(* SQLite refuse the statement.                                             *)

InsertScale(row) ==
    /\ scales' = IF row.id \in Ids(scales) THEN scales ELSE scales \cup {row}
    /\ UNCHANGED <<items, participants, responses, consents, sealed>>

InsertItem(row, fk) ==
    /\ items' = IF row.id \in Ids(items) \/ (fk /\ row.scale \notin Ids(scales))
                THEN items ELSE items \cup {row}
    /\ UNCHANGED <<scales, participants, responses, consents, sealed>>

InsertParticipant(row) ==
    /\ participants' = IF row.id \in Ids(participants)
                       THEN participants ELSE participants \cup {row}
    /\ UNCHANGED <<scales, items, responses, consents, sealed>>

(* Mutant of HasParents: responses.participant_id is not a foreign key.     *)
HasItemAndScale(row) ==
    /\ row.item \in Ids(items)
    /\ row.scale \in Ids(scales)

HasParents(row) ==
    /\ row.pid \in Ids(participants)
    /\ row.item \in Ids(items)
    /\ row.scale \in Ids(scales)

(* ON CONFLICT(participant_id, item_id) DO UPDATE leaves scale_id alone. *)
UpsertResponse(row, fk) ==
    /\ responses' = IF \/ \E old \in responses :
                             old.pid = row.pid /\ old.item = row.item
                       \/ fk /\ ~HasParents(row)
                    THEN responses ELSE responses \cup {row}
    /\ UNCHANGED <<scales, items, participants, consents, sealed>>

(* Mutant of UpsertConsent: consent_records.scale_id is not a foreign key.  *)
UpsertConsentUnchecked(row, fk) ==
    /\ consents' = {old \in consents : old.id # row.id} \cup {row}
    /\ UNCHANGED <<scales, items, participants, responses, sealed>>

UpsertConsent(row, fk) ==
    /\ consents' = IF fk /\ row.scale \notin Ids(scales) THEN consents
                   ELSE {old \in consents : old.id # row.id} \cup {row}
    /\ UNCHANGED <<scales, items, participants, responses, sealed>>

UpsertSealed(row, fk) ==
    /\ sealed' = IF fk /\ row.scale \notin Ids(scales) THEN sealed
                 ELSE {old \in sealed : old.id # row.id} \cup {row}
    /\ UNCHANGED <<scales, items, participants, responses, consents>>

-----------------------------------------------------------------------------
(* DELETE: with fk, ON DELETE CASCADE removes the rows that refer to the    *)
(* deleted one in the same statement; without it they stay.                 *)

(* The cascade from a scale reaches the responses by their scale_id and     *)
(* through the deleted items by their item_id.                              *)
DropScale(s, fk) ==
    /\ scales' = {row \in scales : row.id # s}
    /\ IF fk
       THEN LET dropped == {row.id : row \in {i \in items : i.scale = s}} IN
            /\ items' = {row \in items : row.scale # s}
            /\ responses' = {row \in responses :
                                row.scale # s /\ row.item \notin dropped}
            /\ consents' = {row \in consents : row.scale # s}
            /\ sealed' = {row \in sealed : row.scale # s}
       ELSE UNCHANGED <<items, responses, consents, sealed>>
    /\ UNCHANGED participants

DropItem(i, fk) ==
    /\ items' = {row \in items : row.id # i}
    /\ responses' = IF fk THEN {row \in responses : row.item # i} ELSE responses
    /\ UNCHANGED <<scales, participants, consents, sealed>>

DropParticipant(p, fk) ==
    /\ participants' = {row \in participants : row.id # p}
    /\ responses' = IF fk THEN {row \in responses : row.pid # p} ELSE responses
    /\ UNCHANGED <<scales, items, consents, sealed>>

(* DELETE FROM responses WHERE participant_id, item_id or scale_id = ? *)
DropResponses(rows) ==
    /\ responses' = responses \ rows
    /\ UNCHANGED <<scales, items, participants, consents, sealed>>

DropSealed(rows) ==
    /\ sealed' = sealed \ rows
    /\ UNCHANGED <<scales, items, participants, responses, consents>>

DropConsentsOf(s) ==
    /\ consents' = {row \in consents : row.scale # s}
    /\ UNCHANGED <<scales, items, participants, responses, sealed>>

-----------------------------------------------------------------------------
(* UPDATE participants SET email = NULL: what a soft delete does. *)
BlankEmail(p) ==
    /\ participants' = {IF row.id = p THEN [row EXCEPT !.email = NULL] ELSE row :
                            row \in participants}
    /\ UNCHANGED <<scales, items, responses, consents, sealed>>

=============================================================================
