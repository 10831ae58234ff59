----------------------------- MODULE SurveyApi -----------------------------
(***************************************************************************)
(* The HTTP requests that read and write the survey tables, as the net/http*)
(* server runs them: each on a goroutine of its own, with no transaction   *)
(* and no lock around its store calls.  A slot holds one request, or one   *)
(* respondent's open form; an action is one store call of the request in   *)
(* the slot, together with the code up to the next call.                   *)
(*                                                                         *)
(* A request that is refused before it writes anything (unknown scale,     *)
(* wrong tenant, bad token) is a stuttering step.  The tenant guard of the *)
(* admin endpoints is not modelled: the caller is an input, and every      *)
(* scale has an administrator whose calls pass it.                         *)
(***************************************************************************)
EXTENDS SurveyStore

CONSTANTS
    Slot,               \* concurrent requests
    Op,                 \* endpoints in use
    SeedScales, SeedItems,  \* the survey as it stands when the run begins
    NewScales, NewItems,    \* rows administrators may add
    MaxAnswers,         \* answers in one submission
    TurnstileSecret     \* TRUE: SYNAP_TURNSTILE_SECRET is set

Ops == {"submit", "consent", "intake", "selfDelete", "adminDelete",
        "sealedDelete", "purge", "deleteScale", "deleteItem",
        "createScale", "addItems"}

ASSUME ApiAssumption ==
    /\ Op \subseteq Ops
    /\ SeedScales \subseteq ScaleRow /\ SeedItems \subseteq ItemRow
    /\ NewScales \subseteq ScaleRow /\ NewItems \subseteq ItemRow
    /\ \A row \in SeedItems : row.scale \in Ids(SeedScales)
    /\ MaxAnswers \in Nat
    /\ TurnstileSecret \in BOOLEAN

VARIABLES
    pc,         \* pc[r]: the store call the request in slot r makes next
    loc,        \* loc[r]: the request's inputs and local variables
    mintedFor,  \* the scale a generated id was generated for, else NULL
    known,      \* ids returned to a client, with their self-service tokens
    erased,     \* deletes of participants answered { ok: true }: hard or soft,
                \* and whether the submission was answered when they arrived
    resent      \* <<r, g>>: encrypted response g was sent (again) since the
                \* purge in slot r was asked for

vars == <<tables, pc, loc, mintedFor, known, erased, resent>>

(* Ids only the server generates; that of an encrypted response may be the  *)
(* client's.                                                                *)
Minted == Participant \cup Consent

Generated == Minted \cup Sealed

Label ==
    {"idle", "form", "linkConsent", "insertParticipant", "lookup", "store",
     "insertConsent", "answerConsent", "insertSealed",
     "recheck", "eraseResponses", "eraseParticipant", "blankEmail",
     "auditErase", "dropSealed", "purgeResponses", "purgeSealed",
     "purgeConsents", "auditPurge", "dropScale", "auditDrop",
     "dropItemResponses", "insertItem"}

(* before: the ids known when the request arrived, a history component that *)
(* no action reads except to fill erased; mintedFor, known, erased and      *)
(* resent are history too.                                                  *)
Local ==
    [scale : Scale \cup {NULL}, id : Generated \cup {NULL},
     email : Email \cup {NULL}, consent : Consent \cup {NULL},
     item : Item \cup {NULL}, hard : BOOLEAN,
     todo : Seq(Item), built : Seq(Item), rows : SUBSET ItemRow,
     before : SUBSET Generated]

Blank ==
    [scale |-> NULL, id |-> NULL, email |-> NULL, consent |-> NULL,
     item |-> NULL, hard |-> FALSE, todo |-> <<>>, built |-> <<>>,
     rows |-> {}, before |-> {}]

Init ==
    /\ scales = SeedScales
    /\ items = SeedItems
    /\ participants = {} /\ responses = {} /\ consents = {} /\ sealed = {}
    /\ pc = [r \in Slot |-> "idle"]
    /\ loc = [r \in Slot |-> Blank]
    /\ mintedFor = [g \in Minted |-> NULL]
    /\ known = {}
    /\ erased = {}
    /\ resent = {}

(* Uuids and random tokens do not repeat. *)
Fresh(ids) == {g \in ids : mintedFor[g] = NULL}

Start(r, op) == op \in Op /\ pc[r] = "idle"

Goto(r, label, local) ==
    /\ pc' = [pc EXCEPT ![r] = label]
    /\ loc' = [loc EXCEPT ![r] = local]

Finish(r) == Goto(r, "idle", Blank)

-----------------------------------------------------------------------------
(* POST /api/responses/bulk, preceded by the respondent opening the form.  *)

Forms(s) ==
    LET shown == {row.id : row \in {i \in items : i.scale = s}}
    IN  UNION {[1..n -> shown] : n \in 1..MaxAnswers}

(* GET /api/scales/{id}/items: the respondent answers the items of s as     *)
(* they stand now, and sends the answers any time later.                    *)
OpenForm(r) ==
    /\ Start(r, "submit")
    /\ \E row \in scales : \E answers \in Forms(row.id) :
       \E email \in Email \cup {NULL} :
       \E consent \in (known \cap Consent) \cup {NULL} :
            Goto(r, "form", [Blank EXCEPT !.scale = row.id, !.todo = answers,
                                          !.email = email, !.consent = consent])
    /\ UNCHANGED <<tables, mintedFor, known, erased, resent>>

(* requireTurnstileIfNeeded; verified is what Cloudflare answers.           *)
PassesTurnstile(row, verified) ==
    row.turnstile => ~TurnstileSecret \/ verified

(* ProcessBulkResponses up to the first store call after GetScale. *)
Submit(r) ==
    /\ pc[r] = "form"
    /\ \E verified \in BOOLEAN :
        LET accepted == \E row \in scales : /\ row.id = loc[r].scale
                                            /\ PassesTurnstile(row, verified)
                                            /\ ~row.e2ee
        IN  IF accepted
            THEN \E p \in Fresh(Participant) :
                    /\ mintedFor' = [mintedFor EXCEPT ![p] = loc[r].scale]
                    /\ Goto(r, IF loc[r].consent = NULL THEN "insertParticipant"
                               ELSE "linkConsent",
                            [loc[r] EXCEPT !.id = p])
            ELSE Finish(r) /\ UNCHANGED mintedFor
    /\ UNCHANGED <<tables, known, erased, resent>>

(* Mutant of LinkConsent: the consent's scale is not compared.              *)
LinkAnyConsent(r) ==
    /\ pc[r] = "linkConsent"
    /\ Goto(r, "insertParticipant", loc[r])
    /\ UNCHANGED <<tables, mintedFor, known, erased, resent>>

(* createParticipant drops a consent id that is unknown or another scale's. *)
LinkConsent(r) ==
    /\ pc[r] = "linkConsent"
    /\ LET linked == \E row \in consents : /\ row.id = loc[r].consent
                                           /\ row.scale = loc[r].scale
       IN Goto(r, "insertParticipant",
               IF linked THEN loc[r] ELSE [loc[r] EXCEPT !.consent = NULL])
    /\ UNCHANGED <<tables, mintedFor, known, erased, resent>>

(* Mutant of AddParticipant: the answer is sent before the responses are in. *)
AddParticipantAndAnswer(r) ==
    /\ pc[r] = "insertParticipant"
    /\ Write(InsertParticipant([id |-> loc[r].id, email |-> loc[r].email,
                                consent |-> loc[r].consent]))
    /\ Goto(r, "lookup", loc[r])
    /\ known' = known \cup {loc[r].id}
    /\ UNCHANGED <<mintedFor, erased, resent>>

AddParticipant(r) ==
    /\ pc[r] = "insertParticipant"
    /\ Write(InsertParticipant([id |-> loc[r].id, email |-> loc[r].email,
                                consent |-> loc[r].consent]))
    /\ Goto(r, "lookup", loc[r])
    /\ UNCHANGED <<mintedFor, known, erased, resent>>

(* GetItem for the next answer: an item that is gone is skipped, and the    *)
(* item's own scale is not looked at.                                       *)
LookupItem(r) ==
    /\ pc[r] = "lookup"
    /\ IF loc[r].todo = <<>>
       THEN Goto(r, "store", loc[r])
       ELSE LET i == Head(loc[r].todo)
                rest == [loc[r] EXCEPT !.todo = Tail(loc[r].todo)]
            IN Goto(r, "lookup", IF i \in Ids(items)
                                 THEN [rest EXCEPT !.built = Append(loc[r].built, i)]
                                 ELSE rest)
    /\ UNCHANGED <<tables, mintedFor, known, erased, resent>>

Storing(r) == pc[r] = "store" /\ loc[r].built # <<>>

(* AddResponses: SELECT scale_id, unless this call has read it already.     *)
ResolveScale(r) ==
    /\ Storing(r)
    /\ Head(loc[r].built) \notin Ids(loc[r].rows)
    /\ LET found == {row \in items : row.id = Head(loc[r].built)}
       IN Goto(r, "store",
               IF found = {} THEN [loc[r] EXCEPT !.built = Tail(loc[r].built)]
               ELSE [loc[r] EXCEPT !.rows = loc[r].rows \cup found])
    /\ UNCHANGED <<tables, mintedFor, known, erased, resent>>

(* AddResponses: the INSERT, with the scale read before. *)
InsertResponse(r) ==
    /\ Storing(r)
    /\ \E row \in loc[r].rows, fk \in FkModes :
        /\ row.id = Head(loc[r].built)
        /\ Write(UpsertResponse([pid |-> loc[r].id, item |-> row.id,
                                 scale |-> row.scale], fk))
    /\ Goto(r, "store", [loc[r] EXCEPT !.built = Tail(loc[r].built)])
    /\ UNCHANGED <<mintedFor, known, erased, resent>>

(* The answer carries participant_id and self_token. *)
AnswerSubmit(r) ==
    /\ pc[r] = "store" /\ loc[r].built = <<>>
    /\ known' = known \cup {loc[r].id}
    /\ Finish(r)
    /\ UNCHANGED <<tables, mintedFor, erased, resent>>

-----------------------------------------------------------------------------
(* POST /api/consent/sign *)

SignConsent(r) ==
    /\ Start(r, "consent")
    /\ \E row \in scales, c \in Fresh(Consent) :
        /\ mintedFor' = [mintedFor EXCEPT ![c] = row.id]
        /\ Goto(r, "insertConsent", [Blank EXCEPT !.scale = row.id, !.id = c])
    /\ UNCHANGED <<tables, known, erased, resent>>

InsertConsent(r) ==
    /\ pc[r] = "insertConsent"
    /\ \E fk \in FkModes :
        Write(UpsertConsent([id |-> loc[r].id, scale |-> loc[r].scale], fk))
    /\ Goto(r, "answerConsent", loc[r])
    /\ UNCHANGED <<mintedFor, known, erased, resent>>

AnswerConsent(r) ==
    /\ pc[r] = "answerConsent"
    /\ known' = known \cup {loc[r].id}
    /\ Finish(r)
    /\ UNCHANGED <<tables, mintedFor, erased, resent>>

-----------------------------------------------------------------------------
(* POST /api/responses/e2ee.  handleE2EEResponse decodes turnstile_token    *)
(* but does not pass it on, so the verification sees an empty token.        *)

(* The id is the one the client sends or else a new one: a client may send  *)
(* a response again.                                                        *)
Intake(r) ==
    /\ Start(r, "intake")
    /\ \E row \in scales, g \in Sealed :
        /\ PassesTurnstile(row, FALSE)
        /\ Goto(r, "insertSealed", [Blank EXCEPT !.scale = row.id, !.id = g])
    /\ UNCHANGED <<tables, mintedFor, known, erased, resent>>

(* The purges that are going on. *)
PurgeSlots ==
    {q \in Slot : pc[q] \in {"purgeResponses", "purgeSealed", "purgeConsents",
                             "auditPurge"}}

(* The row of a response sent again is replaced, the scale included; that   *)
(* of one that was purged or deleted is there again.                        *)
InsertSealed(r) ==
    /\ pc[r] = "insertSealed"
    /\ \E fk \in FkModes :
        Write(UpsertSealed([id |-> loc[r].id, scale |-> loc[r].scale], fk))
    /\ known' = known \cup {loc[r].id}
    /\ resent' = resent \cup (PurgeSlots \X {loc[r].id})
    /\ Finish(r)
    /\ UNCHANGED <<mintedFor, erased>>

(* POST /api/self/e2ee/delete: the row must carry the caller's token. *)
SelfDeleteSealed(r) ==
    /\ Start(r, "sealedDelete")
    /\ \E g \in known \cap Ids(sealed) :
        Goto(r, "dropSealed", [Blank EXCEPT !.id = g])
    /\ UNCHANGED <<tables, mintedFor, known, erased, resent>>

DeleteE2EEResponse(r) ==
    /\ pc[r] = "dropSealed"
    /\ Write(DropSealed({row \in sealed : row.id = loc[r].id}))
    /\ Finish(r)
    /\ UNCHANGED <<mintedFor, known, erased, resent>>

-----------------------------------------------------------------------------
(* POST /api/self/participant/delete and /api/admin/participant/delete      *)

(* The respondent's link: pid and token, both known only from the answer.   *)
SelfDelete(r) ==
    /\ Start(r, "selfDelete")
    /\ \E p \in known \cap Ids(participants), hard \in BOOLEAN :
        Goto(r, "recheck", [Blank EXCEPT !.id = p, !.hard = hard, !.before = known])
    /\ UNCHANGED <<tables, mintedFor, known, erased, resent>>

(* GetParticipantByEmail returns one of the rows with the address. *)
AdminDelete(r) ==
    /\ Start(r, "adminDelete")
    /\ \E row \in participants, hard \in BOOLEAN :
        /\ row.email # NULL
        /\ Goto(r, "recheck",
                [Blank EXCEPT !.id = row.id, !.hard = hard, !.before = known])
    /\ UNCHANGED <<tables, mintedFor, known, erased, resent>>

(* DeleteParticipantByID reads the row once more. *)
Recheck(r) ==
    /\ pc[r] = "recheck"
    /\ IF loc[r].id \notin Ids(participants) THEN Finish(r)
       ELSE Goto(r, IF loc[r].hard THEN "eraseResponses" ELSE "blankEmail", loc[r])
    /\ UNCHANGED <<tables, mintedFor, known, erased, resent>>

(* Mutants of EraseResponses: the cascade is relied on; a participant with  *)
(* nothing to delete is left alone.                                         *)
EraseResponsesByCascade(r) ==
    /\ pc[r] = "eraseResponses"
    /\ Goto(r, "eraseParticipant", loc[r])
    /\ UNCHANGED <<tables, mintedFor, known, erased, resent>>

EraseResponsesIfAny(r) ==
    /\ pc[r] = "eraseResponses"
    /\ LET rows == {row \in responses : row.pid = loc[r].id} IN
        /\ Write(DropResponses(rows))
        /\ IF rows = {} THEN Finish(r) ELSE Goto(r, "eraseParticipant", loc[r])
    /\ UNCHANGED <<mintedFor, known, erased, resent>>

EraseResponses(r) ==
    /\ pc[r] = "eraseResponses"
    /\ Write(DropResponses({row \in responses : row.pid = loc[r].id}))
    /\ Goto(r, "eraseParticipant", loc[r])
    /\ UNCHANGED <<mintedFor, known, erased, resent>>

EraseParticipant(r) ==
    /\ pc[r] = "eraseParticipant"
    /\ \E fk \in FkModes : Write(DropParticipant(loc[r].id, fk))
    /\ Goto(r, "auditErase", loc[r])
    /\ UNCHANGED <<mintedFor, known, erased, resent>>

Anonymize(r) ==
    /\ pc[r] = "blankEmail"
    /\ \/ BlankEmail(loc[r].id) /\ Goto(r, "auditErase", loc[r])
       \/ WritesFail /\ UNCHANGED tables /\ Finish(r)
    /\ UNCHANGED <<mintedFor, known, erased, resent>>

(* Mutant of AnswerErase: the request is read after it was cleared.         *)
AnswerClearedErase(r) ==
    /\ pc[r] = "auditErase"
    /\ Finish(r)
    /\ erased' = erased \cup {[id |-> loc'[r].id, hard |-> loc[r].hard,
                               answered |-> FALSE]}
    /\ UNCHANGED <<tables, mintedFor, known, resent>>

(* AddAudit, then { ok: true }. *)
AnswerErase(r) ==
    /\ pc[r] = "auditErase"
    /\ erased' = erased \cup {[id |-> loc[r].id, hard |-> loc[r].hard,
                               answered |-> loc[r].id \in loc[r].before]}
    /\ Finish(r)
    /\ UNCHANGED <<tables, mintedFor, known, resent>>

-----------------------------------------------------------------------------
(* DELETE /api/admin/scales/{id}/responses                                  *)

Purge(r) ==
    /\ Start(r, "purge")
    /\ \E row \in scales :
        Goto(r, "purgeResponses",
             [Blank EXCEPT !.scale = row.id, !.before = known])
    /\ UNCHANGED <<tables, mintedFor, known, erased, resent>>

(* The first statement failing ends the purge with removed = 0. *)
PurgeResponses(r) ==
    /\ pc[r] = "purgeResponses"
    /\ \/ /\ DropResponses({row \in responses : row.scale = loc[r].scale})
          /\ Goto(r, "purgeSealed", loc[r])
       \/ /\ WritesFail /\ UNCHANGED tables
          /\ Goto(r, "auditPurge", loc[r])
    /\ UNCHANGED <<mintedFor, known, erased, resent>>

(* Mutant of PurgeSealed: the statement on e2ee_responses is missing.       *)
PurgeSealedNot(r) ==
    /\ pc[r] = "purgeSealed"
    /\ Goto(r, "purgeConsents", loc[r])
    /\ UNCHANGED <<tables, mintedFor, known, erased, resent>>

PurgeSealed(r) ==
    /\ pc[r] = "purgeSealed"
    /\ Write(DropSealed({row \in sealed : row.scale = loc[r].scale}))
    /\ Goto(r, "purgeConsents", loc[r])
    /\ UNCHANGED <<mintedFor, known, erased, resent>>

PurgeConsents(r) ==
    /\ pc[r] = "purgeConsents"
    /\ Write(DropConsentsOf(loc[r].scale))
    /\ Goto(r, "auditPurge", loc[r])
    /\ UNCHANGED <<mintedFor, known, erased, resent>>

AnswerPurge(r) ==
    /\ pc[r] = "auditPurge"
    /\ resent' = {x \in resent : x[1] # r}
    /\ Finish(r)
    /\ UNCHANGED <<tables, mintedFor, known, erased>>

-----------------------------------------------------------------------------
(* Editing the survey: POST /api/scales, POST /api/items, the items import, *)
(* DELETE /api/admin/scales/{id} and DELETE /api/admin/items/{id}.          *)

CreateScale(r) ==
    /\ Start(r, "createScale")
    /\ \E row \in NewScales : Write(InsertScale(row))
    /\ UNCHANGED <<pc, loc, mintedFor, known, erased, resent>>

(* CreateItem adds one row, ImportItemsCSV the rows of a file, both after   *)
(* reading the scale once.                                                  *)
AddItems(r) ==
    /\ Start(r, "addItems")
    /\ \E row \in scales :
       \E rows \in SUBSET {i \in NewItems : i.scale = row.id} :
            /\ rows # {}
            /\ Goto(r, "insertItem",
                    [Blank EXCEPT !.scale = row.id, !.rows = rows])
    /\ UNCHANGED <<tables, mintedFor, known, erased, resent>>

(* A later row that does not parse ends the import; the earlier ones stay.  *)
InsertNextItem(r) ==
    /\ pc[r] = "insertItem"
    /\ \E row \in loc[r].rows, fk \in FkModes :
        /\ Write(InsertItem(row, fk))
        /\ \/ Goto(r, "insertItem",
                   [loc[r] EXCEPT !.rows = loc[r].rows \ {row}])
           \/ Finish(r)
    /\ UNCHANGED <<mintedFor, known, erased, resent>>

AnswerAddItems(r) ==
    /\ pc[r] = "insertItem" /\ loc[r].rows = {}
    /\ Finish(r)
    /\ UNCHANGED <<tables, mintedFor, known, erased, resent>>

DeleteScale(r) ==
    /\ Start(r, "deleteScale")
    /\ \E row \in scales :
        Goto(r, "dropScale", [Blank EXCEPT !.scale = row.id, !.before = known])
    /\ UNCHANGED <<tables, mintedFor, known, erased, resent>>

(* A failing DELETE is answered 404. *)
DropScaleRow(r) ==
    /\ pc[r] = "dropScale"
    /\ \/ \E fk \in FkModes : DropScale(loc[r].scale, fk)
                              /\ Goto(r, "auditDrop", loc[r])
       \/ WritesFail /\ UNCHANGED tables /\ Finish(r)
    /\ UNCHANGED <<mintedFor, known, erased, resent>>

AnswerDeleteScale(r) ==
    /\ pc[r] = "auditDrop"
    /\ Finish(r)
    /\ UNCHANGED <<tables, mintedFor, known, erased, resent>>

DeleteItem(r) ==
    /\ Start(r, "deleteItem")
    /\ \E row \in items, fk \in FkModes :
        \/ /\ DropItem(row.id, fk)
           /\ Goto(r, "dropItemResponses", [Blank EXCEPT !.item = row.id])
        \/ WritesFail /\ UNCHANGED <<tables, pc, loc>>
    /\ UNCHANGED <<mintedFor, known, erased, resent>>

DeleteItemResponses(r) ==
    /\ pc[r] = "dropItemResponses"
    /\ Write(DropResponses({row \in responses : row.item = loc[r].item}))
    /\ Finish(r)
    /\ UNCHANGED <<mintedFor, known, erased, resent>>

-----------------------------------------------------------------------------
Submission(r) ==
    \/ LinkConsent(r) \/ AddParticipant(r) \/ LookupItem(r) \/ ResolveScale(r)
    \/ InsertResponse(r) \/ AnswerSubmit(r)

Signing(r) == InsertConsent(r) \/ AnswerConsent(r)

Sealing(r) == InsertSealed(r) \/ DeleteE2EEResponse(r)

Erasure(r) ==
    \/ Recheck(r) \/ EraseResponses(r) \/ EraseParticipant(r)
    \/ Anonymize(r) \/ AnswerErase(r)

Purging(r) ==
    \/ PurgeResponses(r) \/ PurgeSealed(r) \/ PurgeConsents(r) \/ AnswerPurge(r)

Editing(r) ==
    \/ InsertNextItem(r) \/ AnswerAddItems(r) \/ DropScaleRow(r)
    \/ AnswerDeleteScale(r) \/ DeleteItemResponses(r)

(* A request the server has accepted goes on. *)
Continue(r) ==
    \/ Submission(r) \/ Signing(r) \/ Sealing(r) \/ Erasure(r)
    \/ Purging(r) \/ Editing(r)

Arrive(r) ==
    \/ OpenForm(r) \/ Submit(r) \/ SignConsent(r) \/ Intake(r) \/ SelfDeleteSealed(r)
    \/ SelfDelete(r) \/ AdminDelete(r) \/ Purge(r)
    \/ CreateScale(r) \/ AddItems(r) \/ DeleteScale(r) \/ DeleteItem(r)

Next == \E r \in Slot : Arrive(r) \/ Continue(r)

Spec == Init /\ [][Next]_vars

(* The Go scheduler runs every goroutine: an accepted request goes on.      *)
(* Nothing makes clients send one.                                          *)
FairSpec == Spec /\ \A r \in Slot : WF_vars(Continue(r))
=============================================================================
