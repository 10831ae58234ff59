---------------------------- MODULE SurveyProps ----------------------------
(* What the requests of SurveyApi promise about the survey tables.          *)
EXTENDS SurveyApi

(* The labels at which a request's id is that of a participant. *)
ForParticipant ==
    {"linkConsent", "insertParticipant", "lookup", "store", "recheck",
     "eraseResponses", "eraseParticipant", "blankEmail", "auditErase"}

(* What the local variables of a request hold when it reaches a label.      *)
Ready(label, local) ==
    /\ label \in {"form", "linkConsent", "insertParticipant", "insertConsent",
                  "insertSealed"} => local.scale # NULL
    /\ label \in ForParticipant => local.id \in Participant
    /\ label \in {"insertConsent", "answerConsent"} => local.id \in Consent
    /\ label = "insertSealed" => local.id \in Sealed
    /\ label = "blankEmail" => ~local.hard

SlotsOK ==
    /\ pc \in [Slot -> Label]
    /\ loc \in [Slot -> Local]
    /\ \A r \in Slot : Ready(pc[r], loc[r])

(* Every variable has its type, every row of every table its columns, and   *)
(* a request the inputs its next store call takes.                          *)
TypeOK ==
    /\ TablesOK
    /\ SlotsOK
    /\ mintedFor \in [Minted -> Scale \cup {NULL}]
    /\ known \subseteq Generated
    /\ erased \subseteq [id : Participant, hard : BOOLEAN, answered : BOOLEAN]
    /\ resent \subseteq Slot \X Sealed

Referenced ==
    /\ \A row \in items : row.scale \in Ids(scales)
    /\ \A row \in responses : HasParents(row)
    /\ \A row \in consents \cup sealed : row.scale \in Ids(scales)

(* On connections that enforce foreign keys no row ever refers to a row     *)
(* that is gone, however deletions overtake the submissions, imports and    *)
(* signatures that read the parent row before.                              *)
ReferentialIntegrity == FkModes = {TRUE} => Referenced

Gone(p) ==
    /\ p \notin Ids(participants)
    /\ \A row \in responses : row.pid # p

(* After a hard delete has been answered { ok: true } nothing of the        *)
(* participant is or comes back in the tables, though an administrator can  *)
(* delete a participant whose submission is still being stored.             *)
ErasedIsGone == \A e \in erased : e.hard => Gone(e.id)

(* The same for a participant whose submission was answered before the      *)
(* delete arrived (always so for the self-service link): this much does not *)
(* depend on foreign keys, because the responses are deleted first.         *)
AnsweredErasedIsGone == \A e \in erased : e.hard /\ e.answered => Gone(e.id)

(* When a purge is answered, no response or consent of the scale is left of *)
(* those answered before the purge was asked for, and no encrypted response *)
(* of those either, except one that was sent again since: its id is the     *)
(* client's, and the row comes back (query.sql: InsertE2EEResponse).        *)
PurgeIsComplete ==
    \A r \in Slot : pc[r] = "auditPurge" =>
        /\ \A row \in responses :
              row.scale = loc[r].scale => row.pid \notin loc[r].before
        /\ \A row \in consents :
              row.scale = loc[r].scale => row.id \notin loc[r].before
        /\ \A row \in sealed : row.scale = loc[r].scale =>
              row.id \notin loc[r].before \/ <<r, row.id>> \in resent

(* A participant's consent id is that of a consent signed for the scale of  *)
(* the form, also when consents are purged and scales deleted in between.   *)
ConsentMatchesForm ==
    \A row \in participants : row.consent # NULL =>
        mintedFor[row.consent] = mintedFor[row.id]

(* Once a submission is answered its set of responses only shrinks: nothing *)
(* is stored for it afterwards by anyone.                                   *)
AnsweredIsSettled ==
    [][\A p \in known \cap Participant :
          {row \in responses' : row.pid = p} \subseteq responses]_vars

(* A hard delete that has found its participant ends with the participant   *)
(* and the responses gone, whatever runs beside it.                         *)
ErasureCompletes ==
    \A p \in Participant :
        (\E r \in Slot : pc[r] = "eraseResponses" /\ loc[r].id = p) ~> Gone(p)

-----------------------------------------------------------------------------
(* The requests implement Participation.                                    *)

(* The participant of a submission is not inserted yet. *)
Pending(r) == pc[r] \in {"linkConsent", "insertParticipant"}

(* An id is generated before its row is inserted, and used for one row.     *)
Life(p) ==
    IF p \in Ids(participants) THEN "registered"
    ELSE IF mintedFor[p] = NULL \/ \E r \in Slot : Pending(r) /\ loc[r].id = p
    THEN "expected" ELSE "left"

Promise == INSTANCE Participation WITH
    Linked <- FkModes = {TRUE},
    life <- [p \in Participant |-> Life(p)],
    answers <- {<<row.pid, row.item>> : row \in responses},
    told <- known \cap Participant,
    forgotten <- {e.id : e \in {x \in erased : x.hard /\ (FkModes = {TRUE} \/ x.answered)}}

(* A participant's data come once, are complete when the respondent is told *)
(* of them and go for good, although a submission, deletes of participants, *)
(* purges and deletes of items and scales run at the same time, none in a   *)
(* transaction (ProcessBulkResponses; DeleteParticipantByID).               *)
DataPromise == Promise!Spec

-----------------------------------------------------------------------------
(* Statements of the documentation that the code does not keep.             *)

(* docs/api/rest.md:39: DELETE /api/admin/scales/{id} deletes the scale     *)
(* with its items and responses.                                            *)
DeletedScaleIsEmpty ==
    \A r \in Slot : pc[r] = "auditDrop" =>
        \A row \in responses :
            row.scale = loc[r].scale => row.pid \notin loc[r].before
=============================================================================
