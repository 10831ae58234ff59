---------------------------- MODULE SurveyProofs ----------------------------
(* Theorems about SurveyApi, for every value of its constants.              *)
EXTENDS SurveyProps, TLAPS

-----------------------------------------------------------------------------
(* Why they hold: inductive invariants.                                     *)

Submitting(r) == Pending(r) \/ pc[r] \in {"lookup", "store"}

Concerns(r, p) == pc[r] \in ForParticipant /\ loc[r].id = p

(* No trace of p but in the slot of its own submission. *)
Unused(p) ==
    /\ p \notin Ids(participants)
    /\ p \notin known
    /\ \A e \in erased : e.id # p

(* Ids are used once: an id nobody generated is nowhere, one whose row is   *)
(* not inserted yet belongs to one request, and no two requests store       *)
(* answers for the same participant, nor one after it was answered.         *)
Provenance ==
    /\ \A p \in Participant : mintedFor[p] = NULL =>
          Unused(p) /\ \A q \in Slot : ~Concerns(q, p)
    /\ \A r \in Slot : Pending(r) =>
          Unused(loc[r].id) /\ \A q \in Slot \ {r} : ~Concerns(q, loc[r].id)
    /\ \A r \in Slot : Submitting(r) =>
          /\ loc[r].id \notin known
          /\ \A q \in Slot \ {r} : Submitting(q) => loc[q].id # loc[r].id
    /\ \A r \in Slot : loc[r].before \subseteq known

(* A hard delete of a participant answered before has nothing left behind   *)
(* it, and nothing follows it.                                              *)
AnsweredErasure ==
    /\ \A r \in Slot : pc[r] = "eraseParticipant" /\ loc[r].id \in loc[r].before =>
          \A row \in responses : row.pid # loc[r].id
    /\ \A r \in Slot : /\ pc[r] = "auditErase" /\ loc[r].hard
                         /\ loc[r].id \in loc[r].before
                        => Gone(loc[r].id)
    /\ \A e \in erased : e.answered => e.id \in known
    /\ AnsweredErasedIsGone

(* With foreign keys it suffices that the participant's row is gone.        *)
RowErased ==
    /\ \A r \in Slot : pc[r] = "auditErase" /\ loc[r].hard =>
          loc[r].id \notin Ids(participants)
    /\ \A e \in erased : e.hard => e.id \notin Ids(participants)

(* What a row or a request says of the form agrees with what its id was     *)
(* generated for.                                                           *)
Linking ==
    /\ \A row \in consents : mintedFor[row.id] = row.scale
    /\ \A row \in participants : mintedFor[row.id] # NULL
    /\ ConsentMatchesForm
    /\ \A r \in Slot : Pending(r) \/ pc[r] = "insertConsent" =>
          mintedFor[loc[r].id] = loc[r].scale
    /\ \A r \in Slot : pc[r] = "insertParticipant" /\ loc[r].consent # NULL =>
          mintedFor[loc[r].consent] = loc[r].scale

(* The request holds the id of a signature that nobody has been told yet.   *)
Issuing(r) == pc[r] \in {"insertConsent", "answerConsent"}

(* Such an id is one request's own. *)
Issued ==
    /\ \A g \in Consent : mintedFor[g] = NULL =>
          g \notin known /\ \A r \in Slot : Issuing(r) => loc[r].id # g
    /\ \A r \in Slot : Issuing(r) =>
          /\ loc[r].id \notin known
          /\ \A q \in Slot \ {r} : Issuing(q) => loc[q].id # loc[r].id

(* A purge has nothing left behind it of what was answered before it came   *)
(* and not sent again.                                                      *)
PurgedSoFar ==
    /\ \A r \in Slot : pc[r] \in {"purgeSealed", "purgeConsents", "auditPurge"} =>
          \A row \in responses : row.scale = loc[r].scale => row.pid \notin loc[r].before
    /\ \A r \in Slot : pc[r] \in {"purgeConsents", "auditPurge"} =>
          \A row \in sealed : row.scale = loc[r].scale =>
             row.id \notin loc[r].before \/ <<r, row.id>> \in resent
    /\ \A r \in Slot : pc[r] = "auditPurge" =>
          \A row \in consents : row.scale = loc[r].scale => row.id \notin loc[r].before

-----------------------------------------------------------------------------
(* The statements of SurveyStore keep the tables' types.                    *)

(* Inserting a row of the table's type. *)
LEMMA InsertType ==
    ASSUME TablesOK, NEW fk \in FkModes
    PROVE  /\ \A row \in ScaleRow : Write(InsertScale(row)) => TablesOK'
           /\ \A row \in ItemRow : Write(InsertItem(row, fk)) => TablesOK'
           /\ \A row \in ParticipantRow :
                 Write(InsertParticipant(row)) => TablesOK'
           /\ \A row \in ResponseRow :
                 Write(UpsertResponse(row, fk)) => TablesOK'
           /\ \A row \in ConsentRow : Write(UpsertConsent(row, fk)) => TablesOK'
           /\ \A row \in SealedRow : Write(UpsertSealed(row, fk)) => TablesOK'
  BY DEF TablesOK, Write, tables, InsertScale, InsertItem, InsertParticipant,
         UpsertResponse, UpsertConsent, UpsertSealed

(* Deleting rows. *)
LEMMA DropType ==
    ASSUME TablesOK, NEW fk \in FkModes, NEW x
    PROVE  /\ DropScale(x, fk) => TablesOK'
           /\ DropItem(x, fk) => TablesOK'
           /\ Write(DropParticipant(x, fk)) => TablesOK'
           /\ Write(DropResponses(x)) => TablesOK'
           /\ Write(DropSealed(x)) => TablesOK'
           /\ Write(DropConsentsOf(x)) => TablesOK'
  BY DEF TablesOK, Write, tables, DropScale, DropItem, DropParticipant,
         DropResponses, DropSealed, DropConsentsOf

(* Blanking an e-mail address leaves a participant row. *)
LEMMA BlankType ==
    ASSUME TablesOK, NEW p, BlankEmail(p)
    PROVE  TablesOK'
  <1>1. ASSUME NEW row \in participants
        PROVE  [row EXCEPT !.email = NULL] \in ParticipantRow
    BY DEF TablesOK, ParticipantRow
  <1>2. participants' \subseteq ParticipantRow
    BY <1>1 DEF BlankEmail, TablesOK
  <1>3. QED
    BY <1>2 DEF BlankEmail, TablesOK
-----------------------------------------------------------------------------
(* The local variables of a request.                                        *)

LEMMA BlankIsLocal == Blank \in Local
  BY DEF Blank, Local

(* Each local variable may be given a value of its type. *)
LEMMA LocalUpdate ==
    ASSUME NEW l \in Local
    PROVE  /\ \A v \in Scale \cup {NULL} : [l EXCEPT !.scale = v] \in Local
           /\ \A v \in Generated \cup {NULL} : [l EXCEPT !.id = v] \in Local
           /\ \A v \in Email \cup {NULL} : [l EXCEPT !.email = v] \in Local
           /\ \A v \in Consent \cup {NULL} : [l EXCEPT !.consent = v] \in Local
           /\ \A v \in Item \cup {NULL} : [l EXCEPT !.item = v] \in Local
           /\ \A v \in BOOLEAN : [l EXCEPT !.hard = v] \in Local
           /\ \A v \in Seq(Item) : [l EXCEPT !.todo = v] \in Local
           /\ \A v \in Seq(Item) : [l EXCEPT !.built = v] \in Local
           /\ \A v \in SUBSET ItemRow : [l EXCEPT !.rows = v] \in Local
           /\ \A v \in SUBSET Generated : [l EXCEPT !.before = v] \in Local
  BY DEF Local

(* A request goes to a label it is ready for. *)
LEMMA GotoType ==
    ASSUME SlotsOK, NEW r \in Slot, NEW label \in Label, NEW local \in Local,
           Ready(label, local), Goto(r, label, local)
    PROVE  SlotsOK'
  <1>1. pc' \in [Slot -> Label] /\ loc' \in [Slot -> Local]
    BY DEF Goto, SlotsOK
  <1>2. ASSUME NEW q \in Slot PROVE Ready(pc'[q], loc'[q])
    <2>1. CASE q = r
      BY <2>1 DEF Goto, SlotsOK
    <2>2. CASE q # r
      BY <2>2 DEF Goto, SlotsOK
    <2>3. QED BY <2>1, <2>2
  <1>3. QED BY <1>1, <1>2 DEF SlotsOK, Ready

(* A finished request holds nothing. *)
LEMMA FinishType ==
    ASSUME SlotsOK, NEW r \in Slot, Finish(r)
    PROVE  SlotsOK'
  BY BlankIsLocal, GotoType
     DEF Finish, Ready, Label, ForParticipant
-----------------------------------------------------------------------------
(* Every action keeps the types.                                            *)

(* The respondent's answers are a sequence of items. *)
LEMMA FormsType ==
    ASSUME TablesOK, NEW s, NEW answers \in Forms(s)
    PROVE  answers \in Seq(Item)
  <1>1. PICK n \in 1..MaxAnswers :
          answers \in [1..n -> {row.id : row \in {i \in items : i.scale = s}}]
    BY DEF Forms
  <1>2. answers \in [1..n -> Item]
    BY <1>1 DEF TablesOK, ItemRow
  <1>3. n \in Nat
    BY ApiAssumption
  <1>4. QED BY <1>2, <1>3

LEMMA OpenFormType ==
    ASSUME TypeOK, NEW r \in Slot, OpenForm(r)
    PROVE  TypeOK'
  <1>0. PICK row \in scales : \E answers \in Forms(row.id) :
          \E email \in Email \cup {NULL} :
          \E consent \in (known \cap Consent) \cup {NULL} :
            Goto(r, "form", [Blank EXCEPT !.scale = row.id, !.todo = answers,
                                          !.email = email, !.consent = consent])
    BY DEF OpenForm
  <1>1. PICK answers \in Forms(row.id), email \in Email \cup {NULL},
             consent \in (known \cap Consent) \cup {NULL} :
          Goto(r, "form", [Blank EXCEPT !.scale = row.id, !.todo = answers,
                                        !.email = email, !.consent = consent])
    BY <1>0
  <1> DEFINE local == [Blank EXCEPT !.scale = row.id, !.todo = answers,
                                    !.email = email, !.consent = consent]
  <1>2. row.id \in Scale /\ row.id # NULL
    BY StoreAssumption DEF TypeOK, TablesOK, ScaleRow
  <1>3. answers \in Seq(Item)
    BY FormsType DEF TypeOK
  <1>4. local \in Local /\ local.scale = row.id
    <2>1. [Blank EXCEPT !.scale = row.id, !.todo = answers] \in Local
      BY <1>2, <1>3, BlankIsLocal, LocalUpdate
    <2>2. local \in Local
      BY <2>1, LocalUpdate
    <2>3. QED
      BY <2>2 DEF Blank
  <1>5. Ready("form", local)
    BY <1>2, <1>4 DEF Ready, ForParticipant
  <1> HIDE DEF local
  <1>6. SlotsOK'
    BY <1>1, <1>4, <1>5, GotoType DEF TypeOK, Label, local
  <1>7. QED
    BY <1>6 DEF TypeOK, OpenForm, tables, TablesOK

LEMMA SubmitType ==
    ASSUME TypeOK, NEW r \in Slot, Submit(r)
    PROVE  TypeOK'
  <1>1. /\ pc[r] = "form" /\ loc[r] \in Local
        /\ loc[r].scale \in Scale \cup {NULL} /\ loc[r].scale # NULL
    BY DEF Submit, TypeOK, SlotsOK, Ready, Local
  <1>2. CASE Finish(r) /\ UNCHANGED mintedFor
    BY <1>2, FinishType DEF Submit, TypeOK, tables, TablesOK
  <1>3. ASSUME NEW p \in Fresh(Participant),
               mintedFor' = [mintedFor EXCEPT ![p] = loc[r].scale],
               Goto(r, IF loc[r].consent = NULL THEN "insertParticipant"
                       ELSE "linkConsent", [loc[r] EXCEPT !.id = p])
        PROVE  TypeOK'
    <2> DEFINE local == [loc[r] EXCEPT !.id = p]
               label == IF loc[r].consent = NULL THEN "insertParticipant"
                        ELSE "linkConsent"
    <2>1. p \in Participant /\ p \in Generated
      BY DEF Fresh, Generated, Minted
    <2>2. local \in Local
      BY <1>1, <2>1, LocalUpdate
    <2>3. local.id = p /\ local.scale = loc[r].scale
      BY <1>1 DEF Local
    <2>4. label \in Label /\ Ready(label, local)
      BY <1>1, <2>1, <2>3 DEF Label, Ready
    <2> HIDE DEF local, label
    <2>5. SlotsOK'
      BY <1>3, <2>2, <2>4, GotoType DEF TypeOK, local, label
    <2>6. mintedFor' \in [Minted -> Scale \cup {NULL}]
      BY <1>1, <1>3, <2>1 DEF TypeOK
    <2>7. QED
      BY <2>5, <2>6 DEF Submit, TypeOK, tables, TablesOK
  <1>4. QED
    BY <1>2, <1>3 DEF Submit

LEMMA SubmissionType ==
    ASSUME TypeOK, NEW r \in Slot, Submission(r)
    PROVE  TypeOK'
  <1>1. loc[r] \in Local /\ Ready(pc[r], loc[r])
    BY DEF TypeOK, SlotsOK
  <1>2. CASE LinkConsent(r)
    <2>1. [loc[r] EXCEPT !.consent = NULL] \in Local
      BY <1>1, LocalUpdate
    <2>2. /\ Ready("insertParticipant", loc[r])
          /\ Ready("insertParticipant", [loc[r] EXCEPT !.consent = NULL])
      BY <1>1, <1>2 DEF LinkConsent, Ready, ForParticipant, Local
    <2>3. SlotsOK'
      BY <1>1, <1>2, <2>1, <2>2, GotoType DEF LinkConsent, TypeOK, Label
    <2>4. QED
      BY <1>2, <2>3 DEF LinkConsent, TypeOK, tables, TablesOK
  <1>3. CASE AddParticipant(r)
    <2>1. [id |-> loc[r].id, email |-> loc[r].email,
           consent |-> loc[r].consent] \in ParticipantRow
      BY <1>1, <1>3 DEF AddParticipant, Ready, ForParticipant, Local, ParticipantRow
    <2>2. TablesOK'
      BY <1>3, <2>1, InsertType, StoreAssumption DEF AddParticipant, TypeOK
    <2>3. Ready("lookup", loc[r])
      BY <1>1, <1>3 DEF AddParticipant, Ready, ForParticipant
    <2>4. SlotsOK'
      BY <1>1, <1>3, <2>3, GotoType DEF AddParticipant, TypeOK, Label
    <2>5. QED
      BY <1>3, <2>2, <2>4 DEF AddParticipant, TypeOK
  <1>4. CASE LookupItem(r)
    <2>1. pc[r] = "lookup" /\ loc[r].todo \in Seq(Item) /\ loc[r].built \in Seq(Item)
      BY <1>1, <1>4 DEF LookupItem, Local
    <2>2. Ready("store", loc[r])
      BY <1>1, <2>1 DEF Ready, ForParticipant
    <2>3. CASE loc[r].todo = <<>>
      <3>1. SlotsOK'
        BY <1>1, <1>4, <2>2, <2>3, GotoType DEF LookupItem, TypeOK, Label
      <3>2. QED
        BY <1>4, <3>1 DEF LookupItem, TypeOK, tables, TablesOK
    <2>4. CASE loc[r].todo # <<>>
      <3> DEFINE rest == [loc[r] EXCEPT !.todo = Tail(loc[r].todo)]
                 more == [rest EXCEPT !.built = Append(loc[r].built, Head(loc[r].todo))]
      <3>1. Head(loc[r].todo) \in Item /\ Tail(loc[r].todo) \in Seq(Item)
        BY <2>1, <2>4
      <3>2. Append(loc[r].built, Head(loc[r].todo)) \in Seq(Item)
        BY <2>1, <3>1
      <3>3. rest \in Local
        BY <1>1, <3>1, LocalUpdate
      <3>4. more \in Local
        BY <3>2, <3>3, LocalUpdate
      <3>5. rest.id = loc[r].id /\ more.id = loc[r].id
        BY <1>1 DEF Local
      <3>6. Ready("lookup", rest) /\ Ready("lookup", more)
        BY <1>1, <2>1, <3>5 DEF Ready, ForParticipant
      <3>7. Goto(r, "lookup", more) \/ Goto(r, "lookup", rest)
        BY <1>4, <2>4 DEF LookupItem
      <3> HIDE DEF rest, more
      <3>8. SlotsOK'
        BY <3>3, <3>4, <3>6, <3>7, GotoType DEF TypeOK, Label
      <3>9. QED
        BY <1>4, <3>8 DEF LookupItem, TypeOK, tables, TablesOK
    <2>5. QED BY <2>3, <2>4
  <1>5. CASE ResolveScale(r)
    <2> DEFINE found == {row \in items : row.id = Head(loc[r].built)}
               fewer == [loc[r] EXCEPT !.built = Tail(loc[r].built)]
               read == [loc[r] EXCEPT !.rows = loc[r].rows \cup found]
    <2>1. /\ pc[r] = "store" /\ loc[r].built \in Seq(Item) /\ loc[r].built # <<>>
          /\ loc[r].rows \subseteq ItemRow
      BY <1>1, <1>5 DEF ResolveScale, Storing, Local
    <2>2. Tail(loc[r].built) \in Seq(Item) /\ loc[r].rows \cup found \subseteq ItemRow
      BY <2>1 DEF TypeOK, TablesOK
    <2>3. fewer \in Local /\ read \in Local
      BY <1>1, <2>2, LocalUpdate
    <2>4. fewer.id = loc[r].id /\ read.id = loc[r].id
      BY <1>1 DEF Local
    <2>5. Ready("store", fewer) /\ Ready("store", read)
      BY <1>1, <2>1, <2>4 DEF Ready, ForParticipant
    <2>6. Goto(r, "store", fewer) \/ Goto(r, "store", read)
      BY <1>5 DEF ResolveScale
    <2> HIDE DEF fewer, read
    <2>7. SlotsOK'
      BY <2>3, <2>5, <2>6, GotoType DEF TypeOK, Label
    <2>8. QED
      BY <1>5, <2>7 DEF ResolveScale, TypeOK, tables, TablesOK
  <1>6. CASE InsertResponse(r)
    <2>1. PICK row \in loc[r].rows, fk \in FkModes :
            Write(UpsertResponse([pid |-> loc[r].id, item |-> row.id,
                                  scale |-> row.scale], fk))
      BY <1>6 DEF InsertResponse
    <2>2. /\ pc[r] = "store" /\ loc[r].built \in Seq(Item) /\ loc[r].built # <<>>
          /\ row \in ItemRow /\ loc[r].id \in Participant
      BY <1>1, <1>6 DEF InsertResponse, Storing, Local, Ready, ForParticipant
    <2>3. [pid |-> loc[r].id, item |-> row.id, scale |-> row.scale] \in ResponseRow
      BY <2>2 DEF ItemRow, ResponseRow
    <2>4. TablesOK'
      BY <2>1, <2>3, InsertType DEF TypeOK
    <2> DEFINE fewer == [loc[r] EXCEPT !.built = Tail(loc[r].built)]
    <2>5. fewer \in Local /\ fewer.id = loc[r].id
      <3>1. Tail(loc[r].built) \in Seq(Item)
        BY <2>2
      <3>2. fewer \in Local
        BY <1>1, <3>1, LocalUpdate
      <3>3. QED
        BY <1>1, <3>2 DEF Local
    <2>6. Ready("store", fewer)
      BY <2>2, <2>5 DEF Ready, ForParticipant
    <2>7. Goto(r, "store", fewer)
      BY <1>6 DEF InsertResponse
    <2> HIDE DEF fewer
    <2>8. SlotsOK'
      BY <2>5, <2>6, <2>7, GotoType DEF TypeOK, Label
    <2>9. QED
      BY <1>6, <2>4, <2>8 DEF InsertResponse, TypeOK
  <1>7. CASE AnswerSubmit(r)
    <2>1. loc[r].id \in Generated
      BY <1>1, <1>7 DEF AnswerSubmit, Ready, ForParticipant, Generated, Minted
    <2>2. QED
      BY <1>7, <2>1, FinishType DEF AnswerSubmit, TypeOK, tables, TablesOK
  <1>8. QED
    BY <1>2, <1>3, <1>4, <1>5, <1>6, <1>7 DEF Submission
LEMMA SigningType ==
    ASSUME TypeOK, NEW r \in Slot, Signing(r)
    PROVE  TypeOK'
  <1>1. loc[r] \in Local /\ Ready(pc[r], loc[r])
    BY DEF TypeOK, SlotsOK
  <1>2. CASE InsertConsent(r)
    <2>1. PICK fk \in FkModes :
            Write(UpsertConsent([id |-> loc[r].id, scale |-> loc[r].scale], fk))
      BY <1>2 DEF InsertConsent
    <2>2. [id |-> loc[r].id, scale |-> loc[r].scale] \in ConsentRow
      BY <1>1, <1>2 DEF InsertConsent, Ready, Local, ConsentRow
    <2>3. TablesOK'
      BY <2>1, <2>2, InsertType DEF TypeOK
    <2>4. Ready("answerConsent", loc[r])
      BY <1>1, <1>2 DEF InsertConsent, Ready, ForParticipant
    <2>5. SlotsOK'
      BY <1>1, <1>2, <2>4, GotoType DEF InsertConsent, TypeOK, Label
    <2>6. QED
      BY <1>2, <2>3, <2>5 DEF InsertConsent, TypeOK
  <1>3. CASE AnswerConsent(r)
    <2>1. SlotsOK'
      BY <1>3, FinishType DEF AnswerConsent, TypeOK
    <2>2. known' = known \cup {loc[r].id}
      BY <1>3 DEF AnswerConsent
    <2>3. known' \subseteq Generated
      BY <1>1, <1>3, <2>2 DEF AnswerConsent, Ready, Generated, Minted, TypeOK
    <2>4. QED
      BY <1>3, <2>1, <2>3 DEF AnswerConsent, TypeOK, tables, TablesOK
  <1>4. QED
    BY <1>2, <1>3 DEF Signing

LEMMA SealingType ==
    ASSUME TypeOK, NEW r \in Slot, Sealing(r)
    PROVE  TypeOK'
  <1>1. loc[r] \in Local /\ Ready(pc[r], loc[r])
    BY DEF TypeOK, SlotsOK
  <1>2. CASE InsertSealed(r)
    <2>1. PICK fk \in FkModes :
            Write(UpsertSealed([id |-> loc[r].id, scale |-> loc[r].scale], fk))
      BY <1>2 DEF InsertSealed
    <2>2. loc[r].id \in Sealed /\ loc[r].scale \in Scale
      BY <1>1, <1>2 DEF InsertSealed, Ready, Local
    <2>3. [id |-> loc[r].id, scale |-> loc[r].scale] \in SealedRow
      BY <2>2 DEF SealedRow
    <2>4. TablesOK'
      BY <2>1, <2>3, InsertType DEF TypeOK
    <2>5. SlotsOK'
      BY <1>2, FinishType DEF InsertSealed, TypeOK
    <2>6. known' \subseteq Generated
      BY <1>2, <2>2 DEF InsertSealed, TypeOK, Generated, Minted
    <2>7. resent' \subseteq Slot \X Sealed
      BY <1>2, <2>2 DEF InsertSealed, TypeOK, PurgeSlots
    <2>8. QED
      BY <1>2, <2>4, <2>5, <2>6, <2>7 DEF InsertSealed, TypeOK
  <1>3. CASE DeleteE2EEResponse(r)
    <2>1. TablesOK'
      BY <1>3, DropType, StoreAssumption DEF DeleteE2EEResponse, TypeOK
    <2>2. QED
      BY <1>3, <2>1, FinishType DEF DeleteE2EEResponse, TypeOK
  <1>4. QED
    BY <1>2, <1>3 DEF Sealing

LEMMA ErasureType ==
    ASSUME TypeOK, NEW r \in Slot, Erasure(r)
    PROVE  TypeOK'
  <1>1. loc[r] \in Local /\ Ready(pc[r], loc[r])
    BY DEF TypeOK, SlotsOK
  <1>2. CASE Recheck(r)
    <2>1. loc[r].hard => Ready("eraseResponses", loc[r])
      BY <1>1, <1>2 DEF Recheck, Ready, ForParticipant
    <2>2. ~loc[r].hard => Ready("blankEmail", loc[r])
      BY <1>1, <1>2 DEF Recheck, Ready, ForParticipant
    <2>3. SlotsOK'
      BY <1>1, <1>2, <2>1, <2>2, GotoType, FinishType DEF Recheck, TypeOK, Label
    <2>4. QED
      BY <1>2, <2>3 DEF Recheck, TypeOK, tables, TablesOK
  <1>3. CASE EraseResponses(r)
    <2>1. TablesOK'
      BY <1>3, DropType, StoreAssumption DEF EraseResponses, TypeOK
    <2>2. Ready("eraseParticipant", loc[r])
      BY <1>1, <1>3 DEF EraseResponses, Ready, ForParticipant
    <2>3. SlotsOK'
      BY <1>1, <1>3, <2>2, GotoType DEF EraseResponses, TypeOK, Label
    <2>4. QED
      BY <1>3, <2>1, <2>3 DEF EraseResponses, TypeOK
  <1>4. CASE EraseParticipant(r)
    <2>1. TablesOK'
      BY <1>4, DropType DEF EraseParticipant, TypeOK
    <2>2. Ready("auditErase", loc[r])
      BY <1>1, <1>4 DEF EraseParticipant, Ready, ForParticipant
    <2>3. SlotsOK'
      BY <1>1, <1>4, <2>2, GotoType DEF EraseParticipant, TypeOK, Label
    <2>4. QED
      BY <1>4, <2>1, <2>3 DEF EraseParticipant, TypeOK
  <1>5. CASE Anonymize(r)
    <2>1. TablesOK'
      BY <1>5, BlankType DEF Anonymize, TypeOK, tables, TablesOK
    <2>2. Ready("auditErase", loc[r])
      BY <1>1, <1>5 DEF Anonymize, Ready, ForParticipant
    <2>3. SlotsOK'
      BY <1>1, <1>5, <2>2, GotoType, FinishType DEF Anonymize, TypeOK, Label
    <2>4. QED
      BY <1>5, <2>1, <2>3 DEF Anonymize, TypeOK
  <1>6. CASE AnswerErase(r)
    <2>1. loc[r].id \in Participant /\ loc[r].hard \in BOOLEAN
      BY <1>1, <1>6 DEF AnswerErase, Ready, ForParticipant, Local
    <2> DEFINE answered == loc[r].id \in loc[r].before
               row == [id |-> loc[r].id, hard |-> loc[r].hard, answered |-> answered]
    <2>2. answered \in BOOLEAN
      OBVIOUS
    <2>3. erased' = erased \cup {row}
      BY <1>6 DEF AnswerErase
    <2> HIDE DEF answered
    <2>4. row \in [id : Participant, hard : BOOLEAN, answered : BOOLEAN]
      BY <2>1, <2>2
    <2> HIDE DEF row
    <2>5. erased' \subseteq [id : Participant, hard : BOOLEAN, answered : BOOLEAN]
      BY <2>3, <2>4 DEF TypeOK
    <2>6. QED
      BY <1>6, <2>5, FinishType DEF AnswerErase, TypeOK, tables, TablesOK
  <1>7. QED
    BY <1>2, <1>3, <1>4, <1>5, <1>6 DEF Erasure

LEMMA PurgingType ==
    ASSUME TypeOK, NEW r \in Slot, Purging(r)
    PROVE  TypeOK'
  <1>1. loc[r] \in Local
    BY DEF TypeOK, SlotsOK
  <1>2. \A label \in {"purgeSealed", "purgeConsents", "auditPurge"} :
            label \in Label /\ Ready(label, loc[r])
    BY DEF Label, Ready, ForParticipant
  <1>3. SlotsOK'
    BY <1>1, <1>2, GotoType, FinishType
       DEF Purging, PurgeResponses, PurgeSealed, PurgeConsents, AnswerPurge, TypeOK
  <1>4. DropResponses({row \in responses : row.scale = loc[r].scale}) => TablesOK'
    BY DEF DropResponses, TypeOK, TablesOK
  <1>5. TablesOK'
    <2>1. CASE PurgeResponses(r)
      BY <1>4, <2>1 DEF PurgeResponses, TypeOK, tables, TablesOK
    <2>2. CASE PurgeSealed(r)
      BY <2>2, DropType, StoreAssumption DEF PurgeSealed, TypeOK
    <2>3. CASE PurgeConsents(r)
      BY <2>3, DropType, StoreAssumption DEF PurgeConsents, TypeOK
    <2>4. CASE AnswerPurge(r)
      BY <2>4 DEF AnswerPurge, TypeOK, tables, TablesOK
    <2>5. QED
      BY <2>1, <2>2, <2>3, <2>4 DEF Purging
  <1>6. QED
    BY <1>3, <1>5 DEF Purging, PurgeResponses, PurgeSealed, PurgeConsents,
                      AnswerPurge, TypeOK

LEMMA EditingType ==
    ASSUME TypeOK, NEW r \in Slot, Editing(r)
    PROVE  TypeOK'
  <1>1. loc[r] \in Local
    BY DEF TypeOK, SlotsOK
  <1>2. CASE InsertNextItem(r)
    <2>1. PICK row \in loc[r].rows, fk \in FkModes :
            /\ Write(InsertItem(row, fk))
            /\ \/ Goto(r, "insertItem", [loc[r] EXCEPT !.rows = loc[r].rows \ {row}])
               \/ Finish(r)
      BY <1>2 DEF InsertNextItem
    <2>2. loc[r].rows \subseteq ItemRow
      BY <1>1 DEF Local
    <2>3. TablesOK'
      BY <2>1, <2>2, InsertType DEF TypeOK
    <2> DEFINE fewer == [loc[r] EXCEPT !.rows = loc[r].rows \ {row}]
    <2>4. fewer \in Local
      BY <1>1, <2>2, LocalUpdate
    <2>5. Ready("insertItem", fewer)
      BY DEF Ready, ForParticipant
    <2>6. Goto(r, "insertItem", fewer) \/ Finish(r)
      BY <2>1
    <2> HIDE DEF fewer
    <2>7. SlotsOK'
      BY <2>4, <2>5, <2>6, GotoType, FinishType DEF TypeOK, Label
    <2>8. QED
      BY <1>2, <2>3, <2>7 DEF InsertNextItem, TypeOK
  <1>3. CASE AnswerAddItems(r) \/ AnswerDeleteScale(r)
    BY <1>3, FinishType
       DEF AnswerAddItems, AnswerDeleteScale, TypeOK, tables, TablesOK
  <1>4. CASE DropScaleRow(r)
    <2>1. TablesOK'
      BY <1>4, DropType DEF DropScaleRow, TypeOK, tables, TablesOK
    <2>2. Ready("auditDrop", loc[r])
      BY DEF Ready, ForParticipant
    <2>3. SlotsOK'
      BY <1>1, <1>4, <2>2, GotoType, FinishType DEF DropScaleRow, TypeOK, Label
    <2>4. QED
      BY <1>4, <2>1, <2>3 DEF DropScaleRow, TypeOK
  <1>5. CASE DeleteItemResponses(r)
    <2>1. TablesOK'
      BY <1>5, DropType, StoreAssumption DEF DeleteItemResponses, TypeOK
    <2>2. QED
      BY <1>5, <2>1, FinishType DEF DeleteItemResponses, TypeOK
  <1>6. QED
    BY <1>2, <1>3, <1>4, <1>5 DEF Editing
LEMMA ArriveType ==
    ASSUME TypeOK, NEW r \in Slot, Arrive(r)
    PROVE  TypeOK'
  <1> DEFINE Fits(label, local) ==
        label \in Label /\ local \in Local /\ Ready(label, local)
  <1>1. ASSUME NEW label, NEW local, Fits(label, local), Goto(r, label, local)
        PROVE  SlotsOK'
    BY <1>1, GotoType DEF TypeOK
  <1>2. \A s \in Scale : s # NULL
    BY StoreAssumption
  <1>3. CASE SignConsent(r)
    <2>1. PICK row \in scales, c \in Fresh(Consent) :
            /\ mintedFor' = [mintedFor EXCEPT ![c] = row.id]
            /\ Goto(r, "insertConsent", [Blank EXCEPT !.scale = row.id, !.id = c])
      BY <1>3 DEF SignConsent
    <2>2. row.id \in Scale /\ c \in Consent /\ c \in Generated
      BY DEF TypeOK, TablesOK, ScaleRow, Fresh, Generated, Minted
    <2> DEFINE local == [Blank EXCEPT !.scale = row.id, !.id = c]
    <2>3. local \in Local
      BY <2>2, BlankIsLocal, LocalUpdate
    <2>4. Fits("insertConsent", local)
      BY <1>2, <2>2, <2>3 DEF Blank, Label, Ready, ForParticipant
    <2> HIDE DEF local, Fits
    <2>5. SlotsOK'
      BY <1>1, <2>1, <2>4 DEF local
    <2>6. mintedFor' \in [Minted -> Scale \cup {NULL}]
      BY <2>1, <2>2 DEF TypeOK
    <2>7. QED
      BY <1>3, <2>5, <2>6 DEF SignConsent, TypeOK, tables, TablesOK
  <1>4. CASE Intake(r)
    <2>1. PICK row \in scales, g \in Sealed :
            Goto(r, "insertSealed", [Blank EXCEPT !.scale = row.id, !.id = g])
      BY <1>4 DEF Intake
    <2>2. row.id \in Scale /\ g \in Sealed /\ g \in Generated
      BY DEF TypeOK, TablesOK, ScaleRow, Generated
    <2> DEFINE local == [Blank EXCEPT !.scale = row.id, !.id = g]
    <2>3. local \in Local
      BY <2>2, BlankIsLocal, LocalUpdate
    <2>4. Fits("insertSealed", local)
      BY <1>2, <2>2, <2>3 DEF Blank, Label, Ready, ForParticipant
    <2> HIDE DEF local, Fits
    <2>5. SlotsOK'
      BY <1>1, <2>1, <2>4 DEF local
    <2>6. QED
      BY <1>4, <2>5 DEF Intake, TypeOK, tables, TablesOK
  <1>5. CASE SelfDeleteSealed(r)
    <2>1. PICK g \in known \cap Ids(sealed) :
            Goto(r, "dropSealed", [Blank EXCEPT !.id = g])
      BY <1>5 DEF SelfDeleteSealed
    <2>2. [Blank EXCEPT !.id = g] \in Local
      BY BlankIsLocal, LocalUpdate DEF TypeOK
    <2>3. Fits("dropSealed", [Blank EXCEPT !.id = g])
      BY <2>2 DEF Label, Ready, ForParticipant
    <2>4. SlotsOK'
      BY <1>1, <2>1, <2>3
    <2>5. QED
      BY <1>5, <2>4 DEF SelfDeleteSealed, TypeOK, tables, TablesOK
  <1>6. CASE SelfDelete(r) \/ AdminDelete(r)
    <2>1. PICK p \in Ids(participants), hard \in BOOLEAN :
            Goto(r, "recheck",
                 [Blank EXCEPT !.id = p, !.hard = hard, !.before = known])
      BY <1>6 DEF SelfDelete, AdminDelete, Ids
    <2>2. p \in Participant /\ p \in Generated /\ known \subseteq Generated
      BY DEF Ids, TypeOK, TablesOK, ParticipantRow, Generated, Minted
    <2> DEFINE local == [Blank EXCEPT !.id = p, !.hard = hard, !.before = known]
    <2>3. local \in Local
      BY <2>2, BlankIsLocal, LocalUpdate
    <2>4. Fits("recheck", local)
      BY <2>2, <2>3 DEF Blank, Label, Ready
    <2> HIDE DEF local, Fits
    <2>5. SlotsOK'
      BY <1>1, <2>1, <2>4 DEF local
    <2>6. QED
      BY <1>6, <2>5 DEF SelfDelete, AdminDelete, TypeOK, tables, TablesOK
  <1>7. CASE Purge(r) \/ DeleteScale(r)
    <2>1. PICK row \in scales, label \in {"purgeResponses", "dropScale"} :
            Goto(r, label, [Blank EXCEPT !.scale = row.id, !.before = known])
      BY <1>7 DEF Purge, DeleteScale
    <2>2. row.id \in Scale /\ known \subseteq Generated
      BY DEF TypeOK, TablesOK, ScaleRow
    <2> DEFINE local == [Blank EXCEPT !.scale = row.id, !.before = known]
    <2>3. local \in Local
      BY <2>2, BlankIsLocal, LocalUpdate
    <2>4. Fits(label, local)
      BY <2>3 DEF Label, Ready, ForParticipant
    <2> HIDE DEF local, Fits
    <2>5. SlotsOK'
      BY <1>1, <2>1, <2>4 DEF local
    <2>6. QED
      BY <1>7, <2>5 DEF Purge, DeleteScale, TypeOK, tables, TablesOK
  <1>8. CASE CreateScale(r)
    <2>1. TablesOK'
      BY <1>8, InsertType, StoreAssumption, ApiAssumption DEF CreateScale, TypeOK
    <2>2. QED
      BY <1>8, <2>1 DEF CreateScale, TypeOK, SlotsOK, Ready
  <1>9. CASE AddItems(r)
    <2>1. PICK row \in scales : \E rows \in SUBSET {i \in NewItems : i.scale = row.id} :
            Goto(r, "insertItem", [Blank EXCEPT !.scale = row.id, !.rows = rows])
      BY <1>9 DEF AddItems
    <2>2. PICK rows \in SUBSET {i \in NewItems : i.scale = row.id} :
            Goto(r, "insertItem", [Blank EXCEPT !.scale = row.id, !.rows = rows])
      BY <2>1
    <2>3. row.id \in Scale /\ rows \in SUBSET ItemRow
      BY ApiAssumption DEF TypeOK, TablesOK, ScaleRow
    <2> DEFINE local == [Blank EXCEPT !.scale = row.id, !.rows = rows]
    <2>4. local \in Local
      BY <2>3, BlankIsLocal, LocalUpdate
    <2>5. Fits("insertItem", local)
      BY <2>4 DEF Label, Ready, ForParticipant
    <2> HIDE DEF local, Fits
    <2>6. SlotsOK'
      BY <1>1, <2>2, <2>5 DEF local
    <2>7. QED
      BY <1>9, <2>6 DEF AddItems, TypeOK, tables, TablesOK
  <1>10. CASE DeleteItem(r)
    <2>1. PICK row \in items, fk \in FkModes :
            \/ /\ DropItem(row.id, fk)
               /\ Goto(r, "dropItemResponses", [Blank EXCEPT !.item = row.id])
            \/ UNCHANGED <<tables, pc, loc>>
      BY <1>10 DEF DeleteItem
    <2>2. row.id \in Item
      BY DEF TypeOK, TablesOK, ItemRow
    <2>3. [Blank EXCEPT !.item = row.id] \in Local
      BY <2>2, BlankIsLocal, LocalUpdate
    <2>4. Fits("dropItemResponses", [Blank EXCEPT !.item = row.id])
      BY <2>3 DEF Label, Ready, ForParticipant
    <2>5. TablesOK'
      BY <2>1, DropType DEF TypeOK, tables, TablesOK
    <2>6. SlotsOK'
      <3>1. CASE Goto(r, "dropItemResponses", [Blank EXCEPT !.item = row.id])
        BY <1>1, <2>4, <3>1
      <3>2. CASE UNCHANGED <<tables, pc, loc>>
        BY <3>2 DEF TypeOK, SlotsOK, Ready
      <3>3. QED
        BY <2>1, <3>1, <3>2
    <2>7. QED
      BY <1>10, <2>5, <2>6 DEF DeleteItem, TypeOK
  <1>11. QED
    BY <1>3, <1>4, <1>5, <1>6, <1>7, <1>8, <1>9, <1>10, OpenFormType, SubmitType
       DEF Arrive

(* Every reachable state is well typed: every row has its columns, and no   *)
(* request reaches a store call without the inputs that call needs.         *)
THEOREM TypeCorrect == Spec => []TypeOK
  <1>1. Init => TypeOK
    BY ApiAssumption, BlankIsLocal
       DEF Init, TypeOK, TablesOK, SlotsOK, Ready, Label, ForParticipant
  <1>2. TypeOK /\ [Next]_vars => TypeOK'
    <2>1. CASE UNCHANGED vars
      BY <2>1 DEF vars, tables, TypeOK, TablesOK, SlotsOK, Ready
    <2>2. CASE Next
      BY <2>2, ArriveType, SubmissionType, SigningType, SealingType,
         ErasureType, PurgingType, EditingType DEF Next, Continue
    <2>3. QED
      BY <2>1, <2>2
  <1>3. QED
    BY <1>1, <1>2, PTL DEF Spec

-----------------------------------------------------------------------------
(* Referential integrity on connections that enforce foreign keys: every    *)
(* statement keeps it, whatever the request that runs it knows.             *)

(* Inserting a row: the parents are checked. *)
LEMMA InsertReferenced ==
    ASSUME Referenced, NEW row
    PROVE  /\ Write(InsertScale(row)) => Referenced'
           /\ Write(InsertItem(row, TRUE)) => Referenced'
           /\ Write(InsertParticipant(row)) => Referenced'
           /\ Write(UpsertResponse(row, TRUE)) => Referenced'
           /\ Write(UpsertConsent(row, TRUE)) => Referenced'
           /\ Write(UpsertSealed(row, TRUE)) => Referenced'
  BY DEF Referenced, HasParents, Ids, Write, tables, InsertScale, InsertItem,
         InsertParticipant, UpsertResponse, UpsertConsent, UpsertSealed

(* Deleting rows: ON DELETE CASCADE takes the children along. *)
LEMMA DropReferenced ==
    ASSUME Referenced, NEW x
    PROVE  /\ DropScale(x, TRUE) => Referenced'
           /\ DropItem(x, TRUE) => Referenced'
           /\ Write(DropParticipant(x, TRUE)) => Referenced'
           /\ Write(DropResponses(x)) => Referenced'
           /\ Write(DropSealed(x)) => Referenced'
           /\ Write(DropConsentsOf(x)) => Referenced'
  <1>1. DropScale(x, TRUE) => Referenced'
    BY DEF Referenced, HasParents, Ids, DropScale
  <1>2. DropItem(x, TRUE) => Referenced'
    BY DEF Referenced, HasParents, Ids, DropItem
  <1>3. Write(DropParticipant(x, TRUE)) => Referenced'
    BY DEF Referenced, HasParents, Ids, Write, tables, DropParticipant
  <1>4. QED
    BY <1>1, <1>2, <1>3
       DEF Referenced, HasParents, Ids, Write, tables, DropResponses,
           DropSealed, DropConsentsOf

(* Blanking an address leaves the participants' ids as they are. *)
LEMMA BlankIds ==
    ASSUME TablesOK, NEW p, BlankEmail(p)
    PROVE  Ids(participants)' = Ids(participants)
  <1>1. ASSUME NEW row \in participants
        PROVE  [row EXCEPT !.email = NULL].id = row.id
    BY DEF TablesOK, ParticipantRow
  <1>2. Ids(participants)' \subseteq Ids(participants)
    BY <1>1 DEF BlankEmail, Ids
  <1>3. ASSUME NEW row \in participants
        PROVE  row.id \in Ids(participants)'
    <2>1. PICK new \in participants' :
            new = IF row.id = p THEN [row EXCEPT !.email = NULL] ELSE row
      BY DEF BlankEmail
    <2>2. new.id = row.id
      BY <1>1, <2>1
    <2>3. QED
      BY <2>2 DEF Ids
  <1>4. QED
    BY <1>2, <1>3 DEF Ids

LEMMA BlankReferenced ==
    ASSUME TablesOK, Referenced, NEW p, BlankEmail(p)
    PROVE  Referenced'
  BY BlankIds DEF Referenced, HasParents, BlankEmail, Ids

LEMMA SameReferenced ==
    ASSUME Referenced, UNCHANGED tables
    PROVE  Referenced'
  BY DEF Referenced, HasParents, tables, Ids

(* However requests interleave, no row refers to a row that is gone as long *)
(* as every connection enforces foreign keys.                               *)
THEOREM ReferencesHold == Spec => []ReferentialIntegrity
  <1>1. Init => ReferentialIntegrity
    BY ApiAssumption DEF Init, ReferentialIntegrity, Referenced
  <1>2. TypeOK /\ ReferentialIntegrity /\ [Next]_vars => ReferentialIntegrity'
    <2> SUFFICES ASSUME TypeOK, FkModes = {TRUE}, Referenced, [Next]_vars
                 PROVE  Referenced'
      BY DEF ReferentialIntegrity
    <2>1. CASE UNCHANGED vars
      BY <2>1, SameReferenced DEF vars
    <2>2. ASSUME NEW r \in Slot, Arrive(r)
          PROVE  Referenced'
      <3>1. CASE CreateScale(r)
        BY <3>1, InsertReferenced DEF CreateScale
      <3>2. CASE DeleteItem(r)
        BY <3>2, DropReferenced, SameReferenced DEF DeleteItem
      <3>3. CASE UNCHANGED tables
        BY <3>3, SameReferenced
      <3>4. QED
        BY <2>2, <3>1, <3>2, <3>3
           DEF Arrive, OpenForm, Submit, SignConsent, Intake, SelfDeleteSealed,
               SelfDelete, AdminDelete, Purge, AddItems, DeleteScale
    <2>3. ASSUME NEW r \in Slot, Continue(r)
          PROVE  Referenced'
      <3>1. CASE Submission(r)
        BY <3>1, InsertReferenced, SameReferenced
           DEF Submission, LinkConsent, AddParticipant, LookupItem, ResolveScale,
               InsertResponse, AnswerSubmit
      <3>2. CASE Signing(r) \/ Sealing(r)
        BY <3>2, InsertReferenced, DropReferenced, SameReferenced
           DEF Signing, InsertConsent, AnswerConsent, Sealing, InsertSealed,
               DeleteE2EEResponse
      <3>3. CASE Erasure(r)
        BY <3>3, DropReferenced, BlankReferenced, SameReferenced
           DEF Erasure, Recheck, EraseResponses, EraseParticipant, Anonymize,
               AnswerErase, TypeOK
      <3>4. CASE Purging(r)
        <4>1. \A rows : DropResponses(rows) => Referenced'
          BY DropReferenced DEF Write
        <4>2. QED
          BY <3>4, <4>1, DropReferenced, SameReferenced
             DEF Purging, PurgeResponses, PurgeSealed, PurgeConsents, AnswerPurge
      <3>5. CASE Editing(r)
        BY <3>5, InsertReferenced, DropReferenced, SameReferenced
           DEF Editing, InsertNextItem, AnswerAddItems, DropScaleRow,
               AnswerDeleteScale, DeleteItemResponses
      <3>6. QED
        BY <2>3, <3>1, <3>2, <3>3, <3>4, <3>5 DEF Continue
    <2>4. QED
      BY <2>1, <2>2, <2>3 DEF Next
  <1>3. QED
    BY <1>1, <1>2, TypeCorrect, PTL DEF Spec
-----------------------------------------------------------------------------
(* Provenance: where a participant's id can be found.                       *)

(* Going on to label brings no new participant into slot r. *)
Stays(r, label, local) ==
    /\ label \in ForParticipant => pc[r] \in ForParticipant /\ local.id = loc[r].id
    /\ label \in {"linkConsent", "insertParticipant"} => Pending(r)
    /\ label \in {"linkConsent", "insertParticipant", "lookup", "store"} =>
          Submitting(r)

(* What Goto leaves in the slots. *)
LEMMA GotoSlots ==
    ASSUME SlotsOK, NEW r \in Slot, NEW label, NEW local, Goto(r, label, local)
    PROVE  /\ pc'[r] = label /\ loc'[r] = local
           /\ \A q \in Slot \ {r} : pc'[q] = pc[q] /\ loc'[q] = loc[q]
  BY DEF SlotsOK, Goto

(* Nothing new is seen of any participant outside the slots. *)
Unseen ==
    /\ Ids(participants)' \subseteq Ids(participants)
    /\ erased' = erased
    /\ known \subseteq known'
    /\ \A p \in Participant : p \in known' => p \in known
    /\ \A p \in Participant : mintedFor'[p] = NULL => mintedFor[p] = NULL

LEMMA QuietProvenance ==
    ASSUME TypeOK, Provenance, NEW r \in Slot, NEW label, NEW local,
           Goto(r, label, local), Stays(r, label, local), Unseen,
           local.before \subseteq known'
    PROVE  Provenance'
  <1>1. /\ pc'[r] = label /\ loc'[r] = local
        /\ \A q \in Slot \ {r} : pc'[q] = pc[q] /\ loc'[q] = loc[q]
    BY GotoSlots DEF TypeOK
  <1>2. \A p \in Participant : Unused(p) => Unused(p)'
    BY DEF Unused, Unseen
  <1>3. \A q \in Slot : \A p : Concerns(q, p)' => Concerns(q, p)
    BY <1>1 DEF Concerns, Stays
  <1>4. \A q \in Slot : Submitting(q)' =>
            Submitting(q) /\ loc'[q].id = loc[q].id /\ loc[q].id \in Participant
    BY <1>1 DEF Stays, Submitting, Pending, ForParticipant, TypeOK, SlotsOK, Ready
  <1>5. \A q \in Slot : Pending(q)' => Pending(q)
    BY <1>1 DEF Stays, Pending
  <1>6. (\A p \in Participant : mintedFor[p] = NULL =>
            Unused(p) /\ \A q \in Slot : ~Concerns(q, p))'
    BY <1>2, <1>3 DEF Provenance, Unseen
  <1>7. (\A q \in Slot : Pending(q) =>
            /\ Unused(loc[q].id)
            /\ \A s \in Slot \ {q} : ~Concerns(s, loc[q].id))'
    <2> SUFFICES ASSUME NEW q \in Slot, Pending(q)'
                 PROVE  /\ Unused(loc[q].id)'
                        /\ \A s \in Slot \ {q} : ~Concerns(s, loc[q].id)'
      OBVIOUS
    <2>1. Pending(q) /\ loc'[q].id = loc[q].id /\ loc[q].id \in Participant
      BY <1>4, <1>5 DEF Submitting
    <2>2. Unused(loc[q].id) /\ \A s \in Slot \ {q} : ~Concerns(s, loc[q].id)
      BY <2>1 DEF Provenance
    <2>3. Unused(loc[q].id)'
      BY <2>1, <2>2 DEF Unused, Unseen
    <2>4. QED
      BY <1>3, <2>1, <2>2, <2>3 DEF Concerns
  <1>8. (\A q \in Slot : Submitting(q) =>
            /\ loc[q].id \notin known
            /\ \A s \in Slot \ {q} : Submitting(s) => loc[s].id # loc[q].id)'
    BY <1>4 DEF Provenance, Unseen
  <1>9. (\A q \in Slot : loc[q].before \subseteq known)'
    BY <1>1 DEF Provenance, Unseen
  <1>10. QED
    BY <1>6, <1>7, <1>8, <1>9 DEF Provenance

(* A request that ends. *)
LEMMA FinishProvenance ==
    ASSUME TypeOK, Provenance, NEW r \in Slot, Finish(r), Unseen
    PROVE  Provenance'
  <1>1. Stays(r, "idle", Blank) /\ Blank.before \subseteq known'
    BY DEF Stays, ForParticipant, Blank
  <1>2. QED
    BY <1>1, QuietProvenance DEF Finish

(* Slots and history as they were. *)
LEMMA SameProvenance ==
    ASSUME Provenance, UNCHANGED <<participants, pc, loc, mintedFor, known, erased>>
    PROVE  Provenance'
  BY DEF Provenance, Unused, Concerns, Pending, Submitting, Ids

(* A participant's id is new when the submission is accepted. *)
LEMMA SubmitProvenance ==
    ASSUME TypeOK, Provenance, NEW r \in Slot, Submit(r)
    PROVE  Provenance'
  <1>1. CASE Finish(r) /\ UNCHANGED mintedFor
    BY <1>1, FinishProvenance DEF Submit, Unseen, tables, Ids
  <1>2. ASSUME NEW p \in Fresh(Participant), NEW label \in {"insertParticipant", "linkConsent"},
               mintedFor' = [mintedFor EXCEPT ![p] = loc[r].scale],
               Goto(r, label, [loc[r] EXCEPT !.id = p])
        PROVE  Provenance'
    <2> DEFINE local == [loc[r] EXCEPT !.id = p]
    <2>1. /\ pc[r] = "form" /\ loc[r] \in Local /\ loc[r].scale # NULL
          /\ p \in Participant /\ mintedFor[p] = NULL /\ p \in Generated
          /\ mintedFor \in [Minted -> Scale \cup {NULL}]
      BY DEF Submit, TypeOK, SlotsOK, Ready, Fresh, Generated, Minted
    <2>2. local.id = p /\ local.before = loc[r].before
      BY <2>1 DEF Local
    <2> HIDE DEF local
    <2>3. /\ pc'[r] = label /\ loc'[r] = local
          /\ \A q \in Slot \ {r} : pc'[q] = pc[q] /\ loc'[q] = loc[q]
      BY <1>2, GotoSlots DEF TypeOK, local
    <2>4. Ids(participants)' = Ids(participants) /\ known' = known /\ erased' = erased
      BY DEF Submit, tables, Ids
    <2>5. \A x : Unused(x)' <=> Unused(x)
      BY <2>4 DEF Unused
    <2>6. Unused(p) /\ \A q \in Slot : ~Concerns(q, p)
      BY <2>1 DEF Provenance
    <2>7. \A q \in Slot \ {r}, x \in Participant : Concerns(q, x)' <=> Concerns(q, x)
      BY <2>3 DEF Concerns
    <2>8. \A x \in Participant : mintedFor'[x] = NULL => mintedFor[x] = NULL /\ x # p
      BY <1>2, <2>1 DEF Generated, Minted
    <2>9. (\A x \in Participant : mintedFor[x] = NULL =>
              Unused(x) /\ \A q \in Slot : ~Concerns(q, x))'
      <3> SUFFICES ASSUME NEW x \in Participant, mintedFor'[x] = NULL
                   PROVE  Unused(x)' /\ \A q \in Slot : ~Concerns(q, x)'
        OBVIOUS
      <3>1. Unused(x) /\ (\A q \in Slot : ~Concerns(q, x)) /\ x # p
        BY <2>8 DEF Provenance
      <3>2. ~Concerns(r, x)'
        BY <2>2, <2>3, <3>1 DEF Concerns
      <3>3. QED
        BY <2>5, <2>7, <3>1, <3>2
    <2>10. \A q \in Slot : Submitting(q) => Concerns(q, loc[q].id)
      BY DEF Submitting, Pending, Concerns, ForParticipant
    <2>11. \A q \in Slot \ {r} : Submitting(q)' =>
              Submitting(q) /\ loc'[q].id = loc[q].id /\ loc[q].id # p
      BY <2>3, <2>6, <2>10 DEF Submitting, Pending
    <2>12. (\A q \in Slot : Pending(q) =>
              /\ Unused(loc[q].id)
              /\ \A s \in Slot \ {q} : ~Concerns(s, loc[q].id))'
      <3> SUFFICES ASSUME NEW q \in Slot, Pending(q)'
                   PROVE  /\ Unused(loc[q].id)'
                          /\ \A s \in Slot \ {q} : ~Concerns(s, loc[q].id)'
        OBVIOUS
      <3>1. CASE q = r
        BY <2>2, <2>3, <2>5, <2>6, <3>1 DEF Concerns
      <3>2. CASE q # r
        <4>1. Pending(q) /\ loc'[q].id = loc[q].id /\ loc[q].id # p
          BY <2>3, <2>11, <3>2 DEF Submitting, Pending
        <4>2. Unused(loc[q].id) /\ \A s \in Slot \ {q} : ~Concerns(s, loc[q].id)
          BY <4>1 DEF Provenance
        <4>3. ~Concerns(r, loc[q].id)'
          BY <2>2, <2>3, <4>1 DEF Concerns
        <4>4. QED
          BY <2>3, <2>5, <4>1, <4>2, <4>3 DEF Concerns
      <3>3. QED BY <3>1, <3>2
    <2>13. (\A q \in Slot : Submitting(q) =>
              /\ loc[q].id \notin known
              /\ \A s \in Slot \ {q} : Submitting(s) => loc[s].id # loc[q].id)'
      BY <2>2, <2>3, <2>4, <2>6, <2>11 DEF Provenance, Unused
    <2>14. (\A q \in Slot : loc[q].before \subseteq known)'
      BY <2>2, <2>3, <2>4 DEF Provenance
    <2>15. QED
      BY <2>9, <2>12, <2>13, <2>14 DEF Provenance
  <1>3. QED
    BY <1>1, <1>2 DEF Submit
(* A request shows the participant it concerns: in the table, to the client *)
(* or as deleted.                                                           *)
LEMMA ShowProvenance ==
    ASSUME TypeOK, Provenance, NEW r \in Slot, NEW label, NEW local,
           Goto(r, label, local), Stays(r, label, local),
           label \notin {"linkConsent", "insertParticipant"},
           Concerns(r, loc[r].id),
           \A x \in Participant : x # loc[r].id /\ Unused(x) => Unused(x)',
           \A x \in Participant : x \in known' =>
              x \in known \/ (x = loc[r].id /\ Submitting(r) /\ label = "idle"),
           known \subseteq known', local.before \subseteq known', mintedFor' = mintedFor
    PROVE  Provenance'
  <1>1. /\ pc'[r] = label /\ loc'[r] = local
        /\ \A q \in Slot \ {r} : pc'[q] = pc[q] /\ loc'[q] = loc[q]
    BY GotoSlots DEF TypeOK
  <1>2. \A q \in Slot : \A x : Concerns(q, x)' => Concerns(q, x)
    BY <1>1 DEF Concerns, Stays
  <1>3. \A q \in Slot : Submitting(q)' =>
            Submitting(q) /\ loc'[q].id = loc[q].id /\ loc[q].id \in Participant
    BY <1>1 DEF Stays, Submitting, Pending, ForParticipant, TypeOK, SlotsOK, Ready
  <1>4. \A q \in Slot : Pending(q)' => Pending(q) /\ q # r
    BY <1>1 DEF Pending
  <1>5. (\A x \in Participant : mintedFor[x] = NULL =>
            Unused(x) /\ \A q \in Slot : ~Concerns(q, x))'
    <2> SUFFICES ASSUME NEW x \in Participant, mintedFor'[x] = NULL
                 PROVE  Unused(x)' /\ \A q \in Slot : ~Concerns(q, x)'
      OBVIOUS
    <2>1. Unused(x) /\ \A q \in Slot : ~Concerns(q, x)
      BY DEF Provenance
    <2>2. x # loc[r].id
      BY <2>1
    <2>3. QED
      BY <1>2, <2>1, <2>2
  <1>6. (\A q \in Slot : Pending(q) =>
            /\ Unused(loc[q].id)
            /\ \A s \in Slot \ {q} : ~Concerns(s, loc[q].id))'
    <2> SUFFICES ASSUME NEW q \in Slot, Pending(q)'
                 PROVE  /\ Unused(loc[q].id)'
                        /\ \A s \in Slot \ {q} : ~Concerns(s, loc[q].id)'
      OBVIOUS
    <2>1. /\ Pending(q) /\ q # r /\ loc'[q].id = loc[q].id
          /\ loc[q].id \in Participant
      BY <1>3, <1>4 DEF Submitting
    <2>2. Unused(loc[q].id) /\ \A s \in Slot \ {q} : ~Concerns(s, loc[q].id)
      BY <2>1 DEF Provenance
    <2>3. loc[q].id # loc[r].id
      BY <2>1, <2>2
    <2>4. Unused(loc[q].id)'
      BY <2>1, <2>2, <2>3 DEF Unused
    <2>5. QED
      BY <1>2, <2>1, <2>2, <2>4 DEF Concerns
  <1>7. (\A q \in Slot : Submitting(q) =>
            /\ loc[q].id \notin known
            /\ \A s \in Slot \ {q} : Submitting(s) => loc[s].id # loc[q].id)'
    <2> SUFFICES ASSUME NEW q \in Slot, Submitting(q)'
                 PROVE  /\ loc'[q].id \notin known'
                        /\ \A s \in Slot \ {q} : Submitting(s)' =>
                              loc'[s].id # loc'[q].id
      OBVIOUS
    <2>1. /\ Submitting(q) /\ loc'[q].id = loc[q].id /\ loc[q].id \in Participant
          /\ q = r => label # "idle"
      BY <1>1, <1>3 DEF Submitting, Pending
    <2>2. loc[q].id \notin known /\
          \A s \in Slot \ {q} : Submitting(s) => loc[s].id # loc[q].id
      BY <2>1 DEF Provenance
    <2>3. QED
      BY <1>3, <2>1, <2>2
  <1>8. (\A q \in Slot : loc[q].before \subseteq known)'
    BY <1>1 DEF Provenance
  <1>9. QED
    BY <1>5, <1>6, <1>7, <1>8 DEF Provenance

(* A delete picks a participant of the table. *)
LEMMA PickProvenance ==
    ASSUME TypeOK, Provenance, NEW r \in Slot, SelfDelete(r) \/ AdminDelete(r)
    PROVE  Provenance'
  <1>1. PICK p \in Ids(participants), hard \in BOOLEAN :
          Goto(r, "recheck", [Blank EXCEPT !.id = p, !.hard = hard, !.before = known])
    BY DEF SelfDelete, AdminDelete, Ids
  <1> DEFINE local == [Blank EXCEPT !.id = p, !.hard = hard, !.before = known]
  <1>2. local.id = p /\ local.before = known
    BY DEF Blank
  <1> HIDE DEF local
  <1>3. /\ pc'[r] = "recheck" /\ loc'[r] = local
        /\ \A q \in Slot \ {r} : pc'[q] = pc[q] /\ loc'[q] = loc[q]
    BY <1>1, GotoSlots DEF TypeOK, local
  <1>4. /\ Ids(participants)' = Ids(participants) /\ known' = known
        /\ erased' = erased /\ mintedFor' = mintedFor
    BY DEF SelfDelete, AdminDelete, tables, Ids
  <1>5. \A x : (Unused(x)' <=> Unused(x)) /\ (Unused(x) => x # p)
    BY <1>4 DEF Unused
  <1>6. \A q \in Slot, x \in Participant :
            x # p /\ Concerns(q, x)' => Concerns(q, x)
    BY <1>2, <1>3 DEF Concerns
  <1>7. \A q \in Slot : Submitting(q)' =>
            Submitting(q) /\ loc'[q].id = loc[q].id /\ loc[q].id \in Participant
    BY <1>3 DEF Submitting, Pending, ForParticipant, TypeOK, SlotsOK, Ready
  <1>8. (\A x \in Participant : mintedFor[x] = NULL =>
            Unused(x) /\ \A q \in Slot : ~Concerns(q, x))'
    BY <1>4, <1>5, <1>6 DEF Provenance
  <1>9. (\A q \in Slot : Pending(q) =>
            /\ Unused(loc[q].id)
            /\ \A s \in Slot \ {q} : ~Concerns(s, loc[q].id))'
    <2> SUFFICES ASSUME NEW q \in Slot, Pending(q)'
                 PROVE  /\ Unused(loc[q].id)'
                        /\ \A s \in Slot \ {q} : ~Concerns(s, loc[q].id)'
      OBVIOUS
    <2>1. Pending(q) /\ loc'[q].id = loc[q].id /\ loc[q].id \in Participant
      BY <1>3, <1>7 DEF Pending, Submitting
    <2>2. Unused(loc[q].id) /\ \A s \in Slot \ {q} : ~Concerns(s, loc[q].id)
      BY <2>1 DEF Provenance
    <2>3. Unused(loc[q].id)' /\ loc[q].id # p
      BY <1>5, <2>1, <2>2 DEF Unused
    <2>4. QED
      BY <1>6, <2>1, <2>2, <2>3 DEF Concerns
  <1>10. (\A q \in Slot : Submitting(q) =>
            /\ loc[q].id \notin known
            /\ \A s \in Slot \ {q} : Submitting(s) => loc[s].id # loc[q].id)'
    BY <1>4, <1>7 DEF Provenance
  <1>11. (\A q \in Slot : loc[q].before \subseteq known)'
    BY <1>2, <1>3, <1>4 DEF Provenance
  <1>12. QED
    BY <1>8, <1>9, <1>10, <1>11 DEF Provenance

LEMMA SubmissionProvenance ==
    ASSUME TypeOK, Provenance, NEW r \in Slot, Submission(r)
    PROVE  Provenance'
  <1>1. /\ loc[r] \in Local /\ Ready(pc[r], loc[r])
        /\ loc[r].before \subseteq known
    BY DEF TypeOK, SlotsOK, Provenance
  <1>2. CASE AddParticipant(r)
    <2>1. /\ pc[r] = "insertParticipant" /\ Goto(r, "lookup", loc[r])
          /\ known' = known /\ erased' = erased /\ mintedFor' = mintedFor
      BY <1>2 DEF AddParticipant
    <2>2. Ids(participants)' \subseteq Ids(participants) \cup {loc[r].id}
      BY <1>2 DEF AddParticipant, Write, InsertParticipant, tables, Ids
    <2>3. Stays(r, "lookup", loc[r]) /\ Concerns(r, loc[r].id)
      BY <2>1 DEF Stays, Concerns, ForParticipant, Submitting, Pending
    <2>4. \A x : x # loc[r].id /\ Unused(x) => Unused(x)'
      BY <2>1, <2>2 DEF Unused
    <2>5. QED
      BY <1>1, <2>1, <2>3, <2>4, ShowProvenance
  <1>3. CASE AnswerSubmit(r)
    <2>1. /\ pc[r] = "store" /\ Goto(r, "idle", Blank)
          /\ known' = known \cup {loc[r].id}
          /\ Ids(participants)' = Ids(participants)
          /\ erased' = erased /\ mintedFor' = mintedFor
      BY <1>3 DEF AnswerSubmit, Finish, tables, Ids
    <2>2. Stays(r, "idle", Blank) /\ Concerns(r, loc[r].id) /\ Submitting(r)
      BY <2>1 DEF Stays, Concerns, ForParticipant, Submitting
    <2>3. Blank.before = {}
      BY DEF Blank
    <2>4. \A x : x # loc[r].id /\ Unused(x) => Unused(x)'
      BY <2>1 DEF Unused
    <2>5. QED
      BY <2>1, <2>2, <2>3, <2>4, ShowProvenance
  <1>4. CASE LinkConsent(r) \/ LookupItem(r) \/ ResolveScale(r) \/ InsertResponse(r)
    <2>1. Unseen
      BY <1>4 DEF LinkConsent, LookupItem, ResolveScale, InsertResponse, Unseen,
                  Write, UpsertResponse, tables, Ids
    <2>2. PICK label, local : Goto(r, label, local) /\ Stays(r, label, local)
                              /\ local.before = loc[r].before
      <3>1. CASE LinkConsent(r)
        <4>1. [loc[r] EXCEPT !.consent = NULL].id = loc[r].id
              /\ [loc[r] EXCEPT !.consent = NULL].before = loc[r].before
          BY <1>1 DEF Local
        <4>2. QED
          BY <3>1, <4>1 DEF LinkConsent, Stays, Pending, Submitting, ForParticipant
      <3>2. CASE LookupItem(r)
        <4> DEFINE rest == [loc[r] EXCEPT !.todo = Tail(loc[r].todo)]
                   more == [rest EXCEPT !.built = Append(loc[r].built, Head(loc[r].todo))]
        <4>1. /\ rest.id = loc[r].id /\ rest.before = loc[r].before
              /\ more.id = loc[r].id /\ more.before = loc[r].before
          BY <1>1 DEF Local
        <4>2. \/ Goto(r, "store", loc[r])
              \/ Goto(r, "lookup", more) \/ Goto(r, "lookup", rest)
          BY <3>2 DEF LookupItem
        <4> HIDE DEF rest, more
        <4>3. \A local : local.id = loc[r].id =>
                 Stays(r, "store", local) /\ Stays(r, "lookup", local)
          BY <3>2 DEF LookupItem, Stays, Pending, Submitting, ForParticipant
        <4>4. QED
          BY <4>1, <4>2, <4>3
      <3>3. CASE ResolveScale(r) \/ InsertResponse(r)
        <4>1. pc[r] = "store" /\ \E local :
                /\ local \in {[loc[r] EXCEPT !.built = Tail(loc[r].built)],
                              [loc[r] EXCEPT !.rows = loc[r].rows \cup
                                  {row \in items : row.id = Head(loc[r].built)}]}
                /\ Goto(r, "store", local)
          BY <3>3 DEF ResolveScale, InsertResponse, Storing
        <4>2. PICK local : local.id = loc[r].id /\ local.before = loc[r].before
                           /\ Goto(r, "store", local)
          BY <1>1, <4>1 DEF Local
        <4>3. QED
          BY <4>1, <4>2 DEF Stays, Pending, Submitting, ForParticipant
      <3>4. QED BY <1>4, <3>1, <3>2, <3>3
    <2>3. QED
      BY <1>1, <2>1, <2>2, QuietProvenance DEF Unseen
  <1>5. QED
    BY <1>2, <1>3, <1>4 DEF Submission
LEMMA ErasureProvenance ==
    ASSUME TypeOK, Provenance, NEW r \in Slot, Erasure(r)
    PROVE  Provenance'
  <1>1. loc[r] \in Local /\ Ready(pc[r], loc[r]) /\ loc[r].before \subseteq known
    BY DEF TypeOK, SlotsOK, Provenance
  <1>2. CASE AnswerErase(r)
    <2>1. /\ pc[r] = "auditErase" /\ Goto(r, "idle", Blank)
          /\ \A e \in erased' : e \in erased \/ e.id = loc[r].id
          /\ Ids(participants)' = Ids(participants)
          /\ known' = known /\ mintedFor' = mintedFor
      BY <1>2 DEF AnswerErase, Finish, tables, Ids
    <2>2. Stays(r, "idle", Blank) /\ Concerns(r, loc[r].id)
      BY <2>1 DEF Stays, Concerns, ForParticipant
    <2>3. Blank.before = {}
      BY DEF Blank
    <2>4. \A x : x # loc[r].id /\ Unused(x) => Unused(x)'
      BY <2>1 DEF Unused
    <2>5. QED
      BY <2>1, <2>2, <2>3, <2>4, ShowProvenance
  <1>3. CASE Recheck(r) \/ EraseResponses(r) \/ EraseParticipant(r) \/ Anonymize(r)
    <2>1. Unseen
      <3>1. CASE Anonymize(r)
        <4>1. Ids(participants)' = Ids(participants)
          BY <3>1, BlankIds DEF Anonymize, TypeOK, tables, Ids
        <4>2. QED
          BY <3>1, <4>1 DEF Anonymize, Unseen
      <3>2. CASE EraseParticipant(r)
        BY <3>2 DEF EraseParticipant, Write, DropParticipant, tables, Unseen, Ids
      <3>3. CASE Recheck(r) \/ EraseResponses(r)
        BY <3>3 DEF Recheck, EraseResponses, Write, DropResponses, tables, Unseen, Ids
      <3>4. QED BY <1>3, <3>1, <3>2, <3>3
    <2>2. \A label \in {"eraseResponses", "eraseParticipant", "blankEmail", "auditErase"} :
              Stays(r, label, loc[r])
      BY <1>3 DEF Recheck, EraseResponses, EraseParticipant, Anonymize, Stays,
                  ForParticipant
    <2>3. Finish(r) \/ \E label \in {"eraseResponses", "eraseParticipant",
                                     "blankEmail", "auditErase"} :
                          Goto(r, label, loc[r])
      BY <1>3 DEF Recheck, EraseResponses, EraseParticipant, Anonymize
    <2>4. QED
      BY <1>1, <2>1, <2>2, <2>3, QuietProvenance, FinishProvenance DEF Unseen
  <1>4. QED
    BY <1>2, <1>3 DEF Erasure

(* The requests that have nothing to do with participants. *)
LEMMA OtherProvenance ==
    ASSUME TypeOK, Provenance, NEW r \in Slot,
           Signing(r) \/ Sealing(r) \/ Purging(r) \/ Editing(r)
    PROVE  Provenance'
  <1>1. loc[r] \in Local /\ Ready(pc[r], loc[r]) /\ loc[r].before \subseteq known
    BY DEF TypeOK, SlotsOK, Provenance
  <1>2. Unseen
    <2>1. CASE Signing(r) \/ Sealing(r)
      <3>1. Ids(participants)' = Ids(participants) /\ erased' = erased
            /\ mintedFor' = mintedFor
        BY <2>1 DEF Signing, InsertConsent, AnswerConsent, Sealing, InsertSealed,
                    DeleteE2EEResponse, Write, UpsertConsent, UpsertSealed,
                    DropSealed, tables, Ids
      <3>2. \/ known' = known
            \/ known' = known \cup {loc[r].id} /\ loc[r].id \in Consent \cup Sealed
        BY <1>1, <2>1
           DEF Signing, InsertConsent, AnswerConsent, Sealing, InsertSealed,
               DeleteE2EEResponse, Ready
      <3>3. QED
        BY <3>1, <3>2, StoreAssumption DEF Unseen
    <2>2. CASE Purging(r)
      BY <2>2 DEF Purging, PurgeResponses, PurgeSealed, PurgeConsents, AnswerPurge,
                  Write, DropResponses, DropSealed, DropConsentsOf, tables, Ids, Unseen
    <2>3. CASE Editing(r)
      BY <2>3 DEF Editing, InsertNextItem, AnswerAddItems, DropScaleRow,
                  AnswerDeleteScale, DeleteItemResponses, Write, InsertItem,
                  DropScale, DropResponses, tables, Ids, Unseen
    <2>4. QED BY <2>1, <2>2, <2>3
  <1>3. CASE Finish(r)
    BY <1>2, <1>3, FinishProvenance
  <1>4. CASE InsertNextItem(r) /\ ~Finish(r)
    <2>1. PICK row : Goto(r, "insertItem", [loc[r] EXCEPT !.rows = loc[r].rows \ {row}])
      BY <1>4 DEF InsertNextItem
    <2>2. [loc[r] EXCEPT !.rows = loc[r].rows \ {row}].before = loc[r].before
      BY <1>1 DEF Local
    <2>3. \A local : Stays(r, "insertItem", local)
      BY DEF Stays, ForParticipant
    <2>4. QED
      BY <1>1, <1>2, <2>1, <2>2, <2>3, QuietProvenance DEF Unseen
  <1>5. CASE ~Finish(r) /\ ~InsertNextItem(r)
    <2>1. \E label \in {"answerConsent", "purgeSealed", "purgeConsents",
                        "auditPurge", "auditDrop"} : Goto(r, label, loc[r])
      BY <1>5 DEF Signing, InsertConsent, AnswerConsent, Sealing, InsertSealed,
                  DeleteE2EEResponse, Purging, PurgeResponses, PurgeSealed,
                  PurgeConsents, AnswerPurge, Editing, AnswerAddItems,
                  DropScaleRow, AnswerDeleteScale, DeleteItemResponses
    <2>2. \A label \in {"answerConsent", "purgeSealed", "purgeConsents",
                        "auditPurge", "auditDrop"} : Stays(r, label, loc[r])
      BY DEF Stays, ForParticipant
    <2>3. QED
      BY <1>1, <1>2, <2>1, <2>2, QuietProvenance DEF Unseen
  <1>6. QED
    BY <1>3, <1>4, <1>5

LEMMA ArriveProvenance ==
    ASSUME TypeOK, Provenance, NEW r \in Slot, Arrive(r)
    PROVE  Provenance'
  <1>1. CASE Submit(r)
    BY <1>1, SubmitProvenance
  <1>2. CASE SelfDelete(r) \/ AdminDelete(r)
    BY <1>2, PickProvenance
  <1>3. CASE CreateScale(r)
    BY <1>3, SameProvenance DEF CreateScale, Write, InsertScale, tables
  <1>4. CASE DeleteItem(r) /\ UNCHANGED <<tables, pc, loc>>
    BY <1>4, SameProvenance DEF DeleteItem, tables
  <1>5. ASSUME OpenForm(r) \/ SignConsent(r) \/ Intake(r) \/ SelfDeleteSealed(r)
               \/ Purge(r) \/ AddItems(r) \/ DeleteScale(r) \/ DeleteItem(r),
               ~(DeleteItem(r) /\ UNCHANGED <<tables, pc, loc>>)
        PROVE  Provenance'
    <2> DEFINE Quiet == {"form", "insertConsent", "insertSealed", "dropSealed",
                         "purgeResponses", "insertItem", "dropScale",
                         "dropItemResponses"}
    <2>1. Unseen
      <3>1. Ids(participants)' = Ids(participants) /\ known' = known /\ erased' = erased
        BY <1>5 DEF OpenForm, SignConsent, Intake, SelfDeleteSealed, Purge, AddItems,
                    DeleteScale, DeleteItem, DropItem, tables, Ids
      <3>2. \A p \in Participant : mintedFor'[p] = NULL => mintedFor[p] = NULL
        <4>1. ASSUME NEW c \in Consent, NEW s,
                     mintedFor' = [mintedFor EXCEPT ![c] = s]
              PROVE  \A p \in Participant : mintedFor'[p] = mintedFor[p]
          BY <4>1, StoreAssumption DEF TypeOK, Generated, Minted
        <4>2. CASE SignConsent(r)
          BY <4>1, <4>2 DEF SignConsent, Fresh
        <4>3. CASE UNCHANGED mintedFor
          BY <4>3
        <4>4. QED
          BY <1>5, <4>2, <4>3 DEF OpenForm, Intake, SelfDeleteSealed, Purge, AddItems,
                                  DeleteScale, DeleteItem
      <3>3. QED
        BY <3>1, <3>2 DEF Unseen
    <2>2. PICK label \in Quiet :
             \E local : Goto(r, label, local) /\ local.before \subseteq known
      <3>1. \A s, a, e, c :
              [Blank EXCEPT !.scale = s, !.todo = a, !.email = e,
                            !.consent = c].before = {}
        BY DEF Blank
      <3>2. \A s, x : /\ [Blank EXCEPT !.scale = s, !.id = x].before = {}
                      /\ [Blank EXCEPT !.scale = s, !.rows = x].before = {}
                      /\ [Blank EXCEPT !.scale = s, !.before = known].before = known
                      /\ [Blank EXCEPT !.id = x].before = {}
                      /\ [Blank EXCEPT !.item = x].before = {}
        BY DEF Blank
      <3>3. CASE OpenForm(r)
        BY <3>1, <3>3 DEF OpenForm
      <3>4. CASE SignConsent(r) \/ Intake(r)
        BY <3>2, <3>4 DEF SignConsent, Intake
      <3>5. CASE SelfDeleteSealed(r)
        BY <3>2, <3>5 DEF SelfDeleteSealed
      <3>6. CASE Purge(r) \/ DeleteScale(r)
        BY <3>2, <3>6 DEF Purge, DeleteScale
      <3>7. CASE AddItems(r)
        BY <3>2, <3>7 DEF AddItems
      <3>8. CASE DeleteItem(r)
        BY <1>5, <3>2, <3>8 DEF DeleteItem
      <3>9. QED
        BY <1>5, <3>3, <3>4, <3>5, <3>6, <3>7, <3>8
    <2>3. PICK local : Goto(r, label, local) /\ local.before \subseteq known
      BY <2>2
    <2>4. Stays(r, label, local)
      BY DEF Stays, ForParticipant
    <2>5. QED
      BY <2>1, <2>3, <2>4, QuietProvenance DEF Unseen
  <1>6. QED
    BY <1>1, <1>2, <1>3, <1>4, <1>5 DEF Arrive

(* An id is used for one submission, which is in one slot until its answer  *)
(* makes the id known; nobody learns of it or deletes it earlier, except an *)
(* administrator after its row is in the table.                             *)
THEOREM ProvenanceHolds == Spec => []Provenance
  <1>1. Init => Provenance
    BY DEF Init, Provenance, Unused, Concerns, Pending, Submitting, Ids, Blank,
           ForParticipant
  <1>2. TypeOK /\ Provenance /\ [Next]_vars => Provenance'
    <2> SUFFICES ASSUME TypeOK, Provenance, [Next]_vars
                 PROVE  Provenance'
      OBVIOUS
    <2>1. CASE UNCHANGED vars
      BY <2>1, SameProvenance DEF vars, tables
    <2>2. CASE Next
      BY <2>2, ArriveProvenance, SubmissionProvenance, ErasureProvenance,
         OtherProvenance DEF Next, Continue
    <2>3. QED
      BY <2>1, <2>2
  <1>3. QED
    BY <1>1, <1>2, TypeCorrect, PTL DEF Spec

-----------------------------------------------------------------------------
(* What an answer settles: submissions are not added to, hard deletes are   *)
(* final, purges complete, and consents belong to the form.                 *)

-----------------------------------------------------------------------------
(* Where rows, deletes and labels come from.                                *)

(* A response is only ever inserted by the submission it belongs to. *)
LEMMA NewResponse ==
    ASSUME [Next]_vars, NEW row \in responses', row \notin responses
    PROVE  \E r \in Slot : pc[r] = "store" /\ row.pid = loc[r].id
  <1>1. PICK r \in Slot : Arrive(r) \/ Continue(r)
    BY DEF Next, vars, tables
  <1>2. CASE Arrive(r)
    BY <1>2 DEF Arrive, OpenForm, Submit, SignConsent, Intake, SelfDeleteSealed,
                SelfDelete, AdminDelete, Purge, CreateScale, InsertScale, AddItems,
                DeleteScale, DeleteItem, DropItem, Write, tables
  <1>3. CASE Submission(r)
    <2>1. CASE InsertResponse(r)
      BY <2>1 DEF InsertResponse, Storing, Write, UpsertResponse, tables
    <2>2. CASE ~InsertResponse(r)
      BY <1>3, <2>2 DEF Submission, LinkConsent, AddParticipant, InsertParticipant,
                        LookupItem, ResolveScale, AnswerSubmit, Write, tables
    <2>3. QED BY <2>1, <2>2
  <1>4. CASE Signing(r) \/ Sealing(r)
    BY <1>4 DEF Signing, InsertConsent, AnswerConsent, Sealing, InsertSealed,
                DeleteE2EEResponse, Write, UpsertConsent, UpsertSealed, DropSealed,
                tables
  <1>5. CASE Erasure(r)
    BY <1>5 DEF Erasure, Recheck, EraseResponses, EraseParticipant, Anonymize,
                AnswerErase, Write, DropResponses, DropParticipant, BlankEmail, tables
  <1>6. CASE Purging(r) \/ Editing(r)
    BY <1>6 DEF Purging, PurgeResponses, PurgeSealed, PurgeConsents, AnswerPurge,
                Editing, InsertNextItem, AnswerAddItems, DropScaleRow,
                AnswerDeleteScale, DeleteItemResponses, Write, InsertItem, DropScale,
                DropResponses, DropSealed, DropConsentsOf, tables
  <1>7. QED
    BY <1>1, <1>2, <1>3, <1>4, <1>5, <1>6 DEF Continue

(* A participant's row is only ever inserted by its own submission. *)
LEMMA NewParticipant ==
    ASSUME TypeOK, [Next]_vars, NEW p \in Ids(participants)', p \notin Ids(participants)
    PROVE  \E r \in Slot : pc[r] = "insertParticipant" /\ p = loc[r].id
  <1>1. PICK r \in Slot : Arrive(r) \/ Continue(r)
    BY DEF Next, vars, tables, Ids
  <1>2. CASE Arrive(r)
    BY <1>2 DEF Arrive, OpenForm, Submit, SignConsent, Intake, SelfDeleteSealed,
                SelfDelete, AdminDelete, Purge, CreateScale, InsertScale, AddItems,
                DeleteScale, DeleteItem, DropItem, Write, tables, Ids
  <1>3. CASE AddParticipant(r)
    BY <1>3 DEF AddParticipant, InsertParticipant, Write, tables, Ids
  <1>4. CASE Submission(r) /\ ~AddParticipant(r)
    BY <1>4 DEF Submission, LinkConsent, LookupItem, ResolveScale, InsertResponse,
                AnswerSubmit, UpsertResponse, Write, tables, Ids
  <1>5. CASE Signing(r) \/ Sealing(r)
    BY <1>5 DEF Signing, InsertConsent, AnswerConsent, Sealing, InsertSealed,
                DeleteE2EEResponse, Write, UpsertConsent, UpsertSealed, DropSealed,
                tables, Ids
  <1>6. CASE Anonymize(r)
    BY <1>6, BlankIds DEF Anonymize, TypeOK, tables, Ids
  <1>7. CASE Erasure(r) /\ ~Anonymize(r)
    BY <1>7 DEF Erasure, Recheck, EraseResponses, EraseParticipant,
                AnswerErase, Write, DropResponses, DropParticipant, tables, Ids
  <1>8. CASE Purging(r) \/ Editing(r)
    BY <1>8 DEF Purging, PurgeResponses, PurgeSealed, PurgeConsents, AnswerPurge,
                Editing, InsertNextItem, AnswerAddItems, DropScaleRow,
                AnswerDeleteScale, DeleteItemResponses, Write, InsertItem, DropScale,
                DropResponses, DropSealed, DropConsentsOf, tables, Ids
  <1>9. QED
    BY <1>1, <1>2, <1>3, <1>4, <1>5, <1>6, <1>7, <1>8 DEF Continue

(* A delete is recorded by AnswerErase only, and ids stay known. *)
LEMMA NewErased ==
    ASSUME [Next]_vars
    PROVE  /\ known \subseteq known'
           /\ erased' # erased => \E r \in Slot : AnswerErase(r)
  <1>1. CASE UNCHANGED vars
    BY <1>1 DEF vars
  <1>2. ASSUME NEW r \in Slot, Arrive(r)
        PROVE  known' = known /\ erased' = erased
    BY <1>2 DEF Arrive, OpenForm, Submit, SignConsent, Intake, SelfDeleteSealed,
                SelfDelete, AdminDelete, Purge, CreateScale, AddItems, DeleteScale,
                DeleteItem
  <1>3. ASSUME NEW r \in Slot, Continue(r), ~AnswerErase(r)
        PROVE  known \subseteq known' /\ erased' = erased
    BY <1>3 DEF Continue, Submission, LinkConsent, AddParticipant, LookupItem,
                ResolveScale, InsertResponse, AnswerSubmit, Signing, InsertConsent,
                AnswerConsent, Sealing, InsertSealed, DeleteE2EEResponse, Erasure,
                Recheck, EraseResponses, EraseParticipant, Anonymize, Purging,
                PurgeResponses, PurgeSealed, PurgeConsents, AnswerPurge, Editing,
                InsertNextItem, AnswerAddItems, DropScaleRow, AnswerDeleteScale,
                DeleteItemResponses
  <1>4. \A r \in Slot : AnswerErase(r) => known' = known
    BY DEF AnswerErase
  <1>5. QED
    BY <1>1, <1>2, <1>3, <1>4 DEF Next

(* A hard delete reaches its second statement from the first and its answer *)
(* from the second.                                                         *)
LEMMA Reached ==
    ASSUME TypeOK, [Next]_vars, NEW q \in Slot,
           pc'[q] \in {"eraseParticipant", "auditErase"}
    PROVE  /\ loc'[q] = loc[q]
           /\ \/ pc'[q] = pc[q]
              \/ EraseResponses(q) /\ pc'[q] = "eraseParticipant"
              \/ (EraseParticipant(q) \/ Anonymize(q)) /\ pc'[q] = "auditErase"
  <1>1. CASE UNCHANGED <<pc, loc>>
    BY <1>1
  <1> DEFINE Others == {"idle", "form", "linkConsent", "insertParticipant",
                        "lookup", "store", "insertConsent", "answerConsent",
                        "insertSealed", "recheck", "dropSealed", "purgeResponses",
                        "purgeSealed", "purgeConsents", "auditPurge", "dropScale",
                        "auditDrop", "dropItemResponses", "insertItem"}
  <1>2. ASSUME NEW r \in Slot, \E label \in Others : \E local : Goto(r, label, local)
        PROVE  pc'[q] = pc[q] /\ loc'[q] = loc[q]
    BY <1>2, GotoSlots DEF TypeOK
  <1>3. \A r \in Slot : Finish(r) => \E label \in Others : \E local : Goto(r, label, local)
    BY DEF Finish
  <1>4. ASSUME NEW r \in Slot, Arrive(r)
        PROVE  pc'[q] = pc[q] /\ loc'[q] = loc[q]
    <2>1. CASE CreateScale(r) \/ (DeleteItem(r) /\ UNCHANGED <<tables, pc, loc>>)
      BY <1>1, <2>1 DEF CreateScale
    <2>2. CASE DeleteItem(r) /\ ~UNCHANGED <<tables, pc, loc>>
      <3>1. \E local : Goto(r, "dropItemResponses", local)
        BY <2>2 DEF DeleteItem
      <3>2. QED BY <1>2, <3>1
    <2>3. CASE Submit(r)
      <3>1. \E label \in Others : \E local : Goto(r, label, local)
        BY <1>3, <2>3 DEF Submit
      <3>2. QED BY <1>2, <3>1
    <2>4. CASE OpenForm(r)
      <3>1. \E local : Goto(r, "form", local)
        BY <2>4 DEF OpenForm
      <3>2. QED BY <1>2, <3>1
    <2>5. CASE SignConsent(r) \/ Intake(r) \/ SelfDeleteSealed(r) \/ SelfDelete(r)
               \/ AdminDelete(r) \/ Purge(r) \/ AddItems(r) \/ DeleteScale(r)
      <3>1. \E label \in Others : \E local : Goto(r, label, local)
        BY <2>5 DEF SignConsent, Intake, SelfDeleteSealed, SelfDelete, AdminDelete,
                    Purge, AddItems, DeleteScale
      <3>2. QED BY <1>2, <3>1
    <2>6. QED BY <1>4, <2>1, <2>2, <2>3, <2>4, <2>5 DEF Arrive
  <1>5. ASSUME NEW r \in Slot, Continue(r), ~Erasure(r)
        PROVE  pc'[q] = pc[q] /\ loc'[q] = loc[q]
    <2>1. CASE Submission(r)
      <3>1. \E label \in Others : \E local : Goto(r, label, local)
        BY <1>3, <2>1 DEF Submission, LinkConsent, AddParticipant, LookupItem,
           ResolveScale, InsertResponse, AnswerSubmit
      <3>2. QED BY <1>2, <3>1
    <2>2. CASE Signing(r) \/ Sealing(r)
      <3>1. \E label \in Others : \E local : Goto(r, label, local)
        BY <1>3, <2>2 DEF Signing, InsertConsent, AnswerConsent, Sealing,
           InsertSealed, DeleteE2EEResponse
      <3>2. QED BY <1>2, <3>1
    <2>3. CASE Purging(r) \/ Editing(r)
      <3>1. \E label \in Others : \E local : Goto(r, label, local)
        BY <1>3, <2>3 DEF Purging, PurgeResponses, PurgeSealed, PurgeConsents,
           AnswerPurge, Editing, InsertNextItem, AnswerAddItems, DropScaleRow,
           AnswerDeleteScale, DeleteItemResponses
      <3>2. QED BY <1>2, <3>1
    <2>4. QED BY <1>5, <2>1, <2>2, <2>3 DEF Continue
  <1>6. ASSUME NEW r \in Slot, Erasure(r), r # q
        PROVE  pc'[q] = pc[q] /\ loc'[q] = loc[q]
    <2>1. PICK label, local : Goto(r, label, local)
      BY <1>6 DEF Erasure, Recheck, EraseResponses, EraseParticipant, Anonymize,
                  AnswerErase, Finish
    <2>2. QED
      BY <1>6, <2>1, GotoSlots DEF TypeOK
  <1>7. CASE Erasure(q)
    <2>1. ~Finish(q)
      BY GotoSlots DEF Finish, TypeOK
    <2>2. ~Recheck(q)
      BY <2>1, GotoSlots DEF Recheck, TypeOK
    <2>3. EraseResponses(q) \/ EraseParticipant(q) \/ Anonymize(q)
      BY <1>7, <2>1, <2>2 DEF Erasure, AnswerErase
    <2>4. QED
      BY <2>1, <2>3, GotoSlots DEF EraseResponses, EraseParticipant, Anonymize, TypeOK
  <1>8. QED
    BY <1>1, <1>4, <1>5, <1>6, <1>7 DEF Next, Continue, vars
-----------------------------------------------------------------------------
(* Nothing is added to an answered submission.                              *)

LEMMA SettledStep ==
    ASSUME TypeOK, Provenance, [Next]_vars, NEW p \in known \cap Participant
    PROVE  /\ {row \in responses' : row.pid = p} \subseteq responses
           /\ p \notin Ids(participants) => p \notin Ids(participants)'
  <1>1. \A r \in Slot : Submitting(r) => loc[r].id # p
    BY DEF Provenance
  <1>2. \A row \in responses' : row.pid = p => row \in responses
    BY <1>1, NewResponse DEF Submitting
  <1>3. p \in Ids(participants)' => p \in Ids(participants)
    BY <1>1, NewParticipant DEF Submitting, Pending
  <1>4. QED
    BY <1>2, <1>3

(* No response is ever added to a submission after it was answered, by      *)
(* whatever request and on whatever connection.                             *)
THEOREM AnsweredSettled == Spec => AnsweredIsSettled
  <1>1. TypeOK /\ Provenance /\ [Next]_vars =>
          [\A p \in known \cap Participant :
              {row \in responses' : row.pid = p} \subseteq responses]_vars
    BY SettledStep
  <1>2. QED
    BY <1>1, TypeCorrect, ProvenanceHolds, PTL DEF Spec, AnsweredIsSettled

(* What is gone of an answered participant stays gone. *)
LEMMA GoneStays ==
    ASSUME TypeOK, Provenance, [Next]_vars, NEW p \in known \cap Participant, Gone(p)
    PROVE  Gone(p)'
  BY SettledStep DEF Gone

(* Between the two statements of a hard delete nothing is stored of an      *)
(* answered submission.                                                     *)
LEMMA AnsweredErasureStep ==
    ASSUME WritesFail = FALSE, TypeOK, Provenance, AnsweredErasure, [Next]_vars
    PROVE  AnsweredErasure'
  <1>1. known \subseteq known'
    BY NewErased
  <1>2. ASSUME NEW q \in Slot, pc'[q] = "eraseParticipant",
               loc'[q].id \in loc'[q].before
        PROVE  \A row \in responses' : row.pid # loc'[q].id
    <2>1. loc'[q] = loc[q] /\ (pc'[q] = pc[q] \/ EraseResponses(q))
      BY <1>2, Reached
    <2>2. CASE pc'[q] = pc[q]
      <3>1. /\ loc[q].id \in known \cap Participant
            /\ \A row \in responses : row.pid # loc[q].id
        BY <1>2, <2>1, <2>2
           DEF AnsweredErasure, Provenance, TypeOK, SlotsOK, Ready, ForParticipant
      <3>2. QED
        BY <2>1, <3>1, SettledStep
    <2>3. CASE EraseResponses(q)
      BY <2>1, <2>3 DEF EraseResponses, Write, DropResponses
    <2>4. QED BY <2>1, <2>2, <2>3
  <1>3. ASSUME NEW q \in Slot, pc'[q] = "auditErase", loc'[q].hard,
               loc'[q].id \in loc'[q].before
        PROVE  Gone(loc[q].id)' /\ loc'[q] = loc[q]
    <2>1. loc'[q] = loc[q]
          /\ (pc'[q] = pc[q] \/ EraseParticipant(q) \/ Anonymize(q))
      BY <1>3, Reached
    <2>2. CASE pc'[q] = pc[q]
      <3>1. Gone(loc[q].id) /\ loc[q].id \in known \cap Participant
        BY <1>3, <2>1, <2>2
           DEF AnsweredErasure, Provenance, TypeOK, SlotsOK, Ready, ForParticipant
      <3>2. Gone(loc[q].id)'
        <4> DEFINE p == loc[q].id
        <4> HIDE DEF p
        <4>1. \A x \in known \cap Participant : Gone(x) =>
                 /\ \A row \in responses' : row.pid # x
                 /\ x \notin Ids(participants)'
          BY SettledStep DEF Gone
        <4>2. QED
          BY <2>1, <3>1, <4>1 DEF Gone
      <3>3. QED BY <2>1, <3>2
    <2>3. CASE EraseParticipant(q)
      <3>1. PICK fk \in FkModes : Write(DropParticipant(loc[q].id, fk))
        BY <2>3 DEF EraseParticipant
      <3>2. \A row \in responses : row.pid # loc[q].id
        BY <1>3, <2>1, <2>3 DEF EraseParticipant, AnsweredErasure
      <3>3. QED
        BY <2>1, <3>1, <3>2 DEF Write, DropParticipant, Gone, Ids
    <2>4. CASE Anonymize(q)
      BY <1>3, <2>1, <2>4 DEF Anonymize, TypeOK, SlotsOK, Ready
    <2>5. QED BY <2>1, <2>2, <2>3, <2>4
  <1>4. \A e \in erased : e.id \in Participant
    BY DEF TypeOK
  <1>5. ASSUME NEW e \in erased', e.answered
        PROVE  e.id \in known' /\ (e.hard => Gone(e.id)')
    <2>1. CASE e \in erased
      <3>1. e.id \in known \cap Participant /\ (e.hard => Gone(e.id))
        BY <1>4, <1>5, <2>1 DEF AnsweredErasure, AnsweredErasedIsGone
      <3>2. e.hard => /\ \A row \in responses' : row.pid # e.id
                      /\ e.id \notin Ids(participants)'
        BY <3>1, SettledStep DEF Gone
      <3>3. QED
        BY <1>1, <3>1, <3>2 DEF Gone
    <2>2. CASE e \notin erased
      <3>1. PICK r \in Slot : AnswerErase(r)
        BY <2>2, NewErased
      <3>2. /\ e = [id |-> loc[r].id, hard |-> loc[r].hard,
                    answered |-> loc[r].id \in loc[r].before]
            /\ pc[r] = "auditErase" /\ UNCHANGED tables
        BY <2>2, <3>1 DEF AnswerErase
      <3>3. e.id = loc[r].id /\ e.hard = loc[r].hard /\ loc[r].id \in loc[r].before
        BY <1>5, <3>2
      <3>4. e.id \in known' /\ (e.hard => Gone(loc[r].id))
        BY <1>1, <3>2, <3>3 DEF AnsweredErasure, Provenance
      <3>5. QED
        BY <3>2, <3>3, <3>4 DEF Gone, Ids, tables
    <2>3. QED BY <2>1, <2>2
  <1>6. QED
    BY <1>2, <1>3, <1>5 DEF AnsweredErasure, AnsweredErasedIsGone, Gone

(* A hard delete of a participant whose submission was answered is final:   *)
(* once it is answered nothing of the participant is in the tables, and     *)
(* nothing comes back, also on connections without foreign keys.            *)
THEOREM AnsweredErasureIsFinal ==
    ASSUME WritesFail = FALSE
    PROVE  Spec => []AnsweredErasedIsGone
  <1>1. Init => AnsweredErasure
    BY DEF Init, AnsweredErasure, AnsweredErasedIsGone
  <1>2. TypeOK /\ Provenance /\ AnsweredErasure /\ [Next]_vars => AnsweredErasure'
    BY AnsweredErasureStep
  <1>3. AnsweredErasure => AnsweredErasedIsGone
    BY DEF AnsweredErasure
  <1>4. QED
    BY <1>1, <1>2, <1>3, TypeCorrect, ProvenanceHolds, PTL DEF Spec

-----------------------------------------------------------------------------
(* With foreign keys the same holds of every hard delete. *)

(* No row comes back for a deleted id, also when an administrator deletes a *)
(* participant whose answers are still being stored.                        *)
LEMMA RowErasedStep ==
    ASSUME WritesFail = FALSE, TypeOK, Provenance, RowErased, [Next]_vars
    PROVE  RowErased'
  <1>1. ASSUME NEW q \in Slot, pc'[q] = "auditErase", loc'[q].hard
        PROVE  loc'[q].id \notin Ids(participants)'
    <2>1. loc'[q] = loc[q]
          /\ (pc'[q] = pc[q] \/ EraseParticipant(q) \/ Anonymize(q))
      BY <1>1, Reached
    <2>2. CASE pc'[q] = pc[q]
      <3>1. Concerns(q, loc[q].id) /\ loc[q].id \notin Ids(participants)
        BY <1>1, <2>1, <2>2 DEF RowErased, Concerns, ForParticipant
      <3>2. \A r \in Slot : Pending(r) => loc[r].id # loc[q].id
        BY <1>1, <2>2, <3>1 DEF Provenance, Pending
      <3>3. QED
        BY <2>1, <3>1, <3>2, NewParticipant DEF Pending
    <2>3. CASE EraseParticipant(q)
      BY <2>1, <2>3 DEF EraseParticipant, Write, DropParticipant, Ids
    <2>4. CASE Anonymize(q)
      BY <1>1, <2>1, <2>4 DEF Anonymize, TypeOK, SlotsOK, Ready
    <2>5. QED BY <2>1, <2>2, <2>3, <2>4
  <1>2. ASSUME NEW e \in erased', e.hard
        PROVE  e.id \notin Ids(participants)'
    <2>1. CASE e \in erased
      <3>1. e.id \notin Ids(participants)
        BY <1>2, <2>1 DEF RowErased
      <3>2. \A r \in Slot : Pending(r) => loc[r].id # e.id
        BY <2>1 DEF Provenance, Unused
      <3>3. QED
        BY <3>1, <3>2, NewParticipant DEF Pending
    <2>2. CASE e \notin erased
      <3>1. PICK r \in Slot : AnswerErase(r)
        BY <2>2, NewErased
      <3>2. /\ e = [id |-> loc[r].id, hard |-> loc[r].hard,
                    answered |-> loc[r].id \in loc[r].before]
            /\ pc[r] = "auditErase" /\ UNCHANGED tables
        BY <2>2, <3>1 DEF AnswerErase
      <3>3. QED
        BY <1>2, <3>2 DEF RowErased, Ids, tables
    <2>3. QED BY <2>1, <2>2
  <1>3. QED
    BY <1>1, <1>2 DEF RowErased

(* On connections that enforce foreign keys every hard delete is final,     *)
(* also one that overtakes the submission it deletes.                       *)
THEOREM ErasureIsFinal ==
    ASSUME WritesFail = FALSE, FkModes = {TRUE}
    PROVE  Spec => []ErasedIsGone
  <1>1. Init => RowErased
    BY DEF Init, RowErased
  <1>2. TypeOK /\ Provenance /\ RowErased /\ [Next]_vars => RowErased'
    BY RowErasedStep
  <1>3. RowErased /\ ReferentialIntegrity => ErasedIsGone
    BY DEF RowErased, ReferentialIntegrity, Referenced, HasParents, ErasedIsGone,
           Gone
  <1>4. QED
    BY <1>1, <1>2, <1>3, TypeCorrect, ProvenanceHolds, ReferencesHold, PTL DEF Spec

-----------------------------------------------------------------------------
(* Consents: the scale they were signed for, and purges.                    *)

(* A generated id keeps the scale it was generated for. *)
LEMMA MintedStays ==
    ASSUME TypeOK, [Next]_vars, NEW g \in Minted, mintedFor[g] # NULL
    PROVE  mintedFor'[g] = mintedFor[g]
  <1>1. ASSUME NEW x, mintedFor[x] = NULL, NEW s,
               mintedFor' = [mintedFor EXCEPT ![x] = s]
        PROVE  mintedFor'[g] = mintedFor[g]
    BY <1>1 DEF TypeOK
  <1>2. \A r \in Slot : Submit(r) \/ SignConsent(r) =>
          mintedFor'[g] = mintedFor[g]
    BY <1>1 DEF Submit, SignConsent, Fresh
  <1>3. ASSUME NEW r \in Slot, Arrive(r),
               ~(Submit(r) \/ SignConsent(r))
        PROVE  mintedFor' = mintedFor
    BY <1>3 DEF Arrive, OpenForm, Intake, SelfDeleteSealed, SelfDelete, AdminDelete, Purge,
                CreateScale, AddItems, DeleteScale, DeleteItem
  <1>4. ASSUME NEW r \in Slot, Continue(r)
        PROVE  mintedFor' = mintedFor
    BY <1>4 DEF Continue, Submission, LinkConsent, AddParticipant, LookupItem,
                ResolveScale, InsertResponse, AnswerSubmit, Signing, InsertConsent,
                AnswerConsent, Sealing, InsertSealed, DeleteE2EEResponse, Erasure,
                Recheck, EraseResponses, EraseParticipant, Anonymize, AnswerErase,
                Purging, PurgeResponses, PurgeSealed, PurgeConsents, AnswerPurge,
                Editing, InsertNextItem, AnswerAddItems, DropScaleRow,
                AnswerDeleteScale, DeleteItemResponses
  <1>5. QED
    BY <1>2, <1>3, <1>4 DEF Next, vars

(* A consent is only ever inserted by the request that generated its id, an *)
(* encrypted response only by an intake, which is then seen by every purge. *)
LEMMA NewSignature ==
    ASSUME [Next]_vars
    PROVE  /\ \A row \in consents' \ consents : \E r \in Slot :
                 /\ pc[r] = "insertConsent"
                 /\ row = [id |-> loc[r].id, scale |-> loc[r].scale]
           /\ \A row \in sealed' \ sealed : PurgeSlots \X {row.id} \subseteq resent'
  <1>1. CASE UNCHANGED vars
    BY <1>1 DEF vars, tables
  <1>2. ASSUME NEW r \in Slot, Arrive(r)
        PROVE  consents' = consents /\ sealed' = sealed
    BY <1>2 DEF Arrive, OpenForm, Submit, SignConsent, Intake, SelfDeleteSealed,
                SelfDelete, AdminDelete, Purge, CreateScale, InsertScale, AddItems,
                DeleteScale, DeleteItem, DropItem, Write, tables
  <1>3. ASSUME NEW r \in Slot, Submission(r) \/ Erasure(r)
        PROVE  consents' = consents /\ sealed' = sealed
    BY <1>3 DEF Submission, LinkConsent, AddParticipant, InsertParticipant,
                LookupItem, ResolveScale, InsertResponse, UpsertResponse, AnswerSubmit,
                Erasure, Recheck, EraseResponses, EraseParticipant, Anonymize,
                AnswerErase, Write, DropResponses, DropParticipant, BlankEmail, tables
  <1>4. ASSUME NEW r \in Slot, Signing(r)
        PROVE  /\ sealed' = sealed
               /\ \A row \in consents' \ consents :
                     /\ pc[r] = "insertConsent"
                     /\ row = [id |-> loc[r].id, scale |-> loc[r].scale]
    BY <1>4 DEF Signing, InsertConsent, AnswerConsent, Write, UpsertConsent, tables
  <1>5. ASSUME NEW r \in Slot, Sealing(r)
        PROVE  /\ consents' = consents
               /\ \A row \in sealed' \ sealed : PurgeSlots \X {row.id} \subseteq resent'
    BY <1>5 DEF Sealing, InsertSealed, DeleteE2EEResponse, Write, UpsertSealed,
                DropSealed, tables
  <1>6. ASSUME NEW r \in Slot, Purging(r) \/ Editing(r)
        PROVE  consents' \subseteq consents /\ sealed' \subseteq sealed
    BY <1>6 DEF Purging, PurgeResponses, PurgeSealed, PurgeConsents, AnswerPurge,
                Editing, InsertNextItem, AnswerAddItems, DropScaleRow,
                AnswerDeleteScale, DeleteItemResponses, Write, InsertItem, DropScale,
                DropResponses, DropSealed, DropConsentsOf, tables
  <1>7. QED
    BY <1>1, <1>2, <1>3, <1>4, <1>5, <1>6 DEF Next, Continue

(* A participant's row keeps its consent id, and gets it from the           *)
(* submission.                                                              *)
LEMMA NewParticipantRow ==
    ASSUME TypeOK, [Next]_vars, NEW row \in participants'
    PROVE  \/ \E old \in participants : row.id = old.id /\ row.consent = old.consent
           \/ \E r \in Slot : /\ pc[r] = "insertParticipant"
                               /\ row.id = loc[r].id /\ row.consent = loc[r].consent
  <1>1. CASE participants' \subseteq participants
    BY <1>1
  <1>2. CASE ~(participants' \subseteq participants)
    <2>1. PICK r \in Slot : Arrive(r) \/ Continue(r)
      BY <1>2 DEF Next, vars, tables
    <2>2. ~Arrive(r)
      BY <1>2 DEF Arrive, OpenForm, Submit, SignConsent, Intake, SelfDeleteSealed,
                  SelfDelete, AdminDelete, Purge, CreateScale, InsertScale, AddItems,
                  DeleteScale, DeleteItem, DropItem, Write, tables
    <2>3. ~Signing(r) /\ ~Sealing(r)
      BY <1>2 DEF Signing, InsertConsent, AnswerConsent, Sealing, InsertSealed,
                  DeleteE2EEResponse, Write, UpsertConsent, UpsertSealed, DropSealed,
                  tables
    <2>4. ~Purging(r) /\ ~Editing(r)
      BY <1>2 DEF Purging, PurgeResponses, PurgeSealed, PurgeConsents, AnswerPurge,
                  Editing, InsertNextItem, AnswerAddItems, DropScaleRow,
                  AnswerDeleteScale, DeleteItemResponses, Write, InsertItem,
                  DropScale, DropResponses, DropSealed, DropConsentsOf, tables
    <2>5. CASE Submission(r)
      <3>1. AddParticipant(r)
        BY <1>2, <2>5 DEF Submission, LinkConsent, LookupItem, ResolveScale,
           InsertResponse, UpsertResponse, AnswerSubmit, Write, tables
      <3>2. QED
        BY <3>1 DEF AddParticipant, InsertParticipant, Write, tables
    <2>6. CASE Erasure(r)
      <3>1. Anonymize(r)
        BY <1>2, <2>6 DEF Erasure, Recheck, EraseResponses, EraseParticipant,
           AnswerErase, Write, DropResponses, DropParticipant, tables
      <3>2. BlankEmail(loc[r].id)
        BY <1>2, <3>1 DEF Anonymize, tables
      <3>3. PICK old \in participants :
              row = IF old.id = loc[r].id THEN [old EXCEPT !.email = NULL] ELSE old
        BY <3>2 DEF BlankEmail
      <3>4. old \in ParticipantRow
        BY DEF TypeOK, TablesOK
      <3>5. QED
        BY <3>3, <3>4 DEF ParticipantRow
    <2>7. QED
      BY <2>1, <2>2, <2>3, <2>4, <2>5, <2>6 DEF Continue
  <1>3. QED
    BY <1>1, <1>2

(* An id becomes known when the request that generated it is answered.      *)
LEMMA NewKnown ==
    ASSUME TypeOK, [Next]_vars, NEW g \in known' \ known
    PROVE  \E r \in Slot : /\ g = loc[r].id
                           /\ \/ pc[r] = "store"
                              \/ pc[r] \in {"answerConsent", "insertSealed"} /\ pc'[r] = "idle"
  <1>1. PICK r \in Slot : Arrive(r) \/ Continue(r)
    BY DEF Next, vars
  <1>2. ~Arrive(r)
    BY DEF Arrive, OpenForm, Submit, SignConsent, Intake, SelfDeleteSealed,
           SelfDelete, AdminDelete, Purge, CreateScale, AddItems, DeleteScale,
           DeleteItem
  <1>3. AnswerSubmit(r) \/ AnswerConsent(r) \/ InsertSealed(r)
    BY <1>1, <1>2
       DEF Continue, Submission, LinkConsent, AddParticipant, LookupItem,
           ResolveScale, InsertResponse, Signing, InsertConsent, Sealing,
           DeleteE2EEResponse, Erasure, Recheck, EraseResponses, EraseParticipant,
           Anonymize, AnswerErase, Purging, PurgeResponses, PurgeSealed,
           PurgeConsents, AnswerPurge, Editing, InsertNextItem, AnswerAddItems,
           DropScaleRow, AnswerDeleteScale, DeleteItemResponses
  <1>4. CASE AnswerSubmit(r)
    BY <1>4 DEF AnswerSubmit
  <1>5. CASE AnswerConsent(r) \/ InsertSealed(r)
    <2>1. pc'[r] = "idle"
      BY <1>5, GotoSlots DEF AnswerConsent, InsertSealed, Finish, TypeOK
    <2>2. QED
      BY <1>5, <2>1 DEF AnswerConsent, InsertSealed
  <1>6. QED
    BY <1>3, <1>4, <1>5

(* How a request reaches the labels that Linking, Issued and PurgedSoFar    *)
(* are about.                                                               *)
LEMMA Entered ==
    ASSUME TypeOK, [Next]_vars, NEW q \in Slot,
           Pending(q)' \/ Issuing(q)' \/ pc'[q] \in {"purgeSealed", "purgeConsents", "auditPurge"}
    PROVE  \/ pc'[q] = pc[q] /\ loc'[q] = loc[q]
           \/ Submit(q) /\ Pending(q)'
           \/ LinkConsent(q) /\ pc'[q] = "insertParticipant"
           \/ SignConsent(q) /\ pc'[q] = "insertConsent"
           \/ InsertConsent(q) /\ pc'[q] = "answerConsent"
           \/ Intake(q) /\ pc'[q] = "insertSealed"
           \/ PurgeResponses(q) /\ pc'[q] \in {"purgeSealed", "auditPurge"}
           \/ PurgeSealed(q) /\ pc'[q] = "purgeConsents"
           \/ PurgeConsents(q) /\ pc'[q] = "auditPurge"
  <1>1. CASE UNCHANGED <<pc, loc>>
    BY <1>1
  <1>2. ASSUME NEW r \in Slot, r # q, NEW label, NEW local, Goto(r, label, local)
        PROVE  pc'[q] = pc[q] /\ loc'[q] = loc[q]
    BY <1>2, GotoSlots DEF TypeOK
  <1>3. ASSUME NEW label, NEW local, Goto(q, label, local)
        PROVE  pc'[q] = label
    BY <1>3, GotoSlots DEF TypeOK
  <1>4. \A r \in Slot : Finish(r) => Goto(r, "idle", Blank)
    BY DEF Finish
  <1>5. ASSUME NEW r \in Slot, Arrive(r), ~UNCHANGED <<pc, loc>>
        PROVE  /\ \E label, local : Goto(r, label, local)
               /\ \/ Submit(r) \/ SignConsent(r) \/ Intake(r)
                  \/ \E label \in {"idle", "form", "recheck", "dropSealed", "purgeResponses",
                                   "insertItem", "dropScale", "dropItemResponses"} :
                        \E local : Goto(r, label, local)
    <2>1. CASE Submit(r)
      BY <1>4, <2>1 DEF Submit
    <2>2. CASE SignConsent(r) \/ Intake(r)
      BY <2>2 DEF SignConsent, Intake
    <2>3. CASE OpenForm(r) \/ SelfDeleteSealed(r) \/ SelfDelete(r) \/ AdminDelete(r)
      BY <2>3 DEF OpenForm, SelfDeleteSealed, SelfDelete, AdminDelete
    <2>4. CASE Purge(r) \/ AddItems(r) \/ DeleteScale(r) \/ DeleteItem(r) \/ CreateScale(r)
      BY <1>5, <2>4 DEF Purge, AddItems, DeleteScale, DeleteItem, CreateScale
    <2>5. QED
      BY <1>5, <2>1, <2>2, <2>3, <2>4 DEF Arrive
  <1>6. ASSUME NEW r \in Slot, Continue(r)
        PROVE  /\ \E label, local : Goto(r, label, local)
               /\ \/ LinkConsent(r) \/ InsertConsent(r)
                  \/ PurgeResponses(r) \/ PurgeSealed(r) \/ PurgeConsents(r)
                  \/ \E label \in {"idle", "lookup", "store", "eraseResponses", "blankEmail",
                                   "eraseParticipant", "auditErase", "auditDrop", "insertItem"} :
                        \E local : Goto(r, label, local)
    <2>1. CASE Submission(r)
      BY <1>4, <2>1 DEF Submission, LinkConsent, AddParticipant, LookupItem,
         ResolveScale, InsertResponse, AnswerSubmit
    <2>2. CASE Signing(r) \/ Sealing(r)
      BY <1>4, <2>2 DEF Signing, InsertConsent, AnswerConsent, Sealing, InsertSealed,
         DeleteE2EEResponse
    <2>3. CASE Erasure(r)
      BY <1>4, <2>3 DEF Erasure, Recheck, EraseResponses, EraseParticipant, Anonymize,
         AnswerErase
    <2>4. CASE Purging(r)
      BY <1>4, <2>4 DEF Purging, PurgeResponses, PurgeSealed, PurgeConsents, AnswerPurge
    <2>5. CASE Editing(r)
      BY <1>4, <2>5 DEF Editing, InsertNextItem, AnswerAddItems, DropScaleRow,
         AnswerDeleteScale, DeleteItemResponses
    <2>6. QED
      BY <1>6, <2>1, <2>2, <2>3, <2>4, <2>5 DEF Continue
  <1>7. CASE ~UNCHANGED <<pc, loc>>
    <2>1. PICK r \in Slot : Arrive(r) \/ Continue(r)
      BY <1>7 DEF Next, vars
    <2>2. CASE r # q
      BY <1>2, <1>5, <1>6, <1>7, <2>1, <2>2
    <2>3. CASE r = q
      <3>1. \/ Submit(q) \/ SignConsent(q) \/ Intake(q)
            \/ LinkConsent(q) \/ InsertConsent(q)
            \/ PurgeResponses(q) \/ PurgeSealed(q) \/ PurgeConsents(q)
        BY <1>3, <1>5, <1>6, <1>7, <2>1, <2>3 DEF Pending, Issuing
      <3>2. Submit(q) => pc'[q] \in {"linkConsent", "insertParticipant", "idle"}
        BY <1>3, <1>4 DEF Submit
      <3>3. /\ SignConsent(q) => pc'[q] = "insertConsent"
            /\ Intake(q) => pc'[q] = "insertSealed"
            /\ LinkConsent(q) => pc'[q] = "insertParticipant"
            /\ InsertConsent(q) => pc'[q] = "answerConsent"
        BY <1>3 DEF SignConsent, Intake, LinkConsent, InsertConsent
      <3>4. /\ PurgeResponses(q) => pc'[q] \in {"purgeSealed", "auditPurge"}
            /\ PurgeSealed(q) => pc'[q] = "purgeConsents"
            /\ PurgeConsents(q) => pc'[q] = "auditPurge"
        BY <1>3 DEF PurgeResponses, PurgeSealed, PurgeConsents
      <3>5. QED
        BY <3>1, <3>2, <3>3, <3>4 DEF Pending, Issuing
    <2>4. QED BY <2>2, <2>3
  <1>8. QED
    BY <1>1, <1>7

LEMMA LinkingStep ==
    ASSUME TypeOK, Linking, [Next]_vars
    PROVE  Linking'
  <1>1. /\ mintedFor \in [Minted -> Scale \cup {NULL}]
        /\ \A r \in Slot : loc[r] \in Local /\ Ready(pc[r], loc[r])
        /\ consents \subseteq ConsentRow /\ participants \subseteq ParticipantRow
        /\ scales \subseteq ScaleRow
    BY DEF TypeOK, TablesOK, SlotsOK
  <1>2. \A g \in Minted : mintedFor[g] # NULL => mintedFor'[g] = mintedFor[g]
    BY MintedStays
  <1>3. ASSUME NEW row \in consents'
        PROVE  mintedFor'[row.id] = row.scale
    <2>1. CASE row \in consents
      <3>1. row.id \in Minted /\ mintedFor[row.id] = row.scale /\ row.scale # NULL
        BY <1>1, <2>1, StoreAssumption DEF Linking, ConsentRow, Generated, Minted
      <3>2. QED
        BY <1>2, <3>1
    <2>2. CASE row \notin consents
      <3>1. PICK r \in Slot : /\ pc[r] = "insertConsent"
                              /\ row = [id |-> loc[r].id, scale |-> loc[r].scale]
        BY <2>2, NewSignature
      <3>2. loc[r].id \in Minted /\ loc[r].scale # NULL
        BY <1>1, <3>1 DEF Ready, Generated, Minted
      <3>3. QED
        BY <1>2, <3>1, <3>2 DEF Linking
    <2>3. QED BY <2>1, <2>2
  <1>4. ASSUME NEW row \in participants'
        PROVE  /\ mintedFor'[row.id] # NULL
               /\ row.consent # NULL => mintedFor'[row.consent] = mintedFor'[row.id]
    <2>1. CASE \E old \in participants : row.id = old.id /\ row.consent = old.consent
      <3>1. PICK old \in participants : row.id = old.id /\ row.consent = old.consent
        BY <2>1
      <3>2. old.id \in Minted /\ old.consent \in Minted \cup {NULL}
        BY <1>1 DEF ParticipantRow, Generated, Minted
      <3>3. /\ mintedFor[old.id] # NULL
            /\ old.consent # NULL => mintedFor[old.consent] = mintedFor[old.id]
        BY DEF Linking, ConsentMatchesForm
      <3>4. QED
        BY <1>2, <3>1, <3>2, <3>3
    <2>2. CASE \E r \in Slot : /\ pc[r] = "insertParticipant"
                               /\ row.id = loc[r].id /\ row.consent = loc[r].consent
      <3>1. PICK r \in Slot : /\ pc[r] = "insertParticipant"
                              /\ row.id = loc[r].id /\ row.consent = loc[r].consent
        BY <2>2
      <3>2. /\ loc[r].id \in Minted /\ loc[r].scale # NULL
            /\ loc[r].consent \in Minted \cup {NULL}
        BY <1>1, <3>1 DEF Ready, Local, ForParticipant, Generated, Minted
      <3>3. /\ mintedFor[loc[r].id] = loc[r].scale
            /\ loc[r].consent # NULL => mintedFor[loc[r].consent] = loc[r].scale
        BY <3>1 DEF Linking, Pending
      <3>4. QED
        BY <1>2, <3>1, <3>2, <3>3
    <2>3. QED BY <2>1, <2>2, NewParticipantRow
  <1>5. ASSUME NEW q \in Slot, Pending(q)' \/ pc'[q] = "insertConsent"
        PROVE  /\ mintedFor'[loc'[q].id] = loc'[q].scale
               /\ pc'[q] = "insertParticipant" /\ loc'[q].consent # NULL =>
                     mintedFor'[loc'[q].consent] = loc'[q].scale
    <2>1. CASE pc'[q] = pc[q] /\ loc'[q] = loc[q]
      <3>1. /\ loc[q].id \in Minted /\ loc[q].scale # NULL
            /\ loc[q].consent \in Minted \cup {NULL}
        BY <1>1, <1>5, <2>1 DEF Ready, Local, ForParticipant, Pending, Generated, Minted
      <3>2. /\ mintedFor[loc[q].id] = loc[q].scale
            /\ pc[q] = "insertParticipant" /\ loc[q].consent # NULL =>
                  mintedFor[loc[q].consent] = loc[q].scale
        BY <1>5, <2>1 DEF Linking, Pending
      <3>3. QED
        BY <1>2, <2>1, <3>1, <3>2
    <2>2. CASE Submit(q)
      <3>1. PICK p \in Fresh(Participant) :
              /\ mintedFor' = [mintedFor EXCEPT ![p] = loc[q].scale]
              /\ Goto(q, IF loc[q].consent = NULL THEN "insertParticipant"
                         ELSE "linkConsent", [loc[q] EXCEPT !.id = p])
        <4>1. Finish(q) => pc'[q] = "idle"
          BY GotoSlots DEF Finish, TypeOK
        <4>2. ~Finish(q)
          BY <1>5, <4>1 DEF Pending
        <4>3. QED
          BY <2>2, <4>2 DEF Submit
      <3>2. /\ pc'[q] = IF loc[q].consent = NULL THEN "insertParticipant"
                        ELSE "linkConsent"
            /\ loc'[q] = [loc[q] EXCEPT !.id = p]
        BY <3>1, GotoSlots DEF TypeOK
      <3>3. /\ loc'[q].id = p /\ loc'[q].scale = loc[q].scale
            /\ loc'[q].consent = loc[q].consent
        BY <1>1, <3>2 DEF Local
      <3>4. mintedFor'[p] = loc[q].scale
        BY <1>1, <3>1 DEF Fresh, Generated, Minted
      <3>5. QED
        BY <3>2, <3>3, <3>4
    <2>3. CASE LinkConsent(q)
      <3>1. PICK local \in {loc[q], [loc[q] EXCEPT !.consent = NULL]} :
              /\ Goto(q, "insertParticipant", local)
              /\ local.consent # NULL =>
                    \E row \in consents : row.id = loc[q].consent /\ row.scale = loc[q].scale
        BY <1>1, <2>3 DEF LinkConsent, Local
      <3>2. /\ local.id = loc[q].id /\ local.scale = loc[q].scale
            /\ local.consent # NULL => local.consent = loc[q].consent
        BY <1>1 DEF Local
      <3>3. loc'[q] = local
        BY <3>1, GotoSlots DEF TypeOK
      <3>4. /\ pc[q] = "linkConsent" /\ loc[q].id \in Minted /\ loc[q].scale # NULL
            /\ mintedFor[loc[q].id] = loc[q].scale
        BY <1>1, <2>3 DEF LinkConsent, Ready, ForParticipant, Generated, Minted, Linking, Pending
      <3>5. local.consent # NULL => /\ local.consent \in Minted
                                    /\ mintedFor[local.consent] = loc[q].scale
        BY <1>1, <3>1, <3>2 DEF Linking, ConsentRow, Generated, Minted
      <3>6. QED
        BY <1>2, <3>2, <3>3, <3>4, <3>5
    <2>4. CASE SignConsent(q) /\ pc'[q] = "insertConsent"
      <3>1. PICK row \in scales, c \in Fresh(Consent) :
              /\ mintedFor' = [mintedFor EXCEPT ![c] = row.id]
              /\ Goto(q, "insertConsent", [Blank EXCEPT !.scale = row.id, !.id = c])
        BY <2>4 DEF SignConsent
      <3>2. loc'[q] = [Blank EXCEPT !.scale = row.id, !.id = c]
        BY <3>1, GotoSlots DEF TypeOK
      <3>3. loc'[q].id = c /\ loc'[q].scale = row.id
        BY <3>2 DEF Blank
      <3>4. mintedFor'[c] = row.id
        BY <1>1, <3>1 DEF Fresh, Generated, Minted
      <3>5. QED
        BY <2>4, <3>3, <3>4
    <2>5. QED
      BY <1>5, <2>1, <2>2, <2>3, <2>4, Entered DEF Pending, Issuing
  <1>6. QED
    BY <1>3, <1>4, <1>5 DEF Linking, ConsentMatchesForm, Pending

(* The consent id of a participant's row is that of a consent signed for    *)
(* the same form, whatever is purged or deleted while the submission is     *)
(* being stored.                                                            *)
THEOREM ConsentsMatch == Spec => []ConsentMatchesForm
  <1>1. Init => Linking
    BY DEF Init, Linking, ConsentMatchesForm, Pending
  <1>2. TypeOK /\ Linking /\ [Next]_vars => Linking'
    BY LinkingStep
  <1>3. Linking => ConsentMatchesForm
    BY DEF Linking
  <1>4. QED
    BY <1>1, <1>2, <1>3, TypeCorrect, PTL DEF Spec

LEMMA IssuedStep ==
    ASSUME TypeOK, Issued, [Next]_vars
    PROVE  Issued'
  <1>1. /\ mintedFor \in [Minted -> Scale \cup {NULL}]
        /\ \A r \in Slot : loc[r] \in Local /\ Ready(pc[r], loc[r])
        /\ scales \subseteq ScaleRow
    BY DEF TypeOK, TablesOK, SlotsOK
  <1>2. \A g \in Minted : mintedFor'[g] = NULL => mintedFor[g] = NULL
    BY MintedStays
  <1>3. ASSUME NEW g \in Consent, g \in known', g \notin known
        PROVE  \E r \in Slot : Issuing(r) /\ loc[r].id = g /\ pc'[r] = "idle"
    <2>1. PICK r \in Slot : /\ g = loc[r].id
                            /\ \/ pc[r] = "store"
                               \/ pc[r] \in {"answerConsent", "insertSealed"} /\ pc'[r] = "idle"
      BY <1>3, NewKnown
    <2>2. pc[r] \notin {"store", "insertSealed"}
      BY <1>1, <1>3, <2>1, StoreAssumption DEF Ready, ForParticipant
    <2>3. QED
      BY <2>1, <2>2 DEF Issuing
  <1>4. ASSUME NEW q \in Slot, Issuing(q)'
        PROVE  \/ Issuing(q) /\ loc'[q].id = loc[q].id
               \/ /\ loc'[q].id \in Consent
                  /\ mintedFor[loc'[q].id] = NULL /\ mintedFor'[loc'[q].id] # NULL
                  /\ known' = known
                  /\ \A r \in Slot \ {q} : pc'[r] = pc[r] /\ loc'[r] = loc[r]
    <2>1. CASE pc'[q] = pc[q] /\ loc'[q] = loc[q]
      BY <1>4, <2>1 DEF Issuing
    <2>2. CASE InsertConsent(q)
      BY <2>2, GotoSlots DEF InsertConsent, Issuing, TypeOK
    <2>3. ASSUME NEW row \in scales, NEW c \in Fresh(Consent), NEW label,
                 mintedFor' = [mintedFor EXCEPT ![c] = row.id],
                 Goto(q, label, [Blank EXCEPT !.scale = row.id, !.id = c])
          PROVE  /\ loc'[q].id = c /\ mintedFor[c] = NULL /\ mintedFor'[c] # NULL
                 /\ \A r \in Slot \ {q} : pc'[r] = pc[r] /\ loc'[r] = loc[r]
      <3>1. /\ loc'[q] = [Blank EXCEPT !.scale = row.id, !.id = c]
            /\ \A r \in Slot \ {q} : pc'[r] = pc[r] /\ loc'[r] = loc[r]
        BY <2>3, GotoSlots DEF TypeOK
      <3>2. loc'[q].id = c
        BY <3>1 DEF Blank
      <3>3. mintedFor[c] = NULL /\ mintedFor'[c] = row.id /\ row.id # NULL
        BY <1>1, <2>3, StoreAssumption DEF Fresh, Generated, Minted, ScaleRow
      <3>4. QED
        BY <3>1, <3>2, <3>3
    <2>4. CASE SignConsent(q)
      <3>1. /\ known' = known
            /\ \E row \in scales, c \in Fresh(Consent), label \in Label :
                 /\ mintedFor' = [mintedFor EXCEPT ![c] = row.id]
                 /\ Goto(q, label, [Blank EXCEPT !.scale = row.id, !.id = c])
        BY <2>4 DEF SignConsent, Fresh, Label
      <3>2. QED
        BY <2>3, <3>1 DEF Fresh
    <2>5. QED
      BY <1>4, <2>1, <2>2, <2>4, Entered DEF Pending, Issuing
  <1>5. ASSUME NEW g \in Consent, mintedFor'[g] = NULL
        PROVE  g \notin known' /\ \A r \in Slot : Issuing(r)' => loc'[r].id # g
    <2>1. /\ g \notin known
          /\ \A r \in Slot : Issuing(r) => loc[r].id # g
      BY <1>2, <1>5 DEF Issued, Generated, Minted
    <2>2. QED
      BY <1>3, <1>4, <1>5, <2>1
  <1>6. ASSUME NEW r \in Slot, Issuing(r)'
        PROVE  /\ loc'[r].id \notin known'
               /\ \A q \in Slot \ {r} : Issuing(q)' => loc'[q].id # loc'[r].id
    <2>1. ASSUME NEW q \in Slot, Issuing(q)
          PROVE  loc[q].id \in Consent
      BY <1>1, <2>1 DEF Ready, Issuing
    <2>2. CASE Issuing(r) /\ loc'[r].id = loc[r].id
      <3>1. /\ loc[r].id \notin known /\ loc[r].id \in Consent
            /\ mintedFor[loc[r].id] # NULL
            /\ \A q \in Slot \ {r} : Issuing(q) => loc[q].id # loc[r].id
        BY <2>1, <2>2 DEF Issued
      <3>2. pc'[r] # "idle"
        BY <1>6 DEF Issuing
      <3>3. loc'[r].id \notin known'
        BY <1>3, <2>2, <3>1, <3>2
      <3>4. QED
        BY <1>4, <2>2, <3>1, <3>3
    <2>3. CASE ~(Issuing(r) /\ loc'[r].id = loc[r].id)
      <3>1. /\ loc'[r].id \in Consent
            /\ mintedFor[loc'[r].id] = NULL
            /\ known' = known
            /\ \A q \in Slot \ {r} : pc'[q] = pc[q] /\ loc'[q] = loc[q]
        BY <1>4, <1>6, <2>3
      <3>2. QED
        BY <3>1 DEF Issued, Issuing
    <2>4. QED BY <2>2, <2>3
  <1>7. QED
    BY <1>5, <1>6 DEF Issued

(* What was sent again during a purge is remembered until its answer. *)
LEMMA ResentStays ==
    ASSUME TypeOK, [Next]_vars, NEW q \in Slot,
           pc[q] \in {"purgeConsents", "auditPurge"},
           pc'[q] \in {"purgeConsents", "auditPurge"}, NEW g, <<q, g>> \in resent
    PROVE  <<q, g>> \in resent'
  <1>1. CASE resent \subseteq resent'
    BY <1>1
  <1>2. ASSUME NEW r \in Slot, AnswerPurge(r)
        PROVE  <<q, g>> \in resent'
    <2>1. pc'[r] = "idle"
      BY <1>2, GotoSlots DEF AnswerPurge, Finish, TypeOK
    <2>2. QED
      BY <1>2, <2>1 DEF AnswerPurge
  <1>3. ASSUME NEW r \in Slot, Arrive(r)
        PROVE  resent' = resent
    BY <1>3 DEF Arrive, OpenForm, Submit, SignConsent, Intake, SelfDeleteSealed,
                SelfDelete, AdminDelete, Purge, CreateScale, AddItems, DeleteScale,
                DeleteItem
  <1>4. ASSUME NEW r \in Slot, Continue(r), ~AnswerPurge(r)
        PROVE  resent \subseteq resent'
    BY <1>4 DEF Continue, Submission, LinkConsent, AddParticipant, LookupItem,
                ResolveScale, InsertResponse, AnswerSubmit, Signing, InsertConsent,
                AnswerConsent, Sealing, InsertSealed, DeleteE2EEResponse, Erasure,
                Recheck, EraseResponses, EraseParticipant, Anonymize, AnswerErase,
                Purging, PurgeResponses, PurgeSealed, PurgeConsents,
                Editing, InsertNextItem, AnswerAddItems, DropScaleRow,
                AnswerDeleteScale, DeleteItemResponses
  <1>5. QED
    BY <1>1, <1>2, <1>3, <1>4 DEF Next, vars

LEMMA PurgedStep ==
    ASSUME WritesFail = FALSE, TypeOK, Provenance, Issued, PurgedSoFar, [Next]_vars
    PROVE  PurgedSoFar'
  <1>1. /\ \A r \in Slot : loc[r].before \subseteq known
        /\ \A r \in Slot : Ready(pc[r], loc[r])
        /\ responses \subseteq ResponseRow
    BY DEF TypeOK, TablesOK, SlotsOK, Provenance
  <1>2. ASSUME NEW row \in responses', row.pid \in known
        PROVE  row \in responses
    BY <1>2, NewResponse DEF Provenance, Submitting
  <1>3. ASSUME NEW row \in sealed', row \notin sealed, NEW q \in PurgeSlots
        PROVE  <<q, row.id>> \in resent'
    BY <1>3, NewSignature
  <1>4. ASSUME NEW row \in consents', row.id \in known
        PROVE  row \in consents
    BY <1>4, NewSignature DEF Issued, Issuing
  <1>5. ASSUME NEW q \in Slot, pc'[q] \in {"purgeSealed", "purgeConsents", "auditPurge"}
        PROVE  /\ loc'[q] = loc[q]
               /\ \/ pc'[q] = pc[q]
                  \/ PurgeResponses(q) /\ pc'[q] = "purgeSealed"
                  \/ PurgeSealed(q) /\ pc'[q] = "purgeConsents"
                  \/ PurgeConsents(q) /\ pc'[q] = "auditPurge"
    <2>1. \/ pc'[q] = pc[q] /\ loc'[q] = loc[q]
          \/ PurgeResponses(q) \/ PurgeSealed(q) \/ PurgeConsents(q)
      BY <1>5, Entered DEF Pending
    <2>2. QED
      BY <2>1, GotoSlots DEF PurgeResponses, PurgeSealed, PurgeConsents, TypeOK
  <1>6. ASSUME NEW q \in Slot, pc'[q] \in {"purgeSealed", "purgeConsents", "auditPurge"},
               NEW row \in responses', row.scale = loc'[q].scale
        PROVE  row.pid \notin loc'[q].before
    <2>1. CASE PurgeResponses(q) /\ pc'[q] = "purgeSealed"
      BY <1>5, <1>6, <2>1 DEF PurgeResponses, DropResponses
    <2>2. CASE pc[q] \in {"purgeSealed", "purgeConsents", "auditPurge"}
      BY <1>1, <1>2, <1>5, <1>6, <2>2 DEF PurgedSoFar
    <2>3. QED
      BY <1>5, <1>6, <2>1, <2>2 DEF PurgeSealed, PurgeConsents
  <1>7. ASSUME NEW q \in Slot, pc'[q] \in {"purgeConsents", "auditPurge"},
               NEW row \in sealed', row.scale = loc'[q].scale,
               row.id \in loc'[q].before
        PROVE  <<q, row.id>> \in resent'
    <2>1. CASE PurgeSealed(q)
      BY <1>5, <1>7, <2>1 DEF PurgeSealed, Write, DropSealed
    <2>2. CASE pc[q] \in {"purgeConsents", "auditPurge"}
      <3>1. CASE row \notin sealed
        BY <1>3, <2>2, <3>1 DEF PurgeSlots
      <3>2. CASE row \in sealed
        BY <1>5, <1>7, <2>2, <3>2, ResentStays DEF PurgedSoFar
      <3>3. QED BY <3>1, <3>2
    <2>3. QED
      BY <1>5, <1>7, <2>1, <2>2 DEF PurgeConsents
  <1>8. ASSUME NEW q \in Slot, pc'[q] = "auditPurge",
               NEW row \in consents', row.scale = loc'[q].scale
        PROVE  row.id \notin loc'[q].before
    <2>1. CASE PurgeConsents(q)
      BY <1>5, <1>8, <2>1 DEF PurgeConsents, Write, DropConsentsOf
    <2>2. CASE pc[q] = "auditPurge"
      BY <1>1, <1>4, <1>5, <1>8, <2>2 DEF PurgedSoFar
    <2>3. QED
      BY <1>5, <1>8, <2>1, <2>2
  <1>9. QED
    BY <1>6, <1>7, <1>8 DEF PurgedSoFar

(* When no write fails, a purge that is answered has left nothing of what   *)
(* was answered before it was asked for, though submissions and signatures  *)
(* are stored between its three statements and foreign keys may be off:     *)
(* only an encrypted response its client sent again is there.               *)
THEOREM PurgeCompletes ==
    ASSUME WritesFail = FALSE
    PROVE  Spec => []PurgeIsComplete
  <1>1. Init => Issued /\ PurgedSoFar
    BY DEF Init, Issued, PurgedSoFar, Issuing
  <1>2. TypeOK /\ Issued /\ [Next]_vars => Issued'
    BY IssuedStep
  <1>3. TypeOK /\ Provenance /\ Issued /\ PurgedSoFar /\ [Next]_vars => PurgedSoFar'
    BY PurgedStep
  <1>4. PurgedSoFar => PurgeIsComplete
    BY DEF PurgedSoFar, PurgeIsComplete
  <1>5. QED
    BY <1>1, <1>2, <1>3, <1>4, TypeCorrect, ProvenanceHolds, PTL DEF Spec

-----------------------------------------------------------------------------
(* Deletes of scales.                                                       *)

(* The answer to a delete of a scale is reached from the DELETE only. *)
LEMMA Dropped ==
    ASSUME TypeOK, [Next]_vars, NEW q \in Slot, pc'[q] = "auditDrop"
    PROVE  /\ loc'[q] = loc[q]
           /\ \/ pc[q] = "auditDrop"
              \/ \E fk \in FkModes : DropScale(loc[q].scale, fk)
  <1>1. CASE UNCHANGED <<pc, loc>>
    BY <1>1
  <1> DEFINE Others == Label \ {"auditDrop"}
  <1>2. ASSUME NEW r \in Slot, \E label \in Others : \E local : Goto(r, label, local)
        PROVE  pc'[q] = pc[q] /\ loc'[q] = loc[q]
    BY <1>2, GotoSlots DEF TypeOK
  <1>3. \A r \in Slot : Finish(r) => \E label \in Others : \E local : Goto(r, label, local)
    BY DEF Finish, Label
  <1>4. ASSUME NEW r \in Slot, Arrive(r), ~UNCHANGED <<pc, loc>>
        PROVE  \E label \in Others : \E local : Goto(r, label, local)
    <2>1. ~CreateScale(r)
      BY <1>4 DEF CreateScale
    <2>2. CASE OpenForm(r)
      BY <2>2 DEF OpenForm, Label
    <2>3. CASE Submit(r)
      BY <1>3, <2>3 DEF Submit, Label
    <2>4. CASE DeleteItem(r)
      BY <1>4, <2>4 DEF DeleteItem, Label
    <2>5. CASE SignConsent(r) \/ Intake(r) \/ SelfDeleteSealed(r) \/ SelfDelete(r)
               \/ AdminDelete(r) \/ Purge(r) \/ AddItems(r) \/ DeleteScale(r)
      BY <2>5 DEF SignConsent, Intake, SelfDeleteSealed, SelfDelete, AdminDelete,
                  Purge, AddItems, DeleteScale, Label
    <2>6. QED
      BY <1>4, <2>1, <2>2, <2>3, <2>4, <2>5 DEF Arrive
  <1>5. ASSUME NEW r \in Slot, Continue(r), ~DropScaleRow(r)
        PROVE  \E label \in Others : \E local : Goto(r, label, local)
    <2>1. CASE Submission(r)
      BY <1>3, <2>1 DEF Submission, LinkConsent, AddParticipant, LookupItem,
         ResolveScale, InsertResponse, AnswerSubmit, Label
    <2>2. CASE Signing(r) \/ Sealing(r)
      BY <1>3, <2>2 DEF Signing, InsertConsent, AnswerConsent, Sealing,
         InsertSealed, DeleteE2EEResponse, Label
    <2>3. CASE Erasure(r)
      BY <1>3, <2>3 DEF Erasure, Recheck, EraseResponses, EraseParticipant,
         Anonymize, AnswerErase, Label
    <2>4. CASE Purging(r) \/ Editing(r)
      BY <1>3, <1>5, <2>4 DEF Purging, PurgeResponses, PurgeSealed, PurgeConsents,
         AnswerPurge, Editing, InsertNextItem, AnswerAddItems, AnswerDeleteScale,
         DeleteItemResponses, Label
    <2>5. QED BY <1>5, <2>1, <2>2, <2>3, <2>4 DEF Continue
  <1>6. ASSUME NEW r \in Slot, DropScaleRow(r)
        PROVE  /\ loc'[q] = loc[q]
               /\ pc[q] = "auditDrop" \/ \E fk \in FkModes : DropScale(loc[q].scale, fk)
    <2>1. CASE Finish(r)
      BY <1>2, <1>3, <2>1
    <2>2. CASE ~Finish(r)
      <3>1. Goto(r, "auditDrop", loc[r]) /\ \E fk \in FkModes : DropScale(loc[r].scale, fk)
        BY <1>6, <2>2 DEF DropScaleRow
      <3>2. /\ loc'[r] = loc[r]
            /\ \A x \in Slot \ {r} : pc'[x] = pc[x] /\ loc'[x] = loc[x]
        BY <3>1, GotoSlots DEF TypeOK
      <3>3. QED
        BY <3>1, <3>2
    <2>3. QED BY <2>1, <2>2
  <1>7. QED
    BY <1>1, <1>2, <1>4, <1>5, <1>6 DEF Next, vars

(* The documentation's statement that a scale is deleted with its responses *)
(* is true of connections that enforce foreign keys: it is the pool that    *)
(* breaks it.                                                               *)
THEOREM ScalesGoWithResponses ==
    ASSUME FkModes = {TRUE}
    PROVE  Spec => []DeletedScaleIsEmpty
  <1>1. Init => DeletedScaleIsEmpty
    BY DEF Init, DeletedScaleIsEmpty
  <1>2. TypeOK /\ Provenance /\ DeletedScaleIsEmpty /\ [Next]_vars
          => DeletedScaleIsEmpty'
    <2> SUFFICES ASSUME TypeOK, Provenance, DeletedScaleIsEmpty, [Next]_vars,
                        NEW q \in Slot, pc'[q] = "auditDrop",
                        NEW row \in responses', row.scale = loc'[q].scale
                 PROVE  row.pid \notin loc'[q].before
      BY DEF DeletedScaleIsEmpty
    <2>1. loc'[q] = loc[q]
      BY Dropped
    <2>2. CASE \E fk \in FkModes : DropScale(loc[q].scale, fk)
      BY <2>1, <2>2 DEF DropScale
    <2>3. CASE pc[q] = "auditDrop"
      <3>1. CASE row \in responses
        BY <2>1, <2>3, <3>1 DEF DeletedScaleIsEmpty
      <3>2. CASE row \notin responses
        <4>1. row.pid \notin known
          BY <3>2, NewResponse DEF Provenance, Submitting
        <4>2. QED
          BY <2>1, <4>1 DEF Provenance
      <3>3. QED BY <3>1, <3>2
    <2>4. QED
      BY <2>2, <2>3, Dropped
  <1>3. QED
    BY <1>1, <1>2, TypeCorrect, ProvenanceHolds, PTL DEF Spec

-----------------------------------------------------------------------------
(* The requests implement Participation.                                    *)

(* Nobody's life goes on, nothing is reported to anyone, and no answer is   *)
(* added.                                                                   *)
Aside ==
    /\ \A p \in Participant :
          Life(p)' = Life(p) /\ (p \in known' <=> p \in known)
    /\ responses' \subseteq responses
    /\ erased' = erased

(* Such a step loses answers at most. *)
LEMMA AsideLoses ==
    ASSUME Aside
    PROVE  Promise!Next
  <1>1. /\ [p \in Participant |-> Life(p)]' = [p \in Participant |-> Life(p)]
        /\ (known \cap Participant)' = known \cap Participant
        /\ {<<row.pid, row.item>> : row \in responses'}
              \subseteq {<<row.pid, row.item>> : row \in responses}
        /\ erased' = erased
    BY DEF Aside
  <1>2. Promise!Lose
    BY <1>1 DEF Promise!Lose
  <1>3. QED
    BY <1>2 DEF Promise!Next

(* A request that neither takes an id nor inserts its row. *)
LEMMA QuietLife ==
    ASSUME TypeOK, NEW r \in Slot, NEW label, NEW local, Goto(r, label, local),
           Pending(r) <=> label \in {"linkConsent", "insertParticipant"},
           Pending(r) => local.id = loc[r].id,
           Ids(participants)' = Ids(participants),
           \A p \in Participant : mintedFor'[p] = mintedFor[p]
    PROVE  \A p \in Participant : Life(p)' = Life(p)
  <1>1. /\ pc'[r] = label /\ loc'[r] = local
        /\ \A q \in Slot \ {r} : pc'[q] = pc[q] /\ loc'[q] = loc[q]
    BY GotoSlots DEF TypeOK
  <1>2. \A q \in Slot : /\ Pending(q)' <=> Pending(q)
                        /\ Pending(q) => loc'[q].id = loc[q].id
    BY <1>1 DEF Pending
  <1>3. QED
    BY <1>2 DEF Life

(* The requests that have nothing to do with participants. *)
LEMMA OtherAside ==
    ASSUME WritesFail = FALSE, TypeOK, NEW r \in Slot,
           Signing(r) \/ Sealing(r) \/ Purging(r) \/ Editing(r)
    PROVE  Aside
  <1>1. Ready(pc[r], loc[r])
    BY DEF TypeOK, SlotsOK
  <1>2. /\ Ids(participants)' = Ids(participants)
        /\ responses' \subseteq responses
        /\ erased' = erased /\ mintedFor' = mintedFor
    <2>1. CASE Signing(r) \/ Sealing(r)
      BY <2>1 DEF Signing, InsertConsent, AnswerConsent, Sealing, InsertSealed,
                  DeleteE2EEResponse, Write, UpsertConsent, UpsertSealed,
                  DropSealed, tables, Ids
    <2>2. CASE Purging(r)
      BY <2>2 DEF Purging, PurgeResponses, PurgeSealed, PurgeConsents, AnswerPurge,
                  Write, DropResponses, DropSealed, DropConsentsOf, tables, Ids
    <2>3. CASE Editing(r)
      BY <2>3 DEF Editing, InsertNextItem, AnswerAddItems, DropScaleRow,
                  AnswerDeleteScale, DeleteItemResponses, Write, InsertItem,
                  DropScale, DropResponses, tables, Ids
    <2>4. QED BY <2>1, <2>2, <2>3
  <1>3. \A p \in Participant : p \in known' <=> p \in known
    <2>1. \/ known' = known
          \/ known' = known \cup {loc[r].id} /\ loc[r].id \in Consent \cup Sealed
      BY <1>1
         DEF Signing, InsertConsent, AnswerConsent, Sealing, InsertSealed,
             DeleteE2EEResponse, Ready, Purging, PurgeResponses, PurgeSealed,
             PurgeConsents, AnswerPurge, Editing, InsertNextItem, AnswerAddItems,
             DropScaleRow, AnswerDeleteScale, DeleteItemResponses
    <2>2. QED
      BY <2>1, StoreAssumption
  <1> DEFINE After == {"idle", "answerConsent", "purgeSealed", "purgeConsents",
                       "auditPurge", "auditDrop", "insertItem"}
  <1>4. PICK label \in After : \E local : Goto(r, label, local)
    BY DEF Signing, InsertConsent, AnswerConsent, Sealing, InsertSealed,
           DeleteE2EEResponse, Purging, PurgeResponses, PurgeSealed, PurgeConsents,
           AnswerPurge, Editing, InsertNextItem, AnswerAddItems, DropScaleRow,
           AnswerDeleteScale, DeleteItemResponses, Finish
  <1>5. ~Pending(r)
    BY DEF Signing, InsertConsent, AnswerConsent, Sealing, InsertSealed,
           DeleteE2EEResponse, Purging, PurgeResponses, PurgeSealed, PurgeConsents,
           AnswerPurge, Editing, InsertNextItem, AnswerAddItems, DropScaleRow,
           AnswerDeleteScale, DeleteItemResponses, Pending
  <1>6. \A p \in Participant : Life(p)' = Life(p)
    BY <1>2, <1>4, <1>5, QuietLife
  <1>7. QED
    BY <1>2, <1>3, <1>6 DEF Aside

(* Requests that arrive; a submission that is accepted takes an id whose    *)
(* participant is expected before and after.                                *)
LEMMA ArriveAside ==
    ASSUME WritesFail = FALSE, TypeOK, Provenance, NEW r \in Slot, Arrive(r)
    PROVE  Aside
  <1>1. /\ Ids(participants)' = Ids(participants) /\ responses' \subseteq responses
        /\ known' = known /\ erased' = erased
    BY DEF Arrive, OpenForm, Submit, SignConsent, Intake, SelfDeleteSealed,
           SelfDelete, AdminDelete, Purge, CreateScale, AddItems, DeleteScale,
           DeleteItem, Write, InsertScale, DropItem, tables, Ids
  <1>2. CASE UNCHANGED <<pc, loc, mintedFor>>
    BY <1>1, <1>2 DEF Aside, Life, Pending
  <1> DEFINE Accepts(p) ==
                /\ mintedFor' = [mintedFor EXCEPT ![p] = loc[r].scale]
                /\ Goto(r, IF loc[r].consent = NULL THEN "insertParticipant"
                           ELSE "linkConsent", [loc[r] EXCEPT !.id = p])
  <1>3. CASE Submit(r) /\ \E p \in Fresh(Participant) : Accepts(p)
    <2>1. PICK p \in Fresh(Participant) : Accepts(p)
      BY <1>3
    <2>2. /\ pc'[r] \in {"linkConsent", "insertParticipant"}
          /\ loc'[r] = [loc[r] EXCEPT !.id = p]
          /\ \A q \in Slot \ {r} : pc'[q] = pc[q] /\ loc'[q] = loc[q]
      BY <2>1, GotoSlots DEF TypeOK
    <2>3. loc'[r].id = p /\ Pending(r)' /\ pc[r] = "form"
      BY <1>3, <2>2 DEF Pending, TypeOK, SlotsOK, Local, Submit
    <2>4. p \in Participant /\ mintedFor[p] = NULL /\ p \notin Ids(participants)
      BY <2>1 DEF Fresh, Provenance, Unused
    <2>5. \A x \in Participant \ {p} : mintedFor'[x] = mintedFor[x]
      BY <2>1 DEF TypeOK, Generated, Minted
    <2>6. Life(p) = "expected" /\ Life(p)' = "expected"
      BY <1>1, <2>3, <2>4 DEF Life
    <2>7. ASSUME NEW x \in Participant \ {p}
          PROVE  Life(x)' = Life(x)
      <3>1. (\E q \in Slot : Pending(q) /\ loc[q].id = x)'
               <=> \E q \in Slot : Pending(q) /\ loc[q].id = x
        BY <2>2, <2>3 DEF Pending
      <3>2. QED
        BY <1>1, <2>5, <3>1 DEF Life
    <2>8. QED
      BY <1>1, <2>6, <2>7 DEF Aside
  <1>4. ASSUME ~UNCHANGED <<pc, loc, mintedFor>>,
               ~(Submit(r) /\ \E p \in Fresh(Participant) : Accepts(p))
        PROVE  Aside
    <2> DEFINE Quiet == {"idle", "form", "insertConsent", "insertSealed", "recheck",
                         "dropSealed", "purgeResponses", "insertItem", "dropScale",
                         "dropItemResponses"}
    <2>1. PICK label \in Quiet : \E local : Goto(r, label, local)
      <3>1. OpenForm(r) => \E local : Goto(r, "form", local)
        BY DEF OpenForm
      <3>2. SignConsent(r) => \E local : Goto(r, "insertConsent", local)
        BY DEF SignConsent
      <3>3. Intake(r) => \E local : Goto(r, "insertSealed", local)
        BY DEF Intake
      <3>4. SelfDeleteSealed(r) => \E local : Goto(r, "dropSealed", local)
        BY DEF SelfDeleteSealed
      <3>5. SelfDelete(r) \/ AdminDelete(r) => \E local : Goto(r, "recheck", local)
        BY DEF SelfDelete, AdminDelete
      <3>6. Purge(r) => \E local : Goto(r, "purgeResponses", local)
        BY DEF Purge
      <3>7. AddItems(r) => \E local : Goto(r, "insertItem", local)
        BY DEF AddItems
      <3>8. DeleteScale(r) => \E local : Goto(r, "dropScale", local)
        BY DEF DeleteScale
      <3>9. DeleteItem(r) => \E local : Goto(r, "dropItemResponses", local)
        BY <1>4 DEF DeleteItem
      <3>10. Submit(r) => Goto(r, "idle", Blank)
        BY <1>4 DEF Submit, Finish
      <3>11. ~CreateScale(r)
        BY <1>4 DEF CreateScale
      <3>12. QED
        BY <3>1, <3>2, <3>3, <3>4, <3>5, <3>6, <3>7, <3>8, <3>9, <3>10, <3>11
           DEF Arrive
    <2>2. ~Pending(r)
      BY <1>4 DEF Arrive, OpenForm, Submit, SignConsent, Intake, SelfDeleteSealed,
                  SelfDelete, AdminDelete, Purge, CreateScale, AddItems, DeleteScale,
                  DeleteItem, Start, Pending
    <2>3. \A p \in Participant : mintedFor'[p] = mintedFor[p]
      <3>1. ASSUME NEW c \in Consent \cup Sealed, NEW s,
                   mintedFor' = [mintedFor EXCEPT ![c] = s]
            PROVE  \A p \in Participant : mintedFor'[p] = mintedFor[p]
        BY <3>1, StoreAssumption DEF TypeOK, Generated, Minted
      <3>2. CASE SignConsent(r) \/ Intake(r)
        BY <3>1, <3>2 DEF SignConsent, Intake, Fresh
      <3>3. CASE UNCHANGED mintedFor
        BY <3>3
      <3>4. QED
        BY <1>4, <3>2, <3>3
           DEF Arrive, OpenForm, Submit, SelfDeleteSealed, SelfDelete, AdminDelete,
               Purge, CreateScale, AddItems, DeleteScale, DeleteItem
    <2>4. \A p \in Participant : Life(p)' = Life(p)
      BY <1>1, <2>1, <2>2, <2>3, QuietLife
    <2>5. QED
      BY <1>1, <2>4 DEF Aside
  <1>5. QED
    BY <1>2, <1>3, <1>4

(* Whose id a request has that is past its insertion is no longer expected. *)
LEMMA PastExpected ==
    ASSUME Provenance, NEW r \in Slot, NEW p \in Participant, Concerns(r, p),
           ~Pending(r)
    PROVE  /\ Life(p) # "expected"
           /\ p \notin Ids(participants) => Life(p) = "left"
  <1>1. mintedFor[p] # NULL
    BY DEF Provenance
  <1>2. \A q \in Slot : Pending(q) => loc[q].id # p
    BY DEF Provenance
  <1>3. QED
    BY <1>1, <1>2 DEF Life

(* A submission registers its participant, records its answers and tells    *)
(* the respondent.                                                          *)
LEMMA SubmissionPromise ==
    ASSUME WritesFail = FALSE, TypeOK, Provenance, NEW r \in Slot, Submission(r)
    PROVE  Promise!Next
  <1>1. /\ loc[r] \in Local /\ Ready(pc[r], loc[r]) /\ pc[r] \in ForParticipant
        /\ Submitting(r)
    BY DEF TypeOK, SlotsOK, Submission, LinkConsent, AddParticipant, LookupItem,
           ResolveScale, InsertResponse, AnswerSubmit, Storing, ForParticipant,
           Submitting, Pending
  <1>2. PICK p \in Participant : p = loc[r].id /\ Concerns(r, p) /\ p \notin known
    BY <1>1 DEF Ready, Concerns, Provenance
  <1>3. CASE LinkConsent(r)
    <2>1. PICK local \in {loc[r], [loc[r] EXCEPT !.consent = NULL]} :
            Goto(r, "insertParticipant", local)
      BY <1>3 DEF LinkConsent
    <2>2. local.id = loc[r].id
      BY <1>1 DEF Local
    <2>3. /\ UNCHANGED <<tables, mintedFor, known, erased>> /\ Pending(r)
          /\ Ids(participants)' = Ids(participants)
      BY <1>3 DEF LinkConsent, Pending, tables, Ids
    <2>4. \A x \in Participant : Life(x)' = Life(x)
      BY <2>1, <2>2, <2>3, QuietLife
    <2>5. QED
      BY <2>3, <2>4, AsideLoses DEF Aside, tables
  <1>4. CASE AddParticipant(r)
    <2>1. Pending(r) /\ p \notin Ids(participants)
      BY <1>2, <1>4 DEF AddParticipant, Pending, Provenance, Unused
    <2>2. /\ Ids(participants)' = Ids(participants) \cup {p}
          /\ responses' = responses /\ UNCHANGED <<mintedFor, known, erased>>
      <3>1. PICK row : /\ row = [id |-> p, email |-> loc[r].email,
                                 consent |-> loc[r].consent]
                       /\ InsertParticipant(row)
                       /\ UNCHANGED <<mintedFor, known, erased>>
        BY <1>2, <1>4 DEF AddParticipant, Write
      <3>2. row.id = p
        BY <3>1
      <3>3. participants' = participants \cup {row} /\ responses' = responses
        BY <2>1, <3>1, <3>2 DEF InsertParticipant
      <3>4. QED
        BY <3>1, <3>2, <3>3 DEF Ids
    <2>3. /\ pc'[r] = "lookup"
          /\ \A q \in Slot \ {r} : pc'[q] = pc[q] /\ loc'[q] = loc[q]
      BY <1>4, GotoSlots DEF AddParticipant, TypeOK
    <2>4. Life(p) = "expected" /\ Life(p)' = "registered"
      BY <1>2, <2>1, <2>2 DEF Life
    <2>5. ASSUME NEW x \in Participant \ {p}
          PROVE  Life(x)' = Life(x)
      <3>1. (\E q \in Slot : Pending(q) /\ loc[q].id = x)'
               <=> \E q \in Slot : Pending(q) /\ loc[q].id = x
        BY <1>2, <2>3 DEF Pending
      <3>2. QED
        BY <2>2, <3>1 DEF Life
    <2>6. [x \in Participant |-> Life(x)]'
            = [[x \in Participant |-> Life(x)] EXCEPT ![p] = "registered"]
      BY <1>2, <2>4, <2>5
    <2>7. Promise!Register(p)
      BY <1>2, <2>2, <2>4, <2>6 DEF Promise!Register
    <2>8. QED
      BY <1>2, <2>7 DEF Promise!Next
  <1>5. CASE LookupItem(r) \/ ResolveScale(r)
    <2>1. /\ UNCHANGED <<tables, mintedFor, known, erased>> /\ ~Pending(r)
          /\ Ids(participants)' = Ids(participants)
          /\ \E label \in {"lookup", "store"} : \E local : Goto(r, label, local)
      BY <1>5 DEF LookupItem, ResolveScale, Storing, Pending, tables, Ids
    <2>2. \A x \in Participant : Life(x)' = Life(x)
      BY <2>1, QuietLife
    <2>3. QED
      BY <2>1, <2>2, AsideLoses DEF Aside, tables
  <1>6. CASE InsertResponse(r)
    <2>1. PICK row \in loc[r].rows, fk \in FkModes :
            UpsertResponse([pid |-> p, item |-> row.id, scale |-> row.scale], fk)
      BY <1>2, <1>6 DEF InsertResponse, Write
    <2>2. /\ participants' = participants /\ UNCHANGED <<mintedFor, known, erased>>
          /\ ~Pending(r) /\ row \in ItemRow
          /\ \E local : Goto(r, "store", local)
      BY <1>1, <1>6, <2>1
         DEF InsertResponse, UpsertResponse, Storing, Pending, Local
    <2>3. \A x \in Participant : Life(x)' = Life(x)
      BY <2>2, QuietLife DEF Ids
    <2>4. CASE responses' = responses
      BY <2>2, <2>3, <2>4, AsideLoses DEF Aside
    <2>5. CASE responses' # responses
      <3> DEFINE new == [pid |-> p, item |-> row.id, scale |-> row.scale]
      <3>0. new.pid = p /\ new.item = row.id
        OBVIOUS
      <3> HIDE DEF new
      <3>1. /\ responses' = responses \cup {new}
            /\ fk => p \in Ids(participants)
        BY <2>1, <2>5, <3>0 DEF UpsertResponse, HasParents, new
      <3>2. {<<x.pid, x.item>> : x \in responses'}
              = {<<x.pid, x.item>> : x \in responses} \cup {<<p, row.id>>}
        BY <3>0, <3>1
      <3>3. Life(p) # "expected" /\ (FkModes = {TRUE} => Life(p) = "registered")
        <4>1. Life(p) # "expected"
          BY <1>2, <2>2, PastExpected
        <4>2. FkModes = {TRUE} => p \in Ids(participants)
          BY <3>1
        <4>3. QED
          BY <4>1, <4>2 DEF Life
      <3>4. row.id \in Item
        BY <2>2 DEF ItemRow
      <3>5. [x \in Participant |-> Life(x)]' = [x \in Participant |-> Life(x)]
        BY <2>3
      <3>6. Promise!Record(p)
        BY <1>2, <2>2, <3>2, <3>3, <3>4, <3>5 DEF Promise!Record
      <3>7. QED
        BY <1>2, <3>6 DEF Promise!Next
    <2>6. QED
      BY <2>4, <2>5
  <1>7. CASE AnswerSubmit(r)
    <2>1. /\ UNCHANGED <<tables, mintedFor, erased>> /\ ~Pending(r)
          /\ Ids(participants)' = Ids(participants) /\ known' = known \cup {p}
          /\ Goto(r, "idle", Blank)
      BY <1>2, <1>7 DEF AnswerSubmit, Finish, Pending, tables, Ids
    <2>2. \A x \in Participant : Life(x)' = Life(x)
      BY <2>1, QuietLife
    <2>3. [x \in Participant |-> Life(x)]' = [x \in Participant |-> Life(x)]
      BY <2>2
    <2>4. Life(p) # "expected"
      BY <1>2, <2>1, PastExpected
    <2>5. Promise!Tell(p)
      BY <1>2, <2>1, <2>3, <2>4 DEF Promise!Tell, tables
    <2>6. QED
      BY <1>2, <2>5 DEF Promise!Next
  <1>8. QED
    BY <1>3, <1>4, <1>5, <1>6, <1>7 DEF Submission

(* A hard delete lets its participant leave, and reports it as forgotten    *)
(* when it is.                                                              *)
LEMMA ErasurePromise ==
    ASSUME WritesFail = FALSE, TypeOK, Provenance, AnsweredErasure, RowErased,
           ReferentialIntegrity, NEW r \in Slot, Erasure(r)
    PROVE  Promise!Next
  <1>1. /\ Ready(pc[r], loc[r]) /\ pc[r] \in ForParticipant /\ ~Pending(r)
    BY DEF TypeOK, SlotsOK, Erasure, Recheck, EraseResponses, EraseParticipant,
           Anonymize, AnswerErase, ForParticipant, Pending
  <1>2. PICK p \in Participant : p = loc[r].id /\ Concerns(r, p)
    BY <1>1 DEF Ready, Concerns
  <1> DEFINE After == {"idle", "eraseResponses", "eraseParticipant", "blankEmail",
                       "auditErase"}
  <1>3. PICK label \in After : \E local : Goto(r, label, local)
    BY DEF Erasure, Recheck, EraseResponses, EraseParticipant, Anonymize, AnswerErase,
           Finish
  <1>4. UNCHANGED mintedFor /\ UNCHANGED known
    BY DEF Erasure, Recheck, EraseResponses, EraseParticipant, Anonymize, AnswerErase
  <1>5. Ids(participants)' = Ids(participants) =>
           \A x \in Participant : Life(x)' = Life(x)
    BY <1>1, <1>3, <1>4, QuietLife
  <1>6. CASE Recheck(r) \/ EraseResponses(r) \/ Anonymize(r)
    <2>1. responses' \subseteq responses /\ erased' = erased
      BY <1>6 DEF Recheck, EraseResponses, Anonymize, Write, DropResponses,
                  BlankEmail, tables
    <2>2. Ids(participants)' = Ids(participants)
      <3>1. CASE Anonymize(r)
        BY <3>1, BlankIds DEF Anonymize, TypeOK, tables, Ids
      <3>2. CASE ~Anonymize(r)
        BY <1>6, <3>2 DEF Recheck, EraseResponses, Write, DropResponses, tables, Ids
      <3>3. QED
        BY <3>1, <3>2
    <2>3. QED
      BY <1>4, <1>5, <2>1, <2>2, AsideLoses DEF Aside
  <1>7. CASE EraseParticipant(r)
    <2>1. PICK fk \in FkModes : DropParticipant(p, fk)
      BY <1>2, <1>7 DEF EraseParticipant, Write
    <2>2. erased' = erased
      BY <1>7 DEF EraseParticipant
    <2>3. Ids(participants)' = Ids(participants) \ {p}
      BY <2>1 DEF DropParticipant, Ids
    <2>4. responses' = IF fk THEN {row \in responses : row.pid # p} ELSE responses
      BY <2>1 DEF DropParticipant
    <2>5. CASE p \notin Ids(participants)
      BY <1>4, <1>5, <2>2, <2>3, <2>4, <2>5, AsideLoses DEF Aside
    <2>6. CASE p \in Ids(participants)
      <3>1. /\ pc'[r] \in After
            /\ \A q \in Slot \ {r} : pc'[q] = pc[q] /\ loc'[q] = loc[q]
        BY <1>3, GotoSlots DEF TypeOK
      <3>2. \A q \in Slot : /\ Pending(q)' <=> Pending(q)
                            /\ Pending(q) => loc'[q].id = loc[q].id
        BY <1>1, <3>1 DEF Pending
      <3>3. \A x \in Participant \ {p} : Life(x)' = Life(x)
        BY <1>4, <2>3, <3>2 DEF Life
      <3>4. Life(p) = "registered" /\ Life(p)' = "left"
        <4>1. mintedFor[p] # NULL /\ \A q \in Slot : Pending(q) => loc[q].id # p
          BY <1>1, <1>2 DEF Provenance
        <4>2. QED
          BY <1>4, <2>3, <2>6, <3>2, <4>1 DEF Life
      <3>5. [x \in Participant |-> Life(x)]'
              = [[x \in Participant |-> Life(x)] EXCEPT ![p] = "left"]
        BY <3>3, <3>4
      <3> DEFINE Answers == {<<row.pid, row.item>> : row \in responses}
      <3>6. fk => Answers' = Answers \ (Answers \cap ({p} \X Item))
        <4>1. \A row \in responses : row.item \in Item
          BY DEF TypeOK, TablesOK, ResponseRow
        <4>2. QED
          BY <2>4, <4>1
      <3>7. ~fk => Answers' = Answers
        BY <2>4
      <3>8. FkModes = {TRUE} => fk
        BY <2>1
      <3>9. Promise!Leave(p)
        BY <1>2, <1>4, <2>2, <3>4, <3>5, <3>6, <3>7, <3>8
           DEF Promise!Leave, Promise!AnswersOf
      <3>10. QED
        BY <1>2, <3>9 DEF Promise!Next
    <2>7. QED
      BY <2>5, <2>6
  <1>8. CASE AnswerErase(r)
    <2>1. PICK e : /\ e = [id |-> p, hard |-> loc[r].hard,
                           answered |-> p \in loc[r].before]
                   /\ erased' = erased \cup {e}
      BY <1>2, <1>8 DEF AnswerErase
    <2>2. e.id = p /\ e.hard = loc[r].hard /\ e.answered = (p \in loc[r].before)
      BY <2>1
    <2>3. /\ UNCHANGED tables /\ pc[r] = "auditErase"
          /\ Ids(participants)' = Ids(participants)
      BY <1>8 DEF AnswerErase, tables, Ids
    <2>4. [x \in Participant |-> Life(x)]' = [x \in Participant |-> Life(x)]
      BY <1>5, <2>3
    <2> DEFINE Counts(x) == x.hard /\ (FkModes = {TRUE} \/ x.answered)
               Forgotten == {x.id : x \in {y \in erased : Counts(y)}}
    <2>5. CASE ~Counts(e)
      <3>1. Forgotten' = Forgotten
        BY <2>1, <2>5
      <3>2. Promise!Lose
        BY <1>4, <2>3, <2>4, <3>1 DEF Promise!Lose, tables
      <3>3. QED
        BY <3>2 DEF Promise!Next
    <2>6. CASE Counts(e)
      <3>1. Forgotten' = Forgotten \cup {p}
        BY <2>1, <2>2, <2>6
      <3>2. Gone(p)
        <4>1. CASE e.answered
          BY <1>2, <2>2, <2>3, <2>6, <4>1 DEF AnsweredErasure
        <4>2. CASE FkModes = {TRUE}
          BY <1>2, <2>2, <2>3, <2>6, <4>2
             DEF RowErased, ReferentialIntegrity, Referenced, HasParents, Gone
        <4>3. QED
          BY <2>6, <4>1, <4>2
      <3>3. Life(p) = "left"
        BY <1>1, <1>2, <3>2, PastExpected DEF Gone
      <3>4. {<<row.pid, row.item>> : row \in responses} \cap ({p} \X Item) = {}
        BY <3>2 DEF Gone
      <3>5. FkModes = {TRUE} \/ p \in known
        BY <1>2, <2>2, <2>6 DEF Provenance
      <3>6. Promise!Forget(p)
        BY <1>2, <1>4, <2>3, <2>4, <3>1, <3>3, <3>4, <3>5
           DEF Promise!Forget, Promise!AnswersOf, tables
      <3>7. QED
        BY <1>2, <3>6 DEF Promise!Next
    <2>7. QED
      BY <2>5, <2>6
  <1>9. QED
    BY <1>6, <1>7, <1>8 DEF Erasure

(* When no write fails, the requests keep what Participation promises: a    *)
(* participant's answers come between its registration and the moment its   *)
(* respondent knows it, only dwindle from then on, and are gone for good    *)
(* when a hard delete that counts is answered.                              *)
THEOREM DataPromiseKept ==
    ASSUME WritesFail = FALSE
    PROVE  Spec => DataPromise
  <1>1. Init => AnsweredErasure /\ RowErased
    BY DEF Init, AnsweredErasure, AnsweredErasedIsGone, RowErased
  <1>2. Init => Promise!Init
    <2> SUFFICES ASSUME Init PROVE Promise!Init
      OBVIOUS
    <2>1. \A p \in Participant : Life(p) = "expected"
      BY DEF Init, Life, Ids, Generated, Minted
    <2>2. /\ {<<row.pid, row.item>> : row \in responses} = {}
          /\ known \cap Participant = {}
          /\ erased = {}
      BY DEF Init
    <2>3. QED
      BY <2>1, <2>2 DEF Promise!Init
  <1>3. /\ TypeOK /\ Provenance /\ AnsweredErasure /\ [Next]_vars => AnsweredErasure'
        /\ TypeOK /\ Provenance /\ RowErased /\ [Next]_vars => RowErased'
    BY AnsweredErasureStep, RowErasedStep
  <1>4. TypeOK /\ Provenance /\ AnsweredErasure /\ RowErased /\ ReferentialIntegrity
          /\ [Next]_vars => [Promise!Next]_(Promise!vars)
    <2> SUFFICES ASSUME TypeOK, Provenance, AnsweredErasure, RowErased,
                        ReferentialIntegrity, [Next]_vars
                 PROVE  [Promise!Next]_(Promise!vars)
      OBVIOUS
    <2>1. CASE UNCHANGED vars
      BY <2>1, AsideLoses DEF vars, tables, Aside, Life, Ids, Pending
    <2>2. ASSUME NEW r \in Slot, Arrive(r) \/ Continue(r)
          PROVE  Promise!Next
      BY <2>2, ArriveAside, OtherAside, AsideLoses, SubmissionPromise, ErasurePromise
         DEF Continue
    <2>3. QED
      BY <2>1, <2>2 DEF Next
  <1>5. QED
    BY <1>1, <1>2, <1>3, <1>4, TypeCorrect, ProvenanceHolds, ReferencesHold,
       PTL DEF Spec, DataPromise, Promise!Spec

(* What is promised is enough: in Participation nobody who was reported as  *)
(* forgotten is registered again or has an answer recorded.                 *)
THEOREM PromiseForgets == DataPromise => []Promise!ForgottenForEver
  <1>1. Promise!Init => Promise!ForgottenForEver
    BY DEF Promise!Init, Promise!ForgottenForEver
  <1>2. Promise!ForgottenForEver /\ [Promise!Next]_(Promise!vars)
          => Promise!ForgottenForEver'
    <2> SUFFICES ASSUME Promise!ForgottenForEver, [Promise!Next]_(Promise!vars)
                 PROVE  Promise!ForgottenForEver'
      OBVIOUS
    <2>1. CASE UNCHANGED Promise!vars
      BY <2>1 DEF Promise!vars, Promise!ForgottenForEver, Promise!AnswersOf
    <2>2. CASE Promise!Lose
      BY <2>2 DEF Promise!Lose, Promise!ForgottenForEver, Promise!AnswersOf
    <2>3. ASSUME NEW p \in Participant, Promise!Register(p)
          PROVE  Promise!ForgottenForEver'
      BY <2>3 DEF Promise!Register, Promise!ForgottenForEver, Promise!AnswersOf
    <2>4. ASSUME NEW p \in Participant, Promise!Record(p)
          PROVE  Promise!ForgottenForEver'
      <3> DEFINE Answers == {<<row.pid, row.item>> : row \in responses}
                 Forgotten == {e.id : e \in {x \in erased :
                                 x.hard /\ (FkModes = {TRUE} \/ x.answered)}}
                 Lives == [x \in Participant |-> Life(x)]
      <3>1. PICK i \in Item : Answers' = Answers \cup {<<p, i>>}
        BY <2>4 DEF Promise!Record
      <3>2. /\ Lives' = Lives /\ Forgotten' = Forgotten
            /\ (known \cap Participant)' = known \cap Participant
        BY <2>4 DEF Promise!Record
      <3>3. p \notin Forgotten
        BY <2>4 DEF Promise!Record, Promise!ForgottenForEver
      <3>4. \A q \in Forgotten : Answers' \cap ({q} \X Item) = {}
        <4>1. \A q \in Forgotten : Answers \cap ({q} \X Item) = {}
          BY DEF Promise!ForgottenForEver, Promise!AnswersOf
        <4> HIDE DEF Answers, Forgotten
        <4>2. QED
          BY <3>1, <3>3, <4>1
      <3>5. QED
        BY <3>2, <3>4 DEF Promise!ForgottenForEver, Promise!AnswersOf
    <2>5. ASSUME NEW p \in Participant, Promise!Tell(p)
          PROVE  Promise!ForgottenForEver'
      BY <2>5 DEF Promise!Tell, Promise!ForgottenForEver, Promise!AnswersOf
    <2>6. ASSUME NEW p \in Participant, Promise!Leave(p)
          PROVE  Promise!ForgottenForEver'
      BY <2>6 DEF Promise!Leave, Promise!ForgottenForEver, Promise!AnswersOf
    <2>7. ASSUME NEW p \in Participant, Promise!Forget(p)
          PROVE  Promise!ForgottenForEver'
      BY <2>7 DEF Promise!Forget, Promise!ForgottenForEver, Promise!AnswersOf
    <2>8. QED
      BY <2>1, <2>2, <2>3, <2>4, <2>5, <2>6, <2>7 DEF Promise!Next
  <1>3. QED
    BY <1>1, <1>2, PTL DEF DataPromise, Promise!Spec
=============================================================================
