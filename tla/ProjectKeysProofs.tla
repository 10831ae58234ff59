------------------------- MODULE ProjectKeysProofs -------------------------
(* Theorems about ProjectKeys, for every value of its constants.            *)
EXTENDS ProjectKeys, TLAPS

-----------------------------------------------------------------------------
(* Why they hold: inductive invariants.                                     *)

(* Generated scales do not come back, whatever was deleted.                 *)
Provenance ==
    /\ scales \subseteq used
    /\ \A p \in announced : p.scale \in used
    /\ \A t \in Tab : tab[t].scale # NULL => tab[t].scale \in used

(* What a re-wrap is about to write back holds what the row has to keep.    *)
Keeping ==
    /\ EnvelopesKept
    /\ \A w \in Rewrap, row \in sealed :
          Holds(w, row.id) => row.kept \subseteq rewrap[w].encDEK

Written(p) == p \in projectKeys \/ p.scale \in unwritten

Project(t) == [scale |-> tab[t].scale, key |-> tab[t].key]

Creating(t) ==
    tab[t].at = "reply" /\ tab[t].page = "create" /\ tab[t].scale \in scales

(* Once the INSERT ran, the key of a project that still exists is there, or *)
(* the INSERT failed.                                                       *)
Creation ==
    /\ AnnouncedIsUsable
    /\ \A t \in Tab :
        /\ tab[t].pasted => tab[t].key \in files
        /\ Creating(t) => Written(Project(t))

-----------------------------------------------------------------------------
(* Pages *)

LEMMA BlankPages ==
    /\ ClosedTab \in TabState /\ TabReady(ClosedTab)
    /\ ClosedForm \in FormState /\ FormReady(ClosedForm)
    /\ NoRewrap \in RewrapState /\ RewrapReady(NoRewrap)
  BY DEF ClosedTab, TabState, TabReady, ClosedForm, FormState, FormReady,
     NoRewrap, RewrapState, RewrapReady

LEMMA TabStep ==
    ASSUME PagesOK, NEW t \in Tab, NEW s \in TabState, TabReady(s),
           SetTab(t, s), UNCHANGED <<form, rewrap>>
    PROVE  PagesOK'
  BY DEF PagesOK, SetTab

LEMMA TabValue ==
    ASSUME PagesOK, NEW t \in Tab, NEW s, SetTab(t, s)
    PROVE  tab'[t] = s /\ \A u \in Tab : u # t => tab'[u] = tab[u]
  BY DEF PagesOK, SetTab

LEMMA RewrapValue ==
    ASSUME PagesOK, NEW w \in Rewrap, NEW s, SetRewrap(w, s)
    PROVE  rewrap'[w] = s /\ \A v \in Rewrap : v # w => rewrap'[v] = rewrap[v]
  BY DEF PagesOK, SetRewrap

LEMMA FormStep ==
    ASSUME PagesOK, NEW f \in Form, NEW s \in FormState, FormReady(s),
           form' = [form EXCEPT ![f] = s], UNCHANGED <<tab, rewrap>>
    PROVE  PagesOK'
  BY DEF PagesOK

LEMMA RewrapStep ==
    ASSUME PagesOK, NEW w \in Rewrap, NEW s \in RewrapState, RewrapReady(s),
           SetRewrap(w, s), UNCHANGED <<tab, form>>
    PROVE  PagesOK'
  BY DEF PagesOK, SetRewrap

LEMMA PagesKept ==
    ASSUME PagesOK, UNCHANGED <<tab, form, rewrap>>
    PROVE  PagesOK'
  BY DEF PagesOK

(* Where a tab may go from where it is. *)
LEMMA TabMoves ==
    ASSUME NEW s \in TabState, TabReady(s)
    PROVE  /\ s.at # "idle" => \A at \in {"keys"} :
                [s EXCEPT !.at = at] \in TabState /\ TabReady([s EXCEPT !.at = at])
           /\ s.at \in {"check", "insert", "reply"} =>
                \A at \in {"insert", "reply", "rollback"} :
                  [s EXCEPT !.at = at] \in TabState /\ TabReady([s EXCEPT !.at = at])
           /\ s.at \in {"create", "keys"} => \A c \in Scale :
                /\ [s EXCEPT !.at = "check", !.scale = c] \in TabState
                /\ TabReady([s EXCEPT !.at = "check", !.scale = c])
  BY KeysAssumption DEF TabState, TabReady

LEMMA NewTab ==
    ASSUME NEW k \in Key, NEW s,
           \/ s = [ClosedTab EXCEPT !.at = "create", !.page = "create", !.key = k]
           \/ s = [ClosedTab EXCEPT !.at = "create", !.page = "create", !.key = k,
                                    !.pasted = TRUE]
           \/ s = [ClosedTab EXCEPT !.at = "keys", !.page = "keys", !.key = k]
    PROVE  s \in TabState /\ TabReady(s) /\ s.scale = NULL
  <1>1. k # NULL
    BY KeysAssumption
  <1>2. s \in TabState
    BY <1>1 DEF ClosedTab, TabState
  <1>3. s.key = k /\ s.at \in {"create", "keys"} /\ s.scale = NULL
    BY DEF ClosedTab
  <1>4. QED BY <1>1, <1>2, <1>3 DEF TabReady, TabState

LEMMA CheckedTab ==
    ASSUME NEW s \in TabState, NEW c
    PROVE  LET new == [s EXCEPT !.at = "check", !.scale = c]
           IN  /\ new.at = "check" /\ new.scale = c
               /\ new.key = s.key /\ new.pasted = s.pasted
  BY DEF TabState

LEMMA TabInduction ==
    ASSUME TypeOK, NEW t \in Tab, TabNext(t)
    PROVE  PagesOK'
  <1> USE DEF TypeOK
  <1>1. tab[t] \in TabState /\ TabReady(tab[t])
    BY DEF PagesOK
  <1>2. UNCHANGED <<form, rewrap>>
    BY DEF TabNext, GenerateForProject, PasteForProject, CreateScale, CheckKey,
       InsertKey, KeyFailed, Rollback, ProjectCreated, CloseTab, GenX25519,
       Register, Registered
  <1>3. \E s \in TabState : TabReady(s) /\ SetTab(t, s)
    <2>1. CASE GenerateForProject(t) \/ PasteForProject(t) \/ GenX25519(t)
      <3>1. PICK k \in Key : \E s :
               /\ SetTab(t, s)
               /\ \/ s = [ClosedTab EXCEPT !.at = "create", !.page = "create",
                                            !.key = k]
                  \/ s = [ClosedTab EXCEPT !.at = "create", !.page = "create",
                                            !.key = k, !.pasted = TRUE]
                  \/ s = [ClosedTab EXCEPT !.at = "keys", !.page = "keys",
                                            !.key = k]
        BY <2>1 DEF GenerateForProject, PasteForProject, GenX25519
      <3>2. QED BY <3>1, NewTab
    <2>2. CASE CreateScale(t)
      <3>1. PICK c \in Scale :
               \/ SetTab(t, [tab[t] EXCEPT !.at = "check", !.scale = c])
               \/ SetTab(t, ClosedTab)
        BY <2>2 DEF CreateScale
      <3>2. tab[t].at = "create"
        BY <2>2 DEF CreateScale
      <3>3. QED BY <1>1, <3>1, <3>2, TabMoves, BlankPages
    <2>3. CASE Register(t)
      <3>1. PICK c \in scales :
               SetTab(t, [tab[t] EXCEPT !.at = "check", !.scale = c])
        BY <2>3 DEF Register
      <3>2. tab[t].at = "keys" /\ c \in Scale
        BY <2>3 DEF Register, TablesOK
      <3>3. QED BY <1>1, <3>1, <3>2, TabMoves
    <2>4. CASE CheckKey(t)
      BY <1>1, <2>4, TabMoves DEF CheckKey
    <2>5. CASE InsertKey(t)
      BY <1>1, <2>5, TabMoves DEF InsertKey
    <2>6. CASE KeyFailed(t)
      BY <1>1, <2>6, TabMoves DEF KeyFailed
    <2>7. CASE Registered(t)
      BY <1>1, <2>7, TabMoves DEF Registered
    <2>8. CASE Rollback(t) \/ ProjectCreated(t) \/ CloseTab(t)
      BY <2>8, BlankPages DEF Rollback, ProjectCreated, CloseTab
    <2>9. QED
      BY <2>1, <2>2, <2>3, <2>4, <2>5, <2>6, <2>7, <2>8 DEF TabNext
  <1>4. QED BY <1>2, <1>3, TabStep

LEMMA FormInduction ==
    ASSUME TypeOK, NEW f \in Form, FormNext(f)
    PROVE  PagesOK'
  <1> USE DEF TypeOK
  <1>1. form[f] \in FormState /\ FormReady(form[f])
    BY DEF PagesOK
  <1>2. UNCHANGED <<tab, rewrap>>
    BY DEF FormNext, ReadKeys, IntakeResponse, AddE2EEResponse
  <1>3. \E s \in FormState : FormReady(s) /\ form' = [form EXCEPT ![f] = s]
    <2>1. CASE ReadKeys(f)
      <3>1. PICK s \in scales, d \in Dek :
               form' = [form EXCEPT ![f] = [at |-> "post", scale |-> s, dek |-> d,
                                            keys |-> KeysOf(s) \ BadKey]]
        BY <2>1 DEF ReadKeys, EncryptForProject
      <3>2. KeysOf(s) \subseteq Key /\ s \in Scale /\ s # NULL /\ d # NULL
        BY KeysAssumption DEF KeysOf, TablesOK, Registration
      <3> DEFINE new == [at |-> "post", scale |-> s, dek |-> d,
                         keys |-> KeysOf(s) \ BadKey]
      <3>3. new \in FormState
        BY <3>2 DEF FormState
      <3>4. QED BY <3>1, <3>2, <3>3 DEF FormReady
    <2>2. CASE IntakeResponse(f)
      <3>1. [form[f] EXCEPT !.at = "insert"] \in FormState
        BY <1>1 DEF FormState
      <3>2. FormReady([form[f] EXCEPT !.at = "insert"])
        BY <1>1, <2>2 DEF FormState, FormReady, IntakeResponse
      <3>3. QED BY <2>2, <3>1, <3>2, BlankPages DEF IntakeResponse
    <2>3. CASE AddE2EEResponse(f)
      <3> DEFINE new == [form[f] EXCEPT !.at = "post"]
      <3>1. new \in FormState /\ FormReady(new)
        BY <1>1, <2>3 DEF FormState, FormReady, AddE2EEResponse
      <3>2. QED BY <2>3, <3>1, BlankPages DEF AddE2EEResponse
    <2>4. QED BY <2>1, <2>2, <2>3 DEF FormNext
  <1>4. QED BY <1>2, <1>3, FormStep

LEMMA RewrapInduction ==
    ASSUME TypeOK, NEW w \in Rewrap, RewrapNext(w)
    PROVE  PagesOK'
  <1> USE DEF TypeOK
  <1> DEFINE old == rewrap[w]
  <1>1. old \in RewrapState /\ RewrapReady(old)
    BY DEF PagesOK
  <1>2. UNCHANGED <<tab, form>>
    BY DEF RewrapNext, ListRewrapItems, AppendReads, AppendWrites, RewrapDone,
       RewrapRefused
  <1>3. \E s \in RewrapState : RewrapReady(s) /\ SetRewrap(w, s)
    <2>1. CASE ListRewrapItems(w)
      <3>0. PICK s \in scales, from \in Held : \E to \in KeysOf(s) \ BadKey :
                 \E items \in SUBSET Unwrapped(s, from) :
                   SetRewrap(w, [NoRewrap EXCEPT !.at = "read", !.to = to,
                                                 !.left = items])
        BY <2>1 DEF ListRewrapItems
      <3>1. PICK to \in KeysOf(s) \ BadKey, items \in SUBSET Unwrapped(s, from) :
               SetRewrap(w, [NoRewrap EXCEPT !.at = "read", !.to = to,
                                             !.left = items])
        BY <3>0
      <3>2. to \in Key /\ to # NULL
        BY KeysAssumption DEF KeysOf, TablesOK, Registration
      <3>3. items \in SUBSET RewrapItem
        BY DEF Unwrapped, TablesOK, SealedRow, Envelope, RewrapItem
      <3> DEFINE new == [NoRewrap EXCEPT !.at = "read", !.to = to, !.left = items]
      <3>4. new \in RewrapState /\ RewrapReady(new)
        BY <3>2, <3>3 DEF NoRewrap, RewrapState, RewrapReady
      <3>5. QED BY <3>1, <3>4
    <2>2. CASE AppendReads(w)
      <3>1. PICK row \in sealed, item \in old.left :
               SetRewrap(w, [old EXCEPT !.at = "write", !.item = item,
                                        !.encDEK = row.encDEK])
        BY <2>2 DEF AppendReads
      <3>2. item \in RewrapItem /\ row.encDEK \in SUBSET Envelope
        BY <1>1 DEF TablesOK, SealedRow, RewrapState
      <3>3. old.to # NULL
        BY <1>1, <2>2 DEF AppendReads, RewrapReady
      <3> DEFINE new == [old EXCEPT !.at = "write", !.item = item,
                                    !.encDEK = row.encDEK]
      <3>4. new \in RewrapState /\ RewrapReady(new)
        BY <1>1, <3>1, <3>2, <3>3 DEF RewrapState, RewrapReady
      <3>5. QED BY <3>1, <3>4
    <2>3. CASE AppendWrites(w)
      <3> DEFINE new == [old EXCEPT !.at = "read", !.item = NULL, !.encDEK = {},
                                    !.left = old.left \ {old.item}]
      <3>1. SetRewrap(w, new)
        BY <2>3 DEF AppendWrites
      <3>2. old.to # NULL
        BY <1>1, <2>3 DEF AppendWrites, RewrapReady
      <3>3. new \in RewrapState /\ RewrapReady(new)
        BY <1>1, <3>2 DEF RewrapState, RewrapReady
      <3>4. QED BY <3>1, <3>3
    <2>4. CASE RewrapDone(w) \/ RewrapRefused(w)
      BY <2>4, BlankPages DEF RewrapDone, RewrapRefused
    <2>5. QED BY <2>1, <2>2, <2>3, <2>4 DEF RewrapNext
  <1> HIDE DEF old
  <1>4. QED BY <1>2, <1>3, RewrapStep

-----------------------------------------------------------------------------
(* Tables and history *)

LEMMA DropScaleType ==
    ASSUME TablesOK, NEW s, DropScale(s)
    PROVE  TablesOK'
  BY DEF TablesOK, DropScale

(* The row a submission leaves.                                             *)
Submitted(f, i) ==
    [id |-> i, scale |-> form[f].scale, dek |-> form[f].dek,
     encDEK |-> Wrapped(form[f].keys, form[f].dek),
     kept |-> IF \E w \in Rewrap : Holds(w, i) THEN {}
              ELSE Wrapped(form[f].keys, form[f].dek)]

LEMMA SubmissionRow ==
    ASSUME TypeOK, NEW f \in Form, AddE2EEResponse(f)
    PROVE  /\ UNCHANGED <<scales, projectKeys, rewrap>>
           /\ \/ UNCHANGED sealed
              \/ \E i \in Id : /\ Submitted(f, i) \in SealedRow
                               /\ sealed' = Upserted(Submitted(f, i))
  <1>1. UNCHANGED sealed \/ \E i \in Id : sealed' = Upserted(Submitted(f, i))
    BY DEF AddE2EEResponse, Submitted
  <1>2. form[f] \in FormState /\ form[f].dek # NULL
    BY DEF AddE2EEResponse, TypeOK, PagesOK, FormReady
  <1>3. Wrapped(form[f].keys, form[f].dek) \in SUBSET Envelope
    BY <1>2 DEF FormState, Wrapped, Envelope
  <1>4. ASSUME form[f].scale \in scales, NEW i \in Id
        PROVE  Submitted(f, i) \in SealedRow
    BY <1>2, <1>3, <1>4 DEF TypeOK, TablesOK, FormState, Submitted, SealedRow
  <1>5. UNCHANGED sealed \/ form[f].scale \in scales
    BY DEF AddE2EEResponse
  <1>6. UNCHANGED <<scales, projectKeys, rewrap>>
    BY DEF AddE2EEResponse
  <1>7. QED BY <1>1, <1>4, <1>5, <1>6

(* The row a write of a re-wrap leaves. *)
Rewritten(w, row) ==
    [row EXCEPT !.encDEK = Envelopes(w),
                !.kept = IF \A v \in Rewrap \ {w} : ~Holds(v, rewrap[w].item.id)
                         THEN @ \cup {NewEnvelope(w)} ELSE @]

LEMMA RewrittenRow ==
    ASSUME TypeOK, NEW w \in Rewrap, AppendWrites(w), NEW row \in sealed
    PROVE  /\ Rewritten(w, row) \in SealedRow
           /\ Rewritten(w, row).id = row.id
           /\ Rewritten(w, row).encDEK = rewrap[w].encDEK \cup {NewEnvelope(w)}
           /\ Rewritten(w, row).kept \subseteq row.kept \cup {NewEnvelope(w)}
           /\ \A v \in Rewrap \ {w} : Holds(v, rewrap[w].item.id) =>
                 Rewritten(w, row).kept = row.kept
  <1>1. rewrap[w] \in RewrapState /\ rewrap[w].to # NULL
    BY DEF AppendWrites, TypeOK, PagesOK, RewrapReady
  <1>2. rewrap[w].item \in RewrapItem
    BY <1>1 DEF AppendWrites, TypeOK, PagesOK, RewrapReady, RewrapState
  <1>3. NewEnvelope(w) \in Envelope
    BY <1>1, <1>2 DEF RewrapState, RewrapItem, NewEnvelope, Envelope
  <1>4. row \in SealedRow /\ Envelopes(w) \in SUBSET Envelope
    BY <1>1, <1>3 DEF TypeOK, TablesOK, Envelopes, RewrapState
  <1>5. row.kept \in SUBSET Envelope /\ row.kept \cup {NewEnvelope(w)} \in SUBSET Envelope
    BY <1>3, <1>4 DEF SealedRow
  <1> HIDE DEF Envelope
  <1>6. Envelopes(w) = rewrap[w].encDEK \cup {NewEnvelope(w)}
    BY DEF Envelopes
  <1>7. ASSUME NEW kept \in SUBSET Envelope
        PROVE  LET new == [row EXCEPT !.encDEK = Envelopes(w), !.kept = kept]
               IN  /\ new \in SealedRow /\ new.id = row.id
                   /\ new.encDEK = Envelopes(w) /\ new.kept = kept
    BY <1>4 DEF SealedRow
  <1>8. CASE \A v \in Rewrap \ {w} : ~Holds(v, rewrap[w].item.id)
    <2>1. Rewritten(w, row) = [row EXCEPT !.encDEK = Envelopes(w),
                                          !.kept = row.kept \cup {NewEnvelope(w)}]
      BY <1>4, <1>8 DEF Rewritten, SealedRow
    <2>2. QED BY <1>5, <1>6, <1>7, <1>8, <2>1
  <1>9. CASE ~\A v \in Rewrap \ {w} : ~Holds(v, rewrap[w].item.id)
    <2>1. Rewritten(w, row) = [row EXCEPT !.encDEK = Envelopes(w), !.kept = row.kept]
      BY <1>4, <1>9 DEF Rewritten, SealedRow
    <2>2. QED BY <1>5, <1>6, <1>7, <2>1
  <1>10. QED BY <1>8, <1>9

LEMMA RewrittenTable ==
    ASSUME NEW w \in Rewrap, AppendWrites(w)
    PROVE  sealed' = {IF row.id # rewrap[w].item.id THEN row ELSE Rewritten(w, row) :
                         row \in sealed}
  BY DEF AppendWrites, Rewritten

LEMMA TablesInduction ==
    ASSUME TypeOK, Next
    PROVE  TablesOK'
  <1> USE DEF TypeOK
  <1>1. CASE UNCHANGED server
    BY <1>1 DEF server, TablesOK
  <1>2. ASSUME NEW t \in Tab, CreateScale(t)
        PROVE  TablesOK'
    BY <1>2 DEF CreateScale, TablesOK
  <1>3. ASSUME NEW t \in Tab, InsertKey(t)
        PROVE  TablesOK'
    <2>1. tab[t].scale \in Scale /\ tab[t].key \in Key
      BY <1>3 DEF InsertKey, PagesOK, TabState, TabReady
    <2>2. QED BY <1>3, <2>1 DEF InsertKey, TablesOK, Registration
  <1>4. ASSUME NEW t \in Tab, Rollback(t)
        PROVE  TablesOK'
    BY <1>1, <1>4, DropScaleType DEF Rollback
  <1>5. ASSUME NEW s \in scales, DeleteScale(s)
        PROVE  TablesOK'
    BY <1>5, DropScaleType DEF DeleteScale
  <1>6. ASSUME NEW f \in Form, AddE2EEResponse(f)
        PROVE  TablesOK'
    <2>1. UNCHANGED <<scales, projectKeys>>
      BY <1>6 DEF AddE2EEResponse
    <2>2. CASE UNCHANGED sealed
      BY <2>1, <2>2 DEF TablesOK
    <2>3. ASSUME NEW row \in SealedRow, sealed' = Upserted(row)
          PROVE  TablesOK'
      BY <2>1, <2>3 DEF TablesOK, Upserted
    <2>4. QED BY <1>6, <2>2, <2>3, SubmissionRow
  <1>7. CASE DeleteE2EEResponse
    BY <1>7 DEF DeleteE2EEResponse, TablesOK
  <1>8. ASSUME NEW w \in Rewrap, AppendWrites(w)
        PROVE  TablesOK'
    <2> DEFINE New(row) == IF row.id # rewrap[w].item.id THEN row
                           ELSE Rewritten(w, row)
    <2>1. \A row \in sealed : New(row) \in SealedRow /\ New(row).id = row.id
      BY <1>8, RewrittenRow DEF TablesOK
    <2>2. sealed' = {New(row) : row \in sealed} /\ UNCHANGED <<scales, projectKeys>>
      BY <1>8, RewrittenTable DEF AppendWrites
    <2> HIDE DEF New
    <2>3. QED BY <2>1, <2>2 DEF TablesOK
  <1>9. ASSUME NEW t \in Tab,
               GenerateForProject(t) \/ PasteForProject(t) \/ CheckKey(t)
               \/ KeyFailed(t) \/ ProjectCreated(t) \/ CloseTab(t)
               \/ GenX25519(t) \/ Register(t) \/ Registered(t)
        PROVE  TablesOK'
    BY <1>1, <1>9 DEF GenerateForProject, PasteForProject, CheckKey, KeyFailed,
       ProjectCreated, CloseTab, GenX25519, Register, Registered
  <1>10. ASSUME NEW f \in Form, ReadKeys(f) \/ IntakeResponse(f)
         PROVE  TablesOK'
    BY <1>1, <1>10 DEF ReadKeys, IntakeResponse
  <1>11. ASSUME NEW w \in Rewrap,
                ListRewrapItems(w) \/ AppendReads(w) \/ RewrapDone(w)
                \/ RewrapRefused(w)
         PROVE  TablesOK'
    BY <1>1, <1>11 DEF ListRewrapItems, AppendReads, RewrapDone, RewrapRefused
  <1>12. CASE ImportKey
    BY <1>1, <1>12 DEF ImportKey
  <1>13. QED
    BY <1>2, <1>3, <1>4, <1>5, <1>6, <1>7, <1>8, <1>9, <1>10, <1>11, <1>12
       DEF Next, TabNext, FormNext, RewrapNext
LEMMA BrowserInduction ==
    ASSUME TypeOK, Next
    PROVE  BrowserOK'
  <1> USE DEF TypeOK
  <1>1. CASE UNCHANGED browser
    BY <1>1 DEF browser, BrowserOK
  <1>2. ASSUME NEW e \in Entry, NEW k \in Key, Store(e, k), UNCHANGED files
        PROVE  BrowserOK'
    BY <1>2 DEF Store, BrowserOK
  <1>3. ASSUME NEW t \in Tab, TabNext(t)
        PROVE  BrowserOK'
    <2>1. CASE GenerateForProject(t)
      BY <2>1 DEF GenerateForProject, BrowserOK
    <2>2. CASE PasteForProject(t)
      BY <2>2 DEF PasteForProject, BrowserOK
    <2>3. CASE GenX25519(t)
      <3>1. PICK k \in Key, e \in scales \cup {"any"} : Store(e, k)
        BY <2>3 DEF GenX25519
      <3>2. e \in Entry /\ UNCHANGED files
        BY <2>3 DEF GenX25519, Entry, TablesOK
      <3>3. QED BY <1>2, <3>1, <3>2
    <2>4. CASE ProjectCreated(t)
      <3>1. tab[t].key \in Key
        BY <2>4 DEF ProjectCreated, PagesOK, TabState, TabReady
      <3>2. QED BY <2>4, <3>1 DEF ProjectCreated, BrowserOK, browser
    <2>5. QED
      BY <1>1, <1>3, <2>1, <2>2, <2>3, <2>4
         DEF TabNext, CreateScale, CheckKey, InsertKey, KeyFailed, Rollback,
             CloseTab, Register, Registered, browser
  <1>4. ASSUME NEW f \in Form, FormNext(f)
        PROVE  BrowserOK'
    BY <1>1, <1>4 DEF FormNext, ReadKeys, IntakeResponse, AddE2EEResponse
  <1>5. ASSUME NEW w \in Rewrap, RewrapNext(w)
        PROVE  BrowserOK'
    BY <1>1, <1>5 DEF RewrapNext, ListRewrapItems, AppendReads, AppendWrites,
       RewrapDone, RewrapRefused
  <1>6. CASE (\E s \in scales : DeleteScale(s)) \/ DeleteE2EEResponse
    BY <1>1, <1>6 DEF DeleteScale, DeleteE2EEResponse
  <1>7. CASE ImportKey
    <2>1. PICK k \in files, e \in scales \cup {"any"} : Store(e, k)
      BY <1>7 DEF ImportKey
    <2>2. e \in Entry /\ k \in Key /\ UNCHANGED files
      BY <1>7 DEF ImportKey, Entry, TablesOK, BrowserOK
    <2>3. QED BY <1>2, <2>1, <2>2
  <1>8. QED BY <1>3, <1>4, <1>5, <1>6, <1>7 DEF Next

LEMMA HistoryInduction ==
    ASSUME TypeOK, Next
    PROVE  HistoryOK'
  <1> USE DEF TypeOK
  <1>1. CASE UNCHANGED <<used, announced, unwritten>>
    BY <1>1 DEF HistoryOK
  <1>2. ASSUME NEW x \in Scale \cup Key \cup Dek, used' = used \cup {x},
               UNCHANGED history
        PROVE  HistoryOK'
    BY <1>2 DEF HistoryOK, history
  <1>3. ASSUME NEW t \in Tab, TabNext(t)
        PROVE  HistoryOK'
    <2>1. CASE GenerateForProject(t) \/ PasteForProject(t) \/ GenX25519(t)
      BY <1>2, <2>1 DEF GenerateForProject, PasteForProject, GenX25519
    <2>2. CASE CreateScale(t)
      BY <1>2, <2>2 DEF CreateScale
    <2>3. CASE ProjectCreated(t)
      <3>1. tab[t].key \in Key /\ tab[t].scale \in Scale
        BY <2>3 DEF ProjectCreated, PagesOK, TabState, TabReady
      <3>2. QED BY <2>3, <3>1 DEF ProjectCreated, HistoryOK, Registration
    <2>5. CASE InsertKey(t)
      <3>1. tab[t].scale \in Scale
        BY <2>5 DEF InsertKey, PagesOK, TabState, TabReady
      <3>2. QED BY <2>5, <3>1 DEF InsertKey, HistoryOK
    <2>4. QED
      BY <1>1, <1>3, <2>1, <2>2, <2>3, <2>5
         DEF TabNext, CheckKey, KeyFailed, Rollback, CloseTab,
             Register, Registered, history
  <1>4. ASSUME NEW f \in Form, FormNext(f)
        PROVE  HistoryOK'
    <2>1. CASE ReadKeys(f)
      BY <1>2, <2>1 DEF ReadKeys
    <2>2. QED
      BY <1>1, <1>4, <2>1 DEF FormNext, AddE2EEResponse, IntakeResponse, history
  <1>5. ASSUME NEW w \in Rewrap, RewrapNext(w)
        PROVE  HistoryOK'
    BY <1>1, <1>5 DEF RewrapNext, ListRewrapItems, AppendReads, AppendWrites,
       RewrapDone, RewrapRefused, history
  <1>6. CASE (\E s \in scales : DeleteScale(s)) \/ DeleteE2EEResponse \/ ImportKey
    BY <1>1, <1>6 DEF DeleteScale, DeleteE2EEResponse, ImportKey, history
  <1>7. QED BY <1>3, <1>4, <1>5, <1>6 DEF Next

-----------------------------------------------------------------------------
(* Ids *)

(* What the tables, pages and reports mention is never generated again.     *)
LEMMA ProvenanceInduction ==
    ASSUME TypeOK, Provenance, Next
    PROVE  Provenance'
  <1> USE DEF TypeOK
  <1>1. used \subseteq used'
    BY DEF Next, TabNext, FormNext, RewrapNext, GenerateForProject,
       PasteForProject, CreateScale, CheckKey, InsertKey, KeyFailed, Rollback,
       ProjectCreated, CloseTab, GenX25519, Register, Registered, ReadKeys,
       IntakeResponse, AddE2EEResponse, ListRewrapItems, AppendReads,
       AppendWrites, RewrapDone, RewrapRefused, DeleteScale, ImportKey,
       DeleteE2EEResponse
  <1>2. scales' \subseteq used'
    <2>1. CASE scales' \subseteq scales
      BY <1>1, <2>1 DEF Provenance
    <2>2. ASSUME NEW t \in Tab, CreateScale(t)
          PROVE  scales' \subseteq used'
      BY <2>2 DEF CreateScale, Provenance
    <2>3. QED
      BY <2>1, <2>2
         DEF Next, TabNext, FormNext, RewrapNext, GenerateForProject, server,
             PasteForProject, CheckKey, InsertKey, KeyFailed, Rollback, DropScale,
             ProjectCreated, CloseTab, GenX25519, Register, Registered, ReadKeys,
             IntakeResponse, AddE2EEResponse, ListRewrapItems, AppendReads,
             AppendWrites, RewrapDone, RewrapRefused, DeleteScale, ImportKey,
             DeleteE2EEResponse
  <1>3. \A t \in Tab : tab'[t].scale # NULL => tab'[t].scale \in used'
    <2>1. CASE UNCHANGED tab
      BY <1>1, <2>1 DEF Provenance
    <2>2. ASSUME NEW t \in Tab, TabNext(t)
          PROVE  tab'[t].scale \in used' \cup {NULL}
      <3>1. tab[t] \in TabState /\ tab'[t] \in TabState
        BY <2>2, TabInduction DEF PagesOK
      <3>2. CASE CreateScale(t)
        <4>1. PICK c \in Scale :
                 /\ used' = used \cup {c}
                 /\ \/ SetTab(t, [tab[t] EXCEPT !.at = "check", !.scale = c])
                    \/ SetTab(t, ClosedTab)
          BY <3>2 DEF CreateScale
        <4>2. \/ tab'[t] = [tab[t] EXCEPT !.at = "check", !.scale = c]
              \/ tab'[t] = ClosedTab
          BY <4>1, TabValue
        <4>3. tab'[t].scale \in {c, NULL}
          <5>1. CASE tab'[t] = ClosedTab
            BY <5>1 DEF ClosedTab
          <5>2. CASE tab'[t] = [tab[t] EXCEPT !.at = "check", !.scale = c]
            BY <3>1, <5>2, CheckedTab
          <5>3. QED BY <4>2, <5>1, <5>2
        <4>4. QED BY <4>1, <4>3
      <3>3. CASE Register(t)
        BY <1>1, <3>1, <3>3 DEF Register, SetTab, PagesOK, TabState, Provenance
      <3>4. CASE GenerateForProject(t) \/ PasteForProject(t) \/ GenX25519(t)
        <4>1. PICK k \in Key : \E s :
                 /\ SetTab(t, s)
                 /\ \/ s = [ClosedTab EXCEPT !.at = "create", !.page = "create",
                                              !.key = k]
                    \/ s = [ClosedTab EXCEPT !.at = "create", !.page = "create",
                                              !.key = k, !.pasted = TRUE]
                    \/ s = [ClosedTab EXCEPT !.at = "keys", !.page = "keys",
                                              !.key = k]
          BY <3>4 DEF GenerateForProject, PasteForProject, GenX25519
        <4>2. PICK s :
                 /\ SetTab(t, s)
                 /\ \/ s = [ClosedTab EXCEPT !.at = "create", !.page = "create",
                                              !.key = k]
                    \/ s = [ClosedTab EXCEPT !.at = "create", !.page = "create",
                                              !.key = k, !.pasted = TRUE]
                    \/ s = [ClosedTab EXCEPT !.at = "keys", !.page = "keys",
                                              !.key = k]
          BY <4>1
        <4>3. s.scale = NULL
          BY <4>2, NewTab
        <4>4. tab'[t] = s
          BY <4>2, TabValue
        <4>5. QED BY <4>3, <4>4
      <3>7. CASE Rollback(t) \/ ProjectCreated(t) \/ CloseTab(t)
        <4>1. tab'[t] = ClosedTab
          BY <3>7, TabValue DEF Rollback, ProjectCreated, CloseTab
        <4>2. QED BY <4>1 DEF ClosedTab
      <3>5. CASE CheckKey(t) \/ InsertKey(t) \/ KeyFailed(t) \/ Registered(t)
        <4>1. tab'[t].scale = tab[t].scale
          BY <3>1, <3>5 DEF CheckKey, InsertKey, KeyFailed, Registered, SetTab,
             PagesOK, TabState
        <4>2. QED BY <1>1, <4>1 DEF Provenance
      <3>6. QED BY <2>2, <3>2, <3>3, <3>4, <3>5, <3>7 DEF TabNext
    <2>3. ASSUME NEW t \in Tab, TabNext(t)
          PROVE  \A u \in Tab : u # t => tab'[u] = tab[u]
      BY <2>3 DEF TabNext, GenerateForProject, PasteForProject, CreateScale,
         CheckKey, InsertKey, KeyFailed, Rollback, ProjectCreated, CloseTab,
         GenX25519, Register, Registered, SetTab, PagesOK
    <2>4. CASE \E t \in Tab : TabNext(t)
      BY <1>1, <2>2, <2>3, <2>4 DEF Provenance
    <2>5. QED
      BY <2>1, <2>4
         DEF Next, FormNext, RewrapNext, ReadKeys, IntakeResponse,
             AddE2EEResponse, ListRewrapItems, AppendReads, AppendWrites,
             RewrapDone, RewrapRefused, DeleteScale, ImportKey, DeleteE2EEResponse
  <1>4. \A p \in announced' : p.scale \in used'
    <2>1. CASE UNCHANGED announced
      BY <1>1, <2>1 DEF Provenance
    <2>2. ASSUME NEW t \in Tab, ProjectCreated(t)
          PROVE  \A p \in announced' : p.scale \in used'
      <3>1. tab[t].scale \in used
        BY <2>2 DEF ProjectCreated, PagesOK, TabReady, Provenance
      <3>2. QED BY <1>1, <2>2, <3>1 DEF ProjectCreated, Provenance
    <2>3. QED
      BY <2>1, <2>2
         DEF Next, TabNext, FormNext, RewrapNext, GenerateForProject, history,
             PasteForProject, CreateScale, CheckKey, InsertKey, KeyFailed,
             Rollback, CloseTab, GenX25519, Register, Registered, ReadKeys,
             IntakeResponse, AddE2EEResponse, ListRewrapItems, AppendReads,
             AppendWrites, RewrapDone, RewrapRefused, DeleteScale, ImportKey,
             DeleteE2EEResponse
  <1>5. QED BY <1>2, <1>3, <1>4 DEF Provenance

-----------------------------------------------------------------------------
(* Envelopes *)

(* What the steps of a re-wrap make of its variables. *)
LEMMA RewrapReads ==
    ASSUME TypeOK, NEW w \in Rewrap, AppendReads(w)
    PROVE  \E row \in sealed :
              /\ rewrap'[w].at = "write" /\ rewrap'[w].item.id = row.id
              /\ rewrap'[w].encDEK = row.encDEK
              /\ \A v \in Rewrap : v # w => rewrap'[v] = rewrap[v]
  <1>1. PICK row \in sealed, item \in rewrap[w].left :
           /\ row.id = item.id
           /\ SetRewrap(w, [rewrap[w] EXCEPT !.at = "write", !.item = item,
                                             !.encDEK = row.encDEK])
    BY DEF AppendReads
  <1>2. /\ rewrap'[w] = [rewrap[w] EXCEPT !.at = "write", !.item = item,
                                         !.encDEK = row.encDEK]
        /\ \A v \in Rewrap : v # w => rewrap'[v] = rewrap[v]
    BY <1>1, RewrapValue DEF TypeOK
  <1>3. rewrap[w] \in RewrapState
    BY DEF TypeOK, PagesOK
  <1>4. QED BY <1>1, <1>2, <1>3 DEF RewrapState

LEMMA RewrapRests ==
    ASSUME TypeOK, NEW w \in Rewrap,
           ListRewrapItems(w) \/ AppendWrites(w) \/ RewrapDone(w) \/ RewrapRefused(w)
    PROVE  /\ rewrap'[w].at # "write"
           /\ \A v \in Rewrap : v # w => rewrap'[v] = rewrap[v]
  <1>1. CASE ListRewrapItems(w)
    <2>1. \E to, items : SetRewrap(w, [NoRewrap EXCEPT !.at = "read", !.to = to,
                                                      !.left = items])
      BY <1>1 DEF ListRewrapItems
    <2>2. PICK to, items : SetRewrap(w, [NoRewrap EXCEPT !.at = "read", !.to = to,
                                                         !.left = items])
      BY <2>1
    <2>3. rewrap'[w] = [NoRewrap EXCEPT !.at = "read", !.to = to, !.left = items]
      BY <2>2, RewrapValue DEF TypeOK
    <2>4. \A v \in Rewrap : v # w => rewrap'[v] = rewrap[v]
      BY <2>2, RewrapValue DEF TypeOK
    <2>5. QED BY <2>3, <2>4 DEF NoRewrap
  <1>2. CASE AppendWrites(w)
    <2> DEFINE new == [rewrap[w] EXCEPT !.at = "read", !.item = NULL,
                           !.encDEK = {}, !.left = rewrap[w].left \ {rewrap[w].item}]
    <2>1. SetRewrap(w, new)
      BY <1>2 DEF AppendWrites
    <2>2. rewrap[w] \in RewrapState
      BY DEF TypeOK, PagesOK
    <2>3. new.at = "read"
      BY <2>2 DEF RewrapState
    <2>4. QED BY <2>1, <2>3, RewrapValue DEF TypeOK
  <1>3. CASE RewrapDone(w) \/ RewrapRefused(w)
    BY <1>3, RewrapValue DEF RewrapDone, RewrapRefused, TypeOK, NoRewrap
  <1>4. QED BY <1>1, <1>2, <1>3

(* The steps that touch neither a re-wrap nor, but for deleting, a response.*)
OtherStep ==
    \/ \E t \in Tab : TabNext(t)
    \/ \E f \in Form : ReadKeys(f) \/ IntakeResponse(f)
    \/ \E s \in scales : DeleteScale(s)
    \/ ImportKey \/ DeleteE2EEResponse

LEMMA OtherStepDeletes ==
    ASSUME OtherStep
    PROVE  sealed' \subseteq sealed /\ UNCHANGED rewrap
  BY DEF OtherStep, TabNext, GenerateForProject, PasteForProject, CreateScale,
     CheckKey, InsertKey, KeyFailed, Rollback, DropScale, server, ProjectCreated,
     CloseTab, GenX25519, Register, Registered, ReadKeys, IntakeResponse,
     DeleteScale, ImportKey, DeleteE2EEResponse

LEMMA NextSplit ==
    ASSUME Next
    PROVE  \/ OtherStep
           \/ \E f \in Form : AddE2EEResponse(f)
           \/ \E w \in Rewrap : RewrapNext(w)
  BY DEF Next, OtherStep, FormNext

LEMMA KeepingInduction ==
    ASSUME TypeOK, Keeping, Next
    PROVE  Keeping'
  <1>1. CASE OtherStep
    BY <1>1, OtherStepDeletes DEF Keeping, EnvelopesKept, Holds
  <1>2. ASSUME NEW f \in Form, AddE2EEResponse(f)
        PROVE  Keeping'
    <2>1. UNCHANGED rewrap
      BY <1>2 DEF AddE2EEResponse
    <2>2. CASE UNCHANGED sealed
      BY <2>1, <2>2 DEF Keeping, EnvelopesKept, Holds
    <2>3. ASSUME NEW i \in Id, sealed' = Upserted(Submitted(f, i))
          PROVE  Keeping'
      <3> DEFINE new == Submitted(f, i)
      <3>1. /\ new.id = i /\ new.kept \subseteq new.encDEK
            /\ \A w \in Rewrap : Holds(w, i) => new.kept = {}
        BY DEF Submitted
      <3>2. sealed' \subseteq sealed \cup {new}
        BY <2>3 DEF Upserted
      <3> HIDE DEF new
      <3>3. QED BY <2>1, <3>1, <3>2 DEF Keeping, EnvelopesKept, Holds
    <2>4. QED BY <1>2, <2>2, <2>3, SubmissionRow
  <1>3. ASSUME NEW w \in Rewrap, RewrapNext(w)
        PROVE  Keeping'
    <2>1. CASE AppendReads(w)
      <3>1. UNCHANGED sealed
        BY <2>1 DEF AppendReads, server
      <3>2. \A x, y \in sealed : x.id = y.id => x = y
        BY DEF TypeOK, TablesOK
      <3>3. QED BY <2>1, <3>1, <3>2, RewrapReads DEF Keeping, EnvelopesKept, Holds
    <2>2. CASE AppendWrites(w)
      <3> DEFINE id == rewrap[w].item.id
      <3>1. Holds(w, id)
        BY <2>2 DEF AppendWrites, Holds
      <3>2. ASSUME NEW row \in sealed'
            PROVE  /\ row.kept \subseteq row.encDEK
                   /\ \A v \in Rewrap \ {w} : Holds(v, row.id) =>
                         row.kept \subseteq rewrap[v].encDEK
        <4>1. PICK old \in sealed :
                 row = IF old.id # id THEN old ELSE Rewritten(w, old)
          BY <2>2, RewrittenTable
        <4>2. CASE old.id # id
          BY <4>1, <4>2 DEF Keeping, EnvelopesKept
        <4>3. CASE old.id = id
          <5>1. /\ row.id = id
                /\ row.encDEK = rewrap[w].encDEK \cup {NewEnvelope(w)}
                /\ row.kept \subseteq old.kept \cup {NewEnvelope(w)}
                /\ \A v \in Rewrap \ {w} : Holds(v, id) => row.kept = old.kept
            BY <2>2, <4>1, <4>3, RewrittenRow
          <5>2. old.kept \subseteq rewrap[w].encDEK
            BY <3>1, <4>3 DEF Keeping
          <5>3. \A v \in Rewrap : Holds(v, id) => old.kept \subseteq rewrap[v].encDEK
            BY <4>3 DEF Keeping
          <5>4. QED BY <5>1, <5>2, <5>3
        <4>4. QED BY <4>2, <4>3
      <3>3. \A v \in Rewrap, row \in sealed' : Holds(v, row.id)' =>
               v # w /\ Holds(v, row.id) /\ rewrap'[v] = rewrap[v]
        BY <2>2, RewrapRests DEF Holds
      <3>4. QED BY <3>2, <3>3 DEF Keeping, EnvelopesKept
    <2>3. CASE ListRewrapItems(w) \/ RewrapDone(w) \/ RewrapRefused(w)
      <3>1. UNCHANGED sealed
        BY <2>3 DEF ListRewrapItems, RewrapDone, RewrapRefused, server
      <3>2. QED BY <2>3, <3>1, RewrapRests DEF Keeping, EnvelopesKept, Holds
    <2>4. QED BY <1>3, <2>1, <2>2, <2>3 DEF RewrapNext
  <1>4. QED BY <1>1, <1>2, <1>3, NextSplit

-----------------------------------------------------------------------------
(* Creation of a project *)

(* What the steps of a tab make of its variables. *)
LEMMA TabOpens ==
    ASSUME TypeOK, NEW t \in Tab,
           GenerateForProject(t) \/ PasteForProject(t) \/ GenX25519(t)
    PROVE  /\ tab'[t].at # "reply"
           /\ tab'[t].pasted => tab'[t].key \in files'
           /\ \A u \in Tab : u # t => tab'[u] = tab[u]
  <1>1. CASE GenerateForProject(t)
    <2>1. PICK k \in Key : SetTab(t, [ClosedTab EXCEPT !.at = "create",
                                        !.page = "create", !.key = k])
      BY <1>1 DEF GenerateForProject
    <2>2. tab'[t] = [ClosedTab EXCEPT !.at = "create", !.page = "create", !.key = k]
      BY <2>1, TabValue DEF TypeOK
    <2>3. QED BY <2>1, <2>2, TabValue DEF TypeOK, ClosedTab
  <1>2. CASE PasteForProject(t)
    <2>1. PICK k \in Key :
             /\ files' = files \cup {k}
             /\ SetTab(t, [ClosedTab EXCEPT !.at = "create", !.page = "create",
                                            !.key = k, !.pasted = TRUE])
      BY <1>2 DEF PasteForProject
    <2>2. tab'[t] = [ClosedTab EXCEPT !.at = "create", !.page = "create",
                                      !.key = k, !.pasted = TRUE]
      BY <2>1, TabValue DEF TypeOK
    <2>3. tab'[t].at # "reply" /\ tab'[t].key = k
      BY <2>2 DEF ClosedTab
    <2>4. QED BY <2>1, <2>3, TabValue DEF TypeOK
  <1>3. CASE GenX25519(t)
    <2>1. PICK k \in Key : SetTab(t, [ClosedTab EXCEPT !.at = "keys",
                                        !.page = "keys", !.key = k])
      BY <1>3 DEF GenX25519
    <2>2. tab'[t] = [ClosedTab EXCEPT !.at = "keys", !.page = "keys", !.key = k]
      BY <2>1, TabValue DEF TypeOK
    <2>3. QED BY <2>1, <2>2, TabValue DEF TypeOK, ClosedTab
  <1>4. QED BY <1>1, <1>2, <1>3

LEMMA TabMovesOn ==
    ASSUME TypeOK, NEW t \in Tab,
           CreateScale(t) \/ CheckKey(t) \/ KeyFailed(t) \/ Register(t)
           \/ Registered(t) \/ Rollback(t) \/ ProjectCreated(t) \/ CloseTab(t)
    PROVE  /\ tab'[t].at # "reply"
           /\ tab'[t].pasted => tab[t].pasted /\ tab'[t].key = tab[t].key
           /\ \A u \in Tab : u # t => tab'[u] = tab[u]
  <1>1. tab[t] \in TabState
    BY DEF TypeOK, PagesOK
  <1>2. \E at \in {"insert", "rollback", "keys"} : \E c :
           \/ SetTab(t, [tab[t] EXCEPT !.at = at])
           \/ SetTab(t, [tab[t] EXCEPT !.at = "check", !.scale = c])
           \/ SetTab(t, ClosedTab)
    BY DEF CreateScale, CheckKey, KeyFailed, Register, Registered, Rollback,
       ProjectCreated, CloseTab
  <1>3. PICK at \in {"insert", "rollback", "keys"} : \E c :
           \/ SetTab(t, [tab[t] EXCEPT !.at = at])
           \/ SetTab(t, [tab[t] EXCEPT !.at = "check", !.scale = c])
           \/ SetTab(t, ClosedTab)
    BY <1>2
  <1>4. PICK c :
           \/ SetTab(t, [tab[t] EXCEPT !.at = at])
           \/ SetTab(t, [tab[t] EXCEPT !.at = "check", !.scale = c])
           \/ SetTab(t, ClosedTab)
    BY <1>3
  <1>5. \/ tab'[t] = [tab[t] EXCEPT !.at = at]
        \/ tab'[t] = [tab[t] EXCEPT !.at = "check", !.scale = c]
        \/ tab'[t] = ClosedTab
    BY <1>4, TabValue DEF TypeOK
  <1>6. \A u \in Tab : u # t => tab'[u] = tab[u]
    BY <1>4, TabValue DEF TypeOK
  <1>7. CASE tab'[t] = [tab[t] EXCEPT !.at = at]
    BY <1>1, <1>6, <1>7 DEF TabState
  <1>8. CASE tab'[t] = [tab[t] EXCEPT !.at = "check", !.scale = c]
    BY <1>1, <1>6, <1>8, CheckedTab
  <1>9. CASE tab'[t] = ClosedTab
    BY <1>6, <1>9 DEF ClosedTab
  <1>10. QED BY <1>5, <1>7, <1>8, <1>9

LEMMA TabInserts ==
    ASSUME TypeOK, NEW t \in Tab, InsertKey(t)
    PROVE  /\ tab'[t].scale = tab[t].scale /\ tab'[t].key = tab[t].key
           /\ tab'[t].page = tab[t].page /\ tab'[t].pasted = tab[t].pasted
           /\ \A u \in Tab : u # t => tab'[u] = tab[u]
  <1>1. tab'[t] = [tab[t] EXCEPT !.at = "reply"]
    BY TabValue DEF InsertKey, TypeOK
  <1>2. tab[t] \in TabState
    BY DEF TypeOK, PagesOK
  <1>3. \A u \in Tab : u # t => tab'[u] = tab[u]
    BY TabValue DEF InsertKey, TypeOK
  <1>4. QED BY <1>1, <1>2, <1>3 DEF TabState

(* Files are kept, and a registration that is gone is one of a project that *)
(* is gone.                                                                 *)
LEMMA FilesKept ==
    ASSUME Next
    PROVE  files \subseteq files'
  BY DEF Next, TabNext, FormNext, RewrapNext, GenerateForProject, PasteForProject,
     CreateScale, CheckKey, InsertKey, KeyFailed, Rollback, ProjectCreated,
     CloseTab, GenX25519, Register, Registered, ReadKeys, IntakeResponse,
     AddE2EEResponse, ListRewrapItems, AppendReads, AppendWrites, RewrapDone,
     RewrapRefused, DeleteScale, ImportKey, DeleteE2EEResponse, browser

LEMMA RegistrationsKept ==
    ASSUME Next
    PROVE  /\ \A p \in projectKeys : p.scale \in scales' => p \in projectKeys'
           /\ unwritten \subseteq unwritten'
           /\ scales' \subseteq scales \/ \E t \in Tab : CreateScale(t)
  BY DEF Next, TabNext, FormNext, RewrapNext, GenerateForProject, PasteForProject,
     CreateScale, CheckKey, InsertKey, KeyFailed, Rollback, ProjectCreated,
     CloseTab, GenX25519, Register, Registered, ReadKeys, IntakeResponse,
     AddE2EEResponse, ListRewrapItems, AppendReads, AppendWrites, RewrapDone,
     RewrapRefused, DeleteScale, ImportKey, DeleteE2EEResponse, server, DropScale,
     history

(* A scale that appears is one nothing mentions yet.                        *)
LEMMA NewScale ==
    ASSUME Provenance, TypeOK, Next, NEW s \in scales',
           (\E p \in announced : p.scale = s)
           \/ (\E t \in Tab : tab[t].at = "reply" /\ tab[t].scale = s)
    PROVE  s \in scales
  <1>1. s \in used
    BY DEF Provenance, TypeOK, PagesOK, TabReady
  <1>2. ASSUME NEW t \in Tab, CreateScale(t)
        PROVE  s \in scales
    BY <1>1, <1>2 DEF CreateScale
  <1>3. QED BY <1>2, RegistrationsKept

LEMMA CreationInduction ==
    ASSUME TypeOK, Provenance, Creation, Next
    PROVE  Creation'
  <1>1. CASE UNCHANGED <<tab, announced>>
    <2>1. AnnouncedIsUsable'
      BY <1>1, NewScale, FilesKept, RegistrationsKept
         DEF Creation, AnnouncedIsUsable
    <2>2. ASSUME NEW t \in Tab
          PROVE  /\ tab'[t].pasted => tab'[t].key \in files'
                 /\ (Creating(t) => Written(Project(t)))'
      BY <1>1, NewScale, FilesKept, RegistrationsKept
         DEF Creation, Creating, Written, Project
    <2>3. QED BY <2>1, <2>2 DEF Creation
  <1>2. ASSUME NEW t \in Tab, TabNext(t)
        PROVE  Creation'
    <2>1. ASSUME NEW u \in Tab, tab'[u] = tab[u]
          PROVE  /\ tab'[u].pasted => tab'[u].key \in files'
                 /\ (Creating(u) => Written(Project(u)))'
      BY <2>1, NewScale, FilesKept, RegistrationsKept
         DEF Creation, Creating, Written, Project
    <2>2. UNCHANGED announced => AnnouncedIsUsable'
      BY NewScale, FilesKept, RegistrationsKept DEF Creation, AnnouncedIsUsable
    <2>3. CASE GenerateForProject(t) \/ PasteForProject(t) \/ GenX25519(t)
      <3>1. UNCHANGED announced
        BY <2>3 DEF GenerateForProject, PasteForProject, GenX25519, history
      <3>2. QED BY <2>1, <2>2, <2>3, <3>1, TabOpens DEF Creation, Creating
    <2>4. CASE InsertKey(t)
      <3>1. UNCHANGED <<announced, scales, files>>
        BY <2>4 DEF InsertKey, browser
      <3>2. tab[t].page = "create" /\ tab[t].scale \in scales =>
               Project(t) \in projectKeys' \/ tab[t].scale \in unwritten'
        BY <2>4 DEF InsertKey, Project
      <3>3. /\ tab'[t].pasted => tab'[t].key \in files'
            /\ (Creating(t) => Written(Project(t)))'
        BY <2>4, <3>1, <3>2, TabInserts DEF Creation, Creating, Written, Project
      <3>4. QED BY <2>1, <2>2, <2>4, <3>1, <3>3, TabInserts DEF Creation
    <2>5. CASE \/ CreateScale(t) \/ CheckKey(t) \/ KeyFailed(t) \/ Register(t)
               \/ Registered(t) \/ Rollback(t) \/ ProjectCreated(t) \/ CloseTab(t)
      <3>1. \A u \in Tab :
               /\ tab'[u].pasted => tab'[u].key \in files'
               /\ (Creating(u) => Written(Project(u)))'
        BY <2>1, <2>5, TabMovesOn, FilesKept DEF Creation, Creating
      <3>2. CASE UNCHANGED announced
        BY <2>2, <3>1, <3>2 DEF Creation
      <3>3. CASE ProjectCreated(t)
        <4> DEFINE project == Project(t)
        <4>1. /\ tab[t].at = "reply" /\ tab[t].page = "create"
              /\ UNCHANGED <<scales, projectKeys, unwritten>>
              /\ announced' = announced \cup {project}
              /\ tab[t].pasted \/ tab[t].key \in files'
          BY <3>3 DEF ProjectCreated, server, Project
        <4>2. project.scale \in scales =>
                 /\ project.key \in files'
                 /\ project \in projectKeys' \/ project.scale \in unwritten'
          BY <4>1, FilesKept DEF Creation, Creating, Written, Project
        <4> HIDE DEF project
        <4>3. AnnouncedIsUsable'
          BY <4>1, <4>2, FilesKept DEF Creation, AnnouncedIsUsable
        <4>4. QED BY <3>1, <4>3 DEF Creation
      <3>4. QED
        BY <2>5, <3>2, <3>3 DEF CreateScale, CheckKey, KeyFailed, Register,
           Registered, Rollback, CloseTab, history
    <2>6. QED BY <1>2, <2>3, <2>4, <2>5 DEF TabNext
  <1>3. QED
    BY <1>1, <1>2 DEF Next, FormNext, RewrapNext, ReadKeys, IntakeResponse,
       AddE2EEResponse, ListRewrapItems, AppendReads, AppendWrites, RewrapDone,
       RewrapRefused, DeleteScale, ImportKey, DeleteE2EEResponse, history

-----------------------------------------------------------------------------
(* The specification *)

LEMMA KeysInit ==
    ASSUME Init
    PROVE  TypeOK /\ Provenance /\ Keeping /\ Creation
  <1>1. TypeOK
    BY BlankPages DEF Init, TypeOK, TablesOK, BrowserOK, PagesOK, HistoryOK
  <1>2. Provenance
    BY DEF Init, Provenance, ClosedTab
  <1>3. Keeping
    BY DEF Init, Keeping, EnvelopesKept
  <1>4. Creation
    BY DEF Init, Creation, Creating, AnnouncedIsUsable, ClosedTab
  <1>5. QED BY <1>1, <1>2, <1>3, <1>4

LEMMA TypeStutter ==
    TypeOK /\ Provenance /\ UNCHANGED vars => (TypeOK /\ Provenance)'
  BY DEF vars, server, browser, history, TypeOK, TablesOK, BrowserOK, PagesOK,
     HistoryOK, Provenance

LEMMA KeepingStutter == Keeping /\ UNCHANGED vars => Keeping'
  BY DEF vars, server, Keeping, EnvelopesKept, Holds

LEMMA CreationStutter == Creation /\ UNCHANGED vars => Creation'
  BY DEF vars, server, browser, history, Creation, Creating, Written, Project,
     AnnouncedIsUsable

LEMMA TypeInduction == TypeOK /\ Provenance /\ Next => (TypeOK /\ Provenance)'
  <1> SUFFICES ASSUME TypeOK, Provenance, Next
               PROVE  TypeOK' /\ Provenance'
    OBVIOUS
  <1>1. TablesOK' /\ BrowserOK' /\ HistoryOK' /\ Provenance'
    BY TablesInduction, BrowserInduction, HistoryInduction, ProvenanceInduction
  <1>2. PagesOK'
    <2>1. CASE UNCHANGED <<tab, form, rewrap>>
      BY <2>1, PagesKept DEF TypeOK
    <2>2. QED
      BY <2>1, TabInduction, FormInduction, RewrapInduction
         DEF Next, DeleteScale, ImportKey, DeleteE2EEResponse
  <1>3. QED BY <1>1, <1>2 DEF TypeOK

(* Types, one row per response however often it is sent, and pages that     *)
(* hold what their next call takes.                                         *)
THEOREM KeysTyped == Spec => [](TypeOK /\ Provenance)
  <1>1. Init => TypeOK /\ Provenance
    BY KeysInit
  <1>2. QED BY <1>1, TypeInduction, TypeStutter, PTL DEF Spec

(* However many re-wraps and submissions of the same responses interleave,  *)
(* a response keeps the envelopes it was last sent with and those appended  *)
(* since, unless another re-wrap had read it and not yet written it.        *)
THEOREM RecipientsKept == Spec => []EnvelopesKept
  <1>1. Init => Keeping
    BY KeysInit
  <1>2. TypeOK /\ Keeping /\ Next => Keeping'
    BY KeepingInduction
  <1>3. Keeping => EnvelopesKept
    BY DEF Keeping
  <1>4. QED BY <1>1, <1>2, <1>3, KeepingStutter, KeysTyped, PTL DEF Spec

(* With any number of tabs, and any request or reply lost, a project that   *)
(* was reported as created has the private key in a file, and its key       *)
(* registered as long as it exists, unless the INSERT failed and was only   *)
(* logged.                                                                  *)
THEOREM CreatedUsable == Spec => []AnnouncedIsUsable
  <1>1. Init => Creation
    BY KeysInit
  <1>2. TypeOK /\ Provenance /\ Creation /\ Next => Creation'
    BY CreationInduction
  <1>3. Creation => AnnouncedIsUsable
    BY DEF Creation
  <1>4. QED BY <1>1, <1>2, <1>3, CreationStutter,
          KeysTyped, PTL DEF Spec
=============================================================================
