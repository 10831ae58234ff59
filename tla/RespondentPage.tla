--------------------------- MODULE RespondentPage ---------------------------
(***************************************************************************)
(* A respondent's browser tab: the consent screen, the form and the page   *)
(* for one's own data (Survey.tsx, SelfManage.tsx), with the requests they *)
(* have under way.  React runs one callback at a time; a callback sees the *)
(* state of the render in which it was made, up to its next await.  Replies*)
(* come in any order, or not at all.  A reload forgets the page's state and*)
(* its callbacks, not sessionStorage and not what is already on the wire.  *)
(*                                                                         *)
(* The server is its answers: which survey it describes, which submissions *)
(* it accepts.  SurveyApi models what it does with them.                   *)
(***************************************************************************)
EXTENDS ConsentForm

CONSTANTS
    Visits,         \* the surveys visited, and what may happen meanwhile
    NItems,         \* its items, in order of position
    RequiredItem,   \* those marked required
    Kind,           \* Kind[i]: "multiple", "text" or "number"
    Values,         \* Values[i]: what may be entered; "option": a choice
    MaxAttempts, MaxSigns, MaxTokens

Lang == {"en", "zh"}
Item == 1..NItems

(* Answers: nothing yet, '' or [], blanks, a text or number, or the option  *)
(* of a choice as it reads in a language.                                   *)
Answer == {"none", "empty", "spaces", "text"} \cup Lang

Survey ==
    [e2ee : BOOLEAN, turnstile : BOOLEAN, perPage : Nat,
     collectEmail : {"off", "optional", "required"},
     options : Seq(Option), signature : BOOLEAN, template : Seq(Marker)]

(* A survey, the loads that may fail, how often the language is switched,   *)
(* and whether the tab is reloaded.  Submissions may always fail.           *)
Visit ==
    [survey : Survey, failing : SUBSET {"meta", "items", "sign"},
     switches : Nat, reloads : BOOLEAN]

ASSUME RespondentAssumption ==
    /\ Visits \subseteq Visit
    /\ NItems \in Nat /\ RequiredItem \subseteq Item
    /\ Kind \in [Item -> {"multiple", "text", "number"}]
    /\ Values \in [Item -> SUBSET {"empty", "spaces", "text", "option"}]
    /\ MaxAttempts \in Nat /\ MaxSigns \in Nat
    /\ MaxTokens \in Nat

VARIABLES
    visit,          \* the server: settings,
    spent,          \*   Turnstile tokens verified,
    stored, removed,\*   submissions kept, and deleted by the respondent,
    wire,           \*   submissions on their way to it
    lock,           \* sessionStorage: the submit lock is off, fresh or stale,
    contexts,       \*   and the context of each submission
    screen, lang,
    metaLoads, itemLoads, switches,
    meta, applied,  \* the settings shown, and "none" or the language of the texts
    metaReady, choices, sigChecked, sigImage,
    signs, signed,  \* signatures under way, and how many were begun
    consentId, consentEvidence, consented,
    items,          \* "none", or the language of the items listed
    loading, answers, page, email,
    turnstileToken, tokens,
    submitting,
    call,           \* the submission whose reply the page waits for
    going,          \* the submission whose page the tab is leaving for
    begun           \* all attempts to submit, for the properties

server == <<visit, spent, stored, removed, wire>>
storage == <<lock, contexts>>
loads == <<metaLoads, itemLoads, switches>>
consent == <<choices, sigChecked, sigImage, signs, signed, consentId,
             consentEvidence, consented>>
form == <<answers, email, turnstileToken, tokens>>
sending == <<submitting, call, going, begun>>
vars == <<server, storage, screen, lang, loads, meta, applied, metaReady,
          consent, items, loading, form, page, sending>>

survey == visit.survey

(* Before the settings are known the page has its initial state.            *)
Defaults ==
    [e2ee |-> FALSE, turnstile |-> FALSE, perPage |-> 0,
     collectEmail |-> "optional", options |-> <<>>, signature |-> FALSE,
     template |-> <<>>]

NoEvidence ==
    [options |-> {}, kind |-> "none", needsSignature |-> FALSE,
     required |-> {}, agreed |-> FALSE]

NoCall == [n |-> 0, step |-> "idle"]

-----------------------------------------------------------------------------
(* What the page computes from its state.                                   *)

(* Mutant of IsItemAnswered: a multiple choice with nothing ticked counts.  *)
IsItemTouched(kind, value) == value # "none"

IsItemAnswered(kind, value) ==
    CASE value = "none" -> FALSE
      [] value = "empty" -> FALSE
      [] value = "spaces" -> kind # "text"
      [] OTHER -> TRUE

Total == IF items = "none" THEN 0 ELSE NItems

Pages ==
    IF meta.perPage > 0 THEN (Total + meta.perPage - 1) \div meta.perPage
    ELSE 1

Visible ==
    IF meta.perPage > 0
    THEN {i \in 1..Total : /\ i > (page - 1) * meta.perPage
                           /\ i <= page * meta.perPage}
    ELSE 1..Total

Missing(set) ==
    {i \in set \cap RequiredItem : ~IsItemAnswered(Kind[i], answers[i])}

IsSubmitLocked == lock = "fresh"

FirstOf(set) == CHOOSE i \in set : \A j \in set : i <= j

(* validateAllRequired shows the page of the first item that is missing.    *)
PageOf(i) == IF meta.perPage > 0 THEN ((i - 1) \div meta.perPage) + 1 ELSE page

-----------------------------------------------------------------------------
Init ==
    /\ visit \in Visits
    /\ spent = {} /\ stored = {} /\ removed = {} /\ wire = {}
    /\ lock = "off" /\ contexts = {}
    /\ screen = "survey" /\ lang = "en"
    /\ metaLoads = {[n |-> 0, lang |-> "en"]} /\ itemLoads = {} /\ switches = 0
    /\ meta = Defaults /\ applied = "none" /\ metaReady = FALSE
    /\ choices = {} /\ sigChecked = FALSE /\ sigImage = FALSE
    /\ signs = {} /\ signed = 0 /\ consentId = 0
    /\ consentEvidence = NoEvidence /\ consented = FALSE
    /\ items = "none" /\ loading = FALSE
    /\ answers = [i \in Item |-> "none"] /\ page = 1 /\ email = FALSE
    /\ turnstileToken = 0 /\ tokens = 0
    /\ submitting = FALSE /\ call = NoCall /\ going = 0 /\ begun = {}

(* The page is mounted anew, in the language of its URL and localStorage.   *)
Mount ==
    /\ screen' = "survey"
    /\ metaLoads' = {[n |-> switches, lang |-> lang]} /\ itemLoads' = {}
    /\ meta' = Defaults /\ applied' = "none" /\ metaReady' = FALSE
    /\ choices' = {} /\ sigChecked' = FALSE /\ sigImage' = FALSE
    /\ signs' = {} /\ signed' = 0 /\ consentId' = 0 /\ consentEvidence' = NoEvidence
    /\ consented' = FALSE
    /\ items' = "none" /\ loading' = FALSE
    /\ answers' = [i \in Item |-> "none"] /\ page' = 1 /\ email' = FALSE
    /\ turnstileToken' = 0
    /\ submitting' = FALSE /\ call' = NoCall /\ going' = 0
    /\ UNCHANGED <<server, storage, lang, switches, tokens, begun>>

(* Reload, or Back from the page of one's data to a page the browser dropped*)
Reload ==
    /\ visit.reloads
    /\ Mount

-----------------------------------------------------------------------------
(* Settings and items.                                                      *)

(* loadMeta and, once consented, loadOrSeed start whenever the language is  *)
(* switched; what is under way goes on.                                     *)
SwitchLanguage ==
    /\ screen = "survey"
    /\ switches < visit.switches
    /\ switches' = switches + 1
    /\ lang' = (CHOOSE l \in Lang : l # lang)
    /\ metaLoads' = metaLoads \cup {[n |-> switches + 1, lang |-> lang']}
    /\ metaReady' = FALSE
    /\ IF consented
       THEN /\ itemLoads' = itemLoads \cup {[n |-> switches + 1, lang |-> lang']}
            /\ loading' = TRUE
       ELSE UNCHANGED <<itemLoads, loading>>
    /\ UNCHANGED <<server, storage, screen, meta, applied, consent, items, form, page,
                   sending>>

(* applyMeta: the texts are those of the language the load was started in,  *)
(* and the form goes back to its first page.                                *)
MetaAnswered ==
    /\ screen = "survey"
    /\ \E l \in metaLoads :
        /\ metaLoads' = metaLoads \ {l}
        /\ meta' = survey /\ applied' = l.lang
    /\ metaReady' = TRUE /\ page' = 1
    /\ UNCHANGED <<server, storage, screen, lang, itemLoads, switches, consent,
                   items, loading, form, sending>>

(* A load that fails leaves the settings as they are, and the page goes on. *)
MetaFailed ==
    /\ screen = "survey" /\ "meta" \in visit.failing
    /\ \E l \in metaLoads : metaLoads' = metaLoads \ {l}
    /\ metaReady' = TRUE
    /\ UNCHANGED <<server, storage, screen, lang, itemLoads, switches, meta, applied,
                   consent, items, loading, form, page, sending>>

ItemsAnswered ==
    /\ screen = "survey"
    /\ \E l \in itemLoads : itemLoads' = itemLoads \ {l} /\ items' = l.lang
    /\ loading' = FALSE
    /\ UNCHANGED <<server, storage, screen, lang, metaLoads, switches, meta, applied,
                   metaReady, consent, form, page, sending>>

ItemsFailed ==
    /\ screen = "survey" /\ "items" \in visit.failing
    /\ \E l \in itemLoads : itemLoads' = itemLoads \ {l}
    /\ loading' = FALSE
    /\ UNCHANGED <<server, storage, screen, lang, metaLoads, switches, meta, applied,
                   metaReady, consent, items, form, page, sending>>

-----------------------------------------------------------------------------
(* The consent screen.                                                      *)

OnConsent == screen = "survey" /\ ~consented /\ metaReady

Choose ==
    /\ OnConsent
    /\ \E k \in ShownOptions(meta.template, meta.options) :
         choices' \in {choices \cup {k}, choices \ {k}}
    /\ UNCHANGED <<server, storage, screen, lang, loads, meta, applied, metaReady,
                   sigChecked, sigImage, signs, signed, consentId,
                   consentEvidence, consented, items, loading, form, page,
                   sending>>

(* The box, or the canvas that is saved or cleared.                         *)
SignForm ==
    /\ OnConsent /\ meta.signature
    /\ \/ sigChecked' = ~sigChecked /\ UNCHANGED sigImage
       \/ sigImage' = ~sigImage /\ UNCHANGED sigChecked
    /\ UNCHANGED <<server, storage, screen, lang, loads, meta, applied, metaReady,
                   choices, signs, signed, consentId, consentEvidence,
                   consented, items, loading, form, page, sending>>

(* handleConsentAgree up to its await.  Nothing disables the button while   *)
(* the request is under way, so it can be pressed again.                    *)
Agree ==
    /\ OnConsent /\ signed < MaxSigns
    /\ AgreeEnabled(meta.options, meta.signature, choices, sigChecked \/ sigImage)
    /\ signed' = signed + 1
    /\ signs' = signs \cup
         {[n |-> signed + 1,
           evidence |-> Evidence(meta.options, meta.signature, choices,
                                 sigChecked, sigImage)]}
    /\ UNCHANGED <<server, storage, screen, lang, loads, meta, applied, metaReady,
                   choices, sigChecked, sigImage, consentId, consentEvidence,
                   consented, items, loading, form, page, sending>>

(* What follows the await: the evidence is kept and the form is opened, and *)
(* its items asked for, whether or not the record was stored.               *)
Consented(s) ==
    /\ screen = "survey"
    /\ signs' = signs \ {s}
    /\ consentEvidence' = s.evidence
    /\ consented' = TRUE
    /\ IF consented THEN UNCHANGED <<itemLoads, loading>>
       ELSE /\ itemLoads' = itemLoads \cup {[n |-> switches, lang |-> lang]}
            /\ loading' = TRUE
    /\ UNCHANGED <<server, storage, screen, lang, metaLoads, switches, meta, applied,
                   metaReady, choices, sigChecked, sigImage, signed, items,
                   form, page, sending>>

(* POST /api/consent/sign answers with the id of the record.                *)
SignAnswered ==
    \E s \in signs : Consented(s) /\ consentId' = s.n

SignFailed ==
    /\ "sign" \in visit.failing
    /\ \E s \in signs : Consented(s) /\ UNCHANGED consentId

(* The form is left by the button that declines.                            *)
Decline ==
    /\ OnConsent
    /\ screen' = "home"
    /\ UNCHANGED <<server, storage, lang, loads, meta, applied, metaReady, consent,
                   items, loading, form, page, sending>>

-----------------------------------------------------------------------------
(* The form.                                                                *)

OnForm == screen = "survey" /\ consented

(* Widgets of the visible items; a choice is entered as it reads now.       *)
Enter ==
    /\ OnForm /\ ~loading
    /\ \E i \in Visible : \E v \in Values[i] :
         answers' = [answers EXCEPT ![i] = IF v = "option" THEN items ELSE v]
    /\ UNCHANGED <<server, storage, screen, lang, loads, meta, applied,
                   metaReady, consent, items, loading, page, email,
                   turnstileToken, tokens, sending>>

EnterEmail ==
    /\ OnForm /\ meta.collectEmail # "off"
    /\ email' = ~email
    /\ UNCHANGED <<server, storage, screen, lang, loads, meta, applied,
                   metaReady, consent, items, loading, answers, page,
                   turnstileToken, tokens, sending>>

Reset ==
    /\ OnForm
    /\ answers' = [i \in Item |-> "none"]
    /\ UNCHANGED <<server, storage, screen, lang, loads, meta, applied,
                   metaReady, consent, items, loading, page, email,
                   turnstileToken, tokens, sending>>

(* Mutant of TurnPage: Previous is not disabled on the first page.          *)
TurnPageFreely ==
    /\ OnForm /\ Pages > 1
    /\ \/ page' = page - 1
       \/ page < Pages /\ Missing(Visible) = {} /\ page' = page + 1
    /\ UNCHANGED <<server, storage, screen, lang, loads, meta, applied,
                   metaReady, consent, items, loading, form, sending>>

(* Next is refused while an item of this page is missing.                   *)
TurnPage ==
    /\ OnForm /\ Pages > 1
    /\ \/ page > 1 /\ page' = page - 1
       \/ page < Pages /\ Missing(Visible) = {} /\ page' = page + 1
    /\ UNCHANGED <<server, storage, screen, lang, loads, meta, applied,
                   metaReady, consent, items, loading, form, sending>>

(* Callbacks of the Turnstile widget: a new token, or its expiry or error.  *)
Verified ==
    /\ OnForm /\ meta.turnstile /\ tokens < MaxTokens
    /\ tokens' = tokens + 1 /\ turnstileToken' = tokens + 1
    /\ UNCHANGED <<server, storage, screen, lang, loads, meta, applied,
                   metaReady, consent, items, loading, answers, email, page,
                   sending>>

Unverified ==
    /\ OnForm /\ turnstileToken # 0
    /\ turnstileToken' = 0
    /\ UNCHANGED <<server, storage, screen, lang, loads, meta, applied,
                   metaReady, consent, items, loading, answers, email, page,
                   tokens, sending>>

-----------------------------------------------------------------------------
(* Submission.                                                              *)

CanPress == OnForm /\ items # "none" /\ NItems > 0 /\ ~submitting

(* A click that finds an item missing shows its page.                       *)
SubmitIncomplete ==
    /\ CanPress /\ ~IsSubmitLocked
    /\ Missing(1..Total) # {}
    /\ page' = PageOf(FirstOf(Missing(1..Total)))
    /\ UNCHANGED <<server, storage, screen, lang, loads, meta, applied,
                   metaReady, consent, items, loading, form, sending>>

Ready ==
    /\ Missing(1..Total) = {}
    /\ meta.collectEmail = "required" => email
    /\ meta.turnstile => turnstileToken # 0

(* What the click captures; informed says whether the page had the settings.*)
Attempt ==
    [n |-> Cardinality(begun) + 1, answers |-> answers, sealed |-> meta.e2ee,
     consentId |-> consentId, evidence |-> consentEvidence,
     token |-> turnstileToken, informed |-> applied # "none"]

(* A complete form: the lock is set before the first await.  A plain        *)
(* submission is posted at once, an encrypted one asks for the keys first.  *)
Submit ==
    /\ CanPress /\ ~IsSubmitLocked
    /\ Ready
    /\ Cardinality(begun) < MaxAttempts
    /\ begun' = begun \cup {Attempt}
    /\ lock' = "fresh" /\ submitting' = TRUE
    /\ IF meta.e2ee
       THEN call' = [n |-> Attempt.n, step |-> "keys"] /\ UNCHANGED wire
       ELSE /\ call' = [n |-> Attempt.n, step |-> "sent"]
            /\ wire' = wire \cup {Attempt.n}
    /\ UNCHANGED <<visit, spent, stored, removed, contexts, screen,
                   lang, loads, meta, applied, metaReady, consent, items,
                   loading, form, page, going>>

(* The keys are there: encrypt and post.                                    *)
KeysAnswered ==
    /\ screen = "survey" /\ call.step = "keys"
    /\ wire' = wire \cup {call.n}
    /\ call' = [call EXCEPT !.step = "sent"]
    /\ UNCHANGED <<visit, spent, stored, removed, storage, screen,
                   lang, loads, meta, applied, metaReady, consent, items,
                   loading, form, page, submitting, going, begun>>

(* The server takes a plaintext only for a plain survey, and verifies a     *)
(* token once; the handler of encrypted ones does not hand it the token.    *)
Accepts(a) ==
    /\ survey.e2ee => a.sealed
    /\ survey.turnstile => /\ ~a.sealed
                           /\ a.token # 0 /\ a.token \notin spent

(* The server works on a submission, for a page that may be gone.           *)
Handle ==
    /\ \E a \in begun :
        /\ a.n \in wire
        /\ wire' = wire \ {a.n}
        /\ spent' = IF survey.turnstile /\ ~a.sealed
                    THEN spent \cup {a.token} ELSE spent
        /\ stored' = IF Accepts(a) THEN stored \cup {a.n} ELSE stored
        /\ call' = IF call.n = a.n /\ call.step = "sent"
                   THEN [call EXCEPT !.step = IF Accepts(a) THEN "ok" ELSE "refused"]
                   ELSE call
    /\ UNCHANGED <<visit, removed, storage, screen, lang, loads, meta,
                   applied, metaReady, consent, items, loading, form, page,
                   submitting, going, begun>>

(* The request is lost on its way.                                          *)
Lose ==
    /\ \E n \in wire : wire' = wire \ {n}
    /\ UNCHANGED <<visit, spent, stored, removed, storage, screen,
                   lang, loads, meta, applied, metaReady, consent, items,
                   loading, form, page, sending>>

(* Mutant of SubmitAnswered: the context is what the form holds by then.    *)
SubmitAnsweredLate ==
    /\ screen = "survey" /\ call.step = "ok"
    /\ \E a \in begun : /\ a.n = call.n
                        /\ contexts' = contexts \cup
                             {[n |-> a.n, answers |-> answers, evidence |-> consentEvidence]}
    /\ going' = call.n
    /\ submitting' = FALSE /\ call' = NoCall
    /\ UNCHANGED <<server, lock, screen, lang, loads, meta, applied, metaReady,
                   consent, items, loading, form, page, begun>>

(* storeSelfContextAndRedirect with what the click captured; the lock stays.*)
SubmitAnswered ==
    /\ screen = "survey" /\ call.step = "ok"
    /\ \E a \in begun : /\ a.n = call.n
                        /\ contexts' = contexts \cup
                             {[n |-> a.n, answers |-> a.answers, evidence |-> a.evidence]}
    /\ going' = call.n
    /\ submitting' = FALSE /\ call' = NoCall
    /\ UNCHANGED <<server, lock, screen, lang, loads, meta, applied, metaReady,
                   consent, items, loading, form, page, begun>>

(* Mutant of SubmitFailed: submitting is not cleared in a finally.          *)
SubmitFailedForever ==
    /\ screen = "survey" /\ call.step # "idle"
    /\ lock' = "off" /\ call' = NoCall
    /\ UNCHANGED <<server, contexts, screen, lang, loads, meta, applied,
                   metaReady, consent, items, loading, form, page, submitting,
                   going, begun>>

(* Refused, or an error of the network at any time: keys, post or reply.    *)
SubmitFailed ==
    /\ screen = "survey" /\ call.step # "idle"
    /\ lock' = "off" /\ submitting' = FALSE /\ call' = NoCall
    /\ UNCHANGED <<server, contexts, screen, lang, loads, meta, applied,
                   metaReady, consent, items, loading, form, page, going, begun>>

(* 15 seconds have passed since the lock was set.                           *)
LockExpires ==
    /\ lock = "fresh"
    /\ lock' = "stale"
    /\ UNCHANGED <<server, contexts, screen, lang, loads, meta, applied,
                   metaReady, consent, items, loading, form, page, sending>>

-----------------------------------------------------------------------------
(* The page for one's own data.                                             *)

(* location.assign takes a while, during which the form still answers.      *)
Arrive ==
    /\ screen = "survey" /\ going # 0
    /\ screen' = "self"
    /\ UNCHANGED <<server, storage, lang, loads, meta, applied, metaReady,
                   consent, items, loading, form, page, sending>>

(* The browser may have kept the page it left, with its state.              *)
Back ==
    /\ screen = "self"
    /\ screen' = "survey" /\ going' = 0
    /\ UNCHANGED <<server, storage, lang, loads, meta, applied, metaReady,
                   consent, items, loading, form, page, submitting, call, begun>>

(* doDelete: an encrypted response is dropped; a plain one is kept and only *)
(* the e-mail address is blanked.  The page, and its context, stay.         *)
SelfDelete ==
    /\ screen = "self"
    /\ survey.e2ee /\ going \in stored
    /\ stored' = stored \ {going} /\ removed' = removed \cup {going}
    /\ UNCHANGED <<visit, spent, wire, storage, screen, lang, loads,
                   meta, applied, metaReady, consent, items, loading, form,
                   page, sending>>

-----------------------------------------------------------------------------
Network ==
    \/ MetaAnswered \/ MetaFailed \/ ItemsAnswered \/ ItemsFailed
    \/ SignAnswered \/ SignFailed
    \/ KeysAnswered \/ Handle \/ Lose \/ SubmitAnswered \/ SubmitFailed

Respondent ==
    \/ Reload \/ SwitchLanguage
    \/ Choose \/ SignForm \/ Agree \/ Decline
    \/ Enter \/ EnterEmail \/ Reset \/ TurnPage
    \/ SubmitIncomplete \/ Submit
    \/ Back \/ SelfDelete

Browser == Verified \/ Unverified \/ LockExpires \/ Arrive

Next == Network \/ Respondent \/ Browser

Spec == Init /\ [][Next]_vars

(* The page is told of every request's end, if only by a timeout.           *)
FairSpec ==
    Spec /\ WF_vars(Handle \/ Lose) /\ WF_vars(KeysAnswered \/ SubmitFailed)
         /\ WF_vars(SubmitAnswered \/ SubmitFailed)

-----------------------------------------------------------------------------
(* Properties.                                                              *)

Load == [n : Nat, lang : Lang]

EvidenceOf ==
    [options : SUBSET Key, kind : {"none", "click", "draw"},
     needsSignature : BOOLEAN, required : SUBSET Key, agreed : BOOLEAN]

AttemptOf ==
    [n : Nat, answers : [Item -> Answer], sealed : BOOLEAN, consentId : Nat,
     evidence : EvidenceOf, token : Nat, informed : BOOLEAN]

(* Types: the requests under way, what the server and the browser keep, and *)
(* the state of the page in Survey.tsx.                                     *)
TypeOK ==
    /\ visit \in Visit
    /\ spent \subseteq Nat
    /\ stored \subseteq Nat /\ removed \subseteq Nat /\ wire \subseteq Nat
    /\ lock \in {"off", "fresh", "stale"}
    /\ \A c \in contexts : /\ c.n \in Nat /\ c.answers \in [Item -> Answer]
                           /\ c.evidence \in EvidenceOf
    /\ screen \in {"survey", "home", "self"} /\ lang \in Lang
    /\ metaLoads \subseteq Load /\ itemLoads \subseteq Load /\ switches \in Nat
    /\ meta \in Survey /\ applied \in Lang \cup {"none"} /\ metaReady \in BOOLEAN
    /\ choices \subseteq Key
    /\ sigChecked \in BOOLEAN /\ sigImage \in BOOLEAN
    /\ \A s \in signs : /\ s.n \in Nat /\ s.evidence \in EvidenceOf
    /\ signed \in Nat /\ consentId \in Nat
    /\ consentEvidence \in EvidenceOf /\ consented \in BOOLEAN
    /\ items \in Lang \cup {"none"} /\ loading \in BOOLEAN
    /\ answers \in [Item -> Answer] /\ page \in Nat /\ email \in BOOLEAN
    /\ turnstileToken \in Nat /\ tokens \in Nat
    /\ submitting \in BOOLEAN /\ going \in Nat
    /\ call \in [n : Nat, step : {"idle", "keys", "sent", "ok", "refused"}]
    /\ begun \subseteq AttemptOf

Complete(a) ==
    \A i \in RequiredItem :
        /\ a.answers[i] \notin {"none", "empty"}
        /\ a.answers[i] = "spaces" => Kind[i] # "text"

Promised(a) ==
    [n |-> a.n, complete |-> Complete(a), agreed |-> ReceiptOfSelf(a.evidence),
     exposed |-> survey.e2ee /\ a.informed /\ ~a.sealed]

Promise == INSTANCE Submission
    WITH Number <- 1..MaxAttempts,
         held <- submitting \/ IsSubmitLocked,
         begun <- {Promised(a) : a \in begun}

(* The page implements Submission: however replies, reloads, language       *)
(* switches and the lock's expiry interleave, a submission is begun only    *)
(* after the one before failed or its 15 seconds passed, it is complete and *)
(* agreed to, it is sealed if the page knows it must be, and it is stored   *)
(* once (Survey.tsx, the submit button and the lock).                       *)
PromiseKept == Promise!Spec

(* The context handed to the page for one's own data is the submission the  *)
(* server acknowledged, though the form may be edited while it is under way.*)
ContextIsResponse ==
    \A c \in contexts : \E a \in begun :
        /\ a.n = c.n /\ c.n \in stored \cup removed
        /\ c.answers = a.answers /\ c.evidence = a.evidence

(* The submit button does not stay disabled: keys, post and reply end, and  *)
(* every end clears submitting.                                             *)
SubmissionSettles == submitting ~> (~submitting \/ screen # "survey")
=============================================================================
