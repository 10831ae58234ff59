-------------------------- MODULE RespondentProofs --------------------------
(***************************************************************************)
(* The respondent's page implements what Submission promises, step by step,*)
(* for every survey, any number of attempts, and whatever replies, reloads *)
(* and language switches come in between.                                  *)
(***************************************************************************)
EXTENDS RespondentPage, FiniteSetTheorems, WellFoundedInduction, NaturalsInduction, TLAPS

Numbers == {a.n : a \in begun}

(* Every attempt has a number of its own, and is what was promised.         *)
Numbered ==
    /\ IsFiniteSet(begun)
    /\ Numbers \subseteq 1..Cardinality(begun)
    /\ Cardinality(begun) <= MaxAttempts
    /\ \A a, b \in begun : a.n = b.n => a = b

(* A submission is on the wire, stored or deleted, and one of them only;    *)
(* one that waits for keys is none of them.                                 *)
OnlyOnce ==
    /\ wire \subseteq Numbers /\ stored \subseteq Numbers /\ removed \subseteq Numbers
    /\ wire \cap (stored \cup removed) = {}
    /\ call.step # "idle" => call.n \in Numbers
    /\ call.step = "keys" => call.n \notin wire \cup stored \cup removed
    /\ call.step = "ok" => call.n \in stored \cup removed

(* Evidence under way or kept says "agreed", and settings shown are those   *)
(* of the server.                                                           *)
Informed ==
    /\ \A s \in signs : s.evidence.agreed
    /\ consented => consentEvidence.agreed
    /\ applied # "none" => meta = survey

Proper(a) == Complete(a) /\ a.evidence.agreed
             /\ ~(survey.e2ee /\ a.informed /\ ~a.sealed)

Promises ==
    /\ Numbered /\ OnlyOnce /\ Informed
    /\ \A a \in begun : Proper(a)
    /\ ContextIsResponse

-----------------------------------------------------------------------------
(* The button is enabled only if the evidence will say "agreed": what it    *)
(* asks for includes all that the summary does.                             *)
LEMMA EnabledIsAgreed ==
    ASSUME NEW options, NEW signature, NEW yes, NEW clicked, NEW drawn,
           AgreeEnabled(options, signature, yes, clicked \/ drawn)
    PROVE  Evidence(options, signature, yes, clicked, drawn).agreed
<1>1. OptionsRequired(options) \subseteq Demanded(options)
  <2>1. CASE options = <<>>
    BY <2>1 DEF OptionsRequired
  <2>2. CASE options # <<>>
    BY <2>2 DEF OptionsRequired, Demanded, Offered
  <2>3. QED
    BY <2>1, <2>2
<1>2. OverallAgreed(options, signature, yes, clicked \/ drawn)
  BY <1>1 DEF OverallAgreed, AgreeEnabled
<1>3. QED
  BY <1>2 DEF Evidence

(* With nothing missing the answers are complete.                           *)
LEMMA NothingMissing ==
    ASSUME items # "none", Missing(1..Total) = {},
           NEW a, a.answers = answers
    PROVE  Complete(a)
<1> SUFFICES ASSUME NEW i \in RequiredItem
             PROVE  /\ answers[i] \notin {"none", "empty"}
                    /\ answers[i] = "spaces" => Kind[i] # "text"
  BY DEF Complete
<1>1. i \in 1..Total
  BY RespondentAssumption DEF Total, Item
<1>2. IsItemAnswered(Kind[i], answers[i])
  BY <1>1 DEF Missing
<1>3. QED
  BY <1>2 DEF IsItemAnswered

(* The steps that leave attempts, the server and the call alone.            *)
LEMMA QuietKeeps ==
    ASSUME Promises, UNCHANGED <<visit, stored, removed, wire, contexts, begun>>,
           call' = call \/ call'.step = "idle", Informed'
    PROVE  Promises'
<1>1. Numbered'
  BY DEF Promises, Numbered, Numbers
<1>2. OnlyOnce'
  BY DEF Promises, OnlyOnce, Numbers
<1>3. \A a \in begun' : Proper(a)'
  BY DEF Promises, Proper, Complete, survey
<1>4. ContextIsResponse'
  BY DEF Promises, ContextIsResponse
<1>5. QED
  BY <1>1, <1>2, <1>3, <1>4 DEF Promises

LEMMA PromisesStart == Init => Promises
<1> SUFFICES ASSUME Init PROVE Promises
  OBVIOUS
<1>1. Numbered
  BY FS_EmptySet, RespondentAssumption DEF Init, Numbered, Numbers
<1>2. OnlyOnce /\ Informed /\ ContextIsResponse /\ \A a \in begun : Proper(a)
  BY DEF Init, OnlyOnce, Informed, ContextIsResponse, Numbers, NoCall
<1>3. QED
  BY <1>1, <1>2 DEF Promises
-----------------------------------------------------------------------------
(* One step.                                                                *)

(* An attempt that is begun has the next number.                            *)
LEMMA SubmitKeeps ==
    ASSUME Promises, Submit
    PROVE  /\ Promises'
           /\ begun' = begun \cup {Attempt} /\ Attempt.n \in 1..MaxAttempts
           /\ Attempt.n \notin Numbers
           /\ Proper(Attempt)
<1> DEFINE k == Cardinality(begun)
<1>1. k \in Nat /\ k < MaxAttempts /\ MaxAttempts \in Nat
  BY FS_CardinalityType, RespondentAssumption DEF Promises, Numbered, Submit
<1>2. Attempt.n = k + 1 /\ Attempt.answers = answers /\ Attempt.evidence = consentEvidence
      /\ Attempt.sealed = meta.e2ee /\ Attempt.informed = (applied # "none")
  BY DEF Attempt
<1>3. Attempt.n \notin Numbers /\ Attempt \notin begun
  BY <1>1, <1>2 DEF Promises, Numbered, Numbers
<1>4. begun' = begun \cup {Attempt}
  BY DEF Submit
<1>5. Cardinality(begun') = k + 1 /\ IsFiniteSet(begun')
  BY <1>3, <1>4, FS_AddElement DEF Promises, Numbered
<1>6. Numbers' = Numbers \cup {k + 1}
  BY <1>2, <1>4 DEF Numbers
<1>7. Numbered'
  <2>1. Numbers' \subseteq 1..(k + 1)
    <3>1. Numbers \subseteq 1..k
      BY DEF Promises, Numbered
    <3> HIDE DEF k
    <3>2. 1..k \cup {k + 1} \subseteq 1..(k + 1)
      BY <1>1
    <3>3. QED
      BY ONLY <1>6, <3>1, <3>2
  <2>2. \A a, b \in begun' : a.n = b.n => a = b
    BY <1>2, <1>3, <1>4 DEF Promises, Numbered, Numbers
  <2>3. QED
    BY <1>1, <1>5, <2>1, <2>2 DEF Numbered
<1>8. Proper(Attempt)
  <2>1. Complete(Attempt)
    BY <1>2, NothingMissing DEF Submit, CanPress, Ready
  <2>2. Attempt.evidence.agreed
    BY <1>2 DEF Promises, Informed, Submit, CanPress, OnForm
  <2>3. ~(survey.e2ee /\ Attempt.informed /\ ~Attempt.sealed)
    BY <1>2 DEF Promises, Informed
  <2>4. QED
    BY <2>1, <2>2, <2>3 DEF Proper
<1>9. OnlyOnce'
  <2>1. call'.n = k + 1 /\ call'.step \in {"keys", "sent"}
        /\ (call'.step = "keys" => wire' = wire)
        /\ wire' \subseteq wire \cup {k + 1}
    BY <1>2 DEF Submit
  <2>2. stored' = stored /\ removed' = removed
    BY DEF Submit
  <2>3. k + 1 \notin Numbers
    BY <1>2, <1>3
  <2>4. QED
    BY <1>6, <2>1, <2>2, <2>3 DEF Promises, OnlyOnce
<1>10. Informed'
  BY DEF Promises, Informed, Submit, consent, survey
<1>11. \A a \in begun' : Proper(a)'
  BY <1>4, <1>8 DEF Promises, Proper, Complete, Submit, survey
<1>12. ContextIsResponse'
  BY <1>4 DEF Promises, ContextIsResponse, Submit
<1>13. QED
  BY <1>1, <1>2, <1>3, <1>4, <1>7, <1>8, <1>9, <1>10, <1>11, <1>12 DEF Promises

(* The server stores what is on the wire, and it is on no wire any more.    *)
LEMMA HandleKeeps ==
    ASSUME Promises, Handle
    PROVE  /\ Promises'
           /\ \/ stored' = stored
              \/ \E a \in begun : /\ a.n \notin stored \cup removed
                                  /\ stored' = stored \cup {a.n}
<1>1. PICK a \in begun :
        /\ a.n \in wire
        /\ wire' = wire \ {a.n}
        /\ stored' = IF Accepts(a) THEN stored \cup {a.n} ELSE stored
        /\ call' = IF call.n = a.n /\ call.step = "sent"
                   THEN [call EXCEPT !.step = IF Accepts(a) THEN "ok" ELSE "refused"]
                   ELSE call
  BY DEF Handle
<1>2. UNCHANGED <<visit, removed, contexts, begun, signs, consented, consentEvidence,
                  applied, meta>>
  BY DEF Handle, storage, consent
<1>3. a.n \in Numbers /\ Numbers' = Numbers
  BY <1>2 DEF Numbers
<1>4. Numbered' /\ Informed' /\ \A b \in begun' : Proper(b)'
  BY <1>2 DEF Promises, Numbered, Numbers, Informed, Proper, Complete, survey
<1>5. OnlyOnce'
  BY <1>1, <1>2, <1>3 DEF Promises, OnlyOnce
<1>6. ContextIsResponse'
  BY <1>1, <1>2 DEF Promises, ContextIsResponse
<1>7. QED
  BY <1>1, <1>4, <1>5, <1>6 DEF Promises, OnlyOnce

-----------------------------------------------------------------------------
(* A step of the page other than the three above.                           *)
LEMMA OthersKeep ==
    ASSUME Promises, [Next]_vars, ~Submit, ~Handle
    PROVE  /\ Promises'
           /\ begun' = begun /\ visit' = visit
           /\ UNCHANGED <<stored, removed>> \/ SelfDelete
<1> DEFINE Same == UNCHANGED <<visit, stored, removed, wire, contexts, begun>>
           Calm == call' = call \/ call'.step = "idle"
<1>1. CASE UNCHANGED vars
  <2>1. Same /\ Calm /\ Informed'
    BY <1>1 DEF vars, server, storage, consent, sending, Promises, Informed, survey
  <2>2. QED
    BY <2>1, QuietKeeps
<1>2. CASE Reload
  <2>1. Same /\ Calm /\ Informed'
    BY <1>2 DEF Reload, Mount, server, storage, Informed, NoCall
  <2>2. QED
    BY <2>1, QuietKeeps
<1>3. CASE MetaAnswered \/ MetaFailed
  <2>1. Same /\ Calm /\ Informed'
    BY <1>3 DEF MetaAnswered, MetaFailed, server, storage, consent, sending, Promises,
       Informed, survey
  <2>2. QED
    BY <2>1, QuietKeeps
<1>4. CASE Agree
  <2>1. Same /\ Calm
    BY <1>4 DEF Agree, server, storage, sending
  <2>2. Evidence(meta.options, meta.signature, choices, sigChecked, sigImage).agreed
    BY <1>4, EnabledIsAgreed DEF Agree
  <2>3. Informed'
    BY <1>4, <2>2 DEF Agree, server, Promises, Informed, survey
  <2>4. QED
    BY <2>1, <2>3, QuietKeeps
<1>5. CASE SignAnswered \/ SignFailed
  <2>1. PICK s \in signs : Consented(s)
    BY <1>5 DEF SignAnswered, SignFailed
  <2>2. Same /\ Calm
    BY <2>1 DEF Consented, server, storage, sending
  <2>3. Informed'
    BY <2>1 DEF Consented, server, Promises, Informed, survey
  <2>4. QED
    BY <2>2, <2>3, QuietKeeps
<1>6. CASE SubmitFailed
  <2>1. Same /\ Calm /\ Informed'
    BY <1>6 DEF SubmitFailed, server, consent, Promises, Informed, survey, NoCall
  <2>2. QED
    BY <2>1, QuietKeeps
<1>7. CASE KeysAnswered
  <2>1. UNCHANGED <<visit, stored, removed, contexts, begun, signs, consented,
                    consentEvidence, applied, meta>>
        /\ call.step = "keys" /\ wire' = wire \cup {call.n}
        /\ call' = [call EXCEPT !.step = "sent"]
    BY <1>7 DEF KeysAnswered, storage, consent
  <2>2. Numbered' /\ Informed' /\ ContextIsResponse' /\ \A b \in begun' : Proper(b)'
    BY <2>1 DEF Promises, Numbered, Numbers, Informed, Proper, Complete, survey,
       ContextIsResponse
  <2>3. OnlyOnce'
    <3>1. Numbers' = Numbers
      BY <2>1 DEF Numbers
    <3>2. call'.n = call.n /\ call'.step # "ok" /\ call'.step # "keys"
      BY <2>1
    <3>3. QED
      BY <2>1, <3>1, <3>2 DEF Promises, OnlyOnce
  <2>4. QED
    BY <2>1, <2>2, <2>3 DEF Promises
<1>8. CASE Lose
  <2>1. UNCHANGED <<visit, stored, removed, contexts, begun, call, signs, consented,
                    consentEvidence, applied, meta>>
        /\ wire' \subseteq wire
    BY <1>8 DEF Lose, storage, consent, sending
  <2>2. Numbered' /\ Informed' /\ ContextIsResponse' /\ \A b \in begun' : Proper(b)'
    BY <2>1 DEF Promises, Numbered, Numbers, Informed, Proper, Complete, survey,
       ContextIsResponse
  <2>3. OnlyOnce'
    BY <2>1 DEF Promises, OnlyOnce, Numbers
  <2>4. QED
    BY <2>1, <2>2, <2>3 DEF Promises
<1>9. CASE SubmitAnswered
  <2>1. PICK a \in begun :
          /\ a.n = call.n
          /\ contexts' = contexts \cup
               {[n |-> a.n, answers |-> a.answers, evidence |-> a.evidence]}
    BY <1>9 DEF SubmitAnswered
  <2>2. UNCHANGED <<visit, stored, removed, wire, begun, signs, consented,
                    consentEvidence, applied, meta>>
        /\ call.step = "ok" /\ call'.step = "idle"
    BY <1>9 DEF SubmitAnswered, server, consent, NoCall
  <2>3. Numbered' /\ Informed' /\ \A b \in begun' : Proper(b)'
    BY <2>2 DEF Promises, Numbered, Numbers, Informed, Proper, Complete, survey
  <2>4. OnlyOnce'
    BY <2>2 DEF Promises, OnlyOnce, Numbers
  <2>5. ContextIsResponse'
    BY <2>1, <2>2 DEF Promises, OnlyOnce, ContextIsResponse
  <2>6. QED
    BY <2>2, <2>3, <2>4, <2>5 DEF Promises
<1>10. CASE SelfDelete
  <2>1. UNCHANGED <<visit, wire, contexts, begun, call, signs, consented,
                    consentEvidence, applied, meta>>
        /\ going \in stored /\ stored' = stored \ {going}
        /\ removed' = removed \cup {going}
    BY <1>10 DEF SelfDelete, storage, consent, sending
  <2>2. Numbered' /\ Informed' /\ ContextIsResponse' /\ \A b \in begun' : Proper(b)'
    BY <2>1 DEF Promises, Numbered, Numbers, Informed, Proper, Complete, survey,
       ContextIsResponse
  <2>3. OnlyOnce'
    BY <2>1 DEF Promises, OnlyOnce, Numbers
  <2>4. QED
    BY <1>10, <2>1, <2>2, <2>3 DEF Promises
<1>11. CASE \/ SwitchLanguage \/ ItemsAnswered \/ ItemsFailed
            \/ Choose \/ SignForm \/ Decline
            \/ Enter \/ EnterEmail \/ Reset \/ TurnPage \/ SubmitIncomplete
            \/ Back \/ Verified \/ Unverified \/ LockExpires \/ Arrive
  <2>1. Same /\ call' = call
        /\ UNCHANGED <<signs, consented, consentEvidence, applied, meta>>
    BY <1>11 DEF SwitchLanguage, ItemsAnswered, ItemsFailed, Choose, SignForm,
       Decline, Enter, EnterEmail, Reset, TurnPage, SubmitIncomplete, Back,
       Verified, Unverified, LockExpires, Arrive, server, storage, consent, sending
  <2>2. Informed'
    BY <2>1 DEF Promises, Informed, survey
  <2>3. QED
    BY <2>1, <2>2, QuietKeeps
<1>12. QED
  BY <1>1, <1>2, <1>3, <1>4, <1>5, <1>6, <1>7, <1>8, <1>9, <1>10, <1>11
  DEF Next, Network, Respondent, Browser

LEMMA PromisesKept ==
    ASSUME Promises, [Next]_vars
    PROVE  Promises'
BY SubmitKeeps, HandleKeeps, OthersKeep, RespondentAssumption

(* What the page for one's own data is handed is the submission the server  *)
(* acknowledged, as the button captured it (Survey.tsx,                     *)
(* storeSelfContextAndRedirect).                                            *)
THEOREM ContextKept == Spec => []ContextIsResponse
<1>1. Promises /\ [Next]_vars => Promises'
  BY PromisesKept
<1>2. Promises => ContextIsResponse
  BY DEF Promises
<1>3. QED
  BY <1>1, <1>2, PromisesStart, PTL DEF Spec
-----------------------------------------------------------------------------
(* Types.                                                                   *)

ServerTyped ==
    /\ visit \in Visit
    /\ spent \subseteq Nat
    /\ stored \subseteq Nat /\ removed \subseteq Nat /\ wire \subseteq Nat
    /\ lock \in {"off", "fresh", "stale"}
    /\ \A c \in contexts : /\ c.n \in Nat /\ c.answers \in [Item -> Answer]
                           /\ c.evidence \in EvidenceOf
    /\ screen \in {"survey", "home", "self"}

LoadsTyped ==
    /\ lang \in Lang
    /\ metaLoads \subseteq Load /\ itemLoads \subseteq Load /\ switches \in Nat
    /\ meta \in Survey /\ applied \in Lang \cup {"none"} /\ metaReady \in BOOLEAN
    /\ items \in Lang \cup {"none"} /\ loading \in BOOLEAN

ConsentTyped ==
    /\ choices \subseteq Key
    /\ sigChecked \in BOOLEAN /\ sigImage \in BOOLEAN
    /\ \A s \in signs : /\ s.n \in Nat /\ s.evidence \in EvidenceOf
    /\ signed \in Nat /\ consentId \in Nat
    /\ consentEvidence \in EvidenceOf /\ consented \in BOOLEAN

FormTyped ==
    /\ answers \in [Item -> Answer] /\ page \in Nat /\ email \in BOOLEAN
    /\ turnstileToken \in Nat /\ tokens \in Nat

SendingTyped ==
    /\ submitting \in BOOLEAN /\ going \in Nat
    /\ call \in [n : Nat, step : {"idle", "keys", "sent", "ok", "refused"}]
    /\ begun \subseteq AttemptOf

LEMMA Parts ==
    TypeOK <=> ServerTyped /\ LoadsTyped /\ ConsentTyped /\ FormTyped /\ SendingTyped
BY DEF TypeOK, ServerTyped, LoadsTyped, ConsentTyped, FormTyped, SendingTyped

(* The options on the screen, and those the evidence names as required, are *)
(* given by their keys.                                                     *)
LEMMA OptionsByKey ==
    ASSUME NEW options \in Seq(Option), NEW template
    PROVE  /\ ShownOptions(template, options) \subseteq Key
           /\ OptionsRequired(options) \subseteq Key
<1>1. \A i \in DOMAIN options : options[i].key \in Key
  <2>1. \A i \in DOMAIN options : options[i] \in Option
    OBVIOUS
  <2>2. QED
    BY <2>1 DEF Option
<1>2. \A i \in DOMAIN Offered(options) : Offered(options)[i].key \in Key
  <2>1. CASE options = <<>>
    <3>1. DOMAIN Offered(options) = {1, 2, 3}
      BY <2>1 DEF Offered, DefaultOptions
    <3>2. /\ Offered(options)[1].key = "withdrawal"
          /\ Offered(options)[2].key = "data_use"
          /\ Offered(options)[3].key = "recording"
      BY <2>1 DEF Offered, DefaultOptions
    <3>3. QED
      BY <3>1, <3>2, ConsentAssumption
  <2>2. CASE options # <<>>
    BY <1>1, <2>2 DEF Offered
  <2>3. QED
    BY <2>1, <2>2
<1>3. \A pos : RenderOptions(options, pos) \subseteq Key
  BY <1>2 DEF RenderOptions, Showable
<1>4. ShownOptions(template, options) \subseteq Key
  BY <1>3 DEF ShownOptions
<1>5. OptionsRequired(options) \subseteq Key
  BY <1>1 DEF OptionsRequired
<1>6. QED
  BY <1>4, <1>5

LEMMA EvidenceTyped ==
    ASSUME NEW options \in Seq(Option), NEW signature \in BOOLEAN,
           NEW yes \in SUBSET Key, NEW clicked, NEW drawn
    PROVE  Evidence(options, signature, yes, clicked, drawn) \in EvidenceOf
<1>1. OptionsRequired(options) \in SUBSET Key
  BY OptionsByKey
<1>2. SignatureKind(clicked, drawn) \in {"none", "click", "draw"}
  BY DEF SignatureKind
<1>3. OverallAgreed(options, signature, yes, clicked \/ drawn) \in BOOLEAN
  BY DEF OverallAgreed
<1>4. QED
  BY <1>1, <1>2, <1>3 DEF Evidence, EvidenceOf

(* The first of some items is one of them.                                  *)
LEMMA FirstIsOne ==
    ASSUME NEW set \in SUBSET Nat, set # {}
    PROVE  FirstOf(set) \in set
<1>1. PICK i \in set : \A j \in set : <<j, i>> \notin OpToRel(<, Nat)
  BY NatLessThanWellFounded, WFMin
<1>2. \A j \in set : ~(j < i)
  BY <1>1 DEF OpToRel
<1>3. \A j \in set : i <= j
  BY <1>2
<1>4. QED
  BY <1>3 DEF FirstOf

(* A page shown is a number, the first if none are left out.                *)
LEMMA PageIsNumber ==
    ASSUME NEW i \in Nat, i > 0, page \in Nat, meta.perPage \in Nat
    PROVE  PageOf(i) \in Nat
<1>1. CASE meta.perPage > 0
  <2> DEFINE k == meta.perPage
             j == i - 1
  <2>1. j \in Nat /\ k \in Nat /\ k > 0
    BY <1>1
  <2>2. PageOf(i) = (j \div k) + 1
    BY <1>1 DEF PageOf
  <2> HIDE DEF j, k
  <2>3. j \div k \in Nat
    BY <2>1
  <2>4. QED
    BY <2>2, <2>3
<1>2. CASE ~(meta.perPage > 0)
  BY <1>2 DEF PageOf
<1>3. QED
  BY <1>1, <1>2

LEMMA TypesStart == Init => TypeOK
<1> SUFFICES ASSUME Init PROVE TypeOK
  OBVIOUS
<1>1. NoEvidence \in EvidenceOf
  BY DEF NoEvidence, EvidenceOf
<1>2. Defaults \in Survey
  BY DEF Defaults, Survey
<1>3. ServerTyped
  BY RespondentAssumption DEF Init, ServerTyped
<1>4. LoadsTyped
  <2>1. [n |-> 0, lang |-> "en"] \in Load
    BY DEF Load, Lang
  <2>2. QED
    BY <1>2, <2>1 DEF Init, LoadsTyped, Lang
<1>5. ConsentTyped /\ FormTyped /\ SendingTyped
  BY <1>1 DEF Init, ConsentTyped, FormTyped, SendingTyped, Answer, NoCall
<1>6. QED
  BY <1>3, <1>4, <1>5, Parts

(* What the server and the browser keep.                                    *)
LEMMA ServerStaysTyped ==
    ASSUME TypeOK, Promises, [Next]_vars
    PROVE  ServerTyped'
<1> USE Parts
<1>0. Cardinality(begun) \in Nat
  BY FS_CardinalityType DEF Promises, Numbered
<1>1. CASE Submit
  <2>1. Attempt.n \in Nat
    BY <1>0 DEF Attempt
  <2>2. wire' \subseteq wire \cup {Attempt.n} /\ lock' = "fresh"
        /\ UNCHANGED <<visit, spent, stored, removed, contexts, screen>>
    BY <1>1 DEF Submit
  <2>3. QED
    BY <2>1, <2>2 DEF ServerTyped
<1>2. CASE KeysAnswered
  <2>1. wire' = wire \cup {call.n}
        /\ UNCHANGED <<visit, spent, stored, removed, lock, contexts, screen>>
    BY <1>2 DEF KeysAnswered, storage
  <2>2. call.n \in Nat
    BY DEF SendingTyped
  <2>3. QED
    BY <2>1, <2>2 DEF ServerTyped
<1>3. CASE Handle
  <2>1. PICK a \in begun :
          /\ wire' = wire \ {a.n}
          /\ spent' \subseteq spent \cup {a.token}
          /\ stored' \subseteq stored \cup {a.n}
    BY <1>3 DEF Handle
  <2>2. UNCHANGED <<visit, removed, lock, contexts, screen>>
    BY <1>3 DEF Handle, storage
  <2>3. a.n \in Nat /\ a.token \in Nat
    BY DEF SendingTyped, AttemptOf
  <2>4. QED
    BY <2>1, <2>2, <2>3 DEF ServerTyped
<1>4. CASE SubmitAnswered
  <2>1. PICK a \in begun :
          contexts' = contexts \cup
            {[n |-> a.n, answers |-> a.answers, evidence |-> a.evidence]}
    BY <1>4 DEF SubmitAnswered
  <2>2. UNCHANGED <<visit, spent, stored, removed, wire, lock, screen>>
    BY <1>4 DEF SubmitAnswered, server
  <2>3. a.n \in Nat /\ a.answers \in [Item -> Answer] /\ a.evidence \in EvidenceOf
    BY DEF SendingTyped, AttemptOf
  <2>4. QED
    BY <2>1, <2>2, <2>3 DEF ServerTyped
<1>5. CASE Lose \/ SelfDelete
  <2>1. going \in Nat
    BY DEF SendingTyped
  <2>2. wire' \subseteq wire /\ stored' \subseteq stored
        /\ removed' \subseteq removed \cup {going}
        /\ UNCHANGED <<visit, spent, lock, contexts, screen>>
    BY <1>5 DEF Lose, SelfDelete, storage
  <2>3. QED
    BY <2>1, <2>2 DEF ServerTyped
<1>6. CASE \/ Reload \/ SwitchLanguage \/ MetaAnswered \/ MetaFailed
           \/ ItemsAnswered \/ ItemsFailed \/ Choose \/ SignForm \/ Agree
           \/ SignAnswered \/ SignFailed \/ Decline \/ Enter \/ EnterEmail \/ Reset
           \/ TurnPage \/ SubmitIncomplete \/ SubmitFailed \/ Verified \/ Unverified
           \/ LockExpires \/ Arrive \/ Back \/ UNCHANGED vars
  <2>1. UNCHANGED <<visit, spent, stored, removed, wire, contexts>>
        /\ lock' \in {lock, "off", "stale"}
        /\ screen' \in {screen, "survey", "home", "self"}
    BY <1>6 DEF Reload, Mount, SwitchLanguage, MetaAnswered, MetaFailed,
       ItemsAnswered, ItemsFailed, Choose, SignForm, Agree, SignAnswered, SignFailed,
       Consented, Decline, Enter, EnterEmail, Reset, TurnPage, SubmitIncomplete,
       SubmitFailed, Verified, Unverified, LockExpires, Arrive, Back, vars, server,
       storage
  <2>2. QED
    BY <2>1 DEF ServerTyped
<1>7. QED
  BY <1>1, <1>2, <1>3, <1>4, <1>5, <1>6 DEF Next, Network, Respondent, Browser

(* The settings, the items and the requests for them.                       *)
LEMMA LoadsStayTyped ==
    ASSUME TypeOK, [Next]_vars
    PROVE  LoadsTyped'
<1> USE Parts
<1>1. survey \in Survey
  BY DEF ServerTyped, Visit, survey
<1>2. Defaults \in Survey
  BY DEF Defaults, Survey
<1>3. switches \in Nat /\ lang \in Lang
  BY DEF LoadsTyped
<1>4. CASE Reload
  <2>1. lang' = lang /\ switches' = switches
        /\ metaLoads' = {[n |-> switches, lang |-> lang]} /\ itemLoads' = {}
        /\ meta' = Defaults /\ applied' = "none" /\ metaReady' = FALSE
        /\ items' = "none" /\ loading' = FALSE
    BY <1>4 DEF Reload, Mount
  <2>2. [n |-> switches, lang |-> lang] \in Load
    BY <1>3 DEF Load
  <2>3. QED
    BY <1>2, <1>3, <2>1, <2>2 DEF LoadsTyped
<1>5. CASE SwitchLanguage
  <2>1. lang' \in Lang
    BY <1>3, <1>5 DEF SwitchLanguage, Lang
  <2>2. switches + 1 \in Nat /\ [n |-> switches + 1, lang |-> lang'] \in Load
    BY <1>3, <2>1 DEF Load
  <2>3. switches' = switches + 1 /\ metaReady' = FALSE
        /\ metaLoads' = metaLoads \cup {[n |-> switches + 1, lang |-> lang']}
        /\ itemLoads' \subseteq itemLoads \cup {[n |-> switches + 1, lang |-> lang']}
        /\ loading' \in {loading, TRUE}
        /\ UNCHANGED <<meta, applied, items>>
    BY <1>5 DEF SwitchLanguage
  <2>4. QED
    BY <2>1, <2>2, <2>3 DEF LoadsTyped
<1>6. CASE MetaAnswered \/ MetaFailed
  <2>1. metaLoads' \subseteq metaLoads /\ metaReady' = TRUE
        /\ UNCHANGED <<lang, itemLoads, switches, items, loading>>
    BY <1>6 DEF MetaAnswered, MetaFailed
  <2>2. meta' \in {meta, survey}
        /\ (applied' = applied \/ \E l \in metaLoads : applied' = l.lang)
    BY <1>6 DEF MetaAnswered, MetaFailed
  <2>3. \A l \in metaLoads : l.lang \in Lang
    BY DEF LoadsTyped, Load
  <2>4. QED
    BY <1>1, <2>1, <2>2, <2>3 DEF LoadsTyped
<1>7. CASE ItemsAnswered \/ ItemsFailed
  <2>1. itemLoads' \subseteq itemLoads /\ loading' = FALSE
        /\ UNCHANGED <<lang, metaLoads, switches, meta, applied, metaReady>>
    BY <1>7 DEF ItemsAnswered, ItemsFailed
  <2>2. items' = items \/ \E l \in itemLoads : items' = l.lang
    BY <1>7 DEF ItemsAnswered, ItemsFailed
  <2>3. \A l \in itemLoads : l.lang \in Lang
    BY DEF LoadsTyped, Load
  <2>4. QED
    BY <2>1, <2>2, <2>3 DEF LoadsTyped
<1>8. CASE SignAnswered \/ SignFailed
  <2>1. itemLoads' \subseteq itemLoads \cup {[n |-> switches, lang |-> lang]}
        /\ loading' \in {loading, TRUE}
        /\ UNCHANGED <<lang, metaLoads, switches, meta, applied, metaReady, items>>
    BY <1>8 DEF SignAnswered, SignFailed, Consented
  <2>2. [n |-> switches, lang |-> lang] \in Load
    BY <1>3 DEF Load
  <2>3. QED
    BY <2>1, <2>2 DEF LoadsTyped
<1>9. CASE \/ Choose \/ SignForm \/ Agree \/ Decline \/ Enter \/ EnterEmail \/ Reset
           \/ TurnPage \/ SubmitIncomplete \/ Submit \/ KeysAnswered \/ Handle \/ Lose
           \/ SubmitAnswered \/ SubmitFailed \/ Verified \/ Unverified \/ LockExpires
           \/ Arrive \/ Back \/ SelfDelete \/ UNCHANGED vars
  <2>1. UNCHANGED <<lang, metaLoads, itemLoads, switches, meta, applied, metaReady,
                    items, loading>>
    BY <1>9 DEF Choose, SignForm, Agree, Decline, Enter, EnterEmail, Reset, TurnPage,
       SubmitIncomplete, Submit, KeysAnswered, Handle, Lose, SubmitAnswered,
       SubmitFailed, Verified, Unverified, LockExpires, Arrive, Back, SelfDelete,
       vars, loads
  <2>2. QED
    BY <2>1 DEF LoadsTyped
<1>10. QED
  BY <1>4, <1>5, <1>6, <1>7, <1>8, <1>9 DEF Next, Network, Respondent, Browser

(* The consent screen.                                                      *)
LEMMA ConsentStaysTyped ==
    ASSUME TypeOK, [Next]_vars
    PROVE  ConsentTyped'
<1> USE Parts
<1>1. meta.options \in Seq(Option) /\ meta.signature \in BOOLEAN
  BY DEF LoadsTyped, Survey
<1>2. CASE Reload
  <2>1. NoEvidence \in EvidenceOf
    BY DEF NoEvidence, EvidenceOf
  <2>2. QED
    BY <1>2, <2>1 DEF Reload, Mount, ConsentTyped
<1>3. CASE Choose
  <2>1. PICK k \in ShownOptions(meta.template, meta.options) :
          choices' \in {choices \cup {k}, choices \ {k}}
    BY <1>3 DEF Choose
  <2>2. k \in Key
    BY <1>1, OptionsByKey
  <2>3. UNCHANGED <<sigChecked, sigImage, signs, signed, consentId, consentEvidence,
                    consented>>
    BY <1>3 DEF Choose
  <2>4. QED
    BY <2>1, <2>2, <2>3 DEF ConsentTyped
<1>4. CASE SignForm
  BY <1>4 DEF SignForm, ConsentTyped
<1>5. CASE Agree
  <2>1. Evidence(meta.options, meta.signature, choices, sigChecked, sigImage)
          \in EvidenceOf
    BY <1>1, EvidenceTyped DEF ConsentTyped
  <2>2. QED
    BY <1>5, <2>1 DEF Agree, ConsentTyped
<1>6. CASE SignAnswered \/ SignFailed
  <2>1. PICK s \in signs : Consented(s) /\ consentId' \in {consentId, s.n}
    BY <1>6 DEF SignAnswered, SignFailed
  <2>2. UNCHANGED <<choices, sigChecked, sigImage, signed>> /\ signs' \subseteq signs
        /\ consentEvidence' = s.evidence /\ consented' = TRUE
    BY <2>1 DEF Consented
  <2>3. QED
    BY <2>1, <2>2 DEF ConsentTyped
<1>7. CASE \/ SwitchLanguage \/ MetaAnswered \/ MetaFailed \/ ItemsAnswered
           \/ ItemsFailed \/ Decline \/ Enter \/ EnterEmail \/ Reset
           \/ TurnPage \/ SubmitIncomplete \/ Submit \/ KeysAnswered \/ Handle \/ Lose
           \/ SubmitAnswered \/ SubmitFailed \/ Verified \/ Unverified \/ LockExpires
           \/ Arrive \/ Back \/ SelfDelete \/ UNCHANGED vars
  <2>1. UNCHANGED consent
    BY <1>7 DEF SwitchLanguage, MetaAnswered, MetaFailed, ItemsAnswered, ItemsFailed,
       Decline, Enter, EnterEmail, Reset, TurnPage, SubmitIncomplete, Submit,
       KeysAnswered, Handle, Lose, SubmitAnswered, SubmitFailed, Verified, Unverified,
       LockExpires, Arrive, Back, SelfDelete, vars
  <2>2. QED
    BY <2>1 DEF consent, ConsentTyped
<1>8. QED
  BY <1>2, <1>3, <1>4, <1>5, <1>6, <1>7 DEF Next, Network, Respondent, Browser

(* The form: the answers are texts or options of a language, the page is a  *)
(* number.                                                                  *)
LEMMA FormStaysTyped ==
    ASSUME TypeOK, [Next]_vars
    PROVE  FormTyped'
<1> USE Parts
<1>1. CASE Reload
  BY <1>1 DEF Reload, Mount, FormTyped, Answer
<1>2. CASE Enter
  <2>1. PICK i \in Visible : \E v \in Values[i] :
          answers' = [answers EXCEPT ![i] = IF v = "option" THEN items ELSE v]
    BY <1>2 DEF Enter
  <2>2. i \in Item
    BY RespondentAssumption DEF Visible, Total, Item
  <2>3. PICK v \in Values[i] :
          answers' = [answers EXCEPT ![i] = IF v = "option" THEN items ELSE v]
    BY <2>1
  <2>4. v \in {"empty", "spaces", "text", "option"}
    BY <2>2, RespondentAssumption
  <2>5. (IF v = "option" THEN items ELSE v) \in Answer
    BY <2>4 DEF LoadsTyped, Answer
  <2>6. UNCHANGED <<page, email, turnstileToken, tokens>>
    BY <1>2 DEF Enter
  <2>7. QED
    BY <2>3, <2>5, <2>6 DEF FormTyped
<1>3. CASE Reset
  BY <1>3 DEF Reset, FormTyped, Answer
<1>4. CASE MetaAnswered \/ TurnPage
  <2>1. UNCHANGED form
    BY <1>4 DEF MetaAnswered, TurnPage
  <2>2. page' = 1 \/ (page > 1 /\ page' = page - 1) \/ page' = page + 1
    BY <1>4 DEF MetaAnswered, TurnPage
  <2>3. page' \in Nat
    BY <2>2 DEF FormTyped
  <2>4. QED
    BY <2>1, <2>3 DEF FormTyped, form
<1>5. CASE SubmitIncomplete
  <2> DEFINE M == Missing(1..Total)
  <2>1. M \in SUBSET Nat /\ M # {} /\ \A i \in M : i > 0
    BY <1>5, RespondentAssumption DEF SubmitIncomplete, Missing, Total
  <2>2. FirstOf(M) \in M
    BY <2>1, FirstIsOne
  <2>3. meta.perPage \in Nat /\ page \in Nat
    BY DEF LoadsTyped, FormTyped, Survey
  <2>4. PageOf(FirstOf(M)) \in Nat
    BY <2>1, <2>2, <2>3, PageIsNumber
  <2>5. UNCHANGED form /\ page' = PageOf(FirstOf(M))
    BY <1>5 DEF SubmitIncomplete
  <2>6. QED
    BY <2>4, <2>5 DEF FormTyped, form
<1>6. CASE EnterEmail \/ Verified \/ Unverified
  <2>1. tokens + 1 \in Nat
    BY DEF FormTyped
  <2>2. UNCHANGED <<answers, page>>
        /\ tokens' \in {tokens, tokens + 1}
        /\ turnstileToken' \in {turnstileToken, 0, tokens + 1}
    BY <1>6 DEF EnterEmail, Verified, Unverified
  <2>3. email' \in BOOLEAN
    BY <1>6 DEF EnterEmail, Verified, Unverified, FormTyped
  <2>4. QED
    BY <2>1, <2>2, <2>3 DEF FormTyped
<1>7. CASE \/ SwitchLanguage \/ MetaFailed \/ ItemsAnswered \/ ItemsFailed \/ Choose
           \/ SignForm \/ Agree \/ SignAnswered \/ SignFailed \/ Decline \/ Submit
           \/ KeysAnswered \/ Handle \/ Lose \/ SubmitAnswered \/ SubmitFailed
           \/ LockExpires \/ Arrive \/ Back \/ SelfDelete \/ UNCHANGED vars
  <2>1. UNCHANGED <<form, page>>
    BY <1>7 DEF SwitchLanguage, MetaFailed, ItemsAnswered, ItemsFailed, Choose,
       SignForm, Agree, SignAnswered, SignFailed, Consented, Decline, Submit,
       KeysAnswered, Handle, Lose, SubmitAnswered, SubmitFailed, LockExpires, Arrive,
       Back, SelfDelete, vars
  <2>2. QED
    BY <2>1 DEF form, FormTyped
<1>8. QED
  BY <1>1, <1>2, <1>3, <1>4, <1>5, <1>6, <1>7 DEF Next, Network, Respondent, Browser

(* The submission under way and the attempts.                               *)
LEMMA SendingStaysTyped ==
    ASSUME TypeOK, Promises, [Next]_vars
    PROVE  SendingTyped'
<1> USE Parts
<1>1. CASE Reload
  BY <1>1 DEF Reload, Mount, SendingTyped, NoCall
<1>2. CASE Submit
  <2>1. Cardinality(begun) \in Nat
    BY FS_CardinalityType DEF Promises, Numbered
  <2>2. meta.e2ee \in BOOLEAN
    BY DEF LoadsTyped, Survey
  <2>3. Attempt \in AttemptOf
    BY <2>1, <2>2 DEF Attempt, AttemptOf, ConsentTyped, FormTyped
  <2>4. Attempt.n \in Nat
    BY <2>1 DEF Attempt
  <2>5. begun' = begun \cup {Attempt} /\ submitting' = TRUE /\ going' = going
        /\ (call' = [n |-> Attempt.n, step |-> "keys"]
            \/ call' = [n |-> Attempt.n, step |-> "sent"])
    BY <1>2 DEF Submit
  <2>6. QED
    BY <2>3, <2>4, <2>5 DEF SendingTyped
<1>3. CASE KeysAnswered \/ Handle
  <2>1. call' = call \/ \E t \in {"sent", "ok", "refused"} :
                          call' = [call EXCEPT !.step = t]
    BY <1>3 DEF KeysAnswered, Handle
  <2>2. UNCHANGED <<submitting, going, begun>>
    BY <1>3 DEF KeysAnswered, Handle
  <2>3. QED
    BY <2>1, <2>2 DEF SendingTyped
<1>4. CASE SubmitAnswered \/ SubmitFailed
  <2>1. submitting' = FALSE /\ call' = NoCall /\ begun' = begun
        /\ going' \in {going, call.n}
    BY <1>4 DEF SubmitAnswered, SubmitFailed
  <2>2. call.n \in Nat /\ NoCall \in [n : Nat, step : {"idle"}]
    BY DEF SendingTyped, NoCall
  <2>3. QED
    BY <2>1, <2>2 DEF SendingTyped, NoCall
<1>5. CASE Back
  BY <1>5 DEF Back, SendingTyped
<1>6. CASE \/ SwitchLanguage \/ MetaAnswered \/ MetaFailed \/ ItemsAnswered
           \/ ItemsFailed \/ Choose \/ SignForm \/ Agree \/ SignAnswered \/ SignFailed
           \/ Decline \/ Enter \/ EnterEmail \/ Reset \/ TurnPage \/ SubmitIncomplete
           \/ Lose \/ Verified \/ Unverified \/ LockExpires \/ Arrive \/ SelfDelete
           \/ UNCHANGED vars
  <2>1. UNCHANGED sending
    BY <1>6 DEF SwitchLanguage, MetaAnswered, MetaFailed, ItemsAnswered, ItemsFailed,
       Choose, SignForm, Agree, SignAnswered, SignFailed, Consented, Decline, Enter,
       EnterEmail, Reset, TurnPage, SubmitIncomplete, Lose, Verified, Unverified,
       LockExpires, Arrive, SelfDelete, vars
  <2>2. QED
    BY <2>1 DEF sending, SendingTyped
<1>7. QED
  BY <1>1, <1>2, <1>3, <1>4, <1>5, <1>6 DEF Next, Network, Respondent, Browser

(* The page's state, what its requests carry and what the server and the    *)
(* browser keep of them have their types (Survey.tsx): in particular an     *)
(* answer is one the form can hold, the page a number, and the evidence     *)
(* names options by their keys.                                             *)
THEOREM RespondentTyped == Spec => []TypeOK
<1>1. Promises /\ TypeOK /\ [Next]_vars => Promises' /\ TypeOK'
  <2> SUFFICES ASSUME Promises, TypeOK, [Next]_vars PROVE Promises' /\ TypeOK'
    OBVIOUS
  <2>1. ServerTyped' /\ LoadsTyped' /\ ConsentTyped' /\ FormTyped' /\ SendingTyped'
    BY ServerStaysTyped, LoadsStayTyped, ConsentStaysTyped, FormStaysTyped,
       SendingStaysTyped
  <2>2. TypeOK'
    BY <2>1 DEF TypeOK, ServerTyped, LoadsTyped, ConsentTyped, FormTyped, SendingTyped
  <2>3. QED
    BY <2>2, PromisesKept
<1>2. QED
  BY <1>1, PromisesStart, TypesStart, PTL DEF Spec
-----------------------------------------------------------------------------
(* Refinement                                                               *)

Held == submitting \/ IsSubmitLocked
Attempts == {Promised(a) : a \in begun}

(* Nothing but the button takes hold.                                       *)
LEMMA OthersRelease ==
    ASSUME [Next]_vars, ~Submit
    PROVE  /\ Held' => Held
           /\ Handle \/ SelfDelete => Held' = Held
<1>1. (lock' = "fresh" => lock = "fresh") /\ (submitting' => submitting)
  BY DEF vars, server, storage, consent, form, sending, loads, Next, Network,
     Respondent, Browser, Reload, Mount, SwitchLanguage, MetaAnswered, MetaFailed,
     ItemsAnswered, ItemsFailed, Choose, SignForm, Agree, Consented, SignAnswered,
     SignFailed, Decline, Enter, EnterEmail, Reset, TurnPage, SubmitIncomplete,
     Back, SelfDelete, KeysAnswered, Handle, Lose, SubmitAnswered, SubmitFailed,
     Verified, Unverified, LockExpires, Arrive
<1>2. Handle \/ SelfDelete => lock' = lock /\ submitting' = submitting
  BY DEF Handle, SelfDelete, storage, sending
<1>3. QED
  BY <1>1, <1>2 DEF Held, IsSubmitLocked

(* Initially there is no attempt.                                           *)
LEMMA PromiseStarts == Init => Promise!Init
BY DEF Init, Promise!Init, IsSubmitLocked

(* A step of the page is a step of Submission or changes nothing there.     *)
LEMMA PromiseSteps ==
    ASSUME Promises, [Next]_vars
    PROVE  [Promise!Next]_(Promise!vars)
<1>1. CASE Submit
  <2>1. /\ begun' = begun \cup {Attempt} /\ Attempt.n \in 1..MaxAttempts
        /\ Attempt.n \notin Numbers
        /\ Proper(Attempt)
    BY <1>1, SubmitKeeps
  <2>2. /\ ~Held /\ Held'
        /\ UNCHANGED <<visit, stored, removed>>
    BY <1>1 DEF Submit, CanPress, Held, IsSubmitLocked
  <2>3. Promised(Attempt) = [n |-> Attempt.n, complete |-> TRUE, agreed |-> TRUE,
                             exposed |-> FALSE]
    BY <2>1 DEF Proper, Promised, ReceiptOfSelf
  <2>4. Promised(Attempt) \in Promise!Proper
    BY <2>1, <2>3 DEF Promise!Proper
  <2>5. Attempts' = Attempts \cup {Promised(Attempt)}
    BY <2>1, <2>2 DEF Attempts, Promised, Complete, ReceiptOfSelf, survey
  <2>6. \A q \in Attempts : q.n # Promised(Attempt).n
    BY <2>1 DEF Attempts, Promised, Numbers
  <2>7. Promise!Begin
    BY <2>2, <2>4, <2>5, <2>6 DEF Promise!Begin, Attempts, Held
  <2>8. QED
    BY <2>7 DEF Promise!Next
<1>2. CASE Handle
  <2>1. UNCHANGED <<visit, removed, begun>> /\ Held' = Held
    BY <1>2, OthersRelease DEF Handle, sending, Submit
  <2>2. Attempts' = Attempts
    BY <2>1 DEF Attempts, Promised, Complete, ReceiptOfSelf, survey
  <2>3. CASE stored' = stored
    BY <2>1, <2>2, <2>3 DEF Promise!vars, Attempts, Held
  <2>4. CASE \E a \in begun : /\ a.n \notin stored \cup removed
                             /\ stored' = stored \cup {a.n}
    <3>1. PICK a \in begun : /\ a.n \notin stored \cup removed
                             /\ stored' = stored \cup {a.n}
      BY <2>4
    <3>2. Promised(a) \in Attempts /\ Promised(a).n = a.n
      BY DEF Attempts, Promised
    <3>3. Promise!Store
      BY <2>1, <2>2, <3>1, <3>2 DEF Promise!Store, Attempts, Held
    <3>4. QED
      BY <3>3 DEF Promise!Next
  <2>5. QED
    BY <1>2, <2>3, <2>4, HandleKeeps
<1>3. CASE ~Submit /\ ~Handle
  <2>1. /\ begun' = begun /\ visit' = visit
        /\ UNCHANGED <<stored, removed>> \/ SelfDelete
    BY <1>3, OthersKeep
  <2>2. Attempts' = Attempts
    BY <2>1 DEF Attempts, Promised, Complete, ReceiptOfSelf, survey
  <2>3. CASE SelfDelete
    <3>1. Promise!Remove
      BY <1>3, <2>2, <2>3, OthersRelease DEF SelfDelete, Promise!Remove, Attempts, Held
    <3>2. QED
      BY <3>1 DEF Promise!Next
  <2>4. CASE UNCHANGED <<stored, removed>>
    <3>1. CASE Held' = Held
      BY <2>2, <2>4, <3>1 DEF Promise!vars, Attempts, Held
    <3>2. CASE Held' # Held
      <4>1. Held /\ Held' = FALSE
        BY <1>3, <3>2, OthersRelease DEF Held
      <4>2. Promise!Release
        BY <2>2, <2>4, <4>1 DEF Promise!Release, Attempts, Held
      <4>3. QED
        BY <4>2 DEF Promise!Next
    <3>3. QED
      BY <3>1, <3>2
  <2>5. QED
    BY <2>1, <2>3, <2>4
<1>4. QED
  BY <1>1, <1>2, <1>3

(* The page keeps its promise: it implements Submission (Survey.tsx, the    *)
(* submit button, the lock and what they send).                             *)
THEOREM PromiseIsKept == Spec => PromiseKept
<1>1. Promises /\ [Next]_vars => Promises'
  BY PromisesKept
<1>2. Promises /\ [Next]_vars => [Promise!Next]_(Promise!vars)
  BY PromiseSteps
<1>3. Init => Promise!Init
  BY PromiseStarts
<1>4. QED
  BY <1>1, <1>2, <1>3, PromisesStart, PTL DEF Spec, PromiseKept, Promise!Spec
=============================================================================
