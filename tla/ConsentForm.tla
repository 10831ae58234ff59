----------------------------- MODULE ConsentForm -----------------------------
(***************************************************************************)
(* The consent screen of a survey as Survey.tsx computes it: where the     *)
(* author's text places the options, which of them are shown, when the     *)
(* Agree button is enabled, and what the evidence and the receipt say.     *)
(*                                                                         *)
(* An option is a record of its key, whether it is required, and its group.*)
(* A template is the sequence of markers in the author's text; text between*)
(* markers is left out, and <<>> is a survey without a text of its own.    *)
(***************************************************************************)
EXTENDS Naturals, Sequences, FiniteSets

CONSTANTS
    Key,            \* the keys of options
    WellFormed      \* those of lower-case letters, digits, _ and -

ASSUME ConsentAssumption == {"withdrawal", "data_use", "recording"} \subseteq Key

Option == [key : Key, required : BOOLEAN, group : Nat]

(* [[CONSENT]], [[CONSENT1]], [[CONSENT:options]], ... are brackets with a  *)
(* number (0: none) and an argument; <consent-options/> ... are elements.   *)
Marker ==
    [form : {"bracket", "element"}, number : Nat,
     arg : {"", "interactive", "option=", "options=", "options", "option",
            "signature", "other"}]

(* tokenizeConsentTemplate: keys named by option= are ignored, an argument  *)
(* that is unknown counts as none, a signature has no number.               *)
Token(marker) ==
    [t |-> IF marker.arg \in {"option=", "options=", "options"} THEN "options"
           ELSE IF marker.arg = "signature" THEN "signature" ELSE "interactive",
     group |-> IF marker.arg = "signature" THEN 0 ELSE marker.number]

(* Elements are cut out of the text and place nothing: the branch for them  *)
(* asks for a group of the match that only brackets have.                   *)
Tokens(template) ==
    {Token(template[i]) : i \in {j \in DOMAIN template : template[j].form = "bracket"}}

(* The API leaves out an empty list of options, so the page sees none.      *)
DefaultOptions ==
    <<[key |-> "withdrawal", required |-> TRUE, group |-> 0],
      [key |-> "data_use", required |-> TRUE, group |-> 0],
      [key |-> "recording", required |-> FALSE, group |-> 0]>>

Offered(options) == IF options = <<>> THEN DefaultOptions ELSE options

(* The positions of the options that can be shown: a key is well formed and *)
(* shown once.                                                              *)
Showable(list) ==
    {i \in DOMAIN list : /\ list[i].key \in WellFormed
                         /\ \A j \in 1..(i - 1) : list[j].key # list[i].key}

(* renderOptions: all of them, or the one that is pos-th in this order.     *)
RenderOptions(options, pos) ==
    LET list == Offered(options)
        rank(i) == Cardinality({j \in Showable(list) : j <= i})
    IN  {list[i].key : i \in {j \in Showable(list) : pos = 0 \/ rank(j) = pos}}

(* The options on the screen: where the text places them, else below it.    *)
ShownOptions(template, options) ==
    LET inline == {tok \in Tokens(template) : tok.t \in {"interactive", "options"}}
    IN  IF inline = {} THEN RenderOptions(options, 0)
        ELSE UNION {RenderOptions(options, tok.group) : tok \in inline}

(* The Agree button asks for these, whether or not they are on the screen.  *)
Demanded(options) ==
    LET list == Offered(options)
    IN  {list[i].key : i \in {j \in DOMAIN list : list[j].required}}

(* signed: the click or the drawing.  A required signature is always shown. *)
AgreeEnabled(options, signatureRequired, yes, signed) ==
    /\ Demanded(options) \subseteq yes
    /\ signatureRequired => signed

(* summary.options_required: the survey's own options, not the defaults.  Of*)
(* two options with one key the later one counts (Object.fromEntries).      *)
OptionsRequired(options) ==
    {options[i].key : i \in {j \in DOMAIN options :
        /\ options[j].required
        /\ \A k \in (j + 1)..Len(options) : options[k].key # options[j].key}}

OverallAgreed(options, signatureRequired, yes, signed) ==
    /\ OptionsRequired(options) \subseteq yes
    /\ signatureRequired => signed

SignatureKind(clicked, drawn) ==
    IF drawn THEN "draw" ELSE IF clicked THEN "click" ELSE "none"

(* The evidence handleConsentAgree builds at the click.                     *)
Evidence(options, signatureRequired, yes, clicked, drawn) ==
    [options |-> yes,
     kind |-> SignatureKind(clicked, drawn),
     needsSignature |-> signatureRequired,
     required |-> OptionsRequired(options),
     agreed |-> OverallAgreed(options, signatureRequired, yes, clicked \/ drawn)]

(* Does a receipt printed from the evidence say that consent was given?  The*)
(* page of the survey works it out again (downloadConsentPDF), the page for *)
(* one's own data believes the summary.                                     *)
ReceiptOfSurvey(options, ev) ==
    /\ OptionsRequired(options) \subseteq ev.options
    /\ ev.needsSignature => ev.kind # "none"

ReceiptOfSelf(ev) == ev.agreed
=============================================================================
