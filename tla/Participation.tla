--------------------------- MODULE Participation ---------------------------
(***************************************************************************)
(* What the survey promises about the data of its participants, without    *)
(* saying how.  A participant is registered once and leaves once.  Answers *)
(* are recorded only between the registration and the moment its           *)
(* respondent is told that the submission is complete; from then on they   *)
(* can only be lost.  A participant may be reported as forgotten once it   *)
(* has left and no answer is recorded.                                     *)
(*                                                                         *)
(* Linked says that an answer cannot be kept without its participant.  If  *)
(* it can, leaving does not end a submission, and forgetting is promised   *)
(* of those only who were told that theirs is complete.                    *)
(***************************************************************************)
CONSTANTS Participant, Item, Linked

VARIABLES
    life,       \* where each participant is in its life
    answers,    \* pairs of a participant and an item it answered
    told,       \* participants whose respondents know them
    forgotten   \* participants reported as erased

vars == <<life, answers, told, forgotten>>

AnswersOf(p) == answers \cap ({p} \X Item)

Init ==
    /\ life = [p \in Participant |-> "expected"]
    /\ answers = {} /\ told = {} /\ forgotten = {}

Register(p) ==
    /\ life[p] = "expected"
    /\ life' = [life EXCEPT ![p] = "registered"]
    /\ UNCHANGED <<answers, told, forgotten>>

Record(p) ==
    /\ life[p] # "expected" /\ (Linked => life[p] = "registered")
    /\ p \notin told
    /\ \E i \in Item : answers' = answers \cup {<<p, i>>}
    /\ UNCHANGED <<life, told, forgotten>>

Tell(p) ==
    /\ life[p] # "expected" /\ p \notin told
    /\ told' = told \cup {p}
    /\ UNCHANGED <<life, answers, forgotten>>

(* Items, scales and whole sets of answers may be deleted at any time. *)
Lose ==
    /\ answers' \in SUBSET answers
    /\ UNCHANGED <<life, told, forgotten>>

Leave(p) ==
    /\ life[p] = "registered"
    /\ life' = [life EXCEPT ![p] = "left"]
    /\ answers' \in {answers, answers \ AnswersOf(p)}
    /\ Linked => answers' = answers \ AnswersOf(p)
    /\ UNCHANGED <<told, forgotten>>

Forget(p) ==
    /\ life[p] = "left" /\ AnswersOf(p) = {}
    /\ Linked \/ p \in told
    /\ forgotten' = forgotten \cup {p}
    /\ UNCHANGED <<life, answers, told>>

Next ==
    \/ \E p \in Participant :
        Register(p) \/ Record(p) \/ Tell(p) \/ Leave(p) \/ Forget(p)
    \/ Lose

Spec == Init /\ [][Next]_vars

(* Who was reported as forgotten has left for ever, without an answer. *)
ForgottenForEver ==
    /\ forgotten \subseteq Participant
    /\ \A p \in forgotten :
          life[p] = "left" /\ AnswersOf(p) = {} /\ (Linked \/ p \in told)
=============================================================================
