----------------------------- MODULE Submission -----------------------------
(***************************************************************************)
(* What the respondent's page promises about submissions, without saying   *)
(* how.  An attempt to submit is begun only while none is held: the one    *)
(* before was reported as failed, or the time in which a second click is   *)
(* taken for a double click has passed.  What is submitted is complete and *)
(* agreed to, and is not sent in the clear by a page that knows the survey *)
(* is encrypted.  The server keeps each attempt at most once.              *)
(***************************************************************************)
CONSTANT Number     \* what attempts are numbered with

VARIABLES
    held,       \* an attempt keeps the next one from being begun
    begun,      \* the attempts so far
    stored,     \* those the server keeps
    removed     \* those its respondent deleted

vars == <<held, begun, stored, removed>>

Proper == [n : Number, complete : {TRUE}, agreed : {TRUE}, exposed : {FALSE}]

Init == held = FALSE /\ begun = {} /\ stored = {} /\ removed = {}

Begin ==
    /\ ~held
    /\ held' = TRUE
    /\ \E p \in Proper : /\ \A q \in begun : q.n # p.n
                         /\ begun' = begun \cup {p}
    /\ UNCHANGED <<stored, removed>>

Release ==
    /\ held
    /\ held' = FALSE
    /\ UNCHANGED <<begun, stored, removed>>

Store ==
    /\ \E p \in begun : /\ p.n \notin stored \cup removed
                        /\ stored' = stored \cup {p.n}
    /\ UNCHANGED <<held, begun, removed>>

Remove ==
    /\ \E n \in stored : stored' = stored \ {n} /\ removed' = removed \cup {n}
    /\ UNCHANGED <<held, begun>>

Next == Begin \/ Release \/ Store \/ Remove

Spec == Init /\ [][Next]_vars
=============================================================================
