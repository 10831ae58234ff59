---------------------------- MODULE MCRespondent ----------------------------
(* A small instance of RespondentPage for TLC.                              *)
EXTENDS RespondentPage

Keys == {"A", "a", "withdrawal", "data_use", "recording"}
WellFormedKeys == Keys \ {"A"}

Opt(key, required) == [key |-> key, required |-> required, group |-> 0]
Numbered(n) == [form |-> "bracket", number |-> n, arg |-> ""]
Element == [form |-> "element", number |-> 0, arg |-> "options"]

Plain ==
    [e2ee |-> FALSE, turnstile |-> FALSE, perPage |-> 1,
     collectEmail |-> "off", options |-> <<Opt("a", TRUE)>>,
     signature |-> FALSE, template |-> <<>>]

(* Two options of the author's own, one ill-formed, placed by number.       *)
Placed == [Plain EXCEPT !.perPage = 0,
                        !.options = <<Opt("A", FALSE), Opt("a", TRUE)>>,
                        !.template = <<Element, Numbered(1)>>,
                        !.signature = TRUE]

Sealed == [Plain EXCEPT !.e2ee = TRUE, !.perPage = 0]
Guarded == [Plain EXCEPT !.turnstile = TRUE, !.collectEmail = "required",
                         !.perPage = 0]

Calm(s) == [survey |-> s, failing |-> {}, switches |-> 0, reloads |-> FALSE]

SevenVisits ==
    {[Calm(Plain) EXCEPT !.reloads = TRUE],
     [Calm(Plain) EXCEPT !.switches = 1],
     [Calm(Plain) EXCEPT !.failing = {"items", "sign"}],
     [Calm(Sealed) EXCEPT !.reloads = TRUE],
     [Calm(Sealed) EXCEPT !.failing = {"meta"}],
     [Calm(Guarded) EXCEPT !.failing = {"sign"}],
     Calm(Placed)}

Kinds == <<"text", "multiple">>
Entries == <<{}, {"empty", "option"}>>
=============================================================================
