\* The connection pool as main.go opens it: any statement may run without foreign keys.
CONSTANTS
    NULL = NULL
    s1 = s1  s2 = s2  i1 = i1  i2 = i2
    Scale = {s1, s2}
    Item = {i1, i2}
    Participant = {p1}
    Consent = {c1}
    Sealed = {g1}
    Email = {e1}
    FkModes = {TRUE, FALSE}
    WritesFail = FALSE
    Slot = {r1, r2}
    Op = {"submit", "consent", "intake", "selfDelete", "adminDelete", "sealedDelete", "purge", "deleteItem", "deleteScale"}
    SeedScales <- OneScale
    SeedItems <- ItemOfS1
    NewScales <- NoRows
    NewItems <- NoRows
    MaxAnswers = 1
    TurnstileSecret = FALSE
SPECIFICATION Spec
SYMMETRY Symmetry
INVARIANTS AnsweredErasedIsGone PurgeIsComplete
PROPERTY AnsweredIsSettled
CHECK_DEADLOCK FALSE
