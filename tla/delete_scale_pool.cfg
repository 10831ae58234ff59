\* Deleting a scale on the pool main.go opens.
CONSTANTS
    NULL = NULL
    s1 = s1  s2 = s2  i1 = i1  i2 = i2
    Scale = {s1, s2}
    Item = {i1, i2}
    Participant = {p1}
    Consent = {}
    Sealed = {}
    Email = {e1}
    FkModes = {TRUE, FALSE}
    WritesFail = FALSE
    Slot = {r1, r2}
    Op = {"submit", "deleteScale"}
    SeedScales <- OneScale
    SeedItems <- ItemOfS1
    NewScales <- NoRows
    NewItems <- NoRows
    MaxAnswers = 1
    TurnstileSecret = FALSE
SPECIFICATION Spec

INVARIANT DeletedScaleIsEmpty

CHECK_DEADLOCK FALSE
