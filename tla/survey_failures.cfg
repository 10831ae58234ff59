\* Any write may fail and be logged.
CONSTANTS
    NULL = NULL
    s1 = s1  s2 = s2  i1 = i1  i2 = i2
    Scale = {s1, s2}
    Item = {i1, i2}
    Participant = {p1}
    Consent = {c1}
    Sealed = {g1}
    Email = {e1}
    FkModes = {TRUE}
    WritesFail = TRUE
    Slot = {r1, r2}
    Op = {"submit", "consent", "intake", "selfDelete", "sealedDelete", "purge", "deleteScale", "deleteItem", "createScale", "addItems"}
    SeedScales <- PlainAndGuarded
    SeedItems <- ItemOfS1
    NewScales <- OneScale
    NewItems <- ItemOfS1
    MaxAnswers = 1
    TurnstileSecret = TRUE
SPECIFICATION Spec
SYMMETRY Symmetry
INVARIANTS TypeOK ReferentialIntegrity ConsentMatchesForm

CHECK_DEADLOCK FALSE
