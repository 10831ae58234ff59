\* Hard deletes run to their end beside submissions and the deletion and
\* re-creation of items and scales, every connection enforcing foreign keys.
CONSTANTS
    NULL = NULL
    s1 = s1  s2 = s2  i1 = i1  i2 = i2
    Scale = {s1, s2}
    Item = {i1, i2}
    Participant = {p1}
    Consent = {}
    Sealed = {}
    Email = {e1}
    FkModes = {TRUE}
    WritesFail = FALSE
    Slot = {r1, r2, r3}
    Op = {"submit", "selfDelete", "adminDelete", "deleteScale", "deleteItem", "createScale", "addItems"}
    SeedScales <- OneScale
    SeedItems <- ItemOfS1
    NewScales <- OneScale
    NewItems <- ItemOfS1
    MaxAnswers = 1
    TurnstileSecret = FALSE
SPECIFICATION FairSpec
INVARIANT ErasedIsGone
PROPERTY ErasureCompletes DataPromise
CHECK_DEADLOCK FALSE
