SPECIFICATION AdminSpec
CONSTANTS
    Tab = {t1}
    Slot = {c1, c2}
    Item <- SettingsItems
    Editable <- EditedFields
    MaxEdits = 1
    MaxSaves = 2
    NULL = NULL
    Window = {w1}
    MaxVisits = 2
    Langs = 2
    Label <- Texts
    Plain <- PlainTexts
    Length = 2
    MaxTicks = 2
    Join <- Joined
    Keys = {k1}
    Respondents = 2
SYMMETRY Interchangeable
INVARIANTS
    TypeOK
    ToldIsKept
    PageIsConfirmed
    SameTicksSameCell
