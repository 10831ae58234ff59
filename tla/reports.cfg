\* Two participants, items of five kinds, one change of a definition.
SPECIFICATION FoundedSpec
CONSTANTS
    Item = {1, 2}
    Participant = {"p1", "p2"}
    Lang = {"en", "zh"}
    English = "en"
    k1 = k1  k2 = k2
    Key = {k1, k2}
    ScaleDefs <- SmallScales
    ItemDefs <- ChoiceItems
    Recast <- Recasts
    Reads <- OneEach
    Signs <- OneSigns
    MaxOpen = 1
    Formats <- AllFormats
    MaxEdits = 1
    NULL = NULL
INVARIANTS
    TypeOK
    LabelIsChosen
    ColumnsOneSource
    NothingLost
    TotalOfAnswers
    AlphaOfAnswers
