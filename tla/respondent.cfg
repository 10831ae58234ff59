CONSTANTS
    Key <- Keys
    WellFormed <- WellFormedKeys
    Visits <- SevenVisits
    NItems = 2
    RequiredItem = {2}
    Kind <- Kinds
    Values <- Entries
    MaxAttempts = 2
    MaxSigns = 2
    MaxTokens = 1
SPECIFICATION FairSpec
INVARIANTS TypeOK ContextIsResponse
PROPERTIES PromiseKept SubmissionSettles
CHECK_DEADLOCK FALSE
