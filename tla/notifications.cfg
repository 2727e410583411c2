SPECIFICATION FairSpec
CONSTANTS
    Messages = {m1, m2}
    Poison = {m1}
    Technologies = {"direct", "queue", "hybrid"}
    Prefetch = 2
    MaxLosses = 1
    MaxErrors = 2
INVARIANTS
    TypeOK
    AcksAreEarned
    DuplicatesNeedALoss
    AnswersAreTrue
PROPERTIES
    WorkEnds
    ImplementsDelivery
CHECK_DEADLOCK FALSE
