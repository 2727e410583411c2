SPECIFICATION SearchingSpec
CONSTANTS
    Questions = {q1, q2, q3}
    Answers = {a1, a2}
    Workers = {w1}
    Backends = {"mongo", "postgres"}
    None = None
    NoRow = NoRow
    MaxFailures = 0
    Words = {3, 4, 7}
    Edits = {1, 2}
    Typos = {2}
    MaxTokens = 3
    MaxWords = 3
    MaxSearches = 2
    MaxTickets = 2
    MaxTurns = 2
SYMMETRY Symmetry
INVARIANTS
    SearchingTypesOK
    ChainsFollowParents
    IndexMirrorsDatabase
    SearchFindsWhatIsMeant
    SmartSearchHolds
CHECK_DEADLOCK FALSE
