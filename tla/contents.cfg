SPECIFICATION ContentsSpec
CONSTANTS
    Users = {u1, u2, u3}
    Workers = {w1}
    Backends = {"mongo"}
    NoDoc = NoDoc
    NoUser = NoUser
    MaxRequests = 6
    MaxPosts = 3
    Limits = {1, 2}
    MaxChanges = 2
    Threads = {t1}
    Avatars = {v1}
    Backdrops = {g1}
    Clerks = {c1, c2}
    AssetStores = {"mongo", "postgres"}
    NoPlace = nowhere
    MaxFiles = 2
    MaxJobs = 3
    MaxAssetMishaps = 1
    Topics = {q1}
    Replies = {r1}
    MaxEdits = 2
    OldQuestions = {x1, x2, x3}
    OldAnswers = {y1}
    Missing = lost
    NoLink = unlinked
    MaxDepth = 3
    Visitors = {x0}
    RoleNames = {"user", "admin"}
    AccessStores = {"mongo", "postgres"}
    MaxCommands = 3
    MaxChores = 1
    Terms = {1, 2}
    Renewals = {r8, r9}
    MaxTime = 5
    MaxLogins = 1
    MaxRenewals = 2
    MaxUses = 1
INVARIANTS
    ContentsTypesOK
    PagesMakeTheList
    FilesFollowRows
    ReindexRepairs
    BackfillBuildsChains
    SeedRestores
    TokensFollowPassword
PROPERTIES
    ImplementsLedger
    ChecksAreTimely
CHECK_DEADLOCK FALSE
