SPECIFICATION ServicesSpec
CONSTANTS
    Members = {u1, u2, u3}
    Slots = {s1, s2}
    FollowStores = {"mongo", "postgres"}
    NoMember = nobody
    MaxFollows = 2
    MaxMishaps = 1
    Emails = {e1, e2}
    Roles = {plain}
    DefaultRole = plain
    Desks = {a1, a2}
    Engines = {"mongo", "postgres"}
    NoEmail = none
    MaxUsers = 2
    MaxRequests = 3
    MaxErrs = 1
    Owners = {o1}
    Targets = {t1}
    Titles = {n1}
    Keepers = {b1, b2}
    BookmarkStores = {"postgres"}
    NoLabel = unlabelled
    MaxWrites = 2
    MaxFaults = 1
    Pings = {p1, p2, p3}
    MaxFailures = 3
    KeepAlerts = 2
    MaxFlips = 4
    Dashboards = {d1, d2}
    Sockets = {k1, k2, k3}
    NoSocket = nosocket
    MaxAttempts = 2
    Signals = {g1, g2}
    Calls = {c1}
    Stores = {"mongo", "postgres"}
    MaxOutages = 1
INVARIANTS
    ServicesTypesOK
    FollowsSound
    RegistrationsSound
    ChangeFollowsACode
    OneBookmarkPerTarget
    CacheFreshWhenQuiet
    AlertsTellStatus
    WatchedMeansMonitoring
    LifecycleSound
PROPERTIES
    StaleListsGoAway
    StatusRecovers
    LifecycleEnds
CHECK_DEADLOCK FALSE
