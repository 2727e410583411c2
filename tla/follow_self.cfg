SPECIFICATION FollowersSpec
CONSTANTS
    Members = {u1, u2}
    Slots = {s1}
    FollowStores = {"mongo", "postgres"}
    NoMember = nobody
    MaxFollows = 2
    MaxMishaps = 1
INVARIANT NobodyFollowsThemselves
CHECK_DEADLOCK FALSE
