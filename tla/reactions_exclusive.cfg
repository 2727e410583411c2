SPECIFICATION Spec
CONSTANTS
    Users = {u1, u2}
    Workers = {w1, w2}
    Backends = {"mongo"}
    NoDoc = NoDoc
    NoUser = NoUser
    MaxRequests = 4
INVARIANT MutuallyExclusive
CHECK_DEADLOCK FALSE
