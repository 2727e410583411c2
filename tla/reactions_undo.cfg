SPECIFICATION Spec
CONSTANTS
    Users = {u1, u2}
    Workers = {w1, w2}
    Backends = {"postgres"}
    NoDoc = NoDoc
    NoUser = NoUser
    MaxRequests = 4
INVARIANT UndoLikeKeepsDislikes
CHECK_DEADLOCK FALSE
