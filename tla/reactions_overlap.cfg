SPECIFICATION Spec
CONSTANTS
    Users = {u1, u2}
    Workers = {w1, w2}
    Backends = {"mongo", "postgres"}
    NoDoc = NoDoc
    NoUser = NoUser
    MaxRequests = 5
SYMMETRY Symmetry
INVARIANTS
    TypeOK
    NoDuplicateVotes
    OneStancePerUser
    VotesWereAsked
    AcceptedVoteTakesEffect
    IndexFollows
CHECK_DEADLOCK FALSE
