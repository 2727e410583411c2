SPECIFICATION Spec
CONSTANTS
    Questions = {q1, q2, q3}
    Answers = {a1}
    Workers = {w1}
    Backends = {"mongo", "postgres"}
    None = None
    NoRow = NoRow
    MaxFailures = 0
INVARIANT DepthsRecomputed
CHECK_DEADLOCK FALSE
