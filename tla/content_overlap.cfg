SPECIFICATION Spec
CONSTANTS
    Questions = {q1, q2}
    Answers = {a1}
    Workers = {w1, w2}
    Backends = {"mongo", "postgres"}
    None = None
    NoRow = NoRow
    MaxFailures = 1
SYMMETRY Symmetry
INVARIANTS
    ChainsAreSound
    AnswersStayLinked
CHECK_DEADLOCK FALSE
