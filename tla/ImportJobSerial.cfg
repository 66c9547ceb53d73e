SPECIFICATION SerialSpec
CONSTANTS
    Parser = {p1, p2, p3}
    Committer = {c1, c2, c3}
    Row = {1, 2}
    NaturalKey = FALSE
    None = None
    Manual = Manual
INVARIANTS
    OneLiveRowPerSourceRow
PROPERTIES
    LifecycleSpec
CHECK_DEADLOCK FALSE
