SPECIFICATION FairSpec
CONSTANTS
    Parser = {p1, p2}
    Committer = {c1, c2, c3}
    Row = {1, 2}
    NaturalKey = FALSE
    None = None
    Manual = Manual
INVARIANTS
    BreadcrumbsAgree
    GuardQueryFindsNothing
PROPERTIES
    CommitIsAllOrNothing
    ValidatingIsLeft
CHECK_DEADLOCK FALSE
