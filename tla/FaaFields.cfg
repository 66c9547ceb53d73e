SPECIFICATION Spec
CONSTANTS
    n1 = n1
    n2 = n2
    make = make
    year = year
    Text <- MCText
    NNumber = {n1, n2}
    Field = {make, year}
    Value = {"a", "b"}
    normalizeForLookup <- MCNormalize
    Registries <- MCRegistries
    MaxRequests = 2
    Edited = {make}
    None = None
    Empty = ""
    NoValue = ""
    Optional = {year}
    lower <- MCLower
    MaxPosts = 2
    MaxDecisions = 2
    MaxVisits = 2
    MaxNights = 1
INVARIANTS
    LookupMatchesText
    ToldWhatHappened
    ShownIsRecorded
PROPERTIES
    DecidedIsNotAskedAgain
CHECK_DEADLOCK FALSE
