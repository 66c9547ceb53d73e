SPECIFICATION Spec
CONSTANTS
    TimeEntry = {e1, e2}
    MaxHours = 3
    Squawk = {s1}
    Resolver = {r1, r2}
    Nobody = Nobody
    Reader = {q1}
    Programs <- MCPrograms
    FirstDay <- MCFirstDay
    MaxDays = 3
INVARIANTS
    WhicheverComesFirst
PROPERTIES
    OnlyOverrideOrStaleLowers
    GroundingNotMissed
    AnswerWasTrue
SYMMETRY MCSymmetry
CHECK_DEADLOCK FALSE
