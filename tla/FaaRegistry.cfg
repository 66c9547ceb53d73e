SPECIFICATION Spec
CONSTANTS
    Aircraft = {n1}
    Body <- MCBody
    MaxDay = 2
    MaxFaults = 1
    MaxRejects = 1
    Backfill = TRUE
    None = None
INVARIANTS
    EndsAreExplained
    ChangeLogMatchesHistory
    AsOfIsSnapshot
    FreshnessIsHonest
