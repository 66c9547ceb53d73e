SPECIFICATION FairSpec
CONSTANTS
    f1 = f1
    f2 = f2
    None = None
    Field = {"regimeId", "yearManufactured", "aircraftId"}
    Table = {"aircraft", "flight_time_entries"}
    Tenant = {t1}
    Column = {"A", "B"}
    Word = {"x"}
    File = {f1, f2}
    fileOf <- MCFileOf
    LookupKind = {"component_by_serial"}
    MaxPicks = 2
    MaxEdits = 3
    MaxJobs = 2
    MaxVisits = 1
INVARIANTS
    ResultIsOfItsJob
    UploadIsWellFormed
PROPERTIES
    SubmittingEnds
CHECK_DEADLOCK FALSE
