SPECIFICATION RowsSpec
CONSTANTS
    Field <- MCField
    None = None
    Regimes = {"FAA", "EASA"}
    Regime = "FAA"
    NNumber = {"N1", "N2", "N3"}
    RtsCode = {"R1"}
    Program = {"P1"}
    MaxDecimal = 8
    MaxInteger = 2100
    Cases <- MCCases
    Worlds <- MCWorlds
    MaxHours = 2
INVARIANTS
    StagedMappingIsSound
    CleanBatchGoesIn
CHECK_DEADLOCK FALSE
