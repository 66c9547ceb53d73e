SPECIFICATION MCSpec
CONSTANTS
    Run = {r1, r2}
    User = {u1, u2}
    DueSoonDays = 2
    Leads = {0}
    CalendarDriven = TRUE
    Horizon = 1
    BatchSize = 1
    None = None
INVARIANTS
    LedgerKeepsItsEmail
    LedgerAndOutboxAgree
    AtMostOneEmailUnlessOverlapped
PROPERTIES
    SelectedIsSettled
CHECK_DEADLOCK FALSE
