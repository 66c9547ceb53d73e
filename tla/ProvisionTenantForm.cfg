SPECIFICATION FairFormSpec
CONSTANTS
    Request = {q1, q2}
    Acceptor = {a1, a2}
    Key = {k1, k2}
    ann = ann
    bob = bob
    Email = {ann, bob}
    Seats <- MCSeats
    Generated = {TRUE}
    None = None
INVARIANTS
    OneTenantPerKey
    AuditIsTrue
    AnswersAgree
    AcceptedOnce
    KeyIsForOneAnswer
    SuccessIsTrue
PROPERTIES
    AuditIsClosed
CHECK_DEADLOCK FALSE
