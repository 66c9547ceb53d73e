SPECIFICATION Spec
CONSTANTS
    Entry = {m1, m2}
    Signer = {s1, s2}
    User = {mechanic, student}
    mechanic = mechanic
    student = student
    Credential = {c1}
    NewCredential <- MCNewCredential
    Manager = {a1, a2}
    CredentialType <- MCCredentialType
    Changer = {g1, g2}
    Regime = {FAA, CARS}
    FAA = FAA
    CARS = CARS
    MaxDay = 1
    Null = Null
PROPERTIES
    VerifiedAtOneMoment
SYMMETRY MCSymmetry
CHECK_DEADLOCK FALSE
