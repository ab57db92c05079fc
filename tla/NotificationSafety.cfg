CONSTANTS
    email = email
    w1 = w1
    w2 = w2
    t1 = t1
    t2 = t2
    t3 = t3
    None = None
    Entries = {email}
    Workers = {w1, w2}
    JobIds = {t1, t2, t3}
    MaxAttempts = 3
    RetryMaxSeconds = 3
    TicksPerSecond = 2
SPECIFICATION FairSpec
INVARIANTS
    TypeOK
    ClaimsAreExclusive
    SendsWithinBudget
PROPERTIES
    StrandedStays
    TriggerLostOnlyByComingEarly
    KeepsContract
    RestartsRecover
