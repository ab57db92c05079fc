CONSTANTS
    created = created
    updated = updated
    w1 = w1
    w2 = w2
    t1 = t1
    t2 = t2
    t3 = t3
    None = None
    Entries = {created, updated}
    Workers = {w1, w2}
    JobIds = {t1, t2}
    MaxAttempts = 3
    RetryMaxSeconds = 3
    TicksPerSecond = 2
SPECIFICATION Spec
SYMMETRY Symmetry
INVARIANTS
    LoggedIffProcessed
PROPERTIES
    StrandedStays
    CleanupKeepsWork
    KeepsContract
