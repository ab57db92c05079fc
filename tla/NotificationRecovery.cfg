CONSTANTS
    email = email
    w1 = w1
    w2 = w2
    t1 = t1
    t2 = t2
    t3 = t3
    None = None
    Entries = {email}
    Workers = {w1}
    JobIds = {t1, t2}
    MaxAttempts = 2
    RetryMaxSeconds = 300
    TicksPerSecond = 2
SPECIFICATION OutageSpec
PROPERTY RecoveryIsAutomatic
