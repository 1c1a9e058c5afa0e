CONSTANTS
    Thread = {t1, t2}
    Client = {c1}
    Minute = 1
    Hour = 2
    PerMinute = 2
    PerHour = 2
    MaxSessions = 2
    Nobody = Nobody
    MaxRequests = 3
    MaxTime = 2
SPECIFICATION Spec
PROPERTY StatusAnswered
CHECK_DEADLOCK FALSE
