\* Liveness under the fairness of the beat, one part at a time.
CONSTANTS
    k1 = k1
    d1 = d1
    v1 = v1
    m1 = m1
    o1 = o1
    Tickets = {t1, t2}
    Scanners = {s1}
    Holders = {h1}
    Sweeping = TRUE
    Grace = 1
    EventDates = {0, 1}
    LastDay = 3
SPECIFICATION MCFairSpec
PROPERTIES LeftoversExpire ExpiredIsClosed StartsOnSchedule EveryBackupSettles
\* A part may come to its bounds.
CHECK_DEADLOCK FALSE
