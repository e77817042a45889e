\* One organizer, no task: what the ballot promises, for overlapping voters.
CONSTANTS
    k1 = k1
    v1 = v1
    v2 = v2
    m1 = m1
    s1 = s1
    Categories = {c1}
    Candidates = {a, b}
    Voters = {u1, u2}
    Members = {}
    Sessions = {r1, r2}
    Organizers = {o1}
    Operations <- LaidOut
    Beat = FALSE
    Salts = {}
    LastTick = 2
    MaxEdits = 1
SPECIFICATION MCFairSpec
PROPERTIES KeepsThePromise BallotLocked PollingSettles
\* A part may come to its bounds.
CHECK_DEADLOCK FALSE
