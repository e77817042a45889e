\* Two overlapping requests; tasks that wait, fail and die; requests that die.
CONSTANTS
    Jobs = {j1, j2}
    Requests = {r1, r2}
    Tasks = {t1, t2}
    Window = 1
    Limit = 1
    MaxWait = 1
    MaxDeaths = 1
    MaxLost = 1
SPECIFICATION FairSpec
INVARIANTS AnswersAreCurrent
PROPERTY EveryExportEnds
