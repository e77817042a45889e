\* One sign-in or refresh beside one request that changes the account.
CONSTANTS
    Tokens = {t1, t2}
    Codes = {c1}
    SignIns = {s1}
    Changes = {a1}
    AccessTTL = 1
    RefreshTTL = 2
    RedisFails = TRUE
    MaxVersion = 2
SPECIFICATION Spec
INVARIANTS NoneOutlivesAKill
PROPERTY EndedStaysEnded
SYMMETRY Renamings
