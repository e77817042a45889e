\* Liveness: one payment, redelivered until it is answered.
CONSTANTS
    standing = standing
    vip = vip
    r1 = r1
    r2 = r2
    Types = {standing}
    Free = {}
    Refs = {r1}
    Reqs = {q1, q2}
    Orders <- OneType
    Stock = 1
    Quantities = {0}
    Shelves = {"on_sale", "inactive"}
    Capacity = 3
    MaxPerUser = 9
    SaleLimit = 0
SPECIFICATION FairSpec
PROPERTY PaymentsResolve
