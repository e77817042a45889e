\* Fulfilled once?
CONSTANTS
    standing = standing
    vip = vip
    r1 = r1
    r2 = r2
    Types = {standing}
    Free = {}
    Refs = {r1}
    Reqs = {q1, q2}
    Orders <- OneType
    Stock = 2
    Quantities = {}
    Shelves = {}
    Capacity = 3
    MaxPerUser = 9
    SaleLimit = 0
SPECIFICATION Spec
SYMMETRY Symmetric
INVARIANT FulfilledOnce
