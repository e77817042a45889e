\* A paid order beside other sales; two payments for the same types.
CONSTANTS
    standing = standing
    vip = vip
    r1 = r1
    r2 = r2
    Types = {standing, vip}
    Free = {standing}
    Refs = {r1, r2}
    Reqs = {q1, q2}
    Orders <- EitherWayAndSingle
    Stock = 1
    Quantities = {2}
    Shelves = {"outside_window"}
    Capacity = 3
    MaxPerUser = 1
    SaleLimit = 1
SPECIFICATION Spec
CONSTRAINT TwoPaymentsAlone
SYMMETRY Symmetric
INVARIANTS StockMatchesTickets AllOrNothing OnlyPaidIsDelivered
PROPERTIES StockMovesWithSales
