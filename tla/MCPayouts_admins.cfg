\* Organizers one at a time, two admins paying and reviewing.
CONSTANTS
    Rows = {p1, p2}
    Transfers = {t1, t2}
    Organizers = {o1}
    Admins = {a1, a2}
    Sale = 6005
    MaxRevenue = 12010
    Rates = {1000, 800}
    Amounts = {}
    MinPayout = 5000
    MaxPayout = 10000
    Answers = {"success", "pending"}
    Verdicts = {"paid", "rejected"}
SPECIFICATION Spec
SYMMETRY Symmetric
INVARIANTS OnePendingRequest PaidIsBacked
