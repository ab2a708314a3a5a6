SPECIFICATION OrdersSpec
CONSTANTS
    u1 = u1
    d1 = d1
    p1 = p1
    w1 = w1
    i1 = i1
    i2 = i2
    Users = {u1}
    Datasets = {d1}
    Plans = {}
    Workers = {w1}
    TrailingDays = {0}
    FallbackDays = 1
    RowVersioned = FALSE
    NoMember = NoMember
    NoDataset = NoDataset
    NoExpiry = NoExpiry
    NoInvoice = NoInvoice
    Invoices = {i1, i2}
    MaxEvents = 6
    MaxCrashes = 1
    MaxClock = 0
CHECK_DEADLOCK FALSE
INVARIANT AccessFollowsOrders
SYMMETRY Symmetry
